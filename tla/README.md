# Verification of homebridge-plugin-utils

TLA+ models of the concurrent parts of homebridge-plugin-utils, the TLC runs
that check them on small instances, and proofs checked by TLAPS. Source paths
below are relative to the repository root.

## 1. Inventory

The repository is a library. Almost everything that is hard in it comes from one
idiom: an object owns an `AbortController`, every way its life can end goes
through one `abort(reason)`, and promises, timers, queues and child processes
are tied to that signal. JavaScript runs one task at a time, so races happen
only across `await`, event handlers and timers, but there they are many.

| Component | State | Operations | Interacts with | Hard behaviour | What makes it correct |
|---|---|---|---|---|---|
| **RateBudget** (`src/rate-budget.ts`) | grant times, the promise chain, lifetime signal | `acquire`, `available` | clock, callers' signals | a timer, a call's signal and the lifetime race at the head of a chain | no window over-granted; aborted calls cost nothing; the chain never stalls |
| **BackpressureWriter** (`src/backpressure.ts`) | queue, processing flag, current stream | `write`, drain loop, dispose | a stream that can fill, fail, close, be replaced | state used after the wait for "drain" | FIFO, each write settled once, bounded queue, dispose ends |
| **Mp4SegmentAssembler** (`src/ffmpeg/mp4-assembler.ts`, `mp4-parser.ts`) | parser carry, init promise, segment parts, queue, waiter, watchdog | stdout data, `segments()`, `stream()`, abort | FFmpeg stdout, HomeKit reader | end in mid-box, abort in mid-yield, lost wakeups | whole segments, in order, at most once; always comes to rest |
| **FfmpegProcess** (`src/ffmpeg/process.ts`) | child, ready and exited promises, startup timer | spawn, abort, dispose | the operating system | exit, error, timeout and abort in any order | promises settle once; no child survives its owner |
| **Recording process** (`src/ffmpeg/record.ts`) | one of each of the above two | bridge of two lifetimes | both | aborts that bounce | the two lifetimes agree; a stalled child is killed |
| **PluginConfigSession** (`ui/pluginConfigSession.mjs`) | replica of the plugin configuration, generation | `commit`, `sync` | Homebridge host, Settings form | stale reads, whole-blob writes | replica agrees with host when nothing is in flight |
| **Persist effect** (`ui/webUi-featureOptions/effects/persist.mjs`) | pending flag, drain, anchor | mutate, debounce, flush | page store, session | edits during a write, refused writes | one writer, honest rollback, drains end |
| **Feature-options page and tabs** (`ui/webUi-featureOptions.mjs`, `ui/webUi.mjs`) | page cycle, store, flush handle, visible tab | `show`, `hide`, tab clicks | all of the above | clicks that wait in each other's flush | no settings clobbered, tabs always open |
| **MqttClient** (`src/mqttClient.ts`) | topic table, registrations, transport | subscribe, get/set handlers, publish, dispose | broker | reentrant dispatch, reconnect, stale signals | no handler after its signal; table and broker agree |
| **FeatureOptions** (`src/featureOptions.ts`) | catalog index, configured entries, lookup index | load, set, clear, rewrite, enumerate, resolve | plugin, page, hand-edited files | one address in many spellings, first entry wins | all readers agree; an edit takes effect, and only where it was made |
| **RTP ports, demuxer, streaming process** (`src/ffmpeg/rtp.ts`, `stream.ts`) | ports in use, a call's stack of entries, one UDP socket, two watchdogs | `reserve`, dispose, packets, heartbeat | kernel ports, FFmpeg, the far end | a port is released to the system before it is bound; a watchdog armed by the first packet | no port leased twice; silence is noticed; FFmpeg is kept fed |
| **Timer registry, disposal stacks** (`src/timer-registry.ts`, `src/async-disposable-stack.ts`) | keyed timers; deferred disposers | set, clear, defer, move, dispose | callbacks | callbacks that call back in, disposers that throw | every timer cleared; every disposer run once |
| **Log client** (`src/logclient/`) | connection loop, bounded queue, seed gate, download | `connect`, `stdout`, `tail`, `runHblog` | Homebridge UI, the shell | frames of one read, a cut connection, download against live lines | no line lost at a join; a run ends when it should |
| **Device page** (`ui/webUi-featureOptions/` state, selectors, views; `ui/webUi-liveness.mjs`) | store, boot, open requests, view cache, status panel | boot, selection, gestures, search, retry, pushes | host bridge, helper process | answers out of order, rows painted into views that leave and return | newest list stands, rows say what the store says, page settles |
| **Codecs probe, FFmpeg options, command lines** (`src/ffmpeg/codecs.ts`, `options.ts`, `record.ts`) | probed capabilities, corrected configuration | `probe`, decoder, encoder, filters, `hardwareEncodes` | FFmpeg, plugin | a trial that fails, a command that hangs, filters that need frames in the right memory | only proven hardware is named; frames are where each filter works |

All of these are modelled, some partly; `PROJECT.json` says which, names the
components that are left aside with the reasons, and lists the hazards, each at
its line.

How they interact: plugins hold an `FfmpegRecordingProcess`, which owns a child
and an assembler; HomeKit pulls segments from it. `BackpressureWriter` sits in
front of a child's stdin or a socket. `RateBudget` paces calls to outside
services. The settings page is a program of its own, in a browser: tabs, a page
with a store, an effect that persists the store through the session, and the
host that keeps the configuration. A camera plugin probes FFmpeg once, builds
command lines from what it found, and for each session reserves ports and runs a
streaming process, a demuxer or both. `hblog` is a program of its own, in a shell.

## 2. Plan

Done, in this order, the most important behaviour first:

1. `SlidingWindow` (abstract) and `RateBudget`, run `rate_budget`, proofs.
2. `OrderedWriter` (abstract) and `BackpressureWriter`, run `writer`, proofs.
3. `SegmentFeed` (abstract) and `Mp4SegmentAssembler`, run `assembler`, proofs.
4. `FfmpegProcess`, and `RecordingProcess`, which composes it with the
   assembler (it extends the assembler's module), run `recording`, proofs.
5. `PluginConfigSession`, `PersistEffect`, and `FeatureOptionsPage`, which
   composes them with the tabs, run `page`, proofs.
6. `TopicSubscriptions` (abstract) and `MqttClient`, run `mqtt`, proofs.
7. `FeatureOptions`, run `features`.
8. `LogLines`, `LogSocket`, `LogClient`, and `HblogRun`, which composes them
   with the command line, run `log_client`, proofs.
9. `OptionRows`, `StatusPanel`, and `DevicePage`, which composes them with the
   store, run `device_page`, proofs.
10. `PortLeases` (abstract), `RtpPortAllocator` with proofs, `RtpDemuxer`,
    `StreamingProcess` (on `FfmpegProcess`), `TimerRegistry`, `DisposalStack`,
    and `StreamSession`, which composes them, run `stream_session`, proofs of
    the composition.
11. `FfmpegCodecs`, `FfmpegOptions`, and `VideoCommands`, which composes them,
    run `video_commands`, proofs.

To model next: `FfmpegExec`, and the filters and time expressions of the log
client. Modules to be proved about hold no RECURSIVE operator and state their
invariants as conjunctions of named parts.

## 3. Modules and their code

**RateBudget.** Constants: the calls, the capacity, the window, `Early` (how much
before its time a timer may fire, since the code compares a wall clock with a
monotonic one), and two bounds on the clock used by TLC only. One action per
step of the code: `Acquire`, `RunTurn` (prune, test, then grant or wait),
`DelayFires`, `DelayAborted`, `DelayBroken` (a custom clock's `delay` rejects),
`HandOver` (the chain link resolves), `Settle` (the caller's promise), and the
aborts of a call and of the lifetime. `log` is a history variable: all grants
there ever were, where the code keeps only the pruned tail `grants`.

**BackpressureWriter.** `drain` is where the loop is: idle, running, parked at
its wait, or woken, broken or cancelled and not yet resumed. `entry` is the
loop's local. Stream events are actions of their own: drain, fail, close,
replacement by another stream. `sent` is the order in which chunks went out.

**Mp4SegmentAssembler.** The parser's input is a script of boxes, cut into chunks
that may end inside a box (a box is two units long, so there is an inside).
`header`, `collecting`, `initParts`, `segmentParts`, `segmentQueue`, `watchdog`
are the fields; `phase`, `own`, `batch` are the locals of each running
`segments()` generator. `got` is history.

**FfmpegProcess, RecordingProcess.** `child` tells an unspawned child from a
running, a dead one node has not reported, and one that is gone. The composition
ties each step of one side with the reaction of the other (`Follow`, `Bridge`),
for an abort reaches its listeners in the same turn.

**PluginConfigSession, PersistEffect, FeatureOptionsPage.** `host` is what is on
disk, `held` the session's replica, `writes` and `reads` what is in flight. Each
`show()` is a cycle with its own effect and, once it gets that far, the current
store. The host takes writes in the order sent and answers whenever it likes,
with success or failure, or never. `clicks` are the tab clicks that wait in
`hide()`; those that wait for the same drain resume together, and of the tabs
they then show, the one clicked last stays (clicks on other tabs carry a number).

**MqttClient.** `subs` is the client's table, `wanted` what mqtt.js keeps
subscribed at the broker, `hooks` the abort listeners that registrations with a
signal leave behind, `link` the transport. A message puts its snapshot of
handlers in `rest`; while `running` is a handler, every call on the client is
enabled, for a handler may make any of them. `setter` follows the set handlers,
whose work outlives the dispatch. `regs` is history: what was registered and
that nothing should have ended.

**FeatureOptions.** A text is a sequence of characters, so that a delimiter, a
blank, the case of a letter and a name that only begins like another are what
they are in the code. `Parse` is `parseEntry`; index, matcher, rewriter and
enumeration are built on it as there. `categories`, `options`, `configured`,
`catalog` and `index` are the fields of the class, one action per setter and
edit.

**LogLines, LogSocket, LogClient, HblogRun.** A log is a sequence of numbers, a
line's text with its timestamp in the tens; a line may be cut across frames. The
code reads that timestamp in two ways, and so does the model: the gate of the seed
looks at the first bracket only (`IsLogLineStart`), while a record, by which the
coverage is decided and a window judged, has a time only where a plugin's bracket
follows (`TimeOf`). A line of Homebridge's own core, whose text ends in 9, has
the first and not the second. `LogLines` holds the pure algorithms (splitter, seed gate, `takeLast`, the join,
the time window). In `LogSocket` `loop`, `handshake`, `gen` say where `#runLoop`,
`#connect` and the `stdout()` generator stand; `turn` counts the frames of one
read still to be handled, and no continuation runs before it is 0. `LogClient` is
one call of `tail()`, `phase` the place of its generator, with the download
beside it. `HblogRun` turns flags, environment and file into a request, writes
records to stdout, and has an exit code.

**OptionRows, StatusPanel, DevicePage.** `s` is the store, one record, and each
action of the reducer a function on it. `OptionRows` is the projection a row
shows and what a click on it writes. `boot` is where `show()` stands, `fetches`
the device lists clicks have asked for, `table` the table with its cache of views
that left the page. The focus of the browser is not a variable: `HandleFocusOut`
may stand an armed row down at any time, and any other gesture may come while a
row is armed, for the focus can leave such a row by way of its own checkbox, which
disarms nothing. `Reenter`, a retry or a refresh, starts with `hide()`, so
`revealed` is FALSE until the boot gets to where it reveals the page. `StatusPanel`
has `panel`, the closure of the panel with the watchdog over its requests, and
`host`, the helper process with what it has sent.

**PortLeases, RtpPortAllocator.** `inUse` is `#inUse`; `call` is where each
`reserve()` stands, up to the handle it returned, `first` and `attempt` its
locals, `bound` the ports on which the machine has a socket. What a pending call
has entered sits on its own stack (`Deferred`). The bind is awaited; close, look
and entry are the step that ends the wait, as in the code. `PortLeases` knows
leases only.

**RtpDemuxer, StreamingProcess, TimerRegistry, DisposalStack, StreamSession.**
The demuxer and the monitor of the return port have a watchdog each; every end is
one abort that settles the promises and closes the socket in one turn. Registry
and stack are records with functions on them, because their callbacks run inside
the step. `StreamSession` puts a session together as the examples in the
documentation of `rtp.ts` and `stream.ts` do; the owner is marked external.

**FfmpegCodecs, FfmpegOptions, VideoCommands.** `probe` is where the chain of
child processes stands and what it has learnt; each command may succeed, fail,
hang until its timeout, or be cancelled. `FfmpegOptions` is functions of a
configuration and capabilities: what the constructor corrects, which decoder and
encoder, which filters in which order. `VideoCommands` builds the three kinds of
command line, two of them through `record.ts`. A filter is its name and the
memory it works in.

Definitions whose comment begins "A bug:" are not part of any specification. They
are the forms the mutation checks put in place of the real ones.

## 4. Runs

A run whose constants need no definition checks the module itself; the others
have an MC module that gives the constants their values.

| Run | Instance | What it shows |
|---|---|---|
| `rate_budget` | 3 calls, 2 slots, window 2, timers 1 early | invariants of the window and chain, no slot after rejection, every call settles, refines `SlidingWindow` |
| `writer` | 3 writes, queue of 2, 2 streams | queue and loop agree, refines `OrderedWriter`, writes settle unless the stream closed silently, dispose ends |
| `assembler` | 6 boxes (init, then two segments with a stray box inside one), 2 readers, 2 chunks queued | boxes accounted for, phases agree, refines `SegmentFeed`, readers are served, everything comes to rest, silence is noticed |
| `recording` | 3 boxes, 1 reader, startup timer | the lifetimes agree, a stalled child is killed, dispose ends, ready settles |
| `page` | 2 cycles, 3 edits, 1 Settings edit, 2 clicks elsewhere | one writer, anchor and replica match the host, honest rollback, settings kept, tabs open and drains end |
| `page_overlap` | 3 cycles, 2 edits, overlapping clicks | **violated**: two persist effects write at once |
| `mqtt` | 2 topics, a handler of each kind, 1 signal, 1 publish | table, wire and hooks agree, nothing starts after an abort, refines `TopicSubscriptions` |
| `features` | 2 catalogs, files of up to 2 entries out of 24, up to 3 calls | readers of the format agree, edits take effect, edits are local |
| `log_client` | 2 connections, 4 log lines, seed of 2, queue of 3, 4 seconds, the command lines of `MCScenes` | sockets are closed and no text arrives unheard, no hole at a join, windows start right, runs end, a silent server is given up |
| `device_page` | 2 controllers, 1 device, 1 status row, 2 pushes, 2 sessions, 2 helper generations, 2 requests, the scenes of `McScenes` | newest list stands, rows and cells say what the store says, a click does what it asked, the page settles, a dead helper shows |
| `stream_session` | 3 callers, ports 1 to 3 of which 2 may be taken by others, 2 attempts, 3 timers, four scenes | refines `PortLeases`, no timer or resource escapes, sessions end when the far end is silent, FFmpeg is kept fed |
| `video_commands` | 6 hosts, 2 FFmpeg versions, 3 inventories, 2 accelerators, 8 configurations, 72 requests | only proven hardware and listed encoders are named, answers about capability are kept, frames in place, the probe ends |

`page_overlap` is a disagreement between the code and its own documentation,
quoted in `PROJECT.json` under "findings". Section 8 lists others, which have no
run.

Why the bounds suffice. `rate_budget`: three calls for two slots is the least
that makes one call wait on a full window with another queued behind it; the
horizon lets the window slide past all grants. `writer`: three writes and a
ceiling of two reach the refusal, a head in the drain wait with one queued
behind, and a second drain on a replaced stream. `assembler`: two segments, so
that one is queued while another is read; two generators in turn, so that a
second inherits what a first left. `page`: an edit before, during and after a
write needs three; two cycles let the late answers of the first meet the second.
`mqtt`: three handlers on two topics let a handler in mid-dispatch remove the one
after it, add one, and end the client. `features`: two entries are the least that
can spell one address twice, in every pair of spellings; an entry loaded and a
call made count alike against the bound of three, so a file of one entry sees two
edits in a row. `log_client`: four lines are a seed of two with one before and
one after it; a second connection is where what the first left behind would
show; a queue of three overflows; lines of the core stand in the
logs of three scenes, on either side of a bound, and in one second (`CoreSpeaks`)
one may arrive live. `device_page`: two requests can be answered out
of order, and two sessions, pushes and generations let a push of a replaced
session or a dead helper come late; a scene allows a few gestures of one sort,
for gestures of different sorts meet in the store only. One scene arms two rows of
value options one after the other. `stream_session`: three
ports for three callers, one of them wanting a pair, make draws collide; two
attempts reach the refusal. `video_commands`: nothing is bounded but the
catalogues, which hold each kind of platform on both sides of each threshold the
code tests. CHECK_DEADLOCK is off everywhere, since each of these objects can be
finished for good.

Two exemptions of the `page` run are deliberate in the code: `NothingStale`,
`OneWriter` and `SettingsKept` say nothing once a `hide()` has stopped waiting
for a silent host (`gaveUp`), for that is the trade its comment documents.
`ShowsOverlap = FALSE` keeps a second click on the options tab out of it; what
that click does is `page_overlap`.

The `features` run keeps three things out of its inputs, which the code reads
otherwise than one would think. A legacy entry whose identifier is empty or ends
in a blank (`Enable.Audio.Volume..50`) is rewritten to an entry of another
address. A boolean option named below a value option (`Audio.Mute` where
`Audio` takes a value) is read as that option's value. An identifier that holds
a dot, or is spelt like an option's last segment, has no address of its own.

Other premises stand in the properties themselves: `EveryoneAnswered` of the
writer lets a write wait on a stream that closed silently; `NoHole` and
`WindowStartsRight` speak of one connection that never lost a line to the
high-water mark, and of the lines the client takes to be in the window (`AskedFor`;
item 13 of section 8 says how it judges the lines of the core); `DeviceInv` lets
a row that another one took over from look armed (item 12); `FramesInPlace` leaves
out the commands of items 7 to 9, and `MqttInv` is checked with `Reuse = FALSE`
(item 4).

## 5. Fairness

Weak fairness on what the event loop does by itself: ready continuations,
expired timers, the reactions of promises. Of the world only this:

- the clock advances; a killed child dies and node reports it; an *open* full
  stream is eventually read from; a reader of segments asks for the next item
  until it leaves;
- log client: a frame on the wire of an open connection is delivered, a closed
  connection is reported, a download goes on or fails. That stdout is read is a
  premise (`[]<>(caller = "ready")`) of the one part of `RunsEnd` that needs it;
- device page: boot, fetches and the retry come to an answer or to their
  deadline, and so do the panel's requests;
- session: the owner does its next step and stops after an abort, the allocator
  answers once asked, a socket reports. The watchdogs' windows lapse under
  fairness only once the far end is gone;
- probe: the timeout of a command fires; nothing makes a command end by itself.

Nothing obliges a caller to call or to abort, a source to emit, to end or to
fail, a server or a far end to send, or the host to answer; that drains end, in
`PageMovesOn`, is therefore stated under the premise that the host keeps
answering.

## 6. Proofs

`RateBudgetProofs` (for every set of calls, capacity, window and earliness):

- `BudgetInvariant`: `Spec => []IInv`. The ceiling (`WindowBound`) is not
  inductive: it needs that `grants` is a tail of `log` and that what was pruned
  from it had left the window (`GrantsAreRecentLog`), and that the log is sorted
  (`LogOrdered`). The chain (`ChainOrdered`) needs ticket numbers: all in front
  of the head are over, all behind have not begun.
- `Ceiling`, a corollary: no trailing window ever holds more than the capacity.
- `NoSlotForRejected`: the action property, from the same invariant.
- `Refinement`: every step is a step of `SlidingWindow` or a stutter. The grant
  is the interesting case: the head of the chain is the oldest waiting call
  (`ChainOrdered`) and the pruned list has room only if the log does
  (`RoomInWindow`).

`BackpressureWriterProofs` (for every set of writes and streams and every
ceiling): `WriterInvariant`, in which `LoopOwnsHead` is the strengthening that
ties the loop's local to the queue's head, and `Refinement` to `OrderedWriter`.

`RecordingProofs` (for any boxes, cut into chunks in any way, any readers and
timers and any bound on the chunks queued), the assembler first and the
composition on its lemmas:

- `AssemblerCorrect`: every box of the feed is in the parser, the queue or a
  segment, once and in order, and promise, phase flag, timer and generators
  agree. The invariant holds of every step only with the conjunct of
  `PhasesAgree` that a rejected init promise means the assembler is over.
- `AssemblerFeeds`: every step is a step of `SegmentFeed` or a stutter. The
  number of segments made is the number of boxes that end one, so the next
  segment has exactly one place it can end.
- `RecordingCorrect`: child and assembler end together, for one reason. Two facts
  strengthen it (`RInv`): the assembler's timer is off once it is over
  (`PhasesAgree`), and the process knows how its child ended (`EndIsKnown`).

`MqttClientProofs` (for every set of topics, handlers, signals and any bound
on the messages):

- `MqttCorrect` and `AbortIsFinal` (`NothingStartsAfterAbort`). The invariant
  needs `OneEach`: a listener of a signal belongs to a subscription that is
  there, one listener to each, so that what an abort takes away is what was
  subscribed under it. `SnapshotOnce` says that the walk over a topic's handlers
  names each of them once, and so tells each of them once.
- `MqttContract`: every step is a step of `TopicSubscriptions` or a stutter. It
  assumes `~Reuse`, that a function is not subscribed again to a topic it was
  unsubscribed from while its signal lives: with reuse it is the code that
  departs from the contract (section 8), and the theorem is false.

`StreamingProofs`, on the sessions (for every set of callers, ports, attempts and
timers), the allocator first and the composition on its lemmas:

- `AllocatorCorrect`: `inUse` is at every moment the disjoint union of what the
  handles and the pending calls hold. That is the invariant that makes a second
  disposal of a handle harmless: once empty, it frees nothing, though its port
  may be another's by then.
- `AllocatorLeases`: every step, retries and aborts included, is a step of
  `PortLeases` or a stutter. The refinement needs the invariant where a
  reservation is returned: what a call entered, nobody else holds.
- `SessionCorrect`: the owner's state says exactly what it has acquired, and the
  list of the unwinding says what is still ahead, what is awaited and what is
  gone. A socket is bound only while its port is reserved, which is why the
  order of the disposal stack matters; the lemmas on `TimerRegistry` show that no
  timer escapes a registry that is disposed of in a callback of its own timers.
- `SessionLeases`: what the session does to the allocator is a step of
  `PortLeases` or a stutter.

`StreamingProofs`, on the video commands (for every host, every option and any
filters callers bring that run in system memory):

- `VideoCorrect`: what the probe leaves in the set of accelerators has passed its
  trial or is still to be tried, the corrected configuration asks for nothing
  outside that set, and a command is one that the two build.
- `FramesCorrect` (`FramesInPlace`): in every chain of filters each one finds its
  frames where it reads them. The chain is joined from segments, each of which
  says from where to where it takes the frames.

`FeatureOptionsPageProofs` (for any number of cycles, edits and clicks, and a host
that answers, refuses or is silent as it likes). They assume `~ShowsOverlap`, that
the options tab is not clicked again while a click on it waits: with such clicks
it is the code that breaks `OneWriter` (run `page_overlap`). `IInv` has two halves.
The first always holds: what a cycle has left on the page says how far its
`show()` came (`Stages`), one waiting click at most opens the page (`Clicks`), each
edit makes a content no one has seen (`Contents`), and a write belongs to the one
drain that awaits it (`Drains`). The second, `Honest`, holds until a `hide()` gives
up: a torn-down page has no drain left, every click waits for the page on display,
and that page is clean while another tab is shown (`Quiet`); so its anchor and the
replica cannot be older than what the host holds (`FreshOptions`, `FreshRest`), and
the generation of a read keeps a late one from undoing that.

- `PageCorrect`: `Spec => []PageInv`. `NothingStale` needs both halves of `Honest`;
  `OneWriter` follows as only the page on display has a drain.
- `RollbackHonest`: a drain that writes knows, by `pending`, of every edit made
  since it took its snapshot, so a refused write takes back only what it carried.
- `SettingsSafe`: a drain starts only while the options tab is shown, and by
  `FreshRest` each write carries the settings the host holds.

`DevicePageProofs` (for any catalog, any controllers, devices, views and scopes,
and a host and helper that answer, push and fail in any order):

- `InductivePage`: `Spec => [](PageIInv /\ GesturesIInv)`, which needs the two
  together. `DevicesIInv` is about the store and the rows. A row on display is what
  the store paints, or it was armed until another row took over and still looks it
  (`RowShows`); such a row is off, here and above, which only `ArmedOK` of
  `GesturesIInv` can say, as it is a fact about the row while it was armed. That the
  rows on display are those of the store is not inductive alone, as the table is
  more than what is displayed: categories that are closed or whose view is in the
  cache hold rows painted for a state long gone. Of these it says only that they are rows (`IsTable`); each return to the
  display walks over them first, and a walk makes of any row the one the store
  derives, whatever it held before (`TableShows`, once the page has loaded). That
  the list that stands is the last one asked for needs what `StoreOK` says of the
  requests: one that is waited for is the last one made and is for the controller
  in view, and if none is, the list applied is that of the last one made. Until
  the page has loaded, `NotLoadedOK` says, nothing is shown, fetched or written.
  `PanelIInv` is about the status panel: its cells are those of the device on view,
  and no session or generation it has noted is ahead of the helper's (`TokensOK`), nor is that of
  any message under way (`HostOK`), else one message could shut out all later ones.
- `PageShowsItsState`: `Spec => []DeviceInv`, the invariants of the run.
- `ClicksWork`: `OffersKeepLevels => (Spec => GesturesTakeEffect)`. Of the
  resolution, that what is written at the scope of a view is heard there and that
  what is cleared falls back to what is above (`WrittenIsHeard`, `ClearedFallsBack`,
  `TransitionTakes`). Of the page, `GesturesIInv`: a device in view is of the list
  of the controller it stands under (`PlaceOK`), so the row that is offered is heard
  (`OfferedIsHeard`); a row that is armed is off by an entry of its own or by
  default, not by inheriting it (`ArmedOK`), so that a second click, which disarms
  it, shows it off; and of a boot or a refresh, that each request is answered once
  (`TicketsOK`), so only the answer that is awaited can put another list under the
  view. The hypothesis is about the plugin. An option declared for controllers and
  not for devices has its row on the view of any device (`selectors.mjs:329-355`),
  and `validOption` is left to say which devices it is for
  (`featureOptions.ts:152`). Where a plugin offers such a row to a device that is not
  the controller, a click writes an entry at a level no resolution of the option
  reads, and the row stays as it was. The catalog of `device_page` satisfies the
  hypothesis (`McOffers`, which TLC evaluates).

`HblogRunProofs` (for any scenes, any log and any cut of it into frames, any order
of frames, failures, reads and signals, and any high-water mark):

- `RunCorrect`: `Spec => []LogInv`. `NothingUnheard`, that no text of the log
  arrives while `#connect` still listens, needs `Protocol`: it says for each stage
  of the handshake which frames can be on their way, and so that the server has
  not been asked for text before the listener for it is there. `NoTruncatedSuccess`
  needs `WholeLog`, which follows a download from the answer to the last line: what
  is shown and what is still to be shown together are the whole history until
  something fails, and a failure is thrown before the stream can close; and
  `Ended`, that success means a stream closed, by itself or by the user.

Two conventions of the proofs. A CASE whose guards overlap has one of several
values: where the proofs expand a chain of conditions of the code, it is written
with guards that exclude each other, or with IF. And where a fact about all elements of a finite set had to be had by induction (the k-th element of a set
of breaks in a text), it goes by the least counterexample.

Assumptions: `RateBudgetAssumption`, `WriterAssumption`, `AllocatorAssumption`,
`AssemblerAssumption`, `RecordingAssumption`, `MqttAssumption`,
`SessionAssumption`, `NoneAssumption`, `CyclesAssumption`, `PageAssumption`,
`CodecsAssumption`, `OptionRowsAssumption`, `StatusPanelAssumption`,
`DevicePageAssumption`, `SocketAssumption`, `SkipAssumption` and
`ScenesAssumption`, which only type the constants and keep `None` and `Nothing`
apart from what they stand beside (`SocketAssumption` also wants a high-water
mark, and a clock with room for a second; `DevicePageAssumption` says which lists of
devices a page of each mode can be given); and `VideoAssumption`, that the filters
callers bring run in system memory, as `options.ts:160` demands of them.

Only model-checked: all liveness (it needs fairness). `NoHole` and
`WindowStartsRight` of the log client: which lines come out of the splitter, the
gate and the join is recursion over the text. `FeatureInv`, `EditsTakeEffect` and
`EditsAreLocal` of the feature options, recursion over the configured entries.

## 7. Not modelled

- In the first modules: malformed MP4 bytes; a stream provider that throws;
  logging; renderers and number parsing of feature options; the redaction of
  broker URLs; the first run of the page; a wall clock that steps back.
- The settlement of the init promise seen by a reader is one step, not the two
  microtasks it takes; and one reader pulls at a time, as the code demands.
- Log client: filters, `--level`, the grammar of time expressions and rendering;
  a window's bounds are given as times. The connect phase has no timeout of its
  own in the code, so a server that accepts and stays silent holds a run until
  it is aborted.
- Device page: labels, counts, glyphs, the secret field, the keyboard, and where the
  focus is (more gestures are therefore possible in the model than at a keyboard);
  the timing rules of the resume detector; one device and no re-entry of the
  page in the panel's scene.
- Session: addresses and payloads; a callback of a timer does one operation.
- Video: what the commands print, with the parsers for it; sizes, rate control,
  profiles and levels; audio inputs and muxer options; the HAP enum table;
  `FfmpegExec`, which collects the output of a process.
- Whole components: theming and small effects of the page; box builders; HAP
  helpers; documentation generators; command line and loader; polyfills, test
  doubles, build tooling. They are pure or sequential, or not part of the
  product.

## 8. Divergences seen while modelling

These have no run of their own. Each follows from the model of the named module,
and where a property needs it, the property says so.

1. Writer: a stream that is destroyed without an error emits neither "drain" nor
   "error"; the loop waits for ever, and so do all later writes
   (`backpressure.ts:322`, against `:87` and `:120`).
2. Assembler: a `segments()` that starts after the source has ended yields
   nothing, though segments may be queued (`mp4-assembler.ts:303`, against
   `:281` and `:358`).
3. Persist effect: a revert during a write, to the array that is the anchor,
   looks clean and never reaches the host (`persist.mjs:178`, against `:23`).
4. MQTT: the abort listener of a registration removes the handler by identity, so
   the signal of an earlier subscription ends a later one of the same function
   (`mqttClient.ts:806`, against `:526`). With `Reuse = TRUE` the run `mqtt`
   shows it.
5. Log client: a permanent failure ends the stream like a success and the run
   exits 0 (`cli-run.ts:765`, against `:566` and `:699`).
6. Device page: a gesture in a controller's view whose list is empty or failed
   writes at global scope (`views/options.mjs:657`, `rendering.mjs:274`).
7. Options: with decoding and encoding both in hardware, crop, which works in
   system memory, gets frames of the GPU (`options.ts:1346`, against `:1143`).
8. Options: where `videoDecoder` falls back to software (AV1 on silicon too old,
   an unknown codec; `options.ts:905`, `:939`, `:966`) the encoder's chain still
   counts on GPU frames. The reverse happens below FFmpeg 8: `record.ts:281`
   tells the encoder there is no hardware decoding while `:308` asks for it.
9. Recording: a caller's own filters become a second `-filter:v`, which replaces
   the encoder's chain (`record.ts:323`); with a livestream they meet
   `-codec:v copy`.
10. Allocator: a draw of a port already in use repeats without counting as an
    attempt (`rtp.ts:657`), so the ceiling the comment promises bounds binds,
    not draws. A draw in the model is of the ports not in use.
11. Probe: an abort or timeout during the trials leaves a probe that answers,
    with accelerators silently removed (`codecs.ts:778`, against the
    documentation at `:351`). The AV1 decoder of QSV is named without having been
    listed.
12. Device page: a second value row can be armed while the first is. From an empty,
    armed field Shift+Tab goes to the checkbox of its own row, which is no
    abandonment (`views/options.mjs:708`), and focus that leaves that checkbox is
    not looked at (`:696`). A click on the checkbox of another value row then arms
    that one; the store stands the first down ("arming a second row implicitly
    stands the first down", `state.mjs:475`), but only the row clicked is painted
    (`:669-673`), so the first looks armed, ticked and open to typing, until the
    next walk. `RowsAreDerived` says what such a row is: off (`LeftArmed`).
13. Log client: a line of Homebridge's own core has a timestamp and no plugin's
    name. For the seed gate it is a genuine entry (`parser.ts:401-406`), but its
    record has no timestamp (`:59`, `:219-226`), so a window judges it like a
    continuation of the line before it (`time-window.ts:51-60`): it is dropped from
    the head of the window when that line is older, and shown past the end of the
    window when that line is inside.

Smaller things a reader of the models will meet. A seed is shown twice when the
download ends before it comes, and again after a reconnect. `tokenProvider` does
not heed its signal. The memo of the projection leaves out the controller of the
list (`selectors.mjs:322`). Requests share one watchdog, so an answer to one may
leave another unwatched. An answer for a controller that comes after the user
went to the global view moves the scope there. A second `disposeAsync` returns at
once, while the first still unwinds. Static payload types 1 to 90 are taken for
RTCP. The heartbeat fires only when RTCP itself stalls.
