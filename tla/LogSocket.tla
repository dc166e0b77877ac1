------------------------------- MODULE LogSocket -------------------------------
(* LogSocket (logclient/socket.ts): one WebSocket to the log namespace of the  *)
(* Homebridge UI, opened again whenever it is lost, whose text comes out of    *)
(* stdout() as lines.  #runLoop, #connect (under retry() of util.ts), #stream  *)
(* and the stdout() generator each keep a position here; the server, the       *)
(* connection and the log file it reads are the environment.                   *)
(*                                                                             *)
(* Two event-loop facts matter.  The frames of one read are handled in one     *)
(* turn ("turn" counts those still to come), and no promise continuation runs  *)
(* before that turn is over: the listener #stream installs is not there yet    *)
(* for a frame that shared the read with the one that resolved #connect.       *)
(*                                                                             *)
(* Bounds: MaxConns connections, MaxLog lines, MaxWall seconds, MaxWire frames *)
(* on the way, one ping a connection.                                          *)
EXTENDS LogLines

CONSTANTS HighWater,   \* stdoutHighWater
          SeedLen,     \* lines of the log the server sends when asked to tail it
          Cuts,        \* how many characters short of its text a frame may stop
          CoreSpeaks,  \* the seconds in which the core may log something itself
          MaxConns, MaxLog, MaxWall, MaxWire

ASSUME SocketAssumption ==
  /\ {HighWater, SeedLen, MaxConns, MaxLog, MaxWire} \subseteq Nat /\ HighWater > 0
  /\ CoreSpeaks \subseteq Nat
  /\ Cuts \subseteq Nat /\ MaxWall \in Nat /\ MaxWall > 1

VARIABLES
  log,        \* the log file, a sequence of lines
  wall,       \* the clock, in seconds
  refreshable,\* the credential can mint another token
  loop,       \* #runLoop: token, connecting, backoff, streaming or done
  aborted,    \* signal.reason, "no" while the socket lives
  conns,      \* WebSockets opened so far
  ws,         \* readyState of the latest one: none, open or closed
  link,       \* its connection: up, cut (by the peer) or wedged (silent)
  srv,        \* the server's side of the handshake
  tx,         \* text the server has yet to send
  wire,       \* frames on the way to the client
  turn,       \* frames of the current read still to be handled
  handshake,  \* the promise of #connect: pending, ok, failed or denied
  sessionOver,\* session.controller.signal.aborted
  watchdog,   \* the liveness timer of the session is armed
  pinged,     \* the ping of this connection: none, sent, answered or missed
  deaf,       \* log text reached a listener that ignores it
  carry,      \* LogLineSplitter.#carry
  queue,      \* #stdoutQueue
  dropped,    \* #droppedLines
  drained,    \* the snapshot stdout() is yielding
  gen,        \* stdout(): idle, pulled, waiting (on #stdoutWaiter) or done
  seedFrom,   \* the line of the log the last seed began with, 0 without one
  slot        \* what the last next() resolved to, until its caller takes it

server == <<link, srv, tx, wire, seedFrom>>
session == <<handshake, sessionOver, watchdog, pinged, deaf, carry>>
output == <<queue, dropped, drained, gen, slot>>
sockVars == <<log, wall, refreshable, loop, aborted, conns, ws, server, turn, session, output>>

LineText == Nat \cup {Fragment, Preamble}
Frame(kind) == [kind |-> kind, text |-> <<>>]
NewLine(l) == <<l, LF, CR>>

SocketTypeOK ==
  /\ log \in Seq(Nat) /\ wall \in 1..MaxWall /\ refreshable \in BOOLEAN
  /\ loop \in {"token", "connecting", "backoff", "streaming", "done"}
  /\ aborted \in {"no", "shutdown", "parent", "failed", "timeout"}
  /\ conns \in 0..MaxConns /\ ws \in {"none", "open", "closed"}
  /\ link \in {"up", "cut", "wedged"}
  /\ srv \in {"hello", "greeted", "joining", "joined", "asked", "tailing"}
  /\ turn \in 0..MaxWire /\ Len(wire) <= MaxWire
  /\ handshake \in {"pending", "ok", "failed", "denied"}
  /\ {sessionOver, watchdog, deaf} \subseteq BOOLEAN
  /\ pinged \in {"none", "sent", "answered", "missed"}
  /\ Len(queue) <= HighWater /\ dropped \in Nat
  /\ gen \in {"idle", "pulled", "waiting", "done"} /\ Len(slot) <= 1

(* The constructor starts the loop; "live" says whether there is a socket,     *)
(* "canRefresh" what kind of credential it has.                                *)
SocketInit(lines, live, canRefresh) ==
  /\ log = lines /\ wall = 2 /\ refreshable = canRefresh
  /\ loop = (IF live THEN "token" ELSE "done") /\ aborted = "no" /\ conns = 0 /\ ws = "none"
  /\ link = "up" /\ srv = "hello" /\ tx = <<>> /\ wire = <<>> /\ turn = 0
  /\ seedFrom = 0 /\ handshake = "pending" /\ sessionOver = FALSE /\ watchdog = FALSE
  /\ pinged = "none" /\ deaf = FALSE /\ carry = <<>>
  /\ queue = <<>> /\ dropped = 0 /\ drained = <<>> /\ gen = "idle" /\ slot = <<>>

-------------------------------------------------------------------------------
(* #enqueueStdout of each line: the oldest ones give way at the high-water     *)
(* mark.  Any line wakes a stdout() that waits.                                *)
Enqueue(lines) ==
  /\ queue' = TakeLast(queue \o lines, HighWater)
  /\ dropped' = dropped + (Len(queue \o lines) - Len(queue'))
  /\ gen' = IF lines # <<>> /\ gen = "waiting" THEN "pulled" ELSE gen

(* abort() and an abort of the parent signal: whatever listens to the composed *)
(* signal runs at once.  #teardown closes the session and wakes stdout(); an   *)
(* attempt under way is rejected and its WebSocket closed.                     *)
Abort(reason) ==
  IF aborted # "no" THEN UNCHANGED <<aborted, handshake, sessionOver, watchdog, ws, tx, wire, gen>>
  ELSE /\ aborted' = reason
       /\ ws' = (IF ws = "open" THEN "closed" ELSE ws) /\ tx' = <<>> /\ wire' = <<>>
       /\ handshake' = IF loop = "connecting" /\ handshake = "pending" THEN "failed" ELSE handshake
       /\ sessionOver' = (sessionOver \/ loop = "streaming")
       /\ watchdog' = FALSE
       /\ gen' = IF gen = "waiting" THEN "pulled" ELSE gen

-------------------------------------------------------------------------------
(* #connect up to the WebSocket: the token is there.  The provider is asked    *)
(* before the signal is looked at, so an attempt aborted meanwhile still opens *)
(* a WebSocket, and closes it at once.                                         *)
OpenWebSocket ==
  /\ loop = "token" /\ (conns < MaxConns \/ aborted # "no")
  /\ conns' = IF conns < MaxConns THEN conns + 1 ELSE conns
  /\ link' = "up" /\ srv' = "hello" /\ tx' = <<>> /\ wire' = <<>> /\ seedFrom' = 0
  /\ handshake' = "pending" /\ sessionOver' = FALSE /\ watchdog' = FALSE /\ pinged' = "none"
  /\ IF aborted = "no" THEN ws' = "open" /\ loop' = "connecting"
                       ELSE ws' = "closed" /\ loop' = "done"
  /\ UNCHANGED <<log, wall, refreshable, aborted, turn, deaf, carry, output>>

(* The retry around #connect gives up: the socket was aborted, which it takes  *)
(* for an orderly end, or the failure is permanent, which ends the socket.     *)
GiveUp ==
  /\ loop' = "done"
  /\ IF aborted = "no"
     THEN aborted' = "failed" /\ gen' = (IF gen = "waiting" THEN "pulled" ELSE gen)
     ELSE UNCHANGED <<aborted, gen>>

(* The token is refused: transiently (5xx, 429, no network), which the retry   *)
(* waits out, or for good (401, 403, 412, 400, an answer without a token).  A  *)
(* static token involves no request, so nothing is refused.                    *)
TokenRefused ==
  /\ loop = "token" /\ refreshable
  /\ \/ aborted = "no" /\ loop' = "backoff" /\ UNCHANGED <<aborted, gen>>
     \/ GiveUp
  /\ UNCHANGED <<log, wall, refreshable, conns, ws, server, turn, session, queue, dropped, drained,
                 slot>>

(* The delay between two attempts ends, or is cut short by the abort. *)
BackoffEnds ==
  /\ loop = "backoff"
  /\ loop' = IF aborted = "no" THEN "token" ELSE "done"
  /\ UNCHANGED <<log, wall, refreshable, aborted, conns, ws, server, turn, session, output>>

\* A bug: the watchdog waits for the first ping.
WatchedFromFirstPing ==
  loop' = "streaming" /\ sessionOver' = (aborted # "no") /\ watchdog' = FALSE

(* #stream up to its wait: it arms the watchdog and, should the socket have    *)
(* been aborted meanwhile, ends at once.                                       *)
StreamBegins ==
  loop' = "streaming" /\ sessionOver' = (aborted # "no") /\ watchdog' = (aborted = "no")

(* The continuation of "await connected". *)
ConnectSettled ==
  /\ loop = "connecting" /\ handshake # "pending"
  /\ CASE handshake = "ok" -> StreamBegins /\ UNCHANGED <<ws, aborted, gen>>
       [] handshake = "failed" ->
            /\ ws' = "closed" /\ loop' = IF aborted = "no" THEN "backoff" ELSE "done"
            /\ UNCHANGED <<sessionOver, watchdog, aborted, gen>>
       [] handshake = "denied" ->
            /\ ws' = "closed" /\ GiveUp /\ UNCHANGED <<sessionOver, watchdog>>
  /\ UNCHANGED <<log, wall, refreshable, conns, server, turn, handshake, pinged, deaf, carry, queue,
                 dropped, drained, slot>>

-------------------------------------------------------------------------------
\* A bug: the log is asked for together with the namespace.
AsksTooEarly(frame) ==
  /\ srv' = CASE frame.kind = "open" -> "asked"
              [] OTHER -> srv
  /\ handshake' = IF handshake # "pending" THEN handshake
                  ELSE CASE frame.kind = "stdout" -> "ok"
                         [] OTHER -> handshake

(* What #connect's message listener, which stays in place, does with a frame:  *)
(* it joins the namespace, asks for the log and resolves, or is refused.       *)
OnHandshakeFrame(frame) ==
  /\ srv' = CASE frame.kind = "open" -> "joining"
              [] frame.kind = "connect" -> "asked"
              [] OTHER -> srv
  /\ handshake' = IF handshake # "pending" THEN handshake
                  ELSE CASE frame.kind = "connect" -> "ok"
                         [] frame.kind = "refuse" -> IF refreshable THEN "failed" ELSE "denied"
                         [] OTHER -> handshake

(* #handleStreamMessage, once #stream has installed it: a ping is answered and *)
(* arms the watchdog again, a chunk of the log is split into lines.            *)
OnStreamFrame(frame) ==
  CASE frame.kind = "ping" -> /\ pinged' = "answered" /\ watchdog' = TRUE
                              /\ UNCHANGED <<carry, queue, dropped, gen, deaf>>
    [] frame.kind = "stdout" ->
         /\ \E buffer \in {carry \o frame.text} : \E breaks \in {Breaks(buffer)} :
              /\ carry' = RestAt(buffer, breaks)
              /\ \E lines \in {LinesAt(buffer, breaks)} : Enqueue(lines)
         /\ UNCHANGED <<pinged, watchdog, deaf>>
    [] OTHER -> UNCHANGED <<pinged, watchdog, carry, queue, dropped, gen, deaf>>

(* Before that nobody listens for either. *)
OnUnheardFrame(frame) ==
  /\ pinged' = IF frame.kind = "ping" THEN "missed" ELSE pinged
  /\ deaf' = (deaf \/ frame.kind = "stdout")
  /\ UNCHANGED <<watchdog, carry, queue, dropped, gen>>

(* A "message" event: the next frame of this read, or the first of a new read, *)
(* which begins in a turn of its own.                                          *)
OnMessage ==
  /\ ws = "open" /\ wire # <<>>
  /\ turn' \in IF turn > 0 THEN {turn - 1} ELSE {0, Len(wire) - 1}
  /\ wire' = Tail(wire)
  /\ OnHandshakeFrame(Head(wire))
  /\ IF loop = "streaming" THEN OnStreamFrame(Head(wire)) ELSE OnUnheardFrame(Head(wire))
  /\ UNCHANGED <<log, wall, refreshable, loop, aborted, conns, ws, link, tx, seedFrom, sessionOver, drained,
                 slot>>

(* The "error" or "close" event of a connection the peer has cut: the attempt  *)
(* fails, or the session is over.                                              *)
OnClose ==
  /\ ws = "open" /\ link = "cut" /\ wire = <<>>
  /\ ws' = "closed"
  /\ handshake' = IF loop = "connecting" THEN "failed" ELSE handshake
  /\ sessionOver' = (sessionOver \/ loop = "streaming")
  /\ watchdog' = (watchdog /\ ~sessionOver')
  /\ UNCHANGED <<log, wall, refreshable, loop, aborted, conns, link, srv, tx, wire, seedFrom, turn, pinged,
                 deaf, carry, output>>

(* The watchdog fires: its window is longer than a live server's ping interval *)
(* and timeout, so only silence outlasts it.                                   *)
WatchdogFires ==
  /\ watchdog /\ link = "wedged" /\ wire = <<>>
  /\ watchdog' = FALSE /\ sessionOver' = TRUE
  /\ UNCHANGED <<log, wall, refreshable, loop, aborted, conns, ws, server, turn, handshake, pinged,
                 deaf, carry, output>>

(* The rest of #stream once the session is over: what the splitter held back   *)
(* comes out, the WebSocket is closed, and the loop goes round.                *)
StreamEnds ==
  /\ loop = "streaming" /\ sessionOver
  /\ Enqueue(Flush(carry)) /\ carry' = <<>>
  /\ ws' = "closed" /\ watchdog' = FALSE
  /\ loop' = IF aborted = "no" THEN "token" ELSE "done"
  /\ tx' = <<>> /\ wire' = <<>>
  /\ UNCHANGED <<log, wall, refreshable, aborted, conns, link, srv, seedFrom, turn, handshake,
                 sessionOver, pinged, deaf, drained, slot>>

-------------------------------------------------------------------------------
(* stdout(): next() is answered from the snapshot being drained, then from the *)
(* queue, which becomes the next snapshot; with both empty the generator ends  *)
(* if the socket has been aborted, and waits otherwise.                        *)
Pull == gen = "idle" /\ gen' = "pulled"

StdoutStep ==
  /\ gen = "pulled"
  /\ \E source \in {IF drained # <<>> THEN drained ELSE queue} :
       IF source # <<>>
       THEN /\ slot' = <<Head(source)>> /\ drained' = Tail(source)
            /\ queue' = (IF drained # <<>> THEN queue ELSE <<>>) /\ gen' = "idle"
       ELSE /\ gen' = (IF aborted = "no" THEN "waiting" ELSE "done")
            /\ UNCHANGED <<slot, drained, queue>>
  /\ UNCHANGED <<log, wall, refreshable, loop, aborted, conns, ws, server, turn, session, dropped>>

-------------------------------------------------------------------------------
(* The environment.  The server greets, accepts or refuses the namespace, and, *)
(* asked for the log, sends its tail from a byte offset and then what is added *)
(* to it.  It pings once.                                                      *)
CanSend == ws = "open" /\ link = "up" /\ Len(wire) < MaxWire

TextOf(lines) ==
  [i \in 1..(3 * Len(lines)) |-> NewLine(lines[(i + 2) \div 3])[((i - 1) % 3) + 1]]

SeedText ==
  NewLine(Preamble) \o (IF Len(log) > SeedLen THEN NewLine(Fragment) ELSE <<>>)
    \o TextOf(TakeLast(log, SeedLen))

ServerAnswers ==
  /\ CanSend
  /\ \/ srv = "hello" /\ srv' = "greeted" /\ wire' = Append(wire, Frame("open"))
     \/ srv = "joining" /\ srv' = "joined"
        /\ \E kind \in {"connect", "refuse"} : wire' = Append(wire, Frame(kind))
  /\ UNCHANGED <<log, wall, refreshable, loop, aborted, conns, ws, link, tx, seedFrom, turn, session, output>>

ServerTails ==
  /\ ws = "open" /\ link = "up" /\ srv = "asked"
  /\ srv' = "tailing" /\ tx' = SeedText
  /\ seedFrom' = Len(log) - Len(TakeLast(log, SeedLen)) + 1
  /\ UNCHANGED <<log, wall, refreshable, loop, aborted, conns, ws, link, wire, turn, session, output>>

ServerSends ==
  /\ CanSend /\ tx # <<>>
  /\ \E short \in Cuts :
       /\ short < Len(tx)
       /\ \E n \in {Len(tx) - short} :
            /\ wire' = Append(wire, [kind |-> "stdout", text |-> SubSeq(tx, 1, n)])
            /\ tx' = SubSeq(tx, n + 1, Len(tx))
  /\ UNCHANGED <<log, wall, refreshable, loop, aborted, conns, ws, link, srv, seedFrom, turn, session, output>>

ServerPings ==
  /\ aborted = "no" /\ CanSend /\ srv = "joined" /\ pinged = "none"
  /\ pinged' = "sent" /\ wire' = Append(wire, Frame("ping"))
  /\ UNCHANGED <<log, wall, refreshable, loop, aborted, conns, ws, link, srv, tx, seedFrom, turn, handshake,
                 sessionOver, watchdog, deaf, carry, output>>

(* The peer goes away or falls silent; what was on the way is lost with it.    *)
LinkFails ==
  /\ ws = "open" /\ link = "up"
  /\ link' \in {"cut", "wedged"} /\ wire' = <<>> /\ tx' = <<>>
  /\ UNCHANGED <<log, wall, refreshable, loop, aborted, conns, ws, srv, seedFrom, turn, session, output>>

(* What Homebridge may log in this second: an entry of a plugin, or one of its *)
(* own core, which names no plugin.                                            *)
Entries == {10 * wall + Len(log)} \cup (IF wall \in CoreSpeaks THEN {10 * wall + 9} ELSE {})

LogGrows ==
  /\ Len(log) < MaxLog
  /\ \E l \in Entries :
       /\ log' = Append(log, l)
       /\ tx' = IF srv = "tailing" /\ link = "up" THEN tx \o NewLine(l) ELSE tx
  /\ UNCHANGED <<wall, refreshable, loop, aborted, conns, ws, link, srv, wire, seedFrom, turn, session, output>>

Tick ==
  /\ wall < MaxWall /\ wall' = wall + 1
  /\ UNCHANGED <<log, refreshable, loop, aborted, conns, ws, server, turn, session, output>>

(* Promise continuations, which run before anything else happens, and the      *)
(* events of the loop, each in a turn of its own.                              *)
SocketContinues == turn = 0 /\ (ConnectSettled \/ StreamEnds \/ StdoutStep)

SocketEvent ==
  OpenWebSocket \/ TokenRefused \/ BackoffEnds \/ OnMessage \/ OnClose \/ WatchdogFires

SocketBusy ==
  \/ loop = "connecting" /\ handshake # "pending"
  \/ loop = "streaming" /\ sessionOver
  \/ gen = "pulled"

(* An aborted socket has closed its connection and notices nothing any more.   *)
Environment ==
  /\ aborted = "no"
  /\ ServerAnswers \/ ServerTails \/ ServerSends \/ LinkFails \/ LogGrows

-------------------------------------------------------------------------------
(* The loop is over only when the WebSocket it opened last is closed, and it   *)
(* opens another only after that.                                              *)
SocketsClosed ==
  /\ loop \in {"token", "backoff", "done"} => ws # "open"
  /\ aborted # "no" => ws # "open"
================================================================================
