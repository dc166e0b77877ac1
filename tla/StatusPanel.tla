---------------------------- MODULE StatusPanel ----------------------------
(***************************************************************************)
(* The live status panel of views/statusPanel.mjs with the request         *)
(* watchdog of webUi-liveness.mjs, and behind the bridge the plugin's      *)
(* helper process, which pushes the events of src/webui-status.ts, may     *)
(* die, and may come back as a new one.                                    *)
(***************************************************************************)
EXTENDS Integers, Sequences, Functions

CONSTANTS
  Devices, Rows,
  Latch,        \* row -> its momentary value
  Values,       \* what a row may say
  Nothing,      \* no device, undefined
  MaxPushes, MaxSession, MaxGeneration, MaxWire, MaxRequests  \* bounds

ASSUME StatusPanelAssumption == Nothing \notin Devices \cup Values

VARIABLES
  panel,  \* the closure of mountStatusPanelView, and what its grid shows
  host    \* the bridge and the helper

panelVars == <<panel, host>>

\* The map f with v at k.
Put(f, k, v) == [j \in DOMAIN f \cup {k} |-> IF j = k THEN v ELSE f[j]]

Connecting == [status |-> "connecting", message |-> Nothing, rows |-> {}, values |-> <<>>, latched |-> {}]

EntryFor(p, d) == IF d \in DOMAIN p.deviceState THEN p.deviceState[d] ELSE Connecting
Value(e, r) == IF r \in DOMAIN e.values THEN e.values[r] ELSE ""

-----------------------------------------------------------------------------
(* What the panel shows.                                                   *)

BuildPanel(p, d) ==
  LET e == EntryFor(p, d)
  IN  [status  |-> IF p.linkLost THEN "link lost" ELSE e.status,
       message |-> IF p.linkLost THEN "link lost" ELSE e.message,
       cells   |-> [r \in e.rows |-> Value(e, r)]]

RefreshPanel(p) ==
  IF p.viewed = Nothing THEN p ELSE [p EXCEPT !.shown = BuildPanel(p, p.viewed)]

RenderPanel(p) == RefreshPanel([p EXCEPT !.linkLost = FALSE])

\* One span, unless the overlay of a lost link goes with it.
RenderStatus(p) ==
  IF p.linkLost THEN RenderPanel(p)
  ELSE [p EXCEPT !.shown.status = EntryFor(p, p.viewed).status]

RenderRow(p, r) ==
  IF p.linkLost THEN RenderPanel(p)
  ELSE IF r \in DOMAIN p.shown.cells
       THEN [p EXCEPT !.shown.cells[r] = Value(EntryFor(p, p.viewed), r)] ELSE p

-----------------------------------------------------------------------------
(* The watchdog: one timer for all that is asked.                          *)

Watch(p) == [p EXCEPT !.pending = TRUE]
Cancel(p) == [p EXCEPT !.pending = FALSE]

Asked(h) == [h EXCEPT !.asked = @ + 1, !.requests = @ + 1, !.owed = ~h.alive]

\* A bug: the deadline of the device left behind is dropped last.
ViewThenCancel(p, d) == Cancel(Watch([p EXCEPT !.viewed = d, !.linkLost = FALSE]))

ViewAnother(p, d) == Watch([Cancel(p) EXCEPT !.viewed = d, !.linkLost = FALSE])

\* No device, the device already there, or another one, which is asked for.
ShowDetails(d) ==
  \/ /\ d = Nothing
     /\ panel' = [Cancel(panel) EXCEPT !.viewed = Nothing, !.linkLost = FALSE, !.shown = Nothing]
     /\ UNCHANGED host
  \/ /\ d # Nothing /\ d = panel.viewed
     /\ panel' = RefreshPanel(panel) /\ UNCHANGED host
  \/ /\ d # Nothing /\ d # panel.viewed
     /\ panel' = RefreshPanel(ViewAnother(panel, d)) /\ host' = Asked(host)

MountStatusPanel ==
  [viewed |-> Nothing, linkLost |-> FALSE, pending |-> FALSE, deviceState |-> <<>>,
   highestToken |-> <<>>, generation |-> 0, shown |-> Nothing]

-----------------------------------------------------------------------------
(* Pushes.                                                                 *)

Kinds ==
  [kind : {"connecting", "error"}]
    \cup [kind : {"availability"}, online : BOOLEAN]
    \cup [kind : {"row"}, row : Rows, value : Values]
    \cup [kind : {"snapshot"}, values : UNION {[r -> Values] : r \in SUBSET Rows}]

ApplyLatch(e, r, value) ==
  IF r \notin e.rows \/ Latch[r] = Nothing THEN e
  ELSE [e EXCEPT !.latched = IF value = Latch[r] THEN @ \cup {r} ELSE @ \ {r}]

Reduced(e, ev) ==
  CASE ev.kind = "connecting"   -> [e EXCEPT !.status = "connecting"]
    [] ev.kind = "availability" -> [e EXCEPT !.status = IF ev.online THEN "connected" ELSE "disconnected"]
    [] ev.kind = "error"        -> [e EXCEPT !.status = "error", !.message = "error"]
    [] ev.kind = "row" ->
         ApplyLatch([e EXCEPT !.values = Put(@, ev.row, ev.value)], ev.row, ev.value)
    [] ev.kind = "snapshot" ->
         [status  |-> "connected", message |-> Nothing,
          rows    |-> DOMAIN ev.values, values |-> ev.values,
          latched |-> {r \in e.latched : r \notin DOMAIN ev.values \/ Latch[r] = Nothing}
                        \cup {r \in DOMAIN ev.values : ev.values[r] = Latch[r]}]

Rendered(p, ev) ==
  IF p.viewed # ev.device THEN p
  ELSE CASE ev.what.kind \in {"connecting", "availability"} -> RenderStatus(p)
         [] ev.what.kind = "row" -> RenderRow(p, ev.what.row)
         [] OTHER -> RenderPanel(p)

\* A late push of a session that has been replaced is dropped.
HandleDeviceEvent(p, ev) ==
  IF ev.device \in DOMAIN p.highestToken /\ ev.session < p.highestToken[ev.device] THEN p
  ELSE Rendered([p EXCEPT !.highestToken = Put(@, ev.device, ev.session),
                          !.deviceState = Put(@, ev.device, Reduced(EntryFor(p, ev.device), ev.what))],
                ev)

\* The helper is alive, the device unknown again.
RestoreFromLinkLost(p) ==
  IF ~p.linkLost THEN p
  ELSE RenderPanel([p EXCEPT !.deviceState = [d \in DOMAIN @ |->
         IF d = p.viewed THEN [@[d] EXCEPT !.message = Nothing, !.status = "connecting"] ELSE @[d]]])

\* A helper not seen before: its sessions are counted from the start.
HandleHello(p, generation) ==
  IF generation = p.generation THEN p
  ELSE RestoreFromLinkLost([p EXCEPT !.generation = generation, !.highestToken = <<>>])

HandleStatusEvent(ev) ==
  LET p == Cancel(panel)
  IN  IF ev.kind = "hello" THEN HandleHello(p, ev.generation) ELSE HandleDeviceEvent(p, ev)

-----------------------------------------------------------------------------
(* The actions.                                                            *)

NewHelper(generation) ==
  [alive |-> TRUE, generation |-> generation, session |-> [d \in Devices |-> 1],
   wire |-> <<[kind |-> "hello", generation |-> generation]>>,
   pushed |-> 0, requests |-> 0, asked |-> 0, owed |-> FALSE]

\* Once a device has been asked for, the helper says something of one, in
\* this session or late from the last one.
Push(d, what, late) ==
  /\ host.alive /\ host.asked > 0 /\ host.pushed < MaxPushes /\ Len(host.wire) < MaxWire
  /\ late \in 0..1 /\ host.session[d] > late
  /\ host' = [host EXCEPT !.pushed = @ + 1,
                          !.wire = Append(@, [kind |-> "device", device |-> d,
                                             session |-> host.session[d] - late, what |-> what])]
  /\ UNCHANGED panel

NextSession(d) ==
  /\ host.alive /\ host.asked > 0 /\ host.session[d] < MaxSession
  /\ host' = [host EXCEPT !.session[d] = @ + 1] /\ UNCHANGED panel

Deliver ==
  /\ host.wire # <<>>
  /\ panel' = HandleStatusEvent(Head(host.wire))
  /\ host' = [host EXCEPT !.wire = Tail(@), !.owed = FALSE]

\* A request is answered, or refused: either shows that the bridge is alive.
Settles ==
  /\ host.alive /\ host.requests > 0
  /\ host' = [host EXCEPT !.requests = @ - 1] /\ panel' = Cancel(panel)

\* What was asked of a dead helper, or was on its way, is lost.
Dies ==
  /\ host.alive
  /\ host' = [host EXCEPT !.alive = FALSE, !.wire = <<>>, !.requests = 0] /\ UNCHANGED panel

Returns ==
  /\ ~host.alive /\ host.generation < MaxGeneration
  /\ host' = [NewHelper(host.generation + 1) EXCEPT !.pushed = host.pushed, !.asked = host.asked]
  /\ UNCHANGED panel

Trip ==
  /\ panel.pending
  /\ panel' = RefreshPanel([panel EXCEPT !.pending = FALSE, !.linkLost = TRUE])
  /\ UNCHANGED host

\* The page was frozen: the device in view is asked for again.
Resume ==
  /\ panel.viewed # Nothing /\ host.asked < MaxRequests
  /\ panel' = Watch(panel) /\ host' = Asked(host)

LatchClears(d, r) ==
  /\ d \in DOMAIN panel.deviceState /\ r \in panel.deviceState[d].latched
  /\ \E p \in {[panel EXCEPT !.deviceState[d].latched = @ \ {r},
                             !.deviceState[d].values = Put(@, r, "")]} :
       panel' = IF d = p.viewed /\ r \in DOMAIN p.shown.cells
                THEN [p EXCEPT !.shown.cells[r] = ""] ELSE p
  /\ UNCHANGED host

PanelNext ==
  \/ \E d \in Devices, what \in Kinds, late \in 0..1 : Push(d, what, late)
  \/ \E d \in Devices : NextSession(d)
  \/ Deliver \/ Settles \/ Dies \/ Returns \/ Trip \/ Resume
  \/ \E d \in Devices, r \in Rows : LatchClears(d, r)

-----------------------------------------------------------------------------
(* Properties.                                                             *)

\* The grid, whose cells are written one by one, is what would be built
\* from what the devices last said.
ShowsItsState ==
  panel.shown = IF panel.viewed = Nothing THEN Nothing ELSE BuildPanel(panel, panel.viewed)

\* No device waits for a session its helper has not come to: a helper that
\* counts from the start again is not taken for a late one.
TokensAreReachable ==
  panel.generation = host.generation =>
    \A d \in DOMAIN panel.highestToken : panel.highestToken[d] <= host.session[d]

\* A timer runs only for the momentary value it is to clear.
LatchesAreMomentary ==
  \A d \in DOMAIN panel.deviceState : \A e \in {panel.deviceState[d]} :
    \A r \in e.latched \cap e.rows : Value(e, r) = Latch[r]

PanelInv == ShowsItsState /\ TokensAreReachable /\ LatchesAreMomentary

\* Who asks a dead helper is told that the link is lost, or leaves, or it
\* comes back.
DeadHelperShows == host.owed ~> (panel.linkLost \/ panel.viewed = Nothing \/ host.alive)
=============================================================================
