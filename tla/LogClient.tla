------------------------------- MODULE LogClient -------------------------------
(* HomebridgeLogClient (logclient/client.ts): one call of tail(), from the      *)
(* request to the end of its stream.  The channels are generators that read    *)
(* the live lines of a LogSocket through the seed gate, a download of the      *)
(* whole log, or both at once; "phase" says where the generator stands.        *)
(*                                                                             *)
(*   collect  waits for the download                                           *)
(*   buffer   races the next live line against the download                    *)
(*   gate     #windowGatePhase2: only the live lines are left to decide        *)
(*   serve    yields the records in "out"                                      *)
(*   relay    yields the live lines as they come                               *)
(*   closing  disposes the socket;  closed: the stream has ended               *)
(*                                                                             *)
(* A pull of the live iterator that is outstanding when a phase ends is        *)
(* carried into the next one: it stays in gen and slot of LogSocket.           *)
EXTENDS LogSocket

CONSTANT MaxSkip        \* SEED_GATE_MAX_SKIP

ASSUME SkipAssumption == MaxSkip \in Nat

VARIABLES
  req,         \* the TailRequest; quantity 0 is "all", since and until 0 are null
  phase,
  gate,        \* the SeedGate of this call
  download,    \* the REST download: off, asked, body, done, failed or aborted
  snap,        \* how many lines the log had when the server answered it
  buffered,    \* bufferedLive, bufferedSeed
  covers,      \* decision = "seed-covers"
  decided,     \* coverageDecided
  out,         \* records still to be yielded by "serve"
  carried,     \* the carry-forward of timeWindow
  thrown,      \* the generator threw
  callAborted, \* the signal of the call has been aborted from outside
  caller,      \* the caller of the stream: ready for a record or busy with one
  shown        \* every record it was given

clientVars == <<req, phase, gate, download, snap, buffered, covers, decided, out, carried, thrown,
                callAborted, caller, shown>>

(* The socket's variables but those of its output and of an abort. *)
quietSock == <<log, wall, refreshable, loop, conns, link, srv, seedFrom, turn, pinged, deaf, carry,
               queue, dropped, drained>>
abortable == <<aborted, handshake, sessionOver, watchdog, ws, tx, wire>>

Horizon == 2                    \* #window's horizonNow: the call is made at this second
SettleAt == Horizon + 1         \* SEED_SETTLE_MS after it
CapAt == Horizon + 2            \* SEED_WINDOW_MAX_MS after it

Live(r) == r.mode # "history"
UntilOf(r) == IF r.follow \/ r.until # 0 THEN r.until ELSE Horizon
OneShot(r) == r.mode = "history" \/ (r.mode = "window" /\ ~r.follow)

(* What #collectHistory resolves to: the lines readLines makes of the body,    *)
(* the last "quantity" of them unless all are wanted.                          *)
History ==
  LET lines == [i \in 1..snap |-> <<log[i]>>]
  IN IF req.mode = "window" \/ req.quantity = 0 THEN lines ELSE TakeLast(lines, req.quantity)

ClientInit(request, credentials, lines) ==
  /\ req = request /\ SocketInit(lines, Live(req), credentials # "token")
  /\ phase = CASE req.mode = "history" -> "collect" [] req.mode = "follow" -> "relay" [] OTHER -> "buffer"
  /\ gate = [open |-> FALSE, skipped |-> 0]
  /\ download = (IF req.mode = "follow" THEN "off" ELSE "asked") /\ snap = 0
  /\ buffered = <<>> /\ covers = FALSE /\ decided = (req.since = 0)
  /\ out = <<>> /\ carried = 0 /\ thrown = FALSE
  /\ callAborted = FALSE /\ caller = "ready" /\ shown = <<>>

ClientTypeOK ==
  /\ phase \in {"collect", "buffer", "gate", "serve", "relay", "closing", "closed"}
  /\ download \in {"off", "asked", "body", "done", "failed", "aborted"}
  /\ gate.skipped \in 0..MaxSkip /\ {covers, decided, thrown, callAborted} \subseteq BOOLEAN
  /\ caller \in {"ready", "busy"}

-------------------------------------------------------------------------------
(* Leaving the channel's body, normally or not: its finally disposes the       *)
(* socket, which aborts it and waits for its loop.                             *)
Finish(error) ==
  /\ phase' = "closing" /\ thrown' = error
  /\ Abort("shutdown")

(* #stream's finally, once the socket is gone. *)
Close ==
  /\ phase = "closing" /\ loop = "done"
  /\ phase' = "closed"
  /\ download' = IF download \in {"asked", "body"} THEN "aborted" ELSE download
  /\ UNCHANGED <<sockVars, req, gate, snap, buffered, covers, decided, out, carried, thrown,
                 callAborted, caller, shown>>

(* The caller's signal is aborted: with it go the socket and the download. *)
CallAborted ==
  /\ callAborted' = TRUE
  /\ Abort("parent")
  /\ download' = IF download \in {"asked", "body"} THEN "aborted" ELSE download
  /\ UNCHANGED <<quietSock, slot, req, phase, gate, snap, buffered, covers, decided, out, carried,
                 thrown, shown>>

-------------------------------------------------------------------------------
(* downloadLog and the token it needs. *)
DownloadProceeds ==
  /\ \/ download = "asked" /\ download' = "body" /\ snap' = Len(log)
     \/ download = "body" /\ download' = "done" /\ snap' = snap
     \/ download \in {"asked", "body"} /\ download' = "failed" /\ snap' = snap
  /\ UNCHANGED <<sockVars, req, phase, gate, buffered, covers, decided, out, carried, thrown,
                 callAborted, caller, shown>>

-------------------------------------------------------------------------------
(* A record reaches the caller, through timeWindow on the windowed channel. *)
Yield(line) ==
  /\ caller = "ready"
  /\ carried' = CarryOn(carried, line)
  /\ IF req.mode = "window" /\ ~InWindow(carried, line, req.since, UntilOf(req))
     THEN UNCHANGED <<caller, shown>>
     ELSE shown' = Append(shown, line) /\ caller' \in (IF callAborted THEN {"ready"} ELSE {"ready", "busy"})

(* A line the gate turns away, in whatever phase the pull is outstanding. *)
GateDrops ==
  /\ slot # <<>> /\ phase \notin {"closing", "closed"}
  /\ ~Admits(gate, slot[1], MaxSkip)
  /\ gate' = GateAfter(gate, slot[1], MaxSkip)
  /\ slot' = <<>> /\ gen' = "pulled"
  /\ UNCHANGED <<quietSock, abortable, req, phase, download, snap, buffered, covers, decided, out,
                 carried, thrown, callAborted, caller, shown>>

(* A line it lets through; every channel takes its live lines here. *)
Admitted == slot # <<>> /\ Admits(gate, slot[1], MaxSkip)
Taken == slot' = <<>> /\ gate' = GateAfter(gate, slot[1], MaxSkip)

(* The generator asks for its next live line. *)
AskForLine ==
  /\ \/ phase \in {"buffer", "gate"}
     \/ phase = "relay" /\ caller = "ready"
  /\ slot = <<>> /\ Pull
  /\ UNCHANGED <<quietSock, abortable, slot, clientVars>>

(* relay: the live lines of follow, and of the other channels once what they   *)
(* collected has been served.  The end of stdout() ends the channel.           *)
RelayLine ==
  /\ phase = "relay"
  /\ \/ Admitted /\ Taken /\ Yield(slot[1])
        /\ UNCHANGED <<abortable, gen, phase, thrown>>
     \/ gen = "done" /\ Finish(FALSE) /\ UNCHANGED <<slot, gate, carried, caller, shown>>
  /\ UNCHANGED <<quietSock, req, download, snap, buffered, covers, decided, out, callAborted>>

(* The records a channel goes on to yield; what it buffered is used up. *)
ServeNext(records) == phase' = "serve" /\ out' = records /\ buffered' = <<>>

\* A bug: a line of the first second of the window counts as older.
ReachesStart(line) == TimeOf(line) > 0 /\ TimeOf(line) <= req.since

(* The line is older than the window: the seed reaches back far enough. *)
ReachesBack(line) == TimeOf(line) > 0 /\ TimeOf(line) < req.since

(* buffer, #followHistory and #windowRecords: the live line is first.  A       *)
(* window looks at the first line with a timestamp: older than "since", the    *)
(* seed reaches back far enough, and the download is given up.                 *)
BufferLine ==
  /\ phase = "buffer" /\ Admitted /\ Taken
  /\ gen' = "pulled"
  /\ LET decides == req.mode = "window" /\ ~decided /\ TimeOf(slot[1]) > 0
         reaches == decides /\ ReachesBack(slot[1])
     IN /\ decided' = (decided \/ decides) /\ covers' = reaches
        /\ IF reaches
           THEN /\ ServeNext(Append(buffered, slot[1]))
                /\ download' = (IF download \in {"asked", "body"} THEN "aborted" ELSE download)
           ELSE buffered' = Append(buffered, slot[1]) /\ UNCHANGED <<phase, out, download>>
  /\ UNCHANGED <<quietSock, abortable, req, snap, carried, thrown, callAborted, caller, shown>>

(* The download is first, or the live lines have ended and it is waited for.   *)
(* Its failure is the channel's, unless a window can still hope for the seed.  *)
DownloadDone ==
  /\ phase \in {"buffer", "collect"} /\ req.mode # "history" /\ download = "done"
  /\ \E history \in {History} : \E records \in {StitchLive(history, buffered)} : ServeNext(records)
  /\ UNCHANGED <<sockVars, req, gate, download, snap, covers, decided, carried, thrown,
                 callAborted, caller, shown>>

DownloadLost ==
  /\ phase \in {"buffer", "collect"} /\ download \in {"failed", "aborted"}
  /\ IF phase = "buffer" /\ req.mode = "window" /\ ~decided
     THEN phase' = "gate" /\ UNCHANGED <<abortable, gen, thrown>>
     ELSE Finish(TRUE)
  /\ UNCHANGED <<quietSock, slot, req, gate, download, snap, buffered, covers, decided, out, carried,
                 callAborted, caller, shown>>

LiveEnds ==
  /\ phase = "buffer" /\ gen = "done"
  /\ phase' = "collect"
  /\ UNCHANGED <<sockVars, req, gate, download, snap, buffered, covers, decided, out, carried, thrown,
                 callAborted, caller, shown>>

(* gate: the first line with a timestamp decides, and so do the end of the     *)
(* live lines and the deadline.                                                *)
GateLine ==
  /\ phase = "gate" /\ Admitted /\ Taken
  /\ LET time == TimeOf(slot[1])
     IN IF time = 0 \/ ReachesBack(slot[1])
        THEN /\ gen' = "pulled" /\ covers' = (time > 0)
             /\ IF time > 0 THEN ServeNext(Append(buffered, slot[1]))
                ELSE buffered' = Append(buffered, slot[1]) /\ UNCHANGED <<phase, out>>
             /\ UNCHANGED <<abortable, thrown>>
        ELSE Finish(TRUE) /\ UNCHANGED <<buffered, covers, out>>
  /\ UNCHANGED <<quietSock, req, download, snap, decided, carried, callAborted, caller, shown>>

GateGivesUp ==
  /\ phase = "gate" /\ Finish(TRUE)
  /\ UNCHANGED <<quietSock, slot, req, gate, download, snap, buffered, covers, decided, out, carried,
                 callAborted, caller, shown>>

GateEnds == gen = "done" /\ GateGivesUp
GateDeadline == wall >= CapAt /\ GateGivesUp

(* The terminators of a one-shot window served from the seed, quiescence once  *)
(* the settle floor is behind and the hard cap: both abort the socket.         *)
Terminate(at) ==
  /\ covers /\ ~req.follow /\ phase \in {"serve", "relay"}
  /\ aborted = "no" /\ ~callAborted /\ wall >= at
  /\ Abort("timeout")
  /\ UNCHANGED <<quietSock, slot, clientVars>>

QuiescenceFires == Terminate(SettleAt)

CapFires == Terminate(CapAt)

(* history: "all" yields while the body still comes in, and breaks off with    *)
(* it; a number of lines is known only when the body is complete.              *)
HistoryReady ==
  /\ phase = "collect" /\ req.mode = "history"
  /\ download = "done" \/ (download = "body" /\ req.quantity = 0)
  /\ ServeNext(History)
  /\ UNCHANGED <<sockVars, req, gate, download, snap, covers, decided, carried, thrown,
                 callAborted, caller, shown>>

HistoryBreaks ==
  /\ phase = "serve" /\ req.mode = "history" /\ download \in {"failed", "aborted"}
  /\ Finish(TRUE) /\ out' = <<>>
  /\ UNCHANGED <<quietSock, slot, req, gate, download, snap, buffered, covers, decided, carried,
                 callAborted, caller, shown>>

ServeRecord ==
  /\ phase = "serve" /\ out # <<>>
  /\ out' = Tail(out) /\ Yield(Head(out))
  /\ UNCHANGED <<sockVars, req, phase, gate, download, snap, buffered, covers, decided, thrown,
                 callAborted>>

(* What follows: the live lines, unless the channel is finite or they are over. *)
Served ==
  /\ phase = "serve" /\ out = <<>> /\ caller = "ready"
  /\ req.mode = "history" => download = "done"
  /\ IF req.mode = "follow-history" \/ req.follow \/ covers
     THEN phase' = "relay" /\ UNCHANGED <<abortable, gen, thrown>>
     ELSE Finish(FALSE)
  /\ UNCHANGED <<quietSock, slot, req, gate, download, snap, buffered, covers, decided, out, carried,
                 callAborted, caller, shown>>

ClientContinues ==
  \/ GateDrops \/ AskForLine \/ RelayLine \/ BufferLine \/ DownloadDone \/ DownloadLost \/ LiveEnds
  \/ GateLine \/ GateEnds \/ HistoryReady \/ HistoryBreaks \/ ServeRecord \/ Served \/ Close

ClientEvent == DownloadProceeds \/ GateDeadline \/ QuiescenceFires \/ CapFires

(* A continuation of the client is due. *)
ClientBusy ==
  LET listening == phase \in {"buffer", "gate"} \/ (phase = "relay" /\ caller = "ready")
      settled == download \in {"done", "failed", "aborted"}
  IN \/ slot # <<>> /\ phase \notin {"closing", "closed"}
        /\ (listening \/ ~Admits(gate, slot[1], MaxSkip))
     \/ listening /\ slot = <<>> /\ gen \in {"idle", "done"}
     \/ phase \in {"buffer", "collect"} /\ settled
     \/ phase = "collect" /\ req.mode = "history" /\ req.quantity = 0 /\ download = "body"
     \/ phase = "serve" /\ caller = "ready" /\ (out # <<>> \/ req.mode # "history" \/ settled)
     \/ phase = "closing" /\ loop = "done"
================================================================================
