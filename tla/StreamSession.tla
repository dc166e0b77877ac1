--------------------------- MODULE StreamSession ---------------------------
(***************************************************************************)
(* A streaming session of a plugin, put together the way the documentation *)
(* of src/src/ffmpeg/rtp.ts and stream.ts shows: a port reservation, then  *)
(* either a streaming process that watches the return port itself, or a    *)
(* demuxer on a pair of ports and, once media flows, a process beside it.  *)
(* The owner gathers what it acquires on a disposal stack, moves the stack *)
(* to the session when everything runs, disposes it when the session ends, *)
(* and bounds the time to establish with a timer of its registry.  All of  *)
(* it lives under one signal.  The owner is not code of the repository.    *)
(*                                                                         *)
(* The other scenes have the allocator with several callers, and the       *)
(* registry with callbacks that call back into it.                         *)
(***************************************************************************)
EXTENDS RtpPortAllocator, Sequences, FiniteSets

CONSTANTS
  Scenes,  \* of "ports", "timers", "view" and "talk"
  Viewer, Talker,  \* the session's call of reserve(), for one port and for two
  Contended,       \* bound: the ports other sockets use during a session
  Keys, MaxTimers,
  Octets   \* the second bytes of the datagrams

ASSUME SessionAssumption ==
  /\ Viewer \in Callers \ Pairs /\ Talker \in Pairs /\ Contended \subseteq Ports
  /\ Keys # {} /\ MaxTimers \in Nat \ {0}

VARIABLES
  scene,
  stage,     \* where the owner stands
  aborted,   \* the session's signal
  peer,      \* does the other end still send?
  spawned,   \* has the streaming process been constructed?
  signal, child, code, ready, exited, stderr, timer, disposal,
  monitor, health, flowing,
  demux, demuxEnd, inputReady, mediaReady, lastRtcp, heartbeat, inactivity,
  fed, demuxGone,
  timers,
  stacks, unwinding, running, errors

P == INSTANCE StreamingProcess WITH StartupTimeout <- FALSE
D == INSTANCE RtpDemuxer WITH InactivityTimeout <- TRUE
T == INSTANCE TimerRegistry
S == INSTANCE DisposalStack WITH
       Stacks <- {"building", "session"},
       Resources <- {"timers", "ports", "demuxer", "report", "process"}

\* None is neither a resource nor a stack, neither a timer nor its key.
ASSUME NoneAssumption ==
  /\ None \notin {"timers", "ports", "demuxer", "report", "process"}
  /\ None \notin Seq({"timers", "ports", "demuxer", "report", "process"})
  /\ None \notin T!Timer \cup Keys

streamVars == <<signal, child, code, ready, exited, stderr, timer, disposal,
                monitor, health, flowing>>
demuxVars == <<demux, demuxEnd, inputReady, mediaReady, lastRtcp, heartbeat,
               inactivity, fed, demuxGone>>
stackVars == <<stacks, unwinding, running, errors>>
ownerVars == <<scene, stage, aborted, peer, spawned>>
vars == <<allocatorVars, ownerVars, streamVars, demuxVars, timers, stackVars>>

Caller == IF scene = "talk" THEN Talker ELSE Viewer

Init ==
  /\ AllocatorInit
  /\ scene \in Scenes
  /\ stage = "new"
  /\ aborted = FALSE
  /\ peer = "here"
  /\ spawned = FALSE
  /\ P!StreamInit /\ signal = "live"
  /\ scene \notin {"view", "talk"} => child = "running"
  /\ D!DemuxerInit
  /\ timers = T!Empty
  /\ S!StackInit

-----------------------------------------------------------------------------
\* The port a socket of the session is bound to.
OwnPort(d, m) == IF d = "bound" \/ m = "bound" THEN {first[Caller]} ELSE {}

\* The system sees the session's sockets come and go.
KeepSockets == bound' = (bound \ OwnPort(demux, monitor)) \cup OwnPort(demux', monitor')

\* The session's signal aborts: every listener of it runs in this turn.
FanOut ==
  /\ ~aborted
  /\ aborted' = TRUE
  /\ IF call[Caller] \in {"first", "second"}
     THEN Unwind(Caller) /\ call' = [call EXCEPT ![Caller] = "rejected"]
     ELSE UNCHANGED <<inUse, first, call>>
  /\ IF D!DemuxLive THEN D!AbortDemuxer("parent") ELSE UNCHANGED demuxVars
  /\ IF spawned /\ P!Live THEN P!Abort("parent") /\ P!Teardown
                          ELSE UNCHANGED streamVars
  /\ KeepSockets
  /\ UNCHANGED <<attempt, scene, stage, peer, spawned, stackVars>>

Abort == stage \notin {"new", "over"} /\ FanOut /\ timers' = T!Retire(timers)

\* The key of the timer that bounds the time to establish.
Gate == CHOOSE k \in Keys : TRUE

\* The session was not established in time: the callback aborts its signal,
\* and with it the registry that is calling back.
GateFires ==
  /\ scene # "timers"
  /\ \E t \in timers.pending : timers' = T!Fired(timers, t, [do |-> "dispose"])
  /\ FanOut

-----------------------------------------------------------------------------
(* The owner. *)

Start ==
  /\ scene \in {"view", "talk"}
  /\ stage = "new"
  /\ stage' = "reserving"
  /\ timers' = T!Register(timers, Gate, FALSE)
  /\ S!Open("building", <<"timers">>)
  /\ Reserve(Caller)
  /\ UNCHANGED <<scene, aborted, peer, spawned, streamVars, demuxVars>>

\* new FfmpegStreamingProcess(), under a signal that may have aborted by now.
Spawn(returnPort) ==
  /\ spawned' = TRUE
  /\ IF aborted
     THEN /\ signal' = "parent" /\ ready' = "rejected"
          /\ UNCHANGED <<child, code, exited, stderr, timer, disposal, monitor, health, flowing>>
     ELSE P!StartMonitor(returnPort)

\* One port: the process's monitor is to bind it.
StartView ==
  /\ scene = "view" /\ stage = "reserving" /\ call[Caller] = "held"
  /\ stage' = "starting"
  /\ Spawn(TRUE)
  /\ S!Enter("building", <<"ports", "report", "process">>)
  /\ UNCHANGED <<allocatorVars, scene, aborted, peer, demuxVars, timers>>

\* Two ports: a demuxer is to bind the first, and its media is awaited.
StartTalk ==
  /\ scene = "talk" /\ stage = "reserving" /\ call[Caller] = "held"
  /\ stage' = "demuxing"
  /\ D!Construct(aborted)
  /\ S!Enter("building", <<"ports", "demuxer">>)
  /\ UNCHANGED <<allocatorVars, scene, aborted, peer, spawned, streamVars, timers>>

MediaFlows ==
  /\ stage = "demuxing" /\ mediaReady = "resolved"
  /\ stage' = "starting"
  /\ Spawn(FALSE)
  /\ S!Enter("building", <<"report", "process">>)
  /\ UNCHANGED <<allocatorVars, scene, aborted, peer, demuxVars, timers>>

OwnerWaits == UNCHANGED <<allocatorVars, scene, aborted, peer, spawned, streamVars, demuxVars, timers>>

\* FFmpeg runs: the stack is moved to the session.
Running ==
  /\ stage = "starting" /\ ready = "resolved"
  /\ stage' = "leaving"
  /\ S!Move("building", "session")
  /\ OwnerWaits

\* The scope that built it disposes what it is left with.
Leave ==
  /\ stage = "leaving"
  /\ stage' = "streaming"
  /\ S!DisposeStack("building")
  /\ OwnerWaits

\* An await of the builder throws, and its scope unwinds.
GiveUp ==
  /\ \/ stage = "reserving" /\ call[Caller] = "rejected"
     \/ stage = "demuxing" /\ mediaReady = "rejected"
     \/ stage = "starting" /\ ready = "rejected"
  /\ stage' = "unwinding"
  /\ S!DisposeStack("building")
  /\ OwnerWaits

\* The far end confirms that media round-trips: no more gate.
Confirmed ==
  /\ stage = "streaming"
  /\ scene = "view" => flowing
  /\ timers.pending # {}
  /\ timers' = T!Clear(timers, Gate)
  /\ UNCHANGED <<allocatorVars, ownerVars, streamVars, demuxVars, stackVars>>

\* The session is stopped, or the owner sees that one of its parts has ended.
Stop ==
  /\ stage = "streaming"
  /\ stage' = "unwinding"
  /\ S!DisposeStack("session")
  /\ OwnerWaits

Over ==
  /\ stage = "unwinding" /\ S!Unwound
  /\ stage' = "over"
  /\ UNCHANGED stackVars
  /\ OwnerWaits

Owner == Start \/ StartView \/ StartTalk \/ MediaFlows \/ Running \/ Leave \/ GiveUp \/ Over

-----------------------------------------------------------------------------
(* The stack unwinds. *)

\* Each disposer, up to its first await.
Disposer(r) ==
  /\ S!RunDisposer(r)
  /\ IF r = "timers" THEN timers' = T!Retire(timers) ELSE UNCHANGED timers
  /\ IF r = "ports" THEN inUse' = inUse \ Reserved(Caller)
                         /\ call' = [call EXCEPT ![Caller] = "released"]
                    ELSE UNCHANGED <<inUse, call>>
  /\ IF r = "demuxer" THEN D!DisposeDemuxer ELSE UNCHANGED demuxVars
  /\ IF r = "process" THEN P!Dispose /\ P!Teardown ELSE UNCHANGED streamVars
  /\ KeepSockets
  /\ UNCHANGED <<first, attempt, ownerVars>>

\* A demuxer is done when its socket has closed, a process when its child has
\* exited, and the report, a callback of the owner, throws.
DisposerReturns ==
  /\ running = "demuxer" => demuxGone = "done"
  /\ running = "process" => disposal = "done"
  /\ S!DisposerSettles(running = "report")
  /\ UNCHANGED <<allocatorVars, ownerVars, streamVars, demuxVars, timers>>

Unwinding == DisposerReturns \/ \E r \in {"timers", "ports", "demuxer", "report", "process"} : Disposer(r)

-----------------------------------------------------------------------------
(* The process and the demuxer, with the system below them. *)

InStream(A) ==
  /\ spawned
  /\ A
  /\ UNCHANGED <<inUse, call, first, attempt, ownerVars, demuxVars, timers, stackVars>>
  /\ KeepSockets

MonitorBinds == \/ P!MonitorListens /\ first[Caller] \notin bound
                \/ P!MonitorFails /\ monitor = "binding"

StreamStep == InStream(\/ P!ProcessStep
                       \/ MonitorBinds
                       \/ P!MonitorFails
                       \/ peer = "here" /\ P!Packet
                       \/ P!HealthLapses)

InDemuxer(A) ==
  /\ demux # "none"
  /\ A
  /\ UNCHANGED <<inUse, call, first, attempt, ownerVars, streamVars, timers, stackVars>>
  /\ KeepSockets

\* What node reports of the demuxer's socket.
SocketReports == \/ D!Listening /\ first[Caller] \notin bound
                 \/ D!SocketError /\ demux = "binding"
                 \/ D!SocketClosed
                 \/ D!DemuxerDisposed

DatagramKinds == {"runt"} \cup {D!PacketKind(o) : o \in Octets}

DemuxStep == InDemuxer(\/ SocketReports
                       \/ D!SocketError
                       \/ peer = "here" /\ \E kind \in DatagramKinds : D!Datagram(kind)
                       \/ D!HeartbeatFires
                       \/ D!InactivityLapses
                       \/ D!FfmpegWaits)

PeerLeaves ==
  /\ peer = "here" /\ stage # "new"
  /\ peer' = "gone"
  /\ UNCHANGED <<allocatorVars, scene, stage, aborted, spawned, streamVars, demuxVars, timers, stackVars>>

\* The bind of reserve() is answered, and other sockets come and go.
ReserveStep ==
  /\ stage # "new"
  /\ \/ Answer(Caller)
     \/ \E p \in Contended : SocketOpens(p)
     \/ \E p \in Contended \ OwnPort(demux, monitor) : SocketCloses(p)
  /\ UNCHANGED <<ownerVars, streamVars, demuxVars, timers, stackVars>>

-----------------------------------------------------------------------------
(* The other scenes. *)

Allocate ==
  /\ scene = "ports"
  /\ AllocatorNext
  /\ UNCHANGED <<ownerVars, streamVars, demuxVars, timers, stackVars>>

Callbacks ==
  /\ scene = "timers"
  /\ \E op \in T!Operations : T!Call(op) \/ \E t \in timers.pending : T!Fire(t, op)
  /\ UNCHANGED <<allocatorVars, ownerVars, streamVars, demuxVars, stackVars>>

Next == \/ Owner \/ Stop \/ Confirmed \/ Abort \/ GateFires
        \/ Unwinding \/ StreamStep \/ DemuxStep \/ ReserveStep \/ PeerLeaves
        \/ Allocate \/ Callbacks

Spec == Init /\ [][Next]_vars

\* The event loop runs what is due, the system answers, and an owner whose
\* session has lost a part stops it.  A watchdog that each packet arms again
\* need fire only once the peer is gone.
FairSpec ==
  /\ Spec
  /\ WF_vars(Owner)
  /\ WF_vars(Stop /\ (signal # "live" \/ demuxEnd # "live"))
  /\ WF_vars(Unwinding)
  /\ WF_vars(GateFires)
  /\ WF_vars(stage # "new" /\ Answer(Caller) /\ UNCHANGED <<ownerVars, streamVars, demuxVars, timers, stackVars>>)
  /\ WF_vars(InStream(P!Runtime /\ P!Teardown))
  /\ WF_vars(InStream(MonitorBinds))
  /\ WF_vars(InStream(peer = "gone" /\ P!HealthLapses))
  /\ WF_vars(InDemuxer(SocketReports))
  /\ WF_vars(InDemuxer(D!HeartbeatFires))
  /\ WF_vars(InDemuxer(peer = "gone" /\ D!InactivityLapses))

-----------------------------------------------------------------------------
\* A socket of the session sits on a port the session has reserved: ports go
\* back only after the sockets on them have closed, whatever ends first.
BoundIsReserved == OwnPort(demux, monitor) \subseteq Reserved(Caller)

\* While the session runs nothing it has acquired has been released; once
\* it is over nothing is left, and of the disposers only the report threw.
SessionKept ==
  /\ stage = "streaming" => /\ Reserved(Caller) # {} /\ disposal = "no"
                            /\ demuxGone = "no" /\ S!Unwound
  /\ stage = "over" => /\ Reserved(Caller) = {} /\ timers.pending = {}
                       /\ demux \in {"none", "closed"}
                       /\ spawned => child = "gone" /\ errors = <<"report">>

SessionInv ==
  /\ AllocatorInv
  /\ T!RegistryInv
  /\ D!DemuxerInv
  /\ S!StackTypeOK
  /\ spawned => P!StreamInv
  /\ BoundIsReserved
  /\ SessionKept

\* Once the far end has gone silent, whether it has ever sent a packet or
\* not, the session ends and gives back all it had: a stream that flowed by
\* its watchdog, one that never did by the owner's timer.
SilentPeerEnds == stage # "new" /\ peer = "gone" ~> stage = "over"

\* As long as a demuxer lives that has seen RTCP, FFmpeg is sent something
\* again and again, however quiet the far end is.
FfmpegKeptFed == D!DemuxLive /\ lastRtcp /\ ~fed ~> fed \/ ~D!DemuxLive
=============================================================================
