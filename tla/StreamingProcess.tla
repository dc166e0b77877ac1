-------------------------- MODULE StreamingProcess --------------------------
(***************************************************************************)
(* FfmpegStreamingProcess of src/src/ffmpeg/stream.ts: an FFmpeg process   *)
(* whose return port is watched.  The first packet arms the watchdog, each *)
(* packet arms it again, and a window with none aborts the process.  Every *)
(* step that ends the process also closes the monitor's socket.            *)
(***************************************************************************)
EXTENDS FfmpegProcess

VARIABLES
  monitor,  \* the return-port socket
  health,   \* is the watchdog armed?
  flowing   \* history: a packet has arrived

streamVars == <<processVars, monitor, health, flowing>>

StreamTypeOK ==
  /\ TypeOK
  /\ monitor \in {"off", "binding", "bound", "closed"}
  /\ health \in BOOLEAN
  /\ flowing \in BOOLEAN

StreamInit ==
  /\ Init
  /\ monitor = "off"
  /\ health = FALSE
  /\ flowing = FALSE

\* #startHealthMonitor, called by the constructor.
StartMonitor(returnPort) ==
  /\ monitor' = IF returnPort /\ Live THEN "binding" ELSE "off"
  /\ UNCHANGED <<processVars, health, flowing>>

\* The abort listeners of the monitor.
Teardown ==
  /\ IF signal' = "live" THEN UNCHANGED <<monitor, health>>
     ELSE /\ monitor' = IF monitor = "off" THEN "off" ELSE "closed"
          /\ health' = FALSE
  /\ UNCHANGED flowing

\* What the child and the system do by themselves.
ProcessStep ==
  /\ Runtime \/ StderrData \/ \E c \in {"zero", "nonzero"} : ChildQuits(c)
  /\ Teardown

MonitorListens ==
  /\ monitor = "binding"
  /\ monitor' = "bound"
  /\ UNCHANGED <<processVars, health, flowing>>

\* "error", of the bind or later.
MonitorFails ==
  /\ monitor \in {"binding", "bound"}
  /\ Abort("failed")
  /\ Teardown

\* A bug: a packet is noted and arms nothing.
PacketUnwatched ==
  /\ monitor = "bound"
  /\ flowing' = TRUE
  /\ UNCHANGED <<processVars, monitor, health>>

\* "message"
Packet ==
  /\ monitor = "bound"
  /\ health' = TRUE
  /\ flowing' = TRUE
  /\ UNCHANGED <<processVars, monitor>>

HealthLapses ==
  /\ health
  /\ Abort("timeout")
  /\ Teardown

-----------------------------------------------------------------------------
\* The monitor lives and dies with the process, and watches a stream from
\* its first packet on, never before.
MonitorFollows ==
  /\ ~Live => monitor \in {"off", "closed"} /\ ~health
  /\ Live => health = flowing
  /\ flowing => monitor # "off"

StreamInv == StreamTypeOK /\ OwnerKnowsChild /\ MonitorFollows
=============================================================================
