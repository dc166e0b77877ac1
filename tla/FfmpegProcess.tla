---------------------------- MODULE FfmpegProcess ----------------------------
(***************************************************************************)
(* One FFmpeg child process and the object that owns it, of                *)
(* src/src/ffmpeg/process.ts.  The abort signal is the object's whole      *)
(* lifecycle: every way it can end goes through one abort, which kills the *)
(* child, and exited settles only with the child itself.                   *)
(***************************************************************************)
CONSTANT StartupTimeout   \* was a startupTimeout given?

VARIABLES
  signal,     \* signal.reason, or "live"
  child,      \* the operating system's process, and node's view of it
  code,       \* how the child ended
  ready,      \* the ready promise
  exited,     \* the exited promise
  stderr,     \* #firstStderr: has the child written to stderr?
  timer,      \* is the startup timer's listener in place?
  disposal    \* asyncDispose

processVars == <<signal, child, code, ready, exited, stderr, timer, disposal>>

Promise == {"pending", "resolved", "rejected"}

TypeOK ==
  /\ signal \in {"live", "closed", "failed", "timeout", "shutdown", "parent"}
  /\ child \in {"unspawned", "running", "dead", "gone"}
  /\ code \in {"none", "zero", "nonzero", "killed"}
  /\ ready \in Promise
  /\ exited \in Promise
  /\ stderr \in BOOLEAN
  /\ timer \in BOOLEAN
  /\ disposal \in {"no", "awaiting", "done"}

\* The constructor, on a parent signal that may be aborted already.  A child
\* that could not be spawned has no pid; node reports it one tick later.
Init ==
  /\ signal \in {"live", "parent"}
  /\ child \in {"unspawned", "running"}
  /\ code = "none"
  /\ ready = IF signal = "live" THEN "pending" ELSE "rejected"
  /\ exited = "pending"
  /\ stderr = FALSE
  /\ timer = (StartupTimeout /\ signal = "live")
  /\ disposal = "no"

Live == signal = "live"

\* The one abort: #teardown rejects ready, the timer's listener goes.
Fire(reason) ==
  /\ signal' = reason
  /\ ready' = IF ready = "pending" THEN "rejected" ELSE ready
  /\ timer' = FALSE

\* Every handler that ends the object does so only if nothing else has.
FireIfLive(reason) == IF Live THEN Fire(reason)
                              ELSE UNCHANGED <<signal, ready, timer>>

\* abort(), called by the owner or by the bridge, or the parent signal.
Abort(reason) ==
  /\ Live
  /\ Fire(reason)
  /\ UNCHANGED <<child, code, exited, stderr, disposal>>

\* A bug: exited waits for an "exit" that a failed spawn never emits.
SpawnErrorUnsettled ==
  /\ child = "unspawned"
  /\ child' = "gone"
  /\ FireIfLive("failed")
  /\ UNCHANGED <<code, exited, stderr, disposal>>

\* "error" of a child without a pid.
SpawnError ==
  /\ child = "unspawned"
  /\ child' = "gone"
  /\ FireIfLive("failed")
  /\ exited' = "rejected"
  /\ UNCHANGED <<code, stderr, disposal>>

\* The first stderr output; the pipe may still hold some after the end.
StderrData ==
  /\ child # "unspawned"
  /\ ~stderr
  /\ stderr' = TRUE
  /\ ready' = IF ready = "pending" THEN "resolved" ELSE ready
  /\ UNCHANGED <<signal, child, code, exited, timer, disposal>>

\* The startup window lapses; output that came in time disarms it.
StartupLapses ==
  /\ timer
  /\ IF stderr THEN timer' = FALSE /\ UNCHANGED <<signal, ready>>
               ELSE Fire("timeout")
  /\ UNCHANGED <<child, code, exited, stderr, disposal>>

\* The child ends by itself.
ChildQuits(c) ==
  /\ child = "running"
  /\ child' = "dead"
  /\ code' = c
  /\ UNCHANGED <<signal, ready, exited, stderr, timer, disposal>>

\* spawn's own use of the signal: SIGKILL.
ChildKilled ==
  /\ child = "running"
  /\ ~Live
  /\ child' = "dead"
  /\ code' = "killed"
  /\ UNCHANGED <<signal, ready, exited, stderr, timer, disposal>>

\* "exit".
Exit ==
  /\ child = "dead"
  /\ child' = "gone"
  /\ exited' = "resolved"
  /\ FireIfLive(IF code = "zero" THEN "closed" ELSE "failed")
  /\ UNCHANGED <<code, stderr, disposal>>

\* asyncDispose(): abort, then await exited whichever way it settles.
Dispose ==
  /\ disposal = "no"
  /\ disposal' = "awaiting"
  /\ FireIfLive("shutdown")
  /\ UNCHANGED <<child, code, exited, stderr>>

DisposeReturns ==
  /\ disposal = "awaiting"
  /\ exited # "pending"
  /\ disposal' = "done"
  /\ UNCHANGED <<signal, child, code, ready, exited, stderr, timer>>

\* Node and the operating system: a killed child dies, the end of a child
\* and a failed spawn are reported, timers expire.
Runtime == SpawnError \/ ChildKilled \/ Exit \/ StartupLapses \/ DisposeReturns

Owner == \/ \E reason \in {"shutdown", "parent"} : Abort(reason)
         \/ Dispose

Internal == Runtime \/ Owner \/ StderrData
            \/ \E c \in {"zero", "nonzero"} : ChildQuits(c)

-----------------------------------------------------------------------------
\* The object's state and the child's: exited settles with the child's end
\* and not before, a child nobody owns any more has been waited for, ready
\* is answered once the object has ended, and "closed" is said only of a
\* child that really exited with zero.
OwnerKnowsChild ==
  /\ exited # "pending" <=> child = "gone"
  /\ exited = "resolved" => code # "none"
  /\ child = "gone" => ~Live
  /\ ready = "pending" => Live
  /\ ready = "resolved" => stderr
  /\ timer => Live /\ StartupTimeout
  /\ StartupTimeout /\ ready = "pending" => timer
  /\ signal = "closed" => code = "zero"
  /\ disposal = "done" => child = "gone"
=============================================================================
