-------------------------- MODULE RecordingProcess --------------------------
(***************************************************************************)
(* An fMP4 recording, FfmpegFMp4Process of src/src/ffmpeg/record.ts: an    *)
(* FFmpeg process, a segment assembler on its stdout whose signal includes *)
(* the process's, and the bridge that carries the assembler's end back to  *)
(* the process.  An abort on either side reaches the other in the same     *)
(* turn of the event loop, so both ends move in one step.                  *)
(***************************************************************************)
EXTENDS Mp4SegmentAssembler

CONSTANT StartupTimeout   \* was a startup timeout given?

ASSUME RecordingAssumption == StartupTimeout \in BOOLEAN

VARIABLES signal, child, code, ready, exited, stderr, timer, disposal

P == INSTANCE FfmpegProcess

processVars == <<signal, child, code, ready, exited, stderr, timer, disposal>>
recordingVars == <<processVars, vars>>

\* The base class spawns first, then the assembler composes its signal.
RecordingInit == P!Init /\ Construct(signal)

-----------------------------------------------------------------------------
\* The assembler's composed signal follows the process's.
Follow == IF signal' # signal /\ Live
          THEN Fire(signal') /\ UNCHANGED <<drain, broken>>
          ELSE UNCHANGED vars

\* A bug: every end of the assembler is propagated.
BridgeEverything == IF life' # life /\ P!Live THEN P!Abort(life')
                    ELSE UNCHANGED processVars

\* A bug: the bridge forwards only the watchdog.
BridgeTimeoutOnly == IF life' # life /\ P!Live /\ life' = "timeout"
                     THEN P!Abort(life')
                     ELSE UNCHANGED processVars

\* bridgeAssemblerToProcess: forward the assembler's end, except "closed",
\* which the child's own exit will explain better.
Bridge == IF life' # life /\ P!Live /\ life' # "closed"
          THEN P!Abort(life')
          ELSE UNCHANGED processVars

ProcessStep == Free /\ P!Internal /\ Follow

\* Only a child that was spawned writes to stdout or closes it.
StdoutStep == child # "unspawned" /\ Source /\ Bridge

AssemblerStep == \/ Drain /\ Bridge
                 \/ WatchdogFires /\ Bridge
                 \/ \E r \in Readers :
                      /\ Read(r) \/ Break(r) \/ AbortReader(r)
                      /\ UNCHANGED processVars

RecordingNext == ProcessStep \/ StdoutStep \/ AssemblerStep

RecordingSpec == RecordingInit /\ [][RecordingNext]_recordingVars

FairRecordingSpec ==
  /\ RecordingSpec
  /\ WF_recordingVars(Free /\ P!SpawnError /\ Follow)
  /\ WF_recordingVars(Free /\ P!ChildKilled /\ Follow)
  /\ WF_recordingVars(Free /\ P!Exit /\ Follow)
  /\ WF_recordingVars(Free /\ P!StartupLapses /\ Follow)
  /\ WF_recordingVars(Free /\ P!DisposeReturns /\ Follow)
  /\ WF_recordingVars(Drain /\ Bridge)
  /\ WF_recordingVars(WatchdogFires /\ Bridge)
  /\ \A r \in Readers : WF_recordingVars(Read(r) /\ UNCHANGED processVars)

-----------------------------------------------------------------------------
\* The two lifetimes: the assembler never outlives the process, and outlives
\* nothing itself except a stdout that ended while the child still ran.
LifetimesAgree ==
  /\ ~P!Live => ~Live
  /\ P!Live /\ ~Live => life = "closed"
  /\ ~P!Live /\ life # "closed" => signal = life

RecordingInv == /\ P!TypeOK /\ TypeOK
                /\ P!OwnerKnowsChild
                /\ LifetimesAgree

\* A pipeline that stops making progress takes the child with it: after a
\* watchdog timeout, a stdout error or any abort the child is killed and
\* waited for.
StalledChildReaped == life \notin {"live", "closed"} ~> child = "gone"

\* asyncDispose returns, child spawned or not, and then everything is over.
DisposeCompletes ==
  disposal = "awaiting" ~> /\ disposal = "done"
                           /\ drain = "done"
                           /\ header # "pending" /\ ready # "pending"

\* Whoever waits for a recording to become ready is answered, given a
\* startup timeout.
ReadySettles == StartupTimeout /\ ready = "pending" ~> ready # "pending"

\* Whoever waits for a recording, for its start or for its end, is answered.
EveryoneAnswered == DisposeCompletes /\ ReadySettles
=============================================================================
