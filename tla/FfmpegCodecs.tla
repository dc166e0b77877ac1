--------------------------- MODULE FfmpegCodecs ---------------------------
(***************************************************************************)
(* FfmpegCodecs.probe of ffmpeg/codecs.ts: a chain of child processes that *)
(* asks FFmpeg for its version, its codecs and its hardware accelerators,  *)
(* then tries every accelerator once, because a listed one need not work   *)
(* on this host.  Each command runs under a timeout of its own, composed   *)
(* with the signal of the caller.  What a command prints is a parameter;   *)
(* the command may also fail, or hang.                                     *)
(***************************************************************************)
EXTENDS Integers

CONSTANTS
    Hosts,        \* what probeHwOs may find: records [system, generation]
    GpuMemory,    \* the answers of vcgencmd, in MB
    Majors,       \* the major versions of FFmpeg
    Inventories,  \* what -codecs may list: records [encoders, decoders]
    Accelerators  \* what -hwaccels may list

ASSUME CodecsAssumption ==
    /\ GpuMemory \subseteq Nat
    /\ Majors \subseteq Nat
    /\ \A host \in Hosts : host.generation \in Nat

VARIABLE probe

\* stage is the command that runs.  accels is the set under construction,
\* pending what of it the validation loop has not reached, passed the
\* accelerators whose trial succeeded (a history of the children, not a
\* variable of the code).
ProbeInit ==
    \E host \in Hosts :
        probe = [stage |-> "idle", signal |-> FALSE, host |-> host,
                 gpuMem |-> 0, major |-> 0,
                 codecs |-> [encoders |-> {}, decoders |-> {}],
                 accels |-> {}, pending |-> {}, passed |-> {}]

Probing == probe.stage \notin {"idle", "ready", "null"}

\* probe() starts with the memory of the GPU on a Raspberry Pi, with the
\* version everywhere else.
Probe ==
    /\ probe.stage = "idle"
    /\ probe' = [probe EXCEPT
           !.stage = IF probe.host.system = "raspbian" THEN "gpu" ELSE "version"]

\* The stage of the loop over the accelerators with these left to try.
Validating(pending) == IF pending = {} THEN "ready" ELSE "validate"

\* A bug: the loop leaves an accelerator that failed in the set.
KeepRejected(p, accel) ==
    [p EXCEPT !.stage = Validating(p.pending \ {accel}),
              !.pending = @ \ {accel}]

\* The trial of an accelerator that did not succeed.
Rejected(p, accel) ==
    [p EXCEPT !.stage = Validating(p.pending \ {accel}),
              !.pending = @ \ {accel},
              !.accels = @ \ {accel}]

\* The command exits with 0 and its output is parsed.  Once the signal has
\* been aborted execFile rejects, whatever the child did.
CommandSucceeds ==
    /\ ~probe.signal
    /\ \/ /\ probe.stage = "gpu"
          /\ \E mem \in GpuMemory :
                 probe' = [probe EXCEPT !.stage = "version", !.gpuMem = mem]
       \/ /\ probe.stage = "version"
          /\ \E major \in Majors :
                 probe' = [probe EXCEPT !.stage = "codecs", !.major = major]
       \/ /\ probe.stage = "codecs"
          /\ \E codecs \in Inventories :
                 probe' = [probe EXCEPT !.stage = "hwaccels",
                                        !.codecs = codecs]
       \/ /\ probe.stage = "hwaccels"
          /\ \E listed \in SUBSET Accelerators :
                 probe' = [probe EXCEPT !.stage = Validating(listed),
                                        !.accels = listed,
                                        !.pending = listed]
       \/ /\ probe.stage = "validate"
          /\ \E accel \in probe.pending :
                 probe' = [probe EXCEPT
                     !.stage = Validating(probe.pending \ {accel}),
                     !.pending = @ \ {accel},
                     !.passed = @ \union {accel}]

\* probeCmd answers false: without the memory of the GPU the probe goes on,
\* without one of the three required answers its result is null, and a
\* failed trial removes the accelerator.
Failed ==
    \/ /\ probe.stage = "gpu"
       /\ probe' = [probe EXCEPT !.stage = "version"]
    \/ /\ probe.stage \in {"version", "codecs", "hwaccels"}
       /\ probe' = [probe EXCEPT !.stage = "null"]
    \/ /\ probe.stage = "validate"
       /\ \E accel \in probe.pending : probe' = Rejected(probe, accel)

\* There is no such program, or it ends with an error.
CommandFails == ~probe.signal /\ Failed

\* A bug: the trials of the accelerators run without the timeout.
RequiredTimesOut ==
    /\ ~probe.signal
    /\ probe.stage # "validate"
    /\ Failed

\* The timeout of the command: the child is killed.
CommandTimesOut ==
    /\ ~probe.signal
    /\ Failed

\* The signal is aborted: this command is killed, and each later one is
\* refused as it starts.
CommandCancelled == probe.signal /\ Failed

CallerAborts ==
    /\ Probing
    /\ ~probe.signal
    /\ probe' = [probe EXCEPT !.signal = TRUE]

ProbeNext ==
    \/ Probe
    \/ CommandSucceeds
    \/ CommandFails
    \/ CommandTimesOut
    \/ CommandCancelled
    \/ CallerAborts

\* The capabilities an FfmpegCodecs instance serves.
Capabilities ==
    [system |-> probe.host.system, generation |-> probe.host.generation,
     major |-> probe.major, gpuMem |-> probe.gpuMem,
     encoders |-> probe.codecs.encoders, decoders |-> probe.codecs.decoders,
     accels |-> probe.accels]

AtLeast8(codecs) == codecs.major >= 8
=============================================================================
