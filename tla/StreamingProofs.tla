------------------------ MODULE StreamingProofs ------------------------
(***************************************************************************)
(* For any ports, callers, keys and datagrams: whatever fails, aborts or   *)
(* ends first while a session is built, used and taken down, each resource *)
(* is disposed once, in the reverse of the order it was acquired, and its  *)
(* ports go back after the sockets on them have closed.  The composition   *)
(* implements the leases of PortLeases, as the allocator does alone.       *)
(***************************************************************************)
EXTENDS StreamSession, VideoCommands, SequenceTheorems, TLAPS

-----------------------------------------------------------------------------
(***************************************************************************)
(* The allocator alone.  For any set of ports, any callers and any number  *)
(* of attempts: what it has entered is exactly what its handles and        *)
(* pending calls hold, no two of them share a port, and seen from outside  *)
(* it is a giver of leases.                                                *)
(***************************************************************************)

\* All a call holds, whichever way.
Mine(c) == Reserved(c) \cup Deferred(c)

\* A step that changes one call keeps the invariant if the others are left
\* alone and the set changes by what the call gains and loses.
LEMMA OneCallChanges ==
  ASSUME AllocatorInv, NEW c \in Callers,
         NEW gained \in SUBSET Ports, NEW lost \in SUBSET Ports,
         gained \cap inUse = {}, lost \subseteq Mine(c), gained \cap lost = {},
         inUse' = (inUse \cup gained) \ lost,
         Mine(c)' = (Mine(c) \cup gained) \ lost,
         \A d \in Callers : d # c => Mine(d)' = Mine(d)
  PROVE  EntriesHaveOwners'
<1>1. /\ inUse = UNION {Mine(d) : d \in Callers}
      /\ \A d, e \in Callers : d # e => Mine(d) \cap Mine(e) = {}
  BY DEF AllocatorInv, EntriesHaveOwners, Mine
<1> DEFINE M(d) == Mine(d)
           N(d) == Mine(d)'
<1>2. /\ inUse = UNION {M(d) : d \in Callers}
      /\ \A d, e \in Callers : d # e => M(d) \cap M(e) = {}
      /\ N(c) = (M(c) \cup gained) \ lost
      /\ \A d \in Callers : d # c => N(d) = M(d)
      /\ lost \subseteq M(c)
  BY <1>1
<1> HIDE DEF M, N
<1>3. inUse' = UNION {N(d) : d \in Callers}
  <2>1. ASSUME NEW p, p \in inUse' PROVE \E d \in Callers : p \in N(d)
    <3>1. CASE p \in gained
      BY <1>2, <2>1, <3>1
    <3>2. CASE p \in inUse
      <4>1. PICK d \in Callers : p \in M(d)
        BY <1>2, <3>2
      <4>2. p \notin lost
        BY <2>1
      <4>3. QED
        BY <1>2, <4>1, <4>2
    <3>3. QED
      BY <2>1, <3>1, <3>2
  <2>2. ASSUME NEW d \in Callers, NEW p, p \in N(d) PROVE p \in inUse'
    <3>1. CASE d = c
      BY <1>2, <2>2, <3>1
    <3>2. CASE d # c
      <4>1. p \in M(d) /\ p \in inUse
        BY <1>2, <2>2, <3>2
      <4>2. p \notin lost
        BY <1>2, <3>2, <4>1
      <4>3. QED
        BY <4>1, <4>2
    <3>3. QED
      BY <3>1, <3>2
  <2>3. QED
    BY <2>1, <2>2
<1>4. ASSUME NEW d \in Callers, NEW e \in Callers, d # e PROVE N(d) \cap N(e) = {}
  <2>1. \A f \in Callers : f # c => M(f) \cap gained = {}
    BY <1>2
  <2>2. QED
    BY <1>2, <1>4, <2>1
<1>5. QED
  BY <1>3, <1>4 DEF EntriesHaveOwners, M, N, Mine

-----------------------------------------------------------------------------
(* One lemma per kind of step. *)

LEMMA InitInv == ASSUME AllocatorInit PROVE AllocatorInv
<1>1. \A c \in Callers : Reserved(c) \cup Deferred(c) = {}
  BY DEF AllocatorInit, Reserved, Deferred
<1>2. EntriesHaveOwners
  BY <1>1 DEF AllocatorInit, EntriesHaveOwners
<1>3. QED
  BY <1>2, AllocatorAssumption DEF AllocatorInit, AllocatorInv, AllocatorTypeOK, FirstKnown, Call

LEMMA ReserveInv ==
  ASSUME AllocatorInv, NEW c \in Callers, Reserve(c) PROVE AllocatorInv'
<1> USE DEF AllocatorInv, AllocatorTypeOK
<1>1. AllocatorTypeOK'
  BY AllocatorAssumption DEF Reserve, Call
<1>2. FirstKnown'
  BY DEF Reserve, FirstKnown, Reserved
<1>3. \A d \in Callers : Reserved(d)' = Reserved(d) /\ Deferred(d)' = Deferred(d)
  BY DEF Reserve, Reserved, Deferred, Block
<1>4. EntriesHaveOwners'
  BY <1>3 DEF Reserve, EntriesHaveOwners
<1>5. QED
  BY <1>1, <1>2, <1>4

LEMMA FirstBoundInv ==
  ASSUME AllocatorInv, NEW c \in Callers, FirstBound(c) PROVE AllocatorInv'
<1> USE DEF AllocatorInv, AllocatorTypeOK
<1>1. PICK p \in Ports \ (bound \cup inUse) :
        /\ inUse' = inUse \cup {p}
        /\ first' = [first EXCEPT ![c] = p]
  BY DEF FirstBound
<1>2. AllocatorTypeOK'
  BY <1>1 DEF FirstBound, Call
<1>3. FirstKnown'
  BY <1>1 DEF FirstBound, FirstKnown, Reserved, Block
<1>4. Mine(c) = {} /\ Mine(c)' = {p}
  BY <1>1 DEF FirstBound, Mine, Reserved, Deferred, Block
<1>5. \A d \in Callers : d # c => Mine(d)' = Mine(d)
  BY <1>1 DEF FirstBound, Mine, Reserved, Deferred, Block
<1>6. EntriesHaveOwners'
  <2> DEFINE gained == {p}
             lost == {}
  <2>1. /\ gained \in SUBSET Ports /\ lost \in SUBSET Ports
        /\ gained \cap inUse = {} /\ lost \subseteq Mine(c)
        /\ gained \cap lost = {}
        /\ inUse' = (inUse \cup gained) \ lost
        /\ Mine(c)' = (Mine(c) \cup gained) \ lost
    BY <1>1, <1>4
  <2> HIDE DEF gained, lost
  <2>2. QED
    BY <1>5, <2>1, OneCallChanges
<1>7. QED
  BY <1>2, <1>3, <1>6

LEMMA SecondBoundInv ==
  ASSUME AllocatorInv, NEW c \in Callers, SecondBound(c) PROVE AllocatorInv'
<1> USE DEF AllocatorInv, AllocatorTypeOK
<1> DEFINE p == first[c]
<1>1. /\ p \in Ports /\ p + 1 \in Ports /\ p + 1 \notin inUse
      /\ call[c] = "second"
  BY DEF SecondBound, FirstKnown
<1>2. c \in Pairs
  BY DEF SecondBound, FirstKnown
<1>3. AllocatorTypeOK'
  BY <1>1 DEF SecondBound, Call
<1>4. FirstKnown'
  BY <1>1 DEF SecondBound, FirstKnown, Reserved, Block
<1>5. Mine(c) = {p} /\ Mine(c)' = {p, p + 1}
  BY <1>1, <1>2 DEF SecondBound, Mine, Reserved, Deferred, Block
<1>6. \A d \in Callers : d # c => Mine(d)' = Mine(d)
  BY DEF SecondBound, Mine, Reserved, Deferred, Block
<1>7. EntriesHaveOwners'
  <2> DEFINE gained == {p + 1}
             lost == {}
  <2>1. /\ gained \in SUBSET Ports /\ lost \in SUBSET Ports
        /\ gained \cap inUse = {} /\ lost \subseteq Mine(c)
        /\ gained \cap lost = {}
        /\ inUse' = (inUse \cup gained) \ lost
        /\ Mine(c)' = (Mine(c) \cup gained) \ lost
    BY <1>1, <1>5 DEF SecondBound
  <2> HIDE DEF gained, lost
  <2>2. QED
    BY <1>6, <2>1, OneCallChanges
<1>8. QED
  BY <1>3, <1>4, <1>7

\* Leaving an attempt gives back what the call has entered.
LEMMA UnwindInv ==
  ASSUME AllocatorInv, NEW c \in Callers, Unwind(c),
         call[c] \in {"new", "first", "second"},
         call'[c] \in {"first", "rejected"},
         \A d \in Callers : d # c => call'[d] = call[d]
  PROVE  EntriesHaveOwners'
<1>1. Mine(c) = Deferred(c) /\ Mine(c)' = {}
  BY DEF Mine, Reserved, Deferred
<1>2. \A d \in Callers : d # c => Mine(d)' = Mine(d)
  BY DEF Unwind, Mine, Reserved, Deferred, Block, AllocatorInv, AllocatorTypeOK
<1> DEFINE gained == {}
           lost == Deferred(c)
<1>3. lost \subseteq Ports
  BY DEF Deferred, AllocatorInv, FirstKnown
<1>4. /\ gained \in SUBSET Ports /\ lost \in SUBSET Ports
      /\ gained \cap inUse = {} /\ lost \subseteq Mine(c)
      /\ gained \cap lost = {}
      /\ inUse' = (inUse \cup gained) \ lost
      /\ Mine(c)' = (Mine(c) \cup gained) \ lost
  BY <1>1, <1>3 DEF Unwind
<1> HIDE DEF gained, lost
<1>5. QED
  BY <1>2, <1>4, OneCallChanges

LEMMA RetryInv ==
  ASSUME AllocatorInv, NEW c \in Callers, Retry(c) PROVE AllocatorInv'
<1> USE DEF AllocatorInv, AllocatorTypeOK
<1>1. /\ call[c] \in {"new", "first", "second"}
      /\ call'[c] \in {"first", "rejected"}
      /\ \A d \in Callers : d # c => call'[d] = call[d]
      /\ Unwind(c)
  BY DEF Retry
<1>2. AllocatorTypeOK'
  <2>1. attempt' \in [Callers -> 0..MaxAttempts]
    <3>1. CASE attempt[c] < MaxAttempts
      <4>1. attempt' = [attempt EXCEPT ![c] = attempt[c] + 1]
        BY <3>1 DEF Retry
      <4>2. attempt[c] + 1 \in 0..MaxAttempts
        BY <3>1, AllocatorAssumption
      <4>3. QED
        BY <4>1, <4>2
    <3>2. CASE ~(attempt[c] < MaxAttempts)
      BY <3>2 DEF Retry
    <3>3. QED
      BY <3>1, <3>2
  <2>2. call' \in [Callers -> Call]
    BY DEF Retry, Call
  <2>3. inUse' \subseteq Ports /\ bound' \subseteq Ports
    BY DEF Retry, Unwind
  <2>4. first' \in [Callers -> Ports \cup {None}]
    BY DEF Retry, Unwind
  <2>5. QED
    BY <2>1, <2>2, <2>3, <2>4
<1>3. FirstKnown'
  BY <1>1 DEF Unwind, FirstKnown, Reserved, Block
<1>4. QED
  BY <1>1, <1>2, <1>3, UnwindInv

\* A call ends without a reservation, whatever sockets do meanwhile.
LEMMA RejectedInv ==
  ASSUME AllocatorInv, NEW c \in Callers, Unwind(c),
         call[c] \in {"new", "first", "second"},
         call' = [call EXCEPT ![c] = "rejected"],
         attempt' = attempt, bound' \subseteq Ports
  PROVE  AllocatorInv'
<1> USE DEF AllocatorInv, AllocatorTypeOK
<1>1. call'[c] = "rejected" /\ \A d \in Callers : d # c => call'[d] = call[d]
  OBVIOUS
<1>2. AllocatorTypeOK'
  BY <1>1 DEF Unwind, Call
<1>3. FirstKnown'
  BY <1>1 DEF Unwind, FirstKnown, Reserved, Block
<1>4. QED
  BY <1>1, <1>2, <1>3, UnwindInv

LEMMA CancelInv ==
  ASSUME AllocatorInv, NEW c \in Callers, Cancel(c) PROVE AllocatorInv'
BY RejectedInv DEF Cancel, AllocatorInv, AllocatorTypeOK

\* A handle is disposed, whatever sockets do meanwhile.
GivesBack(c) ==
  /\ call[c] \in {"held", "released"}
  /\ inUse' = inUse \ Reserved(c)
  /\ call' = [call EXCEPT ![c] = "released"]
  /\ UNCHANGED <<first, attempt>>

LEMMA GivenBackInv ==
  ASSUME AllocatorInv, NEW c \in Callers, GivesBack(c), bound' \subseteq Ports
  PROVE  AllocatorInv'
<1> USE DEF AllocatorInv, AllocatorTypeOK
<1>1. AllocatorTypeOK'
  BY DEF GivesBack, Call
<1>2. FirstKnown'
  BY DEF GivesBack, FirstKnown, Reserved, Block
<1>3. Mine(c) = Reserved(c) /\ Mine(c)' = {}
  BY DEF GivesBack, Mine, Reserved, Deferred
<1>4. \A d \in Callers : d # c => Mine(d)' = Mine(d)
  BY DEF GivesBack, Mine, Reserved, Deferred, Block
<1>5. EntriesHaveOwners'
  <2> DEFINE gained == {}
             lost == Reserved(c)
  <2>1. lost \subseteq Ports
    BY DEF Reserved, FirstKnown
  <2>2. /\ gained \in SUBSET Ports /\ lost \in SUBSET Ports
        /\ gained \cap inUse = {} /\ lost \subseteq Mine(c)
        /\ gained \cap lost = {}
        /\ inUse' = (inUse \cup gained) \ lost
        /\ Mine(c)' = (Mine(c) \cup gained) \ lost
    BY <1>3, <2>1 DEF GivesBack
  <2> HIDE DEF gained, lost
  <2>3. QED
    BY <1>4, <2>2, OneCallChanges
<1>6. QED
  BY <1>1, <1>2, <1>5

LEMMA ReleaseInv ==
  ASSUME AllocatorInv, NEW c \in Callers, Release(c) PROVE AllocatorInv'
BY GivenBackInv DEF Release, GivesBack, AllocatorInv, AllocatorTypeOK

\* Sockets of others, and steps that change nothing.
LEMMA BoundInv ==
  ASSUME AllocatorInv, bound' \subseteq Ports,
         UNCHANGED <<inUse, call, first, attempt>>
  PROVE  AllocatorInv'
BY DEF AllocatorInv, AllocatorTypeOK, FirstKnown, EntriesHaveOwners, Reserved, Deferred, Block

LEMMA StepInv == AllocatorInv /\ [AllocatorNext]_allocatorVars => AllocatorInv'
<1> SUFFICES ASSUME AllocatorInv, [AllocatorNext]_allocatorVars PROVE AllocatorInv'
  OBVIOUS
<1>1. CASE UNCHANGED allocatorVars
  BY <1>1, BoundInv DEF allocatorVars, AllocatorInv, AllocatorTypeOK
<1>2. ASSUME NEW c \in Callers, Reserve(c) PROVE AllocatorInv'
  BY <1>2, ReserveInv
<1>3. ASSUME NEW c \in Callers, Answer(c) PROVE AllocatorInv'
  BY <1>3, FirstBoundInv, SecondBoundInv, RetryInv DEF Answer
<1>4. ASSUME NEW c \in Callers, Cancel(c) \/ Release(c) PROVE AllocatorInv'
  BY <1>4, CancelInv, ReleaseInv
<1>5. ASSUME NEW p \in Ports, SocketOpens(p) \/ SocketCloses(p) PROVE AllocatorInv'
  BY <1>5, BoundInv DEF SocketOpens, SocketCloses, AllocatorInv, AllocatorTypeOK
<1>6. QED
  BY <1>1, <1>2, <1>3, <1>4, <1>5 DEF AllocatorNext

\* The set of used ports is what the handles and the pending calls hold, and
\* they hold disjoint ports: an entry is neither lost nor kept for ever,
\* whatever retries, aborts and repeated disposals do.
THEOREM AllocatorCorrect == AllocatorSpec => []AllocatorInv
<1>1. AllocatorInit => AllocatorInv
  BY InitInv
<1>2. QED
  BY <1>1, StepInv, PTL DEF AllocatorSpec

-----------------------------------------------------------------------------
(* The allocator gives leases. *)

leasesNow == [c \in Callers |-> Reserved(c)]

LEMMA HeldAreLeases ==
  ASSUME AllocatorInv, AllocatorInv', NEW c \in Callers,
         Reserved(c) = {}, call'[c] = "held",
         \A d \in Callers : d # c => Reserved(d)' = Reserved(d)
  PROVE  Leases!Grant(c)
<1> DEFINE p == first'[c]
<1>1. Reserved(c)' = Block(c, p)
  BY DEF Reserved, Block
<1>2. p \in Ports /\ Block(c, p) \subseteq Ports
  BY <1>1 DEF AllocatorInv, FirstKnown
<1>3. \A d \in Callers : Reserved(d) \cap Block(c, p) = {}
  BY <1>1 DEF AllocatorInv, EntriesHaveOwners
<1>4. leasesNow' = [leasesNow EXCEPT ![c] = Block(c, p)]
  BY <1>1 DEF leasesNow
<1>5. Leases!Block(c, p) = Block(c, p)
  BY DEF Block, Leases!Block
<1> HIDE DEF p
<1>6. QED
  BY <1>2, <1>3, <1>4, <1>5 DEF Leases!Grant, leasesNow

LEMMA GivenBackLeases ==
  ASSUME AllocatorInv, NEW c \in Callers, GivesBack(c)
  PROVE  Leases!Return(c) \/ UNCHANGED leasesNow
<1>1. \A d \in Callers : d # c => Reserved(d)' = Reserved(d)
  BY DEF GivesBack, Reserved, Block, AllocatorInv, AllocatorTypeOK
<1>2. Reserved(c)' = {}
  BY DEF GivesBack, Reserved, AllocatorInv, AllocatorTypeOK
<1>3. leasesNow' = [leasesNow EXCEPT ![c] = {}]
  BY <1>1, <1>2 DEF leasesNow
<1>4. CASE Reserved(c) = {}
  BY <1>1, <1>2, <1>4 DEF leasesNow
<1>5. CASE Reserved(c) # {}
  BY <1>3, <1>5 DEF Leases!Return, leasesNow
<1>6. QED
  BY <1>4, <1>5

LEMMA StepLeases ==
  ASSUME AllocatorInv, AllocatorInv', [AllocatorNext]_allocatorVars
  PROVE  [Leases!Next]_leasesNow
<1> USE DEF AllocatorInv, AllocatorTypeOK
<1>1. ASSUME \A c \in Callers : Reserved(c)' = Reserved(c) PROVE UNCHANGED leasesNow
  BY <1>1 DEF leasesNow
<1>2. CASE UNCHANGED allocatorVars
  BY <1>1, <1>2 DEF allocatorVars, Reserved, Block
<1>3. ASSUME NEW c \in Callers, Reserve(c) \/ Retry(c) \/ Cancel(c) PROVE UNCHANGED leasesNow
  BY <1>1, <1>3 DEF Reserve, Retry, Cancel, Unwind, Reserved, Block
<1>4. ASSUME NEW c \in Callers, FirstBound(c) PROVE Leases!Grant(c) \/ UNCHANGED leasesNow
  <2>1. PICK p \in Ports : first' = [first EXCEPT ![c] = p]
    BY <1>4 DEF FirstBound
  <2>2. \A d \in Callers : d # c => Reserved(d)' = Reserved(d)
    BY <1>4, <2>1 DEF FirstBound, Reserved, Block
  <2>3. Reserved(c) = {}
    BY <1>4 DEF FirstBound, Reserved
  <2>4. CASE c \in Pairs
    BY <1>1, <1>4, <2>2, <2>3, <2>4 DEF FirstBound, Reserved
  <2>5. CASE c \notin Pairs
    BY <1>4, <2>2, <2>3, <2>5, HeldAreLeases DEF FirstBound
  <2>6. QED
    BY <2>4, <2>5
<1>5. ASSUME NEW c \in Callers, SecondBound(c) PROVE Leases!Grant(c)
  <2>1. \A d \in Callers : d # c => Reserved(d)' = Reserved(d)
    BY <1>5 DEF SecondBound, Reserved, Block
  <2>2. Reserved(c) = {} /\ call'[c] = "held"
    BY <1>5 DEF SecondBound, Reserved
  <2>3. QED
    BY <2>1, <2>2, HeldAreLeases
<1>6. ASSUME NEW c \in Callers, Release(c) PROVE Leases!Return(c) \/ UNCHANGED leasesNow
  BY <1>6, GivenBackLeases DEF Release, GivesBack
<1>7. ASSUME NEW p \in Ports, SocketOpens(p) \/ SocketCloses(p) PROVE UNCHANGED leasesNow
  BY <1>1, <1>7 DEF SocketOpens, SocketCloses, Reserved, Block
<1>8. QED
  BY <1>2, <1>3, <1>4, <1>5, <1>6, <1>7 DEF AllocatorNext, Answer, Leases!Next

\* Seen through its handles the allocator leases ports: never one port to
\* two holders, two ports only side by side, and a second disposal of a
\* handle takes nothing from whoever has its port now.
THEOREM AllocatorLeases == AllocatorSpec => ImplementsPortLeases
<1>1. AllocatorInit => Leases!Init
  BY DEF AllocatorInit, Leases!Init, Reserved
<1>2. AllocatorInv /\ AllocatorInv' /\ [AllocatorNext]_allocatorVars => [Leases!Next]_leasesNow
  BY StepLeases
<1>3. leasesNow = [c \in Callers |-> Reserved(c)]
  BY DEF leasesNow
<1>4. QED
  BY <1>1, <1>2, <1>3, AllocatorCorrect, PTL DEF AllocatorSpec, ImplementsPortLeases, Leases!Spec, leasesNow

-----------------------------------------------------------------------------

(* What the parts are, beside what their own invariants say. *)

\* A demuxer that has not been constructed is as new.
DemuxerKnown == D!DemuxerInv /\ (demux = "none" => D!DemuxerInit)

\* A process that has not been constructed is as new, and one that has been
\* knows how its child ended before it says so.
ProcessSound ==
  /\ P!StreamInv
  /\ child = "dead" => code # "none"
  /\ code # "none" => child \in {"dead", "gone"}

ProcessKnown == IF spawned THEN ProcessSound ELSE P!StreamInit /\ signal = "live"

-----------------------------------------------------------------------------
(* The disposal stack of a session, in the order its resources are         *)
(* acquired and in the order they are given back.                          *)

\* The disposers still to run, by the one that is next.
AllRun        == <<>>
FromTimers    == <<"timers">>
FromPorts     == <<"ports", "timers">>
FromDemuxer   == <<"demuxer", "ports", "timers">>
ViewReport    == <<"report", "ports", "timers">>
TalkReport    == <<"report", "demuxer", "ports", "timers">>
ViewProcess   == <<"process", "report", "ports", "timers">>
TalkProcess   == <<"process", "report", "demuxer", "ports", "timers">>

TimersAhead  == unwinding # AllRun
PortsAhead   == unwinding \notin {AllRun, FromTimers}
DemuxerAhead == unwinding \in {FromDemuxer, TalkReport, TalkProcess}
ReportAhead  == unwinding \in {ViewReport, TalkReport, ViewProcess, TalkProcess}
ProcessAhead == unwinding \in {ViewProcess, TalkProcess}

\* What the owner has gathered by now.
Gathered ==
  CASE stage = "reserving" -> <<"timers">>
    [] stage = "demuxing"  -> <<"timers", "ports", "demuxer">>
    [] OTHER -> IF scene = "view" THEN <<"timers", "ports", "report", "process">>
                ELSE <<"timers", "ports", "demuxer", "report", "process">>

Building == {"reserving", "demuxing", "starting"}
Serving  == {"leaving", "streaming"}
Ending   == {"unwinding", "over"}

-----------------------------------------------------------------------------
(* The inductive invariant. *)

\* How far the owner is says what it has acquired.
OwnerPlaced ==
  /\ scene \in Scenes
  /\ stage \in {"new"} \cup Building \cup Serving \cup Ending
  /\ aborted \in BOOLEAN
  /\ spawned \in BOOLEAN
  /\ stage = "new" => ~aborted /\ (scene # "timers" => timers = T!Empty)
  /\ stage # "new" => scene \in {"view", "talk"}
  /\ stage \in {"new", "reserving"} => ~spawned /\ demux = "none"
  /\ stage = "demuxing" => scene = "talk" /\ ~spawned /\ demux # "none"
  /\ stage \in {"starting"} \cup Serving => spawned /\ (demux # "none" <=> scene = "talk")
  /\ stage \in {"demuxing", "starting"} \cup Serving => call[Caller] = "held"

\* The stack that disposes of it holds just that, and nothing is disposed of
\* before the owner gives up or stops.
TwoStacks(b, s) == [x \in {"building", "session"} |-> IF x = "building" THEN b ELSE s]

StacksPlaced ==
  /\ stacks = TwoStacks(IF stage \in Building THEN Gathered ELSE None,
                        IF stage \in Serving THEN Gathered ELSE None)
  /\ stage \notin Ending => /\ unwinding = AllRun /\ running = None /\ errors = <<>>
                            /\ disposal = "no" /\ demuxGone = "no"

\* While a stack unwinds each resource is ahead and whole, or it is the one
\* whose disposer is awaited, or it is gone.
UnwindsInOrder ==
  /\ unwinding \in {AllRun, FromTimers, FromPorts, FromDemuxer, ViewReport,
                    TalkReport, ViewProcess, TalkProcess}
  /\ running \in {None, "timers", "ports", "demuxer", "report", "process"}
  /\ running = "process" => ReportAhead
  /\ running = "report"  => unwinding \in {FromPorts, FromDemuxer}
  /\ running = "demuxer" => unwinding = FromPorts
  /\ running = "ports"   => unwinding = FromTimers
  /\ running = "timers"  => unwinding = AllRun
  /\ ReportAhead => spawned
  /\ ProcessAhead => running = None /\ disposal = "no"
  /\ spawned /\ ~ProcessAhead => IF running = "process" THEN disposal # "no" ELSE disposal = "done"
  /\ DemuxerAhead => demux # "none" /\ demuxGone = "no"
  /\ demux # "none" /\ ~DemuxerAhead => IF running = "demuxer" THEN demuxGone # "no" ELSE demuxGone = "done"
  /\ running = "report" => spawned
  /\ running = "demuxer" => demux # "none"
  /\ call[Caller] \in (IF PortsAhead THEN {"held"} ELSE {"released", "rejected"})
  /\ ~TimersAhead => timers.disposed
  /\ errors = IF spawned /\ ~ReportAhead /\ running # "report" THEN <<"report">> ELSE <<>>

UnwindingPlaced ==
  /\ stage \in Ending => UnwindsInOrder
  /\ stage = "over" => S!Unwound

Placed == OwnerPlaced /\ StacksPlaced /\ UnwindingPlaced

Strong == AllocatorInv /\ T!RegistryInv /\ DemuxerKnown /\ ProcessKnown /\ Placed
-----------------------------------------------------------------------------
(* The timer registry: every operation on a sound registry leaves a sound  *)
(* one.  T!RegistryInv is said here timer by timer, of any registry.       *)

Registry == [keyed : [Keys -> T!Timer \cup {None}], anonymous : SUBSET T!Timer,
             pending : SUBSET T!Timer, disposed : BOOLEAN]

SoundRegistry(r) ==
  /\ r \in Registry
  /\ \A k \in Keys : r.keyed[k] # None => r.keyed[k].key = k /\ r.keyed[k] \in r.pending
  /\ \A t \in r.anonymous : t.key = None /\ t \in r.pending
  /\ \A t \in r.pending : IF t.key = None THEN t \in r.anonymous ELSE r.keyed[t.key] = t
  /\ r.disposed => r.pending = {}

HasRoom(r) == \E i \in 1..MaxTimers : \A t \in r.pending : t.id # i

LEMMA NoneApart ==
  /\ None \notin T!Timer /\ None \notin Keys
  /\ \A t \in T!Timer : t.key \in Keys \cup {None} /\ t.id \in 1..MaxTimers /\ t.every \in BOOLEAN
BY NoneAssumption DEF T!Timer

LEMMA SoundIsInv ==
  /\ T!RegistryInv <=> SoundRegistry(timers)
  /\ T!RegistryInv' <=> SoundRegistry(timers')
<1>1. ASSUME NEW r \in Registry
      PROVE  r.pending = r.anonymous \cup {r.keyed[k] : k \in {j \in Keys : r.keyed[j] # None}}
             <=> \A t \in T!Timer : t \in r.pending <=> (t \in r.anonymous \/ \E k \in Keys : r.keyed[k] = t)
  <2>1. r.pending \subseteq T!Timer /\ r.anonymous \subseteq T!Timer
        /\ \A k \in Keys : r.keyed[k] \in T!Timer \cup {None}
    BY DEF Registry
  <2>2. QED
    BY <2>1, NoneApart
<1>2. ASSUME NEW r \in Registry
      PROVE  SoundRegistry(r) <=>
               /\ r.pending = r.anonymous \cup {r.keyed[k] : k \in {j \in Keys : r.keyed[j] # None}}
               /\ \A k \in Keys : r.keyed[k] # None => r.keyed[k].key = k
               /\ \A t \in r.anonymous : t.key = None
               /\ r.disposed => r.pending = {}
  <2>1. r.pending \subseteq T!Timer /\ r.anonymous \subseteq T!Timer
        /\ \A k \in Keys : r.keyed[k] \in T!Timer \cup {None}
    BY DEF Registry
  <2>2. QED
    BY <1>1, <2>1, NoneApart DEF SoundRegistry
<1>3. QED
  BY <1>2 DEF T!RegistryInv, T!RegistryTypeOK, T!NoTimerEscapes, Registry, SoundRegistry

LEMMA EmptySound == SoundRegistry(T!Empty)
BY DEF SoundRegistry, Registry, T!Empty

LEMMA ClearSound ==
  ASSUME NEW r, SoundRegistry(r), NEW k \in Keys
  PROVE  /\ SoundRegistry(T!Clear(r, k))
         /\ T!Clear(r, k).pending \subseteq r.pending
         /\ T!Clear(r, k).disposed = r.disposed
         /\ T!Clear(r, k).keyed[k] = None
<1>1. CASE r.keyed[k] = None
  BY <1>1 DEF T!Clear
<1>2. CASE r.keyed[k] # None
  <2> DEFINE c == T!Clear(r, k)
  <2>1. c = [r EXCEPT !.keyed = [r.keyed EXCEPT ![k] = None], !.pending = r.pending \ {r.keyed[k]}]
    BY <1>2 DEF T!Clear
  <2>2. /\ c \in Registry
        /\ c.keyed = [r.keyed EXCEPT ![k] = None] /\ c.pending = r.pending \ {r.keyed[k]}
        /\ c.anonymous = r.anonymous /\ c.disposed = r.disposed
    <3>1. /\ r.keyed \in [Keys -> T!Timer \cup {None}] /\ r.pending \subseteq T!Timer
          /\ r.anonymous \subseteq T!Timer /\ r.disposed \in BOOLEAN
          /\ r = [keyed |-> r.keyed, anonymous |-> r.anonymous, pending |-> r.pending, disposed |-> r.disposed]
      BY DEF SoundRegistry, Registry
    <3> DEFINE keyed == [r.keyed EXCEPT ![k] = None]
               pending == r.pending \ {r.keyed[k]}
    <3>2. keyed \in [Keys -> T!Timer \cup {None}] /\ pending \subseteq T!Timer
      BY <3>1
    <3> HIDE DEF keyed, pending
    <3>3. c = [keyed |-> keyed, anonymous |-> r.anonymous, pending |-> pending, disposed |-> r.disposed]
      BY <2>1, <3>1 DEF keyed, pending
    <3>4. QED
      BY <3>1, <3>2, <3>3 DEF Registry, keyed, pending
  <2>3. r.keyed[k].key = k /\ k # None
    BY <1>2, NoneApart DEF SoundRegistry
  <2> HIDE DEF c
  <2>4. \A j \in Keys : c.keyed[j] = IF j = k THEN None ELSE r.keyed[j]
    BY <2>2 DEF SoundRegistry, Registry
  <2>5. \A j \in Keys : c.keyed[j] # None => c.keyed[j].key = j /\ c.keyed[j] \in c.pending
    BY <2>2, <2>3, <2>4 DEF SoundRegistry
  <2>6. \A t \in c.anonymous : t.key = None /\ t \in c.pending
    BY <2>2, <2>3 DEF SoundRegistry
  <2>7. \A t \in c.pending : IF t.key = None THEN t \in c.anonymous ELSE c.keyed[t.key] = t
    <3>1. TAKE t \in c.pending
    <3>2. t \in r.pending /\ t # r.keyed[k] /\ t \in T!Timer
      BY <2>2, <3>1 DEF SoundRegistry, Registry
    <3>3. QED
      BY <2>2, <2>4, <3>2, NoneApart DEF SoundRegistry
  <2>8. c.disposed => c.pending = {}
    BY <2>2 DEF SoundRegistry
  <2>9. SoundRegistry(c) /\ c.pending \subseteq r.pending /\ c.disposed = r.disposed /\ c.keyed[k] = None
    BY <2>2, <2>4, <2>5, <2>6, <2>7, <2>8 DEF SoundRegistry
  <2>10. QED
    BY <2>9 DEF c
<1>3. QED
  BY <1>1, <1>2

LEMMA StartedTimer ==
  ASSUME NEW r, HasRoom(r), NEW key \in Keys \cup {None}, NEW every \in BOOLEAN
  PROVE  T!Started(r, key, every) \in T!Timer /\ T!Started(r, key, every).key = key
<1> DEFINE free == {i \in 1..MaxTimers : \A t \in r.pending : t.id # i}
<1>1. free # {} /\ free \subseteq 1..MaxTimers
  BY DEF HasRoom
<1> HIDE DEF free
<1>2. (CHOOSE i \in free : TRUE) \in 1..MaxTimers
  BY <1>1
<1>3. T!Started(r, key, every) = [id |-> CHOOSE i \in free : TRUE, key |-> key, every |-> every]
  BY DEF T!Started, free
<1>4. QED
  BY <1>2, <1>3 DEF T!Timer

LEMMA RegisterSound ==
  ASSUME NEW r, SoundRegistry(r), HasRoom(r), NEW k \in Keys, NEW every \in BOOLEAN
  PROVE  SoundRegistry(T!Register(r, k, every))
<1>1. CASE r.disposed
  BY <1>1 DEF T!Register
<1>2. CASE ~r.disposed
  <2> DEFINE c == T!Clear(r, k)
             t == T!Started(c, k, every)
             n == T!Keep(c, k, t)
  <2>1. SoundRegistry(c) /\ c.pending \subseteq r.pending /\ c.disposed = r.disposed /\ c.keyed[k] = None
    BY ClearSound
  <2>2. T!Register(r, k, every) = n
    BY <1>2 DEF T!Register
  <2> HIDE DEF c
  <2>3. t \in T!Timer /\ t.key = k
    <3>1. HasRoom(c)
      BY <2>1 DEF HasRoom
    <3>2. QED
      BY <3>1, StartedTimer
  <2> HIDE DEF t
  <2>4. n = [c EXCEPT !.keyed = [c.keyed EXCEPT ![k] = t], !.pending = c.pending \cup {t}]
    BY DEF T!Keep
  <2>5. /\ n \in Registry
        /\ n.keyed = [c.keyed EXCEPT ![k] = t] /\ n.pending = c.pending \cup {t}
        /\ n.anonymous = c.anonymous /\ n.disposed = c.disposed
    <3>1. /\ c.keyed \in [Keys -> T!Timer \cup {None}] /\ c.pending \subseteq T!Timer
          /\ c.anonymous \subseteq T!Timer /\ c.disposed \in BOOLEAN
          /\ c = [keyed |-> c.keyed, anonymous |-> c.anonymous, pending |-> c.pending, disposed |-> c.disposed]
      BY <2>1 DEF SoundRegistry, Registry
    <3> DEFINE keyed == [c.keyed EXCEPT ![k] = t]
               pending == c.pending \cup {t}
    <3>2. keyed \in [Keys -> T!Timer \cup {None}] /\ pending \subseteq T!Timer
      BY <2>3, <3>1
    <3> HIDE DEF keyed, pending
    <3>3. n = [keyed |-> keyed, anonymous |-> c.anonymous, pending |-> pending, disposed |-> c.disposed]
      BY <2>4, <3>1 DEF keyed, pending
    <3>4. QED
      BY <3>1, <3>2, <3>3 DEF Registry, keyed, pending
  <2> HIDE DEF n
  <2>6. \A j \in Keys : n.keyed[j] = IF j = k THEN t ELSE c.keyed[j]
    BY <2>1, <2>5 DEF SoundRegistry, Registry
  <2>7. \A u \in n.pending : IF u.key = None THEN u \in n.anonymous ELSE n.keyed[u.key] = u
    <3>1. TAKE u \in n.pending
    <3>2. u \in T!Timer
      BY <2>5, <3>1 DEF Registry
    <3>3. CASE u = t
      BY <2>3, <2>6, <3>3, NoneApart
    <3>4. CASE u # t
      <4>1. u \in c.pending
        BY <2>5, <3>1, <3>4
      <4>2. u.key # k
        BY <2>1, <3>2, <4>1, NoneApart DEF SoundRegistry
      <4>3. QED
        BY <2>1, <2>5, <2>6, <3>2, <4>1, <4>2, NoneApart DEF SoundRegistry
    <3>5. QED
      BY <3>3, <3>4
  <2>8. \A j \in Keys : n.keyed[j] # None => n.keyed[j].key = j /\ n.keyed[j] \in n.pending
    BY <2>1, <2>3, <2>5, <2>6 DEF SoundRegistry
  <2>9. (\A u \in n.anonymous : u.key = None /\ u \in n.pending) /\ ~n.disposed
    BY <1>2, <2>1, <2>5 DEF SoundRegistry
  <2>10. QED
    BY <2>2, <2>5, <2>7, <2>8, <2>9 DEF SoundRegistry
<1>3. QED
  BY <1>1, <1>2

LEMMA ScheduleSound ==
  ASSUME NEW r, SoundRegistry(r), HasRoom(r)
  PROVE  SoundRegistry(T!Schedule(r))
<1>1. CASE r.disposed
  BY <1>1 DEF T!Schedule
<1>2. CASE ~r.disposed
  <2> DEFINE t == T!Started(r, None, FALSE)
             n == [r EXCEPT !.anonymous = r.anonymous \cup {t}, !.pending = r.pending \cup {t}]
  <2>1. T!Schedule(r) = n
    BY <1>2 DEF T!Schedule
  <2>2. t \in T!Timer /\ t.key = None
    BY StartedTimer
  <2> HIDE DEF t
  <2>3. /\ n \in Registry
        /\ n.keyed = r.keyed /\ n.pending = r.pending \cup {t}
        /\ n.anonymous = r.anonymous \cup {t} /\ n.disposed = r.disposed
    BY <2>2 DEF SoundRegistry, Registry
  <2> HIDE DEF n
  <2>4. SoundRegistry(n)
    BY <1>2, <2>2, <2>3 DEF SoundRegistry
  <2>5. QED
    BY <2>1, <2>4
<1>3. QED
  BY <1>1, <1>2

LEMMA ClearAllSound ==
  ASSUME NEW r \in Registry, \A t \in r.pending : IF t.key = None THEN t \in r.anonymous ELSE r.keyed[t.key] = t
  PROVE  /\ SoundRegistry(T!ClearAll(r))
         /\ T!ClearAll(r).disposed = r.disposed /\ T!ClearAll(r).pending = {}
<1> DEFINE live == r.pending \ (r.anonymous \cup {r.keyed[k] : k \in Keys})
           n == T!ClearAll(r)
<1>1. live = {}
  BY NoneApart DEF Registry
<1>2. n = [T!Empty EXCEPT !.disposed = r.disposed, !.pending = live]
  BY DEF T!ClearAll
<1> HIDE DEF live
<1>3. /\ n \in Registry
      /\ n.keyed = [k \in Keys |-> None] /\ n.pending = {}
      /\ n.anonymous = {} /\ n.disposed = r.disposed
  <2>1. n = [keyed |-> [k \in Keys |-> None], anonymous |-> {}, pending |-> {}, disposed |-> r.disposed]
    BY <1>1, <1>2 DEF T!Empty
  <2>2. r.disposed \in BOOLEAN /\ [k \in Keys |-> None] \in [Keys -> T!Timer \cup {None}]
    BY DEF Registry
  <2>3. QED
    BY <2>1, <2>2 DEF Registry
<1> HIDE DEF n
<1>4. SoundRegistry(n)
  BY <1>3 DEF SoundRegistry
<1>5. QED
  BY <1>3, <1>4 DEF n

LEMMA RetireSound ==
  ASSUME NEW r, SoundRegistry(r)
  PROVE  SoundRegistry(T!Retire(r)) /\ T!Retire(r).disposed
<1> DEFINE d == [r EXCEPT !.disposed = TRUE]
<1>1. d \in Registry /\ d.pending = r.pending /\ d.anonymous = r.anonymous
      /\ d.keyed = r.keyed /\ d.disposed = TRUE
  BY DEF SoundRegistry, Registry
<1>2. T!Retire(r) = T!ClearAll(d)
  BY DEF T!Retire
<1> HIDE DEF d
<1>3. QED
  BY <1>1, <1>2, ClearAllSound DEF SoundRegistry

\* A timer that fires has left the registry by the time its callback runs.
LEMMA ForgottenSound ==
  ASSUME NEW r, SoundRegistry(r), NEW t \in r.pending
  PROVE  /\ SoundRegistry(T!Forget(T!Elapsed(r, t), t))
         /\ T!Forget(T!Elapsed(r, t), t).pending = T!Elapsed(r, t).pending
<1> DEFINE e == T!Elapsed(r, t)
           n == T!Forget(e, t)
<1>1. t \in T!Timer /\ t.key \in Keys \cup {None}
  BY NoneApart DEF SoundRegistry, Registry
<1>2. CASE t.every
  <2>1. e = r /\ T!Forget(r, t) = r
    BY <1>2 DEF T!Elapsed, T!Forget
  <2>2. QED
    BY <2>1
<1>3. CASE ~t.every
  <2>1. e = [r EXCEPT !.pending = r.pending \ {t}]
    BY <1>3 DEF T!Elapsed
  <2>2. /\ e \in Registry /\ e.keyed = r.keyed /\ e.pending = r.pending \ {t}
        /\ e.anonymous = r.anonymous /\ e.disposed = r.disposed
    BY <2>1 DEF SoundRegistry, Registry
  <2> HIDE DEF e
  <2>3. CASE t.key = None
    <3>1. n = [e EXCEPT !.anonymous = e.anonymous \ {t}]
      BY <1>3, <2>3 DEF T!Forget
    <3>2. /\ n \in Registry /\ n.keyed = r.keyed /\ n.pending = e.pending
          /\ n.pending = r.pending \ {t}
          /\ n.anonymous = r.anonymous \ {t} /\ n.disposed = r.disposed
      BY <2>2, <3>1 DEF Registry
    <3> HIDE DEF n
    <3>3. SoundRegistry(n)
      <4>1. \A k \in Keys : n.keyed[k] # None => n.keyed[k].key = k /\ n.keyed[k] \in n.pending
        BY <2>3, <3>2, NoneApart DEF SoundRegistry
      <4>2. QED
        BY <3>2, <4>1 DEF SoundRegistry
    <3>4. QED
      BY <3>2, <3>3 DEF n, e
  <2>4. CASE t.key # None
    <3>1. n = [e EXCEPT !.keyed = [e.keyed EXCEPT ![t.key] = None]]
      BY <1>3, <2>4 DEF T!Forget
    <3>2. /\ n \in Registry /\ n.keyed = [r.keyed EXCEPT ![t.key] = None] /\ n.pending = e.pending
          /\ n.pending = r.pending \ {t}
          /\ n.anonymous = r.anonymous /\ n.disposed = r.disposed
      BY <2>2, <3>1 DEF Registry
    <3> HIDE DEF n
    <3>3. \A k \in Keys : n.keyed[k] = IF k = t.key THEN None ELSE r.keyed[k]
      BY <3>2 DEF SoundRegistry, Registry
    <3>4. \A k \in Keys : n.keyed[k] # None => n.keyed[k].key = k /\ n.keyed[k] \in n.pending
      BY <3>2, <3>3 DEF SoundRegistry
    <3>5. \A u \in n.anonymous : u.key = None /\ u \in n.pending
      BY <2>4, <3>2 DEF SoundRegistry
    <3>6. \A u \in n.pending : IF u.key = None THEN u \in n.anonymous ELSE n.keyed[u.key] = u
      <4>1. TAKE u \in n.pending
      <4>2. u \in T!Timer /\ u \in r.pending /\ u # t
        BY <3>2, <4>1 DEF Registry
      <4>3. CASE u.key = None
        BY <3>2, <4>2, <4>3 DEF SoundRegistry
      <4>4. CASE u.key # None
        <5>1. r.keyed[u.key] = u /\ r.keyed[t.key] = t /\ u.key \in Keys
          BY <2>4, <4>2, <4>4, NoneApart DEF SoundRegistry
        <5>2. QED
          BY <3>3, <4>2, <4>4, <5>1
      <4>5. QED
        BY <4>3, <4>4
    <3>7. SoundRegistry(n)
      BY <3>2, <3>4, <3>5, <3>6 DEF SoundRegistry
    <3>8. QED
      BY <3>2, <3>7 DEF n, e
  <2>5. QED
    BY <2>3, <2>4
<1>4. QED
  BY <1>2, <1>3

LEMMA PerformSound ==
  ASSUME NEW r, SoundRegistry(r), NEW op \in T!Operations,
         op.do \in {"register", "schedule"} => HasRoom(r)
  PROVE  SoundRegistry(T!Perform(r, op))
<1>1. CASE op.do = "register"
  <2>1. op.key \in Keys /\ op.every \in BOOLEAN
    BY <1>1 DEF T!Operations
  <2>2. QED
    BY <1>1, <2>1, RegisterSound DEF T!Perform
<1>2. CASE op.do = "clear"
  <2>1. op.key \in Keys
    BY <1>2 DEF T!Operations
  <2>2. QED
    BY <1>2, <2>1, ClearSound DEF T!Perform
<1>3. CASE op.do = "schedule"
  BY <1>3, ScheduleSound DEF T!Perform
<1>4. CASE op.do = "clearAll"
  BY <1>4, ClearAllSound DEF T!Perform, SoundRegistry
<1>5. CASE op.do = "dispose"
  BY <1>5, RetireSound DEF T!Perform
<1>6. CASE op.do \notin {"register", "clear", "schedule", "clearAll", "dispose"}
  BY <1>6 DEF T!Perform
<1>7. QED
  BY <1>1, <1>2, <1>3, <1>4, <1>5, <1>6

\* The registry on its own, whatever its callbacks call.
LEMMA CallbacksSound ==
  ASSUME SoundRegistry(timers), Callbacks PROVE SoundRegistry(timers')
<1>1. PICK op \in T!Operations : T!Call(op) \/ \E t \in timers.pending : T!Fire(t, op)
  BY DEF Callbacks
<1>2. CASE T!Call(op)
  BY <1>2, PerformSound DEF T!Call, T!Room, HasRoom
<1>3. CASE \E t \in timers.pending : T!Fire(t, op)
  <2>1. PICK t \in timers.pending : T!Fire(t, op)
    BY <1>3
  <2> DEFINE n == T!Forget(T!Elapsed(timers, t), t)
  <2>2. SoundRegistry(n) /\ n.pending = T!Elapsed(timers, t).pending
    BY ForgottenSound
  <2> HIDE DEF n
  <2>3. op.do \in {"register", "schedule"} => HasRoom(n)
    BY <2>1, <2>2 DEF T!Fire, T!Room, HasRoom
  <2>4. timers' = T!Perform(n, op)
    BY <2>1 DEF T!Fire, T!Fired, n
  <2>5. QED
    BY <2>2, <2>3, <2>4, PerformSound
<1>4. QED
  BY <1>1, <1>2, <1>3

-----------------------------------------------------------------------------
(* The demuxer: what each of its steps keeps. *)

LEMMA DemuxerBegins ==
  ASSUME DemuxerKnown, aborted \in BOOLEAN, D!Construct(aborted)
  PROVE  DemuxerKnown' /\ demux' # "none" /\ demuxGone' = demuxGone
BY DEF DemuxerKnown, D!DemuxerInv, D!DemuxerTypeOK, D!DemuxerConsistent, D!DemuxerInit,
       D!DemuxLive, D!Construct, D!End, D!Rejected, D!Promise

LEMMA DemuxerEnds ==
  ASSUME DemuxerKnown, NEW reason \in {"parent", "shutdown", "failed", "timeout"},
         D!AbortDemuxer(reason)
  PROVE  DemuxerKnown' /\ demux # "none" /\ demux' # "none" /\ demuxGone' = demuxGone
BY DEF DemuxerKnown, D!DemuxerInv, D!DemuxerTypeOK, D!DemuxerConsistent, D!DemuxerInit,
       D!DemuxLive, D!AbortDemuxer, D!End, D!Rejected, D!Promise

LEMMA DemuxerDisposes ==
  ASSUME DemuxerKnown, demux # "none", D!DisposeDemuxer
  PROVE  DemuxerKnown' /\ demux' # "none" /\ demuxGone' # "no"
BY DEF DemuxerKnown, D!DemuxerInv, D!DemuxerTypeOK, D!DemuxerConsistent, D!DemuxerInit,
       D!DemuxLive, D!DisposeDemuxer, D!End, D!Stay, D!Rejected, D!Promise

LEMMA DemuxStepKnown ==
  ASSUME DemuxerKnown, DemuxStep
  PROVE  /\ DemuxerKnown' /\ demux # "none" /\ demux' # "none"
         /\ demuxGone' = demuxGone \/ (demuxGone = "awaiting" /\ demuxGone' = "done")
<1> USE DEF DemuxerKnown, D!DemuxerInv, D!DemuxerTypeOK, D!DemuxerConsistent, D!DemuxerInit,
            D!DemuxLive, D!Promise
<1>1. demux # "none"
  BY DEF DemuxStep, InDemuxer
<1>2. CASE D!Listening
  BY <1>1, <1>2 DEF D!Listening
<1>3. CASE D!SocketError \/ D!InactivityLapses
  BY <1>3, DemuxerEnds DEF D!SocketError, D!InactivityLapses
<1>4. CASE D!SocketClosed
  BY <1>1, <1>4 DEF D!SocketClosed
<1>5. CASE D!DemuxerDisposed
  BY <1>1, <1>5 DEF D!DemuxerDisposed
<1>6. CASE \E kind \in DatagramKinds : D!Datagram(kind)
  <2>1. PICK kind \in DatagramKinds : D!Datagram(kind)
    BY <1>6
  <2>2. QED
    BY <1>1, <2>1 DEF D!Datagram
<1>7. CASE D!HeartbeatFires
  BY <1>1, <1>7 DEF D!HeartbeatFires
<1>8. CASE D!FfmpegWaits
  BY <1>1, <1>8 DEF D!FfmpegWaits
<1>9. QED
  BY <1>2, <1>3, <1>4, <1>5, <1>6, <1>7, <1>8 DEF DemuxStep, InDemuxer, SocketReports

-----------------------------------------------------------------------------
(* The process: what each of its steps keeps. *)

LEMMA ProcessBegins ==
  ASSUME P!StreamInit, signal = "live", aborted \in BOOLEAN,
         NEW returnPort \in BOOLEAN, Spawn(returnPort)
  PROVE  ProcessSound' /\ disposal' = disposal
BY DEF Spawn, ProcessSound, P!StreamInv, P!StreamTypeOK, P!TypeOK, P!OwnerKnowsChild, P!MonitorFollows,
       P!StreamInit, P!Init, P!StartMonitor, P!processVars, P!Live, P!Promise

LEMMA ProcessEnds ==
  ASSUME ProcessSound, NEW reason \in {"parent", "failed", "timeout", "shutdown"},
         P!Abort(reason), P!Teardown
  PROVE  ProcessSound' /\ disposal' = disposal
BY DEF ProcessSound, P!StreamInv, P!StreamTypeOK, P!TypeOK, P!OwnerKnowsChild, P!MonitorFollows,
       P!Abort, P!Fire, P!Teardown, P!Live, P!Promise

LEMMA ProcessDisposes ==
  ASSUME ProcessSound, P!Dispose, P!Teardown
  PROVE  ProcessSound' /\ disposal' # "no"
BY DEF ProcessSound, P!StreamInv, P!StreamTypeOK, P!TypeOK, P!OwnerKnowsChild, P!MonitorFollows,
       P!Dispose, P!FireIfLive, P!Fire, P!Teardown, P!Live, P!Promise

LEMMA ProcessStepKept ==
  ASSUME ProcessSound, P!ProcessStep
  PROVE  /\ ProcessSound'
         /\ disposal' = disposal \/ (disposal = "awaiting" /\ disposal' = "done")
<1> USE DEF ProcessSound, P!StreamInv, P!StreamTypeOK, P!TypeOK, P!OwnerKnowsChild,
            P!MonitorFollows, P!Live, P!Promise
<1>1. CASE P!SpawnError /\ P!Teardown
  BY <1>1 DEF P!SpawnError, P!FireIfLive, P!Fire, P!Teardown
<1>2. CASE P!ChildKilled /\ P!Teardown
  BY <1>2 DEF P!ChildKilled, P!Teardown
<1>3. CASE P!Exit /\ P!Teardown
  BY <1>3 DEF P!Exit, P!FireIfLive, P!Fire, P!Teardown
<1>4. CASE P!StartupLapses /\ P!Teardown
  BY <1>4 DEF P!StartupLapses
<1>5. CASE P!DisposeReturns /\ P!Teardown
  BY <1>5 DEF P!DisposeReturns, P!Teardown
<1>6. CASE P!StderrData /\ P!Teardown
  BY <1>6 DEF P!StderrData, P!Teardown
<1>7. CASE (\E c \in {"zero", "nonzero"} : P!ChildQuits(c)) /\ P!Teardown
  <2>1. PICK c \in {"zero", "nonzero"} : P!ChildQuits(c)
    BY <1>7
  <2>2. code = "none" /\ signal # "closed" /\ child' = "dead" /\ code' = c
    BY <2>1 DEF P!ChildQuits
  <2>3. QED
    BY <1>7, <2>1, <2>2 DEF P!ChildQuits, P!Teardown
<1>8. QED
  BY <1>1, <1>2, <1>3, <1>4, <1>5, <1>6, <1>7 DEF P!ProcessStep, P!Runtime

LEMMA StreamStepKnown ==
  ASSUME ProcessKnown, StreamStep
  PROVE  /\ ProcessKnown'
         /\ disposal' = disposal \/ (disposal = "awaiting" /\ disposal' = "done")
<1>1. spawned /\ spawned' = spawned /\ ProcessSound
  BY DEF ProcessKnown, StreamStep, InStream, ownerVars
<1>2. SUFFICES /\ ProcessSound'
               /\ disposal' = disposal \/ (disposal = "awaiting" /\ disposal' = "done")
  BY <1>1 DEF ProcessKnown
<1> USE DEF ProcessSound, P!StreamInv, P!StreamTypeOK, P!TypeOK, P!OwnerKnowsChild,
            P!MonitorFollows, P!Live, P!Promise
<1>3. CASE P!ProcessStep
  BY <1>1, <1>3, ProcessStepKept
<1>4. CASE P!MonitorFails \/ P!HealthLapses
  BY <1>1, <1>4, ProcessEnds DEF P!MonitorFails, P!HealthLapses
<1>5. CASE P!MonitorListens
  BY <1>1, <1>5 DEF P!MonitorListens, P!processVars
<1>6. CASE P!Packet
  BY <1>1, <1>6 DEF P!Packet, P!processVars
<1>7. QED
  BY <1>3, <1>4, <1>5, <1>6 DEF StreamStep, InStream, MonitorBinds

-----------------------------------------------------------------------------
(* The stacks: what is gathered on them, and the disposers it becomes. *)

LEMMA StackUpdates ==
  ASSUME NEW b, NEW s, NEW x
  PROVE  /\ [TwoStacks(b, s) EXCEPT !["building"] = x] = TwoStacks(x, s)
         /\ [TwoStacks(b, s) EXCEPT !["session"] = x] = TwoStacks(b, x)
         /\ TwoStacks(b, s)["building"] = b /\ TwoStacks(b, s)["session"] = s
BY DEF TwoStacks

LEMMA BuildingGrows ==
  ASSUME NEW b, stacks = TwoStacks(b, None), NEW x
  PROVE  /\ S!Open("building", x) => stacks' = TwoStacks(x, None)
         /\ S!Enter("building", x) => stacks' = TwoStacks(b \o x, None)
<1>1. S!Open("building", x) => stacks' = [stacks EXCEPT !["building"] = x]
  BY DEF S!Open
<1>2. S!Enter("building", x) => stacks' = [stacks EXCEPT !["building"] = stacks["building"] \o x]
  BY DEF S!Enter
<1> DEFINE y == b \o x
<1>3. S!Enter("building", x) => stacks' = [stacks EXCEPT !["building"] = y]
  BY <1>2, StackUpdates
<1> HIDE DEF y
<1>4. S!Enter("building", x) => stacks' = TwoStacks(y, None)
  BY <1>3, StackUpdates
<1>5. S!Open("building", x) => stacks' = TwoStacks(x, None)
  BY <1>1, StackUpdates
<1>6. QED
  BY <1>4, <1>5 DEF y

\* Two sequences joined are the third if it agrees with them place by place.
LEMMA Joins ==
  ASSUME NEW R, NEW s \in Seq(R), NEW t \in Seq(R), NEW u \in Seq(R), Len(u) = Len(s) + Len(t),
         \A i \in 1..Len(u) : u[i] = IF i <= Len(s) THEN s[i] ELSE t[i - Len(s)]
  PROVE  s \o t = u
<1> DEFINE v == s \o t
<1>1. /\ v \in Seq(R) /\ Len(v) = Len(s) + Len(t)
      /\ \A i \in 1..Len(s) + Len(t) : v[i] = IF i <= Len(s) THEN s[i] ELSE t[i - Len(s)]
  BY ConcatProperties
<1> HIDE DEF v
<1>2. Len(v) = Len(u) /\ \A i \in 1..Len(v) : v[i] = u[i]
  BY <1>1
<1>3. v = u
  BY <1>1, <1>2, SeqEqual
<1>4. QED
  BY <1>3 DEF v

LEMMA Joined ==
  /\ <<"timers">> \o <<"ports", "report", "process">> = <<"timers", "ports", "report", "process">>
  /\ <<"timers">> \o <<"ports", "demuxer">> = <<"timers", "ports", "demuxer">>
  /\ <<"timers", "ports", "demuxer">> \o <<"report", "process">>
       = <<"timers", "ports", "demuxer", "report", "process">>
<1> DEFINE R == {"timers", "ports", "demuxer", "report", "process"}
<1>1. <<"timers">> \o <<"ports", "report", "process">> = <<"timers", "ports", "report", "process">>
  <2> DEFINE s == <<"timers">>
             t == <<"ports", "report", "process">>
             u == <<"timers", "ports", "report", "process">>
  <2>1. s \in Seq(R) /\ t \in Seq(R) /\ u \in Seq(R)
    OBVIOUS
  <2>2. Len(s) = 1 /\ Len(t) = 3 /\ Len(u) = 4
    OBVIOUS
  <2>3. \A i \in 1..4 : u[i] = IF i <= 1 THEN s[i] ELSE t[i - 1]
    OBVIOUS
  <2> HIDE DEF s, t, u, R
  <2>4. /\ Len(u) = Len(s) + Len(t)
        /\ \A i \in 1..Len(u) : u[i] = IF i <= Len(s) THEN s[i] ELSE t[i - Len(s)]
    BY <2>2, <2>3
  <2>5. s \o t = u
    BY <2>1, <2>4, Joins, Zenon
  <2>6. QED
    BY <2>5 DEF s, t, u
<1>2. <<"timers">> \o <<"ports", "demuxer">> = <<"timers", "ports", "demuxer">>
  <2> DEFINE s == <<"timers">>
             t == <<"ports", "demuxer">>
             u == <<"timers", "ports", "demuxer">>
  <2>1. s \in Seq(R) /\ t \in Seq(R) /\ u \in Seq(R)
    OBVIOUS
  <2>2. Len(s) = 1 /\ Len(t) = 2 /\ Len(u) = 3
    OBVIOUS
  <2>3. \A i \in 1..3 : u[i] = IF i <= 1 THEN s[i] ELSE t[i - 1]
    OBVIOUS
  <2> HIDE DEF s, t, u, R
  <2>4. /\ Len(u) = Len(s) + Len(t)
        /\ \A i \in 1..Len(u) : u[i] = IF i <= Len(s) THEN s[i] ELSE t[i - Len(s)]
    BY <2>2, <2>3
  <2>5. s \o t = u
    BY <2>1, <2>4, Joins, Zenon
  <2>6. QED
    BY <2>5 DEF s, t, u
<1>3. <<"timers", "ports", "demuxer">> \o <<"report", "process">> = <<"timers", "ports", "demuxer", "report", "process">>
  <2> DEFINE s == <<"timers", "ports", "demuxer">>
             t == <<"report", "process">>
             u == <<"timers", "ports", "demuxer", "report", "process">>
  <2>1. s \in Seq(R) /\ t \in Seq(R) /\ u \in Seq(R)
    OBVIOUS
  <2>2. Len(s) = 3 /\ Len(t) = 2 /\ Len(u) = 5
    OBVIOUS
  <2>3. \A i \in 1..5 : u[i] = IF i <= 3 THEN s[i] ELSE t[i - 3]
    OBVIOUS
  <2> HIDE DEF s, t, u, R
  <2>4. /\ Len(u) = Len(s) + Len(t)
        /\ \A i \in 1..Len(u) : u[i] = IF i <= Len(s) THEN s[i] ELSE t[i - Len(s)]
    BY <2>2, <2>3
  <2>5. s \o t = u
    BY <2>1, <2>4, Joins, Zenon
  <2>6. QED
    BY <2>5 DEF s, t, u
<1>4. QED
  BY <1>1, <1>2, <1>3

LEMMA GatheredKnown == Gathered # None /\ Gathered' # None
<1> DEFINE R == {"timers", "ports", "demuxer", "report", "process"}
<1>1. /\ <<"timers">> \in Seq(R)
      /\ <<"timers", "ports", "demuxer">> \in Seq(R)
      /\ <<"timers", "ports", "report", "process">> \in Seq(R)
      /\ <<"timers", "ports", "demuxer", "report", "process">> \in Seq(R)
  OBVIOUS
<1>2. None \notin Seq(R)
  BY NoneAssumption
<1> HIDE DEF R
<1>3. QED
  BY <1>1, <1>2 DEF Gathered

LEMMA Backwards ==
  /\ S!Reverse(<<"timers">>) = FromTimers
  /\ S!Reverse(<<"timers", "ports", "demuxer">>) = FromDemuxer
  /\ S!Reverse(<<"timers", "ports", "report", "process">>) = ViewProcess
  /\ S!Reverse(<<"timers", "ports", "demuxer", "report", "process">>) = TalkProcess
BY DEF S!Reverse, FromTimers, FromDemuxer, ViewProcess, TalkProcess

LEMMA Lists ==
  /\ Head(FromTimers) = "timers" /\ Tail(FromTimers) = AllRun
  /\ Head(FromPorts) = "ports" /\ Tail(FromPorts) = FromTimers
  /\ Head(FromDemuxer) = "demuxer" /\ Tail(FromDemuxer) = FromPorts
  /\ Head(ViewReport) = "report" /\ Tail(ViewReport) = FromPorts
  /\ Head(TalkReport) = "report" /\ Tail(TalkReport) = FromDemuxer
  /\ Head(ViewProcess) = "process" /\ Tail(ViewProcess) = ViewReport
  /\ Head(TalkProcess) = "process" /\ Tail(TalkProcess) = TalkReport
BY DEF AllRun, FromTimers, FromPorts, FromDemuxer, ViewReport, TalkReport, ViewProcess, TalkProcess

LEMMA ListsDiffer ==
  /\ AllRun # FromTimers /\ AllRun # FromPorts /\ AllRun # FromDemuxer /\ AllRun # ViewReport
  /\ AllRun # TalkReport /\ AllRun # ViewProcess /\ AllRun # TalkProcess
  /\ FromTimers # FromPorts /\ FromTimers # FromDemuxer /\ FromTimers # ViewReport
  /\ FromTimers # TalkReport /\ FromTimers # ViewProcess /\ FromTimers # TalkProcess
  /\ FromPorts # FromDemuxer /\ FromPorts # ViewReport /\ FromPorts # TalkReport
  /\ FromPorts # ViewProcess /\ FromPorts # TalkProcess
  /\ FromDemuxer # ViewReport /\ FromDemuxer # TalkReport /\ FromDemuxer # ViewProcess
  /\ FromDemuxer # TalkProcess /\ ViewReport # TalkReport /\ ViewReport # ViewProcess
  /\ ViewReport # TalkProcess /\ TalkReport # ViewProcess /\ TalkReport # TalkProcess
  /\ ViewProcess # TalkProcess
BY DEF AllRun, FromTimers, FromPorts, FromDemuxer, ViewReport, TalkReport, ViewProcess, TalkProcess

\* What the disposal of a stack runs, for each way the owner gives up.
LEMMA DisposalRuns ==
  ASSUME Placed, NEW s \in {"building", "session"},
         s = "building" => stage \in Building,
         s = "session" => stage \in Serving,
         S!DisposeStack(s)
  PROVE  /\ stacks' = TwoStacks(None, None)
         /\ unwinding' = CASE stage = "reserving" -> FromTimers
                           [] stage = "demuxing"  -> FromDemuxer
                           [] OTHER -> IF scene = "view" THEN ViewProcess ELSE TalkProcess
         /\ running' = None /\ errors' = <<>>
<1>1. stacks[s] = Gathered /\ [stacks EXCEPT ![s] = None] = TwoStacks(None, None)
  <2>1. CASE s = "building"
    BY <2>1, StackUpdates DEF Placed, StacksPlaced, Building, Serving
  <2>2. CASE s = "session"
    BY <2>2, StackUpdates DEF Placed, StacksPlaced, Building, Serving
  <2>3. QED
    BY <2>1, <2>2
<1>2. unwinding' = S!Reverse(Gathered) /\ stacks' = TwoStacks(None, None)
  BY <1>1, GatheredKnown DEF S!DisposeStack
<1>3. running' = None /\ errors' = <<>>
  BY DEF S!DisposeStack, Placed, StacksPlaced, Building, Serving, Ending
<1>4. S!Reverse(Gathered) = CASE stage = "reserving" -> FromTimers
                              [] stage = "demuxing"  -> FromDemuxer
                              [] OTHER -> IF scene = "view" THEN ViewProcess ELSE TalkProcess
  BY Backwards DEF Gathered
<1>5. QED
  BY <1>2, <1>3, <1>4

-----------------------------------------------------------------------------
(* The owner: each of its steps leaves it placed. *)

LEMMA CallerKnown == Caller \in Callers /\ (scene' = scene => Caller' = Caller)
BY SessionAssumption, AllocatorAssumption DEF Caller

\* A step that leaves the owner and its stacks alone: what the parts do.
LEMMA PlacedKept ==
  ASSUME Placed, UNCHANGED <<scene, stage, spawned, stackVars>>,
         aborted' \in BOOLEAN, stage = "new" => aborted' = aborted,
         demux' = "none" <=> demux = "none",
         demuxGone' = demuxGone \/ (demuxGone = "awaiting" /\ demuxGone' = "done"),
         disposal' = disposal \/ (disposal = "awaiting" /\ disposal' = "done"),
         stage # "new" /\ call[Caller] \in {"held", "released", "rejected"}
           => call'[Caller] = call[Caller],
         stage = "new" /\ scene # "timers" => timers' = timers,
         stage # "new" /\ timers.disposed => timers'.disposed
  PROVE  Placed'
<1>1. Caller' = Caller
  BY CallerKnown
<1> USE DEF Placed, stackVars, Building, Serving, Ending
<1>2. OwnerPlaced'
  BY <1>1 DEF OwnerPlaced
<1>3. StacksPlaced'
  BY DEF StacksPlaced, Gathered
<1>4. UnwindingPlaced'
  <2>1. ASSUME UnwindsInOrder, stage \in Ending PROVE UnwindsInOrder'
    <3>1. ASSUME spawned, ~ProcessAhead
          PROVE  IF running = "process" THEN disposal' # "no" ELSE disposal' = "done"
      BY <2>1, <3>1 DEF UnwindsInOrder
    <3>2. ASSUME demux # "none", ~DemuxerAhead
          PROVE  IF running = "demuxer" THEN demuxGone' # "no" ELSE demuxGone' = "done"
      BY <2>1, <3>2 DEF UnwindsInOrder
    <3>3. call'[Caller'] \in (IF PortsAhead THEN {"held"} ELSE {"released", "rejected"})
      BY <1>1, <2>1 DEF UnwindsInOrder
    <3>4. QED
      BY <2>1, <3>1, <3>2, <3>3 DEF UnwindsInOrder, TimersAhead, PortsAhead, DemuxerAhead, ReportAhead, ProcessAhead
  <2>2. QED
    BY <2>1 DEF UnwindingPlaced, S!Unwound
<1>5. QED
  BY <1>2, <1>3, <1>4

LEMMA StartPlaced ==
  ASSUME Strong, Start PROVE Placed'
<1> USE DEF Building, Serving, Ending
<1>1. OwnerPlaced'
  BY DEF Strong, Placed, OwnerPlaced, Start, demuxVars
<1>2. StacksPlaced'
  <2>1. stacks = TwoStacks(None, None) /\ S!Open("building", <<"timers">>)
    BY DEF Strong, Placed, StacksPlaced, Start
  <2>2. stacks' = TwoStacks(<<"timers">>, None)
    BY <2>1, BuildingGrows, Zenon
  <2>3. QED
    BY <2>2 DEF Strong, Placed, StacksPlaced, Start, S!Open, Gathered, streamVars, demuxVars
<1>3. UnwindingPlaced'
  BY DEF Start, UnwindingPlaced
<1>4. QED
  BY <1>1, <1>2, <1>3 DEF Placed

LEMMA StartViewPlaced ==
  ASSUME Strong, StartView PROVE Placed'
<1> USE DEF Building, Serving, Ending
<1>1. call' = call /\ demux' = demux /\ demuxGone' = demuxGone /\ disposal' = disposal
  BY DEF StartView, allocatorVars, demuxVars, Spawn, P!StartMonitor, P!processVars
<1>2. OwnerPlaced'
  BY <1>1, CallerKnown DEF Strong, Placed, OwnerPlaced, StartView, Spawn
<1>3. StacksPlaced'
  <2>1. stacks = TwoStacks(<<"timers">>, None)
    BY DEF Strong, Placed, StacksPlaced, StartView, Gathered
  <2>2. stacks' = TwoStacks(<<"timers">> \o <<"ports", "report", "process">>, None)
    BY <2>1, BuildingGrows, Zenon DEF StartView
  <2>3. QED
    BY <1>1, <2>2, Joined DEF Strong, Placed, StacksPlaced, StartView, S!Enter, Gathered
<1>4. UnwindingPlaced'
  BY DEF StartView, UnwindingPlaced
<1>5. QED
  BY <1>2, <1>3, <1>4 DEF Placed

LEMMA StartTalkPlaced ==
  ASSUME Strong, StartTalk PROVE Placed'
<1> USE DEF Building, Serving, Ending
<1>1. call' = call /\ demux' # "none" /\ demuxGone' = demuxGone /\ disposal' = disposal
  BY DemuxerBegins DEF Strong, Placed, OwnerPlaced, StartTalk, allocatorVars, streamVars
<1>2. OwnerPlaced'
  BY <1>1, CallerKnown DEF Strong, Placed, OwnerPlaced, StartTalk
<1>3. StacksPlaced'
  <2>1. stacks = TwoStacks(<<"timers">>, None)
    BY DEF Strong, Placed, StacksPlaced, StartTalk, Gathered
  <2>2. stacks' = TwoStacks(<<"timers">> \o <<"ports", "demuxer">>, None)
    BY <2>1, BuildingGrows, Zenon DEF StartTalk
  <2>3. QED
    BY <1>1, <2>2, Joined DEF Strong, Placed, StacksPlaced, StartTalk, S!Enter, Gathered
<1>4. UnwindingPlaced'
  BY DEF StartTalk, UnwindingPlaced
<1>5. QED
  BY <1>2, <1>3, <1>4 DEF Placed

LEMMA MediaFlowsPlaced ==
  ASSUME Strong, MediaFlows PROVE Placed'
<1> USE DEF Building, Serving, Ending
<1>1. call' = call /\ demux' = demux /\ demuxGone' = demuxGone /\ disposal' = disposal
  BY DEF MediaFlows, allocatorVars, demuxVars, Spawn, P!StartMonitor, P!processVars
<1>2. OwnerPlaced'
  BY <1>1, CallerKnown DEF Strong, Placed, OwnerPlaced, MediaFlows, Spawn
<1>3. StacksPlaced'
  <2>1. stacks = TwoStacks(<<"timers", "ports", "demuxer">>, None)
    BY DEF Strong, Placed, StacksPlaced, MediaFlows, Gathered
  <2>2. stacks' = TwoStacks(<<"timers", "ports", "demuxer">> \o <<"report", "process">>, None)
    BY <2>1, BuildingGrows, Zenon DEF MediaFlows
  <2>3. scene' = "talk"
    BY DEF Strong, Placed, OwnerPlaced, MediaFlows
  <2>4. QED
    BY <1>1, <2>2, <2>3, Joined DEF Strong, Placed, StacksPlaced, MediaFlows, S!Enter, Gathered
<1>4. UnwindingPlaced'
  BY DEF MediaFlows, UnwindingPlaced
<1>5. QED
  BY <1>2, <1>3, <1>4 DEF Placed

\* Moving the stack, and leaving the scope that is left without one.
LEMMA RunningPlaced ==
  ASSUME Strong, Running \/ Leave PROVE Placed'
<1> USE DEF Building, Serving, Ending
<1>1. /\ call' = call /\ demux' = demux /\ demuxGone' = demuxGone /\ disposal' = disposal
      /\ UNCHANGED <<scene, aborted, spawned, timers>>
  BY DEF Running, Leave, OwnerWaits, allocatorVars, streamVars, demuxVars
<1>2. OwnerPlaced'
  BY <1>1, CallerKnown DEF Strong, Placed, OwnerPlaced, Running, Leave
<1>3. CASE Running
  <2>1. stacks = TwoStacks(Gathered, None)
    BY <1>3 DEF Strong, Placed, StacksPlaced, Running
  <2>2. stacks' = [[stacks EXCEPT !["session"] = Gathered] EXCEPT !["building"] = None]
    BY <1>3, <2>1, StackUpdates DEF Running, S!Move
  <2>3. stacks' = TwoStacks(None, Gathered)
    BY <2>1, <2>2, StackUpdates
  <2>4. Gathered' = Gathered
    BY <1>1, <1>3 DEF Running, Gathered
  <2>5. StacksPlaced'
    BY <1>1, <1>3, <2>3, <2>4 DEF Strong, Placed, StacksPlaced, Running, S!Move
  <2>6. QED
    BY <1>2, <1>3, <2>5 DEF Placed, Running, UnwindingPlaced
<1>4. CASE Leave
  <2>1. stacks = TwoStacks(None, Gathered)
    BY <1>4 DEF Strong, Placed, StacksPlaced, Leave
  <2>2. stacks' = TwoStacks(None, Gathered) /\ unwinding' = unwinding
    BY <1>4, <2>1, StackUpdates DEF Leave, S!DisposeStack
  <2>3. Gathered' = Gathered
    BY <1>1, <1>4 DEF Leave, Gathered
  <2>4. StacksPlaced'
    BY <1>1, <1>4, <2>2, <2>3 DEF Strong, Placed, StacksPlaced, Leave, S!DisposeStack
  <2>5. QED
    BY <1>2, <1>4, <2>4 DEF Placed, Leave, UnwindingPlaced
<1>5. QED
  BY <1>3, <1>4

\* The owner gives up, or stops what it has: the stack begins to unwind, and
\* all that is on it is ahead and whole.
LEMMA StopPlaced ==
  ASSUME Strong, GiveUp \/ Stop PROVE Placed'
<1> USE DEF Building, Serving, Ending
<1>1. /\ call' = call /\ demux' = demux /\ demuxGone' = demuxGone /\ disposal' = disposal
      /\ UNCHANGED <<scene, aborted, spawned, timers>> /\ Caller' = Caller
  BY CallerKnown DEF GiveUp, Stop, OwnerWaits, allocatorVars, streamVars, demuxVars
<1>2. /\ stage \in {"reserving", "demuxing", "starting", "streaming"}
      /\ stage' = "unwinding"
      /\ stage = "reserving" => call[Caller] = "rejected"
  BY DEF GiveUp, Stop
<1>3. /\ stacks' = TwoStacks(None, None)
      /\ unwinding' = CASE stage = "reserving" -> FromTimers
                        [] stage = "demuxing"  -> FromDemuxer
                        [] OTHER -> IF scene = "view" THEN ViewProcess ELSE TalkProcess
      /\ running' = None /\ errors' = <<>>
  BY DisposalRuns DEF Strong, GiveUp, Stop
<1>4. OwnerPlaced'
  BY <1>1, <1>2 DEF Strong, Placed, OwnerPlaced
<1>5. StacksPlaced'
  BY <1>2, <1>3 DEF StacksPlaced
<1>6. UnwindsInOrder'
  <2> USE DEF UnwindsInOrder, TimersAhead, PortsAhead, DemuxerAhead, ReportAhead, ProcessAhead
  <2>1. disposal = "no" /\ demuxGone = "no"
    BY <1>2 DEF Strong, Placed, StacksPlaced
  <2>2. CASE stage = "reserving"
    <3>1. unwinding' = FromTimers /\ ~spawned /\ demux = "none"
      BY <1>3, <2>2 DEF Strong, Placed, OwnerPlaced
    <3>2. QED
      BY <1>1, <1>2, <1>3, <2>1, <2>2, <3>1, ListsDiffer, NoneAssumption
  <2>3. CASE stage = "demuxing"
    <3>1. unwinding' = FromDemuxer /\ ~spawned /\ demux # "none" /\ call[Caller] = "held"
      BY <1>3, <2>3 DEF Strong, Placed, OwnerPlaced
    <3>2. QED
      BY <1>1, <1>2, <1>3, <2>1, <2>3, <3>1, ListsDiffer, NoneAssumption
  <2>4. CASE stage \in {"starting", "streaming"}
    <3>1. /\ spawned /\ (demux # "none" <=> scene = "talk") /\ call[Caller] = "held"
          /\ scene \in {"view", "talk"}
          /\ unwinding' = IF scene = "view" THEN ViewProcess ELSE TalkProcess
      BY <1>3, <2>4 DEF Strong, Placed, OwnerPlaced
    <3>2. QED
      BY <1>1, <1>2, <1>3, <2>1, <2>4, <3>1, ListsDiffer, NoneAssumption
  <2>5. QED
    BY <1>2, <2>2, <2>3, <2>4
<1>7. QED
  BY <1>2, <1>4, <1>5, <1>6 DEF Placed, UnwindingPlaced

LEMMA OverPlaced ==
  ASSUME Strong, Over PROVE Placed'
<1> USE DEF Building, Serving, Ending
<1>1. /\ call' = call /\ demux' = demux /\ demuxGone' = demuxGone /\ disposal' = disposal
      /\ UNCHANGED <<scene, aborted, spawned, timers, stacks, unwinding, running, errors>>
      /\ stage = "unwinding" /\ stage' = "over" /\ S!Unwound
  BY DEF Over, OwnerWaits, allocatorVars, streamVars, demuxVars, stackVars
<1>2. OwnerPlaced'
  BY <1>1 DEF Strong, Placed, OwnerPlaced
<1>3. StacksPlaced'
  BY <1>1 DEF Strong, Placed, StacksPlaced
<1>4. UnwindsInOrder'
  BY <1>1, CallerKnown DEF Strong, Placed, UnwindingPlaced, UnwindsInOrder, TimersAhead, PortsAhead,
     DemuxerAhead, ReportAhead, ProcessAhead
<1>5. QED
  BY <1>1, <1>2, <1>3, <1>4 DEF Placed, UnwindingPlaced, S!Unwound

-----------------------------------------------------------------------------
(* The stack unwinds: one resource after the other moves from ahead to     *)
(* awaited, and from awaited to gone.                                      *)

\* What is ahead, list by list.
LEMMA AheadOf ==
  /\ unwinding = AllRun => ~TimersAhead /\ ~PortsAhead /\ ~DemuxerAhead /\ ~ReportAhead /\ ~ProcessAhead
  /\ unwinding = FromTimers => TimersAhead /\ ~PortsAhead /\ ~DemuxerAhead /\ ~ReportAhead /\ ~ProcessAhead
  /\ unwinding = FromPorts => TimersAhead /\ PortsAhead /\ ~DemuxerAhead /\ ~ReportAhead /\ ~ProcessAhead
  /\ unwinding = FromDemuxer => TimersAhead /\ PortsAhead /\ DemuxerAhead /\ ~ReportAhead /\ ~ProcessAhead
  /\ unwinding = ViewReport => TimersAhead /\ PortsAhead /\ ~DemuxerAhead /\ ReportAhead /\ ~ProcessAhead
  /\ unwinding = TalkReport => TimersAhead /\ PortsAhead /\ DemuxerAhead /\ ReportAhead /\ ~ProcessAhead
  /\ unwinding = ViewProcess => TimersAhead /\ PortsAhead /\ ~DemuxerAhead /\ ReportAhead /\ ProcessAhead
  /\ unwinding = TalkProcess => TimersAhead /\ PortsAhead /\ DemuxerAhead /\ ReportAhead /\ ProcessAhead
  /\ unwinding' = AllRun => ~TimersAhead' /\ ~PortsAhead' /\ ~DemuxerAhead' /\ ~ReportAhead' /\ ~ProcessAhead'
  /\ unwinding' = FromTimers => TimersAhead' /\ ~PortsAhead' /\ ~DemuxerAhead' /\ ~ReportAhead' /\ ~ProcessAhead'
  /\ unwinding' = FromPorts => TimersAhead' /\ PortsAhead' /\ ~DemuxerAhead' /\ ~ReportAhead' /\ ~ProcessAhead'
  /\ unwinding' = FromDemuxer => TimersAhead' /\ PortsAhead' /\ DemuxerAhead' /\ ~ReportAhead' /\ ~ProcessAhead'
  /\ unwinding' = ViewReport => TimersAhead' /\ PortsAhead' /\ ~DemuxerAhead' /\ ReportAhead' /\ ~ProcessAhead'
  /\ unwinding' = TalkReport => TimersAhead' /\ PortsAhead' /\ DemuxerAhead' /\ ReportAhead' /\ ~ProcessAhead'
  /\ unwinding' = ViewProcess => TimersAhead' /\ PortsAhead' /\ ~DemuxerAhead' /\ ReportAhead' /\ ProcessAhead'
  /\ unwinding' = TalkProcess => TimersAhead' /\ PortsAhead' /\ DemuxerAhead' /\ ReportAhead' /\ ProcessAhead'
BY ListsDiffer DEF TimersAhead, PortsAhead, DemuxerAhead, ReportAhead, ProcessAhead

LEMMA OwnerKept ==
  ASSUME Placed, stage = "unwinding", UNCHANGED <<scene, stage, aborted, spawned, stacks>>
  PROVE  OwnerPlaced' /\ StacksPlaced' /\ Caller' = Caller
BY CallerKnown DEF Placed, OwnerPlaced, StacksPlaced, Building, Serving, Ending

\* Which disposer is next says what is ahead, and of what the rest consists.
LEMMA NextDisposer ==
  ASSUME Placed, NEW r \in {"timers", "ports", "demuxer", "report", "process"}, S!RunDisposer(r)
  PROVE  /\ stage = "unwinding" /\ UnwindsInOrder /\ running = None
         /\ running' = r /\ UNCHANGED <<stacks, errors>>
         /\ \/ r = "timers" /\ unwinding = FromTimers /\ unwinding' = AllRun
            \/ r = "ports" /\ unwinding = FromPorts /\ unwinding' = FromTimers
            \/ r = "demuxer" /\ unwinding = FromDemuxer /\ unwinding' = FromPorts
            \/ r = "report" /\ unwinding = ViewReport /\ unwinding' = FromPorts
            \/ r = "report" /\ unwinding = TalkReport /\ unwinding' = FromDemuxer
            \/ r = "process" /\ unwinding = ViewProcess /\ unwinding' = ViewReport
            \/ r = "process" /\ unwinding = TalkProcess /\ unwinding' = TalkReport
<1>1. unwinding # AllRun /\ Head(unwinding) = r /\ unwinding' = Tail(unwinding)
  BY DEF S!RunDisposer, AllRun
<1>2. stage = "unwinding" /\ UnwindsInOrder
  BY <1>1 DEF Placed, StacksPlaced, UnwindingPlaced, OwnerPlaced, Building, Serving, Ending, S!Unwound, AllRun
<1>3. unwinding \in {FromTimers, FromPorts, FromDemuxer, ViewReport, TalkReport, ViewProcess, TalkProcess}
  BY <1>1, <1>2 DEF UnwindsInOrder
<1>4. running = None /\ running' = r /\ UNCHANGED <<stacks, errors>>
  BY DEF S!RunDisposer
<1>5. QED
  BY <1>1, <1>2, <1>3, <1>4, Lists

LEMMA DisposerPlaced ==
  ASSUME Strong, NEW r \in {"timers", "ports", "demuxer", "report", "process"}, Disposer(r)
  PROVE  Placed'
<1> USE DEF UnwindsInOrder
<1>1. /\ stage = "unwinding" /\ UnwindsInOrder /\ running = None
      /\ running' = r /\ UNCHANGED <<stacks, errors>>
  BY NextDisposer DEF Strong, Disposer
<1>2. UNCHANGED <<scene, stage, aborted, spawned>> /\ stage' = "unwinding"
  BY <1>1 DEF Disposer, ownerVars
<1>3. OwnerPlaced' /\ StacksPlaced' /\ Caller' = Caller
  BY <1>1, <1>2, OwnerKept DEF Strong
<1>4. /\ None \notin {"timers", "ports", "demuxer", "report", "process"}
      /\ running' = r /\ errors' = errors
      /\ UNCHANGED <<scene, spawned>> /\ Caller' = Caller
  BY <1>1, <1>2, <1>3, NoneAssumption
<1>5. CASE r = "timers"
  <2>1. unwinding = FromTimers /\ unwinding' = AllRun
    BY <1>5, NextDisposer DEF Strong, Disposer
  <2>2. /\ timers'.disposed
        /\ UNCHANGED <<call, demux, demuxGone, disposal>>
    BY <1>5, RetireSound, SoundIsInv DEF Disposer, Strong, demuxVars, streamVars
  <2>3. UnwindsInOrder'
    BY <1>1, <1>2, <1>3, <1>4, <1>5, <2>1, <2>2, ListsDiffer, AheadOf
  <2>4. QED
    BY <1>2, <1>3, <2>3 DEF Placed, UnwindingPlaced
<1>6. CASE r = "ports"
  <2>1. unwinding = FromPorts /\ unwinding' = FromTimers
    BY <1>6, NextDisposer DEF Strong, Disposer
  <2>2. /\ call'[Caller] = "released"
        /\ UNCHANGED <<timers, demux, demuxGone, disposal>>
    BY <1>6, CallerKnown DEF Disposer, Strong, AllocatorInv, AllocatorTypeOK, demuxVars, streamVars
  <2>3. /\ ~DemuxerAhead /\ ~ReportAhead /\ ~ProcessAhead
        /\ TimersAhead' /\ ~PortsAhead' /\ ~DemuxerAhead' /\ ~ReportAhead' /\ ~ProcessAhead'
    BY <2>1, AheadOf
  <2>4. /\ spawned => disposal = "done"
        /\ demux # "none" => demuxGone = "done"
        /\ errors = IF spawned THEN <<"report">> ELSE <<>>
    BY <1>1, <1>4, <2>3
  <2>5. UnwindsInOrder'
    BY <1>4, <1>6, <2>1, <2>2, <2>3, <2>4
  <2>6. QED
    BY <1>2, <1>3, <2>5 DEF Placed, UnwindingPlaced
<1>7. CASE r = "demuxer"
  <2>1. unwinding = FromDemuxer /\ unwinding' = FromPorts
    BY <1>7, NextDisposer DEF Strong, Disposer
  <2>2. demux # "none"
    BY <1>1, <2>1, AheadOf
  <2>3. /\ demux' # "none" /\ demuxGone' # "no"
        /\ UNCHANGED <<timers, call, disposal>>
    BY <1>7, <2>2, DemuxerDisposes DEF Disposer, Strong, streamVars
  <2>4. /\ PortsAhead /\ ~ReportAhead /\ ~ProcessAhead
        /\ TimersAhead' /\ PortsAhead' /\ ~DemuxerAhead' /\ ~ReportAhead' /\ ~ProcessAhead'
    BY <2>1, AheadOf
  <2>5. /\ spawned => disposal = "done"
        /\ call[Caller] = "held"
        /\ errors = IF spawned THEN <<"report">> ELSE <<>>
    BY <1>1, <1>4, <2>4
  <2>6. UnwindsInOrder'
    BY <1>4, <1>7, <2>1, <2>3, <2>4, <2>5
  <2>7. QED
    BY <1>2, <1>3, <2>6 DEF Placed, UnwindingPlaced
<1>8. CASE r = "report"
  <2>1. \/ unwinding = ViewReport /\ unwinding' = FromPorts
        \/ unwinding = TalkReport /\ unwinding' = FromDemuxer
    BY <1>8, NextDisposer DEF Strong, Disposer
  <2>2. UNCHANGED <<timers, call, disposal, demux, demuxGone>>
    BY <1>8 DEF Disposer, streamVars, demuxVars
  <2>3. /\ PortsAhead /\ ReportAhead /\ ~ProcessAhead /\ (DemuxerAhead <=> DemuxerAhead')
        /\ TimersAhead' /\ PortsAhead' /\ ~ReportAhead' /\ ~ProcessAhead'
    BY <2>1, AheadOf
  <2>4. /\ spawned /\ disposal = "done" /\ call[Caller] = "held" /\ errors = <<>>
        /\ IF DemuxerAhead THEN demux # "none" /\ demuxGone = "no"
                           ELSE demux # "none" => demuxGone = "done"
    BY <1>1, <1>4, <2>3
  <2>5. UnwindsInOrder'
    BY <1>4, <1>8, <2>1, <2>2, <2>3, <2>4
  <2>6. QED
    BY <1>2, <1>3, <2>5 DEF Placed, UnwindingPlaced
<1>9. CASE r = "process"
  <2>1. \/ unwinding = ViewProcess /\ unwinding' = ViewReport
        \/ unwinding = TalkProcess /\ unwinding' = TalkReport
    BY <1>9, NextDisposer DEF Strong, Disposer
  <2>2. spawned
    BY <1>1, <2>1, AheadOf
  <2>3. disposal' # "no" /\ UNCHANGED <<timers, call, demux, demuxGone>>
    BY <1>9, <2>2, ProcessDisposes DEF Disposer, Strong, ProcessKnown, demuxVars
  <2>4. UnwindsInOrder'
    BY <1>1, <1>2, <1>3, <1>4, <1>9, <2>1, <2>2, <2>3, ListsDiffer, AheadOf
  <2>5. QED
    BY <1>2, <1>3, <2>4 DEF Placed, UnwindingPlaced
<1>10. QED
  BY <1>5, <1>6, <1>7, <1>8, <1>9

LEMMA DisposerReturnsPlaced ==
  ASSUME Strong, DisposerReturns PROVE Placed'
<1> USE DEF UnwindsInOrder, TimersAhead, PortsAhead, DemuxerAhead, ReportAhead, ProcessAhead
<1>1. /\ running # None /\ running' = None
      /\ errors' = IF running = "report" THEN Append(errors, running) ELSE errors
      /\ UNCHANGED <<stacks, unwinding>>
  BY DEF DisposerReturns, S!DisposerSettles
<1>2. /\ UNCHANGED <<call, scene, stage, aborted, spawned, disposal, demux, demuxGone, timers>>
      /\ running = "demuxer" => demuxGone = "done"
      /\ running = "process" => disposal = "done"
  BY DEF DisposerReturns, allocatorVars, ownerVars, streamVars, demuxVars
<1>3. stage = "unwinding" /\ UnwindsInOrder
  BY <1>1 DEF Strong, Placed, OwnerPlaced, StacksPlaced, UnwindingPlaced, Building, Serving, Ending, S!Unwound
<1>4. OwnerPlaced' /\ StacksPlaced' /\ Caller' = Caller
  BY <1>1, <1>2, <1>3, OwnerKept DEF Strong
<1>5. errors' = IF spawned /\ ~ReportAhead THEN <<"report">> ELSE <<>>
  <2>1. CASE running = "report"
    <3>1. errors = <<>> /\ spawned /\ ~ReportAhead
      BY <1>3, <2>1, ListsDiffer
    <3>2. Append(<<>>, "report") = <<"report">>
      OBVIOUS
    <3>3. QED
      BY <1>1, <2>1, <3>1, <3>2
  <2>2. CASE running # "report"
    BY <1>1, <1>3, <2>2
  <2>3. QED
    BY <2>1, <2>2
<1>6. UnwindsInOrder'
  <2>1. None \notin {"timers", "ports", "demuxer", "report", "process"}
    BY NoneAssumption
  <2>2. QED
    BY <1>1, <1>2, <1>3, <1>4, <1>5, <2>1
<1>7. QED
  BY <1>2, <1>3, <1>4, <1>6 DEF Placed, UnwindingPlaced

-----------------------------------------------------------------------------
(* What a step that leaves a part alone, and the abort of the signal, do   *)
(* to the parts.                                                           *)

LEMMA DemuxerStays ==
  ASSUME DemuxerKnown, UNCHANGED demuxVars PROVE DemuxerKnown'
BY DEF demuxVars, DemuxerKnown, D!DemuxerInv, D!DemuxerTypeOK, D!DemuxerConsistent,
       D!DemuxerInit, D!DemuxLive

LEMMA ProcessStays ==
  ASSUME ProcessKnown, UNCHANGED <<spawned, streamVars>> PROVE ProcessKnown'
BY DEF streamVars, ProcessKnown, ProcessSound, P!StreamInv, P!StreamTypeOK, P!TypeOK,
       P!OwnerKnowsChild, P!MonitorFollows, P!Live, P!StreamInit, P!Init

\* All that a fan-out leaves behind.
LEMMA FanOutKeeps ==
  ASSUME Strong, FanOut
  PROVE  /\ DemuxerKnown' /\ ProcessKnown'
         /\ (demux' = "none" <=> demux = "none") /\ demuxGone' = demuxGone
         /\ disposal' = disposal /\ aborted' = TRUE
         /\ UNCHANGED <<scene, stage, spawned, stackVars>>
         /\ call[Caller] \in {"held", "released", "rejected"} => call' = call
<1>1. UNCHANGED <<scene, stage, spawned, stackVars>> /\ aborted' = TRUE
  BY DEF FanOut
<1>2. DemuxerKnown' /\ (demux' = "none" <=> demux = "none") /\ demuxGone' = demuxGone
  <2>1. CASE D!DemuxLive
    <3>1. D!AbortDemuxer("parent")
      BY <2>1 DEF FanOut
    <3>2. QED
      BY <3>1, DemuxerEnds DEF Strong
  <2>2. CASE ~D!DemuxLive
    <3>1. UNCHANGED demuxVars
      BY <2>2 DEF FanOut
    <3>2. QED
      BY <3>1, DemuxerStays DEF Strong, demuxVars
  <2>3. QED
    BY <2>1, <2>2
<1>3. ProcessKnown' /\ disposal' = disposal
  <2>1. CASE spawned /\ P!Live
    <3>1. P!Abort("parent") /\ P!Teardown
      BY <2>1 DEF FanOut
    <3>2. QED
      BY <1>1, <2>1, <3>1, ProcessEnds DEF Strong, ProcessKnown
  <2>2. CASE ~(spawned /\ P!Live)
    <3>1. UNCHANGED streamVars
      BY <2>2 DEF FanOut
    <3>2. QED
      BY <1>1, <3>1, ProcessStays DEF Strong, streamVars
  <2>3. QED
    BY <2>1, <2>2
<1>4. call[Caller] \in {"held", "released", "rejected"} => call' = call
  BY DEF FanOut
<1>5. QED
  BY <1>1, <1>2, <1>3, <1>4

\* A session that has begun is in one of its two scenes, and its timers are
\* pending only until it is over.
LEMMA PendingNotOver ==
  ASSUME Strong, scene # "timers", timers.pending # {}
  PROVE  stage \notin {"new", "over"}
<1>1. stage = "new" => timers.pending = {}
  BY DEF Strong, Placed, OwnerPlaced, T!Empty
<1>2. stage = "over" => timers.disposed
  BY DEF Strong, Placed, UnwindingPlaced, UnwindsInOrder, S!Unwound, TimersAhead, AllRun, Ending
<1>3. timers.disposed => timers.pending = {}
  BY SoundIsInv DEF Strong, SoundRegistry
<1>4. QED
  BY <1>1, <1>2, <1>3

LEMMA AbortPlaced ==
  ASSUME Strong, Abort \/ GateFires
  PROVE  /\ Placed' /\ SoundRegistry(timers') /\ FanOut
<1>1. FanOut /\ stage # "new" /\ SoundRegistry(timers)
  BY PendingNotOver, SoundIsInv DEF Abort, GateFires, Strong
<1>2. SoundRegistry(timers') /\ timers'.disposed
  <2>1. CASE Abort
    BY <1>1, <2>1, RetireSound DEF Abort
  <2>2. CASE GateFires
    <3>1. PICK t \in timers.pending : timers' = T!Fired(timers, t, [do |-> "dispose"])
      BY <2>2 DEF GateFires
    <3> DEFINE n == T!Forget(T!Elapsed(timers, t), t)
    <3>2. SoundRegistry(n)
      BY <1>1, ForgottenSound
    <3> HIDE DEF n
    <3>3. timers' = T!Perform(n, [do |-> "dispose"])
      BY <3>1 DEF T!Fired, n
    <3>4. timers' = T!Retire(n)
      BY <3>3 DEF T!Perform
    <3>5. QED
      BY <3>2, <3>4, RetireSound
  <2>3. QED
    BY <2>1, <2>2
<1>3. call'[Caller] = call[Caller] \/ call[Caller] \notin {"held", "released", "rejected"}
  BY <1>1, FanOutKeeps
<1>4. Placed'
  BY <1>1, <1>2, <1>3, FanOutKeeps, PlacedKept DEF Strong
<1>5. QED
  BY <1>1, <1>2, <1>4

-----------------------------------------------------------------------------
(* The ports.  Sockets of the session are bound only while its reservation *)
(* is held: this is where the order of the stack matters.                  *)

LEMMA SocketsHeld ==
  /\ Placed /\ DemuxerKnown /\ ProcessKnown /\ (demux = "bound" \/ monitor = "bound")
       => call[Caller] = "held"
  /\ Placed' /\ DemuxerKnown' /\ ProcessKnown' /\ (demux' = "bound" \/ monitor' = "bound")
       => call'[Caller'] = "held"
<1> USE DEF Placed, OwnerPlaced, UnwindingPlaced, UnwindsInOrder, DemuxerKnown, ProcessKnown,
            ProcessSound, D!DemuxerInv, D!DemuxerConsistent, P!StreamInv, P!OwnerKnowsChild,
            P!MonitorFollows, P!StreamInit, P!Live, TimersAhead, PortsAhead, DemuxerAhead,
            ReportAhead, ProcessAhead, Building, Serving, Ending
<1>1. None \notin {"timers", "ports", "demuxer", "report", "process"}
  BY NoneAssumption
<1>2. Placed /\ DemuxerKnown /\ ProcessKnown /\ (demux = "bound" \/ monitor = "bound")
        => call[Caller] = "held"
  BY <1>1, ListsDiffer
<1>3. Placed' /\ DemuxerKnown' /\ ProcessKnown' /\ (demux' = "bound" \/ monitor' = "bound")
        => call'[Caller'] = "held"
  BY <1>1, ListsDiffer
<1>4. QED
  BY <1>2, <1>3

LEMMA BoundKept ==
  ASSUME Strong, Placed', DemuxerKnown', ProcessKnown', KeepSockets, scene' = scene,
         call'[Caller] = "held" => call[Caller] = "held"
  PROVE  bound' \subseteq Ports
<1>1. demux' = "bound" \/ monitor' = "bound" => call[Caller] = "held"
  BY SocketsHeld, CallerKnown
<1>2. call[Caller] = "held" => first[Caller] \in Ports
  BY CallerKnown DEF Strong, AllocatorInv, FirstKnown
<1>3. bound \subseteq Ports
  BY DEF Strong, AllocatorInv, AllocatorTypeOK
<1>4. OwnPort(demux', monitor') \subseteq Ports
  BY <1>1, <1>2 DEF OwnPort
<1>5. QED
  BY <1>3, <1>4 DEF KeepSockets

-----------------------------------------------------------------------------
(* One lemma per kind of step. *)

LEMMA OwnerStays ==
  ASSUME Strong, UNCHANGED <<allocatorVars, spawned, streamVars, demuxVars, timers>>
  PROVE  AllocatorInv' /\ T!RegistryInv' /\ DemuxerKnown' /\ ProcessKnown'
<1>1. AllocatorInv'
  BY BoundInv DEF Strong, allocatorVars, AllocatorInv, AllocatorTypeOK
<1>2. T!RegistryInv'
  BY SoundIsInv DEF Strong
<1>3. QED
  BY <1>1, <1>2, DemuxerStays, ProcessStays DEF Strong

LEMMA StartStrong ==
  ASSUME Strong, Start PROVE Strong'
<1>1. AllocatorInv'
  BY ReserveInv, CallerKnown DEF Strong, Start
<1>2. T!RegistryInv'
  <2>1. Gate \in Keys
    BY SessionAssumption DEF Gate
  <2>2. timers = T!Empty /\ timers' = T!Register(timers, Gate, FALSE)
    BY DEF Strong, Placed, OwnerPlaced, Start
  <2>3. HasRoom(timers)
    <3>1. timers.pending = {} /\ 1 \in 1..MaxTimers
      BY <2>2, SessionAssumption DEF T!Empty
    <3>2. QED
      BY <3>1 DEF HasRoom
  <2>4. SoundRegistry(timers)
    BY SoundIsInv DEF Strong
  <2>5. QED
    BY <2>1, <2>2, <2>3, <2>4, RegisterSound, SoundIsInv
<1>3. DemuxerKnown' /\ ProcessKnown'
  BY DemuxerStays, ProcessStays DEF Strong, Start
<1>4. QED
  BY <1>1, <1>2, <1>3, StartPlaced DEF Strong

LEMMA SpawnStrong ==
  ASSUME Strong, StartView \/ MediaFlows PROVE Strong'
<1>1. UNCHANGED <<allocatorVars, demuxVars, timers>>
  BY DEF StartView, MediaFlows
<1>2. AllocatorInv' /\ T!RegistryInv' /\ DemuxerKnown'
  BY <1>1, BoundInv, SoundIsInv, DemuxerStays DEF Strong, allocatorVars, AllocatorInv, AllocatorTypeOK
<1>3. ~spawned /\ aborted \in BOOLEAN
  BY DEF Strong, Placed, OwnerPlaced, StartView, MediaFlows
<1>4. ProcessSound' /\ spawned'
  <2>1. Spawn(TRUE) \/ Spawn(FALSE)
    BY DEF StartView, MediaFlows
  <2>2. P!StreamInit /\ signal = "live"
    BY <1>3 DEF Strong, ProcessKnown
  <2>3. ProcessSound'
    BY <1>3, <2>1, <2>2, ProcessBegins
  <2>4. QED
    BY <2>1, <2>3 DEF Spawn
<1>5. QED
  BY <1>2, <1>4, StartViewPlaced, MediaFlowsPlaced DEF Strong, ProcessKnown

LEMMA StartTalkStrong ==
  ASSUME Strong, StartTalk PROVE Strong'
<1>1. UNCHANGED <<allocatorVars, spawned, streamVars, timers>>
  BY DEF StartTalk
<1>2. AllocatorInv' /\ T!RegistryInv' /\ ProcessKnown'
  BY <1>1, BoundInv, SoundIsInv, ProcessStays DEF Strong, allocatorVars, AllocatorInv, AllocatorTypeOK
<1>3. DemuxerKnown'
  BY DemuxerBegins DEF Strong, Placed, OwnerPlaced, StartTalk
<1>4. QED
  BY <1>2, <1>3, StartTalkPlaced DEF Strong

LEMMA WaitsStrong ==
  ASSUME Strong, Running \/ Leave \/ GiveUp \/ Stop \/ Over PROVE Strong'
<1>1. UNCHANGED <<allocatorVars, spawned, streamVars, demuxVars, timers>>
  BY DEF Running, Leave, GiveUp, Stop, Over, OwnerWaits
<1>2. Placed'
  BY RunningPlaced, StopPlaced, OverPlaced
<1>3. QED
  BY <1>1, <1>2, OwnerStays DEF Strong

LEMMA ConfirmedStrong ==
  ASSUME Strong, Confirmed PROVE Strong'
<1>1. UNCHANGED <<allocatorVars, ownerVars, streamVars, demuxVars, stackVars>> /\ stage = "streaming"
  BY DEF Confirmed
<1>2. SoundRegistry(timers') /\ timers'.disposed = timers.disposed
  <2>1. Gate \in Keys
    BY SessionAssumption DEF Gate
  <2>2. QED
    BY <2>1, ClearSound, SoundIsInv DEF Strong, Confirmed
<1>3. AllocatorInv'
  BY <1>1, BoundInv DEF Strong, allocatorVars, AllocatorInv, AllocatorTypeOK
<1>4. DemuxerKnown' /\ ProcessKnown'
  BY <1>1, DemuxerStays, ProcessStays DEF Strong, ownerVars
<1>5. Placed'
  <2>1. /\ aborted' = aborted /\ aborted \in BOOLEAN /\ call' = call
        /\ demux' = demux /\ demuxGone' = demuxGone /\ disposal' = disposal
        /\ UNCHANGED <<scene, stage, spawned, stackVars>>
    BY <1>1 DEF ownerVars, allocatorVars, demuxVars, streamVars, Strong, Placed, OwnerPlaced
  <2>2. QED
    BY <1>1, <1>2, <2>1, PlacedKept DEF Strong
<1>6. QED
  BY <1>2, <1>3, <1>4, <1>5, SoundIsInv DEF Strong

LEMMA AbortStrong ==
  ASSUME Strong, Abort \/ GateFires PROVE Strong'
<1>1. Placed' /\ T!RegistryInv' /\ FanOut
  BY AbortPlaced, SoundIsInv
<1>2. DemuxerKnown' /\ ProcessKnown' /\ scene' = scene
  BY <1>1, FanOutKeeps
<1>3. call'[Caller] = "held" => call[Caller] = "held"
  BY <1>1, CallerKnown DEF FanOut, Strong, AllocatorInv, AllocatorTypeOK
<1>4. bound' \subseteq Ports
  BY <1>1, <1>2, <1>3, BoundKept DEF FanOut
<1>5. AllocatorInv'
  <2>1. CASE call[Caller] \in {"first", "second"}
    <3>1. Unwind(Caller) /\ call' = [call EXCEPT ![Caller] = "rejected"] /\ attempt' = attempt
      BY <1>1, <2>1 DEF FanOut
    <3>2. QED
      BY <1>4, <2>1, <3>1, CallerKnown, RejectedInv DEF Strong
  <2>2. CASE call[Caller] \notin {"first", "second"}
    <3>1. UNCHANGED <<inUse, call, first, attempt>>
      BY <1>1, <2>2 DEF FanOut
    <3>2. QED
      BY <1>4, <3>1, BoundInv DEF Strong
  <2>3. QED
    BY <2>1, <2>2
<1>6. QED
  BY <1>1, <1>2, <1>5 DEF Strong

LEMMA DisposerStrong ==
  ASSUME Strong, NEW r \in {"timers", "ports", "demuxer", "report", "process"}, Disposer(r)
  PROVE  Strong'
<1>1. Placed' /\ stage = "unwinding" /\ UnwindsInOrder
  BY DisposerPlaced, NextDisposer DEF Strong, Disposer
<1>2. T!RegistryInv'
  BY RetireSound, SoundIsInv DEF Strong, Disposer
<1>3. DemuxerKnown'
  <2>1. CASE r = "demuxer"
    <3>1. unwinding = FromDemuxer
      BY <2>1, NextDisposer DEF Strong, Disposer
    <3>2. demux # "none"
      BY <1>1, <3>1, AheadOf DEF UnwindsInOrder
    <3>3. QED
      BY <2>1, <3>2, DemuxerDisposes DEF Strong, Disposer
  <2>2. CASE r # "demuxer"
    BY <2>2, DemuxerStays DEF Strong, Disposer
  <2>3. QED
    BY <2>1, <2>2
<1>4. ProcessKnown'
  <2>1. CASE r = "process"
    <3>1. unwinding = ViewProcess \/ unwinding = TalkProcess
      BY <2>1, NextDisposer DEF Strong, Disposer
    <3>2. spawned /\ spawned' = spawned
      BY <1>1, <3>1, AheadOf DEF UnwindsInOrder, Disposer, ownerVars
    <3>3. QED
      BY <2>1, <3>2, ProcessDisposes DEF Strong, ProcessKnown, Disposer
  <2>2. CASE r # "process"
    BY <2>2, ProcessStays DEF Strong, Disposer, ownerVars
  <2>3. QED
    BY <2>1, <2>2
<1>5. /\ scene' = scene /\ KeepSockets /\ UNCHANGED <<first, attempt>>
      /\ IF r = "ports" THEN inUse' = inUse \ Reserved(Caller)
                              /\ call' = [call EXCEPT ![Caller] = "released"]
                        ELSE UNCHANGED <<inUse, call>>
  BY DEF Disposer, ownerVars
<1>6. call'[Caller] = "held" => call[Caller] = "held"
  BY <1>5, CallerKnown DEF Strong, AllocatorInv, AllocatorTypeOK
<1>7. bound' \subseteq Ports
  BY <1>1, <1>3, <1>4, <1>5, <1>6, BoundKept
<1>8. AllocatorInv'
  <2>1. CASE r = "ports"
    <3>1. unwinding = FromPorts
      BY <2>1, NextDisposer DEF Strong, Disposer
    <3>2. call[Caller] = "held"
      BY <1>1, <3>1, AheadOf DEF UnwindsInOrder
    <3>3. QED
      BY <1>5, <1>7, <2>1, <3>2, CallerKnown, GivenBackInv DEF GivesBack, Strong
  <2>2. CASE r # "ports"
    BY <1>5, <1>7, <2>2, BoundInv DEF Strong
  <2>3. QED
    BY <2>1, <2>2
<1>9. QED
  BY <1>1, <1>2, <1>3, <1>4, <1>8 DEF Strong

LEMMA DisposerReturnsStrong ==
  ASSUME Strong, DisposerReturns PROVE Strong'
<1>1. UNCHANGED <<allocatorVars, spawned, streamVars, demuxVars, timers>>
  BY DEF DisposerReturns, ownerVars
<1>2. QED
  BY <1>1, DisposerReturnsPlaced, OwnerStays DEF Strong

LEMMA PartStrong ==
  ASSUME Strong, StreamStep \/ DemuxStep PROVE Strong'
<1>1. /\ UNCHANGED <<inUse, call, first, attempt>> /\ KeepSockets
      /\ UNCHANGED <<scene, stage, aborted, spawned, stackVars>> /\ timers' = timers
  BY DEF StreamStep, DemuxStep, InStream, InDemuxer, ownerVars
<1>2. /\ ProcessKnown' /\ DemuxerKnown' /\ (demux' = "none" <=> demux = "none")
      /\ demuxGone' = demuxGone \/ (demuxGone = "awaiting" /\ demuxGone' = "done")
      /\ disposal' = disposal \/ (disposal = "awaiting" /\ disposal' = "done")
  <2>1. CASE StreamStep
    <3>1. UNCHANGED demuxVars
      BY <2>1 DEF StreamStep, InStream
    <3>2. DemuxerKnown'
      BY <3>1, DemuxerStays DEF Strong
    <3>3. QED
      BY <2>1, <3>1, <3>2, StreamStepKnown DEF Strong, demuxVars
  <2>2. CASE DemuxStep
    <3>1. UNCHANGED streamVars
      BY <2>2 DEF DemuxStep, InDemuxer
    <3>2. ProcessKnown'
      BY <1>1, <3>1, ProcessStays DEF Strong
    <3>3. QED
      BY <2>2, <3>1, <3>2, DemuxStepKnown DEF Strong, streamVars
  <2>3. QED
    BY <2>1, <2>2
<1>3. Placed'
  <2>1. aborted' \in BOOLEAN
    BY <1>1 DEF Strong, Placed, OwnerPlaced
  <2>2. QED
    BY <1>1, <1>2, <2>1, PlacedKept DEF Strong
<1>4. bound' \subseteq Ports
  BY <1>1, <1>2, <1>3, BoundKept
<1>5. AllocatorInv' /\ T!RegistryInv'
  BY <1>1, <1>4, BoundInv, SoundIsInv DEF Strong
<1>6. QED
  BY <1>2, <1>3, <1>5 DEF Strong

\* What happens beside the owner, its process and its demuxer.
LEMMA OthersStrong ==
  ASSUME Strong, ReserveStep \/ PeerLeaves \/ Allocate \/ Callbacks PROVE Strong'
<1>1. /\ UNCHANGED <<scene, stage, aborted, spawned, stackVars, streamVars, demuxVars>>
      /\ aborted \in BOOLEAN
      /\ stage # "new" => scene \in {"view", "talk"}
  BY DEF Strong, Placed, OwnerPlaced, ReserveStep, PeerLeaves, Allocate, Callbacks, ownerVars
<1>2. DemuxerKnown' /\ ProcessKnown'
  BY <1>1, DemuxerStays, ProcessStays DEF Strong
<1>3. AllocatorInv' /\ (stage # "new" /\ call[Caller] \in {"held", "released", "rejected"}
                        => call'[Caller] = call[Caller])
  <2>1. CASE ReserveStep
    <3>1. CASE Answer(Caller)
      <4>1. AllocatorInv'
        BY <3>1, CallerKnown, FirstBoundInv, SecondBoundInv, RetryInv DEF Answer, Strong
      <4>2. QED
        BY <3>1, <4>1 DEF Answer, FirstBound, SecondBound, Retry
    <3>2. ASSUME NEW p \in Contended, SocketOpens(p) \/ SocketCloses(p)
          PROVE  AllocatorInv' /\ call' = call
      <4>1. p \in Ports
        BY SessionAssumption
      <4>2. bound' \subseteq Ports /\ UNCHANGED <<inUse, call, first, attempt>>
        BY <3>2, <4>1 DEF SocketOpens, SocketCloses, Strong, AllocatorInv, AllocatorTypeOK
      <4>3. QED
        BY <4>2, BoundInv DEF Strong
    <3>3. QED
      BY <2>1, <3>1, <3>2 DEF ReserveStep
  <2>2. CASE Allocate
    <3>1. stage = "new"
      BY <1>1, <2>2 DEF Allocate
    <3>2. QED
      BY <2>2, <3>1, StepInv DEF Allocate, Strong
  <2>3. CASE PeerLeaves \/ Callbacks
    BY <2>3, BoundInv DEF PeerLeaves, Callbacks, allocatorVars, Strong, AllocatorInv, AllocatorTypeOK
  <2>4. QED
    BY <2>1, <2>2, <2>3
<1>4. /\ SoundRegistry(timers')
      /\ timers' = timers \/ (scene = "timers" /\ stage = "new")
  <2>1. CASE Callbacks
    BY <1>1, <2>1, CallbacksSound, SoundIsInv DEF Strong, Callbacks
  <2>2. CASE ReserveStep \/ PeerLeaves \/ Allocate
    BY <2>2, SoundIsInv DEF Strong, ReserveStep, PeerLeaves, Allocate
  <2>3. QED
    BY <2>1, <2>2
<1>5. Placed'
  <2>1. demux' = demux /\ demuxGone' = demuxGone /\ disposal' = disposal
    BY <1>1 DEF demuxVars, streamVars
  <2>2. QED
    BY <1>1, <1>3, <1>4, <2>1, PlacedKept DEF Strong
<1>6. QED
  BY <1>2, <1>3, <1>4, <1>5, SoundIsInv DEF Strong

LEMMA InitStrong == Init => Strong
<1> SUFFICES ASSUME Init PROVE Strong
  OBVIOUS
<1>1. AllocatorInv
  BY InitInv DEF Init
<1>2. T!RegistryInv
  BY EmptySound, SoundIsInv DEF Init
<1>3. DemuxerKnown
  BY DEF Init, DemuxerKnown, D!DemuxerInit, D!DemuxerInv, D!DemuxerTypeOK, D!DemuxerConsistent,
     D!DemuxLive, D!Promise
<1>4. ProcessKnown
  BY DEF Init, ProcessKnown
<1>5. Placed
  BY DEF Init, Placed, OwnerPlaced, StacksPlaced, UnwindingPlaced, TwoStacks, S!StackInit, AllRun,
     Building, Serving, Ending, D!DemuxerInit, P!StreamInit, P!Init
<1>6. QED
  BY <1>1, <1>2, <1>3, <1>4, <1>5 DEF Strong

LEMMA StepStrong == Strong /\ [Next]_vars => Strong'
<1> SUFFICES ASSUME Strong, [Next]_vars PROVE Strong'
  OBVIOUS
<1>1. CASE UNCHANGED vars
  <2>1. /\ UNCHANGED <<allocatorVars, spawned, streamVars, demuxVars, timers>>
        /\ UNCHANGED <<scene, stage, aborted, stackVars>> /\ aborted \in BOOLEAN
    BY <1>1 DEF vars, ownerVars, Strong, Placed, OwnerPlaced
  <2>2. Placed'
    BY <2>1, PlacedKept DEF Strong, allocatorVars, demuxVars, streamVars
  <2>3. QED
    BY <2>1, <2>2, OwnerStays DEF Strong
<1>2. CASE Owner \/ Stop
  BY <1>2, StartStrong, SpawnStrong, StartTalkStrong, WaitsStrong DEF Owner
<1>3. CASE Confirmed
  BY <1>3, ConfirmedStrong
<1>4. CASE Abort \/ GateFires
  BY <1>4, AbortStrong
<1>5. CASE Unwinding
  BY <1>5, DisposerStrong, DisposerReturnsStrong DEF Unwinding
<1>6. CASE StreamStep \/ DemuxStep
  BY <1>6, PartStrong
<1>7. CASE ReserveStep \/ PeerLeaves \/ Allocate \/ Callbacks
  BY <1>7, OthersStrong
<1>8. QED
  BY <1>1, <1>2, <1>3, <1>4, <1>5, <1>6, <1>7 DEF Next

\* What the session promises follows from where everything stands.
LEMMA PromisesFollow == Strong => SessionInv
<1> SUFFICES ASSUME Strong PROVE SessionInv
  OBVIOUS
<1> DEFINE R == {"timers", "ports", "demuxer", "report", "process"}
<1>1. None \notin R
  BY NoneAssumption
<1>2. S!StackTypeOK
  <2>1. /\ AllRun \in Seq(R) /\ FromTimers \in Seq(R) /\ FromPorts \in Seq(R)
        /\ FromDemuxer \in Seq(R) /\ ViewReport \in Seq(R) /\ TalkReport \in Seq(R)
        /\ ViewProcess \in Seq(R) /\ TalkProcess \in Seq(R) /\ <<"report">> \in Seq(R)
    BY DEF AllRun, FromTimers, FromPorts, FromDemuxer, ViewReport, TalkReport, ViewProcess, TalkProcess
  <2>2. Gathered \in Seq(R)
    <3>1. /\ <<"timers">> \in Seq(R)
          /\ <<"timers", "ports", "demuxer">> \in Seq(R)
          /\ <<"timers", "ports", "report", "process">> \in Seq(R)
          /\ <<"timers", "ports", "demuxer", "report", "process">> \in Seq(R)
      OBVIOUS
    <3> HIDE DEF R
    <3>2. QED
      BY <3>1 DEF Gathered
  <2>3. stacks \in [{"building", "session"} -> Seq(R) \cup {None}]
    <3> HIDE DEF R
    <3>1. QED
      BY <2>2 DEF Strong, Placed, StacksPlaced, TwoStacks
  <2>4. unwinding \in Seq(R) /\ running \in R \cup {None} /\ errors \in Seq(R)
    <3> HIDE DEF R
    <3>1. CASE stage \in Ending
      <4>1. UnwindsInOrder
        BY <3>1 DEF Strong, Placed, UnwindingPlaced
      <4>2. running \in R \cup {None}
        BY <4>1 DEF UnwindsInOrder, R
      <4>3. <<>> \in Seq(R)
        BY <2>1 DEF AllRun
      <4>4. QED
        BY <2>1, <4>1, <4>2, <4>3 DEF UnwindsInOrder
    <3>2. CASE stage \notin Ending
      <4>1. unwinding = AllRun /\ running = None /\ errors = AllRun
        BY <3>2 DEF Strong, Placed, StacksPlaced, AllRun
      <4>2. QED
        BY <2>1, <4>1
    <3>3. QED
      BY <3>1, <3>2
  <2>5. QED
    BY <2>3, <2>4 DEF S!StackTypeOK
<1>3. BoundIsReserved
  <2>1. demux = "bound" \/ monitor = "bound" => call[Caller] = "held"
    BY SocketsHeld DEF Strong
  <2>2. QED
    BY <2>1 DEF BoundIsReserved, OwnPort, Reserved, Block
<1>4. SessionKept
  <2>1. stage = "streaming" => /\ Reserved(Caller) # {} /\ disposal = "no"
                               /\ demuxGone = "no" /\ S!Unwound
    BY DEF Strong, Placed, OwnerPlaced, StacksPlaced, Serving, Ending, S!Unwound, AllRun, Reserved, Block
  <2>2. ASSUME stage = "over"
        PROVE  /\ Reserved(Caller) = {} /\ timers.pending = {}
               /\ demux \in {"none", "closed"}
               /\ spawned => child = "gone" /\ errors = <<"report">>
    <3>1. UnwindsInOrder /\ unwinding = AllRun /\ running = None
      BY <2>2 DEF Strong, Placed, UnwindingPlaced, Ending, S!Unwound, AllRun
    <3>2. ~TimersAhead /\ ~PortsAhead /\ ~DemuxerAhead /\ ~ReportAhead /\ ~ProcessAhead
      BY <3>1, AheadOf
    <3>3. /\ call[Caller] \in {"released", "rejected"} /\ timers.disposed
          /\ spawned => disposal = "done" /\ errors = <<"report">>
          /\ demux # "none" => demuxGone = "done"
      BY <1>1, <3>1, <3>2 DEF UnwindsInOrder
    <3>4. timers.pending = {}
      BY <3>3, SoundIsInv DEF Strong, SoundRegistry
    <3>5. demux \in {"none", "closed"}
      BY <3>3 DEF Strong, DemuxerKnown, D!DemuxerInv, D!DemuxerConsistent
    <3>6. spawned => child = "gone"
      BY <3>3 DEF Strong, ProcessKnown, ProcessSound, P!StreamInv, P!OwnerKnowsChild
    <3>7. QED
      BY <3>3, <3>4, <3>5, <3>6 DEF Reserved
  <2>3. QED
    BY <2>1, <2>2 DEF SessionKept
<1>5. QED
  BY <1>2, <1>3, <1>4 DEF Strong, SessionInv, DemuxerKnown, ProcessKnown, ProcessSound

\* Whatever ends first: a socket of the session sits on a port the session
\* has reserved, nothing it has acquired is released while it streams, and
\* when it is over nothing is left of it; the allocator's entries, the
\* registry's timers, the demuxer and the process are each as they should be.
THEOREM SessionCorrect == Spec => []SessionInv
<1>1. Spec => []Strong
  BY InitStrong, StepStrong, PTL DEF Spec
<1>2. QED
  BY <1>1, PromisesFollow, PTL

-----------------------------------------------------------------------------
(* The session leases its ports. *)

LEMMA StepLeasesSession ==
  ASSUME Strong, Strong', [Next]_vars
  PROVE  [Leases!Next]_leasesNow
<1>1. ASSUME UNCHANGED <<call, first>> PROVE UNCHANGED leasesNow
  BY <1>1 DEF leasesNow, Reserved, Block
<1>2. ASSUME [AllocatorNext]_allocatorVars PROVE [Leases!Next]_leasesNow
  BY <1>2, StepLeases DEF Strong
<1>3. CASE UNCHANGED vars \/ StartView \/ StartTalk \/ MediaFlows \/ Running \/ Leave
           \/ GiveUp \/ Over \/ Stop \/ Confirmed \/ DisposerReturns \/ StreamStep
           \/ DemuxStep \/ PeerLeaves \/ Callbacks
  BY <1>1, <1>3 DEF vars, StartView, StartTalk, MediaFlows, Running, Leave, GiveUp, Over, Stop,
     OwnerWaits, Confirmed, DisposerReturns, StreamStep, InStream, DemuxStep, InDemuxer, PeerLeaves,
     Callbacks, allocatorVars
<1>4. CASE Start
  BY <1>2, <1>4, CallerKnown DEF Start, AllocatorNext
<1>5. CASE ReserveStep
  <2>1. AllocatorNext
    BY <1>5, CallerKnown, SessionAssumption DEF ReserveStep, AllocatorNext
  <2>2. QED
    BY <1>2, <2>1
<1>6. CASE Allocate
  BY <1>2, <1>6 DEF Allocate
<1>7. CASE Abort \/ GateFires
  <2>1. FanOut
    BY <1>7 DEF Abort, GateFires
  <2>2. CASE call[Caller] \in {"first", "second"}
    <3>1. Unwind(Caller) /\ call' = [call EXCEPT ![Caller] = "rejected"]
      BY <2>1, <2>2 DEF FanOut
    <3>2. \A c \in Callers : Reserved(c)' = Reserved(c)
      BY <2>2, <3>1, CallerKnown DEF Unwind, Reserved, Block, Strong, AllocatorInv, AllocatorTypeOK
    <3>3. QED
      BY <3>2 DEF leasesNow
  <2>3. CASE call[Caller] \notin {"first", "second"}
    BY <1>1, <2>1, <2>3 DEF FanOut
  <2>4. QED
    BY <2>2, <2>3
<1>8. ASSUME NEW r \in {"timers", "ports", "demuxer", "report", "process"}, Disposer(r)
      PROVE  [Leases!Next]_leasesNow
  <2>1. CASE r = "ports"
    <3>1. unwinding = FromPorts /\ UnwindsInOrder
      BY <1>8, <2>1, NextDisposer DEF Strong, Disposer
    <3>2. call[Caller] = "held"
      BY <3>1, AheadOf DEF UnwindsInOrder
    <3>3. GivesBack(Caller)
      BY <1>8, <2>1, <3>2 DEF GivesBack, Disposer
    <3>4. QED
      BY <3>3, GivenBackLeases, CallerKnown DEF Leases!Next, Strong
  <2>2. CASE r # "ports"
    BY <1>1, <1>8, <2>2 DEF Disposer
  <2>3. QED
    BY <2>1, <2>2
<1>9. QED
  BY <1>3, <1>4, <1>5, <1>6, <1>7, <1>8 DEF Next, Owner, Unwinding

\* Seen through its reservation a session leases its ports as the allocator
\* alone does: once, side by side, to nobody else meanwhile, and returned as
\* a whole however the session ends.
THEOREM SessionLeases == Spec => ImplementsPortLeases
<1>1. Init => Leases!Init
  BY DEF Init, AllocatorInit, Leases!Init, Reserved
<1>2. Strong /\ Strong' /\ [Next]_vars => [Leases!Next]_leasesNow
  BY StepLeasesSession
<1>3. Spec => []Strong
  BY InitStrong, StepStrong, PTL DEF Spec
<1>4. leasesNow = [c \in Callers |-> Reserved(c)]
  BY DEF leasesNow
<1>5. QED
  BY <1>1, <1>2, <1>3, <1>4, PTL DEF Spec, ImplementsPortLeases, Leases!Spec, leasesNow
-----------------------------------------------------------------------------
(***************************************************************************)
(* The command lines, for all hosts, versions, inventories,                *)
(* configurations and requests.  The first part follows the frames: a      *)
(* chain is put together from segments, and a segment that takes frames    *)
(* where the one before it leaves them can be appended.  The second part   *)
(* is the inductive invariant: an accelerator left in the set of the probe *)
(* has passed or is still to be tried, the corrected configuration asks    *)
(* for nothing else, and a command is one that was built from both.        *)
(***************************************************************************)

Filters == CallerFilters \union HardwareFilters
               \union {"format", "crop", "scale", "fps"}

Moves == {"hwupload", "hwdownload"}
MovedTo(filter) == IF filter = "hwupload" THEN "gpu" ELSE "system"

\* No filter strictly between these two moves the frames.
Still(s, j, i) == \A k \in Nat : j < k /\ k < i => s[k] \notin Moves

\* The filter at j is the last before the i-th to move the frames.
LastMove(s, j, i, at) ==
    /\ s[j] \in Moves
    /\ at = MovedTo(s[j])
    /\ Still(s, j, i)

\* Frames that enter the sequence s at "from" are at "at" before its i-th
\* filter.
Where(s, from, i, at) ==
    \/ at = from /\ Still(s, 0, i)
    \/ \E j \in Nat : 0 < j /\ j < i /\ LastMove(s, j, i, at)

\* A filter has its frames where it works, crop where it is free to have
\* them anywhere, and an upload has a device.
Served(filter, at, free, device) ==
    /\ Needs(filter) \in {at, "any"} \/ (filter = "crop" /\ free)
    /\ filter = "hwupload" => device

\* A segment of a chain that takes frames at "from" and leaves them at "to".
Flows(s, from, to, free, device) ==
    /\ s \in Seq(Filters)
    /\ \A i \in 1..Len(s) :
           \E at \in {"gpu", "system"} :
               /\ Where(s, from, i, at)
               /\ Served(s[i], at, free, device)
    /\ Where(s, from, Len(s) + 1, to)

-----------------------------------------------------------------------------
\* Before the i-th filter of the first segment nothing of the second counts.
LEMMA WhereFirst ==
    ASSUME NEW s \in Seq(Filters), NEW t \in Seq(Filters), NEW from, NEW at,
           NEW i \in 1..(Len(s) + 1), Where(s, from, i, at)
    PROVE  Where(s \o t, from, i, at)
<1> DEFINE u == s \o t
<1>1. \A k \in Nat : 0 < k /\ k < i => u[k] = s[k]
  OBVIOUS
<1> HIDE DEF u
<1>2. \A j \in Nat : Still(s, j, i) => Still(u, j, i)
  BY <1>1 DEF Still
<1>3. CASE at = from /\ Still(s, 0, i)
  BY <1>2, <1>3 DEF Where, u
<1>4. ASSUME NEW j \in Nat, 0 < j, j < i, LastMove(s, j, i, at)
      PROVE  Where(u, from, i, at)
  <2>1. LastMove(u, j, i, at)
    BY <1>1, <1>2, <1>4 DEF LastMove
  <2> QED
    BY <1>4, <2>1 DEF Where
<1> QED
  BY <1>3, <1>4 DEF Where, u

\* The second segment takes the frames where the first leaves them.
LEMMA WhereSecond ==
    ASSUME NEW s \in Seq(Filters), NEW t \in Seq(Filters),
           NEW from, NEW mid, NEW at, NEW i \in 1..(Len(t) + 1),
           Where(s, from, Len(s) + 1, mid), Where(t, mid, i, at)
    PROVE  Where(s \o t, from, Len(s) + i, at)
<1> DEFINE u == s \o t
           n == Len(s)
<1>1. n \in Nat /\ i \in Nat /\ i > 0
  OBVIOUS
<1>2. \A k \in Nat : 0 < k /\ k < n + 1 => u[k] = s[k]
  OBVIOUS
<1>3. \A k \in Nat : 0 < k /\ k < i => u[n + k] = t[k]
  OBVIOUS
<1>4. Where(s, from, n + 1, mid)
  OBVIOUS
<1> HIDE DEF u, n
<1>5. ASSUME NEW j \in Nat, Still(t, j, i)
      PROVE  Still(u, n + j, n + i)
  <2> SUFFICES ASSUME NEW k \in Nat, n + j < k, k < n + i
               PROVE  u[k] \notin Moves
    BY DEF Still
  <2>1. k - n \in Nat /\ 0 < k - n /\ j < k - n /\ k - n < i /\ n + (k - n) = k
    BY <1>1
  <2> QED
    BY <1>3, <1>5, <2>1 DEF Still
<1>6. CASE at = mid /\ Still(t, 0, i)
  <2>1. ASSUME NEW j \in Nat, Still(s, j, n + 1)
        PROVE  Still(u, j, n + i)
    <3> SUFFICES ASSUME NEW k \in Nat, j < k, k < n + i
                 PROVE  u[k] \notin Moves
      BY DEF Still
    <3>1. CASE k < n + 1
      BY <1>2, <2>1, <3>1 DEF Still
    <3>2. CASE n < k
      <4>1. n + 0 < k
        BY <1>1, <3>2
      <4> QED
        BY <1>5, <1>6, <4>1 DEF Still
    <3> QED
      BY <1>1, <3>1, <3>2
  <2>2. CASE mid = from /\ Still(s, 0, n + 1)
    BY <1>6, <2>1, <2>2 DEF Where, u, n
  <2>3. ASSUME NEW j \in Nat, 0 < j, j < n + 1, LastMove(s, j, n + 1, mid)
        PROVE  Where(u, from, n + i, at)
    <3>1. LastMove(u, j, n + i, at)
      BY <1>2, <1>6, <2>1, <2>3 DEF LastMove
    <3>2. j < n + i
      BY <1>1, <2>3
    <3> QED
      BY <2>3, <3>1, <3>2 DEF Where
  <2> QED
    BY <1>4, <2>2, <2>3 DEF Where, u, n
<1>7. ASSUME NEW j \in Nat, 0 < j, j < i, LastMove(t, j, i, at)
      PROVE  Where(u, from, n + i, at)
  <2>1. n + j \in Nat /\ 0 < n + j /\ n + j < n + i /\ u[n + j] = t[j]
    BY <1>1, <1>3, <1>7
  <2>2. LastMove(u, n + j, n + i, at)
    BY <1>5, <1>7, <2>1 DEF LastMove
  <2> QED
    BY <2>1, <2>2 DEF Where
<1> QED
  BY <1>6, <1>7 DEF Where, u, n

\* Segments that fit can be joined.
LEMMA ChainsJoined ==
    ASSUME NEW s, NEW t, NEW from, NEW mid, NEW to, NEW free, NEW device,
           Flows(s, from, mid, free, device), Flows(t, mid, to, free, device)
    PROVE  Flows(s \o t, from, to, free, device)
<1> DEFINE u == s \o t
<1>1. s \in Seq(Filters) /\ t \in Seq(Filters)
  BY DEF Flows
<1>2. u \in Seq(Filters) /\ Len(u) = Len(s) + Len(t)
  BY <1>1
<1>3. ASSUME NEW i \in 1..Len(u)
      PROVE  \E at \in {"gpu", "system"} :
                 Where(u, from, i, at) /\ Served(u[i], at, free, device)
  <2>1. CASE i <= Len(s)
    <3>1. i \in 1..Len(s) /\ i \in 1..(Len(s) + 1) /\ u[i] = s[i]
      BY <1>1, <1>2, <2>1
    <3>2. PICK at \in {"gpu", "system"} :
              Where(s, from, i, at) /\ Served(s[i], at, free, device)
      BY <3>1 DEF Flows
    <3>3. Where(u, from, i, at)
      BY <1>1, <3>1, <3>2, WhereFirst
    <3> QED
      BY <3>1, <3>2, <3>3
  <2>2. CASE i > Len(s)
    <3> DEFINE j == i - Len(s)
    <3>1. /\ j \in 1..Len(t) /\ j \in 1..(Len(t) + 1)
          /\ Len(s) + j = i /\ u[i] = t[j]
      BY <1>1, <1>2, <2>2
    <3> HIDE DEF j
    <3>2. PICK at \in {"gpu", "system"} :
              Where(t, mid, j, at) /\ Served(t[j], at, free, device)
      BY <3>1 DEF Flows
    <3>3. Where(u, from, Len(s) + j, at)
      BY <1>1, <3>1, <3>2, WhereSecond DEF Flows
    <3> QED
      BY <3>1, <3>2, <3>3
  <2> QED
    BY <1>1, <1>2, <2>1, <2>2
<1>4. Where(u, from, Len(u) + 1, to)
  <2>1. Len(t) + 1 \in 1..(Len(t) + 1) /\ Len(s) + (Len(t) + 1) = Len(u) + 1
    BY <1>1, <1>2
  <2>2. Where(u, from, Len(s) + (Len(t) + 1), to)
    BY <1>1, <2>1, WhereSecond DEF Flows
  <2> QED
    BY <2>1, <2>2
<1> QED
  BY <1>2, <1>3, <1>4 DEF Flows

\* Nothing at all, and filters that move no frames.
LEMMA NoMove ==
    ASSUME NEW s \in Seq(Filters), NEW from \in {"gpu", "system"}, NEW free,
           NEW device, \A i \in 1..Len(s) : /\ s[i] \notin Moves
                                            /\ Served(s[i], from, free, device)
    PROVE  Flows(s, from, from, free, device)
<1>1. \A i \in 1..(Len(s) + 1) : Where(s, from, i, from)
  BY DEF Where, Still
<1>2. Len(s) + 1 \in 1..(Len(s) + 1)
  OBVIOUS
<1>3. 1..Len(s) \subseteq 1..(Len(s) + 1)
  OBVIOUS
<1> QED
  BY <1>1, <1>2, <1>3 DEF Flows

LEMMA Nothing ==
    ASSUME NEW from \in {"gpu", "system"}, NEW free, NEW device
    PROVE  Flows(<<>>, from, from, free, device)
<1>1. <<>> \in Seq(Filters) /\ Len(<<>>) = 0
  OBVIOUS
<1> QED
  BY <1>1, NoMove, 1..0 = {}

LEMMA One ==
    ASSUME NEW f \in Filters, f \notin Moves, NEW from \in {"gpu", "system"},
           NEW free, NEW device, Served(f, from, free, device)
    PROVE  Flows(<<f>>, from, from, free, device)
<1>1. <<f>> \in Seq(Filters) /\ Len(<<f>>) = 1 /\ <<f>>[1] = f
  OBVIOUS
<1>2. \A i \in 1..Len(<<f>>) : <<f>>[i] = f
  BY <1>1
<1> QED
  BY <1>1, <1>2, NoMove

LEMMA OneMove ==
    ASSUME NEW f \in Moves, NEW from \in {"gpu", "system"}, NEW free,
           NEW device, Served(f, from, free, device)
    PROVE  Flows(<<f>>, from, MovedTo(f), free, device)
<1>1. f \in Filters
  BY DEF Moves, Filters, HardwareFilters
<1> HIDE DEF Moves
<1>2. <<f>> \in Seq(Filters) /\ Len(<<f>>) = 1 /\ <<f>>[1] = f
  BY <1>1
<1>3. Where(<<f>>, from, 1, from)
  BY DEF Where, Still
<1>4. LastMove(<<f>>, 1, 2, MovedTo(f))
  BY <1>2 DEF LastMove, Still
<1>5. Where(<<f>>, from, 2, MovedTo(f))
  BY <1>4 DEF Where
<1>6. \A i \in 1..1 : i = 1
  OBVIOUS
<1>7. 1 + 1 = 2
  OBVIOUS
<1> QED
  BY <1>2, <1>3, <1>5, <1>6, <1>7 DEF Flows

\* Two filters are two segments.
LEMMA Pair ==
    ASSUME NEW f, NEW g
    PROVE  <<f, g>> = <<f>> \o <<g>>
<1> DEFINE R == {f, g}
           v == <<f>> \o <<g>>
           u == <<f, g>>
<1>1. <<f>> \in Seq(R) /\ <<g>> \in Seq(R) /\ u \in Seq(R)
  OBVIOUS
<1>2. Len(<<f>>) = 1 /\ Len(<<g>>) = 1 /\ Len(u) = 2
  OBVIOUS
<1>3. v \in Seq(R) /\ Len(v) = 2 /\ v[1] = f /\ v[2] = g
  <2> HIDE DEF R
  <2> QED
    BY <1>1, <1>2, ConcatProperties
<1>4. u[1] = f /\ u[2] = g
  OBVIOUS
<1>5. \A i \in 1..2 : i = 1 \/ i = 2
  OBVIOUS
<1> HIDE DEF R, u, v
<1>6. u = v
  <2>1. Len(u) = Len(v) /\ \A i \in 1..Len(u) : u[i] = v[i]
    BY <1>2, <1>3, <1>4, <1>5
  <2> QED
    BY <1>1, <1>3, <2>1, SeqEqual
<1> QED
  BY <1>6 DEF u, v

-----------------------------------------------------------------------------
\* Where a decoder that was told so leaves the frames.
DecodedTo(codecs, decode) ==
    IF decode /\ KeepsFrames(codecs) THEN "gpu" ELSE "system"

LEMMA CropFlows ==
    ASSUME NEW c, NEW from \in {"gpu", "system"}, NEW free, NEW device,
           from = "system" \/ free
    PROVE  Flows(Crop(c), from, from, free, device)
<1>1. Served("crop", from, free, device) /\ "crop" \notin Moves
  BY DEF Served, Needs, Moves
<1>2. "crop" \in Filters
  BY DEF Filters
<1>3. Flows(<<"crop">>, from, from, free, device)
  BY <1>1, <1>2, One
<1> QED
  BY <1>3, Nothing DEF Crop

\* The filters of a caller start and end in system memory.
LEMMA CallerFlows ==
    ASSUME NEW s \in Seq(CallerFilters), NEW free, NEW device
    PROVE  Flows(s, "system", "system", free, device)
<1>1. s \in Seq(Filters)
  <2>1. CallerFilters \subseteq Filters
    BY DEF Filters
  <2> QED
    BY <2>1
<1>2. ASSUME NEW i \in 1..Len(s)
      PROVE  s[i] \notin Moves /\ Served(s[i], "system", free, device)
  <2>1. s[i] \in CallerFilters
    OBVIOUS
  <2>2. s[i] \notin HardwareFilters
    BY <2>1, VideoAssumption
  <2>3. s[i] \notin Moves /\ s[i] # "hwupload"
    BY <2>2 DEF HardwareFilters, Moves
  <2>4. Needs(s[i]) \in {"system", "any"}
    BY <2>2 DEF HardwareFilters, Needs
  <2> QED
    BY <2>3, <2>4 DEF Served
<1> QED
  BY <1>1, <1>2, NoMove

LEMMA FormatFlows ==
    ASSUME NEW free, NEW device
    PROVE  Flows(<<"format">>, "system", "system", free, device)
<1>1. Served("format", "system", free, device) /\ "format" \notin Moves
  BY DEF Served, Needs, Moves
<1>2. "format" \in Filters
  BY DEF Filters
<1> QED
  BY <1>1, <1>2, One

\* A download brings frames home, where there is anything to bring home.
LEMMA DownloadFlows ==
    ASSUME NEW codecs, NEW free, NEW device
    PROVE  Flows(Download(codecs), DecodedTo(codecs, TRUE), "system", free,
                 device)
<1>1. CASE ~KeepsFrames(codecs)
  <2>1. Download(codecs) = <<>> /\ DecodedTo(codecs, TRUE) = "system"
    BY <1>1 DEF Download, DecodedTo
  <2> QED
    BY <2>1, Nothing
<1>2. CASE KeepsFrames(codecs)
  <2>1. DecodedTo(codecs, TRUE) = "gpu"
    BY <1>2 DEF DecodedTo
  <2>2. Served("hwdownload", "gpu", free, device)
    BY DEF Served, Needs
  <2>3. "hwdownload" \in Moves /\ MovedTo("hwdownload") = "system"
    BY DEF Moves, MovedTo
  <2>4. Flows(<<"hwdownload">>, "gpu", "system", free, device)
    BY <2>2, <2>3, OneMove
  <2>5. Flows(<<"hwdownload">> \o <<"format">>, "gpu", "system", free, device)
    BY <2>4, FormatFlows, ChainsJoined
  <2>6. Download(codecs) \in
            {<<"hwdownload">>, <<"hwdownload">> \o <<"format">>}
    BY <1>2, Pair DEF Download
  <2> QED
    BY <2>1, <2>4, <2>5, <2>6
<1> QED
  BY <1>1, <1>2

\* An upload takes frames of system memory to where the hardware works,
\* given the device.
LEMMA UploadFlows ==
    ASSUME NEW codecs, NEW free, NEW device, KeepsFrames(codecs) => device
    PROVE  Flows(Upload(codecs), "system", DecodedTo(codecs, TRUE), free,
                 device)
<1>1. CASE ~KeepsFrames(codecs)
  <2>1. DecodedTo(codecs, TRUE) = "system"
    BY <1>1 DEF DecodedTo
  <2>2. Upload(codecs) \in {<<>>, <<"format">>}
    BY <1>1 DEF Upload, KeepsFrames, MacOS
  <2> QED
    BY <2>1, <2>2, FormatFlows, Nothing
<1>2. CASE KeepsFrames(codecs)
  <2>1. DecodedTo(codecs, TRUE) = "gpu"
    BY <1>2 DEF DecodedTo
  <2>2. Served("hwupload", "system", free, device)
    BY <1>2 DEF Served, Needs
  <2>3. "hwupload" \in Moves /\ MovedTo("hwupload") = "gpu"
    BY DEF Moves, MovedTo
  <2>4. Flows(<<"hwupload">>, "system", "gpu", free, device)
    BY <2>2, <2>3, OneMove
  <2>5. Flows(<<"format">> \o <<"hwupload">>, "system", "gpu", free, device)
    BY <2>4, FormatFlows, ChainsJoined
  <2>6. Upload(codecs) \in {<<"hwupload">>, <<"format">> \o <<"hwupload">>}
    BY <1>2, Pair DEF Upload, KeepsFrames, MacOS
  <2> QED
    BY <2>1, <2>4, <2>5, <2>6
<1> QED
  BY <1>1, <1>2

-----------------------------------------------------------------------------
\* The chain of libx264 ends in system memory, however the frames were
\* decoded, unless decoding and encoding are both done in hardware.
LEMMA SoftwareFlows ==
    ASSUME NEW c, NEW codecs, NEW decode \in BOOLEAN,
           NEW transcode \in BOOLEAN, NEW o, NEW free, NEW device,
           o.filters \in Seq(CallerFilters),
           transcode => ~decode /\ codecs.system = "raspbian"
    PROVE  Flows(SoftwareChain(c, codecs, decode, transcode, o),
                 DecodedTo(codecs, decode), "system", free, device)
<1> DEFINE from == DecodedTo(codecs, decode)
           F(s, a) == Flows(s, a, "system", free, device)
<1>1. F(Transfer(codecs, decode, transcode), from)
  <2>1. CASE decode /\ ~transcode
    BY <2>1, DownloadFlows DEF Transfer
  <2>2. CASE ~decode
    <3>1. from = "system"
      BY <2>2 DEF DecodedTo
    <3>2. Transfer(codecs, decode, transcode) \in {<<>>, <<"format">>}
      BY <2>2 DEF Transfer, Upload, MacOS
    <3> QED
      BY <3>1, <3>2, FormatFlows, Nothing
  <2> QED
    BY <2>1, <2>2
<1>2. F(Crop(c), "system")
  BY CropFlows
<1>3. F(<<"scale">>, "system") /\ F(<<"fps">>, "system") /\ Flows(<<"fps">>, from, from, free, device)
  <2>1. {"scale", "fps"} \subseteq Filters
    BY DEF Filters
  <2>2. /\ Served("scale", "system", free, device)
        /\ \A a : Served("fps", a, free, device)
        /\ "scale" \notin Moves /\ "fps" \notin Moves
    BY DEF Served, Needs, Moves
  <2>3. from \in {"gpu", "system"}
    BY DEF DecodedTo
  <2> HIDE DEF from
  <2> QED
    BY <2>1, <2>2, <2>3, One
<1>4. F(o.filters, "system")
  BY CallerFlows
<1> DEFINE pixels == Transfer(codecs, decode, transcode) \o Crop(c) \o <<"scale">>
<1>5. F(Transfer(codecs, decode, transcode) \o Crop(c), from)
  BY <1>1, <1>2, ChainsJoined
<1>6. F(pixels, from)
  BY <1>3, <1>5, ChainsJoined
<1> HIDE DEF pixels, from
<1>7. F(<<"fps">> \o pixels, from) /\ F(pixels \o <<"fps">>, from)
  BY <1>3, <1>6, ChainsJoined
<1>8. /\ F(<<"fps">> \o pixels \o o.filters, from)
      /\ F(pixels \o <<"fps">> \o o.filters, from)
      /\ F(pixels \o o.filters, from)
  BY <1>4, <1>6, <1>7, ChainsJoined
<1>9. SoftwareChain(c, codecs, decode, transcode, o) \in
          {<<"fps">> \o pixels \o o.filters, pixels \o <<"fps">> \o o.filters,
           pixels \o o.filters}
  BY DEF SoftwareChain, pixels
<1> QED
  BY <1>8, <1>9 DEF from

\* The chain of a hardware encoder ends where the encoder works, or in
\* system memory behind the filters of a caller; crop alone may meet frames
\* of the GPU, and every upload has its device.
LEMMA HardwareFlows ==
    ASSUME NEW c, NEW codecs, NEW decode \in BOOLEAN, NEW o,
           o.filters \in Seq(CallerFilters)
    PROVE  LET from == DecodedTo(codecs, decode)
           IN  Flows(HardwareChain(c, codecs, decode, o), from,
                     DecodedTo(codecs, o.filters = <<>>), from = "gpu",
                     DeviceInit(codecs, decode))
<1> DEFINE from == DecodedTo(codecs, decode)
           mid == DecodedTo(codecs, TRUE)
           to == DecodedTo(codecs, o.filters = <<>>)
           device == DeviceInit(codecs, decode)
           F(s, a, b) == Flows(s, a, b, from = "gpu", device)
           bridge == IF o.filters # <<>> /\ HardwareScale(codecs) # "scale"
                     THEN Download(codecs) ELSE <<>>
<1>1. {from, mid, to} \subseteq {"gpu", "system"}
  BY DEF DecodedTo
<1>2. F(Crop(c), from, from)
  BY <1>1, CropFlows
<1>3. F(Transfer(codecs, decode, TRUE), from, mid)
  <2>1. CASE decode
    BY <1>1, <2>1, Nothing DEF Transfer
  <2>2. CASE ~decode
    <3>1. from = "system" /\ (KeepsFrames(codecs) => device)
      BY <2>2 DEF DecodedTo, DeviceInit
    <3>2. Transfer(codecs, decode, TRUE) = Upload(codecs)
      BY <2>2 DEF Transfer
    <3> HIDE DEF from, mid, device
    <3> QED
      BY <3>1, <3>2, UploadFlows DEF mid
  <2> QED
    BY <2>1, <2>2
<1>4. F(<<HardwareScale(codecs)>>, mid, mid)
  <2>1. HardwareScale(codecs) \in Filters /\ HardwareScale(codecs) \notin Moves
    BY DEF HardwareScale, Filters, HardwareFilters, Moves
  <2>2. Needs(HardwareScale(codecs)) = mid /\ HardwareScale(codecs) # "hwupload"
    BY DEF HardwareScale, Needs, DecodedTo
  <2>3. Served(HardwareScale(codecs), mid, from = "gpu", device)
    BY <2>2 DEF Served
  <2> HIDE DEF from, mid, device
  <2> QED
    BY <1>1, <2>1, <2>3, One
<1>5. F(bridge, mid, to)
  <2>1. (HardwareScale(codecs) # "scale") <=> KeepsFrames(codecs)
    BY DEF HardwareScale
  <2>2. CASE o.filters # <<>> /\ KeepsFrames(codecs)
    <3>1. bridge = Download(codecs) /\ to = "system"
      BY <2>1, <2>2 DEF DecodedTo
    <3> HIDE DEF from, to, device, bridge
    <3> QED
      BY <3>1, DownloadFlows
  <2>3. CASE ~(o.filters # <<>> /\ KeepsFrames(codecs))
    <3>1. bridge = <<>> /\ to = mid
      BY <2>1, <2>3 DEF DecodedTo
    <3> HIDE DEF from, mid, to, device, bridge
    <3> QED
      BY <1>1, <3>1, Nothing
  <2> QED
    BY <2>2, <2>3
<1>6. F(o.filters, to, to)
  <2>1. CASE o.filters = <<>>
    BY <1>1, <2>1, Nothing
  <2>2. CASE o.filters # <<>>
    <3>1. to = "system"
      BY <2>2 DEF DecodedTo
    <3> HIDE DEF from, to, device
    <3> QED
      BY <3>1, CallerFlows
  <2> QED
    BY <2>1, <2>2
<1>7. HardwareChain(c, codecs, decode, o) =
          Crop(c) \o Transfer(codecs, decode, TRUE)
          \o <<HardwareScale(codecs)>> \o bridge \o o.filters
  BY DEF HardwareChain
<1> HIDE DEF from, mid, to, device, bridge
<1>8. F(Crop(c) \o Transfer(codecs, decode, TRUE), from, mid)
  BY <1>2, <1>3, ChainsJoined
<1>9. F(Crop(c) \o Transfer(codecs, decode, TRUE)
        \o <<HardwareScale(codecs)>>, from, mid)
  BY <1>4, <1>8, ChainsJoined
<1>10. F(Crop(c) \o Transfer(codecs, decode, TRUE)
         \o <<HardwareScale(codecs)>> \o bridge, from, to)
  BY <1>5, <1>9, ChainsJoined
<1>11. F(Crop(c) \o Transfer(codecs, decode, TRUE)
         \o <<HardwareScale(codecs)>> \o bridge \o o.filters, from, to)
  BY <1>6, <1>10, ChainsJoined
<1> QED
  BY <1>7, <1>11 DEF from, to, device

-----------------------------------------------------------------------------
\* What the encoder functions return: the chain takes the frames where the
\* decoder is assumed to leave them, and hands libx264 and the encoder of
\* the Raspberry Pi frames in system memory.
VideoFlows(video, codecs) ==
    \E to \in {"gpu", "system"} :
        /\ Flows(video.chain, DecodedTo(codecs, video.assumed), to,
                 /\ DecodedTo(codecs, video.assumed) = "gpu"
                 /\ video.encoder \in {"h264_videotoolbox", "h264_qsv"},
                 video.device)
        /\ video.encoder \in {"libx264", "h264_v4l2m2m"} => to = "system"

Configurations ==
    [decode : BOOLEAN, transcode : BOOLEAN, crop : BOOLEAN, ready : BOOLEAN]

LEMMA SoftwareVideo ==
    ASSUME NEW c \in Configurations, NEW codecs, NEW o,
           o.filters \in Seq(CallerFilters),
           Resolved(o.transcode, c.transcode) =>
               ~Resolved(o.decode, c.decode) /\ codecs.system = "raspbian"
    PROVE  VideoFlows(Software(c, codecs, o), codecs)
<1> DEFINE decode == Resolved(o.decode, c.decode)
           transcode == Resolved(o.transcode, c.transcode)
           v == Software(c, codecs, o)
<1>1. decode \in BOOLEAN /\ transcode \in BOOLEAN
  BY DEF Resolved, Configurations
<1>2. /\ v.encoder = "libx264" /\ v.device = FALSE /\ v.assumed = decode
      /\ v.chain = SoftwareChain(c, codecs, decode, transcode, o)
  BY DEF Software
<1>3. transcode => ~decode /\ codecs.system = "raspbian"
  OBVIOUS
<1> HIDE DEF decode, transcode, v
<1>4. Flows(v.chain, DecodedTo(codecs, v.assumed), "system", FALSE, FALSE)
  BY <1>1, <1>2, <1>3, SoftwareFlows
<1>5. VideoFlows(v, codecs)
  <2>1. (DecodedTo(codecs, v.assumed) = "gpu"
         /\ v.encoder \in {"h264_videotoolbox", "h264_qsv"}) = FALSE
    BY <1>2
  <2> QED
    BY <1>2, <1>4, <2>1 DEF VideoFlows
<1> QED
  BY <1>5 DEF v

LEMMA StreamVideo ==
    ASSUME NEW c \in Configurations, NEW codecs, NEW o,
           o.filters \in Seq(CallerFilters)
    PROVE  VideoFlows(StreamEncoder(c, codecs, o), codecs)
<1> DEFINE decode == Resolved(o.decode, c.decode)
           transcode == Resolved(o.transcode, c.transcode)
           v == StreamEncoder(c, codecs, o)
<1>1. decode \in BOOLEAN /\ transcode \in BOOLEAN
  BY DEF Resolved, Configurations
<1>2. CASE ~transcode
  BY <1>2, SoftwareVideo DEF StreamEncoder
<1>3. CASE transcode
  <2>1. /\ v.encoder = HardwareEncoder(codecs)
        /\ v.device = DeviceInit(codecs, decode) /\ v.assumed = decode
        /\ v.chain = HardwareChain(c, codecs, decode, o)
    BY <1>3 DEF StreamEncoder
  <2> DEFINE from == DecodedTo(codecs, decode)
             to == DecodedTo(codecs, o.filters = <<>>)
  <2>2. from = "gpu" \/ to = "gpu" => KeepsFrames(codecs)
    BY DEF DecodedTo
  <2>3. KeepsFrames(codecs) =>
            HardwareEncoder(codecs) \in {"h264_videotoolbox", "h264_qsv"}
    BY DEF KeepsFrames, HardwareEncoder, MacOS
  <2>4. from \in {"gpu", "system"} /\ to \in {"gpu", "system"}
    BY DEF DecodedTo
  <2>5. Flows(v.chain, from, to, from = "gpu", v.device)
    BY <1>1, <2>1, HardwareFlows
  <2> HIDE DEF from, to, v, decode
  <2>6. (from = "gpu" /\ v.encoder \in {"h264_videotoolbox", "h264_qsv"})
            = (from = "gpu")
    BY <2>1, <2>2, <2>3
  <2>7. v.encoder \in {"libx264", "h264_v4l2m2m"} => to = "system"
    BY <2>1, <2>2, <2>3, <2>4
  <2>8. VideoFlows(v, codecs)
    BY <2>1, <2>4, <2>5, <2>6, <2>7 DEF VideoFlows, from
  <2> QED
    BY <2>8 DEF v
<1> QED
  BY <1>1, <1>2, <1>3

\* On a Raspberry Pi, where recordings never use its encoder, the frames
\* were decoded in software.
LEMMA RecordVideo ==
    ASSUME NEW c \in Configurations, NEW codecs, NEW o,
           o.filters \in Seq(CallerFilters),
           c.decode => codecs.system # "raspbian"
    PROVE  VideoFlows(RecordEncoder(c, codecs, o), codecs)
<1>1. CASE HardwareEncodes(c, codecs, "record")
  BY <1>1, StreamVideo DEF RecordEncoder
<1>2. CASE ~HardwareEncodes(c, codecs, "record")
  <2>1. Resolved(o.transcode, c.transcode) =>
            ~Resolved(o.decode, c.decode) /\ codecs.system = "raspbian"
    BY <1>2 DEF HardwareEncodes, Resolved, Configurations
  <2> QED
    BY <1>2, <2>1, SoftwareVideo DEF RecordEncoder
<1> QED
  BY <1>1, <1>2

\* The account of the frames is the one the property keeps.
LEMMA Located ==
    ASSUME NEW i \in Nat, NEW at, Where(command.filters, Decoded, i, at)
    PROVE  FrameAt(i) = at
<1> DEFINE moved == {j \in 1..(i - 1) :
                        command.filters[j] \in {"hwupload", "hwdownload"}}
<1>1. CASE at = Decoded /\ Still(command.filters, 0, i)
  <2>1. moved = {}
    BY <1>1 DEF Still, Moves
  <2> QED
    BY <1>1, <2>1 DEF FrameAt
<1>2. ASSUME NEW j \in Nat, 0 < j, j < i, LastMove(command.filters, j, i, at)
      PROVE  FrameAt(i) = at
  <2>1. j \in moved
    BY <1>2 DEF LastMove, Moves
  <2>2. \A k \in moved : j >= k
    BY <1>2 DEF LastMove, Still, Moves
  <2>3. \A k \in moved : (\A l \in moved : k >= l) => k = j
    BY <2>1, <2>2
  <2> HIDE DEF moved
  <2>4. Max(moved) = j
    BY <2>1, <2>2, <2>3 DEF Max
  <2>5. moved # {}
    BY <2>1
  <2> QED
    BY <1>2, <2>4, <2>5 DEF FrameAt, LastMove, MovedTo, moved
<1> QED
  BY <1>1, <1>2 DEF Where

-----------------------------------------------------------------------------
(***************************************************************************)
(* The inductive invariant.                                                *)
(***************************************************************************)
Inventory == Inventories \union {[encoders |-> {}, decoders |-> {}]}

ProbeTyped ==
    probe \in [stage : Stages, signal : BOOLEAN, host : Hosts, gpuMem : Nat,
              major : Nat, codecs : Inventory, accels : SUBSET Accelerators,
              pending : SUBSET Accelerators, passed : SUBSET Accelerators]

\* What is left in the set has passed, or its trial is still to come.
TrialsKept ==
    /\ probe.accels \subseteq probe.passed \union probe.pending
    /\ probe.stage = "ready" => probe.pending = {}

\* A configuration asks for what this host has.
DecodeProven(c, codecs) ==
    c.decode =>
        /\ codecs.system # "raspbian"
        /\ (IF codecs.system \in MacOS THEN "videotoolbox" ELSE "qsv")
               \in codecs.accels

EncodeProven(c, codecs) ==
    c.transcode =>
        /\ HardwareEncoder(codecs) \in codecs.encoders
        /\ HardwareEncoder(codecs) = "h264_qsv" => "qsv" \in codecs.accels

Corrected ==
    /\ config \in Configurations
    /\ config.ready => /\ probe.stage = "ready"
                       /\ DecodeProven(config, Capabilities)
                       /\ EncodeProven(config, Capabilities)

\* A command is one that was built from the configuration as it stands.
Built ==
    command # NoCommand =>
        /\ config.ready
        /\ \E o \in Requests :
               command \in {StreamLine(o), RecordLine(o), LivestreamLine(o)}

Proven == ProbeTyped /\ TrialsKept /\ Corrected /\ Built

-----------------------------------------------------------------------------
\* #configureHwAccel leaves nothing on that the probe did not confirm.
LEMMA Configured ==
    ASSUME NEW c \in Configurations, NEW codecs
    PROVE  LET d == [ConfigureHwAccel(c, codecs) EXCEPT !.ready = TRUE]
           IN  /\ d \in Configurations
               /\ DecodeProven(d, codecs)
               /\ EncodeProven(d, codecs)
<1> DEFINE d == [ConfigureHwAccel(c, codecs) EXCEPT !.ready = TRUE]
<1>1. CASE codecs.system \in MacOS
  <2>1. ConfigureHwAccel(c, codecs) = ConfigureMacOS(c, codecs)
    BY <1>1 DEF ConfigureHwAccel, MacOS
  <2>2. HardwareEncoder(codecs) = "h264_videotoolbox"
    BY <1>1 DEF HardwareEncoder, MacOS
  <2>3. codecs.system # "raspbian"
    BY <1>1 DEF MacOS
  <2>4. /\ d \in Configurations
        /\ d.decode => "videotoolbox" \in codecs.accels
        /\ d.transcode => "h264_videotoolbox" \in codecs.encoders
    BY <2>1 DEF ConfigureMacOS, Configurations
  <2> QED
    BY <1>1, <2>2, <2>3, <2>4 DEF DecodeProven, EncodeProven
<1>2. CASE codecs.system = "raspbian"
  <2>1. ConfigureHwAccel(c, codecs) = ConfigureRaspbian(c, codecs)
    BY <1>2 DEF ConfigureHwAccel, MacOS
  <2>2. HardwareEncoder(codecs) = "h264_v4l2m2m"
    BY <1>2 DEF HardwareEncoder, MacOS
  <2>3. /\ d \in Configurations
        /\ d.decode = FALSE
        /\ d.transcode => "h264_v4l2m2m" \in codecs.encoders
    BY <2>1 DEF ConfigureRaspbian, Configurations
  <2> QED
    BY <2>2, <2>3 DEF DecodeProven, EncodeProven
<1>3. CASE codecs.system \notin MacOS /\ codecs.system # "raspbian"
  <2>1. ConfigureHwAccel(c, codecs) = ConfigureQsv(c, codecs)
    BY <1>3 DEF ConfigureHwAccel
  <2>2. HardwareEncoder(codecs) = "h264_qsv"
    BY <1>3 DEF HardwareEncoder
  <2>3. /\ d \in Configurations
        /\ d.decode \/ d.transcode => /\ "qsv" \in codecs.accels
                                     /\ "h264_qsv" \in codecs.encoders
    BY <2>1 DEF ConfigureQsv, Configurations
  <2> QED
    BY <1>3, <2>2, <2>3 DEF DecodeProven, EncodeProven
<1> QED
  BY <1>1, <1>2, <1>3

\* A step of the probe keeps its account of the trials, and a probe that is
\* ready takes none.
LEMMA ProbeKeeps ==
    ASSUME ProbeTyped, TrialsKept, ProbeNext
    PROVE  ProbeTyped' /\ TrialsKept' /\ probe.stage # "ready"
<1>1. CASE Probe
  BY <1>1 DEF Probe, ProbeTyped, TrialsKept, Stages
<1>2. CASE CommandSucceeds
  <2>1. CASE /\ probe.stage = "gpu"
             /\ \E mem \in GpuMemory :
                    probe' = [probe EXCEPT !.stage = "version", !.gpuMem = mem]
    BY <2>1, CodecsAssumption DEF ProbeTyped, TrialsKept, Stages
  <2>2. CASE /\ probe.stage = "version"
             /\ \E major \in Majors :
                    probe' = [probe EXCEPT !.stage = "codecs", !.major = major]
    BY <2>2, CodecsAssumption DEF ProbeTyped, TrialsKept, Stages
  <2>3. CASE /\ probe.stage = "codecs"
             /\ \E codecs \in Inventories :
                    probe' = [probe EXCEPT !.stage = "hwaccels",
                                           !.codecs = codecs]
    BY <2>3 DEF ProbeTyped, TrialsKept, Stages, Inventory
  <2>4. CASE /\ probe.stage = "hwaccels"
             /\ \E listed \in SUBSET Accelerators :
                    probe' = [probe EXCEPT !.stage = Validating(listed),
                                           !.accels = listed,
                                           !.pending = listed]
    BY <2>4 DEF ProbeTyped, TrialsKept, Stages, Validating
  <2>5. CASE /\ probe.stage = "validate"
             /\ \E accel \in probe.pending :
                    probe' = [probe EXCEPT
                        !.stage = Validating(probe.pending \ {accel}),
                        !.pending = @ \ {accel},
                        !.passed = @ \union {accel}]
    <3>1. PICK accel \in probe.pending : 
              probe' = [probe EXCEPT
                  !.stage = Validating(probe.pending \ {accel}),
                  !.pending = @ \ {accel},
                  !.passed = @ \union {accel}]
      BY <2>5
    <3>2. Validating(probe.pending \ {accel}) \in Stages
      BY DEF Validating, Stages
    <3>3. ProbeTyped'
      BY <3>1, <3>2 DEF ProbeTyped
    <3>4. /\ probe'.pending = probe.pending \ {accel}
          /\ probe'.stage = Validating(probe'.pending)
          /\ probe'.accels \subseteq probe'.passed \union probe'.pending
      BY <3>1 DEF ProbeTyped, TrialsKept
    <3>5. TrialsKept'
      BY <3>4 DEF TrialsKept, Validating
    <3> QED
      BY <2>5, <3>3, <3>5
  <2> QED
    BY <1>2, <2>1, <2>2, <2>3, <2>4, <2>5 DEF CommandSucceeds
<1>3. CASE Failed
  <2>1. CASE probe.stage = "gpu" /\ probe' = [probe EXCEPT !.stage = "version"]
    BY <2>1 DEF ProbeTyped, TrialsKept, Stages
  <2>2. CASE /\ probe.stage \in {"version", "codecs", "hwaccels"}
             /\ probe' = [probe EXCEPT !.stage = "null"]
    BY <2>2 DEF ProbeTyped, TrialsKept, Stages
  <2>3. CASE /\ probe.stage = "validate"
             /\ \E accel \in probe.pending : probe' = Rejected(probe, accel)
    <3>1. PICK accel \in probe.pending : probe' = Rejected(probe, accel)
      BY <2>3
    <3>2. Validating(probe.pending \ {accel}) \in Stages
      BY DEF Validating, Stages
    <3>3. ProbeTyped'
      BY <3>1, <3>2 DEF ProbeTyped, Rejected
    <3>4. /\ probe'.pending = probe.pending \ {accel}
          /\ probe'.stage = Validating(probe'.pending)
          /\ probe'.accels \subseteq probe'.passed \union probe'.pending
      BY <3>1 DEF ProbeTyped, TrialsKept, Rejected
    <3>5. TrialsKept'
      BY <3>4 DEF TrialsKept, Validating
    <3> QED
      BY <2>3, <3>3, <3>5
  <2> QED
    BY <1>3, <2>1, <2>2, <2>3 DEF Failed
<1>4. CASE CallerAborts
  BY <1>4 DEF CallerAborts, Probing, ProbeTyped, TrialsKept, Stages
<1> QED
  BY <1>1, <1>2, <1>3, <1>4 DEF ProbeNext, CommandFails, CommandTimesOut,
     CommandCancelled

\* What is built from the configuration depends on nothing else.
LEMMA Unmoved ==
    ASSUME UNCHANGED <<probe, config>>
    PROVE  /\ ProbeTyped <=> ProbeTyped'
           /\ TrialsKept <=> TrialsKept'
           /\ Corrected <=> Corrected'
           /\ \A o : /\ StreamLine(o)' = StreamLine(o)
                     /\ RecordLine(o)' = RecordLine(o)
                     /\ LivestreamLine(o)' = LivestreamLine(o)
<1>1. Capabilities' = Capabilities
  BY DEF Capabilities
<1>2. \A o : RecordingRequest(o)' = RecordingRequest(o)
  BY <1>1 DEF RecordingRequest
<1> QED
  BY <1>1, <1>2 DEF ProbeTyped, TrialsKept, Corrected, StreamLine, RecordLine,
     LivestreamLine, CommandLine

\* Before the probe nothing is claimed.
LEMMA ProvenInit == VideoInit => Proven
<1> SUFFICES ASSUME VideoInit PROVE Proven
  OBVIOUS
<1>1. ProbeTyped /\ TrialsKept
  BY DEF VideoInit, ProbeInit, ProbeTyped, TrialsKept, Stages, Inventory
<1>2. Corrected
  BY VideoAssumption DEF VideoInit, Corrected, Configurations
<1> QED
  BY <1>1, <1>2 DEF VideoInit, Proven, Built

\* Every step keeps the invariant: once there is a configuration the probe
\* is over, and once there is a command the configuration stands.
LEMMA ProvenStep == Proven /\ [VideoNext]_videoVars => Proven'
<1> SUFFICES ASSUME Proven, [VideoNext]_videoVars PROVE Proven'
  OBVIOUS
<1>1. CASE ProbeStep
  <2>1. ProbeTyped' /\ TrialsKept' /\ probe.stage # "ready"
    BY <1>1, ProbeKeeps DEF ProbeStep, Proven
  <2>2. ~config.ready /\ UNCHANGED <<config, command>>
    BY <1>1, <2>1 DEF ProbeStep, Proven, Corrected
  <2>3. Corrected'
    BY <2>2 DEF Proven, Corrected
  <2>4. Built'
    BY <2>2 DEF Proven, Built
  <2> QED
    BY <2>1, <2>3, <2>4 DEF Proven
<1>2. CASE Construct
  <2>1. ProbeTyped' /\ TrialsKept' /\ Capabilities' = Capabilities
    BY <1>2 DEF Construct, Proven, ProbeTyped, TrialsKept, Capabilities
  <2>2. Corrected'
    <3>1. config \in Configurations
      BY DEF Proven, Corrected
    <3>2. /\ config' \in Configurations
          /\ DecodeProven(config', Capabilities)
          /\ EncodeProven(config', Capabilities)
      BY <1>2, <3>1, Configured DEF Construct
    <3>3. probe'.stage = "ready"
      BY <1>2 DEF Construct
    <3> QED
      BY <2>1, <3>2, <3>3 DEF Corrected
  <2>3. Built'
    BY <1>2 DEF Construct, Proven, Built
  <2> QED
    BY <2>1, <2>2, <2>3 DEF Proven
<1>3. ASSUME NEW lines, Run(lines),
             \A line \in lines : \E o \in Requests :
                 line \in {StreamLine(o), RecordLine(o), LivestreamLine(o)}
      PROVE  Proven'
  <2>1. Built'
    <3>1. PICK o \in Requests :
              command' \in {StreamLine(o), RecordLine(o), LivestreamLine(o)}
      BY <1>3 DEF Run
    <3>2. command' \in {StreamLine(o)', RecordLine(o)', LivestreamLine(o)'}
      BY <1>3, <3>1, Unmoved DEF Run
    <3>3. config'.ready
      BY <1>3 DEF Run
    <3> QED
      BY <3>2, <3>3 DEF Built
  <2> QED
    BY <1>3, <2>1, Unmoved DEF Run, Proven
<1>4. CASE Stream
  BY <1>3, <1>4 DEF Stream
<1>5. CASE Record
  BY <1>3, <1>5 DEF Record
<1>6. CASE Livestream
  BY <1>3, <1>6 DEF Livestream
<1>7. CASE FfmpegEnds
  BY <1>7, Unmoved DEF FfmpegEnds, Proven, Built, NoCommand
<1>8. CASE UNCHANGED videoVars
  <2>1. Built'
    BY <1>8, Unmoved DEF videoVars, Proven, Built
  <2> QED
    BY <1>8, <2>1, Unmoved DEF videoVars, Proven
<1> QED
  BY <1>1, <1>2, <1>4, <1>5, <1>6, <1>7, <1>8 DEF VideoNext

-----------------------------------------------------------------------------
(***************************************************************************)
(* What follows for a command.                                             *)
(***************************************************************************)

\* The account of one line: its decoder, its audio encoder, its video
\* encoder and what it was asked.
LEMMA LineProven ==
    ASSUME Proven, NEW o \in Requests, config.ready,
           command \in {StreamLine(o), RecordLine(o), LivestreamLine(o)}
    PROVE  HardwareProven /\ CapabilityTold
<1> DEFINE c == Capabilities
<1>1. /\ probe.accels \subseteq probe.passed
      /\ c.accels = probe.accels /\ c.encoders = probe.codecs.encoders
  BY DEF Proven, Corrected, TrialsKept, Capabilities
<1>2. DecodeProven(config, c) /\ EncodeProven(config, c)
  BY DEF Proven, Corrected
<1>3. config.transcode \in BOOLEAN /\ config.decode \in BOOLEAN
  BY DEF Proven, Corrected, Configurations
<1>4. /\ command.decoder = VideoDecoder(config, c, o.codec)
      /\ command.audio = AudioEncoder(c)
      /\ command.asked = ("off" \in {o.decode, o.transcode})
  BY DEF StreamLine, RecordLine, LivestreamLine, CommandLine
<1>5. RecordingRequest(o).transcode = o.transcode
  BY VideoAssumption DEF RecordingRequest
<1>6. \/ /\ command.kind = "stream"
         /\ command.encoder =
                (IF Resolved(o.transcode, config.transcode)
                 THEN HardwareEncoder(c) ELSE "libx264")
      \/ /\ command.kind = "record"
         /\ command.encoder =
                (IF /\ HardwareEncodes(config, c, "record")
                    /\ Resolved(o.transcode, config.transcode)
                 THEN HardwareEncoder(c) ELSE "libx264")
      \/ command.kind = "livestream" /\ command.encoder = "copy"
  <2>1. CASE command = StreamLine(o)
    BY <2>1 DEF StreamLine, CommandLine, StreamEncoder, Software
  <2>2. CASE command = RecordLine(o)
    BY <1>5, <2>2 DEF RecordLine, CommandLine, RecordEncoder, StreamEncoder,
       Software
  <2>3. CASE command = LivestreamLine(o)
    BY <2>3 DEF LivestreamLine, CommandLine
  <2> QED
    BY <2>1, <2>2, <2>3
<1> HIDE DEF c
<1>7. /\ command.encoder = HardwareEncoder(c) => config.transcode
      /\ command.encoder \in {HardwareEncoder(c), "libx264", "copy"}
  <2>1. HardwareEncoder(c) \notin {"libx264", "copy"}
    BY DEF HardwareEncoder
  <2> QED
    BY <1>3, <1>6, <2>1 DEF Resolved
<1>8. command.decoder # "software" => command.decoder \in probe.passed
  <2>1. VideoDecoder(config, c, o.codec) # "software" =>
            /\ config.decode
            /\ VideoDecoder(config, c, o.codec) =
                   (IF c.system \in MacOS THEN "videotoolbox" ELSE "qsv")
    BY DEF VideoDecoder
  <2> QED
    BY <1>1, <1>2, <1>4, <2>1 DEF DecodeProven
<1>9. command.encoder = "h264_qsv" => "qsv" \in probe.passed
  <2>1. command.encoder = "h264_qsv" => command.encoder = HardwareEncoder(c)
    BY <1>7
  <2> QED
    BY <1>1, <1>2, <1>7, <2>1 DEF EncodeProven
<1>10. {command.encoder, command.audio} \subseteq
           probe.codecs.encoders \union {"libx264", "copy", "none"}
  <2>1. command.audio \in probe.codecs.encoders \union {"none"}
    BY <1>1, <1>4 DEF AudioEncoder
  <2>2. command.encoder \in probe.codecs.encoders \union {"libx264", "copy"}
    BY <1>1, <1>2, <1>7 DEF EncodeProven
  <2> QED
    BY <2>1, <2>2
<1>11. CapabilityTold
  <2>1. HardwareEncoder(c) # "libx264"
        /\ (HardwareEncoder(c) = "h264_v4l2m2m" => c.system = "raspbian")
    BY DEF HardwareEncoder, MacOS
  <2>2. ~command.asked => o.transcode # "off"
    BY <1>4
  <2> QED
    BY <1>3, <1>6, <2>1, <2>2 DEF CapabilityTold, HardwareEncodes, Resolved,
       PixelsCapped, c
<1> QED
  BY <1>8, <1>9, <1>10, <1>11 DEF HardwareProven

\* The frames of one line.
LEMMA LineFlows ==
    ASSUME Proven, NEW o \in Requests, config.ready,
           command \in {StreamLine(o), RecordLine(o), LivestreamLine(o)},
           command.kind \in {"stream", "record"}
    PROVE  VideoFlows(command, Capabilities)
<1>1. config \in Configurations
      /\ (config.decode => Capabilities.system # "raspbian")
  BY DEF Proven, Corrected, DecodeProven
<1>2. o.filters \in Seq(CallerFilters)
      /\ RecordingRequest(o).filters = <<>> /\ <<>> \in Seq(CallerFilters)
  BY VideoAssumption DEF RecordingRequest
<1>3. CASE command = StreamLine(o)
  <2>1. VideoFlows(StreamEncoder(config, Capabilities, o), Capabilities)
    BY <1>1, <1>2, StreamVideo
  <2> QED
    BY <1>3, <2>1 DEF StreamLine, CommandLine, VideoFlows
<1>4. CASE command = RecordLine(o)
  <2>1. VideoFlows(RecordEncoder(config, Capabilities, RecordingRequest(o)),
                   Capabilities)
    BY <1>1, <1>2, RecordVideo
  <2> QED
    BY <1>4, <2>1 DEF RecordLine, CommandLine, VideoFlows
<1> QED
  BY <1>3, <1>4 DEF LivestreamLine, CommandLine

\* A chain that flows has every frame in place.
LEMMA FlowsInPlace ==
    ASSUME VideoFlows(command, Capabilities)
    PROVE  FramesInPlace
<1> SUFFICES ASSUME command.filters = command.chain, Agreed
             PROVE  /\ \A i \in DOMAIN command.filters :
                           \/ InPlace(i)
                           \/ command.filters[i] = "crop" /\ AllOnGpu
                    /\ \A i \in DOMAIN command.filters :
                           command.filters[i] = "hwupload" => command.device
                    /\ command.encoder \in {"libx264", "h264_v4l2m2m"} =>
                           FrameAt(Len(command.filters) + 1) = "system"
  BY DEF FramesInPlace
<1> DEFINE s == command.filters
           free == /\ Decoded = "gpu"
                   /\ command.encoder \in {"h264_videotoolbox", "h264_qsv"}
<1>1. DecodedTo(Capabilities, command.assumed) = Decoded
  BY DEF DecodedTo, Agreed, Decoded
<1>2. PICK to \in {"gpu", "system"} :
          /\ Flows(s, Decoded, to, free, command.device)
          /\ command.encoder \in {"libx264", "h264_v4l2m2m"} => to = "system"
  BY <1>1 DEF VideoFlows
<1>3. free <=> AllOnGpu
  BY DEF AllOnGpu
<1> HIDE DEF free
<1>4. s \in Seq(Filters) /\ DOMAIN s = 1..Len(s) /\ Len(s) \in Nat
  BY <1>2 DEF Flows
<1>5. ASSUME NEW i \in DOMAIN s
      PROVE  /\ InPlace(i) \/ (s[i] = "crop" /\ AllOnGpu)
             /\ s[i] = "hwupload" => command.device
  <2>1. i \in 1..Len(s) /\ i \in Nat
    BY <1>4
  <2>2. PICK at \in {"gpu", "system"} :
            /\ Where(s, Decoded, i, at)
            /\ Served(s[i], at, free, command.device)
    BY <1>2, <2>1 DEF Flows
  <2>3. FrameAt(i) = at
    BY <2>1, <2>2, Located
  <2> QED
    BY <1>3, <2>2, <2>3 DEF InPlace, Served
<1>6. FrameAt(Len(s) + 1) = to
  <2>1. Len(s) + 1 \in Nat /\ Where(s, Decoded, Len(s) + 1, to)
    BY <1>2, <1>4 DEF Flows
  <2> QED
    BY <2>1, Located
<1> QED
  BY <1>2, <1>5, <1>6

\* With no command there is nothing to show.
LEMMA ProvenImplies == Proven => VideoInv /\ FramesInPlace
<1> SUFFICES ASSUME Proven PROVE VideoInv /\ FramesInPlace
  OBVIOUS
<1>1. TypeOK
  BY DEF Proven, ProbeTyped, Corrected, Built, TypeOK
<1>2. CASE command = NoCommand
  BY <1>1, <1>2 DEF VideoInv, HardwareProven, CapabilityTold, FramesInPlace,
     NoCommand
<1>3. CASE command # NoCommand
  <2>1. PICK o \in Requests :
            command \in {StreamLine(o), RecordLine(o), LivestreamLine(o)}
    BY <1>3 DEF Proven, Built
  <2>2. config.ready
    BY <1>3 DEF Proven, Built
  <2>3. VideoInv
    BY <1>1, <2>1, <2>2, LineProven DEF VideoInv
  <2>4. FramesInPlace
    <3>1. CASE command.kind \in {"stream", "record"}
      BY <2>1, <2>2, <3>1, LineFlows, FlowsInPlace
    <3>2. CASE command.kind \notin {"stream", "record"}
      BY <3>2 DEF FramesInPlace
    <3> QED
      BY <3>1, <3>2
  <2> QED
    BY <2>3, <2>4
<1> QED
  BY <1>2, <1>3

\* The invariant holds of every reachable state, whatever FFmpeg answers.
LEMMA AlwaysProven == VideoSpec => []Proven
<1>1. VideoInit => Proven
  BY ProvenInit
<1>2. Proven /\ [VideoNext]_videoVars => Proven'
  BY ProvenStep
<1> QED
  BY <1>1, <1>2, PTL DEF VideoSpec

\* No command line names hardware that was not tried and listed, and the
\* answers about hardware are what the encoders do: for all hosts,
\* inventories, configurations and requests (FfmpegOptions, FfmpegCodecs).
THEOREM VideoCorrect == VideoSpec => []VideoInv
<1>1. Proven => VideoInv
  BY ProvenImplies
<1> QED
  BY <1>1, AlwaysProven, PTL

\* In every chain of filters each filter and the encoder find the frames in
\* the memory they work in, also with any filters of a caller that run in
\* system memory (#getHardwareTransferFilters, #hardwareStreamContext).
THEOREM FramesCorrect == VideoSpec => []FramesInPlace
<1>1. Proven => FramesInPlace
  BY ProvenImplies
<1> QED
  BY <1>1, AlwaysProven, PTL
=============================================================================
