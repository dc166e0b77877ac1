-------------------------- MODULE RtpPortAllocator --------------------------
(***************************************************************************)
(* RtpPortAllocator of src/src/ffmpeg/rtp.ts.  A port is found by binding  *)
(* a socket to it and closing the socket again, so the operating system    *)
(* forgets it at once and only the set inUse keeps reservations apart.     *)
(* The bind is awaited; the close, the look at inUse and the entry in it   *)
(* happen in the turn that ends the wait.  Until a call returns its        *)
(* reservation, the ports it has entered sit on a stack of its own.        *)
(***************************************************************************)
EXTENDS Naturals

CONSTANTS
  Callers,      \* the calls of reserve(), one reservation each
  Pairs,        \* those that ask for two consecutive ports
  Ports,        \* the ports the operating system hands out
  MaxAttempts,  \* RESERVE_MAX_ATTEMPTS
  None

ASSUME AllocatorAssumption ==
  /\ Pairs \subseteq Callers
  /\ Ports \subseteq Nat
  /\ MaxAttempts \in Nat \ {0}
  /\ None \notin Ports

VARIABLES
  inUse,    \* #inUse
  bound,    \* ports that a socket of somebody is bound to
  call,     \* where each call stands
  first,    \* the first port of a call, once entered
  attempt   \* the call's loop counter

allocatorVars == <<inUse, bound, call, first, attempt>>

Call == {"new", "first", "second", "held", "released", "rejected"}

Block(c, p) == IF c \in Pairs THEN {p, p + 1} ELSE {p}

\* What the call's own DisposableStack would take back out of inUse.
Deferred(c) == IF call[c] = "second" THEN {first[c]} ELSE {}

\* What a reservation handle stands for.
Reserved(c) == IF call[c] = "held" THEN Block(c, first[c]) ELSE {}

AllocatorTypeOK ==
  /\ inUse \subseteq Ports
  /\ bound \subseteq Ports
  /\ call \in [Callers -> Call]
  /\ first \in [Callers -> Ports \cup {None}]
  /\ attempt \in [Callers -> 0..MaxAttempts]

AllocatorInit ==
  /\ inUse = {}
  /\ bound = {}
  /\ call = [c \in Callers |-> "new"]
  /\ first = [c \in Callers |-> None]
  /\ attempt = [c \in Callers |-> 0]

-----------------------------------------------------------------------------
\* reserve() runs up to the first bind.
Reserve(c) ==
  /\ call[c] = "new"
  /\ call' = [call EXCEPT ![c] = "first"]
  /\ attempt' = [attempt EXCEPT ![c] = 1]
  /\ UNCHANGED <<inUse, bound, first>>

\* The system hands out a port with no socket on it.  One that is in use
\* already is drawn again, with no attempt counted and nothing changed.
FirstBound(c) ==
  /\ call[c] = "first"
  /\ \E p \in Ports \ (bound \cup inUse) :
       /\ inUse' = inUse \cup {p}
       /\ first' = [first EXCEPT ![c] = p]
  /\ call' = [call EXCEPT ![c] = IF c \in Pairs THEN "second" ELSE "held"]
  /\ UNCHANGED <<bound, attempt>>

\* The stack is moved away, the reservation takes over both entries.
SecondBound(c) ==
  /\ call[c] = "second"
  /\ first[c] + 1 \in Ports \ (bound \cup inUse)
  /\ inUse' = inUse \cup {first[c] + 1}
  /\ call' = [call EXCEPT ![c] = "held"]
  /\ UNCHANGED <<bound, first, attempt>>

\* Leaving the attempt unwinds the stack.
Unwind(c) ==
  /\ inUse' = inUse \ Deferred(c)
  /\ first' = [first EXCEPT ![c] = None]

\* A bind fails, or the consecutive port is in use: the next attempt.
Retry(c) ==
  /\ call[c] \in {"first", "second"}
  /\ Unwind(c)
  /\ IF attempt[c] < MaxAttempts
     THEN /\ call' = [call EXCEPT ![c] = "first"]
          /\ attempt' = [attempt EXCEPT ![c] = @ + 1]
     ELSE /\ call' = [call EXCEPT ![c] = "rejected"]
          /\ UNCHANGED attempt
  /\ UNCHANGED bound

\* The caller's signal aborts, before the call or while a bind is awaited.
Cancel(c) ==
  /\ call[c] \in {"new", "first", "second"}
  /\ Unwind(c)
  /\ call' = [call EXCEPT ![c] = "rejected"]
  /\ UNCHANGED <<bound, attempt>>

\* A bug: the handle does not remember that it has been disposed.
ReleaseEachTime(c) ==
  /\ call[c] \in {"held", "released"}
  /\ inUse' = inUse \ Block(c, first[c])
  /\ call' = [call EXCEPT ![c] = "released"]
  /\ UNCHANGED <<bound, first, attempt>>

\* The handle's asyncDispose.  It may be called again, when its ports may be
\* somebody else's: the flag of the handle makes that call do nothing.
Release(c) ==
  /\ call[c] \in {"held", "released"}
  /\ inUse' = inUse \ Reserved(c)
  /\ call' = [call EXCEPT ![c] = "released"]
  /\ UNCHANGED <<bound, first, attempt>>

\* Sockets come and go on this machine, on reserved ports too.
SocketOpens(p) ==
  /\ p \notin bound
  /\ bound' = bound \cup {p}
  /\ UNCHANGED <<inUse, call, first, attempt>>

SocketCloses(p) ==
  /\ p \in bound
  /\ bound' = bound \ {p}
  /\ UNCHANGED <<inUse, call, first, attempt>>

Answer(c) == FirstBound(c) \/ SecondBound(c) \/ Retry(c)

AllocatorNext ==
  \/ \E c \in Callers : Reserve(c) \/ Answer(c) \/ Cancel(c) \/ Release(c)
  \/ \E p \in Ports : SocketOpens(p) \/ SocketCloses(p)

AllocatorSpec == AllocatorInit /\ [][AllocatorNext]_allocatorVars

-----------------------------------------------------------------------------
\* A call that has entered a port knows it, and only one that asked for two
\* looks for a second.
FirstKnown ==
  \A c \in Callers :
    /\ call[c] \in {"second", "held"} => first[c] \in Ports /\ Reserved(c) \subseteq Ports
    /\ call[c] = "second" => c \in Pairs

\* The set holds what the handles and the stacks of pending calls stand for,
\* nothing more and nothing less, and no two of them share a port.
EntriesHaveOwners ==
  /\ inUse = UNION {Reserved(c) \cup Deferred(c) : c \in Callers}
  /\ \A c, d \in Callers : c # d =>
       (Reserved(c) \cup Deferred(c)) \cap (Reserved(d) \cup Deferred(d)) = {}

\* The inductive invariant of the allocator.
AllocatorInv == AllocatorTypeOK /\ FirstKnown /\ EntriesHaveOwners

\* Reservations are leases: exclusive, consecutive where asked for, and given
\* back once, with retries, aborts and repeated disposals unseen.
Leases == INSTANCE PortLeases WITH leases <- [c \in Callers |-> Reserved(c)]

ImplementsPortLeases == Leases!Spec
=============================================================================
