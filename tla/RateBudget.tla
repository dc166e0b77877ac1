----------------------------- MODULE RateBudget -----------------------------
(***************************************************************************)
(* The sliding-window rate limiter of src/src/rate-budget.ts, one acquire  *)
(* per element of Calls.  The promise chain #turn is a ticket line: a call *)
(* takes the next ticket when it chains its turn, and its turn may run     *)
(* once every earlier link has settled (served).  The caller's own promise *)
(* (outcome) races the turn against the composed signal, so it may reject  *)
(* while the turn behind it is still in line.                              *)
(*                                                                         *)
(* Time is the clock's.  A delay may fire up to Early ahead of its         *)
(* deadline, as platform timers do against Date.now().                     *)
(***************************************************************************)
EXTENDS Integers, Sequences

CONSTANTS
  Calls,     \* the acquire() calls, each made at most once
  Capacity,  \* most grants inside one trailing window
  Window,    \* length of the trailing window
  Early,     \* how far ahead of its deadline a delay may fire
  LastCall,  \* bound: no acquire() after this instant
  Horizon    \* bound: past it the clock moves only while the window is full

\* The constructor's checks on its options, and the bounds.
ASSUME RateBudgetAssumption ==
  /\ Capacity \in Nat \ {0}
  /\ Window \in Nat \ {0}
  /\ Early \in Nat
  /\ LastCall \in Nat
  /\ Horizon \in Nat

VARIABLES
  now,       \* the clock
  grants,    \* #grants: instants of the grants not yet pruned, oldest first
  issued,    \* links chained onto #turn so far
  served,    \* links of #turn that have settled
  ticket,    \* the call's link in the chain; 0 when it never joined
  turn,      \* what the call's #runTurn is doing
  wake,      \* deadline of the call's clock.delay
  outcome,   \* the promise acquire() returned
  lifetime,  \* has the lifetime signal aborted?
  aborted,   \* has the call's own signal aborted?
  log        \* history: instants of all grants ever pushed

vars == <<now, grants, issued, served, ticket, turn, wake, outcome,
          lifetime, aborted, log>>

Turn     == {"none", "queued", "delaying", "granted", "failed"}
Rejected == {"lifetime", "call", "error"}
Outcome  == {"none", "pending", "resolved"} \cup Rejected

TypeOK ==
  /\ now \in Nat
  /\ grants \in Seq(Nat)
  /\ issued \in Nat
  /\ served \in Nat
  /\ ticket \in [Calls -> Nat]
  /\ turn \in [Calls -> Turn]
  /\ wake \in [Calls -> Nat]
  /\ outcome \in [Calls -> Outcome]
  /\ lifetime \in BOOLEAN
  /\ aborted \in [Calls -> BOOLEAN]
  /\ log \in Seq(Nat)

Init ==
  /\ now = 0
  /\ grants = <<>>
  /\ issued = 0
  /\ served = 0
  /\ ticket = [c \in Calls |-> 0]
  /\ turn = [c \in Calls |-> "none"]
  /\ wake = [c \in Calls |-> 0]
  /\ outcome = [c \in Calls |-> "none"]
  /\ lifetime = FALSE
  /\ aborted = [c \in Calls |-> FALSE]
  /\ log = <<>>

-----------------------------------------------------------------------------
(* The helpers the operations share. *)

\* #throwIfAborted would throw.
Cancelled(c) == lifetime \/ aborted[c]

\* The lifetime signal is consulted first.
Reason(c) == IF lifetime THEN "lifetime" ELSE "call"

\* A bug: prune one instant too soon.
PrunedTooSoon(t) ==
  LET live == {i \in 1..Len(grants) : grants[i] + Window > t + 1}
  IN  IF live = {} THEN <<>>
      ELSE SubSeq(grants, CHOOSE i \in live : \A j \in live : i <= j,
                  Len(grants))

\* #liveGrants: drop everything before the first instant inside the window
\* (all of it when none is).
LiveGrants(t) ==
  LET live == {i \in 1..Len(grants) : grants[i] + Window > t}
  IN  IF live = {} THEN <<>>
      ELSE SubSeq(grants, CHOOSE i \in live : \A j \in live : i <= j,
                  Len(grants))

\* A bug: a ceiling test that lets the grant after the last one through.
HasRoomLoose(live) == Len(live) <= Capacity

HasRoom(live) == Len(live) < Capacity

\* The composed signal fires: the race every pending caller runs is lost to
\* it at once, whatever its turn is doing.
RejectPending(S, reason) ==
  outcome' = [c \in Calls |-> IF c \in S /\ outcome[c] = "pending"
                              THEN reason ELSE outcome[c]]

-----------------------------------------------------------------------------
(* What callers do. *)

\* acquire() on a signal already aborted: it throws and never joins.
AcquireRefused(c) ==
  /\ outcome[c] = "none"
  /\ now <= LastCall
  /\ Cancelled(c)
  /\ outcome' = [outcome EXCEPT ![c] = Reason(c)]
  /\ UNCHANGED <<now, grants, issued, served, ticket, turn, wake, lifetime,
                 aborted, log>>

\* acquire(): chain the turn onto #turn and race it against the signals.
Acquire(c) ==
  /\ outcome[c] = "none"
  /\ now <= LastCall
  /\ ~Cancelled(c)
  /\ issued' = issued + 1
  /\ ticket' = [ticket EXCEPT ![c] = issued + 1]
  /\ turn' = [turn EXCEPT ![c] = "queued"]
  /\ outcome' = [outcome EXCEPT ![c] = "pending"]
  /\ UNCHANGED <<now, grants, served, wake, lifetime, aborted, log>>

\* available: a read that prunes.
Available ==
  /\ grants' = LiveGrants(now)
  /\ UNCHANGED <<now, issued, served, ticket, turn, wake, outcome, lifetime,
                 aborted, log>>

\* A call's signal is read no more once its caller has its answer.
AbortCall(c) ==
  /\ ~aborted[c]
  /\ outcome[c] \in {"none", "pending"}
  /\ aborted' = [aborted EXCEPT ![c] = TRUE]
  /\ RejectPending({c}, "call")
  /\ UNCHANGED <<now, grants, issued, served, ticket, turn, wake, lifetime,
                 log>>

AbortLifetime ==
  /\ ~lifetime
  /\ lifetime' = TRUE
  /\ RejectPending(Calls, "lifetime")
  /\ UNCHANGED <<now, grants, issued, served, ticket, turn, wake, aborted,
                 log>>

-----------------------------------------------------------------------------
(* The turn at the head of the chain. *)

AtHead(c) == ticket[c] = served + 1

\* A bug: the wake from the queue does not look at the signals again.
RunTurnBlind(c) ==
  /\ turn[c] = "queued"
  /\ AtHead(c)
  /\ \/ /\ HasRoom(LiveGrants(now))
        /\ grants' = Append(LiveGrants(now), now)
        /\ log' = Append(log, now)
        /\ turn' = [turn EXCEPT ![c] = "granted"]
        /\ UNCHANGED wake
     \/ /\ ~HasRoom(LiveGrants(now))
        /\ grants' = LiveGrants(now)
        /\ wake' = [wake EXCEPT ![c] = LiveGrants(now)[1] + Window]
        /\ turn' = [turn EXCEPT ![c] = "delaying"]
        /\ UNCHANGED log
  /\ UNCHANGED <<now, issued, served, ticket, outcome, lifetime, aborted>>

\* One pass of #runTurn's loop: give up if aborted, else prune and either
\* take a slot or wait until the oldest grant leaves the window.
RunTurn(c) ==
  /\ turn[c] = "queued"
  /\ AtHead(c)
  /\ \/ /\ Cancelled(c)
        /\ turn' = [turn EXCEPT ![c] = "failed"]
        /\ UNCHANGED <<grants, wake, log>>
     \/ /\ ~Cancelled(c)
        /\ HasRoom(LiveGrants(now))
        /\ grants' = Append(LiveGrants(now), now)
        /\ log' = Append(log, now)
        /\ turn' = [turn EXCEPT ![c] = "granted"]
        /\ UNCHANGED wake
     \/ /\ ~Cancelled(c)
        /\ ~HasRoom(LiveGrants(now))
        /\ grants' = LiveGrants(now)
        /\ wake' = [wake EXCEPT ![c] = LiveGrants(now)[1] + Window]
        /\ turn' = [turn EXCEPT ![c] = "delaying"]
        /\ UNCHANGED log
  /\ UNCHANGED <<now, issued, served, ticket, outcome, lifetime, aborted>>

\* The delay fires and the loop runs again.
DelayFires(c) ==
  /\ turn[c] = "delaying"
  /\ now + Early >= wake[c]
  /\ turn' = [turn EXCEPT ![c] = "queued"]
  /\ wake' = [wake EXCEPT ![c] = 0]
  /\ UNCHANGED <<now, grants, issued, served, ticket, outcome, lifetime,
                 aborted, log>>

\* The delay rejects because a signal aborted; the reason is restored.
DelayAborted(c) ==
  /\ turn[c] = "delaying"
  /\ Cancelled(c)
  /\ turn' = [turn EXCEPT ![c] = "failed"]
  /\ wake' = [wake EXCEPT ![c] = 0]
  /\ UNCHANGED <<now, grants, issued, served, ticket, outcome, lifetime,
                 aborted, log>>

\* The injected clock's delay fails by itself, with no signal aborted.
DelayBroken(c) ==
  /\ turn[c] = "delaying"
  /\ ~Cancelled(c)
  /\ turn' = [turn EXCEPT ![c] = "failed"]
  /\ wake' = [wake EXCEPT ![c] = 0]
  /\ UNCHANGED <<now, grants, issued, served, ticket, outcome, lifetime,
                 aborted, log>>

\* A bug: only a turn that succeeded hands the line on.
HandOverIfGranted(c) ==
  /\ turn[c] = "granted"
  /\ AtHead(c)
  /\ served' = served + 1
  /\ UNCHANGED <<now, grants, issued, ticket, turn, wake, outcome, lifetime,
                 aborted, log>>

\* The call's link settles, however its turn ended, and the next may start.
HandOver(c) ==
  /\ turn[c] \in {"granted", "failed"}
  /\ AtHead(c)
  /\ served' = served + 1
  /\ UNCHANGED <<now, grants, issued, ticket, turn, wake, outcome, lifetime,
                 aborted, log>>

\* The turn's result reaches the caller, unless an abort got there first.
Settle(c) ==
  /\ turn[c] \in {"granted", "failed"}
  /\ outcome[c] = "pending"
  /\ outcome' = [outcome EXCEPT ![c] = IF turn[c] = "granted"
                                      THEN "resolved" ELSE "error"]
  /\ UNCHANGED <<now, grants, issued, served, ticket, turn, wake, lifetime,
                 aborted, log>>

\* The clock moves.  Past Horizon it moves only while the window is full.
Tick ==
  /\ now < Horizon \/ ~HasRoom(LiveGrants(now))
  /\ now' = now + 1
  /\ UNCHANGED <<grants, issued, served, ticket, turn, wake, outcome,
                 lifetime, aborted, log>>

-----------------------------------------------------------------------------
\* What the runtime drives by itself.
Run(c) == \/ RunTurn(c) \/ DelayFires(c) \/ DelayAborted(c)
          \/ HandOver(c) \/ Settle(c)

Next == \/ \E c \in Calls : \/ Acquire(c) \/ AcquireRefused(c)
                            \/ AbortCall(c) \/ DelayBroken(c) \/ Run(c)
        \/ AbortLifetime \/ Available \/ Tick

Spec == Init /\ [][Next]_vars

\* Promise reactions and expired timers are run by the event loop, and the
\* clock advances.  Nothing obliges a caller to call or to abort.
FairSpec == Spec /\ WF_vars(Tick) /\ \A c \in Calls : WF_vars(Run(c))

-----------------------------------------------------------------------------
(* The inductive invariant, in named parts. *)

\* The log of all grants never runs backwards nor ahead of the clock.
LogOrdered ==
  /\ \A i, j \in 1..Len(log) : i <= j => log[i] <= log[j]
  /\ \A i \in 1..Len(log) : log[i] <= now

\* #grants is the tail of that log, and what was pruned from it has left
\* the window for good.
GrantsAreRecentLog ==
  /\ Len(grants) <= Capacity
  /\ Len(grants) <= Len(log)
  /\ \A i \in 1..Len(grants) :
        grants[i] = log[Len(log) - Len(grants) + i]
  /\ \A i \in 1..Len(log) - Len(grants) : log[i] + Window <= now

\* Never more than Capacity grants inside any trailing window, over the
\* budget's whole life: Capacity grants later is at least Window later.
WindowBound ==
  \A i \in 1..Len(log) :
    i + Capacity <= Len(log) => log[i] + Window <= log[i + Capacity]

\* The promise chain: links are numbered in call order, everything in front
\* of the head is over, everything behind it has not started, and a turn
\* gives up only when its caller was told or is about to be.
ChainOrdered ==
  /\ served <= issued
  /\ \A c \in Calls :
       /\ ticket[c] <= issued
       /\ ticket[c] = 0 <=> turn[c] = "none"
       /\ ticket[c] \in 1..served => turn[c] \in {"granted", "failed"}
       /\ ticket[c] > served + 1 => turn[c] = "queued"
       /\ outcome[c] \in {"pending", "resolved", "error"} => ticket[c] > 0
       /\ outcome[c] = "none" => turn[c] = "none"
       /\ outcome[c] = "resolved" => turn[c] = "granted"
       /\ outcome[c] = "error" => turn[c] = "failed"
       /\ outcome[c] \in {"lifetime", "call"} => Cancelled(c)
       /\ outcome[c] = "pending" => ~Cancelled(c)
  /\ \A c, d \in Calls : ticket[c] = ticket[d] /\ c # d => ticket[c] = 0

\* The inductive invariant: types, log, pruned log, ceiling and chain.
IInv == /\ TypeOK
        /\ LogOrdered
        /\ GrantsAreRecentLog
        /\ WindowBound
        /\ ChainOrdered

-----------------------------------------------------------------------------
(* What a step may never do, and what must happen. *)

\* A caller that was rejected before its turn took a slot never takes one
\* later: "an aborted waiter consumes no slot", for every abort that lands
\* before the turn's grant.  (An abort that lands between the grant and the
\* caller's resumption rejects a caller whose slot is already spent.)
RejectedTakesNoSlot ==
  \A c \in Calls : outcome[c] \in Rejected /\ turn[c] # "granted"
                    => turn'[c] # "granted"

NoSlotAfterRejection == [][RejectedTakesNoSlot]_vars

\* Every acquire() settles, whoever aborts, fails or gives up in front of
\* it: the chain is never stalled or poisoned.
EveryCallSettles ==
  \A c \in Calls : outcome[c] = "pending" ~> outcome[c] # "pending"

\* The budget is the abstract first-come-first-served sliding window.
AbstractStatus ==
  [c \in Calls |->
     IF turn[c] = "granted" THEN "granted"
     ELSE IF turn[c] = "failed" \/ outcome[c] \in Rejected THEN "gone"
     ELSE IF outcome[c] = "pending" THEN "waiting"
     ELSE "new"]

SW == INSTANCE SlidingWindow WITH status <- AbstractStatus, place <- ticket

\* Grants are issued in call order, only when the window has room, and only
\* to calls still waiting.
ImplementsSlidingWindow == SW!Spec
=============================================================================
