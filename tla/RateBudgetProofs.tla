-------------------------- MODULE RateBudgetProofs --------------------------
(***************************************************************************)
(* The rate budget keeps its ceiling, and implements the sliding window,   *)
(* for every capacity, window and set of calls.                            *)
(***************************************************************************)
EXTENDS RateBudget, SequenceTheorems, WellFoundedInduction, TLAPS

USE DEF Turn, Outcome, Rejected

\* Every non-empty set of naturals has a least element.
LEMMA LeastNat ==
  ASSUME NEW T \in SUBSET Nat, T # {}
  PROVE  \E x \in T : \A y \in T : x <= y
<1> DEFINE R == OpToRel(<, Nat)
<1>1. \E x \in T : \A y \in T : ~ (<<y, x>> \in R)
  BY NatLessThanWellFounded, WFMin
<1>2. PICK x \in T : \A y \in T : ~ (<<y, x>> \in R)
  BY <1>1
<1>3. \A y \in T : ~ (y < x)
  BY <1>2 DEF OpToRel
<1>4. QED
  BY <1>3

\* What #liveGrants leaves: a tail of #grants, with nothing live cut off and
\* a live grant in front.
LEMMA LiveGrantsTail ==
  ASSUME NEW t \in Nat, grants \in Seq(Nat), Window \in Nat
  PROVE  LET g == LiveGrants(t)
             cut == Len(grants) - Len(g)
         IN  /\ g \in Seq(Nat)
             /\ Len(g) \in Nat
             /\ cut \in Nat
             /\ \A i \in 1..Len(g) : g[i] = grants[cut + i]
             /\ \A i \in 1..cut : grants[i] + Window <= t
             /\ Len(g) > 0 => g[1] + Window > t
<1> DEFINE live == {i \in 1..Len(grants) : grants[i] + Window > t}
           g == LiveGrants(t)
<1>1. Len(grants) \in Nat /\ \A i \in 1..Len(grants) : grants[i] \in Nat
  BY LenProperties
<1>2. CASE live = {}
  <2>1. g = <<>>
    BY <1>2 DEF LiveGrants
  <2>2. \A i \in 1..Len(grants) : grants[i] + Window <= t
    BY <1>1, <1>2
  <2>3. QED
    BY <2>1, <2>2, <1>1
<1>3. CASE live # {}
  <2> DEFINE m == CHOOSE i \in live : \A j \in live : i <= j
  <2>1. m \in live /\ \A j \in live : m <= j
    <3>1. live \in SUBSET Nat
      BY <1>1
    <3>2. \E i \in live : \A j \in live : i <= j
      BY <3>1, <1>3, LeastNat
    <3>3. QED
      BY <3>2
  <2>2. m \in 1..Len(grants) /\ grants[m] + Window > t
    BY <2>1
  <2>3. g = SubSeq(grants, m, Len(grants))
    BY <1>3 DEF LiveGrants
  <2> HIDE DEF m
  <2>4. \A i \in m..Len(grants) : grants[i] \in Nat
    BY <1>1, <2>2
  <2>5. /\ g \in Seq(Nat)
        /\ Len(g) = Len(grants) - m + 1
        /\ \A i \in 1..Len(grants) - m + 1 : g[i] = grants[m + i - 1]
    <3>1. m \in Int /\ Len(grants) \in Int /\ m <= Len(grants)
      BY <1>1, <2>2
    <3> HIDE DEF g
    <3>2. QED
      BY <2>3, <2>4, <3>1, SubSeqProperties
  <2>6. \A i \in 1..m - 1 : grants[i] + Window <= t
    BY <1>1, <2>1, <2>2
  <2> HIDE DEF g
  <2>7. Len(grants) - Len(g) = m - 1
    BY <1>1, <2>2, <2>5
  <2>8. Len(g) \in Nat /\ Len(g) > 0
    BY <1>1, <2>2, <2>5
  <2>9. g[1] = grants[m]
    BY <1>1, <2>2, <2>5, <2>8
  <2>10. \A i \in 1..Len(g) : g[i] = grants[Len(grants) - Len(g) + i]
    BY <1>1, <2>2, <2>5, <2>7
  <2>11. Len(grants) - Len(g) \in Nat
    BY <1>1, <2>2, <2>7
  <2>12. QED
    BY <2>2, <2>5, <2>6, <2>7, <2>8, <2>9, <2>10, <2>11 DEF g
<1>4. QED
  BY <1>2, <1>3

-----------------------------------------------------------------------------
(* Types. *)

LEMMA InitType == Init => TypeOK
<1> SUFFICES ASSUME Init PROVE TypeOK
  OBVIOUS
<1>1. <<>> \in Seq(Nat)
  BY EmptySeq
<1>2. aborted \in [Calls -> BOOLEAN] /\ lifetime \in BOOLEAN
  BY Zenon DEF Init
<1>3. /\ ticket \in [Calls -> Nat] /\ wake \in [Calls -> Nat]
      /\ turn \in [Calls -> Turn] /\ outcome \in [Calls -> Outcome]
      /\ now \in Nat /\ issued \in Nat /\ served \in Nat
      /\ grants = <<>> /\ log = <<>>
  BY DEF Init
<1>4. QED
  BY <1>1, <1>2, <1>3 DEF TypeOK

LEMMA RunTurnType ==
  ASSUME TypeOK, NEW c \in Calls, RunTurn(c)
  PROVE  TypeOK'
<1> USE RateBudgetAssumption DEF TypeOK
<1> DEFINE g == LiveGrants(now)
<1>1. /\ g \in Seq(Nat) /\ Len(g) \in Nat
      /\ \A i \in 1..Len(g) : g[i] \in Nat
  <2>1. g \in Seq(Nat)
    BY LiveGrantsTail
  <2> HIDE DEF g
  <2>2. QED
    BY <2>1, LenProperties
<1>2. Append(g, now) \in Seq(Nat) /\ Append(log, now) \in Seq(Nat)
  BY <1>1, AppendProperties
<1>3. CASE Cancelled(c)
  BY <1>3 DEF RunTurn
<1>4. CASE ~Cancelled(c) /\ HasRoom(g)
  BY <1>2, <1>4 DEF RunTurn
<1>5. CASE ~Cancelled(c) /\ ~HasRoom(g)
  <2>1. Len(g) >= 1
    BY <1>1, <1>5 DEF HasRoom
  <2>2. g[1] \in Nat
    BY <1>1, <2>1
  <2> HIDE DEF g
  <2>3. g[1] + Window \in Nat
    BY <2>2
  <2>4. /\ grants' = g
        /\ wake' = [wake EXCEPT ![c] = g[1] + Window]
        /\ turn' = [turn EXCEPT ![c] = "delaying"]
        /\ UNCHANGED <<now, issued, served, ticket, outcome, lifetime,
                       aborted, log>>
    BY <1>5 DEF RunTurn, g
  <2>5. QED
    BY <1>1, <2>3, <2>4
<1>6. QED
  BY <1>3, <1>4, <1>5

LEMMA StepType == TypeOK /\ [Next]_vars => TypeOK'
<1> SUFFICES ASSUME TypeOK, [Next]_vars PROVE TypeOK'
  OBVIOUS
<1>1. ASSUME NEW c \in Calls, Acquire(c) PROVE TypeOK'
  BY <1>1 DEF Acquire, TypeOK
<1>2. ASSUME NEW c \in Calls, AcquireRefused(c) PROVE TypeOK'
  BY <1>2 DEF AcquireRefused, TypeOK, Reason
<1>3. ASSUME NEW c \in Calls, AbortCall(c) PROVE TypeOK'
  BY <1>3 DEF AbortCall, TypeOK, RejectPending
<1>4. ASSUME NEW c \in Calls, RunTurn(c) PROVE TypeOK'
  BY <1>4, RunTurnType
<1>5. ASSUME NEW c \in Calls, DelayFires(c) PROVE TypeOK'
  BY <1>5 DEF DelayFires, TypeOK
<1>6. ASSUME NEW c \in Calls, DelayAborted(c) PROVE TypeOK'
  BY <1>6 DEF DelayAborted, TypeOK
<1>7. ASSUME NEW c \in Calls, DelayBroken(c) PROVE TypeOK'
  BY <1>7 DEF DelayBroken, TypeOK
<1>8. ASSUME NEW c \in Calls, HandOver(c) PROVE TypeOK'
  BY <1>8 DEF HandOver, TypeOK
<1>9. ASSUME NEW c \in Calls, Settle(c) PROVE TypeOK'
  BY <1>9 DEF Settle, TypeOK
<1>10. CASE AbortLifetime
  BY <1>10 DEF AbortLifetime, TypeOK, RejectPending
<1>11. CASE Available
  <2>1. LiveGrants(now) \in Seq(Nat)
    BY LiveGrantsTail, RateBudgetAssumption DEF TypeOK
  <2>2. QED
    BY <1>11, <2>1 DEF Available, TypeOK
<1>12. CASE Tick
  BY <1>12 DEF Tick, TypeOK
<1>13. CASE UNCHANGED vars
  BY <1>13 DEF vars, TypeOK
<1>14. QED
  BY <1>1, <1>2, <1>3, <1>4, <1>5, <1>6, <1>7, <1>8, <1>9, <1>10, <1>11,
     <1>12, <1>13 DEF Next, Run

-----------------------------------------------------------------------------
(* The log and its pruned tail. *)

\* Pruning at the current instant keeps #grants the recent tail of the log.
LEMMA PruneKeepsTail ==
  ASSUME TypeOK, GrantsAreRecentLog
  PROVE  LET g == LiveGrants(now)
             cut == Len(log) - Len(g)
         IN  /\ g \in Seq(Nat)
             /\ Len(g) \in Nat
             /\ Len(g) <= Capacity
             /\ cut \in Nat
             /\ \A i \in 1..Len(g) : g[i] = log[cut + i]
             /\ \A i \in 1..cut : log[i] + Window <= now
<1> DEFINE g == LiveGrants(now)
           old == Len(log) - Len(grants)
<1>1. /\ Len(log) \in Nat /\ Len(grants) \in Nat
      /\ \A i \in 1..Len(log) : log[i] \in Nat
      /\ now \in Nat /\ Window \in Nat /\ Capacity \in Nat
  BY LenProperties, RateBudgetAssumption DEF TypeOK
<1>2. /\ g \in Seq(Nat)
      /\ Len(g) \in Nat
      /\ Len(grants) - Len(g) \in Nat
      /\ \A i \in 1..Len(g) : g[i] = grants[Len(grants) - Len(g) + i]
      /\ \A i \in 1..Len(grants) - Len(g) : grants[i] + Window <= now
  BY LiveGrantsTail, RateBudgetAssumption DEF TypeOK
<1> HIDE DEF g
<1>3. /\ Len(grants) <= Capacity /\ old \in Nat
      /\ \A i \in 1..Len(grants) : grants[i] = log[old + i]
      /\ \A i \in 1..old : log[i] + Window <= now
  BY <1>1 DEF GrantsAreRecentLog
<1>4. Len(g) <= Capacity /\ Len(log) - Len(g) \in Nat
  BY <1>1, <1>2, <1>3
<1>5. ASSUME NEW i \in 1..Len(g)
      PROVE  g[i] = log[Len(log) - Len(g) + i]
  <2>1. Len(grants) - Len(g) + i \in 1..Len(grants)
    BY <1>1, <1>2
  <2>2. grants[Len(grants) - Len(g) + i]
          = log[old + (Len(grants) - Len(g) + i)]
    BY <1>3, <2>1
  <2>3. old + (Len(grants) - Len(g) + i) = Len(log) - Len(g) + i
    BY <1>1, <1>2
  <2>4. QED
    BY <1>2, <2>2, <2>3
<1>6. ASSUME NEW i \in 1..Len(log) - Len(g)
      PROVE  log[i] + Window <= now
  <2>1. CASE i <= old
    BY <1>1, <1>2, <1>3, <2>1
  <2>2. CASE i > old
    <3>1. i - old \in 1..Len(grants) - Len(g)
      BY <1>1, <1>2, <1>3, <2>2
    <3>2. grants[i - old] + Window <= now
      BY <1>2, <3>1
    <3>3. i - old \in 1..Len(grants)
      BY <1>1, <1>2, <3>1
    <3>4. grants[i - old] = log[old + (i - old)]
      BY <1>3, <3>3
    <3>5. old + (i - old) = i
      BY <1>1, <1>2
    <3>6. QED
      BY <3>2, <3>4, <3>5
  <2>3. QED
    BY <1>1, <1>2, <1>3, <2>1, <2>2
<1>7. QED
  BY <1>2, <1>4, <1>5, <1>6 DEF g

LogInv == LogOrdered /\ GrantsAreRecentLog /\ WindowBound

\* A step of the log: a grant, a pruning, a tick, or none of them.
GrantNow == /\ HasRoom(LiveGrants(now))
            /\ grants' = Append(LiveGrants(now), now)
            /\ log' = Append(log, now)
            /\ now' = now
PruneNow == grants' = LiveGrants(now) /\ log' = log /\ now' = now
ClockNow == grants' = grants /\ log' = log /\ now' = now + 1
LogStill == grants' = grants /\ log' = log /\ now' = now

\* Every step is one of the four to the log.
LEMMA LogSteps ==
  [Next]_vars => GrantNow \/ PruneNow \/ ClockNow \/ LogStill
<1> SUFFICES ASSUME [Next]_vars
             PROVE  GrantNow \/ PruneNow \/ ClockNow \/ LogStill
  OBVIOUS
<1>1. ASSUME NEW c \in Calls, RunTurn(c)
      PROVE  GrantNow \/ PruneNow \/ LogStill
  BY <1>1 DEF RunTurn, GrantNow, PruneNow, LogStill
<1>2. ASSUME NEW c \in Calls,
             \/ Acquire(c) \/ AcquireRefused(c) \/ AbortCall(c)
             \/ DelayFires(c) \/ DelayAborted(c) \/ DelayBroken(c)
             \/ HandOver(c) \/ Settle(c)
      PROVE  LogStill
  BY <1>2 DEF Acquire, AcquireRefused, AbortCall, DelayFires, DelayAborted,
              DelayBroken, HandOver, Settle, LogStill
<1>3. CASE AbortLifetime
  BY <1>3 DEF AbortLifetime, LogStill
<1>4. CASE Available
  BY <1>4 DEF Available, PruneNow
<1>5. CASE Tick
  BY <1>5 DEF Tick, ClockNow
<1>6. CASE UNCHANGED vars
  BY <1>6 DEF vars, LogStill
<1>7. QED
  BY <1>1, <1>2, <1>3, <1>4, <1>5, <1>6 DEF Next, Run

\* A grant keeps the ceiling: the grant Capacity places back has already
\* been pruned, so it is at least Window old.
LEMMA GrantKeepsLog ==
  ASSUME TypeOK, LogInv, GrantNow
  PROVE  LogInv'
<1> DEFINE g == LiveGrants(now)
           n == Len(log)
<1>1. /\ n \in Nat /\ now \in Nat /\ Window \in Nat
      /\ Capacity \in Nat /\ Capacity > 0
      /\ \A i \in 1..n : log[i] \in Nat
  BY LenProperties, RateBudgetAssumption DEF TypeOK
<1>2. /\ g \in Seq(Nat)
      /\ Len(g) \in Nat
      /\ n - Len(g) \in Nat
      /\ \A i \in 1..Len(g) : g[i] = log[n - Len(g) + i]
      /\ \A i \in 1..n - Len(g) : log[i] + Window <= now
  BY PruneKeepsTail DEF LogInv
<1>3. Len(g) < Capacity
  BY DEF GrantNow, HasRoom
<1>4. /\ grants' = Append(g, now) /\ now' = now
      /\ log' \in Seq(Nat) /\ Len(log') = n + 1
      /\ \A i \in 1..n : log'[i] = log[i]
      /\ log'[n + 1] = now
  BY <1>1, AppendProperties DEF GrantNow, TypeOK
<1> HIDE DEF g
<1>5. /\ Len(grants') = Len(g) + 1
      /\ \A i \in 1..Len(g) : grants'[i] = g[i]
      /\ grants'[Len(g) + 1] = now
  BY <1>1, <1>2, <1>4, AppendProperties
<1>6. LogOrdered'
  <2>1. /\ \A i, j \in 1..n : i <= j => log[i] <= log[j]
        /\ \A i \in 1..n : log[i] <= now
    BY DEF LogInv, LogOrdered
  <2>2. \A i \in 1..n + 1 : log'[i] <= now
    BY <1>1, <1>4, <2>1
  <2>3. ASSUME NEW i \in 1..n + 1, NEW j \in 1..n + 1, i <= j
        PROVE  log'[i] <= log'[j]
    <3>1. CASE j = n + 1
      BY <1>4, <2>2, <3>1
    <3>2. CASE j # n + 1
      <4>1. i \in 1..n /\ j \in 1..n
        BY <1>1, <2>3, <3>2
      <4>2. log[i] <= log[j]
        BY <2>1, <2>3, <4>1
      <4>3. QED
        BY <1>4, <4>1, <4>2
    <3>3. QED
      BY <3>1, <3>2
  <2>4. QED
    BY <1>4, <2>2, <2>3 DEF LogOrdered
<1>7. GrantsAreRecentLog'
  <2>1. /\ Len(grants') <= Capacity
        /\ Len(grants') <= Len(log')
        /\ Len(log') - Len(grants') = n - Len(g)
    BY <1>1, <1>2, <1>3, <1>4, <1>5
  <2>2. ASSUME NEW i \in 1..Len(g) + 1
        PROVE  grants'[i] = log'[n - Len(g) + i]
    <3>1. CASE i = Len(g) + 1
      BY <1>1, <1>2, <1>4, <1>5, <3>1
    <3>2. CASE i # Len(g) + 1
      <4>1. i \in 1..Len(g) /\ n - Len(g) + i \in 1..n
        BY <1>1, <1>2, <3>2
      <4>2. QED
        BY <1>2, <1>4, <1>5, <4>1
    <3>3. QED
      BY <3>1, <3>2
  <2>3. ASSUME NEW i \in 1..n - Len(g)
        PROVE  log'[i] + Window <= now
    <3>1. i \in 1..n
      BY <1>1, <1>2
    <3>2. QED
      BY <1>2, <1>4, <3>1
  <2>4. QED
    BY <1>4, <1>5, <2>1, <2>2, <2>3 DEF GrantsAreRecentLog
<1>8. WindowBound'
  <2>1. ASSUME NEW i \in 1..n + 1, i + Capacity <= n + 1
        PROVE  log'[i] + Window <= log'[i + Capacity]
    <3>1. CASE i + Capacity <= n
      <4>1. i \in 1..n /\ i + Capacity \in 1..n
        BY <1>1, <3>1
      <4>2. log[i] + Window <= log[i + Capacity]
        BY <3>1, <4>1 DEF LogInv, WindowBound
      <4>3. QED
        BY <1>4, <4>1, <4>2
    <3>2. CASE i + Capacity = n + 1
      <4>1. i \in 1..n - Len(g) /\ i \in 1..n
        BY <1>1, <1>2, <1>3, <3>2
      <4>2. log[i] + Window <= now
        BY <1>2, <4>1
      <4>3. QED
        BY <1>4, <3>2, <4>1, <4>2
    <3>3. QED
      BY <1>1, <2>1, <3>1, <3>2
  <2>2. QED
    BY <1>4, <2>1 DEF WindowBound
<1>9. QED
  BY <1>6, <1>7, <1>8 DEF LogInv

LEMMA StepLog == TypeOK /\ LogInv /\ [Next]_vars => LogInv'
<1> SUFFICES ASSUME TypeOK, LogInv, [Next]_vars PROVE LogInv'
  OBVIOUS
<1>1. CASE GrantNow
  BY <1>1, GrantKeepsLog
<1>2. CASE PruneNow
  <2> DEFINE g == LiveGrants(now)
  <2>1. /\ Len(g) \in Nat
        /\ Len(g) <= Capacity
        /\ Len(log) - Len(g) \in Nat
        /\ \A i \in 1..Len(g) : g[i] = log[Len(log) - Len(g) + i]
        /\ \A i \in 1..Len(log) - Len(g) : log[i] + Window <= now
    BY PruneKeepsTail DEF LogInv
  <2>2. grants' = g /\ log' = log /\ now' = now
    BY <1>2 DEF PruneNow
  <2>3. Len(log) \in Nat
    BY LenProperties DEF TypeOK
  <2> HIDE DEF g
  <2>4. GrantsAreRecentLog'
    BY <2>1, <2>2, <2>3 DEF GrantsAreRecentLog
  <2>5. QED
    BY <2>2, <2>4 DEF LogInv, LogOrdered, WindowBound
<1>3. CASE ClockNow
  <2>1. now \in Nat /\ Window \in Nat /\ Len(log) \in Nat
        /\ \A i \in 1..Len(log) : log[i] \in Nat
    BY LenProperties, RateBudgetAssumption DEF TypeOK
  <2>2. Len(grants) \in Nat
    BY LenProperties DEF TypeOK
  <2>3. \A i \in 1..Len(log) - Len(grants) : i \in 1..Len(log)
    BY <2>1, <2>2
  <2>4. QED
    BY <1>3, <2>1, <2>2, <2>3
    DEF ClockNow, LogInv, LogOrdered, GrantsAreRecentLog, WindowBound
<1>4. CASE LogStill
  BY <1>4 DEF LogStill, LogInv, LogOrdered, GrantsAreRecentLog, WindowBound
<1>5. QED
  BY <1>1, <1>2, <1>3, <1>4, LogSteps

-----------------------------------------------------------------------------
(* The chain. *)

\* Joining takes the next ticket, behind all others.
LEMMA AcquireKeepsChain ==
  ASSUME TypeOK, ChainOrdered, NEW c \in Calls, Acquire(c)
  PROVE  ChainOrdered'
<1>1. /\ turn[c] = "none" /\ ticket[c] = 0
  BY DEF Acquire, ChainOrdered
<1>2. /\ ticket' = [ticket EXCEPT ![c] = issued + 1]
      /\ turn' = [turn EXCEPT ![c] = "queued"]
      /\ outcome' = [outcome EXCEPT ![c] = "pending"]
      /\ issued' = issued + 1 /\ served' = served
      /\ ~Cancelled(c)
      /\ \A d \in Calls : Cancelled(d)' = Cancelled(d)
  BY DEF Acquire, Cancelled
<1>3. issued \in Nat /\ served \in Nat /\ ticket \in [Calls -> Nat]
      /\ turn \in [Calls -> Turn] /\ outcome \in [Calls -> Outcome]
  BY DEF TypeOK
<1>4. QED
  BY <1>1, <1>2, <1>3 DEF ChainOrdered

\* The head's turn changes, its place does not.
LEMMA TurnKeepsChain ==
  ASSUME TypeOK, ChainOrdered, NEW c \in Calls,
         \/ AtHead(c) /\ turn[c] = "queued"
         \/ turn[c] = "delaying",
         NEW w \in {"queued", "delaying", "granted", "failed"},
         turn' = [turn EXCEPT ![c] = w],
         UNCHANGED <<issued, served, ticket, outcome, lifetime, aborted>>
  PROVE  ChainOrdered'
<1>3. issued \in Nat /\ served \in Nat /\ ticket \in [Calls -> Nat]
      /\ turn \in [Calls -> Turn] /\ outcome \in [Calls -> Outcome]
  BY DEF TypeOK
<1>1. ticket[c] = served + 1 /\ outcome[c] # "resolved"
  <2>1. CASE turn[c] = "delaying"
    <3>1. /\ ticket[c] # 0 /\ ~(ticket[c] \in 1..served)
          /\ ~(ticket[c] > served + 1) /\ outcome[c] # "resolved"
      BY <2>1 DEF ChainOrdered
    <3>2. ticket[c] \in Nat
      BY <1>3
    <3>3. QED
      BY <1>3, <3>1, <3>2
  <2>2. CASE AtHead(c) /\ turn[c] = "queued"
    BY <2>2 DEF AtHead, ChainOrdered
  <2>3. QED
    BY <2>1, <2>2
<1>2. \A d \in Calls : Cancelled(d)' = Cancelled(d)
  BY DEF Cancelled
<1>4. QED
  BY <1>1, <1>2, <1>3 DEF ChainOrdered

LEMMA StepChain ==
  TypeOK /\ ChainOrdered /\ [Next]_vars => ChainOrdered'
<1> SUFFICES ASSUME TypeOK, ChainOrdered, [Next]_vars PROVE ChainOrdered'
  OBVIOUS
<1>0. issued \in Nat /\ served \in Nat /\ ticket \in [Calls -> Nat]
      /\ turn \in [Calls -> Turn] /\ outcome \in [Calls -> Outcome]
  BY DEF TypeOK
<1>1. ASSUME NEW c \in Calls, Acquire(c) PROVE ChainOrdered'
  BY <1>1, AcquireKeepsChain
<1>2. ASSUME NEW c \in Calls, AcquireRefused(c) PROVE ChainOrdered'
  <2>1. /\ turn[c] = "none"
        /\ outcome' = [outcome EXCEPT ![c] = Reason(c)]
        /\ Reason(c) \in {"lifetime", "call"}
        /\ Cancelled(c)
        /\ UNCHANGED <<issued, served, ticket, turn>>
        /\ \A d \in Calls : Cancelled(d)' = Cancelled(d)
    BY <1>2 DEF AcquireRefused, ChainOrdered, Reason, Cancelled
  <2>2. QED
    BY <1>0, <2>1 DEF ChainOrdered
<1>3. ASSUME NEW c \in Calls, AbortCall(c) PROVE ChainOrdered'
  <2>1. /\ outcome' = [d \in Calls |->
                         IF d \in {c} /\ outcome[d] = "pending"
                         THEN "call" ELSE outcome[d]]
        /\ UNCHANGED <<issued, served, ticket, turn, lifetime>>
        /\ \A d \in Calls : d # c => Cancelled(d)' = Cancelled(d)
    BY <1>3 DEF AbortCall, RejectPending, Cancelled, TypeOK
  <2>2. Cancelled(c)'
    <3>1. aborted \in [Calls -> BOOLEAN]
      BY DEF TypeOK
    <3>2. aborted'[c] = TRUE
      BY <1>3, <3>1, Zenon DEF AbortCall
    <3>3. QED
      BY <3>2 DEF Cancelled
  <2>3. QED
    BY <1>0, <2>1, <2>2 DEF ChainOrdered
<1>4. ASSUME NEW c \in Calls, RunTurn(c) PROVE ChainOrdered'
  BY <1>4, TurnKeepsChain DEF RunTurn
<1>5. ASSUME NEW c \in Calls,
             DelayFires(c) \/ DelayAborted(c) \/ DelayBroken(c)
      PROVE  ChainOrdered'
  BY <1>5, TurnKeepsChain DEF DelayFires, DelayAborted, DelayBroken
<1>6. ASSUME NEW c \in Calls, HandOver(c) PROVE ChainOrdered'
  <2>1. /\ turn[c] \in {"granted", "failed"}
        /\ ticket[c] = served + 1
        /\ served' = served + 1
        /\ UNCHANGED <<issued, ticket, turn, outcome>>
        /\ \A d \in Calls : Cancelled(d)' = Cancelled(d)
    BY <1>6 DEF HandOver, AtHead, Cancelled
  <2>2. served + 1 <= issued
    BY <1>0, <2>1 DEF ChainOrdered
  <2>3. ASSUME NEW d \in Calls, ticket[d] \in 1..served + 1
        PROVE  turn[d] \in {"granted", "failed"}
    <3>1. CASE ticket[d] = served + 1
      <4>1. d = c
        BY <1>0, <2>1, <3>1 DEF ChainOrdered
      <4>2. QED
        BY <2>1, <4>1
    <3>2. CASE ticket[d] # served + 1
      BY <1>0, <2>3, <3>2 DEF ChainOrdered
    <3>3. QED
      BY <3>1, <3>2
  <2>4. QED
    BY <1>0, <2>1, <2>2, <2>3 DEF ChainOrdered
<1>7. ASSUME NEW c \in Calls, Settle(c) PROVE ChainOrdered'
  <2>1. /\ turn[c] \in {"granted", "failed"}
        /\ outcome' = [outcome EXCEPT ![c] =
                         IF turn[c] = "granted" THEN "resolved" ELSE "error"]
        /\ UNCHANGED <<issued, served, ticket, turn>>
        /\ \A d \in Calls : Cancelled(d)' = Cancelled(d)
        /\ ticket[c] > 0
    BY <1>7, <1>0 DEF Settle, Cancelled, ChainOrdered
  <2>2. QED
    BY <1>0, <2>1 DEF ChainOrdered
<1>8. CASE AbortLifetime
  <2>1. /\ outcome' = [d \in Calls |->
                         IF d \in Calls /\ outcome[d] = "pending"
                         THEN "lifetime" ELSE outcome[d]]
        /\ UNCHANGED <<issued, served, ticket, turn>>
    BY <1>8 DEF AbortLifetime, RejectPending
  <2>2. \A d \in Calls : Cancelled(d)'
    BY <1>8 DEF AbortLifetime, Cancelled
  <2>3. QED
    BY <1>0, <2>1, <2>2 DEF ChainOrdered
<1>9. CASE Available \/ Tick \/ UNCHANGED vars
  BY <1>9 DEF Available, Tick, vars, ChainOrdered, Cancelled
<1>10. QED
  BY <1>1, <1>2, <1>3, <1>4, <1>5, <1>6, <1>7, <1>8, <1>9 DEF Next, Run

-----------------------------------------------------------------------------
(* The theorems. *)

LEMMA InitInv == Init => IInv
<1> SUFFICES ASSUME Init PROVE IInv
  OBVIOUS
<1>1. TypeOK
  BY InitType
<1>2. LogOrdered /\ GrantsAreRecentLog /\ WindowBound
  BY RateBudgetAssumption
  DEF Init, LogOrdered, GrantsAreRecentLog, WindowBound
<1>3. ChainOrdered
  BY DEF Init, ChainOrdered
<1>4. QED
  BY <1>1, <1>2, <1>3 DEF IInv

\* The budget's inductive invariant holds in every reachable state, for
\* every capacity, window and set of calls.
THEOREM BudgetInvariant == Spec => []IInv
<1>1. IInv /\ [Next]_vars => IInv'
  BY StepType, StepLog, StepChain DEF IInv, LogInv
<1>2. QED
  BY InitInv, <1>1, PTL DEF Spec

\* The ceiling of the class: no trailing window ever holds more than
\* Capacity grants.
THEOREM Ceiling == Spec => []WindowBound
<1>1. IInv => WindowBound
  BY DEF IInv
<1>2. QED
  BY BudgetInvariant, <1>1, PTL

\* An abort that lands before the turn's grant costs no slot, ever.
THEOREM NoSlotForRejected == Spec => NoSlotAfterRejection
<1>1. IInv /\ [Next]_vars => [RejectedTakesNoSlot]_vars
  <2> SUFFICES ASSUME IInv, [Next]_vars PROVE RejectedTakesNoSlot
    OBVIOUS
  <2> USE DEF RejectedTakesNoSlot
  <2>0. turn \in [Calls -> Turn]
    BY DEF IInv, TypeOK
  <2>1. ASSUME NEW c \in Calls, RunTurn(c) PROVE RejectedTakesNoSlot
    <3>1. CASE Cancelled(c)
      BY <2>0, <2>1, <3>1 DEF RunTurn
    <3>2. CASE ~Cancelled(c)
      <4>1. turn[c] = "queued"
        BY <2>1 DEF RunTurn
      <4>2. outcome[c] \notin Rejected
        BY <3>2, <4>1 DEF IInv, ChainOrdered
      <4>3. \A d \in Calls \ {c} : turn'[d] = turn[d]
        BY <2>0, <2>1 DEF RunTurn
      <4>4. QED
        BY <4>2, <4>3
    <3>3. QED
      BY <3>1, <3>2
  <2>2. ASSUME NEW c \in Calls,
               \/ Acquire(c) \/ DelayFires(c) \/ DelayAborted(c)
               \/ DelayBroken(c)
        PROVE  RejectedTakesNoSlot
    BY <2>0, <2>2 DEF Acquire, DelayFires, DelayAborted, DelayBroken
  <2>3. ASSUME NEW c \in Calls,
               \/ AcquireRefused(c) \/ AbortCall(c) \/ HandOver(c)
               \/ Settle(c)
        PROVE  RejectedTakesNoSlot
    BY <2>3 DEF AcquireRefused, AbortCall, HandOver, Settle
  <2>4. CASE AbortLifetime \/ Available \/ Tick \/ UNCHANGED vars
    BY <2>4 DEF AbortLifetime, Available, Tick, vars
  <2>5. QED
    BY <2>1, <2>2, <2>3, <2>4 DEF Next, Run
<1>2. QED
  BY BudgetInvariant, <1>1, PTL DEF Spec, NoSlotAfterRejection

-----------------------------------------------------------------------------
(* The refinement. *)

\* When the pruned log has room, the trailing window has room.
LEMMA RoomInWindow ==
  ASSUME IInv, HasRoom(LiveGrants(now))
  PROVE  SW!Room
<1> DEFINE g == LiveGrants(now)
<1>1. /\ Len(g) \in Nat
      /\ Len(log) - Len(g) \in Nat
      /\ \A i \in 1..Len(log) - Len(g) : log[i] + Window <= now
  BY PruneKeepsTail DEF IInv
<1>2. Len(g) < Capacity
  BY DEF HasRoom
<1>3. Len(log) \in Nat /\ Capacity \in Nat \ {0}
  BY LenProperties, RateBudgetAssumption DEF IInv, TypeOK
<1> HIDE DEF g
<1>4. CASE Len(log) < Capacity
  BY <1>4 DEF SW!Room
<1>5. CASE Len(log) >= Capacity
  <2>1. Len(log) + 1 - Capacity \in 1..Len(log) - Len(g)
    BY <1>1, <1>2, <1>3, <1>5
  <2>2. QED
    BY <1>1, <2>1 DEF SW!Room
<1>6. QED
  BY <1>3, <1>4, <1>5

\* The abstract status of a call depends on its turn and outcome alone.
LEMMA StatusKept ==
  ASSUME \A d \in Calls : turn'[d] = turn[d] /\ outcome'[d] = outcome[d]
  PROVE  AbstractStatus' = AbstractStatus
BY DEF AbstractStatus

\* A turn that takes a slot is the abstract Grant.
LEMMA GrantRefines ==
  ASSUME IInv, NEW c \in Calls, RunTurn(c), ~Cancelled(c),
         HasRoom(LiveGrants(now))
  PROVE  SW!Grant(c)
<1>1. /\ turn[c] = "queued" /\ ticket[c] = served + 1
      /\ turn' = [turn EXCEPT ![c] = "granted"]
      /\ log' = Append(log, now)
      /\ UNCHANGED <<now, ticket, outcome>>
  BY DEF RunTurn, AtHead
<1>2. /\ turn \in [Calls -> Turn] /\ outcome \in [Calls -> Outcome]
      /\ ticket \in [Calls -> Nat] /\ served \in Nat
  BY DEF IInv, TypeOK
<1>3. outcome[c] = "pending"
  BY <1>1, <1>2 DEF IInv, ChainOrdered
<1>4. c \in SW!Waiting
  BY <1>1, <1>3 DEF SW!Waiting, AbstractStatus
<1>5. ASSUME NEW d \in SW!Waiting PROVE ticket[c] <= ticket[d]
  <2>1. /\ d \in Calls /\ outcome[d] = "pending"
        /\ turn[d] \notin {"granted", "failed"}
    BY DEF SW!Waiting, AbstractStatus
  <2>2. ticket[d] > 0 /\ ~(ticket[d] \in 1..served)
    BY <2>1 DEF IInv, ChainOrdered
  <2>3. ticket[d] \in Nat
    BY <1>2, <2>1
  <2>4. QED
    BY <1>1, <1>2, <2>2, <2>3
<1>6. AbstractStatus' = [AbstractStatus EXCEPT ![c] = "granted"]
  BY <1>1, <1>2 DEF AbstractStatus
<1>7. SW!Room
  BY RoomInWindow
<1>8. QED
  BY <1>1, <1>4, <1>5, <1>6, <1>7 DEF SW!Grant

\* Giving up, one call or several, is the abstract Leave.
LEMMA LeaveRefines ==
  ASSUME NEW S \in SUBSET Calls,
         \A d \in S : AbstractStatus[d] \in {"new", "waiting"},
         \A d \in S : AbstractStatus'[d] = "gone",
         \A d \in Calls \ S : AbstractStatus'[d] = AbstractStatus[d],
         UNCHANGED <<now, log, ticket>>
  PROVE  SW!Next
<1>1. AbstractStatus' = [d \in Calls |-> IF d \in S THEN "gone"
                                        ELSE AbstractStatus[d]]
  BY DEF AbstractStatus
<1>2. SW!Leave(S)
  BY <1>1 DEF SW!Leave
<1>3. QED
  BY <1>2 DEF SW!Next
\* A step of the budget is a step of the sliding window, or none.
LEMMA StepRefines == IInv /\ [Next]_vars => [SW!Next]_SW!vars
<1> SUFFICES ASSUME IInv, [Next]_vars PROVE [SW!Next]_SW!vars
  OBVIOUS
<1>0. /\ turn \in [Calls -> Turn] /\ outcome \in [Calls -> Outcome]
      /\ ticket \in [Calls -> Nat] /\ issued \in Nat /\ now \in Nat
  BY DEF IInv, TypeOK
<1> DEFINE Still == AbstractStatus' = AbstractStatus
                    /\ UNCHANGED <<now, log, ticket>>
<1>1. ASSUME Still PROVE [SW!Next]_SW!vars
  BY <1>1 DEF SW!vars
<1>2. ASSUME NEW c \in Calls, Acquire(c) PROVE SW!Next
  <2>1. /\ outcome[c] = "none" /\ turn[c] = "none"
        /\ turn' = [turn EXCEPT ![c] = "queued"]
        /\ outcome' = [outcome EXCEPT ![c] = "pending"]
        /\ ticket' = [ticket EXCEPT ![c] = issued + 1]
        /\ UNCHANGED <<now, log>>
    BY <1>2 DEF Acquire, IInv, ChainOrdered
  <2>2. AbstractStatus[c] = "new"
    BY <2>1 DEF AbstractStatus
  <2>3. AbstractStatus' = [AbstractStatus EXCEPT ![c] = "waiting"]
    BY <1>0, <2>1 DEF AbstractStatus
  <2>4. \A d \in Calls : ticket[d] < ticket'[c]
    BY <1>0, <2>1 DEF IInv, ChainOrdered
  <2>5. ticket' = [ticket EXCEPT ![c] = ticket'[c]]
    BY <1>0, <2>1
  <2>6. SW!Join(c)
    BY <2>1, <2>2, <2>3, <2>4, <2>5 DEF SW!Join
  <2>7. QED
    BY <2>6 DEF SW!Next
<1>3. ASSUME NEW c \in Calls, AcquireRefused(c) PROVE SW!Next
  <2>1. /\ outcome[c] = "none" /\ turn[c] = "none"
        /\ outcome' = [outcome EXCEPT ![c] = Reason(c)]
        /\ Reason(c) \in {"lifetime", "call"}
        /\ UNCHANGED <<now, log, ticket, turn>>
    BY <1>3 DEF AcquireRefused, Reason, IInv, ChainOrdered
  <2>2. AbstractStatus[c] = "new" /\ AbstractStatus'[c] = "gone"
    BY <1>0, <2>1 DEF AbstractStatus
  <2>3. \A d \in Calls \ {c} : AbstractStatus'[d] = AbstractStatus[d]
    BY <1>0, <2>1 DEF AbstractStatus
  <2>4. QED
    BY <2>1, <2>2, <2>3, LeaveRefines
<1>4. ASSUME NEW P \in SUBSET Calls, NEW why \in {"lifetime", "call"},
             RejectPending(P, why),
             UNCHANGED <<now, log, ticket, turn>>
      PROVE  SW!Next
  <2> DEFINE S == {d \in P : AbstractStatus[d] = "waiting"}
  <2>1. \A d \in S : outcome[d] = "pending"
    BY DEF AbstractStatus
  <2>2. \A d \in S : AbstractStatus'[d] = "gone"
    BY <1>4, <2>1 DEF AbstractStatus, RejectPending
  <2>3. \A d \in Calls \ S : AbstractStatus'[d] = AbstractStatus[d]
    BY <1>4 DEF AbstractStatus, RejectPending
  <2>4. S \in SUBSET Calls
    OBVIOUS
  <2>5. \A d \in S : AbstractStatus[d] \in {"new", "waiting"}
    OBVIOUS
  <2> HIDE DEF S
  <2>6. QED
    BY <1>4, <2>2, <2>3, <2>4, <2>5, LeaveRefines
<1>5. ASSUME NEW c \in Calls, AbortCall(c) PROVE SW!Next
  BY <1>4, <1>5 DEF AbortCall
<1>6. CASE AbortLifetime
  BY <1>4, <1>6 DEF AbortLifetime
<1>7. ASSUME NEW c \in Calls, RunTurn(c) PROVE [SW!Next]_SW!vars
  <2>1. CASE ~Cancelled(c) /\ HasRoom(LiveGrants(now))
    BY <1>7, <2>1, GrantRefines DEF SW!Next
  <2>2. CASE Cancelled(c)
    <3>1. /\ turn[c] = "queued"
          /\ turn' = [turn EXCEPT ![c] = "failed"]
          /\ UNCHANGED <<now, log, ticket, outcome>>
      BY <1>7, <2>2 DEF RunTurn
    <3>2. outcome[c] \in Rejected
      BY <1>0, <2>2, <3>1 DEF IInv, ChainOrdered
    <3>3. AbstractStatus' = AbstractStatus
      BY <1>0, <3>1, <3>2 DEF AbstractStatus
    <3>4. QED
      BY <1>1, <3>1, <3>3
  <2>3. CASE ~Cancelled(c) /\ ~HasRoom(LiveGrants(now))
    <3>1. /\ turn[c] = "queued"
          /\ turn' = [turn EXCEPT ![c] = "delaying"]
          /\ UNCHANGED <<now, log, ticket, outcome>>
      BY <1>7, <2>3 DEF RunTurn
    <3>2. AbstractStatus' = AbstractStatus
      BY <1>0, <3>1 DEF AbstractStatus
    <3>3. QED
      BY <1>1, <3>1, <3>2
  <2>4. QED
    BY <2>1, <2>2, <2>3
<1>8. ASSUME NEW c \in Calls, DelayFires(c) PROVE [SW!Next]_SW!vars
  <2>1. AbstractStatus' = AbstractStatus
    BY <1>0, <1>8 DEF DelayFires, AbstractStatus
  <2>2. QED
    BY <1>1, <1>8, <2>1 DEF DelayFires
<1>9. ASSUME NEW c \in Calls, DelayAborted(c) PROVE [SW!Next]_SW!vars
  <2>1. outcome[c] \in Rejected
    BY <1>0, <1>9 DEF DelayAborted, IInv, ChainOrdered
  <2>2. AbstractStatus' = AbstractStatus
    BY <1>0, <1>9, <2>1 DEF DelayAborted, AbstractStatus
  <2>3. QED
    BY <1>1, <1>9, <2>2 DEF DelayAborted
<1>10. ASSUME NEW c \in Calls, DelayBroken(c) PROVE SW!Next
  <2>1. outcome[c] = "pending"
    BY <1>0, <1>10 DEF DelayBroken, IInv, ChainOrdered
  <2>2. AbstractStatus[c] = "waiting" /\ AbstractStatus'[c] = "gone"
    BY <1>0, <1>10, <2>1 DEF DelayBroken, AbstractStatus
  <2>3. \A d \in Calls \ {c} : AbstractStatus'[d] = AbstractStatus[d]
    BY <1>0, <1>10 DEF DelayBroken, AbstractStatus
  <2>4. QED
    BY <1>10, <2>2, <2>3, LeaveRefines DEF DelayBroken
<1>11. ASSUME NEW c \in Calls, HandOver(c) PROVE [SW!Next]_SW!vars
  BY <1>1, <1>11, StatusKept DEF HandOver
<1>12. ASSUME NEW c \in Calls, Settle(c) PROVE [SW!Next]_SW!vars
  <2>1. AbstractStatus' = AbstractStatus
    BY <1>0, <1>12 DEF Settle, AbstractStatus
  <2>2. QED
    BY <1>1, <1>12, <2>1 DEF Settle
<1>13. CASE Available
  BY <1>1, <1>13, StatusKept DEF Available
<1>14. CASE Tick
  <2>1. AbstractStatus' = AbstractStatus
    BY <1>14, StatusKept DEF Tick
  <2>2. SW!Tick
    BY <1>14, <2>1 DEF Tick, SW!Tick
  <2>3. QED
    BY <2>2 DEF SW!Next
<1>15. CASE UNCHANGED vars
  BY <1>1, <1>15, StatusKept DEF vars
<1>16. QED
  BY <1>2, <1>3, <1>5, <1>6, <1>7, <1>8, <1>9, <1>10, <1>11, <1>12, <1>13,
     <1>14, <1>15 DEF Next, Run

\* The promise chain, the pruned log and the races with the abort signals
\* together implement the first-come-first-served sliding window.
THEOREM Refinement == Spec => ImplementsSlidingWindow
<1>1. Init => SW!Init
  BY DEF Init, SW!Init, AbstractStatus
<1>2. QED
  BY <1>1, StepRefines, BudgetInvariant, PTL
  DEF Spec, ImplementsSlidingWindow, SW!Spec
=============================================================================
