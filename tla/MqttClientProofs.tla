-------------------------- MODULE MqttClientProofs --------------------------
(***************************************************************************)
(* For any topics, handlers, signals, publish() calls and setters: the     *)
(* table of subscriptions, the wire, the abort listeners and what          *)
(* subscribers were promised agree, nothing starts once the client is      *)
(* aborted, and the client keeps the contract of TopicSubscriptions.       *)
(***************************************************************************)
EXTENDS MqttClient, TLAPS, SequenceTheorems, WellFoundedInduction

\* A set of numbers that is not empty has a least element.
LEMMA LeastExists ==
  ASSUME NEW T \in SUBSET Nat, T # {}
  PROVE  \E x \in T : \A y \in T : x <= y
<1> DEFINE R == OpToRel(<, Nat)
<1>1. IsWellFoundedOn(R, Nat)
  BY NatLessThanWellFounded
<1>2. ASSUME NEW x \in Nat, NEW y \in Nat, y < x PROVE <<y, x>> \in R
  BY <1>2 DEF OpToRel
<1> HIDE DEF R
<1>3. PICK x \in T : \A y \in T : ~(<<y, x>> \in R)
  BY <1>1, WFMin
<1>4. ASSUME NEW y \in T PROVE x <= y
  <2>1. x \in Nat /\ y \in Nat
    OBVIOUS
  <2>2. ~(y < x)
    BY <1>2, <1>3, <2>1
  <2>3. QED
    BY <2>1, <2>2
<1>5. QED
  BY <1>4

-----------------------------------------------------------------------------
(* Without: what is left of a list of handlers. *)

\* What the recursion says of the list of the first i members.
KeptStep(q, gone, f, i) ==
  f[i] = IF i = 0 THEN <<>>
         ELSE IF q[i] \in gone THEN f[i - 1] ELSE Append(f[i - 1], q[i])

IsKept(q, gone, f) ==
  f = [i \in 0..Len(q) |-> IF i = 0 THEN <<>>
         ELSE IF q[i] \in gone THEN f[i - 1] ELSE Append(f[i - 1], q[i])]

LEMMA KeptExists ==
  ASSUME NEW S, NEW q \in Seq(S), NEW gone
  PROVE  \E f : IsKept(q, gone, f)
<1> DEFINE Good(n) == \E f : /\ f = [i \in 0..n |-> f[i]]
                             /\ \A i \in 0..n : KeptStep(q, gone, f, i)
           Bad == {n \in 0..Len(q) : ~Good(n)}
<1>1. Len(q) \in Nat
  OBVIOUS
<1>2. Good(0)
  <2> DEFINE f == [i \in 0..0 |-> <<>>]
  <2>1. f = [i \in 0..0 |-> f[i]] /\ \A i \in 0..0 : KeptStep(q, gone, f, i)
    BY DEF KeptStep
  <2> HIDE DEF f
  <2>2. QED
    BY <2>1
<1>3. ASSUME NEW n \in 0..Len(q), n # 0, Good(n - 1) PROVE Good(n)
  <2>1. PICK f : /\ f = [i \in 0..(n - 1) |-> f[i]]
                 /\ \A i \in 0..(n - 1) : KeptStep(q, gone, f, i)
    BY <1>3
  <2> DEFINE last == IF q[n] \in gone THEN f[n - 1] ELSE Append(f[n - 1], q[n])
             g == [i \in 0..n |-> IF i = n THEN last ELSE f[i]]
  <2>2. g = [i \in 0..n |-> g[i]]
    OBVIOUS
  <2>3. ASSUME NEW i \in 0..n PROVE KeptStep(q, gone, g, i)
    <3>1. CASE i = n
      <4>1. g[n] = last /\ g[n - 1] = f[n - 1]
        BY <1>1, <1>3
      <4> HIDE DEF g
      <4>2. QED
        BY <1>3, <3>1, <4>1 DEF KeptStep
    <3>2. CASE i # n
      <4>1. i \in 0..(n - 1) /\ g[i] = f[i] /\ (i # 0 => g[i - 1] = f[i - 1])
        BY <1>1, <3>2
      <4> HIDE DEF g
      <4>2. QED
        BY <2>1, <4>1 DEF KeptStep
    <3>3. QED
      BY <3>1, <3>2
  <2> HIDE DEF g
  <2>4. QED
    BY <2>2, <2>3
<1> HIDE DEF Good
<1>4. Bad = {}
  <2>1. SUFFICES ASSUME Bad # {} PROVE FALSE
    OBVIOUS
  <2> Bad \in SUBSET Nat
    OBVIOUS
  <2> HIDE DEF Bad
  <2>2. PICK n \in Bad : \A m \in Bad : n <= m
    BY <2>1, LeastExists
  <2> USE DEF Bad
  <2>3. n # 0
    BY <1>2
  <2>4. n - 1 \in 0..Len(q) /\ n - 1 \notin Bad
    BY <2>2, <2>3
  <2>5. QED
    BY <1>3, <2>3, <2>4
<1>5. Good(Len(q))
  BY <1>1, <1>4
<1>6. PICK f : /\ f = [i \in 0..Len(q) |-> f[i]]
               /\ \A i \in 0..Len(q) : KeptStep(q, gone, f, i)
  BY <1>5 DEF Good
<1>7. IsKept(q, gone, f)
  BY <1>6 DEF KeptStep, IsKept
<1>8. QED
  BY <1>7

\* What is left is a list of the others, each as often as before.
LEMMA WithoutFacts ==
  ASSUME NEW S, NEW q \in Seq(S), NEW gone
  PROVE  /\ Without(q, gone) \in Seq(S)
         /\ Elements(Without(q, gone)) = Elements(q) \ gone
         /\ IsInjective(q) => IsInjective(Without(q, gone))
<1> DEFINE K == CHOOSE f : IsKept(q, gone, f)
<1>0. Len(q) \in Nat
  OBVIOUS
<1>1. IsKept(q, gone, K)
  BY KeptExists
<1>2. Without(q, gone) = K[Len(q)]
  BY DEF Without, IsKept
<1> HIDE DEF K
<1>3. K[0] = <<>>
  BY <1>0, <1>1 DEF IsKept
<1>4. ASSUME NEW i \in 1..Len(q)
      PROVE  K[i] = IF q[i] \in gone THEN K[i - 1] ELSE Append(K[i - 1], q[i])
  <2>1. i \in 0..Len(q) /\ i # 0
    BY <1>0
  <2>2. QED
    BY <1>1, <2>1 DEF IsKept
<1> DEFINE Good(n) == /\ K[n] \in Seq(S)
                      /\ Elements(K[n]) = {q[j] : j \in 1..n} \ gone
                      /\ IsInjective(q) => IsInjective(K[n])
           Bad == {n \in 0..Len(q) : ~Good(n)}
<1>5. Good(0)
  BY <1>3 DEF Elements, IsInjective
<1>6. ASSUME NEW n \in 1..Len(q), Good(n - 1) PROVE Good(n)
  <2>1. CASE q[n] \in gone
    <3>1. K[n] = K[n - 1]
      BY <1>4, <2>1
    <3>2. {q[j] : j \in 1..n} \ gone = {q[j] : j \in 1..(n - 1)} \ gone
      <4>1. \A j \in 1..n : j \in 1..(n - 1) \/ j = n
        OBVIOUS
      <4>2. \A j \in 1..(n - 1) : j \in 1..n
        OBVIOUS
      <4>3. QED
        BY <2>1, <4>1, <4>2
    <3>3. QED
      BY <1>6, <3>1, <3>2
  <2>2. CASE q[n] \notin gone
    <3> DEFINE k == K[n - 1]
    <3>1. K[n] = Append(k, q[n]) /\ k \in Seq(S) /\ q[n] \in S
      <4>1. q[n] \in S
        OBVIOUS
      <4>2. K[n] = Append(K[n - 1], q[n])
        BY <1>4, <2>2
      <4>3. QED
        BY <1>6, <4>1, <4>2
    <3>2. /\ K[n] \in Seq(S) /\ Len(K[n]) = Len(k) + 1
          /\ \A i \in 1..Len(k) : K[n][i] = k[i]
          /\ K[n][Len(k) + 1] = q[n]
      BY <3>1, AppendProperties
    <3>3. DOMAIN K[n] = 1..(Len(k) + 1) /\ DOMAIN k = 1..Len(k) /\ Len(k) \in Nat
      BY <3>1, <3>2
    <3>4. Elements(k) = {q[j] : j \in 1..(n - 1)} \ gone
      BY <1>6
    <3> HIDE DEF k
    <3>5. Elements(K[n]) = Elements(k) \cup {q[n]}
      <4>1. \A i \in 1..(Len(k) + 1) : i \in 1..Len(k) \/ i = Len(k) + 1
        BY <3>3
      <4>2. \A i \in 1..Len(k) : i \in 1..(Len(k) + 1)
        BY <3>3
      <4>3. QED
        BY <3>2, <3>3, <4>1, <4>2 DEF Elements
    <3>6. {q[j] : j \in 1..n} = {q[j] : j \in 1..(n - 1)} \cup {q[n]}
      <4>1. \A j \in 1..n : j \in 1..(n - 1) \/ j = n
        OBVIOUS
      <4>2. \A j \in 1..(n - 1) : j \in 1..n
        OBVIOUS
      <4>3. QED
        BY <4>1, <4>2
    <3>7. Elements(K[n]) = {q[j] : j \in 1..n} \ gone
      BY <2>2, <3>4, <3>5, <3>6
    <3>8. ASSUME IsInjective(q) PROVE IsInjective(K[n])
      <4>1. q[n] \notin Elements(k)
        <5>1. \A j \in 1..(n - 1) : q[j] # q[n]
          BY <3>8 DEF IsInjective
        <5>2. QED
          BY <3>4, <5>1
      <4>2. \A i \in 1..Len(k) : k[i] # q[n]
        BY <3>3, <4>1 DEF Elements
      <4>3. IsInjective(k)
        BY <1>6, <3>8 DEF k
      <4>4. QED
        BY <3>2, <3>3, <4>2, <4>3 DEF IsInjective
    <3>9. QED
      BY <3>2, <3>7, <3>8
  <2>3. QED
    BY <2>1, <2>2
<1> HIDE DEF Good
<1>7. Bad = {}
  <2>1. SUFFICES ASSUME Bad # {} PROVE FALSE
    OBVIOUS
  <2> Bad \in SUBSET Nat
    OBVIOUS
  <2> HIDE DEF Bad
  <2>2. PICK n \in Bad : \A m \in Bad : n <= m
    BY <2>1, LeastExists
  <2> USE DEF Bad
  <2>3. n \in 1..Len(q)
    BY <1>5
  <2>4. n - 1 \in 0..Len(q) /\ n - 1 \notin Bad
    BY <2>2, <2>3
  <2>5. QED
    BY <1>6, <2>3, <2>4
<1>8. Good(Len(q))
  BY <1>7
<1>9. Elements(q) = {q[j] : j \in 1..Len(q)}
  BY DEF Elements
<1>10. QED
  BY <1>2, <1>8, <1>9 DEF Good

LEMMA NoElements ==
  ASSUME NEW S, NEW q \in Seq(S), Elements(q) = {}
  PROVE  q = <<>>
<1>1. Len(q) \in Nat /\ DOMAIN q = 1..Len(q)
  OBVIOUS
<1>2. 1 \notin DOMAIN q
  BY DEF Elements
<1>3. QED
  BY <1>1, <1>2

\* A handler that is not listed yet is listed once after it was added.
LEMMA AppendFacts ==
  ASSUME NEW S, NEW q \in Seq(S), NEW h \in S
  PROVE  /\ Append(q, h) \in Seq(S) /\ Append(q, h) # <<>>
         /\ Elements(Append(q, h)) = Elements(q) \cup {h}
         /\ h \notin Elements(q) /\ IsInjective(q) => IsInjective(Append(q, h))
<1> DEFINE a == Append(q, h)
<1>1. /\ a \in Seq(S) /\ a # <<>> /\ Len(a) = Len(q) + 1
      /\ \A i \in 1..Len(q) : a[i] = q[i]
      /\ a[Len(q) + 1] = h
  BY AppendProperties
<1>2. Len(q) \in Nat /\ DOMAIN q = 1..Len(q) /\ DOMAIN a = 1..(Len(q) + 1)
  BY <1>1
<1> HIDE DEF a
<1>3. \A i \in 1..(Len(q) + 1) : i \in 1..Len(q) \/ i = Len(q) + 1
  BY <1>2
<1>4. \A i \in 1..Len(q) : i \in 1..(Len(q) + 1)
  BY <1>2
<1>5. Elements(a) = Elements(q) \cup {h}
  BY <1>1, <1>2, <1>3, <1>4 DEF Elements
<1>6. ASSUME h \notin Elements(q), IsInjective(q) PROVE IsInjective(a)
  <2>1. \A i \in 1..Len(q) : q[i] # h
    BY <1>2, <1>6 DEF Elements
  <2>2. QED
    BY <1>1, <1>2, <1>3, <1>6, <2>1 DEF IsInjective
<1>7. QED
  BY <1>1, <1>5, <1>6 DEF a

\* The head and the tail of a list without repetition.
LEMMA HeadTailFacts ==
  ASSUME NEW S, NEW q \in Seq(S), q # <<>>, IsInjective(q)
  PROVE  /\ q[1] \in S /\ Tail(q) \in Seq(S)
         /\ Elements(q) = {q[1]} \cup Elements(Tail(q))
         /\ q[1] \notin Elements(Tail(q))
         /\ IsInjective(Tail(q))
<1> DEFINE r == Tail(q)
<1>1. /\ r \in Seq(S) /\ Len(r) = Len(q) - 1
      /\ \A i \in 1..Len(r) : r[i] = q[i + 1]
  BY HeadTailProperties
<1>2. /\ Len(q) \in Nat /\ Len(q) # 0
      /\ DOMAIN q = 1..Len(q) /\ DOMAIN r = 1..(Len(q) - 1)
  BY <1>1
<1> HIDE DEF r
<1>3. q[1] \in S
  BY <1>2
<1>4. \A i \in 1..(Len(q) - 1) : i + 1 \in 1..Len(q) /\ r[i] = q[i + 1] /\ i + 1 # 1
  BY <1>1, <1>2
<1>5. \A i \in 1..Len(q) : i = 1 \/ (i - 1 \in 1..(Len(q) - 1) /\ q[i] = r[i - 1])
  <2> SUFFICES ASSUME NEW i \in 1..Len(q), i # 1
               PROVE  i - 1 \in 1..(Len(q) - 1) /\ q[i] = r[i - 1]
    OBVIOUS
  <2>1. i - 1 \in 1..(Len(q) - 1) /\ (i - 1) + 1 = i
    BY <1>2
  <2>2. QED
    BY <1>4, <2>1
<1>6. 1 \in 1..Len(q)
  BY <1>2
<1>7. Elements(q) = {q[1]} \cup Elements(r)
  BY <1>2, <1>4, <1>5, <1>6 DEF Elements
<1>8. q[1] \notin Elements(r)
  BY <1>2, <1>4, <1>6 DEF Elements, IsInjective
<1>9. IsInjective(r)
  <2> SUFFICES ASSUME NEW i \in 1..(Len(q) - 1), NEW j \in 1..(Len(q) - 1), r[i] = r[j]
               PROVE  i = j
    BY <1>2 DEF IsInjective
  <2>1. i + 1 = j + 1
    BY <1>2, <1>4 DEF IsInjective
  <2>2. QED
    BY <2>1
<1>10. QED
  BY <1>1, <1>3, <1>7, <1>8, <1>9 DEF r

-----------------------------------------------------------------------------
(* The invariant.  First the steps that touch the table of subscriptions.  *)

LEMMA InitInv == Init => MqttInv
<1> SUFFICES ASSUME Init PROVE MqttInv
  OBVIOUS
<1>1. TypeOK
  <2>1. aborted \in BOOLEAN /\ link \in {"connecting", "up", "down", "ended"} /\ payload \in BOOLEAN
    BY DEF Init
  <2>2. subs \in [Topics -> Seq(Handlers)] /\ rest \in Seq(Handlers)
    BY DEF Init
  <2>3. /\ outcome \in [Publishes -> {"none", "pending", "resolved", "failed", "aborted"}]
        /\ setter \in [Setters -> {"none", "running", "late", "done", "warned", "error"}]
    BY DEF Init
  <2>4. QED
    BY <2>1, <2>2, <2>3 DEF Init, TypeOK
<1>2. TableOnWire /\ HooksInPlace /\ SnapshotOnce /\ OneEach
  BY MqttAssumption DEF Init, TableOnWire, HooksInPlace, SnapshotOnce, OneEach, IsInjective, Elements
<1>3. SubscriptionsStand
  BY DEF Init, SubscriptionsStand, Elements, Registered
<1>4. QED
  BY <1>1, <1>2, <1>3 DEF MqttInv

LEMMA SubscribeInv ==
  ASSUME MqttInv, NEW t \in Topics, NEW h \in Handlers, NEW s \in Signals \cup {None},
         Subscribe(t, h, s)
  PROVE  MqttInv'
<1> DEFINE r == [topic |-> t, handler |-> h, signal |-> s]
           listed == h \in Elements(subs[t])
<1> USE DEF MqttInv
<1>1. /\ ~aborted /\ s \notin fired
      /\ Reuse \/ \A q \in regs \cup hooks : q.handler # h
      /\ Reuse \/ ~listed
      /\ wanted' = IF subs[t] = <<>> /\ link # "ended" THEN wanted \cup {t} ELSE wanted
      /\ subs' = IF listed THEN subs ELSE [subs EXCEPT ![t] = Append(subs[t], h)]
      /\ hooks' = IF s = None THEN hooks ELSE hooks \cup {r}
      /\ regs' = regs \cup {r}
      /\ UNCHANGED <<aborted, link, fired, passVars, outcome, setter>>
  BY DEF Subscribe, WireSubscribe
<1>2. subs[t] \in Seq(Handlers) /\ IsInjective(subs[t])
  BY DEF TypeOK, TableOnWire
<1>3. /\ Append(subs[t], h) \in Seq(Handlers) /\ Append(subs[t], h) # <<>>
      /\ Elements(Append(subs[t], h)) = Elements(subs[t]) \cup {h}
      /\ ~listed => IsInjective(Append(subs[t], h))
  BY <1>2, AppendFacts
<1>4. r \in Registration /\ (s # None => r \in Hook)
  BY DEF Registration, Hook
<1>5. /\ subs'[t] \in Seq(Handlers) /\ subs'[t] # <<>> /\ IsInjective(subs'[t])
      /\ Elements(subs'[t]) = Elements(subs[t]) \cup {h}
      /\ \A u \in Topics : u # t => subs'[u] = subs[u]
      /\ subs' \in [Topics -> Seq(Handlers)]
  <2>1. CASE listed
    <3>1. subs' = subs
      BY <1>1, <2>1
    <3>2. subs[t] # <<>>
      BY <2>1 DEF Elements
    <3>3. QED
      BY <1>2, <2>1, <3>1, <3>2 DEF TypeOK
  <2>2. CASE ~listed
    BY <1>1, <1>3, <2>2 DEF TypeOK
  <2>3. QED
    BY <2>1, <2>2
<1>6. TypeOK'
  BY <1>1, <1>4, <1>5 DEF TypeOK, passVars
<1>7. TableOnWire'
  BY <1>1, <1>5 DEF TableOnWire, TypeOK
<1>8. HooksInPlace'
  BY <1>1 DEF HooksInPlace
<1>9. SnapshotOnce'
  BY <1>1 DEF SnapshotOnce, passVars, Elements
<1>10. Reuse \/ OneEach'
  BY <1>1 DEF OneEach
<1>11. ASSUME ~Reuse PROVE SubscriptionsStand'
  <2> SUFFICES ASSUME NEW u \in Topics PROVE Elements(subs'[u]) = Registered(regs', u)
    BY DEF SubscriptionsStand, Elements, Registered
  <2>1. Elements(subs[u]) = Registered(regs, u)
    BY <1>11 DEF SubscriptionsStand
  <2>2. CASE u = t
    <3>1. Registered(regs', t) = Registered(regs, t) \cup {h}
      <4>1. r.topic = t /\ r.handler = h /\ regs' = regs \cup {r}
        BY <1>1
      <4> HIDE DEF r
      <4>2. QED
        BY <4>1 DEF Registered
    <3>2. QED
      BY <1>5, <2>1, <2>2, <3>1
  <2>3. CASE u # t
    <3>1. Registered(regs', u) = Registered(regs, u)
      <4>1. r.topic # u /\ regs' = regs \cup {r}
        BY <1>1, <2>3
      <4> HIDE DEF r
      <4>2. QED
        BY <4>1 DEF Registered
    <3>2. QED
      BY <1>5, <2>1, <2>3, <3>1
  <2>4. QED
    BY <2>2, <2>3
<1>12. QED
  BY <1>6, <1>7, <1>8, <1>9, <1>10, <1>11

LEMMA SignalAbortsInv ==
  ASSUME MqttInv, NEW s \in Signals, SignalAborts(s)
  PROVE  MqttInv'
<1> DEFINE R == {r \in hooks : r.signal = s}
<1> USE DEF MqttInv
<1>1. /\ fired' = fired \cup {s}
      /\ subs' = [t \in Topics |-> Without(subs[t], Registered(R, t))]
      /\ wanted' = IF link = "ended" THEN wanted
                   ELSE wanted \ {t \in Topics : subs[t] # <<>> /\ subs'[t] = <<>>}
      /\ hooks' = {r \in hooks : r.signal # s}
      /\ regs' = {r \in regs : r.signal # s}
      /\ UNCHANGED <<aborted, link, passVars, outcome, setter>>
  BY DEF SignalAborts, RemoveHandlers, WireUnsubscribe
<1>2. \A t \in Topics : /\ subs'[t] \in Seq(Handlers) /\ IsInjective(subs'[t])
                        /\ Elements(subs'[t]) = Elements(subs[t]) \ Registered(R, t)
  <2> SUFFICES ASSUME NEW t \in Topics
               PROVE  /\ subs'[t] \in Seq(Handlers) /\ IsInjective(subs'[t])
                      /\ Elements(subs'[t]) = Elements(subs[t]) \ Registered(R, t)
    OBVIOUS
  <2>1. subs[t] \in Seq(Handlers) /\ IsInjective(subs[t])
    BY DEF TypeOK, TableOnWire
  <2>2. subs'[t] = Without(subs[t], Registered(R, t))
    BY <1>1
  <2> HIDE DEF R
  <2>3. QED
    BY <2>1, <2>2, WithoutFacts
<1>3. \A t \in Topics : subs[t] = <<>> => subs'[t] = <<>>
  <2> SUFFICES ASSUME NEW t \in Topics, subs[t] = <<>> PROVE subs'[t] = <<>>
    OBVIOUS
  <2>1. Elements(subs[t]) = {}
    BY DEF Elements
  <2>2. Elements(subs'[t]) = {}
    BY <1>2, <2>1
  <2>3. QED
    BY <1>2, <2>2, NoElements
<1>4. TypeOK'
  <2>1. subs' \in [Topics -> Seq(Handlers)]
    BY <1>1, <1>2
  <2>2. QED
    BY <1>1, <2>1 DEF TypeOK, passVars
<1>5. TableOnWire'
  BY <1>1, <1>2, <1>3 DEF TableOnWire
<1>6. HooksInPlace'
  BY <1>1 DEF HooksInPlace
<1>7. SnapshotOnce'
  BY <1>1 DEF SnapshotOnce, passVars, Elements
<1>8. Reuse \/ OneEach'
  BY <1>1 DEF OneEach
<1>9. ASSUME ~Reuse PROVE SubscriptionsStand'
  <2> SUFFICES ASSUME NEW t \in Topics PROVE Elements(subs'[t]) = Registered(regs', t)
    BY DEF SubscriptionsStand, Elements, Registered
  <2>1. Elements(subs[t]) = Registered(regs, t)
    BY <1>9 DEF SubscriptionsStand
  <2>2. \A r, q \in regs \cup hooks : r.handler = q.handler => r = q
    BY <1>9 DEF OneEach
  <2>3. \A r \in regs : r.signal = s => r \in R
    BY MqttAssumption DEF HooksInPlace
  <2>4. Registered(regs', t) = Registered(regs, t) \ Registered(R, t)
    <3>1. ASSUME NEW r \in regs, r.topic = t, r.signal # s
          PROVE  r.handler \notin Registered(R, t)
      BY <2>2, <3>1 DEF Registered
    <3>2. ASSUME NEW r \in regs, r.topic = t, r.handler \notin Registered(R, t)
          PROVE  r.signal # s
      BY <2>3, <3>2 DEF Registered
    <3>3. QED
      BY <1>1, <3>1, <3>2 DEF Registered
  <2>5. QED
    BY <1>2, <2>1, <2>4
<1>10. QED
  BY <1>4, <1>5, <1>6, <1>7, <1>8, <1>9

LEMMA UnsubscribeInv ==
  ASSUME MqttInv, NEW t \in Topics, Unsubscribe(t)
  PROVE  MqttInv'
<1> USE DEF MqttInv
<1>1. /\ ~aborted
      /\ subs' = [subs EXCEPT ![t] = <<>>]
      /\ wanted' = IF link = "ended" THEN wanted ELSE wanted \ {t}
      /\ regs' = {r \in regs : r.topic # t}
      /\ UNCHANGED <<aborted, link, hooks, fired, passVars, outcome, setter>>
  BY DEF Unsubscribe, WireUnsubscribe
<1>2. /\ subs' \in [Topics -> Seq(Handlers)] /\ subs'[t] = <<>>
      /\ \A u \in Topics : u # t => subs'[u] = subs[u]
  BY <1>1 DEF TypeOK
<1>3. TypeOK'
  BY <1>1, <1>2 DEF TypeOK, passVars
<1>4. TableOnWire'
  <2>1. IsInjective(subs'[t])
    BY <1>2 DEF IsInjective
  <2>2. \A u \in Topics : IsInjective(subs'[u])
    BY <1>2, <2>1 DEF TableOnWire
  <2>3. QED
    BY <1>1, <1>2, <2>2 DEF TableOnWire
<1>5. HooksInPlace'
  BY <1>1 DEF HooksInPlace
<1>6. SnapshotOnce'
  BY <1>1 DEF SnapshotOnce, passVars, Elements
<1>7. Reuse \/ OneEach'
  BY <1>1 DEF OneEach
<1>8. ASSUME ~Reuse PROVE SubscriptionsStand'
  <2> SUFFICES ASSUME NEW u \in Topics PROVE Elements(subs'[u]) = Registered(regs', u)
    BY DEF SubscriptionsStand, Elements, Registered
  <2>1. Elements(subs[u]) = Registered(regs, u)
    BY <1>8 DEF SubscriptionsStand
  <2>2. CASE u = t
    BY <1>1, <1>2, <2>2 DEF Elements, Registered
  <2>3. CASE u # t
    <3>1. Registered(regs', u) = Registered(regs, u)
      BY <1>1, <2>3 DEF Registered
    <3>2. QED
      BY <1>2, <2>1, <2>3, <3>1
  <2>4. QED
    BY <2>2, <2>3
<1>9. QED
  BY <1>3, <1>4, <1>5, <1>6, <1>7, <1>8

LEMMA AbortInv ==
  ASSUME MqttInv, Abort
  PROVE  MqttInv'
<1> USE DEF MqttInv
<1>1. /\ aborted' = TRUE /\ link' = "ended"
      /\ subs' = [t \in Topics |-> <<>>] /\ hooks' = {} /\ regs' = {}
      /\ outcome' = [p \in Publishes |-> IF outcome[p] = "pending" THEN "aborted" ELSE outcome[p]]
      /\ UNCHANGED <<wanted, fired, passVars, setter>>
  BY DEF Abort
<1>2. subs' \in [Topics -> Seq(Handlers)]
  BY <1>1
<1>3. /\ outcome' \in [Publishes -> {"none", "pending", "resolved", "failed", "aborted"}]
      /\ \A p \in Publishes : outcome'[p] # "pending"
  BY <1>1 DEF TypeOK
<1>4. TypeOK'
  BY <1>1, <1>2, <1>3 DEF TypeOK, passVars
<1>5. TableOnWire'
  BY <1>1, <1>3 DEF TableOnWire, IsInjective
<1>6. HooksInPlace' /\ OneEach'
  BY <1>1 DEF HooksInPlace, OneEach
<1>7. SnapshotOnce'
  BY <1>1 DEF SnapshotOnce, passVars, Elements
<1>8. SubscriptionsStand'
  BY <1>1 DEF SubscriptionsStand, Elements, Registered
<1>9. QED
  BY <1>4, <1>5, <1>6, <1>7, <1>8

-----------------------------------------------------------------------------
(* The steps that leave the table alone.                                   *)

\* The client goes on as it was: no publish becomes pending once it is
\* aborted, and the transport does not come back.
GoesOn == /\ UNCHANGED <<aborted, tableVars, fired>>
          /\ link' = "ended" \/ link # "ended"
          /\ aborted => \A p \in Publishes : outcome'[p] = "pending" => outcome[p] = "pending"

LEMMA GoesOnInv ==
  ASSUME MqttInv, TypeOK', GoesOn, SnapshotOnce'
  PROVE  MqttInv'
<1> USE DEF MqttInv
<1>1. UNCHANGED <<aborted, wanted, subs, hooks, regs, fired>>
  BY DEF GoesOn, tableVars
<1>2. TableOnWire'
  <2>1. aborted' => link' = "ended"
    BY <1>1 DEF GoesOn, TableOnWire
  <2>2. QED
    BY <1>1, <2>1 DEF GoesOn, TableOnWire
<1>3. HooksInPlace' /\ (OneEach => OneEach')
  BY <1>1 DEF HooksInPlace, OneEach
<1>4. SubscriptionsStand => SubscriptionsStand'
  BY <1>1 DEF SubscriptionsStand, Elements, Registered
<1>5. QED
  BY <1>2, <1>3, <1>4

Outcomes == {"none", "pending", "resolved", "failed", "aborted"}
Setting == {"none", "running", "late", "done", "warned", "error"}

\* What a step may do to publishes and setters of an aborted client.
Quiet == aborted => /\ \A p \in Publishes : outcome'[p] = "pending" => outcome[p] = "pending"
                    /\ \A i \in Setters : setter'[i] = "running" => setter[i] = "running"

LEMMA HandOverFacts ==
  ASSUME TypeOK, NEW p \in Publishes, HandOver(p)
  PROVE  /\ outcome' \in [Publishes -> Outcomes]
         /\ aborted => \A q \in Publishes : outcome'[q] = "pending" => outcome[q] = "pending"
<1> DEFINE answer == CASE aborted -> "aborted"
                      [] ~aborted /\ link = "ended" -> "failed"
                      [] OTHER -> "pending"
<1>1. outcome' = [outcome EXCEPT ![p] = answer]
  BY DEF HandOver
<1>2. answer \in Outcomes /\ (aborted => answer = "aborted")
  BY DEF Outcomes
<1> HIDE DEF answer
<1>3. QED
  BY <1>1, <1>2 DEF TypeOK, Outcomes

LEMMA InvokeFacts ==
  ASSUME TypeOK, NEW h \in Handlers, NEW message, Invoke(h, message)
  PROVE  /\ outcome' \in [Publishes -> Outcomes] /\ setter' \in [Setters -> Setting]
         /\ Quiet
<1>1. Kind[h] \in {"raw", "get", "set"}
  BY MqttAssumption
<1>2. CASE Kind[h] = "raw"
  BY <1>2 DEF Invoke, Quiet, TypeOK, Outcomes, Setting
<1>3. CASE Kind[h] = "get"
  <2>1. /\ UNCHANGED setter
        /\ (\E p \in Publishes : HandOver(p)) \/ UNCHANGED outcome
    BY <1>3 DEF Invoke
  <2>2. ASSUME NEW p \in Publishes, HandOver(p)
        PROVE  /\ outcome' \in [Publishes -> Outcomes]
               /\ aborted => \A q \in Publishes : outcome'[q] = "pending" => outcome[q] = "pending"
    BY <2>2, HandOverFacts
  <2>3. QED
    BY <2>1, <2>2 DEF Quiet, TypeOK, Outcomes, Setting
<1>4. CASE Kind[h] = "set"
  <2>1. PICK i \in Setters : StartSetter(i) /\ UNCHANGED outcome
    BY <1>4 DEF Invoke
  <2>2. setter' = [setter EXCEPT ![i] = IF aborted THEN "warned" ELSE "running"]
    BY <2>1 DEF StartSetter
  <2>3. QED
    BY <2>1, <2>2 DEF Quiet, TypeOK, Outcomes, Setting
<1>5. QED
  BY <1>1, <1>2, <1>3, <1>4

\* publish() and its answers.
LEMMA PublishInv ==
  ASSUME MqttInv, NEW p \in Publishes, Publish(p) \/ PublishAborts(p) \/ PublishReturns(p)
  PROVE  MqttInv' /\ Quiet
<1> USE DEF MqttInv
<1>1. UNCHANGED <<aborted, link, tableVars, fired, passVars, setter>>
  BY DEF Publish, PublishAborts, PublishReturns
<1>2. /\ outcome' \in [Publishes -> Outcomes]
      /\ aborted => \A q \in Publishes : outcome'[q] = "pending" => outcome[q] = "pending"
  <2>1. CASE HandOver(p)
    BY <2>1, HandOverFacts
  <2>2. CASE outcome' = [outcome EXCEPT ![p] = "aborted"]
    BY <2>2 DEF TypeOK, Outcomes
  <2>3. CASE outcome' = [outcome EXCEPT ![p] = "resolved"] \/ outcome' = [outcome EXCEPT ![p] = "failed"]
    BY <2>3 DEF TypeOK, Outcomes
  <2>4. QED
    BY <2>1, <2>2, <2>3 DEF Publish, PublishAborts, PublishReturns
<1>3. TypeOK'
  BY <1>1, <1>2 DEF TypeOK, tableVars, passVars, Outcomes
<1>4. GoesOn
  BY <1>1, <1>2 DEF GoesOn
<1>5. SnapshotOnce'
  BY <1>1 DEF SnapshotOnce, passVars, Elements
<1>6. Quiet
  BY <1>1, <1>2 DEF Quiet
<1>7. QED
  BY <1>3, <1>4, <1>5, <1>6, GoesOnInv

\* The events of the transport.
LEMMA LinkInv ==
  ASSUME MqttInv, Connect \/ Disconnect \/ HostNotFound
  PROVE  MqttInv' /\ Quiet
<1> USE DEF MqttInv
<1>1. /\ UNCHANGED <<aborted, tableVars, fired, passVars, outcome, setter>>
      /\ link \in {"connecting", "up", "down"} /\ link' \in {"up", "down", "ended"}
  BY DEF Connect, Disconnect, HostNotFound
<1>2. TypeOK'
  BY <1>1 DEF TypeOK, tableVars, passVars
<1>3. GoesOn /\ Quiet
  BY <1>1 DEF GoesOn, Quiet
<1>4. SnapshotOnce'
  BY <1>1 DEF SnapshotOnce, passVars, Elements
<1>5. QED
  BY <1>2, <1>3, <1>4, GoesOnInv

\* Set-handler invocations.
LEMMA SetterInv ==
  ASSUME MqttInv, NEW i \in Setters, SetterTimesOut(i) \/ SetterEnds(i)
  PROVE  MqttInv' /\ Quiet
<1> USE DEF MqttInv
<1>1. /\ UNCHANGED <<aborted, link, tableVars, fired, passVars, outcome>>
      /\ \E how \in Setting \ {"running"} : setter' = [setter EXCEPT ![i] = how]
  BY DEF SetterTimesOut, SetterEnds, Setting
<1>2. setter' \in [Setters -> Setting] /\ \A j \in Setters : setter'[j] = "running" => setter[j] = "running"
  BY <1>1 DEF TypeOK, Setting
<1>3. TypeOK'
  BY <1>1, <1>2 DEF TypeOK, tableVars, passVars, Setting
<1>4. GoesOn /\ Quiet
  BY <1>1, <1>2 DEF GoesOn, Quiet
<1>5. SnapshotOnce'
  BY <1>1 DEF SnapshotOnce, passVars, Elements
<1>6. QED
  BY <1>3, <1>4, <1>5, GoesOnInv

\* The snapshot of a dispatch is a list without repetition, and loses its head.
LEMMA SnapshotStep ==
  ASSUME TypeOK, NEW q \in Seq(Handlers), q # <<>>, IsInjective(q),
         running' = q[1], rest' = Tail(q)
  PROVE  /\ SnapshotOnce' /\ running' \in Handlers /\ rest' \in Seq(Handlers)
         /\ running' # None
         /\ Elements(q) = {running'} \cup Elements(rest')
<1>1. /\ q[1] \in Handlers /\ Tail(q) \in Seq(Handlers)
      /\ Elements(q) = {q[1]} \cup Elements(Tail(q))
      /\ q[1] \notin Elements(Tail(q)) /\ IsInjective(Tail(q))
  BY HeadTailFacts
<1>2. q[1] # None
  BY <1>1, MqttAssumption
<1>3. Elements(rest') = Elements(Tail(q))
  BY DEF Elements
<1>4. SnapshotOnce'
  BY <1>1, <1>2, <1>3 DEF SnapshotOnce, Elements
<1>5. QED
  BY <1>1, <1>2, <1>3, <1>4

LEMMA MessageInv ==
  ASSUME MqttInv, NEW t \in Topics, Message(t)
  PROVE  /\ MqttInv' /\ Quiet
         /\ Elements(subs[t]) = {running'} \cup Elements(rest') /\ running' # None
<1> USE DEF MqttInv
<1>1. /\ link = "up" /\ subs[t] # <<>> /\ payload' \in BOOLEAN
      /\ running' = subs[t][1] /\ rest' = Tail(subs[t])
      /\ Invoke(running', payload')
      /\ UNCHANGED <<aborted, link, tableVars, fired>>
  BY DEF Message
<1>2. subs[t] \in Seq(Handlers) /\ IsInjective(subs[t])
  BY DEF TypeOK, TableOnWire
<1>3. /\ SnapshotOnce' /\ running' \in Handlers /\ rest' \in Seq(Handlers)
      /\ running' # None
      /\ Elements(subs[t]) = {running'} \cup Elements(rest')
  BY <1>1, <1>2, SnapshotStep
<1>4. outcome' \in [Publishes -> Outcomes] /\ setter' \in [Setters -> Setting] /\ Quiet
  BY <1>1, <1>3, InvokeFacts
<1>5. TypeOK'
  BY <1>1, <1>3, <1>4 DEF TypeOK, tableVars, Outcomes, Setting
<1>6. GoesOn
  BY <1>1, <1>4 DEF GoesOn, Quiet
<1>7. QED
  BY <1>3, <1>4, <1>5, <1>6, GoesOnInv

LEMMA HandlerReturnsInv ==
  ASSUME MqttInv, HandlerReturns
  PROVE  /\ MqttInv' /\ Quiet
         /\ Elements(rest) = Elements(rest') \cup ({running'} \ {None})
<1> USE DEF MqttInv
<1>1. UNCHANGED <<aborted, link, tableVars, fired, payload>>
  BY DEF HandlerReturns
<1>2. rest \in Seq(Handlers) /\ IsInjective(rest)
  BY DEF TypeOK, SnapshotOnce
<1>3. CASE rest = <<>>
  <2>1. running' = None /\ rest' = <<>> /\ UNCHANGED <<outcome, setter>>
    BY <1>3 DEF HandlerReturns, Remaining
  <2>2. SnapshotOnce'
    BY <2>1 DEF SnapshotOnce, Elements, IsInjective
  <2>3. TypeOK'
    BY <1>1, <2>1 DEF TypeOK, tableVars
  <2>4. GoesOn /\ Quiet
    BY <1>1, <2>1 DEF GoesOn, Quiet
  <2>5. Elements(rest) = Elements(rest') \cup ({running'} \ {None})
    BY <1>3, <2>1 DEF Elements
  <2>6. QED
    BY <2>2, <2>3, <2>4, <2>5, GoesOnInv
<1>4. CASE rest # <<>>
  <2>1. running' = rest[1] /\ rest' = Tail(rest) /\ Invoke(rest[1], payload)
    BY <1>4 DEF HandlerReturns, Remaining
  <2>2. /\ SnapshotOnce' /\ running' \in Handlers /\ rest' \in Seq(Handlers)
        /\ running' # None
        /\ Elements(rest) = {running'} \cup Elements(rest')
    BY <1>2, <1>4, <2>1, SnapshotStep
  <2>3. outcome' \in [Publishes -> Outcomes] /\ setter' \in [Setters -> Setting] /\ Quiet
    BY <2>1, <2>2, InvokeFacts
  <2>4. TypeOK'
    BY <1>1, <2>2, <2>3 DEF TypeOK, tableVars, Outcomes, Setting
  <2>5. GoesOn
    BY <1>1, <2>3 DEF GoesOn, Quiet
  <2>6. QED
    BY <2>2, <2>3, <2>4, <2>5, GoesOnInv
<1>5. QED
  BY <1>3, <1>4

-----------------------------------------------------------------------------
LEMMA StutterInv ==
  ASSUME MqttInv, UNCHANGED vars
  PROVE  MqttInv' /\ Quiet
<1> USE DEF MqttInv
<1>1. /\ UNCHANGED <<aborted, link, fired, outcome, setter>> /\ UNCHANGED <<wanted, subs, hooks, regs>>
      /\ UNCHANGED <<rest, running, payload>>
  BY DEF vars, tableVars, passVars
<1>2. TypeOK' /\ GoesOn /\ Quiet
  BY <1>1 DEF TypeOK, GoesOn, Quiet, tableVars
<1>3. SnapshotOnce'
  BY <1>1 DEF SnapshotOnce, Elements
<1>4. QED
  BY <1>2, <1>3, GoesOnInv

LEMMA StepInv == MqttInv /\ [Next]_vars => MqttInv' /\ Quiet
<1> SUFFICES ASSUME MqttInv, [Next]_vars PROVE MqttInv' /\ Quiet
  OBVIOUS
<1>1. CASE UNCHANGED vars
  BY <1>1, StutterInv
<1>2. ASSUME NEW t \in Topics, NEW h \in Handlers, NEW s \in Signals \cup {None}, Subscribe(t, h, s)
      PROVE  MqttInv' /\ Quiet
  <2>1. Quiet
    BY <1>2 DEF Subscribe, Quiet
  <2>2. QED
    BY <1>2, <2>1, SubscribeInv
<1>3. ASSUME NEW s \in Signals, SignalAborts(s) PROVE MqttInv' /\ Quiet
  <2>1. Quiet
    BY <1>3 DEF SignalAborts, Quiet
  <2>2. QED
    BY <1>3, <2>1, SignalAbortsInv
<1>4. ASSUME NEW t \in Topics, Unsubscribe(t) PROVE MqttInv' /\ Quiet
  <2>1. Quiet
    BY <1>4 DEF Unsubscribe, Quiet
  <2>2. QED
    BY <1>4, <2>1, UnsubscribeInv
<1>5. ASSUME NEW t \in Topics, Message(t) PROVE MqttInv' /\ Quiet
  BY <1>5, MessageInv
<1>6. ASSUME NEW p \in Publishes, Publish(p) \/ PublishAborts(p) \/ PublishReturns(p)
      PROVE  MqttInv' /\ Quiet
  BY <1>6, PublishInv
<1>7. ASSUME NEW i \in Setters, SetterTimesOut(i) \/ SetterEnds(i) PROVE MqttInv' /\ Quiet
  BY <1>7, SetterInv
<1>8. CASE Abort
  <2>1. Quiet
    BY <1>8 DEF Abort, Quiet
  <2>2. QED
    BY <1>8, <2>1, AbortInv
<1>9. CASE Connect \/ Disconnect \/ HostNotFound
  BY <1>9, LinkInv
<1>10. CASE HandlerReturns
  BY <1>10, HandlerReturnsInv
<1>11. QED
  BY <1>1, <1>2, <1>3, <1>4, <1>5, <1>6, <1>7, <1>8, <1>9, <1>10 DEF Next

\* Table, wire, abort listeners and dispatch agree in every state, whatever
\* is called from inside handlers and whatever the network does; and as long
\* as no function is handed in twice, the table is what subscribers were
\* promised.
THEOREM MqttCorrect == Spec => []MqttInv
BY InitInv, StepInv, PTL DEF Spec

\* An aborted client starts no setter and hands no publish to the library,
\* although the handlers left in a snapshot are still called.
THEOREM AbortIsFinal == Spec => NothingStartsAfterAbort
<1>1. MqttInv /\ [Next]_vars =>
        [aborted => /\ \A p \in Publishes : outcome'[p] = "pending" => outcome[p] = "pending"
                    /\ \A i \in Setters : setter'[i] = "running" => setter[i] = "running"]_vars
  BY StepInv DEF Quiet
<1>2. QED
  BY <1>1, MqttCorrect, PTL DEF Spec, NothingStartsAfterAbort

-----------------------------------------------------------------------------
(* The contract. *)

\* Who must still be told of the message at hand.
dueNow == Elements(rest) \cup ({running} \ {None})

\* Steps that subscribers do not see.
LEMMA UnseenStep ==
  ASSUME UNCHANGED <<aborted, regs, fired, rest, running>>
  PROVE  UNCHANGED Contract!vars
<1>1. dueNow' = dueNow
  BY DEF dueNow, Elements
<1>2. QED
  BY <1>1 DEF Contract!vars, dueNow

LEMMA StepContract ==
  ASSUME ~Reuse, MqttInv, MqttInv', [Next]_vars
  PROVE  [Contract!Next]_(Contract!vars)
<1>1. CASE UNCHANGED vars
  BY <1>1, UnseenStep DEF vars, tableVars, passVars
<1>2. ASSUME NEW t \in Topics, NEW h \in Handlers, NEW s \in Signals \cup {None}, Subscribe(t, h, s)
      PROVE  Contract!Next
  <2> DEFINE r == [topic |-> t, handler |-> h, signal |-> s]
  <2>1. r \in Contract!Subscription
    BY DEF Contract!Subscription
  <2>2. /\ ~aborted /\ s \notin fired /\ regs' = regs \cup {r}
        /\ UNCHANGED <<aborted, fired, rest, running>>
    BY <1>2 DEF Subscribe, passVars
  <2>3. dueNow' = dueNow
    BY <2>2 DEF dueNow, Elements
  <2>4. Contract!Subscribe(r)
    BY <2>2, <2>3 DEF Contract!Subscribe, dueNow
  <2>5. QED
    BY <2>1, <2>4 DEF Contract!Next
<1>3. ASSUME NEW s \in Signals, SignalAborts(s) PROVE Contract!Next
  <2>1. /\ fired' = fired \cup {s} /\ regs' = {r \in regs : r.signal # s}
        /\ UNCHANGED <<aborted, rest, running>>
    BY <1>3 DEF SignalAborts, passVars
  <2>2. dueNow' = dueNow
    BY <2>1 DEF dueNow, Elements
  <2>3. Contract!SignalAborts(s)
    BY <2>1, <2>2 DEF Contract!SignalAborts, dueNow
  <2>4. QED
    BY <2>3 DEF Contract!Next
<1>4. ASSUME NEW t \in Topics, Unsubscribe(t) PROVE Contract!Next
  <2>1. /\ ~aborted /\ regs' = {r \in regs : r.topic # t}
        /\ UNCHANGED <<aborted, fired, rest, running>>
    BY <1>4 DEF Unsubscribe, passVars
  <2>2. dueNow' = dueNow
    BY <2>1 DEF dueNow, Elements
  <2>3. Contract!Unsubscribe(t)
    BY <2>1, <2>2 DEF Contract!Unsubscribe, dueNow
  <2>4. QED
    BY <2>3 DEF Contract!Next
<1>5. ASSUME NEW t \in Topics, Message(t) PROVE Contract!Next
  <2>1. running = None /\ link = "up" /\ UNCHANGED <<aborted, tableVars, fired>>
    BY <1>5 DEF Message, Free
  <2>2. ~aborted
    BY <2>1 DEF MqttInv, TableOnWire
  <2>3. dueNow = {}
    BY <2>1 DEF dueNow, MqttInv, SnapshotOnce, Elements
  <2>4. dueNow' = Elements(subs[t])
    BY <1>5, MessageInv DEF dueNow
  <2>5. Elements(subs[t]) = Contract!Told(t)
    BY DEF MqttInv, SubscriptionsStand, Registered, Contract!Told
  <2>6. Contract!Message(t)
    BY <2>1, <2>2, <2>3, <2>4, <2>5 DEF Contract!Message, dueNow, tableVars
  <2>7. QED
    BY <2>6 DEF Contract!Next
<1>6. ASSUME NEW p \in Publishes, Publish(p) \/ PublishAborts(p) \/ PublishReturns(p)
      PROVE  UNCHANGED Contract!vars
  <2>1. UNCHANGED <<aborted, tableVars, fired, passVars>>
    BY <1>6 DEF Publish, PublishAborts, PublishReturns
  <2>2. QED
    BY <2>1, UnseenStep DEF tableVars, passVars
<1>7. ASSUME NEW i \in Setters, SetterTimesOut(i) \/ SetterEnds(i) PROVE UNCHANGED Contract!vars
  <2>1. UNCHANGED <<aborted, tableVars, fired, passVars>>
    BY <1>7 DEF SetterTimesOut, SetterEnds
  <2>2. QED
    BY <2>1, UnseenStep DEF tableVars, passVars
<1>8. CASE Abort
  <2>1. aborted' = TRUE /\ regs' = {} /\ UNCHANGED <<fired, rest, running>>
    BY <1>8 DEF Abort, passVars
  <2>2. dueNow' = dueNow
    BY <2>1 DEF dueNow, Elements
  <2>3. Contract!Close
    BY <2>1, <2>2 DEF Contract!Close, dueNow
  <2>4. QED
    BY <2>3 DEF Contract!Next
<1>9. CASE Connect \/ Disconnect \/ HostNotFound
  <2>1. UNCHANGED <<aborted, tableVars, fired, passVars>>
    BY <1>9 DEF Connect, Disconnect, HostNotFound
  <2>2. QED
    BY <2>1, UnseenStep DEF tableVars, passVars
<1>10. CASE HandlerReturns
  <2>1. running # None /\ running \in Handlers /\ running \notin Elements(rest)
    BY <1>10 DEF HandlerReturns, Free, MqttInv, TypeOK, SnapshotOnce
  <2>2. dueNow' = Elements(rest)
    BY <1>10, HandlerReturnsInv DEF dueNow
  <2>3. running \in dueNow /\ dueNow' = dueNow \ {running}
    BY <2>1, <2>2 DEF dueNow
  <2>4. UNCHANGED <<aborted, regs, fired>>
    BY <1>10 DEF HandlerReturns, tableVars
  <2>5. Contract!Tell(running)
    BY <2>3, <2>4 DEF Contract!Tell, dueNow
  <2>6. QED
    BY <2>1, <2>5 DEF Contract!Next
<1>11. QED
  BY <1>1, <1>2, <1>3, <1>4, <1>5, <1>6, <1>7, <1>8, <1>9, <1>10 DEF Next

\* Every message reaches those who stood subscribed when it came, once each,
\* whatever they do to the table meanwhile, and a subscription ends by its
\* signal, its topic or the client and by nothing else - provided no function
\* is handed in twice.
THEOREM MqttContract == ASSUME ~Reuse PROVE Spec => ImplementsTopicSubscriptions
<1>1. Init => Contract!Init
  <2> SUFFICES ASSUME Init PROVE Contract!Init
    OBVIOUS
  <2>1. dueNow = {}
    BY DEF Init, dueNow, Elements
  <2>2. (~aborted) \in BOOLEAN
    OBVIOUS
  <2>3. QED
    BY <2>1, <2>2 DEF Init, Contract!Init, dueNow
<1>2. MqttInv /\ MqttInv' /\ [Next]_vars => [Contract!Next]_(Contract!vars)
  BY StepContract
<1>3. QED
  BY <1>1, <1>2, MqttCorrect, PTL DEF Spec, ImplementsTopicSubscriptions, Contract!Spec
=============================================================================
