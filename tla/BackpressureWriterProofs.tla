---------------------- MODULE BackpressureWriterProofs ----------------------
(***************************************************************************)
(* The write queue keeps its order and strands nothing, for every set of   *)
(* writes and streams and every ceiling.                                   *)
(***************************************************************************)
EXTENDS BackpressureWriter, SequenceTheorems, TLAPS

USE DEF Drain, Outcome, Success, Failure, Disposal

-----------------------------------------------------------------------------
(* Sequences without repeats. *)

LEMMA NothingQueued == Elements(<<>>) = {} /\ NoRepeats(<<>>)
BY EmptySeq DEF Elements, NoRepeats

\* Appending a newcomer.
LEMMA Appended ==
  ASSUME NEW S, NEW q \in Seq(S), NEW e \in S
  PROVE  /\ Append(q, e) \in Seq(S)
         /\ Len(Append(q, e)) = Len(q) + 1
         /\ Append(q, e) # <<>>
         /\ Elements(Append(q, e)) = Elements(q) \cup {e}
         /\ NoRepeats(q) /\ e \notin Elements(q) => NoRepeats(Append(q, e))
         /\ q # <<>> => Head(Append(q, e)) = Head(q)
         /\ q = <<>> => Head(Append(q, e)) = e
<1> DEFINE a == Append(q, e)
<1>1. /\ a \in Seq(S) /\ a # <<>> /\ Len(a) = Len(q) + 1
      /\ \A i \in 1..Len(q) : a[i] = q[i]
      /\ a[Len(q) + 1] = e
      /\ Len(q) \in Nat
  BY AppendProperties, LenProperties
<1>2. Head(a) = IF q = <<>> THEN e ELSE Head(q)
  BY HeadTailAppend
<1> HIDE DEF a
<1>3. Elements(a) = Elements(q) \cup {e}
  <2>1. ASSUME NEW x \in Elements(a) PROVE x \in Elements(q) \cup {e}
    <3>1. PICK i \in 1..Len(a) : x = a[i]
      BY <2>1 DEF Elements
    <3>2. CASE i = Len(q) + 1
      BY <1>1, <3>1, <3>2
    <3>3. CASE i # Len(q) + 1
      <4>1. i \in 1..Len(q)
        BY <1>1, <3>3
      <4>2. QED
        BY <1>1, <3>1, <4>1 DEF Elements
    <3>4. QED
      BY <3>2, <3>3
  <2>2. ASSUME NEW x \in Elements(q) PROVE x \in Elements(a)
    <3>1. PICK i \in 1..Len(q) : x = q[i]
      BY <2>2 DEF Elements
    <3>2. i \in 1..Len(a) /\ a[i] = x
      BY <1>1, <3>1
    <3>3. QED
      BY <3>2 DEF Elements
  <2>3. e \in Elements(a)
    <3>1. Len(q) + 1 \in 1..Len(a)
      BY <1>1
    <3>2. QED
      BY <1>1, <3>1 DEF Elements
  <2>4. QED
    BY <2>1, <2>2, <2>3
<1>4. ASSUME NoRepeats(q), e \notin Elements(q) PROVE NoRepeats(a)
  <2>1. SUFFICES ASSUME NEW i \in 1..Len(a), NEW j \in 1..Len(a),
                        a[i] = a[j]
                 PROVE  i = j
    BY DEF NoRepeats
  <2>2. \A k \in 1..Len(q) : a[k] # e
    BY <1>1, <1>4 DEF Elements
  <2>3. CASE i \in 1..Len(q) /\ j \in 1..Len(q)
    BY <1>1, <1>4, <2>1, <2>3 DEF NoRepeats
  <2>4. CASE i = Len(q) + 1 \/ j = Len(q) + 1
    BY <1>1, <2>1, <2>2, <2>4
  <2>5. QED
    BY <1>1, <2>3, <2>4
<1>5. QED
  BY <1>1, <1>2, <1>3, <1>4 DEF a

\* Taking the head off.
LEMMA Shifted ==
  ASSUME NEW S, NEW q \in Seq(S), q # <<>>, NoRepeats(q)
  PROVE  /\ Tail(q) \in Seq(S)
         /\ Head(q) \in Elements(q)
         /\ Head(q) \in S
         /\ Len(Tail(q)) = Len(q) - 1
         /\ Elements(Tail(q)) = Elements(q) \ {Head(q)}
         /\ NoRepeats(Tail(q))
<1> DEFINE t == Tail(q)
<1>1. /\ t \in Seq(S) /\ Head(q) \in S
      /\ Len(t) = Len(q) - 1
      /\ \A i \in 1..Len(t) : t[i] = q[i + 1]
      /\ Len(q) \in Nat /\ Len(q) > 0
  BY HeadTailProperties, LenProperties, EmptySeq
<1>2. Head(q) = q[1]
  BY <1>1
<1> HIDE DEF t
<1>3. ASSUME NEW x \in Elements(t) PROVE x \in Elements(q) \ {Head(q)}
  <2>1. PICK i \in 1..Len(t) : x = t[i]
    BY <1>3 DEF Elements
  <2>2. i + 1 \in 1..Len(q) /\ 1 \in 1..Len(q) /\ x = q[i + 1] /\ i + 1 # 1
    BY <1>1, <2>1
  <2>3. q[i + 1] # q[1]
    BY <2>2 DEF NoRepeats
  <2>4. QED
    BY <1>2, <2>2, <2>3 DEF Elements
<1>4. ASSUME NEW x \in Elements(q), x # Head(q) PROVE x \in Elements(t)
  <2>1. PICK i \in 1..Len(q) : x = q[i]
    BY <1>4 DEF Elements
  <2>2. i # 1
    BY <1>2, <1>4, <2>1
  <2>3. i - 1 \in 1..Len(t) /\ t[i - 1] = q[(i - 1) + 1]
    BY <1>1, <2>1, <2>2
  <2>4. (i - 1) + 1 = i
    OBVIOUS
  <2>5. QED
    BY <2>1, <2>3, <2>4 DEF Elements
<1>5. NoRepeats(t)
  <2>1. SUFFICES ASSUME NEW i \in 1..Len(t), NEW j \in 1..Len(t),
                        t[i] = t[j]
                 PROVE  i = j
    BY DEF NoRepeats
  <2>2. i + 1 \in 1..Len(q) /\ j + 1 \in 1..Len(q) /\ q[i + 1] = q[j + 1]
    BY <1>1, <2>1
  <2>3. i + 1 = j + 1
    BY <2>2 DEF NoRepeats
  <2>4. QED
    BY <2>3
<1>6. Head(q) \in Elements(q)
  BY <1>1, <1>2 DEF Elements
<1>7. QED
  BY <1>1, <1>3, <1>4, <1>5, <1>6 DEF t

-----------------------------------------------------------------------------
(* How settling changes the promises. *)

\* Settling touches pending promises only, and keeps the types.
LEMMA Settled ==
  ASSUME TypeOK, NEW S, NEW v \in Success \cup Failure
  PROVE  /\ SettleAll(S, v) \in [Writes -> Outcome]
         /\ \A w \in Writes :
              /\ SettleAll(S, v)[w] = "pending"
                   <=> outcome[w] = "pending" /\ w \notin S
              /\ SettleAll(S, v)[w] = "none" <=> outcome[w] = "none"
BY DEF TypeOK, SettleAll

\* Answering the head and taking it off keeps queue and promises in step.
LEMMA HeadAnswered ==
  ASSUME WriterInv, queue # <<>>, NEW v \in Success \cup Failure,
         queue' = Tail(queue), outcome' = SettleAll({Head(queue)}, v),
         aborted' = aborted
  PROVE  /\ queue' \in Seq(Writes) /\ outcome' \in [Writes -> Outcome]
         /\ QueueIsPending'
<1>1. /\ queue \in Seq(Writes) /\ NoRepeats(queue)
      /\ aborted => queue = <<>>
      /\ Len(queue) <= HighWaterMark
      /\ \A w \in Writes : outcome[w] = "pending" <=> w \in Elements(queue)
  BY DEF WriterInv, TypeOK, QueueIsPending
<1>2. /\ Tail(queue) \in Seq(Writes)
      /\ Len(Tail(queue)) = Len(queue) - 1
      /\ Elements(Tail(queue)) = Elements(queue) \ {Head(queue)}
      /\ NoRepeats(Tail(queue))
  BY <1>1, Shifted
<1>3. /\ outcome' \in [Writes -> Outcome]
      /\ \A w \in Writes : outcome'[w] = "pending"
                           <=> outcome[w] = "pending" /\ w # Head(queue)
  BY Settled DEF WriterInv
<1>4. Len(queue') <= HighWaterMark
  BY <1>1, <1>2, LenProperties, WriterAssumption
<1>5. ~aborted
  BY <1>1
<1>6. \A w \in Writes : outcome'[w] = "pending" <=> w \in Elements(queue')
  BY <1>1, <1>2, <1>3
<1>7. QueueIsPending'
  BY <1>2, <1>4, <1>5, <1>6 DEF QueueIsPending
<1>8. QED
  BY <1>2, <1>3, <1>7

\* Rejecting the whole queue and emptying it does too.
LEMMA QueueRejected ==
  ASSUME WriterInv, outcome' = SettleAll(Elements(queue), "aborted"),
         queue' = <<>>
  PROVE  /\ queue' \in Seq(Writes) /\ outcome' \in [Writes -> Outcome]
         /\ \A w \in Writes : outcome'[w] # "pending"
         /\ \A w \in Writes : outcome'[w] = "none" <=> outcome[w] = "none"
         /\ QueueIsPending'
<1>1. /\ outcome' \in [Writes -> Outcome]
      /\ \A w \in Writes : outcome'[w] = "pending"
           <=> outcome[w] = "pending" /\ w \notin Elements(queue)
      /\ \A w \in Writes : outcome'[w] = "none" <=> outcome[w] = "none"
  BY Settled DEF WriterInv
<1>2. \A w \in Writes : outcome'[w] # "pending"
  BY <1>1 DEF WriterInv, QueueIsPending
<1>3. Len(<<>>) = 0 /\ <<>> \in Seq(Writes)
  BY EmptySeq
<1>4. Elements(queue') = {} /\ NoRepeats(queue')
  BY NothingQueued DEF Elements, NoRepeats
<1>5. Len(queue') <= HighWaterMark
  BY <1>3, WriterAssumption
<1>6. QueueIsPending'
  BY <1>2, <1>4, <1>5 DEF QueueIsPending
<1>7. QED
  BY <1>1, <1>2, <1>3, <1>6

-----------------------------------------------------------------------------
(* One lemma per kind of step. *)

LEMMA WriteInv ==
  ASSUME WriterInv, NEW w \in Writes, Write(w)
  PROVE  WriterInv'
<1> USE DEF WriterInv
<1>1. /\ outcome[w] = "none" /\ ~aborted /\ Len(queue) < HighWaterMark
      /\ queue' = Append(queue, w)
      /\ outcome' = [outcome EXCEPT ![w] = "pending"]
      /\ drain' = IF drain = "idle" THEN "running" ELSE drain
      /\ UNCHANGED <<entry, target, current, writable, full, aborted,
                     disposal, sent>>
  BY DEF Write
<1>2. /\ queue \in Seq(Writes) /\ outcome \in [Writes -> Outcome]
      /\ drain \in Drain
  BY DEF TypeOK
<1>3. w \notin Elements(queue)
  BY <1>1 DEF QueueIsPending
<1>4. /\ queue' \in Seq(Writes) /\ Len(queue') = Len(queue) + 1
      /\ queue' # <<>>
      /\ Elements(queue') = Elements(queue) \cup {w}
      /\ NoRepeats(queue')
      /\ queue # <<>> => Head(queue') = Head(queue)
  BY <1>1, <1>2, <1>3, Appended DEF QueueIsPending
<1>5. TypeOK'
  BY <1>1, <1>2, <1>4 DEF TypeOK
<1>6. Len(queue') <= HighWaterMark
  BY <1>1, <1>2, <1>4, LenProperties, WriterAssumption
<1>7. \A x \in Writes : outcome'[x] = "pending" <=> x \in Elements(queue')
  BY <1>1, <1>2, <1>4 DEF QueueIsPending
<1>8. QueueIsPending'
  BY <1>1, <1>4, <1>6, <1>7 DEF QueueIsPending, Elements, NoRepeats
<1>9. LoopOwnsHead'
  BY <1>1, <1>2, <1>4 DEF LoopOwnsHead
<1>10. w \notin Elements(sent)
  BY <1>1 DEF SentOnce
<1>11. SentOnce'
  <2>1. Elements(sent)' = Elements(sent) /\ NoRepeats(sent)'
    BY <1>1 DEF Elements, NoRepeats, SentOnce
  <2>2. Elements(sent) \subseteq Writes
    BY ElementOfSeq DEF TypeOK, Elements
  <2>3. QED
    BY <1>1, <1>2, <1>10, <2>1, <2>2 DEF SentOnce
<1>12. QED
  BY <1>5, <1>8, <1>9, <1>11

\* A step that answers the head: dropped, refused by a dead stream, flushed.
LEMMA LoopAnswersInv ==
  ASSUME WriterInv, LoopDrops \/ LoopMeetsClosed \/ LoopFlushes
  PROVE  WriterInv'
<1> USE DEF WriterInv
<1>1. /\ drain = "running" /\ queue # <<>> /\ ~aborted
      /\ UNCHANGED <<drain, entry, target, current, writable, full, aborted,
                     disposal>>
  BY DEF LoopDrops, LoopMeetsClosed, LoopFlushes, Looping
<1>2. PICK v \in Success \cup Failure :
        outcome' = SettleAll({Head(queue)}, v)
  BY DEF LoopDrops, LoopMeetsClosed, LoopFlushes
<1>3. queue' = Tail(queue)
  BY <1>1 DEF LoopDrops, LoopMeetsClosed, LoopFlushes, Shift
<1>4. /\ queue' \in Seq(Writes) /\ outcome' \in [Writes -> Outcome]
      /\ QueueIsPending'
  BY <1>1, <1>2, <1>3, HeadAnswered
<1>5. LoopOwnsHead'
  BY <1>1 DEF LoopOwnsHead
<1>6. /\ \A w \in Writes : outcome'[w] = "none" <=> outcome[w] = "none"
      /\ \A w \in Writes : outcome'[w] = "pending"
           <=> outcome[w] = "pending" /\ w # Head(queue)
  BY <1>2, Settled
<1>7. Elements(sent) \subseteq Writes
  BY ElementOfSeq DEF TypeOK, Elements
<1>8. Head(queue) \in Elements(queue) /\ Head(queue) \in Writes
  BY <1>1, Shifted DEF TypeOK, QueueIsPending
<1>9. outcome[Head(queue)] = "pending" /\ entry = None
  BY <1>1, <1>8 DEF QueueIsPending, LoopOwnsHead
<1>10. sent' \in Seq(Writes) /\ SentOnce'
  <2>1. CASE LoopFlushes
    <3>1. sent' = Append(sent, Head(queue))
      BY <2>1 DEF LoopFlushes
    <3>2. Head(queue) \notin Elements(sent)
      BY <1>8, <1>9, WriterAssumption DEF SentOnce
    <3>3. /\ sent' \in Seq(Writes)
          /\ Elements(sent') = Elements(sent) \cup {Head(queue)}
          /\ NoRepeats(sent')
      BY <1>8, <3>1, <3>2, Appended DEF TypeOK, SentOnce
    <3>4. Elements(sent)' = Elements(sent') /\ NoRepeats(sent)'
      BY <3>3 DEF Elements, NoRepeats
    <3>5. QED
      BY <1>1, <1>6, <1>7, <1>8, <1>9, <3>3, <3>4 DEF SentOnce
  <2>2. CASE LoopDrops \/ LoopMeetsClosed
    <3>1. sent' = sent
      BY <2>2 DEF LoopDrops, LoopMeetsClosed
    <3>2. Elements(sent)' = Elements(sent) /\ NoRepeats(sent)'
      BY <3>1 DEF Elements, NoRepeats, SentOnce
    <3>3. QED
      BY <1>1, <1>6, <1>7, <3>1, <3>2 DEF SentOnce, TypeOK
  <2>3. QED
    BY <2>1, <2>2
<1>11. TypeOK'
  BY <1>1, <1>4, <1>10 DEF TypeOK
<1>12. QED
  BY <1>4, <1>5, <1>10, <1>11

LEMMA LoopParksInv ==
  ASSUME WriterInv, LoopParks
  PROVE  WriterInv'
<1> USE DEF WriterInv
<1>1. /\ drain = "running" /\ queue # <<>> /\ ~aborted
      /\ current \in writable
      /\ sent' = Append(sent, Head(queue))
      /\ entry' = Head(queue) /\ target' = current
      /\ full' = full \cup {current} /\ drain' = "parked"
      /\ UNCHANGED <<queue, outcome, current, writable, aborted, disposal>>
  BY DEF LoopParks, Looping
<1>2. /\ Head(queue) \in Elements(queue) /\ Head(queue) \in Writes
      /\ Head(queue) # None
  BY <1>1, Shifted, WriterAssumption DEF TypeOK, QueueIsPending
<1>3. outcome[Head(queue)] = "pending" /\ entry = None
  BY <1>1, <1>2 DEF QueueIsPending, LoopOwnsHead
<1>4. Head(queue) \notin Elements(sent)
  BY <1>2, <1>3 DEF SentOnce
<1>5. /\ sent' \in Seq(Writes)
      /\ Elements(sent') = Elements(sent) \cup {Head(queue)}
      /\ NoRepeats(sent')
  BY <1>1, <1>2, <1>4, Appended DEF TypeOK, SentOnce
<1>6. TypeOK'
  BY <1>1, <1>2, <1>5 DEF TypeOK
<1>7. QueueIsPending'
  BY <1>1 DEF QueueIsPending, Elements, NoRepeats
<1>8. LoopOwnsHead'
  <2>1. current \in Streams
    BY <1>1 DEF TypeOK
  <2>2. QED
    BY <1>1, <1>2, <2>1 DEF LoopOwnsHead
<1>9. SentOnce'
  <2>1. Elements(sent)' = Elements(sent') /\ NoRepeats(sent)'
    BY <1>5 DEF Elements, NoRepeats
  <2>2. Elements(sent) \subseteq Writes
    BY ElementOfSeq DEF TypeOK, Elements
  <2>3. \A w \in Elements(sent) : outcome[w] # "pending"
    BY <1>2, <1>3, <2>2, WriterAssumption DEF SentOnce
  <2>4. QED
    BY <1>1, <1>3, <1>5, <2>1, <2>3 DEF SentOnce
<1>10. QED
  BY <1>6, <1>7, <1>8, <1>9
LEMMA ResumeDrainedInv ==
  ASSUME WriterInv, ResumeDrained
  PROVE  WriterInv'
<1> USE DEF WriterInv
<1>1. /\ drain = "woken" /\ queue' = Shift
      /\ outcome' = SettleAll({entry}, "flushed")
      /\ drain' = "running" /\ entry' = None /\ target' = None
      /\ UNCHANGED <<current, writable, full, aborted, disposal, sent>>
  BY DEF ResumeDrained
<1>2. /\ outcome' \in [Writes -> Outcome]
      /\ \A w \in Writes : outcome'[w] = "none" <=> outcome[w] = "none"
      /\ \A w \in Writes : outcome'[w] = "pending"
           <=> outcome[w] = "pending" /\ w # entry
  BY <1>1, Settled
<1>3. queue' \in Seq(Writes) /\ QueueIsPending'
  <2>1. CASE aborted
    <3>1. queue = <<>> /\ queue' = queue
      BY <1>1, <2>1 DEF QueueIsPending, Shift
    <3>2. \A w \in Writes : outcome[w] # "pending"
      BY <3>1, NothingQueued DEF QueueIsPending
    <3>3. \A w \in Writes : outcome'[w] # "pending"
      BY <1>2, <3>2
    <3>4. QED
      BY <1>1, <3>1, <3>3, NothingQueued DEF QueueIsPending, TypeOK
  <2>2. CASE ~aborted
    <3>1. queue # <<>> /\ entry = Head(queue)
      BY <1>1, <2>2 DEF LoopOwnsHead
    <3>2. queue' = Tail(queue)
      BY <1>1, <3>1 DEF Shift
    <3>3. QED
      BY <1>1, <3>1, <3>2, HeadAnswered
  <2>3. QED
    BY <2>1, <2>2
<1>4. LoopOwnsHead'
  BY <1>1 DEF LoopOwnsHead
<1>5. SentOnce'
  <2>1. Elements(sent) \subseteq Writes
    BY ElementOfSeq DEF TypeOK, Elements
  <2>2. QED
    BY <1>1, <1>2, <2>1 DEF SentOnce
<1>6. TypeOK'
  BY <1>1, <1>2, <1>3 DEF TypeOK
<1>7. QED
  BY <1>3, <1>4, <1>5, <1>6

\* The signal fires, from outside or from the loop's own catch.
LEMMA FireInv ==
  ASSUME WriterInv, Fire, ~aborted, disposal' \in Disposal,
         UNCHANGED <<entry, target, current, writable, full, sent>>
  PROVE  WriterInv'
<1> USE DEF WriterInv
<1>1. /\ aborted' = TRUE
      /\ outcome' = SettleAll(Elements(queue), "aborted")
      /\ queue' = <<>>
      /\ drain' = IF drain = "parked" THEN "cancelled" ELSE drain
  BY DEF Fire, Teardown, WaitAborted
<1>2. /\ queue' \in Seq(Writes) /\ outcome' \in [Writes -> Outcome]
      /\ \A w \in Writes : outcome'[w] # "pending"
      /\ \A w \in Writes : outcome'[w] = "none" <=> outcome[w] = "none"
      /\ QueueIsPending'
  BY <1>1, QueueRejected
<1>3. LoopOwnsHead'
  BY <1>1 DEF LoopOwnsHead
<1>4. SentOnce'
  <2>1. Elements(sent) \subseteq Writes
    BY ElementOfSeq DEF TypeOK, Elements
  <2>2. QED
    BY <1>2, <2>1 DEF SentOnce
<1>5. TypeOK'
  BY <1>1, <1>2 DEF TypeOK
<1>6. QED
  BY <1>2, <1>3, <1>4, <1>5

LEMMA ResumeAbortedInv ==
  ASSUME WriterInv, ResumeAborted
  PROVE  WriterInv'
<1> USE DEF WriterInv
<1>1. /\ aborted /\ queue' = Shift
      /\ outcome' = SettleAll({entry}, "aborted")
      /\ drain' = "idle" /\ entry' = None /\ target' = None
      /\ UNCHANGED <<current, writable, full, aborted, disposal, sent>>
  BY DEF ResumeAborted, LoopOwnsHead
<1>2. queue = <<>> /\ queue' = queue
  BY <1>1 DEF QueueIsPending, Shift
<1>3. \A w \in Writes : outcome[w] # "pending"
  BY <1>2, NothingQueued DEF QueueIsPending
<1>4. outcome' = outcome
  BY <1>1, <1>3 DEF SettleAll, TypeOK
<1>5. LoopOwnsHead'
  BY <1>1, <1>2 DEF LoopOwnsHead
<1>6. SentOnce'
  <2>1. Elements(sent) \subseteq Writes
    BY ElementOfSeq DEF TypeOK, Elements
  <2>2. QED
    BY <1>1, <1>3, <1>4, <2>1 DEF SentOnce
<1>7. TypeOK'
  BY <1>1, <1>2, <1>4 DEF TypeOK
<1>8. QueueIsPending'
  BY <1>1, <1>2, <1>4 DEF QueueIsPending
<1>9. QED
  BY <1>5, <1>6, <1>7, <1>8

\* The loop's catch answers the head with the error and rejects the rest.
LEMMA BrokenFacts ==
  ASSUME WriterInv, ResumeBroken
  PROVE  /\ queue # <<>> /\ entry = Head(queue) /\ entry \in Writes
         /\ outcome[entry] = "pending"
         /\ outcome' \in [Writes -> Outcome]
         /\ outcome'[entry] = "error"
         /\ \A w \in Writes \ {entry} :
              outcome'[w] = IF outcome[w] = "pending" THEN "aborted"
                            ELSE outcome[w]
<1> USE DEF WriterInv
<1>1. /\ drain = "broken" /\ ~aborted
      /\ outcome' = [w \in Writes |->
                       IF w = entry THEN "error"
                       ELSE SettleAll(Elements(Shift), "aborted")[w]]
  BY DEF ResumeBroken, Teardown
<1>2. queue # <<>> /\ entry = Head(queue)
  BY <1>1 DEF LoopOwnsHead
<1>3. /\ entry \in Elements(queue) /\ entry \in Writes
      /\ Elements(Shift) = Elements(queue) \ {entry}
  BY <1>2, Shifted DEF TypeOK, QueueIsPending, Shift
<1>4. outcome[entry] = "pending"
  BY <1>3 DEF QueueIsPending
<1>5. \A w \in Writes \ {entry} :
        outcome[w] = "pending" <=> w \in Elements(Shift)
  BY <1>3 DEF QueueIsPending
<1>6. \A w \in Writes \ {entry} :
        outcome'[w] = IF outcome[w] = "pending" THEN "aborted"
                      ELSE outcome[w]
  BY <1>1, <1>5 DEF SettleAll
<1>7. outcome'[entry] = "error"
  BY <1>1, <1>3
<1>8. outcome' \in [Writes -> Outcome]
  BY <1>1 DEF SettleAll, TypeOK
<1>9. QED
  BY <1>2, <1>3, <1>4, <1>6, <1>7, <1>8

LEMMA ResumeBrokenInv ==
  ASSUME WriterInv, ResumeBroken
  PROVE  WriterInv'
<1> USE DEF WriterInv
<1>1. /\ aborted' = TRUE /\ queue' = <<>>
      /\ drain' = "idle" /\ entry' = None /\ target' = None
      /\ UNCHANGED <<current, writable, full, disposal, sent>>
  BY DEF ResumeBroken
<1>2. /\ outcome' \in [Writes -> Outcome]
      /\ \A w \in Writes : outcome'[w] # "pending"
      /\ \A w \in Writes : outcome'[w] = "none" <=> outcome[w] = "none"
  BY BrokenFacts
<1>3. Len(<<>>) = 0 /\ <<>> \in Seq(Writes)
  BY EmptySeq
<1>4. QueueIsPending'
  BY <1>1, <1>2, <1>3, NothingQueued, WriterAssumption DEF QueueIsPending
<1>5. LoopOwnsHead'
  BY <1>1 DEF LoopOwnsHead
<1>6. SentOnce'
  <2>1. Elements(sent) \subseteq Writes
    BY ElementOfSeq DEF TypeOK, Elements
  <2>2. QED
    BY <1>1, <1>2, <2>1 DEF SentOnce
<1>7. TypeOK'
  BY <1>1, <1>2, <1>3 DEF TypeOK
<1>8. QED
  BY <1>4, <1>5, <1>6, <1>7
\* Refusing a call changes that call's promise only.
LEMMA RefusedInv ==
  ASSUME WriterInv, NEW w \in Writes, WriteRefused(w)
  PROVE  WriterInv'
<1> USE DEF WriterInv
<1>1. /\ outcome[w] = "none"
      /\ \/ outcome' = [outcome EXCEPT ![w] = "aborted"]
         \/ outcome' = [outcome EXCEPT ![w] = "overflow"]
      /\ UNCHANGED <<queue, drain, entry, target, current, writable, full,
                     aborted, disposal, sent>>
  BY DEF WriteRefused
<1>2. \A x \in Writes : outcome'[x] = "pending" <=> outcome[x] = "pending"
  BY <1>1 DEF TypeOK
<1>3. \A x \in Writes : outcome'[x] = "none" => outcome[x] = "none"
  BY <1>1 DEF TypeOK
<1>4. TypeOK'
  BY <1>1 DEF TypeOK
<1>5. QueueIsPending'
  BY <1>1, <1>2 DEF QueueIsPending
<1>6. LoopOwnsHead'
  BY <1>1 DEF LoopOwnsHead
<1>7. SentOnce'
  <2>1. Elements(sent) \subseteq Writes
    BY ElementOfSeq DEF TypeOK, Elements
  <2>2. QED
    BY <1>1, <1>2, <1>3, <2>1 DEF SentOnce
<1>8. QED
  BY <1>4, <1>5, <1>6, <1>7

\* Events and bookkeeping that touch neither queue nor promises.
LEMMA QuietInv ==
  ASSUME WriterInv, UNCHANGED <<queue, outcome, entry, target, aborted, sent>>,
         current' \in Streams \cup {None},
         writable' \in SUBSET Streams, full' \in SUBSET Streams,
         disposal' \in Disposal,
         \/ drain' = drain
         \/ drain = "parked" /\ drain' \in {"woken", "broken"}
         \/ drain = "running" /\ drain' = "idle" /\ queue = <<>>
  PROVE  WriterInv'
<1> USE DEF WriterInv
<1>1. TypeOK'
  BY DEF TypeOK
<1>2. QueueIsPending'
  BY DEF QueueIsPending
<1>3. LoopOwnsHead'
  BY DEF LoopOwnsHead, TypeOK
<1>4. SentOnce'
  BY DEF SentOnce
<1>5. QED
  BY <1>1, <1>2, <1>3, <1>4

LEMMA StepInv == WriterInv /\ [Next]_vars => WriterInv'
<1> SUFFICES ASSUME WriterInv, [Next]_vars PROVE WriterInv'
  OBVIOUS
<1>0. /\ current \in Streams \cup {None} /\ writable \in SUBSET Streams
      /\ full \in SUBSET Streams /\ disposal \in Disposal
  BY DEF WriterInv, TypeOK
<1>1. ASSUME NEW w \in Writes, Write(w) PROVE WriterInv'
  BY <1>1, WriteInv
<1>2. ASSUME NEW w \in Writes, WriteRefused(w) PROVE WriterInv'
  BY <1>2, RefusedInv
<1>3. CASE Abort
  BY <1>0, <1>3, FireInv DEF Abort
<1>4. CASE Dispose
  <2>1. CASE aborted
    BY <1>0, <1>4, <2>1, QuietInv DEF Dispose
  <2>2. CASE ~aborted
    BY <1>4, <2>2, FireInv DEF Dispose
  <2>3. QED
    BY <2>1, <2>2
<1>5. CASE DisposeReturns
  BY <1>0, <1>5, QuietInv DEF DisposeReturns
<1>6. CASE LoopExits
  <2>1. queue = <<>>
    BY <1>6 DEF LoopExits, WriterInv, QueueIsPending
  <2>2. QED
    BY <1>0, <1>6, <2>1, QuietInv DEF LoopExits
<1>7. CASE LoopDrops \/ LoopMeetsClosed \/ LoopFlushes
  BY <1>7, LoopAnswersInv
<1>8. CASE LoopParks
  BY <1>8, LoopParksInv
<1>9. CASE ResumeDrained
  BY <1>9, ResumeDrainedInv
<1>10. CASE ResumeAborted
  BY <1>10, ResumeAbortedInv
<1>11. CASE ResumeBroken
  BY <1>11, ResumeBrokenInv
<1>12. CASE Replace
  BY <1>0, <1>12, QuietInv DEF Replace
<1>13. ASSUME NEW s \in Streams, StreamDrains(s) PROVE WriterInv'
  BY <1>0, <1>13, QuietInv DEF StreamDrains
<1>14. ASSUME NEW s \in Streams, StreamFails(s) PROVE WriterInv'
  BY <1>0, <1>14, QuietInv DEF StreamFails
<1>15. ASSUME NEW s \in Streams, StreamCloses(s) PROVE WriterInv'
  BY <1>0, <1>15, QuietInv DEF StreamCloses
<1>16. CASE UNCHANGED vars
  BY <1>0, <1>16, QuietInv DEF vars
<1>17. QED
  BY <1>1, <1>2, <1>3, <1>4, <1>5, <1>6, <1>7, <1>8, <1>9, <1>10, <1>11,
     <1>12, <1>13, <1>14, <1>15, <1>16 DEF Next, Loop

LEMMA InitWriterInv == Init => WriterInv
<1> SUFFICES ASSUME Init PROVE WriterInv
  OBVIOUS
<1>1. <<>> \in Seq(Writes) /\ Len(<<>>) = 0
  BY EmptySeq
<1>2. TypeOK
  BY <1>1 DEF Init, TypeOK
<1>3. QueueIsPending /\ LoopOwnsHead /\ SentOnce
  BY <1>1, NothingQueued, WriterAssumption
  DEF Init, QueueIsPending, LoopOwnsHead, SentOnce
<1>4. QED
  BY <1>2, <1>3 DEF WriterInv

\* The queue holds exactly the unanswered writes within its ceiling, no
\* write is stranded without a loop, and no chunk goes out twice.
THEOREM WriterInvariant == Spec => []WriterInv
BY InitWriterInv, StepInv, PTL DEF Spec

-----------------------------------------------------------------------------
(* The refinement. *)

\* Rejecting all that is pending is the abstract Close.
LEMMA CloseRefines ==
  ASSUME ~aborted, aborted' = TRUE, queue' = <<>>, sent' = sent,
         outcome \in [Writes -> Outcome],
         outcome' \in [Writes -> Outcome],
         \A w \in Writes : IF outcome[w] = "pending"
                           THEN outcome'[w] \in Failure
                           ELSE outcome'[w] = outcome[w]
  PROVE  OW!Next
<1>1. Fate' = [w \in Writes |-> IF Fate[w] = "waiting" THEN "failed"
                               ELSE Fate[w]]
  BY DEF Fate
<1>2. OW!Close
  BY <1>1 DEF OW!Close
<1>3. QED
  BY <1>2 DEF OW!Next

\* The signal fires.
LEMMA FireRefines ==
  ASSUME WriterInv, Fire, ~aborted, sent' = sent
  PROVE  OW!Next
<1>1. /\ aborted' = TRUE /\ queue' = <<>>
      /\ outcome' = SettleAll(Elements(queue), "aborted")
  BY DEF Fire, Teardown
<1>2. \A w \in Writes : outcome[w] = "pending" <=> w \in Elements(queue)
  BY DEF WriterInv, QueueIsPending
<1>3. /\ outcome \in [Writes -> Outcome]
      /\ outcome' = [w \in Writes |-> IF outcome[w] = "pending"
                                      THEN "aborted" ELSE outcome[w]]
  BY <1>1, <1>2 DEF SettleAll, WriterInv, TypeOK
<1>4. QED
  BY <1>1, <1>3, CloseRefines

\* The head is answered; its chunk may go out in the same step.
LEMMA AnswerRefines ==
  ASSUME WriterInv, ~aborted, queue # <<>>, queue' = Tail(queue),
         aborted' = aborted,
         NEW v \in Success \cup Failure,
         outcome' = SettleAll({Head(queue)}, v),
         \/ sent' = sent
         \/ /\ v \in Success /\ sent' = Append(sent, Head(queue))
            /\ Head(queue) \notin Elements(sent)
  PROVE  OW!Next
<1> DEFINE f == IF v \in Success THEN "ok" ELSE "failed"
<1>1. /\ outcome \in [Writes -> Outcome] /\ Head(queue) \in Writes
      /\ outcome[Head(queue)] = "pending"
  BY Shifted DEF WriterInv, TypeOK, QueueIsPending
<1>2. outcome' = [outcome EXCEPT ![Head(queue)] = v]
  BY <1>1 DEF SettleAll
<1>3. Fate' = [Fate EXCEPT ![Head(queue)] = f]
  BY <1>1, <1>2 DEF Fate
<1>4. OW!Answer(f) /\ UNCHANGED aborted
  BY <1>3 DEF OW!Answer
<1>5. CASE sent' = sent
  BY <1>4, <1>5 DEF OW!Serve, OW!Next
<1>6. CASE v \in Success /\ sent' = Append(sent, Head(queue))
           /\ Head(queue) \notin Elements(sent)
  <2>1. \A i \in 1..Len(sent) : sent[i] # Head(queue)
    BY <1>6 DEF Elements
  <2>2. OW!Hand
    BY <1>6, <2>1 DEF OW!Hand
  <2>3. f = "ok"
    BY <1>6
  <2> HIDE DEF f
  <2>4. QED
    BY <1>4, <2>2, <2>3 DEF OW!Serve, OW!Next
<1>7. QED
  BY <1>5, <1>6
\* The head's chunk is not out yet while the loop runs.
LEMMA HeadUnsent ==
  ASSUME WriterInv, queue # <<>>, entry = None
  PROVE  Head(queue) \notin Elements(sent)
<1>1. Head(queue) \in Writes /\ outcome[Head(queue)] = "pending"
  BY Shifted DEF WriterInv, TypeOK, QueueIsPending
<1>2. QED
  BY <1>1, WriterAssumption DEF WriterInv, SentOnce

\* A step of the writer is a step of the ordered writer, or none.
LEMMA StepRefines == WriterInv /\ [Next]_vars => [OW!Next]_OW!vars
<1> SUFFICES ASSUME WriterInv, [Next]_vars PROVE [OW!Next]_OW!vars
  OBVIOUS
<1>0. outcome \in [Writes -> Outcome] /\ queue \in Seq(Writes)
  BY DEF WriterInv, TypeOK
<1>1. ASSUME UNCHANGED <<queue, outcome, aborted, sent>>
      PROVE  [OW!Next]_OW!vars
  BY <1>1 DEF OW!vars, Fate
<1>2. ASSUME NEW w \in Writes, Write(w) PROVE OW!Next
  <2>1. /\ outcome[w] = "none" /\ ~aborted
        /\ queue' = Append(queue, w)
        /\ outcome' = [outcome EXCEPT ![w] = "pending"]
        /\ UNCHANGED <<aborted, sent>>
    BY <1>2 DEF Write
  <2>2. Fate[w] = "new" /\ Fate' = [Fate EXCEPT ![w] = "waiting"]
    BY <1>0, <2>1 DEF Fate
  <2>3. OW!Accept(w)
    BY <2>1, <2>2 DEF OW!Accept
  <2>4. QED
    BY <2>3 DEF OW!Next
<1>3. ASSUME NEW w \in Writes, WriteRefused(w) PROVE OW!Next
  <2>1. PICK v \in {"aborted", "overflow"} :
          outcome' = [outcome EXCEPT ![w] = v]
    BY <1>3 DEF WriteRefused
  <2>2. outcome[w] = "none" /\ UNCHANGED <<queue, aborted, sent>>
    BY <1>3 DEF WriteRefused
  <2>3. Fate[w] = "new" /\ Fate' = [Fate EXCEPT ![w] = "failed"]
    BY <1>0, <2>1, <2>2 DEF Fate
  <2>4. OW!Refuse(w)
    BY <2>2, <2>3 DEF OW!Refuse
  <2>5. QED
    BY <2>4 DEF OW!Next
<1>4. CASE Abort
  BY <1>4, FireRefines DEF Abort
<1>5. CASE Dispose
  BY <1>1, <1>5, FireRefines DEF Dispose
<1>6. CASE LoopDrops \/ LoopMeetsClosed
  <2>1. /\ queue # <<>> /\ ~aborted /\ queue' = Tail(queue)
        /\ UNCHANGED <<aborted, sent>>
    BY <1>6 DEF LoopDrops, LoopMeetsClosed, Looping, Shift
  <2>2. \E v \in Success \cup Failure :
          outcome' = SettleAll({Head(queue)}, v)
    BY <1>6 DEF LoopDrops, LoopMeetsClosed
  <2>3. QED
    BY <2>1, <2>2, AnswerRefines
<1>7. CASE LoopFlushes
  <2>1. /\ queue # <<>> /\ ~aborted /\ queue' = Tail(queue)
        /\ aborted' = aborted /\ drain = "running"
        /\ outcome' = SettleAll({Head(queue)}, "flushed")
        /\ sent' = Append(sent, Head(queue))
    BY <1>7 DEF LoopFlushes, Looping, Shift
  <2>2. Head(queue) \notin Elements(sent)
    BY <2>1, HeadUnsent DEF WriterInv, LoopOwnsHead
  <2>3. QED
    BY <2>1, <2>2, AnswerRefines
<1>8. CASE LoopParks
  <2>1. /\ queue # <<>> /\ ~aborted /\ drain = "running"
        /\ sent' = Append(sent, Head(queue))
        /\ UNCHANGED <<queue, outcome, aborted>>
    BY <1>8 DEF LoopParks, Looping
  <2>2. Head(queue) \notin Elements(sent)
    BY <2>1, HeadUnsent DEF WriterInv, LoopOwnsHead
  <2>3. OW!Hand
    BY <2>1, <2>2 DEF OW!Hand, Elements
  <2>4. Fate' = Fate
    BY <2>1 DEF Fate
  <2>5. QED
    BY <2>1, <2>3, <2>4 DEF OW!Serve, OW!Next
<1>9. CASE ResumeDrained
  <2>1. /\ drain = "woken" /\ queue' = Shift
        /\ outcome' = SettleAll({entry}, "flushed")
        /\ UNCHANGED <<aborted, sent>>
    BY <1>9 DEF ResumeDrained
  <2>2. CASE aborted
    <3>1. queue = <<>>
      BY <2>2 DEF WriterInv, QueueIsPending
    <3>2. \A w \in Writes : outcome[w] # "pending"
      BY <3>1, NothingQueued DEF WriterInv, QueueIsPending
    <3>3. outcome' = outcome
      BY <1>0, <2>1, <3>2 DEF SettleAll
    <3>4. QED
      BY <1>1, <2>1, <3>1, <3>3 DEF Shift
  <2>3. CASE ~aborted
    <3>1. queue # <<>> /\ entry = Head(queue)
      BY <2>1, <2>3 DEF WriterInv, LoopOwnsHead
    <3>2. QED
      BY <2>1, <2>3, <3>1, AnswerRefines DEF Shift
  <2>4. QED
    BY <2>2, <2>3
<1>10. CASE ResumeAborted
  <2>1. /\ aborted /\ queue' = Shift
        /\ outcome' = SettleAll({entry}, "aborted")
        /\ UNCHANGED <<aborted, sent>>
    BY <1>10 DEF ResumeAborted, WriterInv, LoopOwnsHead
  <2>2. queue = <<>>
    BY <2>1 DEF WriterInv, QueueIsPending
  <2>3. \A w \in Writes : outcome[w] # "pending"
    BY <2>2, NothingQueued DEF WriterInv, QueueIsPending
  <2>4. outcome' = outcome
    BY <1>0, <2>1, <2>3 DEF SettleAll
  <2>5. QED
    BY <1>1, <2>1, <2>2, <2>4 DEF Shift
<1>11. CASE ResumeBroken
  <2>1. /\ ~aborted /\ aborted' = TRUE /\ queue' = <<>> /\ sent' = sent
    BY <1>11 DEF ResumeBroken
  <2>2. /\ outcome' \in [Writes -> Outcome]
        /\ \A w \in Writes : IF outcome[w] = "pending"
                             THEN outcome'[w] \in Failure
                             ELSE outcome'[w] = outcome[w]
    BY <1>11, BrokenFacts
  <2>3. QED
    BY <1>0, <2>1, <2>2, CloseRefines
<1>12. CASE DisposeReturns \/ LoopExits \/ Replace \/ UNCHANGED vars
  BY <1>1, <1>12 DEF DisposeReturns, LoopExits, Replace, vars
<1>13. ASSUME NEW s \in Streams,
              StreamDrains(s) \/ StreamFails(s) \/ StreamCloses(s)
       PROVE  [OW!Next]_OW!vars
  BY <1>1, <1>13 DEF StreamDrains, StreamFails, StreamCloses
<1>14. QED
  BY <1>2, <1>3, <1>4, <1>5, <1>6, <1>7, <1>8, <1>9, <1>10, <1>11, <1>12,
     <1>13 DEF Next, Loop

\* Whatever streams do and whenever the writer aborts, the loop, its waits
\* and its teardown implement the ordered writer.
THEOREM Refinement == Spec => ImplementsOrderedWriter
<1>1. Init => OW!Init
  BY DEF Init, OW!Init, Fate
<1>2. QED
  BY <1>1, StepRefines, WriterInvariant, PTL
  DEF Spec, ImplementsOrderedWriter, OW!Spec
=============================================================================
