--------------------------- MODULE RecordingProofs ---------------------------
(***************************************************************************)
(* For any sequence of boxes, cut into chunks in any way, and any readers: *)
(* the assembler loses, repeats and moves no box, its promise, phase flag, *)
(* timer and generators agree, and seen from the reader it is a feed of    *)
(* the segments the boxes spell out.  And for any timeouts and             *)
(* interleaving: the child process and the assembler on its stdout end     *)
(* together, for the reason of whichever ended first; an end that reaches  *)
(* the assembler over the composed signal is one more abort.               *)
(***************************************************************************)
EXTENDS RecordingProcess, TLAPS, SequenceTheorems, FiniteSetTheorems,
        WellFoundedInduction

-----------------------------------------------------------------------------
(* Numbers, sets of numbers and sequences of consecutive ones. *)

\* A set of natural numbers has a least element.
LEMMA LeastExists ==
  ASSUME NEW T \in SUBSET Nat, T # {}
  PROVE  \E x \in T : \A y \in T : x <= y
<1> DEFINE R == OpToRel(<, Nat)
<1>1. IsWellFoundedOn(R, Nat)
  BY NatLessThanWellFounded
<1>2. ASSUME NEW x \in Nat, NEW y \in Nat, y < x PROVE <<y, x>> \in R
  BY <1>2 DEF OpToRel
<1> HIDE DEF R
<1>3. PICK x \in T : \A y \in T : ~(<<y, x>> \in R)
  BY <1>1, WFMin
<1>4. ASSUME NEW y \in T PROVE x <= y
  <2>1. x \in Nat /\ y \in Nat
    OBVIOUS
  <2>2. ~(y < x)
    BY <1>2, <1>3, <2>1
  <2>3. QED
    BY <2>1, <2>2
<1>5. QED
  BY <1>4

\* A bounded one has a greatest.
LEMMA GreatestExists ==
  ASSUME NEW n \in Nat, NEW T \in SUBSET (0..n), T # {}
  PROVE  \E x \in T : \A y \in T : y <= x
<1> DEFINE U == {m \in 0..n : n - m \in T}
<1>1. \A x \in T : n - x \in U
  OBVIOUS
<1>2. U # {} /\ U \in SUBSET Nat
  <2>1. PICK x \in T : TRUE
    OBVIOUS
  <2>2. n - x \in U
    BY <1>1
  <2>3. \A m \in U : m \in Nat
    OBVIOUS
  <2> HIDE DEF U
  <2>4. QED
    BY <2>2, <2>3
<1>3. PICK u \in U : \A v \in U : u <= v
  BY <1>2, LeastExists
<1>4. n - u \in T /\ \A y \in T : y <= n - u
  BY <1>1, <1>3
<1>5. QED
  BY <1>4

\* The greatest element, as BoxesAccountedFor and Script choose it.
Greatest(T) == CHOOSE e \in T : \A d \in T : d <= e

LEMMA GreatestIs ==
  ASSUME NEW T \in SUBSET Int, NEW x \in T, \A y \in T : y <= x
  PROVE  Greatest(T) = x
<1>1. \A z \in T : (\A y \in T : y <= z) => z = x
  OBVIOUS
<1>2. QED
  BY <1>1 DEF Greatest

\* Consecutive box numbers are a sequence of box numbers.
LEMMA IntervalIsSeq ==
  ASSUME NEW a \in Nat \ {0}, NEW b \in Nat, a <= b + 1
  PROVE  /\ Interval(a, b) \in Seq(Nat)
         /\ Len(Interval(a, b)) = b + 1 - a
         /\ \A i \in 1..(b + 1 - a) : Interval(a, b)[i] = a + i - 1
<1> DEFINE n == b + 1 - a
           f == [i \in 1..n |-> a + i - 1]
<1>1. n \in Nat /\ f \in [1..n -> Nat]
  OBVIOUS
<1>2. f \in Seq(Nat)
  BY <1>1, SeqDef
<1>3. Len(f) = n
  BY <1>1, <1>2, LenProperties
<1>4. QED
  BY <1>2, <1>3 DEF Interval

LEMMA IntervalEmpty ==
  ASSUME NEW a \in Nat \ {0}
  PROVE  Interval(a, a - 1) = <<>>
<1>1. Interval(a, a - 1) \in Seq(Nat) /\ Len(Interval(a, a - 1)) = 0
  BY IntervalIsSeq
<1>2. QED
  BY <1>1, EmptySeq

LEMMA IntervalGrows ==
  ASSUME NEW a \in Nat \ {0}, NEW b \in Nat, a <= b + 1
  PROVE  Append(Interval(a, b), b + 1) = Interval(a, b + 1)
<1> DEFINE s == Append(Interval(a, b), b + 1)
           t == Interval(a, b + 1)
<1>1. /\ s \in Seq(Nat) /\ Len(s) = b + 2 - a
      /\ \A i \in 1..(b + 1 - a) : s[i] = a + i - 1
      /\ s[b + 2 - a] = b + 1
  <2> DEFINE r == Interval(a, b)
  <2>1. /\ r \in Seq(Nat) /\ Len(r) = b + 1 - a
        /\ \A i \in 1..(b + 1 - a) : r[i] = a + i - 1
    BY IntervalIsSeq
  <2>2. b + 1 \in Nat
    OBVIOUS
  <2> HIDE DEF r
  <2>3. /\ Append(r, b + 1) \in Seq(Nat)
        /\ Len(Append(r, b + 1)) = Len(r) + 1
        /\ \A i \in 1..Len(r) : Append(r, b + 1)[i] = r[i]
        /\ Append(r, b + 1)[Len(r) + 1] = b + 1
    BY <2>1, <2>2, AppendProperties
  <2>4. Len(r) + 1 = b + 2 - a
    BY <2>1
  <2>5. QED
    BY <2>1, <2>3, <2>4 DEF r
<1>2. /\ t \in Seq(Nat) /\ Len(t) = b + 2 - a
      /\ \A i \in 1..(b + 2 - a) : t[i] = a + i - 1
  BY IntervalIsSeq
<1>3. \A i \in 1..Len(s) : s[i] = t[i]
  BY <1>1, <1>2
<1> HIDE DEF s, t
<1>4. s = t
  BY <1>1, <1>2, <1>3, SeqEqual
<1>5. QED
  BY <1>4 DEF s, t

-----------------------------------------------------------------------------
(* What the boxes spell out. *)

\* The first moof is where it is, and nothing before it is one.
LEMMA FirstMoofFacts ==
  /\ Len(Boxes) \in Nat
  /\ FirstMoof \in 1..Len(Boxes) + 1
  /\ \A i \in 1..Len(Boxes) : i < FirstMoof => Boxes[i] # "moof"
  /\ FirstMoof <= Len(Boxes) => Boxes[FirstMoof] = "moof"
<1> DEFINE N == Len(Boxes)
           moofs == {i \in 1..N : Boxes[i] = "moof"}
<1>1. N \in Nat
  BY AssemblerAssumption, LenProperties
<1>2. CASE moofs = {}
  <2>1. FirstMoof = N + 1
    BY <1>2 DEF FirstMoof
  <2>2. QED
    BY <1>1, <1>2, <2>1
<1>3. CASE moofs # {}
  <2>1. moofs \in SUBSET Nat
    BY <1>1
  <2>2. PICK x \in moofs : \A y \in moofs : x <= y
    BY <1>3, <2>1, LeastExists
  <2>3. FirstMoof \in moofs /\ \A y \in moofs : FirstMoof <= y
    BY <1>3, <2>2 DEF FirstMoof
  <2>4. QED
    BY <1>1, <2>3
<1>4. QED
  BY <1>2, <1>3

\* Segments end at boxes behind the first moof.
LEMMA EndsFacts ==
  /\ Ends \subseteq 1..Len(Boxes)
  /\ \A e \in Ends : e > FirstMoof /\ Boxes[e] = "mdat"
  /\ \A i \in 1..Len(Boxes) : i > FirstMoof /\ Boxes[i] = "mdat" => i \in Ends
BY FirstMoofFacts DEF Ends

\* The last box before the segment being built, once h boxes are handled.
LastOf(h) == {e \in Ends : e <= h} \cup {FirstMoof - 1}
OpenAt(h) == Greatest(LastOf(h))

LEMMA LastOfType ==
  ASSUME NEW h \in Nat
  PROVE  /\ LastOf(h) \in SUBSET (0..Len(Boxes)) /\ LastOf(h) # {}
         /\ LastOf(h) \in SUBSET Int
<1>1. FirstMoof - 1 \in 0..Len(Boxes) /\ Len(Boxes) \in Nat
  BY FirstMoofFacts
<1>2. \A e \in Ends : e \in 0..Len(Boxes)
  BY <1>1, EndsFacts
<1>3. FirstMoof - 1 \in LastOf(h)
  BY DEF LastOf
<1>4. \A e \in LastOf(h) : e \in 0..Len(Boxes)
  BY <1>1, <1>2 DEF LastOf
<1>5. \A e \in LastOf(h) : e \in Int
  BY <1>1, <1>4
<1>6. QED
  BY <1>3, <1>4, <1>5

LEMMA OpenAtFacts ==
  ASSUME NEW h \in Nat
  PROVE  /\ OpenAt(h) \in LastOf(h) /\ OpenAt(h) \in 0..Len(Boxes)
         /\ \A d \in LastOf(h) : d <= OpenAt(h)
<1>1. LastOf(h) \in SUBSET (0..Len(Boxes)) /\ LastOf(h) # {}
  BY LastOfType
<1>2. PICK x \in LastOf(h) : \A d \in LastOf(h) : d <= x
  BY <1>1, FirstMoofFacts, GreatestExists
<1>3. OpenAt(h) = x
  BY <1>1, <1>2, GreatestIs, FirstMoofFacts DEF OpenAt
<1>4. QED
  BY <1>1, <1>2, <1>3

\* A box that ends no segment leaves the start where it is, one that does
\* moves it behind itself.
LEMMA OpenMoves ==
  ASSUME NEW h \in Nat
  PROVE  /\ h + 1 \notin Ends => LastOf(h + 1) = LastOf(h)
         /\ h + 1 \in Ends => OpenAt(h + 1) = h + 1
<1>1. ASSUME h + 1 \notin Ends PROVE LastOf(h + 1) = LastOf(h)
  <2>1. \A e \in Ends : e \in Nat /\ e # h + 1
    BY <1>1, EndsFacts, FirstMoofFacts
  <2>2. \A e \in Ends : e <= h + 1 <=> e <= h
    BY <2>1
  <2>3. QED
    BY <2>2 DEF LastOf
<1>2. ASSUME h + 1 \in Ends PROVE OpenAt(h + 1) = h + 1
  <2>1. h + 1 \in LastOf(h + 1) /\ LastOf(h + 1) \in SUBSET Int
    BY <1>2, LastOfType DEF LastOf
  <2>2. \A d \in LastOf(h + 1) : d <= h + 1
    BY <1>2, EndsFacts, FirstMoofFacts DEF LastOf
  <2>3. QED
    BY <2>1, <2>2, GreatestIs DEF OpenAt
<1>3. QED
  BY <1>1, <1>2

-----------------------------------------------------------------------------
(* Types. *)

LEMMA PhaseTypes ==
  /\ InWait \subseteq Phase /\ InLoop \subseteq Phase /\ Over \subseteq Phase
  /\ {"idle", "opened", "header", "returned", "woken", "admitted", "yielding",
      "parked", "broke", "opening", "waiting"} \subseteq Phase
BY DEF Phase, InWait, InLoop, Over

LEMMA InterruptType ==
  ASSUME TypeOK
  PROVE  Interrupt \in [Readers -> Phase]
BY PhaseTypes DEF TypeOK, Interrupt

LEMMA FireType ==
  ASSUME TypeOK, NEW reason \in Reasons, Fire(reason),
         broken' \in BOOLEAN, drain' \in {"running", "done"}
  PROVE  TypeOK'
BY InterruptType DEF TypeOK, Fire, boxVars, BoxSeq

LEMMA NextSegmentType ==
  ASSUME TypeOK, NEW r \in Readers, NextSegment(r)
  PROVE  /\ phase' \in [Readers -> Phase]
         /\ segmentQueue' \in Seq(BoxSeq)
         /\ batch' \in Seq(BoxSeq)
         /\ got' \in Seq(BoxSeq)
<1>1. CASE segmentQueue # <<>>
  <2>1. Head(segmentQueue) \in BoxSeq /\ Tail(segmentQueue) \in Seq(BoxSeq)
    BY <1>1, HeadTailProperties DEF TypeOK
  <2>2. Append(got, Head(segmentQueue)) \in Seq(BoxSeq)
    BY <2>1, AppendProperties DEF TypeOK
  <2>3. <<>> \in Seq(BoxSeq)
    BY EmptySeq
  <2>4. QED
    BY <1>1, <2>1, <2>2, <2>3, PhaseTypes DEF NextSegment, TypeOK
<1>2. CASE segmentQueue = <<>>
  BY <1>2, PhaseTypes DEF NextSegment, TypeOK
<1>3. QED
  BY <1>1, <1>2

LEMMA DrainType ==
  ASSUME TypeOK, Drain
  PROVE  TypeOK'
<1> DEFINE N == Len(Boxes)
<1>1. N \in Nat /\ Boxes \in Seq({"moof", "mdat", "other"})
  BY AssemblerAssumption, LenProperties
<1>2. CASE TakeChunk
  <2>1. Head(inbox) \in 1..2 * N /\ Tail(inbox) \in Seq(1..2 * N)
    BY <1>2, HeadTailProperties DEF TypeOK, TakeChunk
  <2>2. QED
    BY <1>1, <1>2, <2>1 DEF TakeChunk, TypeOK, boxVars, sourceVars, readerVars
<1>3. CASE Handle
  <2>1. handled < Cut /\ handled' = handled + 1
    BY <1>3 DEF Handle, HandleInitBox, HandleFirstMoof, HandleMediaBox
  <2>2. handled + 1 \in 1..N
    BY <1>1, <2>1 DEF Cut, TypeOK
  <2>3. \A s \in BoxSeq : Append(s, handled + 1) \in BoxSeq
    BY <2>2, AppendProperties DEF BoxSeq
  <2>4. Append(segmentQueue, Append(segmentParts, handled + 1)) \in Seq(BoxSeq)
    BY <2>3, AppendProperties DEF TypeOK
  <2>5. <<>> \in BoxSeq
    BY EmptySeq DEF BoxSeq
  <2>6. CASE HandleInitBox
    BY <2>1, <2>2, <2>3, <2>6
       DEF HandleInitBox, TypeOK, sourceVars, readerVars
  <2>7. CASE HandleFirstMoof
    BY <2>1, <2>2, <2>3, <2>7, PhaseTypes
       DEF HandleFirstMoof, TypeOK, sourceVars
  <2>8. CASE HandleMediaBox
    <3>1. phase' \in [Readers -> Phase]
      BY <2>8, PhaseTypes DEF HandleMediaBox, TypeOK
    <3>2. /\ segmentParts' \in BoxSeq
          /\ segmentQueue' \in Seq(BoxSeq)
          /\ watchdog' \in BOOLEAN
      <4>1. CASE Boxes[handled + 1] # "mdat"
        BY <2>3, <2>8, <4>1 DEF HandleMediaBox, TypeOK
      <4>2. CASE Boxes[handled + 1] = "mdat"
        BY <2>4, <2>5, <2>8, <4>2 DEF HandleMediaBox, TypeOK
      <4>3. QED
        BY <4>1, <4>2
    <3>3. QED
      BY <1>1, <2>1, <2>2, <2>8, <3>1, <3>2
         DEF HandleMediaBox, TypeOK, sourceVars
  <2>9. QED
    BY <1>3, <2>6, <2>7, <2>8 DEF Handle
<1>4. CASE DrainEnds
  <2>1. CASE ~Live
    BY <1>4, <2>1 DEF DrainEnds, TypeOK, boxVars, sourceVars, readerVars
  <2>2. CASE Live
    BY <1>4, <2>2, FireType DEF DrainEnds, TypeOK, Reasons
  <2>3. QED
    BY <2>1, <2>2
<1>5. QED
  BY <1>2, <1>3, <1>4 DEF Drain

LEMMA SourceType ==
  ASSUME TypeOK, Source
  PROVE  TypeOK'
<1> DEFINE N == Len(Boxes)
<1>1. N \in Nat
  BY AssemblerAssumption, LenProperties
<1>2. ASSUME NEW end \in 1..2 * N, SourceData(end) PROVE TypeOK'
  <2>1. Append(inbox, end) \in Seq(1..2 * N)
    BY AppendProperties DEF TypeOK
  <2>2. QED
    BY <1>1, <1>2, <2>1 DEF SourceData, TypeOK, boxVars, readerVars
<1>3. ASSUME SourceEnds PROVE TypeOK'
  BY <1>3, FireType DEF SourceEnds, Reasons, TypeOK
<1>4. ASSUME SourceFails PROVE TypeOK'
  BY <1>4 DEF SourceFails, TypeOK, boxVars, loopVars, readerVars
<1>5. QED
  BY <1>2, <1>3, <1>4 DEF Source

LEMMA ReaderType ==
  ASSUME TypeOK, NEW r \in Readers, Read(r) \/ Break(r) \/ AbortReader(r)
  PROVE  TypeOK'
<1>1. ASSUME NEW generator, Start(r, generator) PROVE TypeOK'
  BY <1>1, PhaseTypes
     DEF Start, AwaitInit, TypeOK, boxVars, loopVars, sourceVars
<1>2. ASSUME YieldInit(r) PROVE TypeOK'
  BY <1>2, PhaseTypes DEF YieldInit, TypeOK, boxVars, loopVars, sourceVars
<1>3. ASSUME StreamGoesOn(r) PROVE TypeOK'
  BY <1>3, PhaseTypes
     DEF StreamGoesOn, AwaitInit, TypeOK, boxVars, loopVars, sourceVars
<1>4. ASSUME Resume(r) PROVE TypeOK'
  BY <1>4, NextSegmentType DEF Resume, TypeOK, boxVars, loopVars, sourceVars
<1>5. ASSUME Pull(r) PROVE TypeOK'
  <2>1. CASE batch # <<>>
    <3>1. Head(batch) \in BoxSeq /\ Tail(batch) \in Seq(BoxSeq)
      BY <2>1, HeadTailProperties DEF TypeOK
    <3>2. Append(got, Head(batch)) \in Seq(BoxSeq)
      BY <3>1, AppendProperties DEF TypeOK
    <3>3. QED
      BY <1>5, <2>1, <3>1, <3>2
         DEF Pull, TypeOK, boxVars, loopVars, sourceVars
  <2>2. CASE batch = <<>>
    BY <1>5, <2>2, NextSegmentType
       DEF Pull, TypeOK, boxVars, loopVars, sourceVars
  <2>3. QED
    BY <2>1, <2>2
<1>6. ASSUME Break(r) PROVE TypeOK'
  <2>1. <<>> \in Seq(BoxSeq)
    BY EmptySeq
  <2>2. QED
    BY <1>6, <2>1, PhaseTypes DEF Break, TypeOK, boxVars, loopVars, sourceVars
<1>7. ASSUME AbortReader(r) PROVE TypeOK'
  <2>1. phase' \in [Readers -> Phase]
    BY <1>7, InterruptType DEF AbortReader, TypeOK
  <2>2. QED
    BY <1>7, <2>1 DEF AbortReader, TypeOK, boxVars, loopVars, sourceVars
<1>8. QED
  BY <1>1, <1>2, <1>3, <1>4, <1>5, <1>6, <1>7 DEF Read

LEMMA TypeStep ==
  ASSUME TypeOK, [Next]_vars
  PROVE  TypeOK'
<1>1. CASE Drain
  BY <1>1, DrainType
<1>2. CASE Source
  BY <1>2, SourceType
<1>3. CASE WatchdogFires
  BY <1>3, FireType DEF WatchdogFires, Reasons, TypeOK
<1>4. ASSUME NEW r \in Readers, Read(r) \/ Break(r) \/ AbortReader(r)
      PROVE  TypeOK'
  BY <1>4, ReaderType
<1>5. ASSUME NEW reason \in {"shutdown", "parent"}, Abort(reason)
      PROVE  TypeOK'
  BY <1>5, FireType DEF Abort, Reasons, TypeOK
<1>6. CASE UNCHANGED vars
  BY <1>6 DEF TypeOK, vars, boxVars, loopVars, sourceVars, readerVars
<1>7. QED
  BY <1>1, <1>2, <1>3, <1>4, <1>5, <1>6 DEF Next, Internal

-----------------------------------------------------------------------------
(* Boxes. *)

LEMMA BoxesForm ==
  BoxesAccountedFor <=>
    /\ collecting <=> handled >= FirstMoof
    /\ initParts = Interval(1, IF collecting THEN FirstMoof - 1 ELSE handled)
    /\ segmentParts = IF collecting THEN Interval(OpenAt(handled) + 1, handled)
                                    ELSE <<>>
BY DEF BoxesAccountedFor, OpenAt, LastOf, Greatest

LEMMA BoxesFormNext ==
  BoxesAccountedFor' <=>
    /\ collecting' <=> handled' >= FirstMoof
    /\ initParts' = Interval(1, IF collecting' THEN FirstMoof - 1
                                ELSE handled')
    /\ segmentParts' = IF collecting'
                       THEN Interval(OpenAt(handled') + 1, handled')
                       ELSE <<>>
BY DEF BoxesAccountedFor, OpenAt, LastOf, Greatest

\* Only the handling of a box moves boxes.
LEMMA OthersLeaveBoxes ==
  ASSUME [Next]_vars
  PROVE  Handle \/ UNCHANGED <<collecting, initParts, segmentParts, handled>>
<1>1. ASSUME NEW r \in Readers, Read(r)
      PROVE  UNCHANGED <<collecting, initParts, segmentParts, handled>>
  BY <1>1 DEF Read, Start, YieldInit, StreamGoesOn, Resume, Pull, boxVars,
              loopVars
<1>2. ASSUME NEW r \in Readers, Break(r) \/ AbortReader(r)
      PROVE  UNCHANGED <<collecting, initParts, segmentParts, handled>>
  BY <1>2 DEF Break, AbortReader, boxVars, loopVars
<1>3. ASSUME Source \/ WatchdogFires
      PROVE  UNCHANGED <<collecting, initParts, segmentParts, handled>>
  BY <1>3 DEF Source, SourceData, SourceEnds, SourceFails, WatchdogFires, Fire,
              boxVars, loopVars
<1>4. ASSUME TakeChunk \/ DrainEnds
      PROVE  UNCHANGED <<collecting, initParts, segmentParts, handled>>
  BY <1>4 DEF TakeChunk, DrainEnds, Fire, boxVars
<1>5. ASSUME NEW reason, Abort(reason)
      PROVE  UNCHANGED <<collecting, initParts, segmentParts, handled>>
  BY <1>5 DEF Abort, Fire, boxVars
<1>6. ASSUME UNCHANGED vars
      PROVE  UNCHANGED <<collecting, initParts, segmentParts, handled>>
  BY <1>6 DEF vars, boxVars, loopVars
<1>7. QED
  BY <1>1, <1>2, <1>3, <1>4, <1>5, <1>6 DEF Next, Internal, Drain

LEMMA BoxesStep ==
  ASSUME TypeOK, BoxesAccountedFor, [Next]_vars
  PROVE  BoxesAccountedFor'
<1> DEFINE N == Len(Boxes)
           h == handled
<1>1. /\ collecting <=> h >= FirstMoof
      /\ initParts = Interval(1, IF collecting THEN FirstMoof - 1 ELSE h)
      /\ segmentParts = IF collecting THEN Interval(OpenAt(h) + 1, h) ELSE <<>>
  BY BoxesForm
<1>2. h \in Nat /\ N \in Nat /\ FirstMoof \in 1..N + 1
  BY FirstMoofFacts DEF TypeOK
<1>3. CASE UNCHANGED <<collecting, initParts, segmentParts, handled>>
  BY <1>1, <1>3, BoxesFormNext
<1>4. CASE Handle
  <2>1. handled < Cut /\ handled' = h + 1 /\ h + 1 \in 1..N
    BY <1>2, <1>4, FirstMoofFacts
       DEF Handle, HandleInitBox, HandleFirstMoof, HandleMediaBox, Cut, TypeOK
  <2>2. CASE HandleInitBox
    <3>1. h + 1 # FirstMoof /\ h < FirstMoof
      BY <1>1, <1>2, <2>1, <2>2, FirstMoofFacts DEF HandleInitBox
    <3>2. initParts' = Interval(1, h + 1)
      <4>1. initParts = Interval(1, h) /\ initParts' = Append(initParts, h + 1)
        BY <1>1, <2>2 DEF HandleInitBox
      <4>2. 1 \in Nat \ {0} /\ h \in Nat /\ 1 <= h + 1
        BY <1>2
      <4>3. Append(Interval(1, h), h + 1) = Interval(1, h + 1)
        BY ONLY <4>2, IntervalGrows
      <4>4. QED
        BY <4>1, <4>3
    <3>3. QED
      BY <1>1, <1>2, <2>1, <2>2, <3>1, <3>2, BoxesFormNext DEF HandleInitBox
  <2>3. CASE HandleFirstMoof
    <3>1. h + 1 = FirstMoof
      BY <1>1, <1>2, <2>1, <2>3, FirstMoofFacts DEF HandleFirstMoof
    <3>2. OpenAt(h + 1) = h
      <4>1. \A e \in Ends : e > h + 1
        BY <3>1, EndsFacts
      <4>2. \A e \in LastOf(h + 1) : e = h
        BY <1>2, <3>1, <4>1, EndsFacts DEF LastOf
      <4>3. QED
        BY <1>2, <4>2, OpenAtFacts
    <3>3. segmentParts' = Interval(h + 1, h + 1)
      <4>1. segmentParts' = Append(segmentParts, h + 1) /\ segmentParts = <<>>
        BY <1>1, <2>3 DEF HandleFirstMoof
      <4>2. Interval(h + 1, (h + 1) - 1) = <<>>
        BY <1>2, IntervalEmpty
      <4>3. (h + 1) - 1 = h
        BY <1>2
      <4>4. h + 1 \in Nat \ {0} /\ h \in Nat /\ h + 1 <= h + 1
        BY <1>2
      <4>5. Append(Interval(h + 1, h), h + 1) = Interval(h + 1, h + 1)
        BY ONLY <4>4, IntervalGrows
      <4>6. QED
        BY <4>1, <4>2, <4>3, <4>5
    <3>4. initParts' = Interval(1, FirstMoof - 1)
      BY <1>1, <1>2, <2>3, <3>1 DEF HandleFirstMoof
    <3>5. QED
      BY <1>2, <2>1, <2>3, <3>1, <3>2, <3>3, <3>4, BoxesFormNext
         DEF HandleFirstMoof
  <2>4. CASE HandleMediaBox
    <3>1. /\ collecting /\ collecting' /\ h >= FirstMoof /\ h + 1 >= FirstMoof
          /\ initParts' = Interval(1, FirstMoof - 1)
      BY <1>1, <1>2, <2>4 DEF HandleMediaBox
    <3>2. /\ segmentParts = Interval(OpenAt(h) + 1, h)
          /\ OpenAt(h) \in Nat /\ OpenAt(h) + 1 \in Nat \ {0}
          /\ OpenAt(h) <= h
      <4>1. OpenAt(h) \in LastOf(h) /\ OpenAt(h) \in 0..N
        BY <1>2, OpenAtFacts
      <4>2. OpenAt(h) <= h
        BY <1>2, <3>1, <4>1 DEF LastOf
      <4>3. QED
        BY <1>1, <1>2, <3>1, <4>1, <4>2
    <3>3. CASE Boxes[h + 1] # "mdat"
      <4>1. h + 1 \notin Ends
        BY <3>3, EndsFacts
      <4>2. OpenAt(h + 1) = OpenAt(h)
        BY <1>2, <4>1, OpenMoves DEF OpenAt
      <4>3. segmentParts' = Append(segmentParts, h + 1)
        BY <2>4, <3>3 DEF HandleMediaBox
      <4>4. h \in Nat /\ OpenAt(h) + 1 \in Nat \ {0} /\ OpenAt(h) + 1 <= h + 1
        BY <1>2, <3>2
      <4>5. Append(Interval(OpenAt(h) + 1, h), h + 1)
              = Interval(OpenAt(h) + 1, h + 1)
        BY ONLY <4>4, IntervalGrows
      <4>6. segmentParts' = Interval(OpenAt(h) + 1, h + 1)
        BY <3>2, <4>3, <4>5
      <4>7. QED
        BY <2>1, <3>1, <4>2, <4>6, BoxesFormNext
    <3>4. CASE Boxes[h + 1] = "mdat"
      <4>1. h + 1 \in Ends
        BY <1>2, <2>1, <3>1, <3>4, EndsFacts
      <4>2. OpenAt(h + 1) = h + 1
        BY <1>2, <4>1, OpenMoves
      <4>3. segmentParts' = <<>>
        BY <2>4, <3>4 DEF HandleMediaBox
      <4>4. Interval((h + 1) + 1, ((h + 1) + 1) - 1) = <<>>
        BY <1>2, IntervalEmpty
      <4>5. ((h + 1) + 1) - 1 = h + 1
        BY <1>2
      <4>6. QED
        BY <2>1, <3>1, <4>2, <4>3, <4>4, <4>5, BoxesFormNext
    <3>5. QED
      BY <3>3, <3>4
  <2>5. QED
    BY <1>4, <2>2, <2>3, <2>4 DEF Handle
<1>5. QED
  BY <1>3, <1>4, OthersLeaveBoxes

-----------------------------------------------------------------------------
(* Phases. *)

LEMMA FirePhases ==
  ASSUME TypeOK, PhasesAgree, NEW reason \in Reasons, Fire(reason)
  PROVE  PhasesAgree'
BY DEF TypeOK, PhasesAgree, Fire, Interrupt, Live, Aborted, Reasons, InWait,
       InLoop, Over, Phase, boxVars

LEMMA InitBoxPhases ==
  ASSUME TypeOK, PhasesAgree, HandleInitBox
  PROVE  PhasesAgree'
BY DEF TypeOK, PhasesAgree, HandleInitBox, Live, Aborted, readerVars

LEMMA FirstMoofPhases ==
  ASSUME TypeOK, PhasesAgree, HandleFirstMoof
  PROVE  PhasesAgree'
BY DEF TypeOK, PhasesAgree, HandleFirstMoof, Live, Aborted, InWait, InLoop,
       Over, Phase

LEMMA MediaBoxPhases ==
  ASSUME TypeOK, PhasesAgree, HandleMediaBox
  PROVE  PhasesAgree'
<1>1. CASE Boxes[handled + 1] # "mdat"
  BY <1>1 DEF TypeOK, PhasesAgree, HandleMediaBox, Live, Aborted
<1>2. CASE Boxes[handled + 1] = "mdat"
  BY <1>2 DEF TypeOK, PhasesAgree, HandleMediaBox, Live, Aborted, InWait,
              InLoop, Over, Phase
<1>3. QED
  BY <1>1, <1>2

LEMMA DrainPhases ==
  ASSUME TypeOK, PhasesAgree, Drain
  PROVE  PhasesAgree'
<1>1. CASE TakeChunk
  BY <1>1 DEF TypeOK, PhasesAgree, TakeChunk, Live, Aborted, boxVars,
              readerVars
<1>2. CASE DrainEnds
  <2>1. CASE ~Live
    BY <1>2, <2>1 DEF PhasesAgree, DrainEnds, Live, Aborted, boxVars,
                      readerVars
  <2>2. CASE Live
    BY <1>2, <2>2, FirePhases DEF DrainEnds, Reasons
  <2>3. QED
    BY <2>1, <2>2
<1>3. QED
  BY <1>1, <1>2, InitBoxPhases, FirstMoofPhases, MediaBoxPhases
     DEF Drain, Handle

LEMMA SourcePhases ==
  ASSUME TypeOK, PhasesAgree, Source
  PROVE  PhasesAgree'
<1>1. ASSUME NEW end, SourceData(end) PROVE PhasesAgree'
  BY <1>1 DEF PhasesAgree, SourceData, Live, Aborted, boxVars, readerVars
<1>2. ASSUME SourceEnds PROVE PhasesAgree'
  BY <1>2, FirePhases DEF SourceEnds, Reasons
<1>3. ASSUME SourceFails PROVE PhasesAgree'
  BY <1>3 DEF PhasesAgree, SourceFails, Live, Aborted, boxVars, readerVars
<1>4. QED
  BY <1>1, <1>2, <1>3 DEF Source

\* A generator at work has no rival, so what is in the batch is its own.
LEMMA BatchIsMine ==
  ASSUME TypeOK, PhasesAgree, NEW r \in Readers,
         phase[r] \in {"admitted", "woken", "header", "opened"}
  PROVE  batch = <<>>
BY DEF TypeOK, PhasesAgree, Over

LEMMA NextSegmentPhases ==
  ASSUME TypeOK, PhasesAgree, NEW r \in Readers, NextSegment(r),
         phase[r] \in {"admitted", "woken", "yielding"}, batch = <<>>,
         UNCHANGED <<life, header, collecting, watchdog, own>>
  PROVE  PhasesAgree'
<1>1. CASE segmentQueue # <<>>
  BY <1>1 DEF TypeOK, PhasesAgree, NextSegment, Live, Aborted, InWait, InLoop,
              Over, Phase
<1>2. CASE segmentQueue = <<>>
  BY <1>2 DEF TypeOK, PhasesAgree, NextSegment, Live, Aborted, InWait, InLoop,
              Over, Phase
<1>3. QED
  BY <1>1, <1>2

LEMMA ReaderPhases ==
  ASSUME TypeOK, PhasesAgree, NEW r \in Readers,
         Read(r) \/ Break(r) \/ AbortReader(r)
  PROVE  PhasesAgree'
<1>1. ASSUME NEW generator, Start(r, generator) PROVE PhasesAgree'
  <2>1. PICK to \in {"returned", "opened", "admitted", "opening", "waiting"} :
          /\ phase' = [phase EXCEPT ![r] = to]
          /\ to \in {"opened", "admitted"} => header = "resolved"
          /\ to \in InWait => header # "resolved" /\ ~Aborted(r)
    BY <1>1 DEF Start, AwaitInit, InWait
  <2>2. to \in InWait => header = "pending"
    BY <2>1 DEF TypeOK, PhasesAgree, Aborted
  <2>3. QED
    BY <1>1, <2>1, <2>2
       DEF TypeOK, PhasesAgree, Start, Live, Aborted, InWait, InLoop, Over,
           Phase, boxVars
<1>2. ASSUME YieldInit(r) PROVE PhasesAgree'
  BY <1>2 DEF TypeOK, PhasesAgree, YieldInit, Live, Aborted, InWait, InLoop,
              Over, Phase, boxVars
<1>3. ASSUME StreamGoesOn(r) PROVE PhasesAgree'
  BY <1>3 DEF TypeOK, PhasesAgree, StreamGoesOn, AwaitInit, Live, Aborted,
              InWait, InLoop, Over, Phase, boxVars
<1>4. ASSUME Resume(r) PROVE PhasesAgree'
  BY <1>4, BatchIsMine, NextSegmentPhases DEF Resume, boxVars
<1>5. ASSUME Pull(r) PROVE PhasesAgree'
  <2>1. CASE batch # <<>>
    BY <1>5, <2>1 DEF TypeOK, PhasesAgree, Pull, Live, Aborted, InWait, InLoop,
                      Over, Phase, boxVars
  <2>2. CASE batch = <<>>
    BY <1>5, <2>2, NextSegmentPhases DEF Pull, boxVars
  <2>3. QED
    BY <2>1, <2>2
<1>6. ASSUME Break(r) PROVE PhasesAgree'
  BY <1>6 DEF TypeOK, PhasesAgree, Break, Live, Aborted, InWait, InLoop, Over,
              Phase, boxVars
<1>7. ASSUME AbortReader(r) PROVE PhasesAgree'
  BY <1>7 DEF TypeOK, PhasesAgree, AbortReader, Interrupt, Live, Aborted,
              InWait, InLoop, Over, Phase, boxVars
<1>8. QED
  BY <1>1, <1>2, <1>3, <1>4, <1>5, <1>6, <1>7 DEF Read

LEMMA PhasesStep ==
  ASSUME TypeOK, PhasesAgree, [Next]_vars
  PROVE  PhasesAgree'
<1>1. CASE WatchdogFires
  BY <1>1, FirePhases DEF WatchdogFires, Reasons
<1>2. ASSUME NEW reason \in {"shutdown", "parent"}, Abort(reason)
      PROVE  PhasesAgree'
  BY <1>2, FirePhases DEF Abort, Reasons
<1>3. CASE UNCHANGED vars
  BY <1>3 DEF PhasesAgree, Live, Aborted, vars, boxVars, readerVars
<1>4. QED
  BY <1>1, <1>2, <1>3, DrainPhases, SourcePhases, ReaderPhases
     DEF Next, Internal

-----------------------------------------------------------------------------
LEMMA InitHolds ==
  ASSUME Init
  PROVE  AssemblerInv
<1>1. PICK parent \in {"live", "parent"} : Construct(parent)
  BY DEF Init
<1>2. TypeOK
  <2>1. <<>> \in BoxSeq /\ <<>> \in Seq(BoxSeq)
        /\ <<>> \in Seq(1..2 * Len(Boxes)) /\ Len(Boxes) \in Nat
    BY EmptySeq, FirstMoofFacts DEF BoxSeq
  <2>2. phase \in [Readers -> Phase] /\ own \in [Readers -> BOOLEAN]
    BY <1>1, PhaseTypes DEF Construct
  <2>3. /\ life \in {"live"} \cup Reasons
        /\ header \in {"pending", "resolved", "rejected"}
        /\ drain \in {"running", "done"}
    BY <1>1 DEF Construct, Reasons
  <2>4. /\ fed \in 0..2 * Len(Boxes) /\ parsed \in 0..2 * Len(Boxes)
        /\ handled \in 0..Len(Boxes)
    BY <1>1, <2>1 DEF Construct
  <2>5. /\ initParts \in BoxSeq /\ segmentParts \in BoxSeq
        /\ segmentQueue \in Seq(BoxSeq) /\ batch \in Seq(BoxSeq)
        /\ got \in Seq(BoxSeq) /\ inbox \in Seq(1..2 * Len(Boxes))
    BY <1>1, <2>1 DEF Construct
  <2>6. collecting \in BOOLEAN /\ watchdog \in BOOLEAN /\ broken \in BOOLEAN
    BY <1>1 DEF Construct
  <2>7. QED
    BY <2>2, <2>3, <2>4, <2>5, <2>6 DEF TypeOK
<1>3. BoxesAccountedFor
  <2>1. Interval(1, 1 - 1) = <<>>
    BY IntervalEmpty
  <2>2. QED
    BY <1>1, <2>1, FirstMoofFacts, BoxesForm DEF Construct
<1>4. PhasesAgree
  BY <1>1 DEF Construct, PhasesAgree, Live, InWait, InLoop, Over
<1>5. QED
  BY <1>2, <1>3, <1>4 DEF AssemblerInv

\* For any boxes, chunks, readers and interleaving of source, abort, timer
\* and readers: no box is lost, repeated or moved between the parser and the
\* queue, and the init promise, the phase flag, the timer and the generators
\* agree (mp4-assembler.ts, #handleBox, #teardown and segments()).
THEOREM AssemblerCorrect == Spec => []AssemblerInv
<1>1. Init => AssemblerInv
  BY InitHolds
<1>2. AssemblerInv /\ [Next]_vars => AssemblerInv'
  BY TypeStep, BoxesStep, PhasesStep DEF AssemblerInv
<1>3. QED
  BY <1>1, <1>2, PTL DEF Spec

-----------------------------------------------------------------------------
(* The feed the reader sees. *)

EndsTo(h) == {e \in Ends : e <= h}

LEMMA EndsToFinite ==
  ASSUME NEW h \in Nat
  PROVE  /\ IsFiniteSet(Ends) /\ IsFiniteSet(EndsTo(h))
         /\ Cardinality(Ends) \in Nat /\ Cardinality(EndsTo(h)) \in Nat
         /\ Cardinality(EndsTo(h)) <= Cardinality(Ends)
<1>1. IsFiniteSet(1..Len(Boxes))
  BY FirstMoofFacts, FS_Interval
<1>2. IsFiniteSet(Ends)
  BY <1>1, EndsFacts, FS_Subset
<1>3. EndsTo(h) \in SUBSET Ends
  BY DEF EndsTo
<1>4. IsFiniteSet(EndsTo(h)) /\ Cardinality(EndsTo(h)) <= Cardinality(Ends)
  BY <1>2, <1>3, FS_Subset
<1>5. QED
  BY <1>2, <1>4, FS_CardinalityType

\* A box counts as a segment made exactly if it ends one.
LEMMA MadeGrows ==
  ASSUME NEW h \in Nat
  PROVE  /\ h + 1 \notin Ends => EndsTo(h + 1) = EndsTo(h)
         /\ h + 1 \in Ends =>
              Cardinality(EndsTo(h + 1)) = Cardinality(EndsTo(h)) + 1
<1>1. \A e \in Ends : e \in Nat
  BY EndsFacts
<1>2. ASSUME h + 1 \notin Ends PROVE EndsTo(h + 1) = EndsTo(h)
  <2>1. \A e \in Ends : e <= h + 1 <=> e <= h
    BY <1>1, <1>2
  <2>2. QED
    BY <2>1 DEF EndsTo
<1>3. ASSUME h + 1 \in Ends
      PROVE  Cardinality(EndsTo(h + 1)) = Cardinality(EndsTo(h)) + 1
  <2>1. \A e \in Ends : e <= h + 1 <=> e <= h \/ e = h + 1
    BY <1>1
  <2>2. EndsTo(h + 1) = EndsTo(h) \cup {h + 1}
    BY <1>3, <2>1 DEF EndsTo
  <2>3. h + 1 \notin EndsTo(h)
    BY DEF EndsTo
  <2>4. QED
    BY <2>2, <2>3, EndsToFinite, FS_AddElement
<1>4. QED
  BY <1>2, <1>3

\* The number of a segment tells where it ends.
LEMMA EndIsUnique ==
  ASSUME NEW d \in Ends, NEW e \in Ends,
         Cardinality(EndsTo(d)) = Cardinality(EndsTo(e))
  PROVE  d = e
<1>1. ASSUME NEW a \in Ends, NEW b \in Ends, a < b,
             Cardinality(EndsTo(a)) = Cardinality(EndsTo(b))
      PROVE  FALSE
  <2>1. a \in Nat /\ b \in Nat /\ \A x \in Ends : x \in Nat
    BY EndsFacts
  <2>2. EndsTo(a) \in SUBSET EndsTo(b)
    <3>1. ASSUME NEW x \in Ends, x <= a PROVE x <= b
      BY <1>1, <2>1, <3>1
    <3>2. QED
      BY <3>1 DEF EndsTo
  <2>3. IsFiniteSet(EndsTo(b))
    BY <2>1, EndsToFinite
  <2>4. EndsTo(a) = EndsTo(b)
    BY <1>1, <2>2, <2>3, FS_Subset
  <2>5. b \in EndsTo(b) /\ b \notin EndsTo(a)
    BY <1>1, <2>1 DEF EndsTo
  <2>6. QED
    BY <2>4, <2>5
<1>2. d \in Nat /\ e \in Nat
  BY EndsFacts
<1>3. ~(d < e) /\ ~(e < d)
  BY <1>1
<1>4. QED
  BY <1>2, <1>3

\* Script, in the terms of the lemmas above.
EndOf(k) == CHOOSE e \in Ends : Cardinality(EndsTo(e)) = k
CutBefore(end) == {d + 1 : d \in {x \in Ends : x < end}} \cup {FirstMoof}

LEMMA ScriptForm ==
  Script = [k \in 1..Cardinality(Ends) |->
              Interval(Greatest(CutBefore(EndOf(k))), EndOf(k))]
BY DEF Script, EndOf, EndsTo, CutBefore, Greatest

LEMMA ScriptLength == Len(Script) = Cardinality(Ends)
<1> DEFINE n == Cardinality(Ends)
           S == {Script[k] : k \in 1..n}
<1>1. n \in Nat
  BY EndsToFinite
<1>2. DOMAIN Script = 1..n
  BY ScriptForm
<1>3. Script \in [1..n -> S]
  BY <1>2, ScriptForm
<1>4. Script \in Seq(S)
  BY <1>1, <1>3, SeqDef
<1>5. Len(Script) \in Nat /\ DOMAIN Script = 1..Len(Script)
  BY <1>4, LenProperties
<1>6. QED
  BY <1>1, <1>2, <1>5

\* The segment that box h + 1 ends is the one the script has in its place.
LEMMA ScriptAt ==
  ASSUME NEW h \in Nat, h + 1 \in Ends
  PROVE  /\ Cardinality(EndsTo(h)) < Len(Script)
         /\ Script[Cardinality(EndsTo(h)) + 1] = Interval(OpenAt(h) + 1, h + 1)
<1> DEFINE k == Cardinality(EndsTo(h + 1))
<1>1. /\ k = Cardinality(EndsTo(h)) + 1
      /\ Cardinality(EndsTo(h)) \in Nat /\ k <= Cardinality(Ends)
      /\ Cardinality(Ends) \in Nat
  BY EndsToFinite, MadeGrows
<1>2. k \in 1..Cardinality(Ends)
  BY <1>1
<1>3. EndOf(k) = h + 1
  <2>1. EndOf(k) \in Ends /\ Cardinality(EndsTo(EndOf(k))) = k
    BY DEF EndOf
  <2>2. QED
    BY <2>1, EndIsUnique
<1>4. Greatest(CutBefore(h + 1)) = OpenAt(h) + 1
  <2>1. OpenAt(h) \in LastOf(h) /\ \A d \in LastOf(h) : d <= OpenAt(h)
    BY OpenAtFacts
  <2>2. \A e \in Ends : e \in Nat /\ (e < h + 1 <=> e <= h)
    BY EndsFacts
  <2>3. FirstMoof \in Nat /\ OpenAt(h) \in Nat
    <3>1. FirstMoof \in Nat
      BY FirstMoofFacts
    <3>2. OpenAt(h) \in 0..Len(Boxes) /\ Len(Boxes) \in Nat
      BY FirstMoofFacts, OpenAtFacts
    <3>3. QED
      BY <3>1, <3>2
  <2>4. OpenAt(h) + 1 \in CutBefore(h + 1)
    BY <2>1, <2>2, <2>3 DEF LastOf, CutBefore
  <2>5. \A c \in CutBefore(h + 1) : c \in Int /\ c - 1 \in LastOf(h)
    BY <2>2, <2>3 DEF LastOf, CutBefore
  <2>6. \A c \in CutBefore(h + 1) : c <= OpenAt(h) + 1
    BY <2>1, <2>3, <2>5
  <2>7. QED
    BY <2>4, <2>5, <2>6, GreatestIs
<1>5. Script[k] = Interval(OpenAt(h) + 1, h + 1)
  BY <1>2, <1>3, <1>4, ScriptForm
<1>6. QED
  BY <1>1, <1>5, ScriptLength

\* Sequences joined end to end.
LEMMA AppendToConcat ==
  ASSUME NEW S, NEW s \in Seq(S), NEW t \in Seq(S), NEW x \in S
  PROVE  s \o Append(t, x) = Append(s \o t, x)
<1>1. <<x>> \in Seq(S) /\ s \o t \in Seq(S)
  BY ConcatProperties
<1>2. Append(t, x) = t \o <<x>> /\ Append(s \o t, x) = (s \o t) \o <<x>>
  BY <1>1, AppendIsConcat
<1>3. QED
  BY <1>1, <1>2, ConcatAssociative

LEMMA HeadOfConcat ==
  ASSUME NEW S, NEW s \in Seq(S), NEW t \in Seq(S), s # <<>>
  PROVE  /\ s \o t # <<>>
         /\ Head(s \o t) = Head(s) /\ Tail(s \o t) = Tail(s) \o t
<1>1. /\ s \o t \in Seq(S) /\ Len(s \o t) = Len(s) + Len(t)
      /\ Len(s) \in Nat \ {0} /\ Len(t) \in Nat
      /\ \A i \in 1..Len(s) + Len(t) :
           (s \o t)[i] = IF i <= Len(s) THEN s[i] ELSE t[i - Len(s)]
  BY ConcatProperties, LenProperties, EmptySeq
<1>2. s \o t # <<>>
  BY <1>1, EmptySeq
<1>3. Head(s \o t) = Head(s)
  BY <1>1, <1>2
<1>4. Tail(s \o t) = Tail(s) \o t
  <2> DEFINE a == Tail(s \o t)
             b == Tail(s) \o t
  <2>1. /\ a \in Seq(S) /\ Len(a) = Len(s) + Len(t) - 1
        /\ \A i \in 1..Len(a) : a[i] = (s \o t)[i + 1]
    BY <1>1, <1>2, HeadTailProperties
  <2>2. /\ Tail(s) \in Seq(S) /\ Len(Tail(s)) = Len(s) - 1
        /\ \A i \in 1..Len(s) - 1 : Tail(s)[i] = s[i + 1]
    BY <1>1, HeadTailProperties
  <2>3. /\ b \in Seq(S) /\ Len(b) = Len(s) - 1 + Len(t)
        /\ \A i \in 1..Len(s) - 1 + Len(t) :
             b[i] = IF i <= Len(s) - 1 THEN Tail(s)[i] ELSE t[i - (Len(s) - 1)]
    BY <2>2, ConcatProperties
  <2> HIDE DEF a, b
  <2>4. \A i \in 1..Len(a) : a[i] = b[i]
    BY <1>1, <2>1, <2>2, <2>3
  <2>5. a = b
    BY <1>1, <2>1, <2>3, <2>4, SeqEqual
  <2>6. QED
    BY <2>5 DEF a, b
<1>5. QED
  BY <1>2, <1>3, <1>4

LEMMA RestOfConcat ==
  ASSUME NEW S, NEW s \in Seq(S), NEW t \in Seq(S), s # <<>>
  PROVE  /\ Len(s) \in 1..Len(s \o t)
         /\ SubSeq(s \o t, Len(s) + 1, Len(s \o t)) = t
<1>1. /\ s \o t \in Seq(S) /\ Len(s \o t) = Len(s) + Len(t)
      /\ Len(s) \in Nat \ {0} /\ Len(t) \in Nat
      /\ \A i \in 1..Len(s) + Len(t) :
           (s \o t)[i] = IF i <= Len(s) THEN s[i] ELSE t[i - Len(s)]
  BY ConcatProperties, LenProperties, EmptySeq
<1> DEFINE u == s \o t
           m == Len(s) + 1
           n == Len(s) + Len(t)
           r == SubSeq(u, m, n)
<1>2. \A i \in m..n : u[i] \in S
  BY <1>1, ElementOfSeq
<1>3. /\ r \in Seq(S)
      /\ Len(r) = IF m <= n THEN n - m + 1 ELSE 0
      /\ \A i \in 1..n - m + 1 : r[i] = u[m + i - 1]
  <2>1. m \in Int /\ n \in Int
    BY <1>1
  <2> HIDE DEF u, m, n
  <2>2. QED
    BY <1>2, <2>1, SubSeqProperties
<1>4. Len(r) = Len(t) /\ \A i \in 1..Len(t) : r[i] = t[i]
  <2> HIDE DEF r
  <2>1. n - m + 1 = Len(t)
    BY <1>1
  <2>2. Len(r) = Len(t)
    BY <1>1, <1>3, <2>1
  <2>3. ASSUME NEW i \in 1..Len(t) PROVE r[i] = t[i]
    <3>1. r[i] = u[m + i - 1] /\ m + i - 1 = Len(s) + i
      BY <1>1, <1>3, <2>1
    <3>2. u[Len(s) + i] = t[(Len(s) + i) - Len(s)] /\ (Len(s) + i) - Len(s) = i
      BY <1>1
    <3>3. QED
      BY <3>1, <3>2
  <2>4. QED
    BY <2>2, <2>3
<1>5. r = t
  <2> HIDE DEF r
  <2>1. QED
    BY <1>3, <1>4, SeqEqual
<1>6. QED
  BY <1>1, <1>5

LEMMA LineTypes ==
  ASSUME TypeOK
  PROVE  /\ batch \in Seq(BoxSeq) /\ segmentQueue \in Seq(BoxSeq)
         /\ batch \o segmentQueue \in Seq(BoxSeq)
         /\ <<>> \o segmentQueue = segmentQueue /\ batch \o <<>> = batch
         /\ handled \in Nat
<1>1. batch \in Seq(BoxSeq) /\ segmentQueue \in Seq(BoxSeq) /\ handled \in Nat
  BY FirstMoofFacts DEF TypeOK
<1>2. QED
  BY <1>1, ConcatProperties, ConcatEmptySeq

\* What is delivered and what is in the line, but no box.
FeedSame == UNCHANGED <<handled, batch, segmentQueue, got>>

LEMMA SameIsStutter ==
  ASSUME FeedSame
  PROVE  UNCHANGED Feed!feedVars
BY DEF FeedSame, Feed!feedVars, Made

LEMMA MadeIs == Made = Cardinality(EndsTo(handled))
BY DEF Made, EndsTo

LEMMA MadeIsNext == Made' = Cardinality(EndsTo(handled'))
BY DEF Made, EndsTo

\* A box that ends a segment makes it, any other box makes nothing.
LEMMA HandleFeeds ==
  ASSUME AssemblerInv, Handle
  PROVE  Feed!Make \/ UNCHANGED Feed!feedVars
<1> DEFINE h == handled
           N == Len(Boxes)
<1>1. /\ TypeOK /\ h \in Nat /\ N \in Nat /\ FirstMoof \in 1..N + 1
      /\ collecting <=> h >= FirstMoof
      /\ segmentParts = IF collecting THEN Interval(OpenAt(h) + 1, h) ELSE <<>>
  BY BoxesForm, FirstMoofFacts, LineTypes DEF AssemblerInv
<1>2. handled' = h + 1 /\ h + 1 \in 1..N /\ UNCHANGED <<batch, got>>
  BY <1>1, FirstMoofFacts
     DEF Handle, HandleInitBox, HandleFirstMoof, HandleMediaBox, Cut, TypeOK,
         readerVars
<1>3. CASE h + 1 \notin Ends
  <2>1. UNCHANGED segmentQueue
    <3>1. CASE HandleInitBox \/ HandleFirstMoof
      BY <3>1 DEF HandleInitBox, HandleFirstMoof
    <3>2. CASE HandleMediaBox
      <4>1. Boxes[h + 1] # "mdat"
        BY <1>1, <1>2, <1>3, <3>2, EndsFacts DEF HandleMediaBox
      <4>2. QED
        BY <3>2, <4>1 DEF HandleMediaBox
    <3>3. QED
      BY <3>1, <3>2 DEF Handle
  <2>2. Made' = Made
    BY <1>1, <1>2, <1>3, MadeGrows, MadeIs, MadeIsNext
  <2>3. QED
    BY <1>2, <2>1, <2>2 DEF Feed!feedVars
<1>4. CASE h + 1 \in Ends
  <2>1. HandleMediaBox /\ collecting /\ Boxes[h + 1] = "mdat"
    BY <1>1, <1>4, EndsFacts
       DEF Handle, HandleInitBox, HandleFirstMoof, HandleMediaBox
  <2> DEFINE x == Append(segmentParts, h + 1)
  <2>2. segmentQueue' = Append(segmentQueue, x)
    BY <2>1 DEF HandleMediaBox
  <2>3. x = Script[Made + 1] /\ Made < Len(Script)
    <3>1. OpenAt(h) \in LastOf(h) /\ OpenAt(h) \in 0..N
      BY <1>1, OpenAtFacts
    <3>2. OpenAt(h) <= h
      BY <1>1, <2>1, <3>1 DEF LastOf
    <3>3. h \in Nat /\ OpenAt(h) + 1 \in Nat \ {0} /\ OpenAt(h) + 1 <= h + 1
      BY <1>1, <3>1, <3>2
    <3>4. Append(Interval(OpenAt(h) + 1, h), h + 1)
            = Interval(OpenAt(h) + 1, h + 1)
      BY ONLY <3>3, IntervalGrows
    <3>5. QED
      BY <1>1, <1>4, <2>1, <3>4, ScriptAt, MadeIs
  <2>4. x \in BoxSeq
    BY <1>1, <1>2, AppendProperties DEF TypeOK, BoxSeq
  <2>5. batch \o Append(segmentQueue, x) = Append(batch \o segmentQueue, x)
    <3> HIDE DEF x
    <3>1. QED
      BY <1>1, <2>4, LineTypes, AppendToConcat
  <2>6. (batch \o segmentQueue)'
          = Append(batch \o segmentQueue, Script[Made + 1])
    BY <1>2, <2>2, <2>3, <2>5
  <2>7. Made' = Made + 1
    BY <1>1, <1>2, <1>4, MadeGrows, MadeIs, MadeIsNext
  <2>8. QED
    BY <1>2, <2>3, <2>6, <2>7 DEF Feed!Make
<1>5. QED
  BY <1>3, <1>4

\* A pass of the delivery loop takes the first segment of the line.
LEMMA NextSegmentFeeds ==
  ASSUME TypeOK, NEW r \in Readers, NextSegment(r), batch = <<>>,
         UNCHANGED handled
  PROVE  Feed!Deliver \/ UNCHANGED Feed!feedVars
<1>1. Made' = Made
  BY DEF Made
<1>2. CASE segmentQueue # <<>>
  <2>1. batch \o segmentQueue = segmentQueue
    BY LineTypes
  <2>2. /\ got' = Append(got, Head(segmentQueue))
        /\ batch' = Tail(segmentQueue) /\ segmentQueue' = <<>>
    BY <1>2 DEF NextSegment
  <2>3. Tail(segmentQueue) \o <<>> = Tail(segmentQueue)
    BY <1>2, LineTypes, HeadTailProperties, ConcatEmptySeq
  <2>4. QED
    BY <1>1, <1>2, <2>1, <2>2, <2>3 DEF Feed!Deliver
<1>3. CASE segmentQueue = <<>>
  BY <1>1, <1>3 DEF NextSegment, Feed!feedVars
<1>4. QED
  BY <1>2, <1>3

LEMMA ReaderFeeds ==
  ASSUME AssemblerInv, NEW r \in Readers,
         Read(r) \/ Break(r) \/ AbortReader(r)
  PROVE  Feed!Next \/ UNCHANGED Feed!feedVars
<1>1. TypeOK /\ PhasesAgree
  BY DEF AssemblerInv
<1>2. ASSUME \/ \E generator \in {"segments", "stream"} : Start(r, generator)
             \/ YieldInit(r) \/ StreamGoesOn(r) \/ AbortReader(r)
      PROVE  UNCHANGED Feed!feedVars
  <2>1. FeedSame
    BY <1>2 DEF Start, YieldInit, StreamGoesOn, AbortReader, FeedSame, loopVars
  <2>2. QED
    BY <2>1, SameIsStutter
<1>3. ASSUME Resume(r) PROVE Feed!Next \/ UNCHANGED Feed!feedVars
  BY <1>1, <1>3, BatchIsMine, NextSegmentFeeds DEF Resume, loopVars, Feed!Next
<1>4. ASSUME Pull(r) PROVE Feed!Next \/ UNCHANGED Feed!feedVars
  <2>1. CASE batch = <<>>
    BY <1>1, <1>4, <2>1, NextSegmentFeeds DEF Pull, loopVars, Feed!Next
  <2>2. CASE batch # <<>>
    <3>1. /\ got' = Append(got, Head(batch)) /\ batch' = Tail(batch)
          /\ UNCHANGED <<segmentQueue, handled>>
      BY <1>4, <2>2 DEF Pull, loopVars
    <3>2. /\ batch \o segmentQueue # <<>>
          /\ Head(batch \o segmentQueue) = Head(batch)
          /\ Tail(batch \o segmentQueue) = Tail(batch) \o segmentQueue
      BY <1>1, <2>2, LineTypes, HeadOfConcat
    <3>3. Made' = Made
      BY <3>1 DEF Made
    <3>4. QED
      BY <3>1, <3>2, <3>3 DEF Feed!Deliver, Feed!Next
  <2>3. QED
    BY <2>1, <2>2
<1>5. ASSUME Break(r) PROVE Feed!Next \/ UNCHANGED Feed!feedVars
  <2>1. batch' = <<>> /\ UNCHANGED <<segmentQueue, handled, got>>
    BY <1>5 DEF Break, loopVars
  <2>2. Made' = Made
    BY <2>1 DEF Made
  <2>3. CASE batch = <<>>
    BY <2>1, <2>2, <2>3 DEF Feed!feedVars
  <2>4. CASE batch # <<>>
    <3>1. /\ Len(batch) \in 1..Len(batch \o segmentQueue)
          /\ SubSeq(batch \o segmentQueue, Len(batch) + 1,
                    Len(batch \o segmentQueue)) = segmentQueue
      BY <1>1, <2>4, LineTypes, RestOfConcat
    <3>2. (batch \o segmentQueue)' = segmentQueue
      BY <1>1, <2>1, LineTypes
    <3>3. Feed!Lose(Len(batch))
      BY <2>1, <2>2, <3>1, <3>2 DEF Feed!Lose
    <3>4. QED
      BY <3>1, <3>3 DEF Feed!Next
  <2>5. QED
    BY <2>3, <2>4
<1>6. QED
  BY <1>2, <1>3, <1>4, <1>5 DEF Read

\* Seen from its readers the assembler is a feed: each segment the boxes spell
\* out is delivered at most once, whole, in order, over all readers, and
\* segments are lost only with the batch of a reader that walks away
\* (#handleBox, segments() and the swap of #segmentQueue).
THEOREM AssemblerFeeds == Spec => ImplementsSegmentFeed
<1>1. Init => Feed!Init
  <2> SUFFICES ASSUME Init PROVE Feed!Init
    OBVIOUS
  <2>1. /\ handled = 0 /\ batch = <<>> /\ segmentQueue = <<>> /\ got = <<>>
    BY DEF Init, Construct
  <2>2. EndsTo(0) = {}
    <3>1. \A e \in Ends : e \in 1..Len(Boxes)
      BY EndsFacts
    <3>2. \A e \in Ends : ~(e <= 0)
      BY <3>1, FirstMoofFacts
    <3>3. QED
      BY <3>2 DEF EndsTo
  <2>3. Made = 0
    BY <2>1, <2>2, MadeIs, FS_EmptySet
  <2>4. batch \o segmentQueue = <<>>
    <3>1. <<>> \in Seq(BoxSeq)
      BY EmptySeq
    <3>2. QED
      BY <2>1, <3>1, ConcatEmptySeq
  <2>5. QED
    BY <2>1, <2>3, <2>4 DEF Feed!Init
<1>2. AssemblerInv /\ [Next]_vars => [Feed!Next]_Feed!feedVars
  <2> SUFFICES ASSUME AssemblerInv, [Next]_vars
               PROVE  Feed!Next \/ UNCHANGED Feed!feedVars
    OBVIOUS
  <2>1. CASE Handle
    BY <2>1, HandleFeeds DEF Feed!Next
  <2>2. CASE TakeChunk \/ DrainEnds
    <3>1. FeedSame
      BY <2>2 DEF TakeChunk, DrainEnds, Fire, FeedSame, readerVars
    <3>2. QED
      BY <3>1, SameIsStutter
  <2>3. CASE Source \/ WatchdogFires
    <3>1. FeedSame
      BY <2>3 DEF Source, SourceData, SourceEnds, SourceFails, WatchdogFires,
                  Fire, FeedSame, loopVars, readerVars
    <3>2. QED
      BY <3>1, SameIsStutter
  <2>4. ASSUME NEW reason, Abort(reason) PROVE UNCHANGED Feed!feedVars
    <3>1. FeedSame
      BY <2>4 DEF Abort, Fire, FeedSame
    <3>2. QED
      BY <3>1, SameIsStutter
  <2>5. CASE UNCHANGED vars
    <3>1. FeedSame
      BY <2>5 DEF vars, FeedSame, loopVars, readerVars
    <3>2. QED
      BY <3>1, SameIsStutter
  <2>6. QED
    BY <2>1, <2>2, <2>3, <2>4, <2>5, ReaderFeeds DEF Next, Internal, Drain
<1>3. QED
  BY <1>1, <1>2, AssemblerCorrect, PTL
     DEF Spec, ImplementsSegmentFeed, Feed!Spec

-----------------------------------------------------------------------------
(* The recording: the process and the assembler together. *)

\* What the steps of a recording preserve: the timer of the assembler must
\* not run on once the assembler is over, or it would give a second reason.
\* And the process must know how its child ended, and have heard of it on
\* stderr, before it says so.
EndIsKnown ==
  /\ child = "dead" => code # "none"
  /\ code # "none" => child \in {"dead", "gone"}
  /\ ready = "pending" => ~stderr

RInv == RecordingInv /\ PhasesAgree /\ EndIsKnown

-----------------------------------------------------------------------------
(* The process. *)

ProcessInv == P!TypeOK /\ P!OwnerKnowsChild /\ EndIsKnown

\* An abort for a reason other than a clean exit.
LEMMA AbortKeeps ==
  ASSUME ProcessInv, P!Abort(life'), life' \in Reasons \ {"closed"}
  PROVE  ProcessInv'
BY DEF ProcessInv, P!TypeOK, P!OwnerKnowsChild, EndIsKnown, P!Abort, P!Fire,
       P!Live, P!Promise, Reasons

LEMMA InternalKeeps ==
  ASSUME ProcessInv, P!Internal
  PROVE  ProcessInv'
<1> USE RecordingAssumption
        DEF ProcessInv, P!TypeOK, P!OwnerKnowsChild, EndIsKnown, P!Live,
            P!Promise
<1>1. CASE P!SpawnError
  BY <1>1 DEF P!SpawnError, P!FireIfLive, P!Fire
<1>2. CASE P!ChildKilled
  BY <1>2 DEF P!ChildKilled
<1>3. CASE P!Exit
  BY <1>3 DEF P!Exit, P!FireIfLive, P!Fire
<1>4. CASE P!StartupLapses
  BY <1>4 DEF P!StartupLapses, P!Fire
<1>5. CASE P!DisposeReturns
  BY <1>5 DEF P!DisposeReturns
<1>6. ASSUME NEW reason \in {"shutdown", "parent"}, P!Abort(reason)
      PROVE  ProcessInv'
  BY <1>6 DEF P!Abort, P!Fire
<1>7. CASE P!Dispose
  BY <1>7 DEF P!Dispose, P!FireIfLive, P!Fire
<1>8. CASE P!StderrData
  BY <1>8 DEF P!StderrData
<1>9. ASSUME NEW c \in {"zero", "nonzero"}, P!ChildQuits(c)
      PROVE  ProcessInv'
  BY <1>9 DEF P!ChildQuits
<1>10. QED
  BY <1>1, <1>2, <1>3, <1>4, <1>5, <1>6, <1>7, <1>8, <1>9
     DEF P!Internal, P!Runtime, P!Owner

LEMMA ProcessRests ==
  ASSUME ProcessInv, UNCHANGED processVars
  PROVE  ProcessInv'
BY DEF ProcessInv, P!TypeOK, P!OwnerKnowsChild, EndIsKnown, P!Live,
       P!Promise, processVars

\* The signal fires once, with a reason.
LEMMA SignalFiresOnce ==
  ASSUME ProcessInv, P!Internal
  PROVE  signal' = signal \/ (P!Live /\ signal' \in Reasons)
<1>1. CASE P!SpawnError \/ P!Exit \/ P!Dispose
  BY <1>1 DEF P!SpawnError, P!Exit, P!Dispose, P!FireIfLive, P!Fire, Reasons
<1>2. CASE P!StartupLapses
  BY <1>2 DEF ProcessInv, P!OwnerKnowsChild, P!StartupLapses, P!Fire, Reasons
<1>3. ASSUME NEW reason \in {"shutdown", "parent"}, P!Abort(reason)
      PROVE  P!Live /\ signal' \in Reasons
  BY <1>3 DEF P!Abort, P!Fire, Reasons
<1>4. ASSUME \/ P!ChildKilled \/ P!DisposeReturns \/ P!StderrData
             \/ \E c \in {"zero", "nonzero"} : P!ChildQuits(c)
      PROVE  signal' = signal
  BY <1>4 DEF P!ChildKilled, P!DisposeReturns, P!StderrData, P!ChildQuits
<1>5. QED
  BY <1>1, <1>2, <1>3, <1>4 DEF P!Internal, P!Runtime, P!Owner

-----------------------------------------------------------------------------
(* The assembler, and the two together. *)

AssemblerHalf == TypeOK /\ PhasesAgree

LEMMA FireKeeps ==
  ASSUME AssemblerHalf, NEW reason \in Reasons, Fire(reason),
         UNCHANGED <<drain, broken>>
  PROVE  AssemblerHalf'
BY FireType, FirePhases
   DEF AssemblerHalf, TypeOK

LEMMA AssemblerRests ==
  ASSUME AssemblerHalf, UNCHANGED vars
  PROVE  AssemblerHalf'
BY DEF AssemblerHalf, TypeOK, PhasesAgree, Live, Aborted, vars, boxVars,
       loopVars, sourceVars, readerVars

\* What the assembler does by itself ends it, if at all, for a reason of its
\* own, and only while it lives.
LEMMA AssemblerEnds ==
  ASSUME AssemblerHalf, Source \/ Drain \/ WatchdogFires
  PROVE  \/ life' = life
         \/ Live /\ life' \in {"closed", "failed", "timeout"}
BY DEF AssemblerHalf, PhasesAgree, Source, SourceData, SourceEnds,
       SourceFails, Listening, Drain, TakeChunk, Handle,
       HandleInitBox, HandleFirstMoof, HandleMediaBox, DrainEnds,
       WatchdogFires, Fire, Live

LEMMA ReaderEndsNothing ==
  ASSUME NEW r, Read(r) \/ Break(r) \/ AbortReader(r)
  PROVE  life' = life
BY DEF Read, Start, YieldInit, StreamGoesOn, Resume, Pull,
       Break, AbortReader

LEMMA RInvParts ==
  /\ RInv <=> ProcessInv /\ AssemblerHalf /\ LifetimesAgree
  /\ RInv' <=> ProcessInv' /\ AssemblerHalf' /\ LifetimesAgree'
BY DEF RInv, RecordingInv, ProcessInv, AssemblerHalf

\* A step of the process, which the assembler follows.
LEMMA ProcessStepKeeps ==
  ASSUME RInv, ProcessStep
  PROVE  RInv'
<1>1. ProcessInv /\ AssemblerHalf /\ LifetimesAgree /\ P!Internal /\ Follow
  BY RInvParts DEF ProcessStep
<1>2. ProcessInv'
  BY <1>1, InternalKeeps
<1>3. CASE signal' # signal /\ Live
  <2>1. signal' \in Reasons /\ Fire(signal') /\ UNCHANGED <<drain, broken>>
    BY <1>1, <1>3, SignalFiresOnce DEF Follow
  <2>2. AssemblerHalf'
    BY <1>1, <2>1, FireKeeps
  <2>3. life' = signal' /\ signal' # "live"
    BY <2>1 DEF Fire, Reasons
  <2>4. QED
    BY <1>2, <2>2, <2>3, RInvParts DEF LifetimesAgree, P!Live, Live
<1>4. CASE ~(signal' # signal /\ Live)
  <2>1. UNCHANGED vars
    BY <1>1, <1>4 DEF Follow
  <2>2. AssemblerHalf'
    BY <1>1, <2>1, AssemblerRests
  <2>3. LifetimesAgree'
    BY <1>1, <1>4, <2>1, SignalFiresOnce
       DEF LifetimesAgree, P!Live, Live, vars, Reasons
  <2>4. QED
    BY <1>2, <2>2, <2>3, RInvParts
<1>5. QED
  BY <1>3, <1>4

\* A step of the assembler, which the bridge carries to the process.
LEMMA BridgedStepKeeps ==
  ASSUME RInv, Source \/ Drain \/ WatchdogFires, Bridge
  PROVE  RInv'
<1>1. ProcessInv /\ AssemblerHalf /\ LifetimesAgree
  BY RInvParts
<1>2. AssemblerHalf'
  <2>1. CASE Source
    BY <1>1, <2>1, SourceType, SourcePhases
       DEF AssemblerHalf
  <2>2. CASE Drain
    BY <1>1, <2>2, DrainType, DrainPhases
       DEF AssemblerHalf
  <2>3. CASE WatchdogFires
    BY <1>1, <2>3, FireKeeps DEF WatchdogFires, Reasons
  <2>4. QED
    BY <2>1, <2>2, <2>3
<1>3. \/ life' = life
      \/ Live /\ life' \in {"closed", "failed", "timeout"}
  BY <1>1, AssemblerEnds
<1>4. CASE life' # life /\ P!Live /\ life' # "closed"
  <2>1. P!Abort(life')
    BY <1>4 DEF Bridge
  <2>2. ProcessInv'
    BY <1>1, <1>3, <1>4, <2>1, AbortKeeps DEF Reasons
  <2>3. signal' = life' /\ life' # "live"
    BY <1>3, <1>4, <2>1 DEF P!Abort, P!Fire
  <2>4. QED
    BY <1>2, <2>2, <2>3, RInvParts DEF LifetimesAgree, P!Live, Live
<1>5. CASE ~(life' # life /\ P!Live /\ life' # "closed")
  <2>1. UNCHANGED processVars
    BY <1>5 DEF Bridge
  <2>2. ProcessInv'
    BY <1>1, <2>1, ProcessRests
  <2>3. LifetimesAgree'
    BY <1>1, <1>3, <1>5, <2>1
       DEF LifetimesAgree, P!Live, Live, processVars
  <2>4. QED
    BY <1>2, <2>2, <2>3, RInvParts
<1>6. QED
  BY <1>4, <1>5

\* Whatever happens to a recording, in whatever order: the process knows its
\* child, and the two lifetimes end together with one reason, but for a
\* stdout that closed before its child was reported gone (record.ts,
\* bridgeAssemblerToProcess, and the composed signal of the assembler).
THEOREM RecordingCorrect == RecordingSpec => []RecordingInv
<1>1. RecordingInit => RInv
  <2> SUFFICES ASSUME RecordingInit PROVE RInv
    OBVIOUS
  <2>1. ProcessInv
    BY DEF RecordingInit, P!Init, ProcessInv, P!TypeOK, P!OwnerKnowsChild,
           EndIsKnown, P!Live, P!Promise
  <2>2. Construct(signal) /\ signal \in {"live", "parent"}
    BY DEF RecordingInit, P!Init, Construct
  <2>3. AssemblerHalf
    <3>1. Init
      BY <2>2 DEF Init
    <3>2. QED
      BY <3>1, InitHolds DEF AssemblerHalf, AssemblerInv
  <2>4. LifetimesAgree
    BY <2>2 DEF Construct, LifetimesAgree, P!Live, Live
  <2>5. QED
    BY <2>1, <2>3, <2>4, RInvParts
<1>2. RInv /\ [RecordingNext]_recordingVars => RInv'
  <2> SUFFICES ASSUME RInv, [RecordingNext]_recordingVars PROVE RInv'
    OBVIOUS
  <2>1. ProcessInv /\ AssemblerHalf /\ LifetimesAgree
    BY RInvParts
  <2>2. CASE ProcessStep
    BY <2>2, ProcessStepKeeps
  <2>3. CASE StdoutStep
    BY <2>3, BridgedStepKeeps DEF StdoutStep
  <2>4. CASE Drain /\ Bridge
    BY <2>4, BridgedStepKeeps
  <2>5. CASE WatchdogFires /\ Bridge
    BY <2>5, BridgedStepKeeps
  <2>6. ASSUME NEW r \in Readers, Read(r) \/ Break(r) \/ AbortReader(r),
               UNCHANGED processVars
        PROVE  RInv'
    <3>1. AssemblerHalf'
      BY <2>1, <2>6, ReaderType, ReaderPhases DEF AssemblerHalf
    <3>2. ProcessInv'
      BY <2>1, <2>6, ProcessRests
    <3>3. LifetimesAgree'
      BY <2>1, <2>6, ReaderEndsNothing
         DEF LifetimesAgree, P!Live, Live, processVars
    <3>4. QED
      BY <3>1, <3>2, <3>3, RInvParts
  <2>7. CASE UNCHANGED recordingVars
    <3>1. UNCHANGED processVars /\ UNCHANGED vars
      BY <2>7 DEF recordingVars
    <3>2. ProcessInv' /\ AssemblerHalf'
      BY <2>1, <3>1, ProcessRests, AssemblerRests
    <3>3. LifetimesAgree'
      BY <2>1, <3>1
         DEF LifetimesAgree, P!Live, Live, processVars, vars
    <3>4. QED
      BY <3>2, <3>3, RInvParts
  <2>8. QED
    BY <2>2, <2>3, <2>4, <2>5, <2>6, <2>7 DEF RecordingNext, AssemblerStep
<1>3. RInv => RecordingInv
  BY DEF RInv
<1>4. QED
  BY <1>1, <1>2, <1>3, PTL DEF RecordingSpec

=============================================================================
