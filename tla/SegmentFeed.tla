---------------------------- MODULE SegmentFeed ----------------------------
(***************************************************************************)
(* What a segment assembler promises its reader: the segments the source   *)
(* spells out, each assembled once, delivered at most once, in order.      *)
(* Segments are lost only all of a batch at a time, when the reader that   *)
(* holds the batch walks away.                                             *)
(***************************************************************************)
EXTENDS Naturals, Sequences

CONSTANT Script   \* the segments the source spells out, in order

VARIABLES
  made,   \* how many segments have been assembled
  line,   \* assembled and not yet delivered
  got     \* delivered, oldest first

feedVars == <<made, line, got>>

Init == made = 0 /\ line = <<>> /\ got = <<>>

Make ==
  /\ made < Len(Script)
  /\ made' = made + 1
  /\ line' = Append(line, Script[made + 1])
  /\ UNCHANGED got

Deliver ==
  /\ line # <<>>
  /\ got' = Append(got, Head(line))
  /\ line' = Tail(line)
  /\ UNCHANGED made

\* The reader walks away with n segments in hand.
Lose(n) ==
  /\ line' = SubSeq(line, n + 1, Len(line))
  /\ UNCHANGED <<made, got>>

Next == Make \/ Deliver \/ \E n \in 1..Len(line) : Lose(n)

Spec == Init /\ [][Next]_feedVars
=============================================================================
