------------------------------- MODULE LogLines -------------------------------
(* The pure algorithms the log client puts a log line through: the splitter    *)
(* that turns chunks of text into lines and the gate that drops the head of a  *)
(* seed (parser.ts), the bounded tail of a download (takeLast, util.ts), the   *)
(* join of a downloaded history with the live lines (stitch.ts) and the time   *)
(* window (time-window.ts).                                                     *)
(*                                                                             *)
(* Text is a sequence of numbers: a newline character is LF or CR, every other *)
(* number stands for the text of a line or for a part of one.  Text t \in Nat  *)
(* opens with the timestamp t \div 10, and with none when t < 10 (a            *)
(* continuation line); when it ends in 9 no plugin's name follows, as in the   *)
(* lines of Homebridge's own core.  A line is the text between two newlines.   *)
EXTENDS Integers, Sequences, SequencesExt, FiniteSets

LF == -1
CR == -2
Fragment == -3       \* the end of a line whose beginning the seed cut off
Preamble == -4       \* what the server writes before the seed
GapMarker == <<-5>>  \* gapMarker(), the record shown where the join failed

Newlines == {LF, CR}
Partner(c) == IF c = CR THEN LF ELSE CR

(* parseLogTimestamp of the line's leading bracket; 0 is its null. *)
StampOf(line) == IF line = <<>> THEN 0 ELSE IF line[1] < 10 THEN 0 ELSE line[1] \div 10

IsLogLineStart(line) == StampOf(line) > 0

(* The instant of the record that parseLogLine makes: without a plugin's       *)
(* bracket behind it the timestamp is part of the message.                     *)
NamesPlugin(line) == line[1] % 10 # 9
TimeOf(line) == IF IsLogLineStart(line) /\ NamesPlugin(line) THEN StampOf(line) ELSE 0

-------------------------------------------------------------------------------
(* LogLineSplitter.  A line ends at a newline that is not the second half of a *)
(* pair; a newline at the very end of the buffer is held back, for the next    *)
(* chunk may begin with its partner.                                           *)
Paired(buffer, j, i) ==
  /\ \A k \in j..i : buffer[k] \in Newlines
  /\ \A k \in j..(i - 1) : buffer[k + 1] = Partner(buffer[k])

Breaks(buffer) ==
  {i \in 1..(Len(buffer) - 1) : Cardinality({j \in 1..i : Paired(buffer, j, i)}) % 2 = 1}

After(buffer, i) == IF buffer[i + 1] = Partner(buffer[i]) THEN i + 2 ELSE i + 1

(* Their lines, and what is carried into the next chunk. *)
Nth(breaks, k) == CHOOSE i \in breaks : Cardinality({j \in breaks : j <= i}) = k
From(buffer, breaks, k) == IF k = 0 THEN 1 ELSE After(buffer, Nth(breaks, k))

LinesAt(buffer, breaks) ==
  [k \in 1..Cardinality(breaks) |->
     SubSeq(buffer, From(buffer, breaks, k - 1), Nth(breaks, k) - 1)]
RestAt(buffer, breaks) == SubSeq(buffer, From(buffer, breaks, Cardinality(breaks)), Len(buffer))

Flush(carry) ==
  IF carry = <<>> THEN <<>>
  ELSE IF Last(carry) \in Newlines THEN <<Front(carry)>> ELSE <<carry>>

(* SeedGate.admit: what it answers, and the gate it leaves behind. *)
Admits(gate, line, maxSkip) == gate.open \/ IsLogLineStart(line) \/ gate.skipped >= maxSkip

GateAfter(gate, line, maxSkip) ==
  IF Admits(gate, line, maxSkip) THEN [gate EXCEPT !.open = TRUE]
  ELSE [gate EXCEPT !.skipped = @ + 1]

(* takeLast. *)
TakeLast(s, n) == IF n >= Len(s) THEN s ELSE SubSeq(s, Len(s) - n + 1, Len(s))

-------------------------------------------------------------------------------
(* stitch.ts. *)
OverlapsAt(history, live, k) == TakeLast(history, k) = SubSeq(live, 1, k)

(* alignedEnd: where the last k records of history first end in live. *)
AlignedEnds(history, live, k) ==
  {e \in k..Len(live) : SubSeq(live, e - k + 1, e) = TakeLast(history, k)}

\* A bug: the overlap is taken one line too long.
SkipOneMore(live, i) == SubSeq(live, i + 2, Len(live))

(* The live records behind the overlap. *)
BehindOverlap(live, i) == SubSeq(live, i + 1, Len(live))

StitchLive(history, live) ==
  LET bound == IF Len(history) < Len(live) THEN Len(history) ELSE Len(live)
      overlaps == {k \in 1..bound : OverlapsAt(history, live, k)}
      within == {k \in 1..bound : AlignedEnds(history, live, k) # {}}
  IN CASE history = <<>> -> live
       [] live = <<>> \/ Len(live) \in overlaps -> history
       [] OTHER ->
            IF overlaps # {} THEN history \o BehindOverlap(live, Min(overlaps))
            ELSE IF within # {} THEN history \o BehindOverlap(live, Min(AlignedEnds(history, live, Max(within))))
            ELSE history \o <<GapMarker>> \o live

-------------------------------------------------------------------------------
(* timeWindow: a record without a timestamp counts as the one before it; 0 is  *)
(* an absent bound, and the state carried from record to record is the last    *)
(* timestamp seen.                                                              *)
CarryOn(carried, line) == IF TimeOf(line) > 0 THEN TimeOf(line) ELSE carried

InWindow(carried, line, since, until) ==
  LET effective == CarryOn(carried, line)
  IN IF effective = 0 THEN since = 0
     ELSE effective >= since /\ (until = 0 \/ effective <= until)
================================================================================
