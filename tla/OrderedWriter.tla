--------------------------- MODULE OrderedWriter ---------------------------
(***************************************************************************)
(* What a write queue promises its callers: accepted chunks are handed to  *)
(* the outside one at a time in the order of the calls, none twice, and    *)
(* every accepted write is answered in that order, or all that are left    *)
(* fail together when the queue closes.                                    *)
(***************************************************************************)
EXTENDS Integers, Sequences

CONSTANT Writes  \* the write() calls

VARIABLES
  line,    \* accepted and unanswered writes, oldest first
  fate,    \* new, waiting, ok or failed, per write
  sent,    \* chunks handed to the outside, in order
  closed   \* nothing is accepted or answered with success any more

vars == <<line, fate, sent, closed>>

Init == /\ line = <<>>
        /\ fate = [w \in Writes |-> "new"]
        /\ sent = <<>>
        /\ closed = FALSE

Accept(w) == /\ ~closed
             /\ fate[w] = "new"
             /\ fate' = [fate EXCEPT ![w] = "waiting"]
             /\ line' = Append(line, w)
             /\ UNCHANGED <<sent, closed>>

Refuse(w) == /\ fate[w] = "new"
             /\ fate' = [fate EXCEPT ![w] = "failed"]
             /\ UNCHANGED <<line, sent, closed>>

\* Only the oldest unanswered chunk is handed out, and only once.
Hand == /\ ~closed
        /\ line # <<>>
        /\ \A i \in 1..Len(sent) : sent[i] # Head(line)
        /\ sent' = Append(sent, Head(line))

\* Only the oldest unanswered write is answered.
Answer(f) == /\ ~closed
             /\ line # <<>>
             /\ fate' = [fate EXCEPT ![Head(line)] = f]
             /\ line' = Tail(line)

\* Hand the chunk out, answer the write, or both at once.
Serve == \/ Hand /\ UNCHANGED <<line, fate, closed>>
         \/ Hand /\ Answer("ok") /\ UNCHANGED closed
         \/ \E f \in {"ok", "failed"} : Answer(f) /\ UNCHANGED <<sent, closed>>

Close == /\ ~closed
         /\ closed' = TRUE
         /\ fate' = [w \in Writes |-> IF fate[w] = "waiting" THEN "failed"
                                      ELSE fate[w]]
         /\ line' = <<>>
         /\ UNCHANGED sent

Next == Serve \/ Close \/ \E w \in Writes : Accept(w) \/ Refuse(w)

Spec == Init /\ [][Next]_vars
=============================================================================
