--------------------------- MODULE SlidingWindow ---------------------------
(***************************************************************************)
(* What a rate budget promises its callers, with no word on how: calls     *)
(* join a line, the oldest call still in line is granted when the trailing *)
(* window has room for one more grant, and a call may leave the line       *)
(* without a grant.  The whole history of grant instants is kept, so the   *)
(* rule is stated about every trailing window there ever was.              *)
(***************************************************************************)
EXTENDS Integers, Sequences

CONSTANTS
  Calls,     \* the acquire() calls
  Capacity,  \* most grants inside one trailing window
  Window     \* length of the trailing window

VARIABLES
  now,       \* the clock
  log,       \* instants of all grants, oldest first
  status,    \* new, waiting, granted or gone, per call
  place      \* arrival number per call; 0 before it joins

vars == <<now, log, status, place>>

Status == {"new", "waiting", "granted", "gone"}

Waiting == {c \in Calls : status[c] = "waiting"}

\* The grant Capacity places back has left the trailing window.
Room == \/ Len(log) < Capacity
        \/ log[Len(log) + 1 - Capacity] + Window <= now

Init == /\ now \in Nat
        /\ log = <<>>
        /\ status = [c \in Calls |-> "new"]
        /\ place = [c \in Calls |-> 0]

Tick == /\ now' = now + 1
        /\ UNCHANGED <<log, status, place>>

\* A call joins behind every call that joined before it.
Join(c) == /\ status[c] = "new"
           /\ status' = [status EXCEPT ![c] = "waiting"]
           /\ \A d \in Calls : place[d] < place'[c]
           /\ place' = [place EXCEPT ![c] = place'[c]]
           /\ UNCHANGED <<now, log>>

\* First come, first served among the calls still waiting.
Grant(c) == /\ c \in Waiting
            /\ \A d \in Waiting : place[c] <= place[d]
            /\ Room
            /\ log' = Append(log, now)
            /\ status' = [status EXCEPT ![c] = "granted"]
            /\ UNCHANGED <<now, place>>

\* Any set of calls may give up at once, ever before being granted.
Leave(S) == /\ \A c \in S : status[c] \in {"new", "waiting"}
            /\ status' = [c \in Calls |-> IF c \in S THEN "gone"
                                         ELSE status[c]]
            /\ UNCHANGED <<now, log, place>>

Next == \/ Tick
        \/ \E c \in Calls : Join(c) \/ Grant(c)
        \/ \E S \in SUBSET Calls : Leave(S)

Spec == Init /\ [][Next]_vars
=============================================================================
