----------------------------- MODULE PortLeases -----------------------------
(***************************************************************************)
(* What a port allocator promises: a lease names one port or two           *)
(* consecutive ones, no port is leased twice at a time, and a lease is     *)
(* returned as a whole.                                                    *)
(***************************************************************************)
EXTENDS Naturals

CONSTANTS
  Callers,  \* whoever asks, each for one lease at a time
  Pairs,    \* the callers that ask for two consecutive ports
  Ports     \* the ports the operating system hands out

VARIABLE leases   \* the ports each caller has leased

Block(c, p) == IF c \in Pairs THEN {p, p + 1} ELSE {p}

Init == leases = [c \in Callers |-> {}]

Grant(c) ==
  /\ leases[c] = {}
  /\ \E p \in Ports :
       /\ Block(c, p) \subseteq Ports
       /\ \A d \in Callers : leases[d] \cap Block(c, p) = {}
       /\ leases' = [leases EXCEPT ![c] = Block(c, p)]

Return(c) ==
  /\ leases[c] # {}
  /\ leases' = [leases EXCEPT ![c] = {}]

Next == \E c \in Callers : Grant(c) \/ Return(c)

Spec == Init /\ [][Next]_leases
=============================================================================
