-------------------------------- MODULE Fifo --------------------------------
(***************************************************************************)
(* What the circular integer buffer and the array beside it promise to     *)
(* their user: a first-in first-out queue of at most Size entries.         *)
(***************************************************************************)
EXTENDS Naturals, Sequences

CONSTANTS Size, Values

VARIABLE q

Init == q = << >>

Put(v) == Len(q) < Size /\ q' = Append(q, v)
Get == q # << >> /\ q' = Tail(q)

Next == Get \/ \E v \in Values : Put(v)

Spec == Init /\ [][Next]_q
=============================================================================
