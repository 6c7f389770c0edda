------------------------------ MODULE MCZTimer ------------------------------
(***************************************************************************)
(* Two timers on an on-demand counter of two bits, extended to three.     *)
(***************************************************************************)
EXTENDS ZTimer

MCIntervals == {1, 3}
=============================================================================
