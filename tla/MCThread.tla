------------------------------ MODULE MCThread ------------------------------
(* Instances of Thread for TLC. *)
EXTENDS Thread
CONSTANTS t1, t2, t3

TwoAndMain == {t1, t2, t3}
=============================================================================
