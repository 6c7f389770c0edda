------------------------------- MODULE MCMbox -------------------------------
(* Instances of Mbox for TLC. *)
EXTENDS Mbox, TLC
CONSTANTS t1, t2, t3

MCThreads == {t1, t2, t3}
MCPriority == t1 :> 0 @@ t2 :> 1 @@ t3 :> 1
MCRunqueues == 0 :> <<t1>> @@ 1 :> <<t2, t3>>
=============================================================================
