------------------------------ MODULE MCEvent ------------------------------
(* Instances of Event, and of the thread flags under it, for TLC. *)
EXTENDS Event, TLC
CONSTANTS t1, t2

MCThreads == {t1, t2}
MCPriority == t1 :> 0 @@ t2 :> 1
MCRunqueues == 0 :> <<t1>> @@ 1 :> <<t2>>
MCMasks == {{0}, {1}, {0, 1}}
=============================================================================
