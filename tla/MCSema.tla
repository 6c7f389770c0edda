------------------------------- MODULE MCSema -------------------------------
(* Instances of Sema for TLC. *)
EXTENDS Sema, TLC
CONSTANTS t1, t2, t3, m1

MCThreads == {t1, t2, t3}
MCPriority == t1 :> 0 @@ t2 :> 1 @@ t3 :> 1
MCRunqueues == 0 :> <<t1>> @@ 1 :> <<t2, t3>>

AllUses == Threads \X Mutexes
=============================================================================
