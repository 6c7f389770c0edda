------------------------------ MODULE MCMutex ------------------------------
(* Instances of Mutex for TLC. *)
EXTENDS Mutex, TLC
CONSTANTS t1, t2, t3, m1, m2

\* One thread of high priority, two of the same low one.
MCThreads == {t1, t2, t3}
MCPriority == t1 :> 0 @@ t2 :> 1 @@ t3 :> 1
MCRunqueues == 0 :> <<t1>> @@ 1 :> <<t2, t3>>

AllUses == Threads \X Mutexes
\* m2 is unlocked by handlers, and t2 waits for it.
MCUses == {<<t1, m1>>, <<t2, m1>>, <<t3, m1>>, <<t2, m2>>}
=============================================================================
