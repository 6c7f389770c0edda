------------------------------- MODULE MCMsg -------------------------------
(* An instance of Msg for TLC. *)
EXTENDS Msg, TLC
CONSTANTS t1, t2, t3

MCThreads == {t1, t2, t3}
MCPriority == t1 :> 0 @@ t2 :> 0 @@ t3 :> 1
MCRunqueues == 0 :> <<t1, t2>> @@ 1 :> <<t3>>

\* Threads of either priority send to t2, which has a queue, answers, and sends
\* to itself; a handler sends to t1, which has none, and to both by the bus.
MCLinks == {<<t1, t2>>, <<t3, t2>>, <<Isr, t1>>, <<t2, t2>>}
=============================================================================
