------------------------------- MODULE MCTcp -------------------------------
(* GNRC TCP: a client that sends, a server that receives.                  *)
EXTENDS Tcp

CONSTANTS ClientSends, ServerSends

MCToSend == [p \in Peers |-> IF p = Client THEN ClientSends ELSE ServerSends]

MCIss == {6, 14}
=============================================================================
