------------------------------ MODULE MCGateway ------------------------------
(* Instances of Gateway for TLC.  The requests are all duplex, or r1 is and  *)
(* the others are chats; the .cfg files choose how much may go wrong.        *)
EXTENDS Gateway, TLC

CONSTANTS r1, r2, r3

OneType == [r \in Requests |-> "duplex"]
Mixed   == [r \in Requests |-> IF r = r1 THEN "duplex" ELSE "chat"]

AnyWork == [w \in Workers |-> {"chat", "duplex"}]
OwnGpu  == [w \in Workers |-> w]

=============================================================================
