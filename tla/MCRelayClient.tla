--------------------------- MODULE MCRelayClient ---------------------------
(* Small instances of RelayClient for TLC.                                  *)
EXTENDS RelayClient, TLC

CONSTANTS p1, p2, q, s, e1, e2, f, u

MCEventOf   == p1 :> e1 @@ p2 :> e2
OnlyP1      == p1 :> e1
NoPublisher == <<>>
=============================================================================
