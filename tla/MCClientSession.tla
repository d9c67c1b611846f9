-------------------------- MODULE MCClientSession --------------------------
(* Two tabs, two users and a token for each of them.                       *)
EXTENDS ClientSession, TLC
CONSTANTS u1, u2, k1, k2
MCUser == {u1, u2}
MCToken == {k1, k2}
MCOwner == k1 :> u1 @@ k2 :> u2
=============================================================================
