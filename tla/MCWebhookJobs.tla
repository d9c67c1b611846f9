---------------------------- MODULE MCWebhookJobs ----------------------------
(***************************************************************************)
(* An instance of WebhookJobs for TLC: one event delivered twice, two runs *)
(* of the loop, two attempts and one death.                                *)
(***************************************************************************)
EXTENDS WebhookJobs

CONSTANT j1

SameEvent == [r \in Request |-> j1]
=============================================================================
