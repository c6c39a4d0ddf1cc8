----------------------------- MODULE MCWebhooks -----------------------------
(* Model values for the run of Webhooks.                                   *)
EXTENDS Webhooks

CONSTANTS h1, h2, a1, a2, w1, w2

AllOrFirst == {Activity, {a1}}
=============================================================================
