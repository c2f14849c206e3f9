----------------------------- MODULE MCWebhooks -----------------------------
(***************************************************************************)
(* Instances of Webhooks for TLC.                                          *)
(***************************************************************************)
EXTENDS Webhooks

CONSTANTS h1, d1, d2

OneHook == {h1}
TwoDispatchers == {d1, d2}
=============================================================================
