------------------------------ MODULE MCOutbox ------------------------------
(***************************************************************************)
(* Instances of Outbox for TLC.                                            *)
(***************************************************************************)
EXTENDS Outbox

CONSTANTS ann, bob

OnePerson == {ann}
TwoPeople == {ann, bob}
=============================================================================
