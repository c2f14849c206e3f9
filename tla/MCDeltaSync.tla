---------------------------- MODULE MCDeltaSync ----------------------------
(***************************************************************************)
(* The instance of DeltaSync for TLC.                                      *)
(***************************************************************************)
EXTENDS DeltaSync

CONSTANTS i1, i2, u1

TwoIssues == {i1, i2}
OneUser == {u1}
=============================================================================
