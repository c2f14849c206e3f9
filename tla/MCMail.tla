------------------------------- MODULE MCMail -------------------------------
(***************************************************************************)
(* Instances of Mail for TLC.                                              *)
(***************************************************************************)
EXTENDS Mail

CONSTANTS u1, u2, r1, r2, p1, p2

TwoUsers == {u1, u2}
FirstUser == {u1}
TwoRunners == {r1, r2}
TwoMailers == {p1, p2}
=============================================================================
