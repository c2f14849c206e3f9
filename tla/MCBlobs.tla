------------------------------- MODULE MCBlobs -------------------------------
(***************************************************************************)
(* Instances of Blobs for TLC.                                             *)
(***************************************************************************)
EXTENDS Blobs

CONSTANTS b1, b2, i1, i2, p1, p2

TwoBlobs == {b1, b2}
TwoIssues == {i1, i2}
TwoProcs == {p1, p2}
=============================================================================
