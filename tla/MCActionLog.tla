---------------------------- MODULE MCActionLog ----------------------------
(***************************************************************************)
(* Instances of ActionLog for TLC.                                         *)
(***************************************************************************)
EXTENDS ActionLog

CONSTANTS t1, t2, r1, fresh, redacted

MCTxs == {t1, t2}
MCReaders == {r1}
MCBodies == {fresh, redacted}
=============================================================================
