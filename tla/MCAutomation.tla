---------------------------- MODULE MCAutomation ----------------------------
(***************************************************************************)
(* Instances of Automation for TLC.                                        *)
(***************************************************************************)
EXTENDS Automation, TLC

CONSTANTS a, b, w1, w2

OneRule == {a}
TwoRules == {a, b}
OneWorker == {w1}
TwoWorkers == {w1, w2}

(* Server replicas are interchangeable. *)
Replicas == Permutations(TwoWorkers)
=============================================================================
