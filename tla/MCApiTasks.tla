----------------------------- MODULE MCApiTasks -----------------------------
(***************************************************************************)
(* Instances of ApiTasks for TLC.                                          *)
(***************************************************************************)
EXTENDS ApiTasks, TLC

CONSTANTS t1, t2, w1, w2

TwoTasks == {t1, t2}
TwoWorkers == {w1, w2}

(* The first item is changed in two pieces, the second in one.             *)
TwoThenOne == <<2, 1>>

(* The first task is of any kind, the second a watch it competes with.     *)
AnyAndWatch == t1 :> Kinds @@ t2 :> {"watch"}
=============================================================================
