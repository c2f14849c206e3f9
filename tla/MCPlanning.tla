----------------------------- MODULE MCPlanning -----------------------------
(***************************************************************************)
(* Instances of Planning for TLC.                                          *)
(***************************************************************************)
EXTENDS Planning, TLC

CONSTANTS i1, i2, i3, s1, s2, m1, m2

ThreeItems == {i1, i2, i3}
TwoSprints == {s1, s2}
TwoMovers == {m1, m2}

(* Items, sprints and requests are interchangeable. *)
Relabelling ==
    Permutations(ThreeItems) \cup Permutations(TwoSprints) \cup Permutations(TwoMovers)
=============================================================================
