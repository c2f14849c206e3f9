----------------------------- MODULE MCWikiLive -----------------------------
(***************************************************************************)
(* The instance of WikiLive for TLC: two people and two characters, which  *)
(* either of them may type.  The page starts with a task list, o, so that  *)
(* it is edited as storage, or with a macro, m, in the rich editor; y is   *)
(* half a tag where storage is typed.                                      *)
(***************************************************************************)
EXTENDS WikiLive

CONSTANTS ana, ben, o, m, x, y

Both == {ana, ben}
Typed == [e \in Both |-> {x, y}]
Y == {y}
O == {o}
M == {m}
TaskOrMacro == {<<o>>, <<m>>}
=============================================================================
