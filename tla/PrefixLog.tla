----------------------------- MODULE PrefixLog -----------------------------
(***************************************************************************)
(* What the rest of the program relies on when it reads the action log of  *)
(* a workspace, without transactions, locks or statements: the log only    *)
(* grows at its end, one committed write at a time, and a reader that has  *)
(* been handed a position has been handed every entry up to it.  An        *)
(* entry's text may be redacted in place; its position never changes.      *)
(*                                                                         *)
(* ActionLog is the implementation: PostgreSQL transactions that draw      *)
(* sequence numbers, and readers that page through committed rows.         *)
(***************************************************************************)
EXTENDS Naturals

CONSTANTS Bodies,    \* what an entry says
          Readers    \* cursors that page through the log

VARIABLES length,    \* how many entries there are
          log,       \* log[s] is the entry with sequence number s
          position,  \* position[r]: the last sequence number r was handed
          handed     \* handed[r]: the sequence numbers of the entries r was handed

avars == <<length, log, position, handed>>

LogsOfLength(n) == [1..n -> Bodies]

AbsInit ==
    /\ length = 0
    /\ log \in LogsOfLength(0)
    /\ position = [r \in Readers |-> 0]
    /\ handed = [r \in Readers |-> {}]

(* A write commits: one or more entries appear at the end, together. *)
Publish ==
    /\ length' \in Nat
    /\ length < length'
    /\ log' \in LogsOfLength(length')
    /\ \A s \in 1..length : log'[s] = log[s]
    /\ UNCHANGED <<position, handed>>

(* A redaction rewrites one entry in place. *)
Redact ==
    /\ \E s \in 1..length, b \in Bodies : log' = [log EXCEPT ![s] = b]
    /\ UNCHANGED <<length, position, handed>>

(***************************************************************************)
(* A reader is handed the whole segment between its old position and a new *)
(* one inside the log: nothing skipped, nothing from beyond the new        *)
(* position.                                                               *)
(***************************************************************************)
Hand(r) ==
    \E p \in (position[r] + 1)..length :
        /\ position' = [position EXCEPT ![r] = p]
        /\ handed' = [handed EXCEPT ![r] = @ \cup ((position[r] + 1)..p)]
        /\ UNCHANGED <<length, log>>

AbsNext == Publish \/ Redact \/ \E r \in Readers : Hand(r)

AbsSpec == AbsInit /\ [][AbsNext]_avars
=============================================================================
