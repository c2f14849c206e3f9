----------------------------- MODULE ActionLog -----------------------------
(***************************************************************************)
(* The action log of one workspace: how internal/store writes it and how   *)
(* it is read back (internal/store/mutations.go, store.go,                 *)
(* jira_redaction.go).                                                     *)
(*                                                                         *)
(* Every command runs in a PostgreSQL transaction at READ COMMITTED.       *)
(* nextSeq is one statement,                                               *)
(*     UPDATE workspaces SET seq = seq + 1 WHERE id = $1 RETURNING seq     *)
(* so a transaction that draws a number owns the workspace row until it    *)
(* commits or rolls back, and a second transaction that wants a number     *)
(* waits and re-reads the committed counter.  appendAction inserts the row *)
(* with that number.  A command may draw several numbers (a change of      *)
(* reporter that also revokes the former reporter's replica, a deletion    *)
(* that unlinks children) and may insert the rows in another order than it *)
(* drew the numbers (DeleteIssue draws first and inserts last).            *)
(*                                                                         *)
(* ActionPageSince reads in two statements that share no snapshot: one     *)
(* finds how far a page of Limit rows reaches, the other fetches the rows  *)
(* up to there.  Other transactions commit in between.                     *)
(*                                                                         *)
(* Permissions, which filter the rows of a page, are in DeltaSync.         *)
(***************************************************************************)
EXTENDS Naturals, FiniteSets

CONSTANTS Txs,       \* database connections that run commands
          Readers,   \* consumers that page through the log from a checkpoint
          Bodies,    \* what an action says
          Redacted,  \* a body after redaction
          NoRow,     \* no committed row has this sequence number
          NoTx,      \* nobody holds the workspace row
          MaxSeq,    \* bound on the sequence numbers drawn
          Limit      \* rows in a page of ActionPageSince

ASSUME BodyAssumption == Redacted \in Bodies /\ NoRow \notin Bodies
ASSUME TxAssumption == NoTx \notin Txs
ASSUME BoundAssumption == MaxSeq \in Nat /\ Limit \in Nat \ {0}

VARIABLES
    seq,       \* workspaces.seq as last committed
    rows,      \* rows[s]: the committed body of action s, or NoRow
    holder,    \* the transaction that owns the lock on the workspace row
    open,      \* the transactions that are open
    drawn,     \* drawn[t]: the value of workspaces.seq that t has written, if it owns the row
    first,     \* first[t]: the first number t drew
    pending,   \* pending[t][s]: the body t has inserted for s, or NoRow
    cp,        \* cp[r]: the checkpoint of reader r
    reading,   \* reading[r]: "no", "page" (boundary known) or "reply" (rows known)
    to,        \* to[r]: the boundary of the page r is reading
    page,      \* page[r]: the sequence numbers of the rows fetched
    seen       \* seen[r]: every sequence number r was ever delivered

txVars == <<holder, open, drawn, first, pending>>
readerVars == <<cp, reading, to, page, seen>>
vars == <<seq, rows, txVars, readerVars>>

Seqs == 1..MaxSeq
NoRows == [s \in Seqs |-> NoRow]

Init ==
    /\ seq = 0
    /\ rows = NoRows
    /\ holder = NoTx
    /\ open = {}
    /\ drawn = [t \in Txs |-> 0]
    /\ first = [t \in Txs |-> 1]
    /\ pending = [t \in Txs |-> NoRows]
    /\ cp = [r \in Readers |-> 0]
    /\ reading = [r \in Readers |-> "no"]
    /\ to = [r \in Readers |-> 0]
    /\ page = [r \in Readers |-> {}]
    /\ seen = [r \in Readers |-> {}]
-----------------------------------------------------------------------------
(* The numbers t has drawn, and those it has inserted no row for yet. *)
Drawn(t) == first[t]..drawn[t]
Owed(t) == {s \in Drawn(t) : pending[t][s] = NoRow}

Begin(t) ==
    /\ t \notin open
    /\ open' = open \cup {t}
    /\ UNCHANGED <<seq, rows, holder, drawn, first, pending, readerVars>>

\* Mutation: the counter is read and written back without owning the row.
NextSeqUnlocked(t) ==
    /\ t \in open
    /\ LET now == IF drawn[t] > 0 THEN drawn[t] ELSE seq IN
          /\ now < MaxSeq
          /\ drawn' = [drawn EXCEPT ![t] = now + 1]
          /\ first' = IF drawn[t] > 0 THEN first ELSE [first EXCEPT ![t] = now + 1]
    /\ UNCHANGED <<seq, rows, holder, open, pending, readerVars>>

(***************************************************************************)
(* nextSeq.  It waits while another transaction owns the row; the UPDATE   *)
(* then increments the counter as that transaction left it, or its own     *)
(* uncommitted value when it draws again.                                  *)
(***************************************************************************)
NextSeq(t) ==
    /\ t \in open
    /\ holder \in {NoTx, t}
    /\ LET now == IF drawn[t] > 0 THEN drawn[t] ELSE seq IN
          /\ now < MaxSeq
          /\ drawn' = [drawn EXCEPT ![t] = now + 1]
          /\ first' = IF drawn[t] > 0 THEN first ELSE [first EXCEPT ![t] = now + 1]
    /\ holder' = t
    /\ UNCHANGED <<seq, rows, open, pending, readerVars>>

(* appendAction: the row for a number this transaction drew. *)
AppendAction(t) ==
    /\ t \in open
    /\ \E s \in Owed(t), b \in Bodies :
          pending' = [pending EXCEPT ![t][s] = b]
    /\ UNCHANGED <<seq, rows, holder, open, drawn, first, readerVars>>

(* What both ends of a transaction do to its own state. *)
Close(t) ==
    /\ open' = open \ {t}
    /\ holder' = IF holder = t THEN NoTx ELSE holder
    /\ drawn' = [drawn EXCEPT ![t] = 0]
    /\ first' = [first EXCEPT ![t] = 1]
    /\ pending' = [pending EXCEPT ![t] = NoRows]
    /\ UNCHANGED readerVars

\* What a commit publishes of its own rows.
Merged(t) == [s \in Seqs |-> IF s \in Drawn(t) THEN pending[t][s] ELSE rows[s]]

\* Mutation: a command commits a number without its action.
CommitOwing(t) ==
    /\ t \in open
    /\ seq' = IF drawn[t] > 0 THEN drawn[t] ELSE seq
    /\ rows' = Merged(t)
    /\ Close(t)

(***************************************************************************)
(* Commit: the counter and the rows become visible together.  Every caller *)
(* of nextSeq inserts one action for each number it drew before it         *)
(* commits.                                                                *)
(***************************************************************************)
Commit(t) ==
    /\ t \in open
    /\ Owed(t) = {}
    /\ seq' = IF drawn[t] > 0 THEN drawn[t] ELSE seq
    /\ rows' = Merged(t)
    /\ Close(t)

\* Mutation: an abandoned transaction keeps its row lock.
RollbackKeepingLock(t) ==
    /\ t \in open
    /\ open' = open \ {t}
    /\ drawn' = [drawn EXCEPT ![t] = 0]
    /\ first' = [first EXCEPT ![t] = 1]
    /\ pending' = [pending EXCEPT ![t] = NoRows]
    /\ UNCHANGED <<seq, rows, holder, readerVars>>

(* A command fails, a deadlock is broken, or the server dies. *)
Rollback(t) ==
    /\ t \in open
    /\ Close(t)
    /\ UNCHANGED <<seq, rows>>

(***************************************************************************)
(* scrubActionHistory rewrites the text of committed actions in place,     *)
(* each in a statement of its own, without taking the workspace row.       *)
(***************************************************************************)
ScrubAction ==
    /\ \E s \in Seqs :
          /\ rows[s] \notin {NoRow, Redacted}
          /\ rows' = [rows EXCEPT ![s] = Redacted]
    /\ UNCHANGED <<seq, txVars, readerVars>>
-----------------------------------------------------------------------------
(* Committed rows after a checkpoint, as one statement sees them. *)
RowsBetween(a, b) == {s \in (a + 1)..b : s \in Seqs /\ rows[s] # NoRow}

(***************************************************************************)
(* SELECT MAX(seq) of the first Limit rows after the checkpoint: either    *)
(* the page is full, or it reaches the last row there is.                  *)
(***************************************************************************)
Boundary(a, b) ==
    /\ b \in RowsBetween(a, MaxSeq)
    /\ Cardinality(RowsBetween(a, b)) <= Limit
    /\ \/ Cardinality(RowsBetween(a, b)) = Limit
       \/ RowsBetween(b, MaxSeq) = {}

(* First statement; the handler asks for a page only when since < head. *)
ReadBoundary(r) ==
    /\ reading[r] = "no"
    /\ cp[r] < seq
    /\ \E b \in Seqs :
          /\ Boundary(cp[r], b)
          /\ to' = [to EXCEPT ![r] = b]
    /\ reading' = [reading EXCEPT ![r] = "page"]
    /\ UNCHANGED <<seq, rows, txVars, cp, page, seen>>

\* Mutation: the page is not cut at the boundary.
ReadPageUncut(r) ==
    /\ reading[r] = "page"
    /\ page' = [page EXCEPT ![r] = RowsBetween(cp[r], MaxSeq)]
    /\ reading' = [reading EXCEPT ![r] = "reply"]
    /\ UNCHANGED <<seq, rows, txVars, cp, to, seen>>

(* Second statement: a.seq > since AND a.seq <= to. *)
ReadPage(r) ==
    /\ reading[r] = "page"
    /\ page' = [page EXCEPT ![r] = RowsBetween(cp[r], to[r])]
    /\ reading' = [reading EXCEPT ![r] = "reply"]
    /\ UNCHANGED <<seq, rows, txVars, cp, to, seen>>

\* Mutation: the reader advances to the head instead of to its boundary.
AdvanceToHead(r) ==
    /\ reading[r] = "reply"
    /\ cp' = [cp EXCEPT ![r] = seq]
    /\ seen' = [seen EXCEPT ![r] = @ \cup page[r]]
    /\ reading' = [reading EXCEPT ![r] = "no"]
    /\ UNCHANGED <<seq, rows, txVars, to, page>>

\* Mutation: the reader waits for a full page.
AdvanceByFullPages(r) ==
    /\ reading[r] = "reply"
    /\ IF Cardinality(page[r]) = Limit
          THEN /\ cp' = [cp EXCEPT ![r] = to[r]]
               /\ seen' = [seen EXCEPT ![r] = @ \cup page[r]]
          ELSE UNCHANGED <<cp, seen>>
    /\ reading' = [reading EXCEPT ![r] = "no"]
    /\ UNCHANGED <<seq, rows, txVars, to, page>>

(* The reader applies the page and advances to the boundary it was given. *)
Advance(r) ==
    /\ reading[r] = "reply"
    /\ cp' = [cp EXCEPT ![r] = to[r]]
    /\ seen' = [seen EXCEPT ![r] = @ \cup page[r]]
    /\ reading' = [reading EXCEPT ![r] = "no"]
    /\ UNCHANGED <<seq, rows, txVars, to, page>>

(* The reply is lost or the reader restarts; the checkpoint stays. *)
LoseReply(r) ==
    /\ reading[r] # "no"
    /\ reading' = [reading EXCEPT ![r] = "no"]
    /\ UNCHANGED <<seq, rows, txVars, cp, to, page, seen>>

Write(t) == Begin(t) \/ NextSeq(t) \/ AppendAction(t) \/ Commit(t) \/ Rollback(t)
Read(r) == ReadBoundary(r) \/ ReadPage(r) \/ Advance(r) \/ LoseReply(r)
Next == (\E t \in Txs : Write(t)) \/ ScrubAction \/ (\E r \in Readers : Read(r))

Spec == Init /\ [][Next]_vars

(***************************************************************************)
(* A reader polls for ever (every three seconds in the browser worker), so *)
(* it asks again after a lost reply.  Weak fairness of the steps of a      *)
(* request would allow every request to be lost; strong fairness says that *)
(* requests are not lost for ever.                                         *)
(***************************************************************************)
Fairness ==
    \A r \in Readers : /\ WF_vars(ReadBoundary(r))
                       /\ SF_vars(ReadPage(r))
                       /\ SF_vars(Advance(r))

FairSpec == Spec /\ Fairness
-----------------------------------------------------------------------------
TypeOK ==
    /\ seq \in 0..MaxSeq
    /\ rows \in [Seqs -> Bodies \cup {NoRow}]
    /\ holder \in open \cup {NoTx}
    /\ open \in SUBSET Txs
    /\ drawn \in [Txs -> 0..MaxSeq]
    /\ first \in [Txs -> 1..(MaxSeq + 1)]
    /\ pending \in [Txs -> [Seqs -> Bodies \cup {NoRow}]]
    /\ cp \in [Readers -> 0..MaxSeq]
    /\ reading \in [Readers -> {"no", "page", "reply"}]
    /\ to \in [Readers -> 0..MaxSeq]
    /\ page \in [Readers -> SUBSET Seqs]
    /\ seen \in [Readers -> SUBSET Seqs]

(***************************************************************************)
(* The committed rows are exactly 1..seq: a reader that sees head n can    *)
(* count on every action up to n being there, however many transactions    *)
(* were rolled back or are still open.                                     *)
(***************************************************************************)
LogIsDense == \A s \in Seqs : rows[s] # NoRow <=> s <= seq

(***************************************************************************)
(* A reader has been delivered every action up to its checkpoint and no    *)
(* other, although the boundary and the page come from two statements:     *)
(* nothing commits behind a checkpoint (ActionPageSince).                  *)
(***************************************************************************)
NothingSkipped == \A r \in Readers : seen[r] = 1..cp[r]

(***************************************************************************)
(* What is at or below the committed head is settled: no step adds or      *)
(* removes a row there, and the head never goes back (nextSeq holds the    *)
(* row lock until the commit, so the order of the numbers is the order of  *)
(* the commits).                                                           *)
(***************************************************************************)
Settled ==
    /\ seq <= seq'
    /\ \A s \in 1..seq : rows'[s] = NoRow <=> rows[s] = NoRow

SettledBelowHead == [][Settled]_vars

(* Every committed action reaches every reader that keeps polling. *)
EveryActionIsDelivered ==
    \A r \in Readers : \A s \in Seqs : rows[s] # NoRow ~> s \in seen[r]

(* The log that the rest of the program sees. *)
Abstract == INSTANCE PrefixLog
    WITH length <- seq,
         log <- [s \in 1..seq |-> rows[s]],
         position <- cp,
         handed <- seen

(* The implementation refines the append-only log of PrefixLog. *)
RefinesPrefixLog == Abstract!AbsSpec
=============================================================================
