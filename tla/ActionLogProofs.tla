-------------------------- MODULE ActionLogProofs --------------------------
(***************************************************************************)
(* Proofs about ActionLog, for every number of connections and readers,    *)
(* every bound and every page size.                                        *)
(*                                                                         *)
(* LogIsDense and NothingSkipped are not inductive alone.  The log stays   *)
(* dense because the owner of the workspace row has drawn a segment that   *)
(* starts right after the committed head, and nobody else has drawn        *)
(* anything (LockInv).  A reader skips nothing because the rows it fetched *)
(* are the whole segment between its checkpoint and its boundary, and the  *)
(* boundary was inside the log (PageInv).                                  *)
(***************************************************************************)
EXTENDS ActionLog, TLAPS

(* Who owns the workspace row, and what it has drawn. *)
LockInv ==
    \A t \in Txs :
        IF holder = t THEN /\ first[t] = seq + 1
                           /\ drawn[t] \in first[t]..MaxSeq
                      ELSE drawn[t] = 0 /\ first[t] = 1

(* Where a reader stands between the two statements of a request. *)
PageInv ==
    \A r \in Readers :
        /\ cp[r] <= seq
        /\ reading[r] # "no" => cp[r] < to[r] /\ to[r] <= seq
        /\ reading[r] = "reply" => page[r] = (cp[r] + 1)..to[r]

IInv == TypeOK /\ LogIsDense /\ NothingSkipped /\ LockInv /\ PageInv
-----------------------------------------------------------------------------
(* The empty log with no transaction open satisfies the invariant. *)
LEMMA InitIInv == Init => IInv
  <1> SUFFICES ASSUME Init PROVE IInv
    OBVIOUS
  <1>1. TypeOK
    BY BoundAssumption DEF Init, TypeOK, NoRows
  <1>2. LogIsDense
    BY BoundAssumption DEF Init, LogIsDense, NoRows, Seqs
  <1>3. NothingSkipped /\ PageInv
    BY DEF Init, NothingSkipped, PageInv
  <1>4. LockInv
    BY TxAssumption DEF Init, LockInv
  <1> QED
    BY <1>1, <1>2, <1>3, <1>4 DEF IInv

(* Drawing a number keeps the drawn segment right after the head. *)
LEMMA NextSeqIInv ==
    ASSUME IInv, NEW t \in Txs, NextSeq(t)
    PROVE  IInv'
  <1> USE BoundAssumption, TxAssumption
  <1>1. /\ t \in open /\ holder' = t /\ holder \in {NoTx, t}
        /\ UNCHANGED <<seq, rows, open, pending, readerVars>>
    BY DEF NextSeq
  <1>2. CASE drawn[t] > 0
    <2>1. holder = t /\ first[t] = seq + 1 /\ drawn[t] \in first[t]..MaxSeq
      BY <1>2 DEF IInv, LockInv
    <2>2. /\ drawn[t] < MaxSeq
          /\ drawn' = [drawn EXCEPT ![t] = drawn[t] + 1]
          /\ first' = first
      BY <1>2 DEF NextSeq
    <2>3. TypeOK'
      BY <1>1, <2>1, <2>2 DEF IInv, TypeOK, readerVars
    <2>4. LockInv'
      BY <1>1, <2>1, <2>2 DEF IInv, TypeOK, LockInv
    <2> QED
      BY <1>1, <2>3, <2>4 DEF IInv, LogIsDense, NothingSkipped, PageInv, readerVars
  <1>3. CASE ~(drawn[t] > 0)
    <2>1. holder = NoTx
      BY <1>1, <1>3 DEF IInv, LockInv, TypeOK
    <2>2. /\ seq < MaxSeq
          /\ drawn' = [drawn EXCEPT ![t] = seq + 1]
          /\ first' = [first EXCEPT ![t] = seq + 1]
      BY <1>3 DEF NextSeq
    <2>3. TypeOK'
      BY <1>1, <2>1, <2>2 DEF IInv, TypeOK, readerVars
    <2>4. LockInv'
      BY <1>1, <2>1, <2>2 DEF IInv, TypeOK, LockInv
    <2> QED
      BY <1>1, <2>3, <2>4 DEF IInv, LogIsDense, NothingSkipped, PageInv, readerVars
  <1> QED
    BY <1>2, <1>3

(* The end of a transaction returns the row and forgets what was drawn. *)
LEMMA CloseLock ==
    ASSUME IInv, NEW t \in Txs, Close(t),
           holder = t \/ seq' = seq
    PROVE  LockInv'
  <1> USE TxAssumption
  <1>1. CASE holder = t
    <2>1. holder' = NoTx
      BY <1>1 DEF Close
    <2>2. \A u \in Txs : drawn'[u] = 0 /\ first'[u] = 1
      BY <1>1 DEF Close, IInv, LockInv, TypeOK
    <2> QED
      BY <2>1, <2>2 DEF LockInv
  <1>2. CASE holder # t
    BY <1>2 DEF Close, IInv, LockInv, TypeOK
  <1> QED
    BY <1>1, <1>2

(* A commit publishes exactly the segment after the head. *)
LEMMA CommitIInv ==
    ASSUME IInv, NEW t \in Txs, Commit(t)
    PROVE  IInv' /\ seq <= seq'
  <1> USE BoundAssumption
  <1>1. Owed(t) = {} /\ Close(t) /\ rows' = Merged(t)
    BY DEF Commit
  <1>2. \A s \in Seqs : s \in Drawn(t) => pending[t][s] # NoRow
    BY <1>1 DEF Owed
  <1>3. \A s \in Seqs : rows'[s] = IF s \in Drawn(t) THEN pending[t][s] ELSE rows[s]
    BY <1>1 DEF Merged
  <1>4. /\ seq <= seq' /\ seq' \in 0..MaxSeq
        /\ holder = t \/ seq' = seq
        /\ Drawn(t) = (seq + 1)..seq'
    <2>1. CASE holder = t
      BY <2>1 DEF Commit, IInv, LockInv, TypeOK, Drawn
    <2>2. CASE holder # t
      BY <2>2 DEF Commit, IInv, LockInv, TypeOK, Drawn
    <2> QED
      BY <2>1, <2>2
  <1>5. LogIsDense'
    BY <1>2, <1>3, <1>4 DEF IInv, LogIsDense, TypeOK, Seqs
  <1>6. LockInv'
    BY <1>1, <1>4, CloseLock
  <1>7. TypeOK'
    <2>1. rows' \in [Seqs -> Bodies \cup {NoRow}]
      BY <1>1 DEF Merged, IInv, TypeOK
    <2> QED
      BY <1>1, <1>4, <2>1 DEF Close, IInv, TypeOK, readerVars, NoRows
  <1>8. NothingSkipped' /\ PageInv'
    BY <1>1, <1>4 DEF Close, IInv, TypeOK, NothingSkipped, PageInv, readerVars
  <1> QED
    BY <1>4, <1>5, <1>6, <1>7, <1>8 DEF IInv

(* Rolling back leaves the committed log alone. *)
LEMMA RollbackIInv ==
    ASSUME IInv, NEW t \in Txs, Rollback(t)
    PROVE  IInv'
  <1>1. Close(t) /\ UNCHANGED <<seq, rows>>
    BY DEF Rollback
  <1>2. LockInv'
    BY <1>1, CloseLock
  <1>3. TypeOK'
    BY <1>1, BoundAssumption DEF Close, IInv, TypeOK, readerVars, NoRows
  <1>4. LogIsDense' /\ NothingSkipped' /\ PageInv'
    BY <1>1 DEF Close, IInv, LogIsDense, NothingSkipped, PageInv, readerVars
  <1> QED
    BY <1>2, <1>3, <1>4 DEF IInv

(* Opening a transaction, inserting its rows, redacting a committed row. *)
LEMMA WriterIInv ==
    ASSUME IInv,
           \/ \E t \in Txs : Begin(t) \/ AppendAction(t)
           \/ ScrubAction
    PROVE  IInv' /\ seq' = seq
  <1> USE BoundAssumption, BodyAssumption
  <1>1. ASSUME NEW t \in Txs, Begin(t)
        PROVE  IInv' /\ seq' = seq
    BY <1>1 DEF Begin, IInv, TypeOK, LogIsDense, NothingSkipped, LockInv, PageInv,
                readerVars
  <1>2. ASSUME NEW t \in Txs, AppendAction(t)
        PROVE  IInv' /\ seq' = seq
    <2>1. UNCHANGED <<seq, rows, holder, open, drawn, first, readerVars>>
      BY <1>2 DEF AppendAction
    <2>2. pending' \in [Txs -> [Seqs -> Bodies \cup {NoRow}]]
      <3>1. PICK s \in Owed(t), b \in Bodies :
                pending' = [pending EXCEPT ![t][s] = b]
        BY <1>2 DEF AppendAction
      <3>2. pending' = [pending EXCEPT ![t] = [@ EXCEPT ![s] = b]]
        BY <3>1
      <3>3. [pending[t] EXCEPT ![s] = b] \in [Seqs -> Bodies \cup {NoRow}]
        BY DEF IInv, TypeOK
      <3> QED
        BY <3>2, <3>3 DEF IInv, TypeOK
    <2> QED
      BY <2>1, <2>2 DEF IInv, TypeOK, LogIsDense, NothingSkipped, LockInv, PageInv,
                        readerVars
  <1>3. ASSUME ScrubAction
        PROVE  IInv' /\ seq' = seq
    <2>1. UNCHANGED <<seq, txVars, readerVars>>
      BY <1>3 DEF ScrubAction
    <2>2. PICK s \in Seqs : /\ rows[s] # NoRow
                            /\ rows' = [rows EXCEPT ![s] = Redacted]
      BY <1>3 DEF ScrubAction
    <2>3. rows' \in [Seqs -> Bodies \cup {NoRow}] /\ LogIsDense'
      BY <2>1, <2>2 DEF IInv, TypeOK, LogIsDense
    <2> QED
      BY <2>1, <2>3 DEF IInv, TypeOK, NothingSkipped, LockInv, PageInv,
                        txVars, readerVars
  <1> QED
    BY <1>1, <1>2, <1>3

(* A boundary that was found lies between the checkpoint and the head. *)
LEMMA BoundaryInside ==
    ASSUME IInv, NEW r \in Readers, NEW b \in Seqs, Boundary(cp[r], b)
    PROVE  cp[r] < b /\ b <= seq
  BY BoundAssumption DEF IInv, TypeOK, LogIsDense, Boundary, RowsBetween, Seqs

(* In a dense log the rows between two positions are the whole segment. *)
LEMMA DensePage ==
    ASSUME TypeOK, LogIsDense, NEW a \in Nat, NEW b \in 0..seq
    PROVE  RowsBetween(a, b) = (a + 1)..b
  BY BoundAssumption DEF TypeOK, LogIsDense, RowsBetween, Seqs

(* The steps of a reader keep it in possession of whole segments. *)
LEMMA ReaderIInv ==
    ASSUME IInv, NEW r \in Readers, Read(r)
    PROVE  IInv' /\ UNCHANGED <<seq, rows>>
  <1> USE BoundAssumption
  <1>1. UNCHANGED <<seq, rows, txVars>>
    BY DEF Read, ReadBoundary, ReadPage, Advance, LoseReply
  <1>2. LogIsDense' /\ LockInv'
    BY <1>1 DEF IInv, LogIsDense, LockInv, txVars
  <1>3. CASE ReadBoundary(r)
    <2>1. PICK b \in Seqs : Boundary(cp[r], b) /\ to' = [to EXCEPT ![r] = b]
      BY <1>3 DEF ReadBoundary
    <2>2. cp[r] < b /\ b <= seq
      BY <2>1, BoundaryInside
    <2>3. /\ reading' = [reading EXCEPT ![r] = "page"]
          /\ UNCHANGED <<cp, page, seen>>
      BY <1>3 DEF ReadBoundary
    <2>4. TypeOK'
      BY <1>1, <2>1, <2>3 DEF IInv, TypeOK, Seqs, txVars
    <2>5. NothingSkipped' /\ PageInv'
      BY <1>1, <2>1, <2>2, <2>3 DEF IInv, TypeOK, NothingSkipped, PageInv
    <2> QED
      BY <1>1, <1>2, <2>4, <2>5 DEF IInv
  <1>4. CASE ReadPage(r)
    <2>1. /\ reading[r] = "page"
          /\ page' = [page EXCEPT ![r] = RowsBetween(cp[r], to[r])]
          /\ reading' = [reading EXCEPT ![r] = "reply"]
          /\ UNCHANGED <<cp, to, seen>>
      BY <1>4 DEF ReadPage
    <2>2. RowsBetween(cp[r], to[r]) = (cp[r] + 1)..to[r]
      <3>1. cp[r] \in Nat /\ to[r] \in 0..seq /\ TypeOK /\ LogIsDense
        BY <2>1 DEF IInv, TypeOK, PageInv
      <3> QED
        BY <3>1, DensePage
    <2>3. TypeOK'
      BY <1>1, <2>1 DEF IInv, TypeOK, RowsBetween, txVars
    <2>4. NothingSkipped' /\ PageInv'
      BY <1>1, <2>1, <2>2 DEF IInv, TypeOK, NothingSkipped, PageInv
    <2> QED
      BY <1>1, <1>2, <2>3, <2>4 DEF IInv
  <1>5. CASE Advance(r)
    <2>1. /\ reading[r] = "reply"
          /\ cp' = [cp EXCEPT ![r] = to[r]]
          /\ seen' = [seen EXCEPT ![r] = @ \cup page[r]]
          /\ reading' = [reading EXCEPT ![r] = "no"]
          /\ UNCHANGED <<to, page>>
      BY <1>5 DEF Advance
    <2>2. /\ page[r] = (cp[r] + 1)..to[r]
          /\ seen[r] = 1..cp[r]
          /\ cp[r] \in Nat /\ to[r] \in Nat /\ cp[r] < to[r] /\ to[r] <= seq
      BY <2>1 DEF IInv, TypeOK, NothingSkipped, PageInv
    <2>3. seen[r] \cup page[r] = 1..to[r]
      BY <2>2
    <2>4. TypeOK'
      BY <1>1, <2>1 DEF IInv, TypeOK, txVars
    <2>5. NothingSkipped' /\ PageInv'
      BY <1>1, <2>1, <2>2, <2>3 DEF IInv, TypeOK, NothingSkipped, PageInv
    <2> QED
      BY <1>1, <1>2, <2>4, <2>5 DEF IInv
  <1>6. CASE LoseReply(r)
    <2>1. TypeOK'
      BY <1>1, <1>6 DEF LoseReply, IInv, TypeOK, txVars
    <2>2. NothingSkipped' /\ PageInv'
      BY <1>1, <1>6 DEF LoseReply, IInv, TypeOK, NothingSkipped, PageInv
    <2> QED
      BY <1>1, <1>2, <2>1, <2>2 DEF IInv
  <1> QED
    BY <1>1, <1>3, <1>4, <1>5, <1>6 DEF Read

(* Every step keeps the invariant. *)
LEMMA NextIInv == IInv /\ [Next]_vars => IInv'
  <1> SUFFICES ASSUME IInv, [Next]_vars PROVE IInv'
    OBVIOUS
  <1>1. CASE UNCHANGED vars
    BY <1>1 DEF vars, txVars, readerVars, IInv, TypeOK, LogIsDense, NothingSkipped,
                LockInv, PageInv
  <1>2. CASE Next
    BY <1>2, NextSeqIInv, CommitIInv, RollbackIInv, WriterIInv, ReaderIInv
       DEF Next, Write
  <1> QED
    BY <1>1, <1>2

(***************************************************************************)
(* The invariant holds in every reachable state of ActionLog: commands     *)
(* that share the workspace row, rollbacks, redactions, and readers whose  *)
(* requests overlap them.                                                  *)
(***************************************************************************)
THEOREM Invariance == Spec => []IInv
  <1>1. IInv /\ [Next]_vars => IInv'
    BY NextIInv
  <1> QED
    BY <1>1, InitIInv, PTL DEF Spec

(* Every variable keeps its type; the owner of the row is an open command. *)
THEOREM TypeCorrect == Spec => []TypeOK
  <1>1. IInv => TypeOK
    BY DEF IInv
  <1> QED
    BY <1>1, Invariance, PTL

(* The committed log has no hole, whatever was rolled back (nextSeq). *)
THEOREM Dense == Spec => []LogIsDense
  <1>1. IInv => LogIsDense
    BY DEF IInv
  <1> QED
    BY <1>1, Invariance, PTL

(* No reader misses an action behind its checkpoint (ActionPageSince). *)
THEOREM Complete == Spec => []NothingSkipped
  <1>1. IInv => NothingSkipped
    BY DEF IInv
  <1> QED
    BY <1>1, Invariance, PTL

(* One step never changes which rows exist at or below the old head. *)
LEMMA NextSettled == IInv /\ IInv' /\ [Next]_vars => [Settled]_vars
  <1> SUFFICES ASSUME IInv, IInv', Next PROVE Settled
    BY DEF Settled
  <1>1. seq <= seq'
    <2>1. ASSUME NEW t \in Txs, NextSeq(t) PROVE seq' = seq
      BY <2>1 DEF NextSeq
    <2>2. ASSUME NEW t \in Txs, Rollback(t) PROVE seq' = seq
      BY <2>2 DEF Rollback
    <2> QED
      BY <2>1, <2>2, CommitIInv, WriterIInv, ReaderIInv
         DEF Next, Write, IInv, TypeOK
  <1> QED
    BY <1>1, BoundAssumption DEF Settled, IInv, LogIsDense, TypeOK, Seqs

(***************************************************************************)
(* Commits happen in the order of the numbers they publish: a reader that  *)
(* has passed a number can forget about it.                                *)
(***************************************************************************)
THEOREM Settles == Spec => SettledBelowHead
  <1>1. IInv /\ IInv' /\ [Next]_vars => [Settled]_vars
    BY NextSettled
  <1> QED
    BY <1>1, Invariance, PTL DEF Spec, SettledBelowHead
-----------------------------------------------------------------------------
(* A log that only its length and its rows describe. *)
LEMMA SameLog ==
    ASSUME UNCHANGED <<seq, rows, cp, seen>>
    PROVE  UNCHANGED Abstract!avars
  BY DEF Abstract!avars

(* A commit appends entries at the end of the abstract log, or nothing. *)
LEMMA CommitRefines ==
    ASSUME IInv, NEW t \in Txs, Commit(t)
    PROVE  [Abstract!AbsNext]_(Abstract!avars)
  <1>1. IInv' /\ seq <= seq'
    BY CommitIInv
  <1>2. UNCHANGED <<cp, seen>>
    BY DEF Commit, Close, readerVars
  <1>3. \A s \in 1..seq : s \in Seqs /\ rows'[s] = rows[s]
    <2>1. \A s \in Drawn(t) : s > seq
      BY DEF IInv, LockInv, TypeOK, Drawn
    <2> QED
      BY <2>1, BoundAssumption DEF Commit, Merged, IInv, TypeOK, Seqs
  <1>4. CASE seq' = seq
    <2>1. [s \in 1..seq' |-> rows'[s]] = [s \in 1..seq |-> rows[s]]
      BY <1>3, <1>4
    <2> QED
      BY <1>2, <1>4, <2>1 DEF Abstract!avars
  <1>5. CASE seq < seq'
    <2>1. seq' \in Nat /\ seq \in Nat /\ \A s \in 1..seq' : s \in Seqs /\ rows'[s] \in Bodies
      BY <1>1, BoundAssumption DEF IInv, TypeOK, LogIsDense, Seqs
    <2>2. [s \in 1..seq' |-> rows'[s]] \in [1..seq' -> Bodies]
      BY <2>1
    <2>3. \A s \in 1..seq : [x \in 1..seq' |-> rows'[x]][s] = [x \in 1..seq |-> rows[x]][s]
      BY <1>3, <1>5, <2>1
    <2> QED
      BY <1>2, <1>5, <2>1, <2>2, <2>3
         DEF Abstract!AbsNext, Abstract!Publish, Abstract!LogsOfLength
  <1> QED
    BY <1>1, <1>4, <1>5 DEF IInv, TypeOK

(* A redaction rewrites one entry of the abstract log. *)
LEMMA ScrubRefines ==
    ASSUME IInv, ScrubAction
    PROVE  Abstract!Redact
  <1>1. PICK s \in Seqs : rows[s] # NoRow /\ rows' = [rows EXCEPT ![s] = Redacted]
    BY DEF ScrubAction
  <1>2. s \in 1..seq /\ 1..seq \subseteq Seqs
    BY <1>1, BoundAssumption DEF IInv, TypeOK, LogIsDense, Seqs
  <1>3. UNCHANGED <<seq, cp, seen>>
    BY DEF ScrubAction, readerVars
  <1>4. [x \in 1..seq' |-> rows'[x]]
          = [[x \in 1..seq |-> rows[x]] EXCEPT ![s] = Redacted]
    BY <1>1, <1>2, <1>3 DEF IInv, TypeOK
  <1> QED
    BY <1>2, <1>3, <1>4, BodyAssumption DEF Abstract!Redact

(* A reader that advances is handed a whole segment. *)
LEMMA AdvanceRefines ==
    ASSUME IInv, NEW r \in Readers, Advance(r)
    PROVE  Abstract!Hand(r)
  <1>1. /\ cp' = [cp EXCEPT ![r] = to[r]]
        /\ seen' = [seen EXCEPT ![r] = @ \cup page[r]]
        /\ UNCHANGED <<seq, rows>>
        /\ reading[r] = "reply"
    BY DEF Advance
  <1>2. to[r] \in (cp[r] + 1)..seq /\ page[r] = (cp[r] + 1)..to[r]
    BY <1>1, BoundAssumption DEF IInv, TypeOK, PageInv
  <1> QED
    BY <1>1, <1>2 DEF Abstract!Hand

(* Every step of the implementation is a step of PrefixLog or none. *)
LEMMA NextRefines ==
    IInv /\ [Next]_vars => [Abstract!AbsNext]_(Abstract!avars)
  <1> SUFFICES ASSUME IInv, [Next]_vars
               PROVE  [Abstract!AbsNext]_(Abstract!avars)
    OBVIOUS
  <1>1. CASE UNCHANGED vars
    BY <1>1, SameLog DEF vars, readerVars
  <1>2. ASSUME NEW t \in Txs, Write(t)
        PROVE  [Abstract!AbsNext]_(Abstract!avars)
    <2>1. CASE Commit(t)
      BY <2>1, CommitRefines
    <2>2. CASE Begin(t) \/ NextSeq(t) \/ AppendAction(t) \/ Rollback(t)
      <3>1. UNCHANGED <<seq, rows, cp, seen>>
        BY <2>2 DEF Begin, NextSeq, AppendAction, Rollback, Close, readerVars
      <3> QED
        BY <3>1, SameLog
    <2> QED
      BY <1>2, <2>1, <2>2 DEF Write
  <1>3. CASE ScrubAction
    BY <1>3, ScrubRefines DEF Abstract!AbsNext
  <1>4. ASSUME NEW r \in Readers, Read(r)
        PROVE  [Abstract!AbsNext]_(Abstract!avars)
    <2>1. CASE Advance(r)
      BY <2>1, AdvanceRefines DEF Abstract!AbsNext
    <2>2. CASE ReadBoundary(r) \/ ReadPage(r) \/ LoseReply(r)
      <3>1. UNCHANGED <<seq, rows, cp, seen>>
        BY <2>2 DEF ReadBoundary, ReadPage, LoseReply
      <3> QED
        BY <3>1, SameLog
    <2> QED
      BY <1>4, <2>1, <2>2 DEF Read
  <1> QED
    BY <1>1, <1>2, <1>3, <1>4 DEF Next

(***************************************************************************)
(* The transactions and paged reads of internal/store implement the        *)
(* append-only log that every consumer of the log is written against.      *)
(***************************************************************************)
THEOREM Refinement == Spec => RefinesPrefixLog
  <1>1. Init => Abstract!AbsInit
    BY DEF Init, Abstract!AbsInit, Abstract!LogsOfLength
  <1>2. IInv /\ [Next]_vars => [Abstract!AbsNext]_(Abstract!avars)
    BY NextRefines
  <1> QED
    BY <1>1, <1>2, Invariance, PTL DEF Spec, RefinesPrefixLog, Abstract!AbsSpec
=============================================================================
