--------------------------- MODULE ApiTasksProofs ---------------------------
(***************************************************************************)
(* Proofs about ApiTasks, for any tasks, workers, number of items, limit   *)
(* and number of faults: the limit on active operations holds, what a task *)
(* says it did is what it did, and what it does twice has a cause.         *)
(*                                                                         *)
(* What a task has changed left its trace (TraceInv). A worker has a task  *)
(* that runs or is over (AtJob), and it has gathered what was changed      *)
(* (WorkOf). A task that nobody took over has one worker (SoleInv), which  *)
(* is about to change only what the task has not changed (FreshOf), and    *)
(* has reported all of it among the items it is past (ReportOf). An item   *)
(* that has moved has its sub-tasks moved too, unless a worker is at them, *)
(* has seen the item fail, or died there (FollowOf, BegunOf).              *)
(***************************************************************************)
EXTENDS ApiTasks, NaturalsInduction, WellFoundedInduction, FiniteSetTheorems, TLAPS

(* A task is in the order of submission once it is submitted, a request    *)
(* that has counted holds the lock, and what it has counted is not less    *)
(* than what is active.                                                    *)
RequestInv ==
    \A t \in Tasks :
        /\ status[t] # "none" => \E n \in DOMAIN order : order[n] = t
        /\ req[t] # "over" => status[t] = "none"
        /\ req[t] = "counted" => gate = t /\ Cardinality(ActiveBulk) <= counted[t]

(* What a task has changed has a record, a deletion in the log, a mark, or  *)
(* is as the edit asks unless somebody else has changed it since. A move   *)
(* changes the item before its sub-tasks.                                  *)
TraceOf(t, x) ==
    /\ <<t, x>> \in recorded => changed[t][x] > 0
    /\ <<t, x>> \in held => kind[t] = "edit" /\ changed[t][x] > 0
    /\ changed[t][x] > 0 =>
          /\ kind[t] = "edit" => <<t, x>> \in held \/ x \in touched
          /\ kind[t] = "move" => <<t, x>> \in recorded /\ changed[t][<<x[1], 1>>] > 0
          /\ kind[t] = "delete" => deletedBy[x[1]] = t /\ x[1] \notin visible
          /\ kind[t] = "redact" => x[1] \in marked

TraceInv ==
    \A t \in Tasks :
        /\ \A x \in Pieces : TraceOf(t, x)
        /\ \A i \in Items : deletedBy[i] = t => changed[t][<<i, 1>>] > 0

SoleInv ==
    /\ \A v, w \in Workers : job[v] = job[w] => v = w \/ job[v] \in overlapped \cup {NoTask}
    /\ \A w \in Workers : job[w] # NoTask /\ status[job[w]] = "COMPLETE" => job[w] \in overlapped

(* A worker without a task has gathered nothing. One with a task has a     *)
(* task that runs or is over, is at a step of its kind, and is past the    *)
(* last item exactly when it has mail to write or the task to complete;    *)
(* only edits and moves go on to a second piece.                           *)
AtJob(w) ==
    /\ pc[w] = "idle" => /\ at[w] = 1 /\ part[w] = 1 /\ late[w] = {}
                         /\ processed[w] = {} /\ failed[w] = {}
    /\ pc[w] # "idle" =>
          /\ status[job[w]] \in {"RUNNING"} \cup Final
          /\ pc[w] = "watch" <=> kind[job[w]] = "watch"
          /\ pc[w] = "apply" => kind[job[w]] \in {"edit", "move", "delete"}
          /\ pc[w] \in {"write", "scrub", "record"} => kind[job[w]] = "redact"
          /\ pc[w] \in {"mail", "complete"} <=> at[w] = ItemCount + 1
          /\ part[w] # 1 => pc[w] = "apply" /\ kind[job[w]] \in {"edit", "move"}

(* A worker that has changed an item too late is still at it.              *)
LateOf(w) ==
    \A i \in late[w] : /\ i = at[w] /\ (pc[w] = "progress" \/ part[w] # 1)
                       /\ status[job[w]] \in Final /\ kind[job[w]] # "redact"

(* A redaction has the mark and the clean history before the record; the   *)
(* pieces before the one at hand have been changed.                        *)
WorkOf(w) ==
    /\ \A x \in processed[w] :
          /\ changed[job[w]][x] > 0
          /\ kind[job[w]] = "edit" => \A p \in 1..PartsOf[x[1]] : changed[job[w]][<<x[1], p>>] > 0
          /\ kind[job[w]] = "redact" => x[1] \in marked /\ x[1] \notin dirty
    /\ pc[w] \in {"scrub", "record"} => at[w] \in marked /\ changed[job[w]][Item(w)] > 0
    /\ pc[w] = "record" => at[w] \notin dirty
    /\ \A q \in 1..(part[w] - 1) : changed[job[w]][<<at[w], q>>] > 0

Ordered == {"move", "delete"}
Past(w, i) == i < at[w] \/ (i = at[w] /\ pc[w] = "progress")

(* What a sole worker is about to change it has not changed, except for    *)
(* what another user has changed since.                                    *)
FreshOf(w) ==
    job[w] \notin overlapped =>
        /\ pc[w] = "write" \/ (pc[w] = "apply" /\ kind[job[w]] = "delete")
              => changed[job[w]][Item(w)] = 0
        /\ pc[w] = "apply" /\ kind[job[w]] = "edit" /\ part[w] = 1
              => changed[job[w]][Item(w)] = 0 \/ Item(w) \in touched
        /\ pc[w] = "apply" /\ kind[job[w]] = "move"
              => \A q \in part[w]..PartsOf[at[w]] : changed[job[w]][<<at[w], q>>] = 0

ReportOf(w) ==
    pc[w] # "idle" /\ job[w] \notin overlapped /\ kind[job[w]] \in Ordered =>
        \A i \in Items :
            (Past(w, i) \/ (i = at[w] /\ part[w] # 1)) /\ changed[job[w]][<<i, 1>>] > 0 =>
                <<i, 1>> \in processed[w] \/ (<<i, 1>> \in failed[w] /\ <<job[w], i>> \in botched)

(* The sub-tasks of an item that a worker has processed have moved, ...    *)
FollowOf(w) ==
    /\ pc[w] # "idle" /\ job[w] \notin overlapped
    /\ kind[job[w]] = "move" /\ status[job[w]] = "RUNNING"
    => \A i \in Items : Past(w, i) /\ <<i, 1>> \in processed[w] \ failed[w] =>
          <<job[w], i>> \in torn \/ WithSubTasks(job[w], i)

(* ... as have those of an item that a task has moved, unless somebody is  *)
(* at them or has seen the item fail.                                      *)
BegunOf(t) ==
    t \notin overlapped /\ kind[t] = "move" /\ status[t] \notin Final =>
        \A i \in Items : changed[t][<<i, 1>>] > 0 =>
            \/ <<t, i>> \in torn \/ WithSubTasks(t, i)
            \/ \E w \in Workers : job[w] = t /\ i \in Begun(w)

OneWorker(w) == AtJob(w) /\ LateOf(w) /\ WorkOf(w) /\ FreshOf(w) /\ ReportOf(w) /\ FollowOf(w)

QueueSide == RequestInv /\ ActiveIsBounded
RecordSide == TraceInv /\ ResultsAreTrue /\ RepeatsNeedAnOverlap
WorkerSide == SoleInv /\ (\A w \in Workers : OneWorker(w)) /\ \A t \in Tasks : BegunOf(t)
IInv == TypeOK /\ QueueSide /\ RecordSide /\ WorkerSide
-----------------------------------------------------------------------------
(***************************************************************************)
(* The type of the state, stale apart from the other values: no prover     *)
(* handles Booleans and numbers together.                                  *)
(***************************************************************************)
StaleOK == stale \in [Tasks -> BOOLEAN]

QueueValues ==
    /\ kind \in [Tasks -> Kinds]
    /\ status \in [Tasks -> Active \cup Final \cup {"none"}]
    /\ order \in Seq(Tasks)
    /\ req \in [Tasks -> {"idle", "counted", "over"}]
    /\ gate \in Tasks \cup {NoTask}
    /\ counted \in [Tasks -> Nat]
    /\ overlapped \subseteq Tasks
    /\ faults \in 0..MaxFaults

ItemValues ==
    /\ result \in [Tasks -> [processed : SUBSET Pieces, failed : SUBSET Pieces]]
    /\ mails \in [Tasks -> SUBSET Pieces]
    /\ visible \subseteq Items
    /\ recorded \subseteq Tasks \X Pieces /\ held \subseteq Tasks \X Pieces
    /\ deletedBy \in [Items -> Tasks \cup {NoTask}]
    /\ marked \subseteq Items /\ dirty \subseteq Items
    /\ changed \in [Tasks -> [Pieces -> 0..2]]
    /\ botched \subseteq Tasks \X Items /\ torn \subseteq Tasks \X Items
    /\ touched \subseteq Pieces

WorkerValues ==
    /\ pc \in [Workers -> {"idle", "look", "apply", "write", "scrub", "record", "progress",
                           "watch", "mail", "complete"}]
    /\ job \in [Workers -> Tasks \cup {NoTask}]
    /\ \A w \in Workers : pc[w] = "idle" <=> job[w] = NoTask
    /\ at \in [Workers -> 1..(ItemCount + 1)]
    /\ part \in [Workers -> Nat \ {0}]
    /\ \A w \in Workers : part[w] = 1 \/ Piece(w) \in Pieces
    /\ processed \in [Workers -> SUBSET Pieces]
    /\ failed \in [Workers -> SUBSET Pieces]
    /\ lines \in [Workers -> SUBSET Pieces]
    /\ late \in [Workers -> SUBSET Items]

(* Together they are TypeOK. *)
LEMMA TypeParts == TypeOK <=> StaleOK /\ QueueValues /\ ItemValues /\ WorkerValues
  BY DEF TypeOK, StaleOK, QueueValues, ItemValues, WorkerValues

(* They are TypeOK after a step as well. *)
LEMMA TypePartsAfter == (TypeOK <=> StaleOK /\ QueueValues /\ ItemValues /\ WorkerValues)'
  BY TypeParts, PTL

(* Setting a flag keeps a function to the Booleans one. *)
LEMMA SetFlag ==
    ASSUME NEW S, NEW f \in [S -> BOOLEAN], NEW x \in S, NEW v \in BOOLEAN
    PROVE  [f EXCEPT ![x] = v] \in [S -> BOOLEAN]
  OBVIOUS

(* The pieces are the pairs of an item and the number of one of its parts. *)
LEMMA PiecesAre ==
    /\ \A x \in Pieces : /\ x[1] \in Items /\ x[2] \in 1..PartsOf[x[1]]
                         /\ x = <<x[1], x[2]>>
    /\ \A i \in Items : \A p \in 1..PartsOf[i] : <<i, p>> \in Pieces
    /\ \A i \in Items : PartsOf[i] \in Nat \ {0} /\ <<i, 1>> \in Pieces
    /\ Items \subseteq Nat
  <1>1. Items \subseteq Nat /\ \A i \in Items : PartsOf[i] \in Nat \ {0}
    BY PartsAssumption, BoundsAssumption DEF Items
  <1>2. \A x \in Pieces : \E i \in Items : x \in {i} \X (1..PartsOf[i])
    BY DEF Pieces
  <1>3. \A i \in Items : \A x \in {i} \X (1..PartsOf[i]) :
            x[1] = i /\ x[2] \in 1..PartsOf[i] /\ x = <<x[1], x[2]>>
    OBVIOUS
  <1>4. \A i \in Items : \A p \in 1..PartsOf[i] : <<i, p>> \in Pieces
    <2> TAKE i \in Items
    <2> TAKE p \in 1..PartsOf[i]
    <2>1. <<i, p>> \in {i} \X (1..PartsOf[i])
      OBVIOUS
    <2> QED
      BY <2>1 DEF Pieces
  <1>5. \A x \in Pieces : x[1] \in Items /\ x[2] \in 1..PartsOf[x[1]] /\ x = <<x[1], x[2]>>
    BY <1>2, <1>3
  <1>6. \A i \in Items : <<i, 1>> \in Pieces
    <2> TAKE i \in Items
    <2>1. 1 \in 1..PartsOf[i]
      BY <1>1
    <2> QED
      BY <1>4, <2>1
  <1> QED
    BY <1>1, <1>4, <1>5, <1>6

(* Nothing is submitted and nobody works at first. *)
LEMMA InitIInv == Init => IInv
  <1> SUFFICES ASSUME Init PROVE IInv
    OBVIOUS
  <1> USE BoundsAssumption, NoTaskAssumption
  <1>1. StaleOK
    BY DEF Init, StaleOK
  <1>2. QueueValues
    BY DEF Init, QueueValues
  <1>3. ItemValues
    BY DEF Init, ItemValues, NoResult
  <1>4. WorkerValues
    BY DEF Init, WorkerValues
  <1>5. QueueSide
    <2>1. ActiveBulk = {}
      BY DEF Init, ActiveBulk, Active
    <2>2. Cardinality(ActiveBulk) = 0
      BY <2>1, FS_EmptySet
    <2> QED
      BY <2>2 DEF Init, QueueSide, RequestInv, ActiveIsBounded
  <1>6. RecordSide
    <2>1. \A t \in Tasks : \A x \in Pieces : changed[t][x] = 0
      BY DEF Init
    <2>2. \A t \in Tasks : \A i \in Items : deletedBy[i] # t
      BY DEF Init
    <2>3. TraceInv
      BY <2>1, <2>2, PiecesAre DEF Init, TraceInv, TraceOf
    <2>4. ResultsAreTrue
      BY <2>1, PiecesAre DEF Init, ResultsAreTrue, ProcessedWasChanged, ChangedIsAccountedFor,
                  SubTasksFollow, Claimed, WatchIsAllOrNothing, NoResult
    <2>5. RepeatsNeedAnOverlap
      BY <2>1 DEF RepeatsNeedAnOverlap
    <2> QED
      BY <2>3, <2>4, <2>5 DEF RecordSide
  <1>7. WorkerSide
    <2>1. \A w \in Workers : OneWorker(w)
      BY DEF Init, OneWorker, AtJob, LateOf, WorkOf, FreshOf, ReportOf, FollowOf
    <2>2. \A t \in Tasks : \A i \in Items : changed[t][<<i, 1>>] = 0
      BY PiecesAre DEF Init
    <2>3. \A t \in Tasks : BegunOf(t)
      BY <2>2 DEF BegunOf
    <2> QED
      BY <2>1, <2>3 DEF Init, WorkerSide, SoleInv
  <1> QED
    BY <1>1, <1>2, <1>3, <1>4, <1>5, <1>6, <1>7, TypeParts DEF IInv
-----------------------------------------------------------------------------
(* A task that is active goes on or is over. *)
Moves(t) ==
    \/ status'[t] = status[t]
    \/ status[t] \in Active /\ status'[t] \in {"RUNNING"} \cup Final

(***************************************************************************)
(* A step that submits nothing makes no more tasks active.                 *)
(***************************************************************************)
LEMMA QueueStays ==
    ASSUME IInv, UNCHANGED <<kind, order, req, gate, counted>>, \A t \in Tasks : Moves(t)
    PROVE  QueueSide'
  <1>1. ActiveBulk' \subseteq ActiveBulk
    BY DEF ActiveBulk, Moves, Active, Final
  <1>2. IsFiniteSet(ActiveBulk)
    BY TasksAssumption, FS_Subset DEF ActiveBulk
  <1>3. /\ Cardinality(ActiveBulk') <= Cardinality(ActiveBulk)
        /\ Cardinality(ActiveBulk) \in Nat /\ Cardinality(ActiveBulk') \in Nat
    BY <1>1, <1>2, FS_Subset, FS_CardinalityType
  <1>4. RequestInv'
    <2>1. \A t \in Tasks : status'[t] = "none" <=> status[t] = "none"
      BY DEF Moves, Active, Final
    <2>2. \A t \in Tasks : counted[t] \in Nat
      BY TypeParts DEF IInv, QueueValues
    <2>3. Cardinality(ActiveBulk)' = Cardinality(ActiveBulk')
      OBVIOUS
    <2> QED
      BY <1>3, <2>1, <2>2, <2>3 DEF IInv, QueueSide, RequestInv
  <1>5. ActiveIsBounded'
    BY <1>3, BoundsAssumption DEF IInv, QueueSide, ActiveIsBounded
  <1> QED
    BY <1>4, <1>5 DEF QueueSide

(***************************************************************************)
(* A step that changes no item and completes no task keeps the reports     *)
(* true: items may go, be marked and be scrubbed.                          *)
(***************************************************************************)
LEMMA ReportsStay ==
    ASSUME IInv, UNCHANGED <<kind, result, changed, botched>>,
           marked \subseteq marked', dirty' \subseteq dirty, overlapped \subseteq overlapped',
           torn \subseteq torn', touched \subseteq touched',
           \A t \in Tasks : status'[t] = "COMPLETE" <=> status[t] = "COMPLETE"
    PROVE  ResultsAreTrue' /\ RepeatsNeedAnOverlap'
  <1>1. ProcessedWasChanged'
    BY DEF IInv, RecordSide, ResultsAreTrue, ProcessedWasChanged
  <1>2. ChangedIsAccountedFor'
    BY DEF IInv, RecordSide, ResultsAreTrue, ChangedIsAccountedFor
  <1>3. SubTasksFollow'
    BY DEF IInv, RecordSide, ResultsAreTrue, SubTasksFollow, Claimed, WithSubTasks
  <1>4. WatchIsAllOrNothing'
    BY DEF IInv, RecordSide, ResultsAreTrue, WatchIsAllOrNothing
  <1>5. RepeatsNeedAnOverlap'
    BY DEF IInv, RecordSide, RepeatsNeedAnOverlap
  <1> QED
    BY <1>1, <1>2, <1>3, <1>4, <1>5 DEF ResultsAreTrue

(* If it records nothing either, the traces are the same; another user may *)
(* change what an edit has set.                                            *)
LEMMA RecordsStay ==
    ASSUME IInv, UNCHANGED <<kind, result, recorded, deletedBy, changed, botched>>,
           visible' \subseteq visible, marked \subseteq marked', dirty' \subseteq dirty,
           overlapped \subseteq overlapped', torn \subseteq torn', touched \subseteq touched',
           held' \subseteq held,
           \A t \in Tasks, x \in Pieces : <<t, x>> \in held \ held' => x \in touched',
           \A t \in Tasks : status'[t] = "COMPLETE" <=> status[t] = "COMPLETE"
    PROVE  RecordSide'
  <1>1. \A t \in Tasks, x \in Pieces : TraceOf(t, x)'
    BY DEF IInv, RecordSide, TraceInv, TraceOf
  <1>2. TraceInv'
    BY <1>1 DEF IInv, RecordSide, TraceInv
  <1> QED
    BY <1>2, ReportsStay DEF RecordSide

(***************************************************************************)
(* What others do leaves a worker where it is: its task goes on or is      *)
(* over, changes add up, and only one who took the task over changes what  *)
(* the task changed.                                                       *)
(***************************************************************************)
Idles(v) == /\ pc'[v] = pc[v] /\ job'[v] = job[v] /\ at'[v] = at[v] /\ part'[v] = part[v]
            /\ late'[v] = late[v] /\ processed'[v] = processed[v] /\ failed'[v] = failed[v]

Grows == /\ marked \subseteq marked' /\ dirty' \subseteq dirty /\ botched \subseteq botched'
         /\ overlapped \subseteq overlapped' /\ torn \subseteq torn'
         /\ touched \subseteq touched'
         /\ \A t \in Tasks, x \in Pieces : changed[t][x] > 0 => changed'[t][x] > 0

(* What is known of a worker at an item. *)
LEMMA AtItem ==
    ASSUME IInv, NEW w \in Workers, pc[w] # "idle"
    PROVE  /\ job[w] \in Tasks /\ at[w] \in 1..(ItemCount + 1) /\ OneWorker(w)
           /\ pc[w] \notin {"mail", "complete"} =>
                 at[w] \in Items /\ Item(w) \in Pieces /\ Piece(w) \in Pieces
           /\ part[w] \in Nat \ {0}
           /\ part[w] # 1 => at[w] \in Items /\ part[w] \in 1..PartsOf[at[w]]
           /\ StaleOK /\ QueueValues /\ ItemValues /\ WorkerValues
  <1>1. StaleOK /\ QueueValues /\ ItemValues /\ WorkerValues /\ OneWorker(w)
    BY TypeParts DEF IInv, WorkerSide
  <1>2. /\ job[w] \in Tasks /\ at[w] \in 1..(ItemCount + 1) /\ part[w] \in Nat \ {0}
        /\ part[w] = 1 \/ Piece(w) \in Pieces
        /\ pc[w] \in {"mail", "complete"} <=> at[w] = ItemCount + 1
    BY <1>1 DEF WorkerValues, OneWorker, AtJob
  <1>3. pc[w] \notin {"mail", "complete"} => at[w] \in Items
    BY <1>2, BoundsAssumption DEF Items
  <1>4. part[w] # 1 => at[w] \in Items /\ part[w] \in 1..PartsOf[at[w]]
    BY <1>2, PiecesAre DEF Piece
  <1> QED
    BY <1>1, <1>2, <1>3, <1>4, PiecesAre DEF Item, Piece

LEMMA OneStays ==
    ASSUME IInv, NEW v \in Workers, Idles(v), kind' = kind, Grows,
           job[v] # NoTask => Moves(job[v]),
           job[v] # NoTask /\ job[v] \notin overlapped' => changed'[job[v]] = changed[job[v]]
    PROVE  OneWorker(v)'
  <1>1. /\ OneWorker(v) /\ job[v] \in Tasks \cup {NoTask} /\ (pc[v] = "idle" <=> job[v] = NoTask)
        /\ at[v] \in 1..(ItemCount + 1) /\ processed[v] \subseteq Pieces
    BY TypeParts DEF IInv, WorkerSide, WorkerValues
  <1>2. AtJob(v)'
    BY <1>1 DEF OneWorker, AtJob, Idles, Moves, Active, Final
  <1>3. LateOf(v)'
    BY <1>1 DEF OneWorker, AtJob, LateOf, Idles, Moves, Active, Final
  <1>4. CASE job[v] = NoTask
    <2>1. /\ pc'[v] = "idle" /\ processed'[v] = {} /\ part'[v] = 1
      BY <1>1, <1>4 DEF OneWorker, AtJob, Idles
    <2>2. WorkOf(v)' /\ FreshOf(v)' /\ ReportOf(v)' /\ FollowOf(v)'
      BY <2>1 DEF WorkOf, FreshOf, ReportOf, FollowOf
    <2> QED
      BY <1>2, <1>3, <2>2 DEF OneWorker
  <1>5. CASE job[v] \in Tasks
    <2>1. /\ pc[v] \notin {"mail", "complete"} => Item(v) \in Pieces
          /\ part[v] \in Nat \ {0}
          /\ part[v] # 1 => at[v] \in Items /\ part[v] \in 1..PartsOf[at[v]]
      BY <1>1, <1>5, AtItem, NoTaskAssumption
    <2>2. \A x \in Pieces : changed[job[v]][x] > 0 => changed'[job[v]][x] > 0
      BY <1>5 DEF Grows
    <2>3. WorkOf(v)'
      <3>1. ASSUME NEW x \in processed'[v]
            PROVE  /\ changed'[job[v]][x] > 0
                   /\ kind[job[v]] = "edit" =>
                         \A p \in 1..PartsOf[x[1]] : changed'[job[v]][<<x[1], p>>] > 0
                   /\ kind[job[v]] = "redact" => x[1] \in marked' /\ x[1] \notin dirty'
        BY <1>1, <2>2, <3>1, PiecesAre DEF OneWorker, WorkOf, Idles, Grows
      <3>2. ASSUME NEW q \in 1..(part[v] - 1) PROVE changed'[job[v]][<<at[v], q>>] > 0
        <4>a. part[v] # 1
          BY <2>1
        <4>0. part[v] # 1 /\ at[v] \in Items /\ PartsOf[at[v]] \in Nat
          BY <2>1, <4>a, PiecesAre
        <4>1. q \in 1..PartsOf[at[v]]
          BY <2>1, <4>0
        <4> QED
          BY <1>1, <2>2, <4>0, <4>1, PiecesAre DEF OneWorker, WorkOf
      <3>3. /\ pc[v] \in {"scrub", "record"} => at[v] \in marked' /\ changed'[job[v]][Item(v)] > 0
            /\ pc[v] = "record" => at[v] \notin dirty'
        BY <1>1, <2>1, <2>2 DEF OneWorker, WorkOf, Grows
      <3> QED
        BY <3>1, <3>2, <3>3 DEF WorkOf, Idles, Item
    <2>4. FreshOf(v)'
      BY <1>1, <1>5, NoTaskAssumption DEF OneWorker, FreshOf, Idles, Grows, Item
    <2>5. ReportOf(v)'
      BY <1>1, <1>5, NoTaskAssumption DEF OneWorker, ReportOf, Past, Idles, Grows
    <2>6. FollowOf(v)'
      BY <1>1, <1>5, NoTaskAssumption
      DEF OneWorker, AtJob, FollowOf, Past, WithSubTasks, Idles, Grows, Moves, Active, Final
    <2> QED
      BY <1>2, <1>3, <2>3, <2>4, <2>5, <2>6 DEF OneWorker
  <1> QED
    BY <1>1, <1>4, <1>5

(* Who stays where he is has begun what he had. *)
LEMMA IdleKeepsBegun ==
    ASSUME NEW v \in Workers, Idles(v)
    PROVE  Begun(v)' = Begun(v)
  BY DEF Begun, Idles

(***************************************************************************)
(* A step that changes nothing for a task, and in which nobody leaves what *)
(* he has begun of it, leaves that side of the task as it is.              *)
(***************************************************************************)
LEMMA BegunStays ==
    ASSUME IInv, NEW t \in Tasks, Grows, kind' = kind, Moves(t) \/ status[t] = "none",
           changed'[t] = changed[t],
           \A v \in Workers : job[v] = t => job'[v] = t /\ Begun(v) \subseteq Begun(v)'
    PROVE  BegunOf(t)'
  <1> SUFFICES ASSUME t \notin overlapped', kind[t] = "move", status'[t] \notin Final,
                      NEW i \in Items, changed[t][<<i, 1>>] > 0
               PROVE  \/ <<t, i>> \in torn' \/ WithSubTasks(t, i)'
                      \/ \E v \in Workers : job'[v] = t /\ i \in Begun(v)'
    BY DEF BegunOf
  <1>1. t \notin overlapped /\ status[t] \notin Final
    BY DEF Grows, Moves, Active, Final
  <1>2. \/ <<t, i>> \in torn \/ WithSubTasks(t, i)
        \/ \E v \in Workers : job[v] = t /\ i \in Begun(v)
    BY <1>1 DEF IInv, WorkerSide, BegunOf
  <1>3. WithSubTasks(t, i) => WithSubTasks(t, i)'
    BY DEF WithSubTasks
  <1> QED
    BY <1>2, <1>3 DEF Grows

(***************************************************************************)
(* A step of worker w, who stays with its task or leaves it, keeps the     *)
(* side of the workers if it keeps what is said of w and of its task; only *)
(* w completes its task, and then it leaves.                               *)
(***************************************************************************)
LEMMA WorkersStay ==
    ASSUME IInv, NEW w \in Workers, \A v \in Workers \ {w} : Idles(v), kind' = kind, Grows,
           \A t \in Tasks : Moves(t),
           \A t \in Tasks \ {job[w]} : changed'[t] = changed[t],
           job'[w] \in {job[w], NoTask},
           \A t \in Tasks : status'[t] = "COMPLETE" =>
               status[t] = "COMPLETE" \/ (t = job[w] /\ job'[w] = NoTask),
           OneWorker(w)', \A t \in Tasks : t = job[w] => BegunOf(t)'
    PROVE  WorkerSide'
  <1>1. \A v \in Workers : job[v] \in Tasks \cup {NoTask}
    BY TypeParts DEF IInv, WorkerValues
  <1>2. SoleInv /\ overlapped \subseteq overlapped' /\ \A v \in Workers \ {w} : job'[v] = job[v]
    BY DEF IInv, WorkerSide, Grows, Idles
  <1>3. \A v \in Workers \ {w} : OneWorker(v)'
    <2> TAKE v \in Workers \ {w}
    <2>1. job[v] # NoTask => Moves(job[v])
      BY <1>1
    <2>2. job[v] # NoTask /\ job[v] \notin overlapped' => changed'[job[v]] = changed[job[v]]
      BY <1>1, <1>2 DEF SoleInv
    <2> QED
      BY <2>1, <2>2, OneStays
  <1>4. SoleInv'
    <2>1. \A v, u \in Workers : job'[v] = job'[u] => v = u \/ job'[v] \in overlapped' \cup {NoTask}
      BY <1>2 DEF SoleInv
    <2>2. \A v \in Workers : job'[v] # NoTask /\ status'[job'[v]] = "COMPLETE" => job'[v] \in overlapped'
      BY <1>1, <1>2, NoTaskAssumption DEF SoleInv
    <2> QED
      BY <2>1, <2>2 DEF SoleInv
  <1>5. \A t \in Tasks : BegunOf(t)'
    <2>1. \A v \in Workers \ {w} : job'[v] = job[v] /\ Begun(v)' = Begun(v)
      BY <1>2, IdleKeepsBegun
    <2> QED
      BY <2>1, BegunStays
  <1> QED
    BY <1>3, <1>4, <1>5 DEF WorkerSide

(***************************************************************************)
(* A step that is no worker's, and that completes no task, leaves the      *)
(* workers as they are.                                                    *)
(***************************************************************************)
LEMMA AsideStays ==
    ASSUME IInv, UNCHANGED <<pc, job, at, part, late, processed, failed>>, kind' = kind,
           UNCHANGED <<marked, dirty, botched, changed, overlapped, torn>>,
           touched \subseteq touched',
           \A t \in Tasks : Moves(t) \/ status[t] = "none",
           \A t \in Tasks : status'[t] = "COMPLETE" <=> status[t] = "COMPLETE"
    PROVE  WorkerSide'
  <1>1. \A v \in Workers : job[v] \in Tasks \cup {NoTask}
    BY TypeParts DEF IInv, WorkerValues
  <1>2. Grows /\ \A v \in Workers : Idles(v)
    BY DEF Grows, Idles
  <1>3. \A v \in Workers : job[v] # NoTask => status[job[v]] # "none"
    BY TypeParts DEF IInv, WorkerValues, WorkerSide, OneWorker, AtJob, Final
  <1>4. \A v \in Workers : OneWorker(v)'
    BY <1>1, <1>2, <1>3, OneStays
  <1>5. SoleInv'
    BY <1>1 DEF IInv, WorkerSide, SoleInv
  <1>6. \A t \in Tasks : BegunOf(t)'
    <2>1. \A v \in Workers : job'[v] = job[v] /\ Begun(v)' = Begun(v)
      BY <1>2, IdleKeepsBegun
    <2> QED
      BY <1>2, <2>1, BegunStays
  <1> QED
    BY <1>4, <1>5, <1>6 DEF WorkerSide
-----------------------------------------------------------------------------
(* A request counts the active operations with the lock. *)
LEMMA CountIInv ==
    ASSUME IInv, NEW t \in Tasks, Count(t)
    PROVE  IInv'
  <1>1. /\ UNCHANGED <<kind, status, stale, order, result, mails, visible, recorded, held, deletedBy,
                       marked, dirty, pc, job, at, part, processed, failed, lines,
                       changed, botched, overlapped, torn, touched, late, faults>>
        /\ gate = NoTask /\ req[t] = "idle" /\ gate' = t
        /\ req' = [req EXCEPT ![t] = "counted"]
        /\ counted' = [counted EXCEPT ![t] = Cardinality(ActiveBulk)]
    BY DEF Count, CountUnlocked, queue, items, workers, history
  <1>2. Cardinality(ActiveBulk) \in Nat /\ ActiveBulk' = ActiveBulk
    BY <1>1, TasksAssumption, FS_Subset, FS_CardinalityType DEF ActiveBulk
  <1>3. StaleOK /\ QueueValues /\ ItemValues /\ WorkerValues
    BY TypeParts DEF IInv
  <1>4. StaleOK' /\ ItemValues' /\ WorkerValues'
    BY <1>1, <1>3 DEF StaleOK, ItemValues, WorkerValues, Piece
  <1>5. QueueValues'
    BY <1>1, <1>2, <1>3 DEF QueueValues
  <1>6. QueueSide'
    <2>1. Cardinality(ActiveBulk)' = Cardinality(ActiveBulk)
      BY <1>2
    <2>2. \A u \in Tasks : req[u] # "counted"
      BY <1>1, NoTaskAssumption DEF IInv, QueueSide, RequestInv
    <2>3. RequestInv'
      BY <1>1, <1>2, <1>3, <2>1, <2>2 DEF IInv, QueueSide, RequestInv, QueueValues
    <2> QED
      BY <2>1, <2>3 DEF IInv, QueueSide, ActiveIsBounded
  <1>7. RecordSide'
    BY <1>1, RecordsStay
  <1>8. WorkerSide'
    BY <1>1, AsideStays DEF Moves
  <1> QED
    BY <1>4, <1>5, <1>6, <1>7, <1>8, TypePartsAfter DEF IInv

(* A request that was refused gives the lock back. *)
LEMMA RefuseIInv ==
    ASSUME IInv, NEW t \in Tasks, Refuse(t)
    PROVE  IInv'
  <1>1. /\ UNCHANGED <<kind, status, stale, order, result, mails, visible, recorded, held, deletedBy,
                       marked, dirty, pc, job, at, part, processed, failed, lines,
                       changed, botched, overlapped, torn, touched, late, faults>>
        /\ req[t] = "counted" /\ gate' = NoTask
        /\ req' = [req EXCEPT ![t] = "over"]
        /\ counted' = [counted EXCEPT ![t] = 0]
    BY DEF Refuse, queue, items, workers, history
  <1>2. ActiveBulk' = ActiveBulk
    BY <1>1 DEF ActiveBulk
  <1>3. StaleOK /\ QueueValues /\ ItemValues /\ WorkerValues
    BY TypeParts DEF IInv
  <1>4. StaleOK' /\ ItemValues' /\ WorkerValues'
    BY <1>1, <1>3 DEF StaleOK, ItemValues, WorkerValues, Piece
  <1>5. QueueValues'
    BY <1>1, <1>3 DEF QueueValues
  <1>6. QueueSide'
    <2>1. Cardinality(ActiveBulk)' = Cardinality(ActiveBulk)
      BY <1>2
    <2>2. \A u \in Tasks \ {t} : req[u] # "counted"
      BY <1>1 DEF IInv, QueueSide, RequestInv
    <2>3. RequestInv'
      BY <1>1, <1>3, <2>2 DEF IInv, QueueSide, RequestInv, QueueValues
    <2> QED
      BY <2>1, <2>3 DEF IInv, QueueSide, ActiveIsBounded
  <1>7. RecordSide'
    BY <1>1, RecordsStay
  <1>8. WorkerSide'
    BY <1>1, AsideStays DEF Moves
  <1> QED
    BY <1>4, <1>5, <1>6, <1>7, <1>8, TypePartsAfter DEF IInv

(***************************************************************************)
(* A task is queued: an operation because its request has counted fewer    *)
(* than the limit, with the lock; a redaction is not counted.              *)
(***************************************************************************)
LEMMA EnqueueIInv ==
    ASSUME IInv, NEW t \in Tasks, Admit(t) \/ Submit(t)
    PROVE  IInv'
  <1>1. /\ UNCHANGED <<kind, stale, result, mails, visible, recorded, held, deletedBy,
                       marked, dirty, pc, job, at, part, processed, failed, lines,
                       changed, botched, overlapped, torn, touched, late, faults>>
        /\ req[t] # "over" /\ req' = [req EXCEPT ![t] = "over"]
        /\ status' = [status EXCEPT ![t] = "ENQUEUED"] /\ order' = Append(order, t)
        /\ \/ /\ req[t] = "counted" /\ counted[t] < Limit /\ gate' = NoTask
              /\ counted' = [counted EXCEPT ![t] = 0]
           \/ kind[t] \notin Bulk /\ UNCHANGED <<gate, counted>>
    BY DEF Admit, Submit, Enqueue, items, workers, history
  <1>2. StaleOK /\ QueueValues /\ ItemValues /\ WorkerValues
    BY TypeParts DEF IInv
  <1>3. StaleOK' /\ ItemValues' /\ WorkerValues'
    BY <1>1, <1>2 DEF StaleOK, ItemValues, WorkerValues, Piece
  <1>4. QueueValues'
    BY <1>1, <1>2 DEF QueueValues, Active
  <1>5. status[t] = "none" /\ \A u \in Tasks \ {t} : status'[u] = status[u]
    BY <1>1, <1>2 DEF IInv, QueueSide, RequestInv, QueueValues
  <1>6. IsFiniteSet(ActiveBulk) /\ Cardinality(ActiveBulk) \in Nat
    BY TasksAssumption, FS_Subset, FS_CardinalityType DEF ActiveBulk
  <1>7. \A u \in Tasks : status'[u] # "none" => \E n \in DOMAIN order' : order'[n] = u
    <2> TAKE u \in Tasks
    <2>1. order \in Seq(Tasks) /\ Len(order) \in Nat
      BY <1>2 DEF QueueValues
    <2>2. CASE u = t
      <3>1. Len(order) + 1 \in DOMAIN order' /\ order'[Len(order) + 1] = t
        BY <1>1, <2>1
      <3> QED
        BY <2>2, <3>1
    <2>3. CASE u # t
      <3> SUFFICES ASSUME status[u] # "none" PROVE \E n \in DOMAIN order' : order'[n] = u
        BY <1>5, <2>3
      <3>1. PICK n \in DOMAIN order : order[n] = u
        BY DEF IInv, QueueSide, RequestInv
      <3>2. n \in DOMAIN order' /\ order'[n] = u
        BY <1>1, <2>1, <3>1
      <3> QED
        BY <3>2
    <2> QED
      BY <2>2, <2>3
  <1>8. QueueSide'
    <2>1. CASE req[t] = "counted" /\ counted[t] < Limit /\ counted' = [counted EXCEPT ![t] = 0]
      <3>1. ActiveBulk' \subseteq ActiveBulk \cup {t}
        BY <1>1, <1>5 DEF ActiveBulk
      <3>2. /\ Cardinality(ActiveBulk') <= Cardinality(ActiveBulk) + 1
            /\ Cardinality(ActiveBulk') \in Nat
        <4>1. Cardinality(ActiveBulk \cup {t}) \in {Cardinality(ActiveBulk), Cardinality(ActiveBulk) + 1}
          BY <1>6, FS_AddElement
        <4>2. IsFiniteSet(ActiveBulk \cup {t})
          BY <1>6, FS_AddElement
        <4>3. IsFiniteSet(ActiveBulk') /\ Cardinality(ActiveBulk') <= Cardinality(ActiveBulk \cup {t})
          BY <3>1, <4>2, FS_Subset
        <4>4. Cardinality(ActiveBulk') \in Nat
          BY <4>3, FS_CardinalityType
        <4> QED
          BY <1>6, <4>1, <4>3, <4>4
      <3>3. Cardinality(ActiveBulk) <= counted[t] /\ \A u \in Tasks \ {t} : req[u] # "counted"
        BY <2>1 DEF IInv, QueueSide, RequestInv
      <3>4. ActiveIsBounded'
        <4>1. counted[t] \in Nat
          BY <1>2 DEF QueueValues
        <4> QED
          BY <1>6, <2>1, <3>2, <3>3, <4>1, BoundsAssumption DEF ActiveIsBounded
      <3>5. \A u \in Tasks : (req'[u] # "over" => status'[u] = "none") /\ req'[u] # "counted"
        BY <1>1, <1>2, <1>5, <3>3 DEF IInv, QueueSide, RequestInv, QueueValues
      <3>6. RequestInv'
        BY <1>7, <3>5 DEF RequestInv
      <3> QED
        BY <3>4, <3>6 DEF QueueSide
    <2>2. CASE kind[t] \notin Bulk /\ UNCHANGED <<gate, counted>>
      <3>1. ActiveBulk' = ActiveBulk
        BY <1>1, <1>5, <2>2 DEF ActiveBulk
      <3>2. Cardinality(ActiveBulk)' = Cardinality(ActiveBulk)
        BY <3>1
      <3>3. \A u \in Tasks : (req'[u] # "over" => status'[u] = "none") /\ (req'[u] = "counted" => req[u] = "counted")
        BY <1>1, <1>2, <1>5 DEF IInv, QueueSide, RequestInv, QueueValues
      <3>4. RequestInv'
        BY <1>7, <2>2, <3>2, <3>3 DEF IInv, QueueSide, RequestInv
      <3> QED
        BY <3>2, <3>4 DEF IInv, QueueSide, ActiveIsBounded
    <2> QED
      BY <1>1, <2>1, <2>2
  <1>9. RecordSide' /\ WorkerSide'
    <2>1. status'[t] # "COMPLETE"
      BY <1>1, <1>2 DEF QueueValues
    <2> QED
      BY <1>1, <1>5, <2>1, RecordsStay, AsideStays DEF Moves
  <1> QED
    BY <1>3, <1>4, <1>8, <1>9, TypePartsAfter DEF IInv

(***************************************************************************)
(* A task is cancelled, another user changes something, or two minutes     *)
(* pass:                                                                   *)
(* the workers notice later.                                               *)
(***************************************************************************)
LEMMA AsideIInv ==
    ASSUME IInv,
           \/ \E t \in Tasks : Cancel(t) \/ Lapse(t) \/ Overrun(t)
           \/ \E i \in Items : UserRemoves(i)
           \/ \E x \in Pieces : UserEdits(x)
    PROVE  IInv'
  <1>0. ItemValues
    BY TypeParts DEF IInv
  <1>1. /\ UNCHANGED <<kind, order, req, gate, counted, result, mails, recorded, deletedBy,
                       marked, dirty, pc, job, at, part, processed, failed, lines,
                       changed, botched, overlapped, torn, late>>
        /\ visible' \subseteq visible /\ held' \subseteq held /\ touched \subseteq touched'
        /\ touched' \subseteq Pieces
        /\ \A t \in Tasks, x \in Pieces : <<t, x>> \in held \ held' => x \in touched'
        /\ \/ status' = status
           \/ \E t \in Tasks : status[t] \in Active /\ status' = [status EXCEPT ![t] = "CANCELLED"]
        /\ faults' = faults \/ Fault
    <2>1. CASE \E t \in Tasks : Cancel(t) \/ Lapse(t) \/ Overrun(t)
      BY <2>1, <1>0 DEF ItemValues, Cancel, Lapse, Overrun, End, requests, items, workers, history
    <2>2. CASE \E i \in Items : UserRemoves(i)
      BY <2>2, <1>0 DEF ItemValues, UserRemoves, queue, requests, workers, history
    <2>3. CASE \E x \in Pieces : UserEdits(x)
      BY <2>3, <1>0 DEF ItemValues, UserEdits, queue, requests, workers
    <2> QED
      BY <2>1, <2>2, <2>3
  <1>2. stale' = stale \/ \E t \in Tasks, b \in BOOLEAN : stale' = [stale EXCEPT ![t] = b]
    BY DEF Cancel, Lapse, Overrun, UserRemoves, UserEdits, End, queue
  <1>3. StaleOK /\ QueueValues /\ ItemValues /\ WorkerValues
    BY TypeParts DEF IInv
  <1>4. StaleOK'
    BY <1>2, <1>3, SetFlag DEF StaleOK
  <1>5. QueueValues'
    BY <1>1, <1>3, BoundsAssumption DEF QueueValues, Fault, Final
  <1>6. ItemValues' /\ WorkerValues'
    BY <1>1, <1>3 DEF ItemValues, WorkerValues, Piece
  <1>7. \A t \in Tasks : Moves(t) /\ (status'[t] = "COMPLETE" <=> status[t] = "COMPLETE")
    BY <1>1, <1>3 DEF Moves, QueueValues, Active, Final
  <1>8. QueueSide' /\ RecordSide' /\ WorkerSide'
    BY <1>1, <1>7, QueueStays, RecordsStay, AsideStays
  <1> QED
    BY <1>4, <1>5, <1>6, <1>8, TypePartsAfter DEF IInv

(* A set of naturals that is not empty has a smallest element. *)
LEMMA SmallestOf ==
    ASSUME NEW S \in SUBSET Nat, S # {}
    PROVE  \E x \in S : \A y \in S : x <= y
  <1> DEFINE Less == {ss \in Nat \X Nat : ss[1] < ss[2]}
  <1>1. IsWellFoundedOn(Less, Nat)
    BY NatLessThanWellFounded, Zenon DEF OpToRel
  <1>2. \E x \in S : \A y \in S : ~(<<y, x>> \in Less)
    <2> HIDE DEF Less
    <2> QED
      BY <1>1, WFMin, Zenon
  <1>3. \A x, y \in S : ~(<<y, x>> \in Less) => x <= y
    OBVIOUS
  <1> QED
    BY <1>2, <1>3

(***************************************************************************)
(* The oldest of the tasks that can be claimed is one of them.             *)
(***************************************************************************)
LEMMA OldestIsClaimable ==
    ASSUME IInv, {t \in Tasks : Claimable(t)} # {}
    PROVE  Oldest({t \in Tasks : Claimable(t)}) \in {t \in Tasks : Claimable(t)}
  <1> DEFINE ready == {t \in Tasks : Claimable(t)}
             Places == {n \in DOMAIN order : order[n] \in ready}
  <1>1. order \in Seq(Tasks)
    BY TypeParts DEF IInv, QueueValues
  <1>2. PICK t \in ready : TRUE
    OBVIOUS
  <1>3. status[t] # "none"
    BY <1>2 DEF Claimable
  <1>4. Places # {} /\ Places \subseteq Nat
    BY <1>1, <1>2, <1>3 DEF IInv, QueueSide, RequestInv
  <1>5. PICK n \in Places : \A m \in Places : n <= m
    BY <1>4, SmallestOf
  <1>6. /\ n \in DOMAIN order /\ order[n] \in ready
        /\ \A m \in 1..(n - 1) : order[m] \notin ready
    <2>1. \A m \in 1..(n - 1) : m \in DOMAIN order /\ ~(n <= m)
      BY <1>1
    <2> QED
      BY <1>5, <2>1
  <1> HIDE DEF ready
  <1> QED
    BY <1>6 DEF Oldest, ready

(***************************************************************************)
(* A claim: the task of somebody who is still at it is taken over.         *)
(***************************************************************************)
LEMMA ClaimIInv ==
    ASSUME IInv, NEW w \in Workers, Claim(w)
    PROVE  IInv'
  <1> DEFINE ready == {t \in Tasks : Claimable(t)}
             t == Oldest(ready)
  <1>1. t \in Tasks /\ Claimable(t)
    BY OldestIsClaimable DEF Claim
  <1>2. /\ UNCHANGED <<kind, order, req, gate, counted, result, mails, visible, recorded, held, deletedBy,
                       marked, dirty, at, part, processed, failed, lines, changed, botched, torn, touched,
                       late, faults>>
        /\ pc[w] = "idle"
        /\ status' = [status EXCEPT ![t] = "RUNNING"]
        /\ pc' = [pc EXCEPT ![w] = IF kind[t] = "watch" THEN "watch" ELSE "look"]
        /\ job' = [job EXCEPT ![w] = t]
        /\ overlapped' = IF AtWork(t) = {} THEN overlapped ELSE overlapped \cup {t}
    BY DEF Claim, requests, items
  <1>3. stale' = [stale EXCEPT ![t] = FALSE]
    BY DEF Claim
  <1>4. status[t] \in Active
    BY <1>1 DEF Claimable, Active
  <1> HIDE DEF ready, t
  <1>5. StaleOK /\ QueueValues /\ ItemValues /\ WorkerValues
    BY TypeParts DEF IInv
  <1>6. StaleOK'
    BY <1>1, <1>3, <1>5, SetFlag DEF StaleOK
  <1>7. QueueValues'
    BY <1>1, <1>2, <1>5 DEF QueueValues, Active
  <1>8. ItemValues' /\ WorkerValues'
    BY <1>1, <1>2, <1>5, NoTaskAssumption DEF ItemValues, WorkerValues, Piece
  <1>9. \A u \in Tasks : Moves(u) /\ (status'[u] = "COMPLETE" <=> status[u] = "COMPLETE")
    BY <1>1, <1>2, <1>4, <1>5 DEF Moves, QueueValues, Active
  <1>10. QueueSide' /\ RecordSide'
    BY <1>2, <1>9, QueueStays, RecordsStay
  <1>11. \A v \in Workers \ {w} : OneWorker(v)'
    <2>1. Grows /\ \A v \in Workers \ {w} : Idles(v)
      BY <1>2, <1>5 DEF Grows, Idles, WorkerValues
    <2>2. \A v \in Workers : job[v] \in Tasks \cup {NoTask}
      BY <1>5 DEF WorkerValues
    <2> QED
      BY <1>2, <1>9, <2>1, <2>2, OneStays
  <1>12. OneWorker(w)'
    <2>1. /\ pc'[w] \in {"watch", "look"} /\ (pc'[w] = "watch" <=> kind'[t] = "watch")
          /\ job'[w] = t /\ status'[t] = "RUNNING" /\ at'[w] = 1 /\ late'[w] = {} /\ part'[w] = 1
          /\ processed'[w] = {} /\ failed'[w] = {}
      BY <1>1, <1>2, <1>5 DEF QueueValues, WorkerValues, IInv, WorkerSide, OneWorker, AtJob
    <2>2. AtJob(w)' /\ LateOf(w)' /\ WorkOf(w)'
      BY <2>1, BoundsAssumption DEF AtJob, LateOf, WorkOf
    <2>3. FreshOf(w)' /\ ReportOf(w)' /\ FollowOf(w)'
      BY <2>1 DEF FreshOf, ReportOf, FollowOf, Past, Items
    <2> QED
      BY <2>2, <2>3 DEF OneWorker
  <1>13. SoleInv'
    <2>1. \A v \in Workers \ {w} : job'[v] = job[v] /\ (job[v] = t => t \in overlapped')
      BY <1>2, <1>5 DEF WorkerValues, AtWork
    <2>2. job'[w] = t /\ overlapped \subseteq overlapped' /\ status'[t] = "RUNNING"
      BY <1>1, <1>2, <1>5 DEF WorkerValues, QueueValues
    <2>3. \A v, u \in Workers : job'[v] = job'[u] => v = u \/ job'[v] \in overlapped' \cup {NoTask}
      BY <2>1, <2>2 DEF IInv, WorkerSide, SoleInv
    <2>4. \A v \in Workers : job'[v] # NoTask /\ status'[job'[v]] = "COMPLETE" => job'[v] \in overlapped'
      BY <1>5, <1>9, <2>1, <2>2 DEF IInv, WorkerSide, SoleInv, WorkerValues
    <2> QED
      BY <2>3, <2>4 DEF SoleInv
  <1>14. \A u \in Tasks : BegunOf(u)'
    <2>1. Grows /\ \A v \in Workers \ {w} : Idles(v)
      BY <1>2, <1>5 DEF Grows, Idles, WorkerValues
    <2>2. job[w] = NoTask
      BY <1>2, <1>5 DEF WorkerValues
    <2>3. \A v \in Workers \ {w} : job'[v] = job[v] /\ Begun(v)' = Begun(v)
      BY <2>1, IdleKeepsBegun DEF Idles
    <2> QED
      BY <1>2, <1>9, <2>1, <2>2, <2>3, NoTaskAssumption, BegunStays
  <1> QED
    BY <1>6, <1>7, <1>8, <1>10, <1>11, <1>12, <1>13, <1>14, TypePartsAfter DEF IInv, WorkerSide

-----------------------------------------------------------------------------
(***************************************************************************)
(* A worker that crashes, fails, or finds its task over leaves it; what it *)
(* has changed stays changed and has its trace.                            *)
(***************************************************************************)
LEMMA LeaveIInv ==
    ASSUME IInv, NEW w \in Workers,
           \/ Crash(w) \/ Fail(w) \/ WriteFails(w)
           \/ Progress(w) /\ ~Is(w, {"redact"}) /\ status[job[w]] # "RUNNING"
           \/ (Watch(w) \/ Complete(w)) /\ status[job[w]] # "RUNNING"
    PROVE  IInv'
  <1>1. /\ UNCHANGED <<kind, order, req, gate, counted, result, mails, visible, recorded, held, deletedBy,
                       marked, dirty, changed, botched, overlapped, touched>>
        /\ pc[w] # "idle" /\ Leave(w)
        /\ \/ status' = status
           \/ status[job[w]] = "RUNNING" /\ status' = [status EXCEPT ![job[w]] = "FAILED"]
        /\ faults' = faults \/ Fault
    BY DEF Crash, Fail, WriteFails, Progress, Watch, Complete, EndIfRunning, End,
           queue, requests, items
  <1>t. \/ torn' = torn \cup ({job[w]} \X Begun(w))
        \/ torn' = torn /\ status[job[w]] # "RUNNING"
        \/ torn' = torn /\ status' = [status EXCEPT ![job[w]] = "FAILED"]
    BY DEF Crash, Fail, WriteFails, Progress, Watch, Complete, EndIfRunning, End
  <1>2. stale' = stale \/ stale' = [stale EXCEPT ![job[w]] = FALSE]
    BY DEF Crash, Fail, WriteFails, Progress, Watch, Complete, EndIfRunning, End, queue
  <1>3. StaleOK /\ QueueValues /\ ItemValues /\ WorkerValues
    BY TypeParts DEF IInv
  <1>4. job[w] \in Tasks
    BY <1>1, <1>3 DEF WorkerValues
  <1>5. StaleOK'
    BY <1>2, <1>3, <1>4, SetFlag DEF StaleOK
  <1>6. QueueValues'
    <2>1. faults' \in 0..MaxFaults
      BY <1>1, <1>3, BoundsAssumption DEF QueueValues, Fault
    <2>2. status' \in [Tasks -> Active \cup Final \cup {"none"}]
      BY <1>1, <1>3 DEF QueueValues, Final
    <2> QED
      BY <1>1, <1>3, <2>1, <2>2 DEF QueueValues
  <1>7. ItemValues' /\ WorkerValues'
    <2>1. torn \subseteq torn' /\ torn' \subseteq Tasks \X Items
      <3>1. Begun(w) \subseteq Items
        BY DEF Begun
      <3> QED
        BY <1>t, <1>3, <1>4, <3>1 DEF ItemValues
    <2> QED
      BY <1>1, <1>3, <2>1, BoundsAssumption DEF ItemValues, WorkerValues, Leave, Piece
  <1>8. \A t \in Tasks : Moves(t) /\ (status'[t] = "COMPLETE" <=> status[t] = "COMPLETE")
    BY <1>1, <1>3, <1>4 DEF Moves, QueueValues, Active, Final
  <1>9. QueueSide' /\ RecordSide'
    <2>1. torn \subseteq torn'
      BY <1>t
    <2> QED
      BY <1>1, <1>8, <2>1, QueueStays, RecordsStay
  <1>10. OneWorker(w)'
    BY <1>1, <1>3, NoTaskAssumption
    DEF WorkerValues, QueueValues, Leave, OneWorker, AtJob, LateOf, WorkOf, FreshOf, ReportOf, FollowOf
  <1>11. Grows /\ (\A v \in Workers \ {w} : Idles(v)) /\ job'[w] = NoTask
    BY <1>1, <1>t, <1>3 DEF Grows, Idles, Leave, WorkerValues
  <1>12. \A t \in Tasks : t = job[w] => BegunOf(t)'
    <2> SUFFICES ASSUME NEW t \in Tasks, t = job[w], t \notin overlapped, kind[t] = "move",
                        status'[t] \notin Final, NEW i \in Items, changed[t][<<i, 1>>] > 0
                 PROVE  \/ <<t, i>> \in torn' \/ WithSubTasks(t, i)'
                        \/ \E v \in Workers : job'[v] = t /\ i \in Begun(v)'
      BY <1>1 DEF BegunOf
    <2>1. status[t] \in {"RUNNING"} \cup Final
      BY <1>1 DEF IInv, WorkerSide, OneWorker, AtJob
    <2>2. status[t] \notin Final /\ torn' = torn \cup ({t} \X Begun(w))
      BY <1>t, <1>3, <1>8, <2>1 DEF Moves, Active, Final, QueueValues
    <2>3. \/ <<t, i>> \in torn \/ WithSubTasks(t, i)
          \/ \E v \in Workers : job[v] = t /\ i \in Begun(v)
      BY <2>2 DEF IInv, WorkerSide, BegunOf
    <2>4. WithSubTasks(t, i)' = WithSubTasks(t, i)
      BY <1>1 DEF WithSubTasks
    <2>5. \A v \in Workers \ {w} : job'[v] = job[v] /\ Begun(v)' = Begun(v)
      BY <1>11, IdleKeepsBegun DEF Idles
    <2>6. i \in Begun(w) => <<t, i>> \in torn'
      BY <2>2
    <2> QED
      BY <2>2, <2>3, <2>4, <2>5, <2>6
  <1>13. WorkerSide'
    BY <1>1, <1>8, <1>10, <1>11, <1>12, WorkersStay
  <1> QED
    BY <1>5, <1>6, <1>7, <1>9, <1>13, TypePartsAfter DEF IInv

(***************************************************************************)
(* The common part of the steps of worker w at an item: the task stays its *)
(* task and goes on, and no other worker and no request is touched.        *)
(***************************************************************************)
Stays(w) ==
    /\ UNCHANGED <<kind, status, order, req, gate, counted, result, overlapped, job>>
    /\ \A v \in Workers \ {w} : Idles(v)
    /\ stale' = stale \/ stale' = [stale EXCEPT ![job[w]] = FALSE]
    /\ faults' = faults \/ Fault

LEMMA StepIInv ==
    ASSUME IInv, NEW w \in Workers, pc[w] # "idle", Stays(w), Grows,
           \A t \in Tasks \ {job[w]} : changed'[t] = changed[t],
           ItemValues', WorkerValues', RecordSide', OneWorker(w)',
           \A t \in Tasks : t = job[w] => BegunOf(t)'
    PROVE  IInv'
  <1>1. StaleOK /\ QueueValues /\ WorkerValues
    BY TypeParts DEF IInv
  <1>2. job[w] \in Tasks
    BY <1>1 DEF WorkerValues
  <1>3. StaleOK'
    BY <1>1, <1>2, SetFlag DEF StaleOK, Stays
  <1>4. QueueValues'
    BY <1>1, BoundsAssumption DEF QueueValues, Stays, Fault
  <1>5. QueueSide' /\ WorkerSide'
    BY QueueStays, WorkersStay DEF Stays, Moves
  <1> QED
    BY <1>3, <1>4, <1>5, TypePartsAfter DEF IInv

(* One that changes nothing leaves what its task has begun. *)
LEMMA BegunKept ==
    ASSUME IInv, NEW w \in Workers, Stays(w), Grows, changed' = changed,
           Begun(w) \subseteq Begun(w)'
    PROVE  \A t \in Tasks : t = job[w] => BegunOf(t)'
  <1>1. \A v \in Workers \ {w} : Begun(v)' = Begun(v)
    BY IdleKeepsBegun DEF Stays
  <1> QED
    BY <1>1, BegunStays DEF Stays, Moves

(***************************************************************************)
(* The worker looks at an item: it goes past it when the task has changed  *)
(* it already or cannot change it, and is alone about to change it else;   *)
(* an edit goes on to the second piece when the first is as it asks.       *)
(***************************************************************************)
LEMMA LookIInv ==
    ASSUME IInv, NEW w \in Workers, Look(w)
    PROVE  IInv'
  <1>1. /\ UNCHANGED <<kind, status, order, req, gate, counted, result, mails, visible, recorded,
                       held, deletedBy, marked, dirty, job, at, failed, lines,
                       changed, botched, overlapped, torn, touched, late, faults>>
        /\ pc[w] = "look" /\ kind[job[w]] # "watch"
    BY DEF Look, LookEdit, LookMove, LookDelete, LookRedact, LookAtItem, Processed, EditPastType,
           Looked, Is, queue, requests, items, history
  <1>2. /\ job[w] \in Tasks /\ at[w] \in Items /\ OneWorker(w)
        /\ QueueValues /\ ItemValues /\ WorkerValues
        /\ Item(w) \in Pieces /\ part[w] = 1
    BY <1>1, AtItem DEF OneWorker, AtJob
  <1>3. PartsOf[at[w]] \in Nat \ {0}
    BY <1>2, PiecesAre
  <1>4. \/ /\ processed' = Add(processed, w, Item(w))
           /\ Go(w, "progress") /\ part' = [part EXCEPT ![w] = 1]
           /\ \/ kind[job[w]] = "move" /\ <<job[w], Item(w)>> \in recorded
              \/ kind[job[w]] = "delete" /\ deletedBy[at[w]] = job[w]
              \/ kind[job[w]] = "edit" /\ <<job[w], Item(w)>> \in held /\ PartsOf[at[w]] = 1
        \/ /\ processed' = processed
           /\ Go(w, "progress") /\ part' = [part EXCEPT ![w] = 1]
           /\ kind[job[w]] = "move" => <<job[w], Item(w)>> \notin recorded
           /\ kind[job[w]] = "delete" => deletedBy[at[w]] # job[w]
        \/ /\ processed' = processed
           /\ Go(w, "apply") /\ part' = [part EXCEPT ![w] = 1]
           /\ kind[job[w]] \in {"edit", "move", "delete"}
           /\ kind[job[w]] = "move" => <<job[w], Item(w)>> \notin recorded
           /\ kind[job[w]] = "edit" => <<job[w], Item(w)>> \notin held
           /\ kind[job[w]] = "delete" => at[w] \in visible
        \/ /\ processed' = processed
           /\ Go(w, "apply") /\ part' = [part EXCEPT ![w] = 2]
           /\ kind[job[w]] = "edit" /\ <<job[w], Item(w)>> \in held /\ PartsOf[at[w]] # 1
        \/ /\ processed' = processed
           /\ Go(w, "write") /\ part' = part
           /\ kind[job[w]] = "redact" /\ at[w] \notin marked
        \/ /\ processed' = processed
           /\ Go(w, "progress") /\ part' = part
           /\ kind[job[w]] = "redact"
    <2>1. CASE LookEdit(w)
      BY <2>1 DEF LookEdit, LookAtItem, EditPastType, Processed, Held, Item, Take, Rest, Is
    <2>2. CASE LookMove(w)
      BY <2>2 DEF LookMove, LookAtItem, Processed, Recorded, Take, Rest, Is
    <2>3. CASE LookDelete(w)
      BY <1>1, <1>2, <2>3
      DEF LookDelete, LookAtItem, Processed, Take, Rest, Is, IInv, RecordSide, TraceInv, TraceOf
    <2>4. CASE LookRedact(w)
      BY <2>4 DEF LookRedact, Is, Go
    <2> QED
      BY <2>1, <2>2, <2>3, <2>4 DEF Look
  <1>5. /\ \E x \in {"progress", "apply", "write"} : pc' = [pc EXCEPT ![w] = x]
        /\ \E p \in {1, 2} : part' = [part EXCEPT ![w] = p]
        /\ processed' \in [Workers -> SUBSET Pieces]
        /\ stale' = stale
    <2>1. part = [part EXCEPT ![w] = 1]
      BY <1>2 DEF WorkerValues
    <2>2. processed' \in [Workers -> SUBSET Pieces]
      BY <1>2, <1>4 DEF WorkerValues, Add
    <2>3. \E x \in {"progress", "apply", "write"} : pc' = [pc EXCEPT ![w] = x]
      BY <1>4 DEF Go
    <2>4. stale' = stale
      BY DEF Look, LookEdit, LookMove, LookDelete, LookRedact, LookAtItem, Processed, EditPastType,
             Looked, queue
    <2> QED
      BY <1>4, <2>1, <2>2, <2>3, <2>4
  <1>6. /\ pc'[w] \in {"progress", "apply", "write"} /\ part'[w] \in {1, 2}
        /\ \A v \in Workers \ {w} : Idles(v)
        /\ \/ /\ processed'[w] = processed[w] \cup {Item(w)}
              /\ pc'[w] = "progress" /\ part'[w] = 1
              /\ \/ kind[job[w]] = "move" /\ <<job[w], Item(w)>> \in recorded
                 \/ kind[job[w]] = "delete" /\ deletedBy[at[w]] = job[w]
                 \/ kind[job[w]] = "edit" /\ <<job[w], Item(w)>> \in held /\ PartsOf[at[w]] = 1
           \/ /\ processed'[w] = processed[w]
              /\ pc'[w] = "progress" /\ part'[w] = 1
              /\ kind[job[w]] = "move" => <<job[w], Item(w)>> \notin recorded
              /\ kind[job[w]] = "delete" => deletedBy[at[w]] # job[w]
           \/ /\ processed'[w] = processed[w]
              /\ pc'[w] = "apply" /\ part'[w] = 1
              /\ kind[job[w]] \in {"edit", "move", "delete"}
              /\ kind[job[w]] = "move" => <<job[w], Item(w)>> \notin recorded
              /\ kind[job[w]] = "edit" => <<job[w], Item(w)>> \notin held
              /\ kind[job[w]] = "delete" => at[w] \in visible
           \/ /\ processed'[w] = processed[w]
              /\ pc'[w] = "apply" /\ part'[w] = 2
              /\ kind[job[w]] = "edit" /\ <<job[w], Item(w)>> \in held /\ PartsOf[at[w]] # 1
           \/ /\ processed'[w] = processed[w]
              /\ pc'[w] = "write" /\ part'[w] = 1
              /\ kind[job[w]] = "redact" /\ at[w] \notin marked
    <2>1. \A v \in Workers \ {w} : Idles(v)
      BY <1>1, <1>2, <1>4, <1>5 DEF WorkerValues, Idles, Add
    <2>2. pc'[w] \in {"progress", "apply", "write"} /\ part'[w] \in {1, 2}
      BY <1>2, <1>5 DEF WorkerValues
    <2> QED
      BY <1>2, <1>4, <2>1, <2>2 DEF WorkerValues, Add, Go
  <1>7. ItemValues' /\ WorkerValues'
    <2>1. ItemValues'
      BY <1>1, <1>2 DEF ItemValues
    <2>2. part'[w] = 1 \/ Piece(w)' \in Pieces
      <3>1. part'[w] # 1 => part'[w] = 2 /\ 2 \in 1..PartsOf[at[w]]
        BY <1>3, <1>6
      <3> QED
        BY <1>1, <1>2, <3>1, PiecesAre DEF Piece
    <2>3. part' \in [Workers -> Nat \ {0}] /\ \A v \in Workers : part'[v] = 1 \/ Piece(v)' \in Pieces
      BY <1>1, <1>2, <1>5, <1>6, <2>2 DEF WorkerValues, Idles, Piece
    <2>4. /\ pc' \in [Workers -> {"idle", "look", "apply", "write", "scrub", "record", "progress",
                           "watch", "mail", "complete"}]
          /\ \A v \in Workers : pc'[v] = "idle" <=> job[v] = NoTask
      BY <1>1, <1>2, <1>5, NoTaskAssumption DEF WorkerValues
    <2> QED
      BY <1>1, <1>2, <1>5, <2>1, <2>3, <2>4 DEF WorkerValues
  <1>8. Stays(w) /\ Grows
    BY <1>1, <1>5, <1>6 DEF Stays, Grows
  <1>9. RecordSide'
    BY <1>1, RecordsStay
  <1>10. TraceOf(job[w], Item(w)) /\ (deletedBy[at[w]] = job[w] => changed[job[w]][Item(w)] > 0)
    BY <1>2 DEF IInv, RecordSide, TraceInv, Item
  <1>11. \A x \in Pieces : changed[job[w]][x] \in 0..2
    BY <1>2 DEF ItemValues
  <1>12. AtJob(w)' /\ LateOf(w)'
    BY <1>1, <1>2, <1>6, BoundsAssumption DEF OneWorker, AtJob, LateOf, Items
  <1>13. WorkOf(w)'
    <2>1. processed'[w] \subseteq processed[w] \cup {Item(w)}
      BY <1>6
    <2>2. Item(w) \in processed'[w] /\ Item(w) \notin processed[w] =>
              /\ changed[job[w]][Item(w)] > 0 /\ kind[job[w]] # "redact"
              /\ kind[job[w]] = "edit" => PartsOf[at[w]] = 1
      BY <1>6, <1>10 DEF TraceOf
    <2>3. \A x \in processed'[w] :
              /\ changed[job[w]][x] > 0
              /\ kind[job[w]] = "edit" => \A p \in 1..PartsOf[x[1]] : changed[job[w]][<<x[1], p>>] > 0
              /\ kind[job[w]] = "redact" => x[1] \in marked /\ x[1] \notin dirty
      BY <1>2, <2>1, <2>2 DEF OneWorker, WorkOf, Item
    <2>4. \A q \in 1..(part'[w] - 1) : changed[job[w]][<<at[w], q>>] > 0
      <3>1. part'[w] # 1 => changed[job[w]][Item(w)] > 0
        BY <1>6, <1>10 DEF TraceOf
      <3>2. \A q \in 1..(part'[w] - 1) : part'[w] # 1 /\ q = 1
        BY <1>6
      <3> QED
        BY <3>1, <3>2 DEF Item
    <2> QED
      BY <1>1, <1>6, <2>3, <2>4 DEF WorkOf
  <1>14. FreshOf(w)'
    <2>1. pc'[w] = "write" => ~(changed[job[w]][Item(w)] > 0)
      BY <1>6, <1>10 DEF TraceOf, Item
    <2>2. pc'[w] = "apply" /\ kind[job[w]] = "delete" => ~(changed[job[w]][Item(w)] > 0)
      BY <1>6, <1>10 DEF TraceOf, Item
    <2>3. pc'[w] = "apply" /\ kind[job[w]] = "edit" /\ part'[w] = 1 =>
              ~(changed[job[w]][Item(w)] > 0) \/ Item(w) \in touched
      BY <1>6, <1>10 DEF TraceOf
    <2>4. pc'[w] = "apply" /\ kind[job[w]] = "move" =>
              \A q \in part'[w]..PartsOf[at[w]] : ~(changed[job[w]][<<at[w], q>>] > 0)
      <3> SUFFICES ASSUME pc'[w] = "apply", kind[job[w]] = "move", NEW q \in part'[w]..PartsOf[at[w]]
                   PROVE  ~(changed[job[w]][<<at[w], q>>] > 0)
        OBVIOUS
      <3>1. <<at[w], q>> \in Pieces
        <4>1. q \in 1..PartsOf[at[w]]
          BY <1>3, <1>6
        <4> QED
          BY <1>2, <4>1, PiecesAre
      <3>2. TraceOf(job[w], <<at[w], q>>)
        BY <1>2, <3>1 DEF IInv, RecordSide, TraceInv
      <3>3. ~(changed[job[w]][Item(w)] > 0)
        BY <1>6, <1>10 DEF TraceOf
      <3> QED
        BY <3>2, <3>3 DEF TraceOf, Item
    <2>5. \A q \in part'[w]..PartsOf[at[w]] : <<at[w], q>> \in Pieces
      <3> TAKE q \in part'[w]..PartsOf[at[w]]
      <3>1. q \in 1..PartsOf[at[w]]
        BY <1>3, <1>6
      <3> QED
        BY <1>2, <3>1, PiecesAre
    <2> QED
      BY <1>1, <1>2, <1>11, <2>1, <2>2, <2>3, <2>4, <2>5 DEF FreshOf, Item
  <1>15. ReportOf(w)'
    <2> SUFFICES ASSUME job[w] \notin overlapped, kind[job[w]] \in Ordered, NEW i \in Items,
                        Past(w, i)' \/ (i = at[w] /\ part'[w] # 1), changed[job[w]][<<i, 1>>] > 0
                 PROVE  <<i, 1>> \in processed'[w] \/ (<<i, 1>> \in failed[w] /\ <<job[w], i>> \in botched)
      BY <1>1 DEF ReportOf
    <2>1. CASE i = at[w]
      <3>1. pc'[w] = "progress"
        BY <1>1, <1>2, <1>6, <2>1, PiecesAre DEF Ordered, Past
      <3> QED
        BY <1>6, <1>10, <2>1, <3>1 DEF Ordered, TraceOf, Item
    <2>2. CASE i # at[w]
      <3>1. Past(w, i)
        BY <1>1, <2>2 DEF Past
      <3>2. processed[w] \subseteq processed'[w]
        BY <1>6
      <3> QED
        BY <1>1, <1>2, <3>1, <3>2 DEF OneWorker, ReportOf
    <2> QED
      BY <2>1, <2>2
  <1>16. FollowOf(w)'
    <2> SUFFICES ASSUME job[w] \notin overlapped, kind[job[w]] = "move", status[job[w]] = "RUNNING",
                        NEW i \in Items, Past(w, i)', <<i, 1>> \in processed'[w] \ failed[w]
                 PROVE  <<job[w], i>> \in torn \/ WithSubTasks(job[w], i)
      BY <1>1 DEF FollowOf, WithSubTasks
    <2>1. CASE i = at[w]
      <3>1. pc'[w] = "progress"
        BY <1>1, <1>2, <1>6, <2>1, PiecesAre DEF Past
      <3>2. CASE <<job[w], Item(w)>> \in recorded
        <4>1. changed[job[w]][<<i, 1>>] > 0
          BY <1>10, <2>1, <3>2 DEF TraceOf, Item
        <4>2. \A v \in Workers : job[v] = job[w] => v = w
          BY <1>2, NoTaskAssumption DEF IInv, WorkerSide, SoleInv
        <4>3. i \notin Begun(w)
          BY <1>2, <2>1 DEF Begun
        <4>4. status[job[w]] \notin Final
          BY DEF Final
        <4> QED
          BY <1>2, <4>1, <4>2, <4>3, <4>4 DEF IInv, WorkerSide, BegunOf
      <3>3. CASE <<job[w], Item(w)>> \notin recorded
        <4>1. Item(w) \in processed[w]
          BY <1>6, <2>1, <3>3 DEF Item
        <4>2. changed[job[w]][Item(w)] > 0
          BY <1>2, <4>1 DEF OneWorker, WorkOf
        <4> QED
          BY <1>10, <3>3, <4>2 DEF TraceOf
      <3> QED
        BY <3>2, <3>3
    <2>2. CASE i # at[w]
      <3>1. Past(w, i) /\ <<i, 1>> \in processed[w]
        BY <1>1, <1>6, <2>2 DEF Past, Item
      <3> QED
        BY <1>1, <1>2, <3>1 DEF OneWorker, FollowOf
    <2> QED
      BY <2>1, <2>2
  <1>17. Begun(w) \subseteq Begun(w)'
    BY <1>1, <1>2 DEF Begun
  <1>18. \A t \in Tasks : t = job[w] => BegunOf(t)'
    BY <1>1, <1>8, <1>17, BegunKept
  <1>19. OneWorker(w)'
    BY <1>12, <1>13, <1>14, <1>15, <1>16 DEF OneWorker
  <1> QED
    BY <1>1, <1>7, <1>8, <1>9, <1>18, <1>19, StepIInv

(***************************************************************************)
(* A change of one piece by one task adds to that number alone.            *)
(***************************************************************************)
LEMMA ChangeAt ==
    ASSUME NEW t \in Tasks, NEW i \in Pieces, changed \in [Tasks -> [Pieces -> 0..2]],
           changed' = [changed EXCEPT ![t][i] = Bump(@)]
    PROVE  /\ changed' \in [Tasks -> [Pieces -> 0..2]]
           /\ \A u \in Tasks \ {t} : changed'[u] = changed[u]
           /\ \A j \in Pieces \ {i} : changed'[t][j] = changed[t][j]
           /\ changed'[t][i] \in {1, 2}
           /\ changed[t][i] = 0 => changed'[t][i] = 1
           /\ \A u \in Tasks, j \in Pieces : changed[u][j] > 0 => changed'[u][j] > 0
  <1>1. changed[t] \in [Pieces -> 0..2] /\ changed[t][i] \in 0..2 /\ Bump(changed[t][i]) \in {1, 2}
    BY DEF Bump
  <1>2. changed' = [changed EXCEPT ![t] = [changed[t] EXCEPT ![i] = Bump(changed[t][i])]]
    OBVIOUS
  <1>3. /\ changed'[t] = [changed[t] EXCEPT ![i] = Bump(changed[t][i])]
        /\ \A u \in Tasks \ {t} : changed'[u] = changed[u]
    BY <1>2
  <1>4. changed'[t] \in [Pieces -> 0..2]
    BY <1>1, <1>3
  <1>5. changed' \in [Tasks -> [Pieces -> 0..2]]
    BY <1>2, <1>3, <1>4
  <1>6. /\ \A j \in Pieces \ {i} : changed'[t][j] = changed[t][j]
        /\ changed'[t][i] = Bump(changed[t][i])
    BY <1>1, <1>3
  <1>7. changed'[t][i] \in {1, 2} /\ (changed[t][i] = 0 => changed'[t][i] = 1)
    BY <1>1, <1>6 DEF Bump
  <1>8. \A u \in Tasks, j \in Pieces : changed[u][j] > 0 => changed'[u][j] > 0
    BY <1>3, <1>6, <1>7
  <1> QED
    BY <1>3, <1>5, <1>6, <1>7, <1>8

(***************************************************************************)
(* Such a change keeps the reports true: whoever completed the task has    *)
(* left it, so that this worker took it over, and only one who took a task *)
(* over, or an edit of what another user has changed, changes a piece that *)
(* the task has changed.                                                   *)
(***************************************************************************)
LEMMA ChangeReports ==
    ASSUME IInv, NEW w \in Workers, job[w] \in Tasks, NEW y \in Pieces,
           changed' = [changed EXCEPT ![job[w]][y] = Bump(@)],
           UNCHANGED <<kind, status, result, overlapped, torn, touched>>,
           marked \subseteq marked', dirty' \subseteq dirty, botched \subseteq botched',
           kind[job[w]] # "watch",
           \/ kind[job[w]] \in {"edit", "move", "redact"} /\ job[w] \in overlapped
           \/ kind[job[w]] = "edit" /\ y \in touched
           \/ changed[job[w]][y] = 0
    PROVE  ResultsAreTrue' /\ RepeatsNeedAnOverlap'
  <1>0. ItemValues /\ QueueValues
    BY TypeParts DEF IInv
  <1>1. /\ changed' \in [Tasks -> [Pieces -> 0..2]]
        /\ \A u \in Tasks \ {job[w]} : changed'[u] = changed[u]
        /\ \A j \in Pieces \ {y} : changed'[job[w]][j] = changed[job[w]][j]
        /\ changed[job[w]][y] = 0 => changed'[job[w]][y] = 1
        /\ \A u \in Tasks, j \in Pieces : changed[u][j] > 0 => changed'[u][j] > 0
    BY <1>0, ChangeAt DEF ItemValues
  <1>2. ProcessedWasChanged'
    <2> SUFFICES ASSUME NEW t \in Tasks, NEW x \in result[t].processed
                 PROVE  /\ changed'[t][x] > 0
                        /\ kind[t] = "edit" => \A p \in 1..PartsOf[x[1]] : changed'[t][<<x[1], p>>] > 0
                        /\ kind[t] = "redact" => x[1] \in marked' /\ x[1] \notin dirty'
      BY DEF ProcessedWasChanged
    <2>1. x \in Pieces
      BY <1>0 DEF ItemValues
    <2>2. \A p \in 1..PartsOf[x[1]] : <<x[1], p>> \in Pieces
      BY <2>1, PiecesAre
    <2> QED
      BY <1>1, <2>1, <2>2 DEF IInv, RecordSide, ResultsAreTrue, ProcessedWasChanged
  <1>3. \A t \in Tasks : status[t] = "COMPLETE" /\ t \notin overlapped => changed'[t] = changed[t]
    BY <1>1, NoTaskAssumption DEF IInv, WorkerSide, SoleInv
  <1>4. ChangedIsAccountedFor'
    BY <1>3 DEF IInv, RecordSide, ResultsAreTrue, ChangedIsAccountedFor
  <1>5. SubTasksFollow'
    BY <1>3 DEF IInv, RecordSide, ResultsAreTrue, SubTasksFollow, Claimed, WithSubTasks
  <1>6. WatchIsAllOrNothing'
    BY <1>1 DEF IInv, RecordSide, ResultsAreTrue, WatchIsAllOrNothing
  <1>7. RepeatsNeedAnOverlap'
    <2> SUFFICES ASSUME NEW t \in Tasks, NEW x \in Pieces, changed'[t][x] > 1
                 PROVE  \/ kind[t] \in {"edit", "move", "redact"} /\ t \in overlapped
                        \/ kind[t] = "edit" /\ x \in touched
      BY DEF RepeatsNeedAnOverlap
    <2>1. CASE t = job[w] /\ x = y
      BY <1>1, <2>1
    <2>2. CASE ~(t = job[w] /\ x = y)
      BY <1>1, <2>2 DEF IInv, RecordSide, RepeatsNeedAnOverlap
    <2> QED
      BY <2>1, <2>2
  <1> QED
    BY <1>2, <1>4, <1>5, <1>6, <1>7 DEF ResultsAreTrue

(***************************************************************************)
(* The command refuses a piece: the task has not changed the item, or has  *)
(* reported it, if nobody else was at it.                                  *)
(***************************************************************************)
LEMMA ApplyRefusedIInv ==
    ASSUME IInv, NEW w \in Workers, ApplyRefused(w)
    PROVE  IInv'
  <1>1. /\ UNCHANGED <<kind, status, order, req, gate, counted, result, mails, visible, recorded,
                       held, deletedBy, marked, dirty, job, at, processed, lines,
                       changed, botched, overlapped, torn, touched, late, faults>>
        /\ pc[w] = "apply" /\ pc' = [pc EXCEPT ![w] = "progress"]
        /\ part' = [part EXCEPT ![w] = 1]
        /\ failed' = [failed EXCEPT ![w] = @ \cup {Item(w)}]
    BY DEF ApplyRefused, Rest, Go, Add, queue, requests, items, history
  <1>s. stale' = stale
    BY DEF ApplyRefused, queue
  <1>2. /\ job[w] \in Tasks /\ at[w] \in Items /\ OneWorker(w)
        /\ QueueValues /\ ItemValues /\ WorkerValues
        /\ Item(w) \in Pieces
    BY <1>1, AtItem
  <1>3. ItemValues' /\ WorkerValues'
    BY <1>1, <1>2 DEF ItemValues, WorkerValues, Piece
  <1>4. Stays(w) /\ Grows
    BY <1>1, <1>2, <1>s DEF Stays, Grows, Idles, WorkerValues
  <1>5. RecordSide'
    BY <1>1, RecordsStay
  <1>6. pc'[w] = "progress" /\ part'[w] = 1 /\ failed'[w] = failed[w] \cup {Item(w)}
    BY <1>1, <1>2 DEF WorkerValues
  <1>7. AtJob(w)' /\ LateOf(w)' /\ WorkOf(w)' /\ FreshOf(w)'
    BY <1>1, <1>2, <1>6 DEF OneWorker, AtJob, LateOf, WorkOf, FreshOf
  <1>8. ReportOf(w)'
    <2> SUFFICES ASSUME job[w] \notin overlapped, kind[job[w]] \in Ordered, NEW i \in Items,
                        Past(w, i)', changed[job[w]][<<i, 1>>] > 0
                 PROVE  <<i, 1>> \in processed[w] \/ (<<i, 1>> \in failed'[w] /\ <<job[w], i>> \in botched)
      BY <1>1, <1>6 DEF ReportOf
    <2>1. part[w] = 1 => i # at[w]
      <3>1. part[w] = 1 => 1 \in part[w]..PartsOf[at[w]]
        BY <1>2, PiecesAre
      <3> QED
        BY <1>1, <1>2, <3>1 DEF OneWorker, FreshOf, Ordered, Item
    <2>2. Past(w, i) \/ (i = at[w] /\ part[w] # 1)
      BY <1>1, <2>1 DEF Past
    <2> QED
      BY <1>1, <1>2, <1>6, <2>2 DEF OneWorker, ReportOf
  <1>9. FollowOf(w)'
    <2> SUFFICES ASSUME job[w] \notin overlapped, kind[job[w]] = "move", status[job[w]] = "RUNNING",
                        NEW i \in Items, Past(w, i)', <<i, 1>> \in processed[w] \ failed'[w]
                 PROVE  <<job[w], i>> \in torn \/ WithSubTasks(job[w], i)
      BY <1>1 DEF FollowOf, WithSubTasks
    <2>1. i # at[w] /\ Past(w, i) /\ <<i, 1>> \notin failed[w]
      BY <1>1, <1>6 DEF Past, Item
    <2> QED
      BY <1>1, <1>2, <2>1 DEF OneWorker, FollowOf
  <1>10. Begun(w) \subseteq Begun(w)'
    BY <1>1, <1>6 DEF Begun, Item
  <1>11. \A t \in Tasks : t = job[w] => BegunOf(t)'
    BY <1>1, <1>4, <1>10, BegunKept
  <1> QED
    BY <1>1, <1>3, <1>4, <1>5, <1>7, <1>8, <1>9, <1>11, StepIInv DEF OneWorker

(***************************************************************************)
(* A piece of an edit is as it should be: the worker goes on.              *)
(***************************************************************************)
LEMMA ApplyHeldIInv ==
    ASSUME IInv, NEW w \in Workers, ApplyHeld(w)
    PROVE  IInv'
  <1>1. /\ UNCHANGED <<kind, status, order, req, gate, counted, result, mails, visible, recorded,
                       held, deletedBy, marked, dirty, job, at, failed, lines,
                       changed, botched, overlapped, torn, touched, late, faults>>
        /\ pc[w] = "apply" /\ kind[job[w]] = "edit" /\ part[w] # 1
        /\ <<job[w], Piece(w)>> \in held
        /\ processed' = IF part[w] = PartsOf[at[w]] THEN [processed EXCEPT ![w] = @ \cup {Item(w)}] ELSE processed
        /\ \/ /\ part[w] < PartsOf[at[w]] /\ pc' = [pc EXCEPT ![w] = "apply"]
              /\ part' = [part EXCEPT ![w] = part[w] + 1]
           \/ /\ pc' = [pc EXCEPT ![w] = "progress"]
              /\ part' = [part EXCEPT ![w] = 1]
    BY DEF ApplyHeld, Is, Held, Piece, ReportEdit, Add, Move, Take, Rest, Go, queue, requests, items, history
  <1>s. stale' = stale
    BY DEF ApplyHeld, queue
  <1>2. /\ job[w] \in Tasks /\ at[w] \in Items /\ OneWorker(w)
        /\ QueueValues /\ ItemValues /\ WorkerValues
        /\ Item(w) \in Pieces /\ Piece(w) \in Pieces
        /\ part[w] \in 1..PartsOf[at[w]] /\ PartsOf[at[w]] \in Nat
    BY <1>1, AtItem, PiecesAre
  <1>3. /\ \A v \in Workers \ {w} : Idles(v)
        /\ \/ processed'[w] = processed[w]
           \/ processed'[w] = processed[w] \cup {Item(w)} /\ part[w] = PartsOf[at[w]]
        /\ \/ pc'[w] = "apply" /\ part'[w] = part[w] + 1 /\ part[w] < PartsOf[at[w]]
           \/ pc'[w] = "progress" /\ part'[w] = 1
    BY <1>1, <1>2 DEF WorkerValues, Idles
  <1>4. ItemValues' /\ WorkerValues'
    <2>1. part'[w] \in 1..PartsOf[at[w]]
      BY <1>2, <1>3
    <2>2. Piece(w)' \in Pieces
      BY <1>1, <1>2, <2>1, PiecesAre DEF Piece
    <2>3. part' \in [Workers -> Nat \ {0}] /\ \A v \in Workers : part'[v] = 1 \/ Piece(v)' \in Pieces
      BY <1>1, <1>2, <1>3, <2>1, <2>2 DEF WorkerValues, Idles, Piece
    <2>4. processed' \in [Workers -> SUBSET Pieces]
      BY <1>1, <1>2 DEF WorkerValues
    <2>5. /\ pc' \in [Workers -> {"idle", "look", "apply", "write", "scrub", "record", "progress",
                           "watch", "mail", "complete"}]
          /\ \A v \in Workers : pc'[v] = "idle" <=> job[v] = NoTask
      BY <1>1, <1>2, NoTaskAssumption DEF WorkerValues
    <2> QED
      BY <1>1, <1>2, <2>3, <2>4, <2>5 DEF ItemValues, WorkerValues
  <1>5. Stays(w) /\ Grows
    BY <1>1, <1>3, <1>s DEF Stays, Grows
  <1>6. RecordSide'
    BY <1>1, RecordsStay
  <1>7. AtJob(w)' /\ LateOf(w)' /\ FreshOf(w)' /\ ReportOf(w)' /\ FollowOf(w)'
    <2>1. pc'[w] = "progress" \/ part'[w] # 1
      BY <1>2, <1>3
    <2> QED
      BY <1>1, <1>2, <1>3, <2>1
      DEF OneWorker, AtJob, LateOf, FreshOf, ReportOf, FollowOf, Ordered
  <1>8. WorkOf(w)'
    <2>1. changed[job[w]][Piece(w)] > 0
      BY <1>1, <1>2 DEF IInv, RecordSide, TraceInv, TraceOf
    <2>2. \A q \in 1..part[w] : changed[job[w]][<<at[w], q>>] > 0
      <3>1. \A q \in 1..part[w] : q \in 1..(part[w] - 1) \/ q = part[w]
        BY <1>2
      <3> QED
        BY <1>2, <2>1, <3>1 DEF OneWorker, WorkOf, Piece
    <2>3. \A q \in 1..(part'[w] - 1) : q \in 1..part[w]
      BY <1>2, <1>3
    <2>4. \A x \in processed'[w] :
              /\ changed[job[w]][x] > 0
              /\ \A p \in 1..PartsOf[x[1]] : changed[job[w]][<<x[1], p>>] > 0
      <3>1. 1 \in 1..part[w]
        BY <1>2
      <3>2. changed[job[w]][Item(w)] > 0
        BY <2>2, <3>1 DEF Item
      <3> QED
        BY <1>1, <1>2, <1>3, <2>2, <3>2 DEF OneWorker, WorkOf, Item
    <2> QED
      BY <1>1, <1>3, <2>2, <2>3, <2>4 DEF WorkOf
  <1>9. \A t \in Tasks : t = job[w] => BegunOf(t)'
    BY <1>1 DEF BegunOf
  <1> QED
    BY <1>1, <1>4, <1>5, <1>6, <1>7, <1>8, <1>9, StepIInv DEF OneWorker

(***************************************************************************)
(* The worker changes a piece, and a move records it in the same           *)
(* transaction; it goes on to the next piece or is done with the item, and *)
(* a change that is botched is reported as failed.                         *)
(***************************************************************************)
LEMMA ApplyIInv ==
    ASSUME IInv, NEW w \in Workers,
           ApplyEdit(w) \/ ApplyMove(w) \/ ApplyBotched(w) \/ ApplyDelete(w)
    PROVE  IInv'
  <1>1. /\ UNCHANGED <<kind, status, order, req, gate, counted, result, mails, marked, dirty,
                       job, at, overlapped, torn, touched>>
        /\ pc[w] = "apply" /\ Change(w)
        /\ faults' = faults \/ Fault
        /\ \E x \in {Item(w), Piece(w)} : lines' = lines \/ lines' = Add(lines, w, x)
    BY DEF ApplyEdit, ApplyMove, ApplyBotched, ApplyDelete, queue, requests
  <1>s. stale' = stale
    BY DEF ApplyEdit, ApplyMove, ApplyBotched, ApplyDelete, queue
  <1>2. /\ job[w] \in Tasks /\ at[w] \in Items /\ OneWorker(w)
        /\ QueueValues /\ ItemValues /\ WorkerValues
        /\ Item(w) \in Pieces /\ Piece(w) \in Pieces
        /\ part[w] \in 1..PartsOf[at[w]] /\ PartsOf[at[w]] \in Nat /\ 1 \in 1..PartsOf[at[w]]
        /\ kind[job[w]] \in {"edit", "move", "delete"}
        /\ kind[job[w]] = "delete" => part[w] = 1
    <2>1. /\ job[w] \in Tasks /\ at[w] \in Items /\ OneWorker(w)
          /\ QueueValues /\ ItemValues /\ WorkerValues
          /\ Item(w) \in Pieces /\ Piece(w) \in Pieces
      BY <1>1, AtItem
    <2>2. PartsOf[at[w]] \in Nat \ {0} /\ part[w] \in 1..PartsOf[at[w]]
      BY <2>1, PiecesAre DEF Piece
    <2> QED
      BY <1>1, <2>1, <2>2 DEF OneWorker, AtJob
  <1>3. /\ changed' = [changed EXCEPT ![job[w]][Piece(w)] = Bump(@)]
        /\ late' = IF status[job[w]] = "RUNNING" THEN late ELSE Add(late, w, at[w])
    BY <1>1 DEF Change
  (* What is changed. *)
  <1>4. \/ /\ kind[job[w]] = "edit" /\ UNCHANGED <<recorded, visible, deletedBy>>
           /\ part[w] = 1 \/ <<job[w], Piece(w)>> \notin held
           /\ held' = held \cup {<<job[w], Piece(w)>>}
        \/ /\ kind[job[w]] = "move" /\ UNCHANGED <<held, visible, deletedBy>>
           /\ recorded' = recorded \cup {<<job[w], Piece(w)>>}
        \/ /\ kind[job[w]] = "delete" /\ at[w] \in visible /\ UNCHANGED <<held, recorded>>
           /\ visible' = visible \ {at[w]} /\ deletedBy' = [deletedBy EXCEPT ![at[w]] = job[w]]
    BY DEF ApplyEdit, ApplyMove, ApplyBotched, ApplyDelete, ToEdit, ToMove, Edited, Moved, Is, Held, Piece
  (* Where the worker goes, and what it reports. *)
  <1>5. \/ /\ kind[job[w]] \in {"edit", "move"} /\ part[w] < PartsOf[at[w]]
           /\ Take(w, part[w] + 1) /\ UNCHANGED <<failed, botched>>
           /\ kind[job[w]] = "edit" => processed' = processed
           /\ kind[job[w]] = "move" => processed' = Add(processed, w, Piece(w))
        \/ /\ kind[job[w]] = "edit" /\ part[w] = PartsOf[at[w]]
           /\ Rest(w) /\ UNCHANGED <<failed, botched>>
           /\ processed' = Add(processed, w, Item(w))
        \/ /\ kind[job[w]] = "move" /\ part[w] = PartsOf[at[w]]
           /\ Rest(w) /\ UNCHANGED <<failed, botched>>
           /\ processed' = Add(processed, w, Piece(w))
        \/ /\ kind[job[w]] \in {"edit", "move"} /\ Rest(w)
           /\ failed' = Add(failed, w, Item(w)) /\ botched' = botched \cup {<<job[w], at[w]>>}
           /\ processed' = processed
        \/ /\ kind[job[w]] = "delete" /\ Rest(w) /\ UNCHANGED <<failed, botched>>
           /\ processed' = Add(processed, w, Item(w))
    <2>0. ~(part[w] < PartsOf[at[w]]) <=> part[w] = PartsOf[at[w]]
      BY <1>2
    <2>1. CASE ApplyEdit(w)
      BY <2>0, <2>1 DEF ApplyEdit, ToEdit, Is, ReportEdit, Move
    <2>2. CASE ApplyMove(w)
      BY <2>0, <2>2 DEF ApplyMove, ToMove, Is, Move
    <2>3. CASE ApplyBotched(w)
      BY <2>3 DEF ApplyBotched, ToEdit, ToMove, Is
    <2>4. CASE ApplyDelete(w)
      BY <2>4 DEF ApplyDelete, Is
    <2> QED
      BY <2>1, <2>2, <2>3, <2>4
  <1>6. /\ changed' \in [Tasks -> [Pieces -> 0..2]]
        /\ \A u \in Tasks \ {job[w]} : changed'[u] = changed[u]
        /\ \A x \in Pieces \ {Piece(w)} : changed'[job[w]][x] = changed[job[w]][x]
        /\ changed'[job[w]][Piece(w)] > 0
        /\ \A u \in Tasks, x \in Pieces : changed[u][x] > 0 => changed'[u][x] > 0
    <2>1. changed \in [Tasks -> [Pieces -> 0..2]]
      BY <1>2 DEF ItemValues
    <2>2. changed'[job[w]][Piece(w)] \in {1, 2}
      BY <1>2, <1>3, <2>1, ChangeAt
    <2>3. changed'[job[w]][Piece(w)] > 0
      BY <2>2
    <2> QED
      BY <1>2, <1>3, <2>1, <2>3, ChangeAt
  <1>7. /\ \A v \in Workers \ {w} : Idles(v)
        /\ \/ /\ kind[job[w]] \in {"edit", "move"} /\ part[w] < PartsOf[at[w]]
              /\ pc'[w] = "apply" /\ part'[w] = part[w] + 1
              /\ failed'[w] = failed[w] /\ botched' = botched
              /\ kind[job[w]] = "edit" => processed'[w] = processed[w]
              /\ kind[job[w]] = "move" => processed'[w] = processed[w] \cup {Piece(w)}
           \/ /\ kind[job[w]] \in {"edit", "move"} /\ part[w] = PartsOf[at[w]]
              /\ pc'[w] = "progress" /\ part'[w] = 1
              /\ failed'[w] = failed[w] /\ botched' = botched
              /\ kind[job[w]] = "edit" => processed'[w] = processed[w] \cup {Item(w)}
              /\ kind[job[w]] = "move" => processed'[w] = processed[w] \cup {Piece(w)}
           \/ /\ kind[job[w]] \in {"edit", "move"}
              /\ pc'[w] = "progress" /\ part'[w] = 1 /\ processed'[w] = processed[w]
              /\ failed'[w] = failed[w] \cup {Item(w)} /\ botched' = botched \cup {<<job[w], at[w]>>}
           \/ /\ kind[job[w]] = "delete"
              /\ pc'[w] = "progress" /\ part'[w] = 1 /\ processed'[w] = processed[w] \cup {Item(w)}
              /\ failed'[w] = failed[w] /\ botched' = botched
        /\ late'[w] \subseteq late[w] \cup {at[w]}
        /\ status[job[w]] = "RUNNING" => late'[w] = late[w]
    <2>1. \A v \in Workers \ {w} : Idles(v)
      BY <1>1, <1>2, <1>3, <1>5 DEF WorkerValues, Idles, Add, Take, Rest, Go
    <2>2. late'[w] \subseteq late[w] \cup {at[w]} /\ (status[job[w]] = "RUNNING" => late'[w] = late[w])
      BY <1>2, <1>3 DEF WorkerValues, Add
    <2> QED
      BY <1>2, <1>5, <2>1, <2>2 DEF WorkerValues, Add, Take, Rest, Go
  <1>8. ItemValues'
    <2>1. recorded' \subseteq Tasks \X Pieces /\ held' \subseteq Tasks \X Pieces
      BY <1>2, <1>4 DEF ItemValues
    <2>2. visible' \subseteq Items /\ deletedBy' \in [Items -> Tasks \cup {NoTask}]
      BY <1>2, <1>4 DEF ItemValues
    <2>3. botched' \subseteq Tasks \X Items
      BY <1>2, <1>5 DEF ItemValues
    <2> QED
      BY <1>1, <1>2, <1>6, <2>1, <2>2, <2>3 DEF ItemValues
  <1>9. WorkerValues'
    <2>1. part'[w] \in 1..PartsOf[at[w]]
      BY <1>2, <1>7
    <2>2. Piece(w)' \in Pieces
      BY <1>1, <1>2, <2>1, PiecesAre DEF Piece
    <2>3. part' \in [Workers -> Nat \ {0}] /\ \A v \in Workers : part'[v] = 1 \/ Piece(v)' \in Pieces
      <3>1. part' \in [Workers -> Nat \ {0}]
        BY <1>2, <1>5 DEF WorkerValues, Take, Rest
      <3> QED
        BY <1>1, <1>2, <1>7, <2>2, <3>1 DEF WorkerValues, Idles, Piece
    <2>4. processed' \in [Workers -> SUBSET Pieces] /\ failed' \in [Workers -> SUBSET Pieces]
      BY <1>2, <1>5 DEF WorkerValues, Add
    <2>5. lines' \in [Workers -> SUBSET Pieces]
      BY <1>1, <1>2 DEF WorkerValues, Add
    <2>6. late' \in [Workers -> SUBSET Items]
      BY <1>2, <1>3 DEF WorkerValues, Add
    <2>7. /\ pc' \in [Workers -> {"idle", "look", "apply", "write", "scrub", "record", "progress",
                           "watch", "mail", "complete"}]
          /\ \A v \in Workers : pc'[v] = "idle" <=> job[v] = NoTask
      <3>1. pc' = [pc EXCEPT ![w] = "apply"] \/ pc' = [pc EXCEPT ![w] = "progress"]
        BY <1>5 DEF Take, Rest, Go
      <3> QED
        BY <1>2, <3>1, NoTaskAssumption DEF WorkerValues
    <2> QED
      BY <1>1, <1>2, <2>3, <2>4, <2>5, <2>6, <2>7 DEF WorkerValues
  <1>10. Stays(w) /\ Grows
    <2>1. botched \subseteq botched'
      BY <1>5
    <2> QED
      BY <1>1, <1>6, <1>7, <1>s, <2>1 DEF Stays, Grows
  <1>11. /\ TraceOf(job[w], Piece(w))
         /\ changed[job[w]][Piece(w)] \in 0..2
         /\ Piece(w)[1] = at[w]
    BY <1>2 DEF IInv, RecordSide, TraceInv, ItemValues, Piece
  <1>12. ResultsAreTrue' /\ RepeatsNeedAnOverlap'
    <2>1. \/ kind[job[w]] \in {"edit", "move", "redact"} /\ job[w] \in overlapped
          \/ kind[job[w]] = "edit" /\ Piece(w) \in touched
          \/ ~(changed[job[w]][Piece(w)] > 0)
      <3>1. CASE kind[job[w]] = "delete"
        BY <1>4, <1>11, <3>1 DEF TraceOf
      <3>2. CASE kind[job[w]] = "move"
        <4>1. part[w] \in part[w]..PartsOf[at[w]]
          BY <1>2
        <4>2. job[w] \notin overlapped => changed[job[w]][Piece(w)] = 0
          BY <1>1, <1>2, <3>2, <4>1 DEF OneWorker, FreshOf, Piece
        <4> QED
          BY <1>11, <3>2, <4>2
      <3>3. CASE kind[job[w]] = "edit" /\ part[w] = 1
        <4>1. Item(w) = Piece(w)
          BY <3>3 DEF Item, Piece
        <4>2. job[w] \notin overlapped => changed[job[w]][Piece(w)] = 0 \/ Piece(w) \in touched
          BY <1>1, <1>2, <3>3, <4>1 DEF OneWorker, FreshOf
        <4> QED
          BY <1>11, <3>3, <4>2
      <3>4. CASE kind[job[w]] = "edit" /\ part[w] # 1
        BY <1>4, <1>11, <3>4 DEF TraceOf
      <3> QED
        BY <1>2, <3>1, <3>2, <3>3, <3>4
    <2>2. \/ kind[job[w]] \in {"edit", "move", "redact"} /\ job[w] \in overlapped
          \/ kind[job[w]] = "edit" /\ Piece(w) \in touched
          \/ changed[job[w]][Piece(w)] = 0
      BY <1>11, <2>1
    <2> QED
      BY <1>1, <1>2, <1>3, <1>10, <2>2, ChangeReports DEF Grows
  <1>13. changed'[job[w]][Item(w)] > 0 /\ \A q \in 1..part[w] : changed'[job[w]][<<at[w], q>>] > 0
    <2>1. \A q \in 1..part[w] : q \in 1..(part[w] - 1) \/ q = part[w]
      BY <1>2
    <2>2. \A q \in 1..part[w] : q \in 1..PartsOf[at[w]]
      BY <1>2
    <2>3. \A q \in 1..part[w] : changed'[job[w]][<<at[w], q>>] > 0
      BY <1>2, <1>6, <2>1, <2>2, PiecesAre DEF OneWorker, WorkOf, Piece
    <2>4. 1 \in 1..part[w]
      BY <1>2
    <2> QED
      BY <2>3, <2>4 DEF Item
  <1>14. TraceInv'
    <2>1. ASSUME NEW t \in Tasks, NEW x \in Pieces PROVE TraceOf(t, x)'
      <3>0. x[1] \in Items /\ <<x[1], 1>> \in Pieces
        BY PiecesAre
      <3>1. CASE t = job[w] /\ x = Piece(w)
        <4>1. changed'[t][x] > 0 /\ (kind[t] = "move" => changed'[t][<<x[1], 1>>] > 0)
          BY <1>6, <1>11, <1>13, <3>1 DEF Item
        <4>2. x[1] = at[w]
          BY <1>11, <3>1
        <4> QED
          BY <1>1, <1>2, <1>4, <3>1, <4>1, <4>2 DEF TraceOf, IInv, RecordSide, TraceInv, ItemValues
      <3>2. CASE ~(t = job[w] /\ x = Piece(w))
        <4>1. /\ changed'[t][x] = changed[t][x]
              /\ <<t, x>> \in recorded' <=> <<t, x>> \in recorded
              /\ <<t, x>> \in held' <=> <<t, x>> \in held
              /\ x[1] \in visible' => x[1] \in visible
              /\ changed[t][<<x[1], 1>>] > 0 => changed'[t][<<x[1], 1>>] > 0
          BY <1>1, <1>4, <1>6, <3>0, <3>2
        <4>2. TraceOf(t, x)
          BY DEF IInv, RecordSide, TraceInv
        <4>3. changed[t][x] > 0 /\ kind[t] = "delete" => deletedBy'[x[1]] = t
          <5>1. deletedBy'[x[1]] = deletedBy[x[1]] \/ (x[1] = at[w] /\ at[w] \in visible)
            BY <1>2, <1>4, <3>0 DEF ItemValues
          <5> QED
            BY <4>2, <5>1 DEF TraceOf
        <4> QED
          BY <1>1, <4>1, <4>2, <4>3 DEF TraceOf
      <3> QED
        BY <3>1, <3>2
    <2>2. ASSUME NEW t \in Tasks, NEW i \in Items, deletedBy'[i] = t PROVE changed'[t][<<i, 1>>] > 0
      <3>1. CASE deletedBy'[i] = deletedBy[i]
        <4>1. changed[t][<<i, 1>>] > 0
          BY <2>2, <3>1 DEF IInv, RecordSide, TraceInv
        <4> QED
          BY <1>6, <4>1, PiecesAre
      <3>2. CASE deletedBy'[i] # deletedBy[i]
        <4>1. i = at[w] /\ t = job[w]
          BY <1>2, <1>4, <2>2, <3>2 DEF ItemValues
        <4> QED
          BY <1>13, <4>1 DEF Item
      <3> QED
        BY <3>1, <3>2
    <2> QED
      BY <2>1, <2>2 DEF TraceInv
  <1>15. AtJob(w)' /\ LateOf(w)'
    <2>1. part'[w] = 1 \/ (part'[w] # 1 /\ pc'[w] = "apply" /\ kind[job[w]] \in {"edit", "move"})
      BY <1>7
    <2>2. pc'[w] \in {"apply", "progress"} /\ (pc'[w] = "apply" => part'[w] # 1)
      BY <1>2, <1>7
    <2>3. AtJob(w)'
      BY <1>1, <1>2, <2>1, <2>2 DEF OneWorker, AtJob
    <2>4. \A i \in late'[w] : i = at[w] /\ status[job[w]] \in Final /\ kind[job[w]] # "redact"
      BY <1>1, <1>2, <1>7 DEF OneWorker, AtJob, LateOf
    <2> QED
      BY <1>1, <2>2, <2>3, <2>4 DEF LateOf
  <1>16. WorkOf(w)'
    <2>1. \A x \in Pieces : \A p \in 1..PartsOf[x[1]] : <<x[1], p>> \in Pieces
      BY PiecesAre
    <2>2. ASSUME NEW x \in processed[w]
          PROVE  /\ changed'[job[w]][x] > 0
                 /\ kind[job[w]] = "edit" => \A p \in 1..PartsOf[x[1]] : changed'[job[w]][<<x[1], p>>] > 0
      <3>1. x \in Pieces
        BY <1>2 DEF WorkerValues
      <3> QED
        BY <1>2, <1>6, <2>1, <3>1 DEF OneWorker, WorkOf
    <2>3. ASSUME NEW x \in processed'[w], x \notin processed[w]
          PROVE  /\ changed'[job[w]][x] > 0
                 /\ kind[job[w]] = "edit" => \A p \in 1..PartsOf[x[1]] : changed'[job[w]][<<x[1], p>>] > 0
      <3>1. \/ x = Piece(w) /\ kind[job[w]] # "edit"
            \/ x = Item(w) /\ (kind[job[w]] = "edit" => part[w] = PartsOf[at[w]])
        BY <1>7, <2>3
      <3> QED
        BY <1>6, <1>13, <3>1 DEF Item
    <2>4. \A q \in 1..(part'[w] - 1) : q \in 1..part[w]
      BY <1>2, <1>7
    <2>5. kind[job[w]] # "redact" /\ pc'[w] \notin {"scrub", "record"}
      BY <1>2, <1>7
    <2> QED
      BY <1>1, <1>13, <2>2, <2>3, <2>4, <2>5 DEF WorkOf
  <1>17. FreshOf(w)'
    <2> SUFFICES ASSUME job[w] \notin overlapped, pc'[w] = "apply", kind[job[w]] = "move",
                        NEW q \in part'[w]..PartsOf[at[w]]
                 PROVE  changed'[job[w]][<<at[w], q>>] = 0
      <3>1. pc'[w] = "apply" => kind[job[w]] # "delete" /\ part'[w] # 1
        BY <1>2, <1>7
      <3>2. pc'[w] # "write"
        BY <1>7
      <3> QED
        BY <1>1, <3>1, <3>2 DEF FreshOf
    <2>1. q \in part[w]..PartsOf[at[w]] /\ q # part[w] /\ q \in 1..PartsOf[at[w]]
      BY <1>2, <1>7
    <2>2. changed[job[w]][<<at[w], q>>] = 0
      BY <1>1, <1>2, <2>1 DEF OneWorker, FreshOf
    <2>3. <<at[w], q>> \in Pieces \ {Piece(w)}
      BY <1>2, <2>1, PiecesAre DEF Piece
    <2> QED
      BY <1>6, <2>2, <2>3
  <1>18. ReportOf(w)'
    <2> SUFFICES ASSUME job[w] \notin overlapped, kind[job[w]] \in Ordered, NEW i \in Items,
                        Past(w, i)' \/ (i = at[w] /\ part'[w] # 1), changed'[job[w]][<<i, 1>>] > 0
                 PROVE  <<i, 1>> \in processed'[w] \/ (<<i, 1>> \in failed'[w] /\ <<job[w], i>> \in botched')
      BY <1>1 DEF ReportOf
    <2>1. /\ processed[w] \subseteq processed'[w] /\ failed[w] \subseteq failed'[w]
          /\ botched \subseteq botched'
      BY <1>7, <1>10 DEF Grows
    <2>2. CASE i = at[w] /\ part[w] = 1
      BY <1>7, <2>2 DEF Ordered, Item, Piece
    <2>3. CASE i = at[w] /\ part[w] # 1
      <3>1. 1 \in 1..(part[w] - 1)
        BY <1>2, <2>3
      <3>2. changed[job[w]][<<i, 1>>] > 0
        BY <1>2, <2>3, <3>1 DEF OneWorker, WorkOf
      <3> QED
        BY <1>1, <1>2, <2>1, <2>3, <3>2 DEF OneWorker, ReportOf
    <2>4. CASE i # at[w]
      <3>1. Past(w, i)
        BY <1>1, <2>4 DEF Past
      <3>2. <<i, 1>> \in Pieces \ {Piece(w)}
        BY <2>4, PiecesAre DEF Piece
      <3>3. changed[job[w]][<<i, 1>>] > 0
        BY <1>6, <3>2
      <3> QED
        BY <1>1, <1>2, <2>1, <3>1, <3>3 DEF OneWorker, ReportOf
    <2> QED
      BY <2>2, <2>3, <2>4
  <1>19. \A i \in Items : WithSubTasks(job[w], i) => \A p \in 1..PartsOf[i] : changed'[job[w]][<<i, p>>] > 0
    BY <1>2, <1>6, PiecesAre DEF WithSubTasks
  <1>20. part[w] = PartsOf[at[w]] => \A p \in 1..PartsOf[at[w]] : changed'[job[w]][<<at[w], p>>] > 0
    BY <1>13
  <1>21. FollowOf(w)'
    <2> SUFFICES ASSUME job[w] \notin overlapped, kind[job[w]] = "move", status[job[w]] = "RUNNING",
                        NEW i \in Items, Past(w, i)', <<i, 1>> \in processed'[w] \ failed'[w]
                 PROVE  \/ <<job[w], i>> \in torn
                        \/ \A p \in 1..PartsOf[i] : changed'[job[w]][<<i, p>>] > 0
      BY <1>1 DEF FollowOf, WithSubTasks
    <2>1. CASE i = at[w]
      <3>1. pc'[w] = "progress"
        BY <1>1, <1>2, <2>1, PiecesAre DEF Past
      <3> QED
        BY <1>7, <1>20, <2>1, <3>1 DEF Item
    <2>2. CASE i # at[w]
      <3>1. Past(w, i) /\ <<i, 1>> \in processed[w] \ failed[w]
        BY <1>1, <1>7, <2>2 DEF Past, Item, Piece
      <3>2. <<job[w], i>> \in torn \/ WithSubTasks(job[w], i)
        BY <1>1, <1>2, <3>1 DEF OneWorker, FollowOf
      <3> QED
        BY <1>19, <3>2
    <2> QED
      BY <2>1, <2>2
  <1>22. \A t \in Tasks : t = job[w] => BegunOf(t)'
    <2> SUFFICES ASSUME NEW t \in Tasks, t = job[w], t \notin overlapped, kind[t] = "move",
                        status[t] \notin Final, NEW i \in Items, changed'[t][<<i, 1>>] > 0
                 PROVE  \/ <<t, i>> \in torn \/ WithSubTasks(t, i)'
                        \/ \E v \in Workers : job[v] = t /\ i \in Begun(v)'
      BY <1>1 DEF BegunOf
    <2>1. WithSubTasks(t, i)' <=> \A p \in 1..PartsOf[i] : changed'[job[w]][<<i, p>>] > 0
      BY DEF WithSubTasks
    <2>2. CASE i = at[w]
      <3>1. part'[w] # 1 => part'[w] > 1
        BY <1>2, <1>7
      <3>2. part'[w] # 1 \/ Item(w) \in failed'[w] => i \in Begun(w)'
        BY <1>1, <2>2, <3>1 DEF Begun, Item
      <3>3. part'[w] # 1 \/ Item(w) \in failed'[w] \/ part[w] = PartsOf[at[w]]
        BY <1>2, <1>7
      <3> QED
        BY <1>20, <2>1, <2>2, <3>2, <3>3
    <2>3. CASE i # at[w]
      <3>1. <<i, 1>> \in Pieces \ {Piece(w)}
        BY <2>3, PiecesAre DEF Piece
      <3>2. changed[t][<<i, 1>>] > 0
        BY <1>6, <3>1
      <3>3. \/ <<t, i>> \in torn \/ WithSubTasks(t, i)
            \/ \E v \in Workers : job[v] = t /\ i \in Begun(v)
        BY <3>2 DEF IInv, WorkerSide, BegunOf
      <3>4. \A v \in Workers \ {w} : Begun(v)' = Begun(v)
        BY <1>7, IdleKeepsBegun
      <3>5. i \in Begun(w) => i \in Begun(w)'
        BY <1>7, <2>3 DEF Begun
      <3> QED
        BY <1>19, <2>1, <3>3, <3>4, <3>5
    <2> QED
      BY <2>2, <2>3
  <1>23. RecordSide' /\ OneWorker(w)'
    BY <1>12, <1>14, <1>15, <1>16, <1>17, <1>18, <1>21 DEF RecordSide, OneWorker
  <1> QED
    BY <1>1, <1>6, <1>8, <1>9, <1>10, <1>22, <1>23, StepIInv

(***************************************************************************)
(* A redaction writes the mark, once if nobody else is at the task.        *)
(***************************************************************************)
LEMMA WriteMarkIInv ==
    ASSUME IInv, NEW w \in Workers, WriteMark(w)
    PROVE  IInv'
  <1>1. /\ UNCHANGED <<kind, status, order, req, gate, counted, result, mails, visible, recorded, held,
                       deletedBy, dirty, job, at, part, processed, failed, lines,
                       botched, overlapped, torn, touched, late, faults>>
        /\ pc[w] = "write" /\ pc' = [pc EXCEPT ![w] = "scrub"]
        /\ marked' = marked \cup {at[w]}
        /\ changed' = [changed EXCEPT ![job[w]][Item(w)] = Bump(@)]
    BY DEF WriteMark, Go, queue, requests
  <1>s. stale' = stale
    BY DEF WriteMark, queue
  <1>2. /\ job[w] \in Tasks /\ at[w] \in Items /\ OneWorker(w)
        /\ QueueValues /\ ItemValues /\ WorkerValues /\ Item(w) \in Pieces
    BY <1>1, AtItem
  <1>3. /\ changed' \in [Tasks -> [Pieces -> 0..2]]
        /\ \A u \in Tasks \ {job[w]} : changed'[u] = changed[u]
        /\ \A j \in Pieces \ {Item(w)} : changed'[job[w]][j] = changed[job[w]][j]
        /\ changed'[job[w]][Item(w)] > 0
        /\ \A u \in Tasks, j \in Pieces : changed[u][j] > 0 => changed'[u][j] > 0
    <2>1. changed \in [Tasks -> [Pieces -> 0..2]]
      BY <1>2 DEF ItemValues
    <2>2. changed'[job[w]][Item(w)] \in {1, 2}
      BY <1>1, <1>2, <2>1, ChangeAt
    <2>3. changed'[job[w]][Item(w)] > 0
      BY <2>2
    <2> QED
      BY <1>1, <1>2, <2>1, <2>3, ChangeAt
  <1>4. ItemValues' /\ WorkerValues'
    BY <1>1, <1>2, <1>3 DEF ItemValues, WorkerValues, Piece
  <1>5. Stays(w) /\ Grows
    BY <1>1, <1>2, <1>3, <1>s DEF Stays, Grows, Idles, WorkerValues
  <1>6. kind[job[w]] = "redact" /\ (job[w] \in overlapped \/ changed[job[w]][Item(w)] = 0)
    BY <1>1, <1>2 DEF OneWorker, AtJob, FreshOf
  <1>7. ResultsAreTrue' /\ RepeatsNeedAnOverlap'
    BY <1>1, <1>2, <1>6, ChangeReports
  <1>8. TraceInv'
    <2>1. ASSUME NEW t \in Tasks, NEW x \in Pieces PROVE TraceOf(t, x)'
      <3>1. CASE t = job[w] /\ x = Item(w)
        BY <1>1, <1>3, <1>6, <3>1 DEF TraceOf, Item, IInv, RecordSide, TraceInv
      <3>2. CASE ~(t = job[w] /\ x = Item(w))
        <4>1. changed'[t][x] = changed[t][x] /\ TraceOf(t, x) /\ <<x[1], 1>> \in Pieces
          BY <1>3, <3>2, PiecesAre DEF IInv, RecordSide, TraceInv
        <4> QED
          BY <1>1, <1>3, <4>1 DEF TraceOf
      <3> QED
        BY <3>1, <3>2
    <2>2. ASSUME NEW t \in Tasks, NEW i \in Items, deletedBy[i] = t PROVE changed'[t][<<i, 1>>] > 0
      BY <1>3, <2>2, PiecesAre DEF IInv, RecordSide, TraceInv
    <2> QED
      BY <1>1, <2>1, <2>2 DEF TraceInv
  <1>9. pc'[w] = "scrub"
    BY <1>1, <1>2 DEF WorkerValues
  <1>10. AtJob(w)' /\ LateOf(w)' /\ FreshOf(w)'
    BY <1>1, <1>2, <1>6, <1>9 DEF OneWorker, AtJob, LateOf, FreshOf
  <1>11. WorkOf(w)'
    <2>1. part[w] = 1 /\ processed[w] \subseteq Pieces
      BY <1>1, <1>2 DEF OneWorker, AtJob, WorkerValues
    <2>2. \A x \in processed[w] : changed'[job[w]][x] > 0 /\ x[1] \in marked' /\ x[1] \notin dirty
      BY <1>1, <1>2, <1>3, <1>6, <2>1 DEF OneWorker, WorkOf
    <2>3. \A q \in 1..(part[w] - 1) : FALSE
      BY <2>1
    <2> QED
      BY <1>1, <1>3, <1>6, <1>9, <2>2, <2>3 DEF WorkOf, Item
  <1>12. ReportOf(w)' /\ FollowOf(w)' /\ \A t \in Tasks : t = job[w] => BegunOf(t)'
    BY <1>1, <1>6 DEF ReportOf, FollowOf, BegunOf, Ordered
  <1>13. RecordSide' /\ OneWorker(w)'
    BY <1>7, <1>8, <1>10, <1>11, <1>12 DEF RecordSide, OneWorker
  <1> QED
    BY <1>1, <1>3, <1>4, <1>5, <1>12, <1>13, StepIInv

(***************************************************************************)
(* It scrubs the history and then records the item: what it reports has    *)
(* the mark and a clean history.                                           *)
(***************************************************************************)
LEMMA RedactIInv ==
    ASSUME IInv, NEW w \in Workers, Scrub(w) \/ RecordRedaction(w)
    PROVE  IInv'
  <1>1. /\ UNCHANGED <<kind, status, order, req, gate, counted, result, mails, visible, held,
                       deletedBy, marked, job, at, part, failed, lines, changed, botched, overlapped,
                       torn, touched, late, faults>>
        /\ \/ /\ pc[w] = "scrub" /\ pc' = [pc EXCEPT ![w] = "record"]
              /\ dirty' = dirty \ {at[w]} /\ UNCHANGED <<recorded, processed>>
           \/ /\ pc[w] = "record" /\ pc' = [pc EXCEPT ![w] = "progress"] /\ dirty' = dirty
              /\ recorded' = recorded \cup {<<job[w], Item(w)>>}
              /\ processed' = [processed EXCEPT ![w] = @ \cup {Item(w)}]
    BY DEF Scrub, RecordRedaction, Go, Add, queue, requests, history
  <1>s. stale' = stale
    BY DEF Scrub, RecordRedaction, queue
  <1>2. /\ pc[w] \in {"scrub", "record"}
        /\ job[w] \in Tasks /\ at[w] \in Items /\ OneWorker(w)
        /\ QueueValues /\ ItemValues /\ WorkerValues /\ Item(w) \in Pieces
    BY <1>1, AtItem
  <1>3. ItemValues' /\ WorkerValues'
    <2>1. recorded' \subseteq Tasks \X Pieces /\ dirty' \subseteq Items
      BY <1>1, <1>2 DEF ItemValues
    <2>2. processed' \in [Workers -> SUBSET Pieces]
      BY <1>1, <1>2 DEF WorkerValues
    <2> QED
      BY <1>1, <1>2, <2>1, <2>2 DEF ItemValues, WorkerValues, Piece
  <1>4. Stays(w) /\ Grows
    BY <1>1, <1>2, <1>s DEF Stays, Grows, Idles, WorkerValues
  <1>5. /\ kind[job[w]] = "redact" /\ at[w] \in marked /\ changed[job[w]][Item(w)] > 0
        /\ pc[w] = "record" => at[w] \notin dirty
    BY <1>2 DEF OneWorker, AtJob, WorkOf
  <1>6. ResultsAreTrue' /\ RepeatsNeedAnOverlap'
    BY <1>1, ReportsStay
  <1>7. TraceInv'
    <2>1. /\ recorded \subseteq recorded'
          /\ \A t \in Tasks, x \in Pieces :
                <<t, x>> \in recorded' => <<t, x>> \in recorded \/ (t = job[w] /\ x = Item(w))
      BY <1>1
    <2>2. \A t \in Tasks, x \in Pieces : <<t, x>> \in recorded' => changed[t][x] > 0
      BY <1>5, <2>1 DEF IInv, RecordSide, TraceInv, TraceOf
    <2>3. \A t \in Tasks, x \in Pieces : TraceOf(t, x)'
      BY <1>1, <2>1, <2>2 DEF IInv, RecordSide, TraceInv, TraceOf
    <2> QED
      BY <1>1, <2>3 DEF IInv, RecordSide, TraceInv
  <1>8. \/ pc'[w] = "record" /\ at[w] \notin dirty' /\ processed'[w] = processed[w]
        \/ /\ pc[w] = "record" /\ pc'[w] = "progress" /\ dirty' = dirty
           /\ processed'[w] = processed[w] \cup {Item(w)}
    BY <1>1, <1>2 DEF WorkerValues
  <1>9. AtJob(w)' /\ LateOf(w)' /\ FreshOf(w)'
    BY <1>1, <1>2, <1>5, <1>8 DEF OneWorker, AtJob, LateOf, FreshOf
  <1>10. WorkOf(w)'
    BY <1>1, <1>2, <1>4, <1>5, <1>8 DEF OneWorker, WorkOf, Grows, Item
  <1>11. ReportOf(w)' /\ FollowOf(w)' /\ \A t \in Tasks : t = job[w] => BegunOf(t)'
    BY <1>1, <1>5 DEF ReportOf, FollowOf, BegunOf, Ordered
  <1>12. RecordSide' /\ OneWorker(w)'
    BY <1>6, <1>7, <1>9, <1>10, <1>11 DEF RecordSide, OneWorker
  <1> QED
    BY <1>1, <1>2, <1>3, <1>4, <1>11, <1>12, StepIInv

(***************************************************************************)
(* A worker whose task runs goes on to the next item, and is past this one.*)
(***************************************************************************)
LEMMA ProgressIInv ==
    ASSUME IInv, NEW w \in Workers, Progress(w), Is(w, {"redact"}) \/ status[job[w]] = "RUNNING"
    PROVE  IInv'
  <1>1. /\ UNCHANGED <<kind, status, order, req, gate, counted, result, mails, visible, recorded, held,
                       deletedBy, marked, dirty, job, part, processed, failed, lines,
                       changed, botched, overlapped, torn, touched, late, faults>>
        /\ pc[w] = "progress" /\ (kind[job[w]] = "redact" \/ status[job[w]] = "RUNNING")
        /\ pc' = [pc EXCEPT ![w] = After(w)] /\ at' = [at EXCEPT ![w] = @ + 1]
    BY DEF Progress, Is, Go, Next1, requests, items
  <1>s. stale' = stale \/ stale' = [stale EXCEPT ![job[w]] = FALSE]
    BY DEF Progress, Is
  <1>2. /\ job[w] \in Tasks /\ at[w] \in Items /\ OneWorker(w)
        /\ QueueValues /\ ItemValues /\ WorkerValues
    BY <1>1, AtItem
  <1>3. /\ at[w] \in Nat /\ at[w] + 1 \in 1..(ItemCount + 1) /\ After(w) \in {"look", "mail", "complete"}
        /\ (After(w) \in {"mail", "complete"}) <=> (at[w] + 1 = ItemCount + 1)
    BY <1>2, BoundsAssumption DEF After, Items
  <1>p. part[w] = 1
    BY <1>1, <1>2 DEF OneWorker, AtJob
  <1>4. ItemValues' /\ WorkerValues'
    <2>1. at' \in [Workers -> 1..(ItemCount + 1)] /\ \A v \in Workers \ {w} : at'[v] = at[v]
      BY <1>1, <1>2, <1>3 DEF WorkerValues
    <2>2. pc' \in [Workers -> {"idle", "look", "apply", "write", "scrub", "record", "progress",
                               "watch", "mail", "complete"}]
      BY <1>1, <1>2, <1>3 DEF WorkerValues
    <2>3. \A v \in Workers : pc'[v] = "idle" <=> job'[v] = NoTask
      BY <1>1, <1>2, <1>3 DEF WorkerValues
    <2>4. \A v \in Workers : part'[v] = 1 \/ Piece(v)' \in Pieces
      <3> SUFFICES ASSUME NEW v \in Workers PROVE part'[v] = 1 \/ Piece(v)' \in Pieces
        OBVIOUS
      <3>1. CASE v = w
        BY <1>1, <1>p, <3>1
      <3>2. CASE v # w
        <4>1. at'[v] = at[v] /\ part'[v] = part[v] /\ (part[v] = 1 \/ Piece(v) \in Pieces)
          BY <1>1, <1>2, <2>1, <3>2 DEF WorkerValues
        <4> QED
          BY <4>1 DEF Piece
      <3> QED
        BY <3>1, <3>2
    <2>5. ItemValues'
      BY <1>1, <1>2 DEF ItemValues
    <2>6. UNCHANGED <<job, part, processed, failed, lines, late>>
      BY <1>1
    <2>7. WorkerValues'
      BY <1>2, <2>1, <2>2, <2>3, <2>4, <2>6 DEF WorkerValues
    <2> QED
      BY <2>5, <2>7
  <1>5. Stays(w) /\ Grows
    <2>1. \A v \in Workers \ {w} : pc'[v] = pc[v] /\ at'[v] = at[v]
      BY <1>1, <1>2 DEF WorkerValues
    <2> QED
      BY <1>1, <1>s, <2>1 DEF Stays, Grows, Idles
  <1>6. RecordSide'
    BY <1>1, RecordsStay
  <1>7. pc'[w] = After(w) /\ at'[w] = at[w] + 1
    BY <1>1, <1>2 DEF WorkerValues
  <1>8. AtJob(w)'
    <2>1. /\ status[job[w]] \in {"RUNNING"} \cup Final
          /\ kind[job[w]] # "watch" /\ part[w] = 1
      BY <1>1, <1>2, <1>p DEF OneWorker, AtJob
    <2> QED
      BY <1>1, <1>3, <1>7, <2>1 DEF AtJob
  <1>9. LateOf(w)' /\ WorkOf(w)' /\ FreshOf(w)'
    <2>1. part[w] = 1 /\ late[w] = {}
      BY <1>1, <1>2 DEF OneWorker, AtJob, LateOf, Final
    <2>2. \A q \in 1..(part[w] - 1) : FALSE
      BY <2>1
    <2> QED
      <3>1. LateOf(w)'
        BY <1>1, <2>1 DEF LateOf
      <3>2. WorkOf(w)'
        <4>1. /\ \A x \in processed[w] :
                   /\ changed[job[w]][x] > 0
                   /\ kind[job[w]] = "edit" => \A p \in 1..PartsOf[x[1]] : changed[job[w]][<<x[1], p>>] > 0
                   /\ kind[job[w]] = "redact" => x[1] \in marked /\ x[1] \notin dirty
          BY <1>2 DEF OneWorker, WorkOf
        <4>2. pc'[w] \notin {"scrub", "record"} /\ \A q \in 1..(part[w] - 1) : FALSE
          BY <1>3, <1>7, <2>2
        <4> QED
          BY <1>1, <4>1, <4>2 DEF WorkOf
      <3>3. FreshOf(w)'
        BY <1>3, <1>7 DEF FreshOf
      <3> QED
        BY <3>1, <3>2, <3>3
  <1>11. part[w] = 1
    BY <1>1, <1>2 DEF OneWorker, AtJob
  <1>12. \A i \in Items : Past(w, i)' => Past(w, i)
    BY <1>1, <1>3, <1>7 DEF Past, Items
  <1>13. ReportOf(w)'
    <2>1. pc[w] # "idle" /\ ReportOf(w)
      BY <1>1, <1>2 DEF OneWorker
    <2>2. \A i \in Items : (Past(w, i)' \/ (i = at'[w] /\ part'[w] # 1)) => Past(w, i)
      BY <1>1, <1>11, <1>12
    <2> QED
      BY <1>1, <2>1, <2>2 DEF ReportOf
  <1>14. FollowOf(w)'
    BY <1>1, <1>2, <1>12 DEF OneWorker, FollowOf, WithSubTasks
  <1>15. \A t \in Tasks : t = job[w] => BegunOf(t)'
    <2>1. Begun(w) \subseteq Begun(w)'
      BY <1>1, <1>11 DEF Begun
    <2> QED
      BY <1>1, <1>5, <2>1, BegunKept
  <1> QED
    BY <1>1, <1>4, <1>5, <1>6, <1>8, <1>9, <1>13, <1>14, <1>15, StepIInv DEF OneWorker

(***************************************************************************)
(* The mail of the task is written when all items have been gone over.     *)
(***************************************************************************)
LEMMA MailIInv ==
    ASSUME IInv, NEW w \in Workers, Mail(w)
    PROVE  IInv'
  <1>1. /\ UNCHANGED <<kind, status, order, req, gate, counted, result, visible, recorded, held,
                       deletedBy, marked, dirty, job, at, part, processed, failed, lines,
                       changed, botched, overlapped, torn, touched, late, faults>>
        /\ pc[w] = "mail" /\ pc' = [pc EXCEPT ![w] = "complete"]
        /\ mails' = mails \/ mails' = [mails EXCEPT ![job[w]] = lines[w]]
    BY DEF Mail, Go, queue, requests, items, history
  <1>s. stale' = stale
    BY DEF Mail, queue
  <1>2. /\ job[w] \in Tasks /\ OneWorker(w) /\ QueueValues /\ ItemValues /\ WorkerValues
    BY <1>1, AtItem
  <1>3. ItemValues' /\ WorkerValues'
    BY <1>1, <1>2 DEF ItemValues, WorkerValues, Piece
  <1>4. Stays(w) /\ Grows
    BY <1>1, <1>2, <1>s DEF Stays, Grows, Idles, WorkerValues
  <1>5. RecordSide'
    BY <1>1, RecordsStay
  <1>6. pc'[w] = "complete"
    BY <1>1, <1>2 DEF WorkerValues
  <1>7. AtJob(w)' /\ LateOf(w)' /\ WorkOf(w)' /\ FreshOf(w)'
    BY <1>1, <1>2, <1>6 DEF OneWorker, AtJob, LateOf, WorkOf, FreshOf
  <1>8. ReportOf(w)'
    BY <1>1, <1>2, <1>6 DEF OneWorker, ReportOf, Past
  <1>9. FollowOf(w)'
    BY <1>1, <1>2, <1>6 DEF OneWorker, FollowOf, Past, WithSubTasks
  <1>10. \A t \in Tasks : t = job[w] => BegunOf(t)'
    <2>1. Begun(w) \subseteq Begun(w)'
      BY <1>1 DEF Begun
    <2> QED
      BY <1>1, <1>4, <2>1, BegunKept
  <1> QED
    BY <1>1, <1>3, <1>4, <1>5, <1>7, <1>8, <1>9, <1>10, StepIInv DEF OneWorker

(***************************************************************************)
(* A worker completes a task that still runs, and leaves: it has gone over *)
(* every item, and if it was alone it has reported whatever was changed.   *)
(***************************************************************************)
LEMMA CompleteIInv ==
    ASSUME IInv, NEW w \in Workers, Complete(w), status[job[w]] = "RUNNING"
    PROVE  IInv'
  <1>1. /\ UNCHANGED <<kind, order, req, gate, counted, mails, visible, recorded, held, deletedBy,
                       marked, dirty, changed, botched, overlapped, torn, touched, faults>>
        /\ pc[w] = "complete" /\ Leave(w)
        /\ status' = [status EXCEPT ![job[w]] = "COMPLETE"]
        /\ result' = [result EXCEPT ![job[w]] = Outcome(w)]
    BY DEF Complete, End, requests, items
  <1>s. stale' = [stale EXCEPT ![job[w]] = FALSE]
    BY DEF Complete, End
  <1>2. /\ job[w] \in Tasks /\ OneWorker(w) /\ at[w] = ItemCount + 1 /\ kind[job[w]] # "watch"
        /\ StaleOK /\ QueueValues /\ ItemValues /\ WorkerValues
    BY <1>1, AtItem DEF OneWorker, AtJob
  <1>3. StaleOK'
    BY <1>2, <1>s, SetFlag DEF StaleOK
  <1>4. QueueValues'
    BY <1>1, <1>2 DEF QueueValues, Final
  <1>5. ItemValues' /\ WorkerValues'
    <2>1. Outcome(w) \in [processed : SUBSET Pieces, failed : SUBSET Pieces]
      BY <1>2 DEF Outcome, WorkerValues
    <2>2. ItemValues'
      BY <1>1, <1>2, <2>1 DEF ItemValues
    <2>3. WorkerValues'
      BY <1>1, <1>2, BoundsAssumption DEF WorkerValues, Leave, Piece
    <2> QED
      BY <2>2, <2>3
  <1>6. /\ \A t \in Tasks : Moves(t)
        /\ \A t \in Tasks \ {job[w]} : status'[t] = status[t] /\ result'[t] = result[t]
        /\ result'[job[w]].processed = processed[w] /\ result'[job[w]].failed = failed[w]
    BY <1>1, <1>2 DEF Moves, QueueValues, ItemValues, Outcome, Active, Final
  <1>7. QueueSide'
    BY <1>1, <1>6, QueueStays
  <1>8. RecordSide'
    <2>1. ProcessedWasChanged'
      BY <1>1, <1>2, <1>6 DEF IInv, RecordSide, ResultsAreTrue, ProcessedWasChanged, OneWorker, WorkOf
    <2>2. ChangedIsAccountedFor'
      <3> SUFFICES ASSUME NEW t \in Tasks, NEW i \in Items, status'[t] = "COMPLETE",
                          kind[t] \in {"move", "delete"}, changed[t][<<i, 1>>] > 0
                   PROVE  \/ <<i, 1>> \in result'[t].processed \/ t \in overlapped
                          \/ <<i, 1>> \in result'[t].failed /\ <<t, i>> \in botched
        BY <1>1 DEF ChangedIsAccountedFor
      <3>1. CASE t = job[w]
        <4>1. Past(w, i)
          BY <1>2, BoundsAssumption DEF Past, Items
        <4> QED
          BY <1>1, <1>2, <1>6, <3>1, <4>1 DEF OneWorker, ReportOf, Ordered
      <3>2. CASE t # job[w]
        BY <1>6, <3>2 DEF IInv, RecordSide, ResultsAreTrue, ChangedIsAccountedFor
      <3> QED
        BY <3>1, <3>2
    <2>3. WatchIsAllOrNothing'
      BY <1>1, <1>2, <1>6 DEF IInv, RecordSide, ResultsAreTrue, WatchIsAllOrNothing
    <2>4. TraceInv' /\ RepeatsNeedAnOverlap'
      BY <1>1 DEF IInv, RecordSide, TraceInv, TraceOf, RepeatsNeedAnOverlap
    <2>5. SubTasksFollow'
      <3> SUFFICES ASSUME NEW t \in Tasks, status'[t] = "COMPLETE", kind[t] = "move",
                          t \notin overlapped, NEW i \in Items,
                          <<i, 1>> \in result'[t].processed \ result'[t].failed
                   PROVE  <<t, i>> \in torn \/ WithSubTasks(t, i)
        BY <1>1 DEF SubTasksFollow, Claimed, WithSubTasks
      <3>1. CASE t = job[w]
        <4>1. Past(w, i)
          BY <1>2, BoundsAssumption DEF Past, Items
        <4> QED
          BY <1>1, <1>2, <1>6, <3>1, <4>1 DEF OneWorker, FollowOf
      <3>2. CASE t # job[w]
        BY <1>6, <3>2 DEF IInv, RecordSide, ResultsAreTrue, SubTasksFollow, Claimed
      <3> QED
        BY <3>1, <3>2
    <2> QED
      BY <2>1, <2>2, <2>3, <2>4, <2>5 DEF RecordSide, ResultsAreTrue
  <1>9. OneWorker(w)'
    BY <1>1, <1>2, NoTaskAssumption
    DEF WorkerValues, QueueValues, Leave, OneWorker, AtJob, LateOf, WorkOf, FreshOf, ReportOf, FollowOf
  <1>10. WorkerSide'
    <2>1. Grows /\ (\A v \in Workers \ {w} : Idles(v)) /\ job'[w] = NoTask
      BY <1>1, <1>2 DEF Grows, Idles, Leave, WorkerValues
    <2>2. \A t \in Tasks : t = job[w] => BegunOf(t)'
      <3>1. status'[job[w]] \in Final
        BY <1>1, <1>2 DEF QueueValues, Final
      <3> QED
        BY <3>1 DEF BegunOf
    <2> QED
      BY <1>1, <1>6, <1>9, <2>1, <2>2, WorkersStay
  <1> QED
    BY <1>3, <1>4, <1>5, <1>7, <1>8, <1>10, TypePartsAfter DEF IInv

(***************************************************************************)
(* Bulk watching completes its task with the items it changes, which the   *)
(* task has not changed before: only now is it complete.                   *)
(***************************************************************************)
LEMMA WatchIInv ==
    ASSUME IInv, NEW w \in Workers, Watch(w), status[job[w]] = "RUNNING"
    PROVE  IInv'
  <1> DEFINE t == job[w]
             seen == visible \X {1}
             row == [x \in Pieces |-> IF x \in seen THEN Bump(changed[t][x]) ELSE changed[t][x]]
  <1>1. /\ UNCHANGED <<kind, order, req, gate, counted, mails, visible, recorded, held, deletedBy,
                       marked, dirty, botched, overlapped, torn, touched, faults>>
        /\ pc[w] = "watch" /\ Leave(w)
        /\ status' = [status EXCEPT ![t] = "COMPLETE"]
        /\ result' = [result EXCEPT ![t].processed = seen]
        /\ changed' = [changed EXCEPT ![t] = row]
    BY DEF Watch, End, requests, items
  <1>s. stale' = [stale EXCEPT ![t] = FALSE]
    BY DEF Watch, End
  <1>2. /\ t \in Tasks /\ OneWorker(w) /\ kind[t] = "watch"
        /\ StaleOK /\ QueueValues /\ ItemValues /\ WorkerValues
    BY <1>1, AtItem DEF OneWorker, AtJob
  <1>3. StaleOK'
    BY <1>2, <1>s, SetFlag DEF StaleOK
  <1>4. QueueValues'
    BY <1>1, <1>2 DEF QueueValues, Final
  <1>v. seen \subseteq Pieces
    <2> SUFFICES ASSUME NEW i \in visible PROVE <<i, 1>> \in Pieces
      OBVIOUS
    <2>1. i \in Items
      BY <1>2 DEF ItemValues
    <2> QED
      BY <2>1, PiecesAre
  <1>5. /\ row \in [Pieces -> 0..2]
        /\ \A x \in Pieces : /\ row[x] \in {0, 1}
                             /\ x \in seen => row[x] > 0
                             /\ changed[t][x] = 0
    <2>1. \A x \in Pieces : changed[t][x] = 0
      BY <1>2 DEF IInv, RecordSide, ResultsAreTrue, WatchIsAllOrNothing
    <2> QED
      BY <2>1 DEF Bump
  <1> HIDE DEF row, seen
  <1>6. /\ \A u \in Tasks : Moves(u)
        /\ status'[t] = "COMPLETE" /\ result'[t].processed = seen /\ changed'[t] = row
        /\ \A u \in Tasks \ {t} : status'[u] = status[u] /\ result'[u] = result[u] /\ changed'[u] = changed[u]
        /\ \A u \in Tasks : result'[u] \in [processed : SUBSET Pieces, failed : SUBSET Pieces]
    <2>1. /\ result[t] \in [processed : SUBSET Pieces, failed : SUBSET Pieces] /\ seen \subseteq Pieces
          /\ result'[t] = [result[t] EXCEPT !.processed = seen]
          /\ \A u \in Tasks \ {t} : result'[u] = result[u]
      BY <1>1, <1>2, <1>v DEF ItemValues
    <2>2. /\ result'[t] \in [processed : SUBSET Pieces, failed : SUBSET Pieces]
          /\ result'[t].processed = seen
      BY <2>1
    <2>3. /\ \A u \in Tasks : Moves(u)
          /\ status'[t] = "COMPLETE" /\ \A u \in Tasks \ {t} : status'[u] = status[u]
      BY <1>1, <1>2 DEF Moves, QueueValues, Active, Final
    <2>4. changed'[t] = row /\ \A u \in Tasks \ {t} : changed'[u] = changed[u]
      BY <1>1, <1>2 DEF ItemValues
    <2> QED
      BY <1>2, <2>1, <2>2, <2>3, <2>4 DEF ItemValues
  <1>7. ItemValues' /\ WorkerValues'
    <2>1. changed' \in [Tasks -> [Pieces -> 0..2]]
      BY <1>1, <1>2, <1>5 DEF ItemValues
    <2>2. result' \in [Tasks -> [processed : SUBSET Pieces, failed : SUBSET Pieces]]
      <3>1. DOMAIN result' = Tasks /\ result' = [u \in Tasks |-> result'[u]]
        BY <1>1, <1>2 DEF ItemValues
      <3> QED
        BY <1>6, <3>1
    <2>3. ItemValues'
      BY <1>1, <1>2, <2>1, <2>2 DEF ItemValues
    <2>4. WorkerValues'
      BY <1>1, <1>2, BoundsAssumption DEF WorkerValues, Leave, Piece
    <2> QED
      BY <2>3, <2>4
  <1>8. QueueSide'
    BY <1>1, <1>6, QueueStays
  <1>9. RecordSide'
    <2>1. ProcessedWasChanged'
      <3> SUFFICES ASSUME NEW u \in Tasks, NEW x \in result'[u].processed
                   PROVE  /\ changed'[u][x] > 0
                          /\ kind[u] = "edit" => \A p \in 1..PartsOf[x[1]] : changed'[u][<<x[1], p>>] > 0
                          /\ kind[u] = "redact" => x[1] \in marked /\ x[1] \notin dirty
        BY <1>1 DEF ProcessedWasChanged
      <3>1. CASE u = t
        BY <1>2, <1>v, <1>5, <1>6, <3>1
      <3>2. CASE u # t
        BY <1>6, <3>2 DEF IInv, RecordSide, ResultsAreTrue, ProcessedWasChanged
      <3> QED
        BY <3>1, <3>2
    <2>2. ChangedIsAccountedFor'
      BY <1>1, <1>2, <1>6 DEF IInv, RecordSide, ResultsAreTrue, ChangedIsAccountedFor
    <2>3. SubTasksFollow'
      <3>1. \A u \in Tasks : kind[u] = "move" => u # t
        BY <1>2
      <3> QED
        BY <1>1, <1>6, <3>1 DEF IInv, RecordSide, ResultsAreTrue, SubTasksFollow, Claimed, WithSubTasks
    <2>4. WatchIsAllOrNothing'
      BY <1>1, <1>2, <1>6 DEF IInv, RecordSide, ResultsAreTrue, WatchIsAllOrNothing
    <2>5. TraceInv'
      <3>1. ASSUME NEW u \in Tasks, NEW x \in Pieces PROVE TraceOf(u, x)'
        <4>1. TraceOf(u, x)
          BY DEF IInv, RecordSide, TraceInv
        <4>2. CASE u = t
          <5>1. changed[t][x] = 0
            BY <1>5
          <5>2. <<t, x>> \notin recorded /\ <<t, x>> \notin held
            BY <4>1, <4>2, <5>1 DEF TraceOf
          <5> QED
            BY <1>1, <1>2, <4>2, <5>2 DEF TraceOf
        <4>3. CASE u # t
          BY <1>1, <1>6, <4>1, <4>3 DEF TraceOf
        <4> QED
          BY <4>2, <4>3
      <3>2. ASSUME NEW u \in Tasks, NEW i \in Items, deletedBy[i] = u PROVE changed'[u][<<i, 1>>] > 0
        <4>1. changed[u][<<i, 1>>] > 0 /\ <<i, 1>> \in Pieces
          BY <3>2, PiecesAre DEF IInv, RecordSide, TraceInv
        <4>2. u # t
          <5> SUFFICES ASSUME u = t PROVE FALSE
            OBVIOUS
          <5>1. changed[t][<<i, 1>>] = 0
            BY <1>5, <4>1
          <5> QED
            BY <4>1, <5>1
        <4> QED
          BY <1>6, <4>1, <4>2
      <3> QED
        BY <1>1, <3>1, <3>2 DEF TraceInv
    <2>6. RepeatsNeedAnOverlap'
      <3> SUFFICES ASSUME NEW u \in Tasks, NEW x \in Pieces, changed'[u][x] > 1
                   PROVE  \/ kind[u] \in {"edit", "move", "redact"} /\ u \in overlapped
                          \/ kind[u] = "edit" /\ x \in touched
        BY <1>1 DEF RepeatsNeedAnOverlap
      <3>1. u # t
        <4> SUFFICES ASSUME u = t PROVE FALSE
          OBVIOUS
        <4>1. row[x] \in {0, 1}
          BY <1>5
        <4>2. changed'[u][x] = row[x]
          BY <1>6
        <4> QED
          BY <4>1, <4>2
      <3> QED
        BY <1>6, <3>1 DEF IInv, RecordSide, RepeatsNeedAnOverlap
    <2> QED
      BY <2>1, <2>2, <2>3, <2>4, <2>5, <2>6 DEF RecordSide, ResultsAreTrue
  <1>10. OneWorker(w)'
    BY <1>1, <1>2, NoTaskAssumption
    DEF WorkerValues, QueueValues, Leave, OneWorker, AtJob, LateOf, WorkOf, FreshOf, ReportOf, FollowOf
  <1>11. WorkerSide'
    <2>1. (\A v \in Workers \ {w} : Idles(v)) /\ job'[w] = NoTask
      BY <1>1, <1>2 DEF Idles, Leave, WorkerValues
    <2>2. Grows
      <3>1. ASSUME NEW u \in Tasks, NEW x \in Pieces, changed[u][x] > 0 PROVE changed'[u][x] > 0
        <4>1. u # t
          <5> SUFFICES ASSUME u = t PROVE FALSE
            OBVIOUS
          <5>1. changed[t][x] = 0
            BY <1>5
          <5> QED
            BY <3>1, <5>1
        <4> QED
          BY <1>6, <3>1, <4>1
      <3> QED
        BY <1>1, <3>1 DEF Grows
    <2>3. \A u \in Tasks : u = job[w] => BegunOf(u)'
      BY <1>1, <1>2 DEF BegunOf
    <2> QED
      BY <1>1, <1>6, <1>10, <2>1, <2>2, <2>3, WorkersStay
  <1> QED
    BY <1>3, <1>4, <1>7, <1>8, <1>9, <1>11, TypePartsAfter DEF IInv
-----------------------------------------------------------------------------
(* Every step of ApiTasks preserves the invariant. *)
LEMMA NextIInv == IInv /\ [Next]_vars => IInv'
  <1> SUFFICES ASSUME IInv, [Next]_vars PROVE IInv'
    OBVIOUS
  <1>1. ASSUME UNCHANGED vars PROVE IInv'
    <2>1. /\ UNCHANGED <<kind, status, order, req, gate, counted, result, mails, visible, recorded,
                         held, deletedBy, marked, dirty, pc, job, at, part, processed, failed, lines,
                         changed, botched, overlapped, torn, touched, late, faults>>
          /\ UNCHANGED stale
      BY <1>1 DEF vars, queue, requests, items, workers, history
    <2>2. StaleOK /\ QueueValues /\ ItemValues /\ WorkerValues
      BY TypeParts DEF IInv
    <2>3. StaleOK' /\ QueueValues' /\ ItemValues' /\ WorkerValues'
      BY <2>1, <2>2 DEF StaleOK, QueueValues, ItemValues, WorkerValues, Piece
    <2>4. QueueSide' /\ RecordSide' /\ WorkerSide'
      BY <2>1, QueueStays, RecordsStay, AsideStays DEF Moves
    <2> QED
      BY <2>3, <2>4, TypePartsAfter DEF IInv
  <1>2. ASSUME NEW t \in Tasks, Request(t) \/ Lapse(t) \/ Overrun(t) PROVE IInv'
    BY <1>2, CountIInv, RefuseIInv, EnqueueIInv, AsideIInv DEF Request
  <1>3. ASSUME NEW w \in Workers, Work(w) \/ ApplyBotched(w) \/ Crash(w) \/ Fail(w) PROVE IInv'
    <2>1. CASE Claim(w) \/ Look(w) \/ Mail(w)
      BY <2>1, ClaimIInv, LookIInv, MailIInv
    <2>2. CASE Apply(w) \/ ApplyBotched(w)
      BY <2>2, ApplyRefusedIInv, ApplyHeldIInv, ApplyIInv DEF Apply
    <2>3. CASE Redact(w)
      BY <2>3, WriteMarkIInv, RedactIInv, LeaveIInv DEF Redact
    <2>4. CASE Progress(w)
      BY <2>4, ProgressIInv, LeaveIInv
    <2>5. CASE Watch(w) \/ Complete(w)
      BY <2>5, WatchIInv, CompleteIInv, LeaveIInv
    <2>6. CASE Crash(w) \/ Fail(w)
      BY <2>6, LeaveIInv
    <2> QED
      BY <1>3, <2>1, <2>2, <2>3, <2>4, <2>5, <2>6 DEF Work
  <1>4. ASSUME NEW i \in Items, UserRemoves(i) PROVE IInv'
    BY <1>4, AsideIInv
  <1>5. ASSUME NEW x \in Pieces, UserEdits(x) PROVE IInv'
    BY <1>5, AsideIInv
  <1> QED
    BY <1>1, <1>2, <1>3, <1>4, <1>5 DEF Next

(***************************************************************************)
(* The inductive invariant holds in every reachable state.                 *)
(***************************************************************************)
THEOREM IInvHolds == Spec => []IInv
  BY InitIInv, NextIInv, PTL DEF Spec

(***************************************************************************)
(* However many requests there are at once, no more bulk operations than   *)
(* the limit are active, and a worker whose task was cancelled finishes at *)
(* most the item it is at (enqueueBulkIssueTask, and the progress update). *)
(***************************************************************************)
THEOREM QueueIsBounded == Spec => []QueueInv
  <1>1. IInv => QueueInv
    <2> SUFFICES ASSUME IInv PROVE QueueInv
      OBVIOUS
    <2>1. AtMostOneLateItem
      BY DEF IInv, WorkerSide, OneWorker, LateOf, AtMostOneLateItem
    <2> QED
      BY <2>1 DEF IInv, QueueSide, QueueInv
  <1> QED
    BY IInvHolds, <1>1, PTL

(***************************************************************************)
(* What a completed task reports is what was done, whatever crashed, was   *)
(* cancelled or taken over, for any number of items, sub-tasks, workers    *)
(* and faults (ExecuteBulkIssueTask and the redaction job, which run again *)
(* from the start). Only a move that a worker died in the middle of may    *)
(* report an item whose sub-tasks stayed behind.                           *)
(***************************************************************************)
THEOREM RecordedOutcomes == Spec => []ResultsAreTrue
  <1>1. IInv => ResultsAreTrue
    BY DEF IInv, RecordSide
  <1> QED
    BY IInvHolds, <1>1, PTL

(***************************************************************************)
(* Only two workers at one task change a piece of an item twice, or an     *)
(* edit that runs again after another user has changed that piece          *)
(* (bulk_issue_task_items, the deletions in the action log, the values     *)
(* that an edit compares).                                                 *)
(***************************************************************************)
THEOREM RepeatsAreExcused == Spec => []RepeatsNeedAnOverlap
  <1>1. IInv => RepeatsNeedAnOverlap
    BY DEF IInv, RecordSide
  <1> QED
    BY IInvHolds, <1>1, PTL
=============================================================================
