------------------------------ MODULE ApiTasks ------------------------------
(***************************************************************************)
(* The queue of asynchronous tasks (internal/store/api_tasks.go) and the   *)
(* executors of bulk operations (internal/commands/bulk_issues.go), of     *)
(* bulk watching and of redaction (internal/store/jira_redaction.go).      *)
(* Every server replica has one worker. A worker claims the oldest task    *)
(* that is queued, or that nobody has reported progress on for two         *)
(* minutes, and runs it from the start; a task is over only once.          *)
(*                                                                         *)
(* Every task goes over the same work items 1 .. ItemCount in order. The   *)
(* change of an item is made in pieces, a transaction each: a move moves   *)
(* the item and then each of its sub-tasks, an edit sets the type, the     *)
(* fields and the status. Piece 1 of an item stands for the item. "move"   *)
(* is for moves and transitions, which record each piece in                *)
(* bulk_issue_task_items as they change it (a transition, and a move       *)
(* within the project, has one piece); "watch" for the tasks that are one  *)
(* transaction with their completion.                                      *)
(*                                                                         *)
(*   kind      the kind of each task                                       *)
(*   status    api_tasks.status, "none" before the row is inserted         *)
(*   stale     last_update_at is older than two minutes                    *)
(*   order     the tasks by submitted_at                                   *)
(*   req       where the request that submits a task is                    *)
(*   gate      the request that holds the advisory lock of the workspace   *)
(*   counted   the active bulk tasks a request has counted                 *)
(*   result    what a completed task reports                               *)
(*   mails     the items the bulk mail of a task names; {} is no mail      *)
(*   visible   the work items that exist and that the submitter may see    *)
(*   recorded  bulk_issue_task_items and issue_redactions                  *)
(*   held      the pieces of an edit that are as it asks                   *)
(*   deletedBy the task a deletion action of the log names                 *)
(*   marked    items whose text is redacted                                *)
(*   dirty     items whose recorded history holds the text                 *)
(*   pc, job, at, part, processed, failed, lines    each worker: its step, *)
(*             task, item, piece, and the results and mail lines gathered  *)
(*                                                                         *)
(* History:                                                                *)
(*   changed   how often a task has changed a piece (2: more than once)    *)
(*   botched   items whose notification failed after a commit              *)
(*   overlapped  tasks claimed while another worker was still at them      *)
(*   torn      moves that a worker died in between the pieces of an item,  *)
(*             or after an item had failed                                 *)
(*   touched   pieces another user has changed                             *)
(*   late      items a worker has changed since its task stopped running   *)
(*   faults    crashes, overruns and database errors so far                *)
(***************************************************************************)
EXTENDS Naturals, Sequences, FiniteSets

CONSTANTS Tasks, NoTask, Workers, ItemCount, PartsOf, KindsOf, Limit, MaxFaults

Kinds == {"edit", "move", "delete", "watch", "redact"}
Bulk == Kinds \ {"redact"}

ASSUME NoTaskAssumption == NoTask \notin Tasks
ASSUME TasksAssumption == IsFiniteSet(Tasks)
ASSUME KindsAssumption == KindsOf \in [Tasks -> SUBSET Kinds]
ASSUME PartsAssumption == PartsOf \in [1..ItemCount -> Nat \ {0}]
ASSUME BoundsAssumption == /\ ItemCount \in Nat \ {0}
                           /\ Limit \in Nat \ {0}
                           /\ MaxFaults \in Nat

VARIABLES kind, status, stale, order, req, gate, counted, result, mails,
          visible, recorded, held, deletedBy, marked, dirty,
          pc, job, at, part, processed, failed, lines,
          changed, botched, overlapped, torn, touched, late, faults

queue == <<status, stale, order, result>>
requests == <<kind, req, gate, counted>>
items == <<visible, recorded, held, deletedBy, marked, dirty>>
workers == <<pc, job, at, part, processed, failed, lines>>
history == <<changed, botched, overlapped, torn, touched, late, faults>>
vars == <<queue, requests, mails, items, workers, history>>

Items == 1..ItemCount
Pieces == UNION {{i} \X (1..PartsOf[i]) : i \in Items}
Active == {"ENQUEUED", "RUNNING"}
Final == {"COMPLETE", "FAILED", "CANCELLED"}
NoResult == [processed |-> {}, failed |-> {}]

Init ==
    /\ kind \in [Tasks -> Kinds] /\ \A t \in Tasks : kind[t] \in KindsOf[t]
    /\ status = [t \in Tasks |-> "none"]
    /\ stale = [t \in Tasks |-> FALSE]
    /\ order = <<>>
    /\ req = [t \in Tasks |-> "idle"]
    /\ gate = NoTask
    /\ counted = [t \in Tasks |-> 0]
    /\ result = [t \in Tasks |-> NoResult]
    /\ mails = [t \in Tasks |-> {}]
    /\ visible = Items
    /\ recorded = {} /\ held = {}
    /\ deletedBy = [i \in Items |-> NoTask]
    /\ marked = {} /\ dirty = Items
    /\ pc = [w \in Workers |-> "idle"]
    /\ job = [w \in Workers |-> NoTask]
    /\ at = [w \in Workers |-> 1]
    /\ part = [w \in Workers |-> 1]
    /\ processed = [w \in Workers |-> {}]
    /\ failed = [w \in Workers |-> {}]
    /\ lines = [w \in Workers |-> {}]
    /\ changed = [t \in Tasks |-> [x \in Pieces |-> 0]]
    /\ botched = {} /\ overlapped = {} /\ torn = {} /\ touched = {}
    /\ late = [w \in Workers |-> {}]
    /\ faults = 0

(* At most MaxFaults things go wrong. *)
Fault == faults < MaxFaults /\ faults' = faults + 1

(***************************************************************************)
(* Submitting and cancelling.                                              *)
(***************************************************************************)
Enqueue(t) ==
    /\ status' = [status EXCEPT ![t] = "ENQUEUED"]
    /\ order' = Append(order, t)
    /\ req' = [req EXCEPT ![t] = "over"]
    /\ UNCHANGED <<kind, stale, result, mails, items, workers, history>>

ActiveBulk == {t \in Tasks : kind[t] \in Bulk /\ status[t] \in Active}

(* Mutation: without the advisory lock. *)
CountUnlocked(t) ==
    /\ req[t] = "idle" /\ kind[t] \in Bulk
    /\ gate' = t
    /\ req' = [req EXCEPT ![t] = "counted"]
    /\ counted' = [counted EXCEPT ![t] = Cardinality(ActiveBulk)]
    /\ UNCHANGED <<kind, queue, mails, items, workers, history>>

(* The advisory lock of the workspace is taken before the tasks are counted *)
(* and is held to the commit.                                               *)
Count(t) == gate = NoTask /\ CountUnlocked(t)

Admit(t) ==
    /\ req[t] = "counted" /\ counted[t] < Limit
    /\ Enqueue(t)
    /\ gate' = NoTask
    /\ counted' = [counted EXCEPT ![t] = 0]

Refuse(t) ==
    /\ req[t] = "counted" /\ counted[t] >= Limit
    /\ req' = [req EXCEPT ![t] = "over"]
    /\ gate' = NoTask
    /\ counted' = [counted EXCEPT ![t] = 0]
    /\ UNCHANGED <<kind, queue, mails, items, workers, history>>

(* Redactions are not counted. *)
Submit(t) ==
    /\ req[t] = "idle" /\ kind[t] \notin Bulk
    /\ Enqueue(t)
    /\ UNCHANGED <<gate, counted>>

(* The task is over; its last_update_at matters no more.                   *)
End(t, final) ==
    /\ status' = [status EXCEPT ![t] = final]
    /\ stale' = [stale EXCEPT ![t] = FALSE]

Cancel(t) ==
    /\ status[t] \in Active
    /\ End(t, "CANCELLED")
    /\ UNCHANGED <<order, result, requests, mails, items, workers, history>>

(***************************************************************************)
(* Another user deletes an item, or takes the submitter's access to it, or *)
(* changes what an edit has set; once is enough, while a task is under way.*)
(***************************************************************************)
Undisturbed == /\ touched = {} /\ \A j \in Items \ visible : deletedBy[j] # NoTask
               /\ \E w \in Workers : pc[w] # "idle"

UserRemoves(i) ==
    /\ i \in visible /\ Undisturbed
    /\ visible' = visible \ {i}
    /\ UNCHANGED <<queue, requests, mails, recorded, held, deletedBy, marked, dirty,
                   workers, history>>

UserEdits(x) ==
    /\ x[1] \in visible /\ Undisturbed
    /\ \E t \in Tasks : <<t, x>> \in held
    /\ held' = held \ (Tasks \X {x})
    /\ touched' = touched \cup {x}
    /\ UNCHANGED <<queue, requests, mails, visible, recorded, deletedBy, marked, dirty,
                   workers, changed, botched, overlapped, torn, late, faults>>

(***************************************************************************)
(* Claims.                                                                 *)
(***************************************************************************)
AtWork(t) == {w \in Workers : job[w] = t}

Lapse(t) ==
    /\ status[t] = "RUNNING" /\ ~stale[t] /\ AtWork(t) = {}
    /\ stale' = [stale EXCEPT ![t] = TRUE]
    /\ UNCHANGED <<status, order, result, requests, mails, items, workers, history>>

(* A worker needs more than two minutes between two reports of progress.   *)
Overrun(t) ==
    /\ status[t] = "RUNNING" /\ ~stale[t] /\ AtWork(t) # {}
    /\ Fault
    /\ stale' = [stale EXCEPT ![t] = TRUE]
    /\ UNCHANGED <<status, order, result, requests, mails, items, workers,
                   changed, botched, overlapped, torn, touched, late>>

(* Mutation: an abandoned task is never claimed again. *)
ClaimableQueued(t) == status[t] = "ENQUEUED"
Claimable(t) == \/ status[t] = "ENQUEUED"
                \/ status[t] = "RUNNING" /\ stale[t]

Oldest(S) == CHOOSE t \in S :
    \E n \in DOMAIN order : order[n] = t /\ \A m \in 1..(n - 1) : order[m] \notin S

Claim(w) ==
    LET ready == {t \in Tasks : Claimable(t)}
        t == Oldest(ready)
    IN  /\ pc[w] = "idle" /\ ready # {}
        /\ status' = [status EXCEPT ![t] = "RUNNING"]
        /\ stale' = [stale EXCEPT ![t] = FALSE]
        /\ pc' = [pc EXCEPT ![w] = IF kind[t] = "watch" THEN "watch" ELSE "look"]
        /\ job' = [job EXCEPT ![w] = t]
        /\ overlapped' = IF AtWork(t) = {} THEN overlapped ELSE overlapped \cup {t}
        /\ UNCHANGED <<order, result, requests, mails, items, at, part, processed, failed,
                       lines, changed, botched, torn, touched, late, faults>>

(* The worker is free again; what it had gathered is gone. *)
Leave(w) ==
    /\ pc' = [pc EXCEPT ![w] = "idle"]
    /\ job' = [job EXCEPT ![w] = NoTask]
    /\ at' = [at EXCEPT ![w] = 1]
    /\ part' = [part EXCEPT ![w] = 1]
    /\ processed' = [processed EXCEPT ![w] = {}]
    /\ failed' = [failed EXCEPT ![w] = {}]
    /\ lines' = [lines EXCEPT ![w] = {}]
    /\ late' = [late EXCEPT ![w] = {}]

(* The items a worker has begun and not finished, or has seen fail.        *)
Begun(w) == {i \in Items : (i = at[w] /\ part[w] > 1) \/ <<i, 1>> \in failed[w]}

Crash(w) ==
    /\ pc[w] # "idle"
    /\ Fault
    /\ torn' = torn \cup ({job[w]} \X Begun(w))
    /\ Leave(w)
    /\ UNCHANGED <<queue, requests, mails, items, changed, botched, overlapped, touched>>

EndIfRunning(t, final) ==
    IF status[t] = "RUNNING" THEN End(t, final) ELSE UNCHANGED <<status, stale>>

(* A database error ends the execution; the task fails if it still runs.   *)
Fail(w) ==
    /\ pc[w] # "idle"
    /\ Fault
    /\ EndIfRunning(job[w], "FAILED")
    /\ Leave(w)
    /\ UNCHANGED <<order, result, requests, mails, items, changed, botched, overlapped, torn, touched>>

(***************************************************************************)
(* One item of a bulk operation: look it up, change it, report progress.   *)
(***************************************************************************)
Is(w, kinds) == kind[job[w]] \in kinds
Go(w, step) == pc' = [pc EXCEPT ![w] = step]
Item(w) == <<at[w], 1>>
Piece(w) == <<at[w], part[w]>>
Add(set, w, x) == [set EXCEPT ![w] = @ \cup {x}]
Recorded(w) == <<job[w], Item(w)>> \in recorded
Held(w, p) == <<job[w], <<at[w], p>>>> \in held

(* The command goes from piece to piece, the first when p is 1.            *)
Take(w, p) ==
    /\ part' = [part EXCEPT ![w] = p]
    /\ Go(w, "apply")

Rest(w) ==
    /\ part' = [part EXCEPT ![w] = 1]
    /\ Go(w, "progress")

Move(w) == IF part[w] < PartsOf[at[w]] THEN Take(w, part[w] + 1) ELSE Rest(w)

Looked(w) == UNCHANGED <<queue, requests, mails, items, job, at, failed, lines, history>>

(* An item the submitter cannot see counts as inaccessible. *)
LookAtItem(w) ==
    /\ IF at[w] \in visible THEN Take(w, 1) ELSE Rest(w)
    /\ Looked(w) /\ UNCHANGED processed

Processed(w) ==
    /\ processed' = Add(processed, w, Item(w))
    /\ Rest(w)
    /\ Looked(w)

(* An edit reads the type, and leaves out the change of a type it has.     *)
EditPastType(w) ==
    IF PartsOf[at[w]] = 1 THEN Processed(w)
    ELSE Take(w, 2) /\ Looked(w) /\ UNCHANGED processed

LookEdit(w) ==
    /\ pc[w] = "look" /\ Is(w, {"edit"})
    /\ IF at[w] \in visible /\ Held(w, 1) THEN EditPastType(w) ELSE LookAtItem(w)

(* Mutation: the record of moved items is not read. *)
LookMoveAgain(w) ==
    /\ pc[w] = "look" /\ Is(w, {"move"})
    /\ LookAtItem(w)

(* An item this task has moved already is not moved again, and nobody asks *)
(* what became of its sub-tasks.                                           *)
LookMove(w) ==
    /\ pc[w] = "look" /\ Is(w, {"move"})
    /\ IF Recorded(w) THEN Processed(w) ELSE LookAtItem(w)

(* Mutation: any missing item counts as deleted by the task. *)
LookDeleteMissing(w) ==
    /\ pc[w] = "look" /\ Is(w, {"delete"})
    /\ IF at[w] \notin visible THEN Processed(w) ELSE LookAtItem(w)

(* A missing item counts as deleted when the log says this task did it.    *)
LookDelete(w) ==
    /\ pc[w] = "look" /\ Is(w, {"delete"})
    /\ IF at[w] \notin visible /\ deletedBy[at[w]] = job[w]
       THEN Processed(w) ELSE LookAtItem(w)

Bump(n) == IF n = 0 THEN 1 ELSE 2

Change(w) ==
    /\ changed' = [changed EXCEPT ![job[w]][Piece(w)] = Bump(@)]
    /\ late' = IF status[job[w]] = "RUNNING" THEN late ELSE Add(late, w, at[w])

(* The command refuses a piece, or the item is gone by now. What it has    *)
(* done before stays done.                                                 *)
ApplyRefused(w) ==
    /\ pc[w] = "apply"
    /\ failed' = Add(failed, w, Item(w))
    /\ Rest(w)
    /\ UNCHANGED <<queue, requests, mails, items, job, at, processed, lines, history>>

(* The type is set as it was read, fields and status unless they are so.   *)
ToEdit(w) ==
    /\ Is(w, {"edit"}) /\ at[w] \in visible
    /\ part[w] = 1 \/ ~Held(w, part[w])

Edited(w) ==
    /\ held' = held \cup {<<job[w], Piece(w)>>}
    /\ UNCHANGED recorded

ReportEdit(w) ==
    /\ processed' = IF part[w] = PartsOf[at[w]] THEN Add(processed, w, Item(w)) ELSE processed
    /\ Move(w)

ApplyEdit(w) ==
    /\ pc[w] = "apply" /\ ToEdit(w)
    /\ Change(w) /\ Edited(w)
    /\ lines' = Add(lines, w, Item(w))
    /\ ReportEdit(w)
    /\ UNCHANGED <<queue, requests, mails, visible, deletedBy, marked, dirty,
                   job, at, failed, botched, overlapped, torn, touched, faults>>

ApplyHeld(w) ==
    /\ pc[w] = "apply" /\ Is(w, {"edit"}) /\ at[w] \in visible
    /\ part[w] > 1 /\ Held(w, part[w])
    /\ ReportEdit(w)
    /\ UNCHANGED <<queue, requests, mails, items, job, at, failed, lines, history>>

(* A sub-task may be out of the submitter's sight. *)
ToMove(w) == Is(w, {"move"}) /\ (part[w] > 1 \/ at[w] \in visible)

(* The record of a move or transition commits together with the change.    *)
Moved(w) ==
    /\ recorded' = recorded \cup {<<job[w], Piece(w)>>}
    /\ UNCHANGED held

ApplyMove(w) ==
    /\ pc[w] = "apply" /\ ToMove(w)
    /\ Change(w) /\ Moved(w)
    /\ processed' = Add(processed, w, Piece(w))
    /\ lines' = Add(lines, w, Piece(w))
    /\ Move(w)
    /\ UNCHANGED <<queue, requests, mails, visible, deletedBy, marked, dirty,
                   job, at, failed, botched, overlapped, torn, touched, faults>>

(* A piece is committed and what follows it fails: the item is reported as *)
(* failed, the piece is not reported, and the rest is not tried.           *)
ApplyBotched(w) ==
    /\ pc[w] = "apply"
    /\ Fault
    /\ Change(w)
    /\ \/ ToEdit(w) /\ Edited(w)
       \/ ToMove(w) /\ Moved(w)
    /\ botched' = botched \cup {<<job[w], at[w]>>}
    /\ failed' = Add(failed, w, Item(w))
    /\ Rest(w)
    /\ UNCHANGED <<queue, requests, mails, visible, deletedBy, marked, dirty,
                   job, at, processed, lines, overlapped, torn, touched>>

ApplyDelete(w) ==
    /\ pc[w] = "apply" /\ Is(w, {"delete"}) /\ at[w] \in visible
    /\ Change(w)
    /\ visible' = visible \ {at[w]}
    /\ deletedBy' = [deletedBy EXCEPT ![at[w]] = job[w]]
    /\ processed' = Add(processed, w, Item(w))
    /\ lines' = Add(lines, w, Item(w))
    /\ Rest(w)
    /\ UNCHANGED <<queue, requests, mails, recorded, held, marked, dirty,
                   job, at, failed, botched, overlapped, torn, touched, faults>>

Next1(w) == at' = [at EXCEPT ![w] = @ + 1]
After(w) == IF at[w] < ItemCount THEN "look"
            ELSE IF Is(w, {"redact"}) THEN "complete" ELSE "mail"

(* Reporting progress renews the claim, and ends an execution whose task   *)
(* is not running any more. A redaction reports none.                      *)
Progress(w) ==
    /\ pc[w] = "progress"
    /\ \/ /\ Is(w, {"redact"})
          /\ Next1(w) /\ Go(w, After(w))
          /\ UNCHANGED <<stale, job, part, processed, failed, lines, late>>
       \/ /\ ~Is(w, {"redact"}) /\ status[job[w]] = "RUNNING"
          /\ Next1(w) /\ Go(w, After(w))
          /\ stale' = [stale EXCEPT ![job[w]] = FALSE]
          /\ UNCHANGED <<job, part, processed, failed, lines, late>>
       \/ /\ ~Is(w, {"redact"}) /\ status[job[w]] # "RUNNING"
          /\ Leave(w)
          /\ UNCHANGED stale
    /\ UNCHANGED <<status, order, result, requests, mails, items,
                   changed, botched, overlapped, torn, touched, faults>>
(***************************************************************************)
(* Redaction: the text, the history and the record are three steps.        *)
(***************************************************************************)
LookRedact(w) ==
    /\ pc[w] = "look" /\ Is(w, {"redact"})
    /\ Go(w, IF at[w] \notin visible \/ Recorded(w) \/ at[w] \in marked
             THEN "progress" ELSE "write")
    /\ UNCHANGED <<queue, requests, mails, items, job, at, part, processed, failed, lines, history>>

(* If the item is gone by now the task fails. *)
WriteMark(w) ==
    /\ pc[w] = "write" /\ at[w] \in visible
    /\ marked' = marked \cup {at[w]}
    /\ changed' = [changed EXCEPT ![job[w]][Item(w)] = Bump(@)]
    /\ Go(w, "scrub")
    /\ UNCHANGED <<queue, requests, mails, visible, recorded, held, deletedBy, dirty,
                   job, at, part, processed, failed, lines, botched, overlapped, torn, touched, late, faults>>

WriteFails(w) ==
    /\ pc[w] = "write" /\ at[w] \notin visible
    /\ EndIfRunning(job[w], "FAILED")
    /\ Leave(w)
    /\ UNCHANGED <<order, result, requests, mails, items, changed, botched, overlapped, torn, touched, faults>>

Scrub(w) ==
    /\ pc[w] = "scrub"
    /\ dirty' = dirty \ {at[w]}
    /\ Go(w, "record")
    /\ UNCHANGED <<queue, requests, mails, visible, recorded, held, deletedBy, marked,
                   job, at, part, processed, failed, lines, history>>

RecordRedaction(w) ==
    /\ pc[w] = "record"
    /\ recorded' = recorded \cup {<<job[w], Item(w)>>}
    /\ processed' = Add(processed, w, Item(w))
    /\ Go(w, "progress")
    /\ UNCHANGED <<queue, requests, mails, visible, held, deletedBy, marked, dirty,
                   job, at, part, failed, lines, history>>

(***************************************************************************)
(* The end of an execution.                                                *)
(***************************************************************************)
(* Bulk watching: the items and the completion are one transaction.        *)
Watch(w) ==
    /\ pc[w] = "watch"
    /\ IF status[job[w]] = "RUNNING"
       THEN /\ End(job[w], "COMPLETE")
            /\ result' = [result EXCEPT ![job[w]].processed = visible \X {1}]
            /\ changed' = [changed EXCEPT ![job[w]] =
                             [x \in Pieces |-> IF x \in visible \X {1} THEN Bump(@[x]) ELSE @[x]]]
       ELSE UNCHANGED <<status, stale, result, changed>>
    /\ Leave(w)
    /\ UNCHANGED <<order, requests, mails, items, botched, overlapped, torn, touched, faults>>

(* One mail per recipient and task: the dedupe key keeps the first.        *)
Mail(w) ==
    /\ pc[w] = "mail"
    /\ mails' = IF mails[job[w]] = {} THEN [mails EXCEPT ![job[w]] = lines[w]] ELSE mails
    /\ Go(w, "complete")
    /\ UNCHANGED <<queue, requests, items, job, at, part, processed, failed, lines, history>>

Outcome(w) == [processed |-> processed[w], failed |-> failed[w]]

Complete(w) ==
    /\ pc[w] = "complete"
    /\ IF status[job[w]] = "RUNNING"
       THEN /\ End(job[w], "COMPLETE")
            /\ result' = [result EXCEPT ![job[w]] = Outcome(w)]
       ELSE UNCHANGED <<status, stale, result>>
    /\ Leave(w)
    /\ UNCHANGED <<order, requests, mails, items, changed, botched, overlapped, torn, touched, faults>>

(***************************************************************************)
(* The specification. A worker that is up keeps working, and the two       *)
(* minutes of a task without a worker do pass; nobody has to submit or     *)
(* cancel anything.                                                        *)
(***************************************************************************)
Look(w) == LookEdit(w) \/ LookMove(w) \/ LookDelete(w) \/ LookRedact(w)
Apply(w) == ApplyRefused(w) \/ ApplyEdit(w) \/ ApplyHeld(w) \/ ApplyMove(w) \/ ApplyDelete(w)
Redact(w) == WriteMark(w) \/ WriteFails(w) \/ Scrub(w) \/ RecordRedaction(w)
Work(w) == Claim(w) \/ Look(w) \/ Apply(w) \/ Redact(w) \/ Progress(w)
           \/ Watch(w) \/ Mail(w) \/ Complete(w)

Request(t) == Count(t) \/ Admit(t) \/ Refuse(t) \/ Submit(t) \/ Cancel(t)

Next ==
    \/ \E t \in Tasks : Request(t) \/ Lapse(t) \/ Overrun(t)
    \/ \E w \in Workers : Work(w) \/ ApplyBotched(w) \/ Crash(w) \/ Fail(w)
    \/ \E i \in Items : UserRemoves(i)
    \/ \E x \in Pieces : UserEdits(x)

Spec == Init /\ [][Next]_vars

Fairness == /\ \A w \in Workers : WF_vars(Work(w))
            /\ \A t \in Tasks : WF_vars(Lapse(t))

FairSpec == Spec /\ Fairness

(***************************************************************************)
(* Properties.                                                             *)
(***************************************************************************)
(* Types; a worker has a task exactly when it is at a step of one.         *)
TypeOK ==
    /\ kind \in [Tasks -> Kinds]
    /\ status \in [Tasks -> Active \cup Final \cup {"none"}]
    /\ stale \in [Tasks -> BOOLEAN]
    /\ order \in Seq(Tasks)
    /\ req \in [Tasks -> {"idle", "counted", "over"}]
    /\ gate \in Tasks \cup {NoTask}
    /\ counted \in [Tasks -> Nat]
    /\ result \in [Tasks -> [processed : SUBSET Pieces, failed : SUBSET Pieces]]
    /\ mails \in [Tasks -> SUBSET Pieces]
    /\ visible \subseteq Items
    /\ recorded \subseteq Tasks \X Pieces /\ held \subseteq Tasks \X Pieces
    /\ deletedBy \in [Items -> Tasks \cup {NoTask}]
    /\ marked \subseteq Items /\ dirty \subseteq Items
    /\ pc \in [Workers -> {"idle", "look", "apply", "write", "scrub", "record", "progress",
                           "watch", "mail", "complete"}]
    /\ job \in [Workers -> Tasks \cup {NoTask}]
    /\ \A w \in Workers : pc[w] = "idle" <=> job[w] = NoTask
    /\ at \in [Workers -> 1..(ItemCount + 1)]
    /\ part \in [Workers -> Nat \ {0}]
    /\ \A w \in Workers : part[w] = 1 \/ Piece(w) \in Pieces
    /\ processed \in [Workers -> SUBSET Pieces]
    /\ failed \in [Workers -> SUBSET Pieces]
    /\ lines \in [Workers -> SUBSET Pieces]
    /\ changed \in [Tasks -> [Pieces -> 0..2]]
    /\ botched \subseteq Tasks \X Items /\ torn \subseteq Tasks \X Items
    /\ overlapped \subseteq Tasks /\ touched \subseteq Pieces
    /\ late \in [Workers -> SUBSET Items]
    /\ faults \in 0..MaxFaults

(* The limit on active operations, and what a cancelled one may still do.  *)
ActiveIsBounded == Cardinality(ActiveBulk) <= Limit
AtMostOneLateItem == \A w \in Workers : \A i, j \in late[w] : i = j

(***************************************************************************)
(* However many requests submit bulk operations at once, no more than the  *)
(* limit are queued or running: the count and the insert of each are under *)
(* one advisory lock (enqueueBulkIssueTask). Cancelling stops an operation *)
(* between items: once its task is not running any more, a worker finishes *)
(* at most the item it is at (the update of the progress that finds no     *)
(* running task, api_tasks.go). And everything keeps its type.             *)
(***************************************************************************)
QueueInv == TypeOK /\ ActiveIsBounded /\ AtMostOneLateItem

(* Processed items were really changed, be it in an execution that crashed *)
(* since: an edited one in every piece, and the history of a redacted one  *)
(* no longer holds the text.                                               *)
ProcessedWasChanged ==
    \A t \in Tasks : \A x \in result[t].processed :
        /\ changed[t][x] > 0
        /\ kind[t] = "edit" => \A p \in 1..PartsOf[x[1]] : changed[t][<<x[1], p>>] > 0
        /\ kind[t] = "redact" => x[1] \in marked /\ x[1] \notin dirty

(* Every item that a completed move, transition or deletion changed is     *)
(* reported as processed, unless two executions were at it at once; one    *)
(* whose notification failed after the commit may be reported as failed.   *)
ChangedIsAccountedFor ==
    \A t \in Tasks, i \in Items :
        status[t] = "COMPLETE" /\ kind[t] \in {"move", "delete"} /\ changed[t][<<i, 1>>] > 0 =>
            \/ <<i, 1>> \in result[t].processed
            \/ t \in overlapped
            \/ <<i, 1>> \in result[t].failed /\ <<t, i>> \in botched

(* The sub-tasks of an item that a completed move has processed, and not   *)
(* reported as failed, have moved with it, unless a worker died halfway.   *)
Claimed(t) == {i \in Items : <<i, 1>> \in result[t].processed \ result[t].failed}
WithSubTasks(t, i) == \A p \in 1..PartsOf[i] : changed[t][<<i, p>>] > 0

SubTasksFollow ==
    \A t \in Tasks : status[t] = "COMPLETE" /\ kind[t] = "move" /\ t \notin overlapped =>
        \A i \in Claimed(t) : <<t, i>> \in torn \/ WithSubTasks(t, i)

(* Bulk watching changes every item or none: a task that was cancelled or  *)
(* has failed has left no watcher behind, whichever worker was at it.      *)
WatchIsAllOrNothing ==
    \A t \in Tasks : kind[t] = "watch" /\ status[t] # "COMPLETE" =>
        \A x \in Pieces : changed[t][x] = 0

(***************************************************************************)
(* What a task says it did is what it did, whatever crashed, was cancelled *)
(* or taken over, and whatever other users did to the items meanwhile: the *)
(* four statements above (bulk_issues.go and jira_redaction.go run a task  *)
(* again from the start, with the records of the first execution).         *)
(***************************************************************************)
ResultsAreTrue ==
    ProcessedWasChanged /\ ChangedIsAccountedFor /\ SubTasksFollow /\ WatchIsAllOrNothing

(* A task changes a piece of an item twice only if two workers were at it  *)
(* at the same time, or for an edit that undoes what another user has done *)
(* to that piece meanwhile; a crash alone repeats nothing, and deleting    *)
(* and watching never repeat.                                              *)
RepeatsNeedAnOverlap ==
    \A t \in Tasks, x \in Pieces : changed[t][x] > 1 =>
        \/ kind[t] \in {"edit", "move", "redact"} /\ t \in overlapped
        \/ kind[t] = "edit" /\ x \in touched

(* Every task that is submitted is over some day, in spite of crashes: as  *)
(* each is submitted once, the queue runs empty again and again.           *)
EveryTaskEnds == []<>(\A t \in Tasks : status[t] \notin Active)

(* "sends each recipient one bulk change email listing the work items the  *)
(* task changed for them" (WriteBulkNotificationEmails): the mail of a     *)
(* completed task that sent one names every item it changed.               *)
MailListsEveryChange ==
    \A t \in Tasks :
        status[t] = "COMPLETE" /\ t \notin overlapped /\ mails[t] # {} =>
            result[t].processed \subseteq mails[t]

(* "the text is scrubbed from the item's recorded history": when a         *)
(* redaction job is over, no item that shows the redaction has the text in *)
(* its history.                                                            *)
RedactedIsScrubbed ==
    \A t \in Tasks : kind[t] = "redact" /\ status[t] = "COMPLETE" /\ AtWork(t) = {} =>
        \A i \in Items : changed[t][<<i, 1>>] > 0 => i \notin dirty

(***************************************************************************)
(* docs/BULK_ISSUES.md:28: "replay-safe through per-item markers, so a     *)
(* recovered worker neither repeats changes nor duplicates history".       *)
(***************************************************************************)
RecoveryRepeatsNothing ==
    \A t \in Tasks, x \in Pieces :
        kind[t] \in Bulk /\ t \notin overlapped => changed[t][x] <= 1

(***************************************************************************)
(* docs/BULK_ISSUES.md:49: "Sub-tasks move with their parent." Only an     *)
(* item that is reported as failed may have moved without them.            *)
(***************************************************************************)
SubTasksMoveWithTheirParent ==
    \A t \in Tasks : status[t] = "COMPLETE" /\ kind[t] = "move" =>
        \A i \in Claimed(t) : WithSubTasks(t, i)

=============================================================================
