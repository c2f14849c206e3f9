-------------------------------- MODULE Blobs --------------------------------
(***************************************************************************)
(* Attachments: their rows are in the database, their bytes in an object   *)
(* store that knows no transactions. An upload writes the bytes first and  *)
(* the row second (commands_v3.go, AddAttachment); a deletion removes the  *)
(* row together with a cleanup intent (attachment_blob_deletions), then    *)
(* the bytes, then the intent, and a leased worker takes over what a       *)
(* request left behind. Files of the service portal are temporary rows     *)
(* first, which a sweeper takes away when they expire.                     *)
(*                                                                         *)
(*   issues    the work items that exist                                   *)
(*   row       the row of each blob: "temp" and "expired" are rows of      *)
(*             service_temporary_attachments, "attached" of attachments;   *)
(*             "removed" and "swept" say which way it went                 *)
(*   on        the work item of an upload and of its row                   *)
(*   bytes     the blobs in the object store                               *)
(*   intent    attachment_blob_deletions: "none", "open" (available),      *)
(*             "leased", "done" (completed_at is set)                      *)
(*   up        where the upload of each blob is                            *)
(*   pc        where each process (a request, or a worker of a replica) is *)
(*   refs      the blobs it has still to delete                            *)
(*   at        the one whose bytes it has just tried to delete             *)
(*   plan      the blobs a project deletion has read                       *)
(*                                                                         *)
(* History:                                                                *)
(*   doubtful  blobs whose row was committed although the upload was told  *)
(*             it was not                                                  *)
(*   stray     blobs nobody is left to delete, because an upload or a      *)
(*             sweep died or its clean-up failed                           *)
(*   late      blobs attached after a project deletion had read its list   *)
(*   faults    crashes, failed deletions and lost answers so far           *)
(***************************************************************************)
EXTENDS Naturals

CONSTANTS Blobs, NoBlob, Issues, NoIssue, Procs, MaxFaults

ASSUME NoneAssumption == NoIssue \notin Issues /\ NoBlob \notin Blobs
ASSUME FaultsAssumption == MaxFaults \in Nat

VARIABLES issues, row, on, bytes, intent, up, pc, refs, at, plan,
          doubtful, stray, late, faults

database == <<issues, row, on, intent>>
procs == <<pc, refs, at, plan>>
history == <<doubtful, stray, late, faults>>
vars == <<database, bytes, up, procs, history>>

Live(b) == row[b] \in {"temp", "expired", "attached"}
AttachedTo(I) == {b \in Blobs : row[b] = "attached" /\ on[b] \in I}
Uploading == {"started", "stored", "refused"}

Init ==
    /\ issues = Issues
    /\ row = [b \in Blobs |-> "none"]
    /\ on = [b \in Blobs |-> NoIssue]
    /\ bytes = {}
    /\ intent = [b \in Blobs |-> "none"]
    /\ up = [b \in Blobs |-> "idle"]
    /\ pc = [p \in Procs |-> "idle"]
    /\ refs = [p \in Procs |-> {}]
    /\ at = [p \in Procs |-> NoBlob]
    /\ plan = [p \in Procs |-> {}]
    /\ doubtful = {} /\ stray = {} /\ late = {}
    /\ faults = 0

(* At most MaxFaults things go wrong. *)
Fault == faults < MaxFaults /\ faults' = faults + 1

(***************************************************************************)
(* Uploads.                                                                *)
(***************************************************************************)
StartUpload(b) ==
    /\ up[b] = "idle"
    /\ \E i \in issues : on' = [on EXCEPT ![b] = i]
    /\ up' = [up EXCEPT ![b] = "started"]
    /\ UNCHANGED <<issues, row, intent, bytes, procs, history>>

(* The bytes are written; a file over the limit is refused afterwards. *)
PutBytes(b) ==
    /\ up[b] = "started"
    /\ bytes' = bytes \cup {b}
    /\ \E next \in {"stored", "refused"} : up' = [up EXCEPT ![b] = next]
    /\ UNCHANGED <<database, procs, history>>

PutFails(b) ==
    /\ up[b] = "started"
    /\ Fault
    /\ up' = [up EXCEPT ![b] = "over"]
    /\ UNCHANGED <<database, bytes, procs, doubtful, stray, late>>

(* A project deletion that has read its list does not see this row. *)
Missed(b) == IF \E p \in Procs : pc[p] = "purge" THEN late \cup {b} ELSE late

InsertRow(b, state) ==
    /\ row' = [row EXCEPT ![b] = state]
    /\ late' = IF state = "attached" THEN Missed(b) ELSE late
    /\ UNCHANGED <<issues, on, intent, bytes, procs>>

(* The insert waits for a deletion of the work item and fails after it.    *)
CreateAttachment(b) ==
    /\ up[b] = "stored" /\ on[b] \in issues
    /\ InsertRow(b, "attached")
    /\ up' = [up EXCEPT ![b] = "over"]
    /\ UNCHANGED <<doubtful, stray, faults>>

CreateTemporary(b) ==
    /\ up[b] = "stored" /\ on[b] \in issues
    /\ InsertRow(b, "temp")
    /\ up' = [up EXCEPT ![b] = "over"]
    /\ UNCHANGED <<doubtful, stray, faults>>

CreateFails(b) ==
    /\ up[b] = "stored" /\ on[b] \notin issues
    /\ up' = [up EXCEPT ![b] = "refused"]
    /\ UNCHANGED <<database, bytes, procs, history>>

(* The row is committed and the answer to the commit is lost. *)
CreateInDoubt(b) ==
    /\ up[b] = "stored" /\ on[b] \in issues
    /\ Fault
    /\ \E state \in {"attached", "temp"} : InsertRow(b, state)
    /\ up' = [up EXCEPT ![b] = "refused"]
    /\ doubtful' = doubtful \cup {b}
    /\ UNCHANGED stray

RemoveRefused(b) ==
    /\ up[b] = "refused"
    /\ bytes' = bytes \ {b}
    /\ up' = [up EXCEPT ![b] = "over"]
    /\ UNCHANGED <<database, procs, history>>

RemoveRefusedFails(b) ==
    /\ up[b] = "refused"
    /\ Fault
    /\ up' = [up EXCEPT ![b] = "over"]
    /\ stray' = stray \cup {b}
    /\ UNCHANGED <<database, bytes, procs, doubtful, late>>

CrashUpload(b) ==
    /\ up[b] \in Uploading
    /\ Fault
    /\ up' = [up EXCEPT ![b] = "over"]
    /\ stray' = IF b \in bytes THEN stray \cup {b} ELSE stray
    /\ UNCHANGED <<database, bytes, procs, doubtful, late>>

(***************************************************************************)
(* Temporary files of the service portal.                                  *)
(***************************************************************************)
Expire(b) ==
    /\ row[b] = "temp"
    /\ row' = [row EXCEPT ![b] = "expired"]
    /\ UNCHANGED <<issues, on, intent, bytes, up, procs, history>>

Finalize(b) ==
    /\ row[b] = "temp" /\ on[b] \in issues
    /\ row' = [row EXCEPT ![b] = "attached"]
    /\ late' = Missed(b)
    /\ UNCHANGED <<issues, on, intent, bytes, up, procs, doubtful, stray, faults>>

(* The rows go first; the list of their blobs is only in memory. *)
TakeExpired(p) ==
    /\ pc[p] = "idle"
    /\ \E S \in SUBSET {b \in Blobs : row[b] = "expired"} :
          /\ S # {}
          /\ row' = [b \in Blobs |-> IF b \in S THEN "swept" ELSE row[b]]
          /\ refs' = [refs EXCEPT ![p] = S]
    /\ pc' = [pc EXCEPT ![p] = "sweep"]
    /\ UNCHANGED <<issues, on, intent, bytes, up, at, plan, history>>

(* The next ref; one whose deletion fails is logged and forgotten. *)
Sweep(p) ==
    /\ pc[p] = "sweep"
    /\ \E b \in refs[p] :
          /\ refs' = [refs EXCEPT ![p] = @ \ {b}]
          /\ pc' = [pc EXCEPT ![p] = IF refs[p] = {b} THEN "idle" ELSE "sweep"]
          /\ \/ bytes' = bytes \ {b} /\ UNCHANGED <<stray, faults>>
             \/ Fault /\ stray' = stray \cup {b} /\ UNCHANGED bytes
    /\ UNCHANGED <<database, up, at, plan, doubtful, late>>

(***************************************************************************)
(* Deletions. A transaction that inserts an intent waits for one that has  *)
(* inserted the same intent and is still open.                             *)
(***************************************************************************)
Unplanned(S) == \A p \in Procs : plan[p] \cap S = {}

(* Rows and intents of one transaction; an existing intent stays. *)
Remove(S) ==
    /\ Unplanned(S)
    /\ row' = [b \in Blobs |-> IF b \in S /\ row[b] = "attached" THEN "removed" ELSE row[b]]
    /\ intent' = [b \in Blobs |-> IF b \in S /\ intent[b] = "none" THEN "open" ELSE intent[b]]

(* Mutation: the bytes go before the row. *)
ReadAttachmentDeleting(p) ==
    /\ pc[p] = "idle"
    /\ \E b \in AttachedTo(issues) :
          /\ refs' = [refs EXCEPT ![p] = {b}]
          /\ bytes' = bytes \ {b}
    /\ pc' = [pc EXCEPT ![p] = "delete"]
    /\ UNCHANGED <<database, up, at, plan, history>>

(* Two requests may both have read the row before either deletes it: they  *)
(* queue up at the sequence number.                                        *)
ReadAttachment(p) ==
    /\ pc[p] = "idle"
    /\ \E b \in AttachedTo(issues) : refs' = [refs EXCEPT ![p] = {b}]
    /\ pc' = [pc EXCEPT ![p] = "delete"]
    /\ UNCHANGED <<database, bytes, up, at, plan, history>>

DeleteAttachment(p) ==
    /\ pc[p] = "delete"
    /\ Remove(refs[p])
    /\ pc' = [pc EXCEPT ![p] = "bytes"]
    /\ UNCHANGED <<issues, on, bytes, up, refs, at, plan, history>>

(* The work item is locked first, so that no row is added meanwhile. *)
DeleteIssue(p, i) ==
    /\ pc[p] = "idle" /\ i \in issues
    /\ Remove(AttachedTo({i}))
    /\ issues' = issues \ {i}
    /\ refs' = [refs EXCEPT ![p] = AttachedTo({i})]
    /\ pc' = [pc EXCEPT ![p] = IF AttachedTo({i}) = {} THEN "idle" ELSE "bytes"]
    /\ UNCHANGED <<on, bytes, up, at, plan, history>>

(* The project is locked, not its work items. *)
ReadProject(p) ==
    /\ pc[p] = "idle" /\ issues # {}
    /\ Unplanned(AttachedTo(issues)) /\ \A q \in Procs : pc[q] # "purge"
    /\ plan' = [plan EXCEPT ![p] = AttachedTo(issues)]
    /\ pc' = [pc EXCEPT ![p] = "purge"]
    /\ UNCHANGED <<database, bytes, up, refs, at, history>>

(* The rows go with their work items; only those that were read have an    *)
(* intent. The bytes are left to the worker.                               *)
DeleteProject(p) ==
    /\ pc[p] = "purge"
    /\ row' = [b \in Blobs |-> IF b \in AttachedTo(issues) THEN "removed" ELSE row[b]]
    /\ intent' = [b \in Blobs |-> IF b \in plan[p] /\ intent[b] = "none" THEN "open" ELSE intent[b]]
    /\ issues' = {}
    /\ plan' = [plan EXCEPT ![p] = {}]
    /\ pc' = [pc EXCEPT ![p] = "idle"]
    /\ UNCHANGED <<on, bytes, up, refs, at, history>>

(***************************************************************************)
(* Bytes: by the request that removed the row, or by a worker.             *)
(***************************************************************************)
ClaimIntent(p) ==
    /\ pc[p] = "idle"
    /\ \E b \in Blobs :
          /\ intent[b] = "open"
          /\ intent' = [intent EXCEPT ![b] = "leased"]
          /\ refs' = [refs EXCEPT ![p] = {b}]
    /\ pc' = [pc EXCEPT ![p] = "bytes"]
    /\ UNCHANGED <<issues, row, on, bytes, up, at, plan, history>>

(* Mutation: a lease never ends. *)
LeaseStays(b) == intent[b] = "leased" /\ UNCHANGED vars

LeaseLapses(b) ==
    /\ intent[b] = "leased"
    /\ intent' = [intent EXCEPT ![b] = "open"]
    /\ UNCHANGED <<issues, row, on, bytes, up, procs, history>>

(* The bytes of the next ref; deleting what is not there succeeds. *)
DeleteBytes(p) ==
    /\ pc[p] = "bytes"
    /\ \E b \in refs[p] :
          /\ at' = [at EXCEPT ![p] = b]
          /\ bytes' = bytes \ {b}
    /\ pc' = [pc EXCEPT ![p] = "complete"]
    /\ UNCHANGED <<database, up, refs, plan, history>>

DeleteBytesFails(p) ==
    /\ pc[p] = "bytes"
    /\ Fault
    /\ \E b \in refs[p] : at' = [at EXCEPT ![p] = b]
    /\ pc' = [pc EXCEPT ![p] = "defer"]
    /\ UNCHANGED <<database, bytes, up, refs, plan, doubtful, stray, late>>

(* The row of the intent is found by the blob alone; one that is completed *)
(* already stays so, and the caller goes on to its next ref.               *)
Settle(p, state) ==
    /\ intent' = [intent EXCEPT ![at[p]] = IF @ = "done" THEN "done" ELSE state]
    /\ refs' = [refs EXCEPT ![p] = @ \ {at[p]}]
    /\ at' = [at EXCEPT ![p] = NoBlob]
    /\ pc' = [pc EXCEPT ![p] = IF refs[p] = {at[p]} THEN "idle" ELSE "bytes"]
    /\ UNCHANGED <<issues, row, on, bytes, up, plan, history>>

(* Mutation: one deletion completes the intents of all refs. *)
CompleteAll(p) ==
    /\ pc[p] = "complete"
    /\ intent' = [b \in Blobs |-> IF b \in refs[p] THEN "done" ELSE intent[b]]
    /\ refs' = [refs EXCEPT ![p] = {}]
    /\ at' = [at EXCEPT ![p] = NoBlob]
    /\ pc' = [pc EXCEPT ![p] = "idle"]
    /\ UNCHANGED <<issues, row, on, bytes, up, plan, history>>

Complete(p) == pc[p] = "complete" /\ Settle(p, "done")

(* Mutation: a failed deletion is given up. *)
DeferForEver(p) == pc[p] = "defer" /\ Settle(p, "done")

Defer(p) == pc[p] = "defer" /\ Settle(p, "open")

Crash(p) ==
    /\ pc[p] # "idle"
    /\ Fault
    /\ stray' = IF pc[p] = "sweep" THEN stray \cup refs[p] ELSE stray
    /\ pc' = [pc EXCEPT ![p] = "idle"]
    /\ refs' = [refs EXCEPT ![p] = {}]
    /\ plan' = [plan EXCEPT ![p] = {}]
    /\ at' = [at EXCEPT ![p] = NoBlob]
    /\ UNCHANGED <<database, bytes, up, doubtful, late>>

Upload(b) ==
    \/ StartUpload(b) \/ PutBytes(b) \/ PutFails(b)
    \/ CreateAttachment(b) \/ CreateTemporary(b) \/ CreateFails(b) \/ CreateInDoubt(b)
    \/ RemoveRefused(b) \/ RemoveRefusedFails(b) \/ CrashUpload(b)

Request(p) ==
    \/ ReadAttachment(p) \/ DeleteAttachment(p)
    \/ \E i \in Issues : DeleteIssue(p, i)
    \/ ReadProject(p) \/ DeleteProject(p)
    \/ TakeExpired(p) \/ Sweep(p)

(* What a process does with the bytes it owes. *)
Clean(p) == DeleteBytes(p) \/ Complete(p) \/ Defer(p)

Next ==
    \/ \E b \in Blobs : Upload(b) \/ Expire(b) \/ Finalize(b) \/ LeaseLapses(b)
    \/ \E p \in Procs :
          Request(p) \/ ClaimIntent(p) \/ Clean(p) \/ DeleteBytesFails(p) \/ Crash(p)

Spec == Init /\ [][Next]_vars

(***************************************************************************)
(* Requests and workers run on, the deletion worker polls (every five      *)
(* seconds), leases lapse. Only the worker has to have a turn, so claiming *)
(* is strongly fair: a process may be busy with requests in between.       *)
(***************************************************************************)
Fairness ==
    /\ \A p \in Procs :
          /\ WF_vars(Clean(p))
          /\ WF_vars(Sweep(p))
          /\ WF_vars(DeleteAttachment(p))
          /\ WF_vars(DeleteProject(p))
          /\ SF_vars(ClaimIntent(p))
    /\ \A b \in Blobs : WF_vars(LeaseLapses(b))

FairSpec == Spec /\ Fairness

-----------------------------------------------------------------------------
(***************************************************************************)
(* Types, and what a process that is idle has let go; part of IntentInv.   *)
(***************************************************************************)
TypeOK ==
    /\ issues \subseteq Issues
    /\ row \in [Blobs -> {"none", "temp", "expired", "attached", "removed", "swept"}]
    /\ on \in [Blobs -> Issues \cup {NoIssue}]
    /\ \A b \in Blobs : row[b] = "attached" => on[b] \in issues
    /\ bytes \subseteq Blobs
    /\ intent \in [Blobs -> {"none", "open", "leased", "done"}]
    /\ up \in [Blobs -> Uploading \cup {"idle", "over"}]
    /\ pc \in [Procs -> {"idle", "sweep", "delete", "purge", "bytes", "complete", "defer"}]
    /\ refs \in [Procs -> SUBSET Blobs]
    /\ at \in [Procs -> Blobs \cup {NoBlob}]
    /\ plan \in [Procs -> SUBSET Blobs]
    /\ \A p \in Procs :
          /\ refs[p] = {} <=> pc[p] \in {"idle", "purge"}
          /\ IF pc[p] \in {"complete", "defer"} THEN at[p] \in refs[p] ELSE at[p] = NoBlob
          /\ pc[p] # "purge" => plan[p] = {}
    /\ doubtful \subseteq Blobs /\ stray \subseteq Blobs /\ late \subseteq Blobs
    /\ faults \in 0..MaxFaults

(***************************************************************************)
(* The file behind a row can be read: uploads, deletions, expiry and the   *)
(* worker, in any order, never leave a row without its bytes. The one way  *)
(* to it is a row that was committed while its upload was told otherwise   *)
(* and removed the bytes (AddAttachment, CreateServiceTemporaryAttachment).*)
(***************************************************************************)
RowsHaveBytes == \A b \in Blobs \ doubtful : Live(b) => b \in bytes

(***************************************************************************)
(* Bytes in the store have a row, an intent that is still to be carried    *)
(* out, or a request that is still busy with them. What is left is named:  *)
(* a dead upload or sweep, and the project deletion that overlooked a row. *)
(***************************************************************************)
EveryByteHasAnOwner ==
    \A b \in bytes \ (stray \cup late) :
        \/ Live(b) \/ up[b] \in Uploading
        \/ intent[b] \in {"open", "leased"}
        \/ \E p \in Procs : pc[p] = "sweep" /\ b \in refs[p]

(* What a completed intent says.                                           *)
DoneMeansGone == \A b \in Blobs : intent[b] = "done" => b \notin bytes

(***************************************************************************)
(* An intent is completed only when its bytes are gone for good            *)
(* (CompleteAttachmentBlobDeletion), though request and worker may delete  *)
(* the same blob at once and a lease may lapse in between; and no process  *)
(* keeps a reference, a plan or a lease after its end.                     *)
(***************************************************************************)
IntentInv == TypeOK /\ DoneMeansGone

(***************************************************************************)
(* Whatever crashes or fails, the bytes of an intent are deleted in the    *)
(* end ("retried with bounded backoff through a leased worker").           *)
(***************************************************************************)
EveryIntentIsCarriedOut ==
    \A b \in Blobs : intent[b] = "open" ~> (b \notin bytes /\ intent[b] = "done")

(***************************************************************************)
(* docs/ATTACHMENTS.md:36: "Deleting an attachment or its work item writes *)
(* blob cleanup intents in the same transaction ... so a crash or outage   *)
(* cannot orphan bytes": whatever removed the row, bytes that are left     *)
(* have their intent.                                                      *)
(***************************************************************************)
RemovedBytesHaveIntent ==
    \A b \in bytes : row[b] = "removed" => intent[b] \in {"open", "leased"}
=============================================================================
