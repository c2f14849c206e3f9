----------------------------- MODULE BlobsProofs -----------------------------
(***************************************************************************)
(* Proofs about Blobs, for any blobs, work items, processes and number of  *)
(* faults: an intent is completed only when its bytes are gone for good, a *)
(* row keeps its bytes, and bytes that are left have an owner.             *)
(*                                                                         *)
(* The bytes of a blob are written once, before there is a row (UpInv). A  *)
(* process that deletes bytes has a blob whose row has gone (RefsInv), as  *)
(* has every intent (RemovedFirst), and a project deletion knows all rows  *)
(* but those that were attached after it had read its list (PlanInv).      *)
(***************************************************************************)
EXTENDS Blobs, TLAPS

UpInv ==
    \A b \in Blobs :
        /\ up[b] \in {"idle", "started"} => b \notin bytes
        /\ up[b] \in {"idle", "started", "stored"} => row[b] = "none"
        /\ up[b] = "stored" => b \in bytes
        /\ up[b] = "refused" => row[b] = "none" \/ b \in doubtful

RefsInv ==
    \A p \in Procs :
        /\ \A b \in refs[p] :
              /\ pc[p] = "sweep" => row[b] = "swept"
              /\ pc[p] = "delete" => row[b] \in {"attached", "removed"}
              /\ pc[p] \in {"bytes", "complete", "defer"} => row[b] = "removed"
        /\ pc[p] = "complete" => at[p] \notin bytes

RemovedFirst == \A b \in Blobs : intent[b] # "none" => row[b] = "removed"

PlanInv ==
    \A p \in Procs :
        /\ \A b \in plan[p] : row[b] \in {"attached", "removed"}
        /\ pc[p] = "purge" => \A b \in Blobs : row[b] = "attached" => b \in plan[p] \cup late

IInv ==
    /\ IntentInv /\ RowsHaveBytes /\ EveryByteHasAnOwner
    /\ UpInv /\ RefsInv /\ RemovedFirst /\ PlanInv

(* Nothing is there at first. *)
LEMMA InitIInv == Init => IInv
  BY FaultsAssumption
  DEF Init, IInv, IntentInv, TypeOK, DoneMeansGone, RowsHaveBytes, EveryByteHasAnOwner, Live,
      Uploading, UpInv, RefsInv, RemovedFirst, PlanInv

(* An upload starts, fails or dies: what it leaves behind is counted. *)
LEMMA UploadMovesIInv ==
    ASSUME IInv, NEW b \in Blobs,
           \/ StartUpload(b)
           \/ PutFails(b)
           \/ CreateFails(b)
           \/ RemoveRefusedFails(b)
           \/ CrashUpload(b)
    PROVE  IInv'
  <1> USE NoneAssumption, FaultsAssumption DEF database, procs, history, Live, Uploading
  <1>1. TypeOK'
    BY DEF StartUpload, PutFails, CreateFails, RemoveRefusedFails, CrashUpload, Fault,
           IInv, IntentInv, TypeOK
  <1>2. DoneMeansGone'
    BY DEF StartUpload, PutFails, CreateFails, RemoveRefusedFails, CrashUpload, Fault,
           IInv, IntentInv, TypeOK, DoneMeansGone
  <1>3. RowsHaveBytes'
    BY DEF StartUpload, PutFails, CreateFails, RemoveRefusedFails, CrashUpload, Fault,
           IInv, IntentInv, TypeOK, RowsHaveBytes
  <1>4. EveryByteHasAnOwner'
    BY DEF StartUpload, PutFails, CreateFails, RemoveRefusedFails, CrashUpload, Fault,
           IInv, IntentInv, TypeOK, EveryByteHasAnOwner, UpInv
  <1>5. UpInv'
    BY DEF StartUpload, PutFails, CreateFails, RemoveRefusedFails, CrashUpload, Fault,
           IInv, IntentInv, TypeOK, UpInv
  <1>6. RefsInv'
    BY DEF StartUpload, PutFails, CreateFails, RemoveRefusedFails, CrashUpload, Fault,
           IInv, IntentInv, TypeOK, RefsInv
  <1>7. RemovedFirst'
    BY DEF StartUpload, PutFails, CreateFails, RemoveRefusedFails, CrashUpload, Fault,
           IInv, IntentInv, TypeOK, RemovedFirst
  <1>8. PlanInv'
    BY DEF StartUpload, PutFails, CreateFails, RemoveRefusedFails, CrashUpload, Fault,
           IInv, IntentInv, TypeOK, PlanInv
  <1> QED
    BY <1>1, <1>2, <1>3, <1>4, <1>5, <1>6, <1>7, <1>8 DEF IInv, IntentInv

(* It writes bytes that no row and no intent knows yet, or takes them back. *)
LEMMA UploadBytesIInv ==
    ASSUME IInv, NEW b \in Blobs,
           PutBytes(b) \/ RemoveRefused(b)
    PROVE  IInv'
  <1> USE NoneAssumption, FaultsAssumption DEF database, procs, history, Live, Uploading
  <1>1. TypeOK'
    BY DEF PutBytes, RemoveRefused, IInv, IntentInv, TypeOK
  <1>2. DoneMeansGone'
    BY DEF PutBytes, RemoveRefused, IInv, IntentInv, TypeOK, DoneMeansGone, RemovedFirst,
           UpInv
  <1>3. RowsHaveBytes'
    BY DEF PutBytes, RemoveRefused, IInv, IntentInv, TypeOK, RowsHaveBytes, UpInv
  <1>4. EveryByteHasAnOwner'
    BY DEF PutBytes, RemoveRefused, IInv, IntentInv, TypeOK, EveryByteHasAnOwner
  <1>5. UpInv'
    BY DEF PutBytes, RemoveRefused, IInv, IntentInv, TypeOK, UpInv
  <1>6. RefsInv'
    BY DEF PutBytes, RemoveRefused, IInv, IntentInv, TypeOK, RefsInv, UpInv
  <1>7. RemovedFirst'
    BY DEF PutBytes, RemoveRefused, IInv, IntentInv, TypeOK, RemovedFirst
  <1>8. PlanInv'
    BY DEF PutBytes, RemoveRefused, IInv, IntentInv, TypeOK, PlanInv
  <1> QED
    BY <1>1, <1>2, <1>3, <1>4, <1>5, <1>6, <1>7, <1>8 DEF IInv, IntentInv

(* A row is inserted, expires or is attached, and its bytes are there. *)
LEMMA RowsIInv ==
    ASSUME IInv, NEW b \in Blobs,
           \/ CreateAttachment(b)
           \/ CreateTemporary(b)
           \/ CreateInDoubt(b)
           \/ Expire(b)
           \/ Finalize(b)
    PROVE  IInv'
  <1> USE NoneAssumption, FaultsAssumption DEF database, procs, history, Live, Uploading
  <1>1. TypeOK'
    BY DEF CreateAttachment, CreateTemporary, CreateInDoubt, Expire, Finalize, Fault,
           InsertRow, Missed, IInv, IntentInv, TypeOK
  <1>2. DoneMeansGone'
    BY DEF CreateAttachment, CreateTemporary, CreateInDoubt, Expire, Finalize, Fault,
           InsertRow, Missed, IInv, IntentInv, TypeOK, DoneMeansGone
  <1>3. RowsHaveBytes'
    BY DEF CreateAttachment, CreateTemporary, CreateInDoubt, Expire, Finalize, Fault,
           InsertRow, Missed, IInv, IntentInv, TypeOK, RowsHaveBytes, UpInv
  <1>4. EveryByteHasAnOwner'
    BY DEF CreateAttachment, CreateTemporary, CreateInDoubt, Expire, Finalize, Fault,
           InsertRow, Missed, IInv, IntentInv, TypeOK, EveryByteHasAnOwner
  <1>5. UpInv'
    BY DEF CreateAttachment, CreateTemporary, CreateInDoubt, Expire, Finalize, Fault,
           InsertRow, Missed, IInv, IntentInv, TypeOK, UpInv
  <1>6. RefsInv'
    BY DEF CreateAttachment, CreateTemporary, CreateInDoubt, Expire, Finalize, Fault,
           InsertRow, Missed, IInv, IntentInv, TypeOK, RefsInv, UpInv
  <1>7. RemovedFirst'
    BY DEF CreateAttachment, CreateTemporary, CreateInDoubt, Expire, Finalize, Fault,
           InsertRow, Missed, IInv, IntentInv, TypeOK, RemovedFirst, UpInv
  <1>8. PlanInv'
    BY DEF CreateAttachment, CreateTemporary, CreateInDoubt, Expire, Finalize, Fault,
           InsertRow, Missed, IInv, IntentInv, TypeOK, PlanInv, UpInv
  <1> QED
    BY <1>1, <1>2, <1>3, <1>4, <1>5, <1>6, <1>7, <1>8 DEF IInv, IntentInv

(* The sweeper has removed the row before it deletes the bytes. *)
LEMMA SweepIInv ==
    ASSUME IInv, NEW p \in Procs,
           TakeExpired(p) \/ Sweep(p)
    PROVE  IInv'
  <1> USE NoneAssumption, FaultsAssumption DEF database, procs, history, Live, Uploading
  <1>1. TypeOK'
    BY DEF TakeExpired, Sweep, Fault, IInv, IntentInv, TypeOK
  <1>2. DoneMeansGone'
    BY DEF TakeExpired, Sweep, Fault, IInv, IntentInv, TypeOK, DoneMeansGone
  <1>3. RowsHaveBytes'
    BY DEF TakeExpired, Sweep, Fault, IInv, IntentInv, TypeOK, RowsHaveBytes, RefsInv
  <1>4. EveryByteHasAnOwner'
    BY DEF TakeExpired, Sweep, Fault, IInv, IntentInv, TypeOK, EveryByteHasAnOwner
  <1>5. UpInv'
    BY DEF TakeExpired, Sweep, Fault, IInv, IntentInv, TypeOK, UpInv, RefsInv
  <1>6. RefsInv'
    BY DEF TakeExpired, Sweep, Fault, IInv, IntentInv, TypeOK, RefsInv
  <1>7. RemovedFirst'
    BY DEF TakeExpired, Sweep, Fault, IInv, IntentInv, TypeOK, RemovedFirst
  <1>8. PlanInv'
    BY DEF TakeExpired, Sweep, Fault, IInv, IntentInv, TypeOK, PlanInv
  <1> QED
    BY <1>1, <1>2, <1>3, <1>4, <1>5, <1>6, <1>7, <1>8 DEF IInv, IntentInv

(* Requests that read what they are about to delete. *)
LEMMA ReadsIInv ==
    ASSUME IInv, NEW p \in Procs,
           ReadAttachment(p) \/ ReadProject(p)
    PROVE  IInv'
  <1> USE NoneAssumption, FaultsAssumption DEF database, procs, history, Live, Uploading
  <1>1. TypeOK'
    BY DEF ReadAttachment, ReadProject, AttachedTo, IInv, IntentInv, TypeOK
  <1>2. DoneMeansGone'
    BY DEF ReadAttachment, ReadProject, AttachedTo, IInv, IntentInv, TypeOK, DoneMeansGone
  <1>3. RowsHaveBytes'
    BY DEF ReadAttachment, ReadProject, AttachedTo, IInv, IntentInv, TypeOK, RowsHaveBytes
  <1>4. EveryByteHasAnOwner'
    BY DEF ReadAttachment, ReadProject, AttachedTo, IInv, IntentInv, TypeOK,
           EveryByteHasAnOwner
  <1>5. UpInv'
    BY DEF ReadAttachment, ReadProject, AttachedTo, IInv, IntentInv, TypeOK, UpInv
  <1>6. RefsInv'
    BY DEF ReadAttachment, ReadProject, AttachedTo, IInv, IntentInv, TypeOK, RefsInv
  <1>7. RemovedFirst'
    BY DEF ReadAttachment, ReadProject, AttachedTo, IInv, IntentInv, TypeOK, RemovedFirst
  <1>8. PlanInv'
    BY DEF ReadAttachment, ReadProject, AttachedTo, IInv, IntentInv, TypeOK, PlanInv
  <1> QED
    BY <1>1, <1>2, <1>3, <1>4, <1>5, <1>6, <1>7, <1>8 DEF IInv, IntentInv

(* The row of an attachment goes together with the intent. *)
LEMMA DeleteAttachmentIInv ==
    ASSUME IInv, NEW p \in Procs,
           DeleteAttachment(p)
    PROVE  IInv'
  <1> USE NoneAssumption, FaultsAssumption DEF database, procs, history, Live, Uploading
  <1>1. TypeOK'
    BY DEF DeleteAttachment, Remove, IInv, IntentInv, TypeOK
  <1>2. DoneMeansGone'
    BY DEF DeleteAttachment, Remove, IInv, IntentInv, TypeOK, DoneMeansGone
  <1>3. RowsHaveBytes'
    BY DEF DeleteAttachment, Remove, IInv, IntentInv, TypeOK, RowsHaveBytes
  <1>4. EveryByteHasAnOwner'
    BY DEF DeleteAttachment, Remove, IInv, IntentInv, TypeOK, EveryByteHasAnOwner,
           RemovedFirst
  <1>5. UpInv'
    BY DEF DeleteAttachment, Remove, IInv, IntentInv, TypeOK, UpInv
  <1>6. RefsInv'
    BY DEF DeleteAttachment, Remove, IInv, IntentInv, TypeOK, RefsInv
  <1>7. RemovedFirst'
    BY DEF DeleteAttachment, Remove, IInv, IntentInv, TypeOK, RemovedFirst, RefsInv
  <1>8. PlanInv'
    BY DEF DeleteAttachment, Remove, IInv, IntentInv, TypeOK, PlanInv
  <1> QED
    BY <1>1, <1>2, <1>3, <1>4, <1>5, <1>6, <1>7, <1>8 DEF IInv, IntentInv

(* So do those of a work item. *)
LEMMA DeleteIssueIInv ==
    ASSUME IInv, NEW p \in Procs, NEW i \in Issues,
           DeleteIssue(p, i)
    PROVE  IInv'
  <1> USE NoneAssumption, FaultsAssumption DEF database, procs, history, Live, Uploading
  <1>1. TypeOK'
    BY DEF DeleteIssue, AttachedTo, Remove, IInv, IntentInv, TypeOK
  <1>2. DoneMeansGone'
    BY DEF DeleteIssue, AttachedTo, Remove, IInv, IntentInv, TypeOK, DoneMeansGone
  <1>3. RowsHaveBytes'
    BY DEF DeleteIssue, AttachedTo, Remove, IInv, IntentInv, TypeOK, RowsHaveBytes
  <1>4. EveryByteHasAnOwner'
    BY DEF DeleteIssue, AttachedTo, Remove, IInv, IntentInv, TypeOK, EveryByteHasAnOwner,
           RemovedFirst
  <1>5. UpInv'
    BY DEF DeleteIssue, AttachedTo, Remove, IInv, IntentInv, TypeOK, UpInv
  <1>6. RefsInv'
    BY DEF DeleteIssue, AttachedTo, Remove, IInv, IntentInv, TypeOK, RefsInv
  <1>7. RemovedFirst'
    BY DEF DeleteIssue, AttachedTo, Remove, IInv, IntentInv, TypeOK, RemovedFirst
  <1>8. PlanInv'
    BY DEF DeleteIssue, AttachedTo, Remove, IInv, IntentInv, TypeOK, PlanInv
  <1> QED
    BY <1>1, <1>2, <1>3, <1>4, <1>5, <1>6, <1>7, <1>8 DEF IInv, IntentInv

(* Those of a project do, but for the rows that were late. *)
LEMMA DeleteProjectIInv ==
    ASSUME IInv, NEW p \in Procs,
           DeleteProject(p)
    PROVE  IInv'
  <1> USE NoneAssumption, FaultsAssumption DEF database, procs, history, Live, Uploading
  <1>1. TypeOK'
    BY DEF DeleteProject, AttachedTo, IInv, IntentInv, TypeOK
  <1>2. DoneMeansGone'
    BY DEF DeleteProject, AttachedTo, IInv, IntentInv, TypeOK, DoneMeansGone
  <1>3. RowsHaveBytes'
    BY DEF DeleteProject, AttachedTo, IInv, IntentInv, TypeOK, RowsHaveBytes
  <1>4. EveryByteHasAnOwner'
    BY DEF DeleteProject, AttachedTo, IInv, IntentInv, TypeOK, EveryByteHasAnOwner,
           RemovedFirst, PlanInv
  <1>5. UpInv'
    BY DEF DeleteProject, AttachedTo, IInv, IntentInv, TypeOK, UpInv
  <1>6. RefsInv'
    BY DEF DeleteProject, AttachedTo, IInv, IntentInv, TypeOK, RefsInv
  <1>7. RemovedFirst'
    BY DEF DeleteProject, AttachedTo, IInv, IntentInv, TypeOK, RemovedFirst, PlanInv
  <1>8. PlanInv'
    BY DEF DeleteProject, AttachedTo, IInv, IntentInv, TypeOK, PlanInv
  <1> QED
    BY <1>1, <1>2, <1>3, <1>4, <1>5, <1>6, <1>7, <1>8 DEF IInv, IntentInv

(* An intent is leased; its row has gone. *)
LEMMA ClaimIntentIInv ==
    ASSUME IInv, NEW p \in Procs,
           ClaimIntent(p)
    PROVE  IInv'
  <1> USE NoneAssumption, FaultsAssumption DEF database, procs, history, Live, Uploading
  <1>1. TypeOK'
    BY DEF ClaimIntent, IInv, IntentInv, TypeOK
  <1>2. DoneMeansGone'
    BY DEF ClaimIntent, IInv, IntentInv, TypeOK, DoneMeansGone
  <1>3. RowsHaveBytes'
    BY DEF ClaimIntent, IInv, IntentInv, TypeOK, RowsHaveBytes
  <1>4. EveryByteHasAnOwner'
    BY DEF ClaimIntent, IInv, IntentInv, TypeOK, EveryByteHasAnOwner
  <1>5. UpInv'
    BY DEF ClaimIntent, IInv, IntentInv, TypeOK, UpInv
  <1>6. RefsInv'
    BY DEF ClaimIntent, IInv, IntentInv, TypeOK, RefsInv, RemovedFirst
  <1>7. RemovedFirst'
    BY DEF ClaimIntent, IInv, IntentInv, TypeOK, RemovedFirst
  <1>8. PlanInv'
    BY DEF ClaimIntent, IInv, IntentInv, TypeOK, PlanInv
  <1> QED
    BY <1>1, <1>2, <1>3, <1>4, <1>5, <1>6, <1>7, <1>8 DEF IInv, IntentInv

(* The lease lapses, whoever works on it. *)
LEMMA LeaseLapsesIInv ==
    ASSUME IInv, NEW b \in Blobs,
           LeaseLapses(b)
    PROVE  IInv'
  <1> USE NoneAssumption, FaultsAssumption DEF database, procs, history, Live, Uploading
  <1>1. TypeOK'
    BY DEF LeaseLapses, IInv, IntentInv, TypeOK
  <1>2. DoneMeansGone'
    BY DEF LeaseLapses, IInv, IntentInv, TypeOK, DoneMeansGone
  <1>3. RowsHaveBytes'
    BY DEF LeaseLapses, IInv, IntentInv, TypeOK, RowsHaveBytes
  <1>4. EveryByteHasAnOwner'
    BY DEF LeaseLapses, IInv, IntentInv, TypeOK, EveryByteHasAnOwner
  <1>5. UpInv'
    BY DEF LeaseLapses, IInv, IntentInv, TypeOK, UpInv
  <1>6. RefsInv'
    BY DEF LeaseLapses, IInv, IntentInv, TypeOK, RefsInv
  <1>7. RemovedFirst'
    BY DEF LeaseLapses, IInv, IntentInv, TypeOK, RemovedFirst
  <1>8. PlanInv'
    BY DEF LeaseLapses, IInv, IntentInv, TypeOK, PlanInv
  <1> QED
    BY <1>1, <1>2, <1>3, <1>4, <1>5, <1>6, <1>7, <1>8 DEF IInv, IntentInv

(* Bytes go before their intent is completed. *)
LEMMA BytesIInv ==
    ASSUME IInv, NEW p \in Procs,
           DeleteBytes(p) \/ DeleteBytesFails(p) \/ Complete(p) \/ Defer(p)
    PROVE  IInv'
  <1> USE NoneAssumption, FaultsAssumption DEF database, procs, history, Live, Uploading
  <1>1. TypeOK'
    BY DEF DeleteBytes, DeleteBytesFails, Complete, Defer, Fault, Settle, IInv, IntentInv,
           TypeOK
  <1>2. DoneMeansGone'
    BY DEF DeleteBytes, DeleteBytesFails, Complete, Defer, Fault, Settle, IInv, IntentInv,
           TypeOK, DoneMeansGone, RefsInv
  <1>3. RowsHaveBytes'
    BY DEF DeleteBytes, DeleteBytesFails, Complete, Defer, Fault, Settle, IInv, IntentInv,
           TypeOK, RowsHaveBytes, RefsInv
  <1>4. EveryByteHasAnOwner'
    BY DEF DeleteBytes, DeleteBytesFails, Complete, Defer, Fault, Settle, IInv, IntentInv,
           TypeOK, EveryByteHasAnOwner, RefsInv
  <1>5. UpInv'
    BY DEF DeleteBytes, DeleteBytesFails, Complete, Defer, Fault, Settle, IInv, IntentInv,
           TypeOK, UpInv, RefsInv
  <1>6. RefsInv'
    BY DEF DeleteBytes, DeleteBytesFails, Complete, Defer, Fault, Settle, IInv, IntentInv,
           TypeOK, RefsInv
  <1>7. RemovedFirst'
    BY DEF DeleteBytes, DeleteBytesFails, Complete, Defer, Fault, Settle, IInv, IntentInv,
           TypeOK, RemovedFirst, RefsInv
  <1>8. PlanInv'
    BY DEF DeleteBytes, DeleteBytesFails, Complete, Defer, Fault, Settle, IInv, IntentInv,
           TypeOK, PlanInv
  <1> QED
    BY <1>1, <1>2, <1>3, <1>4, <1>5, <1>6, <1>7, <1>8 DEF IInv, IntentInv

(* A process that dies leaves what it still had to sweep. *)
LEMMA CrashIInv ==
    ASSUME IInv, NEW p \in Procs,
           Crash(p)
    PROVE  IInv'
  <1> USE NoneAssumption, FaultsAssumption DEF database, procs, history, Live, Uploading
  <1>1. TypeOK'
    BY DEF Crash, Fault, IInv, IntentInv, TypeOK
  <1>2. DoneMeansGone'
    BY DEF Crash, Fault, IInv, IntentInv, TypeOK, DoneMeansGone
  <1>3. RowsHaveBytes'
    BY DEF Crash, Fault, IInv, IntentInv, TypeOK, RowsHaveBytes
  <1>4. EveryByteHasAnOwner'
    BY DEF Crash, Fault, IInv, IntentInv, TypeOK, EveryByteHasAnOwner
  <1>5. UpInv'
    BY DEF Crash, Fault, IInv, IntentInv, TypeOK, UpInv
  <1>6. RefsInv'
    BY DEF Crash, Fault, IInv, IntentInv, TypeOK, RefsInv
  <1>7. RemovedFirst'
    BY DEF Crash, Fault, IInv, IntentInv, TypeOK, RemovedFirst
  <1>8. PlanInv'
    BY DEF Crash, Fault, IInv, IntentInv, TypeOK, PlanInv
  <1> QED
    BY <1>1, <1>2, <1>3, <1>4, <1>5, <1>6, <1>7, <1>8 DEF IInv, IntentInv

(* Every step of Blobs preserves the invariant. *)
LEMMA NextIInv == IInv /\ [Next]_vars => IInv'
  <1> SUFFICES ASSUME IInv, [Next]_vars PROVE IInv'
    OBVIOUS
  <1>1. ASSUME UNCHANGED vars PROVE IInv'
    BY <1>1
    DEF vars, database, procs, history, IInv, IntentInv, TypeOK, DoneMeansGone, RowsHaveBytes,
        EveryByteHasAnOwner, Live, Uploading, UpInv, RefsInv, RemovedFirst, PlanInv
  <1>2. ASSUME NEW b \in Blobs, Upload(b) \/ Expire(b) \/ Finalize(b) \/ LeaseLapses(b) PROVE IInv'
    BY <1>2, UploadMovesIInv, UploadBytesIInv, RowsIInv, LeaseLapsesIInv DEF Upload
  <1>3. ASSUME NEW p \in Procs, Request(p) PROVE IInv'
    BY <1>3, SweepIInv, ReadsIInv, DeleteAttachmentIInv, DeleteIssueIInv, DeleteProjectIInv DEF Request
  <1>4. ASSUME NEW p \in Procs, ClaimIntent(p) \/ Clean(p) \/ DeleteBytesFails(p) \/ Crash(p) PROVE IInv'
    BY <1>4, ClaimIntentIInv, BytesIInv, CrashIInv DEF Clean
  <1> QED
    BY <1>1, <1>2, <1>3, <1>4 DEF Next

(***************************************************************************)
(* The inductive invariant holds in every reachable state.                 *)
(***************************************************************************)
THEOREM IInvHolds == Spec => []IInv
  BY InitIInv, NextIInv, PTL DEF Spec

(***************************************************************************)
(* An intent is completed only when its bytes are gone for good, and no    *)
(* process keeps a reference or a plan after its end, for any number of    *)
(* requests, workers and faults (CompleteAttachmentBlobDeletion).          *)
(***************************************************************************)
THEOREM IntentsAreKept == Spec => []IntentInv
  <1>1. IInv => IntentInv
    BY DEF IInv
  <1> QED
    BY IInvHolds, <1>1, PTL

(***************************************************************************)
(* The file behind a row can be read, unless the row was committed while   *)
(* its upload was told otherwise (AddAttachment).                          *)
(***************************************************************************)
THEOREM FilesCanBeRead == Spec => []RowsHaveBytes
  <1>1. IInv => RowsHaveBytes
    BY DEF IInv
  <1> QED
    BY IInvHolds, <1>1, PTL

(***************************************************************************)
(* Bytes in the store have a row, an open intent or a busy request, but    *)
(* for those of a dead upload or sweep and of rows that a project deletion *)
(* overlooked (DeleteAttachment, DeleteProject, the deletion worker).      *)
(***************************************************************************)
THEOREM BytesAreOwned == Spec => []EveryByteHasAnOwner
  <1>1. IInv => EveryByteHasAnOwner
    BY DEF IInv
  <1> QED
    BY IInvHolds, <1>1, PTL
=============================================================================
