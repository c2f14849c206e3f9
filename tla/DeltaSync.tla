----------------------------- MODULE DeltaSync -----------------------------
(***************************************************************************)
(* Permission-shaped delta sync of one project: the commands that change   *)
(* work items and who may see them (internal/store, internal/commands),    *)
(* the two-statement read behind GET /sync and the snapshot behind         *)
(* GET /bootstrap (internal/syncapi, internal/store), and the replica a    *)
(* browser worker keeps (cmd/client).                                      *)
(*                                                                         *)
(* A command appends its actions and changes the tables in one             *)
(* transaction; ActionLog shows that committed actions form a sequence, so *)
(* here the log is a sequence and a transaction is a step.  What is not    *)
(* one transaction is kept apart: UpdateIssue commits a security level and *)
(* only then works out who it excludes and appends one tombstone for each  *)
(* of them, in transactions of their own.                                  *)
(*                                                                         *)
(* The content of a work item is the sequence number of its last update    *)
(* (issues.updated_seq); a comment is the sequence number it was created   *)
(* with.  The users are members without administrator roles, which see     *)
(* every work item of the project unless a security level hides it.        *)
(***************************************************************************)
EXTENDS Naturals, Sequences, SequencesExt

CONSTANTS Issues,    \* work items of the project
          Users,     \* members with a browser replica
          Nobody,    \* the addressee of an action that is not a tombstone
          Seed,      \* a row taken from a rendered page, not from the log
          MaxSeq,    \* bound on the length of the log
          Limit      \* rows in a page

ASSUME IssueAssumption == IsFiniteSet(Issues)
ASSUME UserAssumption == Nobody \notin Users
ASSUME SeedAssumption == Seed \notin Nat
ASSUME BoundAssumption == MaxSeq \in Nat /\ Limit \in Nat \ {0}

VARIABLES
    log,          \* the committed actions
    state,        \* state[i]: "none", "live", "archived" or "gone"
    content,      \* content[i]: issues.updated_seq
    thread,       \* thread[i]: the comments in the table
    active,       \* the project is neither archived nor trashed
    restricted,   \* the work items that carry a security level
    cleared,      \* the users that hold the level
    member,       \* the users that are members of the workspace
    restricting,  \* issues whose new level is committed, its exclusions not yet computed
    owed,         \* <<i, u>>: a tombstone that UpdateIssue has still to append
    rep,          \* rep[u][i]: the row of i in u's replica: 0 absent, Seed, or its content
    repThread,    \* repThread[u][i]: the comments of i in u's replica
    cp,           \* cp[u]: the checkpoint of u's replica
    phase,        \* phase[u]: "idle", "page", "reply" or "snapshot"
    to,           \* to[u]: the boundary of the page, or the head of the snapshot
    got,          \* got[u]: the actions of the page
    snap,         \* snap[u]: the rows of the snapshot
    opened,       \* opened[u]: work items that a tab of u shows
    gaps,         \* history: <<i, u>> hidden from u, or taken away, at some time
    leaks         \* history: <<i, u>> hidden from u with nothing to announce it

tables == <<state, content, thread, active, restricted>>
access == <<cleared, member>>
command == <<restricting, owed>>
replica == <<rep, repThread, cp>>
request == <<phase, to, got, snap>>
history == <<gaps, leaks>>
vars == <<log, tables, access, command, replica, request, opened, history>>

Seqs == 1..MaxSeq
HeadSeq == Len(log)
Pairs == Issues \X Users

Entry(op, i, ver, u) == [op |-> op, issue |-> i, ver |-> ver, user |-> u]
Upsert(i, ver) == Entry("upsert", i, ver, Nobody)
Delete(i) == Entry("delete", i, 0, Nobody)
Comment(i, c) == Entry("comment", i, c, Nobody)
Tombstone(i, u) == Entry("tombstone", i, 0, u)

(* canSeeIssue, asked of the tables as they are now. *)
Visible(i, u) == active /\ u \in member /\ (i \in restricted => u \in cleared)

NoRows == [i \in Issues |-> 0]
NoThreads == [i \in Issues |-> {}]
NoSnapshot == [rows |-> NoRows, threads |-> NoThreads]

Init ==
    /\ log = <<>>
    /\ state = [i \in Issues |-> "none"]
    /\ content = NoRows
    /\ thread = NoThreads
    /\ active = TRUE
    /\ restricted = {}
    /\ cleared \in {{}, Users}
    /\ member = Users
    /\ restricting = {} /\ owed = {}
    /\ rep = [u \in Users |-> NoRows]
    /\ repThread = [u \in Users |-> NoThreads]
    /\ cp = [u \in Users |-> 0]
    /\ phase = [u \in Users |-> "idle"]
    /\ to = [u \in Users |-> 0]
    /\ got = [u \in Users |-> {}]
    /\ snap = [u \in Users |-> NoSnapshot]
    /\ opened = [u \in Users |-> {}]
    /\ gaps = {} /\ leaks = {}
-----------------------------------------------------------------------------
(* Commands.  Append takes the next sequence number. *)
AppendTo(entries) ==
    /\ HeadSeq + Len(entries) <= MaxSeq
    /\ log' = log \o entries

Live(i) == active /\ state[i] = "live"

(* Who does not see i at the end of this step. *)
NoteGaps == gaps' = gaps \cup {p \in Pairs : state'[p[1]] # "none" /\ ~Visible(p[1], p[2])'}

CreateIssue(i) ==
    /\ active /\ state[i] = "none"
    /\ AppendTo(<<Upsert(i, HeadSeq + 1)>>)
    /\ state' = [state EXCEPT ![i] = "live"]
    /\ content' = [content EXCEPT ![i] = HeadSeq + 1]
    /\ restricted' \in {restricted, restricted \cup {i}}
    /\ UNCHANGED <<thread, active, access, command, replica, request, opened, leaks>>
    /\ NoteGaps

EditIssue(i) ==
    /\ Live(i)
    /\ AppendTo(<<Upsert(i, HeadSeq + 1)>>)
    /\ content' = [content EXCEPT ![i] = HeadSeq + 1]
    /\ UNCHANGED <<state, thread, active, restricted, access, command, replica,
                   request, opened, history>>

(* UpdateIssue with another security level: the transaction in the store. *)
SetLevel(i) ==
    /\ Live(i) /\ i \notin restricted
    /\ AppendTo(<<Upsert(i, HeadSeq + 1)>>)
    /\ content' = [content EXCEPT ![i] = HeadSeq + 1]
    /\ restricted' = restricted \cup {i}
    /\ restricting' = restricting \cup {i}
    /\ UNCHANGED <<state, thread, active, access, owed, replica, request, opened, leaks>>
    /\ NoteGaps

(* ... the members the level excludes, read after that commit ... *)
ComputeExcluded(i) ==
    /\ i \in restricting
    /\ restricting' = restricting \ {i}
    /\ owed' = owed \cup ({i} \X (member \ cleared))
    /\ UNCHANGED <<log, tables, access, replica, request, opened, history>>

(* ... and one transaction for each of them. *)
EmitTombstone(i, u) ==
    /\ <<i, u>> \in owed
    /\ AppendTo(<<Tombstone(i, u)>>)
    /\ owed' = owed \ {<<i, u>>}
    /\ gaps' = gaps \cup {<<i, u>>}
    /\ UNCHANGED <<tables, access, restricting, replica, request, opened, leaks>>

(* The server dies, or an append fails, before all tombstones are there. *)
AbandonTombstones ==
    /\ restricting \cup owed # {}
    /\ leaks' = leaks \cup owed \cup (restricting \X (Users \ cleared))
    /\ restricting' = {} /\ owed' = {}
    /\ UNCHANGED <<log, tables, access, replica, request, opened, gaps>>

ClearLevel(i) ==
    /\ Live(i) /\ i \in restricted
    /\ AppendTo(<<Upsert(i, HeadSeq + 1)>>)
    /\ content' = [content EXCEPT ![i] = HeadSeq + 1]
    /\ restricted' = restricted \ {i}
    /\ UNCHANGED <<state, thread, active, access, command, replica, request, opened, history>>

AddComment(i) ==
    /\ Live(i)
    /\ AppendTo(<<Comment(i, HeadSeq + 1)>>)
    /\ thread' = [thread EXCEPT ![i] = @ \cup {HeadSeq + 1}]
    /\ UNCHANGED <<state, content, active, restricted, access, command, replica,
                   request, opened, history>>

(* DeleteIssue keeps what decides its visibility (deleted_issue_visibility). *)
DeleteIssue(i) ==
    /\ Live(i)
    /\ AppendTo(<<Delete(i)>>)
    /\ state' = [state EXCEPT ![i] = "gone"]
    /\ content' = [content EXCEPT ![i] = 0]
    /\ thread' = [thread EXCEPT ![i] = {}]
    /\ UNCHANGED <<active, restricted, access, command, replica, request, opened, history>>

(* setIssueArchived, both ways; a restored issue is republished alone. *)
ArchiveIssue(i) ==
    /\ Live(i)
    /\ AppendTo(<<Delete(i)>>)
    /\ state' = [state EXCEPT ![i] = "archived"]
    /\ content' = [content EXCEPT ![i] = HeadSeq + 1]
    /\ UNCHANGED <<thread, active, restricted, access, command, replica, request,
                   opened, history>>

RestoreIssue(i) ==
    /\ active /\ state[i] = "archived"
    /\ AppendTo(<<Upsert(i, HeadSeq + 1)>>)
    /\ state' = [state EXCEPT ![i] = "live"]
    /\ content' = [content EXCEPT ![i] = HeadSeq + 1]
    /\ gaps' = gaps \cup ({i} \X Users)
    /\ UNCHANGED <<thread, active, restricted, access, command, replica, request,
                   opened, leaks>>
-----------------------------------------------------------------------------
(* The project: setProjectLifecycle writes an action for every work item,  *)
(* archived ones too.  It takes them by number; here any order will do.    *)
Stored == {i \in Issues : state[i] \in {"live", "archived"}}

ArchiveProject ==
    /\ active /\ Stored # {}
    /\ \E rows \in SetToSeqs({Delete(i) : i \in Stored}) : AppendTo(rows)
    /\ active' = FALSE
    /\ gaps' = Pairs /\ leaks' = Pairs
    /\ UNCHANGED <<state, content, thread, restricted, access, command, replica,
                   request, opened>>

(* All work items first, then their comments (emitRestoredIssueDetails). *)
Details == UNION {{Comment(i, c) : c \in thread[i]} : i \in Stored}

RestoreProject ==
    /\ ~active
    /\ \E rows \in SetToSeqs({Upsert(i, content[i]) : i \in Stored}) :
          \E details \in SetToSeqs(Details) : AppendTo(rows \o details)
    /\ active' = TRUE
    /\ UNCHANGED <<state, content, thread, restricted, access, command, replica,
                   request, opened, history>>
-----------------------------------------------------------------------------
(* Who holds the level, and who is a member: no action tells replicas. *)
Clear(u) ==
    /\ u \notin cleared
    /\ cleared' = cleared \cup {u}
    /\ leaks' = leaks \cup (restricting \X {u})
    /\ UNCHANGED <<log, tables, member, command, replica, request, opened, gaps>>

Unclear(u) ==
    /\ u \in cleared
    /\ cleared' = cleared \ {u}
    /\ leaks' = leaks \cup (restricted \X {u})
    /\ UNCHANGED <<log, tables, member, command, replica, request, opened>>
    /\ NoteGaps

Suspend(u) ==
    /\ u \in member
    /\ member' = member \ {u}
    /\ gaps' = gaps \cup (Issues \X {u})
    /\ leaks' = leaks \cup (Issues \X {u})
    /\ UNCHANGED <<log, tables, cleared, command, replica, request, opened>>

Reinstate(u) ==
    /\ u \notin member
    /\ member' = member \cup {u}
    /\ UNCHANGED <<log, tables, cleared, command, replica, request, opened, history>>
-----------------------------------------------------------------------------
(***************************************************************************)
(* GET /sync.  The first step is the check of the session and of the       *)
(* membership, the first read of the head and the statement that finds how *)
(* far the page reaches; the second is the statement that fetches the rows *)
(* up to there, filtered by what the user may see at that moment.          *)
(***************************************************************************)
server == <<log, tables, access, command>>

Smaller(a, b) == IF a < b THEN a ELSE b

\* Mutation: the purge forgets a table.
PurgeKeepingThreads(u) ==
    /\ phase[u] = "idle" /\ u \notin member
    /\ rep' = [rep EXCEPT ![u] = NoRows]
    /\ cp' = [cp EXCEPT ![u] = 0]
    /\ opened' = [opened EXCEPT ![u] = {}]
    /\ UNCHANGED <<server, repThread, request, history>>

(* 401 or 403: the worker purges its replica, and the page is left. *)
Purge(u) ==
    /\ phase[u] = "idle" /\ u \notin member
    /\ rep' = [rep EXCEPT ![u] = NoRows]
    /\ repThread' = [repThread EXCEPT ![u] = NoThreads]
    /\ cp' = [cp EXCEPT ![u] = 0]
    /\ opened' = [opened EXCEPT ![u] = {}]
    /\ UNCHANGED <<server, request, history>>

(* With nothing after the checkpoint the answer is 304 and nothing changes. *)
RequestPage(u) ==
    /\ phase[u] = "idle" /\ u \in member /\ cp[u] < HeadSeq
    /\ to' = [to EXCEPT ![u] = Smaller(cp[u] + Limit, HeadSeq)]
    /\ phase' = [phase EXCEPT ![u] = "page"]
    /\ UNCHANGED <<server, replica, got, snap, opened, history>>

Shown(u, s) ==
    IF log[s].op = "tombstone" THEN log[s].user = u ELSE Visible(log[s].issue, u)

\* Mutation: tombstones are filtered like the other actions of a work item.
ReadPageHidingTombstones(u) ==
    /\ phase[u] = "page"
    /\ got' = [got EXCEPT ![u] =
                  {s \in (cp[u] + 1)..to[u] : Shown(u, s) /\ Visible(log[s].issue, u)}]
    /\ phase' = [phase EXCEPT ![u] = "reply"]
    /\ UNCHANGED <<server, replica, to, snap, opened, history>>

\* Mutation: the page ends at the last action the user was shown.
ReadPageToLastShown(u) ==
    LET shown == {s \in (cp[u] + 1)..to[u] : Shown(u, s)} IN
    /\ phase[u] = "page"
    /\ got' = [got EXCEPT ![u] = shown]
    /\ to' = [to EXCEPT ![u] = Max(shown \cup {cp[u]})]
    /\ phase' = [phase EXCEPT ![u] = "reply"]
    /\ UNCHANGED <<server, replica, snap, opened, history>>

ReadPage(u) ==
    /\ phase[u] = "page"
    /\ got' = [got EXCEPT ![u] = {s \in (cp[u] + 1)..to[u] : Shown(u, s)}]
    /\ phase' = [phase EXCEPT ![u] = "reply"]
    /\ UNCHANGED <<server, replica, to, snap, opened, history>>

(***************************************************************************)
(* GET /bootstrap, asked for by an empty replica: the head and the rows    *)
(* the user may see come from one REPEATABLE READ snapshot.                *)
(***************************************************************************)
Fresh(u) == cp[u] = 0 /\ rep[u] = NoRows

RequestSnapshot(u) ==
    LET held == {i \in Issues : state[i] = "live" /\ Visible(i, u)} IN
    /\ phase[u] = "idle" /\ u \in member /\ Fresh(u)
    /\ snap' = [snap EXCEPT ![u] =
                  [rows |-> [i \in Issues |-> IF i \in held THEN content[i] ELSE 0],
                   threads |-> [i \in Issues |-> IF i \in held THEN thread[i] ELSE {}]]]
    /\ to' = [to EXCEPT ![u] = HeadSeq]
    /\ phase' = [phase EXCEPT ![u] = "snapshot"]
    /\ UNCHANGED <<server, replica, got, opened, history>>

(* The request times out, the network or the server fails, the tab reloads. *)
LoseReply(u) ==
    /\ phase[u] # "idle"
    /\ phase' = [phase EXCEPT ![u] = "idle"]
    /\ to' = [to EXCEPT ![u] = 0]
    /\ got' = [got EXCEPT ![u] = {}]
    /\ snap' = [snap EXCEPT ![u] = NoSnapshot]
    /\ UNCHANGED <<server, replica, opened, history>>
-----------------------------------------------------------------------------
(* The replica.  Both replies are applied in one SQLite transaction. *)
Answered(u) ==
    /\ phase' = [phase EXCEPT ![u] = "idle"]
    /\ to' = [to EXCEPT ![u] = 0]
    /\ got' = [got EXCEPT ![u] = {}]
    /\ snap' = [snap EXCEPT ![u] = NoSnapshot]
    /\ UNCHANGED <<server, opened, history>>

(* The actions of a page that decide the row of i, and those that empty it. *)
RowActions(page, i) == {s \in page : log[s].issue = i /\ log[s].op # "comment"}
Wipes(page, i) == {s \in RowActions(page, i) : log[s].op # "upsert"}
Comments(page, i) == {s \in page : log[s].issue = i /\ log[s].op = "comment"}

(* apply, for each action of the page in the order of the log. *)
RowAfter(old, page, i) ==
    IF RowActions(page, i) = {} THEN old ELSE log[Max(RowActions(page, i))].ver

ThreadAfter(old, page, i) ==
    {c \in old : Wipes(page, i) = {}}
        \cup {log[s].ver : s \in {x \in Comments(page, i) : \A w \in Wipes(page, i) : w < x}}

Apply(u) ==
    /\ phase[u] = "reply"
    /\ rep' = [rep EXCEPT ![u] = [i \in Issues |-> RowAfter(@[i], got[u], i)]]
    /\ repThread' = [repThread EXCEPT ![u] = [i \in Issues |-> ThreadAfter(@[i], got[u], i)]]
    /\ cp' = [cp EXCEPT ![u] = to[u]]
    /\ Answered(u)

\* Mutation: the checkpoint of a snapshot is the head read after it.
ApplySnapshotAtHead(u) ==
    /\ phase[u] = "snapshot"
    /\ rep' = [rep EXCEPT ![u] = [i \in Issues |->
                  IF snap[u].rows[i] = 0 THEN @[i] ELSE snap[u].rows[i]]]
    /\ repThread' = [repThread EXCEPT ![u] = [i \in Issues |-> @[i] \cup snap[u].threads[i]]]
    /\ cp' = [cp EXCEPT ![u] = HeadSeq]
    /\ Answered(u)

ApplySnapshot(u) ==
    /\ phase[u] = "snapshot"
    /\ rep' = [rep EXCEPT ![u] = [i \in Issues |->
                  IF snap[u].rows[i] = 0 THEN @[i] ELSE snap[u].rows[i]]]
    /\ repThread' = [repThread EXCEPT ![u] = [i \in Issues |-> @[i] \cup snap[u].threads[i]]]
    /\ cp' = [cp EXCEPT ![u] = to[u]]
    /\ Answered(u)

(***************************************************************************)
(* A tab renders a work item on the server and, when the page is ready and *)
(* again whenever part of it is swapped, hands the rendered fields to the  *)
(* worker (seed-view), which stores them if it has no row for the item.    *)
(***************************************************************************)
OpenPage(u, i) ==
    /\ state[i] = "live" /\ Visible(i, u) /\ i \notin opened[u]
    /\ opened' = [opened EXCEPT ![u] = @ \cup {i}]
    /\ UNCHANGED <<server, replica, request, history>>

SeedView(u, i) ==
    /\ i \in opened[u] /\ rep[u][i] = 0
    /\ rep' = [rep EXCEPT ![u][i] = Seed]
    /\ leaks' = IF state[i] = "live" /\ Visible(i, u) THEN leaks ELSE leaks \cup {<<i, u>>}
    /\ UNCHANGED <<server, repThread, cp, request, opened, gaps>>
-----------------------------------------------------------------------------
CommandStep ==
    \/ \E i \in Issues :
          \/ CreateIssue(i) \/ EditIssue(i) \/ AddComment(i) \/ DeleteIssue(i)
          \/ SetLevel(i) \/ ComputeExcluded(i) \/ ClearLevel(i)
          \/ ArchiveIssue(i) \/ RestoreIssue(i)
          \/ \E u \in Users : EmitTombstone(i, u)
    \/ AbandonTombstones
    \/ ArchiveProject \/ RestoreProject
    \/ \E u \in Users : Clear(u) \/ Unclear(u) \/ Suspend(u) \/ Reinstate(u)

ReplicaStep(u) ==
    \/ Purge(u) \/ RequestPage(u) \/ ReadPage(u) \/ RequestSnapshot(u)
    \/ Apply(u) \/ ApplySnapshot(u) \/ LoseReply(u)
    \/ \E i \in Issues : OpenPage(u, i) \/ SeedView(u, i)

Next == CommandStep \/ \E u \in Users : ReplicaStep(u)

Spec == Init /\ [][Next]_vars

(***************************************************************************)
(* The worker's ticker asks every three seconds, is refused or answered,   *)
(* and not every request and every answer is lost.  Nothing is assumed of  *)
(* people, of commands or of the network beyond that.                      *)
(***************************************************************************)
Fairness ==
    \A u \in Users : /\ WF_vars(Purge(u) \/ RequestPage(u))
                     /\ SF_vars(ReadPage(u))
                     /\ SF_vars(Apply(u) \/ ApplySnapshot(u))

FairSpec == Spec /\ Fairness
-----------------------------------------------------------------------------
(* What the log says about i up to n, read by u who sees all of it but the *)
(* tombstones of others.                                                   *)
OwnLog(u, n) == {s \in 1..n : log[s].op = "tombstone" => log[s].user = u}
RowAt(u, i, n) == RowAfter(0, OwnLog(u, n), i)
ThreadAt(u, i, n) == ThreadAfter({}, OwnLog(u, n), i)

Actions == [op : {"upsert", "delete", "comment", "tombstone"}, issue : Issues,
            ver : 0..HeadSeq, user : Users \cup {Nobody}]
Snapshots == [rows : [Issues -> 0..HeadSeq], threads : [Issues -> SUBSET (1..HeadSeq)]]

TypeOK ==
    /\ log \in Seq(Actions) /\ HeadSeq <= MaxSeq
    /\ state \in [Issues -> {"none", "live", "archived", "gone"}]
    /\ content \in [Issues -> 0..HeadSeq]
    /\ thread \in [Issues -> SUBSET (1..HeadSeq)]
    /\ active \in BOOLEAN
    /\ restricted \in SUBSET Issues
    /\ cleared \in SUBSET Users /\ member \in SUBSET Users
    /\ restricting \in SUBSET Issues
    /\ owed \in SUBSET Pairs /\ gaps \in SUBSET Pairs /\ leaks \in SUBSET Pairs
    /\ rep \in [Users -> [Issues -> 0..HeadSeq \cup {Seed}]]
    /\ repThread \in [Users -> [Issues -> SUBSET (1..HeadSeq)]]
    /\ cp \in [Users -> 0..HeadSeq]
    /\ phase \in [Users -> {"idle", "page", "reply", "snapshot"}]
    /\ to \in [Users -> 0..HeadSeq]
    /\ got \in [Users -> SUBSET (1..HeadSeq)]
    /\ snap \in [Users -> Snapshots]
    /\ opened \in [Users -> SUBSET Issues]

(***************************************************************************)
(* For a work item whose actions were never kept from the user, the        *)
(* replica is the log replayed up to its checkpoint, whether it got there  *)
(* by a snapshot, by pages or by both, and whatever was lost on the way    *)
(* (BootstrapSnapshot, ActionPageSince, syncOnce).  A row taken from a     *)
(* rendered page stands only where the log has none.                       *)
(***************************************************************************)
ReplicaIsPrefixOfLog ==
    \A u \in Users, i \in Issues :
        <<i, u>> \notin gaps =>
            /\ rep[u][i] = RowAt(u, i, cp[u]) \/ (rep[u][i] = Seed /\ RowAt(u, i, cp[u]) = 0)
            /\ repThread[u][i] = ThreadAt(u, i, cp[u])

(* Well-typed, and a copy of the log up to the checkpoint. *)
ReplicaInv == TypeOK /\ ReplicaIsPrefixOfLog

(***************************************************************************)
(* A replica that is caught up holds nothing its user may not see, if the  *)
(* tombstones for the item have all been appended (UpdateIssue,            *)
(* EmitTombstone, applyTombstone).  What UpdateIssue never announces is in *)
(* leaks: a crash between its transactions, a change of who holds the      *)
(* level, an archived project, a stale page that seeds a row.              *)
(***************************************************************************)
QuietReplicaIsAuthorised ==
    \A u \in Users, i \in Issues :
        (/\ phase[u] = "idle" /\ cp[u] = HeadSeq
         /\ i \notin restricting /\ <<i, u>> \notin owed \cup leaks
         /\ rep[u][i] # 0 \/ repThread[u][i] # {})
        => state[i] = "live" /\ Visible(i, u)

(* A member that keeps polling passes every action. *)
EveryoneCatchesUp ==
    \A u \in Users, n \in Seqs :
        HeadSeq >= n ~> (cp[u] >= n \/ u \notin member)

(* The private copy of a suspended member is purged (syncOnce, 401/403). *)
SuspensionPurges ==
    \A u \in Users :
        u \notin member ~> (u \in member \/ (Fresh(u) /\ repThread[u] = NoThreads))

(***************************************************************************)
(* mutations.go:812: "Excluded users receive these; members never do."     *)
(***************************************************************************)
TombstonesOnlyForExcluded ==
    [][\A u \in Users, i \in Issues :
          HeadSeq' > HeadSeq /\ log'[HeadSeq'] = Tombstone(i, u) => ~Visible(i, u)]_vars

(***************************************************************************)
(* docs/PROJECT_LIFECYCLE.md:31: archive actions remove the project's work *)
(* items from local replicas.                                              *)
(***************************************************************************)
ArchivedProjectLeavesReplicas ==
    \A u \in Users :
        ~active /\ phase[u] = "idle" /\ cp[u] = HeadSeq
            => \A i \in Issues : rep[u][i] \in {0, Seed}
=============================================================================
