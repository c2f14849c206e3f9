------------------------------- MODULE Outbox -------------------------------
(***************************************************************************)
(* The outbox of a browser replica (cmd/client, internal/syncclient,       *)
(* web/static/app.js) and the web handlers it replays its commands to      *)
(* (internal/web).  One work item, whose edits set one field, and its      *)
(* comments.                                                               *)
(*                                                                         *)
(* A maintenance pass syncs and then sends the head of the queue, one      *)
(* request at a time.  A request may be given up (five seconds, or the     *)
(* network goes) before the server has handled it, while it is handled, or *)
(* when only its reply is missing: the copy the worker gave up may still   *)
(* be handled later.  The command stays queued and is sent again.          *)
(*                                                                         *)
(* The field is the summary.  A text says something, the number of the     *)
(* command that said it first, and may have blanks around it: the server   *)
(* stores an edit without them, the replica shows them.                    *)
(***************************************************************************)
EXTENDS Naturals, Sequences, FiniteSetsExt

CONSTANTS Accounts,     \* people who use this browser
          NoAccount,    \* signed out, or no page open
          Other,        \* somebody else, and what their edits say
          NoRequest,    \* no request is in flight
          Blanks,       \* do texts come with blanks around them, without, or both
          MaxCommands,  \* bound on the commands queued
          MaxLosses,    \* bound on the requests given up, or refused once written
          MaxOthers     \* bound on the edits of other people

ASSUME AccountAssumption == NoAccount \notin Accounts
ASSUME ValueAssumption == Other \notin Nat
ASSUME RequestAssumption ==
    NoRequest \notin [cmd : Nat, kind : {"edit", "comment"}, marker : Nat,
                      text : [says : Nat \cup {Other}, blanks : BOOLEAN],
                      base : Nat, as : Accounts \cup {NoAccount}]
ASSUME BlanksAssumption == Blanks \subseteq BOOLEAN
ASSUME BoundAssumption ==
    MaxCommands \in Nat /\ MaxLosses \in Nat /\ MaxOthers \in Nat

VARIABLES
    log,       \* the actions on the work item, the first being its creation
    session,   \* the account the browser is signed in as
    owner,     \* the account whose page is open over this replica
    queue,     \* the outbox: commands in the order they were saved
    refused,   \* the head of the queue carries a refused_status
    next,      \* the number of the next command
    author,    \* author[c]: whose page queued command c
    dialog,    \* the version named by a dialog the server rendered, or 0
    pass,      \* the worker: "idle", "sync", "page", "revoked", "drain", "sent"
    to,        \* the boundary of the sync page
    wire,      \* the request that the worker waits for
    reply,     \* its answer: "none", "accepted", "conflict" or "refused"
    late,      \* requests given up that the server may still handle
    losses,    \* how many requests were given up, or refused once written
    cp,        \* the checkpoint of the replica
    shown,     \* the value of the field in the replica
    local,     \* optimistic comments in the replica, by command
    done,      \* history: commands the server has carried out
    purged     \* history: commands taken away with the replica

server == <<log, session>>
outbox == <<queue, refused, next, author>>
request == <<wire, reply, late, losses>>
replica == <<cp, shown, local>>
history == <<done, purged>>
vars == <<server, owner, outbox, dialog, pass, to, request, replica, history>>

Ids == 1..MaxCommands
Kinds == {"edit", "comment"}
Texts == [says : Ids \cup {0, Other}, blanks : BOOLEAN]

Plain(n) == [says |-> n, blanks |-> FALSE]
Trimmed(text) == Plain(text.says)

(* What the log says: the version of the work item and its field. *)
Edits(n) == {s \in 1..n : log[s].kind = "edit"}
VersionAt(n) == IF Edits(n) = {} THEN 0 ELSE Max(Edits(n))
Version == VersionAt(Len(log))
Value == log[Version].value
Others == {s \in 1..Len(log) : log[s].by = Other}

Init ==
    /\ log = <<[kind |-> "edit", value |-> Plain(0), by |-> 0]>>
    /\ session \in Accounts /\ owner = session
    /\ queue = <<>> /\ refused = FALSE /\ next = 1
    /\ author = [c \in Ids |-> NoAccount]
    /\ dialog = 0 /\ pass = "idle" /\ to = 0
    /\ wire = NoRequest /\ reply = "none" /\ late = {} /\ losses = 0
    /\ cp = 1 /\ shown = Plain(0) /\ local = {}
    /\ done = {} /\ purged = {}
-----------------------------------------------------------------------------
(* The page.  A dialog rendered by the server names the version it shows;  *)
(* one rendered from the replica names none, nor does a comment.           *)
OpenDialog ==
    /\ owner # NoAccount /\ session = owner
    /\ dialog' = Version
    /\ UNCHANGED <<server, owner, outbox, pass, to, request, replica, history>>

(* enqueueMessage: the command and its display, in one transaction; the    *)
(* display is the text as it was typed (applyOptimistic).                  *)
Enqueue(kind, marker, text) ==
    /\ owner # NoAccount /\ next <= MaxCommands
    /\ queue' = Append(queue, [cmd |-> next, kind |-> kind, marker |-> marker,
                               text |-> text])
    /\ author' = [author EXCEPT ![next] = owner]
    /\ next' = next + 1
    /\ IF kind = "edit" THEN shown' = text /\ UNCHANGED local
                        ELSE local' = local \cup {next} /\ UNCHANGED shown
    /\ dialog' = IF kind = "edit" THEN 0 ELSE dialog
    /\ UNCHANGED <<server, owner, refused, pass, to, request, cp, history>>

(* An edit says something new, or what the field says already. *)
Typed == [says : {next, shown.says}, blanks : Blanks]

EnqueueAny ==
    \/ Enqueue("comment", 0, Plain(next))
    \/ \E m \in {0, dialog}, text \in Typed : Enqueue("edit", m, text)

(* retry-outbox clears the refusal of the head and starts a pass. *)
RetryOutbox ==
    /\ refused
    /\ refused' = FALSE
    /\ UNCHANGED <<server, owner, queue, next, author, dialog, pass, to, request,
                   replica, history>>

(* The page is loaded again under whoever is signed in by now. *)
Reload ==
    /\ session # NoAccount /\ owner # session
    /\ owner' = session /\ dialog' = 0
    /\ UNCHANGED <<server, outbox, pass, to, request, replica, history>>
-----------------------------------------------------------------------------
(* Accounts.  Ending a session ends it for the requests that carry it: one *)
(* the handler has not admitted yet is answered 401, one it has goes on.   *)
Waiting == wire # NoRequest /\ reply = "none"

EndSession ==
    /\ session # NoAccount
    /\ session' = NoAccount
    /\ late' = {r \in late : r.base # 0}
    /\ reply' = IF Waiting /\ wire.base = 0 THEN "refused" ELSE reply
    /\ UNCHANGED <<log, owner, outbox, dialog, pass, to, wire, losses, replica, history>>

SignIn(a) ==
    /\ session = NoAccount
    /\ session' = a
    /\ UNCHANGED <<log, owner, outbox, dialog, pass, to, request, replica, history>>

(* Another client may store a summary with its blanks (the REST handlers). *)
OtherEdit ==
    /\ Cardinality(Others) < MaxOthers
    /\ \E text \in [says : {Other}, blanks : Blanks] :
          /\ Value # text
          /\ log' = Append(log, [kind |-> "edit", value |-> text, by |-> Other])
    /\ UNCHANGED <<session, owner, outbox, dialog, pass, to, request, replica, history>>
-----------------------------------------------------------------------------
(***************************************************************************)
(* The handlers admit a request for the account that is signed in (as) and *)
(* read the work item (base, the version they read).  EditIssue then       *)
(* refuses an edit composed on another version, and hands the version it   *)
(* read to UpdateIssue, which refuses the write if the work item has moved *)
(* since, and writes nothing if the trimmed summary is the one stored.     *)
(* AddComment has no such check.                                           *)
(***************************************************************************)
Reads(r) == r.base = 0 /\ (r.kind = "comment" \/ r.marker \in {0, Version})
Admitted(r) == [r EXCEPT !.base = Version, !.as = session]
Conflicts(r) ==
    /\ r.kind = "edit"
    /\ IF r.base = 0 THEN r.marker \notin {0, Version} ELSE r.base # Version
Writes(r) == r.base # 0 /\ (r.kind = "comment" \/ r.base = Version)

Written(r) ==
    /\ log' = IF r.kind = "edit" /\ Value = Trimmed(r.text) THEN log
              ELSE Append(log, [kind |-> r.kind, value |-> Trimmed(r.text), by |-> r.cmd])
    /\ done' = done \cup {r.cmd}

HandleRead ==
    /\ Waiting /\ Reads(wire)
    /\ wire' = Admitted(wire)
    /\ UNCHANGED <<server, owner, outbox, dialog, pass, to, reply, late, losses,
                   replica, history>>

(* What follows the commit may fail, and is answered 400 all the same. *)
HandleWrite ==
    /\ Waiting /\ Writes(wire)
    /\ Written(wire)
    /\ \/ reply' = "accepted" /\ UNCHANGED losses
       \/ reply' = "refused" /\ losses < MaxLosses /\ losses' = losses + 1
    /\ UNCHANGED <<session, owner, outbox, dialog, pass, to, wire, late, replica, purged>>

HandleConflict ==
    /\ Waiting /\ Conflicts(wire)
    /\ reply' = "conflict"
    /\ UNCHANGED <<server, owner, outbox, dialog, pass, to, wire, late, losses,
                   replica, history>>

(* A permission, a validation rule or a missing work item: 400, 403, 404. *)
HandleRefuse ==
    /\ Waiting /\ wire.base = 0
    /\ reply' = "refused"
    /\ UNCHANGED <<server, owner, outbox, dialog, pass, to, wire, late, losses,
                   replica, history>>

(* The same for a request whose sender has given up. *)
HandleLate ==
    \E r \in late :
        /\ \/ /\ Reads(r)
              /\ late' = (late \ {r}) \cup {Admitted(r)}
              /\ UNCHANGED <<log, done>>
           \/ Writes(r) /\ Written(r) /\ late' = late \ {r}
           \/ Conflicts(r) /\ late' = late \ {r} /\ UNCHANGED <<log, done>>
        /\ UNCHANGED <<session, owner, outbox, dialog, pass, to, wire, reply, losses,
                       replica, purged>>
-----------------------------------------------------------------------------
(* The worker: a pass begins with a sync, and only goes on if it is 200 or *)
(* 304 (maintenancePass).                                                  *)
StartPass ==
    /\ pass = "idle"
    /\ pass' = "sync"
    /\ UNCHANGED <<server, owner, outbox, dialog, to, request, replica, history>>

SyncAnswer ==
    /\ pass = "sync"
    /\ IF session = NoAccount THEN pass' = "revoked" /\ UNCHANGED to
                              ELSE pass' = "page" /\ to' = Len(log)
    /\ UNCHANGED <<server, owner, outbox, dialog, request, replica, history>>

SyncFails ==
    /\ pass \in {"sync", "page", "revoked"}
    /\ pass' = "idle"
    /\ UNCHANGED <<server, owner, outbox, dialog, to, request, replica, history>>

\* Mutation: a pass ends with the page it has applied.
SyncApplyEnding ==
    /\ pass = "page"
    /\ cp' = to
    /\ shown' = IF VersionAt(to) > cp THEN log[VersionAt(to)].value ELSE shown
    /\ pass' = "idle"
    /\ UNCHANGED <<server, owner, outbox, dialog, to, request, local, history>>

SyncApply ==
    /\ pass = "page"
    /\ cp' = to
    /\ shown' = IF VersionAt(to) > cp THEN log[VersionAt(to)].value ELSE shown
    /\ pass' = "drain"
    /\ UNCHANGED <<server, owner, outbox, dialog, to, request, local, history>>

\* Mutation: the purge leaves the outbox.
PurgeKeepingOutbox ==
    /\ pass = "revoked"
    /\ cp' = 0 /\ shown' = Plain(0) /\ local' = {}
    /\ purged' = purged \cup {queue[k].cmd : k \in 1..Len(queue)}
    /\ owner' = NoAccount /\ dialog' = 0 /\ pass' = "idle"
    /\ UNCHANGED <<server, outbox, to, request, done>>

(* purgePrivateReplica; the page goes to /signed-out. *)
Purge ==
    /\ pass = "revoked"
    /\ cp' = 0 /\ shown' = Plain(0) /\ local' = {}
    /\ queue' = <<>> /\ refused' = FALSE
    /\ purged' = purged \cup {queue[k].cmd : k \in 1..Len(queue)}
    /\ owner' = NoAccount /\ dialog' = 0 /\ pass' = "idle"
    /\ UNCHANGED <<server, next, author, to, request, done>>

\* Mutation: a refused head is skipped.
SendPastRefused ==
    /\ pass = "drain"
    /\ \E k \in 1..Len(queue) :
          /\ k = 1 \/ refused
          /\ wire' = [cmd |-> queue[k].cmd, kind |-> queue[k].kind,
                      marker |-> queue[k].marker, text |-> queue[k].text,
                      base |-> 0, as |-> NoAccount]
    /\ reply' = IF session = NoAccount THEN "refused" ELSE "none"
    /\ pass' = "sent"
    /\ UNCHANGED <<server, owner, outbox, dialog, to, late, losses, replica, history>>

(* drainOutbox: the head, unless it was refused.  Without a session the    *)
(* answer can only be 401.                                                 *)
Send ==
    /\ pass = "drain" /\ queue # <<>> /\ ~refused
    /\ wire' = [cmd |-> Head(queue).cmd, kind |-> Head(queue).kind,
                marker |-> Head(queue).marker, text |-> Head(queue).text,
                base |-> 0, as |-> NoAccount]
    /\ reply' = IF session = NoAccount THEN "refused" ELSE "none"
    /\ pass' = "sent"
    /\ UNCHANGED <<server, owner, outbox, dialog, to, late, losses, replica, history>>

(* Nothing to send, or the ticker's one command has been sent. *)
EndPass ==
    /\ pass = "drain"
    /\ pass' = "idle"
    /\ UNCHANGED <<server, owner, outbox, dialog, to, request, replica, history>>

(* No answer, or 408, 425, 429 or a server error: the command stays. *)
GiveUp ==
    /\ pass = "sent" /\ losses < MaxLosses
    /\ late' = IF reply = "none" THEN late \cup {wire} ELSE late
    /\ wire' = NoRequest /\ reply' = "none"
    /\ losses' = losses + 1
    /\ pass' = "idle"
    /\ UNCHANGED <<server, owner, outbox, dialog, to, replica, history>>

(* 2xx: the row goes, and the next may follow at once. *)
Accept ==
    /\ pass = "sent" /\ reply = "accepted"
    /\ queue' = Tail(queue)
    /\ wire' = NoRequest /\ reply' = "none" /\ pass' = "drain"
    /\ UNCHANGED <<server, owner, refused, next, author, dialog, to, late, losses,
                   replica, history>>

\* Mutation: any answer settles the command.
RejectDropping ==
    /\ pass = "sent" /\ reply \in {"conflict", "refused"}
    /\ queue' = Tail(queue)
    /\ wire' = NoRequest /\ reply' = "none" /\ pass' = "idle"
    /\ UNCHANGED <<server, owner, refused, next, author, dialog, to, late, losses,
                   replica, history>>

(* Another 4xx: the head stays, marked, until the user retries it. *)
Reject ==
    /\ pass = "sent" /\ reply \in {"conflict", "refused"}
    /\ refused' = TRUE
    /\ wire' = NoRequest /\ reply' = "none" /\ pass' = "idle"
    /\ UNCHANGED <<server, owner, queue, next, author, dialog, to, late, losses,
                   replica, history>>
-----------------------------------------------------------------------------
Page == OpenDialog \/ EnqueueAny \/ RetryOutbox \/ Reload
World == EndSession \/ (\E a \in Accounts : SignIn(a)) \/ OtherEdit
Handler == HandleRead \/ HandleWrite \/ HandleConflict \/ HandleRefuse \/ HandleLate
Worker ==
    \/ StartPass \/ SyncAnswer \/ SyncFails \/ SyncApply \/ Purge
    \/ Send \/ EndPass \/ GiveUp \/ Accept \/ Reject

Next == Page \/ World \/ Handler \/ Worker

Spec == Init /\ [][Next]_vars

(***************************************************************************)
(* The ticker starts a pass every three seconds, not every sync fails, and *)
(* the server handles what it has been sent.  Nothing is assumed of people.*)
(***************************************************************************)
Fairness ==
    /\ WF_vars(StartPass) /\ SF_vars(SyncAnswer)
    /\ SF_vars(SyncApply) /\ SF_vars(Purge) /\ SF_vars(Send)
    /\ WF_vars(HandleRead) /\ WF_vars(HandleWrite) /\ WF_vars(HandleConflict)
    /\ WF_vars(Accept) /\ WF_vars(Reject)

FairSpec == Spec /\ Fairness
-----------------------------------------------------------------------------
Entries == [kind : Kinds, value : Texts, by : Ids \cup {0, Other}]
Commands == [cmd : Ids, kind : Kinds, marker : 0..Len(log), text : Texts]
Requests == [cmd : Ids, kind : Kinds, marker : 0..Len(log), text : Texts,
             base : 0..Len(log), as : Accounts \cup {NoAccount}]
Queued == {queue[k].cmd : k \in 1..Len(queue)}

TypeOK ==
    /\ log \in Seq(Entries)
    /\ session \in Accounts \cup {NoAccount} /\ owner \in Accounts \cup {NoAccount}
    /\ queue \in Seq(Commands)
    /\ refused \in BOOLEAN /\ (refused => queue # <<>>)
    /\ next \in 1..(MaxCommands + 1)
    /\ author \in [Ids -> Accounts \cup {NoAccount}]
    /\ dialog \in 0..Len(log) /\ to \in 0..Len(log) /\ cp \in 0..Len(log)
    /\ pass \in {"idle", "sync", "page", "revoked", "drain", "sent"}
    /\ wire \in Requests \cup {NoRequest} /\ (wire # NoRequest <=> pass = "sent")
    /\ reply \in {"none", "accepted", "conflict", "refused"}
    /\ late \in SUBSET Requests /\ losses \in 0..MaxLosses
    /\ shown \in Texts
    /\ local \in SUBSET Ids /\ done \in SUBSET Ids /\ purged \in SUBSET Ids

(***************************************************************************)
(* A command the user was told is saved is still queued, was carried out,  *)
(* or went with the replica of a session that ended (drainOutbox and       *)
(* DispositionForStatus): no timeout, refusal or reload drops it.          *)
(***************************************************************************)
NoCommandLost == \A c \in 1..(next - 1) : c \in Queued \cup done \cup purged

(***************************************************************************)
(* No command is carried out before one that was saved earlier, however    *)
(* often either is resent or refused ("preserve ordering until the user    *)
(* explicitly retries").                                                   *)
(***************************************************************************)
CarriedOutInOrder == \A c \in done : 1..(c - 1) \subseteq done \cup purged

(* Well-typed, every command accounted for, none overtaken. *)
OutboxInv == TypeOK /\ NoCommandLost /\ CarriedOutInOrder

(***************************************************************************)
(* With the outbox empty and the log applied, the field says what the      *)
(* server's says: no optimistic value outlives its command by more than    *)
(* the blanks around it, not even when the command changed nothing, was    *)
(* sent twice or was written before an edit of somebody else.              *)
(***************************************************************************)
Drained == queue = <<>> /\ pass = "idle" /\ cp = Len(log)

DrainedFieldIsServers == Drained => Trimmed(shown) = Trimmed(Value)

(***************************************************************************)
(* cmd/client/main.go:1127: "Server-wins: authoritative rows replace local *)
(* ones", so that what is left in the end is the text the server stores.   *)
(***************************************************************************)
AuthoritativeTextReplaces == Drained => shown = Value

(***************************************************************************)
(* What was purged is never sent or admitted afterwards, and is only       *)
(* carried out for a request that the server had admitted before the purge *)
(* and whose sender had given it up (purgePrivateReplica).                 *)
(***************************************************************************)
PurgedNeverRuns ==
    [][/\ \A c \in purged \cap done' : c \in done \/ \E r \in late : r.cmd = c /\ r.base # 0
       /\ \A r \in late' \cup ({wire'} \ {NoRequest}) : r.cmd \in purged => r \in late]_vars

(***************************************************************************)
(* A saved command is carried out, refused or purged in the end: of the    *)
(* finitely many that are saved none is left over for ever.                *)
(***************************************************************************)
EveryCommandIsSettled ==
    []<>(\A c \in 1..(next - 1) : c \in done \cup purged \/ refused)

(***************************************************************************)
(* internal/web/web.go:3010: an edit is refused with 409 when "somebody    *)
(* else's change" landed after the dialog was opened.                      *)
(***************************************************************************)
ConflictMeansSomebodyElse ==
    (reply = "conflict" /\ wire.marker # 0) =>
        \E s \in Others : s > wire.marker

(***************************************************************************)
(* internal/syncclient/policy.go:38: "A private offline copy must be       *)
(* purged before a different user or a restored account can reuse the      *)
(* browser context", so a command runs as the account that queued it.      *)
(***************************************************************************)
CommandsRunAsTheirAuthor ==
    \A r \in late \cup ({wire} \ {NoRequest}) : r.base # 0 => r.as = author[r.cmd]
=============================================================================
