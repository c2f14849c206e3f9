---------------------------- MODULE OutboxProofs ----------------------------
(***************************************************************************)
(* Proofs about Outbox, for any accounts and any bounds: no command is     *)
(* lost or overtaken, the drained replica shows the field the server       *)
(* holds, and what was purged never runs.                                  *)
(*                                                                         *)
(* The queue is the last stretch of the commands that were saved, and all  *)
(* the earlier ones are settled (QueueInv); a request under way is the     *)
(* head of the queue, and one that was given up had only settled commands  *)
(* before it (WireInv); from the end of a session to its purge no request  *)
(* waits to be admitted (PurgeInv); an edit that was accepted is the value *)
(* the server holds unless the replica is behind (WireInv); and the field  *)
(* shown says what that of the checkpoint says, or a later edit or a       *)
(* queued one is on its way to replace it (ShownInv).                      *)
(***************************************************************************)
EXTENDS Outbox, WellFoundedInduction, SequenceTheorems, TLAPS

Settled == done \cup purged
Underway == late \cup ({wire} \ {NoRequest})

QueueInv ==
    /\ Len(queue) < next
    /\ \A k \in 1..Len(queue) : queue[k].cmd = next - Len(queue) + k - 1
    /\ 1..(next - 1 - Len(queue)) \subseteq Settled
    /\ purged \subseteq 1..(next - 1 - Len(queue))

LogInv ==
    /\ log # <<>> /\ log[1].kind = "edit"

WireInv ==
    /\ pass = "sent" => /\ queue # <<>> /\ ~refused
                        /\ wire.cmd = queue[1].cmd /\ wire.kind = queue[1].kind
                        /\ wire.text = queue[1].text
    /\ reply # "none" => pass = "sent"
    /\ reply = "accepted" =>
          /\ wire.cmd \in done
          /\ wire.kind = "edit" => Version > cp \/ Value = Trimmed(wire.text)
    /\ \A r \in late : r.cmd < next /\ 1..(r.cmd - 1) \subseteq Settled

PurgeInv ==
    /\ session = NoAccount =>
          /\ \A r \in late : r.base # 0
          /\ (wire # NoRequest /\ reply = "none") => wire.base # 0
    /\ pass = "revoked" => \A r \in late : r.base # 0
    /\ \A r \in late : r.cmd \in purged => r.base # 0

(* An edit is queued whose text the replica shows. *)
ShowsQueued == \E k \in 1..Len(queue) : queue[k].kind = "edit" /\ queue[k].text = shown

ShownInv ==
    /\ pass = "page" => cp <= to
    /\ \/ Version > cp
       \/ cp > 0 /\ Trimmed(shown) = Trimmed(log[VersionAt(cp)].value)
       \/ ShowsQueued

IInv == OutboxInv /\ QueueInv /\ LogInv /\ WireInv /\ PurgeInv /\ ShownInv
-----------------------------------------------------------------------------
(* A set of naturals that is not empty has a smallest element. *)
LEMMA SmallestOf ==
    ASSUME NEW S \in SUBSET Nat, S # {}
    PROVE  \E x \in S : \A y \in S : x <= y
  <1> DEFINE Less == {ss \in Nat \X Nat : ss[1] < ss[2]}
  <1>1. IsWellFoundedOn(Less, Nat)
    BY NatLessThanWellFounded, Zenon DEF OpToRel
  <1>2. \E x \in S : \A y \in S : ~(<<y, x>> \in Less)
    <2> HIDE DEF Less
    <2> QED
      BY <1>1, WFMin, Zenon
  <1>3. \A x, y \in S : ~(<<y, x>> \in Less) => x <= y
    OBVIOUS
  <1> QED
    BY <1>2, <1>3

(* A bounded set of naturals that is not empty has a largest element. *)
LEMMA LargestOf ==
    ASSUME NEW N \in Nat, NEW S \in SUBSET (0..N), S # {}
    PROVE  \E x \in S : \A y \in S : y <= x
  <1> DEFINE T == {N - x : x \in S}
  <1>0. \A x \in S : x \in Int /\ N - x \in Nat
    OBVIOUS
  <1>1. T \in SUBSET Nat /\ T # {}
    BY <1>0, Zenon
  <1>2. PICK t \in T : \A u \in T : t <= u
    BY <1>1, SmallestOf
  <1>3. PICK x \in S : t = N - x
    BY <1>2
  <1>4. \A y \in S : N - x <= N - y
    BY <1>2, <1>3
  <1> QED
    BY <1>0, <1>3, <1>4

(* Max finds it. *)
LEMMA MaxOf ==
    ASSUME NEW N \in Nat, NEW S \in SUBSET (0..N), S # {}
    PROVE  Max(S) \in S /\ \A y \in S : y <= Max(S)
  <1>1. \E x \in S : \A y \in S : x >= y
    BY LargestOf
  <1> QED
    BY <1>1 DEF Max

-----------------------------------------------------------------------------
(* The last edit of a prefix of the log. *)
LEMMA LastEdit ==
    ASSUME LogInv, NEW n \in 0..Len(log), log \in Seq(Entries)
    PROVE  /\ VersionAt(n) \in 0..n /\ (n > 0 => VersionAt(n) > 0)
           /\ VersionAt(n) > 0 => log[VersionAt(n)].kind = "edit"
           /\ \A s \in 1..n : log[s].kind = "edit" => s <= VersionAt(n)
  <1>1. CASE Edits(n) = {}
    <2>1. n = 0
      BY <1>1 DEF Edits, LogInv
    <2> QED
      BY <1>1, <2>1 DEF VersionAt
  <1>2. CASE Edits(n) # {}
    <2>1. VersionAt(n) \in Edits(n) /\ \A s \in Edits(n) : s <= VersionAt(n)
      BY <1>2, MaxOf, Edits(n) \in SUBSET (0..n), n \in Nat DEF VersionAt, Edits
    <2> QED
      BY <2>1 DEF Edits
  <1> QED
    BY <1>1, <1>2

(* The version of the work item is its last edit, and its field has that value. *)
LEMMA VersionIsEdit ==
    LogInv /\ log \in Seq(Entries) =>
        /\ Version \in 1..Len(log) /\ log[Version].kind = "edit"
        /\ Value = log[Version].value /\ Value \in Texts
        /\ \A s \in 1..Len(log) : log[s].kind = "edit" => s <= Version
  <1> SUFFICES ASSUME LogInv, log \in Seq(Entries)
               PROVE  /\ Version \in 1..Len(log) /\ log[Version].kind = "edit"
                      /\ Value = log[Version].value /\ Value \in Texts
                      /\ \A s \in 1..Len(log) : log[s].kind = "edit" => s <= Version
    OBVIOUS
  <1>1. Len(log) \in 0..Len(log) /\ Len(log) > 0
    BY DEF LogInv
  <1>2. log \in Seq(Entries)
    OBVIOUS
  <1>3. /\ Version \in 1..Len(log) /\ log[Version].kind = "edit"
        /\ \A s \in 1..Len(log) : log[s].kind = "edit" => s <= Version
    <2>1. /\ VersionAt(Len(log)) \in 0..Len(log) /\ VersionAt(Len(log)) > 0
          /\ VersionAt(Len(log)) > 0 => log[VersionAt(Len(log))].kind = "edit"
          /\ \A s \in 1..Len(log) : log[s].kind = "edit" => s <= VersionAt(Len(log))
      BY <1>1, <1>2, LastEdit
    <2> QED
      BY <1>1, <2>1 DEF Version
  <1>4. log[Version] \in Entries
    BY <1>2, <1>3
  <1> QED
    BY <1>3, <1>4 DEF Value, Entries

(* So it is after any step that keeps the log well formed. *)
LEMMA VersionIsEditAfter ==
    (LogInv /\ log \in Seq(Entries) =>
        /\ Version \in 1..Len(log) /\ log[Version].kind = "edit"
        /\ Value = log[Version].value /\ Value \in Texts
        /\ \A s \in 1..Len(log) : log[s].kind = "edit" => s <= Version)'
  BY VersionIsEdit, PTL

(* An edit that is appended is the new version; a comment is not.  The     *)
(* field shown is then that of the checkpoint or behind the log.           *)
LEMMA LogGrows ==
    ASSUME IInv, NEW e \in Entries, log' = Append(log, e)
    PROVE  /\ log' \in Seq(Entries) /\ Len(log') = Len(log) + 1 /\ Len(log) \in Nat
           /\ log'[Len(log) + 1] = e /\ \A s \in 1..Len(log) : log'[s] = log[s]
           /\ Commands \subseteq Commands' /\ Requests \subseteq Requests'
           /\ LogInv' /\ Version' >= Version
           /\ e.kind = "edit" => Version' = Len(log) + 1 /\ Value' = e.value
           /\ e.kind # "edit" => Version' = Version /\ Value' = Value
           /\ UNCHANGED <<queue, cp, shown, pass, to>> => ShownInv'
  <1>1. log \in Seq(Entries) /\ cp \in 0..Len(log) /\ next \in Int
    BY BoundAssumption DEF IInv, OutboxInv, TypeOK
  <1>2. /\ log' \in Seq(Entries) /\ Len(log') = Len(log) + 1 /\ Len(log) \in Nat
        /\ log'[Len(log) + 1] = e /\ \A s \in 1..Len(log) : log'[s] = log[s]
    BY <1>1
  <1>3. Commands \subseteq Commands' /\ Requests \subseteq Requests'
    BY <1>2 DEF Commands, Requests
  <1>4. LogInv'
    BY <1>1, <1>2 DEF IInv, LogInv
  <1>5. Version' >= Version /\ (e.kind = "edit" => Version' = Len(log) + 1)
    BY <1>1, <1>2, <1>4, VersionIsEdit, VersionIsEditAfter DEF IInv
  <1>6. Version \in Int /\ Version' \in Int
    BY <1>1, <1>2, <1>4, VersionIsEdit, VersionIsEditAfter DEF IInv
  <1>8. e.kind = "edit" => Value' = e.value
    BY <1>1, <1>2, <1>4, <1>5, VersionIsEditAfter
  <1>9. e.kind # "edit" => Version' = Version /\ Value' = Value
    <2> SUFFICES ASSUME e.kind # "edit" PROVE Version' = Version /\ Value' = Value
      OBVIOUS
    <2>1. /\ Version' \in 1..Len(log') /\ log'[Version'].kind = "edit"
          /\ Value' = log'[Version'].value
      BY <1>1, <1>2, <1>4, VersionIsEditAfter
    <2>2. Version' \in 1..Len(log) /\ log[Version'].kind = "edit"
      BY <1>1, <1>2, <2>1
    <2>3. /\ Version \in 1..Len(log) /\ Value = log[Version].value
          /\ \A s \in 1..Len(log) : log[s].kind = "edit" => s <= Version
      BY <1>1, VersionIsEdit DEF IInv
    <2>4. Version' <= Version
      BY <2>2, <2>3
    <2> QED
      BY <1>2, <1>5, <1>6, <2>1, <2>2, <2>3, <2>4
  <1>7. ASSUME UNCHANGED <<queue, cp, shown, pass, to>>
        PROVE  ShownInv'
    <2>1. pass' = "page" => cp' <= to'
      BY <1>7 DEF IInv, ShownInv
    <2>2. CASE Version > cp
      BY <1>1, <1>5, <1>6, <1>7, <2>1, <2>2 DEF ShownInv
    <2>3. CASE cp > 0 /\ Trimmed(shown) = Trimmed(log[VersionAt(cp)].value)
      <3>1. VersionAt(cp)' = VersionAt(cp)
        <4>1. \A s \in 1..cp : log'[s] = log[s]
          BY <1>1, <1>2
        <4>2. Edits(cp)' = Edits(cp)
          BY <1>7, <4>1 DEF Edits
        <4> QED
          BY <4>2 DEF VersionAt
      <3>2. VersionAt(cp) \in 1..Len(log)
        BY <1>1, <2>3, LastEdit DEF IInv
      <3> QED
        BY <1>2, <1>7, <2>1, <2>3, <3>1, <3>2 DEF ShownInv, Trimmed
    <2>4. CASE ShowsQueued
      <3>1. ShowsQueued'
        BY <1>1, <1>2, <1>7, <2>4 DEF ShowsQueued
      <3> QED
        BY <2>1, <3>1 DEF ShownInv
    <2> QED
      BY <2>2, <2>3, <2>4 DEF IInv, ShownInv
  <1> QED
    BY <1>2, <1>3, <1>4, <1>5, <1>7, <1>8, <1>9

(* While the log stays, so do the sets and the versions read from it. *)
LEMMA LogStays ==
    ASSUME log' = log
    PROVE  /\ Commands' = Commands /\ Requests' = Requests
           /\ Version' = Version /\ Value' = Value
           /\ LogInv => LogInv'
           /\ \A n : VersionAt(n)' = VersionAt(n)
  BY DEF Commands, Requests, Version, Value, VersionAt, Edits, LogInv

(* A request that waits is in the right set and is not the absent one. *)
LEMMA WireIsRequest ==
    ASSUME IInv
    PROVE  /\ Requests \subseteq [cmd : Nat, kind : Kinds, marker : Nat,
                                  text : [says : Nat \cup {Other}, blanks : BOOLEAN],
                                  base : Nat, as : Accounts \cup {NoAccount}]
           /\ NoRequest \notin Requests
           /\ pass = "sent" => wire \in Requests
           /\ pass # "sent" => wire = NoRequest
           /\ Version \in 1..Len(log) /\ Len(log) \in Nat
  <1>0. Texts \subseteq [says : Nat \cup {Other}, blanks : BOOLEAN]
    BY BoundAssumption DEF Texts, Ids
  <1>1. Requests \subseteq [cmd : Nat, kind : Kinds, marker : Nat,
                            text : [says : Nat \cup {Other}, blanks : BOOLEAN],
                            base : Nat, as : Accounts \cup {NoAccount}]
    BY <1>0, BoundAssumption DEF Requests, Ids
  <1>2. Len(log) \in Nat
    BY DEF IInv, OutboxInv, TypeOK
  <1> QED
    BY <1>1, <1>2, RequestAssumption, VersionIsEdit DEF IInv, OutboxInv, TypeOK, Kinds
(* A refusal marks the head of a queue that is there. *)
LEMMA RefusedStays ==
    ASSUME refused \in BOOLEAN, refused => queue # <<>>, refused' = refused, queue' = queue
    PROVE  refused' \in BOOLEAN /\ (refused' => queue' # <<>>)
  BY Zenon

(* Nothing that was well-typed stops being so when the log grows. *)
LEMMA GrownTypeOK ==
    ASSUME TypeOK, log' \in Seq(Entries), Len(log) \in Nat, Len(log') \in Nat,
           Len(log') >= Len(log), Commands \subseteq Commands', Requests \subseteq Requests',
           UNCHANGED <<session, owner, queue, refused, next, author, dialog, pass, to,
                       cp, shown, local, purged>>,
           losses' \in 0..MaxLosses, done' \in SUBSET Ids, late' \in SUBSET Requests',
           reply' \in {"none", "accepted", "conflict", "refused"},
           wire' \in Requests' \cup {NoRequest}, wire' # NoRequest <=> wire # NoRequest
    PROVE  TypeOK'
  <1>1. queue' \in Seq(Commands') /\ (wire' # NoRequest <=> pass' = "sent")
    BY DEF TypeOK
  <1>2. dialog' \in 0..Len(log') /\ to' \in 0..Len(log') /\ cp' \in 0..Len(log')
    BY DEF TypeOK
  <1>3. refused' \in BOOLEAN /\ (refused' => queue' # <<>>)
    <2>1. refused' = refused /\ queue' = queue /\ refused \in BOOLEAN /\ (refused => queue # <<>>)
      BY DEF TypeOK
    <2> QED
      BY <2>1, RefusedStays
  <1> QED
    BY <1>1, <1>2, <1>3 DEF TypeOK

-----------------------------------------------------------------------------
(* Nothing queued, nothing on the wire, and a checkpoint at the creation. *)
LEMMA InitIInv == Init => IInv
  <1> SUFFICES ASSUME Init PROVE IInv
    OBVIOUS
  <1> USE BoundAssumption
  <1>0. Plain(0) \in Texts
    BY DEF Plain, Texts
  <1>1. /\ log \in Seq(Entries) /\ Len(log) = 1
        /\ log[1] = [kind |-> "edit", value |-> Plain(0), by |-> 0]
    BY <1>0 DEF Init, Entries, Kinds
  <1>2. TypeOK
    <2>1. /\ queue \in Seq(Commands) /\ author \in [Ids -> Accounts \cup {NoAccount}]
          /\ cp \in 0..Len(log) /\ to \in 0..Len(log) /\ dialog \in 0..Len(log)
      BY <1>1 DEF Init
    <2>2. /\ session \in Accounts \cup {NoAccount} /\ owner \in Accounts \cup {NoAccount}
          /\ wire = NoRequest /\ pass = "idle" /\ losses \in 0..MaxLosses
          /\ next \in 1..(MaxCommands + 1)
      BY DEF Init
    <2> QED
      BY <1>0, <1>1, <2>1, <2>2 DEF Init, TypeOK
  <1>3. LogInv
    BY <1>1 DEF Init, LogInv
  <1>4. NoCommandLost /\ CarriedOutInOrder /\ QueueInv /\ WireInv /\ PurgeInv
    BY DEF Init, NoCommandLost, CarriedOutInOrder, QueueInv, WireInv, PurgeInv, Queued
  <1>5. ShownInv
    <2>1. Version \in 1..1
      BY <1>1, <1>3, VersionIsEdit
    <2>2. VersionAt(cp) = 1 /\ log[1].value = Plain(0)
      BY <1>1, <2>1 DEF Init, Version
    <2> QED
      BY <2>2 DEF Init, ShownInv
  <1> QED
    BY <1>2, <1>3, <1>4, <1>5 DEF IInv, OutboxInv

(***************************************************************************)
(* Steps of the page, of the accounts and of the worker that touch neither *)
(* the log, the queue, the requests nor the replica.                       *)
(***************************************************************************)
Small ==
    /\ UNCHANGED <<log, queue, next, author, late, losses, wire, cp, shown, local, history>>
    /\ owner' \in Accounts \cup {NoAccount} /\ session' \in Accounts \cup {NoAccount}
    /\ session' = NoAccount => session = NoAccount
    /\ dialog' \in 0..Len(log) /\ to' \in 0..Len(log)
    /\ (refused' = refused \/ refused' = FALSE)
    /\ pass' \in {"idle", "sync", "page", "revoked", "drain", "sent"}
    /\ pass' = "sent" <=> pass = "sent"
    /\ pass' = "page" => (to' = to /\ pass = "page") \/ to' = Len(log)
    /\ pass' = "revoked" => pass = "revoked" \/ session = NoAccount
    /\ reply' = reply \/ (reply' \in {"conflict", "refused"} /\ pass = "sent")

(* They keep the invariant. *)
LEMMA SmallIInv ==
    ASSUME IInv, Small
    PROVE  IInv'
  <1>0. Commands' = Commands /\ Requests' = Requests
    BY LogStays DEF Small
  <1>1. TypeOK'
    <2>1. /\ wire' \in Requests' \cup {NoRequest} /\ (wire' # NoRequest <=> pass' = "sent")
          /\ late' \in SUBSET Requests' /\ queue' \in Seq(Commands')
      BY <1>0 DEF IInv, OutboxInv, TypeOK, Small
    <2>2. /\ dialog' \in 0..Len(log') /\ to' \in 0..Len(log') /\ cp' \in 0..Len(log')
          /\ reply' \in {"none", "accepted", "conflict", "refused"}
      BY DEF IInv, OutboxInv, TypeOK, Small
    <2>3. /\ log' \in Seq(Entries) /\ next' \in 1..(MaxCommands + 1)
          /\ author' \in [Ids -> Accounts \cup {NoAccount}] /\ losses' \in 0..MaxLosses
          /\ shown' \in Texts
          /\ local' \in SUBSET Ids /\ done' \in SUBSET Ids /\ purged' \in SUBSET Ids
      BY DEF IInv, OutboxInv, TypeOK, Small, history
    <2>4. /\ session' \in Accounts \cup {NoAccount} /\ owner' \in Accounts \cup {NoAccount}
          /\ pass' \in {"idle", "sync", "page", "revoked", "drain", "sent"}
      BY DEF Small
    <2>5. refused' \in BOOLEAN /\ (refused' => queue' # <<>>)
      <3>1. refused \in BOOLEAN /\ (refused => queue # <<>>)
        BY DEF IInv, OutboxInv, TypeOK
      <3>2. queue' = queue /\ (refused' = refused \/ refused' = FALSE)
        BY DEF Small
      <3>3. CASE refused' = refused
        BY <3>1, <3>2, <3>3, Zenon
      <3>4. CASE refused' = FALSE
        BY <3>4
      <3> QED
        BY <3>2, <3>3, <3>4
    <2> QED
      BY <2>1, <2>2, <2>3, <2>4, <2>5 DEF TypeOK
  <1> USE LogStays DEF Small
  <1>2. NoCommandLost' /\ CarriedOutInOrder'
    BY DEF IInv, OutboxInv, NoCommandLost, CarriedOutInOrder, Queued, history
  <1>3. QueueInv' /\ LogInv'
    BY DEF IInv, QueueInv, LogInv, Settled, history
  <1>4. WireInv'
    BY DEF IInv, WireInv, Settled, history
  <1>5. PurgeInv'
    BY DEF IInv, PurgeInv, history
  <1>6. ShownInv'
    BY DEF IInv, OutboxInv, TypeOK, ShownInv, ShowsQueued, history
  <1> QED
    BY <1>1, <1>2, <1>3, <1>4, <1>5, <1>6 DEF IInv, OutboxInv
(* The small steps are these. *)
LEMMA SmallSteps ==
    ASSUME IInv,
           \/ OpenDialog \/ RetryOutbox \/ Reload \/ StartPass \/ SyncAnswer \/ SyncFails
           \/ EndPass \/ HandleConflict \/ HandleRefuse \/ \E a \in Accounts : SignIn(a)
    PROVE  Small
  <1> USE DEF server, outbox, request, replica, history
  <1>1. /\ owner \in Accounts \cup {NoAccount} /\ session \in Accounts \cup {NoAccount}
        /\ dialog \in 0..Len(log) /\ to \in 0..Len(log) /\ Version \in 0..Len(log)
        /\ Len(log) \in 0..Len(log)
        /\ pass \in {"idle", "sync", "page", "revoked", "drain", "sent"}
        /\ reply = "none" /\ wire # NoRequest => pass = "sent"
    BY WireIsRequest DEF IInv, OutboxInv, TypeOK
  <1>2. CASE OpenDialog
    BY <1>1, <1>2 DEF OpenDialog, Small
  <1>3. CASE RetryOutbox
    BY <1>1, <1>3 DEF RetryOutbox, Small
  <1>4. CASE Reload
    BY <1>1, <1>4 DEF Reload, Small
  <1>5. CASE StartPass
    BY <1>1, <1>5 DEF StartPass, Small
  <1>6. CASE SyncAnswer
    BY <1>1, <1>6 DEF SyncAnswer, Small
  <1>7. CASE SyncFails
    BY <1>1, <1>7 DEF SyncFails, Small
  <1>8. CASE EndPass
    BY <1>1, <1>8 DEF EndPass, Small
  <1>9. CASE HandleConflict
    BY <1>1, <1>9 DEF HandleConflict, Waiting, Small
  <1>10. CASE HandleRefuse
    BY <1>1, <1>10 DEF HandleRefuse, Waiting, Small
  <1>11. ASSUME NEW a \in Accounts, SignIn(a) PROVE Small
    BY <1>1, <1>11, AccountAssumption DEF SignIn, Small
  <1> QED
    BY <1>2, <1>3, <1>4, <1>5, <1>6, <1>7, <1>8, <1>9, <1>10, <1>11
-----------------------------------------------------------------------------
(* A new command goes to the end of the queue, and the field may show it. *)
LEMMA EnqueueIInv ==
    ASSUME IInv, NEW kind \in Kinds, NEW marker \in {0, dialog}, NEW text \in Texts,
           Enqueue(kind, marker, text)
    PROVE  IInv'
  <1> USE BoundAssumption DEF server, request, history
  <1> DEFINE c == [cmd |-> next, kind |-> kind, marker |-> marker, text |-> text]
  <1>0. /\ Commands' = Commands /\ Requests' = Requests
        /\ Version' = Version /\ Value' = Value
    BY LogStays DEF Enqueue
  <1>1. /\ next \in Ids /\ next' = next + 1 /\ queue' = Append(queue, c)
        /\ dialog \in 0..Len(log) /\ queue \in Seq(Commands) /\ c \in Commands
        /\ next \in Nat /\ Len(queue) \in Nat
    BY DEF IInv, OutboxInv, TypeOK, Enqueue, Ids, Commands
  <1> HIDE DEF c
  <1>2. /\ queue' \in Seq(Commands) /\ Len(queue') = Len(queue) + 1
        /\ queue'[Len(queue) + 1] = c /\ \A k \in 1..Len(queue) : queue'[k] = queue[k]
        /\ c.cmd = next /\ c.kind = kind /\ c.text = text
    BY <1>1 DEF c
  <1>u. /\ UNCHANGED <<log, refused, pass, to, wire, reply, late, cp, done, purged>>
        /\ kind = "edit" => shown' = text
    BY DEF Enqueue
  <1>3. TypeOK'
    <2>0. queue' # <<>>
      BY <1>1, <1>2
    <2>1. /\ queue' \in Seq(Commands') /\ queue' # <<>>
          /\ wire' \in Requests' \cup {NoRequest} /\ (wire' # NoRequest <=> pass' = "sent")
          /\ late' \in SUBSET Requests' /\ next' \in 1..(MaxCommands + 1)
      BY <1>0, <1>1, <1>2, <1>u, <2>0 DEF IInv, OutboxInv, TypeOK, Ids
    <2>2. /\ author' \in [Ids -> Accounts \cup {NoAccount}]
          /\ shown' \in Texts /\ local' \in SUBSET Ids
      BY <1>1 DEF IInv, OutboxInv, TypeOK, Enqueue
    <2>3. refused' \in BOOLEAN
      BY Zenon DEF IInv, OutboxInv, TypeOK, Enqueue
    <2>4. /\ dialog' \in 0..Len(log') /\ to' \in 0..Len(log') /\ cp' \in 0..Len(log')
      BY DEF IInv, OutboxInv, TypeOK, Enqueue
    <2> QED
      BY <2>1, <2>2, <2>3, <2>4 DEF IInv, OutboxInv, TypeOK, Enqueue
  <1>4. QueueInv'
    <2>1. /\ Len(queue) < next /\ next' - 1 - Len(queue') = next - 1 - Len(queue)
          /\ \A k \in 1..Len(queue) : queue[k].cmd = next - Len(queue) + k - 1
      BY <1>1, <1>2 DEF IInv, QueueInv
    <2>2. \A k \in 1..Len(queue') : queue'[k].cmd = next' - Len(queue') + k - 1
      <3> SUFFICES ASSUME NEW k \in 1..Len(queue')
                   PROVE  queue'[k].cmd = next' - Len(queue') + k - 1
        OBVIOUS
      <3>1. CASE k = Len(queue) + 1
        BY <1>1, <1>2, <3>1
      <3>2. CASE k \in 1..Len(queue)
        <4>1. queue'[k].cmd = next - Len(queue) + k - 1
          BY <1>2, <2>1, <3>2
        <4> QED
          BY <1>1, <1>2, <4>1
      <3> QED
        BY <1>1, <1>2, <3>1, <3>2
    <2>3. /\ 1..(next' - 1 - Len(queue')) \subseteq Settled'
          /\ purged' \subseteq 1..(next' - 1 - Len(queue'))
      BY <1>u, <2>1 DEF IInv, QueueInv, Settled
    <2>4. Len(queue') < next'
      BY <1>1, <1>2, <2>1
    <2> HIDE DEF server, request, history
    <2> QED
      BY ONLY <2>2, <2>3, <2>4 DEF QueueInv
  <1>5. NoCommandLost' /\ CarriedOutInOrder'
    <2>1. next \in Queued' /\ Queued \subseteq Queued'
      BY <1>1, <1>2 DEF Queued
    <2> QED
      BY <1>1, <2>1 DEF IInv, OutboxInv, NoCommandLost, CarriedOutInOrder, Enqueue
  <1>6. LogInv'
    BY <1>1 DEF IInv, LogInv, Enqueue
  <1>7. WireInv'
    <2>1. pass' = "sent" => queue'[1] = queue[1] /\ queue' # <<>>
      BY <1>1, <1>2, <1>u DEF IInv, WireInv
    <2>2. \A r \in late : r.cmd < next' /\ 1..(r.cmd - 1) \subseteq Settled'
      BY <1>1, <1>u, WireIsRequest DEF IInv, OutboxInv, TypeOK, WireInv, Settled
    <2>3. pass' = "sent" => ~refused'
      BY <1>u, Zenon DEF IInv, WireInv
    <2> QED
      BY <1>0, <1>u, <2>1, <2>2, <2>3 DEF IInv, WireInv
  <1>8. PurgeInv'
    BY DEF IInv, PurgeInv, Enqueue
  <1>9. ShownInv'
    <2>0. \A n : VersionAt(n)' = VersionAt(n) /\ Version' = Version
      BY LogStays DEF Enqueue
    <2>1. CASE kind = "edit"
      <3>1. ShowsQueued'
        <4>1. Len(queue) + 1 \in 1..Len(queue')
          BY <1>1, <1>2
        <4> QED
          BY <1>2, <1>u, <2>1, <4>1 DEF ShowsQueued
      <3> QED
        BY <3>1 DEF IInv, ShownInv, Enqueue
    <2>2. CASE kind # "edit"
      <3>1. shown' = shown /\ cp' = cp /\ log' = log /\ pass' = pass /\ to' = to
        BY <2>2 DEF Enqueue
      <3>2. ShowsQueued => ShowsQueued'
        BY <1>1, <1>2, <3>1 DEF ShowsQueued
      <3> QED
        BY <2>0, <3>1, <3>2 DEF IInv, ShownInv
    <2> QED
      BY <2>1, <2>2
  <1> QED
    BY <1>3, <1>4, <1>5, <1>6, <1>7, <1>8, <1>9 DEF IInv, OutboxInv

(* When a session ends, no request waits to be admitted any more. *)
LEMMA EndSessionIInv ==
    ASSUME IInv, EndSession
    PROVE  IInv'
  <1> USE DEF outbox, replica, history
  <1>0. /\ Commands' = Commands /\ Requests' = Requests
        /\ Version' = Version /\ Value' = Value /\ \A n : VersionAt(n)' = VersionAt(n)
    BY LogStays DEF EndSession
  <1>1. late' \subseteq late /\ (reply' = reply \/ (Waiting /\ reply' = "refused"))
    BY DEF EndSession
  <1>2. TypeOK'
    <2>1. /\ late' \in SUBSET Requests' /\ queue' \in Seq(Commands')
          /\ wire' \in Requests' \cup {NoRequest} /\ (wire' # NoRequest <=> pass' = "sent")
          /\ reply' \in {"none", "accepted", "conflict", "refused"}
      BY <1>0, <1>1 DEF IInv, OutboxInv, TypeOK, EndSession
    <2>2. refused' \in BOOLEAN /\ (refused' => queue' # <<>>)
      <3>1. refused' = refused /\ queue' = queue
        BY DEF EndSession
      <3> QED
        BY <3>1, Zenon DEF IInv, OutboxInv, TypeOK
    <2>3. session' \in Accounts \cup {NoAccount}
      BY DEF EndSession
    <2>4. dialog' \in 0..Len(log') /\ to' \in 0..Len(log') /\ cp' \in 0..Len(log')
      BY DEF IInv, OutboxInv, TypeOK, EndSession
    <2> QED
      BY <2>1, <2>2, <2>3, <2>4 DEF IInv, OutboxInv, TypeOK, EndSession
  <1>3. NoCommandLost' /\ CarriedOutInOrder' /\ QueueInv' /\ LogInv'
    BY DEF IInv, OutboxInv, NoCommandLost, CarriedOutInOrder, QueueInv, LogInv, Queued,
           Settled, EndSession
  <1>4. WireInv'
    BY <1>0, <1>1 DEF IInv, OutboxInv, TypeOK, WireInv, Settled, EndSession, Waiting
  <1>5. PurgeInv'
    BY DEF IInv, PurgeInv, EndSession, Waiting
  <1>6. ShownInv'
    BY <1>0 DEF IInv, ShownInv, ShowsQueued, EndSession
  <1> QED
    BY <1>2, <1>3, <1>4, <1>5, <1>6 DEF IInv, OutboxInv
(* An edit by somebody else. *)
LEMMA OtherEditIInv ==
    ASSUME IInv, OtherEdit
    PROVE  IInv'
  <1> USE DEF outbox, request, replica, history
  <1>t. PICK text \in [says : {Other}, blanks : Blanks] :
               log' = Append(log, [kind |-> "edit", value |-> text, by |-> Other])
    BY DEF OtherEdit
  <1> DEFINE e == [kind |-> "edit", value |-> text, by |-> Other]
  <1>0. e \in Entries /\ e.kind = "edit" /\ log' = Append(log, e)
    <2>1. text \in Texts
      BY BlanksAssumption DEF Texts
    <2> QED
      BY <1>t, <2>1 DEF Entries, Kinds
  <1> HIDE DEF e
  <1>1. /\ log' \in Seq(Entries) /\ Len(log') = Len(log) + 1 /\ Len(log) \in Nat
        /\ \A s \in 1..Len(log) : log'[s] = log[s]
        /\ Commands \subseteq Commands' /\ Requests \subseteq Requests' /\ LogInv'
        /\ Version' = Len(log) + 1
    BY <1>0, LogGrows
  <1>2. ShownInv'
    BY <1>0, LogGrows DEF OtherEdit
  <1>u. UNCHANGED <<session, owner, queue, refused, next, author, dialog, pass, to, wire,
                    reply, late, losses, cp, shown, local, done, purged>>
    BY DEF OtherEdit
  <1>3. TypeOK'
    BY <1>1, <1>u, GrownTypeOK DEF IInv, OutboxInv, TypeOK
  <1>4. NoCommandLost' /\ CarriedOutInOrder' /\ QueueInv'
    BY <1>u DEF IInv, OutboxInv, NoCommandLost, CarriedOutInOrder, QueueInv, Queued, Settled
  <1>5. WireInv'
    <2>1. Version' > cp'
      BY <1>1, <1>u DEF IInv, OutboxInv, TypeOK
    <2> QED
      BY <1>1, <1>u, <2>1 DEF IInv, WireInv, Settled
  <1>6. PurgeInv'
    BY <1>u DEF IInv, PurgeInv
  <1> QED
    BY <1>1, <1>2, <1>3, <1>4, <1>5, <1>6 DEF IInv, OutboxInv
-----------------------------------------------------------------------------
(* The handler writes: the log grows by the command, or says it already. *)
LEMMA WrittenGrows ==
    ASSUME IInv, NEW r \in Requests, Written(r)
    PROVE  /\ log' \in Seq(Entries) /\ Len(log') \in Nat /\ Len(log') >= Len(log)
           /\ \A s \in 1..Len(log) : log'[s] = log[s]
           /\ Commands \subseteq Commands' /\ Requests \subseteq Requests' /\ LogInv'
           /\ done' = done \cup {r.cmd} /\ done' \in SUBSET Ids /\ r.cmd \in Ids
           /\ r.kind = "edit" => Value' = Trimmed(r.text)
           /\ Version' > Len(log) \/ (Version' = Version /\ Value' = Value)
           /\ UNCHANGED <<queue, cp, shown, pass, to>> => ShownInv'
  <1>0. r.cmd \in Ids /\ r.kind \in Kinds /\ r.text \in Texts
    BY DEF Requests
  <1>d. done' = done \cup {r.cmd} /\ done' \in SUBSET Ids
    BY <1>0 DEF Written, IInv, OutboxInv, TypeOK
  <1>1. CASE r.kind = "edit" /\ Value = Trimmed(r.text)
    <2>1. log' = log
      BY <1>1 DEF Written
    <2>2. /\ LogInv' /\ Commands' = Commands /\ Requests' = Requests
          /\ Version' = Version /\ Value' = Value /\ \A n : VersionAt(n)' = VersionAt(n)
      BY <2>1, LogStays DEF IInv
    <2>3. UNCHANGED <<queue, cp, shown, pass, to>> => ShownInv'
      BY <2>1, <2>2 DEF IInv, ShownInv, ShowsQueued
    <2>4. Len(log) \in Nat /\ log \in Seq(Entries)
      BY DEF IInv, OutboxInv, TypeOK
    <2> QED
      BY <1>0, <1>1, <1>d, <2>1, <2>2, <2>3, <2>4
  <1>2. CASE ~(r.kind = "edit" /\ Value = Trimmed(r.text))
    <2> DEFINE e == [kind |-> r.kind, value |-> Trimmed(r.text), by |-> r.cmd]
    <2>0. Trimmed(r.text) \in Texts
      BY <1>0 DEF Trimmed, Plain, Texts
    <2>1. /\ log' = Append(log, e) /\ e \in Entries /\ e.value = Trimmed(r.text)
          /\ e.kind = r.kind
      BY <1>0, <1>2, <2>0 DEF Written, Entries
    <2> HIDE DEF e
    <2>2. /\ log' \in Seq(Entries) /\ Len(log') = Len(log) + 1 /\ Len(log) \in Nat
          /\ log'[Len(log) + 1] = e /\ \A s \in 1..Len(log) : log'[s] = log[s]
          /\ Commands \subseteq Commands' /\ Requests \subseteq Requests' /\ LogInv'
          /\ e.kind = "edit" => Version' = Len(log) + 1 /\ Value' = e.value
          /\ e.kind # "edit" => Version' = Version /\ Value' = Value
          /\ UNCHANGED <<queue, cp, shown, pass, to>> => ShownInv'
      BY <2>1, LogGrows
    <2> QED
      BY <1>0, <1>d, <2>1, <2>2
  <1> QED
    BY <1>1, <1>2

(* The head of the queue has only settled commands before it. *)
LEMMA WireIsHead ==
    ASSUME IInv, pass = "sent"
    PROVE  /\ wire.cmd < next /\ 1..(wire.cmd - 1) \subseteq Settled
           /\ wire.cmd \notin purged /\ wire.cmd = next - Len(queue) /\ Len(queue) \in Nat
           /\ wire \in Requests /\ wire # NoRequest
  <1>1. queue \in Seq(Commands) /\ queue # <<>> /\ next \in Nat /\ wire.cmd = queue[1].cmd
    BY BoundAssumption DEF IInv, OutboxInv, TypeOK, WireInv
  <1>2. wire.cmd = next - Len(queue) /\ Len(queue) \in Nat /\ Len(queue) > 0
    BY <1>1 DEF IInv, QueueInv
  <1>3. 1..(wire.cmd - 1) = 1..(next - 1 - Len(queue))
    BY <1>1, <1>2
  <1> QED
    BY <1>1, <1>2, <1>3, WireIsRequest DEF IInv, QueueInv

(* An admitted request names the version it read. *)
LEMMA AdmittedRequest ==
    ASSUME IInv, NEW r \in Requests
    PROVE  /\ Admitted(r) \in Requests /\ Admitted(r).cmd = r.cmd /\ Admitted(r).kind = r.kind
           /\ Admitted(r).text = r.text /\ Admitted(r).base # 0
  <1>1. Version \in 1..Len(log) /\ Len(log) \in Nat /\ session \in Accounts \cup {NoAccount}
    BY WireIsRequest DEF IInv, OutboxInv, TypeOK
  <1>2. /\ Admitted(r).cmd = r.cmd /\ Admitted(r).kind = r.kind /\ Admitted(r).text = r.text
        /\ Admitted(r).base = Version
    BY DEF Admitted, Requests
  <1>3. Version \in 0..Len(log)
    BY <1>1
  <1>4. Admitted(r) \in Requests
    BY <1>1, <1>3 DEF Admitted, Requests
  <1> QED
    BY <1>1, <1>2, <1>4

(* The handler admits the request the worker waits for. *)
LEMMA HandleReadIInv ==
    ASSUME IInv, HandleRead
    PROVE  IInv'
  <1> USE DEF server, outbox, replica, history
  <1>0. pass = "sent" /\ wire \in Requests /\ Requests' = Requests /\ wire' = Admitted(wire)
    BY WireIsRequest, LogStays DEF HandleRead, Waiting, IInv, OutboxInv, TypeOK
  <1>1. /\ wire' \in Requests /\ wire'.cmd = wire.cmd /\ wire'.kind = wire.kind
        /\ wire'.text = wire.text /\ wire'.base # 0 /\ wire' # NoRequest /\ reply = "none"
    BY <1>0, AdmittedRequest, WireIsRequest DEF HandleRead, Waiting
  <1>u. UNCHANGED <<log, session, owner, queue, refused, next, author, dialog, pass, to,
                    reply, late, losses, cp, shown, local, done, purged>>
    BY DEF HandleRead
  <1>2. TypeOK'
    <2>1. Commands' = Commands /\ Len(log) \in Nat /\ log \in Seq(Entries)
      BY <1>u, LogStays DEF IInv, OutboxInv, TypeOK
    <2> QED
      BY <1>0, <1>1, <1>u, <2>1, GrownTypeOK DEF IInv, OutboxInv, TypeOK
  <1>3. NoCommandLost' /\ CarriedOutInOrder' /\ QueueInv' /\ LogInv'
    BY <1>u DEF IInv, OutboxInv, NoCommandLost, CarriedOutInOrder, QueueInv, LogInv,
                Queued, Settled
  <1>4. WireInv' /\ PurgeInv'
    BY <1>0, <1>1, <1>u, LogStays DEF IInv, WireInv, PurgeInv, Settled
  <1>5. ShownInv'
    BY <1>u, LogStays DEF IInv, ShownInv, ShowsQueued
  <1> QED
    BY <1>2, <1>3, <1>4, <1>5 DEF IInv, OutboxInv
(* The handler carries out the head of the queue. *)
LEMMA HandleWriteIInv ==
    ASSUME IInv, HandleWrite
    PROVE  IInv' /\ done' \cap purged \subseteq done
  <1> USE DEF outbox, replica
  <1>0. /\ pass = "sent" /\ reply' \in {"accepted", "refused"} /\ Written(wire)
        /\ losses' \in 0..MaxLosses
    BY BoundAssumption DEF HandleWrite, Waiting, IInv, OutboxInv, TypeOK
  <1>1. /\ wire.cmd < next /\ 1..(wire.cmd - 1) \subseteq Settled
        /\ wire.cmd \notin purged /\ wire \in Requests
    BY <1>0, WireIsHead
  <1>u. UNCHANGED <<session, owner, queue, refused, next, author, dialog, pass, to, wire,
                    late, cp, shown, local, purged>>
    BY DEF HandleWrite
  <1>2. /\ log' \in Seq(Entries) /\ Len(log') \in Nat /\ Len(log') >= Len(log)
        /\ Commands \subseteq Commands' /\ Requests \subseteq Requests' /\ LogInv'
        /\ done' = done \cup {wire.cmd} /\ done' \in SUBSET Ids
        /\ wire.kind = "edit" => Value' = Trimmed(wire.text)
        /\ ShownInv'
    BY <1>0, <1>1, <1>u, WrittenGrows
  <1>3. TypeOK'
    <2>1. Len(log) \in Nat /\ late' \in SUBSET Requests' /\ wire' \in Requests' \cup {NoRequest}
      BY <1>1, <1>2, <1>u DEF IInv, OutboxInv, TypeOK
    <2> QED
      BY <1>0, <1>2, <1>u, <2>1, GrownTypeOK DEF IInv, OutboxInv
  <1>4. NoCommandLost' /\ QueueInv'
    BY <1>2, <1>u DEF IInv, OutboxInv, NoCommandLost, QueueInv, Queued, Settled
  <1>5. CarriedOutInOrder'
    BY <1>1, <1>2, <1>u DEF IInv, OutboxInv, CarriedOutInOrder, Settled
  <1>6. WireInv'
    BY <1>0, <1>2, <1>u DEF IInv, WireInv, Settled
  <1>7. PurgeInv'
    BY <1>0, <1>u DEF IInv, PurgeInv
  <1> QED
    BY <1>1, <1>2, <1>3, <1>4, <1>5, <1>6, <1>7 DEF IInv, OutboxInv

(* The handler goes on with a request whose sender has given it up. *)
LEMMA HandleLateIInv ==
    ASSUME IInv, HandleLate
    PROVE  /\ IInv'
           /\ \A c \in done' : c \in done \/ \E r \in late : r.cmd = c /\ r.base # 0
           /\ \A r \in late' : r.cmd \in purged => r \in late
  <1> USE DEF outbox, replica
  <1>0. PICK r \in late :
           \/ Reads(r) /\ late' = (late \ {r}) \cup {Admitted(r)} /\ UNCHANGED <<log, done>>
           \/ Writes(r) /\ Written(r) /\ late' = late \ {r}
           \/ Conflicts(r) /\ late' = late \ {r} /\ UNCHANGED <<log, done>>
    BY DEF HandleLate
  <1>u. UNCHANGED <<session, owner, queue, refused, next, author, dialog, pass, to, wire,
                    reply, losses, cp, shown, local, purged>>
    BY DEF HandleLate
  <1>1. /\ r \in Requests /\ r.cmd < next /\ 1..(r.cmd - 1) \subseteq Settled
        /\ r.cmd \in purged => r.base # 0
    BY DEF IInv, OutboxInv, TypeOK, WireInv, PurgeInv
  <1>2. /\ log' \in Seq(Entries) /\ Len(log') \in Nat /\ Len(log') >= Len(log)
        /\ \A s \in 1..Len(log) : log'[s] = log[s]
        /\ Commands \subseteq Commands' /\ Requests \subseteq Requests' /\ LogInv'
        /\ Version' > Len(log) \/ (Version' = Version /\ Value' = Value)
        /\ ShownInv' /\ done' \in SUBSET Ids
    <2>1. CASE Written(r)
      BY <1>1, <1>u, <2>1, WrittenGrows
    <2>2. CASE UNCHANGED <<log, done>>
      <3>1. /\ Commands' = Commands /\ Requests' = Requests
            /\ Version' = Version /\ Value' = Value /\ \A n : VersionAt(n)' = VersionAt(n)
        BY <2>2, LogStays
      <3> QED
        BY <1>u, <2>2, <3>1
        DEF IInv, OutboxInv, TypeOK, LogInv, ShownInv, ShowsQueued
    <2> QED
      BY <1>0, <2>1, <2>2
  <1>3. done' = done \/ (done' = done \cup {r.cmd} /\ r.base # 0)
    BY <1>0 DEF Written, Writes
  <1>4. late' \subseteq late \/ (late' \subseteq late \cup {Admitted(r)} /\ r.base = 0)
    BY <1>0 DEF Reads
  <1>5. /\ Admitted(r) \in Requests /\ Admitted(r).cmd = r.cmd /\ Admitted(r).base # 0
    BY <1>1, AdmittedRequest
  <1>6. TypeOK'
    <2>1. Len(log) \in Nat /\ late' \in SUBSET Requests' /\ wire' \in Requests' \cup {NoRequest}
      BY <1>2, <1>4, <1>5, <1>u DEF IInv, OutboxInv, TypeOK
    <2>2. reply' \in {"none", "accepted", "conflict", "refused"} /\ losses' \in 0..MaxLosses
      BY <1>u DEF IInv, OutboxInv, TypeOK
    <2> QED
      BY <1>2, <1>u, <2>1, <2>2, GrownTypeOK DEF IInv, OutboxInv
  <1>7. NoCommandLost' /\ QueueInv'
    BY <1>3, <1>u DEF IInv, OutboxInv, NoCommandLost, QueueInv, Queued, Settled
  <1>8. CarriedOutInOrder'
    BY <1>1, <1>3, <1>u DEF IInv, OutboxInv, CarriedOutInOrder, Settled
  <1>9. WireInv'
    <2>1. \A q \in late' : q.cmd < next' /\ 1..(q.cmd - 1) \subseteq Settled'
      BY <1>1, <1>3, <1>4, <1>5, <1>u DEF IInv, WireInv, Settled
    <2>2. pass' = "sent" => /\ queue' # <<>> /\ ~refused'
                            /\ wire'.cmd = queue'[1].cmd /\ wire'.kind = queue'[1].kind
                            /\ wire'.text = queue'[1].text
      BY <1>u DEF IInv, WireInv
    <2>3. reply' # "none" => pass' = "sent"
      BY <1>u DEF IInv, WireInv
    <2>4. reply' = "accepted" =>
             /\ wire'.cmd \in done'
             /\ wire'.kind = "edit" => Version' > cp' \/ Value' = Trimmed(wire'.text)
      <3>1. cp \in 0..Len(log) /\ Len(log) \in Nat
        BY DEF IInv, OutboxInv, TypeOK
      <3>2. Version' > cp \/ (Version' = Version /\ Value' = Value)
        <4>1. Version' \in Nat
          BY <1>2, VersionIsEditAfter
        <4> QED
          BY <1>2, <3>1, <4>1
      <3> QED
        BY <1>3, <1>u, <3>2 DEF IInv, WireInv, Trimmed
    <2> QED
      BY <2>1, <2>2, <2>3, <2>4 DEF WireInv
  <1>10. PurgeInv'
    BY <1>4, <1>5, <1>u DEF IInv, PurgeInv
  <1>11. /\ \A c \in done' : c \in done \/ \E q \in late : q.cmd = c /\ q.base # 0
         /\ \A q \in late' : q.cmd \in purged => q \in late
    BY <1>1, <1>3, <1>4, <1>5
  <1> QED
    BY <1>2, <1>6, <1>7, <1>8, <1>9, <1>10, <1>11 DEF IInv, OutboxInv
-----------------------------------------------------------------------------
(* The page that is applied shows its last edit, or leaves the field.      *)
LEMMA SyncApplyIInv ==
    ASSUME IInv, SyncApply
    PROVE  IInv'
  <1> USE DEF server, outbox, request, history
  <1>0. /\ Commands' = Commands /\ Requests' = Requests
        /\ Version' = Version /\ \A n : VersionAt(n)' = VersionAt(n)
    BY LogStays DEF SyncApply
  <1>1. /\ cp \in 0..Len(log) /\ to \in 0..Len(log) /\ cp <= to /\ Len(log) \in Nat
        /\ log \in Seq(Entries) /\ pass = "page" /\ pass' = "drain" /\ cp' = to
        /\ shown' = IF VersionAt(to) > cp THEN log[VersionAt(to)].value ELSE shown
    BY DEF SyncApply, IInv, OutboxInv, TypeOK, ShownInv
  <1>u. UNCHANGED <<log, session, owner, queue, refused, next, author, dialog, to, wire,
                    reply, late, losses, local, done, purged>>
    BY DEF SyncApply
  <1>2. /\ VersionAt(to) \in 0..to /\ (to > 0 => VersionAt(to) > 0)
        /\ \A s \in 1..to : log[s].kind = "edit" => s <= VersionAt(to)
        /\ VersionAt(cp) \in 0..cp /\ (cp > 0 => VersionAt(cp) > 0)
        /\ VersionAt(cp) > 0 => log[VersionAt(cp)].kind = "edit"
        /\ \A s \in 1..cp : log[s].kind = "edit" => s <= VersionAt(cp)
        /\ VersionAt(to) > 0 => log[VersionAt(to)].kind = "edit"
    BY <1>1, LastEdit DEF IInv
  <1>3. TypeOK'
    <2>1. shown' \in Texts
      <3>1. CASE VersionAt(to) > cp
        <4>1. VersionAt(to) \in 1..Len(log)
          BY <1>1, <1>2, <3>1
        <4>2. log[VersionAt(to)] \in Entries
          BY <1>1, <4>1
        <4> QED
          BY <1>1, <3>1, <4>2 DEF Entries
      <3>2. CASE ~(VersionAt(to) > cp)
        BY <1>1, <3>2 DEF IInv, OutboxInv, TypeOK
      <3> QED
        BY <3>1, <3>2
    <2>2. refused' \in BOOLEAN /\ (refused' => queue' # <<>>)
      BY <1>u, RefusedStays DEF IInv, OutboxInv, TypeOK
    <2>3. /\ wire' \in Requests' \cup {NoRequest} /\ (wire' # NoRequest <=> pass' = "sent")
          /\ late' \in SUBSET Requests' /\ queue' \in Seq(Commands')
          /\ dialog' \in 0..Len(log') /\ to' \in 0..Len(log') /\ cp' \in 0..Len(log')
      BY <1>0, <1>1, <1>u DEF IInv, OutboxInv, TypeOK
    <2> QED
      BY <1>1, <1>u, <2>1, <2>2, <2>3 DEF IInv, OutboxInv, TypeOK
  <1>4. NoCommandLost' /\ CarriedOutInOrder' /\ QueueInv' /\ LogInv'
    BY <1>u DEF IInv, OutboxInv, NoCommandLost, CarriedOutInOrder, QueueInv, LogInv,
                Queued, Settled
  <1>5. WireInv' /\ PurgeInv'
    BY <1>1, <1>u DEF IInv, WireInv, PurgeInv, Settled
  <1>6. ShownInv'
    <2>1. CASE VersionAt(to) > cp
      <3>1. cp' > 0 /\ shown' = log[VersionAt(to)].value
        BY <1>1, <1>2, <2>1
      <3> QED
        BY <1>0, <1>1, <1>u, <3>1 DEF ShownInv
    <2>2. CASE ~(VersionAt(to) > cp) /\ Version > cp
      <3>1. Version \in 1..Len(log) /\ log[Version].kind = "edit"
        BY <1>1, VersionIsEdit DEF IInv
      <3>2. Version > to
        BY <1>1, <1>2, <2>2, <3>1
      <3> QED
        BY <1>0, <1>1, <3>2 DEF ShownInv
    <2>3. CASE ~(VersionAt(to) > cp) /\ cp > 0 /\ Trimmed(shown) = Trimmed(log[VersionAt(cp)].value)
      <3>1. VersionAt(to) = VersionAt(cp)
        BY <1>1, <1>2, <2>3
      <3> QED
        BY <1>0, <1>1, <1>u, <2>3, <3>1 DEF ShownInv, Trimmed
    <2>4. CASE ~(VersionAt(to) > cp) /\ ShowsQueued
      <3>1. shown' = shown
        BY <1>1, <2>4
      <3>2. ShowsQueued'
        BY <1>u, <2>4, <3>1 DEF ShowsQueued
      <3> QED
        BY <1>1, <3>2 DEF ShownInv
    <2> QED
      BY <2>1, <2>2, <2>3, <2>4 DEF IInv, ShownInv
  <1> QED
    BY <1>3, <1>4, <1>5, <1>6 DEF IInv, OutboxInv

(* The purge takes the queue; nothing that was given up is unadmitted. *)
LEMMA PurgeIInv ==
    ASSUME IInv, Purge
    PROVE  IInv'
  <1> USE DEF server, request
  <1>0. /\ Commands' = Commands /\ Requests' = Requests /\ Version' = Version
    BY LogStays DEF Purge
  <1>1. /\ pass = "revoked" /\ pass' = "idle" /\ queue' = <<>> /\ cp' = 0 /\ shown' \in Texts
        /\ purged' = purged \cup Queued /\ Queued \subseteq Ids /\ next \in Nat
        /\ queue \in Seq(Commands) /\ \A c \in Queued : c \in Nat /\ c < next
        /\ \A c \in purged : c \in Nat /\ c < next
    <2>1. queue \in Seq(Commands) /\ next \in Nat
      BY BoundAssumption DEF IInv, OutboxInv, TypeOK
    <2>2. Queued \subseteq Ids
      <3>1. \A k \in 1..Len(queue) : queue[k] \in Commands
        BY <2>1
      <3>2. \A k \in 1..Len(queue) : queue[k].cmd \in Ids
        BY <3>1 DEF Commands
      <3> QED
        BY <3>2 DEF Queued
    <2>3. \A c \in Queued : c < next
      BY <2>1 DEF Queued, IInv, QueueInv
    <2>4. \A c \in purged : c \in Nat /\ c < next
      BY <2>1 DEF IInv, QueueInv
    <2>5. \A c \in Queued : c \in Nat
      BY <2>2, BoundAssumption DEF Ids
    <2> QED
      BY <2>1, <2>2, <2>3, <2>4, <2>5 DEF Purge, Queued, Plain, Texts
  <1>u. UNCHANGED <<log, session, next, author, to, wire, reply, late, losses, done>>
    BY DEF Purge
  <1>2. TypeOK'
    <2>1. /\ wire' \in Requests' \cup {NoRequest} /\ (wire' # NoRequest <=> pass' = "sent")
          /\ late' \in SUBSET Requests' /\ queue' \in Seq(Commands')
          /\ dialog' \in 0..Len(log') /\ to' \in 0..Len(log') /\ cp' \in 0..Len(log')
          /\ Len(log) \in Nat
      BY <1>0, <1>1, <1>u DEF IInv, OutboxInv, TypeOK, Purge
    <2>2. refused' = FALSE /\ local' = {} /\ owner' = NoAccount
      BY DEF Purge
    <2>3. purged' \in SUBSET Ids
      BY <1>1 DEF IInv, OutboxInv, TypeOK
    <2> QED
      BY <1>1, <1>u, <2>1, <2>2, <2>3 DEF IInv, OutboxInv, TypeOK
  <1>3. NoCommandLost' /\ CarriedOutInOrder'
    BY <1>1, <1>u DEF IInv, OutboxInv, NoCommandLost, CarriedOutInOrder
  <1>4. QueueInv' /\ LogInv'
    <2>1. Len(queue') = 0
      BY <1>1
    <2>2. 1..(next - 1) \subseteq Settled'
      BY <1>1, <1>u DEF IInv, OutboxInv, NoCommandLost, Settled
    <2>3. purged' \subseteq 1..(next - 1)
      <3>1. \A c \in Ids : c >= 1
        BY BoundAssumption DEF Ids
      <3> QED
        BY <1>1, <3>1 DEF IInv, OutboxInv, TypeOK
    <2>4. 0 < next
      BY BoundAssumption DEF IInv, OutboxInv, TypeOK
    <2> QED
      BY <1>1, <1>u, <2>1, <2>2, <2>3, <2>4 DEF QueueInv, IInv, LogInv
  <1>5. WireInv' /\ PurgeInv'
    BY <1>1, <1>u DEF IInv, WireInv, PurgeInv, Settled
  <1>6. ShownInv'
    BY <1>0, <1>1, WireIsRequest DEF ShownInv
  <1> QED
    BY <1>2, <1>3, <1>4, <1>5, <1>6 DEF IInv, OutboxInv
(* The head of the queue goes out, without an admission yet. *)
LEMMA SendIInv ==
    ASSUME IInv, Send
    PROVE  IInv' /\ wire'.cmd \notin purged
  <1> USE DEF server, outbox, replica, history
  <1>0. /\ Commands' = Commands /\ Requests' = Requests /\ Version' = Version
        /\ \A n : VersionAt(n)' = VersionAt(n)
    BY LogStays DEF Send
  <1>1. /\ queue \in Seq(Commands) /\ queue # <<>> /\ Len(log) \in Nat /\ Head(queue) = queue[1]
        /\ queue[1] \in Commands /\ Len(queue) \in Nat /\ Len(queue) > 0 /\ ~refused
    BY DEF IInv, OutboxInv, TypeOK, Send
  <1>2. /\ wire' \in Requests /\ wire'.cmd = queue[1].cmd /\ wire'.kind = queue[1].kind
        /\ wire'.text = queue[1].text /\ wire' # NoRequest
    <2>1. wire' = [cmd |-> queue[1].cmd, kind |-> queue[1].kind, marker |-> queue[1].marker,
                   text |-> queue[1].text, base |-> 0, as |-> NoAccount]
      BY <1>1 DEF Send
    <2>2. wire' \in Requests
      BY <1>1, <2>1 DEF Commands, Requests
    <2> QED
      BY <2>1, <2>2, WireIsRequest
  <1>3. /\ pass = "drain" /\ pass' = "sent" /\ reply = "none"
        /\ reply' = IF session = NoAccount THEN "refused" ELSE "none"
    BY DEF Send, IInv, WireInv
  <1>u. UNCHANGED <<log, session, owner, queue, refused, next, author, dialog, to,
                    late, losses, cp, shown, local, done, purged>>
    BY DEF Send
  <1>4. TypeOK'
    <2>1. /\ queue' \in Seq(Commands') /\ late' \in SUBSET Requests'
          /\ dialog' \in 0..Len(log') /\ to' \in 0..Len(log') /\ cp' \in 0..Len(log')
      BY <1>0, <1>u DEF IInv, OutboxInv, TypeOK
    <2>2. refused' \in BOOLEAN /\ (refused' => queue' # <<>>)
      BY <1>u, RefusedStays DEF IInv, OutboxInv, TypeOK
    <2> QED
      BY <1>0, <1>2, <1>3, <1>u, <2>1, <2>2 DEF IInv, OutboxInv, TypeOK
  <1>5. NoCommandLost' /\ CarriedOutInOrder' /\ QueueInv' /\ LogInv'
    BY <1>u DEF IInv, OutboxInv, NoCommandLost, CarriedOutInOrder, QueueInv, LogInv,
                Queued, Settled
  <1>6. WireInv'
    <2>1. ~refused'
      BY <1>1, <1>u, Zenon
    <2> QED
      BY <1>1, <1>2, <1>3, <1>u, <2>1 DEF IInv, WireInv, Settled
  <1>7. PurgeInv'
    BY <1>3, <1>u DEF IInv, PurgeInv
  <1>8. ShownInv'
    BY <1>0, <1>3, <1>u DEF IInv, ShownInv, ShowsQueued
  <1>9. wire'.cmd \notin purged
    <2>1. queue[1].cmd = next - Len(queue) /\ next \in Nat
      BY <1>1, BoundAssumption DEF IInv, QueueInv, OutboxInv, TypeOK
    <2> QED
      BY <1>1, <1>2, <2>1 DEF IInv, QueueInv
  <1> QED
    BY <1>4, <1>5, <1>6, <1>7, <1>8, <1>9 DEF IInv, OutboxInv

(* A request that is given up may still be handled. *)
LEMMA GiveUpIInv ==
    ASSUME IInv, GiveUp
    PROVE  IInv' /\ \A r \in late' : r.cmd \in purged => r \in late
  <1> USE DEF server, outbox, replica, history
  <1>0. /\ Commands' = Commands /\ Requests' = Requests /\ Version' = Version
        /\ \A n : VersionAt(n)' = VersionAt(n)
    BY LogStays DEF GiveUp
  <1>1. /\ pass = "sent" /\ pass' = "idle" /\ wire' = NoRequest /\ reply' = "none"
        /\ losses' \in 0..MaxLosses
        /\ late' = late \/ (late' = late \cup {wire} /\ reply = "none")
    BY BoundAssumption DEF GiveUp, IInv, OutboxInv, TypeOK
  <1>2. /\ wire.cmd < next /\ 1..(wire.cmd - 1) \subseteq Settled
        /\ wire.cmd \notin purged /\ wire \in Requests /\ wire # NoRequest
    BY <1>1, WireIsHead
  <1>u. UNCHANGED <<log, session, owner, queue, refused, next, author, dialog, to,
                    cp, shown, local, done, purged>>
    BY DEF GiveUp
  <1>3. TypeOK'
    <2>1. /\ queue' \in Seq(Commands') /\ late' \in SUBSET Requests'
          /\ dialog' \in 0..Len(log') /\ to' \in 0..Len(log') /\ cp' \in 0..Len(log')
      BY <1>0, <1>1, <1>2, <1>u DEF IInv, OutboxInv, TypeOK
    <2>2. refused' \in BOOLEAN /\ (refused' => queue' # <<>>)
      BY <1>u, RefusedStays DEF IInv, OutboxInv, TypeOK
    <2> QED
      BY <1>0, <1>1, <1>u, <2>1, <2>2 DEF IInv, OutboxInv, TypeOK
  <1>4. NoCommandLost' /\ CarriedOutInOrder' /\ QueueInv' /\ LogInv'
    BY <1>u DEF IInv, OutboxInv, NoCommandLost, CarriedOutInOrder, QueueInv, LogInv,
                Queued, Settled
  <1>5. WireInv'
    BY <1>1, <1>2, <1>u DEF IInv, WireInv, Settled
  <1>6. PurgeInv'
    BY <1>1, <1>2, <1>u DEF IInv, PurgeInv
  <1>7. ShownInv'
    BY <1>0, <1>1, <1>u DEF IInv, ShownInv, ShowsQueued
  <1> QED
    BY <1>1, <1>2, <1>3, <1>4, <1>5, <1>6, <1>7 DEF IInv, OutboxInv
(* What was carried out leaves the queue. *)
LEMMA AcceptIInv ==
    ASSUME IInv, Accept
    PROVE  IInv'
  <1> USE DEF server, replica, history
  <1>0. /\ Commands' = Commands /\ Requests' = Requests /\ Version' = Version
        /\ \A n : VersionAt(n)' = VersionAt(n)
    BY LogStays DEF Accept
  <1>1. /\ pass = "sent" /\ pass' = "drain" /\ wire' = NoRequest /\ reply' = "none"
        /\ reply = "accepted" /\ queue' = Tail(queue) /\ ~refused
        /\ queue \in Seq(Commands) /\ queue # <<>> /\ next \in Nat
    BY BoundAssumption DEF Accept, IInv, OutboxInv, TypeOK, WireInv
  <1>2. /\ queue' \in Seq(Commands) /\ Len(queue) \in Nat /\ Len(queue) > 0
        /\ Len(queue') = Len(queue) - 1
        /\ \A k \in 1..Len(queue') : queue'[k] = queue[k + 1]
    BY <1>1
  <1>3. wire.cmd = next - Len(queue) /\ wire.cmd \in done /\ wire.cmd = queue[1].cmd
    BY <1>1, WireIsHead DEF IInv, WireInv
  <1>u. UNCHANGED <<log, session, owner, refused, next, author, dialog, to,
                    late, losses, cp, shown, local, done, purged>>
    BY DEF Accept
  <1>4. TypeOK'
    <2>1. /\ queue' \in Seq(Commands') /\ late' \in SUBSET Requests'
          /\ dialog' \in 0..Len(log') /\ to' \in 0..Len(log') /\ cp' \in 0..Len(log')
      BY <1>0, <1>2, <1>u DEF IInv, OutboxInv, TypeOK
    <2>2. refused' = FALSE
      <3>1. refused \in BOOLEAN
        BY DEF IInv, OutboxInv, TypeOK
      <3> QED
        BY <1>1, <1>u, <3>1, Zenon
    <2> QED
      BY <1>0, <1>1, <1>u, <2>1, <2>2 DEF IInv, OutboxInv, TypeOK
  <1>5. NoCommandLost' /\ CarriedOutInOrder'
    <2>1. Queued \subseteq Queued' \cup {wire.cmd}
      <3> SUFFICES ASSUME NEW k \in 1..Len(queue), k # 1
                   PROVE  queue[k].cmd \in Queued'
        BY <1>3 DEF Queued
      <3>1. k - 1 \in 1..Len(queue') /\ queue'[k - 1] = queue[k]
        BY <1>2
      <3> QED
        BY <3>1 DEF Queued
    <2> QED
      BY <1>3, <1>u, <2>1 DEF IInv, OutboxInv, NoCommandLost, CarriedOutInOrder
  <1>6. QueueInv' /\ LogInv'
    <2>1. /\ Len(queue') < next' /\ next' - 1 - Len(queue') = next - Len(queue)
          /\ 1..(next - Len(queue)) = 1..(next - 1 - Len(queue)) \cup {wire.cmd}
      BY <1>1, <1>2, <1>3, <1>u DEF IInv, QueueInv
    <2>2. \A k \in 1..Len(queue') : queue'[k].cmd = next' - Len(queue') + k - 1
      <3> SUFFICES ASSUME NEW k \in 1..Len(queue')
                   PROVE  queue'[k].cmd = next' - Len(queue') + k - 1
        OBVIOUS
      <3>1. queue[k + 1].cmd = next - Len(queue) + k
        BY <1>1, <1>2 DEF IInv, QueueInv
      <3> QED
        BY <1>1, <1>2, <1>u, <3>1
    <2>3. /\ 1..(next' - 1 - Len(queue')) \subseteq Settled'
          /\ purged' \subseteq 1..(next' - 1 - Len(queue'))
      BY <1>3, <1>u, <2>1 DEF IInv, QueueInv, Settled
    <2> QED
      BY <1>u, <2>1, <2>2, <2>3 DEF QueueInv, LogInv, IInv
  <1>7. WireInv' /\ PurgeInv'
    BY <1>1, <1>u DEF IInv, WireInv, PurgeInv, Settled
  <1>8. ShownInv'
    <2>1. CASE ShowsQueued
      <3>1. PICK k \in 1..Len(queue) : queue[k].kind = "edit" /\ queue[k].text = shown
        BY <2>1 DEF ShowsQueued
      <3>2. CASE k = 1
        <4>1. wire.kind = "edit" /\ wire.text = shown
          BY <1>1, <3>1, <3>2 DEF IInv, WireInv
        <4>2. CASE Version > cp
          BY <1>0, <1>1, <1>u, <4>2 DEF ShownInv
        <4>3. CASE ~(Version > cp) /\ Value = Trimmed(shown)
          <5>1. /\ Version \in 1..Len(log) /\ Value = log[Version].value /\ cp \in 0..Len(log)
                /\ log \in Seq(Entries) /\ log[Version].kind = "edit"
                /\ \A t \in 1..Len(log) : log[t].kind = "edit" => t <= Version
            BY VersionIsEdit DEF IInv, OutboxInv, TypeOK
          <5>2. cp > 0 /\ Version <= cp
            BY <4>3, <5>1
          <5>3. VersionAt(cp) = Version
            <6>1. /\ VersionAt(cp) \in 1..cp /\ log[VersionAt(cp)].kind = "edit"
                  /\ \A t \in 1..cp : log[t].kind = "edit" => t <= VersionAt(cp)
              BY <5>1, <5>2, LastEdit DEF IInv
            <6> QED
              BY <5>1, <5>2, <6>1
          <5>4. Trimmed(Value) = Trimmed(shown)
            BY <4>3 DEF Trimmed, Plain
          <5> QED
            BY <1>0, <1>1, <1>u, <5>1, <5>2, <5>3, <5>4 DEF ShownInv
        <4> QED
          BY <1>1, <4>1, <4>2, <4>3 DEF IInv, WireInv
      <3>3. CASE k # 1
        <4>1. k - 1 \in 1..Len(queue') /\ queue'[k - 1] = queue[k]
          BY <1>2, <3>3
        <4>2. ShowsQueued'
          BY <1>u, <3>1, <4>1 DEF ShowsQueued
        <4> QED
          BY <1>1, <4>2 DEF ShownInv
      <3> QED
        BY <3>2, <3>3
    <2>2. CASE ~ShowsQueued
      BY <1>0, <1>1, <1>u, <2>2 DEF IInv, ShownInv
    <2> QED
      BY <2>1, <2>2
  <1> QED
    BY <1>4, <1>5, <1>6, <1>7, <1>8 DEF IInv, OutboxInv

(* What was refused stays at the head, marked. *)
LEMMA RejectIInv ==
    ASSUME IInv, Reject
    PROVE  IInv'
  <1> USE DEF server, replica, history
  <1>0. /\ Commands' = Commands /\ Requests' = Requests /\ Version' = Version
        /\ \A n : VersionAt(n)' = VersionAt(n)
    BY LogStays DEF Reject
  <1>1. /\ pass = "sent" /\ pass' = "idle" /\ wire' = NoRequest /\ reply' = "none"
        /\ queue # <<>> /\ refused' = TRUE
    BY DEF Reject, IInv, WireInv
  <1>u. UNCHANGED <<log, session, owner, queue, next, author, dialog, to,
                    late, losses, cp, shown, local, done, purged>>
    BY DEF Reject
  <1>2. TypeOK'
    <2>1. /\ queue' \in Seq(Commands') /\ late' \in SUBSET Requests'
          /\ dialog' \in 0..Len(log') /\ to' \in 0..Len(log') /\ cp' \in 0..Len(log')
      BY <1>0, <1>u DEF IInv, OutboxInv, TypeOK
    <2> QED
      BY <1>0, <1>1, <1>u, <2>1 DEF IInv, OutboxInv, TypeOK
  <1>3. NoCommandLost' /\ CarriedOutInOrder' /\ QueueInv' /\ LogInv'
    BY <1>u DEF IInv, OutboxInv, NoCommandLost, CarriedOutInOrder, QueueInv, LogInv,
                Queued, Settled
  <1>4. WireInv' /\ PurgeInv'
    BY <1>1, <1>u DEF IInv, WireInv, PurgeInv, Settled
  <1>5. ShownInv'
    BY <1>0, <1>1, <1>u DEF IInv, ShownInv, ShowsQueued
  <1> QED
    BY <1>2, <1>3, <1>4, <1>5 DEF IInv, OutboxInv
-----------------------------------------------------------------------------
(* Every step keeps the invariant. *)
LEMMA NextIInv == IInv /\ [Next]_vars => IInv'
  <1> SUFFICES ASSUME IInv, [Next]_vars PROVE IInv'
    OBVIOUS
  <1>1. CASE Page
    <2>1. CASE EnqueueAny
      <3>1. "comment" \in Kinds /\ "edit" \in Kinds
        BY DEF Kinds
      <3>2. CASE Enqueue("comment", 0, Plain(next))
        <4>1. Plain(next) \in Texts
          BY <3>2, BoundAssumption DEF Enqueue, IInv, OutboxInv, TypeOK, Plain, Texts, Ids
        <4> QED
          BY <3>1, <3>2, <4>1, EnqueueIInv
      <3>3. ASSUME NEW m \in {0, dialog}, NEW text \in Typed, Enqueue("edit", m, text)
            PROVE  IInv'
        <4>1. next \in Ids /\ shown.says \in Ids \cup {0, Other}
          BY <3>3, BoundAssumption DEF Enqueue, IInv, OutboxInv, TypeOK, Texts, Ids
        <4>2. text \in Texts
          BY <4>1, BlanksAssumption DEF Typed, Texts
        <4> QED
          BY <3>1, <3>3, <4>2, EnqueueIInv
      <3> QED
        BY <2>1, <3>2, <3>3 DEF EnqueueAny
    <2>2. CASE OpenDialog \/ RetryOutbox \/ Reload
      BY <2>2, SmallSteps, SmallIInv
    <2> QED
      BY <1>1, <2>1, <2>2 DEF Page
  <1>2. CASE World
    <2>1. CASE \E a \in Accounts : SignIn(a)
      BY <2>1, SmallSteps, SmallIInv
    <2> QED
      BY <1>2, <2>1, EndSessionIInv, OtherEditIInv DEF World
  <1>3. CASE Handler
    <2>1. CASE HandleConflict \/ HandleRefuse
      BY <2>1, SmallSteps, SmallIInv
    <2> QED
      BY <1>3, <2>1, HandleReadIInv, HandleWriteIInv, HandleLateIInv DEF Handler
  <1>4. CASE Worker
    <2>1. CASE StartPass \/ SyncAnswer \/ SyncFails \/ EndPass
      BY <2>1, SmallSteps, SmallIInv
    <2> QED
      BY <1>4, <2>1, SyncApplyIInv, PurgeIInv, SendIInv, GiveUpIInv, AcceptIInv, RejectIInv
      DEF Worker
  <1>5. CASE UNCHANGED vars
    <2>1. Small
      BY <1>5 DEF vars, server, outbox, request, replica, history, Small, IInv, OutboxInv, TypeOK
    <2> QED
      BY <2>1, SmallIInv
  <1> QED
    BY <1>1, <1>2, <1>3, <1>4, <1>5 DEF Next

(* The inductive invariant holds. *)
THEOREM IInvHolds == Spec => []IInv
  BY InitIInv, NextIInv, PTL DEF Spec

(***************************************************************************)
(* The types hold, no command the user was told is saved is lost, and none *)
(* is carried out before an earlier one: drainOutbox sends the head alone, *)
(* whatever is given up, resent, refused, reloaded or purged.              *)
(***************************************************************************)
THEOREM OutboxSafe == Spec => []OutboxInv
  <1>1. IInv => OutboxInv
    BY DEF IInv
  <1> QED
    BY <1>1, IInvHolds, PTL

(***************************************************************************)
(* When the outbox is empty and the log applied, the field says what the   *)
(* server's says (applyOptimistic): a text shown early is replaced by the  *)
(* page with the edit, or differs in blanks alone from the last one of it. *)
(***************************************************************************)
THEOREM FieldIsServers == Spec => []DrainedFieldIsServers
  <1>1. IInv => DrainedFieldIsServers
    <2> SUFFICES ASSUME IInv, queue = <<>>, cp = Len(log)
                 PROVE  Trimmed(shown) = Trimmed(Value)
      BY DEF DrainedFieldIsServers, Drained
    <2>1. ~ShowsQueued
      BY DEF ShowsQueued
    <2>2. Version <= cp /\ Version \in Nat /\ cp \in Nat
      BY WireIsRequest
    <2> QED
      BY <2>1, <2>2 DEF IInv, ShownInv, Version, Value
  <1> QED
    BY <1>1, IInvHolds, PTL

(* What the worker sends has not been purged. *)
LEMMA WireNotPurged == IInv => (wire # NoRequest => wire.cmd \notin purged)
  BY WireIsHead DEF IInv, OutboxInv, TypeOK

(* Nor has what it waits for after a step. *)
LEMMA WireNotPurgedAfter == (IInv => (wire # NoRequest => wire.cmd \notin purged))'
  BY WireNotPurged, PTL

(***************************************************************************)
(* What was purged is never sent or admitted again, and only carried out   *)
(* for a request admitted before (purgePrivateReplica and the account      *)
(* check of the handlers), for any number of accounts and lost requests.   *)
(***************************************************************************)
THEOREM PurgedStaysPurged == Spec => PurgedNeverRuns
  <1> DEFINE A == /\ \A c \in purged \cap done' :
                         c \in done \/ \E r \in late : r.cmd = c /\ r.base # 0
                  /\ \A r \in late' \cup ({wire'} \ {NoRequest}) :
                         r.cmd \in purged => r \in late
  <1>1. ASSUME IInv, [Next]_vars PROVE A
    <2>1. IInv' /\ purged \subseteq purged'
      <3>1. purged \subseteq purged'
        BY <1>1 DEF Next, Page, World, Handler, Worker, OpenDialog, EnqueueAny, Enqueue,
           RetryOutbox, Reload, EndSession, SignIn, OtherEdit, HandleRead, HandleWrite,
           HandleConflict, HandleRefuse, HandleLate, StartPass, SyncAnswer, SyncFails,
           SyncApply, Purge, Send, EndPass, GiveUp, Accept, Reject, history, vars
      <3> QED
        BY <1>1, <3>1, NextIInv
    <2>2. \A r \in {wire'} \ {NoRequest} : r.cmd \notin purged
      BY <2>1, WireNotPurgedAfter
    <2>3. CASE HandleLate
      BY <1>1, <2>2, <2>3, HandleLateIInv
    <2>4. CASE HandleWrite
      BY <1>1, <2>2, <2>4, HandleWriteIInv DEF HandleWrite
    <2>5. CASE GiveUp
      BY <1>1, <2>2, <2>5, GiveUpIInv DEF GiveUp, history
    <2>6. CASE ~HandleLate /\ ~HandleWrite /\ ~GiveUp
      <3>1. late' \subseteq late /\ done' = done
        BY <1>1, <2>6 DEF Next, Page, World, Handler, Worker, OpenDialog, EnqueueAny, Enqueue,
           RetryOutbox, Reload, EndSession, SignIn, OtherEdit, HandleRead,
           HandleConflict, HandleRefuse, StartPass, SyncAnswer, SyncFails,
           SyncApply, Purge, Send, EndPass, Accept, Reject, history, request, vars
      <3> QED
        BY <2>2, <3>1
    <2> QED
      BY <2>3, <2>4, <2>5, <2>6
  <1>2. IInv /\ [Next]_vars => [A]_vars
    BY <1>1
  <1> QED
    BY <1>2, IInvHolds, PTL DEF Spec, PurgedNeverRuns
=============================================================================
