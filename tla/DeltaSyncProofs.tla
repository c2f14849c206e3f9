-------------------------- MODULE DeltaSyncProofs --------------------------
(***************************************************************************)
(* Proofs about delta sync: a replica is the log replayed up to its        *)
(* checkpoint, and a replica that is caught up holds nothing that its user *)
(* may not see, for any number of work items and users, any length of the  *)
(* log and any page size.                                                  *)
(*                                                                         *)
(* The invariants speak of the log as a value, so that a step that only    *)
(* appends to it can be seen to leave them alone.                          *)
(***************************************************************************)
EXTENDS DeltaSync, FiniteSetTheorems, SequenceTheorems, WellFoundedInduction, TLAPS

(* What a page of the log l does to the row and to the comments of i. *)
RowReads(l, page, i) == {s \in page : l[s].issue = i /\ l[s].op # "comment"}
WipeReads(l, page, i) == {s \in RowReads(l, page, i) : l[s].op # "upsert"}
CommentReads(l, page, i) == {s \in page : l[s].issue = i /\ l[s].op = "comment"}

RowOf(l, old, page, i) ==
    IF RowReads(l, page, i) = {} THEN old ELSE l[Max(RowReads(l, page, i))].ver

ThreadOf(l, old, page, i) ==
    {c \in old : WipeReads(l, page, i) = {}}
        \cup {l[s].ver : s \in {x \in CommentReads(l, page, i) :
                                  \A w \in WipeReads(l, page, i) : w < x}}

Own(l, u, n) == {s \in 1..n : l[s].op = "tombstone" => l[s].user = u}

(* An action that empties the copy of a work item. *)
IsWipe(e) == e.op \in {"delete", "tombstone"}

(* A wipe leaves no content, and a comment is some comment. *)
Sound(e) == (IsWipe(e) => e.ver = 0) /\ (e.op = "comment" => e.ver # 0)
-----------------------------------------------------------------------------
(* A work item that does not exist yet has left no trace. *)
LogOf(s) == state[log[s].issue] # "none" /\ Sound(log[s])

LogInv == \A s \in 1..HeadSeq : LogOf(s)

Untouched(u, i) ==
    /\ rep[u][i] = 0 /\ repThread[u][i] = {} /\ i \notin opened[u]
    /\ snap[u].rows[i] = 0 /\ snap[u].threads[i] = {}

NoneOf(u, i) == state[i] = "none" => thread[i] = {} /\ Untouched(u, i)

(* What the two histories leave out. *)
GapOf(u, i) == <<i, u>> \notin gaps /\ state[i] # "none" => Visible(i, u)
LeakOf(u, i) == <<i, u>> \notin leaks => active /\ u \in member

(* The log replayed to its end is the table. *)
TableOf(u, i) ==
    <<i, u>> \notin gaps =>
        /\ RowOf(log, 0, Own(log, u, HeadSeq), i) = IF state[i] = "live" THEN content[i] ELSE 0
        /\ ThreadOf(log, {}, Own(log, u, HeadSeq), i)
              = IF state[i] = "live" THEN thread[i] ELSE {}

(* The log replayed to the checkpoint is the replica ... *)
PrefixOf(u, i) ==
    <<i, u>> \notin gaps =>
        /\ \/ rep[u][i] = RowOf(log, 0, Own(log, u, cp[u]), i)
           \/ rep[u][i] = Seed /\ RowOf(log, 0, Own(log, u, cp[u]), i) = 0
        /\ repThread[u][i] = ThreadOf(log, {}, Own(log, u, cp[u]), i)

(* ... and what is on its way continues it. *)
WindowOf(u) ==
    /\ phase[u] \in {"page", "reply"} => cp[u] < to[u]
    /\ phase[u] = "reply" => got[u] \subseteq (cp[u] + 1)..to[u]
    /\ phase[u] = "snapshot" => cp[u] = 0 /\ (to[u] = 0 => snap[u].threads = NoThreads)
    /\ cp[u] = 0 => repThread[u] = NoThreads

PageOf(u, i) ==
    <<i, u>> \notin gaps =>
        /\ phase[u] = "reply" =>
              \A s \in (cp[u] + 1)..to[u] :
                  log[s].issue = i => (s \in got[u] <=> s \in Own(log, u, HeadSeq))
        /\ phase[u] = "snapshot" =>
              /\ snap[u].rows[i] = RowOf(log, 0, Own(log, u, to[u]), i)
              /\ snap[u].threads[i] = ThreadOf(log, {}, Own(log, u, to[u]), i)

(* The tombstones for u; the wipes that nothing of i follows. *)
Tombstones(l, u, i) == {t \in 1..Len(l) : l[t] = Tombstone(i, u)}
Ends(l, u, i) ==
    {w \in 1..Len(l) : /\ l[w] \in {Delete(i), Tombstone(i, u)}
                       /\ \A s \in 1..Len(l) : s > w /\ l[s].issue = i => IsWipe(l[s])}

(* Clean, or cleaned by an action in W that the replica has not passed. *)
Clean(row, comments) == row = 0 /\ comments = {}

ToCome(W, n) == \E w \in W : w > n

Cleared(u, i, W) ==
    /\ Clean(rep[u][i], repThread[u][i]) \/ ToCome(W, cp[u])
    /\ phase[u] = "reply" =>
          \/ Clean(RowOf(log, rep[u][i], got[u], i), ThreadOf(log, repThread[u][i], got[u], i))
          \/ ToCome(W, to[u])
    /\ phase[u] = "snapshot" =>
          \/ Clean(rep[u][i], repThread[u][i]) /\ Clean(snap[u].rows[i], snap[u].threads[i])
          \/ ToCome(W, to[u])

Hidden(u, i) == i \in restricted /\ u \notin cleared
Dead(i) == state[i] \in {"gone", "archived"}

(* Tombstones are owed for work items that exist. *)
OwedOf(u, i) == i \in restricting \/ <<i, u>> \in owed => state[i] # "none"

(* A hidden work item, its tombstones all appended. *)
HiddenOf(u, i) ==
    (/\ <<i, u>> \notin leaks \cup owed /\ i \notin restricting
     /\ state[i] # "none" /\ Hidden(u, i))
    => Cleared(u, i, Tombstones(log, u, i))

(* A work item that is gone or archived. *)
EndOf(u, i) == <<i, u>> \notin leaks /\ Dead(i) => Ends(log, u, i) # {}
DeadOf(u, i) ==
    (<<i, u>> \notin leaks \cup owed /\ Dead(i) /\ ~Hidden(u, i))
    => Cleared(u, i, Ends(log, u, i))

PairOf(u, i) ==
    /\ NoneOf(u, i) /\ OwedOf(u, i) /\ GapOf(u, i) /\ LeakOf(u, i)
    /\ TableOf(u, i) /\ PrefixOf(u, i) /\ PageOf(u, i)
    /\ HiddenOf(u, i) /\ EndOf(u, i) /\ DeadOf(u, i)

IInv == TypeOK /\ LogInv /\ \A u \in Users : WindowOf(u) /\ \A i \in Issues : PairOf(u, i)

-----------------------------------------------------------------------------
(* Reading a log. *)
LEMMA LeastOf ==
    ASSUME NEW S \in SUBSET Nat, S # {}
    PROVE  \E x \in S : \A y \in S : x <= y
  <1> DEFINE Less == {ss \in Nat \X Nat : ss[1] < ss[2]}
  <1>1. IsWellFoundedOn(Less, Nat)
    BY NatLessThanWellFounded, Zenon DEF OpToRel
  <1>2. \E x \in S : \A y \in S : ~(<<y, x>> \in Less)
    <2> HIDE DEF Less
    <2> QED
      BY <1>1, WFMin, Zenon
  <1>3. \A x, y \in S : ~(<<y, x>> \in Less) => x <= y
    OBVIOUS
  <1> QED
    BY <1>2, <1>3

(* A page that reads something reads something last. *)
LEMMA LastOf ==
    ASSUME NEW n \in Nat, NEW S \in SUBSET (1..n), S # {}
    PROVE  \E x \in S : \A y \in S : y <= x
  <1> DEFINE D == {n - x : x \in S}
  <1>1. D \in SUBSET Nat /\ D # {}
    <2>1. \A x \in S : n - x \in Nat
      OBVIOUS
    <2>2. PICK x \in S : TRUE
      OBVIOUS
    <2>3. n - x \in D
      BY <2>2
    <2> QED
      BY <2>1, <2>3
  <1>2. PICK d \in D : \A e \in D : d <= e
    <2> HIDE DEF D
    <2> QED
      BY <1>1, LeastOf
  <1>3. PICK x \in S : d = n - x
    BY <1>2
  <1>4. \A y \in S : n - x <= n - y
    BY <1>2, <1>3
  <1> QED
    BY <1>3, <1>4

(* The row is what the last action on it says, or what it was. *)
LEMMA LastRow ==
    ASSUME NEW l, NEW old, NEW page \in SUBSET Nat, NEW i,
           NEW m \in RowReads(l, page, i), \A y \in RowReads(l, page, i) : y <= m
    PROVE  RowOf(l, old, page, i) = l[m].ver
  <1>1. RowReads(l, page, i) \subseteq Nat
    BY DEF RowReads
  <1>2. Max(RowReads(l, page, i)) = m
    <2> DEFINE R == RowReads(l, page, i)
    <2>1. R \subseteq Nat /\ m \in R /\ \A y \in R : m >= y
      BY <1>1
    <2> HIDE DEF R
    <2>2. \A x \in R : (\A y \in R : x >= y) => x = m
      BY <2>1
    <2>3. Max(R) \in R /\ \A y \in R : Max(R) >= y
      BY <2>1 DEF Max
    <2> QED
      BY <2>2, <2>3 DEF R
  <1> QED
    BY <1>2 DEF RowOf

(* Two logs and two pages of them that say the same of i. *)
Agree(l, A, k, B, i) ==
    /\ \E n \in Nat : A \subseteq 1..n
    /\ \A s : s \in A /\ l[s].issue = i <=> s \in B /\ k[s].issue = i
    /\ \A s \in A : l[s].issue = i => l[s] = k[s]

(* Pages that read the same of i, from logs that agree there, do the same. *)
LEMMA SameReading ==
    ASSUME NEW l, NEW k, NEW A, NEW B, NEW i,
           NEW row, NEW comments, Agree(l, A, k, B, i)
    PROVE  /\ RowOf(l, row, A, i) = RowOf(k, row, B, i)
           /\ ThreadOf(l, comments, A, i) = ThreadOf(k, comments, B, i)
  <1>1. RowReads(l, A, i) = RowReads(k, B, i)
    BY DEF RowReads, Agree
  <1>2. WipeReads(l, A, i) = WipeReads(k, B, i)
    BY <1>1 DEF WipeReads, RowReads, Agree
  <1>3. CommentReads(l, A, i) = CommentReads(k, B, i)
    BY DEF CommentReads, Agree
  <1>4. \A s \in RowReads(l, A, i) \cup CommentReads(l, A, i) : l[s] = k[s]
    BY DEF RowReads, CommentReads, Agree
  <1>5. RowOf(l, row, A, i) = RowOf(k, row, B, i)
    <2>1. CASE RowReads(l, A, i) = {}
      BY <1>1, <2>1 DEF RowOf
    <2>2. CASE RowReads(l, A, i) # {}
      <3>1. PICK n \in Nat : A \subseteq 1..n
        BY DEF Agree
      <3>2. RowReads(l, A, i) \in SUBSET (1..n)
        BY <3>1 DEF RowReads
      <3>3. PICK m \in RowReads(l, A, i) : \A y \in RowReads(l, A, i) : y <= m
        BY <2>2, <3>2, LastOf
      <3>5. RowOf(k, row, B, i) = k[Max(RowReads(l, A, i))].ver
        BY <1>1, <2>2 DEF RowOf
      <3>6. RowOf(l, row, A, i) = l[Max(RowReads(l, A, i))].ver
        BY <2>2 DEF RowOf
      <3>7. Max(RowReads(l, A, i)) \in RowReads(l, A, i)
        <4>1. \A y \in RowReads(l, A, i) : m >= y
          BY <3>2, <3>3
        <4> QED
          BY <3>3, <4>1 DEF Max
      <3> QED
        BY <1>4, <3>5, <3>6, <3>7
    <2> QED
      BY <2>1, <2>2
  <1>6. ThreadOf(l, comments, A, i) = ThreadOf(k, comments, B, i)
    BY <1>2, <1>3, <1>4 DEF ThreadOf
  <1> QED
    BY <1>5, <1>6

(* The page A lies before m, and B after it. *)
Splits(A, m, B) ==
    /\ m \in Nat /\ A \subseteq 1..m
    /\ \E n \in Nat : m <= n /\ B \subseteq (m + 1)..n

(* Applying one page after another is applying both. *)
LEMMA OneAfterAnother ==
    ASSUME NEW l, NEW m, NEW i, NEW row, NEW comments, NEW A, NEW B, Splits(A, m, B)
    PROVE  /\ RowOf(l, RowOf(l, row, A, i), B, i) = RowOf(l, row, A \cup B, i)
           /\ ThreadOf(l, ThreadOf(l, comments, A, i), B, i) = ThreadOf(l, comments, A \cup B, i)
  <1> DEFINE C == A \cup B
  <1>n. PICK n \in Nat : m <= n /\ B \subseteq (m + 1)..n
    BY DEF Splits
  <1>m. m \in Nat /\ A \subseteq 1..m
    BY DEF Splits
  <1>1. RowReads(l, C, i) = RowReads(l, A, i) \cup RowReads(l, B, i)
    BY DEF RowReads
  <1>2. WipeReads(l, C, i) = WipeReads(l, A, i) \cup WipeReads(l, B, i)
    BY <1>1 DEF WipeReads
  <1>3. CommentReads(l, C, i) = CommentReads(l, A, i) \cup CommentReads(l, B, i)
    BY DEF CommentReads
  <1>4. \A x \in A, y \in B : x < y
    BY <1>n, <1>m
  <1>5. C \in SUBSET Nat /\ B \in SUBSET (1..n) /\ B \in SUBSET Nat /\ A \in SUBSET Nat
    BY <1>n, <1>m
  <1>6. RowOf(l, RowOf(l, row, A, i), B, i) = RowOf(l, row, C, i)
    <2>1. CASE RowReads(l, B, i) = {}
      <3>1. RowReads(l, C, i) = RowReads(l, A, i)
        BY <1>1, <2>1
      <3> QED
        BY <2>1, <3>1 DEF RowOf
    <2>2. CASE RowReads(l, B, i) # {}
      <3>1. RowReads(l, B, i) \in SUBSET (1..n)
        BY <1>5 DEF RowReads
      <3>2. PICK b \in RowReads(l, B, i) : \A y \in RowReads(l, B, i) : y <= b
        BY <2>2, <3>1, LastOf
      <3>3. b \in RowReads(l, C, i) /\ \A y \in RowReads(l, C, i) : y <= b
        <4>1. b \in B /\ b \in Nat
          BY <3>2, <1>5 DEF RowReads
        <4>2. \A y \in RowReads(l, A, i) : y \in A /\ y \in Nat
          BY <1>5 DEF RowReads
        <4>3. \A y \in RowReads(l, A, i) : y <= b
          BY <1>4, <4>1, <4>2
        <4> QED
          BY <1>1, <3>2, <4>3
      <3>4. RowOf(l, RowOf(l, row, A, i), B, i) = l[b].ver
        BY <3>2, <1>5, LastRow
      <3>5. RowOf(l, row, C, i) = l[b].ver
        <4> HIDE DEF C
        <4> QED
          BY <3>3, <1>5, LastRow
      <3> QED
        BY <3>4, <3>5
    <2> QED
      BY <2>1, <2>2
  <1>7. ThreadOf(l, ThreadOf(l, comments, A, i), B, i) = ThreadOf(l, comments, C, i)
    <2>1. \A x \in WipeReads(l, A, i) \cup CommentReads(l, A, i) : x \in A
      BY DEF WipeReads, RowReads, CommentReads
    <2>2. \A x \in WipeReads(l, B, i) \cup CommentReads(l, B, i) : x \in B
      BY DEF WipeReads, RowReads, CommentReads
    <2>3. \A x \in WipeReads(l, A, i), y \in CommentReads(l, B, i) : x < y
      BY <1>4, <2>1, <2>2
    <2>4. \A x \in CommentReads(l, A, i), y \in WipeReads(l, B, i) : ~(y < x)
      <3>1. \A x \in A, y \in B : ~(y < x)
        BY <1>n, <1>m
      <3> QED
        BY <2>1, <2>2, <3>1
    <2> HIDE DEF C
    <2> QED
      BY <1>2, <1>3, <2>3, <2>4 DEF ThreadOf
  <1> QED
    BY <1>6, <1>7

(* A page that ends in wipes leaves nothing of i, and so does one that     *)
(* reads only wipes if nothing was there.                                  *)
LEMMA ReadsClean ==
    ASSUME NEW l, NEW n \in Nat, NEW page \in SUBSET (1..n), NEW i, NEW row, NEW comments,
           \A s \in page : l[s].issue = i /\ IsWipe(l[s]) => l[s].ver = 0,
           \/ Clean(row, comments) /\ \A s \in page : l[s].issue = i => IsWipe(l[s])
           \/ \E w \in page : /\ l[w].issue = i /\ IsWipe(l[w])
                              /\ \A s \in page : s > w /\ l[s].issue = i => IsWipe(l[s])
    PROVE  Clean(RowOf(l, row, page, i), ThreadOf(l, comments, page, i))
  <1>1. RowReads(l, page, i) \in SUBSET (1..n) /\ page \in SUBSET Nat
    <2>1. RowReads(l, page, i) \subseteq page
      BY DEF RowReads
    <2>2. page \in SUBSET Nat
      OBVIOUS
    <2> QED
      BY <2>1, <2>2
  <1>2. CASE /\ Clean(row, comments) /\ \A s \in page : l[s].issue = i => IsWipe(l[s])
    <2>1. RowOf(l, row, page, i) = 0
      <3>1. CASE RowReads(l, page, i) = {}
        BY <1>2, <3>1 DEF RowOf, Clean
      <3>2. CASE RowReads(l, page, i) # {}
        <4>1. PICK m \in RowReads(l, page, i) : \A y \in RowReads(l, page, i) : y <= m
          BY <1>1, <3>2, LastOf
        <4>2. RowOf(l, row, page, i) = l[m].ver
          BY <1>1, <4>1, LastRow
        <4>3. m \in page /\ l[m].issue = i
          BY <4>1 DEF RowReads
        <4> QED
          BY <1>2, <4>2, <4>3
      <3> QED
        BY <3>1, <3>2
    <2>2. CommentReads(l, page, i) = {}
      BY <1>2 DEF CommentReads, IsWipe
    <2> QED
      BY <1>2, <2>1, <2>2 DEF ThreadOf, Clean
  <1>3. CASE \E w \in page : /\ l[w].issue = i /\ IsWipe(l[w])
                             /\ \A s \in page : s > w /\ l[s].issue = i => IsWipe(l[s])
    <2>1. PICK w \in page : /\ l[w].issue = i /\ IsWipe(l[w])
                            /\ \A s \in page : s > w /\ l[s].issue = i => IsWipe(l[s])
      BY <1>3
    <2>2. w \in WipeReads(l, page, i) /\ w \in RowReads(l, page, i) /\ w \in Nat
      BY <1>1, <2>1 DEF WipeReads, RowReads, IsWipe
    <2>3. RowOf(l, row, page, i) = 0
      <3>1. PICK m \in RowReads(l, page, i) : \A y \in RowReads(l, page, i) : y <= m
        BY <1>1, <2>2, LastOf
      <3>2. RowOf(l, row, page, i) = l[m].ver
        BY <1>1, <3>1, LastRow
      <3>3. m \in page /\ l[m].issue = i /\ m >= w /\ m \in Nat
        BY <1>1, <2>2, <3>1 DEF RowReads
      <3>4. IsWipe(l[m])
        BY <2>1, <2>2, <3>3
      <3> QED
        BY <3>2, <3>3, <3>4
    <2>4. \A x \in CommentReads(l, page, i) : ~(w < x)
      <3> SUFFICES ASSUME NEW x \in CommentReads(l, page, i), w < x PROVE FALSE
        OBVIOUS
      <3>1. x \in page /\ l[x].issue = i /\ l[x].op = "comment" /\ x \in Nat
        BY <1>1 DEF CommentReads
      <3>2. IsWipe(l[x])
        BY <2>1, <2>2, <3>1
      <3> QED
        BY <3>1, <3>2 DEF IsWipe
    <2>5. ThreadOf(l, comments, page, i) = {}
      BY <2>2, <2>4 DEF ThreadOf
    <2> QED
      BY <2>3, <2>5 DEF Clean
  <1> QED
    BY <1>2, <1>3

-----------------------------------------------------------------------------
(* The log only grows. *)
Grows ==
    /\ HeadSeq \in Nat /\ HeadSeq' \in Nat /\ HeadSeq <= HeadSeq'
    /\ \A s \in 1..HeadSeq : log'[s] = log[s]

LogType == log \in Seq(Actions) /\ HeadSeq <= MaxSeq

TableType ==
    /\ state \in [Issues -> {"none", "live", "archived", "gone"}]
    /\ content \in [Issues -> 0..HeadSeq]
    /\ thread \in [Issues -> SUBSET (1..HeadSeq)]

FlagType == active \in BOOLEAN

SetType ==
    /\ restricted \in SUBSET Issues
    /\ cleared \in SUBSET Users /\ member \in SUBSET Users
    /\ restricting \in SUBSET Issues
    /\ owed \in SUBSET Pairs /\ gaps \in SUBSET Pairs /\ leaks \in SUBSET Pairs

ReplicaType ==
    /\ rep \in [Users -> [Issues -> 0..HeadSeq \cup {Seed}]]
    /\ repThread \in [Users -> [Issues -> SUBSET (1..HeadSeq)]]
    /\ cp \in [Users -> 0..HeadSeq]

RequestType ==
    /\ phase \in [Users -> {"idle", "page", "reply", "snapshot"}]
    /\ to \in [Users -> 0..HeadSeq]
    /\ got \in [Users -> SUBSET (1..HeadSeq)]
    /\ snap \in [Users -> Snapshots]
    /\ opened \in [Users -> SUBSET Issues]

LEMMA TypeParts ==
    TypeOK <=> LogType /\ TableType /\ FlagType /\ SetType /\ ReplicaType /\ RequestType
  BY Zenon DEF TypeOK, LogType, TableType, FlagType, SetType, ReplicaType, RequestType

LEMMA TypePartsAfter ==
    LogType' /\ TableType' /\ FlagType' /\ SetType' /\ ReplicaType' /\ RequestType' => TypeOK'
  BY TypeParts, PTL

LEMMA SameLogGrows ==
    ASSUME LogType, UNCHANGED log
    PROVE  Grows /\ LogType' /\ HeadSeq' = HeadSeq
  BY DEF LogType, Grows, HeadSeq, Actions

(* What is known of one entry. *)
LEMMA EntryType ==
    ASSUME LogType, NEW s \in 1..HeadSeq
    PROVE  /\ log[s].op \in {"upsert", "delete", "comment", "tombstone"}
           /\ log[s].issue \in Issues /\ log[s].ver \in 0..HeadSeq
           /\ log[s].user \in Users \cup {Nobody}
  <1>1. log[s] \in Actions
    BY DEF LogType, HeadSeq
  <1> QED
    BY <1>1 DEF Actions

(* An append of well-typed entries. *)
LEMMA Appended ==
    ASSUME LogType, NEW entries, entries \in Seq(Actions'), AppendTo(entries)
    PROVE  /\ Grows /\ LogType'
           /\ HeadSeq' = HeadSeq + Len(entries)
           /\ \A k \in 1..Len(entries) : log'[HeadSeq + k] = entries[k]
  <1>1. log' = log \o entries /\ HeadSeq + Len(entries) <= MaxSeq
    BY DEF AppendTo
  <1>2. HeadSeq \in Nat /\ Len(entries) \in Nat
    BY DEF LogType, HeadSeq
  <1>3. HeadSeq' = HeadSeq + Len(entries)
    BY <1>1 DEF LogType, HeadSeq
  <1>4. \A s \in 1..HeadSeq : log'[s] = log[s]
    BY <1>1 DEF LogType, HeadSeq
  <1>5. \A k \in 1..Len(entries) : log'[HeadSeq + k] = entries[k]
    BY <1>1 DEF LogType, HeadSeq
  <1>6. log \in Seq(Actions')
    <2>1. 0..HeadSeq \subseteq 0..HeadSeq'
      BY <1>2, <1>3
    <2>2. Actions \subseteq Actions'
      BY <2>1 DEF Actions
    <2>3. log \in Seq(Actions)
      BY DEF LogType
    <2> HIDE DEF Actions
    <2>4. \A s \in 1..Len(log) : log[s] \in Actions'
      BY <2>2, <2>3
    <2> QED
      BY <2>3, <2>4
  <1>7. log' \in Seq(Actions')
    BY <1>1, <1>6
  <1>8. LogType'
    BY <1>1, <1>3, <1>7 DEF LogType
  <1>9. Grows
    BY <1>2, <1>3, <1>4 DEF Grows
  <1> QED
    BY <1>3, <1>5, <1>8, <1>9

(* The usual append: one entry. *)
LEMMA AppendedOne ==
    ASSUME LogType, NEW op \in {"upsert", "delete", "comment", "tombstone"}, NEW i \in Issues,
           NEW ver \in 0..(HeadSeq + 1), NEW u \in Users \cup {Nobody},
           AppendTo(<<Entry(op, i, ver, u)>>)
    PROVE  /\ Grows /\ LogType'
           /\ HeadSeq' = HeadSeq + 1
           /\ log'[HeadSeq + 1] = Entry(op, i, ver, u)
  <1> DEFINE e == Entry(op, i, ver, u)
  <1>1. log' = log \o <<e>>
    BY DEF AppendTo
  <1>2. HeadSeq' = HeadSeq + 1 /\ HeadSeq \in Nat
    BY <1>1 DEF LogType, HeadSeq
  <1>3. e \in Actions'
    BY <1>2 DEF Actions, Entry
  <1>4. <<e>> \in Seq(Actions') /\ Len(<<e>>) = 1 /\ <<e>>[1] = e
    <2> HIDE DEF e
    <2> QED
      BY <1>3
  <1> HIDE DEF e
  <1>5. AppendTo(<<e>>)
    BY DEF e
  <1>6. Grows /\ LogType' /\ \A k \in 1..1 : log'[HeadSeq + k] = <<e>>[k]
    BY <1>4, <1>5, Appended
  <1>7. log'[HeadSeq + 1] = e
    BY <1>4, <1>6
  <1> QED
    BY <1>2, <1>6, <1>7 DEF e

-----------------------------------------------------------------------------
(* What a step leaves alone. *)
SameCopy(u) ==
    /\ rep'[u] = rep[u] /\ repThread'[u] = repThread[u] /\ cp'[u] = cp[u]
    /\ phase'[u] = phase[u] /\ to'[u] = to[u] /\ got'[u] = got[u] /\ snap'[u] = snap[u]

GapsGrow(u, i) == <<i, u>> \in gaps => <<i, u>> \in gaps'
LeaksGrow(u, i) == <<i, u>> \in leaks => <<i, u>> \in leaks'

LEMMA ReplicaFacts ==
    ASSUME LogType, ReplicaType, RequestType, NEW u \in Users
    PROVE  /\ cp[u] \in 0..HeadSeq /\ to[u] \in 0..HeadSeq
           /\ got[u] \in SUBSET (1..HeadSeq) /\ HeadSeq \in Nat
  BY DEF LogType, ReplicaType, RequestType, HeadSeq

(* The part of the log that was there reads the same. *)
LEMMA OwnStays ==
    ASSUME Grows, NEW u \in Users, NEW i \in Issues, NEW n \in 0..HeadSeq, NEW row, NEW comments
    PROVE  /\ RowOf(log', row, Own(log', u, n), i) = RowOf(log, row, Own(log, u, n), i)
           /\ ThreadOf(log', comments, Own(log', u, n), i)
                 = ThreadOf(log, comments, Own(log, u, n), i)
  <1>1. \A s \in 1..n : s \in 1..HeadSeq
    BY DEF Grows
  <1>2. \A s \in 1..n : log'[s] = log[s]
    BY <1>1 DEF Grows
  <1>3. Own(log', u, n) = Own(log, u, n)
    BY <1>2 DEF Own
  <1>4. Own(log, u, n) \in SUBSET (1..n) /\ n \in Nat
    BY DEF Own, Grows
  <1>5. \A s \in Own(log, u, n) : log'[s] = log[s]
    BY <1>2, <1>4
  <1>6. Agree(log', Own(log', u, n), log, Own(log, u, n), i)
    BY <1>3, <1>4, <1>5 DEF Agree
  <1> QED
    BY <1>6, SameReading

LEMMA PageStays ==
    ASSUME Grows, NEW i \in Issues, NEW page \in SUBSET (1..HeadSeq), NEW row, NEW comments
    PROVE  /\ RowOf(log', row, page, i) = RowOf(log, row, page, i)
           /\ ThreadOf(log', comments, page, i) = ThreadOf(log, comments, page, i)
  <1>1. \A s \in page : log'[s] = log[s]
    BY DEF Grows
  <1>2. Agree(log', page, log, page, i)
    BY <1>1 DEF Agree, Grows
  <1> QED
    BY <1>2, SameReading

LEMMA WindowStays ==
    ASSUME NEW u \in Users, SameCopy(u), WindowOf(u)
    PROVE  WindowOf(u)'
  BY DEF SameCopy, WindowOf, NoThreads

LEMMA CopyStays ==
    ASSUME LogType, ReplicaType, RequestType, Grows, NEW u \in Users, NEW i \in Issues,
           SameCopy(u), GapsGrow(u, i), PrefixOf(u, i), PageOf(u, i)
    PROVE  PrefixOf(u, i)' /\ PageOf(u, i)'
  <1>1. /\ cp[u] \in 0..HeadSeq /\ to[u] \in 0..HeadSeq
        /\ got[u] \in SUBSET (1..HeadSeq) /\ HeadSeq \in Nat
    BY ReplicaFacts
  <1>2. /\ \A row : RowOf(log', row, Own(log', u, cp[u]), i)
              = RowOf(log, row, Own(log, u, cp[u]), i)
        /\ \A comments : ThreadOf(log', comments, Own(log', u, cp[u]), i)
              = ThreadOf(log, comments, Own(log, u, cp[u]), i)
    BY <1>1, OwnStays
  <1>3. /\ \A row : RowOf(log', row, Own(log', u, to[u]), i)
              = RowOf(log, row, Own(log, u, to[u]), i)
        /\ \A comments : ThreadOf(log', comments, Own(log', u, to[u]), i)
              = ThreadOf(log, comments, Own(log, u, to[u]), i)
    BY <1>1, OwnStays
  <1>4. PrefixOf(u, i)'
    BY <1>2 DEF PrefixOf, SameCopy, GapsGrow
  <1>5. \A s \in (cp[u] + 1)..to[u] :
            /\ log'[s] = log[s]
            /\ s \in Own(log', u, HeadSeq') <=> s \in Own(log, u, HeadSeq)
    <2> SUFFICES ASSUME NEW s \in (cp[u] + 1)..to[u]
                 PROVE  /\ log'[s] = log[s]
                        /\ s \in Own(log', u, HeadSeq') <=> s \in Own(log, u, HeadSeq)
      OBVIOUS
    <2>1. s \in 1..HeadSeq /\ s \in 1..HeadSeq'
      BY <1>1 DEF Grows
    <2>2. log'[s] = log[s]
      BY <2>1 DEF Grows
    <2> QED
      BY <2>1, <2>2 DEF Own
  <1>6. PageOf(u, i)'
    BY <1>3, <1>5 DEF PageOf, SameCopy, GapsGrow
  <1> QED
    BY <1>4, <1>6

(* Whatever was to come still is. *)
LEMMA ClearedStays ==
    ASSUME LogType, ReplicaType, RequestType, Grows, NEW u \in Users, NEW i \in Issues,
           SameCopy(u), NEW W, NEW V, W \subseteq V, Cleared(u, i, W)
    PROVE  Cleared(u, i, V)'
  <1>1. got[u] \in SUBSET (1..HeadSeq)
    BY ReplicaFacts
  <1>2. /\ RowOf(log', rep[u][i], got[u], i) = RowOf(log, rep[u][i], got[u], i)
        /\ ThreadOf(log', repThread[u][i], got[u], i) = ThreadOf(log, repThread[u][i], got[u], i)
    BY <1>1, PageStays
  <1>3. \A n : ToCome(W, n) => ToCome(V, n)
    BY DEF ToCome
  <1> QED
    BY <1>2, <1>3 DEF Cleared, SameCopy

(* A wipe at the end of the log is to come for everybody. *)
LEMMA WipeToCome ==
    ASSUME LogType, ReplicaType, RequestType, Grows, NEW u \in Users, NEW i \in Issues,
           SameCopy(u), NEW V, NEW w \in V, w \in Nat, w > HeadSeq
    PROVE  Cleared(u, i, V)'
  <1>1. cp[u] \in 0..HeadSeq /\ to[u] \in 0..HeadSeq /\ HeadSeq \in Nat
    BY ReplicaFacts
  <1>2. ToCome(V, cp[u]) /\ ToCome(V, to[u])
    BY <1>1 DEF ToCome
  <1> QED
    BY <1>2 DEF Cleared, SameCopy

(* A position of the longer log is an old one or a new one. *)
LEMMA OldOrNew ==
    ASSUME Grows, NEW s \in 1..HeadSeq'
    PROVE  s \in 1..HeadSeq \/ s \in (HeadSeq + 1)..HeadSeq'
  BY DEF Grows

LEMMA TombstonesGrow ==
    ASSUME Grows, NEW u, NEW i
    PROVE  Tombstones(log, u, i) \subseteq Tombstones(log', u, i)
  BY DEF Grows, Tombstones, HeadSeq

(* Nothing but wipes of i is new. *)
OnlyWipes(i) == \A s \in (HeadSeq + 1)..HeadSeq' : log'[s].issue = i => IsWipe(log'[s])

LEMMA EndsGrow ==
    ASSUME Grows, NEW u, NEW i, OnlyWipes(i)
    PROVE  Ends(log, u, i) \subseteq Ends(log', u, i)
  <1> SUFFICES ASSUME NEW w \in Ends(log, u, i) PROVE w \in Ends(log', u, i)
    OBVIOUS
  <1>1. /\ w \in 1..HeadSeq /\ log[w] \in {Delete(i), Tombstone(i, u)}
        /\ \A s \in 1..HeadSeq : s > w /\ log[s].issue = i => IsWipe(log[s])
    BY DEF Ends, HeadSeq
  <1>2. w \in 1..HeadSeq' /\ log'[w] = log[w]
    BY <1>1 DEF Grows
  <1>3. ASSUME NEW s \in 1..HeadSeq', s > w, log'[s].issue = i PROVE IsWipe(log'[s])
    <2>1. CASE s \in 1..HeadSeq
      <3>1. log'[s] = log[s]
        BY <2>1 DEF Grows
      <3> QED
        BY <1>1, <1>3, <2>1, <3>1
    <2>2. CASE s \in (HeadSeq + 1)..HeadSeq'
      BY <1>3, <2>2 DEF OnlyWipes
    <2> QED
      BY <2>1, <2>2, OldOrNew
  <1> QED
    BY <1>1, <1>2, <1>3 DEF Ends, HeadSeq

(* Nothing new is for u to read of i. *)
NothingNew(u, i) ==
    \A s \in (HeadSeq + 1)..HeadSeq' :
        log'[s].issue # i \/ (log'[s].op = "tombstone" /\ log'[s].user # u)

SameRows(i) == state'[i] = state[i] /\ content'[i] = content[i] /\ thread'[i] = thread[i]

LEMMA TableStays ==
    ASSUME Grows, NEW u \in Users, NEW i \in Issues, NothingNew(u, i), SameRows(i),
           GapsGrow(u, i), TableOf(u, i)
    PROVE  TableOf(u, i)'
  <1>1. \A s \in 1..HeadSeq : log'[s] = log[s] /\ s \in 1..HeadSeq'
    BY DEF Grows
  <1>2. \A s \in 1..HeadSeq : s \in Own(log', u, HeadSeq') <=> s \in Own(log, u, HeadSeq)
    BY <1>1 DEF Own
  <1>3. \A s \in Own(log', u, HeadSeq') : log'[s].issue = i => s \in 1..HeadSeq
    <2> SUFFICES ASSUME NEW s \in Own(log', u, HeadSeq'), log'[s].issue = i, s \notin 1..HeadSeq
                 PROVE  FALSE
      OBVIOUS
    <2>1. s \in 1..HeadSeq' /\ (log'[s].op = "tombstone" => log'[s].user = u)
      BY DEF Own
    <2>2. s \in (HeadSeq + 1)..HeadSeq'
      BY <2>1, OldOrNew
    <2> QED
      BY <2>1, <2>2 DEF NothingNew
  <1>4. \A s \in Own(log, u, HeadSeq) : s \in 1..HeadSeq
    BY DEF Own
  <1>5. Own(log', u, HeadSeq') \subseteq 1..HeadSeq' /\ HeadSeq' \in Nat
    BY DEF Own, Grows
  <1>6. Agree(log', Own(log', u, HeadSeq'), log, Own(log, u, HeadSeq), i)
    <2>1. \A s : s \in Own(log', u, HeadSeq') /\ log'[s].issue = i
                    <=> s \in Own(log, u, HeadSeq) /\ log[s].issue = i
      BY <1>1, <1>2, <1>3, <1>4
    <2>2. \A s \in Own(log', u, HeadSeq') : log'[s].issue = i => log'[s] = log[s]
      BY <1>1, <1>3
    <2> QED
      BY <1>5, <2>1, <2>2 DEF Agree
  <1>7. \A row, comments :
            /\ RowOf(log', row, Own(log', u, HeadSeq'), i)
                  = RowOf(log, row, Own(log, u, HeadSeq), i)
            /\ ThreadOf(log', comments, Own(log', u, HeadSeq'), i)
                  = ThreadOf(log, comments, Own(log, u, HeadSeq), i)
    BY <1>6, SameReading
  <1> QED
    BY <1>7 DEF TableOf, SameRows, GapsGrow

(* What one more action on i, for u to read, does to the replay. *)
LEMMA OneMore ==
    ASSUME Grows, NEW u \in Users, NEW i \in Issues, HeadSeq' = HeadSeq + 1,
           log'[HeadSeq + 1].issue = i, log'[HeadSeq + 1].op # "tombstone"
    PROVE  LET e == log'[HeadSeq + 1]
               row == RowOf(log, 0, Own(log, u, HeadSeq), i)
               comments == ThreadOf(log, {}, Own(log, u, HeadSeq), i)
           IN  /\ RowOf(log', 0, Own(log', u, HeadSeq'), i)
                     = IF e.op = "comment" THEN row ELSE e.ver
               /\ ThreadOf(log', {}, Own(log', u, HeadSeq'), i)
                     = IF e.op = "comment" THEN comments \cup {e.ver}
                       ELSE IF e.op = "upsert" THEN comments ELSE {}
  <1> DEFINE n == HeadSeq + 1
             e == log'[n]
             row == RowOf(log', 0, Own(log', u, HeadSeq), i)
             comments == ThreadOf(log', {}, Own(log', u, HeadSeq), i)
  <1>1. HeadSeq \in Nat /\ n \in Nat /\ HeadSeq' = n /\ HeadSeq \in 0..HeadSeq
    BY DEF Grows
  <1>2. Own(log', u, HeadSeq') = Own(log', u, HeadSeq) \cup {n}
    <2>1. 1..n = 1..HeadSeq \cup {n}
      BY <1>1
    <2> QED
      BY <1>1, <2>1 DEF Own
  <1>3. Own(log', u, HeadSeq) \in SUBSET (1..HeadSeq) /\ {n} \in SUBSET ((HeadSeq + 1)..n)
    BY <1>1 DEF Own
  <1>4. /\ RowOf(log', row, {n}, i) = RowOf(log', 0, Own(log', u, HeadSeq'), i)
        /\ ThreadOf(log', comments, {n}, i) = ThreadOf(log', {}, Own(log', u, HeadSeq'), i)
    <2>1. Splits(Own(log', u, HeadSeq), HeadSeq, {n})
      BY <1>1, <1>3 DEF Splits
    <2> HIDE DEF n
    <2> QED
      BY <1>2, <2>1, OneAfterAnother
  <1>5. /\ row = RowOf(log, 0, Own(log, u, HeadSeq), i)
        /\ comments = ThreadOf(log, {}, Own(log, u, HeadSeq), i)
    BY <1>1, OwnStays
  <1>6. /\ RowOf(log', row, {n}, i) = IF e.op = "comment" THEN row ELSE e.ver
        /\ ThreadOf(log', comments, {n}, i)
              = IF e.op = "comment" THEN comments \cup {e.ver}
                ELSE IF e.op = "upsert" THEN comments ELSE {}
    <2>1. {n} \in SUBSET Nat
      BY <1>1
    <2> HIDE DEF row, comments
    <2>2. CASE e.op = "comment"
      <3>1. RowReads(log', {n}, i) = {} /\ CommentReads(log', {n}, i) = {n}
        BY <2>2 DEF RowReads, CommentReads
      <3>2. WipeReads(log', {n}, i) = {}
        BY <3>1 DEF WipeReads
      <3>3. ThreadOf(log', comments, {n}, i) = comments \cup {e.ver}
        <4>1. {c \in comments : WipeReads(log', {n}, i) = {}} = comments
          BY <3>2
        <4>2. {x \in CommentReads(log', {n}, i) : \A w \in WipeReads(log', {n}, i) : w < x} = {n}
          BY <3>1, <3>2
        <4>3. {log'[s].ver : s \in {x \in CommentReads(log', {n}, i) :
                                       \A w \in WipeReads(log', {n}, i) : w < x}} = {e.ver}
          BY <4>2
        <4> QED
          BY <4>1, <4>3 DEF ThreadOf
      <3> QED
        BY <2>2, <3>1, <3>3 DEF RowOf
    <2>3. CASE e.op # "comment"
      <3>1. RowReads(log', {n}, i) = {n} /\ CommentReads(log', {n}, i) = {}
        BY <2>3 DEF RowReads, CommentReads
      <3>2. RowOf(log', row, {n}, i) = e.ver
        <4>1. n \in RowReads(log', {n}, i) /\ \A y \in RowReads(log', {n}, i) : y <= n
          BY <1>1, <3>1
        <4> HIDE DEF n
        <4> QED
          BY <2>1, <4>1, LastRow
      <3>3. e.op = "upsert" => WipeReads(log', {n}, i) = {}
        BY <3>1 DEF WipeReads
      <3>4. e.op # "upsert" => n \in WipeReads(log', {n}, i)
        BY <3>1 DEF WipeReads
      <3> QED
        BY <2>3, <3>1, <3>2, <3>3, <3>4 DEF ThreadOf
    <2> QED
      BY <2>2, <2>3
  <1> QED
    BY <1>4, <1>5, <1>6

-----------------------------------------------------------------------------
(* A step that passes u and i by. *)
SameAccess(u, i) ==
    /\ active' = active
    /\ i \in restricted' <=> i \in restricted
    /\ u \in cleared' <=> u \in cleared
    /\ u \in member' <=> u \in member

SameCommand(u, i) ==
    /\ i \in restricting' <=> i \in restricting
    /\ <<i, u>> \in owed' <=> <<i, u>> \in owed

LEMMA VisibleStays ==
    ASSUME NEW u, NEW i, SameAccess(u, i)
    PROVE  (Visible(i, u)' <=> Visible(i, u)) /\ (Hidden(u, i)' <=> Hidden(u, i))
  BY Zenon DEF SameAccess, Visible, Hidden

Aside(u, i) ==
    /\ Grows /\ SameCopy(u) /\ opened'[u] = opened[u]
    /\ GapsGrow(u, i) /\ LeaksGrow(u, i)
    /\ SameRows(i) /\ SameAccess(u, i) /\ SameCommand(u, i)
    /\ NothingNew(u, i) /\ OnlyWipes(i)

(* The parts of the invariant, one by one. *)
LEMMA NoneStays ==
    ASSUME NEW u \in Users, NEW i \in Issues, SameCopy(u), opened'[u] = opened[u],
           state'[i] = "none" => state[i] = "none" /\ thread'[i] = thread[i], NoneOf(u, i)
    PROVE  NoneOf(u, i)'
  BY Zenon DEF NoneOf, Untouched, SameCopy

LEMMA HiddenStays ==
    ASSUME LogType, ReplicaType, RequestType, Grows, NEW u \in Users, NEW i \in Issues,
           SameCopy(u), LeaksGrow(u, i),
           Hidden(u, i)' => Hidden(u, i),
           Hidden(u, i)' /\ i \notin restricting'
              => i \notin restricting \/ <<i, u>> \in leaks' \cup owed',
           <<i, u>> \notin leaks' \cup owed' => <<i, u>> \notin owed,
           state'[i] # "none" => state[i] # "none",
           HiddenOf(u, i)
    PROVE  HiddenOf(u, i)'
  <1> SUFFICES ASSUME <<i, u>> \notin leaks' \cup owed', i \notin restricting',
                      state'[i] # "none", Hidden(u, i)'
               PROVE  Cleared(u, i, Tombstones(log, u, i))'
    BY DEF HiddenOf
  <1>1. Cleared(u, i, Tombstones(log, u, i))
    BY DEF HiddenOf, LeaksGrow
  <1>2. Tombstones(log, u, i) \subseteq Tombstones(log', u, i)
    BY TombstonesGrow
  <1> QED
    BY <1>1, <1>2, ClearedStays DEF Cleared

LEMMA DeadStays ==
    ASSUME LogType, ReplicaType, RequestType, Grows, NEW u \in Users, NEW i \in Issues,
           SameCopy(u), LeaksGrow(u, i), OnlyWipes(i),
           Dead(i)' => Dead(i),
           Hidden(u, i) => Hidden(u, i)',
           <<i, u>> \notin leaks' \cup owed' => <<i, u>> \notin owed,
           EndOf(u, i), DeadOf(u, i)
    PROVE  EndOf(u, i)' /\ DeadOf(u, i)'
  <1>1. Ends(log, u, i) \subseteq Ends(log', u, i)
    BY EndsGrow
  <1>2. EndOf(u, i)'
    BY <1>1 DEF EndOf, LeaksGrow
  <1>3. ASSUME <<i, u>> \notin leaks' \cup owed', Dead(i)', ~Hidden(u, i)'
        PROVE  Cleared(u, i, Ends(log, u, i))'
    <2>1. Cleared(u, i, Ends(log, u, i))
      BY <1>3 DEF DeadOf, LeaksGrow
    <2> QED
      BY <1>1, <2>1, ClearedStays DEF Cleared
  <1>4. DeadOf(u, i)'
    BY <1>3 DEF DeadOf
  <1> QED
    BY <1>2, <1>4

LEMMA AsideStays ==
    ASSUME LogType, ReplicaType, RequestType, NEW u \in Users, NEW i \in Issues,
           Aside(u, i), PairOf(u, i)
    PROVE  PairOf(u, i)'
  <1>1. /\ Grows /\ SameCopy(u) /\ opened'[u] = opened[u]
        /\ GapsGrow(u, i) /\ LeaksGrow(u, i)
        /\ NothingNew(u, i) /\ OnlyWipes(i)
        /\ SameRows(i)
        /\ state'[i] = state[i] /\ thread'[i] = thread[i]
    BY DEF Aside, SameRows
  <1>2. /\ i \in restricting' <=> i \in restricting
        /\ <<i, u>> \in owed' <=> <<i, u>> \in owed
    BY DEF Aside, SameCommand
  <1>3. (Visible(i, u)' <=> Visible(i, u)) /\ (Hidden(u, i)' <=> Hidden(u, i))
    BY VisibleStays DEF Aside
  <1>4. NoneOf(u, i)'
    BY <1>1, NoneStays DEF PairOf
  <1>5. GapOf(u, i)'
    BY <1>1, <1>3 DEF PairOf, GapOf, GapsGrow
  <1>6. LeakOf(u, i)'
    BY <1>1, Zenon DEF PairOf, LeakOf, LeaksGrow, Aside, SameAccess
  <1>7. TableOf(u, i)'
    BY <1>1, TableStays DEF PairOf
  <1>8. PrefixOf(u, i)' /\ PageOf(u, i)'
    BY <1>1, CopyStays DEF PairOf
  <1>9. HiddenOf(u, i)'
    BY <1>1, <1>2, <1>3, HiddenStays DEF PairOf
  <1>10. EndOf(u, i)' /\ DeadOf(u, i)'
    <2>1. Dead(i)' => Dead(i)
      BY <1>1 DEF Dead
    <2> QED
      BY <1>1, <1>2, <1>3, <2>1, DeadStays DEF PairOf
  <1>11. OwedOf(u, i)'
    BY <1>1, <1>2 DEF PairOf, OwedOf
  <1> QED
    BY <1>4, <1>5, <1>6, <1>7, <1>8, <1>9, <1>10, <1>11 DEF PairOf

-----------------------------------------------------------------------------
(* Commands: the replicas are not touched. *)
ClientSame == UNCHANGED <<rep, repThread, cp, phase, to, got, snap, opened>>

LEMMA ClientStays ==
    ASSUME ClientSame
    PROVE  \A u \in Users : SameCopy(u) /\ opened'[u] = opened[u]
  BY DEF ClientSame, SameCopy

LEMMA ClientTypeStays ==
    ASSUME Grows, ClientSame, ReplicaType, RequestType
    PROVE  ReplicaType' /\ RequestType'
  <1>1. 0..HeadSeq \subseteq 0..HeadSeq' /\ 1..HeadSeq \subseteq 1..HeadSeq'
    BY DEF Grows
  <1>2. Snapshots \subseteq Snapshots'
    BY <1>1 DEF Snapshots
  <1>3. ReplicaType'
    <2>1. rep' \in [Users -> [Issues -> 0..HeadSeq' \cup {Seed}]]
      BY <1>1 DEF ReplicaType, ClientSame
    <2>2. repThread' \in [Users -> [Issues -> SUBSET (1..HeadSeq')]]
      BY <1>1 DEF ReplicaType, ClientSame
    <2>3. cp' \in [Users -> 0..HeadSeq']
      BY <1>1 DEF ReplicaType, ClientSame
    <2> QED
      BY <2>1, <2>2, <2>3 DEF ReplicaType
  <1>4. RequestType'
    <2>1. to' \in [Users -> 0..HeadSeq']
      BY <1>1 DEF RequestType, ClientSame
    <2>2. got' \in [Users -> SUBSET (1..HeadSeq')]
      BY <1>1 DEF RequestType, ClientSame
    <2>3. snap' \in [Users -> Snapshots']
      BY <1>2 DEF RequestType, ClientSame
    <2> QED
      BY <2>1, <2>2, <2>3 DEF RequestType, ClientSame
  <1> QED
    BY <1>3, <1>4

LEMMA NotedGaps ==
    ASSUME NoteGaps, NEW u \in Users, NEW i \in Issues
    PROVE  GapsGrow(u, i) /\ GapOf(u, i)'
  BY DEF NoteGaps, GapsGrow, GapOf, Pairs

LEMMA LogStays ==
    ASSUME LogType, LogInv, Grows,
           \A j \in Issues : state'[j] = "none" => state[j] = "none",
           \A s \in (HeadSeq + 1)..HeadSeq' : LogOf(s)'
    PROVE  LogInv'
  <1> SUFFICES ASSUME NEW s \in 1..HeadSeq' PROVE LogOf(s)'
    BY DEF LogInv
  <1>1. CASE s \in 1..HeadSeq
    <2>1. LogOf(s) /\ log'[s] = log[s] /\ log[s].issue \in Issues
      BY <1>1, EntryType DEF LogInv, Grows
    <2> QED
      BY <2>1 DEF LogOf
  <1>2. CASE s \in (HeadSeq + 1)..HeadSeq'
    BY <1>2
  <1> QED
    BY <1>1, <1>2, OldOrNew

(* A command that appends one action on i and changes the rows of i alone. *)
OnlyOn(i) ==
    /\ HeadSeq' = HeadSeq + 1 /\ log'[HeadSeq + 1].issue = i
    /\ log'[HeadSeq + 1].op # "tombstone"
    /\ Sound(log'[HeadSeq + 1])
    /\ UNCHANGED <<active, cleared, member, owed, leaks>>
    /\ state'[i] # "none"
    /\ \A j \in Issues \ {i} :
          /\ SameRows(j)
          /\ j \in restricted' <=> j \in restricted
          /\ j \in restricting' <=> j \in restricting

(* ... has only these to establish. *)
RowsOf(u, i) == GapOf(u, i) /\ TableOf(u, i) /\ HiddenOf(u, i) /\ EndOf(u, i) /\ DeadOf(u, i)

LEMMA OneEntry ==
    ASSUME IInv, NEW i \in Issues, OnlyOn(i), Grows, LogType', ClientSame,
           \A u \in Users, j \in Issues : GapsGrow(u, j),
           TableType', SetType', \A u \in Users : RowsOf(u, i)'
    PROVE  IInv'
  <1>1. /\ LogType /\ TableType /\ FlagType /\ SetType /\ ReplicaType /\ RequestType
        /\ LogInv /\ \A u \in Users : WindowOf(u)
        /\ \A u \in Users, j \in Issues : PairOf(u, j)
    BY TypeParts DEF IInv
  <1>2. TypeOK'
    <2>1. ReplicaType' /\ RequestType'
      BY <1>1, ClientTypeStays
    <2>2. FlagType'
      BY <1>1, Zenon DEF FlagType, OnlyOn
    <2> QED
      BY <2>1, <2>2, TypePartsAfter
  <1>3. LogInv'
    <2>1. \A s \in (HeadSeq + 1)..HeadSeq' : s = HeadSeq + 1
      BY DEF OnlyOn, Grows
    <2>2. \A s \in (HeadSeq + 1)..HeadSeq' : LogOf(s)'
      BY <2>1 DEF LogOf, OnlyOn
    <2>3. \A j \in Issues : state'[j] = "none" => state[j] = "none"
      BY DEF OnlyOn, SameRows
    <2> QED
      BY <1>1, <2>2, <2>3, LogStays
  <1>4. \A u \in Users : SameCopy(u) /\ opened'[u] = opened[u]
    BY ClientStays
  <1>5. \A u \in Users : WindowOf(u)'
    BY <1>1, <1>4, WindowStays
  <1>6. ASSUME NEW u \in Users, NEW j \in Issues \ {i} PROVE PairOf(u, j)'
    <2>1. SameCommand(u, j) /\ SameRows(j)
      BY DEF OnlyOn, SameCommand
    <2>2. SameAccess(u, j)
      BY DEF OnlyOn, SameAccess
    <2>3. NothingNew(u, j) /\ OnlyWipes(j)
      BY DEF OnlyOn, Grows, NothingNew, OnlyWipes
    <2>4. GapsGrow(u, j) /\ LeaksGrow(u, j)
      BY DEF OnlyOn, LeaksGrow
    <2>5. Aside(u, j)
      BY <1>4, <2>1, <2>2, <2>3, <2>4 DEF Aside
    <2> QED
      BY <1>1, <2>5, AsideStays
  <1>7. ASSUME NEW u \in Users PROVE PairOf(u, i)'
    <2>1. NoneOf(u, i)'
      BY DEF NoneOf, OnlyOn
    <2>2. LeakOf(u, i)'
      BY <1>1, Zenon DEF PairOf, LeakOf, OnlyOn
    <2>3. PrefixOf(u, i)' /\ PageOf(u, i)'
      BY <1>1, <1>4, CopyStays DEF PairOf
    <2>4. OwedOf(u, i)'
      BY DEF OwedOf, OnlyOn
    <2> QED
      BY <2>1, <2>2, <2>3, <2>4 DEF PairOf, RowsOf
  <1>8. \A u \in Users, j \in Issues : PairOf(u, j)'
    BY <1>6, <1>7
  <1> QED
    BY <1>2, <1>3, <1>5, <1>8 DEF IInv

LEMMA InvParts ==
    ASSUME IInv
    PROVE  /\ LogType /\ TableType /\ FlagType /\ SetType /\ ReplicaType /\ RequestType
           /\ LogInv /\ \A u \in Users : WindowOf(u)
           /\ \A u \in Users, i \in Issues : PairOf(u, i)
  BY TypeParts DEF IInv

LEMMA CommandAppends ==
    ASSUME LogType, NEW i \in Issues, NEW e,
           e = Upsert(i, HeadSeq + 1) \/ e = Delete(i) \/ e = Comment(i, HeadSeq + 1),
           AppendTo(<<e>>)
    PROVE  /\ Grows /\ LogType' /\ HeadSeq \in Nat /\ HeadSeq' = HeadSeq + 1
           /\ log'[HeadSeq + 1] = e /\ e.issue = i
           /\ e.op # "tombstone" /\ Sound(e)
  <1>1. HeadSeq \in Nat
    BY DEF LogType, HeadSeq
  <1>2. CASE e = Upsert(i, HeadSeq + 1)
    BY <1>1, <1>2, AppendedOne DEF Upsert, Entry, Sound, IsWipe
  <1>3. CASE e = Delete(i)
    BY <1>1, <1>3, AppendedOne DEF Delete, Entry, Sound
  <1>4. CASE e = Comment(i, HeadSeq + 1)
    BY <1>1, <1>4, AppendedOne DEF Comment, Entry, Sound, IsWipe
  <1> QED
    BY <1>2, <1>3, <1>4

(* The types of the tables after a command: one more number. *)
LEMMA TablesGrow ==
    ASSUME TableType, Grows, HeadSeq' = HeadSeq + 1
    PROVE  /\ content \in [Issues -> 0..HeadSeq'] /\ thread \in [Issues -> SUBSET (1..HeadSeq')]
           /\ HeadSeq + 1 \in 0..HeadSeq' /\ HeadSeq + 1 \in 1..HeadSeq' /\ 0 \in 0..HeadSeq'
  <1>1. 0..HeadSeq \subseteq 0..HeadSeq' /\ 1..HeadSeq \subseteq 1..HeadSeq'
    BY DEF Grows
  <1>2. content \in [Issues -> 0..HeadSeq'] /\ thread \in [Issues -> SUBSET (1..HeadSeq')]
    BY <1>1 DEF TableType
  <1> QED
    BY <1>2 DEF Grows

(* An action that publishes i, and one that deletes it, keep table and log *)
(* together.                                                               *)
LEMMA UpsertTable ==
    ASSUME Grows, HeadSeq' = HeadSeq + 1, NEW u \in Users, NEW i \in Issues,
           log'[HeadSeq + 1] = Upsert(i, HeadSeq + 1),
           state'[i] = "live", content'[i] = HeadSeq + 1, thread'[i] = thread[i],
           <<i, u>> \notin gaps' => <<i, u>> \notin gaps /\ (state[i] = "live" \/ thread[i] = {}),
           TableOf(u, i)
    PROVE  TableOf(u, i)'
  <1>1. /\ log'[HeadSeq + 1].issue = i /\ log'[HeadSeq + 1].op = "upsert"
        /\ log'[HeadSeq + 1].ver = HeadSeq + 1
    BY DEF Upsert, Entry
  <1>2. /\ RowOf(log', 0, Own(log', u, HeadSeq'), i) = HeadSeq + 1
        /\ ThreadOf(log', {}, Own(log', u, HeadSeq'), i)
              = ThreadOf(log, {}, Own(log, u, HeadSeq), i)
    BY <1>1, OneMore
  <1> QED
    BY <1>2 DEF TableOf

LEMMA DeleteTable ==
    ASSUME Grows, HeadSeq' = HeadSeq + 1, NEW u \in Users, NEW i \in Issues,
           log'[HeadSeq + 1] = Delete(i), state'[i] # "live"
    PROVE  TableOf(u, i)'
  <1>1. /\ log'[HeadSeq + 1].issue = i /\ log'[HeadSeq + 1].op = "delete"
        /\ log'[HeadSeq + 1].ver = 0
    BY DEF Delete, Entry
  <1>2. /\ RowOf(log', 0, Own(log', u, HeadSeq'), i) = 0
        /\ ThreadOf(log', {}, Own(log', u, HeadSeq'), i) = {}
    BY <1>1, OneMore
  <1> QED
    BY <1>2 DEF TableOf

LEMMA CommentTable ==
    ASSUME Grows, HeadSeq' = HeadSeq + 1, NEW u \in Users, NEW i \in Issues,
           log'[HeadSeq + 1] = Comment(i, HeadSeq + 1), GapsGrow(u, i),
           state[i] = "live", state'[i] = "live", content'[i] = content[i],
           thread'[i] = thread[i] \cup {HeadSeq + 1}, TableOf(u, i)
    PROVE  TableOf(u, i)'
  <1>1. /\ log'[HeadSeq + 1].issue = i /\ log'[HeadSeq + 1].op = "comment"
        /\ log'[HeadSeq + 1].ver = HeadSeq + 1
    BY DEF Comment, Entry
  <1>2. /\ RowOf(log', 0, Own(log', u, HeadSeq'), i) = RowOf(log, 0, Own(log, u, HeadSeq), i)
        /\ ThreadOf(log', {}, Own(log', u, HeadSeq'), i)
              = ThreadOf(log, {}, Own(log, u, HeadSeq), i) \cup {HeadSeq + 1}
    BY <1>1, OneMore
  <1> QED
    BY <1>2 DEF TableOf, GapsGrow

(* The deletion ends what the log says of i, and is to come for everybody. *)
LEMMA DeleteEnds ==
    ASSUME LogType, ReplicaType, RequestType, Grows, HeadSeq' = HeadSeq + 1,
           NEW u \in Users, NEW i \in Issues, SameCopy(u), log'[HeadSeq + 1] = Delete(i)
    PROVE  EndOf(u, i)' /\ DeadOf(u, i)'
  <1>1. HeadSeq + 1 \in 1..HeadSeq' /\ HeadSeq \in Nat /\ HeadSeq' = Len(log')
    BY DEF Grows, HeadSeq
  <1>2. ASSUME NEW s \in 1..HeadSeq', s > HeadSeq + 1 PROVE FALSE
    BY <1>1, <1>2
  <1>3. HeadSeq + 1 \in Ends(log', u, i)
    BY <1>1, <1>2 DEF Ends
  <1>4. Cleared(u, i, Ends(log, u, i))'
    BY <1>1, <1>3, WipeToCome DEF Cleared
  <1> QED
    BY <1>3, <1>4 DEF EndOf, DeadOf

(* What does not exist yet has left nothing on its way either. *)
LEMMA UntouchedCleared ==
    ASSUME LogType, ReplicaType, RequestType, LogInv, Grows, NEW u \in Users, NEW i \in Issues,
           SameCopy(u), state[i] = "none", NoneOf(u, i)
    PROVE  Cleared(u, i, Tombstones(log, u, i))'
  <1>1. /\ rep[u][i] = 0 /\ repThread[u][i] = {}
        /\ snap[u].rows[i] = 0 /\ snap[u].threads[i] = {}
    BY DEF NoneOf, Untouched
  <1>2. got[u] \in SUBSET (1..HeadSeq) /\ HeadSeq \in Nat
    BY ReplicaFacts
  <1>3. \A s \in got[u] : log[s].issue # i
    BY <1>2 DEF LogInv, LogOf
  <1>4. \A s \in got[u] : log'[s].issue # i
    BY <1>2, <1>3 DEF Grows
  <1>5. RowReads(log', got[u], i) = {} /\ CommentReads(log', got[u], i) = {}
    BY <1>4 DEF RowReads, CommentReads
  <1>6. RowOf(log', 0, got[u], i) = 0 /\ ThreadOf(log', {}, got[u], i) = {}
    BY <1>5 DEF RowOf, ThreadOf
  <1> QED
    BY <1>1, <1>6 DEF Cleared, Clean, SameCopy

-----------------------------------------------------------------------------
(* Each command on one work item. *)
LEMMA EditIssueStep ==
    ASSUME IInv, NEW i \in Issues, EditIssue(i)
    PROVE  IInv'
  <1>1. /\ state[i] = "live" /\ AppendTo(<<Upsert(i, HeadSeq + 1)>>)
        /\ content' = [content EXCEPT ![i] = HeadSeq + 1]
        /\ state' = state /\ thread' = thread
    BY DEF EditIssue, Live, tables
  <1>2. /\ UNCHANGED <<active, cleared, member, owed, leaks, restricted, restricting, gaps>>
        /\ ClientSame
    BY DEF EditIssue, access, command, replica, request, history, ClientSame
  <1>3. /\ LogType /\ TableType /\ SetType /\ ReplicaType /\ RequestType
        /\ \A u \in Users : PairOf(u, i)
    BY InvParts
  <1>4. /\ Grows /\ LogType' /\ HeadSeq \in Nat /\ HeadSeq' = HeadSeq + 1
        /\ log'[HeadSeq + 1] = Upsert(i, HeadSeq + 1)
        /\ log'[HeadSeq + 1].issue = i /\ log'[HeadSeq + 1].op # "tombstone"
        /\ Sound(log'[HeadSeq + 1])
    BY <1>1, <1>3, CommandAppends
  <1>5. /\ state'[i] = "live" /\ content'[i] = HeadSeq + 1 /\ thread'[i] = thread[i]
        /\ \A j \in Issues \ {i} : SameRows(j)
    BY <1>1, <1>3 DEF TableType, SameRows
  <1>6. OnlyOn(i)
    BY <1>2, <1>4, <1>5 DEF OnlyOn
  <1>7. TableType'
    BY <1>1, <1>3, <1>4, TablesGrow DEF TableType
  <1>8. SetType'
    BY <1>2, <1>3 DEF SetType, Pairs
  <1>9. \A u \in Users, j \in Issues : GapsGrow(u, j) /\ LeaksGrow(u, j)
    BY <1>2 DEF GapsGrow, LeaksGrow
  <1>10. ASSUME NEW u \in Users PROVE RowsOf(u, i)'
    <2>1. SameCopy(u)
      BY <1>2, ClientStays
    <2>2. SameAccess(u, i)
      BY <1>2 DEF SameAccess
    <2>3. (Visible(i, u)' <=> Visible(i, u)) /\ (Hidden(u, i)' <=> Hidden(u, i))
      BY <2>2, VisibleStays
    <2>4. GapOf(u, i)'
      BY <1>1, <1>2, <1>3, <2>3 DEF PairOf, GapOf
    <2>5. TableOf(u, i)'
      BY <1>1, <1>2, <1>3, <1>4, <1>5, UpsertTable DEF PairOf
    <2>6. HiddenOf(u, i)'
      BY <1>2, <1>3, <1>4, <1>9, <1>1, <2>1, <2>3, HiddenStays DEF PairOf
    <2>7. EndOf(u, i)' /\ DeadOf(u, i)'
      BY <1>5 DEF EndOf, DeadOf, Dead
    <2> QED
      BY <2>4, <2>5, <2>6, <2>7 DEF RowsOf
  <1> QED
    BY <1>2, <1>4, <1>6, <1>7, <1>8, <1>9, <1>10, OneEntry

LEMMA AddCommentStep ==
    ASSUME IInv, NEW i \in Issues, AddComment(i)
    PROVE  IInv'
  <1>1. /\ state[i] = "live" /\ AppendTo(<<Comment(i, HeadSeq + 1)>>)
        /\ thread' = [thread EXCEPT ![i] = @ \cup {HeadSeq + 1}]
        /\ state' = state /\ content' = content
    BY DEF AddComment, Live, tables
  <1>2. /\ UNCHANGED <<active, cleared, member, owed, leaks, restricted, restricting, gaps>>
        /\ ClientSame
    BY DEF AddComment, access, command, replica, request, history, ClientSame
  <1>3. /\ LogType /\ TableType /\ SetType /\ ReplicaType /\ RequestType
        /\ \A u \in Users : PairOf(u, i)
    BY InvParts
  <1>4. /\ Grows /\ LogType' /\ HeadSeq \in Nat /\ HeadSeq' = HeadSeq + 1
        /\ log'[HeadSeq + 1] = Comment(i, HeadSeq + 1)
        /\ log'[HeadSeq + 1].issue = i /\ log'[HeadSeq + 1].op # "tombstone"
        /\ Sound(log'[HeadSeq + 1])
    BY <1>1, <1>3, CommandAppends
  <1>5. /\ state'[i] = "live" /\ content'[i] = content[i]
        /\ thread'[i] = thread[i] \cup {HeadSeq + 1}
        /\ \A j \in Issues \ {i} : SameRows(j)
    BY <1>1, <1>3 DEF TableType, SameRows
  <1>6. OnlyOn(i)
    BY <1>2, <1>4, <1>5 DEF OnlyOn
  <1>7. TableType'
    <2>1. /\ content \in [Issues -> 0..HeadSeq'] /\ HeadSeq + 1 \in 1..HeadSeq'
          /\ thread \in [Issues -> SUBSET (1..HeadSeq')]
      BY <1>3, <1>4, TablesGrow
    <2>2. thread[i] \cup {HeadSeq + 1} \in SUBSET (1..HeadSeq')
      BY <2>1
    <2>3. thread' \in [Issues -> SUBSET (1..HeadSeq')]
      BY <1>1, <2>1, <2>2
    <2> QED
      BY <1>1, <1>3, <2>1, <2>3 DEF TableType
  <1>8. SetType'
    BY <1>2, <1>3 DEF SetType, Pairs
  <1>9. \A u \in Users, j \in Issues : GapsGrow(u, j) /\ LeaksGrow(u, j)
    BY <1>2 DEF GapsGrow, LeaksGrow
  <1>10. ASSUME NEW u \in Users PROVE RowsOf(u, i)'
    <2>1. SameCopy(u)
      BY <1>2, ClientStays
    <2>2. SameAccess(u, i)
      BY <1>2 DEF SameAccess
    <2>3. (Visible(i, u)' <=> Visible(i, u)) /\ (Hidden(u, i)' <=> Hidden(u, i))
      BY <2>2, VisibleStays
    <2>4. GapOf(u, i)'
      BY <1>1, <1>2, <1>3, <2>3 DEF PairOf, GapOf
    <2>5. TableOf(u, i)'
      BY <1>1, <1>3, <1>4, <1>5, <1>9, CommentTable DEF PairOf
    <2>6. HiddenOf(u, i)'
      BY <1>2, <1>3, <1>4, <1>9, <1>1, <2>1, <2>3, HiddenStays DEF PairOf
    <2>7. EndOf(u, i)' /\ DeadOf(u, i)'
      BY <1>5 DEF EndOf, DeadOf, Dead
    <2> QED
      BY <2>4, <2>5, <2>6, <2>7 DEF RowsOf
  <1> QED
    BY <1>2, <1>4, <1>6, <1>7, <1>8, <1>9, <1>10, OneEntry

LEMMA CreateIssueStep ==
    ASSUME IInv, NEW i \in Issues, CreateIssue(i)
    PROVE  IInv'
  <1>1. /\ state[i] = "none" /\ AppendTo(<<Upsert(i, HeadSeq + 1)>>)
        /\ state' = [state EXCEPT ![i] = "live"]
        /\ content' = [content EXCEPT ![i] = HeadSeq + 1]
        /\ thread' = thread
        /\ restricted' = restricted \/ restricted' = restricted \cup {i}
    BY DEF CreateIssue
  <1>2. /\ UNCHANGED <<active, cleared, member, owed, leaks, restricting>>
        /\ ClientSame /\ NoteGaps
    BY DEF CreateIssue, access, command, replica, request, ClientSame
  <1>3. /\ LogType /\ TableType /\ SetType /\ ReplicaType /\ RequestType /\ LogInv
        /\ \A u \in Users : PairOf(u, i)
    BY InvParts
  <1>4. /\ Grows /\ LogType' /\ HeadSeq \in Nat /\ HeadSeq' = HeadSeq + 1
        /\ log'[HeadSeq + 1] = Upsert(i, HeadSeq + 1)
        /\ log'[HeadSeq + 1].issue = i /\ log'[HeadSeq + 1].op # "tombstone"
        /\ Sound(log'[HeadSeq + 1])
    BY <1>1, <1>3, CommandAppends
  <1>5. /\ state'[i] = "live" /\ content'[i] = HeadSeq + 1 /\ thread'[i] = thread[i]
        /\ \A j \in Issues \ {i} : SameRows(j) /\ (j \in restricted' <=> j \in restricted)
    BY <1>1, <1>3 DEF TableType, SameRows
  <1>6. OnlyOn(i)
    BY <1>2, <1>4, <1>5 DEF OnlyOn
  <1>7. TableType'
    BY <1>1, <1>3, <1>4, TablesGrow DEF TableType
  <1>8. SetType'
    BY <1>1, <1>2, <1>3 DEF SetType, Pairs, NoteGaps
  <1>9. \A u \in Users, j \in Issues : GapsGrow(u, j)
    BY <1>2, NotedGaps
  <1>10. ASSUME NEW u \in Users PROVE RowsOf(u, i)'
    <2>1. SameCopy(u)
      BY <1>2, ClientStays
    <2>2. GapOf(u, i)' /\ GapsGrow(u, i)
      BY <1>2, NotedGaps
    <2>3. NoneOf(u, i) /\ TableOf(u, i)
      BY <1>3 DEF PairOf
    <2>4. TableOf(u, i)'
      BY <1>1, <1>4, <1>5, <2>2, <2>3, UpsertTable DEF GapsGrow, NoneOf
    <2>5. HiddenOf(u, i)'
      BY <1>1, <1>3, <1>4, <2>1, <2>3, UntouchedCleared DEF HiddenOf
    <2>6. EndOf(u, i)' /\ DeadOf(u, i)'
      BY <1>5 DEF EndOf, DeadOf, Dead
    <2> QED
      BY <2>2, <2>4, <2>5, <2>6 DEF RowsOf
  <1> QED
    BY <1>2, <1>4, <1>6, <1>7, <1>8, <1>9, <1>10, OneEntry

LEMMA SetLevelStep ==
    ASSUME IInv, NEW i \in Issues, SetLevel(i)
    PROVE  IInv'
  <1>1. /\ state[i] = "live" /\ AppendTo(<<Upsert(i, HeadSeq + 1)>>)
        /\ content' = [content EXCEPT ![i] = HeadSeq + 1]
        /\ state' = state /\ thread' = thread
        /\ restricted' = restricted \cup {i} /\ restricting' = restricting \cup {i}
    BY DEF SetLevel, Live
  <1>2. /\ UNCHANGED <<active, cleared, member, owed, leaks>>
        /\ ClientSame /\ NoteGaps
    BY DEF SetLevel, access, replica, request, ClientSame
  <1>3. /\ LogType /\ TableType /\ SetType /\ ReplicaType /\ RequestType /\ LogInv
        /\ \A u \in Users : PairOf(u, i)
    BY InvParts
  <1>4. /\ Grows /\ LogType' /\ HeadSeq \in Nat /\ HeadSeq' = HeadSeq + 1
        /\ log'[HeadSeq + 1] = Upsert(i, HeadSeq + 1)
        /\ log'[HeadSeq + 1].issue = i /\ log'[HeadSeq + 1].op # "tombstone"
        /\ Sound(log'[HeadSeq + 1])
    BY <1>1, <1>3, CommandAppends
  <1>5. /\ state'[i] = "live" /\ content'[i] = HeadSeq + 1 /\ thread'[i] = thread[i]
        /\ \A j \in Issues \ {i} : SameRows(j)
    BY <1>1, <1>3 DEF TableType, SameRows
  <1>6. OnlyOn(i)
    <2>1. \A j \in Issues \ {i} : (j \in restricted' <=> j \in restricted)
                                /\ (j \in restricting' <=> j \in restricting)
      BY <1>1
    <2> QED
      BY <1>2, <1>4, <1>5, <2>1 DEF OnlyOn
  <1>7. TableType'
    BY <1>1, <1>3, <1>4, TablesGrow DEF TableType
  <1>8. SetType'
    BY <1>1, <1>2, <1>3 DEF SetType, Pairs, NoteGaps
  <1>9. \A u \in Users, j \in Issues : GapsGrow(u, j)
    BY <1>2, NotedGaps
  <1>10. ASSUME NEW u \in Users PROVE RowsOf(u, i)'
    <2>1. GapOf(u, i)' /\ GapsGrow(u, i)
      BY <1>2, NotedGaps
    <2>2. TableOf(u, i)'
      BY <1>1, <1>3, <1>4, <1>5, <2>1, UpsertTable DEF GapsGrow, PairOf
    <2>3. HiddenOf(u, i)'
      BY <1>1 DEF HiddenOf
    <2>4. EndOf(u, i)' /\ DeadOf(u, i)'
      BY <1>5 DEF EndOf, DeadOf, Dead
    <2> QED
      BY <2>1, <2>2, <2>3, <2>4 DEF RowsOf
  <1> QED
    BY <1>2, <1>4, <1>6, <1>7, <1>8, <1>9, <1>10, OneEntry

LEMMA ClearLevelStep ==
    ASSUME IInv, NEW i \in Issues, ClearLevel(i)
    PROVE  IInv'
  <1>1. /\ state[i] = "live" /\ AppendTo(<<Upsert(i, HeadSeq + 1)>>)
        /\ content' = [content EXCEPT ![i] = HeadSeq + 1]
        /\ state' = state /\ thread' = thread
        /\ restricted' = restricted \ {i}
    BY DEF ClearLevel, Live
  <1>2. /\ UNCHANGED <<active, cleared, member, owed, leaks, restricting, gaps>>
        /\ ClientSame
    BY DEF ClearLevel, access, command, replica, request, history, ClientSame
  <1>3. /\ LogType /\ TableType /\ SetType /\ ReplicaType /\ RequestType /\ LogInv
        /\ \A u \in Users : PairOf(u, i)
    BY InvParts
  <1>4. /\ Grows /\ LogType' /\ HeadSeq \in Nat /\ HeadSeq' = HeadSeq + 1
        /\ log'[HeadSeq + 1] = Upsert(i, HeadSeq + 1)
        /\ log'[HeadSeq + 1].issue = i /\ log'[HeadSeq + 1].op # "tombstone"
        /\ Sound(log'[HeadSeq + 1])
    BY <1>1, <1>3, CommandAppends
  <1>5. /\ state'[i] = "live" /\ content'[i] = HeadSeq + 1 /\ thread'[i] = thread[i]
        /\ \A j \in Issues \ {i} : SameRows(j) /\ (j \in restricted' <=> j \in restricted)
    BY <1>1, <1>3 DEF TableType, SameRows
  <1>6. OnlyOn(i)
    BY <1>2, <1>4, <1>5 DEF OnlyOn
  <1>7. TableType'
    BY <1>1, <1>3, <1>4, TablesGrow DEF TableType
  <1>8. SetType'
    BY <1>1, <1>2, <1>3 DEF SetType, Pairs
  <1>9. \A u \in Users, j \in Issues : GapsGrow(u, j)
    BY <1>2 DEF GapsGrow
  <1>10. ASSUME NEW u \in Users PROVE RowsOf(u, i)'
    <2>1. GapOf(u, i)'
      <3>1. active' = active /\ (u \in member' <=> u \in member) /\ i \notin restricted'
        BY <1>1, <1>2
      <3>2. Visible(i, u) => Visible(i, u)'
        BY <3>1, Zenon DEF Visible
      <3> QED
        BY <1>1, <1>2, <1>3, <3>2 DEF PairOf, GapOf
    <2>2. TableOf(u, i)'
      BY <1>1, <1>2, <1>3, <1>4, <1>5, UpsertTable DEF PairOf
    <2>3. HiddenOf(u, i)'
      BY <1>1 DEF HiddenOf, Hidden
    <2>4. EndOf(u, i)' /\ DeadOf(u, i)'
      BY <1>5 DEF EndOf, DeadOf, Dead
    <2> QED
      BY <2>1, <2>2, <2>3, <2>4 DEF RowsOf
  <1> QED
    BY <1>2, <1>4, <1>6, <1>7, <1>8, <1>9, <1>10, OneEntry

LEMMA DeleteIssueStep ==
    ASSUME IInv, NEW i \in Issues, DeleteIssue(i)
    PROVE  IInv'
  <1>1. /\ state[i] = "live" /\ AppendTo(<<Delete(i)>>)
        /\ state' = [state EXCEPT ![i] = "gone"]
        /\ content' = [content EXCEPT ![i] = 0]
        /\ thread' = [thread EXCEPT ![i] = {}]
    BY DEF DeleteIssue, Live
  <1>2. /\ UNCHANGED <<active, cleared, member, owed, leaks, restricted, restricting, gaps>>
        /\ ClientSame
    BY DEF DeleteIssue, access, command, replica, request, history, ClientSame
  <1>3. /\ LogType /\ TableType /\ SetType /\ ReplicaType /\ RequestType /\ LogInv
        /\ \A u \in Users : PairOf(u, i)
    BY InvParts
  <1>4. /\ Grows /\ LogType' /\ HeadSeq \in Nat /\ HeadSeq' = HeadSeq + 1
        /\ log'[HeadSeq + 1] = Delete(i)
        /\ log'[HeadSeq + 1].issue = i /\ log'[HeadSeq + 1].op # "tombstone"
        /\ Sound(log'[HeadSeq + 1])
    BY <1>1, <1>3, CommandAppends
  <1>5. /\ state'[i] = "gone"
        /\ \A j \in Issues \ {i} : SameRows(j)
    BY <1>1, <1>3 DEF TableType, SameRows
  <1>6. OnlyOn(i)
    BY <1>2, <1>4, <1>5 DEF OnlyOn
  <1>7. TableType'
    BY <1>1, <1>3, <1>4, TablesGrow DEF TableType
  <1>8. SetType'
    BY <1>2, <1>3 DEF SetType, Pairs
  <1>9. \A u \in Users, j \in Issues : GapsGrow(u, j) /\ LeaksGrow(u, j)
    BY <1>2 DEF GapsGrow, LeaksGrow
  <1>10. ASSUME NEW u \in Users PROVE RowsOf(u, i)'
    <2>1. SameCopy(u)
      BY <1>2, ClientStays
    <2>2. SameAccess(u, i)
      BY <1>2 DEF SameAccess
    <2>3. (Visible(i, u)' <=> Visible(i, u)) /\ (Hidden(u, i)' <=> Hidden(u, i))
      BY <2>2, VisibleStays
    <2>4. GapOf(u, i)'
      BY <1>1, <1>2, <1>3, <2>3 DEF PairOf, GapOf
    <2>5. TableOf(u, i)'
      BY <1>4, <1>5, DeleteTable
    <2>6. HiddenOf(u, i)'
      BY <1>1, <1>2, <1>3, <1>4, <1>9, <2>1, <2>3, HiddenStays DEF PairOf
    <2>7. EndOf(u, i)' /\ DeadOf(u, i)'
      BY <1>3, <1>4, <2>1, DeleteEnds
    <2> QED
      BY <2>4, <2>5, <2>6, <2>7 DEF RowsOf
  <1> QED
    BY <1>2, <1>4, <1>6, <1>7, <1>8, <1>9, <1>10, OneEntry

LEMMA ArchiveIssueStep ==
    ASSUME IInv, NEW i \in Issues, ArchiveIssue(i)
    PROVE  IInv'
  <1>1. /\ state[i] = "live" /\ AppendTo(<<Delete(i)>>)
        /\ state' = [state EXCEPT ![i] = "archived"]
        /\ content' = [content EXCEPT ![i] = HeadSeq + 1]
        /\ thread' = thread
    BY DEF ArchiveIssue, Live
  <1>2. /\ UNCHANGED <<active, cleared, member, owed, leaks, restricted, restricting, gaps>>
        /\ ClientSame
    BY DEF ArchiveIssue, access, command, replica, request, history, ClientSame
  <1>3. /\ LogType /\ TableType /\ SetType /\ ReplicaType /\ RequestType /\ LogInv
        /\ \A u \in Users : PairOf(u, i)
    BY InvParts
  <1>4. /\ Grows /\ LogType' /\ HeadSeq \in Nat /\ HeadSeq' = HeadSeq + 1
        /\ log'[HeadSeq + 1] = Delete(i)
        /\ log'[HeadSeq + 1].issue = i /\ log'[HeadSeq + 1].op # "tombstone"
        /\ Sound(log'[HeadSeq + 1])
    BY <1>1, <1>3, CommandAppends
  <1>5. /\ state'[i] = "archived"
        /\ \A j \in Issues \ {i} : SameRows(j)
    BY <1>1, <1>3 DEF TableType, SameRows
  <1>6. OnlyOn(i)
    BY <1>2, <1>4, <1>5 DEF OnlyOn
  <1>7. TableType'
    BY <1>1, <1>3, <1>4, TablesGrow DEF TableType
  <1>8. SetType'
    BY <1>2, <1>3 DEF SetType, Pairs
  <1>9. \A u \in Users, j \in Issues : GapsGrow(u, j) /\ LeaksGrow(u, j)
    BY <1>2 DEF GapsGrow, LeaksGrow
  <1>10. ASSUME NEW u \in Users PROVE RowsOf(u, i)'
    <2>1. SameCopy(u)
      BY <1>2, ClientStays
    <2>2. SameAccess(u, i)
      BY <1>2 DEF SameAccess
    <2>3. (Visible(i, u)' <=> Visible(i, u)) /\ (Hidden(u, i)' <=> Hidden(u, i))
      BY <2>2, VisibleStays
    <2>4. GapOf(u, i)'
      BY <1>1, <1>2, <1>3, <2>3 DEF PairOf, GapOf
    <2>5. TableOf(u, i)'
      BY <1>4, <1>5, DeleteTable
    <2>6. HiddenOf(u, i)'
      BY <1>1, <1>2, <1>3, <1>4, <1>9, <2>1, <2>3, HiddenStays DEF PairOf
    <2>7. EndOf(u, i)' /\ DeadOf(u, i)'
      BY <1>3, <1>4, <2>1, DeleteEnds
    <2> QED
      BY <2>4, <2>5, <2>6, <2>7 DEF RowsOf
  <1> QED
    BY <1>2, <1>4, <1>6, <1>7, <1>8, <1>9, <1>10, OneEntry

LEMMA RestoreIssueStep ==
    ASSUME IInv, NEW i \in Issues, RestoreIssue(i)
    PROVE  IInv'
  <1>1. /\ state[i] = "archived" /\ AppendTo(<<Upsert(i, HeadSeq + 1)>>)
        /\ state' = [state EXCEPT ![i] = "live"]
        /\ content' = [content EXCEPT ![i] = HeadSeq + 1]
        /\ thread' = thread
        /\ gaps' = gaps \cup ({i} \X Users)
    BY DEF RestoreIssue
  <1>2. /\ UNCHANGED <<active, cleared, member, owed, leaks, restricted, restricting>>
        /\ ClientSame
    BY DEF RestoreIssue, access, command, replica, request, ClientSame
  <1>3. /\ LogType /\ TableType /\ SetType /\ ReplicaType /\ RequestType /\ LogInv
        /\ \A u \in Users : PairOf(u, i)
    BY InvParts
  <1>4. /\ Grows /\ LogType' /\ HeadSeq \in Nat /\ HeadSeq' = HeadSeq + 1
        /\ log'[HeadSeq + 1] = Upsert(i, HeadSeq + 1)
        /\ log'[HeadSeq + 1].issue = i /\ log'[HeadSeq + 1].op # "tombstone"
        /\ Sound(log'[HeadSeq + 1])
    BY <1>1, <1>3, CommandAppends
  <1>5. /\ state'[i] = "live" /\ \A j \in Issues \ {i} : SameRows(j)
    BY <1>1, <1>3 DEF TableType, SameRows
  <1>6. OnlyOn(i)
    BY <1>2, <1>4, <1>5 DEF OnlyOn
  <1>7. TableType'
    BY <1>1, <1>3, <1>4, TablesGrow DEF TableType
  <1>8. SetType'
    BY <1>1, <1>2, <1>3 DEF SetType, Pairs
  <1>9. \A u \in Users, j \in Issues : GapsGrow(u, j) /\ LeaksGrow(u, j)
    BY <1>1, <1>2 DEF GapsGrow, LeaksGrow
  <1>10. ASSUME NEW u \in Users PROVE RowsOf(u, i)'
    <2>1. SameCopy(u)
      BY <1>2, ClientStays
    <2>2. SameAccess(u, i)
      BY <1>2 DEF SameAccess
    <2>3. Hidden(u, i)' <=> Hidden(u, i)
      BY <2>2, VisibleStays
    <2>4. GapOf(u, i)' /\ TableOf(u, i)'
      BY <1>1 DEF GapOf, TableOf
    <2>5. HiddenOf(u, i)'
      BY <1>1, <1>2, <1>3, <1>4, <1>9, <2>1, <2>3, HiddenStays DEF PairOf
    <2>6. EndOf(u, i)' /\ DeadOf(u, i)'
      BY <1>5 DEF EndOf, DeadOf, Dead
    <2> QED
      BY <2>4, <2>5, <2>6 DEF RowsOf
  <1> QED
    BY <1>2, <1>4, <1>6, <1>7, <1>8, <1>9, <1>10, OneEntry

(* The tombstone that UpdateIssue owed. *)
LEMMA EmitTombstoneStep ==
    ASSUME IInv, NEW i \in Issues, NEW u \in Users, EmitTombstone(i, u)
    PROVE  IInv'
  <1>1. /\ <<i, u>> \in owed /\ AppendTo(<<Tombstone(i, u)>>)
        /\ owed' = owed \ {<<i, u>>} /\ gaps' = gaps \cup {<<i, u>>}
    BY DEF EmitTombstone
  <1>2. /\ UNCHANGED <<active, cleared, member, leaks, restricted, restricting>>
        /\ UNCHANGED <<state, content, thread>> /\ ClientSame
    BY DEF EmitTombstone, tables, access, replica, request, ClientSame
  <1>3. /\ LogType /\ TableType /\ FlagType /\ SetType /\ ReplicaType /\ RequestType
        /\ LogInv /\ \A v \in Users : WindowOf(v)
        /\ \A v \in Users, j \in Issues : PairOf(v, j)
    BY InvParts
  <1>4. /\ Grows /\ LogType' /\ HeadSeq \in Nat /\ HeadSeq' = HeadSeq + 1
        /\ log'[HeadSeq + 1] = Tombstone(i, u)
        /\ log'[HeadSeq + 1].issue = i /\ log'[HeadSeq + 1].op = "tombstone"
        /\ log'[HeadSeq + 1].ver = 0 /\ log'[HeadSeq + 1].user = u
    <2>1. HeadSeq \in Nat
      BY <1>3 DEF LogType, HeadSeq
    <2>2. AppendTo(<<Entry("tombstone", i, 0, u)>>) /\ 0 \in 0..(HeadSeq + 1)
      BY <1>1, <2>1 DEF Tombstone
    <2>3. /\ Grows /\ LogType' /\ HeadSeq' = HeadSeq + 1
          /\ log'[HeadSeq + 1] = Entry("tombstone", i, 0, u)
      BY <1>3, <2>2, AppendedOne
    <2> QED
      BY <2>1, <2>3 DEF Tombstone, Entry
  <1>5. \A s \in (HeadSeq + 1)..HeadSeq' : s = HeadSeq + 1
    BY <1>4
  <1>6. TypeOK'
    <2>1. SetType'
      BY <1>1, <1>2, <1>3 DEF SetType, Pairs
    <2>2. TableType'
      BY <1>2, <1>3, <1>4, TablesGrow DEF TableType
    <2>3. FlagType'
      BY <1>2, <1>3, Zenon DEF FlagType
    <2>4. ReplicaType' /\ RequestType'
      BY <1>2, <1>3, <1>4, ClientTypeStays
    <2> QED
      BY <1>4, <2>1, <2>2, <2>3, <2>4, TypePartsAfter
  <1>7. LogInv'
    <2>1. state[i] # "none"
      BY <1>1, <1>3 DEF PairOf, OwedOf
    <2>2. \A s \in (HeadSeq + 1)..HeadSeq' : LogOf(s)'
      BY <1>2, <1>4, <1>5, <2>1 DEF LogOf, Sound
    <2> QED
      BY <1>2, <1>3, <1>4, <2>2, LogStays
  <1>8. \A v \in Users : SameCopy(v) /\ opened'[v] = opened[v]
    BY <1>2, ClientStays
  <1>9. \A v \in Users : WindowOf(v)'
    BY <1>3, <1>8, WindowStays
  <1>10. \A v \in Users, j \in Issues : GapsGrow(v, j) /\ LeaksGrow(v, j) /\ SameRows(j)
    BY <1>1, <1>2 DEF GapsGrow, LeaksGrow, SameRows
  <1>11. \A v \in Users, j \in Issues : SameAccess(v, j)
    BY <1>2 DEF SameAccess
  <1>12. \A j \in Issues : OnlyWipes(j)
    BY <1>4, <1>5 DEF OnlyWipes, IsWipe
  <1>13. ASSUME NEW v \in Users, NEW j \in Issues, <<j, v>> # <<i, u>> PROVE PairOf(v, j)'
    <2>1. SameCommand(v, j)
      BY <1>1, <1>2, <1>13 DEF SameCommand
    <2>2. NothingNew(v, j)
      BY <1>4, <1>5, <1>13 DEF NothingNew
    <2>3. Aside(v, j)
      BY <1>4, <1>8, <1>10, <1>11, <1>12, <2>1, <2>2 DEF Aside
    <2> QED
      BY <1>3, <2>3, AsideStays
  <1>14. PairOf(u, i)'
    <2>1. NoneOf(u, i)'
      BY <1>2, <1>3, <1>8, NoneStays DEF PairOf
    <2>2. OwedOf(u, i)'
      BY <1>1, <1>2, <1>3 DEF PairOf, OwedOf
    <2>3. GapOf(u, i)' /\ TableOf(u, i)'
      BY <1>1 DEF GapOf, TableOf
    <2>4. LeakOf(u, i)'
      BY <1>2, <1>3, Zenon DEF PairOf, LeakOf
    <2>5. PrefixOf(u, i)' /\ PageOf(u, i)'
      BY <1>3, <1>4, <1>8, <1>10, CopyStays DEF PairOf
    <2>6. HeadSeq + 1 \in 1..HeadSeq' /\ HeadSeq' = Len(log')
      BY <1>4 DEF HeadSeq
    <2>7. HeadSeq + 1 \in Tombstones(log', u, i)
      BY <1>4, <2>6 DEF Tombstones
    <2>8. HeadSeq + 1 \in Ends(log', u, i)
      <3>1. ASSUME NEW s \in 1..HeadSeq', s > HeadSeq + 1 PROVE FALSE
        BY <1>4, <3>1
      <3> QED
        BY <1>4, <2>6, <3>1 DEF Ends
    <2>9. Cleared(u, i, Tombstones(log, u, i))' /\ Cleared(u, i, Ends(log, u, i))'
      BY <1>3, <1>4, <1>8, <2>7, <2>8, WipeToCome DEF Cleared
    <2>10. HiddenOf(u, i)' /\ EndOf(u, i)' /\ DeadOf(u, i)'
      BY <2>8, <2>9 DEF HiddenOf, EndOf, DeadOf
    <2> QED
      BY <2>1, <2>2, <2>3, <2>4, <2>5, <2>10 DEF PairOf
  <1> QED
    BY <1>6, <1>7, <1>9, <1>13, <1>14 DEF IInv

(* Commands that change who may see what, and no row of the tables. *)
RightsOf(u, i) ==
    OwedOf(u, i) /\ GapOf(u, i) /\ LeakOf(u, i) /\ HiddenOf(u, i) /\ EndOf(u, i) /\ DeadOf(u, i)

LEMMA RightsStep ==
    ASSUME IInv, UNCHANGED <<log, state, content, thread>>, ClientSame, FlagType', SetType',
           \A u \in Users, i \in Issues : GapsGrow(u, i),
           \A u \in Users, i \in Issues : RightsOf(u, i)'
    PROVE  IInv'
  <1>1. /\ LogType /\ TableType /\ ReplicaType /\ RequestType
        /\ LogInv /\ \A u \in Users : WindowOf(u)
        /\ \A u \in Users, i \in Issues : PairOf(u, i)
    BY InvParts
  <1>2. Grows /\ LogType' /\ HeadSeq' = HeadSeq
    BY <1>1, SameLogGrows
  <1>3. TypeOK'
    <2>1. TableType'
      BY <1>1, <1>2 DEF TableType
    <2>2. ReplicaType' /\ RequestType'
      BY <1>1, <1>2, ClientTypeStays
    <2> QED
      BY <1>2, <2>1, <2>2, TypePartsAfter
  <1>4. \A s : ~(s \in (HeadSeq + 1)..HeadSeq')
    BY <1>2 DEF Grows
  <1>5. LogInv'
    BY <1>1, <1>2, <1>4, LogStays
  <1>6. \A u \in Users : SameCopy(u) /\ opened'[u] = opened[u]
    BY ClientStays
  <1>7. \A u \in Users : WindowOf(u)'
    BY <1>1, <1>6, WindowStays
  <1>8. ASSUME NEW u \in Users, NEW i \in Issues PROVE PairOf(u, i)'
    <2>1. SameRows(i) /\ NothingNew(u, i)
      BY <1>4 DEF SameRows, NothingNew
    <2>2. NoneOf(u, i)'
      BY <1>1, <1>6, NoneStays DEF PairOf
    <2>3. TableOf(u, i)'
      BY <1>1, <1>2, <2>1, TableStays DEF PairOf
    <2>4. PrefixOf(u, i)' /\ PageOf(u, i)'
      BY <1>1, <1>2, <1>6, CopyStays DEF PairOf
    <2> QED
      BY <2>2, <2>3, <2>4 DEF PairOf, RightsOf
  <1> QED
    BY <1>3, <1>5, <1>7, <1>8 DEF IInv

(* What the steps of the rights have in common. *)
LEMMA RightsFacts ==
    ASSUME IInv, UNCHANGED <<log, state, content, thread>>, ClientSame
    PROVE  /\ LogType /\ FlagType /\ SetType /\ ReplicaType /\ RequestType /\ Grows
           /\ \A u \in Users : SameCopy(u)
           /\ \A u \in Users, i \in Issues : PairOf(u, i)
           /\ \A i \in Issues : SameRows(i) /\ OnlyWipes(i)
           /\ \A u \in Users, i \in Issues : NothingNew(u, i)
  <1>1. /\ LogType /\ FlagType /\ SetType /\ ReplicaType /\ RequestType
        /\ \A u \in Users, i \in Issues : PairOf(u, i)
    BY InvParts
  <1>2. Grows /\ HeadSeq' = HeadSeq
    BY <1>1, SameLogGrows
  <1>3. \A s : ~(s \in (HeadSeq + 1)..HeadSeq')
    BY <1>2 DEF Grows
  <1> QED
    BY <1>1, <1>2, <1>3, ClientStays DEF SameRows, OnlyWipes, NothingNew

(* The rights of a pair that the step passes by. *)
LEMMA RightsAside ==
    ASSUME LogType, ReplicaType, RequestType, Grows, NEW u \in Users, NEW i \in Issues,
           SameCopy(u), GapsGrow(u, i), LeaksGrow(u, i), SameRows(i),
           SameAccess(u, i), SameCommand(u, i), OnlyWipes(i), PairOf(u, i)
    PROVE  RightsOf(u, i)'
  <1>1. (Visible(i, u)' <=> Visible(i, u)) /\ (Hidden(u, i)' <=> Hidden(u, i))
    BY VisibleStays
  <1>2. /\ i \in restricting' <=> i \in restricting
        /\ <<i, u>> \in owed' <=> <<i, u>> \in owed
        /\ state'[i] = state[i]
    BY DEF SameCommand, SameRows
  <1>3. OwedOf(u, i)'
    BY <1>2 DEF PairOf, OwedOf
  <1>4. GapOf(u, i)'
    BY <1>1, <1>2 DEF PairOf, GapOf, GapsGrow
  <1>5. LeakOf(u, i)'
    BY Zenon DEF PairOf, LeakOf, LeaksGrow, SameAccess
  <1>6. HiddenOf(u, i)'
    BY <1>1, <1>2, HiddenStays DEF PairOf
  <1>7. EndOf(u, i)' /\ DeadOf(u, i)'
    <2>1. Dead(i)' => Dead(i)
      BY <1>2 DEF Dead
    <2> QED
      BY <1>1, <1>2, <2>1, DeadStays DEF PairOf
  <1> QED
    BY <1>3, <1>4, <1>5, <1>6, <1>7 DEF RightsOf

LEMMA ComputeExcludedStep ==
    ASSUME IInv, NEW k \in Issues, ComputeExcluded(k)
    PROVE  IInv'
  <1>1. /\ k \in restricting /\ restricting' = restricting \ {k}
        /\ owed' = owed \cup ({k} \X (member \ cleared))
        /\ UNCHANGED <<log, state, content, thread>> /\ ClientSame
        /\ UNCHANGED <<active, restricted, cleared, member, gaps, leaks>>
    BY DEF ComputeExcluded, tables, access, replica, request, history, ClientSame
  <1>2. /\ LogType /\ FlagType /\ SetType /\ ReplicaType /\ RequestType /\ Grows
        /\ \A u \in Users : SameCopy(u)
        /\ \A u \in Users, i \in Issues : PairOf(u, i)
        /\ \A i \in Issues : SameRows(i) /\ OnlyWipes(i)
    BY <1>1, RightsFacts
  <1>3. FlagType'
    BY <1>1, <1>2, Zenon DEF FlagType
  <1>4. SetType'
    <2>1. owed' \in SUBSET Pairs
      BY <1>1, <1>2 DEF SetType, Pairs
    <2> QED
      BY <1>1, <1>2, <2>1 DEF SetType, Pairs
  <1>5. \A u \in Users, i \in Issues : GapsGrow(u, i) /\ LeaksGrow(u, i)
    BY <1>1 DEF GapsGrow, LeaksGrow
  <1>6. ASSUME NEW u \in Users, NEW i \in Issues PROVE RightsOf(u, i)'
    <2>1. SameAccess(u, i)
      BY <1>1 DEF SameAccess
    <2>2. CASE i # k
      <3>1. SameCommand(u, i)
        BY <1>1, <2>2 DEF SameCommand
      <3> QED
        BY <1>2, <1>5, <2>1, <3>1, RightsAside
    <2>3. CASE i = k
      <3>1. (Visible(i, u)' <=> Visible(i, u)) /\ (Hidden(u, i)' <=> Hidden(u, i))
        BY <2>1, VisibleStays
      <3>2. state'[i] = state[i] /\ state[i] # "none"
        BY <1>1, <1>2, <2>3 DEF SameRows, PairOf, OwedOf
      <3>3. OwedOf(u, i)'
        BY <3>2 DEF OwedOf
      <3>4. GapOf(u, i)'
        BY <1>1, <1>2, <3>1, <3>2 DEF PairOf, GapOf
      <3>5. LeakOf(u, i)'
        BY <1>1, <1>2, Zenon DEF PairOf, LeakOf
      <3>6. Hidden(u, i) => <<i, u>> \in leaks' \cup owed'
        <4>1. <<i, u>> \notin leaks => u \in member
          BY <1>2 DEF PairOf, LeakOf
        <4> QED
          BY <1>1, <2>3, <4>1 DEF Hidden
      <3>7. HiddenOf(u, i)'
        BY <3>1, <3>6 DEF HiddenOf
      <3>8. Dead(i)' => Dead(i)
        BY <3>2 DEF Dead
      <3>9. <<i, u>> \notin leaks' \cup owed' => <<i, u>> \notin owed
        BY <1>1
      <3>10. EndOf(u, i)' /\ DeadOf(u, i)'
        BY <1>2, <1>5, <3>1, <3>8, <3>9, DeadStays DEF PairOf
      <3> QED
        BY <3>3, <3>4, <3>5, <3>7, <3>10 DEF RightsOf
    <2> QED
      BY <2>2, <2>3
  <1> QED
    BY <1>1, <1>3, <1>4, <1>5, <1>6, RightsStep

LEMMA AbandonTombstonesStep ==
    ASSUME IInv, AbandonTombstones
    PROVE  IInv'
  <1>1. /\ leaks' = leaks \cup owed \cup (restricting \X (Users \ cleared))
        /\ restricting' = {} /\ owed' = {}
        /\ UNCHANGED <<log, state, content, thread>> /\ ClientSame
        /\ UNCHANGED <<active, restricted, cleared, member, gaps>>
    BY DEF AbandonTombstones, tables, access, replica, request, ClientSame
  <1>2. /\ LogType /\ FlagType /\ SetType /\ ReplicaType /\ RequestType /\ Grows
        /\ \A u \in Users : SameCopy(u)
        /\ \A u \in Users, i \in Issues : PairOf(u, i)
        /\ \A i \in Issues : SameRows(i) /\ OnlyWipes(i)
    BY <1>1, RightsFacts
  <1>3. FlagType'
    BY <1>1, <1>2, Zenon DEF FlagType
  <1>4. SetType'
    <2>1. leaks' \in SUBSET Pairs
      BY <1>1, <1>2 DEF SetType, Pairs
    <2> QED
      BY <1>1, <1>2, <2>1 DEF SetType, Pairs
  <1>5. \A u \in Users, i \in Issues : GapsGrow(u, i) /\ LeaksGrow(u, i)
    BY <1>1 DEF GapsGrow, LeaksGrow
  <1>6. ASSUME NEW u \in Users, NEW i \in Issues PROVE RightsOf(u, i)'
    <2>1. SameAccess(u, i)
      BY <1>1 DEF SameAccess
    <2>2. (Visible(i, u)' <=> Visible(i, u)) /\ (Hidden(u, i)' <=> Hidden(u, i))
      BY <2>1, VisibleStays
    <2>3. state'[i] = state[i]
      BY <1>2 DEF SameRows
    <2>4. OwedOf(u, i)'
      BY <1>1 DEF OwedOf
    <2>5. GapOf(u, i)'
      BY <1>1, <1>2, <2>2, <2>3 DEF PairOf, GapOf
    <2>6. LeakOf(u, i)'
      BY <1>2, <1>5, <2>1, Zenon DEF PairOf, LeakOf, LeaksGrow, SameAccess
    <2>7. /\ Hidden(u, i)' /\ i \notin restricting'
                => i \notin restricting \/ <<i, u>> \in leaks' \cup owed'
          /\ <<i, u>> \notin leaks' \cup owed' => <<i, u>> \notin owed
      BY <1>1, <2>2 DEF Hidden
    <2>8. HiddenOf(u, i)'
      BY <1>2, <1>5, <2>2, <2>3, <2>7, HiddenStays DEF PairOf
    <2>9. Dead(i)' => Dead(i)
      BY <2>3 DEF Dead
    <2>10. EndOf(u, i)' /\ DeadOf(u, i)'
      BY <1>2, <1>5, <2>2, <2>7, <2>9, DeadStays DEF PairOf
    <2> QED
      BY <2>4, <2>5, <2>6, <2>8, <2>10 DEF RightsOf
  <1> QED
    BY <1>1, <1>3, <1>4, <1>5, <1>6, RightsStep

(* Past the end of what the log says of i, a tombstone is as good as any   *)
(* wipe.                                                                   *)
LEMMA TombstonesEnd ==
    ASSUME NEW l, Len(l) \in Nat, NEW u, NEW i, NEW n \in Nat, Ends(l, u, i) # {},
           ToCome(Tombstones(l, u, i), n)
    PROVE  ToCome(Ends(l, u, i), n)
  <1>1. PICK w \in Ends(l, u, i) : TRUE
    OBVIOUS
  <1>2. PICK t \in Tombstones(l, u, i) : t > n
    BY DEF ToCome
  <1>3. /\ w \in 1..Len(l) /\ t \in 1..Len(l) /\ l[t] = Tombstone(i, u)
        /\ \A s \in 1..Len(l) : s > w /\ l[s].issue = i => IsWipe(l[s])
    BY <1>1, <1>2 DEF Ends, Tombstones
  <1>4. CASE w > n
    BY <1>4 DEF ToCome
  <1>5. CASE ~(w > n)
    <2>1. \A s \in 1..Len(l) : s > t => s > w
      BY <1>2, <1>3, <1>5
    <2>2. t \in Ends(l, u, i)
      BY <1>3, <2>1 DEF Ends
    <2> QED
      BY <1>2, <2>2 DEF ToCome
  <1> QED
    BY <1>4, <1>5

LEMMA HiddenThenDead ==
    ASSUME LogType, ReplicaType, RequestType, NEW u \in Users, NEW i \in Issues,
           Ends(log, u, i) # {}, Cleared(u, i, Tombstones(log, u, i))
    PROVE  Cleared(u, i, Ends(log, u, i))
  <1>1. cp[u] \in Nat /\ to[u] \in Nat /\ Len(log) \in Nat
    BY ReplicaFacts DEF HeadSeq
  <1>2. \A n \in Nat : ToCome(Tombstones(log, u, i), n) => ToCome(Ends(log, u, i), n)
    BY <1>1, TombstonesEnd
  <1> QED
    BY <1>1, <1>2 DEF Cleared

LEMMA ClearStep ==
    ASSUME IInv, NEW k \in Users, Clear(k)
    PROVE  IInv'
  <1>1. /\ cleared' = cleared \cup {k} /\ leaks' = leaks \cup (restricting \X {k})
        /\ UNCHANGED <<log, state, content, thread>> /\ ClientSame
        /\ UNCHANGED <<active, restricted, restricting, owed, member, gaps>>
    BY DEF Clear, tables, access, command, replica, request, history, ClientSame
  <1>2. /\ LogType /\ FlagType /\ SetType /\ ReplicaType /\ RequestType /\ Grows
        /\ \A u \in Users : SameCopy(u)
        /\ \A u \in Users, i \in Issues : PairOf(u, i)
        /\ \A i \in Issues : SameRows(i) /\ OnlyWipes(i)
    BY <1>1, RightsFacts
  <1>3. FlagType'
    BY <1>1, <1>2, Zenon DEF FlagType
  <1>4. SetType'
    <2>1. leaks' \in SUBSET Pairs
      BY <1>1, <1>2 DEF SetType, Pairs
    <2> QED
      BY <1>1, <1>2, <2>1 DEF SetType, Pairs
  <1>5. \A u \in Users, i \in Issues : GapsGrow(u, i) /\ LeaksGrow(u, i)
    BY <1>1 DEF GapsGrow, LeaksGrow
  <1>6. ASSUME NEW u \in Users, NEW i \in Issues PROVE RightsOf(u, i)'
    <2>1. SameCommand(u, i) /\ state'[i] = state[i]
      BY <1>1, <1>2 DEF SameCommand, SameRows
    <2>2. CASE u # k
      <3>1. SameAccess(u, i)
        BY <1>1, <2>2 DEF SameAccess
      <3> QED
        BY <1>2, <1>5, <2>1, <3>1, RightsAside
    <2>3. CASE u = k
      <3>1. OwedOf(u, i)'
        BY <1>2, <2>1 DEF PairOf, OwedOf, SameCommand
      <3>2. ~Hidden(u, i)'
        BY <1>1, <2>3 DEF Hidden
      <3>3. GapOf(u, i)'
        <4>1. Visible(i, u) => Visible(i, u)'
          <5>1. /\ active' = active /\ (u \in member' <=> u \in member) /\ u \in cleared'
            BY <1>1, <2>3
          <5> QED
            BY <5>1, Zenon DEF Visible
        <4> QED
          BY <1>1, <1>2, <2>1, <4>1 DEF PairOf, GapOf
      <3>4. LeakOf(u, i)'
        BY <1>1, <1>2, <1>5, Zenon DEF PairOf, LeakOf, LeaksGrow
      <3>5. HiddenOf(u, i)'
        BY <3>2 DEF HiddenOf
      <3>6. EndOf(u, i)' /\ DeadOf(u, i)'
        <4>1. Ends(log', u, i) = Ends(log, u, i)
          BY <1>1
        <4>2. EndOf(u, i)'
          BY <1>2, <1>5, <2>1, <4>1 DEF PairOf, EndOf, LeaksGrow, Dead
        <4>3. ASSUME <<i, u>> \notin leaks' \cup owed', Dead(i)'
              PROVE  Cleared(u, i, Ends(log, u, i))'
          <5>1. <<i, u>> \notin leaks \cup owed /\ Dead(i) /\ state[i] # "none"
            BY <1>1, <2>1, <4>3 DEF Dead
          <5>2. Cleared(u, i, Ends(log, u, i))
            <6>1. CASE Hidden(u, i)
              <7>1. i \notin restricting
                BY <1>1, <2>3, <4>3
              <7>2. Cleared(u, i, Tombstones(log, u, i)) /\ Ends(log, u, i) # {}
                BY <1>2, <5>1, <6>1, <7>1 DEF PairOf, HiddenOf, EndOf
              <7> QED
                BY <1>2, <7>2, HiddenThenDead
            <6>2. CASE ~Hidden(u, i)
              BY <1>2, <5>1, <6>2 DEF PairOf, DeadOf
            <6> QED
              BY <6>1, <6>2
          <5> QED
            BY <1>2, <4>1, <5>2, ClearedStays DEF Cleared
        <4> QED
          BY <4>2, <4>3 DEF DeadOf
      <3> QED
        BY <3>1, <3>3, <3>4, <3>5, <3>6 DEF RightsOf
    <2> QED
      BY <2>2, <2>3
  <1> QED
    BY <1>1, <1>3, <1>4, <1>5, <1>6, RightsStep

LEMMA UnclearStep ==
    ASSUME IInv, NEW k \in Users, Unclear(k)
    PROVE  IInv'
  <1>1. /\ cleared' = cleared \ {k} /\ leaks' = leaks \cup (restricted \X {k}) /\ NoteGaps
        /\ UNCHANGED <<log, state, content, thread>> /\ ClientSame
        /\ UNCHANGED <<active, restricted, restricting, owed, member>>
    BY DEF Unclear, tables, access, command, replica, request, history, ClientSame
  <1>2. /\ LogType /\ FlagType /\ SetType /\ ReplicaType /\ RequestType /\ Grows
        /\ \A u \in Users : SameCopy(u)
        /\ \A u \in Users, i \in Issues : PairOf(u, i)
        /\ \A i \in Issues : SameRows(i) /\ OnlyWipes(i)
    BY <1>1, RightsFacts
  <1>3. FlagType'
    BY <1>1, <1>2, Zenon DEF FlagType
  <1>4. SetType'
    <2>1. leaks' \in SUBSET Pairs
      BY <1>1, <1>2 DEF SetType, Pairs
    <2>2. gaps' \in SUBSET Pairs
      BY <1>1, <1>2 DEF SetType, Pairs, NoteGaps
    <2> QED
      BY <1>1, <1>2, <2>1, <2>2 DEF SetType, Pairs
  <1>5. \A u \in Users, i \in Issues : GapsGrow(u, i) /\ LeaksGrow(u, i)
    BY <1>1, NotedGaps DEF LeaksGrow
  <1>6. ASSUME NEW u \in Users, NEW i \in Issues PROVE RightsOf(u, i)'
    <2>1. SameCommand(u, i) /\ state'[i] = state[i]
      BY <1>1, <1>2 DEF SameCommand, SameRows
    <2>2. CASE u # k
      <3>1. SameAccess(u, i)
        BY <1>1, <2>2 DEF SameAccess
      <3> QED
        BY <1>2, <1>5, <2>1, <3>1, RightsAside
    <2>3. CASE u = k
      <3>1. OwedOf(u, i)'
        BY <1>2, <2>1 DEF PairOf, OwedOf, SameCommand
      <3>2. GapOf(u, i)'
        BY <1>1, NotedGaps
      <3>3. LeakOf(u, i)'
        BY <1>1, <1>2, <1>5, Zenon DEF PairOf, LeakOf, LeaksGrow
      <3>4. CASE i \in restricted
        <4>1. <<i, u>> \in leaks'
          BY <1>1, <2>3, <3>4
        <4> QED
          BY <3>1, <3>2, <3>3, <4>1 DEF RightsOf, HiddenOf, EndOf, DeadOf
      <3>5. CASE i \notin restricted
        <4>1. ~Hidden(u, i) /\ ~Hidden(u, i)'
          BY <1>1, <3>5 DEF Hidden
        <4>2. HiddenOf(u, i)'
          BY <4>1 DEF HiddenOf
        <4>3. EndOf(u, i)' /\ DeadOf(u, i)'
          <5>1. (Dead(i)' => Dead(i)) /\ (<<i, u>> \notin leaks' \cup owed' => <<i, u>> \notin owed)
            BY <1>1, <2>1 DEF Dead
          <5> QED
            BY <1>2, <1>5, <4>1, <5>1, DeadStays DEF PairOf
        <4> QED
          BY <3>1, <3>2, <3>3, <4>2, <4>3 DEF RightsOf
      <3> QED
        BY <3>4, <3>5
    <2> QED
      BY <2>2, <2>3
  <1> QED
    BY <1>1, <1>3, <1>4, <1>5, <1>6, RightsStep

LEMMA SuspendStep ==
    ASSUME IInv, NEW k \in Users, Suspend(k)
    PROVE  IInv'
  <1>1. /\ member' = member \ {k} /\ gaps' = gaps \cup (Issues \X {k})
        /\ leaks' = leaks \cup (Issues \X {k})
        /\ UNCHANGED <<log, state, content, thread>> /\ ClientSame
        /\ UNCHANGED <<active, restricted, restricting, owed, cleared>>
    BY DEF Suspend, tables, access, command, replica, request, history, ClientSame
  <1>2. /\ LogType /\ FlagType /\ SetType /\ ReplicaType /\ RequestType /\ Grows
        /\ \A u \in Users : SameCopy(u)
        /\ \A u \in Users, i \in Issues : PairOf(u, i)
        /\ \A i \in Issues : SameRows(i) /\ OnlyWipes(i)
    BY <1>1, RightsFacts
  <1>3. FlagType'
    BY <1>1, <1>2, Zenon DEF FlagType
  <1>4. SetType'
    <2>1. leaks' \in SUBSET Pairs /\ gaps' \in SUBSET Pairs
      BY <1>1, <1>2 DEF SetType, Pairs
    <2> QED
      BY <1>1, <1>2, <2>1 DEF SetType, Pairs
  <1>5. \A u \in Users, i \in Issues : GapsGrow(u, i) /\ LeaksGrow(u, i)
    BY <1>1 DEF GapsGrow, LeaksGrow
  <1>6. ASSUME NEW u \in Users, NEW i \in Issues PROVE RightsOf(u, i)'
    <2>1. SameCommand(u, i) /\ state'[i] = state[i]
      BY <1>1, <1>2 DEF SameCommand, SameRows
    <2>2. CASE u # k
      <3>1. SameAccess(u, i)
        BY <1>1, <2>2 DEF SameAccess
      <3> QED
        BY <1>2, <1>5, <2>1, <3>1, RightsAside
    <2>3. CASE u = k
      <3>1. OwedOf(u, i)'
        BY <1>2, <2>1 DEF PairOf, OwedOf, SameCommand
      <3>2. <<i, u>> \in leaks' /\ <<i, u>> \in gaps'
        BY <1>1, <2>3
      <3> QED
        BY <3>1, <3>2 DEF RightsOf, GapOf, LeakOf, HiddenOf, EndOf, DeadOf
    <2> QED
      BY <2>2, <2>3
  <1> QED
    BY <1>1, <1>3, <1>4, <1>5, <1>6, RightsStep

LEMMA ReinstateStep ==
    ASSUME IInv, NEW k \in Users, Reinstate(k)
    PROVE  IInv'
  <1>1. /\ member' = member \cup {k}
        /\ UNCHANGED <<log, state, content, thread>> /\ ClientSame
        /\ UNCHANGED <<active, restricted, restricting, owed, cleared, gaps, leaks>>
    BY DEF Reinstate, tables, access, command, replica, request, history, ClientSame
  <1>2. /\ LogType /\ FlagType /\ SetType /\ ReplicaType /\ RequestType /\ Grows
        /\ \A u \in Users : SameCopy(u)
        /\ \A u \in Users, i \in Issues : PairOf(u, i)
        /\ \A i \in Issues : SameRows(i) /\ OnlyWipes(i)
    BY <1>1, RightsFacts
  <1>3. FlagType'
    BY <1>1, <1>2, Zenon DEF FlagType
  <1>4. SetType'
    BY <1>1, <1>2 DEF SetType, Pairs
  <1>5. \A u \in Users, i \in Issues : GapsGrow(u, i) /\ LeaksGrow(u, i)
    BY <1>1 DEF GapsGrow, LeaksGrow
  <1>6. ASSUME NEW u \in Users, NEW i \in Issues PROVE RightsOf(u, i)'
    <2>1. SameCommand(u, i) /\ state'[i] = state[i]
      BY <1>1, <1>2 DEF SameCommand, SameRows
    <2>2. CASE u # k
      <3>1. SameAccess(u, i)
        BY <1>1, <2>2 DEF SameAccess
      <3> QED
        BY <1>2, <1>5, <2>1, <3>1, RightsAside
    <2>3. CASE u = k
      <3>1. OwedOf(u, i)'
        BY <1>2, <2>1 DEF PairOf, OwedOf, SameCommand
      <3>2. Hidden(u, i)' <=> Hidden(u, i)
        BY <1>1 DEF Hidden
      <3>3. GapOf(u, i)'
        <4>1. Visible(i, u) => Visible(i, u)'
          <5>1. /\ active' = active /\ (i \in restricted' <=> i \in restricted)
                /\ u \in member' /\ (u \in cleared' <=> u \in cleared)
            BY <1>1, <2>3
          <5> QED
            BY <5>1, Zenon DEF Visible
        <4> QED
          BY <1>1, <1>2, <2>1, <4>1 DEF PairOf, GapOf
      <3>4. LeakOf(u, i)'
        <4>1. u \in member' /\ active' = active /\ LeaksGrow(u, i)
          BY <1>1, <1>5, <2>3
        <4> QED
          BY <1>2, <4>1, Zenon DEF PairOf, LeakOf, LeaksGrow
      <3>5. HiddenOf(u, i)'
        BY <1>1, <1>2, <1>5, <2>1, <3>2, HiddenStays DEF PairOf
      <3>6. EndOf(u, i)' /\ DeadOf(u, i)'
        <4>1. (Dead(i)' => Dead(i)) /\ (<<i, u>> \notin leaks' \cup owed' => <<i, u>> \notin owed)
          BY <1>1, <2>1 DEF Dead
        <4> QED
          BY <1>2, <1>5, <3>2, <4>1, DeadStays DEF PairOf
      <3> QED
        BY <3>1, <3>3, <3>4, <3>5, <3>6 DEF RightsOf
    <2> QED
      BY <2>2, <2>3
  <1> QED
    BY <1>1, <1>3, <1>4, <1>5, <1>6, RightsStep

-----------------------------------------------------------------------------
(* The commands on the whole project append an action for every work item. *)
LEMMA FiniteCover ==
    ASSUME NEW S, IsFiniteSet(S), NEW U, NEW f \in [S -> U], NEW T, T \subseteq {f[x] : x \in S}
    PROVE  IsFiniteSet(T)
  <1> DEFINE I == {f[x] : x \in S}
  <1>1. f \in Surjection(S, I)
    BY DEF Surjection
  <1>2. IsFiniteSet(I)
    <2> HIDE DEF I
    <2> QED
      BY <1>1, FS_Surjection
  <1> QED
    BY <1>2, FS_Subset

LEMMA ListOfSet ==
    ASSUME NEW S, IsFiniteSet(S), NEW rows \in SetToSeqs(S)
    PROVE  rows \in Seq(S)
  <1>1. Cardinality(S) \in Nat
    BY FS_CardinalityType
  <1>2. rows \in [1..Cardinality(S) -> S]
    BY DEF SetToSeqs
  <1> QED
    BY <1>1, <1>2

(* Actions of the log as it was are actions of the log as it will be. *)
LEMMA AppendedMany ==
    ASSUME LogType, NEW S, S \subseteq Actions, NEW entries \in Seq(S), AppendTo(entries)
    PROVE  /\ Grows /\ LogType'
           /\ \A s \in (HeadSeq + 1)..HeadSeq' : log'[s] \in S
  <1>1. log' = log \o entries /\ HeadSeq \in Nat /\ Len(entries) \in Nat
    BY DEF AppendTo, LogType, HeadSeq
  <1>2. HeadSeq' = HeadSeq + Len(entries)
    BY <1>1 DEF LogType, HeadSeq
  <1>3. S \subseteq Actions'
    <2>1. 0..HeadSeq \subseteq 0..HeadSeq'
      BY <1>1, <1>2
    <2>2. Actions \subseteq Actions'
      BY <2>1 DEF Actions
    <2> QED
      BY <2>2
  <1>4. entries \in Seq(Actions')
    <2> HIDE DEF Actions
    <2>1. \A k \in 1..Len(entries) : entries[k] \in Actions'
      BY <1>3
    <2> QED
      BY <2>1
  <1>5. Grows /\ LogType' /\ \A k \in 1..Len(entries) : log'[HeadSeq + k] = entries[k]
    BY <1>4, Appended
  <1>6. ASSUME NEW s \in (HeadSeq + 1)..HeadSeq' PROVE log'[s] \in S
    <2>1. s - HeadSeq \in 1..Len(entries) /\ HeadSeq + (s - HeadSeq) = s
      BY <1>1, <1>2
    <2>2. log'[s] = entries[s - HeadSeq]
      BY <1>5, <2>1
    <2> QED
      BY <2>1, <2>2
  <1> QED
    BY <1>5, <1>6

LEMMA StoredIsFinite ==
    ASSUME TableType
    PROVE  IsFiniteSet(Stored)
  <1>1. Stored \in SUBSET Issues
    BY DEF Stored
  <1> QED
    BY <1>1, IssueAssumption, FS_Subset

LEMMA DeletesAreActions ==
    ASSUME LogType, TableType
    PROVE  /\ IsFiniteSet({Delete(i) : i \in Stored})
           /\ {Delete(i) : i \in Stored} \subseteq Actions
  <1> DEFINE f == [i \in Stored |-> Delete(i)]
  <1>1. f \in [Stored -> {Delete(i) : i \in Stored}]
    OBVIOUS
  <1>2. {Delete(i) : i \in Stored} \subseteq {f[i] : i \in Stored}
    OBVIOUS
  <1>3. IsFiniteSet({Delete(i) : i \in Stored})
    <2> HIDE DEF f
    <2> QED
      BY <1>1, <1>2, StoredIsFinite, FiniteCover
  <1>4. 0 \in 0..HeadSeq
    BY DEF LogType, HeadSeq
  <1>5. \A i \in Stored : Delete(i) \in Actions
    BY <1>4 DEF Delete, Entry, Actions, Stored
  <1> QED
    BY <1>3, <1>5

LEMMA UpsertsAreActions ==
    ASSUME LogType, TableType
    PROVE  /\ IsFiniteSet({Upsert(i, content[i]) : i \in Stored})
           /\ {Upsert(i, content[i]) : i \in Stored} \subseteq Actions
  <1> DEFINE f == [i \in Stored |-> Upsert(i, content[i])]
  <1>1. f \in [Stored -> {Upsert(i, content[i]) : i \in Stored}]
    OBVIOUS
  <1>2. {Upsert(i, content[i]) : i \in Stored} \subseteq {f[i] : i \in Stored}
    OBVIOUS
  <1>3. IsFiniteSet({Upsert(i, content[i]) : i \in Stored})
    <2> HIDE DEF f
    <2> QED
      BY <1>1, <1>2, StoredIsFinite, FiniteCover
  <1>4. \A i \in Stored : i \in Issues /\ content[i] \in 0..HeadSeq
    BY DEF Stored, TableType
  <1>5. \A i \in Stored : Upsert(i, content[i]) \in Actions
    BY <1>4 DEF Upsert, Entry, Actions
  <1> QED
    BY <1>3, <1>5

LEMMA DetailsAreActions ==
    ASSUME LogType, TableType
    PROVE  IsFiniteSet(Details) /\ Details \subseteq Actions
  <1> DEFINE S == Stored \X (1..HeadSeq)
             f == [p \in S |-> Comment(p[1], p[2])]
             U == {Comment(p[1], p[2]) : p \in S}
  <1>1. HeadSeq \in Nat
    BY DEF LogType, HeadSeq
  <1>2. IsFiniteSet(S)
    <2>1. 1 \in Int /\ HeadSeq \in Int
      BY <1>1
    <2>2. IsFiniteSet(1..HeadSeq)
      BY <2>1, FS_Interval
    <2> QED
      BY <2>2, StoredIsFinite, FS_Product
  <1>3. \A i \in Stored : i \in Issues /\ thread[i] \in SUBSET (1..HeadSeq)
    BY DEF Stored, TableType
  <1>4. ASSUME NEW d \in Details PROVE \E p \in S : d = Comment(p[1], p[2])
    <2>1. PICK i \in Stored : d \in {Comment(i, c) : c \in thread[i]}
      BY DEF Details
    <2>2. PICK c \in thread[i] : d = Comment(i, c)
      BY <2>1
    <2>3. <<i, c>> \in S
      BY <1>3, <2>1, <2>2
    <2> QED
      BY <2>2, <2>3
  <1>5. IsFiniteSet(Details)
    <2>1. f \in [S -> U]
      OBVIOUS
    <2>2. \A p \in S : f[p] = Comment(p[1], p[2])
      OBVIOUS
    <2>3. Details \subseteq {f[p] : p \in S}
      <3> HIDE DEF f
      <3> QED
        BY <1>4, <2>2
    <2> HIDE DEF f, S, U
    <2> QED
      BY <1>2, <2>1, <2>3, FiniteCover
  <1>6. \A p \in S : Comment(p[1], p[2]) \in Actions
    <2>1. \A p \in S : p[1] \in Issues /\ p[2] \in 0..HeadSeq
      BY <1>3, <1>1
    <2> HIDE DEF S
    <2> QED
      BY <2>1 DEF Comment, Entry, Actions
  <1> QED
    BY <1>4, <1>5, <1>6

LEMMA ArchiveProjectStep ==
    ASSUME IInv, ArchiveProject
    PROVE  IInv'
  <1>1. /\ active' = FALSE
        /\ gaps' = Pairs /\ leaks' = Pairs
        /\ UNCHANGED <<state, content, thread, restricted, cleared, member, restricting, owed>>
        /\ ClientSame
    BY DEF ArchiveProject, access, command, replica, request, ClientSame
  <1>2. PICK rows \in SetToSeqs({Delete(i) : i \in Stored}) : AppendTo(rows)
    BY DEF ArchiveProject
  <1>3. /\ LogType /\ TableType /\ SetType /\ ReplicaType /\ RequestType
        /\ LogInv /\ \A u \in Users : WindowOf(u)
        /\ \A u \in Users, i \in Issues : PairOf(u, i)
    BY InvParts
  <1>4. /\ Grows /\ LogType'
        /\ \A s \in (HeadSeq + 1)..HeadSeq' : log'[s] \in {Delete(i) : i \in Stored}
    BY <1>2, <1>3, DeletesAreActions, ListOfSet, AppendedMany
  <1>5. TypeOK'
    <2>1. 0..HeadSeq \subseteq 0..HeadSeq' /\ 1..HeadSeq \subseteq 1..HeadSeq'
      BY <1>4 DEF Grows
    <2>2. TableType'
      BY <1>1, <1>3, <2>1 DEF TableType
    <2>3. SetType'
      BY <1>1, <1>3 DEF SetType, Pairs
    <2>4. FlagType'
      BY <1>1 DEF FlagType
    <2>5. ReplicaType' /\ RequestType'
      BY <1>1, <1>3, <1>4, ClientTypeStays
    <2> QED
      BY <1>4, <2>2, <2>3, <2>4, <2>5, TypePartsAfter
  <1>6. LogInv'
    <2>1. ASSUME NEW s \in (HeadSeq + 1)..HeadSeq' PROVE LogOf(s)'
      <3>1. PICK i \in Stored : log'[s] = Delete(i)
        BY <1>4
      <3>2. /\ state'[i] # "none" /\ log'[s].issue = i
            /\ log'[s].ver = 0 /\ log'[s].op = "delete"
        BY <1>1, <3>1 DEF Stored, Delete, Entry
      <3> QED
        BY <3>2 DEF LogOf, Sound
    <2> QED
      BY <1>1, <1>3, <1>4, <2>1, LogStays
  <1>7. \A u \in Users : SameCopy(u) /\ opened'[u] = opened[u]
    BY <1>1, ClientStays
  <1>8. \A u \in Users : WindowOf(u)'
    BY <1>3, <1>7, WindowStays
  <1>9. ASSUME NEW u \in Users, NEW i \in Issues PROVE PairOf(u, i)'
    <2>1. <<i, u>> \in gaps' /\ <<i, u>> \in leaks'
      BY <1>1 DEF Pairs
    <2>2. NoneOf(u, i)'
      BY <1>1, <1>3, <1>7, NoneStays DEF PairOf
    <2>3. OwedOf(u, i)'
      BY <1>1, <1>3 DEF PairOf, OwedOf
    <2>4. GapOf(u, i)' /\ LeakOf(u, i)' /\ TableOf(u, i)' /\ PrefixOf(u, i)' /\ PageOf(u, i)'
      BY <2>1 DEF GapOf, LeakOf, TableOf, PrefixOf, PageOf
    <2>5. HiddenOf(u, i)' /\ EndOf(u, i)' /\ DeadOf(u, i)'
      BY <2>1 DEF HiddenOf, EndOf, DeadOf
    <2> QED
      BY <2>2, <2>3, <2>4, <2>5 DEF PairOf
  <1> QED
    BY <1>5, <1>6, <1>8, <1>9 DEF IInv

(* What restoring a project republishes is about stored work items, and    *)
(* none of it is a wipe.                                                   *)
LEMMA RepublishedIsStored ==
    ASSUME LogType, TableType,
           NEW e \in {Upsert(i, content[i]) : i \in Stored} \cup Details
    PROVE  e.issue \in Stored /\ ~IsWipe(e) /\ Sound(e)
  <1>1. CASE e \in {Upsert(i, content[i]) : i \in Stored}
    BY <1>1 DEF Upsert, Entry, Sound, IsWipe
  <1>2. CASE e \in Details
    <2>1. PICK i \in Stored : e \in {Comment(i, c) : c \in thread[i]}
      BY <1>2 DEF Details
    <2>2. PICK c \in thread[i] : e = Comment(i, c)
      BY <2>1
    <2>3. c # 0
      BY <2>2 DEF TableType, Stored
    <2> QED
      BY <2>2, <2>3 DEF Comment, Entry, Sound, IsWipe
  <1> QED
    BY <1>1, <1>2

LEMMA RestoreProjectStep ==
    ASSUME IInv, RestoreProject
    PROVE  IInv'
  <1> DEFINE S == {Upsert(i, content[i]) : i \in Stored}
  <1>1. /\ active' = TRUE
        /\ UNCHANGED <<state, content, thread, restricted, cleared, member, restricting, owed>>
        /\ UNCHANGED <<gaps, leaks>> /\ ClientSame
    BY DEF RestoreProject, access, command, replica, request, history, ClientSame
  <1>2. ~active
    BY DEF RestoreProject
  <1>3. /\ LogType /\ TableType /\ SetType /\ ReplicaType /\ RequestType
        /\ LogInv /\ \A u \in Users : WindowOf(u)
        /\ \A u \in Users, i \in Issues : PairOf(u, i)
    BY InvParts
  <1>4. /\ Grows /\ LogType'
        /\ \A s \in (HeadSeq + 1)..HeadSeq' : log'[s] \in S \cup Details
    <2>1. PICK rows \in SetToSeqs(S) : \E details \in SetToSeqs(Details) : AppendTo(rows \o details)
      BY DEF RestoreProject
    <2>2. PICK details \in SetToSeqs(Details) : AppendTo(rows \o details)
      BY <2>1
    <2>3. IsFiniteSet(S) /\ S \subseteq Actions /\ IsFiniteSet(Details) /\ Details \subseteq Actions
      BY <1>3, UpsertsAreActions, DetailsAreActions
    <2> HIDE DEF S
    <2>4. rows \in Seq(S) /\ details \in Seq(Details)
      BY <2>1, <2>2, <2>3, ListOfSet
    <2>5. rows \o details \in Seq(S \cup Details)
      <3>1. rows \in Seq(S \cup Details) /\ details \in Seq(S \cup Details)
        BY <2>4
      <3> QED
        BY <3>1
    <2>6. S \cup Details \subseteq Actions
      BY <2>3
    <2> QED
      BY <1>3, <2>2, <2>5, <2>6, AppendedMany
  <1>5. \A s \in (HeadSeq + 1)..HeadSeq' :
            log'[s].issue \in Stored /\ ~IsWipe(log'[s]) /\ Sound(log'[s])
    BY <1>3, <1>4, RepublishedIsStored
  <1>6. TypeOK'
    <2>1. 0..HeadSeq \subseteq 0..HeadSeq' /\ 1..HeadSeq \subseteq 1..HeadSeq'
      BY <1>4 DEF Grows
    <2>2. TableType'
      BY <1>1, <1>3, <2>1 DEF TableType
    <2>3. SetType'
      BY <1>1, <1>3 DEF SetType, Pairs
    <2>4. FlagType'
      BY <1>1 DEF FlagType
    <2>5. ReplicaType' /\ RequestType'
      BY <1>1, <1>3, <1>4, ClientTypeStays
    <2> QED
      BY <1>4, <2>2, <2>3, <2>4, <2>5, TypePartsAfter
  <1>7. LogInv'
    <2>1. \A s \in (HeadSeq + 1)..HeadSeq' : LogOf(s)'
      BY <1>1, <1>5 DEF LogOf, Stored
    <2> QED
      BY <1>1, <1>3, <1>4, <2>1, LogStays
  <1>8. \A u \in Users : SameCopy(u) /\ opened'[u] = opened[u]
    BY <1>1, ClientStays
  <1>9. \A u \in Users : WindowOf(u)'
    BY <1>3, <1>8, WindowStays
  <1>10. ASSUME NEW u \in Users, NEW i \in Issues PROVE PairOf(u, i)'
    <2>1. <<i, u>> \in leaks'
      <3>1. <<i, u>> \notin leaks => active
        BY <1>3, Zenon DEF PairOf, LeakOf
      <3> QED
        BY <1>1, <1>2, <3>1
    <2>2. <<i, u>> \notin gaps /\ state[i] # "none" => FALSE
      <3>1. ~Visible(i, u)
        BY <1>2, Zenon DEF Visible
      <3> QED
        BY <1>3, <3>1 DEF PairOf, GapOf
    <2>3. NoneOf(u, i)'
      BY <1>1, <1>3, <1>8, NoneStays DEF PairOf
    <2>4. OwedOf(u, i)'
      BY <1>1, <1>3 DEF PairOf, OwedOf
    <2>5. GapOf(u, i)'
      BY <1>1, <2>2 DEF GapOf
    <2>6. GapsGrow(u, i)
      BY <1>1 DEF GapsGrow
    <2>7. TableOf(u, i)'
      <3>1. CASE <<i, u>> \in gaps
        BY <1>1, <3>1 DEF TableOf
      <3>2. CASE <<i, u>> \notin gaps
        <4>1. NothingNew(u, i)
          BY <1>5, <2>2, <3>2 DEF NothingNew, Stored
        <4>2. SameRows(i)
          BY <1>1 DEF SameRows
        <4> QED
          BY <1>3, <1>4, <2>6, <4>1, <4>2, TableStays DEF PairOf
      <3> QED
        BY <3>1, <3>2
    <2>8. PrefixOf(u, i)' /\ PageOf(u, i)'
      BY <1>3, <1>4, <1>8, <2>6, CopyStays DEF PairOf
    <2>9. LeakOf(u, i)' /\ HiddenOf(u, i)' /\ EndOf(u, i)' /\ DeadOf(u, i)'
      BY <2>1 DEF LeakOf, HiddenOf, EndOf, DeadOf
    <2> QED
      BY <2>3, <2>4, <2>5, <2>7, <2>8, <2>9 DEF PairOf
  <1> QED
    BY <1>6, <1>7, <1>9, <1>10 DEF IInv

-----------------------------------------------------------------------------
(* The steps of one replica: the server stays as it is. *)
SameServer == UNCHANGED <<log, state, content, thread, active, restricted, cleared, member,
                          restricting, owed, gaps>>

OtherCopies(u) == \A v \in Users \ {u} : SameCopy(v) /\ opened'[v] = opened[v]

CopyOf(u, i) == NoneOf(u, i) /\ PrefixOf(u, i) /\ PageOf(u, i) /\ HiddenOf(u, i) /\ DeadOf(u, i)

LEMMA ClientStep ==
    ASSUME IInv, NEW u \in Users, SameServer, OtherCopies(u),
           leaks' \in SUBSET Pairs, leaks \subseteq leaks', ReplicaType', RequestType',
           WindowOf(u)', \A i \in Issues : CopyOf(u, i)'
    PROVE  IInv'
  <1>1. /\ LogType /\ TableType /\ FlagType /\ SetType /\ ReplicaType /\ RequestType
        /\ LogInv /\ \A v \in Users : WindowOf(v)
        /\ \A v \in Users, i \in Issues : PairOf(v, i)
    BY InvParts
  <1>2. Grows /\ LogType' /\ HeadSeq' = HeadSeq
    BY <1>1, SameLogGrows DEF SameServer
  <1>3. TypeOK'
    <2>1. TableType'
      BY <1>1, <1>2 DEF TableType, SameServer
    <2>2. SetType'
      BY <1>1 DEF SetType, SameServer, Pairs
    <2>3. FlagType'
      BY <1>1, Zenon DEF FlagType, SameServer
    <2> QED
      BY <1>2, <2>1, <2>2, <2>3, TypePartsAfter
  <1>4. \A s : ~(s \in (HeadSeq + 1)..HeadSeq')
    BY <1>2 DEF Grows
  <1>5. LogInv'
    BY <1>1, <1>2, <1>4, LogStays DEF SameServer
  <1>6. \A v \in Users, i \in Issues :
            /\ GapsGrow(v, i) /\ LeaksGrow(v, i)
            /\ SameRows(i) /\ SameCommand(v, i)
            /\ NothingNew(v, i) /\ OnlyWipes(i)
    BY <1>4 DEF SameServer, GapsGrow, LeaksGrow, SameRows, SameCommand, NothingNew, OnlyWipes
  <1>7. \A v \in Users, i \in Issues : SameAccess(v, i)
    BY DEF SameServer, SameAccess
  <1>8. \A v \in Users : WindowOf(v)'
    BY <1>1, WindowStays DEF OtherCopies
  <1>9. ASSUME NEW v \in Users \ {u}, NEW i \in Issues PROVE PairOf(v, i)'
    <2>1. Aside(v, i)
      BY <1>2, <1>6, <1>7 DEF Aside, OtherCopies
    <2> QED
      BY <1>1, <2>1, AsideStays
  <1>10. ASSUME NEW i \in Issues PROVE PairOf(u, i)'
    <2>1. (Visible(i, u)' <=> Visible(i, u)) /\ state'[i] = state[i]
      BY <1>6, <1>7, VisibleStays DEF SameRows
    <2>2. OwedOf(u, i)'
      BY <1>1, <1>6, <2>1 DEF PairOf, OwedOf, SameCommand
    <2>3. GapOf(u, i)'
      BY <1>1, <1>6, <2>1 DEF PairOf, GapOf, GapsGrow
    <2>4. LeakOf(u, i)'
      <3>1. LeaksGrow(u, i) /\ SameAccess(u, i) /\ LeakOf(u, i)
        BY <1>1, <1>6, <1>7 DEF PairOf
      <3> QED
        BY <3>1, Zenon DEF LeakOf, LeaksGrow, SameAccess
    <2>5. TableOf(u, i)'
      BY <1>1, <1>2, <1>6, TableStays DEF PairOf
    <2>6. EndOf(u, i)'
      <3>1. log' = log
        BY DEF SameServer
      <3> QED
        BY <1>1, <1>6, <2>1, <3>1 DEF PairOf, EndOf, Dead, LeaksGrow
    <2> QED
      BY <2>2, <2>3, <2>4, <2>5, <2>6 DEF PairOf, CopyOf
  <1> QED
    BY <1>3, <1>5, <1>8, <1>9, <1>10 DEF IInv

(* A step that keeps what is to come, for any wipes, keeps both promises. *)
KeepsCleared(u, i) == \A W : Cleared(u, i, W) => Cleared(u, i, W)'

LEMMA KeepsBoth ==
    ASSUME SameServer, NEW u \in Users, NEW i \in Issues, leaks \subseteq leaks',
           KeepsCleared(u, i), HiddenOf(u, i), DeadOf(u, i)
    PROVE  HiddenOf(u, i)' /\ DeadOf(u, i)'
  <1>1. log' = log
    BY DEF SameServer
  <1>2. Cleared(u, i, Tombstones(log, u, i)) => Cleared(u, i, Tombstones(log, u, i))'
    BY <1>1 DEF KeepsCleared, Cleared
  <1>3. Cleared(u, i, Ends(log, u, i)) => Cleared(u, i, Ends(log, u, i))'
    BY <1>1 DEF KeepsCleared, Cleared
  <1> QED
    BY <1>2, <1>3 DEF SameServer, HiddenOf, DeadOf, Hidden, Dead

LEMMA OpenPageStep ==
    ASSUME IInv, NEW u \in Users, NEW k \in Issues, OpenPage(u, k)
    PROVE  IInv'
  <1>1. /\ state[k] = "live" /\ opened' = [opened EXCEPT ![u] = @ \cup {k}]
        /\ SameServer /\ leaks' = leaks
        /\ UNCHANGED <<rep, repThread, cp, phase, to, got, snap>>
    BY DEF OpenPage, server, tables, access, command, replica, request, history, SameServer
  <1>2. /\ SetType /\ ReplicaType /\ RequestType
        /\ LogType /\ WindowOf(u)
        /\ \A i \in Issues : PairOf(u, i)
    BY InvParts
  <1>3. Grows /\ HeadSeq' = HeadSeq
    BY <1>1, <1>2, SameLogGrows DEF SameServer
  <1>4. ReplicaType'
    BY <1>1, <1>2, <1>3 DEF ReplicaType
  <1>5. RequestType'
    BY <1>1, <1>2, <1>3 DEF RequestType, Snapshots
  <1>6. /\ OtherCopies(u) /\ SameCopy(u)
    BY <1>1, <1>2 DEF OtherCopies, SameCopy, RequestType
  <1>7. \A i \in Issues : GapsGrow(u, i)
    BY <1>1 DEF SameServer, GapsGrow
  <1>8. ASSUME NEW i \in Issues PROVE CopyOf(u, i)'
    <2>1. NoneOf(u, i)'
      <3>1. i \in opened'[u] => i \in opened[u] \/ i = k
        BY <1>1, <1>2 DEF RequestType
      <3> QED
        BY <1>1, <1>2, <3>1 DEF PairOf, NoneOf, Untouched, SameServer
    <2>2. PrefixOf(u, i)' /\ PageOf(u, i)'
      BY <1>2, <1>3, <1>6, <1>7, CopyStays DEF PairOf
    <2>3. KeepsCleared(u, i)
      BY <1>1 DEF KeepsCleared, Cleared, SameServer
    <2>4. HiddenOf(u, i)' /\ DeadOf(u, i)'
      BY <1>1, <1>2, <2>3, KeepsBoth DEF PairOf
    <2> QED
      BY <2>1, <2>2, <2>4 DEF CopyOf
  <1>9. WindowOf(u)'
    BY <1>2, <1>6, WindowStays
  <1>10. leaks' \in SUBSET Pairs /\ leaks \subseteq leaks'
    BY <1>1, <1>2 DEF SetType
  <1> QED
    BY <1>1, <1>4, <1>5, <1>6, <1>8, <1>9, <1>10, ClientStep

(* Nothing has been read up to 0. *)
LEMMA NothingRead ==
    ASSUME NEW l, NEW u, NEW i
    PROVE  RowOf(l, 0, Own(l, u, 0), i) = 0 /\ ThreadOf(l, {}, Own(l, u, 0), i) = {}
  <1>1. Own(l, u, 0) = {}
    BY DEF Own
  <1>2. RowReads(l, Own(l, u, 0), i) = {} /\ CommentReads(l, Own(l, u, 0), i) = {}
    BY <1>1 DEF RowReads, CommentReads
  <1> QED
    BY <1>2 DEF RowOf, ThreadOf

(* The request of u is over, answered or not. *)
LEMMA NothingAsked ==
    ASSUME RequestType, HeadSeq' = HeadSeq, HeadSeq \in Nat, NEW u \in Users,
           phase' = [phase EXCEPT ![u] = "idle"], to' = [to EXCEPT ![u] = 0],
           got' = [got EXCEPT ![u] = {}], snap' = [snap EXCEPT ![u] = NoSnapshot],
           opened' = opened
    PROVE  RequestType'
  <1>1. NoSnapshot \in Snapshots /\ Snapshots' = Snapshots
    BY DEF NoSnapshot, Snapshots, NoRows, NoThreads
  <1>2. snap' \in [Users -> Snapshots']
    BY <1>1 DEF RequestType
  <1>3. to' \in [Users -> 0..HeadSeq'] /\ got' \in [Users -> SUBSET (1..HeadSeq')]
    BY DEF RequestType
  <1> QED
    BY <1>2, <1>3 DEF RequestType

LEMMA SeedViewStep ==
    ASSUME IInv, NEW u \in Users, NEW k \in Issues, SeedView(u, k)
    PROVE  IInv'
  <1>1. /\ k \in opened[u] /\ rep[u][k] = 0
        /\ rep' = [rep EXCEPT ![u][k] = Seed]
        /\ UNCHANGED <<repThread, cp, phase, to, got, snap, opened>>
        /\ SameServer
    BY DEF SeedView, server, tables, access, command, replica, request, history, SameServer
  <1>2. /\ LogType /\ SetType /\ ReplicaType /\ RequestType /\ LogInv /\ WindowOf(u)
        /\ \A i \in Issues : PairOf(u, i)
    BY InvParts
  <1>3. Grows /\ HeadSeq' = HeadSeq /\ HeadSeq \in Nat
    BY <1>1, <1>2, SameLogGrows DEF SameServer, Grows
  <1>9. leaks' \in SUBSET Pairs /\ leaks \subseteq leaks'
    <2>1. leaks' = leaks \/ leaks' = leaks \cup {<<k, u>>}
      BY DEF SeedView
    <2> QED
      BY <1>2, <2>1 DEF SetType, Pairs
  <1>10. <<k, u>> \in leaks' \/ (state[k] = "live" /\ ~Hidden(u, k))
    <2>1. CASE state[k] = "live" /\ Visible(k, u)
      BY <2>1 DEF Visible, Hidden
    <2>2. CASE ~(state[k] = "live" /\ Visible(k, u))
      BY <2>2 DEF SeedView
    <2> QED
      BY <2>1, <2>2
  <1>4. ReplicaType'
    BY <1>1, <1>2, <1>3 DEF ReplicaType
  <1>5. RequestType'
    BY <1>1, <1>2, <1>3 DEF RequestType, Snapshots
  <1>6. OtherCopies(u)
    BY <1>1, <1>2 DEF OtherCopies, SameCopy, ReplicaType
  <1>7. WindowOf(u)'
    BY <1>1, <1>2 DEF WindowOf, NoThreads
  <1>8. ASSUME NEW i \in Issues PROVE CopyOf(u, i)'
    <2>1. rep'[u][i] = IF i = k THEN Seed ELSE rep[u][i]
      BY <1>1, <1>2 DEF ReplicaType
    <2>2. NoneOf(u, i)'
      BY <1>1, <1>2, <2>1 DEF PairOf, NoneOf, Untouched, SameServer
    <2>3. PrefixOf(u, i)'
      <3>1. Seed # 0
        BY SeedAssumption
      <3> QED
        BY <1>1, <1>2, <2>1, <3>1 DEF PairOf, PrefixOf, SameServer
    <2>4. PageOf(u, i)'
      BY <1>1, <1>2 DEF PairOf, PageOf, SameServer, HeadSeq
    <2>5. CASE i # k
      <3>1. KeepsCleared(u, i)
        BY <1>1, <2>1, <2>5 DEF KeepsCleared, Cleared, SameServer
      <3>2. HiddenOf(u, i)' /\ DeadOf(u, i)'
        BY <1>1, <1>2, <1>9, <3>1, KeepsBoth DEF PairOf
      <3> QED
        BY <2>2, <2>3, <2>4, <3>2 DEF CopyOf
    <2>6. CASE i = k
      <3>1. <<i, u>> \in leaks' \/ (state[i] = "live" /\ ~Hidden(u, i))
        BY <1>10, <2>6
      <3>2. HiddenOf(u, i)' /\ DeadOf(u, i)'
        BY <1>1, <3>1 DEF SameServer, HiddenOf, DeadOf, Hidden, Dead
      <3> QED
        BY <2>2, <2>3, <2>4, <3>2 DEF CopyOf
    <2> QED
      BY <2>5, <2>6
  <1> QED
    BY <1>1, <1>4, <1>5, <1>6, <1>7, <1>8, <1>9, ClientStep

LEMMA LoseReplyStep ==
    ASSUME IInv, NEW u \in Users, LoseReply(u)
    PROVE  IInv'
  <1>1. /\ phase' = [phase EXCEPT ![u] = "idle"] /\ to' = [to EXCEPT ![u] = 0]
        /\ got' = [got EXCEPT ![u] = {}] /\ snap' = [snap EXCEPT ![u] = NoSnapshot]
        /\ UNCHANGED <<rep, repThread, cp, opened, leaks>>
        /\ SameServer
    BY DEF LoseReply, server, tables, access, command, replica, request, history, SameServer
  <1>2. /\ LogType /\ SetType /\ ReplicaType /\ RequestType /\ LogInv /\ WindowOf(u)
        /\ \A i \in Issues : PairOf(u, i)
    BY InvParts
  <1>3. Grows /\ HeadSeq' = HeadSeq /\ HeadSeq \in Nat
    BY <1>1, <1>2, SameLogGrows DEF SameServer, Grows
  <1>9. leaks' \in SUBSET Pairs /\ leaks \subseteq leaks'
    BY <1>1, <1>2 DEF SetType
  <1>4. ReplicaType'
    BY <1>1, <1>2, <1>3 DEF ReplicaType
  <1>5. RequestType'
    BY <1>1, <1>2, <1>3, NothingAsked
  <1>6. OtherCopies(u)
    BY <1>1, <1>2 DEF OtherCopies, SameCopy, RequestType
  <1>10. phase'[u] = "idle" /\ snap'[u] = NoSnapshot
    BY <1>1, <1>2 DEF RequestType
  <1>7. WindowOf(u)'
    BY <1>1, <1>2, <1>10 DEF WindowOf, NoThreads
  <1>8. ASSUME NEW i \in Issues PROVE CopyOf(u, i)'
    <2>1. NoneOf(u, i)'
      BY <1>1, <1>2, <1>10 DEF PairOf, NoneOf, Untouched, SameServer, NoSnapshot, NoRows, NoThreads
    <2>2. PrefixOf(u, i)'
      BY <1>1, <1>2 DEF PairOf, PrefixOf, SameServer
    <2>3. PageOf(u, i)'
      BY <1>10 DEF PageOf
    <2>4. KeepsCleared(u, i)
      BY <1>1, <1>10 DEF KeepsCleared, Cleared
    <2>5. HiddenOf(u, i)' /\ DeadOf(u, i)'
      BY <1>1, <1>2, <1>9, <2>4, KeepsBoth DEF PairOf
    <2> QED
      BY <2>1, <2>2, <2>3, <2>5 DEF CopyOf
  <1> QED
    BY <1>1, <1>4, <1>5, <1>6, <1>7, <1>8, <1>9, ClientStep

LEMMA PurgeStep ==
    ASSUME IInv, NEW u \in Users, Purge(u)
    PROVE  IInv'
  <1>1. /\ phase[u] = "idle" /\ u \notin member
        /\ rep' = [rep EXCEPT ![u] = NoRows]
        /\ repThread' = [repThread EXCEPT ![u] = NoThreads]
        /\ cp' = [cp EXCEPT ![u] = 0] /\ opened' = [opened EXCEPT ![u] = {}]
        /\ UNCHANGED <<phase, to, got, snap, leaks>>
        /\ SameServer
    BY DEF Purge, server, tables, access, command, replica, request, history, SameServer
  <1>2. /\ LogType /\ SetType /\ ReplicaType /\ RequestType /\ LogInv /\ WindowOf(u)
        /\ \A i \in Issues : PairOf(u, i)
    BY InvParts
  <1>3. Grows /\ HeadSeq' = HeadSeq /\ HeadSeq \in Nat
    BY <1>1, <1>2, SameLogGrows DEF SameServer, Grows
  <1>9. leaks' \in SUBSET Pairs /\ leaks \subseteq leaks'
    BY <1>1, <1>2 DEF SetType
  <1>4. ReplicaType'
    BY <1>1, <1>2, <1>3 DEF ReplicaType, NoRows, NoThreads
  <1>5. RequestType'
    BY <1>1, <1>2, <1>3 DEF RequestType, Snapshots
  <1>6. OtherCopies(u)
    BY <1>1, <1>2 DEF OtherCopies, SameCopy, ReplicaType, RequestType
  <1>10. /\ phase'[u] = "idle" /\ cp'[u] = 0 /\ opened'[u] = {}
         /\ rep'[u] = NoRows /\ repThread'[u] = NoThreads
    BY <1>1, <1>2 DEF ReplicaType, RequestType
  <1>7. WindowOf(u)'
    BY <1>10 DEF WindowOf, NoThreads
  <1>8. ASSUME NEW i \in Issues PROVE CopyOf(u, i)'
    <2>1. NoneOf(u, i)'
      BY <1>1, <1>2, <1>10 DEF PairOf, NoneOf, Untouched, SameServer, NoRows, NoThreads
    <2>2. PrefixOf(u, i)'
      BY <1>10, NothingRead DEF PrefixOf, NoRows, NoThreads
    <2>3. PageOf(u, i)'
      BY <1>10 DEF PageOf
    <2>4. <<i, u>> \in leaks'
      BY <1>1, <1>2 DEF PairOf, LeakOf
    <2>5. HiddenOf(u, i)' /\ DeadOf(u, i)'
      BY <2>4 DEF HiddenOf, DeadOf
    <2> QED
      BY <2>1, <2>2, <2>3, <2>5 DEF CopyOf
  <1> QED
    BY <1>1, <1>4, <1>5, <1>6, <1>7, <1>8, <1>9, ClientStep

LEMMA RequestPageStep ==
    ASSUME IInv, NEW u \in Users, RequestPage(u)
    PROVE  IInv'
  <1>1. /\ phase[u] = "idle" /\ cp[u] < HeadSeq
        /\ to' = [to EXCEPT ![u] = Smaller(cp[u] + Limit, HeadSeq)]
        /\ phase' = [phase EXCEPT ![u] = "page"]
        /\ UNCHANGED <<rep, repThread, cp, got, snap, opened, leaks>>
        /\ SameServer
    BY DEF RequestPage, server, tables, access, command, replica, request, history, SameServer
  <1>2. /\ LogType /\ SetType /\ ReplicaType /\ RequestType /\ LogInv /\ WindowOf(u)
        /\ \A i \in Issues : PairOf(u, i)
    BY InvParts
  <1>3. Grows /\ HeadSeq' = HeadSeq /\ HeadSeq \in Nat
    BY <1>1, <1>2, SameLogGrows DEF SameServer, Grows
  <1>9. leaks' \in SUBSET Pairs /\ leaks \subseteq leaks'
    BY <1>1, <1>2 DEF SetType
  <1>10. /\ Smaller(cp[u] + Limit, HeadSeq) \in 0..HeadSeq
         /\ cp[u] < Smaller(cp[u] + Limit, HeadSeq)
    <2>1. cp[u] \in 0..HeadSeq /\ Limit \in Nat \ {0}
      BY <1>2, BoundAssumption DEF ReplicaType
    <2> QED
      BY <1>1, <1>3, <2>1 DEF Smaller
  <1>4. ReplicaType'
    BY <1>1, <1>2, <1>3 DEF ReplicaType
  <1>5. RequestType'
    BY <1>1, <1>2, <1>3, <1>10 DEF RequestType, Snapshots
  <1>6. OtherCopies(u)
    BY <1>1, <1>2 DEF OtherCopies, SameCopy, RequestType
  <1>11. phase'[u] = "page" /\ cp[u] < to'[u]
    BY <1>1, <1>2, <1>10 DEF RequestType
  <1>7. WindowOf(u)'
    BY <1>1, <1>2, <1>11 DEF WindowOf, NoThreads
  <1>8. ASSUME NEW i \in Issues PROVE CopyOf(u, i)'
    <2>1. NoneOf(u, i)'
      BY <1>1, <1>2 DEF PairOf, NoneOf, Untouched, SameServer
    <2>2. PrefixOf(u, i)'
      BY <1>1, <1>2 DEF PairOf, PrefixOf, SameServer
    <2>3. PageOf(u, i)'
      BY <1>11 DEF PageOf
    <2>4. KeepsCleared(u, i)
      BY <1>1, <1>11 DEF KeepsCleared, Cleared
    <2>5. HiddenOf(u, i)' /\ DeadOf(u, i)'
      BY <1>1, <1>2, <1>9, <2>4, KeepsBoth DEF PairOf
    <2> QED
      BY <2>1, <2>2, <2>3, <2>5 DEF CopyOf
  <1> QED
    BY <1>1, <1>4, <1>5, <1>6, <1>7, <1>8, <1>9, ClientStep

(* A page that is cut from the log at its boundary reads the wipe that the *)
(* replica waits for, or leaves it to the next page.                       *)
Awaits(u, i, page, w) ==
    /\ w \in 1..HeadSeq /\ log[w].issue = i /\ IsWipe(log[w])
    /\ w > cp[u] \/ Clean(rep[u][i], repThread[u][i])
    /\ w \in (cp[u] + 1)..to[u] => w \in page
    /\ \A s \in page : s > w /\ log[s].issue = i => IsWipe(log[s])

LEMMA PageClears ==
    ASSUME LogType, LogInv, ReplicaType, RequestType, NEW u \in Users, NEW i \in Issues,
           NEW page, page \subseteq (cp[u] + 1)..to[u], NEW W, NEW w \in W,
           Awaits(u, i, page, w)
    PROVE  \/ Clean(RowOf(log, rep[u][i], page, i), ThreadOf(log, repThread[u][i], page, i))
           \/ ToCome(W, to[u])
  <1>1. cp[u] \in 0..HeadSeq /\ to[u] \in 0..HeadSeq /\ HeadSeq \in Nat
    BY ReplicaFacts
  <1>2. page \in SUBSET (1..HeadSeq)
    BY <1>1
  <1>3. \A s \in page : log[s].issue = i /\ IsWipe(log[s]) => log[s].ver = 0
    BY <1>2 DEF LogInv, LogOf, Sound
  <1>4. CASE w > to[u]
    BY <1>4 DEF ToCome
  <1>5. CASE w \in (cp[u] + 1)..to[u]
    <2>1. w \in page /\ log[w].issue = i /\ IsWipe(log[w])
      BY <1>5 DEF Awaits
    <2>2. \A s \in page : s > w /\ log[s].issue = i => IsWipe(log[s])
      BY DEF Awaits
    <2> QED
      BY <1>1, <1>2, <1>3, <2>1, <2>2, ReadsClean
  <1>6. CASE ~(w > to[u]) /\ w \notin (cp[u] + 1)..to[u]
    <2>1. w \in Nat /\ ~(w > cp[u])
      BY <1>1, <1>6 DEF Awaits
    <2>2. \A s \in page : s > w
      BY <1>1, <2>1
    <2>3. /\ Clean(rep[u][i], repThread[u][i])
          /\ \A s \in page : log[s].issue = i => IsWipe(log[s])
      BY <2>1, <2>2 DEF Awaits
    <2> QED
      BY <1>1, <1>2, <1>3, <2>3, ReadsClean
  <1> QED
    BY <1>4, <1>5, <1>6

LEMMA ReadPageStep ==
    ASSUME IInv, NEW u \in Users, ReadPage(u)
    PROVE  IInv'
  <1> DEFINE page == {s \in (cp[u] + 1)..to[u] : Shown(u, s)}
  <1>1. /\ phase[u] = "page" /\ phase' = [phase EXCEPT ![u] = "reply"]
        /\ got' = [got EXCEPT ![u] = page]
        /\ UNCHANGED <<rep, repThread, cp, to, snap, opened, leaks>>
        /\ SameServer
    BY DEF ReadPage, server, tables, access, command, replica, history, SameServer
  <1>2. /\ LogType /\ SetType /\ ReplicaType /\ RequestType /\ LogInv /\ WindowOf(u)
        /\ \A i \in Issues : PairOf(u, i)
    BY InvParts
  <1>3. Grows /\ HeadSeq' = HeadSeq /\ HeadSeq \in Nat
    BY <1>1, <1>2, SameLogGrows DEF SameServer, Grows
  <1>p. cp[u] \in 0..HeadSeq /\ to[u] \in 0..HeadSeq /\ cp[u] < to[u]
    BY <1>1, <1>2 DEF ReplicaType, RequestType, WindowOf
  <1>q. page \subseteq (cp[u] + 1)..to[u] /\ page \in SUBSET (1..HeadSeq)
    BY <1>3, <1>p
  <1>s. \A s \in (cp[u] + 1)..to[u] : s \in page <=> Shown(u, s)
    OBVIOUS
  <1> HIDE DEF page
  <1>9. leaks' \in SUBSET Pairs /\ leaks \subseteq leaks'
    BY <1>1, <1>2 DEF SetType
  <1>4. ReplicaType'
    BY <1>1, <1>2, <1>3 DEF ReplicaType
  <1>5. RequestType'
    BY <1>1, <1>2, <1>3, <1>q DEF RequestType, Snapshots
  <1>6. OtherCopies(u)
    BY <1>1, <1>2 DEF OtherCopies, SameCopy, RequestType
  <1>10. phase'[u] = "reply" /\ got'[u] = page
    BY <1>1, <1>2 DEF RequestType
  <1>7. WindowOf(u)'
    BY <1>1, <1>2, <1>10, <1>p, <1>q DEF WindowOf, NoThreads
  <1>8. ASSUME NEW i \in Issues PROVE CopyOf(u, i)'
    <2>1. NoneOf(u, i)'
      BY <1>1, <1>2 DEF PairOf, NoneOf, Untouched, SameServer
    <2>2. PrefixOf(u, i)'
      BY <1>1, <1>2 DEF PairOf, PrefixOf, SameServer
    <2>v. ASSUME NEW s \in (cp[u] + 1)..to[u], log[s].issue = i
          PROVE  /\ s \in 1..HeadSeq /\ state[i] # "none"
                 /\ Shown(u, s) <=> IF log[s].op = "tombstone" THEN log[s].user = u
                                    ELSE Visible(i, u)
      <3>1. s \in 1..HeadSeq
        BY <1>3, <1>p
      <3> QED
        BY <1>2, <2>v, <3>1 DEF Shown, LogInv, LogOf
    <2>3. PageOf(u, i)'
      <3> SUFFICES ASSUME <<i, u>> \notin gaps, NEW s \in (cp[u] + 1)..to[u],
                          log[s].issue = i
                   PROVE  s \in page <=> s \in Own(log, u, HeadSeq)
        BY <1>1, <1>3, <1>10 DEF PageOf, SameServer
      <3>1. Visible(i, u)
        BY <1>2, <2>v DEF PairOf, GapOf
      <3> QED
        BY <1>s, <2>v, <3>1 DEF Own
    <2>4. ASSUME NEW W, Cleared(u, i, W),
                 \/ Clean(RowOf(log, rep[u][i], page, i), ThreadOf(log, repThread[u][i], page, i))
                 \/ ToCome(W, to[u])
          PROVE  Cleared(u, i, W)'
      BY <1>1, <1>10, <2>4 DEF Cleared, SameServer
    <2>5. HiddenOf(u, i)'
      <3> SUFFICES ASSUME <<i, u>> \notin leaks \cup owed, i \notin restricting,
                          state[i] # "none", Hidden(u, i)
                   PROVE  Cleared(u, i, Tombstones(log, u, i))'
        BY <1>1 DEF HiddenOf, Hidden, SameServer
      <3>1. Cleared(u, i, Tombstones(log, u, i))
        BY <1>2 DEF PairOf, HiddenOf
      <3>2. ~Visible(i, u)
        BY DEF Visible, Hidden
      <3>3. \A s \in page : log[s].issue = i => IsWipe(log[s])
        BY <1>q, <1>s, <2>v, <3>2 DEF IsWipe
      <3>4. CASE Clean(rep[u][i], repThread[u][i])
        <4>1. \A s \in page : log[s].issue = i /\ IsWipe(log[s]) => log[s].ver = 0
          BY <1>2, <1>q DEF LogInv, LogOf, Sound
        <4>2. Clean(RowOf(log, rep[u][i], page, i), ThreadOf(log, repThread[u][i], page, i))
          BY <1>3, <1>q, <3>3, <3>4, <4>1, ReadsClean
        <4> QED
          BY <1>1, <2>4, <3>1, <4>2 DEF Cleared, SameServer
      <3>5. CASE ToCome(Tombstones(log, u, i), cp[u])
        <4>1. PICK w \in Tombstones(log, u, i) : w > cp[u]
          BY <3>5 DEF ToCome
        <4>2. /\ w \in 1..HeadSeq /\ log[w].issue = i
              /\ log[w].op = "tombstone" /\ log[w].user = u
          BY <4>1 DEF Tombstones, Tombstone, Entry, HeadSeq
        <4>3. Awaits(u, i, page, w)
          BY <1>s, <2>v, <3>3, <4>1, <4>2 DEF Awaits, IsWipe
        <4>4. \/ Clean(RowOf(log, rep[u][i], page, i), ThreadOf(log, repThread[u][i], page, i))
              \/ ToCome(Tombstones(log, u, i), to[u])
          BY <1>2, <1>q, <4>1, <4>3, PageClears
        <4> QED
          BY <1>1, <2>4, <3>1, <4>4 DEF Cleared, SameServer
      <3> QED
        BY <3>1, <3>4, <3>5 DEF Cleared
    <2>6. DeadOf(u, i)'
      <3> SUFFICES ASSUME <<i, u>> \notin leaks \cup owed, Dead(i), ~Hidden(u, i)
                   PROVE  Cleared(u, i, Ends(log, u, i))'
        BY <1>1 DEF DeadOf, Dead, Hidden, SameServer
      <3>1. Cleared(u, i, Ends(log, u, i)) /\ Ends(log, u, i) # {}
        BY <1>2 DEF PairOf, DeadOf, EndOf
      <3>2. Visible(i, u)
        <4>1. LeakOf(u, i)
          BY <1>2 DEF PairOf
        <4> QED
          BY <4>1, Zenon DEF LeakOf, Visible, Hidden
      <3>3. PICK w \in Ends(log, u, i) : w > cp[u] \/ Clean(rep[u][i], repThread[u][i])
        BY <3>1 DEF Cleared, ToCome
      <3>4. /\ w \in 1..HeadSeq /\ log[w].issue = i /\ IsWipe(log[w])
            /\ log[w].op = "tombstone" => log[w].user = u
            /\ \A s \in 1..HeadSeq : s > w /\ log[s].issue = i => IsWipe(log[s])
        BY <3>3 DEF Ends, Delete, Tombstone, Entry, IsWipe, HeadSeq
      <3>5. Awaits(u, i, page, w)
        BY <1>q, <1>s, <2>v, <3>2, <3>3, <3>4 DEF Awaits
      <3>6. \/ Clean(RowOf(log, rep[u][i], page, i), ThreadOf(log, repThread[u][i], page, i))
            \/ ToCome(Ends(log, u, i), to[u])
        BY <1>2, <1>q, <3>3, <3>5, PageClears
      <3> QED
        BY <1>1, <2>4, <3>1, <3>6 DEF Cleared, SameServer
    <2> QED
      BY <2>1, <2>2, <2>3, <2>5, <2>6 DEF CopyOf
  <1> QED
    BY <1>1, <1>4, <1>5, <1>6, <1>7, <1>8, <1>9, ClientStep

LEMMA RequestSnapshotStep ==
    ASSUME IInv, NEW u \in Users, RequestSnapshot(u)
    PROVE  IInv'
  <1> DEFINE held == {i \in Issues : state[i] = "live" /\ Visible(i, u)}
             view == [rows |-> [i \in Issues |-> IF i \in held THEN content[i] ELSE 0],
                      threads |-> [i \in Issues |-> IF i \in held THEN thread[i] ELSE {}]]
  <1>1. /\ phase[u] = "idle" /\ cp[u] = 0 /\ rep[u] = NoRows
        /\ snap' = [snap EXCEPT ![u] = view] /\ to' = [to EXCEPT ![u] = HeadSeq]
        /\ phase' = [phase EXCEPT ![u] = "snapshot"]
        /\ UNCHANGED <<rep, repThread, cp, got, opened, leaks>>
        /\ SameServer
    BY DEF RequestSnapshot, Fresh, server, tables, access, command, replica, history, SameServer
  <1>2. /\ LogType /\ TableType /\ SetType /\ ReplicaType /\ RequestType /\ WindowOf(u)
        /\ \A i \in Issues : PairOf(u, i)
    BY InvParts
  <1>3. Grows /\ HeadSeq' = HeadSeq /\ HeadSeq \in Nat
    BY <1>1, <1>2, SameLogGrows DEF SameServer, Grows
  <1>9. leaks' \in SUBSET Pairs /\ leaks \subseteq leaks'
    BY <1>1, <1>2 DEF SetType
  <1>h. /\ \A i \in Issues : i \in held <=> state[i] = "live" /\ Visible(i, u)
        /\ held \subseteq Issues
    OBVIOUS
  <1> HIDE DEF held
  <1>v. view \in Snapshots
    <2>1. [i \in Issues |-> IF i \in held THEN content[i] ELSE 0] \in [Issues -> 0..HeadSeq]
      BY <1>2, <1>3 DEF TableType
    <2>2. [i \in Issues |-> IF i \in held THEN thread[i] ELSE {}]
             \in [Issues -> SUBSET (1..HeadSeq)]
      BY <1>2 DEF TableType
    <2> QED
      BY <2>1, <2>2 DEF Snapshots
  <1>w. /\ \A i \in Issues : /\ view.rows[i] = IF i \in held THEN content[i] ELSE 0
                             /\ view.threads[i] = IF i \in held THEN thread[i] ELSE {}
        /\ HeadSeq = 0 => view.threads = NoThreads
    <2>1. HeadSeq = 0 => \A i \in Issues : thread[i] = {}
      BY <1>2 DEF TableType
    <2> QED
      BY <2>1 DEF NoThreads
  <1> HIDE DEF view
  <1>4. ReplicaType'
    BY <1>1, <1>2, <1>3 DEF ReplicaType
  <1>5. RequestType'
    <2>1. snap' \in [Users -> Snapshots']
      BY <1>1, <1>2, <1>3, <1>v DEF RequestType, Snapshots
    <2> QED
      BY <1>1, <1>2, <1>3, <2>1 DEF RequestType
  <1>6. OtherCopies(u)
    BY <1>1, <1>2 DEF OtherCopies, SameCopy, RequestType
  <1>10. phase'[u] = "snapshot" /\ to'[u] = HeadSeq /\ snap'[u] = view
    BY <1>1, <1>2 DEF RequestType
  <1>11. repThread[u] = NoThreads
    BY <1>1, <1>2 DEF WindowOf
  <1>7. WindowOf(u)'
    BY <1>1, <1>10, <1>11, <1>w DEF WindowOf, NoThreads
  <1>8. ASSUME NEW i \in Issues PROVE CopyOf(u, i)'
    <2>r. rep[u][i] = 0 /\ repThread[u][i] = {}
      BY <1>1, <1>11 DEF NoRows, NoThreads
    <2>1. NoneOf(u, i)'
      BY <1>1, <1>2, <1>10, <1>h, <1>w DEF PairOf, NoneOf, Untouched, SameServer
    <2>2. PrefixOf(u, i)'
      BY <1>1, <1>2 DEF PairOf, PrefixOf, SameServer
    <2>3. PageOf(u, i)'
      <3> SUFFICES ASSUME <<i, u>> \notin gaps
                   PROVE  /\ view.rows[i] = RowOf(log, 0, Own(log, u, HeadSeq), i)
                          /\ view.threads[i] = ThreadOf(log, {}, Own(log, u, HeadSeq), i)
        BY <1>1, <1>10 DEF PageOf, SameServer
      <3>1. i \in held <=> state[i] = "live"
        BY <1>2, <1>h DEF PairOf, GapOf
      <3> QED
        BY <1>2, <1>w, <3>1 DEF PairOf, TableOf
    <2>4. i \notin held => Clean(view.rows[i], view.threads[i])
      BY <1>w DEF Clean
    <2>5. ASSUME NEW W, i \notin held PROVE Cleared(u, i, W)'
      BY <1>1, <1>10, <2>r, <2>4, <2>5 DEF Cleared, Clean
    <2>6. HiddenOf(u, i)'
      <3>1. Hidden(u, i) => i \notin held
        BY <1>h DEF Hidden, Visible
      <3> QED
        BY <1>1, <2>5, <3>1 DEF HiddenOf, Hidden, Cleared, SameServer
    <2>7. DeadOf(u, i)'
      <3>1. Dead(i) => i \notin held
        BY <1>h DEF Dead
      <3> QED
        BY <1>1, <2>5, <3>1 DEF DeadOf, Dead, Cleared, SameServer
    <2> QED
      BY <2>1, <2>2, <2>3, <2>6, <2>7 DEF CopyOf
  <1> QED
    BY <1>1, <1>4, <1>5, <1>6, <1>7, <1>8, <1>9, ClientStep

(* The replay of the model, said of the log as it is. *)
LEMMA SameReplay ==
    ASSUME NEW u, NEW i, NEW n, NEW row, NEW comments, NEW page
    PROVE  /\ RowAfter(row, page, i) = RowOf(log, row, page, i)
           /\ ThreadAfter(comments, page, i) = ThreadOf(log, comments, page, i)
           /\ OwnLog(u, n) = Own(log, u, n)
  BY DEF RowAfter, RowActions, RowOf, RowReads, ThreadAfter, Wipes, Comments, ThreadOf,
         WipeReads, CommentReads, OwnLog, Own

LEMMA ReplayType ==
    ASSUME LogType, LogInv, NEW i \in Issues, NEW page \in SUBSET (1..HeadSeq),
           NEW row \in 0..HeadSeq \cup {Seed}, NEW comments \in SUBSET (1..HeadSeq)
    PROVE  /\ RowOf(log, row, page, i) \in 0..HeadSeq \cup {Seed}
           /\ ThreadOf(log, comments, page, i) \in SUBSET (1..HeadSeq)
  <1>1. HeadSeq \in Nat
    BY DEF LogType, HeadSeq
  <1>2. \A s \in page : log[s].ver \in 0..HeadSeq
    BY EntryType
  <1>3. \A s \in page : log[s].op = "comment" => log[s].ver # 0
    BY DEF LogInv, LogOf, Sound
  <1>4. RowOf(log, row, page, i) \in 0..HeadSeq \cup {Seed}
    <2>1. CASE RowReads(log, page, i) = {}
      BY <2>1 DEF RowOf
    <2>2. CASE RowReads(log, page, i) # {}
      <3>1. RowReads(log, page, i) \in SUBSET (1..HeadSeq) /\ page \in SUBSET Nat
        <4>1. RowReads(log, page, i) \subseteq page
          BY DEF RowReads
        <4>2. page \in SUBSET Nat
          BY <1>1
        <4> QED
          BY <4>1, <4>2
      <3>2. PICK m \in RowReads(log, page, i) : \A y \in RowReads(log, page, i) : y <= m
        BY <1>1, <2>2, <3>1, LastOf
      <3>3. RowOf(log, row, page, i) = log[m].ver
        BY <3>1, <3>2, LastRow
      <3>4. m \in page
        BY <3>2 DEF RowReads
      <3> QED
        BY <1>2, <3>3, <3>4
    <2> QED
      BY <2>1, <2>2
  <1>5. ThreadOf(log, comments, page, i) \in SUBSET (1..HeadSeq)
    <2>1. \A s \in CommentReads(log, page, i) : log[s].ver \in 1..HeadSeq
      BY <1>1, <1>2, <1>3 DEF CommentReads
    <2> QED
      BY <2>1 DEF ThreadOf
  <1> QED
    BY <1>4, <1>5

(* A page applied to the log up to the checkpoint is the log up to the     *)
(* boundary of the page.                                                   *)
LEMMA PageContinues ==
    ASSUME LogType, ReplicaType, RequestType, NEW u \in Users, NEW i \in Issues,
           NEW row, NEW comments, cp[u] < to[u], got[u] \subseteq (cp[u] + 1)..to[u],
           \A s \in (cp[u] + 1)..to[u] :
              log[s].issue = i => (s \in got[u] <=> s \in Own(log, u, HeadSeq))
    PROVE  /\ RowOf(log, RowOf(log, row, Own(log, u, cp[u]), i), got[u], i)
                 = RowOf(log, row, Own(log, u, to[u]), i)
           /\ ThreadOf(log, ThreadOf(log, comments, Own(log, u, cp[u]), i), got[u], i)
                 = ThreadOf(log, comments, Own(log, u, to[u]), i)
  <1> DEFINE both == Own(log, u, cp[u]) \cup got[u]
  <1>1. cp[u] \in 0..HeadSeq /\ to[u] \in 0..HeadSeq /\ HeadSeq \in Nat
    BY ReplicaFacts
  <1>2. Splits(Own(log, u, cp[u]), cp[u], got[u])
    <2>1. Own(log, u, cp[u]) \subseteq 1..cp[u]
      BY DEF Own
    <2>2. cp[u] \in Nat /\ to[u] \in Nat /\ cp[u] <= to[u]
      BY <1>1
    <2> QED
      BY <2>1, <2>2 DEF Splits
  <1>3. Agree(log, both, log, Own(log, u, to[u]), i)
    <2>1. both \subseteq 1..to[u] /\ to[u] \in Nat
      BY <1>1 DEF Own
    <2>2. Own(log, u, to[u]) \subseteq 1..to[u]
      BY DEF Own
    <2>3. ASSUME NEW s \in 1..to[u], log[s].issue = i
          PROVE  s \in both <=> s \in Own(log, u, to[u])
      <3>1. CASE s \in 1..cp[u]
        <4>1. s \notin got[u]
          BY <1>1, <3>1
        <4> QED
          BY <3>1, <4>1, <2>3 DEF Own
      <3>2. CASE s \in (cp[u] + 1)..to[u]
        <4>1. s \notin 1..cp[u] /\ s \in 1..HeadSeq
          BY <1>1, <3>2
        <4>2. s \notin Own(log, u, cp[u])
          BY <4>1 DEF Own
        <4>3. s \in got[u] <=> s \in Own(log, u, HeadSeq)
          BY <2>3, <3>2
        <4> QED
          BY <2>3, <4>1, <4>2, <4>3 DEF Own
      <3>3. s \in 1..cp[u] \/ s \in (cp[u] + 1)..to[u]
        BY <1>1
      <3> QED
        BY <3>1, <3>2, <3>3
    <2> HIDE DEF both
    <2> QED
      BY <2>1, <2>2, <2>3 DEF Agree
  <1>4. /\ RowOf(log, row, both, i) = RowOf(log, row, Own(log, u, to[u]), i)
        /\ ThreadOf(log, comments, both, i) = ThreadOf(log, comments, Own(log, u, to[u]), i)
    <2> HIDE DEF both
    <2> QED
      BY <1>3, SameReading
  <1> QED
    BY <1>2, <1>4, OneAfterAnother

LEMMA ApplyStep ==
    ASSUME IInv, NEW u \in Users, Apply(u)
    PROVE  IInv'
  <1>1. /\ phase[u] = "reply"
        /\ rep' = [rep EXCEPT ![u] = [i \in Issues |-> RowAfter(@[i], got[u], i)]]
        /\ repThread' = [repThread EXCEPT ![u] =
                            [i \in Issues |-> ThreadAfter(@[i], got[u], i)]]
        /\ cp' = [cp EXCEPT ![u] = to[u]]
    BY DEF Apply
  <1>a. /\ phase' = [phase EXCEPT ![u] = "idle"] /\ to' = [to EXCEPT ![u] = 0]
        /\ got' = [got EXCEPT ![u] = {}] /\ snap' = [snap EXCEPT ![u] = NoSnapshot]
        /\ UNCHANGED <<opened, leaks>> /\ SameServer
    BY DEF Apply, Answered, server, tables, access, command, history, SameServer
  <1>2. /\ LogType /\ SetType /\ ReplicaType /\ RequestType /\ LogInv /\ WindowOf(u)
        /\ \A i \in Issues : PairOf(u, i)
    BY InvParts
  <1>3. Grows /\ HeadSeq' = HeadSeq /\ HeadSeq \in Nat
    BY <1>a, <1>2, SameLogGrows DEF SameServer, Grows
  <1>p. /\ cp[u] \in 0..HeadSeq /\ to[u] \in 0..HeadSeq /\ cp[u] < to[u]
        /\ got[u] \subseteq (cp[u] + 1)..to[u] /\ got[u] \in SUBSET (1..HeadSeq)
    BY <1>1, <1>2 DEF ReplicaType, RequestType, WindowOf
  <1>9. leaks' \in SUBSET Pairs /\ leaks \subseteq leaks'
    BY <1>a, <1>2 DEF SetType
  <1>10. /\ \A i \in Issues : /\ rep'[u][i] = RowOf(log, rep[u][i], got[u], i)
                              /\ repThread'[u][i] = ThreadOf(log, repThread[u][i], got[u], i)
         /\ cp'[u] = to[u] /\ phase'[u] = "idle" /\ snap'[u] = NoSnapshot
    BY <1>1, <1>a, <1>2, SameReplay DEF ReplicaType, RequestType
  <1>4. ReplicaType'
    <2>1. ASSUME NEW i \in Issues
          PROVE  /\ RowAfter(rep[u][i], got[u], i) \in 0..HeadSeq \cup {Seed}
                 /\ ThreadAfter(repThread[u][i], got[u], i) \in SUBSET (1..HeadSeq)
      <3>1. rep[u][i] \in 0..HeadSeq \cup {Seed} /\ repThread[u][i] \in SUBSET (1..HeadSeq)
        BY <1>2 DEF ReplicaType
      <3>2. /\ RowOf(log, rep[u][i], got[u], i) \in 0..HeadSeq \cup {Seed}
            /\ ThreadOf(log, repThread[u][i], got[u], i) \in SUBSET (1..HeadSeq)
        BY <1>2, <1>p, <3>1, ReplayType
      <3>3. /\ RowAfter(rep[u][i], got[u], i) = RowOf(log, rep[u][i], got[u], i)
            /\ ThreadAfter(repThread[u][i], got[u], i)
                  = ThreadOf(log, repThread[u][i], got[u], i)
        BY SameReplay
      <3> QED
        BY <3>2, <3>3
    <2>2. rep' \in [Users -> [Issues -> 0..HeadSeq' \cup {Seed}]]
      BY <1>1, <1>2, <1>3, <2>1 DEF ReplicaType
    <2>3. repThread' \in [Users -> [Issues -> SUBSET (1..HeadSeq')]]
      BY <1>1, <1>2, <1>3, <2>1 DEF ReplicaType
    <2>4. cp' \in [Users -> 0..HeadSeq']
      BY <1>1, <1>2, <1>3, <1>p DEF ReplicaType
    <2> QED
      BY <2>2, <2>3, <2>4 DEF ReplicaType
  <1>5. RequestType'
    BY <1>a, <1>2, <1>3, NothingAsked
  <1>6. OtherCopies(u)
    BY <1>1, <1>a, <1>2 DEF OtherCopies, SameCopy, ReplicaType, RequestType
  <1>7. WindowOf(u)'
    BY <1>10, <1>p DEF WindowOf
  <1>8. ASSUME NEW i \in Issues PROVE CopyOf(u, i)'
    <2>1. NoneOf(u, i)'
      <3> SUFFICES ASSUME state[i] = "none"
                   PROVE  /\ rep'[u][i] = 0 /\ repThread'[u][i] = {}
                          /\ thread[i] = {} /\ i \notin opened[u]
        BY <1>a, <1>10 DEF NoneOf, Untouched, SameServer, NoSnapshot, NoRows, NoThreads
      <3>1. \A s \in got[u] : log[s].issue # i
        BY <1>2, <1>p DEF LogInv, LogOf
      <3>2. RowReads(log, got[u], i) = {} /\ CommentReads(log, got[u], i) = {}
        BY <3>1 DEF RowReads, CommentReads
      <3>3. thread[i] = {} /\ rep[u][i] = 0 /\ repThread[u][i] = {} /\ i \notin opened[u]
        BY <1>2 DEF PairOf, NoneOf, Untouched
      <3> QED
        BY <1>10, <3>2, <3>3 DEF RowOf, ThreadOf
    <2>2. PrefixOf(u, i)'
      <3> SUFFICES ASSUME <<i, u>> \notin gaps
                   PROVE  /\ \/ rep'[u][i] = RowOf(log, 0, Own(log, u, to[u]), i)
                             \/ rep'[u][i] = Seed /\ RowOf(log, 0, Own(log, u, to[u]), i) = 0
                          /\ repThread'[u][i] = ThreadOf(log, {}, Own(log, u, to[u]), i)
        BY <1>a, <1>10 DEF PrefixOf, SameServer
      <3>1. /\ \/ rep[u][i] = RowOf(log, 0, Own(log, u, cp[u]), i)
               \/ rep[u][i] = Seed /\ RowOf(log, 0, Own(log, u, cp[u]), i) = 0
            /\ repThread[u][i] = ThreadOf(log, {}, Own(log, u, cp[u]), i)
        BY <1>2 DEF PairOf, PrefixOf
      <3>2. \A s \in (cp[u] + 1)..to[u] :
                log[s].issue = i => (s \in got[u] <=> s \in Own(log, u, HeadSeq))
        BY <1>1, <1>2 DEF PairOf, PageOf
      <3>3. /\ RowOf(log, RowOf(log, 0, Own(log, u, cp[u]), i), got[u], i)
                  = RowOf(log, 0, Own(log, u, to[u]), i)
            /\ ThreadOf(log, ThreadOf(log, {}, Own(log, u, cp[u]), i), got[u], i)
                  = ThreadOf(log, {}, Own(log, u, to[u]), i)
        BY <1>2, <1>p, <3>2, PageContinues
      <3>4. \/ RowOf(log, Seed, got[u], i) = RowOf(log, 0, got[u], i)
            \/ RowOf(log, Seed, got[u], i) = Seed /\ RowOf(log, 0, got[u], i) = 0
        BY DEF RowOf
      <3> QED
        BY <1>10, <3>1, <3>3, <3>4
    <2>3. PageOf(u, i)'
      BY <1>10 DEF PageOf
    <2>4. KeepsCleared(u, i)
      BY <1>1, <1>10 DEF KeepsCleared, Cleared
    <2>5. HiddenOf(u, i)' /\ DeadOf(u, i)'
      BY <1>a, <1>2, <1>9, <2>4, KeepsBoth DEF PairOf
    <2> QED
      BY <2>1, <2>2, <2>3, <2>5 DEF CopyOf
  <1> QED
    BY <1>a, <1>4, <1>5, <1>6, <1>7, <1>8, <1>9, ClientStep

LEMMA ApplySnapshotStep ==
    ASSUME IInv, NEW u \in Users, ApplySnapshot(u)
    PROVE  IInv'
  <1>1. /\ phase[u] = "snapshot"
        /\ rep' = [rep EXCEPT ![u] = [i \in Issues |->
                      IF snap[u].rows[i] = 0 THEN @[i] ELSE snap[u].rows[i]]]
        /\ repThread' = [repThread EXCEPT ![u] =
                            [i \in Issues |-> @[i] \cup snap[u].threads[i]]]
        /\ cp' = [cp EXCEPT ![u] = to[u]]
    BY DEF ApplySnapshot
  <1>a. /\ phase' = [phase EXCEPT ![u] = "idle"] /\ to' = [to EXCEPT ![u] = 0]
        /\ got' = [got EXCEPT ![u] = {}] /\ snap' = [snap EXCEPT ![u] = NoSnapshot]
        /\ UNCHANGED <<opened, leaks>> /\ SameServer
    BY DEF ApplySnapshot, Answered, server, tables, access, command, history, SameServer
  <1>2. /\ LogType /\ SetType /\ ReplicaType /\ RequestType /\ WindowOf(u)
        /\ \A i \in Issues : PairOf(u, i)
    BY InvParts
  <1>3. Grows /\ HeadSeq' = HeadSeq /\ HeadSeq \in Nat
    BY <1>a, <1>2, SameLogGrows DEF SameServer, Grows
  <1>p. /\ to[u] \in 0..HeadSeq /\ cp[u] = 0 /\ repThread[u] = NoThreads
        /\ to[u] = 0 => snap[u].threads = NoThreads
    BY <1>1, <1>2 DEF ReplicaType, RequestType, WindowOf
  <1>q. \A i \in Issues : /\ snap[u].rows[i] \in 0..HeadSeq
                          /\ snap[u].threads[i] \in SUBSET (1..HeadSeq)
    <2>1. snap[u] \in Snapshots
      BY <1>2 DEF RequestType
    <2> QED
      BY <2>1 DEF Snapshots
  <1>9. leaks' \in SUBSET Pairs /\ leaks \subseteq leaks'
    BY <1>a, <1>2 DEF SetType
  <1>10. /\ \A i \in Issues :
               /\ rep'[u][i] = IF snap[u].rows[i] = 0 THEN rep[u][i] ELSE snap[u].rows[i]
               /\ repThread'[u][i] = repThread[u][i] \cup snap[u].threads[i]
         /\ cp'[u] = to[u] /\ phase'[u] = "idle" /\ snap'[u] = NoSnapshot
    BY <1>1, <1>a, <1>2 DEF ReplicaType, RequestType
  <1>4. ReplicaType'
    <2>2. rep' \in [Users -> [Issues -> 0..HeadSeq' \cup {Seed}]]
      BY <1>1, <1>2, <1>3, <1>q DEF ReplicaType
    <2>3. repThread' \in [Users -> [Issues -> SUBSET (1..HeadSeq')]]
      BY <1>1, <1>2, <1>3, <1>q DEF ReplicaType
    <2>4. cp' \in [Users -> 0..HeadSeq']
      BY <1>1, <1>2, <1>3, <1>p DEF ReplicaType
    <2> QED
      BY <2>2, <2>3, <2>4 DEF ReplicaType
  <1>5. RequestType'
    BY <1>a, <1>2, <1>3, NothingAsked
  <1>6. OtherCopies(u)
    BY <1>1, <1>a, <1>2 DEF OtherCopies, SameCopy, ReplicaType, RequestType
  <1>7. WindowOf(u)'
    <2>1. to[u] = 0 => repThread'[u] = NoThreads
      <3>1. repThread'[u] = [i \in Issues |-> repThread[u][i] \cup snap[u].threads[i]]
        BY <1>1, <1>2 DEF ReplicaType
      <3> QED
        BY <1>p, <3>1 DEF NoThreads
    <2> QED
      BY <1>10, <2>1 DEF WindowOf, NoThreads
  <1>8. ASSUME NEW i \in Issues PROVE CopyOf(u, i)'
    <2>1. NoneOf(u, i)'
      BY <1>a, <1>2, <1>10
      DEF PairOf, NoneOf, Untouched, SameServer, NoSnapshot, NoRows, NoThreads
    <2>2. PrefixOf(u, i)'
      <3> SUFFICES ASSUME <<i, u>> \notin gaps
                   PROVE  /\ \/ rep'[u][i] = RowOf(log, 0, Own(log, u, to[u]), i)
                             \/ rep'[u][i] = Seed /\ RowOf(log, 0, Own(log, u, to[u]), i) = 0
                          /\ repThread'[u][i] = ThreadOf(log, {}, Own(log, u, to[u]), i)
        BY <1>a, <1>10 DEF PrefixOf, SameServer
      <3>1. rep[u][i] \in {0, Seed} /\ repThread[u][i] = {}
        BY <1>2, <1>p, NothingRead DEF PairOf, PrefixOf, NoThreads
      <3>2. /\ snap[u].rows[i] = RowOf(log, 0, Own(log, u, to[u]), i)
            /\ snap[u].threads[i] = ThreadOf(log, {}, Own(log, u, to[u]), i)
        BY <1>1, <1>2 DEF PairOf, PageOf
      <3> QED
        BY <1>10, <3>1, <3>2
    <2>3. PageOf(u, i)'
      BY <1>10 DEF PageOf
    <2>4. KeepsCleared(u, i)
      BY <1>1, <1>10 DEF KeepsCleared, Cleared, Clean
    <2>5. HiddenOf(u, i)' /\ DeadOf(u, i)'
      BY <1>a, <1>2, <1>9, <2>4, KeepsBoth DEF PairOf
    <2> QED
      BY <2>1, <2>2, <2>3, <2>5 DEF CopyOf
  <1> QED
    BY <1>a, <1>4, <1>5, <1>6, <1>7, <1>8, <1>9, ClientStep

-----------------------------------------------------------------------------
LEMMA InitIInv ==
    ASSUME Init
    PROVE  IInv
  <1>1. /\ log = <<>> /\ state = [i \in Issues |-> "none"]
        /\ content = NoRows /\ thread = NoThreads
        /\ restricted = {} /\ cleared \in {{}, Users} /\ member = Users
        /\ restricting = {} /\ owed = {} /\ gaps = {} /\ leaks = {}
    BY DEF Init
  <1>2. active = TRUE
    BY DEF Init
  <1>3. /\ rep = [u \in Users |-> NoRows] /\ repThread = [u \in Users |-> NoThreads]
        /\ cp = [u \in Users |-> 0] /\ phase = [u \in Users |-> "idle"]
        /\ to = [u \in Users |-> 0] /\ got = [u \in Users |-> {}]
        /\ snap = [u \in Users |-> NoSnapshot] /\ opened = [u \in Users |-> {}]
    BY DEF Init
  <1>4. HeadSeq = 0
    BY <1>1 DEF HeadSeq
  <1>5. TypeOK
    <2>1. LogType
      <3>1. log \in Seq(Actions)
        BY <1>1
      <3> QED
        BY <1>4, <3>1, BoundAssumption DEF LogType
    <2>2. TableType
      BY <1>1, <1>4 DEF TableType, NoRows, NoThreads
    <2>3. FlagType
      BY <1>2 DEF FlagType
    <2>4. SetType
      BY <1>1 DEF SetType
    <2>5. ReplicaType
      BY <1>3, <1>4 DEF ReplicaType, NoRows, NoThreads
    <2>6. RequestType
      BY <1>3, <1>4 DEF RequestType, Snapshots, NoSnapshot, NoRows, NoThreads
    <2> QED
      BY <2>1, <2>2, <2>3, <2>4, <2>5, <2>6, TypeParts
  <1>6. LogInv
    BY <1>4 DEF LogInv
  <1>7. \A u \in Users : WindowOf(u)
    BY <1>3 DEF WindowOf
  <1>8. ASSUME NEW u \in Users, NEW i \in Issues PROVE PairOf(u, i)
    <2>1. NoneOf(u, i)
      BY <1>1, <1>3 DEF NoneOf, Untouched, NoSnapshot, NoRows, NoThreads
    <2>2. OwedOf(u, i)
      BY <1>1 DEF OwedOf
    <2>3. GapOf(u, i)
      BY <1>1 DEF GapOf
    <2>4. LeakOf(u, i)
      BY <1>1, <1>2 DEF LeakOf
    <2>5. TableOf(u, i)
      BY <1>1, <1>4, NothingRead DEF TableOf
    <2>6. PrefixOf(u, i)
      BY <1>3, NothingRead DEF PrefixOf, NoRows, NoThreads
    <2>7. PageOf(u, i)
      BY <1>3 DEF PageOf
    <2>8. HiddenOf(u, i) /\ EndOf(u, i) /\ DeadOf(u, i)
      BY <1>1 DEF HiddenOf, EndOf, DeadOf, Dead
    <2> QED
      BY <2>1, <2>2, <2>3, <2>4, <2>5, <2>6, <2>7, <2>8 DEF PairOf
  <1> QED
    BY <1>5, <1>6, <1>7, <1>8 DEF IInv

LEMMA StutterStep ==
    ASSUME IInv, UNCHANGED vars
    PROVE  IInv'
  <1>1. /\ UNCHANGED <<log, state, content, thread, restricted, cleared, member>>
        /\ UNCHANGED <<restricting, owed, gaps, leaks>> /\ ClientSame
    BY DEF vars, tables, access, command, replica, request, history, ClientSame
  <1>2. active' = active
    BY DEF vars, tables
  <1>3. /\ LogType /\ TableType /\ FlagType /\ SetType /\ ReplicaType /\ RequestType
        /\ \A u \in Users, i \in Issues : PairOf(u, i)
    BY InvParts
  <1>4. Grows /\ HeadSeq' = HeadSeq
    BY <1>1, <1>3, SameLogGrows
  <1>5. \A u \in Users : SameCopy(u)
    BY <1>1, ClientStays
  <1>6. ASSUME NEW u \in Users, NEW i \in Issues PROVE RightsOf(u, i)'
    <2>1. GapsGrow(u, i) /\ LeaksGrow(u, i) /\ SameRows(i) /\ SameCommand(u, i)
      BY <1>1 DEF GapsGrow, LeaksGrow, SameRows, SameCommand
    <2>2. SameAccess(u, i)
      BY <1>1, <1>2 DEF SameAccess
    <2>3. OnlyWipes(i)
      BY <1>4 DEF Grows, OnlyWipes
    <2> QED
      BY <1>3, <1>4, <1>5, <2>1, <2>2, <2>3, RightsAside
  <1>7. FlagType' /\ SetType'
    <2>1. FlagType'
      BY <1>2, <1>3, Zenon DEF FlagType
    <2> QED
      BY <1>1, <1>3, <2>1 DEF SetType, Pairs
  <1>8. \A u \in Users, i \in Issues : GapsGrow(u, i)
    BY <1>1 DEF GapsGrow
  <1> QED
    BY <1>1, <1>6, <1>7, <1>8, RightsStep

LEMMA CommandKeeps ==
    ASSUME IInv, CommandStep
    PROVE  IInv'
  <1>1. ASSUME NEW i \in Issues, CreateIssue(i) PROVE IInv'
    BY <1>1, CreateIssueStep
  <1>2. ASSUME NEW i \in Issues, EditIssue(i) PROVE IInv'
    BY <1>2, EditIssueStep
  <1>3. ASSUME NEW i \in Issues, AddComment(i) PROVE IInv'
    BY <1>3, AddCommentStep
  <1>4. ASSUME NEW i \in Issues, DeleteIssue(i) PROVE IInv'
    BY <1>4, DeleteIssueStep
  <1>5. ASSUME NEW i \in Issues, SetLevel(i) PROVE IInv'
    BY <1>5, SetLevelStep
  <1>6. ASSUME NEW i \in Issues, ComputeExcluded(i) PROVE IInv'
    BY <1>6, ComputeExcludedStep
  <1>7. ASSUME NEW i \in Issues, ClearLevel(i) PROVE IInv'
    BY <1>7, ClearLevelStep
  <1>8. ASSUME NEW i \in Issues, ArchiveIssue(i) PROVE IInv'
    BY <1>8, ArchiveIssueStep
  <1>9. ASSUME NEW i \in Issues, RestoreIssue(i) PROVE IInv'
    BY <1>9, RestoreIssueStep
  <1>10. ASSUME NEW i \in Issues, NEW u \in Users, EmitTombstone(i, u) PROVE IInv'
    BY <1>10, EmitTombstoneStep
  <1>11. ASSUME AbandonTombstones PROVE IInv'
    BY <1>11, AbandonTombstonesStep
  <1>12. ASSUME ArchiveProject PROVE IInv'
    BY <1>12, ArchiveProjectStep
  <1>13. ASSUME RestoreProject PROVE IInv'
    BY <1>13, RestoreProjectStep
  <1>14. ASSUME NEW u \in Users, Clear(u) PROVE IInv'
    BY <1>14, ClearStep
  <1>15. ASSUME NEW u \in Users, Unclear(u) PROVE IInv'
    BY <1>15, UnclearStep
  <1>16. ASSUME NEW u \in Users, Suspend(u) PROVE IInv'
    BY <1>16, SuspendStep
  <1>17. ASSUME NEW u \in Users, Reinstate(u) PROVE IInv'
    BY <1>17, ReinstateStep
  <1> QED
    BY <1>1, <1>2, <1>3, <1>4, <1>5, <1>6, <1>7, <1>8, <1>9, <1>10, <1>11, <1>12, <1>13,
       <1>14, <1>15, <1>16, <1>17, Zenon DEF CommandStep

LEMMA ReplicaKeeps ==
    ASSUME IInv, NEW u \in Users, ReplicaStep(u)
    PROVE  IInv'
  <1>1. CASE Purge(u)
    BY <1>1, PurgeStep
  <1>2. CASE RequestPage(u)
    BY <1>2, RequestPageStep
  <1>3. CASE ReadPage(u)
    BY <1>3, ReadPageStep
  <1>4. CASE RequestSnapshot(u)
    BY <1>4, RequestSnapshotStep
  <1>5. CASE Apply(u)
    BY <1>5, ApplyStep
  <1>6. CASE ApplySnapshot(u)
    BY <1>6, ApplySnapshotStep
  <1>7. CASE LoseReply(u)
    BY <1>7, LoseReplyStep
  <1>8. ASSUME NEW i \in Issues, OpenPage(u, i) PROVE IInv'
    BY <1>8, OpenPageStep
  <1>9. ASSUME NEW i \in Issues, SeedView(u, i) PROVE IInv'
    BY <1>9, SeedViewStep
  <1> QED
    BY <1>1, <1>2, <1>3, <1>4, <1>5, <1>6, <1>7, <1>8, <1>9, Zenon DEF ReplicaStep

(* The inductive invariant: the log replayed to its end is what the tables *)
(* say, a replica and what is on its way to it are prefixes of that replay *)
(* (internal/syncapi), and what a user may no longer see is gone from the  *)
(* replica or removed by an action that is still to come (UpdateIssue,     *)
(* DeleteIssue, setIssueArchived).                                         *)
THEOREM IInvHolds == Spec => []IInv
  <1>1. Init => IInv
    BY InitIInv
  <1>2. IInv /\ [Next]_vars => IInv'
    <2>1. ASSUME IInv, CommandStep PROVE IInv'
      BY <2>1, CommandKeeps
    <2>2. ASSUME IInv, NEW u \in Users, ReplicaStep(u) PROVE IInv'
      BY <2>2, ReplicaKeeps
    <2>3. ASSUME IInv, UNCHANGED vars PROVE IInv'
      BY <2>3, StutterStep
    <2> QED
      BY <2>1, <2>2, <2>3, Zenon DEF Next
  <1> QED
    BY <1>1, <1>2, PTL DEF Spec

(* A replica is the log replayed up to its checkpoint, whichever snapshot, *)
(* pages and losses brought it there (ActionPageSince, BootstrapSnapshot,  *)
(* syncOnce), for every work item that was never kept from its user.       *)
THEOREM ReplicasArePrefixes == Spec => []ReplicaInv
  <1>1. IInv => ReplicaInv
    <2> SUFFICES ASSUME IInv PROVE ReplicaInv
      OBVIOUS
    <2>1. TypeOK /\ \A u \in Users, i \in Issues : PrefixOf(u, i)
      BY DEF IInv, PairOf
    <2>2. \A u, i, n : /\ RowAt(u, i, n) = RowOf(log, 0, Own(log, u, n), i)
                       /\ ThreadAt(u, i, n) = ThreadOf(log, {}, Own(log, u, n), i)
      BY SameReplay DEF RowAt, ThreadAt
    <2> QED
      BY <2>1, <2>2 DEF ReplicaInv, ReplicaIsPrefixOfLog, PrefixOf
  <1> QED
    BY <1>1, IInvHolds, PTL

(* A replica that is caught up holds nothing its user may not see, once    *)
(* the tombstones of the item are appended (UpdateIssue, EmitTombstone).   *)
THEOREM QuietReplicas == Spec => []QuietReplicaIsAuthorised
  <1>1. IInv => QuietReplicaIsAuthorised
    <2> SUFFICES ASSUME IInv, NEW u \in Users, NEW i \in Issues,
                        phase[u] = "idle", cp[u] = HeadSeq, i \notin restricting,
                        <<i, u>> \notin owed \cup leaks,
                        rep[u][i] # 0 \/ repThread[u][i] # {}
                 PROVE  state[i] = "live" /\ Visible(i, u)
      BY DEF QuietReplicaIsAuthorised
    <2>1. /\ LogType /\ TableType /\ PairOf(u, i) /\ HeadSeq \in Nat
      BY InvParts DEF LogType, HeadSeq
    <2>2. state[i] # "none"
      BY <2>1 DEF PairOf, NoneOf, Untouched
    <2>3. ASSUME NEW W, W \subseteq 1..HeadSeq PROVE ~Cleared(u, i, W)
      BY <2>1, <2>3 DEF Cleared, Clean, ToCome
    <2>4. ~Hidden(u, i)
      <3>1. Tombstones(log, u, i) \subseteq 1..HeadSeq
        BY DEF Tombstones, HeadSeq
      <3> QED
        BY <2>1, <2>2, <2>3, <3>1 DEF PairOf, HiddenOf
    <2>5. ~Dead(i)
      <3>1. Ends(log, u, i) \subseteq 1..HeadSeq
        BY DEF Ends, HeadSeq
      <3> QED
        BY <2>1, <2>3, <2>4, <3>1 DEF PairOf, DeadOf
    <2>6. state[i] = "live"
      BY <2>1, <2>2, <2>5 DEF TableType, Dead
    <2>7. Visible(i, u)
      <3>1. LeakOf(u, i)
        BY <2>1 DEF PairOf
      <3> QED
        BY <2>4, <3>1, Zenon DEF LeakOf, Visible, Hidden
    <2> QED
      BY <2>6, <2>7
  <1> QED
    BY <1>1, IInvHolds, PTL
=============================================================================
