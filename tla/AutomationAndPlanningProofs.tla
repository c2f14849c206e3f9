-------------------- MODULE AutomationAndPlanningProofs --------------------
(***************************************************************************)
(* Proofs about two components that share the action log and nothing else: *)
(* the automation rules, and the planning of work in sprints.  Both need   *)
(* the ends of finite sets, which stand first; the names of Planning carry *)
(* its name where the two modules would use the same one.                  *)
(*                                                                         *)
(* Automation, for any rules, workers, page size, failure limit and bound  *)
(* on the log: the types, that the cursor passes no event without a run    *)
(* for it, and that workers that are in time share no run.  The inductive  *)
(* invariant follows the owner of the cursor through its transaction: what *)
(* it has read so far covers what is owed beyond the cursor, first the     *)
(* rules, then the events, at last up to the new cursor.                   *)
(*                                                                         *)
(* Planning, for any work items, sprints, requests and alphabet: where     *)
(* work items are planned, what the report of a completed sprint shows and *)
(* where a ranked item goes.  The inductive invariant says of each request *)
(* what it has locked and what of the things it has read still holds, and  *)
(* of the log that its last action about an item and a sprint is true.     *)
(***************************************************************************)
EXTENDS Automation, Planning, FiniteSetTheorems, SequenceTheorems, WellFoundedInduction, TLAPS
-----------------------------------------------------------------------------
(* A set of naturals that is not empty has a smallest element. *)
LEMMA SmallestOf ==
    ASSUME NEW S \in SUBSET Nat, S # {}
    PROVE  \E x \in S : \A y \in S : x <= y
  <1> DEFINE Below == {ss \in Nat \X Nat : ss[1] < ss[2]}
  <1>1. IsWellFoundedOn(Below, Nat)
    BY NatLessThanWellFounded, Zenon DEF OpToRel
  <1>2. \E x \in S : \A y \in S : ~(<<y, x>> \in Below)
    <2> HIDE DEF Below
    <2> QED
      BY <1>1, WFMin, Zenon
  <1>3. \A x, y \in S : ~(<<y, x>> \in Below) => x <= y
    OBVIOUS
  <1> QED
    BY <1>2, <1>3

(* A bounded set of naturals that is not empty has a largest element. *)
LEMMA LargestOf ==
    ASSUME NEW N \in Nat, NEW S \in SUBSET (0..N), S # {}
    PROVE  \E x \in S : \A y \in S : y <= x
  <1> DEFINE T == {N - x : x \in S}
  <1>0. \A x \in S : x \in Int /\ N - x \in Nat
    OBVIOUS
  <1>1. T \in SUBSET Nat /\ T # {}
    BY <1>0, Zenon
  <1>2. PICK t \in T : \A u \in T : t <= u
    BY <1>1, SmallestOf
  <1>3. PICK x \in S : t = N - x
    BY <1>2
  <1>4. \A y \in S : N - x <= N - y
    BY <1>2, <1>3
  <1> QED
    BY <1>0, <1>3, <1>4

(* Max finds it. *)
LEMMA MaxOf ==
    ASSUME NEW N \in Nat, NEW S \in SUBSET (0..N), S # {}
    PROVE  Max(S) \in S /\ \A y \in S : y <= Max(S)
  <1>1. \E x \in S : \A y \in S : x >= y
    BY LargestOf
  <1> QED
    BY <1>1 DEF Max

(* The later of two positions in the log. *)
LEMMA MaxPair ==
    ASSUME NEW a \in Nat, NEW b \in Nat, a <= b
    PROVE  Max({a, b}) = b /\ Max({b, a}) = b
  <1>1. Max({a, b}) \in {a, b} /\ b <= Max({a, b})
    BY MaxOf, {a, b} \in SUBSET (0..b), {a, b} # {}
  <1> QED
    BY <1>1, {a, b} = {b, a}

(***************************************************************************)
(* A page is a prefix of the events behind the cursor, and a page that is  *)
(* not full is all of them (LIMIT $n ORDER BY seq).                        *)
(***************************************************************************)
LEMMA PageIsPrefix ==
    ASSUME NEW N \in Nat, NEW S \in SUBSET (1..N), NEW n \in Nat
    PROVE  /\ FirstOf(S, n) \subseteq S
           /\ \A s \in FirstOf(S, n), t \in S : t <= s => t \in FirstOf(S, n)
  <1>1. FirstOf(S, n) \subseteq S
    BY DEF FirstOf
  <1>2. ASSUME NEW s \in FirstOf(S, n), NEW t \in S, t <= s
        PROVE  t \in FirstOf(S, n)
    <2> DEFINE B(x) == {u \in S : u <= x}
    <2>1. IsFiniteSet(1..N)
      BY FS_Interval
    <2>2. IsFiniteSet(B(s)) /\ IsFiniteSet(B(t))
      BY <2>1, FS_Subset
    <2>3. B(t) \subseteq B(s)
      <3>1. \A u \in S : u \in Int
        OBVIOUS
      <3>2. s \in Int /\ t \in Int
        BY <1>1, <3>1
      <3>3. \A u \in S : u <= t => u <= s
        BY <1>2, <3>1, <3>2
      <3> QED
        BY <3>3
    <2>4. /\ Cardinality(B(t)) <= Cardinality(B(s))
          /\ Cardinality(B(t)) \in Nat /\ Cardinality(B(s)) \in Nat
      BY <2>2, <2>3, FS_Subset, FS_CardinalityType
    <2>5. Cardinality(B(s)) <= n
      BY <1>2 DEF FirstOf
    <2>6. Cardinality(B(t)) <= n
      BY <2>4, <2>5
    <2> QED
      BY <2>6 DEF FirstOf
  <1> QED
    BY <1>1, <1>2

(* The second half: a page of less than n rows leaves no event out. *)
LEMMA ShortPageIsAll ==
    ASSUME NEW N \in Nat, NEW S \in SUBSET (1..N), NEW n \in Nat,
           Cardinality(FirstOf(S, n)) # n
    PROVE  FirstOf(S, n) = S
  <1> DEFINE F == FirstOf(S, n)
             B(x) == {u \in S : u <= x}
  <1>1. F \subseteq S /\ \A s \in F, t \in S : t <= s => t \in F
    BY PageIsPrefix
  <1>2. \A s \in S : s \in F <=> Cardinality(B(s)) <= n
    BY DEF FirstOf
  <1>0. \A u \in S : u \in Nat /\ u \in 1..N
    OBVIOUS
  <1>3. IsFiniteSet(S)
    <2>1. IsFiniteSet(1..N)
      BY FS_Interval
    <2> QED
      BY <2>1, FS_Subset
  <1>4. IsFiniteSet(F) /\ Cardinality(F) \in Nat
    BY <1>1, <1>3, FS_Subset, FS_CardinalityType
  <1> HIDE DEF F
  <1>5. Cardinality(F) <= n
    <2>1. CASE F = {}
      BY <2>1, FS_EmptySet
    <2>2. CASE F # {}
      <3>1. PICK m \in F : \A y \in F : y <= m
        BY <1>1, <2>2, LargestOf, F \in SUBSET (0..N)
      <3>2. B(m) = F
        BY <1>1, <3>1
      <3>3. Cardinality(B(m)) <= n
        BY <1>1, <1>2, <3>1
      <3> QED
        BY <3>2, <3>3
    <2> QED
      BY <2>1, <2>2
  <1>6. ASSUME S \ F # {}
        PROVE  FALSE
    <2> DEFINE R == S \ F
    <2>a. R \in SUBSET Nat /\ R # {}
      BY <1>0, <1>6, Zenon
    <2>b. \E m \in R : \A y \in R : m <= y
      <3> HIDE DEF R
      <3> QED
        BY <2>a, SmallestOf
    <2>1. PICK m \in S \ F : \A y \in S \ F : m <= y
      BY <2>b
    <2>2. B(m) = F \cup {m}
      <3>1. \A u \in F : u <= m
        BY <1>1, <2>1
      <3>2. \A u \in S : u <= m => u \in F \cup {m}
        BY <1>1, <2>1
      <3> QED
        BY <1>1, <2>1, <3>1, <3>2
    <2>3. Cardinality(B(m)) = Cardinality(F) + 1
      BY <1>4, <2>1, <2>2, FS_AddElement
    <2>4. Cardinality(F) < n
      BY <1>4, <1>5, Cardinality(F) # n DEF F
    <2>5. Cardinality(B(m)) <= n
      BY <1>4, <2>3, <2>4
    <2> QED
      BY <1>2, <2>1, <2>5
  <1> QED
    BY <1>1, <1>6 DEF F
-----------------------------------------------------------------------------
Actions == [event : BOOLEAN, cause : Rules \cup {User}]
States == {"none", "PENDING", "RUNNING", "OLD", "FAILED", "DONE"}

TypeInv == TypeOK /\ log \in Seq(Actions)

(* A worker is in an execution exactly when it holds a run. *)
ExecInv ==
    \A w \in Workers : phase[w] \in {"execute", "finish"} <=> exec[w] # NoRun

(* What is owed is an event in the log, for an enabled rule it matches. *)
OwedInv ==
    /\ ~watching => owed = {} /\ holder = Nobody
    /\ \A p \in owed :
          /\ p[2] <= HeadSeq
          /\ log[p[2]].event /\ Matches(p[1], log[p[2]].cause)
          /\ enabled[p[1]]

(***************************************************************************)
(* What the owner of the cursor has read so far covers what is owed behind *)
(* the cursor: the rules after ReadRules, the whole of it after a short    *)
(* page, and up to the new cursor at the end.                              *)
(***************************************************************************)
ReaderInv ==
    \A w \in Workers :
        /\ phase[w] = "skip" => known[w] = {}
        /\ \A p \in owed \ raced :
              /\ phase[w] \in {"skip", "page"} /\ cursor < p[2] => p[1] \in known[w]
              /\ phase[w] = "head" /\ cursor < p[2] => p[1] \in known[w] /\ p[2] \in page[w]
              /\ phase[w] = "queue" /\ cursor < p[2] /\ p[2] <= upto[w]
                    => p[1] \in known[w] /\ p[2] \in page[w]

IInv ==
    /\ TypeInv /\ ExecInv /\ OwedInv /\ ReaderInv
    /\ EventsBehindCursorHaveRuns /\ PromptWorkersDoNotOverlap
-----------------------------------------------------------------------------
(* Nothing logged, nothing read, nothing queued. *)
LEMMA InitIInv == Init => IInv
  <1> SUFFICES ASSUME Init PROVE IInv
    OBVIOUS
  <1> USE BoundAssumption, WorkerAssumption
  <1>1. TypeInv
    <2>1. log = <<>> /\ log \in Seq(Actions) /\ HeadSeq = 0
      BY DEF Init, HeadSeq
    <2>2. \A w \in Workers : ~(phase[w] \in ReaderPhases) /\ holder # w
      BY DEF Init, ReaderPhases
    <2>3. /\ enabled \in [Rules -> BOOLEAN] /\ failures \in [Rules -> 0..FailureLimit]
          /\ run \in [Rules -> [Seqs -> {"none", "PENDING", "RUNNING", "OLD", "FAILED", "DONE"}]]
      BY DEF Init
    <2>5. /\ known \in [Workers -> SUBSET Rules]
          /\ exec \in [Workers -> Pairs \cup {NoRun}]
          /\ phase \in [Workers -> ReaderPhases \cup {"idle", "execute", "finish"}]
          /\ watching \in BOOLEAN /\ holder \in Workers \cup {Nobody} /\ overrun \in BOOLEAN
          /\ owed \in SUBSET Pairs /\ raced \in SUBSET Pairs
      BY DEF Init
    <2>6. \A s \in 1..HeadSeq : log[s] \in [event : BOOLEAN, cause : Rules \cup {User}]
      BY <2>1
    <2>7. \A w \in Workers : phase[w] \in ReaderPhases <=> holder = w
      BY <2>2
    <2>4. /\ cursor \in 0..HeadSeq /\ upto \in [Workers -> 0..HeadSeq]
          /\ page \in [Workers -> SUBSET (1..HeadSeq)] /\ HeadSeq \in 0..MaxSeq
      BY <2>1 DEF Init
    <2> QED
      BY <2>1, <2>3, <2>4, <2>5, <2>6, <2>7 DEF TypeInv, TypeOK
  <1>2. ExecInv
    BY DEF Init, ExecInv
  <1>3. OwedInv /\ ReaderInv
    BY DEF Init, OwedInv, ReaderInv
  <1>4. EventsBehindCursorHaveRuns /\ PromptWorkersDoNotOverlap
    BY DEF Init, EventsBehindCursorHaveRuns, PromptWorkersDoNotOverlap
  <1> QED
    BY <1>1, <1>2, <1>3, <1>4 DEF IInv

(* What an action adds to the log and to what is owed. *)
LEMMA CommitFacts ==
    ASSUME TypeInv, NEW e \in BOOLEAN, NEW c \in Rules \cup {User}, Commit(e, c)
    PROVE  /\ log' \in Seq(Actions) /\ HeadSeq' = HeadSeq + 1 /\ HeadSeq' <= MaxSeq
           /\ \A s \in 1..HeadSeq : log'[s] = log[s]
           /\ raced \subseteq raced' /\ raced' \subseteq Pairs
           /\ owed \subseteq owed' /\ owed' \subseteq Pairs
           /\ \A p \in owed' \ owed :
                 /\ watching /\ p[2] = HeadSeq' /\ enabled[p[1]]
                 /\ log'[p[2]].event /\ Matches(p[1], log'[p[2]].cause)
                 /\ Misses(p[1]) => p \in raced'
  <1> USE BoundAssumption
  <1> DEFINE h == HeadSeq + 1
             new == {<<r, h>> : r \in {x \in Rules : e /\ enabled[x] /\ Matches(x, c)}}
  <1>1. /\ h <= MaxSeq
        /\ log' = Append(log, [event |-> e, cause |-> c])
        /\ owed' = IF watching THEN owed \cup new ELSE owed
        /\ raced' = raced \cup {p \in new : Misses(p[1])}
    BY DEF Commit
  <1>2. /\ log \in Seq(Actions) /\ [event |-> e, cause |-> c] \in Actions
        /\ HeadSeq \in Nat /\ raced \subseteq Pairs /\ owed \subseteq Pairs
    BY DEF TypeInv, TypeOK, Actions, HeadSeq
  <1>3. /\ log' \in Seq(Actions) /\ HeadSeq' = h
        /\ \A s \in 1..HeadSeq : log'[s] = log[s]
        /\ log'[h] = [event |-> e, cause |-> c]
    BY <1>1, <1>2 DEF HeadSeq
  <1>4. \A p \in new : /\ p \in Pairs /\ p[2] = h /\ e
                       /\ enabled[p[1]] /\ Matches(p[1], c)
    BY <1>1, <1>2 DEF Pairs, Seqs
  <1> HIDE DEF new, h
  <1>5. raced \subseteq raced' /\ raced' \subseteq Pairs
    BY <1>1, <1>2, <1>4
  <1>6. owed \subseteq owed' /\ owed' \subseteq Pairs /\ owed' \ owed \subseteq new
    BY <1>1, <1>2, <1>4
  <1>7. \A p \in owed' \ owed : watching /\ (Misses(p[1]) => p \in raced')
    BY <1>1, <1>6
  <1>8. [event |-> e, cause |-> c].event = e /\ [event |-> e, cause |-> c].cause = c
    OBVIOUS
  <1>9. \A p \in owed' \ owed :
            /\ p[2] = HeadSeq' /\ enabled[p[1]]
            /\ log'[p[2]].event /\ Matches(p[1], log'[p[2]].cause)
    <2> SUFFICES ASSUME NEW p \in owed' \ owed
                 PROVE  /\ p[2] = h /\ enabled[p[1]]
                        /\ log'[p[2]].event /\ Matches(p[1], log'[p[2]].cause)
      BY <1>3
    <2>1. p[2] = h /\ e /\ enabled[p[1]] /\ Matches(p[1], c)
      BY <1>4, <1>6
    <2>2. log'[p[2]].event = e /\ log'[p[2]].cause = c
      BY <2>1, <1>3, <1>8
    <2> QED
      BY <2>1, <2>2
  <1>10. HeadSeq' = HeadSeq + 1 /\ HeadSeq' <= MaxSeq
    BY <1>1, <1>3 DEF h
  <1> QED
    BY <1>3, <1>5, <1>6, <1>7, <1>9, <1>10

(* An action is appended, by a user or by an execution. *)
LEMMA CommitIInv ==
    ASSUME IInv, NEW e \in BOOLEAN, NEW c \in Rules \cup {User}, Commit(e, c),
           UNCHANGED <<enabled, failures, reader, run, exec, overrun>>,
           phase' \in [Workers -> ReaderPhases \cup {"idle", "execute", "finish"}],
           \A w \in Workers : \/ phase'[w] = phase[w]
                              \/ phase[w] = "execute" /\ phase'[w] = "finish"
    PROVE  IInv'
  <1> USE BoundAssumption
  <1>1. /\ log' \in Seq(Actions) /\ HeadSeq' = HeadSeq + 1 /\ HeadSeq' <= MaxSeq
        /\ \A s \in 1..HeadSeq : log'[s] = log[s]
        /\ raced \subseteq raced' /\ raced' \subseteq Pairs
        /\ owed \subseteq owed' /\ owed' \subseteq Pairs
        /\ \A p \in owed' \ owed :
              /\ watching /\ p[2] = HeadSeq' /\ enabled[p[1]]
              /\ log'[p[2]].event /\ Matches(p[1], log'[p[2]].cause)
              /\ Misses(p[1]) => p \in raced'
    BY CommitFacts DEF IInv
  <1>2. /\ watching' = watching /\ cursor' = cursor /\ holder' = holder /\ known' = known
        /\ page' = page /\ upto' = upto /\ enabled' = enabled /\ failures' = failures
        /\ run' = run /\ exec' = exec /\ overrun' = overrun
    BY DEF reader
  <1>3. TypeOK /\ HeadSeq \in Nat
    BY DEF IInv, TypeInv, TypeOK, HeadSeq
  <1>4. \A w \in Workers, q \in ReaderPhases :
            (phase'[w] = q <=> phase[w] = q) /\ (phase'[w] \in ReaderPhases <=> phase[w] \in ReaderPhases)
    BY DEF ReaderPhases
  <1>5. TypeInv'
    <2>1. \A s \in 1..HeadSeq' : log'[s] \in [event : BOOLEAN, cause : Rules \cup {User}]
      <3>1. log' \in Seq(Actions) /\ HeadSeq' = Len(log')
        BY <1>1 DEF HeadSeq
      <3>2. \A s \in 1..Len(log') : log'[s] \in Actions
        BY <3>1
      <3> QED
        BY <3>1, <3>2 DEF Actions
    <2>2. HeadSeq' \in 0..MaxSeq
      BY <1>1, <1>3
    <2>3. /\ cursor' \in 0..HeadSeq' /\ upto' \in [Workers -> 0..HeadSeq']
          /\ page' \in [Workers -> SUBSET (1..HeadSeq')]
      BY <1>1, <1>2, <1>3 DEF TypeOK
    <2>4. \A w \in Workers : phase'[w] \in ReaderPhases <=> holder' = w
      BY <1>2, <1>3, <1>4 DEF TypeOK, ReaderPhases
    <2> QED
      BY <1>1, <1>2, <1>3, <2>1, <2>2, <2>3, <2>4 DEF TypeInv, TypeOK
  <1>6. ExecInv'
    BY <1>2 DEF IInv, ExecInv
  <1>7. \A p \in owed : /\ p \in Pairs /\ p[2] \in 1..HeadSeq
                        /\ log'[p[2]] = log[p[2]]
    BY <1>1, <1>3 DEF IInv, OwedInv, TypeOK, Pairs, Seqs
  <1>8. OwedInv'
    <2>1. \A p \in owed' : p[2] <= HeadSeq' /\ log'[p[2]].event
                            /\ Matches(p[1], log'[p[2]].cause) /\ enabled'[p[1]]
      <3>1. \A p \in owed' \ owed : p[2] <= HeadSeq'
        BY <1>1, <1>3
      <3>2. \A p \in owed : p[2] <= HeadSeq' /\ log'[p[2]].event
                            /\ Matches(p[1], log'[p[2]].cause) /\ enabled[p[1]]
        BY <1>1, <1>3, <1>7 DEF IInv, OwedInv
      <3> QED
        BY <1>1, <1>2, <3>1, <3>2
    <2>2. ~watching' => owed' = {} /\ holder' = Nobody
      BY <1>1, <1>2 DEF IInv, OwedInv
    <2> QED
      BY <2>1, <2>2 DEF OwedInv, Matches
  <1>9. ReaderInv'
    <2> SUFFICES ASSUME NEW w \in Workers, NEW p \in owed' \ raced'
                 PROVE  /\ phase'[w] = "skip" => known'[w] = {}
                        /\ phase'[w] \in {"skip", "page"} /\ cursor' < p[2] => p[1] \in known'[w]
                        /\ phase'[w] = "head" /\ cursor' < p[2]
                              => p[1] \in known'[w] /\ p[2] \in page'[w]
                        /\ phase'[w] = "queue" /\ cursor' < p[2] /\ p[2] <= upto'[w]
                              => p[1] \in known'[w] /\ p[2] \in page'[w]
      BY <1>2, <1>4 DEF ReaderInv, IInv, ReaderPhases
    <2>1. CASE p \in owed
      BY <1>1, <1>2, <1>4, <2>1 DEF ReaderInv, IInv, ReaderPhases
    <2>2. CASE p \notin owed
      <3>1. p[2] = HeadSeq + 1 /\ ~Misses(p[1])
        BY <1>1, <2>2
      <3>2. phase[w] \in ReaderPhases => holder = w /\ w # Nobody
        BY <1>3, WorkerAssumption DEF TypeOK
      <3>3. upto[w] \in Nat /\ upto[w] <= HeadSeq
        BY <1>3 DEF TypeOK
      <3>4. phase[w] # "head" /\ (phase[w] \in {"skip", "page"} => p[1] \in known[w])
        BY <3>1, <3>2 DEF Misses, ReaderPhases
      <3>5. ~(p[2] <= upto[w])
        BY <1>3, <3>1, <3>3
      <3> QED
        BY <1>2, <1>4, <3>4, <3>5 DEF ReaderInv, IInv, ReaderPhases
    <2> QED
      BY <2>1, <2>2
  <1>10. EventsBehindCursorHaveRuns'
    <2>1. \A p \in owed' \ owed : ~(p[2] <= cursor)
      BY <1>1, <1>3 DEF TypeOK
    <2> QED
      BY <1>1, <1>2, <2>1 DEF IInv, EventsBehindCursorHaveRuns
  <1>11. PromptWorkersDoNotOverlap'
    BY <1>2 DEF IInv, PromptWorkersDoNotOverlap
  <1> QED
    BY <1>5, <1>6, <1>8, <1>9, <1>10, <1>11 DEF IInv

(* A person's command. *)
LEMMA UserCommandIInv == IInv /\ UserCommand => IInv'
  <1> SUFFICES ASSUME IInv, UserCommand PROVE IInv'
    OBVIOUS
  <1>1. PICK e \in BOOLEAN : Commit(e, User)
    BY DEF UserCommand
  <1>2. UNCHANGED <<enabled, failures, reader, run, exec, overrun, phase>>
    BY DEF UserCommand, runs
  <1>3. phase \in [Workers -> ReaderPhases \cup {"idle", "execute", "finish"}]
    BY DEF IInv, TypeInv, TypeOK
  <1> QED
    BY <1>1, <1>2, <1>3, CommitIInv

(* A rule's own command. *)
LEMMA ActIInv ==
    ASSUME IInv, NEW w \in Workers, Act(w)
    PROVE  IInv'
  <1>1. PICK e \in BOOLEAN : Commit(e, exec[w][1])
    BY DEF Act
  <1>2. /\ UNCHANGED <<enabled, failures, reader, run, exec, overrun>>
        /\ phase[w] = "execute" /\ phase' = [phase EXCEPT ![w] = "finish"]
    BY DEF Act, runs
  <1>3. /\ phase \in [Workers -> ReaderPhases \cup {"idle", "execute", "finish"}]
        /\ exec[w] \in Pairs
    BY <1>2 DEF IInv, TypeInv, TypeOK, ExecInv
  <1>4. exec[w][1] \in Rules \cup {User}
    BY <1>3 DEF Pairs
  <1>5. /\ phase' \in [Workers -> ReaderPhases \cup {"idle", "execute", "finish"}]
        /\ \A v \in Workers :
              phase'[v] = phase[v] \/ (phase[v] = "execute" /\ phase'[v] = "finish")
    <2>1. \A v \in Workers : phase'[v] = IF v = w THEN "finish" ELSE phase[v]
      BY <1>2, <1>3
    <2>2. phase' \in [Workers -> ReaderPhases \cup {"idle", "execute", "finish"}]
      BY <1>2, <1>3, Zenon
    <2>3. \A v \in Workers :
              phase'[v] = phase[v] \/ (phase[v] = "execute" /\ phase'[v] = "finish")
      BY <1>2, <2>1
    <2> QED
      BY <2>2, <2>3
  <1> QED
    BY <1>1, <1>2, <1>4, <1>5, CommitIInv

(***************************************************************************)
(* What a rule owes goes when the rule is disabled, and nothing else has   *)
(* to change: this serves SetState and the failure that disables a rule.   *)
(***************************************************************************)
LEMMA RulesIInv ==
    ASSUME IInv, UNCHANGED <<log, reader, phase, runs, raced, overrun>>,
           enabled' \in [Rules -> BOOLEAN], failures' \in [Rules -> 0..FailureLimit],
           owed' \subseteq owed,
           \A p \in owed' : enabled[p[1]] => enabled'[p[1]]
    PROVE  IInv'
  <1>1. /\ log' = log /\ HeadSeq' = HeadSeq /\ raced' = raced /\ overrun' = overrun
        /\ watching' = watching /\ cursor' = cursor /\ holder' = holder /\ known' = known
        /\ page' = page /\ upto' = upto /\ phase' = phase /\ run' = run /\ exec' = exec
    BY DEF reader, runs, HeadSeq
  <1>2. TypeInv'
    BY <1>1 DEF IInv, TypeInv, TypeOK
  <1>3. ExecInv' /\ PromptWorkersDoNotOverlap'
    BY <1>1 DEF IInv, ExecInv, PromptWorkersDoNotOverlap
  <1>4. OwedInv' /\ EventsBehindCursorHaveRuns'
    BY <1>1 DEF IInv, OwedInv, EventsBehindCursorHaveRuns, Matches
  <1>5. ReaderInv'
    BY <1>1 DEF IInv, ReaderInv
  <1> QED
    BY <1>2, <1>3, <1>4, <1>5 DEF IInv

(* SetState, by a person: enabling owes nothing, disabling forgives. *)
LEMMA SetStateIInv ==
    ASSUME IInv, NEW r \in Rules, Enable(r) \/ Disable(r)
    PROVE  IInv'
  <1>1. /\ enabled \in [Rules -> BOOLEAN] /\ failures \in [Rules -> 0..FailureLimit]
        /\ owed \subseteq Pairs
    BY DEF IInv, TypeInv, TypeOK
  <1>2. CASE Enable(r)
    <2>1. UNCHANGED <<log, reader, phase, runs, raced, overrun, owed, failures>>
      BY <1>2 DEF Enable, history
    <2>2. enabled' = [enabled EXCEPT ![r] = TRUE]
      BY <1>2 DEF Enable
    <2>3. enabled' \in [Rules -> BOOLEAN] /\ \A p \in owed : enabled[p[1]] => enabled'[p[1]]
      BY <1>1, <2>2 DEF Pairs
    <2> QED
      BY <1>1, <2>1, <2>3, RulesIInv
  <1>3. CASE Disable(r)
    <2>1. UNCHANGED <<log, reader, phase, runs, raced, overrun, failures>>
      BY <1>3 DEF Disable
    <2>2. enabled' = [enabled EXCEPT ![r] = FALSE] /\ owed' = owed \ ({r} \X Seqs)
      BY <1>3 DEF Disable
    <2>3. \A p \in owed' : p \in Pairs /\ p[1] # r
      BY <1>1, <2>2 DEF Pairs
    <2>4. enabled' \in [Rules -> BOOLEAN] /\ \A p \in owed' : enabled[p[1]] => enabled'[p[1]]
      BY <1>1, <2>2, <2>3 DEF Pairs
    <2> QED
      BY <1>1, <2>1, <2>2, <2>4, RulesIInv
  <1> QED
    BY <1>2, <1>3

(* The first look at a workspace sets the cursor before anything is owed. *)
LEMMA FirstLookIInv ==
    ASSUME IInv, NEW w \in Workers, FirstLook(w)
    PROVE  IInv'
  <1>1. /\ log' = log /\ HeadSeq' = HeadSeq /\ enabled' = enabled /\ failures' = failures
        /\ holder' = holder /\ known' = known /\ page' = page /\ upto' = upto
        /\ phase' = phase /\ run' = run /\ exec' = exec
        /\ owed' = owed /\ raced' = raced /\ overrun' = overrun
        /\ watching' = TRUE /\ cursor' = HeadSeq /\ ~watching
    BY DEF FirstLook, rulesAndLog, runs, history, HeadSeq
  <1>2. owed = {} /\ holder = Nobody /\ HeadSeq \in Nat
    BY <1>1 DEF IInv, OwedInv, TypeInv, TypeOK
  <1>3. TypeInv'
    BY <1>1, <1>2 DEF IInv, TypeInv, TypeOK
  <1>4. ExecInv' /\ PromptWorkersDoNotOverlap'
    BY <1>1 DEF IInv, ExecInv, PromptWorkersDoNotOverlap
  <1>5. OwedInv' /\ EventsBehindCursorHaveRuns' /\ ReaderInv'
    BY <1>1, <1>2 DEF IInv, OwedInv, EventsBehindCursorHaveRuns, ReaderInv
  <1> QED
    BY <1>3, <1>4, <1>5 DEF IInv

(***************************************************************************)
(* Steps of the owner of the cursor that move neither cursor nor runs:     *)
(* what is left to show is what it has read.                               *)
(***************************************************************************)
LEMMA ReadingIInv ==
    ASSUME IInv, NEW w \in Workers, watching,
           UNCHANGED <<rulesAndLog, watching, cursor, runs, history>>,
           holder' = w, holder \in {w, Nobody},
           exec[w] = NoRun,
           NEW q \in ReaderPhases, phase' = [phase EXCEPT ![w] = q],
           known' \in [Workers -> SUBSET Rules],
           page' \in [Workers -> SUBSET (1..HeadSeq)],
           upto' \in [Workers -> 0..HeadSeq],
           q = "skip" => known'[w] = {},
           \A p \in owed \ raced :
              /\ q \in {"skip", "page"} /\ cursor < p[2] => p[1] \in known'[w]
              /\ q = "head" /\ cursor < p[2] => p[1] \in known'[w] /\ p[2] \in page'[w]
              /\ q = "queue" /\ cursor < p[2] /\ p[2] <= upto'[w]
                    => p[1] \in known'[w] /\ p[2] \in page'[w]
    PROVE  IInv'
  <1>1. /\ log' = log /\ HeadSeq' = HeadSeq /\ enabled' = enabled /\ failures' = failures
        /\ watching' = watching /\ cursor' = cursor /\ run' = run /\ exec' = exec
        /\ owed' = owed /\ raced' = raced /\ overrun' = overrun
    BY DEF rulesAndLog, runs, history, HeadSeq
  <1>2. TypeOK
    BY DEF IInv, TypeInv
  <1>3. \A v \in Workers : phase'[v] = IF v = w THEN q ELSE phase[v]
    BY <1>2 DEF TypeOK
  <1>4. \A v \in Workers \ {w} : phase[v] \notin ReaderPhases
    BY <1>2, WorkerAssumption DEF TypeOK
  <1>5. TypeInv'
    <2>1. phase' \in [Workers -> ReaderPhases \cup {"idle", "execute", "finish"}]
      BY <1>2, Zenon DEF TypeOK
    <2>2. \A v \in Workers : phase'[v] \in ReaderPhases <=> holder' = v
      BY <1>3, <1>4
    <2> QED
      BY <1>1, <1>2, <2>1, <2>2 DEF IInv, TypeInv, TypeOK
  <1>6. ExecInv'
    BY <1>1, <1>3 DEF IInv, ExecInv, ReaderPhases
  <1>7. PromptWorkersDoNotOverlap' /\ EventsBehindCursorHaveRuns' /\ OwedInv'
    BY <1>1 DEF IInv, PromptWorkersDoNotOverlap, EventsBehindCursorHaveRuns, OwedInv, Matches
  <1>8. ReaderInv'
    BY <1>1, <1>3, <1>4 DEF ReaderInv, ReaderPhases
  <1> QED
    BY <1>5, <1>6, <1>7, <1>8 DEF IInv

(* FOR UPDATE SKIP LOCKED: only an idle worker takes a free cursor row. *)
LEMMA TakeCursorIInv ==
    ASSUME IInv, NEW w \in Workers, TakeCursor(w)
    PROVE  IInv'
  <1>1. /\ watching /\ holder = Nobody /\ holder' = w
        /\ phase' = [phase EXCEPT ![w] = "rules"] /\ exec[w] = NoRun
        /\ UNCHANGED <<rulesAndLog, watching, cursor, runs, history, known, page, upto>>
    BY DEF TakeCursor, IInv, ExecInv
  <1>2. /\ known \in [Workers -> SUBSET Rules] /\ page \in [Workers -> SUBSET (1..HeadSeq)]
        /\ upto \in [Workers -> 0..HeadSeq]
    BY DEF IInv, TypeInv, TypeOK
  <1>3. "rules" \in ReaderPhases
    BY DEF ReaderPhases
  <1> QED
    BY <1>1, <1>2, <1>3, ReadingIInv

(* What is owed belongs to enabled rules, so the rules read cover it. *)
LEMMA ReadRulesIInv ==
    ASSUME IInv, NEW w \in Workers, ReadRules(w)
    PROVE  IInv'
  <1> DEFINE found == {r \in Rules : enabled[r]}
             q == IF found = {} THEN "skip" ELSE "page"
  <1>1. /\ phase[w] = "rules" /\ holder = w /\ watching /\ exec[w] = NoRun
        /\ phase' = [phase EXCEPT ![w] = q] /\ known' = [known EXCEPT ![w] = found]
        /\ UNCHANGED <<rulesAndLog, watching, cursor, runs, history, holder, page, upto>>
    BY WorkerAssumption DEF ReadRules, IInv, ExecInv, TypeInv, TypeOK, OwedInv, ReaderPhases
  <1>2. /\ known \in [Workers -> SUBSET Rules] /\ page \in [Workers -> SUBSET (1..HeadSeq)]
        /\ upto \in [Workers -> 0..HeadSeq]
    BY DEF IInv, TypeInv, TypeOK
  <1>3. known' \in [Workers -> SUBSET Rules] /\ known'[w] = found
    BY <1>1, <1>2
  <1>4. \A p \in owed : p[1] \in found
    BY DEF IInv, OwedInv, TypeInv, TypeOK, Pairs
  <1>5. q \in {"skip", "page"} /\ q \in ReaderPhases /\ (q = "skip" => found = {})
    BY DEF ReaderPhases
  <1> HIDE DEF found, q
  <1> QED
    BY <1>1, <1>2, <1>3, <1>4, <1>5, ReadingIInv

(* The events of the page, and what of the owed ones is among them. *)
LEMMA PageFacts ==
    ASSUME IInv
    PROVE  LET S == EventsAfter(cursor)
               F == FirstOf(S, Batch) IN
           /\ F \subseteq 1..HeadSeq
           /\ \A p \in owed : cursor < p[2] => p[2] \in S
           /\ Cardinality(F) # Batch => F = S
           /\ Cardinality(F) = Batch =>
                 /\ Max(F) \in 0..HeadSeq
                 /\ \A s \in S : s <= Max(F) => s \in F
  <1> DEFINE S == EventsAfter(cursor)
             F == FirstOf(S, Batch)
  <1> USE BoundAssumption
  <1>1. /\ HeadSeq \in Nat /\ cursor \in 0..HeadSeq /\ Batch \in Nat
        /\ owed \subseteq Pairs
    BY DEF IInv, TypeInv, TypeOK
  <1>2. S \in SUBSET (1..HeadSeq)
    BY <1>1 DEF EventsAfter
  <1>3. \A p \in owed : cursor < p[2] => p[2] \in S
    BY <1>1 DEF EventsAfter, IInv, OwedInv, Pairs, Seqs
  <1> HIDE DEF S
  <1>4. /\ F \subseteq S
        /\ \A s \in F, t \in S : t <= s => t \in F
    BY <1>1, <1>2, PageIsPrefix
  <1>5. Cardinality(F) # Batch => F = S
    BY <1>1, <1>2, ShortPageIsAll
  <1> HIDE DEF F
  <1>6. ASSUME Cardinality(F) = Batch
        PROVE  Max(F) \in 0..HeadSeq /\ \A s \in S : s <= Max(F) => s \in F
    <2>1. F # {}
      BY <1>6, FS_EmptySet
    <2>2. F \in SUBSET (0..HeadSeq)
      BY <1>1, <1>2, <1>4
    <2>3. Max(F) \in F
      BY <1>1, <2>1, <2>2, MaxOf
    <2> QED
      BY <1>4, <2>2, <2>3
  <1>7. F \subseteq 1..HeadSeq
    BY <1>2, <1>4
  <1> QED
    BY <1>3, <1>5, <1>6, <1>7 DEF F, S

(* The SELECT of a page: full, it bounds the cursor; short, it is everything. *)
LEMMA ReadPageIInv ==
    ASSUME IInv, NEW w \in Workers, ReadPage(w)
    PROVE  IInv'
  <1> DEFINE S == EventsAfter(cursor)
             F == FirstOf(S, Batch)
             full == Cardinality(F) = Batch
             q == IF full THEN "queue" ELSE "head"
             u == IF full THEN Max(F) ELSE cursor
  <1>1. /\ phase[w] = "page" /\ holder = w /\ watching /\ exec[w] = NoRun
        /\ phase' = [phase EXCEPT ![w] = q] /\ page' = [page EXCEPT ![w] = F]
        /\ upto' = [upto EXCEPT ![w] = u]
        /\ UNCHANGED <<rulesAndLog, watching, cursor, runs, history, holder, known>>
    BY WorkerAssumption DEF ReadPage, IInv, ExecInv, TypeInv, TypeOK, OwedInv, ReaderPhases
  <1>2. /\ known \in [Workers -> SUBSET Rules] /\ page \in [Workers -> SUBSET (1..HeadSeq)]
        /\ upto \in [Workers -> 0..HeadSeq] /\ cursor \in 0..HeadSeq
    BY DEF IInv, TypeInv, TypeOK
  <1>3. /\ F \subseteq 1..HeadSeq
        /\ \A p \in owed : cursor < p[2] => p[2] \in S
        /\ ~full => F = S
        /\ full => Max(F) \in 0..HeadSeq /\ \A s \in S : s <= Max(F) => s \in F
    BY PageFacts
  <1>4. /\ q \in ReaderPhases /\ q \in {"queue", "head"}
        /\ q = "head" => F = S
        /\ u \in 0..HeadSeq
        /\ q = "queue" => \A s \in S : s <= u => s \in F
    BY <1>2, <1>3 DEF ReaderPhases
  <1> HIDE DEF S, F, full, q, u
  <1>5. /\ page' \in [Workers -> SUBSET (1..HeadSeq)] /\ page'[w] = F
        /\ upto' \in [Workers -> 0..HeadSeq] /\ upto'[w] = u
    BY <1>1, <1>2, <1>3, <1>4
  <1>6. \A p \in owed \ raced : cursor < p[2] => p[1] \in known'[w] /\ p[2] \in S
    BY <1>1, <1>3 DEF IInv, ReaderInv
  <1>7. known' \in [Workers -> SUBSET Rules]
    BY <1>1, <1>2
  <1>8. \A p \in owed \ raced :
            /\ q \in {"skip", "page"} /\ cursor < p[2] => p[1] \in known'[w]
            /\ q = "head" /\ cursor < p[2] => p[1] \in known'[w] /\ p[2] \in page'[w]
            /\ q = "queue" /\ cursor < p[2] /\ p[2] <= upto'[w]
                  => p[1] \in known'[w] /\ p[2] \in page'[w]
    BY <1>4, <1>5, <1>6
  <1>9. q = "skip" => known'[w] = {}
    BY <1>4
  <1> QED
    BY <1>1, <1>4, <1>5, <1>7, <1>8, <1>9, ReadingIInv

(* The head read after a short page: what came in between is in raced. *)
LEMMA ReadHeadIInv ==
    ASSUME IInv, NEW w \in Workers, ReadHead(w)
    PROVE  IInv'
  <1>1. /\ phase[w] = "head" /\ holder = w /\ watching /\ exec[w] = NoRun
        /\ phase' = [phase EXCEPT ![w] = "queue"]
        /\ upto' = [upto EXCEPT ![w] = Max({HeadSeq, cursor})]
        /\ UNCHANGED <<rulesAndLog, watching, cursor, runs, history, holder, known, page>>
    BY WorkerAssumption DEF ReadHead, IInv, ExecInv, TypeInv, TypeOK, OwedInv, ReaderPhases
  <1>2. /\ known \in [Workers -> SUBSET Rules] /\ page \in [Workers -> SUBSET (1..HeadSeq)]
        /\ upto \in [Workers -> 0..HeadSeq] /\ cursor \in 0..HeadSeq /\ HeadSeq \in Nat
    BY DEF IInv, TypeInv, TypeOK
  <1>3. Max({HeadSeq, cursor}) = HeadSeq
    BY <1>2, MaxPair
  <1>4. upto' \in [Workers -> 0..HeadSeq]
    BY <1>1, <1>2, <1>3
  <1>5. \A p \in owed \ raced : cursor < p[2] => p[1] \in known'[w] /\ p[2] \in page'[w]
    BY <1>1 DEF IInv, ReaderInv
  <1>6. "queue" \in ReaderPhases
    BY DEF ReaderPhases
  <1>7. known' \in [Workers -> SUBSET Rules] /\ page' \in [Workers -> SUBSET (1..HeadSeq)]
    BY <1>1, <1>2
  <1> QED
    BY <1>1, <1>4, <1>5, <1>6, <1>7, ReadingIInv

(***************************************************************************)
(* The owner lets go of the cursor: it has moved to n, and what is owed up *)
(* to n has runs.                                                          *)
(***************************************************************************)
LEMMA LetGoIInv ==
    ASSUME IInv, NEW w \in Workers, LetGo(w), holder = w,
           UNCHANGED <<rulesAndLog, watching, exec, history>>,
           cursor' \in 0..HeadSeq,
           run' \in [Rules -> [Seqs -> {"none", "PENDING", "RUNNING", "OLD", "FAILED", "DONE"}]],
           \A p \in Pairs : run[p[1]][p[2]] # "none" => run'[p[1]][p[2]] = run[p[1]][p[2]],
           \A p \in owed \ raced : p[2] <= cursor' => run'[p[1]][p[2]] # "none"
    PROVE  IInv'
  <1>1. /\ log' = log /\ HeadSeq' = HeadSeq /\ enabled' = enabled /\ failures' = failures
        /\ watching' = watching /\ exec' = exec
        /\ owed' = owed /\ raced' = raced /\ overrun' = overrun
    BY DEF rulesAndLog, history, HeadSeq
  <1>2. /\ holder' = Nobody /\ phase' = [phase EXCEPT ![w] = "idle"]
        /\ known' = [known EXCEPT ![w] = {}] /\ page' = [page EXCEPT ![w] = {}]
        /\ upto' = [upto EXCEPT ![w] = 0]
    BY DEF LetGo
  <1>3. TypeOK
    BY DEF IInv, TypeInv
  <1>4. \A v \in Workers : phase'[v] = IF v = w THEN "idle" ELSE phase[v]
    BY <1>2, <1>3 DEF TypeOK
  <1>5. \A v \in Workers : phase'[v] \notin ReaderPhases
    BY <1>3, <1>4 DEF TypeOK, ReaderPhases
  <1>6. TypeInv'
    <2>1. phase' \in [Workers -> ReaderPhases \cup {"idle", "execute", "finish"}]
      BY <1>2, <1>3, Zenon DEF TypeOK
    <2>2. \A v \in Workers : phase'[v] \in ReaderPhases <=> holder' = v
      BY <1>2, <1>5, WorkerAssumption
    <2>3. /\ known' \in [Workers -> SUBSET Rules]
          /\ page' \in [Workers -> SUBSET (1..HeadSeq)]
          /\ upto' \in [Workers -> 0..HeadSeq]
      BY <1>2, <1>3 DEF TypeOK
    <2> QED
      BY <1>1, <1>2, <1>3, <2>1, <2>2, <2>3 DEF IInv, TypeInv, TypeOK
  <1>7. ExecInv'
    <2>1. phase[w] \in ReaderPhases
      BY <1>3 DEF TypeOK
    <2> QED
      BY <1>1, <1>4, <2>1 DEF IInv, ExecInv, ReaderPhases
  <1>8. PromptWorkersDoNotOverlap'
    <2>1. \A v \in Workers : exec[v] # NoRun => exec[v] \in Pairs
      BY <1>3 DEF TypeOK
    <2>2. ASSUME NEW v \in Workers, exec[v] # NoRun, ~overrun
          PROVE  /\ run'[exec[v][1]][exec[v][2]] = "RUNNING"
                 /\ \A x \in Workers \ {v} : exec[x] # exec[v]
      <3>1. /\ run[exec[v][1]][exec[v][2]] = "RUNNING"
            /\ \A x \in Workers \ {v} : exec[x] # exec[v]
        BY <2>2 DEF IInv, PromptWorkersDoNotOverlap
      <3> QED
        BY <2>1, <2>2, <3>1
    <2> QED
      BY <1>1, <2>2 DEF PromptWorkersDoNotOverlap
  <1>9. OwedInv' /\ EventsBehindCursorHaveRuns'
    BY <1>1, <1>2 DEF IInv, OwedInv, EventsBehindCursorHaveRuns, Matches
  <1>10. ReaderInv'
    BY <1>5 DEF ReaderInv, ReaderPhases
  <1> QED
    BY <1>6, <1>7, <1>8, <1>9, <1>10 DEF IInv

(* With no rule enabled nothing is owed, and the cursor goes to the head. *)
LEMMA SkipToHeadIInv ==
    ASSUME IInv, NEW w \in Workers, SkipToHead(w)
    PROVE  IInv'
  <1>1. /\ phase[w] = "skip" /\ holder = w /\ LetGo(w)
        /\ cursor' = Max({cursor, HeadSeq})
        /\ UNCHANGED <<rulesAndLog, watching, run, exec, history>>
    BY DEF SkipToHead, IInv, TypeInv, TypeOK, ReaderPhases, runs
  <1>2. /\ cursor \in 0..HeadSeq /\ HeadSeq \in Nat
        /\ run \in [Rules -> [Seqs -> {"none", "PENDING", "RUNNING", "OLD", "FAILED", "DONE"}]]
        /\ owed \subseteq Pairs
    BY DEF IInv, TypeInv, TypeOK
  <1>3. cursor' \in 0..HeadSeq
    BY <1>1, <1>2, MaxPair
  <1>4. \A p \in owed \ raced : p[2] <= cursor
    BY <1>1, <1>2 DEF IInv, ReaderInv, Pairs, Seqs
  <1>5. \A p \in owed \ raced : run'[p[1]][p[2]] # "none"
    BY <1>1, <1>4 DEF IInv, EventsBehindCursorHaveRuns
  <1>6. run' = run
    BY <1>1
  <1> QED
    BY <1>1, <1>2, <1>3, <1>5, <1>6, LetGoIInv

(* Queue gives a run to every pair that the reader has found. *)
LEMMA QueueIInv ==
    ASSUME IInv, NEW w \in Workers, Queue(w)
    PROVE  IInv'
  <1> DEFINE Found(r, s) == run[r][s] = "none" /\ r \in known[w] /\ s \in page[w]
                           /\ Matches(r, log[s].cause)
  <1>1. /\ phase[w] = "queue" /\ holder = w /\ LetGo(w) /\ cursor' = upto[w]
        /\ run' = [r \in Rules |-> [s \in Seqs |->
                      IF Found(r, s) THEN "PENDING" ELSE run[r][s]]]
        /\ UNCHANGED <<rulesAndLog, watching, exec, history>>
    BY DEF Queue, IInv, TypeInv, TypeOK, ReaderPhases
  <1>2. /\ upto[w] \in 0..HeadSeq /\ HeadSeq \in Nat
        /\ run \in [Rules -> [Seqs -> States]] /\ owed \subseteq Pairs /\ cursor \in 0..HeadSeq
    BY DEF IInv, TypeInv, TypeOK, States
  <1>3. \A r \in Rules, s \in Seqs :
            run'[r][s] = IF Found(r, s) THEN "PENDING" ELSE run[r][s]
    BY <1>1
  <1>4. \A p \in owed : /\ p[1] \in Rules /\ p[2] \in Seqs /\ Matches(p[1], log[p[2]].cause)
    BY <1>2 DEF IInv, OwedInv, Pairs
  <1>5. \A p \in owed \ raced : cursor < p[2] /\ p[2] <= upto[w]
                                   => p[1] \in known[w] /\ p[2] \in page[w]
    BY <1>1 DEF IInv, ReaderInv
  <1>6. \A p \in owed \ raced : p[2] <= cursor => run[p[1]][p[2]] # "none"
    BY DEF IInv, EventsBehindCursorHaveRuns
  <1>7. \A p \in owed \ raced : p[2] <= cursor' => run'[p[1]][p[2]] # "none"
    <2> SUFFICES ASSUME NEW p \in owed \ raced, p[2] <= upto[w]
                 PROVE  run'[p[1]][p[2]] # "none"
      BY <1>1
    <2>1. p[2] \in Nat /\ (p[2] <= cursor \/ cursor < p[2])
      BY <1>2, <1>4 DEF Seqs
    <2> QED
      BY <1>3, <1>4, <1>5, <1>6, <2>1
  <1>8. \A p \in Pairs : run[p[1]][p[2]] # "none" => run'[p[1]][p[2]] = run[p[1]][p[2]]
    BY <1>3 DEF Pairs
  <1>9. run' \in [Rules -> [Seqs -> States]]
    BY <1>1, <1>2 DEF States
  <1>10. cursor' \in 0..HeadSeq
    BY <1>1, <1>2
  <1> QED
    BY <1>1, <1>7, <1>8, <1>9, <1>10, LetGoIInv DEF States
-----------------------------------------------------------------------------
(***************************************************************************)
(* Steps of a worker that does not own the cursor: they move runs on, let  *)
(* no owed run vanish and may take what a disabled rule owes.              *)
(***************************************************************************)
LEMMA ExecutorIInv ==
    ASSUME IInv, NEW w \in Workers, phase[w] \notin ReaderPhases,
           UNCHANGED <<log, reader, raced, overrun>>,
           NEW q \in {"idle", "execute", "finish"}, phase' = [phase EXCEPT ![w] = q],
           NEW x \in Pairs \cup {NoRun}, exec' = [exec EXCEPT ![w] = x],
           q \in {"execute", "finish"} <=> x # NoRun,
           enabled' \in [Rules -> BOOLEAN], failures' \in [Rules -> 0..FailureLimit],
           owed' \subseteq owed,
           \A p \in owed' : enabled[p[1]] => enabled'[p[1]],
           run' \in [Rules -> [Seqs -> States]],
           \A p \in Pairs : run[p[1]][p[2]] # "none" => run'[p[1]][p[2]] # "none",
           PromptWorkersDoNotOverlap'
    PROVE  IInv'
  <1>1. /\ log' = log /\ HeadSeq' = HeadSeq /\ raced' = raced /\ overrun' = overrun
        /\ watching' = watching /\ cursor' = cursor /\ holder' = holder /\ known' = known
        /\ page' = page /\ upto' = upto
    BY DEF reader, HeadSeq
  <1>2. TypeOK
    BY DEF IInv, TypeInv
  <1>3. \A v \in Workers : /\ phase'[v] = IF v = w THEN q ELSE phase[v]
                           /\ exec'[v] = IF v = w THEN x ELSE exec[v]
    BY <1>2 DEF TypeOK
  <1>4. q \notin ReaderPhases
    BY DEF ReaderPhases
  <1>5. TypeInv'
    <2>1. /\ phase' \in [Workers -> ReaderPhases \cup {"idle", "execute", "finish"}]
          /\ exec' \in [Workers -> Pairs \cup {NoRun}]
      BY <1>2, Zenon DEF TypeOK
    <2>2. \A v \in Workers : phase'[v] \in ReaderPhases <=> holder' = v
      BY <1>1, <1>2, <1>3, <1>4 DEF TypeOK
    <2>3. owed' \subseteq Pairs
      BY <1>2 DEF TypeOK
    <2> QED
      BY <1>1, <1>2, <2>1, <2>2, <2>3 DEF IInv, TypeInv, TypeOK, States
  <1>6. ExecInv'
    BY <1>3 DEF IInv, ExecInv
  <1>7. OwedInv'
    BY <1>1 DEF IInv, OwedInv, Matches
  <1>8. EventsBehindCursorHaveRuns'
    <2>1. owed \subseteq Pairs
      BY <1>2 DEF TypeOK
    <2> QED
      BY <1>1, <2>1 DEF IInv, EventsBehindCursorHaveRuns
  <1>9. ReaderInv'
    <2>1. \A v \in Workers : phase'[v] \in ReaderPhases => phase'[v] = phase[v]
      BY <1>3, <1>4
    <2>2. {"skip", "page", "head", "queue"} \subseteq ReaderPhases
      BY DEF ReaderPhases
    <2> QED
      BY <1>1, <2>1, <2>2 DEF IInv, ReaderInv
  <1> QED
    BY <1>5, <1>6, <1>7, <1>8, <1>9 DEF IInv

(* A claim takes a run that nobody executes, or one that has grown old. *)
LEMMA ClaimIInv ==
    ASSUME IInv, NEW w \in Workers, Claim(w)
    PROVE  IInv'
  <1>1. PICK p \in Pairs : /\ run[p[1]][p[2]] \in Claimable
                           /\ run' = [run EXCEPT ![p[1]][p[2]] = "RUNNING"]
                           /\ exec' = [exec EXCEPT ![w] = p]
    BY DEF Claim
  <1>2. /\ phase[w] = "idle" /\ phase' = [phase EXCEPT ![w] = "execute"]
        /\ UNCHANGED <<log, enabled, failures, reader, owed, raced, overrun>>
    BY DEF Claim, rulesAndLog
  <1>3. /\ run \in [Rules -> [Seqs -> States]] /\ exec \in [Workers -> Pairs \cup {NoRun}]
        /\ enabled \in [Rules -> BOOLEAN] /\ failures \in [Rules -> 0..FailureLimit]
    BY DEF IInv, TypeInv, TypeOK, States
  <1>4. p[1] \in Rules /\ p[2] \in Seqs /\ p = <<p[1], p[2]>> /\ p # NoRun
    BY RunAssumption DEF Pairs, Seqs
  <1>5. \A y \in Pairs : y[1] \in Rules /\ y[2] \in Seqs /\ y = <<y[1], y[2]>>
    BY DEF Pairs
  <1>6. \A y \in Pairs : run'[y[1]][y[2]] = IF y = p THEN "RUNNING" ELSE run[y[1]][y[2]]
    BY <1>1, <1>3, <1>4, <1>5
  <1>7. run' \in [Rules -> [Seqs -> States]]
    BY <1>1, <1>3, <1>4 DEF States
  <1>8. \A v \in Workers : exec'[v] = IF v = w THEN p ELSE exec[v]
    BY <1>1, <1>3
  <1>9. PromptWorkersDoNotOverlap'
    <2> SUFFICES ASSUME ~overrun, NEW v \in Workers, exec'[v] # NoRun
                 PROVE  /\ run'[exec'[v][1]][exec'[v][2]] = "RUNNING"
                        /\ \A y \in Workers \ {v} : exec'[y] # exec'[v]
      BY <1>2 DEF PromptWorkersDoNotOverlap
    <2>1. \A y \in Workers : exec[y] # NoRun =>
              /\ run[exec[y][1]][exec[y][2]] = "RUNNING"
              /\ \A z \in Workers \ {y} : exec[z] # exec[y]
      BY DEF IInv, PromptWorkersDoNotOverlap
    <2>2. run[p[1]][p[2]] # "RUNNING"
      BY <1>1 DEF Claimable
    <2>3. \A y \in Workers : exec[y] # p
      BY <1>4, <2>1, <2>2
    <2>4. exec'[v] \in Pairs
      BY <1>3, <1>8
    <2>5. run'[exec'[v][1]][exec'[v][2]] = "RUNNING"
      BY <1>6, <1>8, <2>1, <2>4
    <2>6. \A y \in Workers \ {v} : exec'[y] # exec'[v]
      BY <1>8, <2>1, <2>3
    <2> QED
      BY <2>5, <2>6
  <1>10. \A y \in Pairs : run[y[1]][y[2]] # "none" => run'[y[1]][y[2]] # "none"
    BY <1>6
  <1>11. phase[w] \notin ReaderPhases
    BY <1>2 DEF ReaderPhases
  <1> QED
    BY <1>1, <1>2, <1>3, <1>4, <1>7, <1>9, <1>10, <1>11, ExecutorIInv

(* finish: the run is marked, and the rule perhaps disabled. *)
LEMMA FinishIInv ==
    ASSUME IInv, NEW w \in Workers, phase[w] \in {"execute", "finish"}, LeaveRun(w),
           NEW st \in {"DONE", "FAILED"},
           run' = [run EXCEPT ![exec[w][1]][exec[w][2]] = st],
           UNCHANGED <<log, reader, raced, overrun>>,
           enabled' \in [Rules -> BOOLEAN], failures' \in [Rules -> 0..FailureLimit],
           owed' \subseteq owed,
           \A p \in owed' : enabled[p[1]] => enabled'[p[1]]
    PROVE  IInv'
  <1>1. exec' = [exec EXCEPT ![w] = NoRun] /\ phase' = [phase EXCEPT ![w] = "idle"]
    BY DEF LeaveRun
  <1>2. /\ run \in [Rules -> [Seqs -> States]] /\ exec \in [Workers -> Pairs \cup {NoRun}]
        /\ exec[w] # NoRun
    BY DEF IInv, TypeInv, TypeOK, States, ExecInv
  <1>3. exec[w] \in Pairs
    BY <1>2
  <1>4. \A y \in Pairs : y[1] \in Rules /\ y[2] \in Seqs /\ y = <<y[1], y[2]>>
    BY DEF Pairs
  <1>5. \A y \in Pairs : run'[y[1]][y[2]] = IF y = exec[w] THEN st ELSE run[y[1]][y[2]]
    BY <1>2, <1>3, <1>4
  <1>6. run' \in [Rules -> [Seqs -> States]]
    BY <1>2, <1>3, <1>4 DEF States
  <1>7. \A v \in Workers : exec'[v] = IF v = w THEN NoRun ELSE exec[v]
    BY <1>1, <1>2
  <1>8. PromptWorkersDoNotOverlap'
    <2> SUFFICES ASSUME ~overrun, NEW v \in Workers, exec'[v] # NoRun
                 PROVE  /\ run'[exec'[v][1]][exec'[v][2]] = "RUNNING"
                        /\ \A y \in Workers \ {v} : exec'[y] # exec'[v]
      BY DEF PromptWorkersDoNotOverlap
    <2>1. \A y \in Workers : exec[y] # NoRun =>
              /\ run[exec[y][1]][exec[y][2]] = "RUNNING"
              /\ \A z \in Workers \ {y} : exec[z] # exec[y]
      BY DEF IInv, PromptWorkersDoNotOverlap
    <2>2. v # w /\ exec'[v] = exec[v] /\ exec[v] \in Pairs /\ exec[v] # exec[w]
      BY <1>2, <1>7, <2>1
    <2> QED
      BY <1>5, <1>7, <2>1, <2>2
  <1>9. \A y \in Pairs : run[y[1]][y[2]] # "none" => run'[y[1]][y[2]] # "none"
    BY <1>5
  <1>10. phase[w] \notin ReaderPhases
    BY DEF ReaderPhases
  <1> QED
    BY <1>1, <1>6, <1>8, <1>9, <1>10, ExecutorIInv

(* Success: the run is done and the rule has no failures in a row. *)
LEMMA SucceedIInv ==
    ASSUME IInv, NEW w \in Workers, Succeed(w)
    PROVE  IInv'
  <1>1. /\ phase[w] \in {"execute", "finish"} /\ LeaveRun(w)
        /\ run' = [run EXCEPT ![exec[w][1]][exec[w][2]] = "DONE"]
        /\ failures' = [failures EXCEPT ![exec[w][1]] = 0]
        /\ UNCHANGED <<log, enabled, reader, owed, raced, overrun>>
    BY DEF Succeed
  <1>2. enabled \in [Rules -> BOOLEAN] /\ failures \in [Rules -> 0..FailureLimit]
    BY DEF IInv, TypeInv, TypeOK
  <1>3. failures' \in [Rules -> 0..FailureLimit]
    <2>1. 0 \in 0..FailureLimit
      BY BoundAssumption
    <2> QED
      BY <1>1, <1>2, <2>1, Zenon
  <1> QED
    BY <1>1, <1>2, <1>3, FinishIInv

(* Failure: the one that reaches the limit disables the rule. *)
LEMMA FailIInv ==
    ASSUME IInv, NEW w \in Workers, Fail(w)
    PROVE  IInv'
  <1> DEFINE r == exec[w][1]
             last == failures[r] + 1 >= FailureLimit
  <1>1. /\ phase[w] \in {"execute", "finish"} /\ LeaveRun(w)
        /\ run' = [run EXCEPT ![exec[w][1]][exec[w][2]] = "FAILED"]
        /\ UNCHANGED <<log, reader, raced, overrun>>
    BY DEF Fail
  <1>2. /\ failures' = [failures EXCEPT ![r] = IF last THEN FailureLimit ELSE failures[r] + 1]
        /\ enabled' = [enabled EXCEPT ![r] = enabled[r] /\ ~last]
        /\ owed' = IF last THEN owed \ ({r} \X Seqs) ELSE owed
    BY DEF Fail
  <1>3. /\ enabled \in [Rules -> BOOLEAN] /\ failures \in [Rules -> 0..FailureLimit]
        /\ owed \subseteq Pairs
    BY DEF IInv, TypeInv, TypeOK
  <1>4. r \in Rules
    <2>1. exec[w] \in Pairs
      BY <1>1 DEF IInv, TypeInv, TypeOK, ExecInv
    <2> QED
      BY <2>1 DEF Pairs
  <1>5. failures' \in [Rules -> 0..FailureLimit]
    <2> DEFINE n == IF last THEN FailureLimit ELSE failures[r] + 1
    <2>1. failures[r] \in 0..FailureLimit
      BY <1>3, <1>4
    <2>2. n \in 0..FailureLimit
      BY <2>1, BoundAssumption
    <2>3. failures' = [failures EXCEPT ![r] = n]
      BY <1>2
    <2> HIDE DEF n, r
    <2> QED
      BY <1>3, <2>2, <2>3
  <1> HIDE DEF last, r
  <1>6. enabled' \in [Rules -> BOOLEAN]
    <2>1. (enabled[r] /\ ~last) \in BOOLEAN
      OBVIOUS
    <2> QED
      BY <1>2, <1>3, <2>1, Zenon
  <1>7. owed' \subseteq owed
    BY <1>2
  <1>8. ASSUME NEW p \in owed', enabled[p[1]]
        PROVE  enabled'[p[1]]
    <2>1. p \in Pairs /\ p[1] \in Rules /\ p[2] \in Seqs /\ p = <<p[1], p[2]>>
      BY <1>3, <1>7 DEF Pairs
    <2>2. CASE last
      BY <1>2, <1>3, <1>8, <2>1, <2>2
    <2>3. CASE ~last
      BY <1>2, <1>3, <1>8, <2>1, <2>3
    <2> QED
      BY <2>2, <2>3
  <1> QED
    BY <1>1, <1>5, <1>6, <1>7, <1>8, FinishIInv

(***************************************************************************)
(* A crash rolls the transaction of the cursor's owner back, and leaves    *)
(* the run of an executor claimed.                                         *)
(***************************************************************************)
LEMMA CrashIInv ==
    ASSUME IInv, NEW w \in Workers, Crash(w)
    PROVE  IInv'
  <1>1. /\ exec' = [exec EXCEPT ![w] = NoRun]
        /\ UNCHANGED <<log, enabled, failures, watching, cursor, run, owed, raced, overrun>>
    BY DEF Crash, rulesAndLog
  <1>2. /\ run \in [Rules -> [Seqs -> States]] /\ exec \in [Workers -> Pairs \cup {NoRun}]
        /\ enabled \in [Rules -> BOOLEAN] /\ failures \in [Rules -> 0..FailureLimit]
        /\ cursor \in 0..HeadSeq
    BY DEF IInv, TypeInv, TypeOK, States
  <1>3. phase[w] \in ReaderPhases <=> holder = w
    BY DEF IInv, TypeInv, TypeOK
  <1>4. CASE holder = w
    <2>1. exec[w] = NoRun
      BY <1>3, <1>4 DEF IInv, ExecInv, ReaderPhases
    <2>2. exec' = exec
      BY <1>1, <1>2, <2>1
    <2>3. LetGo(w)
      BY <1>4 DEF Crash
    <2>4. \A p \in owed \ raced : p[2] <= cursor => run[p[1]][p[2]] # "none"
      BY DEF IInv, EventsBehindCursorHaveRuns
    <2>5. cursor' \in 0..HeadSeq
      BY <1>1, <1>2
    <2> QED
      BY <1>1, <1>2, <1>4, <2>2, <2>3, <2>4, <2>5, LetGoIInv DEF rulesAndLog, history, States
  <1>5. CASE holder # w
    <2>1. phase' = [phase EXCEPT ![w] = "idle"] /\ UNCHANGED reader
      BY <1>1, <1>5 DEF Crash, reader
    <2>2. PromptWorkersDoNotOverlap'
      BY <1>1, <1>2 DEF IInv, PromptWorkersDoNotOverlap
    <2>3. phase[w] \notin ReaderPhases
      BY <1>3, <1>5
    <2>4. NoRun \in Pairs \cup {NoRun}
      OBVIOUS
    <2> QED
      BY <1>1, <1>2, <2>1, <2>2, <2>3, <2>4, ExecutorIInv
  <1> QED
    BY <1>4, <1>5

(* Time passes: a claim that is still at work is noted as an overrun. *)
LEMMA ClaimGrowsOldIInv ==
    ASSUME IInv, NEW p \in Pairs, ClaimGrowsOld(p)
    PROVE  IInv'
  <1>1. /\ run' = [run EXCEPT ![p[1]][p[2]] = "OLD"]
        /\ overrun' = (overrun \/ (\E w \in Workers : exec[w] = p))
        /\ UNCHANGED <<rulesAndLog, reader, phase, exec, owed, raced>>
    BY DEF ClaimGrowsOld
  <1>2. /\ log' = log /\ HeadSeq' = HeadSeq /\ enabled' = enabled /\ failures' = failures
        /\ watching' = watching /\ cursor' = cursor /\ holder' = holder /\ known' = known
        /\ page' = page /\ upto' = upto /\ phase' = phase /\ exec' = exec
        /\ owed' = owed /\ raced' = raced
    BY <1>1 DEF rulesAndLog, reader, HeadSeq
  <1>3. /\ run \in [Rules -> [Seqs -> States]] /\ exec \in [Workers -> Pairs \cup {NoRun}]
        /\ overrun \in BOOLEAN /\ owed \subseteq Pairs
    BY DEF IInv, TypeInv, TypeOK, States
  <1>4. \A y \in Pairs : y[1] \in Rules /\ y[2] \in Seqs /\ y = <<y[1], y[2]>>
    BY DEF Pairs
  <1>5. \A y \in Pairs : run'[y[1]][y[2]] = IF y = p THEN "OLD" ELSE run[y[1]][y[2]]
    BY <1>1, <1>3, <1>4
  <1>6. TypeInv'
    <2>1. run' \in [Rules -> [Seqs -> States]]
      BY <1>1, <1>3, <1>4 DEF States
    <2>2. overrun' \in BOOLEAN
      BY <1>1, <1>3
    <2> QED
      BY <1>2, <2>1, <2>2 DEF IInv, TypeInv, TypeOK, States
  <1>7. ExecInv' /\ OwedInv' /\ ReaderInv'
    BY <1>2 DEF IInv, ExecInv, OwedInv, ReaderInv, Matches
  <1>8. EventsBehindCursorHaveRuns'
    BY <1>2, <1>3, <1>5 DEF IInv, EventsBehindCursorHaveRuns
  <1>9. PromptWorkersDoNotOverlap'
    <2> SUFFICES ASSUME ~overrun', NEW v \in Workers, exec[v] # NoRun
                 PROVE  /\ run'[exec[v][1]][exec[v][2]] = "RUNNING"
                        /\ \A y \in Workers \ {v} : exec[y] # exec[v]
      BY <1>2 DEF PromptWorkersDoNotOverlap
    <2>1. ~overrun /\ exec[v] # p /\ exec[v] \in Pairs
      BY <1>1, <1>3
    <2>2. /\ run[exec[v][1]][exec[v][2]] = "RUNNING"
          /\ \A y \in Workers \ {v} : exec[y] # exec[v]
      BY <2>1 DEF IInv, PromptWorkersDoNotOverlap
    <2> QED
      BY <1>5, <2>1, <2>2
  <1> QED
    BY <1>6, <1>7, <1>8, <1>9 DEF IInv

(* A step that changes nothing. *)
LEMMA StutterIInv == IInv /\ UNCHANGED vars => IInv'
  <1> SUFFICES ASSUME IInv, UNCHANGED vars PROVE IInv'
    OBVIOUS
  <1>1. /\ UNCHANGED <<log, enabled, failures>>
        /\ UNCHANGED <<watching, cursor, holder, known, page, upto, phase, run, exec>>
        /\ UNCHANGED <<owed, raced, overrun>>
    BY DEF vars, rulesAndLog, reader, runs, history
  <1>2. HeadSeq' = HeadSeq
    BY <1>1 DEF HeadSeq
  <1>3. TypeInv' /\ ExecInv' /\ OwedInv'
    BY <1>1, <1>2 DEF IInv, TypeInv, TypeOK, ExecInv, OwedInv, Matches
  <1>4. ReaderInv' /\ EventsBehindCursorHaveRuns' /\ PromptWorkersDoNotOverlap'
    BY <1>1, <1>2 DEF IInv, ReaderInv, EventsBehindCursorHaveRuns, PromptWorkersDoNotOverlap
  <1> QED
    BY <1>3, <1>4 DEF IInv

(***************************************************************************)
(* Every step of the reader, of the executors, of users and of time.       *)
(***************************************************************************)
LEMMA NextIInv == IInv /\ [Next]_vars => IInv'
  <1> SUFFICES ASSUME IInv, [Next]_vars PROVE IInv'
    OBVIOUS
  <1>1. CASE UserCommand
    BY <1>1, UserCommandIInv
  <1>2. CASE \E r \in Rules : Enable(r) \/ Disable(r)
    BY <1>2, SetStateIInv
  <1>3. CASE \E p \in Pairs : ClaimGrowsOld(p)
    BY <1>3, ClaimGrowsOldIInv
  <1>4. ASSUME NEW w \in Workers, Reader(w)
        PROVE  IInv'
    <2>1. CASE FirstLook(w)
      BY <2>1, FirstLookIInv
    <2>2. CASE TakeCursor(w)
      BY <2>2, TakeCursorIInv
    <2>3. CASE ReadRules(w)
      BY <2>3, ReadRulesIInv
    <2>4. CASE SkipToHead(w)
      BY <2>4, SkipToHeadIInv
    <2>5. CASE ReadPage(w)
      BY <2>5, ReadPageIInv
    <2>6. CASE ReadHead(w)
      BY <2>6, ReadHeadIInv
    <2>7. CASE Queue(w)
      BY <2>7, QueueIInv
    <2> QED
      BY <1>4, <2>1, <2>2, <2>3, <2>4, <2>5, <2>6, <2>7 DEF Reader
  <1>5. ASSUME NEW w \in Workers, Executor(w)
        PROVE  IInv'
    BY <1>5, ClaimIInv, ActIInv, SucceedIInv, FailIInv DEF Executor
  <1>6. ASSUME NEW w \in Workers, Crash(w)
        PROVE  IInv'
    BY <1>6, CrashIInv
  <1>7. CASE UNCHANGED vars
    BY <1>7, StutterIInv
  <1> QED
    BY <1>1, <1>2, <1>3, <1>4, <1>5, <1>6, <1>7 DEF Next
-----------------------------------------------------------------------------
(***************************************************************************)
(* What the cursor's owner has read covers what is owed, in every state    *)
(* the workers, the users and the crashes can reach.                       *)
(***************************************************************************)
THEOREM Invariance == Spec => []IInv
  <1>1. Init => IInv
    BY InitIInv
  <1>2. IInv /\ [Next]_vars => IInv'
    BY NextIInv
  <1> QED
    BY <1>1, <1>2, PTL DEF Spec

(* The types, and that the owner of the cursor row is the only reader. *)
THEOREM TypeCorrect == Spec => []TypeOK
  <1>1. IInv => TypeOK
    BY DEF IInv, TypeInv
  <1> QED
    BY <1>1, Invariance, PTL

(***************************************************************************)
(* enqueueEvents: no event that an enabled rule matches ends up behind the *)
(* cursor without a run, for any page size and number of workers, except   *)
(* those that commit between the statements of one batch.                  *)
(***************************************************************************)
THEOREM CursorLeavesNoEvent == Spec => []EventsBehindCursorHaveRuns
  <1>1. IInv => EventsBehindCursorHaveRuns
    BY DEF IInv
  <1> QED
    BY <1>1, Invariance, PTL

(***************************************************************************)
(* claim and finish: while no execution outlives its claim, a run is       *)
(* executed by one worker.                                                 *)
(***************************************************************************)
THEOREM PromptWorkersExclude == Spec => []PromptWorkersDoNotOverlap
  <1>1. IInv => PromptWorkersDoNotOverlap
    BY DEF IInv
  <1> QED
    BY <1>1, Invariance, PTL

-----------------------------------------------------------------------------
(***************************************************************************)
(* Planning.  The ranks come first: words in the order of Go's strings,    *)
(* what Mid finds between two of them, and the ends of a finite set.       *)
(***************************************************************************)
(* Least finds the smallest of some positions. *)
LEMMA LeastOf ==
    ASSUME NEW S \in SUBSET Nat, S # {}
    PROVE  Least(S) \in S /\ \A y \in S : Least(S) <= y
  BY SmallestOf DEF Least

(***************************************************************************)
(* Less is a strict total order of the words (Go compares strings so).     *)
(***************************************************************************)
LEMMA LessIrreflexive ==
    ASSUME NEW a \in Ranks
    PROVE  ~Less(a, a)
  <1>1. Len(a) \in Nat /\ \A n \in 1..Len(a) : a[n] \in Int
    BY AlphabetAssumption DEF Ranks, Letters
  <1> QED
    BY <1>1 DEF Less

(* Less is transitive: the first letter that differs decides. *)
LEMMA LessTransitive ==
    ASSUME NEW a \in Ranks, NEW b \in Ranks, NEW c \in Ranks, Less(a, b), Less(b, c)
    PROVE  Less(a, c)
  <1> USE AlphabetAssumption
  <1> DEFINE Differ(x, y, n) == /\ \A m \in 1..(n - 1) : m <= Len(x) /\ x[m] = y[m]
                                /\ n <= Len(x) => x[n] < y[n]
  <1>0. /\ Len(a) \in Nat /\ Len(b) \in Nat /\ Len(c) \in Nat
        /\ \A n \in 1..Len(a) : a[n] \in Int
        /\ \A n \in 1..Len(b) : b[n] \in Int
        /\ \A n \in 1..Len(c) : c[n] \in Int
    BY DEF Ranks, Letters
  <1>1. PICK n \in 1..Len(b) : Differ(a, b, n)
    BY DEF Less
  <1>2. PICK k \in 1..Len(c) : Differ(b, c, k)
    BY DEF Less
  <1>3. CASE k < n
    <2>1. k <= Len(a) /\ a[k] = b[k] /\ b[k] < c[k]
      BY <1>0, <1>1, <1>2, <1>3
    <2>2. \A m \in 1..(k - 1) : m <= Len(a) /\ a[m] = c[m]
      BY <1>0, <1>1, <1>2, <1>3
    <2> QED
      BY <2>1, <2>2 DEF Less
  <1>4. CASE k = n
    <2>1. k <= Len(a) => a[k] < c[k]
      BY <1>0, <1>1, <1>2, <1>4
    <2>2. \A m \in 1..(k - 1) : m <= Len(a) /\ a[m] = c[m]
      BY <1>0, <1>1, <1>2, <1>4
    <2> QED
      BY <2>1, <2>2 DEF Less
  <1>5. CASE n < k
    <2>1. n \in 1..Len(c) /\ b[n] = c[n] /\ (n <= Len(a) => a[n] < c[n])
      BY <1>0, <1>1, <1>2, <1>5
    <2>2. \A m \in 1..(n - 1) : m <= Len(a) /\ a[m] = c[m]
      BY <1>0, <1>1, <1>2, <1>5
    <2> QED
      BY <2>1, <2>2 DEF Less
  <1> QED
    BY <1>0, <1>3, <1>4, <1>5

(* Of two words one is below the other. *)
LEMMA LessTotal ==
    ASSUME NEW a \in Ranks, NEW b \in Ranks, a # b
    PROVE  Less(a, b) \/ Less(b, a)
  <1> DEFINE D == {n \in 1..(Len(a) + Len(b)) :
                      /\ n <= Len(a) \/ n <= Len(b)
                      /\ n <= Len(a) /\ n <= Len(b) => a[n] # b[n]}
  <1>0. /\ Len(a) \in Nat /\ Len(b) \in Nat
        /\ \A n \in 1..Len(a) : a[n] \in Int
        /\ \A n \in 1..Len(b) : b[n] \in Int
    BY AlphabetAssumption DEF Ranks, Letters
  <1>1. D # {}
    <2> SUFFICES ASSUME D = {} PROVE FALSE
      OBVIOUS
    <2>1. \A n \in 1..(Len(a) + Len(b)) : n <= Len(a) \/ n <= Len(b) =>
              n <= Len(a) /\ n <= Len(b) /\ a[n] = b[n]
      OBVIOUS
    <2>2. Len(a) = Len(b)
      BY <1>0, <2>1
    <2>3. \A n \in 1..Len(a) : a[n] = b[n]
      BY <1>0, <2>1
    <2> QED
      BY <2>2, <2>3, SeqEqual DEF Ranks
  <1>2. PICK n \in D : \A m \in D : n <= m
    BY <1>1, SmallestOf, D \in SUBSET Nat
  <1>3. \A m \in 1..(n - 1) : m <= Len(a) /\ m <= Len(b) /\ a[m] = b[m]
    <2> TAKE m \in 1..(n - 1)
    <2>1. m \notin D /\ m \in 1..(Len(a) + Len(b)) /\ (m <= Len(a) \/ m <= Len(b))
      BY <1>0, <1>2
    <2> QED
      BY <2>1
  <1>4. CASE n <= Len(a) /\ n <= Len(b)
    <2>1. n \in 1..Len(a) /\ n \in 1..Len(b) /\ (a[n] < b[n] \/ b[n] < a[n])
      BY <1>0, <1>2, <1>4
    <2> QED
      BY <1>3, <2>1 DEF Less
  <1>5. CASE ~(n <= Len(a))
    BY <1>0, <1>2, <1>3, <1>5 DEF Less
  <1>6. CASE ~(n <= Len(b))
    BY <1>0, <1>2, <1>3, <1>6 DEF Less
  <1> QED
    BY <1>4, <1>5, <1>6

(* What is not above a word is it or below it. *)
LEMMA LessOrSame ==
    ASSUME NEW a \in Ranks, NEW b \in Ranks, NEW c \in Ranks, ~Less(b, a), Less(b, c)
    PROVE  Less(a, c)
  BY LessTotal, LessTransitive

(***************************************************************************)
(* A strict order of a finite set that is not empty ends somewhere.        *)
(***************************************************************************)
LEMMA FiniteOrderEnds ==
    ASSUME NEW S, IsFiniteSet(S), S # {}, NEW R,
           \A x \in S : <<x, x>> \notin R,
           \A x, y, z \in S : <<x, y>> \in R /\ <<y, z>> \in R => <<x, z>> \in R
    PROVE  \E x \in S : \A y \in S : <<x, y>> \notin R
  <1> DEFINE Endless(T) == T # {} /\ \A x \in T : \E y \in T : <<x, y>> \in R
             Sizes == {Cardinality(T) : T \in {T \in SUBSET S : Endless(T)}}
  <1> SUFFICES ASSUME Endless(S) PROVE FALSE
    OBVIOUS
  <1>1. \A T \in SUBSET S : IsFiniteSet(T) /\ Cardinality(T) \in Nat
    BY FS_Subset, FS_CardinalityType
  <1>2. Sizes \in SUBSET Nat /\ Sizes # {}
    BY <1>1
  <1>3. PICK n \in Sizes : \A k \in Sizes : n <= k
    <2> HIDE DEF Sizes
    <2> QED
      BY <1>2, SmallestOf
  <1>4. PICK T \in SUBSET S : Endless(T) /\ Cardinality(T) = n
    BY <1>3
  <1>5. PICK x \in T : TRUE
    BY <1>4
  <1>6. T \ {x} \in SUBSET S /\ Cardinality(T \ {x}) < n
    <2>1. Cardinality(T \ {x}) = Cardinality(T) - 1
      BY <1>1, <1>5, FS_RemoveElement
    <2> QED
      BY <1>1, <1>4, <2>1
  <1>7. ~Endless(T \ {x})
    <2> SUFFICES ASSUME Endless(T \ {x}) PROVE FALSE
      OBVIOUS
    <2>1. Cardinality(T \ {x}) \in Sizes
      BY <1>6
    <2>2. n <= Cardinality(T \ {x})
      BY <1>3, <2>1
    <2>3. n \in Nat /\ Cardinality(T \ {x}) \in Nat
      BY <1>1, <1>4, <1>6
    <2> QED
      BY <1>6, <2>2, <2>3
  <1>8. T \ {x} # {}
    BY <1>4, <1>5
  <1>9. PICK y \in T \ {x} : \A z \in T \ {x} : <<y, z>> \notin R
    BY <1>7, <1>8
  <1>10. <<y, x>> \in R
    BY <1>4, <1>9
  <1>11. PICK z \in T : <<x, z>> \in R
    BY <1>4, <1>5
  <1>12. z # x /\ <<y, z>> \in R
    BY <1>4, <1>5, <1>9, <1>10, <1>11
  <1> QED
    BY <1>9, <1>12

(***************************************************************************)
(* Of finitely many words one is the last and one the first: the neighbour *)
(* that RankAround looks for is there.                                     *)
(***************************************************************************)
LEMMA EndRanks ==
    ASSUME NEW S \in SUBSET Ranks, IsFiniteSet(S), S # {}
    PROVE  /\ \E r \in S : \A q \in S : ~Less(r, q)
           /\ \E r \in S : \A q \in S : ~Less(q, r)
  <1> DEFINE Up == {p \in S \X S : Less(p[1], p[2])}
             Down == {p \in S \X S : Less(p[2], p[1])}
  <1>1. \A x \in S : ~Less(x, x)
    BY LessIrreflexive
  <1>2. \A x, y, z \in S : Less(x, y) /\ Less(y, z) => Less(x, z)
    BY LessTransitive
  <1>3. \A x, y \in S : (<<x, y>> \in Up <=> Less(x, y)) /\ (<<x, y>> \in Down <=> Less(y, x))
    OBVIOUS
  <1> HIDE DEF Up, Down
  <1>4. \E r \in S : \A q \in S : <<r, q>> \notin Up
    BY <1>1, <1>2, <1>3, FiniteOrderEnds
  <1>5. \E r \in S : \A q \in S : <<r, q>> \notin Down
    BY <1>1, <1>2, <1>3, FiniteOrderEnds
  <1> QED
    BY <1>3, <1>4, <1>5

-----------------------------------------------------------------------------
(* A word begins with another one's letters and goes below it. *)
LEMMA BeforeRank ==
    ASSUME NEW s \in Ranks, Before(s) # None
    PROVE  Before(s) \in Ranks /\ Less(Before(s), s)
  <1> USE AlphabetAssumption
  <1> DEFINE larger == {n \in 1..Len(s) : s[n] # 0}
             n == Least(larger)
             t == SubSeq(s, 1, n - 1) \o <<s[n] - 1, MaxChar>>
  <1>0. Len(s) \in Nat /\ \A m \in 1..Len(s) : s[m] \in Letters
    BY DEF Ranks
  <1>1. larger # {} /\ Before(s) = t
    BY DEF Before
  <1>2. n \in 1..Len(s) /\ s[n] # 0
    <2>1. larger \in SUBSET Nat
      OBVIOUS
    <2> HIDE DEF n
    <2>2. n \in larger
      BY <1>1, <2>1, LeastOf DEF n
    <2> QED
      BY <2>2
  <1> HIDE DEF n
  <1>3. s[n] - 1 \in Letters /\ MaxChar \in Letters
    BY <1>0, <1>2 DEF Letters, MaxChar
  <1>4. /\ SubSeq(s, 1, n - 1) \in Seq(Letters) /\ Len(SubSeq(s, 1, n - 1)) = n - 1
        /\ \A m \in 1..(n - 1) : SubSeq(s, 1, n - 1)[m] = s[m]
    BY <1>0, <1>2, SubSeqProperties DEF Ranks
  <1>5. <<s[n] - 1, MaxChar>> \in Seq(Letters)
    BY <1>3
  <1>6. t \in Seq(Letters) /\ Len(t) = n + 1 /\ t[n] = s[n] - 1 /\ \A m \in 1..(n - 1) : t[m] = s[m]
    BY <1>2, <1>4, <1>5
  <1> HIDE DEF t
  <1>7. t[n] < s[n]
    BY <1>0, <1>2, <1>6 DEF Letters
  <1> QED
    BY <1>1, <1>2, <1>6, <1>7 DEF Less, Ranks

(* It goes on where another one ends, or above it. *)
LEMMA AfterRank ==
    ASSUME NEW s \in Ranks
    PROVE  After(s) \in Ranks /\ After(s) # None /\ Less(s, After(s))
  <1> USE AlphabetAssumption
  <1> DEFINE smaller == {n \in 1..Len(s) : s[n] # MaxChar}
             last == CHOOSE n \in smaller : \A m \in smaller : m <= n
  <1>0. Len(s) \in Nat /\ \A m \in 1..Len(s) : s[m] \in Letters
    BY DEF Ranks
  <1>1. CASE smaller = {}
    <2> DEFINE t == s \o <<K \div 2>>
    <2>1. After(s) = t
      BY <1>1 DEF After
    <2>2. K \div 2 \in Letters
      BY DEF Letters
    <2>3. t \in Seq(Letters) /\ Len(t) = Len(s) + 1 /\ \A m \in 1..Len(s) : t[m] = s[m]
      BY <1>0, <2>2 DEF Ranks
    <2> HIDE DEF t
    <2> QED
      BY <1>0, <2>1, <2>3 DEF Less, Ranks, None
  <1>2. CASE smaller # {}
    <2> DEFINE t == SubSeq(s, 1, last - 1) \o <<s[last] + 1>>
    <2>1. After(s) = t
      BY <1>2 DEF After
    <2>2. last \in 1..Len(s) /\ s[last] # MaxChar
      <3>1. smaller \in SUBSET (0..Len(s))
        BY <1>0
      <3> HIDE DEF smaller
      <3>2. \E n \in smaller : \A m \in smaller : m <= n
        BY <1>0, <1>2, <3>1, LargestOf
      <3>3. last \in smaller
        BY <3>2
      <3> QED
        BY <3>3 DEF smaller
    <2> HIDE DEF last
    <2>3. s[last] + 1 \in Letters
      BY <1>0, <2>2 DEF Letters, MaxChar
    <2>4. /\ SubSeq(s, 1, last - 1) \in Seq(Letters) /\ Len(SubSeq(s, 1, last - 1)) = last - 1
          /\ \A m \in 1..(last - 1) : SubSeq(s, 1, last - 1)[m] = s[m]
      BY <1>0, <2>2, SubSeqProperties DEF Ranks
    <2>5. /\ t \in Seq(Letters) /\ Len(t) = last /\ t[last] = s[last] + 1
          /\ \A m \in 1..(last - 1) : t[m] = s[m]
      BY <2>2, <2>3, <2>4
    <2> HIDE DEF t
    <2>6. s[last] < t[last]
      BY <1>0, <2>2, <2>5 DEF Letters
    <2> QED
      BY <1>0, <2>1, <2>2, <2>5, <2>6 DEF Less, Ranks, None
  <1> QED
    BY <1>1, <1>2

(***************************************************************************)
(* What Between answers lies strictly between.  It goes with the lower     *)
(* word until the other one is two letters ahead.  Where they part first,  *)
(* or, if the lower word is the beginning of the other one, at the next    *)
(* letter of that one that is not the smallest, the answer is below it.    *)
(***************************************************************************)
LEMMA BetweenRank ==
    ASSUME NEW a \in Ranks, NEW b \in Ranks, Less(a, b), Between(a, b) # None
    PROVE  /\ Between(a, b) \in Ranks
           /\ Less(a, Between(a, b)) /\ Less(Between(a, b), b)
  <1> USE AlphabetAssumption
  <1> DEFINE Low(x) == IF x <= Len(a) THEN a[x] ELSE 0
             High(x) == IF x <= Len(b) THEN b[x] ELSE b[Len(b)]
             Stuck(x) == x <= Len(b) /\ High(x) < Low(x)
             Room(x) == High(x) - Low(x) >= 2
             stops == {x \in 1..(Len(a) + Len(b) + 10) : Stuck(x) \/ Room(x)}
             n == Least(stops)
             c == [m \in 1..(n - 1) |-> Low(m)] \o <<(Low(n) + High(n)) \div 2>>
  <1>0. /\ Len(a) \in Nat /\ Len(b) \in Nat
        /\ \A m \in 1..Len(a) : a[m] \in Letters
        /\ \A m \in 1..Len(b) : b[m] \in Letters
    BY DEF Ranks
  <1>1. stops # {} /\ ~Stuck(n) /\ Between(a, b) = c
    BY DEF Between
  <1>2. n \in stops /\ \A m \in stops : n <= m
    <2>1. stops \in SUBSET Nat
      BY <1>0
    <2> HIDE DEF stops
    <2> QED
      BY <1>1, <2>1, LeastOf
  <1> HIDE DEF n
  <1>3. PICK d \in 1..Len(b) : /\ \A m \in 1..(d - 1) : m <= Len(a) /\ a[m] = b[m]
                               /\ d <= Len(a) => a[d] < b[d]
    BY DEF Less
  <1>4. \A m \in Nat \ {0} : Low(m) \in Letters /\ High(m) \in Letters
    BY <1>0, <1>3 DEF Letters
  <1>5. /\ n \in Nat \ {0} /\ n <= Len(a) + Len(b) + 10 /\ Room(n)
        /\ \A m \in 1..(n - 1) : ~Room(m) /\ (m <= Len(b) => Low(m) <= High(m))
    <2>1. n \in Nat \ {0} /\ n <= Len(a) + Len(b) + 10 /\ Room(n)
      BY <1>0, <1>1, <1>2
    <2>2. ASSUME NEW m \in 1..(n - 1) PROVE ~Room(m) /\ (m <= Len(b) => Low(m) <= High(m))
      <3>1. m \notin stops /\ m \in 1..(Len(a) + Len(b) + 10)
        BY <1>0, <1>2, <2>1
      <3>2. Low(m) \in Int /\ High(m) \in Int
        BY <1>4 DEF Letters
      <3> HIDE DEF Low, High
      <3> QED
        BY <3>1, <3>2
    <2> QED
      BY <2>1, <2>2
  <1>6. /\ c \in Seq(Letters) /\ Len(c) = n
        /\ \A m \in 1..(n - 1) : c[m] = Low(m)
        /\ Low(n) < c[n] /\ c[n] < High(n)
    <2> DEFINE mid == (Low(n) + High(n)) \div 2
               start == [m \in 1..(n - 1) |-> Low(m)]
    <2>1. Low(n) \in Letters /\ High(n) \in Letters /\ Room(n)
      BY <1>4, <1>5
    <2>2. start \in Seq(Letters) /\ Len(start) = n - 1
      <3>1. \A m \in 1..(n - 1) : Low(m) \in Letters
        BY <1>4, <1>5
      <3> HIDE DEF Low
      <3>2. start \in [1..(n - 1) -> Letters] /\ n - 1 \in Nat
        BY <1>5, <3>1
      <3> QED
        BY <3>2
    <2> HIDE DEF Low, High
    <2>3. mid \in Letters /\ Low(n) < mid /\ mid < High(n)
      BY <2>1 DEF Letters
    <2>4. c = start \o <<mid>> /\ \A m \in 1..(n - 1) : start[m] = Low(m)
      OBVIOUS
    <2> HIDE DEF c, start, mid
    <2>5. c \in Seq(Letters) /\ Len(c) = n /\ c[n] = mid /\ \A m \in 1..(n - 1) : c[m] = start[m]
      BY <1>5, <2>2, <2>3, <2>4
    <2> QED
      BY <2>3, <2>4, <2>5
  <1> HIDE DEF c
  <1>7. Less(a, c)
    <2>1. CASE n <= Len(a)
      <3>1. n \in 1..Len(c) /\ a[n] < c[n]
        BY <1>5, <1>6, <2>1
      <3>2. \A m \in 1..(n - 1) : m <= Len(a) /\ a[m] = c[m]
        BY <1>0, <1>5, <1>6, <2>1
      <3> QED
        BY <3>1, <3>2 DEF Less
    <2>2. CASE ~(n <= Len(a))
      <3>1. Len(a) + 1 \in 1..Len(c)
        BY <1>0, <1>5, <1>6, <2>2
      <3>2. \A m \in 1..((Len(a) + 1) - 1) : m <= Len(a) /\ a[m] = c[m]
        BY <1>0, <1>5, <1>6, <2>2
      <3>3. ~(Len(a) + 1 <= Len(a))
        BY <1>0
      <3> QED
        BY <3>1, <3>2, <3>3 DEF Less
    <2> QED
      BY <2>1, <2>2
  <1>8. Less(c, b)
    <2> DEFINE larger == {x \in 1..Len(b) : d <= x /\ Low(x) # b[x]}
    <2>1. d <= n
      <3> SUFFICES ASSUME n < d PROVE FALSE
        BY <1>0, <1>5
      <3>1. n <= Len(a) /\ n <= Len(b) /\ a[n] = b[n]
        BY <1>0, <1>3, <1>5
      <3> QED
        BY <1>0, <1>3, <1>5, <3>1 DEF Letters
    <2>2. \A m \in 1..(d - 1) : m <= Len(b) /\ Low(m) = b[m]
      BY <1>0, <1>3
    <2>3. larger # {}
      <3> SUFFICES ASSUME larger = {} PROVE FALSE
        OBVIOUS
      <3>1. \A x \in d..Len(b) : Low(x) = b[x]
        BY <1>0, <1>3
      <3>2. ~(d <= Len(a)) /\ Len(b) \in d..Len(b)
        BY <1>0, <1>3, <3>1 DEF Letters
      <3>3. \A x \in Nat : x >= d => Low(x) = 0
        BY <1>0, <1>3, <3>2
      <3>4. b[Len(b)] = 0 /\ \A x \in d..Len(b) : b[x] = 0
        BY <1>0, <1>3, <3>1, <3>2, <3>3
      <3>5. High(n) = 0 /\ Low(n) = 0
        BY <1>0, <1>3, <1>5, <2>1, <3>3, <3>4
      <3> QED
        BY <1>5, <3>5
    <2>4. PICK p \in larger : \A x \in larger : p <= x
      <3>1. larger \in SUBSET Nat
        OBVIOUS
      <3> HIDE DEF larger
      <3> QED
        BY <2>3, <3>1, SmallestOf
    <2>5. \A m \in 1..(p - 1) : m <= Len(b) /\ Low(m) = b[m]
      <3> TAKE m \in 1..(p - 1)
      <3>1. CASE m < d
        BY <1>0, <1>3, <2>2, <3>1
      <3>2. CASE d <= m
        <4>1. m \notin larger /\ m \in 1..Len(b)
          BY <1>0, <1>3, <2>4, <3>2
        <4> QED
          BY <3>2, <4>1
      <3> QED
        BY <1>3, <3>1, <3>2
    <2>6. p <= n
      <3> SUFFICES ASSUME n < p PROVE FALSE
        BY <1>5, <2>4
      <3>1. n \in 1..(p - 1)
        BY <1>5, <2>4
      <3>2. n <= Len(b) /\ Low(n) = b[n] /\ High(n) = b[n]
        BY <2>5, <3>1
      <3> QED
        BY <1>4, <1>5, <3>2 DEF Letters
    <2>7. \A m \in 1..(p - 1) : m <= Len(c) /\ c[m] = b[m]
      BY <1>5, <1>6, <2>4, <2>5, <2>6
    <2>8. CASE p = n
      <3>1. c[p] < b[p]
        BY <1>6, <2>4, <2>8
      <3> QED
        BY <2>4, <2>7, <3>1 DEF Less
    <2>9. CASE p < n
      <3>1. p \in 1..(n - 1) /\ p <= Len(b) /\ High(p) = b[p]
        BY <1>0, <1>5, <2>4, <2>9
      <3>2. Low(p) <= b[p] /\ c[p] = Low(p) /\ Low(p) # b[p]
        BY <1>5, <1>6, <2>4, <3>1
      <3>3. c[p] < b[p]
        BY <1>4, <3>1, <3>2 DEF Letters
      <3> QED
        BY <2>4, <2>7, <3>3 DEF Less
    <2> QED
      BY <1>5, <2>4, <2>6, <2>8, <2>9
  <1> QED
    BY <1>1, <1>6, <1>7, <1>8 DEF Ranks

(***************************************************************************)
(* lexorank.Mid: a word it finds is past the lower neighbour and before    *)
(* the upper one, whichever of them there are.                             *)
(***************************************************************************)
THEOREM MidIsBetween ==
    ASSUME NEW lo \in Ranks, NEW hi \in Ranks
    PROVE  /\ Mid(lo, hi) \in Ranks
           /\ Mid(lo, hi) # None => /\ lo # None => Less(lo, Mid(lo, hi))
                                    /\ hi # None => Less(Mid(lo, hi), hi)
  <1>0. None \in Ranks /\ <<U>> \in Ranks
    BY AlphabetAssumption DEF None, Ranks, Letters
  <1>1. CASE lo = None /\ hi = None
    BY <1>0, <1>1 DEF Mid
  <1>2. CASE lo = None /\ hi # None
    BY <1>0, <1>2, BeforeRank DEF Mid
  <1>3. CASE lo # None /\ hi = None
    BY <1>3, AfterRank DEF Mid
  <1>4. CASE lo # None /\ hi # None
    BY <1>0, <1>4, BetweenRank DEF Mid
  <1> QED
    BY <1>1, <1>2, <1>3, <1>4

-----------------------------------------------------------------------------
(***************************************************************************)
(* The inductive invariant of Planning.                                    *)
(***************************************************************************)
(* An action of the log about a sprint and a work item. *)
SprintActions == [sprint : Sprints, issue : Issues, in : BOOLEAN, at : Times]

(* Types, without the locks. *)
PlanningValues ==
    /\ state \in [Sprints -> {"none", "future", "active", "closed", "deleted"}]
    /\ closedAt \in [Sprints -> Times] /\ now \in Times
    /\ planned \in [Sprints -> SUBSET Issues]
    /\ rank \in [Issues -> Ranks]
    /\ actions \in Seq(SprintActions)
    /\ pc \in [Movers -> {"idle", "begun", "locked", "counting", "cleared", "updating"}]
    /\ job \in [Movers -> Jobs]
    /\ blurred \in SUBSET Sprints

(* What two requests hold does not clash. *)
Apart(m, n) ==
    /\ Moving(m) /\ Moving(n) => job[m].issue # job[n].issue
    /\ Updating(m) /\ Updating(n) =>
          /\ job[m].sprint # job[n].sprint
          /\ job[m].to = "deleted" \/ job[n].to = "deleted"
    /\ pc[m] = "counting" => pc[n] # "counting"

LockInv == \A m, n \in Movers : m # n => Apart(m, n)

(* What a request is about, in every step of it. *)
RequestOK(m) ==
    /\ pc[m] = "idle" => job[m] = NoJob
    /\ pc[m] = "begun" => IF job[m].to = "none" THEN job[m].issue \in Issues
                                                ELSE job[m].sprint \in Sprints
    /\ Moving(m) => job[m].to = "none" /\ job[m].issue \in Issues
    /\ Updating(m) => job[m].to # "none" /\ job[m].sprint \in Sprints
    /\ pc[m] = "cleared" => job[m].issue \in Issues /\ job[m].rank # None
    /\ job[m].sprint # Backlog => state[job[m].sprint] # "none"

(* A move takes its work item out of every other open sprint; it has read  *)
(* no sprint as open that has been completed since, unless that is noted.  *)
MoveOK(m) ==
    Moving(m) =>
        /\ job[m].sprint \notin job[m].prev
        /\ \A s \in job[m].prev : Exists(s)
        /\ \A s, t \in job[m].prev : s = t
        /\ \A s \in Sprints \ {job[m].sprint} : Open(s) /\ job[m].issue \in planned[s] => s \in job[m].prev
        /\ \A s \in Sprints \ blurred : state[s] = "closed" => job[m].sprint # s /\ s \notin job[m].prev

(* What the checks of UpdateSprint and DeleteSprint have found still holds. *)
UpdateOK(m) ==
    Updating(m) =>
        /\ Allowed(job[m].sprint, job[m].to)
        /\ \/ job[m].to # "active" \/ ParallelSprints
           \/ state[job[m].sprint] = "active" \/ ~OtherActive(job[m].sprint)

(* The rank that was worked out is where the request asked for. *)
RankOK(m) ==
    job[m].fresh =>
        /\ job[m].issue \in Issues /\ job[m].rank # None
        /\ Placed([rank EXCEPT ![job[m].issue] = job[m].rank],
                  job[m].issue, job[m].after, job[m].before, job[m].around)

OwnOK(m) == RequestOK(m) /\ MoveOK(m) /\ UpdateOK(m) /\ RankOK(m)

(***************************************************************************)
(* The log and the memberships: the last action about a work item and a    *)
(* sprint says whether it is in it, and the log of a completed sprint has  *)
(* nothing that is later than its completion, unless that is noted.        *)
(***************************************************************************)
Entries(s, i) == {k \in 1..Len(actions) : actions[k].sprint = s /\ actions[k].issue = i}
LastSays(s, i, in) ==
    \E k \in Entries(s, i) : actions[k].in = in /\ \A j \in Entries(s, i) : j <= k

Told(s, i) ==
    /\ state[s] = "none" => i \notin planned[s] /\ Entries(s, i) = {}
    /\ Exists(s) => IF i \in planned[s] THEN LastSays(s, i, TRUE)
                                        ELSE Entries(s, i) = {} \/ LastSays(s, i, FALSE)

BookInv == \A s \in Sprints, i \in Issues : Told(s, i)

ClosedInv ==
    \A s \in Sprints \ blurred : state[s] = "closed" =>
        \A k \in 1..Len(actions) : actions[k].sprint = s => actions[k].at <= closedAt[s]

WordsInv == \A i \in Issues : rank[i] # None

SprintsInv == OneOpenSprint /\ OneActiveSprint /\ BookInv /\ ClosedInv

PlanningIInv ==
    /\ PlanningValues /\ LockInv /\ WordsInv /\ SprintsInv
    /\ \A m \in Movers : OwnOK(m)

-----------------------------------------------------------------------------
(* No lock has two holders. *)
LEMMA LocksAreExclusive ==
    ASSUME LockInv
    PROVE  /\ \A i \in Issues : Exclusive(ItemLockers(i))
           /\ Exclusive(BoardLockers) /\ Exclusive(CounterHolders)
           /\ \A s \in Sprints : Exclusive(SprintLockers(s))
  BY DEF LockInv, Apart, Exclusive, ItemLockers, SprintLockers, BoardLockers, CounterHolders

(* What the lock invariant says of one request and another, said of the locks. *)
LEMMA PlanInvFollows == PlanningIInv => PlanInv
  <1> SUFFICES ASSUME PlanningIInv PROVE PlanInv
    OBVIOUS
  <1>1. PlanningTypeOK
    BY LocksAreExclusive DEF PlanningIInv, PlanningValues, PlanningTypeOK, SprintActions
  <1> QED
    BY <1>1 DEF PlanningIInv, SprintsInv, PlanInv

(* A replay that stops at no action ends with the last one. *)
LEMMA ReportFollows == PlanningIInv => ReportIsTheSprint
  <1> SUFFICES ASSUME PlanningIInv, NEW s \in Sprints \ blurred, state[s] = "closed", NEW i \in Issues
               PROVE  Reported(s, i, closedAt[s]) <=> i \in planned[s]
    BY DEF ReportIsTheSprint
  <1> DEFINE end == closedAt[s]
             of == {k \in 1..Len(actions) : actions[k].sprint = s /\ actions[k].issue = i}
             upTo == {k \in of : \A j \in of : j <= k => actions[j].at <= end}
  <1>1. \A k \in 1..Len(actions) : actions[k].sprint = s => actions[k].at <= end
    BY DEF PlanningIInv, SprintsInv, ClosedInv
  <1>2. upTo = Entries(s, i) /\ of = Entries(s, i)
    BY <1>1 DEF Entries
  <1>3. Told(s, i) /\ Exists(s)
    BY DEF PlanningIInv, SprintsInv, BookInv, Exists
  <1>4. Reported(s, i, end) <=> upTo # {} /\ actions[CHOOSE k \in upTo : \A j \in upTo : j <= k].in
    BY DEF Reported
  <1>5. \A k \in Entries(s, i) : k \in Nat
    BY DEF Entries
  <1>6. ASSUME NEW in \in BOOLEAN, LastSays(s, i, in)
        PROVE  Reported(s, i, end) <=> in
    <2>1. PICK k \in Entries(s, i) : actions[k].in = in /\ \A j \in Entries(s, i) : j <= k
      BY <1>6 DEF LastSays
    <2>2. \A l \in Entries(s, i) : (\A j \in Entries(s, i) : j <= l) => l = k
      BY <1>5, <2>1
    <2>3. (CHOOSE l \in Entries(s, i) : \A j \in Entries(s, i) : j <= l) = k
      BY <2>1, <2>2
    <2> HIDE DEF of, upTo, end
    <2> QED
      BY <1>2, <1>4, <2>1, <2>3
  <1>7. CASE i \in planned[s]
    BY <1>3, <1>6, <1>7 DEF Told
  <1>8. CASE i \notin planned[s] /\ LastSays(s, i, FALSE)
    BY <1>6, <1>8
  <1>9. CASE i \notin planned[s] /\ Entries(s, i) = {}
    BY <1>2, <1>4, <1>9
  <1> QED
    BY <1>3, <1>7, <1>8, <1>9 DEF Told

(* Nobody has asked for anything at first. *)
LEMMA InitPlanningIInv == InitPlanning => PlanningIInv
  <1> SUFFICES ASSUME InitPlanning PROVE PlanningIInv
    OBVIOUS
  <1> USE AlphabetAssumption, PlanningAssumption
  <1>1. NoJob \in Jobs
    BY DEF NoJob, Jobs, Times, Ranks, None
  <1>2. <<U>> \in Ranks /\ <<U>> # None
    BY DEF Ranks, Letters, None
  <1>3. PlanningValues
    BY <1>1, <1>2 DEF InitPlanning, PlanningValues, Times
  <1>4. LockInv
    BY DEF InitPlanning, LockInv, Apart, Moving, Updating
  <1>5. WordsInv
    BY <1>2 DEF InitPlanning, WordsInv
  <1>6. SprintsInv
    BY DEF InitPlanning, SprintsInv, OneOpenSprint, OneActiveSprint, BookInv, ClosedInv, Told,
           Entries, Exists, Open
  <1>7. \A m \in Movers : OwnOK(m)
    BY DEF InitPlanning, OwnOK, RequestOK, MoveOK, UpdateOK, RankOK, NoJob, Moving, Updating
  <1> QED
    BY <1>3, <1>4, <1>5, <1>6, <1>7 DEF PlanningIInv

(* What a request relies on stays while neither it nor the tables change. *)
LEMMA OwnKept ==
    ASSUME NEW n \in Movers, OwnOK(n), UNCHANGED <<state, planned, rank, blurred>>,
           pc'[n] = pc[n], job'[n] = job[n]
    PROVE  OwnOK(n)'
  BY DEF OwnOK, RequestOK, MoveOK, UpdateOK, RankOK, Moving, Updating, Exists, Open, Allowed,
         OtherActive, Placed

(* Requests that do not change hold what they held. *)
LEMMA ApartKept ==
    ASSUME LockInv, NEW m \in Movers,
           \A n \in Movers \ {m} : Apart(m, n)' /\ pc'[n] = pc[n]
               /\ job'[n].issue = job[n].issue /\ job'[n].sprint = job[n].sprint /\ job'[n].to = job[n].to
    PROVE  LockInv'
  <1> SUFFICES ASSUME NEW k \in Movers, NEW n \in Movers, k # n
               PROVE  Apart(k, n)'
    BY DEF LockInv
  <1>1. CASE k = m
    BY <1>1
  <1>2. CASE n = m
    BY <1>2 DEF Apart, Moving, Updating
  <1>3. CASE k # m /\ n # m
    BY <1>3 DEF LockInv, Apart, Moving, Updating
  <1> QED
    BY <1>1, <1>2, <1>3

(***************************************************************************)
(* A step that changes nothing but one request preserves what it does not  *)
(* bring about itself.                                                     *)
(***************************************************************************)
LEMMA RequestStepIInv ==
    ASSUME PlanningIInv, NEW m \in Movers, UNCHANGED tables, now' \in Times,
           NEW p \in {"idle", "begun", "locked", "counting", "cleared", "updating"}, NEW j \in Jobs,
           pc' = [pc EXCEPT ![m] = p], job' = [job EXCEPT ![m] = j],
           \A n \in Movers \ {m} : Apart(m, n)',
           OwnOK(m)'
    PROVE  PlanningIInv'
  <1>1. PlanningValues'
    BY DEF PlanningIInv, PlanningValues, tables
  <1>2. \A n \in Movers \ {m} : pc'[n] = pc[n] /\ job'[n] = job[n]
    BY DEF PlanningIInv, PlanningValues
  <1>3. LockInv'
    BY <1>2, ApartKept DEF PlanningIInv
  <1>4. WordsInv'
    BY DEF PlanningIInv, WordsInv, tables
  <1>5. SprintsInv'
    BY DEF PlanningIInv, SprintsInv, OneOpenSprint, OneActiveSprint, BookInv, ClosedInv, Told,
           LastSays, Entries, Exists, Open, tables
  <1>6. \A n \in Movers : OwnOK(n)'
    BY <1>2, OwnKept DEF PlanningIInv, tables
  <1> QED
    BY <1>1, <1>3, <1>4, <1>5, <1>6 DEF PlanningIInv

-----------------------------------------------------------------------------
(* A request that arrives holds nothing yet.                               *)
LEMMA AskIInv ==
    ASSUME PlanningIInv, NEW m \in Movers, now < MaxTx,
           NEW step \in {"begun", "cleared"}, NEW j \in Jobs, Begin(m, step, j),
           IF step = "begun" /\ j.to # "none" THEN j.sprint \in Sprints ELSE j.issue \in Issues,
           step = "cleared" => j.rank # None,
           j.sprint # Backlog => state[j.sprint] # "none",
           j.fresh => /\ j.issue \in Issues /\ j.rank # None
                      /\ Placed([rank EXCEPT ![j.issue] = j.rank], j.issue, j.after, j.before, j.around)
    PROVE  PlanningIInv'
  <1>1. pc' = [pc EXCEPT ![m] = step] /\ job' = [job EXCEPT ![m] = j] /\ UNCHANGED tables
    BY DEF Begin
  <1>2. now' \in Times
    BY PlanningAssumption DEF Begin, PlanningIInv, PlanningValues, Times
  <1>3. pc'[m] = step /\ job'[m] = j
    BY <1>1 DEF PlanningIInv, PlanningValues
  <1>4. ~Moving(m)' /\ ~Updating(m)' /\ pc'[m] # "counting" /\ pc'[m] # "idle"
    BY <1>3 DEF Moving, Updating
  <1>5. \A n \in Movers \ {m} : Apart(m, n)'
    BY <1>4 DEF Apart
  <1>6. RequestOK(m)'
    BY <1>1, <1>3, <1>4 DEF RequestOK, tables
  <1>7. RankOK(m)'
    BY <1>1, <1>3 DEF RankOK, tables, Placed
  <1>8. OwnOK(m)'
    BY <1>4, <1>6, <1>7 DEF OwnOK, MoveOK, UpdateOK
  <1> QED
    BY <1>1, <1>2, <1>5, <1>8, RequestStepIInv

(* Every work item has a rank, and so has "no neighbour", as an argument. *)
LEMMA WordsOfIssues ==
    ASSUME PlanningIInv
    PROVE  /\ None \in Ranks
           /\ \A i \in Issues : rank[i] \in Ranks /\ rank[i] # None
           /\ \A i \in Issues \cup {NoIssue} : RankOf(i) \in Ranks
  <1>1. None \in Ranks
    BY DEF None, Ranks
  <1> QED
    BY <1>1 DEF PlanningIInv, PlanningValues, WordsInv, RankOf

(* The local variables of a request that names a sprint. *)
LEMMA RequestTypes ==
    ASSUME now < MaxTx, now \in Times, NEW i \in Issues, NEW s \in Sprints
    PROVE  /\ [NoJob EXCEPT !.issue = i, !.sprint = s, !.at = now + 1] \in Jobs
           /\ [NoJob EXCEPT !.issue = i, !.at = now + 1] \in Jobs
           /\ \A to \in {"active", "closed", "deleted"} :
                 [NoJob EXCEPT !.sprint = s, !.to = to, !.at = now + 1] \in Jobs
  <1>1. now + 1 \in Times /\ 0 \in Times /\ None \in Ranks
    BY PlanningAssumption DEF Times, None, Ranks
  <1> QED
    BY <1>1 DEF NoJob, Jobs

(* The local variables of a request that ranks. *)
LEMMA RankingTypes ==
    ASSUME now < MaxTx, now \in Times, NEW i \in Issues, NEW r \in Ranks, 
           NEW a \in Issues \cup {NoIssue}, NEW b \in Issues \cup {NoIssue}
    PROVE  /\ [NoJob EXCEPT !.issue = i, !.at = now + 1, !.rank = r,
                            !.after = a, !.before = b, !.fresh = TRUE] \in Jobs
           /\ [NoJob EXCEPT !.issue = i, !.rank = r, !.before = b, !.around = TRUE, !.fresh = TRUE] \in Jobs
           /\ [NoJob EXCEPT !.issue = i, !.rank = r, !.after = a, !.around = TRUE, !.fresh = TRUE] \in Jobs
  <1>1. now + 1 \in Times /\ 0 \in Times
    BY PlanningAssumption DEF Times
  <1> QED
    BY <1>1 DEF NoJob, Jobs

(* PlanIssue asks for a rank between the neighbours it is given. *)
LEMMA PlanBetweenIInv ==
    ASSUME PlanningIInv, NEW m \in Movers, now < MaxTx, NEW i \in Issues,
           NEW after \in Issues \cup {NoIssue}, NEW before \in Issues \cup {NoIssue},
           i \notin {after, before}, PlanBetween(m, i, after, before)
    PROVE  PlanningIInv'
  <1> DEFINE mid == Mid(RankOf(after), RankOf(before))
             j == [NoJob EXCEPT !.issue = i, !.at = now + 1, !.rank = mid,
                                !.after = after, !.before = before, !.fresh = TRUE]
  <1>1. i \notin {after, before} /\ mid # None /\ Begin(m, "begun", j)
    BY DEF PlanBetween
  <1>2. /\ mid \in Ranks
        /\ after # NoIssue => Less(rank[after], mid)
        /\ before # NoIssue => Less(mid, rank[before])
    BY <1>1, WordsOfIssues, MidIsBetween DEF RankOf
  <1>3. now \in Times /\ rank \in [Issues -> Ranks]
    BY DEF PlanningIInv, PlanningValues
  <1>4. j \in Jobs
    <2> HIDE DEF mid
    <2> QED
      BY <1>2, <1>3, RankingTypes
  <1>5. /\ j.issue = i /\ j.to = "none" /\ j.sprint = Backlog /\ j.rank = mid
        /\ j.after = after /\ j.before = before /\ j.around = FALSE
    BY DEF NoJob
  <1>6. Placed([rank EXCEPT ![i] = mid], i, after, before, FALSE)
    <2> HIDE DEF mid, j
    <2> QED
      BY <1>1, <1>2, <1>3 DEF Placed
  <1> HIDE DEF mid, j
  <1> QED
    BY <1>1, <1>4, <1>5, <1>6, AskIInv

(* The ranks on one side of an item: finitely many, so one is next to it. *)
LEMMA RanksOfSome ==
    ASSUME PlanningIInv, NEW S \in SUBSET Issues
    PROVE  {rank[j] : j \in S} \in SUBSET Ranks /\ IsFiniteSet({rank[j] : j \in S})
  <1>1. IsFiniteSet(S)
    BY PlanningAssumption, FS_Subset
  <1>2. IsFiniteSet({rank[j] : j \in S})
    <2> DEFINE T == {rank[j] : j \in S}
               f == [j \in S |-> rank[j]]
    <2>1. f \in Surjection(S, T)
      BY DEF Surjection
    <2> HIDE DEF T, f
    <2>2. IsFiniteSet(T)
      BY <1>1, <2>1, FS_Surjection
    <2> QED
      BY <2>2 DEF T
  <1> QED
    BY <1>2, WordsOfIssues

(* RankAround before a work item. *)
LEMMA RankBeforeIInv ==
    ASSUME PlanningIInv, NEW m \in Movers, now < MaxTx, NEW i \in Issues, NEW before \in Issues,
           RankBefore(m, i, before)
    PROVE  PlanningIInv'
  <1> DEFINE below == {rank[j] : j \in {j \in Issues \ {i} : Less(rank[j], rank[before])}}
             lo == IF below = {} THEN None ELSE CHOOSE r \in below : \A q \in below : ~Less(r, q)
             mid == Mid(lo, rank[before])
             j == [NoJob EXCEPT !.issue = i, !.rank = mid,
                                !.before = before, !.around = TRUE, !.fresh = TRUE]
  <1>1. i # before /\ mid # None /\ Begin(m, "cleared", j)
    BY DEF RankBefore
  <1>2. below \in SUBSET Ranks /\ IsFiniteSet(below)
    BY RanksOfSome
  <1>3. below # {} => lo \in below /\ \A q \in below : ~Less(lo, q)
    <2> HIDE DEF below
    <2> QED
      BY <1>2, EndRanks
  <1>4. \A q \in below : q # None
    BY WordsOfIssues
  <1>5. lo \in Ranks /\ (below # {} => lo # None)
    <2> HIDE DEF below
    <2> QED
      BY <1>2, <1>3, <1>4, WordsOfIssues
  <1>6. mid \in Ranks /\ Less(mid, rank[before]) /\ (below # {} => Less(lo, mid))
    <2> HIDE DEF below, lo
    <2> QED
      BY <1>1, <1>5, WordsOfIssues, MidIsBetween
  <1>7. ASSUME NEW k \in Issues \ {i}, Less(rank[k], rank[before])
        PROVE  Less(rank[k], mid)
    <2>1. rank[k] \in below
      BY <1>7
    <2> HIDE DEF below, lo, mid
    <2> QED
      BY <1>2, <1>3, <1>5, <1>6, <2>1, WordsOfIssues, LessOrSame
  <1>8. now \in Times /\ rank \in [Issues -> Ranks]
    BY DEF PlanningIInv, PlanningValues
  <1>9. j \in Jobs
    <2> HIDE DEF mid
    <2> QED
      BY <1>6, <1>8, RankingTypes
  <1>10. /\ j.issue = i /\ j.to = "none" /\ j.sprint = Backlog /\ j.rank = mid
         /\ j.after = NoIssue /\ j.before = before /\ j.around = TRUE
    BY DEF NoJob
  <1>11. Placed([rank EXCEPT ![i] = mid], i, NoIssue, before, TRUE)
    <2> HIDE DEF mid, j, lo, below
    <2> QED
      BY <1>1, <1>6, <1>7, <1>8 DEF Placed
  <1> HIDE DEF mid, j
  <1> QED
    BY <1>1, <1>9, <1>10, <1>11, AskIInv

(* What is not below a word is it or above it. *)
LEMMA SameOrLess ==
    ASSUME NEW a \in Ranks, NEW b \in Ranks, NEW c \in Ranks, Less(a, b), ~Less(c, b)
    PROVE  Less(a, c)
  BY LessTotal, LessTransitive

(* RankAround after a work item. *)
LEMMA RankAfterIInv ==
    ASSUME PlanningIInv, NEW m \in Movers, now < MaxTx, NEW i \in Issues, NEW after \in Issues,
           RankAfter(m, i, after)
    PROVE  PlanningIInv'
  <1> DEFINE above == {rank[j] : j \in {j \in Issues \ {i} : Less(rank[after], rank[j])}}
             hi == IF above = {} THEN None ELSE CHOOSE r \in above : \A q \in above : ~Less(q, r)
             mid == Mid(rank[after], hi)
             j == [NoJob EXCEPT !.issue = i, !.rank = mid,
                                !.after = after, !.around = TRUE, !.fresh = TRUE]
  <1>1. i # after /\ mid # None /\ Begin(m, "cleared", j)
    BY DEF RankAfter
  <1>2. above \in SUBSET Ranks /\ IsFiniteSet(above)
    BY RanksOfSome
  <1>3. above # {} => hi \in above /\ \A q \in above : ~Less(q, hi)
    <2> HIDE DEF above
    <2> QED
      BY <1>2, EndRanks
  <1>4. \A q \in above : q # None
    BY WordsOfIssues
  <1>5. hi \in Ranks /\ (above # {} => hi # None)
    <2> HIDE DEF above
    <2> QED
      BY <1>2, <1>3, <1>4, WordsOfIssues
  <1>6. mid \in Ranks /\ Less(rank[after], mid) /\ (above # {} => Less(mid, hi))
    <2> HIDE DEF above, hi
    <2> QED
      BY <1>1, <1>5, WordsOfIssues, MidIsBetween
  <1>7. ASSUME NEW k \in Issues \ {i}, Less(rank[after], rank[k])
        PROVE  Less(mid, rank[k])
    <2>1. rank[k] \in above
      BY <1>7
    <2> HIDE DEF above, hi, mid
    <2> QED
      BY <1>2, <1>3, <1>5, <1>6, <2>1, WordsOfIssues, SameOrLess
  <1>8. now \in Times /\ rank \in [Issues -> Ranks]
    BY DEF PlanningIInv, PlanningValues
  <1>9. j \in Jobs
    <2> HIDE DEF mid
    <2> QED
      BY <1>6, <1>8, RankingTypes
  <1>10. /\ j.issue = i /\ j.to = "none" /\ j.sprint = Backlog /\ j.rank = mid
         /\ j.after = after /\ j.before = NoIssue /\ j.around = TRUE
    BY DEF NoJob
  <1>11. Placed([rank EXCEPT ![i] = mid], i, after, NoIssue, TRUE)
    <2> HIDE DEF mid, j, hi, above
    <2> QED
      BY <1>1, <1>6, <1>7, <1>8 DEF Placed
  <1> HIDE DEF mid, j
  <1> QED
    BY <1>1, <1>9, <1>10, <1>11, AskIInv

(* Every kind of request. *)
LEMMA AskPreserves ==
    ASSUME PlanningIInv, NEW m \in Movers, Ask(m)
    PROVE  PlanningIInv'
  <1>1. pc[m] = "idle" /\ now < MaxTx /\ now \in Times
    BY DEF Ask, PlanningIInv, PlanningValues
  <1>2. ASSUME NEW i \in Issues, NEW s \in Sprints, MoveToSprint(m, i, s) PROVE PlanningIInv'
    <2> DEFINE j == [NoJob EXCEPT !.issue = i, !.sprint = s, !.at = now + 1]
    <2>1. j \in Jobs
      BY <1>1, RequestTypes
    <2>2. j.issue = i /\ j.to = "none" /\ j.sprint = s /\ j.fresh = FALSE
      BY DEF NoJob
    <2>3. state[s] # "none" /\ Begin(m, "begun", j)
      BY <1>2 DEF MoveToSprint
    <2> HIDE DEF j
    <2> QED
      BY <1>1, <2>1, <2>2, <2>3, AskIInv
  <1>3. ASSUME NEW i \in Issues, MoveToBacklog(m, i) PROVE PlanningIInv'
    <2> DEFINE j == [NoJob EXCEPT !.issue = i, !.at = now + 1]
    <2>1. j \in Jobs
      <3>1. now + 1 \in Times /\ 0 \in Times /\ None \in Ranks
        BY <1>1, PlanningAssumption DEF Times, None, Ranks
      <3> QED
        BY <3>1 DEF NoJob, Jobs
    <2>2. j.issue = i /\ j.to = "none" /\ j.sprint = Backlog /\ j.fresh = FALSE
      BY DEF NoJob
    <2>3. Begin(m, "begun", j)
      BY <1>3 DEF MoveToBacklog
    <2> HIDE DEF j
    <2> QED
      BY <1>1, <2>1, <2>2, <2>3, AskIInv
  <1>4. ASSUME NEW i \in Issues, PlanAtEnd(m, i) PROVE PlanningIInv'
    <2>1. \A last \in LastOf(InBacklog) : last \in Issues
      BY DEF LastOf, InBacklog
    <2>2. PICK after \in Issues \cup {NoIssue} : PlanBetween(m, i, after, NoIssue) /\ after # i
      BY <1>4, <2>1, PlanningAssumption DEF PlanAtEnd, Neighbour
    <2> QED
      BY <1>1, <2>2, PlanningAssumption, PlanBetweenIInv
  <1>6. ASSUME NEW i \in Issues, NEW after \in Issues \cup {NoIssue}, NEW before \in Issues \cup {NoIssue},
               PlanBetween(m, i, Neighbour(i, after), Neighbour(i, before))
        PROVE  PlanningIInv'
    <2>1. /\ Neighbour(i, after) \in Issues \cup {NoIssue} /\ Neighbour(i, before) \in Issues \cup {NoIssue}
          /\ i \notin {Neighbour(i, after), Neighbour(i, before)}
      BY PlanningAssumption DEF Neighbour
    <2> QED
      BY <1>1, <1>6, <2>1, PlanBetweenIInv
  <1>5. ASSUME NEW s \in Sprints, NEW to \in {"active", "closed", "deleted"}, ChangeSprint(m, s, to)
        PROVE  PlanningIInv'
    <2> DEFINE j == [NoJob EXCEPT !.sprint = s, !.to = to, !.at = now + 1]
    <2>1. j \in Jobs
      <3>1. now + 1 \in Times /\ 0 \in Times /\ None \in Ranks
        BY <1>1, PlanningAssumption DEF Times, None, Ranks
      <3> QED
        BY <3>1 DEF NoJob, Jobs
    <2>2. j.to = to /\ j.sprint = s /\ j.fresh = FALSE
      BY DEF NoJob
    <2>3. state[s] # "none" /\ Begin(m, "begun", j)
      BY <1>5 DEF ChangeSprint
    <2> HIDE DEF j
    <2> QED
      BY <1>1, <2>1, <2>2, <2>3, AskIInv
  <1> QED
    BY <1>1, <1>2, <1>3, <1>4, <1>5, <1>6, RankBeforeIInv, RankAfterIInv DEF Ask

-----------------------------------------------------------------------------
(* AddIssueToSprint has the lock and has read where the item is. *)
LEMMA LockItemIInv ==
    ASSUME PlanningIInv, NEW m \in Movers, LockItem(m)
    PROVE  PlanningIInv'
  <1> DEFINE P == {s \in Sprints \ {job[m].sprint} : Open(s) /\ job[m].issue \in planned[s]}
             j == [job[m] EXCEPT !.prev = P]
  <1>1. /\ pc[m] = "begun" /\ job[m].to = "none" /\ ItemLockers(job[m].issue) = {}
        /\ job[m].sprint # Backlog => Open(job[m].sprint)
        /\ pc' = [pc EXCEPT ![m] = "locked"] /\ job' = [job EXCEPT ![m] = j]
        /\ UNCHANGED <<tables, now>>
    BY DEF LockItem
  <1>2. /\ job[m] \in Jobs /\ now \in Times /\ OwnOK(m) /\ OneOpenSprint
        /\ pc \in [Movers -> {"idle", "begun", "locked", "counting", "cleared", "updating"}]
        /\ job \in [Movers -> Jobs]
    BY DEF PlanningIInv, PlanningValues, SprintsInv
  <1>3. /\ j \in Jobs /\ j.issue = job[m].issue /\ j.sprint = job[m].sprint /\ j.to = job[m].to
        /\ j.prev = P /\ j.rank = job[m].rank /\ j.after = job[m].after /\ j.before = job[m].before
        /\ j.around = job[m].around /\ j.fresh = job[m].fresh
    <2>1. P \in SUBSET Sprints
      OBVIOUS
    <2> HIDE DEF P
    <2> QED
      BY <1>2, <2>1 DEF Jobs
  <1>4. /\ \A s \in P : Exists(s) /\ Open(s) /\ s # job[m].sprint
        /\ \A s, t \in P : s = t
        /\ \A s \in Sprints \ {job[m].sprint} : Open(s) /\ job[m].issue \in planned[s] => s \in P
    BY <1>2 DEF OneOpenSprint, Open, Exists
  <1> HIDE DEF P, j
  <1>5. pc'[m] = "locked" /\ job'[m] = j
    BY <1>1, <1>2
  <1>6. job[m].issue \in Issues
    BY <1>1, <1>2 DEF OwnOK, RequestOK
  <1>7. RequestOK(m)'
    BY <1>1, <1>2, <1>3, <1>5, <1>6 DEF OwnOK, RequestOK, Moving, Updating, tables
  <1>8. MoveOK(m)'
    BY <1>1, <1>3, <1>4, <1>5, PlanningAssumption DEF MoveOK, Open, Exists, tables
  <1>9. UpdateOK(m)' /\ RankOK(m)'
    BY <1>1, <1>2, <1>3, <1>5 DEF OwnOK, UpdateOK, RankOK, Updating, Placed, tables
  <1>10. \A n \in Movers \ {m} : Apart(m, n)'
    BY <1>1, <1>2, <1>3, <1>5 DEF Apart, ItemLockers, Moving, Updating
  <1> QED
    BY <1>1, <1>2, <1>3, <1>7, <1>8, <1>9, <1>10, RequestStepIInv DEF OwnOK

(* nextSeq: the counter row has one owner, who goes on with its locks. *)
LEMMA CountIInv ==
    ASSUME PlanningIInv, NEW m \in Movers, Count(m)
    PROVE  PlanningIInv'
  <1>1. /\ Removing(m) /\ WaitsFor(m) = {} /\ pc' = [pc EXCEPT ![m] = "counting"]
        /\ UNCHANGED <<tables, now, job>>
    BY DEF Count
  <1>2. /\ job[m] \in Jobs /\ now \in Times /\ OwnOK(m) /\ LockInv
        /\ pc \in [Movers -> {"idle", "begun", "locked", "counting", "cleared", "updating"}]
        /\ job \in [Movers -> Jobs]
    BY DEF PlanningIInv, PlanningValues
  <1>3. pc'[m] = "counting" /\ job' = [job EXCEPT ![m] = job[m]]
    BY <1>1, <1>2
  <1>4. pc[m] = "locked"
    BY <1>1 DEF Removing
  <1>5. OwnOK(m)'
    BY <1>1, <1>2, <1>3, <1>4 DEF OwnOK, RequestOK, MoveOK, UpdateOK, RankOK, Moving, Updating, Exists,
       Open, Placed, tables
  <1>6. CounterHolders \ {m} = {}
    BY <1>1 DEF WaitsFor
  <1>7. \A n \in Movers \ {m} : Apart(m, n)'
    BY <1>1, <1>2, <1>3, <1>4, <1>6 DEF LockInv, Apart, CounterHolders, Moving, Updating
  <1> QED
    BY <1>1, <1>2, <1>3, <1>5, <1>7, RequestStepIInv

(* UpdateSprint and DeleteSprint have the rows and have made their checks. *)
LEMMA LockSprintIInv ==
    ASSUME PlanningIInv, NEW m \in Movers, LockSprint(m)
    PROVE  PlanningIInv'
  <1>1. /\ pc[m] = "begun" /\ job[m].to # "none" /\ SprintLockers(job[m].sprint) = {}
        /\ job[m].to # "deleted" => BoardLockers = {}
        /\ Allowed(job[m].sprint, job[m].to)
        /\ job[m].to = "active" /\ state[job[m].sprint] # "active"
              => ParallelSprints \/ ~OtherActive(job[m].sprint)
        /\ pc' = [pc EXCEPT ![m] = "updating"] /\ UNCHANGED <<tables, now, job>>
    BY DEF LockSprint
  <1>2. /\ job[m] \in Jobs /\ now \in Times /\ OwnOK(m)
        /\ pc \in [Movers -> {"idle", "begun", "locked", "counting", "cleared", "updating"}]
        /\ job \in [Movers -> Jobs]
    BY DEF PlanningIInv, PlanningValues
  <1>3. pc'[m] = "updating" /\ job' = [job EXCEPT ![m] = job[m]]
    BY <1>1, <1>2
  <1>4. RequestOK(m)' /\ MoveOK(m)' /\ RankOK(m)'
    BY <1>1, <1>2, <1>3 DEF OwnOK, RequestOK, MoveOK, RankOK, Moving, Updating, Placed, tables
  <1>5. UpdateOK(m)'
    BY <1>1, <1>3 DEF UpdateOK, Allowed, OtherActive, Exists, tables
  <1>6. \A n \in Movers \ {m} : Apart(m, n)'
    BY <1>1, <1>2, <1>3 DEF Apart, SprintLockers, BoardLockers, Moving, Updating
  <1> QED
    BY <1>1, <1>2, <1>3, <1>4, <1>5, <1>6, RequestStepIInv DEF OwnOK

(* A request that ends holds nothing any more. *)
LEMMA QuitIInv ==
    ASSUME PlanningIInv, NEW m \in Movers, Quit(m)
    PROVE  PlanningIInv'
  <1>1. /\ pc' = [pc EXCEPT ![m] = "idle"] /\ job' = [job EXCEPT ![m] = NoJob]
        /\ UNCHANGED <<tables, now>>
    BY DEF Quit, End
  <1>2. /\ now \in Times /\ pc \in [Movers -> {"idle", "begun", "locked", "counting", "cleared", "updating"}]
        /\ job \in [Movers -> Jobs]
    BY DEF PlanningIInv, PlanningValues
  <1>3. NoJob \in Jobs
    BY PlanningAssumption DEF NoJob, Jobs, Times, Ranks, None
  <1>4. pc'[m] = "idle" /\ job'[m] = NoJob
    BY <1>1, <1>2
  <1>5. OwnOK(m)'
    BY <1>4 DEF OwnOK, RequestOK, MoveOK, UpdateOK, RankOK, Moving, Updating, NoJob
  <1>6. \A n \in Movers \ {m} : Apart(m, n)'
    BY <1>4 DEF Apart, Moving, Updating
  <1> QED
    BY <1>1, <1>2, <1>3, <1>5, <1>6, RequestStepIInv

(* A new sprint is empty and the log says nothing of it. *)
LEMMA CreateSprintIInv ==
    ASSUME PlanningIInv, NEW s \in Sprints, CreateSprint(s)
    PROVE  PlanningIInv'
  <1>1. /\ state[s] = "none" /\ state' = [state EXCEPT ![s] = "future"]
        /\ UNCHANGED <<closedAt, planned, rank, actions, now, pc, job, blurred>>
    BY DEF CreateSprint
  <1>2. PlanningValues /\ LockInv /\ WordsInv /\ SprintsInv /\ \A m \in Movers : OwnOK(m)
    BY DEF PlanningIInv
  <1>3. state'[s] = "future" /\ \A t \in Sprints \ {s} : state'[t] = state[t]
    BY <1>1, <1>2 DEF PlanningValues
  <1>4. planned[s] = {} /\ \A i \in Issues : Entries(s, i) = {}
    BY <1>1, <1>2 DEF SprintsInv, BookInv, Told, PlanningValues
  <1>5. PlanningValues' /\ LockInv' /\ WordsInv'
    BY <1>1, <1>2 DEF PlanningValues, LockInv, Apart, Moving, Updating, WordsInv
  <1>6. OneOpenSprint' /\ OneActiveSprint' /\ ClosedInv'
    BY <1>1, <1>2, <1>3, <1>4 DEF SprintsInv, OneOpenSprint, OneActiveSprint, ClosedInv, Open
  <1>7. BookInv'
    BY <1>1, <1>2, <1>3, <1>4 DEF SprintsInv, BookInv, Told, LastSays, Entries, Exists
  <1>8. ASSUME NEW m \in Movers PROVE OwnOK(m)'
    <2>1. OwnOK(m) /\ job[m] \in Jobs
      BY <1>2 DEF PlanningValues
    <2>2. job[m].sprint # Backlog => job[m].sprint \in Sprints \ {s}
      BY <1>1, <2>1 DEF OwnOK, RequestOK, Jobs
    <2>3. RequestOK(m)' /\ RankOK(m)'
      BY <1>1, <1>3, <2>1, <2>2 DEF OwnOK, RequestOK, RankOK, Moving, Updating, Placed
    <2>4. MoveOK(m)'
      BY <1>1, <1>3, <1>4, <2>1, <2>2 DEF OwnOK, MoveOK, Moving, Open, Exists
    <2>5. UpdateOK(m)'
      BY <1>1, <1>3, <2>1, <2>2, PlanningAssumption DEF OwnOK, RequestOK, UpdateOK, Updating, Allowed,
         OtherActive, Exists
    <2> QED
      BY <2>3, <2>4, <2>5 DEF OwnOK
  <1> QED
    BY <1>5, <1>6, <1>7, <1>8 DEF PlanningIInv, SprintsInv

-----------------------------------------------------------------------------
(* What a transaction writes: out of the sprint it was in, into its own.   *)
LEMMA ChangesOf ==
    ASSUME NEW m \in Movers, job[m].prev = {}
    PROVE  Changes(m) = IF job[m].sprint = Backlog THEN <<>> ELSE <<Change(m, job[m].sprint, TRUE)>>
  <1> DEFINE n == Cardinality(job[m].prev)
             order == CHOOSE f \in [1..n -> job[m].prev] : \A s \in job[m].prev : \E k \in 1..n : f[k] = s
             out == [k \in 1..n |-> Change(m, order[k], FALSE)]
             in == IF job[m].sprint = Backlog THEN <<>> ELSE <<Change(m, job[m].sprint, TRUE)>>
  <1>1. Changes(m) = out \o in
    BY Zenon DEF Changes
  <1>2. n = 0
    BY FS_EmptySet
  <1> HIDE DEF n, order
  <1>3. out = <<>>
    BY <1>2
  <1> HIDE DEF out
  <1>4. CASE job[m].sprint = Backlog
    BY <1>1, <1>3, <1>4
  <1>5. CASE job[m].sprint # Backlog
    <2> DEFINE c == Change(m, job[m].sprint, TRUE)
    <2>1. Changes(m) = <<>> \o <<c>>
      BY <1>1, <1>3, <1>5
    <2> HIDE DEF c
    <2>2. <<>> \o <<c>> = <<c>>
      OBVIOUS
    <2> QED
      BY <1>5, <2>1, <2>2 DEF c
  <1> QED
    BY <1>4, <1>5

(* The same where the item was in another open sprint. *)
LEMMA ChangesFrom ==
    ASSUME NEW m \in Movers, NEW p, job[m].prev = {p}
    PROVE  Changes(m) = IF job[m].sprint = Backlog THEN <<Change(m, p, FALSE)>>
                        ELSE <<Change(m, p, FALSE), Change(m, job[m].sprint, TRUE)>>
  <1> DEFINE n == Cardinality(job[m].prev)
             Orders(f) == \A s \in job[m].prev : \E k \in 1..n : f[k] = s
             order == CHOOSE f \in [1..n -> job[m].prev] : Orders(f)
             out == [k \in 1..n |-> Change(m, order[k], FALSE)]
             in == IF job[m].sprint = Backlog THEN <<>> ELSE <<Change(m, job[m].sprint, TRUE)>>
             d == Change(m, p, FALSE)
             c == Change(m, job[m].sprint, TRUE)
  <1>1. Changes(m) = out \o in
    BY Zenon DEF Changes
  <1>2. n = 1
    BY FS_Singleton
  <1> HIDE DEF n
  <1>3. \E f \in [1..n -> job[m].prev] : Orders(f)
    <2>1. [k \in 1..n |-> p] \in [1..n -> job[m].prev] /\ Orders([k \in 1..n |-> p])
      BY <1>2
    <2> QED
      BY <2>1
  <1>4. order \in [1..n -> job[m].prev]
    <2> HIDE DEF Orders
    <2> QED
      BY <1>3
  <1> HIDE DEF order
  <1>5. order[1] = p
    BY <1>2, <1>4
  <1>6. out = <<d>>
    <2>1. \A k \in 1..n : order[k] = p
      BY <1>2, <1>5
    <2>2. out = [k \in 1..n |-> d]
      BY <2>1, Zenon
    <2> HIDE DEF out, d
    <2> QED
      BY <1>2, <2>2
  <1> HIDE DEF out
  <1>7. CASE job[m].sprint = Backlog
    <2>1. Changes(m) = <<d>> \o <<>>
      BY <1>1, <1>6, <1>7
    <2> HIDE DEF d
    <2>2. <<d>> \o <<>> = <<d>>
      OBVIOUS
    <2> QED
      BY <1>7, <2>1, <2>2 DEF d
  <1>8. CASE job[m].sprint # Backlog
    <2>1. Changes(m) = <<d>> \o <<c>>
      BY <1>1, <1>6, <1>8
    <2> HIDE DEF d, c
    <2>2. <<d>> \o <<c>> = <<d, c>>
      <3>1. <<d>> \in Seq({d, c}) /\ <<c>> \in Seq({d, c}) /\ <<d, c>> \in Seq({d, c})
        OBVIOUS
      <3>2. Len(<<d>> \o <<c>>) = 2 /\ (<<d>> \o <<c>>)[1] = d /\ (<<d>> \o <<c>>)[2] = c
            /\ <<d>> \o <<c>> \in Seq({d, c})
        BY <3>1
      <3> DEFINE e == <<d>> \o <<c>>
      <3>3. Len(<<d, c>>) = 2 /\ <<d, c>>[1] = d /\ <<d, c>>[2] = c
        OBVIOUS
      <3>4. e \in Seq({d, c}) /\ Len(e) = 2 /\ e[1] = d /\ e[2] = c
        BY <3>2
      <3> HIDE DEF e
      <3>5. \A k \in 1..2 : e[k] = <<d, c>>[k]
        BY <3>3, <3>4
      <3>6. e = <<d, c>>
        BY <3>1, <3>3, <3>4, <3>5, SeqEqual
      <3> QED
        BY <3>6 DEF e
    <2>3. Changes(m) = <<d, c>>
      BY <2>1, <2>2
    <2> QED
      BY <1>8, <2>3, Zenon DEF d, c
  <1> QED
    BY <1>7, <1>8, Zenon

(* What is new in the log: at most two actions about the work item. *)
LEMMA ChangesAre ==
    ASSUME PlanningIInv, NEW m \in Movers, Moving(m)
    PROVE  /\ Changes(m) \in Seq(SprintActions)
           /\ \A k \in 1..Len(Changes(m)) :
                 /\ Changes(m)[k].issue = job[m].issue
                 /\ Changes(m)[k].sprint \in job[m].prev \/ Changes(m)[k].sprint = job[m].sprint
           /\ \A p \in job[m].prev : \E k \in 1..Len(Changes(m)) :
                 /\ Changes(m)[k].sprint = p /\ Changes(m)[k].in = FALSE
                 /\ \A l \in 1..Len(Changes(m)) : Changes(m)[l].sprint = p => l <= k
           /\ job[m].sprint # Backlog => \E k \in 1..Len(Changes(m)) :
                 /\ Changes(m)[k].sprint = job[m].sprint /\ Changes(m)[k].in = TRUE
                 /\ \A l \in 1..Len(Changes(m)) : Changes(m)[l].sprint = job[m].sprint => l <= k
  <1>1. /\ job[m].issue \in Issues /\ job[m].at \in Times
        /\ job[m].sprint \in Sprints \cup {Backlog} /\ job[m].prev \in SUBSET Sprints
        /\ job[m].sprint \notin job[m].prev /\ \A s, t \in job[m].prev : s = t
    BY DEF PlanningIInv, PlanningValues, OwnOK, RequestOK, MoveOK, Jobs
  <1>2. ASSUME NEW s \in Sprints, NEW in \in BOOLEAN
        PROVE  /\ Change(m, s, in) \in SprintActions
               /\ Change(m, s, in).sprint = s /\ Change(m, s, in).issue = job[m].issue
               /\ Change(m, s, in).in = in
    BY <1>1, <1>2 DEF Change, SprintActions
  <1> DEFINE C == Changes(m)
             Goal == /\ C \in Seq(SprintActions)
                     /\ \A k \in 1..Len(C) : /\ C[k].issue = job[m].issue
                                             /\ C[k].sprint \in job[m].prev \/ C[k].sprint = job[m].sprint
                     /\ \A p \in job[m].prev : \E k \in 1..Len(C) :
                           /\ C[k].sprint = p /\ C[k].in = FALSE
                           /\ \A l \in 1..Len(C) : C[l].sprint = p => l <= k
                     /\ job[m].sprint # Backlog => \E k \in 1..Len(C) :
                           /\ C[k].sprint = job[m].sprint /\ C[k].in = TRUE
                           /\ \A l \in 1..Len(C) : C[l].sprint = job[m].sprint => l <= k
  <1>3. CASE job[m].prev = {}
    <2>1. CASE job[m].sprint = Backlog
      <3>1. C = <<>>
        BY <1>3, <2>1, ChangesOf
      <3> HIDE DEF C
      <3>2. Goal
        BY <1>3, <2>1, <3>1
      <3> QED
        BY <3>2 DEF C
    <2>2. CASE job[m].sprint # Backlog
      <3> DEFINE c == Change(m, job[m].sprint, TRUE)
      <3>1. C = <<c>>
        BY <1>3, <2>2, ChangesOf
      <3>2. c \in SprintActions /\ c.sprint = job[m].sprint /\ c.issue = job[m].issue /\ c.in = TRUE
        BY <1>1, <1>2, <2>2
      <3> HIDE DEF C, c
      <3>3. Goal
        BY <1>3, <3>1, <3>2
      <3> QED
        BY <3>3 DEF C
    <2> QED
      BY <2>1, <2>2
  <1>4. CASE job[m].prev # {}
    <2>1. PICK p \in job[m].prev : job[m].prev = {p}
      BY <1>1, <1>4
    <2> DEFINE d == Change(m, p, FALSE)
    <2>2. d \in SprintActions /\ d.sprint = p /\ d.issue = job[m].issue /\ d.in = FALSE
      BY <1>1, <1>2
    <2>3. CASE job[m].sprint = Backlog
      <3>1. C = <<d>>
        BY <2>1, <2>3, ChangesFrom
      <3> HIDE DEF C, d
      <3>2. Goal
        BY <2>1, <2>2, <2>3, <3>1
      <3> QED
        BY <3>2 DEF C
    <2>4. CASE job[m].sprint # Backlog
      <3> DEFINE c == Change(m, job[m].sprint, TRUE)
      <3>1. C = <<d, c>>
        BY <2>1, <2>4, ChangesFrom
      <3>2. /\ c \in SprintActions /\ c.sprint = job[m].sprint /\ c.issue = job[m].issue /\ c.in = TRUE
            /\ p # job[m].sprint
        BY <1>1, <1>2, <2>4
      <3> HIDE DEF C, c, d
      <3>3. Len(C) = 2 /\ C[1] = d /\ C[2] = c /\ C \in Seq(SprintActions) /\ 1..Len(C) = {1, 2}
        BY <2>2, <3>1, <3>2
      <3>4. Goal
        BY <2>1, <2>2, <3>2, <3>3
      <3> QED
        BY <3>4 DEF C
    <2> QED
      BY <2>3, <2>4
  <1> QED
    BY <1>3, <1>4

(***************************************************************************)
(* A log that goes on: a pair that no new action is about keeps what was   *)
(* said of it; of another the last new action about it says what it is.    *)
(***************************************************************************)
LEMMA LogGoesOn ==
    ASSUME NEW T, actions \in Seq(T), NEW C \in Seq(T), actions' = actions \o C,
           NEW s \in Sprints, NEW i \in Issues
    PROVE  /\ (\A k \in 1..Len(C) : C[k].sprint # s \/ C[k].issue # i) =>
                 /\ Entries(s, i)' = Entries(s, i)
                 /\ \A in \in BOOLEAN : LastSays(s, i, in) => LastSays(s, i, in)'
           /\ \A k \in 1..Len(C) :
                 C[k].sprint = s /\ C[k].issue = i
                 /\ (\A l \in 1..Len(C) : C[l].sprint = s /\ C[l].issue = i => l <= k)
                 => \A in \in BOOLEAN : C[k].in = in => LastSays(s, i, in)'
  <1> DEFINE L == Len(actions)
             M == Len(C)
  <1>1. /\ L \in Nat /\ M \in Nat /\ Len(actions') = L + M
        /\ \A k \in 1..L : actions'[k] = actions[k]
        /\ \A k \in 1..M : actions'[L + k] = C[k]
    OBVIOUS
  <1> HIDE DEF L, M
  <1>2. \A k \in 1..(L + M) : k \in 1..L \/ (k - L \in 1..M /\ k = L + (k - L))
    BY <1>1
  <1>3. 1..L \subseteq 1..(L + M) /\ \A k \in 1..M : L + k \in 1..(L + M)
    BY <1>1
  <1>4. ASSUME \A k \in 1..M : C[k].sprint # s \/ C[k].issue # i
        PROVE  /\ Entries(s, i)' = Entries(s, i)
               /\ \A in \in BOOLEAN : LastSays(s, i, in) => LastSays(s, i, in)'
    <2>1. \A k \in 1..(L + M) : actions'[k].sprint = s /\ actions'[k].issue = i => k \in 1..L
      BY <1>1, <1>2, <1>4
    <2>2. Entries(s, i)' = Entries(s, i)
      BY <1>1, <1>3, <2>1 DEF Entries, L
    <2> QED
      BY <1>1, <2>2 DEF LastSays, Entries, L
  <1>5. ASSUME NEW k \in 1..M, C[k].sprint = s, C[k].issue = i,
               \A l \in 1..M : C[l].sprint = s /\ C[l].issue = i => l <= k,
               NEW in \in BOOLEAN, C[k].in = in
        PROVE  LastSays(s, i, in)'
    <2>1. L + k \in Entries(s, i)' /\ actions'[L + k].in = in
      BY <1>1, <1>3, <1>5 DEF Entries
    <2>2. ASSUME NEW l \in Entries(s, i)' PROVE l <= L + k
      <3>1. l \in 1..(L + M) /\ actions'[l].sprint = s /\ actions'[l].issue = i
        BY <1>1 DEF Entries
      <3>2. CASE l \in 1..L
        BY <1>1, <3>2
      <3>3. CASE l - L \in 1..M /\ l = L + (l - L)
        <4>1. C[l - L].sprint = s /\ C[l - L].issue = i
          BY <1>1, <3>1, <3>3
        <4>2. l - L <= k
          BY <1>5, <3>3, <4>1
        <4> QED
          BY <1>1, <3>1, <4>2
      <3> QED
        BY <1>2, <3>1, <3>2, <3>3
    <2> QED
      BY <2>1, <2>2 DEF LastSays
  <1> QED
    BY <1>4, <1>5 DEF M

-----------------------------------------------------------------------------
(* The work item is in no open sprint but the one it was moved to. *)
LEMMA CommitMoveSprints ==
    ASSUME PlanningIInv, NEW m \in Movers, CommitMove(m)
    PROVE  SprintsInv'
  <1> DEFINE i == job[m].issue
             S == job[m].sprint
             P == job[m].prev
             C == Changes(m)
  <1>1. /\ Moving(m)
        /\ planned' = [s \in Sprints |-> IF s = S THEN planned[s] \cup {i}
                                         ELSE IF s \in P THEN planned[s] \ {i} ELSE planned[s]]
        /\ actions' = actions \o C
        /\ UNCHANGED <<state, closedAt, blurred>>
    BY DEF CommitMove
  <1>2. PlanningValues /\ SprintsInv /\ OwnOK(m)
    BY DEF PlanningIInv
  <1>3. /\ i \in Issues /\ S \in Sprints \cup {Backlog} /\ P \in SUBSET Sprints /\ S \notin P
        /\ \A s \in Sprints \ {S} : Open(s) /\ i \in planned[s] => s \in P
        /\ \A s \in Sprints \ blurred : state[s] = "closed" => S # s /\ s \notin P
        /\ S # Backlog => state[S] # "none"
        /\ \A s \in P : Exists(s)
    BY <1>1, <1>2 DEF OwnOK, RequestOK, MoveOK, PlanningValues, Jobs
  <1>4. C \in Seq(SprintActions) /\ actions \in Seq(SprintActions)
    BY <1>1, <1>2, ChangesAre DEF PlanningValues
  <1>5. /\ \A k \in 1..Len(C) : C[k].issue = i /\ (C[k].sprint \in P \/ C[k].sprint = S)
        /\ \A p \in P : \E k \in 1..Len(C) : /\ C[k].sprint = p /\ C[k].in = FALSE
                                             /\ \A l \in 1..Len(C) : C[l].sprint = p => l <= k
        /\ S # Backlog => \E k \in 1..Len(C) : /\ C[k].sprint = S /\ C[k].in = TRUE
                                               /\ \A l \in 1..Len(C) : C[l].sprint = S => l <= k
    BY <1>1, ChangesAre
  <1> HIDE DEF C, i, S, P
  <1>6. \A s \in Sprints : /\ s = S => planned'[s] = planned[s] \cup {i}
                           /\ s \in P => planned'[s] = planned[s] \ {i}
                           /\ s # S /\ s \notin P => planned'[s] = planned[s]
    BY <1>1, <1>3
  <1>7. OneOpenSprint'
    <2> SUFFICES ASSUME NEW s \in Sprints, NEW t \in Sprints, s # t, Open(s), Open(t),
                        NEW x \in planned'[s], x \in planned'[t]
                 PROVE  FALSE
      BY <1>1 DEF OneOpenSprint, Open
    <2>1. CASE x # i
      <3>1. x \in planned[s] /\ x \in planned[t]
        BY <1>6, <2>1
      <3> QED
        BY <1>2, <3>1 DEF SprintsInv, OneOpenSprint
    <2>2. CASE x = i
      <3>1. s = S /\ t = S
        BY <1>3, <1>6, <2>2
      <3> QED
        BY <3>1
    <2> QED
      BY <2>1, <2>2
  <1>8. OneActiveSprint'
    BY <1>1, <1>2 DEF SprintsInv, OneActiveSprint
  <1>9. ASSUME NEW s \in Sprints, NEW q \in Issues PROVE Told(s, q)'
    <2>1. Told(s, q)
      BY <1>2 DEF SprintsInv, BookInv
    <2>2. CASE q # i \/ (s # S /\ s \notin P)
      <3>1. \A k \in 1..Len(C) : C[k].sprint # s \/ C[k].issue # q
        BY <1>5, <2>2
      <3>2. /\ Entries(s, q)' = Entries(s, q)
            /\ \A in \in BOOLEAN : LastSays(s, q, in) => LastSays(s, q, in)'
        BY <1>1, <1>4, <3>1, LogGoesOn
      <3>3. q \in planned'[s] <=> q \in planned[s]
        BY <1>6, <2>2
      <3> QED
        BY <1>1, <2>1, <3>2, <3>3 DEF Told, Exists
    <2>3. CASE q = i /\ s = S
      <3>1. S # Backlog /\ state'[s] # "none" /\ q \in planned'[s]
        BY <1>1, <1>3, <1>6, <2>3, PlanningAssumption
      <3>2. LastSays(s, q, TRUE)'
        BY <1>1, <1>4, <1>5, <2>3, <3>1, LogGoesOn
      <3> QED
        BY <3>1, <3>2 DEF Told
    <2>4. CASE q = i /\ s \in P
      <3>1. Exists(s)' /\ state'[s] # "none" /\ q \notin planned'[s]
        BY <1>1, <1>3, <1>6, <2>4 DEF Exists
      <3>2. PICK k \in 1..Len(C) : /\ C[k].sprint = s /\ C[k].in = FALSE
                                   /\ \A l \in 1..Len(C) : C[l].sprint = s => l <= k
        BY <1>5, <2>4
      <3>3. C[k].issue = q
        BY <1>5, <2>4
      <3>4. LastSays(s, q, FALSE)'
        BY <1>1, <1>4, <3>2, <3>3, LogGoesOn
      <3> QED
        BY <3>1, <3>4 DEF Told
    <2> QED
      BY <2>2, <2>3, <2>4
  <1>10. ClosedInv'
    <2> SUFFICES ASSUME NEW s \in Sprints \ blurred, state[s] = "closed",
                        NEW k \in 1..Len(actions'), actions'[k].sprint = s
                 PROVE  actions'[k].at <= closedAt[s]
      BY <1>1 DEF ClosedInv
    <2>1. /\ Len(actions) \in Nat /\ Len(C) \in Nat /\ Len(actions') = Len(actions) + Len(C)
          /\ \A l \in 1..Len(actions) : actions'[l] = actions[l]
          /\ \A l \in 1..Len(C) : actions'[Len(actions) + l] = C[l]
      BY <1>1, <1>4
    <2>2. CASE k \in 1..Len(actions)
      BY <1>2, <2>1, <2>2 DEF SprintsInv, ClosedInv
    <2>3. CASE k - Len(actions) \in 1..Len(C)
      <3>1. C[k - Len(actions)].sprint = s
        BY <2>1, <2>3
      <3> QED
        BY <1>3, <1>5, <2>3, <3>1
    <2> QED
      BY <2>1, <2>2, <2>3
  <1> QED
    BY <1>7, <1>8, <1>9, <1>10 DEF SprintsInv, BookInv

(* The move is committed; whoever moves something else is not disturbed. *)
LEMMA CommitMoveIInv ==
    ASSUME PlanningIInv, NEW m \in Movers, CommitMove(m)
    PROVE  PlanningIInv'
  <1> DEFINE i == job[m].issue
             S == job[m].sprint
             P == job[m].prev
  <1>1. /\ Moving(m) /\ GoOn(m)
        /\ planned' = [s \in Sprints |-> IF s = S THEN planned[s] \cup {i}
                                         ELSE IF s \in P THEN planned[s] \ {i} ELSE planned[s]]
        /\ actions' = actions \o Changes(m)
        /\ UNCHANGED <<state, closedAt, rank, now, blurred>>
    BY DEF CommitMove
  <1>2. PlanningValues /\ LockInv /\ WordsInv /\ \A n \in Movers : OwnOK(n)
    BY DEF PlanningIInv
  <1>3. i \in Issues /\ job[m] \in Jobs /\ RequestOK(m) /\ RankOK(m)
    BY <1>1, <1>2 DEF OwnOK, RequestOK, PlanningValues
  <1>4. /\ \A n \in Movers \ {m} : pc'[n] = pc[n] /\ job'[n] = job[n]
        /\ \/ job[m].rank = None /\ pc'[m] = "idle" /\ job'[m] = NoJob
           \/ job[m].rank # None /\ pc'[m] = "cleared" /\ job'[m] = [job[m] EXCEPT !.prev = {}]
        /\ pc' \in [Movers -> {"idle", "begun", "locked", "counting", "cleared", "updating"}]
        /\ job' \in [Movers -> Jobs]
    <2>1. /\ pc \in [Movers -> {"idle", "begun", "locked", "counting", "cleared", "updating"}]
          /\ job \in [Movers -> Jobs]
      BY <1>2 DEF PlanningValues
    <2>2. NoJob \in Jobs
      BY PlanningAssumption DEF NoJob, Jobs, Times, Ranks, None
    <2>3. [job[m] EXCEPT !.prev = {}] \in Jobs
      BY <1>3 DEF Jobs
    <2>4. CASE job[m].rank = None
      BY <1>1, <2>1, <2>2, <2>4 DEF GoOn, End
    <2>5. CASE job[m].rank # None
      <3>1. /\ pc' = [pc EXCEPT ![m] = "cleared"]
            /\ job' = [job EXCEPT ![m] = [job[m] EXCEPT !.prev = {}]]
        BY <1>1, <2>5 DEF GoOn
      <3> QED
        BY <2>1, <2>3, <2>5, <3>1
    <2> QED
      BY <2>4, <2>5
  <1>5. ~Moving(m)' /\ ~Updating(m)' /\ pc'[m] # "counting"
    BY <1>4 DEF Moving, Updating
  <1>6. PlanningValues'
    <2>1. planned' \in [Sprints -> SUBSET Issues]
      BY <1>1, <1>2, <1>3 DEF PlanningValues
    <2>2. actions' \in Seq(SprintActions)
      <3>1. Changes(m) \in Seq(SprintActions) /\ actions \in Seq(SprintActions)
        BY <1>1, <1>2, ChangesAre DEF PlanningValues
      <3> QED
        BY <1>1, <3>1
    <2> QED
      BY <1>1, <1>2, <1>4, <2>1, <2>2 DEF PlanningValues
  <1>7. LockInv'
    <2>1. \A n \in Movers \ {m} : Apart(m, n)'
      BY <1>5 DEF Apart
    <2> QED
      BY <1>2, <1>4, <2>1, ApartKept
  <1>8. OwnOK(m)'
    <2>1. CASE pc'[m] = "idle" /\ job'[m] = NoJob
      BY <1>5, <2>1 DEF OwnOK, RequestOK, MoveOK, UpdateOK, RankOK, NoJob
    <2>2. CASE job[m].rank # None /\ pc'[m] = "cleared" /\ job'[m] = [job[m] EXCEPT !.prev = {}]
      <3>1. /\ job'[m].issue = i /\ job'[m].sprint = S /\ job'[m].rank = job[m].rank
            /\ job'[m].fresh = job[m].fresh /\ job'[m].after = job[m].after
            /\ job'[m].before = job[m].before /\ job'[m].around = job[m].around
        BY <1>3, <2>2 DEF Jobs
      <3>2. RequestOK(m)'
        BY <1>1, <1>3, <1>5, <2>2, <3>1 DEF RequestOK
      <3>3. RankOK(m)'
        BY <1>1, <1>3, <3>1 DEF RankOK, Placed
      <3> QED
        BY <1>5, <3>2, <3>3 DEF OwnOK, MoveOK, UpdateOK
    <2> QED
      BY <1>4, <2>1, <2>2
  <1>9. ASSUME NEW n \in Movers \ {m} PROVE OwnOK(n)'
    <2>1. pc'[n] = pc[n] /\ job'[n] = job[n] /\ OwnOK(n)
      BY <1>2, <1>4
    <2>2. RequestOK(n)' /\ UpdateOK(n)' /\ RankOK(n)'
      BY <1>1, <2>1 DEF OwnOK, RequestOK, UpdateOK, RankOK, Moving, Updating, Allowed, OtherActive,
         Exists, Placed
    <2>3. ASSUME Moving(n) PROVE MoveOK(n)'
      <3>1. job[n].issue # i
        BY <1>1, <1>2, <2>3 DEF LockInv, Apart
      <3>2. \A s \in Sprints : job[n].issue \in planned'[s] => job[n].issue \in planned[s]
        BY <1>1, <3>1
      <3> QED
        BY <1>1, <2>1, <2>3, <3>2 DEF OwnOK, MoveOK, Moving, Open, Exists
    <2>4. MoveOK(n)'
      BY <2>1, <2>3 DEF MoveOK, Moving
    <2> QED
      BY <2>2, <2>4 DEF OwnOK
  <1>10. WordsInv'
    BY <1>1, <1>2 DEF WordsInv
  <1> QED
    BY <1>2, <1>6, <1>7, <1>8, <1>9, <1>10, CommitMoveSprints DEF PlanningIInv

(* The rank is a word; whoever worked one out before knows no more. *)
LEMMA SetIssueRankIInv ==
    ASSUME PlanningIInv, NEW m \in Movers, SetIssueRank(m)
    PROVE  PlanningIInv'
  <1>1. /\ pc[m] = "cleared"
        /\ rank' = [rank EXCEPT ![job[m].issue] = job[m].rank]
        /\ pc' = [pc EXCEPT ![m] = "idle"]
        /\ job' = [n \in Movers |-> IF n = m THEN NoJob ELSE [job[n] EXCEPT !.fresh = FALSE]]
        /\ UNCHANGED <<state, closedAt, planned, actions, now, blurred>>
    BY DEF SetIssueRank
  <1>2. PlanningValues /\ LockInv /\ WordsInv /\ SprintsInv /\ \A n \in Movers : OwnOK(n)
    BY DEF PlanningIInv
  <1>3. job[m].issue \in Issues /\ job[m].rank \in Ranks /\ job[m].rank # None
    BY <1>1, <1>2 DEF OwnOK, RequestOK, PlanningValues, Jobs
  <1>4. ASSUME NEW n \in Movers \ {m}
        PROVE  /\ pc'[n] = pc[n] /\ job'[n] = [job[n] EXCEPT !.fresh = FALSE] /\ job'[n] \in Jobs
               /\ job'[n].issue = job[n].issue /\ job'[n].sprint = job[n].sprint
               /\ job'[n].to = job[n].to /\ job'[n].prev = job[n].prev /\ job'[n].rank = job[n].rank
               /\ job'[n].fresh = FALSE
    <2>1. pc'[n] = pc[n] /\ job'[n] = [job[n] EXCEPT !.fresh = FALSE] /\ job[n] \in Jobs
      BY <1>1, <1>2 DEF PlanningValues
    <2> QED
      BY <2>1 DEF Jobs
  <1>5. NoJob \in Jobs
    BY PlanningAssumption DEF NoJob, Jobs, Times, Ranks, None
  <1>6. pc'[m] = "idle" /\ job'[m] = NoJob
    BY <1>1, <1>2 DEF PlanningValues
  <1>7. PlanningValues'
    <2>1. rank' \in [Issues -> Ranks]
      BY <1>1, <1>2, <1>3 DEF PlanningValues
    <2>2. job' \in [Movers -> Jobs]
      BY <1>1, <1>4, <1>5, <1>6
    <2> QED
      BY <1>1, <1>2, <2>1, <2>2 DEF PlanningValues
  <1>8. LockInv'
    <2>1. \A n \in Movers \ {m} : Apart(m, n)'
      BY <1>6 DEF Apart, Moving, Updating
    <2> QED
      BY <1>2, <1>4, <2>1, ApartKept
  <1>9. WordsInv'
    BY <1>1, <1>2, <1>3 DEF WordsInv, PlanningValues
  <1>10. SprintsInv'
    BY <1>1, <1>2 DEF SprintsInv, OneOpenSprint, OneActiveSprint, BookInv, ClosedInv, Told,
       LastSays, Entries, Exists, Open
  <1>11. OwnOK(m)'
    BY <1>6 DEF OwnOK, RequestOK, MoveOK, UpdateOK, RankOK, Moving, Updating, NoJob
  <1>12. ASSUME NEW n \in Movers \ {m} PROVE OwnOK(n)'
    <2>1. OwnOK(n)
      BY <1>2
    <2>2. pc[n] = "idle" => job'[n] = NoJob
      <3>1. NoJob.fresh = FALSE
        BY DEF NoJob
      <3>2. NoJob = [f \in DOMAIN NoJob |-> NoJob[f]]
        BY DEF NoJob
      <3>3. [NoJob EXCEPT !.fresh = FALSE] = NoJob
        BY <3>1, <3>2
      <3> QED
        BY <1>4, <2>1, <3>3 DEF OwnOK, RequestOK
    <2>3. RequestOK(n)'
      BY <1>1, <1>4, <2>1, <2>2 DEF OwnOK, RequestOK, Moving, Updating
    <2>4. MoveOK(n)' /\ UpdateOK(n)' /\ RankOK(n)'
      BY <1>1, <1>4, <2>1 DEF OwnOK, MoveOK, UpdateOK, RankOK, Moving, Updating, Exists, Open,
         Allowed, OtherActive
    <2> QED
      BY <2>3, <2>4 DEF OwnOK
  <1> QED
    BY <1>7, <1>8, <1>9, <1>10, <1>11, <1>12 DEF PlanningIInv

-----------------------------------------------------------------------------
(* UpdateSprint: who moves work of the sprint noted that it was completed. *)
LEMMA CommitSprintIInv ==
    ASSUME PlanningIInv, NEW m \in Movers, CommitSprint(m)
    PROVE  PlanningIInv'
  <1> DEFINE s == job[m].sprint
             to == job[m].to
             end == job[m].at
             ends == to = "closed" /\ state[s] # "closed"
  <1>1. /\ Updating(m) /\ to # "deleted"
        /\ state' = [state EXCEPT ![s] = to]
        /\ closedAt' = [closedAt EXCEPT ![s] = IF ends THEN end ELSE closedAt[s]]
        /\ blurred' = IF ends /\ Overlapped(s, end) THEN blurred \cup {s} ELSE blurred
        /\ pc' = [pc EXCEPT ![m] = "idle"] /\ job' = [job EXCEPT ![m] = NoJob]
        /\ UNCHANGED <<planned, rank, actions, now>>
    BY DEF CommitSprint, End
  <1>2. PlanningValues /\ LockInv /\ WordsInv /\ SprintsInv /\ \A n \in Movers : OwnOK(n)
    BY DEF PlanningIInv
  <1>3. /\ s \in Sprints /\ to \in {"future", "active", "closed"} /\ end \in Times
        /\ Allowed(s, to)
        /\ to = "active" => ParallelSprints \/ state[s] = "active" \/ ~OtherActive(s)
    BY <1>1, <1>2 DEF OwnOK, RequestOK, UpdateOK, PlanningValues, Jobs
  <1>4. NoJob \in Jobs
    BY PlanningAssumption DEF NoJob, Jobs, Times, Ranks, None
  <1> HIDE DEF s, to, end
  <1>5. /\ pc'[m] = "idle" /\ job'[m] = NoJob
        /\ \A n \in Movers \ {m} : pc'[n] = pc[n] /\ job'[n] = job[n]
    BY <1>1, <1>2 DEF PlanningValues
  <1>6. /\ state'[s] = to /\ closedAt'[s] = IF ends THEN end ELSE closedAt[s]
        /\ \A t \in Sprints \ {s} : state'[t] = state[t] /\ closedAt'[t] = closedAt[t]
                                    /\ (t \in blurred' <=> t \in blurred)
        /\ s \notin blurred' => s \notin blurred /\ (ends => ~Overlapped(s, end))
    BY <1>1, <1>2, <1>3 DEF PlanningValues
  <1>7. /\ \/ state[s] = to
           \/ state[s] = "future" /\ to = "active"
           \/ state[s] = "active" /\ to = "closed"
        /\ state[s] \in {"future", "active", "closed"}
    BY <1>3 DEF Allowed
  <1>8. PlanningValues'
    <2>1. closedAt' \in [Sprints -> Times]
      BY <1>1, <1>2, <1>3 DEF PlanningValues
    <2>2. job' \in [Movers -> Jobs]
      BY <1>1, <1>2, <1>4 DEF PlanningValues
    <2>3. blurred' \in SUBSET Sprints
      BY <1>1, <1>2, <1>3 DEF PlanningValues
    <2> QED
      BY <1>1, <1>2, <1>3, <2>1, <2>2, <2>3 DEF PlanningValues
  <1>9. LockInv'
    <2>1. \A n \in Movers \ {m} : Apart(m, n)'
      BY <1>5 DEF Apart, Moving, Updating
    <2> QED
      BY <1>2, <1>5, <2>1, ApartKept
  <1>10. WordsInv' /\ OneOpenSprint' /\ OneActiveSprint'
    <2>1. \A t \in Sprints : Open(t)' => Open(t)
      BY <1>6, <1>7 DEF Open
    <2>2. OneOpenSprint'
      BY <1>1, <1>2, <2>1 DEF SprintsInv, OneOpenSprint
    <2>3. OneActiveSprint'
      BY <1>2, <1>3, <1>6, <1>7 DEF SprintsInv, OneActiveSprint, OtherActive
    <2> QED
      BY <1>1, <1>2, <2>2, <2>3 DEF WordsInv
  <1>11. BookInv'
    <2>1. \A t \in Sprints : /\ Exists(t)' <=> Exists(t)
                             /\ state'[t] = "none" <=> state[t] = "none"
      BY <1>3, <1>6, <1>7 DEF Exists
    <2>2. ASSUME NEW t \in Sprints, NEW i \in Issues PROVE Told(t, i)'
      <3>1. Told(t, i)
        BY <1>2 DEF SprintsInv, BookInv
      <3>2. Entries(t, i)' = Entries(t, i)
        BY <1>1 DEF Entries
      <3>3. \A in \in BOOLEAN : LastSays(t, i, in)' <=> LastSays(t, i, in)
        BY <1>1, <3>2 DEF LastSays
      <3> QED
        BY <1>1, <2>1, <3>1, <3>2, <3>3 DEF Told
    <2> QED
      BY <2>2 DEF BookInv
  <1>12. ClosedInv'
    <2> SUFFICES ASSUME NEW t \in Sprints \ blurred', state'[t] = "closed",
                        NEW k \in 1..Len(actions), actions[k].sprint = t
                 PROVE  actions[k].at <= closedAt'[t]
      BY <1>1 DEF ClosedInv
    <2>1. CASE t # s \/ ~ends
      <3>1. t \notin blurred /\ state[t] = "closed" /\ closedAt'[t] = closedAt[t]
        BY <1>6, <1>7, <2>1
      <3> QED
        BY <1>2, <3>1 DEF SprintsInv, ClosedInv
    <2>2. CASE t = s /\ ends
      <3>1. ~(actions[k].at > end)
        BY <1>6, <2>2 DEF Overlapped
      <3>2. actions[k].at \in Times /\ end \in Times
        <4>1. actions \in Seq(SprintActions)
          BY <1>2 DEF PlanningValues
        <4>2. actions[k] \in SprintActions
          BY <4>1
        <4> QED
          BY <1>3, <4>2 DEF SprintActions
      <3> QED
        BY <1>6, <2>2, <3>1, <3>2, PlanningAssumption DEF Times
    <2> QED
      BY <2>1, <2>2
  <1>13. OwnOK(m)'
    BY <1>5 DEF OwnOK, RequestOK, MoveOK, UpdateOK, RankOK, Moving, Updating, NoJob
  <1>14. ASSUME NEW n \in Movers \ {m} PROVE OwnOK(n)'
    <2>1. pc'[n] = pc[n] /\ job'[n] = job[n] /\ OwnOK(n) /\ job[n] \in Jobs
      BY <1>2, <1>5 DEF PlanningValues
    <2>2. /\ job[n].sprint # Backlog => job[n].sprint \in Sprints
          /\ job[n].prev \in SUBSET Sprints
      BY <2>1 DEF Jobs
    <2>3. RequestOK(n)'
      BY <1>3, <1>6, <2>1, <2>2 DEF OwnOK, RequestOK, Moving, Updating
    <2>4. RankOK(n)'
      BY <1>1, <2>1 DEF OwnOK, RankOK, Placed
    <2>5. UpdateOK(n)'
      <3> SUFFICES ASSUME Updating(n) PROVE UpdateOK(n)'
        BY <2>1 DEF UpdateOK, Updating
      <3>1. job[n].to = "deleted" /\ job[n].sprint # s /\ job[n].sprint \in Sprints
        BY <1>1, <1>2, <2>1 DEF LockInv, Apart, OwnOK, RequestOK, s, to
      <3> QED
        BY <1>6, <2>1, <3>1 DEF OwnOK, UpdateOK, Allowed, Exists, Updating
    <2>6. MoveOK(n)'
      <3> SUFFICES ASSUME Moving(n) PROVE MoveOK(n)'
        BY <2>1 DEF MoveOK, Moving
      <3>1. MoveOK(n)
        BY <2>1 DEF OwnOK
      <3>2. \A t \in Sprints : Open(t)' => Open(t)
        BY <1>6, <1>7 DEF Open
      <3>3. \A t \in job[n].prev : Exists(t)'
        BY <1>3, <1>6, <2>2, <3>1 DEF MoveOK, Exists
      <3>4. ASSUME NEW t \in Sprints \ blurred', state'[t] = "closed"
            PROVE  job[n].sprint # t /\ t \notin job[n].prev
        <4>1. CASE t # s \/ ~ends
          BY <1>6, <1>7, <3>1, <3>4, <4>1 DEF MoveOK
        <4>2. CASE t = s /\ ends
          BY <1>6, <4>2 DEF Overlapped
        <4> QED
          BY <4>1, <4>2
      <3> QED
        BY <1>1, <2>1, <3>1, <3>2, <3>3, <3>4 DEF MoveOK
    <2> QED
      BY <2>3, <2>4, <2>5, <2>6 DEF OwnOK
  <1> QED
    BY <1>2, <1>8, <1>9, <1>10, <1>11, <1>12, <1>13, <1>14 DEF PlanningIInv, SprintsInv

(* DeleteSprint: nobody holds a membership of the sprint that goes. *)
LEMMA CommitDeleteIInv ==
    ASSUME PlanningIInv, NEW m \in Movers, CommitDelete(m)
    PROVE  PlanningIInv'
  <1> DEFINE s == job[m].sprint
  <1>1. /\ Updating(m) /\ job[m].to = "deleted" /\ WaitsFor(m) = {}
        /\ state' = [state EXCEPT ![s] = "deleted"]
        /\ closedAt' = [closedAt EXCEPT ![s] = 0]
        /\ planned' = [planned EXCEPT ![s] = {}]
        /\ blurred' = blurred \ {s}
        /\ pc' = [pc EXCEPT ![m] = "idle"] /\ job' = [job EXCEPT ![m] = NoJob]
        /\ UNCHANGED <<rank, actions, now>>
    BY DEF CommitDelete, End
  <1>2. PlanningValues /\ LockInv /\ WordsInv /\ SprintsInv /\ \A n \in Movers : OwnOK(n)
    BY DEF PlanningIInv
  <1>3. s \in Sprints /\ state[s] # "none" /\ MembershipLockers(s) = {}
    <2>1. s \in Sprints
      BY <1>1, <1>2 DEF OwnOK, RequestOK
    <2>2. state[s] # "none"
      BY <1>2, <2>1, PlanningAssumption DEF OwnOK, RequestOK
    <2>3. ~Joining(m)
      BY <1>1 DEF Joining, Inserting, Moving, Updating
    <2>4. MembershipLockers(s) \subseteq WaitsFor(m)
      BY <1>1, <2>3 DEF WaitsFor
    <2> QED
      BY <1>1, <2>1, <2>2, <2>4
  <1>4. NoJob \in Jobs /\ 0 \in Times
    BY PlanningAssumption DEF NoJob, Jobs, Times, Ranks, None
  <1> HIDE DEF s
  <1>5. /\ pc'[m] = "idle" /\ job'[m] = NoJob
        /\ \A n \in Movers \ {m} : pc'[n] = pc[n] /\ job'[n] = job[n]
    BY <1>1, <1>2 DEF PlanningValues
  <1>6. /\ state'[s] = "deleted" /\ planned'[s] = {}
        /\ \A t \in Sprints \ {s} : /\ state'[t] = state[t] /\ closedAt'[t] = closedAt[t]
                                    /\ planned'[t] = planned[t] /\ (t \in blurred' <=> t \in blurred)
    BY <1>1, <1>2, <1>3 DEF PlanningValues
  <1>7. PlanningValues'
    <2>1. closedAt' \in [Sprints -> Times] /\ planned' \in [Sprints -> SUBSET Issues]
      BY <1>1, <1>2, <1>3, <1>4 DEF PlanningValues
    <2>2. job' \in [Movers -> Jobs]
      BY <1>1, <1>2, <1>4 DEF PlanningValues
    <2> QED
      BY <1>1, <1>2, <2>1, <2>2 DEF PlanningValues
  <1>8. LockInv'
    <2>1. \A n \in Movers \ {m} : Apart(m, n)'
      BY <1>5 DEF Apart, Moving, Updating
    <2> QED
      BY <1>2, <1>5, <2>1, ApartKept
  <1>9. WordsInv' /\ OneOpenSprint' /\ OneActiveSprint' /\ ClosedInv'
    <2>1. OneOpenSprint' /\ OneActiveSprint'
      BY <1>2, <1>6 DEF SprintsInv, OneOpenSprint, OneActiveSprint, Open
    <2>2. ClosedInv'
      BY <1>1, <1>2, <1>6 DEF SprintsInv, ClosedInv
    <2> QED
      BY <1>1, <1>2, <2>1, <2>2 DEF WordsInv
  <1>10. BookInv'
    <2>1. ASSUME NEW t \in Sprints, NEW i \in Issues PROVE Told(t, i)'
      <3>1. Told(t, i)
        BY <1>2 DEF SprintsInv, BookInv
      <3>2. Entries(t, i)' = Entries(t, i)
        BY <1>1 DEF Entries
      <3>3. \A in \in BOOLEAN : LastSays(t, i, in)' <=> LastSays(t, i, in)
        BY <1>1, <3>2 DEF LastSays
      <3>4. CASE t = s
        BY <1>6, <3>4 DEF Told, Exists
      <3>5. CASE t # s
        BY <1>6, <3>1, <3>2, <3>3, <3>5 DEF Told, Exists
      <3> QED
        BY <3>4, <3>5
    <2> QED
      BY <2>1 DEF BookInv
  <1>11. OwnOK(m)'
    BY <1>5 DEF OwnOK, RequestOK, MoveOK, UpdateOK, RankOK, Moving, Updating, NoJob
  <1>12. ASSUME NEW n \in Movers \ {m} PROVE OwnOK(n)'
    <2>1. pc'[n] = pc[n] /\ job'[n] = job[n] /\ OwnOK(n) /\ job[n] \in Jobs
      BY <1>2, <1>5 DEF PlanningValues
    <2>2. /\ job[n].sprint # Backlog => job[n].sprint \in Sprints
          /\ job[n].prev \in SUBSET Sprints
      BY <2>1 DEF Jobs
    <2>3. RequestOK(n)'
      BY <1>6, <2>1, <2>2 DEF OwnOK, RequestOK, Moving, Updating
    <2>4. RankOK(n)'
      BY <1>1, <2>1 DEF OwnOK, RankOK, Placed
    <2>5. UpdateOK(n)'
      <3> SUFFICES ASSUME Updating(n) PROVE UpdateOK(n)'
        BY <2>1 DEF UpdateOK, Updating
      <3>1. job[n].sprint # s /\ job[n].sprint \in Sprints
        BY <1>1, <1>2, <2>1 DEF LockInv, Apart, OwnOK, RequestOK, s
      <3> QED
        BY <1>6, <2>1, <3>1 DEF OwnOK, UpdateOK, Allowed, Exists, OtherActive, Updating
    <2>6. MoveOK(n)'
      <3> SUFFICES ASSUME Moving(n) PROVE MoveOK(n)'
        BY <2>1 DEF MoveOK, Moving
      <3>1. MoveOK(n) /\ s \notin job[n].prev
        BY <1>3, <2>1 DEF OwnOK, MembershipLockers
      <3> QED
        BY <1>6, <2>1, <2>2, <3>1 DEF MoveOK, Exists, Open, Moving
    <2> QED
      BY <2>3, <2>4, <2>5, <2>6 DEF OwnOK
  <1> QED
    BY <1>2, <1>7, <1>8, <1>9, <1>10, <1>11, <1>12 DEF PlanningIInv, SprintsInv

(***************************************************************************)
(* The invariant of the planning of work: what each request has read and   *)
(* locked still holds where it relies on it, and the log of actions tells  *)
(* the memberships.                                                        *)
(***************************************************************************)
THEOREM PlanningIInvInvariant == SpecPlanning => []PlanningIInv
  <1>1. PlanningIInv /\ [NextPlanning]_planningVars => PlanningIInv'
    <2> SUFFICES ASSUME PlanningIInv, [NextPlanning]_planningVars PROVE PlanningIInv'
      OBVIOUS
    <2>1. CASE UNCHANGED planningVars
      <3>1. PlanningValues' /\ LockInv' /\ WordsInv'
        BY <2>1 DEF planningVars, PlanningIInv, PlanningValues, LockInv, Apart, WordsInv, Moving, Updating
      <3>2. SprintsInv'
        BY <2>1 DEF planningVars, PlanningIInv, SprintsInv, OneOpenSprint, OneActiveSprint, BookInv,
           ClosedInv, Told, LastSays, Entries, Exists, Open
      <3>3. \A m \in Movers : OwnOK(m)'
        BY <2>1, OwnKept DEF planningVars, PlanningIInv
      <3> QED
        BY <3>1, <3>2, <3>3 DEF PlanningIInv
    <2>2. ASSUME NEW m \in Movers, Step(m) \/ Abandon(m) PROVE PlanningIInv'
      BY <2>2, LockItemIInv, CountIInv, CommitMoveIInv, SetIssueRankIInv, LockSprintIInv,
         CommitSprintIInv, CommitDeleteIInv, QuitIInv DEF Step, Refuse, BreakDeadlock, Abandon
    <2> QED
      BY <2>1, <2>2, CreateSprintIInv, AskPreserves DEF NextPlanning
  <1> QED
    BY <1>1, InitPlanningIInv, PTL DEF SpecPlanning

(***************************************************************************)
(* However requests overlap, a work item is in one open sprint at most, a  *)
(* board runs one sprint at a time unless the site allows more, and no     *)
(* lock has two holders (AddIssueToSprint, UpdateSprint, DeleteSprint).    *)
(***************************************************************************)
THEOREM PlanInvariant == SpecPlanning => []PlanInv
  BY PlanningIInvInvariant, PlanInvFollows, PTL

(***************************************************************************)
(* The report of a completed sprint shows the work that is in it, unless a *)
(* move of its work was under way when it was completed (SprintReport).    *)
(***************************************************************************)
THEOREM ReportTellsTheSprint == SpecPlanning => []ReportIsTheSprint
  BY PlanningIInvInvariant, ReportFollows, PTL

(***************************************************************************)
(* A work item goes where it was asked for, if nothing was ranked since    *)
(* (RankAround, Mid and SetIssueRank).                                     *)
(***************************************************************************)
THEOREM ItemsGoWhereAsked == SpecPlanning => PlacedWhereAsked
  <1>1. ASSUME PlanningIInv, NEW m \in Movers, SetIssueRank(m), job[m].fresh
        PROVE  Placed(rank', job[m].issue, job[m].after, job[m].before, job[m].around)
    <2>1. RankOK(m)
      BY <1>1 DEF PlanningIInv, OwnOK
    <2>2. rank' = [rank EXCEPT ![job[m].issue] = job[m].rank]
      BY <1>1 DEF SetIssueRank
    <2> QED
      BY <1>1, <2>1, <2>2 DEF RankOK
  <1>2. PlanningIInv => \A m \in Movers : SetIssueRank(m) /\ job[m].fresh =>
                           Placed(rank', job[m].issue, job[m].after, job[m].before, job[m].around)
    BY <1>1
  <1> QED
    BY <1>2, PlanningIInvInvariant, PTL DEF PlacedWhereAsked
=============================================================================
