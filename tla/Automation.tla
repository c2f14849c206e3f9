----------------------------- MODULE Automation -----------------------------
(***************************************************************************)
(* Event-triggered automation rules (internal/automation): the reader that *)
(* turns the action log into runs, and the runs that workers claim,        *)
(* execute and finish.                                                     *)
(*                                                                         *)
(* Every server replica has a worker.  enqueueEvents owns the cursor row   *)
(* for its whole transaction, but its statements are READ COMMITTED and    *)
(* the rules come over another connection, so actions commit and rules     *)
(* change between the rules, the page and the head.  A claim is a state    *)
(* and a time in the row of the run; finish does not ask whose it is.      *)
(*                                                                         *)
(* Which field of a work item changed is left out: an action either is an  *)
(* event or is not, and a rule matches by who caused it.  Back-off only    *)
(* delays a failed run and is left out too.                                *)
(***************************************************************************)
EXTENDS Naturals, Sequences, FiniteSetsExt

CONSTANTS Rules,         \* event rules
          Chained,       \* those that let other rules trigger them
          Workers,       \* server replicas
          User,          \* the cause of an action that no rule made
          Nobody,        \* nobody owns the cursor row
          NoRun,         \* a worker executes nothing
          MaxSeq,        \* bound on the log
          Batch,         \* rows in a page (eventBatch)
          FailureLimit   \* failures in a row that disable a rule

ASSUME ChainAssumption == Chained \subseteq Rules /\ User \notin Rules
ASSUME WorkerAssumption == Nobody \notin Workers
ASSUME RunAssumption == NoRun \notin Rules \X (1..MaxSeq)
ASSUME BoundAssumption ==
    MaxSeq \in Nat /\ Batch \in Nat \ {0} /\ FailureLimit \in Nat \ {0}

VARIABLES
    log,        \* the actions: is it an event, and who caused it
    enabled,    \* enabled[r]
    failures,   \* failures[r]: consecutive_failures
    watching,   \* the cursor row exists
    cursor,     \* automation_event_cursors.last_seq
    holder,     \* the worker that owns the cursor row
    phase,      \* phase[w]: what worker w does next
    known,      \* known[w]: the rules it read
    page,       \* page[w]: the events it read
    upto,       \* upto[w]: where the cursor goes
    run,        \* run[r][s]: the run of rule r for event s
    exec,       \* exec[w]: the run it executes
    owed,       \* history: <<r, s>>: r matched s and has been enabled since s committed
    raced,      \* history: those committed while the page with s was being read
    overrun     \* history: a claim grew old while its worker was at work

rulesAndLog == <<log, enabled, failures>>
reader == <<watching, cursor, holder, known, page, upto>>
runs == <<run, exec>>
history == <<owed, raced, overrun>>
vars == <<rulesAndLog, reader, phase, runs, history>>

Seqs == 1..MaxSeq
Pairs == Rules \X Seqs
HeadSeq == Len(log)
ReaderPhases == {"rules", "skip", "page", "head", "queue"}

(* matches: never by its own doing, by another rule's only if allowed. *)
Matches(r, cause) == cause # r /\ (cause = User \/ r \in Chained)

Init ==
    /\ log = <<>>
    /\ enabled \in [Rules -> BOOLEAN]
    /\ failures = [r \in Rules |-> 0]
    /\ watching = FALSE /\ cursor = 0 /\ holder = Nobody
    /\ phase = [w \in Workers |-> "idle"]
    /\ known = [w \in Workers |-> {}]
    /\ page = [w \in Workers |-> {}]
    /\ upto = [w \in Workers |-> 0]
    /\ run = [r \in Rules |-> [s \in Seqs |-> "none"]]
    /\ exec = [w \in Workers |-> NoRun]
    /\ owed = {} /\ raced = {} /\ overrun = FALSE
-----------------------------------------------------------------------------
(* A worker that would see the event in this page, but not for rule r. *)
Misses(r) ==
    /\ holder # Nobody
    /\ \/ phase[holder] = "head"
       \/ phase[holder] \in {"skip", "page"} /\ r \notin known[holder]

(* An action commits, by whomever. *)
Commit(event, cause) ==
    LET s == HeadSeq + 1
        new == {<<r, s>> : r \in {x \in Rules : event /\ enabled[x] /\ Matches(x, cause)}} IN
    /\ s <= MaxSeq
    /\ log' = Append(log, [event |-> event, cause |-> cause])
    /\ owed' = IF watching THEN owed \cup new ELSE owed
    /\ raced' = raced \cup {p \in new : Misses(p[1])}

UserCommand ==
    /\ \E event \in BOOLEAN : Commit(event, User)
    /\ UNCHANGED <<enabled, failures, reader, phase, runs, overrun>>

(* SetState. *)
Enable(r) ==
    /\ ~enabled[r]
    /\ enabled' = [enabled EXCEPT ![r] = TRUE]
    /\ UNCHANGED <<log, failures, reader, phase, runs, history>>

Disable(r) ==
    /\ enabled[r]
    /\ enabled' = [enabled EXCEPT ![r] = FALSE]
    /\ owed' = owed \ ({r} \X Seqs)
    /\ UNCHANGED <<log, failures, reader, phase, runs, raced, overrun>>
-----------------------------------------------------------------------------
(* enqueueEvents.  With no cursor row yet, it starts at the head. *)
FirstLook(w) ==
    /\ phase[w] = "idle" /\ ~watching
    /\ watching' = TRUE /\ cursor' = HeadSeq
    /\ UNCHANGED <<rulesAndLog, holder, known, page, upto, phase, runs, history>>

(* FOR UPDATE SKIP LOCKED: a worker that finds the row taken goes on. *)
TakeCursor(w) ==
    /\ phase[w] = "idle" /\ watching /\ holder = Nobody
    /\ holder' = w
    /\ phase' = [phase EXCEPT ![w] = "rules"]
    /\ UNCHANGED <<rulesAndLog, watching, cursor, known, page, upto, runs, history>>

ReadRules(w) ==
    LET found == {r \in Rules : enabled[r]} IN
    /\ phase[w] = "rules"
    /\ known' = [known EXCEPT ![w] = found]
    /\ phase' = [phase EXCEPT ![w] = IF found = {} THEN "skip" ELSE "page"]
    /\ UNCHANGED <<rulesAndLog, watching, cursor, holder, page, upto, runs, history>>

(* The transaction ends and what the worker had read is gone. *)
LetGo(w) ==
    /\ holder' = Nobody
    /\ phase' = [phase EXCEPT ![w] = "idle"]
    /\ known' = [known EXCEPT ![w] = {}]
    /\ page' = [page EXCEPT ![w] = {}]
    /\ upto' = [upto EXCEPT ![w] = 0]

(* No rule listens: the cursor moves to the head. *)
SkipToHead(w) ==
    /\ phase[w] = "skip"
    /\ cursor' = Max({cursor, HeadSeq})
    /\ LetGo(w)
    /\ UNCHANGED <<rulesAndLog, watching, runs, history>>

EventsAfter(n) == {s \in (n + 1)..HeadSeq : log[s].event}
FirstOf(S, n) == {s \in S : Cardinality({t \in S : t <= s}) <= n}

\* Mutation: a full page goes to the head like a short one.
ReadPageToHead(w) ==
    /\ phase[w] = "page"
    /\ page' = [page EXCEPT ![w] = FirstOf(EventsAfter(cursor), Batch)]
    /\ upto' = [upto EXCEPT ![w] = cursor]
    /\ phase' = [phase EXCEPT ![w] = "head"]
    /\ UNCHANGED <<rulesAndLog, watching, cursor, holder, known, runs, history>>

(* Event types only; a full page ends at its last row. *)
ReadPage(w) ==
    LET found == FirstOf(EventsAfter(cursor), Batch)
        full == Cardinality(found) = Batch IN
    /\ phase[w] = "page"
    /\ page' = [page EXCEPT ![w] = found]
    /\ upto' = [upto EXCEPT ![w] = IF full THEN Max(found) ELSE cursor]
    /\ phase' = [phase EXCEPT ![w] = IF full THEN "queue" ELSE "head"]
    /\ UNCHANGED <<rulesAndLog, watching, cursor, holder, known, runs, history>>

(* "Everything up to the head has been read", in a later statement. *)
ReadHead(w) ==
    /\ phase[w] = "head"
    /\ upto' = [upto EXCEPT ![w] = Max({HeadSeq, cursor})]
    /\ phase' = [phase EXCEPT ![w] = "queue"]
    /\ UNCHANGED <<rulesAndLog, watching, cursor, holder, known, page, runs, history>>

(* One run per rule and event, and the cursor, in one commit. *)
Queue(w) ==
    /\ phase[w] = "queue"
    /\ run' = [r \in Rules |-> [s \in Seqs |->
                  IF run[r][s] = "none" /\ r \in known[w] /\ s \in page[w]
                        /\ Matches(r, log[s].cause)
                     THEN "PENDING" ELSE run[r][s]]]
    /\ cursor' = upto[w]
    /\ LetGo(w)
    /\ UNCHANGED <<rulesAndLog, watching, exec, history>>
-----------------------------------------------------------------------------
(* claim: what waits, what failed, and what has been running too long. *)
Claimable == {"PENDING", "FAILED", "OLD"}

\* Mutation: a claim that grew old is nobody's to take.
ClaimForEver(w) ==
    /\ phase[w] = "idle"
    /\ \E p \in Pairs :
          /\ enabled[p[1]] /\ run[p[1]][p[2]] \in {"PENDING", "FAILED"}
          /\ run' = [run EXCEPT ![p[1]][p[2]] = "RUNNING"]
          /\ exec' = [exec EXCEPT ![w] = p]
    /\ phase' = [phase EXCEPT ![w] = "execute"]
    /\ UNCHANGED <<rulesAndLog, reader, owed, raced, overrun>>

\* Mutation: the claim leaves the row as it found it.
ClaimUnmarked(w) ==
    /\ phase[w] = "idle"
    /\ \E p \in Pairs :
          /\ enabled[p[1]] /\ run[p[1]][p[2]] \in Claimable
          /\ exec' = [exec EXCEPT ![w] = p]
    /\ phase' = [phase EXCEPT ![w] = "execute"]
    /\ UNCHANGED <<rulesAndLog, reader, run, owed, raced, overrun>>

Claim(w) ==
    /\ phase[w] = "idle"
    /\ \E p \in Pairs :
          /\ enabled[p[1]] /\ run[p[1]][p[2]] \in Claimable
          /\ run' = [run EXCEPT ![p[1]][p[2]] = "RUNNING"]
          /\ exec' = [exec EXCEPT ![w] = p]
    /\ phase' = [phase EXCEPT ![w] = "execute"]
    /\ UNCHANGED <<rulesAndLog, reader, owed, raced, overrun>>

(* Two minutes pass since claimed_at. *)
ClaimGrowsOld(p) ==
    /\ run[p[1]][p[2]] = "RUNNING"
    /\ run' = [run EXCEPT ![p[1]][p[2]] = "OLD"]
    /\ overrun' = (overrun \/ \E w \in Workers : exec[w] = p)
    /\ UNCHANGED <<rulesAndLog, reader, phase, exec, owed, raced>>

(* A component of the rule changes something: an action it caused. *)
Act(w) ==
    /\ phase[w] = "execute"
    /\ \E event \in BOOLEAN : Commit(event, exec[w][1])
    /\ phase' = [phase EXCEPT ![w] = "finish"]
    /\ UNCHANGED <<enabled, failures, reader, runs, overrun>>

LeaveRun(w) ==
    /\ exec' = [exec EXCEPT ![w] = NoRun]
    /\ phase' = [phase EXCEPT ![w] = "idle"]

(* finish, by the id of the run alone. *)
Succeed(w) ==
    LET r == exec[w][1] IN
    /\ phase[w] \in {"execute", "finish"}
    /\ run' = [run EXCEPT ![r][exec[w][2]] = "DONE"]
    /\ failures' = [failures EXCEPT ![r] = 0]
    /\ LeaveRun(w)
    /\ UNCHANGED <<log, enabled, reader, owed, raced, overrun>>

\* Mutation: failures are counted but the rule stays enabled.
FailPastLimit(w) ==
    LET r == exec[w][1] IN
    /\ phase[w] \in {"execute", "finish"}
    /\ run' = [run EXCEPT ![r][exec[w][2]] = "FAILED"]
    /\ failures' = [failures EXCEPT ![r] = @ + 1]
    /\ LeaveRun(w)
    /\ UNCHANGED <<log, enabled, reader, owed, raced, overrun>>

Fail(w) ==
    LET r == exec[w][1]
        last == failures[r] + 1 >= FailureLimit IN
    /\ phase[w] \in {"execute", "finish"}
    /\ run' = [run EXCEPT ![r][exec[w][2]] = "FAILED"]
    /\ failures' = [failures EXCEPT ![r] = IF last THEN FailureLimit ELSE @ + 1]
    /\ enabled' = [enabled EXCEPT ![r] = @ /\ ~last]
    /\ owed' = IF last THEN owed \ ({r} \X Seqs) ELSE owed
    /\ LeaveRun(w)
    /\ UNCHANGED <<log, reader, raced, overrun>>

(* The server dies: its transaction rolls back, its claim stays. *)
Crash(w) ==
    /\ phase[w] # "idle"
    /\ IF holder = w
          THEN LetGo(w)
          ELSE /\ phase' = [phase EXCEPT ![w] = "idle"]
               /\ UNCHANGED <<holder, known, page, upto>>
    /\ exec' = [exec EXCEPT ![w] = NoRun]
    /\ UNCHANGED <<rulesAndLog, watching, cursor, run, owed, raced, overrun>>

Reader(w) ==
    FirstLook(w) \/ TakeCursor(w) \/ ReadRules(w) \/ SkipToHead(w)
        \/ ReadPage(w) \/ ReadHead(w) \/ Queue(w)
Executor(w) == Claim(w) \/ Act(w) \/ Succeed(w) \/ Fail(w)

Next ==
    \/ UserCommand
    \/ \E r \in Rules : Enable(r) \/ Disable(r)
    \/ \E p \in Pairs : ClaimGrowsOld(p)
    \/ \E w \in Workers : Reader(w) \/ Executor(w) \/ Crash(w)

Spec == Init /\ [][Next]_vars

(***************************************************************************)
(* Workers wake every second and do not crash in every transaction; time   *)
(* passes.  An execution ends, well or badly.                              *)
(***************************************************************************)
Fairness ==
    /\ \A p \in Pairs : WF_vars(ClaimGrowsOld(p))
    /\ \A w \in Workers :
          /\ WF_vars(FirstLook(w)) /\ SF_vars(TakeCursor(w))
          /\ SF_vars(ReadRules(w)) /\ SF_vars(SkipToHead(w)) /\ SF_vars(ReadPage(w))
          /\ SF_vars(ReadHead(w)) /\ SF_vars(Queue(w))
          /\ \A p \in Pairs : SF_vars(Claim(w) /\ exec'[w] = p)
          /\ SF_vars(Succeed(w) \/ Fail(w))

FairSpec == Spec /\ Fairness
-----------------------------------------------------------------------------
TypeOK ==
    /\ \A s \in 1..HeadSeq : log[s] \in [event : BOOLEAN, cause : Rules \cup {User}]
    /\ HeadSeq \in 0..MaxSeq
    /\ enabled \in [Rules -> BOOLEAN]
    /\ failures \in [Rules -> 0..FailureLimit]
    /\ watching \in BOOLEAN
    /\ cursor \in 0..HeadSeq
    /\ holder \in Workers \cup {Nobody}
    /\ phase \in [Workers -> ReaderPhases \cup {"idle", "execute", "finish"}]
    /\ \A w \in Workers : phase[w] \in ReaderPhases <=> holder = w
    /\ known \in [Workers -> SUBSET Rules]
    /\ page \in [Workers -> SUBSET (1..HeadSeq)]
    /\ upto \in [Workers -> 0..HeadSeq]
    /\ run \in [Rules -> [Seqs -> {"none", "PENDING", "RUNNING", "OLD", "FAILED", "DONE"}]]
    /\ exec \in [Workers -> Pairs \cup {NoRun}]
    /\ overrun \in BOOLEAN
    /\ owed \in SUBSET Pairs /\ raced \in SUBSET Pairs

(***************************************************************************)
(* The cursor does not pass an event that an enabled rule matches without  *)
(* a run for it, whatever crashes and whichever worker reads: except for   *)
(* the events that commit between the statements of one batch              *)
(* (enqueueEvents).                                                        *)
(***************************************************************************)
EventsBehindCursorHaveRuns ==
    \A p \in owed \ raced : p[2] <= cursor => run[p[1]][p[2]] # "none"

(***************************************************************************)
(* As long as no execution outlives its claim, two workers never execute   *)
(* the same run, and a run is finished only by the worker that claimed it  *)
(* (claim, SKIP LOCKED).                                                   *)
(***************************************************************************)
PromptWorkersDoNotOverlap ==
    ~overrun =>
        \A w \in Workers :
            exec[w] # NoRun =>
                /\ run[exec[w][1]][exec[w][2]] = "RUNNING"
                /\ \A v \in Workers \ {w} : exec[v] # exec[w]

(***************************************************************************)
(* A run that was queued is done in the end, unless its rule is disabled   *)
(* on the way, by a person or by failing too often (claim, finish): no     *)
(* crash leaves it behind.                                                 *)
(***************************************************************************)
QueuedRunsAreDone ==
    \A r \in Rules, s \in Seqs :
        run[r][s] = "PENDING" ~> (run[r][s] = "DONE" \/ ~enabled[r])

(***************************************************************************)
(* events.go:91: "Everything up to the head has been read";                *)
(* docs/AUTOMATION.md:138: the worker queues one run per rule and event.   *)
(***************************************************************************)
NoEventIsPassedOver ==
    \A p \in owed : p[2] <= cursor => run[p[1]][p[2]] # "none"
=============================================================================
