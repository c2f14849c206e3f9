------------------------------ MODULE Planning ------------------------------
(***************************************************************************)
(* Sprints, the backlog and its order (internal/store/agile.go,            *)
(* sprint_properties.go, agile_reports.go, internal/commands/              *)
(* commands_agile.go).  One board of one project; requests of several      *)
(* people, each in transactions of its own, move work items between        *)
(* sprints and the backlog, rank them, start, complete and delete sprints. *)
(*                                                                         *)
(* What the transactions wait for is modelled: the advisory lock of a work *)
(* item, the rows of a sprint and of its board (FOR UPDATE, and the FOR    *)
(* KEY SHARE a new membership takes of its sprint), and the counter row of *)
(* the workspace that every action takes its number from.  All of them are *)
(* read off the program counters.  PostgreSQL aborts one transaction of a  *)
(* cycle.                                                                  *)
(*                                                                         *)
(* Left out: the order inside a sprint, which is the same arithmetic on    *)
(* sprint_issues.rank; names, goals and planned dates; other boards.       *)
(***************************************************************************)
EXTENDS LexoRank, FiniteSets

CONSTANTS Issues, Sprints, Movers,
          NoIssue, Backlog,  \* "no neighbour", and the target that is no sprint
          ParallelSprints,   \* the site's parallelSprintsEnabled
          MaxTx              \* bound: requests that are made

ASSUME PlanningAssumption ==
    /\ IsFiniteSet(Issues) /\ NoIssue \notin Issues /\ Backlog \notin Sprints
    /\ ParallelSprints \in BOOLEAN /\ MaxTx \in Nat

VARIABLES
    state,     \* sprints.state, or "none" before the sprint and "deleted" after it
    closedAt,  \* sprints.completed_at, 0 while it is null
    planned,   \* sprint_issues
    rank,      \* issues.rank
    actions,   \* the sprint membership actions, in the order of their numbers
    now,       \* transactions begun so far, which is what now() is to each of them
    pc, job,   \* where each request is, and its local variables
    blurred    \* history: sprints whose completion overlapped a move of their work

planningVars == <<state, closedAt, planned, rank, actions, now, pc, job, blurred>>
tables == <<state, closedAt, planned, rank, actions, blurred>>

NoJob == [issue |-> NoIssue, sprint |-> Backlog, to |-> "none", at |-> 0, prev |-> {},
          rank |-> None, after |-> NoIssue, before |-> NoIssue, around |-> FALSE, fresh |-> FALSE]

InitPlanning ==
    /\ state = [s \in Sprints |-> "none"]
    /\ closedAt = [s \in Sprints |-> 0]
    /\ planned = [s \in Sprints |-> {}]
    /\ rank = [i \in Issues |-> <<U>>]
    /\ actions = <<>>
    /\ now = 0
    /\ pc = [m \in Movers |-> "idle"]
    /\ job = [m \in Movers |-> NoJob]
    /\ blurred = {}

Exists(s) == state[s] \in {"future", "active", "closed"}
Open(s) == state[s] \in {"future", "active"}

---------------------------------------------------------------------------
(* Locks.                                                                  *)

(* Adding to a sprint or taking out of all: prev has been read. *)
Moving(m) == pc[m] \in {"locked", "counting"}
Updating(m) == pc[m] = "updating"

ItemLockers(i) == {m \in Movers : Moving(m) /\ job[m].issue = i}
SprintLockers(s) == {m \in Movers : Updating(m) /\ job[m].sprint = s}
BoardLockers == {m \in Movers : Updating(m) /\ job[m].to # "deleted"}
MembershipLockers(s) == {m \in Movers : Moving(m) /\ s \in job[m].prev}
CounterHolders == {m \in Movers : pc[m] = "counting"}

Removing(m) == pc[m] = "locked" /\ job[m].prev # {}
Inserting(m) == Moving(m) /\ ~Removing(m) /\ job[m].sprint # Backlog
Joining(m) == Inserting(m) /\ job[m].issue \notin planned[job[m].sprint]

(* The transactions whose end the next statement of m waits for. *)
WaitsFor(m) ==
    (CASE Joining(m) -> SprintLockers(job[m].sprint)
       [] Updating(m) /\ job[m].to = "deleted" -> MembershipLockers(job[m].sprint)
       [] OTHER -> {})
    \cup (IF Updating(m) \/ Removing(m) \/ Inserting(m) THEN CounterHolders \ {m} ELSE {})

---------------------------------------------------------------------------
(* Requests.                                                               *)

CreateSprint(s) ==
    /\ state[s] = "none"
    /\ state' = [state EXCEPT ![s] = "future"]
    /\ UNCHANGED <<closedAt, planned, rank, actions, now, pc, job, blurred>>

Begin(m, step, request) ==
    /\ now' = now + 1
    /\ pc' = [pc EXCEPT ![m] = step]
    /\ job' = [job EXCEPT ![m] = request]
    /\ UNCHANGED tables

(* MoveIssueToSprint and PlanIssue into a sprint. *)
MoveToSprint(m, i, s) ==
    state[s] # "none" /\ Begin(m, "begun", [NoJob EXCEPT !.issue = i, !.sprint = s, !.at = now + 1])

(* MoveIssueToBacklog. *)
MoveToBacklog(m, i) ==
    Begin(m, "begun", [NoJob EXCEPT !.issue = i, !.at = now + 1])

(***************************************************************************)
(* PlanIssue into the backlog: the rank is worked out from the neighbours  *)
(* first, before any transaction; with no neighbour given, from the last   *)
(* item of the backlog.  An item is no neighbour of its own, and a rank    *)
(* that cannot be found refuses the request.                               *)
(***************************************************************************)
RankOf(i) == IF i = NoIssue THEN None ELSE rank[i]
InBacklog == {i \in Issues : \A s \in Sprints : Open(s) => i \notin planned[s]}
LastOf(items) == {i \in items : \A j \in items : ~Less(rank[i], rank[j])}

Neighbour(i, j) == IF j = i THEN NoIssue ELSE j

PlanBetween(m, i, after, before) ==
    LET mid == Mid(RankOf(after), RankOf(before))
    IN  /\ mid # None
        /\ Begin(m, "begun", [NoJob EXCEPT !.issue = i, !.at = now + 1, !.rank = mid,
                                           !.after = after, !.before = before, !.fresh = TRUE])

PlanAtEnd(m, i) ==
    \/ InBacklog = {} /\ PlanBetween(m, i, NoIssue, NoIssue)
    \/ \E last \in LastOf(InBacklog) : PlanBetween(m, i, Neighbour(i, last), NoIssue)

(***************************************************************************)
(* RankAround: before or after a reference, between it and the rank next   *)
(* to it, whoever has that.                                                *)
(***************************************************************************)
RankBefore(m, i, before) ==
    LET below == {rank[j] : j \in {j \in Issues \ {i} : Less(rank[j], rank[before])}}
        lo == IF below = {} THEN None ELSE CHOOSE r \in below : \A q \in below : ~Less(r, q)
        mid == Mid(lo, rank[before])
    IN  /\ i # before /\ mid # None
        /\ Begin(m, "cleared", [NoJob EXCEPT !.issue = i, !.rank = mid,
                                             !.before = before, !.around = TRUE, !.fresh = TRUE])

RankAfter(m, i, after) ==
    LET above == {rank[j] : j \in {j \in Issues \ {i} : Less(rank[after], rank[j])}}
        hi == IF above = {} THEN None ELSE CHOOSE r \in above : \A q \in above : ~Less(q, r)
        mid == Mid(rank[after], hi)
    IN  /\ i # after /\ mid # None
        /\ Begin(m, "cleared", [NoJob EXCEPT !.issue = i, !.rank = mid,
                                             !.after = after, !.around = TRUE, !.fresh = TRUE])

(* UpdateSprint and DeleteSprint, which is the state "deleted" here. *)
ChangeSprint(m, s, to) ==
    state[s] # "none" /\ Begin(m, "begun", [NoJob EXCEPT !.sprint = s, !.to = to, !.at = now + 1])

(* The request ends: its transaction is over and its variables are gone. *)
End(m) ==
    /\ pc' = [pc EXCEPT ![m] = "idle"]
    /\ job' = [job EXCEPT ![m] = NoJob]

(* Its transaction is rolled back. *)
Quit(m) ==
    /\ pc[m] # "idle"
    /\ End(m)
    /\ UNCHANGED <<tables, now>>

---------------------------------------------------------------------------
(* AddIssueToSprint and RemoveIssueFromPlanning.                           *)

(* Mutant of LockItem: without the advisory lock. *)
LockItemUnlocked(m) ==
    /\ pc[m] = "begun" /\ job[m].to = "none"
    /\ job[m].sprint # Backlog => Open(job[m].sprint)
    /\ pc' = [pc EXCEPT ![m] = "locked"]
    /\ job' = [job EXCEPT ![m].prev =
                  {s \in Sprints \ {job[m].sprint} : Open(s) /\ job[m].issue \in planned[s]}]
    /\ UNCHANGED <<tables, now>>

(***************************************************************************)
(* The advisory lock, then the state of the sprint, which is not locked,   *)
(* and the other open sprints the item is in, whose memberships are.       *)
(***************************************************************************)
LockItem(m) ==
    /\ pc[m] = "begun" /\ job[m].to = "none"
    /\ ItemLockers(job[m].issue) = {}
    /\ job[m].sprint # Backlog => Open(job[m].sprint)
    /\ pc' = [pc EXCEPT ![m] = "locked"]
    /\ job' = [job EXCEPT ![m].prev =
                  {s \in Sprints \ {job[m].sprint} : Open(s) /\ job[m].issue \in planned[s]}]
    /\ UNCHANGED <<tables, now>>

(* The first removal is written, and with it the counter row is taken. *)
Count(m) ==
    /\ Removing(m) /\ WaitsFor(m) = {}
    /\ pc' = [pc EXCEPT ![m] = "counting"]
    /\ UNCHANGED <<tables, now, job>>

Change(m, s, in) == [sprint |-> s, issue |-> job[m].issue, in |-> in, at |-> job[m].at]

(* Mutant of Changes: the sprints the item leaves are not told. *)
ChangesIn(m) == IF job[m].sprint = Backlog THEN <<>> ELSE <<Change(m, job[m].sprint, TRUE)>>

(* The actions of the transaction: out of each other sprint, then in. *)
Changes(m) ==
    LET n == Cardinality(job[m].prev)
        order == CHOOSE f \in [1..n -> job[m].prev] : \A s \in job[m].prev : \E k \in 1..n : f[k] = s
    IN  [k \in 1..n |-> Change(m, order[k], FALSE)]
        \o (IF job[m].sprint = Backlog THEN <<>> ELSE <<Change(m, job[m].sprint, TRUE)>>)

(* What follows: a request that ranks goes on, any other ends. *)
GoOn(m) ==
    IF job[m].rank = None THEN End(m)
    ELSE pc' = [pc EXCEPT ![m] = "cleared"] /\ job' = [job EXCEPT ![m].prev = {}]

(***************************************************************************)
(* The removals, the new membership and the commit.  A membership that is  *)
(* new waits for whoever has locked the row of the sprint, and fails when  *)
(* it is gone; one that is there already is only ranked again.             *)
(***************************************************************************)
CommitMove(m) ==
    /\ Moving(m) /\ ~Removing(m) /\ WaitsFor(m) = {}
    /\ job[m].sprint # Backlog => state[job[m].sprint] # "deleted"
    /\ planned' = [s \in Sprints |->
          IF s = job[m].sprint THEN planned[s] \cup {job[m].issue}
          ELSE IF s \in job[m].prev THEN planned[s] \ {job[m].issue}
          ELSE planned[s]]
    /\ actions' = actions \o Changes(m)
    /\ GoOn(m)
    /\ UNCHANGED <<state, closedAt, rank, now, blurred>>

(* The rank worked out at the start is written, whatever has moved since. *)
SetIssueRank(m) ==
    /\ pc[m] = "cleared" /\ CounterHolders = {}
    /\ rank' = [rank EXCEPT ![job[m].issue] = job[m].rank]
    /\ pc' = [pc EXCEPT ![m] = "idle"]
    /\ job' = [n \in Movers |-> IF n = m THEN NoJob ELSE [job[n] EXCEPT !.fresh = FALSE]]
    /\ UNCHANGED <<state, closedAt, planned, actions, now, blurred>>

---------------------------------------------------------------------------
(* UpdateSprint and DeleteSprint.                                          *)

Allowed(s, to) ==
    IF to = "deleted" THEN Exists(s) /\ state[s] # "active"
    ELSE state[s] = to \/ <<state[s], to>> \in {<<"future", "active">>, <<"active", "closed">>}

OtherActive(s) == \E t \in Sprints \ {s} : state[t] = "active"

(* The row of the sprint, and of the board unless it is deleted; the checks. *)
LockSprint(m) ==
    LET s == job[m].sprint
        to == job[m].to
    IN  /\ pc[m] = "begun" /\ to # "none"
        /\ SprintLockers(s) = {}
        /\ to # "deleted" => BoardLockers = {}
        /\ Allowed(s, to)
        /\ to = "active" /\ state[s] # "active" => ParallelSprints \/ ~OtherActive(s)
        /\ pc' = [pc EXCEPT ![m] = "updating"]
        /\ UNCHANGED <<tables, now, job>>

(* Moves under way that read the sprint as open, and changes after its end. *)
Overlapped(s, end) ==
    \/ \E m \in Movers : Moving(m) /\ (job[m].sprint = s \/ s \in job[m].prev)
    \/ \E k \in 1..Len(actions) : actions[k].sprint = s /\ actions[k].at > end

CommitSprint(m) ==
    LET s == job[m].sprint
        to == job[m].to
        ends == to = "closed" /\ state[s] # "closed"
    IN  /\ Updating(m) /\ to # "deleted"
        /\ WaitsFor(m) = {}
        /\ state' = [state EXCEPT ![s] = to]
        /\ closedAt' = [closedAt EXCEPT ![s] = IF ends THEN job[m].at ELSE @]
        /\ blurred' = IF ends /\ Overlapped(s, job[m].at) THEN blurred \cup {s} ELSE blurred
        /\ End(m)
        /\ UNCHANGED <<planned, rank, actions, now>>

(* The memberships go with the sprint; no membership action says so. *)
CommitDelete(m) ==
    LET s == job[m].sprint
    IN  /\ Updating(m) /\ job[m].to = "deleted"
        /\ WaitsFor(m) = {}
        /\ state' = [state EXCEPT ![s] = "deleted"]
        /\ closedAt' = [closedAt EXCEPT ![s] = 0]
        /\ planned' = [planned EXCEPT ![s] = {}]
        /\ blurred' = blurred \ {s}
        /\ End(m)
        /\ UNCHANGED <<rank, actions, now>>

(* PostgreSQL ends a transaction of a cycle (deadlock_timeout). *)
Deadlocked(m) ==
    \E cycle \in SUBSET Movers :
        m \in cycle /\ \A n \in cycle : WaitsFor(n) \cap cycle # {}

(* Mutant of BreakDeadlock: only transactions that wait for one row are seen. *)
BreakDeadlockOnCounter(m) == WaitsFor(m) \cap CounterHolders # {} /\ m \in CounterHolders /\ Quit(m)

BreakDeadlock(m) == Deadlocked(m) /\ Quit(m)

(* What the checks of a transaction turn away. *)
Refused(m) ==
    LET s == job[m].sprint
        to == job[m].to
    IN  \/ pc[m] = "begun" /\ to = "none" /\ s # Backlog /\ ~Open(s)
        \/ Inserting(m) /\ state[s] = "deleted"
        \/ /\ pc[m] = "begun" /\ to # "none" /\ SprintLockers(s) \cup BoardLockers = {}
           /\ ~Allowed(s, to) \/ (to = "active" /\ state[s] # "active" /\ ~ParallelSprints /\ OtherActive(s))

Refuse(m) == Refused(m) /\ Quit(m)

(* The caller goes away, or the server stops, in any step. *)
Abandon(m) == Quit(m)

---------------------------------------------------------------------------
(* A request arrives; MaxTx of them do. *)
Ask(m) ==
    /\ pc[m] = "idle" /\ now < MaxTx
    /\ \/ \E i \in Issues : \E s \in Sprints : MoveToSprint(m, i, s)
       \/ \E i \in Issues : MoveToBacklog(m, i)
       \/ \E i \in Issues : PlanAtEnd(m, i)
       \/ \E i \in Issues : \E after, before \in Issues \cup {NoIssue} :
             {after, before} # {NoIssue} /\ PlanBetween(m, i, Neighbour(i, after), Neighbour(i, before))
       \/ \E i, before \in Issues : RankBefore(m, i, before)
       \/ \E i, after \in Issues : RankAfter(m, i, after)
       \/ \E s \in Sprints : \E to \in {"active", "closed", "deleted"} : ChangeSprint(m, s, to)

Step(m) ==
    \/ LockItem(m) \/ Count(m) \/ CommitMove(m) \/ SetIssueRank(m)
    \/ LockSprint(m) \/ CommitSprint(m) \/ CommitDelete(m)
    \/ Refuse(m) \/ BreakDeadlock(m)

NextPlanning ==
    \/ \E s \in Sprints : CreateSprint(s)
    \/ \E m \in Movers : Ask(m) \/ Step(m) \/ Abandon(m)

SpecPlanning == InitPlanning /\ [][NextPlanning]_planningVars

---------------------------------------------------------------------------
(* Properties.                                                             *)

Ranks == Seq(Letters)
Times == 0..MaxTx
Jobs == [issue : Issues \cup {NoIssue}, sprint : Sprints \cup {Backlog},
         to : {"none", "future", "active", "closed", "deleted"}, at : Times, prev : SUBSET Sprints,
         rank : Ranks, after : Issues \cup {NoIssue}, before : Issues \cup {NoIssue},
         around : BOOLEAN, fresh : BOOLEAN]

(* Types, and no lock with two holders.                                    *)
Exclusive(holders) == \A m, n \in holders : m = n

PlanningTypeOK ==
    /\ state \in [Sprints -> {"none", "future", "active", "closed", "deleted"}]
    /\ closedAt \in [Sprints -> Times] /\ now \in Times
    /\ planned \in [Sprints -> SUBSET Issues]
    /\ rank \in [Issues -> Ranks]
    /\ actions \in Seq([sprint : Sprints, issue : Issues, in : BOOLEAN, at : Times])
    /\ pc \in [Movers -> {"idle", "begun", "locked", "counting", "cleared", "updating"}]
    /\ job \in [Movers -> Jobs]
    /\ blurred \in SUBSET Sprints
    /\ \A i \in Issues : Exclusive(ItemLockers(i))
    /\ Exclusive(BoardLockers) /\ Exclusive(CounterHolders)

(* Where work items are planned, and which sprints run.                    *)
OneOpenSprint ==
    \A s, t \in Sprints : s # t /\ Open(s) /\ Open(t) => planned[s] \cap planned[t] = {}

OneActiveSprint ==
    ParallelSprints \/ \A s, t \in Sprints : state[s] = "active" /\ state[t] = "active" => s = t

(***************************************************************************)
(* However requests overlap, a work item is in one open sprint at most     *)
(* (AddIssueToSprint, whose advisory lock is on the item); a board runs    *)
(* one sprint at a time unless the site allows more (UpdateSprint, which   *)
(* asks for another one with the board locked); and no lock has two        *)
(* holders (pg_advisory_xact_lock, FOR UPDATE OF s, b, nextSeq).           *)
(***************************************************************************)
PlanInv == PlanningTypeOK /\ OneOpenSprint /\ OneActiveSprint

(***************************************************************************)
(* The sprint report: the membership actions of the sprint replayed in the *)
(* order of the log until the first that is later than the time asked for  *)
(* (inSprint), which for a completed sprint is its completion.             *)
(***************************************************************************)
Reported(s, i, end) ==
    LET of == {k \in 1..Len(actions) : actions[k].sprint = s /\ actions[k].issue = i}
        upTo == {k \in of : \A j \in of : j <= k => actions[j].at <= end}
    IN  upTo # {} /\ actions[CHOOSE k \in upTo : \A j \in upTo : j <= k].in

(***************************************************************************)
(* The report of a completed sprint shows the work that is in it, now and  *)
(* whatever is done later to other sprints, if no move of its work was     *)
(* under way when it was completed (SprintReport against sprint_issues).   *)
(***************************************************************************)
ReportIsTheSprint ==
    \A s \in Sprints \ blurred :
        state[s] = "closed" => \A i \in Issues : Reported(s, i, closedAt[s]) <=> i \in planned[s]

(***************************************************************************)
(* A work item is placed where the request asked for: past the neighbours  *)
(* it named and, by the rank APIs, with nothing between it and them, if    *)
(* nothing was ranked since (Mid, RankAround, SetIssueRank).               *)
(***************************************************************************)
Placed(r, i, after, before, around) ==
    /\ after # NoIssue => Less(r[after], r[i])
    /\ before # NoIssue => Less(r[i], r[before])
    /\ around => \A j \in Issues \ {i} :
          /\ after # NoIssue => ~(Less(r[after], r[j]) /\ ~Less(r[i], r[j]))
          /\ before # NoIssue => ~(~Less(r[j], r[i]) /\ Less(r[j], r[before]))

PlacedWhereAsked ==
    [][\A m \in Movers : SetIssueRank(m) /\ job[m].fresh =>
          Placed(rank', job[m].issue, job[m].after, job[m].before, job[m].around)]_planningVars

(***************************************************************************)
(* Requests that wait for each other are found and one of them is aborted: *)
(* whoever has begun, somebody can go on (AddIssueToSprint takes the       *)
(* counter row before the row of the sprint, UpdateSprint after it).       *)
(***************************************************************************)
SomebodyGoesOn ==
    (\E m \in Movers : pc[m] # "idle") => ENABLED \E m \in Movers : Step(m)

---------------------------------------------------------------------------
(* What comments say and the code does not do (see the README).            *)

(***************************************************************************)
(* agile.go:1022-1023: a move to the backlog deletes open memberships      *)
(* "while retaining closed-sprint history".  Not so: neither it nor        *)
(* AddIssueToSprint locks the sprint whose state it has read, and the      *)
(* sprint may be completed before the memberships are changed.             *)
(***************************************************************************)
ClosedSprintKeepsItsWork ==
    [][\A s \in Sprints : state[s] = "closed" /\ state'[s] = "closed" => planned'[s] = planned[s]]_planningVars

(***************************************************************************)
(* lexorank.go:28: "Mid returns a rank strictly between a and b".          *)
(* Not so: Between gives up where the gap closes late, although a rank is  *)
(* free, and the move is refused.                                          *)
(***************************************************************************)
EveryGapHasARank ==
    \A i, j \in Issues : Less(rank[i], rank[j]) => Mid(rank[i], rank[j]) # None
=============================================================================
