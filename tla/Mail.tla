-------------------------------- MODULE Mail --------------------------------
(***************************************************************************)
(* Filter subscriptions and the mail they send. A runner of every replica  *)
(* (store/filter_subscriptions.go) turns each scheduled time of a          *)
(* subscription into a run, claims a run, queues one mail per recipient    *)
(* and finishes the run. A mailer of every replica (mailer/mailer.go over  *)
(* store/email_outbox.go) claims a queued mail, hands it to SMTP and       *)
(* records the outcome. Both claims lapse after five minutes, and neither  *)
(* outcome names the claim it belongs to: only the state fences it.        *)
(*                                                                         *)
(* A subscription mails the people it lists, in an order left open here,   *)
(* or the members a group has when the run is executed, who change at will.*)
(*                                                                         *)
(*   there     the subscription exists                                     *)
(*   now       the last scheduled time that has come                       *)
(*   next      next_run_at, the scheduled time to enqueue next             *)
(*   run       state of the run of each scheduled time                     *)
(*   tries     its attempts, counted when it is claimed                    *)
(*   runStale  its claim is older than five minutes                        *)
(*   active    the recipients that are members of the workspace and active *)
(*   mail      state of the row of email_outbox of each run and recipient  *)
(*   attempts  its attempt_count, counted when an attempt has failed       *)
(*   stale     its lock is older than five minutes                         *)
(*   rpc, slot, aim, left, ok   each runner: its step, its run, whom the   *)
(*             execution has found it has to reach, which of them are left *)
(*             to be queued, whether it succeeded                          *)
(*   mpc, item, sent       each mailer: its step, its mail, SMTP's answer  *)
(*                                                                         *)
(* History:                                                                *)
(*   received  how often SMTP has taken each mail (2 is "more than once")  *)
(*   refused   how often it has answered an attempt with an error          *)
(*   excused   mails an outcome of which was lost, late or wrong           *)
(*   owed      whom the execution that ended each run had to reach         *)
(*   faults    crashes, overruns and lost answers so far                   *)
(***************************************************************************)
EXTENDS Naturals, Sequences, FiniteSets

CONSTANTS Slots,        \* the scheduled times that come
          Ends,         \* is the last of them the last of the schedule
          Users, Leavers, Owner, NoMail,
          Grouped,      \* the scheduled times at which it may name a group,
          Listed,       \* and may list people: it is saved otherwise at will
          Recipients,   \* the people it lists
          Runners, Mailers, MaxTries, MaxAttempts, MaxFaults

ASSUME SlotsAssumption == Slots \in Nat \ {0} /\ Ends \in BOOLEAN
ASSUME RecipientsAssumption ==
    /\ Recipients \subseteq Users /\ Recipients # {} /\ IsFiniteSet(Recipients)
    /\ Owner \in Users /\ Grouped \cup Listed = 1..Slots
ASSUME LeaversAssumption == Leavers \subseteq Users
ASSUME NoMailAssumption == NoMail \notin Nat \X Users
ASSUME MailersAssumption == IsFiniteSet(Mailers)
ASSUME BoundsAssumption ==
    MaxTries \in Nat \ {0} /\ MaxAttempts \in Nat \ {0} /\ MaxFaults \in Nat

VARIABLES there, now, next, run, tries, runStale, active, mail, attempts, stale,
          rpc, slot, aim, left, ok, mpc, item, sent, received, refused, excused, owed, faults

schedule == <<there, now, next>>
runs == <<run, tries, runStale>>
outbox == <<mail, attempts, stale>>
runners == <<rpc, slot, aim, left, ok>>
mailers == <<mpc, item, sent>>
history == <<received, refused, excused, owed, faults>>
vars == <<schedule, runs, active, outbox, runners, mailers, history>>

Times == 1..Slots
Mails == Times \X Users
NoSlot == 0

Init ==
    /\ there = TRUE /\ now = 0 /\ next = 1
    /\ run = [s \in Times |-> "none"]
    /\ tries = [s \in Times |-> 0]
    /\ runStale = [s \in Times |-> FALSE]
    /\ active = Users
    /\ mail = [m \in Mails |-> "none"]
    /\ attempts = [m \in Mails |-> 0]
    /\ stale = [m \in Mails |-> FALSE]
    /\ rpc = [r \in Runners |-> "idle"]
    /\ slot = [r \in Runners |-> NoSlot]
    /\ aim = [r \in Runners |-> {}]
    /\ left = [r \in Runners |-> {}]
    /\ ok = [r \in Runners |-> TRUE]
    /\ mpc = [p \in Mailers |-> "idle"]
    /\ item = [p \in Mailers |-> NoMail]
    /\ sent = [p \in Mailers |-> FALSE]
    /\ received = [m \in Mails |-> 0]
    /\ refused = [m \in Mails |-> 0]
    /\ excused = {}
    /\ owed = [s \in Times |-> {}]
    /\ faults = 0

(* At most MaxFaults things go wrong. *)
Fault == faults < MaxFaults /\ faults' = faults + 1
Bump(n) == IF n = 0 THEN 1 ELSE 2

(***************************************************************************)
(* The subscription, its schedule and its recipients.                      *)
(***************************************************************************)
TimePasses ==
    /\ now < Slots
    /\ now' = now + 1
    /\ UNCHANGED <<there, next, runs, active, outbox, runners, mailers, history>>

(* The last time of a schedule is due and has no successor.  The runners   *)
(* ask for the successor first, and fail every second from then on.        *)
Blocked == there /\ next <= now /\ Ends /\ next = Slots

(* The run and the next time are one transaction.                          *)
EnqueueDue ==
    /\ there /\ next <= now /\ ~Blocked
    /\ run' = [run EXCEPT ![next] = "PENDING"]
    /\ next' = next + 1
    /\ UNCHANGED <<there, now, tries, runStale, active, outbox, runners, mailers, history>>

(* Deleting the subscription deletes its runs; queued mail stays queued.   *)
Unsubscribe ==
    /\ there
    /\ there' = FALSE
    /\ run' = [s \in Times |-> "none"]
    /\ tries' = [s \in Times |-> 0]
    /\ runStale' = [s \in Times |-> FALSE]
    /\ UNCHANGED <<now, next, active, outbox, runners, mailers, history>>

(* Saving it again schedules it from now on: times that have come and are  *)
(* not enqueued yet are dropped.  A schedule that is over is not saved.    *)
Save ==
    /\ there /\ next <= now /\ ~(Ends /\ now = Slots)
    /\ next' = now + 1
    /\ UNCHANGED <<there, now, runs, active, outbox, runners, mailers, history>>

(* A member leaves the workspace, and is let in again. *)
Deactivate(u) ==
    /\ u \in active
    /\ active' = active \ {u}
    /\ UNCHANGED <<schedule, runs, outbox, runners, mailers, history>>

Reactivate(u) ==
    /\ u \notin active
    /\ active' = active \cup {u}
    /\ UNCHANGED <<schedule, runs, outbox, runners, mailers, history>>
(***************************************************************************)
(* Runners.                                                                *)
(***************************************************************************)
Executing(s) == {r \in Runners : slot[r] = s}

RunLapses(s) ==
    /\ run[s] = "RUNNING" /\ ~runStale[s] /\ Executing(s) = {}
    /\ runStale' = [runStale EXCEPT ![s] = TRUE]
    /\ UNCHANGED <<schedule, run, tries, active, outbox, runners, mailers, history>>

(* An execution takes longer than five minutes.                            *)
RunOverruns(s) ==
    /\ run[s] = "RUNNING" /\ ~runStale[s] /\ Executing(s) # {}
    /\ Fault
    /\ runStale' = [runStale EXCEPT ![s] = TRUE]
    /\ UNCHANGED <<schedule, run, tries, active, outbox, runners, mailers,
                   received, refused, excused, owed>>

Claimable(s) ==
    /\ tries[s] < MaxTries
    /\ \/ run[s] \in {"PENDING", "FAILED"}
       \/ run[s] = "RUNNING" /\ runStale[s]

Claim(r, s) ==
    /\ rpc[r] = "idle" /\ Claimable(s)
    /\ \A u \in 1..(s - 1) : ~Claimable(u)
    /\ run' = [run EXCEPT ![s] = "RUNNING"]
    /\ tries' = [tries EXCEPT ![s] = @ + 1]
    /\ runStale' = [runStale EXCEPT ![s] = FALSE]
    /\ rpc' = [rpc EXCEPT ![r] = "search"]
    /\ slot' = [slot EXCEPT ![r] = s]
    /\ UNCHANGED <<schedule, active, outbox, aim, left, ok, mailers, history>>

(* A runner claims when it has found nothing that it cannot enqueue, or    *)
(* when another runner or a user has just locked that row (SKIP LOCKED).   *)
ClaimRun(r, s) == ~Blocked /\ Claim(r, s)
ClaimPastLocked(r, s) == Blocked /\ Claim(r, s)

GoR(r, step) == rpc' = [rpc EXCEPT ![r] = step]

Aim(r, people, reached) ==
    /\ aim' = [aim EXCEPT ![r] = people]
    /\ left' = [left EXCEPT ![r] = reached]
    /\ GoR(r, IF reached = {} THEN "finish" ELSE "queue")

(* The filter is searched; nothing is sent when nothing matches, nor to a  *)
(* group without members or with the owner for its only one.               *)
Search(r) ==
    /\ rpc[r] = "search"
    /\ \/ Aim(r, {}, {})
       \/ slot[r] \in Listed /\ Aim(r, Recipients, Recipients)
       \/ slot[r] \in Grouped /\ \E members \in SUBSET active :
             Aim(r, members, IF members \subseteq {Owner} THEN {} ELSE members)
    /\ UNCHANGED <<schedule, runs, active, outbox, slot, ok, mailers, history>>

(* The filter does not compile, or the database does not answer. *)
SearchFails(r) ==
    /\ rpc[r] = "search"
    /\ ok' = [ok EXCEPT ![r] = FALSE]
    /\ GoR(r, "finish")
    /\ UNCHANGED <<schedule, runs, active, outbox, slot, aim, left, mailers, history>>

Advance(r, u) ==
    /\ left' = [left EXCEPT ![r] = @ \ {u}]
    /\ GoR(r, IF left[r] = {u} THEN "finish" ELSE "queue")
    /\ UNCHANGED <<schedule, runs, active, slot, aim, ok, mailers, history>>

(* Mutation: the dedupe key is not looked at. *)
QueueAgain(r, u) ==
    /\ rpc[r] = "queue" /\ u \in left[r] /\ u \in active
    /\ mail' = [mail EXCEPT ![<<slot[r], u>>] = "pending"]
    /\ Advance(r, u)
    /\ UNCHANGED <<attempts, stale>>

(* The key of run and recipient is in the outbox once.                     *)
Queue(r, u) ==
    /\ rpc[r] = "queue" /\ u \in left[r] /\ u \in active
    /\ mail' = [mail EXCEPT ![<<slot[r], u>>] = IF @ = "none" THEN "pending" ELSE @]
    /\ Advance(r, u)
    /\ UNCHANGED <<attempts, stale>>

(* Mutation: a recipient who is not available is passed over. *)
SkipInactive(r, u) ==
    /\ rpc[r] = "queue" /\ u \in left[r] /\ u \notin active
    /\ Advance(r, u)
    /\ UNCHANGED outbox

(* A recipient who is no longer available ends the execution.              *)
Unavailable(r, u) ==
    /\ rpc[r] = "queue" /\ u \in left[r] /\ u \notin active
    /\ ok' = [ok EXCEPT ![r] = FALSE]
    /\ GoR(r, "finish")
    /\ UNCHANGED <<schedule, runs, active, outbox, slot, aim, left, mailers, history>>

LeaveR(r) ==
    /\ GoR(r, "idle")
    /\ slot' = [slot EXCEPT ![r] = NoSlot]
    /\ aim' = [aim EXCEPT ![r] = {}]
    /\ left' = [left EXCEPT ![r] = {}]
    /\ ok' = [ok EXCEPT ![r] = TRUE]

(* The outcome belongs to whoever runs the run now. *)
Outcome(r) == IF ok[r] THEN "SUCCEEDED" ELSE "FAILED"

Close(r) ==
    /\ run' = [run EXCEPT ![slot[r]] = Outcome(r)]
    /\ runStale' = [runStale EXCEPT ![slot[r]] = FALSE]
    /\ owed' = [owed EXCEPT ![slot[r]] = aim[r]]

Finish(r) ==
    /\ rpc[r] = "finish"
    /\ IF run[slot[r]] = "RUNNING" THEN Close(r) ELSE UNCHANGED <<run, runStale, owed>>
    /\ LeaveR(r)
    /\ UNCHANGED <<schedule, tries, active, outbox, mailers, received, refused, excused, faults>>

(* The replica dies, or the database does not take the outcome.            *)
RunnerCrashes(r) ==
    /\ rpc[r] # "idle"
    /\ Fault
    /\ LeaveR(r)
    /\ UNCHANGED <<schedule, runs, active, outbox, mailers, received, refused, excused, owed>>

(***************************************************************************)
(* Mailers.                                                                *)
(***************************************************************************)
Delivering(m) == {p \in Mailers : item[p] = m /\ mpc[p] # "hung"}

LockLapses(m) ==
    /\ mail[m] = "delivering" /\ ~stale[m] /\ Delivering(m) = {}
    /\ stale' = [stale EXCEPT ![m] = TRUE]
    /\ UNCHANGED <<schedule, runs, active, mail, attempts, runners, mailers, history>>

(* SMTP needs more than five minutes; from here on two may send the mail.  *)
SendOverruns(m) ==
    /\ mail[m] = "delivering" /\ ~stale[m] /\ Delivering(m) # {}
    /\ Fault
    /\ stale' = [stale EXCEPT ![m] = TRUE]
    /\ excused' = excused \cup {m}
    /\ UNCHANGED <<schedule, runs, active, mail, attempts, runners, mailers,
                   received, refused, owed>>

(* Mutation: mail that a mailer has locked is never due. *)
DuePending(m) == mail[m] = "pending"
Due(m) == mail[m] = "pending" \/ (mail[m] = "delivering" /\ stale[m])

ClaimMail(p, m) ==
    /\ mpc[p] = "idle" /\ Due(m)
    /\ mail' = [mail EXCEPT ![m] = "delivering"]
    /\ stale' = [stale EXCEPT ![m] = FALSE]
    /\ mpc' = [mpc EXCEPT ![p] = "send"]
    /\ item' = [item EXCEPT ![p] = m]
    /\ UNCHANGED <<schedule, runs, active, attempts, runners, sent, history>>

Answer(p, delivered, answer) ==
    /\ mpc[p] \in {"send", "hung"}
    /\ mpc' = [mpc EXCEPT ![p] = "record"]
    /\ sent' = [sent EXCEPT ![p] = answer]
    /\ received' = IF delivered THEN [received EXCEPT ![item[p]] = Bump(@)] ELSE received
    /\ refused' = IF answer THEN refused ELSE [refused EXCEPT ![item[p]] = @ + 1]
    /\ UNCHANGED <<schedule, runs, active, outbox, runners, item, owed>>

SendAccepted(p) == Answer(p, TRUE, TRUE) /\ UNCHANGED <<excused, faults>>
SendRefused(p) == Answer(p, FALSE, FALSE) /\ UNCHANGED <<excused, faults>>

(* SMTP takes the mail and its answer is lost. *)
SendInDoubt(p) ==
    /\ Fault
    /\ Answer(p, TRUE, FALSE)
    /\ excused' = excused \cup {item[p]}

(* Only dialling has a timeout: a session may stay without an answer for   *)
(* as long as the connection lasts.                                        *)
SendHangs(p) ==
    /\ mpc[p] = "send"
    /\ Fault
    /\ mpc' = [mpc EXCEPT ![p] = "hung"]
    /\ excused' = excused \cup {item[p]}
    /\ UNCHANGED <<schedule, runs, active, outbox, runners, item, sent,
                   received, refused, owed>>

LeaveM(p) ==
    /\ mpc' = [mpc EXCEPT ![p] = "idle"]
    /\ item' = [item EXCEPT ![p] = NoMail]
    /\ sent' = [sent EXCEPT ![p] = FALSE]

CompleteSent(p) ==
    /\ mpc[p] = "record" /\ sent[p]
    /\ mail' = IF mail[item[p]] = "delivering" THEN [mail EXCEPT ![item[p]] = "sent"] ELSE mail
    /\ stale' = [stale EXCEPT ![item[p]] = FALSE]
    /\ LeaveM(p)
    /\ UNCHANGED <<schedule, runs, active, attempts, runners, history>>

Failed(p) ==
    LET m == item[p] IN
    /\ mail' = [mail EXCEPT ![m] = IF attempts[m] + 1 >= MaxAttempts THEN "dead" ELSE "pending"]
    /\ attempts' = [attempts EXCEPT ![m] = @ + 1]
    /\ stale' = [stale EXCEPT ![m] = FALSE]

CompleteFailed(p) ==
    /\ mpc[p] = "record" /\ ~sent[p]
    /\ IF mail[item[p]] = "delivering" THEN Failed(p) ELSE UNCHANGED outbox
    /\ LeaveM(p)
    /\ UNCHANGED <<schedule, runs, active, runners, history>>

(* The replica dies, or the database does not take the outcome. *)
MailerCrashes(p) ==
    /\ mpc[p] # "idle"
    /\ Fault
    /\ excused' = excused \cup {item[p]}
    /\ LeaveM(p)
    /\ UNCHANGED <<schedule, runs, active, outbox, runners, received, refused, owed>>

(***************************************************************************)
(* The specification. Replicas that are up keep working and the five       *)
(* minutes of an abandoned claim pass; time and users are free, and SMTP   *)
(* answers as it likes or, in a session that hangs, not at all.            *)
(***************************************************************************)
Execute(r) == Search(r) \/ SearchFails(r)
              \/ (\E u \in Users : Queue(r, u) \/ Unavailable(r, u)) \/ Finish(r)
Runner(r) == (\E s \in Times : ClaimRun(r, s)) \/ Execute(r)
Mailer(p) == (\E m \in Mails : ClaimMail(p, m)) \/ SendAccepted(p) \/ SendRefused(p)
             \/ CompleteSent(p) \/ CompleteFailed(p)

Next ==
    \/ TimePasses \/ EnqueueDue \/ Unsubscribe \/ Save
    \/ \E u \in Leavers : Deactivate(u) \/ Reactivate(u)
    \/ \E s \in Times : RunLapses(s) \/ RunOverruns(s)
    \/ \E m \in Mails : LockLapses(m) \/ SendOverruns(m)
    \/ \E r \in Runners : Runner(r) \/ RunnerCrashes(r)
                         \/ \E s \in Times : ClaimPastLocked(r, s)
    \/ \E p \in Mailers : Mailer(p) \/ SendInDoubt(p) \/ SendHangs(p) \/ MailerCrashes(p)

Spec == Init /\ [][Next]_vars

Fairness ==
    /\ WF_vars(EnqueueDue)
    /\ \A r \in Runners : WF_vars(Runner(r))
    /\ \A p \in Mailers : WF_vars(mpc[p] # "hung" /\ Mailer(p))
    /\ \A s \in Times : WF_vars(RunLapses(s))
    /\ \A m \in Mails : WF_vars(LockLapses(m))

FairSpec == Spec /\ Fairness
(***************************************************************************)
(* Properties.                                                             *)
(***************************************************************************)
(* The rows, the runners and the mailers keep their types.                 *)
TypeOK ==
    /\ there \in BOOLEAN /\ now \in 0..Slots /\ next \in 1..(Slots + 1)
    /\ run \in [Times -> {"none", "PENDING", "RUNNING", "FAILED", "SUCCEEDED"}]
    /\ tries \in [Times -> 0..MaxTries]
    /\ runStale \in [Times -> BOOLEAN]
    /\ active \subseteq Users
    /\ mail \in [Mails -> {"none", "pending", "delivering", "sent", "dead"}]
    /\ attempts \in [Mails -> 0..MaxAttempts]
    /\ stale \in [Mails -> BOOLEAN]
    /\ rpc \in [Runners -> {"idle", "search", "queue", "finish"}]
    /\ slot \in [Runners -> Times \cup {NoSlot}]
    /\ aim \in [Runners -> SUBSET Users] /\ left \in [Runners -> SUBSET Users]
    /\ ok \in [Runners -> BOOLEAN]
    /\ mpc \in [Mailers -> {"idle", "send", "hung", "record"}]
    /\ item \in [Mailers -> Mails \cup {NoMail}]
    /\ sent \in [Mailers -> BOOLEAN]
    /\ received \in [Mails -> 0..2]
    /\ refused \in [Mails -> Nat]
    /\ excused \subseteq Mails /\ owed \in [Times -> SUBSET Users]
    /\ faults \in 0..MaxFaults

(* Everybody the run had to reach has a mail in the outbox. *)
Reached(s) == \A u \in owed[s] : mail[<<s, u>>] # "none"

SucceededReachedEveryone ==
    \A s \in Times :
        run[s] = "SUCCEEDED" => Reached(s) \/ (s \in Grouped /\ owed[s] = {Owner})

(***************************************************************************)
(* What a run or a mail says of itself is what happened, with whatever     *)
(* leases lapsed on the way. A run that succeeded has queued mail for      *)
(* everybody it had to reach (the people it lists, or the members of its   *)
(* group when it read them), however many executions it took and wherever  *)
(* the earlier ones stopped; only the owner who is the one member of the   *)
(* group is left out, and whoever a filter that matched nothing concerns   *)
(* (execute, finish). A mail is recorded as sent only when SMTP has taken  *)
(* it, and given up only after as many refusals as there are attempts      *)
(* (CompleteEmailDelivery). Every variable keeps its type.                 *)
(***************************************************************************)
OutcomesAreTrue ==
    /\ TypeOK /\ SucceededReachedEveryone
    /\ \A m \in Mails : /\ mail[m] = "sent" => received[m] > 0
                        /\ mail[m] = "dead" => refused[m] >= MaxAttempts

(* Nobody gets the mail of a run twice, although the run may be executed   *)
(* again and again, and by two runners at once: only a mailer that died,   *)
(* was too slow or lost SMTP's answer can make a mail arrive twice.        *)
RepeatsHaveACause == \A m \in Mails : received[m] > 1 => m \in excused

Over(s) == run[s] \in {"none", "SUCCEEDED"} \/ tries[s] = MaxTries

RunsAreOver == (~there \/ next > now) /\ \A s \in Times : Over(s)
MailIsOver == \A m \in Mails : mail[m] \in {"none", "sent", "dead"}
AllHang == \A p \in Mailers : mpc[p] = "hung"

(* Everything comes to an end, again and again: every run succeeds, loses  *)
(* its subscription or uses its attempts up (the last of them may be a     *)
(* crash that leaves it RUNNING), and every queued mail is sent or given   *)
(* up. Each run and mail is queued once, so none of them waits for ever.   *)
(* Two things may stop this: a schedule whose last time has come blocks    *)
(* the runners, and a session with SMTP that hangs in every replica the    *)
(* mailers.                                                                *)
EverythingIsSettled ==
    []<>((Blocked \/ RunsAreOver) /\ (AllHang \/ MailIsOver))

(***************************************************************************)
(* docs/FILTERS.md:58: "A runner claims due runs (recovering stale         *)
(* claims)", so that each scheduled time that has come is run in the end.  *)
(***************************************************************************)
DueRunsAreClaimed == []<>RunsAreOver

(***************************************************************************)
(* docs/FILTERS.md:55: a subscription to a group "reaches the group's      *)
(* active members as they are when the mail is sent".                      *)
(***************************************************************************)
GroupMembersAreReached == \A s \in Times : run[s] = "SUCCEEDED" => Reached(s)

=============================================================================
