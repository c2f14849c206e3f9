----------------------------- MODULE MailProofs -----------------------------
(***************************************************************************)
(* Proofs about Mail, for any recipients, scheduled times, runners,        *)
(* mailers and limits: what runs and mails say of themselves is what       *)
(* happened, and mail that arrives twice has a cause.                      *)
(*                                                                         *)
(* A runner has queued mail for everybody it aims at and has not left over *)
(* (RunnerInv). A mail somebody sends is locked, and locked by one mailer, *)
(* unless its lock was overrun or lost (LockInv). SMTP has given the       *)
(* answer that is about to be recorded; the refusals still to be recorded  *)
(* are counted apart, so that no late one is taken for another (CountInv), *)
(* and mail that arrived is recorded as sent, or about to be (TakenInv).   *)
(***************************************************************************)
EXTENDS Mail, FiniteSetTheorems, TLAPS

RunnerInv ==
    \A r \in Runners :
        /\ rpc[r] = "idle" <=> slot[r] = NoSlot
        /\ rpc[r] \in {"idle", "search"} => aim[r] = {} /\ left[r] = {}
        /\ rpc[r] = "finish" /\ ok[r] => left[r] = {}
        /\ slot[r] # NoSlot => \/ slot[r] \in Grouped /\ aim[r] = {Owner}
                              \/ \A u \in aim[r] \ left[r] : mail[<<slot[r], u>>] # "none"

LockInv ==
    /\ \A p \in Mailers :
          /\ mpc[p] = "idle" <=> item[p] = NoMail
          /\ mpc[p] = "hung" => item[p] \in excused
          /\ \/ item[p] \in excused \cup {NoMail}
             \/ mail[item[p]] = "delivering" /\ ~stale[item[p]]
    /\ \A p, q \in Mailers : item[p] = item[q] => p = q \/ item[p] \in excused \cup {NoMail}

(* The mailers that are about to record that sending m has failed. *)
Refusing(m) == {p \in Mailers : mpc[p] = "record" /\ ~sent[p] /\ item[p] = m}

CountInv ==
    \A m \in Mails :
        /\ mail[m] # "dead" => attempts[m] < MaxAttempts
        /\ mail[m] = "dead" => attempts[m] = MaxAttempts
        /\ attempts[m] + Cardinality(Refusing(m)) <= refused[m]

TakenInv ==
    /\ \A p \in Mailers : mpc[p] = "record" /\ sent[p] => received[item[p]] > 0
    /\ \A m \in Mails :
          \/ m \in excused
          \/ received[m] = 0
          \/ /\ received[m] = 1
             /\ \/ mail[m] = "sent"
                \/ \E p \in Mailers : mpc[p] = "record" /\ sent[p] /\ item[p] = m

MailOutcomes ==
    \A m \in Mails : /\ mail[m] = "sent" => received[m] > 0
                     /\ mail[m] = "dead" => refused[m] >= MaxAttempts

RunSide == SucceededReachedEveryone /\ RunnerInv
MailSide == MailOutcomes /\ LockInv /\ CountInv /\ TakenInv
IInv == TypeOK /\ RunSide /\ MailSide
-----------------------------------------------------------------------------
(* Nobody works on anything at first. *)
LEMMA InitIInv == Init => IInv
  <1> SUFFICES ASSUME Init PROVE IInv
    OBVIOUS
  <1> USE SlotsAssumption, RecipientsAssumption, BoundsAssumption
  <1>1. TypeOK
    BY DEF Init, TypeOK, Times, Mails, NoSlot
  <1>2. RunSide
    BY DEF Init, RunSide, SucceededReachedEveryone, RunnerInv, NoSlot
  <1>3. \A m \in Mails : Cardinality(Refusing(m)) = 0
    <2>1. \A m \in Mails : Refusing(m) = {}
      BY DEF Init, Refusing
    <2> QED
      BY <2>1, FS_EmptySet
  <1>4. CountInv
    BY <1>3 DEF Init, CountInv
  <1>5. MailOutcomes /\ LockInv /\ TakenInv
    BY DEF Init, MailOutcomes, LockInv, TakenInv
  <1> QED
    BY <1>1, <1>2, <1>4, <1>5 DEF IInv, MailSide

(***************************************************************************)
(* The type of the state, the flags apart from the other values: no prover *)
(* handles Booleans and numbers together.                                  *)
(***************************************************************************)
Flags ==
    /\ there \in BOOLEAN /\ runStale \in [Times -> BOOLEAN] /\ stale \in [Mails -> BOOLEAN]
    /\ ok \in [Runners -> BOOLEAN] /\ sent \in [Mailers -> BOOLEAN]

RunValues ==
    /\ now \in 0..Slots /\ next \in 1..(Slots + 1) /\ active \subseteq Users
    /\ run \in [Times -> {"none", "PENDING", "RUNNING", "FAILED", "SUCCEEDED"}]
    /\ tries \in [Times -> 0..MaxTries]
    /\ rpc \in [Runners -> {"idle", "search", "queue", "finish"}]
    /\ slot \in [Runners -> Times \cup {NoSlot}]
    /\ aim \in [Runners -> SUBSET Users] /\ left \in [Runners -> SUBSET Users]
    /\ owed \in [Times -> SUBSET Users]

MailValues ==
    /\ mail \in [Mails -> {"none", "pending", "delivering", "sent", "dead"}]
    /\ attempts \in [Mails -> 0..MaxAttempts]
    /\ mpc \in [Mailers -> {"idle", "send", "hung", "record"}]
    /\ item \in [Mailers -> Mails \cup {NoMail}]
    /\ received \in [Mails -> 0..2] /\ refused \in [Mails -> Nat]
    /\ excused \subseteq Mails

(* Together they are TypeOK. *)
LEMMA TypeParts == TypeOK <=> Flags /\ RunValues /\ MailValues /\ faults \in 0..MaxFaults
  BY DEF TypeOK, Flags, RunValues, MailValues

(* They are TypeOK after a step as well. *)
LEMMA TypePartsAfter == (TypeOK <=> Flags /\ RunValues /\ MailValues /\ faults \in 0..MaxFaults)'
  BY TypeParts, PTL

(* Setting a flag keeps a function to the Booleans one. *)
LEMMA SetFlag ==
    ASSUME NEW S, NEW f \in [S -> BOOLEAN], NEW x \in S, NEW v \in BOOLEAN
    PROVE  [f EXCEPT ![x] = v] \in [S -> BOOLEAN]
  OBVIOUS

(***************************************************************************)
(* A step that leaves the mailers alone may queue mail, and no more.       *)
(***************************************************************************)
LEMMA MailSideStays ==
    ASSUME IInv, UNCHANGED <<attempts, stale, mpc, item, sent, received, refused, excused>>,
           \A m \in Mails : mail'[m] = mail[m] \/ (mail[m] = "none" /\ mail'[m] = "pending")
    PROVE  MailSide'
  <1>1. \A m \in Mails : Refusing(m)' = Refusing(m)
    BY DEF Refusing
  <1>2. CountInv'
    BY <1>1 DEF IInv, MailSide, CountInv
  <1>3. LockInv'
    BY DEF IInv, MailSide, LockInv, TypeOK
  <1>4. MailOutcomes' /\ TakenInv'
    BY DEF IInv, MailSide, MailOutcomes, TakenInv
  <1> QED
    BY <1>2, <1>3, <1>4 DEF MailSide

(***************************************************************************)
(* A step that leaves the runners alone removes no mail.                   *)
(***************************************************************************)
LEMMA RunSideStays ==
    ASSUME IInv, UNCHANGED <<run, rpc, slot, aim, left, ok, owed>>,
           \A m \in Mails : mail[m] # "none" => mail'[m] # "none"
    PROVE  RunSide'
  <1>1. SucceededReachedEveryone'
    BY DEF IInv, TypeOK, RunSide, SucceededReachedEveryone, Reached, Mails
  <1>2. RunnerInv'
    <2> SUFFICES ASSUME NEW r \in Runners, slot[r] # NoSlot, ~(slot[r] \in Grouped /\ aim[r] = {Owner}),
                        NEW u \in aim[r] \ left[r]
                 PROVE  mail'[<<slot[r], u>>] # "none"
      BY DEF IInv, RunSide, RunnerInv
    <2>1. <<slot[r], u>> \in Mails
      BY DEF IInv, TypeOK, Mails
    <2> QED
      BY <2>1 DEF IInv, RunSide, RunnerInv
  <1> QED
    BY <1>1, <1>2 DEF RunSide

(* Time, the schedule and the members: no mail and no execution changes. *)
LEMMA ScheduleIInv ==
    ASSUME IInv,
           \/ TimePasses \/ EnqueueDue \/ Unsubscribe \/ Save
           \/ \E u \in Users : Deactivate(u) \/ Reactivate(u)
    PROVE  IInv'
  <1> USE SlotsAssumption, BoundsAssumption
      DEF schedule, runs, outbox, runners, mailers, history
  <1>0. Flags /\ RunValues /\ MailValues /\ faults \in 0..MaxFaults
    BY TypeParts DEF IInv
  <1>1. UNCHANGED <<mail, attempts, stale, rpc, slot, aim, left, ok, mpc, item, sent,
                    received, refused, excused, owed, faults>>
    BY DEF TimePasses, EnqueueDue, Unsubscribe, Save, Deactivate, Reactivate
  <1>2. \/ UNCHANGED <<now, next, run, tries>> /\ active' \subseteq active \cup Users
        \/ UNCHANGED <<next, run, tries, active>> /\ now < Slots /\ now' = now + 1
        \/ /\ UNCHANGED <<now, tries, active>> /\ next <= now /\ next' = next + 1
           /\ run' = [run EXCEPT ![next] = "PENDING"]
        \/ /\ UNCHANGED <<now, next, active>>
           /\ run' = [s \in Times |-> "none"] /\ tries' = [s \in Times |-> 0]
        \/ UNCHANGED <<now, run, tries, active>> /\ next' = now + 1
    BY DEF TimePasses, EnqueueDue, Unsubscribe, Save, Deactivate, Reactivate
  <1>3. Flags'
    <2>1. /\ there' = there \/ there' = FALSE
          /\ runStale' = runStale \/ runStale' = [s \in Times |-> FALSE]
      BY DEF TimePasses, EnqueueDue, Unsubscribe, Save, Deactivate, Reactivate
    <2>2. there' \in BOOLEAN
      BY <1>0, <2>1, Zenon DEF Flags
    <2>3. runStale' \in [Times -> BOOLEAN]
      BY <1>0, <2>1 DEF Flags
    <2> QED
      BY <1>0, <1>1, <2>2, <2>3 DEF Flags
  <1>4. RunValues'
    <2>1. now' \in 0..Slots /\ next' \in 1..(Slots + 1) /\ active' \subseteq Users
      BY <1>0, <1>2 DEF RunValues
    <2>2. /\ run' \in [Times -> {"none", "PENDING", "RUNNING", "FAILED", "SUCCEEDED"}]
          /\ tries' \in [Times -> 0..MaxTries]
      BY <1>0, <1>2 DEF RunValues
    <2> QED
      BY <1>0, <1>1, <2>1, <2>2 DEF RunValues
  <1>5. TypeOK'
    BY <1>0, <1>1, <1>3, <1>4, TypePartsAfter DEF MailValues
  <1>6. RunSide'
    <2>1. \A s \in Times : run'[s] = "SUCCEEDED" => run[s] = "SUCCEEDED"
      BY <1>0, <1>2 DEF RunValues
    <2> QED
      BY <1>1, <2>1 DEF IInv, RunSide, SucceededReachedEveryone, Reached, RunnerInv
  <1>7. MailSide'
    BY <1>1, MailSideStays
  <1> QED
    BY <1>5, <1>6, <1>7 DEF IInv

(* Five minutes pass for a claim of a run. *)
LEMMA RunLapsesIInv ==
    ASSUME IInv, NEW s \in Times, RunLapses(s) \/ RunOverruns(s)
    PROVE  IInv'
  <1> USE DEF schedule, runs, outbox, runners, mailers, history
  <1>0. Flags /\ RunValues /\ MailValues /\ faults \in 0..MaxFaults
    BY TypeParts DEF IInv
  <1>1. UNCHANGED <<there, now, next, run, tries, active, mail, attempts, stale, rpc, slot, aim, left, ok,
                    mpc, item, sent, received, refused, excused, owed>>
    BY DEF RunLapses, RunOverruns
  <1>2. runStale' = [runStale EXCEPT ![s] = TRUE]
    BY DEF RunLapses, RunOverruns
  <1>3. faults' = faults \/ Fault
    BY DEF RunLapses, RunOverruns
  <1>4. Flags'
    BY <1>0, <1>1, <1>2, SetFlag DEF Flags
  <1>5. faults' \in 0..MaxFaults
    BY <1>0, <1>3, BoundsAssumption DEF Fault
  <1>6. RunValues' /\ MailValues'
    BY <1>0, <1>1 DEF RunValues, MailValues
  <1>7. TypeOK'
    BY <1>4, <1>5, <1>6, TypePartsAfter
  <1>8. RunSide' /\ MailSide'
    BY <1>1, MailSideStays, RunSideStays
  <1> QED
    BY <1>7, <1>8 DEF IInv

(* A runner claims a run and starts over. *)
LEMMA ClaimIInv ==
    ASSUME IInv, NEW s \in Times, NEW r \in Runners, Claim(r, s)
    PROVE  IInv'
  <1> USE DEF schedule, outbox, mailers, history
  <1>0. Flags /\ RunValues /\ MailValues /\ faults \in 0..MaxFaults
    BY TypeParts DEF IInv
  <1>1. UNCHANGED <<there, now, next, active, mail, attempts, stale, aim, left, ok,
                    mpc, item, sent, received, refused, excused, owed, faults>>
    BY DEF Claim
  <1>2. /\ rpc[r] = "idle" /\ tries[s] < MaxTries
        /\ run' = [run EXCEPT ![s] = "RUNNING"] /\ tries' = [tries EXCEPT ![s] = @ + 1]
        /\ rpc' = [rpc EXCEPT ![r] = "search"] /\ slot' = [slot EXCEPT ![r] = s]
    BY DEF Claim, Claimable
  <1>3. Flags'
    <2>1. runStale' = [runStale EXCEPT ![s] = FALSE]
      BY DEF Claim
    <2> QED
      BY <1>0, <1>1, <2>1, SetFlag DEF Flags
  <1>4. RunValues' /\ MailValues'
    BY <1>0, <1>1, <1>2, BoundsAssumption DEF RunValues, MailValues
  <1>5. TypeOK'
    BY <1>0, <1>1, <1>3, <1>4, TypePartsAfter
  <1>6. SucceededReachedEveryone'
    BY <1>0, <1>1, <1>2 DEF RunValues, IInv, RunSide, SucceededReachedEveryone, Reached
  <1>7. RunnerInv'
    BY <1>0, <1>1, <1>2, SlotsAssumption DEF RunValues, IInv, RunSide, RunnerInv, NoSlot, Times
  <1>8. MailSide'
    BY <1>1, MailSideStays
  <1> QED
    BY <1>5, <1>6, <1>7, <1>8 DEF IInv, RunSide

(***************************************************************************)
(* A runner moves on with its run and changes nothing else.                *)
(***************************************************************************)
RunnerStep(r) ==
    /\ UNCHANGED <<there, now, next, run, tries, runStale, active, mail, attempts, stale,
                   mpc, item, sent, received, refused, excused, owed>>
    /\ faults' = faults \/ Fault
    /\ \A q \in Runners \ {r} : /\ rpc'[q] = rpc[q] /\ slot'[q] = slot[q] /\ aim'[q] = aim[q]
                                /\ left'[q] = left[q] /\ ok'[q] = ok[q]
    /\ rpc' \in [Runners -> {"idle", "search", "queue", "finish"}]
    /\ slot' \in [Runners -> Times \cup {NoSlot}]
    /\ aim' \in [Runners -> SUBSET Users] /\ left' \in [Runners -> SUBSET Users]
    /\ ok' \in [Runners -> BOOLEAN]

(* Where it goes has to be right for this runner only. *)
LEMMA RunnerStepIInv ==
    ASSUME IInv, NEW r \in Runners, RunnerStep(r),
           rpc'[r] = "idle" <=> slot'[r] = NoSlot,
           rpc'[r] \in {"idle", "search"} => aim'[r] = {} /\ left'[r] = {},
           rpc'[r] = "finish" /\ ok'[r] => left'[r] = {},
           (slot'[r] \in Grouped /\ aim'[r] = {Owner}) \/ aim'[r] \subseteq left'[r]
    PROVE  IInv'
  <1>0. Flags /\ RunValues /\ MailValues /\ faults \in 0..MaxFaults
    BY TypeParts DEF IInv
  <1>1. faults' \in 0..MaxFaults
    BY <1>0, BoundsAssumption DEF RunnerStep, Fault
  <1>2. Flags'
    BY <1>0 DEF RunnerStep, Flags
  <1>3. RunValues' /\ MailValues'
    BY <1>0 DEF RunnerStep, RunValues, MailValues
  <1>4. TypeOK'
    BY <1>1, <1>2, <1>3, TypePartsAfter
  <1>5. SucceededReachedEveryone'
    BY DEF RunnerStep, IInv, RunSide, SucceededReachedEveryone, Reached
  <1>6. RunnerInv'
    <2> SUFFICES ASSUME NEW q \in Runners
                 PROVE  /\ rpc'[q] = "idle" <=> slot'[q] = NoSlot
                        /\ rpc'[q] \in {"idle", "search"} => aim'[q] = {} /\ left'[q] = {}
                        /\ rpc'[q] = "finish" /\ ok'[q] => left'[q] = {}
                        /\ slot'[q] # NoSlot =>
                             \/ slot'[q] \in Grouped /\ aim'[q] = {Owner}
                             \/ \A u \in aim'[q] \ left'[q] : mail[<<slot'[q], u>>] # "none"
      BY DEF RunnerStep, RunnerInv
    <2>1. CASE q # r
      BY <2>1 DEF RunnerStep, IInv, RunSide, RunnerInv
    <2>2. CASE q = r
      BY <2>2
    <2> QED
      BY <2>1, <2>2
  <1>7. MailSide'
    BY MailSideStays DEF RunnerStep
  <1> QED
    BY <1>4, <1>5, <1>6, <1>7 DEF IInv, RunSide

(* The search finds whom to reach. *)
LEMMA SearchIInv ==
    ASSUME IInv, NEW r \in Runners, Search(r)
    PROVE  IInv'
  <1> USE DEF schedule, runs, outbox, mailers, history
  <1>0. Flags /\ RunValues /\ MailValues
    BY TypeParts DEF IInv
  <1>1. PICK people \in SUBSET Users, reached \in SUBSET Users :
           /\ Aim(r, people, reached)
           /\ reached = people \/ (slot[r] \in Grouped /\ people = {Owner})
    <2>1. CASE Aim(r, {}, {})
      BY <2>1
    <2>2. CASE Aim(r, Recipients, Recipients)
      BY <2>2, RecipientsAssumption
    <2>3. ASSUME slot[r] \in Grouped, NEW members \in SUBSET active,
                 Aim(r, members, IF members \subseteq {Owner} THEN {} ELSE members)
          PROVE  \E people, reached \in SUBSET Users :
                    Aim(r, people, reached) /\ (reached = people \/ (slot[r] \in Grouped /\ people = {Owner}))
      <3>1. members \in SUBSET Users
        BY <1>0 DEF RunValues
      <3>2. CASE members \subseteq {Owner}
        <4>1. Aim(r, members, {}) /\ ({} = members \/ members = {Owner})
          BY <2>3, <3>2
        <4> QED
          BY <2>3, <3>1, <4>1
      <3>3. CASE ~(members \subseteq {Owner})
        BY <2>3, <3>1, <3>3
      <3> QED
        BY <3>2, <3>3
    <2> QED
      BY <2>1, <2>2, <2>3 DEF Search
  <1>2. /\ rpc[r] = "search"
        /\ UNCHANGED <<there, now, next, run, tries, runStale, active, mail, attempts, stale, slot, ok,
                       mpc, item, sent, received, refused, excused, owed, faults>>
    BY DEF Search
  <1>3. /\ aim' = [aim EXCEPT ![r] = people] /\ left' = [left EXCEPT ![r] = reached]
        /\ rpc' = [rpc EXCEPT ![r] = IF reached = {} THEN "finish" ELSE "queue"]
    BY <1>1 DEF Aim, GoR
  <1>4. /\ aim' \in [Runners -> SUBSET Users] /\ left' \in [Runners -> SUBSET Users]
        /\ rpc' \in [Runners -> {"idle", "search", "queue", "finish"}]
        /\ aim'[r] = people /\ left'[r] = reached
        /\ rpc'[r] = IF reached = {} THEN "finish" ELSE "queue"
        /\ \A q \in Runners \ {r} : /\ rpc'[q] = rpc[q] /\ aim'[q] = aim[q] /\ left'[q] = left[q]
    BY <1>0, <1>3 DEF RunValues
  <1>5. ok \in [Runners -> BOOLEAN] /\ slot \in [Runners -> Times \cup {NoSlot}]
    BY <1>0 DEF Flags, RunValues
  <1>6. RunnerStep(r)
    BY <1>2, <1>4, <1>5 DEF RunnerStep
  <1>7. slot[r] # NoSlot
    BY <1>2 DEF IInv, RunSide, RunnerInv
  <1> QED
    BY <1>1, <1>2, <1>4, <1>6, <1>7, RunnerStepIInv

(* A runner gives its run up, and leaves it or is about to record it. *)
LEMMA RunnerGivesUpIInv ==
    ASSUME IInv, NEW r \in Runners,
           SearchFails(r) \/ RunnerCrashes(r) \/ \E u \in Users : Unavailable(r, u)
    PROVE  IInv'
  <1> USE DEF schedule, runs, outbox, mailers, history
  <1>0. Flags /\ RunValues /\ MailValues
    BY TypeParts DEF IInv
  <1>1. CASE SearchFails(r) \/ \E u \in Users : Unavailable(r, u)
    <2>1. /\ UNCHANGED <<there, now, next, run, tries, runStale, active, mail, attempts, stale, slot,
                         aim, left, mpc, item, sent, received, refused, excused, owed, faults>>
          /\ rpc[r] # "idle" /\ rpc' = [rpc EXCEPT ![r] = "finish"] /\ ok' = [ok EXCEPT ![r] = FALSE]
      BY <1>1 DEF SearchFails, Unavailable, GoR
    <2>2. /\ rpc' \in [Runners -> {"idle", "search", "queue", "finish"}] /\ rpc'[r] = "finish"
          /\ \A q \in Runners \ {r} : rpc'[q] = rpc[q]
      BY <1>0, <2>1 DEF RunValues
    <2>3. ok' \in [Runners -> BOOLEAN] /\ ~ok'[r] /\ \A q \in Runners \ {r} : ok'[q] = ok[q]
      BY <1>0, <2>1, SetFlag DEF Flags
    <2>4. MailSide'
      BY <2>1, MailSideStays
    <2>5. TypeOK'
      <3>1. Flags' /\ RunValues' /\ MailValues'
        BY <1>0, <2>1, <2>2, <2>3 DEF Flags, RunValues, MailValues
      <3> QED
        BY <2>1, <3>1, TypeParts, TypePartsAfter DEF IInv
    <2>6. SucceededReachedEveryone'
      BY <2>1 DEF IInv, RunSide, SucceededReachedEveryone, Reached
    <2>7. RunnerInv'
      BY <2>1, <2>2, <2>3 DEF IInv, RunSide, RunnerInv
    <2> QED
      BY <2>4, <2>5, <2>6, <2>7 DEF IInv, RunSide
  <1>2. CASE RunnerCrashes(r)
    <2>1. /\ UNCHANGED <<there, now, next, run, tries, runStale, active, mail, attempts, stale,
                         mpc, item, sent, received, refused, excused, owed>>
          /\ Fault
          /\ rpc' = [rpc EXCEPT ![r] = "idle"] /\ slot' = [slot EXCEPT ![r] = NoSlot]
          /\ aim' = [aim EXCEPT ![r] = {}] /\ left' = [left EXCEPT ![r] = {}]
          /\ ok' = [ok EXCEPT ![r] = TRUE]
      BY <1>2 DEF RunnerCrashes, LeaveR, GoR
    <2>2. /\ rpc' \in [Runners -> {"idle", "search", "queue", "finish"}]
          /\ slot' \in [Runners -> Times \cup {NoSlot}]
          /\ aim' \in [Runners -> SUBSET Users] /\ left' \in [Runners -> SUBSET Users]
          /\ rpc'[r] = "idle" /\ slot'[r] = NoSlot /\ aim'[r] = {} /\ left'[r] = {}
          /\ \A q \in Runners \ {r} : /\ rpc'[q] = rpc[q] /\ slot'[q] = slot[q]
                                      /\ aim'[q] = aim[q] /\ left'[q] = left[q]
      BY <1>0, <2>1 DEF RunValues
    <2>3. ok' \in [Runners -> BOOLEAN] /\ \A q \in Runners \ {r} : ok'[q] = ok[q]
      BY <1>0, <2>1, SetFlag DEF Flags
    <2>4. RunnerStep(r)
      BY <2>1, <2>2, <2>3 DEF RunnerStep
    <2> QED
      BY <2>2, <2>4, RunnerStepIInv
  <1> QED
    BY <1>1, <1>2

(* The mail of a recipient is queued, unless it is there. *)
LEMMA QueueIInv ==
    ASSUME IInv, NEW r \in Runners, NEW u \in Users, Queue(r, u)
    PROVE  IInv'
  <1> USE SlotsAssumption, RecipientsAssumption, BoundsAssumption
      DEF schedule, runs, mailers, history
  <1> DEFINE to == <<slot[r], u>>
  <1>1. /\ rpc[r] = "queue"
        /\ UNCHANGED <<attempts, stale, there, now, next, run, tries, runStale, active,
                       slot, aim, ok, mpc, item, sent, received, refused, excused, owed, faults>>
        /\ left' = [left EXCEPT ![r] = @ \ {u}]
        /\ rpc' = [rpc EXCEPT ![r] = IF left[r] = {u} THEN "finish" ELSE "queue"]
        /\ mail' = [mail EXCEPT ![to] = IF @ = "none" THEN "pending" ELSE @]
    BY DEF Queue, Advance, GoR
  <1>2. slot[r] \in Times
    BY <1>1 DEF IInv, TypeOK, RunSide, RunnerInv, NoSlot
  <1>3. to \in Mails
    BY <1>2 DEF Mails
  <1>4. /\ \A m \in Mails : mail'[m] = mail[m] \/ (mail[m] = "none" /\ mail'[m] = "pending")
        /\ mail'[to] # "none"
        /\ mail' \in [Mails -> {"none", "pending", "delivering", "sent", "dead"}]
    BY <1>1, <1>3 DEF IInv, TypeOK
  <1>5. /\ rpc' \in [Runners -> {"idle", "search", "queue", "finish"}]
        /\ left' \in [Runners -> SUBSET Users]
        /\ left'[r] = left[r] \ {u} /\ rpc'[r] = IF left[r] = {u} THEN "finish" ELSE "queue"
        /\ \A q \in Runners : q # r => left'[q] = left[q] /\ rpc'[q] = rpc[q]
    BY <1>1 DEF IInv, TypeOK
  <1>6. TypeOK'
    BY <1>1, <1>4, <1>5 DEF IInv, TypeOK
  <1>7. \A m \in Mails : mail[m] # "none" => mail'[m] # "none"
    BY <1>4
  <1>8. SucceededReachedEveryone'
    BY <1>1, <1>7 DEF IInv, TypeOK, RunSide, SucceededReachedEveryone, Reached, Mails
  <1>9. RunnerInv'
    <2> SUFFICES ASSUME NEW q \in Runners
                 PROVE  /\ rpc'[q] = "idle" <=> slot[q] = NoSlot
                        /\ rpc'[q] \in {"idle", "search"} => aim[q] = {} /\ left'[q] = {}
                        /\ rpc'[q] = "finish" /\ ok[q] => left'[q] = {}
                        /\ slot[q] # NoSlot =>
                             \/ slot[q] \in Grouped /\ aim[q] = {Owner}
                             \/ \A v \in aim[q] \ left'[q] : mail'[<<slot[q], v>>] # "none"
      BY <1>1 DEF RunnerInv
    <2>1. /\ rpc'[q] = "idle" <=> slot[q] = NoSlot
          /\ rpc'[q] \in {"idle", "search"} => aim[q] = {} /\ left'[q] = {}
          /\ rpc'[q] = "finish" /\ ok[q] => left'[q] = {}
      BY <1>1, <1>5 DEF IInv, TypeOK, RunSide, RunnerInv
    <2>2. ASSUME slot[q] # NoSlot, ~(slot[q] \in Grouped /\ aim[q] = {Owner}), NEW v \in aim[q] \ left'[q]
          PROVE  mail'[<<slot[q], v>>] # "none"
      <3>1. slot[q] \in Times /\ v \in Users
        BY <2>2 DEF IInv, TypeOK
      <3>2. <<slot[q], v>> \in Mails
        BY <3>1 DEF Mails
      <3>3. CASE q = r /\ v = u
        BY <1>4, <3>3
      <3>4. CASE ~(q = r /\ v = u)
        <4>1. v \in aim[q] \ left[q]
          BY <1>5, <2>2, <3>4
        <4> QED
          BY <1>7, <2>2, <3>2, <4>1 DEF IInv, RunSide, RunnerInv
      <3> QED
        BY <3>3, <3>4
    <2> QED
      BY <2>1, <2>2
  <1>10. MailSide'
    BY <1>1, <1>4, MailSideStays
  <1> QED
    BY <1>6, <1>8, <1>9, <1>10 DEF IInv, RunSide

(* A run succeeds when its runner has nobody left to reach. *)
LEMMA FinishIInv ==
    ASSUME IInv, NEW r \in Runners, Finish(r)
    PROVE  IInv'
  <1> USE SlotsAssumption, RecipientsAssumption, BoundsAssumption
      DEF schedule, outbox, mailers
  <1>0. Flags /\ RunValues /\ MailValues /\ faults \in 0..MaxFaults
    BY TypeParts DEF IInv
  <1>1. UNCHANGED <<there, now, next, tries, active, mail, attempts, stale,
                    mpc, item, sent, received, refused, excused, faults>>
    BY DEF Finish
  <1>2. rpc[r] = "finish" /\ slot[r] \in Times
    BY DEF Finish, IInv, TypeOK, RunSide, RunnerInv, NoSlot
  <1>3. /\ rpc' = [rpc EXCEPT ![r] = "idle"] /\ slot' = [slot EXCEPT ![r] = NoSlot]
        /\ aim' = [aim EXCEPT ![r] = {}] /\ left' = [left EXCEPT ![r] = {}]
        /\ \/ run' = run /\ owed' = owed
           \/ /\ owed' = [owed EXCEPT ![slot[r]] = aim[r]]
              /\ \/ run' = [run EXCEPT ![slot[r]] = "FAILED"]
                 \/ ok[r] /\ run' = [run EXCEPT ![slot[r]] = "SUCCEEDED"]
    BY DEF Finish, Close, Outcome, GoR, LeaveR
  <1>4. aim[r] \subseteq Users
    BY <1>0 DEF RunValues
  <1>5. Flags'
    <2>1. /\ ok' = [ok EXCEPT ![r] = TRUE]
          /\ runStale' = runStale \/ runStale' = [runStale EXCEPT ![slot[r]] = FALSE]
      BY DEF Finish, Close, LeaveR
    <2> QED
      BY <1>0, <1>1, <1>2, <2>1, SetFlag DEF Flags
  <1>6. RunValues' /\ MailValues'
    <2>1. /\ rpc' \in [Runners -> {"idle", "search", "queue", "finish"}]
          /\ slot' \in [Runners -> Times \cup {NoSlot}]
          /\ aim' \in [Runners -> SUBSET Users] /\ left' \in [Runners -> SUBSET Users]
      BY <1>0, <1>3 DEF RunValues
    <2>2. /\ run' \in [Times -> {"none", "PENDING", "RUNNING", "FAILED", "SUCCEEDED"}]
          /\ owed' \in [Times -> SUBSET Users]
      BY <1>0, <1>2, <1>3, <1>4 DEF RunValues
    <2> QED
      BY <1>0, <1>1, <2>1, <2>2 DEF RunValues, MailValues
  <1>7. TypeOK'
    BY <1>0, <1>1, <1>5, <1>6, TypePartsAfter
  <1>8. RunnerInv'
    <2> SUFFICES ASSUME NEW q \in Runners
                 PROVE  /\ rpc'[q] = "idle" <=> slot'[q] = NoSlot
                        /\ rpc'[q] \in {"idle", "search"} => aim'[q] = {} /\ left'[q] = {}
                        /\ rpc'[q] = "finish" /\ ok'[q] => left'[q] = {}
                        /\ slot'[q] # NoSlot =>
                             \/ slot'[q] \in Grouped /\ aim'[q] = {Owner}
                             \/ \A v \in aim'[q] \ left'[q] : mail[<<slot'[q], v>>] # "none"
      BY <1>1 DEF RunnerInv
    <2>1. CASE q = r
      BY <1>0, <1>3, <2>1 DEF RunValues
    <2>2. CASE q # r
      <3>1. /\ rpc'[q] = rpc[q] /\ slot'[q] = slot[q] /\ aim'[q] = aim[q] /\ left'[q] = left[q]
        BY <1>0, <1>3, <2>2 DEF RunValues
      <3>2. ok'[q] = ok[q]
        BY <1>0, <2>2 DEF Finish, LeaveR, Flags
      <3> QED
        BY <3>1, <3>2 DEF IInv, RunSide, RunnerInv
    <2> QED
      BY <2>1, <2>2
  <1>9. SucceededReachedEveryone'
    <2> SUFFICES ASSUME NEW s \in Times, run'[s] = "SUCCEEDED", ~(s \in Grouped /\ owed'[s] = {Owner}),
                        NEW u \in owed'[s]
                 PROVE  mail[<<s, u>>] # "none"
      BY <1>1 DEF SucceededReachedEveryone, Reached
    <2>1. \/ run[s] = "SUCCEEDED" /\ owed'[s] = owed[s]
          \/ s = slot[r] /\ ok[r] /\ owed'[s] = aim[r]
      BY <1>0, <1>2, <1>3 DEF RunValues
    <2>2. CASE s = slot[r] /\ ok[r] /\ owed'[s] = aim[r]
      <3>1. left[r] = {} /\ slot[r] # NoSlot
        BY <1>2, <2>2 DEF IInv, RunSide, RunnerInv
      <3> QED
        BY <2>2, <3>1 DEF IInv, RunSide, RunnerInv
    <2> QED
      BY <2>1, <2>2 DEF IInv, RunSide, SucceededReachedEveryone, Reached
  <1>10. MailSide'
    BY <1>1, MailSideStays
  <1> QED
    BY <1>7, <1>8, <1>9, <1>10 DEF IInv, RunSide

(* Mailers are finitely many, and so are those that record a failure. *)
LEMMA RefusingFinite ==
    ASSUME NEW m
    PROVE  IsFiniteSet(Refusing(m)) /\ Cardinality(Refusing(m)) \in Nat
  <1>1. Refusing(m) \subseteq Mailers
    BY DEF Refusing
  <1> QED
    BY <1>1, MailersAssumption, FS_Subset, FS_CardinalityType

(* The same after a step. *)
LEMMA RefusingFiniteAfter ==
    ASSUME NEW m
    PROVE  IsFiniteSet(Refusing(m)') /\ Cardinality(Refusing(m)') \in Nat
  <1>1. Refusing(m)' \subseteq Mailers
    BY DEF Refusing
  <1> QED
    BY <1>1, MailersAssumption, FS_Subset, FS_CardinalityType

(* No mail is NoMail, and a busy mailer has one. *)
LEMMA BusyHasMail ==
    /\ NoMail \notin Mails
    /\ IInv => \A p \in Mailers : mpc[p] # "idle" => item[p] \in Mails /\ item[p] # NoMail
  <1>1. NoMail \notin Mails
    BY NoMailAssumption DEF Mails, Times
  <1>2. ASSUME IInv, NEW p \in Mailers, mpc[p] # "idle"
        PROVE  item[p] \in Mails /\ item[p] # NoMail
    <2>1. item[p] \in Mails \cup {NoMail}
      BY <1>2, TypeParts DEF IInv, MailValues
    <2> QED
      BY <1>1, <1>2, <2>1 DEF IInv, MailSide, LockInv
  <1> QED
    BY <1>1, <1>2

(* Five minutes pass for a lock: in a mailer's hand that is an overrun. *)
LEMMA LockTimesIInv ==
    ASSUME IInv, NEW m \in Mails, LockLapses(m) \/ SendOverruns(m)
    PROVE  IInv'
  <1> USE DEF schedule, runs, runners, mailers, history
  <1>0. Flags /\ RunValues /\ MailValues /\ faults \in 0..MaxFaults
    BY TypeParts DEF IInv
  <1>1. /\ UNCHANGED <<there, now, next, run, tries, runStale, active, mail, attempts, rpc, slot, aim, left,
                       ok, mpc, item, sent, received, refused, owed>>
        /\ stale' = [stale EXCEPT ![m] = TRUE]
        /\ excused' = excused \/ excused' = excused \cup {m}
        /\ Delivering(m) = {} \/ m \in excused'
    BY DEF LockLapses, SendOverruns
  <1>2. faults' \in 0..MaxFaults
    <2>1. faults' = faults \/ Fault
      BY DEF LockLapses, SendOverruns
    <2> QED
      BY <1>0, <2>1, BoundsAssumption DEF Fault
  <1>3. Flags'
    BY <1>0, <1>1, SetFlag DEF Flags
  <1>4. RunValues' /\ MailValues'
    BY <1>0, <1>1 DEF RunValues, MailValues
  <1>5. TypeOK'
    BY <1>2, <1>3, <1>4, TypePartsAfter
  <1>6. LockInv'
    <2>0. (\E p \in Mailers : item[p] = m) => m \in excused'
      BY <1>1 DEF Delivering, IInv, MailSide, LockInv
    <2>1. \A q \in Mails : q # m => stale'[q] = stale[q]
      BY <1>0, <1>1 DEF Flags
    <2>2. \A p \in Mailers : item[p] \in Mails \cup {NoMail}
      BY <1>0 DEF MailValues
    <2> QED
      BY <1>1, <2>0, <2>1, <2>2 DEF IInv, MailSide, LockInv
  <1>7. CountInv'
    <2>1. \A q \in Mails : Refusing(q)' = Refusing(q)
      BY <1>1 DEF Refusing
    <2> QED
      BY <1>1, <2>1 DEF IInv, MailSide, CountInv
  <1>8. MailOutcomes' /\ TakenInv'
    BY <1>1 DEF IInv, MailSide, MailOutcomes, TakenInv
  <1>9. RunSide'
    BY <1>1, RunSideStays
  <1> QED
    BY <1>5, <1>6, <1>7, <1>8, <1>9 DEF IInv, MailSide

(* Mail that is due is held by nobody whose lock is good. *)
LEMMA ClaimMailIInv ==
    ASSUME IInv, NEW p \in Mailers, NEW m \in Mails, ClaimMail(p, m)
    PROVE  IInv'
  <1> USE DEF schedule, runs, runners, history
  <1>0. Flags /\ RunValues /\ MailValues /\ faults \in 0..MaxFaults
    BY TypeParts DEF IInv
  <1>1. /\ UNCHANGED <<there, now, next, run, tries, runStale, active, attempts, rpc, slot, aim, left, ok,
                       sent, received, refused, excused, owed, faults>>
        /\ mpc[p] = "idle" /\ mpc' = [mpc EXCEPT ![p] = "send"] /\ item' = [item EXCEPT ![p] = m]
        /\ mail' = [mail EXCEPT ![m] = "delivering"] /\ stale' = [stale EXCEPT ![m] = FALSE]
        /\ mail[m] = "pending" \/ (mail[m] = "delivering" /\ stale[m])
    BY DEF ClaimMail, Due
  <1>2. Flags'
    BY <1>0, <1>1, SetFlag DEF Flags
  <1>3. RunValues' /\ MailValues'
    <2>1. /\ mail' \in [Mails -> {"none", "pending", "delivering", "sent", "dead"}]
          /\ mpc' \in [Mailers -> {"idle", "send", "hung", "record"}]
          /\ item' \in [Mailers -> Mails \cup {NoMail}]
      BY <1>0, <1>1 DEF MailValues
    <2> QED
      BY <1>0, <1>1, <2>1 DEF RunValues, MailValues
  <1>4. TypeOK'
    BY <1>0, <1>1, <1>2, <1>3, TypePartsAfter
  <1>5. /\ mpc'[p] = "send" /\ item'[p] = m /\ mail'[m] = "delivering" /\ ~stale'[m]
        /\ \A q \in Mailers : q # p => mpc'[q] = mpc[q] /\ item'[q] = item[q]
        /\ \A x \in Mails : x # m => mail'[x] = mail[x] /\ stale'[x] = stale[x]
        /\ \A q \in Mailers : item[q] \in Mails \cup {NoMail}
    BY <1>0, <1>1 DEF MailValues, Flags
  <1>6. NoMail # m /\ \A q \in Mailers : item[q] = m => m \in excused
    BY <1>1, BusyHasMail DEF IInv, MailSide, LockInv
  <1>7. LockInv'
    BY <1>1, <1>5, <1>6 DEF IInv, MailSide, LockInv
  <1>8. CountInv'
    <2>1. \A x \in Mails : Refusing(x)' = Refusing(x)
      BY <1>1, <1>5 DEF Refusing
    <2>2. mail[m] # "dead" /\ mail'[m] # "dead"
      BY <1>1, <1>5
    <2> QED
      BY <1>1, <1>5, <2>1, <2>2 DEF IInv, MailSide, CountInv
  <1>9. MailOutcomes'
    BY <1>1, <1>5 DEF IInv, MailSide, MailOutcomes
  <1>10. TakenInv'
    <2>1. \A q \in Mailers : mpc'[q] = "record" => q # p /\ mpc[q] = "record" /\ item'[q] = item[q]
      BY <1>5
    <2>2. \A q \in Mailers : mpc[q] = "record" => mpc'[q] = "record" /\ item'[q] = item[q]
      BY <1>1, <1>5
    <2>3. \A x \in Mails : mail[x] = "sent" => mail'[x] = "sent"
      BY <1>1, <1>5
    <2> QED
      BY <1>1, <2>1, <2>2, <2>3 DEF IInv, MailSide, TakenInv
  <1>11. RunSide'
    <2>1. \A x \in Mails : mail[x] # "none" => mail'[x] # "none"
      BY <1>5
    <2> QED
      BY <1>1, <2>1, RunSideStays
  <1> QED
    BY <1>4, <1>7, <1>8, <1>9, <1>10, <1>11 DEF IInv, MailSide

(* SMTP's answer, or none: the history is what happened. *)
LEMMA AnswerIInv ==
    ASSUME IInv, NEW p \in Mailers, SendAccepted(p) \/ SendRefused(p) \/ SendInDoubt(p)
    PROVE  IInv'
  <1> USE DEF schedule, runs, outbox, runners
  <1> DEFINE m == item[p]
  <1>0. Flags /\ RunValues /\ MailValues /\ faults \in 0..MaxFaults
    BY TypeParts DEF IInv
  <1>1. /\ UNCHANGED <<there, now, next, run, tries, runStale, active, mail, attempts, stale,
                       rpc, slot, aim, left, ok, item, owed>>
        /\ mpc[p] \in {"send", "hung"} /\ mpc' = [mpc EXCEPT ![p] = "record"]
    BY DEF SendAccepted, SendRefused, SendInDoubt, Answer
  <1>2. m \in Mails /\ m # NoMail
    BY <1>1, BusyHasMail
  <1> HIDE DEF m
  <1>3. \/ /\ sent' = [sent EXCEPT ![p] = TRUE] /\ received' = [received EXCEPT ![m] = Bump(@)]
           /\ UNCHANGED <<refused, excused>>
        \/ /\ sent' = [sent EXCEPT ![p] = FALSE] /\ refused' = [refused EXCEPT ![m] = @ + 1]
           /\ UNCHANGED <<received, excused>>
        \/ /\ sent' = [sent EXCEPT ![p] = FALSE] /\ refused' = [refused EXCEPT ![m] = @ + 1]
           /\ received' = [received EXCEPT ![m] = Bump(@)] /\ excused' = excused \cup {m}
    BY DEF SendAccepted, SendRefused, SendInDoubt, Answer, m
  <1>4. faults' \in 0..MaxFaults
    <2>1. faults' = faults \/ Fault
      BY DEF SendAccepted, SendRefused, SendInDoubt
    <2> QED
      BY <1>0, <2>1, BoundsAssumption DEF Fault
  <1>5. Flags'
    <2>1. sent' = [sent EXCEPT ![p] = TRUE] \/ sent' = [sent EXCEPT ![p] = FALSE]
      BY <1>3
    <2> QED
      BY <1>0, <1>1, <2>1, SetFlag DEF Flags
  <1>6. /\ received' \in [Mails -> 0..2] /\ refused' \in [Mails -> Nat]
        /\ excused' \subseteq Mails /\ excused \subseteq excused'
        /\ \A x \in Mails : x # m => received'[x] = received[x] /\ refused'[x] = refused[x]
        /\ received'[m] >= received[m] /\ refused'[m] >= refused[m]
    <2>1. /\ received' = received \/ received' = [received EXCEPT ![m] = Bump(@)]
          /\ refused' = refused \/ refused' = [refused EXCEPT ![m] = @ + 1]
          /\ excused' = excused \/ excused' = excused \cup {m}
      BY <1>3
    <2> QED
      BY <1>0, <1>2, <2>1 DEF MailValues, Bump
  <1>7. RunValues' /\ MailValues'
    BY <1>0, <1>1, <1>6 DEF RunValues, MailValues
  <1>8. TypeOK'
    BY <1>4, <1>5, <1>7, TypePartsAfter
  <1>9. /\ mpc'[p] = "record"
        /\ \A q \in Mailers : q # p => mpc'[q] = mpc[q] /\ sent'[q] = sent[q]
        /\ \A q \in Mailers : item[q] \in Mails \cup {NoMail}
    BY <1>0, <1>1, <1>3 DEF MailValues, Flags
  <1>10. LockInv'
    BY <1>1, <1>6, <1>9 DEF IInv, MailSide, LockInv
  <1>11. CountInv'
    <2> SUFFICES ASSUME NEW x \in Mails
                 PROVE  attempts[x] + Cardinality(Refusing(x)') <= refused'[x]
      BY <1>1 DEF IInv, MailSide, CountInv
    <2>1. /\ attempts[x] + Cardinality(Refusing(x)) <= refused[x]
          /\ attempts[x] \in Nat /\ refused[x] \in Nat /\ Cardinality(Refusing(x)) \in Nat
      BY <1>0, RefusingFinite DEF IInv, MailSide, CountInv, MailValues
    <2>2. CASE sent'[p] \/ x # m
      <3>1. Refusing(x)' = Refusing(x)
        BY <1>1, <1>9, <2>2 DEF Refusing, m
      <3>2. refused'[x] >= refused[x] /\ refused'[x] \in Nat
        BY <1>0, <1>6 DEF MailValues
      <3> QED
        BY <2>1, <3>1, <3>2
    <2>3. CASE ~sent'[p] /\ x = m
      <3>1. Refusing(x)' = Refusing(x) \cup {p} /\ p \notin Refusing(x)
        BY <1>1, <1>9, <2>3 DEF Refusing, m
      <3>2. Cardinality(Refusing(x)') = Cardinality(Refusing(x)) + 1
        BY <3>1, RefusingFinite, FS_AddElement
      <3>3. refused'[x] = refused[x] + 1
        <4>1. refused' = [refused EXCEPT ![m] = @ + 1]
          <5>1. sent' # [sent EXCEPT ![p] = TRUE]
            BY <1>0, <2>3 DEF Flags
          <5> QED
            BY <1>3, <5>1
        <4> QED
          BY <1>0, <1>2, <2>3, <4>1 DEF MailValues
      <3> QED
        BY <2>1, <3>2, <3>3
    <2> QED
      BY <2>2, <2>3
  <1>12. MailOutcomes'
    <2> SUFFICES ASSUME NEW x \in Mails
                 PROVE  /\ mail[x] = "sent" => received'[x] > 0
                        /\ mail[x] = "dead" => refused'[x] >= MaxAttempts
      BY <1>1 DEF MailOutcomes
    <2>1. /\ received'[x] >= received[x] /\ refused'[x] >= refused[x]
          /\ received[x] \in Nat /\ received'[x] \in Nat /\ refused[x] \in Nat /\ refused'[x] \in Nat
      BY <1>0, <1>6 DEF MailValues
    <2> QED
      BY <2>1, BoundsAssumption DEF IInv, MailSide, MailOutcomes
  <1>13. TakenInv'
    <2>1. sent'[p] => received'[m] = Bump(received[m]) /\ received[m] \in 0..2
      <3>1. ASSUME sent'[p] PROVE received' = [received EXCEPT ![m] = Bump(@)]
        <4>1. sent' # [sent EXCEPT ![p] = FALSE]
          BY <1>0, <3>1 DEF Flags
        <4> QED
          BY <1>3, <4>1
      <3> QED
        BY <1>0, <1>2, <3>1 DEF MailValues
    <2>2. ASSUME NEW q \in Mailers, mpc'[q] = "record", sent'[q] PROVE received'[item[q]] > 0
      <3>1. CASE q = p
        BY <2>1, <2>2, <3>1 DEF Bump, m
      <3>2. CASE q # p
        <4>1. mpc[q] = "record" /\ sent[q]
          BY <1>9, <2>2, <3>2
        <4>2. item[q] \in Mails /\ received[item[q]] > 0
          BY <4>1, BusyHasMail DEF IInv, MailSide, TakenInv
        <4> QED
          BY <1>0, <1>6, <4>2 DEF MailValues
      <3> QED
        BY <3>1, <3>2
    <2>3. ASSUME NEW x \in Mails, x \notin excused', received'[x] # 0
          PROVE  /\ received'[x] = 1
                 /\ \/ mail[x] = "sent"
                    \/ \E q \in Mailers : mpc'[q] = "record" /\ sent'[q] /\ item[q] = x
      <3>1. \/ received[x] = 0
            \/ /\ received[x] = 1
               /\ \/ mail[x] = "sent"
                  \/ \E q \in Mailers : mpc[q] = "record" /\ sent[q] /\ item[q] = x
        BY <1>6, <2>3 DEF IInv, MailSide, TakenInv
      <3>2. CASE x # m
        <4>1. received'[x] = received[x]
          BY <1>6, <3>2
        <4> QED
          BY <1>1, <1>9, <2>3, <3>1, <4>1
      <3>3. CASE x = m
        <4>1. mail[m] = "delivering" /\ \A q \in Mailers : item[q] = m => q = p
          BY <1>2, <1>6, <2>3, <3>3 DEF IInv, MailSide, LockInv, m
        <4>2. received[x] = 0
          BY <1>1, <3>1, <3>3, <4>1
        <4>3. sent'[p]
          <5>1. received' # received /\ m \notin excused'
            BY <2>3, <3>3, <4>2
          <5>2. sent' = [sent EXCEPT ![p] = TRUE]
            BY <1>3, <5>1
          <5> QED
            BY <1>0, <5>2 DEF Flags
        <4> QED
          BY <1>9, <2>1, <3>3, <4>2, <4>3 DEF Bump, m
      <3> QED
        BY <3>2, <3>3
    <2> QED
      BY <1>1, <2>2, <2>3 DEF TakenInv
  <1>14. RunSide'
    BY <1>1, RunSideStays
  <1> QED
    BY <1>8, <1>10, <1>11, <1>12, <1>13, <1>14 DEF IInv, MailSide

(***************************************************************************)
(* A mailer lets go of its mail and changes no other; what SMTP did is     *)
(* recorded, or excused.                                                   *)
(***************************************************************************)
LetsGo(p) ==
    /\ mpc[p] # "idle" /\ LeaveM(p)
    /\ UNCHANGED <<received, refused>> /\ excused \subseteq excused'
    /\ \A x \in Mails : x # item[p] => /\ mail'[x] = mail[x] /\ stale'[x] = stale[x]
                                       /\ attempts'[x] = attempts[x]
    /\ mail[item[p]] = "sent" => mail'[item[p]] = "sent"
    /\ mpc[p] = "record" /\ sent[p] => item[p] \in excused' \/ mail'[item[p]] = "sent"

(* The others keep their locks, and mail that arrived is accounted for. *)
LEMMA LetsGoInv ==
    ASSUME IInv, NEW p \in Mailers, LetsGo(p)
    PROVE  /\ LockInv' /\ TakenInv'
           /\ \A x \in Mails : Refusing(x)' = Refusing(x) \ {p}
           /\ mpc' \in [Mailers -> {"idle", "send", "hung", "record"}]
           /\ item' \in [Mailers -> Mails \cup {NoMail}]
           /\ sent' \in [Mailers -> BOOLEAN]
  <1>0. Flags /\ MailValues
    BY TypeParts DEF IInv
  <1>1. /\ mpc' = [mpc EXCEPT ![p] = "idle"] /\ item' = [item EXCEPT ![p] = NoMail]
        /\ sent' = [sent EXCEPT ![p] = FALSE]
    BY DEF LetsGo, LeaveM
  <1>2. /\ mpc' \in [Mailers -> {"idle", "send", "hung", "record"}]
        /\ item' \in [Mailers -> Mails \cup {NoMail}]
    BY <1>0, <1>1 DEF MailValues
  <1>3. sent' \in [Mailers -> BOOLEAN]
    BY <1>0, <1>1, SetFlag DEF Flags
  <1>4. /\ mpc'[p] = "idle" /\ item'[p] = NoMail
        /\ \A q \in Mailers : q # p => /\ mpc'[q] = mpc[q] /\ item'[q] = item[q]
                                       /\ sent'[q] = sent[q]
        /\ \A q \in Mailers : item[q] \in Mails \cup {NoMail}
    BY <1>0, <1>1 DEF MailValues, Flags
  <1>5. \A x \in Mails : Refusing(x)' = Refusing(x) \ {p}
    BY <1>4 DEF Refusing
  <1>6. item[p] \in Mails /\ item[p] # NoMail
    BY BusyHasMail DEF LetsGo
  <1>7. LockInv'
    <2>1. \A q \in Mailers : \/ item'[q] \in excused' \cup {NoMail}
                             \/ mail'[item'[q]] = "delivering" /\ ~stale'[item'[q]]
      <3> SUFFICES ASSUME NEW q \in Mailers, q # p, item[q] \notin excused \cup {NoMail}
                   PROVE  mail'[item[q]] = "delivering" /\ ~stale'[item[q]]
        BY <1>4 DEF LetsGo
      <3>1. item[q] \in Mails /\ item[q] # item[p]
        BY <1>4 DEF IInv, MailSide, LockInv
      <3> QED
        BY <3>1 DEF LetsGo, IInv, MailSide, LockInv
    <2>2. \A q \in Mailers : /\ mpc'[q] = "idle" <=> item'[q] = NoMail
                             /\ mpc'[q] = "hung" => item'[q] \in excused'
      BY <1>4 DEF LetsGo, IInv, MailSide, LockInv
    <2>3. \A q, r \in Mailers : item'[q] = item'[r] => q = r \/ item'[q] \in excused' \cup {NoMail}
      BY <1>4 DEF LetsGo, IInv, MailSide, LockInv
    <2> QED
      BY <2>1, <2>2, <2>3 DEF LockInv
  <1>8. TakenInv'
    <2>1. \A q \in Mailers : mpc'[q] = "record" /\ sent'[q] => received'[item'[q]] > 0
      BY <1>4 DEF LetsGo, IInv, MailSide, TakenInv
    <2>2. ASSUME NEW x \in Mails, x \notin excused', received[x] # 0
          PROVE  /\ received[x] = 1
                 /\ \/ mail'[x] = "sent"
                    \/ \E q \in Mailers : mpc'[q] = "record" /\ sent'[q] /\ item'[q] = x
      <3>1. /\ received[x] = 1
            /\ \/ mail[x] = "sent"
               \/ \E q \in Mailers : mpc[q] = "record" /\ sent[q] /\ item[q] = x
        BY <2>2 DEF LetsGo, IInv, MailSide, TakenInv
      <3>2. CASE mail[x] = "sent"
        BY <3>1, <3>2 DEF LetsGo
      <3>3. ASSUME NEW q \in Mailers, mpc[q] = "record", sent[q], item[q] = x
            PROVE  mail'[x] = "sent" \/ (mpc'[q] = "record" /\ sent'[q] /\ item'[q] = x)
        <4>1. CASE q = p
          BY <2>2, <3>3, <4>1 DEF LetsGo
        <4>2. CASE q # p
          BY <1>4, <3>3, <4>2
        <4> QED
          BY <4>1, <4>2
      <3> QED
        BY <3>1, <3>2, <3>3
    <2> QED
      BY <2>1, <2>2 DEF LetsGo, TakenInv
  <1> QED
    BY <1>2, <1>3, <1>5, <1>7, <1>8

(* A mailer that dies has its mail excused. *)
LEMMA MailerCrashesIInv ==
    ASSUME IInv, NEW p \in Mailers, MailerCrashes(p)
    PROVE  IInv'
  <1> USE DEF schedule, runs, outbox, runners
  <1>0. Flags /\ RunValues /\ MailValues /\ faults \in 0..MaxFaults
    BY TypeParts DEF IInv
  <1>1. /\ UNCHANGED <<there, now, next, run, tries, runStale, active, mail, attempts, stale,
                       rpc, slot, aim, left, ok, received, refused, owed>>
        /\ mpc[p] # "idle" /\ LeaveM(p) /\ excused' = excused \cup {item[p]} /\ Fault
    BY DEF MailerCrashes
  <1>2. LetsGo(p)
    BY <1>1 DEF LetsGo
  <1>3. item[p] \in Mails
    BY <1>1, BusyHasMail
  <1>4. faults' \in 0..MaxFaults
    BY <1>0, <1>1, BoundsAssumption DEF Fault
  <1>5. Flags'
    BY <1>0, <1>1, <1>2, LetsGoInv DEF Flags
  <1>6. RunValues' /\ MailValues'
    BY <1>0, <1>1, <1>2, <1>3, LetsGoInv DEF RunValues, MailValues
  <1>7. TypeOK'
    BY <1>4, <1>5, <1>6, TypePartsAfter
  <1>8. CountInv'
    <2> SUFFICES ASSUME NEW x \in Mails
                 PROVE  attempts[x] + Cardinality(Refusing(x)') <= refused[x]
      BY <1>1 DEF IInv, MailSide, CountInv
    <2>1. attempts[x] + Cardinality(Refusing(x)) <= refused[x]
      BY DEF IInv, MailSide, CountInv
    <2>2. /\ Cardinality(Refusing(x)') <= Cardinality(Refusing(x))
      <3>1. Refusing(x)' \subseteq Refusing(x)
        BY <1>2, LetsGoInv
      <3> QED
        BY <3>1, RefusingFinite, FS_Subset
    <2>3. /\ attempts[x] \in Nat /\ refused[x] \in Nat
          /\ Cardinality(Refusing(x)) \in Nat /\ Cardinality(Refusing(x)') \in Nat
      BY <1>0, RefusingFinite, RefusingFiniteAfter DEF MailValues
    <2> QED
      BY <2>1, <2>2, <2>3
  <1>9. MailOutcomes'
    BY <1>1 DEF IInv, MailSide, MailOutcomes
  <1>10. RunSide'
    BY <1>1, RunSideStays
  <1> QED
    BY <1>2, <1>7, <1>8, <1>9, <1>10, LetsGoInv DEF IInv, MailSide

(* A session that hangs keeps its mail, and the mail is excused. *)
LEMMA SendHangsIInv ==
    ASSUME IInv, NEW p \in Mailers, SendHangs(p)
    PROVE  IInv'
  <1> USE DEF schedule, runs, outbox, runners
  <1>0. Flags /\ RunValues /\ MailValues /\ faults \in 0..MaxFaults
    BY TypeParts DEF IInv
  <1>1. /\ UNCHANGED <<there, now, next, run, tries, runStale, active, mail, attempts, stale,
                       rpc, slot, aim, left, ok, item, sent, received, refused, owed>>
        /\ mpc[p] = "send" /\ mpc' = [mpc EXCEPT ![p] = "hung"]
        /\ excused' = excused \cup {item[p]} /\ Fault
    BY DEF SendHangs
  <1>2. item[p] \in Mails
    BY <1>1, BusyHasMail
  <1>3. faults' \in 0..MaxFaults
    BY <1>0, <1>1, BoundsAssumption DEF Fault
  <1>4. Flags'
    BY <1>0, <1>1 DEF Flags
  <1>5. RunValues' /\ MailValues'
    BY <1>0, <1>1, <1>2 DEF RunValues, MailValues
  <1>6. TypeOK'
    BY <1>3, <1>4, <1>5, TypePartsAfter
  <1>7. mpc'[p] = "hung" /\ \A q \in Mailers : q # p => mpc'[q] = mpc[q]
    BY <1>0, <1>1 DEF MailValues
  <1>8. \A x \in Mails : Refusing(x)' = Refusing(x)
    BY <1>1, <1>7 DEF Refusing
  <1>9. CountInv' /\ MailOutcomes'
    BY <1>1, <1>8 DEF IInv, MailSide, CountInv, MailOutcomes
  <1>10. LockInv'
    BY <1>1, <1>7 DEF IInv, MailSide, LockInv
  <1>11. TakenInv'
    <2>1. \A q \in Mailers : mpc'[q] = "record" <=> mpc[q] = "record"
      BY <1>1, <1>7
    <2> QED
      BY <1>1, <2>1 DEF IInv, MailSide, TakenInv
  <1>12. RunSide'
    BY <1>1, RunSideStays
  <1> QED
    BY <1>6, <1>9, <1>10, <1>11, <1>12 DEF IInv, MailSide

(* What is recorded as sent SMTP has taken. *)
LEMMA CompleteSentIInv ==
    ASSUME IInv, NEW p \in Mailers, CompleteSent(p)
    PROVE  IInv'
  <1> USE DEF schedule, runs, runners, history
  <1> DEFINE m == item[p]
  <1>0. Flags /\ RunValues /\ MailValues /\ faults \in 0..MaxFaults
    BY TypeParts DEF IInv
  <1>1. /\ UNCHANGED <<there, now, next, run, tries, runStale, active, attempts,
                       rpc, slot, aim, left, ok, received, refused, excused, owed, faults>>
        /\ mpc[p] = "record" /\ sent[p] /\ LeaveM(p) /\ stale' = [stale EXCEPT ![m] = FALSE]
        /\ mail' = IF mail[m] = "delivering" THEN [mail EXCEPT ![m] = "sent"] ELSE mail
    BY DEF CompleteSent
  <1>2. m \in Mails /\ m # NoMail
    BY <1>1, BusyHasMail
  <1>3. /\ mail' \in [Mails -> {"none", "pending", "delivering", "sent", "dead"}]
        /\ \A x \in Mails : x # m => mail'[x] = mail[x]
        /\ mail'[m] = IF mail[m] = "delivering" THEN "sent" ELSE mail[m]
    BY <1>0, <1>1, <1>2 DEF MailValues
  <1>4. /\ stale' \in [Mails -> BOOLEAN] /\ \A x \in Mails : x # m => stale'[x] = stale[x]
    BY <1>0, <1>1, <1>2, SetFlag DEF Flags
  <1>5. m \in excused \/ mail[m] = "delivering"
    BY <1>2 DEF IInv, MailSide, LockInv
  <1> HIDE DEF m
  <1>6. LetsGo(p)
    BY <1>1, <1>3, <1>4, <1>5 DEF LetsGo, m
  <1>7. Flags'
    BY <1>0, <1>1, <1>4, <1>6, LetsGoInv DEF Flags
  <1>8. RunValues' /\ MailValues'
    BY <1>0, <1>1, <1>3, <1>6, LetsGoInv DEF RunValues, MailValues
  <1>9. TypeOK'
    BY <1>0, <1>1, <1>7, <1>8, TypePartsAfter
  <1>10. CountInv'
    <2> SUFFICES ASSUME NEW x \in Mails
                 PROVE  /\ mail'[x] # "dead" => attempts[x] < MaxAttempts
                        /\ mail'[x] = "dead" => attempts[x] = MaxAttempts
                        /\ attempts[x] + Cardinality(Refusing(x)') <= refused[x]
      BY <1>1 DEF CountInv
    <2>1. Refusing(x)' = Refusing(x)
      <3>1. p \notin Refusing(x)
        BY <1>1 DEF Refusing
      <3> QED
        BY <1>6, <3>1, LetsGoInv
    <2>2. mail'[x] = "dead" <=> mail[x] = "dead"
      BY <1>3
    <2> QED
      BY <2>1, <2>2 DEF IInv, MailSide, CountInv
  <1>11. MailOutcomes'
    <2>1. received[m] > 0
      BY <1>1 DEF IInv, MailSide, TakenInv, m
    <2> QED
      BY <1>1, <1>3, <2>1 DEF IInv, MailSide, MailOutcomes
  <1>12. RunSide'
    <2>1. \A x \in Mails : mail[x] # "none" => mail'[x] # "none"
      BY <1>3
    <2> QED
      BY <1>1, <2>1, RunSideStays
  <1> QED
    BY <1>6, <1>9, <1>10, <1>11, <1>12, LetsGoInv DEF IInv, MailSide

(* A failure is recorded once for each refusal, however late. *)
LEMMA CompleteFailedIInv ==
    ASSUME IInv, NEW p \in Mailers, CompleteFailed(p)
    PROVE  IInv'
  <1> USE DEF schedule, runs, runners, history
  <1> DEFINE m == item[p]
  <1>0. Flags /\ RunValues /\ MailValues /\ faults \in 0..MaxFaults
    BY TypeParts DEF IInv
  <1>1. /\ UNCHANGED <<there, now, next, run, tries, runStale, active,
                       rpc, slot, aim, left, ok, received, refused, excused, owed, faults>>
        /\ mpc[p] = "record" /\ ~sent[p] /\ LeaveM(p)
        /\ \/ UNCHANGED <<mail, attempts, stale>>
           \/ mail[m] = "delivering" /\ Failed(p)
    BY DEF CompleteFailed, outbox
  <1>2. m \in Mails /\ m # NoMail
    BY <1>1, BusyHasMail
  <1>3. stale' \in [Mails -> BOOLEAN] /\ \A x \in Mails : x # m => stale'[x] = stale[x]
    <2>1. stale' = stale \/ stale' = [stale EXCEPT ![m] = FALSE]
      BY <1>1 DEF Failed
    <2> QED
      BY <1>0, <1>2, <2>1, SetFlag DEF Flags
  <1>4. \/ UNCHANGED <<mail, attempts>>
        \/ /\ mail[m] = "delivering" /\ attempts' = [attempts EXCEPT ![m] = @ + 1]
           /\ mail' = [mail EXCEPT ![m] = IF attempts[m] + 1 >= MaxAttempts THEN "dead" ELSE "pending"]
    BY <1>1 DEF Failed
  <1>5. /\ attempts[m] \in 0..MaxAttempts
        /\ mail[m] # "dead" => attempts[m] < MaxAttempts
        /\ mail[m] = "dead" => attempts[m] = MaxAttempts
    BY <1>0, <1>2 DEF MailValues, IInv, MailSide, CountInv
  <1> HIDE DEF m
  <1>6. /\ mail' \in [Mails -> {"none", "pending", "delivering", "sent", "dead"}]
        /\ attempts' \in [Mails -> 0..MaxAttempts]
        /\ \A x \in Mails : x # m => mail'[x] = mail[x] /\ attempts'[x] = attempts[x]
    BY <1>0, <1>2, <1>4, <1>5, BoundsAssumption DEF MailValues
  <1>7. \/ mail'[m] = mail[m] /\ attempts'[m] = attempts[m]
        \/ /\ mail[m] = "delivering" /\ attempts'[m] = attempts[m] + 1
           /\ mail'[m] = IF attempts[m] + 1 >= MaxAttempts THEN "dead" ELSE "pending"
    BY <1>0, <1>2, <1>4 DEF MailValues
  <1>8. LetsGo(p)
    BY <1>1, <1>3, <1>6, <1>7 DEF LetsGo, m
  <1>9. Flags'
    BY <1>0, <1>1, <1>3, <1>8, LetsGoInv DEF Flags
  <1>10. RunValues' /\ MailValues'
    BY <1>0, <1>1, <1>6, <1>8, LetsGoInv DEF RunValues, MailValues
  <1>11. TypeOK'
    BY <1>0, <1>1, <1>9, <1>10, TypePartsAfter
  <1>12. CountInv'
    <2> SUFFICES ASSUME NEW x \in Mails
                 PROVE  /\ mail'[x] # "dead" => attempts'[x] < MaxAttempts
                        /\ mail'[x] = "dead" => attempts'[x] = MaxAttempts
                        /\ attempts'[x] + Cardinality(Refusing(x)') <= refused[x]
      BY <1>1 DEF CountInv
    <2>0. /\ mail[x] # "dead" => attempts[x] < MaxAttempts
          /\ mail[x] = "dead" => attempts[x] = MaxAttempts
          /\ attempts[x] + Cardinality(Refusing(x)) <= refused[x]
          /\ attempts[x] \in Nat /\ refused[x] \in Nat /\ Cardinality(Refusing(x)) \in Nat
      BY <1>0, RefusingFinite DEF IInv, MailSide, CountInv, MailValues
    <2>1. CASE x # m
      <3>1. p \notin Refusing(x)
        BY <2>1 DEF Refusing, m
      <3>2. Refusing(x)' = Refusing(x)
        BY <1>8, <3>1, LetsGoInv
      <3> QED
        BY <1>6, <2>0, <2>1, <3>2
    <2>2. CASE x = m
      <3>1. p \in Refusing(x) /\ Refusing(x)' = Refusing(x) \ {p}
        BY <1>1, <1>8, <2>2, LetsGoInv DEF Refusing, m
      <3>2. Cardinality(Refusing(x)') = Cardinality(Refusing(x)) - 1
        BY <3>1, RefusingFinite, FS_RemoveElement
      <3>3. Cardinality(Refusing(x)') \in Nat
        BY RefusingFiniteAfter
      <3> QED
        BY <1>5, <1>7, <2>0, <2>2, <3>2, <3>3, BoundsAssumption
    <2> QED
      BY <2>1, <2>2
  <1>13. MailOutcomes'
    <2> SUFFICES ASSUME NEW x \in Mails
                 PROVE  /\ mail'[x] = "sent" => received[x] > 0
                        /\ mail'[x] = "dead" => refused[x] >= MaxAttempts
      BY <1>1 DEF MailOutcomes
    <2>1. mail'[x] = "sent" => mail[x] = "sent"
      BY <1>6, <1>7
    <2>2. mail'[x] = "dead" => refused[x] >= MaxAttempts
      <3>1. /\ mail'[x] = "dead" => attempts'[x] = MaxAttempts
            /\ attempts'[x] + Cardinality(Refusing(x)') <= refused[x]
        BY <1>1, <1>12 DEF CountInv
      <3>2. Cardinality(Refusing(x)') \in Nat /\ refused[x] \in Nat /\ attempts'[x] \in Nat
        BY <1>0, <1>6, RefusingFiniteAfter DEF MailValues
      <3> QED
        BY <3>1, <3>2, BoundsAssumption
    <2> QED
      BY <2>1, <2>2 DEF IInv, MailSide, MailOutcomes
  <1>14. RunSide'
    <2>1. \A x \in Mails : mail[x] # "none" => mail'[x] # "none"
      BY <1>6, <1>7
    <2> QED
      BY <1>1, <2>1, RunSideStays
  <1> QED
    BY <1>8, <1>11, <1>12, <1>13, <1>14, LetsGoInv DEF IInv, MailSide

(* Every step of Mail preserves the invariant. *)
LEMMA NextIInv == IInv /\ [Next]_vars => IInv'
  <1> SUFFICES ASSUME IInv, [Next]_vars PROVE IInv'
    OBVIOUS
  <1>1. ASSUME UNCHANGED vars PROVE IInv'
    <2>1. UNCHANGED <<there, now, next, run, tries, runStale, active, mail, attempts, stale,
                      rpc, slot, aim, left, ok, mpc, item, sent, received, refused, excused, owed, faults>>
      BY <1>1 DEF vars, schedule, runs, outbox, runners, mailers, history
    <2>2. TypeOK'
      BY <2>1 DEF IInv, TypeOK
    <2> QED
      BY <2>1, <2>2, MailSideStays, RunSideStays DEF IInv
  <1>2. ASSUME \/ TimePasses \/ EnqueueDue \/ Unsubscribe \/ Save
               \/ \E u \in Leavers : Deactivate(u) \/ Reactivate(u)
        PROVE  IInv'
    BY <1>2, ScheduleIInv, LeaversAssumption
  <1>3. ASSUME NEW s \in Times, RunLapses(s) \/ RunOverruns(s) PROVE IInv'
    BY <1>3, RunLapsesIInv
  <1>4. ASSUME NEW m \in Mails, LockLapses(m) \/ SendOverruns(m) PROVE IInv'
    BY <1>4, LockTimesIInv
  <1>5. ASSUME NEW r \in Runners, Runner(r) \/ RunnerCrashes(r) PROVE IInv'
    BY <1>5, ClaimIInv, SearchIInv, RunnerGivesUpIInv, QueueIInv, FinishIInv
    DEF Runner, ClaimRun, Execute
  <1>6. ASSUME NEW r \in Runners, NEW s \in Times, ClaimPastLocked(r, s) PROVE IInv'
    BY <1>6, ClaimIInv DEF ClaimPastLocked
  <1>7. ASSUME NEW p \in Mailers,
               Mailer(p) \/ SendInDoubt(p) \/ SendHangs(p) \/ MailerCrashes(p)
        PROVE  IInv'
    BY <1>7, ClaimMailIInv, AnswerIInv, SendHangsIInv, CompleteSentIInv, CompleteFailedIInv,
       MailerCrashesIInv
    DEF Mailer
  <1> QED
    BY <1>1, <1>2, <1>3, <1>4, <1>5, <1>6, <1>7 DEF Next

(***************************************************************************)
(* The inductive invariant holds in every reachable state.                 *)
(***************************************************************************)
THEOREM IInvHolds == Spec => []IInv
  BY InitIInv, NextIInv, PTL DEF Spec

(***************************************************************************)
(* A run that succeeded has queued mail for everybody it had to reach,     *)
(* people or members of a group, but for the owner who is alone in it;     *)
(* mail recorded as sent was taken, and mail given up was refused as often *)
(* as there are attempts (execute, finish, CompleteEmailDelivery).         *)
(***************************************************************************)
THEOREM RecordedOutcomes == Spec => []OutcomesAreTrue
  <1>1. IInv => OutcomesAreTrue
    BY DEF IInv, RunSide, MailSide, MailOutcomes, OutcomesAreTrue
  <1> QED
    BY IInvHolds, <1>1, PTL

(***************************************************************************)
(* Mail of a run arrives twice only if a mailer died, was too slow or lost *)
(* SMTP's answer, however often the run is executed (execute,              *)
(* ClaimEmailDelivery).                                                    *)
(***************************************************************************)
THEOREM RepeatsAreExcused == Spec => []RepeatsHaveACause
  <1>1. IInv => RepeatsHaveACause
    BY DEF IInv, MailSide, TakenInv, RepeatsHaveACause
  <1> QED
    BY IInvHolds, <1>1, PTL
=============================================================================
