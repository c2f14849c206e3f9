------------------------------ MODULE Webhooks ------------------------------
(***************************************************************************)
(* Webhook delivery (internal/webhooks/dispatcher.go and the ledger in     *)
(* internal/store/mutations.go): every server replica runs one dispatcher  *)
(* that enrolls the actions up to the head for each active webhook, claims *)
(* batches of the ledger for two minutes and sends them one by one.        *)
(*                                                                         *)
(*   head       the last committed action (workspaces.seq; ActionLog shows *)
(*              that all rows up to it are there)                          *)
(*   hook       the state of each webhook; "off" is disabled or expired    *)
(*   start      webhooks.start_seq, read before the row is inserted        *)
(*   row        webhook_deliveries: the state of each (webhook, seq);      *)
(*              "old" is 'delivering' with a claim of two minutes or more. *)
(*              The backoff of a failed row is time that passes, so such a *)
(*              row may be claimed at once or much later                   *)
(*   attempts   webhook_deliveries.attempts, counted up to MaxAttempts     *)
(*   pc         where the pass of a dispatcher is                          *)
(*   upto       the head its pass has read                                 *)
(*   todo       the webhooks it has still to enroll                        *)
(*   target     the webhook whose batch it sends                           *)
(*   batch      the sequence numbers of the batch it has not marked yet    *)
(*                                                                         *)
(* History: what really happened at the endpoint, and what went wrong.     *)
(*   taken      how often the endpoint took the event (up to two)          *)
(*   tries      how often sending it failed (up to MaxAttempts)            *)
(*   skipped    the deliveries whose event the webhook does not ask for    *)
(*   overrun    the deliveries whose claim grew old in a dispatcher's hand *)
(*   excused    the deliveries that a lost answer, a crash or a failed     *)
(*              mark left unrecorded                                       *)
(*   faults     how many crashes, failed statements and overruns there were*)
(***************************************************************************)
EXTENDS Naturals, FiniteSets, FiniteSetsExt

CONSTANTS Hooks, Dispatchers, NoHook, MaxSeq, Batch, MaxAttempts, MaxFaults

ASSUME NoHookAssumption == NoHook \notin Hooks
ASSUME BatchAssumption == Batch \in Nat \ {0}
ASSUME AttemptsAssumption == MaxAttempts \in Nat \ {0}
ASSUME BoundAssumption == MaxSeq \in Nat /\ MaxFaults \in Nat

VARIABLES head, hook, start, row, attempts, pc, upto, todo, target, batch,
          taken, tries, skipped, overrun, excused, faults

ledger == <<hook, start, row, attempts>>
passes == <<pc, upto, todo, target, batch>>
history == <<taken, tries, skipped, overrun, excused, faults>>
vars == <<head, ledger, passes, history>>

Seqs == 1..MaxSeq
Deliveries == Hooks \X Seqs
Final == {"delivered", "abandoned"}

Init ==
    /\ head = 0
    /\ hook = [h \in Hooks |-> "none"]
    /\ start = [h \in Hooks |-> 0]
    /\ row = [p \in Deliveries |-> "none"]
    /\ attempts = [p \in Deliveries |-> 0]
    /\ pc = [d \in Dispatchers |-> "idle"]
    /\ upto = [d \in Dispatchers |-> 0]
    /\ todo = [d \in Dispatchers |-> {}]
    /\ target = [d \in Dispatchers |-> NoHook]
    /\ batch = [d \in Dispatchers |-> {}]
    /\ taken = [p \in Deliveries |-> 0]
    /\ tries = [p \in Deliveries |-> 0]
    /\ skipped = {} /\ overrun = {} /\ excused = {}
    /\ faults = 0

(***************************************************************************)
(* The workspace and its webhooks.                                         *)
(***************************************************************************)
Commit ==
    /\ head < MaxSeq
    /\ head' = head + 1
    /\ UNCHANGED <<ledger, passes, history>>

(* Registering reads the head and inserts the webhook in two statements.   *)
ReadStart(h) ==
    /\ hook[h] = "none"
    /\ hook' = [hook EXCEPT ![h] = "creating"]
    /\ start' = [start EXCEPT ![h] = head]
    /\ UNCHANGED <<head, row, attempts, passes, history>>

Register(h) ==
    /\ hook[h] = "creating"
    /\ \E state \in {"active", "off"} : hook' = [hook EXCEPT ![h] = state]
    /\ UNCHANGED <<head, start, row, attempts, passes, history>>

(* Disabled by an administrator, or past its expires_at. *)
TurnOff(h) ==
    /\ hook[h] = "active"
    /\ hook' = [hook EXCEPT ![h] = "off"]
    /\ UNCHANGED <<head, start, row, attempts, passes, history>>

(* Enabled again, or refreshed by its app: start stays where it was. *)
TurnOn(h) ==
    /\ hook[h] = "off"
    /\ hook' = [hook EXCEPT ![h] = "active"]
    /\ UNCHANGED <<head, start, row, attempts, passes, history>>

(* The ledger keeps the rows of a deleted webhook. *)
DeleteWebhook(h) ==
    /\ hook[h] \in {"active", "off"}
    /\ hook' = [hook EXCEPT ![h] = "deleted"]
    /\ UNCHANGED <<head, start, row, attempts, passes, history>>

(***************************************************************************)
(* A pass: read the head, enroll the new actions of each webhook that is   *)
(* active in the list it has read, claim batches until there are none.     *)
(***************************************************************************)
ReadHead(d) ==
    /\ pc[d] = "idle"
    /\ pc' = [pc EXCEPT ![d] = "list"]
    /\ upto' = [upto EXCEPT ![d] = head]
    /\ UNCHANGED <<head, ledger, todo, target, batch, history>>

ListWebhooks(d) ==
    /\ pc[d] = "list"
    /\ pc' = [pc EXCEPT ![d] = "enroll"]
    /\ todo' = [todo EXCEPT ![d] = {h \in Hooks : hook[h] = "active"}]
    /\ UNCHANGED <<head, ledger, upto, target, batch, history>>

(* Mutation: an enrollment that starts over on rows it finds. *)
EnrollAgain(d) ==
    /\ pc[d] = "enroll"
    /\ \E h \in todo[d] :
          /\ todo' = [todo EXCEPT ![d] = @ \ {h}]
          /\ row' = [p \in Deliveries |->
                        IF p[1] = h /\ p[2] > start[h] /\ p[2] <= upto[d]
                        THEN "pending" ELSE row[p]]
    /\ UNCHANGED <<head, hook, start, attempts, pc, upto, target, batch, history>>

Enroll(d) ==
    /\ pc[d] = "enroll"
    /\ \E h \in todo[d] :
          /\ todo' = [todo EXCEPT ![d] = @ \ {h}]
          /\ row' = [p \in Deliveries |->
                        IF p[1] = h /\ p[2] > start[h] /\ p[2] <= upto[d] /\ row[p] = "none"
                        THEN "pending" ELSE row[p]]
    /\ UNCHANGED <<head, hook, start, attempts, pc, upto, target, batch, history>>

Enrolled(d) ==
    /\ pc[d] = "enroll" /\ todo[d] = {}
    /\ pc' = [pc EXCEPT ![d] = "claim"]
    /\ upto' = [upto EXCEPT ![d] = 0]
    /\ UNCHANGED <<head, ledger, todo, target, batch, history>>

(* The rows a claim may take, and the first Batch of them. *)
Due(h) == {s \in Seqs : row[<<h, s>>] \in {"pending", "failed", "old"}}
FirstOf(S) == {s \in S : Cardinality({x \in S : x < s}) < Batch}

Take(d, h, S, state) ==
    /\ batch' = [batch EXCEPT ![d] = S]
    /\ target' = [target EXCEPT ![d] = h]
    /\ row' = [p \in Deliveries |-> IF p[1] = h /\ p[2] \in S THEN state ELSE row[p]]
    /\ pc' = [pc EXCEPT ![d] = "send"]
    /\ UNCHANGED <<head, hook, start, attempts, upto, todo, history>>

(* Mutation: the claim does not mark its rows. *)
ClaimUnmarked(d) ==
    /\ pc[d] = "claim"
    /\ \E h \in Hooks :
          /\ hook[h] = "active" /\ Due(h) # {}
          /\ Take(d, h, FirstOf(Due(h)), "pending")

(* Mutation: a claim never expires. *)
ClaimForEver(d) ==
    /\ pc[d] = "claim"
    /\ \E h \in Hooks :
          LET due == {s \in Due(h) : row[<<h, s>>] # "old"} IN
          /\ hook[h] = "active" /\ due # {}
          /\ Take(d, h, FirstOf(due), "delivering")

(* One short transaction; with SKIP LOCKED a concurrent claim takes        *)
(* another webhook, so that any active one with due rows may be the next.  *)
Claim(d) ==
    /\ pc[d] = "claim"
    /\ \E h \in Hooks :
          /\ hook[h] = "active" /\ Due(h) # {}
          /\ Take(d, h, FirstOf(Due(h)), "delivering")

NothingDue(d) ==
    /\ pc[d] = "claim"
    /\ \A h \in Hooks : hook[h] = "active" => Due(h) = {}
    /\ pc' = [pc EXCEPT ![d] = "idle"]
    /\ UNCHANGED <<head, ledger, upto, todo, target, batch, history>>

Held(d) == {<<target[d], s>> : s \in batch[d]}

(* Two minutes pass: after a crash, or while the claim is still worked on. *)
ClaimGrowsOld(p) ==
    /\ row[p] = "delivering"
    /\ row' = [row EXCEPT ![p] = "old"]
    /\ \/ /\ \A d \in Dispatchers : p \notin Held(d)
          /\ UNCHANGED <<overrun, faults>>
       \/ /\ \E d \in Dispatchers : p \in Held(d)
          /\ faults < MaxFaults
          /\ faults' = faults + 1
          /\ overrun' = overrun \cup {p}
    /\ UNCHANGED <<head, hook, start, attempts, passes, taken, tries, skipped, excused>>

(***************************************************************************)
(* deliver: the first of the batch is sent, then marked.                   *)
(***************************************************************************)
Current(d) == <<target[d], Min(batch[d])>>
CapAt(n, cap) == IF n > cap THEN cap ELSE n

(* No event, or the filters (asked of the tables as they are now) refuse. *)
Skip(d) ==
    /\ pc[d] = "send"
    /\ skipped' = skipped \cup {Current(d)}
    /\ pc' = [pc EXCEPT ![d] = "succeeded"]
    /\ UNCHANGED <<head, ledger, upto, todo, target, batch, taken, tries, overrun, excused, faults>>

Post(d) ==
    /\ pc[d] = "send"
    /\ taken' = [taken EXCEPT ![Current(d)] = CapAt(@ + 1, 2)]
    /\ pc' = [pc EXCEPT ![d] = "succeeded"]
    /\ UNCHANGED <<head, ledger, upto, todo, target, batch, tries, skipped, overrun, excused, faults>>

(* The endpoint refuses or cannot be reached, a filter cannot be evaluated,*)
(* or the endpoint takes the event and its answer is lost.                 *)
PostFails(d) ==
    /\ pc[d] = "send"
    /\ tries' = [tries EXCEPT ![Current(d)] = CapAt(@ + 1, MaxAttempts)]
    /\ \/ UNCHANGED <<taken, excused>>
       \/ /\ taken' = [taken EXCEPT ![Current(d)] = CapAt(@ + 1, 2)]
          /\ excused' = excused \cup {Current(d)}
    /\ pc' = [pc EXCEPT ![d] = "failed"]
    /\ UNCHANGED <<head, ledger, upto, todo, target, batch, skipped, overrun, faults>>

(* What is left of the batch, and the next claim once nothing is. *)
NextOf(d, rest) ==
    /\ batch' = [batch EXCEPT ![d] = rest]
    /\ target' = [target EXCEPT ![d] = IF rest = {} THEN NoHook ELSE @]
    /\ pc' = [pc EXCEPT ![d] = IF rest = {} THEN "claim" ELSE "send"]

(* Mutation: one result is recorded for the whole batch. *)
MarkBatchDelivered(d) ==
    /\ pc[d] = "succeeded"
    /\ row' = [p \in Deliveries |-> IF p[1] = target[d] /\ p[2] \in batch[d] THEN "delivered" ELSE row[p]]
    /\ NextOf(d, {})
    /\ UNCHANGED <<head, hook, start, attempts, upto, todo, history>>

(* The row is found by webhook and sequence number alone. *)
MarkDelivered(d) ==
    /\ pc[d] = "succeeded"
    /\ row' = [row EXCEPT ![Current(d)] = "delivered"]
    /\ attempts' = [attempts EXCEPT ![Current(d)] = CapAt(@ + 1, MaxAttempts)]
    /\ NextOf(d, batch[d] \ {Min(batch[d])})
    /\ UNCHANGED <<head, hook, start, upto, todo, history>>

MarkFailed(d) ==
    /\ pc[d] = "failed"
    /\ row' = [row EXCEPT ![Current(d)] =
                  IF attempts[Current(d)] + 1 >= MaxAttempts THEN "abandoned" ELSE "failed"]
    /\ attempts' = [attempts EXCEPT ![Current(d)] = CapAt(@ + 1, MaxAttempts)]
    /\ NextOf(d, batch[d] \ {Min(batch[d])})
    /\ UNCHANGED <<head, hook, start, upto, todo, history>>

(* The result cannot be recorded: it is logged and the batch goes on. *)
MarkIsLost(d) ==
    /\ pc[d] \in {"succeeded", "failed"} /\ faults < MaxFaults
    /\ faults' = faults + 1
    /\ excused' = excused \cup {Current(d)}
    /\ NextOf(d, batch[d] \ {Min(batch[d])})
    /\ UNCHANGED <<head, ledger, upto, todo, taken, tries, skipped, overrun>>

(* The process dies, or a statement of its pass fails. *)
Crash(d) ==
    /\ pc[d] # "idle" /\ faults < MaxFaults
    /\ faults' = faults + 1
    /\ excused' = IF pc[d] \in {"succeeded", "failed"} THEN excused \cup {Current(d)} ELSE excused
    /\ pc' = [pc EXCEPT ![d] = "idle"]
    /\ upto' = [upto EXCEPT ![d] = 0]
    /\ todo' = [todo EXCEPT ![d] = {}]
    /\ target' = [target EXCEPT ![d] = NoHook]
    /\ batch' = [batch EXCEPT ![d] = {}]
    /\ UNCHANGED <<head, ledger, taken, tries, skipped, overrun>>

Pass(d) ==
    \/ ReadHead(d) \/ ListWebhooks(d) \/ Enroll(d) \/ Enrolled(d)
    \/ Claim(d) \/ NothingDue(d)
    \/ Skip(d) \/ Post(d) \/ PostFails(d)
    \/ MarkDelivered(d) \/ MarkFailed(d)

Next ==
    \/ Commit
    \/ \E h \in Hooks :
          ReadStart(h) \/ Register(h) \/ TurnOff(h) \/ TurnOn(h) \/ DeleteWebhook(h)
    \/ \E p \in Deliveries : ClaimGrowsOld(p)
    \/ \E d \in Dispatchers : Pass(d) \/ MarkIsLost(d) \/ Crash(d)

Spec == Init /\ [][Next]_vars

(***************************************************************************)
(* The ticker of a dispatcher starts pass after pass and a request is      *)
(* answered or times out (http.Client.Timeout); time passes for claims.    *)
(* Nothing makes an endpoint accept.                                       *)
(***************************************************************************)
Fairness ==
    /\ \A d \in Dispatchers : WF_vars(Pass(d))
    /\ \A p \in Deliveries : WF_vars(ClaimGrowsOld(p))

FairSpec == Spec /\ Fairness

-----------------------------------------------------------------------------
(***************************************************************************)
(* Types, and when a dispatcher has a batch.                               *)
(***************************************************************************)
TypeOK ==
    /\ head \in 0..MaxSeq
    /\ hook \in [Hooks -> {"none", "creating", "active", "off", "deleted"}]
    /\ start \in [Hooks -> 0..head]
    /\ row \in [Deliveries -> {"none", "pending", "delivering", "old", "failed"} \cup Final]
    /\ \A p \in Deliveries : row[p] # "none" => start[p[1]] < p[2] /\ p[2] <= head
    /\ attempts \in [Deliveries -> 0..MaxAttempts]
    /\ pc \in [Dispatchers -> {"idle", "list", "enroll", "claim", "send", "succeeded", "failed"}]
    /\ upto \in [Dispatchers -> 0..head]
    /\ todo \in [Dispatchers -> SUBSET Hooks]
    /\ target \in [Dispatchers -> Hooks \cup {NoHook}]
    /\ batch \in [Dispatchers -> SUBSET (1..head)]
    /\ \A d \in Dispatchers : pc[d] \in {"send", "succeeded", "failed"} <=> batch[d] # {}
    /\ taken \in [Deliveries -> 0..2] /\ tries \in [Deliveries -> 0..MaxAttempts]
    /\ skipped \subseteq Deliveries /\ overrun \subseteq Deliveries /\ excused \subseteq Deliveries
    /\ faults \in 0..MaxFaults

(* Two passes hold no delivery in common unless its claim was overrun.     *)
PromptAttemptsAreExclusive ==
    \A d, e \in Dispatchers : d # e => Held(d) \cap Held(e) \subseteq overrun

(***************************************************************************)
(* dispatcher.go:2: "FOR UPDATE SKIP LOCKED claims make each delivery      *)
(* attempt exclusive across replicas". That is so while no claim grows old *)
(* in its owner's hand (and every variable keeps its type).                *)
(***************************************************************************)
ClaimInv == TypeOK /\ PromptAttemptsAreExclusive

(***************************************************************************)
(* A delivery is recorded as delivered only if the endpoint took it or the *)
(* webhook does not ask for it: not even a claim that was overrun or a     *)
(* failure recorded late loses an event silently. It is given up only when *)
(* sending it has failed MaxAttempts times: neither a crash nor a claim    *)
(* that expires uses up an attempt (MarkWebhookDelivery,                   *)
(* maxWebhookAttempts; overrun claims mark rows that were settled).        *)
(***************************************************************************)
OutcomesAreTrue ==
    \A p \in Deliveries :
        /\ row[p] = "delivered" => taken[p] > 0 \/ p \in skipped
        /\ row[p] = "abandoned" => tries[p] >= MaxAttempts \/ p \in overrun

(***************************************************************************)
(* An event reaches an endpoint twice only after a lost answer, a result   *)
(* that was not recorded, or a claim that grew old in its owner's hand     *)
(* (ClaimPendingWebhookBatch, MarkWebhookDelivery).                        *)
(***************************************************************************)
RepeatsHaveACause ==
    \A p \in Deliveries : taken[p] > 1 => p \in excused \cup overrun

(***************************************************************************)
(* Every action committed after a webhook was registered is delivered,     *)
(* found unwanted or abandoned as long as the webhook is active: none is   *)
(* missed between the watermark and the first pass, or behind a batch.     *)
(***************************************************************************)
EveryEventIsSettled ==
    \A p \in Deliveries :
        (hook[p[1]] = "active" /\ start[p[1]] < p[2] /\ p[2] <= head)
            ~> (row[p] \in Final \/ hook[p[1]] # "active")

(***************************************************************************)
(* dispatcher.go:2-4: claims "make each delivery attempt exclusive across  *)
(* replicas", however long a batch takes.                                  *)
(***************************************************************************)
AttemptsAreExclusive ==
    \A d, e \in Dispatchers : d # e => Held(d) \cap Held(e) = {}
=============================================================================
