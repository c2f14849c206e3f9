---------------------- MODULE WebhooksAndWikiLiveProofs ----------------------
(***************************************************************************)
(* Proofs about Webhooks, for any webhooks, dispatchers, batch size, limit *)
(* of attempts and bounds, and about WikiLive, for any editors, characters,*)
(* texts, number of kept changes and bounds.                               *)
(*                                                                         *)
(* Webhooks: claims that are in time are exclusive, recorded outcomes are  *)
(* true, and repeated deliveries have a cause.                             *)
(* What a dispatcher holds is marked 'delivering' unless its claim was     *)
(* overrun (HeldInv), so that nobody else claims it and what is settled is *)
(* held by nobody.  From there the result a dispatcher is about to record  *)
(* is the one the endpoint gave (ResultInv), no more attempts are counted  *)
(* than have failed (CountInv), and an event that was taken is recorded,   *)
(* or its dispatcher is about to (TakenInv).                               *)
(*                                                                         *)
(* WikiLive: editors can be brought up to date by the changes that were    *)
(* kept, nothing sent from the latest revision is refused, carets stay in  *)
(* the text.  What an editor has synced is the document as it was at a     *)
(* revision (Holds), and a change under way was made from such a text      *)
(* (CallOK); one more change done to the document is one more change kept, *)
(* so that both stay so (LiveIInv).                                        *)
(*                                                                         *)
(* And accepting a change takes out only what was deleted or replaced: of  *)
(* the text it is measured against, what an editor shows or has sent lacks *)
(* no character but one that somebody deleted, or that an editor took for  *)
(* deleted because it opened without it or could not show it (CoverInv).   *)
(* This rests on a count of the places where a text has a character: a     *)
(* change rebased over another keeps what it kept                          *)
(* (RebaseKeeps), so it does over a row of changes (CarriedKeeps), and a   *)
(* merge lacks only what the own text lacked (MergeLacksOnly).             *)
(***************************************************************************)
EXTENDS Webhooks, WikiLive, FiniteSetTheorems, FunctionTheorems, SequenceTheorems, WellFoundedInduction, TLAPS

Busy == {"send", "succeeded", "failed"}

(* A webhook that is not there yet has no rows and no enrollment, and a row *)
(* that was claimed is there.                                              *)
HookInv ==
    /\ \A p \in Deliveries : hook[p[1]] = "none" => row[p] = "none"
    /\ \A d \in Dispatchers : \A h \in todo[d] : hook[h] # "none"
    /\ \A p \in overrun : row[p] # "none"

HeldInv ==
    \A d \in Dispatchers :
        /\ batch[d] # {} => target[d] \in Hooks
        /\ \A p \in Held(d) : p \in overrun \/ row[p] = "delivering"

ResultInv ==
    \A d \in Dispatchers :
        /\ pc[d] = "succeeded" => taken[Current(d)] > 0 \/ Current(d) \in skipped
        /\ pc[d] = "failed" => \/ Current(d) \in overrun
                               \/ attempts[Current(d)] < tries[Current(d)]
                               \/ tries[Current(d)] = MaxAttempts

CountInv ==
    \A p \in Deliveries : p \in overrun \/ row[p] = "delivered" \/ attempts[p] <= tries[p]

TakenInv ==
    \A p \in Deliveries :
        \/ p \in excused \cup overrun
        \/ taken[p] = 0
        \/ /\ taken[p] = 1
           /\ \/ row[p] = "delivered"
              \/ \E d \in Dispatchers : pc[d] = "succeeded" /\ p = Current(d)

IInv ==
    /\ ClaimInv /\ OutcomesAreTrue
    /\ HookInv /\ HeldInv /\ ResultInv /\ CountInv /\ TakenInv
-----------------------------------------------------------------------------

(* A set of naturals that is not empty has a smallest element. *)
LEMMA SmallestOf ==
    ASSUME NEW S \in SUBSET Nat, S # {}
    PROVE  \E x \in S : \A y \in S : x <= y
  <1> DEFINE Less == {ss \in Nat \X Nat : ss[1] < ss[2]}
  <1>1. IsWellFoundedOn(Less, Nat)
    BY NatLessThanWellFounded, Zenon DEF OpToRel
  <1>2. \E x \in S : \A y \in S : ~(<<y, x>> \in Less)
    <2> HIDE DEF Less
    <2> QED
      BY <1>1, WFMin, Zenon
  <1>3. \A x, y \in S : ~(<<y, x>> \in Less) => x <= y
    OBVIOUS
  <1> QED
    BY <1>2, <1>3

(* Min finds it. *)
LEMMA MinOf ==
    ASSUME NEW S \in SUBSET Nat, S # {}
    PROVE  Min(S) \in S /\ \A y \in S : Min(S) <= y
  <1>1. \E x \in S : \A y \in S : x <= y
    BY SmallestOf
  <1> QED
    BY <1>1 DEF Min

(* A claim takes some of what is due, and something if anything is. *)
LEMMA FirstOfDue ==
    ASSUME NEW S \in SUBSET Seqs
    PROVE  FirstOf(S) \subseteq S /\ (S # {} => FirstOf(S) # {})
  <1>1. FirstOf(S) \subseteq S
    BY DEF FirstOf
  <1>2. ASSUME S # {} PROVE FirstOf(S) # {}
    <2>1. S \in SUBSET Nat
      BY BoundAssumption DEF Seqs
    <2>2. PICK m \in S : \A y \in S : m <= y
      BY <1>2, <2>1, SmallestOf
    <2>3. {x \in S : x < m} = {}
      <3>1. \A x \in S : ~(x < m)
        BY <2>1, <2>2
      <3> QED
        BY <3>1
    <2>4. Cardinality({x \in S : x < m}) < Batch
      BY <2>3, FS_EmptySet, BatchAssumption
    <2>5. m \in FirstOf(S)
      BY <2>4 DEF FirstOf
    <2> QED
      BY <2>5
  <1> QED
    BY <1>1, <1>2

(* What a busy dispatcher works on. *)
LEMMA CurrentIsHeld ==
    ASSUME IInv, NEW d \in Dispatchers, batch[d] # {}
    PROVE  /\ Current(d) \in Held(d) /\ Current(d) \in Deliveries
           /\ Min(batch[d]) \in batch[d]
           /\ Current(d) \in overrun \/ row[Current(d)] = "delivering"
           /\ \A e \in Dispatchers : e # d /\ Current(d) \in Held(e) => Current(d) \in overrun
  <1>1. /\ batch[d] \in SUBSET (1..head) /\ head \in 0..MaxSeq /\ target[d] \in Hooks
    BY DEF IInv, ClaimInv, TypeOK, HeldInv
  <1>2. Min(batch[d]) \in batch[d]
    BY <1>1, MinOf
  <1>3. Current(d) \in Held(d)
    BY <1>2 DEF Current, Held
  <1>4. Min(batch[d]) \in Seqs
    BY <1>1, <1>2, BoundAssumption DEF Seqs
  <1>5. Current(d) \in Deliveries
    BY <1>1, <1>4 DEF Current, Deliveries
  <1> QED
    BY <1>2, <1>3, <1>5 DEF IInv, ClaimInv, PromptAttemptsAreExclusive, HeldInv

(* Nothing is held that is not a delivery. *)
LEMMA HeldIsDelivery ==
    ASSUME IInv, NEW d \in Dispatchers
    PROVE  \A p \in Held(d) : p \in Deliveries
  <1> SUFFICES ASSUME NEW q \in batch[d] PROVE <<target[d], q>> \in Deliveries
    BY DEF Held
  <1>1. target[d] \in Hooks /\ q \in 1..head /\ head \in 0..MaxSeq
    BY DEF IInv, ClaimInv, TypeOK, HeldInv
  <1> QED
    BY <1>1, BoundAssumption DEF Deliveries, Seqs

(* A dispatcher that does not move keeps its batch and its current row. *)
LEMMA SameHand ==
    ASSUME NEW d \in Dispatchers, target'[d] = target[d], batch'[d] = batch[d]
    PROVE  Held(d)' = Held(d) /\ Current(d)' = Current(d)
  BY DEF Held, Current

(* The parts of the type of the state that a step may disturb. *)
LEMMA Typed ==
    IInv => /\ head \in 0..MaxSeq /\ row \in [Deliveries -> {"none", "pending", "delivering", "old", "failed"} \cup Final]
            /\ attempts \in [Deliveries -> 0..MaxAttempts]
            /\ taken \in [Deliveries -> 0..2] /\ tries \in [Deliveries -> 0..MaxAttempts]
            /\ \A d \in Dispatchers : pc[d] \in Busy <=> batch[d] # {}
  BY DEF IInv, ClaimInv, TypeOK, Busy

(* No row, no pass and no fault: the invariant holds at first. *)
LEMMA InitIInv == Init => IInv
  <1> SUFFICES ASSUME Init PROVE IInv
    OBVIOUS
  <1> USE BoundAssumption, AttemptsAssumption
  <1>1. TypeOK
    BY DEF Init, TypeOK
  <1>2. \A d \in Dispatchers : Held(d) = {} /\ batch[d] = {} /\ todo[d] = {} /\ pc[d] = "idle"
    BY DEF Init, Held
  <1>3. \A p \in Deliveries : row[p] = "none" /\ attempts[p] = 0 /\ tries[p] = 0 /\ taken[p] = 0
    BY DEF Init
  <1>4. overrun = {}
    BY DEF Init
  <1>5. PromptAttemptsAreExclusive
    BY <1>2 DEF PromptAttemptsAreExclusive
  <1>6. OutcomesAreTrue /\ HookInv /\ HeldInv /\ ResultInv /\ CountInv /\ TakenInv
    BY <1>2, <1>3, <1>4 DEF OutcomesAreTrue, HookInv, HeldInv, ResultInv, CountInv, TakenInv
  <1> QED
    BY <1>1, <1>5, <1>6 DEF IInv, ClaimInv

(***************************************************************************)
(* Steps of the workspace and its webhooks, and of a pass that holds no    *)
(* batch: no row, batch, result or history changes.                        *)
(***************************************************************************)
Quiet ==
    /\ UNCHANGED <<row, attempts, target, batch, taken, tries, skipped, overrun, excused, faults>>
    /\ \A d \in Dispatchers : pc[d] \in Busy \/ pc'[d] \in Busy => pc'[d] = pc[d]

(* They keep what is said of rows and batches. *)
LEMMA QuietIInv ==
    ASSUME IInv, Quiet, TypeOK', HookInv'
    PROVE  IInv'
  <1>1. \A d \in Dispatchers : Held(d)' = Held(d) /\ Current(d)' = Current(d)
    BY SameHand DEF Quiet
  <1>2. PromptAttemptsAreExclusive'
    BY <1>1 DEF Quiet, IInv, ClaimInv, PromptAttemptsAreExclusive
  <1>3. OutcomesAreTrue' /\ HeldInv' /\ CountInv'
    BY <1>1 DEF Quiet, IInv, OutcomesAreTrue, HeldInv, CountInv
  <1>4. ResultInv' /\ TakenInv'
    BY <1>1 DEF Quiet, Busy, IInv, ResultInv, TakenInv
  <1> QED
    BY <1>2, <1>3, <1>4 DEF IInv, ClaimInv

(* The steps of the workspace are quiet. *)
LEMMA WorkspaceIInv ==
    ASSUME IInv,
           \/ Commit
           \/ \E h \in Hooks :
                 ReadStart(h) \/ Register(h) \/ TurnOff(h) \/ TurnOn(h) \/ DeleteWebhook(h)
    PROVE  IInv'
  <1> USE BoundAssumption DEF ledger, passes, history
  <1>1. Quiet
    BY DEF Commit, ReadStart, Register, TurnOff, TurnOn, DeleteWebhook, Quiet
  <1>2. /\ head' \in 0..MaxSeq /\ head <= head' /\ head \in Nat /\ head' \in Nat
        /\ UNCHANGED <<row, attempts, passes, history>>
    BY DEF Commit, ReadStart, Register, TurnOff, TurnOn, DeleteWebhook, IInv, ClaimInv, TypeOK
  <1>3. /\ hook' \in [Hooks -> {"none", "creating", "active", "off", "deleted"}]
        /\ \A g \in Hooks : hook'[g] = "none" => hook[g] = "none"
    BY DEF Commit, ReadStart, Register, TurnOff, TurnOn, DeleteWebhook, IInv, ClaimInv, TypeOK
  <1>4. /\ start' \in [Hooks -> 0..head']
        /\ \A g \in Hooks : hook[g] # "none" => start'[g] = start[g]
    BY <1>2 DEF Commit, ReadStart, Register, TurnOff, TurnOn, DeleteWebhook, IInv, ClaimInv, TypeOK
  <1>5. HookInv'
    BY <1>2, <1>3 DEF IInv, ClaimInv, TypeOK, HookInv, Deliveries
  <1>6. TypeOK'
    <2>1. \A p \in Deliveries : row'[p] # "none" => start'[p[1]] < p[2] /\ p[2] <= head'
      <3> SUFFICES ASSUME NEW p \in Deliveries, row'[p] # "none"
                   PROVE  start'[p[1]] < p[2] /\ p[2] <= head'
        OBVIOUS
      <3>1. p[1] \in Hooks /\ p[2] \in Nat
        BY DEF Deliveries, Seqs
      <3>2. start[p[1]] < p[2] /\ p[2] <= head /\ hook[p[1]] # "none"
        BY <1>2 DEF IInv, ClaimInv, TypeOK, HookInv
      <3> QED
        BY <1>2, <1>4, <3>1, <3>2
    <2>2. /\ upto' \in [Dispatchers -> 0..head'] /\ batch' \in [Dispatchers -> SUBSET (1..head')]
      <3>1. 0..head \subseteq 0..head' /\ 1..head \subseteq 1..head'
        BY <1>2
      <3> QED
        BY <1>2, <3>1 DEF IInv, ClaimInv, TypeOK
    <2> QED
      BY <1>2, <1>3, <1>4, <2>1, <2>2 DEF IInv, ClaimInv, TypeOK
  <1> QED
    BY <1>1, <1>5, <1>6, QuietIInv

(* So are the steps of a pass before it claims, but for the enrollment. *)
LEMMA PassStartsIInv ==
    ASSUME IInv, NEW d \in Dispatchers,
           ReadHead(d) \/ ListWebhooks(d) \/ Enrolled(d) \/ NothingDue(d)
    PROVE  IInv'
  <1> USE BoundAssumption DEF ledger, history
  <1>1. Quiet
    BY DEF ReadHead, ListWebhooks, Enrolled, NothingDue, Quiet, Busy, IInv, ClaimInv, TypeOK
  <1>2. /\ UNCHANGED <<head, hook, start, row, attempts, target, batch, history>>
    BY DEF ReadHead, ListWebhooks, Enrolled, NothingDue
  <1>3. /\ upto' \in [Dispatchers -> 0..head'] /\ todo' \in [Dispatchers -> SUBSET Hooks]
        /\ pc' \in [Dispatchers -> {"idle", "list", "enroll", "claim", "send", "succeeded", "failed"}]
    BY DEF ReadHead, ListWebhooks, Enrolled, NothingDue, IInv, ClaimInv, TypeOK
  <1>4. HookInv'
    BY DEF ReadHead, ListWebhooks, Enrolled, NothingDue, IInv, ClaimInv, TypeOK, HookInv
  <1>5. \A e \in Dispatchers : pc'[e] \in {"send", "succeeded", "failed"} <=> batch'[e] # {}
    BY <1>1, <1>2 DEF Quiet, Busy, IInv, ClaimInv, TypeOK
  <1>6. TypeOK'
    BY <1>2, <1>3, <1>5 DEF IInv, ClaimInv, TypeOK
  <1> QED
    BY <1>1, <1>4, <1>6, QuietIInv

(* An enrollment only adds rows, of the actions after the start. *)
LEMMA EnrollIInv ==
    ASSUME IInv, NEW d \in Dispatchers, Enroll(d)
    PROVE  IInv'
  <1> USE BoundAssumption DEF history
  <1>1. PICK h \in todo[d] :
           /\ todo' = [todo EXCEPT ![d] = @ \ {h}]
           /\ row' = [p \in Deliveries |->
                        IF p[1] = h /\ p[2] > start[h] /\ p[2] <= upto[d] /\ row[p] = "none"
                        THEN "pending" ELSE row[p]]
    BY DEF Enroll
  <1>2. UNCHANGED <<head, hook, start, attempts, pc, upto, target, batch, taken, tries,
                    skipped, overrun, excused, faults>>
    BY DEF Enroll
  <1>3. \A p \in Deliveries :
           \/ row'[p] = row[p]
           \/ /\ row[p] = "none" /\ row'[p] = "pending" /\ hook[p[1]] # "none"
              /\ start[p[1]] < p[2] /\ p[2] <= head
    <2> SUFFICES ASSUME NEW p \in Deliveries, row'[p] # row[p]
                 PROVE  /\ row[p] = "none" /\ row'[p] = "pending" /\ hook[p[1]] # "none"
                        /\ start[p[1]] < p[2] /\ p[2] <= head
      OBVIOUS
    <2>1. /\ p[1] = h /\ p[2] > start[h] /\ p[2] <= upto[d] /\ row[p] = "none" /\ row'[p] = "pending"
      BY <1>1
    <2>2. hook[h] # "none" /\ h \in Hooks
      BY DEF IInv, HookInv, ClaimInv, TypeOK
    <2>3. upto[d] \in 0..head /\ head \in Nat /\ p[2] \in Nat /\ start[h] \in Nat
      BY <2>2 DEF IInv, ClaimInv, TypeOK, Deliveries, Seqs
    <2> QED
      BY <2>1, <2>2, <2>3
  <1>4. TypeOK'
    <2>1. row' \in [Deliveries -> {"none", "pending", "delivering", "old", "failed"} \cup Final]
      BY <1>1 DEF IInv, ClaimInv, TypeOK
    <2>2. \A p \in Deliveries : row'[p] # "none" => start'[p[1]] < p[2] /\ p[2] <= head'
      BY <1>2, <1>3 DEF IInv, ClaimInv, TypeOK
    <2>3. todo' \in [Dispatchers -> SUBSET Hooks]
      BY <1>1 DEF IInv, ClaimInv, TypeOK
    <2> QED
      BY <1>2, <2>1, <2>2, <2>3 DEF IInv, ClaimInv, TypeOK
  <1>5. \A e \in Dispatchers : Held(e)' = Held(e) /\ Current(e)' = Current(e)
    BY <1>2, SameHand
  <1>6. \A e \in Dispatchers : \A p \in Held(e) : p \in Deliveries
    BY HeldIsDelivery
  <1>7. PromptAttemptsAreExclusive'
    BY <1>2, <1>5 DEF IInv, ClaimInv, PromptAttemptsAreExclusive
  <1>8. HeldInv'
    BY <1>2, <1>3, <1>5, <1>6 DEF IInv, HeldInv
  <1>9. OutcomesAreTrue' /\ CountInv'
    <2>1. \A p \in Deliveries : row[p] = "none" => p \in overrun \/ attempts[p] <= tries[p]
      BY DEF IInv, CountInv
    <2> QED
      BY <1>2, <1>3, <2>1 DEF IInv, OutcomesAreTrue, CountInv
  <1>10. HookInv'
    BY <1>1, <1>2, <1>3 DEF IInv, ClaimInv, TypeOK, HookInv
  <1>11. ResultInv' /\ TakenInv'
    BY <1>2, <1>3, <1>5 DEF IInv, ResultInv, TakenInv
  <1> QED
    BY <1>4, <1>7, <1>8, <1>9, <1>10, <1>11 DEF IInv, ClaimInv

(* A claim takes nothing that somebody holds in time. *)
LEMMA ClaimIInv ==
    ASSUME IInv, NEW d \in Dispatchers, Claim(d)
    PROVE  IInv'
  <1> USE BoundAssumption DEF history
  <1>0. PICK h \in Hooks : hook[h] = "active" /\ Due(h) # {} /\ Take(d, h, FirstOf(Due(h)), "delivering")
    BY DEF Claim
  <1> DEFINE S == FirstOf(Due(h))
             Taken == {<<h, s>> : s \in S}
  <1>1. /\ pc[d] = "claim"
        /\ batch' = [batch EXCEPT ![d] = S] /\ target' = [target EXCEPT ![d] = h]
        /\ row' = [p \in Deliveries |-> IF p[1] = h /\ p[2] \in S THEN "delivering" ELSE row[p]]
        /\ pc' = [pc EXCEPT ![d] = "send"]
        /\ UNCHANGED <<head, hook, start, attempts, upto, todo, taken, tries,
                       skipped, overrun, excused, faults>>
    BY <1>0 DEF Claim, Take
  <1>2. /\ S # {} /\ S \subseteq Seqs
        /\ \A s \in S : row[<<h, s>>] \in {"pending", "failed", "old"}
    <2>1. Due(h) \in SUBSET Seqs /\ \A s \in Due(h) : row[<<h, s>>] \in {"pending", "failed", "old"}
      BY DEF Due
    <2> QED
      BY <1>0, <2>1, FirstOfDue
  <1> HIDE DEF S
  <1>3. /\ \A p \in Taken : p \in Deliveries /\ row[p] \in {"pending", "failed", "old"}
                            /\ row'[p] = "delivering"
        /\ \A p \in Deliveries : p \in Taken \/ row'[p] = row[p]
    <2>1. \A s \in S : <<h, s>> \in Deliveries
      BY <1>2 DEF Deliveries
    <2>2. \A p \in Deliveries : p \in Taken <=> (p[1] = h /\ p[2] \in S)
      BY DEF Deliveries
    <2> QED
      BY <1>1, <1>2, <2>1, <2>2
  <1>4. /\ d \in Dispatchers /\ batch[d] = {} /\ Held(d) = {}
        /\ Held(d)' = Taken /\ batch'[d] = S /\ target'[d] = h /\ pc'[d] = "send"
    BY <1>1 DEF Held, IInv, ClaimInv, TypeOK
  <1>5. \A e \in Dispatchers : e # d => /\ Held(e)' = Held(e) /\ Current(e)' = Current(e)
                                       /\ batch'[e] = batch[e] /\ target'[e] = target[e]
                                       /\ pc'[e] = pc[e]
    <2>1. \A e \in Dispatchers : e # d => /\ batch'[e] = batch[e] /\ target'[e] = target[e]
                                         /\ pc'[e] = pc[e]
      BY <1>1 DEF IInv, ClaimInv, TypeOK
    <2> QED
      BY <2>1, SameHand
  <1>6. \A e \in Dispatchers : \A p \in Held(e) \cap Taken : p \in overrun
    BY <1>3 DEF IInv, HeldInv
  <1> HIDE DEF Taken
  <1>7. TypeOK'
    <2>1. row' \in [Deliveries -> {"none", "pending", "delivering", "old", "failed"} \cup Final]
      BY <1>1 DEF IInv, ClaimInv, TypeOK
    <2>2. \A p \in Deliveries : row'[p] # "none" => start'[p[1]] < p[2] /\ p[2] <= head'
      BY <1>1, <1>3 DEF IInv, ClaimInv, TypeOK
    <2>3. S \subseteq 1..head
      <3> SUFFICES ASSUME NEW s \in S PROVE s \in 1..head
        OBVIOUS
      <3>1. <<h, s>> \in Deliveries /\ row[<<h, s>>] # "none"
        BY <1>2 DEF Deliveries
      <3> QED
        BY <1>2, <3>1 DEF IInv, ClaimInv, TypeOK, Seqs
    <2>4. /\ batch' \in [Dispatchers -> SUBSET (1..head')]
          /\ target' \in [Dispatchers -> Hooks \cup {NoHook}]
          /\ pc' \in [Dispatchers -> {"idle", "list", "enroll", "claim", "send", "succeeded", "failed"}]
      BY <1>1, <2>3 DEF IInv, ClaimInv, TypeOK
    <2>5. \A e \in Dispatchers : pc'[e] \in {"send", "succeeded", "failed"} <=> batch'[e] # {}
      BY <1>2, <1>4, <1>5 DEF IInv, ClaimInv, TypeOK
    <2> QED
      BY <1>1, <2>1, <2>2, <2>4, <2>5 DEF IInv, ClaimInv, TypeOK
  <1>8. PromptAttemptsAreExclusive'
    BY <1>1, <1>4, <1>5, <1>6 DEF IInv, ClaimInv, PromptAttemptsAreExclusive
  <1>9. HeldInv'
    <2>1. \A e \in Dispatchers : e # d => \A p \in Held(e) : p \in overrun \/ row'[p] = "delivering"
      BY <1>3, HeldIsDelivery DEF IInv, HeldInv
    <2> QED
      BY <1>1, <1>3, <1>4, <1>5, <2>1 DEF IInv, HeldInv
  <1>10. OutcomesAreTrue' /\ CountInv'
    BY <1>1, <1>3 DEF IInv, OutcomesAreTrue, CountInv
  <1>11. HookInv'
    <2>1. \A p \in Taken : row[p] # "none"
      BY <1>3
    <2>2. \A p \in Deliveries : hook[p[1]] = "none" => row'[p] = "none"
      BY <1>3, <2>1 DEF IInv, HookInv
    <2>3. \A p \in overrun : row'[p] # "none"
      BY <1>3 DEF IInv, HookInv, ClaimInv, TypeOK
    <2> QED
      BY <1>1, <2>2, <2>3 DEF IInv, HookInv
  <1>12. ResultInv'
    BY <1>1, <1>4, <1>5 DEF IInv, ResultInv
  <1>13. TakenInv'
    <2> SUFFICES ASSUME NEW p \in Deliveries, p \notin excused \cup overrun, taken[p] # 0
                 PROVE  /\ taken[p] = 1
                        /\ \/ row'[p] = "delivered"
                           \/ \E e \in Dispatchers : pc'[e] = "succeeded" /\ p = Current(e)'
      BY <1>1 DEF TakenInv
    <2>1. taken[p] = 1 /\ (row[p] = "delivered" \/ \E e \in Dispatchers : pc[e] = "succeeded" /\ p = Current(e))
      BY DEF IInv, TakenInv
    <2>2. CASE row[p] = "delivered"
      BY <1>3, <2>1, <2>2
    <2>3. ASSUME NEW e \in Dispatchers, pc[e] = "succeeded", p = Current(e)
          PROVE  pc'[e] = "succeeded" /\ p = Current(e)'
      BY <1>1, <1>5, <2>3
    <2> QED
      BY <2>1, <2>2, <2>3
  <1> QED
    BY <1>7, <1>8, <1>9, <1>10, <1>11, <1>12, <1>13 DEF IInv, ClaimInv

(* A claim grows old: in its owner's hand that is an overrun. *)
LEMMA ClaimGrowsOldIInv ==
    ASSUME IInv, NEW q \in Deliveries, ClaimGrowsOld(q)
    PROVE  IInv'
  <1> USE BoundAssumption DEF passes
  <1>1. /\ row[q] = "delivering" /\ row' = [row EXCEPT ![q] = "old"]
        /\ UNCHANGED <<head, hook, start, attempts, pc, upto, todo, target, batch, taken, tries,
                       skipped, excused>>
        /\ overrun \subseteq overrun' /\ overrun' \subseteq overrun \cup {q}
        /\ (\E d \in Dispatchers : q \in Held(d)) => q \in overrun'
        /\ faults' \in 0..MaxFaults
    BY DEF ClaimGrowsOld, IInv, ClaimInv, TypeOK
  <1>2. \A p \in Deliveries : p = q \/ row'[p] = row[p]
    BY <1>1 DEF IInv, ClaimInv, TypeOK
  <1>3. row'[q] = "old"
    BY <1>1 DEF IInv, ClaimInv, TypeOK
  <1>4. \A e \in Dispatchers : Held(e)' = Held(e) /\ Current(e)' = Current(e)
    BY <1>1, SameHand
  <1>5. TypeOK'
    <2>1. row' \in [Deliveries -> {"none", "pending", "delivering", "old", "failed"} \cup Final]
      BY <1>1 DEF IInv, ClaimInv, TypeOK
    <2>2. \A p \in Deliveries : row'[p] # "none" => start'[p[1]] < p[2] /\ p[2] <= head'
      BY <1>1, <1>2 DEF IInv, ClaimInv, TypeOK
    <2> QED
      BY <1>1, <2>1, <2>2 DEF IInv, ClaimInv, TypeOK
  <1>6. PromptAttemptsAreExclusive'
    BY <1>1, <1>4 DEF IInv, ClaimInv, PromptAttemptsAreExclusive
  <1>7. HeldInv'
    BY <1>1, <1>2, <1>4, HeldIsDelivery DEF IInv, HeldInv
  <1>8. OutcomesAreTrue' /\ CountInv'
    BY <1>1, <1>2, <1>3 DEF IInv, OutcomesAreTrue, CountInv
  <1>9. HookInv'
    BY <1>1, <1>2 DEF IInv, HookInv
  <1>10. ResultInv' /\ TakenInv'
    BY <1>1, <1>2, <1>4 DEF IInv, ResultInv, TakenInv
  <1> QED
    BY <1>5, <1>6, <1>7, <1>8, <1>9, <1>10 DEF IInv, ClaimInv

(***************************************************************************)
(* Sending the current delivery: no row and no batch changes, and what the *)
(* endpoint did is what the dispatcher is about to record.                 *)
(***************************************************************************)
LEMMA SendIInv ==
    ASSUME IInv, NEW d \in Dispatchers, Skip(d) \/ Post(d) \/ PostFails(d)
    PROVE  IInv'
  <1> USE BoundAssumption, AttemptsAssumption DEF ledger
  <1> DEFINE c == Current(d)
  <1>0. pc[d] = "send" /\ batch[d] # {}
    BY DEF Skip, Post, PostFails, IInv, ClaimInv, TypeOK
  <1>1. /\ c \in Held(d) /\ c \in Deliveries
        /\ c \in overrun \/ row[c] = "delivering"
        /\ \A e \in Dispatchers : e # d /\ c \in Held(e) => c \in overrun
    BY <1>0, CurrentIsHeld
  <1> HIDE DEF c
  <1>2. /\ UNCHANGED <<head, hook, start, row, attempts, upto, todo, target, batch, overrun, faults>>
        /\ pc' = [pc EXCEPT ![d] = pc'[d]] /\ pc'[d] \in {"succeeded", "failed"}
    BY DEF Skip, Post, PostFails, IInv, ClaimInv, TypeOK
  <1>3. /\ taken' \in [Deliveries -> 0..2] /\ tries' \in [Deliveries -> 0..MaxAttempts]
        /\ skipped' \subseteq Deliveries /\ excused' \subseteq Deliveries
        /\ skipped \subseteq skipped' /\ excused \subseteq excused'
        /\ \A p \in Deliveries : p # c => taken'[p] = taken[p] /\ tries'[p] = tries[p]
    BY <1>1 DEF Skip, Post, PostFails, CapAt, c, IInv, ClaimInv, TypeOK
  <1>4. /\ taken'[c] >= taken[c] /\ tries'[c] >= tries[c]
        /\ taken'[c] = taken[c] \/ c \in excused' \/ (taken'[c] = CapAt(taken[c] + 1, 2) /\ pc'[d] = "succeeded")
        /\ pc'[d] = "succeeded" => taken'[c] > 0 \/ c \in skipped'
        /\ pc'[d] = "failed" => tries'[c] = CapAt(tries[c] + 1, MaxAttempts)
        /\ taken[c] \in 0..2 /\ tries[c] \in 0..MaxAttempts /\ attempts[c] \in 0..MaxAttempts
    BY <1>0, <1>1, <1>2 DEF Skip, Post, PostFails, CapAt, c, IInv, ClaimInv, TypeOK
  <1>5. \A e \in Dispatchers : Held(e)' = Held(e) /\ Current(e)' = Current(e)
    BY <1>2, SameHand
  <1>6. \A e \in Dispatchers : e # d => pc'[e] = pc[e]
    BY <1>2 DEF IInv, ClaimInv, TypeOK
  <1>7. \A e \in Dispatchers : e # d /\ pc[e] \in Busy => Current(e) \in Deliveries /\ Current(e) \in Held(e)
    BY CurrentIsHeld, Typed
  <1>8. TypeOK'
    <2>1. /\ pc' \in [Dispatchers -> {"idle", "list", "enroll", "claim", "send", "succeeded", "failed"}]
          /\ \A e \in Dispatchers : pc'[e] \in {"send", "succeeded", "failed"} <=> batch'[e] # {}
      BY <1>0, <1>2, <1>6 DEF IInv, ClaimInv, TypeOK
    <2> QED
      BY <1>2, <1>3, <2>1 DEF IInv, ClaimInv, TypeOK
  <1>9. PromptAttemptsAreExclusive' /\ HeldInv' /\ HookInv'
    BY <1>2, <1>5 DEF IInv, ClaimInv, PromptAttemptsAreExclusive, HeldInv, HookInv
  <1>10. OutcomesAreTrue' /\ CountInv'
    <2> SUFFICES ASSUME NEW p \in Deliveries
                 PROVE  /\ row[p] = "delivered" => taken'[p] > 0 \/ p \in skipped'
                        /\ row[p] = "abandoned" => tries'[p] >= MaxAttempts \/ p \in overrun
                        /\ p \in overrun \/ row[p] = "delivered" \/ attempts[p] <= tries'[p]
      BY <1>2 DEF OutcomesAreTrue, CountInv
    <2>1. /\ taken'[p] >= taken[p] /\ tries'[p] >= tries[p]
          /\ taken[p] \in Nat /\ tries[p] \in Nat /\ taken'[p] \in Nat /\ tries'[p] \in Nat
          /\ attempts[p] \in Nat
      BY <1>3, <1>4 DEF IInv, ClaimInv, TypeOK
    <2>2. /\ row[p] = "delivered" => taken[p] > 0 \/ p \in skipped
          /\ row[p] = "abandoned" => tries[p] >= MaxAttempts \/ p \in overrun
          /\ p \in overrun \/ row[p] = "delivered" \/ attempts[p] <= tries[p]
      BY DEF IInv, OutcomesAreTrue, CountInv
    <2> QED
      BY <1>3, <2>1, <2>2
  <1>11. ResultInv'
    <2>1. /\ pc'[d] = "succeeded" => taken'[c] > 0 \/ c \in skipped'
          /\ pc'[d] = "failed" => \/ c \in overrun
                                  \/ attempts[c] < tries'[c]
                                  \/ tries'[c] = MaxAttempts
      <3>1. c \in overrun \/ attempts[c] <= tries[c]
        BY <1>1 DEF IInv, CountInv
      <3> QED
        BY <1>4, <3>1 DEF CapAt
    <2>2. ASSUME NEW e \in Dispatchers, e # d
          PROVE  /\ pc[e] = "succeeded" => taken'[Current(e)] > 0 \/ Current(e) \in skipped'
                 /\ pc[e] = "failed" => \/ Current(e) \in overrun
                                        \/ attempts[Current(e)] < tries'[Current(e)]
                                        \/ tries'[Current(e)] = MaxAttempts
      <3>1. CASE pc[e] \notin Busy
        BY <3>1 DEF Busy
      <3>2. CASE pc[e] \in Busy
        <4>1. /\ pc[e] = "succeeded" => taken[Current(e)] > 0 \/ Current(e) \in skipped
              /\ pc[e] = "failed" => \/ Current(e) \in overrun
                                     \/ attempts[Current(e)] < tries[Current(e)]
                                     \/ tries[Current(e)] = MaxAttempts
          BY DEF IInv, ResultInv
        <4>2. CASE Current(e) = c
          <5>1. c \in overrun
            BY <1>1, <1>7, <2>2, <3>2, <4>2
          <5> QED
            BY <1>3, <1>4, <4>1, <4>2, <5>1
        <4>3. CASE Current(e) # c
          BY <1>3, <1>7, <2>2, <3>2, <4>1, <4>3
        <4> QED
          BY <4>2, <4>3
      <3> QED
        BY <3>1, <3>2
    <2> QED
      BY <1>2, <1>5, <1>6, <2>1, <2>2 DEF ResultInv, c
  <1>12. TakenInv'
    <2> SUFFICES ASSUME NEW p \in Deliveries, p \notin excused' \cup overrun, taken'[p] # 0
                 PROVE  /\ taken'[p] = 1
                        /\ \/ row[p] = "delivered"
                           \/ \E e \in Dispatchers : pc'[e] = "succeeded" /\ p = Current(e)
      BY <1>2, <1>5 DEF TakenInv
    <2>1. \/ taken[p] = 0
          \/ /\ taken[p] = 1
             /\ \/ row[p] = "delivered"
                \/ \E e \in Dispatchers : pc[e] = "succeeded" /\ p = Current(e)
      BY <1>3 DEF IInv, TakenInv
    <2>2. CASE p = c
      <3>1. row[p] = "delivering"
        BY <1>1, <2>2
      <3>2. taken[p] = 0
        BY <1>0, <1>1, <1>7, <2>1, <2>2, <3>1 DEF Busy
      <3> QED
        BY <1>2, <1>4, <2>2, <3>2 DEF CapAt, c
    <2>3. CASE p # c
      <3>1. taken'[p] = taken[p]
        BY <1>3, <2>3
      <3> QED
        BY <1>0, <1>6, <2>1, <3>1
    <2> QED
      BY <2>2, <2>3
  <1> QED
    BY <1>8, <1>9, <1>10, <1>11, <1>12 DEF IInv, ClaimInv

(***************************************************************************)
(* A dispatcher lets go of the row it worked on, with or without the rest  *)
(* of its batch; nobody else moves, and no row but that one changes.       *)
(***************************************************************************)
LetsGo(d) ==
    /\ Held(d)' \subseteq Held(d) \ {Current(d)}
    /\ batch'[d] # {} => target'[d] \in Hooks
    /\ pc'[d] \notin {"succeeded", "failed"}
    /\ \A e \in Dispatchers : e # d => /\ Held(e)' = Held(e) /\ Current(e)' = Current(e)
                                      /\ batch'[e] = batch[e] /\ target'[e] = target[e]
                                      /\ pc'[e] = pc[e]
    /\ \A p \in Deliveries : p # Current(d) => row'[p] = row[p] /\ attempts'[p] = attempts[p]
    /\ UNCHANGED <<hook, taken, tries, skipped, overrun>>

(* What the others hold and are about to record stays what it was. *)
LEMMA LetsGoInv ==
    ASSUME IInv, NEW d \in Dispatchers, batch[d] # {}, LetsGo(d)
    PROVE  PromptAttemptsAreExclusive' /\ HeldInv' /\ ResultInv'
  <1> DEFINE c == Current(d)
  <1>1. /\ c \in Held(d) /\ c \in Deliveries
        /\ \A e \in Dispatchers : e # d /\ c \in Held(e) => c \in overrun
    BY CurrentIsHeld
  <1>2. \A e \in Dispatchers : \A p \in Held(e) : p \in Deliveries
    BY HeldIsDelivery
  <1>3. \A e \in Dispatchers : pc[e] \in Busy => Current(e) \in Deliveries /\ Current(e) \in Held(e)
    BY CurrentIsHeld, Typed
  <1>4. PromptAttemptsAreExclusive'
    BY DEF LetsGo, IInv, ClaimInv, PromptAttemptsAreExclusive
  <1>5. HeldInv'
    <2> SUFFICES ASSUME NEW e \in Dispatchers
                 PROVE  /\ batch'[e] # {} => target'[e] \in Hooks
                        /\ \A p \in Held(e)' : p \in overrun' \/ row'[p] = "delivering"
      BY DEF HeldInv
    <2>1. CASE e = d
      BY <1>2, <2>1 DEF LetsGo, IInv, HeldInv
    <2>2. CASE e # d
      BY <1>1, <1>2, <2>2 DEF LetsGo, IInv, HeldInv
    <2> QED
      BY <2>1, <2>2
  <1>6. ResultInv'
    <2> SUFFICES ASSUME NEW e \in Dispatchers, e # d, pc[e] \in {"succeeded", "failed"}
                 PROVE  /\ pc[e] = "succeeded" => taken[Current(e)] > 0 \/ Current(e) \in skipped
                        /\ pc[e] = "failed" => \/ Current(e) \in overrun
                                               \/ attempts'[Current(e)] < tries[Current(e)]
                                               \/ tries[Current(e)] = MaxAttempts
      BY DEF LetsGo, ResultInv
    <2>1. Current(e) \in Deliveries /\ Current(e) \in Held(e)
      BY <1>3 DEF Busy
    <2>2. Current(e) \in overrun \/ attempts'[Current(e)] = attempts[Current(e)]
      BY <1>1, <2>1 DEF LetsGo
    <2> QED
      BY <2>2 DEF IInv, ResultInv
  <1> QED
    BY <1>4, <1>5, <1>6

(* An event that was taken once is recorded, or about to be, or excused. *)
LEMMA LetsGoTaken ==
    ASSUME IInv, NEW d \in Dispatchers, batch[d] # {}, LetsGo(d), excused \subseteq excused',
           pc[d] = "succeeded" => row'[Current(d)] = "delivered" \/ Current(d) \in excused'
    PROVE  TakenInv'
  <1> DEFINE c == Current(d)
  <1>1. /\ c \in Deliveries
        /\ c \in overrun \/ row[c] = "delivering"
    BY CurrentIsHeld
  <1> SUFFICES ASSUME NEW p \in Deliveries, p \notin excused' \cup overrun, taken[p] # 0
               PROVE  /\ taken[p] = 1
                      /\ \/ row'[p] = "delivered"
                         \/ \E e \in Dispatchers : pc'[e] = "succeeded" /\ p = Current(e)'
    BY DEF LetsGo, TakenInv
  <1>2. /\ taken[p] = 1
        /\ row[p] = "delivered" \/ \E e \in Dispatchers : pc[e] = "succeeded" /\ p = Current(e)
    BY DEF IInv, TakenInv
  <1>3. CASE row[p] = "delivered"
    BY <1>1, <1>2, <1>3 DEF LetsGo
  <1>4. ASSUME NEW e \in Dispatchers, pc[e] = "succeeded", p = Current(e), e # d
        PROVE  pc'[e] = "succeeded" /\ p = Current(e)'
    BY <1>4 DEF LetsGo
  <1>5. CASE pc[d] = "succeeded" /\ p = c
    BY <1>2, <1>5
  <1> QED
    BY <1>2, <1>3, <1>4, <1>5

(* NextOf lets go of the current row. *)
LEMMA NextOfLetsGo ==
    ASSUME IInv, NEW d \in Dispatchers, pc[d] \in {"succeeded", "failed"},
           NextOf(d, batch[d] \ {Min(batch[d])}),
           \A p \in Deliveries : p # Current(d) => row'[p] = row[p] /\ attempts'[p] = attempts[p],
           UNCHANGED <<hook, taken, tries, skipped, overrun>>
    PROVE  /\ batch[d] # {} /\ LetsGo(d)
           /\ pc' \in [Dispatchers -> {"idle", "list", "enroll", "claim", "send", "succeeded", "failed"}]
           /\ target' \in [Dispatchers -> Hooks \cup {NoHook}]
           /\ batch' \in [Dispatchers -> SUBSET (1..head)]
           /\ \A e \in Dispatchers : pc'[e] \in {"send", "succeeded", "failed"} <=> batch'[e] # {}
  <1> DEFINE rest == batch[d] \ {Min(batch[d])}
  <1>0. batch[d] # {}
    BY DEF IInv, ClaimInv, TypeOK
  <1>1. /\ batch' = [batch EXCEPT ![d] = rest]
        /\ target' = [target EXCEPT ![d] = IF rest = {} THEN NoHook ELSE @]
        /\ pc' = [pc EXCEPT ![d] = IF rest = {} THEN "claim" ELSE "send"]
    BY DEF NextOf
  <1>2. target[d] \in Hooks
    BY <1>0 DEF IInv, HeldInv
  <1>3. rest \in SUBSET (1..head) /\ rest \subseteq batch[d] /\ Min(batch[d]) \notin rest
    BY DEF IInv, ClaimInv, TypeOK
  <1> HIDE DEF rest
  <1>4. /\ batch'[d] = rest /\ pc'[d] = IF rest = {} THEN "claim" ELSE "send"
        /\ target'[d] = IF rest = {} THEN NoHook ELSE target[d]
    BY <1>1 DEF IInv, ClaimInv, TypeOK
  <1>5. \A e \in Dispatchers : e # d => /\ batch'[e] = batch[e] /\ target'[e] = target[e]
                                       /\ pc'[e] = pc[e]
    BY <1>1 DEF IInv, ClaimInv, TypeOK
  <1>6. Held(d)' \subseteq Held(d) \ {Current(d)}
    <2>1. CASE rest = {}
      BY <1>4, <2>1 DEF Held
    <2>2. CASE rest # {}
      <3>1. Held(d)' = {<<target[d], s>> : s \in rest}
        BY <1>4, <2>2 DEF Held
      <3>2. ASSUME NEW s \in rest
            PROVE  <<target[d], s>> \in Held(d) /\ <<target[d], s>> # Current(d)
        <4>1. s \in batch[d] /\ s # Min(batch[d])
          BY <1>3
        <4>2. <<target[d], s>> \in Held(d)
          BY <4>1 DEF Held
        <4>3. <<target[d], s>> # <<target[d], Min(batch[d])>>
          BY <4>1
        <4> QED
          BY <4>2, <4>3 DEF Current
      <3> QED
        BY <3>1, <3>2
    <2> QED
      BY <2>1, <2>2
  <1>7. \A e \in Dispatchers : e # d => Held(e)' = Held(e) /\ Current(e)' = Current(e)
    BY <1>5, SameHand
  <1>8. LetsGo(d)
    BY <1>2, <1>4, <1>5, <1>6, <1>7 DEF LetsGo
  <1>9. /\ pc' \in [Dispatchers -> {"idle", "list", "enroll", "claim", "send", "succeeded", "failed"}]
        /\ target' \in [Dispatchers -> Hooks \cup {NoHook}]
        /\ batch' \in [Dispatchers -> SUBSET (1..head)]
    BY <1>1, <1>3 DEF IInv, ClaimInv, TypeOK
  <1>10. \A e \in Dispatchers : pc'[e] \in {"send", "succeeded", "failed"} <=> batch'[e] # {}
    BY <1>4, <1>5 DEF IInv, ClaimInv, TypeOK
  <1> QED
    BY <1>0, <1>8, <1>9, <1>10

(* Marking a delivery records what the endpoint did, and never revives it. *)
LEMMA MarkIInv ==
    ASSUME IInv, NEW d \in Dispatchers, MarkDelivered(d) \/ MarkFailed(d)
    PROVE  IInv'
  <1> USE BoundAssumption, AttemptsAssumption DEF history
  <1> DEFINE c == Current(d)
  <1>0. pc[d] \in {"succeeded", "failed"} /\ batch[d] # {}
    BY DEF MarkDelivered, MarkFailed, IInv, ClaimInv, TypeOK
  <1>1. c \in Deliveries /\ (c \in overrun \/ row[c] = "delivering")
    BY <1>0, CurrentIsHeld
  <1>2. /\ row' = [row EXCEPT ![c] = row'[c]]
        /\ attempts' = [attempts EXCEPT ![c] = CapAt(attempts[c] + 1, MaxAttempts)]
        /\ NextOf(d, batch[d] \ {Min(batch[d])})
        /\ UNCHANGED <<head, hook, start, upto, todo, taken, tries, skipped, overrun, excused, faults>>
    BY <1>1 DEF MarkDelivered, MarkFailed, IInv, ClaimInv, TypeOK
  <1>3. \/ pc[d] = "succeeded" /\ row'[c] = "delivered"
        \/ pc[d] = "failed" /\ row'[c] = "abandoned" /\ attempts[c] + 1 >= MaxAttempts
        \/ pc[d] = "failed" /\ row'[c] = "failed"
    BY <1>1 DEF MarkDelivered, MarkFailed, IInv, ClaimInv, TypeOK
  <1>4. /\ attempts[c] \in 0..MaxAttempts /\ tries[c] \in 0..MaxAttempts
        /\ attempts'[c] = CapAt(attempts[c] + 1, MaxAttempts)
    BY <1>1, <1>2 DEF IInv, ClaimInv, TypeOK
  <1>5. row[c] # "none"
    BY <1>1 DEF IInv, HookInv
  <1>6. row' \in [Deliveries -> {"none", "pending", "delivering", "old", "failed"} \cup Final]
    BY <1>1, <1>2, <1>3 DEF IInv, ClaimInv, TypeOK, Final
  <1>7. \A p \in Deliveries : p # c => row'[p] = row[p] /\ attempts'[p] = attempts[p]
    BY <1>2 DEF IInv, ClaimInv, TypeOK
  <1> HIDE DEF c
  <1>8. LetsGo(d) /\ PromptAttemptsAreExclusive' /\ HeldInv' /\ ResultInv'
    BY <1>0, <1>2, <1>7, NextOfLetsGo, LetsGoInv DEF c
  <1>9. TypeOK'
    <2>1. \A p \in Deliveries : row'[p] # "none" => start'[p[1]] < p[2] /\ p[2] <= head'
      BY <1>1, <1>2, <1>5, <1>7 DEF IInv, ClaimInv, TypeOK
    <2>2. attempts' \in [Deliveries -> 0..MaxAttempts]
      BY <1>1, <1>2, <1>4 DEF IInv, ClaimInv, TypeOK, CapAt
    <2>3. /\ pc' \in [Dispatchers -> {"idle", "list", "enroll", "claim", "send", "succeeded", "failed"}]
          /\ target' \in [Dispatchers -> Hooks \cup {NoHook}]
          /\ batch' \in [Dispatchers -> SUBSET (1..head)]
          /\ \A e \in Dispatchers : pc'[e] \in {"send", "succeeded", "failed"} <=> batch'[e] # {}
      BY <1>0, <1>2, <1>7, NextOfLetsGo DEF c
    <2> QED
      BY <1>2, <1>6, <2>1, <2>2, <2>3 DEF IInv, ClaimInv, TypeOK
  <1>10. OutcomesAreTrue'
    <2> SUFFICES ASSUME NEW p \in Deliveries
                 PROVE  /\ row'[p] = "delivered" => taken[p] > 0 \/ p \in skipped
                        /\ row'[p] = "abandoned" => tries[p] >= MaxAttempts \/ p \in overrun
      BY <1>2 DEF OutcomesAreTrue
    <2>1. CASE p # c
      BY <1>7, <2>1 DEF IInv, OutcomesAreTrue
    <2>2. CASE p = c
      <3>1. /\ pc[d] = "succeeded" => taken[c] > 0 \/ c \in skipped
            /\ pc[d] = "failed" => \/ c \in overrun
                                   \/ attempts[c] < tries[c]
                                   \/ tries[c] = MaxAttempts
        BY DEF c, IInv, ResultInv
      <3> QED
        BY <1>3, <1>4, <2>2, <3>1
    <2> QED
      BY <2>1, <2>2
  <1>11. CountInv'
    <2> SUFFICES ASSUME NEW p \in Deliveries
                 PROVE  p \in overrun \/ row'[p] = "delivered" \/ attempts'[p] <= tries[p]
      BY <1>2 DEF CountInv
    <2>1. CASE p # c
      BY <1>7, <2>1 DEF IInv, CountInv
    <2>2. CASE p = c
      <3>1. pc[d] = "failed" => \/ c \in overrun
                                \/ attempts[c] < tries[c]
                                \/ tries[c] = MaxAttempts
        BY DEF c, IInv, ResultInv
      <3> QED
        BY <1>3, <1>4, <2>2, <3>1 DEF CapAt
    <2> QED
      BY <2>1, <2>2
  <1>12. HookInv'
    <2>1. \A p \in Deliveries : row'[p] = "none" <=> row[p] = "none"
      BY <1>3, <1>5, <1>7
    <2>2. overrun \subseteq Deliveries
      BY DEF IInv, ClaimInv, TypeOK
    <2> QED
      BY <1>2, <2>1, <2>2 DEF IInv, HookInv
  <1>13. TakenInv'
    BY <1>0, <1>2, <1>3, <1>8, LetsGoTaken DEF c
  <1> QED
    BY <1>8, <1>9, <1>10, <1>11, <1>12, <1>13 DEF IInv, ClaimInv

(* A result that is not recorded is excused. *)
LEMMA MarkIsLostIInv ==
    ASSUME IInv, NEW d \in Dispatchers, MarkIsLost(d)
    PROVE  IInv'
  <1> USE BoundAssumption DEF ledger
  <1>0. pc[d] \in {"succeeded", "failed"} /\ batch[d] # {}
    BY DEF MarkIsLost, IInv, ClaimInv, TypeOK
  <1>1. /\ NextOf(d, batch[d] \ {Min(batch[d])})
        /\ excused' = excused \cup {Current(d)} /\ faults' \in 0..MaxFaults
        /\ UNCHANGED <<head, hook, start, row, attempts, upto, todo, taken, tries, skipped, overrun>>
    BY DEF MarkIsLost, IInv, ClaimInv, TypeOK
  <1>2. Current(d) \in Deliveries
    BY <1>0, CurrentIsHeld
  <1>3. LetsGo(d) /\ PromptAttemptsAreExclusive' /\ HeldInv' /\ ResultInv'
    BY <1>0, <1>1, NextOfLetsGo, LetsGoInv
  <1>4. TypeOK'
    <2>1. /\ pc' \in [Dispatchers -> {"idle", "list", "enroll", "claim", "send", "succeeded", "failed"}]
          /\ target' \in [Dispatchers -> Hooks \cup {NoHook}]
          /\ batch' \in [Dispatchers -> SUBSET (1..head)]
          /\ \A e \in Dispatchers : pc'[e] \in {"send", "succeeded", "failed"} <=> batch'[e] # {}
      BY <1>0, <1>1, NextOfLetsGo
    <2> QED
      BY <1>1, <1>2, <2>1 DEF IInv, ClaimInv, TypeOK
  <1>5. OutcomesAreTrue' /\ CountInv' /\ HookInv'
    BY <1>1 DEF IInv, OutcomesAreTrue, CountInv, HookInv
  <1>6. TakenInv'
    BY <1>0, <1>1, <1>3, LetsGoTaken
  <1> QED
    BY <1>3, <1>4, <1>5, <1>6 DEF IInv, ClaimInv

(* So is one that dies with its dispatcher. *)
LEMMA CrashIInv ==
    ASSUME IInv, NEW d \in Dispatchers, Crash(d)
    PROVE  IInv'
  <1> USE BoundAssumption DEF ledger
  <1>1. /\ faults' \in 0..MaxFaults /\ excused \subseteq excused'
        /\ pc[d] \in {"succeeded", "failed"} => excused' = excused \cup {Current(d)}
        /\ pc[d] \notin {"succeeded", "failed"} => excused' = excused
        /\ pc' = [pc EXCEPT ![d] = "idle"] /\ upto' = [upto EXCEPT ![d] = 0]
        /\ todo' = [todo EXCEPT ![d] = {}] /\ target' = [target EXCEPT ![d] = NoHook]
        /\ batch' = [batch EXCEPT ![d] = {}]
        /\ UNCHANGED <<head, hook, start, row, attempts, taken, tries, skipped, overrun>>
    BY DEF Crash, IInv, ClaimInv, TypeOK
  <1>2. batch'[d] = {} /\ pc'[d] = "idle" /\ Held(d)' = {}
    BY <1>1 DEF Held, IInv, ClaimInv, TypeOK
  <1>3. \A e \in Dispatchers : e # d => /\ batch'[e] = batch[e] /\ target'[e] = target[e]
                                       /\ pc'[e] = pc[e]
    BY <1>1 DEF IInv, ClaimInv, TypeOK
  <1>4. \A e \in Dispatchers : e # d => Held(e)' = Held(e) /\ Current(e)' = Current(e)
    BY <1>3, SameHand
  <1>5. pc[d] \in {"succeeded", "failed"} => Current(d) \in Deliveries
    BY CurrentIsHeld DEF IInv, ClaimInv, TypeOK
  <1>6. TypeOK'
    <2>1. /\ excused' \subseteq Deliveries
          /\ upto' \in [Dispatchers -> 0..head'] /\ todo' \in [Dispatchers -> SUBSET Hooks]
          /\ pc' \in [Dispatchers -> {"idle", "list", "enroll", "claim", "send", "succeeded", "failed"}]
          /\ target' \in [Dispatchers -> Hooks \cup {NoHook}]
          /\ batch' \in [Dispatchers -> SUBSET (1..head)]
      BY <1>1, <1>5 DEF IInv, ClaimInv, TypeOK
    <2>2. \A e \in Dispatchers : pc'[e] \in {"send", "succeeded", "failed"} <=> batch'[e] # {}
      BY <1>2, <1>3 DEF IInv, ClaimInv, TypeOK
    <2> QED
      BY <1>1, <2>1, <2>2 DEF IInv, ClaimInv, TypeOK
  <1>7. OutcomesAreTrue' /\ CountInv'
    BY <1>1 DEF IInv, OutcomesAreTrue, CountInv
  <1>8. HookInv'
    BY <1>1 DEF IInv, HookInv, ClaimInv, TypeOK
  <1>9. PromptAttemptsAreExclusive' /\ HeldInv' /\ ResultInv'
    BY <1>1, <1>2, <1>3, <1>4
    DEF IInv, ClaimInv, PromptAttemptsAreExclusive, HeldInv, ResultInv
  <1>10. TakenInv'
    <2> SUFFICES ASSUME NEW p \in Deliveries, p \notin excused' \cup overrun, taken[p] # 0
                 PROVE  /\ taken[p] = 1
                        /\ \/ row[p] = "delivered"
                           \/ \E e \in Dispatchers : pc'[e] = "succeeded" /\ p = Current(e)'
      BY <1>1 DEF TakenInv
    <2>1. /\ taken[p] = 1
          /\ row[p] = "delivered" \/ \E e \in Dispatchers : pc[e] = "succeeded" /\ p = Current(e)
      BY <1>1 DEF IInv, TakenInv
    <2>2. ASSUME NEW e \in Dispatchers, pc[e] = "succeeded", p = Current(e)
          PROVE  pc'[e] = "succeeded" /\ p = Current(e)'
      <3>1. e # d
        BY <1>1, <2>2
      <3> QED
        BY <1>3, <1>4, <2>2, <3>1
    <2> QED
      BY <2>1, <2>2
  <1> QED
    BY <1>6, <1>7, <1>8, <1>9, <1>10 DEF IInv, ClaimInv

(* Every step of Webhooks preserves the invariant. *)
LEMMA NextIInv == IInv /\ [Next]_vars => IInv'
  <1> SUFFICES ASSUME IInv, [Next]_vars PROVE IInv'
    OBVIOUS
  <1>1. ASSUME UNCHANGED vars PROVE IInv'
    <2>1. Quiet /\ UNCHANGED <<head, ledger, passes>>
      BY <1>1 DEF vars, ledger, passes, history, Quiet
    <2>2. TypeOK' /\ HookInv'
      BY <1>1 DEF vars, ledger, passes, history, IInv, ClaimInv, TypeOK, HookInv
    <2> QED
      BY <2>1, <2>2, QuietIInv
  <1>2. ASSUME Commit PROVE IInv'
    BY <1>2, WorkspaceIInv
  <1>3. ASSUME NEW h \in Hooks,
               ReadStart(h) \/ Register(h) \/ TurnOff(h) \/ TurnOn(h) \/ DeleteWebhook(h)
        PROVE  IInv'
    BY <1>3, WorkspaceIInv
  <1>4. ASSUME NEW p \in Deliveries, ClaimGrowsOld(p) PROVE IInv'
    BY <1>4, ClaimGrowsOldIInv
  <1>5. ASSUME NEW d \in Dispatchers, Pass(d) \/ MarkIsLost(d) \/ Crash(d) PROVE IInv'
    <2>1. CASE ReadHead(d) \/ ListWebhooks(d) \/ Enrolled(d) \/ NothingDue(d)
      BY <2>1, PassStartsIInv
    <2>2. CASE Enroll(d)
      BY <2>2, EnrollIInv
    <2>3. CASE Claim(d)
      BY <2>3, ClaimIInv
    <2>4. CASE Skip(d) \/ Post(d) \/ PostFails(d)
      BY <2>4, SendIInv
    <2>5. CASE MarkDelivered(d) \/ MarkFailed(d)
      BY <2>5, MarkIInv
    <2>6. CASE MarkIsLost(d)
      BY <2>6, MarkIsLostIInv
    <2>7. CASE Crash(d)
      BY <2>7, CrashIInv
    <2> QED
      BY <1>5, <2>1, <2>2, <2>3, <2>4, <2>5, <2>6, <2>7 DEF Pass
  <1> QED
    BY <1>1, <1>2, <1>3, <1>4, <1>5 DEF Next

(***************************************************************************)
(* The inductive invariant holds in every reachable state.                 *)
(***************************************************************************)
THEOREM IInvHolds == Spec => []IInv
  BY InitIInv, NextIInv, PTL DEF Spec

(***************************************************************************)
(* Claims that are in time are exclusive: two passes, of any number of     *)
(* replicas, hold the same delivery only if its claim grew old in a hand   *)
(* (ClaimPendingWebhookBatch).                                             *)
(***************************************************************************)
THEOREM ClaimsAreExclusive == Spec => []ClaimInv
  <1>1. IInv => ClaimInv
    BY DEF IInv
  <1> QED
    BY IInvHolds, <1>1, PTL

(***************************************************************************)
(* A delivery recorded as delivered was taken or not asked for, and one    *)
(* recorded as abandoned failed as often as it must, whatever crashes and  *)
(* late results there were (MarkWebhookDelivery).                          *)
(***************************************************************************)
THEOREM RecordedOutcomes == Spec => []OutcomesAreTrue
  <1>1. IInv => OutcomesAreTrue
    BY DEF IInv
  <1> QED
    BY IInvHolds, <1>1, PTL

(***************************************************************************)
(* An endpoint takes an event twice only after a lost answer, a result     *)
(* that was not recorded, or a claim overrun (deliver).                    *)
(***************************************************************************)
THEOREM RepeatsAreExcused == Spec => []RepeatsHaveACause
  <1>1. IInv => RepeatsHaveACause
    BY DEF IInv, TakenInv, RepeatsHaveACause
  <1> QED
    BY IInvHolds, <1>1, PTL
-----------------------------------------------------------------------------
(***************************************************************************)
(* WikiLive.                                                               *)
(***************************************************************************)
(***************************************************************************)
(* The inductive invariant of WikiLive.                                    *)
(***************************************************************************)
(* The characters there are so far, and what is made of them. *)
Known == typed \cup StartChars
Texts == Seq(Known)
ChangesOf(X) == [position : Nat, delete : Nat, insert : Seq(X)]

Rows == [session : Nat \ {0}, revision : Nat, base : Nat, body : Texts]
Shown == [open : BOOLEAN, rich : BOOLEAN, session : Nat, revision : Nat, synced : Texts \cup {NoText},
          initial : Texts \cup {NoText}, text : Texts \cup {NoText}, saves : Nat]
Requests == [who : Editors, waited : BOOLEAN, at : {"lock", "save"}, session : Nat, revision : Nat,
             sent : Texts, changes : {<<>>} \cup {<<c>> : c \in ChangesOf(Known)},
             version : Nat, body : Texts]

LiveValues ==
    /\ page \in [version : Nat \ {0}, body : Texts] /\ draft \in Texts \cup {NoText}
    /\ doc = <<>> \/ \E r \in Rows : doc = <<r>>
    /\ kept \in Seq(ChangesOf(Known))
    /\ editor \in [Editors -> Shown]
    /\ calls \in SUBSET Requests
    /\ fresh \in Nat \ {0}
    /\ typed \in SUBSET UNION {Chars[e] : e \in Editors} /\ erased \in SUBSET Known

(* A text that was the document of a session at a revision of it. *)
Holds(session, revision, text) ==
    doc # <<>> /\ doc[1].session = session =>
        /\ revision <= doc[1].revision
        /\ doc[1].revision - revision <= Len(kept) =>
              ApplyAll(text, LastKept(doc[1].revision - revision)) = doc[1].body

EditorOK(e) ==
    LET ed == editor[e]
    IN  /\ ed.open => ed.text \in Texts /\ Base(ed) \in Texts
        /\ ed.synced = NoText => ed.session = 0
        /\ ed.session < fresh
        /\ ed.synced # NoText => Holds(ed.session, ed.revision, ed.synced)

CallOK(k) ==
    /\ k.session < fresh
    /\ k.at = "lock" =>
          \/ k.session = 0 /\ k.changes = <<>>
          \/ \E b \in Texts : k.changes = liveDiff(b, k.sent) /\ Holds(k.session, k.revision, b)
    /\ k.at = "save" => k.session # 0 /\ Holds(k.session, k.revision, k.sent)
    /\ k.waited => /\ editor[k.who].open
                   /\ k.at = "lock" => /\ editor[k.who].session = k.session
                                       /\ editor[k.who].revision = k.revision

OneCallEach == \A k, l \in calls : k.waited /\ l.waited /\ k.who = l.who => k = l

DocOK == doc # <<>> => doc[1].session < fresh

LiveIInv ==
    /\ LiveValues /\ OneCallEach /\ DocOK /\ CaretsAreInside
    /\ \A e \in Editors : EditorOK(e)
    /\ \A k \in calls : CallOK(k)

(* Max finds the largest of the numbers up to a bound. *)
LEMMA MaxUpTo ==
    ASSUME NEW N \in Nat, NEW S \in SUBSET (0..N), S # {}
    PROVE  Max(S) \in S /\ \A y \in S : y <= Max(S)
  <1> DEFINE T == {N - x : x \in S}
  <1>0. \A x \in S : x \in Int /\ N - x \in Nat
    OBVIOUS
  <1>1. T \in SUBSET Nat /\ T # {}
    BY <1>0, Zenon
  <1>2. PICK t \in T : \A u \in T : t <= u
    BY <1>1, SmallestOf
  <1>3. PICK x \in S : t = N - x
    BY <1>2
  <1>4. \A y \in S : N - x <= N - y
    BY <1>2, <1>3
  <1>5. \A y \in S : x >= y
    BY <1>0, <1>3, <1>4
  <1> QED
    BY <1>0, <1>5 DEF Max

LEMMA OfTwo ==
    ASSUME NEW a \in Int, NEW b \in Int
    PROVE  /\ Min({a, b}) = IF a <= b THEN a ELSE b
           /\ Max({a, b}) = IF a <= b THEN b ELSE a
  <1>1. \E x \in {a, b} : \A y \in {a, b} : x =< y
    OBVIOUS
  <1>2. \E x \in {a, b} : \A y \in {a, b} : x >= y
    OBVIOUS
  <1>3. Min({a, b}) \in {a, b} /\ \A y \in {a, b} : Min({a, b}) <= y
    BY <1>1 DEF Min
  <1>4. Max({a, b}) \in {a, b} /\ \A y \in {a, b} : y <= Max({a, b})
    BY <1>2 DEF Max
  <1> QED
    BY <1>3, <1>4

(***************************************************************************)
(* Text.  What is before and what is after a position.                     *)
(***************************************************************************)
LEMMA PartsOfText ==
    ASSUME NEW X, NEW text \in Seq(X), NEW n \in Nat
    PROVE  /\ Before(text, n) \in Seq(X) /\ After(text, n) \in Seq(X)
           /\ Len(Before(text, n)) = IF n <= Len(text) THEN n ELSE Len(text)
           /\ Len(After(text, n)) = IF n <= Len(text) THEN Len(text) - n ELSE 0
  <1>1. Len(text) \in Nat /\ \A i \in 1..Len(text) : text[i] \in X
    OBVIOUS
  <1>2. Min({n, Len(text)}) = IF n <= Len(text) THEN n ELSE Len(text)
    BY <1>1, OfTwo
  <1>3. /\ Before(text, n) \in Seq(X)
        /\ Len(Before(text, n)) = IF n <= Len(text) THEN n ELSE Len(text)
    <2> DEFINE k == Min({n, Len(text)})
    <2>0. Before(text, n) = SubSeq(text, 1, k) /\ k = IF n <= Len(text) THEN n ELSE Len(text)
      BY <1>2 DEF Before
    <2> HIDE DEF k
    <2>1. k \in Nat /\ \A i \in 1..k : text[i] \in X
      BY <1>1, <2>0
    <2>2. SubSeq(text, 1, k) \in Seq(X) /\ Len(SubSeq(text, 1, k)) = IF 1 <= k THEN k - 1 + 1 ELSE 0
      BY <2>1, SubSeqProperties
    <2> QED
      BY <2>0, <2>1, <2>2
  <1>4. /\ After(text, n) \in Seq(X)
        /\ Len(After(text, n)) = IF n <= Len(text) THEN Len(text) - n ELSE 0
    <2>1. \A i \in (n + 1)..Len(text) : text[i] \in X
      BY <1>1
    <2> DEFINE m == n + 1
               l == Len(text)
    <2>2. m \in Int /\ l \in Int
      BY <1>1
    <2>3. After(text, n) = SubSeq(text, m, l)
      BY DEF After
    <2>4. \A i \in m..l : text[i] \in X
      BY <2>1
    <2> HIDE DEF m, l
    <2>5. SubSeq(text, m, l) \in Seq(X) /\ Len(SubSeq(text, m, l)) = IF m <= l THEN l - m + 1 ELSE 0
      BY <2>2, <2>4, SubSeqProperties
    <2> QED
      BY <1>1, <2>3, <2>5 DEF m, l
  <1> QED
    BY <1>3, <1>4

(* A change makes a text of a text; one that fits makes it so much longer. *)
LEMMA ApplyGivesText ==
    ASSUME NEW X, NEW text \in Seq(X), NEW c \in ChangesOf(X)
    PROVE  /\ liveApply(text, c) \in Seq(X)
           /\ Fits(c, text) => Len(liveApply(text, c)) = Len(text) - c.delete + Len(c.insert)
  <1>1. c.position \in Nat /\ c.delete \in Nat /\ c.position + c.delete \in Nat /\ c.insert \in Seq(X)
    BY DEF ChangesOf
  <1> DEFINE b == Before(text, c.position)
             a == After(text, c.position + c.delete)
             i == c.insert
  <1>2. b \in Seq(X) /\ a \in Seq(X) /\ i \in Seq(X)
    BY <1>1, PartsOfText
  <1>3. Fits(c, text) => Len(b) = c.position /\ Len(a) = Len(text) - (c.position + c.delete)
    BY <1>1, PartsOfText DEF Fits
  <1>4. liveApply(text, c) = b \o i \o a
    BY DEF liveApply
  <1>5. Len(text) \in Nat /\ Len(i) \in Nat
    BY <1>2
  <1> HIDE DEF b, a, i
  <1>6. b \o i \o a \in Seq(X) /\ Len(b \o i \o a) = Len(b) + Len(i) + Len(a)
    BY <1>2
  <1>7. ASSUME Fits(c, text)
        PROVE  Len(b) + Len(i) + Len(a) = Len(text) - c.delete + Len(i)
    <2> DEFINE p == c.position
               d == c.delete
               l == Len(text)
    <2>1. /\ Len(b) = p /\ Len(a) = l - (p + d)
          /\ p \in Nat /\ d \in Nat /\ l \in Nat /\ Len(i) \in Nat
      BY <1>1, <1>3, <1>5, <1>7
    <2> HIDE DEF p, d, l
    <2>2. Len(b) + Len(i) + Len(a) = l - d + Len(i)
      BY <2>1
    <2> QED
      BY <2>2 DEF d, l
  <1>8. i = c.insert
    BY DEF i
  <1> QED
    BY <1>4, <1>6, <1>7, <1>8

(***************************************************************************)
(* liveDiff: the change between two texts fits the first one and gives the *)
(* second one.                                                             *)
(***************************************************************************)
LEMMA DiffIsTheChange ==
    ASSUME NEW X, NEW before \in Seq(X), NEW after \in Seq(X)
    PROVE  /\ before = after => liveDiff(before, after) = <<>>
           /\ before # after => \E c \in ChangesOf(X) :
                 /\ liveDiff(before, after) = <<c>> /\ Fits(c, before)
                 /\ liveApply(before, c) = after
  <1>1. before = after => liveDiff(before, after) = <<>>
    BY DEF liveDiff
  <1>2. ASSUME before # after
        PROVE  \E c \in ChangesOf(X) : /\ liveDiff(before, after) = <<c>> /\ Fits(c, before)
                                       /\ liveApply(before, c) = after
    <2> DEFINE B == Len(before)
               A == Len(after)
               limit == Min({Len(before), Len(after)})
               Starts == {n \in 0..limit : SameStart(before, after, n)}
               begin == Max(Starts)
               Ends_ == {n \in 0..(limit - begin) : SameEnd(before, after, n)}
               end == Max(Ends_)
               c == Change(begin, Len(before) - begin - end, SubSeq(after, begin + 1, Len(after) - end))
    <2>1. liveDiff(before, after) = <<c>>
      BY <1>2, Zenon DEF liveDiff
    <2>2. /\ B \in Nat /\ A \in Nat /\ limit \in Nat /\ limit <= B /\ limit <= A
      BY OfTwo
    <2>3. begin \in 0..limit /\ SameStart(before, after, begin)
      <3>1. 0 \in Starts
        <4>1. Before(before, 0) = <<>> /\ Before(after, 0) = <<>>
          <5>1. Len(Before(before, 0)) = 0 /\ Len(Before(after, 0)) = 0
                /\ Before(before, 0) \in Seq(X) /\ Before(after, 0) \in Seq(X)
            BY PartsOfText
          <5> QED
            BY <5>1, EmptySeq
        <4> QED
          BY <2>2, <4>1 DEF SameStart
      <3>2. Starts \in SUBSET (0..limit)
        OBVIOUS
      <3> HIDE DEF Starts, limit
      <3>3. Max(Starts) \in Starts
        BY <2>2, <3>1, <3>2, MaxUpTo
      <3> QED
        BY <3>3 DEF Starts
    <2> HIDE DEF begin, Starts, limit
    <2>4. end \in 0..(limit - begin) /\ SameEnd(before, after, end)
      <3>1. 0 \in Ends_
        <4>1. After(before, B - 0) = <<>> /\ After(after, A - 0) = <<>>
          <5>1. B - 0 = B /\ A - 0 = A
            BY <2>2
          <5>2. After(before, B) \in Seq(X) /\ Len(After(before, B)) = 0
            BY <2>2, PartsOfText
          <5>3. After(after, A) \in Seq(X) /\ Len(After(after, A)) = 0
            BY <2>2, PartsOfText
          <5> QED
            BY <5>1, <5>2, <5>3, EmptySeq
        <4> QED
          BY <2>2, <2>3, <4>1 DEF SameEnd
      <3>2. Ends_ \in SUBSET (0..(limit - begin)) /\ limit - begin \in Nat
        BY <2>2, <2>3
      <3> HIDE DEF Ends_
      <3>3. Max(Ends_) \in Ends_
        BY <3>1, <3>2, MaxUpTo
      <3> QED
        BY <3>3 DEF Ends_
    <2> HIDE DEF end, Ends_
    <2>5. /\ begin \in Nat /\ end \in Nat /\ begin <= B /\ begin <= A
          /\ begin + end <= B /\ begin + end <= A
          /\ B - begin - end \in Nat /\ A - end \in Nat /\ B - end \in Nat
      BY <2>2, <2>3, <2>4
    <2> DEFINE mid == SubSeq(after, begin + 1, A - end)
    <2>6. mid \in Seq(X)
      <3>1. begin + 1 \in Int /\ A - end \in Int /\ \A i \in (begin + 1)..(A - end) : after[i] \in X
        BY <2>2, <2>5
      <3> QED
        BY <3>1, SubSeqProperties
    <2>7. c.position = begin /\ c.delete = B - begin - end /\ c.insert = mid /\ c \in ChangesOf(X)
      BY <2>5, <2>6 DEF Change, ChangesOf
    <2>8. Fits(c, before)
      BY <2>2, <2>5, <2>7 DEF Fits
    <2>9. liveApply(before, c) = after
      <3>1. Before(before, begin) = SubSeq(after, 1, begin)
        <4>1. Min({begin, Len(after)}) = begin
          BY <2>2, <2>5, OfTwo
        <4>2. Before(after, begin) = SubSeq(after, 1, begin)
          BY <4>1 DEF Before
        <4> QED
          BY <2>3, <4>2 DEF SameStart
      <3>2. After(before, begin + (B - begin - end)) = SubSeq(after, (A - end) + 1, A)
        <4>1. begin + (B - begin - end) = B - end
          BY <2>2, <2>5
        <4> QED
          BY <2>4, <4>1 DEF SameEnd, After
      <3>3. SubSeq(after, 1, begin) \o mid = SubSeq(after, 1, A - end)
        <4>1. 1 \in 1..A+1 /\ begin \in 1-1..A /\ A - end \in begin..A
          BY <2>2, <2>5
        <4> QED
          BY <4>1, ConcatAdjacentSubSeq
      <3>4. SubSeq(after, 1, A - end) \o SubSeq(after, (A - end) + 1, A) = SubSeq(after, 1, A)
        <4>1. 1 \in 1..A+1 /\ A - end \in 1-1..A /\ A \in (A - end)..A
          BY <2>2, <2>5
        <4> QED
          BY <4>1, ConcatAdjacentSubSeq
      <3>5. SubSeq(after, 1, A) = after
        BY SubSeqFull
      <3>6. liveApply(before, c) = Before(before, begin) \o mid \o After(before, begin + (B - begin - end))
        BY <2>7, Zenon DEF liveApply
      <3> HIDE DEF c, mid, A, B
      <3> QED
        BY <3>1, <3>2, <3>3, <3>4, <3>5, <3>6
    <2> QED
      BY <2>1, <2>7, <2>8, <2>9
  <1> QED
    BY <1>1, <1>2

(***************************************************************************)
(* One change after the other: what is done n times is there for every n.  *)
(***************************************************************************)
Comes(f, x, cs, g) == g[0] = x /\ \A n \in 1..Len(cs) : g[n] = f[cs[n]][g[n - 1]]

LEMMA Iterates ==
    ASSUME NEW S, NEW C, NEW f \in [C -> [S -> S]], NEW x \in S, NEW cs \in Seq(C)
    PROVE  \E g \in [0..Len(cs) -> S] : Comes(f, x, cs, g)
  <1> DEFINE So(n, g) == g[0] = x /\ \A k \in 1..n : g[k] = f[cs[k]][g[k - 1]]
             Bad == {n \in 0..Len(cs) : ~ \E g \in [0..n -> S] : So(n, g)}
  <1>1. Len(cs) \in Nat
    OBVIOUS
  <1>2. Bad = {}
    <2> SUFFICES ASSUME Bad # {} PROVE FALSE
      OBVIOUS
    <2>1. PICK n \in Bad : \A k \in Bad : n <= k
      <3>1. Bad \in SUBSET Nat
        BY <1>1
      <3> HIDE DEF Bad
      <3> QED
        BY <3>1, SmallestOf
    <2>2. n # 0
      <3>1. [k \in 0..0 |-> x] \in [0..0 -> S] /\ So(0, [k \in 0..0 |-> x])
        OBVIOUS
      <3> QED
        BY <3>1
    <2>3. n \in 1..Len(cs) /\ n - 1 \in 0..Len(cs) /\ n - 1 \notin Bad
      <3>1. n \in 1..Len(cs) /\ n - 1 \in 0..Len(cs) /\ ~(n <= n - 1)
        BY <1>1, <2>2
      <3> HIDE DEF Bad
      <3> QED
        BY <2>1, <3>1
    <2>4. PICK g \in [0..(n - 1) -> S] : So(n - 1, g)
      BY <2>3
    <2> DEFINE h == [k \in 0..n |-> IF k = n THEN f[cs[n]][g[n - 1]] ELSE g[k]]
    <2>5. cs[n] \in C /\ g[n - 1] \in S
      BY <2>3, <2>4
    <2>6. h \in [0..n -> S]
      <3>1. f[cs[n]][g[n - 1]] \in S
        BY <2>5
      <3>2. \A k \in 0..n : k = n \/ k \in 0..(n - 1)
        BY <2>3
      <3> QED
        BY <2>4, <3>1, <3>2
    <2>7. So(n, h)
      <3>1. h[0] = x
        BY <2>3, <2>4
      <3>2. ASSUME NEW k \in 1..n PROVE h[k] = f[cs[k]][h[k - 1]]
        <4>1. h[k - 1] = g[k - 1]
          BY <2>3
        <4>2. CASE k = n
          <5>1. h[n] = f[cs[n]][g[n - 1]]
            BY <2>3
          <5> HIDE DEF h
          <5> QED
            BY <4>1, <4>2, <5>1
        <4>3. CASE k # n
          BY <2>3, <2>4, <4>1, <4>3
        <4> QED
          BY <4>2, <4>3
      <3> QED
        BY <3>1, <3>2
    <2> QED
      BY <2>6, <2>7
  <1>3. Len(cs) \notin Bad
    BY <1>2
  <1> QED
    BY <1>1, <1>3 DEF Comes

(* What starts the same and goes on the same is the same. *)
LEMMA SameIterates ==
    ASSUME NEW N \in Nat, NEW g, NEW h, g[0] = h[0],
           \A n \in 1..N : g[n - 1] = h[n - 1] => g[n] = h[n]
    PROVE  \A n \in 0..N : g[n] = h[n]
  <1> DEFINE Bad == {n \in 0..N : g[n] # h[n]}
  <1> SUFFICES ASSUME Bad # {} PROVE FALSE
    OBVIOUS
  <1>1. PICK n \in Bad : \A k \in Bad : n <= k
    <2>1. Bad \in SUBSET Nat
      OBVIOUS
    <2> HIDE DEF Bad
    <2> QED
      BY <2>1, SmallestOf
  <1>2. n \in 1..N /\ n - 1 \in 0..N
    OBVIOUS
  <1>3. g[n - 1] = h[n - 1]
    <2>1. ~(n <= n - 1)
      BY <1>2
    <2> QED
      BY <1>1, <1>2, <2>1
  <1> QED
    BY <1>2, <1>3

(* ApplyAll, change by change. *)
LEMMA ApplyAllSteps ==
    ASSUME NEW X, NEW text \in Seq(X), NEW cs \in Seq(ChangesOf(X))
    PROVE  \E g \in [0..Len(cs) -> Seq(X)] :
              /\ g[0] = text /\ ApplyAll(text, cs) = g[Len(cs)]
              /\ \A n \in 1..Len(cs) : g[n] = liveApply(g[n - 1], cs[n])
  <1> DEFINE T == Seq(X)
             C == ChangesOf(X)
             f == [c \in C |-> [t \in T |-> liveApply(t, c)]]
             So(d) == d = [n \in 0..Len(cs) |-> IF n = 0 THEN text ELSE liveApply(d[n - 1], cs[n])]
             Done == CHOOSE d : So(d)
  <1>1. \A t \in T, c \in C : liveApply(t, c) \in T
    BY ApplyGivesText
  <1>2. text \in T /\ cs \in Seq(C) /\ Len(cs) \in Nat /\ \A n \in 1..Len(cs) : cs[n] \in C
    OBVIOUS
  <1>3. ApplyAll(text, cs) = Done[Len(cs)]
    BY Zenon DEF ApplyAll
  <1> HIDE DEF T, C
  <1>4. f \in [C -> [T -> T]] /\ \A t \in T, c \in C : f[c][t] = liveApply(t, c)
    BY <1>1
  <1> HIDE DEF f
  <1>5. PICK g \in [0..Len(cs) -> T] : g[0] = text /\ \A n \in 1..Len(cs) : g[n] = f[cs[n]][g[n - 1]]
    <2>1. \E g \in [0..Len(cs) -> T] : Comes(f, text, cs, g)
      BY <1>2, <1>4, Iterates
    <2> QED
      BY <2>1 DEF Comes
  <1>6. \A n \in 1..Len(cs) : g[n] = liveApply(g[n - 1], cs[n])
    <2> SUFFICES ASSUME NEW n \in 1..Len(cs) PROVE g[n] = liveApply(g[n - 1], cs[n])
      OBVIOUS
    <2>1. g[n - 1] \in T /\ cs[n] \in C
      BY <1>2, <1>5
    <2> QED
      BY <1>4, <1>5, <2>1
  <1>7. So(g)
    BY <1>2, <1>5, <1>6
  <1>8. So(Done)
    <2> HIDE DEF So
    <2> QED
      BY <1>7
  <1> HIDE DEF Done
  <1>9. Done[0] = text /\ \A n \in 1..Len(cs) : Done[n] = liveApply(Done[n - 1], cs[n])
    <2>1. 0 \in 0..Len(cs) /\ \A n \in 1..Len(cs) : n \in 0..Len(cs) /\ n # 0
      BY <1>2
    <2> QED
      BY <1>8, <2>1
  <1> HIDE DEF So
  <1>10. \A n \in 0..Len(cs) : Done[n] = g[n]
    <2>1. \A n \in 1..Len(cs) : Done[n - 1] = g[n - 1] => Done[n] = g[n]
      BY <1>6, <1>9
    <2>2. Done[0] = g[0] /\ Len(cs) \in Nat
      BY <1>2, <1>5, <1>9
    <2> QED
      BY <2>1, <2>2, SameIterates, Zenon
  <1>11. Done[Len(cs)] = g[Len(cs)]
    BY <1>2, <1>10
  <1> QED
    BY <1>3, <1>5, <1>6, <1>11 DEF T

(***************************************************************************)
(* ApplyAll makes a text of a text; no change leaves it as it is, and one  *)
(* more change is done to what the others made.                            *)
(***************************************************************************)
LEMMA ApplyAllGivesText ==
    ASSUME NEW X, NEW text \in Seq(X), NEW cs \in Seq(ChangesOf(X))
    PROVE  ApplyAll(text, cs) \in Seq(X) /\ (cs = <<>> => ApplyAll(text, cs) = text)
  <1>1. PICK g \in [0..Len(cs) -> Seq(X)] : g[0] = text /\ ApplyAll(text, cs) = g[Len(cs)]
    BY ApplyAllSteps
  <1>2. Len(cs) \in Nat
    OBVIOUS
  <1> QED
    BY <1>1, <1>2

LEMMA OneMoreChange ==
    ASSUME NEW X, NEW text \in Seq(X), NEW cs \in Seq(ChangesOf(X)), NEW c \in ChangesOf(X)
    PROVE  ApplyAll(text, Append(cs, c)) = liveApply(ApplyAll(text, cs), c)
  <1> DEFINE C == ChangesOf(X)
             ds == Append(cs, c)
             L == Len(cs)
  <1>1. cs \in Seq(C) /\ c \in C
    OBVIOUS
  <1>0. \A es \in Seq(C) : \E h : /\ h[0] = text /\ ApplyAll(text, es) = h[Len(es)]
                                 /\ \A n \in 1..Len(es) : h[n] = liveApply(h[n - 1], es[n])
    <2> SUFFICES ASSUME NEW es \in Seq(C)
                 PROVE  \E h : /\ h[0] = text /\ ApplyAll(text, es) = h[Len(es)]
                              /\ \A n \in 1..Len(es) : h[n] = liveApply(h[n - 1], es[n])
      BY Zenon
    <2>1. PICK h \in [0..Len(es) -> Seq(X)] :
                 /\ h[0] = text /\ ApplyAll(text, es) = h[Len(es)]
                 /\ \A n \in 1..Len(es) : h[n] = liveApply(h[n - 1], es[n])
      BY ApplyAllSteps
    <2> QED
      BY <2>1, Zenon
  <1> HIDE DEF C
  <1>2. /\ ds \in Seq(C) /\ L \in Nat /\ Len(ds) = L + 1 /\ ds[L + 1] = c
        /\ \A n \in 1..L : ds[n] = cs[n]
    BY <1>1
  <1>3. PICK g : /\ g[0] = text /\ ApplyAll(text, cs) = g[L]
                 /\ \A n \in 1..L : g[n] = liveApply(g[n - 1], cs[n])
    BY <1>0, <1>1
  <1> HIDE DEF ds
  <1>4. PICK h : /\ h[0] = text /\ ApplyAll(text, ds) = h[Len(ds)]
                 /\ \A n \in 1..Len(ds) : h[n] = liveApply(h[n - 1], ds[n])
    BY <1>0, <1>2
  <1> HIDE DEF L
  <1>5. \A n \in 1..L : h[n] = liveApply(h[n - 1], cs[n])
    BY <1>2, <1>4
  <1>6. \A n \in 0..L : g[n] = h[n]
    <2>1. \A n \in 1..L : g[n - 1] = h[n - 1] => g[n] = h[n]
      BY <1>3, <1>5
    <2>2. g[0] = h[0] /\ L \in Nat
      BY <1>2, <1>3, <1>4
    <2> QED
      BY <2>1, <2>2, SameIterates, Zenon
  <1>7. h[L + 1] = liveApply(h[L], c) /\ h[L] = g[L]
    <2>1. L + 1 \in 1..Len(ds) /\ L + 1 - 1 = L /\ L \in 0..L
      BY <1>2
    <2> QED
      BY <1>2, <1>4, <1>6, <2>1
  <1> QED
    BY <1>2, <1>3, <1>4, <1>7 DEF ds

(***************************************************************************)
(* What liveRebase makes of a change: itself, if it ends before what was   *)
(* applied begins; what is left of it behind that, if it begins there or   *)
(* further on; or both parts, the later one first.                         *)
(***************************************************************************)
RebasedBehind(local, applied, c, m) ==
    /\ c.position = applied.position + Len(applied.insert) + m /\ c.insert = local.insert
    /\ \/ c.delete = 0
       \/ /\ local.position <= applied.position + applied.delete + m
          /\ applied.position + applied.delete + m + c.delete = local.position + local.delete

RebasedAround(local, applied, tail, front) ==
    /\ local.position < applied.position /\ applied.position < local.position + local.delete
    /\ tail.position = applied.position + Len(applied.insert) /\ tail.insert = <<>>
    /\ \/ tail.delete = 0
       \/ applied.position + applied.delete + tail.delete = local.position + local.delete
    /\ front.position = local.position /\ front.insert = local.insert
    /\ front.delete = applied.position - local.position

Rebased(X, local, applied, cs) ==
    \/ local.position + local.delete <= applied.position /\ cs = <<local>>
    \/ \E c \in ChangesOf(X), m \in Nat : cs = <<c>> /\ RebasedBehind(local, applied, c, m)
    \/ \E tail, front \in ChangesOf(X) :
          cs = <<tail, front>> /\ RebasedAround(local, applied, tail, front)

LEMMA RebaseIs ==
    ASSUME NEW X, NEW local \in ChangesOf(X), NEW applied \in ChangesOf(X)
    PROVE  Rebased(X, local, applied, liveRebase(local, applied))
  <1> DEFINE aStart == local.position
             aEnd == local.position + local.delete
             bStart == applied.position
             bEnd == applied.position + applied.delete
             inserted == Len(applied.insert)
             left == Max({aEnd - bEnd, 0})
             tail == Change(bStart + inserted, left, <<>>)
             front == Change(aStart, bStart - aStart, local.insert)
             moved == Change(bStart + inserted, left, local.insert)
             over == [local EXCEPT !.position = @ - applied.delete + inserted]
             C == ChangesOf(X)
             ahead == aEnd <= bStart /\ aStart < bStart
             there == local.delete = 0 /\ aStart = bStart
             behind == aStart >= bEnd /\ ~(local.delete = 0 /\ aStart = bStart)
             around == aEnd > bStart /\ aStart < bStart
  <1>1. /\ aStart \in Nat /\ aEnd \in Nat /\ bStart \in Nat /\ bEnd \in Nat /\ inserted \in Nat
        /\ local.insert \in Seq(X) /\ local.delete \in Nat /\ applied.delete \in Nat
        /\ bEnd = bStart + applied.delete /\ aEnd = aStart + local.delete
    BY DEF ChangesOf
  <1>2. left = IF aEnd - bEnd <= 0 THEN 0 ELSE aEnd - bEnd
    <2> DEFINE more == aEnd - bEnd
    <2>1. more \in Int /\ 0 \in Int
      BY <1>1
    <2> HIDE DEF more
    <2>2. Max({more, 0}) = IF more <= 0 THEN 0 ELSE more
      BY <2>1, OfTwo, Zenon
    <2> QED
      BY <2>2 DEF more
  <1> HIDE DEF left
  <1>3. /\ left \in Nat /\ bStart + inserted \in Nat /\ <<>> \in Seq(X)
        /\ left = 0 \/ bEnd + left = aEnd
    BY <1>1, <1>2
  <1>4. liveRebase(local, applied) =
            CASE ahead -> <<local>> [] there -> <<moved>> [] behind -> <<over>>
              [] around -> <<tail, front>> [] OTHER -> <<moved>>
    BY Zenon DEF liveRebase, left
  <1>5. /\ tail \in C /\ moved \in C
        /\ tail.position = bStart + inserted /\ tail.delete = left /\ tail.insert = <<>>
        /\ moved.position = bStart + inserted /\ moved.delete = left /\ moved.insert = local.insert
    BY <1>1, <1>3 DEF Change, ChangesOf
  <1>6. around => /\ front \in C /\ front.position = aStart /\ front.delete = bStart - aStart
                  /\ front.insert = local.insert
    BY <1>1 DEF Change, ChangesOf
  <1>7. behind => \E m \in Nat :
            /\ over \in C /\ m = aStart - bEnd /\ over.position = bStart + inserted + m
            /\ over.delete = local.delete /\ over.insert = local.insert
    <2> SUFFICES ASSUME behind
                 PROVE  /\ over \in C /\ aStart - bEnd \in Nat /\ over.position = bStart + inserted + (aStart - bEnd)
                        /\ over.delete = local.delete /\ over.insert = local.insert
      OBVIOUS
    <2>1. /\ aStart - applied.delete + inserted \in Nat /\ aStart - bEnd \in Nat
          /\ aStart - applied.delete + inserted = bStart + inserted + (aStart - bEnd)
      <3> DEFINE d == applied.delete
      <3>1. aStart >= bEnd /\ d \in Nat /\ bEnd = bStart + d
        BY <1>1
      <3> HIDE DEF aStart, bStart, bEnd, inserted, d
      <3>2. aStart - d \in Nat /\ aStart - d = bStart + (aStart - bEnd)
        BY <1>1, <3>1
      <3>3. aStart - d + inserted \in Nat /\ aStart - bEnd \in Nat
        BY <1>1, <3>1, <3>2
      <3> QED
        BY <1>1, <3>1, <3>2, <3>3 DEF d
    <2>2. over.position = aStart - applied.delete + inserted /\ over.delete = local.delete /\ over.insert = local.insert
      BY DEF ChangesOf
    <2>3. over \in C
      BY <2>1 DEF ChangesOf
    <2> QED
      BY <2>1, <2>2, <2>3
  <1> DEFINE cs == liveRebase(local, applied)
  <1>8. \/ aEnd <= bStart /\ cs = <<local>>
        \/ /\ cs = <<moved>>
           /\ left = 0 \/ aStart <= bEnd
        \/ behind /\ cs = <<over>>
        \/ around /\ cs = <<tail, front>>
    <2>1. ahead => aEnd <= bStart
      OBVIOUS
    <2>2. there => left = 0 \/ aStart <= bEnd
      BY <1>1
    <2>3. ~ahead /\ ~there /\ ~behind /\ ~around => left = 0 \/ aStart <= bEnd
      BY <1>1
    <2> DEFINE before == aEnd <= bStart
               fits == left = 0 \/ aStart <= bEnd
    <2>4. (ahead => before) /\ (there => fits) /\ (~ahead /\ ~there /\ ~behind /\ ~around => fits)
      BY <2>1, <2>2, <2>3
    <2> HIDE DEF ahead, there, behind, around, tail, front, moved, over, before, fits, cs
    <2>5. \/ before /\ cs = <<local>>
          \/ cs = <<moved>> /\ fits
          \/ behind /\ cs = <<over>>
          \/ around /\ cs = <<tail, front>>
      BY <1>4, <2>4, Zenon DEF cs
    <2> QED
      BY <2>5 DEF before, fits
  <1> HIDE DEF cs
  <1>9. CASE cs = <<moved>> /\ (left = 0 \/ aStart <= bEnd)
    <2>1. RebasedBehind(local, applied, moved, 0)
      <3>1. bStart + inserted + 0 = bStart + inserted /\ bEnd + 0 = bEnd
        BY <1>1
      <3> HIDE DEF moved
      <3> QED
        BY <1>3, <1>5, <1>9, <3>1 DEF RebasedBehind
    <2> HIDE DEF moved
    <2> QED
      BY <1>5, <1>9, <2>1 DEF Rebased, cs
  <1>10. CASE behind /\ cs = <<over>>
    <2>1. PICK m \in Nat :
            /\ over \in C /\ m = aStart - bEnd /\ over.position = bStart + inserted + m
            /\ over.delete = local.delete /\ over.insert = local.insert
      BY <1>7, <1>10
    <2> HIDE DEF over
    <2>2. bEnd + m = aStart /\ aStart + local.delete = aEnd
      BY <1>1, <2>1
    <2>3. RebasedBehind(local, applied, over, m)
      BY <1>1, <2>1, <2>2 DEF RebasedBehind
    <2> QED
      BY <1>10, <2>1, <2>3 DEF Rebased, cs
  <1>11. CASE around /\ cs = <<tail, front>>
    <2>1. front \in C /\ front.position = aStart /\ front.delete = bStart - aStart /\ front.insert = local.insert
      BY <1>6, <1>11
    <2>2. aStart < bStart /\ bStart < aEnd
      BY <1>1, <1>11
    <2> HIDE DEF tail, front
    <2>3. RebasedAround(local, applied, tail, front)
      BY <1>3, <1>5, <2>1, <2>2 DEF RebasedAround
    <2> QED
      BY <1>5, <1>11, <2>1, <2>3 DEF Rebased, cs
  <1> QED
    BY <1>8, <1>9, <1>10, <1>11 DEF Rebased, cs

(* liveRebase gives changes. *)
LEMMA RebaseGivesChanges ==
    ASSUME NEW X, NEW local \in ChangesOf(X), NEW applied \in ChangesOf(X)
    PROVE  liveRebase(local, applied) \in Seq(ChangesOf(X))
  <1> DEFINE C == ChangesOf(X)
             cs == liveRebase(local, applied)
  <1>1. \/ cs = <<local>>
        \/ \E c \in C : cs = <<c>>
        \/ \E tail, front \in C : cs = <<tail, front>>
    BY RebaseIs, Zenon DEF Rebased
  <1> HIDE DEF C, cs
  <1>2. /\ local \in C
        /\ \A x, y : x \in C /\ y \in C => <<x>> \in Seq(C) /\ <<x, y>> \in Seq(C)
    BY DEF C
  <1>3. cs \in Seq(C)
    BY <1>1, <1>2
  <1> QED
    BY <1>3 DEF C, cs

(* A change and the own work carried over it: texts again. *)
LEMMA CarriedGivesTexts ==
    ASSUME NEW X, NEW at \in [base : Seq(X), current : Seq(X)], NEW c \in ChangesOf(X)
    PROVE  Carried(at, c) \in [base : Seq(X), current : Seq(X)]
  <1> DEFINE next == liveApply(at.base, c)
             pending == liveDiff(at.base, at.current)
             current == IF pending = <<>> THEN next ELSE ApplyAll(next, liveRebase(pending[1], c))
  <1>1. at.base \in Seq(X) /\ at.current \in Seq(X)
    OBVIOUS
  <1>2. next \in Seq(X)
    BY <1>1, ApplyGivesText
  <1>3. pending = <<>> \/ pending[1] \in ChangesOf(X)
    BY <1>1, DiffIsTheChange
  <1>4. Carried(at, c) = [base |-> next, current |-> current]
    BY Zenon DEF Carried
  <1> HIDE DEF next, pending
  <1>5. ASSUME pending # <<>>
        PROVE  ApplyAll(next, liveRebase(pending[1], c)) \in Seq(X)
    <2>1. pending[1] \in ChangesOf(X)
      BY <1>3, <1>5
    <2>2. liveRebase(pending[1], c) \in Seq(ChangesOf(X))
      BY <2>1, RebaseGivesChanges
    <2> QED
      BY <1>2, <2>2, ApplyAllGivesText
  <1>6. current \in Seq(X)
    BY <1>2, <1>5
  <1> QED
    BY <1>2, <1>4, <1>6

(***************************************************************************)
(* liveMerge carries the work over one change after the other, and makes a *)
(* text of texts.                                                          *)
(***************************************************************************)
LEMMA MergeSteps ==
    ASSUME NEW X, NEW synced \in Seq(X), NEW local \in Seq(X), NEW cs \in Seq(ChangesOf(X))
    PROVE  \E g \in [0..Len(cs) -> [base : Seq(X), current : Seq(X)]] :
              /\ g[0] = [base |-> synced, current |-> local]
              /\ liveMerge(synced, local, cs) = g[Len(cs)].current
              /\ \A n \in 1..Len(cs) : g[n] = Carried(g[n - 1], cs[n])
  <1> DEFINE T == [base : Seq(X), current : Seq(X)]
             C == ChangesOf(X)
             first == [base |-> synced, current |-> local]
             f == [c \in C |-> [at \in T |-> Carried(at, c)]]
             So(m) == m = [n \in 0..Len(cs) |-> IF n = 0 THEN [base |-> synced, current |-> local]
                                                ELSE Carried(m[n - 1], cs[n])]
             Merged == CHOOSE m : So(m)
  <1>1. \A at \in T, c \in C : Carried(at, c) \in T
    BY CarriedGivesTexts
  <1>2. first \in T /\ cs \in Seq(C) /\ Len(cs) \in Nat /\ \A n \in 1..Len(cs) : cs[n] \in C
    OBVIOUS
  <1>3. liveMerge(synced, local, cs) = Merged[Len(cs)].current
    BY Zenon DEF liveMerge
  <1> HIDE DEF T, C
  <1>5. f \in [C -> [T -> T]] /\ \A at \in T, c \in C : f[c][at] = Carried(at, c)
    BY <1>1
  <1> HIDE DEF f
  <1>6. PICK g \in [0..Len(cs) -> T] : g[0] = first /\ \A n \in 1..Len(cs) : g[n] = f[cs[n]][g[n - 1]]
    <2>1. \E g \in [0..Len(cs) -> T] : Comes(f, first, cs, g)
      <3> HIDE DEF first
      <3> QED
        BY <1>2, <1>5, Iterates
    <2> QED
      BY <2>1 DEF Comes
  <1>7. \A n \in 1..Len(cs) : g[n] = Carried(g[n - 1], cs[n])
    <2> SUFFICES ASSUME NEW n \in 1..Len(cs) PROVE g[n] = Carried(g[n - 1], cs[n])
      OBVIOUS
    <2>0. n - 1 \in 0..Len(cs)
      BY <1>2
    <2>1. g[n - 1] \in T /\ cs[n] \in C
      <3>1. g \in [0..Len(cs) -> T]
        BY <1>6
      <3> QED
        BY <1>2, <2>0, <3>1, Zenon
    <2> QED
      BY <1>5, <1>6, <2>1
  <1>8. So(g)
    BY <1>2, <1>6, <1>7
  <1>9. So(Merged)
    <2> HIDE DEF So
    <2> QED
      BY <1>8
  <1> HIDE DEF Merged
  <1>10. Merged[0] = first /\ \A n \in 1..Len(cs) : Merged[n] = Carried(Merged[n - 1], cs[n])
    <2>1. 0 \in 0..Len(cs) /\ \A n \in 1..Len(cs) : n \in 0..Len(cs) /\ n # 0
      BY <1>2
    <2> QED
      BY <1>9, <2>1
  <1> HIDE DEF So, first
  <1>11. \A n \in 0..Len(cs) : Merged[n] = g[n]
    <2>1. \A n \in 1..Len(cs) : Merged[n - 1] = g[n - 1] => Merged[n] = g[n]
      BY <1>7, <1>10
    <2>2. Merged[0] = g[0] /\ Len(cs) \in Nat
      BY <1>2, <1>6, <1>10
    <2> QED
      BY <2>1, <2>2, SameIterates, Zenon
  <1>12. Merged[Len(cs)] = g[Len(cs)]
    BY <1>2, <1>11
  <1> QED
    BY <1>3, <1>6, <1>7, <1>12 DEF first, T

LEMMA MergeGivesText ==
    ASSUME NEW X, NEW synced \in Seq(X), NEW local \in Seq(X), NEW cs \in Seq(ChangesOf(X))
    PROVE  liveMerge(synced, local, cs) \in Seq(X)
  <1> DEFINE T == [base : Seq(X), current : Seq(X)]
             N == Len(cs)
  <1>1. PICK g \in [0..N -> T] : /\ g[0] = [base |-> synced, current |-> local]
                                 /\ liveMerge(synced, local, cs) = g[N].current
                                 /\ \A n \in 1..N : g[n] = Carried(g[n - 1], cs[n])
    BY MergeSteps
  <1>2. N \in 0..N
    OBVIOUS
  <1>3. g[N] \in T
    BY <1>2
  <1> QED
    BY <1>1, <1>3

-----------------------------------------------------------------------------
(* Of no change nothing is kept back, and the newest change is the last. *)
LEMMA LastOfNone ==
    ASSUME NEW log, NEW n \in Nat, n = Len(log)
    PROVE  SubSeq(log, n - 0 + 1, n) = <<>>
  <1>1. n + 1 > n
    OBVIOUS
  <1> QED
    BY <1>1, SubSeqEmpty

(***************************************************************************)
(* When a change is kept and the oldest are pruned, the last m + 1 are the *)
(* last m from before and the new one.                                     *)
(***************************************************************************)
EndsWith(pruned, log, c, m) ==
    m + 1 <= Len(pruned) =>
        /\ m <= Len(log)
        /\ SubSeq(pruned, Len(pruned) - (m + 1) + 1, Len(pruned))
              = Append(SubSeq(log, Len(log) - m + 1, Len(log)), c)

LEMMA LastOfPruned ==
    ASSUME NEW C, NEW log \in Seq(C), NEW c \in C, NEW m \in Nat, NEW from \in 1..(Len(log) + 1)
    PROVE  /\ SubSeq(Append(log, c), from, Len(log) + 1) \in Seq(C)
           /\ EndsWith(SubSeq(Append(log, c), from, Len(log) + 1), log, c, m)
  <1> DEFINE L == Len(log)
             all == Append(log, c)
             cut == SubSeq(all, from, L + 1)
  <1>1. L \in Nat /\ all \in Seq(C) /\ Len(all) = L + 1 /\ all[L + 1] = c /\ \A i \in 1..L : all[i] = log[i] /\ log[i] \in C
    OBVIOUS
  <1>2. from \in Nat \ {0} /\ from <= L + 1
    BY <1>1
  <1>3. cut = SubSeq(all, from, L + 1)
    OBVIOUS
  <1> HIDE DEF all, L, cut
  <1> DEFINE P == (L + 1) - from + 1
  <1>4. /\ cut \in Seq(C) /\ Len(cut) = P
        /\ \A i \in 1..P : cut[i] = all[from + i - 1] /\ cut[i] \in C
    <2> DEFINE top == L + 1
    <2>1. from \in Int /\ top \in Int /\ from <= top /\ \A i \in from..top : all[i] \in C
      BY <1>1, <1>2
    <2>2. cut = SubSeq(all, from, top) /\ P = top - from + 1
      BY <1>3
    <2> HIDE DEF top, P
    <2>3. /\ SubSeq(all, from, top) \in Seq(C)
          /\ Len(SubSeq(all, from, top)) = IF from <= top THEN top - from + 1 ELSE 0
          /\ \A i \in 1..(top - from + 1) : SubSeq(all, from, top)[i] = all[from + i - 1]
      BY <2>1, SubSeqProperties
    <2>4. /\ cut \in Seq(C) /\ Len(cut) = P
          /\ \A i \in 1..P : cut[i] = all[from + i - 1]
      BY <2>1, <2>2, <2>3
    <2> QED
      BY <2>4
  <1>5. ASSUME m + 1 <= Len(cut)
        PROVE  /\ m <= L
               /\ SubSeq(cut, Len(cut) - (m + 1) + 1, Len(cut)) = Append(SubSeq(log, L - m + 1, L), c)
    <2> DEFINE s == SubSeq(cut, P - (m + 1) + 1, P)
               t == SubSeq(log, L - m + 1, L)
               a == P - (m + 1) + 1
               b == L - m + 1
    <2>1. /\ P \in Nat /\ m + 1 <= P /\ P <= L + 1 /\ m <= L
          /\ a \in Nat \ {0} /\ b \in Nat \ {0} /\ P - a + 1 = m + 1 /\ L - b + 1 = m
          /\ a + from - 1 = b
      BY <1>1, <1>2, <1>4, <1>5
    <2>2. s = SubSeq(cut, a, P) /\ t = SubSeq(log, b, L)
      OBVIOUS
    <2> HIDE DEF a, b, s, t, P
    <2>3. s \in Seq(C) /\ Len(s) = m + 1 /\ \A i \in 1..(m + 1) : s[i] = cut[a + i - 1]
      <3>2. a \in Int /\ P \in Int /\ a <= P /\ (\A i \in a..P : cut[i] \in C)
        BY <1>4, <2>1
      <3>3. /\ SubSeq(cut, a, P) \in Seq(C)
            /\ Len(SubSeq(cut, a, P)) = IF a <= P THEN P - a + 1 ELSE 0
            /\ \A i \in 1..(P - a + 1) : SubSeq(cut, a, P)[i] = cut[a + i - 1]
        BY <3>2, SubSeqProperties
      <3> QED
        BY <2>1, <2>2, <3>2, <3>3
    <2>4. t \in Seq(C) /\ Len(t) = m /\ \A i \in 1..m : t[i] = log[b + i - 1]
      <3>1. \A i \in b..L : log[i] \in C
        BY <1>1, <2>1
      <3>2. b <= L + 1 /\ b \in Int /\ L \in Int
        BY <1>1, <2>1
      <3> QED
        BY <1>1, <2>1, <2>2, <3>1, <3>2, SubSeqProperties
    <2>5. /\ Append(t, c) \in Seq(C) /\ Len(Append(t, c)) = m + 1 /\ Append(t, c)[m + 1] = c
          /\ \A i \in 1..m : Append(t, c)[i] = t[i]
      BY <2>4
    <2>6. ASSUME NEW i \in 1..(m + 1) PROVE s[i] = Append(t, c)[i]
      <3>1. a + i - 1 \in 1..P /\ from + (a + i - 1) - 1 = b + i - 1
        BY <1>1, <1>2, <2>1
      <3>2. s[i] = all[b + i - 1]
        BY <1>4, <2>3, <3>1
      <3>3. CASE i = m + 1
        <4>1. b + i - 1 = L + 1
          BY <1>1, <2>1, <3>3
        <4> QED
          BY <1>1, <2>5, <3>2, <3>3, <4>1
      <3>4. CASE i # m + 1
        <4>1. i \in 1..m /\ b + i - 1 \in 1..L
          BY <1>1, <2>1, <3>4
        <4> QED
          BY <1>1, <2>4, <2>5, <3>2, <4>1
      <3> QED
        BY <3>3, <3>4
    <2>7. s = Append(t, c)
      BY <2>3, <2>5, <2>6, SeqEqual
    <2> QED
      BY <1>4, <2>1, <2>7 DEF s, t
  <1> QED
    BY <1>4, <1>5 DEF cut, all, L, EndsWith

(***************************************************************************)
(* How often a character is among the first n of a text.                   *)
(***************************************************************************)
Early(text, x, n) == {i \in Places(text, x) : i <= n}
Times(text, x, n) == Cardinality(Early(text, x, n))

(* More places hold no fewer of it, none hold none, and all hold all. *)
LEMMA TimesGrow ==
    ASSUME NEW X, NEW text \in Seq(X), NEW x
    PROVE  /\ IsFiniteSet(Places(text, x)) /\ Cardinality(Places(text, x)) \in Nat
           /\ \A n \in Int : IsFiniteSet(Early(text, x, n)) /\ Times(text, x, n) \in Nat
           /\ \A n, m \in Int : n <= m => Times(text, x, n) <= Times(text, x, m)
           /\ \A n \in Int : n <= 0 => Times(text, x, n) = 0
           /\ \A n \in Int : n >= Len(text) => Times(text, x, n) = Cardinality(Places(text, x))
  <1> DEFINE P == Places(text, x)
             U(n) == Early(text, x, n)
  <1>1. Len(text) \in Nat /\ P \in SUBSET (1..Len(text))
    BY DEF Places
  <1>2. IsFiniteSet(1..Len(text))
    BY <1>1, FS_Interval
  <1>3. IsFiniteSet(P)
    BY <1>1, <1>2, FS_Subset
  <1>4. Cardinality(P) \in Nat
    BY <1>3, FS_CardinalityType
  <1>5. \A n \in Int : U(n) \in SUBSET P
    BY DEF Early
  <1>6. \A n, m \in Int : n <= m => U(n) \in SUBSET U(m)
    BY <1>1 DEF Early
  <1>7. \A n \in Int : n <= 0 => U(n) = {}
    BY <1>1 DEF Early
  <1>8. \A n \in Int : n >= Len(text) => U(n) = P
    BY <1>1 DEF Early
  <1> HIDE DEF P, U
  <1>9. \A n \in Int : IsFiniteSet(U(n)) /\ Cardinality(U(n)) \in Nat
    <2> TAKE n \in Int
    <2>1. IsFiniteSet(U(n))
      BY <1>3, <1>5, FS_Subset
    <2> QED
      BY <2>1, FS_CardinalityType
  <1>10. \A n, m \in Int : n <= m => Cardinality(U(n)) <= Cardinality(U(m))
    <2> SUFFICES ASSUME NEW n \in Int, NEW m \in Int, n <= m PROVE Cardinality(U(n)) <= Cardinality(U(m))
      OBVIOUS
    <2> QED
      BY <1>6, <1>9, FS_Subset
  <1>11. \A n \in Int : n <= 0 => Cardinality(U(n)) = 0
    BY <1>7, FS_EmptySet
  <1>12. \A n \in Int : n >= Len(text) => Cardinality(U(n)) = Cardinality(P)
    BY <1>8
  <1> QED
    BY <1>3, <1>4, <1>9, <1>10, <1>11, <1>12 DEF P, U, Times

(* Of two texts, one after the other. *)
LEMMA TimesOfConcat ==
    ASSUME NEW X, NEW s \in Seq(X), NEW t \in Seq(X), NEW x, NEW n \in Int
    PROVE  Times(s \o t, x, n) = Times(s, x, n) + Times(t, x, n - Len(s))
  <1> DEFINE l == Len(s)
             A == Early(s, x, n)
             B == Early(t, x, n - l)
             C == {i \in (l + 1)..(l + Len(t)) : i <= n /\ t[i - l] = x}
             U == Early(s \o t, x, n)
  <1>1. l \in Nat /\ Len(t) \in Nat /\ n - l \in Int
    OBVIOUS
  <1>2. /\ Len(s \o t) = l + Len(t)
        /\ \A i \in 1..(l + Len(t)) : (s \o t)[i] = IF i <= l THEN s[i] ELSE t[i - l]
    BY ConcatProperties
  <1>3. U = A \cup C
    BY <1>1, <1>2 DEF Early, Places
  <1>4. A \cap C = {}
    BY <1>1 DEF Early, Places
  <1>5. IsFiniteSet(A) /\ IsFiniteSet(B) /\ Cardinality(A) \in Nat /\ Cardinality(B) \in Nat
    BY <1>1, TimesGrow DEF Times
  <1>6. IsFiniteSet(C) /\ Cardinality(C) = Cardinality(B)
    <2> DEFINE F == [j \in B |-> j + l]
    <2>1. F \in [B -> C]
      BY <1>1 DEF Early, Places
    <2>2. \A a, b \in B : F[a] = F[b] => a = b
      BY <1>1 DEF Early, Places
    <2>3. \A c \in C : c - l \in B /\ F[c - l] = c
      <3> TAKE c \in C
      <3>1. c \in Int /\ c - l \in 1..Len(t) /\ c - l <= n - l /\ t[c - l] = x
        BY <1>1
      <3>2. c - l \in B
        BY <3>1 DEF Early, Places
      <3> QED
        BY <1>1, <3>1, <3>2
    <2> HIDE DEF F, C, B
    <2>4. \A c \in C : \E j \in B : F[j] = c
      BY <2>3
    <2>5. F \in Bijection(B, C)
      BY <2>1, <2>2, <2>4, Fun_IsBij
    <2>6. ExistsBijection(B, C)
      BY <2>5 DEF ExistsBijection
    <2> QED
      BY <1>5, <2>6, FS_Bijection
  <1> HIDE DEF A, B, C, U
  <1>7. Cardinality(U) = Cardinality(A) + Cardinality(C) - Cardinality(A \cap C)
    BY <1>3, <1>5, <1>6, FS_Union
  <1>8. Cardinality(A \cap C) = 0
    BY <1>4, FS_EmptySet
  <1>9. Cardinality(U) = Cardinality(A) + Cardinality(B)
    BY <1>5, <1>6, <1>7, <1>8
  <1> QED
    BY <1>9 DEF U, A, B, l, Times

(* Before a position and after it. *)
LEMMA TimesOfParts ==
    ASSUME NEW X, NEW text \in Seq(X), NEW p \in Nat, NEW x
    PROVE  /\ \A n \in Int : n <= p => Times(Before(text, p), x, n) = Times(text, x, n)
           /\ \A n \in Int : n >= p => Times(Before(text, p), x, n) = Times(text, x, p)
           /\ \A m \in Nat : Times(After(text, p), x, m) = Times(text, x, p + m) - Times(text, x, p)
  <1> DEFINE L == Len(text)
             b == Before(text, p)
             a == After(text, p)
  <1>1. /\ b \in Seq(X) /\ a \in Seq(X) /\ L \in Nat
        /\ Len(b) = IF p <= L THEN p ELSE L
        /\ Len(a) = IF p <= L THEN L - p ELSE 0
    BY PartsOfText
  <1>2. text = b \o a
    <2>1. CASE p <= L
      <3>1. Min({p, L}) = p
        BY <1>1, <2>1, OfTwo
      <3>2. 1 \in 1..(L + 1) /\ p \in (1 - 1)..L /\ L \in p..L
        BY <1>1, <2>1
      <3>3. SubSeq(text, 1, p) \o SubSeq(text, p + 1, L) = SubSeq(text, 1, L)
        BY <3>2, ConcatAdjacentSubSeq
      <3>4. SubSeq(text, 1, L) = text
        OBVIOUS
      <3> QED
        BY <3>1, <3>3, <3>4 DEF Before, After
    <2>2. CASE ~(p <= L)
      <3>1. Min({p, L}) = L
        BY <1>1, <2>2, OfTwo
      <3>2. SubSeq(text, p + 1, L) = <<>>
        BY <1>1, <2>2, SubSeqEmpty
      <3>3. SubSeq(text, 1, L) = text /\ text \o <<>> = text
        OBVIOUS
      <3> QED
        BY <3>1, <3>2, <3>3 DEF Before, After
    <2> QED
      BY <2>1, <2>2
  <1> HIDE DEF b, a
  <1>3. \A n \in Int : Times(text, x, n) = Times(b, x, n) + Times(a, x, n - Len(b))
    <2> TAKE n \in Int
    <2>1. Times(b \o a, x, n) = Times(b, x, n) + Times(a, x, n - Len(b))
      BY <1>1, TimesOfConcat
    <2> QED
      BY <1>2, <2>1
  <1>4. /\ \A n \in Int : Times(b, x, n) \in Nat /\ Times(a, x, n) \in Nat /\ Times(text, x, n) \in Nat
        /\ \A n \in Int : n <= 0 => Times(a, x, n) = 0
        /\ \A n \in Int : n >= Len(b) => Times(b, x, n) = Cardinality(Places(b, x))
        /\ \A n \in Int : n >= Len(a) => Times(a, x, n) = Cardinality(Places(a, x))
    BY <1>1, TimesGrow
  <1>5. Len(b) \in Nat /\ Len(b) <= p
    BY <1>1
  <1>6. \A n \in Int : n - Len(b) <= 0 \/ ~(p <= L) => Times(a, x, n - Len(b)) = 0
    <2> SUFFICES ASSUME NEW n \in Int, n - Len(b) <= 0 \/ ~(p <= L)
                 PROVE  Times(a, x, n - Len(b)) = 0
      OBVIOUS
    <2>1. n - Len(b) \in Int
      BY <1>5
    <2>2. CASE n - Len(b) <= 0
      BY <1>4, <2>1, <2>2
    <2>3. CASE ~(p <= L)
      <3>1. Len(a) = 0
        BY <1>1, <2>3
      <3>2. 0 \in Int /\ 0 >= Len(a) /\ 0 <= 0
        BY <3>1
      <3>3. Cardinality(Places(a, x)) = 0
        <4>1. Times(a, x, 0) = 0
          BY <1>4, <3>2
        <4>2. Times(a, x, 0) = Cardinality(Places(a, x))
          BY <1>4, <3>2
        <4> QED
          BY <4>1, <4>2
      <3>4. CASE n - Len(b) >= 0
        <4>1. n - Len(b) >= Len(a)
          BY <3>1, <3>4
        <4> QED
          BY <1>4, <2>1, <3>3, <4>1
      <3>5. CASE ~(n - Len(b) >= 0)
        BY <1>4, <2>1, <3>5
      <3> QED
        BY <3>4, <3>5
    <2> QED
      BY <2>2, <2>3
  <1>7. ASSUME NEW n \in Int, n <= p PROVE Times(b, x, n) = Times(text, x, n)
    <2>1. n - Len(b) <= 0 \/ ~(p <= L)
      BY <1>1, <1>7
    <2>2. Times(a, x, n - Len(b)) = 0
      BY <1>6, <2>1
    <2> QED
      BY <1>3, <1>4, <2>2
  <1>8. ASSUME NEW n \in Int, n >= p PROVE Times(b, x, n) = Times(text, x, p)
    <2>1. Times(b, x, n) = Cardinality(Places(b, x)) /\ Times(b, x, p) = Cardinality(Places(b, x))
      <3>1. n >= Len(b) /\ p >= Len(b) /\ p \in Int
        BY <1>5, <1>8
      <3> QED
        BY <1>4, <3>1
    <2>2. p \in Int /\ p <= p
      OBVIOUS
    <2> QED
      BY <1>7, <2>1, <2>2
  <1>9. ASSUME NEW m \in Nat PROVE Times(a, x, m) = Times(text, x, p + m) - Times(text, x, p)
    <2>1. p + m \in Int /\ p + m >= p
      OBVIOUS
    <2>2. Times(text, x, p + m) = Times(text, x, p) + Times(a, x, p + m - Len(b))
      <3>1. Times(text, x, p + m) = Times(b, x, p + m) + Times(a, x, p + m - Len(b))
        BY <1>3, <2>1
      <3>2. Times(b, x, p + m) = Times(text, x, p)
        BY <1>8, <2>1
      <3> QED
        BY <3>1, <3>2
    <2>3. Times(a, x, p + m - Len(b)) = Times(a, x, m)
      <3>1. CASE p <= L
        <4>1. p + m - Len(b) = m
          BY <1>1, <3>1
        <4> QED
          BY <4>1
      <3>2. CASE ~(p <= L)
        <4>1. Times(a, x, p + m - Len(b)) = 0
          BY <1>6, <2>1, <3>2
        <4>2. PICK k \in Int : k = m + Len(b)
          BY <1>5
        <4>3. Times(a, x, k - Len(b)) = 0
          BY <1>6, <3>2
        <4>4. Times(a, x, m) = 0
          <5>1. k - Len(b) = m
            BY <1>5, <4>2
          <5> QED
            BY <4>3, <5>1
        <4> QED
          BY <4>1, <4>4
      <3> QED
        BY <3>1, <3>2
    <2>4. Times(a, x, m) \in Nat /\ Times(text, x, p) \in Nat
      <3>1. m \in Int /\ p \in Int
        OBVIOUS
      <3> QED
        BY <1>4, <3>1
    <2> QED
      BY <2>2, <2>3, <2>4
  <1> QED
    BY <1>7, <1>8, <1>9 DEF a, b

(***************************************************************************)
(* Where a character is after a change: before it as it was, and after it  *)
(* as it was with what was inserted and without what was deleted.  The     *)
(* change may reach past the text.                                         *)
(***************************************************************************)
StartStays(text, c, x) ==
    \A n \in Nat : n <= c.position /\ n <= Len(text) =>
        Times(liveApply(text, c), x, n) = Times(text, x, n)

EndMoves(text, c, x) ==
    \A m \in Nat : Times(liveApply(text, c), x, c.position + Len(c.insert) + m)
                    = Times(text, x, c.position) + Cardinality(Places(c.insert, x))
                      + Times(text, x, c.position + c.delete + m) - Times(text, x, c.position + c.delete)

Balance(text, c, x) ==
    Cardinality(Places(liveApply(text, c), x))
        = Times(text, x, c.position) + Cardinality(Places(c.insert, x))
          + Cardinality(Places(text, x)) - Times(text, x, c.position + c.delete)

LEMMA TimesOfApply ==
    ASSUME NEW X, NEW text \in Seq(X), NEW c \in ChangesOf(X), NEW x
    PROVE  StartStays(text, c, x) /\ EndMoves(text, c, x) /\ Balance(text, c, x)
  <1> DEFINE p == c.position
             d == c.delete
             ins == c.insert
             i == Len(ins)
             new == liveApply(text, c)
             b == Before(text, p)
             a == After(text, p + d)
             e == p + d
             L == Len(text)
             more == Cardinality(Places(ins, x))
  <1>1. p \in Nat /\ d \in Nat /\ e \in Nat /\ ins \in Seq(X) /\ i \in Nat /\ L \in Nat
    BY DEF ChangesOf
  <1>2. /\ b \in Seq(X) /\ a \in Seq(X)
        /\ Len(b) = IF p <= L THEN p ELSE L
        /\ Len(a) = IF e <= L THEN L - e ELSE 0
    BY <1>1, PartsOfText
  <1>3. new = (b \o ins) \o a
    BY DEF liveApply
  <1>4. /\ \A n \in Int : n <= p => Times(b, x, n) = Times(text, x, n)
        /\ \A n \in Int : n >= p => Times(b, x, n) = Times(text, x, p)
        /\ \A m \in Nat : Times(a, x, m) = Times(text, x, e + m) - Times(text, x, e)
    <2>1. a = After(text, e)
      OBVIOUS
    <2> HIDE DEF p, e, a
    <2>2. /\ \A n \in Int : n <= p => Times(Before(text, p), x, n) = Times(text, x, n)
          /\ \A n \in Int : n >= p => Times(Before(text, p), x, n) = Times(text, x, p)
      BY <1>1, TimesOfParts
    <2>3. \A m \in Nat : Times(After(text, e), x, m) = Times(text, x, e + m) - Times(text, x, e)
      BY <1>1, TimesOfParts
    <2> QED
      BY <2>1, <2>2, <2>3
  <1> HIDE DEF b, a, new
  <1>5. b \o ins \in Seq(X) /\ Len(b \o ins) = Len(b) + i
    BY <1>1, <1>2, ConcatProperties
  <1> HIDE DEF p, d, ins, e, L
  <1>6. /\ \A n \in Int : Times(text, x, n) \in Nat /\ Times(a, x, n) \in Nat /\ Times(ins, x, n) \in Nat
        /\ \A n \in Int : n <= 0 => Times(a, x, n) = 0 /\ Times(ins, x, n) = 0
        /\ \A n \in Int : n >= i => Times(ins, x, n) = more
        /\ \A n \in Int : n >= L => Times(text, x, n) = Cardinality(Places(text, x))
        /\ \A n \in Int : n >= Len(a) => Times(a, x, n) = Cardinality(Places(a, x))
        /\ \A n, m \in Int : n <= m => Times(a, x, n) <= Times(a, x, m)
        /\ more \in Nat
    BY <1>1, <1>2, TimesGrow DEF L
  <1> HIDE DEF i, more
  <1>7. ASSUME NEW n \in Int
        PROVE  Times(new, x, n) = Times(b, x, n) + Times(ins, x, n - Len(b)) + Times(a, x, n - (Len(b) + i))
    <2>1. Times((b \o ins) \o a, x, n) = Times(b \o ins, x, n) + Times(a, x, n - Len(b \o ins))
      BY <1>2, <1>5, TimesOfConcat
    <2>2. Times(b \o ins, x, n) = Times(b, x, n) + Times(ins, x, n - Len(b))
      BY <1>1, <1>2, TimesOfConcat
    <2> QED
      BY <1>3, <1>5, <2>1, <2>2
  <1>8. Len(b) \in Nat /\ Len(b) <= p
    BY <1>1, <1>2
  <1>9. ASSUME NEW n \in Nat, n <= p, n <= L
        PROVE  Times(new, x, n) = Times(text, x, n)
    <2>1. n \in Int /\ n - Len(b) \in Int /\ n - (Len(b) + i) \in Int
          /\ n - Len(b) <= 0 /\ n - (Len(b) + i) <= 0
      BY <1>1, <1>2, <1>9
    <2>2. Times(ins, x, n - Len(b)) = 0 /\ Times(a, x, n - (Len(b) + i)) = 0
      BY <1>6, <2>1
    <2>3. Times(b, x, n) = Times(text, x, n)
      BY <1>4, <1>9, <2>1
    <2>4. Times(text, x, n) \in Nat
      BY <1>6, <2>1
    <2> QED
      BY <1>7, <2>1, <2>2, <2>3, <2>4
  <1>10. ASSUME NEW m \in Nat
         PROVE  Times(new, x, p + i + m)
                   = Times(text, x, p) + more + Times(text, x, e + m) - Times(text, x, e)
    <2>1. PICK n \in Nat : n = p + i + m
      BY <1>1
    <2>2. Times(b, x, n) = Times(text, x, p)
      BY <1>1, <1>4, <2>1
    <2>3. Times(ins, x, n - Len(b)) = more
      <3>1. n - Len(b) \in Int /\ n - Len(b) >= i
        BY <1>1, <1>8, <2>1
      <3> QED
        BY <1>6, <3>1
    <2>4. Times(a, x, n - (Len(b) + i)) = Times(a, x, m)
      <3>1. CASE p <= L
        <4>1. n - (Len(b) + i) = m
          BY <1>1, <1>2, <2>1, <3>1
        <4> QED
          BY <4>1
      <3>2. CASE ~(p <= L)
        <4>1. Len(a) = 0
          BY <1>1, <1>2, <3>2 DEF e
        <4>2. n - (Len(b) + i) \in Int /\ n - (Len(b) + i) >= Len(a) /\ m \in Int /\ m >= Len(a)
          BY <1>1, <1>8, <2>1, <4>1
        <4> QED
          BY <1>6, <4>2
      <3> QED
        BY <3>1, <3>2
    <2>5. Times(a, x, m) = Times(text, x, e + m) - Times(text, x, e)
      BY <1>4
    <2>6. Times(text, x, p) \in Nat /\ Times(text, x, e + m) \in Nat /\ Times(text, x, e) \in Nat
      <3>1. p \in Int /\ e + m \in Int /\ e \in Int
        BY <1>1
      <3> QED
        BY <1>6, <3>1
    <2> QED
      BY <1>6, <1>7, <2>1, <2>2, <2>3, <2>4, <2>5, <2>6
  <1>11. Cardinality(Places(new, x))
            = Times(text, x, p) + more + Cardinality(Places(text, x)) - Times(text, x, e)
    <2>1. new \in Seq(X) /\ Len(new) = Len(b) + i + Len(a)
      BY <1>2, <1>3, <1>5, ConcatProperties
    <2>2. Len(new) <= p + i + L /\ p + i + L \in Int /\ Len(a) \in Nat
      BY <1>1, <1>2, <1>8, <2>1
    <2>3. Times(new, x, p + i + L) = Cardinality(Places(new, x))
      BY <2>1, <2>2, TimesGrow
    <2>4. Times(text, x, e + L) = Cardinality(Places(text, x))
      <3>1. e + L \in Int /\ e + L >= L
        BY <1>1
      <3> QED
        BY <1>6, <3>1
    <2>5. Times(new, x, p + i + L) = Times(text, x, p) + more + Times(text, x, e + L) - Times(text, x, e)
      BY <1>1, <1>10
    <2> QED
      BY <2>3, <2>4, <2>5
  <1> QED
    BY <1>9, <1>10, <1>11 DEF p, d, i, ins, e, L, new, more, StartStays, EndMoves, Balance

NoFewer(text, base, x) == Cardinality(Places(base, x)) <= Cardinality(Places(text, x))

(* One change, and two. *)
LEMMA ApplyOne ==
    ASSUME NEW X, NEW text \in Seq(X), NEW c \in ChangesOf(X), NEW one, one = <<c>>
    PROVE  one \in Seq(ChangesOf(X)) /\ ApplyAll(text, one) = liveApply(text, c)
  <1> DEFINE C == ChangesOf(X)
             none == <<>>
  <1>1. c \in C
    OBVIOUS
  <1> HIDE DEF C
  <1>2. none \in Seq(C) /\ Len(none) = 0
    OBVIOUS
  <1>3. one \in Seq(C) /\ Len(one) = 1 /\ one[1] = c
    BY <1>1
  <1>4. none = <<>>
    OBVIOUS
  <1> HIDE DEF none
  <1>5. Append(none, c) = one
    <2>1. Append(none, c) \in Seq(C) /\ Len(Append(none, c)) = 1 /\ Append(none, c)[1] = c
      BY <1>1, <1>2
    <2>2. \A n \in 1..Len(Append(none, c)) : Append(none, c)[n] = one[n]
      BY <1>3, <2>1
    <2> QED
      BY <1>3, <2>1, <2>2, SeqEqual
  <1>6. ApplyAll(text, none) = text
    BY <1>2, <1>4, ApplyAllGivesText DEF C
  <1>7. ApplyAll(text, Append(none, c)) = liveApply(ApplyAll(text, none), c)
    BY <1>2, OneMoreChange DEF C
  <1> QED
    BY <1>3, <1>5, <1>6, <1>7 DEF C

LEMMA AppendedToOne ==
    ASSUME NEW C, NEW one \in Seq(C), Len(one) = 1, NEW f \in C,
           NEW two \in Seq(C), Len(two) = 2, two[1] = one[1], two[2] = f
    PROVE  Append(one, f) = two
  <1>0. /\ Append(one, f) \in Seq(C)
        /\ Len(Append(one, f)) = Len(one) + 1
        /\ \A i \in 1..Len(one) : Append(one, f)[i] = one[i]
        /\ Append(one, f)[Len(one) + 1] = f
    BY AppendProperties
  <1>1. Append(one, f) \in Seq(C) /\ Len(Append(one, f)) = 2
        /\ Append(one, f)[1] = one[1] /\ Append(one, f)[2] = f
    BY <1>0
  <1>2. \A n \in 1..Len(Append(one, f)) : Append(one, f)[n] = two[n]
    BY <1>1
  <1> QED
    BY <1>1, <1>2, SeqEqual

LEMMA ApplyTwo ==
    ASSUME NEW X, NEW text \in Seq(X), NEW c \in ChangesOf(X), NEW f \in ChangesOf(X),
           NEW two, two = <<c, f>>
    PROVE  ApplyAll(text, two) = liveApply(liveApply(text, c), f)
  <1> DEFINE C == ChangesOf(X)
             one == <<c>>
  <1>1. c \in C /\ f \in C
    OBVIOUS
  <1>2. two \in Seq(C) /\ Len(two) = 2 /\ two[1] = c /\ two[2] = f
    BY <1>1
  <1>3. one \in Seq(C) /\ ApplyAll(text, one) = liveApply(text, c)
    BY ApplyOne
  <1>4. one \in Seq(C) /\ Len(one) = 1 /\ one[1] = c
    BY <1>3
  <1> HIDE DEF C, one
  <1>5. Append(one, f) = two
    BY <1>1, <1>2, <1>4, AppendedToOne
  <1>6. ApplyAll(text, Append(one, f)) = liveApply(ApplyAll(text, one), f)
    BY <1>3, OneMoreChange DEF C
  <1> QED
    BY <1>3, <1>5, <1>6

(***************************************************************************)
(* If a change leaves no fewer of a character than there were, then what   *)
(* liveRebase makes of it leaves no fewer of it after another change.      *)
(***************************************************************************)
LEMMA RebaseKeeps ==
    ASSUME NEW X, NEW text \in Seq(X), NEW local \in ChangesOf(X), NEW applied \in ChangesOf(X),
           Fits(local, text), NEW x, NoFewer(liveApply(text, local), text, x)
    PROVE  NoFewer(ApplyAll(liveApply(text, applied), liveRebase(local, applied)),
                   liveApply(text, applied), x)
  <1> DEFINE ab == local.position
             ad == local.delete
             ae == ab + ad
             bs == applied.position
             bd == applied.delete
             be == bs + bd
             i == Len(applied.insert)
             A == Cardinality(Places(local.insert, x))
             B == Cardinality(Places(applied.insert, x))
             U(n) == Times(text, x, n)
             N == Cardinality(Places(text, x))
             next == liveApply(text, applied)
             T(n) == Times(next, x, n)
             M == Cardinality(Places(next, x))
             L == Len(text)
             cs == liveRebase(local, applied)
             R == Cardinality(Places(ApplyAll(next, cs), x))
  <1>1. /\ ab \in Nat /\ ad \in Nat /\ ae \in Nat /\ bs \in Nat /\ bd \in Nat /\ be \in Nat
        /\ local.insert \in Seq(X) /\ applied.insert \in Seq(X) /\ i \in Nat /\ L \in Nat /\ ae <= L
    BY DEF ChangesOf, Fits
  <1>2. next \in Seq(X)
    BY ApplyGivesText
  <1>3. A \in Nat /\ B \in Nat /\ N \in Nat /\ M \in Nat
    BY <1>1, <1>2, TimesGrow
  <1>4. /\ \A n \in Int : U(n) \in Nat /\ T(n) \in Nat
        /\ \A n, m \in Int : n <= m => U(n) <= U(m)
    BY <1>2, TimesGrow
  <1>5. U(ae) - U(ab) <= A
    <2>1. Cardinality(Places(liveApply(text, local), x)) = U(ab) + A + N - U(ae)
      BY TimesOfApply DEF Balance
    <2>2. N <= U(ab) + A + N - U(ae)
      BY <2>1 DEF NoFewer
    <2>3. ab \in Int /\ ae \in Int
      BY <1>1
    <2>4. U(ab) \in Nat /\ U(ae) \in Nat
      BY <1>4, <2>3
    <2>5. A \in Nat /\ N \in Nat
      BY <1>3
    <2> DEFINE u == U(ab)
               v == U(ae)
    <2>6. N <= u + A + N - v /\ u \in Nat /\ v \in Nat
      BY <2>2, <2>4
    <2> HIDE DEF A, N, u, v
    <2>7. v - u <= A
      BY <2>5, <2>6
    <2> QED
      BY <2>7 DEF u, v
  <1>6. /\ \A n \in Nat : n <= bs /\ n <= L => T(n) = U(n)
        /\ \A m \in Nat : T(bs + i + m) = U(bs) + B + U(be + m) - U(be)
    <2>1. StartStays(text, applied, x) /\ EndMoves(text, applied, x)
      BY TimesOfApply
    <2>2. \A n \in Nat : n <= bs /\ n <= L => T(n) = U(n)
      BY <2>1 DEF StartStays
    <2>3. \A m \in Nat : T(bs + i + m) = U(bs) + B + U(be + m) - U(be)
      BY <2>1 DEF EndMoves
    <2> QED
      BY <2>2, <2>3
  <1>7. Rebased(X, local, applied, cs)
    BY RebaseIs
  <1>8. ASSUME NEW c \in ChangesOf(X), cs = <<c>>, c.insert = local.insert,
               T(c.position + c.delete) - T(c.position) <= A
        PROVE  M <= R
    <2>1. ApplyAll(next, cs) = liveApply(next, c)
      <3> HIDE DEF next, cs
      <3> QED
        BY <1>2, <1>8, ApplyOne
    <2>2. R = T(c.position) + A + M - T(c.position + c.delete)
      <3>1. Cardinality(Places(liveApply(next, c), x))
              = T(c.position) + Cardinality(Places(c.insert, x)) + M - T(c.position + c.delete)
        BY <1>2, TimesOfApply DEF Balance
      <3> QED
        BY <1>8, <2>1, <3>1
    <2>3. c.position \in Int /\ c.position + c.delete \in Int
      BY DEF ChangesOf
    <2>4. T(c.position) \in Nat /\ T(c.position + c.delete) \in Nat
      BY <1>4, <2>3
    <2>5. T(c.position + c.delete) - T(c.position) <= A
      BY <1>8
    <2> HIDE DEF T, R, M, A
    <2> QED
      BY <1>3, <2>2, <2>4, <2>5
  <1>9. ASSUME ae <= bs, cs = <<local>>
        PROVE  M <= R
    <2>1. T(ab) = U(ab) /\ T(ae) = U(ae)
      <3>1. ab <= bs /\ ab <= L /\ ae <= L
        BY <1>1, <1>9
      <3> QED
        BY <1>1, <1>6, <1>9, <3>1
    <2>2. T(local.position + local.delete) - T(local.position) <= A
      BY <1>5, <2>1
    <2> QED
      BY <1>8, <1>9, <2>2
  <1>10. ASSUME NEW c \in ChangesOf(X), NEW m \in Nat, cs = <<c>>, RebasedBehind(local, applied, c, m)
         PROVE  M <= R
    <2> DEFINE d == c.delete
               p == c.position
    <2>1. /\ d \in Nat /\ p = bs + i + m /\ c.insert = local.insert
          /\ d = 0 \/ (ab <= be + m /\ be + m + d = ae)
      BY <1>10 DEF RebasedBehind, ChangesOf
    <2> HIDE DEF d, p
    <2>2. T(p + d) - T(p) = U(be + m + d) - U(be + m)
      <3>1. PICK n \in Nat : n = m + d
        BY <2>1
      <3> HIDE DEF ab, ae, bs, be, i, U, T, A, B
      <3>2. bs + i + n = p + d /\ be + n = be + m + d /\ be + m \in Int /\ be + n \in Int /\ be \in Int /\ bs \in Int
        BY <1>1, <2>1, <3>1
      <3>3. /\ T(bs + i + n) = U(bs) + B + U(be + n) - U(be)
            /\ T(bs + i + m) = U(bs) + B + U(be + m) - U(be)
        BY <1>6
      <3>4. U(bs) \in Nat /\ U(be) \in Nat /\ U(be + m) \in Nat /\ U(be + n) \in Nat
        BY <1>4, <3>2
      <3>5. /\ T(p + d) = U(bs) + B + U(be + m + d) - U(be)
            /\ T(p) = U(bs) + B + U(be + m) - U(be)
        BY <2>1, <3>2, <3>3
      <3>6. U(be + m + d) \in Nat
        BY <3>2, <3>4
      <3> QED
        BY <1>3, <3>4, <3>5, <3>6
    <2>3. U(be + m + d) - U(be + m) <= A
      <3>1. be + m \in Int /\ ab \in Int /\ ae \in Int
        BY <1>1
      <3>2. U(be + m) \in Nat /\ U(ab) \in Nat /\ U(ae) \in Nat
        BY <1>4, <3>1
      <3>3. CASE d = 0
        <4>1. be + m + d = be + m
          BY <3>1, <3>3
        <4> QED
          BY <1>3, <3>2, <4>1
      <3>4. CASE ab <= be + m /\ be + m + d = ae
        <4>1. U(ab) <= U(be + m)
          BY <1>4, <3>1, <3>4
        <4> DEFINE u == U(ab)
                   v == U(ae)
                   w == U(be + m)
        <4>2. U(be + m + d) = v
          BY <3>4
        <4>3. u \in Nat /\ v \in Nat /\ w \in Nat /\ u <= w /\ A \in Nat /\ v - u <= A
          BY <1>3, <1>5, <3>2, <4>1
        <4> HIDE DEF U, A, u, v, w
        <4>4. v - w <= A
          BY <4>3
        <4> QED
          BY <4>2, <4>4 DEF w
      <3> QED
        BY <2>1, <3>3, <3>4
    <2> QED
      BY <1>8, <1>10, <2>1, <2>2, <2>3 DEF p, d
  <1>11. ASSUME NEW c \in ChangesOf(X), NEW f \in ChangesOf(X), cs = <<c, f>>,
                RebasedAround(local, applied, c, f)
         PROVE  M <= R
    <2> DEFINE d == c.delete
               p == c.position
               cut == liveApply(next, c)
               V(n) == Times(cut, x, n)
    <2>1. /\ ab < bs /\ bs < ae /\ d \in Nat /\ p = bs + i /\ c.insert = <<>>
          /\ d = 0 \/ be + d = ae
          /\ f.position = ab /\ f.insert = local.insert /\ f.delete = bs - ab
      BY <1>11 DEF RebasedAround, ChangesOf
    <2>2. ApplyAll(next, cs) = liveApply(cut, f) /\ cut \in Seq(X)
      <3>1. ApplyAll(next, cs) = liveApply(liveApply(next, c), f)
        <4> HIDE DEF next, cs
        <4> QED
          BY <1>2, <1>11, ApplyTwo
      <3>2. liveApply(next, c) \in Seq(X)
        BY <1>2, ApplyGivesText
      <3> QED
        BY <1>11, <3>1, <3>2
    <2>3. ab + (bs - ab) = bs
      BY <1>1
    <2>4. R = V(ab) + A + Cardinality(Places(cut, x)) - V(bs)
      <3>1. Cardinality(Places(liveApply(cut, f), x))
              = V(f.position) + Cardinality(Places(f.insert, x)) + Cardinality(Places(cut, x)) - V(f.position + f.delete)
        BY <2>2, TimesOfApply DEF Balance
      <3> QED
        BY <2>1, <2>2, <2>3, <3>1
    <2>5. Cardinality(Places(cut, x)) = T(p) + M - T(p + d)
      <3>1. Cardinality(Places(cut, x))
              = T(p) + Cardinality(Places(c.insert, x)) + M - T(p + d)
        BY <1>2, TimesOfApply DEF Balance
      <3>2. Cardinality(Places(<<>>, x)) = 0
        <4>1. Places(<<>>, x) = {}
          BY DEF Places
        <4> QED
          BY <4>1, FS_EmptySet
      <3>3. p \in Int
        BY DEF ChangesOf
      <3>4. T(p) \in Nat
        BY <1>4, <3>3
      <3> HIDE DEF p, d, T, M, cut
      <3> QED
        BY <2>1, <3>1, <3>2, <3>4
    <2>6. T(p) = U(bs) + B /\ T(p + d) = U(bs) + B + U(be + d) - U(be)
      <3> HIDE DEF ab, ae, bs, be, i, U, T, A, B, p, d
      <3>1. /\ T(bs + i + 0) = U(bs) + B + U(be + 0) - U(be)
            /\ T(bs + i + d) = U(bs) + B + U(be + d) - U(be)
        BY <1>6, <2>1
      <3>2. bs + i + 0 = p /\ be + 0 = be /\ bs + i + d = p + d /\ be \in Int /\ bs \in Int
        BY <1>1, <2>1
      <3>3. U(be) \in Nat /\ U(bs) \in Nat
        BY <1>4, <3>2
      <3> QED
        BY <1>3, <3>1, <3>2, <3>3
    <2>7. V(ab) = U(ab) /\ V(bs) = U(bs)
      <3>1. \A n \in Nat : n <= p /\ n <= Len(next) => V(n) = T(n)
        BY <1>2, TimesOfApply DEF StartStays
      <3>2. bs <= Len(next)
        <4>1. /\ Before(text, bs) \in Seq(X) /\ After(text, be) \in Seq(X)
              /\ Len(Before(text, bs)) = IF bs <= L THEN bs ELSE L
          BY <1>1, PartsOfText
        <4>2. next = (Before(text, bs) \o applied.insert) \o After(text, be)
          BY DEF liveApply
        <4>3. bs <= L
          BY <1>1, <2>1
        <4> DEFINE b == Before(text, bs)
                   a == After(text, be)
                   ins == applied.insert
        <4>4. b \in Seq(X) /\ a \in Seq(X) /\ ins \in Seq(X) /\ Len(b) = bs /\ next = (b \o ins) \o a
          BY <1>1, <4>1, <4>2, <4>3
        <4> HIDE DEF b, a, ins, next
        <4> QED
          BY <1>1, <4>4
      <3>3. ab <= p /\ bs <= p /\ ab <= Len(next) /\ ab <= bs /\ bs <= L /\ ab <= L
        <4>1. Len(next) \in Nat
          BY <1>2
        <4>2. /\ ab \in Nat /\ bs \in Nat /\ ae \in Nat /\ i \in Nat /\ L \in Nat
              /\ ab < bs /\ bs < ae /\ ae <= L /\ p = bs + i
          BY <1>1, <2>1
        <4> DEFINE l == Len(next)
        <4>3. l \in Nat /\ bs <= l
          BY <3>2, <4>1
        <4> HIDE DEF p, i, ab, ae, bs, L, l
        <4>5. ab <= bs
          BY <4>2
        <4>6. bs <= L
          BY <4>2
        <4>7. bs <= p
          BY <4>2
        <4>4. ab <= p /\ bs <= p /\ ab <= l /\ ab <= bs /\ bs <= L /\ ab <= L
          BY <4>2, <4>3, <4>5, <4>6, <4>7
        <4> QED
          BY <4>4 DEF l
      <3>4. V(ab) = T(ab) /\ V(bs) = T(bs)
        BY <1>1, <3>1, <3>2, <3>3
      <3>5. T(ab) = U(ab) /\ T(bs) = U(bs)
        <4>1. bs <= bs
          BY <1>1
        <4> QED
          BY <1>1, <1>6, <3>3, <4>1
      <3> QED
        BY <3>4, <3>5
    <2>8. ab \in Int /\ ae \in Int /\ bs \in Int /\ be \in Int /\ be + d \in Int /\ bs <= be
      BY <1>1, <2>1
    <2>9. /\ U(ab) \in Nat /\ U(ae) \in Nat /\ U(bs) \in Nat /\ U(be) \in Nat /\ U(be + d) \in Nat
          /\ U(bs) <= U(be) /\ U(bs) <= U(ae)
      <3>1. bs <= ae
        BY <2>1, <2>8
      <3> QED
        BY <1>4, <2>8, <3>1
    <2>10. U(be + d) - U(be) + U(bs) - U(ab) <= A
      <3> DEFINE u == U(ab)
                 v == U(ae)
                 w == U(bs)
                 y == U(be)
      <3>0. v - y + w - u <= A /\ y - y + w - u <= A
        <4>1. /\ u \in Nat /\ v \in Nat /\ w \in Nat /\ y \in Nat /\ A \in Nat
              /\ w <= y /\ w <= v /\ v - u <= A
          BY <1>3, <1>5, <2>9
        <4> HIDE DEF u, v, w, y, A
        <4> QED
          BY <4>1
      <3> HIDE DEF U, A
      <3>1. CASE d = 0
        <4>1. U(be + d) = U(be)
          BY <2>8, <3>1
        <4> QED
          BY <3>0, <4>1
      <3>2. CASE be + d = ae
        <4>1. U(be + d) = U(ae)
          BY <3>2
        <4> QED
          BY <3>0, <4>1
      <3> QED
        BY <2>1, <3>1, <3>2
    <2> DEFINE C == Cardinality(Places(cut, x))
               u == U(ab)
               w == U(bs)
               y == U(be)
               z == U(be + d)
               t == T(p)
               s == T(p + d)
    <2>11. R = u + A + C - w /\ C = t + M - s /\ t = w + B /\ s = w + B + z - y
      BY <2>4, <2>5, <2>6, <2>7
    <2>12. /\ A \in Nat /\ B \in Nat /\ M \in Nat /\ u \in Nat /\ w \in Nat /\ y \in Nat /\ z \in Nat
           /\ z - y + w - u <= A
      BY <1>3, <2>9, <2>10
    <2> HIDE DEF A, B, M, R, C, u, w, y, z, t, s
    <2> QED
      BY <2>11, <2>12
  <1>12. M <= R
    <2> HIDE DEF M, R, cs
    <2>1. \/ ae <= bs /\ cs = <<local>>
          \/ \E c \in ChangesOf(X), m \in Nat : cs = <<c>> /\ RebasedBehind(local, applied, c, m)
          \/ \E c, f \in ChangesOf(X) : cs = <<c, f>> /\ RebasedAround(local, applied, c, f)
      BY <1>7 DEF Rebased
    <2> HIDE DEF ae, bs
    <2> QED
      BY <1>9, <1>10, <1>11, <2>1
  <1> QED
    BY <1>12 DEF NoFewer

(* What holds first and at every next step holds at all of them. *)
LEMMA StepByStep ==
    ASSUME NEW N \in Nat, NEW S, 0 \in S, \A n \in 1..N : n - 1 \in S => n \in S
    PROVE  0..N \subseteq S
  <1> DEFINE Bad == (0..N) \ S
  <1> SUFFICES ASSUME Bad # {} PROVE FALSE
    OBVIOUS
  <1>1. PICK n \in Bad : \A k \in Bad : n <= k
    <2>1. Bad \in SUBSET Nat
      OBVIOUS
    <2> HIDE DEF Bad
    <2> QED
      BY <2>1, SmallestOf
  <1>2. n \in 1..N /\ n - 1 \in 0..N /\ ~(n <= n - 1)
    OBVIOUS
  <1>3. n - 1 \in S
    BY <1>1, <1>2
  <1> QED
    BY <1>2, <1>3

(***************************************************************************)
(* An editor that shows no fewer of a character than it synced shows no    *)
(* fewer of it than the document after it has caught up.                   *)
(***************************************************************************)
LEMMA CarriedKeeps ==
    ASSUME NEW X, NEW at \in [base : Seq(X), current : Seq(X)], NEW c \in ChangesOf(X), NEW x,
           NoFewer(at.current, at.base, x)
    PROVE  NoFewer(Carried(at, c).current, Carried(at, c).base, x)
  <1> DEFINE next == liveApply(at.base, c)
             pending == liveDiff(at.base, at.current)
             current == IF pending = <<>> THEN next ELSE ApplyAll(next, liveRebase(pending[1], c))
  <1>1. at.base \in Seq(X) /\ at.current \in Seq(X)
    OBVIOUS
  <1>2. next \in Seq(X)
    BY <1>1, ApplyGivesText
  <1>3. Carried(at, c) = [base |-> next, current |-> current]
    BY Zenon DEF Carried
  <1>4. NoFewer(current, next, x)
    <2>1. CASE pending = <<>>
      <3>1. Cardinality(Places(next, x)) \in Nat
        BY <1>2, TimesGrow
      <3>2. current = next
        BY <2>1
      <3> HIDE DEF next, current
      <3> QED
        BY <3>1, <3>2 DEF NoFewer
    <2>2. CASE pending # <<>>
      <3>1. at.base # at.current
        BY <1>1, <2>2, DiffIsTheChange
      <3>2. PICK l \in ChangesOf(X) : pending = <<l>> /\ Fits(l, at.base) /\ liveApply(at.base, l) = at.current
        BY <1>1, <3>1, DiffIsTheChange
      <3>3. NoFewer(ApplyAll(liveApply(at.base, c), liveRebase(l, c)), liveApply(at.base, c), x)
        <4>1. NoFewer(liveApply(at.base, l), at.base, x)
          BY <3>2
        <4> QED
          BY <1>1, <3>2, <4>1, RebaseKeeps
      <3>4. pending[1] = l
        BY <3>2
      <3>5. current = ApplyAll(next, liveRebase(l, c))
        BY <2>2, <3>4
      <3> QED
        BY <3>3, <3>5
    <2> QED
      BY <2>1, <2>2
  <1> HIDE DEF next, current
  <1> QED
    BY <1>3, <1>4

LEMMA MergeKeeps ==
    ASSUME NEW X, NEW synced \in Seq(X), NEW local \in Seq(X), NEW cs \in Seq(ChangesOf(X)), NEW x,
           NoFewer(local, synced, x)
    PROVE  NoFewer(liveMerge(synced, local, cs), ApplyAll(synced, cs), x)
  <1> DEFINE T == [base : Seq(X), current : Seq(X)]
             N == Len(cs)
  <1>0. /\ \E g \in [0..N -> T] : /\ g[0] = [base |-> synced, current |-> local]
                                  /\ liveMerge(synced, local, cs) = g[N].current
                                  /\ \A n \in 1..N : g[n] = Carried(g[n - 1], cs[n])
        /\ \E h \in [0..N -> Seq(X)] : /\ h[0] = synced /\ ApplyAll(synced, cs) = h[N]
                                       /\ \A n \in 1..N : h[n] = liveApply(h[n - 1], cs[n])
    <2>1. \E g \in [0..N -> T] : /\ g[0] = [base |-> synced, current |-> local]
                                 /\ liveMerge(synced, local, cs) = g[N].current
                                 /\ \A n \in 1..N : g[n] = Carried(g[n - 1], cs[n])
      BY MergeSteps
    <2>2. \E h \in [0..N -> Seq(X)] : /\ h[0] = synced /\ ApplyAll(synced, cs) = h[N]
                                      /\ \A n \in 1..N : h[n] = liveApply(h[n - 1], cs[n])
      BY ApplyAllSteps
    <2> HIDE DEF T, N
    <2> QED
      BY <2>1, <2>2
  <1> HIDE DEF T, N
  <1>1. PICK g \in [0..N -> T] : /\ g[0] = [base |-> synced, current |-> local]
                                 /\ liveMerge(synced, local, cs) = g[N].current
                                 /\ \A n \in 1..N : g[n] = Carried(g[n - 1], cs[n])
    BY <1>0, Zenon
  <1>2. PICK h \in [0..N -> Seq(X)] : /\ h[0] = synced /\ ApplyAll(synced, cs) = h[N]
                                      /\ \A n \in 1..N : h[n] = liveApply(h[n - 1], cs[n])
    BY <1>0, Zenon
  <1>3. N \in Nat /\ \A n \in 1..N : cs[n] \in ChangesOf(X)
    BY DEF N
  <1> DEFINE S == {n \in 0..N : g[n].base = h[n] /\ NoFewer(g[n].current, g[n].base, x)}
  <1>4. 0 \in S
    BY <1>1, <1>2, <1>3
  <1>5. ASSUME NEW n \in 1..N, n - 1 \in S
        PROVE  n \in S
    <2>1. n - 1 \in 0..N /\ n \in 0..N
      BY <1>3
    <2>2. g[n - 1] \in T /\ cs[n] \in ChangesOf(X)
      BY <1>3, <2>1
    <2>3. g[n - 1].base = h[n - 1] /\ NoFewer(g[n - 1].current, g[n - 1].base, x)
      BY <1>5
    <2>4. g[n] = Carried(g[n - 1], cs[n]) /\ h[n] = liveApply(h[n - 1], cs[n])
      BY <1>1, <1>2
    <2>5. NoFewer(g[n].current, g[n].base, x)
      <3>1. g[n - 1] \in [base : Seq(X), current : Seq(X)]
        BY <2>2 DEF T
      <3>2. NoFewer(Carried(g[n - 1], cs[n]).current, Carried(g[n - 1], cs[n]).base, x)
        BY <2>2, <2>3, <3>1, CarriedKeeps
      <3> QED
        BY <2>4, <3>2
    <2>6. g[n].base = h[n]
      BY <2>3, <2>4 DEF Carried
    <2> QED
      BY <2>1, <2>5, <2>6
  <1> HIDE DEF S
  <1>6. 0..N \subseteq S
    BY <1>3, <1>4, <1>5, StepByStep
  <1>7. N \in S
    BY <1>3, <1>6
  <1> QED
    BY <1>1, <1>2, <1>7 DEF S, N

(* A text lacks nothing but E of another: it has no fewer of the others. *)
LEMMA LacksOnly ==
    ASSUME NEW X, NEW text \in Seq(X), NEW base \in Seq(X), NEW E
    PROVE  Lacking(text, base) \subseteq E <=> \A x : x \notin E => NoFewer(text, base, x)
  <1>1. \A x : Cardinality(Places(text, x)) \in Nat /\ Cardinality(Places(base, x)) \in Nat
    BY TimesGrow
  <1>2. \A x : x \notin ToSet(base) => NoFewer(text, base, x)
    <2> SUFFICES ASSUME NEW x, x \notin ToSet(base) PROVE NoFewer(text, base, x)
      OBVIOUS
    <2>1. Places(base, x) = {}
      BY DEF Places, ToSet
    <2>2. Cardinality(Places(base, x)) = 0
      BY <2>1, FS_EmptySet
    <2> QED
      BY <1>1, <2>2 DEF NoFewer
  <1>3. \A x : NoFewer(text, base, x) <=> ~(Cardinality(Places(text, x)) < Cardinality(Places(base, x)))
    BY <1>1 DEF NoFewer
  <1>4. \A x : x \in Lacking(text, base) <=> x \in ToSet(base) /\ ~NoFewer(text, base, x)
    BY <1>3 DEF Lacking
  <1> QED
    BY <1>2, <1>4

LEMMA LacksNothing ==
    ASSUME NEW X, NEW text \in Seq(X)
    PROVE  Lacking(text, text) = {}
  <1>1. \A x : Cardinality(Places(text, x)) \in Nat
    BY TimesGrow
  <1> QED
    BY <1>1 DEF Lacking

LEMMA LacksOfBoth ==
    ASSUME NEW X, NEW text \in Seq(X), NEW sent \in Seq(X), NEW base \in Seq(X), NEW E,
           Lacking(text, sent) \subseteq E, Lacking(sent, base) \subseteq E
    PROVE  Lacking(text, base) \subseteq E
  <1>1. \A x : /\ Cardinality(Places(text, x)) \in Nat /\ Cardinality(Places(sent, x)) \in Nat
               /\ Cardinality(Places(base, x)) \in Nat
    BY TimesGrow
  <1>2. \A x : x \notin E => NoFewer(text, sent, x)
    BY LacksOnly
  <1>3. \A x : x \notin E => NoFewer(sent, base, x)
    BY LacksOnly
  <1>4. \A x : x \notin E => NoFewer(text, base, x)
    BY <1>1, <1>2, <1>3 DEF NoFewer
  <1> QED
    BY <1>4, LacksOnly

(* liveMerge carries over all there is of the own work. *)
LEMMA MergeLacksOnly ==
    ASSUME NEW X, NEW synced \in Seq(X), NEW local \in Seq(X), NEW cs \in Seq(ChangesOf(X)), NEW E,
           Lacking(local, synced) \subseteq E
    PROVE  Lacking(liveMerge(synced, local, cs), ApplyAll(synced, cs)) \subseteq E
  <1>1. liveMerge(synced, local, cs) \in Seq(X)
    BY MergeGivesText
  <1>2. ApplyAll(synced, cs) \in Seq(X)
    BY ApplyAllGivesText
  <1>3. \A x : x \notin E => NoFewer(local, synced, x)
    BY LacksOnly
  <1>4. \A x : x \notin E => NoFewer(liveMerge(synced, local, cs), ApplyAll(synced, cs), x)
    BY <1>3, MergeKeeps
  <1> QED
    BY <1>1, <1>2, <1>4, LacksOnly

(* Typing takes nothing away, and deleting takes what is deleted. *)
LEMMA TypedLacksNothing ==
    ASSUME NEW X, NEW text \in Seq(X), NEW c \in X, NEW n \in 0..Len(text)
    PROVE  InsertAt(text, n + 1, c) \in Seq(X) /\ Lacking(InsertAt(text, n + 1, c), text) \subseteq {}
  <1> DEFINE ins == <<c>>
             ch == Change(n, 0, ins)
             new == InsertAt(text, n + 1, c)
  <1>1. ch \in ChangesOf(X) /\ ch.position = n /\ ch.delete = 0 /\ ch.insert = ins
    BY DEF Change, ChangesOf
  <1>2. liveApply(text, ch) = new
    <2>1. Min({n, Len(text)}) = n
      BY OfTwo
    <2>2. (n + 1) - 1 = n /\ n + 0 = n
      OBVIOUS
    <2>3. Before(text, n) = SubSeq(text, 1, n) /\ After(text, n) = SubSeq(text, n + 1, Len(text))
      BY <2>1 DEF Before, After
    <2>4. liveApply(text, ch) = Before(text, n) \o ins \o After(text, n)
      BY <1>1, <2>2 DEF liveApply
    <2>5. new = SubSeq(text, 1, n) \o ins \o SubSeq(text, n + 1, Len(text))
      BY <2>2 DEF InsertAt
    <2> QED
      BY <2>3, <2>4, <2>5
  <1>3. new \in Seq(X)
    BY <1>1, <1>2, ApplyGivesText
  <1>4. ASSUME NEW x PROVE NoFewer(new, text, x)
    <2>1. Cardinality(Places(new, x))
            = Times(text, x, n) + Cardinality(Places(ins, x)) + Cardinality(Places(text, x)) - Times(text, x, n)
      <3>1. Balance(text, ch, x)
        BY <1>1, TimesOfApply
      <3>2. ch.position + ch.delete = n
        BY <1>1
      <3> HIDE DEF new, ch
      <3> QED
        BY <1>1, <1>2, <3>1, <3>2 DEF Balance
    <2>2. Cardinality(Places(ins, x)) \in Nat
      <3>1. ins \in Seq(X)
        OBVIOUS
      <3> HIDE DEF ins
      <3> QED
        BY <3>1, TimesGrow
    <2>3. Times(text, x, n) \in Nat /\ Cardinality(Places(text, x)) \in Nat
      <3>1. n \in Int
        OBVIOUS
      <3> QED
        BY <3>1, TimesGrow
    <2> HIDE DEF new, ins
    <2> QED
      BY <2>1, <2>2, <2>3 DEF NoFewer
  <1> DEFINE none == {}
  <1>5. \A x : x \notin none => NoFewer(new, text, x)
    BY <1>4
  <1> HIDE DEF new, none
  <1>6. Lacking(new, text) \subseteq none
    BY <1>3, <1>5, LacksOnly
  <1> QED
    BY <1>3, <1>6 DEF new, none

LEMMA ErasedLacksOne ==
    ASSUME NEW X, NEW text \in Seq(X), NEW n \in 1..Len(text)
    PROVE  RemoveAt(text, n) \in Seq(X) /\ Lacking(RemoveAt(text, n), text) \subseteq {text[n]}
  <1> DEFINE ins == <<>>
             ch == Change(n - 1, 1, ins)
             new == RemoveAt(text, n)
  <1>1. ch \in ChangesOf(X) /\ ch.position = n - 1 /\ ch.delete = 1 /\ ch.insert = ins
    BY DEF Change, ChangesOf
  <1>2. liveApply(text, ch) = new
    <2>1. Min({n - 1, Len(text)}) = n - 1
      BY OfTwo
    <2>2. n - 1 + 1 = n
      OBVIOUS
    <2>3. Before(text, n - 1) = SubSeq(text, 1, n - 1) /\ After(text, n) = SubSeq(text, n + 1, Len(text))
      BY <2>1 DEF Before, After
    <2>4. liveApply(text, ch) = Before(text, n - 1) \o ins \o After(text, n)
      BY <1>1, <2>2 DEF liveApply
    <2>5. Before(text, n - 1) \o ins = Before(text, n - 1)
      <3>1. n - 1 \in Nat
        OBVIOUS
      <3>2. Before(text, n - 1) \in Seq(X)
        BY <3>1, PartsOfText
      <3> QED
        BY <3>2, ConcatEmptySeq
    <2>6. new = SubSeq(text, 1, n - 1) \o SubSeq(text, n + 1, Len(text))
      BY DEF RemoveAt
    <2> QED
      BY <2>3, <2>4, <2>5, <2>6
  <1>3. new \in Seq(X)
    BY <1>1, <1>2, ApplyGivesText
  <1>4. ASSUME NEW x, x # text[n] PROVE NoFewer(new, text, x)
    <2>1. Cardinality(Places(new, x))
            = Times(text, x, n - 1) + Cardinality(Places(ins, x)) + Cardinality(Places(text, x)) - Times(text, x, n)
      <3>1. Balance(text, ch, x)
        BY <1>1, TimesOfApply
      <3>2. ch.position + ch.delete = n
        BY <1>1
      <3> HIDE DEF new, ch
      <3> QED
        BY <1>1, <1>2, <3>1, <3>2 DEF Balance
    <2>2. Cardinality(Places(ins, x)) \in Nat
      <3>1. ins \in Seq(X)
        OBVIOUS
      <3> QED
        BY <3>1, TimesGrow
    <2>3. Early(text, x, n) = Early(text, x, n - 1)
      BY <1>4 DEF Early, Places
    <2>4. Times(text, x, n) = Times(text, x, n - 1)
      BY <2>3 DEF Times
    <2>5. Times(text, x, n) \in Nat /\ Cardinality(Places(text, x)) \in Nat
      <3>1. n \in Int
        OBVIOUS
      <3> QED
        BY <3>1, TimesGrow
    <2> HIDE DEF new, ins
    <2> QED
      BY <2>1, <2>2, <2>4, <2>5 DEF NoFewer
  <1> HIDE DEF new
  <1>5. \A x : x \notin {text[n]} => NoFewer(new, text, x)
    BY <1>4
  <1> QED
    BY <1>3, <1>5, LacksOnly DEF new

LEMMA TextsGrow ==
    ASSUME NEW X, NEW Y, X \subseteq Y
    PROVE  Seq(X) \subseteq Seq(Y) /\ ChangesOf(X) \subseteq ChangesOf(Y)
  <1>1. Seq(X) \subseteq Seq(Y)
    OBVIOUS
  <1> QED
    BY <1>1 DEF ChangesOf

LEMMA SameValues ==
    ASSUME typed' = typed
    PROVE  /\ Known' = Known /\ Texts' = Texts /\ Rows' = Rows /\ Shown' = Shown
           /\ Requests' = Requests /\ ChangesOf(Known)' = ChangesOf(Known)
  <1>1. Known' = Known
    BY DEF Known
  <1>2. Texts' = Texts
    BY <1>1 DEF Texts
  <1>3. Rows' = Rows /\ Shown' = Shown
    BY <1>2 DEF Rows, Shown
  <1>4. ChangesOf(Known)' = ChangesOf(Known)
    BY <1>1
  <1>5. Requests' = Requests
    BY <1>2, <1>4 DEF Requests
  <1> QED
    BY <1>1, <1>2, <1>3, <1>4, <1>5

LEMMA NoTextIsNone ==
    ASSUME typed \in SUBSET UNION {Chars[e] : e \in Editors}
    PROVE  NoText \notin Texts
  <1> DEFINE All == StartChars \cup UNION {Chars[e] : e \in Editors}
  <1>1. Known \subseteq All
    BY DEF Known
  <1> HIDE DEF All
  <1>2. Texts \subseteq Seq(All)
    BY <1>1, TextsGrow DEF Texts
  <1>3. NoText \notin Seq(All)
    BY TextAssumption DEF All
  <1> QED
    BY <1>2, <1>3

(***************************************************************************)
(* A step keeps the invariant if every text that was the document of a     *)
(* session so far still is, and what is new among editors and calls is as  *)
(* it should be.                                                           *)
(***************************************************************************)
KeepsHold ==
    \A s \in Nat, r \in Nat, t \in Texts : s < fresh /\ Holds(s, r, t) => Holds(s, r, t)'

(* A call that goes on, waited for or not. *)
Goes(l, k) ==
    /\ k = l \/ k = [l EXCEPT !.waited = FALSE]
    /\ k.waited => /\ editor'[k.who].open = editor[k.who].open
                   /\ editor'[k.who].session = editor[k.who].session
                   /\ editor'[k.who].revision = editor[k.who].revision

LEMMA StepKeepsLiveIInv ==
    ASSUME LiveIInv, LiveValues', OneCallEach', DocOK', CaretsAreInside',
           fresh' >= fresh, typed \subseteq typed', KeepsHold,
           \A e \in Editors : editor'[e] = editor[e] \/ EditorOK(e)',
           \A k \in calls' : CallOK(k)' \/ \E l \in calls : Goes(l, k)
    PROVE  LiveIInv'
  <1>1. Texts \subseteq Texts' /\ fresh \in Nat /\ fresh' \in Nat
    <2>1. Known \subseteq Known'
      BY DEF Known
    <2> QED
      BY <2>1, TextsGrow DEF Texts, LiveIInv, LiveValues
  <1>2. ASSUME NEW e \in Editors, editor'[e] = editor[e]
        PROVE  EditorOK(e)'
    <2>1. EditorOK(e)
      BY DEF LiveIInv
    <2>2. PICK ed \in Shown : ed = editor[e]
      BY DEF LiveIInv, LiveValues
    <2>3. ed.session \in Nat /\ ed.revision \in Nat /\ ed.synced \in Texts \cup {NoText}
      BY DEF Shown
    <2>4. ed.session < fresh /\ ed.session < fresh'
      BY <1>1, <2>1, <2>2, <2>3 DEF EditorOK
    <2>5. ed.synced # NoText => Holds(ed.session, ed.revision, ed.synced)'
      BY <2>1, <2>2, <2>3, <2>4 DEF EditorOK, KeepsHold
    <2>6. editor'[e] = ed
      BY <1>2, <2>2
    <2> QED
      BY <1>1, <2>1, <2>2, <2>4, <2>5, <2>6 DEF EditorOK, Base
  <1>3. ASSUME NEW k \in calls', NEW l \in calls, Goes(l, k)
        PROVE  CallOK(k)'
    <2>0. CallOK(l) /\ l \in Requests
      BY DEF LiveIInv, LiveValues
    <2>1. CallOK(k) /\ k \in Requests
      <3>1. CASE k = l
        BY <2>0, <3>1
      <3>2. CASE k = [l EXCEPT !.waited = FALSE]
        <4>1. /\ k.session = l.session /\ k.revision = l.revision /\ k.sent = l.sent /\ k.at = l.at
              /\ k.changes = l.changes /\ k.waited = FALSE /\ k \in Requests
          BY <2>0, <3>2 DEF Requests
        <4> QED
          BY <2>0, <4>1 DEF CallOK
      <3> QED
        BY <1>3, <3>1, <3>2 DEF Goes
    <2>2. k.session \in Nat /\ k.revision \in Nat /\ k.sent \in Texts
      BY <2>1 DEF Requests
    <2>3. k.session < fresh /\ k.session < fresh'
      BY <1>1, <2>1, <2>2 DEF CallOK
    <2>4. \A b \in Texts : Holds(k.session, k.revision, b) => Holds(k.session, k.revision, b)'
      BY <2>2, <2>3 DEF KeepsHold
    <2>5. k.at = "lock" =>
            \/ k.session = 0 /\ k.changes = <<>>
            \/ \E b \in Texts' : k.changes = liveDiff(b, k.sent) /\ Holds(k.session, k.revision, b)'
      BY <1>1, <2>1, <2>4 DEF CallOK
    <2>6. k.at = "save" => k.session # 0 /\ Holds(k.session, k.revision, k.sent)'
      BY <2>1, <2>2, <2>4 DEF CallOK
    <2>7. k.waited => /\ editor'[k.who].open
                      /\ k.at = "lock" => /\ editor'[k.who].session = k.session
                                          /\ editor'[k.who].revision = k.revision
      BY <1>3, <2>1 DEF CallOK, Goes
    <2> QED
      BY <2>3, <2>5, <2>6, <2>7 DEF CallOK
  <1>4. \A e \in Editors : EditorOK(e)'
    BY <1>2
  <1>5. \A k \in calls' : CallOK(k)'
    BY <1>3
  <1> QED
    BY <1>4, <1>5 DEF LiveIInv

LEMMA SharedStays ==
    ASSUME doc' = doc, kept' = kept
    PROVE  KeepsHold
  BY DEF KeepsHold, Holds, LastKept

LEMMA GoneStaysTrue ==
    ASSUME doc' = <<>>
    PROVE  KeepsHold
  BY DEF KeepsHold, Holds

(* Nobody waits for the calls of an editor that has given them up. *)
LEMMA AbandonedCalls ==
    ASSUME LiveIInv, NEW e \in Editors, Abandon(e)
    PROVE  /\ calls' \in SUBSET Requests /\ OneCallEach'
           /\ \A k \in calls' : k.who = e => ~k.waited
           /\ \A k \in calls' : \E l \in calls : k = l \/ k = [l EXCEPT !.waited = FALSE]
  <1> DEFINE given == {[k EXCEPT !.waited = FALSE] : k \in Waiting(e)}
  <1>1. calls \in SUBSET Requests /\ OneCallEach
    BY DEF LiveIInv, LiveValues
  <1>2. \A k \in given : /\ k \in Requests /\ ~k.waited
                          /\ \E l \in calls : k = [l EXCEPT !.waited = FALSE]
    BY <1>1 DEF Waiting, Requests
  <1>3. \A k \in calls' : k \in given \/ (k \in calls /\ ~(k.who = e /\ k.waited))
    BY DEF Abandon, Waiting
  <1> HIDE DEF given
  <1>4. OneCallEach'
    BY <1>1, <1>2, <1>3 DEF OneCallEach
  <1> QED
    BY <1>1, <1>2, <1>3, <1>4

(* A step that leaves the document alone. *)
LEMMA BrowserStep ==
    ASSUME LiveIInv, UNCHANGED shared, LiveValues', OneCallEach', typed \subseteq typed',
           \A e \in Editors : editor'[e] = editor[e] \/ EditorOK(e)',
           \A k \in calls' : CallOK(k)' \/ \E l \in calls : Goes(l, k)
    PROVE  LiveIInv'
  <1>1. KeepsHold
    BY SharedStays DEF shared
  <1>2. DocOK' /\ CaretsAreInside'
    BY DEF LiveIInv, DocOK, CaretsAreInside, shared
  <1>3. fresh' >= fresh
    BY DEF LiveIInv, LiveValues, shared
  <1> QED
    BY <1>1, <1>2, <1>3, StepKeepsLiveIInv

(* The text an editor is opened with is the page's. *)
LEMMA RenderedIsText ==
    ASSUME LiveIInv
    PROVE  Rendered \in Texts /\ NoText \notin Texts
  BY NoTextIsNone DEF LiveIInv, LiveValues, Rendered

(***************************************************************************)
(* An editor opens with nothing of its own, or with what was left of it;   *)
(* when that cannot be shown, with what the page contains.                 *)
(***************************************************************************)
Opens(e, ed, r) ==
    /\ editor' = [editor EXCEPT ![e] = ed] /\ ed.open /\ ed.initial = r /\ ed.text \in Texts
    /\ \/ /\ ed.synced = NoText /\ ed.session = 0 /\ ed.text = r /\ replaced' = replaced
       \/ /\ ed.synced = editor[e].synced /\ ed.session = editor[e].session
          /\ ed.revision = editor[e].revision /\ editor[e].text # NoText
          /\ \/ ed.text = editor[e].text /\ replaced' = replaced
             \/ /\ ed.text = r
                /\ replaced' = [replaced EXCEPT !.drawing = @ \cup Lacking(r, Base(ed))]

LEMMA OpenedIs ==
    ASSUME LiveIInv, NEW e \in Editors, OpenEditor(e)
    PROVE  \E ed \in Shown : Opens(e, ed, Rendered)
  <1>1. PICK r \in Texts : r = Rendered
    BY RenderedIsText
  <1>2. PICK left \in Shown : left = editor[e] /\ ~left.open
    BY DEF LiveIInv, LiveValues, OpenEditor
  <1>3. PICK v \in Nat : v = page.version + 1
    BY DEF LiveIInv, LiveValues
  <1> DEFINE back == left.text \notin {NoText, r}
             H == Texts \cup {NoText}
  <1>4. PICK from \in Shown : from = IF back THEN left ELSE Blank
    <2>1. Blank \in Shown
      BY DEF Blank, Shown
    <2> QED
      BY <2>1
  <1>5. PICK rich \in BOOLEAN : rich = RichEditable(r)
    BY DEF RichEditable
  <1>6. PICK form : form = [from EXCEPT !.open = TRUE, !.rich = rich, !.initial = r, !.text = r, !.saves = v]
    OBVIOUS
  <1>7. PICK ed : ed = IF back THEN [form EXCEPT !.text = Showing(form, left.text)] ELSE form
    OBVIOUS
  <1>8. /\ editor' = [editor EXCEPT ![e] = ed]
        /\ replaced' = IF back /\ ~Takes(form, left.text)
                          THEN [replaced EXCEPT !.drawing = @ \cup Lacking(ed.text, Base(ed))]
                          ELSE replaced
    BY <1>1, <1>2, <1>3, <1>4, <1>5, <1>6, <1>7 DEF OpenEditor
  <1>9. /\ form \in Shown /\ form.open /\ form.initial = r /\ form.text = r
        /\ form.synced = from.synced /\ form.session = from.session /\ form.revision = from.revision
    <2>1. r \in H /\ TRUE \in BOOLEAN
      BY <1>1
    <2> HIDE DEF H
    <2>2. from \in [open : BOOLEAN, rich : BOOLEAN, session : Nat, revision : Nat, synced : H,
                     initial : H, text : H, saves : Nat]
      BY DEF Shown, H
    <2>3. form \in [open : BOOLEAN, rich : BOOLEAN, session : Nat, revision : Nat, synced : H,
                     initial : H, text : H, saves : Nat]
      BY <1>3, <1>5, <1>6, <2>1, <2>2
    <2>4. /\ form.open /\ form.initial = r /\ form.text = r
          /\ form.synced = from.synced /\ form.session = from.session /\ form.revision = from.revision
      BY <1>6, <2>2
    <2> QED
      BY <2>3, <2>4 DEF Shown, H
  <1>10. CASE back
    <2>1. left.text \in Texts
      BY <1>2, <1>10 DEF Shown
    <2>2. PICK t \in Texts : /\ t = Showing(form, left.text)
                             /\ t = left.text \/ t = r
                             /\ Takes(form, left.text) => t = left.text
                             /\ ~Takes(form, left.text) => t = r
      BY <1>1, <1>9, <2>1 DEF Showing
    <2>3. ed = [form EXCEPT !.text = t]
      BY <1>7, <1>10, <2>2
    <2>4. /\ ed \in Shown /\ ed.open /\ ed.initial = r /\ ed.text = t
          /\ ed.synced = left.synced /\ ed.session = left.session /\ ed.revision = left.revision
      <3>1. t \in H
        OBVIOUS
      <3>2. from = left
        BY <1>4, <1>10
      <3> HIDE DEF H
      <3>3. form \in [open : BOOLEAN, rich : BOOLEAN, session : Nat, revision : Nat, synced : H,
                       initial : H, text : H, saves : Nat]
        BY <1>9 DEF Shown, H
      <3>4. ed \in [open : BOOLEAN, rich : BOOLEAN, session : Nat, revision : Nat, synced : H,
                     initial : H, text : H, saves : Nat]
        BY <2>3, <3>1, <3>3
      <3>5. /\ ed.open = form.open /\ ed.initial = form.initial /\ ed.text = t
            /\ ed.synced = form.synced /\ ed.session = form.session /\ ed.revision = form.revision
        BY <2>3, <3>3
      <3> QED
        BY <1>9, <3>2, <3>4, <3>5 DEF Shown, H
    <2>5. CASE Takes(form, left.text)
      <3>1. replaced' = replaced /\ ed.text = left.text
        BY <1>8, <2>2, <2>4, <2>5
      <3> QED
        BY <1>1, <1>2, <1>8, <1>10, <2>4, <3>1 DEF Opens
    <2>6. CASE ~Takes(form, left.text)
      <3>1. ed.text = r /\ replaced' = [replaced EXCEPT !.drawing = @ \cup Lacking(r, Base(ed))]
        BY <1>8, <1>10, <2>2, <2>4, <2>6
      <3> QED
        BY <1>1, <1>2, <1>8, <1>10, <2>4, <3>1 DEF Opens
    <2> QED
      BY <2>5, <2>6
  <1>11. CASE ~back
    <2>1. ed = form /\ from = Blank /\ replaced' = replaced
      BY <1>4, <1>7, <1>8, <1>11
    <2>2. ed.synced = NoText /\ ed.session = 0
      BY <1>9, <2>1 DEF Blank
    <2> QED
      BY <1>1, <1>8, <1>9, <2>1, <2>2 DEF Opens
  <1> QED
    BY <1>10, <1>11

LEMMA OpenEditorLiveIInv ==
    ASSUME LiveIInv, NEW e \in Editors, OpenEditor(e)
    PROVE  LiveIInv'
  <1>1. PICK r \in Texts : r = Rendered
    BY RenderedIsText
  <1>2. PICK left \in Shown : left = editor[e] /\ EditorOK(e) /\ ~left.open
    BY DEF LiveIInv, LiveValues, OpenEditor
  <1>4. NoText \notin Texts
    BY RenderedIsText
  <1>5. PICK ed \in Shown : Opens(e, ed, r)
    BY <1>1, OpenedIs
  <1>6. /\ ed.open /\ ed.text \in Texts /\ ed.initial = r /\ editor' = [editor EXCEPT ![e] = ed]
        /\ \/ ed.synced = NoText /\ ed.session = 0
           \/ ed.synced = left.synced /\ ed.session = left.session /\ ed.revision = left.revision
    BY <1>2, <1>5 DEF Opens
  <1>7. editor' \in [Editors -> Shown] /\ \A f \in Editors \ {e} : editor'[f] = editor[f]
    <2> QED
      BY <1>6 DEF LiveIInv, LiveValues
  <1>8. LiveValues' /\ OneCallEach' /\ typed' = typed
    <2>1. typed' = typed
      BY DEF OpenEditor, hands
    <2> QED
      BY <1>7, <2>1, SameValues DEF LiveIInv, LiveValues, OneCallEach, OpenEditor, hands, content, shared
  <1>9. EditorOK(e)'
    <2>1. fresh' = fresh /\ Texts' = Texts /\ fresh \in Nat \ {0} /\ KeepsHold
      BY <1>8, SameValues, SharedStays DEF OpenEditor, shared, LiveIInv, LiveValues
    <2>2. ed.synced # NoText => Holds(ed.session, ed.revision, ed.synced)'
      <3>1. left.session \in Nat /\ left.revision \in Nat /\ left.synced \in Texts \cup {NoText}
        BY <1>2 DEF Shown
      <3>2. left.synced # NoText => Holds(left.session, left.revision, left.synced)'
        BY <1>2, <2>1, <3>1 DEF EditorOK, KeepsHold
      <3> QED
        BY <1>6, <3>2
    <2>3. ed.session < fresh
      BY <1>2, <1>6, <2>1 DEF EditorOK
    <2>4. ed.synced = NoText => ed.session = 0
      BY <1>2, <1>6 DEF EditorOK
    <2>5. ed.synced \in Texts \cup {NoText}
      BY DEF Shown
    <2>6. editor'[e] = ed
      BY <1>6 DEF LiveIInv, LiveValues
    <2> QED
      BY <1>1, <1>4, <1>6, <1>7, <2>1, <2>2, <2>3, <2>4, <2>5, <2>6 DEF EditorOK, Base
  <1>10. \A k \in calls' : \E l \in calls : Goes(l, k)
    <2> SUFFICES ASSUME NEW k \in calls' PROVE k \in calls /\ Goes(k, k)
      OBVIOUS
    <2>1. k \in calls /\ CallOK(k) /\ k.who \in Editors
      BY DEF OpenEditor, LiveIInv, LiveValues, Requests
    <2>2. k.waited => k.who # e
      BY <1>2, <2>1 DEF CallOK
    <2> QED
      BY <1>7, <2>1, <2>2 DEF Goes
  <1> QED
    BY <1>7, <1>8, <1>9, <1>10, BrowserStep DEF OpenEditor

LEMMA TypeInLiveIInv ==
    ASSUME LiveIInv, NEW e \in Editors, NEW c \in Chars[e], NEW n \in 0..Len(editor[e].text), TypeIn(e, c, n)
    PROVE  LiveIInv'
  <1>1. PICK left \in Shown : left = editor[e] /\ EditorOK(e) /\ left.open
    BY DEF LiveIInv, LiveValues, TypeIn
  <1>2. left.text \in Texts /\ Base(left) \in Texts
    BY <1>1 DEF EditorOK
  <1>3. Known \subseteq Known' /\ c \in Known' /\ typed \subseteq typed'
    BY DEF TypeIn, Known
  <1>4. Texts \subseteq Texts' /\ ChangesOf(Known) \subseteq ChangesOf(Known)'
    BY <1>3, TextsGrow DEF Texts
  <1>5. typed' \in SUBSET UNION {Chars[f] : f \in Editors}
    BY DEF TypeIn, LiveIInv, LiveValues
  <1> DEFINE t == InsertAt(left.text, n + 1, c)
  <1>6. t \in Texts'
    <2> DEFINE L == Len(left.text)
               first == SubSeq(left.text, 1, n)
               rest == SubSeq(left.text, n + 1, L)
    <2>1. left.text \in Seq(Known') /\ L \in Nat /\ n \in 0..L
      BY <1>1, <1>2, <1>4 DEF Texts
    <2>2. \A i \in 1..L : left.text[i] \in Known'
      BY <2>1
    <2>3. first \in Seq(Known')
      <3>1. n \in Int /\ 1 \in Int /\ \A i \in 1..n : left.text[i] \in Known'
        BY <2>1, <2>2
      <3> QED
        BY <3>1, SubSeqProperties
    <2>4. rest \in Seq(Known')
      <3> DEFINE m == n + 1
      <3>1. m \in Int /\ L \in Int /\ \A i \in m..L : left.text[i] \in Known'
        BY <2>1, <2>2
      <3> HIDE DEF m, L
      <3>2. SubSeq(left.text, m, L) \in Seq(Known')
        BY <3>1, SubSeqProperties
      <3> QED
        BY <3>2 DEF m
    <2>5. t = first \o <<c>> \o rest
      <3>1. t = SubSeq(left.text, 1, (n + 1) - 1) \o <<c>> \o rest
        BY DEF InsertAt
      <3>2. (n + 1) - 1 = n
        BY <2>1
      <3> QED
        BY <3>1, <3>2
    <2>6. <<c>> \in Seq(Known')
      BY <1>3
    <2> HIDE DEF first, rest, t
    <2> QED
      BY <2>3, <2>4, <2>5, <2>6 DEF Texts
  <1> HIDE DEF t
  <1>7. PICK ed : ed = [left EXCEPT !.text = t] /\ editor' = [editor EXCEPT ![e] = ed]
    <2>1. editor' = [editor EXCEPT ![e].text = t]
      BY <1>1 DEF TypeIn, t
    <2>2. [editor EXCEPT ![e].text = t] = [editor EXCEPT ![e] = [left EXCEPT !.text = t]]
      BY <1>1 DEF LiveIInv, LiveValues
    <2> QED
      BY <2>1, <2>2
  <1>8. Shown \subseteq Shown' /\ Requests \subseteq Requests' /\ Rows \subseteq Rows'
    BY <1>4 DEF Shown, Requests, Rows
  <1>9. ed \in Shown' /\ editor'[e] = ed /\ \A f \in Editors \ {e} : editor'[f] = editor[f]
    BY <1>1, <1>6, <1>7, <1>8 DEF Shown, LiveIInv, LiveValues
  <1>10. LiveValues'
    <2>1. editor' \in [Editors -> Shown']
      BY <1>7, <1>8, <1>9 DEF LiveIInv, LiveValues
    <2>2. kept \in Seq(ChangesOf(Known)')
      <3>1. Seq(ChangesOf(Known)) \subseteq Seq(ChangesOf(Known)')
        BY <1>4, TextsGrow
      <3> QED
        BY <3>1 DEF LiveIInv, LiveValues
    <2>3. page \in [version : Nat \ {0}, body : Texts'] /\ draft \in Texts' \cup {NoText}
      BY <1>4 DEF LiveIInv, LiveValues
    <2>4. erased \in SUBSET Known'
      BY <1>3 DEF LiveIInv, LiveValues
    <2> QED
      BY <1>5, <1>8, <2>1, <2>2, <2>3, <2>4 DEF LiveIInv, LiveValues, TypeIn, content, shared
  <1>11. EditorOK(e)'
    <2>1. fresh' = fresh /\ KeepsHold
      BY SharedStays DEF TypeIn, shared
    <2>2. /\ ed.synced = left.synced /\ ed.session = left.session /\ ed.revision = left.revision
          /\ ed.text = t /\ ed.initial = left.initial
      BY <1>1, <1>7 DEF Shown
    <2>3. ed.synced # NoText => Holds(ed.session, ed.revision, ed.synced)'
      <3>1. left.session \in Nat /\ left.revision \in Nat /\ left.synced \in Texts \cup {NoText}
        BY <1>1 DEF Shown
      <3>2. left.synced # NoText => Holds(left.session, left.revision, left.synced)'
        BY <1>1, <2>1, <3>1 DEF EditorOK, KeepsHold
      <3> QED
        BY <2>2, <3>2
    <2> QED
      BY <1>1, <1>2, <1>4, <1>6, <1>9, <2>1, <2>2, <2>3 DEF EditorOK, Base
  <1>12. \A k \in calls' : \E l \in calls : Goes(l, k)
    <2> SUFFICES ASSUME NEW k \in calls' PROVE k \in calls /\ Goes(k, k)
      OBVIOUS
    <2>1. k \in calls /\ k.who \in Editors
      BY DEF TypeIn, LiveIInv, LiveValues, Requests
    <2>2. ed.open = left.open /\ ed.session = left.session /\ ed.revision = left.revision
      BY <1>1, <1>7 DEF Shown
    <2> QED
      BY <1>1, <1>9, <2>1, <2>2 DEF Goes
  <1>13. OneCallEach' /\ UNCHANGED shared
    BY DEF TypeIn, OneCallEach, LiveIInv
  <1> QED
    BY <1>3, <1>9, <1>10, <1>11, <1>12, <1>13, BrowserStep

(* One editor changes, of the document and what was typed nothing does. *)
LEMMA EditorStep ==
    ASSUME LiveIInv, UNCHANGED shared, typed' = typed, NEW e \in Editors, NEW ed \in Shown,
           editor' = [editor EXCEPT ![e] = ed], EditorOK(e)',
           calls' \in SUBSET Requests, OneCallEach',
           page' \in [version : Nat \ {0}, body : Texts], draft' \in Texts \cup {NoText},
           erased' \in SUBSET Known,
           \A k \in calls' : \E l \in calls : Goes(l, k)
    PROVE  LiveIInv'
  <1>1. /\ editor' \in [Editors -> Shown] /\ editor'[e] = ed
        /\ \A f \in Editors \ {e} : editor'[f] = editor[f]
    BY DEF LiveIInv, LiveValues
  <1>2. LiveValues'
    BY <1>1, SameValues DEF LiveIInv, LiveValues, shared
  <1>3. \A f \in Editors : editor'[f] = editor[f] \/ EditorOK(f)'
    BY <1>1
  <1> QED
    BY <1>2, <1>3, BrowserStep

LEMMA AbandonedGo ==
    ASSUME LiveIInv, NEW e \in Editors, Abandon(e), \A f \in Editors \ {e} : editor'[f] = editor[f]
    PROVE  \A k \in calls' : \E l \in calls : Goes(l, k)
  <1> SUFFICES ASSUME NEW k \in calls' PROVE \E l \in calls : Goes(l, k)
    OBVIOUS
  <1>1. PICK l \in calls : k = l \/ k = [l EXCEPT !.waited = FALSE]
    BY AbandonedCalls
  <1>2. k \in Requests /\ (k.who = e => ~k.waited)
    BY AbandonedCalls
  <1>3. k.who \in Editors
    BY <1>2 DEF Requests
  <1> QED
    BY <1>1, <1>2, <1>3 DEF Goes

(* An editor that still has what it synced is as it should be. *)
LEMMA EditorStaysOK ==
    ASSUME LiveIInv, UNCHANGED shared, typed' = typed, NEW e \in Editors, NEW ed \in Shown, editor'[e] = ed,
           ed.open => ed.text \in Texts /\ Base(ed) \in Texts,
           \/ ed.session = 0
           \/ /\ ed.synced = editor[e].synced /\ ed.session = editor[e].session
              /\ ed.revision = editor[e].revision
    PROVE  EditorOK(e)'
  <1>1. PICK left \in Shown : left = editor[e] /\ EditorOK(e)
    BY DEF LiveIInv, LiveValues
  <1>2. /\ fresh' = fresh /\ Texts' = Texts /\ fresh \in Nat \ {0} /\ KeepsHold
        /\ doc = <<>> \/ \E r \in Rows : doc = <<r>>
    BY SameValues, SharedStays DEF shared, LiveIInv, LiveValues
  <1>3. left.session \in Nat /\ left.revision \in Nat /\ left.synced \in Texts \cup {NoText}
    BY DEF Shown
  <1>4. left.synced # NoText => Holds(left.session, left.revision, left.synced)'
    BY <1>1, <1>2, <1>3 DEF EditorOK, KeepsHold
  <1>5. Holds(0, ed.revision, ed.synced)'
    <2>1. doc = <<>> \/ doc[1].session # 0
      BY <1>2 DEF Rows
    <2> QED
      BY <2>1 DEF Holds, shared
  <1>6. ed.synced # NoText => Holds(ed.session, ed.revision, ed.synced)'
    <2>1. CASE ed.session = 0
      BY <1>5, <2>1
    <2>2. CASE /\ ed.synced = left.synced /\ ed.session = left.session /\ ed.revision = left.revision
      BY <1>4, <2>2
    <2> QED
      BY <1>1, <2>1, <2>2
  <1>7. ed.session < fresh /\ (ed.synced = NoText => ed.session = 0)
    BY <1>1, <1>2, <1>3 DEF EditorOK
  <1> QED
    BY <1>2, <1>6, <1>7 DEF EditorOK, Base

LEMMA EraseLiveIInv ==
    ASSUME LiveIInv, NEW e \in Editors, NEW n \in 1..Len(editor[e].text), Erase(e, n)
    PROVE  LiveIInv'
  <1>1. PICK left \in Shown : left = editor[e] /\ left.open /\ left.text \in Texts /\ Base(left) \in Texts
    BY DEF LiveIInv, LiveValues, EditorOK, Erase
  <1> DEFINE L == Len(left.text)
             t == RemoveAt(left.text, n)
  <1>2. left.text \in Seq(Known) /\ L \in Nat /\ n \in 1..L /\ left.text[n] \in Known
    BY <1>1 DEF Texts
  <1>3. t \in Texts
    <2> DEFINE first == SubSeq(left.text, 1, n - 1)
               rest == SubSeq(left.text, n + 1, L)
    <2>1. \A i \in 1..L : left.text[i] \in Known
      BY <1>2
    <2>2. first \in Seq(Known)
      <3> DEFINE m == n - 1
      <3>1. m \in Int /\ 1 \in Int /\ \A i \in 1..m : left.text[i] \in Known
        BY <1>2, <2>1
      <3> HIDE DEF m
      <3>2. SubSeq(left.text, 1, m) \in Seq(Known)
        BY <3>1, SubSeqProperties
      <3> QED
        BY <3>2 DEF m
    <2>3. rest \in Seq(Known)
      <3> DEFINE m == n + 1
      <3>1. m \in Int /\ L \in Int /\ \A i \in m..L : left.text[i] \in Known
        BY <1>2, <2>1
      <3> HIDE DEF m, L
      <3>2. SubSeq(left.text, m, L) \in Seq(Known)
        BY <3>1, SubSeqProperties
      <3> QED
        BY <3>2 DEF m
    <2>4. t = first \o rest
      BY DEF RemoveAt
    <2> HIDE DEF first, rest, t
    <2> QED
      BY <2>2, <2>3, <2>4 DEF Texts
  <1> HIDE DEF t, L
  <1>4. PICK ed : ed = [left EXCEPT !.text = t]
    OBVIOUS
  <1>5. editor' = [editor EXCEPT ![e] = ed]
    <2>1. editor' = [editor EXCEPT ![e].text = t]
      BY <1>1 DEF Erase, t
    <2>2. [editor EXCEPT ![e].text = t] = [editor EXCEPT ![e] = [left EXCEPT !.text = t]]
      BY <1>1 DEF LiveIInv, LiveValues
    <2> QED
      BY <1>4, <2>1, <2>2
  <1>6. ed \in Shown /\ ed.text = t
    BY <1>1, <1>3, <1>4 DEF Shown
  <1>7. /\ ed.synced = left.synced /\ ed.session = left.session /\ ed.revision = left.revision
        /\ ed.open = left.open /\ ed.initial = left.initial
    BY <1>1, <1>4 DEF Shown
  <1>8. UNCHANGED shared /\ typed' = typed /\ calls' = calls /\ UNCHANGED content
    BY DEF Erase
  <1>9. EditorOK(e)'
    <2>1. editor'[e] = ed
      BY <1>5 DEF LiveIInv, LiveValues
    <2>2. Base(ed) = Base(left)
      BY <1>7 DEF Base
    <2> QED
      BY <1>1, <1>3, <1>6, <1>7, <1>8, <2>1, <2>2, EditorStaysOK
  <1>10. erased' \in SUBSET Known
    BY <1>1, <1>2 DEF Erase, LiveIInv, LiveValues
  <1>11. /\ calls' \in SUBSET Requests /\ OneCallEach'
         /\ page' \in [version : Nat \ {0}, body : Texts] /\ draft' \in Texts \cup {NoText}
    BY <1>8 DEF LiveIInv, LiveValues, OneCallEach, content
  <1>12. \A k \in calls' : \E l \in calls : Goes(l, k)
    <2> SUFFICES ASSUME NEW k \in calls' PROVE k \in calls /\ Goes(k, k)
      OBVIOUS
    <2>1. k \in calls /\ k.who \in Editors
      BY <1>8 DEF LiveIInv, LiveValues, Requests
    <2>2. editor'[k.who] = IF k.who = e THEN ed ELSE editor[k.who]
      BY <1>5, <2>1 DEF LiveIInv, LiveValues
    <2> QED
      BY <1>1, <1>7, <2>1, <2>2 DEF Goes
  <1> QED
    BY <1>5, <1>6, <1>8, <1>9, <1>10, <1>11, <1>12, EditorStep

LEMMA SendLiveIInv ==
    ASSUME LiveIInv, NEW e \in Editors, Send(e)
    PROVE  LiveIInv'
  <1>1. PICK ed \in Shown : /\ ed = editor[e] /\ EditorOK(e) /\ ed.open
                            /\ ed.text \in Texts /\ ed.synced \in Texts \cup {NoText}
                            /\ ed.session \in Nat /\ ed.revision \in Nat
    BY DEF LiveIInv, LiveValues, EditorOK, Send, Shown
  <1> DEFINE sends == IF ed.synced = NoText THEN <<>> ELSE liveDiff(ed.synced, ed.text)
  <1>2. PICK k : k = [who |-> e, waited |-> TRUE, at |-> "lock",
            session |-> ed.session, revision |-> ed.revision, sent |-> ed.text,
            changes |-> sends, version |-> page.version, body |-> Rendered]
    OBVIOUS
  <1>3. calls' = calls \cup {k} /\ Waiting(e) = {} /\ UNCHANGED <<content, shared, editor, hands>>
    BY <1>1, <1>2 DEF Send
  <1>4. sends \in {<<>>} \cup {<<c>> : c \in ChangesOf(Known)}
    <2>1. ASSUME ed.synced # NoText PROVE liveDiff(ed.synced, ed.text) \in {<<>>} \cup {<<c>> : c \in ChangesOf(Known)}
      BY <1>1, <2>1, DiffIsTheChange DEF Texts
    <2> QED
      BY <2>1
  <1> HIDE DEF sends
  <1>5. page.version \in Nat /\ Rendered \in Texts
    BY RenderedIsText DEF LiveIInv, LiveValues
  <1>6. k \in Requests
    BY <1>1, <1>2, <1>4, <1>5 DEF Requests
  <1>7. OneCallEach'
    <2>1. \A l \in calls : l.waited => l.who # e
      BY <1>3 DEF Waiting
    <2>2. k.who = e
      BY <1>2
    <2> QED
      BY <1>3, <2>1, <2>2 DEF OneCallEach, LiveIInv
  <1>8. LiveValues' /\ typed' = typed
    <2>1. typed' = typed
      BY <1>3 DEF hands
    <2> QED
      BY <1>3, <1>6, <2>1, SameValues DEF LiveIInv, LiveValues, content, shared, hands
  <1>9. CallOK(k)'
    <2>1. KeepsHold /\ Texts' = Texts /\ fresh' = fresh /\ editor'[e] = ed
      BY <1>1, <1>3, <1>8, SharedStays, SameValues DEF shared
    <2>2. /\ k.who = e /\ k.at = "lock" /\ k.session = ed.session /\ k.revision = ed.revision
          /\ k.sent = ed.text /\ k.changes = sends
      BY <1>2
    <2>3. CASE ed.synced = NoText
      <3>1. k.session = 0 /\ k.changes = <<>>
        BY <1>1, <2>2, <2>3 DEF EditorOK, sends
      <3>2. 0 < fresh
        BY DEF LiveIInv, LiveValues
      <3> QED
        BY <1>1, <2>1, <2>2, <3>1, <3>2 DEF CallOK
    <2>4. CASE ed.synced # NoText
      <3>1. Holds(ed.session, ed.revision, ed.synced) /\ ed.session < fresh
        BY <1>1, <2>4 DEF EditorOK
      <3>2. Holds(ed.session, ed.revision, ed.synced)'
        BY <1>1, <2>1, <2>4, <3>1 DEF KeepsHold
      <3>3. k.changes = liveDiff(ed.synced, k.sent)
        BY <2>2, <2>4 DEF sends
      <3>4. Holds(k.session, k.revision, ed.synced)'
        BY <2>2, <3>2
      <3> QED
        BY <1>1, <2>1, <2>2, <2>4, <3>1, <3>3, <3>4 DEF CallOK
    <2> QED
      BY <2>3, <2>4
  <1>10. \A l \in calls' : CallOK(l)' \/ \E m \in calls : Goes(m, l)
    BY <1>3, <1>9 DEF Goes
  <1> QED
    BY <1>3, <1>7, <1>8, <1>10, BrowserStep

(* What is left of an editor that goes away has its text and its base. *)
LEMMA EntryIsOK ==
    ASSUME LiveIInv, NEW e \in Editors, editor[e].open
    PROVE  \E ed \in Shown :
              /\ ed = Entry(editor[e]) /\ ~ed.open
              /\ \/ ed.session = 0
                 \/ /\ ed.synced = editor[e].synced /\ ed.session = editor[e].session
                    /\ ed.revision = editor[e].revision
  <1>1. PICK left \in Shown : left = editor[e] /\ EditorOK(e) /\ Base(left) \in Texts
    BY DEF LiveIInv, LiveValues, EditorOK
  <1>2. PICK b \in Texts : b = Base(left)
    BY <1>1
  <1>3. CASE left.text = b
    <2>1. Blank \in Shown /\ Blank.session = 0 /\ ~Blank.open
      BY DEF Blank, Shown
    <2> QED
      BY <1>1, <1>2, <1>3, <2>1 DEF Entry
  <1>4. CASE left.text # b
    <2> DEFINE H == Texts \cup {NoText}
    <2>1. PICK ed : ed = [left EXCEPT !.open = FALSE, !.rich = FALSE, !.synced = b,
                                 !.initial = NoText, !.saves = 0]
      OBVIOUS
    <2>2. ed = Entry(left)
      BY <1>2, <1>4, <2>1 DEF Entry
    <2>3. b \in H /\ NoText \in H /\ FALSE \in BOOLEAN /\ 0 \in Nat
      BY <1>2
    <2> HIDE DEF H
    <2>4. left \in [open : BOOLEAN, rich : BOOLEAN, session : Nat, revision : Nat, synced : H,
                    initial : H, text : H, saves : Nat]
      BY DEF Shown, H
    <2>5. ed \in [open : BOOLEAN, rich : BOOLEAN, session : Nat, revision : Nat, synced : H,
                  initial : H, text : H, saves : Nat]
      BY <2>1, <2>3, <2>4
    <2>6. ~ed.open /\ ed.session = left.session /\ ed.revision = left.revision /\ ed.synced = b
      BY <2>1, <2>4
    <2>7. ed.session = 0 \/ ed.synced = left.synced
      BY <1>1, <1>2, <2>6 DEF EditorOK, Base
    <2>8. ed \in Shown
      BY <2>5 DEF Shown, H
    <2> QED
      BY <1>1, <2>2, <2>6, <2>7, <2>8
  <1> QED
    BY <1>3, <1>4

LEMMA GiveUpLiveIInv ==
    ASSUME LiveIInv, NEW e \in Editors, GiveUp(e)
    PROVE  LiveIInv'
  <1>1. calls' \in SUBSET Requests /\ OneCallEach' /\ Abandon(e)
    BY AbandonedCalls DEF GiveUp
  <1>2. UNCHANGED <<content, shared, editor, hands>>
    BY DEF GiveUp
  <1>3. typed' = typed /\ UNCHANGED shared /\ editor' = editor
    BY <1>2 DEF hands
  <1>4. LiveValues'
    BY <1>1, <1>2, <1>3, SameValues DEF LiveIInv, LiveValues, content, shared, hands
  <1>5. \A k \in calls' : \E l \in calls : Goes(l, k)
    BY <1>1, <1>3, AbandonedGo
  <1> QED
    BY <1>1, <1>3, <1>4, <1>5, BrowserStep

(***************************************************************************)
(* The editor goes away, or is rendered again: nobody waits for its calls. *)
(***************************************************************************)
LEMMA LeavingStep ==
    ASSUME LiveIInv, NEW e \in Editors, NEW ed \in Shown, editor' = [editor EXCEPT ![e] = ed], Abandon(e),
           UNCHANGED shared, UNCHANGED hands,
           page' \in [version : Nat \ {0}, body : Texts], draft' \in Texts \cup {NoText},
           ed.open => ed.text \in Texts /\ Base(ed) \in Texts,
           \/ ed.session = 0
           \/ /\ ed.synced = editor[e].synced /\ ed.session = editor[e].session
              /\ ed.revision = editor[e].revision
    PROVE  LiveIInv'
  <1>1. editor'[e] = ed /\ \A f \in Editors \ {e} : editor'[f] = editor[f]
    BY DEF LiveIInv, LiveValues
  <1>2. typed' = typed /\ erased' \in SUBSET Known
    BY DEF hands, LiveIInv, LiveValues
  <1>3. EditorOK(e)'
    BY <1>1, <1>2, EditorStaysOK
  <1>4. calls' \in SUBSET Requests /\ OneCallEach'
    BY AbandonedCalls
  <1>5. \A k \in calls' : \E l \in calls : Goes(l, k)
    BY <1>1, AbandonedGo
  <1> QED
    BY <1>2, <1>3, <1>4, <1>5, EditorStep

LEMMA CloseEditorLiveIInv ==
    ASSUME LiveIInv, NEW e \in Editors, CloseEditor(e)
    PROVE  LiveIInv'
  <1>1. PICK ed \in Shown :
              /\ ed = Entry(editor[e]) /\ ~ed.open
              /\ \/ ed.session = 0
                 \/ /\ ed.synced = editor[e].synced /\ ed.session = editor[e].session
                    /\ ed.revision = editor[e].revision
    BY EntryIsOK DEF CloseEditor
  <1>2. editor' = [editor EXCEPT ![e] = ed] /\ Abandon(e) /\ UNCHANGED <<content, shared, hands>>
    BY <1>1 DEF CloseEditor
  <1>3. page' \in [version : Nat \ {0}, body : Texts] /\ draft' \in Texts \cup {NoText}
    BY <1>2 DEF content, LiveIInv, LiveValues
  <1> QED
    BY <1>1, <1>2, <1>3, LeavingStep

LEMMA PublishLiveIInv ==
    ASSUME LiveIInv, NEW e \in Editors, Publish(e)
    PROVE  LiveIInv'
  <1>1. PICK ed \in Shown :
              /\ ed = Entry(editor[e]) /\ ~ed.open
              /\ \/ ed.session = 0
                 \/ /\ ed.synced = editor[e].synced /\ ed.session = editor[e].session
                    /\ ed.revision = editor[e].revision
    BY EntryIsOK DEF Publish
  <1>2. editor' = [editor EXCEPT ![e] = ed] /\ Abandon(e) /\ UNCHANGED <<shared, hands>>
    BY <1>1 DEF Publish
  <1>3. page' \in [version : Nat \ {0}, body : Texts] /\ draft' \in Texts \cup {NoText}
    <2>1. editor[e].text \in Texts /\ page.version \in Nat
      BY DEF Publish, LiveIInv, LiveValues, EditorOK
    <2> QED
      BY <2>1 DEF Publish
  <1> QED
    BY <1>1, <1>2, <1>3, LeavingStep

LEMMA SaveAsDraftLiveIInv ==
    ASSUME LiveIInv, NEW e \in Editors, SaveAsDraft(e)
    PROVE  LiveIInv'
  <1>1. PICK ed \in Shown :
              /\ ed = Entry(editor[e]) /\ ~ed.open
              /\ \/ ed.session = 0
                 \/ /\ ed.synced = editor[e].synced /\ ed.session = editor[e].session
                    /\ ed.revision = editor[e].revision
    BY EntryIsOK DEF SaveAsDraft
  <1>2. editor' = [editor EXCEPT ![e] = ed] /\ Abandon(e) /\ UNCHANGED <<shared, hands>>
    BY <1>1 DEF SaveAsDraft
  <1>3. page' \in [version : Nat \ {0}, body : Texts] /\ draft' \in Texts \cup {NoText}
    BY DEF SaveAsDraft, LiveIInv, LiveValues, EditorOK
  <1> QED
    BY <1>1, <1>2, <1>3, LeavingStep

LEMMA PublishRefusedLiveIInv ==
    ASSUME LiveIInv, NEW e \in Editors, PublishRefused(e)
    PROVE  LiveIInv'
  <1>1. PICK left \in Shown : left = editor[e] /\ left.text \in Texts /\ left.saves \in Nat
    BY DEF PublishRefused, LiveIInv, LiveValues, EditorOK, Shown
  <1>2. Blank \in Shown /\ Blank.session = 0 /\ Blank.synced = NoText
    BY DEF Blank, Shown
  <1>3. PICK bl \in Shown : bl = Blank
    BY <1>2
  <1>10. PICK rich \in BOOLEAN : rich = RichEditable(left.text)
    BY DEF RichEditable
  <1>4. PICK ed : ed = [bl EXCEPT !.open = TRUE, !.rich = rich, !.initial = left.text, !.text = left.text,
                                  !.saves = left.saves]
    OBVIOUS
  <1>5. ed \in Shown
    <2> DEFINE H == Texts \cup {NoText}
    <2>1. left.text \in H
      BY <1>1
    <2> HIDE DEF H
    <2>2. bl \in [open : BOOLEAN, rich : BOOLEAN, session : Nat, revision : Nat, synced : H,
                  initial : H, text : H, saves : Nat]
      BY DEF Shown, H
    <2>3. ed \in [open : BOOLEAN, rich : BOOLEAN, session : Nat, revision : Nat, synced : H,
                  initial : H, text : H, saves : Nat]
      BY <1>1, <1>4, <1>10, <2>1, <2>2
    <2> QED
      BY <2>3 DEF Shown, H
  <1>6. ed.session = bl.session /\ ed.synced = bl.synced /\ ed.text = left.text /\ ed.initial = left.text
    BY <1>4 DEF Shown
  <1>7. editor' = [editor EXCEPT ![e] = ed] /\ Abandon(e) /\ UNCHANGED <<content, shared, hands>>
    BY <1>1, <1>3, <1>4, <1>10 DEF PublishRefused
  <1>8. page' \in [version : Nat \ {0}, body : Texts] /\ draft' \in Texts \cup {NoText}
    BY <1>7 DEF content, LiveIInv, LiveValues
  <1>9. ed.session = 0 /\ Base(ed) \in Texts /\ ed.text \in Texts
    BY <1>1, <1>2, <1>3, <1>6 DEF Base
  <1> QED
    BY <1>5, <1>7, <1>8, <1>9, LeavingStep

LEMMA DiscardDraftLiveIInv ==
    ASSUME LiveIInv, DiscardDraft
    PROVE  LiveIInv'
  <1>1. typed' = typed /\ UNCHANGED <<page, shared, editor, calls, hands>>
    BY DEF DiscardDraft, hands
  <1>2. LiveValues' /\ OneCallEach'
    BY <1>1, SameValues DEF LiveIInv, LiveValues, OneCallEach, DiscardDraft, shared, hands
  <1>3. \A k \in calls' : Goes(k, k) /\ k \in calls
    BY <1>1 DEF Goes
  <1> QED
    BY <1>1, <1>2, <1>3, BrowserStep

LEMMA CloseDocumentLiveIInv ==
    ASSUME LiveIInv, CloseDocument
    PROVE  LiveIInv'
  <1>1. /\ typed' = typed /\ fresh' = fresh /\ doc' = <<>> /\ kept' = <<>>
        /\ UNCHANGED <<page, draft, editor, calls, erased>>
    BY DEF CloseDocument, hands, content
  <1>2. LiveValues' /\ OneCallEach'
    BY <1>1, SameValues DEF LiveIInv, LiveValues, OneCallEach
  <1>3. \A k \in calls' : Goes(k, k) /\ k \in calls
    BY <1>1 DEF Goes
  <1>4. DocOK' /\ CaretsAreInside' /\ KeepsHold
    BY <1>1, GoneStaysTrue DEF DocOK, CaretsAreInside, CloseDocument
  <1>5. fresh' >= fresh
    BY <1>1 DEF LiveIInv, LiveValues
  <1> QED
    BY <1>1, <1>2, <1>3, <1>4, <1>5, StepKeepsLiveIInv

(* What an answer leaves in the editor. *)
IsSynced(new, latest, synced, text) ==
    /\ new \in Shown /\ new.session = latest.session /\ new.revision = latest.revision
    /\ new.synced = synced /\ new.text = text

LEMMA SyncedIs ==
    ASSUME NEW ed \in Shown, NEW synced \in Texts, NEW text \in Texts, NEW latest,
           latest.session \in Nat, latest.revision \in Nat, latest.base \in Nat
    PROVE  IsSynced(Synced(ed, latest, synced, text), latest, synced, text)
  <1> DEFINE H == Texts \cup {NoText}
             s == latest.session
             r == latest.revision
             b == latest.base + 1
  <1>1. synced \in H /\ text \in H /\ NoText \in H /\ s \in Nat /\ r \in Nat /\ b \in Nat
    OBVIOUS
  <1>2. PICK new : new = [ed EXCEPT !.session = s, !.revision = r, !.saves = b, !.synced = synced,
                                    !.text = text, !.initial = NoText]
    OBVIOUS
  <1>3. new = Synced(ed, latest, synced, text)
    BY <1>2 DEF Synced
  <1> HIDE DEF H, s, r, b
  <1>4. ed \in [open : BOOLEAN, rich : BOOLEAN, session : Nat, revision : Nat, synced : H,
                initial : H, text : H, saves : Nat]
    BY DEF Shown, H
  <1>5. new \in [open : BOOLEAN, rich : BOOLEAN, session : Nat, revision : Nat, synced : H,
                 initial : H, text : H, saves : Nat]
    BY <1>1, <1>2, <1>4
  <1>6. new.session = s /\ new.revision = r /\ new.synced = synced /\ new.text = text
    BY <1>2, <1>4
  <1>7. new \in Shown
    BY <1>5 DEF Shown, H
  <1> QED
    BY <1>3, <1>6, <1>7 DEF s, r, IsSynced

(* The document is what it is. *)
LEMMA HoldsLatest ==
    ASSUME NEW X, NEW r, doc' = <<r>>, r.body \in Seq(X), r.revision \in Nat, kept' \in Seq(ChangesOf(X))
    PROVE  Holds(r.session, r.revision, r.body)'
  <1>1. r.revision - r.revision = 0 /\ doc'[1] = r
    OBVIOUS
  <1>2. (LastKept(0))' = <<>>
    <2>1. Len(kept') \in Nat
      OBVIOUS
    <2> QED
      BY <2>1, LastOfNone DEF LastKept
  <1>3. ApplyAll(r.body, <<>>) = r.body
    <2>1. <<>> \in Seq(ChangesOf(X))
      OBVIOUS
    <2> QED
      BY <2>1, ApplyAllGivesText
  <1> QED
    BY <1>1, <1>2, <1>3 DEF Holds

(* A call is over and its answer is in the editor that waits for it. *)
LEMMA ServedStep ==
    ASSUME LiveIInv, NEW k \in calls, NEW ed, Answer(k, ed),
           KeepsHold, fresh' >= fresh, fresh' \in Nat \ {0}, typed' = typed, erased' = erased,
           page' = page, draft' \in Texts \cup {NoText}, doc' = <<>> \/ \E r \in Rows : doc' = <<r>> /\ r.session < fresh',
           kept' \in Seq(ChangesOf(Known)), CaretsAreInside',
           k.waited => /\ ed \in Shown /\ ed.text \in Texts /\ ed.synced \in Texts
                       /\ ed.session < fresh' /\ Holds(ed.session, ed.revision, ed.synced)'
    PROVE  LiveIInv'
  <1>1. k \in Requests /\ k.who \in Editors /\ editor \in [Editors -> Shown] /\ NoText \notin Texts
    BY NoTextIsNone DEF LiveIInv, LiveValues, Requests
  <1>2. calls' = calls \ {k} /\ editor' = IF k.waited THEN [editor EXCEPT ![k.who] = ed] ELSE editor
    BY DEF Answer
  <1>3. editor' \in [Editors -> Shown]
    BY <1>1, <1>2
  <1>4. LiveValues'
    BY <1>2, <1>3, SameValues DEF LiveIInv, LiveValues
  <1>5. OneCallEach' /\ DocOK'
    BY <1>2 DEF LiveIInv, OneCallEach, DocOK
  <1>6. ASSUME NEW e \in Editors PROVE editor'[e] = editor[e] \/ EditorOK(e)'
    <2>1. CASE k.waited /\ e = k.who
      <3>1. editor'[e] = ed
        BY <1>1, <1>2, <2>1
      <3>2. Texts' = Texts
        BY SameValues
      <3>3. Base(ed) = ed.synced /\ ed.synced # NoText
        BY <1>1, <2>1 DEF Base
      <3> QED
        BY <2>1, <3>1, <3>2, <3>3 DEF EditorOK, Base
    <2>2. CASE ~(k.waited /\ e = k.who)
      BY <1>1, <1>2, <2>2
    <2> QED
      BY <2>1, <2>2
  <1>7. ASSUME NEW l \in calls' PROVE l \in calls /\ Goes(l, l)
    <2>1. l \in calls /\ l # k /\ l.who \in Editors
      BY <1>2 DEF LiveIInv, LiveValues, Requests
    <2>2. l.waited /\ k.waited => l.who # k.who
      BY <2>1 DEF LiveIInv, OneCallEach
    <2>3. l.waited => editor'[l.who] = editor[l.who]
      BY <1>1, <1>2, <2>1, <2>2
    <2> QED
      BY <2>1, <2>3 DEF Goes
  <1> QED
    BY <1>4, <1>5, <1>6, <1>7, StepKeepsLiveIInv

LEMMA SaveDraftLiveIInv ==
    ASSUME LiveIInv, NEW k \in calls, SaveDraft(k)
    PROVE  LiveIInv'
  <1>1. /\ k.who \in Editors /\ k.session \in Nat /\ k.revision \in Nat /\ k.version \in Nat
        /\ k.sent \in Texts /\ k.body \in Texts /\ k.at = "save" /\ CallOK(k)
    BY DEF LiveIInv, LiveValues, Requests, SaveDraft
  <1>2. PICK left \in Shown : left = editor[k.who]
    BY <1>1 DEF LiveIInv, LiveValues
  <1>3. k.waited => left.text \in Texts
    BY <1>1, <1>2 DEF CallOK, LiveIInv, EditorOK
  <1>4. UNCHANGED <<page, shared, hands>> /\ draft' = k.body
    BY DEF SaveDraft
  <1>0. PICK latest : latest = [session |-> k.session, revision |-> k.revision, base |-> k.version]
    OBVIOUS
  <1>5. PICK ed : ed = Synced(left, latest, k.sent, left.text)
    OBVIOUS
  <1>6. Answer(k, ed)
    BY <1>0, <1>2, <1>5 DEF SaveDraft
  <1>7. KeepsHold
    BY <1>4, SharedStays DEF shared
  <1>8. ASSUME k.waited
        PROVE  /\ ed \in Shown /\ ed.text \in Texts /\ ed.synced \in Texts
               /\ ed.session < fresh /\ Holds(ed.session, ed.revision, ed.synced)'
    <2>1. latest.session = k.session /\ latest.revision = k.revision /\ latest.base = k.version
      BY <1>0
    <2>2. /\ ed \in Shown /\ ed.session = latest.session /\ ed.revision = latest.revision
          /\ ed.synced = k.sent /\ ed.text = left.text
      <3>1. left \in Shown /\ k.sent \in Texts /\ left.text \in Texts
        BY <1>1, <1>2, <1>3, <1>8
      <3>2. latest.session \in Nat /\ latest.revision \in Nat /\ latest.base \in Nat
        BY <1>1, <2>1
      <3>3. IsSynced(Synced(left, latest, k.sent, left.text), latest, k.sent, left.text)
        BY <3>1, <3>2, SyncedIs
      <3> QED
        BY <1>5, <3>3 DEF IsSynced
    <2>3. Holds(k.session, k.revision, k.sent) /\ k.session < fresh
      BY <1>1 DEF CallOK
    <2>4. Holds(k.session, k.revision, k.sent)'
      BY <1>1, <1>7, <2>3 DEF KeepsHold
    <2> QED
      BY <1>1, <1>3, <1>5, <1>8, <2>1, <2>2, <2>3, <2>4
  <1>9. /\ fresh' = fresh /\ doc' = doc /\ kept' = kept /\ carets' = carets
        /\ typed' = typed /\ erased' = erased /\ page' = page
    BY <1>4 DEF shared, hands
  <1>10. /\ fresh' >= fresh /\ fresh' \in Nat \ {0} /\ draft' \in Texts \cup {NoText}
         /\ kept' \in Seq(ChangesOf(Known))
    BY <1>1, <1>4, <1>9 DEF LiveIInv, LiveValues
  <1>11. doc' = <<>> \/ \E r \in Rows : doc' = <<r>> /\ r.session < fresh'
    BY <1>9 DEF LiveIInv, LiveValues, DocOK
  <1>12. CaretsAreInside'
    BY <1>9 DEF LiveIInv, CaretsAreInside
  <1>13. k.waited => /\ ed \in Shown /\ ed.text \in Texts /\ ed.synced \in Texts
                     /\ ed.session < fresh' /\ Holds(ed.session, ed.revision, ed.synced)'
    BY <1>8, <1>9
  <1> QED
    BY <1>6, <1>7, <1>9, <1>10, <1>11, <1>12, <1>13, ServedStep

(* The editor that waits for a call is open, and is where the call says. *)
LEMMA WaitingEditor ==
    ASSUME LiveIInv, NEW k \in calls, k.waited
    PROVE  \E left \in Shown :
              /\ left = editor[k.who] /\ left.text \in Texts /\ Base(left) \in Texts
              /\ left.session \in Nat /\ left.revision \in Nat
              /\ left.synced \in Texts \cup {NoText}
              /\ left.synced = NoText => left.session = 0
              /\ left.synced # NoText => Holds(left.session, left.revision, left.synced)
              /\ k.at = "lock" => left.session = k.session /\ left.revision = k.revision
  <1>1. k.who \in Editors /\ CallOK(k)
    BY DEF LiveIInv, LiveValues, Requests
  <1>2. PICK left \in Shown : left = editor[k.who]
    BY <1>1 DEF LiveIInv, LiveValues
  <1>3. EditorOK(k.who)
    BY <1>1 DEF LiveIInv
  <1>4. left.session \in Nat /\ left.revision \in Nat /\ left.synced \in Texts \cup {NoText}
    BY <1>2 DEF Shown
  <1>5. left.text \in Texts /\ Base(left) \in Texts
    BY <1>1, <1>2, <1>3 DEF CallOK, EditorOK
  <1>6. /\ left.synced = NoText => left.session = 0
        /\ left.synced # NoText => Holds(left.session, left.revision, left.synced)
    BY <1>2, <1>3 DEF EditorOK
  <1>7. k.at = "lock" => left.session = k.session /\ left.revision = k.revision
    BY <1>1, <1>2 DEF CallOK
  <1> QED
    BY <1>2, <1>4, <1>5, <1>6, <1>7, Zenon

(* The whole text was sent. *)
LEMMA ReloadedIs ==
    ASSUME LiveIInv, NEW left \in Shown, left.text \in Texts, Base(left) \in Texts,
           NEW r \in Rows
    PROVE  \E text \in Texts : IsSynced(Reloaded(left, r), r, r.body, text)
  <1>1. r.session \in Nat /\ r.revision \in Nat /\ r.base \in Nat /\ r.body \in Texts
    BY DEF Rows
  <1>2. PICK b \in Texts : b = Base(left)
    OBVIOUS
  <1>3. PICK text : text = IF OwnText(left) THEN left.text
                             ELSE Showing(left, liveMerge(b, left.text, liveDiff(b, r.body)))
    OBVIOUS
  <1>4. Reloaded(left, r) = Synced(left, r, r.body, text)
    BY <1>2, <1>3 DEF Reloaded
  <1>5. text \in Texts
    <2>1. b \in Seq(Known) /\ r.body \in Seq(Known) /\ left.text \in Seq(Known)
      BY <1>1, <1>2 DEF Texts
    <2>2. liveDiff(b, r.body) \in Seq(ChangesOf(Known))
      <3>1. \/ liveDiff(b, r.body) = <<>>
            \/ \E c \in ChangesOf(Known) : liveDiff(b, r.body) = <<c>>
        BY <2>1, DiffIsTheChange
      <3> DEFINE d == liveDiff(b, r.body)
                 C == ChangesOf(Known)
      <3>2. d = <<>> \/ \E c \in C : d = <<c>>
        BY <3>1
      <3> HIDE DEF d, C
      <3>3. <<>> \in Seq(C) /\ \A c \in C : <<c>> \in Seq(C)
        OBVIOUS
      <3>4. d \in Seq(C)
        BY <3>2, <3>3, Zenon
      <3> QED
        BY <3>4 DEF d, C
    <2>3. liveMerge(b, left.text, liveDiff(b, r.body)) \in Seq(Known)
      BY <2>1, <2>2, MergeGivesText
    <2> QED
      BY <1>3, <2>3 DEF Texts, Showing
  <1>6. IsSynced(Synced(left, r, r.body, text), r, r.body, text)
    BY <1>1, <1>5, SyncedIs
  <1> QED
    BY <1>4, <1>5, <1>6

(***************************************************************************)
(* The changes that were missed were sent: done to what the editor synced, *)
(* they give the document.                                                 *)
(***************************************************************************)
LEMMA CaughtUpIs ==
    ASSUME LiveIInv, NEW left \in Shown, left.text \in Texts, left.synced \in Texts,
           left.session \in Nat, left.revision \in Nat,
           Holds(left.session, left.revision, left.synced),
           NEW r \in Rows, doc = <<r>>, left.session = r.session,
           NEW m, m = r.revision - left.revision, ~(m > Len(kept))
    PROVE  \E text \in Texts : IsSynced(CaughtUp(left, r, LastKept(m)), r, r.body, text)
  <1>1. r.session \in Nat /\ r.revision \in Nat /\ r.base \in Nat /\ r.body \in Texts /\ doc[1] = r /\ doc # <<>>
    BY DEF Rows
  <1>2. kept \in Seq(ChangesOf(Known)) /\ Len(kept) \in Nat
    BY DEF LiveIInv, LiveValues
  <1>3. left.revision <= r.revision /\ (m <= Len(kept) => ApplyAll(left.synced, LastKept(m)) = r.body)
    BY <1>1 DEF Holds
  <1>4. m \in Nat /\ m <= Len(kept)
    BY <1>1, <1>2, <1>3
  <1>5. PICK log \in Seq(ChangesOf(Known)) : log = LastKept(m)
    <2> DEFINE L == Len(kept)
               a == L - m + 1
    <2>1. a \in Int /\ L \in Int /\ \A i \in a..L : kept[i] \in ChangesOf(Known)
      BY <1>2, <1>4
    <2>2. LastKept(m) = SubSeq(kept, a, L)
      BY DEF LastKept
    <2> HIDE DEF a, L
    <2> QED
      BY <2>1, <2>2, SubSeqProperties
  <1>6. PICK text : text = Showing(left, liveMerge(left.synced, left.text, log))
    OBVIOUS
  <1>7. CaughtUp(left, r, LastKept(m)) = Synced(left, r, r.body, text)
    BY <1>3, <1>4, <1>5, <1>6 DEF CaughtUp
  <1>8. text \in Texts
    <2>1. left.synced \in Seq(Known) /\ left.text \in Seq(Known)
      BY DEF Texts
    <2>2. liveMerge(left.synced, left.text, log) \in Seq(Known)
      BY <1>5, <2>1, MergeGivesText
    <2> QED
      BY <1>6, <2>2 DEF Texts, Showing
  <1>9. IsSynced(Synced(left, r, r.body, text), r, r.body, text)
    BY <1>1, <1>8, SyncedIs
  <1> QED
    BY <1>7, <1>8, <1>9

LEMMA CatchUpLiveIInv ==
    ASSUME LiveIInv, NEW k \in calls, CatchUp(k)
    PROVE  LiveIInv' /\ KeepsHold
  <1>1. /\ k.who \in Editors /\ k.session \in Nat /\ k.revision \in Nat /\ k.version \in Nat
        /\ k.sent \in Texts /\ k.body \in Texts /\ k.at = "lock" /\ CallOK(k)
    BY DEF LiveIInv, LiveValues, Requests, CatchUp
  <1>2. /\ fresh \in Nat \ {0} /\ kept \in Seq(ChangesOf(Known)) /\ k.session < fresh
        /\ doc = <<>> \/ \E r \in Rows : doc = <<r>>
    BY <1>1 DEF LiveIInv, LiveValues, CallOK
  <1>3. PICK r \in Rows : /\ r = Locked(k)
                          /\ Restarts(k) => r.session = fresh /\ r.revision = 0
                          /\ ~Restarts(k) => doc = <<r>>
    <2>1. CASE Restarts(k)
      <3>1. Opened(k.version, k.body) \in Rows /\ Opened(k.version, k.body).session = fresh
            /\ Opened(k.version, k.body).revision = 0
        BY <1>1, <1>2 DEF Opened, Rows
      <3> QED
        BY <2>1, <3>1 DEF Locked
    <2>2. CASE ~Restarts(k)
      BY <1>2, <2>2 DEF Locked, Restarts
    <2> QED
      BY <2>1, <2>2
  <1>4. r.session \in Nat \ {0} /\ r.revision \in Nat /\ r.body \in Texts
    BY DEF Rows
  <1>5. /\ doc' = <<r>> /\ typed' = typed /\ erased' = erased /\ page' = page /\ draft' = draft
        /\ kept' = IF Restarts(k) THEN <<>> ELSE kept
        /\ fresh' = IF Restarts(k) THEN fresh + 1 ELSE fresh
    BY <1>3 DEF CatchUp, content, hands
  <1>6. fresh' >= fresh /\ fresh' \in Nat \ {0} /\ r.session < fresh' /\ kept' \in Seq(ChangesOf(Known))
    <2>1. CASE Restarts(k)
      BY <1>2, <1>3, <1>5, <2>1
    <2>2. CASE ~Restarts(k)
      BY <1>2, <1>3, <1>5, <2>2 DEF LiveIInv, DocOK
    <2> QED
      BY <2>1, <2>2
  <1>7. KeepsHold
    <2>1. CASE Restarts(k)
      BY <1>2, <1>3, <1>5, <2>1 DEF KeepsHold, Holds
    <2>2. CASE ~Restarts(k)
      <3>1. doc' = doc /\ kept' = kept
        BY <1>3, <1>5, <2>2
      <3> QED
        BY <3>1, SharedStays
    <2> QED
      BY <2>1, <2>2
  <1>8. CaretsAreInside'
    <2>0. Restarts(k) => ~UpToDate(k)
      BY <1>1, <1>2, <1>3 DEF UpToDate
    <2> DEFINE restarts == Restarts(k)
               current == UpToDate(k)
               own == [carets EXCEPT ![k.who] = Caret(k.sent, doc[1].body)]
    <2>4. carets' = CASE restarts -> [e \in Editors |-> NoCaret] [] current -> own [] OTHER -> carets
      BY Zenon DEF CatchUp
    <2> HIDE DEF restarts, current, own
    <2>5. /\ restarts /\ ~current => carets' = [e \in Editors |-> NoCaret]
          /\ ~restarts /\ current => carets' = own
          /\ ~restarts /\ ~current => carets' = carets
      BY <2>4, Zenon
    <2>1. CASE Restarts(k)
      <3>1. carets' = [e \in Editors |-> NoCaret]
        BY <2>0, <2>1, <2>5 DEF restarts, current
      <3> QED
        BY <3>1 DEF CaretsAreInside
    <2>2. CASE ~Restarts(k) /\ UpToDate(k)
      <3>1. carets' = [carets EXCEPT ![k.who] = Caret(k.sent, r.body)]
        BY <1>3, <2>2, <2>5 DEF restarts, current, own
      <3>2. Caret(k.sent, r.body) \in 0..Len(r.body)
        <4>1. Len(k.sent) \in Nat /\ Len(r.body) \in Nat
          BY <1>1, <1>4 DEF Texts
        <4> QED
          BY <4>1, OfTwo DEF Caret
      <3>3. \A e \in Editors : carets'[e] # NoCaret => \/ carets'[e] = Caret(k.sent, r.body)
                                                       \/ carets'[e] = carets[e]
        BY <3>1
      <3>4. doc = <<r>> /\ doc' = <<r>>
        BY <1>3, <1>5, <2>2
      <3> QED
        BY <3>2, <3>3, <3>4 DEF LiveIInv, CaretsAreInside
    <2>3. CASE ~Restarts(k) /\ ~UpToDate(k)
      <3>1. carets' = carets
        BY <2>3, <2>5 DEF restarts, current
      <3>2. doc' = doc
        BY <1>3, <1>5, <2>3
      <3> QED
        BY <3>1, <3>2 DEF LiveIInv, CaretsAreInside
    <2> QED
      BY <2>1, <2>2, <2>3
  <1>9. PICK ed : ed = IF MustReload(k) THEN Reloaded(editor[k.who], r)
                       ELSE CaughtUp(editor[k.who], r, LastKept(Missed(k)))
    OBVIOUS
  <1>10. Answer(k, ed)
    BY <1>3, <1>9 DEF CatchUp
  <1>11. ASSUME k.waited
         PROVE  \E text \in Texts : IsSynced(ed, r, r.body, text)
    <2>1. PICK left \in Shown :
              /\ left = editor[k.who] /\ left.text \in Texts /\ Base(left) \in Texts
              /\ left.session \in Nat /\ left.revision \in Nat
              /\ left.synced \in Texts \cup {NoText}
              /\ left.synced = NoText => left.session = 0
              /\ left.synced # NoText => Holds(left.session, left.revision, left.synced)
              /\ k.at = "lock" => left.session = k.session /\ left.revision = k.revision
      BY <1>11, WaitingEditor, Zenon
    <2>2. CASE MustReload(k)
      <3>1. ed = Reloaded(left, r)
        BY <1>9, <2>1, <2>2
      <3> QED
        BY <2>1, <3>1, ReloadedIs
    <2>3. CASE ~MustReload(k)
      <3>1. k.session = r.session /\ ~(Missed(k) > Len(kept))
        BY <1>3, <2>3 DEF MustReload
      <3>2. ~Restarts(k)
        BY <1>2, <1>3, <3>1
      <3>3. doc = <<r>>
        BY <1>3, <3>2
      <3>4. left.session = r.session /\ left.revision = k.revision
        BY <1>1, <2>1, <3>1
      <3>5. left.synced \in Texts /\ Holds(left.session, left.revision, left.synced)
        BY <1>4, <2>1, <3>4
      <3>6. PICK m : m = r.revision - left.revision
        OBVIOUS
      <3>7. Missed(k) = m
        BY <1>3, <3>4, <3>6 DEF Missed
      <3>8. ed = CaughtUp(left, r, LastKept(m))
        BY <1>9, <2>1, <2>3, <3>7
      <3> QED
        BY <2>1, <3>1, <3>3, <3>4, <3>5, <3>6, <3>7, <3>8, CaughtUpIs
    <2> QED
      BY <2>2, <2>3
  <1>12. Holds(r.session, r.revision, r.body)'
    BY <1>4, <1>5, <1>6, HoldsLatest DEF Texts
  <1>13. k.waited => /\ ed \in Shown /\ ed.text \in Texts /\ ed.synced \in Texts
                     /\ ed.session < fresh' /\ Holds(ed.session, ed.revision, ed.synced)'
    BY <1>4, <1>6, <1>11, <1>12 DEF IsSynced
  <1>14. draft' \in Texts \cup {NoText}
    BY <1>5 DEF LiveIInv, LiveValues
  <1>15. doc' = <<>> \/ \E q \in Rows : doc' = <<q>> /\ q.session < fresh'
    BY <1>5, <1>6
  <1>16. LiveIInv'
    BY <1>5, <1>6, <1>7, <1>8, <1>10, <1>13, <1>14, <1>15, ServedStep
  <1> QED
    BY <1>7, <1>16

(* What was the document at the latest revision is the document. *)
LEMMA HeldNow ==
    ASSUME LiveIInv, NEW d \in Rows, doc = <<d>>, NEW b \in Texts, Holds(d.session, d.revision, b)
    PROVE  d.body = b
  <1>1. kept \in Seq(ChangesOf(Known)) /\ Len(kept) \in Nat /\ d.revision \in Nat
    BY DEF LiveIInv, LiveValues, Rows
  <1>2. d.revision - d.revision = 0 /\ doc[1] = d /\ doc # <<>>
    BY <1>1
  <1>3. LastKept(0) = <<>>
    BY <1>1, LastOfNone DEF LastKept
  <1>4. ApplyAll(b, <<>>) = b
    <2>1. <<>> \in Seq(ChangesOf(Known))
      BY DEF ChangesOf
    <2> QED
      BY <2>1, ApplyAllGivesText DEF Texts
  <1> QED
    BY <1>1, <1>2, <1>3, <1>4 DEF Holds

(***************************************************************************)
(* What was sent from the latest revision is the change between the        *)
(* document and the text that was sent.                                    *)
(***************************************************************************)
LEMMA UpToDateSendsTheChange ==
    ASSUME LiveIInv, NEW k \in calls, k.at = "lock", doc # <<>>, UpToDate(k), k.changes # <<>>
    PROVE  \E d \in Rows, c \in ChangesOf(Known) :
              /\ doc = <<d>> /\ k.session = d.session /\ k.revision = d.revision
              /\ k.changes = <<c>> /\ Fits(c, d.body) /\ liveApply(d.body, c) = k.sent
  <1>1. /\ k.session \in Nat /\ k.revision \in Nat /\ k.version \in Nat
        /\ k.sent \in Texts /\ CallOK(k)
    BY DEF LiveIInv, LiveValues, Requests
  <1>2. PICK d \in Rows : doc = <<d>>
    BY DEF LiveIInv, LiveValues
  <1>3. k.session < fresh /\ fresh \in Nat
    BY <1>1 DEF LiveIInv, LiveValues, CallOK
  <1>4. Locked(k) = d /\ ~Restarts(k)
    <2>1. ~Restarts(k)
      BY <1>1, <1>3 DEF UpToDate, Locked, Opened
    <2> QED
      BY <1>2, <2>1 DEF Locked
  <1>5. k.session = d.session /\ k.revision = d.revision /\ d.revision \in Nat /\ d.body \in Texts
    BY <1>4 DEF UpToDate, Rows
  <1>6. PICK b \in Texts : k.changes = liveDiff(b, k.sent) /\ Holds(k.session, k.revision, b)
    BY <1>1 DEF CallOK
  <1>7. d.body = b
    BY <1>2, <1>5, <1>6, HeldNow
  <1>8. b \in Seq(Known) /\ k.sent \in Seq(Known)
    BY <1>1 DEF Texts
  <1>9. b # k.sent
    BY <1>6, <1>8, DiffIsTheChange
  <1>10. PICK c \in ChangesOf(Known) : /\ liveDiff(b, k.sent) = <<c>> /\ Fits(c, b)
                                       /\ liveApply(b, c) = k.sent
    BY <1>8, <1>9, DiffIsTheChange
  <1> QED
    BY <1>2, <1>5, <1>6, <1>7, <1>10

(* A caret inside the text is inside what a change makes of it. *)
LEMMA MovedCaretIsInside ==
    ASSUME NEW X, NEW text \in Seq(X), NEW c \in ChangesOf(X), Fits(c, text), NEW at \in 0..Len(text),
           at # NoCaret
    PROVE  MovedCaret(at, c) \in 0..Len(liveApply(text, c))
  <1> DEFINE p == c.position
             d == c.delete
             i == Len(c.insert)
             l == Len(text)
             n == Len(liveApply(text, c))
             far == at > p /\ at >= p + d
  <1>1. p \in Nat /\ d \in Nat /\ i \in Nat /\ l \in Nat /\ p + d <= l
    BY DEF ChangesOf, Fits
  <1>2. n = l - d + i
    BY ApplyGivesText
  <1>3. \/ at <= p /\ MovedCaret(at, c) = at
        \/ far /\ MovedCaret(at, c) = at - d + i
        \/ ~(at <= p) /\ MovedCaret(at, c) = p + i
    <2> DEFINE none == at = NoCaret
               near == at # NoCaret /\ at <= p
               beyond == at # NoCaret /\ at > p /\ at >= p + d
    <2>1. MovedCaret(at, c) = CASE none -> NoCaret [] near -> at [] beyond -> at - d + i [] OTHER -> p + i
      BY Zenon DEF MovedCaret
    <2>2. ~none /\ (near <=> at <= p) /\ (beyond => far)
      OBVIOUS
    <2>3. near => ~beyond
      BY <1>1
    <2> HIDE DEF none, near, beyond, far, p, d, i
    <2> QED
      BY <2>1, <2>2, <2>3, Zenon
  <1>4. at \in Nat /\ at <= l
    BY <1>1
  <1> HIDE DEF p, d, i, l, n
  <1> QED
    BY <1>1, <1>2, <1>3, <1>4 DEF n

(* A call that is refused is over, and nothing else. *)
LEMMA RefuseChangeLiveIInv ==
    ASSUME LiveIInv, NEW k \in calls, RefuseChange(k)
    PROVE  LiveIInv'
  <1>1. /\ calls' = calls \ {k} /\ editor' = editor /\ UNCHANGED shared /\ typed' = typed
        /\ page' = page /\ draft' = draft /\ erased' = erased
    BY DEF RefuseChange, content, hands
  <1>2. LiveValues' /\ OneCallEach'
    BY <1>1, SameValues DEF LiveIInv, LiveValues, OneCallEach, shared
  <1>3. \A l \in calls' : Goes(l, l) /\ l \in calls
    BY <1>1 DEF Goes
  <1> QED
    BY <1>1, <1>2, <1>3, BrowserStep

LEMMA AcceptLiveIInv ==
    ASSUME LiveIInv, NEW k \in calls, Accept(k)
    PROVE  LiveIInv' /\ KeepsHold
  <1>1. /\ k \in Requests /\ k.who \in Editors /\ k.session \in Nat /\ k.revision \in Nat
        /\ k.sent \in Texts /\ k.at = "lock" /\ CallOK(k)
    BY DEF LiveIInv, LiveValues, Requests, Accept
  <1>2. PICK d \in Rows, c \in ChangesOf(Known) :
              /\ doc = <<d>> /\ k.session = d.session /\ k.revision = d.revision
              /\ k.changes = <<c>> /\ Fits(c, d.body) /\ liveApply(d.body, c) = k.sent
    BY UpToDateSendsTheChange DEF Accept
  <1>3. /\ d.session \in Nat \ {0} /\ d.revision \in Nat /\ d.base \in Nat /\ d.body \in Texts
        /\ d.session < fresh /\ fresh \in Nat \ {0}
        /\ kept \in Seq(ChangesOf(Known)) /\ Len(kept) \in Nat
    BY <1>2 DEF Rows, LiveIInv, LiveValues, DocOK
  <1>4. PICK r : r = [d EXCEPT !.revision = @ + 1, !.body = k.sent]
    OBVIOUS
  <1>5. /\ r \in Rows /\ r.session = d.session /\ r.revision = d.revision + 1
        /\ r.base = d.base /\ r.body = k.sent
    <2>1. d \in [session : Nat \ {0}, revision : Nat, base : Nat, body : Texts]
      BY <1>2 DEF Rows
    <2>2. r.session = d.session /\ r.revision = d.revision + 1 /\ r.base = d.base /\ r.body = k.sent
      BY <1>4, <2>1
    <2>3. r = [session |-> d.session, revision |-> d.revision + 1, base |-> d.base, body |-> k.sent]
      BY <1>4, <2>1
    <2>4. k.sent \in Texts /\ d.revision + 1 \in Nat
      BY <1>1, <1>3
    <2>5. r \in Rows
      BY <1>3, <2>3, <2>4 DEF Rows
    <2> QED
      BY <2>2, <2>5
  <1>6. Accepted(k) = r
    <2>1. doc[1] = d /\ k.changes[1] = c
      BY <1>2
    <2>2. Accepted(k) = [d EXCEPT !.revision = @ + 1, !.body = liveApply(d.body, c)]
      BY <1>2, <2>1 DEF Accepted, Rows
    <2> QED
      BY <1>2, <1>4, <2>2
  <1>7. /\ doc' = <<r>> /\ fresh' = fresh /\ typed' = typed /\ erased' = erased /\ page' = page /\ draft' = draft
    BY <1>6 DEF Accept, content, hands
  <1> DEFINE log == Append(kept, c)
             from == Max({1, Len(log) - KeptChanges + 1})
             pruned == SubSeq(log, from, Len(kept) + 1)
  <1>8. Len(log) = Len(kept) + 1 /\ kept' = pruned
    <2>1. Len(log) = Len(kept) + 1
      BY <1>3
    <2>2. k.changes[1] = c
      BY <1>2
    <2> QED
      BY <2>1, <2>2 DEF Accept
  <1>9. from \in 1..(Len(kept) + 1)
    <2> DEFINE b == Len(log) - KeptChanges + 1
    <2>1. KeptChanges \in Nat \ {0}
      BY KeptAssumption
    <2>2. b \in Int /\ 1 \in Int /\ b <= Len(kept) + 1
      <3> HIDE DEF log
      <3> QED
        BY <1>3, <1>8, <2>1
    <2> HIDE DEF b
    <2>3. Max({1, b}) = IF 1 <= b THEN b ELSE 1
      BY <2>2, OfTwo, Zenon
    <2> QED
      BY <1>3, <2>2, <2>3 DEF b
  <1> HIDE DEF from
  <1>10. /\ pruned \in Seq(ChangesOf(Known))
         /\ \A m \in Nat : EndsWith(pruned, kept, c, m)
    <2> DEFINE C == ChangesOf(Known)
    <2>1. c \in C /\ kept \in Seq(C)
      BY <1>2, <1>3
    <2> HIDE DEF C
    <2>2. ASSUME NEW m \in Nat PROVE pruned \in Seq(C) /\ EndsWith(pruned, kept, c, m)
      BY <1>9, <2>1, LastOfPruned
    <2> HIDE DEF pruned
    <2>3. pruned \in Seq(C)
      <3>1. 0 \in Nat
        OBVIOUS
      <3> QED
        BY <2>2, <3>1
    <2> QED
      BY <2>2, <2>3 DEF C
  <1> HIDE DEF pruned, log
  <1>11. KeepsHold
    <2> SUFFICES ASSUME NEW s \in Nat, NEW v \in Nat, NEW t \in Texts, Holds(s, v, t), d.session = s
                 PROVE  /\ v <= r.revision
                        /\ r.revision - v <= Len(kept') => ApplyAll(t, LastKept(r.revision - v)') = r.body
      BY <1>2, <1>5, <1>7 DEF KeepsHold, Holds
    <2>1. /\ v <= d.revision
          /\ d.revision - v <= Len(kept) => ApplyAll(t, LastKept(d.revision - v)) = d.body
      BY <1>2 DEF Holds
    <2>2. PICK m \in Nat : m = d.revision - v /\ r.revision - v = m + 1
      BY <1>3, <1>5, <2>1
    <2>3. v <= r.revision
      BY <1>3, <1>5, <2>1
    <2>4. ASSUME m + 1 <= Len(kept')
          PROVE  ApplyAll(t, LastKept(m + 1)') = r.body
      <3>1. LastKept(m + 1)' = Append(LastKept(m), c) /\ m <= Len(kept)
        BY <1>8, <1>10, <2>4 DEF LastKept, EndsWith
      <3>2. ApplyAll(t, LastKept(m)) = d.body
        BY <2>1, <2>2, <3>1
      <3>3. LastKept(m) \in Seq(ChangesOf(Known))
        <4> DEFINE L == Len(kept)
                   a == L - m + 1
        <4>1. a \in Int /\ L \in Int /\ \A i \in a..L : kept[i] \in ChangesOf(Known)
          BY <1>3, <3>1
        <4>2. LastKept(m) = SubSeq(kept, a, L)
          BY DEF LastKept
        <4> HIDE DEF a, L
        <4> QED
          BY <4>1, <4>2, SubSeqProperties
      <3>4. ApplyAll(t, Append(LastKept(m), c)) = liveApply(ApplyAll(t, LastKept(m)), c)
        BY <1>2, <3>3, OneMoreChange DEF Texts
      <3> QED
        BY <1>2, <1>5, <3>1, <3>2, <3>4
    <2> QED
      BY <2>2, <2>3, <2>4
  <1>12. CaretsAreInside'
    <2> SUFFICES ASSUME NEW e \in Editors, carets'[e] # NoCaret
                 PROVE  carets'[e] \in 0..Len(r.body)
      BY <1>7 DEF CaretsAreInside
    <2>1. carets'[e] = IF e = k.who THEN Caret(k.sent, r.body) ELSE MovedCaret(carets[e], c)
      BY <1>2, <1>6 DEF Accept
    <2>2. CASE e = k.who
      <3>1. Len(k.sent) \in Nat /\ Len(r.body) \in Nat
        BY <1>1, <1>5 DEF Texts
      <3>2. Caret(k.sent, r.body) \in 0..Len(r.body)
        BY <3>1, OfTwo DEF Caret
      <3> QED
        BY <2>1, <2>2, <3>2
    <2>3. CASE e # k.who
      <3>1. carets'[e] = MovedCaret(carets[e], c)
        BY <2>1, <2>3
      <3>2. carets[e] # NoCaret
        <4>1. MovedCaret(NoCaret, c) = NoCaret
          BY DEF MovedCaret
        <4> QED
          BY <3>1, <4>1
      <3>3. carets[e] \in 0..Len(d.body)
        BY <1>2, <3>2 DEF LiveIInv, CaretsAreInside
      <3>4. MovedCaret(carets[e], c) \in 0..Len(liveApply(d.body, c))
        <4>1. d.body \in Seq(Known)
          BY <1>3 DEF Texts
        <4>2. PICK at \in 0..Len(d.body) : at = carets[e]
          BY <3>3
        <4>3. MovedCaret(at, c) \in 0..Len(liveApply(d.body, c))
          BY <1>2, <3>2, <4>1, <4>2, MovedCaretIsInside
        <4> QED
          BY <4>2, <4>3
      <3> QED
        BY <1>2, <1>5, <3>1, <3>4
    <2> QED
      BY <2>2, <2>3
  <1>13. kept' \in Seq(ChangesOf(Known))
    BY <1>8, <1>10
  <1>14. Holds(r.session, r.revision, r.body)'
    BY <1>3, <1>5, <1>7, <1>13, HoldsLatest DEF Texts, Rows
  <1>15. /\ fresh' >= fresh /\ fresh' \in Nat \ {0} /\ draft' \in Texts \cup {NoText}
         /\ doc' = <<>> \/ \E q \in Rows : doc' = <<q>> /\ q.session < fresh'
    BY <1>3, <1>5, <1>7 DEF LiveIInv, LiveValues
  <1>16. ASSUME Renders(r.body) PROVE LiveIInv'
    <2>1. PICK l : l = [k EXCEPT !.at = "save", !.revision = @ + 1, !.body = r.body]
      OBVIOUS
    <2>2. calls' = (calls \ {k}) \cup {l} /\ editor' = editor
      BY <1>6, <1>16, <2>1 DEF Accept
    <2>3. l \in Requests
      <3> DEFINE S == {<<>>} \cup {<<x>> : x \in ChangesOf(Known)}
      <3>1. k \in [who : Editors, waited : BOOLEAN, at : {"lock", "save"}, session : Nat, revision : Nat,
                    sent : Texts, changes : S, version : Nat, body : Texts]
        BY <1>1 DEF Requests
      <3> HIDE DEF S
      <3>2. l \in [who : Editors, waited : BOOLEAN, at : {"lock", "save"}, session : Nat, revision : Nat,
                    sent : Texts, changes : S, version : Nat, body : Texts]
        <4>1. k.revision + 1 \in Nat /\ r.body \in Texts
          BY <1>1, <1>5
        <4> QED
          BY <2>1, <3>1, <4>1
      <3> QED
        BY <3>2 DEF Requests, S
    <2>4. /\ l.who = k.who /\ l.waited = k.waited /\ l.at = "save" /\ l.session = k.session
          /\ l.revision = k.revision + 1 /\ l.sent = k.sent
      BY <1>1, <2>1 DEF Requests
    <2>5. OneCallEach'
      BY <2>2, <2>4 DEF LiveIInv, OneCallEach
    <2>6. LiveValues'
      BY <1>5, <1>7, <1>13, <1>15, <2>2, <2>3, SameValues DEF LiveIInv, LiveValues
    <2>7. CallOK(l)'
      <3>1. l.session = r.session /\ l.revision = r.revision /\ l.sent = r.body
        BY <1>2, <1>5, <2>4
      <3>2. Holds(l.session, l.revision, l.sent)'
        BY <1>14, <3>1
      <3>3. l.session # 0 /\ l.session < fresh'
        BY <1>3, <1>5, <1>7, <3>1
      <3>4. l.waited => editor'[l.who].open
        BY <1>1, <2>2, <2>4 DEF CallOK
      <3> QED
        BY <2>4, <3>2, <3>3, <3>4 DEF CallOK
    <2>8. \A j \in calls' : CallOK(j)' \/ \E m \in calls : Goes(m, j)
      BY <2>2, <2>7 DEF Goes
    <2>9. DocOK' /\ \A e \in Editors : editor'[e] = editor[e]
      BY <1>15, <2>2 DEF DocOK
    <2> QED
      BY <1>7, <1>11, <1>12, <1>15, <2>5, <2>6, <2>8, <2>9, StepKeepsLiveIInv
  <1>17. ASSUME ~Renders(r.body) PROVE LiveIInv'
    <2>1. PICK ed : ed = Synced(editor[k.who], r, k.sent, editor[k.who].text)
      OBVIOUS
    <2>2. Answer(k, ed)
      BY <1>6, <1>17, <2>1 DEF Accept
    <2>3. ASSUME k.waited
          PROVE  IsSynced(ed, r, k.sent, editor[k.who].text) /\ editor[k.who].text \in Texts
      <3>1. PICK left \in Shown : left = editor[k.who] /\ left.text \in Texts
        BY <2>3, WaitingEditor
      <3>2. r.session \in Nat /\ r.revision \in Nat /\ r.base \in Nat
        BY <1>5 DEF Rows
      <3>3. IsSynced(Synced(left, r, k.sent, left.text), r, k.sent, left.text)
        BY <1>1, <3>1, <3>2, SyncedIs
      <3> QED
        BY <2>1, <3>1, <3>3
    <2>4. k.waited => /\ ed \in Shown /\ ed.text \in Texts /\ ed.synced \in Texts
                      /\ ed.session < fresh' /\ Holds(ed.session, ed.revision, ed.synced)'
      BY <1>1, <1>3, <1>5, <1>7, <1>14, <2>3 DEF IsSynced
    <2> QED
      BY <1>7, <1>11, <1>12, <1>13, <1>15, <2>2, <2>4, ServedStep
  <1> QED
    BY <1>11, <1>16, <1>17

(* Nobody has opened the page yet. *)
LEMMA InitLiveIInv == InitLive => LiveIInv
  <1> SUFFICES ASSUME InitLive PROVE LiveIInv
    OBVIOUS
  <1>1. Known = StartChars /\ StartTexts \subseteq Texts
    <2>1. Known = StartChars
      BY DEF InitLive, Known
    <2> QED
      BY <2>1, TextAssumption DEF Texts
  <1>2. Blank \in Shown /\ ~Blank.open /\ Blank.synced = NoText /\ Blank.session = 0
    BY DEF Blank, Shown
  <1>3. \A e \in Editors : editor[e] = Blank
    BY DEF InitLive
  <1>4. LiveValues
    <2>1. page \in [version : Nat \ {0}, body : Texts] /\ draft \in Texts \cup {NoText}
      BY <1>1 DEF InitLive
    <2>2. editor \in [Editors -> Shown]
      BY <1>2 DEF InitLive
    <2>3. kept \in Seq(ChangesOf(Known))
      <3> DEFINE C == ChangesOf(Known)
      <3> HIDE DEF C
      <3>1. <<>> \in Seq(C)
        OBVIOUS
      <3> QED
        BY <3>1 DEF C, InitLive
    <2> QED
      BY <2>1, <2>2, <2>3 DEF InitLive, LiveValues
  <1>5. \A e \in Editors : EditorOK(e)
    BY <1>2, <1>3 DEF InitLive, EditorOK
  <1> QED
    BY <1>4, <1>5 DEF InitLive, LiveIInv, OneCallEach, DocOK, CaretsAreInside

LEMMA NextLiveIInv == LiveIInv /\ [NextLive]_liveVars => LiveIInv'
  <1> SUFFICES ASSUME LiveIInv, [NextLive]_liveVars PROVE LiveIInv'
    OBVIOUS
  <1>1. ASSUME NEW e \in Editors, OpenEditor(e) PROVE LiveIInv'
    BY <1>1, OpenEditorLiveIInv
  <1>2. ASSUME NEW e \in Editors, Write(e) PROVE LiveIInv'
    <2>1. ASSUME NEW c \in Chars[e], NEW n \in 0..Len(editor[e].text), TypeIn(e, c, n) PROVE LiveIInv'
      BY <2>1, TypeInLiveIInv
    <2>2. ASSUME NEW n \in 1..Len(editor[e].text), Erase(e, n) PROVE LiveIInv'
      BY <2>2, EraseLiveIInv
    <2> QED
      BY <1>2, <2>1, <2>2 DEF Write
  <1>3. ASSUME NEW e \in Editors, Send(e) PROVE LiveIInv'
    BY <1>3, SendLiveIInv
  <1>4. ASSUME NEW e \in Editors, GiveUp(e) PROVE LiveIInv'
    BY <1>4, GiveUpLiveIInv
  <1>5. ASSUME NEW e \in Editors, CloseEditor(e) PROVE LiveIInv'
    BY <1>5, CloseEditorLiveIInv
  <1>6. ASSUME NEW e \in Editors, Publish(e) PROVE LiveIInv'
    BY <1>6, PublishLiveIInv
  <1>7. ASSUME NEW e \in Editors, PublishRefused(e) PROVE LiveIInv'
    BY <1>7, PublishRefusedLiveIInv
  <1>8. ASSUME NEW e \in Editors, SaveAsDraft(e) PROVE LiveIInv'
    BY <1>8, SaveAsDraftLiveIInv
  <1>9. ASSUME NEW k \in calls, Serve(k) PROVE LiveIInv'
    BY <1>9, CatchUpLiveIInv, RefuseChangeLiveIInv, AcceptLiveIInv, SaveDraftLiveIInv DEF Serve
  <1>10. CASE DiscardDraft
    BY <1>10, DiscardDraftLiveIInv
  <1>11. CASE CloseDocument
    BY <1>11, CloseDocumentLiveIInv
  <1>12. CASE UNCHANGED liveVars
    <2>1. UNCHANGED shared /\ typed' = typed /\ UNCHANGED <<page, draft, editor, calls, erased>>
      BY <1>12 DEF liveVars, content, hands
    <2>2. LiveValues' /\ OneCallEach'
      BY <2>1, SameValues DEF LiveIInv, LiveValues, OneCallEach, shared
    <2>3. \A k \in calls' : Goes(k, k) /\ k \in calls
      BY <2>1 DEF Goes
    <2> QED
      BY <2>1, <2>2, <2>3, BrowserStep
  <1> QED
    BY <1>1, <1>2, <1>3, <1>4, <1>5, <1>6, <1>7, <1>8, <1>9, <1>10, <1>11, <1>12 DEF NextLive

(* Everything the run checks follows. *)
LEMMA LiveInvFollows == LiveIInv => LiveInv
  <1> SUFFICES ASSUME LiveIInv PROVE LiveInv
    OBVIOUS
  <1>1. LiveTypeOK
    <2>1. ASSUME NEW e \in Editors PROVE Cardinality(Waiting(e)) <= 1
      <3>1. CASE Waiting(e) = {}
        BY <3>1, FS_EmptySet
      <3>2. CASE Waiting(e) # {}
        <4>1. PICK k : k \in Waiting(e)
          BY <3>2
        <4>2. Waiting(e) = {k}
          BY <4>1 DEF Waiting, LiveIInv, OneCallEach
        <4> QED
          BY <4>2, FS_Singleton
      <3> QED
        BY <3>1, <3>2
    <2>4. Len(<<>>) <= 1 /\ \A x : Len(<<x>>) <= 1
      OBVIOUS
    <2>2. \A k \in calls : k.at \in {"lock", "save"} /\ Len(k.changes) <= 1
      <3> SUFFICES ASSUME NEW k \in calls PROVE k.at \in {"lock", "save"} /\ Len(k.changes) <= 1
        OBVIOUS
      <3>1. k \in Requests
        BY DEF LiveIInv, LiveValues
      <3>2. k.changes = <<>> \/ \E c \in ChangesOf(Known) : k.changes = <<c>>
        BY <3>1 DEF Requests
      <3>3. k.at \in {"lock", "save"}
        BY <3>1 DEF Requests
      <3>4. Len(k.changes) <= 1
        BY <2>4, <3>2, Zenon
      <3> QED
        BY <3>3, <3>4
    <2>3. Len(doc) <= 1 /\ page.version \in Nat \ {0} /\ erased \subseteq typed \cup StartChars
      <3>1. doc = <<>> \/ \E r \in Rows : doc = <<r>>
        BY DEF LiveIInv, LiveValues
      <3>2. Len(doc) <= 1
        BY <2>4, <3>1, Zenon
      <3>3. page.version \in Nat \ {0} /\ erased \subseteq typed \cup StartChars
        BY DEF LiveIInv, LiveValues, Known
      <3> QED
        BY <3>2, <3>3
    <2> QED
      BY <2>1, <2>2, <2>3 DEF LiveTypeOK
  <1>2. SyncedIsTheDocument
    <2> SUFFICES ASSUME NEW e \in Editors, doc # <<>>, editor[e].synced # NoText,
                        editor[e].session = doc[1].session
                 PROVE  /\ doc[1].revision - editor[e].revision >= 0
                        /\ doc[1].revision - editor[e].revision <= Len(kept) =>
                              ApplyAll(editor[e].synced, LastKept(doc[1].revision - editor[e].revision)) = doc[1].body
      BY Zenon DEF SyncedIsTheDocument
    <2>1. editor[e].revision \in Nat /\ doc[1].revision \in Nat
      BY DEF LiveIInv, LiveValues, Shown, Rows
    <2>2. Holds(editor[e].session, editor[e].revision, editor[e].synced)
      BY DEF LiveIInv, EditorOK
    <2> QED
      BY <2>1, <2>2 DEF Holds
  <1>3. NothingIsRefused
    <2> SUFFICES ASSUME NEW k \in calls, k.at = "lock", doc # <<>>, UpToDate(k), k.changes # <<>>
                 PROVE  Fits(k.changes[1], doc[1].body)
      BY DEF NothingIsRefused
    <2>1. PICK d \in Rows, c \in ChangesOf(Known) :
              /\ doc = <<d>> /\ k.session = d.session /\ k.revision = d.revision
              /\ k.changes = <<c>> /\ Fits(c, d.body) /\ liveApply(d.body, c) = k.sent
      BY UpToDateSendsTheChange
    <2>2. doc[1] = d /\ k.changes[1] = c
      BY <2>1
    <2> QED
      BY <2>1, <2>2
  <1> QED
    BY <1>1, <1>2, <1>3 DEF LiveInv, LiveIInv

(***************************************************************************)
(* The inductive invariant holds of live editing.                          *)
(***************************************************************************)
THEOREM LiveIInvInvariant == SpecLive => []LiveIInv
  BY InitLiveIInv, NextLiveIInv, PTL DEF SpecLive

(***************************************************************************)
(* An editor on the session of the document can always be brought up to    *)
(* date by the changes that were kept, the server refuses no change that   *)
(* was sent from the latest revision, and carets stay inside the text.     *)
(***************************************************************************)
THEOREM LiveInvariant == SpecLive => []LiveInv
  BY LiveIInvInvariant, LiveInvFollows, PTL

(***************************************************************************)
(* Whose text leaves the document.  `text' has no fewer of a character     *)
(* than `base', unless the character was deleted by somebody or replaced.  *)
(***************************************************************************)
Excused == replaced.opening \cup replaced.drawing

Covers(text, base) == Lacking(text, base) \subseteq erased \cup Excused

IsReplaced == replaced = [opening |-> replaced.opening, drawing |-> replaced.drawing, misses |-> replaced.misses]

(* What an editor shows has what it is measured against.                   *)
ShowsAll(e) ==
    LET ed == editor[e]
    IN  ed.text # NoText =>
            /\ Base(ed) \in Texts /\ Covers(ed.text, Base(ed))
            /\ ~ed.open => ed.synced # NoText

(* What was sent has what it was measured against, and what the editor     *)
(* shows has what was sent.                                                *)
SendsAll(k) ==
    /\ k.at = "lock" =>
          \/ k.changes = <<>>
          \/ \E b \in Texts : /\ k.changes = liveDiff(b, k.sent) /\ Holds(k.session, k.revision, b)
                              /\ Covers(k.sent, b)
    /\ k.waited => Covers(editor[k.who].text, k.sent)

CoverInv ==
    /\ IsReplaced
    /\ \A e \in Editors : ShowsAll(e)
    /\ \A k \in calls : SendsAll(k)

-----------------------------------------------------------------------------
ReplacedGrows == IsReplaced' /\ Excused \subseteq Excused'

LEMMA ReplacedIsSame ==
    ASSUME CoverInv, replaced' = replaced
    PROVE  ReplacedGrows /\ Excused' = Excused
  BY DEF CoverInv, ReplacedGrows, IsReplaced, Excused

LEMMA ReplacedIsMore ==
    ASSUME CoverInv, NEW S,
           \/ replaced' = [replaced EXCEPT !.opening = @ \cup S]
           \/ replaced' = [replaced EXCEPT !.drawing = @ \cup S]
           \/ replaced' = [replaced EXCEPT !.drawing = @ \cup S, !.misses = @ + 1]
    PROVE  ReplacedGrows /\ S \subseteq Excused'
  <1>1. PICK o, d, m : replaced = [opening |-> o, drawing |-> d, misses |-> m]
    BY DEF CoverInv, IsReplaced
  <1>2. \/ replaced' = [opening |-> o \cup S, drawing |-> d, misses |-> m]
        \/ replaced' = [opening |-> o, drawing |-> d \cup S, misses |-> m]
        \/ replaced' = [opening |-> o, drawing |-> d \cup S, misses |-> m + 1]
    BY <1>1
  <1> QED
    BY <1>1, <1>2 DEF ReplacedGrows, IsReplaced, Excused

(* A step keeps it if what is new among editors and calls is as it should  *)
(* be: the rest has only more to excuse it.                                *)
Stays(l, k) ==
    /\ k = l \/ k = [l EXCEPT !.waited = FALSE]
    /\ k.waited => \/ editor'[k.who] = editor[k.who]
                   \/ Covers(editor[k.who].text, k.sent)'

LEMMA StepKeepsCoverInv ==
    ASSUME LiveIInv, CoverInv, KeepsHold, typed \subseteq typed',
           erased \subseteq erased', ReplacedGrows,
           \A e \in Editors : editor'[e] = editor[e] \/ ShowsAll(e)',
           \A k \in calls' : SendsAll(k)' \/ \E l \in calls : Stays(l, k)
    PROVE  CoverInv'
  <1>1. Texts \subseteq Texts'
    <2>1. Known \subseteq Known'
      BY DEF Known
    <2> QED
      BY <2>1, TextsGrow DEF Texts
  <1>2. \A t, b : Covers(t, b) => Lacking(t, b) \subseteq erased' \cup Excused'
    BY DEF Covers, ReplacedGrows
  <1>3. ASSUME NEW e \in Editors, editor'[e] = editor[e]
        PROVE  ShowsAll(e)'
    <2>1. PICK ed : ed = editor[e] /\ ed = editor'[e]
      BY <1>3
    <2>2. ed.text # NoText => /\ Base(ed) \in Texts /\ Covers(ed.text, Base(ed))
                              /\ ~ed.open => ed.synced # NoText
      BY <2>1 DEF CoverInv, ShowsAll
    <2>3. ed.text # NoText => Base(ed) \in Texts' /\ Lacking(ed.text, Base(ed)) \subseteq erased' \cup Excused'
      BY <1>1, <1>2, <2>2
    <2> QED
      BY <2>1, <2>2, <2>3 DEF ShowsAll, Covers, Base
  <1>4. ASSUME NEW k \in calls', NEW l \in calls, Stays(l, k)
        PROVE  SendsAll(k)'
    <2>1. /\ l \in Requests /\ l.session \in Nat /\ l.revision \in Nat /\ l.session < fresh /\ SendsAll(l)
      BY DEF LiveIInv, LiveValues, CallOK, CoverInv, Requests
    <2>2. /\ k.at = l.at /\ k.session = l.session /\ k.revision = l.revision /\ k.changes = l.changes
          /\ k.sent = l.sent /\ k.who = l.who /\ (k.waited => l.waited)
      <3>1. CASE k = l
        BY <3>1
      <3>2. CASE k = [l EXCEPT !.waited = FALSE]
        BY <2>1, <3>2 DEF Requests
      <3> QED
        BY <1>4, <3>1, <3>2 DEF Stays
    <2>3. \A b \in Texts : Holds(l.session, l.revision, b) => Holds(l.session, l.revision, b)'
      BY <2>1 DEF KeepsHold
    <2>4. ASSUME k.at = "lock", k.changes # <<>>
          PROVE  \E b \in Texts' : /\ k.changes = liveDiff(b, k.sent) /\ Holds(k.session, k.revision, b)'
                                   /\ Lacking(k.sent, b) \subseteq erased' \cup Excused'
      <3>1. PICK b \in Texts : /\ l.changes = liveDiff(b, l.sent) /\ Holds(l.session, l.revision, b)
                               /\ Covers(l.sent, b)
        BY <2>1, <2>2, <2>4 DEF SendsAll
      <3> QED
        BY <1>1, <1>2, <2>2, <2>3, <3>1
    <2>5. ASSUME k.waited
          PROVE  Lacking(editor'[k.who].text, k.sent) \subseteq erased' \cup Excused'
      <3>1. Covers(editor[k.who].text, k.sent)
        BY <2>1, <2>2, <2>5 DEF SendsAll
      <3>2. CASE editor'[k.who] = editor[k.who]
        BY <1>2, <3>1, <3>2
      <3>3. CASE Covers(editor[k.who].text, k.sent)'
        BY <3>3 DEF Covers
      <3> QED
        BY <1>4, <2>5, <3>2, <3>3 DEF Stays
    <2> QED
      BY <2>4, <2>5 DEF SendsAll, Covers
  <1> QED
    BY <1>3, <1>4 DEF CoverInv, ReplacedGrows

(* Nobody waits for a call whose editor is not open. *)
LEMMA WaitedIsOpen ==
    ASSUME LiveIInv, NEW k \in calls, k.waited
    PROVE  k.who \in Editors /\ editor[k.who].open
  BY DEF LiveIInv, LiveValues, CallOK, Requests

(* Only one editor changes, and nobody waits for a call of it any more, or *)
(* it shows what was sent.                                                 *)
LEMMA EditorStepCovers ==
    ASSUME LiveIInv, CoverInv, KeepsHold, typed \subseteq typed',
           erased \subseteq erased', ReplacedGrows,
           NEW e \in Editors, NEW ed, editor' = [editor EXCEPT ![e] = ed], ShowsAll(e)',
           \A k \in calls' :
              /\ \E l \in calls : k = l \/ k = [l EXCEPT !.waited = FALSE]
              /\ k.waited /\ k.who = e => Covers(ed.text, k.sent)'
    PROVE  CoverInv'
  <1>1. editor'[e] = ed /\ \A f \in Editors \ {e} : editor'[f] = editor[f]
    BY DEF LiveIInv, LiveValues
  <1>2. ASSUME NEW k \in calls' PROVE \E l \in calls : Stays(l, k)
    <2>1. PICK l \in calls : k = l \/ k = [l EXCEPT !.waited = FALSE]
      OBVIOUS
    <2>2. l \in Requests
      BY DEF LiveIInv, LiveValues
    <2>3. k.who \in Editors
      BY <2>1, <2>2 DEF Requests
    <2>4. k.waited => \/ editor'[k.who] = editor[k.who]
                      \/ Covers(editor[k.who].text, k.sent)'
      BY <1>1, <2>3
    <2> QED
      BY <2>1, <2>4 DEF Stays
  <1>3. \A f \in Editors : editor'[f] = editor[f] \/ ShowsAll(f)'
    BY <1>1
  <1> QED
    BY <1>2, <1>3, StepKeepsCoverInv

(* What a form shows when it is rendered is what it is measured against. *)
LEMMA RenderedCovers ==
    ASSUME NEW e \in Editors, NEW r \in Texts', editor'[e].text = r, editor'[e].open,
           Base(editor'[e]) = r
    PROVE  ShowsAll(e)'
  <1>1. Lacking(r, r) = {}
    BY LacksNothing DEF Texts
  <1> QED
    BY <1>1 DEF ShowsAll, Covers, Base

LEMMA OpenEditorCovers ==
    ASSUME LiveIInv, CoverInv, NEW e \in Editors, OpenEditor(e)
    PROVE  CoverInv'
  <1>1. PICK r \in Texts : r = Rendered
    BY RenderedIsText
  <1>2. PICK left \in Shown : left = editor[e] /\ ~left.open /\ ShowsAll(e)
    BY DEF LiveIInv, LiveValues, OpenEditor, CoverInv
  <1>3. PICK ed \in Shown : Opens(e, ed, r)
    BY <1>1, OpenedIs
  <1>4. /\ editor' = [editor EXCEPT ![e] = ed] /\ ed.open /\ ed.initial = r
        /\ \/ ed.synced = NoText /\ ed.text = r /\ replaced' = replaced
           \/ /\ ed.synced = left.synced /\ left.text # NoText
              /\ \/ ed.text = left.text /\ replaced' = replaced
                 \/ /\ ed.text = r
                    /\ replaced' = [replaced EXCEPT !.drawing = @ \cup Lacking(r, Base(ed))]
    BY <1>2, <1>3 DEF Opens
  <1>5. UNCHANGED shared /\ calls' = calls /\ typed' = typed /\ erased' = erased
    BY DEF OpenEditor, hands
  <1>6. Texts' = Texts /\ KeepsHold
    BY <1>5, SameValues, SharedStays DEF shared
  <1>7. editor'[e] = ed
    BY <1>4 DEF LiveIInv, LiveValues
  <1>8. ReplacedGrows
    BY <1>4, ReplacedIsSame, ReplacedIsMore
  <1>9. ShowsAll(e)'
    <2>1. CASE ed.synced = NoText /\ ed.text = r /\ replaced' = replaced
      BY <1>4, <1>6, <1>7, <2>1, RenderedCovers DEF Base
    <2>2. CASE ed.synced = left.synced /\ left.text # NoText
      <3>1. left.synced # NoText /\ Base(left) \in Texts /\ Covers(left.text, Base(left))
        BY <1>2, <2>2 DEF ShowsAll
      <3>2. Base(ed) = Base(left)
        BY <2>2, <3>1 DEF Base
      <3>3. CASE ed.text = left.text /\ replaced' = replaced
        <4>1. Excused' = Excused
          BY <3>3, ReplacedIsSame
        <4> QED
          BY <1>4, <1>5, <1>6, <1>7, <2>2, <3>1, <3>2, <3>3, <4>1 DEF ShowsAll, Covers, Base
      <3>4. CASE /\ ed.text = r
                 /\ replaced' = [replaced EXCEPT !.drawing = @ \cup Lacking(r, Base(ed))]
        <4>1. Lacking(r, Base(ed)) \subseteq Excused'
          BY <3>4, ReplacedIsMore
        <4> QED
          BY <1>4, <1>6, <1>7, <2>2, <3>1, <3>2, <3>4, <4>1 DEF ShowsAll, Covers, Base
      <3> QED
        BY <1>4, <2>2, <3>1, <3>3, <3>4
    <2> QED
      BY <1>4, <2>1, <2>2
  <1>10. \A k \in calls : ~(k.waited /\ k.who = e)
    BY <1>2, WaitedIsOpen
  <1> QED
    BY <1>4, <1>5, <1>6, <1>8, <1>9, <1>10, EditorStepCovers

(***************************************************************************)
(* An editor that shows something else shows what it did, but for what was *)
(* deleted.                                                                *)
(***************************************************************************)
LEMMA EditedCovers ==
    ASSUME LiveIInv, CoverInv, NEW e \in Editors, editor[e].open, NEW text \in Texts',
           editor' = [editor EXCEPT ![e].text = text], UNCHANGED shared, calls' = calls,
           typed \subseteq typed', erased \subseteq erased', replaced' = replaced,
           Lacking(text, editor[e].text) \subseteq erased'
    PROVE  CoverInv'
  <1>1. PICK left \in Shown : /\ left = editor[e] /\ left.text \in Texts /\ Base(left) \in Texts
                              /\ Covers(left.text, Base(left))
    <2>1. NoText \notin Texts
      BY RenderedIsText
    <2> QED
      BY <2>1 DEF LiveIInv, LiveValues, EditorOK, CoverInv, ShowsAll
  <1>2. Texts \subseteq Texts'
    <2>1. Known \subseteq Known'
      BY DEF Known
    <2> QED
      BY <2>1, TextsGrow DEF Texts
  <1>3. PICK ed : ed = [left EXCEPT !.text = text]
    OBVIOUS
  <1>4. editor' = [editor EXCEPT ![e] = ed] /\ editor'[e] = ed
    BY <1>1, <1>3 DEF LiveIInv, LiveValues
  <1>5. ed.text = text /\ ed.synced = left.synced /\ ed.open = left.open /\ Base(ed) = Base(left) /\ left.open
    BY <1>1, <1>3 DEF Shown, Base
  <1> DEFINE E == erased' \cup Excused'
  <1>10. ReplacedGrows /\ Excused' = Excused
    BY ReplacedIsSame
  <1>6. ASSUME NEW base \in Texts, Covers(left.text, base)
        PROVE  Lacking(text, base) \subseteq E
    <2>1. text \in Seq(Known') /\ left.text \in Seq(Known') /\ base \in Seq(Known')
      BY <1>1, <1>2, <1>6 DEF Texts
    <2>2. Lacking(text, left.text) \subseteq E /\ Lacking(left.text, base) \subseteq E
      BY <1>1, <1>6, <1>10 DEF Covers
    <2> HIDE DEF E
    <2> QED
      BY <2>1, <2>2, LacksOfBoth
  <1>7. ShowsAll(e)'
    <2>1. Lacking(text, Base(left)) \subseteq E
      BY <1>1, <1>6
    <2> QED
      BY <1>1, <1>2, <1>4, <1>5, <2>1 DEF ShowsAll, Covers, Base
  <1>8. \A k \in calls : k.waited /\ k.who = e => Covers(ed.text, k.sent)'
    <2> SUFFICES ASSUME NEW k \in calls, k.waited, k.who = e PROVE Lacking(text, k.sent) \subseteq E
      BY <1>5 DEF Covers
    <2>1. k.sent \in Texts
      BY DEF LiveIInv, LiveValues, Requests
    <2>2. Covers(left.text, k.sent)
      BY <1>1 DEF CoverInv, SendsAll
    <2> QED
      BY <1>6, <2>1, <2>2
  <1>9. KeepsHold
    BY SharedStays DEF shared
  <1> QED
    BY <1>4, <1>7, <1>8, <1>9, <1>10, EditorStepCovers

LEMMA TypeInCovers ==
    ASSUME LiveIInv, CoverInv, NEW e \in Editors, NEW c \in Chars[e],
           NEW n \in 0..Len(editor[e].text), TypeIn(e, c, n)
    PROVE  CoverInv'
  <1>1. PICK t \in Texts : t = editor[e].text
    BY DEF LiveIInv, EditorOK, TypeIn
  <1>2. Known \subseteq Known' /\ c \in Known' /\ typed \subseteq typed'
    BY DEF TypeIn, Known
  <1>3. t \in Seq(Known') /\ n \in 0..Len(t)
    BY <1>1, <1>2, TextsGrow DEF Texts
  <1>4. PICK text : text = InsertAt(t, n + 1, c)
    OBVIOUS
  <1>5. text \in Texts'
    BY <1>2, <1>3, <1>4, TypedLacksNothing DEF Texts
  <1>6. Lacking(text, t) \subseteq erased'
    <2>1. Lacking(text, t) \subseteq {}
      BY <1>2, <1>3, <1>4, TypedLacksNothing
    <2> QED
      BY <2>1
  <1>7. /\ editor[e].open /\ editor' = [editor EXCEPT ![e].text = text] /\ UNCHANGED shared /\ calls' = calls
        /\ erased' = erased /\ replaced' = replaced
    BY <1>1, <1>4 DEF TypeIn
  <1> QED
    BY <1>1, <1>2, <1>5, <1>6, <1>7, EditedCovers

LEMMA EraseCovers ==
    ASSUME LiveIInv, CoverInv, NEW e \in Editors, NEW n \in 1..Len(editor[e].text), Erase(e, n)
    PROVE  CoverInv'
  <1>1. PICK t \in Texts : t = editor[e].text
    BY DEF LiveIInv, EditorOK, Erase
  <1>2. Texts' = Texts /\ typed' = typed
    BY SameValues DEF Erase
  <1>3. t \in Seq(Known) /\ n \in 1..Len(t)
    BY <1>1 DEF Texts
  <1>4. PICK text : text = RemoveAt(t, n)
    OBVIOUS
  <1>5. text \in Texts'
    BY <1>2, <1>3, <1>4, ErasedLacksOne DEF Texts
  <1>6. Lacking(text, t) \subseteq erased'
    <2>1. Lacking(text, t) \subseteq {t[n]}
      BY <1>3, <1>4, ErasedLacksOne
    <2>2. t[n] \in erased'
      BY <1>1 DEF Erase
    <2> QED
      BY <2>1, <2>2
  <1>7. /\ editor[e].open /\ editor' = [editor EXCEPT ![e].text = text] /\ UNCHANGED shared /\ calls' = calls
        /\ erased \subseteq erased' /\ replaced' = replaced
    BY <1>1, <1>4 DEF Erase
  <1> QED
    BY <1>1, <1>2, <1>5, <1>6, <1>7, EditedCovers

LEMMA SendCovers ==
    ASSUME LiveIInv, CoverInv, NEW e \in Editors, Send(e)
    PROVE  CoverInv'
  <1>1. PICK ed \in Shown : /\ ed = editor[e] /\ EditorOK(e) /\ ed.open /\ ShowsAll(e)
                            /\ ed.text \in Texts /\ ed.synced \in Texts \cup {NoText}
    BY DEF LiveIInv, LiveValues, EditorOK, Send, Shown, CoverInv
  <1> DEFINE sends == IF ed.synced = NoText THEN <<>> ELSE liveDiff(ed.synced, ed.text)
  <1>2. PICK k : k = [who |-> e, waited |-> TRUE, at |-> "lock",
                      session |-> ed.session, revision |-> ed.revision, sent |-> ed.text,
                      changes |-> sends, version |-> page.version, body |-> Rendered]
    OBVIOUS
  <1>3. /\ calls' = calls \cup {k} /\ UNCHANGED shared /\ editor' = editor
        /\ typed' = typed /\ erased' = erased /\ replaced' = replaced
    BY <1>1, <1>2 DEF Send, hands
  <1>4. Texts' = Texts /\ KeepsHold
    BY <1>3, SameValues, SharedStays DEF shared
  <1>5. /\ k.who = e /\ k.sent = ed.text /\ k.changes = sends /\ k.session = ed.session
        /\ k.revision = ed.revision
    BY <1>2
  <1>8. ReplacedGrows /\ Excused' = Excused /\ \A f \in Editors : editor'[f] = editor[f]
    BY <1>3, ReplacedIsSame
  <1>6. SendsAll(k)'
    <2>1. k.changes # <<>> => \E b \in Texts : /\ k.changes = liveDiff(b, k.sent)
                                               /\ Holds(k.session, k.revision, b)'
                                               /\ Covers(k.sent, b)
      <3> SUFFICES ASSUME k.changes # <<>>
                   PROVE  \E b \in Texts : /\ k.changes = liveDiff(b, k.sent)
                                           /\ Holds(k.session, k.revision, b)'
                                           /\ Covers(k.sent, b)
        OBVIOUS
      <3>1. ed.synced \in Texts /\ ed.synced # NoText /\ k.changes = liveDiff(ed.synced, k.sent)
        BY <1>1, <1>5
      <3>2. Holds(ed.session, ed.revision, ed.synced)'
        <4>1. Holds(ed.session, ed.revision, ed.synced)
          BY <1>1, <3>1 DEF EditorOK
        <4> QED
          BY <1>3, <4>1 DEF Holds, LastKept, shared
      <3>3. Covers(ed.text, ed.synced)
        <4>1. NoText \notin Texts
          BY RenderedIsText
        <4> QED
          BY <1>1, <3>1, <4>1 DEF ShowsAll, Base
      <3> QED
        BY <1>5, <3>1, <3>2, <3>3
    <2>2. Lacking(ed.text, ed.text) = {}
      BY <1>1, LacksNothing DEF Texts
    <2>3. Covers(editor[k.who].text, k.sent)'
      BY <1>1, <1>3, <1>5, <2>2 DEF Covers
    <2> QED
      BY <1>3, <1>4, <1>8, <2>1, <2>3 DEF SendsAll, Covers
  <1>7. \A l \in calls' : SendsAll(l)' \/ \E m \in calls : Stays(m, l)
    BY <1>3, <1>6 DEF Stays
  <1> QED
    BY <1>3, <1>4, <1>7, <1>8, StepKeepsCoverInv

(* An editor that goes away leaves what it shows, with what it synced. *)
LEMMA LeavingCovers ==
    ASSUME LiveIInv, CoverInv, NEW e \in Editors, NEW ed, editor' = [editor EXCEPT ![e] = ed], Abandon(e),
           UNCHANGED shared, UNCHANGED hands, replaced' = replaced, ShowsAll(e)'
    PROVE  CoverInv'
  <1>1. typed' = typed /\ erased' = erased /\ KeepsHold /\ ReplacedGrows
    BY SharedStays, ReplacedIsSame DEF shared, hands
  <1>2. /\ \A k \in calls' : k.who = e => ~k.waited
        /\ \A k \in calls' : \E l \in calls : k = l \/ k = [l EXCEPT !.waited = FALSE]
    BY AbandonedCalls
  <1> QED
    BY <1>1, <1>2, EditorStepCovers

LEMMA EntryCovers ==
    ASSUME LiveIInv, CoverInv, NEW e \in Editors, editor[e].open, editor' = [editor EXCEPT ![e] = Entry(@)],
           UNCHANGED hands, replaced' = replaced
    PROVE  ShowsAll(e)'
  <1>0. NoText \notin Texts /\ Texts' = Texts
    BY RenderedIsText, SameValues DEF hands
  <1>6. Excused' = Excused
    BY ReplacedIsSame
  <1>1. PICK left \in Shown : /\ left = editor[e] /\ left.text \in Texts /\ Base(left) \in Texts
                              /\ Covers(left.text, Base(left))
    BY <1>0 DEF LiveIInv, LiveValues, EditorOK, CoverInv, ShowsAll
  <1>2. PICK ed : ed = Entry(left)
    OBVIOUS
  <1>3. editor'[e] = ed
    BY <1>1, <1>2 DEF LiveIInv, LiveValues
  <1>4. CASE left.text = Base(left)
    <2>1. ed.text = NoText
      BY <1>2, <1>4 DEF Entry, Blank
    <2> QED
      BY <1>3, <2>1 DEF ShowsAll
  <1>5. CASE left.text # Base(left)
    <2>1. PICK b \in Texts : b = Base(left)
      BY <1>1
    <2>2. ed = [left EXCEPT !.open = FALSE, !.rich = FALSE, !.synced = b, !.initial = NoText, !.saves = 0]
      BY <1>2, <1>5, <2>1 DEF Entry
    <2>3. ed.text = left.text /\ ed.synced = b
      BY <2>2 DEF Shown
    <2>4. ed.synced # NoText /\ Base(ed) = b
      BY <1>0, <2>1, <2>3 DEF Base
    <2> QED
      BY <1>0, <1>1, <1>3, <1>6, <2>1, <2>3, <2>4 DEF ShowsAll, Covers, Base, hands
  <1> QED
    BY <1>4, <1>5

LEMMA GiveUpCovers ==
    ASSUME LiveIInv, CoverInv, NEW e \in Editors, GiveUp(e)
    PROVE  CoverInv'
  <1>1. /\ editor' = editor /\ UNCHANGED shared /\ typed' = typed /\ erased' = erased /\ replaced' = replaced
        /\ Abandon(e)
    BY DEF GiveUp, hands
  <1>2. \A k \in calls' : \E l \in calls : k = l \/ k = [l EXCEPT !.waited = FALSE]
    BY <1>1, AbandonedCalls
  <1>3. \A k \in calls' : \E l \in calls : Stays(l, k)
    BY <1>1, <1>2 DEF Stays
  <1>4. KeepsHold /\ ReplacedGrows /\ \A f \in Editors : editor'[f] = editor[f]
    BY <1>1, SharedStays, ReplacedIsSame DEF shared
  <1> QED
    BY <1>1, <1>3, <1>4, StepKeepsCoverInv

LEMMA CloseEditorCovers ==
    ASSUME LiveIInv, CoverInv, NEW e \in Editors, CloseEditor(e)
    PROVE  CoverInv'
  <1>1. /\ editor[e].open /\ editor' = [editor EXCEPT ![e] = Entry(@)] /\ Abandon(e)
        /\ UNCHANGED shared /\ UNCHANGED hands /\ replaced' = replaced
    BY DEF CloseEditor
  <1>2. ShowsAll(e)'
    BY <1>1, EntryCovers
  <1> QED
    BY <1>1, <1>2, LeavingCovers

LEMMA PublishCovers ==
    ASSUME LiveIInv, CoverInv, NEW e \in Editors, Publish(e)
    PROVE  CoverInv'
  <1>1. /\ editor[e].open /\ editor' = [editor EXCEPT ![e] = Entry(@)] /\ Abandon(e)
        /\ UNCHANGED shared /\ UNCHANGED hands /\ replaced' = replaced
    BY DEF Publish
  <1>2. ShowsAll(e)'
    BY <1>1, EntryCovers
  <1> QED
    BY <1>1, <1>2, LeavingCovers

LEMMA SaveAsDraftCovers ==
    ASSUME LiveIInv, CoverInv, NEW e \in Editors, SaveAsDraft(e)
    PROVE  CoverInv'
  <1>1. /\ editor[e].open /\ editor' = [editor EXCEPT ![e] = Entry(@)] /\ Abandon(e)
        /\ UNCHANGED shared /\ UNCHANGED hands /\ replaced' = replaced
    BY DEF SaveAsDraft
  <1>2. ShowsAll(e)'
    BY <1>1, EntryCovers
  <1> QED
    BY <1>1, <1>2, LeavingCovers

LEMMA PublishRefusedCovers ==
    ASSUME LiveIInv, CoverInv, NEW e \in Editors, PublishRefused(e)
    PROVE  CoverInv'
  <1>1. PICK r \in Texts : r = editor[e].text
    BY DEF LiveIInv, EditorOK, PublishRefused
  <1>2. PICK ed : ed = [Blank EXCEPT !.open = TRUE, !.rich = RichEditable(r), !.initial = r, !.text = r,
                               !.saves = editor[e].saves]
    OBVIOUS
  <1>3. /\ editor' = [editor EXCEPT ![e] = ed] /\ Abandon(e)
        /\ UNCHANGED shared /\ UNCHANGED hands /\ replaced' = replaced
    BY <1>1, <1>2 DEF PublishRefused
  <1>4. ed.text = r /\ ed.initial = r /\ ed.synced = NoText /\ ed.open
    BY <1>2 DEF Blank
  <1>5. editor'[e] = ed /\ Texts' = Texts
    BY <1>3, SameValues DEF LiveIInv, LiveValues, hands
  <1>6. ShowsAll(e)'
    BY <1>4, <1>5, RenderedCovers DEF Base
  <1> QED
    BY <1>3, <1>6, LeavingCovers

(* What is answered reaches the one editor that waits for it. *)
LEMMA ServedCovers ==
    ASSUME LiveIInv, CoverInv, KeepsHold, NEW k \in calls, NEW ed, Answer(k, ed),
           typed' = typed, erased' = erased, ReplacedGrows,
           k.waited => ed.synced \in Texts /\ Covers(ed.text, ed.synced)'
    PROVE  CoverInv'
  <1>1. k \in Requests /\ k.who \in Editors /\ editor \in [Editors -> Shown] /\ NoText \notin Texts
    BY RenderedIsText DEF LiveIInv, LiveValues, Requests
  <1>2. Texts' = Texts
    BY SameValues
  <1>3. calls' = calls \ {k}
    BY DEF Answer
  <1>4. CASE k.waited
    <2>1. editor' = [editor EXCEPT ![k.who] = ed]
      BY <1>4 DEF Answer
    <2>2. editor'[k.who] = ed
      BY <1>1, <2>1
    <2>3. ShowsAll(k.who)'
      <3>1. Base(ed) = ed.synced /\ ed.synced # NoText
        BY <1>1, <1>4 DEF Base
      <3> QED
        BY <1>2, <1>4, <2>2, <3>1 DEF ShowsAll, Covers, Base
    <2>4. \A l \in calls' : l \in calls /\ ~(l.waited /\ l.who = k.who)
      BY <1>3, <1>4 DEF LiveIInv, OneCallEach
    <2> QED
      BY <1>1, <2>1, <2>3, <2>4, EditorStepCovers
  <1>5. CASE ~k.waited
    <2>1. editor' = editor
      BY <1>5 DEF Answer
    <2>2. \A l \in calls' : l \in calls /\ Stays(l, l)
      BY <1>3, <2>1 DEF Stays
    <2>3. \A e \in Editors : editor'[e] = editor[e]
      BY <2>1
    <2> QED
      BY <2>2, <2>3, StepKeepsCoverInv
  <1> QED
    BY <1>4, <1>5

LEMMA SyncedShows ==
    ASSUME NEW ed \in Shown, NEW latest, NEW synced, NEW text
    PROVE  Synced(ed, latest, synced, text).text = text /\ Synced(ed, latest, synced, text).synced = synced
  BY DEF Synced, Shown

(* What was sent is synced, and the editor shows it with what came since. *)
LEMMA SentIsCovered ==
    ASSUME LiveIInv, CoverInv, NEW k \in calls, k.waited, NEW latest, NEW ed,
           ed = Synced(editor[k.who], latest, k.sent, editor[k.who].text)
    PROVE  ed.synced \in Texts /\ Covers(ed.text, ed.synced)
  <1>1. k.sent \in Texts /\ editor[k.who] \in Shown
    BY DEF LiveIInv, LiveValues, Requests
  <1>2. ed.text = editor[k.who].text /\ ed.synced = k.sent
    BY <1>1, SyncedShows
  <1>3. Covers(editor[k.who].text, k.sent)
    BY DEF CoverInv, SendsAll
  <1> QED
    BY <1>1, <1>2, <1>3

LEMMA SaveDraftCovers ==
    ASSUME LiveIInv, CoverInv, NEW k \in calls, SaveDraft(k)
    PROVE  CoverInv'
  <1>1. PICK latest : latest = [session |-> k.session, revision |-> k.revision, base |-> k.version]
    OBVIOUS
  <1>2. PICK ed : ed = Synced(editor[k.who], latest, k.sent, editor[k.who].text)
    OBVIOUS
  <1>3. /\ Answer(k, ed) /\ UNCHANGED shared /\ typed' = typed /\ erased' = erased /\ replaced' = replaced
    BY <1>1, <1>2 DEF SaveDraft, hands
  <1>4. k.waited => ed.synced \in Texts /\ Covers(ed.text, ed.synced)
    BY <1>2, SentIsCovered
  <1>6. KeepsHold /\ ReplacedGrows /\ Excused' = Excused
    BY <1>3, SharedStays, ReplacedIsSame DEF shared
  <1>5. k.waited => ed.synced \in Texts /\ Covers(ed.text, ed.synced)'
    BY <1>3, <1>4, <1>6 DEF Covers
  <1> QED
    BY <1>3, <1>5, <1>6, ServedCovers

LEMMA AcceptCovers ==
    ASSUME LiveIInv, CoverInv, NEW k \in calls, Accept(k)
    PROVE  CoverInv'
  <1>1. KeepsHold
    BY AcceptLiveIInv
  <1>2. PICK r : r = Accepted(k)
    OBVIOUS
  <1>3. typed' = typed /\ erased' = erased /\ ReplacedGrows /\ Excused' = Excused
    BY ReplacedIsSame DEF Accept, hands
  <1>4. CASE Renders(r.body)
    <2>1. PICK l : l = [k EXCEPT !.at = "save", !.revision = @ + 1, !.body = r.body]
      OBVIOUS
    <2>2. calls' = (calls \ {k}) \cup {l} /\ editor' = editor
      BY <1>2, <1>4, <2>1 DEF Accept
    <2>3. l.at = "save" /\ l.who = k.who /\ l.waited = k.waited /\ l.sent = k.sent
      BY <2>1 DEF LiveIInv, LiveValues, Requests
    <2>4. l.waited => Covers(editor[l.who].text, l.sent)
      BY <2>3 DEF CoverInv, SendsAll
    <2>5. SendsAll(l)'
      BY <1>3, <2>2, <2>3, <2>4 DEF SendsAll, Covers
    <2>6. \A j \in calls' : SendsAll(j)' \/ \E m \in calls : Stays(m, j)
      BY <2>2, <2>5 DEF Stays
    <2>7. \A e \in Editors : editor'[e] = editor[e]
      BY <2>2
    <2> QED
      BY <1>1, <1>3, <2>6, <2>7, StepKeepsCoverInv
  <1>5. CASE ~Renders(r.body)
    <2>1. PICK ed : ed = Synced(editor[k.who], r, k.sent, editor[k.who].text)
      OBVIOUS
    <2>2. Answer(k, ed)
      BY <1>2, <1>5, <2>1 DEF Accept
    <2>3. k.waited => ed.synced \in Texts /\ Covers(ed.text, ed.synced)
      BY <2>1, SentIsCovered
    <2>4. k.waited => ed.synced \in Texts /\ Covers(ed.text, ed.synced)'
      BY <1>3, <2>3 DEF Covers
    <2> QED
      BY <1>1, <1>3, <2>2, <2>4, ServedCovers
  <1> QED
    BY <1>4, <1>5

(* The whole text was sent: own work is carried over the difference. *)
LEMMA ReloadedCovers ==
    ASSUME LiveIInv, NEW left \in Shown, left.text \in Texts, Base(left) \in Texts,
           NEW r, r.body \in Texts, NEW E, ~OwnText(left), Lacking(left.text, Base(left)) \subseteq E,
           NEW merge, merge = liveMerge(Base(left), left.text, liveDiff(Base(left), r.body)),
           Showing(left, merge) = merge
    PROVE  Lacking(Reloaded(left, r).text, r.body) \subseteq E
  <1>1. PICK b \in Texts : b = Base(left)
    OBVIOUS
  <1>2. PICK cs : cs = liveDiff(b, r.body)
    OBVIOUS
  <1>3. b \in Seq(Known) /\ r.body \in Seq(Known) /\ left.text \in Seq(Known)
    BY <1>1 DEF Texts
  <1>4. cs \in Seq(ChangesOf(Known)) /\ ApplyAll(b, cs) = r.body
    <2>1. CASE b = r.body
      <3>1. cs = <<>>
        BY <1>2, <1>3, <2>1, DiffIsTheChange
      <3> DEFINE C == ChangesOf(Known)
      <3>2. cs \in Seq(C)
        BY <3>1
      <3> QED
        BY <1>3, <2>1, <3>1, <3>2, ApplyAllGivesText
    <2>2. CASE b # r.body
      <3>1. PICK c \in ChangesOf(Known) : cs = <<c>> /\ liveApply(b, c) = r.body
        BY <1>2, <1>3, <2>2, DiffIsTheChange
      <3> QED
        BY <1>3, <3>1, ApplyOne
    <2> QED
      BY <2>1, <2>2
  <1>5. Reloaded(left, r).text = liveMerge(b, left.text, cs)
    <2>1. Reloaded(left, r) = Synced(left, r, r.body, liveMerge(b, left.text, cs))
      BY <1>1, <1>2 DEF Reloaded
    <2> QED
      BY <2>1, SyncedShows
  <1>6. Lacking(liveMerge(b, left.text, cs), ApplyAll(b, cs)) \subseteq E
    BY <1>1, <1>3, <1>4, MergeLacksOnly
  <1> QED
    BY <1>4, <1>5, <1>6

(* The changes that were missed were sent. *)
LEMMA CaughtUpCovers ==
    ASSUME LiveIInv, NEW left \in Shown, left.text \in Texts, left.synced \in Texts,
           left.revision \in Nat, Holds(left.session, left.revision, left.synced),
           NEW r \in Rows, doc = <<r>>, left.session = r.session,
           NEW m, m = r.revision - left.revision, ~(m > Len(kept)),
           NEW E, Lacking(left.text, left.synced) \subseteq E,
           NEW merge, merge = liveMerge(left.synced, left.text, LastKept(m)), Showing(left, merge) = merge
    PROVE  Lacking(CaughtUp(left, r, LastKept(m)).text, r.body) \subseteq E
  <1>1. r.revision \in Nat /\ doc[1] = r /\ doc # <<>>
    BY DEF Rows
  <1>2. kept \in Seq(ChangesOf(Known)) /\ Len(kept) \in Nat
    BY DEF LiveIInv, LiveValues
  <1>3. left.revision <= r.revision /\ (m <= Len(kept) => ApplyAll(left.synced, LastKept(m)) = r.body)
    BY <1>1 DEF Holds
  <1>4. m \in Nat /\ m <= Len(kept)
    BY <1>1, <1>2, <1>3
  <1>5. PICK log \in Seq(ChangesOf(Known)) : log = LastKept(m)
    <2> DEFINE L == Len(kept)
               a == L - m + 1
    <2>1. a \in Int /\ L \in Int /\ \A i \in a..L : kept[i] \in ChangesOf(Known)
      BY <1>2, <1>4
    <2>2. LastKept(m) = SubSeq(kept, a, L)
      BY DEF LastKept
    <2> HIDE DEF a, L
    <2> QED
      BY <2>1, <2>2, SubSeqProperties
  <1>6. ApplyAll(left.synced, log) = r.body
    BY <1>3, <1>4, <1>5
  <1>7. CaughtUp(left, r, LastKept(m)).text = liveMerge(left.synced, left.text, log)
    BY <1>5, SyncedShows DEF CaughtUp
  <1>8. Lacking(liveMerge(left.synced, left.text, log), ApplyAll(left.synced, log)) \subseteq E
    BY <1>5, MergeLacksOnly DEF Texts
  <1> QED
    BY <1>6, <1>7, <1>8

LEMMA LockedIsARow ==
    ASSUME LiveIInv, NEW k \in calls
    PROVE  \E r \in Rows : /\ r = Locked(k) /\ r.body \in Texts
                           /\ Restarts(k) => r.session = fresh
                           /\ ~Restarts(k) => doc = <<r>> /\ r.session < fresh
  <1>1. k.version \in Nat /\ k.body \in Texts /\ fresh \in Nat \ {0}
    BY DEF LiveIInv, LiveValues, Requests
  <1>2. CASE Restarts(k)
    <2>1. Opened(k.version, k.body) \in Rows /\ Opened(k.version, k.body).session = fresh
          /\ Opened(k.version, k.body).body = k.body
      BY <1>1 DEF Opened, Rows
    <2> QED
      BY <1>1, <1>2, <2>1 DEF Locked
  <1>3. CASE ~Restarts(k)
    <2>1. PICK r \in Rows : doc = <<r>>
      BY <1>3 DEF LiveIInv, LiveValues, Restarts
    <2>2. r.body \in Texts
      BY DEF Rows
    <2> QED
      BY <1>3, <2>1, <2>2 DEF Locked, LiveIInv, DocOK
  <1> QED
    BY <1>2, <1>3

(* An editor that is not sent the whole text is on the session of the      *)
(* document and has missed what was kept.                                  *)
LEMMA MissedFew ==
    ASSUME LiveIInv, NEW k \in calls, k.at = "lock", ~MustReload(k),
           NEW r \in Rows, r = Locked(k), Restarts(k) => r.session = fresh, ~Restarts(k) => doc = <<r>>,
           NEW left \in Shown, left.session = k.session, left.revision = k.revision,
           left.synced \in Texts \cup {NoText},
           left.synced = NoText => left.session = 0,
           left.synced # NoText => Holds(left.session, left.revision, left.synced)
    PROVE  \E m : /\ m = r.revision - left.revision /\ m = Missed(k) /\ ~(m > Len(kept))
                  /\ doc = <<r>> /\ left.session = r.session /\ left.synced \in Texts
                  /\ Holds(left.session, left.revision, left.synced) /\ Base(left) = left.synced
  <1>1. k.session = r.session /\ ~(Missed(k) > Len(kept))
    BY DEF MustReload
  <1>2. k.session < fresh /\ fresh \in Nat
    BY DEF LiveIInv, LiveValues, CallOK
  <1>3. doc = <<r>>
    BY <1>1, <1>2
  <1>4. r.session # 0
    BY DEF Rows
  <1>5. left.synced # NoText
    BY <1>1, <1>4
  <1>6. Missed(k) = r.revision - left.revision
    BY DEF Missed
  <1> QED
    BY <1>1, <1>3, <1>5, <1>6 DEF Base

LEMMA CaughtUpSynced ==
    ASSUME LiveIInv, NEW k \in calls, k.at = "lock", ~MustReload(k),
           NEW r \in Rows, r = Locked(k), Restarts(k) => r.session = fresh, ~Restarts(k) => doc = <<r>>,
           NEW left \in Shown, left.session = k.session, left.revision = k.revision,
           left.session \in Nat, left.revision \in Nat, left.text \in Texts,
           left.synced \in Texts \cup {NoText},
           left.synced = NoText => left.session = 0,
           left.synced # NoText => Holds(left.session, left.revision, left.synced)
    PROVE  CaughtUp(left, r, LastKept(Missed(k))).synced = r.body
  <1>1. PICK m : /\ m = r.revision - left.revision /\ m = Missed(k) /\ ~(m > Len(kept))
                 /\ doc = <<r>> /\ left.session = r.session /\ left.synced \in Texts
                 /\ Holds(left.session, left.revision, left.synced)
    BY MissedFew
  <1>2. \E text \in Texts : IsSynced(CaughtUp(left, r, LastKept(m)), r, r.body, text)
    BY <1>1, CaughtUpIs
  <1> QED
    BY <1>1, <1>2 DEF IsSynced

LEMMA ReplacedByAnswer ==
    ASSUME LiveIInv, CoverInv, NEW k \in calls, CatchUp(k),
           NEW r, r = Locked(k), NEW left, left = editor[k.who]
    PROVE  /\ ReplacedGrows
           /\ k.waited /\ (Replaces(k) \/ Misses(k)) => Lacking(left.text, r.body) \subseteq Excused'
  <1> DEFINE lacking == Lacking(left.text, r.body)
             opened == [replaced EXCEPT !.opening = @ \cup lacking]
             missed == [replaced EXCEPT !.drawing = @ \cup lacking, !.misses = @ + 1]
  <1>1. replaced' = IF k.waited THEN Replaced(k) ELSE replaced
    BY DEF CatchUp
  <1> DEFINE first == Replaces(k)
             second == Misses(k)
  <1>0. ~(first /\ second)
    BY DEF Misses
  <1>7. Replaced(k) = CASE first -> opened [] second -> missed [] OTHER -> replaced
    BY Zenon DEF Replaced
  <1> HIDE DEF lacking, opened, missed, first, second
  <1>2. first => Replaced(k) = opened
    BY <1>0, <1>7, Zenon
  <1>3. second => Replaced(k) = missed
    BY <1>0, <1>7, Zenon
  <1>4. ~first /\ ~second => Replaced(k) = replaced
    BY <1>7, Zenon
  <1> USE DEF first, second
  <1>5. CASE replaced' = opened \/ replaced' = missed
    <2>1. ReplacedGrows /\ lacking \subseteq Excused'
      BY <1>5, ReplacedIsMore DEF opened, missed
    <2> QED
      BY <2>1 DEF lacking
  <1>6. CASE replaced' = replaced /\ ~(k.waited /\ (Replaces(k) \/ Misses(k)))
    BY <1>6, ReplacedIsSame
  <1> QED
    BY <1>1, <1>2, <1>3, <1>4, <1>5, <1>6

LEMMA CatchUpCovers ==
    ASSUME LiveIInv, CoverInv, NEW k \in calls, CatchUp(k)
    PROVE  CoverInv'
  <1>1. KeepsHold
    BY CatchUpLiveIInv
  <1>2. PICK r \in Rows : /\ r = Locked(k) /\ r.body \in Texts
                          /\ Restarts(k) => r.session = fresh
                          /\ ~Restarts(k) => doc = <<r>> /\ r.session < fresh
    BY LockedIsARow
  <1>3. typed' = typed /\ erased' = erased
    BY DEF CatchUp, hands
  <1>4. PICK ed : ed = IF MustReload(k) THEN Reloaded(editor[k.who], r)
                       ELSE CaughtUp(editor[k.who], r, LastKept(Missed(k)))
    OBVIOUS
  <1>5. Answer(k, ed)
    BY <1>2, <1>4 DEF CatchUp
  <1>6. ReplacedGrows
    BY <1>2, ReplacedByAnswer
  <1>7. ASSUME k.waited
        PROVE  ed.synced \in Texts /\ Lacking(ed.text, ed.synced) \subseteq erased' \cup Excused'
    <2> DEFINE E == erased' \cup Excused'
    <2>1. PICK left \in Shown :
              /\ left = editor[k.who] /\ left.text \in Texts /\ Base(left) \in Texts
              /\ left.session \in Nat /\ left.revision \in Nat
              /\ left.synced \in Texts \cup {NoText}
              /\ left.synced = NoText => left.session = 0
              /\ left.synced # NoText => Holds(left.session, left.revision, left.synced)
              /\ k.at = "lock" => left.session = k.session /\ left.revision = k.revision
      BY <1>7, WaitingEditor, Zenon
    <2>2. Lacking(left.text, Base(left)) \subseteq E
      <3>1. k.who \in Editors /\ NoText \notin Texts
        BY RenderedIsText DEF LiveIInv, LiveValues, Requests
      <3>2. Covers(left.text, Base(left))
        BY <2>1, <3>1 DEF CoverInv, ShowsAll
      <3> QED
        BY <1>3, <1>6, <3>2 DEF Covers, ReplacedGrows
    <2>3. PICK text : text = IF Replaces(k) THEN left.text ELSE Showing(left, Merge(k))
      OBVIOUS
    <2>4. ed.text = text /\ ed.synced = r.body
      <3>1. CASE MustReload(k)
        <4>1. ed = Synced(left, r, r.body, text)
          BY <1>2, <1>4, <2>1, <2>3, <3>1 DEF Reloaded, Replaces, Merge
        <4> QED
          BY <4>1, SyncedShows
      <3>2. CASE ~MustReload(k)
        <4>1. ed = CaughtUp(left, r, LastKept(Missed(k)))
          BY <1>4, <2>1, <3>2
        <4>2. text = Showing(left, liveMerge(left.synced, left.text, LastKept(Missed(k))))
          BY <2>1, <2>3, <3>2 DEF Replaces, Merge
        <4>3. ed.text = text
          BY <4>1, <4>2, SyncedShows DEF CaughtUp
        <4>4. ed.synced = r.body
          BY <1>2, <2>1, <3>2, <4>1, CaughtUpSynced DEF CatchUp
        <4> QED
          BY <4>3, <4>4
      <3> QED
        BY <3>1, <3>2
    <2>5. CASE Replaces(k)
      <3>1. Lacking(left.text, r.body) \subseteq Excused'
        BY <1>2, <1>7, <2>1, <2>5, ReplacedByAnswer
      <3> QED
        BY <1>2, <2>3, <2>4, <2>5, <3>1
    <2>6. CASE Misses(k)
      <3>1. Lacking(left.text, r.body) \subseteq Excused'
        BY <1>2, <1>7, <2>1, <2>6, ReplacedByAnswer
      <3>2. text = left.text
        BY <2>1, <2>3, <2>6 DEF Misses, Showing
      <3> QED
        BY <1>2, <2>4, <3>1, <3>2
    <2>7. CASE ~Replaces(k) /\ ~Misses(k)
      <3>1. PICK merge : merge = Merge(k) /\ Showing(left, merge) = merge /\ text = merge
        BY <2>1, <2>3, <2>7 DEF Misses
      <3>2. CASE MustReload(k)
        <4>1. ~OwnText(left) /\ merge = liveMerge(Base(left), left.text, liveDiff(Base(left), r.body))
          BY <1>2, <2>1, <2>7, <3>1, <3>2 DEF Replaces, Merge
        <4>2. Reloaded(left, r) = ed
          BY <1>4, <2>1, <3>2
        <4>3. Lacking(Reloaded(left, r).text, r.body) \subseteq E
          <5> HIDE DEF E
          <5> QED
            BY <1>2, <2>1, <2>2, <3>1, <4>1, ReloadedCovers
        <4> QED
          BY <1>2, <2>4, <4>2, <4>3
      <3>3. CASE ~MustReload(k)
        <4>1. PICK m : /\ m = r.revision - left.revision /\ m = Missed(k) /\ ~(m > Len(kept))
                       /\ doc = <<r>> /\ left.session = r.session /\ left.synced \in Texts
                       /\ Holds(left.session, left.revision, left.synced) /\ Base(left) = left.synced
          BY <1>2, <2>1, <3>3, MissedFew DEF CatchUp
        <4>2. merge = liveMerge(left.synced, left.text, LastKept(m))
          BY <2>1, <3>1, <3>3, <4>1 DEF Merge
        <4>3. CaughtUp(left, r, LastKept(m)) = ed
          BY <1>4, <2>1, <3>3, <4>1
        <4>4. Lacking(CaughtUp(left, r, LastKept(m)).text, r.body) \subseteq E
          <5>1. Lacking(left.text, left.synced) \subseteq E
            BY <2>2, <4>1
          <5> HIDE DEF E
          <5> QED
            BY <2>1, <3>1, <4>1, <4>2, <5>1, CaughtUpCovers
        <4> QED
          BY <1>2, <2>4, <4>3, <4>4
      <3> QED
        BY <3>2, <3>3
    <2> QED
      BY <2>5, <2>6, <2>7
  <1>8. k.waited => ed.synced \in Texts /\ Covers(ed.text, ed.synced)'
    BY <1>7 DEF Covers
  <1> QED
    BY <1>1, <1>3, <1>5, <1>6, <1>8, ServedCovers

-----------------------------------------------------------------------------
LEMMA RefuseChangeCovers ==
    ASSUME LiveIInv, CoverInv, NEW k \in calls, RefuseChange(k)
    PROVE  CoverInv'
  <1>1. /\ calls' = calls \ {k} /\ editor' = editor /\ UNCHANGED shared /\ typed' = typed
        /\ erased' = erased /\ replaced' = replaced
    BY DEF RefuseChange, hands
  <1>2. \A l \in calls' : Stays(l, l) /\ l \in calls
    BY <1>1 DEF Stays
  <1>3. KeepsHold /\ ReplacedGrows /\ \A e \in Editors : editor'[e] = editor[e]
    BY <1>1, SharedStays, ReplacedIsSame DEF shared
  <1> QED
    BY <1>1, <1>2, <1>3, StepKeepsCoverInv

LEMMA InitCoverInv == InitLive => CoverInv
  BY DEF InitLive, CoverInv, IsReplaced, ShowsAll, Blank

LEMMA NextCoverInv == LiveIInv /\ CoverInv /\ [NextLive]_liveVars => CoverInv'
  <1> SUFFICES ASSUME LiveIInv, CoverInv, [NextLive]_liveVars PROVE CoverInv'
    OBVIOUS
  <1>1. ASSUME NEW e \in Editors, OpenEditor(e) PROVE CoverInv'
    BY <1>1, OpenEditorCovers
  <1>2. ASSUME NEW e \in Editors, Write(e) PROVE CoverInv'
    <2>1. ASSUME NEW c \in Chars[e], NEW n \in 0..Len(editor[e].text), TypeIn(e, c, n) PROVE CoverInv'
      BY <2>1, TypeInCovers
    <2>2. ASSUME NEW n \in 1..Len(editor[e].text), Erase(e, n) PROVE CoverInv'
      BY <2>2, EraseCovers
    <2> QED
      BY <1>2, <2>1, <2>2 DEF Write
  <1>3. ASSUME NEW e \in Editors, Send(e) PROVE CoverInv'
    BY <1>3, SendCovers
  <1>4. ASSUME NEW e \in Editors, GiveUp(e) PROVE CoverInv'
    BY <1>4, GiveUpCovers
  <1>5. ASSUME NEW e \in Editors, CloseEditor(e) PROVE CoverInv'
    BY <1>5, CloseEditorCovers
  <1>6. ASSUME NEW e \in Editors, Publish(e) PROVE CoverInv'
    BY <1>6, PublishCovers
  <1>7. ASSUME NEW e \in Editors, PublishRefused(e) PROVE CoverInv'
    BY <1>7, PublishRefusedCovers
  <1>8. ASSUME NEW e \in Editors, SaveAsDraft(e) PROVE CoverInv'
    BY <1>8, SaveAsDraftCovers
  <1>9. ASSUME NEW k \in calls, Serve(k) PROVE CoverInv'
    BY <1>9, CatchUpCovers, RefuseChangeCovers, AcceptCovers, SaveDraftCovers DEF Serve
  <1>10. ASSUME KeepsHold, UNCHANGED <<editor, calls, typed, erased, replaced>> PROVE CoverInv'
    <2>1. \A k \in calls' : Stays(k, k) /\ k \in calls
      BY <1>10 DEF Stays
    <2>2. ReplacedGrows /\ \A e \in Editors : editor'[e] = editor[e]
      BY <1>10, ReplacedIsSame
    <2> QED
      BY <1>10, <2>1, <2>2, StepKeepsCoverInv
  <1>11. CASE DiscardDraft
    <2>1. KeepsHold
      BY <1>11, SharedStays DEF DiscardDraft, shared
    <2> QED
      BY <1>10, <1>11, <2>1 DEF DiscardDraft, hands
  <1>12. CASE CloseDocument
    <2>1. KeepsHold
      BY <1>12, GoneStaysTrue DEF CloseDocument
    <2> QED
      BY <1>10, <1>12, <2>1 DEF CloseDocument, hands
  <1>13. CASE UNCHANGED liveVars
    <2>1. KeepsHold
      BY <1>13, SharedStays DEF liveVars, shared
    <2> QED
      BY <1>10, <1>13, <2>1 DEF liveVars, hands
  <1> QED
    BY <1>1, <1>2, <1>3, <1>4, <1>5, <1>6, <1>7, <1>8, <1>9, <1>11, <1>12, <1>13 DEF NextLive

(* What is missing from a text is lacking in it. *)
LEMMA MissingIsLacking ==
    ASSUME NEW X, NEW text \in Seq(X), NEW base \in Seq(X)
    PROVE  ToSet(base) \ ToSet(text) \subseteq Lacking(text, base)
  <1> SUFFICES ASSUME NEW x \in ToSet(base) \ ToSet(text) PROVE x \in Lacking(text, base)
    OBVIOUS
  <1>1. Places(text, x) = {}
    BY DEF Places, ToSet
  <1>2. Cardinality(Places(text, x)) = 0
    BY <1>1, FS_EmptySet
  <1>3. Places(base, x) # {}
    BY DEF Places, ToSet
  <1>4. IsFiniteSet(Places(base, x)) /\ Cardinality(Places(base, x)) \in Nat
    BY TimesGrow
  <1>5. Cardinality(Places(base, x)) # 0
    BY <1>3, <1>4, FS_EmptySet
  <1> QED
    BY <1>2, <1>4, <1>5 DEF Lacking

TextStays == SameDocument => Left \subseteq erased \cup replaced.opening \cup replaced.drawing

LEMMA StepTakesOnlyErased == LiveIInv /\ CoverInv /\ [NextLive]_liveVars => TextStays
  <1> SUFFICES ASSUME LiveIInv, CoverInv, [NextLive]_liveVars PROVE TextStays
    OBVIOUS
  <1>1. ASSUME NEW k \in calls, Accept(k) PROVE TextStays
    <2>1. k.at = "lock" /\ doc # <<>> /\ UpToDate(k) /\ k.changes # <<>> /\ k.sent \in Texts
      BY <1>1 DEF Accept, LiveIInv, LiveValues, Requests
    <2>2. PICK d \in Rows, c \in ChangesOf(Known) :
              /\ doc = <<d>> /\ k.session = d.session /\ k.revision = d.revision
              /\ k.changes = <<c>> /\ Fits(c, d.body) /\ liveApply(d.body, c) = k.sent
      BY <2>1, UpToDateSendsTheChange
    <2>3. PICK b \in Texts : Holds(k.session, k.revision, b) /\ Covers(k.sent, b)
      BY <2>1 DEF CoverInv, SendsAll
    <2>4. d.body = b
      BY <2>2, <2>3, HeldNow
    <2>5. doc[1] = d /\ k.changes[1] = c
      BY <2>2
    <2>6. doc'[1].body = k.sent
      <3>1. Accepted(k).body = liveApply(d.body, c)
        BY <2>5 DEF Accepted, Rows
      <3> QED
        BY <1>1, <2>2, <3>1 DEF Accept
    <2>7. ToSet(b) \ ToSet(k.sent) \subseteq Lacking(k.sent, b)
      BY <2>1, MissingIsLacking DEF Texts
    <2> QED
      BY <2>3, <2>4, <2>5, <2>6, <2>7 DEF TextStays, SameDocument, Left, Covers, Excused
  <1>2. ASSUME doc' = doc \/ doc' = <<>> PROVE TextStays
    BY <1>2 DEF TextStays, SameDocument, Left
  <1>3. ASSUME NEW k \in calls, CatchUp(k) PROVE TextStays
    <2>1. PICK r \in Rows : /\ r = Locked(k) /\ r.body \in Texts
                            /\ Restarts(k) => r.session = fresh
                            /\ ~Restarts(k) => doc = <<r>> /\ r.session < fresh
      BY LockedIsARow
    <2>2. doc' = <<r>>
      BY <1>3, <2>1 DEF CatchUp
    <2>3. CASE ~Restarts(k)
      BY <1>2, <2>1, <2>2, <2>3
    <2>4. CASE Restarts(k)
      <3>1. doc # <<>> => doc[1].session < fresh /\ doc[1].session \in Nat /\ fresh \in Nat
        BY DEF LiveIInv, LiveValues, DocOK, Rows
      <3>2. doc'[1].session = fresh
        BY <2>1, <2>2, <2>4
      <3> QED
        BY <3>1, <3>2 DEF TextStays, SameDocument
    <2> QED
      BY <2>3, <2>4
  <1>4. ASSUME NEW k \in calls, SaveDraft(k) PROVE TextStays
    BY <1>2, <1>4 DEF SaveDraft, shared
  <1>8. ASSUME NEW k \in calls, RefuseChange(k) PROVE TextStays
    BY <1>2, <1>8 DEF RefuseChange, shared
  <1>5. ASSUME NEW e \in Editors,
               \/ OpenEditor(e) \/ (editor[e].open /\ Write(e)) \/ Send(e)
               \/ GiveUp(e) \/ CloseEditor(e)
               \/ Publish(e) \/ PublishRefused(e) \/ SaveAsDraft(e)
        PROVE  TextStays
    <2>1. doc' = doc
      BY <1>5 DEF OpenEditor, Write, TypeIn, Erase, Send, GiveUp, CloseEditor, Publish, PublishRefused,
                  SaveAsDraft, shared
    <2> QED
      BY <1>2, <2>1
  <1>6. CASE DiscardDraft \/ CloseDocument
    BY <1>2, <1>6 DEF DiscardDraft, CloseDocument, shared
  <1>7. CASE UNCHANGED liveVars
    BY <1>2, <1>7 DEF liveVars, shared
  <1> QED
    BY <1>1, <1>3, <1>4, <1>5, <1>6, <1>7, <1>8 DEF NextLive, Serve

(***************************************************************************)
(* Nothing that anybody shows, has sent or left on a device lacks text of  *)
(* what it is measured against, but for what was deleted or replaced: an   *)
(* answer an editor could not show excuses what the document had more than *)
(* the editor, and nothing else.                                           *)
(***************************************************************************)
THEOREM CoverInvInvariant == SpecLive => []CoverInv
  BY LiveIInvInvariant, InitCoverInv, NextCoverInv, PTL DEF SpecLive

(***************************************************************************)
(* Accepting a change takes a character out of the document only if        *)
(* somebody deleted it, an editor that opened replaced it, or the rich     *)
(* editor could not show it: however changes are rebased and merged,       *)
(* answers lost and pages published, nobody's text is dropped otherwise.   *)
(***************************************************************************)
THEOREM OnlyErasureTakesText == SpecLive => TextLeavesByErasure
  <1>1. LiveIInv /\ CoverInv /\ [NextLive]_liveVars
          => [SameDocument => Left \subseteq erased \cup replaced.opening \cup replaced.drawing]_liveVars
    BY StepTakesOnlyErased DEF TextStays
  <1> QED
    BY <1>1, LiveIInvInvariant, CoverInvInvariant, PTL DEF SpecLive, TextLeavesByErasure
=============================================================================
