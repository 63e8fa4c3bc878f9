-------------------------- MODULE WebhookDelivery --------------------------
(***************************************************************************)
(* The transactional outbox and the webhook delivery worker                *)
(* (server/internal/webhook, store/db/outbox.go, httpapi/admin_webhooks.go).*)
(*                                                                         *)
(* A committed administrative mutation stores an event and one delivery    *)
(* row per eligible target.  Workers (one per server replica) claim due    *)
(* rows under a lease, post them and record the outcome, fenced by the     *)
(* lease token.  Operators replay dead letters and toggle targets; the     *)
(* retention job removes finished rows.                                    *)
(*                                                                         *)
(* Time.  Every timestamp column is only ever compared with the current    *)
(* time, so a column is modelled by whether its instant has passed: "due"  *)
(* for next_attempt_at, "lapsed" for lease_expires_at and "open" for       *)
(* circuit_open_until.  The passage of time is an action of its own, in    *)
(* any order, which also covers replicas whose clocks differ.              *)
(***************************************************************************)
EXTENDS Naturals, FiniteSets

CONSTANTS
  Events,            \* identities of outbox events
  Targets,           \* identities of webhook targets
  Workers,           \* server replicas, each running one worker loop
  Tokens,            \* lease tokens (UUIDs)
  NoToken,           \* SQL NULL in lease_token
  MaxAttempts,       \* maxAttempts in worker.go (8)
  FailureThreshold,  \* consecutive failures that open the circuit (5)
  BatchLimit,        \* Worker.Batch (20)
  MaxDisruptions,    \* bound: crashes, store errors and leases outlived
  MaxReplays         \* bound: operator replays

ASSUME ConstantsAssumption ==
  /\ NoToken \notin Tokens
  /\ MaxAttempts \in Nat \ {0}
  /\ FailureThreshold \in Nat \ {0}
  /\ BatchLimit \in Nat \ {0}
  /\ MaxDisruptions \in Nat
  /\ MaxReplays \in Nat

VARIABLES
  events,       \* outbox_events: "unborn", "stored" or "purged"
  target,       \* webhook_targets
  delivery,     \* webhook_deliveries
  deadLetter,   \* webhook_dead_letters: "none", "waiting" or "replayed"
  batch,        \* the deliveries a worker has claimed and not yet settled
  acked,        \* history: deliveries a receiver answered with 2xx
  disruptions,  \* crashes, store errors and leases outlived so far
  replays       \* operator replays so far

vars == <<events, target, delivery, deadLetter, batch, acked, disruptions, replays>>

-----------------------------------------------------------------------------
(* Types *)

Deliveries == Events \X Targets       \* UNIQUE (event_id, target_id)

Outcomes == {"ok", "transient", "permanent"}

Target == [status : {"absent", "active", "disabled"}, failures : Nat, open : BOOLEAN]

Row == [status   : {"none", "pending", "delivering", "retry", "delivered", "dead_letter"},
        attempts : Nat,
        due      : BOOLEAN,
        token    : Tokens \cup {NoToken},
        lapsed   : BOOLEAN]

\* The Delivery struct a worker holds: the row's identity, the lease under
\* which it was claimed, and the attempt and failure counts as they were then.
Item == [id : Deliveries, token : Tokens, attempt : Nat, failures : Nat,
         outcome : Outcomes \cup {"claimed"}]

NoRow == [status |-> "none", attempts |-> 0, due |-> FALSE,
          token |-> NoToken, lapsed |-> FALSE]

NewRow == [NoRow EXCEPT !.status = "pending", !.due = TRUE]

TypeOK ==
  /\ events \in [Events -> {"unborn", "stored", "purged"}]
  /\ target \in [Targets -> Target]
  /\ delivery \in [Deliveries -> Row]
  /\ deadLetter \in [Deliveries -> {"none", "waiting", "replayed"}]
  /\ batch \in [Workers -> SUBSET Item]
  /\ acked \in SUBSET Deliveries
  /\ disruptions \in Nat
  /\ replays \in Nat

Init ==
  /\ events = [e \in Events |-> "unborn"]
  /\ target = [t \in Targets |-> [status |-> "absent", failures |-> 0, open |-> FALSE]]
  /\ delivery = [d \in Deliveries |-> NoRow]
  /\ deadLetter = [d \in Deliveries |-> "none"]
  /\ batch = [w \in Workers |-> {}]
  /\ acked = {}
  /\ disruptions = 0
  /\ replays = 0

-----------------------------------------------------------------------------
(* Targets: TargetRepository.create and setStatus *)

CreateTarget(t) ==
  /\ target[t].status = "absent"
  /\ target' = [target EXCEPT ![t].status = "active"]
  /\ UNCHANGED <<events, delivery, deadLetter, batch, acked, disruptions, replays>>

SetTargetStatus(t, s) ==
  /\ target[t].status # "absent"
  /\ target' = [target EXCEPT ![t].status = s]
  /\ UNCHANGED <<events, delivery, deadLetter, batch, acked, disruptions, replays>>

-----------------------------------------------------------------------------
(* The outbox: insertAdminAuditSuccess inserts the event and its deliveries *)
(* in the transaction of the mutation it records.                           *)

Reachable(t) == target[t].status = "active" /\ ~target[t].open

Publish(e) ==
  /\ events[e] = "unborn"
  /\ events' = [events EXCEPT ![e] = "stored"]
  /\ delivery' = [d \in Deliveries |->
       IF d[1] = e /\ Reachable(d[2]) THEN NewRow ELSE delivery[d]]
  /\ UNCHANGED <<target, deadLetter, batch, acked, disruptions, replays>>

-----------------------------------------------------------------------------
(* The worker *)

\* Mutant: a lease that ran out is never taken over.
ClaimableNoTakeover(d) ==
  Reachable(d[2]) /\ delivery[d].status \in {"pending", "retry"} /\ delivery[d].due

\* The WHERE clause of Claim.
Claimable(d) ==
  /\ Reachable(d[2])
  /\ \/ delivery[d].status \in {"pending", "retry"} /\ delivery[d].due
     \/ delivery[d].status = "delivering" /\ delivery[d].lapsed

\* The tokens that a row or a worker still knows.
TokensInUse ==
  {delivery[d].token : d \in Deliveries} \cup
  {i.token : i \in UNION {batch[w] : w \in Workers}}

Claimed(r, tk) ==
  [r EXCEPT !.status = "delivering", !.attempts = @ + 1, !.token = tk, !.lapsed = FALSE]

\* DeliveryStore.Claim by a worker that has settled its previous batch.
\* SKIP LOCKED may leave out any row, so D is any subset within the limit;
\* uuid.New makes the token different from every token still known.
Claim(w, D, tk) ==
  /\ batch[w] = {}
  /\ D # {} /\ Cardinality(D) <= BatchLimit
  /\ \A d \in D : Claimable(d)
  /\ tk \notin TokensInUse
  /\ delivery' = [d \in Deliveries |-> IF d \in D THEN Claimed(delivery[d], tk) ELSE delivery[d]]
  /\ batch' = [batch EXCEPT ![w] =
       {[id |-> d, token |-> tk, attempt |-> delivery[d].attempts + 1,
         failures |-> target[d[2]].failures, outcome |-> "claimed"] : d \in D}]
  /\ UNCHANGED <<events, target, deadLetter, acked, disruptions, replays>>

\* Worker.deliver up to its outcome: "ok" is a 2xx answer; "transient" a
\* decryption or network error, 408, 429 or a status outside 2xx and 4xx;
\* "permanent" a rejected endpoint, a render error or any other 4xx.  The
\* loop in run settles one delivery before it starts the next.
Attempt(w, i, o) ==
  /\ i \in batch[w] /\ i.outcome = "claimed"
  /\ \A j \in batch[w] : j.outcome = "claimed"
  /\ batch' = [batch EXCEPT ![w] = (@ \ {i}) \cup {[i EXCEPT !.outcome = o]}]
  /\ acked' = IF o = "ok" THEN acked \cup {i.id} ELSE acked
  /\ UNCHANGED <<events, target, delivery, deadLetter, disruptions, replays>>

\* Mutant: the UPDATEs check the status but not the lease token.
HoldsLeaseByStatus(i) == delivery[i.id].status = "delivering"

\* The guard of both UPDATEs: lease_token = $2 AND status = 'delivering'.
HoldsLease(i) ==
  delivery[i.id].status = "delivering" /\ delivery[i.id].token = i.token

Settle(w, i) == batch' = [batch EXCEPT ![w] = @ \ {i}]

\* What both UPDATEs write on the row: the status, and NULL over the lease.
Released(r, s) == [r EXCEPT !.status = s, !.token = NoToken, !.lapsed = FALSE]

\* next_attempt_at moves into the future.
Deferred(r) == [r EXCEPT !.due = FALSE]

\* Mutant: an answer that is not 2xx counts as a success.
SucceededLoosely(i) == i.outcome \in {"ok", "transient"}

Succeeded(i) == i.outcome = "ok"

MarkDelivered(w, i) ==
  /\ i \in batch[w] /\ Succeeded(i)
  /\ HoldsLease(i)
  /\ delivery' = [delivery EXCEPT ![i.id] = Released(@, "delivered")]
  /\ target' = [target EXCEPT ![i.id[2]] = [@ EXCEPT !.failures = 0, !.open = FALSE]]
  /\ Settle(w, i)
  /\ UNCHANGED <<events, deadLetter, acked, disruptions, replays>>

\* Worker.fail: the verdict, from what the worker saw when it claimed.
Dead(i) == i.outcome = "permanent" \/ i.attempt >= MaxAttempts
OpensCircuit(i) == i.failures + 1 >= FailureThreshold /\ ~Dead(i)

\* consecutive_failures + 1, and circuit_open_until overwritten either way.
Blamed(t, opens) == [t EXCEPT !.failures = @ + 1, !.open = opens]

\* Mutant: only permanent failures get an entry in the dead letter table.
DeadLetterAfterPermanentOnly(i) ==
  IF i.outcome = "permanent" /\ deadLetter[i.id] = "none" THEN "waiting" ELSE deadLetter[i.id]

\* INSERT ... ON CONFLICT (delivery_id) DO NOTHING, when dead.
DeadLetterAfter(i) ==
  IF Dead(i) /\ deadLetter[i.id] = "none" THEN "waiting" ELSE deadLetter[i.id]

MarkFailed(w, i) ==
  /\ i \in batch[w] /\ i.outcome # "claimed" /\ ~Succeeded(i)
  /\ HoldsLease(i)
  /\ delivery' = [delivery EXCEPT ![i.id] =
       Deferred(Released(@, IF Dead(i) THEN "dead_letter" ELSE "retry"))]
  /\ target' = [target EXCEPT ![i.id[2]] = Blamed(@, OpensCircuit(i))]
  /\ deadLetter' = [deadLetter EXCEPT ![i.id] = DeadLetterAfter(i)]
  /\ Settle(w, i)
  /\ UNCHANGED <<events, acked, disruptions, replays>>

\* Zero rows updated: "webhook delivery lease lost", the transaction rolls back.
LeaseLost(w, i) ==
  /\ i \in batch[w] /\ i.outcome # "claimed"
  /\ ~HoldsLease(i)
  /\ Settle(w, i)
  /\ UNCHANGED <<events, target, delivery, deadLetter, acked, disruptions, replays>>

-----------------------------------------------------------------------------
(* Failures of the worker and the passage of time *)

Disrupt == disruptions < MaxDisruptions /\ disruptions' = disruptions + 1

\* The marking transaction fails: run logs it and goes on with the batch.
StoreError(w, i) ==
  /\ i \in batch[w] /\ i.outcome # "claimed"
  /\ Disrupt
  /\ Settle(w, i)
  /\ UNCHANGED <<events, target, delivery, deadLetter, acked, replays>>

Crash(w) ==
  /\ batch[w] # {}
  /\ Disrupt
  /\ batch' = [batch EXCEPT ![w] = {}]
  /\ UNCHANGED <<events, target, delivery, deadLetter, acked, replays>>

Held(d) == \E w \in Workers : \E i \in batch[w] : i.id = d /\ i.token = delivery[d].token

\* A lease runs out while its holder is still at work (a batch of 20 posts of
\* up to 10 s outlives a 30 s lease), or after nobody holds it any more.
LeaseLapses(d) ==
  /\ delivery[d].status = "delivering" /\ ~delivery[d].lapsed
  /\ IF Held(d) THEN Disrupt ELSE UNCHANGED disruptions
  /\ delivery' = [delivery EXCEPT ![d].lapsed = TRUE]
  /\ UNCHANGED <<events, target, deadLetter, batch, acked, replays>>

BecomesDue(d) ==
  /\ delivery[d].status = "retry" /\ ~delivery[d].due
  /\ delivery' = [delivery EXCEPT ![d].due = TRUE]
  /\ UNCHANGED <<events, target, deadLetter, batch, acked, disruptions, replays>>

CircuitElapses(t) ==
  /\ target[t].open
  /\ target' = [target EXCEPT ![t].open = FALSE]
  /\ UNCHANGED <<events, delivery, deadLetter, batch, acked, disruptions, replays>>

-----------------------------------------------------------------------------
(* Operators and retention *)

Requeued(r) == [r EXCEPT !.status = "pending", !.attempts = 0, !.due = TRUE]

\* replayWebhookDelivery and DeliveryStore.Replay.
Replay(d) ==
  /\ delivery[d].status = "dead_letter"
  /\ replays < MaxReplays
  /\ replays' = replays + 1
  /\ delivery' = [delivery EXCEPT ![d] = Requeued(@)]
  /\ deadLetter' = [deadLetter EXCEPT ![d] = IF @ = "none" THEN "none" ELSE "replayed"]
  /\ UNCHANGED <<events, target, batch, acked, disruptions>>

\* Mutant: retention looks at the age of a row and not at its status.
FinishedAnyStatus(d) == delivery[d].status # "none"

Finished(d) == delivery[d].status \in {"delivered", "dead_letter"}

\* Mutant: events are deleted by age alone.
OrphanedByAge(e, D) == events[e] = "stored"

\* NOT EXISTS (a delivery of e), once the rows D are gone.
Orphaned(e, D) ==
  /\ events[e] = "stored"
  /\ \A t \in Targets : delivery[<<e, t>>].status = "none" \/ <<e, t>> \in D

\* runRetentionOnce: D are finished rows older than the delivery cutoff, E
\* events older than the event cutoff that no delivery refers to afterwards.
Retain(D, E) ==
  /\ \A d \in D : Finished(d)
  /\ \A e \in E : Orphaned(e, D)
  /\ D # {} \/ E # {}
  /\ delivery' = [d \in Deliveries |-> IF d \in D THEN NoRow ELSE delivery[d]]
  /\ deadLetter' = [d \in Deliveries |-> IF d \in D THEN "none" ELSE deadLetter[d]]
  /\ events' = [e \in Events |-> IF e \in E THEN "purged" ELSE events[e]]
  /\ UNCHANGED <<target, batch, acked, disruptions, replays>>

-----------------------------------------------------------------------------
WorkerStep(w) ==
  \/ \E D \in SUBSET Deliveries, tk \in Tokens : Claim(w, D, tk)
  \/ \E i \in batch[w] :
       \/ \E o \in Outcomes : Attempt(w, i, o)
       \/ MarkDelivered(w, i)
       \/ MarkFailed(w, i)
       \/ LeaseLost(w, i)

TimePasses ==
  \/ \E d \in Deliveries : LeaseLapses(d) \/ BecomesDue(d)
  \/ \E t \in Targets : CircuitElapses(t)

Operator ==
  \/ \E t \in Targets : CreateTarget(t)
  \/ \E t \in Targets, s \in {"active", "disabled"} : SetTargetStatus(t, s)
  \/ \E e \in Events : Publish(e)
  \/ \E d \in Deliveries : Replay(d)
  \/ \E D \in SUBSET Deliveries, E \in SUBSET Events : Retain(D, E)

Fault ==
  \/ \E w \in Workers : Crash(w)
  \/ \E w \in Workers : \E i \in batch[w] : StoreError(w, i)

Next ==
  \/ \E w \in Workers : WorkerStep(w)
  \/ TimePasses
  \/ Operator
  \/ Fault

Spec == Init /\ [][Next]_vars

-----------------------------------------------------------------------------
(* Safety *)

\* A row carries a lease token exactly while it is being delivered, whatever
\* mix of claims, outcomes, replays and retention it went through.
LeaseShape ==
  \A d \in Deliveries : delivery[d].status = "delivering" <=> delivery[d].token # NoToken

\* The current lease holder knows the row's attempt count: the verdict that
\* Worker.fail derives from its copy is the one the row would give.
HolderIsCurrent ==
  \A w \in Workers : \A i \in batch[w] :
    HoldsLease(i) => i.attempt = delivery[i.id].attempts

\* A delivery is recorded as delivered only if a receiver acknowledged it.
DeliveredWasAcked ==
  \A d \in Deliveries : delivery[d].status = "delivered" => d \in acked

\* Every dead delivery has its entry in webhook_dead_letters, and an entry
\* outlives its delivery's death only once it was replayed.
DeadLettersComplete ==
  \A d \in Deliveries :
    /\ delivery[d].status = "dead_letter" => deadLetter[d] # "none"
    /\ deadLetter[d] = "waiting" => delivery[d].status = "dead_letter"

\* Retention never removes an event that a delivery still refers to.
EventsOutliveDeliveries ==
  \A e \in Events, t \in Targets : delivery[<<e, t>>].status # "none" => events[e] = "stored"

\* An outcome is recorded only by a worker that holds the row's lease at that
\* moment and gives up the delivery in the same step.
FencedStep ==
  \A d \in Deliveries :
    delivery[d].status = "delivering" /\ delivery'[d].status # "delivering" =>
      \E w \in Workers : \E i \in batch[w] \ batch'[w] :
        i.id = d /\ i.token = delivery[d].token

OutcomeIsFenced == [][FencedStep]_vars

\* The strengthening that makes the above inductive: a worker's batch comes
\* from one claim, different workers hold different tokens, and an "ok"
\* outcome was acknowledged.
BatchShape ==
  \A v, w \in Workers : \A i \in batch[v], j \in batch[w] :
    /\ v = w <=> i.token = j.token
    /\ v = w /\ i.id = j.id => i = j

AckedOutcomes == \A w \in Workers : \A i \in batch[w] : i.outcome = "ok" => i.id \in acked

IInv ==
  /\ TypeOK
  /\ LeaseShape
  /\ BatchShape
  /\ HolderIsCurrent
  /\ AckedOutcomes
  /\ DeliveredWasAcked
  /\ DeadLettersComplete
  /\ EventsOutliveDeliveries

-----------------------------------------------------------------------------
(* Refinement *)

\* The obligation a row stands for.
Obligation(d) ==
  CASE delivery[d].status \in {"pending", "retry", "delivering"} -> "owed"
    [] delivery[d].status = "delivered"   -> "done"
    [] delivery[d].status = "dead_letter" -> "dead"
    [] OTHER -> IF events[d[1]] = "unborn" THEN "fresh" ELSE "closed"

Obligations == [d \in Deliveries |-> Obligation(d)]

Contract == INSTANCE DeliveryContract WITH Pairs <- Deliveries, obligation <- Obligations

\* The worker, its leases and its faults implement the delivery contract: a
\* committed delivery is never lost, duplicated as an obligation, completed
\* without an acknowledgement or forgotten while it is owed.
ImplementsContract == Contract!Spec

-----------------------------------------------------------------------------
(* Liveness *)

\* Run calls run on a ticker in every replica, so a worker that can take a
\* step does; time passes on its own.  Operators and faults need not act.
Fairness ==
  /\ \A w \in Workers : WF_vars(WorkerStep(w))
  /\ \A d \in Deliveries : WF_vars(LeaseLapses(d)) /\ WF_vars(BecomesDue(d))
  /\ \A t \in Targets : WF_vars(CircuitElapses(t))

FairSpec == Spec /\ Fairness

Owed(d) == delivery[d].status \in {"pending", "retry", "delivering"}

\* An owed delivery is eventually delivered or dead, unless its target stops
\* being active: crashes, lost leases and open circuits only delay it.
EveryDeliverySettles ==
  \A d \in Deliveries :
    Owed(d) ~> (~Owed(d) \/ target[d[2]].status # "active")

=============================================================================
