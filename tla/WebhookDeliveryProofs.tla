----------------------- MODULE WebhookDeliveryProofs -----------------------
(***************************************************************************)
(* Proofs about WebhookDelivery, for any number of events, targets,        *)
(* workers, tokens and faults.                                             *)
(***************************************************************************)
EXTENDS WebhookDelivery, TLAPS

-----------------------------------------------------------------------------
(* What the record operators do to a row *)

\* A claim puts the row under the new lease and counts the attempt.
LEMMA ClaimedRow ==
  ASSUME NEW r \in Row, NEW tk \in Tokens
  PROVE  /\ Claimed(r, tk) \in Row
         /\ Claimed(r, tk).status = "delivering"
         /\ Claimed(r, tk).token = tk
         /\ Claimed(r, tk).attempts = r.attempts + 1
<1> DEFINE counted == [r EXCEPT !.attempts = @ + 1]
           leased(q) == [q EXCEPT !.status = "delivering", !.token = tk, !.lapsed = FALSE]
<1>1. counted \in Row /\ counted.attempts = r.attempts + 1
  BY DEF Row
<1>2. Claimed(r, tk) = leased(counted)
  BY DEF Claimed
<1>3. ASSUME NEW q \in Row
      PROVE  /\ leased(q) \in Row
             /\ leased(q).status = "delivering"
             /\ leased(q).token = tk
             /\ leased(q).attempts = q.attempts
  BY DEF Row
<1> HIDE DEF counted, leased
<1> QED
  BY <1>1, <1>2, <1>3

\* An outcome sets the status and takes the lease off the row.
LEMMA ReleasedRow ==
  ASSUME NEW r \in Row, NEW s \in {"delivered", "dead_letter", "retry"}
  PROVE  /\ Released(r, s) \in Row
         /\ Released(r, s).status = s
         /\ Released(r, s).token = NoToken
         /\ Released(r, s).attempts = r.attempts
  BY DEF Released, Row

\* Deferring a row touches only its due time.
LEMMA DeferredRow ==
  ASSUME NEW r \in Row
  PROVE  /\ Deferred(r) \in Row
         /\ Deferred(r).status = r.status
         /\ Deferred(r).token = r.token
         /\ Deferred(r).attempts = r.attempts
  BY DEF Deferred, Row

\* A replay makes the row pending again and leaves its lease as it is.
LEMMA RequeuedRow ==
  ASSUME NEW r \in Row
  PROVE  /\ Requeued(r) \in Row
         /\ Requeued(r).status = "pending"
         /\ Requeued(r).token = r.token
<1> DEFINE reset == [r EXCEPT !.attempts = 0]
           pending(q) == [q EXCEPT !.status = "pending", !.due = TRUE]
<1>1. reset \in Row /\ reset.token = r.token
  BY DEF Row
<1>2. Requeued(r) = pending(reset)
  BY DEF Requeued
<1>3. ASSUME NEW q \in Row
      PROVE  pending(q) \in Row /\ pending(q).status = "pending" /\ pending(q).token = q.token
  BY DEF Row
<1> HIDE DEF reset, pending
<1> QED
  BY <1>1, <1>2, <1>3

\* A failure counts against the target.
LEMMA BlamedTarget ==
  ASSUME NEW t \in Target, NEW opens \in BOOLEAN
  PROVE  Blamed(t, opens) \in Target
<1> DEFINE counted == [t EXCEPT !.failures = @ + 1]
<1>1. counted \in Target
  BY DEF Target
<1>2. Blamed(t, opens) = [counted EXCEPT !.open = opens]
  BY DEF Blamed
<1>3. ASSUME NEW q \in Target PROVE [q EXCEPT !.open = opens] \in Target
  BY DEF Target
<1> HIDE DEF counted
<1> QED
  BY <1>1, <1>2, <1>3

\* A success clears the target's failures and its circuit.
LEMMA ForgivenTarget ==
  ASSUME NEW t \in Target
  PROVE  [t EXCEPT !.failures = 0, !.open = FALSE] \in Target
  BY DEF Target

-----------------------------------------------------------------------------
\* Every action keeps the types.
LEMMA TypeStep == TypeOK /\ [Next]_vars => TypeOK'
<1> SUFFICES ASSUME TypeOK, [Next]_vars PROVE TypeOK'
  OBVIOUS
<1> USE DEF TypeOK
<1>1. ASSUME NEW t \in Targets, CreateTarget(t) PROVE TypeOK'
  BY <1>1 DEF CreateTarget, Target
<1>2. ASSUME NEW t \in Targets, NEW s \in {"active", "disabled"}, SetTargetStatus(t, s)
      PROVE TypeOK'
  BY <1>2 DEF SetTargetStatus, Target
<1>3. ASSUME NEW e \in Events, Publish(e) PROVE TypeOK'
  BY <1>3, ConstantsAssumption DEF Publish, NewRow, NoRow, Row
<1>4. ASSUME NEW w \in Workers, NEW D \in SUBSET Deliveries, NEW tk \in Tokens, Claim(w, D, tk)
      PROVE TypeOK'
  <2>2. delivery' \in [Deliveries -> Row]
    BY <1>4, ClaimedRow DEF Claim
  <2>3. \A d \in D : [id |-> d, token |-> tk, attempt |-> delivery[d].attempts + 1,
                      failures |-> target[d[2]].failures, outcome |-> "claimed"] \in Item
    BY DEF Item, Row, Target, Deliveries, Outcomes
  <2>4. batch' \in [Workers -> SUBSET Item]
    BY <1>4, <2>3 DEF Claim
  <2> QED
    BY <1>4, <2>2, <2>4 DEF Claim
<1>5. ASSUME NEW w \in Workers, NEW i \in batch[w], NEW o \in Outcomes, Attempt(w, i, o)
      PROVE TypeOK'
  BY <1>5 DEF Attempt, Item
<1>6. ASSUME NEW w \in Workers, NEW i \in batch[w], MarkDelivered(w, i) PROVE TypeOK'
  <2>1. i \in Item /\ i.id \in Deliveries /\ i.id[2] \in Targets
    BY DEF Item, Deliveries
  <2>2. delivery' \in [Deliveries -> Row]
    BY <1>6, <2>1, ReleasedRow DEF MarkDelivered
  <2>3. target' \in [Targets -> Target]
    BY <1>6, <2>1, ForgivenTarget DEF MarkDelivered
  <2> QED
    BY <1>6, <2>2, <2>3 DEF MarkDelivered, Settle
<1>7. ASSUME NEW w \in Workers, NEW i \in batch[w], MarkFailed(w, i) PROVE TypeOK'
  <2>1. i \in Item /\ i.id \in Deliveries /\ i.id[2] \in Targets
    BY DEF Item, Deliveries
  <2>2. delivery' \in [Deliveries -> Row]
    BY <1>7, <2>1, ReleasedRow, DeferredRow DEF MarkFailed
  <2>3. OpensCircuit(i) \in BOOLEAN
    BY DEF OpensCircuit, Dead
  <2>4. target' \in [Targets -> Target]
    BY <1>7, <2>1, <2>3, BlamedTarget DEF MarkFailed
  <2>5. deadLetter' \in [Deliveries -> {"none", "waiting", "replayed"}]
    BY <1>7, <2>1 DEF MarkFailed, DeadLetterAfter
  <2> QED
    BY <1>7, <2>2, <2>4, <2>5 DEF MarkFailed, Settle
<1>8. ASSUME NEW w \in Workers, NEW i \in batch[w], LeaseLost(w, i) PROVE TypeOK'
  BY <1>8 DEF LeaseLost, Settle
<1>9. ASSUME NEW w \in Workers, NEW i \in batch[w], StoreError(w, i) PROVE TypeOK'
  BY <1>9 DEF StoreError, Settle, Disrupt
<1>10. ASSUME NEW w \in Workers, Crash(w) PROVE TypeOK'
  BY <1>10 DEF Crash, Disrupt
<1>11. ASSUME NEW d \in Deliveries, LeaseLapses(d) PROVE TypeOK'
  <2>1. disruptions' \in Nat
    BY <1>11 DEF LeaseLapses, Disrupt
  <2>2. delivery' \in [Deliveries -> Row]
    BY <1>11 DEF LeaseLapses, Row
  <2> QED
    BY <1>11, <2>1, <2>2 DEF LeaseLapses
<1>12. ASSUME NEW d \in Deliveries, BecomesDue(d) PROVE TypeOK'
  BY <1>12 DEF BecomesDue, Row
<1>13. ASSUME NEW t \in Targets, CircuitElapses(t) PROVE TypeOK'
  BY <1>13 DEF CircuitElapses, Target
<1>14. ASSUME NEW d \in Deliveries, Replay(d) PROVE TypeOK'
  BY <1>14, RequeuedRow DEF Replay
<1>15. ASSUME NEW D \in SUBSET Deliveries, NEW E \in SUBSET Events, Retain(D, E) PROVE TypeOK'
  BY <1>15, ConstantsAssumption DEF Retain, NoRow, Row
<1>16. CASE UNCHANGED vars
  BY <1>16 DEF vars
<1> QED
  BY <1>1, <1>2, <1>3, <1>4, <1>5, <1>6, <1>7, <1>8, <1>9, <1>10, <1>11, <1>12,
     <1>13, <1>14, <1>15, <1>16 DEF Next, WorkerStep, TimePasses, Operator, Fault

\* Every reachable state is well typed.
THEOREM TypeCorrect == Spec => []TypeOK
<1>1. Init => TypeOK
  BY ConstantsAssumption DEF Init, TypeOK, Target, Row, NoRow
<1> QED
  BY <1>1, TypeStep, PTL DEF Spec

-----------------------------------------------------------------------------
(* The inductive invariant *)

\* Steps that change no status, token or attempt count and add nothing to a
\* batch keep the invariant: toggling a target, the passage of time, a crash,
\* a store error and a lost lease are all of this kind.
LEMMA CalmStep ==
  ASSUME IInv, TypeOK',
         UNCHANGED <<events, deadLetter, acked>>,
         \A d \in Deliveries : /\ delivery'[d].status = delivery[d].status
                               /\ delivery'[d].token = delivery[d].token
                               /\ delivery'[d].attempts = delivery[d].attempts,
         \A w \in Workers : batch'[w] \subseteq batch[w]
  PROVE  IInv'
<1>1. \A w \in Workers : \A i \in batch[w] : i.id \in Deliveries
  BY DEF IInv, TypeOK, Item
<1>2. LeaseShape' /\ DeliveredWasAcked' /\ DeadLettersComplete'
  BY DEF IInv, LeaseShape, DeliveredWasAcked, DeadLettersComplete
<1>3. EventsOutliveDeliveries'
  BY DEF IInv, EventsOutliveDeliveries, Deliveries
<1>4. BatchShape' /\ AckedOutcomes'
  BY DEF IInv, BatchShape, AckedOutcomes
<1>5. HolderIsCurrent'
  BY <1>1 DEF IInv, HolderIsCurrent, HoldsLease
<1> QED
  BY <1>2, <1>3, <1>4, <1>5 DEF IInv

\* A claim hands out a token nobody knows, so it starts a batch of its own
\* and ends every earlier lease on the claimed rows.
LEMMA ClaimStep ==
  ASSUME IInv, TypeOK',
         NEW w \in Workers, NEW D \in SUBSET Deliveries, NEW tk \in Tokens, Claim(w, D, tk)
  PROVE  IInv'
<1> USE DEF IInv
<1>1. \A d \in D : /\ delivery'[d].status = "delivering"
                   /\ delivery'[d].token = tk
                   /\ delivery'[d].attempts = delivery[d].attempts + 1
  BY ClaimedRow DEF Claim, TypeOK
<1>2. \A d \in Deliveries \ D : delivery'[d] = delivery[d]
  BY DEF Claim
<1>3. /\ \A i \in batch'[w] : /\ i.id \in D /\ i.token = tk /\ i.outcome = "claimed"
                             /\ i.attempt = delivery[i.id].attempts + 1
      /\ \A i, j \in batch'[w] : i.id = j.id => i = j
      /\ \A v \in Workers \ {w} : batch'[v] = batch[v]
  BY DEF Claim, TypeOK
<1>4. \A v \in Workers : \A i \in batch[v] : i.token # tk /\ i.id \in Deliveries
  BY DEF Claim, TokensInUse, TypeOK, Item
<1>5. UNCHANGED <<events, deadLetter, acked>>
  BY DEF Claim
<1>6. \A d \in D : delivery[d].status \in {"pending", "retry", "delivering"}
  BY DEF Claim, Claimable
<1>7. LeaseShape'
  BY <1>1, <1>2, ConstantsAssumption DEF LeaseShape
<1>8. BatchShape'
  <2> SUFFICES ASSUME NEW u \in Workers, NEW v \in Workers,
                      NEW i \in batch'[u], NEW j \in batch'[v]
               PROVE  /\ u = v <=> i.token = j.token
                      /\ u = v /\ i.id = j.id => i = j
    BY DEF BatchShape
  <2>1. CASE u = w /\ v = w
    BY <2>1, <1>3
  <2>2. CASE u = w /\ v # w
    BY <2>2, <1>3, <1>4
  <2>3. CASE u # w /\ v = w
    BY <2>3, <1>3, <1>4
  <2>4. CASE u # w /\ v # w
    BY <2>4, <1>3 DEF BatchShape
  <2> QED
    BY <2>1, <2>2, <2>3, <2>4
<1>9. HolderIsCurrent'
  <2> SUFFICES ASSUME NEW v \in Workers, NEW i \in batch'[v], HoldsLease(i)'
               PROVE  i.attempt = delivery'[i.id].attempts
    BY DEF HolderIsCurrent
  <2>1. CASE v = w
    BY <2>1, <1>1, <1>3
  <2>2. CASE v # w
    BY <2>2, <1>1, <1>2, <1>3, <1>4 DEF HolderIsCurrent, HoldsLease
  <2> QED
    BY <2>1, <2>2
<1>10. AckedOutcomes'
  <2> SUFFICES ASSUME NEW v \in Workers, NEW i \in batch'[v], i.outcome = "ok"
               PROVE  i.id \in acked'
    BY DEF AckedOutcomes
  <2>1. CASE v = w
    BY <2>1, <1>3
  <2>2. CASE v # w
    BY <2>2, <1>3, <1>5 DEF AckedOutcomes
  <2> QED
    BY <2>1, <2>2
<1>11. DeliveredWasAcked' /\ DeadLettersComplete'
  BY <1>1, <1>2, <1>5, <1>6 DEF DeliveredWasAcked, DeadLettersComplete
<1>12. EventsOutliveDeliveries'
  BY <1>1, <1>2, <1>5, <1>6 DEF EventsOutliveDeliveries, Deliveries
<1> QED
  BY <1>7, <1>8, <1>9, <1>10, <1>11, <1>12

\* Recording the outcome of an item only changes the item's label.
LEMMA AttemptStep ==
  ASSUME IInv, TypeOK',
         NEW w \in Workers, NEW i \in batch[w], NEW o \in Outcomes, Attempt(w, i, o)
  PROVE  IInv'
<1> USE DEF IInv
<1> DEFINE k == [i EXCEPT !.outcome = o]
<1>1. /\ k.id = i.id /\ k.token = i.token /\ k.attempt = i.attempt /\ k.outcome = o
      /\ i \in Item
  BY DEF TypeOK, Item
<1>2. /\ batch'[w] = (batch[w] \ {i}) \cup {k}
      /\ \A v \in Workers \ {w} : batch'[v] = batch[v]
      /\ UNCHANGED <<events, target, delivery, deadLetter>>
      /\ acked \subseteq acked'
      /\ o = "ok" => i.id \in acked'
  BY DEF Attempt, TypeOK
<1> HIDE DEF k
<1>3. LeaseShape' /\ DeadLettersComplete' /\ EventsOutliveDeliveries'
  BY <1>2 DEF LeaseShape, DeadLettersComplete, EventsOutliveDeliveries
<1>4. DeliveredWasAcked'
  BY <1>2 DEF DeliveredWasAcked
<1>5. \A v \in Workers : \A j \in batch'[v] :
        \E j0 \in batch[v] : /\ j0.id = j.id /\ j0.token = j.token /\ j0.attempt = j.attempt
                             /\ (j = j0 /\ (v = w => j0 # i)) \/ (v = w /\ j0 = i /\ j = k)
  BY <1>1, <1>2
<1>6. BatchShape'
  <2> SUFFICES ASSUME NEW u \in Workers, NEW v \in Workers,
                      NEW a \in batch'[u], NEW b \in batch'[v]
               PROVE  /\ u = v <=> a.token = b.token
                      /\ u = v /\ a.id = b.id => a = b
    BY DEF BatchShape
  <2>1. PICK a0 \in batch[u] :
          /\ a0.id = a.id /\ a0.token = a.token
          /\ (a = a0 /\ (u = w => a0 # i)) \/ (u = w /\ a0 = i /\ a = k)
    BY <1>5
  <2>2. PICK b0 \in batch[v] :
          /\ b0.id = b.id /\ b0.token = b.token
          /\ (b = b0 /\ (v = w => b0 # i)) \/ (v = w /\ b0 = i /\ b = k)
    BY <1>5
  <2> QED
    BY <2>1, <2>2 DEF BatchShape
<1>7. HolderIsCurrent'
  BY <1>2, <1>5 DEF HolderIsCurrent, HoldsLease
<1>8. AckedOutcomes'
  BY <1>1, <1>2 DEF AckedOutcomes
<1> QED
  BY <1>3, <1>4, <1>6, <1>7, <1>8

\* A settled item leaves its batch; the row loses its lease, so no other item
\* can hold it, and every other row is as it was.
LEMMA SettledBatch ==
  ASSUME IInv, TypeOK', NEW w \in Workers, NEW i \in batch[w], Settle(w, i),
         HoldsLease(i), delivery'[i.id].token = NoToken,
         delivery'[i.id].status # "delivering", acked' = acked,
         \A d \in Deliveries \ {i.id} : delivery'[d] = delivery[d]
  PROVE  /\ i.id \in Deliveries
         /\ LeaseShape' /\ BatchShape' /\ HolderIsCurrent' /\ AckedOutcomes'
<1> USE DEF IInv
<1>1. \A v \in Workers : batch'[v] \subseteq batch[v]
  BY DEF Settle, TypeOK
<1>2. \A v \in Workers : \A j \in batch[v] : j.id \in Deliveries
  BY DEF TypeOK, Item
<1>3. LeaseShape'
  BY <1>2 DEF LeaseShape
<1>4. BatchShape' /\ AckedOutcomes'
  BY <1>1 DEF BatchShape, AckedOutcomes
<1>5. HolderIsCurrent'
  BY <1>1, <1>2 DEF HolderIsCurrent, HoldsLease
<1> QED
  BY <1>2, <1>3, <1>4, <1>5

\* A success is recorded for a delivery that was acknowledged.
LEMMA MarkDeliveredStep ==
  ASSUME IInv, TypeOK', NEW w \in Workers, NEW i \in batch[w], MarkDelivered(w, i)
  PROVE  IInv'
<1> USE DEF IInv
<1>1. i.id \in Deliveries /\ delivery[i.id] \in Row
  BY DEF TypeOK, Item
<1>2. /\ delivery'[i.id].status = "delivered" /\ delivery'[i.id].token = NoToken
      /\ \A d \in Deliveries \ {i.id} : delivery'[d] = delivery[d]
      /\ UNCHANGED <<events, deadLetter, acked>>
      /\ Settle(w, i) /\ HoldsLease(i)
  BY <1>1, ReleasedRow DEF MarkDelivered, TypeOK
<1>3. LeaseShape' /\ BatchShape' /\ HolderIsCurrent' /\ AckedOutcomes'
  BY <1>2, SettledBatch
<1>4. i.id \in acked
  BY DEF MarkDelivered, Succeeded, AckedOutcomes
<1>5. DeliveredWasAcked'
  BY <1>2, <1>4 DEF DeliveredWasAcked
<1>6. DeadLettersComplete'
  BY <1>2 DEF DeadLettersComplete, HoldsLease
<1>7. EventsOutliveDeliveries'
  BY <1>2 DEF EventsOutliveDeliveries, HoldsLease, Deliveries
<1> QED
  BY <1>3, <1>5, <1>6, <1>7

\* A failure leaves a row to retry, or a dead one with its dead letter.
LEMMA MarkFailedStep ==
  ASSUME IInv, TypeOK', NEW w \in Workers, NEW i \in batch[w], MarkFailed(w, i)
  PROVE  IInv'
<1> USE DEF IInv
<1>1. i.id \in Deliveries /\ delivery[i.id] \in Row
  BY DEF TypeOK, Item
<1>2. /\ delivery'[i.id].status = IF Dead(i) THEN "dead_letter" ELSE "retry"
      /\ delivery'[i.id].token = NoToken
      /\ \A d \in Deliveries \ {i.id} : delivery'[d] = delivery[d]
  BY <1>1, ReleasedRow, DeferredRow DEF MarkFailed, TypeOK
<1>3. /\ UNCHANGED <<events, acked>>
      /\ Settle(w, i) /\ HoldsLease(i)
      /\ deadLetter'[i.id] = DeadLetterAfter(i)
      /\ \A d \in Deliveries \ {i.id} : deadLetter'[d] = deadLetter[d]
  BY <1>1 DEF MarkFailed, TypeOK
<1>4. LeaseShape' /\ BatchShape' /\ HolderIsCurrent' /\ AckedOutcomes'
  BY <1>2, <1>3, SettledBatch
<1>5. DeliveredWasAcked'
  BY <1>2, <1>3 DEF DeliveredWasAcked
<1>6. DeadLettersComplete'
  BY <1>1, <1>2, <1>3 DEF DeadLettersComplete, DeadLetterAfter, HoldsLease
<1>7. EventsOutliveDeliveries'
  BY <1>2, <1>3 DEF EventsOutliveDeliveries, HoldsLease, Deliveries
<1> QED
  BY <1>4, <1>5, <1>6, <1>7

\* A new event had no rows before.
LEMMA PublishStep ==
  ASSUME IInv, TypeOK', NEW e \in Events, Publish(e)
  PROVE  IInv'
<1> USE DEF IInv
<1>1. \A d \in Deliveries : \/ delivery'[d] = delivery[d]
                            \/ d[1] = e /\ delivery'[d] = NewRow
  BY DEF Publish
<1>2. NewRow.status = "pending" /\ NewRow.token = NoToken
  BY DEF NewRow, NoRow
<1>3. \A d \in Deliveries : d[1] = e => delivery[d].status = "none"
  BY DEF Publish, EventsOutliveDeliveries, Deliveries
<1>4. UNCHANGED <<deadLetter, batch, acked>> /\ events'[e] = "stored"
      /\ \A f \in Events \ {e} : events'[f] = events[f]
  BY DEF Publish, TypeOK
<1>5. LeaseShape' /\ DeliveredWasAcked'
  BY <1>1, <1>2, <1>4 DEF LeaseShape, DeliveredWasAcked
<1>6. DeadLettersComplete'
  BY <1>1, <1>2, <1>3, <1>4 DEF DeadLettersComplete
<1>7. BatchShape' /\ AckedOutcomes'
  BY <1>4 DEF BatchShape, AckedOutcomes
<1>8. HolderIsCurrent'
  <2>1. \A w \in Workers : \A i \in batch[w] : i.id \in Deliveries
    BY DEF TypeOK, Item
  <2> QED
    BY <2>1, <1>1, <1>2, <1>4 DEF HolderIsCurrent, HoldsLease
<1>9. EventsOutliveDeliveries'
  BY <1>1, <1>4 DEF EventsOutliveDeliveries, Deliveries
<1> QED
  BY <1>5, <1>6, <1>7, <1>8, <1>9

\* A replayed row is pending and carries no lease.
LEMMA ReplayStep ==
  ASSUME IInv, TypeOK', NEW d \in Deliveries, Replay(d)
  PROVE  IInv'
<1> USE DEF IInv
<1>1. /\ delivery[d].status = "dead_letter" /\ delivery[d].token = NoToken
      /\ delivery'[d].status = "pending" /\ delivery'[d].token = delivery[d].token
      /\ \A c \in Deliveries \ {d} : delivery'[c] = delivery[c]
  BY RequeuedRow DEF Replay, TypeOK, LeaseShape
<1>2. /\ UNCHANGED <<events, batch, acked>>
      /\ deadLetter'[d] # "waiting"
      /\ \A c \in Deliveries \ {d} : deadLetter'[c] = deadLetter[c]
  BY DEF Replay, TypeOK
<1>3. LeaseShape' /\ DeliveredWasAcked' /\ DeadLettersComplete'
  BY <1>1, <1>2 DEF LeaseShape, DeliveredWasAcked, DeadLettersComplete
<1>4. BatchShape' /\ AckedOutcomes'
  BY <1>2 DEF BatchShape, AckedOutcomes
<1>5. HolderIsCurrent'
  <2>1. \A w \in Workers : \A i \in batch[w] : i.id \in Deliveries
    BY DEF TypeOK, Item
  <2> QED
    BY <2>1, <1>1, <1>2 DEF HolderIsCurrent, HoldsLease
<1>6. EventsOutliveDeliveries'
  BY <1>1, <1>2 DEF EventsOutliveDeliveries, Deliveries
<1> QED
  BY <1>3, <1>4, <1>5, <1>6

\* Retention removes whole deliveries and only events left without any.
LEMMA RetainStep ==
  ASSUME IInv, TypeOK', NEW D \in SUBSET Deliveries, NEW E \in SUBSET Events, Retain(D, E)
  PROVE  IInv'
<1> USE DEF IInv
<1>1. /\ \A d \in D : delivery'[d] = NoRow /\ deadLetter'[d] = "none"
      /\ \A d \in Deliveries \ D : delivery'[d] = delivery[d] /\ deadLetter'[d] = deadLetter[d]
      /\ \A e \in Events \ E : events'[e] = events[e]
      /\ UNCHANGED <<batch, acked>>
  BY DEF Retain
<1>2. NoRow.status = "none" /\ NoRow.token = NoToken
  BY DEF NoRow
<1>3. LeaseShape' /\ DeliveredWasAcked' /\ DeadLettersComplete'
  BY <1>1, <1>2 DEF LeaseShape, DeliveredWasAcked, DeadLettersComplete
<1>4. BatchShape' /\ AckedOutcomes'
  BY <1>1 DEF BatchShape, AckedOutcomes
<1>5. HolderIsCurrent'
  <2>1. \A w \in Workers : \A i \in batch[w] : i.id \in Deliveries
    BY DEF TypeOK, Item
  <2> QED
    BY <2>1, <1>1, <1>2 DEF HolderIsCurrent, HoldsLease
<1>6. EventsOutliveDeliveries'
  <2> SUFFICES ASSUME NEW e \in Events, NEW t \in Targets, delivery'[<<e, t>>].status # "none"
               PROVE  events'[e] = "stored"
    BY DEF EventsOutliveDeliveries
  <2>1. <<e, t>> \in Deliveries
    BY DEF Deliveries
  <2>2. <<e, t>> \notin D /\ delivery[<<e, t>>].status # "none"
    BY <2>1, <1>1, <1>2
  <2>3. e \notin E
    BY <2>2 DEF Retain, Orphaned
  <2> QED
    BY <2>2, <2>3, <1>1 DEF EventsOutliveDeliveries
<1> QED
  BY <1>3, <1>4, <1>5, <1>6

\* Every step keeps the inductive invariant.
LEMMA InvariantStep == IInv /\ [Next]_vars => IInv'
<1> SUFFICES ASSUME IInv, [Next]_vars PROVE IInv'
  OBVIOUS
<1>0. TypeOK'
  BY TypeStep DEF IInv
<1>1. ASSUME NEW t \in Targets, CreateTarget(t) PROVE IInv'
  BY <1>0, <1>1, CalmStep DEF CreateTarget
<1>2. ASSUME NEW t \in Targets, NEW s \in {"active", "disabled"}, SetTargetStatus(t, s)
      PROVE IInv'
  BY <1>0, <1>2, CalmStep DEF SetTargetStatus
<1>3. ASSUME NEW e \in Events, Publish(e) PROVE IInv'
  BY <1>0, <1>3, PublishStep
<1>4. ASSUME NEW w \in Workers, NEW D \in SUBSET Deliveries, NEW tk \in Tokens, Claim(w, D, tk)
      PROVE IInv'
  BY <1>0, <1>4, ClaimStep
<1>5. ASSUME NEW w \in Workers, NEW i \in batch[w], NEW o \in Outcomes, Attempt(w, i, o)
      PROVE IInv'
  BY <1>0, <1>5, AttemptStep
<1>6. ASSUME NEW w \in Workers, NEW i \in batch[w], MarkDelivered(w, i) PROVE IInv'
  BY <1>0, <1>6, MarkDeliveredStep
<1>7. ASSUME NEW w \in Workers, NEW i \in batch[w], MarkFailed(w, i) PROVE IInv'
  BY <1>0, <1>7, MarkFailedStep
<1>8. ASSUME NEW w \in Workers, NEW i \in batch[w], LeaseLost(w, i) PROVE IInv'
  BY <1>0, <1>8, CalmStep DEF LeaseLost, Settle, IInv, TypeOK
<1>9. ASSUME NEW w \in Workers, NEW i \in batch[w], StoreError(w, i) PROVE IInv'
  BY <1>0, <1>9, CalmStep DEF StoreError, Settle, IInv, TypeOK
<1>10. ASSUME NEW w \in Workers, Crash(w) PROVE IInv'
  BY <1>0, <1>10, CalmStep DEF Crash, IInv, TypeOK
<1>11. ASSUME NEW d \in Deliveries, LeaseLapses(d) PROVE IInv'
  <2>1. \A c \in Deliveries : /\ delivery'[c].status = delivery[c].status
                              /\ delivery'[c].token = delivery[c].token
                              /\ delivery'[c].attempts = delivery[c].attempts
    BY <1>11 DEF LeaseLapses, IInv, TypeOK, Row
  <2> QED
    BY <1>0, <1>11, <2>1, CalmStep DEF LeaseLapses
<1>12. ASSUME NEW d \in Deliveries, BecomesDue(d) PROVE IInv'
  <2>1. \A c \in Deliveries : /\ delivery'[c].status = delivery[c].status
                              /\ delivery'[c].token = delivery[c].token
                              /\ delivery'[c].attempts = delivery[c].attempts
    BY <1>12 DEF BecomesDue, IInv, TypeOK, Row
  <2> QED
    BY <1>0, <1>12, <2>1, CalmStep DEF BecomesDue
<1>13. ASSUME NEW t \in Targets, CircuitElapses(t) PROVE IInv'
  BY <1>0, <1>13, CalmStep DEF CircuitElapses
<1>14. ASSUME NEW d \in Deliveries, Replay(d) PROVE IInv'
  BY <1>0, <1>14, ReplayStep
<1>15. ASSUME NEW D \in SUBSET Deliveries, NEW E \in SUBSET Events, Retain(D, E) PROVE IInv'
  BY <1>0, <1>15, RetainStep
<1>16. CASE UNCHANGED vars
  BY <1>0, <1>16, CalmStep DEF vars
<1> QED
  BY <1>1, <1>2, <1>3, <1>4, <1>5, <1>6, <1>7, <1>8, <1>9, <1>10, <1>11, <1>12,
     <1>13, <1>14, <1>15, <1>16 DEF Next, WorkerStep, TimePasses, Operator, Fault

\* The inductive invariant holds in every reachable state.
THEOREM Invariant == Spec => []IInv
<1>1. Init => TypeOK
  BY ConstantsAssumption DEF Init, TypeOK, Target, Row, NoRow
<1>2. Init => IInv
  BY <1>1 DEF Init, IInv, LeaseShape, BatchShape, HolderIsCurrent, AckedOutcomes,
              DeliveredWasAcked, DeadLettersComplete, EventsOutliveDeliveries, NoRow, Deliveries
<1> QED
  BY <1>2, InvariantStep, PTL DEF Spec

\* No delivery is recorded as delivered without an acknowledgement.
THEOREM DeliveredIsAcknowledged == Spec => []DeliveredWasAcked
<1>1. IInv => DeliveredWasAcked
  BY DEF IInv
<1> QED
  BY <1>1, Invariant, PTL

\* Every dead delivery has its entry, and an entry that waits has its dead delivery,
\* through any replays, retries and retention.
THEOREM DeadLettersAreComplete == Spec => []DeadLettersComplete
<1>1. IInv => DeadLettersComplete
  BY DEF IInv
<1> QED
  BY <1>1, Invariant, PTL

\* Retention never removes an event that a delivery still refers to.
THEOREM EventsOutlive == Spec => []EventsOutliveDeliveries
<1>1. IInv => EventsOutliveDeliveries
  BY DEF IInv
<1> QED
  BY <1>1, Invariant, PTL

-----------------------------------------------------------------------------
(* Fencing, as a property of steps *)

\* Only the worker that holds the current lease records an outcome.
THEOREM FencedOutcomes == Spec => OutcomeIsFenced
<1>1. ASSUME IInv, [Next]_vars PROVE [FencedStep]_vars
  <2> USE <1>1 DEF IInv
  <2>1. ASSUME NEW w \in Workers, NEW i \in batch[w], Settle(w, i), HoldsLease(i),
               \A d \in Deliveries \ {i.id} : delivery'[d] = delivery[d]
        PROVE  FencedStep
    <3>1. i \in batch[w] \ batch'[w]
      BY <2>1 DEF Settle, TypeOK
    <3> QED
      BY <2>1, <3>1 DEF FencedStep, HoldsLease
  <2>2. ASSUME \A d \in Deliveries : delivery[d].status = "delivering"
                                     => delivery'[d].status = "delivering"
        PROVE  FencedStep
    BY <2>2 DEF FencedStep
  <2>3. ASSUME NEW e \in Events, Publish(e) PROVE FencedStep
    <3>1. \A d \in Deliveries : d[1] = e => delivery[d].status = "none"
      BY <2>3 DEF Publish, EventsOutliveDeliveries, Deliveries
    <3> QED
      BY <2>2, <2>3, <3>1 DEF Publish
  <2>4. ASSUME NEW w \in Workers, NEW D \in SUBSET Deliveries, NEW tk \in Tokens, Claim(w, D, tk)
        PROVE  FencedStep
    BY <2>2, <2>4, ClaimedRow DEF Claim, TypeOK
  <2>5. ASSUME NEW w \in Workers, NEW i \in batch[w], MarkDelivered(w, i) PROVE FencedStep
    BY <2>1, <2>5 DEF MarkDelivered, TypeOK
  <2>6. ASSUME NEW w \in Workers, NEW i \in batch[w], MarkFailed(w, i) PROVE FencedStep
    BY <2>1, <2>6 DEF MarkFailed, TypeOK
  <2>7. ASSUME NEW d \in Deliveries, Replay(d) PROVE FencedStep
    BY <2>2, <2>7 DEF Replay, TypeOK
  <2>8. ASSUME NEW D \in SUBSET Deliveries, NEW E \in SUBSET Events, Retain(D, E) PROVE FencedStep
    BY <2>2, <2>8 DEF Retain, Finished
  <2>9. ASSUME NEW d \in Deliveries, LeaseLapses(d) \/ BecomesDue(d) PROVE FencedStep
    BY <2>2, <2>9 DEF LeaseLapses, BecomesDue, TypeOK, Row
  <2>10. ASSUME UNCHANGED delivery PROVE FencedStep
    BY <2>2, <2>10
  <2> QED
    BY <2>3, <2>4, <2>5, <2>6, <2>7, <2>8, <2>9, <2>10
       DEF Next, WorkerStep, TimePasses, Operator, Fault, CreateTarget, SetTargetStatus, Attempt,
           LeaseLost, StoreError, Crash, CircuitElapses
<1> QED
  BY <1>1, Invariant, PTL DEF Spec, OutcomeIsFenced

-----------------------------------------------------------------------------
(* Refinement *)

\* A step that changes no status and gives birth to no event changes no
\* obligation.
LEMMA SameObligations ==
  ASSUME \A d \in Deliveries : /\ delivery'[d].status = delivery[d].status
                               /\ events'[d[1]] = events[d[1]]
  PROVE  Obligations' = Obligations
  BY DEF Obligations, Obligation

\* The delivery machinery implements the contract of the outbox.
THEOREM ContractHolds == Spec => ImplementsContract
<1>1. Init => Contract!Init
  BY DEF Init, Contract!Init, Obligations, Obligation, NoRow, Deliveries
<1>2. ASSUME IInv, [Next]_vars PROVE [Contract!Next]_(Contract!contractVars)
  <2> USE <1>2 DEF IInv
  <2>1. ASSUME NEW e \in Events, Publish(e) PROVE Contract!Next
    <3> DEFINE owed == {d \in Deliveries : d[1] = e /\ Reachable(d[2])}
               skipped == {d \in Deliveries : d[1] = e /\ ~Reachable(d[2])}
    <3>1. \A d \in Deliveries : d[1] = e => Obligation(d) = "fresh"
      BY <2>1 DEF Publish, EventsOutliveDeliveries, Deliveries, Obligation
    <3>2. NewRow.status = "pending"
      BY DEF NewRow, NoRow
    <3>3. \A d \in Deliveries : Obligation(d)' = IF d \in owed THEN "owed"
            ELSE IF d \in skipped THEN "closed" ELSE Obligation(d)
      <4> TAKE d \in Deliveries
      <4>1. CASE d \in owed
        BY <2>1, <4>1, <3>2 DEF Publish, Obligation
      <4>2. CASE d \in skipped
        <5>1. delivery'[d].status = "none" /\ events'[d[1]] = "stored"
          BY <2>1, <4>2 DEF Publish, EventsOutliveDeliveries, Deliveries, TypeOK
        <5> QED
          BY <4>2, <5>1 DEF Obligation
      <4>3. CASE d[1] # e
        BY <2>1, <4>3 DEF Publish, Obligation, TypeOK, Deliveries
      <4> QED
        BY <4>1, <4>2, <4>3
    <3>4. Contract!Commit(owed, skipped)
      BY <2>1, <3>1, <3>3 DEF Contract!Commit, Obligations, Publish
    <3> QED
      BY <3>4 DEF Contract!Next
  <2>2. ASSUME NEW w \in Workers, NEW D \in SUBSET Deliveries, NEW tk \in Tokens, Claim(w, D, tk)
        PROVE  UNCHANGED Contract!contractVars
    <3>1. \A d \in Deliveries : Obligation(d)' = Obligation(d)
      BY <2>2, ClaimedRow DEF Claim, Claimable, Obligation, TypeOK
    <3> QED
      BY <2>2, <3>1 DEF Obligations, Contract!contractVars, Claim
  <2>3. ASSUME NEW w \in Workers, NEW i \in batch[w], NEW o \in Outcomes, Attempt(w, i, o)
        PROVE  [Contract!Next]_(Contract!contractVars)
    <3>1. i.id \in Deliveries
      BY DEF TypeOK, Item
    <3>2. Obligations' = Obligations
      BY <2>3, SameObligations DEF Attempt
    <3>3. CASE o = "ok"
      BY <2>3, <3>1, <3>2, <3>3 DEF Attempt, Contract!Next, Contract!Acknowledge
    <3>4. CASE o # "ok"
      BY <2>3, <3>2, <3>4 DEF Attempt, Contract!contractVars
    <3> QED
      BY <3>3, <3>4
  <2>4. ASSUME NEW w \in Workers, NEW i \in batch[w], MarkDelivered(w, i) PROVE Contract!Next
    <3>1. i.id \in Deliveries /\ i.id \in acked
      BY <2>4 DEF TypeOK, Item, AckedOutcomes, MarkDelivered, Succeeded
    <3>2. delivery[i.id].status = "delivering" /\ delivery'[i.id].status = "delivered"
      BY <2>4, <3>1, ReleasedRow DEF MarkDelivered, HoldsLease, TypeOK
    <3>3. Obligation(i.id) = "owed" /\ Obligation(i.id)' = "done"
      BY <3>2 DEF Obligation
    <3>4. \A d \in Deliveries \ {i.id} : Obligation(d)' = Obligation(d)
      BY <2>4, <3>1 DEF MarkDelivered, Obligation, TypeOK
    <3>5. Contract!Complete(i.id)
      BY <2>4, <3>1, <3>3, <3>4 DEF Contract!Complete, Obligations, MarkDelivered
    <3> QED
      BY <3>1, <3>5 DEF Contract!Next
  <2>5. ASSUME NEW w \in Workers, NEW i \in batch[w], MarkFailed(w, i)
        PROVE  [Contract!Next]_(Contract!contractVars)
    <3>1. i.id \in Deliveries
      BY DEF TypeOK, Item
    <3>2. /\ delivery[i.id].status = "delivering"
          /\ delivery'[i.id].status = IF Dead(i) THEN "dead_letter" ELSE "retry"
      BY <2>5, <3>1, ReleasedRow, DeferredRow DEF MarkFailed, HoldsLease, TypeOK
    <3>3. Obligation(i.id) = "owed" /\ Obligation(i.id)' = IF Dead(i) THEN "dead" ELSE "owed"
      BY <3>2 DEF Obligation
    <3>4. \A d \in Deliveries \ {i.id} : Obligation(d)' = Obligation(d)
      BY <2>5, <3>1 DEF MarkFailed, Obligation, TypeOK
    <3>5. acked' = acked
      BY <2>5 DEF MarkFailed
    <3>6. CASE Dead(i)
      <4>1. Contract!GiveUp(i.id)
        BY <3>1, <3>3, <3>4, <3>5, <3>6 DEF Contract!GiveUp, Obligations
      <4> QED
        BY <3>1, <4>1 DEF Contract!Next
    <3>7. CASE ~Dead(i)
      BY <3>3, <3>4, <3>5, <3>7 DEF Obligations, Contract!contractVars
    <3> QED
      BY <3>6, <3>7
  <2>6. ASSUME NEW d \in Deliveries, Replay(d) PROVE Contract!Next
    <3>1. delivery[d].status = "dead_letter" /\ delivery'[d].status = "pending"
      BY <2>6, RequeuedRow DEF Replay, TypeOK
    <3>2. Obligation(d) = "dead" /\ Obligation(d)' = "owed"
      BY <3>1 DEF Obligation
    <3>3. \A c \in Deliveries \ {d} : Obligation(c)' = Obligation(c)
      BY <2>6 DEF Replay, Obligation, TypeOK
    <3>4. Contract!Reopen(d)
      BY <2>6, <3>2, <3>3 DEF Contract!Reopen, Obligations, Replay
    <3> QED
      BY <3>4 DEF Contract!Next
  <2>7. ASSUME NEW D \in SUBSET Deliveries, NEW E \in SUBSET Events, Retain(D, E)
        PROVE  Contract!Next
    <3>1. NoRow.status = "none"
      BY DEF NoRow
    <3>2. \A d \in D : Obligation(d) \in {"done", "dead"}
      BY <2>7 DEF Retain, Finished, Obligation
    <3>3. \A d \in Deliveries : d[1] \in Events /\ (events'[d[1]] = "unborn" <=> events[d[1]] = "unborn")
      BY <2>7 DEF Retain, Orphaned, Deliveries
    <3>4. \A d \in D : events[d[1]] = "stored"
      BY <2>7 DEF Retain, Finished, EventsOutliveDeliveries, Deliveries
    <3>5. \A d \in D : Obligation(d)' = "closed"
      BY <2>7, <3>1, <3>3, <3>4 DEF Retain, Obligation
    <3>6. \A d \in Deliveries \ D : Obligation(d)' = Obligation(d)
      BY <2>7, <3>3 DEF Retain, Obligation
    <3>7. Contract!Forget(D)
      BY <2>7, <3>2, <3>5, <3>6 DEF Contract!Forget, Obligations, Retain
    <3> QED
      BY <3>7 DEF Contract!Next
  <2>8. ASSUME NEW d \in Deliveries, LeaseLapses(d) \/ BecomesDue(d)
        PROVE  UNCHANGED Contract!contractVars
    <3>1. \A c \in Deliveries : delivery'[c].status = delivery[c].status
      BY <2>8 DEF LeaseLapses, BecomesDue, TypeOK, Row
    <3>2. UNCHANGED <<events, acked>>
      BY <2>8 DEF LeaseLapses, BecomesDue
    <3> QED
      BY <3>1, <3>2, SameObligations DEF Contract!contractVars
  <2>9. ASSUME UNCHANGED <<events, delivery, acked>> PROVE UNCHANGED Contract!contractVars
    BY <2>9, SameObligations DEF Contract!contractVars
  <2>10. CASE Next
    BY <2>10, <2>1, <2>2, <2>3, <2>4, <2>5, <2>6, <2>7, <2>8, <2>9
       DEF Next, WorkerStep, TimePasses, Operator, Fault, CreateTarget, SetTargetStatus,
           LeaseLost, StoreError, Crash, CircuitElapses
  <2>11. CASE UNCHANGED vars
    BY <2>9, <2>11 DEF vars
  <2> QED
    BY <2>10, <2>11
<1> QED
  BY <1>1, <1>2, Invariant, PTL DEF Spec, ImplementsContract, Contract!Spec

=============================================================================
