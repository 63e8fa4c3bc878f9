----------------------- MODULE AdminIdempotencyProofs -----------------------
(***************************************************************************)
(* Proofs about AdminIdempotency, for any attempts, keys, payloads and     *)
(* any bound on the lives of a key.                                        *)
(***************************************************************************)
EXTENDS AdminIdempotency, TLAPS

USE IdempotencyAssumption, NoneIsNoRecord

\* The initial state satisfies the inductive invariant.
LEMMA InitIInv == Init => IInv
BY DEF Init, IInv, TypeOK, HolderIsClaimant, AttemptsHaveKeys, RecordIsEffect,
       EffectIsRecorded, AtMostOncePerLife, ReplayIsOriginal, Idle, Attempt, Phases

\* A step that only moves an attempt to a new phase keeps the state well typed
\* and every other field of every attempt as it was.
LEMMA FinishFields ==
  ASSUME attempt \in [Attempts -> Attempt], NEW a \in Attempts, NEW ph \in Phases, Finish(a, ph)
  PROVE  /\ attempt' \in [Attempts -> Attempt]
         /\ attempt'[a].phase = ph
         /\ \A b \in Attempts : /\ b # a => attempt'[b] = attempt[b]
                                /\ attempt'[b].key = attempt[b].key
                                /\ attempt'[b].payload = attempt[b].payload
                                /\ attempt'[b].answer = attempt[b].answer
BY DEF Finish, Attempt

\* Sending a response changes the phase and the answer of one attempt only.
LEMMA AnswerFields ==
  ASSUME attempt \in [Attempts -> Attempt], NEW a \in Attempts, NEW ph \in Phases,
         NEW b \in Attempts, Answer(a, ph, b)
  PROVE  /\ attempt' \in [Attempts -> Attempt]
         /\ attempt'[a].phase = ph /\ attempt'[a].answer = b
         /\ \A c \in Attempts : /\ c # a => attempt'[c] = attempt[c]
                                /\ attempt'[c].key = attempt[c].key
                                /\ attempt'[c].payload = attempt[c].payload
BY DEF Answer, Attempt

\* An attempt past "idle" has a key.
LEMMA HasKey ==
  ASSUME IInv, NEW a \in Attempts, attempt[a].phase # "idle"
  PROVE  KeyOf(a) \in Keys /\ attempt[a].payload \in Payloads
BY DEF IInv, AttemptsHaveKeys, KeyOf

\* Taking up a request keeps the invariant.
LEMMA SendIInv ==
  ASSUME IInv, NEW a \in Attempts, NEW k \in Keys, NEW p \in Payloads, Send(a, k, p)
  PROVE  IInv'
<1>1. /\ attempt' \in [Attempts -> Attempt]
      /\ attempt'[a].phase = "begun" /\ attempt'[a].key = k /\ attempt'[a].payload = p
      /\ \A b \in Attempts : b # a => attempt'[b] = attempt[b]
  BY DEF IInv, TypeOK, Send, Attempt, Phases
<1>2. TypeOK'
  BY <1>1 DEF IInv, TypeOK, Send
<1>3. HolderIsClaimant'
  BY <1>1 DEF IInv, TypeOK, HolderIsClaimant, Send
<1>4. AttemptsHaveKeys'
  BY <1>1 DEF IInv, AttemptsHaveKeys
<1>5. (RecordIsEffect /\ EffectIsRecorded /\ AtMostOncePerLife)'
  BY DEF IInv, RecordIsEffect, EffectIsRecorded, AtMostOncePerLife, Send
<1>6. ReplayIsOriginal'
  BY <1>1 DEF IInv, ReplayIsOriginal, Send
<1> QED
  BY <1>2, <1>3, <1>4, <1>5, <1>6 DEF IInv

\* The insert that goes in keeps the invariant: no other attempt holds the key.
LEMMA ClaimIInv ==
  ASSUME IInv, NEW a \in Attempts, Claim(a)
  PROVE  IInv'
<1>1. KeyOf(a) \in Keys /\ attempt[a].payload \in Payloads
  BY HasKey DEF Claim
<1>2. /\ attempt' \in [Attempts -> Attempt]
      /\ attempt'[a].phase = "claimed"
      /\ \A b \in Attempts : /\ b # a => attempt'[b] = attempt[b]
                             /\ attempt'[b].key = attempt[b].key
                             /\ attempt'[b].payload = attempt[b].payload
                             /\ attempt'[b].answer = attempt[b].answer
  BY FinishFields DEF Claim, IInv, TypeOK, Phases
<1>3. TypeOK'
  BY <1>1, <1>2 DEF IInv, TypeOK, Claim
<1>4. HolderIsClaimant'
  BY <1>1, <1>2 DEF IInv, TypeOK, HolderIsClaimant, Claim, Insertable, KeyOf
<1>5. AttemptsHaveKeys'
  BY <1>1, <1>2 DEF IInv, AttemptsHaveKeys, KeyOf
<1>6. (RecordIsEffect /\ EffectIsRecorded /\ AtMostOncePerLife)'
  BY DEF IInv, RecordIsEffect, EffectIsRecorded, AtMostOncePerLife, Claim
<1>7. ReplayIsOriginal'
  BY <1>2 DEF IInv, ReplayIsOriginal, Claim
<1> QED
  BY <1>3, <1>4, <1>5, <1>6, <1>7 DEF IInv

\* A step that ends, or sends to the select, an attempt that holds no key.
LEMMA MoveOnIInv ==
  ASSUME IInv, NEW a \in Attempts, NEW ph \in Phases \ {"idle", "claimed", "replayed"},
         attempt[a].phase \in {"begun", "conflict"}, Finish(a, ph),
         UNCHANGED <<record, holder, effects, life>>
  PROVE  IInv'
<1>1. /\ attempt' \in [Attempts -> Attempt]
      /\ attempt'[a].phase = ph
      /\ \A b \in Attempts : /\ b # a => attempt'[b] = attempt[b]
                             /\ attempt'[b].key = attempt[b].key
                             /\ attempt'[b].payload = attempt[b].payload
                             /\ attempt'[b].answer = attempt[b].answer
  BY FinishFields DEF IInv, TypeOK
<1>2. TypeOK'
  BY <1>1 DEF IInv, TypeOK
<1>3. HolderIsClaimant'
  BY <1>1 DEF IInv, TypeOK, HolderIsClaimant
<1>4. AttemptsHaveKeys'
  BY <1>1 DEF IInv, AttemptsHaveKeys
<1>5. (RecordIsEffect /\ EffectIsRecorded /\ AtMostOncePerLife)'
  BY DEF IInv, RecordIsEffect, EffectIsRecorded, AtMostOncePerLife
<1>6. ReplayIsOriginal'
  BY <1>1 DEF IInv, ReplayIsOriginal
<1> QED
  BY <1>2, <1>3, <1>4, <1>5, <1>6 DEF IInv

\* Rolling back releases the key and applies nothing.
LEMMA RollbackIInv ==
  ASSUME IInv, NEW a \in Attempts, Rollback(a)
  PROVE  IInv'
<1>1. KeyOf(a) \in Keys
  BY HasKey DEF Rollback
<1>2. /\ attempt' \in [Attempts -> Attempt]
      /\ attempt'[a].phase = "failed"
      /\ \A b \in Attempts : /\ b # a => attempt'[b] = attempt[b]
                             /\ attempt'[b].key = attempt[b].key
                             /\ attempt'[b].payload = attempt[b].payload
                             /\ attempt'[b].answer = attempt[b].answer
  BY FinishFields DEF Rollback, IInv, TypeOK, Phases
<1>3. TypeOK'
  BY <1>1, <1>2 DEF IInv, TypeOK, Rollback
<1>4. HolderIsClaimant'
  BY <1>1, <1>2 DEF IInv, TypeOK, HolderIsClaimant, Rollback, KeyOf
<1>5. AttemptsHaveKeys'
  BY <1>2 DEF IInv, AttemptsHaveKeys, Rollback
<1>6. (RecordIsEffect /\ EffectIsRecorded /\ AtMostOncePerLife)'
  BY DEF IInv, RecordIsEffect, EffectIsRecorded, AtMostOncePerLife, Rollback
<1>7. ReplayIsOriginal'
  BY <1>2 DEF IInv, ReplayIsOriginal, Rollback
<1> QED
  BY <1>3, <1>4, <1>5, <1>6, <1>7 DEF IInv

\* Committing applies the mutation once: the key is held, so it has no row, so
\* the present life has no effect yet.
LEMMA CommitIInv ==
  ASSUME IInv, NEW a \in Attempts, Commit(a)
  PROVE  IInv'
<1> DEFINE k == KeyOf(a)
           p == attempt[a].payload
           e0 == [by |-> a, key |-> k, payload |-> p, life |-> life[k]]
<1>1. k \in Keys /\ p \in Payloads
  BY HasKey DEF Commit
<1>2. /\ attempt' \in [Attempts -> Attempt]
      /\ attempt'[a].phase = "created"
      /\ \A b \in Attempts : /\ b # a => attempt'[b] = attempt[b]
                             /\ attempt'[b].key = attempt[b].key
                             /\ attempt'[b].payload = attempt[b].payload
  BY AnswerFields DEF Commit, IInv, TypeOK, Phases
<1>3. /\ effects' = effects \cup {e0} /\ life' = life
      /\ e0 \in Effect /\ e0.by = a /\ e0.key = k /\ e0.payload = p /\ e0.life = life[k]
  BY <1>1 DEF Commit, IInv, TypeOK, Effect
<1>4. /\ record'[k] = [payload |-> p, response |-> a, expired |-> FALSE]
      /\ record'[k] \in Record /\ record'[k] # None
      /\ \A j \in Keys : j # k => record'[j] = record[j]
      /\ record' \in [Keys -> Record \cup {None}]
  <2>1. [payload |-> p, response |-> a, expired |-> FALSE] \in Record
    BY <1>1 DEF Record
  <2>2. record'[k] = [payload |-> p, response |-> a, expired |-> FALSE]
    BY <1>1 DEF Commit, IInv, TypeOK
  <2>3. \A j \in Keys : j # k => record'[j] = record[j]
    BY <1>1 DEF Commit, IInv, TypeOK
  <2>4. record' \in [Keys -> Record \cup {None}]
    BY <1>1, <2>1 DEF Commit, IInv, TypeOK
  <2> QED
    BY <2>1, <2>2, <2>3, <2>4
<1>5. record[k] = None /\ holder[k] = a
  BY <1>1 DEF Commit, IInv, HolderIsClaimant, KeyOf
<1>6. TypeOK'
  BY <1>1, <1>2, <1>3, <1>4 DEF IInv, TypeOK, Commit
<1>7. HolderIsClaimant'
  BY <1>1, <1>2, <1>4, <1>5 DEF IInv, TypeOK, HolderIsClaimant, Commit, KeyOf
<1>8. AttemptsHaveKeys'
  BY <1>1, <1>2 DEF IInv, AttemptsHaveKeys, Commit
<1>9. RecordIsEffect'
  BY <1>1, <1>3, <1>4 DEF IInv, RecordIsEffect
<1>10. EffectIsRecorded'
  BY <1>1, <1>3, <1>4 DEF IInv, TypeOK, Effect, EffectIsRecorded
<1>11. AtMostOncePerLife'
  BY <1>1, <1>3, <1>5 DEF IInv, AtMostOncePerLife, EffectIsRecorded
<1>12. ReplayIsOriginal'
  BY <1>2, <1>3 DEF IInv, ReplayIsOriginal
<1> QED
  BY <1>6, <1>7, <1>8, <1>9, <1>10, <1>11, <1>12 DEF IInv

\* The select after a conflict answers from a committed row.
LEMMA LookupIInv ==
  ASSUME IInv, NEW a \in Attempts, Lookup(a)
  PROVE  IInv'
<1>1. CASE Finish(a, "mismatch")
  BY <1>1, MoveOnIInv DEF Lookup, Phases
<1>2. CASE Finish(a, "expired")
  BY <1>2, MoveOnIInv DEF Lookup, Phases
<1>3. CASE /\ Matches(a)
           /\ Answer(a, "replayed", record[KeyOf(a)].response)
  <2>1. KeyOf(a) \in Keys
    BY HasKey DEF Lookup
  <2>2. record[KeyOf(a)] \in Record
    BY <2>1 DEF Lookup, IInv, TypeOK
  <2>3. record[KeyOf(a)].response \in Attempts
    BY <2>2 DEF Record
  <2>4. /\ attempt' \in [Attempts -> Attempt]
        /\ attempt'[a].phase = "replayed"
        /\ attempt'[a].answer = record[KeyOf(a)].response
        /\ \A b \in Attempts : /\ b # a => attempt'[b] = attempt[b]
                               /\ attempt'[b].key = attempt[b].key
                               /\ attempt'[b].payload = attempt[b].payload
    BY <1>3, <2>3, AnswerFields DEF IInv, TypeOK, Phases
  <2>5. TypeOK'
    BY <2>4 DEF IInv, TypeOK, Lookup
  <2>6. HolderIsClaimant'
    BY <2>4 DEF IInv, TypeOK, HolderIsClaimant, Lookup
  <2>7. AttemptsHaveKeys'
    BY <2>4 DEF IInv, AttemptsHaveKeys, Lookup
  <2>8. (RecordIsEffect /\ EffectIsRecorded /\ AtMostOncePerLife)'
    BY DEF IInv, RecordIsEffect, EffectIsRecorded, AtMostOncePerLife, Lookup
  <2>9. \E e \in effects : /\ e.by = record[KeyOf(a)].response
                           /\ e.key = attempt[a].key
                           /\ e.payload = attempt[a].payload
    BY <1>3, <2>1 DEF IInv, RecordIsEffect, Lookup, Matches, KeyOf
  <2>10. ReplayIsOriginal'
    BY <2>4, <2>9 DEF IInv, ReplayIsOriginal, Lookup
  <2> QED
    BY <2>5, <2>6, <2>7, <2>8, <2>10 DEF IInv
<1> QED
  BY <1>1, <1>2, <1>3 DEF Lookup

\* The passage of time touches no mutation.
LEMMA ExpireIInv ==
  ASSUME IInv, NEW k \in Keys, Expire(k)
  PROVE  IInv'
<1>1. /\ attempt' \in [Attempts -> Attempt]
      /\ \A b \in Attempts : /\ attempt'[b].phase = attempt[b].phase
                             /\ attempt'[b].key = attempt[b].key
                             /\ attempt'[b].payload = attempt[b].payload
                             /\ attempt'[b].answer = attempt[b].answer
  <2> SUFFICES ASSUME NEW b \in Attempts
               PROVE  /\ attempt'[b] \in Attempt
                      /\ attempt'[b].phase = attempt[b].phase
                      /\ attempt'[b].key = attempt[b].key
                      /\ attempt'[b].payload = attempt[b].payload
                      /\ attempt'[b].answer = attempt[b].answer
    BY DEF Expire
  <2>1. attempt[b] \in Attempt
    BY DEF IInv, TypeOK
  <2>2. CASE attempt'[b] = attempt[b]
    BY <2>1, <2>2
  <2>3. CASE attempt'[b] = [attempt[b] EXCEPT !.early = TRUE]
    BY <2>1, <2>3 DEF Attempt
  <2> QED
    BY <2>2, <2>3 DEF Expire
<1>2. record[k] \in Record
  BY DEF IInv, TypeOK, Expire
<1>3. record' = [record EXCEPT ![k] = [record[k] EXCEPT !.expired = TRUE]]
  BY DEF IInv, TypeOK, Expire
<1>4. /\ record' \in [Keys -> Record \cup {None}]
      /\ \A j \in Keys : /\ (record'[j] = None) <=> (record[j] = None)
                         /\ record[j] # None =>
                              /\ record'[j].response = record[j].response
                              /\ record'[j].payload = record[j].payload
  <2> DEFINE r == [record[k] EXCEPT !.expired = TRUE]
  <2>1. r \in Record /\ r.response = record[k].response /\ r.payload = record[k].payload
    BY <1>2 DEF Record
  <2>3. record'[k] = r /\ \A j \in Keys : j # k => record'[j] = record[j]
    BY <1>3 DEF IInv, TypeOK
  <2>4. record' \in [Keys -> Record \cup {None}]
    BY <1>3, <2>1 DEF IInv, TypeOK
  <2> HIDE DEF r
  <2> QED
    BY <1>2, <2>1, <2>3, <2>4
<1>5. TypeOK'
  BY <1>1, <1>4 DEF IInv, TypeOK, Expire
<1>6. HolderIsClaimant'
  BY <1>1, <1>4 DEF IInv, TypeOK, HolderIsClaimant, Expire
<1>7. AttemptsHaveKeys'
  BY <1>1 DEF IInv, AttemptsHaveKeys
<1>8. RecordIsEffect'
  BY <1>4 DEF IInv, RecordIsEffect, Expire
<1>9. EffectIsRecorded'
  BY <1>4 DEF IInv, TypeOK, Effect, EffectIsRecorded, Expire
<1>10. AtMostOncePerLife'
  BY DEF IInv, AtMostOncePerLife, Expire
<1>11. ReplayIsOriginal'
  BY <1>1 DEF IInv, ReplayIsOriginal, Expire
<1> QED
  BY <1>5, <1>6, <1>7, <1>8, <1>9, <1>10, <1>11 DEF IInv

\* Cleanup begins a new life of the keys it frees.
LEMMA CleanupIInv ==
  ASSUME IInv, NEW K \in SUBSET Keys, CleanupExpired(K)
  PROVE  IInv'
<1>1. /\ \A k \in Keys : record'[k] = IF k \in K THEN None ELSE record[k]
      /\ record' \in [Keys -> Record \cup {None}]
  BY DEF IInv, TypeOK, CleanupExpired
<1>2. /\ \A k \in Keys : life'[k] = IF k \in K THEN life[k] + 1 ELSE life[k]
      /\ life' \in [Keys -> Nat]
  BY DEF IInv, TypeOK, CleanupExpired
<1>3. TypeOK'
  BY <1>1, <1>2 DEF IInv, TypeOK, CleanupExpired
<1>4. HolderIsClaimant'
  BY <1>1 DEF IInv, TypeOK, HolderIsClaimant, CleanupExpired
<1>5. (AttemptsHaveKeys /\ AtMostOncePerLife /\ ReplayIsOriginal)'
  BY DEF IInv, AttemptsHaveKeys, AtMostOncePerLife, ReplayIsOriginal, CleanupExpired
<1>6. RecordIsEffect'
  BY <1>1, <1>2 DEF IInv, RecordIsEffect, CleanupExpired
<1>7. EffectIsRecorded'
  BY <1>1, <1>2 DEF IInv, TypeOK, Effect, EffectIsRecorded, CleanupExpired
<1> QED
  BY <1>3, <1>4, <1>5, <1>6, <1>7 DEF IInv

\* Every step keeps the inductive invariant.
LEMMA NextIInv == IInv /\ [Next]_vars => IInv'
<1> SUFFICES ASSUME IInv, [Next]_vars PROVE IInv'
  OBVIOUS
<1>1. CASE UNCHANGED vars
  BY <1>1 DEF IInv, TypeOK, HolderIsClaimant, AttemptsHaveKeys, RecordIsEffect,
              EffectIsRecorded, AtMostOncePerLife, ReplayIsOriginal, vars
<1>2. ASSUME NEW a \in Attempts, Handle(a) PROVE IInv'
  <2>1. CASE Claim(a)
    BY <2>1, ClaimIInv
  <2>2. CASE Conflict(a)
    BY <2>2, MoveOnIInv DEF Conflict, Phases
  <2>3. CASE Commit(a)
    BY <2>3, CommitIInv
  <2>4. CASE Rollback(a)
    BY <2>4, RollbackIInv
  <2>5. CASE Lookup(a)
    BY <2>5, LookupIInv
  <2>6. CASE LookupGone(a)
    BY <2>6, MoveOnIInv DEF LookupGone, Phases
  <2> QED
    BY <1>2, <2>1, <2>2, <2>3, <2>4, <2>5, <2>6 DEF Handle
<1>3. ASSUME NEW a \in Attempts, NEW k \in Keys, NEW p \in Payloads, Send(a, k, p) PROVE IInv'
  BY <1>3, SendIInv
<1>4. ASSUME NEW k \in Keys, Expire(k) PROVE IInv'
  BY <1>4, ExpireIInv
<1>5. ASSUME NEW K \in SUBSET Keys, CleanupExpired(K) PROVE IInv'
  BY <1>5, CleanupIInv
<1> QED
  BY <1>1, <1>2, <1>3, <1>4, <1>5 DEF Next

\* The inductive invariant holds in every reachable state.
THEOREM IdempotencyInvariant == Spec => []IInv
BY InitIInv, NextIInv, PTL DEF Spec

\* Every reachable state is well typed.
THEOREM IdempotencyTypes == Spec => []TypeOK
<1>1. IInv => TypeOK
  BY DEF IInv
<1> QED
  BY <1>1, IdempotencyInvariant, PTL

\* Within the life of a key's record the mutation of Store.Begin's caller is
\* applied at most once, whatever retries overlap, fail or crash.
THEOREM MutationAtMostOnce == Spec => []AtMostOncePerLife
<1>1. IInv => AtMostOncePerLife
  BY DEF IInv
<1> QED
  BY <1>1, IdempotencyInvariant, PTL

\* A replay answers with the committed mutation of the same key and payload.
THEOREM ReplaysAreFaithful == Spec => []ReplayIsOriginal
<1>1. IInv => ReplayIsOriginal
  BY DEF IInv
<1> QED
  BY <1>1, IdempotencyInvariant, PTL

\* A record that has not expired is never removed.
LEMMA KeepsLiveRecords == IInv /\ [Next]_vars => StoredUntilExpiredStep
<1> SUFFICES ASSUME IInv, [Next]_vars, NEW k \in Keys, record[k] # None, ~record[k].expired
             PROVE  record'[k] # None
  BY DEF StoredUntilExpiredStep
<1>1. CASE UNCHANGED record
  BY <1>1
<1>2. CASE \E a \in Attempts : Commit(a)
  <2>1. PICK a \in Attempts : Commit(a)
    BY <1>2
  <2>2. KeyOf(a) \in Keys /\ attempt[a].payload \in Payloads
    BY <2>1, HasKey DEF Commit
  <2>3. [payload |-> attempt[a].payload, response |-> a, expired |-> FALSE] \in Record
    BY <2>2 DEF Record
  <2> QED
    BY <2>1, <2>2, <2>3 DEF Commit, IInv, TypeOK
<1>3. CASE \E j \in Keys : Expire(j)
  <2>1. PICK j \in Keys : Expire(j)
    BY <1>3
  <2>2. CASE j # k
    BY <2>1, <2>2 DEF Expire, IInv, TypeOK
  <2>3. CASE j = k
    <3> DEFINE r == [record[k] EXCEPT !.expired = TRUE]
    <3>1. record[k] \in Record
      BY DEF IInv, TypeOK
    <3>2. r \in Record
      BY <3>1 DEF Record
    <3>3. record'[k] = r
      BY <2>1, <2>3 DEF Expire, IInv, TypeOK
    <3> QED
      BY <3>2, <3>3
  <2> QED
    BY <2>2, <2>3
<1>4. CASE \E K \in SUBSET Keys : CleanupExpired(K)
  BY <1>4 DEF CleanupExpired, Removable
<1> QED
  BY <1>1, <1>2, <1>3, <1>4 DEF Next, Handle, Claim, Conflict, Rollback, Lookup, LookupGone,
     Send, vars

\* A record is removed only once it has expired.
THEOREM RecordsOutliveRetries == Spec => StoredUntilExpired
<1>1. IInv /\ [Next]_vars => [StoredUntilExpiredStep]_vars
  BY KeepsLiveRecords
<1> QED
  BY <1>1, IdempotencyInvariant, PTL DEF Spec, StoredUntilExpired

\* A step that leaves every request past "idle" with its key and payload has
\* sent no request.
LEMMA SameRequests ==
  ASSUME \A b \in Attempts : /\ attempt'[b].phase = "idle" <=> attempt[b].phase = "idle"
                             /\ attempt'[b].key = attempt[b].key
                             /\ attempt'[b].payload = attempt[b].payload
  PROVE  SentRequests' = SentRequests
BY DEF SentRequests

\* A step that gives no request a "created" or "replayed" answer answers none.
LEMMA SameAnswers ==
  ASSUME \A b \in Attempts : /\ attempt'[b].phase \in {"created", "replayed"}
                                 <=> attempt[b].phase \in {"created", "replayed"}
                             /\ attempt'[b].answer = attempt[b].answer
  PROVE  AnswersSent' = AnswersSent
BY DEF AnswersSent

\* The request an attempt makes, past "idle", with no answer yet.
LEMMA RequestIsMade ==
  ASSUME IInv, NEW a \in Attempts, attempt[a].phase \in {"begun", "claimed", "conflict"}
  PROVE  /\ [by |-> a, key |-> KeyOf(a), payload |-> attempt[a].payload] \in SentRequests
         /\ \A x \in AnswersSent : x[1] # a
BY DEF SentRequests, AnswersSent, KeyOf

\* A step that only moves an attempt along, with no answer, is not seen.
LEMMA MovesAreUnseen ==
  ASSUME IInv, NEW a \in Attempts, NEW ph \in Phases \ {"idle", "created", "replayed"},
         attempt[a].phase \in {"begun", "claimed", "conflict"}, Finish(a, ph),
         record' = record
  PROVE  UNCHANGED Contract!contractVars
<1>1. /\ attempt'[a].phase = ph
      /\ \A b \in Attempts : /\ b # a => attempt'[b] = attempt[b]
                             /\ attempt'[b].key = attempt[b].key
                             /\ attempt'[b].payload = attempt[b].payload
                             /\ attempt'[b].answer = attempt[b].answer
  BY FinishFields DEF IInv, TypeOK
<1>2. SentRequests' = SentRequests
  BY <1>1, SameRequests
<1>3. AnswersSent' = AnswersSent
  BY <1>1, SameAnswers
<1>4. StoredAnswers' = StoredAnswers
  BY DEF StoredAnswers
<1> QED
  BY <1>2, <1>3, <1>4 DEF Contract!contractVars

\* Taking up a request is the contract's Ask.
LEMMA SendAsks ==
  ASSUME IInv, NEW a \in Attempts, NEW k \in Keys, NEW p \in Payloads, Send(a, k, p)
  PROVE  Contract!Ask(a, k, p)
<1>1. /\ attempt[a].phase = "idle"
      /\ attempt'[a].phase = "begun" /\ attempt'[a].key = k /\ attempt'[a].payload = p
      /\ \A b \in Attempts : b # a => attempt'[b] = attempt[b]
  BY DEF IInv, TypeOK, Send, Attempt, Phases
<1>2. \A q \in SentRequests : q.by # a
  BY <1>1 DEF SentRequests
<1>3. SentRequests' = SentRequests \cup {[by |-> a, key |-> k, payload |-> p]}
  BY <1>1 DEF SentRequests
<1>4. AnswersSent' = AnswersSent
  BY <1>1 DEF AnswersSent
<1>5. StoredAnswers' = StoredAnswers
  BY DEF StoredAnswers, Send
<1> QED
  BY <1>2, <1>3, <1>4, <1>5 DEF Contract!Ask

\* A commit is the contract's Perform: the key is held, so it has no record.
LEMMA CommitPerforms ==
  ASSUME IInv, NEW a \in Attempts, Commit(a)
  PROVE  Contract!Next
<1> DEFINE k == KeyOf(a)
           p == attempt[a].payload
           q == [by |-> a, key |-> k, payload |-> p]
           row == [payload |-> p, response |-> a, expired |-> FALSE]
<1>1. k \in Keys /\ p \in Payloads
  BY HasKey DEF Commit
<1>2. /\ attempt'[a].phase = "created" /\ attempt'[a].answer = a
      /\ \A b \in Attempts : /\ b # a => attempt'[b] = attempt[b]
                             /\ attempt'[b].key = attempt[b].key
                             /\ attempt'[b].payload = attempt[b].payload
  BY AnswerFields DEF Commit, IInv, TypeOK, Phases
<1>3. record[k] = None
  BY <1>1 DEF Commit, IInv, HolderIsClaimant, KeyOf
<1>4. /\ record'[k].response = a /\ record'[k].payload = p /\ record'[k] # None
      /\ \A j \in Keys : j # k => record'[j] = record[j]
  <2>1. row \in Record /\ row.response = a /\ row.payload = p
    BY <1>1 DEF Record
  <2>2. record'[k] = row /\ \A j \in Keys : j # k => record'[j] = record[j]
    BY <1>1 DEF Commit, IInv, TypeOK
  <2> HIDE DEF row
  <2> QED
    BY <2>1, <2>2
<1>5. q \in SentRequests /\ \A x \in AnswersSent : x[1] # a
  BY RequestIsMade DEF Commit
<1>6. \A e \in StoredAnswers : e.key # k
  BY <1>3 DEF StoredAnswers
<1>7. StoredAnswers' = StoredAnswers \cup {q}
  BY <1>1, <1>3, <1>4 DEF StoredAnswers
<1>8. AnswersSent' = AnswersSent \cup {<<a, a>>}
  BY <1>2 DEF AnswersSent, Commit
<1>9. SentRequests' = SentRequests
  BY <1>2, SameRequests DEF Commit
<1>10. Contract!Perform(q)
  BY <1>5, <1>6, <1>7, <1>8, <1>9 DEF Contract!Perform, Contract!Unanswered
<1> QED
  BY <1>5, <1>10 DEF Contract!Next

\* A replay is the contract's Repeat; a refusal is not seen.
LEMMA LookupRepeats ==
  ASSUME IInv, NEW a \in Attempts, Lookup(a)
  PROVE  [Contract!Next]_(Contract!contractVars)
<1>1. CASE Finish(a, "mismatch") \/ Finish(a, "expired")
  BY <1>1, MovesAreUnseen DEF Lookup, Phases
<1>2. CASE Matches(a) /\ Answer(a, "replayed", record[KeyOf(a)].response)
  <2> DEFINE k == KeyOf(a)
             q == [by |-> a, key |-> k, payload |-> attempt[a].payload]
             e == [by |-> record[k].response, key |-> k, payload |-> record[k].payload]
  <2>1. k \in Keys /\ record[k] # None /\ attempt[a].phase = "conflict"
    BY HasKey DEF Lookup
  <2>2. record[k].response \in Attempts
    BY <2>1 DEF IInv, TypeOK, Record
  <2>3. /\ attempt'[a].phase = "replayed" /\ attempt'[a].answer = record[k].response
        /\ \A b \in Attempts : /\ b # a => attempt'[b] = attempt[b]
                               /\ attempt'[b].key = attempt[b].key
                               /\ attempt'[b].payload = attempt[b].payload
    BY <1>2, <2>2, AnswerFields DEF IInv, TypeOK, Phases
  <2>4. q \in SentRequests /\ \A x \in AnswersSent : x[1] # a
    BY <2>1, RequestIsMade
  <2>5. e \in StoredAnswers
    BY <2>1 DEF StoredAnswers
  <2>6. AnswersSent' = AnswersSent \cup {<<a, record[k].response>>}
    BY <2>1, <2>3 DEF AnswersSent
  <2>7. SentRequests' = SentRequests
    BY <2>1, <2>3, SameRequests
  <2>8. StoredAnswers' = StoredAnswers
    BY DEF StoredAnswers, Lookup
  <2>9. q.payload = e.payload
    BY <1>2 DEF Matches, KeyOf
  <2>10. Contract!Repeat(q, e)
    BY <2>4, <2>6, <2>7, <2>8, <2>9 DEF Contract!Repeat, Contract!Unanswered
  <2> QED
    BY <2>4, <2>5, <2>10 DEF Contract!Next
<1> QED
  BY <1>1, <1>2 DEF Lookup

\* The passage of time is not seen.
LEMMA ExpiryIsUnseen ==
  ASSUME IInv, NEW k \in Keys, Expire(k)
  PROVE  UNCHANGED Contract!contractVars
<1>1. \A b \in Attempts : /\ attempt'[b].phase = attempt[b].phase
                          /\ attempt'[b].key = attempt[b].key
                          /\ attempt'[b].payload = attempt[b].payload
                          /\ attempt'[b].answer = attempt[b].answer
  <2> SUFFICES ASSUME NEW b \in Attempts
               PROVE  /\ attempt'[b].phase = attempt[b].phase
                      /\ attempt'[b].key = attempt[b].key
                      /\ attempt'[b].payload = attempt[b].payload
                      /\ attempt'[b].answer = attempt[b].answer
    OBVIOUS
  <2>1. attempt[b] \in Attempt
    BY DEF IInv, TypeOK
  <2>2. CASE attempt'[b] = attempt[b]
    BY <2>2
  <2>3. CASE attempt'[b] = [attempt[b] EXCEPT !.early = TRUE]
    BY <2>1, <2>3 DEF Attempt
  <2> QED
    BY <2>2, <2>3 DEF Expire
<1>2. \A j \in Keys : /\ (record'[j] = None) <=> (record[j] = None)
                      /\ record[j] # None => /\ record'[j].response = record[j].response
                                             /\ record'[j].payload = record[j].payload
  <2> DEFINE r == [record[k] EXCEPT !.expired = TRUE]
  <2>1. record[k] \in Record
    BY DEF IInv, TypeOK, Expire
  <2>2. r \in Record /\ r.response = record[k].response /\ r.payload = record[k].payload
    BY <2>1 DEF Record
  <2>3. record'[k] = r /\ \A j \in Keys : j # k => record'[j] = record[j]
    BY DEF IInv, TypeOK, Expire
  <2> HIDE DEF r
  <2> QED
    BY <2>1, <2>2, <2>3
<1>3. SentRequests' = SentRequests
  BY <1>1, SameRequests
<1>4. AnswersSent' = AnswersSent
  BY <1>1, SameAnswers
<1>5. StoredAnswers' = StoredAnswers
  BY <1>2 DEF StoredAnswers
<1> QED
  BY <1>3, <1>4, <1>5 DEF Contract!contractVars

\* The cleanup job is the contract's Forget.
LEMMA CleanupForgets ==
  ASSUME IInv, NEW K \in SUBSET Keys, CleanupExpired(K)
  PROVE  Contract!Next
<1> DEFINE S == {e \in StoredAnswers : e.key \in K}
<1>1. \A j \in Keys : record'[j] = IF j \in K THEN None ELSE record[j]
  BY DEF CleanupExpired
<1>2. StoredAnswers' = StoredAnswers \ S
  BY <1>1 DEF StoredAnswers
<1>3. SentRequests' = SentRequests /\ AnswersSent' = AnswersSent
  BY DEF SentRequests, AnswersSent, CleanupExpired
<1>4. Contract!Forget(S)
  BY <1>2, <1>3 DEF Contract!Forget
<1>5. S \in SUBSET StoredAnswers
  OBVIOUS
<1> QED
  BY <1>4, <1>5 DEF Contract!Next

\* The transactions, the unique index and the cleanup of Store.Begin, Complete
\* and CleanupExpired keep the idempotency contract.
THEOREM IdempotencyKept == Spec => ImplementsIdempotency
<1>1. Init => Contract!Init
  BY DEF Init, Idle, Contract!Init, SentRequests, StoredAnswers, AnswersSent
<1>2. ASSUME IInv, [Next]_vars PROVE [Contract!Next]_(Contract!contractVars)
  <2> USE <1>2
  <2>1. ASSUME NEW a \in Attempts, Handle(a) PROVE [Contract!Next]_(Contract!contractVars)
    <3>1. CASE Claim(a)
      BY <3>1, MovesAreUnseen DEF Claim, Phases
    <3>2. CASE Conflict(a)
      BY <3>2, MovesAreUnseen DEF Conflict, Phases
    <3>3. CASE Commit(a)
      BY <3>3, CommitPerforms
    <3>4. CASE Rollback(a)
      BY <3>4, MovesAreUnseen DEF Rollback, Phases
    <3>5. CASE Lookup(a)
      BY <3>5, LookupRepeats
    <3>6. CASE LookupGone(a)
      BY <3>6, MovesAreUnseen DEF LookupGone, Phases
    <3> QED
      BY <2>1, <3>1, <3>2, <3>3, <3>4, <3>5, <3>6 DEF Handle
  <2>2. ASSUME NEW a \in Attempts, NEW k \in Keys, NEW p \in Payloads, Send(a, k, p)
        PROVE  Contract!Next
    BY <2>2, SendAsks DEF Contract!Next
  <2>3. ASSUME NEW k \in Keys, Expire(k) PROVE UNCHANGED Contract!contractVars
    BY <2>3, ExpiryIsUnseen
  <2>4. ASSUME NEW K \in SUBSET Keys, CleanupExpired(K) PROVE Contract!Next
    BY <2>4, CleanupForgets
  <2>5. CASE UNCHANGED vars
    BY <2>5 DEF vars, Contract!contractVars, SentRequests, StoredAnswers, AnswersSent
  <2> QED
    BY <2>1, <2>2, <2>3, <2>4, <2>5 DEF Next
<1> QED
  BY <1>1, <1>2, IdempotencyInvariant, PTL DEF Spec, ImplementsIdempotency, Contract!Spec
=============================================================================
