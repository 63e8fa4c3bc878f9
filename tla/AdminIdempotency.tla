------------------------- MODULE AdminIdempotency --------------------------
(***************************************************************************)
(* Idempotent administrative mutations (internal/idempotency,              *)
(* httpapi/admin_idempotency.go and the handlers that create a tenant,     *)
(* provision or duplicate a resource, and create or rotate an API client). *)
(*                                                                         *)
(* A handler opens a transaction, claims the key, applies the mutation     *)
(* with its audit event, stores the encrypted answer and commits.  The     *)
(* unique index makes a second claim of the key wait until the first       *)
(* transaction ends.  Records expire and are removed in batches by the     *)
(* cleanup job.  A key stands for the whole scope of the unique index      *)
(* (actor, operation, Idempotency-Key); a payload for the fingerprint.     *)
(***************************************************************************)
EXTENDS Naturals, FiniteSets

CONSTANTS
  Attempts,   \* requests, retries included
  Keys,       \* actor, operation and Idempotency-Key
  Payloads,   \* request fingerprints
  None,
  MaxLives    \* bound: times a record is cleaned up

ASSUME IdempotencyAssumption ==
  /\ None \notin Attempts \cup Keys \cup Payloads
  /\ MaxLives \in Nat

VARIABLES
  attempt,   \* the progress of each request
  record,    \* admin_idempotency_records, committed rows
  holder,    \* per key, the transaction with an uncommitted row, or None
  effects,   \* history: committed mutations, with the life of the key they fell in
  life       \* history: how often the key's record was removed

vars == <<attempt, record, holder, effects, life>>

Phases == {"idle", "begun", "claimed", "conflict",
           "created", "replayed", "mismatch", "expired", "failed"}

Answered == {"created", "replayed", "mismatch", "expired", "failed"}

\* early: the request took its time stamp before the key's record expired.
\* answer: the attempt whose response was sent.
Attempt == [phase : Phases, key : Keys \cup {None}, payload : Payloads \cup {None},
            early : BOOLEAN, answer : Attempts \cup {None}]

Record == [payload : Payloads, response : Attempts, expired : BOOLEAN]

ASSUME NoneIsNoRecord == None \notin Record

Effect == [by : Attempts, key : Keys, payload : Payloads, life : Nat]

Idle == [phase |-> "idle", key |-> None, payload |-> None, early |-> FALSE, answer |-> None]

TypeOK ==
  /\ attempt \in [Attempts -> Attempt]
  /\ record \in [Keys -> Record \cup {None}]
  /\ holder \in [Keys -> Attempts \cup {None}]
  /\ effects \in SUBSET Effect
  /\ life \in [Keys -> Nat]

Init ==
  /\ attempt = [a \in Attempts |-> Idle]
  /\ record = [k \in Keys |-> None]
  /\ holder = [k \in Keys |-> None]
  /\ effects = {}
  /\ life = [k \in Keys |-> 0]

-----------------------------------------------------------------------------
KeyOf(a) == attempt[a].key

Finish(a, phase) == attempt' = [attempt EXCEPT ![a].phase = phase]

\* The response of attempt b is sent to a.
Answer(a, phase, b) ==
  attempt' = [attempt EXCEPT ![a] = [phase |-> phase, key |-> attempt[a].key,
                                     payload |-> attempt[a].payload,
                                     early |-> attempt[a].early, answer |-> b]]

\* prepareAdminIdempotency, and Begin up to the reading of the clock.
Send(a, k, p) ==
  /\ attempt[a].phase = "idle"
  /\ attempt' = [attempt EXCEPT ![a] = [phase |-> "begun", key |-> k, payload |-> p,
                                        early |-> FALSE, answer |-> None]]
  /\ UNCHANGED <<record, holder, effects, life>>

\* Mutant: the insert does not wait for the transaction that holds the key.
InsertableAtOnce(k) == record[k] = None

\* The unique index lets the row in when the key has neither a committed row
\* nor an uncommitted one; in the latter case the statement waits.
Insertable(k) == record[k] = None /\ holder[k] = None

\* INSERT ... ON CONFLICT DO NOTHING, one row.
Claim(a) ==
  /\ attempt[a].phase = "begun"
  /\ Insertable(KeyOf(a))
  /\ holder' = [holder EXCEPT ![KeyOf(a)] = a]
  /\ Finish(a, "claimed")
  /\ UNCHANGED <<record, effects, life>>

\* INSERT ... ON CONFLICT DO NOTHING, no row.
Conflict(a) ==
  /\ attempt[a].phase = "begun"
  /\ record[KeyOf(a)] # None
  /\ Finish(a, "conflict")
  /\ UNCHANGED <<record, holder, effects, life>>

\* The mutation, its audit event and Complete, committed together.
Commit(a) ==
  /\ attempt[a].phase = "claimed"
  /\ record' = [record EXCEPT ![KeyOf(a)] =
       [payload |-> attempt[a].payload, response |-> a, expired |-> FALSE]]
  /\ holder' = [holder EXCEPT ![KeyOf(a)] = None]
  /\ effects' = effects \cup {[by |-> a, key |-> KeyOf(a), payload |-> attempt[a].payload,
                               life |-> life[KeyOf(a)]]}
  /\ Answer(a, "created", a)
  /\ UNCHANGED life

\* Mutant: the claim outlives a mutation that failed.
RollbackKeepsClaim(a) ==
  /\ attempt[a].phase = "claimed"
  /\ Finish(a, "failed")
  /\ UNCHANGED <<record, holder, effects, life>>

\* The mutation is refused, or the process or the connection is lost: the
\* claim goes with the transaction.
Rollback(a) ==
  /\ attempt[a].phase = "claimed"
  /\ holder' = [holder EXCEPT ![KeyOf(a)] = None]
  /\ Finish(a, "failed")
  /\ UNCHANGED <<record, effects, life>>

\* Mutant: the stored answer is returned whatever the payload.
MatchesAny(a) == TRUE

Matches(a) == record[KeyOf(a)].payload = attempt[a].payload

\* expires_at is compared with the time read before the insert.
Outdated(a) == record[KeyOf(a)].expired /\ ~attempt[a].early

\* SELECT ... FOR UPDATE after a conflict, and the checks in their order.
Lookup(a) ==
  /\ attempt[a].phase = "conflict"
  /\ record[KeyOf(a)] # None
  /\ \/ ~Matches(a) /\ Finish(a, "mismatch")
     \/ Matches(a) /\ Outdated(a) /\ Finish(a, "expired")
     \/ Matches(a) /\ ~Outdated(a) /\ Answer(a, "replayed", record[KeyOf(a)].response)
  /\ UNCHANGED <<record, holder, effects, life>>

\* The record was cleaned up between the insert and the select: no row, 500.
LookupGone(a) ==
  /\ attempt[a].phase = "conflict"
  /\ record[KeyOf(a)] = None
  /\ Finish(a, "failed")
  /\ UNCHANGED <<record, holder, effects, life>>

\* Time passes the record's expires_at; requests under way read the clock before.
Expire(k) ==
  /\ record[k] # None /\ ~record[k].expired
  /\ record' = [record EXCEPT ![k].expired = TRUE]
  /\ attempt' = [a \in Attempts |->
       IF attempt[a].key = k /\ attempt[a].phase \in {"begun", "conflict"}
       THEN [attempt[a] EXCEPT !.early = TRUE] ELSE attempt[a]]
  /\ UNCHANGED <<holder, effects, life>>

Removable(k) == record[k] # None /\ record[k].expired

\* CleanupExpired removes any batch of expired records (LIMIT, SKIP LOCKED).
CleanupExpired(K) ==
  /\ K # {}
  /\ \A k \in K : Removable(k) /\ life[k] < MaxLives
  /\ record' = [k \in Keys |-> IF k \in K THEN None ELSE record[k]]
  /\ life' = [k \in Keys |-> IF k \in K THEN life[k] + 1 ELSE life[k]]
  /\ UNCHANGED <<attempt, holder, effects>>

Handle(a) == Claim(a) \/ Conflict(a) \/ Commit(a) \/ Rollback(a) \/ Lookup(a) \/ LookupGone(a)

Next ==
  \/ \E a \in Attempts : Handle(a) \/ \E k \in Keys, p \in Payloads : Send(a, k, p)
  \/ \E k \in Keys : Expire(k)
  \/ \E K \in SUBSET Keys : CleanupExpired(K)

Spec == Init /\ [][Next]_vars

\* Every handler's request runs to its end: it is never left waiting for good.
FairSpec == Spec /\ \A a \in Attempts : WF_vars(Handle(a))

-----------------------------------------------------------------------------
(* Properties *)

\* Within the life of a key's record at most one attempt applies the mutation,
\* however many retries run at once, fail, crash or find the key held: what the
\* Idempotency-Key promises for create tenant, provision, create and rotate.
AtMostOncePerLife ==
  \A e, f \in effects : (e.key = f.key /\ e.life = f.life) => e = f

\* A replayed answer is the answer of an attempt with the same key and payload
\* whose mutation is committed, never that of one that rolled back.
ReplayIsOriginal ==
  \A a \in Attempts : attempt[a].phase = "replayed" =>
    \E e \in effects : /\ e.by = attempt[a].answer
                       /\ e.key = attempt[a].key
                       /\ e.payload = attempt[a].payload

\* A record is removed, and its key made usable again, only once it has
\* expired: until then a retry finds it.
StoredUntilExpiredStep ==
  \A k \in Keys : (record[k] # None /\ ~record[k].expired) => record'[k] # None

StoredUntilExpired == [][StoredUntilExpiredStep]_vars

\* Every request is answered: none waits for ever for a key whose holder ended.
EveryAttemptAnswered ==
  \A a \in Attempts : (attempt[a].phase = "begun") ~> (attempt[a].phase \in Answered)

-----------------------------------------------------------------------------
(* Refinement *)

\* The requests sent, the mutations whose records are committed, and whose
\* answer each request was sent.
SentRequests ==
  {[by |-> a, key |-> attempt[a].key, payload |-> attempt[a].payload] :
     a \in {b \in Attempts : attempt[b].phase # "idle"}}

StoredAnswers ==
  {[by |-> record[k].response, key |-> k, payload |-> record[k].payload] :
     k \in {j \in Keys : record[j] # None}}

AnswersSent ==
  {<<a, attempt[a].answer>> : a \in {b \in Attempts : attempt[b].phase \in {"created", "replayed"}}}

Contract == INSTANCE IdempotencyContract
  WITH Requests <- Attempts, asked <- SentRequests, remembered <- StoredAnswers, answers <- AnswersSent

\* Transactions that claim a key, wait for one, fail or crash, and records that
\* expire and are cleaned up meanwhile, implement the idempotency contract: a
\* mutation is applied only for a key without a record, and an answer is
\* repeated only for a request with the same key and the same payload.
ImplementsIdempotency == Contract!Spec

-----------------------------------------------------------------------------
(* The inductive invariant *)

\* A key is held exactly by the attempt that is inside its transaction, and
\* then no row is committed.
HolderIsClaimant ==
  /\ \A a \in Attempts : attempt[a].phase = "claimed" =>
       attempt[a].key \in Keys /\ holder[attempt[a].key] = a
  /\ \A k \in Keys : holder[k] # None =>
       /\ record[k] = None
       /\ attempt[holder[k]].phase = "claimed"
       /\ attempt[holder[k]].key = k

\* Attempts past "idle" have a key and a payload.
AttemptsHaveKeys ==
  \A a \in Attempts : attempt[a].phase # "idle" =>
    attempt[a].key \in Keys /\ attempt[a].payload \in Payloads

\* A committed row is the trace of the mutation of the present life.
RecordIsEffect ==
  \A k \in Keys : record[k] # None =>
    [by |-> record[k].response, key |-> k, payload |-> record[k].payload,
     life |-> life[k]] \in effects

\* Mutations of the present life left a row, and none is from a later life.
EffectIsRecorded ==
  \A e \in effects : e.life <= life[e.key] /\ (e.life = life[e.key] => record[e.key] # None)

IInv == TypeOK /\ HolderIsClaimant /\ AttemptsHaveKeys /\ RecordIsEffect /\ EffectIsRecorded
        /\ AtMostOncePerLife /\ ReplayIsOriginal
=============================================================================
