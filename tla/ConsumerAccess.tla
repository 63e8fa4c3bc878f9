--------------------------- MODULE ConsumerAccess ---------------------------
(***************************************************************************)
(* The path of a consumer request through the middleware of any replica:   *)
(* RequireAPIKey reads the client, RequireAPIClientScope and               *)
(* EnforceAPIClientRateLimit decide with the copy it read, RecordAPIUsage  *)
(* counts the answer.  It composes the clients, the shared limiter and the *)
(* usage collectors; administrators and time interleave with every step.   *)
(***************************************************************************)
EXTENDS RateLimiter, UsageCollector, FiniteSets

CONSTANT Requests   \* bound: each stands for one request

VARIABLES
  request,    \* request[q]: where q is, and the principal in its context
  answered,   \* answered[c]: answers that usage should know of (history)
  recent      \* recent[c][i]: requests of c admitted in this tick and the i before it (history)

vars == <<clientVars, bucket, usageVars, request, answered, recent>>

Minute == 0 .. TicksPerMinute - 1

Open == {"arrived", "authenticated", "admitted"}

Request == [phase : Open \cup {"idle", "denied", "limited", "served", "lost"},
            replica : Replicas \cup {None}, token : Tokens \cup {None},
            client : Clients \cup {None}, rpm : Limits \cup {0}, allowed : BOOLEAN, late : BOOLEAN]

Idle == [phase |-> "idle", replica |-> None, token |-> None, client |-> None,
         rpm |-> 0, allowed |-> FALSE, late |-> FALSE]

AccessTypeOK ==
  /\ ClientsTypeOK
  /\ LimiterTypeOK
  /\ UsageTypeOK
  /\ request \in [Requests -> Request]
  /\ answered \in [Clients -> [requests : Nat, limited : Nat]]
  /\ recent \in [Clients -> [Minute -> Nat]]

Init ==
  /\ ClientsInit /\ LimiterInit /\ UsageInit
  /\ request = [q \in Requests |-> Idle]
  /\ answered = [c \in Clients |-> [requests |-> 0, limited |-> 0]]
  /\ recent = [c \in Clients |-> [i \in Minute |-> 0]]

\* A finished request is remembered by its end only.
Ended(q, phase) == [Idle EXCEPT !.phase = phase, !.late = request[q].late]

-----------------------------------------------------------------------------
(* The middleware chain *)

\* A request reaches replica p with the token in its header.
Arrive(q, p, t) ==
  /\ request[q] = Idle
  /\ request' = [request EXCEPT ![q] =
       [Idle EXCEPT !.phase = "arrived", !.replica = p, !.token = t, !.late = Dismissed(t)]]
  /\ UNCHANGED <<clientVars, bucket, usageVars, answered, recent>>

\* RequireAPIKey on the route of operation o: the principal is a copy of the
\* row, and whether its scopes allow o is settled by that copy.
Authenticate(q, c, o) ==
  /\ request[q].phase = "arrived"
  /\ Accepts(c, request[q].token)
  /\ request' = [request EXCEPT ![q] =
       [@ EXCEPT !.phase = "authenticated", !.token = None, !.client = c,
                 !.rpm = client[c].rpm, !.allowed = o \in client[c].scopes]]
  /\ UNCHANGED <<clientVars, bucket, usageVars, answered, recent>>

\* invalid_api_key.
RefuseKey(q) ==
  /\ request[q].phase = "arrived"
  /\ ~Alive(request[q].token)
  /\ request' = [request EXCEPT ![q] = Ended(q, "denied")]
  /\ UNCHANGED <<clientVars, bucket, usageVars, answered, recent>>

\* insufficient_scope, or rate_limiter_unavailable: the request ends before
\* the limiter and the collector hear of it.
TurnAway(q) ==
  /\ request[q].phase = "authenticated"
  /\ request' = [request EXCEPT ![q] = Ended(q, "denied")]
  /\ UNCHANGED <<clientVars, bucket, usageVars, answered, recent>>

AdmitRequest(q) ==
  LET r == request[q] IN
  /\ r.phase = "authenticated" /\ r.allowed
  /\ Admit(r.client, r.rpm)
  /\ recent' = [recent EXCEPT ![r.client] = [i \in Minute |-> @[i] + 1]]
  /\ request' = [request EXCEPT ![q].phase = "admitted"]
  /\ UNCHANGED <<clientVars, usageVars, answered>>

\* rate_limited: the refusal is recorded here, the handler is not reached.
LimitRequest(q) ==
  LET r == request[q] IN
  /\ r.phase = "authenticated" /\ r.allowed
  /\ Refuse(r.client, r.rpm)
  /\ Record(r.replica, r.client, TRUE)
  /\ answered' = [answered EXCEPT ![r.client].limited = @ + 1]
  /\ request' = [request EXCEPT ![q] = Ended(q, "limited")]
  /\ UNCHANGED <<clientVars, recent>>

\* The handler answers, whatever its status, and RecordAPIUsage counts it.
Serve(q) ==
  LET r == request[q] IN
  /\ r.phase = "admitted"
  /\ Record(r.replica, r.client, FALSE)
  /\ answered' = [answered EXCEPT ![r.client].requests = @ + 1]
  /\ request' = [request EXCEPT ![q] = Ended(q, "served")]
  /\ UNCHANGED <<clientVars, bucket, recent>>

RequestStep(q) ==
  \/ \E p \in Replicas, t \in Tokens : Arrive(q, p, t)
  \/ \E c \in Clients, o \in Operations : Authenticate(q, c, o)
  \/ RefuseKey(q) \/ TurnAway(q) \/ AdmitRequest(q) \/ LimitRequest(q) \/ Serve(q)

-----------------------------------------------------------------------------
(* Around it *)

Flush(p) ==
  /\ \/ Drain(p)
     \/ \E c \in Clients, ok \in BOOLEAN :
          \/ Touch(p, c, ok)
          \/ Upsert(p, c, ok)
  /\ UNCHANGED <<clientVars, bucket, request, answered, recent>>

\* The replica ends with its requests and its usage; the shared bucket stays.
Crash(p) ==
  /\ LoseUsage(p)
  /\ request' = [q \in Requests |-> IF request[q].replica = p THEN Ended(q, "lost") ELSE request[q]]
  /\ UNCHANGED <<clientVars, bucket, answered, recent>>

Manage == AdminStep /\ UNCHANGED <<bucket, usageVars, request, answered, recent>>

TimePasses ==
  /\ Tick
  /\ recent' = [c \in Clients |-> [i \in Minute |-> IF i = 0 THEN 0 ELSE recent[c][i - 1]]]
  /\ UNCHANGED <<bucket, usageVars, request, answered>>

ForgetBucket(c) ==
  /\ Forget(c)
  /\ UNCHANGED <<clientVars, usageVars, request, answered, recent>>

Next ==
  \/ \E q \in Requests : RequestStep(q)
  \/ \E p \in Replicas : Flush(p) \/ Crash(p)
  \/ Manage
  \/ TimePasses
  \/ \E c \in Clients : ForgetBucket(c)

Spec == Init /\ [][Next]_vars

-----------------------------------------------------------------------------
(* Properties *)

\* A request that arrives after its client was revoked or removed gets past
\* no check, on any replica ("Revogação vale na request seguinte em qualquer
\* réplica", api-client-policy.md).
RevocationTakesEffect ==
  \A q \in Requests : request[q].late =>
    request[q].phase \in {"arrived", "denied", "lost"}

\* The requests of c admitted in the minute that ends now.
InMinute(c) == recent[c][TicksPerMinute - 1]

Highest == {h \in Limits : \A l \in Limits : l <= h}

\* Whatever the replicas, the policy updates, the crashes and the expiry of
\* idle buckets do, a client is admitted in any minute at most what a full
\* bucket and its refill allow, under the highest limit in use.
WithinLimit ==
  \A c \in Clients, h \in Highest :
    InMinute(c) * TicksPerMinute <= Capacity(h) + (TicksPerMinute - 1) * h

\* One element for each event when replica p holds n[p] of them: the sum of n,
\* as the size of a set.
Events(n) == UNION {{p} \X (1 .. n[p]) : p \in Replicas}

\* The answers and the refusals of c that each replica has still to store.
UnstoredRequests(c) == [p \in Replicas |-> queue[p][c].requests + batch[p][c].requests]

UnstoredLimited(c) == [p \in Replicas |-> queue[p][c].limited + batch[p][c].limited]

\* Usage is never counted twice, although a batch is stored in several
\* statements and parts of it fail: what is stored and what is still on its
\* way never exceed what was answered.
NeverOvercounted ==
  \A c \in Clients :
    /\ counted[c].requests + Cardinality(Events(UnstoredRequests(c))) <= answered[c].requests
    /\ counted[c].limited + Cardinality(Events(UnstoredLimited(c))) <= answered[c].limited

=============================================================================
