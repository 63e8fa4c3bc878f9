-------------------------- MODULE ApiClientsProofs --------------------------
(***************************************************************************)
(* A credential that stopped working never works again, but for a client   *)
(* that expires between the check and the commit of an update of its own,  *)
(* for any number of clients, tokens and operations and any lengths of     *)
(* policies and graces.  The argument needs that a replaced token is only  *)
(* kept for a client that exists, so that a new client inherits none, and  *)
(* that an open update found its client unexpired.  On top of it, the path of *)
(* a request: a request that arrives late gets past no check, last_used_at *)
(* never goes back, and no minute admits more than the shared bucket       *)
(* allows, whoever calls it with which limit and whenever its key expires. *)
(***************************************************************************)
EXTENDS ConsumerAccess, FiniteSetTheorems, TLAPS

\* An update is open only for a client that it found active and unexpired, and
\* the lock keeps it so.
UpdatesInTime ==
  \A c \in Clients : checked[c] # 0 =>
    client[c].status = "active" /\ checked[c] < client[c].expires

ClientsInv == ClientsTypeOK /\ ClientsHaveTokens /\ PreviousHaveClients /\ UpdatesInTime

\* Initially there is no client and no token.
LEMMA ClientsInitInv == ClientsInit => ClientsInv
  BY PolicyAssumption DEF ClientsInit, ClientsInv, ClientsTypeOK, ClientsHaveTokens, PreviousHaveClients, Row,
                          UpdatesInTime, Blank, Exists

\* Every handler and every tick preserves the types and the owners of the
\* replaced tokens.
LEMMA ClientsStepInv == ClientsInv /\ [ClientsNext]_clientVars => ClientsInv'
  <1> SUFFICES ASSUME ClientsInv, [ClientsNext]_clientVars PROVE ClientsInv'
    OBVIOUS
  <1> USE PolicyAssumption DEF ClientsInv, ClientsTypeOK, ClientsHaveTokens, PreviousHaveClients, Exists,
                               UpdatesInTime
  <1>1. ASSUME NEW c \in Clients, NEW t \in Tokens, NEW p \in Policies,
               CreateAPIClient(c, t, p[1], p[2], p[3])
        PROVE  ClientsInv'
    BY <1>1 DEF CreateAPIClient, Granted, Row, Policies
  <1>8. ASSUME NEW c \in Clients, UpdateAPIClient(c) \/ RollBackUpdate(c) PROVE ClientsInv'
    BY <1>8 DEF UpdateAPIClient, RollBackUpdate, Editable
  <1>2. ASSUME NEW c \in Clients, NEW p \in Policies, CommitUpdate(c, p[1], p[2], p[3])
        PROVE  ClientsInv'
    <2>1. WithPolicy(client[c], p[1], p[2], p[3]) \in Row
      BY <1>2 DEF WithPolicy, Row, Policies
    <2>2. client' = [client EXCEPT ![c] = WithPolicy(client[c], p[1], p[2], p[3])]
      BY <1>2 DEF CommitUpdate
    <2>3. client' \in [Clients -> Row]
      BY <2>1, <2>2
    <2>4. \A d \in Clients : client'[d].status = client[d].status /\ client'[d].token = client[d].token
      BY <2>2 DEF WithPolicy
    <2>5. \A d \in Clients : checked'[d] # 0 => d # c /\ client'[d] = client[d] /\ checked'[d] = checked[d]
      BY <1>2, <2>2 DEF CommitUpdate
    <2>6. checked' \in [Clients -> 0 .. MaxNow]
      BY <1>2 DEF CommitUpdate
    <2>7. UpdatesInTime'
      BY <2>5
    <2> QED
      BY <1>2, <2>3, <2>4, <2>6, <2>7 DEF CommitUpdate
  <1>3. ASSUME NEW c \in Clients, NEW t \in Tokens, NEW g \in 0 .. MaxGrace,
               RotateAPIClient(c, t, g)
        PROVE  ClientsInv'
    <2>1. client' = [client EXCEPT ![c] = WithToken(client[c], t)]
      BY <1>3 DEF RotateAPIClient
    <2>2. WithToken(client[c], t) \in Row
      BY DEF WithToken, Row
    <2>3. client' \in [Clients -> Row]
      BY <2>1, <2>2
    <2>4. \A d \in Clients : /\ client'[d].status = client[d].status /\ client'[d].expires = client[d].expires
                             /\ client'[d].token = IF d = c THEN t ELSE client[d].token
      BY <2>1 DEF WithToken
    <2>5. client[c].token \in Tokens
      BY <1>3 DEF RotateAPIClient
    <2>6. owner' \in [Tokens -> Clients \cup {None}]
      BY <1>3 DEF RotateAPIClient, Granted
    <2>7. /\ \A p \in previous' : p.client \in Clients /\ p.token \in Tokens /\ p.until \in Nat
          /\ \A p \in previous' : Exists(p.client)
      <3>1. CASE g = 0
        BY <1>3, <3>1 DEF RotateAPIClient
      <3>2. CASE g # 0
        <4>1. previous' = previous \cup {[client |-> c, token |-> client[c].token, until |-> now + g]}
          BY <1>3, <3>2 DEF RotateAPIClient
        <4> QED
          BY <1>3, <2>5, <4>1 DEF RotateAPIClient
      <3> QED
        BY <3>1, <3>2
    <2> QED
      BY <1>3, <2>3, <2>4, <2>6, <2>7 DEF RotateAPIClient
  <1>4. ASSUME NEW c \in Clients, RevokeAPIClient(c) PROVE ClientsInv'
    <2>1. \A d \in Clients : /\ client'[d].token = client[d].token /\ client'[d].expires = client[d].expires
                             /\ client'[d].status = IF d = c THEN "revoked" ELSE client[d].status
      BY <1>4 DEF RevokeAPIClient, Row
    <2>2. client' \in [Clients -> Row]
      BY <1>4 DEF RevokeAPIClient, Row
    <2>3. UpdatesInTime'
      BY <1>4, <2>1 DEF RevokeAPIClient, RowFree
    <2> QED
      BY <1>4, <2>1, <2>2, <2>3 DEF RevokeAPIClient
  <1>5. ASSUME NEW c \in Clients, DeleteAPIClient(c) PROVE ClientsInv'
    BY <1>5 DEF DeleteAPIClient, Row, Blank
  <1>6. ASSUME Tick PROVE ClientsInv'
    BY <1>6 DEF Tick
  <1>7. CASE UNCHANGED clientVars
    BY <1>7 DEF clientVars
  <1> QED
    BY <1>1, <1>2, <1>3, <1>4, <1>5, <1>6, <1>7, <1>8 DEF ClientsNext, AdminStep

\* The clients and their tokens are well formed in every reachable state.
THEOREM ClientsInvariant == ClientsSpec => []ClientsInv
  BY ClientsInitInv, ClientsStepInv, PTL DEF ClientsSpec

-----------------------------------------------------------------------------
(* Who holds which token.  A token can only match the client it was issued  *)
(* to, so an update can only bring back a token of the client it is about,  *)
(* and a late request is stopped because that client stays dismissed.       *)

OwnersAgree ==
  /\ \A c \in Clients : Exists(c) => owner[client[c].token] = c
  /\ \A p \in previous : owner[p.token] = p.client

\* Tokens are issued once, so the owner of a token in use never changes.
LEMMA OwnersStep == ClientsInv /\ OwnersAgree /\ [ClientsNext]_clientVars => OwnersAgree'
  <1> SUFFICES ASSUME ClientsInv, OwnersAgree, [ClientsNext]_clientVars PROVE OwnersAgree'
    OBVIOUS
  <1> USE PolicyAssumption DEF ClientsInv, ClientsTypeOK, ClientsHaveTokens, PreviousHaveClients, Exists
  <1>1. ASSUME NEW c \in Clients, NEW t \in Tokens, NEW p \in Policies,
               CreateAPIClient(c, t, p[1], p[2], p[3])
        PROVE  OwnersAgree'
    BY <1>1 DEF CreateAPIClient, Granted, Fresh, OwnersAgree
  <1>2. ASSUME NEW c \in Clients, NEW p \in Policies, CommitUpdate(c, p[1], p[2], p[3])
        PROVE  OwnersAgree'
    <2>1. \A d \in Clients : client'[d].status = client[d].status /\ client'[d].token = client[d].token
      BY <1>2 DEF CommitUpdate, WithPolicy
    <2> QED
      BY <1>2, <2>1 DEF CommitUpdate, OwnersAgree
  <1>7. ASSUME NEW c \in Clients, UpdateAPIClient(c) \/ RollBackUpdate(c) PROVE OwnersAgree'
    BY <1>7 DEF UpdateAPIClient, RollBackUpdate, OwnersAgree
  <1>3. ASSUME NEW c \in Clients, NEW t \in Tokens, NEW g \in 0 .. MaxGrace,
               RotateAPIClient(c, t, g)
        PROVE  OwnersAgree'
    <2>1. \A d \in Clients : /\ client'[d].status = client[d].status
                             /\ client'[d].token = IF d = c THEN t ELSE client[d].token
      BY <1>3 DEF RotateAPIClient, WithToken
    <2>2. owner[t] = None /\ owner' = [owner EXCEPT ![t] = c] /\ owner[client[c].token] = c
      BY <1>3 DEF RotateAPIClient, Fresh, Granted, OwnersAgree
    <2>3. \A p \in previous' : p \in previous \/ (p.client = c /\ p.token = client[c].token)
      BY <1>3 DEF RotateAPIClient
    <2>4. client[c].token \in Tokens
      BY <1>3 DEF RotateAPIClient
    <2>5. \A p \in previous' : owner'[p.token] = p.client
      BY <2>2, <2>3, <2>4 DEF OwnersAgree
    <2>6. \A d \in Clients : Exists(d)' => owner'[client'[d].token] = d
      BY <2>1, <2>2 DEF OwnersAgree
    <2> QED
      BY <2>5, <2>6 DEF OwnersAgree
  <1>4. ASSUME NEW c \in Clients, RevokeAPIClient(c) PROVE OwnersAgree'
    BY <1>4 DEF RevokeAPIClient, Row, OwnersAgree
  <1>5. ASSUME NEW c \in Clients, DeleteAPIClient(c) PROVE OwnersAgree'
    BY <1>5 DEF DeleteAPIClient, Blank, OwnersAgree
  <1>6. CASE Tick \/ UNCHANGED clientVars
    BY <1>6 DEF Tick, clientVars, OwnersAgree
  <1> QED
    BY <1>1, <1>2, <1>3, <1>4, <1>5, <1>6, <1>7 DEF ClientsNext, AdminStep

\* No step brings back a token that is not accepted.
LEMMA NoRevival == ClientsInv /\ OwnersAgree /\ [ClientsNext]_clientVars => DieForGood
  <1> SUFFICES ASSUME ClientsInv, OwnersAgree, [ClientsNext]_clientVars,
                      NEW t \in Tokens, owner[t] # None,
                      Matches(owner[t], t) => ~DecidedInTime(owner[t]),
                      NEW d \in Clients, Accepts(d, t)'
               PROVE  \E e \in Clients : Accepts(e, t)
    BY DEF DieForGood, Alive
  <1>0. /\ client'[d].status = "active" /\ now' < client'[d].expires
        /\ \/ client'[d].token = t
           \/ \E p \in previous' : p.client = d /\ p.token = t /\ p.until > now'
    BY DEF Accepts, Matches
  <1> USE PolicyAssumption DEF ClientsInv, ClientsTypeOK, ClientsHaveTokens, PreviousHaveClients,
          Accepts, Matches, Exists
  <1>1. ASSUME NEW c \in Clients, NEW k \in Tokens, NEW p \in Policies,
               CreateAPIClient(c, k, p[1], p[2], p[3])
        PROVE  Accepts(d, t)
    <2>1. k # t
      BY <1>1 DEF CreateAPIClient, Fresh
    <2>2. CASE d = c
      <3>1. client[c].status = "none" /\ client'[c].token = k /\ previous' = previous
        BY <1>1 DEF CreateAPIClient
      <3> QED
        BY <1>0, <2>1, <2>2, <3>1
    <2>3. CASE d # c
      <3>1. client'[d] = client[d] /\ previous' = previous /\ now' = now
        BY <1>1, <2>3 DEF CreateAPIClient
      <3> QED
        BY <1>0, <3>1
    <2> QED
      BY <2>2, <2>3
  <1>8. ASSUME NEW c \in Clients, UpdateAPIClient(c) \/ RollBackUpdate(c) PROVE Accepts(d, t)
    BY <1>0, <1>8 DEF UpdateAPIClient, RollBackUpdate
  <1>2. ASSUME NEW c \in Clients, NEW p \in Policies, CommitUpdate(c, p[1], p[2], p[3])
        PROVE  Accepts(d, t)
    <2>1. /\ client'[d].token = client[d].token /\ client'[d].status = client[d].status
          /\ previous' = previous /\ now' = now
      BY <1>2 DEF CommitUpdate, WithPolicy
    <2>2. Matches(d, t) /\ client[d].status = "active"
      BY <1>0, <2>1
    <2>3. owner[t] = d
      BY <2>2 DEF OwnersAgree
    <2>4. d # c
      BY <1>2, <2>2, <2>3 DEF CommitUpdate, RowFree, DecidedInTime, UpdatesInTime
    <2>5. client'[d] = client[d]
      BY <1>2, <2>4 DEF CommitUpdate
    <2> QED
      BY <1>0, <2>1, <2>2, <2>5
  <1>3. ASSUME NEW c \in Clients, NEW k \in Tokens, NEW g \in 0 .. MaxGrace,
               RotateAPIClient(c, k, g)
        PROVE  Accepts(d, t)
    <2>1. k # t
      BY <1>3 DEF RotateAPIClient, Fresh
    <2>2. /\ client'[d].status = client[d].status /\ client'[d].expires = client[d].expires
          /\ client'[d].token = IF d = c THEN k ELSE client[d].token
          /\ now' = now
      BY <1>3 DEF RotateAPIClient, WithToken
    <2>3. \A p \in previous' : \/ p \in previous
                               \/ p.client = c /\ p.token = client[c].token
      BY <1>3 DEF RotateAPIClient
    <2>4. CASE client'[d].token = t
      BY <1>0, <2>1, <2>2, <2>4
    <2>5. CASE \E p \in previous' : p.client = d /\ p.token = t /\ p.until > now'
      BY <1>0, <2>2, <2>3, <2>5
    <2> QED
      BY <1>0, <2>4, <2>5
  <1>4. ASSUME NEW c \in Clients, RevokeAPIClient(c) PROVE Accepts(d, t)
    <2>1. d # c
      BY <1>0, <1>4 DEF RevokeAPIClient
    <2> QED
      BY <1>0, <1>4, <2>1 DEF RevokeAPIClient
  <1>5. ASSUME NEW c \in Clients, DeleteAPIClient(c) PROVE Accepts(d, t)
    <2>1. d # c
      BY <1>0, <1>5 DEF DeleteAPIClient, Blank
    <2> QED
      BY <1>0, <1>5, <2>1 DEF DeleteAPIClient
  <1>6. ASSUME Tick PROVE Accepts(d, t)
    <2>1. client' = client /\ previous' = previous /\ now' = now + 1
      BY <1>6 DEF Tick
    <2>2. now \in Nat /\ client[d].expires \in Nat
      BY DEF Row
    <2>3. now < client[d].expires
      BY <1>0, <2>1, <2>2
    <2>4. \A p \in previous : p.until > now' => p.until > now
      BY <2>1, <2>2
    <2> QED
      BY <1>0, <2>1, <2>3, <2>4
  <1>7. CASE UNCHANGED clientVars
    BY <1>0, <1>7 DEF clientVars
  <1> QED
    BY <1>1, <1>2, <1>3, <1>4, <1>5, <1>6, <1>7, <1>8 DEF ClientsNext, AdminStep

\* A token that stopped being accepted by RequireAPIKey is never accepted
\* again, for all clients, tokens, policies and grace periods, unless its
\* client expired while an update of it was open.
THEOREM CredentialsDieForGood == ClientsSpec => TokensDieForGood
  <1>1. ClientsInit => OwnersAgree
    BY DEF ClientsInit, OwnersAgree, Exists, Blank
  <1>2. ClientsInv /\ OwnersAgree /\ [ClientsNext]_clientVars => OwnersAgree'
    BY OwnersStep
  <1>3. ClientsSpec => []ClientsInv
    BY ClientsInvariant
  <1>4. ClientsInv /\ OwnersAgree /\ [ClientsNext]_clientVars => DieForGood
    BY NoRevival
  <1> QED
    BY <1>1, <1>2, <1>3, <1>4, PTL DEF ClientsSpec, TokensDieForGood

\* A client that was revoked or deleted stays so.
LEMMA DismissedForGood ==
  ASSUME ClientsInv, [ClientsNext]_clientVars, NEW t \in Tokens, Dismissed(t)
  PROVE  Dismissed(t)'
  <1> USE PolicyAssumption DEF ClientsInv, ClientsTypeOK
  <1> DEFINE c == owner[t]
  <1>1. c \in Clients /\ client[c].status \in {"revoked", "deleted"}
    BY DEF Dismissed
  <1>2. owner'[t] = c
    BY <1>1 DEF Dismissed, ClientsNext, AdminStep, CreateAPIClient, UpdateAPIClient, CommitUpdate,
                RollBackUpdate, RotateAPIClient,
                RevokeAPIClient, DeleteAPIClient, Tick, clientVars, Fresh, Granted
  <1> HIDE DEF c
  <1>3. client'[c].status \in {"revoked", "deleted"}
    <2>1. ASSUME NEW d \in Clients, NEW k \in Tokens, NEW p \in Policies, CreateAPIClient(d, k, p[1], p[2], p[3])
          PROVE  client'[c] = client[c]
      BY <1>1, <2>1 DEF CreateAPIClient
    <2>2. ASSUME NEW d \in Clients, NEW p \in Policies, CommitUpdate(d, p[1], p[2], p[3])
          PROVE  client'[c] = client[c]
      BY <1>1, <2>2 DEF CommitUpdate
    <2>7. ASSUME NEW d \in Clients, UpdateAPIClient(d) \/ RollBackUpdate(d) PROVE client'[c] = client[c]
      BY <2>7 DEF UpdateAPIClient, RollBackUpdate
    <2>3. ASSUME NEW d \in Clients, NEW k \in Tokens, NEW g \in 0 .. MaxGrace, RotateAPIClient(d, k, g)
          PROVE  client'[c] = client[c]
      BY <1>1, <2>3 DEF RotateAPIClient
    <2>4. ASSUME NEW d \in Clients, RevokeAPIClient(d) PROVE client'[c].status \in {"revoked", "deleted"}
      BY <1>1, <2>4 DEF RevokeAPIClient, Row
    <2>5. ASSUME NEW d \in Clients, DeleteAPIClient(d) PROVE client'[c].status \in {"revoked", "deleted"}
      BY <1>1, <2>5 DEF DeleteAPIClient, Blank
    <2>6. ASSUME Tick \/ UNCHANGED clientVars PROVE client'[c] = client[c]
      BY <2>6 DEF Tick, clientVars
    <2> QED
      BY <1>1, <2>1, <2>2, <2>3, <2>4, <2>5, <2>6, <2>7 DEF ClientsNext, AdminStep
  <1> QED
    BY <1>1, <1>2, <1>3 DEF Dismissed

\* The middleware, the limiter and the usage collectors change no client: the
\* whole path implements the specification of the clients.
THEOREM ClientsRefined == Spec => ClientsSpec
  <1>1. Init => ClientsInit
    BY DEF Init
  <1>2. [Next]_vars => [ClientsNext]_clientVars
    BY DEF Next, RequestStep, Arrive, Authenticate, RefuseKey, TurnAway, AdmitRequest, LimitRequest,
           Serve, Flush, Crash, Manage, TimePasses, ForgetBucket, Tick, LoseUsage, vars, ClientsNext
  <1> QED
    BY <1>1, <1>2, PTL DEF Spec, ClientsSpec
-----------------------------------------------------------------------------
(* The whole path of a request *)

\* What a late request carries belongs to a client that was dismissed.
LateIsDismissed ==
  \A q \in Requests : request[q].late =>
    /\ request[q].phase \in {"arrived", "denied", "lost"}
    /\ request[q].phase = "arrived" => request[q].token \in Tokens /\ Dismissed(request[q].token)

\* A bucket was filled at an instant that has come.
BucketsInv ==
  /\ bucket = [c \in Clients |-> bucket[c]]
  /\ LimiterTypeOK
  /\ \A c \in Clients : bucket[c] # None => bucket[c].at <= now

AccessInv ==
  /\ ClientsInv /\ OwnersAgree
  /\ BucketsInv
  /\ UsageTypeOK
  /\ request \in [Requests -> Request]
  /\ LateIsDismissed
  /\ answered \in [Clients -> [requests : Nat, limited : Nat]]
  /\ recent \in [Clients -> [Minute -> Nat]]

\* A token that is accepted belongs to a client that was not dismissed.
LEMMA AcceptedIsOwned ==
  ASSUME ClientsInv, OwnersAgree, NEW c \in Clients, NEW t \in Tokens, Accepts(c, t)
  PROVE  ~Dismissed(t)
  <1>1. owner[t] = c /\ client[c].status = "active"
    BY DEF Accepts, Matches, OwnersAgree
  <1> QED
    BY <1>1 DEF Dismissed

\* One request moves to a record that carries nothing late, or what it carried.
LEMMA RequestMoves ==
  ASSUME request \in [Requests -> Request], LateIsDismissed, UNCHANGED clientVars,
         NEW q \in Requests, NEW r \in Request, request' = [request EXCEPT ![q] = r],
         r.late => /\ r.phase \in {"arrived", "denied", "lost"}
                   /\ r.phase = "arrived" => r.token \in Tokens /\ Dismissed(r.token)
  PROVE  request' \in [Requests -> Request] /\ LateIsDismissed'
  <1>1. \A t : Dismissed(t)' <=> Dismissed(t)
    BY DEF clientVars, Dismissed
  <1>2. \A p \in Requests : request'[p] = IF p = q THEN r ELSE request[p]
    OBVIOUS
  <1> QED
    BY <1>1, <1>2 DEF LateIsDismissed

\* What is left of a request that ended.
LEMMA EndedRequest ==
  ASSUME request \in [Requests -> Request], NEW q \in Requests,
         NEW phase \in {"denied", "limited", "served", "lost"}
  PROVE  /\ Ended(q, phase) \in Request /\ Ended(q, phase).phase = phase
         /\ Ended(q, phase).late = request[q].late
  BY DEF Ended, Idle, Request

\* The requests, in their own steps.
LEMMA RequestsStep ==
  ASSUME AccessInv, NEW q \in Requests, RequestStep(q)
  PROVE  request' \in [Requests -> Request] /\ LateIsDismissed'
  <1> USE DEF AccessInv
  <1> DEFINE r == request[q]
  <1>0. r \in Request
    OBVIOUS
  <1>1. ASSUME NEW p \in Replicas, NEW t \in Tokens, Arrive(q, p, t)
        PROVE  request' \in [Requests -> Request] /\ LateIsDismissed'
    <2> DEFINE n == [Idle EXCEPT !.phase = "arrived", !.replica = p, !.token = t, !.late = Dismissed(t)]
    <2>0. Dismissed(t) \in BOOLEAN
      BY DEF Dismissed
    <2>1. n \in Request /\ n.phase = "arrived" /\ n.token = t /\ (n.late <=> Dismissed(t))
      BY <2>0 DEF Idle, Request, Open
    <2>2. request' = [request EXCEPT ![q] = n] /\ UNCHANGED clientVars
      BY <1>1 DEF Arrive
    <2> HIDE DEF n
    <2> QED
      BY <2>1, <2>2, RequestMoves
  <1>2. ASSUME NEW c \in Clients, NEW o \in Operations, Authenticate(q, c, o)
        PROVE  request' \in [Requests -> Request] /\ LateIsDismissed'
    <2> DEFINE n == [r EXCEPT !.phase = "authenticated", !.token = None, !.client = c,
                              !.rpm = client[c].rpm, !.allowed = o \in client[c].scopes]
    <2>1. ~r.late
      <3>1. r.phase = "arrived" /\ Accepts(c, r.token)
        BY <1>2 DEF Authenticate
      <3> QED
        BY <3>1, AcceptedIsOwned DEF LateIsDismissed
    <2>2. client[c].rpm \in Limits \cup {0} /\ (o \in client[c].scopes) \in BOOLEAN
      BY DEF ClientsInv, ClientsTypeOK, Row
    <2>3. n \in Request /\ n.late = r.late
      BY <1>0, <2>2 DEF Request, Open
    <2>4. request' = [request EXCEPT ![q] = n] /\ UNCHANGED clientVars
      BY <1>2, Zenon DEF Authenticate
    <2> HIDE DEF n
    <2> QED
      BY <2>1, <2>3, <2>4, RequestMoves
  <1>3. CASE RefuseKey(q) \/ TurnAway(q)
    <2>1. request' = [request EXCEPT ![q] = Ended(q, "denied")] /\ UNCHANGED clientVars
      BY <1>3 DEF RefuseKey, TurnAway
    <2> QED
      BY <2>1, EndedRequest, RequestMoves
  <1>4. CASE AdmitRequest(q)
    <2> DEFINE n == [r EXCEPT !.phase = "admitted"]
    <2>1. n \in Request /\ n.late = r.late
      BY <1>0 DEF Request, Open
    <2>2. request' = [request EXCEPT ![q] = n] /\ UNCHANGED clientVars
      BY <1>4, Zenon DEF AdmitRequest
    <2>3. ~r.late
      BY <1>4 DEF AdmitRequest, LateIsDismissed
    <2> HIDE DEF n
    <2> QED
      BY <2>1, <2>2, <2>3, RequestMoves
  <1>5. CASE LimitRequest(q)
    <2>1. request' = [request EXCEPT ![q] = Ended(q, "limited")] /\ UNCHANGED clientVars /\ ~r.late
      BY <1>5 DEF LimitRequest, LateIsDismissed
    <2> QED
      BY <2>1, EndedRequest, RequestMoves
  <1>6. CASE Serve(q)
    <2>1. request' = [request EXCEPT ![q] = Ended(q, "served")] /\ UNCHANGED clientVars /\ ~r.late
      BY <1>6 DEF Serve, LateIsDismissed
    <2> QED
      BY <2>1, EndedRequest, RequestMoves
  <1> QED
    BY <1>1, <1>2, <1>3, <1>4, <1>5, <1>6 DEF RequestStep

\* The requests, while clients change and replicas crash.
LEMMA RequestsFollow ==
  ASSUME AccessInv, [Next]_vars, [ClientsNext]_clientVars
  PROVE  request' \in [Requests -> Request] /\ LateIsDismissed'
  <1> USE DEF AccessInv
  <1>1. CASE request' = request
    BY <1>1, DismissedForGood DEF LateIsDismissed
  <1>2. ASSUME NEW p \in Replicas, Crash(p)
        PROVE  request' \in [Requests -> Request] /\ LateIsDismissed'
    <2>1. request' = [q \in Requests |-> IF request[q].replica = p THEN Ended(q, "lost") ELSE request[q]]
          /\ UNCHANGED clientVars
      BY <1>2 DEF Crash
    <2>2. \A q \in Requests : /\ Ended(q, "lost") \in Request /\ Ended(q, "lost").phase = "lost"
      BY EndedRequest
    <2>3. request' \in [Requests -> Request]
      BY <2>1, <2>2
    <2>4. \A t : Dismissed(t)' <=> Dismissed(t)
      BY <2>1 DEF clientVars, Dismissed
    <2> QED
      BY <2>1, <2>2, <2>3, <2>4 DEF LateIsDismissed
  <1> QED
    BY <1>1, <1>2, RequestsStep DEF Next, Flush, Manage, TimePasses, ForgetBucket, vars

\* Counting an event keeps the shape of what is counted.
LEMMA CountingTypes ==
  ASSUME NEW u \in Use, NEW isLimited \in BOOLEAN, now \in Nat
  PROVE  Counting(u, isLimited) \in Use
  BY DEF Counting, Use, Later

\* Usage on its way and stored usage stay well typed, and last_used_at never
\* goes back.
LEMMA UsageStep ==
  ASSUME UsageTypeOK, ClientsTypeOK, [Next]_vars
  PROVE  UsageTypeOK' /\ [NotBack]_usageVars
  <1> USE DEF UsageTypeOK
  <1>0. now \in Nat /\ NoUse \in Use /\ Nothing \in [Clients -> Use]
    BY PolicyAssumption DEF ClientsTypeOK, NoUse, Use, Nothing
  <1>1. CASE UNCHANGED usageVars
    BY <1>1 DEF usageVars
  <1>2. ASSUME NEW p, NEW c, NEW isLimited \in BOOLEAN, Record(p, c, isLimited)
        PROVE  UsageTypeOK' /\ NotBack
    <2>1. queue' \in [Replicas -> [Clients -> Use]]
      <3>1. CASE queue' = queue
        BY <3>1
      <3>2. CASE queue' = [queue EXCEPT ![p][c] = Counting(queue[p][c], isLimited)]
        <4>1. p \in Replicas /\ c \in Clients => Counting(queue[p][c], isLimited) \in Use
          BY <1>0, CountingTypes
        <4> QED
          BY <3>2, <4>1
      <3> QED
        BY <1>2, <3>1, <3>2 DEF Record
    <2> QED
      BY <1>2, <2>1 DEF Record, NotBack
  <1>3. ASSUME NEW p \in Replicas, Drain(p) PROVE UsageTypeOK' /\ NotBack
    BY <1>0, <1>3 DEF Drain, NotBack
  <1>4. ASSUME NEW p \in Replicas, NEW c \in Clients, NEW ok \in BOOLEAN, Touch(p, c, ok)
        PROVE  UsageTypeOK' /\ NotBack
    <2> DEFINE u == [batch[p][c] EXCEPT !.last = 0]
    <2>1. u \in Use /\ batch[p][c].last \in Nat
      BY DEF Use
    <2>2. batch' = [batch EXCEPT ![p][c] = u]
      BY <1>4, Zenon DEF Touch
    <2>3. Touched(c, batch[p][c].last) \in Nat /\ Touched(c, batch[p][c].last) >= lastUsed[c]
      BY <2>1, PolicyAssumption DEF Touched, Later
    <2>4. lastUsed' \in [Clients -> Nat] /\ NotBack
      BY <1>4, <2>3 DEF Touch, NotBack
    <2> HIDE DEF u
    <2>5. batch' \in [Replicas -> [Clients -> Use]]
      BY <2>1, <2>2
    <2> QED
      BY <1>4, <2>4, <2>5 DEF Touch
  <1>5. ASSUME NEW p \in Replicas, NEW c \in Clients, NEW ok \in BOOLEAN, Upsert(p, c, ok)
        PROVE  UsageTypeOK' /\ NotBack
    <2> DEFINE n == [requests |-> counted[c].requests + batch[p][c].requests,
                     limited |-> counted[c].limited + batch[p][c].limited]
    <2>1. n \in [requests : Nat, limited : Nat]
      BY DEF Use
    <2>2. counted' \in [Clients -> [requests : Nat, limited : Nat]]
      <3>1. CASE ok
        <4> DEFINE a == counted[c].requests + batch[p][c].requests
                   b == counted[c].limited + batch[p][c].limited
        <4>1. a \in Nat /\ b \in Nat
          BY DEF Use
        <4>2. counted' = [counted EXCEPT ![c].requests = a, ![c].limited = b]
          BY <1>5, <3>1 DEF Upsert
        <4> HIDE DEF a, b
        <4> QED
          BY <4>1, <4>2
      <3>2. CASE ~ok
        BY <1>5, <3>2 DEF Upsert
      <3> QED
        BY <3>1, <3>2
    <2>3. batch' \in [Replicas -> [Clients -> Use]]
      BY <1>0, <1>5 DEF Upsert
    <2> QED
      BY <1>5, <2>2, <2>3 DEF Upsert, NotBack
  <1>6. ASSUME NEW p \in Replicas, LoseUsage(p) PROVE UsageTypeOK' /\ NotBack
    BY <1>0, <1>6 DEF LoseUsage, NotBack
  <1>7. ASSUME NEW q \in Requests, RequestStep(q) PROVE UsageTypeOK' /\ [NotBack]_usageVars
    BY <1>1, <1>2, <1>7 DEF RequestStep, Arrive, Authenticate, RefuseKey, TurnAway, AdmitRequest,
                            LimitRequest, Serve
  <1> QED
    BY <1>1, <1>3, <1>4, <1>5, <1>6, <1>7
       DEF Next, Flush, Crash, Manage, TimePasses, ForgetBucket, vars, usageVars

\* A bucket holds a natural number of units whatever the limit of the caller is.
LEMMA FilledIsNat ==
  ASSUME BucketsInv, ClientsTypeOK, NEW c \in Clients, NEW r \in Nat
  PROVE  Filled(c, r) \in Nat
  <1>1. \A a, b \in Nat : a * b \in Nat
    OBVIOUS
  <1>2. Capacity(r) \in Nat
    BY <1>1, PolicyAssumption DEF Capacity
  <1>3. CASE bucket[c] = None
    BY <1>2, <1>3 DEF Filled
  <1>4. CASE bucket[c] # None
    <2>1. bucket[c].tokens \in Nat /\ bucket[c].at \in Nat /\ bucket[c].at <= now /\ now \in Nat
      BY <1>4, PolicyAssumption DEF BucketsInv, LimiterTypeOK, Bucket, ClientsTypeOK
    <2>2. now - bucket[c].at \in Nat
      BY <2>1
    <2>3. bucket[c].tokens + (now - bucket[c].at) * r \in Nat
      BY <1>1, <2>1, <2>2
    <2> QED
      BY <1>2, <1>4, <2>3 DEF Filled, Least
  <1> QED
    BY <1>3, <1>4

\* The shared bucket, under admissions, refusals, expiry and passing time.
LEMMA BucketsStep ==
  ASSUME BucketsInv, ClientsTypeOK, request \in [Requests -> Request], [Next]_vars
  PROVE  BucketsInv'
  <1>0. now \in Nat
    BY PolicyAssumption DEF ClientsTypeOK
  <1>1. CASE UNCHANGED <<bucket, now>>
    BY <1>1 DEF BucketsInv, LimiterTypeOK, Bucket
  <1>2. CASE bucket' = bucket /\ now' = now + 1
    BY <1>0, <1>2 DEF BucketsInv, LimiterTypeOK, Bucket
  <1>3. ASSUME NEW c, NEW b, now' = now, bucket' = [bucket EXCEPT ![c] = b],
               c \in Clients /\ b # None => b \in [tokens : Nat, at : Nat] /\ b.at <= now
        PROVE  BucketsInv'
    <2>1. \A d \in Clients : bucket'[d] = IF d = c THEN b ELSE bucket[d]
      BY <1>3 DEF BucketsInv
    <2>2. bucket' = [d \in Clients |-> bucket'[d]]
      BY <1>3 DEF BucketsInv
    <2> QED
      BY <1>3, <2>1, <2>2 DEF BucketsInv, LimiterTypeOK, Bucket
  <1>4. ASSUME NEW c, NEW r \in Nat, now' = now, Admit(c, r) \/ Refuse(c, r) PROVE BucketsInv'
    <2>1. PICK cost \in {0, TicksPerMinute} : /\ Take(c, r, cost)
                                              /\ cost = TicksPerMinute => Affordable(c, r)
      BY <1>4, PolicyAssumption DEF Admit, Refuse
    <2> DEFINE b == [tokens |-> Filled(c, r) - cost, at |-> now]
    <2>2. c \in Clients => Filled(c, r) - cost \in Nat
      BY <2>1, FilledIsNat, PolicyAssumption DEF Affordable
    <2>3. c \in Clients => b \in [tokens : Nat, at : Nat] /\ b.at <= now
      BY <1>0, <2>2
    <2>4. bucket' = [bucket EXCEPT ![c] = b]
      BY <2>1 DEF Take
    <2> HIDE DEF b
    <2> QED
      BY <1>3, <1>4, <2>3, <2>4
  <1>5. ASSUME NEW q \in Requests, RequestStep(q) PROVE BucketsInv'
    <2>0. request[q].rpm \in Limits \cup {0}
      BY DEF Request
    <2>limits. \A n \in Limits \cup {0} : n \in Nat
      BY PolicyAssumption
    <2>1. request[q].rpm \in Nat
      BY <2>0, <2>limits
    <2>2. CASE AdmitRequest(q)
      BY <1>4, <2>1, <2>2 DEF AdmitRequest, clientVars
    <2>3. CASE LimitRequest(q)
      BY <1>4, <2>1, <2>3 DEF LimitRequest, clientVars
    <2> QED
      BY <1>1, <1>5, <2>2, <2>3 DEF RequestStep, Arrive, Authenticate, RefuseKey, TurnAway, Serve, clientVars
  <1>6. ASSUME NEW c \in Clients, ForgetBucket(c) PROVE BucketsInv'
    BY <1>3, <1>6 DEF ForgetBucket, Forget, clientVars
  <1>7. CASE Manage
    BY <1>1, <1>7 DEF Manage, AdminStep, CreateAPIClient, UpdateAPIClient, CommitUpdate,
                RollBackUpdate, RotateAPIClient,
                      RevokeAPIClient, DeleteAPIClient
  <1> QED
    BY <1>1, <1>2, <1>5, <1>6, <1>7 DEF Next, Flush, Crash, TimePasses, Tick, clientVars, vars

\* What is remembered of the answers and of the admissions stays well typed.
LEMMA HistoriesStep ==
  ASSUME [Next]_vars, answered \in [Clients -> [requests : Nat, limited : Nat]],
         recent \in [Clients -> [Minute -> Nat]]
  PROVE  answered' \in [Clients -> [requests : Nat, limited : Nat]] /\ recent' \in [Clients -> [Minute -> Nat]]
  <1> DEFINE Goal == /\ answered' \in [Clients -> [requests : Nat, limited : Nat]]
                     /\ recent' \in [Clients -> [Minute -> Nat]]
  <1>1. CASE UNCHANGED <<answered, recent>>
    BY <1>1
  <1>2. ASSUME NEW q \in Requests, AdmitRequest(q) PROVE Goal
    <2> DEFINE c == request[q].client
               n == [i \in Minute |-> recent[c][i] + 1]
    <2>1. recent' = [recent EXCEPT ![c] = n] /\ answered' = answered
      BY <1>2 DEF AdmitRequest
    <2>2. c \in Clients => n \in [Minute -> Nat]
      OBVIOUS
    <2> HIDE DEF c, n
    <2>3. recent' \in [Clients -> [Minute -> Nat]]
      BY <2>1, <2>2
    <2> QED
      BY <2>1, <2>3
  <1>3. ASSUME NEW q \in Requests, LimitRequest(q) PROVE Goal
    <2> DEFINE c == request[q].client
               n == [answered[c] EXCEPT !.limited = @ + 1]
    <2>1. answered' = [answered EXCEPT ![c] = n] /\ recent' = recent
      BY <1>3, Zenon DEF LimitRequest
    <2>2. c \in Clients => n \in [requests : Nat, limited : Nat]
      OBVIOUS
    <2> HIDE DEF c, n
    <2> QED
      BY <2>1, <2>2
  <1>4. ASSUME NEW q \in Requests, Serve(q) PROVE Goal
    <2> DEFINE c == request[q].client
               n == [answered[c] EXCEPT !.requests = @ + 1]
    <2>1. answered' = [answered EXCEPT ![c] = n] /\ recent' = recent
      BY <1>4, Zenon DEF Serve
    <2>2. c \in Clients => n \in [requests : Nat, limited : Nat]
      OBVIOUS
    <2> HIDE DEF c, n
    <2> QED
      BY <2>1, <2>2
  <1>5. CASE TimePasses
    <2>1. \A i \in Minute : i = 0 \/ i - 1 \in Minute
      BY PolicyAssumption DEF Minute
    <2> QED
      BY <1>5, <2>1 DEF TimePasses
  <1> QED
    BY <1>1, <1>2, <1>3, <1>4, <1>5
       DEF Next, RequestStep, Arrive, Authenticate, RefuseKey, TurnAway, Flush, Crash, Manage, ForgetBucket, vars

\* The bucket as a caller with limit h would find it, together with what the
\* present tick and the i before it admitted, never exceeds a full bucket and
\* the refill of i ticks; and nothing was admitted since the bucket was last
\* written, or, without a bucket, in the whole minute.
Spent(h) ==
  \A c \in Clients, i \in Minute :
    /\ recent[c][i] * TicksPerMinute + Filled(c, h) <= Capacity(h) + i * h
    /\ bucket[c] = None => recent[c][i] = 0
    /\ bucket[c] # None /\ i < now - bucket[c].at => recent[c][i] = 0

\* Products of natural numbers grow with their factors.
LEMMA Products ==
  /\ \A a, b \in Nat : a * b \in Nat
  /\ \A a, b, c \in Nat : a <= b => a * c <= b * c /\ c * a <= c * b
  /\ \A a, b \in Nat : (a + 1) * b = a * b + b
  OBVIOUS

\* A caller with a lower limit never finds more in the bucket than one with a
\* higher limit, nor more than it may hold.
LEMMA LowerLimitFindsLess ==
  ASSUME BucketsInv, ClientsTypeOK, NEW c \in Clients, NEW r \in Nat, NEW h \in Nat, r <= h
  PROVE  /\ Filled(c, r) \in Nat /\ Filled(c, h) \in Nat
         /\ Filled(c, r) <= Filled(c, h) /\ Filled(c, r) <= Capacity(h)
  <1>1. Filled(c, r) \in Nat /\ Filled(c, h) \in Nat
    BY FilledIsNat
  <1>2. Capacity(r) \in Nat /\ Capacity(h) \in Nat /\ Capacity(r) <= Capacity(h)
    BY Products, PolicyAssumption DEF Capacity
  <1>3. CASE bucket[c] = None
    BY <1>1, <1>2, <1>3 DEF Filled
  <1>4. CASE bucket[c] # None
    <2> DEFINE d == now - bucket[c].at
    <2>1. bucket[c].tokens \in Nat /\ d \in Nat
      BY <1>4, PolicyAssumption DEF BucketsInv, LimiterTypeOK, Bucket, ClientsTypeOK
    <2>2. d * r \in Nat /\ d * h \in Nat /\ d * r <= d * h
      BY <2>1, Products
    <2>3. Filled(c, r) = Least(Capacity(r), bucket[c].tokens + d * r)
          /\ Filled(c, h) = Least(Capacity(h), bucket[c].tokens + d * h)
      BY <1>4 DEF Filled
    <2> HIDE DEF d
    <2> QED
      BY <1>1, <1>2, <2>1, <2>2, <2>3 DEF Least
  <1> QED
    BY <1>3, <1>4

\* A call of the script with a limit up to h, admitted or refused, leaves the
\* allowance of h where it was.
LEMMA TakeSpends ==
  ASSUME BucketsInv, ClientsTypeOK, recent \in [Clients -> [Minute -> Nat]],
         NEW h \in Nat, Spent(h), NEW c, NEW r \in Nat, r <= h, now' = now,
         NEW n \in {0, 1}, NEW cost \in Nat, cost = n * TicksPerMinute,
         n = 1 => Affordable(c, r), Take(c, r, cost),
         \A d \in Clients, i \in Minute : recent'[d][i] = recent[d][i] + IF d = c THEN n ELSE 0
  PROVE  Spent(h)'
  <1> DEFINE T == TicksPerMinute
  <1>t. T \in Nat /\ now \in Nat 
    BY PolicyAssumption DEF ClientsTypeOK
  <1>m. Minute \subseteq Nat
    BY PolicyAssumption DEF Minute
  <1>h. Capacity(h) \in Nat
    BY Products, <1>t DEF Capacity
  <1> SUFFICES ASSUME NEW d \in Clients, NEW i \in Minute
               PROVE  /\ recent'[d][i] * T + Filled(d, h)' <= Capacity(h) + i * h
                      /\ bucket'[d] = None => recent'[d][i] = 0
                      /\ bucket'[d] # None /\ i < now - bucket'[d].at => recent'[d][i] = 0
    BY DEF Spent, Capacity
  <1>1. CASE d # c
    <2>1. bucket'[d] = bucket[d] /\ recent'[d][i] = recent[d][i]
      BY <1>1, <1>m DEF Take, BucketsInv
    <2>2. Filled(d, h)' = Filled(d, h)
      BY <2>1 DEF Filled, Capacity
    <2> QED
      BY <2>1, <2>2 DEF Spent
  <1>2. CASE d = c
    <2> DEFINE f == Filled(c, r)
               b == [tokens |-> f - cost, at |-> now]
    <2>1. bucket'[d] = b /\ recent'[d][i] = recent[d][i] + n
      BY <1>2, <1>m DEF Take, BucketsInv
    <2>2. f \in Nat /\ Filled(d, h) \in Nat /\ f <= Filled(d, h) /\ f <= Capacity(h)
      BY <1>2, LowerLimitFindsLess
    <2>3. f - cost \in Nat
      BY <1>2, <1>t, <2>2 DEF Affordable
    <2>4. b # None
      BY <1>t, <2>3, BucketAssumption DEF Bucket
    <2>5. Filled(d, h)' = f - cost
      <3>1. Filled(d, h)' = Least(Capacity(h), b.tokens + (now - b.at) * h)
        BY <2>1, <2>4 DEF Filled, Capacity, Least
      <3>2. (now - b.at) * h = 0 /\ b.tokens = f - cost
        BY <1>t
      <3> QED
        BY <3>1, <3>2, <2>2, <2>3, <1>h, <1>t DEF Least
    <2>6. recent[d][i] \in Nat /\ i \in Nat
      BY <1>m
    <2>7. recent'[d][i] * T = recent[d][i] * T + cost
      <3> DEFINE x == recent[d][i]
      <3>1. x \in Nat /\ recent'[d][i] = x + n /\ x = recent[d][i]
        BY <2>1, <2>6
      <3> HIDE DEF x
      <3>2. CASE n = 0
        BY <3>1, <3>2, <1>t
      <3>3. CASE n = 1
        <4>1. (x + 1) * T = x * T + T
          BY <3>1, <1>t, Products
        <4>2. cost = T
          BY <3>3, <1>t
        <4>3. recent'[d][i] * T = x * T + cost
          BY <3>1, <3>3, <4>1, <4>2
        <4> QED
          BY <3>1, <4>3
      <3> QED
        BY <3>2, <3>3
    <2>8. recent[d][i] * T \in Nat /\ i * h \in Nat
      BY <2>6, <1>t, Products
    <2>9. recent[d][i] * T + Filled(d, h) <= Capacity(h) + i * h
      BY DEF Spent
    <2>10. ~ (i < now - bucket'[d].at)
      BY <2>1, <2>6, <1>t
    <2>11. bucket'[d] # None
      BY <2>1, <2>4
    <2> HIDE DEF f, b
    <2>12. recent'[d][i] * T + Filled(d, h)' <= Capacity(h) + i * h
      BY <2>2, <2>5, <2>7, <2>8, <2>9, <1>h, <1>t
    <2> QED
      BY <2>10, <2>11, <2>12
  <1> QED
    BY <1>1, <1>2

\* Every step keeps the allowance of a limit that no client exceeds.
LEMMA SpentStep ==
  ASSUME BucketsInv, ClientsTypeOK, request \in [Requests -> Request],
         recent \in [Clients -> [Minute -> Nat]], [Next]_vars,
         NEW h \in Nat, \A l \in Limits : l <= h, Spent(h)
  PROVE  Spent(h)'
  <1> DEFINE T == TicksPerMinute
  <1>t. T \in Nat \ {0} /\ now \in Nat
    BY PolicyAssumption DEF ClientsTypeOK
  <1>m. Minute \subseteq Nat /\ \A i \in Minute : i < T /\ (i # 0 => i - 1 \in Minute)
    BY PolicyAssumption DEF Minute
  <1>h. Capacity(h) \in Nat
    BY Products, <1>t DEF Capacity
  <1>1. CASE UNCHANGED <<bucket, now, recent>>
    BY <1>1 DEF Spent, Filled, Capacity, Least
  <1>2. ASSUME NEW q \in Requests, RequestStep(q) PROVE Spent(h)'
    <2> DEFINE c == request[q].client
               r == request[q].rpm
    <2>0. r \in Limits \cup {0}
      BY DEF Request
    <2>limits. \A n \in Limits \cup {0} : n \in Nat /\ n <= h
      BY PolicyAssumption
    <2>1. r \in Nat /\ r <= h
      BY <2>0, <2>limits
    <2>2. CASE AdmitRequest(q)
      <3>1. /\ now' = now /\ Affordable(c, r) /\ Take(c, r, T)
            /\ recent' = [recent EXCEPT ![c] = [i \in Minute |-> recent[c][i] + 1]]
        BY <2>2 DEF AdmitRequest, Admit, clientVars
      <3>2. T = 1 * TicksPerMinute /\ T \in Nat
        BY <1>t
      <3> HIDE DEF c, r, T
      <3>3. \A d \in Clients, i \in Minute : recent'[d][i] = recent[d][i] + IF d = c THEN 1 ELSE 0
        BY <3>1
      <3> QED
        BY <2>1, <3>1, <3>2, <3>3, TakeSpends
    <2>3. CASE LimitRequest(q)
      <3> DEFINE n == 0
      <3>1. now' = now /\ Take(c, r, n) /\ recent' = recent
        BY <2>3 DEF LimitRequest, Refuse, clientVars
      <3>2. n \in {0, 1} /\ n \in Nat /\ n # 1 /\ n = n * TicksPerMinute
        BY <1>t
      <3>3. \A d \in Clients, i \in Minute : recent'[d][i] = recent[d][i] + IF d = c THEN n ELSE 0
        BY <3>1
      <3> HIDE DEF c, r, n
      <3> QED
        BY <2>1, <3>1, <3>2, <3>3, TakeSpends
    <2> QED
      BY <1>1, <1>2, <2>2, <2>3 DEF RequestStep, Arrive, Authenticate, RefuseKey, TurnAway, Serve, clientVars
  <1>3. CASE TimePasses
    <2>0. now' = now + 1 /\ bucket' = bucket
          /\ recent' = [c \in Clients |-> [i \in Minute |-> IF i = 0 THEN 0 ELSE recent[c][i - 1]]]
      BY <1>3 DEF TimePasses, Tick
    <2> SUFFICES ASSUME NEW d \in Clients, NEW i \in Minute
                 PROVE  /\ recent'[d][i] * T + Filled(d, h)' <= Capacity(h) + i * h
                        /\ bucket'[d] = None => recent'[d][i] = 0
                        /\ bucket'[d] # None /\ i < now' - bucket'[d].at => recent'[d][i] = 0
      BY DEF Spent, Capacity
    <2>i. i \in Nat /\ recent'[d][i] = IF i = 0 THEN 0 ELSE recent[d][i - 1]
      BY <2>0, <1>m
    <2>1. /\ Filled(d, h) \in Nat /\ Filled(d, h)' \in Nat
          /\ Filled(d, h)' <= Capacity(h) /\ Filled(d, h)' <= Filled(d, h) + h
      <3>1. CASE bucket[d] = None
        <4>1. Filled(d, h) = Capacity(h) /\ Filled(d, h)' = Capacity(h)
          BY <2>0, <3>1 DEF Filled, Capacity
        <4> QED
          BY <1>h, <4>1
      <3>2. CASE bucket[d] # None
        <4> DEFINE e == now - bucket[d].at
                   k == bucket[d].tokens
        <4>1. k \in Nat /\ e \in Nat /\ now + 1 - bucket[d].at = e + 1
          BY <1>t, <3>2 DEF BucketsInv, LimiterTypeOK, Bucket
        <4>2. e * h \in Nat /\ (e + 1) * h = e * h + h
          BY <4>1, Products
        <4>3. Filled(d, h) = Least(Capacity(h), k + e * h)
          BY <3>2 DEF Filled
        <4>4. Filled(d, h)' = Least(Capacity(h), k + (e + 1) * h)
          <5>1. bucket'[d] # None => Filled(d, h)' = Least(Capacity(h), bucket'[d].tokens + (now' - bucket'[d].at) * h)
            BY DEF Filled, Capacity, Least
          <5>2. bucket[d].at \in Nat
            BY <3>2 DEF BucketsInv, LimiterTypeOK, Bucket
          <5>3. bucket'[d] # None /\ bucket'[d].tokens = k /\ bucket'[d].at = bucket[d].at
            BY <2>0, <3>2
          <5>4. now' - bucket'[d].at = e + 1
            <6>1. now' = now + 1
              BY <2>0
            <6> DEFINE a == bucket[d].at
            <6>2. a \in Nat /\ bucket'[d].at = a /\ e = now - a
              BY <5>2, <5>3
            <6> HIDE DEF a, e
            <6> QED
              BY <6>1, <6>2, <1>t
          <5> QED
            BY <5>1, <5>3, <5>4
        <4> HIDE DEF e, k
        <4> QED
          BY <4>1, <4>2, <4>3, <4>4, <1>h DEF Least
      <3> QED
        BY <3>1, <3>2
    <2>2. CASE i = 0
      <3>1. recent'[d][i] = 0 /\ recent'[d][i] * T = 0 /\ i * h = 0
        BY <2>i, <2>2, <1>t
      <3> QED
        BY <2>1, <3>1, <1>h
    <2>3. CASE i # 0
      <3> DEFINE j == i - 1
                 x == recent[d][j]
      <3>1. j \in Minute /\ j \in Nat /\ i = j + 1
        BY <2>3, <2>i, <1>m
      <3>2. recent'[d][i] = x /\ x \in Nat
        BY <2>3, <2>i, <3>1
      <3>3. /\ x * T + Filled(d, h) <= Capacity(h) + j * h
            /\ bucket[d] = None => x = 0
            /\ bucket[d] # None /\ j < now - bucket[d].at => x = 0
        BY <3>1 DEF Spent
      <3>4. x * T \in Nat /\ j * h \in Nat /\ (j + 1) * h = j * h + h
        BY <3>1, <3>2, <1>t, Products
      <3>5. i * h = j * h + h
        BY <3>1, <3>4
      <3>6. bucket[d] # None => bucket[d].at \in Nat
        BY DEF BucketsInv, LimiterTypeOK, Bucket
      <3> HIDE DEF j, x
      <3>7. recent'[d][i] * T + Filled(d, h)' <= Capacity(h) + i * h
        BY <2>1, <3>2, <3>3, <3>4, <3>5, <1>h
      <3>8. bucket'[d] # None /\ i < now' - bucket'[d].at => x = 0
        BY <2>0, <3>1, <3>3, <3>6, <1>t
      <3> QED
        BY <2>0, <3>2, <3>3, <3>7, <3>8
    <2> QED
      BY <2>2, <2>3
  <1>4. ASSUME NEW c \in Clients, ForgetBucket(c) PROVE Spent(h)'
    <2>0. /\ bucket[c] # None /\ now >= bucket[c].at + 2 * T
          /\ bucket' = [bucket EXCEPT ![c] = None] /\ UNCHANGED <<now, recent>>
      BY <1>4 DEF ForgetBucket, Forget, TimeToLive, clientVars
    <2> SUFFICES ASSUME NEW d \in Clients, NEW i \in Minute
                 PROVE  /\ recent[d][i] * T + Filled(d, h)' <= Capacity(h) + i * h
                        /\ bucket'[d] = None => recent[d][i] = 0
                        /\ bucket'[d] # None /\ i < now - bucket'[d].at => recent[d][i] = 0
      BY <2>0 DEF Spent, Capacity
    <2>1. CASE d # c
      <3>1. bucket'[d] = bucket[d]
        BY <2>0, <2>1 DEF BucketsInv
      <3>2. Filled(d, h)' = Filled(d, h)
        BY <2>0, <3>1 DEF Filled, Capacity, Least
      <3> QED
        BY <3>1, <3>2 DEF Spent
    <2>2. CASE d = c
      <3>1. bucket'[d] = None
        BY <2>0, <2>2 DEF BucketsInv
      <3>2. Filled(d, h)' = Capacity(h)
        BY <3>1 DEF Filled, Capacity
      <3>3. bucket[d].at \in Nat /\ i \in Nat /\ i < T
        BY <1>m, <2>0, <2>2 DEF BucketsInv, LimiterTypeOK, Bucket
      <3>4. i < now - bucket[d].at
        BY <2>0, <2>2, <3>3, <1>t
      <3>5. recent[d][i] = 0
        BY <2>0, <2>2, <3>4 DEF Spent
      <3>6. recent[d][i] * T = 0 /\ i * h \in Nat
        BY <3>3, <3>5, <1>t, Products
      <3> QED
        BY <3>1, <3>2, <3>5, <3>6, <1>h
    <2> QED
      BY <2>1, <2>2
  <1>5. CASE Manage
    BY <1>1, <1>5 DEF Manage, AdminStep, CreateAPIClient, UpdateAPIClient, CommitUpdate,
                RollBackUpdate, RotateAPIClient,
                      RevokeAPIClient, DeleteAPIClient
  <1> QED
    BY <1>1, <1>2, <1>3, <1>4, <1>5 DEF Next, Flush, Crash, clientVars, vars

\* The inductive invariant of the whole path.
LEMMA AccessInductive == AccessInv /\ [Next]_vars => AccessInv' /\ [NotBack]_usageVars
  <1> SUFFICES ASSUME AccessInv, [Next]_vars PROVE AccessInv' /\ [NotBack]_usageVars
    OBVIOUS
  <1>1. [ClientsNext]_clientVars
    BY DEF Next, RequestStep, Arrive, Authenticate, RefuseKey, TurnAway, AdmitRequest, LimitRequest,
           Serve, Flush, Crash, Manage, TimePasses, ForgetBucket, Tick, LoseUsage, vars, ClientsNext
  <1>2. ClientsInv' /\ OwnersAgree'
    BY <1>1, ClientsStepInv, OwnersStep DEF AccessInv
  <1>3. BucketsInv'
    BY BucketsStep DEF AccessInv, ClientsInv
  <1>4. UsageTypeOK' /\ [NotBack]_usageVars
    BY UsageStep DEF AccessInv, ClientsInv
  <1>5. request' \in [Requests -> Request] /\ LateIsDismissed'
    BY <1>1, RequestsFollow
  <1>6. answered' \in [Clients -> [requests : Nat, limited : Nat]] /\ recent' \in [Clients -> [Minute -> Nat]]
    BY HistoriesStep DEF AccessInv
  <1> QED
    BY <1>2, <1>3, <1>4, <1>5, <1>6 DEF AccessInv

\* The inductive invariant of the path of a request holds in every reachable state.
THEOREM AccessInvariant == Spec => []AccessInv
  <1>1. ASSUME Init PROVE AccessInv
    <2>1. ClientsInv /\ OwnersAgree
      BY <1>1, ClientsInitInv DEF Init, ClientsInit, OwnersAgree, Exists, Blank
    <2>2. BucketsInv
      BY <1>1 DEF Init, LimiterInit, BucketsInv, LimiterTypeOK, Bucket
    <2>3. UsageTypeOK
      BY <1>1 DEF Init, UsageInit, UsageTypeOK, Nothing, NoUse, Use
    <2>4. request \in [Requests -> Request] /\ LateIsDismissed
      BY <1>1 DEF Init, Idle, Request, LateIsDismissed
    <2> QED
      BY <1>1, <2>1, <2>2, <2>3, <2>4 DEF Init, AccessInv
  <1> QED
    BY <1>1, AccessInductive, PTL DEF Spec

\* Every reachable state of clients, limiter, collectors and requests is well typed.
THEOREM AccessTypes == Spec => []AccessTypeOK
  <1>1. AccessInv => AccessTypeOK
    BY DEF AccessInv, AccessTypeOK, ClientsInv, BucketsInv
  <1> QED
    BY <1>1, AccessInvariant, PTL

\* A request that arrives after its client was revoked or removed gets past no check.
THEOREM RevocationIsEffective == Spec => []RevocationTakesEffect
  <1>1. AccessInv => RevocationTakesEffect
    BY DEF AccessInv, LateIsDismissed, RevocationTakesEffect
  <1> QED
    BY <1>1, AccessInvariant, PTL

\* In any minute a client is admitted at most what a full bucket and its
\* refill allow under the highest limit in use, whichever replicas asked with
\* whichever limits and whenever idle buckets expired.
THEOREM LimitHolds == Spec => []WithinLimit
  <1> DEFINE AllSpent == \A h \in Highest : Spent(h)
  <1>h. \A h \in Highest : h \in Nat /\ \A l \in Limits : l <= h
    BY PolicyAssumption DEF Highest
  <1>1. ASSUME Init PROVE AllSpent
    <2> SUFFICES ASSUME NEW h \in Highest, NEW c \in Clients, NEW i \in Minute
                 PROVE  recent[c][i] * TicksPerMinute + Filled(c, h) <= Capacity(h) + i * h
      BY <1>1 DEF Init, LimiterInit, Spent
    <2>1. recent[c][i] * TicksPerMinute = 0 /\ i \in Nat
      BY <1>1, PolicyAssumption DEF Init, Minute
    <2>2. i * h \in Nat /\ Capacity(h) \in Nat /\ Filled(c, h) = Capacity(h)
      BY <1>1, <1>h, <2>1, Products, PolicyAssumption DEF Init, LimiterInit, Filled, Capacity
    <2> QED
      BY <2>1, <2>2
  <1>2. AccessInv /\ AllSpent /\ [Next]_vars => AllSpent'
    <2> SUFFICES ASSUME AccessInv, AllSpent, [Next]_vars, NEW h \in Highest PROVE Spent(h)'
      BY DEF Highest
    <2> QED
      BY <1>h, SpentStep DEF AccessInv, ClientsInv
  <1>3. AccessInv /\ AllSpent => WithinLimit
    <2> SUFFICES ASSUME AccessInv, AllSpent, NEW c \in Clients, NEW h \in Highest
                 PROVE  InMinute(c) * TicksPerMinute <= Capacity(h) + (TicksPerMinute - 1) * h
      BY DEF WithinLimit
    <2> DEFINE i == TicksPerMinute - 1
    <2>1. i \in Minute /\ i \in Nat /\ h \in Nat /\ TicksPerMinute \in Nat
      BY <1>h, PolicyAssumption DEF Minute
    <2>2. recent[c][i] * TicksPerMinute + Filled(c, h) <= Capacity(h) + i * h
      BY <2>1 DEF Spent
    <2>3. Filled(c, h) \in Nat /\ recent[c][i] \in Nat
      BY <2>1, FilledIsNat DEF AccessInv, ClientsInv
    <2>4. recent[c][i] * TicksPerMinute \in Nat /\ i * h \in Nat /\ Capacity(h) \in Nat
      BY <2>1, <2>3, Products DEF Capacity
    <2>5. InMinute(c) = recent[c][i]
      BY DEF InMinute
    <2> HIDE DEF i
    <2>6. recent[c][i] * TicksPerMinute <= Capacity(h) + i * h
      BY <2>2, <2>3, <2>4
    <2> QED
      BY <2>5, <2>6 DEF i
  <1> HIDE DEF AllSpent
  <1> QED
    BY <1>1, <1>2, <1>3, AccessInvariant, PTL DEF Spec

\* last_used_at never goes back, although replicas flush in any order and some touches fail.
THEOREM LastUseOnlyAdvances == Spec => LastUsedNeverBack
  BY AccessInvariant, AccessInductive, PTL DEF Spec, LastUsedNeverBack

-----------------------------------------------------------------------------
(* Usage is never counted twice *)

\* What a set of events holds.
LEMMA EventsMembers ==
  ASSUME NEW n
  PROVE  \A p, i : <<p, i>> \in Events(n) <=> p \in Replicas /\ i \in 1 .. n[p]
  BY DEF Events

\* Every event is a pair of a replica and a number.
LEMMA EventsArePairs ==
  ASSUME NEW n, NEW e \in Events(n)
  PROVE  e = <<e[1], e[2]>>
  <1>1. PICK p \in Replicas : e \in {p} \X (1 .. n[p])
    BY DEF Events
  <1> QED
    BY <1>1

\* Fewer events at every replica are fewer events.
LEMMA EventsFewer ==
  ASSUME NEW n, NEW m, \A r \in Replicas : n[r] \in Nat /\ m[r] \in Nat /\ m[r] <= n[r],
         IsFiniteSet(Events(n))
  PROVE  IsFiniteSet(Events(m)) /\ Cardinality(Events(m)) <= Cardinality(Events(n))
  <1>1. ASSUME NEW e \in Events(m) PROVE e \in Events(n)
    <2>1. e = <<e[1], e[2]>>
      BY EventsArePairs
    <2>2. e[1] \in Replicas /\ e[2] \in 1 .. m[e[1]]
      BY <2>1, EventsMembers
    <2>3. e[2] \in 1 .. n[e[1]]
      BY <2>2
    <2>4. <<e[1], e[2]>> \in Events(n)
      BY <2>2, <2>3, EventsMembers
    <2> QED
      BY <2>1, <2>4
  <1> QED
    BY <1>1, FS_Subset

\* One more event at one replica is one more event.
LEMMA EventsOneMore ==
  ASSUME NEW n, NEW m, \A r \in Replicas : n[r] \in Nat, NEW p \in Replicas,
         m[p] = n[p] + 1, \A r \in Replicas \ {p} : m[r] = n[r], IsFiniteSet(Events(n))
  PROVE  IsFiniteSet(Events(m)) /\ Cardinality(Events(m)) = Cardinality(Events(n)) + 1
  <1> DEFINE x == <<p, n[p] + 1>>
  <1>1. x \notin Events(n)
    BY EventsMembers
  <1>2. ASSUME NEW e \in Events(m) PROVE e \in Events(n) \cup {x}
    <2>1. e = <<e[1], e[2]>> /\ e[1] \in Replicas /\ e[2] \in 1 .. m[e[1]]
      BY EventsArePairs, EventsMembers
    <2>2. e[2] \in 1 .. n[e[1]] \/ (e[1] = p /\ e[2] = n[p] + 1)
      BY <2>1
    <2>3. <<e[1], e[2]>> \in Events(n) \/ <<e[1], e[2]>> = x
      BY <2>1, <2>2, EventsMembers
    <2> HIDE DEF x
    <2> QED
      BY <2>1, <2>3
  <1>3. ASSUME NEW e \in Events(n) PROVE e \in Events(m)
    <2>1. e = <<e[1], e[2]>> /\ e[1] \in Replicas /\ e[2] \in 1 .. n[e[1]]
      BY EventsArePairs, EventsMembers
    <2>2. e[2] \in 1 .. m[e[1]]
      BY <2>1
    <2>3. <<e[1], e[2]>> \in Events(m)
      BY <2>1, <2>2, EventsMembers
    <2> QED
      BY <2>1, <2>3
  <1>4. x \in Events(m)
    BY EventsMembers
  <1> HIDE DEF x
  <1>5. Events(m) = Events(n) \cup {x}
    BY <1>2, <1>3, <1>4
  <1> QED
    BY <1>1, <1>5, FS_AddElement

\* Taking k events from one replica takes k events.
LEMMA EventsTaken ==
  ASSUME NEW n, NEW m, \A r \in Replicas : n[r] \in Nat, NEW p \in Replicas, NEW k \in Nat,
         m[p] \in Nat, m[p] + k = n[p], \A r \in Replicas \ {p} : m[r] = n[r], IsFiniteSet(Events(n))
  PROVE  IsFiniteSet(Events(m)) /\ Cardinality(Events(m)) + k = Cardinality(Events(n))
  <1> DEFINE I == m[p] + 1 .. n[p]
             T == {p} \X I
  <1>1. IsFiniteSet(I) /\ Cardinality(I) = k
    <2>1. m[p] + 1 \in Int /\ n[p] \in Int
      OBVIOUS
    <2>2. IsFiniteSet(I) /\ Cardinality(I) = IF m[p] + 1 > n[p] THEN 0 ELSE n[p] - (m[p] + 1) + 1
      BY <2>1, FS_Interval
    <2> QED
      BY <2>2
  <1>2. IsFiniteSet({p}) /\ Cardinality({p}) = 1
    BY FS_Singleton
  <1>3. IsFiniteSet(T) /\ Cardinality(T) = k
    <2> HIDE DEF I
    <2>1. Cardinality(T) = Cardinality({p}) * Cardinality(I) /\ IsFiniteSet(T)
      BY <1>1, <1>2, FS_Product
    <2> QED
      BY <1>1, <1>2, <2>1
  <1>4. ASSUME NEW e \in Events(n) PROVE e \in Events(m) \/ e \in T
    <2>1. e = <<e[1], e[2]>> /\ e[1] \in Replicas /\ e[2] \in 1 .. n[e[1]]
      BY EventsArePairs, EventsMembers
    <2>2. e[2] \in 1 .. m[e[1]] \/ (e[1] = p /\ e[2] \in I)
      BY <2>1
    <2>3. <<e[1], e[2]>> \in Events(m) \/ <<e[1], e[2]>> \in T
      BY <2>1, <2>2, EventsMembers
    <2> QED
      BY <2>1, <2>3
  <1>5. ASSUME NEW e \in Events(m) PROVE e \in Events(n) /\ e \notin T
    <2>1. e = <<e[1], e[2]>> /\ e[1] \in Replicas /\ e[2] \in 1 .. m[e[1]]
      BY EventsArePairs, EventsMembers
    <2>2. e[2] \in 1 .. n[e[1]] /\ ~(e[1] = p /\ e[2] \in I)
      BY <2>1
    <2>3. <<e[1], e[2]>> \in Events(n) /\ <<e[1], e[2]>> \notin T
      BY <2>1, <2>2, EventsMembers
    <2> QED
      BY <2>1, <2>3
  <1>6. ASSUME NEW e \in T PROVE e \in Events(n)
    <2>1. e = <<p, e[2]>> /\ e[2] \in I
      OBVIOUS
    <2>2. <<p, e[2]>> \in Events(n)
      BY <2>1, EventsMembers
    <2> QED
      BY <2>1, <2>2
  <1> HIDE DEF T
  <1>7. Events(m) = Events(n) \ T /\ Events(n) \cap T = T
    BY <1>4, <1>5, <1>6
  <1>8. IsFiniteSet(Events(m)) /\ Cardinality(Events(m)) = Cardinality(Events(n)) - k
    <2>1. IsFiniteSet(Events(n) \ T)
          /\ Cardinality(Events(n) \ T) = Cardinality(Events(n)) - Cardinality(Events(n) \cap T)
      BY FS_Difference
    <2> QED
      BY <1>3, <1>7, <2>1
  <1>9. Cardinality(Events(n)) \in Nat
    BY FS_CardinalityType
  <1> QED
    BY <1>8, <1>9

\* What is stored and what is on its way are covered by what was answered; the
\* events on their way are finitely many.
Covered(stored, n, all) == IsFiniteSet(Events(n)) /\ stored + Cardinality(Events(n)) <= all

ClientCovered(c) ==
  /\ Covered(counted[c].requests, UnstoredRequests(c), answered[c].requests)
  /\ Covered(counted[c].limited, UnstoredLimited(c), answered[c].limited)

UsageCovered == \A c \in Clients : ClientCovered(c)

AnsweredTypeOK == answered \in [Clients -> [requests : Nat, limited : Nat]]

\* Losing events, or answering more, leaves the rest covered.
LEMMA CoveredFewer ==
  ASSUME NEW s \in Nat, NEW a \in Nat, NEW b \in Nat, a <= b, NEW n, NEW m,
         \A r \in Replicas : n[r] \in Nat /\ m[r] \in Nat /\ m[r] <= n[r], Covered(s, n, a)
  PROVE  Covered(s, m, b)
  <1>1. IsFiniteSet(Events(m)) /\ Cardinality(Events(m)) <= Cardinality(Events(n))
    BY EventsFewer DEF Covered
  <1>2. Cardinality(Events(m)) \in Nat /\ Cardinality(Events(n)) \in Nat
    BY <1>1, FS_CardinalityType DEF Covered
  <1> QED
    BY <1>1, <1>2 DEF Covered

\* An event recorded is an answer more.
LEMMA CoveredOneMore ==
  ASSUME NEW s \in Nat, NEW a \in Nat, NEW n, NEW m, NEW p \in Replicas,
         \A r \in Replicas : n[r] \in Nat,
         m[p] = n[p] + 1, \A r \in Replicas \ {p} : m[r] = n[r], Covered(s, n, a)
  PROVE  Covered(s, m, a + 1)
  <1>1. IsFiniteSet(Events(m)) /\ Cardinality(Events(m)) = Cardinality(Events(n)) + 1
    BY EventsOneMore DEF Covered
  <1>2. Cardinality(Events(n)) \in Nat
    BY FS_CardinalityType DEF Covered
  <1> QED
    BY <1>1, <1>2 DEF Covered

\* What is stored is no longer on its way.
LEMMA CoveredStored ==
  ASSUME NEW s \in Nat, NEW a \in Nat, NEW n, NEW m, NEW p \in Replicas, NEW k \in Nat,
         \A r \in Replicas : n[r] \in Nat,
         m[p] \in Nat, m[p] + k = n[p], \A r \in Replicas \ {p} : m[r] = n[r], Covered(s, n, a)
  PROVE  Covered(s + k, m, a)
  <1>1. IsFiniteSet(Events(m)) /\ Cardinality(Events(m)) + k = Cardinality(Events(n))
    BY EventsTaken DEF Covered
  <1>2. Cardinality(Events(n)) \in Nat /\ Cardinality(Events(m)) \in Nat
    BY <1>1, FS_CardinalityType DEF Covered
  <1> QED
    BY <1>1, <1>2 DEF Covered

\* What each replica holds of a client's usage.
LEMMA Unstored ==
  ASSUME UsageTypeOK, NEW c \in Clients
  PROVE  \A r \in Replicas :
           /\ UnstoredRequests(c)[r] = queue[r][c].requests + batch[r][c].requests
           /\ UnstoredLimited(c)[r] = queue[r][c].limited + batch[r][c].limited
           /\ UnstoredRequests(c)[r] \in Nat /\ UnstoredLimited(c)[r] \in Nat
           /\ queue[r][c] \in Use /\ batch[r][c] \in Use
  BY DEF UnstoredRequests, UnstoredLimited, UsageTypeOK, Use

\* The same in the next state.
LEMMA UnstoredNext ==
  ASSUME UsageTypeOK', NEW c \in Clients
  PROVE  \A r \in Replicas :
           /\ UnstoredRequests(c)'[r] = queue'[r][c].requests + batch'[r][c].requests
           /\ UnstoredLimited(c)'[r] = queue'[r][c].limited + batch'[r][c].limited
           /\ UnstoredRequests(c)'[r] \in Nat /\ UnstoredLimited(c)'[r] \in Nat
           /\ queue'[r][c] \in Use /\ batch'[r][c] \in Use
  BY DEF UnstoredRequests, UnstoredLimited, UsageTypeOK, Use

\* A step that stores nothing of a client, and leaves no more of it on the way,
\* keeps the client covered.
LEMMA StillCovered ==
  ASSUME UsageTypeOK, UsageTypeOK', AnsweredTypeOK, AnsweredTypeOK',
         NEW c \in Clients, ClientCovered(c), counted'[c] = counted[c],
         answered[c].requests <= answered'[c].requests, answered[c].limited <= answered'[c].limited,
         \A r \in Replicas :
           /\ queue'[r][c].requests + batch'[r][c].requests <= queue[r][c].requests + batch[r][c].requests
           /\ queue'[r][c].limited + batch'[r][c].limited <= queue[r][c].limited + batch[r][c].limited
  PROVE  ClientCovered(c)'
  <1>1. /\ counted[c].requests \in Nat /\ counted[c].limited \in Nat
        /\ answered[c].requests \in Nat /\ answered[c].limited \in Nat
        /\ answered'[c].requests \in Nat /\ answered'[c].limited \in Nat
    BY DEF UsageTypeOK, AnsweredTypeOK
  <1> DEFINE n == UnstoredRequests(c)
             m == UnstoredRequests(c)'
             k == UnstoredLimited(c)
             l == UnstoredLimited(c)'
  <1>2. \A r \in Replicas : n[r] \in Nat /\ m[r] \in Nat /\ m[r] <= n[r]
    BY Unstored, UnstoredNext
  <1>3. \A r \in Replicas : k[r] \in Nat /\ l[r] \in Nat /\ l[r] <= k[r]
    BY Unstored, UnstoredNext
  <1>4. Covered(counted[c].requests, n, answered[c].requests) /\ Covered(counted[c].limited, k, answered[c].limited)
    BY DEF ClientCovered
  <1> HIDE DEF n, m, k, l
  <1>5. Covered(counted[c].requests, m, answered'[c].requests)
    BY <1>1, <1>2, <1>4, CoveredFewer
  <1>6. Covered(counted[c].limited, l, answered'[c].limited)
    BY <1>1, <1>3, <1>4, CoveredFewer
  <1> QED
    BY <1>5, <1>6 DEF ClientCovered, m, l, Covered, Events

\* The events a step leaves alone.
LEMMA OthersCovered ==
  ASSUME UsageTypeOK, UsageTypeOK', AnsweredTypeOK, AnsweredTypeOK',
         NEW c \in Clients, ClientCovered(c), counted'[c] = counted[c], answered'[c] = answered[c],
         \A r \in Replicas : queue'[r][c] = queue[r][c] /\ batch'[r][c] = batch[r][c]
  PROVE  ClientCovered(c)'
  <1>1. /\ answered[c].requests \in Nat /\ answered[c].limited \in Nat
        /\ \A r \in Replicas : queue[r][c] \in Use /\ batch[r][c] \in Use
    BY Unstored DEF AnsweredTypeOK
  <1>2. \A r \in Replicas :
           /\ queue'[r][c].requests + batch'[r][c].requests <= queue[r][c].requests + batch[r][c].requests
           /\ queue'[r][c].limited + batch'[r][c].limited <= queue[r][c].limited + batch[r][c].limited
    BY <1>1 DEF Use
  <1>3. answered[c].requests <= answered'[c].requests /\ answered[c].limited <= answered'[c].limited
    BY <1>1
  <1> QED
    BY <1>2, <1>3, StillCovered

\* An answer is counted once, or dropped by a full channel.
LEMMA RecordCovered ==
  ASSUME UsageTypeOK, UsageTypeOK', AnsweredTypeOK, AnsweredTypeOK', NEW p, NEW c, NEW isLimited \in BOOLEAN,
         Record(p, c, isLimited),
         answered' = IF isLimited THEN [answered EXCEPT ![c].limited = @ + 1]
                                  ELSE [answered EXCEPT ![c].requests = @ + 1],
         NEW d \in Clients, ClientCovered(d)
  PROVE  ClientCovered(d)'
  <1>0. UNCHANGED <<batch, counted>>
    BY DEF Record
  <1>1. CASE d # c
    <2>1. answered'[d] = answered[d]
      BY <1>1 DEF AnsweredTypeOK
    <2>2. \A r \in Replicas : queue'[r][d] = queue[r][d]
      BY <1>1 DEF Record, UsageTypeOK
    <2> QED
      BY <1>0, <2>1, <2>2, OthersCovered
  <1>2. CASE d = c
    <2>1. /\ answered[d].requests \in Nat /\ answered[d].limited \in Nat
          /\ counted[d].requests \in Nat /\ counted[d].limited \in Nat
      BY DEF AnsweredTypeOK, UsageTypeOK
    <2>2. /\ answered'[d].requests = IF isLimited THEN answered[d].requests ELSE answered[d].requests + 1
          /\ answered'[d].limited = IF isLimited THEN answered[d].limited + 1 ELSE answered[d].limited
      BY <1>2 DEF AnsweredTypeOK
    <2>3. \A r \in Replicas : queue[r][d] \in Use /\ batch[r][d] \in Use
      BY Unstored
    <2>4. CASE queue' = queue \/ p \notin Replicas
      <3>1. queue' = queue
        BY <2>4 DEF Record, UsageTypeOK
      <3>2. \A r \in Replicas :
           /\ queue'[r][d].requests + batch'[r][d].requests <= queue[r][d].requests + batch[r][d].requests
           /\ queue'[r][d].limited + batch'[r][d].limited <= queue[r][d].limited + batch[r][d].limited
        BY <1>0, <2>3, <3>1 DEF Use
      <3>3. answered[d].requests <= answered'[d].requests /\ answered[d].limited <= answered'[d].limited
        BY <2>1, <2>2
      <3> QED
        BY <1>0, <3>2, <3>3, StillCovered
    <2>5. CASE p \in Replicas /\ queue' = [queue EXCEPT ![p][c] = Counting(queue[p][c], isLimited)]
      <3> DEFINE u == Counting(queue[p][c], isLimited)
      <3>1. /\ u.requests = IF isLimited THEN queue[p][c].requests ELSE queue[p][c].requests + 1
            /\ u.limited = IF isLimited THEN queue[p][c].limited + 1 ELSE queue[p][c].limited
        BY <1>2, <2>3, <2>5 DEF Counting, Use
      <3>2. queue'[p][d] = u /\ \A r \in Replicas \ {p} : queue'[r][d] = queue[r][d]
        BY <1>2, <2>5 DEF UsageTypeOK
      <3> HIDE DEF u
      <3> DEFINE n == UnstoredRequests(d)
                 m == UnstoredRequests(d)'
                 k == UnstoredLimited(d)
                 l == UnstoredLimited(d)'
      <3>3. /\ \A r \in Replicas : n[r] \in Nat /\ m[r] \in Nat /\ k[r] \in Nat /\ l[r] \in Nat
            /\ \A r \in Replicas \ {p} : m[r] = n[r] /\ l[r] = k[r]
        BY <1>0, <3>2, Unstored, UnstoredNext
      <3>4. /\ m[p] = IF isLimited THEN n[p] ELSE n[p] + 1
            /\ l[p] = IF isLimited THEN k[p] + 1 ELSE k[p]
        <4>1. /\ n[p] = queue[p][d].requests + batch[p][d].requests
              /\ k[p] = queue[p][d].limited + batch[p][d].limited
          BY <2>5, Unstored
        <4>2. /\ m[p] = u.requests + batch[p][d].requests
              /\ l[p] = u.limited + batch[p][d].limited
          BY <1>0, <2>5, <3>2, UnstoredNext
        <4>3. /\ queue[p][d].requests \in Nat /\ batch[p][d].requests \in Nat
              /\ queue[p][d].limited \in Nat /\ batch[p][d].limited \in Nat
          BY <2>3, <2>5 DEF Use
        <4> HIDE DEF n, m, k, l
        <4> QED
          BY <1>2, <3>1, <4>1, <4>2, <4>3
      <3>5. Covered(counted[d].requests, n, answered[d].requests) /\ Covered(counted[d].limited, k, answered[d].limited)
        BY DEF ClientCovered
      <3> HIDE DEF n, m, k, l
      <3>6. CASE isLimited
        <4>1. Covered(counted[d].requests, m, answered[d].requests)
          <5>1. \A r \in Replicas : m[r] <= n[r]
            BY <3>3, <3>4, <3>6
          <5> QED
            BY <2>1, <3>3, <3>5, <5>1, CoveredFewer
        <4>2. Covered(counted[d].limited, l, answered[d].limited + 1)
          BY <2>1, <2>5, <3>3, <3>4, <3>5, <3>6, CoveredOneMore
        <4> QED
          BY <1>0, <2>2, <3>6, <4>1, <4>2 DEF ClientCovered, m, l, Covered, Events
      <3>7. CASE ~isLimited
        <4>1. Covered(counted[d].limited, l, answered[d].limited)
          <5>1. \A r \in Replicas : l[r] <= k[r]
            BY <3>3, <3>4, <3>7
          <5> QED
            BY <2>1, <3>3, <3>5, <5>1, CoveredFewer
        <4>2. Covered(counted[d].requests, m, answered[d].requests + 1)
          BY <2>1, <2>5, <3>3, <3>4, <3>5, <3>7, CoveredOneMore
        <4> QED
          BY <1>0, <2>2, <3>7, <4>1, <4>2 DEF ClientCovered, m, l, Covered, Events
      <3> QED
        BY <3>6, <3>7
    <2> QED
      BY <2>4, <2>5 DEF Record
  <1> QED
    BY <1>1, <1>2

\* The flush moves events from the channel to the batch, and stores each part
\* of the batch at most once.
LEMMA FlushCovered ==
  ASSUME UsageTypeOK, UsageTypeOK', AnsweredTypeOK, UNCHANGED answered,
         NEW p \in Replicas, Flush(p) \/ LoseUsage(p), NEW d \in Clients, ClientCovered(d)
  PROVE  ClientCovered(d)'
  <1>0. AnsweredTypeOK' /\ answered'[d] = answered[d]
    BY DEF AnsweredTypeOK
  <1>1. /\ answered[d].requests \in Nat /\ answered[d].limited \in Nat
        /\ counted[d].requests \in Nat /\ counted[d].limited \in Nat
        /\ \A r \in Replicas : queue[r][d] \in Use /\ batch[r][d] \in Use
    BY Unstored DEF AnsweredTypeOK, UsageTypeOK
  <1>2. answered[d].requests <= answered'[d].requests /\ answered[d].limited <= answered'[d].limited
    BY <1>0, <1>1
  <1>3. NoUse.requests = 0 /\ NoUse.limited = 0 /\ Nothing[d] = NoUse
    BY DEF NoUse, Nothing
  <1>4. ASSUME counted' = counted,
               \A r \in Replicas \ {p} : queue'[r] = queue[r] /\ batch'[r] = batch[r],
               queue'[p][d].requests + batch'[p][d].requests <= queue[p][d].requests + batch[p][d].requests,
               queue'[p][d].limited + batch'[p][d].limited <= queue[p][d].limited + batch[p][d].limited
        PROVE  ClientCovered(d)'
    <2>1. \A r \in Replicas \ {p} :
             /\ queue'[r][d].requests + batch'[r][d].requests <= queue[r][d].requests + batch[r][d].requests
             /\ queue'[r][d].limited + batch'[r][d].limited <= queue[r][d].limited + batch[r][d].limited
      BY <1>1, <1>4 DEF Use
    <2>2. \A r \in Replicas :
             /\ queue'[r][d].requests + batch'[r][d].requests <= queue[r][d].requests + batch[r][d].requests
             /\ queue'[r][d].limited + batch'[r][d].limited <= queue[r][d].limited + batch[r][d].limited
      BY <1>4, <2>1
    <2> QED
      BY <1>0, <1>2, <1>4, <2>2, StillCovered
  <1>5. CASE Drain(p)
    <2>1. /\ counted' = counted /\ queue'[p] = Nothing /\ batch'[p] = queue[p] /\ batch[p] = Nothing
          /\ \A r \in Replicas \ {p} : queue'[r] = queue[r] /\ batch'[r] = batch[r]
      BY <1>5 DEF Drain, UsageTypeOK
    <2> QED
      BY <1>1, <1>3, <1>4, <2>1 DEF Use
  <1>6. CASE LoseUsage(p)
    <2>1. /\ counted' = counted /\ queue'[p] = Nothing /\ batch'[p] = Nothing
          /\ \A r \in Replicas \ {p} : queue'[r] = queue[r] /\ batch'[r] = batch[r]
      BY <1>6 DEF LoseUsage, UsageTypeOK
    <2> QED
      BY <1>1, <1>3, <1>4, <2>1 DEF Use
  <1>7. ASSUME NEW c \in Clients, NEW ok \in BOOLEAN, Touch(p, c, ok) PROVE ClientCovered(d)'
    <2> DEFINE u == [batch[p][c] EXCEPT !.last = 0]
    <2>1. u.requests = batch[p][c].requests /\ u.limited = batch[p][c].limited
      BY DEF UsageTypeOK, Use
    <2>2. batch' = [batch EXCEPT ![p][c] = u]
      BY <1>7, Zenon DEF Touch
    <2> HIDE DEF u
    <2>3. /\ batch'[p][d] = IF d = c THEN u ELSE batch[p][d]
          /\ \A r \in Replicas \ {p} : batch'[r] = batch[r]
      BY <2>2 DEF UsageTypeOK
    <2>4. counted' = counted /\ queue' = queue
      BY <1>7 DEF Touch
    <2>5. batch'[p][d].requests = batch[p][d].requests /\ batch'[p][d].limited = batch[p][d].limited
      BY <2>1, <2>3
    <2> QED
      BY <1>1, <1>4, <2>3, <2>4, <2>5 DEF Use
  <1>8. ASSUME NEW c \in Clients, NEW ok \in BOOLEAN, Upsert(p, c, ok) PROVE ClientCovered(d)'
    <2>1. queue' = queue /\ batch' = [batch EXCEPT ![p][c] = NoUse]
      BY <1>8 DEF Upsert
    <2>2. /\ batch'[p][d] = IF d = c THEN NoUse ELSE batch[p][d]
          /\ \A r \in Replicas \ {p} : batch'[r] = batch[r]
      BY <2>1 DEF UsageTypeOK
    <2>3. CASE ~ok
      <3>1. counted' = counted
        BY <1>8, <2>3 DEF Upsert
      <3> QED
        BY <1>1, <1>3, <1>4, <2>1, <2>2, <3>1 DEF Use
    <2>4. CASE ok /\ d # c
      <3>1. counted'[d] = counted[d]
        <4> DEFINE a == counted[c].requests + batch[p][c].requests
                   b == counted[c].limited + batch[p][c].limited
        <4>1. counted' = [counted EXCEPT ![c].requests = a, ![c].limited = b]
          BY <1>8, <2>4 DEF Upsert
        <4> HIDE DEF a, b
        <4> QED
          BY <2>4, <4>1 DEF UsageTypeOK
      <3>2. \A r \in Replicas : queue'[r][d] = queue[r][d] /\ batch'[r][d] = batch[r][d]
        BY <2>1, <2>2, <2>4
      <3> QED
        BY <1>0, <3>1, <3>2, OthersCovered
    <2>5. CASE ok /\ d = c
      <3> DEFINE x == batch[p][d].requests
                 y == batch[p][d].limited
      <3>1. x \in Nat /\ y \in Nat
        BY <1>1 DEF Use
      <3>2. counted'[d].requests = counted[d].requests + x /\ counted'[d].limited = counted[d].limited + y
        <4> DEFINE a == counted[c].requests + batch[p][c].requests
                   b == counted[c].limited + batch[p][c].limited
        <4>1. counted' = [counted EXCEPT ![c].requests = a, ![c].limited = b]
          BY <1>8, <2>5 DEF Upsert
        <4>2. a = counted[d].requests + x /\ b = counted[d].limited + y
          BY <2>5
        <4> HIDE DEF a, b
        <4>3. counted'[d].requests = a /\ counted'[d].limited = b
          BY <2>5, <4>1 DEF UsageTypeOK
        <4> QED
          BY <4>2, <4>3
      <3> DEFINE n == UnstoredRequests(d)
                 m == UnstoredRequests(d)'
                 k == UnstoredLimited(d)
                 l == UnstoredLimited(d)'
      <3>3. \A r \in Replicas : n[r] \in Nat /\ m[r] \in Nat /\ k[r] \in Nat /\ l[r] \in Nat
        BY Unstored, UnstoredNext
      <3>4. \A r \in Replicas \ {p} : m[r] = n[r] /\ l[r] = k[r]
        BY <2>1, <2>2, Unstored, UnstoredNext
      <3>5. m[p] + x = n[p] /\ l[p] + y = k[p]
        <4>1. n[p] = queue[p][d].requests + x /\ k[p] = queue[p][d].limited + y
          BY Unstored
        <4>2. m[p] = queue[p][d].requests + 0 /\ l[p] = queue[p][d].limited + 0
          BY <1>3, <2>1, <2>2, <2>5, UnstoredNext
        <4>3. queue[p][d].requests \in Nat /\ queue[p][d].limited \in Nat
          BY <1>1 DEF Use
        <4> HIDE DEF n, m, k, l, x, y
        <4> QED
          BY <3>1, <4>1, <4>2, <4>3
      <3>6. Covered(counted[d].requests, n, answered[d].requests) /\ Covered(counted[d].limited, k, answered[d].limited)
        BY DEF ClientCovered
      <3> HIDE DEF n, m, k, l, x, y
      <3>7. Covered(counted[d].requests + x, m, answered[d].requests)
        BY ZenonT(60), <1>1, <3>1, <3>3, <3>4, <3>5, <3>6, CoveredStored
      <3>8. Covered(counted[d].limited + y, l, answered[d].limited)
        BY ZenonT(60), <1>1, <3>1, <3>3, <3>4, <3>5, <3>6, CoveredStored
      <3> QED
        BY <1>0, <3>2, <3>7, <3>8 DEF ClientCovered, m, l, Covered, Events
    <2> QED
      BY <2>3, <2>4, <2>5
  <1> QED
    BY <1>5, <1>6, <1>7, <1>8 DEF Flush

\* Every step of the path keeps every client covered.
LEMMA UsageCoveredStep ==
  ASSUME UsageTypeOK, UsageTypeOK', AnsweredTypeOK, AnsweredTypeOK', UsageCovered, [Next]_vars
  PROVE  UsageCovered'
  <1> SUFFICES ASSUME NEW d \in Clients PROVE ClientCovered(d)'
    BY DEF UsageCovered
  <1>0. ClientCovered(d)
    BY DEF UsageCovered
  <1>1. CASE UNCHANGED <<usageVars, answered>>
    BY <1>0, <1>1, OthersCovered DEF usageVars
  <1>2. ASSUME NEW p, NEW c, NEW isLimited \in BOOLEAN, Record(p, c, isLimited),
               answered' = IF isLimited THEN [answered EXCEPT ![c].limited = @ + 1]
                                        ELSE [answered EXCEPT ![c].requests = @ + 1]
        PROVE  ClientCovered(d)'
    BY <1>0, <1>2, RecordCovered
  <1>3. ASSUME NEW p \in Replicas, Flush(p) \/ Crash(p) PROVE ClientCovered(d)'
    BY <1>0, <1>3, FlushCovered DEF Flush, Crash
  <1>4. ASSUME NEW q \in Requests, RequestStep(q) PROVE ClientCovered(d)'
    <2>1. CASE LimitRequest(q)
      <3>1. /\ Record(request[q].replica, request[q].client, TRUE)
            /\ answered' = [answered EXCEPT ![request[q].client].limited = @ + 1]
        BY <2>1 DEF LimitRequest
      <3> QED
        BY <1>2, <3>1
    <2>2. CASE Serve(q)
      <3>1. /\ Record(request[q].replica, request[q].client, FALSE)
            /\ answered' = [answered EXCEPT ![request[q].client].requests = @ + 1]
        BY <2>2 DEF Serve
      <3> QED
        BY <1>2, <3>1
    <2> QED
      BY <1>1, <1>4, <2>1, <2>2 DEF RequestStep, Arrive, Authenticate, RefuseKey, TurnAway, AdmitRequest
  <1> QED
    BY <1>1, <1>3, <1>4 DEF Next, Manage, TimePasses, ForgetBucket, vars

\* Whatever order the replicas flush in, whichever statements of a flush fail
\* and whenever a replica dies, no answer is counted twice: what is stored and
\* what is on its way never exceed what was answered.
THEOREM UsageIsNeverOvercounted == Spec => []NeverOvercounted
  <1>1. ASSUME Init PROVE UsageCovered
    <2> SUFFICES ASSUME NEW c \in Clients PROVE ClientCovered(c)
      BY DEF UsageCovered
    <2>1. /\ \A r \in Replicas : UnstoredRequests(c)[r] = 0 /\ UnstoredLimited(c)[r] = 0
          /\ counted[c].requests = 0 /\ counted[c].limited = 0
          /\ answered[c].requests = 0 /\ answered[c].limited = 0
      BY <1>1 DEF Init, UsageInit, UnstoredRequests, UnstoredLimited, Nothing, NoUse
    <2>2. ASSUME NEW n, \A r \in Replicas : n[r] = 0 PROVE Events(n) = {}
      BY <2>2 DEF Events
    <2>3. Events(UnstoredRequests(c)) = {} /\ Events(UnstoredLimited(c)) = {}
      BY <2>1, <2>2
    <2> QED
      BY <2>1, <2>3, FS_EmptySet DEF ClientCovered, Covered
  <1>2. AccessInv /\ AccessInv' /\ UsageCovered /\ [Next]_vars => UsageCovered'
    BY UsageCoveredStep DEF AccessInv, AnsweredTypeOK
  <1>3. UsageCovered => NeverOvercounted
    BY DEF UsageCovered, ClientCovered, Covered, NeverOvercounted
  <1> QED
    BY <1>1, <1>2, <1>3, AccessInvariant, PTL DEF Spec

\* In the whole system too, whatever requests, replicas and collectors do
\* around the clients, a credential that stopped being accepted never is again,
\* unless its client expired while an update of it was open.
COROLLARY CredentialsDieInTheWholeSystem == Spec => TokensDieForGood
  BY ClientsRefined, CredentialsDieForGood, PTL
=============================================================================
