----------------------------- MODULE ApiClients -----------------------------
(***************************************************************************)
(* The API clients that consumers authenticate with: their policy, their   *)
(* current token, the replaced tokens that a rotation leaves valid for a   *)
(* grace period, and the handlers that change them.  Every handler locks   *)
(* the client's row (GetAPIClient ... FOR UPDATE), decides and commits.    *)
(* Those that never look at the clock again are one step; a policy update  *)
(* checks the expiry under the lock and commits later, and time may pass   *)
(* in between.  The token a handler generates is new (GenerateAPIToken).   *)
(* The server's clock and the database's are taken to agree.               *)
(***************************************************************************)
EXTENDS Naturals

CONSTANTS
  Clients,      \* identities of api_clients rows, never reused (uuid)
  Tokens,       \* raw tokens; their hashes identify them
  Operations,   \* consumer operations, each behind its own scope
  Limits,       \* requests per minute that a policy may grant
  None,         \* no token, no owner
  TicksPerMinute,  \* a minute on the clock
  MaxLife,      \* the longest policy, in ticks (365 days)
  MaxGrace,     \* the longest grace period, in ticks (86400 s)
  MaxNow        \* bound: the last instant of the clock

ASSUME PolicyAssumption ==
  /\ Limits \subseteq Nat \ {0}
  /\ TicksPerMinute \in Nat \ {0}
  /\ MaxLife \in Nat /\ MaxGrace \in Nat /\ MaxNow \in Nat \ {0}
  /\ None \notin Clients \cup Tokens

VARIABLES
  client,     \* client[c]: the row of c in api_clients with its scopes
  previous,   \* rows of api_client_previous_tokens
  checked,    \* checked[c]: the instant at which the update that holds the row of c
              \* locked found it editable; 0 when no update holds it
  owner,      \* owner[t]: the client a token was issued to (history)
  now         \* the clock; 0 is the zero time

clientVars == <<client, previous, checked, owner, now>>

Row == [status : {"none", "active", "revoked", "deleted"}, token : Tokens \cup {None},
        scopes : SUBSET Operations, rpm : Limits \cup {0}, expires : Nat]

Blank(s) == [status |-> s, token |-> None, scopes |-> {}, rpm |-> 0, expires |-> 0]

ClientsTypeOK ==
  /\ client \in [Clients -> Row]
  /\ \A p \in previous : p.client \in Clients /\ p.token \in Tokens /\ p.until \in Nat
  /\ checked \in [Clients -> 0 .. MaxNow]
  /\ owner \in [Tokens -> Clients \cup {None}]
  /\ now \in 1 .. MaxNow

ClientsInit ==
  /\ client = [c \in Clients |-> Blank("none")]
  /\ previous = {}
  /\ checked = [c \in Clients |-> 0]
  /\ owner = [t \in Tokens |-> None]
  /\ now = 1

Exists(c) == client[c].status \in {"active", "revoked"}

Fresh(t) == owner[t] = None

\* No update holds the row: GetAPIClient ... FOR UPDATE need not wait.
RowFree(c) == checked[c] = 0

Granted(t, c) == owner' = [owner EXCEPT ![t] = c]

-----------------------------------------------------------------------------
(* Administration *)

\* ValidateAPIClientPolicy, which reads the clock at the instant at; the
\* elements of Limits are positive.
ValidPolicy(sc, x, at) == sc # {} /\ x > at /\ x <= at + MaxLife

CreateAPIClient(c, t, sc, n, x) ==
  /\ client[c].status = "none" /\ Fresh(t)
  /\ \E at \in 1 .. now : ValidPolicy(sc, x, at)
  /\ client' = [client EXCEPT ![c] =
       [status |-> "active", token |-> t, scopes |-> sc, rpm |-> n, expires |-> x]]
  /\ Granted(t, c)
  /\ UNCHANGED <<previous, checked, now>>

\* Mutant: a client that expired can be given a new expiry.
EditableWhileActive(c) == client[c].status = "active"

\* client_must_rotate: neither a revoked nor an expired client is edited.
Editable(c) == client[c].status = "active" /\ now < client[c].expires

\* UpdateAPIClientPolicy and ReplaceAPIClientScopes keep status and token.
WithPolicy(r, sc, n, x) ==
  [status |-> r.status, token |-> r.token, scopes |-> sc, rpm |-> n, expires |-> x]

\* The transaction locks the row and decides: the expiry is not read again.
UpdateAPIClient(c) ==
  /\ RowFree(c) /\ Editable(c)
  /\ checked' = [checked EXCEPT ![c] = now]
  /\ UNCHANGED <<client, previous, owner, now>>

\* UpdateAPIClientPolicy asks for an active client only.  The policy was
\* validated before the row was locked.
CommitUpdate(c, sc, n, x) ==
  /\ ~RowFree(c)
  /\ client[c].status = "active"
  /\ \E at \in 1 .. checked[c] : ValidPolicy(sc, x, at)
  /\ client' = [client EXCEPT ![c] = WithPolicy(@, sc, n, x)]
  /\ checked' = [checked EXCEPT ![c] = 0]
  /\ UNCHANGED <<previous, owner, now>>

\* The name is taken, a statement fails or the server ends: it rolls back.
RollBackUpdate(c) ==
  /\ ~RowFree(c)
  /\ checked' = [checked EXCEPT ![c] = 0]
  /\ UNCHANGED <<client, previous, owner, now>>

\* RotateAPIClientToken replaces the hash and keeps the policy.
WithToken(r, t) ==
  [status |-> r.status, token |-> t, scopes |-> r.scopes, rpm |-> r.rpm, expires |-> r.expires]

\* SavePreviousAPIClientToken when a grace was asked for, RotateAPIClientToken;
\* the expiry stays what it was.  A grace counted some time before the commit
\* is a shorter one.
RotateAPIClient(c, t, g) ==
  /\ RowFree(c)
  /\ client[c].status = "active" /\ Fresh(t)
  /\ previous' = IF g = 0 THEN previous
                 ELSE previous \cup {[client |-> c, token |-> client[c].token, until |-> now + g]}
  /\ client' = [client EXCEPT ![c] = WithToken(@, t)]
  /\ Granted(t, c)
  /\ UNCHANGED <<checked, now>>

\* Revoking again changes nothing; a trigger keeps the status terminal.
RevokeAPIClient(c) ==
  /\ RowFree(c) /\ Exists(c)
  /\ client' = [client EXCEPT ![c].status = "revoked"]
  /\ UNCHANGED <<previous, checked, owner, now>>

\* Scopes and previous tokens go with the row (ON DELETE CASCADE).
DeleteAPIClient(c) ==
  /\ RowFree(c) /\ client[c].status = "revoked"
  /\ client' = [client EXCEPT ![c] = Blank("deleted")]
  /\ previous' = {p \in previous : p.client # c}
  /\ UNCHANGED <<checked, owner, now>>

Tick ==
  /\ now < MaxNow
  /\ now' = now + 1
  /\ UNCHANGED <<client, previous, checked, owner>>

Policies == (SUBSET Operations) \X Limits \X (1 .. MaxNow + 1)

AdminStep ==
  \E c \in Clients :
    \/ \E t \in Tokens, p \in Policies : CreateAPIClient(c, t, p[1], p[2], p[3])
    \/ UpdateAPIClient(c)
    \/ \E p \in Policies : CommitUpdate(c, p[1], p[2], p[3])
    \/ RollBackUpdate(c)
    \/ \E t \in Tokens, g \in 0 .. MaxGrace : RotateAPIClient(c, t, g)
    \/ RevokeAPIClient(c)
    \/ DeleteAPIClient(c)

ClientsNext == AdminStep \/ Tick

ClientsSpec == ClientsInit /\ [][ClientsNext]_clientVars

-----------------------------------------------------------------------------
(* Authentication *)

\* GetAPIClientAuthByHash: the current token, or a replaced one in its grace.
Matches(c, t) ==
  /\ Exists(c)
  /\ \/ client[c].token = t
     \/ \E p \in previous : p.client = c /\ p.token = t /\ p.until > now

\* Mutant: the middleware relies on the lookup and checks the expiry only.
AcceptsUnexpired(c, t) == Matches(c, t) /\ now < client[c].expires

\* RequireAPIKey: an active client before its expiry.
Accepts(c, t) == Matches(c, t) /\ client[c].status = "active" /\ now < client[c].expires

Alive(t) == \E c \in Clients : Accepts(c, t)

\* The token belongs to a client that was revoked or deleted.
Dismissed(t) == owner[t] # None /\ client[owner[t]].status \in {"revoked", "deleted"}

-----------------------------------------------------------------------------
(* Properties *)

\* Every existing client has a current token.
ClientsHaveTokens == \A c \in Clients : Exists(c) => client[c].token \in Tokens

\* Replaced tokens are kept for existing clients only.
PreviousHaveClients == \A p \in previous : Exists(p.client)

\* An update decided in time, while the client was not expired, is under way.
DecidedInTime(c) == checked[c] # 0 /\ checked[c] < client[c].expires

\* A token that stopped being accepted is never accepted again: no sequence
\* of policy updates, rotations with and without grace, revocations, removals
\* and passing time brings back a credential that was replaced, expired or
\* revoked.  The one exception is the token a client still has when it expires
\* between the check of an update and its commit (TokensNeverReturn).
DieForGood ==
  \A t \in Tokens :
    /\ owner[t] # None /\ ~Alive(t)
    /\ Matches(owner[t], t) => ~DecidedInTime(owner[t])
    => ~Alive(t)'

TokensDieForGood == [][DieForGood]_clientVars

\* The policy update does not bring back what expired or was revoked, without
\* exception ("não ressuscita expirado/revogado", api-client-policy.md).  The
\* code does, when the client expires between updateAPIClient's check of the
\* expiry and its commit.
NothingReturns == \A t \in Tokens : owner[t] # None /\ ~Alive(t) => ~Alive(t)'

TokensNeverReturn == [][NothingReturns]_clientVars

=============================================================================
