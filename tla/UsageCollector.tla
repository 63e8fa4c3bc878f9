--------------------------- MODULE UsageCollector ---------------------------
(***************************************************************************)
(* Every replica queues usage events in a bounded channel and flushes them *)
(* on a ticker: it drains the channel, touches last_used_at of each client *)
(* and then adds the counts to api_client_usage_daily.  A full channel     *)
(* drops the event, a failed statement loses its part of the batch, a      *)
(* crash loses both.  Events are kept as what aggregateEvents makes of     *)
(* them; the split by day, operation and status class is left out.         *)
(***************************************************************************)
EXTENDS ApiClients
LOCAL Ext == INSTANCE FiniteSetsExt

CONSTANTS
  Replicas,
  QueueCapacity    \* capacity of the channel (4096)

VARIABLES
  queue,      \* queue[p][c]: the events of c waiting in replica p's channel
  batch,      \* batch[p][c]: what the flush in progress has still to store
  counted,    \* counted[c]: the client's rows of api_client_usage_daily
  lastUsed    \* lastUsed[c]: api_clients.last_used_at, 0 when NULL

usageVars == <<queue, batch, counted, lastUsed>>

Use == [requests : Nat, limited : Nat, last : Nat]

NoUse == [requests |-> 0, limited |-> 0, last |-> 0]

Nothing == [c \in Clients |-> NoUse]

UsageTypeOK ==
  /\ queue \in [Replicas -> [Clients -> Use]]
  /\ batch \in [Replicas -> [Clients -> Use]]
  /\ counted \in [Clients -> [requests : Nat, limited : Nat]]
  /\ lastUsed \in [Clients -> Nat]

UsageInit ==
  /\ queue = [p \in Replicas |-> Nothing]
  /\ batch = [p \in Replicas |-> Nothing]
  /\ counted = [c \in Clients |-> [requests |-> 0, limited |-> 0]]
  /\ lastUsed = [c \in Clients |-> 0]

Later(a, b) == IF a > b THEN a ELSE b

\* One more event, as aggregateEvents counts it.
Counting(u, isLimited) ==
  [requests |-> u.requests + (IF isLimited THEN 0 ELSE 1),
   limited  |-> u.limited + (IF isLimited THEN 1 ELSE 0),
   last     |-> Later(u.last, now)]

Waiting(p) == Ext!MapThenSumSet(LAMBDA c : queue[p][c].requests + queue[p][c].limited, Clients)

\* Record: never blocks; the event is dropped when the channel is full.
Record(p, c, isLimited) ==
  /\ queue' = IF Waiting(p) < QueueCapacity
              THEN [queue EXCEPT ![p][c] = Counting(@, isLimited)] ELSE queue
  /\ UNCHANGED <<batch, counted, lastUsed>>

-----------------------------------------------------------------------------
(* flush: drain, then every touch, then every upsert, each of which may fail *)

\* Mutant: the drained events stay in the channel.
DrainCopy(p) ==
  /\ batch[p] = Nothing /\ queue[p] # Nothing
  /\ batch' = [batch EXCEPT ![p] = queue[p]]
  /\ UNCHANGED <<queue, counted, lastUsed>>

Drain(p) ==
  /\ batch[p] = Nothing /\ queue[p] # Nothing
  /\ batch' = [batch EXCEPT ![p] = queue[p]]
  /\ queue' = [queue EXCEPT ![p] = Nothing]
  /\ UNCHANGED <<counted, lastUsed>>

\* Mutant: the last flush wins.
TouchedLatest(c, n) == n

\* TouchAPIClientLastUsed, once a minute and never back.
Touched(c, n) ==
  IF lastUsed[c] = 0 \/ lastUsed[c] + TicksPerMinute < n THEN Later(lastUsed[c], n) ELSE lastUsed[c]

\* The statement may fail, and finds no row of a removed client.
Touch(p, c, stored) ==
  /\ batch[p][c].last # 0
  /\ lastUsed' = IF stored /\ Exists(c) THEN [lastUsed EXCEPT ![c] = Touched(c, batch[p][c].last)] ELSE lastUsed
  /\ batch' = [batch EXCEPT ![p][c].last = 0]
  /\ UNCHANGED <<queue, counted>>

Upsert(p, c, stored) ==
  /\ \A d \in Clients : batch[p][d].last = 0
  /\ batch[p][c] # NoUse
  /\ counted' = IF stored
                THEN [counted EXCEPT ![c].requests = @ + batch[p][c].requests,
                                     ![c].limited = @ + batch[p][c].limited]
                ELSE counted
  /\ batch' = [batch EXCEPT ![p][c] = NoUse]
  /\ UNCHANGED <<queue, lastUsed>>

\* The process ends; main does not wait for the last flush of Run.
LoseUsage(p) ==
  /\ queue' = [queue EXCEPT ![p] = Nothing]
  /\ batch' = [batch EXCEPT ![p] = Nothing]
  /\ UNCHANGED <<counted, lastUsed>>

-----------------------------------------------------------------------------
(* Properties *)

\* last_used_at never moves back, whatever order the replicas flush in and
\* however long a batch waits ("não fazem last_used_at retroceder",
\* api-client-policy.md).
NotBack == \A c \in Clients : lastUsed'[c] >= lastUsed[c]

LastUsedNeverBack == [][NotBack]_usageVars

=============================================================================
