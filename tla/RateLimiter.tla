----------------------------- MODULE RateLimiter -----------------------------
(***************************************************************************)
(* The token bucket that all replicas share: the script that Valkey runs   *)
(* atomically (tokenBucketScript), and the in-memory limiter of a single   *)
(* instance, which computes the same under a mutex.  A minute is           *)
(* TicksPerMinute ticks; a request costs TicksPerMinute units, so that a   *)
(* limit of r requests per minute refills r units per tick and every       *)
(* amount is a whole number.  The limit is the caller's, and may differ    *)
(* from one call to the next.                                              *)
(***************************************************************************)
EXTENDS ApiClients

VARIABLE bucket   \* bucket[c]: [tokens, at], or None when the key is absent

Bucket == [tokens : Nat, at : Nat]

\* A key that is absent is told apart from every bucket.
ASSUME BucketAssumption == None \notin Bucket

LimiterTypeOK == \A c \in Clients : bucket[c] # None => bucket[c] \in Bucket

LimiterInit == bucket = [c \in Clients |-> None]

Capacity(r) == r * TicksPerMinute

Least(a, b) == IF a < b THEN a ELSE b

\* The bucket as the script finds it for limit r.
Filled(c, r) ==
  IF bucket[c] = None THEN Capacity(r)
  ELSE Least(Capacity(r), bucket[c].tokens + (now - bucket[c].at) * r)

Affordable(c, r) == Filled(c, r) >= TicksPerMinute

\* HSET of what is left, whether or not the request was admitted.
Take(c, r, cost) ==
  bucket' = [bucket EXCEPT ![c] = [tokens |-> Filled(c, r) - cost, at |-> now]]

Admit(c, r) == Affordable(c, r) /\ Take(c, r, TicksPerMinute)

Refuse(c, r) == ~Affordable(c, r) /\ Take(c, r, 0)

\* Mutant: the key expires while the bucket is still filling.
TimeToLiveShort == TicksPerMinute \div 2

\* PEXPIRE: two minutes, whatever the limit.
TimeToLive == 2 * TicksPerMinute

\* An idle bucket's key expires.
Forget(c) ==
  /\ bucket[c] # None
  /\ now >= bucket[c].at + TimeToLive
  /\ bucket' = [bucket EXCEPT ![c] = None]

=============================================================================
