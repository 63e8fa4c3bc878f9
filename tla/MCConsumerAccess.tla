-------------------------- MODULE MCConsumerAccess --------------------------
(* One client, two replicas; tokens, requests and replicas are interchangeable. *)
EXTENDS ConsumerAccess, TLC

Symmetry == Permutations(Clients) \cup Permutations(Tokens) \cup Permutations(Operations)
            \cup Permutations(Requests) \cup Permutations(Replicas)

(* Bound: once two requests have been sent, updates are open at the first     *)
(* instants only.                                                            *)
OpenUpdates ==
  \/ \A c \in Clients : RowFree(c)
  \/ now <= 3
  \/ Cardinality({q \in Requests : request[q] # Idle}) <= 1
=============================================================================
