-------------------------- MODULE DeliveryContract --------------------------
(***************************************************************************)
(* What the outbox promises for each pair of an event and a target, with   *)
(* no workers, leases, retries or circuits: whether the pair is owed is    *)
(* decided once, when the event commits; an owed pair stays owed until a   *)
(* receiver acknowledged it or it was given up as dead; only a dead pair   *)
(* can be owed again; and only a settled pair is forgotten.                *)
(***************************************************************************)
CONSTANT Pairs

VARIABLES
  obligation,  \* per pair: "fresh", "owed", "done", "dead" or "closed"
  acked        \* pairs a receiver acknowledged

contractVars == <<obligation, acked>>

Init ==
  /\ obligation = [p \in Pairs |-> "fresh"]
  /\ acked = {}

Commit(owed, skipped) ==
  /\ \A p \in owed \cup skipped : obligation[p] = "fresh"
  /\ obligation' = [p \in Pairs |-> IF p \in owed THEN "owed"
                                    ELSE IF p \in skipped THEN "closed" ELSE obligation[p]]
  /\ UNCHANGED acked

Acknowledge(p) ==
  /\ acked' = acked \cup {p}
  /\ UNCHANGED obligation

Complete(p) ==
  /\ obligation[p] = "owed" /\ p \in acked
  /\ obligation' = [obligation EXCEPT ![p] = "done"]
  /\ UNCHANGED acked

GiveUp(p) ==
  /\ obligation[p] = "owed"
  /\ obligation' = [obligation EXCEPT ![p] = "dead"]
  /\ UNCHANGED acked

Reopen(p) ==
  /\ obligation[p] = "dead"
  /\ obligation' = [obligation EXCEPT ![p] = "owed"]
  /\ UNCHANGED acked

Forget(S) ==
  /\ \A p \in S : obligation[p] \in {"done", "dead"}
  /\ obligation' = [p \in Pairs |-> IF p \in S THEN "closed" ELSE obligation[p]]
  /\ UNCHANGED acked

Next ==
  \/ \E owed, skipped \in SUBSET Pairs : Commit(owed, skipped)
  \/ \E p \in Pairs : Acknowledge(p) \/ Complete(p) \/ GiveUp(p) \/ Reopen(p)
  \/ \E S \in SUBSET Pairs : Forget(S)

Spec == Init /\ [][Next]_contractVars

=============================================================================
