------------------------ MODULE IdempotencyContract ------------------------
(***************************************************************************)
(* What a server promises for requests that carry an idempotency key, with *)
(* no transactions, locks, clocks or retries: while a key is remembered, a *)
(* request with that key has the answer of the request that was performed  *)
(* for it, and only if it says the same; a key that is not remembered is   *)
(* performed, once.  Nothing is promised of a request that is refused: it  *)
(* is never answered here.                                                 *)
(***************************************************************************)
CONSTANTS Requests, Keys, Payloads

VARIABLES
  asked,       \* the requests: who, with which key, saying what
  remembered,  \* those performed whose keys are remembered
  answers      \* <<r, b>>: r got the answer of the performance of b

contractVars == <<asked, remembered, answers>>

Init == asked = {} /\ remembered = {} /\ answers = {}

Unanswered(q) == \A x \in answers : x[1] # q.by

Ask(r, k, p) ==
  /\ \A q \in asked : q.by # r
  /\ asked' = asked \cup {[by |-> r, key |-> k, payload |-> p]}
  /\ UNCHANGED <<remembered, answers>>

Perform(q) ==
  /\ Unanswered(q)
  /\ \A e \in remembered : e.key # q.key
  /\ remembered' = remembered \cup {q}
  /\ answers' = answers \cup {<<q.by, q.by>>}
  /\ UNCHANGED asked

Repeat(q, e) ==
  /\ Unanswered(q)
  /\ e.key = q.key /\ e.payload = q.payload
  /\ answers' = answers \cup {<<q.by, e.by>>}
  /\ UNCHANGED <<asked, remembered>>

Forget(S) ==
  /\ remembered' = remembered \ S
  /\ UNCHANGED <<asked, answers>>

Next ==
  \/ \E r \in Requests, k \in Keys, p \in Payloads : Ask(r, k, p)
  \/ \E q \in asked : Perform(q) \/ \E e \in remembered : Repeat(q, e)
  \/ \E S \in SUBSET remembered : Forget(S)

Spec == Init /\ [][Next]_contractVars
=============================================================================
