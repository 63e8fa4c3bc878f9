----------------------------- MODULE KeyedForms -----------------------------
(***************************************************************************)
(* The forms of the console that send an Idempotency-Key (lib/idempotency  *)
(* and its callers): what the user submits, submits again after a timeout, *)
(* edits in between or leaves, against a server that applies a key once    *)
(* (AdminIdempotency).  A behaviour follows one form of the console.       *)
(***************************************************************************)
EXTENDS Naturals

CONSTANTS
  Payloads,   \* what a form can be filled with; for rotate, the client
  Blank,       \* absence of a value
  MaxSends,   \* requests in a behaviour
  MaxTurns    \* edits, successes and departures in a behaviour

ASSUME PayloadAssumption == Blank \notin Payloads
ASSUME SendsAssumption == MaxSends \in Nat /\ MaxTurns \in Nat

VARIABLES
  keyedForm,  \* the form followed
  filled,     \* what it is filled with, Blank for nothing
  attempts,   \* the refs: Blank, or the fingerprint and key of the last request
  sends,      \* the requests so far
  effects,    \* the server: the effect each key has had, Blank for none
  mount,      \* which life of the page
  turn        \* ghost: which intent of the user; a bound, too

formVars == <<keyedForm, filled, attempts, sends, effects, mount, turn>>

----------------------------------------------------------------------------
(* stable: the fingerprint depends on what the user filled in only.  busy:   *)
(* until when the button is disabled.  each: a ref per payload.  leaves: the *)
(* page goes elsewhere at the end.                                           *)
Form(name, stable, busy, each, leaves) ==
  [name |-> name, stable |-> stable, busy |-> busy, each |-> each, leaves |-> leaves]

tenantForm    == Form("createTenant", TRUE, "answer", FALSE, TRUE)
resourceForm  == Form("saveResource", TRUE, "settled", FALSE, FALSE)
duplicateForm == Form("duplicateSelectedResource", TRUE, "settled", FALSE, FALSE)
rotateForm    == Form("rotate", TRUE, "settled", TRUE, FALSE)
\* expires_at is computed from the clock with every request
clientForm    == Form("createClient", FALSE, "settled", FALSE, FALSE)

Forms == {tenantForm, resourceForm, duplicateForm, rotateForm, clientForm}

Sends   == 1..MaxSends
Ref(p)  == IF keyedForm.each THEN p ELSE Blank
Refs    == Payloads \cup {Blank}
NoRefs  == [r \in Refs |-> Blank]
Made    == {n \in Sends : sends[n] # Blank}
Mine(n) == sends[n].mount = mount

(* Mutant: the fingerprint leaves out what the user filled in. *)
fingerprintOfForm(n, p) == IF keyedForm.stable THEN <<"form">> ELSE <<p, n>>

Fingerprint(n, p) == IF keyedForm.stable THEN <<p>> ELSE <<p, n>>

(* What a ref remembers and what a request carries; neither is Blank. *)
KeyAttempt == [fingerprint : {<<p>> : p \in Payloads} \cup (Payloads \X Sends), key : Sends]
Submission == [payload : Payloads, key : Sends, mount : Nat, turn : Nat, past : SUBSET Sends,
               server : {"sent", "done", "rejected"},
               client : {"waiting", "settling", "done", "failed"}]

ASSUME BlankAssumption == Blank \notin Nat \cup KeyAttempt \cup Submission

FormsInit ==
  /\ keyedForm \in Forms
  /\ filled = Blank /\ attempts = NoRefs
  /\ sends = [n \in Sends |-> Blank]
  /\ effects = [n \in Sends |-> Blank]
  /\ mount = 0 /\ turn = 0

----------------------------------------------------------------------------
(* Mutant: a new key with every request. *)
keyOfEveryRequest(n, p) == [fingerprint |-> Fingerprint(n, p), key |-> n]

(* stableIdempotencyKey: the key of the last request if it said the same,    *)
(* else a new one.  Keys are named after the request that first sent them.   *)
stableIdempotencyKey(n, p) ==
  LET last == attempts[Ref(p)] IN
  IF last # Blank /\ last.fingerprint = Fingerprint(n, p)
  THEN last ELSE [fingerprint |-> Fingerprint(n, p), key |-> n]

Edit(p) ==
  /\ p # filled /\ turn < MaxTurns
  /\ filled' = p /\ turn' = turn + 1
  /\ UNCHANGED <<keyedForm, attempts, sends, effects, mount>>

ButtonDisabled ==
  \E n \in Made : /\ Mine(n)
                  /\ \/ sends[n].client = "waiting"
                     \/ sends[n].client = "settling" /\ keyedForm.busy = "settled"

(* lib/validation: what the form holds can be sent. *)
Valid(p) == p # Blank

CanSubmit == Valid(filled) /\ ~ButtonDisabled

SubmitForm(n) ==
  LET attempt == stableIdempotencyKey(n, filled) IN
  /\ n \notin Made /\ \A m \in 1..(n - 1) : m \in Made
  /\ CanSubmit
  /\ attempts' = [attempts EXCEPT ![Ref(filled)] = attempt]
  /\ sends' = [sends EXCEPT ![n] =
       [payload |-> filled, key |-> attempt.key, mount |-> mount, turn |-> turn,
        past |-> {m \in Made : sends[m].client = "done"},
        server |-> "sent", client |-> "waiting"]]
  /\ UNCHANGED <<keyedForm, filled, effects, mount, turn>>

(* The server applies the request, or answers as it did for the same key. *)
Apply(n) ==
  /\ n \in Made /\ sends[n].server = "sent"
  /\ sends' = [sends EXCEPT ![n].server = "done"]
  /\ effects' = [effects EXCEPT ![sends[n].key] = IF @ = Blank THEN n ELSE @]
  /\ UNCHANGED <<keyedForm, filled, attempts, mount, turn>>

Reject(n) ==
  /\ n \in Made /\ sends[n].server = "sent"
  /\ sends' = [sends EXCEPT ![n].server = "rejected"]
  /\ UNCHANGED <<keyedForm, filled, attempts, effects, mount, turn>>

Acknowledge(n) ==
  /\ n \in Made /\ sends[n].server = "done" /\ sends[n].client = "waiting"
  /\ sends' = [sends EXCEPT ![n].client = "settling"]
  /\ UNCHANGED <<keyedForm, filled, attempts, effects, mount, turn>>

(* Mutant: the attempt that succeeded is remembered. *)
RememberAttempt(p) == attempts

ForgetAttempt(p) == [attempts EXCEPT ![Ref(p)] = Blank]

(* The views are refetched: the form is emptied and its attempt forgotten, a *)
(* page that leaves takes both with it.  Nothing of a page that is gone is   *)
(* changed, but it still takes the user along.                               *)
Settle(n) ==
  /\ n \in Made /\ sends[n].client = "settling" /\ turn < MaxTurns
  /\ sends' = [sends EXCEPT ![n].client = "done"]
  /\ IF keyedForm.leaves
     THEN mount' = mount + 1 /\ attempts' = NoRefs /\ filled' = Blank /\ turn' = turn + 1
     ELSE /\ UNCHANGED mount
          /\ IF Mine(n)
             THEN /\ attempts' = ForgetAttempt(sends[n].payload)
                  /\ filled' = IF keyedForm.each THEN filled ELSE Blank
                  /\ turn' = turn + 1
             ELSE UNCHANGED <<attempts, filled, turn>>
  /\ UNCHANGED <<keyedForm, effects>>

(* Refused, timed out (REQUEST_TIMEOUT_MS) or disconnected: the form and the *)
(* attempt stay; the server may still act.                                   *)
FormFails(n) ==
  /\ n \in Made /\ sends[n].client = "waiting"
  /\ sends' = [sends EXCEPT ![n].client = "failed"]
  /\ UNCHANGED <<keyedForm, filled, attempts, effects, mount, turn>>

LeavePage ==
  /\ turn < MaxTurns
  /\ mount' = mount + 1 /\ attempts' = NoRefs /\ filled' = Blank /\ turn' = turn + 1
  /\ UNCHANGED <<keyedForm, sends, effects>>

FormsNext ==
  \/ \E p \in Payloads : Edit(p)
  \/ \E n \in Sends : SubmitForm(n) \/ Apply(n) \/ Reject(n) \/ Acknowledge(n) \/ Settle(n) \/ FormFails(n)
  \/ LeavePage

FormsSpec == FormsInit /\ [][FormsNext]_formVars

----------------------------------------------------------------------------
Effect(n) == effects[sends[n].key]

(* However often a form that is not edited is submitted, after a timeout or  *)
(* while the first request is still on its way, the server acts once.  The   *)
(* form of a new API client is left out: its requests all differ.            *)
OneEffectPerIntent ==
  \A n, m \in Made :
    /\ keyedForm.stable /\ sends[n].turn = sends[m].turn
    /\ sends[n].server = "done" /\ sends[m].server = "done"
    => Effect(n) = Effect(m)

(* A form submitted after an earlier submission has come to its end acts     *)
(* again, with the same content too: a tenant, a copy or a rotation the user *)
(* is told of is never the replay of the one before.                         *)
EachSuccessIsItsOwn ==
  \A m \in Made :
    sends[m].client \in {"settling", "done"} =>
      \A n \in sends[m].past : Effect(n) # Effect(m)

(* A key is only ever sent again with the contents it was first sent with,   *)
(* whatever was edited, emptied or left in between: no submission is refused *)
(* as idempotency_mismatch, or answered with the effect of other contents.   *)
KeyMeansContents ==
  \A n, m \in Made : sends[n].key = sends[m].key => sends[n].payload = sends[m].payload

----------------------------------------------------------------------------
(* The requests made, the effects of their keys, and the effect each request *)
(* that the server took was answered with.                                   *)
RequestsMade == {[by |-> n, key |-> sends[n].key, payload |-> sends[n].payload] : n \in Made}

EffectsOfKeys ==
  {[by |-> effects[k], key |-> k, payload |-> sends[effects[k]].payload] :
     k \in {i \in Sends : effects[i] # Blank}}

EffectsAnswered == {<<n, Effect(n)>> : n \in {m \in Made : sends[m].server = "done"}}

FormContract == INSTANCE IdempotencyContract
  WITH Requests <- Sends, Keys <- Sends, asked <- RequestsMade, remembered <- EffectsOfKeys,
       answers <- EffectsAnswered

(* The server of this module answers by the key alone; the server of          *)
(* AdminIdempotency refuses a key that comes back with another payload.  That *)
(* never makes a difference: seen from its forms, the console keeps the       *)
(* contract in which a key is only ever repeated with the same contents, so   *)
(* no submission ends in idempotency_mismatch.                              *)
FormsKeepContract == FormContract!Spec
=============================================================================
