---------------------------- MODULE KeyRotation ----------------------------
(***************************************************************************)
(* Rotation of the AES key (internal/crypto, internal/rewrap,              *)
(* cmd/tenancit-rewrap, and the writers of tenant_resource_values).        *)
(*                                                                         *)
(* Replicas are taken through the two roll-outs of the cut-over and, at    *)
(* the end, lose the old key.  Campaigns re-encrypt the secret values in   *)
(* batches while the replicas go on writing; a campaign can be refused,    *)
(* fail, be killed, lose the connection that holds its advisory lock, and  *)
(* be run again with the job id of the change.  A ciphertext is the serial *)
(* number of the write it comes from and the version it is sealed with.    *)
(***************************************************************************)
EXTENDS Naturals, FiniteSets

CONSTANTS
  Rows,        \* secret values
  Targets,     \* webhook targets
  Replicas,    \* server processes
  Campaigns,   \* runs of tenancit-rewrap, all with the same job id
  None,
  BatchSize,   \* bound of the code: rows per transaction
  MaxIdle,     \* empty batches that make up the no-progress timeout
  MaxWrites    \* bound: secret values written

ASSUME RotationAssumption ==
  /\ None \notin Rows \cup Targets \cup Replicas \cup Campaigns
  /\ Replicas \cap Campaigns = {} /\ IsFiniteSet(Rows)
  /\ BatchSize \in Nat \ {0} /\ MaxIdle \in Nat /\ MaxWrites \in Nat

VARIABLES
  stage,      \* the configuration each replica was started with
  row,        \* tenant_resource_values, committed
  owner,      \* the transaction that holds each row's lock
  write,      \* the uncommitted write of each replica
  written,    \* history: the serial of the last committed write of each row
  serial,     \* writes begun so far
  target,     \* version that seals each webhook target, or None
  envelopes,  \* versions that seal unexpired exports and idempotency records
  campaign,
  advisory,   \* session that holds the campaign lock
  reports,    \* operational_reports of the job id: the run behind each status
  evidence    \* fresh backup and restore reports

rowVars == <<row, owner, written, serial>>
vars == <<stage, rowVars, write, target, envelopes, campaign, advisory, reports, evidence>>

From == 1
To == 2

Stages == {"old", "staged", "writing", "retired"}

\* The keyring that FromEnv loads in each stage of the cut-over.
Keyring(s) == [old |-> {From}, staged |-> {From, To}, writing |-> {From, To}, retired |-> {To}][s]

\* Mutant: the newest key loaded is the one that encrypts.
CurrentNewest(s) == IF To \in Keyring(s) THEN To ELSE From

\* TENANCIT_AES_KEY_VERSION, the version Encrypt uses.
Current(s) == IF s \in {"old", "staged"} THEN From ELSE To

Ended == {"succeeded", "previewed", "failed", "refused", "killed"}

Phases == {"idle", "locked", "checked", "ready", "selected", "committed", "reporting"} \cup Ended

Row == [value : Nat, sealed : {From, To}, key_version : {From, To}]

Campaign == [phase : Phases, keys : SUBSET {From, To}, held : [Rows -> Row \cup {None}],
             processed : Nat, idle : Nat]

NoRows == [r \in Rows |-> None]

RotationTypeOK ==
  /\ stage \in [Replicas -> Stages]
  /\ row \in [Rows -> Row]
  /\ owner \in [Rows -> Replicas \cup Campaigns \cup {None}]
  /\ write \in [Replicas -> [row : Rows, value : Nat, version : {From, To}] \cup {None}]
  /\ written \in [Rows -> Nat]
  /\ serial \in 0..MaxWrites
  /\ target \in [Targets -> {From, To, None}]
  /\ envelopes \in SUBSET {From, To}
  /\ campaign \in [Campaigns -> Campaign]
  /\ advisory \in Campaigns \cup {None}
  /\ reports \in [{"healthy", "failed"} -> Campaigns \cup {None}]
  /\ evidence \in BOOLEAN

Init ==
  /\ stage = [p \in Replicas |-> "old"]
  /\ row = [r \in Rows |-> [value |-> 0, sealed |-> From, key_version |-> From]]
  /\ owner = NoRows
  /\ write = [p \in Replicas |-> None]
  /\ written = [r \in Rows |-> 0]
  /\ serial = 0
  /\ target = [t \in Targets |-> None]
  /\ envelopes = {}
  /\ campaign = [c \in Campaigns |-> [phase |-> "idle", keys |-> {}, held |-> NoRows,
                                      processed |-> 0, idle |-> 0]]
  /\ advisory = None
  /\ reports = [s \in {"healthy", "failed"} |-> None]
  /\ evidence = FALSE

-----------------------------------------------------------------------------
(* The replicas and their operators *)

\* The locks of a transaction that ends.
Released(x) == [r \in Rows |-> IF owner[r] = x THEN None ELSE owner[r]]

\* The gates of the runbook for the next stage of a replica.
MayAdvance(s) ==
  CASE s = "staged"  -> TRUE
    [] s = "writing" -> \A p \in Replicas : stage[p] # "old"
    [] s = "retired" -> /\ \A p \in Replicas : stage[p] \in {"writing", "retired"}
                        /\ reports["healthy"] # None
                        /\ \A r \in Rows : row[r].key_version = To
                        /\ From \notin envelopes

NextStage == [old |-> "staged", staged |-> "writing", writing |-> "retired"]

\* A replica is restarted with the configuration of the next stage; the write
\* it was in is rolled back.
Redeploy(p) ==
  /\ stage[p] # "retired"
  /\ MayAdvance(NextStage[stage[p]])
  /\ stage' = [stage EXCEPT ![p] = NextStage[stage[p]]]
  /\ owner' = Released(p)
  /\ write' = [write EXCEPT ![p] = None]
  /\ UNCHANGED <<row, written, serial, target, envelopes, campaign, advisory, reports, evidence>>

\* encodeValue and the upsert: the row stays locked until the request commits.
BeginWrite(p, r) ==
  /\ write[p] = None /\ owner[r] = None /\ serial < MaxWrites
  /\ serial' = serial + 1
  /\ write' = [write EXCEPT ![p] = [row |-> r, value |-> serial + 1, version |-> Current(stage[p])]]
  /\ owner' = [owner EXCEPT ![r] = p]
  /\ UNCHANGED <<stage, row, written, target, envelopes, campaign, advisory, reports, evidence>>

\* The request commits, or rolls back.
EndWrite(p, commit) ==
  /\ write[p] # None
  /\ LET w == write[p] IN
       IF commit
       THEN /\ row' = [row EXCEPT ![w.row] = [value |-> w.value, sealed |-> w.version,
                                              key_version |-> w.version]]
            /\ written' = [written EXCEPT ![w.row] = w.value]
       ELSE UNCHANGED <<row, written>>
  /\ owner' = Released(p)
  /\ write' = [write EXCEPT ![p] = None]
  /\ UNCHANGED <<stage, serial, target, envelopes, campaign, advisory, reports, evidence>>

\* TargetRepository.create seals the URL and the signing secret.
CreateTarget(p, t) ==
  /\ target[t] = None
  /\ target' = [target EXCEPT ![t] = Current(stage[p])]
  /\ UNCHANGED <<stage, rowVars, write, envelopes, campaign, advisory, reports, evidence>>

\* An export or an idempotent answer is stored for at most 24 hours.
StoreEnvelope(p) ==
  /\ envelopes' = envelopes \cup {Current(stage[p])}
  /\ UNCHANGED <<stage, rowVars, write, target, campaign, advisory, reports, evidence>>

ExpireEnvelopes(v) ==
  /\ envelopes' = envelopes \ {v}
  /\ UNCHANGED <<stage, rowVars, write, target, campaign, advisory, reports, evidence>>

\* Backup and restore reports arrive and go stale.
ReportEvidence(fresh) ==
  /\ evidence' = fresh
  /\ UNCHANGED <<stage, rowVars, write, target, envelopes, campaign, advisory, reports>>

-----------------------------------------------------------------------------
(* A campaign *)

Running(c) == campaign[c].phase \notin Ended \cup {"idle"}

Move(c, phase) == campaign' = [campaign EXCEPT ![c].phase = phase]

\* A run ends: its transaction and its session are gone.
End(c, phase) ==
  /\ campaign' = [campaign EXCEPT ![c].phase = phase, ![c].held = NoRows]
  /\ owner' = Released(c)
  /\ advisory' = IF advisory = c THEN None ELSE advisory

\* execute reports the failure of a run; nothing is made of the answer, and a
\* second report under the key of the job id is not stored.
ReportFailure(c) ==
  \/ UNCHANGED reports
  \/ reports["failed"] = None /\ reports' = [reports EXCEPT !["failed"] = c]

Abort(c, phase) == End(c, phase) /\ ReportFailure(c)

\* parseOptions, FromEnv and the advisory lock.  The operator starts a campaign
\* once every replica writes with the new key, and may forget the old key.
Start(c, keys) ==
  /\ campaign[c].phase = "idle"
  /\ To \in keys
  /\ \A p \in Replicas : stage[p] \in {"writing", "retired"}
  /\ \/ /\ advisory = None
        /\ advisory' = c
        /\ campaign' = [campaign EXCEPT ![c].phase = "locked", ![c].keys = keys]
        /\ UNCHANGED <<owner, reports>>
     \/ advisory # None /\ Abort(c, "failed")
  /\ UNCHANGED <<stage, row, written, serial, write, target, envelopes, evidence>>

\* inventory and authenticateAll accept the row.
Authentic(c, r) == row[r].key_version \in campaign[c].keys /\ row[r].sealed = row[r].key_version

\* The preflight snapshot: all rows or none.
Preflight(c) ==
  /\ campaign[c].phase = "locked"
  /\ \/ (\A r \in Rows : Authentic(c, r)) /\ Move(c, "checked") /\ UNCHANGED <<owner, advisory, reports>>
     \/ (\E r \in Rows : ~Authentic(c, r)) /\ Abort(c, "failed")
  /\ UNCHANGED <<stage, row, written, serial, write, target, envelopes, evidence>>

\* A dry run stops here; a confirmed run needs fresh backup and restore reports.
Authorize(c) ==
  /\ campaign[c].phase = "checked"
  /\ \/ End(c, "previewed") /\ UNCHANGED reports
     \/ ~evidence /\ Abort(c, "failed")
     \/ evidence /\ Move(c, "ready") /\ UNCHANGED <<owner, advisory, reports>>
  /\ UNCHANGED <<stage, row, written, serial, write, target, envelopes, evidence>>

Outdated == {r \in Rows : row[r].key_version # To}

Lockable == {r \in Outdated : owner[r] = None}

\* The select of processBatch: as many unlocked candidates as the batch takes,
\* in the order of their random ids.
Select(c, S) ==
  /\ campaign[c].phase = "ready"
  /\ S \subseteq Lockable
  /\ Cardinality(S) = BatchSize \/ (Cardinality(S) < BatchSize /\ S = Lockable)
  /\ owner' = [r \in Rows |-> IF r \in S THEN c ELSE owner[r]]
  /\ campaign' = [campaign EXCEPT ![c].phase = "selected", ![c].processed = Cardinality(S),
                                  ![c].held = [r \in Rows |-> IF r \in S THEN row[r] ELSE None]]
  /\ UNCHANGED <<stage, row, written, serial, write, target, envelopes, advisory, reports, evidence>>

\* Mutant: the row gets the new version number and keeps the old ciphertext.
RewrappedLabel(old) == [value |-> old.value, sealed |-> old.sealed, key_version |-> To]

\* Decrypt with the old version, encrypt with the current one, verify.
Rewrapped(old) == [value |-> old.value, sealed |-> To, key_version |-> To]

Held(c) == {r \in Rows : campaign[c].held[r] # None}

\* The updates of a batch, each compared with what was read, in one commit.
CommitBatch(c) ==
  /\ campaign[c].phase = "selected"
  /\ \A r \in Held(c) : row[r] = campaign[c].held[r]
  /\ row' = [r \in Rows |-> IF r \in Held(c) THEN Rewrapped(campaign[c].held[r]) ELSE row[r]]
  /\ owner' = Released(c)
  /\ campaign' = [campaign EXCEPT ![c].phase = "committed", ![c].held = NoRows]
  /\ UNCHANGED <<stage, written, serial, write, target, envelopes, advisory, reports, evidence>>

\* A statement of the batch fails: the batch is rolled back and the run ends.
FailBatch(c) ==
  /\ campaign[c].phase = "selected"
  /\ Abort(c, "failed")
  /\ UNCHANGED <<stage, row, written, serial, write, target, envelopes, evidence>>

\* Mutant: an empty batch is taken for the end of the work.
CompletedEmpty(c) == campaign[c].processed = 0

\* remaining: the count outside the selection.
Completed(c) == Outdated = {}

\* Mutant: the run goes on polling.
StuckNever(c) == FALSE

Stuck(c) == campaign[c].processed = 0 /\ campaign[c].idle >= MaxIdle

\* The count after a batch, and the poll or the timeout.
Count(c) ==
  /\ campaign[c].phase = "committed"
  /\ \/ Completed(c) /\ Move(c, "reporting") /\ UNCHANGED <<owner, advisory, reports>>
     \/ /\ ~Completed(c) /\ ~Stuck(c)
        /\ campaign' = [campaign EXCEPT ![c].phase = "ready",
             ![c].idle = IF campaign[c].processed > 0 THEN 0
                         ELSE IF @ < MaxIdle THEN @ + 1 ELSE MaxIdle]
        /\ UNCHANGED <<owner, advisory, reports>>
     \/ ~Completed(c) /\ Stuck(c) /\ Abort(c, "failed")
  /\ UNCHANGED <<stage, row, written, serial, write, target, envelopes, evidence>>

\* Report "healthy", under the key of the job id and with the time of this run:
\* stored and answered, stored and the answer lost, or in conflict with the
\* report of another run.
Publish(c) ==
  /\ campaign[c].phase = "reporting"
  /\ \/ /\ reports["healthy"] = None
        /\ reports' = [reports EXCEPT !["healthy"] = c]
        /\ End(c, "succeeded")
     \/ /\ reports["healthy"] = None
        /\ reports' = [reports EXCEPT !["healthy"] = c,
                                      !["failed"] = IF @ = None THEN c ELSE @]
        /\ End(c, "failed")
     \/ reports["healthy"] = None /\ Abort(c, "failed")
     \/ reports["healthy"] # None /\ Abort(c, "refused")
  /\ UNCHANGED <<stage, row, written, serial, write, target, envelopes, evidence>>

\* A signal or the deadline ends the run and is reported; a killed one says nothing.
Interrupt(c) ==
  /\ Running(c)
  /\ Abort(c, "failed") \/ (End(c, "killed") /\ UNCHANGED reports)
  /\ UNCHANGED <<stage, row, written, serial, write, target, envelopes, evidence>>

\* The connection that holds the advisory lock drops; the run does not notice.
LoseLock(c) ==
  /\ Running(c) /\ advisory = c
  /\ advisory' = None
  /\ UNCHANGED <<stage, rowVars, write, target, envelopes, campaign, reports, evidence>>

Advance(c) ==
  \/ Preflight(c) \/ Authorize(c) \/ CommitBatch(c) \/ FailBatch(c) \/ Count(c) \/ Publish(c)
  \/ \E S \in SUBSET Rows : Select(c, S)

Operate ==
  \/ \E p \in Replicas : Redeploy(p) \/ StoreEnvelope(p) \/ \E t \in Targets : CreateTarget(p, t)
  \/ \E p \in Replicas, r \in Rows : BeginWrite(p, r)
  \/ \E p \in Replicas, commit \in BOOLEAN : EndWrite(p, commit)
  \/ \E v \in {From, To} : ExpireEnvelopes(v)
  \/ \E fresh \in BOOLEAN : ReportEvidence(fresh)

Next ==
  \/ Operate
  \/ \E c \in Campaigns : \/ Advance(c) \/ Interrupt(c) \/ LoseLock(c)
                          \/ \E keys \in SUBSET {From, To} : Start(c, keys)

Spec == Init /\ [][Next]_vars

\* A run that was started goes on; replicas and operators may stop, and a
\* writer may hold its row for ever.
FairSpec == Spec /\ \A c \in Campaigns : WF_vars(Advance(c))

-----------------------------------------------------------------------------
(* Properties *)

\* A secret is always the one of its last committed write, sealed with the key
\* its key_version names: no batch, however it races with writers, with another
\* campaign or with its own end, restores an old value or mislabels a row.
SecretsPreserved ==
  \A r \in Rows : row[r].value = written[r] /\ row[r].sealed = row[r].key_version

\* Every replica can read every secret at every point of the two roll-outs, of
\* the campaigns and of the retirement of the old key.
SecretsReadable == \A p \in Replicas, r \in Rows : row[r].sealed \in Keyring(stage[p])

\* Once a run has reported that it is done, no secret is left, or comes back,
\* under the old key.
HealthyMeansMigrated == reports["healthy"] # None => Outdated = {}

\* Every run ends, even when a writer holds a row and never lets it go.
CampaignEnds == \A c \in Campaigns : Running(c) ~> campaign[c].phase \in Ended

\* When the documented conditions hold and the old key is taken away, what is
\* encrypted at rest can still be read: webhook targets included, which the
\* delivery worker and the list of targets must decrypt.
TargetsReadable ==
  \A p \in Replicas, t \in Targets : target[t] # None => target[t] \in Keyring(stage[p])
=============================================================================
