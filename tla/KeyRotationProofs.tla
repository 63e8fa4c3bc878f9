------------------------- MODULE KeyRotationProofs -------------------------
(***************************************************************************)
(* Every secret stays readable through the whole rotation, for any number  *)
(* of secrets, replicas and campaigns and any size of a batch.  The        *)
(* argument is about the order of the cut-over: no campaign runs before    *)
(* every replica writes with the new key, so from then on neither a writer *)
(* nor a batch brings the old version back; a count of zero found by one   *)
(* campaign therefore stays zero, whatever races with its report, and the  *)
(* old key is only taken away after such a report.                         *)
(***************************************************************************)
EXTENDS KeyRotation, FiniteSetTheorems, TLAPS

\* Every replica encrypts with the new key.
CutOver == \A p \in Replicas : stage[p] \in {"writing", "retired"}

\* An uncommitted write is sealed with the key its replica was started with.
WritesFollowStages ==
  \A p \in Replicas : write[p] # None => write[p].version = Current(stage[p])

\* No replica writes with the new key while another cannot read it, and none
\* loses the old key while another writes with it.
StagesInOrder ==
  /\ \A p, q \in Replicas : stage[p] \in {"writing", "retired"} => stage[q] # "old"
  /\ \A p \in Replicas : stage[p] = "retired" => CutOver

\* Before the first roll-out is over nothing is sealed with the new key.
OldKeyWhileOld ==
  \A p \in Replicas, r \in Rows : stage[p] = "old" => row[r].key_version = From

\* A campaign runs after the second roll-out alone, and counts before it
\* reports.
RunsAfterCutOver ==
  \A c \in Campaigns :
    /\ Running(c) => CutOver
    /\ campaign[c].phase = "reporting" => Outdated = {}

\* The report of a campaign stays true, and the old key outlives it.
ReportStaysTrue ==
  /\ reports["healthy"] # None => CutOver /\ Outdated = {}
  /\ \A p \in Replicas : stage[p] = "retired" => reports["healthy"] # None

RotationInv ==
  /\ RotationTypeOK
  /\ SecretsPreserved
  /\ WritesFollowStages
  /\ StagesInOrder
  /\ OldKeyWhileOld
  /\ RunsAfterCutOver
  /\ ReportStaysTrue

-----------------------------------------------------------------------------
\* The rotation begins with every replica and every row on the old key.
LEMMA RotationInitially == Init => RotationInv
  <1> SUFFICES ASSUME Init PROVE RotationInv
    OBVIOUS
  <1>1. \A c \in Campaigns : campaign[c].phase = "idle"
    BY DEF Init
  <1>2. campaign \in [Campaigns -> Campaign]
    <2> DEFINE t == [phase |-> "idle", keys |-> {}, held |-> NoRows, processed |-> 0, idle |-> 0]
    <2>1. NoRows \in [Rows -> Row \cup {None}]
      BY DEF NoRows
    <2>2. t \in Campaign
      BY <2>1 DEF Campaign, Phases
    <2>3. campaign = [c \in Campaigns |-> t]
      BY DEF Init
    <2> QED
      BY <2>2, <2>3
  <1>3. RotationTypeOK
    <2>1. row \in [Rows -> Row]
      BY DEF Init, Row
    <2>2. /\ stage \in [Replicas -> Stages]
          /\ owner \in [Rows -> Replicas \cup Campaigns \cup {None}]
          /\ written \in [Rows -> Nat]
          /\ serial \in 0 .. MaxWrites
          /\ target \in [Targets -> {From, To, None}]
      BY RotationAssumption DEF Init, Stages, NoRows
    <2>3. /\ write \in [Replicas -> [row : Rows, value : Nat, version : {From, To}] \cup {None}]
          /\ reports \in [{"healthy", "failed"} -> Campaigns \cup {None}]
      BY DEF Init
    <2> QED
      BY <1>2, <2>1, <2>2, <2>3 DEF Init, RotationTypeOK
  <1> QED
    BY <1>1, <1>3, RotationAssumption
       DEF Init, RotationInv, SecretsPreserved, WritesFollowStages, StagesInOrder,
           OldKeyWhileOld, RunsAfterCutOver, ReportStaysTrue, Running, CutOver

\* The versions a replica encrypts with, and the keys it can read.
LEMMA KeysOfStages ==
  /\ Current("old") = From /\ Current("staged") = From
  /\ Current("writing") = To /\ Current("retired") = To
  /\ Keyring("old") = {From} /\ Keyring("staged") = {From, To}
  /\ Keyring("writing") = {From, To} /\ Keyring("retired") = {To}
  BY DEF Current, Keyring

\* The stage after each stage.
LEMMA StagesFollow ==
  NextStage["old"] = "staged" /\ NextStage["staged"] = "writing" /\ NextStage["writing"] = "retired"
  BY DEF NextStage

\* A campaign that goes on or ends without touching a row.
LEMMA CampaignMoves ==
  ASSUME RotationInv, NEW c \in Campaigns, NEW t \in Campaign, campaign' = [campaign EXCEPT ![c] = t],
         UNCHANGED <<stage, row, written, serial, write, target, envelopes, evidence>>,
         t.phase \notin Ended \cup {"idle"} => CutOver,
         t.phase = "reporting" => Outdated = {},
         owner' \in [Rows -> Replicas \cup Campaigns \cup {None}],
         advisory' \in Campaigns \cup {None},
         reports' \in [{"healthy", "failed"} -> Campaigns \cup {None}],
         reports["healthy"] # None => reports'["healthy"] # None,
         reports'["healthy"] # None => reports["healthy"] # None \/ (CutOver /\ Outdated = {})
  PROVE  RotationInv'
  <1> USE DEF RotationInv
  <1>1. RotationTypeOK'
    BY DEF RotationTypeOK
  <1>2. SecretsPreserved' /\ WritesFollowStages' /\ StagesInOrder' /\ OldKeyWhileOld'
    BY DEF SecretsPreserved, WritesFollowStages, StagesInOrder, OldKeyWhileOld, CutOver
  <1>3. CutOver' = CutOver /\ Outdated' = Outdated
    BY DEF CutOver, Outdated
  <1>4. RunsAfterCutOver'
    BY <1>3 DEF RunsAfterCutOver, RotationTypeOK, Running
  <1>5. ReportStaysTrue'
    BY <1>3 DEF ReportStaysTrue
  <1> QED
    BY <1>1, <1>2, <1>4, <1>5

\* The locks a transaction leaves behind.
LEMMA ReleasedType ==
  ASSUME RotationInv, NEW x
  PROVE  Released(x) \in [Rows -> Replicas \cup Campaigns \cup {None}]
  BY DEF RotationInv, RotationTypeOK, Released

\* A campaign whose phase alone changes.
LEMMA MovedCampaign ==
  ASSUME RotationInv, NEW c \in Campaigns, NEW phase \in Phases, Move(c, phase)
  PROVE  \E t \in Campaign : t.phase = phase /\ campaign' = [campaign EXCEPT ![c] = t]
  <1> DEFINE t == [campaign[c] EXCEPT !.phase = phase]
  <1>1. campaign' = [campaign EXCEPT ![c] = t]
    BY Zenon DEF Move
  <1>2. t \in Campaign /\ t.phase = phase
    BY DEF RotationInv, RotationTypeOK, Campaign
  <1> QED
    BY <1>1, <1>2

\* A campaign that ends gives its locks back; its report, if it makes one of
\* its failure, says nothing about success.
LEMMA EndStep ==
  ASSUME RotationInv, NEW c \in Campaigns, NEW phase \in Ended, End(c, phase),
         UNCHANGED <<stage, row, written, serial, write, target, envelopes, evidence>>,
         reports' \in [{"healthy", "failed"} -> Campaigns \cup {None}],
         reports["healthy"] # None => reports'["healthy"] # None,
         reports'["healthy"] # None => reports["healthy"] # None \/ (CutOver /\ Outdated = {})
  PROVE  RotationInv'
  <1> DEFINE t == [campaign[c] EXCEPT !.phase = phase, !.held = NoRows]
  <1>1. campaign' = [campaign EXCEPT ![c] = t]
    BY Zenon DEF End
  <1>2. phase \in Phases /\ phase # "reporting"
    BY DEF Phases, Ended
  <1>3. NoRows \in [Rows -> Row \cup {None}]
    BY DEF NoRows
  <1>4. t \in Campaign /\ t.phase = phase
    BY <1>2, <1>3 DEF RotationInv, RotationTypeOK, Campaign
  <1>5. owner' \in [Rows -> Replicas \cup Campaigns \cup {None}]
    BY ReleasedType DEF End
  <1>6. advisory' \in Campaigns \cup {None}
    BY DEF End, RotationInv, RotationTypeOK
  <1> HIDE DEF t
  <1> QED
    BY <1>1, <1>2, <1>4, <1>5, <1>6, CampaignMoves

\* A campaign that fails or is refused, with or without the report of it.
LEMMA AbortStep ==
  ASSUME RotationInv, NEW c \in Campaigns, NEW phase \in Ended, Abort(c, phase),
         UNCHANGED <<stage, row, written, serial, write, target, envelopes, evidence>>
  PROVE  RotationInv'
  <1>1. /\ reports' \in [{"healthy", "failed"} -> Campaigns \cup {None}]
        /\ reports'["healthy"] = reports["healthy"]
    BY DEF Abort, ReportFailure, RotationInv, RotationTypeOK
  <1> QED
    BY <1>1, EndStep DEF Abort

\* A campaign that moves on within its run.
LEMMA MoveStep ==
  ASSUME RotationInv, NEW c \in Campaigns, NEW phase \in Phases, Move(c, phase),
         UNCHANGED <<stage, row, written, serial, write, target, envelopes, evidence>>,
         UNCHANGED <<owner, advisory, reports>>, CutOver,
         phase = "reporting" => Outdated = {}
  PROVE  RotationInv'
  <1>1. PICK t \in Campaign : t.phase = phase /\ campaign' = [campaign EXCEPT ![c] = t]
    BY MovedCampaign
  <1>2. /\ owner' \in [Rows -> Replicas \cup Campaigns \cup {None}]
        /\ advisory' \in Campaigns \cup {None}
        /\ reports' \in [{"healthy", "failed"} -> Campaigns \cup {None}]
    BY DEF RotationInv, RotationTypeOK
  <1> QED
    BY <1>1, <1>2, CampaignMoves

\* parseOptions, FromEnv and the advisory lock.
LEMMA StartStep ==
  ASSUME RotationInv, NEW c \in Campaigns, NEW keys \in SUBSET {From, To}, Start(c, keys)
  PROVE  RotationInv'
  <1>1. CutOver /\ UNCHANGED <<stage, row, written, serial, write, target, envelopes, evidence>>
    BY DEF Start, CutOver
  <1>2. CASE Abort(c, "failed")
    BY <1>1, <1>2, AbortStep DEF Ended
  <1>3. CASE ~Abort(c, "failed")
    <2> DEFINE t == [campaign[c] EXCEPT !.phase = "locked", !.keys = keys]
    <2>1. campaign' = [campaign EXCEPT ![c] = t] /\ advisory' = c /\ UNCHANGED <<owner, reports>>
      BY <1>3, Zenon DEF Start
    <2>2. t \in Campaign /\ t.phase = "locked"
      BY DEF RotationInv, RotationTypeOK, Campaign, Phases
    <2>3. /\ owner' \in [Rows -> Replicas \cup Campaigns \cup {None}]
          /\ advisory' \in Campaigns \cup {None}
          /\ reports' \in [{"healthy", "failed"} -> Campaigns \cup {None}]
      BY <2>1 DEF RotationInv, RotationTypeOK
    <2> HIDE DEF t
    <2> QED
      BY <1>1, <2>1, <2>2, <2>3, CampaignMoves
  <1> QED
    BY <1>2, <1>3

\* The preflight snapshot.
LEMMA PreflightStep ==
  ASSUME RotationInv, NEW c \in Campaigns, Preflight(c)
  PROVE  RotationInv'
  <1>1. CutOver /\ UNCHANGED <<stage, row, written, serial, write, target, envelopes, evidence>>
    BY DEF Preflight, RotationInv, RunsAfterCutOver, Running, Ended
  <1>2. CASE Abort(c, "failed")
    BY <1>1, <1>2, AbortStep DEF Ended
  <1>3. CASE Move(c, "checked") /\ UNCHANGED <<owner, advisory, reports>>
    BY <1>1, <1>3, MoveStep DEF Phases
  <1> QED
    BY <1>2, <1>3 DEF Preflight

\* A dry run, a refusal, or a confirmed run.
LEMMA AuthorizeStep ==
  ASSUME RotationInv, NEW c \in Campaigns, Authorize(c)
  PROVE  RotationInv'
  <1>1. CutOver /\ UNCHANGED <<stage, row, written, serial, write, target, envelopes, evidence>>
    BY DEF Authorize, RotationInv, RunsAfterCutOver, Running, Ended
  <1>2. CASE Abort(c, "failed")
    BY <1>1, <1>2, AbortStep DEF Ended
  <1>3. CASE Move(c, "ready") /\ UNCHANGED <<owner, advisory, reports>>
    BY <1>1, <1>3, MoveStep DEF Phases
  <1>4. CASE End(c, "previewed") /\ UNCHANGED reports
    BY <1>1, <1>4, EndStep DEF Ended, RotationInv, RotationTypeOK
  <1> QED
    BY <1>2, <1>3, <1>4 DEF Authorize

\* The select of a batch.
LEMMA SelectStep ==
  ASSUME RotationInv, NEW c \in Campaigns, NEW S \in SUBSET Rows, Select(c, S)
  PROVE  RotationInv'
  <1> DEFINE h == [r \in Rows |-> IF r \in S THEN row[r] ELSE None]
             n == Cardinality(S)
             t == [campaign[c] EXCEPT !.phase = "selected", !.processed = n, !.held = h]
  <1>1. /\ CutOver
        /\ UNCHANGED <<stage, row, written, serial, write, target, envelopes, evidence>>
        /\ UNCHANGED <<advisory, reports>>
    BY DEF Select, RotationInv, RunsAfterCutOver, Running, Ended
  <1>2. campaign' = [campaign EXCEPT ![c] = t]
    BY Zenon DEF Select
  <1>3. h \in [Rows -> Row \cup {None}]
    BY DEF RotationInv, RotationTypeOK
  <1>4. n \in Nat
    <2>1. IsFiniteSet(S)
      BY RotationAssumption, FS_Subset
    <2> QED
      BY <2>1, FS_CardinalityType
  <1> HIDE DEF h, n
  <1>5. t \in Campaign /\ t.phase = "selected"
    BY <1>3, <1>4 DEF RotationInv, RotationTypeOK, Campaign, Phases
  <1>6. owner' \in [Rows -> Replicas \cup Campaigns \cup {None}]
    BY DEF Select, RotationInv, RotationTypeOK
  <1>7. /\ advisory' \in Campaigns \cup {None}
        /\ reports' \in [{"healthy", "failed"} -> Campaigns \cup {None}]
    BY <1>1 DEF RotationInv, RotationTypeOK
  <1> HIDE DEF t
  <1> QED
    BY <1>1, <1>2, <1>5, <1>6, <1>7, CampaignMoves

\* The commit of a batch: each row it holds is still what the select read, so
\* its value is kept and its version becomes the new one.
LEMMA CommitBatchStep ==
  ASSUME RotationInv, NEW c \in Campaigns, CommitBatch(c)
  PROVE  RotationInv'
  <1> DEFINE t == [campaign[c] EXCEPT !.phase = "committed", !.held = NoRows]
  <1>1. /\ CutOver
        /\ UNCHANGED <<stage, written, serial, write, target, envelopes, advisory, reports, evidence>>
    BY DEF CommitBatch, RotationInv, RunsAfterCutOver, Running, Ended
  <1>2. campaign' = [campaign EXCEPT ![c] = t]
    BY Zenon DEF CommitBatch
  <1>3. NoRows \in [Rows -> Row \cup {None}]
    BY DEF NoRows
  <1>4. t \in Campaign /\ t.phase = "committed"
    BY <1>3 DEF RotationInv, RotationTypeOK, Campaign, Phases
  <1>5. owner' \in [Rows -> Replicas \cup Campaigns \cup {None}]
    BY ReleasedType DEF CommitBatch
  <1> HIDE DEF t
  <1>6. /\ row' \in [Rows -> Row]
        /\ \A r \in Rows :
             /\ row'[r].value = row[r].value /\ row'[r].sealed = row'[r].key_version
             /\ row'[r].key_version = row[r].key_version \/ row'[r].key_version = To
    <2>1. ASSUME NEW r \in Rows
          PROVE  /\ Rewrapped(row[r]) \in Row
                 /\ Rewrapped(row[r]).value = row[r].value
                 /\ Rewrapped(row[r]).sealed = To
                 /\ Rewrapped(row[r]).key_version = To
      BY DEF Rewrapped, Row, RotationInv, RotationTypeOK
    <2>2. row' = [r \in Rows |-> IF r \in Held(c) THEN Rewrapped(row[r]) ELSE row[r]]
      BY DEF CommitBatch
    <2>3. \A r \in Rows : row[r] \in Row /\ row[r].sealed = row[r].key_version
      BY DEF RotationInv, RotationTypeOK, SecretsPreserved
    <2> QED
      BY <2>1, <2>2, <2>3
  <1>7. RotationTypeOK'
    BY <1>1, <1>2, <1>4, <1>5, <1>6 DEF RotationInv, RotationTypeOK
  <1>8. SecretsPreserved'
    BY <1>1, <1>6 DEF RotationInv, SecretsPreserved
  <1>9. WritesFollowStages' /\ StagesInOrder' /\ CutOver'
    BY <1>1 DEF RotationInv, WritesFollowStages, StagesInOrder, CutOver
  <1>10. OldKeyWhileOld'
    BY <1>1 DEF CutOver, OldKeyWhileOld
  <1>11. Outdated = {} => Outdated' = {}
    BY <1>6 DEF Outdated
  <1>12. RunsAfterCutOver'
    <2> SUFFICES ASSUME NEW d \in Campaigns, campaign'[d].phase = "reporting" PROVE Outdated' = {}
      BY <1>9 DEF RunsAfterCutOver
    <2>1. campaign[d].phase = "reporting"
      BY <1>2, <1>4 DEF RotationInv, RotationTypeOK
    <2> QED
      BY <1>11, <2>1 DEF RotationInv, RunsAfterCutOver
  <1>13. ReportStaysTrue'
    BY <1>1, <1>9, <1>11 DEF RotationInv, ReportStaysTrue
  <1> QED
    BY <1>7, <1>8, <1>9, <1>10, <1>12, <1>13 DEF RotationInv

\* A batch that fails is rolled back and ends the run.
LEMMA FailBatchStep ==
  ASSUME RotationInv, NEW c \in Campaigns, FailBatch(c)
  PROVE  RotationInv'
  BY AbortStep DEF FailBatch, Ended

\* The count after a batch: only a count of zero leads to the report.
LEMMA CountStep ==
  ASSUME RotationInv, NEW c \in Campaigns, Count(c)
  PROVE  RotationInv'
  <1>1. CutOver /\ UNCHANGED <<stage, row, written, serial, write, target, envelopes, evidence>>
    BY DEF Count, RotationInv, RunsAfterCutOver, Running, Ended
  <1>2. CASE Completed(c) /\ Move(c, "reporting") /\ UNCHANGED <<owner, advisory, reports>>
    BY <1>1, <1>2, MoveStep DEF Phases, Completed
  <1>3. CASE Abort(c, "failed")
    BY <1>1, <1>3, AbortStep DEF Ended
  <1>4. CASE ~Completed(c) /\ ~Stuck(c) /\ ~Abort(c, "failed")
    <2> DEFINE n == IF campaign[c].processed > 0 THEN 0
                    ELSE IF campaign[c].idle < MaxIdle THEN campaign[c].idle + 1 ELSE MaxIdle
               t == [campaign[c] EXCEPT !.phase = "ready", !.idle = n]
    <2>1. campaign' = [campaign EXCEPT ![c] = t] /\ UNCHANGED <<owner, advisory, reports>>
      BY <1>4, Zenon DEF Count
    <2>2. n \in Nat
      BY RotationAssumption DEF RotationInv, RotationTypeOK, Campaign
    <2> HIDE DEF n
    <2>3. t \in Campaign /\ t.phase = "ready"
      BY <2>2 DEF RotationInv, RotationTypeOK, Campaign, Phases
    <2>4. /\ owner' \in [Rows -> Replicas \cup Campaigns \cup {None}]
          /\ advisory' \in Campaigns \cup {None}
          /\ reports' \in [{"healthy", "failed"} -> Campaigns \cup {None}]
      BY <2>1 DEF RotationInv, RotationTypeOK
    <2> HIDE DEF t
    <2> QED
      BY <1>1, <2>1, <2>3, <2>4, CampaignMoves
  <1> QED
    BY <1>2, <1>3, <1>4 DEF Count

\* The report of success, stored, lost or in conflict with an earlier one.
LEMMA PublishStep ==
  ASSUME RotationInv, NEW c \in Campaigns, Publish(c)
  PROVE  RotationInv'
  <1>1. /\ CutOver /\ Outdated = {}
        /\ UNCHANGED <<stage, row, written, serial, write, target, envelopes, evidence>>
    BY DEF Publish, RotationInv, RunsAfterCutOver, Running, Ended
  <1>2. CASE Abort(c, "failed") \/ Abort(c, "refused")
    BY <1>1, <1>2, AbortStep DEF Ended
  <1>3. CASE reports' = [reports EXCEPT !["healthy"] = c] /\ End(c, "succeeded")
    <2>1. /\ reports' \in [{"healthy", "failed"} -> Campaigns \cup {None}]
          /\ reports'["healthy"] # None
      BY <1>3, RotationAssumption DEF RotationInv, RotationTypeOK
    <2> QED
      BY <1>1, <1>3, <2>1, EndStep DEF Ended
  <1>4. CASE /\ reports' = [reports EXCEPT !["healthy"] = c, !["failed"] = IF @ = None THEN c ELSE @]
             /\ End(c, "failed")
    <2>1. /\ reports' \in [{"healthy", "failed"} -> Campaigns \cup {None}]
          /\ reports'["healthy"] # None
      BY <1>4, RotationAssumption DEF RotationInv, RotationTypeOK
    <2> QED
      BY <1>1, <1>4, <2>1, EndStep DEF Ended
  <1> QED
    BY <1>2, <1>3, <1>4 DEF Publish

\* A signal, the deadline or a kill.
LEMMA InterruptStep ==
  ASSUME RotationInv, NEW c \in Campaigns, Interrupt(c)
  PROVE  RotationInv'
  <1>1. UNCHANGED <<stage, row, written, serial, write, target, envelopes, evidence>>
    BY DEF Interrupt
  <1>2. CASE Abort(c, "failed")
    BY <1>1, <1>2, AbortStep DEF Ended
  <1>3. CASE End(c, "killed") /\ UNCHANGED reports
    BY <1>1, <1>3, EndStep DEF Ended, RotationInv, RotationTypeOK
  <1> QED
    BY <1>2, <1>3 DEF Interrupt

\* Targets, envelopes, evidence and the advisory lock decide nothing about the
\* secrets: the rows are protected without the lock.
LEMMA BystanderStep ==
  ASSUME RotationInv, UNCHANGED <<stage, rowVars, write, campaign, reports>>,
         target' \in [Targets -> {From, To, None}], envelopes' \in SUBSET {From, To},
         advisory' \in Campaigns \cup {None}, evidence' \in BOOLEAN
  PROVE  RotationInv'
  <1>1. UNCHANGED <<stage, row, owner, written, serial, write, campaign, reports>>
    BY DEF rowVars
  <1>2. RotationTypeOK'
    BY <1>1 DEF RotationInv, RotationTypeOK
  <1>3. SecretsPreserved' /\ WritesFollowStages' /\ StagesInOrder' /\ OldKeyWhileOld'
    BY <1>1 DEF RotationInv, SecretsPreserved, WritesFollowStages, StagesInOrder, OldKeyWhileOld, CutOver
  <1>4. CutOver' = CutOver /\ Outdated' = Outdated
    BY <1>1 DEF CutOver, Outdated
  <1>5. RunsAfterCutOver' /\ ReportStaysTrue'
    BY <1>1, <1>4 DEF RotationInv, RunsAfterCutOver, Running, ReportStaysTrue
  <1> QED
    BY <1>2, <1>3, <1>5 DEF RotationInv

\* A key is one of the two versions.
LEMMA CurrentType == \A s : Current(s) \in {From, To}
  BY DEF Current

\* The operations of replicas and operators that touch no secret value.
LEMMA OperateAside ==
  ASSUME RotationInv,
         \/ \E p \in Replicas, t \in Targets : CreateTarget(p, t)
         \/ \E p \in Replicas : StoreEnvelope(p)
         \/ \E v \in {From, To} : ExpireEnvelopes(v)
         \/ \E fresh \in BOOLEAN : ReportEvidence(fresh)
         \/ \E c \in Campaigns : LoseLock(c)
  PROVE  RotationInv'
  <1>1. /\ target \in [Targets -> {From, To, None}] /\ envelopes \in SUBSET {From, To}
        /\ advisory \in Campaigns \cup {None} /\ evidence \in BOOLEAN
    BY DEF RotationInv, RotationTypeOK
  <1>2. ASSUME NEW p \in Replicas, NEW t \in Targets, CreateTarget(p, t) PROVE RotationInv'
    BY <1>1, <1>2, CurrentType, BystanderStep DEF CreateTarget
  <1>3. ASSUME NEW p \in Replicas, StoreEnvelope(p) PROVE RotationInv'
    BY <1>1, <1>3, CurrentType, BystanderStep DEF StoreEnvelope
  <1>4. ASSUME NEW v \in {From, To}, ExpireEnvelopes(v) PROVE RotationInv'
    BY <1>1, <1>4, BystanderStep DEF ExpireEnvelopes
  <1>5. ASSUME NEW fresh \in BOOLEAN, ReportEvidence(fresh) PROVE RotationInv'
    BY <1>1, <1>5, BystanderStep DEF ReportEvidence
  <1>6. ASSUME NEW c \in Campaigns, LoseLock(c) PROVE RotationInv'
    BY <1>1, <1>6, BystanderStep DEF LoseLock
  <1> QED
    BY <1>2, <1>3, <1>4, <1>5, <1>6

\* A replica moves to the next stage of the cut-over, through the gates of the
\* runbook.
LEMMA RedeployStep ==
  ASSUME RotationInv, NEW p \in Replicas, Redeploy(p)
  PROVE  RotationInv'
  <1> DEFINE s == NextStage[stage[p]]
  <1>1. /\ stage' = [stage EXCEPT ![p] = s] /\ write' = [write EXCEPT ![p] = None] /\ MayAdvance(s)
        /\ UNCHANGED <<row, written, serial, target, envelopes, campaign, advisory, reports, evidence>>
    BY DEF Redeploy
  <1>2. \/ stage[p] = "old" /\ s = "staged"
        \/ stage[p] = "staged" /\ s = "writing"
        \/ stage[p] = "writing" /\ s = "retired"
    BY StagesFollow DEF Redeploy, RotationInv, RotationTypeOK, Stages
  <1>3. /\ s = "writing" => \A q \in Replicas : stage[q] # "old"
        /\ s = "retired" => CutOver /\ reports["healthy"] # None
    BY <1>1 DEF MayAdvance, CutOver
  <1> HIDE DEF s
  <1>4. /\ stage' \in [Replicas -> Stages] /\ stage'[p] = s
        /\ \A q \in Replicas : q # p => stage'[q] = stage[q]
    BY <1>1, <1>2 DEF RotationInv, RotationTypeOK, Stages
  <1>5. /\ write' \in [Replicas -> [row : Rows, value : Nat, version : {From, To}] \cup {None}]
        /\ write'[p] = None /\ \A q \in Replicas : q # p => write'[q] = write[q]
    BY <1>1 DEF RotationInv, RotationTypeOK
  <1>6. owner' \in [Rows -> Replicas \cup Campaigns \cup {None}]
    BY ReleasedType DEF Redeploy
  <1>7. RotationTypeOK'
    BY <1>1, <1>4, <1>5, <1>6 DEF RotationInv, RotationTypeOK
  <1>8. SecretsPreserved' /\ Outdated' = Outdated
    BY <1>1 DEF RotationInv, SecretsPreserved, Outdated
  <1>9. WritesFollowStages'
    BY <1>4, <1>5 DEF RotationInv, WritesFollowStages
  <1>10. CutOver => CutOver'
    BY <1>2, <1>4 DEF CutOver
  <1>11. StagesInOrder'
    <2>1. ASSUME NEW q \in Replicas, NEW o \in Replicas, stage'[q] \in {"writing", "retired"}
          PROVE  stage'[o] # "old"
      BY <1>2, <1>3, <1>4, <2>1 DEF RotationInv, StagesInOrder, CutOver
    <2>2. ASSUME NEW q \in Replicas, stage'[q] = "retired" PROVE CutOver'
      BY <1>3, <1>4, <1>10, <2>2 DEF RotationInv, StagesInOrder
    <2> QED
      BY <2>1, <2>2 DEF StagesInOrder
  <1>12. OldKeyWhileOld'
    BY <1>1, <1>2, <1>4 DEF RotationInv, OldKeyWhileOld
  <1>13. RunsAfterCutOver'
    BY <1>1, <1>8, <1>10 DEF RotationInv, RunsAfterCutOver, Running
  <1>14. ReportStaysTrue'
    BY <1>1, <1>3, <1>4, <1>8, <1>10 DEF RotationInv, ReportStaysTrue
  <1> QED
    BY <1>7, <1>8, <1>9, <1>11, <1>12, <1>13, <1>14 DEF RotationInv

\* encodeValue and the upsert.
LEMMA BeginWriteStep ==
  ASSUME RotationInv, NEW p \in Replicas, NEW r \in Rows, BeginWrite(p, r)
  PROVE  RotationInv'
  <1> DEFINE v == Current(stage[p])
             w == [row |-> r, value |-> serial + 1, version |-> v]
  <1>1. /\ write' = [write EXCEPT ![p] = w] /\ owner' = [owner EXCEPT ![r] = p]
        /\ serial' = serial + 1 /\ serial < MaxWrites
        /\ UNCHANGED <<stage, row, written, target, envelopes, campaign, advisory, reports, evidence>>
    BY DEF BeginWrite
  <1>2. v \in {From, To}
    BY CurrentType
  <1> HIDE DEF v
  <1>3. serial' \in 0 .. MaxWrites /\ serial + 1 \in Nat
    BY <1>1, RotationAssumption DEF RotationInv, RotationTypeOK
  <1>4. w \in [row : Rows, value : Nat, version : {From, To}] /\ w.version = v
    BY <1>2, <1>3
  <1> HIDE DEF w
  <1>5. RotationTypeOK'
    BY <1>1, <1>3, <1>4 DEF RotationInv, RotationTypeOK
  <1>6. WritesFollowStages'
    BY <1>1, <1>4 DEF RotationInv, RotationTypeOK, WritesFollowStages, v
  <1>7. SecretsPreserved' /\ StagesInOrder' /\ OldKeyWhileOld' /\ CutOver' = CutOver /\ Outdated' = Outdated
    BY <1>1 DEF RotationInv, SecretsPreserved, StagesInOrder, OldKeyWhileOld, CutOver, Outdated
  <1>8. RunsAfterCutOver' /\ ReportStaysTrue'
    BY <1>1, <1>7 DEF RotationInv, RunsAfterCutOver, Running, ReportStaysTrue
  <1> QED
    BY <1>5, <1>6, <1>7, <1>8 DEF RotationInv

\* The request commits what it sealed with the key of its replica, or rolls
\* back.
LEMMA EndWriteStep ==
  ASSUME RotationInv, NEW p \in Replicas, NEW commit \in BOOLEAN, EndWrite(p, commit)
  PROVE  RotationInv'
  <1>1. /\ write' = [write EXCEPT ![p] = None]
        /\ UNCHANGED <<stage, serial, target, envelopes, campaign, advisory, reports, evidence>>
    BY DEF EndWrite
  <1>2. /\ write' \in [Replicas -> [row : Rows, value : Nat, version : {From, To}] \cup {None}]
        /\ write'[p] = None /\ \A q \in Replicas : q # p => write'[q] = write[q]
    BY <1>1 DEF RotationInv, RotationTypeOK
  <1>3. owner' \in [Rows -> Replicas \cup Campaigns \cup {None}]
    BY ReleasedType DEF EndWrite
  <1>4. /\ row' \in [Rows -> Row] /\ written' \in [Rows -> Nat] /\ SecretsPreserved'
        /\ \A r \in Rows : row'[r] = row[r] \/ row'[r].key_version = Current(stage[p])
    <2>1. CASE ~commit
      BY <2>1 DEF EndWrite, RotationInv, RotationTypeOK, SecretsPreserved
    <2>2. CASE commit
      <3> DEFINE w == write[p]
                 t == [value |-> w.value, sealed |-> w.version, key_version |-> w.version]
      <3>1. w \in [row : Rows, value : Nat, version : {From, To}] /\ w.version = Current(stage[p])
        BY DEF EndWrite, RotationInv, RotationTypeOK, WritesFollowStages
      <3>2. row' = [row EXCEPT ![w.row] = t] /\ written' = [written EXCEPT ![w.row] = w.value]
        BY <2>2 DEF EndWrite
      <3>3. /\ w.row \in Rows /\ w.value \in Nat /\ t \in Row
            /\ t.value = w.value /\ t.sealed = w.version /\ t.key_version = w.version
        BY <3>1 DEF Row
      <3> HIDE DEF w, t
      <3> QED
        BY <3>1, <3>2, <3>3 DEF RotationInv, RotationTypeOK, SecretsPreserved
    <2> QED
      BY <2>1, <2>2
  <1>5. RotationTypeOK'
    BY <1>1, <1>2, <1>3, <1>4 DEF RotationInv, RotationTypeOK
  <1>6. WritesFollowStages'
    BY <1>1, <1>2 DEF RotationInv, WritesFollowStages
  <1>7. StagesInOrder' /\ CutOver' = CutOver
    BY <1>1 DEF RotationInv, StagesInOrder, CutOver
  <1>8. (\E q \in Replicas : stage[q] = "old") => Current(stage[p]) = From
    BY KeysOfStages DEF RotationInv, RotationTypeOK, StagesInOrder, Stages
  <1>9. CutOver => Current(stage[p]) = To
    BY KeysOfStages DEF CutOver
  <1>10. OldKeyWhileOld'
    BY <1>1, <1>4, <1>8 DEF RotationInv, OldKeyWhileOld
  <1>11. CutOver /\ Outdated = {} => Outdated' = {}
    BY <1>4, <1>9 DEF Outdated
  <1>12. RunsAfterCutOver'
    <2>1. \A c \in Campaigns : campaign[c].phase = "reporting" => Running(c)
      BY DEF Running, Ended
    <2> QED
      BY <1>1, <1>7, <1>11, <2>1 DEF RotationInv, RunsAfterCutOver, Running
  <1>13. ReportStaysTrue'
    BY <1>1, <1>7, <1>11 DEF RotationInv, ReportStaysTrue
  <1> QED
    BY <1>4, <1>5, <1>6, <1>7, <1>10, <1>12, <1>13 DEF RotationInv

-----------------------------------------------------------------------------
\* Every step of a replica, an operator and a campaign preserves the invariant.
LEMMA RotationInductive == RotationInv /\ [Next]_vars => RotationInv'
  <1> SUFFICES ASSUME RotationInv, [Next]_vars PROVE RotationInv'
    OBVIOUS
  <1>1. CASE Operate
    BY <1>1, OperateAside, RedeployStep, BeginWriteStep, EndWriteStep DEF Operate
  <1>2. ASSUME NEW c \in Campaigns, Advance(c) PROVE RotationInv'
    BY <1>2, PreflightStep, AuthorizeStep, SelectStep, CommitBatchStep, FailBatchStep, CountStep, PublishStep
       DEF Advance
  <1>3. ASSUME NEW c \in Campaigns,
               Interrupt(c) \/ LoseLock(c) \/ \E keys \in SUBSET {From, To} : Start(c, keys)
        PROVE  RotationInv'
    BY <1>3, InterruptStep, OperateAside, StartStep
  <1>4. CASE UNCHANGED vars
    BY <1>4, BystanderStep DEF vars, RotationInv, RotationTypeOK
  <1> QED
    BY <1>1, <1>2, <1>3, <1>4 DEF Next

\* The inductive invariant holds in every reachable state: the roll-outs keep
\* their order, a campaign runs after both of them, and its report stays true.
THEOREM RotationInvariant == Spec => []RotationInv
  BY RotationInitially, RotationInductive, PTL DEF Spec

\* The rows, the writes and the campaigns are well formed.
THEOREM RotationTypes == Spec => []RotationTypeOK
  <1>1. RotationInv => RotationTypeOK
    BY DEF RotationInv
  <1> QED
    BY <1>1, RotationInvariant, PTL

\* No batch, however it races with writers and other campaigns, restores an
\* old value or mislabels a row: the update compares with what was read.
THEOREM NoSecretIsLost == Spec => []SecretsPreserved
  <1>1. RotationInv => SecretsPreserved
    BY DEF RotationInv
  <1> QED
    BY <1>1, RotationInvariant, PTL

\* Every replica can decrypt every secret at every point of the rotation.
THEOREM SecretsStayReadable == Spec => []SecretsReadable
  <1>1. ASSUME RotationInv PROVE SecretsReadable
    <2> SUFFICES ASSUME NEW p \in Replicas, NEW r \in Rows PROVE row[r].sealed \in Keyring(stage[p])
      BY DEF SecretsReadable
    <2>1. row[r].sealed = row[r].key_version /\ row[r].sealed \in {From, To}
      BY <1>1 DEF RotationInv, RotationTypeOK, SecretsPreserved, Row
    <2>2. CASE stage[p] = "old"
      BY <1>1, <2>1, <2>2, KeysOfStages DEF RotationInv, OldKeyWhileOld
    <2>3. CASE stage[p] \in {"staged", "writing"}
      BY <2>1, <2>3, KeysOfStages
    <2>4. CASE stage[p] = "retired"
      <3>1. Outdated = {}
        BY <1>1, <2>4 DEF RotationInv, ReportStaysTrue
      <3> QED
        BY <2>1, <2>4, <3>1, KeysOfStages DEF Outdated
    <2> QED
      BY <1>1, <2>2, <2>3, <2>4 DEF RotationInv, RotationTypeOK, Stages
  <1> QED
    BY <1>1, RotationInvariant, PTL

\* Once a run has reported that it is done, no secret is left, or comes back,
\* under the old key.
THEOREM ReportsAreTrue == Spec => []HealthyMeansMigrated
  <1>1. RotationInv => HealthyMeansMigrated
    BY DEF RotationInv, ReportStaysTrue, HealthyMeansMigrated
  <1> QED
    BY <1>1, RotationInvariant, PTL
=============================================================================
