---------------------------- MODULE AuditExport ----------------------------
(***************************************************************************)
(* Audit export jobs (internal/auditops/export.go, worker.go and           *)
(* httpapi/audit_operations.go).                                           *)
(*                                                                         *)
(* A request creates a job under its Idempotency-Key.  A small export is   *)
(* generated by the request itself, a large one by the worker of           *)
(* tenancit-audit-jobs; a retry that finds the row still in "processing"   *)
(* generates it a second time.  The payload is stored encrypted, handed    *)
(* out to one download and destroyed, or destroyed when the job expires.   *)
(* A job stands for an (actor, Idempotency-Key) pair and a payload for the *)
(* filter and format it was generated with.                                *)
(***************************************************************************)
EXTENDS Naturals, FiniteSets

CONSTANTS
  Jobs,       \* actor and Idempotency-Key
  Filters,    \* filter and format, what request_fingerprint hashes
  Makers,     \* create requests and export workers
  Readers,    \* download requests
  None

ASSUME ExportAssumption == None \notin Jobs \cup Filters \cup Makers \cup Readers

VARIABLES
  job,        \* audit_export_jobs
  maker,      \* what each request or worker is generating
  reader,     \* the progress of each download
  requested,  \* history: audit.export_requested events, counted per job
  downloads   \* history: audit.export_downloaded events

vars == <<job, maker, reader, requested, downloads>>

Status == {"pending", "processing", "ready", "failed", "expired"}

Unfinished == {"pending", "processing", "ready"}

\* past: expires_at is behind the clock.
Job == [filter : Filters, status : Status, payload : Filters \cup {None},
        past : BOOLEAN, downloaded : BOOLEAN]

\* The absence of a row is not a row.
ASSUME RowAssumption == None \notin Job

Maker == [phase : {"idle", "generating", "built", "failing"},
          job : Jobs \cup {None}, filter : Filters \cup {None}]

Reader == [phase : {"idle", "holding", "sent", "lost"}, job : Jobs \cup {None}]

Resting == [phase |-> "idle", job |-> None, filter |-> None]

ExportTypeOK ==
  /\ job \in [Jobs -> Job \cup {None}]
  /\ maker \in [Makers -> Maker]
  /\ reader \in [Readers -> Reader]
  /\ requested \in [Jobs -> Nat]
  /\ downloads \in SUBSET (Readers \X Jobs)

Init ==
  /\ job = [j \in Jobs |-> None]
  /\ maker = [m \in Makers |-> Resting]
  /\ reader = [r \in Readers |-> [phase |-> "idle", job |-> None]]
  /\ requested = [j \in Jobs |-> 0]
  /\ downloads = {}

-----------------------------------------------------------------------------
Exists(j) == job[j] # None

Generate(m, j, f) == maker' = [maker EXCEPT ![m] = [phase |-> "generating", job |-> j, filter |-> f]]

\* A maker ends its work and keeps nothing of it.
Rest(m) == maker' = [maker EXCEPT ![m] = Resting]

\* Create, the row inserted: the synchronous request goes on to process it.
CreateNew(m, j, f, synchronous) ==
  /\ maker[m].phase = "idle"
  /\ ~Exists(j)
  /\ job' = [job EXCEPT ![j] = [filter |-> f, payload |-> None, past |-> FALSE, downloaded |-> FALSE,
                                status |-> IF synchronous THEN "processing" ELSE "pending"]]
  /\ requested' = [requested EXCEPT ![j] = @ + 1]
  /\ IF synchronous THEN Generate(m, j, f) ELSE UNCHANGED maker
  /\ UNCHANGED <<reader, downloads>>

\* Mutant: the conflict is resolved without comparing fingerprints.
SameRequestAny(j, f) == TRUE

SameRequest(j, f) == job[j].filter = f

\* Create, the key taken by the same request: only a row in "processing" that
\* is small enough to be synchronous makes the retry do anything.
Retry(m, j, f) ==
  /\ maker[m].phase = "idle"
  /\ Exists(j) /\ SameRequest(j, f)
  /\ job[j].status = "processing"
  /\ Generate(m, j, f)
  /\ UNCHANGED <<job, reader, requested, downloads>>

\* ProcessPending: any pending row may be the oldest that is not locked.
ProcessPending(m, j) ==
  /\ maker[m].phase = "idle"
  /\ Exists(j) /\ job[j].status = "pending" /\ ~job[j].past
  /\ job' = [job EXCEPT ![j].status = "processing"]
  /\ Generate(m, j, job[j].filter)
  /\ UNCHANGED <<reader, requested, downloads>>

\* generate, the archive sink and the encryption succeed, or one of them fails.
Produce(m) ==
  /\ maker[m].phase = "generating"
  /\ \/ maker' = [maker EXCEPT ![m].phase = "built"]
     \/ maker' = [maker EXCEPT ![m].phase = "failing"]
  /\ UNCHANGED <<job, reader, requested, downloads>>

\* WHERE status='processing' of the update in process.
Writable(j) == job[j].status = "processing"

\* The last statement of process.
Store(m) ==
  /\ maker[m].phase = "built"
  /\ LET j == maker[m].job IN
       job' = IF Writable(j)
              THEN [job EXCEPT ![j].status = "ready", ![j].payload = maker[m].filter]
              ELSE job
  /\ Rest(m)
  /\ UNCHANGED <<reader, requested, downloads>>

\* Mutant: a late failure overwrites what the other maker stored.
FailAlways(m) ==
  /\ maker[m].phase = "failing"
  /\ job' = [job EXCEPT ![maker[m].job].status = "failed", ![maker[m].job].payload = None]
  /\ Rest(m)
  /\ UNCHANGED <<reader, requested, downloads>>

\* fail.
Fail(m) ==
  /\ maker[m].phase = "failing"
  /\ LET j == maker[m].job IN
       job' = IF job[j].status = "processing" THEN [job EXCEPT ![j].status = "failed"] ELSE job
  /\ Rest(m)
  /\ UNCHANGED <<reader, requested, downloads>>

\* The process is lost, the request's context ends (the update of fail uses the
\* same context) or the database refuses the last statement.
Abandon(m) ==
  /\ maker[m].phase # "idle"
  /\ Rest(m)
  /\ UNCHANGED <<job, reader, requested, downloads>>

\* Mutant: only the time and the absence of a failure are looked at.
AvailableUntilPast(j) == ~job[j].past /\ job[j].status \in {"ready", "expired"}

\* The checks of Consume, under the row lock.
Available(j) == ~job[j].downloaded /\ ~job[j].past /\ job[j].status = "ready"

\* Mutant: the bytes are handed out although the audit event was not written.
ConsumeUnrecorded(r, j) ==
  /\ reader[r].phase = "idle"
  /\ Exists(j) /\ Available(j)
  /\ job' = [job EXCEPT ![j].status = "expired", ![j].downloaded = TRUE, ![j].payload = None]
  /\ reader' = [reader EXCEPT ![r] = [phase |-> "holding", job |-> j]]
  /\ UNCHANGED <<maker, requested, downloads>>

\* Consume up to its commit: the bytes are in the handler's memory.
Consume(r, j) ==
  /\ reader[r].phase = "idle"
  /\ Exists(j) /\ Available(j)
  /\ job' = [job EXCEPT ![j].status = "expired", ![j].downloaded = TRUE, ![j].payload = None]
  /\ downloads' = downloads \cup {<<r, j>>}
  /\ reader' = [reader EXCEPT ![r] = [phase |-> "holding", job |-> j]]
  /\ UNCHANGED <<maker, requested>>

\* The answer is written, or the connection is gone.
Answer(r) ==
  /\ reader[r].phase = "holding"
  /\ \/ reader' = [reader EXCEPT ![r].phase = "sent"]
     \/ reader' = [reader EXCEPT ![r].phase = "lost"]
  /\ UNCHANGED <<job, maker, requested, downloads>>

\* Time passes the expires_at of a job.
Age(j) ==
  /\ Exists(j) /\ ~job[j].past
  /\ job' = [job EXCEPT ![j].past = TRUE]
  /\ UNCHANGED <<maker, reader, requested, downloads>>

\* Mutant: a job that is being processed is left to its maker.
ExpirableUnlessBusy(j) == Exists(j) /\ job[j].past /\ job[j].status \in {"pending", "ready"}

Expirable(j) == Exists(j) /\ job[j].past /\ job[j].status \in Unfinished

\* Expire, one statement over the table.
Expire ==
  /\ \E j \in Jobs : Expirable(j)
  /\ job' = [j \in Jobs |-> IF Expirable(j)
                            THEN [job[j] EXCEPT !.status = "expired", !.payload = None]
                            ELSE job[j]]
  /\ UNCHANGED <<maker, reader, requested, downloads>>

Make(m) ==
  \/ \E j \in Jobs, f \in Filters :
       Retry(m, j, f) \/ \E synchronous \in BOOLEAN : CreateNew(m, j, f, synchronous)
  \/ \E j \in Jobs : ProcessPending(m, j)
  \/ Produce(m) \/ Store(m) \/ Fail(m) \/ Abandon(m)

Next ==
  \/ \E m \in Makers : Make(m)
  \/ \E r \in Readers : Answer(r) \/ \E j \in Jobs : Consume(r, j)
  \/ \E j \in Jobs : Age(j)
  \/ Expire

Spec == Init /\ [][Next]_vars

\* Time passes and the worker's loop comes round; nothing else is promised:
\* makers may be abandoned for good and exports never downloaded.
FairSpec == Spec /\ (\A j \in Jobs : WF_vars(Age(j))) /\ WF_vars(Expire)

-----------------------------------------------------------------------------
(* Properties *)

\* One download at most gets the bytes of a job, even when a second maker ends
\* after the download of what the first one stored.
DownloadedAtMostOnce ==
  \A r, s \in Readers :
    (reader[r].job = reader[s].job /\ reader[r].job # None) => r = s

\* A download that has the bytes left its audit event, and the row never holds
\* a payload again: a second maker that ends later does not put it back.
DownloadIsRecorded ==
  \A r \in Readers : reader[r].job # None =>
    /\ <<r, reader[r].job>> \in downloads
    /\ job[reader[r].job].downloaded /\ job[reader[r].job].payload = None

\* What is stored was generated for the filter the job was requested with.
PayloadMatchesRequest ==
  \A j \in Jobs : (Exists(j) /\ job[j].payload # None) => job[j].payload = job[j].filter

\* A finished job never changes its status again, and an export that is ready
\* stays so until it is downloaded or past its time: a second maker's late
\* failure or result takes nothing back.
SettledStaysStep ==
  \A j \in Jobs : Exists(j) =>
    /\ job[j].status \in {"failed", "expired"} => job'[j].status = job[j].status
    /\ (job[j].status = "ready" /\ job'[j].status # "ready") => job'[j].downloaded \/ job[j].past

SettledStays == [][SettledStaysStep]_vars

\* Every job ends: what a lost worker left in "processing" is expired too.
EveryJobSettles ==
  \A j \in Jobs : Exists(j) ~> (Exists(j) /\ job[j].status \in {"failed", "expired"})
=============================================================================
