------------------------- MODULE AuditExportProofs -------------------------
(***************************************************************************)
(* What a download promises, for any number of jobs, makers and readers.   *)
(* None of it is inductive alone: a second maker of a job is harmless only *)
(* because every maker works with the filter of its job, because payloads  *)
(* are kept in "ready" rows alone, and because a downloaded row has left   *)
(* the only status that process may write to.                              *)
(***************************************************************************)
EXTENDS AuditExport, TLAPS

\* A maker at work has the filter of the row it works for.
MakersHaveTheFilter ==
  \A m \in Makers : maker[m].phase # "idle" =>
    /\ maker[m].job \in Jobs
    /\ job[maker[m].job] \in Job
    /\ maker[m].filter = job[maker[m].job].filter

\* Only a ready row holds a payload, the one its request asked for.
PayloadsAreReady ==
  \A j \in Jobs : (Exists(j) /\ job[j].payload # None) =>
    job[j].status = "ready" /\ job[j].payload = job[j].filter

\* A row some download took is expired and empty, and the download recorded.
TakenRowsAreDone ==
  \A r \in Readers : reader[r].job # None =>
    /\ job[reader[r].job] \in Job
    /\ job[reader[r].job].status = "expired"
    /\ job[reader[r].job].downloaded
    /\ job[reader[r].job].payload = None
    /\ <<r, reader[r].job>> \in downloads

ExportInv ==
  /\ ExportTypeOK
  /\ MakersHaveTheFilter
  /\ PayloadsAreReady
  /\ TakenRowsAreDone
  /\ DownloadedAtMostOnce

-----------------------------------------------------------------------------
\* Initially there is no row and nobody at work.
LEMMA ExportInitially == Init => ExportInv
  BY ExportAssumption DEF Init, ExportInv, ExportTypeOK, MakersHaveTheFilter, PayloadsAreReady,
     TakenRowsAreDone, DownloadedAtMostOnce, Exists, Resting, Maker, Reader, Job

\* What an update of one row may do without disturbing makers and readers: it
\* keeps the filter, and a row already downloaded is left as it was.
LEMMA RowStep ==
  ASSUME ExportInv, NEW j \in Jobs, job[j] \in Job, NEW t \in Job,
         job' = [job EXCEPT ![j] = t],
         t.filter = job[j].filter,
         t.payload # None => t.status = "ready" /\ t.payload = t.filter,
         job[j].status = "expired" => t.status = "expired" /\ t.payload = None,
         job[j].downloaded => t.downloaded
  PROVE  /\ job' \in [Jobs -> Job \cup {None}]
         /\ PayloadsAreReady'
         /\ \A m \in Makers : maker[m].phase # "idle" =>
              /\ maker[m].job \in Jobs
              /\ job'[maker[m].job] \in Job
              /\ maker[m].filter = job'[maker[m].job].filter
         /\ \A r \in Readers : reader[r].job # None =>
              /\ job'[reader[r].job] \in Job
              /\ job'[reader[r].job].status = "expired"
              /\ job'[reader[r].job].downloaded
              /\ job'[reader[r].job].payload = None
  <1> USE DEF ExportInv, ExportTypeOK
  <1>1. job' \in [Jobs -> Job \cup {None}]
    OBVIOUS
  <1>2. PayloadsAreReady'
    BY DEF PayloadsAreReady, Exists
  <1>3. ASSUME NEW m \in Makers, maker[m].phase # "idle"
        PROVE  /\ maker[m].job \in Jobs
               /\ job'[maker[m].job] \in Job
               /\ maker[m].filter = job'[maker[m].job].filter
    BY <1>3 DEF MakersHaveTheFilter
  <1>4. ASSUME NEW r \in Readers, reader[r].job # None
        PROVE  /\ job'[reader[r].job] \in Job
               /\ job'[reader[r].job].status = "expired"
               /\ job'[reader[r].job].downloaded
               /\ job'[reader[r].job].payload = None
    BY <1>4 DEF TakenRowsAreDone
  <1> QED
    BY <1>1, <1>2, <1>3, <1>4

\* A maker that starts on an existing row with the row's filter, or rests,
\* keeps the rest of the makers as they are.
LEMMA MakerStep ==
  ASSUME ExportInv, NEW m \in Makers, NEW t \in Maker, maker' = [maker EXCEPT ![m] = t],
         \A n \in Makers : maker[n].phase # "idle" =>
           /\ maker[n].job \in Jobs
           /\ job'[maker[n].job] \in Job
           /\ maker[n].filter = job'[maker[n].job].filter,
         t.phase # "idle" => /\ t.job \in Jobs
                             /\ job'[t.job] \in Job
                             /\ t.filter = job'[t.job].filter
  PROVE  maker' \in [Makers -> Maker] /\ MakersHaveTheFilter'
  BY DEF ExportInv, ExportTypeOK, MakersHaveTheFilter

\* Create, the row inserted.
LEMMA CreateNewStep ==
  ASSUME ExportInv, NEW m \in Makers, NEW j \in Jobs, NEW f \in Filters, NEW synchronous \in BOOLEAN,
         CreateNew(m, j, f, synchronous)
  PROVE  ExportInv'
  <1> DEFINE t == [filter |-> f, payload |-> None, past |-> FALSE, downloaded |-> FALSE,
                   status |-> IF synchronous THEN "processing" ELSE "pending"]
             g == [phase |-> "generating", job |-> j, filter |-> f]
  <1>1. job[j] = None /\ job' = [job EXCEPT ![j] = t] /\ UNCHANGED <<reader, downloads>>
    BY DEF CreateNew, Exists
  <1>2. t \in Job /\ t.filter = f /\ t.payload = None
    BY DEF Job, Status
  <1>3. g \in Maker /\ g.job = j /\ g.filter = f
    BY DEF Maker
  <1>4. maker' = [maker EXCEPT ![m] = g] \/ maker' = maker
    BY DEF CreateNew, Generate
  <1>5. requested' \in [Jobs -> Nat]
    BY DEF CreateNew, ExportInv, ExportTypeOK
  <1> HIDE DEF t, g
  <1> USE DEF ExportInv
  <1>6. job' \in [Jobs -> Job \cup {None}] /\ job'[j] = t /\ \A i \in Jobs : i # j => job'[i] = job[i]
    BY <1>1, <1>2 DEF ExportTypeOK
  <1>7. PayloadsAreReady'
    BY <1>2, <1>6 DEF PayloadsAreReady, Exists
  <1>8. \A n \in Makers : maker[n].phase # "idle" =>
          /\ maker[n].job \in Jobs
          /\ job'[maker[n].job] \in Job
          /\ maker[n].filter = job'[maker[n].job].filter
    BY <1>1, <1>6, RowAssumption DEF MakersHaveTheFilter
  <1>9. maker' \in [Makers -> Maker] /\ MakersHaveTheFilter'
    <2>1. CASE maker' = maker
      BY <1>8, <2>1 DEF MakersHaveTheFilter, ExportTypeOK
    <2>2. CASE maker' = [maker EXCEPT ![m] = g]
      BY <1>2, <1>3, <1>6, <1>8, <2>2, MakerStep
    <2> QED
      BY <1>4, <2>1, <2>2
  <1>10. TakenRowsAreDone'
    <2> SUFFICES ASSUME NEW r \in Readers, reader'[r].job # None
                 PROVE  /\ job'[reader'[r].job] = job[reader[r].job]
                        /\ reader' = reader /\ downloads' = downloads
      BY DEF TakenRowsAreDone
    <2>1. reader[r].job \in Jobs /\ reader[r].job # j
      BY <1>1, RowAssumption DEF TakenRowsAreDone, ExportTypeOK, Reader
    <2> QED
      BY <1>1, <1>6, <2>1
  <1> QED
    BY <1>1, <1>5, <1>6, <1>7, <1>9, <1>10 DEF ExportTypeOK, DownloadedAtMostOnce

\* A step of the makers alone.
LEMMA MakersOnly ==
  ASSUME ExportInv, NEW m \in Makers, NEW t \in Maker, maker' = [maker EXCEPT ![m] = t],
         UNCHANGED <<job, reader, requested, downloads>>,
         t.phase # "idle" => /\ t.job \in Jobs
                             /\ job[t.job] \in Job
                             /\ t.filter = job[t.job].filter
  PROVE  ExportInv'
  <1>1. maker' \in [Makers -> Maker] /\ MakersHaveTheFilter'
    BY MakerStep DEF ExportInv, MakersHaveTheFilter
  <1> QED
    BY <1>1 DEF ExportInv, ExportTypeOK, PayloadsAreReady, TakenRowsAreDone, DownloadedAtMostOnce, Exists

\* A step of the makers that updates a row, under the conditions of RowStep.
LEMMA MakerAndRow ==
  ASSUME ExportInv, NEW m \in Makers, NEW g \in Maker, maker' = [maker EXCEPT ![m] = g],
         NEW j \in Jobs, job[j] \in Job, NEW t \in Job, job' = [job EXCEPT ![j] = t],
         t.filter = job[j].filter,
         t.payload # None => t.status = "ready" /\ t.payload = t.filter,
         job[j].status = "expired" => t.status = "expired" /\ t.payload = None,
         job[j].downloaded => t.downloaded,
         g.phase # "idle" => g.job = j /\ g.filter = job[j].filter,
         UNCHANGED <<reader, requested, downloads>>
  PROVE  ExportInv'
  <1>1. /\ job' \in [Jobs -> Job \cup {None}]
        /\ PayloadsAreReady'
        /\ \A n \in Makers : maker[n].phase # "idle" =>
             /\ maker[n].job \in Jobs
             /\ job'[maker[n].job] \in Job
             /\ maker[n].filter = job'[maker[n].job].filter
        /\ \A r \in Readers : reader[r].job # None =>
             /\ job'[reader[r].job] \in Job
             /\ job'[reader[r].job].status = "expired"
             /\ job'[reader[r].job].downloaded
             /\ job'[reader[r].job].payload = None
    BY RowStep
  <1>2. job'[j] = t
    BY DEF ExportInv, ExportTypeOK
  <1>3. maker' \in [Makers -> Maker] /\ MakersHaveTheFilter'
    BY <1>1, <1>2, MakerStep
  <1>4. TakenRowsAreDone'
    BY <1>1 DEF ExportInv, TakenRowsAreDone
  <1> QED
    BY <1>1, <1>3, <1>4 DEF ExportInv, ExportTypeOK, DownloadedAtMostOnce

\* A maker that rests works for no job.
LEMMA RestingMaker == Resting \in Maker /\ Resting.phase = "idle"
  BY DEF Resting, Maker

\* Create, the key taken by the same request.
LEMMA RetryStep ==
  ASSUME ExportInv, NEW m \in Makers, NEW j \in Jobs, NEW f \in Filters, Retry(m, j, f)
  PROVE  ExportInv'
  <1> DEFINE g == [phase |-> "generating", job |-> j, filter |-> f]
  <1>1. g \in Maker /\ g.job = j /\ g.filter = f
    BY DEF Maker
  <1>2. maker' = [maker EXCEPT ![m] = g] /\ UNCHANGED <<job, reader, requested, downloads>>
    BY DEF Retry, Generate
  <1>3. job[j] \in Job /\ f = job[j].filter
    BY DEF Retry, Exists, SameRequest, ExportInv, ExportTypeOK
  <1> HIDE DEF g
  <1> QED
    BY <1>1, <1>2, <1>3, MakersOnly

\* ProcessPending.
LEMMA ProcessPendingStep ==
  ASSUME ExportInv, NEW m \in Makers, NEW j \in Jobs, ProcessPending(m, j)
  PROVE  ExportInv'
  <1> DEFINE g == [phase |-> "generating", job |-> j, filter |-> job[j].filter]
             t == [job[j] EXCEPT !.status = "processing"]
  <1>1. job[j] \in Job /\ job[j].status = "pending"
    BY DEF ProcessPending, Exists, ExportInv, ExportTypeOK
  <1>2. g \in Maker /\ g.job = j /\ g.filter = job[j].filter
    BY <1>1 DEF Maker, Job
  <1>3. /\ t \in Job /\ t.filter = job[j].filter /\ t.payload = job[j].payload
        /\ t.downloaded = job[j].downloaded
    BY <1>1 DEF Job, Status
  <1>4. job' = [job EXCEPT ![j] = t] /\ UNCHANGED <<reader, requested, downloads>>
    BY Zenon DEF ProcessPending
  <1>5. maker' = [maker EXCEPT ![m] = g]
    BY DEF ProcessPending, Generate
  <1>6. t.payload = None
    BY <1>1, <1>3, RowAssumption DEF ExportInv, PayloadsAreReady, Exists
  <1> HIDE DEF g, t
  <1> QED
    BY <1>1, <1>2, <1>3, <1>4, <1>5, <1>6, MakerAndRow

\* generate, the archive sink and the encryption.
LEMMA ProduceStep ==
  ASSUME ExportInv, NEW m \in Makers, Produce(m)
  PROVE  ExportInv'
  <1>1. PICK p \in {"built", "failing"} : maker' = [maker EXCEPT ![m] = [maker[m] EXCEPT !.phase = p]]
    BY Zenon DEF Produce
  <1> DEFINE g == [maker[m] EXCEPT !.phase = p]
  <1>2. g \in Maker /\ g.job = maker[m].job /\ g.filter = maker[m].filter
    BY DEF ExportInv, ExportTypeOK, Maker
  <1>3. maker[m].phase # "idle" /\ UNCHANGED <<job, reader, requested, downloads>>
    BY DEF Produce
  <1>4. maker' = [maker EXCEPT ![m] = g]
    BY <1>1
  <1>5. /\ g.job \in Jobs
        /\ job[g.job] \in Job
        /\ g.filter = job[g.job].filter
    BY <1>2, <1>3 DEF ExportInv, MakersHaveTheFilter
  <1> HIDE DEF g
  <1> QED
    BY <1>2, <1>3, <1>4, <1>5, MakersOnly

\* The process is lost.
LEMMA AbandonStep ==
  ASSUME ExportInv, NEW m \in Makers, Abandon(m)
  PROVE  ExportInv'
  BY RestingMaker, MakersOnly DEF Abandon, Rest

\* The last statement of process: nothing happens to a row that has left
\* "processing" while the export was generated.
LEMMA StoreStep ==
  ASSUME ExportInv, NEW m \in Makers, Store(m)
  PROVE  ExportInv'
  <1> DEFINE j == maker[m].job
             f == maker[m].filter
             t == [job[j] EXCEPT !.status = "ready", !.payload = f]
  <1>1. j \in Jobs /\ job[j] \in Job /\ f = job[j].filter
    BY DEF Store, ExportInv, MakersHaveTheFilter
  <1>2. maker' = [maker EXCEPT ![m] = Resting] /\ UNCHANGED <<reader, requested, downloads>>
    BY DEF Store, Rest
  <1>3. CASE ~Writable(j)
    BY <1>2, <1>3, RestingMaker, MakersOnly DEF Store
  <1>4. CASE Writable(j)
    <2>1. job' = [job EXCEPT ![j] = t]
      BY <1>4, Zenon DEF Store
    <2> HIDE DEF f
    <2>2. /\ t \in Job /\ t.filter = job[j].filter /\ t.payload = f /\ t.status = "ready"
          /\ t.downloaded = job[j].downloaded
      BY <1>1 DEF Job, Status
    <2>3. job[j].status # "expired"
      BY <1>4 DEF Writable
    <2> HIDE DEF j, t
    <2> QED
      BY <1>1, <1>2, <2>1, <2>2, <2>3, RestingMaker, MakerAndRow
  <1> QED
    BY <1>3, <1>4

\* fail.
LEMMA FailStep ==
  ASSUME ExportInv, NEW m \in Makers, Fail(m)
  PROVE  ExportInv'
  <1> DEFINE j == maker[m].job
             t == [job[j] EXCEPT !.status = "failed"]
  <1>1. j \in Jobs /\ job[j] \in Job
    BY DEF Fail, ExportInv, MakersHaveTheFilter
  <1>2. maker' = [maker EXCEPT ![m] = Resting] /\ UNCHANGED <<reader, requested, downloads>>
    BY DEF Fail, Rest
  <1>3. CASE job[j].status # "processing"
    BY <1>2, <1>3, RestingMaker, MakersOnly DEF Fail
  <1>4. CASE job[j].status = "processing"
    <2>1. job' = [job EXCEPT ![j] = t]
      BY <1>4, Zenon DEF Fail
    <2>2. /\ t \in Job /\ t.filter = job[j].filter /\ t.payload = job[j].payload
          /\ t.downloaded = job[j].downloaded
      BY <1>1 DEF Job, Status
    <2>3. t.payload = None
      BY <1>1, <1>4, <2>2, RowAssumption DEF ExportInv, PayloadsAreReady, Exists
    <2> HIDE DEF j, t
    <2> QED
      BY <1>1, <1>2, <1>4, <2>1, <2>2, <2>3, RestingMaker, MakerAndRow
  <1> QED
    BY <1>3, <1>4

\* Consume takes a row nobody has taken, since a taken row is downloaded.
LEMMA ConsumeStep ==
  ASSUME ExportInv, NEW r \in Readers, NEW j \in Jobs, Consume(r, j)
  PROVE  ExportInv'
  <1> DEFINE t == [job[j] EXCEPT !.status = "expired", !.downloaded = TRUE, !.payload = None]
             h == [phase |-> "holding", job |-> j]
  <1>1. job[j] \in Job /\ ~job[j].downloaded
    BY DEF Consume, Exists, Available, ExportInv, ExportTypeOK
  <1>2. t \in Job /\ t.filter = job[j].filter /\ t.payload = None /\ t.status = "expired" /\ t.downloaded
    BY <1>1 DEF Job, Status
  <1>3. job' = [job EXCEPT ![j] = t]
    BY Zenon DEF Consume
  <1>4. /\ reader' = [reader EXCEPT ![r] = h]
        /\ downloads' = downloads \cup {<<r, j>>}
        /\ UNCHANGED <<maker, requested>>
    BY DEF Consume
  <1>5. h \in Reader /\ h.job = j
    BY DEF Reader
  <1> HIDE DEF t, h
  <1>6. /\ job' \in [Jobs -> Job \cup {None}]
        /\ PayloadsAreReady'
        /\ \A m \in Makers : maker[m].phase # "idle" =>
             /\ maker[m].job \in Jobs
             /\ job'[maker[m].job] \in Job
             /\ maker[m].filter = job'[maker[m].job].filter
        /\ \A s \in Readers : reader[s].job # None =>
             /\ job'[reader[s].job] \in Job
             /\ job'[reader[s].job].status = "expired"
             /\ job'[reader[s].job].downloaded
             /\ job'[reader[s].job].payload = None
    BY <1>1, <1>2, <1>3, RowStep
  <1>7. job'[j] = t
    BY <1>3 DEF ExportInv, ExportTypeOK
  <1>8. reader' \in [Readers -> Reader] /\ reader'[r] = h /\ \A s \in Readers : s # r => reader'[s] = reader[s]
    BY <1>4, <1>5 DEF ExportInv, ExportTypeOK
  <1>9. \A s \in Readers : reader[s].job # j
    BY <1>1, ExportAssumption DEF ExportInv, TakenRowsAreDone
  <1>10. DownloadedAtMostOnce'
    BY <1>5, <1>8, <1>9 DEF ExportInv, DownloadedAtMostOnce
  <1>11. TakenRowsAreDone'
    <2> SUFFICES ASSUME NEW s \in Readers, reader'[s].job # None
                 PROVE  /\ job'[reader'[s].job] \in Job
                        /\ job'[reader'[s].job].status = "expired"
                        /\ job'[reader'[s].job].downloaded
                        /\ job'[reader'[s].job].payload = None
                        /\ <<s, reader'[s].job>> \in downloads'
      BY DEF TakenRowsAreDone
    <2>1. CASE s = r
      BY <1>2, <1>4, <1>5, <1>7, <1>8, <2>1
    <2>2. CASE s # r
      BY <1>4, <1>6, <1>8, <2>2 DEF ExportInv, TakenRowsAreDone
    <2> QED
      BY <2>1, <2>2
  <1>12. downloads' \in SUBSET (Readers \X Jobs)
    BY <1>4 DEF ExportInv, ExportTypeOK
  <1> QED
    BY <1>4, <1>6, <1>8, <1>10, <1>11, <1>12 DEF ExportInv, ExportTypeOK, MakersHaveTheFilter

\* The answer is written or lost; the download keeps its job either way.
LEMMA AnswerStep ==
  ASSUME ExportInv, NEW r \in Readers, Answer(r)
  PROVE  ExportInv'
  <1>1. PICK p \in {"sent", "lost"} : reader' = [reader EXCEPT ![r] = [reader[r] EXCEPT !.phase = p]]
    BY Zenon DEF Answer
  <1> DEFINE h == [reader[r] EXCEPT !.phase = p]
  <1>2. h \in Reader /\ h.job = reader[r].job
    BY DEF ExportInv, ExportTypeOK, Reader
  <1>3. reader' = [reader EXCEPT ![r] = h] /\ UNCHANGED <<job, maker, requested, downloads>>
    BY <1>1 DEF Answer
  <1> HIDE DEF h
  <1>4. reader' \in [Readers -> Reader] /\ \A s \in Readers : reader'[s].job = reader[s].job
    BY <1>2, <1>3 DEF ExportInv, ExportTypeOK
  <1>5. TakenRowsAreDone' /\ DownloadedAtMostOnce'
    BY <1>3, <1>4 DEF ExportInv, TakenRowsAreDone, DownloadedAtMostOnce
  <1> QED
    BY <1>3, <1>4, <1>5 DEF ExportInv, ExportTypeOK, MakersHaveTheFilter, PayloadsAreReady, Exists

\* Time passes the expires_at of a row.
LEMMA AgeStep ==
  ASSUME ExportInv, NEW j \in Jobs, Age(j)
  PROVE  ExportInv'
  <1> DEFINE t == [job[j] EXCEPT !.past = TRUE]
  <1>1. job[j] \in Job
    BY DEF Age, Exists, ExportInv, ExportTypeOK
  <1>2. /\ t \in Job /\ t.filter = job[j].filter /\ t.payload = job[j].payload
        /\ t.status = job[j].status /\ t.downloaded = job[j].downloaded
    BY <1>1 DEF Job
  <1>3. job' = [job EXCEPT ![j] = t]
    BY Zenon DEF Age
  <1>4. UNCHANGED <<maker, reader, requested, downloads>>
    BY DEF Age
  <1>5. t.payload # None => t.status = "ready" /\ t.payload = t.filter
    BY <1>1, <1>2, RowAssumption DEF ExportInv, PayloadsAreReady, Exists
  <1> HIDE DEF t
  <1>6. t.status = "expired" => t.payload = None
    BY <1>5
  <1>7. /\ job' \in [Jobs -> Job \cup {None}]
        /\ PayloadsAreReady'
        /\ \A m \in Makers : maker[m].phase # "idle" =>
             /\ maker[m].job \in Jobs
             /\ job'[maker[m].job] \in Job
             /\ maker[m].filter = job'[maker[m].job].filter
        /\ \A s \in Readers : reader[s].job # None =>
             /\ job'[reader[s].job] \in Job
             /\ job'[reader[s].job].status = "expired"
             /\ job'[reader[s].job].downloaded
             /\ job'[reader[s].job].payload = None
    BY <1>1, <1>2, <1>3, <1>5, <1>6, RowStep
  <1> QED
    BY <1>4, <1>7 DEF ExportInv, ExportTypeOK, MakersHaveTheFilter, TakenRowsAreDone, DownloadedAtMostOnce

\* Expire, over the whole table: a row of it is untouched, or expired and empty.
LEMMA ExpireStep ==
  ASSUME ExportInv, Expire
  PROVE  ExportInv'
  <1> DEFINE t(j) == [job[j] EXCEPT !.status = "expired", !.payload = None]
  <1>1. \A j \in Jobs : job'[j] = IF Expirable(j) THEN t(j) ELSE job[j]
    BY DEF Expire
  <1>2. UNCHANGED <<maker, reader, requested, downloads>>
    BY DEF Expire
  <1>3. ASSUME NEW j \in Jobs, job[j] \in Job
        PROVE  /\ job'[j] \in Job /\ job'[j].filter = job[j].filter
               /\ job'[j].downloaded = job[j].downloaded
               /\ \/ job'[j] = job[j]
                  \/ job'[j].status = "expired" /\ job'[j].payload = None
    <2>1. /\ t(j) \in Job /\ t(j).filter = job[j].filter /\ t(j).downloaded = job[j].downloaded
          /\ t(j).status = "expired" /\ t(j).payload = None
      BY <1>3 DEF Job, Status
    <2> HIDE DEF t
    <2> QED
      BY <1>1, <1>3, <2>1
  <1>4. \A j \in Jobs : job[j] = None => job'[j] = None
    BY <1>1 DEF Expirable, Exists
  <1> HIDE DEF t
  <1>5. \A j \in Jobs : job[j] \in Job \/ job[j] = None
    BY DEF ExportInv, ExportTypeOK
  <1>6. job' \in [Jobs -> Job \cup {None}]
    <2>1. DOMAIN job' = Jobs /\ job' = [j \in Jobs |-> job'[j]]
      BY DEF Expire
    <2> QED
      BY <1>3, <1>4, <1>5, <2>1
  <1>7. PayloadsAreReady'
    BY <1>3, <1>4, <1>5, RowAssumption DEF ExportInv, PayloadsAreReady, Exists
  <1>8. MakersHaveTheFilter'
    BY <1>2, <1>3 DEF ExportInv, MakersHaveTheFilter
  <1>9. TakenRowsAreDone'
    <2> SUFFICES ASSUME NEW r \in Readers, reader[r].job # None
                 PROVE  /\ job'[reader[r].job] \in Job
                        /\ job'[reader[r].job].status = "expired"
                        /\ job'[reader[r].job].downloaded
                        /\ job'[reader[r].job].payload = None
                        /\ <<r, reader[r].job>> \in downloads
      BY <1>2 DEF TakenRowsAreDone
    <2>1. reader[r].job \in Jobs
      BY DEF ExportInv, ExportTypeOK, Reader
    <2> QED
      BY <1>3, <2>1 DEF ExportInv, TakenRowsAreDone
  <1> QED
    BY <1>2, <1>6, <1>7, <1>8, <1>9 DEF ExportInv, ExportTypeOK, DownloadedAtMostOnce

-----------------------------------------------------------------------------
\* Every step of a request, a worker, a download, the clock and the sweep
\* preserves the invariant.
LEMMA ExportInductive == ExportInv /\ [Next]_vars => ExportInv'
  <1> SUFFICES ASSUME ExportInv, [Next]_vars PROVE ExportInv'
    OBVIOUS
  <1>1. ASSUME NEW m \in Makers, Make(m) PROVE ExportInv'
    BY <1>1, RetryStep, CreateNewStep, ProcessPendingStep, ProduceStep, StoreStep, FailStep, AbandonStep
       DEF Make
  <1>2. ASSUME NEW r \in Readers, Answer(r) \/ \E j \in Jobs : Consume(r, j) PROVE ExportInv'
    BY <1>2, AnswerStep, ConsumeStep
  <1>3. CASE UNCHANGED vars
    BY <1>3 DEF vars, ExportInv, ExportTypeOK, MakersHaveTheFilter, PayloadsAreReady, TakenRowsAreDone,
                DownloadedAtMostOnce, Exists
  <1> QED
    BY <1>1, <1>2, <1>3, AgeStep, ExpireStep DEF Next

\* The inductive invariant holds in every reachable state: the makers of a job
\* agree on its filter, payloads are kept in ready rows alone, and a row that
\* was downloaded is expired and empty.
THEOREM ExportInvariant == Spec => []ExportInv
  BY ExportInitially, ExportInductive, PTL DEF Spec

\* The rows, the requests and the downloads are well formed.
THEOREM ExportTypes == Spec => []ExportTypeOK
  <1>1. ExportInv => ExportTypeOK
    BY DEF ExportInv
  <1> QED
    BY <1>1, ExportInvariant, PTL

\* However many makers end, in whatever order, at most one download gets the
\* bytes of a job (Consume).
THEOREM SingleDownload == Spec => []DownloadedAtMostOnce
  <1>1. ExportInv => DownloadedAtMostOnce
    BY DEF ExportInv
  <1> QED
    BY <1>1, ExportInvariant, PTL

\* A download that has the bytes left its audit event and an empty row, and no
\* late maker fills the row again.
THEOREM DownloadsAreRecorded == Spec => []DownloadIsRecorded
  <1>1. ExportInv => DownloadIsRecorded
    BY DEF ExportInv, TakenRowsAreDone, DownloadIsRecorded
  <1> QED
    BY <1>1, ExportInvariant, PTL

\* What is stored was generated for the filter of the request, also when a
\* retry generated it.
THEOREM PayloadsMatch == Spec => []PayloadMatchesRequest
  <1>1. ExportInv => PayloadMatchesRequest
    BY DEF ExportInv, PayloadsAreReady, PayloadMatchesRequest
  <1> QED
    BY <1>1, ExportInvariant, PTL

-----------------------------------------------------------------------------
\* One row is updated and, if it was settled or ready, in a way that may be.
LEMMA RowSettles ==
  ASSUME ExportInv, NEW j \in Jobs, NEW t, job' = [job EXCEPT ![j] = t],
         job[j].status \in {"failed", "expired"} => t.status = job[j].status,
         (job[j].status = "ready" /\ t.status # "ready") => t.downloaded \/ job[j].past
  PROVE  SettledStaysStep
  BY DEF ExportInv, ExportTypeOK, SettledStaysStep

\* No step takes a settled or a ready row back, the results and the failures
\* of late makers included: they are written to rows in "processing" alone.
LEMMA NothingIsTakenBack == ExportInv /\ [Next]_vars => SettledStaysStep
  <1> SUFFICES ASSUME ExportInv, [Next]_vars PROVE SettledStaysStep
    OBVIOUS
  <1>1. ASSUME UNCHANGED job PROVE SettledStaysStep
    BY <1>1 DEF SettledStaysStep
  <1>2. ASSUME NEW m \in Makers, NEW j \in Jobs, NEW f \in Filters, NEW synchronous \in BOOLEAN,
               CreateNew(m, j, f, synchronous)
        PROVE  SettledStaysStep
    <2>1. \A i \in Jobs : Exists(i) => job'[i] = job[i]
      BY <1>2 DEF CreateNew, ExportInv, ExportTypeOK
    <2> QED
      BY <2>1 DEF SettledStaysStep
  <1>3. ASSUME NEW m \in Makers, NEW j \in Jobs, ProcessPending(m, j) PROVE SettledStaysStep
    <2> DEFINE t == [job[j] EXCEPT !.status = "processing"]
    <2>1. job' = [job EXCEPT ![j] = t]
      BY <1>3, Zenon DEF ProcessPending
    <2>2. job[j].status = "pending"
      BY <1>3 DEF ProcessPending
    <2> HIDE DEF t
    <2> QED
      BY <2>1, <2>2, RowSettles
  <1>4. ASSUME NEW m \in Makers, Store(m) PROVE SettledStaysStep
    <2> DEFINE j == maker[m].job
               t == [job[j] EXCEPT !.status = "ready", !.payload = maker[m].filter]
    <2>1. CASE ~Writable(j)
      BY <1>1, <1>4, <2>1 DEF Store
    <2>2. CASE Writable(j)
      <3>1. job' = [job EXCEPT ![j] = t]
        BY <1>4, <2>2, Zenon DEF Store
      <3>2. job[j].status = "processing"
        BY <2>2 DEF Writable
      <3>3. j \in Jobs
        BY <1>4 DEF Store, ExportInv, MakersHaveTheFilter
      <3> HIDE DEF j, t
      <3> QED
        BY <3>1, <3>2, <3>3, RowSettles
    <2> QED
      BY <2>1, <2>2
  <1>5. ASSUME NEW m \in Makers, Fail(m) PROVE SettledStaysStep
    <2> DEFINE j == maker[m].job
               t == [job[j] EXCEPT !.status = "failed"]
    <2>1. CASE job[j].status # "processing"
      BY <1>1, <1>5, <2>1 DEF Fail
    <2>2. CASE job[j].status = "processing"
      <3>1. job' = [job EXCEPT ![j] = t]
        BY <1>5, <2>2, Zenon DEF Fail
      <3>2. j \in Jobs
        BY <1>5 DEF Fail, ExportInv, MakersHaveTheFilter
      <3> HIDE DEF j, t
      <3> QED
        BY <2>2, <3>1, <3>2, RowSettles DEF j
    <2> QED
      BY <2>1, <2>2
  <1>6. ASSUME NEW r \in Readers, NEW j \in Jobs, Consume(r, j) PROVE SettledStaysStep
    <2> DEFINE t == [job[j] EXCEPT !.status = "expired", !.downloaded = TRUE, !.payload = None]
    <2>1. job' = [job EXCEPT ![j] = t]
      BY <1>6, Zenon DEF Consume
    <2>2. job[j] \in Job /\ job[j].status = "ready"
      BY <1>6 DEF Consume, Exists, Available, ExportInv, ExportTypeOK
    <2>3. t.downloaded
      BY <2>2 DEF Job
    <2> HIDE DEF t
    <2> QED
      BY <2>1, <2>2, <2>3, RowSettles
  <1>7. ASSUME NEW j \in Jobs, Age(j) PROVE SettledStaysStep
    <2> DEFINE t == [job[j] EXCEPT !.past = TRUE]
    <2>1. job' = [job EXCEPT ![j] = t]
      BY <1>7, Zenon DEF Age
    <2>2. t.status = job[j].status
      BY <1>7 DEF Age, Exists, ExportInv, ExportTypeOK, Job
    <2> HIDE DEF t
    <2> QED
      BY <2>1, <2>2, RowSettles
  <1>8. ASSUME Expire PROVE SettledStaysStep
    <2> SUFFICES ASSUME NEW j \in Jobs, Exists(j)
                 PROVE  /\ job[j].status \in {"failed", "expired"} => job'[j].status = job[j].status
                        /\ (job[j].status = "ready" /\ job'[j].status # "ready") =>
                             job'[j].downloaded \/ job[j].past
      BY DEF SettledStaysStep
    <2>1. CASE ~Expirable(j)
      BY <1>8, <2>1 DEF Expire
    <2>2. CASE Expirable(j)
      BY <2>2 DEF Expirable, Unfinished
    <2> QED
      BY <2>1, <2>2
  <1>9. ASSUME NEW m \in Makers, Make(m) PROVE SettledStaysStep
    <2>1. CASE \E j \in Jobs, f \in Filters : Retry(m, j, f)
      BY <1>1, <2>1 DEF Retry
    <2>2. CASE Produce(m) \/ Abandon(m)
      BY <1>1, <2>2 DEF Produce, Abandon
    <2> QED
      BY <1>2, <1>3, <1>4, <1>5, <1>9, <2>1, <2>2 DEF Make
  <1>10. CASE UNCHANGED vars
    BY <1>1, <1>10 DEF vars
  <1>11. ASSUME NEW r \in Readers, Answer(r) PROVE SettledStaysStep
    BY <1>1, <1>11 DEF Answer
  <1> QED
    BY <1>6, <1>7, <1>8, <1>9, <1>10, <1>11 DEF Next

\* A finished job never changes its status, and a ready export stays ready
\* until it is downloaded or past its time.
THEOREM SettledJobsStay == Spec => SettledStays
  BY ExportInvariant, NothingIsTakenBack, PTL DEF Spec, SettledStays
=============================================================================
