----------------------------- MODULE ScaleGate -----------------------------
(***************************************************************************)
(* The scale benchmark and the gate it feeds (scripts/benchmark-scale.sh,  *)
(* web/scripts/benchmark-scale.mjs and summarize-scale.mjs,                *)
(* web/src/lib/scale-gate.ts): two measurements of every size, written to  *)
(* an output directory, and the decision taken from what is in it.  An     *)
(* invocation may fail, be interrupted or be killed at any point; a later  *)
(* one, or one started meanwhile, may be given the same directory.  The    *)
(* trap that removes the lock directory is set before the directory is     *)
(* made, so an interruption in between removes what another one made.      *)
(***************************************************************************)
EXTENDS Integers, Sequences, FiniteSets, Functions

CONSTANTS
  Endpoints,   \* identifiers of the lists measured over HTTP
  Surfaces,    \* identifiers of the pages measured in the browser
  Sizes,       \* cardinalities an invocation may be given
  Volumes,     \* TENANCIT_SCALE_OBSERVED_VOLUME, of those who decide
  Missing,     \* no file, no decision, nobody
  MaxStarts,   \* invocations in a behaviour
  MaxBreaches  \* measurements, of all, that reach a threshold

ASSUME ScaleAssumption ==
  /\ Sizes \subseteq Nat \ {0} /\ Volumes \subseteq Nat
  /\ MaxStarts \in Nat /\ MaxBreaches \in Nat

VARIABLES
  benchLock,   \* who made the lock directory
  bench,       \* the invocations: state, measurements to take, decision
  rawFiles,    \* the output directory: raw-<size>-<run>.json
  taken,       \* ghost: what each invocation measured itself
  usurped      \* ghost: the lock was taken away from one that was measuring

scaleVars == <<benchLock, bench, rawFiles, taken, usurped>>

----------------------------------------------------------------------------
(* lib/scale-gate.ts *)
SCALE_THRESHOLDS ==
  [softItems |-> 500, softPayloadBytes |-> 256000, hardItems |-> 2000,
   hardPayloadBytes |-> 512000, hardHTTPP95Ms |-> 300, hardBrowserP95Ms |-> 150]

(* The sample at that place of the sorted samples: the least one that as many *)
(* samples do not exceed.                                                     *)
nearestRank(samples, percent) ==
  LET rank      == (Len(samples) * percent + 99) \div 100
      Covers(v) == Cardinality({k \in DOMAIN samples : samples[k] <= v}) >= rank
  IN CHOOSE v \in Range(samples) : Covers(v) /\ \A w \in Range(samples) : Covers(w) => v <= w

(* The point of the largest cardinality that is not above the volume. *)
decideScaleGate(volume, points) ==
  LET reached == {p \in points : p.cardinality <= volume}
      operational == {p \in reached : \A q \in reached : q.cardinality <= p.cardinality}
  IN IF \/ volume >= SCALE_THRESHOLDS.hardItems
        \/ \E p \in operational : p.hardTriggers # {} \/ (p.softItemCount /\ p.softPayload)
     THEN "OPEN_PAGINATION_EPIC" ELSE "KEEP_FULL_LISTS"

----------------------------------------------------------------------------
(* web/scripts/benchmark-scale.mjs: a measurement.  Of the samples of one    *)
(* kind, slow many take the time at, the others none.                        *)
Samples(count, slow, at) == [k \in 1..count |-> IF k <= slow THEN at ELSE 0]
p95Ms(samples) == nearestRank(samples, 95)

(* 100 samples of each endpoint, 30 of each metric of a surface, after the   *)
(* warm-up; the mobile profile is measured with 250 records only.            *)
measureHTTP(slow)    == p95Ms(Samples(100, slow, SCALE_THRESHOLDS.hardHTTPP95Ms))
measureBrowser(slow) == p95Ms(Samples(30, slow, SCALE_THRESHOLDS.hardBrowserP95Ms))
Metrics        == {"render", "filter", "sort"}
Profiles(size) == {"desktop"} \cup (IF size = 250 THEN {"mobile"} ELSE {})

QuietList   == [bytes |-> 0, concurrency1 |-> measureHTTP(0), concurrency10 |-> measureHTTP(0)]
QuietPage   == [m \in Metrics |-> measureBrowser(0)]
QuietLists  == [e \in Endpoints |-> QuietList]
QuietPages(size) == [s \in Profiles(size) \X Surfaces |-> QuietPage]
Quiet(size) == [http |-> QuietLists, browser |-> QuietPages(size)]

(* A list reaches a payload threshold, or as many samples of a list or of a  *)
(* page are slow as the 95th percentile leaves aside, or one more.           *)
NotableLists ==
  {[QuietList EXCEPT !.bytes = b] : b \in {SCALE_THRESHOLDS.softPayloadBytes, SCALE_THRESHOLDS.hardPayloadBytes}}
  \cup {[QuietList EXCEPT !.concurrency1 = measureHTTP(slow)] : slow \in {5, 6}}
  \cup {[QuietList EXCEPT !.concurrency10 = measureHTTP(slow)] : slow \in {5, 6}}

NotablePages == {[QuietPage EXCEPT ![m] = measureBrowser(slow)] : m \in Metrics, slow \in {1, 2}}

(* Every list is small and every sample fast, or one list or page is notable. *)
Measurements(size) ==
  {Quiet(size)}
  \cup {[http |-> [QuietLists EXCEPT ![e] = l], browser |-> QuietPages(size)] : e \in Endpoints, l \in NotableLists}
  \cup {[http |-> QuietLists, browser |-> [QuietPages(size) EXCEPT ![s] = page]] :
          s \in Profiles(size) \X Surfaces, page \in NotablePages}

MeasurementsAt == [size \in Sizes |-> Measurements(size)]
QuietAt        == [size \in Sizes |-> Quiet(size)]

ASSUME MissingAssumption ==
  /\ Missing \notin 1..MaxStarts
  /\ \A size \in Sizes : Missing \notin Measurements(size)

----------------------------------------------------------------------------
(* web/scripts/summarize-scale.mjs *)
Runs == {1, 2}

(* runs.every: both measurements of the size are among those that breach. *)
Confirmed(files, breaching) == files \subseteq breaching

confirmedCapacityTriggers(files) ==
  {<<e, "payload">> : e \in {x \in Endpoints : Confirmed(files, {f \in files :
     f.http[x].bytes >= SCALE_THRESHOLDS.hardPayloadBytes})}} \cup
  {<<e, "http-p95">> : e \in {x \in Endpoints : Confirmed(files, {f \in files :
     \/ f.http[x].concurrency1 >= SCALE_THRESHOLDS.hardHTTPP95Ms
     \/ f.http[x].concurrency10 >= SCALE_THRESHOLDS.hardHTTPP95Ms})}} \cup
  {<<s, "ui-p95">> : s \in {x \in DOMAIN (CHOOSE f \in files : TRUE).browser :
     Confirmed(files, {f \in files :
       \E m \in Metrics : f.browser[x][m] >= SCALE_THRESHOLDS.hardBrowserP95Ms})}}

capacity(size, files) ==
  [cardinality |-> size, hardTriggers |-> confirmedCapacityTriggers(files),
   softItemCount |-> size >= SCALE_THRESHOLDS.softItems,
   softPayload |-> Confirmed(files, {f \in files :
     \E e \in Endpoints : f.http[e].bytes >= SCALE_THRESHOLDS.softPayloadBytes})]

bySize(dir) == {size \in Sizes : \E r \in Runs : dir[size][r] # Missing}
ExactlyTwo(dir) == \A size \in bySize(dir), r \in Runs : dir[size][r] # Missing
decision(volume, dir) ==
  decideScaleGate(volume, {capacity(size, Range(dir[size])) : size \in bySize(dir)})

----------------------------------------------------------------------------
(* scripts/benchmark-scale.sh *)
Starts   == 1..MaxStarts
NoFiles  == [size \in Sizes |-> [r \in Runs |-> Missing]]
NotBegun == [at |-> "new", sizes |-> {}, todo |-> {}, volume |-> 0, decision |-> Missing]

(* The sizes in the order they are given, each measured twice. *)
Plan(S) == S \X Runs
HalfMeasured(todo) == {x \in todo : x[2] = 2 /\ <<x[1], 1>> \notin todo}
Due(todo) == IF HalfMeasured(todo) # {} THEN HalfMeasured(todo) ELSE {x \in todo : x[2] = 1}

ScaleInit ==
  /\ benchLock = Missing /\ rawFiles = NoFiles
  /\ bench = [i \in Starts |-> NotBegun]
  /\ taken = [i \in Starts |-> NoFiles]
  /\ usurped = FALSE

(* An invocation that ended without a decision. *)
Undecided(state) == [NotBegun EXCEPT !.at = state]

(* Mutant: a lock that is already there is as good as a new one. *)
LockAnyway == TRUE

(* mkdir makes the lock directory, or fails. *)
LockFree == benchLock = Missing

(* The trap is set: from here on INT, TERM and any exit run cleanup.         *)
Arm(i) ==
  /\ bench[i].at = "new" /\ \A j \in 1..(i - 1) : bench[j].at # "new"
  /\ bench' = [bench EXCEPT ![i].at = "armed"]
  /\ UNCHANGED <<benchLock, rawFiles, taken, usurped>>

Begin(i, S) ==
  /\ bench[i].at = "armed"
  /\ LockFree /\ benchLock' = i
  /\ bench' = [bench EXCEPT ![i] = [NotBegun EXCEPT !.at = "measuring", !.sizes = S, !.todo = Plan(S)]]
  /\ UNCHANGED <<rawFiles, taken, usurped>>

(* It unsets the trap before it exits. *)
AlreadyRunning(i) ==
  /\ bench[i].at = "armed"
  /\ ~LockFree
  /\ bench' = [bench EXCEPT ![i] = Undecided("refused")]
  /\ UNCHANGED <<benchLock, rawFiles, taken, usurped>>

Breaches ==
  {x \in Starts \X Sizes \X Runs : taken[x[1]][x[2]][x[3]] \notin {Missing, QuietAt[x[2]]}}

(* One run of benchmark-scale.mjs, which writes its file at the end. *)
Measure(i, size, r) ==
  /\ bench[i].at = "measuring" /\ <<size, r>> \in Due(bench[i].todo)
  /\ \E file \in MeasurementsAt[size] :
       /\ file = QuietAt[size] \/ Cardinality(Breaches) < MaxBreaches
       /\ rawFiles' = [rawFiles EXCEPT ![size][r] = file]
       /\ taken' = [taken EXCEPT ![i][size][r] = file]
  /\ bench' = [bench EXCEPT ![i].todo = @ \ {<<size, r>>}]
  /\ UNCHANGED <<benchLock, usurped>>

(* cleanup: the lock is removed, whoever made it. *)
Ends(i, state) == bench' = [bench EXCEPT ![i] = state] /\ benchLock' = Missing

(* INT or TERM, before the lock is made or after it. *)
Interrupted(i) ==
  /\ bench[i].at \in {"armed", "measuring"}
  /\ Ends(i, Undecided("failed"))
  /\ usurped' = (usurped \/ (bench[i].at = "armed" /\ \E j \in Starts : bench[j].at = "measuring"))
  /\ UNCHANGED <<rawFiles, taken>>

(* A request that fails, a list of another length, a page that does not load *)
(* twice in a row: timedFetch, measureBrowser and set -e.                    *)
MeasureFails(i) ==
  /\ bench[i].at = "measuring" /\ bench[i].todo # {}
  /\ Ends(i, Undecided("failed"))
  /\ UNCHANGED <<rawFiles, taken, usurped>>

Summarize(i, volume) ==
  /\ bench[i].at = "measuring" /\ bench[i].todo = {}
  /\ IF ExactlyTwo(rawFiles)
     THEN Ends(i, [bench[i] EXCEPT !.at = "decided", !.volume = volume,
                                   !.decision = decision(volume, rawFiles)])
     ELSE Ends(i, Undecided("failed"))
  /\ UNCHANGED <<rawFiles, taken, usurped>>

(* Killed outright: no cleanup.  A lock directory it made stays and turns    *)
(* away every later invocation, until somebody removes it.                   *)
Killed(i) ==
  /\ bench[i].at \in {"armed", "measuring"}
  /\ bench' = [bench EXCEPT ![i] = Undecided("killed")]
  /\ UNCHANGED <<benchLock, rawFiles, taken, usurped>>

ScaleNext ==
  \E i \in Starts :
    \/ \E S \in SUBSET Sizes \ {{}} : Begin(i, S)
    \/ \E size \in Sizes, r \in Runs : Measure(i, size, r)
    \/ Arm(i) \/ AlreadyRunning(i)
    \/ MeasureFails(i) \/ Interrupted(i) \/ Killed(i)
    \/ \E volume \in Volumes : Summarize(i, volume)

ScaleSpec == ScaleInit /\ [][ScaleNext]_scaleVars

----------------------------------------------------------------------------
(* The reference: a size confirms that full lists are too much when the same *)
(* list was too large, the same list too slow or the same page too slow in   *)
(* both measurements of one invocation, or, from 500 records, some list was  *)
(* sizeable in both.                                                         *)
TooMuch(size, pair) ==
  \/ \E e \in Endpoints :
       \/ \A r \in Runs : pair[r].http[e].bytes = 512000
       \/ \A r \in Runs : 300 \in {pair[r].http[e].concurrency1, pair[r].http[e].concurrency10}
  \/ \E s \in Profiles(size) \X Surfaces : \A r \in Runs : \E m \in Metrics : pair[r].browser[s][m] = 150
  \/ size >= 500 /\ \A r \in Runs : \E e \in Endpoints : pair[r].http[e].bytes # 0

(* The sizes in the directory that a volume reaches, and 0.                  *)
ReachedBy(volume) == {size \in bySize(rawFiles) : size <= volume} \cup {0}

(* A decision opens the gate exactly when the declared volume is past the    *)
(* hard limit, or the largest size it reaches was confirmed by the two       *)
(* measurements the invocation took itself: no other invocation, running     *)
(* meanwhile, failed, interrupted or killed before, has a say in it.  (With  *)
(* a directory used before, a size the invocation was not given may be the   *)
(* largest.)  It is so unless an invocation that never had the lock was      *)
(* interrupted between setting its trap and making the directory, and took   *)
(* it away from one that was measuring: then a third one may be let in.      *)
GateOpensOnConfirmed ==
  ~usurped => \A i \in Starts : bench[i].at = "decided" =>
    \A largest \in ReachedBy(bench[i].volume) \cap (bench[i].sizes \cup {0}) :
      (\A size \in ReachedBy(bench[i].volume) : size <= largest) =>
        (bench[i].decision = "OPEN_PAGINATION_EPIC" <=>
           bench[i].volume >= 2000 \/ (largest # 0 /\ TooMuch(largest, taken[i][largest])))
=============================================================================
