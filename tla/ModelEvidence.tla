--------------------------- MODULE ModelEvidence ---------------------------
(***************************************************************************)
(* How a model comes to be believed: an artifact is evaluated on held-out  *)
(* material (benchmarks/evaluate_artifact.py), the measurements are        *)
(* labelled and binned (training/prepare_calibration_rows.py,              *)
(* training/calibration.py), compared with another export's                *)
(* (benchmarks/export_parity.py), bundled (benchmarks/import_bundle.py,    *)
(* analyzers/bundle_validation.py) and reviewed; the runtime loads the     *)
(* bundle (apps/api/config.py, analyzers/bundles.py), binds the reviewed   *)
(* calibration (core/runtime/calibration.py) and decides for every frame   *)
(* whether it may call its confidence calibrated (core/runtime/deviation). *)
(* Each step is a program of its own that somebody runs, on whatever files *)
(* there are; the directory of a bundle may be exported into at any time.  *)
(*                                                                         *)
(* A record's hash is the record.  A dataset is [groups, real]: the parent *)
(* groups of each split, and whether the material is real_recorded and not *)
(* an example.  One event, family and comparison regime stand for all; of  *)
(* a bin's evidence its count is kept, for the probability and the         *)
(* interval are held against their thresholds in the same way.             *)
(***************************************************************************)
EXTENDS Integers, Sequences, FiniteSets

CONSTANTS
  Datasets,      \* the datasets there are
  Scores,        \* the values of the uncertainty feature
  NoScore,       \* that feature, or the prediction, is missing
  EdgeLists,     \* the score edges a fit may be configured with, increasing
  Versions,      \* the runtime artifacts are 1..Versions, later exports larger
  Score,         \* what a version makes of the case of a group
  MinimumCount,  \* acceptance["minimum_bin_count"]
  Room           \* bound of a run: how many records of each kind

Splits == {"train", "validation", "calibration", "test"}

ASSUME EvidenceAssumption ==
  /\ Scores \subseteq Int /\ NoScore \notin Int
  /\ \A edges \in EdgeLists :
       edges \in Seq(Int) /\ \A i, j \in 1..Len(edges) : i < j => edges[i] < edges[j]
  /\ Versions \in Nat /\ MinimumCount \in Nat \ {0}
  /\ \A v \in 1..Versions : \A data \in Datasets : \A split \in Splits :
       \A g \in data.groups[split] : Score[v][g] \in Scores \cup {NoScore}

VARIABLES
  made,      \* the records written so far
  bundle,    \* the manifest in the configured directory: [artifact, data, evidence]
  there,     \* the runtime artifact whose bytes are in that directory
  review,    \* the host's review: at most one [manifest, candidate]
  analyzer,  \* [stage, settings, manifest, artifact] in the runtime
  shown      \* the calibrated confidence of the last frame: at most one bin

vars == <<made, bundle, there, review, analyzer, shown>>

Of(kind) == {r \in made : r.kind = kind}

-----------------------------------------------------------------------------
(* Evidence records.                                                       *)

\* validate_result_record: no parent group is in two splits.
Apart(data) ==
  \A s, t \in Splits : s # t => data.groups[s] \cap data.groups[t] = {}

Written(r) ==
  /\ Cardinality(Of(r.kind) \ {r}) < Room[r.kind]
  /\ made' = made \cup {r}
  /\ UNCHANGED <<bundle, there, review, analyzer, shown>>

\* evaluate: the bundle as it is, on cases of one held-out split of the dataset it
\* declares; a group has one case.
Evaluate ==
  /\ there = bundle.artifact /\ Apart(bundle.data)
  /\ \E split \in {"validation", "calibration", "test"} :
       \E cases \in SUBSET bundle.data.groups[split] \ {{}} :
         Written([kind |-> "report", artifact |-> there, data |-> bundle.data,
                  split |-> split, scores |-> [g \in cases |-> Score[there][g]]])

\* prepare_rows: every measurement is labelled, if only as ineligible.
PrepareRows ==
  \E report \in Of("report") : \E eligible \in SUBSET DOMAIN report.scores :
    /\ report.split \in {"calibration", "test"}
    /\ Written([kind |-> "rows", artifact |-> report.artifact, data |-> report.data,
                split |-> report.split, scores |-> report.scores, eligible |-> eligible])

\* Mutated: every bin is closed.
InClosedBin(edges, i, score) == edges[i] <= score /\ score <= edges[i + 1]

\* A bin is left closed and right open, the last one closed.
InBin(edges, i, score) ==
  /\ edges[i] <= score
  /\ score < edges[i + 1] \/ (i = Len(edges) - 1 /\ score = edges[i + 1])

Members(rows, edges, i) ==
  {g \in rows.eligible : rows.scores[g] # NoScore /\ InBin(edges, i, rows.scores[g])}

Bin(rows, edges, i) ==
  [lower |-> edges[i], upper |-> edges[i + 1], count |-> Cardinality(Members(rows, edges, i))]

\* Bins without a member are left out.
Bins(rows, edges) ==
  {Bin(rows, edges, i) : i \in {j \in 1..(Len(edges) - 1) : Members(rows, edges, j) # {}}}

\* validate_calibration: there are bins, and none overlaps another.
Sound(bins) ==
  /\ bins # {}
  /\ \A b \in bins :
       /\ b.lower < b.upper /\ b.count > 0
       /\ \A x \in bins \ {b} : x.upper <= b.lower \/ b.upper <= x.lower

\* _validate_rows.
RowsOf(split) == {rows \in Of("rows") : rows.split = split /\ Apart(rows.data)}

\* fit_candidate.
Fit ==
  \E rows \in RowsOf("calibration") : \E edges \in EdgeLists :
    /\ Sound(Bins(rows, edges))
    /\ Written([kind |-> "candidate", artifact |-> rows.artifact, data |-> rows.data,
                rows |-> rows, edges |-> edges, bins |-> Bins(rows, edges)])

\* evaluate_candidate, on the rows of the same artifact and dataset.
EvaluateCandidate ==
  \E candidate \in Of("candidate") : \E rows \in RowsOf("test") :
    /\ candidate.artifact = rows.artifact /\ candidate.data = rows.data
    /\ Written([kind |-> "evaluation", artifact |-> rows.artifact, data |-> rows.data,
                split |-> "test", scores |-> rows.scores, eligible |-> rows.eligible])

\* compare_outputs: the same cases, through two exports.
Compare ==
  \E reference, report \in Of("report") :
    /\ reference.data = report.data /\ reference.split = report.split
    /\ DOMAIN reference.scores = DOMAIN report.scores
    /\ Written([kind |-> "parity", artifact |-> report.artifact, data |-> report.data,
                passed |-> /\ reference.scores = report.scores
                           /\ \E g \in DOMAIN report.scores : report.scores[g] # NoScore])

-----------------------------------------------------------------------------
(* Bundles.                                                                *)

Kind(m, kinds) == {r \in m.evidence : r.kind \in kinds}
Benchmarks(m) == Kind(m, {"report", "evaluation"})
Parity(m) == Kind(m, {"parity"})
Calibration(m) == Kind(m, {"candidate"})

\* A result in a bundle is of its artifact and of its dataset.
Concerns(m, r) == r.artifact = m.artifact /\ r.data = m.data

\* _read_bundle.
Valid(m) ==
  /\ Apart(m.data)
  /\ \A r \in m.evidence : Concerns(m, r)
  /\ m.evidence = Benchmarks(m) \cup Parity(m) \cup Calibration(m)
  /\ Cardinality(Parity(m)) <= 1 /\ Cardinality(Calibration(m)) <= 1
  /\ \A c \in Calibration(m) : Sound(c.bins)

\* Bound of a run: a bundle has no evidence yet, or one record of each kind.
Manifests ==
  [artifact : 1..Versions, data : Datasets,
   evidence : {{}} \cup {{b, p, c} : b \in Of("report") \cup Of("evaluation"),
                                     p \in Of("parity"), c \in Of("candidate")}]

\* import_bundle, into the directory that the host then configures.
Import ==
  /\ analyzer.stage = "off"
  /\ \E m \in Manifests : Valid(m) /\ bundle' = m /\ there' = m.artifact
  /\ UNCHANGED <<made, review, analyzer, shown>>

\* Somebody copies a later export over the bundle's.
Overwrite ==
  /\ there < Versions
  /\ there' = there + 1
  /\ UNCHANGED <<made, bundle, review, analyzer, shown>>

\* The host reviews the bundle and pins a calibration with it.
Review ==
  /\ \E c \in Of("candidate") : review' = {[manifest |-> bundle, candidate |-> c]}
  /\ UNCHANGED <<made, bundle, there, analyzer, shown>>

\* _acceptance.
Accepts(s, m) ==
  /\ s.manifest = m
  /\ Benchmarks(m) # {} /\ Parity(m) # {} /\ Calibration(m) # {}
  /\ m.data.real
  /\ m.data.groups["calibration"] # {} /\ m.data.groups["test"] # {}
  /\ \A c \in Calibration(m) : \E b \in c.bins : b.count >= MinimumCount
  /\ \A p \in Parity(m) : p.passed
  /\ \E r \in Benchmarks(m) :
       r.split = "test" /\ (r.kind = "evaluation" => r.eligible # {})

-----------------------------------------------------------------------------
(* The runtime.                                                            *)

Off == [stage |-> "off", settings |-> {}, manifest |-> {}, artifact |-> 0]

Stage(from, to) == analyzer.stage = from /\ analyzer' = [analyzer EXCEPT !.stage = to]
Only == UNCHANGED <<made, bundle, there, review>>

\* A bundle without a review is not refused, it only gives no numbers.
Accepted(m) == \A s \in analyzer.settings : Accepts(s, m)

\* runtime_options reads the review when the runtime starts.
Start ==
  /\ analyzer.stage = "off"
  /\ analyzer' = [Off EXCEPT !.stage = "idle", !.settings = review]
  /\ Only /\ shown' = {}

\* load_bundle: validated and accepted,
Validate ==
  /\ there = bundle.artifact /\ Valid(bundle)
  /\ Accepted(bundle)
  /\ analyzer.stage = "idle"
  /\ analyzer' = [analyzer EXCEPT !.stage = "validated", !.manifest = {bundle}]
  /\ Only /\ UNCHANGED shown

\* revalidated before the host's code is called,
Revalidate ==
  /\ {bundle} = analyzer.manifest /\ there = bundle.artifact
  /\ Stage("validated", "revalidated")
  /\ Only /\ UNCHANGED shown

\* which reads what is there,
Open ==
  /\ analyzer.stage = "revalidated"
  /\ analyzer' = [analyzer EXCEPT !.stage = "opened", !.artifact = there]
  /\ Only /\ UNCHANGED shown

\* revalidate.
Unchanged(m) == m = {bundle} /\ there = bundle.artifact

\* and validated again; then the calibration is bound, if there is a review.
Bind ==
  /\ Unchanged(analyzer.manifest)
  /\ \A m \in analyzer.manifest :
       Accepted(m) /\ \A s \in analyzer.settings : Calibration(m) = {s.candidate}
  /\ Stage("opened", "ready")
  /\ Only /\ UNCHANGED shown

\* Any of these checks fails, or a session ends: the backend is closed.
Close ==
  /\ analyzer.stage \notin {"off", "idle"}
  /\ analyzer' = [analyzer EXCEPT !.stage = "idle", !.manifest = {}, !.artifact = 0]
  /\ Only /\ shown' = {}

Stop ==
  /\ analyzer.stage # "off"
  /\ analyzer' = Off
  /\ Only /\ shown' = {}

\* CalibrationMapping.lookup, of which the last bin is the last that was kept.
Found(bins, score) ==
  {b \in bins : /\ score # NoScore
                /\ \/ b.lower <= score /\ score < b.upper
                   \/ score = b.upper /\ \A x \in bins : x.upper <= b.upper}

\* Mutated: a calibration that was fitted is used before it is reviewed.
ConfidenceUnreviewed(score, usable) ==
  {b \in UNION {Found(c.bins, score) : c \in Of("candidate")} :
     usable /\ b.count >= MinimumCount}

\* ApprovedCalibration.evaluate and FrameBuilder.build: outside the reviewed
\* envelope, or without a review, nothing is calibrated.
Confidence(score, usable) ==
  {b \in UNION {Found(s.candidate.bins, score) : s \in analyzer.settings} :
     usable /\ b.count >= MinimumCount}

\* RealAnalyzer.analyze: what the backend measures, or nothing.
Measurements == Scores \cup {NoScore}

Analyze ==
  /\ analyzer.stage = "ready"
  /\ \E score \in Measurements, usable \in BOOLEAN :
       shown' = Confidence(score, usable)
  /\ Only /\ UNCHANGED analyzer

-----------------------------------------------------------------------------
Init ==
  /\ made = {} /\ review = {} /\ shown = {}
  /\ bundle \in [artifact : 1..Versions, data : Datasets, evidence : {{}}]
  /\ Valid(bundle) /\ there = bundle.artifact
  /\ analyzer = Off

Next ==
  \/ Evaluate \/ PrepareRows \/ Fit \/ EvaluateCandidate \/ Compare
  \/ Import \/ Overwrite \/ Review
  \/ Start \/ Validate \/ Revalidate \/ Open \/ Bind \/ Close \/ Stop \/ Analyze

Spec == Init /\ [][Next]_vars

-----------------------------------------------------------------------------
(* Properties                                                              *)

\* A frame that calls its confidence calibrated was measured by the artifact that
\* was reviewed, and the bin it quotes counts real rows of that artifact, of
\* groups it was neither trained nor tested on; the same artifact was evaluated
\* on the test groups (RealAnalyzer, ApprovedCalibration, _acceptance).
NumbersAreBacked ==
  shown # {} =>
    \E s \in analyzer.settings :
      LET m == s.manifest
          c == s.candidate
      IN /\ analyzer.artifact = m.artifact /\ c.artifact = m.artifact
         /\ m.data.real
         /\ \A b \in shown :
              Cardinality({g \in c.rows.eligible : Found(c.bins, c.rows.scores[g]) = {b}})
                >= MinimumCount
         /\ c.rows.eligible \subseteq m.data.groups["calibration"]
         /\ c.rows.eligible \cap (m.data.groups["train"] \cup m.data.groups["test"]) = {}
         /\ \E r \in made : /\ r.kind = "report" /\ r.artifact = m.artifact
                            /\ r.split = "test" /\ r.data = m.data

\* The runtime looks the scores of the fit up as the fit sorted them: every row a
\* candidate was fitted from is found in the bin that counts it, and no bin counts
\* another.  Of scores that were not fitted it says nothing: one on the lower edge of
\* an empty last bin is found in the bin before (core/runtime/calibration.py:58).
RowsAreFound ==
  \A c \in Of("candidate") : \A b \in c.bins :
    b.count = Cardinality({g \in c.rows.eligible : Found(c.bins, c.rows.scores[g]) = {b}})
=============================================================================
