------------------------ MODULE ModelEvidenceProofs ------------------------
(***************************************************************************)
(* What ModelEvidence promises, for every dataset, score and edge list.    *)
(* Binning comes first: a fitted row is found where it was counted.  Then  *)
(* the chain: records rest on records (Grounded), the directory and the    *)
(* review hold only written records (Filed), and a running analyzer was    *)
(* accepted on what it read (Bound).                                       *)
(***************************************************************************)
EXTENDS ModelEvidence, TLAPS

Kept(rows, edges) == {i \in 1..(Len(edges) - 1) : Members(rows, edges, i) # {}}

\* A row's scores are numbers or missing.
Scored(rows) ==
  /\ rows.eligible \subseteq DOMAIN rows.scores
  /\ \A g \in DOMAIN rows.scores : rows.scores[g] \in Scores \cup {NoScore}

-----------------------------------------------------------------------------
(* Binning.                                                                *)

\* Edges are integers and increase with their index.
LEMMA EdgesIncrease ==
  ASSUME NEW edges \in EdgeLists
  PROVE  /\ Len(edges) \in Nat
         /\ \A i \in 1..Len(edges) : edges[i] \in Int
         /\ \A i, j \in 1..Len(edges) : i < j => edges[i] < edges[j]
  BY EvidenceAssumption

\* A score lies in one bin at most.
LEMMA BinsAreDisjoint ==
  ASSUME NEW edges \in EdgeLists, NEW score \in Int,
         NEW i \in 1..(Len(edges) - 1), NEW j \in 1..(Len(edges) - 1),
         InBin(edges, i, score), InBin(edges, j, score)
  PROVE  i = j
  <1>1. /\ Len(edges) \in Nat
        /\ \A k \in 1..Len(edges) : edges[k] \in Int
        /\ \A k, l \in 1..Len(edges) : k < l => edges[k] < edges[l]
    BY EdgesIncrease
  <1>2. /\ i \in 1..Len(edges) /\ i + 1 \in 1..Len(edges)
        /\ j \in 1..Len(edges) /\ j + 1 \in 1..Len(edges)
    BY <1>1
  <1>3. CASE i < j
    <2>1. edges[i + 1] <= edges[j]
      BY <1>1, <1>2, <1>3
    <2>2. i # Len(edges) - 1
      BY <1>1, <1>2, <1>3
    <2>. QED
      BY <1>1, <1>2, <2>1, <2>2 DEF InBin
  <1>4. CASE j < i
    <2>1. edges[j + 1] <= edges[i]
      BY <1>1, <1>2, <1>4
    <2>2. j # Len(edges) - 1
      BY <1>1, <1>2, <1>4
    <2>. QED
      BY <1>1, <1>2, <2>1, <2>2 DEF InBin
  <1>. QED
    BY <1>1, <1>2, <1>3, <1>4

\* What is fitted with a row in bin i finds that bin for the row's score, and
\* no other.
LEMMA CountedIsFound ==
  ASSUME NEW edges \in EdgeLists, NEW rows, NEW score \in Int, NoScore # score,
         NEW i \in Kept(rows, edges), InBin(edges, i, score)
  PROVE  Found(Bins(rows, edges), score) = {Bin(rows, edges, i)}
  <1>1. /\ Len(edges) \in Nat
        /\ \A k \in 1..Len(edges) : edges[k] \in Int
        /\ \A k, l \in 1..Len(edges) : k < l => edges[k] < edges[l]
    BY EdgesIncrease
  <1>2. \A k \in Kept(rows, edges) : k \in 1..Len(edges) /\ k + 1 \in 1..Len(edges)
    BY <1>1 DEF Kept
  <1>3. Bins(rows, edges) = {Bin(rows, edges, k) : k \in Kept(rows, edges)}
    BY DEF Bins, Kept
  <1>4. \A k : /\ Bin(rows, edges, k).lower = edges[k]
               /\ Bin(rows, edges, k).upper = edges[k + 1]
    BY DEF Bin
  <1>5. Bin(rows, edges, i) \in Found(Bins(rows, edges), score)
    <2>1. CASE score < edges[i + 1]
      BY <1>3, <1>4, <2>1 DEF Found, InBin
    <2>2. CASE score = edges[i + 1] /\ i = Len(edges) - 1
      <3>1. \A k \in Kept(rows, edges) : edges[k + 1] <= edges[i + 1]
        <4>. TAKE k \in Kept(rows, edges)
        <4>1. k + 1 = i + 1 \/ k + 1 < i + 1
          BY <1>1, <1>2, <2>2
        <4>. QED
          BY <1>1, <1>2, <4>1
      <3>. QED
        BY <1>3, <1>4, <2>2, <3>1 DEF Found
    <2>. QED
      BY <2>1, <2>2 DEF InBin
  <1>6. ASSUME NEW j \in Kept(rows, edges),
               Bin(rows, edges, j) \in Found(Bins(rows, edges), score)
        PROVE  j = i
    <2>1. CASE edges[j] <= score /\ score < edges[j + 1]
      <3>1. InBin(edges, j, score)
        BY <2>1 DEF InBin
      <3>. QED
        BY <3>1, BinsAreDisjoint DEF Kept
    <2>2. CASE /\ score = edges[j + 1]
               /\ \A x \in Bins(rows, edges) : x.upper <= edges[j + 1]
      <3>1. edges[i + 1] <= edges[j + 1]
        BY <1>3, <1>4, <2>2
      <3>2. edges[i + 1] = edges[j + 1]
        BY <1>1, <1>2, <2>2, <3>1 DEF InBin
      <3>. QED
        BY <1>1, <1>2, <3>2
    <2>. QED
      BY <1>4, <1>6, <2>1, <2>2 DEF Found
  <1>7. Found(Bins(rows, edges), score) \subseteq {Bin(rows, edges, i)}
    <2>1. Found(Bins(rows, edges), score) \subseteq Bins(rows, edges)
      BY DEF Found
    <2>. QED
      BY <1>3, <1>6, <2>1
  <1>. QED
    BY <1>5, <1>7

\* A fitted row is found in a bin only if it was counted there: were it not, its
\* score would be the closed upper edge of the last bin that was kept, and the
\* row would have kept the next one.
LEMMA FoundIsCounted ==
  ASSUME NEW edges \in EdgeLists, NEW rows, Scored(rows),
         NEW i \in Kept(rows, edges), NEW g \in rows.eligible,
         Found(Bins(rows, edges), rows.scores[g]) = {Bin(rows, edges, i)}
  PROVE  g \in Members(rows, edges, i)
  <1>. DEFINE score == rows.scores[g]
  <1>1. /\ Len(edges) \in Nat
        /\ \A k \in 1..Len(edges) : edges[k] \in Int
        /\ \A k, l \in 1..Len(edges) : k < l => edges[k] < edges[l]
    BY EdgesIncrease
  <1>2. i \in 1..Len(edges) /\ i + 1 \in 1..Len(edges)
    BY <1>1 DEF Kept
  <1>3. Bin(rows, edges, i) \in Found(Bins(rows, edges), score)
    OBVIOUS
  <1>4. score # NoScore /\ score \in Int
    BY <1>3, EvidenceAssumption DEF Found, Scored
  <1>5. CASE edges[i] <= score /\ score < edges[i + 1]
    BY <1>4, <1>5 DEF Members, InBin
  <1>6. CASE score = edges[i + 1] /\ \A x \in Bins(rows, edges) : x.upper <= edges[i + 1]
    <2>1. CASE i = Len(edges) - 1
      BY <1>1, <1>2, <1>4, <1>6, <2>1 DEF Members, InBin
    <2>2. CASE i # Len(edges) - 1
      <3>1. /\ i + 1 \in 1..(Len(edges) - 1) /\ i + 2 \in 1..Len(edges)
            /\ (i + 1) + 1 = i + 2
        BY <1>1, <1>2, <2>2
      <3>2. edges[i + 1] < edges[i + 2]
        BY <1>1, <1>2, <3>1
      <3>3. InBin(edges, i + 1, score)
        BY <1>1, <1>2, <1>6, <3>1, <3>2 DEF InBin
      <3>4. i + 1 \in Kept(rows, edges)
        BY <1>4, <3>1, <3>3 DEF Kept, Members
      <3>5. Bin(rows, edges, i + 1) \in Bins(rows, edges)
        BY <3>4 DEF Bins, Kept
      <3>6. Bin(rows, edges, i + 1).upper = edges[i + 2]
        BY <3>1 DEF Bin
      <3>. QED
        BY <1>1, <1>2, <1>6, <3>1, <3>2, <3>5, <3>6
    <2>. QED
      BY <2>1, <2>2
  <1>. QED
    BY <1>3, <1>5, <1>6 DEF Found, Bin

\* The rows that are found in a bin are those it counts.
LEMMA BinsCount ==
  ASSUME NEW edges \in EdgeLists, NEW rows, Scored(rows), NEW b \in Bins(rows, edges)
  PROVE  b.count = Cardinality({g \in rows.eligible :
                                  Found(Bins(rows, edges), rows.scores[g]) = {b}})
  <1>1. PICK i \in Kept(rows, edges) : b = Bin(rows, edges, i)
    BY DEF Bins, Kept
  <1>2. Members(rows, edges, i) =
          {g \in rows.eligible : Found(Bins(rows, edges), rows.scores[g]) = {b}}
    <2>1. ASSUME NEW g \in Members(rows, edges, i)
          PROVE  g \in rows.eligible /\ Found(Bins(rows, edges), rows.scores[g]) = {b}
      <3>1. g \in rows.eligible /\ rows.scores[g] # NoScore /\ InBin(edges, i, rows.scores[g])
        BY DEF Members
      <3>2. rows.scores[g] \in Int
        BY <3>1, EvidenceAssumption DEF Scored
      <3>. QED
        BY <1>1, <3>1, <3>2, CountedIsFound
    <2>2. ASSUME NEW g \in rows.eligible, Found(Bins(rows, edges), rows.scores[g]) = {b}
          PROVE  g \in Members(rows, edges, i)
      BY <1>1, <2>2, FoundIsCounted
    <2>3. Members(rows, edges, i) \subseteq rows.eligible
      BY DEF Members
    <2>. QED
      BY <2>1, <2>2, <2>3
  <1>. QED
    BY <1>1, <1>2 DEF Bin

-----------------------------------------------------------------------------
(* Records rest on records.                                                *)

\* A measurement is of groups of its split, in a dataset without leaks.
Measured(r) ==
  /\ r.split \in Splits /\ Apart(r.data)
  /\ DOMAIN r.scores \subseteq r.data.groups[r.split]
  /\ \A g \in DOMAIN r.scores : r.scores[g] \in Scores \cup {NoScore}

\* Some report of that artifact, dataset and split is among the records.
Reported(r, records) ==
  \E p \in records : /\ p.kind = "report" /\ p.split = r.split
                     /\ p.artifact = r.artifact /\ p.data = r.data

Fitted(r, records) ==
  /\ r.rows \in records /\ r.rows.kind = "rows" /\ r.rows.split = "calibration"
  /\ r.rows.artifact = r.artifact /\ r.rows.data = r.data
  /\ r.edges \in EdgeLists /\ r.bins = Bins(r.rows, r.edges)

Good(r, records) ==
  /\ r.kind \in {"report", "rows", "evaluation"} => Measured(r)
  /\ r.kind \in {"rows", "evaluation"} => Scored(r) /\ Reported(r, records)
  /\ r.kind = "evaluation" => r.split = "test"
  /\ r.kind = "candidate" => Fitted(r, records)

Grounded == \A r \in made : Good(r, made)

\* Another record takes nothing from those there are.
LEMMA GoodStaysGood ==
  ASSUME NEW r, NEW records, NEW more, records \subseteq more, Good(r, records)
  PROVE  Good(r, more)
  <1>1. Reported(r, records) => Reported(r, more)
    BY DEF Reported
  <1>2. Fitted(r, records) => Fitted(r, more)
    BY DEF Fitted
  <1>. QED
    BY <1>1, <1>2, Zenon DEF Good

\* Writing a record that rests on the others keeps them grounded.
LEMMA GoodIsGrounded ==
  ASSUME Grounded, NEW r, made' = made \cup {r}, Good(r, made)
  PROVE  Grounded'
  <1>1. \A x \in made' : Good(x, made)
    BY DEF Grounded
  <1>2. \A x \in made' : Good(x, made')
    BY <1>1, GoodStaysGood
  <1>. QED
    BY <1>2 DEF Grounded, Good, Reported, Fitted

-----------------------------------------------------------------------------
(* What the directory, the review and the analyzer hold.                   *)

\* The directory and the review: written evidence only, and never bytes that are
\* older than the manifest beside them.
Filed ==
  /\ bundle.artifact \in 1..Versions /\ there \in 1..Versions /\ bundle.artifact <= there
  /\ bundle.data \in Datasets /\ bundle.evidence \subseteq made /\ Valid(bundle)
  /\ \A s \in review \cup analyzer.settings : s.candidate \in Of("candidate")
  /\ \A s, t \in review : s = t
  /\ \A s, t \in analyzer.settings : s = t

Started == {"validated", "revalidated", "opened", "ready"}

\* What a running analyzer has checked.  The backend may have read a later export
\* between the checks, but then the directory can never look unchanged again.
Bound ==
  /\ analyzer.stage \in {"off", "idle"} \cup Started
  /\ analyzer.stage \in Started =>
       analyzer.manifest = {bundle} /\ \A s \in analyzer.settings : Accepts(s, bundle)
  /\ analyzer.stage \in {"opened", "ready"} =>
       analyzer.artifact \in bundle.artifact..there
  /\ analyzer.stage = "ready" =>
       /\ analyzer.artifact = bundle.artifact
       /\ \A s \in analyzer.settings : Calibration(bundle) = {s.candidate}
  /\ shown # {} => analyzer.stage = "ready"
  /\ \A b \in shown : /\ b.count >= MinimumCount
                      /\ \E s \in analyzer.settings : b \in s.candidate.bins

Inv == Grounded /\ Filed /\ Bound

LEMMA InitInv == Init => Inv
  <1>. SUFFICES ASSUME Init PROVE Inv
    OBVIOUS
  <1>1. Grounded
    BY DEF Init, Grounded
  <1>2. Filed
    BY EvidenceAssumption DEF Init, Filed, Off
  <1>3. Bound
    BY DEF Init, Bound, Off, Started
  <1>. QED
    BY <1>1, <1>2, <1>3 DEF Inv

-----------------------------------------------------------------------------
(* Records are written.                                                    *)

\* A record disturbs neither the directory nor the runtime.
LEMMA WrittenInv ==
  ASSUME Inv, NEW r, Written(r), Good(r, made)
  PROVE  Inv'
  <1>1. Grounded'
    BY GoodIsGrounded DEF Inv, Written
  <1>2. made \subseteq made' /\ UNCHANGED <<bundle, there, review, analyzer, shown>>
    BY DEF Written
  <1>3. Of("candidate") \subseteq Of("candidate")'
    BY <1>2 DEF Of
  <1>4. Filed'
    <2>1. Valid(bundle)'
      BY <1>2 DEF Inv, Filed, Valid, Concerns, Kind, Benchmarks, Parity, Calibration, Apart, Sound
    <2>. QED
      BY <1>2, <1>3, <2>1 DEF Inv, Filed
  <1>5. Bound'
    <2>1. \A s : Accepts(s, bundle)' <=> Accepts(s, bundle)
      BY <1>2 DEF Accepts, Kind, Benchmarks, Parity, Calibration
    <2>2. Calibration(bundle)' = Calibration(bundle)
      BY <1>2 DEF Calibration, Kind
    <2>. QED
      BY <1>2, <2>1, <2>2 DEF Inv, Bound, Started
  <1>. QED
    BY <1>1, <1>4, <1>5 DEF Inv

LEMMA EvaluateInv == Inv /\ Evaluate => Inv'
  <1>. SUFFICES ASSUME Inv, Evaluate PROVE Inv'
    OBVIOUS
  <1>1. PICK split \in {"validation", "calibration", "test"} :
        \E cases \in SUBSET bundle.data.groups[split] \ {{}} :
          Written([kind |-> "report", artifact |-> there, data |-> bundle.data,
                   split |-> split, scores |-> [g \in cases |-> Score[there][g]]])
    BY DEF Evaluate
  <1>2. PICK cases \in SUBSET bundle.data.groups[split] \ {{}} :
          Written([kind |-> "report", artifact |-> there, data |-> bundle.data,
                   split |-> split, scores |-> [g \in cases |-> Score[there][g]]])
    BY <1>1
  <1>. DEFINE r == [kind |-> "report", artifact |-> there, data |-> bundle.data,
                    split |-> split, scores |-> [g \in cases |-> Score[there][g]]]
  <1>3. Measured(r)
    <2>1. r.split = split /\ r.data = bundle.data /\ r.scores = [g \in cases |-> Score[there][g]]
      OBVIOUS
    <2>2. cases \subseteq bundle.data.groups[split] /\ split \in Splits
      BY DEF Splits
    <2>3. \A g \in cases : Score[there][g] \in Scores \cup {NoScore}
      BY <2>2, EvidenceAssumption DEF Inv, Filed
    <2>4. Apart(bundle.data)
      BY DEF Evaluate
    <2>. HIDE DEF r
    <2>. QED
      BY <2>1, <2>2, <2>3, <2>4 DEF Measured
  <1>4. Good(r, made)
    BY <1>3 DEF Good
  <1>. QED
    BY <1>2, <1>4, WrittenInv

LEMMA PrepareRowsInv == Inv /\ PrepareRows => Inv'
  <1>. SUFFICES ASSUME Inv, PrepareRows PROVE Inv'
    OBVIOUS
  <1>1. PICK report \in Of("report") : \E eligible \in SUBSET DOMAIN report.scores :
          /\ report.split \in {"calibration", "test"}
          /\ Written([kind |-> "rows", artifact |-> report.artifact, data |-> report.data,
                      split |-> report.split, scores |-> report.scores, eligible |-> eligible])
    BY DEF PrepareRows
  <1>2. PICK eligible \in SUBSET DOMAIN report.scores :
          Written([kind |-> "rows", artifact |-> report.artifact, data |-> report.data,
                   split |-> report.split, scores |-> report.scores, eligible |-> eligible])
    BY <1>1
  <1>. DEFINE r == [kind |-> "rows", artifact |-> report.artifact, data |-> report.data,
                    split |-> report.split, scores |-> report.scores, eligible |-> eligible]
  <1>3. report \in made /\ report.kind = "report" /\ Measured(report)
    BY DEF Of, Inv, Grounded, Good
  <1>4. Measured(r) /\ Scored(r)
    BY <1>3 DEF Measured, Scored
  <1>5. Reported(r, made)
    BY <1>3 DEF Reported
  <1>6. Good(r, made)
    BY <1>4, <1>5 DEF Good
  <1>. QED
    BY <1>2, <1>6, WrittenInv

LEMMA FitInv == Inv /\ Fit => Inv'
  <1>. SUFFICES ASSUME Inv, Fit PROVE Inv'
    OBVIOUS
  <1>1. PICK rows \in RowsOf("calibration"), edges \in EdgeLists :
          Written([kind |-> "candidate", artifact |-> rows.artifact, data |-> rows.data,
                   rows |-> rows, edges |-> edges, bins |-> Bins(rows, edges)])
    BY DEF Fit
  <1>. DEFINE r == [kind |-> "candidate", artifact |-> rows.artifact, data |-> rows.data,
                    rows |-> rows, edges |-> edges, bins |-> Bins(rows, edges)]
  <1>2. Fitted(r, made)
    BY <1>1 DEF Fitted, Of, RowsOf
  <1>3. Good(r, made)
    BY <1>2 DEF Good
  <1>. QED
    BY <1>1, <1>3, WrittenInv

LEMMA EvaluateCandidateInv == Inv /\ EvaluateCandidate => Inv'
  <1>. SUFFICES ASSUME Inv, EvaluateCandidate PROVE Inv'
    OBVIOUS
  <1>1. PICK rows \in RowsOf("test") :
          Written([kind |-> "evaluation", artifact |-> rows.artifact, data |-> rows.data,
                   split |-> "test", scores |-> rows.scores, eligible |-> rows.eligible])
    BY DEF EvaluateCandidate
  <1>. DEFINE r == [kind |-> "evaluation", artifact |-> rows.artifact, data |-> rows.data,
                    split |-> "test", scores |-> rows.scores, eligible |-> rows.eligible]
  <1>2. /\ rows \in made /\ rows.split = "test"
        /\ Measured(rows) /\ Scored(rows) /\ Reported(rows, made)
    BY DEF RowsOf, Of, Inv, Grounded, Good
  <1>3. Measured(r) /\ Scored(r)
    BY <1>2 DEF Measured, Scored
  <1>4. Reported(r, made)
    BY <1>2 DEF Reported
  <1>5. Good(r, made)
    BY <1>3, <1>4 DEF Good
  <1>. QED
    BY <1>1, <1>5, WrittenInv

LEMMA CompareInv == Inv /\ Compare => Inv'
  <1>. SUFFICES ASSUME Inv, Compare PROVE Inv'
    OBVIOUS
  <1>1. PICK reference \in Of("report"), report \in Of("report") :
          Written([kind |-> "parity", artifact |-> report.artifact, data |-> report.data,
                   passed |-> /\ reference.scores = report.scores
                              /\ \E g \in DOMAIN report.scores : report.scores[g] # NoScore])
    BY DEF Compare
  <1>. DEFINE r == [kind |-> "parity", artifact |-> report.artifact, data |-> report.data,
                    passed |-> /\ reference.scores = report.scores
                               /\ \E g \in DOMAIN report.scores : report.scores[g] # NoScore]
  <1>2. r.kind = "parity"
    OBVIOUS
  <1>3. Good(r, made)
    BY <1>2 DEF Good
  <1>. QED
    BY <1>1, <1>3, WrittenInv

-----------------------------------------------------------------------------
(* The directory and the runtime change.                                   *)

\* While the records stay, so does what they rest on.
LEMMA GroundedStays == Grounded /\ UNCHANGED made => Grounded'
  <1>. SUFFICES ASSUME Grounded, made' = made PROVE Grounded'
    OBVIOUS
  <1>1. \A x \in made' : Good(x, made')
    BY DEF Grounded
  <1>. QED
    BY <1>1 DEF Grounded, Good, Reported, Fitted

\* What a manifest holds does not depend on the state.
LEMMA ManifestsAreConstant ==
  ASSUME bundle' = bundle
  PROVE  /\ Valid(bundle)' <=> Valid(bundle)
         /\ Calibration(bundle)' = Calibration(bundle)
         /\ \A s : Accepts(s, bundle)' <=> Accepts(s, bundle)
  BY DEF Valid, Apart, Concerns, Kind, Benchmarks, Parity, Calibration, Sound, Accepts

LEMMA ImportInv == Inv /\ Import => Inv'
  <1>. SUFFICES ASSUME Inv, Import PROVE Inv'
    OBVIOUS
  <1>1. Grounded'
    BY GroundedStays DEF Import, Inv
  <1>2. PICK m \in Manifests : Valid(m) /\ bundle' = m /\ there' = m.artifact
    BY DEF Import
  <1>3. /\ m.artifact \in 1..Versions /\ m.data \in Datasets
        /\ m.evidence \subseteq made
    BY <1>2 DEF Manifests, Of
  <1>4. Valid(bundle)'
    BY <1>2 DEF Valid, Apart, Concerns, Kind, Benchmarks, Parity, Calibration, Sound
  <1>5. Filed'
    BY <1>2, <1>3, <1>4 DEF Import, Inv, Filed, Of
  <1>6. Bound'
    BY DEF Import, Inv, Bound, Started
  <1>. QED
    BY <1>1, <1>5, <1>6 DEF Inv

LEMMA OverwriteInv == Inv /\ Overwrite => Inv'
  <1>. SUFFICES ASSUME Inv, Overwrite PROVE Inv'
    OBVIOUS
  <1>1. Grounded'
    BY GroundedStays DEF Overwrite, Inv
  <1>2. /\ there \in 1..Versions /\ bundle.artifact \in 1..Versions
        /\ bundle.artifact <= there /\ Versions \in Nat
        /\ there' = there + 1 /\ there < Versions
    BY EvidenceAssumption DEF Inv, Filed, Overwrite
  <1>3. Filed'
    BY <1>2, ManifestsAreConstant DEF Overwrite, Inv, Filed, Of
  <1>4. Bound'
    BY <1>2, ManifestsAreConstant DEF Overwrite, Inv, Bound, Started
  <1>. QED
    BY <1>1, <1>3, <1>4 DEF Inv

LEMMA ReviewInv == Inv /\ Review => Inv'
  <1>. SUFFICES ASSUME Inv, Review PROVE Inv'
    OBVIOUS
  <1>1. Grounded'
    BY GroundedStays DEF Review, Inv
  <1>2. Filed'
    BY ManifestsAreConstant DEF Review, Inv, Filed, Of
  <1>3. Bound'
    BY ManifestsAreConstant DEF Review, Inv, Bound, Started
  <1>. QED
    BY <1>1, <1>2, <1>3 DEF Inv

LEMMA StartInv == Inv /\ Start => Inv'
  <1>. SUFFICES ASSUME Inv, Start PROVE Inv'
    OBVIOUS
  <1>1. Grounded'
    BY GroundedStays DEF Start, Only, Inv
  <1>2. Filed'
    BY ManifestsAreConstant DEF Start, Only, Off, Inv, Filed, Of
  <1>3. Bound'
    BY DEF Start, Only, Off, Inv, Bound, Started
  <1>. QED
    BY <1>1, <1>2, <1>3 DEF Inv

\* The steps of a running analyzer leave the files and its settings alone.
LEMMA FiledStays ==
  ASSUME Filed, Only, analyzer'.settings = analyzer.settings
  PROVE  Filed'
  BY ManifestsAreConstant DEF Filed, Only, Of

LEMMA ValidateInv == Inv /\ Validate => Inv'
  <1>. SUFFICES ASSUME Inv, Validate PROVE Inv'
    OBVIOUS
  <1>1. Grounded' /\ Filed'
    BY GroundedStays, FiledStays DEF Validate, Only, Inv
  <1>2. Bound'
    BY ManifestsAreConstant DEF Validate, Accepted, Only, Inv, Bound, Started
  <1>. QED
    BY <1>1, <1>2 DEF Inv

LEMMA RevalidateInv == Inv /\ Revalidate => Inv'
  <1>. SUFFICES ASSUME Inv, Revalidate PROVE Inv'
    OBVIOUS
  <1>1. Grounded' /\ Filed'
    BY GroundedStays, FiledStays DEF Revalidate, Stage, Only, Inv
  <1>2. Bound'
    BY ManifestsAreConstant DEF Revalidate, Stage, Only, Inv, Bound, Started
  <1>. QED
    BY <1>1, <1>2 DEF Inv

LEMMA OpenInv == Inv /\ Open => Inv'
  <1>. SUFFICES ASSUME Inv, Open PROVE Inv'
    OBVIOUS
  <1>1. Grounded' /\ Filed'
    BY GroundedStays, FiledStays DEF Open, Only, Inv
  <1>2. there \in bundle.artifact..there
    BY DEF Inv, Filed
  <1>3. Bound'
    BY <1>2, ManifestsAreConstant DEF Open, Only, Inv, Bound, Started
  <1>. QED
    BY <1>1, <1>3 DEF Inv

\* What the backend read lies between the manifest's version and what is there:
\* if those two are the same, it read that one.
LEMMA BindInv == Inv /\ Bind => Inv'
  <1>. SUFFICES ASSUME Inv, Bind PROVE Inv'
    OBVIOUS
  <1>1. Grounded' /\ Filed'
    BY GroundedStays, FiledStays DEF Bind, Stage, Only, Inv
  <1>2. /\ analyzer.manifest = {bundle} /\ analyzer.artifact \in bundle.artifact..there
        /\ \A s \in analyzer.settings : Accepts(s, bundle)
        /\ shown = {}
    BY DEF Bind, Stage, Inv, Bound, Started
  <1>3. analyzer.artifact = bundle.artifact
    BY <1>2 DEF Bind, Unchanged, Inv, Filed
  <1>4. \A s \in analyzer.settings : Calibration(bundle) = {s.candidate}
    BY <1>2 DEF Bind
  <1>5. Bound'
    BY <1>2, <1>3, <1>4, ManifestsAreConstant DEF Bind, Stage, Only, Inv, Bound, Started
  <1>. QED
    BY <1>1, <1>5 DEF Inv

LEMMA CloseInv == Inv /\ Close => Inv'
  <1>. SUFFICES ASSUME Inv, Close PROVE Inv'
    OBVIOUS
  <1>1. Grounded' /\ Filed'
    BY GroundedStays, FiledStays DEF Close, Only, Inv
  <1>2. Bound'
    BY DEF Close, Only, Inv, Bound, Started
  <1>. QED
    BY <1>1, <1>2 DEF Inv

LEMMA StopInv == Inv /\ Stop => Inv'
  <1>. SUFFICES ASSUME Inv, Stop PROVE Inv'
    OBVIOUS
  <1>1. Grounded'
    BY GroundedStays DEF Stop, Only, Inv
  <1>2. Filed'
    BY ManifestsAreConstant DEF Stop, Only, Off, Inv, Filed, Of
  <1>3. Bound'
    BY DEF Stop, Only, Off, Inv, Bound, Started
  <1>. QED
    BY <1>1, <1>2, <1>3 DEF Inv

LEMMA AnalyzeInv == Inv /\ Analyze => Inv'
  <1>. SUFFICES ASSUME Inv, Analyze PROVE Inv'
    OBVIOUS
  <1>1. Grounded' /\ Filed'
    BY GroundedStays, FiledStays DEF Analyze, Only, Inv
  <1>2. \A b \in shown' : /\ b.count >= MinimumCount
                          /\ \E s \in analyzer.settings : b \in s.candidate.bins
    BY DEF Analyze, Confidence, Found
  <1>3. Bound'
    BY <1>2, ManifestsAreConstant DEF Analyze, Only, Inv, Bound, Started
  <1>. QED
    BY <1>1, <1>3 DEF Inv

LEMMA NextInv == Inv /\ [Next]_vars => Inv'
  <1>. SUFFICES ASSUME Inv, [Next]_vars PROVE Inv'
    OBVIOUS
  <1>1. CASE UNCHANGED vars
    <2>1. Grounded' /\ Filed'
      BY <1>1, GroundedStays, FiledStays DEF vars, Only, Inv
    <2>2. Bound'
      BY <1>1, ManifestsAreConstant DEF vars, Inv, Bound, Started
    <2>. QED
      BY <2>1, <2>2 DEF Inv
  <1>2. CASE Next
    BY <1>2, EvaluateInv, PrepareRowsInv, FitInv, EvaluateCandidateInv, CompareInv,
       ImportInv, OverwriteInv, ReviewInv, StartInv, ValidateInv, RevalidateInv,
       OpenInv, BindInv, CloseInv, StopInv, AnalyzeInv DEF Next
  <1>. QED
    BY <1>1, <1>2

-----------------------------------------------------------------------------
(* The theorems.                                                           *)

\* A candidate's bins are its fit's.
LEMMA CandidatesAreFitted ==
  ASSUME Grounded, NEW c \in Of("candidate")
  PROVE  /\ Fitted(c, made) /\ Measured(c.rows) /\ Scored(c.rows)
         /\ \A b \in c.bins :
              b.count = Cardinality({g \in c.rows.eligible :
                                       Found(c.bins, c.rows.scores[g]) = {b}})
  <1>1. Fitted(c, made)
    BY DEF Of, Grounded, Good
  <1>2. Measured(c.rows) /\ Scored(c.rows)
    BY <1>1 DEF Fitted, Grounded, Good
  <1>3. c.edges \in EdgeLists /\ c.bins = Bins(c.rows, c.edges)
    BY <1>1 DEF Fitted
  <1>. QED
    BY <1>1, <1>2, <1>3, BinsCount

LEMMA InvIsBacked == Inv => NumbersAreBacked
  <1>. SUFFICES ASSUME Inv, shown # {}
                PROVE  NumbersAreBacked
    BY DEF NumbersAreBacked
  <1>1. analyzer.stage = "ready" /\ analyzer.artifact = bundle.artifact
    BY DEF Inv, Bound
  <1>2. PICK s \in analyzer.settings : TRUE
    BY DEF Inv, Bound
  <1>. DEFINE c == s.candidate
  <1>3. Accepts(s, bundle) /\ s.manifest = bundle /\ Calibration(bundle) = {c}
    BY <1>1 DEF Inv, Bound, Started, Accepts
  <1>4. c \in Of("candidate")
    BY DEF Inv, Filed
  <1>5. c.artifact = bundle.artifact /\ c.data = bundle.data
    BY <1>3 DEF Inv, Filed, Valid, Concerns, Calibration, Kind
  <1>6. /\ Fitted(c, made) /\ Measured(c.rows) /\ Scored(c.rows)
        /\ \A b \in c.bins :
             b.count = Cardinality({g \in c.rows.eligible :
                                      Found(c.bins, c.rows.scores[g]) = {b}})
    BY <1>4, CandidatesAreFitted DEF Inv
  <1>7. \A b \in shown :
          Cardinality({g \in c.rows.eligible : Found(c.bins, c.rows.scores[g]) = {b}})
            >= MinimumCount
    <2>1. \A b \in shown : b \in c.bins /\ b.count >= MinimumCount
      BY DEF Inv, Bound, Filed
    <2>. QED
      BY <1>6, <2>1
  <1>8. c.rows.eligible \subseteq bundle.data.groups["calibration"]
    BY <1>5, <1>6 DEF Fitted, Measured, Scored
  <1>9. c.rows.eligible \cap (bundle.data.groups["train"] \cup bundle.data.groups["test"]) = {}
    <2>1. Apart(bundle.data)
      BY DEF Inv, Filed, Valid
    <2>2. /\ bundle.data.groups["calibration"] \cap bundle.data.groups["train"] = {}
          /\ bundle.data.groups["calibration"] \cap bundle.data.groups["test"] = {}
      BY <2>1 DEF Apart, Splits
    <2>. QED
      BY <1>8, <2>2
  <1>10. \E r \in made : /\ r.kind = "report" /\ r.artifact = bundle.artifact
                         /\ r.split = "test" /\ r.data = bundle.data
    <2>1. PICK r \in Benchmarks(bundle) : r.split = "test"
      BY <1>3 DEF Accepts
    <2>2. /\ r \in made /\ r.kind \in {"report", "evaluation"}
          /\ r.artifact = bundle.artifact /\ r.data = bundle.data
      BY <2>1 DEF Benchmarks, Kind, Inv, Filed, Valid, Concerns
    <2>3. CASE r.kind = "evaluation"
      <3>1. Reported(r, made)
        BY <2>2, <2>3 DEF Inv, Grounded, Good
      <3>. QED
        BY <2>1, <2>2, <3>1 DEF Reported
    <2>. QED
      BY <2>1, <2>2, <2>3
  <1>11. bundle.data.real
    BY <1>3 DEF Accepts
  <1>. QED
    BY <1>1, <1>3, <1>5, <1>7, <1>8, <1>9, <1>10, <1>11 DEF NumbersAreBacked

\* Every row a calibration was fitted from is found in the bin that counts it:
\* training/calibration.py and core/runtime/calibration.py sort these rows alike.
THEOREM RowsAreAlwaysFound == Spec => []RowsAreFound
  <1>1. Inv => RowsAreFound
    BY CandidatesAreFitted DEF Inv, RowsAreFound
  <1>. QED
    BY <1>1, InitInv, NextInv, PTL DEF Spec

\* Calibrated confidence rests on real, held-out rows of the artifact that is
\* running, whatever is exported over it or reviewed meanwhile (RealAnalyzer,
\* ApprovedCalibration).
THEOREM NumbersAreAlwaysBacked == Spec => []NumbersAreBacked
  BY InvIsBacked, InitInv, NextInv, PTL DEF Spec
=============================================================================
