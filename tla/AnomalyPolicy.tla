--------------------------- MODULE AnomalyPolicy ---------------------------
(***************************************************************************)
(* The pure decisions of the PA role: which published frames are usable    *)
(* (core/runtime/quality.py), when a run of frames becomes an incident     *)
(* (PersistentAnomalyPolicy in roles/pa/policy.py) and how a frame judges  *)
(* a finished adjustment (PASession._consider_verification).               *)
(*                                                                         *)
(* A frame is abstracted to the span of its window, the outcome of the     *)
(* quality gates, and one reading per configured instrument: the signed    *)
(* balance deviation in steps, 0 inside the normal envelope, or            *)
(* Unobservable when the source is inactive or its confidence abstained.   *)
(***************************************************************************)
EXTENDS Integers

CONSTANTS
  Instruments,      \* instrument_ids of the instrument configuration
  Levels,           \* balance deviations a frame may report
  Unobservable,     \* an abstained or inactive reading
  RequiredFrames    \* persistence_frames of the session

ASSUME PolicyAssumption ==
  /\ Instruments # {}
  /\ Levels \subseteq Int
  /\ Unobservable \notin Int
  /\ RequiredFrames \in Nat
  /\ RequiredFrames > 1      \* every session is created with 2

\* max() over the anomalous instruments is defined: some deviation is largest.
ASSUME LargestDeviation ==
  \A r \in [Instruments -> Levels \cup {Unobservable}] :
    LET anomalous == {i \in Instruments : r[i] \notin {0, Unobservable}}
        size(i) == IF r[i] < 0 THEN -r[i] ELSE r[i]
    IN  anomalous # {} => \E i \in anomalous : \A j \in anomalous : size(j) <= size(i)

Qualities == {"usable", "dropout", "gated"}
Readings == Levels \cup {Unobservable}

Frames ==
  [start : Nat, end : Nat, quality : Qualities, reading : [Instruments -> Readings]]

Usable(f) == f.quality = "usable"
Observable(l) == l # Unobservable
Size(l) == IF l < 0 THEN -l ELSE l

(***************************************************************************)
(* Persistence.  A detector holds the (instrument, direction) it is        *)
(* following, how many frames support it, and the ends of the first and of *)
(* the last of them.                                                       *)
(***************************************************************************)
Keys == (Instruments \X BOOLEAN) \cup {<<>>}
Detectors == [key : Keys, count : Nat, first : Nat, last : Nat]

NoEvidence == [key |-> <<>>, count |-> 0, first |-> 0, last |-> 0]

Anomalies(f) == {i \in Instruments : f.reading[i] \notin {0, Unobservable}}

\* max(candidates, key=abs(balance_deviation_db))
Worst(f) ==
  CHOOSE i \in Anomalies(f) :
    \A j \in Anomalies(f) : Size(f.reading[j]) <= Size(f.reading[i])

KeyOf(f) == <<Worst(f), f.reading[Worst(f)] > 0>>

ExtendOverlapping(d, f) ==
  IF d.count = 0 \/ d.key # KeyOf(f) \/ f.start > d.last
  THEN [key |-> KeyOf(f), count |-> 1, first |-> f.end, last |-> f.end]
  ELSE [d EXCEPT !.count = @ + 1, !.last = f.end]

\* An anomalous usable frame: a new key or a gap restarts the count, a window
\* overlapping the last supporting one is not independent evidence.
Extend(d, f) ==
  IF d.count = 0 \/ d.key # KeyOf(f) \/ f.start > d.last
  THEN [key |-> KeyOf(f), count |-> 1, first |-> f.end, last |-> f.end]
  ELSE IF f.start < d.last
       THEN d
       ELSE [d EXCEPT !.count = @ + 1, !.last = f.end]

Supports(f) == Usable(f) /\ Anomalies(f) # {}

\* The frame completes the required run; evidence of an incident.
Confirms(d, f) == Supports(f) /\ Extend(d, f).count >= RequiredFrames

ObserveAcrossDropout(d, f) ==
  IF Usable(f) THEN IF Supports(f) /\ ~Confirms(d, f) THEN Extend(d, f) ELSE NoEvidence ELSE d

Observe(d, f) ==
  CASE f.quality = "dropout" -> NoEvidence
    [] f.quality = "gated"   -> d
    [] OTHER -> IF Supports(f) /\ ~Confirms(d, f) THEN Extend(d, f) ELSE NoEvidence

(***************************************************************************)
(* Verification of an adjustment for an incident first seen at `before'.   *)
(***************************************************************************)
Outcomes == {"recovered", "partial", "not_recovered", "inconclusive"}

JudgeStale(f, instrument, before) ==
  IF ~Usable(f) THEN "stale_evidence"
  ELSE IF f.reading[instrument] = 0 THEN "recovered" ELSE "not_recovered"

Judge(f, instrument, before) ==
  LET after == f.reading[instrument]
  IN  IF ~(Usable(f) /\ Observable(after)) THEN "inconclusive"
      ELSE IF after = 0 THEN "recovered"
      ELSE IF Size(after) < Size(before) THEN "partial" ELSE "not_recovered"
=============================================================================
