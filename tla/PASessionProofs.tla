-------------------------- MODULE PASessionProofs --------------------------
(***************************************************************************)
(* Theorems about PASession, for every instrument set, level set, window,  *)
(* settling time, age budget and either workflow policy: its types, then   *)
(* its safety properties by an inductive invariant with one lemma per      *)
(* property it is made of, and from it the action properties.  The last    *)
(* part is about the audio evidence behind an incident: it is a run of     *)
(* exactly RequiredFrames adjacent windows heard after the last break, and *)
(* in the live policy wholly within the source now open.                   *)
(***************************************************************************)
EXTENDS PASession, TLAPS

-----------------------------------------------------------------------------
(***************************************************************************)
(* The policy operators.                                                   *)
(***************************************************************************)

\* A window delivered to the session is newer than every earlier one and lies
\* in the past of the source clock (Windows bounds what AudioWorker hands over).
LEMMA WindowFacts ==
  ASSUME TypeOK, NEW f \in Windows
  PROVE  /\ f.end \in Nat
         /\ f.end > delivered
         /\ f.end <= now
         /\ f.start \in Nat
         /\ f.start = f.end - WindowLength
         /\ f.start >= clock.origin
         /\ f.quality \in Qualities
         /\ f.reading \in [Instruments -> Readings]
  BY SessionAssumption DEF Windows, TypeOK

\* Gating a stale result changes nothing but its quality.
LEMMA PublishedFacts ==
  ASSUME NEW f \in Windows
  PROVE  /\ Published(f).end = f.end
         /\ Published(f).start = f.start
         /\ Published(f).reading = f.reading
         /\ Published(f).quality \in Qualities
         /\ f.quality = "dropout" <=> Published(f).quality = "dropout"
         /\ Usable(Published(f)) => Usable(f) /\ Fresh(f) /\ Published(f) = f
  BY DEF Windows, Published, Usable, Qualities

\* The instrument max() selects is one of the anomalous ones.
LEMMA WorstIsAnomalous ==
  ASSUME NEW f, f.reading \in [Instruments -> Readings], Anomalies(f) # {}
  PROVE  Worst(f) \in Anomalies(f) /\ Worst(f) \in Instruments /\ f.reading[Worst(f)] \in Int
  <1> DEFINE r == f.reading
  <1>1. r \in [Instruments -> Levels \cup {Unobservable}]
    BY DEF Readings
  <1>2. \E i \in Anomalies(f) : \A j \in Anomalies(f) : Size(f.reading[j]) <= Size(f.reading[i])
    BY <1>1, LargestDeviation DEF Anomalies, Size
  <1>3. Worst(f) \in Anomalies(f)
    BY <1>2 DEF Worst
  <1>4. f.reading[Worst(f)] \in Levels
    BY <1>3 DEF Anomalies, Readings
  <1> QED
    BY <1>3, <1>4, PolicyAssumption DEF Anomalies

\* Extending a run keeps it a run; it starts at this window or where it started.
LEMMA ExtendFacts ==
  ASSUME NEW d \in Detectors, NEW f, f.end \in Nat, f.start \in Int,
         f.reading \in [Instruments -> Readings], Supports(f)
  PROVE  /\ Extend(d, f) \in Detectors
         /\ Extend(d, f).first = f.end \/ (d.count > 0 /\ Extend(d, f).first = d.first)
         /\ Extend(d, f).count > 0
  <1>1. KeyOf(f) \in Keys
    <2>1. Worst(f) \in Instruments
      BY WorstIsAnomalous DEF Supports
    <2>2. (f.reading[Worst(f)] > 0) \in BOOLEAN
      OBVIOUS
    <2> QED
      BY <2>1, <2>2 DEF KeyOf, Keys
  <1>2. d.key \in Keys /\ d.count \in Nat /\ d.first \in Nat /\ d.last \in Nat
    BY DEF Detectors
  <1>3. CASE d.count = 0 \/ d.key # KeyOf(f) \/ f.start > d.last
    BY <1>1, <1>3 DEF Extend, Detectors
  <1>4. CASE ~(d.count = 0 \/ d.key # KeyOf(f) \/ f.start > d.last) /\ f.start < d.last
    BY <1>2, <1>4 DEF Extend
  <1>5. CASE ~(d.count = 0 \/ d.key # KeyOf(f) \/ f.start > d.last) /\ ~(f.start < d.last)
    <2>1. Extend(d, f) = [d EXCEPT !.count = @ + 1, !.last = f.end]
      BY <1>5 DEF Extend
    <2>2. [d EXCEPT !.count = @ + 1, !.last = f.end] \in Detectors
      <3>1. d.count + 1 \in Nat
        BY <1>2
      <3> QED
        BY <3>1, Zenon DEF Detectors
    <2>3. [d EXCEPT !.count = @ + 1, !.last = f.end].first = d.first
      BY DEF Detectors
    <2>4. [d EXCEPT !.count = @ + 1, !.last = f.end].count = d.count + 1
      BY DEF Detectors
    <2> QED
      BY <1>2, <1>5, <2>1, <2>2, <2>3, <2>4
  <1> QED
    BY <1>3, <1>4, <1>5

LEMMA ObserveFacts ==
  ASSUME NEW d \in Detectors, NEW f, f.end \in Nat, f.start \in Int,
         f.reading \in [Instruments -> Readings]
  PROVE  /\ Observe(d, f) \in Detectors
         /\ Observe(d, f).count > 0 =>
              Observe(d, f).first = f.end \/ (d.count > 0 /\ Observe(d, f).first = d.first)
         /\ f.quality = "dropout" => Observe(d, f).count = 0
  <1>1. NoEvidence \in Detectors /\ NoEvidence.count = 0
    BY DEF NoEvidence, Detectors, Keys
  <1>2. CASE f.quality \in {"dropout", "gated"}
    BY <1>1, <1>2 DEF Observe
  <1>3. CASE f.quality \notin {"dropout", "gated"}
    BY <1>1, <1>3, ExtendFacts DEF Observe
  <1> QED
    BY <1>2, <1>3

-----------------------------------------------------------------------------
(***************************************************************************)
(* Types.                                                                  *)
(***************************************************************************)
Numbers == [end : Nat, clock : Nat]

LEMMA EmptyValues ==
  /\ NoFrame \in Numbers
  /\ NoIncident \in Incidents
  /\ NoAdjustment \in Adjustments
  /\ NoVerification \in Verifications
  /\ NoEvidence \in Detectors
  <1>1. NoIncident \in Incidents
    <2>1. (CHOOSE i \in Instruments : TRUE) \in Instruments
      BY PolicyAssumption
    <2> QED
      BY <2>1 DEF NoIncident, Incidents, EventStates
  <1> QED
    BY <1>1 DEF NoFrame, Numbers, NoAdjustment, Adjustments, Unset, NoVerification,
                Verifications, Outcomes, NoEvidence, Detectors, Keys

LEMMA RevisedType ==
  ASSUME TypeOK, NEW s \in EventStates
  PROVE  /\ Revised(s) \in Incidents
         /\ Revised(s).id = incident.id
         /\ Revised(s).state = s
         /\ Revised(s).version = incident.version + 1
         /\ Revised(s).clock = incident.clock
         /\ Revised(s).first = incident.first
  <1>1. incident.version + 1 \in Nat
    BY DEF TypeOK, Incidents
  <1>2. Revised(s) \in Incidents
    BY <1>1, Zenon DEF TypeOK, Incidents, Revised
  <1>3. /\ Revised(s).id = incident.id
        /\ Revised(s).state = s
        /\ Revised(s).version = incident.version + 1
        /\ Revised(s).clock = incident.clock
        /\ Revised(s).first = incident.first
    BY DEF TypeOK, Incidents, Revised
  <1> QED
    BY <1>2, <1>3

\* The types of what a published frame writes.
LEMMA PublishType ==
  ASSUME TypeOK, NEW f \in Windows, Publish(f)
  PROVE  /\ delivered' \in Nat
         /\ frame' \in Numbers
         /\ capture' \in Captures
         /\ mode' \in {"rehearsal", "live"}
         /\ suspension' \in Reasons
         /\ baseline' \in Nat
         /\ clock' \in [id : Nat, origin : Nat]
         /\ now' \in Nat
  <1>1. delivered' \in Nat /\ frame' \in Numbers
    BY WindowFacts DEF Publish, Numbers, TypeOK
  <1> DEFINE fresh == Fresh(f) /\ f.quality # "dropout"
  <1>2. fresh \in BOOLEAN /\ (IF fresh THEN "active" ELSE "listening") \in CaptureStates
    BY DEF CaptureStates, Fresh
  <1>3. [capture EXCEPT !.fresh = fresh, !.state = IF fresh THEN "active" ELSE "listening"]
          \in Captures
    <2> HIDE DEF fresh
    <2> QED
      BY <1>2, Zenon DEF TypeOK, Captures
  <1> QED
    BY <1>1, <1>3 DEF Publish, TypeOK

LEMMA TransitionType ==
  ASSUME TypeOK, NEW d \in Detectors, Transition(d)
  PROVE  version' \in Nat /\ probe' \in Nat \cup {Idle} /\ detector' \in Detectors
  BY EmptyValues DEF TypeOK, Transition

LEMMA JudgeType ==
  ASSUME NEW g, NEW i, NEW b
  PROVE  Judge(g, i, b) \in Outcomes
  BY DEF Judge, Outcomes

\* A delivered window keeps every type.
LEMMA ObserveTypeStep ==
  ASSUME TypeOK, ObserveWindow
  PROVE  TypeOK'
  <1>1. PICK f \in Windows :
          \/ ObserveBeforeProbe(f) \/ ObserveSuspended(f) \/ ObserveProbeDropout(f)
          \/ ObserveAfterResume(f) \/ ObserveWaiting(f) \/ ObserveProactive(f)
          \/ ObserveRefused(f) \/ ObserveVerification(f) \/ ObserveQuiet(f)
          \/ ObserveRetiring(f) \/ ObserveOpening(f)
    BY DEF ObserveWindow
  <1> USE DEF TypeOK, NoWorkflowChange, KeepHuman, human, KeepTime, Workers, Phases, Workflows
  <1>2. CASE ObserveBeforeProbe(f)
    BY <1>2, WindowFacts DEF ObserveBeforeProbe
  <1>3. CASE ObserveSuspended(f)
    BY <1>3, PublishType DEF ObserveSuspended, Numbers
  <1>4. CASE ObserveProbeDropout(f)
    BY <1>4, PublishType, EmptyValues, WindowFacts DEF ObserveProbeDropout, Numbers
  <1>5. CASE ObserveAfterResume(f)
    BY <1>5, PublishType DEF ObserveAfterResume, Numbers, Usable
  <1>6. CASE ObserveWaiting(f)
    BY <1>6, PublishType DEF ObserveWaiting, Numbers
  <1>7. CASE ObserveProactive(f)
    BY <1>7, PublishType, TransitionType, EmptyValues DEF ObserveProactive, Numbers
  <1>8. CASE ObserveRefused(f)
    BY <1>8, WindowFacts DEF ObserveRefused
  <1>9. CASE ObserveVerification(f)
    <2> DEFINE outcome == Judge(Published(f), incident.instrument, incident.before)
               verdict == CASE outcome = "recovered"    -> "resolved"
                            [] outcome = "inconclusive" -> "inconclusive"
                            [] OTHER                    -> "active"
    <2>1. outcome \in Outcomes
      BY JudgeType
    <2>2. verdict \in EventStates /\ verdict \in Phases
      BY <2>1 DEF EventStates
    <2>3. /\ verification' = [event |-> incident.id, adjustment |-> adjustment.id,
                              outcome |-> outcome, start |-> f.start]
          /\ incident' = Revised(verdict)
          /\ phase' = verdict
          /\ advice' = IF verdict = "resolved" THEN 0 ELSE advice
          /\ workflow' = CASE verdict = "resolved" -> Monitoring
                           [] verdict = "active"   -> Anomalous
                           [] OTHER                -> workflow
          /\ adjustment' = IF verdict = "inconclusive" THEN adjustment ELSE NoAdjustment
      BY <1>9 DEF ObserveVerification
    <2> HIDE DEF outcome, verdict
    <2>4. verification' \in Verifications
      BY <2>1, <2>3, WindowFacts DEF Verifications, Incidents, Adjustments
    <2>5. incident' \in Incidents
      BY <2>2, <2>3, RevisedType
    <2>6. workflow' \in Workflows /\ phase' \in Phases /\ advice' \in Nat
      BY <2>2, <2>3 DEF Monitoring, Anomalous
    <2>7. adjustment' \in Adjustments
      BY <2>3, EmptyValues
    <2> QED
      BY <1>9, <2>4, <2>5, <2>6, <2>7, PublishType, TransitionType
      DEF ObserveVerification, Numbers
  <1>10. CASE ObserveQuiet(f)
    <2>1. detector' \in Detectors
      BY <1>10, ObserveFacts, PublishedFacts, WindowFacts DEF ObserveQuiet
    <2> QED
      BY <1>10, <2>1, PublishType, WindowFacts DEF ObserveQuiet, Monitored, Numbers
  <1>11. CASE ObserveRetiring(f)
    <2>1. Observe(NoEvidence, Published(f)) \in Detectors
      BY ObserveFacts, PublishedFacts, WindowFacts, EmptyValues
    <2> QED
      BY <1>11, <2>1, PublishType, TransitionType, EmptyValues, WindowFacts
      DEF ObserveRetiring, Monitored, Numbers
  <1>12. CASE ObserveOpening(f)
    <2>1. Supports(f)
      BY <1>12, PublishedFacts DEF ObserveOpening, Opens, Confirms, Supports
    <2>2. Worst(f) \in Instruments /\ f.reading[Worst(f)] \in Int
      BY <2>1, WorstIsAnomalous, WindowFacts DEF Supports
    <2>3. Extend(detector, f).first \in Nat
      BY <2>1, ExtendFacts, WindowFacts DEF Detectors
    <2>4. incident' \in Incidents
      BY <1>12, <2>2, <2>3 DEF ObserveOpening, Incidents, EventStates
    <2>5. counters' \in [incident : Nat, adjustment : Nat]
      BY <1>12 DEF ObserveOpening
    <2> QED
      BY <1>12, <2>4, <2>5, PublishType, TransitionType, EmptyValues, WindowFacts
      DEF ObserveOpening, Monitored, Numbers, Anomalous
  <1> QED
    BY <1>1, <1>2, <1>3, <1>4, <1>5, <1>6, <1>7, <1>8, <1>9, <1>10, <1>11, <1>12

\* Restoring nothing but the capture's own fields keeps its type.
LEMMA CaptureTypes ==
  ASSUME TypeOK
  PROVE  /\ \A state \in CaptureStates : Halted(state) \in Captures
         /\ Lost(capture) \in Captures
         /\ \A c \in Captures : FailPending(c) \in Captures
  <1>1. \A c \in Captures : FailPending(c) \in Captures
    <2> TAKE c \in Captures
    <2>1. "failed" \in SwitchResults
      BY DEF SwitchResults
    <2>2. [c EXCEPT !.switch = "failed"] \in Captures
      BY <2>1, Zenon DEF Captures
    <2> QED
      BY <2>2 DEF FailPending
  <1>2. ASSUME NEW state \in CaptureStates
        PROVE  Halted(state) \in Captures
    <2>1. capture.generation + 1 \in Nat
      BY DEF TypeOK, Captures
    <2>2. [capture EXCEPT !.generation = @ + 1, !.state = state, !.fresh = FALSE,
                          !.opening = FALSE] \in Captures
      BY <2>1, Zenon DEF TypeOK, Captures
    <2> QED
      BY <1>1, <2>2 DEF Halted, TypeOK
  <1>3. Lost(capture) \in Captures
    <2>1. "unavailable" \in CaptureStates
      BY DEF CaptureStates
    <2>2. [capture EXCEPT !.state = "unavailable", !.fresh = FALSE] \in Captures
      BY <2>1, Zenon DEF TypeOK, Captures
    <2> QED
      BY <2>2 DEF Lost, TypeOK
  <1> QED
    BY <1>1, <1>2, <1>3

LEMMA ClearSourceType ==
  ASSUME TypeOK, ClearSource
  PROVE  /\ incident' \in Incidents
         /\ adjustment' \in Adjustments
         /\ phase' \in Phases
         /\ frame' \in Numbers
         /\ verification' \in Verifications
         /\ advice' \in Nat
         /\ armed' \in BOOLEAN
  BY EmptyValues DEF ClearSource, Phases

LEMMA SuspendLegacyType ==
  ASSUME TypeOK, SuspendLegacy
  PROVE  /\ incident' \in Incidents
         /\ adjustment' \in Adjustments
         /\ phase' \in Phases
         /\ frame' \in Numbers
         /\ verification' \in Verifications
         /\ advice' \in Nat
         /\ armed' \in BOOLEAN
  <1>1. advice' \in Nat /\ armed' \in BOOLEAN
    BY DEF SuspendLegacy, Silence
  <1>2. UNCHANGED <<incident, adjustment, phase, verification, frame>>
    BY Zenon DEF SuspendLegacy
  <1> QED
    BY <1>1, <1>2 DEF TypeOK, Numbers

LEMMA SuspendType ==
  ASSUME TypeOK, NEW reason \in Reasons, Suspend(reason),
         capture' \in Captures, version' \in Nat, worker' \in Workers
  PROVE  TypeOK'
  <1>1. /\ incident' \in Incidents
        /\ adjustment' \in Adjustments
        /\ phase' \in Phases
        /\ frame' \in Numbers
        /\ verification' \in Verifications
        /\ advice' \in Nat
        /\ armed' \in BOOLEAN
    <2>1. CASE LiveReference
      BY <2>1, ClearSourceType DEF Suspend
    <2>2. CASE ~LiveReference
      BY <2>2, SuspendLegacyType DEF Suspend
    <2> QED
      BY <2>1, <2>2
  <1> QED
    BY <1>1, EmptyValues DEF Suspend, EvidenceBreaks, KeepTime, TypeOK, Numbers, Workflows

LEMMA InterruptionTypeStep ==
  ASSUME TypeOK, Interruption
  PROVE  TypeOK'
  <1>1. version + 1 \in Nat
    BY DEF TypeOK
  <1>2. CASE SourceEnds
    BY <1>1, <1>2, CaptureTypes, SuspendType DEF SourceEnds, Reasons, Workers
  <1>3. CASE DeleteFails
    <2>1. [Lost(capture) EXCEPT !.opened = 0, !.opening = FALSE] \in Captures
      BY CaptureTypes, Zenon DEF Captures
    <2>2. capture' \in Captures
      BY <1>3, <2>1 DEF DeleteFails, TypeOK
    <2> QED
      BY <1>1, <1>3, <2>2, SuspendType DEF DeleteFails, Reasons, Workers
  <1>4. CASE Restart
    <2> DEFINE lost == Lost(capture)
    <2>1. lost \in Captures
      BY CaptureTypes
    <2>2. [lost EXCEPT !.generation = @ + 1, !.opening = FALSE] \in Captures
      <3> HIDE DEF lost
      <3>1. lost.generation + 1 \in Nat
        BY <2>1 DEF Captures
      <3> QED
        BY <2>1, <3>1, Zenon DEF Captures
    <2>3. capture' \in Captures
      BY <1>4, <2>2, CaptureTypes DEF Restart, TypeOK
    <2> QED
      BY <1>1, <1>4, <2>3, SuspendType DEF Restart, Reasons, RestartReason, Workers
  <1> QED
    BY <1>2, <1>3, <1>4, Interruption DEF Interruption

LEMMA CommandTypeStep ==
  ASSUME TypeOK, Command
  PROVE  TypeOK'
  <1>1. version + 1 \in Nat /\ now \in Nat
    BY DEF TypeOK
  <1>2. detector \in Detectors /\ NoEvidence \in Detectors
    BY EmptyValues DEF TypeOK
  <1> USE DEF KeepHuman, human, KeepTime, EvidenceBreaks, Silence, Workers, Phases, Workflows
  <1>3. CASE StartAdjustment
    <2>1. Revised("acknowledged") \in Incidents
      BY RevisedType DEF EventStates
    <2>2. counters.adjustment + 1 \in Nat
      BY DEF TypeOK
    <2>3. counters' \in [incident : Nat, adjustment : Nat]
      BY <1>3, <2>2, Zenon DEF StartAdjustment, TypeOK
    <2>4. adjustment' \in Adjustments
      BY <1>3, <2>2 DEF StartAdjustment, Adjustments, TypeOK, Incidents, Unset
    <2> QED
      BY <1>2, <1>3, <2>1, <2>3, <2>4, TransitionType DEF StartAdjustment, TypeOK
  <1>4. CASE CompleteAdjustment
    <2>1. adjustment' \in Adjustments
      BY <1>1, <1>4, Zenon DEF CompleteAdjustment, TypeOK, Adjustments
    <2> QED
      BY <1>2, <1>4, <2>1, TransitionType DEF CompleteAdjustment, TypeOK, Verifying
  <1>5. CASE Recheck
    BY <1>2, <1>5, TransitionType DEF Recheck, TypeOK, Verifying
  <1>6. CASE FreeRecheck
    BY <1>2, <1>6, TransitionType DEF FreeRecheck, TypeOK
  <1>7. ASSUME FreshStart, baseline' \in Nat, mode' \in {"rehearsal", "live"},
               workflow' \in Workflows
        PROVE  TypeOK'
    BY <1>2, <1>7, TransitionType, EmptyValues DEF FreshStart, TypeOK, Numbers
  <1>8. CASE AcceptBaseline
    BY <1>7, <1>8 DEF AcceptBaseline, TypeOK
  <1>9. CASE StartLive
    BY <1>7, <1>9 DEF StartLive, TypeOK
  <1>10. CASE Dismiss
    <2>1. Revised("dismissed") \in Incidents
      BY RevisedType DEF EventStates
    <2> QED
      BY <1>2, <1>10, <2>1, TransitionType DEF Dismiss, TypeOK
  <1>11. ASSUME IF LiveReference THEN ClearSource ELSE SuspendLegacy
         PROVE  /\ incident' \in Incidents
                /\ adjustment' \in Adjustments
                /\ phase' \in Phases
                /\ frame' \in Numbers
                /\ verification' \in Verifications
                /\ advice' \in Nat
                /\ armed' \in BOOLEAN
    BY <1>11, ClearSourceType, SuspendLegacyType
  <1>12. CASE Pause
    <2>1. capture' \in Captures
      BY <1>12, CaptureTypes DEF Pause, CaptureStates
    <2> QED
      BY <1>2, <1>11, <1>12, <2>1, TransitionType DEF Pause, TypeOK, Numbers, Reasons
  <1>13. CASE Resume
    <2>1. /\ incident' \in Incidents
          /\ adjustment' \in Adjustments
          /\ phase' \in Phases
          /\ frame' \in Numbers
          /\ verification' \in Verifications
          /\ advice' \in Nat
          /\ armed' \in BOOLEAN
      BY <1>13, ClearSourceType DEF Resume, TypeOK, Numbers
    <2>2. workflow' \in Workflows
      BY <1>13 DEF Resume, Verifying, Anomalous, Monitoring
    <2>3. [capture EXCEPT !.state = "starting", !.fresh = FALSE, !.switch = "none",
                          !.operation = FALSE, !.opened = 0, !.opening = TRUE,
                          !.stay = FALSE] \in Captures
      <3>1. "starting" \in CaptureStates /\ "none" \in SwitchResults /\ 0 \in Nat
        BY DEF CaptureStates, SwitchResults
      <3> QED
        BY <3>1, Zenon DEF TypeOK, Captures
    <2>4. capture' \in Captures /\ worker' \in Workers /\ brokenAt' \in Nat
      BY <1>13, <2>3 DEF Resume, TypeOK
    <2>5. clock' \in [id : Nat, origin : Nat]
      <3>1. [clock EXCEPT !.origin = now] \in [id : Nat, origin : Nat]
        BY <1>1, Zenon DEF TypeOK
      <3> QED
        BY <1>13, <3>1 DEF Resume, TypeOK
    <2>6. version' \in Nat /\ probe' \in Nat \cup {Idle} /\ detector' \in Detectors
      BY <1>2, <1>13, TransitionType DEF Resume
    <2> QED
      BY <1>13, <2>1, <2>2, <2>4, <2>5, <2>6 DEF Resume, TypeOK, Numbers, Reasons
  <1>14. CASE Stop
    <2>1. capture' \in Captures
      BY <1>14, CaptureTypes DEF Stop, CaptureStates
    <2>2. /\ incident' \in Incidents
          /\ adjustment' \in Adjustments
          /\ phase' \in Phases
          /\ frame' \in Numbers
          /\ verification' \in Verifications
          /\ advice' \in Nat
          /\ armed' \in BOOLEAN
      BY <1>14, ClearSourceType DEF Stop, TypeOK, Numbers
    <2> QED
      BY <1>2, <1>14, <2>1, <2>2, TransitionType DEF Stop, TypeOK, Numbers, Reasons
  <1>15. CASE SwitchMicrophone
    <2> DEFINE stay == capture.state = "paused"
    <2>1. [capture EXCEPT !.generation = @ + 1, !.state = "switching", !.fresh = FALSE,
                          !.switch = "pending", !.operation = TRUE, !.opening = TRUE,
                          !.stay = stay] \in Captures
      <3>1. stay \in BOOLEAN
        OBVIOUS
      <3>2. /\ "switching" \in CaptureStates
            /\ "pending" \in SwitchResults
            /\ capture.generation + 1 \in Nat
        BY DEF CaptureStates, SwitchResults, TypeOK, Captures
      <3> HIDE DEF stay
      <3> QED
        BY <3>1, <3>2, Zenon DEF TypeOK, Captures
    <2> QED
      BY <1>2, <1>15, <2>1, TransitionType, ClearSourceType
      DEF SwitchMicrophone, TypeOK, Numbers
  <1>16. CASE ApplyProbe
    BY <1>1, <1>2, <1>16 DEF ApplyProbe, TypeOK
  <1> QED
    BY <1>3, <1>4, <1>5, <1>6, <1>8, <1>9, <1>10, <1>12, <1>13, <1>14, <1>15, <1>16
    DEF Command

LEMMA SourceTypeStep ==
  ASSUME TypeOK, Source
  PROVE  TypeOK'
  <1>1. version + 1 \in Nat /\ version + 2 \in Nat /\ now \in Nat
    BY DEF TypeOK
  <1>2. detector \in Detectors /\ NoEvidence \in Detectors
    BY EmptyValues DEF TypeOK
  <1> USE DEF KeepHuman, human, KeepTime, EvidenceBreaks, NoDecision, Workers, Workflows
  <1>3. CASE OpenSource
    <2>1. /\ capture.generation + 1 \in Nat
          /\ clock.id + 1 \in Nat
          /\ "starting" \in CaptureStates
      BY DEF TypeOK, Captures, CaptureStates
    <2>2. capture' \in Captures
      <3>1. [capture EXCEPT !.generation = @ + 1, !.opened = capture.generation + 1,
                            !.state = "starting", !.fresh = FALSE] \in Captures
        BY <2>1, Zenon DEF TypeOK, Captures
      <3> QED
        BY <1>3, <3>1 DEF OpenSource
    <2>3. clock' \in [id : Nat, origin : Nat]
      BY <1>1, <1>3, <2>1 DEF OpenSource
    <2> QED
      BY <1>2, <1>3, <2>2, <2>3, TransitionType, ClearSourceType
      DEF OpenSource, TypeOK, Numbers, Reasons
  <1>4. CASE SourceReady
    <2>1. PICK result \in {"applied", "rolled_back"} :
            capture' = [capture EXCEPT
              !.opening = FALSE,
              !.switch = IF capture.operation THEN result ELSE "none",
              !.fresh = @ /\ ~capture.stay,
              !.state = IF capture.stay THEN "paused"
                        ELSE IF capture.fresh THEN @ ELSE "listening"]
      BY <1>4 DEF SourceReady
    <2> DEFINE switch == IF capture.operation THEN result ELSE "none"
               fresh == capture.fresh /\ ~capture.stay
               state == IF capture.stay THEN "paused"
                        ELSE IF capture.fresh THEN capture.state ELSE "listening"
    <2>2. switch \in SwitchResults /\ fresh \in BOOLEAN /\ state \in CaptureStates
      BY DEF SwitchResults, CaptureStates, TypeOK, Captures
    <2>3. capture' = [capture EXCEPT !.opening = FALSE, !.switch = switch, !.fresh = fresh,
                                     !.state = state]
      BY <2>1
    <2>4. capture' \in Captures
      <3> HIDE DEF switch, fresh, state
      <3>1. [capture EXCEPT !.opening = FALSE, !.switch = switch, !.fresh = fresh,
                            !.state = state] \in Captures
        BY <2>2, Zenon DEF TypeOK, Captures
      <3> QED
        BY <2>3, <3>1
    <2>5. CASE capture.stay
      BY <1>2, <1>4, <2>4, <2>5, TransitionType, ClearSourceType
      DEF SourceReady, TypeOK, Numbers, Reasons
    <2>6. CASE ~capture.stay
      BY <1>2, <1>4, <2>4, <2>6, TransitionType DEF SourceReady, TypeOK
    <2> QED
      BY <2>5, <2>6
  <1>5. CASE SourceFailed
    <2> DEFINE lost == Lost(capture)
               switch == IF capture.operation THEN "failed" ELSE "none"
    <2>1. lost \in Captures /\ switch \in SwitchResults
      BY CaptureTypes DEF SwitchResults
    <2>2. [lost EXCEPT !.opening = FALSE, !.switch = switch] \in Captures
      <3> HIDE DEF lost, switch
      <3> QED
        BY <2>1, Zenon DEF Captures
    <2>3. capture' \in Captures /\ worker' \in Workers
      BY <1>5, <2>2 DEF SourceFailed, TypeOK
    <2> QED
      BY <1>1, <1>5, <2>3, SuspendType DEF SourceFailed, Reasons
  <1>6. /\ [capture EXCEPT !.fresh = FALSE, !.state = "listening"] \in Captures
        /\ [capture EXCEPT !.state = "listening"] \in Captures
    <2>1. "listening" \in CaptureStates
      BY DEF CaptureStates
    <2> QED
      BY <2>1, Zenon DEF TypeOK, Captures
  <1>7. CASE CaptureGap
    BY <1>2, <1>6, <1>7, TransitionType, EmptyValues DEF CaptureGap, TypeOK, Numbers
  <1>8. CASE ExpireEvidence
    BY <1>2, <1>6, <1>8, TransitionType, EmptyValues DEF ExpireEvidence, TypeOK, Numbers
  <1>9. CASE NotePcm
    BY <1>2, <1>6, <1>9, TransitionType DEF NotePcm, TypeOK
  <1>10. CASE AnalysisGap
    BY <1>2, <1>10 DEF AnalysisGap, TypeOK
  <1> QED
    BY <1>3, <1>4, <1>5, <1>7, <1>8, <1>9, <1>10 DEF Source

LEMMA TypeInit ==
  ASSUME Init
  PROVE  TypeOK
  <1>1. capture \in Captures
    BY SessionAssumption DEF Init, Captures, CaptureStates, SwitchResults
  <1>2. frame \in [end : Nat, clock : Nat]
    BY EmptyValues DEF Init, Numbers
  <1> QED
    BY <1>1, <1>2, EmptyValues, SessionAssumption
    DEF Init, TypeOK, Workflows, Reasons, Phases, Idle, Workers

LEMMA TypeStep ==
  ASSUME TypeOK, [Next]_vars
  PROVE  TypeOK'
  <1>1. CASE Tick
    BY <1>1 DEF Tick, TypeOK, human
  <1>2. CASE UNCHANGED vars
    BY <1>2 DEF vars, TypeOK
  <1> QED
    BY <1>1, <1>2, ObserveTypeStep, CommandTypeStep, InterruptionTypeStep, SourceTypeStep
    DEF Next

\* Every variable keeps its type for every configuration of the session: no
\* sequence of windows, commands and source failures leaves the vocabulary of
\* the contracts.
THEOREM TypeCorrect == Spec => []TypeOK
  <1>1. Init => TypeOK
    BY TypeInit
  <1>2. TypeOK /\ [Next]_vars => TypeOK'
    BY TypeStep
  <1> QED
    BY <1>1, <1>2, PTL DEF Spec

-----------------------------------------------------------------------------
\* A window either leaves incident and adjustment alone or is one of the four
\* that decide something.
LEMMA WindowCases ==
  ASSUME ObserveWindow
  PROVE  \E f \in Windows :
           \/ /\ \/ ObserveBeforeProbe(f) \/ ObserveSuspended(f) \/ ObserveProbeDropout(f)
                 \/ ObserveAfterResume(f) \/ ObserveWaiting(f) \/ ObserveRefused(f)
                 \/ ObserveQuiet(f)
              /\ UNCHANGED <<workflow, incident, phase, adjustment, verification, armed, advice>>
           \/ ObserveProactive(f) \/ ObserveVerification(f)
           \/ ObserveRetiring(f) \/ ObserveOpening(f)
  <1>1. PICK f \in Windows :
          \/ ObserveBeforeProbe(f) \/ ObserveSuspended(f) \/ ObserveProbeDropout(f)
          \/ ObserveAfterResume(f) \/ ObserveWaiting(f) \/ ObserveProactive(f)
          \/ ObserveRefused(f) \/ ObserveVerification(f) \/ ObserveQuiet(f)
          \/ ObserveRetiring(f) \/ ObserveOpening(f)
    BY DEF ObserveWindow
  <1>2. ASSUME \/ ObserveBeforeProbe(f) \/ ObserveSuspended(f) \/ ObserveProbeDropout(f)
               \/ ObserveAfterResume(f) \/ ObserveWaiting(f) \/ ObserveRefused(f)
               \/ ObserveQuiet(f)
        PROVE  UNCHANGED <<workflow, incident, phase, adjustment, verification, armed, advice>>
    BY <1>2 DEF ObserveBeforeProbe, ObserveSuspended, ObserveProbeDropout, ObserveAfterResume,
                ObserveWaiting, ObserveRefused, ObserveQuiet, NoWorkflowChange, KeepHuman, human
  <1> QED
    BY <1>1, <1>2

\* Interruptions clear the source of a live session or silence a legacy one.
LEMMA InterruptionEffect ==
  ASSUME Interruption \/ SourceFailed
  PROVE  /\ \E reason \in Reasons : Suspend(reason)
         /\ workflow' = "SUSPENDED"
         /\ LiveReference => ClearSource
         /\ ~LiveReference => SuspendLegacy
  BY DEF Interruption, SourceEnds, DeleteFails, Restart, SourceFailed, Suspend, Reasons, RestartReason

-----------------------------------------------------------------------------
(***************************************************************************)
(* incident_state.                                                         *)
(***************************************************************************)
LEMMA PhaseInit == ASSUME Init PROVE PhaseAgrees
  BY DEF Init, PhaseAgrees, HasIncident, HasAdjustment, NoIncident, NoAdjustment

LEMMA PhaseStep ==
  ASSUME TypeOK, PhaseAgrees, [Next]_vars
  PROVE  PhaseAgrees'
  <1> USE DEF PhaseAgrees, HasIncident, HasAdjustment
  <1>1. CASE UNCHANGED <<incident, phase, adjustment>>
    BY <1>1
  <1>2. CASE ClearSource
    BY <1>2 DEF ClearSource, NoIncident, NoAdjustment
  <1>3. CASE ObserveWindow
    <2>1. PICK f \in Windows :
            \/ UNCHANGED <<incident, phase, adjustment>>
            \/ ObserveProactive(f) \/ ObserveVerification(f)
            \/ ObserveRetiring(f) \/ ObserveOpening(f)
      BY <1>3, WindowCases
    <2>2. CASE ObserveProactive(f)
      BY <2>2 DEF ObserveProactive, NoAdjustment
    <2>3. CASE ObserveVerification(f)
      <3> DEFINE outcome == Judge(Published(f), incident.instrument, incident.before)
                 verdict == CASE outcome = "recovered"    -> "resolved"
                              [] outcome = "inconclusive" -> "inconclusive"
                              [] OTHER                    -> "active"
      <3>1. verdict \in EventStates /\ verdict \in {"active", "resolved", "inconclusive"}
        BY DEF EventStates
      <3>2. /\ incident' = Revised(verdict)
            /\ phase' = verdict
            /\ incident.id > 0
        BY <2>3 DEF ObserveVerification
      <3> HIDE DEF verdict
      <3>3. incident'.state = verdict /\ incident'.id = incident.id
        BY <3>1, <3>2, RevisedType
      <3> QED
        BY <3>1, <3>2, <3>3
    <2>4. CASE ObserveRetiring(f)
      BY <2>4 DEF ObserveRetiring, NoIncident, NoAdjustment
    <2>5. CASE ObserveOpening(f)
      BY <2>5 DEF ObserveOpening, TypeOK
    <2> QED
      BY <1>1, <2>1, <2>2, <2>3, <2>4, <2>5
  <1>4. CASE StartAdjustment
    BY <1>4 DEF StartAdjustment, TypeOK
  <1>5. CASE CompleteAdjustment
    BY <1>5 DEF CompleteAdjustment, TypeOK, Adjustments, Unset
  <1>6. CASE Recheck
    BY <1>6 DEF Recheck, Completed
  <1>7. CASE AcceptBaseline \/ StartLive
    BY <1>7 DEF AcceptBaseline, StartLive, FreshStart, NoIncident, NoAdjustment
  <1>8. CASE Dismiss
    BY <1>8, RevisedType DEF Dismiss, EventStates
  <1>9. CASE FreeRecheck \/ ApplyProbe
    BY <1>1, <1>9 DEF FreeRecheck, ApplyProbe, KeepHuman, human
  <1>10. CASE Pause \/ Resume \/ Stop \/ SwitchMicrophone
    BY <1>1, <1>2, <1>10 DEF Pause, Resume, Stop, SwitchMicrophone, SuspendLegacy, human
  <1>11. CASE Interruption \/ SourceFailed
    BY <1>1, <1>2, <1>11, InterruptionEffect DEF SuspendLegacy
  <1>12. CASE OpenSource \/ SourceReady
    BY <1>1, <1>2, <1>12 DEF OpenSource, SourceReady, human
  <1>13. CASE CaptureGap \/ ExpireEvidence \/ NotePcm \/ AnalysisGap \/ Tick \/ UNCHANGED vars
    BY <1>1, <1>13 DEF CaptureGap, ExpireEvidence, NotePcm, AnalysisGap, Tick, vars,
                       NoDecision, KeepHuman, human
  <1> QED
    BY <1>3, <1>4, <1>5, <1>6, <1>7, <1>8, <1>9, <1>10, <1>11, <1>12, <1>13
    DEF Next, Command, Source

-----------------------------------------------------------------------------
(***************************************************************************)
(* The armed recheck.                                                      *)
(***************************************************************************)
LEMMA ArmedInit == ASSUME Init PROVE ArmedRecheck
  BY DEF Init, ArmedRecheck

\* Windows change the workflow only by answering the recheck or when none is
\* armed; no command replaces the adjustment of an armed one.
LEMMA ArmedStep ==
  ASSUME TypeOK, ArmedRecheck, [Next]_vars
  PROVE  ArmedRecheck'
  <1> USE DEF ArmedRecheck, HasAdjustment
  <1>1. CASE UNCHANGED <<armed, adjustment, workflow>>
    BY <1>1
  <1>2. CASE ~armed'
    BY <1>2
  <1>3. CASE ObserveWindow
    <2>1. PICK f \in Windows :
            \/ UNCHANGED <<armed, adjustment, workflow>>
            \/ ObserveProactive(f) \/ ObserveVerification(f)
            \/ ObserveRetiring(f) \/ ObserveOpening(f)
      BY <1>3, WindowCases
    <2>2. CASE ObserveProactive(f) \/ ObserveVerification(f)
      BY <1>2, <2>2 DEF ObserveProactive, ObserveVerification
    <2>3. CASE ObserveRetiring(f) \/ ObserveOpening(f)
      BY <2>3 DEF ObserveRetiring, ObserveOpening, Monitored, Rechecking
    <2> QED
      BY <1>1, <2>1, <2>2, <2>3
  <1>4. CASE StartAdjustment
    BY <1>4 DEF StartAdjustment
  <1>5. CASE CompleteAdjustment
    BY <1>5 DEF CompleteAdjustment, Completed
  <1>6. CASE Recheck
    BY <1>6 DEF Recheck, Completed, Verifying
  <1>7. CASE AcceptBaseline \/ StartLive
    BY <1>7 DEF AcceptBaseline, StartLive, FreshStart, NothingPending
  <1>8. CASE Dismiss \/ FreeRecheck \/ ApplyProbe
    BY <1>1, <1>8 DEF Dismiss, FreeRecheck, ApplyProbe, KeepHuman, human
  <1>9. CASE Pause \/ SwitchMicrophone
    BY <1>2, <1>9 DEF Pause, SwitchMicrophone, SuspendLegacy, ClearSource
  <1>10. CASE Resume
    BY <1>2, <1>10 DEF Resume, ClearSource, human, TypeOK
  <1>11. CASE Stop
    BY <1>2, <1>11 DEF Stop, ClearSource, human
  <1>12. CASE Interruption \/ SourceFailed
    BY <1>2, <1>12, InterruptionEffect DEF SuspendLegacy, ClearSource
  <1>13. CASE OpenSource \/ SourceReady
    BY <1>1, <1>2, <1>13 DEF OpenSource, SourceReady, ClearSource, human
  <1>14. CASE CaptureGap \/ ExpireEvidence \/ NotePcm \/ AnalysisGap \/ Tick \/ UNCHANGED vars
    BY <1>1, <1>2, <1>14 DEF CaptureGap, ExpireEvidence, NotePcm, AnalysisGap, Tick, vars,
                             NoDecision, KeepHuman, human
  <1> QED
    BY <1>3, <1>4, <1>5, <1>6, <1>7, <1>8, <1>9, <1>10, <1>11, <1>12, <1>13, <1>14
    DEF Next, Command, Source

-----------------------------------------------------------------------------
(***************************************************************************)
(* Advice.                                                                 *)
(***************************************************************************)
LEMMA AdviceInit == ASSUME Init PROVE AdviceBound
  BY DEF Init, AdviceBound

LEMMA AdviceStep ==
  ASSUME TypeOK, AdviceBound, [Next]_vars
  PROVE  AdviceBound'
  <1> USE DEF AdviceBound, TypeOK
  <1>1. CASE UNCHANGED <<advice, incident, workflow>>
    BY <1>1
  <1>2. CASE advice' = 0
    BY <1>2
  <1>3. CASE UNCHANGED <<advice, incident>> /\ workflow' \notin {"SUSPENDED", "STOPPED"}
    BY <1>3
  <1>4. CASE ObserveWindow
    <2>1. PICK f \in Windows :
            \/ UNCHANGED <<advice, incident, workflow>>
            \/ ObserveProactive(f) \/ ObserveVerification(f)
            \/ ObserveRetiring(f) \/ ObserveOpening(f)
      BY <1>4, WindowCases
    <2>2. CASE ObserveProactive(f)
      BY <1>3, <2>2 DEF ObserveProactive
    <2>3. CASE ObserveVerification(f)
      <3> DEFINE outcome == Judge(Published(f), incident.instrument, incident.before)
                 verdict == CASE outcome = "recovered"    -> "resolved"
                              [] outcome = "inconclusive" -> "inconclusive"
                              [] OTHER                    -> "active"
      <3>1. verdict \in EventStates /\ verdict \in {"active", "resolved", "inconclusive"}
        BY DEF EventStates
      <3>2. /\ incident' = Revised(verdict)
            /\ advice' = IF verdict = "resolved" THEN 0 ELSE advice
            /\ workflow' = CASE verdict = "resolved" -> Monitoring
                             [] verdict = "active"   -> Anomalous
                             [] OTHER                -> workflow
        BY <2>3 DEF ObserveVerification
      <3>3. workflow \notin {"SUSPENDED", "STOPPED"}
        BY <2>3 DEF ObserveVerification, Answers, Ordinary, Publish, Listening
      <3> HIDE DEF verdict
      <3>4. incident'.state = verdict /\ incident'.id = incident.id
        BY <3>1, <3>2, RevisedType
      <3> QED
        BY <3>1, <3>2, <3>3, <3>4 DEF Monitoring, Anomalous
    <2>4. CASE ObserveRetiring(f)
      BY <1>2, <2>4 DEF ObserveRetiring
    <2>5. CASE ObserveOpening(f)
      BY <2>5 DEF ObserveOpening, Anomalous
    <2> QED
      BY <1>1, <2>1, <2>2, <2>3, <2>4, <2>5
  <1>5. CASE StartAdjustment
    BY <1>5, RevisedType DEF StartAdjustment, EventStates
  <1>6. CASE CompleteAdjustment \/ Recheck \/ FreeRecheck
    BY <1>3, <1>6 DEF CompleteAdjustment, Recheck, FreeRecheck, Verifying
  <1>7. CASE AcceptBaseline \/ StartLive \/ Dismiss
    BY <1>2, <1>7 DEF AcceptBaseline, StartLive, FreshStart, Dismiss, Silence
  <1>8. CASE ApplyProbe
    BY <1>1, <1>8 DEF ApplyProbe, KeepHuman, human
  <1>9. CASE Pause \/ Stop \/ SwitchMicrophone
    BY <1>2, <1>9 DEF Pause, Stop, SwitchMicrophone, SuspendLegacy, ClearSource, Silence
  <1>10. CASE Resume
    BY <1>2, <1>10 DEF Resume, ClearSource, human
  <1>11. CASE Interruption \/ SourceFailed
    BY <1>2, <1>11, InterruptionEffect DEF SuspendLegacy, ClearSource, Silence
  <1>12. CASE OpenSource \/ SourceReady
    BY <1>1, <1>2, <1>12 DEF OpenSource, SourceReady, ClearSource, human
  <1>13. CASE CaptureGap \/ ExpireEvidence
    BY <1>2, <1>13 DEF CaptureGap, ExpireEvidence
  <1>14. CASE NotePcm \/ AnalysisGap \/ Tick \/ UNCHANGED vars
    BY <1>1, <1>14 DEF NotePcm, AnalysisGap, Tick, vars, NoDecision, KeepHuman, human
  <1> QED
    BY <1>4, <1>5, <1>6, <1>7, <1>8, <1>9, <1>10, <1>11, <1>12, <1>13, <1>14
    DEF Next, Command, Source

-----------------------------------------------------------------------------
(***************************************************************************)
(* The guided probe.  _transition itself enforces the invariant, whatever  *)
(* the step wrote; the other steps end the probe or leave its rehearsal.   *)
(***************************************************************************)
LEMMA ProbeInit == ASSUME Init PROVE ProbeInIdleRehearsal
  BY DEF Init, ProbeInIdleRehearsal

LEMMA ProbeStep ==
  ASSUME TypeOK, ProbeInIdleRehearsal, [Next]_vars
  PROVE  ProbeInIdleRehearsal'
  <1>1. CASE UNCHANGED <<probe, mode, workflow, adjustment>>
    BY <1>1 DEF ProbeInIdleRehearsal, HasAdjustment
  <1>2. CASE probe' = Idle
    BY <1>2 DEF ProbeInIdleRehearsal
  <1>3. ASSUME NEW d, Transition(d)
        PROVE  ProbeInIdleRehearsal'
    BY <1>3 DEF Transition, ProbeInIdleRehearsal, HasAdjustment
  <1>4. CASE ObserveWindow
    <2>1. PICK f \in Windows :
            \/ ObserveBeforeProbe(f) \/ ObserveSuspended(f) \/ ObserveProbeDropout(f)
            \/ ObserveAfterResume(f) \/ ObserveWaiting(f) \/ ObserveProactive(f)
            \/ ObserveRefused(f) \/ ObserveVerification(f) \/ ObserveQuiet(f)
            \/ ObserveRetiring(f) \/ ObserveOpening(f)
      BY <1>4 DEF ObserveWindow
    <2>2. CASE ObserveProbeDropout(f)
      BY <1>2, <2>2 DEF ObserveProbeDropout
    <2>3. CASE \/ ObserveBeforeProbe(f) \/ ObserveSuspended(f) \/ ObserveAfterResume(f)
               \/ ObserveWaiting(f) \/ ObserveRefused(f) \/ ObserveQuiet(f)
      BY <1>1, <2>3 DEF ObserveBeforeProbe, ObserveSuspended, ObserveAfterResume, ObserveWaiting,
                        ObserveRefused, ObserveQuiet, Monitored, Publish, NoWorkflowChange,
                        KeepHuman, human
    <2>4. CASE \/ ObserveProactive(f) \/ ObserveVerification(f) \/ ObserveRetiring(f)
               \/ ObserveOpening(f)
      BY <1>3, <2>4 DEF ObserveProactive, ObserveVerification, ObserveRetiring, ObserveOpening
    <2> QED
      BY <2>1, <2>2, <2>3, <2>4
  <1>5. CASE Command
    <2>1. CASE ApplyProbe
      BY <2>1 DEF ApplyProbe, KeepHuman, human, ProbeInIdleRehearsal, HasAdjustment
    <2>2. CASE ~ApplyProbe
      BY <1>3, <1>5, <2>2
      DEF Command, StartAdjustment, CompleteAdjustment, Recheck, FreeRecheck, AcceptBaseline,
          StartLive, FreshStart, Dismiss, Pause, Resume, Stop, SwitchMicrophone
    <2> QED
      BY <2>1, <2>2
  <1>6. CASE Interruption \/ SourceFailed
    BY <1>2, <1>6, InterruptionEffect DEF Suspend
  <1>7. CASE OpenSource \/ SourceReady \/ CaptureGap \/ ExpireEvidence \/ NotePcm
    BY <1>3, <1>7 DEF OpenSource, SourceReady, CaptureGap, ExpireEvidence, NotePcm
  <1>8. CASE AnalysisGap \/ Tick \/ UNCHANGED vars
    BY <1>1, <1>8 DEF AnalysisGap, Tick, vars, KeepHuman, human
  <1> QED
    BY <1>4, <1>5, <1>6, <1>7, <1>8 DEF Next, Source

-----------------------------------------------------------------------------
(***************************************************************************)
(* Bookkeeping and the evidence being collected.                           *)
(***************************************************************************)
LEMMA BookkeepingInit == ASSUME Init PROVE Bookkeeping
  BY DEF Init, Bookkeeping, NoEvidence

\* The last break is never later than the newest window.
LEMMA BrokenInThePast ==
  ASSUME TypeOK, brokenAt <= delivered, [Next]_vars
  PROVE  (brokenAt <= delivered)'
  <1> USE DEF TypeOK
  <1>1. CASE UNCHANGED <<brokenAt, delivered>>
    BY <1>1
  <1>2. CASE EvidenceBreaks /\ delivered' = delivered
    BY <1>2 DEF EvidenceBreaks
  <1>3. CASE ObserveWindow
    <2>1. PICK f \in Windows :
            \/ ObserveBeforeProbe(f) \/ ObserveSuspended(f) \/ ObserveProbeDropout(f)
            \/ ObserveAfterResume(f) \/ ObserveWaiting(f) \/ ObserveProactive(f)
            \/ ObserveRefused(f) \/ ObserveVerification(f) \/ ObserveQuiet(f)
            \/ ObserveRetiring(f) \/ ObserveOpening(f)
      BY <1>3 DEF ObserveWindow
    <2>2. delivered' = f.end /\ (brokenAt' = brokenAt \/ brokenAt' = f.end)
      BY <2>1 DEF ObserveBeforeProbe, ObserveSuspended, ObserveProbeDropout, ObserveAfterResume,
                  ObserveWaiting, ObserveProactive, ObserveRefused, ObserveVerification,
                  ObserveQuiet, ObserveRetiring, ObserveOpening, Monitored, Publish
    <2>3. f.end \in Nat /\ f.end > delivered
      BY WindowFacts
    <2> QED
      BY <2>2, <2>3
  <1>4. CASE Command
    BY <1>1, <1>2, <1>4
    DEF Command, StartAdjustment, CompleteAdjustment, Recheck, FreeRecheck, AcceptBaseline,
        StartLive, FreshStart, Dismiss, Pause, Resume, Stop, SwitchMicrophone, ApplyProbe, KeepTime
  <1>5. CASE Interruption \/ SourceFailed
    BY <1>2, <1>5, InterruptionEffect DEF Suspend, KeepTime
  <1>6. CASE OpenSource \/ SourceReady \/ CaptureGap \/ ExpireEvidence \/ NotePcm \/ AnalysisGap
    BY <1>1, <1>2, <1>6 DEF OpenSource, SourceReady, CaptureGap, ExpireEvidence, NotePcm,
                            AnalysisGap, NoDecision, KeepTime
  <1>7. CASE Tick \/ UNCHANGED vars
    BY <1>1, <1>7 DEF Tick, vars
  <1> QED
    BY <1>3, <1>4, <1>5, <1>6, <1>7 DEF Next, Source

\* Only start_live changes the mode, and only of a legacy session.
LEMMA ModeKept ==
  ASSUME [Next]_vars, LiveReference
  PROVE  mode' = mode /\ baseline' = baseline
  <1>1. CASE ObserveWindow
    BY <1>1 DEF ObserveWindow, ObserveBeforeProbe, ObserveSuspended, ObserveProbeDropout,
                ObserveAfterResume, ObserveWaiting, ObserveProactive, ObserveRefused,
                ObserveVerification, ObserveQuiet, ObserveRetiring, ObserveOpening, Monitored,
                Publish
  <1>2. CASE Command
    BY <1>2 DEF Command, StartAdjustment, CompleteAdjustment, Recheck, FreeRecheck,
                AcceptBaseline, StartLive, Dismiss, Pause, Resume, Stop, SwitchMicrophone,
                ApplyProbe
  <1>3. CASE Interruption \/ SourceFailed
    BY <1>3, InterruptionEffect DEF Suspend
  <1>4. CASE OpenSource \/ SourceReady \/ CaptureGap \/ ExpireEvidence \/ NotePcm \/ AnalysisGap
    BY <1>4 DEF OpenSource, SourceReady, CaptureGap, ExpireEvidence, NotePcm, AnalysisGap,
                NoDecision
  <1>5. CASE Tick \/ UNCHANGED vars
    BY <1>5 DEF Tick, vars
  <1> QED
    BY <1>1, <1>2, <1>3, <1>4, <1>5 DEF Next, Source

\* A step that writes the incident revises an existing one, opens a new one or
\* blanks it.
LEMMA IncidentSteps ==
  ASSUME TypeOK, [Next]_vars
  PROVE  \/ incident' = incident
         \/ HasIncident /\ \E s \in EventStates : incident' = Revised(s)
         \/ incident' = NoIncident
         \/ \E f \in Windows : ObserveOpening(f)
  <1>1. CASE ObserveWindow
    <2>1. PICK f \in Windows :
            \/ UNCHANGED incident
            \/ ObserveProactive(f) \/ ObserveVerification(f)
            \/ ObserveRetiring(f) \/ ObserveOpening(f)
      BY <1>1, WindowCases
    <2>2. CASE ObserveVerification(f)
      <3> DEFINE outcome == Judge(Published(f), incident.instrument, incident.before)
                 verdict == CASE outcome = "recovered"    -> "resolved"
                              [] outcome = "inconclusive" -> "inconclusive"
                              [] OTHER                    -> "active"
      <3>1. verdict \in EventStates
        BY DEF EventStates
      <3>2. incident' = Revised(verdict) /\ HasIncident
        BY <2>2 DEF ObserveVerification
      <3> HIDE DEF verdict
      <3> QED
        BY <3>1, <3>2
    <2>3. CASE ~ObserveVerification(f)
      BY <2>1, <2>3 DEF ObserveProactive, ObserveRetiring
    <2> QED
      BY <2>2, <2>3
  <1>2. CASE Command
    <2>1. CASE StartAdjustment
      BY <2>1 DEF StartAdjustment, EventStates
    <2>2. CASE Dismiss
      BY <2>2 DEF Dismiss, EventStates
    <2>3. CASE ~StartAdjustment /\ ~Dismiss
      BY <1>2, <2>3 DEF Command, CompleteAdjustment, Recheck, FreeRecheck, AcceptBaseline,
                        StartLive, FreshStart, Pause, Resume, Stop, SwitchMicrophone, ApplyProbe,
                        KeepHuman, human, ClearSource, SuspendLegacy
    <2> QED
      BY <2>1, <2>2, <2>3
  <1>3. CASE Interruption \/ SourceFailed
    BY <1>3, InterruptionEffect DEF ClearSource, SuspendLegacy
  <1>4. CASE OpenSource \/ SourceReady \/ CaptureGap \/ ExpireEvidence \/ NotePcm \/ AnalysisGap
    BY <1>4 DEF OpenSource, SourceReady, CaptureGap, ExpireEvidence, NotePcm, AnalysisGap,
                NoDecision, ClearSource, KeepHuman, human
  <1>5. CASE Tick \/ UNCHANGED vars
    BY <1>5 DEF Tick, vars, human
  <1> QED
    BY <1>1, <1>2, <1>3, <1>4, <1>5 DEF Next, Source

\* No window or command gives a suspended live session an incident, and every
\* step into SUSPENDED clears the source.
LEMMA SuspendedLiveIsClear ==
  ASSUME TypeOK, Bookkeeping, [Next]_vars, LiveReference, workflow' = "SUSPENDED"
  PROVE  ~HasIncident'
  <1> USE DEF Bookkeeping, HasIncident
  <1>1. CASE UNCHANGED <<incident, workflow>>
    BY <1>1
  <1>2. CASE ClearSource
    BY <1>2 DEF ClearSource, NoIncident
  <1>3. CASE ObserveWindow
    <2>1. PICK f \in Windows :
            \/ UNCHANGED <<incident, workflow>>
            \/ ObserveProactive(f) \/ ObserveVerification(f)
            \/ ObserveRetiring(f) \/ ObserveOpening(f)
      BY <1>3, WindowCases
    <2>2. CASE \/ ObserveProactive(f) \/ ObserveVerification(f)
               \/ ObserveRetiring(f) \/ ObserveOpening(f)
      BY <2>2 DEF ObserveProactive, ObserveVerification, ObserveRetiring, ObserveOpening,
                  Monitored, Answers, Ordinary, Monitoring, Anomalous
    <2> QED
      BY <1>1, <2>1, <2>2
  <1>4. CASE Command
    <2>1. CASE Pause \/ Resume \/ Stop \/ SwitchMicrophone
      BY <1>2, <2>1 DEF Pause, Resume, Stop, SwitchMicrophone
    <2>2. CASE ~(Pause \/ Resume \/ Stop \/ SwitchMicrophone)
      BY <1>4, <2>2 DEF Command, StartAdjustment, CompleteAdjustment, Recheck, FreeRecheck,
                        AcceptBaseline, StartLive, Dismiss, ApplyProbe, Authorized, Verifying
    <2> QED
      BY <2>1, <2>2
  <1>5. CASE Interruption \/ SourceFailed
    BY <1>2, <1>5, InterruptionEffect
  <1>6. CASE OpenSource \/ SourceReady
    BY <1>1, <1>2, <1>6 DEF OpenSource, SourceReady, human
  <1>7. CASE CaptureGap \/ ExpireEvidence \/ NotePcm \/ AnalysisGap \/ Tick \/ UNCHANGED vars
    BY <1>1, <1>7 DEF CaptureGap, ExpireEvidence, NotePcm, AnalysisGap, Tick, vars, NoDecision,
                      KeepHuman, human
  <1> QED
    BY <1>3, <1>4, <1>5, <1>6, <1>7 DEF Next, Source

\* An open or closed incident keeps the detector idle until it is retired.
LEMMA IncidentIdlesDetector ==
  ASSUME TypeOK, Bookkeeping, [Next]_vars, HasIncident'
  PROVE  (detector.count = 0)'
  <1> USE DEF Bookkeeping
  <1>1. CASE detector' = NoEvidence
    BY <1>1 DEF NoEvidence
  <1>2. CASE detector' = detector /\ HasIncident
    BY <1>2
  <1>3. ASSUME Transition(detector), HasIncident
        PROVE  (detector.count = 0)'
    BY <1>1, <1>2, <1>3 DEF Transition
  <1>4. ASSUME Transition(NoEvidence)
        PROVE  (detector.count = 0)'
    BY <1>1, <1>4 DEF Transition
  <1>5. CASE ObserveWindow
    <2>1. PICK f \in Windows :
            \/ ObserveBeforeProbe(f) \/ ObserveSuspended(f) \/ ObserveProbeDropout(f)
            \/ ObserveAfterResume(f) \/ ObserveWaiting(f) \/ ObserveProactive(f)
            \/ ObserveRefused(f) \/ ObserveVerification(f) \/ ObserveQuiet(f)
            \/ ObserveRetiring(f) \/ ObserveOpening(f)
      BY <1>5 DEF ObserveWindow
    <2>2. CASE \/ ObserveBeforeProbe(f) \/ ObserveSuspended(f) \/ ObserveAfterResume(f)
               \/ ObserveWaiting(f) \/ ObserveRefused(f) \/ ObserveQuiet(f)
      BY <1>2, <2>2 DEF ObserveBeforeProbe, ObserveSuspended, ObserveAfterResume, HasIncident,
                        ObserveWaiting, ObserveRefused, ObserveQuiet, NoWorkflowChange,
                        KeepHuman, human
    <2>3. CASE ObserveProbeDropout(f)
      BY <1>1, <2>3 DEF ObserveProbeDropout
    <2>4. CASE ObserveProactive(f)
      BY <2>4 DEF ObserveProactive, HasIncident
    <2>5. CASE ObserveVerification(f)
      BY <1>3, <2>5 DEF ObserveVerification
    <2>6. CASE ObserveRetiring(f)
      BY <2>6 DEF ObserveRetiring, HasIncident, NoIncident
    <2>7. CASE ObserveOpening(f)
      BY <1>3, <1>4, <2>7 DEF ObserveOpening
    <2> QED
      BY <2>1, <2>2, <2>3, <2>4, <2>5, <2>6, <2>7
  <1>6. CASE Command
    <2>1. CASE StartAdjustment \/ Dismiss
      <3>1. HasIncident
        BY <2>1, RevisedType DEF StartAdjustment, Dismiss, HasIncident, EventStates
      <3> QED
        BY <1>3, <2>1, <3>1 DEF StartAdjustment, Dismiss
    <2>2. CASE CompleteAdjustment \/ Recheck
      BY <1>3, <2>2 DEF CompleteAdjustment, Recheck, HasIncident
    <2>3. CASE Resume
      BY <1>3, <1>4, <2>3 DEF Resume, human, HasIncident
    <2>4. CASE ApplyProbe
      BY <1>1, <2>4 DEF ApplyProbe
    <2>5. CASE \/ FreeRecheck \/ AcceptBaseline \/ StartLive \/ Pause \/ Stop
               \/ SwitchMicrophone
      BY <1>3, <1>4, <2>5 DEF FreeRecheck, AcceptBaseline, StartLive, FreshStart, Pause, Stop,
                        SwitchMicrophone
    <2> QED
      BY <1>6, <2>1, <2>2, <2>3, <2>4, <2>5 DEF Command
  <1>7. CASE Interruption \/ SourceFailed
    BY <1>1, <1>7, InterruptionEffect DEF Suspend
  <1>8. CASE OpenSource \/ CaptureGap \/ ExpireEvidence
    BY <1>3, <1>4, <1>8 DEF OpenSource, CaptureGap, ExpireEvidence
  <1>9. CASE SourceReady \/ NotePcm
    BY <1>3, <1>4, <1>9 DEF SourceReady, NotePcm, NoDecision, human, HasIncident
  <1>10. CASE AnalysisGap \/ Tick \/ UNCHANGED vars
    BY <1>1, <1>2, <1>10 DEF AnalysisGap, Tick, vars, human, HasIncident
  <1> QED
    BY <1>5, <1>6, <1>7, <1>8, <1>9, <1>10 DEF Next, Source

LEMMA BookkeepingStep ==
  ASSUME TypeOK, Bookkeeping, [Next]_vars
  PROVE  Bookkeeping'
  <1>1. (LiveReference => mode = "live")'
    BY ModeKept DEF Bookkeeping
  <1>2. (~HasIncident => incident = NoIncident)'
    <2>1. CASE incident' = incident \/ incident' = NoIncident
      BY <2>1 DEF Bookkeeping, HasIncident
    <2>2. ASSUME NEW s \in EventStates, HasIncident, incident' = Revised(s)
          PROVE  HasIncident'
      BY <2>2, RevisedType DEF HasIncident
    <2>3. ASSUME NEW f \in Windows, ObserveOpening(f)
          PROVE  HasIncident'
      BY <2>3 DEF ObserveOpening, HasIncident, TypeOK
    <2> QED
      BY <2>1, <2>2, <2>3, IncidentSteps
  <1>3. (LiveReference /\ workflow = "SUSPENDED" => ~HasIncident)'
    BY SuspendedLiveIsClear
  <1>4. (HasIncident => detector.count = 0)'
    BY IncidentIdlesDetector
  <1>5. (brokenAt <= delivered)'
    BY BrokenInThePast DEF Bookkeeping
  <1> QED
    BY <1>1, <1>2, <1>3, <1>4, <1>5 DEF Bookkeeping

LEMMA EvidenceInit == ASSUME Init PROVE EvidenceUnbroken
  BY DEF Init, EvidenceUnbroken, NoEvidence

LEMMA EvidenceStep ==
  ASSUME TypeOK, Bookkeeping, EvidenceUnbroken, [Next]_vars
  PROVE  EvidenceUnbroken'
  <1> USE DEF EvidenceUnbroken
  <1>1. CASE detector' = NoEvidence
    BY <1>1 DEF NoEvidence
  <1>2. CASE UNCHANGED <<detector, brokenAt>>
    BY <1>2
  <1>3. ASSUME Transition(detector), UNCHANGED brokenAt
        PROVE  EvidenceUnbroken'
    BY <1>1, <1>2, <1>3 DEF Transition
  <1>4. ASSUME Transition(NoEvidence)
        PROVE  EvidenceUnbroken'
    BY <1>1, <1>4 DEF Transition
  <1>5. CASE ObserveWindow
    <2>1. PICK f \in Windows :
            \/ ObserveBeforeProbe(f) \/ ObserveSuspended(f) \/ ObserveProbeDropout(f)
            \/ ObserveAfterResume(f) \/ ObserveWaiting(f) \/ ObserveProactive(f)
            \/ ObserveRefused(f) \/ ObserveVerification(f) \/ ObserveQuiet(f)
            \/ ObserveRetiring(f) \/ ObserveOpening(f)
      BY <1>5 DEF ObserveWindow
    <2>2. CASE \/ ObserveBeforeProbe(f) \/ ObserveSuspended(f) \/ ObserveAfterResume(f)
               \/ ObserveWaiting(f) \/ ObserveRefused(f)
      BY <1>2, <2>2 DEF ObserveBeforeProbe, ObserveSuspended, ObserveAfterResume,
                        ObserveWaiting, ObserveRefused
    <2>3. CASE ObserveProbeDropout(f)
      BY <1>1, <2>3 DEF ObserveProbeDropout
    <2>4. CASE ObserveProactive(f) \/ ObserveVerification(f)
      BY <1>3, <2>4 DEF ObserveProactive, ObserveVerification
    <2>5. CASE ObserveOpening(f)
      BY <1>4, <2>5 DEF ObserveOpening
    <2>6. /\ f.end \in Nat /\ f.end > delivered /\ brokenAt <= delivered
          /\ brokenAt \in Nat /\ delivered \in Nat
      BY WindowFacts DEF Bookkeeping, TypeOK
    <2>7. ASSUME NEW d \in Detectors, d.count > 0 => d.first > brokenAt,
                 brokenAt' = IF f.quality = "dropout" THEN f.end ELSE brokenAt,
                 detector' = Observe(d, Published(f))
          PROVE  EvidenceUnbroken'
      <3>1. /\ Observe(d, Published(f)).count > 0 =>
                 \/ Observe(d, Published(f)).first = f.end
                 \/ d.count > 0 /\ Observe(d, Published(f)).first = d.first
            /\ f.quality = "dropout" => Observe(d, Published(f)).count = 0
        BY ObserveFacts, PublishedFacts, WindowFacts
      <3> QED
        BY <2>6, <2>7, <3>1
    <2>8. CASE ObserveQuiet(f)
      <3>1. CASE HasIncident
        <4>1. detector' = detector /\ detector.count = 0
          BY <2>8, <3>1 DEF ObserveQuiet, Bookkeeping
        <4> QED
          BY <4>1
      <3>2. CASE ~HasIncident
        BY <2>7, <2>8, <3>2 DEF ObserveQuiet, Monitored, TypeOK
      <3> QED
        BY <3>1, <3>2
    <2>9. CASE ObserveRetiring(f)
      <3>1. brokenAt' = IF f.quality = "dropout" THEN f.end ELSE brokenAt
        BY <2>9 DEF ObserveRetiring, Monitored
      <3>2. detector' = NoEvidence \/ detector' = Observe(NoEvidence, Published(f))
        BY <2>9 DEF ObserveRetiring, Transition
      <3> QED
        BY <1>1, <2>7, <3>1, <3>2, EmptyValues DEF NoEvidence
    <2> QED
      BY <2>1, <2>2, <2>3, <2>4, <2>5, <2>8, <2>9
  <1>6. CASE Command
    <2>1. CASE ApplyProbe
      BY <1>1, <2>1 DEF ApplyProbe
    <2>2. CASE Resume
      BY <1>3, <1>4, <2>2 DEF Resume
    <2>3. CASE ~ApplyProbe /\ ~Resume
      BY <1>3, <1>4, <1>6, <2>3
      DEF Command, StartAdjustment, CompleteAdjustment, Recheck, FreeRecheck, AcceptBaseline,
          StartLive, FreshStart, Dismiss, Pause, Stop, SwitchMicrophone
    <2> QED
      BY <2>1, <2>2, <2>3
  <1>7. CASE Interruption \/ SourceFailed
    BY <1>1, <1>7, InterruptionEffect DEF Suspend
  <1>8. CASE OpenSource \/ SourceReady \/ CaptureGap \/ ExpireEvidence \/ NotePcm
    BY <1>3, <1>4, <1>8 DEF OpenSource, SourceReady, CaptureGap, ExpireEvidence, NotePcm
  <1>9. CASE AnalysisGap \/ Tick \/ UNCHANGED vars
    BY <1>1, <1>2, <1>9 DEF AnalysisGap, Tick, vars
  <1> QED
    BY <1>5, <1>6, <1>7, <1>8, <1>9 DEF Next, Source

-----------------------------------------------------------------------------
(***************************************************************************)
(* The snapshots the session's validator accepts.                          *)
(***************************************************************************)
LEMMA WorkflowStep ==
  ASSUME TypeOK, Bookkeeping, ValidWorkflow, [Next]_vars
  PROVE  ValidWorkflow'
  <1> USE DEF ValidWorkflow, Bookkeeping, TypeOK, Monitoring, Anomalous, Verifying
  <1>1. CASE UNCHANGED <<workflow, mode, baseline>>
    BY <1>1
  <1>2. CASE UNCHANGED <<mode, baseline>> /\ workflow' \in {"SUSPENDED", "STOPPED", "PA_ADJUSTING"}
    BY <1>2
  <1>3. CASE UNCHANGED <<mode, baseline>> /\ workflow' \in {Monitoring, Anomalous, Verifying}
    BY <1>3
  <1>4. CASE ObserveWindow
    <2>1. PICK f \in Windows :
            \/ ObserveBeforeProbe(f) \/ ObserveSuspended(f) \/ ObserveProbeDropout(f)
            \/ ObserveAfterResume(f) \/ ObserveWaiting(f) \/ ObserveProactive(f)
            \/ ObserveRefused(f) \/ ObserveVerification(f) \/ ObserveQuiet(f)
            \/ ObserveRetiring(f) \/ ObserveOpening(f)
      BY <1>4 DEF ObserveWindow
    <2>2. UNCHANGED <<mode, baseline>>
      BY <2>1 DEF ObserveBeforeProbe, ObserveSuspended, ObserveProbeDropout, ObserveAfterResume,
                  ObserveWaiting, ObserveProactive, ObserveRefused, ObserveVerification,
                  ObserveQuiet, ObserveRetiring, ObserveOpening, Monitored, Publish
    <2>3. \/ workflow' = workflow
          \/ workflow' \in {Monitoring, Anomalous}
      BY <2>1 DEF ObserveBeforeProbe, ObserveSuspended, ObserveProbeDropout, ObserveAfterResume,
                  ObserveWaiting, ObserveProactive, ObserveRefused, ObserveVerification,
                  ObserveQuiet, ObserveRetiring, ObserveOpening, NoWorkflowChange
    <2> QED
      BY <1>1, <1>3, <2>2, <2>3
  <1>5. CASE Command
    <2>1. CASE StartAdjustment \/ Pause \/ Stop
      BY <1>2, <2>1 DEF StartAdjustment, Pause, Stop
    <2>2. CASE CompleteAdjustment \/ Recheck \/ FreeRecheck
      BY <1>3, <2>2 DEF CompleteAdjustment, Recheck, FreeRecheck
    <2>3. CASE AcceptBaseline
      BY <2>3 DEF AcceptBaseline
    <2>4. CASE StartLive
      BY <2>4 DEF StartLive
    <2>5. CASE Resume
      <3>1. UNCHANGED <<mode, baseline>>
        BY <2>5 DEF Resume
      <3>2. workflow' \in {Monitoring, Anomalous, Verifying, "PA_ADJUSTING"}
        BY <2>5, <3>1 DEF Resume
      <3> QED
        BY <1>2, <1>3, <3>1, <3>2
    <2>6. CASE Dismiss \/ SwitchMicrophone \/ ApplyProbe
      BY <1>1, <2>6 DEF Dismiss, SwitchMicrophone, ApplyProbe
    <2> QED
      BY <1>5, <2>1, <2>2, <2>3, <2>4, <2>5, <2>6 DEF Command
  <1>6. CASE Interruption \/ SourceFailed
    BY <1>2, <1>6, InterruptionEffect DEF Suspend
  <1>7. CASE OpenSource
    BY <1>3, <1>7 DEF OpenSource, Opening
  <1>8. CASE SourceReady
    BY <1>1, <1>2, <1>8 DEF SourceReady
  <1>9. CASE CaptureGap \/ ExpireEvidence \/ NotePcm \/ AnalysisGap \/ Tick \/ UNCHANGED vars
    BY <1>1, <1>9 DEF CaptureGap, ExpireEvidence, NotePcm, AnalysisGap, Tick, vars, NoDecision
  <1> QED
    BY <1>4, <1>5, <1>6, <1>7, <1>8, <1>9 DEF Next, Source

LEMMA AdjustmentStep ==
  ASSUME TypeOK, ValidAdjustment, [Next]_vars
  PROVE  ValidAdjustment'
  <1> USE DEF ValidAdjustment
  <1>1. CASE UNCHANGED <<adjustment, incident>>
    BY <1>1
  <1>2. CASE adjustment' = NoAdjustment
    BY <1>2 DEF NoAdjustment
  <1>3. CASE ObserveWindow
    <2>1. PICK f \in Windows :
            \/ UNCHANGED <<adjustment, incident>>
            \/ ObserveProactive(f) \/ ObserveVerification(f)
            \/ ObserveRetiring(f) \/ ObserveOpening(f)
      BY <1>3, WindowCases
    <2>2. CASE ObserveProactive(f) \/ ObserveRetiring(f)
      BY <1>2, <2>2 DEF ObserveProactive, ObserveRetiring
    <2>3. CASE ObserveVerification(f)
      <3> DEFINE outcome == Judge(Published(f), incident.instrument, incident.before)
                 verdict == CASE outcome = "recovered"    -> "resolved"
                              [] outcome = "inconclusive" -> "inconclusive"
                              [] OTHER                    -> "active"
      <3>1. verdict \in EventStates
        BY DEF EventStates
      <3>2. /\ incident' = Revised(verdict)
            /\ adjustment' \in {adjustment, NoAdjustment}
        BY <2>3 DEF ObserveVerification
      <3> HIDE DEF verdict
      <3>3. incident'.id = incident.id /\ incident'.version = incident.version + 1
        BY <3>1, <3>2, RevisedType
      <3> QED
        BY <1>2, <3>2, <3>3 DEF TypeOK, Incidents, Adjustments
    <2>4. CASE ObserveOpening(f)
      BY <2>4 DEF ObserveOpening, Opens, HasIncident, TypeOK, Incidents, Adjustments
    <2> QED
      BY <1>1, <2>1, <2>2, <2>3, <2>4
  <1>4. CASE StartAdjustment
    <2>1. /\ adjustment'.event = incident.id
          /\ adjustment'.eventVersion = incident.version
      BY <1>4 DEF StartAdjustment
    <2>2. incident' = incident \/ incident' = Revised("acknowledged")
      BY <1>4 DEF StartAdjustment
    <2>3. incident'.id = incident.id /\ incident'.version \in {incident.version, incident.version + 1}
      BY <2>2, RevisedType DEF EventStates
    <2> QED
      BY <2>1, <2>3 DEF TypeOK, Incidents
  <1>5. CASE CompleteAdjustment
    <2>1. /\ incident' = incident
          /\ adjustment' = [adjustment EXCEPT !.completed = now]
      BY <1>5 DEF CompleteAdjustment
    <2> QED
      BY <2>1 DEF TypeOK, Adjustments
  <1>6. CASE Dismiss
    <2>1. /\ adjustment' = adjustment
          /\ incident' = Revised("dismissed")
      BY <1>6 DEF Dismiss
    <2>2. incident'.id = incident.id /\ incident'.version = incident.version + 1
      BY <2>1, RevisedType DEF EventStates
    <2> QED
      BY <2>1, <2>2 DEF TypeOK, Incidents, Adjustments
  <1>7. CASE AcceptBaseline \/ StartLive
    BY <1>2, <1>7 DEF AcceptBaseline, StartLive, FreshStart
  <1>8. CASE Recheck \/ FreeRecheck \/ ApplyProbe
    BY <1>1, <1>8 DEF Recheck, FreeRecheck, ApplyProbe, KeepHuman, human
  <1>9. CASE Pause \/ Resume \/ Stop \/ SwitchMicrophone
    BY <1>1, <1>2, <1>9 DEF Pause, Resume, Stop, SwitchMicrophone, ClearSource, SuspendLegacy,
                            human
  <1>10. CASE Interruption \/ SourceFailed
    BY <1>1, <1>2, <1>10, InterruptionEffect DEF ClearSource, SuspendLegacy
  <1>11. CASE OpenSource \/ SourceReady
    BY <1>1, <1>2, <1>11 DEF OpenSource, SourceReady, ClearSource, human
  <1>12. CASE CaptureGap \/ ExpireEvidence \/ NotePcm \/ AnalysisGap \/ Tick \/ UNCHANGED vars
    BY <1>1, <1>12 DEF CaptureGap, ExpireEvidence, NotePcm, AnalysisGap, Tick, vars, NoDecision,
                       KeepHuman, human
  <1> QED
    BY <1>3, <1>4, <1>5, <1>6, <1>7, <1>8, <1>9, <1>10, <1>11, <1>12 DEF Next, Command, Source

\* What each way of losing or halting a source does to the projected freshness.
LEMMA CaptureEffects ==
  ASSUME TypeOK, LiveReference
  PROVE  /\ \A state \in CaptureStates : ~Halted(state).fresh
         /\ ~Lost(capture).fresh
         /\ \A c \in Captures : FailPending(c).fresh = c.fresh
  <1>1. \A c \in Captures : FailPending(c).fresh = c.fresh
    BY DEF FailPending, Captures
  <1>2. ~Lost(capture).fresh
    BY DEF Lost, TypeOK, Captures
  <1>3. ASSUME NEW state \in CaptureStates
        PROVE  ~Halted(state).fresh
    <2> DEFINE halted == [capture EXCEPT !.generation = @ + 1, !.state = state,
                                         !.fresh = FALSE, !.opening = FALSE]
    <2>1. halted \in Captures
      <3>1. capture.generation + 1 \in Nat
        BY DEF TypeOK, Captures
      <3> QED
        BY <3>1, Zenon DEF TypeOK, Captures
    <2>2. ~halted.fresh
      BY DEF TypeOK, Captures
    <2>3. Halted(state) = FailPending(halted)
      BY DEF Halted
    <2> QED
      BY <1>1, <2>1, <2>2, <2>3
  <1> QED
    BY <1>1, <1>2, <1>3

LEMMA CaptureStep ==
  ASSUME TypeOK, ValidCapture, [Next]_vars
  PROVE  ValidCapture'
  <1> SUFFICES ASSUME LiveReference
               PROVE  ValidCapture'
    BY DEF ValidCapture
  <1> USE DEF ValidCapture
  <1>1. CASE UNCHANGED <<capture, frame, clock>>
    BY <1>1
  <1>2. CASE ~capture'.fresh /\ (frame' = NoFrame \/ UNCHANGED <<frame, clock>>)
    BY <1>2
  <1>3. CASE ObserveWindow
    <2>1. PICK f \in Windows :
            \/ ObserveBeforeProbe(f) \/ ObserveSuspended(f) \/ ObserveProbeDropout(f)
            \/ ObserveAfterResume(f) \/ ObserveWaiting(f) \/ ObserveProactive(f)
            \/ ObserveRefused(f) \/ ObserveVerification(f) \/ ObserveQuiet(f)
            \/ ObserveRetiring(f) \/ ObserveOpening(f)
      BY <1>3 DEF ObserveWindow
    <2>2. Publish(f) \/ UNCHANGED <<capture, frame, clock>>
      BY <2>1 DEF ObserveBeforeProbe, ObserveSuspended, ObserveProbeDropout, ObserveAfterResume,
                  ObserveWaiting, ObserveProactive, ObserveRefused, ObserveVerification,
                  ObserveQuiet, ObserveRetiring, ObserveOpening, Monitored
    <2>3. CASE Publish(f)
      <3>1. frame' = [end |-> f.end, clock |-> clock.id] /\ clock' = clock
        BY <2>3 DEF Publish
      <3>2. f.end > 0
        BY WindowFacts DEF TypeOK
      <3>3. capture'.state \in {"active", "listening"}
        BY <2>3 DEF Publish, TypeOK, Captures
      <3>4. frame' # NoFrame /\ frame'.clock = clock'.id
        BY <3>1, <3>2 DEF NoFrame
      <3> QED
        BY <3>3, <3>4
    <2> QED
      BY <1>1, <2>2, <2>3
  <1>4. CASE Command
    <2>1. CASE Pause
      BY <1>2, <2>1, CaptureEffects DEF Pause, ClearSource, CaptureStates
    <2>2. CASE Stop
      BY <1>2, <2>2, CaptureEffects DEF Stop, ClearSource, CaptureStates
    <2>3. CASE Resume
      BY <1>2, <2>3 DEF Resume, ClearSource, TypeOK, Captures
    <2>4. CASE SwitchMicrophone
      BY <1>2, <2>4 DEF SwitchMicrophone, ClearSource, TypeOK, Captures
    <2>5. CASE \/ StartAdjustment \/ CompleteAdjustment \/ Recheck \/ FreeRecheck
               \/ Dismiss \/ ApplyProbe
      BY <1>1, <2>5 DEF StartAdjustment, CompleteAdjustment, Recheck, FreeRecheck, Dismiss,
                        ApplyProbe
    <2>6. CASE AcceptBaseline \/ StartLive
      BY <2>6 DEF AcceptBaseline, StartLive
    <2> QED
      BY <1>4, <2>1, <2>2, <2>3, <2>4, <2>5, <2>6 DEF Command
  <1>5. CASE Interruption \/ SourceFailed
    <2>1. frame' = NoFrame
      BY <1>5, InterruptionEffect DEF ClearSource
    <2>2. ~capture'.fresh
      <3> DEFINE lost == Lost(capture)
      <3>1. lost \in Captures /\ ~lost.fresh
        BY CaptureTypes, CaptureEffects
      <3>2. CASE SourceEnds
        BY <3>1, <3>2 DEF SourceEnds
      <3>3. CASE DeleteFails
        <4>1. capture' = [lost EXCEPT !.opened = 0, !.opening = FALSE]
          BY <3>3 DEF DeleteFails
        <4> HIDE DEF lost
        <4> QED
          BY <3>1, <4>1 DEF Captures
      <3>4. CASE Restart
        <4> DEFINE fenced == [lost EXCEPT !.generation = @ + 1, !.opening = FALSE]
        <4>1. capture' = FailPending(fenced)
          BY <3>4 DEF Restart
        <4> HIDE DEF lost
        <4>2. lost.generation + 1 \in Nat
          BY <3>1 DEF Captures
        <4>3. fenced \in Captures
          BY <3>1, <4>2, Zenon DEF Captures
        <4>4. ~fenced.fresh
          BY <3>1 DEF Captures
        <4> HIDE DEF fenced
        <4> QED
          BY <4>1, <4>3, <4>4, CaptureEffects
      <3>5. CASE SourceFailed
        <4> DEFINE switch == IF capture.operation THEN "failed" ELSE "none"
        <4>1. capture' = [lost EXCEPT !.opening = FALSE, !.switch = switch]
          BY <3>5 DEF SourceFailed
        <4> HIDE DEF lost, switch
        <4> QED
          BY <3>1, <4>1 DEF Captures
      <3> QED
        BY <1>5, <3>2, <3>3, <3>4, <3>5 DEF Interruption
    <2> QED
      BY <1>2, <2>1, <2>2
  <1>6. CASE OpenSource
    BY <1>2, <1>6 DEF OpenSource, ClearSource, TypeOK, Captures
  <1>7. CASE SourceReady
    <2>1. PICK result \in {"applied", "rolled_back"} :
            capture' = [capture EXCEPT
              !.opening = FALSE,
              !.switch = IF capture.operation THEN result ELSE "none",
              !.fresh = @ /\ ~capture.stay,
              !.state = IF capture.stay THEN "paused"
                        ELSE IF capture.fresh THEN @ ELSE "listening"]
      BY <1>7 DEF SourceReady
    <2>2. /\ capture'.fresh = (capture.fresh /\ ~capture.stay)
          /\ capture'.state = IF capture.stay THEN "paused"
                              ELSE IF capture.fresh THEN capture.state ELSE "listening"
      BY <2>1 DEF TypeOK, Captures
    <2>3. CASE capture.stay
      BY <1>2, <1>7, <2>2, <2>3 DEF SourceReady, ClearSource
    <2>4. CASE ~capture.stay
      BY <1>7, <2>2, <2>4 DEF SourceReady
    <2> QED
      BY <2>3, <2>4
  <1>8. CASE CaptureGap \/ ExpireEvidence
    BY <1>2, <1>8 DEF CaptureGap, ExpireEvidence, TypeOK, Captures
  <1>9. CASE NotePcm
    <2>1. capture'.fresh = capture.fresh /\ capture'.state = "listening"
      BY <1>9 DEF NotePcm, TypeOK, Captures
    <2>2. UNCHANGED <<frame, clock>>
      BY <1>9 DEF NotePcm, NoDecision
    <2> QED
      BY <2>1, <2>2
  <1>10. CASE AnalysisGap \/ Tick \/ UNCHANGED vars
    BY <1>1, <1>10 DEF AnalysisGap, Tick, vars
  <1> QED
    BY <1>3, <1>4, <1>5, <1>6, <1>7, <1>8, <1>9, <1>10 DEF Next, Source

-----------------------------------------------------------------------------
(***************************************************************************)
(* The inductive invariant and the invariants it contains.                 *)
(***************************************************************************)
SafetyInv ==
  /\ TypeOK
  /\ Bookkeeping
  /\ PhaseAgrees
  /\ ArmedRecheck
  /\ AdviceBound
  /\ ValidWorkflow
  /\ ValidAdjustment
  /\ ValidCapture
  /\ ProbeInIdleRehearsal
  /\ EvidenceUnbroken

LEMMA SafetyInit == ASSUME Init PROVE SafetyInv
  <1>1. ValidWorkflow
    BY DEF Init, ValidWorkflow
  <1>2. ValidAdjustment
    BY DEF Init, ValidAdjustment, NoAdjustment
  <1>3. ValidCapture
    BY DEF Init, ValidCapture
  <1> QED
    BY <1>1, <1>2, <1>3, TypeInit, BookkeepingInit, PhaseInit, ArmedInit, AdviceInit, ProbeInit,
       EvidenceInit
    DEF SafetyInv

LEMMA SafetyStep == ASSUME SafetyInv, [Next]_vars PROVE SafetyInv'
  <1>1. TypeOK' /\ Bookkeeping' /\ PhaseAgrees' /\ ArmedRecheck'
    BY TypeStep, BookkeepingStep, PhaseStep, ArmedStep DEF SafetyInv
  <1>2. AdviceBound' /\ ValidWorkflow' /\ ValidAdjustment' /\ ValidCapture'
    BY AdviceStep, WorkflowStep, AdjustmentStep, CaptureStep DEF SafetyInv
  <1>3. ProbeInIdleRehearsal' /\ EvidenceUnbroken'
    BY ProbeStep, EvidenceStep DEF SafetyInv
  <1> QED
    BY <1>1, <1>2, <1>3 DEF SafetyInv

LEMMA SafetyAlways == Spec => []SafetyInv
  <1>1. Init => SafetyInv
    BY SafetyInit
  <1>2. SafetyInv /\ [Next]_vars => SafetyInv'
    BY SafetyStep
  <1> QED
    BY <1>1, <1>2, PTL DEF Spec

\* The session's own validator accepts every snapshot a step publishes, so no
\* observation and no command is rolled back for contradicting itself (the one
\* refused transition is the proactive recheck of a live session).
THEOREM SnapshotsAccepted == Spec => []SnapshotAccepted
  <1>1. SafetyInv => SnapshotAccepted
    BY DEF SafetyInv, SnapshotAccepted, ValidAdvice, AdviceBound
  <1> QED
    BY <1>1, SafetyAlways, PTL

\* incident_state, advice, recheck and probe agree with the incident, the
\* adjustment and the workflow held, whatever was done in whatever order.
THEOREM PartsStayAgreed == Spec => []PartsAgree
  <1>1. SafetyInv => PartsAgree
    BY DEF SafetyInv, PartsAgree
  <1> QED
    BY <1>1, SafetyAlways, PTL

\* Collected evidence never spans a pause, a suspension, a gap or a new source.
THEOREM EvidenceStaysUnbroken == Spec => []EvidenceUnbroken
  <1>1. SafetyInv => EvidenceUnbroken
    BY DEF SafetyInv
  <1> QED
    BY <1>1, SafetyAlways, PTL

-----------------------------------------------------------------------------
(***************************************************************************)
(* What a step may never do.                                               *)
(***************************************************************************)

\* Only the verification of an armed, completed adjustment resolves an incident,
\* on a fresh window begun after the settling cutoff.
LEMMA ResolvedStep ==
  ASSUME SafetyInv, [Next]_vars,
         incident'.id = incident.id, incident'.state = "resolved", incident.state # "resolved"
  PROVE  \E f \in Windows : ObserveVerification(f) /\ incident' = Revised("resolved")
  <1> USE DEF SafetyInv
  <1>1. HasIncident \/ incident' = incident
    BY IncidentSteps DEF HasIncident, Bookkeeping, ObserveOpening, TypeOK
  <1>2. HasIncident /\ incident' # incident /\ incident' # NoIncident
    BY <1>1 DEF HasIncident, Bookkeeping, NoIncident
  <1>3. CASE ObserveWindow
    <2>1. PICK f \in Windows :
            \/ UNCHANGED incident
            \/ ObserveProactive(f) \/ ObserveVerification(f)
            \/ ObserveRetiring(f) \/ ObserveOpening(f)
      BY <1>3, WindowCases
    <2>2. ObserveVerification(f)
      BY <1>2, <2>1 DEF ObserveProactive, ObserveRetiring, ObserveOpening, Opens
    <2> DEFINE outcome == Judge(Published(f), incident.instrument, incident.before)
               verdict == CASE outcome = "recovered"    -> "resolved"
                            [] outcome = "inconclusive" -> "inconclusive"
                            [] OTHER                    -> "active"
    <2>3. verdict \in EventStates
      BY DEF EventStates
    <2>4. incident' = Revised(verdict)
      BY <2>2 DEF ObserveVerification
    <2> HIDE DEF verdict
    <2>5. verdict = "resolved"
      BY <2>3, <2>4, RevisedType
    <2> QED
      BY <2>2, <2>4, <2>5
  <1>4. CASE Command
    <2>1. CASE StartAdjustment
      BY <1>2, <2>1, RevisedType DEF StartAdjustment, EventStates
    <2>2. CASE Dismiss
      BY <2>2, RevisedType DEF Dismiss, EventStates
    <2> QED
      BY <1>2, <1>4, <2>1, <2>2
      DEF Command, CompleteAdjustment, Recheck, FreeRecheck, AcceptBaseline, StartLive,
          FreshStart, Pause, Resume, Stop, SwitchMicrophone, ApplyProbe, KeepHuman, human,
          ClearSource, SuspendLegacy
  <1>5. CASE Interruption \/ SourceFailed
    BY <1>2, <1>5, InterruptionEffect DEF ClearSource, SuspendLegacy
  <1>6. CASE OpenSource \/ SourceReady \/ CaptureGap \/ ExpireEvidence \/ NotePcm \/ AnalysisGap
    BY <1>2, <1>6 DEF OpenSource, SourceReady, CaptureGap, ExpireEvidence, NotePcm, AnalysisGap,
                      NoDecision, ClearSource, KeepHuman, human
  <1>7. CASE Tick \/ UNCHANGED vars
    BY <1>2, <1>7 DEF Tick, vars, human
  <1> QED
    BY <1>3, <1>4, <1>5, <1>6, <1>7 DEF Next, Source

\* An incident becomes resolved only through a fresh verification after the
\* cutoff that names it and its adjustment, whatever else interleaves.
THEOREM OnlyVerificationResolves == Spec => ResolvedByVerification
  <1> DEFINE A == incident'.id = incident.id /\ incident'.state = "resolved"
                  /\ incident.state # "resolved" =>
                    /\ armed
                    /\ adjustment.completed # Unset
                    /\ verification'.event = incident.id
                    /\ verification'.adjustment = adjustment.id
                    /\ verification'.outcome = "recovered"
                    /\ verification'.start - Uncertainty >= adjustment.completed + Settling
                    /\ now - delivered' <= ResultMaxAge
  <1>1. SafetyInv /\ [Next]_vars => A
    <2> SUFFICES ASSUME SafetyInv, [Next]_vars, incident'.id = incident.id,
                        incident'.state = "resolved", incident.state # "resolved"
                 PROVE  /\ armed
                        /\ adjustment.completed # Unset
                        /\ verification'.event = incident.id
                        /\ verification'.adjustment = adjustment.id
                        /\ verification'.outcome = "recovered"
                        /\ verification'.start - Uncertainty >= adjustment.completed + Settling
                        /\ now - delivered' <= ResultMaxAge
      OBVIOUS
    <2>1. PICK f \in Windows : ObserveVerification(f) /\ incident' = Revised("resolved")
      BY ResolvedStep
    <2> DEFINE outcome == Judge(Published(f), incident.instrument, incident.before)
               verdict == CASE outcome = "recovered"    -> "resolved"
                            [] outcome = "inconclusive" -> "inconclusive"
                            [] OTHER                    -> "active"
    <2>2. /\ Answers(f)
          /\ Publish(f)
          /\ verification' = [event |-> incident.id, adjustment |-> adjustment.id,
                              outcome |-> outcome, start |-> f.start]
          /\ incident' = Revised(verdict)
      BY <2>1 DEF ObserveVerification
    <2>3. verdict \in EventStates
      BY DEF EventStates
    <2>4. verdict = "resolved"
      <3> HIDE DEF verdict
      <3> QED
        BY <2>2, <2>3, RevisedType DEF SafetyInv
    <2>5. outcome = "recovered"
      BY <2>4
    <2>6. Usable(Published(f))
      BY <2>5 DEF Judge
    <2>7. Fresh(f)
      BY <2>6, PublishedFacts
    <2>8. delivered' = f.end
      BY <2>2 DEF Publish
    <2>9. armed /\ adjustment.completed # Unset
          /\ ~(f.start - Uncertainty < adjustment.completed + Settling)
      BY <2>2 DEF Answers, Rechecking, BeforeCutoff
    <2>10. /\ f.start \in Nat /\ Uncertainty \in Nat /\ Settling \in Nat
           /\ adjustment.completed \in Nat
      BY <2>9, WindowFacts, SessionAssumption DEF SafetyInv, TypeOK, Adjustments
    <2> HIDE DEF outcome, verdict
    <2> QED
      BY <2>2, <2>5, <2>7, <2>8, <2>9, <2>10 DEF Fresh
  <1> QED
    BY <1>1, SafetyAlways, PTL DEF Spec, ResolvedByVerification

\* An open incident is given up only with the source it was heard on.
LEMMA KeptStep ==
  ASSUME SafetyInv, [Next]_vars, HasIncident, incident.state \notin {"resolved", "dismissed"},
         incident'.id # incident.id
  PROVE  /\ LiveReference
         /\ \/ workflow' \in {"SUSPENDED", "STOPPED"}
            \/ capture'.generation > capture.generation
  <1> USE DEF SafetyInv
  <1>1. incident' # incident
    OBVIOUS
  <1>2. CASE ObserveWindow
    <2>1. PICK f \in Windows :
            \/ UNCHANGED incident
            \/ ObserveProactive(f) \/ ObserveVerification(f)
            \/ ObserveRetiring(f) \/ ObserveOpening(f)
      BY <1>2, WindowCases
    <2>2. CASE ObserveVerification(f)
      <3> DEFINE outcome == Judge(Published(f), incident.instrument, incident.before)
                 verdict == CASE outcome = "recovered"    -> "resolved"
                              [] outcome = "inconclusive" -> "inconclusive"
                              [] OTHER                    -> "active"
      <3>1. verdict \in EventStates
        BY DEF EventStates
      <3>2. incident' = Revised(verdict)
        BY <2>2 DEF ObserveVerification
      <3> HIDE DEF verdict
      <3> QED
        BY <3>1, <3>2, RevisedType
    <2> QED
      BY <1>1, <2>1, <2>2
      DEF ObserveProactive, ObserveRetiring, Retires, Closed, ObserveOpening, Opens
  <1>3. CASE Command
    <2>1. CASE StartAdjustment \/ Dismiss
      BY <2>1, RevisedType DEF StartAdjustment, Dismiss, EventStates
    <2>2. CASE AcceptBaseline \/ StartLive
      BY <2>2 DEF AcceptBaseline, StartLive, NothingPending, Closed
    <2>3. CASE CompleteAdjustment \/ Recheck \/ FreeRecheck \/ ApplyProbe
      BY <1>1, <2>3 DEF CompleteAdjustment, Recheck, FreeRecheck, ApplyProbe, KeepHuman, human
    <2>4. CASE Pause \/ Stop
      BY <1>1, <2>4 DEF Pause, Stop, SuspendLegacy, human
    <2>5. CASE Resume
      BY <1>1, <2>5 DEF Resume, human, Bookkeeping
    <2>6. CASE SwitchMicrophone
      BY <2>6 DEF SwitchMicrophone, TypeOK, Captures
    <2> QED
      BY <1>3, <2>1, <2>2, <2>3, <2>4, <2>5, <2>6 DEF Command
  <1>4. CASE Interruption \/ SourceFailed
    BY <1>1, <1>4, InterruptionEffect DEF SuspendLegacy
  <1>5. CASE OpenSource
    <2>1. capture'.generation = capture.generation + 1
      BY <1>5 DEF OpenSource, TypeOK, Captures
    <2>2. capture.generation \in Nat
      BY DEF TypeOK, Captures
    <2> QED
      BY <1>5, <2>1, <2>2 DEF OpenSource, Opening
  <1>6. CASE SourceReady
    BY <1>1, <1>6 DEF SourceReady, Opening, human
  <1>7. CASE CaptureGap \/ ExpireEvidence \/ NotePcm \/ AnalysisGap \/ Tick \/ UNCHANGED vars
    BY <1>1, <1>7 DEF CaptureGap, ExpireEvidence, NotePcm, AnalysisGap, NoDecision, KeepHuman,
                      human, Tick, vars
  <1> QED
    BY <1>2, <1>3, <1>4, <1>5, <1>6, <1>7 DEF Next, Source

\* No command, window, failure or restart silently drops an unresolved incident.
THEOREM UnresolvedIncidentsKept == Spec => UnresolvedIncidentKept
  <1>1. SafetyInv /\ [Next]_vars =>
          (HasIncident /\ incident.state \notin {"resolved", "dismissed"}
             /\ incident'.id # incident.id =>
             /\ LiveReference
             /\ \/ workflow' \in {"SUSPENDED", "STOPPED"}
                \/ capture'.generation > capture.generation)
    BY KeptStep
  <1> QED
    BY <1>1, SafetyAlways, PTL DEF Spec, UnresolvedIncidentKept

\* Everything a command may be bound to changes together with state_version.
LEMMA VersionStep ==
  ASSUME SafetyInv, [Next]_vars
  PROVE  \/ UNCHANGED <<workflow, mode, suspension, incident, phase, adjustment, advice,
                        baseline, probe>>
         \/ version' > version
  <1> DEFINE bound == <<workflow, mode, suspension, incident, phase, adjustment, advice,
                        baseline, probe>>
  <1> USE DEF SafetyInv
  <1>1. version \in Nat
    BY DEF TypeOK
  <1>2. ASSUME NEW d, Transition(d)
        PROVE  version' > version
    BY <1>1, <1>2 DEF Transition
  <1>3. CASE ObserveWindow
    <2>1. PICK f \in Windows :
            \/ ObserveBeforeProbe(f) \/ ObserveSuspended(f) \/ ObserveProbeDropout(f)
            \/ ObserveAfterResume(f) \/ ObserveWaiting(f) \/ ObserveProactive(f)
            \/ ObserveRefused(f) \/ ObserveVerification(f) \/ ObserveQuiet(f)
            \/ ObserveRetiring(f) \/ ObserveOpening(f)
      BY <1>3 DEF ObserveWindow
    <2>2. CASE \/ ObserveBeforeProbe(f) \/ ObserveSuspended(f) \/ ObserveAfterResume(f)
               \/ ObserveWaiting(f) \/ ObserveRefused(f) \/ ObserveQuiet(f)
      BY <2>2 DEF ObserveBeforeProbe, ObserveSuspended, ObserveAfterResume, ObserveWaiting,
                  ObserveRefused, ObserveQuiet, Monitored, Publish, NoWorkflowChange, KeepHuman,
                  human
    <2>3. CASE ObserveProbeDropout(f)
      BY <1>1, <2>3 DEF ObserveProbeDropout
    <2>4. CASE \/ ObserveProactive(f) \/ ObserveVerification(f) \/ ObserveRetiring(f)
               \/ ObserveOpening(f)
      BY <1>2, <2>4 DEF ObserveProactive, ObserveVerification, ObserveRetiring, ObserveOpening
    <2> QED
      BY <2>1, <2>2, <2>3, <2>4
  <1>4. CASE Command
    BY <1>1, <1>2, <1>4
    DEF Command, StartAdjustment, CompleteAdjustment, Recheck, FreeRecheck, AcceptBaseline,
        StartLive, FreshStart, Dismiss, Pause, Resume, Stop, SwitchMicrophone, ApplyProbe
  <1>5. CASE Interruption \/ SourceFailed
    BY <1>1, <1>5 DEF Interruption, SourceEnds, DeleteFails, Restart, SourceFailed
  <1>6. CASE OpenSource \/ SourceReady \/ CaptureGap \/ ExpireEvidence \/ NotePcm
    BY <1>2, <1>6 DEF OpenSource, SourceReady, CaptureGap, ExpireEvidence, NotePcm
  <1>7. CASE AnalysisGap \/ Tick \/ UNCHANGED vars
    BY <1>7 DEF AnalysisGap, Tick, vars, KeepHuman, human
  <1> QED
    BY <1>3, <1>4, <1>5, <1>6, <1>7 DEF Next, Source

\* A command bound to the state it was issued for is recognised as stale as soon
\* as anything it relied on has changed.
LEMMA VersionsCoverState == Spec => VersionCoversState
  <1>1. SafetyInv /\ [Next]_vars =>
          (<<workflow, mode, suspension, incident, phase, adjustment, advice, baseline, probe>>' #
             <<workflow, mode, suspension, incident, phase, adjustment, advice, baseline, probe>>
           => version' > version)
    BY VersionStep
  <1> QED
    BY <1>1, SafetyAlways, PTL DEF Spec, VersionCoversState

\* event_version grows with every revision and no event identity is used twice.
LEMMA EventsAreVersioned == Spec => EventVersioned
  <1>1. SafetyInv /\ [Next]_vars =>
          /\ incident'.id = incident.id /\ incident' # incident =>
               incident'.version > incident.version
          /\ incident'.id > 0 /\ incident'.id # incident.id => incident'.id > counters.incident
    <2> SUFFICES ASSUME SafetyInv, [Next]_vars
                 PROVE  /\ incident'.id = incident.id /\ incident' # incident =>
                             incident'.version > incident.version
                        /\ incident'.id > 0 /\ incident'.id # incident.id =>
                             incident'.id > counters.incident
      OBVIOUS
    <2> USE DEF SafetyInv
    <2>1. CASE incident' = incident
      BY <2>1
    <2>2. ASSUME NEW s \in EventStates, incident' = Revised(s)
          PROVE  incident'.id = incident.id /\ incident'.version > incident.version
      BY <2>2, RevisedType DEF TypeOK, Incidents
    <2>3. CASE incident' = NoIncident
      BY <2>3 DEF NoIncident, Bookkeeping, HasIncident, TypeOK, Incidents
    <2>4. ASSUME NEW f \in Windows, ObserveOpening(f)
          PROVE  incident'.id > counters.incident /\ incident'.id # incident.id
      BY <2>4 DEF ObserveOpening, Opens, HasIncident, TypeOK, Incidents
    <2> QED
      BY <2>1, <2>2, <2>3, <2>4, IncidentSteps
  <1> QED
    BY <1>1, SafetyAlways, PTL DEF Spec, EventVersioned

\* Neither decision state nor an event changes under an unchanged version.
THEOREM EveryChangeVersioned == Spec => ChangesAreVersioned
  <1> QED
    BY VersionsCoverState, EventsAreVersioned DEF ChangesAreVersioned

\* The comparison target moves only between unfinished business, and takes every
\* judgement made against the old target with it.
THEOREM TargetsChangeClean == Spec => TargetChangesClean
  <1>1. SafetyInv /\ [Next]_vars =>
          (<<baseline, mode>>' # <<baseline, mode>> =>
             /\ mode = "rehearsal"
             /\ adjustment.id = 0
             /\ incident.id > 0 => incident.state \in {"resolved", "dismissed"}
             /\ incident'.id = 0
             /\ verification' = NoVerification
             /\ frame' = NoFrame
             /\ detector'.count = 0)
    <2> SUFFICES ASSUME SafetyInv, [Next]_vars, <<baseline, mode>>' # <<baseline, mode>>
                 PROVE  /\ mode = "rehearsal"
                        /\ adjustment.id = 0
                        /\ incident.id > 0 => incident.state \in {"resolved", "dismissed"}
                        /\ incident'.id = 0
                        /\ verification' = NoVerification
                        /\ frame' = NoFrame
                        /\ detector'.count = 0
      OBVIOUS
    <2>1. AcceptBaseline \/ StartLive
      <3>1. ~ObserveWindow
        <4> SUFFICES ASSUME ObserveWindow
                     PROVE  UNCHANGED <<mode, baseline>>
          OBVIOUS
        <4> QED
          BY DEF ObserveWindow, ObserveBeforeProbe, ObserveSuspended, ObserveProbeDropout,
                 ObserveAfterResume, ObserveWaiting, ObserveProactive, ObserveRefused,
                 ObserveVerification, ObserveQuiet, ObserveRetiring, ObserveOpening, Monitored,
                 Publish
      <3>2. ~(Interruption \/ SourceFailed)
        BY InterruptionEffect DEF Suspend
      <3>3. ~(OpenSource \/ SourceReady \/ CaptureGap \/ ExpireEvidence \/ NotePcm \/ AnalysisGap)
        BY DEF OpenSource, SourceReady, CaptureGap, ExpireEvidence, NotePcm, AnalysisGap, NoDecision
      <3>4. ~(Tick \/ UNCHANGED vars)
        BY DEF Tick, vars
      <3>5. ~(\/ StartAdjustment \/ CompleteAdjustment \/ Recheck \/ FreeRecheck \/ Dismiss
              \/ Pause \/ Resume \/ Stop \/ SwitchMicrophone \/ ApplyProbe)
        BY DEF StartAdjustment, CompleteAdjustment, Recheck, FreeRecheck, Dismiss, Pause, Resume,
               Stop, SwitchMicrophone, ApplyProbe
      <3> QED
        BY <3>1, <3>2, <3>3, <3>4, <3>5 DEF Next, Source, Command
    <2>2. FreshStart /\ NothingPending /\ mode = "rehearsal"
      BY <2>1 DEF AcceptBaseline, StartLive
    <2>3. detector' = NoEvidence
      BY <2>2 DEF FreshStart, Transition
    <2> QED
      BY <2>2, <2>3
      DEF FreshStart, NothingPending, HasAdjustment, HasIncident, Closed, NoIncident, NoEvidence,
          SafetyInv, TypeOK, Adjustments
  <1> QED
    BY <1>1, SafetyAlways, PTL DEF Spec, TargetChangesClean

\* Both together: an incident ends by a verified recovery, a decision or with its source.
THEOREM IncidentsEndWell == Spec => IncidentsEndInOrder
  BY OnlyVerificationResolves, UnresolvedIncidentsKept, PTL DEF IncidentsEndInOrder


\* One more adjacent window is one more window length.
LEMMA OneMore ==
  ASSUME NEW c \in Nat, NEW w \in Nat, NEW x \in Nat
  PROVE  x + (c - 1) * w + w = x + ((c + 1) - 1) * w
  OBVIOUS

\* A run keeps its shape under one more window: it starts at that window, is
\* left alone, or grows by the window adjacent to its last one.
LEMMA ExtendShape ==
  ASSUME NEW d \in Detectors, NEW f, f.end \in Nat, f.start = f.end - WindowLength,
         f.reading \in [Instruments -> Readings], Supports(f),
         d.count > 0 => d.last = d.first + (d.count - 1) * WindowLength
  PROVE  LET e == Extend(d, f)
         IN  /\ e.last = e.first + (e.count - 1) * WindowLength
             /\ e.first = f.end \/ (d.count > 0 /\ e.first = d.first)
             /\ \/ e.count = 1 /\ e.last = f.end
                \/ e = d /\ d.count > 0
                \/ e.count = d.count + 1 /\ e.last = f.end
  <1>1. /\ d.key \in Keys /\ d.count \in Nat /\ d.first \in Nat /\ d.last \in Nat
        /\ WindowLength \in Nat
    BY SessionAssumption DEF Detectors
  <1>2. CASE d.count = 0 \/ d.key # KeyOf(f) \/ f.start > d.last
    <2>1. Extend(d, f) = [key |-> KeyOf(f), count |-> 1, first |-> f.end, last |-> f.end]
      BY <1>2 DEF Extend
    <2>2. (1 - 1) * WindowLength = 0
      BY <1>1
    <2> QED
      BY <2>1, <2>2
  <1>3. CASE ~(d.count = 0 \/ d.key # KeyOf(f) \/ f.start > d.last) /\ f.start < d.last
    BY <1>1, <1>3 DEF Extend
  <1>4. CASE ~(d.count = 0 \/ d.key # KeyOf(f) \/ f.start > d.last) /\ ~(f.start < d.last)
    <2>1. Extend(d, f) = [d EXCEPT !.count = @ + 1, !.last = f.end]
      BY <1>4 DEF Extend
    <2>2. /\ Extend(d, f).count = d.count + 1
          /\ Extend(d, f).first = d.first
          /\ Extend(d, f).last = f.end
      BY <2>1 DEF Detectors
    <2>3. f.start = d.last /\ d.count > 0
      <3>1. f.start \in Int
        BY <1>1
      <3>2. ~(d.count = 0) /\ ~(f.start > d.last) /\ ~(f.start < d.last)
        BY <1>4
      <3> QED
        BY <1>1, <3>1, <3>2
    <2>4. f.end = d.first + (d.count - 1) * WindowLength + WindowLength
      <3> DEFINE span == (d.count - 1) * WindowLength
      <3>1. span \in Int /\ d.last = d.first + span
        BY <1>1, <2>3
      <3> HIDE DEF span
      <3>2. f.end = d.first + span + WindowLength
        BY <1>1, <2>3, <3>1
      <3> QED
        BY <3>2 DEF span
    <2>5. f.end = d.first + ((d.count + 1) - 1) * WindowLength
      BY <1>1, <2>4, OneMore
    <2> QED
      BY <2>2, <2>3, <2>5
  <1> QED
    BY <1>2, <1>3, <1>4

\* What one published window makes of a run: the run is still unfinished, gap
\* free and within the source.
LEMMA ObserveShape ==
  ASSUME TypeOK, NEW d \in Detectors, NEW f \in Windows,
         ~Confirms(d, Published(f)),
         d.count > 0 =>
           /\ d.count < RequiredFrames
           /\ d.last = d.first + (d.count - 1) * WindowLength
           /\ LiveReference => d.first >= clock.origin + WindowLength
  PROVE  LET e == Observe(d, Published(f))
         IN  e.count > 0 =>
               /\ e.count < RequiredFrames
               /\ e.last = e.first + (e.count - 1) * WindowLength
               /\ LiveReference => e.first >= clock.origin + WindowLength
  <1>1. CASE f.quality = "dropout" \/ Published(f).quality = "gated"
    BY <1>1, PublishedFacts DEF Observe, NoEvidence
  <1>2. CASE Published(f).quality \notin {"dropout", "gated"} /\ Supports(Published(f))
    <2>1. Published(f) = f
      BY <1>2, PublishedFacts DEF Supports
    <2>2. Observe(d, f) = Extend(d, f) /\ ~(Extend(d, f).count >= RequiredFrames)
      BY <1>2, <2>1 DEF Observe, Confirms
    <2>3. /\ Extend(d, f).last = Extend(d, f).first + (Extend(d, f).count - 1) * WindowLength
          /\ Extend(d, f).first = f.end \/ (d.count > 0 /\ Extend(d, f).first = d.first)
      BY <1>2, <2>1, ExtendShape, WindowFacts
    <2>4. Extend(d, f).count \in Nat
      BY <1>2, <2>1, ExtendFacts, WindowFacts DEF Detectors
    <2>5. f.end >= clock.origin + WindowLength
      BY WindowFacts, SessionAssumption DEF TypeOK
    <2>6. Extend(d, f).count < RequiredFrames
      BY <2>2, <2>4, PolicyAssumption
    <2>7. LiveReference => Extend(d, f).first >= clock.origin + WindowLength
      BY <2>3, <2>5
    <2> QED
      BY <2>1, <2>2, <2>3, <2>6, <2>7
  <1>3. CASE Published(f).quality \notin {"dropout", "gated"} /\ ~Supports(Published(f))
    BY <1>3 DEF Observe, NoEvidence
  <1> QED
    BY <1>1, <1>2, <1>3, PublishedFacts

LEMMA RunInit == ASSUME Init PROVE RunShape
  BY DEF Init, RunShape, NoEvidence

LEMMA RunStep ==
  ASSUME SafetyInv, RunShape, [Next]_vars
  PROVE  RunShape'
  <1> USE DEF SafetyInv, RunShape
  <1>1. CASE detector' = NoEvidence
    BY <1>1 DEF NoEvidence
  <1>2. CASE UNCHANGED detector /\ (LiveReference => clock' = clock)
    BY <1>2
  <1>3. ASSUME Transition(detector), LiveReference => clock' = clock
        PROVE  RunShape'
    BY <1>1, <1>2, <1>3 DEF Transition
  <1>4. ASSUME Transition(NoEvidence)
        PROVE  RunShape'
    BY <1>1, <1>4 DEF Transition
  <1>5. CASE ObserveWindow
    <2>1. PICK f \in Windows :
            \/ ObserveBeforeProbe(f) \/ ObserveSuspended(f) \/ ObserveProbeDropout(f)
            \/ ObserveAfterResume(f) \/ ObserveWaiting(f) \/ ObserveProactive(f)
            \/ ObserveRefused(f) \/ ObserveVerification(f) \/ ObserveQuiet(f)
            \/ ObserveRetiring(f) \/ ObserveOpening(f)
      BY <1>5 DEF ObserveWindow
    <2>2. CASE \/ ObserveBeforeProbe(f) \/ ObserveSuspended(f) \/ ObserveAfterResume(f)
               \/ ObserveWaiting(f) \/ ObserveRefused(f)
      BY <1>2, <2>2 DEF ObserveBeforeProbe, ObserveSuspended, ObserveAfterResume,
                        ObserveWaiting, ObserveRefused, Publish
    <2>3. CASE ObserveProbeDropout(f)
      BY <1>1, <2>3 DEF ObserveProbeDropout
    <2>4. CASE ObserveProactive(f) \/ ObserveVerification(f)
      BY <1>3, <2>4 DEF ObserveProactive, ObserveVerification, Publish
    <2>5. CASE ObserveOpening(f)
      BY <1>4, <2>5 DEF ObserveOpening
    <2>6. CASE ObserveQuiet(f)
      <3>1. clock' = clock
        BY <2>6 DEF ObserveQuiet, Monitored, Publish
      <3>2. CASE HasIncident
        BY <1>2, <2>6, <3>1, <3>2 DEF ObserveQuiet
      <3>3. CASE ~HasIncident
        <4>1. detector' = Observe(detector, Published(f)) /\ ~Confirms(detector, Published(f))
          BY <2>6, <3>3 DEF ObserveQuiet, Opens
        <4> QED
          BY <3>1, <4>1, ObserveShape DEF TypeOK
      <3> QED
        BY <3>2, <3>3
    <2>7. CASE ObserveRetiring(f)
      <3>1. clock' = clock
        BY <2>7 DEF ObserveRetiring, Monitored, Publish
      <3>2. detector' = NoEvidence \/ detector' = Observe(NoEvidence, Published(f))
        BY <2>7 DEF ObserveRetiring, Transition
      <3>3. ~Confirms(NoEvidence, Published(f))
        BY PolicyAssumption DEF Confirms, Extend, NoEvidence
      <3> QED
        BY <1>1, <3>1, <3>2, <3>3, ObserveShape, EmptyValues DEF NoEvidence
    <2> QED
      BY <2>1, <2>2, <2>3, <2>4, <2>5, <2>6, <2>7
  <1>6. CASE Command
    <2>1. CASE ApplyProbe
      BY <1>1, <2>1 DEF ApplyProbe
    <2>2. CASE Resume
      BY <1>3, <1>4, <2>2 DEF Resume
    <2>3. CASE ~ApplyProbe /\ ~Resume
      BY <1>3, <1>4, <1>6, <2>3
      DEF Command, StartAdjustment, CompleteAdjustment, Recheck, FreeRecheck, AcceptBaseline,
          StartLive, FreshStart, Dismiss, Pause, Stop, SwitchMicrophone
    <2> QED
      BY <2>1, <2>2, <2>3
  <1>7. CASE Interruption \/ SourceFailed
    BY <1>1, <1>7, InterruptionEffect DEF Suspend
  <1>8. CASE OpenSource \/ SourceReady \/ CaptureGap \/ ExpireEvidence \/ NotePcm
    BY <1>3, <1>4, <1>8 DEF OpenSource, SourceReady, CaptureGap, ExpireEvidence, NotePcm,
                            NoDecision
  <1>9. CASE AnalysisGap \/ Tick \/ UNCHANGED vars
    BY <1>1, <1>2, <1>9 DEF AnalysisGap, Tick, vars
  <1> QED
    BY <1>5, <1>6, <1>7, <1>8, <1>9 DEF Next, Source

LEMMA EvidenceAlways == Spec => [](SafetyInv /\ RunShape)
  <1>1. Init => RunShape
    BY RunInit
  <1>2. SafetyInv /\ RunShape /\ [Next]_vars => RunShape'
    BY RunStep
  <1> QED
    BY <1>1, <1>2, SafetyAlways, PTL DEF Spec

\* An incident opens on exactly RequiredFrames adjacent windows, all heard after
\* the last break, the last of them fresh, and never while a recheck is armed.
THEOREM OpensOnAnUnbrokenRun == Spec => OpensOnUnbrokenRun
  <1>1. SafetyInv /\ RunShape /\ [Next]_vars =>
          (incident'.id > 0 /\ incident'.id # incident.id =>
             /\ incident'.first > brokenAt
             /\ delivered' - incident'.first = (RequiredFrames - 1) * WindowLength
             /\ now - delivered' <= ResultMaxAge
             /\ workflow \notin {"SUSPENDED", "STOPPED"}
             /\ ~armed)
    <2> SUFFICES ASSUME SafetyInv, RunShape, [Next]_vars,
                        incident'.id > 0, incident'.id # incident.id
                 PROVE  /\ incident'.first > brokenAt
                        /\ delivered' - incident'.first = (RequiredFrames - 1) * WindowLength
                        /\ now - delivered' <= ResultMaxAge
                        /\ workflow \notin {"SUSPENDED", "STOPPED"}
                        /\ ~armed
      OBVIOUS
    <2> USE DEF SafetyInv
    <2>1. PICK f \in Windows : ObserveOpening(f)
      BY IncidentSteps, RevisedType DEF NoIncident
    <2> DEFINE run == Extend(detector, f)
    <2>2. Supports(Published(f)) /\ Extend(detector, Published(f)).count >= RequiredFrames
      BY <2>1 DEF ObserveOpening, Opens, Confirms
    <2>3. Published(f) = f /\ Fresh(f)
      BY <2>2, PublishedFacts DEF Supports
    <2>4. /\ f.end \in Nat /\ f.end > delivered /\ f.start = f.end - WindowLength
          /\ f.start \in Nat /\ f.reading \in [Instruments -> Readings]
      BY WindowFacts
    <2>5. detector \in Detectors /\ detector.count \in Nat
      BY DEF TypeOK, Detectors
    <2>6. /\ run.last = run.first + (run.count - 1) * WindowLength
          /\ run.first = f.end \/ (detector.count > 0 /\ run.first = detector.first)
          /\ \/ run.count = 1 /\ run.last = f.end
             \/ run = detector /\ detector.count > 0
             \/ run.count = detector.count + 1 /\ run.last = f.end
      BY <2>2, <2>3, <2>4, <2>5, ExtendShape DEF RunShape
    <2>7. run \in Detectors /\ run.count >= RequiredFrames
      BY <2>2, <2>3, <2>4, <2>5, ExtendFacts
    <2>8. run.count = RequiredFrames /\ run.last = f.end
      BY <2>5, <2>6, <2>7, PolicyAssumption DEF RunShape
    <2>9. incident'.first = run.first /\ delivered' = f.end
      BY <2>1 DEF ObserveOpening, Monitored, Publish
    <2>10. run.first > brokenAt
      BY <2>4, <2>5, <2>6 DEF EvidenceUnbroken, Bookkeeping, TypeOK
    <2>11. delivered' - incident'.first = (RequiredFrames - 1) * WindowLength
      <3> DEFINE span == (RequiredFrames - 1) * WindowLength
      <3>1. span \in Int /\ run.first \in Nat
        BY <2>7, PolicyAssumption, SessionAssumption DEF Detectors
      <3>2. f.end = run.first + span
        BY <2>6, <2>8
      <3> HIDE DEF span, run
      <3>3. f.end - run.first = span
        BY <2>4, <3>1, <3>2
      <3> QED
        BY <2>9, <3>3 DEF span
    <2>12. now - delivered' <= ResultMaxAge
      BY <2>3, <2>9 DEF Fresh
    <2>13. workflow \notin {"SUSPENDED", "STOPPED"} /\ ~armed
      BY <2>1 DEF ObserveOpening, Monitored, Ordinary, Rechecking, ArmedRecheck, Publish, Listening
    <2> QED
      BY <2>9, <2>10, <2>11, <2>12, <2>13
  <1> QED
    BY <1>1, EvidenceAlways, PTL DEF Spec, OpensOnUnbrokenRun

-----------------------------------------------------------------------------
(***************************************************************************)
(* The source an incident belongs to.                                      *)
(***************************************************************************)
SourceInv == SafetyInv /\ RunShape /\ OwnSourceEvidence

LEMMA OwnSourceInit == ASSUME Init PROVE OwnSourceEvidence
  BY DEF Init, OwnSourceEvidence, HasIncident, NoIncident

\* Opening a source is the only step that moves the clock of a live session.
LEMMA ClockSteps ==
  ASSUME [Next]_vars
  PROVE  \/ OpenSource
         \/ UNCHANGED clock
         \/ Resume /\ ~LiveReference
  <1>1. CASE ObserveWindow
    BY <1>1 DEF ObserveWindow, ObserveBeforeProbe, ObserveSuspended, ObserveProbeDropout,
                ObserveAfterResume, ObserveWaiting, ObserveProactive, ObserveRefused,
                ObserveVerification, ObserveQuiet, ObserveRetiring, ObserveOpening, Monitored,
                Publish
  <1>2. CASE Command
    BY <1>2 DEF Command, StartAdjustment, CompleteAdjustment, Recheck, FreeRecheck,
                AcceptBaseline, StartLive, FreshStart, Dismiss, Pause, Resume, Stop,
                SwitchMicrophone, ApplyProbe
  <1>3. CASE Interruption \/ SourceFailed
    BY <1>3, InterruptionEffect DEF Suspend
  <1>4. CASE SourceReady \/ CaptureGap \/ ExpireEvidence \/ NotePcm \/ AnalysisGap
    BY <1>4 DEF SourceReady, CaptureGap, ExpireEvidence, NotePcm, AnalysisGap, NoDecision
  <1>5. CASE Tick \/ UNCHANGED vars
    BY <1>5 DEF Tick, vars
  <1> QED
    BY <1>1, <1>2, <1>3, <1>4, <1>5 DEF Next, Source

LEMMA OwnSourceStep ==
  ASSUME SourceInv, [Next]_vars
  PROVE  OwnSourceEvidence'
  <1> USE DEF SourceInv, SafetyInv
  <1>1. (LiveReference /\ capture.fresh => frame.clock = clock.id)'
    BY CaptureStep DEF ValidCapture
  <1>2. CASE OpenSource
    BY <1>1, <1>2 DEF OpenSource, ClearSource, NoIncident, HasIncident, OwnSourceEvidence
  <1>3. CASE ~OpenSource
    <2>1. clock'.id = clock.id /\ (LiveReference => clock' = clock)
      BY <1>3, ClockSteps DEF Resume, TypeOK
    <2>2. CASE incident' = incident
      BY <1>1, <2>1, <2>2 DEF OwnSourceEvidence, HasIncident
    <2>3. ASSUME NEW s \in EventStates, HasIncident, incident' = Revised(s)
          PROVE  OwnSourceEvidence'
      BY <1>1, <2>1, <2>3, RevisedType DEF OwnSourceEvidence, HasIncident
    <2>4. CASE incident' = NoIncident
      BY <1>1, <2>4 DEF OwnSourceEvidence, HasIncident, NoIncident
    <2>5. ASSUME NEW f \in Windows, ObserveOpening(f)
          PROVE  OwnSourceEvidence'
      <3>1. incident'.clock = clock.id /\ incident'.first = Extend(detector, f).first
        BY <2>5 DEF ObserveOpening
      <3>2. Supports(Published(f))
        BY <2>5 DEF ObserveOpening, Opens, Confirms
      <3>3. Published(f) = f
        BY <3>2, PublishedFacts DEF Supports
      <3>4. Extend(detector, f).first = f.end
              \/ (detector.count > 0 /\ Extend(detector, f).first = detector.first)
        BY <3>2, <3>3, WindowFacts, ExtendFacts DEF TypeOK
      <3>5. f.end >= clock.origin + WindowLength
        BY WindowFacts, SessionAssumption DEF TypeOK
      <3>6. LiveReference => incident'.first >= clock.origin + WindowLength
        BY <3>1, <3>4, <3>5 DEF RunShape
      <3> QED
        BY <1>1, <2>1, <3>1, <3>6 DEF OwnSourceEvidence
    <2> QED
      BY <2>2, <2>3, <2>4, <2>5, IncidentSteps
  <1> QED
    BY <1>2, <1>3

\* In the live policy every incident was heard, from its first window on, on the
\* source now open.
THEOREM EvidenceIsOfOwnSource == Spec => []OwnSourceEvidence
  <1>1. Init => OwnSourceEvidence
    BY OwnSourceInit
  <1>2. SafetyInv /\ RunShape /\ OwnSourceEvidence /\ [Next]_vars => OwnSourceEvidence'
    BY OwnSourceStep DEF SourceInv
  <1> QED
    BY <1>1, <1>2, EvidenceAlways, PTL DEF Spec

=============================================================================
