----------------------------- MODULE PASession -----------------------------
(***************************************************************************)
(* One PA session (roles/pa/session.py with the LiveReferencePolicy mixin  *)
(* of roles/pa/live_reference.py): the workflow a sound operator follows,  *)
(* the incident and adjustment it carries, and the audio evidence that may *)
(* move it.  Every action is one method run to completion under the        *)
(* session lock; a method that raises restores the exported state          *)
(* (_persisted, CommandHandler.handle) and is no step.                     *)
(*                                                                         *)
(* LiveReference selects the workflow_policy: live_reference_v1, or the    *)
(* legacy_baseline_v1 rehearsal-then-live flow.  Commands are bound to the *)
(* current state_version, so a command always acts on the state it names;  *)
(* stale ones are the subject of CommandLedger.                            *)
(*                                                                         *)
(* Time is counted in hops of the analysis window.  MaxTime and MaxVersion *)
(* bound the model only.                                                   *)
(***************************************************************************)
EXTENDS AnomalyPolicy

CONSTANTS
  LiveReference,    \* workflow_policy = live_reference_v1
  WindowLength,     \* window_size_samples, in hops
  Settling,         \* settling_policy_s
  Uncertainty,      \* clock_uncertainty_s of the source
  ResultMaxAge,     \* result_max_age_s of the timing profile
  MaxTime,          \* bound: last instant of the clock
  MaxVersion        \* bound: last state_version

ASSUME SessionAssumption ==
  /\ LiveReference \in BOOLEAN
  /\ WindowLength \in Nat \ {0}
  /\ Settling \in Nat
  /\ Uncertainty \in Nat
  /\ ResultMaxAge \in Nat
  /\ MaxTime \in Nat
  /\ MaxVersion \in Nat

VARIABLES
  workflow,       \* song["workflow_state"]
  mode,           \* session_mode
  suspension,     \* suspension_reasons: "none" or the single reason
  incident,       \* incident, with _incident_before_balance
  phase,          \* incident_state
  adjustment,     \* adjustment; the cutoff is completed + Settling
  advice,         \* event the published recommendation is for, or 0
  verification,   \* latest_verification
  armed,          \* _verification_armed
  needFresh,      \* _require_fresh_after_resume
  detector,       \* PersistentAnomalyPolicy
  probe,          \* _probe: Idle or its not_before_monotonic_s
  baseline,       \* version of the accepted baseline, or 0
  frame,          \* latest_frame: its end and its clock
  capture,        \* capture projection of the live policy
  clock,          \* source["clock_id"] and the instant it was opened
  version,        \* state_version
  counters,       \* _incident_counter and _adjustment_counter
  now,            \* the monotonic clock
  delivered,      \* end of the newest window handed to observe_window
  worker,         \* the audio worker whose windows this session may receive
  brokenAt        \* history: newest window delivered before the evidence broke

human == <<incident, phase, adjustment, verification, armed>>
vars == <<workflow, mode, suspension, incident, phase, adjustment, advice,
          verification, armed, needFresh, detector, probe, baseline, frame,
          capture, clock, version, counters, now, delivered, worker, brokenAt>>

-----------------------------------------------------------------------------
Workflows == {"REHEARSAL", "ANOMALY_DETECTED", "PA_ADJUSTING", "RECHECK",
              "LIVE_MONITORING", "LIVE_ANOMALY", "VERIFY_RECOVERY",
              "SUSPENDED", "STOPPED"}
RestartReason == "runtime_restart_requires_new_session"
Reasons == {"none", "operator_paused", "paused", "input", "session_delete_failed", "runtime_restart_requires_reopen",
            RestartReason}
EventStates == {"active", "acknowledged", "resolved", "inconclusive", "dismissed"}
Closed == {"resolved", "dismissed"}
Phases == {"none", "active", "adjusting", "verifying", "resolved",
           "inconclusive", "dismissed"}
CaptureStates == {"starting", "listening", "active", "switching", "paused",
                  "stopped", "unavailable"}
Workers == {"none", "running", "ended", "refused"}
SwitchResults == {"none", "pending", "applied", "rolled_back", "failed"}

Idle == -1
Unset == -1
NoFrame == [end |-> 0, clock |-> 0]
NoIncident == [id |-> 0, version |-> 0, state |-> "resolved", before |-> 0,
               instrument |-> CHOOSE i \in Instruments : TRUE, first |-> 0, clock |-> 0]
NoAdjustment == [id |-> 0, event |-> 0, eventVersion |-> 0, completed |-> Unset]
NoVerification == [event |-> 0, adjustment |-> 0, outcome |-> "inconclusive", start |-> 0]

HasIncident == incident.id > 0
HasAdjustment == adjustment.id > 0
Completed == adjustment.completed # Unset
Monitoring == IF mode = "live" THEN "LIVE_MONITORING" ELSE "REHEARSAL"
AnomalousLive == "LIVE_ANOMALY"
Anomalous == IF mode = "live" THEN "LIVE_ANOMALY" ELSE "ANOMALY_DETECTED"
Verifying == IF mode = "live" THEN "VERIFY_RECOVERY" ELSE "RECHECK"

Init ==
  /\ workflow = IF LiveReference THEN "LIVE_MONITORING" ELSE "REHEARSAL"
  /\ mode = IF LiveReference THEN "live" ELSE "rehearsal"
  /\ suspension = "none"
  /\ incident = NoIncident
  /\ phase = "none"
  /\ adjustment = NoAdjustment
  /\ advice = 0
  /\ verification = NoVerification
  /\ armed = FALSE
  /\ needFresh = FALSE
  /\ detector = NoEvidence
  /\ probe = Idle
  /\ baseline = 0
  /\ frame = NoFrame
  /\ capture = [state |-> "starting", generation |-> 0, opened |-> 0, fresh |-> FALSE,
                switch |-> "none", operation |-> FALSE, opening |-> LiveReference,
                stay |-> FALSE]
  /\ clock = [id |-> 1, origin |-> 0]
  /\ version = 0
  /\ counters = [incident |-> 0, adjustment |-> 0]
  /\ now = 0
  /\ delivered = 0
  /\ worker = IF LiveReference THEN "none" ELSE "running"
  /\ brokenAt = 0

-----------------------------------------------------------------------------
(***************************************************************************)
(* _transition: a new state_version; a guided probe ends as soon as the    *)
(* session is not in idle rehearsal.                                       *)
(***************************************************************************)
TransitionOfWorkflow(d) ==
  /\ version' = IF workflow' = workflow THEN version ELSE version + 1
  /\ probe' = IF workflow' = workflow THEN probe ELSE Idle
  /\ detector' = d

Transition(d) ==
  LET cancelled == /\ probe # Idle
                   /\ \/ mode' # "rehearsal"
                      \/ workflow' # "REHEARSAL"
                      \/ adjustment'.id > 0
  IN  /\ version' = version + 1
      /\ probe' = IF cancelled THEN Idle ELSE probe
      /\ detector' = IF cancelled THEN NoEvidence ELSE d

\* The detector was reset because what follows does not continue what was heard.
EvidenceBreaks == brokenAt' = delivered

RevisedVersionOnly(state) == [incident EXCEPT !.version = @ + 1]

\* A revision of the public event: start_adjustment, dismiss, a verdict.
Revised(state) == [incident EXCEPT !.state = state, !.version = @ + 1]

Silence == advice' = 0

ClearSourceKeepingIncident ==
  /\ adjustment' = NoAdjustment
  /\ frame' = NoFrame
  /\ verification' = NoVerification
  /\ advice' = 0
  /\ armed' = FALSE
  /\ UNCHANGED <<incident, phase>>

\* _clear_source_evidence
ClearSource ==
  /\ incident' = NoIncident
  /\ adjustment' = NoAdjustment
  /\ phase' = "none"
  /\ frame' = NoFrame
  /\ verification' = NoVerification
  /\ advice' = 0
  /\ armed' = FALSE

KeepHuman == UNCHANGED human
KeepTime == UNCHANGED <<now, delivered>>

-----------------------------------------------------------------------------
(***************************************************************************)
(* observe_window.  The callers deliver a window only to a session that is *)
(* not stopped; legacy callers also skip a suspended one, live callers     *)
(* require the generation the source was opened with.  An inference still  *)
(* running when its source failed can therefore publish after suspension.  *)
(***************************************************************************)
Fresh(f) == now - f.end <= ResultMaxAge

\* Quality after inference: an over-age result is gated as stale.
Published(f) == IF f.quality = "usable" /\ ~Fresh(f) THEN [f EXCEPT !.quality = "gated"] ELSE f

Windows ==
  {f \in [start : 0..MaxTime, end : (delivered + 1)..now, quality : Qualities,
          reading : [Instruments -> Readings]] :
     f.start = f.end - WindowLength /\ f.start >= clock.origin}

\* The live source still publishes under the generation it was opened with.
Current == capture.opened > 0 /\ capture.generation = capture.opened

Listening ==
  /\ workflow # "STOPPED"
  /\ worker = "running"
  /\ IF LiveReference THEN Current ELSE workflow # "SUSPENDED"

\* The frame becomes latest_frame; the live policy projects its freshness.
Publish(f) ==
  /\ Listening
  /\ version < MaxVersion
  /\ delivered' = f.end
  /\ frame' = [end |-> f.end, clock |-> clock.id]
  /\ capture' = IF LiveReference
                THEN LET fresh == Fresh(f) /\ f.quality # "dropout"
                     IN  [capture EXCEPT !.fresh = fresh,
                                         !.state = IF fresh THEN "active" ELSE "listening"]
                ELSE capture
  /\ UNCHANGED <<mode, suspension, baseline, clock, now>>

NoWorkflowChange ==
  /\ KeepHuman
  /\ UNCHANGED <<workflow, advice, probe, version, counters>>

BeforeProbe(f) == probe # Idle /\ f.quality # "dropout" /\ f.start - Uncertainty < probe

\* A window begun before the probe yields no frame.  The legacy worker callback
\* subscripts the None it gets back, so that window also ends the worker.
ObserveBeforeProbe(f) ==
  /\ Listening
  /\ BeforeProbe(f)
  /\ delivered' = f.end
  /\ worker' = "refused"
  /\ NoWorkflowChange
  /\ UNCHANGED <<mode, suspension, needFresh, detector, baseline, frame, capture, clock,
                 now, brokenAt>>

\* Paused or failed sessions publish diagnostics only.
ObserveSuspended(f) ==
  /\ ~BeforeProbe(f)
  /\ workflow = "SUSPENDED"
  /\ Publish(f)
  /\ NoWorkflowChange
  /\ UNCHANGED <<needFresh, detector, worker, brokenAt>>

\* A physical gap while a probe runs ends the probe.
ObserveProbeDropout(f) ==
  /\ probe # Idle
  /\ f.quality = "dropout"
  /\ Publish(f)
  /\ KeepHuman
  /\ version' = version + 1
  /\ probe' = Idle
  /\ detector' = NoEvidence
  /\ brokenAt' = f.end
  /\ UNCHANGED <<workflow, advice, counters, needFresh, worker>>

Ordinary(f) ==
  /\ ~BeforeProbe(f)
  /\ ~(probe # Idle /\ f.quality = "dropout")
  /\ workflow # "SUSPENDED"

\* After resume the first usable frame only proves the input is back.
ObserveAfterResume(f) ==
  /\ Ordinary(f)
  /\ needFresh
  /\ Publish(f)
  /\ needFresh' = ~Usable(Published(f))
  /\ NoWorkflowChange
  /\ UNCHANGED <<detector, worker, brokenAt>>

Rechecking == armed /\ HasAdjustment
BeforeCutoffByEnd(f) ==
  adjustment.completed = Unset \/ f.end - Uncertainty < adjustment.completed + Settling

BeforeCutoff(f) ==
  \/ adjustment.completed = Unset
  \/ f.start - Uncertainty < adjustment.completed + Settling

\* An armed recheck waits for a window entirely after the cutoff; a proactive
\* one (no incident) also for a usable frame.
ObserveWaiting(f) ==
  /\ Ordinary(f)
  /\ ~needFresh
  /\ Rechecking
  /\ BeforeCutoff(f) \/ (~HasIncident /\ ~Usable(Published(f)))
  /\ Publish(f)
  /\ NoWorkflowChange
  /\ UNCHANGED <<needFresh, detector, worker, brokenAt>>

Answers(f) ==
  /\ Ordinary(f)
  /\ ~needFresh
  /\ Rechecking
  /\ ~BeforeCutoff(f)

\* _consider_proactive_recheck
ObserveProactive(f) ==
  /\ Answers(f)
  /\ ~HasIncident
  /\ Usable(Published(f))
  /\ mode = "rehearsal"
  /\ Publish(f)
  /\ armed' = FALSE
  /\ adjustment' = NoAdjustment
  /\ phase' = "none"
  /\ workflow' = "REHEARSAL"
  /\ UNCHANGED <<incident, verification, advice, counters, needFresh, worker, brokenAt>>
  /\ Transition(detector)

\* In live mode the same method moves to REHEARSAL, the snapshot it must
\* publish is invalid and the observation raises: everything is restored, the
\* worker that made the call ends and reports the input as failed.
ObserveRefused(f) ==
  /\ Answers(f)
  /\ ~HasIncident
  /\ Usable(Published(f))
  /\ mode = "live"
  /\ Listening
  /\ version < MaxVersion
  /\ worker' = "refused"
  /\ delivered' = f.end
  /\ NoWorkflowChange
  /\ UNCHANGED <<mode, suspension, needFresh, detector, baseline, frame, capture, clock,
                 now, brokenAt>>

\* _consider_verification
ObserveVerification(f) ==
  LET outcome == Judge(Published(f), incident.instrument, incident.before)
      verdict == CASE outcome = "recovered"    -> "resolved"
                   [] outcome = "inconclusive" -> "inconclusive"
                   [] OTHER                    -> "active"
  IN  /\ Answers(f)
      /\ HasIncident
      /\ Publish(f)
      /\ verification' = [event |-> incident.id, adjustment |-> adjustment.id,
                          outcome |-> outcome, start |-> f.start]
      /\ armed' = FALSE
      /\ incident' = Revised(verdict)
      /\ phase' = verdict
      /\ advice' = IF verdict = "resolved" THEN 0 ELSE advice
      /\ workflow' = CASE verdict = "resolved" -> Monitoring
                       [] verdict = "active"   -> Anomalous
                       [] OTHER                -> workflow
      /\ adjustment' = IF verdict = "inconclusive" THEN adjustment ELSE NoAdjustment
      /\ UNCHANGED <<counters, needFresh, worker, brokenAt>>
      /\ Transition(detector)

-----------------------------------------------------------------------------
(***************************************************************************)
(* Monitoring.  A usable frame retires a closed incident together with its *)
(* adjustment; without an incident the frame feeds the detector, which may *)
(* open one.                                                               *)
(***************************************************************************)
RetiresAnswered(f) == HasIncident /\ incident.state # "active" /\ Usable(Published(f))
Retires(f) == HasIncident /\ incident.state \in Closed /\ Usable(Published(f))
Opens(f) == ~HasIncident /\ Confirms(detector, Published(f))

Monitored(f) ==
  /\ Ordinary(f)
  /\ ~needFresh
  /\ ~Rechecking
  /\ Publish(f)
  /\ brokenAt' = IF f.quality = "dropout" THEN f.end ELSE brokenAt
  /\ UNCHANGED <<needFresh, worker>>

ObserveQuiet(f) ==
  /\ ~Retires(f)
  /\ ~Opens(f)
  /\ Monitored(f)
  /\ detector' = IF HasIncident THEN detector ELSE Observe(detector, Published(f))
  /\ NoWorkflowChange

ObserveRetiring(f) ==
  /\ Retires(f)
  /\ Monitored(f)
  /\ incident' = NoIncident
  /\ adjustment' = NoAdjustment
  /\ phase' = "none"
  /\ advice' = 0
  /\ UNCHANGED <<workflow, verification, armed, counters>>
  /\ Transition(Observe(NoEvidence, Published(f)))

\* _open_incident
ObserveOpening(f) ==
  LET worst == Worst(f)
      run == Extend(detector, f)
  IN  /\ Opens(f)
      /\ Monitored(f)
      /\ counters' = [counters EXCEPT !.incident = @ + 1]
      /\ incident' = [id |-> counters.incident + 1, version |-> 1, state |-> "active",
                      before |-> f.reading[worst], instrument |-> worst,
                      first |-> run.first, clock |-> clock.id]
      /\ phase' = "active"
      /\ workflow' = Anomalous
      /\ advice' = counters.incident + 1
      /\ UNCHANGED <<adjustment, verification, armed>>
      /\ Transition(NoEvidence)

ObserveWindow ==
  \E f \in Windows :
    \/ ObserveBeforeProbe(f)
    \/ ObserveSuspended(f)
    \/ ObserveProbeDropout(f)
    \/ ObserveAfterResume(f)
    \/ ObserveWaiting(f)
    \/ ObserveProactive(f)
    \/ ObserveRefused(f)
    \/ ObserveVerification(f)
    \/ ObserveQuiet(f)
    \/ ObserveRetiring(f)
    \/ ObserveOpening(f)

-----------------------------------------------------------------------------
(***************************************************************************)
(* Commands (apply_command): _authorize_action, then the action's own      *)
(* handler, which ends in one _transition.                                 *)
(***************************************************************************)
Authorized == version < MaxVersion /\ workflow \notin {"SUSPENDED", "STOPPED"}

NothingOpen == HasIncident => incident.state \in Closed

\* accept_baseline and start_live leave no unresolved work behind.
NothingPending == ~HasAdjustment /\ (HasIncident => incident.state \in Closed)

StartAdjustment ==
  /\ Authorized
  /\ ~HasAdjustment
  /\ counters' = [counters EXCEPT !.adjustment = @ + 1]
  /\ adjustment' = [id |-> counters.adjustment + 1, event |-> incident.id,
                    eventVersion |-> incident.version, completed |-> Unset]
  /\ incident' = IF HasIncident
                 THEN Revised("acknowledged") ELSE incident
  /\ phase' = "adjusting"
  /\ workflow' = "PA_ADJUSTING"
  /\ KeepTime
  /\ UNCHANGED <<mode, suspension, advice, verification, armed, needFresh, baseline, frame,
                 capture, clock, worker, brokenAt>>
  /\ Transition(detector)

CompleteAdjustment ==
  /\ Authorized
  /\ HasAdjustment
  /\ ~Completed
  /\ adjustment' = [adjustment EXCEPT !.completed = now]
  /\ phase' = "verifying"
  /\ workflow' = Verifying
  /\ KeepTime
  /\ UNCHANGED <<mode, suspension, incident, advice, verification, armed, needFresh, baseline,
                 frame, capture, clock, counters, worker, brokenAt>>
  /\ Transition(detector)

Recheck ==
  /\ Authorized
  /\ HasAdjustment
  /\ Completed
  /\ armed' = TRUE
  /\ phase' = "verifying"
  /\ workflow' = Verifying
  /\ KeepTime
  /\ UNCHANGED <<mode, suspension, incident, adjustment, advice, verification, needFresh,
                 baseline, frame, capture, clock, counters, worker, brokenAt>>
  /\ Transition(detector)

\* recheck with a null adjustment_id
FreeRecheck ==
  /\ Authorized
  /\ ~HasAdjustment
  /\ mode = "rehearsal" \/ LiveReference
  /\ workflow' = IF LiveReference THEN "LIVE_MONITORING" ELSE "REHEARSAL"
  /\ UNCHANGED adjustment
  /\ EvidenceBreaks
  /\ KeepTime
  /\ UNCHANGED <<mode, suspension, incident, phase, advice, verification, armed, needFresh,
                 baseline, frame, capture, clock, counters, worker>>
  /\ Transition(NoEvidence)

\* What accept_baseline and start_live both clear.
FreshStart ==
  /\ incident' = NoIncident
  /\ adjustment' = NoAdjustment
  /\ phase' = "none"
  /\ advice' = 0
  /\ verification' = NoVerification
  /\ frame' = NoFrame
  /\ EvidenceBreaks
  /\ KeepTime
  /\ UNCHANGED <<suspension, armed, needFresh, capture, clock, counters, worker>>
  /\ Transition(NoEvidence)

AcceptBaseline ==
  /\ Authorized
  /\ ~LiveReference
  /\ NothingPending
  /\ mode = "rehearsal"
  /\ delivered > 0              \* the interval is selected among published frames
  /\ baseline' = baseline + 1
  /\ workflow' = "REHEARSAL"
  /\ UNCHANGED mode
  /\ FreshStart

StartLive ==
  /\ Authorized
  /\ ~LiveReference
  /\ NothingPending
  /\ mode = "rehearsal"
  /\ baseline > 0
  /\ mode' = "live"
  /\ workflow' = "LIVE_MONITORING"
  /\ UNCHANGED baseline
  /\ FreshStart

Dismiss ==
  /\ Authorized
  /\ HasIncident
  /\ incident' = Revised("dismissed")
  /\ phase' = "dismissed"
  /\ Silence
  /\ UNCHANGED <<workflow, mode, adjustment>>
  /\ KeepTime
  /\ UNCHANGED <<suspension, verification, armed, needFresh, baseline, frame, capture, clock,
                 counters, worker, brokenAt>>
  /\ Transition(detector)

-----------------------------------------------------------------------------
(***************************************************************************)
(* Pause, resume, stop and the other ways an input is interrupted.  In the *)
(* live policy each of them clears what belonged to the source; the legacy *)
(* session keeps its incident and adjustment.  post_action then starts or  *)
(* stops the audio to match; the races of that second step are LiveAudio's.*)
(***************************************************************************)
FailPending(c) == IF c.switch = "pending" THEN [c EXCEPT !.switch = "failed"] ELSE c

\* The legacy session keeps the incident and the adjustment, but asks for a new
\* recheck.
SuspendLegacy ==
  /\ Silence
  /\ armed' = FALSE
  /\ UNCHANGED <<incident, adjustment, phase, verification, frame>>

\* pause and stop: late results are fenced by a new source generation
Halted(state) ==
  IF LiveReference
  THEN FailPending([capture EXCEPT !.generation = @ + 1, !.state = state,
                                   !.fresh = FALSE, !.opening = FALSE])
  ELSE capture

Pause ==
  /\ version < MaxVersion
  /\ workflow # "STOPPED"
  /\ workflow = "SUSPENDED" => LiveReference
  /\ workflow' = "SUSPENDED"
  /\ suspension' = "operator_paused"
  /\ capture' = Halted("paused")
  /\ worker' = "none"
  /\ IF LiveReference THEN ClearSource
     ELSE SuspendLegacy
  /\ UNCHANGED mode
  /\ EvidenceBreaks
  /\ KeepTime
  /\ UNCHANGED <<needFresh, baseline, clock, counters>>
  /\ Transition(NoEvidence)

Resume ==
  /\ version < MaxVersion
  /\ workflow = "SUSPENDED"
  /\ suspension # RestartReason
  /\ suspension' = "none"
  /\ needFresh' = TRUE
  /\ IF LiveReference
     THEN /\ ClearSource
          /\ capture' = [capture EXCEPT !.state = "starting", !.fresh = FALSE, !.switch = "none",
                                        !.operation = FALSE, !.opened = 0, !.opening = TRUE,
                                        !.stay = FALSE]
          /\ worker' = "none"
          /\ EvidenceBreaks
          /\ UNCHANGED clock
     ELSE /\ clock' = [clock EXCEPT !.origin = now]
          /\ worker' = "running"
          /\ UNCHANGED <<human, advice, frame, capture, brokenAt>>
  /\ workflow' = CASE adjustment'.id > 0 /\ adjustment'.completed = Unset -> "PA_ADJUSTING"
                   [] adjustment'.id > 0 -> Verifying
                   [] adjustment'.id = 0 /\ incident'.id > 0 /\ incident'.state \notin Closed -> Anomalous
                   [] OTHER -> Monitoring
  /\ UNCHANGED mode
  /\ KeepTime
  /\ UNCHANGED <<baseline, counters>>
  /\ Transition(IF LiveReference THEN NoEvidence ELSE detector)

Stop ==
  /\ version < MaxVersion
  /\ workflow # "STOPPED"
  /\ workflow' = "STOPPED"
  /\ suspension' = "none"
  /\ capture' = Halted("stopped")
  /\ worker' = "none"
  /\ IF LiveReference THEN ClearSource
     ELSE Silence /\ UNCHANGED <<human, frame>>
  /\ UNCHANGED mode
  /\ EvidenceBreaks
  /\ KeepTime
  /\ UNCHANGED <<needFresh, baseline, clock, counters>>
  /\ Transition(NoEvidence)

\* _accept_source_switch; legal also while suspended
SwitchMicrophone ==
  /\ LiveReference
  /\ version < MaxVersion
  /\ workflow # "STOPPED"
  /\ capture.switch # "pending"
  /\ capture' = [capture EXCEPT !.generation = @ + 1, !.state = "switching", !.fresh = FALSE,
                                !.switch = "pending", !.operation = TRUE, !.opening = TRUE,
                                !.stay = (capture.state = "paused")]
  /\ worker' = "none"
  /\ ClearSource
  /\ UNCHANGED <<workflow, mode>>
  /\ EvidenceBreaks
  /\ KeepTime
  /\ UNCHANGED <<suspension, needFresh, baseline, clock, counters>>
  /\ Transition(NoEvidence)

\* apply_probe: an instrument or full-band probe starts now, or the probe ends
ApplyProbe ==
  /\ ~LiveReference
  /\ version < MaxVersion
  /\ mode = "rehearsal"
  /\ workflow = "REHEARSAL"
  /\ ~HasAdjustment
  /\ probe' \in {Idle, now}
  /\ detector' = NoEvidence
  /\ version' = version + 1
  /\ EvidenceBreaks
  /\ KeepHuman
  /\ KeepTime
  /\ UNCHANGED <<workflow, mode, suspension, advice, needFresh, baseline, frame, capture,
                 clock, counters, worker>>

-----------------------------------------------------------------------------
\* suspend_for_input and suspend_for_runtime_restart, capture as given
Suspend(reason) ==
  /\ workflow' = "SUSPENDED"
  /\ suspension' = reason
  /\ IF LiveReference THEN ClearSource
     ELSE SuspendLegacy
  /\ UNCHANGED mode
  /\ detector' = NoEvidence
  /\ probe' = Idle
  /\ EvidenceBreaks
  /\ KeepTime
  /\ UNCHANGED <<needFresh, baseline, clock, counters>>

LostStillFresh(c) == IF LiveReference THEN [c EXCEPT !.state = "unavailable"] ELSE c
Lost(c) == IF LiveReference THEN [c EXCEPT !.state = "unavailable", !.fresh = FALSE] ELSE c

\* on_end of the worker: end of file, a device error, or a refused observation
SourceEnds ==
  /\ worker \in {"running", "refused"}
  /\ version < MaxVersion
  /\ workflow # "STOPPED"
  /\ IF LiveReference THEN Current ELSE workflow # "SUSPENDED"
  /\ worker' = "ended"
  /\ capture' = Lost(capture)
  /\ Suspend("input")
  /\ version' = version + 1

\* delete_session whose store write fails: the audio is already cancelled
DeleteFails ==
  /\ version < MaxVersion
  /\ workflow # "STOPPED"
  /\ worker' = "none"
  /\ capture' = IF LiveReference THEN [Lost(capture) EXCEPT !.opened = 0, !.opening = FALSE]
                ELSE capture
  /\ Suspend("session_delete_failed")
  /\ version' = version + 1

Restart ==
  /\ version < MaxVersion
  /\ workflow # "STOPPED"
  /\ worker' = "none"
  /\ capture' = IF LiveReference
                THEN FailPending([Lost(capture) EXCEPT !.generation = @ + 1, !.opening = FALSE])
                ELSE capture
  /\ Suspend(IF LiveReference THEN "runtime_restart_requires_reopen" ELSE RestartReason)
  /\ version' = version + 1

-----------------------------------------------------------------------------
(***************************************************************************)
(* What the live source controller does to the session while it opens a    *)
(* source (_run, _attempt) and while it watches one (_watch).              *)
(***************************************************************************)
Opening == LiveReference /\ capture.opening /\ workflow # "STOPPED" /\ version < MaxVersion

\* One candidate endpoint: a new generation, clock and run.
OpenSource ==
  /\ Opening
  /\ capture' = [capture EXCEPT !.generation = @ + 1, !.opened = capture.generation + 1,
                                !.state = "starting", !.fresh = FALSE]
  /\ clock' = [id |-> clock.id + 1, origin |-> now]
  /\ worker' = "running"
  /\ ClearSource
  /\ workflow' = "LIVE_MONITORING"
  /\ suspension' = "none"
  /\ UNCHANGED mode
  /\ EvidenceBreaks
  /\ KeepTime
  /\ UNCHANGED <<needFresh, baseline, counters>>
  /\ Transition(NoEvidence)

\* PCM arrived; a selection made while paused only proves the device and closes it.
SourceReady ==
  /\ Opening
  /\ Current
  /\ \E result \in {"applied", "rolled_back"} :
       capture' = [capture EXCEPT
         !.opening = FALSE,
         !.switch = IF capture.operation THEN result ELSE "none",
         !.fresh = @ /\ ~capture.stay,
         !.state = IF capture.stay THEN "paused"
                   ELSE IF capture.fresh THEN @ ELSE "listening"]
  /\ IF capture.stay
     THEN /\ ClearSource
          /\ workflow' = "SUSPENDED"
          /\ suspension' = "paused"
          /\ UNCHANGED mode
          /\ Transition(NoEvidence)
          /\ EvidenceBreaks
     ELSE /\ UNCHANGED <<human, advice, frame, workflow, mode, suspension, brokenAt>>
          /\ Transition(detector)
  /\ KeepTime
  /\ UNCHANGED <<needFresh, baseline, clock, counters, worker>>

\* Every candidate and the rollback failed: suspend_for_input, then persist.
SourceFailed ==
  /\ Opening
  /\ capture' = [Lost(capture) EXCEPT !.opening = FALSE,
                                      !.switch = IF capture.operation THEN "failed" ELSE "none"]
  /\ Suspend("input")
  /\ version' = version + 2
  /\ UNCHANGED worker

Watched ==
  /\ LiveReference
  /\ Current
  /\ worker # "none"
  /\ capture.state \notin {"switching", "paused", "stopped", "unavailable"}
  /\ version < MaxVersion

NoDecision ==
  /\ KeepTime
  /\ UNCHANGED <<workflow, mode, suspension, incident, phase, adjustment, needFresh,
                 baseline, clock, counters, worker>>

\* suppress_for_capture_gap: a dropped packet or a broken device clock
CaptureGap ==
  /\ Watched
  /\ capture' = [capture EXCEPT !.fresh = FALSE, !.state = "listening"]
  /\ frame' = NoFrame
  /\ advice' = 0
  /\ verification' = NoVerification
  /\ NoDecision
  /\ EvidenceBreaks
  /\ UNCHANGED armed
  /\ Transition(NoEvidence)

\* expire_live_evidence
ExpireEvidence ==
  /\ Watched
  /\ workflow # "SUSPENDED"     \* a failed source has no worker to watch
  /\ capture.fresh
  /\ now > frame.end + ResultMaxAge
  /\ capture' = [capture EXCEPT !.fresh = FALSE, !.state = "listening"]
  /\ frame' = NoFrame
  /\ advice' = 0
  /\ verification' = NoVerification
  /\ armed' = FALSE
  /\ NoDecision
  /\ EvidenceBreaks
  /\ Transition(NoEvidence)

NotePcm ==
  /\ Watched
  /\ capture.state = "starting"
  /\ capture' = [capture EXCEPT !.state = "listening"]
  /\ NoDecision
  /\ UNCHANGED <<frame, advice, verification, armed, brokenAt>>
  /\ Transition(detector)

\* reset_analysis_persistence: the worker skipped windows it could not afford
AnalysisGap ==
  /\ Listening
  /\ detector # NoEvidence
  /\ detector' = NoEvidence
  /\ EvidenceBreaks
  /\ KeepHuman
  /\ KeepTime
  /\ UNCHANGED <<workflow, mode, suspension, advice, needFresh, probe, baseline, frame,
                 capture, clock, version, counters, worker>>

Tick ==
  /\ now < MaxTime
  /\ workflow # "STOPPED"
  /\ now' = now + 1
  /\ UNCHANGED <<workflow, mode, suspension, human, advice, needFresh, detector, probe,
                 baseline, frame, capture, clock, version, counters, delivered, worker,
                 brokenAt>>

Command ==
  \/ StartAdjustment \/ CompleteAdjustment \/ Recheck \/ FreeRecheck
  \/ AcceptBaseline \/ StartLive \/ Dismiss
  \/ Pause \/ Resume \/ Stop \/ SwitchMicrophone \/ ApplyProbe

Interruption == SourceEnds \/ DeleteFails \/ Restart

Source ==
  \/ OpenSource \/ SourceReady \/ SourceFailed
  \/ CaptureGap \/ ExpireEvidence \/ NotePcm \/ AnalysisGap

Next == ObserveWindow \/ Command \/ Interruption \/ Source \/ Tick

Spec == Init /\ [][Next]_vars

-----------------------------------------------------------------------------
Incidents ==
  [id : Nat, version : Nat, state : EventStates, before : Int, instrument : Instruments,
   first : Nat, clock : Nat]
Adjustments ==
  [id : Nat, event : Nat, eventVersion : Nat, completed : Nat \cup {Unset}]
Verifications == [event : Nat, adjustment : Nat, outcome : Outcomes, start : Nat]
Captures ==
  [state : CaptureStates, generation : Nat, opened : Nat, fresh : BOOLEAN,
   switch : SwitchResults, operation : BOOLEAN, opening : BOOLEAN, stay : BOOLEAN]

TypeOK ==
  /\ workflow \in Workflows
  /\ mode \in {"rehearsal", "live"}
  /\ suspension \in Reasons
  /\ incident \in Incidents
  /\ phase \in Phases
  /\ adjustment \in Adjustments
  /\ advice \in Nat
  /\ verification \in Verifications
  /\ armed \in BOOLEAN
  /\ needFresh \in BOOLEAN
  /\ detector \in Detectors
  /\ probe \in Nat \cup {Idle}
  /\ baseline \in Nat
  /\ frame \in [end : Nat, clock : Nat]
  /\ capture \in Captures
  /\ clock \in [id : Nat, origin : Nat]
  /\ version \in Nat
  /\ counters \in [incident : Nat, adjustment : Nat]
  /\ now \in Nat
  /\ delivered \in Nat
  /\ worker \in Workers
  /\ brokenAt \in Nat

(***************************************************************************)
(* The session's own validator.  _transition publishes a snapshot, and     *)
(* validate_snapshot raises when the pieces contradict each other: a       *)
(* workflow of the other mode, an adjustment of an incident that is gone,  *)
(* advice for another incident, a frame of an earlier source, freshness    *)
(* claimed by a capture that is not running.  No accepted step may build   *)
(* such a snapshot.                                                        *)
(***************************************************************************)
ValidWorkflow ==
  /\ workflow \in {"LIVE_MONITORING", "LIVE_ANOMALY", "VERIFY_RECOVERY"} => mode = "live"
  /\ workflow \in {"REHEARSAL", "ANOMALY_DETECTED", "RECHECK"} => mode = "rehearsal"
  /\ IF LiveReference THEN baseline = 0 ELSE mode = "live" => baseline > 0

ValidAdjustment ==
  adjustment.event > 0 =>
    adjustment.event = incident.id /\ adjustment.eventVersion <= incident.version

ValidAdvice == advice > 0 => advice = incident.id

ValidCapture ==
  LiveReference =>
    /\ capture.state \in {"switching", "starting", "paused", "stopped", "unavailable"}
         => ~capture.fresh
    /\ capture.fresh => frame # NoFrame
    /\ frame # NoFrame => frame.clock = clock.id

SnapshotAccepted == ValidWorkflow /\ ValidAdjustment /\ ValidAdvice /\ ValidCapture

\* incident_state always describes the incident and adjustment the session
\* holds: none without either, the event's own state once a verdict or a
\* dismissal was given, adjusting until the adjustment is marked complete and
\* verifying only for a complete one.
PhaseAgrees ==
  /\ phase = "none" <=> ~HasIncident /\ ~HasAdjustment
  /\ phase \in {"active", "resolved", "inconclusive", "dismissed"} =>
       HasIncident /\ incident.state = phase
  /\ phase = "adjusting" => HasAdjustment /\ adjustment.completed = Unset
  /\ phase = "verifying" => HasAdjustment /\ adjustment.completed # Unset

\* Advice is shown only for the incident that is open now, never for a resolved
\* or dismissed one and never by a suspended or stopped session, however a
\* pause, a failed device, a late result and a verdict interleave.
AdviceBound ==
  advice > 0 =>
    /\ advice = incident.id
    /\ incident.state \notin {"resolved", "dismissed"}
    /\ workflow \notin {"SUSPENDED", "STOPPED"}

\* A recheck can be answered only for an adjustment the engineer has completed,
\* and only while the workflow says that it is being verified (_stop leaves the
\* flag behind in a terminal legacy session).
ArmedRecheck ==
  armed =>
    /\ HasAdjustment
    /\ adjustment.completed # Unset
    /\ workflow \in {"RECHECK", "VERIFY_RECOVERY", "STOPPED"}

\* A guided probe lives only in idle rehearsal: any adjustment, incident,
\* suspension or Live transition has ended it.
ProbeInIdleRehearsal ==
  probe # Idle => mode = "rehearsal" /\ workflow = "REHEARSAL" /\ ~HasAdjustment

\* The parts of the session that say the same thing twice go on agreeing through
\* every order of commands, windows, probes and interruptions.
PartsAgree == PhaseAgrees /\ AdviceBound /\ ArmedRecheck /\ ProbeInIdleRehearsal

\* The evidence being collected never reaches back across a pause, suspension,
\* restart, change of source, capture gap or skipped inference.
EvidenceUnbroken == detector.count > 0 => detector.first > brokenAt

\* In the live policy an incident, and the freshness of a frame, always belong
\* to the source now bound: every evidence window began after it was opened.
OwnSourceEvidence ==
  /\ HasIncident => incident.clock = clock.id
  /\ LiveReference /\ HasIncident => incident.first >= clock.origin + WindowLength
  /\ LiveReference /\ capture.fresh => frame.clock = clock.id

(***************************************************************************)
(* What the proofs of the properties below need besides them: the mode of  *)
(* the live policy, the blank incident, the clean slate of a suspended     *)
(* live session, the idle detector of one with an incident, and that the   *)
(* evidence broke in the past.                                             *)
(***************************************************************************)
Bookkeeping ==
  /\ LiveReference => mode = "live"
  /\ ~HasIncident => incident = NoIncident
  /\ LiveReference /\ workflow = "SUSPENDED" => ~HasIncident
  /\ HasIncident => detector.count = 0
  /\ brokenAt <= delivered

\* The run of frames being collected is unfinished and without gaps, and in the
\* live policy it lies within the source now open.
RunShape ==
  detector.count > 0 =>
    /\ detector.count < RequiredFrames
    /\ detector.last = detector.first + (detector.count - 1) * WindowLength
    /\ LiveReference => detector.first >= clock.origin + WindowLength

-----------------------------------------------------------------------------
\* An incident opens on exactly RequiredFrames adjacent windows, all delivered
\* after the last break, the last of them still fresh, and never for a session
\* that is suspended or verifying.
OpensOnUnbrokenRun ==
  [][incident'.id > 0 /\ incident'.id # incident.id =>
       /\ incident'.first > brokenAt
       /\ delivered' - incident'.first = (RequiredFrames - 1) * WindowLength
       /\ now - delivered' <= ResultMaxAge
       /\ workflow \notin {"SUSPENDED", "STOPPED"}
       /\ ~armed]_vars

\* Only an armed recheck resolves an incident, on a fresh window that began
\* after the settling cutoff, and the published verification names that
\* incident and that adjustment.  Pause, timeout, disconnection, restart or
\* dismissal never does.
ResolvedByVerification ==
  [][incident'.id = incident.id /\ incident'.state = "resolved" /\ incident.state # "resolved" =>
       /\ armed
       /\ adjustment.completed # Unset
       /\ verification'.event = incident.id
       /\ verification'.adjustment = adjustment.id
       /\ verification'.outcome = "recovered"
       /\ verification'.start - Uncertainty >= adjustment.completed + Settling
       /\ now - delivered' <= ResultMaxAge]_vars

\* An unresolved incident is never dropped silently: the legacy session keeps
\* it, the live one gives it up only together with the source it was heard on.
UnresolvedIncidentKept ==
  [][HasIncident /\ incident.state \notin {"resolved", "dismissed"} /\ incident'.id # incident.id =>
       /\ LiveReference
       /\ \/ workflow' \in {"SUSPENDED", "STOPPED"}
          \/ capture'.generation > capture.generation]_vars

\* The end of an incident is a verified recovery or somebody's decision.
IncidentsEndInOrder == ResolvedByVerification /\ UnresolvedIncidentKept

\* What a command binds to never changes under an unchanged state_version, so
\* a command issued for the old state is recognised as stale.
VersionCoversState ==
  [][<<workflow, mode, suspension, incident, phase, adjustment, advice, baseline, probe>>' #
       <<workflow, mode, suspension, incident, phase, adjustment, advice, baseline, probe>>
     => version' > version]_vars

\* event_version grows with every revision of an incident, and an event
\* identity is never used again for another incident.
EventVersioned ==
  [][/\ incident'.id = incident.id /\ incident' # incident => incident'.version > incident.version
     /\ incident'.id > 0 /\ incident'.id # incident.id => incident'.id > counters.incident]_vars

\* A client that compares versions misses no change, of the session or of an event.
ChangesAreVersioned == VersionCoversState /\ EventVersioned

\* The comparison target (baseline and mode) changes only in rehearsal, with no
\* unresolved incident or adjustment, and whatever was judged against the old
\* target is cleared in the same step.
TargetChangesClean ==
  [][<<baseline, mode>>' # <<baseline, mode>> =>
       /\ mode = "rehearsal"
       /\ adjustment.id = 0
       /\ incident.id > 0 => incident.state \in {"resolved", "dismissed"}
       /\ incident'.id = 0
       /\ verification' = NoVerification
       /\ frame' = NoFrame
       /\ detector'.count = 0]_vars

-----------------------------------------------------------------------------
(***************************************************************************)
(* What the documents promise and the code does not do; each is refuted by *)
(* a run of its own.                                                       *)
(***************************************************************************)
\* PA_TECHNICAL_DESIGN_V1.md K: LIVE_ANOMALY and ANOMALY_DETECTED show an
\* instrument, its evidence and one suggested action.
AnomalyIsShown == workflow \in {"LIVE_ANOMALY", "ANOMALY_DETECTED"} => HasIncident

\* Every window of a running source is handled: none ends the worker.
WindowsAreHandled == worker # "refused"

\* PA_SHARED_INTERFACES_V1.md: an incident-bound recheck retains its adjustment,
\* and stale audio is inconclusive; so an armed recheck ends in a verification
\* unless the session is suspended, stopped or given another source.
RecheckIsAnswered ==
  [][armed /\ ~armed' /\ HasIncident /\ incident'.id = incident.id
       /\ workflow' \notin {"SUSPENDED", "STOPPED"}
     => verification'.adjustment = adjustment.id]_vars

\* RUNTIME_CHECKPOINT_REVIEW_V1.md: nothing replaces the restart reason, so the
\* new-session requirement cannot be bypassed.
RestartReasonKept ==
  [][suspension = RestartReason /\ workflow' # "STOPPED" => suspension' = RestartReason]_vars
=============================================================================
