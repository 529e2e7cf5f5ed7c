# A verification project for the PA assistant runtime

The system listens to a rehearsal or a concert through one microphone, compares
what it hears with a reference recording, and tells the operator of the mixing desk
which instrument deviates, suggests one adjustment, and checks afterwards whether
the adjustment helped. This directory holds TLA+ models of its runtime, the TLC
configurations that check them on small instances, and proofs that TLAPS checks for
all values of the constants.

## 1. Inventory

| Part | Where | State it keeps | Operations |
| --- | --- | --- | --- |
| PA session | `roles/pa/session.py`, `roles/pa/live_reference.py` | workflow and mode, incident, adjustment, recheck, advice, probe, baseline, detector, capture, `state_version`, `event_sequence`, retained events; the audit, the frames and the audio a baseline may be accepted from, the versions of the baseline | `observe_window`; nine commands through `apply_command`; `apply_probe`; `suspend_for_input`, `suspend_for_runtime_restart`; `expire_live_evidence`, `suppress_for_capture_gap`, `reset_analysis_persistence` |
| Anomaly policy | `roles/pa/policy.py`, `core/runtime/quality.py` | one persistence run per instrument and direction | `observe`, `reset`; the gates of a frame's quality |
| Command handler | `apps/api/commands.py`, `apps/api/probes.py` | none of its own | `handle`: ledger, binding, mutation, commit or rollback |
| Store | `apps/api/persistence.py` | tables `sessions`, `commands`, `deleted_sessions`, audit and baselines | `record_command`, `save_session`, `delete_session`, loads |
| Runtime service | `apps/api/service.py` | sessions, handlers, workers, reference jobs, counters | create, start worker, actions, deletion, reference jobs, event subscription, close, load after restart |
| Live audio controller | `apps/api/live_audio.py` | per session: cancellation token, pending operation, runner thread, worker, analyzer lock, retired workers | `schedule`, `_run`/`_attempt`, `reconcile`, `_watch`, `cancel`, `retire`, `close` |
| Audio worker | `core/runtime/worker.py` | bounded queue of windows, epochs, finished/stop flags | producer `_acquire`, consumer `_analyze`, `stop` |
| Capture pipeline | `core/audio/` | callback ring, sample counter, gap markers, window buffer | callback, `chunks`, `windows_from_chunks` |
| Operator UI | `apps/ui/runtime-adapter.js`, `app.js` and views | session, generation, snapshot, cursor, socket, timer, deleted sessions, calls under way | open, create, command, delete, refresh, connect, handle event, recover; the setup of a song, the preparation of its reference |
| Transport | `apps/api/transport.py` | the job tasks under way | HTTP routes, event socket, shutdown |
| Model loading | `analyzers/bundles.py`, `bundle_validation.py`, `apps/api/config.py`, `core/runtime/calibration.py` | the validated bundle, the opened backend, the bound calibration | validate, accept, revalidate, open, bind, look a score up, close |
| Evidence tooling | `benchmarks/evaluate_artifact.py`, `export_parity.py`, `import_bundle.py`, `training/prepare_calibration_rows.py`, `calibration.py` | files: reports, rows, candidates, evaluations, parity records, bundles | one program for each, run by hand |
| Numerics | `core/runtime/deviation.py`, `core/profiles/`, `analyzers/separation/` | none that outlives a call | estimation, profile building, inference |
| Offline | the rest of `training/`, `benchmarks/`, `scripts/`, `demo_player/` | files | not part of the running system |

How they interact. The UI sends commands over HTTP; the transport runs each one in a
thread, which takes the service's lifecycle lock, the session's lock and the
store's lock in this order. The audio worker has a producer and a consumer thread;
the consumer calls the session's `observe_window` through a callback. In a
*live-reference* session a controller opens and switches sources in a thread of its
own, and a watchdog thread expires evidence. Every change of a session is
written to SQLite before its lock is released, and published as numbered events that
the UI reads over a socket and resumes by cursor. A session of the *legacy* kind
starts with a rehearsal and a baseline and goes on to a live performance; a
live-reference one is live from the start and compares with the reference.

What is hard. Commands bound to an old state, repeated, or answered after a crash;
windows that were captured before a decision and arrive after it; evidence that
spans a gap or a change of microphone; a suspension, a deletion or a restart in the
middle of an adjustment; two source openings in flight; a save that fails after the
session has changed; an event number used twice. `PROJECT.json` lists every such
hazard at its line, with the properties that speak of it.

What makes each part correct:

- *session*: what is shown is what was observed. An incident opens on enough
  adjacent fresh evidence from one source, is never dropped while unresolved, is
  resolved only by audio recorded after its adjustment, and every snapshot obeys the
  contract's state rules and carries a new version when its content changed;
- *handler and store*: each command takes effect once or never, whatever fails,
  and every retry is told the same; deleted sessions stay deleted; nothing shown is
  taken back;
- *a session's memory*: what is in memory is what is stored, whatever was rolled back; a
  stored audit record or baseline is never contradicted; a baseline is of the audio it names, and
  counts what it covers correctly; the audio kept stays within its limit;
- *controller*: only the latest requested source may publish; a stop or a deletion that
  went through is never undone, and no old command that is sent again starts a source (a pause is
  undone by an opening under way, which is a finding); no analyzer is closed while it computes;
- *worker and capture*: no window spans a gap; stale windows are dropped, the newest
  kept; stop ends both threads;
- *events and UI*: an answer or event of an earlier session never enters the current one,
  the screen never goes back; whatever request fails the stream comes back and the cursor
  catches up, and with it the view, unless a request failed that is not repeated; a session
  created for an operator who has left is stopped again;
- *reference jobs*: nothing is called completed, selected or listened for before its
  reference is there, in memory or in the store, and no job stays under way for ever;
- *model evidence*: a confidence is called calibrated only when held-out measurements of the
  very artifact that measures stand behind it.

## 2. Modules

| Module | Models |
| --- | --- |
| `AnomalyPolicy` | `policy.py`, `quality.py` and the outcome of a recheck, as operators on abstract frames |
| `PASession` | one `PASession` with its worker and source: every handler an action |
| `MCPASession` | small instances |
| `PASessionProofs` | types, safety invariants and action properties, evidence |
| `ExactlyOnce` | the abstract command service |
| `CommandLedger` | handler, ledger, writers, deletion and crash around one session; refines `ExactlyOnce` |
| `MCCommandLedger` | small instances |
| `CommandLedgerProofs` | types, inductive invariant, safety, refinement |
| `SourceFence` | the abstract promise: evidence is of the source generation it is shown under |
| `LiveAudio` | the live controller, its runner, workers, watch and analyzer reaper, around one session's capture record; refines `SourceFence` |
| `MCLiveAudio` | small instances, the fair specification |
| `LiveAudioProofs` | types, the fence and its refinement, who owns an input, who is inside the model, who settles a switch |
| `AudioWorker` | one audio worker with its input, ring, queue and framing of windows, thread by thread |
| `AudioWorkerProofs` | types and bounds, windows, losses, room in the queue |
| `Follower` | the abstract promise of the operator's screen |
| `EventStream` | the browser's adapter with its calls, socket and timers, over the event streams of its sessions; implements `Follower` |
| `MCEventStream` | its small instance |
| `EventStreamProofs` | types, the refinement of `Follower`, the cleanup, the repairs |
| `ReferenceJobs` | songs, uploads, reference jobs and sessions in memory and in the store, the job threads, and the browser that asks for them |
| `ReferenceJobsProofs` | types, and what is told, selected and stored is prepared |
| `ModelEvidence` | evaluation, calibration, parity, bundle, review, loading and the decision to show a number |
| `MCModelEvidence` | its small instance |
| `ModelEvidenceProofs` | binning and lookup, what stands behind a shown number |
| `SessionHistory` | what a rehearsal session remembers: audit, frames, audio and baselines, in memory and in the store, with roll-back, deletion, crash and restart |
| `SessionHistoryProofs` | one history in memory and store, the audio of a baseline, its coverage, eviction |

The modules were written in the order of this table. They meet at five places: `PASession` has
the live controller's decisions as steps of its source and `LiveAudio` the session's
capture record; what a committed session is to a client (`CommandLedger`) is what
`EventStream` publishes; a worker that `LiveAudio` starts and stops is an `AudioWorker`;
a session that `ReferenceJobs` creates is one `EventStream` turns to; and an `AcceptBaseline`
of `PASession` is the acceptance that `SessionHistory` takes apart.

What is left, in the order of its worth: a composition of `EventStream` with the
ledger's lost tail (section 3.1); the
validators of profiles as pure operators against a reference definition; a proof that the
session refines an abstract life of an incident; the pair plan (section 5); the liveness of
a session's own workflow, of which the code guarantees little, since it waits for operators
everywhere.

### 2.1 `PASession`: how it corresponds to the code

| Variables | Code |
| --- | --- |
| `workflow`, `mode`, `suspension` | `song["workflow_state"]`, `session_mode`, `suspension_reasons` |
| `incident`, `phase` | `incident` with the first of its evidence windows, `incident_state` |
| `adjustment`, `advice`, `verification`, `armed`, `needFresh` | `adjustment`, `recommendations`, `latest_verification`, `_verification_armed`, `_require_fresh_after_resume` |
| `detector`, `probe`, `baseline`, `frame` | `_detector`, `_probe`, `baseline`, `latest_frame` |
| `capture`, `clock` | `capture` and the operation the controller has under way; the source's clock id and origin |
| `version`, `counters` | `state_version`; the counters of events, adjustments and the like |
| `worker`, `delivered`, `now` | the audio worker as the session sees it, the last window handed over, the monotonic clock |
| `brokenAt` | a history variable: when evidence was last interrupted |

`ObserveWindow` is one action with a disjunct for each way out of `observe_window`:
suspended, before a probe's cutoff, dropout, waiting, refused, proactive answer,
verification, opening, retiring, quiet, and the first one after a resume. Commands are
`StartAdjustment`, `CompleteAdjustment`, `Recheck`, `FreeRecheck`, `AcceptBaseline`,
`StartLive`, `Dismiss`, `Pause`, `Resume`, `Stop` and `SwitchMicrophone`, each with the
guard of `_authorize_action` and the whole of its handler, transition included. The
others are `ApplyProbe`, `SourceEnds`, `DeleteFails`, `Restart`, `OpenSource`,
`SourceReady`, `SourceFailed`, `CaptureGap`, `ExpireEvidence`, `NotePcm`,
`AnalysisGap` and `Tick`.

What is abstracted: a frame is its interval, its quality and one deviation per
instrument from a small set `Levels`; a window's capture, analysis and delivery take
place in one step but may be late, so arrival time and interval are independent;
identifiers are counters; commands arrive bound to the current version (a stale one
changes nothing and is `CommandLedger`'s subject); a baseline needs a delivered window and
its other quality rules are left out; `snapshot()`'s projection of expired evidence at
reading time is not a change of state. The clock does not restart with the process.
A window whose inference was in flight when the source failed may still be published,
because `retire` gives up waiting after 0.15 s.

Bounds: `MaxTime` bounds `Tick` and `MaxVersion` every step that publishes. Two
windows open an incident (`RequiredFrames = 2`), one more answers a recheck; six
versions and six ticks are enough for an incident, its adjustment and a recheck that
fails or succeeds, with a suspension, gap or switch anywhere between. In the legacy
instance windows are two ticks long and overlap by one, deviations go to both sides
and an adjustment settles for a tick, so that adjacent windows, windows that share audio
and windows that began too early are three different things. The clock bound and STOPPED
make the model stop, so deadlock is not checked.

### 2.2 `CommandLedger`: how it corresponds to the code

| Variables | Code |
| --- | --- |
| `memory`, `disk` | the `PASession` object and its row: version, event sequence, and how often the command under each key took effect |
| `ledger`, `tombstone` | rows of `commands` and `deleted_sessions` |
| `deletion` | `_deletion_requested`, and the moment after a failed deletion cleared it |
| `busy` | the holder of the session lock with its `pre_state` |
| `answers`, `seen` | what handlers returned, the highest event number any client was shown |
| `running` | the process |
| `live` | whether the session has a `LiveAudioController`, chosen at the beginning |

`Apply`, `Refuse`, `Replay` and `Conflict` are the branches of `handle` up to the
transaction; `Commit` and `CommitFails` the transaction; `Return` the answer. A command
holds lifecycle, session and store locks, so nothing but a crash comes between these steps. A
`_persisted` method is `WriterBegins`, `WriterChecks` and `Saves` or `SaveFails`, and
deletion, which holds only the lifecycle lock, may come between any two of them. The
live controller's `persist` is `ControllerBegins` and `Saves` or `ControllerFails`; it
has no rollback. `Crash` throws memory away at any point, `Start` loads and suspends. A
transaction of the store is one step because SQLite makes it one.

Bounds: two keys, three commands (two keys bound to the same version, a key used
for two commands, the second bound to the next version), three events; sessions of both kinds
are in one instance.

### 2.3 `LiveAudio`: how it corresponds to the code

| Variables | Code |
| --- | --- |
| `session`, `deleting` | the session's `workflow_state` and `capture` record (state, source generation, switch result and operation, bound endpoint), its shown evidence; `_deletion_requested` |
| `command`, `history` | the command whose handling is committed and whose reconciliation is still to come, both under the lifecycle lock; the commands that may be retried |
| `switching` | what `_accept_source_switch` remembers: the endpoint to fall back to, whether it was paused |
| `token`, `pending`, `scheduled` | `cancel_tokens`, `pending_operations`, `scheduled_keys` |
| `runner` | the source-open thread: where in `_run` / `_attempt` it is, its operation, candidates left, the generation it allocated |
| `registered`, `worker` | `api.workers[session]`; every `AudioWorker` ever started with its input and consumer |
| `analyzer`, `lock`, `reaper` | the session's analyzer, `analyzer_lock` with the generation inside, the analyzer-reap thread |

The threads are those of the code. The *command thread* handles a command in one
transaction (`Pause`, `Stop`, `Resume`, `Switch`, `Retry`, `Delete`) and, in a later step,
reconciles or finishes it (`Reconcile`, `DeleteSucceeds`, `DeleteFails`): other threads
run in between. The *runner* takes the latest operation (`Take`), reloads a
failed model under the analyzer lock (`Load`, `Swap`), allocates a generation and
binds its clock in one session transaction (`OpenCandidate`, `OpenPrevious`), registers the
worker, starts it, waits for PCM, publishes, closes, falls back or fails (`Register`,
`Start`, `Started`, `Wait`, `Bind`, `Close`, `Fail`, `NothingOpens`) and leaves (`Leave`, then
`Dies`, because `reconcile` asks whether the thread is alive). Each worker's *consumer*
asks for the model, begins under its lock, gives up, infers, publishes and ends (`Ask`,
`Begin`, `Abandon`, `Infer`, `Publish`, `Ended`); its *producer* delivers PCM and ends (`Pcm`,
`SourceEnds`). The *watch* notes PCM and withdraws evidence, the *reaper* closes the model.
`Restart` ends all of them and loads the session.

What is abstracted: a generation also names its worker, clock and input. The finite
wait for the first PCM may end at any time. A consumer is followed through one window at a
time. A worker that was told to stop, is idle and has nothing to report is
forgotten. Whether a result is fresh at publication is left open, and so is which
of the microphone's endpoints exist (`Candidates` bounds how many). Durable commits
succeed here; those that fail are `CommandLedger`'s, but for a deletion's. `history.dropped` remembers, for the
properties only, the switch that was pending when the store last refused a deletion. `close()` at process shutdown and the
diagnostic lists are left out.

Bounds: `MaxCommands` first uses of a key (retries are unbounded), `MaxRestarts`, and
`Candidates`. Two commands give every pair, such as a stop over a switch under way, and a
retry of the first after the second. With one candidate and the previous endpoint an
operation already makes two attempts. `live_audio` has no faults, and deletions that the
store refuses; `live_audio_liveness` has one command with a file that ends, a model that raises, and a
deletion that succeeds or is refused: `Faults` and `Deletions` say which of them an instance has.
`MaxGeneration` only ranges over the fairness conjuncts; no generation of the liveness
instance is above it. A run may end with nothing left to do, so deadlock is not checked.

Fairness (`MCLiveAudio!FairSpec`): commands that were started are finished, the runner
runs, model calls return and their consumers go on, a consumer that was told to stop or
whose source ended leaves, a waiting reaper gets the lock when it is free. Each is
a running thread of the process or a call with a finite timeout, and weak fairness is
enough because no step of another thread disables one of these again and again. Nothing
is owed by operators, by a source (PCM need never come), by the watch or by the process.

### 2.4 `AudioWorker`: how it corresponds to the code

| Variables | Code |
| --- | --- |
| `input` | the input object: blocks recorded, next sample position, fault counter, whether it is stopped, open, failed. `lost` is a history variable: the moments no packet carries |
| `ring` | `NativeMicAudioInput._queue` |
| `worker` | the worker's `_stop`, `_finished`, `error`, `dropped_windows`, the pipeline's gap counter; how often `on_end` was called |
| `queue` | the worker's `_queue` |
| `producer` | where `_acquire` is; the run, its last packet and the buffer of `windows_from_chunks` |
| `consumer` | where `_analyze` is; its window, the one published before, what it found out of them (`physical_gap`, `analysis_gap`) and the counters it remembers |
| `stopper` | the thread in `stop()` |

The *driver's* thread is `Callback` and `CallbackFails`. The *producer* pulls a packet
or a block of a file (`PullPacket`, `PullBlock`), ends with its source (`SourceEnds`), and
puts a window: `Put` finds room or not, `Evict` takes the oldest out, `Count` counts it,
`Offer` tries again; then `Finish` and `ProducerCloses`. The *consumer* takes a window
(`Take`, `AfterTake`) or none (`Empty`, `AfterEmpty`), leaves out all but the newest
(`Drain`) and one that is too old (`Outdated`), looks at it (`Check`), tells the session of a
gap (`TellGap`) and infers and publishes (`Infer`, `Publish`) unless refused or failing
(`Refused`, `Fails`); at its end it closes the input and tells the session (`ConsumerCloses`,
`Tell`). `Stop` and `StopCloses` are the two steps of `stop()`, which then only waits, for
a limited time. Every step that reads or writes something another thread uses is an
action of its own, so the consumer may take a window between the producer's finding the
queue full and its evicting one.

What is abstracted: audio is counted in blocks of the driver, a window is the moments it
was recorded at, resampling and energy are left out. Timeouts may come at any time
(an empty queue, an outdated window, a result that is too late, a source that is silent). The
driver loses blocks one by one, and each loss shows in its status or its clock: that is what
`_callback` relies on, and an unnoticed loss is beyond any check in this code. Either may
also report a gap where nothing was lost. How a source is opened and the worker started
is `LiveAudio`'s subject.

Bounds: a ring and a queue of one are full as soon as anything is in them, which is when
they are dangerous; windows of two blocks with a hop of one overlap and can be
interrupted; five blocks with one fault give three windows before or after it. The proofs
hold for all sizes. `LiveReference = FALSE` is the more permissive case: with it the live
controller only refuses more results, so `Publish` has fewer steps. The recording has an end
(`MaxBlocks`) and a stopped worker rests, so deadlock is not checked.

Fairness: the producer and the consumer run, calls of the model and of the session return,
and a `stop()` that has begun closes the input. The driver owes nothing (a silent source
ends by a timeout, which is `SourceEnds`), and nobody is obliged to call `stop()`.

### 2.5 `EventStream`: how it corresponds to the code

| Variables | Code |
| --- | --- |
| `server` | each session as the service has it: there or not, `event_sequence`, the retained events (numbers, and which of them carry a snapshot) |
| `adapter` | the `RuntimeAdapter`: `activeSessionId`, `generation`, `snapshot`, `cursor`, `reconnectTimer`, `stopped`, `deletedSessionIds`, and what `onConnection` was told last |
| `socket` | `this.socket` with the server's end of it: phase, position of the stream, events on the way |
| `calls` | the async functions suspended at an `await` and the timers that are set, with what each has read before it and the answer it waits for |
| `used` | what the operator has done and what has failed so far; for the properties only, the visit whose opening failed, and the one whose refresh failed after the last event it took up |

A step is what JavaScript runs between two awaits. An awaited function is a *task*: `open` and
`openProbe` (`openSession`), `event` (`handleEvent` of an event that is no snapshot), `timer`,
`recover` and `recoverProbe`, `command`, `delete`, `create` and `stop`
(`createLiveReferenceSession`, `stopUnadoptedSession`). The service answers it (`Answer`,
`AnswerDelete`, `AnswerCreate`, `AnswerStop`) or the request fails (`Lost`), before or after it
had its effect, and the rest of the function is the action named for it (`Opened`,
`Refreshed`, `Recovered`, ...). The socket is accepted (`Accept`: 4404 for a session that is
gone, a refusal of a cursor ahead of the session), read out (`Poll`, which publishes a snapshot
when the position is no longer retained), breaks (`Break`), delivers (`Message`) and closes (`Closed`).
`Publish` is a session that goes on, `DeletedElsewhere` another browser. The
operator is `Open`, `Create`, `Command`, `Delete` and `Leave`.

What is abstracted: a state is its `event_sequence`, for the state version moves only together
with it, and a snapshot's `source_generation` is ordered as it is; of probes only the
waits remain. What a service publishes is taken to be stored. `Losable` names the
tasks whose requests may fail; in the run it is all of them, an opening and the refresh after
an event among them.

Bounds: two sessions, one of them to be created; one retained event, so that a stream two
events behind has missed one; two events a session; two things the operator does, which
include turning to the other session and returning or leaving while anything is under
way; one fault; three calls and timers at a time (an action that needs a fourth waits: a
`Message` would start one of these only after an earlier event of the same stream). The
operator may leave and the sessions end, so deadlock is not checked.

Fairness: the service answers, the stream is polled and delivered, timers fire and what has
arrived is taken up. These are the browser's event loop and the server's; a request
that is never answered is one that fails after a timeout of the network. Operator, sessions
and faults owe nothing.

### 2.6 `ReferenceJobs`: how it corresponds to the code

| Variables | Code |
| --- | --- |
| `mem` | `RuntimeAPI`'s `projects`, `songs` (`pending_reference_job_id`, `reference_id`), `assets`, `jobs`, `references` |
| `disk` | the payload `save_runtime_state` stored last |
| `sessions` | the stored sessions, with song and reference |
| `runs` | where the thread of each job is in `run_reference_job` |
| `client` | the browser: the stage of `setup`, `reprepareReference` or `startRepreparedSession`, whether its request is being saved, the song and job it names, the session it listens to |
| `service`, `used` | the process; failed saves and crashes so far |

A request is two steps: the handler changes memory (`CreateProject`, `CreateSong`,
`UploadAudio`, `StartJob`, `CheckSession`), then the save and the answer (`Saved`,
`CreateSession`), or the save fails (`SaveFails`) and memory keeps the change. Nothing but a
single save is locked, so the steps of a job (`Begin`, `Save`, `Build`, `Keep`, `Check`,
`Choose`, `Complete`), each a line of `run_reference_job`, come between them and between those of
other jobs, and any save takes all of memory. A crash (`Crash`) throws memory and threads
away, a shutdown (`Shutdown`) waits for requests and threads, `Restart` marks jobs that were
under way as failed and saves. The browser goes on as it is told (`Told`), gives up (`GiveUp`) and
starts over (`Again`), and with a session on the screen prepares its reference again
(`Prepare`) and starts a new session with it (`StartAnew`).

What is abstracted: identities are numbers, a reference has its job's; whether audio decodes, a
model opens and the analysis succeeds is left open; references and the models they
were made with are one step; of `create_session` what is checked of capture and source is one
refusal, and its worker is not started. The old session that `startRepreparedSession` stops is
not followed.

Bounds: two songs, three jobs, one failed save and one crash or shutdown. Two jobs
of one song race for its selection and a third of another song saves in between. The bounds
on songs and jobs end a run, so deadlock is not checked. The proofs hold for all bounds.

Fairness: a request that has changed memory is saved and answered, and threads run. Nobody
has to ask, to retry or to start the service again; `JobsEnd` excuses a service that is down,
and saves that failed.

### 2.7 `ModelEvidence`: how it corresponds to the code

| Variables | Code |
| --- | --- |
| `made` | the records the programs wrote: `report`, `rows`, `candidate`, `evaluation`, `parity` |
| `bundle`, `there` | the manifest in the configured directory; the runtime artifact whose bytes are there |
| `review` | the host's settings: the accepted manifest and the pinned calibration |
| `analyzer` | how far the runtime has loaded the bundle, with which settings, manifest and artifact |
| `shown` | the bin behind the calibrated confidence of the last frame |

`Evaluate`, `PrepareRows`, `Fit`, `EvaluateCandidate`, `Compare` and `Import` are the programs,
each a whole one: they read what is there, check it and write a record. `Overwrite` is
somebody copying a later export over the bundle's. `Review` is the host. `Start` to `Bind` are
`load_bundle` and the binding of a calibration, between whose checks the directory may
change; a failed one is `Close`. `Analyze` is a frame: `Confidence` is what
`ApprovedCalibration.evaluate` and `FrameBuilder.build` make of its score.

What is abstracted: a record's hash is the record, so that checks of hashes and
identities are equality, and schemas and lineage hold by construction; a dataset is its groups by
split and whether it is real and no example; one event, family and regime stand for all, and
a group has one case; a bin's evidence is its count, for probability and interval width
are held against their thresholds in the same way; what a version measures of a case is the
same each time. A directory is only overwritten with a later version, never put
back.

Bounds: `Room` (two reports, two rows, two candidates, an evaluation, a parity record: one
artifact and split each of the evidence and of what could be mistaken for it), two
versions, a dataset, the same material split anew and one that leaks a group; three scores,
which lie on the edges of the bins; two rows a bin must count, which the last bin of the first export has
and that of the second, which lost one of them, has not; bundles carry no evidence or one record of each kind
(`Manifests`). A directory whose records are all written may be left alone, so deadlock is not
checked. The proofs hold for any datasets, scores, edges and versions.

### 2.8 `SessionHistory`: how it corresponds to the code

| Variables | Code |
| --- | --- |
| `memory` | of a `PASession` what `export_state` and `restore_state` move: `_audit_total`, the `audit` list, the baseline store's profiles and the version in use, the frame counter and `_frames` with their audio hashes, the mode, and of the workflow what lets an operation in |
| `windows`, `pcm` | `_baseline_windows` and `_baseline_pcm_samples`, which are not part of that state |
| `op` | the operation that holds the session lock: whether it is scanning frames or about to be written, whether it is a command, memory before it, the frames chosen |
| `scan` | the local variables of `build_baseline_profile` |
| `row`, `archive`, `shelf`, `deleted` | the session's rows in `sessions`, `session_audit`, `baselines` and `deleted_sessions` |
| `up`, `dying` | the process; `_deletion_requested` |

An operation takes the lock, changes memory (`Adjust`, `StartLive`, `Pause`, `Resume`, `Stop`,
`ObserveLive`, `ObserveRehearsal`, `Accepted`), and is written (`Save`), too late for a
deleted session (`SaveTooLate`), or rolled back (`SaveFails`). An acceptance chooses frames
(`Accept`), goes through them one by one (`ScanFrame`) and is rejected (`Reject`) or makes a
profile (`Accepted`). `AskDelete`, `Delete` and `DeleteFails` do not take the session lock
and come between any two of these, and so does `Crash`; `Restart` loads the row, suspends the
session and writes it.

What is abstracted: the content of a record, a frame or a profile is the number of the
change that made it, so that two contents are equal only if made at the same time, which is what the refusals
of the store compare. The analyzer is a real one (an example keeps no audio). A frame begins one
hop after the last, and a hop longer than a window stands for a gap or a new recording. A frame
that a baseline may not use, of a probe or of poor quality, is a `Reject`. Workflow, incidents and probes are
`PASession`'s, answers and versions `CommandLedger`'s.

Bounds: four changes with a content of their own (commands that only move the workflow are
unbounded), a window of two samples with hops of one, which overlaps, and of three, which
leaves a gap; room for three windows and a half, so that the third and fourth are the ones for
which others must go; two audit records kept in memory, so that the third drops one. One
roll-back and three windows after it reuse every number. A deleted session, or one whose
service is down, may stop, so deadlock is not checked. The proofs hold for all bounds.

## 3. What the runs show

| Run | Instance | Result |
| --- | --- | --- |
| `pa_legacy` | 1 instrument, deviations {-1,0,1}, legacy workflow, windows of 2 ticks, 6 ticks, 6 versions | 173,451 states: all properties hold |
| `pa_live` | 1 instrument, levels {0,1}, live reference, 4 ticks, 7 versions | 774,933 states: `OwnSourceEvidence` holds |
| `ledger` | 2 keys, 3 commands, 3 events, with and without a controller | 437,207 states: all hold, and `ExactlyOnce` is implemented |
| `live_audio` | 2 commands and their retries, 1 restart, 1 candidate, refused deletions, no faults | 1,825,804 states: all properties hold, and `SourceFence` is implemented |
| `live_audio_liveness` | 1 command, a file that ends, models that raise, deletions done or refused; fair threads | 310,728 states: switches settle, stopped and deleted sessions come to rest |
| `audio_worker` | microphone or file, 5 blocks, 1 fault, ring and queue of 1, windows of 2 blocks, hop 1; fair threads | 501,738 states: windows are whole, losses and skips are told, both threads end |
| `event_stream` | 2 sessions, 2 operations, 1 fault (any request, or the stream), 2 events each with 1 retained, 3 calls; fair service and browser | 554,570 states: `Follower` is implemented, repairs are in hand, the stream catches up, and the view unless a request failed that is not repeated |
| `reference_jobs` | 2 songs, 3 jobs, 1 failed save, 1 crash or shutdown; fair threads | 123,225 states: nothing is told before it is there, every job ends |
| `model_evidence` | 2 artifacts, 3 datasets, 8 records, 2 rows a bin at least | 524,299 states: numbers are backed, rows are found |
| `session_history` | 1 instrument, 4 changes, windows of 2 samples with hops 1 and 3, 3 frames, 2 audit records and 7 samples kept | 1,789,358 states: memory and store hold one history, baselines are of their audio and counted exactly, eviction ends |
| `pa_probe_window` | legacy | violated: the first window after a guided probe stops the worker |
| `live_audio_pause_lost` | 1 command | violated: a pause between two transactions of the runner leaves the session listening |

The violated ones are the findings of `PROJECT.json`; each quotes the line of the
repository that says otherwise.

`ComesToRest`, `SwitchSettles`, `EndsForAll`, `CatchesUp` and `JobsEnd` assume fairness (each
module's section says which); all other properties are safety or the refinement of a
safety specification.

The session's properties:

- `SnapshotAccepted`: `validate_snapshot`'s state rules hold after every handler (one
  that fails validation is rolled back and stops the worker: `WindowsAreHandled`);
- `PartsAgree`: the redundant parts of the state agree. `PhaseAgrees`: incident, its phase
  and the workflow; `AdviceBound`: advice is for the incident shown; `ArmedRecheck`: a recheck
  that waits has a finished adjustment to judge; `ProbeInIdleRehearsal`: a probe runs in
  a rehearsal without an adjustment only;
- `OpensOnUnbrokenRun`, `OwnSourceEvidence`: an incident rests on adjacent fresh windows, of
  the selected source (`EvidenceUnbroken`, that a run of deviations holds no break, is a
  lemma of the proofs);
- `IncidentsEndInOrder` (`ResolvedByVerification` and `UnresolvedIncidentKept`),
  `TargetChangesClean`: what no step may do;
- `ChangesAreVersioned`: decision state never changes under an unchanged version
  (`VersionCoversState`), nor an event, and no event's identity is used twice
  (`EventVersioned`).

The ledger's are `OneEffect`, `OneAnswer` (`AnswersAgree`, that retries are told the same,
and `OneWinner`, that of two commands bound to one version one is applied),
`StoreKeepsUp` (`SeenIsDurable` and `WriteThrough`, of a session without a live
controller) and the refinement `Promise`. That a deleted session stays so (`Buried`) is
proved, and no run repeats it.

The live controller's:

- `FreshIsCurrent` and the refinement `Fenced`: what is shown fresh is of the generation and
  clock in use, however late an inference returns;
- `Ownership`: a model is neither replaced nor closed under a consumer
  (`ModelInUseStaysOpen`); one input is open at most (`OneDevice`), always with someone who
  will close it (`NoOrphanDevice`, both in `InputsOwned`), and none once a halted session
  has come to rest (`HaltReleases`);
- `PendingIsServed`: a pending switch has somebody who settles it, through overtaken operations,
  faults and restarts; the one exception is named in it, a deletion that the store refuses after it
  has dropped the switch, which leaves the session suspended and the switch pending;
- `SwitchSettles`: under fairness an accepted switch is settled, unless a deletion was asked for
  (for the same reason);
- `HaltsForGood`: a stop and a deletion that went through are final (`StopIsFinal`), nothing but a
  pending switch is scheduled for a halted session, whatever is retried (`NoResurrection`), and a switch
  handed to the runner is not handed to it again (`SwitchRunsOnce`). It does not say that a
  pause ends an opening under way: that is `PauseHolds`, which is violated;
- `ComesToRest`: after a stop or a deletion inputs are released and the model closed, for good.

The audio worker's:

- `WindowsAreWhole`: no window runs across audio the driver lost or the ring had no room for,
  although positions, not moments, are all the code compares;
- `LossIsTold` (`LossIsMarked` and `SkipsAreTold`): of two windows published in a row the second carries a
  dropout when audio between their beginnings was lost, and follows a told gap when analysis
  of some was left out, whoever dropped it and between whichever steps of the consumer;
- `AcquisitionGoesOn`: the producer's second put finds room, although the consumer and it both
  take from the queue;
- `EndsForAll`: whoever ends the worker, both threads leave, and unless it was stopped the
  session is told.

The event stream's:

- `Follows` (the refinement of `Follower`): the screen follows one session, shows states it
  really had, never an older one after a newer within a visit, and never a deleted session,
  however late and in whatever order answers come;
- `RepairInHand`: whatever request fails, a watched session without a stream has a call of this visit
  under way that will connect one; and while the view is behind the events taken up a refresh
  is under way, unless the refresh after the last event has failed, or the opening of the visit:
  the code asks once in both cases (`ViewIsRefreshed`, section 3.1);
- `UnusedIsStopped`: the cleanup of a session nobody wants gives up only when the session has
  changed under each of its four attempts;
- `CatchesUp`: under fairness, and whatever requests fail, a watched session again and again has
  an open stream with all its events taken up, and a view of the last of them, with the same exception.

The reference jobs':

- `PreparedBeforeTold`: in memory and in the store, whatever thread saved it, a completed job, a
  song's selection and a stored session have their reference, and a selection is of its song;
- `JobsEnd`: under fairness and while saves succeed, every job ends, if need be by the
  restart that finds it interrupted.

The model evidence's:

- `NumbersAreBacked`: a frame that calls its confidence calibrated was measured by the
  reviewed artifact, the bin it quotes counts enough real rows of that artifact, from groups it
  was neither trained nor tested on, and the same artifact was evaluated on the test groups;
- `RowsAreFound`: the lookup, which closes the last bin that was kept, finds every row the fit
  was made of where the fit, which closes the last bin that was configured, counted it. It speaks of
  fitted rows only: a score met at run time on the lower edge of an empty last bin is found in
  the bin before (`core/runtime/calibration.py:58`), where the fit would not have counted it.

The session history's:

- `OneHistory` (`MemoryIsStored` and `NeverContradicts`): with no change waiting to be written memory is
  what a restart would load, the tables hold every audit record under consecutive indices
  and every version of the baseline; and no write contradicts what is there, although indices and
  versions are given out again after a roll-back;
- `ContextIsOfItsAudio`: the context of a baseline was prepared of the audio whose hashes it names,
  although a frame's identity is used again and the audio is not rolled back with it;
- `CoverageIsExact`: one pass over the frames counts every sample once, and the largest
  number of windows that do not overlap;
- `EvictionEnds`: the audio kept stays within its limit and the loop that drops the oldest
  always has one to drop, although its count is not rolled back.


### 3.1 Met, but without a run

While modelling, more disagreements turned up than runs are spent on. Those of the first
table are stated as properties of their modules, with the sentence they contradict; checking one as an
INVARIANT or PROPERTY of the instance named gives the counterexample.

| Property | Instance | What happens |
| --- | --- | --- |
| `PASession!AnomalyIsShown` | `PASessionLegacy.cfg` | the window after a dismissal drops the incident (`session.py:701`) and leaves the workflow in ANOMALY_DETECTED |
| `PASession!WindowsAreHandled` | `PASessionLive.cfg` | a recheck without an adjustment sets REHEARSAL in a live session (`session.py:827`), the contract refuses it and the worker stops |
| `PASession!RecheckIsAnswered` | `PASessionLive.cfg` | expiry of evidence disarms a recheck that waits for its answer (`session.py:265`) |
| `PASession!RestartReasonKept` | `PASessionLegacy.cfg` | a failed deletion overwrites the restart reason (`session.py:486`), and resume is accepted |
| `LiveAudio!AppliedWasRun` | `LiveAudio.cfg` | an opening under way publishes between a switch's handling and its reconciliation and is reported as that switch, which never runs (`live_audio.py:310`, 326) |
| `LiveAudio!StartingIsServed` | `LiveAudio.cfg` | a resume meets a runner that is alive and about to leave (`live_audio.py:334`); nothing is scheduled |
| `LiveAudio!ListeningIsCapturing` | `LiveAudio.cfg` with `Faults = {"error"}` | a capture fails before its opening is published, a resume comes in between; the session listens without a worker (`live_audio.py:305`) |
| `LiveAudio!SuspendedShowsNothing` | `LiveAudioLiveness.cfg` | an opening or a window published after its source ended overwrites `unavailable` while the workflow stays SUSPENDED (`live_audio.py:304`) |
| `EventStream!ViewIsRefreshed` | `EventStream.cfg` | the refresh after a frame fails (`runtime-adapter.js:376`, 382): the cursor has moved, nothing asks again, and the view stays behind it over an open stream until the next event; `docs/implementation/CHECKPOINT_1_INTEGRATION.md:70` counts "frame-only event refresh" among what is resolved |
| `LiveAudio!ResumeServed` | `LiveAudio.cfg`, 3 commands | a resume overtakes the opening of a switch accepted while paused, whose operation still remembers paused (`live_audio.py:307`, 335) |
| `CommandLedger!NumbersNotReused` | `CommandLedger.cfg` | a save that fails under the live controller, which does not roll back (`live_audio.py:69`), and a crash give an event number twice; `contracts/PA_SHARED_INTERFACES_V1.md:180` has them identify events |
| `SessionHistory!NewAudioIsKept` | `SessionHistory.cfg` | a write that fails rolls the frame's number back but neither its audio nor the count of samples (`session.py:669`): the number is used again, its entry replaced and its samples counted twice. With each such failure the room for audio shrinks by a window, in the end to none; an acceptance is then refused with "capture a new rehearsal interval" (`session.py:979`), which does not help |
| `AudioWorker!UndamagedIsCurrent` | `AudioWorker.cfg` with `LiveReference = TRUE` | a capture fault while the consumer waits for the model is neither in its look at the window nor after the epoch it remembers (`live_audio.py:253`) |

One more is told by the exception in `PendingIsServed`, which `live_audio` reaches: a refused deletion
has already dropped the pending operation (`service.py:729`), so that the switch stays pending and later
ones are refused until the session is resumed, paused, stopped or restarted. `SwitchSettles` excuses
a session whose deletion was asked for because of it.

Of the browser, of reference jobs and of model evidence, these were met while writing the modules; where
the model leaves one out, its section says so.

| Where | What happens |
| --- | --- |
| `runtime-adapter.js:166` | the catch clause of `openSession` compares the session but not the generation: the failure of an earlier opening closes the stream of a later one of the same session and stops it, and nothing follows the session any more; `Watched` ends there |
| `runtime-adapter.js:352` | an operator who leaves while a session opens finds `stopped` cleared again by `connect` |
| `runtime-adapter.js:386` | after a deletion elsewhere that the socket did not tell, `recover` meets 404 and goes on for ever |
| `live_audio.py:68`, `transport.py:193` | a save that fails and a crash after it leave the browser's cursor above the server's `event_sequence`; the socket is closed with 4409 at each attempt until the session has overtaken it |
| `service.py:519` | the song is asked whether it awaits this job and then told its reference; a newer job that starts and completes in between is overtaken by the older one |
| `service.py:469`, `service.py:522` | a save that fails leaves the job queued, or running, in memory, where nobody runs it; `JobsEnd` excuses failed saves for this |
| `service.py:521` | "completed" can be read before it is saved: after a crash the browser has been told of a reference that is not there, and starting anew with it is refused |
| `evaluate_artifact.py:44` | the evaluated bundle is not validated again after its backend has opened it, as `load_bundle` does; `Evaluate` takes it to be unchanged |
| `bundles.py:61` | an acceptance asks for a benchmark of the test split and for a parity record; neither need be of the calibration that is reviewed with them |

## 4. What is proved

All theorems hold for any sets of instruments, keys, requests, datasets and edges and any
bounds that the named assumptions `PolicyAssumption`, `SessionAssumption`, `LedgerAssumption`,
`LiveAudioAssumption`, `AudioAssumption`, `StreamAssumption`, `JobsAssumption`,
`EvidenceAssumption` and `HistoryAssumption` allow.
`PROJECT.json` lists them.

- *Session.* `TypeCorrect` proves the types, one lemma per group of handlers. The safety
  invariants are proved together as `SafetyInv`, their conjunction with what makes it
  inductive: `Bookkeeping` (the counters cover the identifiers in use, evidence lies
  before the last delivered window) and three parts, `ValidWorkflow`,
  `ValidAdjustment` and `ValidCapture`, which say what the workflow, the adjustment and
  the source require of one another. `SnapshotAccepted` is not inductive by itself: a
  handler sets workflow and incident at different moments of a session's life, and that
  its snapshot passes the validator depends on the state an earlier handler
  left. Each action property follows from `SafetyInv` and one case per handler.
  `OpensOnUnbrokenRun` needs `RunShape`, that a run of n windows began at least n
  window lengths ago, and `OwnSourceEvidence` that no run reaches back before the
  clock of its source.
- *Ledger.* `LedgerInv` states, for each holder of the lock, how memory, disk and ledger
  differ: under `command` only memory has changed and only by that command; under
  `answer` the ledger holds its decision; under any other holder both have seen the
  same effects. With `Winners` (an applied command's bound version lies below the
  stored version, which is why two cannot win) it is inductive, and gives the four
  invariants. `KeepsThePromise` maps `Commit` to `Decide`, `Replay`, `Conflict` and
  `Return` to `Answer`, `DeleteCommits` to `Forget`, and every other step to a stutter.
  `TheStoreKeepsUp` speaks of sessions without a live controller (`LiveKept`: a session that
  has none never gets one): with one it is false, as `NumbersNotReused` shows (section 3.1).
- *Live controller.* `IInv` joins the types with `Truthful` (evidence shown is of the
  claimed generation and clock), `ClockKnown` (a generation that has a worker is on its own
  clock), `Issued` (no operation carries a token that was never given out) and
  `Owned`, which says for each place the runner can be at who may have an input open:
  nobody while it loads or opens, its own attempt while it starts, waits, publishes and closes,
  the registered worker otherwise; and that an attempt whose token is not cancelled
  is registered. From it follow `EvidenceIsCurrent`, the first part of `OwnershipHolds`, and,
  because every step moves the session as `Supersedes` or `Continues` allow,
  `ImplementsFence` and `HaltsAreForGood`. `HaltsRelease`, its second part, adds `Released`: a halted or deleted
  session that still has a registered worker has a pause or stop to reconcile or a runner
  attending to that worker.
  `ModelStaysOpen`, its third, needs four more: `Closing` (only a stopped or deleted session's model is
  closed or left to the reaper), `Numbered` (tokens of workers are older than the one
  requested, so that a model exchanged for a new operation is none a current consumer asked
  for), `Phased` (a worker about to start runs no thread yet) and `Using` itself.
  `PendingServed` needs `Keyed` (keys in use were issued, so that a new switch differs from
  the one last scheduled) and `Settling`: a session with a pending result runs, and its
  switch is `Awaited` (its command holds the lifecycle lock and has not been scheduled) or `Pursued` (the
  current token is not set, and the operation that carries it is next for an active runner or under
  way and not yet kept), or was `Dropped` by a deletion the store refused, after which the
  token stays set and the session unavailable until a command ends the result; and `Cut`: whoever
  deletes has cancelled first. It has no hypothesis but the module's assumptions.
  These theorems hold for any number of commands, restarts, candidates and generations.
- *Audio worker.* The code compares sample positions, the properties speak of moments. `Stream`
  joins them: along everything the driver has handed out and will hand out positions and
  moments both grow, and a step of one position is a step of one moment. So the producer's
  buffer holds consecutive moments none of which was lost (`Framing`), and any two windows of
  one run differ in position as they differ in moment, with nothing lost between them
  (`Framed`, which needs `Recent` for windows of the run still growing: a later loss lies
  beyond them). `RoomMade` says that whoever made room in the queue still has it, and `Judged`
  that the verdict the consumer carries is about its window and the one before. Together
  with the types they are inductive (`IInvAlways`); `NoWindowIsBroken`, `LossesAreTold`
  and `RoomIsKept` follow, for any capacities, window size and hop.
- *Event stream.* `Basics` joins the types with what is so of the service and stays so: what
  a session retained are its last events, without a gap (`Retained`); view and cursor
  are of the session on the screen and not ahead of it (`Screened`), the stream is of it
  (`Streamed`), what a call has read or been answered was true when it was (`Told`),
  and a session whose creation is not taken up is known to nobody else (`Newborn`). The
  service only goes on (`Grown`), and everything in `Basics` survives that, so each step is
  proved for the browser alone. `FollowsTheSession` and `UnusedStopped` follow. `RepairsInHand`
  adds `InHand`: for a followed session the view covers what was taken up or a call that will
  show as much is under way (`ViewInHand`), and there is a stream or a call that will connect
  (`StreamInHand`). Any request may fail in it; that the opening of the visit, or the refresh
  after its last event, has failed is the exception `RepairInHand` names (`NotRepeated`).
- *Reference jobs.* A store is `Good` when its numbers name one another's entries, a completed
  job has its reference and a selection has a reference of its own song. Each handler and each
  step of a job keeps a good store good and takes nothing away (`Extends`); one lemma for each
  says so of any store, so that it serves memory, the store and the restart alike.
  `Inv` adds that the store is behind memory (so that a crash, which makes memory
  the store, leaves both good), that a thread past the building has left its reference in
  memory (without which `Choose` and `Complete` would tell too much), that the browser
  names nothing that is not stored, and that nothing runs while the service is down.
  `PreparedIsTold` and `TypesHold` follow.
- *Model evidence.* `BinsAreDisjoint` and `BinsCount`: of increasing edges a score is in one bin
  at most, so that the kept bins with what they counted are what `Found` finds
  (`CountedIsFound`, `FoundIsCounted`); this gives `RowsAreAlwaysFound` for every list of edges, with
  empty bins left out anywhere. `NumbersAreAlwaysBacked` needs `Grounded` (every record was
  made from records that were there, of the same artifact and dataset), `Filed` (the
  bundle's evidence was made and concerns it, its artifact is none later than what is
  there) and `Bound`: what the backend opened lies between the bundle's artifact and the
  directory's, so that a directory that still looks unchanged afterwards was unchanged when it was
  read.

- *Session history.* `Inv` has five parts. `MemoryInv`: memory and the copy kept for a roll-back are
  `Sound`, their audit numbered up to its total, their profiles up to the version in use, their
  frames in order of their beginnings. `StoreInv`: with nothing waiting memory is the row; while a
  change waits, the copy is, and memory extends it, which is why no write can contradict
  a table, whatever was rolled back before. `AudioInv`: a window that is held under a frame's
  number was recorded for the frame that has it now, so that hash and context agree.
  `ChoiceInv`: frames under scan are in memory and in order. `ScanInv`: what has been
  counted of the windows so far is the number of samples they cover, and the choice of the
  earliest end is a largest one without overlap; the step from one window to the next is proved with
  cardinalities of intervals, and no induction over the sequence is needed, because the scan is the
  program's own. `OneHistoryAlways`, `ContextOfItsAudio`, `ExactCoverage` and
  `EvictionAlwaysEnds` follow. `HistoryAssumption` asks for at least two audit records in memory
  (the code keeps 128): with one, an operation that makes two would leave a hole in the
  table.

Every invariant and action property that a passing run checks is proved, for all values of the
constants. Only model-checked: the liveness of the live controller, the audio worker,
the event stream and the reference jobs (`ComesToRest`, `SwitchSettles`, `EndsForAll`,
`CatchesUp`, `JobsEnd`), that the instances reach every action
and disjunct, and the findings' counterexamples. Out of the prover's reach, and so left to TLC where
they arise: liveness, ENABLED, and induction over data.

## 5. Not modelled

Numeric estimation (deviation, timing, separation) is an input: the models quantify over
its results. Of profiles the coverage and the acceptance of a baseline are modelled (`SessionHistory`), their
levels and spectra are not; audio files and device handling are I/O and number handling, and
a schema's or a lineage's checks are one condition. Views, texts and hints change no state.
Request decoding, routing, CORS and launching are left out, and so is the live controller's
`close()` at shutdown.

Training, its pair plan, the oracles, probes, readiness and release scripts and the demo
player do not run with the system and keep no state between runs. The pair plan was read:
it draws scenarios with a seeded generator and validates them one by one, a single deterministic
pass over numbers whose correctness is a matter of its output; what was noticed is that a cycle
of several sources over fewer instruments may change fewer than two, and that gains which
agree to six digits give one scenario identity.
