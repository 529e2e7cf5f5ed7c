----------------------------- MODULE LiveAudio -----------------------------
(***************************************************************************)
(* The live-audio controller of one live-reference session                 *)
(* (apps/api/live_audio.py) with the worker threads it starts              *)
(* (core/runtime/worker.py) and the lifecycle commands it reconciles       *)
(* (roles/pa/live_reference.py, service.post_action).                      *)
(*                                                                         *)
(* Threads that interleave here: the command thread, which handles a       *)
(* command in one session transaction and reconciles the controller in a   *)
(* later step, both under the lifecycle lock; the runner, at most one,     *)
(* which opens microphones for the latest requested operation; the         *)
(* consumer of each worker ever started, which infers outside the session  *)
(* lock under the analyzer lock; the watch; the analyzer reaper.  A step   *)
(* is what a thread does between two points where another may run: a       *)
(* session transaction, a lock, a driver or model call.                    *)
(*                                                                         *)
(* Each opening of a source takes a new generation, which also names its   *)
(* worker, its clock and its audio input.  Of a worker's windows only one  *)
(* at a time is followed.  Durable commits succeed (CommandLedger has      *)
(* those that fail).                                                       *)
(***************************************************************************)
EXTENDS Naturals

CONSTANTS
  MaxCommands,    \* bound on the lifecycle commands of a run
  MaxRestarts,    \* bound on the process restarts of a run
  Candidates,     \* most endpoints one logical microphone resolves to
  Faults,         \* what ends a worker by itself: a capture "error", for a file
                  \* its "eof", an exception of the "model"
  Deletions       \* what the store does when asked to delete the session

ASSUME LiveAudioAssumption ==
  /\ MaxCommands \in Nat
  /\ MaxRestarts \in Nat
  /\ Candidates \in Nat
  /\ Faults \subseteq {"eof", "error", "model"}
  /\ Deletions \subseteq {"done", "refused"}

VARIABLES
  session,    \* PASession: workflow state and capture record
  deleting,   \* its _deletion_requested
  command,    \* what the holder of the lifecycle lock has still to reconcile
  history,    \* [issued, applied, restarts]: the commands so far; dropped: the switch
              \* that was pending when the store last refused a deletion
  switching,  \* the accepted switch: [previous (endpoint to fall back to), paused]
  scheduled,  \* scheduled_keys: the last switch handed to the runner
  token,      \* the session's cancellation token: [id, set]; older ones are set
  pending,    \* pending_operations
  runner,     \* the source-open thread and the operation it runs
  registered, \* api.workers: the generation of the session's worker, or 0
  worker,     \* every generation's AudioWorker
  analyzer,   \* [instance, historical, failed, closed]
  lock,       \* the generation whose consumer holds the analyzer lock, or 0
  reaper      \* the analyzer-reap thread: "none", "waiting", "done"

vars == <<session, deleting, command, history, switching, scheduled, token, pending,
          runner, registered, worker, analyzer, lock, reaper>>

\* Groups of variables that a step leaves alone together.
request == <<deleting, command, switching, scheduled, reaper>>
control == <<request, token, pending>>

Actions == {"pause", "resume", "stop", "switch"}
NoCommand == [action |-> "none", key |-> 0]
NoOperation == [token |-> 0, previous |-> FALSE, paused |-> FALSE]
Runner(pc, op, left, rollback, generation, kept) ==
  [pc |-> pc, op |-> op, left |-> left, rollback |-> rollback,
   generation |-> generation, kept |-> kept]
At(pc) == Runner(pc, NoOperation, 0, FALSE, 0, FALSE)

NoWorker == [pc |-> "none", stop |-> FALSE, open |-> FALSE, pcm |-> FALSE,
             fault |-> "none", token |-> 0, instance |-> 0]
NewWorker(t) == [NoWorker EXCEPT !.pc = "new", !.token = t]

Generations == DOMAIN worker
None(n) == [g \in 1..n |-> NoWorker]
Extended(n) == [g \in 1..n |-> IF g \in Generations THEN worker[g] ELSE NoWorker]

\* A created session is scheduled at once; a reopened one waits for a resume.
Init ==
  /\ deleting = FALSE
  /\ command = NoCommand
  /\ switching = [previous |-> FALSE, paused |-> FALSE]
  /\ scheduled = 0
  /\ registered = 0
  /\ worker = None(0)
  /\ lock = 0
  /\ reaper = "none"
  /\ runner = At("take")
  /\ token = [id |-> 1, set |-> FALSE]
  /\ pending = [NoOperation EXCEPT !.token = 1]
  /\ session = [workflow |-> "LIVE", state |-> "starting", generation |-> 0, result |-> "none",
                operation |-> 0, fresh |-> FALSE, shown |-> 0, bound |-> FALSE, clock |-> 0]
  /\ history = [issued |-> 0, applied |-> {}, restarts |-> 0, dropped |-> 0]
  /\ analyzer = [instance |-> 0, historical |-> FALSE, failed |-> FALSE, closed |-> FALSE]

-----------------------------------------------------------------------------
(* Sessions, tokens and workers.                                           *)

\* A cancelled token: this session's current one when set, every older one.
Cancelled(t) == t # token.id \/ token.set

\* Mutated: a stop is not looked at.
CurrentUnlessDeleted(t) == ~deleting /\ ~Cancelled(t)

Current(t) == ~deleting /\ ~Cancelled(t) /\ session.workflow # "STOPPED"
CurrentAt(t, g) == Current(t) /\ session.generation = g

\* Mutated: only the recommendations are cleared.
ClearedLess(s) == s

\* _clear_source_evidence, for what of it this module keeps.
Cleared(s) == [s EXCEPT !.fresh = FALSE, !.shown = 0]

Suspended(s) ==
  IF s.workflow = "STOPPED" THEN s
  ELSE [Cleared(s) EXCEPT !.workflow = "SUSPENDED", !.state = "unavailable"]

\* A consumer between two windows.  Told to stop, and with no error to report,
\* it leaves without a word: such a worker is forgotten.
Between(w) == IF w.stop /\ w.fault # "error" THEN NoWorker ELSE [w EXCEPT !.pc = "idle"]

\* AudioWorker.stop: the input is closed at once, the threads leave in their
\* own time.  A stream the runner is still opening is not the input's yet.
Stopped(w, opening) ==
  LET s == [w EXCEPT !.stop = TRUE, !.open = opening]
  IN  IF w.pc = "idle" THEN Between(s) ELSE IF w.pc = "dead" THEN NoWorker ELSE s
Retired(v, g) ==
  IF g \notin DOMAIN v THEN v
  ELSE [v EXCEPT ![g] = Stopped(@, @.open /\ runner.pc = "opened" /\ runner.generation = g)]

Active == runner.pc \notin {"dead", "leaving"}

\* Mutated: the worker leaves api.workers and is not stopped.
CancelToken ==
  /\ token' = [token EXCEPT !.set = TRUE]
  /\ registered' = 0
  /\ UNCHANGED <<worker, pending, runner>>

\* cancel: the token first, then whatever worker is registered.
Cancel ==
  /\ token' = [token EXCEPT !.set = TRUE]
  /\ worker' = Retired(worker, registered)
  /\ registered' = 0
  /\ UNCHANGED <<pending, runner>>

\* schedule: a new token, the latest operation, one runner.
Schedule(previous, paused) ==
  /\ token' = [id |-> token.id + 1, set |-> FALSE]
  /\ pending' = [token |-> token.id + 1, previous |-> previous, paused |-> paused]
  /\ runner' = IF Active THEN runner ELSE At("take")
  /\ UNCHANGED <<worker, registered>>

\* Mutated: the model is closed without its lock.
CloseAtOnce(forDeletion) ==
  /\ analyzer' = [analyzer EXCEPT !.closed = TRUE]
  /\ UNCHANGED reaper

\* Mutated: a stop that meets a busy model leaves it to nobody.
CloseIfIdle(forDeletion) ==
  /\ UNCHANGED reaper
  /\ analyzer' = IF lock = 0 THEN [analyzer EXCEPT !.closed = TRUE] ELSE analyzer

\* close_analyzer_when_idle.
CloseWhenIdle(forDeletion) ==
  IF reaper # "none" /\ ~forDeletion THEN UNCHANGED <<analyzer, reaper>>
  ELSE IF ~forDeletion /\ lock = 0
  THEN /\ analyzer' = [analyzer EXCEPT !.closed = TRUE]
       /\ UNCHANGED reaper
  ELSE /\ reaper' = "waiting"
       /\ UNCHANGED analyzer

-----------------------------------------------------------------------------
(* The command thread.                                                     *)

\* The lifecycle lock is free and the session is served.
Serving == command = NoCommand /\ ~deleting
Key == history.issued + 1

Handled(action) ==
  /\ Serving
  /\ history.issued < MaxCommands
  /\ command' = [action |-> action, key |-> Key]
  /\ history' = [history EXCEPT !.issued = Key,
                                !.applied = @ \cup {[action |-> action, key |-> Key]}]
  /\ UNCHANGED <<deleting, scheduled, reaper, token, pending, runner, registered, worker,
                 analyzer, lock>>

Halted(s, workflow, state) ==
  [Cleared(s) EXCEPT !.workflow = workflow, !.state = state, !.generation = @ + 1,
                     !.result = IF @ = "pending" THEN "failed" ELSE @]

Pause ==
  /\ session.workflow # "STOPPED"
  /\ session' = Halted(session, "SUSPENDED", "paused")
  /\ Handled("pause")
  /\ UNCHANGED switching

Stop ==
  /\ session.workflow # "STOPPED"
  /\ session' = Halted(session, "STOPPED", "stopped")
  /\ Handled("stop")
  /\ UNCHANGED switching

Resume ==
  /\ session.workflow = "SUSPENDED"
  /\ session' = [Cleared(session) EXCEPT !.workflow = "LIVE", !.state = "starting",
                                         !.operation = 0, !.result = "none"]
  /\ Handled("resume")
  /\ UNCHANGED switching

\* _accept_source_switch: the workflow state stays until a source opens.
Switch ==
  /\ session.workflow # "STOPPED"
  /\ session.result # "pending"
  /\ switching' = [previous |-> session.bound, paused |-> session.state = "paused"]
  /\ session' = [Cleared(session) EXCEPT !.state = "switching", !.generation = @ + 1,
                                         !.operation = Key, !.result = "pending"]
  /\ Handled("switch")

\* An applied command sent again is answered from the ledger, and reconciled.
Retry ==
  /\ Serving
  /\ command' \in history.applied
  /\ UNCHANGED <<session, deleting, history, switching, scheduled, reaper, token, pending,
                 runner, registered, worker, analyzer, lock>>

\* Mutated: scheduled_keys is not consulted.
ReconcileEverySwitch ==
  /\ command.action = "switch"
  /\ IF session.operation = command.key /\ session.result = "pending"
     THEN /\ scheduled' = command.key
          /\ Schedule(switching.previous, switching.paused)
     ELSE UNCHANGED <<scheduled, token, pending, runner, registered, worker>>

ReconcileSwitch ==
  /\ command.action = "switch"
  /\ IF /\ session.operation = command.key
        /\ session.result = "pending"
        /\ scheduled # command.key
     THEN /\ scheduled' = command.key
          /\ Schedule(switching.previous, switching.paused)
     ELSE UNCHANGED <<scheduled, token, pending, runner, registered, worker>>

\* Mutated: an old resume is reconciled whatever the session's state.
ReconcileOld ==
  /\ command.action \in {"pause", "stop", "resume"}
  /\ UNCHANGED scheduled
  /\ IF command.action = "resume" /\ (runner.pc = "dead" \/ token.set)
     THEN Schedule(FALSE, FALSE)
     ELSE IF session.state \in {"paused", "stopped"} THEN Cancel
     ELSE UNCHANGED <<token, pending, runner, registered, worker>>

ReconcileOther ==
  /\ command.action \in {"pause", "stop", "resume"}
  /\ UNCHANGED scheduled
  /\ IF session.state \in {"paused", "stopped"} THEN Cancel
     ELSE IF /\ command.action = "resume"
             /\ session.state = "starting"
             /\ runner.pc = "dead" \/ token.set
     THEN Schedule(FALSE, FALSE)
     ELSE UNCHANGED <<token, pending, runner, registered, worker>>

Reconcile ==
  /\ ReconcileSwitch \/ ReconcileOther
  /\ command' = NoCommand
  /\ IF session.workflow = "STOPPED" THEN CloseWhenIdle(FALSE)
     ELSE UNCHANGED <<analyzer, reaper>>
  /\ UNCHANGED <<session, deleting, history, switching, lock>>

\* Mutated: what was requested is dropped, what runs is not cancelled.
DeleteQuietly ==
  /\ Serving
  /\ Deletions # {}
  /\ deleting' = TRUE
  /\ command' = [action |-> "delete", key |-> 0]
  /\ pending' = NoOperation
  /\ UNCHANGED <<session, history, switching, scheduled, token, runner, registered, worker,
                 analyzer, lock, reaper>>

\* delete_session fences the session, drops what was requested and cancels,
Delete ==
  /\ Serving
  /\ Deletions # {}
  /\ deleting' = TRUE
  /\ command' = [action |-> "delete", key |-> 0]
  /\ pending' = NoOperation
  /\ token' = [token EXCEPT !.set = TRUE]
  /\ worker' = Retired(worker, registered)
  /\ registered' = 0
  /\ UNCHANGED <<session, history, switching, scheduled, runner, analyzer, lock, reaper>>

\* then removes the row and leaves the analyzer to a reaper,
DeleteSucceeds ==
  /\ "done" \in Deletions
  /\ command.action = "delete"
  /\ command' = NoCommand
  /\ CloseWhenIdle(TRUE)
  /\ UNCHANGED <<session, deleting, history, switching, scheduled, token, pending, runner,
                 registered, worker, lock>>

\* or, when the store refuses, lifts the fence over a suspended session.
DeleteFails ==
  /\ "refused" \in Deletions
  /\ command.action = "delete"
  /\ command' = NoCommand
  /\ deleting' = FALSE
  /\ session' = Suspended(session)
  /\ history' = [history EXCEPT !.dropped = IF session.result = "pending" THEN session.operation ELSE @]
  /\ UNCHANGED <<switching, scheduled, token, pending, runner, registered, worker,
                 analyzer, lock, reaper>>

-----------------------------------------------------------------------------
(* The runner: one thread, one operation at a time, the latest first.      *)

Op == runner.op
Steps(pc) == runner' = [runner EXCEPT !.pc = pc]
Finished == runner' = At("take")

\* Nothing requested: the thread is no longer active, and then ends.
Leave ==
  /\ runner.pc = "take"
  /\ pending = NoOperation
  /\ runner' = At("leaving")
  /\ UNCHANGED <<control, session, history, registered, worker, analyzer, lock>>

Dies ==
  /\ runner.pc = "leaving"
  /\ runner' = At("dead")
  /\ UNCHANGED <<control, session, history, registered, worker, analyzer, lock>>

\* The endpoints the requested microphone resolves to.
Resolve == \E n \in 0..Candidates : runner' = [runner EXCEPT !.pc = "open", !.left = n]

\* Mutated: the previous worker is replaced, not retired.
TakeOver ==
  /\ runner.pc = "take"
  /\ pending # NoOperation
  /\ pending' = NoOperation
  /\ IF ~Current(pending.token) THEN UNCHANGED runner
     ELSE IF analyzer.historical \/ analyzer.failed
     THEN runner' = Runner("load", pending, 0, FALSE, 0, FALSE)
     ELSE \E n \in 0..Candidates : runner' = Runner("open", pending, n, FALSE, 0, FALSE)
  /\ UNCHANGED <<request, session, history, token, registered, worker, analyzer, lock>>

\* The next requested operation; one whose token is already set is skipped.
\* The previous worker is retired before anything else is looked at.
Take ==
  /\ runner.pc = "take"
  /\ pending # NoOperation
  /\ pending' = NoOperation
  /\ IF Cancelled(pending.token) THEN UNCHANGED <<runner, worker, registered>>
     ELSE /\ worker' = Retired(worker, registered)
          /\ registered' = 0
          /\ IF ~Current(pending.token) THEN Finished
             ELSE IF analyzer.historical \/ analyzer.failed
             THEN runner' = Runner("load", pending, 0, FALSE, 0, FALSE)
             ELSE \E n \in 0..Candidates : runner' = Runner("open", pending, n, FALSE, 0, FALSE)
  /\ UNCHANGED <<request, session, history, token, analyzer, lock>>

\* A new model is loaded outside every lock; it may be missing or not fit.
Load ==
  /\ runner.pc = "load"
  /\ \/ Steps("fail")
     \/ Current(Op.token) /\ Steps("swap")
     \/ ~Current(Op.token) /\ Finished
  /\ UNCHANGED <<control, session, history, registered, worker, analyzer, lock>>

\* The replaced model is closed under the analyzer lock.
Swap ==
  /\ runner.pc = "swap"
  /\ lock = 0
  /\ IF Current(Op.token)
     THEN /\ analyzer' = [instance |-> analyzer.instance + 1, historical |-> FALSE,
                          failed |-> FALSE, closed |-> FALSE]
          /\ Resolve
     ELSE UNCHANGED analyzer /\ Finished
  /\ UNCHANGED <<control, session, history, registered, worker, lock>>

\* The transaction of _attempt that gives an opening its generation.
Binds(rollback) ==
  /\ session' = [Cleared(session) EXCEPT !.workflow = "LIVE", !.state = "starting",
                   !.generation = @ + 1, !.clock = session.generation + 1, !.bound = TRUE]
  /\ worker' = Extended(session.generation + 1)
  /\ runner' = Runner("register", [Op EXCEPT !.previous = @ /\ ~rollback],
                      IF rollback THEN 0 ELSE runner.left - 1, rollback,
                      session.generation + 1, runner.kept)

\* Mutated: the loop over the candidates runs once too often.
OpenOneMore ==
  /\ runner.pc = "open"
  /\ Current(Op.token)
  /\ \/ Binds(FALSE)
     \/ /\ runner' = [runner EXCEPT !.left = @ - 1]
        /\ UNCHANGED <<session, worker>>
  /\ UNCHANGED <<control, history, registered, analyzer, lock>>

\* A candidate that does not negotiate the format is passed over.
OpenCandidate ==
  /\ runner.pc = "open"
  /\ Current(Op.token)
  /\ runner.left > 0
  /\ \/ Binds(FALSE)
     \/ /\ runner' = [runner EXCEPT !.left = @ - 1]
        /\ UNCHANGED <<session, worker>>
  /\ UNCHANGED <<control, history, registered, analyzer, lock>>

\* When none is left, the endpoint in use before the switch, once.
OpenPrevious ==
  /\ runner.pc = "open"
  /\ Current(Op.token)
  /\ runner.left = 0
  /\ Op.previous
  /\ \/ Binds(TRUE)
     \/ Steps("fail") /\ UNCHANGED <<session, worker>>
  /\ UNCHANGED <<control, history, registered, analyzer, lock>>

NothingOpens ==
  /\ runner.pc = "open"
  /\ \/ ~Current(Op.token) /\ Finished
     \/ Current(Op.token) /\ runner.left = 0 /\ ~Op.previous /\ Steps("fail")
  /\ UNCHANGED <<control, session, history, registered, worker, analyzer, lock>>

Register ==
  /\ runner.pc = "register"
  /\ registered' = runner.generation
  /\ worker' = [worker EXCEPT ![runner.generation] = NewWorker(Op.token)]
  /\ Steps(IF CurrentAt(Op.token, runner.generation) THEN "start" ELSE "close")
  /\ UNCHANGED <<control, session, history, analyzer, lock>>

\* NativeMicAudioInput.start opens the stream, unless it was closed before,
Start ==
  /\ runner.pc = "start"
  /\ LET g == runner.generation IN
     \/ /\ ~worker[g].stop
        /\ ~Cancelled(Op.token)
        /\ worker' = [worker EXCEPT ![g].open = TRUE]
        /\ Steps("opened")
     \/ Steps("close") /\ UNCHANGED worker
  /\ UNCHANGED <<control, session, history, registered, analyzer, lock>>

\* and gives it up if it was closed meanwhile.
Started ==
  /\ runner.pc = "opened"
  /\ LET g == runner.generation IN
     IF worker[g].stop \/ Cancelled(Op.token)
     THEN /\ worker' = [worker EXCEPT ![g].open = FALSE]
          /\ Steps("close")
     ELSE /\ worker' = [worker EXCEPT ![g].pc = "idle"]
          /\ Steps("wait")
  /\ UNCHANGED <<control, session, history, registered, analyzer, lock>>

\* The wait for the first PCM: lost currency, a failed capture and the timeout
\* end the attempt; a paused selection closes what it has opened.
Wait ==
  /\ runner.pc = "wait"
  /\ LET g == runner.generation IN
     \/ /\ CurrentAt(Op.token, g)
        /\ worker[g].pcm
        /\ worker[g].fault # "error"
        /\ worker' = IF Op.paused THEN Retired(worker, g) ELSE worker
        /\ Steps("bind")
     \/ /\ ~CurrentAt(Op.token, g) \/ worker[g].fault = "error" \/ ~worker[g].pcm
        /\ Steps("close")
        /\ UNCHANGED worker
  /\ UNCHANGED <<control, session, history, registered, analyzer, lock>>

Outcome == IF session.operation = 0 THEN "none"
           ELSE IF runner.rollback THEN "rolled_back" ELSE "applied"

\* The transaction that publishes the opened source.
Bind ==
  /\ runner.pc = "bind"
  /\ IF CurrentAt(Op.token, runner.generation)
     THEN /\ session' =
               IF Op.paused
               THEN [Cleared(session) EXCEPT !.workflow = "SUSPENDED", !.state = "paused",
                                             !.result = Outcome]
               ELSE [session EXCEPT !.state = IF session.fresh THEN @ ELSE "listening",
                                    !.result = Outcome]
          /\ runner' = IF Op.paused THEN [runner EXCEPT !.pc = "close", !.kept = TRUE]
                       ELSE At("take")
     ELSE Steps("close") /\ UNCHANGED session
  /\ UNCHANGED <<control, history, registered, worker, analyzer, lock>>

\* The attempt's finally clause, and whether another attempt follows.
Close ==
  /\ runner.pc = "close"
  /\ worker' = Retired(worker, runner.generation)
  /\ registered' = IF registered = runner.generation THEN 0 ELSE registered
  /\ \/ (runner.kept \/ ~Current(Op.token)) /\ Finished
     \/ /\ ~runner.kept /\ Current(Op.token)
        /\ Steps(IF runner.rollback THEN "fail" ELSE "open")
  /\ UNCHANGED <<control, session, history, analyzer, lock>>

\* Mutated: the failure leaves the result of the switch alone.
FailUnresolved ==
  /\ runner.pc = "fail"
  /\ Finished
  /\ session' = IF Current(Op.token) THEN Suspended(session) ELSE session
  /\ UNCHANGED <<control, history, registered, worker, analyzer, lock>>

\* The last transaction of _run: the session is told that nothing opened.
Fail ==
  /\ runner.pc = "fail"
  /\ Finished
  /\ IF Current(Op.token)
     THEN session' = [Suspended(session) EXCEPT
                        !.result = IF session.operation # 0 THEN "failed" ELSE "none"]
     ELSE UNCHANGED session
  /\ UNCHANGED <<control, history, registered, worker, analyzer, lock>>

RunnerStep ==
  \/ Take \/ Leave \/ Dies \/ Load \/ Swap \/ OpenCandidate \/ OpenPrevious
  \/ NothingOpens \/ Register \/ Start \/ Started \/ Wait \/ Bind \/ Close \/ Fail

-----------------------------------------------------------------------------
(* The threads of the worker of generation g.                              *)

Threads == {"idle", "asked", "analyzing", "answered"}
W(g) == worker[g]
Becomes(g, pc) == worker' = [worker EXCEPT ![g].pc = pc]
Fresh(g) == CurrentAt(W(g).token, g)

\* The producer receives its first PCM.
Pcm(g) ==
  /\ W(g).pc \in Threads /\ ~W(g).pcm /\ W(g).open
  /\ worker' = [worker EXCEPT ![g].pcm = TRUE]
  /\ UNCHANGED <<control, session, history, runner, registered, analyzer, lock>>

\* The producer ends: a capture error, or a file that has been read.
SourceEnds(g) ==
  /\ W(g).pc \in Threads /\ ~W(g).stop /\ W(g).fault = "none"
  /\ \E f \in Faults \ {"model"} :
       /\ f = "eof" => W(g).pcm
       /\ worker' = [worker EXCEPT ![g].fault = f, ![g].open = FALSE]
  /\ UNCHANGED <<control, session, history, runner, registered, analyzer, lock>>

\* observe takes a window's context and the session's model,
Ask(g) ==
  /\ W(g).pc = "idle" /\ W(g).pcm /\ ~W(g).stop /\ W(g).fault # "error"
  /\ Fresh(g)
  /\ worker' = [worker EXCEPT ![g].pc = "asked", ![g].instance = analyzer.instance]
  /\ UNCHANGED <<control, session, history, runner, registered, analyzer, lock>>

\* waits for the analyzer lock and asks again whether it is current,
Begin(g) ==
  /\ W(g).pc = "asked" /\ lock = 0 /\ Fresh(g)
  /\ lock' = g
  /\ Becomes(g, "analyzing")
  /\ UNCHANGED <<control, session, history, runner, registered, analyzer>>

\* gives up when it is not, or when the window has grown too old,
Abandon(g) ==
  /\ W(g).pc = "asked"
  /\ worker' = [worker EXCEPT ![g] = Between(@)]
  /\ UNCHANGED <<control, session, history, runner, registered, analyzer, lock>>

\* infers, and remembers a failing model while the source is still current,
Infer(g) ==
  /\ W(g).pc = "analyzing"
  /\ lock' = 0
  /\ \/ /\ Becomes(g, "answered")
        /\ UNCHANGED analyzer
     \/ /\ "model" \in Faults
        /\ worker' = [worker EXCEPT ![g].pc = "idle", ![g].fault = "error", ![g].stop = TRUE]
        /\ analyzer' = [analyzer EXCEPT !.failed = @ \/ Fresh(g)]
  /\ UNCHANGED <<control, session, history, runner, registered>>

\* Mutated: currency is not asked again after the inference.
PublishLate(g) ==
  /\ W(g).pc = "answered"
  /\ worker' = [worker EXCEPT ![g] = Between(@)]
  /\ session' = [session EXCEPT !.state = "active", !.fresh = TRUE, !.shown = g]
  /\ UNCHANGED <<control, history, runner, registered, analyzer, lock>>

\* and publishes what is current.  A late result shows nothing fresh; that of a
\* window cut by a physical gap is dropped.
Publish(g) ==
  /\ W(g).pc = "answered"
  /\ worker' = [worker EXCEPT ![g] = Between(@)]
  /\ \/ /\ Fresh(g)
        /\ \E fresh \in BOOLEAN :
             session' = [session EXCEPT !.state = IF fresh THEN "active" ELSE "listening",
                                        !.fresh = fresh, !.shown = IF fresh THEN g ELSE 0]
     \/ UNCHANGED session
  /\ UNCHANGED <<control, history, runner, registered, analyzer, lock>>

\* The consumer ends and, unless it was told to stop, tells the session.
Ended(g) ==
  /\ W(g).pc = "idle"
  /\ W(g).stop \/ W(g).fault # "none"
  /\ worker' = [worker EXCEPT ![g] = IF registered = g THEN [NoWorker EXCEPT !.pc = "dead",
                                                                           !.pcm = W(g).pcm]
                                     ELSE NoWorker]
  /\ IF (~W(g).stop \/ W(g).fault = "error") /\ Fresh(g)
     THEN session' = Suspended(session)
     ELSE UNCHANGED session
  /\ UNCHANGED <<control, history, runner, registered, analyzer, lock>>

WorkerStep(g) ==
  \/ Pcm(g) \/ SourceEnds(g) \/ Ask(g) \/ Begin(g) \/ Abandon(g) \/ Infer(g)
  \/ Publish(g) \/ Ended(g)

-----------------------------------------------------------------------------
(* The watch, the reaper and the process.                                  *)

Watched ==
  /\ registered # 0 /\ session.clock = registered /\ ~deleting
  /\ session.state \in {"starting", "listening", "active"}

\* The first packet of a microphone is seen before a frame is.
WatchPcm ==
  /\ Watched
  /\ session.state = "starting" /\ W(registered).pcm
  /\ session' = [session EXCEPT !.state = "listening"]
  /\ UNCHANGED <<control, history, runner, registered, worker, analyzer, lock>>

\* Evidence grows old, or a gap is found in the capture.
WatchWithdraws ==
  /\ Watched
  /\ session.fresh
  /\ session' = [Cleared(session) EXCEPT !.state = "listening"]
  /\ UNCHANGED <<control, history, runner, registered, worker, analyzer, lock>>

\* Mutated: the reaper does not take the analyzer lock.
ReapNow ==
  /\ reaper = "waiting"
  /\ analyzer' = [analyzer EXCEPT !.closed = TRUE]
  /\ reaper' = "done"
  /\ UNCHANGED <<session, deleting, command, history, switching, scheduled, token, pending,
                 runner, registered, worker, lock>>

Reap ==
  /\ reaper = "waiting" /\ lock = 0
  /\ analyzer' = [analyzer EXCEPT !.closed = TRUE]
  /\ reaper' = "done"
  /\ UNCHANGED <<session, deleting, command, history, switching, scheduled, token, pending,
                 runner, registered, worker, lock>>

\* Mutated: a restart leaves the switch as it was.
RestartedAsIs(s) ==
  IF s.workflow = "STOPPED" THEN s ELSE [Suspended(s) EXCEPT !.generation = @ + 1]

\* suspend_for_runtime_restart.
Restarted(s) ==
  IF s.workflow = "STOPPED" THEN s
  ELSE [Suspended(s) EXCEPT !.generation = @ + 1,
                            !.result = IF @ = "pending" THEN "failed" ELSE @]

\* The process ends at any point and is started again: what the session had
\* committed is suspended, threads and controller state are gone.
Restart ==
  /\ history.restarts < MaxRestarts
  /\ ~deleting \/ command.action = "delete"
  /\ session' = Restarted(session)
  /\ history' = [history EXCEPT !.restarts = @ + 1]
  /\ deleting' = FALSE
  /\ command' = NoCommand
  /\ UNCHANGED switching
  /\ scheduled' = 0
  /\ token' = [id |-> token.id, set |-> TRUE]
  /\ pending' = NoOperation
  /\ runner' = At("dead")
  /\ registered' = 0
  /\ worker' = None(0)
  /\ analyzer' = [instance |-> 0, historical |-> TRUE, failed |-> FALSE, closed |-> FALSE]
  /\ lock' = 0
  /\ reaper' = "none"

Command == Pause \/ Stop \/ Resume \/ Switch \/ Retry \/ Delete
Completion == Reconcile \/ DeleteSucceeds \/ DeleteFails

Next ==
  \/ Command \/ Completion \/ RunnerStep
  \/ \E g \in Generations : WorkerStep(g)
  \/ WatchPcm \/ WatchWithdraws \/ Reap \/ Restart

Spec == Init /\ [][Next]_vars

\* What the scheduler owes the threads: every started command is finished,
\* the runner runs, model calls return, a consumer that was told to stop or has
\* nothing left to read leaves, and a waiting reaper gets the free lock.
\* Operators, sources, the watch and the process owe nothing.
Fairness(generations) ==
  /\ WF_vars(Completion)
  /\ WF_vars(RunnerStep)
  /\ WF_vars(Reap)
  /\ \A g \in generations :
       WF_vars(g \in Generations
                 /\ (Begin(g) \/ Abandon(g) \/ Infer(g) \/ Publish(g) \/ Ended(g)))

-----------------------------------------------------------------------------
(* What must hold.                                                         *)

Session ==
  [workflow : {"LIVE", "SUSPENDED", "STOPPED"},
   state : {"starting", "listening", "active", "switching", "paused", "stopped", "unavailable"},
   generation : Nat, result : {"none", "pending", "applied", "rolled_back", "failed"},
   operation : Nat, fresh : BOOLEAN, shown : Nat, bound : BOOLEAN, clock : Nat]
Operation == [token : Nat, previous : BOOLEAN, paused : BOOLEAN]
CommandRecord == [action : Actions \cup {"none", "delete"}, key : Nat]
RunnerState ==
  [pc : {"dead", "leaving", "take", "load", "swap", "open", "register", "start",
         "opened", "wait", "bind", "close", "fail"},
   op : Operation, left : Nat, rollback : BOOLEAN, generation : Nat, kept : BOOLEAN]
WorkerState ==
  [pc : {"none", "new", "dead"} \cup Threads, stop : BOOLEAN, open : BOOLEAN, pcm : BOOLEAN,
   fault : {"none", "eof", "error"}, token : Nat, instance : Nat]

\* Every variable has its type, and what is referred to by generation exists.
TypeOK ==
  /\ session \in Session
  /\ deleting \in BOOLEAN
  /\ command \in CommandRecord
  /\ history \in [issued : Nat, applied : SUBSET CommandRecord, restarts : Nat, dropped : Nat]
  /\ switching \in [previous : BOOLEAN, paused : BOOLEAN]
  /\ scheduled \in Nat
  /\ token \in [id : Nat, set : BOOLEAN]
  /\ pending \in Operation
  /\ runner \in RunnerState
  /\ registered \in Nat
  /\ \E n \in 0..session.generation : worker \in [1..n -> WorkerState]
  /\ analyzer \in [instance : Nat, historical : BOOLEAN, failed : BOOLEAN, closed : BOOLEAN]
  /\ lock \in Nat
  /\ reaper \in {"none", "waiting", "done"}

Quiet == command = NoCommand /\ runner.pc \in {"leaving", "dead"}
Devices == {g \in Generations : worker[g].open}

\* Evidence is shown fresh only while its source is the one the session claims,
\* whatever a late inference returns after a pause, stop, switch or restart.
FreshIsCurrent ==
  session.fresh => /\ session.shown = session.generation
                   /\ session.clock = session.generation

\* A model that is inferring is the session's and is not closed under it, by a
\* replacement, a stop or a deletion.
ModelInUseStaysOpen ==
  lock # 0 => /\ worker[lock].pc = "analyzing"
              /\ worker[lock].instance = analyzer.instance
              /\ ~analyzer.closed

\* However openings, timeouts, fallbacks and commands interleave, at most one
\* input is open.
OneDevice == \A g, h \in Devices : g = h

\* An open input belongs to the registered worker or to the attempt the runner
\* is making: no other path could ever close it.
NoOrphanDevice ==
  \A g \in Devices :
    \/ registered = g
    \/ runner.generation = g /\ runner.pc \in {"opened", "wait", "bind", "close"}

\* One open input at most, and somebody who will close it.
InputsOwned == OneDevice /\ NoOrphanDevice

\* When nothing is left to do a paused, stopped or deleted session has released
\* its input.
HaltReleases ==
  Quiet /\ (session.state \in {"paused", "stopped"} \/ deleting) => Devices = {}

\* Inputs and model belong to who uses them, and are let go when nobody does.
Ownership == ModelInUseStaysOpen /\ InputsOwned /\ HaltReleases

\* A switch is pending only while somebody is going to settle it, or after a deletion
\* that the store refused (service.py:729) has dropped it: then nobody does, and the
\* session is suspended until it is resumed, paused, stopped or restarted.
PendingIsServed ==
  session.result = "pending" /\ ~deleting =>
    ~Quiet \/ (history.dropped = session.operation /\ session.state = "unavailable")

\* Stop is terminal, and a deleted session stays deleted.
StopIsFinal ==
  [][/\ session.workflow = "STOPPED" => session'.workflow = "STOPPED" /\ ~session'.fresh
     /\ deleting /\ command = NoCommand => deleting']_vars

\* A switch once reconciled is never handed to the runner again by a retry.
SwitchRunsOnce ==
  [][session.operation = scheduled /\ scheduled # 0 /\ command.action = "switch"
       => token' = token \/ token'.set]_vars

\* Nothing but a pending switch is scheduled for a session that has halted,
\* whatever old command is sent again ("Cached retry responses never resurrect a historical operation",
\* live_audio.py:324).
NoResurrection ==
  [][/\ session.state \in {"paused", "stopped", "unavailable"}
     /\ session.result # "pending"
     => token' = token \/ token'.set]_vars

\* A stop and a deletion that went through are final; no old command that is sent
\* again, nor anything else, has a source scheduled for a session that has halted but
\* a switch still pending, nor a switch that was handed to the runner handed to it
\* again.  It says nothing of an opening that is already under way: that one may set
\* a paused session listening again (PauseHolds).
HaltsForGood == StopIsFinal /\ NoResurrection /\ SwitchRunsOnce

\* A stopped or deleted session comes to rest for good: its inputs are released
\* and its model is closed.
ComesToRest ==
  (session.workflow = "STOPPED" \/ (deleting /\ command = NoCommand))
    ~> [](Devices = {} /\ (analyzer.closed \/ analyzer.historical))

\* The session's evidence is fenced by its generation (SourceFence).
Fence == INSTANCE SourceFence WITH
  epoch <- session.generation, shown <- session.shown, ended <- session.workflow = "STOPPED"
Fenced == Fence!FSpec

\* Every accepted switch reaches a terminal result, or its session's deletion is
\* asked for (one that the store refuses leaves the result pending).
SwitchSettles ==
  (session.result = "pending" /\ session.state # "unavailable")
    ~> (session.result # "pending" \/ deleting)

-----------------------------------------------------------------------------
(* What the documents say and the code does not do.                        *)

LastAsked(action) ==
  \E c \in history.applied :
    c.action = action /\ \A d \in history.applied : d.key <= c.key

\* docs/implementation/LIVE_REFERENCE_MIC_FREEZE.md:156, "First fresh
\* current-generation PCM packet proves acquisition startup and permits
\* switch_result=applied": of the switch, whose operation the runner was given.
AppliedWasRun ==
  session.operation # 0 /\ session.result \in {"applied", "rolled_back"} =>
    scheduled = session.operation

\* docs/implementation/LIVE_REFERENCE_MIC_FREEZE.md:176, "Pause stays paused":
\* after a pause that nothing followed the session is not left running.
PauseHolds == Quiet /\ LastAsked("pause") => session.workflow # "LIVE"

\* live_audio.py:119, "only the latest requested operation, even across repeated
\* pause/resume commands": the latest request, a resume, is not left paused.
ResumeServed == Quiet /\ LastAsked("resume") => session.state # "paused"

\* LIVE_REFERENCE_MIC_FREEZE.md:158, "Missing first PCM within the configured
\* finite acquisition timeout is failure": nobody is left starting.
StartingIsServed == Quiet /\ ~deleting => session.state # "starting"

\* LIVE_REFERENCE_MIC_FREEZE.md:161, "Capturing PCM while inference is pending
\* is listening": a live session that listens has a running worker.
ListeningIsCapturing ==
  /\ session.workflow = "LIVE"
  /\ session.state \in {"listening", "active"}
  /\ Quiet /\ ~deleting
  => registered # 0 /\ worker[registered].pc \in Threads

\* LIVE_REFERENCE_MIC_FREEZE.md:172, "if restoration fails,
\* switch_result=failed, state=unavailable/SUSPENDED": a suspended session
\* neither listens nor shows evidence.
SuspendedShowsNothing ==
  session.workflow = "SUSPENDED" =>
    ~session.fresh /\ session.state \notin {"listening", "active"}

=============================================================================
