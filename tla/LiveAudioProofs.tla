-------------------------- MODULE LiveAudioProofs --------------------------
(***************************************************************************)
(* The live controller for any bounds, any faults and any deletions: the   *)
(* types; the fence between a source and what is shown of it, with the     *)
(* refinement of SourceFence; the ownership of input devices; the model,   *)
(* which stays the same and open while a consumer is inside it; and who    *)
(* settles a pending switch.                                               *)
(***************************************************************************)
EXTENDS LiveAudio, TLAPS

-----------------------------------------------------------------------------
(* Types of the operators.                                                 *)

LEMMA SessionFields ==
  ASSUME NEW s \in Session
  PROVE  /\ s.workflow \in {"LIVE", "SUSPENDED", "STOPPED"}
         /\ s.state \in {"starting", "listening", "active", "switching", "paused", "stopped",
                         "unavailable"}
         /\ s.generation \in Nat
         /\ s.result \in {"none", "pending", "applied", "rolled_back", "failed"}
         /\ s.operation \in Nat /\ s.fresh \in BOOLEAN /\ s.shown \in Nat
         /\ s.bound \in BOOLEAN /\ s.clock \in Nat
BY DEF Session

LEMMA ClearedType ==
  ASSUME NEW s \in Session
  PROVE  /\ Cleared(s) \in Session
         /\ Cleared(s).workflow = s.workflow
         /\ Cleared(s).state = s.state
         /\ Cleared(s).generation = s.generation
         /\ Cleared(s).result = s.result
         /\ Cleared(s).operation = s.operation
         /\ Cleared(s).fresh = FALSE
         /\ Cleared(s).shown = 0
         /\ Cleared(s).bound = s.bound
         /\ Cleared(s).clock = s.clock
BY DEF Cleared, Session

LEMMA SuspendedType ==
  ASSUME NEW s \in Session
  PROVE  /\ Suspended(s) \in Session
         /\ s.workflow = "STOPPED" => Suspended(s) = s
         /\ Suspended(s).generation = s.generation
         /\ Suspended(s).result = s.result
         /\ Suspended(s).operation = s.operation
         /\ Suspended(s).clock = s.clock
         /\ s.workflow # "STOPPED" => /\ Suspended(s).workflow = "SUSPENDED"
                                      /\ Suspended(s).state = "unavailable"
                                      /\ Suspended(s).fresh = FALSE
                                      /\ Suspended(s).shown = 0
BY ClearedType, ZenonT(40) DEF Suspended, Session

LEMMA RestartedType ==
  ASSUME NEW s \in Session
  PROVE  /\ Restarted(s) \in Session
         /\ s.workflow = "STOPPED" => Restarted(s) = s
         /\ Restarted(s).clock = s.clock
         /\ s.workflow # "STOPPED" => /\ Restarted(s).workflow = "SUSPENDED"
                                      /\ Restarted(s).state = "unavailable"
                                      /\ Restarted(s).generation = s.generation + 1
                                      /\ Restarted(s).fresh = FALSE
                                      /\ Restarted(s).shown = 0
<1> DEFINE p == Suspended(s)
           result == IF p.result = "pending" THEN "failed" ELSE p.result
           q == [p EXCEPT !.generation = p.generation + 1, !.result = result]
<1>0. /\ p \in Session
      /\ p.generation = s.generation
      /\ p.clock = s.clock
  BY SuspendedType DEF p
<1> HIDE DEF p, result, q
<1>1. p.generation \in Nat /\ p.generation + 1 \in Nat
  BY <1>0, SessionFields
<1>2. result \in {"none", "pending", "applied", "rolled_back", "failed"}
  BY <1>0, SessionFields DEF result
<1>3. Restarted(s) = IF s.workflow = "STOPPED" THEN s ELSE q
  BY DEF Restarted, p, result, q
<1>4. s.workflow # "STOPPED" => /\ p.workflow = "SUSPENDED"
                                /\ p.state = "unavailable"
                                /\ p.fresh = FALSE
                                /\ p.shown = 0
  BY SuspendedType DEF p
<1>5. /\ q \in Session
      /\ q.workflow = p.workflow /\ q.state = p.state /\ q.fresh = p.fresh
      /\ q.shown = p.shown /\ q.clock = p.clock
      /\ q.generation = p.generation + 1
  BY <1>0, <1>1, <1>2 DEF Session, q
<1> QED BY <1>0, <1>3, <1>4, <1>5

LEMMA NoOperationType == NoOperation \in Operation
BY DEF NoOperation, Operation

LEMMA RunnerFields ==
  ASSUME NEW r \in RunnerState
  PROVE  /\ r.pc \in {"dead", "leaving", "take", "load", "swap", "open", "register", "start",
                      "opened", "wait", "bind", "close", "fail"}
         /\ r.op \in Operation /\ r.op.token \in Nat
         /\ r.op.previous \in BOOLEAN /\ r.op.paused \in BOOLEAN
         /\ r.left \in Nat /\ r.rollback \in BOOLEAN
         /\ r.generation \in Nat /\ r.kept \in BOOLEAN
BY DEF RunnerState, Operation

LEMMA RunnerType ==
  ASSUME NEW pc \in {"dead", "leaving", "take", "load", "swap", "open", "register", "start",
                     "opened", "wait", "bind", "close", "fail"},
         NEW op \in Operation, NEW left \in Nat, NEW rollback \in BOOLEAN,
         NEW generation \in Nat, NEW kept \in BOOLEAN
  PROVE  /\ Runner(pc, op, left, rollback, generation, kept) \in RunnerState
         /\ Runner(pc, op, left, rollback, generation, kept).pc = pc
         /\ Runner(pc, op, left, rollback, generation, kept).op = op
         /\ Runner(pc, op, left, rollback, generation, kept).generation = generation
<1>1. Runner(pc, op, left, rollback, generation, kept) \in RunnerState
  BY Zenon DEF Runner, RunnerState
<1> QED BY <1>1 DEF Runner

LEMMA AtType ==
  ASSUME NEW pc \in {"dead", "leaving", "take"}
  PROVE  At(pc) \in RunnerState /\ At(pc).pc = pc /\ At(pc).op.token = 0
<1>1. /\ 0 \in Nat /\ FALSE \in BOOLEAN
      /\ pc \in {"dead", "leaving", "take", "load", "swap", "open", "register", "start",
                 "opened", "wait", "bind", "close", "fail"}
  OBVIOUS
<1> DEFINE r == Runner(pc, NoOperation, 0, FALSE, 0, FALSE)
<1>2. r \in RunnerState
  BY <1>1, NoOperationType, Zenon DEF Runner, RunnerState
<1>5. r.pc = pc /\ r.op = NoOperation
  BY DEF Runner
<1>3. At(pc) = r
  BY DEF At
<1>4. NoOperation.token = 0
  BY DEF NoOperation
<1> HIDE DEF r
<1> QED BY <1>2, <1>3, <1>4, <1>5

LEMMA StepsType ==
  ASSUME NEW r \in RunnerState,
         NEW pc \in {"dead", "leaving", "take", "load", "swap", "open", "register", "start",
                     "opened", "wait", "bind", "close", "fail"}
  PROVE  /\ [r EXCEPT !.pc = pc] \in RunnerState
         /\ [r EXCEPT !.pc = pc].pc = pc
         /\ [r EXCEPT !.pc = pc].op = r.op
         /\ [r EXCEPT !.pc = pc].generation = r.generation
BY DEF RunnerState

LEMMA WorkerFields ==
  ASSUME NEW w \in WorkerState
  PROVE  /\ w.pc \in {"none", "new", "dead", "idle", "asked", "analyzing", "answered"}
         /\ w.stop \in BOOLEAN /\ w.open \in BOOLEAN /\ w.pcm \in BOOLEAN
         /\ w.fault \in {"none", "eof", "error"}
         /\ w.token \in Nat /\ w.instance \in Nat
BY DEF WorkerState, Threads

LEMMA NoWorkerType ==
  /\ NoWorker \in WorkerState
  /\ NoWorker.open = FALSE
  /\ \A t \in Nat : NewWorker(t) \in WorkerState /\ NewWorker(t).open = FALSE
  /\ \A pcm \in BOOLEAN :
       /\ [NoWorker EXCEPT !.pc = "dead", !.pcm = pcm] \in WorkerState
       /\ [NoWorker EXCEPT !.pc = "dead", !.pcm = pcm].open = FALSE
BY DEF NoWorker, NewWorker, WorkerState, Threads

LEMMA BetweenType ==
  ASSUME NEW w \in WorkerState
  PROVE  /\ Between(w) \in WorkerState
         /\ Between(w).open => w.open
BY NoWorkerType DEF Between, WorkerState, Threads

LEMMA StoppedType ==
  ASSUME NEW w \in WorkerState, NEW opening \in BOOLEAN
  PROVE  /\ Stopped(w, opening) \in WorkerState
         /\ Stopped(w, opening).open => opening
<1> DEFINE s == [w EXCEPT !.stop = TRUE, !.open = opening]
<1>1. s \in WorkerState /\ s.open = opening
  BY DEF WorkerState
<1> HIDE DEF s
<1>2. Between(s) \in WorkerState /\ (Between(s).open => s.open)
  BY <1>1, BetweenType
<1> QED BY <1>1, <1>2, NoWorkerType DEF Stopped, s

LEMMA RetiredType ==
  ASSUME NEW n \in Nat, NEW v \in [1..n -> WorkerState], NEW g \in Nat
  PROVE  /\ Retired(v, g) \in [1..n -> WorkerState]
         /\ \A h \in 1..n : /\ h # g => Retired(v, g)[h] = v[h]
                            /\ Retired(v, g)[h].open => v[h].open
                            /\ h = g /\ Retired(v, g)[h].open
                                 => runner.pc = "opened" /\ runner.generation = g
<1>1. CASE g \notin 1..n
  BY <1>1 DEF Retired
<1>2. CASE g \in 1..n
  <2> DEFINE opening == v[g].open /\ runner.pc = "opened" /\ runner.generation = g
             s == Stopped(v[g], opening)
  <2>1. v[g] \in WorkerState /\ opening \in BOOLEAN
    BY <1>2
  <2>2. Retired(v, g) = [v EXCEPT ![g] = s]
    BY <1>2 DEF Retired
  <2>3. s \in WorkerState /\ (s.open => opening)
    BY <2>1, StoppedType
  <2> HIDE DEF s
  <2>4. /\ [v EXCEPT ![g] = s] \in [1..n -> WorkerState]
        /\ \A h \in 1..n : [v EXCEPT ![g] = s][h] = IF h = g THEN s ELSE v[h]
    BY <1>2, <2>3
  <2> QED BY <2>2, <2>3, <2>4
<1> QED BY <1>1, <1>2

LEMMA ExtendedType ==
  ASSUME NEW n \in Nat, worker \in [1..n -> WorkerState], NEW m \in Nat, n <= m
  PROVE  /\ Extended(m) \in [1..m -> WorkerState]
         /\ \A g \in 1..m : Extended(m)[g].open => g \in 1..n /\ worker[g].open
<1> DEFINE E == [g \in 1..m |-> IF g \in 1..n THEN worker[g] ELSE NoWorker]
<1>1. Extended(m) = E
  BY DEF Extended, Generations
<1>2. \A g \in 1..m : /\ E[g] = (IF g \in 1..n THEN worker[g] ELSE NoWorker)
                      /\ E[g] \in WorkerState
  BY NoWorkerType
<1>3. E \in [1..m -> WorkerState]
  BY <1>2
<1>4. \A g \in 1..m : E[g].open => g \in 1..n /\ worker[g].open
  BY <1>2, NoWorkerType
<1> HIDE DEF E
<1> QED BY <1>1, <1>3, <1>4

-----------------------------------------------------------------------------
(* The session's record: what any step may do to it.                       *)

Halts == {"paused", "stopped"}

\* Evidence shown as fresh is of the generation and clock in use, and of a
\* session that has not halted.
Truthful(s) ==
  /\ s.fresh => s.shown = s.generation /\ s.clock = s.generation /\ s.state \notin Halts
  /\ ~s.fresh => s.shown = 0
  /\ s.workflow = "STOPPED" => ~s.fresh

\* A new generation shows nothing.
Supersedes(s, t) ==
  /\ s.workflow # "STOPPED"
  /\ t.generation = s.generation + 1
  /\ t.clock \in {s.clock, t.generation}
  /\ ~t.fresh /\ t.shown = 0

\* Within a generation evidence is left alone, withdrawn, or shown of the
\* source in use.
Continues(s, t) ==
  /\ t.generation = s.generation
  /\ t.clock = s.clock
  /\ t.workflow = "STOPPED" <=> s.workflow = "STOPPED"
  /\ \/ t.fresh = s.fresh /\ t.shown = s.shown /\ (s.fresh => t.state \in {s.state, "listening"})
     \/ s.workflow # "STOPPED" /\ ~t.fresh /\ t.shown = 0
     \/ /\ s.workflow # "STOPPED" /\ t.fresh /\ t.state = "active"
        /\ t.shown = t.generation /\ t.clock = t.generation

Moves(s, t) == t \in Session /\ (Supersedes(s, t) \/ Continues(s, t))

LEMMA StayingMoves ==
  ASSUME NEW s \in Session
  PROVE  Moves(s, s)
BY DEF Moves, Continues

LEMMA MovesAreTruthful ==
  ASSUME NEW s \in Session, NEW t, Truthful(s), Moves(s, t)
  PROVE  t \in Session /\ Truthful(t) /\ t.generation >= s.generation
<1>1. /\ s.generation \in Nat /\ t.generation \in Nat
      /\ s.fresh \in BOOLEAN /\ t.fresh \in BOOLEAN
  BY SessionFields DEF Moves
<1>2. CASE Supersedes(s, t)
  BY <1>1, <1>2 DEF Supersedes, Truthful, Moves
<1>3. CASE Continues(s, t)
  BY <1>1, <1>3 DEF Continues, Truthful, Moves, Halts
<1> QED BY <1>2, <1>3 DEF Moves

LEMMA SuspendedMoves ==
  ASSUME NEW s \in Session
  PROVE  Moves(s, Suspended(s))
<1>1. CASE s.workflow = "STOPPED"
  BY <1>1, SuspendedType, StayingMoves
<1>2. CASE s.workflow # "STOPPED"
  BY <1>2, SuspendedType DEF Moves, Continues
<1> QED BY <1>1, <1>2

LEMMA RestartedMoves ==
  ASSUME NEW s \in Session
  PROVE  Moves(s, Restarted(s))
<1>1. CASE s.workflow = "STOPPED"
  BY <1>1, RestartedType, StayingMoves
<1>2. CASE s.workflow # "STOPPED"
  BY <1>2, RestartedType DEF Moves, Supersedes
<1> QED BY <1>1, <1>2

LEMMA HaltedMoves ==
  ASSUME NEW s \in Session, s.workflow # "STOPPED",
         NEW workflow \in {"SUSPENDED", "STOPPED"}, NEW state \in {"paused", "stopped"}
  PROVE  /\ Moves(s, Halted(s, workflow, state))
         /\ Halted(s, workflow, state).state = state
<1> DEFINE p == Cleared(s)
           result == IF p.result = "pending" THEN "failed" ELSE p.result
           q == [p EXCEPT !.workflow = workflow, !.state = state,
                          !.generation = p.generation + 1, !.result = result]
<1>0. /\ p \in Session
      /\ p.generation = s.generation
      /\ p.clock = s.clock
      /\ p.fresh = FALSE /\ p.shown = 0
  BY ClearedType DEF p
<1> HIDE DEF p, result, q
<1>1. p.generation \in Nat /\ p.generation + 1 \in Nat
  BY <1>0, SessionFields
<1>2. result \in {"none", "pending", "applied", "rolled_back", "failed"}
  BY <1>0, SessionFields DEF result
<1>3. Halted(s, workflow, state) = q
  BY DEF Halted, p, result, q
<1>4. /\ q \in Session
      /\ q.state = state /\ q.fresh = p.fresh /\ q.shown = p.shown /\ q.clock = p.clock
      /\ q.generation = p.generation + 1
  BY <1>0, <1>1, <1>2 DEF Session, q
<1>5. Moves(s, q)
  BY <1>0, <1>4 DEF Moves, Supersedes
<1> QED BY <1>3, <1>4, <1>5

\* The updates that are not operators of their own.
LEMMA ResumedMoves ==
  ASSUME NEW s \in Session, s.workflow = "SUSPENDED"
  PROVE  Moves(s, [Cleared(s) EXCEPT !.workflow = "LIVE", !.state = "starting",
                                     !.operation = 0, !.result = "none"])
<1> DEFINE p == Cleared(s)
           q == [p EXCEPT !.workflow = "LIVE", !.state = "starting",
                          !.operation = 0, !.result = "none"]
<1>1. /\ p \in Session /\ p.generation = s.generation /\ p.clock = s.clock
      /\ p.fresh = FALSE /\ p.shown = 0
  BY ClearedType
<1> HIDE DEF p
<1>2. /\ q \in Session /\ q.workflow = "LIVE" /\ q.generation = p.generation
      /\ q.clock = p.clock /\ q.fresh = p.fresh /\ q.shown = p.shown
  BY <1>1 DEF Session
<1> HIDE DEF q
<1>3. Moves(s, q)
  BY <1>1, <1>2 DEF Moves, Continues
<1> QED BY <1>3 DEF p, q

LEMMA SwitchedMoves ==
  ASSUME NEW s \in Session, s.workflow # "STOPPED", NEW key \in Nat, NEW generation \in Nat,
         generation = s.generation + 1
  PROVE  Moves(s, [Cleared(s) EXCEPT !.state = "switching", !.generation = generation,
                                     !.operation = key, !.result = "pending"])
<1> DEFINE p == Cleared(s)
           q == [p EXCEPT !.state = "switching", !.generation = generation,
                          !.operation = key, !.result = "pending"]
<1>1. /\ p \in Session /\ p.clock = s.clock
      /\ p.fresh = FALSE /\ p.shown = 0
  BY ClearedType
<1> HIDE DEF p
<1>2. /\ q \in Session /\ q.generation = generation
      /\ q.clock = p.clock /\ q.fresh = p.fresh /\ q.shown = p.shown
  BY <1>1 DEF Session
<1> HIDE DEF q
<1>3. Moves(s, q)
  BY <1>1, <1>2 DEF Moves, Supersedes
<1> QED BY <1>3 DEF p, q

LEMMA BoundMoves ==
  ASSUME NEW s \in Session, s.workflow # "STOPPED", NEW generation \in Nat,
         generation = s.generation + 1
  PROVE  LET q == [Cleared(s) EXCEPT !.workflow = "LIVE", !.state = "starting",
                     !.generation = generation, !.clock = generation, !.bound = TRUE]
         IN  Moves(s, q) /\ q.generation = generation /\ q.clock = generation
                         /\ q.state = "starting"
<1> DEFINE p == Cleared(s)
           q == [p EXCEPT !.workflow = "LIVE", !.state = "starting",
                          !.generation = generation, !.clock = generation, !.bound = TRUE]
<1>1. p \in Session /\ p.fresh = FALSE /\ p.shown = 0
  BY ClearedType
<1> HIDE DEF p
<1>2. /\ q \in Session /\ q.generation = generation /\ q.clock = generation
      /\ q.fresh = p.fresh /\ q.shown = p.shown /\ q.state = "starting"
  BY <1>1 DEF Session
<1> HIDE DEF q
<1>3. Moves(s, q)
  BY <1>1, <1>2 DEF Moves, Supersedes
<1> QED BY <1>2, <1>3 DEF p, q

LEMMA ListeningMoves ==
  ASSUME NEW s \in Session, NEW state \in {s.state, "listening"},
         NEW result \in {"none", "pending", "applied", "rolled_back", "failed"}
  PROVE  /\ Moves(s, [s EXCEPT !.state = state, !.result = result])
         /\ Moves(s, [s EXCEPT !.state = state])
<1> DEFINE q == [s EXCEPT !.state = state, !.result = result]
           r == [s EXCEPT !.state = state]
<1>1. state \in {"starting", "listening", "active", "switching", "paused", "stopped",
                 "unavailable"}
  BY SessionFields
<1>2. /\ q \in Session /\ q.generation = s.generation /\ q.clock = s.clock
      /\ q.fresh = s.fresh /\ q.shown = s.shown /\ q.workflow = s.workflow /\ q.state = state
  BY <1>1 DEF Session
<1>3. /\ r \in Session /\ r.generation = s.generation /\ r.clock = s.clock
      /\ r.fresh = s.fresh /\ r.shown = s.shown /\ r.workflow = s.workflow /\ r.state = state
  BY <1>1 DEF Session
<1> HIDE DEF q, r
<1>4. Moves(s, q) /\ Moves(s, r)
  BY <1>2, <1>3 DEF Moves, Continues
<1> QED BY <1>4 DEF q, r

LEMMA PausedMoves ==
  ASSUME NEW s \in Session, s.workflow # "STOPPED",
         NEW result \in {"none", "pending", "applied", "rolled_back", "failed"}
  PROVE  Moves(s, [Cleared(s) EXCEPT !.workflow = "SUSPENDED", !.state = "paused",
                                     !.result = result])
<1> DEFINE p == Cleared(s)
           q == [p EXCEPT !.workflow = "SUSPENDED", !.state = "paused", !.result = result]
<1>1. /\ p \in Session /\ p.generation = s.generation /\ p.clock = s.clock
      /\ p.fresh = FALSE /\ p.shown = 0
  BY ClearedType
<1> HIDE DEF p
<1>2. /\ q \in Session /\ q.workflow = "SUSPENDED" /\ q.generation = p.generation
      /\ q.clock = p.clock /\ q.fresh = p.fresh /\ q.shown = p.shown
  BY <1>1 DEF Session
<1> HIDE DEF q
<1>3. Moves(s, q)
  BY <1>1, <1>2 DEF Moves, Continues
<1> QED BY <1>3 DEF p, q

LEMMA WithdrawnMoves ==
  ASSUME NEW s \in Session, s.workflow # "STOPPED"
  PROVE  Moves(s, [Cleared(s) EXCEPT !.state = "listening"])
<1> DEFINE p == Cleared(s)
           q == [p EXCEPT !.state = "listening"]
<1>1. /\ p \in Session /\ p.generation = s.generation /\ p.clock = s.clock
      /\ p.fresh = FALSE /\ p.shown = 0 /\ p.workflow = s.workflow
  BY ClearedType
<1> HIDE DEF p
<1>2. /\ q \in Session /\ q.workflow = p.workflow /\ q.generation = p.generation
      /\ q.clock = p.clock /\ q.fresh = p.fresh /\ q.shown = p.shown
  BY <1>1 DEF Session
<1> HIDE DEF q
<1>3. Moves(s, q)
  BY <1>1, <1>2 DEF Moves, Continues
<1> QED BY <1>3 DEF p, q

LEMMA PublishedMoves ==
  ASSUME NEW s \in Session, s.workflow # "STOPPED", s.clock = s.generation,
         NEW fresh \in BOOLEAN
  PROVE  Moves(s, [s EXCEPT !.state = IF fresh THEN "active" ELSE "listening",
                            !.fresh = fresh, !.shown = IF fresh THEN s.generation ELSE 0])
<1> DEFINE state == IF fresh THEN "active" ELSE "listening"
           shown == IF fresh THEN s.generation ELSE 0
           q == [s EXCEPT !.state = state, !.fresh = fresh, !.shown = shown]
<1>1. /\ state \in {"active", "listening"} /\ shown \in Nat
      /\ fresh => state = "active" /\ shown = s.generation
      /\ ~fresh => shown = 0
  BY SessionFields
<1> HIDE DEF state, shown
<1>2. /\ q \in Session /\ q.workflow = s.workflow /\ q.generation = s.generation
      /\ q.clock = s.clock /\ q.fresh = fresh /\ q.shown = shown /\ q.state = state
  BY <1>1 DEF Session
<1> HIDE DEF q
<1>3. Moves(s, q)
  BY <1>1, <1>2 DEF Moves, Continues
<1> QED BY <1>3 DEF q, state, shown

LEMMA FailedMoves ==
  ASSUME NEW s \in Session,
         NEW result \in {"none", "pending", "applied", "rolled_back", "failed"}
  PROVE  Moves(s, [Suspended(s) EXCEPT !.result = result])
<1> DEFINE p == Suspended(s)
           q == [p EXCEPT !.result = result]
<1>1. p \in Session /\ Moves(s, p)
  BY SuspendedType, SuspendedMoves
<1> HIDE DEF p
<1>2. /\ q \in Session /\ q.workflow = p.workflow /\ q.generation = p.generation
      /\ q.clock = p.clock /\ q.fresh = p.fresh /\ q.shown = p.shown /\ q.state = p.state
  BY <1>1 DEF Session
<1> HIDE DEF q
<1>3. Moves(s, q)
  BY <1>1, <1>2 DEF Moves, Continues, Supersedes
<1> QED BY <1>3 DEF p, q

-----------------------------------------------------------------------------
(* Steps of the session.                                                   *)

\* A source that exists under the current generation has its clock.
ClockKnown == session.generation \in Generations => session.clock = session.generation

LEMMA OutcomeType ==
  Outcome \in {"none", "pending", "applied", "rolled_back", "failed"}
BY DEF Outcome

LEMMA BindsMoves ==
  ASSUME session \in Session, session.workflow # "STOPPED", NEW rollback, Binds(rollback)
  PROVE  /\ Moves(session, session')
         /\ session'.generation = session.generation + 1
         /\ session'.clock = session.generation + 1
         /\ session'.state = "starting"
<1> DEFINE g == session.generation + 1
           q == [Cleared(session) EXCEPT !.workflow = "LIVE", !.state = "starting",
                   !.generation = g, !.clock = g, !.bound = TRUE]
<1>1. g \in Nat
  BY SessionFields
<1>2. Cleared(session).generation = session.generation
  BY ClearedType
<1>3. session' = q
  BY <1>2 DEF Binds
<1> HIDE DEF g
<1>4. g = session.generation + 1
  BY DEF g
<1>5. Moves(session, q) /\ q.generation = g /\ q.clock = g /\ q.state = "starting"
  BY <1>1, <1>4, BoundMoves
<1> HIDE DEF q
<1> QED BY <1>3, <1>4, <1>5

LEMMA SessionStep ==
  ASSUME TypeOK, Truthful(session), ClockKnown, [Next]_vars
  PROVE  Moves(session, session')
<1> USE DEF TypeOK
<1>1. ASSUME UNCHANGED session PROVE Moves(session, session')
  BY <1>1, StayingMoves
<1>2. CASE Pause
  BY <1>2, HaltedMoves DEF Pause
<1>3. CASE Stop
  BY <1>3, HaltedMoves DEF Stop
<1>4. CASE Resume
  BY <1>4, ResumedMoves DEF Resume
<1>5. CASE Switch
  <2> DEFINE g == session.generation + 1
  <2>1. Cleared(session).generation = session.generation
    BY ClearedType
  <2>2. session' = [Cleared(session) EXCEPT !.state = "switching", !.generation = g,
                                            !.operation = Key, !.result = "pending"]
    BY <1>5, <2>1 DEF Switch
  <2>3. g \in Nat /\ Key \in Nat /\ session.workflow # "STOPPED"
    BY <1>5, SessionFields DEF Key, Switch
  <2>4. g = session.generation + 1
    OBVIOUS
  <2> HIDE DEF g
  <2> QED BY <2>2, <2>3, <2>4, SwitchedMoves
<1>6. CASE Retry \/ Delete \/ Reconcile \/ DeleteSucceeds
  BY <1>6, <1>1 DEF Retry, Delete, Reconcile, DeleteSucceeds
<1>7. CASE DeleteFails
  BY <1>7, SuspendedMoves DEF DeleteFails
<1>8. CASE \/ Take \/ Leave \/ Dies \/ Load \/ Swap \/ NothingOpens \/ Register \/ Start
           \/ Started \/ Wait \/ Close
  BY <1>8, <1>1 DEF Take, Leave, Dies, Load, Swap, NothingOpens, Register, Start, Started,
                    Wait, Close
<1>9. CASE OpenCandidate
  <2>1. session.workflow # "STOPPED"
    BY <1>9 DEF OpenCandidate, Current
  <2> QED BY <1>1, <1>9, <2>1, BindsMoves DEF OpenCandidate
<1>10. CASE OpenPrevious
  <2>1. session.workflow # "STOPPED"
    BY <1>10 DEF OpenPrevious, Current
  <2> QED BY <1>1, <1>10, <2>1, BindsMoves DEF OpenPrevious
<1>11. CASE Bind
  <2>1. CASE ~CurrentAt(Op.token, runner.generation)
    BY <1>1, <1>11, <2>1 DEF Bind
  <2>2. CASE CurrentAt(Op.token, runner.generation) /\ Op.paused
    <3>1. session.workflow # "STOPPED"
      BY <2>2 DEF CurrentAt, Current
    <3> QED BY <1>11, <2>2, <3>1, PausedMoves, OutcomeType DEF Bind
  <2>3. CASE CurrentAt(Op.token, runner.generation) /\ ~Op.paused
    <3> DEFINE state == IF session.fresh THEN session.state ELSE "listening"
    <3>1. session' = [session EXCEPT !.state = state, !.result = Outcome]
      BY <1>11, <2>3 DEF Bind
    <3>2. state \in {session.state, "listening"}
      OBVIOUS
    <3> HIDE DEF state
    <3> QED BY <3>1, <3>2, OutcomeType, ListeningMoves
  <2> QED BY <2>1, <2>2, <2>3
<1>12. CASE Fail
  <2>1. CASE ~Current(Op.token)
    BY <1>1, <1>12, <2>1 DEF Fail
  <2>2. CASE Current(Op.token)
    <3> DEFINE result == IF session.operation # 0 THEN "failed" ELSE "none"
    <3>1. session' = [Suspended(session) EXCEPT !.result = result]
      BY <1>12, <2>2 DEF Fail
    <3>2. result \in {"none", "pending", "applied", "rolled_back", "failed"}
      OBVIOUS
    <3> HIDE DEF result
    <3> QED BY <3>1, <3>2, FailedMoves
  <2> QED BY <2>1, <2>2
<1>13. ASSUME NEW g \in Generations, WorkerStep(g) PROVE Moves(session, session')
  <2>1. CASE Pcm(g) \/ SourceEnds(g) \/ Ask(g) \/ Begin(g) \/ Abandon(g) \/ Infer(g)
    BY <1>1, <2>1 DEF Pcm, SourceEnds, Ask, Begin, Abandon, Infer
  <2>2. CASE Publish(g)
    <3>1. CASE UNCHANGED session
      BY <1>1, <3>1
    <3>2. CASE session' # session
      <4>1. PICK fresh \in BOOLEAN :
              /\ Fresh(g)
              /\ session' = [session EXCEPT !.state = IF fresh THEN "active" ELSE "listening",
                                            !.fresh = fresh, !.shown = IF fresh THEN g ELSE 0]
        BY <2>2, <3>2 DEF Publish
      <4>2. session.generation = g /\ session.workflow # "STOPPED"
        BY <4>1 DEF Fresh, CurrentAt, Current
      <4>3. session.clock = session.generation
        BY <1>13, <4>2 DEF ClockKnown
      <4> QED BY <4>1, <4>2, <4>3, PublishedMoves
    <3> QED BY <3>1, <3>2
  <2>3. CASE Ended(g)
    BY <1>1, <2>3, SuspendedMoves DEF Ended
  <2> QED BY <1>13, <2>1, <2>2, <2>3 DEF WorkerStep
<1>14. CASE WatchPcm
  BY <1>14, ListeningMoves DEF WatchPcm
<1>15. CASE WatchWithdraws
  <2>1. session.workflow # "STOPPED"
    BY <1>15 DEF WatchWithdraws, Truthful
  <2> QED BY <1>15, <2>1, WithdrawnMoves DEF WatchWithdraws
<1>16. CASE Reap
  BY <1>1, <1>16 DEF Reap
<1>17. CASE Restart
  BY <1>17, RestartedMoves DEF Restart
<1>18. CASE UNCHANGED vars
  BY <1>1, <1>18 DEF vars
<1> QED
  BY <1>2, <1>3, <1>4, <1>5, <1>6, <1>7, <1>8, <1>9, <1>10, <1>11, <1>12, <1>13, <1>14,
     <1>15, <1>16, <1>17, <1>18 DEF Next, Command, Completion, RunnerStep

-----------------------------------------------------------------------------
(* Types of the other variables.                                           *)

Requested ==
  /\ deleting \in BOOLEAN
  /\ command \in CommandRecord
  /\ history \in [issued : Nat, applied : SUBSET CommandRecord, restarts : Nat, dropped : Nat]
  /\ switching \in [previous : BOOLEAN, paused : BOOLEAN]
  /\ scheduled \in Nat
  /\ token \in [id : Nat, set : BOOLEAN]
  /\ pending \in Operation
  /\ registered \in Nat
  /\ analyzer \in [instance : Nat, historical : BOOLEAN, failed : BOOLEAN, closed : BOOLEAN]
  /\ lock \in Nat
  /\ reaper \in {"none", "waiting", "done"}

LEMMA HandledStep ==
  ASSUME Requested, NEW action \in Actions, Handled(action)
  PROVE  /\ UNCHANGED <<deleting, scheduled, token, pending, registered, analyzer, lock, reaper>>
         /\ command' \in CommandRecord
         /\ command'.action = action
         /\ history' \in [issued : Nat, applied : SUBSET CommandRecord, restarts : Nat, dropped : Nat]
<1> DEFINE c == [action |-> action, key |-> Key]
<1>1. Key \in Nat
  BY DEF Key, Requested
<1>2. c \in CommandRecord /\ c.action = action
  BY <1>1 DEF CommandRecord
<1>3. /\ command' = c
      /\ history' = [history EXCEPT !.issued = Key, !.applied = history.applied \cup {c}]
  BY DEF Handled, Requested
<1> HIDE DEF c
<1>4. history' \in [issued : Nat, applied : SUBSET CommandRecord, restarts : Nat, dropped : Nat]
  BY <1>1, <1>2, <1>3 DEF Requested
<1> QED BY <1>2, <1>3, <1>4 DEF Handled

LEMMA ScheduledStep ==
  ASSUME Requested, NEW previous \in BOOLEAN, NEW paused \in BOOLEAN,
         Schedule(previous, paused)
  PROVE  /\ token' \in [id : Nat, set : BOOLEAN]
         /\ token'.id = token.id + 1
         /\ pending' \in Operation
         /\ pending'.token = token.id + 1
         /\ UNCHANGED <<worker, registered>>
BY DEF Schedule, Requested, Operation

LEMMA CancelStep ==
  ASSUME Requested, Cancel
  PROVE  /\ token' \in [id : Nat, set : BOOLEAN]
         /\ token'.id = token.id
         /\ token'.set = TRUE
         /\ registered' = 0
         /\ UNCHANGED <<pending, runner>>
BY DEF Cancel, Requested

LEMMA ReconcileStep ==
  ASSUME Requested, ReconcileSwitch \/ ReconcileOther
  PROVE  /\ scheduled' \in Nat
         /\ token' \in [id : Nat, set : BOOLEAN]
         /\ pending' \in Operation
         /\ registered' \in {0, registered}
         /\ \/ UNCHANGED <<token, pending, runner, registered, worker>>
            \/ Cancel /\ UNCHANGED scheduled
            \/ \E previous, paused \in BOOLEAN : Schedule(previous, paused)
<1>1. command.key \in Nat /\ switching.previous \in BOOLEAN /\ switching.paused \in BOOLEAN
  BY DEF Requested, CommandRecord
<1>2. CASE UNCHANGED <<token, pending, runner, registered, worker>> /\ scheduled' \in Nat
  BY <1>2 DEF Requested
<1>3. CASE Cancel /\ UNCHANGED scheduled
  BY <1>3, CancelStep DEF Requested
<1>4. ASSUME NEW previous \in BOOLEAN, NEW paused \in BOOLEAN, Schedule(previous, paused),
             scheduled' \in Nat
      PROVE  /\ scheduled' \in Nat
             /\ token' \in [id : Nat, set : BOOLEAN]
             /\ pending' \in Operation
             /\ registered' = registered
             /\ \E p, q \in BOOLEAN : Schedule(p, q)
  BY <1>4, ScheduledStep
<1>5. CASE ReconcileSwitch
  <2>1. \/ scheduled' = command.key /\ Schedule(switching.previous, switching.paused)
        \/ UNCHANGED <<scheduled, token, pending, runner, registered, worker>>
    BY <1>5 DEF ReconcileSwitch
  <2> QED BY <1>1, <1>2, <1>4, <2>1 DEF Requested
<1>6. CASE ReconcileOther
  <2>1. /\ UNCHANGED scheduled
        /\ \/ Cancel
           \/ Schedule(FALSE, FALSE)
           \/ UNCHANGED <<token, pending, runner, registered, worker>>
    BY <1>6 DEF ReconcileOther
  <2> QED BY <1>2, <1>3, <1>4, <2>1 DEF Requested
<1> QED BY <1>5, <1>6

LEMMA ClosingStep ==
  ASSUME Requested, NEW forDeletion \in BOOLEAN, CloseWhenIdle(forDeletion)
  PROVE  /\ analyzer' \in [instance : Nat, historical : BOOLEAN, failed : BOOLEAN,
                           closed : BOOLEAN]
         /\ reaper' \in {"none", "waiting", "done"}
BY DEF CloseWhenIdle, Requested

LEMMA RequestStep ==
  ASSUME Requested, session \in Session, runner \in RunnerState, Generations \subseteq Nat, [Next]_vars
  PROVE  Requested'
<1>0. /\ NoOperation \in Operation
      /\ NoCommand \in CommandRecord
      /\ [action |-> "delete", key |-> 0] \in CommandRecord
  BY NoOperationType DEF NoCommand, CommandRecord
<1>1. ASSUME NEW action \in Actions, Handled(action), switching' \in [previous : BOOLEAN, paused : BOOLEAN]
      PROVE  Requested'
  BY <1>1, HandledStep DEF Requested
<1>2. CASE Pause
  <2>1. "pause" \in Actions /\ Handled("pause") /\ UNCHANGED switching
    BY <1>2 DEF Pause, Actions
  <2> QED BY <1>1, <2>1 DEF Requested
<1>3. CASE Stop
  <2>1. "stop" \in Actions /\ Handled("stop") /\ UNCHANGED switching
    BY <1>3 DEF Stop, Actions
  <2> QED BY <1>1, <2>1 DEF Requested
<1>4. CASE Resume
  <2>1. "resume" \in Actions /\ Handled("resume") /\ UNCHANGED switching
    BY <1>4 DEF Resume, Actions
  <2> QED BY <1>1, <2>1 DEF Requested
<1>5. CASE Switch
  <2>1. /\ "switch" \in Actions /\ Handled("switch")
        /\ switching' = [previous |-> session.bound, paused |-> session.state = "paused"]
    BY <1>5 DEF Switch, Actions
  <2>2. session.bound \in BOOLEAN /\ (session.state = "paused") \in BOOLEAN
    BY SessionFields
  <2>3. switching' \in [previous : BOOLEAN, paused : BOOLEAN]
    BY <2>1, <2>2, Zenon
  <2> QED BY <1>1, <2>1, <2>3
<1>6. CASE Retry
  BY <1>6 DEF Retry, Requested
<1>7. CASE Delete
  <2>1. token' \in [id : Nat, set : BOOLEAN]
    BY <1>7 DEF Delete, Requested
  <2> QED BY <1>0, <1>7, <2>1 DEF Delete, Requested
<1>8. CASE Reconcile
  <2>1. ReconcileSwitch \/ ReconcileOther
    BY <1>8 DEF Reconcile
  <2>2. /\ scheduled' \in Nat
        /\ token' \in [id : Nat, set : BOOLEAN]
        /\ pending' \in Operation
        /\ registered' \in Nat
    BY <2>1, ReconcileStep DEF Requested
  <2>3. /\ analyzer' \in [instance : Nat, historical : BOOLEAN, failed : BOOLEAN,
                          closed : BOOLEAN]
        /\ reaper' \in {"none", "waiting", "done"}
    BY <1>8, ClosingStep DEF Reconcile, Requested
  <2> QED BY <1>0, <1>8, <2>2, <2>3 DEF Reconcile, Requested
<1>9. CASE DeleteSucceeds
  BY <1>0, <1>9, ClosingStep DEF DeleteSucceeds, Requested
<1>10. CASE DeleteFails
  <2> DEFINE d == IF session.result = "pending" THEN session.operation ELSE history.dropped
  <2>1. d \in Nat
    BY SessionFields DEF Requested
  <2>2. history' = [history EXCEPT !.dropped = d]
    BY <1>10 DEF DeleteFails, Requested
  <2> HIDE DEF d
  <2> QED BY <1>0, <1>10, <2>1, <2>2 DEF DeleteFails, Requested
<1>11. ASSUME UNCHANGED <<request, token, analyzer>>, history' = history,
              pending' \in Operation, registered' \in Nat, lock' \in Nat
       PROVE  Requested'
  BY <1>11 DEF request, Requested
<1>12. CASE Take
  <2>1. UNCHANGED <<request, history, token, analyzer, lock>> /\ pending' = NoOperation
    BY <1>12 DEF Take
  <2>2. registered' \in {0, registered}
    BY <1>12 DEF Take
  <2> QED BY <1>0, <1>11, <2>1, <2>2 DEF Requested
<1>13. CASE \/ Leave \/ Dies \/ Load \/ NothingOpens \/ OpenCandidate \/ OpenPrevious
            \/ Start \/ Started \/ Wait \/ Bind \/ Fail \/ WatchPcm \/ WatchWithdraws
  <2>1. UNCHANGED <<control, history, registered, analyzer, lock>>
    BY <1>13 DEF Leave, Dies, Load, NothingOpens, OpenCandidate, OpenPrevious, Start, Started,
                 Wait, Bind, Fail, WatchPcm, WatchWithdraws
  <2> QED BY <1>11, <2>1 DEF control, Requested
<1>14. CASE Register
  <2>1. UNCHANGED <<control, history, analyzer, lock>> /\ registered' \in Nat
    BY <1>14, RunnerFields DEF Register
  <2> QED BY <1>11, <2>1 DEF control, Requested
<1>15. CASE Close
  <2>1. UNCHANGED <<control, history, analyzer, lock>> /\ registered' \in Nat
    BY <1>15 DEF Close, Requested
  <2> QED BY <1>11, <2>1 DEF control, Requested
<1>16. CASE Swap
  <2>1. /\ UNCHANGED <<control, history, registered, lock>>
        /\ \/ UNCHANGED analyzer
           \/ analyzer' = [instance |-> analyzer.instance + 1, historical |-> FALSE,
                           failed |-> FALSE, closed |-> FALSE]
    BY <1>16 DEF Swap
  <2>2. analyzer' \in [instance : Nat, historical : BOOLEAN, failed : BOOLEAN, closed : BOOLEAN]
    <3>1. analyzer.instance + 1 \in Nat
      BY DEF Requested
    <3>2. CASE analyzer' = analyzer
      BY <3>2 DEF Requested
    <3>3. CASE analyzer' = [instance |-> analyzer.instance + 1, historical |-> FALSE,
                            failed |-> FALSE, closed |-> FALSE]
      BY <3>1, <3>3
    <3> QED BY <2>1, <3>2, <3>3
  <2> QED BY <2>1, <2>2 DEF control, request, Requested
<1>17. ASSUME NEW g \in Generations, g \in Nat, WorkerStep(g) PROVE Requested'
  <2>1. CASE Pcm(g) \/ SourceEnds(g) \/ Ask(g) \/ Abandon(g) \/ Publish(g) \/ Ended(g)
    <3>1. UNCHANGED <<control, history, registered, analyzer, lock>>
      BY <2>1 DEF Pcm, SourceEnds, Ask, Abandon, Publish, Ended
    <3> QED BY <1>11, <3>1 DEF control, Requested
  <2>2. CASE Begin(g)
    <3>1. UNCHANGED <<control, history, registered, analyzer>> /\ lock' = g
      BY <2>2 DEF Begin
    <3> QED BY <1>11, <1>17, <3>1 DEF control, Requested
  <2>3. CASE Infer(g)
    <3>1. /\ UNCHANGED <<control, history, registered>> /\ lock' = 0
          /\ \/ UNCHANGED analyzer
             \/ analyzer' = [analyzer EXCEPT !.failed = analyzer.failed \/ Fresh(g)]
      BY <2>3 DEF Infer
    <3>2. analyzer' \in [instance : Nat, historical : BOOLEAN, failed : BOOLEAN,
                         closed : BOOLEAN]
      BY <3>1 DEF Requested
    <3> QED BY <3>1, <3>2 DEF control, request, Requested
  <2> QED BY <1>17, <2>1, <2>2, <2>3 DEF WorkerStep
<1>18. CASE Reap
  <2>1. analyzer' \in [instance : Nat, historical : BOOLEAN, failed : BOOLEAN, closed : BOOLEAN]
    BY <1>18 DEF Reap, Requested
  <2> QED BY <1>18, <2>1 DEF Reap, Requested
<1>19. CASE Restart
  <2>1. history' \in [issued : Nat, applied : SUBSET CommandRecord, restarts : Nat, dropped : Nat]
    BY <1>19 DEF Restart, Requested
  <2> QED BY <1>0, <1>19, <2>1 DEF Restart, Requested
<1>20. CASE UNCHANGED vars
  BY <1>20 DEF vars, Requested
<1> QED
  BY <1>2, <1>3, <1>4, <1>5, <1>6, <1>7, <1>8, <1>9, <1>10, <1>12, <1>13, <1>14, <1>15,
     <1>16, <1>17, <1>18, <1>19, <1>20 DEF Next, Command, Completion, RunnerStep

-----------------------------------------------------------------------------
(* Types of the runner.                                                    *)

LEMMA ScheduledRunner ==
  ASSUME NEW previous, NEW paused, Schedule(previous, paused)
  PROVE  runner' = (IF Active THEN runner ELSE At("take"))
BY DEF Schedule

LEMMA BindsRunner ==
  ASSUME session \in Session, runner \in RunnerState, NEW rollback \in BOOLEAN,
         ~rollback => runner.left # 0, Binds(rollback)
  PROVE  /\ runner' \in RunnerState
         /\ runner'.pc = "register"
         /\ runner'.generation = session.generation + 1
         /\ runner'.op.token = runner.op.token
<1> DEFINE op == [runner.op EXCEPT !.previous = runner.op.previous /\ ~rollback]
           left == IF rollback THEN 0 ELSE runner.left - 1
           g == session.generation + 1
<1>1. /\ runner.op \in Operation /\ runner.op.previous \in BOOLEAN
      /\ runner.left \in Nat /\ runner.kept \in BOOLEAN
  BY RunnerFields
<1>2. g \in Nat /\ left \in Nat
  BY <1>1, SessionFields
<1>3. (runner.op.previous /\ ~rollback) \in BOOLEAN
  OBVIOUS
<1>4. op \in Operation /\ op.token = runner.op.token
  BY <1>1, <1>3 DEF Operation
<1> DEFINE r == Runner("register", op, left, rollback, g, runner.kept)
<1>5. runner' = r
  BY DEF Binds, Op
<1> HIDE DEF op, left, g
<1>6. r \in RunnerState /\ r.pc = "register" /\ r.op = op /\ r.generation = g
  <2>1. "register" \in {"dead", "leaving", "take", "load", "swap", "open", "register", "start",
                        "opened", "wait", "bind", "close", "fail"}
    OBVIOUS
  <2>2. r \in RunnerState
    BY <1>1, <1>2, <1>4, <2>1, Zenon DEF Runner, RunnerState
  <2> QED BY <2>2 DEF Runner
<1> HIDE DEF r
<1> QED BY <1>4, <1>5, <1>6 DEF g

LEMMA RunnerStepType ==
  ASSUME TypeOK, [Next]_vars
  PROVE  runner' \in RunnerState
<1>0. /\ runner \in RunnerState /\ session \in Session
      /\ runner.pc \in {"dead", "leaving", "take", "load", "swap", "open", "register", "start",
                        "opened", "wait", "bind", "close", "fail"}
      /\ runner.left \in Nat
      /\ Requested
  BY RunnerFields DEF TypeOK, Requested
<1>1. ASSUME UNCHANGED runner PROVE runner' \in RunnerState
  BY <1>0, <1>1
<1>2. ASSUME NEW pc \in {"dead", "leaving", "take"}, runner' = At(pc)
      PROVE  runner' \in RunnerState
  BY <1>2, AtType
<1>3. ASSUME NEW pc \in {"dead", "leaving", "take", "load", "swap", "open", "register", "start",
                         "opened", "wait", "bind", "close", "fail"},
             Steps(pc)
      PROVE  runner' \in RunnerState
  BY <1>0, <1>3 DEF Steps, RunnerState
<1>4. Finished => runner' \in RunnerState
  BY <1>2 DEF Finished
<1>5. CASE \/ Pause \/ Stop \/ Resume \/ Switch \/ Retry \/ Delete \/ DeleteSucceeds
           \/ DeleteFails \/ WatchPcm \/ WatchWithdraws \/ Reap
  <2>1. UNCHANGED runner
    BY <1>5 DEF Pause, Stop, Resume, Switch, Handled, Retry, Delete, DeleteSucceeds, DeleteFails,
                WatchPcm, WatchWithdraws, Reap
  <2> QED BY <1>1, <2>1
<1>6. CASE Reconcile
  <2>1. ReconcileSwitch \/ ReconcileOther
    BY <1>6 DEF Reconcile
  <2>2. runner' = runner \/ runner' = At("take")
    BY <1>0, <2>1, ReconcileStep, ScheduledRunner DEF Cancel
  <2> QED BY <1>1, <1>2, <2>2
<1>7. CASE Leave \/ Dies \/ Restart
  BY <1>2, <1>7 DEF Leave, Dies, Restart
<1>8. CASE Take
  <2>1. \/ UNCHANGED runner
        \/ Finished
        \/ runner' = Runner("load", pending, 0, FALSE, 0, FALSE)
        \/ \E n \in 0..Candidates : runner' = Runner("open", pending, n, FALSE, 0, FALSE)
    BY <1>8 DEF Take
  <2>2. /\ 0 \in Nat /\ FALSE \in BOOLEAN /\ 0..Candidates \subseteq Nat
        /\ pending \in Operation
    BY LiveAudioAssumption DEF TypeOK
  <2>3. Runner("load", pending, 0, FALSE, 0, FALSE) \in RunnerState
    BY <2>2, RunnerType, ZenonT(40)
  <2>4. \A n \in Nat : Runner("open", pending, n, FALSE, 0, FALSE) \in RunnerState
    BY <2>2, RunnerType, ZenonT(40)
  <2> QED BY <1>1, <1>4, <2>1, <2>2, <2>3, <2>4
<1>9. CASE Load \/ NothingOpens \/ Register \/ Start \/ Started \/ Wait
  BY <1>3, <1>4, <1>9 DEF Load, NothingOpens, Register, Start, Started, Wait
<1>10. CASE Swap
  <2>1. Resolve \/ Finished
    BY <1>10 DEF Swap
  <2>2. CASE Resolve
    <3>1. PICK n \in 0..Candidates : runner' = [runner EXCEPT !.pc = "open", !.left = n]
      BY <2>2 DEF Resolve
    <3>2. n \in Nat
      BY LiveAudioAssumption
    <3> QED BY <1>0, <3>1, <3>2 DEF RunnerState
  <2> QED BY <1>4, <2>1, <2>2
<1>11. CASE OpenCandidate
  <2>1. runner.left # 0
    BY <1>0, <1>11 DEF OpenCandidate
  <2>2. CASE Binds(FALSE)
    BY <1>0, <2>1, <2>2, BindsRunner
  <2>3. CASE runner' = [runner EXCEPT !.left = runner.left - 1]
    <3>1. runner.left - 1 \in Nat
      BY <1>0, <2>1
    <3> QED BY <1>0, <2>3, <3>1 DEF RunnerState
  <2> QED BY <1>11, <2>2, <2>3 DEF OpenCandidate
<1>12. CASE OpenPrevious
  <2>1. CASE Binds(TRUE)
    BY <1>0, <2>1, BindsRunner
  <2> QED BY <1>3, <1>12, <2>1 DEF OpenPrevious
<1>13. CASE Bind
  <2>1. CASE CurrentAt(Op.token, runner.generation) /\ Op.paused
    <3>1. runner' = [runner EXCEPT !.pc = "close", !.kept = TRUE]
      BY <1>13, <2>1 DEF Bind
    <3> QED BY <1>0, <3>1 DEF RunnerState
  <2>2. CASE ~CurrentAt(Op.token, runner.generation) \/ ~Op.paused
    BY <1>2, <1>3, <1>13, <2>2 DEF Bind
  <2> QED BY <2>1, <2>2
<1>14. CASE Close
  <2>1. Finished \/ Steps(IF runner.rollback THEN "fail" ELSE "open")
    BY <1>14 DEF Close
  <2> QED BY <1>3, <1>4, <2>1
<1>15. CASE Fail
  BY <1>4, <1>15 DEF Fail
<1>16. ASSUME NEW g \in Generations, WorkerStep(g) PROVE runner' \in RunnerState
  <2>1. UNCHANGED runner
    BY <1>16 DEF WorkerStep, Pcm, SourceEnds, Ask, Begin, Abandon, Infer, Publish, Ended
  <2> QED BY <1>1, <2>1
<1>17. CASE UNCHANGED vars
  BY <1>1, <1>17 DEF vars
<1> QED
  BY <1>5, <1>6, <1>7, <1>8, <1>9, <1>10, <1>11, <1>12, <1>13, <1>14, <1>15, <1>16, <1>17
  DEF Next, Command, Completion, RunnerStep

-----------------------------------------------------------------------------
(* Types of the workers, and which steps may open an input.                *)

\* Of n generations, no worker that had no input gets one.
Narrows(n) ==
  /\ worker' \in [1..n -> WorkerState]
  /\ \A h \in 1..n : worker'[h].open => worker[h].open

LEMMA ReplacedNarrows ==
  ASSUME NEW n \in Nat, worker \in [1..n -> WorkerState], NEW g \in 1..n,
         NEW w \in WorkerState, w.open => worker[g].open,
         worker' = [worker EXCEPT ![g] = w]
  PROVE  Narrows(n)
BY DEF Narrows

LEMMA StayingNarrows ==
  ASSUME NEW n \in Nat, worker \in [1..n -> WorkerState], UNCHANGED worker
  PROVE  Narrows(n)
BY DEF Narrows

LEMMA WorkerStepNarrows ==
  ASSUME NEW n \in Nat, worker \in [1..n -> WorkerState], NEW g \in 1..n, WorkerStep(g),
         analyzer \in [instance : Nat, historical : BOOLEAN, failed : BOOLEAN, closed : BOOLEAN]
  PROVE  Narrows(n)
<1> DEFINE w == worker[g]
<1>1. w \in WorkerState /\ analyzer.instance \in Nat
  OBVIOUS
<1>2. ASSUME NEW pc \in Threads, worker' = [worker EXCEPT ![g].pc = pc] PROVE Narrows(n)
  <2> DEFINE v == [w EXCEPT !.pc = pc]
  <2>1. v \in WorkerState /\ v.open = w.open
    BY <1>1 DEF WorkerState
  <2>2. worker' = [worker EXCEPT ![g] = v]
    BY <1>2
  <2> HIDE DEF v
  <2> QED BY <2>1, <2>2, ReplacedNarrows
<1>3. CASE Pcm(g)
  <2> DEFINE v == [w EXCEPT !.pcm = TRUE]
  <2>1. v \in WorkerState /\ v.open = w.open
    BY <1>1 DEF WorkerState
  <2>2. worker' = [worker EXCEPT ![g] = v]
    BY <1>3 DEF Pcm
  <2> HIDE DEF v
  <2> QED BY <2>1, <2>2, ReplacedNarrows
<1>4. CASE SourceEnds(g)
  <2>1. PICK f \in Faults \ {"model"} :
          worker' = [worker EXCEPT ![g].fault = f, ![g].open = FALSE]
    BY <1>4 DEF SourceEnds
  <2>2. f \in {"eof", "error"}
    BY LiveAudioAssumption
  <2> DEFINE v == [w EXCEPT !.fault = f, !.open = FALSE]
  <2>3. v \in WorkerState /\ v.open = FALSE
    BY <1>1, <2>2 DEF WorkerState
  <2>4. worker' = [worker EXCEPT ![g] = v]
    BY <2>1
  <2> HIDE DEF v
  <2> QED BY <2>3, <2>4, ReplacedNarrows
<1>5. CASE Ask(g)
  <2> DEFINE v == [w EXCEPT !.pc = "asked", !.instance = analyzer.instance]
  <2>1. v \in WorkerState /\ v.open = w.open
    BY <1>1 DEF WorkerState, Threads
  <2>2. worker' = [worker EXCEPT ![g] = v]
    BY <1>5 DEF Ask
  <2> HIDE DEF v
  <2> QED BY <2>1, <2>2, ReplacedNarrows
<1>6. CASE Begin(g)
  BY <1>2, <1>6 DEF Begin, Becomes, Threads
<1>7. ASSUME worker' = [worker EXCEPT ![g] = Between(w)] PROVE Narrows(n)
  <2>1. Between(w) \in WorkerState /\ (Between(w).open => w.open)
    BY <1>1, BetweenType
  <2> QED BY <1>7, <2>1, ReplacedNarrows
<1>8. CASE Abandon(g) \/ Publish(g)
  BY <1>7, <1>8 DEF Abandon, Publish
<1>9. CASE Infer(g)
  <2>1. CASE Becomes(g, "answered")
    BY <1>2, <2>1 DEF Becomes, Threads
  <2>2. CASE ~Becomes(g, "answered")
    <3> DEFINE v == [w EXCEPT !.pc = "idle", !.fault = "error", !.stop = TRUE]
    <3>1. v \in WorkerState /\ v.open = w.open
      BY <1>1 DEF WorkerState, Threads
    <3>2. worker' = [worker EXCEPT ![g] = v]
      BY <1>9, <2>2 DEF Infer
    <3> HIDE DEF v
    <3> QED BY <3>1, <3>2, ReplacedNarrows
  <2> QED BY <2>1, <2>2
<1>10. CASE Ended(g)
  <2> DEFINE v == IF registered = g THEN [NoWorker EXCEPT !.pc = "dead", !.pcm = w.pcm]
                  ELSE NoWorker
  <2>1. v \in WorkerState /\ v.open = FALSE
    BY <1>1, WorkerFields, NoWorkerType
  <2>2. worker' = [worker EXCEPT ![g] = v]
    BY <1>10 DEF Ended, W
  <2> HIDE DEF v
  <2> QED BY <2>1, <2>2, ReplacedNarrows
<1> QED
  BY <1>3, <1>4, <1>5, <1>6, <1>8, <1>9, <1>10 DEF WorkerStep

-----------------------------------------------------------------------------
(* Tokens: nobody holds one from the future, so a new token cancels every  *)
(* older operation.                                                        *)

Issued == runner.op.token <= token.id /\ pending.token <= token.id

LEMMA IssuedStep ==
  ASSUME TypeOK, Issued, [Next]_vars
  PROVE  Issued'
<1>0. /\ runner \in RunnerState /\ runner.op \in Operation /\ runner.op.token \in Nat
      /\ token.id \in Nat /\ pending.token \in Nat /\ token \in [id : Nat, set : BOOLEAN]
      /\ session \in Session
      /\ NoOperation.token = 0
      /\ Requested
  BY RunnerFields DEF TypeOK, Requested, Operation, NoOperation
<1>1. ASSUME runner'.op.token \in {runner.op.token, pending.token, 0},
             pending'.token \in {pending.token, 0}, token'.id = token.id
      PROVE  Issued'
  BY <1>0, <1>1 DEF Issued
<1>2. \A pc \in {"dead", "leaving", "take"} : At(pc).op.token = 0
  BY AtType
<1>3. CASE \/ Pause \/ Stop \/ Resume \/ Switch \/ Retry \/ DeleteSucceeds \/ DeleteFails
           \/ WatchPcm \/ WatchWithdraws \/ Reap
  <2>1. UNCHANGED <<runner, pending, token>>
    BY <1>3 DEF Pause, Stop, Resume, Switch, Handled, Retry, DeleteSucceeds, DeleteFails,
                WatchPcm, WatchWithdraws, Reap, control
  <2> QED BY <1>1, <2>1
<1>4. CASE Delete
  <2>1. UNCHANGED runner /\ pending' = NoOperation /\ token'.id = token.id
    BY <1>0, <1>4 DEF Delete
  <2> QED BY <1>0, <1>1, <2>1
<1>5. CASE Reconcile
  <2>1. \/ UNCHANGED <<token, pending, runner, registered, worker>>
        \/ Cancel /\ UNCHANGED scheduled
        \/ \E previous, paused \in BOOLEAN : Schedule(previous, paused)
    BY <1>0, <1>5, ReconcileStep DEF Reconcile
  <2>2. CASE UNCHANGED <<token, pending, runner, registered, worker>>
    BY <1>1, <2>2
  <2>3. CASE Cancel
    <3>1. token'.id = token.id /\ UNCHANGED <<pending, runner>>
      BY <1>0, <2>3, CancelStep
    <3> QED BY <1>1, <3>1
  <2>4. CASE \E previous, paused \in BOOLEAN : Schedule(previous, paused)
    <3>1. PICK previous, paused \in BOOLEAN : Schedule(previous, paused)
      BY <2>4
    <3>2. token'.id = token.id + 1 /\ pending'.token = token.id + 1
      BY <1>0, <3>1, ScheduledStep
    <3>3. runner' = runner \/ runner' = At("take")
      BY <3>1, ScheduledRunner
    <3>4. runner'.op.token \in {runner.op.token, 0}
      BY <1>2, <3>3
    <3> QED BY <1>0, <3>2, <3>4 DEF Issued
  <2> QED BY <2>1, <2>2, <2>3, <2>4
<1>6. CASE Restart
  <2>1. runner' = At("dead") /\ pending' = NoOperation /\ token'.id = token.id
    BY <1>6 DEF Restart
  <2> QED BY <1>0, <1>1, <1>2, <2>1
<1>7. CASE Take
  <2>1. UNCHANGED token /\ pending' = NoOperation
    BY <1>7 DEF Take, request
  <2>2. \/ UNCHANGED runner
        \/ runner' = At("take")
        \/ runner' = Runner("load", pending, 0, FALSE, 0, FALSE)
        \/ \E n \in 0..Candidates : runner' = Runner("open", pending, n, FALSE, 0, FALSE)
    BY <1>7 DEF Take, Finished
  <2>3. /\ Runner("load", pending, 0, FALSE, 0, FALSE).op = pending
        /\ \A n : Runner("open", pending, n, FALSE, 0, FALSE).op = pending
    BY DEF Runner
  <2>4. runner'.op.token \in {runner.op.token, pending.token, 0}
    BY <1>2, <2>2, <2>3
  <2> QED BY <1>0, <1>1, <2>1, <2>4
<1>8. ASSUME UNCHANGED <<pending, token>>, runner'.op.token = runner.op.token \/ Finished
      PROVE  Issued'
  BY <1>1, <1>2, <1>8 DEF Finished
<1>9. ASSUME NEW pc, Steps(pc) PROVE runner'.op.token = runner.op.token
  BY <1>0, <1>9 DEF Steps, RunnerState
<1>10. CASE Leave \/ Dies
  <2>1. UNCHANGED <<pending, token>> /\ (runner' = At("leaving") \/ runner' = At("dead"))
    BY <1>10 DEF Leave, Dies, control
  <2> QED BY <1>1, <1>2, <2>1
<1>11. CASE Load \/ NothingOpens \/ Register \/ Start \/ Started \/ Wait \/ Close \/ Fail
  <2>1. UNCHANGED <<pending, token>>
    BY <1>11 DEF Load, NothingOpens, Register, Start, Started, Wait, Close, Fail, control
  <2>2. \/ Finished \/ Steps("fail") \/ Steps("swap") \/ Steps("start") \/ Steps("close")
        \/ Steps("opened") \/ Steps("wait") \/ Steps("bind") \/ Steps("open")
    <3>1. CASE Load \/ NothingOpens \/ Fail
      BY <3>1 DEF Load, NothingOpens, Fail
    <3>2. CASE Register \/ Close
      BY <3>2 DEF Register, Close, Steps
    <3>3. CASE Start \/ Started \/ Wait
      BY <3>3 DEF Start, Started, Wait
    <3> QED BY <1>11, <3>1, <3>2, <3>3
  <2> QED BY <1>8, <1>9, <2>1, <2>2
<1>12. CASE Swap
  <2>1. UNCHANGED <<pending, token>> /\ (Resolve \/ Finished)
    BY <1>12 DEF Swap, control
  <2>2. Resolve => runner'.op.token = runner.op.token
    BY <1>0 DEF Resolve, RunnerState
  <2> QED BY <1>8, <2>1, <2>2
<1>13. CASE OpenCandidate \/ OpenPrevious
  <2>1. /\ UNCHANGED <<pending, token>>
        /\ \/ \E rollback \in BOOLEAN : Binds(rollback)
           \/ runner' = [runner EXCEPT !.left = runner.left - 1]
           \/ Steps("fail")
    BY <1>13 DEF OpenCandidate, OpenPrevious, control
  <2>2. ASSUME NEW rollback \in BOOLEAN, Binds(rollback)
        PROVE  runner'.op.token = runner.op.token
    <3>1. runner'.op = [runner.op EXCEPT !.previous = runner.op.previous /\ ~rollback]
      BY <2>2 DEF Binds, Op, Runner
    <3> QED BY <1>0, <3>1 DEF Operation
  <2>3. runner' = [runner EXCEPT !.left = runner.left - 1] => runner'.op.token = runner.op.token
    BY <1>0 DEF RunnerState
  <2> QED BY <1>8, <1>9, <2>1, <2>2, <2>3
<1>14. CASE Bind
  <2>1. /\ UNCHANGED <<pending, token>>
        /\ \/ runner' = [runner EXCEPT !.pc = "close", !.kept = TRUE]
           \/ Finished
           \/ Steps("close")
    BY <1>14 DEF Bind, control, Finished
  <2>2. runner' = [runner EXCEPT !.pc = "close", !.kept = TRUE]
          => runner'.op.token = runner.op.token
    BY <1>0 DEF RunnerState
  <2> QED BY <1>8, <1>9, <2>1, <2>2
<1>15. ASSUME NEW g \in Generations, WorkerStep(g) PROVE Issued'
  <2>1. UNCHANGED <<runner, pending, token>>
    BY <1>15 DEF WorkerStep, Pcm, SourceEnds, Ask, Begin, Abandon, Infer, Publish, Ended, control
  <2> QED BY <1>1, <2>1
<1>16. CASE UNCHANGED vars
  BY <1>1, <1>16 DEF vars
<1> QED
  BY <1>3, <1>4, <1>5, <1>6, <1>7, <1>10, <1>11, <1>12, <1>13, <1>14, <1>15, <1>16
  DEF Next, Command, Completion, RunnerStep

-----------------------------------------------------------------------------
(* Who owns an input device.                                               *)

\* The runner is at an attempt, from its generation on.
Attending == {"register", "start", "opened", "wait", "bind", "close"}

\* The attempt has a stream of its own to close.
Holding == {"opened", "wait", "bind", "close"}

\* The registered worker is that of the attempt, if there is one; while nothing
\* cancels the attempt it stays registered.
Owned ==
  /\ registered \in Generations \cup {0}
  /\ runner.pc \in Attending => /\ runner.generation \in Generations
                                /\ registered \in {0, runner.generation}
  /\ runner.pc \in {"load", "swap", "open", "fail", "register"} => registered = 0
  /\ NoOrphanDevice
  /\ runner.pc \in {"start", "opened", "wait", "bind"} /\ ~Cancelled(Op.token) =>
       registered = runner.generation

LEMMA OwnedIn ==
  ASSUME NEW n \in Nat, worker \in [1..n -> WorkerState]
  PROVE  /\ Generations = 1..n
         /\ NoOrphanDevice <=>
              \A g \in 1..n : worker[g].open =>
                \/ registered = g
                \/ runner.generation = g /\ runner.pc \in Holding
<1>1. Generations = 1..n
  BY DEF Generations
<1> QED BY <1>1 DEF NoOrphanDevice, Devices, Holding

LEMMA OwnedNext ==
  ASSUME NEW n \in Nat, worker' \in [1..n -> WorkerState]
  PROVE  /\ Generations' = 1..n
         /\ NoOrphanDevice' <=>
              \A g \in 1..n : worker'[g].open =>
                \/ registered' = g
                \/ runner'.generation = g /\ runner'.pc \in Holding
<1>1. Generations' = 1..n
  BY DEF Generations
<1> QED BY <1>1 DEF NoOrphanDevice, Devices, Holding

\* A step that moves nothing the runner or the registry is responsible for.
LEMMA OwnedKept ==
  ASSUME NEW n \in Nat, worker \in [1..n -> WorkerState], Owned, Narrows(n),
         UNCHANGED <<registered, runner>>, token' = token \/ token'.set = TRUE
  PROVE  Owned'
<1>1. Cancelled(Op.token) => Cancelled(Op.token)'
  BY DEF Cancelled, Op
<1> QED BY <1>1, OwnedIn, OwnedNext DEF Owned, Narrows, Op

\* A cancelled operation: its worker is retired, the stream being opened is left
\* to the runner.
LEMMA OwnedCancelled ==
  ASSUME NEW n \in Nat, worker \in [1..n -> WorkerState], Owned, registered \in Nat,
         UNCHANGED runner, token'.set = TRUE,
         worker' = Retired(worker, registered), registered' = 0
  PROVE  Owned' /\ worker' \in [1..n -> WorkerState]
<1>1. /\ worker' \in [1..n -> WorkerState]
      /\ \A h \in 1..n : /\ worker'[h].open => worker[h].open
                         /\ h = registered /\ worker'[h].open
                              => runner.pc = "opened" /\ runner.generation = registered
  BY RetiredType
<1>2. Cancelled(Op.token)'
  BY DEF Cancelled, Op
<1>3. NoOrphanDevice'
  BY <1>1, OwnedIn, OwnedNext DEF Owned, Holding
<1>4. Generations' = Generations
  BY <1>1, OwnedIn, OwnedNext
<1> QED BY <1>1, <1>2, <1>3, <1>4 DEF Owned, Op

LEMMA OwnedScheduled ==
  ASSUME NEW n \in Nat, worker \in [1..n -> WorkerState], Owned, Issued, Requested,
         runner \in RunnerState,
         NEW previous \in BOOLEAN, NEW paused \in BOOLEAN, Schedule(previous, paused)
  PROVE  Owned' /\ worker' \in [1..n -> WorkerState]
<1>1. UNCHANGED <<worker, registered>> /\ token'.id = token.id + 1
  BY ScheduledStep
<1>2. runner' = IF Active THEN runner ELSE At("take")
  BY ScheduledRunner
<1>3. At("take").pc = "take"
  BY AtType
<1>4. runner.op.token \in Nat /\ token.id \in Nat
  BY RunnerFields DEF Requested
<1>5. CASE Active
  <2>1. Cancelled(Op.token)'
    BY <1>1, <1>2, <1>4, <1>5 DEF Cancelled, Op, Issued
  <2> QED BY <1>1, <1>2, <1>5, <2>1, OwnedIn, OwnedNext DEF Owned, Op
<1>6. CASE ~Active
  <2>1. runner.pc \notin Holding /\ runner'.pc = "take"
    BY <1>2, <1>3, <1>6 DEF Active, Holding
  <2> QED BY <1>1, <2>1, OwnedIn, OwnedNext DEF Owned, Attending
<1> QED BY <1>5, <1>6

\* The runner ends an operation it has no stream for.
LEMMA OwnedFinished ==
  ASSUME NEW n \in Nat, worker \in [1..n -> WorkerState], Owned,
         UNCHANGED <<worker, registered>>, runner.pc \notin Holding,
         runner'.pc \in {"take", "leaving", "dead"}
  PROVE  Owned'
BY OwnedIn, OwnedNext DEF Owned, Attending, Holding

\* The runner is between two attempts.
LEMMA OwnedBetween ==
  ASSUME NEW n \in Nat, worker \in [1..n -> WorkerState], Owned,
         UNCHANGED <<worker, registered>>, runner.pc \in {"load", "swap", "open"},
         runner'.pc \in {"load", "swap", "open", "fail"}
  PROVE  Owned'
BY OwnedIn, OwnedNext DEF Owned, Attending, Holding

\* The runner goes on with its attempt.
LEMMA OwnedAttempt ==
  ASSUME NEW n \in Nat, worker \in [1..n -> WorkerState], Owned, Narrows(n),
         UNCHANGED <<registered, token>>, runner'.generation = runner.generation,
         runner'.op.token = runner.op.token,
         \/ runner.pc = "opened" /\ runner'.pc \in {"wait", "close"}
         \/ runner.pc = "wait" /\ runner'.pc \in {"bind", "close"}
         \/ runner.pc = "bind" /\ runner'.pc = "close"
         \/ runner.pc = "start" /\ runner'.pc = "close"
  PROVE  Owned'
<1>1. Cancelled(Op.token)' <=> Cancelled(Op.token)
  BY DEF Cancelled, Op
<1>2. Generations' = Generations
  BY OwnedIn, OwnedNext DEF Narrows
<1>3. NoOrphanDevice'
  BY OwnedIn, OwnedNext DEF Owned, Narrows, Holding
<1> QED BY <1>1, <1>2, <1>3 DEF Owned, Attending, Op

LEMMA OwnedBinds ==
  ASSUME NEW n \in Nat, worker \in [1..n -> WorkerState], Owned, TypeOK,
         n <= session.generation, runner.pc = "open", UNCHANGED registered,
         NEW rollback \in BOOLEAN, ~rollback => runner.left # 0, Binds(rollback),
         session'.generation = session.generation + 1
  PROVE  Owned' /\ worker' \in [1..session'.generation -> WorkerState]
<1> DEFINE m == session.generation + 1
<1>1. m \in Nat /\ n <= m
  BY SessionFields DEF TypeOK
<1>2. /\ runner'.pc = "register"
      /\ runner'.generation = m
  BY BindsRunner DEF TypeOK
<1>3. worker' = Extended(m)
  BY DEF Binds
<1>4. m \in 1..m
  BY SessionFields DEF TypeOK
<1> HIDE DEF m
<1>5. /\ worker' \in [1..m -> WorkerState]
      /\ \A g \in 1..m : worker'[g].open => g \in 1..n /\ worker[g].open
  BY <1>1, <1>3, ExtendedType
<1>6. registered = 0
  BY DEF Owned
<1>7. \A g \in 1..n : ~worker[g].open
  BY <1>6, OwnedIn DEF Owned, Holding
<1>8. Generations' = 1..m /\ NoOrphanDevice'
  BY <1>1, <1>5, <1>7, OwnedNext
<1>9. Owned'
  BY <1>2, <1>4, <1>6, <1>8 DEF Owned, Attending
<1> QED BY <1>5, <1>9 DEF m

LEMMA OwnedTake ==
  ASSUME NEW n \in Nat, worker \in [1..n -> WorkerState], Owned, TypeOK, Take
  PROVE  Owned' /\ worker' \in [1..n -> WorkerState]
<1>0. runner.pc = "take"
  BY DEF Take
<1>1. CASE UNCHANGED <<runner, worker, registered>>
  <2>1. UNCHANGED token
    BY DEF Take
  <2> QED BY <1>1, <2>1, OwnedKept, StayingNarrows
<1>2. CASE worker' = Retired(worker, registered) /\ registered' = 0
           /\ runner'.pc \in {"take", "load", "open"}
  <2>1. registered \in Nat
    BY DEF TypeOK
  <2>2. /\ worker' \in [1..n -> WorkerState]
        /\ \A h \in 1..n : /\ worker'[h].open => worker[h].open
                           /\ h = registered /\ worker'[h].open => runner.pc = "opened"
    BY <1>2, <2>1, RetiredType
  <2>3. \A h \in 1..n : ~worker'[h].open
    BY <1>0, <2>2, OwnedIn DEF Owned, Holding
  <2> QED BY <1>2, <2>2, <2>3, OwnedNext DEF Owned, Attending
<1>3. \/ UNCHANGED <<runner, worker, registered>>
      \/ /\ worker' = Retired(worker, registered) /\ registered' = 0
         /\ \/ runner' = At("take")
            \/ runner' = Runner("load", pending, 0, FALSE, 0, FALSE)
            \/ \E k \in 0..Candidates : runner' = Runner("open", pending, k, FALSE, 0, FALSE)
  BY DEF Take, Finished
<1>4. /\ At("take").pc = "take"
      /\ Runner("load", pending, 0, FALSE, 0, FALSE).pc = "load"
      /\ \A k : Runner("open", pending, k, FALSE, 0, FALSE).pc = "open"
  BY AtType DEF Runner
<1> QED BY <1>1, <1>2, <1>3, <1>4

LEMMA OwnedRegister ==
  ASSUME NEW n \in Nat, worker \in [1..n -> WorkerState], Owned, TypeOK, Register
  PROVE  Owned' /\ worker' \in [1..n -> WorkerState]
<1> DEFINE g == runner.generation
           w == NewWorker(Op.token)
           pc == IF CurrentAt(Op.token, runner.generation) THEN "start" ELSE "close"
<1>0. /\ runner.pc = "register" /\ registered' = g
      /\ worker' = [worker EXCEPT ![g] = w]
      /\ runner' = [runner EXCEPT !.pc = pc]
  BY DEF Register, Steps
<1>1. runner \in RunnerState /\ Op.token \in Nat /\ g \in Nat
  BY RunnerFields DEF TypeOK, Op
<1>2. w \in WorkerState /\ w.open = FALSE
  BY <1>1, NoWorkerType
<1>3. g \in 1..n /\ registered = 0
  BY <1>0, OwnedIn DEF Owned, Attending
<1> HIDE DEF w
<1>4. /\ worker' \in [1..n -> WorkerState]
      /\ \A h \in 1..n : worker'[h] = IF h = g THEN w ELSE worker[h]
  BY <1>0, <1>2, <1>3
<1>5. pc \in {"start", "close"}
  OBVIOUS
<1> HIDE DEF pc
<1>6. runner'.pc \in {"start", "close"} /\ runner'.generation = g
  BY <1>0, <1>1, <1>5 DEF RunnerState
<1>7. \A h \in 1..n : ~worker'[h].open
  BY <1>0, <1>2, <1>3, <1>4, OwnedIn DEF Owned, Holding
<1> HIDE DEF g
<1>8. Generations' = 1..n /\ NoOrphanDevice'
  BY <1>4, <1>7, OwnedNext
<1>9. registered' = runner'.generation /\ runner'.generation \in 1..n
  BY <1>0, <1>3, <1>6
<1>10. Owned'
  BY <1>6, <1>8, <1>9 DEF Owned, Attending
<1> QED BY <1>4, <1>10

\* Of a runner's state in an attempt, what Steps leaves alone.
LEMMA SteppedRunner ==
  ASSUME runner \in RunnerState, NEW pc, Steps(pc)
  PROVE  /\ runner'.pc = pc
         /\ runner'.op = runner.op
         /\ runner'.generation = runner.generation
BY DEF Steps, RunnerState

LEMMA OwnedStart ==
  ASSUME NEW n \in Nat, worker \in [1..n -> WorkerState], Owned, TypeOK, Start
  PROVE  Owned' /\ worker' \in [1..n -> WorkerState]
<1>0. runner.pc = "start" /\ UNCHANGED <<registered, token>> /\ runner \in RunnerState
  BY DEF Start, control, TypeOK
<1>1. CASE Steps("close") /\ UNCHANGED worker
  <2>1. runner'.pc = "close" /\ runner'.op = runner.op
        /\ runner'.generation = runner.generation
    BY <1>0, <1>1, SteppedRunner
  <2> QED BY <1>0, <1>1, <2>1, StayingNarrows, OwnedAttempt
<1>2. CASE Steps("opened") /\ worker' = [worker EXCEPT ![runner.generation].open = TRUE]
  <2> DEFINE g == runner.generation
             w == [worker[g] EXCEPT !.open = TRUE]
  <2>1. /\ runner'.pc = "opened" /\ runner'.op = runner.op
        /\ runner'.generation = g
    BY <1>0, <1>2, SteppedRunner
  <2>2. g \in 1..n /\ registered \in {0, g}
    BY <1>0, OwnedIn DEF Owned, Attending
  <2>3. w \in WorkerState
    BY <2>2, ZenonT(40) DEF WorkerState
  <2>4. worker' = [worker EXCEPT ![g] = w]
    BY <1>2
  <2> HIDE DEF w
  <2>5. /\ worker' \in [1..n -> WorkerState]
        /\ \A h \in 1..n : h # g => worker'[h] = worker[h]
    BY <2>2, <2>3, <2>4
  <2>6. \A h \in 1..n : worker[h].open => registered = h
    BY <1>0, OwnedIn DEF Owned, Holding
  <2> HIDE DEF g
  <2>7. Generations' = 1..n /\ NoOrphanDevice'
    BY <1>0, <2>1, <2>5, <2>6, OwnedNext DEF Holding
  <2>8. Cancelled(Op.token)' <=> Cancelled(Op.token)
    BY <1>0, <2>1 DEF Cancelled, Op
  <2>9. ~Cancelled(Op.token) => registered = g
    BY <1>0 DEF Owned, g
  <2>10. Owned'
    BY <1>0, <2>1, <2>2, <2>7, <2>8, <2>9 DEF Owned, Attending, Op
  <2> QED BY <2>5, <2>10
<1> QED BY <1>1, <1>2 DEF Start, Narrows

LEMMA OwnedStarted ==
  ASSUME NEW n \in Nat, worker \in [1..n -> WorkerState], Owned, TypeOK, Started
  PROVE  Owned' /\ worker' \in [1..n -> WorkerState]
<1> DEFINE g == runner.generation
<1>0. runner.pc = "opened" /\ UNCHANGED <<registered, token>> /\ runner \in RunnerState
  BY DEF Started, control, TypeOK
<1>1. g \in 1..n /\ worker[g] \in WorkerState
  BY <1>0, OwnedIn DEF Owned, Attending
<1>2. CASE Steps("close") /\ worker' = [worker EXCEPT ![g].open = FALSE]
  <2> DEFINE w == [worker[g] EXCEPT !.open = FALSE]
  <2>1. w \in WorkerState /\ w.open = FALSE
    BY <1>1 DEF WorkerState
  <2>2. worker' = [worker EXCEPT ![g] = w]
    BY <1>2
  <2> HIDE DEF w
  <2>3. Narrows(n)
    BY <1>1, <2>1, <2>2, ReplacedNarrows
  <2>4. runner'.pc = "close" /\ runner'.op = runner.op /\ runner'.generation = g
    BY <1>0, <1>2, SteppedRunner
  <2> QED BY <1>0, <2>3, <2>4, OwnedAttempt DEF Narrows
<1>3. CASE Steps("wait") /\ worker' = [worker EXCEPT ![g].pc = "idle"]
  <2> DEFINE w == [worker[g] EXCEPT !.pc = "idle"]
  <2>1. w \in WorkerState /\ w.open = worker[g].open
    BY <1>1 DEF WorkerState, Threads
  <2>2. worker' = [worker EXCEPT ![g] = w]
    BY <1>3
  <2> HIDE DEF w
  <2>3. Narrows(n)
    BY <1>1, <2>1, <2>2, ReplacedNarrows
  <2>4. runner'.pc = "wait" /\ runner'.op = runner.op /\ runner'.generation = g
    BY <1>0, <1>3, SteppedRunner
  <2> QED BY <1>0, <2>3, <2>4, OwnedAttempt DEF Narrows
<1> QED BY <1>2, <1>3 DEF Started

LEMMA OwnedWait ==
  ASSUME NEW n \in Nat, worker \in [1..n -> WorkerState], Owned, TypeOK, Wait
  PROVE  Owned' /\ worker' \in [1..n -> WorkerState]
<1>0. /\ runner.pc = "wait" /\ UNCHANGED <<registered, token>> /\ runner \in RunnerState
      /\ runner.generation \in Nat
  BY RunnerFields DEF Wait, control, TypeOK
<1>1. Narrows(n)
  <2>1. worker' = worker \/ worker' = Retired(worker, runner.generation)
    BY DEF Wait
  <2>2. CASE worker' = Retired(worker, runner.generation)
    BY <1>0, <2>2, RetiredType DEF Narrows
  <2> QED BY <2>1, <2>2, StayingNarrows
<1>2. Steps("bind") \/ Steps("close")
  BY DEF Wait
<1>3. /\ runner'.pc \in {"bind", "close"} /\ runner'.op = runner.op
      /\ runner'.generation = runner.generation
  BY <1>0, <1>2, SteppedRunner
<1> QED BY <1>0, <1>1, <1>3, OwnedAttempt DEF Narrows

LEMMA OwnedBind ==
  ASSUME NEW n \in Nat, worker \in [1..n -> WorkerState], Owned, TypeOK, Bind
  PROVE  Owned'
<1>0. /\ runner.pc = "bind" /\ UNCHANGED <<registered, token, worker>>
      /\ runner \in RunnerState
  BY DEF Bind, control, TypeOK
<1>1. CASE runner' = [runner EXCEPT !.pc = "close", !.kept = TRUE] \/ Steps("close")
  <2>1. /\ runner'.pc = "close" /\ runner'.op = runner.op
        /\ runner'.generation = runner.generation
    BY <1>0, <1>1, SteppedRunner DEF RunnerState
  <2> QED BY <1>0, <2>1, StayingNarrows, OwnedAttempt
<1>2. CASE ~Cancelled(Op.token) /\ runner' = At("take")
  <2>1. registered = runner.generation
    BY <1>0, <1>2 DEF Owned
  <2>2. runner'.pc = "take"
    BY <1>2, AtType
  <2> QED BY <1>0, <2>1, <2>2, OwnedIn, OwnedNext DEF Owned, Attending
<1>3. \/ runner' = [runner EXCEPT !.pc = "close", !.kept = TRUE]
      \/ Steps("close")
      \/ ~Cancelled(Op.token) /\ runner' = At("take")
  BY DEF Bind, CurrentAt, Current
<1> QED BY <1>1, <1>2, <1>3

LEMMA OwnedClose ==
  ASSUME NEW n \in Nat, worker \in [1..n -> WorkerState], Owned, TypeOK, Close
  PROVE  Owned' /\ worker' \in [1..n -> WorkerState]
<1> DEFINE g == runner.generation
<1>0. /\ runner.pc = "close" /\ runner \in RunnerState /\ g \in Nat
      /\ worker' = Retired(worker, g)
      /\ registered' = IF registered = g THEN 0 ELSE registered
  BY RunnerFields DEF Close, TypeOK
<1>1. registered \in {0, g} /\ registered' = 0
  BY <1>0 DEF Owned, Attending
<1>2. /\ worker' \in [1..n -> WorkerState]
      /\ \A h \in 1..n : /\ worker'[h].open => worker[h].open
                         /\ h = g /\ worker'[h].open => runner.pc = "opened"
  BY <1>0, RetiredType
<1>3. \A h \in 1..n : ~worker'[h].open
  BY <1>0, <1>1, <1>2, OwnedIn DEF Owned, Holding
<1>4. Finished \/ Steps("fail") \/ Steps("open")
  BY DEF Close, Steps
<1>5. runner'.pc \in {"take", "fail", "open"}
  BY <1>0, <1>4, AtType, SteppedRunner DEF Finished
<1> QED BY <1>1, <1>2, <1>3, <1>5, OwnedNext DEF Owned, Attending

-----------------------------------------------------------------------------
(* The inductive invariant.                                                *)

IInv == TypeOK /\ Truthful(session) /\ ClockKnown /\ Issued /\ Owned

\* The workers after a step: the same generations, those up to a source that
\* was just given its clock, or none.
Grown(n) ==
  \/ worker' \in [1..n -> WorkerState]
  \/ /\ worker' \in [1..session'.generation -> WorkerState]
     /\ session'.clock = session'.generation
  \/ worker' \in [1..0 -> WorkerState]

LEMMA OwnedStep ==
  ASSUME IInv, NEW n \in Nat, worker \in [1..n -> WorkerState], n <= session.generation,
         [Next]_vars
  PROVE  Owned' /\ Grown(n)
<1>0. /\ TypeOK /\ Owned /\ Issued /\ Requested
      /\ session \in Session /\ runner \in RunnerState /\ registered \in Nat
      /\ runner.left \in Nat
      /\ Generations = 1..n
  BY RunnerFields, OwnedIn DEF IInv, TypeOK, Requested
<1>1. ASSUME Owned', worker' \in [1..n -> WorkerState] PROVE Owned' /\ Grown(n)
  BY <1>1 DEF Grown
<1>2. ASSUME UNCHANGED <<worker, registered, runner>>, token' = token \/ token'.set = TRUE
      PROVE  Owned' /\ Grown(n)
  <2>1. Narrows(n)
    BY <1>2, StayingNarrows
  <2> QED BY <1>0, <1>1, <1>2, <2>1, OwnedKept DEF Narrows
<1>3. CASE \/ Pause \/ Stop \/ Resume \/ Switch \/ Retry \/ DeleteSucceeds \/ DeleteFails
           \/ WatchPcm \/ WatchWithdraws \/ Reap
  <2>1. UNCHANGED <<worker, registered, runner, token>>
    BY <1>3 DEF Pause, Stop, Resume, Switch, Handled, Retry, DeleteSucceeds, DeleteFails,
                WatchPcm, WatchWithdraws, Reap, control
  <2> QED BY <1>2, <2>1
<1>4. ASSUME UNCHANGED runner, token'.set = TRUE, worker' = Retired(worker, registered),
             registered' = 0
      PROVE  Owned' /\ Grown(n)
  BY <1>0, <1>1, <1>4, OwnedCancelled
<1>5. CASE Delete
  <2>1. /\ UNCHANGED runner /\ worker' = Retired(worker, registered) /\ registered' = 0
        /\ token' = [token EXCEPT !.set = TRUE]
    BY <1>5 DEF Delete
  <2>2. token'.set = TRUE
    BY <1>0, <2>1 DEF Requested
  <2> QED BY <1>4, <2>1, <2>2
<1>6. CASE Reconcile
  <2>1. \/ UNCHANGED <<token, pending, runner, registered, worker>>
        \/ Cancel /\ UNCHANGED scheduled
        \/ \E previous, paused \in BOOLEAN : Schedule(previous, paused)
    BY <1>0, <1>6, ReconcileStep DEF Reconcile
  <2>2. CASE UNCHANGED <<token, pending, runner, registered, worker>>
    BY <1>2, <2>2
  <2>3. CASE Cancel
    <3>1. /\ UNCHANGED runner /\ token'.set = TRUE /\ registered' = 0
          /\ worker' = Retired(worker, registered)
      BY <1>0, <2>3, CancelStep DEF Cancel
    <3> QED BY <1>4, <3>1
  <2>4. CASE \E previous, paused \in BOOLEAN : Schedule(previous, paused)
    BY <1>0, <1>1, <2>4, OwnedScheduled
  <2> QED BY <2>1, <2>2, <2>3, <2>4
<1>7. ASSUME UNCHANGED <<worker, registered>>, runner.pc \notin Holding,
             runner'.pc \in {"take", "leaving", "dead"}
      PROVE  Owned' /\ Grown(n)
  BY <1>0, <1>1, <1>7, OwnedFinished
<1>8. \A pc \in {"dead", "leaving", "take"} : At(pc).pc = pc
  BY AtType
<1>9. CASE Leave \/ Dies
  BY <1>7, <1>8, <1>9 DEF Leave, Dies, Holding
<1>10. CASE Fail
  BY <1>7, <1>8, <1>10 DEF Fail, Finished, Holding
<1>11. ASSUME UNCHANGED <<worker, registered>>, runner.pc \in {"load", "swap", "open"},
              Finished \/ runner'.pc \in {"load", "swap", "open", "fail"}
       PROVE  Owned' /\ Grown(n)
  <2>1. CASE Finished
    BY <1>7, <1>8, <1>11, <2>1 DEF Finished, Holding
  <2>2. CASE runner'.pc \in {"load", "swap", "open", "fail"}
    BY <1>0, <1>1, <1>11, <2>2, OwnedBetween
  <2> QED BY <1>11, <2>1, <2>2
<1>12. ASSUME NEW pc, Steps(pc) PROVE runner'.pc = pc
  BY <1>0, <1>12, SteppedRunner
<1>13. CASE Load \/ NothingOpens
  <2>1. UNCHANGED <<worker, registered>> /\ runner.pc \in {"load", "open"}
    BY <1>13 DEF Load, NothingOpens
  <2>2. Finished \/ Steps("fail") \/ Steps("swap")
    BY <1>13 DEF Load, NothingOpens
  <2> QED BY <1>11, <1>12, <2>1, <2>2
<1>14. CASE Swap
  <2>1. UNCHANGED <<worker, registered>> /\ runner.pc = "swap" /\ (Resolve \/ Finished)
    BY <1>14 DEF Swap
  <2>2. Resolve => runner'.pc = "open"
    BY <1>0 DEF Resolve, RunnerState
  <2> QED BY <1>11, <2>1, <2>2
<1>15. ASSUME NEW rollback \in BOOLEAN, Binds(rollback), ~rollback => runner.left # 0,
              runner.pc = "open", UNCHANGED registered, Current(Op.token)
       PROVE  Owned' /\ Grown(n)
  <2>1. session.workflow # "STOPPED"
    BY <1>15 DEF Current
  <2>2. /\ session'.generation = session.generation + 1
        /\ session'.clock = session.generation + 1
    BY <1>0, <1>15, <2>1, BindsMoves
  <2> QED BY <1>0, <1>15, <2>2, OwnedBinds DEF Grown
<1>16. CASE OpenCandidate
  <2>1. /\ runner.pc = "open" /\ UNCHANGED registered /\ Current(Op.token)
        /\ runner.left # 0
    BY <1>0, <1>16 DEF OpenCandidate
  <2>2. CASE Binds(FALSE)
    BY <1>15, <2>1, <2>2
  <2>3. CASE runner' = [runner EXCEPT !.left = runner.left - 1] /\ UNCHANGED worker
    <3>1. runner'.pc = "open"
      BY <1>0, <2>1, <2>3 DEF RunnerState
    <3> QED BY <1>11, <2>1, <2>3, <3>1
  <2> QED BY <1>16, <2>2, <2>3 DEF OpenCandidate
<1>17. CASE OpenPrevious
  <2>1. runner.pc = "open" /\ UNCHANGED registered /\ Current(Op.token)
    BY <1>17 DEF OpenPrevious
  <2>2. CASE Binds(TRUE)
    BY <1>15, <2>1, <2>2
  <2>3. CASE Steps("fail") /\ UNCHANGED worker
    BY <1>11, <1>12, <2>1, <2>3
  <2> QED BY <1>17, <2>2, <2>3 DEF OpenPrevious
<1>18. CASE Take
  BY <1>0, <1>1, <1>18, OwnedTake
<1>19. CASE Register
  BY <1>0, <1>1, <1>19, OwnedRegister
<1>20. CASE Start
  BY <1>0, <1>1, <1>20, OwnedStart
<1>21. CASE Started
  BY <1>0, <1>1, <1>21, OwnedStarted
<1>22. CASE Wait
  BY <1>0, <1>1, <1>22, OwnedWait
<1>23. CASE Bind
  <2>1. UNCHANGED worker
    BY <1>23 DEF Bind
  <2> QED BY <1>0, <1>1, <1>23, <2>1, OwnedBind
<1>24. CASE Close
  BY <1>0, <1>1, <1>24, OwnedClose
<1>25. ASSUME NEW g \in Generations, WorkerStep(g) PROVE Owned' /\ Grown(n)
  <2>1. UNCHANGED <<runner, registered, token>>
    BY <1>25 DEF WorkerStep, Pcm, SourceEnds, Ask, Begin, Abandon, Infer, Publish, Ended, control
  <2>2. Narrows(n)
    BY <1>0, <1>25, WorkerStepNarrows DEF Requested
  <2> QED BY <1>0, <1>1, <2>1, <2>2, OwnedKept DEF Narrows
<1>26. CASE Restart
  <2>1. /\ runner'.pc = "dead" /\ registered' = 0
        /\ worker' = [g \in 1..0 |-> NoWorker]
    BY <1>8, <1>26 DEF Restart, None
  <2>2. worker' \in [1..0 -> WorkerState]
    BY <2>1, NoWorkerType
  <2>3. 1..0 = {}
    OBVIOUS
  <2>4. Generations' = {} /\ NoOrphanDevice'
    BY <2>2, <2>3, OwnedNext
  <2> QED BY <2>1, <2>2, <2>4 DEF Owned, Attending, Grown
<1>27. CASE UNCHANGED vars
  BY <1>2, <1>27 DEF vars
<1> QED
  BY <1>3, <1>5, <1>6, <1>9, <1>10, <1>13, <1>14, <1>16, <1>17, <1>18, <1>19, <1>20,
     <1>21, <1>22, <1>23, <1>24, <1>25, <1>26, <1>27 DEF Next, Command, Completion, RunnerStep

LEMMA WorkersNumbered ==
  ASSUME TypeOK
  PROVE  \E n \in Nat : worker \in [1..n -> WorkerState]
<1>1. session.generation \in Nat
  BY SessionFields DEF TypeOK
<1>2. PICK n \in 0..session.generation : worker \in [1..n -> WorkerState]
  BY DEF TypeOK
<1> QED BY <1>1, <1>2

LEMMA IInvInit == Init => IInv
<1> SUFFICES ASSUME Init PROVE IInv
  OBVIOUS
<1>1. session \in Session /\ Truthful(session)
  BY DEF Init, Session, Truthful
<1>2. runner \in RunnerState /\ runner.pc = "take" /\ runner.op.token = 0
  BY AtType DEF Init
<1>3. Requested /\ pending.token = 1 /\ token.id = 1
  <2>1. pending \in Operation /\ pending.token = 1
    BY DEF Init, NoOperation, Operation
  <2>2. command \in CommandRecord
    BY DEF Init, NoCommand, CommandRecord
  <2> QED BY <2>1, <2>2 DEF Init, Requested
<1>4. 1..0 = {} /\ worker \in [1..0 -> WorkerState] /\ Generations = {}
  <2>1. worker = [g \in 1..0 |-> NoWorker]
    BY DEF Init, None
  <2>2. 1..0 = {}
    OBVIOUS
  <2>3. worker \in [1..0 -> WorkerState]
    BY <2>1, NoWorkerType
  <2>4. Generations = {}
    BY <2>1, <2>2 DEF Generations
  <2> QED BY <2>2, <2>3, <2>4
<1>5. session.generation = 0 /\ registered = 0
  BY DEF Init
<1>6. \E n \in 0..session.generation : worker \in [1..n -> WorkerState]
  BY <1>4, <1>5
<1>7. TypeOK
  BY <1>1, <1>2, <1>3, <1>6 DEF TypeOK, Requested
<1>8. Issued
  BY <1>2, <1>3 DEF Issued
<1>9. Owned
  BY <1>2, <1>4, <1>5 DEF Owned, NoOrphanDevice, Devices, Attending
<1> QED BY <1>1, <1>4, <1>7, <1>8, <1>9 DEF IInv, ClockKnown

LEMMA IInvStep == IInv /\ [Next]_vars => IInv'
<1> SUFFICES ASSUME IInv, [Next]_vars PROVE IInv'
  OBVIOUS
<1>1. PICK n \in 0..session.generation : worker \in [1..n -> WorkerState]
  BY DEF IInv, TypeOK
<1>2. /\ n \in Nat /\ session \in Session /\ session.generation \in Nat
      /\ n <= session.generation /\ Requested /\ runner \in RunnerState
      /\ Generations \subseteq Nat
  BY <1>1, SessionFields DEF IInv, TypeOK, Requested, Generations
<1>3. Moves(session, session')
  BY SessionStep DEF IInv
<1>4. /\ session' \in Session /\ Truthful(session)'
      /\ session'.generation >= session.generation
      /\ session'.generation \in Nat
  BY <1>2, <1>3, MovesAreTruthful, SessionFields DEF IInv, Truthful
<1>5. Owned' /\ Grown(n)
  BY <1>1, <1>2, OwnedStep
<1>6. \E m \in 0..session'.generation : worker' \in [1..m -> WorkerState]
  BY <1>2, <1>4, <1>5 DEF Grown
<1>7. Requested' /\ runner' \in RunnerState
  BY <1>2, RequestStep, RunnerStepType DEF IInv
<1>8. TypeOK'
  BY <1>4, <1>6, <1>7 DEF TypeOK, Requested
<1>9. ClockKnown'
  <2>1. CASE worker' \in [1..n -> WorkerState]
    <3>1. Generations' = 1..n /\ Generations = 1..n
      BY <1>1, <2>1 DEF Generations
    <3>2. CASE Supersedes(session, session')
      <4>1. session'.generation = session.generation + 1
        BY <3>2 DEF Supersedes
      <4>2. session'.generation \notin 1..n
        BY <1>2, <4>1
      <4> QED BY <3>1, <4>2 DEF ClockKnown
    <3>3. CASE Continues(session, session')
      <4>1. session'.generation = session.generation /\ session'.clock = session.clock
        BY <3>3 DEF Continues
      <4> QED BY <3>1, <4>1 DEF ClockKnown, IInv
    <3> QED BY <1>3, <3>2, <3>3 DEF Moves
  <2>2. CASE session'.clock = session'.generation
    BY <2>2 DEF ClockKnown
  <2>3. CASE worker' \in [1..0 -> WorkerState]
    <3>1. Generations' = {}
      BY <2>3 DEF Generations
    <3> QED BY <3>1 DEF ClockKnown
  <2> QED BY <1>5, <2>1, <2>2, <2>3 DEF Grown
<1>10. Issued'
  BY IssuedStep DEF IInv
<1> QED BY <1>4, <1>5, <1>8, <1>9, <1>10 DEF IInv

LEMMA IInvAlways == Spec => []IInv
BY IInvInit, IInvStep, PTL DEF Spec

-----------------------------------------------------------------------------
(* What is released.                                                       *)

\* A halted session with a registered worker has the command that retires it
\* still to be reconciled, or an attempt that retires it when it ends; a deleted
\* one has the attempt.
Released ==
  /\ session.state \in Halts /\ registered # 0 =>
       command.action \in {"pause", "stop"} \/ runner.pc \in Attending
  /\ deleting /\ registered # 0 => runner.pc \in Attending

LEMMA ReconcileReleases ==
  ASSUME IInv, Released, Reconcile
  PROVE  Released'
<1>0. /\ Requested /\ UNCHANGED <<session, deleting>>
      /\ At("take").pc = "take"
  BY AtType DEF IInv, TypeOK, Requested, Reconcile
<1>1. ASSUME registered' = 0 PROVE Released'
  BY <1>1 DEF Released
<1>2. ASSUME UNCHANGED registered, runner.pc \in Attending => runner'.pc \in Attending,
             session.state \in Halts => command.action \notin {"pause", "stop"}
      PROVE  Released'
  BY <1>0, <1>2 DEF Released
<1>3. ASSUME NEW previous, NEW paused, Schedule(previous, paused)
      PROVE  UNCHANGED registered /\ (runner.pc \in Attending => runner'.pc \in Attending)
  BY <1>0, <1>3 DEF Schedule, Active, Attending
<1>4. CASE ReconcileSwitch
  <2>1. command.action = "switch"
    BY <1>4 DEF ReconcileSwitch
  <2>2. \/ Schedule(switching.previous, switching.paused)
        \/ UNCHANGED <<runner, registered>>
    BY <1>4 DEF ReconcileSwitch
  <2> QED BY <1>2, <1>3, <2>1, <2>2
<1>5. CASE ReconcileOther
  <2>1. CASE session.state \in Halts
    <3>1. Cancel
      BY <1>5, <2>1 DEF ReconcileOther, Halts
    <3> QED BY <1>1, <3>1 DEF Cancel
  <2>2. CASE session.state \notin Halts
    <3>1. Cancel \/ Schedule(FALSE, FALSE) \/ UNCHANGED <<runner, registered>>
      BY <1>5 DEF ReconcileOther
    <3>2. CASE Cancel
      BY <1>1, <3>2 DEF Cancel
    <3>3. CASE Schedule(FALSE, FALSE) \/ UNCHANGED <<runner, registered>>
      BY <1>2, <1>3, <2>2, <3>3
    <3> QED BY <3>1, <3>2, <3>3
  <2> QED BY <2>1, <2>2
<1> QED BY <1>4, <1>5 DEF Reconcile

LEMMA ReleasedStep ==
  ASSUME IInv, Released, [Next]_vars
  PROVE  Released'
<1>0. /\ Requested /\ session \in Session /\ runner \in RunnerState /\ Owned
      /\ Truthful(session)
  BY DEF IInv, TypeOK, Requested
<1>1. ASSUME registered' = 0 PROVE Released'
  BY <1>1 DEF Released
<1>2. ASSUME UNCHANGED <<registered, runner>>, deleting' => deleting,
             \/ session'.state \notin Halts
             \/ command'.action \in {"pause", "stop"}
             \/ session'.state = session.state /\ command' = command
      PROVE  Released'
  BY <1>2 DEF Released
<1>3. ASSUME NEW action \in Actions, Handled(action),
             action \in {"pause", "stop"} \/ session'.state \notin Halts
      PROVE  Released'
  <2>1. command'.action = action /\ UNCHANGED <<registered, runner, deleting>>
    BY <1>0, <1>3, HandledStep DEF Handled
  <2> QED BY <1>2, <1>3, <2>1
<1>4. CASE Pause \/ Stop
  BY <1>3, <1>4 DEF Pause, Stop, Actions
<1>5. CASE Resume \/ Switch
  <2>1. /\ Cleared(session) \in Session
        /\ Handled("resume") \/ Handled("switch")
    BY <1>0, <1>5, ClearedType DEF Resume, Switch
  <2>2. session'.state \in {"starting", "switching"}
    BY <1>5, <2>1 DEF Resume, Switch, Session
  <2> QED BY <1>3, <2>1, <2>2 DEF Actions, Halts
<1>6. CASE Retry
  <2>1. /\ UNCHANGED <<session, deleting, registered, runner>>
        /\ command.action = "none"
    BY <1>6 DEF Retry, Serving, NoCommand
  <2> QED BY <2>1 DEF Released
<1>7. CASE Delete \/ Restart \/ Close
  <2>1. registered' = 0
    BY <1>0, <1>7 DEF Delete, Restart, Close, Owned, Attending
  <2> QED BY <1>1, <2>1
<1>8. CASE Reconcile
  BY <1>8, ReconcileReleases
<1>9. CASE DeleteSucceeds
  <2>1. /\ UNCHANGED <<session, deleting, registered, runner>>
        /\ command.action = "delete"
    BY <1>9 DEF DeleteSucceeds
  <2> QED BY <2>1 DEF Released
<1>10. CASE DeleteFails
  <2>1. /\ UNCHANGED <<registered, runner>>
        /\ command.action = "delete" /\ ~deleting'
        /\ session' = Suspended(session)
    BY <1>10 DEF DeleteFails
  <2>2. session'.state \in {session.state, "unavailable"}
    BY <1>0, <2>1, SuspendedType
  <2> QED BY <2>1, <2>2 DEF Released, Halts
<1>11. CASE Take
  <2>1. /\ UNCHANGED <<session, deleting, command>>
        /\ registered' = 0 \/ UNCHANGED <<registered, runner>>
    BY <1>11 DEF Take, request
  <2> QED BY <1>1, <1>2, <2>1
<1>12. CASE \/ Leave \/ Dies \/ Load \/ Swap \/ OpenCandidate \/ OpenPrevious \/ NothingOpens
            \/ Fail
  <2>1. CASE Leave \/ Dies
    <3>1. /\ UNCHANGED <<session, deleting, command, registered>>
          /\ runner.pc \notin Attending
      BY <2>1 DEF Leave, Dies, control, request, Attending
    <3> QED BY <3>1 DEF Released
  <2>2. CASE Load \/ Swap \/ OpenCandidate \/ OpenPrevious \/ NothingOpens \/ Fail
    <3>1. UNCHANGED registered /\ runner.pc \in {"load", "swap", "open", "fail"}
      BY <2>2 DEF Load, Swap, OpenCandidate, OpenPrevious, NothingOpens, Fail
    <3> QED BY <1>0, <1>1, <3>1 DEF Owned
  <2> QED BY <1>12, <2>1, <2>2
<1>13. ASSUME runner'.pc \in Attending PROVE Released'
  BY <1>13 DEF Released
<1>14. ASSUME NEW pc \in Attending, Steps(pc) PROVE Released'
  BY <1>0, <1>13, <1>14, SteppedRunner
<1>15. CASE Register \/ Start \/ Started \/ Wait
  <2>1. \/ Steps("start") \/ Steps("close") \/ Steps("opened") \/ Steps("wait") \/ Steps("bind")
    <3>1. CASE Register
      BY <3>1 DEF Register, Steps
    <3>2. CASE Start \/ Started \/ Wait
      BY <3>2 DEF Start, Started, Wait
    <3> QED BY <1>15, <3>1, <3>2
  <2> QED BY <1>14, <2>1 DEF Attending
<1>16. CASE Bind
  <2>1. CASE CurrentAt(Op.token, runner.generation) /\ ~Op.paused
    <3>1. ~deleting /\ UNCHANGED deleting
      BY <1>16, <2>1 DEF CurrentAt, Current, Bind, control, request
    <3> DEFINE state == IF session.fresh THEN session.state ELSE "listening"
    <3>2. session' = [session EXCEPT !.state = state, !.result = Outcome]
      BY <1>16, <2>1 DEF Bind
    <3>3. state \notin Halts
      BY <1>0 DEF Truthful, Halts
    <3> HIDE DEF state
    <3>4. session'.state = state
      BY <1>0, <3>2 DEF Session
    <3> QED BY <3>1, <3>3, <3>4 DEF Released
  <2>2. CASE CurrentAt(Op.token, runner.generation) /\ Op.paused
    <3>1. runner' = [runner EXCEPT !.pc = "close", !.kept = TRUE]
      BY <1>16, <2>2 DEF Bind
    <3>2. runner'.pc \in Attending
      BY <1>0, <3>1 DEF RunnerState, Attending
    <3> QED BY <1>13, <3>2
  <2>3. CASE ~CurrentAt(Op.token, runner.generation)
    BY <1>14, <1>16, <2>3 DEF Bind, Attending
  <2> QED BY <2>1, <2>2, <2>3
<1>17. ASSUME NEW g \in Generations, WorkerStep(g) PROVE Released'
  <2>1. UNCHANGED <<runner, registered, deleting, command>>
    BY <1>17 DEF WorkerStep, Pcm, SourceEnds, Ask, Begin, Abandon, Infer, Publish, Ended,
                 control, request
  <2>2. UNCHANGED session \/ session'.state \in {"active", "listening", "unavailable"}
    <3>1. CASE Publish(g)
      BY <1>0, <3>1 DEF Publish, Session
    <3>2. CASE Ended(g)
      <4>1. UNCHANGED session \/ (Fresh(g) /\ session' = Suspended(session))
        BY <3>2 DEF Ended
      <4>2. Fresh(g) => session.workflow # "STOPPED"
        BY DEF Fresh, CurrentAt, Current
      <4>3. session.workflow # "STOPPED" => Suspended(session).state = "unavailable"
        BY <1>0, SuspendedType
      <4> QED BY <4>1, <4>2, <4>3
    <3>3. CASE ~Publish(g) /\ ~Ended(g)
      BY <1>17, <3>3 DEF WorkerStep, Pcm, SourceEnds, Ask, Begin, Abandon, Infer
    <3> QED BY <3>1, <3>2, <3>3
  <2> QED BY <1>2, <2>1, <2>2 DEF Halts
<1>18. CASE WatchPcm \/ WatchWithdraws
  <2>1. UNCHANGED <<runner, registered, deleting>>
    BY <1>18 DEF WatchPcm, WatchWithdraws, control, request
  <2>2. session'.state = "listening"
    BY <1>0, <1>18, ClearedType DEF WatchPcm, WatchWithdraws, Session
  <2> QED BY <1>2, <2>1, <2>2 DEF Halts
<1>19. CASE Reap \/ UNCHANGED vars
  <2>1. UNCHANGED <<runner, registered, deleting, command, session>>
    BY <1>19 DEF Reap, vars
  <2> QED BY <1>2, <2>1
<1> QED
  BY <1>4, <1>5, <1>6, <1>7, <1>8, <1>9, <1>10, <1>11, <1>12, <1>15, <1>16, <1>17, <1>18, <1>19
  DEF Next, Command, Completion, RunnerStep

-----------------------------------------------------------------------------
(* The theorems.                                                           *)

\* Every variable keeps its type, and every worker is of a generation the
\* session has had (live_audio.py:98-420, worker.py:35-198).
THEOREM TypesHold == Spec => []TypeOK
<1>1. IInv => TypeOK
  BY DEF IInv
<1> QED BY <1>1, IInvAlways, PTL

\* Evidence shown as fresh is of the generation and the clock in use, however
\* late an inference returns (_is_current, live_audio.py).
THEOREM EvidenceIsCurrent == Spec => []FreshIsCurrent
<1>1. IInv => FreshIsCurrent
  BY DEF IInv, Truthful, FreshIsCurrent
<1> QED BY <1>1, IInvAlways, PTL

\* At most one input is open, for any number of candidates and commands, and it
\* is the registered worker's or the running attempt's.
THEOREM InputsAreOwned == Spec => []InputsOwned
<1>1. IInv => OneDevice
  <2> SUFFICES ASSUME IInv, NEW g \in Devices, NEW h \in Devices PROVE g = h
    BY DEF OneDevice
  <2>1. PICK n \in Nat : worker \in [1..n -> WorkerState]
    BY WorkersNumbered DEF IInv
  <2>2. g \in 1..n /\ h \in 1..n /\ worker[g].open /\ worker[h].open /\ Owned
    BY <2>1, OwnedIn DEF Devices, IInv
  <2>3. /\ registered = g \/ (runner.generation = g /\ runner.pc \in Holding)
        /\ registered = h \/ (runner.generation = h /\ runner.pc \in Holding)
    BY <2>1, <2>2, OwnedIn DEF Owned
  <2>4. runner.pc \in Holding => registered \in {0, runner.generation}
    BY <2>2 DEF Owned, Holding, Attending
  <2> QED BY <2>2, <2>3, <2>4
<1>2. IInv => InputsOwned
  BY <1>1 DEF IInv, Owned, InputsOwned
<1> QED BY <1>2, IInvAlways, PTL

\* The controller implements the fence between a source and its evidence.
THEOREM ImplementsFence == Spec => Fenced
<1>1. Init => Fence!FInit
  BY DEF Init, Fence!FInit
<1>2. IInv /\ [Next]_vars =>
        [Fence!Advance \/ Fence!Show \/ Fence!Withdraw \/ Fence!End]_Fence!fence
  <2> SUFFICES ASSUME IInv, [Next]_vars
               PROVE  Fence!Advance \/ Fence!Show \/ Fence!Withdraw \/ Fence!End
                        \/ UNCHANGED Fence!fence
    OBVIOUS
  <2>1. Moves(session, session') /\ session \in Session /\ session.generation \in Nat
    BY SessionStep, SessionFields DEF IInv, TypeOK
  <2>2. CASE Supersedes(session, session')
    <3>1. /\ session.workflow # "STOPPED" /\ session'.shown = 0
          /\ session'.generation > session.generation
      BY <2>1, <2>2 DEF Supersedes
    <3>2. CASE session'.workflow = "STOPPED"
      BY <3>1, <3>2 DEF Fence!End
    <3>3. CASE session'.workflow # "STOPPED"
      BY <3>1, <3>3 DEF Fence!Advance
    <3> QED BY <3>2, <3>3
  <2>3. CASE Continues(session, session')
    <3>1. /\ session'.generation = session.generation
          /\ (session'.workflow = "STOPPED") = (session.workflow = "STOPPED")
      BY <2>3 DEF Continues
    <3>2. CASE session'.shown = session.shown
      BY <3>1, <3>2 DEF Fence!fence
    <3>3. CASE session.workflow # "STOPPED" /\ session'.shown = 0
      BY <3>1, <3>3 DEF Fence!Withdraw
    <3>4. CASE session.workflow # "STOPPED" /\ session'.shown = session.generation
      BY <3>1, <3>4 DEF Fence!Show
    <3> QED BY <2>3, <3>1, <3>2, <3>3, <3>4 DEF Continues
  <2> QED BY <2>1, <2>2, <2>3 DEF Moves
<1> QED BY <1>1, <1>2, IInvAlways, PTL DEF Spec, Fenced, Fence!FSpec

\* Nothing starts a stopped session again or shows its evidence, and a deletion
\* that went through is never undone.
THEOREM StopsForGood == Spec => StopIsFinal
<1>1. IInv /\ [Next]_vars =>
        [/\ session.workflow = "STOPPED" => session'.workflow = "STOPPED" /\ ~session'.fresh
         /\ deleting /\ command = NoCommand => deleting']_vars
  <2> SUFFICES ASSUME IInv, Next
               PROVE  /\ session.workflow = "STOPPED" =>
                           session'.workflow = "STOPPED" /\ ~session'.fresh
                      /\ deleting /\ command = NoCommand => deleting'
    OBVIOUS
  <2>1. Moves(session, session') /\ Truthful(session)
    BY SessionStep DEF IInv
  <2>2. session.workflow = "STOPPED" => session'.workflow = "STOPPED" /\ ~session'.fresh
    BY <2>1 DEF Moves, Supersedes, Continues, Truthful
  <2>3. ASSUME deleting, command = NoCommand PROVE deleting'
    <3>1. command.action = "none"
      BY <2>3 DEF NoCommand
    <3>2. ~Restart /\ ~DeleteFails
      BY <2>3, <3>1 DEF Restart, DeleteFails
    <3>3. CASE Delete
      BY <3>3 DEF Delete
    <3>4. CASE Pause \/ Stop \/ Resume \/ Switch \/ Retry \/ Reconcile \/ DeleteSucceeds
      BY <2>3, <3>4 DEF Pause, Stop, Resume, Switch, Handled, Retry, Reconcile, DeleteSucceeds
    <3>5. CASE RunnerStep
      BY <2>3, <3>5
      DEF RunnerStep, Take, Leave, Dies, Load, Swap, OpenCandidate, OpenPrevious, NothingOpens,
          Register, Start, Started, Wait, Bind, Close, Fail, control, request
    <3>6. CASE \E g \in Generations : WorkerStep(g)
      BY <2>3, <3>6
      DEF WorkerStep, Pcm, SourceEnds, Ask, Begin, Abandon, Infer, Publish, Ended, control,
          request
    <3>7. CASE WatchPcm \/ WatchWithdraws \/ Reap
      BY <2>3, <3>7 DEF WatchPcm, WatchWithdraws, Reap, control, request
    <3> QED BY <3>2, <3>3, <3>4, <3>5, <3>6, <3>7 DEF Next, Command, Completion
  <2> QED BY <2>2, <2>3
<1> QED BY <1>1, IInvAlways, PTL DEF Spec, StopIsFinal

\* Once its command is reconciled and the runner has left, a paused, stopped or
\* deleted session has no open input.
THEOREM HaltsRelease == Spec => []HaltReleases
<1>1. Init => Released
  BY DEF Init, Released, Halts
<1>2. IInv /\ Released /\ [Next]_vars => Released'
  BY ReleasedStep
<1>3. IInv /\ Released => HaltReleases
  <2> SUFFICES ASSUME IInv, Released, Quiet,
                      session.state \in {"paused", "stopped"} \/ deleting
               PROVE  Devices = {}
    BY DEF HaltReleases
  <2>1. PICK n \in Nat : worker \in [1..n -> WorkerState]
    BY WorkersNumbered DEF IInv
  <2>2. command.action = "none" /\ runner.pc \in {"leaving", "dead"}
    BY DEF Quiet, NoCommand
  <2>3. registered = 0
    BY <2>2 DEF Released, Halts, Attending
  <2>4. \A g \in 1..n : ~worker[g].open
    BY <2>1, <2>2, <2>3, OwnedIn DEF IInv, Owned, Holding
  <2> QED BY <2>1, <2>4, OwnedIn DEF Devices
<1> QED BY <1>1, <1>2, <1>3, IInvAlways, PTL DEF Spec

LEMMA TokenStep ==
  ASSUME TypeOK, Next
  PROVE  \/ token' = token \/ token'.set
         \/ /\ command.action = "switch" /\ session.operation = command.key
            /\ session.result = "pending" /\ scheduled # command.key
         \/ command.action = "resume" /\ session.state = "starting"
<1>0. token \in [id : Nat, set : BOOLEAN] /\ Requested
  BY DEF TypeOK, Requested
<1>1. CASE UNCHANGED token
  BY <1>1
<1>2. CASE Delete \/ Restart
  BY <1>0, <1>2 DEF Delete, Restart
<1>3. CASE Reconcile
  <2>1. CASE ReconcileSwitch
    BY <2>1 DEF ReconcileSwitch
  <2>2. CASE ReconcileOther
    BY <1>0, <2>2, CancelStep DEF ReconcileOther
  <2> QED BY <1>3, <2>1, <2>2 DEF Reconcile
<1>4. CASE Pause \/ Stop \/ Resume \/ Switch \/ Retry \/ DeleteSucceeds \/ DeleteFails
  BY <1>1, <1>4 DEF Pause, Stop, Resume, Switch, Handled, Retry, DeleteSucceeds, DeleteFails
<1>5. CASE RunnerStep
  BY <1>1, <1>5
  DEF RunnerStep, Take, Leave, Dies, Load, Swap, OpenCandidate, OpenPrevious, NothingOpens,
      Register, Start, Started, Wait, Bind, Close, Fail, control
<1>6. CASE \E g \in Generations : WorkerStep(g)
  BY <1>1, <1>6
  DEF WorkerStep, Pcm, SourceEnds, Ask, Begin, Abandon, Infer, Publish, Ended, control
<1>7. CASE WatchPcm \/ WatchWithdraws \/ Reap
  BY <1>1, <1>7 DEF WatchPcm, WatchWithdraws, Reap, control
<1> QED BY <1>2, <1>3, <1>4, <1>5, <1>6, <1>7 DEF Next, Command, Completion

\* A reconciled switch is not handed to the runner again (scheduled_keys,
\* live_audio.py).
THEOREM SwitchesRunOnce == Spec => SwitchRunsOnce
<1>1. IInv /\ [Next]_vars =>
        [session.operation = scheduled /\ scheduled # 0 /\ command.action = "switch"
           => token' = token \/ token'.set]_vars
  BY TokenStep DEF IInv
<1> QED BY <1>1, IInvAlways, PTL DEF Spec, SwitchRunsOnce

\* A retried command never starts a halted session again.
THEOREM RetriesDoNotResurrect == Spec => NoResurrection
<1>1. IInv /\ [Next]_vars =>
        [/\ session.state \in {"paused", "stopped", "unavailable"}
         /\ session.result # "pending"
         => token' = token \/ token'.set]_vars
  BY TokenStep DEF IInv
<1> QED BY <1>1, IInvAlways, PTL DEF Spec, NoResurrection

-----------------------------------------------------------------------------
(* Who may close the model, and when.                                      *)

\* A model that is closed, or left to the reaper, is of a session that is stopped
\* or deleted for good; a deletion under way is fenced, and is no command that
\* could be retried.
Closing ==
  /\ analyzer.closed \/ reaper # "none" =>
       session.workflow = "STOPPED" \/ (deleting /\ command.action # "delete")
  /\ command.action = "delete" => deleting
  /\ \A c \in history.applied : c.action # "delete"

LEMMA ClosingKept ==
  ASSUME Closing, session.workflow = "STOPPED" => session'.workflow = "STOPPED",
         UNCHANGED <<deleting, command, history, reaper>>, analyzer'.closed => analyzer.closed
  PROVE  Closing'
BY DEF Closing

LEMMA ModelClosingStep ==
  ASSUME IInv, Closing, [Next]_vars
  PROVE  Closing'
<1>0. /\ Requested /\ session \in Session
      /\ NoCommand.action = "none"
      /\ session.workflow = "STOPPED" => session'.workflow = "STOPPED"
  <2>1. Moves(session, session')
    BY SessionStep DEF IInv
  <2> QED BY <2>1 DEF IInv, TypeOK, Requested, NoCommand, Moves, Supersedes, Continues
<1>1. ASSUME NEW action \in Actions, Handled(action) PROVE Closing'
  <2>1. /\ UNCHANGED <<deleting, analyzer, reaper>> /\ ~deleting
        /\ command' = [action |-> action, key |-> Key]
        /\ history'.applied = history.applied \cup {[action |-> action, key |-> Key]}
    BY <1>0, <1>1 DEF Handled, Serving, Requested
  <2>2. action # "delete"
    BY DEF Actions
  <2> QED BY <1>0, <2>1, <2>2 DEF Closing
<1>2. CASE Pause \/ Stop \/ Resume \/ Switch
  BY <1>1, <1>2 DEF Pause, Stop, Resume, Switch, Actions
<1>3. CASE Retry
  BY <1>3 DEF Retry, Serving, Closing
<1>4. CASE Delete
  <2>1. /\ command.action = "none" /\ ~deleting /\ deleting'
        /\ UNCHANGED <<session, history, analyzer, reaper>>
    BY <1>0, <1>4 DEF Delete, Serving
  <2> QED BY <2>1 DEF Closing
<1>5. CASE Reconcile
  <2>1. /\ UNCHANGED <<session, deleting, history>> /\ command'.action = "none"
        /\ session.workflow # "STOPPED" => UNCHANGED <<analyzer, reaper>>
    BY <1>0, <1>5 DEF Reconcile
  <2> QED BY <2>1 DEF Closing
<1>6. CASE DeleteSucceeds
  <2>1. /\ UNCHANGED <<session, deleting, history>> /\ command'.action = "none"
        /\ command.action = "delete"
    BY <1>0, <1>6 DEF DeleteSucceeds
  <2> QED BY <2>1 DEF Closing
<1>7. CASE DeleteFails
  <2>1. /\ UNCHANGED <<analyzer, reaper>> /\ history'.applied = history.applied
        /\ command'.action = "none" /\ command.action = "delete"
    BY <1>0, <1>7 DEF DeleteFails, Requested
  <2> QED BY <1>0, <2>1 DEF Closing
<1>8. CASE Restart
  <2>1. /\ ~analyzer'.closed /\ reaper' = "none" /\ command'.action = "none"
        /\ history'.applied = history.applied
    BY <1>0, <1>8 DEF Restart, Requested
  <2> QED BY <2>1 DEF Closing
<1>9. CASE Reap
  <2>1. UNCHANGED <<session, deleting, command, history>> /\ reaper # "none"
    BY <1>9 DEF Reap
  <2> QED BY <2>1 DEF Closing
<1>10. CASE RunnerStep
  <2>1. UNCHANGED <<deleting, command, history, reaper>>
    BY <1>10
    DEF RunnerStep, Take, Leave, Dies, Load, Swap, OpenCandidate, OpenPrevious, NothingOpens,
        Register, Start, Started, Wait, Bind, Close, Fail, control, request
  <2>2. CASE Swap
    <3>1. analyzer'.closed => analyzer.closed
      BY <2>2 DEF Swap
    <3> QED BY <1>0, <2>1, <3>1, ClosingKept
  <2>3. CASE ~Swap
    <3>1. UNCHANGED analyzer
      BY <1>10, <2>3
      DEF RunnerStep, Take, Leave, Dies, Load, OpenCandidate, OpenPrevious, NothingOpens,
          Register, Start, Started, Wait, Bind, Close, Fail
    <3> QED BY <1>0, <2>1, <3>1, ClosingKept
  <2> QED BY <2>2, <2>3
<1>11. ASSUME NEW g \in Generations, WorkerStep(g) PROVE Closing'
  <2>1. UNCHANGED <<deleting, command, history, reaper>>
    BY <1>11
    DEF WorkerStep, Pcm, SourceEnds, Ask, Begin, Abandon, Infer, Publish, Ended, control, request
  <2>2. analyzer' = analyzer \/ analyzer' = [analyzer EXCEPT !.failed = analyzer.failed \/ Fresh(g)]
    BY <1>11 DEF WorkerStep, Pcm, SourceEnds, Ask, Begin, Abandon, Infer, Publish, Ended
  <2>3. analyzer'.closed = analyzer.closed
    BY <1>0, <2>2 DEF Requested
  <2> QED BY <1>0, <2>1, <2>3, ClosingKept
<1>12. CASE WatchPcm \/ WatchWithdraws
  <2>1. UNCHANGED <<deleting, command, history, reaper, analyzer>>
    BY <1>12 DEF WatchPcm, WatchWithdraws, control, request
  <2> QED BY <1>0, <2>1, ClosingKept
<1>13. CASE UNCHANGED vars
  <2>1. UNCHANGED <<deleting, command, history, reaper, analyzer>>
    BY <1>13 DEF vars
  <2> QED BY <1>0, <2>1, ClosingKept
<1> QED
  BY <1>2, <1>3, <1>4, <1>5, <1>6, <1>7, <1>8, <1>9, <1>10, <1>11, <1>12, <1>13
  DEF Next, Command, Completion

-----------------------------------------------------------------------------
(* What the steps of other threads do to a worker.                         *)

\* Whoever retires a worker, or moves it between two windows, leaves alone what it
\* asks and infers.
Calm(w, v) ==
  /\ v.token \in {w.token, 0}
  /\ v.pc = "analyzing" <=> w.pc = "analyzing"
  /\ v.pc = "analyzing" => v.instance = w.instance
  /\ v.pc = "asked" => w.pc = "asked" /\ v.instance = w.instance /\ v.token = w.token
  /\ w.pc \in {"none", "new"} => v.pc = w.pc

AllCalm(n) ==
  /\ worker' \in [1..n -> WorkerState]
  /\ \A h \in 1..n : Calm(worker[h], worker'[h])

LEMMA StayingCalm ==
  ASSUME NEW n \in Nat, worker \in [1..n -> WorkerState], UNCHANGED worker
  PROVE  AllCalm(n)
BY DEF AllCalm, Calm

LEMMA ReplacedCalm ==
  ASSUME NEW n \in Nat, worker \in [1..n -> WorkerState], NEW g \in 1..n,
         NEW w \in WorkerState, Calm(worker[g], w), worker' = [worker EXCEPT ![g] = w]
  PROVE  AllCalm(n)
BY DEF AllCalm, Calm

LEMMA StoppedCalm ==
  ASSUME NEW w \in WorkerState, NEW opening \in BOOLEAN
  PROVE  Calm(w, Stopped(w, opening))
<1> DEFINE s == [w EXCEPT !.stop = TRUE, !.open = opening]
<1>1. s \in WorkerState /\ s.pc = w.pc /\ s.token = w.token /\ s.instance = w.instance
  BY DEF WorkerState
<1> HIDE DEF s
<1>2. NoWorker.pc = "none" /\ NoWorker.token = 0
  BY DEF NoWorker
<1>3. [s EXCEPT !.pc = "idle"].pc = "idle" /\ [s EXCEPT !.pc = "idle"].token = s.token
  BY <1>1 DEF WorkerState
<1>4. Between(s) = NoWorker \/ Between(s) = [s EXCEPT !.pc = "idle"]
  BY DEF Between
<1>5. CASE w.pc = "idle"
  <2>1. Stopped(w, opening) = Between(s)
    BY <1>5 DEF Stopped, s
  <2> QED BY <1>1, <1>2, <1>3, <1>4, <1>5, <2>1 DEF Calm
<1>6. CASE w.pc = "dead"
  <2>1. Stopped(w, opening) = NoWorker
    BY <1>6 DEF Stopped
  <2> QED BY <1>2, <1>6, <2>1 DEF Calm
<1>7. CASE w.pc \notin {"idle", "dead"}
  <2>1. Stopped(w, opening) = s
    BY <1>7 DEF Stopped, s
  <2> QED BY <1>1, <2>1 DEF Calm
<1> QED BY <1>5, <1>6, <1>7

LEMMA RetiredCalm ==
  ASSUME NEW n \in Nat, worker \in [1..n -> WorkerState], NEW g \in Nat,
         worker' = Retired(worker, g)
  PROVE  AllCalm(n)
<1>1. CASE g \notin 1..n
  <2>1. worker' = worker
    BY <1>1 DEF Retired
  <2> QED BY <2>1, StayingCalm
<1>2. CASE g \in 1..n
  <2> DEFINE opening == worker[g].open /\ runner.pc = "opened" /\ runner.generation = g
             s == Stopped(worker[g], opening)
  <2>1. worker[g] \in WorkerState /\ opening \in BOOLEAN
    BY <1>2
  <2>2. worker' = [worker EXCEPT ![g] = s]
    BY <1>2 DEF Retired
  <2>3. s \in WorkerState /\ Calm(worker[g], s)
    BY <2>1, StoppedType, StoppedCalm
  <2> HIDE DEF s
  <2> QED BY <1>2, <2>2, <2>3, ReplacedCalm
<1> QED BY <1>1, <1>2

LEMMA WorkerStepCalm ==
  ASSUME NEW n \in Nat, worker \in [1..n -> WorkerState], NEW g \in 1..n,
         \/ Pcm(g) \/ SourceEnds(g) \/ Abandon(g) \/ Publish(g) \/ Ended(g)
  PROVE  AllCalm(n)
<1> DEFINE w == worker[g]
<1>1. w \in WorkerState
  OBVIOUS
<1>2. /\ NoWorker.pc = "none" /\ NoWorker.token = 0
      /\ \A pcm \in BOOLEAN : /\ [NoWorker EXCEPT !.pc = "dead", !.pcm = pcm].pc = "dead"
                              /\ [NoWorker EXCEPT !.pc = "dead", !.pcm = pcm].token = 0
  BY DEF NoWorker
<1>3. CASE Pcm(g)
  <2> DEFINE v == [w EXCEPT !.pcm = TRUE]
  <2>1. v \in WorkerState /\ Calm(w, v)
    BY <1>1 DEF WorkerState, Calm
  <2>2. worker' = [worker EXCEPT ![g] = v]
    BY <1>3 DEF Pcm
  <2> HIDE DEF v
  <2> QED BY <2>1, <2>2, ReplacedCalm
<1>4. CASE SourceEnds(g)
  <2>1. PICK f \in Faults \ {"model"} :
          worker' = [worker EXCEPT ![g].fault = f, ![g].open = FALSE]
    BY <1>4 DEF SourceEnds
  <2>2. f \in {"eof", "error"}
    BY LiveAudioAssumption
  <2> DEFINE v == [w EXCEPT !.fault = f, !.open = FALSE]
  <2>3. v \in WorkerState /\ Calm(w, v)
    BY <1>1, <2>2 DEF WorkerState, Calm
  <2>4. worker' = [worker EXCEPT ![g] = v]
    BY <2>1
  <2> HIDE DEF v
  <2> QED BY <2>3, <2>4, ReplacedCalm
<1>5. CASE Abandon(g) \/ Publish(g)
  <2>1. worker' = [worker EXCEPT ![g] = Between(w)] /\ w.pc \in {"asked", "answered"}
    BY <1>5 DEF Abandon, Publish, W
  <2>2. Between(w) \in WorkerState
    BY <1>1, BetweenType
  <2>3. /\ [w EXCEPT !.pc = "idle"].pc = "idle"
        /\ [w EXCEPT !.pc = "idle"].token = w.token
    BY <1>1 DEF WorkerState
  <2>4. Between(w) = NoWorker \/ Between(w) = [w EXCEPT !.pc = "idle"]
    BY DEF Between
  <2>5. Calm(w, Between(w))
    BY <1>2, <2>1, <2>3, <2>4 DEF Calm
  <2> QED BY <2>1, <2>2, <2>5, ReplacedCalm
<1>6. CASE Ended(g)
  <2> DEFINE v == IF registered = g THEN [NoWorker EXCEPT !.pc = "dead", !.pcm = w.pcm]
                  ELSE NoWorker
  <2>1. w.pcm \in BOOLEAN /\ w.pc = "idle"
    BY <1>1, <1>6, WorkerFields DEF Ended, W
  <2>2. v \in WorkerState /\ v.pc \in {"none", "dead"} /\ v.token = 0
    BY <1>2, <2>1, NoWorkerType
  <2>3. worker' = [worker EXCEPT ![g] = v]
    BY <1>6 DEF Ended, W
  <2> HIDE DEF v
  <2>4. Calm(w, v)
    BY <2>1, <2>2 DEF Calm
  <2> QED BY <2>2, <2>3, <2>4, ReplacedCalm
<1> QED BY <1>3, <1>4, <1>5, <1>6

\* The steps that are not calm, one by one.
LEMMA CalmStep ==
  ASSUME IInv, NEW n \in Nat, worker \in [1..n -> WorkerState], [Next]_vars
  PROVE  \/ AllCalm(n)
         \/ \E g \in 1..n : Ask(g) \/ Begin(g) \/ Infer(g)
         \/ Started
         \/ Register
         \/ OpenCandidate /\ worker' = Extended(session.generation + 1)
         \/ OpenPrevious /\ worker' = Extended(session.generation + 1)
         \/ Restart
<1>0. /\ registered \in Nat /\ runner.generation \in Nat /\ Generations = 1..n /\ Owned
      /\ Requested
  BY RunnerFields, OwnedIn DEF IInv, TypeOK, Requested
<1>1. ASSUME UNCHANGED worker PROVE AllCalm(n)
  BY <1>1, StayingCalm
<1>2. ASSUME NEW g \in Nat, worker' = Retired(worker, g) PROVE AllCalm(n)
  BY <1>2, RetiredCalm
<1>3. CASE \/ Pause \/ Stop \/ Resume \/ Switch \/ Retry \/ DeleteSucceeds \/ DeleteFails
           \/ WatchPcm \/ WatchWithdraws \/ Reap
  BY <1>1, <1>3 DEF Pause, Stop, Resume, Switch, Handled, Retry, DeleteSucceeds, DeleteFails,
                    WatchPcm, WatchWithdraws, Reap
<1>4. CASE Delete
  BY <1>0, <1>2, <1>4 DEF Delete
<1>5. CASE Reconcile
  <2>1. ReconcileSwitch \/ ReconcileOther
    BY <1>5 DEF Reconcile
  <2>2. \/ UNCHANGED <<token, pending, runner, registered, worker>>
        \/ Cancel /\ UNCHANGED scheduled
        \/ \E previous, paused \in BOOLEAN : Schedule(previous, paused)
    BY <1>0, <2>1, ReconcileStep
  <2>3. worker' = worker \/ worker' = Retired(worker, registered)
    BY <2>2 DEF Cancel, Schedule
  <2> QED BY <1>0, <1>1, <1>2, <2>3
<1>6. CASE Leave \/ Dies \/ Load \/ Swap \/ NothingOpens \/ Start \/ Bind \/ Fail
  <2>1. CASE Start
    <3>1. worker' = worker \/ worker' = [worker EXCEPT ![runner.generation].open = TRUE]
      BY <2>1 DEF Start
    <3>2. runner.pc = "start"
      BY <2>1 DEF Start
    <3>3. runner.generation \in 1..n
      BY <1>0, <3>2 DEF Owned, Attending
    <3> DEFINE g == runner.generation
               w == [worker[g] EXCEPT !.open = TRUE]
    <3>4. worker[g] \in WorkerState
      BY <3>3
    <3>5. w \in WorkerState /\ Calm(worker[g], w)
      BY <3>4 DEF WorkerState, Calm
    <3>6. worker' = worker \/ worker' = [worker EXCEPT ![g] = w]
      BY <3>1
    <3> HIDE DEF w
    <3> QED BY <1>1, <3>3, <3>5, <3>6, ReplacedCalm
  <2>2. CASE Leave \/ Dies \/ Load \/ Swap \/ NothingOpens \/ Bind \/ Fail
    BY <1>1, <2>2 DEF Leave, Dies, Load, Swap, NothingOpens, Bind, Fail
  <2> QED BY <1>6, <2>1, <2>2
<1>7. CASE Take
  BY <1>0, <1>1, <1>2, <1>7 DEF Take
<1>8. CASE Wait
  <2>1. worker' = worker \/ worker' = Retired(worker, runner.generation)
    BY <1>8 DEF Wait
  <2> QED BY <1>0, <1>1, <1>2, <2>1
<1>9. CASE Close
  BY <1>0, <1>2, <1>9 DEF Close
<1>10. CASE OpenCandidate \/ OpenPrevious
  <2>1. worker' = worker \/ worker' = Extended(session.generation + 1)
    BY <1>10 DEF OpenCandidate, OpenPrevious, Binds
  <2> QED BY <1>1, <1>10, <2>1
<1>11. ASSUME NEW g \in Generations, WorkerStep(g)
       PROVE  AllCalm(n) \/ (g \in 1..n /\ (Ask(g) \/ Begin(g) \/ Infer(g)))
  BY <1>0, <1>11, WorkerStepCalm DEF WorkerStep
<1>12. CASE UNCHANGED vars
  BY <1>1, <1>12 DEF vars
<1> QED
  BY <1>3, <1>4, <1>5, <1>6, <1>7, <1>8, <1>9, <1>10, <1>11, <1>12
  DEF Next, Command, Completion, RunnerStep

LEMMA LockStep ==
  ASSUME [Next]_vars
  PROVE  lock' = lock \/ (\E g \in Generations : Begin(g) \/ Infer(g)) \/ Restart
<1>1. CASE \/ Pause \/ Stop \/ Resume \/ Switch \/ Retry \/ Delete \/ Reconcile
           \/ DeleteSucceeds \/ DeleteFails \/ WatchPcm \/ WatchWithdraws \/ Reap
  BY <1>1 DEF Pause, Stop, Resume, Switch, Handled, Retry, Delete, Reconcile, DeleteSucceeds,
              DeleteFails, WatchPcm, WatchWithdraws, Reap
<1>2. CASE RunnerStep
  BY <1>2 DEF RunnerStep, Take, Leave, Dies, Load, Swap, OpenCandidate, OpenPrevious,
              NothingOpens, Register, Start, Started, Wait, Bind, Close, Fail
<1>3. ASSUME NEW g \in Generations, WorkerStep(g)
      PROVE  lock' = lock \/ Begin(g) \/ Infer(g)
  BY <1>3 DEF WorkerStep, Pcm, SourceEnds, Ask, Abandon, Publish, Ended
<1>4. CASE UNCHANGED vars
  BY <1>4 DEF vars
<1> QED BY <1>1, <1>2, <1>3, <1>4 DEF Next, Command, Completion

\* The model is exchanged by Swap and closed under a free lock.
LEMMA AnalyzerStep ==
  ASSUME TypeOK, [Next]_vars
  PROVE  \/ analyzer' = analyzer
         \/ lock = 0 /\ analyzer'.instance = analyzer.instance
         \/ Swap
         \/ \E g \in Generations : Infer(g)
         \/ Restart
<1>0. Requested
  BY DEF TypeOK, Requested
<1>1. CASE \/ Pause \/ Stop \/ Resume \/ Switch \/ Retry \/ Delete
           \/ DeleteFails \/ WatchPcm \/ WatchWithdraws
  BY <1>1 DEF Pause, Stop, Resume, Switch, Handled, Retry, Delete,
              DeleteFails, WatchPcm, WatchWithdraws
<1>2. CASE Reconcile \/ DeleteSucceeds \/ Reap
  <2>1. \/ UNCHANGED analyzer
        \/ lock = 0 /\ analyzer' = [analyzer EXCEPT !.closed = TRUE]
    BY <1>2 DEF Reconcile, DeleteSucceeds, Reap, CloseWhenIdle
  <2>2. [analyzer EXCEPT !.closed = TRUE].instance = analyzer.instance
    BY <1>0 DEF Requested
  <2> QED BY <2>1, <2>2
<1>3. CASE RunnerStep
  BY <1>3 DEF RunnerStep, Take, Leave, Dies, Load, OpenCandidate, OpenPrevious,
              NothingOpens, Register, Start, Started, Wait, Bind, Close, Fail
<1>4. ASSUME NEW g \in Generations, WorkerStep(g)
      PROVE  analyzer' = analyzer \/ Infer(g)
  BY <1>4 DEF WorkerStep, Pcm, SourceEnds, Ask, Begin, Abandon, Publish, Ended
<1>5. CASE UNCHANGED vars
  BY <1>5 DEF vars
<1> QED BY <1>1, <1>2, <1>3, <1>4, <1>5 DEF Next, Command, Completion

\* No cancelled token is ever valid again.
LEMMA CancelledStays ==
  ASSUME TypeOK, [Next]_vars, NEW t \in Nat, t <= token.id, ~Cancelled(t)'
  PROVE  ~Cancelled(t) /\ token' = token
<1>0. token \in [id : Nat, set : BOOLEAN] /\ Requested
  BY DEF TypeOK, Requested
<1>1. ASSUME token' = token \/ token'.set = TRUE \/ token'.id = token.id + 1
      PROVE  ~Cancelled(t) /\ token' = token
  BY <1>0, <1>1 DEF Cancelled
<1>2. CASE Delete \/ Restart
  <2>1. token'.set = TRUE
    BY <1>0, <1>2 DEF Delete, Restart
  <2> QED BY <1>1, <2>1
<1>3. CASE Reconcile
  <2>1. ReconcileSwitch \/ ReconcileOther
    BY <1>3 DEF Reconcile
  <2>2. \/ UNCHANGED token
        \/ Cancel
        \/ \E previous, paused \in BOOLEAN : Schedule(previous, paused)
    BY <1>0, <2>1, ReconcileStep
  <2> QED BY <1>0, <1>1, <2>2, CancelStep, ScheduledStep
<1>4. CASE \/ Pause \/ Stop \/ Resume \/ Switch \/ Retry \/ DeleteSucceeds \/ DeleteFails
           \/ WatchPcm \/ WatchWithdraws \/ Reap
  BY <1>1, <1>4 DEF Pause, Stop, Resume, Switch, Handled, Retry, DeleteSucceeds, DeleteFails,
                    WatchPcm, WatchWithdraws, Reap, control
<1>5. CASE RunnerStep
  BY <1>1, <1>5
  DEF RunnerStep, Take, Leave, Dies, Load, Swap, OpenCandidate, OpenPrevious, NothingOpens,
      Register, Start, Started, Wait, Bind, Close, Fail, control
<1>6. CASE \E g \in Generations : WorkerStep(g)
  BY <1>1, <1>6
  DEF WorkerStep, Pcm, SourceEnds, Ask, Begin, Abandon, Infer, Publish, Ended, control
<1>7. CASE UNCHANGED vars
  BY <1>1, <1>7 DEF vars
<1> QED BY <1>2, <1>3, <1>4, <1>5, <1>6, <1>7 DEF Next, Command, Completion

-----------------------------------------------------------------------------
(* The workers of an operation.                                            *)

\* No worker has a token from the future, that of the operation requested next,
\* or, before a new model is in use, that of the operation under way.
Numbered ==
  /\ \A g \in Generations : worker[g].token <= token.id
  /\ pending # NoOperation =>
       /\ pending.token # 0 /\ pending.token # runner.op.token
       /\ \A g \in Generations : worker[g].token # pending.token
  /\ runner.pc \in {"load", "swap"} =>
       /\ runner.op.token # 0
       /\ \A g \in Generations : worker[g].token # runner.op.token

\* The worker an attempt is about to register or start runs no thread yet.
Phased ==
  /\ runner.pc = "register" => worker[runner.generation].pc = "none"
  /\ runner.pc \in {"start", "opened"} => worker[runner.generation].pc = "new"

\* Of n workers none takes a token and none starts.
Still(n) ==
  /\ worker' \in [1..n -> WorkerState]
  /\ \A h \in 1..n : /\ worker'[h].token \in {worker[h].token, 0}
                     /\ worker[h].pc \in {"none", "new"} => worker'[h].pc = worker[h].pc

LEMMA StillWhenCalm ==
  ASSUME NEW n \in Nat, AllCalm(n)
  PROVE  Still(n)
BY DEF AllCalm, Still, Calm

LEMMA StillWhenUsed ==
  ASSUME NEW n \in Nat, worker \in [1..n -> WorkerState], NEW g \in 1..n,
         analyzer.instance \in Nat, Ask(g) \/ Begin(g) \/ Infer(g)
  PROVE  Still(n)
<1> DEFINE w == worker[g]
<1>1. w \in WorkerState
  OBVIOUS
<1>2. ASSUME NEW v \in WorkerState, v.token = w.token, w.pc \in Threads,
             worker' = [worker EXCEPT ![g] = v]
      PROVE  Still(n)
  <2>1. w.pc \notin {"none", "new"}
    BY <1>2 DEF Threads
  <2> QED BY <1>2, <2>1 DEF Still
<1>3. ASSUME NEW pc \in Threads, worker' = [worker EXCEPT ![g].pc = pc], w.pc \in Threads
      PROVE  Still(n)
  <2> DEFINE v == [w EXCEPT !.pc = pc]
  <2>1. v \in WorkerState /\ v.token = w.token
    BY <1>1 DEF WorkerState
  <2>2. worker' = [worker EXCEPT ![g] = v]
    BY <1>3
  <2> HIDE DEF v
  <2> QED BY <1>2, <1>3, <2>1, <2>2
<1>4. CASE Ask(g)
  <2> DEFINE v == [w EXCEPT !.pc = "asked", !.instance = analyzer.instance]
  <2>1. v \in WorkerState /\ v.token = w.token
    BY <1>1 DEF WorkerState, Threads
  <2>2. worker' = [worker EXCEPT ![g] = v] /\ w.pc \in Threads
    BY <1>4 DEF Ask, W, Threads
  <2> HIDE DEF v
  <2> QED BY <1>2, <2>1, <2>2
<1>5. CASE Begin(g)
  BY <1>3, <1>5 DEF Begin, W, Becomes, Threads
<1>6. CASE Infer(g)
  <2>1. w.pc \in Threads
    BY <1>6 DEF Infer, W, Threads
  <2>2. CASE Becomes(g, "answered")
    BY <1>3, <2>1, <2>2 DEF Becomes, Threads
  <2>3. CASE ~Becomes(g, "answered")
    <3> DEFINE v == [w EXCEPT !.pc = "idle", !.fault = "error", !.stop = TRUE]
    <3>1. v \in WorkerState /\ v.token = w.token
      BY <1>1 DEF WorkerState, Threads
    <3>2. worker' = [worker EXCEPT ![g] = v]
      BY <1>6, <2>3 DEF Infer
    <3> HIDE DEF v
    <3> QED BY <1>2, <2>1, <3>1, <3>2
  <2> QED BY <2>2, <2>3
<1> QED BY <1>4, <1>5, <1>6

LEMMA NumberedKept ==
  ASSUME NEW n \in Nat, worker \in [1..n -> WorkerState], Numbered, Phased, Owned, Still(n),
         runner' = runner, pending' \in {pending, NoOperation},
         token.id \in Nat, token'.id = token.id
  PROVE  Numbered' /\ Phased'
<1>1. Generations = 1..n /\ Generations' = 1..n
  BY DEF Generations, Still
<1>2. \A h \in 1..n : worker[h].token \in Nat
  BY WorkerFields
<1>3. Phased'
  <2>1. \A h \in 1..n : worker[h].pc \in {"none", "new"} => worker'[h].pc = worker[h].pc
    BY DEF Still
  <2>2. runner.pc \in {"register", "start", "opened"} => runner.generation \in 1..n
    BY <1>1 DEF Owned, Attending
  <2> QED BY <2>1, <2>2 DEF Phased
<1>4. Numbered'
  <2>1. \A h \in 1..n : worker'[h].token \in {worker[h].token, 0}
    BY DEF Still
  <2>2. \A h \in 1..n : worker'[h].token <= token'.id
    BY <1>1, <1>2, <2>1 DEF Numbered
  <2>3. pending' # NoOperation =>
          /\ pending'.token # 0 /\ pending'.token # runner'.op.token
          /\ \A h \in 1..n : worker'[h].token # pending'.token
    BY <1>1, <2>1 DEF Numbered
  <2>4. runner'.pc \in {"load", "swap"} =>
          /\ runner'.op.token # 0
          /\ \A h \in 1..n : worker'[h].token # runner'.op.token
    BY <1>1, <2>1 DEF Numbered
  <2> QED BY <1>1, <2>2, <2>3, <2>4 DEF Numbered
<1> QED BY <1>3, <1>4

LEMMA NumberedFinished ==
  ASSUME NEW n \in Nat, worker \in [1..n -> WorkerState], Numbered,
         worker' \in [1..n -> WorkerState],
         \A h \in 1..n : worker'[h].token \in {worker[h].token, 0},
         runner'.pc \notin {"load", "swap", "register", "start", "opened"},
         \/ pending' = NoOperation
         \/ pending' = pending /\ runner'.op.token \in {runner.op.token, 0},
         token.id \in Nat, token'.id = token.id
  PROVE  Numbered' /\ Phased'
<1>1. Generations = 1..n /\ Generations' = 1..n
  BY DEF Generations
<1>2. Numbered'
  BY <1>1 DEF Numbered
<1> QED BY <1>2 DEF Phased

LEMMA NumberedScheduled ==
  ASSUME NEW n \in Nat, worker \in [1..n -> WorkerState], Numbered, Phased, Issued, Requested,
         runner \in RunnerState,
         NEW previous \in BOOLEAN, NEW paused \in BOOLEAN, Schedule(previous, paused)
  PROVE  Numbered' /\ Phased'
<1>1. /\ UNCHANGED worker /\ token'.id = token.id + 1 /\ pending'.token = token.id + 1
  BY ScheduledStep
<1>2. runner' = IF Active THEN runner ELSE At("take")
  BY ScheduledRunner
<1>3. At("take").pc = "take" /\ At("take").op.token = 0
  BY AtType
<1>4. runner.op.token \in Nat /\ token.id \in Nat /\ runner.op.token <= token.id
  BY RunnerFields DEF Requested, Issued
<1>5. Generations = 1..n /\ Generations' = 1..n
  BY <1>1 DEF Generations
<1>6. \A h \in 1..n : worker[h].token \in Nat
  BY WorkerFields
<1>7. runner'.op.token \in {runner.op.token, 0}
  BY <1>2, <1>3
<1>8. \A h \in 1..n : worker[h].token <= token.id
  BY <1>5 DEF Numbered
<1>9. /\ pending'.token # 0 /\ pending'.token # runner'.op.token
      /\ \A h \in 1..n : worker[h].token # pending'.token
      /\ \A h \in 1..n : worker[h].token <= token'.id
  BY <1>1, <1>4, <1>6, <1>7, <1>8
<1>10. runner' = runner \/ runner'.pc = "take"
  BY <1>2, <1>3
<1>11. Phased'
  BY <1>1, <1>10 DEF Phased
<1>12. Numbered'
  BY <1>1, <1>5, <1>9, <1>10 DEF Numbered
<1> QED BY <1>11, <1>12

LEMMA NumberedTake ==
  ASSUME IInv, NEW n \in Nat, worker \in [1..n -> WorkerState], Numbered, Phased, Take
  PROVE  Numbered' /\ Phased'
<1>0. /\ runner.pc = "take" /\ pending # NoOperation /\ pending' = NoOperation
      /\ token.id \in Nat /\ UNCHANGED token /\ registered \in Nat
      /\ Generations = 1..n /\ Owned
      /\ \A g \in 1..n : worker[g].token \in Nat
  BY WorkerFields DEF Take, IInv, TypeOK, Generations
<1>1. CASE Cancelled(pending.token)
  <2>1. UNCHANGED <<runner, worker>>
    BY <1>1 DEF Take
  <2>2. Still(n)
    BY <2>1, StayingCalm, StillWhenCalm
  <2> QED BY <1>0, <2>1, <2>2, NumberedKept
<1>2. CASE ~Cancelled(pending.token)
  <2>1. worker' = Retired(worker, registered)
    BY <1>2 DEF Take
  <2>2. /\ worker' \in [1..n -> WorkerState]
        /\ \A h \in 1..n : worker'[h].token \in {worker[h].token, 0}
    BY <1>0, <2>1, RetiredCalm, StillWhenCalm DEF Still
  <2>3. Generations' = 1..n
    BY <2>2 DEF Generations
  <2>4. CASE runner' = Runner("load", pending, 0, FALSE, 0, FALSE)
    <3>1. runner'.pc = "load" /\ runner'.op = pending
      BY <2>4 DEF Runner
    <3>2. /\ runner'.op.token # 0
          /\ \A g \in 1..n : worker'[g].token # runner'.op.token
      BY <1>0, <2>2, <3>1 DEF Numbered
    <3>3. \A h \in 1..n : worker'[h].token <= token'.id
      BY <1>0, <2>2 DEF Numbered
    <3> QED BY <1>0, <2>3, <3>1, <3>2, <3>3 DEF Numbered, Phased
  <2>5. CASE \/ runner' = At("take")
             \/ \E k \in 0..Candidates : runner' = Runner("open", pending, k, FALSE, 0, FALSE)
    <3>1. runner'.pc \in {"take", "open"}
      BY <2>5, AtType DEF Runner
    <3> QED BY <1>0, <2>2, <3>1, NumberedFinished
  <2>6. \/ runner' = At("take")
        \/ runner' = Runner("load", pending, 0, FALSE, 0, FALSE)
        \/ \E k \in 0..Candidates : runner' = Runner("open", pending, k, FALSE, 0, FALSE)
    BY <1>2 DEF Take, Finished
  <2> QED BY <2>4, <2>5, <2>6
<1> QED BY <1>1, <1>2

LEMMA NumberedRegister ==
  ASSUME IInv, NEW n \in Nat, worker \in [1..n -> WorkerState], Numbered, Phased, Register
  PROVE  Numbered' /\ Phased'
<1> DEFINE g == runner.generation
           w == NewWorker(Op.token)
           pc == IF CurrentAt(Op.token, runner.generation) THEN "start" ELSE "close"
<1>0. /\ runner.pc = "register" /\ UNCHANGED <<token, pending>> /\ runner \in RunnerState
      /\ worker' = [worker EXCEPT ![g] = w]
      /\ runner' = [runner EXCEPT !.pc = pc]
      /\ token.id \in Nat /\ Owned /\ Op.token \in Nat /\ Op.token <= token.id
      /\ Generations = 1..n
  BY RunnerFields DEF Register, control, Steps, IInv, TypeOK, Issued, Op, Generations
<1>1. w.token = Op.token /\ w.pc = "new"
  BY DEF NewWorker, NoWorker
<1>2. g \in 1..n
  BY <1>0 DEF Owned, Attending
<1>3. pc \in {"start", "close"}
  OBVIOUS
<1> HIDE DEF w, pc
<1>4. /\ runner'.pc \in {"start", "close"} /\ runner'.op = runner.op
      /\ runner'.generation = g
  BY <1>0, <1>3 DEF RunnerState
<1>5. /\ DOMAIN worker' = 1..n
      /\ worker'[g] = w
      /\ \A h \in 1..n : h # g => worker'[h] = worker[h]
  BY <1>0, <1>2
<1> HIDE DEF g
<1>6. Generations' = 1..n
  BY <1>5 DEF Generations
<1>7. Phased'
  BY <1>1, <1>4, <1>5 DEF Phased
<1>8. Numbered'
  <2>1. \A h \in 1..n : worker'[h].token \in {worker[h].token, Op.token}
    BY <1>1, <1>5
  <2>2. \A h \in 1..n : worker'[h].token <= token'.id
    BY <1>0, <2>1 DEF Numbered
  <2>3. pending' # NoOperation =>
          /\ pending'.token # 0 /\ pending'.token # runner'.op.token
          /\ \A h \in 1..n : worker'[h].token # pending'.token
    BY <1>0, <1>4, <2>1 DEF Numbered, Op
  <2> QED BY <1>4, <1>6, <2>2, <2>3 DEF Numbered
<1> QED BY <1>7, <1>8

LEMMA NumberedBinds ==
  ASSUME IInv, NEW n \in Nat, worker \in [1..n -> WorkerState], n <= session.generation,
         Numbered, UNCHANGED <<token, pending>>,
         NEW rollback \in BOOLEAN, ~rollback => runner.left # 0, Binds(rollback)
  PROVE  Numbered' /\ Phased'
<1> DEFINE m == session.generation + 1
           E == [g \in 1..m |-> IF g \in 1..n THEN worker[g] ELSE NoWorker]
<1>0. /\ m \in Nat /\ m \in 1..m /\ m \notin 1..n /\ token.id \in Nat
      /\ Generations = 1..n
      /\ NoWorker.token = 0 /\ NoWorker.pc = "none"
  BY SessionFields DEF IInv, TypeOK, Generations, NoWorker
<1>1. /\ runner'.pc = "register" /\ runner'.generation = m
      /\ runner'.op.token = runner.op.token
  BY BindsRunner DEF IInv, TypeOK
<1>2. worker' = E
  BY <1>0 DEF Binds, Extended
<1> HIDE DEF m
<1>3. /\ Generations' = 1..m
      /\ worker'[m] = NoWorker
      /\ \A h \in 1..m : \/ worker'[h] = NoWorker
                         \/ h \in 1..n /\ worker'[h] = worker[h]
  BY <1>0, <1>2 DEF Generations
<1>4. Phased'
  BY <1>0, <1>1, <1>3 DEF Phased
<1>5. \A h \in 1..m : worker'[h].token <= token'.id
  BY <1>0, <1>3 DEF Numbered
<1>6. pending' # NoOperation =>
        /\ pending'.token # 0 /\ pending'.token # runner'.op.token
        /\ \A h \in 1..m : worker'[h].token # pending'.token
  BY <1>0, <1>1, <1>3 DEF Numbered
<1>7. Numbered'
  BY <1>1, <1>3, <1>5, <1>6 DEF Numbered
<1> QED BY <1>4, <1>7

LEMMA NumberedStep ==
  ASSUME IInv, NEW n \in Nat, worker \in [1..n -> WorkerState], n <= session.generation,
         Numbered, Phased, [Next]_vars
  PROVE  Numbered' /\ Phased'
<1>0. /\ TypeOK /\ Owned /\ Issued /\ Requested /\ runner \in RunnerState
      /\ token.id \in Nat /\ Generations = 1..n /\ token \in [id : Nat, set : BOOLEAN]
      /\ runner.left \in Nat /\ analyzer.instance \in Nat
      /\ registered \in Nat /\ runner.generation \in Nat
  BY RunnerFields DEF IInv, TypeOK, Requested, Generations
<1>1. ASSUME AllCalm(n), UNCHANGED runner, pending' \in {pending, NoOperation},
             token'.id = token.id
      PROVE  Numbered' /\ Phased'
  BY <1>0, <1>1, StillWhenCalm, NumberedKept
<1>2. ASSUME UNCHANGED worker PROVE AllCalm(n)
  BY <1>2, StayingCalm
<1>3. CASE \/ Pause \/ Stop \/ Resume \/ Switch \/ Retry \/ DeleteSucceeds \/ DeleteFails
           \/ WatchPcm \/ WatchWithdraws \/ Reap \/ UNCHANGED vars
  <2>1. UNCHANGED <<worker, runner, token, pending>>
    BY <1>3 DEF Pause, Stop, Resume, Switch, Handled, Retry, DeleteSucceeds, DeleteFails,
                WatchPcm, WatchWithdraws, Reap, control, vars
  <2> QED BY <1>1, <1>2, <2>1
<1>4. CASE Delete
  <2>1. /\ worker' = Retired(worker, registered) /\ pending' = NoOperation
        /\ UNCHANGED runner /\ token'.id = token.id
    BY <1>0, <1>4 DEF Delete
  <2> QED BY <1>0, <1>1, <2>1, RetiredCalm
<1>5. CASE Reconcile
  <2>1. \/ UNCHANGED <<token, pending, runner, registered, worker>>
        \/ Cancel /\ UNCHANGED scheduled
        \/ \E previous, paused \in BOOLEAN : Schedule(previous, paused)
    BY <1>0, <1>5, ReconcileStep DEF Reconcile
  <2>2. CASE UNCHANGED <<token, pending, runner, registered, worker>>
    BY <1>1, <1>2, <2>2
  <2>3. CASE Cancel
    <3>1. /\ worker' = Retired(worker, registered) /\ UNCHANGED <<pending, runner>>
          /\ token'.id = token.id
      BY <1>0, <2>3, CancelStep DEF Cancel
    <3> QED BY <1>0, <1>1, <3>1, RetiredCalm
  <2>4. CASE \E previous, paused \in BOOLEAN : Schedule(previous, paused)
    BY <1>0, <2>4, NumberedScheduled
  <2> QED BY <2>1, <2>2, <2>3, <2>4
<1>6. CASE Take
  BY <1>6, NumberedTake
<1>7. CASE Register
  BY <1>7, NumberedRegister
\* Where the runner goes on without a worker that has yet to start.
<1>8. ASSUME AllCalm(n), UNCHANGED <<token, pending>>,
             runner'.pc \notin {"load", "swap", "register", "start", "opened"},
             runner'.op.token \in {runner.op.token, 0}
      PROVE  Numbered' /\ Phased'
  <2>1. /\ worker' \in [1..n -> WorkerState]
        /\ \A h \in 1..n : worker'[h].token \in {worker[h].token, 0}
    BY <1>8, StillWhenCalm DEF Still
  <2> QED BY <1>0, <1>8, <2>1, NumberedFinished
<1>9. \A pc \in {"take", "leaving", "dead"} : At(pc).pc = pc /\ At(pc).op.token = 0
  BY AtType
<1>10. ASSUME NEW pc, Steps(pc)
       PROVE  /\ runner'.pc = pc /\ runner'.op = runner.op
              /\ runner'.generation = runner.generation
  BY <1>0, <1>10, SteppedRunner
<1>11. CASE Leave \/ Dies
  <2>1. UNCHANGED <<worker, token, pending>>
    BY <1>11 DEF Leave, Dies, control
  <2>2. runner' = At("leaving") \/ runner' = At("dead")
    BY <1>11 DEF Leave, Dies
  <2> QED BY <1>2, <1>8, <1>9, <2>1, <2>2
<1>12. CASE Load
  <2>1. UNCHANGED <<worker, token, pending>> /\ runner.pc = "load"
    BY <1>12 DEF Load, control
  <2>2. CASE Steps("swap")
    <3>1. runner'.pc = "swap" /\ runner'.op = runner.op
      BY <1>10, <2>2
    <3> QED BY <2>1, <3>1 DEF Numbered, Phased, Generations
  <2>3. CASE Steps("fail") \/ Finished
    BY <1>2, <1>8, <1>9, <1>10, <2>1, <2>3 DEF Finished
  <2> QED BY <1>12, <2>2, <2>3 DEF Load
<1>13. CASE Swap
  <2>1. UNCHANGED <<worker, token, pending>> /\ (Resolve \/ Finished)
    BY <1>13 DEF Swap, control
  <2>2. Resolve => runner'.pc = "open" /\ runner'.op = runner.op
    BY <1>0 DEF Resolve, RunnerState
  <2> QED BY <1>2, <1>8, <1>9, <2>1, <2>2 DEF Finished
<1>14. CASE NothingOpens \/ Fail
  <2>1. UNCHANGED <<worker, token, pending>> /\ (Steps("fail") \/ Finished)
    BY <1>14 DEF NothingOpens, Fail, control
  <2> QED BY <1>2, <1>8, <1>9, <1>10, <2>1 DEF Finished
<1>15. CASE OpenCandidate \/ OpenPrevious
  <2>1. UNCHANGED <<token, pending>> /\ runner.pc = "open"
    BY <1>15 DEF OpenCandidate, OpenPrevious, control
  <2>2. CASE OpenCandidate /\ Binds(FALSE)
    <3>1. runner.left # 0
      BY <1>0, <2>2 DEF OpenCandidate
    <3> QED BY <2>1, <2>2, <3>1, NumberedBinds
  <2>3. CASE Binds(TRUE)
    BY <2>1, <2>3, NumberedBinds
  <2>4. CASE UNCHANGED worker /\ runner' = [runner EXCEPT !.left = runner.left - 1]
    <3>1. runner'.pc = "open" /\ runner'.op = runner.op
      BY <1>0, <2>1, <2>4 DEF RunnerState
    <3> QED BY <1>2, <1>8, <2>1, <2>4, <3>1
  <2>5. CASE UNCHANGED worker /\ Steps("fail")
    BY <1>2, <1>8, <1>10, <2>1, <2>5
  <2> QED BY <1>15, <2>2, <2>3, <2>4, <2>5 DEF OpenCandidate, OpenPrevious
<1>16. CASE Start
  <2>1. UNCHANGED <<token, pending>> /\ runner.pc = "start" /\ runner.generation \in 1..n
    BY <1>0, <1>16 DEF Start, control, Owned, Attending
  <2>2. CASE Steps("close") /\ UNCHANGED worker
    BY <1>2, <1>8, <1>10, <2>1, <2>2
  <2>3. CASE Steps("opened") /\ worker' = [worker EXCEPT ![runner.generation].open = TRUE]
    <3> DEFINE g == runner.generation
               w == [worker[g] EXCEPT !.open = TRUE]
    <3>1. worker[g] \in WorkerState
      BY <2>1
    <3>2. w \in WorkerState /\ Calm(worker[g], w)
      BY <3>1 DEF WorkerState, Calm
    <3>3. worker' = [worker EXCEPT ![g] = w]
      BY <2>3
    <3> HIDE DEF w
    <3>4. Still(n)
      BY <2>1, <3>2, <3>3, ReplacedCalm, StillWhenCalm
    <3>5. runner'.pc = "opened" /\ runner'.op = runner.op /\ runner'.generation = g
      BY <1>10, <2>3
    <3>6. Generations' = 1..n
      BY <3>4 DEF Still, Generations
    <3>7. Phased'
      BY <2>1, <3>4, <3>5 DEF Phased, Still
    <3>8. \A h \in 1..n : worker'[h].token = worker[h].token \/ worker'[h].token = 0
      BY <3>4 DEF Still
    <3>9. \A h \in 1..n : worker'[h].token <= token'.id
      BY <1>0, <2>1, <3>8 DEF Numbered
    <3>10. pending' # NoOperation =>
             /\ pending'.token # 0 /\ pending'.token # runner'.op.token
             /\ \A h \in 1..n : worker'[h].token # pending'.token
      BY <1>0, <2>1, <3>5, <3>8 DEF Numbered
    <3> QED BY <3>5, <3>6, <3>7, <3>9, <3>10 DEF Numbered
  <2> QED BY <1>16, <2>2, <2>3 DEF Start
<1>17. CASE Started
  <2>1. UNCHANGED <<token, pending>> /\ runner.pc = "opened" /\ runner.generation \in 1..n
    BY <1>0, <1>17 DEF Started, control, Owned, Attending
  <2> DEFINE g == runner.generation
             v == [worker[g] EXCEPT !.open = FALSE]
             w == [worker[g] EXCEPT !.pc = "idle"]
  <2>2. worker[g] \in WorkerState
    BY <2>1
  <2>3. /\ v \in WorkerState /\ v.token = worker[g].token
        /\ w \in WorkerState /\ w.token = worker[g].token
    BY <2>2 DEF WorkerState, Threads
  <2>4. worker' = [worker EXCEPT ![g] = v] \/ worker' = [worker EXCEPT ![g] = w]
    BY <1>17 DEF Started
  <2> HIDE DEF v, w
  <2>5. /\ worker' \in [1..n -> WorkerState]
        /\ \A h \in 1..n : worker'[h].token \in {worker[h].token, 0}
    BY <2>1, <2>3, <2>4
  <2>6. Steps("close") \/ Steps("wait")
    BY <1>17 DEF Started
  <2>7. runner'.pc \in {"close", "wait"} /\ runner'.op = runner.op
    BY <1>10, <2>6
  <2> QED BY <1>0, <2>1, <2>5, <2>7, NumberedFinished
<1>18. CASE Wait
  <2>1. UNCHANGED <<token, pending>> /\ (Steps("bind") \/ Steps("close"))
    BY <1>18 DEF Wait, control
  <2>2. worker' = worker \/ worker' = Retired(worker, runner.generation)
    BY <1>18 DEF Wait
  <2> QED BY <1>0, <1>2, <1>8, <1>10, <2>1, <2>2, RetiredCalm
<1>19. CASE Bind
  <2>1. /\ UNCHANGED <<token, pending, worker>>
        /\ \/ runner' = [runner EXCEPT !.pc = "close", !.kept = TRUE]
           \/ runner' = At("take")
           \/ Steps("close")
    BY <1>19 DEF Bind, control
  <2>2. runner' = [runner EXCEPT !.pc = "close", !.kept = TRUE]
          => runner'.pc = "close" /\ runner'.op = runner.op
    BY <1>0 DEF RunnerState
  <2> QED BY <1>2, <1>8, <1>9, <1>10, <2>1, <2>2
<1>20. CASE Close
  <2>1. /\ UNCHANGED <<token, pending>> /\ worker' = Retired(worker, runner.generation)
        /\ Finished \/ Steps("fail") \/ Steps("open")
    BY <1>20 DEF Close, control, Steps
  <2> QED BY <1>0, <1>8, <1>9, <1>10, <2>1, RetiredCalm DEF Finished
<1>21. ASSUME NEW g \in Generations, WorkerStep(g) PROVE Numbered' /\ Phased'
  <2>1. UNCHANGED <<runner, token, pending>>
    BY <1>21 DEF WorkerStep, Pcm, SourceEnds, Ask, Begin, Abandon, Infer, Publish, Ended, control
  <2>2. Still(n)
    BY <1>0, <1>21, WorkerStepCalm, StillWhenCalm, StillWhenUsed DEF WorkerStep
  <2> QED BY <1>0, <2>1, <2>2, NumberedKept
<1>22. CASE Restart
  <2>1. /\ pending' = NoOperation /\ runner' = At("dead")
        /\ worker' = [g \in 1..0 |-> NoWorker]
    BY <1>22 DEF Restart, None
  <2>2. Generations' = {}
    BY <2>1 DEF Generations
  <2>3. runner'.pc = "dead"
    BY <1>9, <2>1
  <2> QED BY <2>1, <2>2, <2>3 DEF Numbered, Phased
<1> QED
  BY <1>3, <1>4, <1>5, <1>6, <1>7, <1>11, <1>12, <1>13, <1>14, <1>15, <1>16, <1>17, <1>18,
     <1>19, <1>20, <1>21, <1>22 DEF Next, Command, Completion, RunnerStep

-----------------------------------------------------------------------------
(* Who is inside the model.                                                *)

\* The lock tells who infers; what an uncancelled consumer has asked for is the
\* model in use, which is open while the lock is held.
Using ==
  /\ lock # 0 => /\ lock \in Generations /\ worker[lock].pc = "analyzing"
                 /\ worker[lock].instance = analyzer.instance
                 /\ ~analyzer.closed
  /\ \A g \in Generations : worker[g].pc = "analyzing" => lock = g
  /\ \A g \in Generations :
       worker[g].pc = "asked" /\ ~Cancelled(worker[g].token) =>
         worker[g].instance = analyzer.instance

\* No worker begins to ask or to infer, and none that infers is disturbed.
Undisturbed(n) ==
  /\ \A h \in Generations' :
       worker'[h].pc \in {"asked", "analyzing"} =>
         /\ h \in 1..n /\ worker'[h].pc = worker[h].pc
         /\ worker'[h].instance = worker[h].instance
         /\ worker'[h].pc = "asked" => worker'[h].token = worker[h].token
  /\ \A h \in 1..n : worker[h].pc = "analyzing" =>
       /\ h \in Generations' /\ worker'[h].pc = "analyzing"
       /\ worker'[h].instance = worker[h].instance

LEMMA UndisturbedStep ==
  ASSUME IInv, NEW n \in Nat, worker \in [1..n -> WorkerState], n <= session.generation,
         Phased, [Next]_vars, ~Restart, ~\E g \in 1..n : Ask(g) \/ Begin(g) \/ Infer(g)
  PROVE  Undisturbed(n)
<1>0. /\ Owned /\ Generations = 1..n /\ session.generation \in Nat
      /\ runner \in RunnerState
  BY SessionFields, OwnedIn DEF IInv, TypeOK
<1>1. CASE AllCalm(n)
  <2>1. Generations' = 1..n
    BY <1>1 DEF AllCalm, Generations
  <2> QED BY <1>1, <2>1 DEF AllCalm, Calm, Undisturbed
<1>2. ASSUME NEW g \in 1..n, worker[g].pc \in {"none", "new"}, DOMAIN worker' = 1..n,
             worker'[g].pc \in {"new", "idle"}, \A h \in 1..n : h # g => worker'[h] = worker[h]
      PROVE  Undisturbed(n)
  <2>1. Generations' = 1..n
    BY <1>2 DEF Generations
  <2> QED BY <1>2, <2>1 DEF Undisturbed
<1>3. CASE Started
  <2> DEFINE g == runner.generation
             v == [worker[g] EXCEPT !.open = FALSE]
             w == [worker[g] EXCEPT !.pc = "idle"]
  <2>1. runner.pc = "opened"
    BY <1>3 DEF Started
  <2>2. g \in 1..n /\ worker[g].pc = "new"
    BY <1>0, <2>1 DEF Owned, Attending, Phased
  <2>3. worker[g] \in WorkerState
    BY <2>2
  <2>4. v.pc = "new" /\ w.pc = "idle"
    BY <2>2, <2>3 DEF WorkerState
  <2>5. worker' = [worker EXCEPT ![g] = v] \/ worker' = [worker EXCEPT ![g] = w]
    BY <1>3 DEF Started
  <2> HIDE DEF v, w
  <2>6. /\ DOMAIN worker' = 1..n /\ worker'[g].pc \in {"new", "idle"}
        /\ \A h \in 1..n : h # g => worker'[h] = worker[h]
    BY <2>2, <2>4, <2>5
  <2> HIDE DEF g
  <2> QED BY <1>2, <2>2, <2>6
<1>4. CASE Register
  <2> DEFINE g == runner.generation
             w == NewWorker(Op.token)
  <2>1. runner.pc = "register" /\ worker' = [worker EXCEPT ![g] = w]
    BY <1>4 DEF Register
  <2>2. g \in 1..n /\ worker[g].pc = "none"
    BY <1>0, <2>1 DEF Owned, Attending, Phased
  <2>3. w.pc = "new"
    BY DEF NewWorker, NoWorker
  <2> HIDE DEF w
  <2>4. /\ DOMAIN worker' = 1..n /\ worker'[g].pc = "new"
        /\ \A h \in 1..n : h # g => worker'[h] = worker[h]
    BY <2>1, <2>2, <2>3
  <2> HIDE DEF g
  <2> QED BY <1>2, <2>2, <2>4
<1>5. CASE worker' = Extended(session.generation + 1)
  <2> DEFINE m == session.generation + 1
             E == [g \in 1..m |-> IF g \in 1..n THEN worker[g] ELSE NoWorker]
  <2>1. worker' = E /\ NoWorker.pc = "none"
    BY <1>0, <1>5 DEF Extended, NoWorker
  <2>2. m \in Nat /\ n <= m /\ Generations' = 1..m
    BY <1>0, <2>1 DEF Generations
  <2> HIDE DEF m
  <2>3. \A h \in 1..m : worker'[h] = IF h \in 1..n THEN worker[h] ELSE NoWorker
    BY <2>1
  <2>4. \A h \in 1..n : h \in 1..m /\ worker'[h] = worker[h]
    BY <2>2, <2>3
  <2> QED BY <2>1, <2>2, <2>3, <2>4 DEF Undisturbed
<1> QED BY <1>1, <1>3, <1>4, <1>5, CalmStep

LEMMA UsingUndisturbed ==
  ASSUME IInv, NEW n \in Nat, worker \in [1..n -> WorkerState], n <= session.generation,
         Phased, Numbered, Using, [Next]_vars, ~Restart,
         ~\E g \in 1..n : Ask(g) \/ Begin(g) \/ Infer(g)
  PROVE  Using'
<1>0. /\ TypeOK /\ Generations = 1..n /\ token.id \in Nat
      /\ \A g \in 1..n : worker[g].token \in Nat /\ worker[g].token <= token.id
  BY WorkerFields DEF IInv, TypeOK, Generations, Numbered
<1>1. Undisturbed(n)
  BY UndisturbedStep
<1>2. lock' = lock
  BY <1>0, LockStep
<1>3. \A g \in Generations' : worker'[g].pc = "analyzing" => lock' = g
  BY <1>0, <1>1, <1>2 DEF Using, Undisturbed
<1>4. \/ analyzer' = analyzer
      \/ lock = 0 /\ analyzer'.instance = analyzer.instance
      \/ Swap
  BY <1>0, AnalyzerStep
<1>5. Swap => lock = 0
  BY DEF Swap
<1>6. lock' # 0 => /\ lock' \in Generations' /\ worker'[lock'].pc = "analyzing"
                   /\ worker'[lock'].instance = analyzer'.instance
                   /\ ~analyzer'.closed
  BY <1>0, <1>1, <1>2, <1>4, <1>5 DEF Using, Undisturbed
<1>7. ASSUME NEW g \in Generations', worker'[g].pc = "asked", ~Cancelled(worker[g].token)'
      PROVE  worker'[g].instance = analyzer'.instance
  <2>1. /\ g \in 1..n /\ worker[g].pc = "asked" /\ worker'[g].token = worker[g].token
        /\ worker'[g].instance = worker[g].instance
    BY <1>1, <1>7 DEF Undisturbed
  <2> DEFINE t == worker[g].token
  <2>2. t \in Nat /\ t <= token.id
    BY <1>0, <2>1
  <2>3. ~(t # token'.id \/ token'.set)
    BY <1>7, <2>1 DEF Cancelled
  <2>4. ~Cancelled(t) /\ token' = token
    <3>1. ASSUME NEW s \in Nat, s <= token.id, ~(s # token'.id \/ token'.set)
          PROVE  ~Cancelled(s) /\ token' = token
      <4>1. ~Cancelled(s)'
        BY <3>1 DEF Cancelled
      <4> QED BY <1>0, <3>1, <4>1, CancelledStays
    <3> QED BY <2>2, <2>3, <3>1
  <2>5. worker[g].instance = analyzer.instance
    BY <1>0, <2>1, <2>4 DEF Using
  <2>6. CASE Swap /\ analyzer' # analyzer
    <3>1. runner.pc = "swap" /\ ~Cancelled(Op.token)
      BY <2>6 DEF Swap, Current
    <3>2. worker[g].token # Op.token
      BY <1>0, <2>1, <3>1 DEF Numbered, Op
    <3> QED BY <2>4, <3>1, <3>2 DEF Cancelled
  <2> QED BY <1>4, <2>1, <2>5, <2>6
<1> QED BY <1>3, <1>6, <1>7 DEF Using

\* What a consumer does with the model: it asks for the session's, begins with it
\* under the free lock, and leaves the lock with what it infers.
LEMMA UsingConsumer ==
  ASSUME IInv, NEW n \in Nat, worker \in [1..n -> WorkerState], Closing, Using,
         NEW g \in 1..n, Ask(g) \/ Begin(g) \/ Infer(g)
  PROVE  Using'
<1>0. Generations = 1..n /\ UNCHANGED token /\ worker[g] \in WorkerState /\ g # 0
  BY DEF Generations, Ask, Begin, Infer, control
<1>1. ASSUME NEW w \in WorkerState, worker' = [worker EXCEPT ![g] = w]
      PROVE  Generations' = 1..n /\ worker'[g] = w /\ \A h \in 1..n : h # g => worker'[h] = worker[h]
  BY <1>1 DEF Generations
<1>2. CASE Ask(g)
  <2> DEFINE w == [worker[g] EXCEPT !.pc = "asked", !.instance = analyzer.instance]
  <2>1. analyzer.instance \in Nat
    BY DEF IInv, TypeOK
  <2>2. w \in WorkerState /\ w.pc = "asked" /\ w.instance = analyzer.instance
    BY <1>0, <2>1 DEF WorkerState, Threads
  <2>3. worker' = [worker EXCEPT ![g] = w] /\ UNCHANGED <<analyzer, lock>> /\ worker[g].pc = "idle"
    BY <1>2 DEF Ask, W
  <2> HIDE DEF w
  <2>4. lock # g
    BY <1>0, <2>3 DEF Using
  <2> QED BY <1>0, <1>1, <2>2, <2>3, <2>4 DEF Using, Cancelled
<1>3. CASE Begin(g)
  <2> DEFINE w == [worker[g] EXCEPT !.pc = "analyzing"]
  <2>1. /\ w \in WorkerState /\ w.pc = "analyzing" /\ w.instance = worker[g].instance
        /\ w.token = worker[g].token
    BY <1>0 DEF WorkerState, Threads
  <2>2. /\ worker' = [worker EXCEPT ![g] = w] /\ UNCHANGED analyzer /\ lock = 0 /\ lock' = g
        /\ worker[g].pc = "asked" /\ Fresh(g)
    BY <1>3 DEF Begin, W, Becomes
  <2> HIDE DEF w
  <2>3. ~Cancelled(worker[g].token) /\ ~deleting /\ session.workflow # "STOPPED"
    BY <2>2 DEF Fresh, CurrentAt, Current, W
  <2>4. worker[g].instance = analyzer.instance /\ ~analyzer.closed
    BY <1>0, <2>2, <2>3 DEF Using, Closing
  <2>5. \A h \in 1..n : worker[h].pc # "analyzing"
    BY <1>0, <2>2 DEF Using
  <2>6. Generations' = 1..n /\ worker'[g] = w /\ \A h \in 1..n : h # g => worker'[h] = worker[h]
    BY <1>1, <2>1, <2>2
  <2>7. \A h \in 1..n :
          worker'[h].pc = "asked" => h # g /\ worker'[h] = worker[h]
    BY <2>1, <2>6
  <2>8. \A h \in 1..n : worker'[h].pc = "asked" /\ ~Cancelled(worker'[h].token)
          => worker'[h].instance = analyzer.instance
    BY <1>0, <2>7 DEF Using
  <2>9. \A h \in 1..n : ~Cancelled(worker[h].token)' => ~Cancelled(worker'[h].token)
    BY <1>0 DEF Cancelled
  <2> QED BY <2>1, <2>2, <2>4, <2>5, <2>6, <2>8, <2>9 DEF Using
<1>4. CASE Infer(g)
  <2>1. worker[g].pc = "analyzing" /\ lock' = 0
    BY <1>4 DEF Infer, W
  <2>2. analyzer'.instance = analyzer.instance
    BY <1>4 DEF Infer, IInv, TypeOK
  <2>3. \E w \in WorkerState : w.pc \in {"idle", "answered"} /\ worker' = [worker EXCEPT ![g] = w]
    <3>1. CASE Becomes(g, "answered")
      <4> DEFINE w == [worker[g] EXCEPT !.pc = "answered"]
      <4>1. w \in WorkerState /\ w.pc = "answered"
        BY <1>0 DEF WorkerState, Threads
      <4>2. worker' = [worker EXCEPT ![g] = w]
        BY <3>1 DEF Becomes
      <4> HIDE DEF w
      <4> QED BY <4>1, <4>2
    <3>2. CASE ~Becomes(g, "answered")
      <4> DEFINE w == [worker[g] EXCEPT !.pc = "idle", !.fault = "error", !.stop = TRUE]
      <4>1. w \in WorkerState /\ w.pc = "idle"
        BY <1>0 DEF WorkerState, Threads
      <4>2. worker' = [worker EXCEPT ![g] = w]
        BY <1>4, <3>2 DEF Infer
      <4> HIDE DEF w
      <4> QED BY <4>1, <4>2
    <3> QED BY <3>1, <3>2
  <2>4. PICK w \in WorkerState : w.pc \in {"idle", "answered"} /\ worker' = [worker EXCEPT ![g] = w]
    BY <2>3
  <2>5. \A h \in 1..n : worker'[h].pc = "analyzing" => h = g
    BY <1>0, <1>1, <2>1, <2>4 DEF Using
  <2> QED BY <1>0, <1>1, <2>1, <2>2, <2>4, <2>5 DEF Using, Cancelled
<1> QED BY <1>2, <1>3, <1>4

\* The model's part of the inductive invariant.
ModelInv == IInv /\ Closing /\ Numbered /\ Phased /\ Using

LEMMA ModelInvInit == Init => ModelInv
<1> SUFFICES ASSUME Init PROVE ModelInv
  OBVIOUS
<1>1. IInv
  BY IInvInit
<1>2. Generations = {}
  BY DEF Init, None, Generations
<1>3. Closing
  BY DEF Init, NoCommand, Closing
<1>4. runner.pc = "take" /\ runner.op.token = 0 /\ pending.token = 1 /\ lock = 0
  BY DEF Init, At, Runner, NoOperation
<1>5. Numbered /\ Phased /\ Using
  BY <1>2, <1>4 DEF Numbered, Phased, Using
<1> QED BY <1>1, <1>3, <1>5 DEF ModelInv

LEMMA ModelInvStep == ModelInv /\ [Next]_vars => ModelInv'
<1> SUFFICES ASSUME ModelInv, [Next]_vars PROVE ModelInv'
  OBVIOUS
<1>1. IInv /\ Closing /\ Numbered /\ Phased /\ Using
  BY DEF ModelInv
<1>2. PICK n \in 0..session.generation : worker \in [1..n -> WorkerState]
  BY <1>1 DEF IInv, TypeOK
<1>3. n \in Nat /\ n <= session.generation /\ Generations = 1..n
  BY <1>1, <1>2, SessionFields DEF IInv, TypeOK, Generations
<1>4. IInv' /\ Closing'
  BY <1>1, IInvStep, ModelClosingStep
<1>5. Numbered' /\ Phased'
  BY <1>1, <1>2, <1>3, NumberedStep
<1>6. Using'
  <2>1. CASE Restart
    <3>1. lock' = 0 /\ Generations' = {}
      BY <2>1 DEF Restart, None, Generations
    <3> QED BY <3>1 DEF Using
  <2>2. CASE \E g \in 1..n : Ask(g) \/ Begin(g) \/ Infer(g)
    BY <1>1, <1>2, <1>3, <2>2, UsingConsumer
  <2>3. CASE ~Restart /\ ~\E g \in 1..n : Ask(g) \/ Begin(g) \/ Infer(g)
    BY <1>1, <1>2, <1>3, <2>3, UsingUndisturbed
  <2> QED BY <2>1, <2>2, <2>3
<1> QED BY <1>4, <1>5, <1>6 DEF ModelInv

\* A consumer infers with the session's model and nobody closes it meanwhile: a
\* replacement (Swap) needs the lock, a stop or a deletion leaves it to the
\* reaper (close_analyzer_when_idle, live_audio.py).
THEOREM ModelStaysOpen == Spec => []ModelInUseStaysOpen
<1>1. ModelInv => ModelInUseStaysOpen
  BY DEF ModelInv, Using, ModelInUseStaysOpen
<1> QED BY <1>1, ModelInvInit, ModelInvStep, PTL DEF Spec

\* The three together: inputs and model have owners, and are let go when nobody
\* uses them.
THEOREM OwnershipHolds == Spec => []Ownership
BY ModelStaysOpen, InputsAreOwned, HaltsRelease, PTL DEF Ownership

\* A stop and a deletion are final, a retry schedules nothing for a halted session, and
\* a switch handed to the runner is not handed to it again.
THEOREM HaltsAreForGood == Spec => HaltsForGood
BY StopsForGood, RetriesDoNotResurrect, SwitchesRunOnce, PTL DEF HaltsForGood

-----------------------------------------------------------------------------
(* Who settles a pending switch.                                           *)

\* The points of an attempt on an operation, from its model to its failure.
Opening == {"load", "swap", "open", "register", "start", "opened", "wait", "bind", "close", "fail"}

\* The keys in use were issued, and a token has a number.
Keyed ==
  /\ token.id # 0
  /\ scheduled <= history.issued
  /\ command.key <= history.issued
  /\ \A c \in history.applied : c.key <= history.issued

\* The command that asked for the switch has not been reconciled yet,
Awaited ==
  /\ command.action = "switch" /\ command.key = session.operation
  /\ scheduled # session.operation

\* or the latest operation has its token and an active runner to take it,
Lined == pending.token = token.id /\ Active

\* or has been taken and is under way.
Carried == runner.op.token = token.id /\ ~runner.kept /\ runner.pc \in Opening

Pursued == ~token.set /\ (Lined \/ Carried)

\* A switch is pending only in a session that runs.
Unsettled == session.result = "pending"
Running == session.workflow # "STOPPED" /\ session.state \notin Halts

\* Its operation was dropped by a deletion that the store refused.
Dropped ==
  token.set /\ session.state = "unavailable" /\ history.dropped = session.operation

Settling == Unsettled => Running /\ (deleting \/ Awaited \/ Pursued \/ Dropped)

\* A deletion under way has cancelled what ran.
Cut == command.action = "delete" => token.set

LEMMA SteppedOn ==
  ASSUME runner \in RunnerState, NEW pc, Steps(pc)
  PROVE  runner'.pc = pc /\ runner'.op = runner.op /\ runner'.kept = runner.kept
BY DEF Steps, RunnerState

LEMMA OutcomeSettles == Outcome # "pending"
BY DEF Outcome

\* Pause, stop, resume, a restart, and the two transactions of the runner that
\* end an operation leave no result pending.
LEMMA SettledBy ==
  ASSUME TypeOK, Unsettled => Running, Unsettled'
  PROVE  /\ ~Pause /\ ~Stop /\ ~Resume /\ ~Restart
         /\ Bind => ~CurrentAt(Op.token, runner.generation)
         /\ Fail => ~Current(Op.token)
<1>0. session \in Session
  BY DEF TypeOK
<1>1. ~Restart
  <2>1. SUFFICES ASSUME Restart PROVE FALSE
    OBVIOUS
  <2>2. session' = Restarted(session)
    BY <2>1 DEF Restart
  <2>3. session.workflow # "STOPPED"
    BY <2>2 DEF Restarted, Unsettled, Running
  <2> DEFINE p == Suspended(session)
             result == IF p.result = "pending" THEN "failed" ELSE p.result
  <2>4. p \in Session
    BY <1>0, SuspendedType
  <2>5. session' = [p EXCEPT !.generation = p.generation + 1, !.result = result]
    BY <2>2, <2>3 DEF Restarted
  <2>6. result # "pending"
    OBVIOUS
  <2> HIDE DEF p, result
  <2>7. session'.result = result
    BY <2>4, <2>5 DEF Session
  <2> QED BY <2>6, <2>7 DEF Unsettled
<1>2. Bind => ~CurrentAt(Op.token, runner.generation)
  <2>1. SUFFICES ASSUME Bind, CurrentAt(Op.token, runner.generation) PROVE FALSE
    BY DEF Bind
  <2>2. CASE Op.paused
    <3> DEFINE p == Cleared(session)
    <3>1. p \in Session
      BY <1>0, ClearedType
    <3>2. session' = [p EXCEPT !.workflow = "SUSPENDED", !.state = "paused", !.result = Outcome]
      BY <2>1, <2>2 DEF Bind
    <3> HIDE DEF p
    <3>3. session'.result = Outcome
      BY <3>1, <3>2 DEF Session
    <3> QED BY <3>3, OutcomeSettles DEF Unsettled
  <2>3. CASE ~Op.paused
    <3> DEFINE state == IF session.fresh THEN session.state ELSE "listening"
    <3>1. session' = [session EXCEPT !.state = state, !.result = Outcome]
      BY <2>1, <2>3 DEF Bind
    <3> HIDE DEF state
    <3>2. session'.result = Outcome
      BY <1>0, <3>1 DEF Session
    <3> QED BY <3>2, OutcomeSettles DEF Unsettled
  <2> QED BY <2>2, <2>3
<1>3. Fail => ~Current(Op.token)
  <2>1. SUFFICES ASSUME Fail, Current(Op.token) PROVE FALSE
    BY DEF Fail
  <2> DEFINE p == Suspended(session)
             result == IF session.operation # 0 THEN "failed" ELSE "none"
  <2>2. p \in Session
    BY <1>0, SuspendedType
  <2>3. session' = [p EXCEPT !.result = result] /\ result # "pending"
    BY <2>1 DEF Fail
  <2> HIDE DEF p, result
  <2>4. session'.result = result
    BY <2>2, <2>3 DEF Session
  <2> QED BY <2>3, <2>4 DEF Unsettled
<1>4. ASSUME NEW workflow \in {"SUSPENDED", "STOPPED"}, NEW state \in {"paused", "stopped"},
             session' = Halted(session, workflow, state)
      PROVE  FALSE
  <2> DEFINE p == Cleared(session)
             result == IF p.result = "pending" THEN "failed" ELSE p.result
             q == [p EXCEPT !.workflow = workflow, !.state = state,
                            !.generation = p.generation + 1, !.result = result]
  <2>1. session' = q
    BY <1>4 DEF Halted
  <2>2. p \in Session
    BY <1>0, ClearedType
  <2> HIDE DEF p, result
  <2>3. q.result = result
    BY <2>2 DEF Session
  <2>4. result # "pending"
    BY DEF result
  <2> QED BY <2>1, <2>3, <2>4 DEF Unsettled
<1>5. ~Pause /\ ~Stop
  BY <1>4 DEF Pause, Stop
<1>6. ~Resume
  <2> SUFFICES ASSUME Resume PROVE FALSE
    OBVIOUS
  <2>1. session'.result = "none"
    <3> DEFINE p == Cleared(session)
    <3>1. p \in Session
      BY <1>0, ClearedType
    <3>2. session' = [p EXCEPT !.workflow = "LIVE", !.state = "starting",
                               !.operation = 0, !.result = "none"]
      BY DEF Resume
    <3> HIDE DEF p
    <3> QED BY <3>1, <3>2 DEF Session
  <2> QED BY <2>1 DEF Unsettled
<1> QED BY <1>1, <1>2, <1>3, <1>5, <1>6

\* Only a switch makes a result pending; while it stays so the session runs, for
\* the same operation.
LEMMA PendingSession ==
  ASSUME TypeOK, Unsettled => Running, [Next]_vars, Unsettled'
  PROVE  Running' /\ (Switch \/ (Unsettled /\ session'.operation = session.operation))
<1>0. session \in Session
  BY DEF TypeOK
<1> DEFINE Same == Unsettled /\ session'.operation = session.operation
<1>1. UNCHANGED session => Running' /\ Same
  BY DEF Unsettled, Running
<1>4. CASE Pause \/ Stop \/ Resume
  BY <1>4, SettledBy
<1>5. CASE Switch
  <2> DEFINE p == Cleared(session)
  <2>1. p \in Session /\ p.workflow = session.workflow
    BY <1>0, ClearedType
  <2>2. /\ session.workflow # "STOPPED"
        /\ session' = [p EXCEPT !.state = "switching", !.generation = p.generation + 1,
                                !.operation = Key, !.result = "pending"]
    BY <1>5 DEF Switch
  <2> HIDE DEF p
  <2>3. session'.workflow = p.workflow /\ session'.state = "switching"
    BY <2>1, <2>2 DEF Session
  <2> QED BY <1>5, <2>1, <2>2, <2>3 DEF Running, Halts
<1>6. CASE Retry \/ Delete \/ Reconcile \/ DeleteSucceeds
  BY <1>1, <1>6 DEF Retry, Delete, Reconcile, DeleteSucceeds
<1>7. CASE DeleteFails
  <2>1. session' = Suspended(session)
    BY <1>7 DEF DeleteFails
  <2>2. session.workflow # "STOPPED"
    BY <2>1 DEF Suspended, Unsettled, Running
  <2> QED BY <1>0, <2>1, <2>2, SuspendedType DEF Running, Unsettled, Halts
<1>8. CASE \/ Take \/ Leave \/ Dies \/ Load \/ Swap \/ NothingOpens \/ Register \/ Start
           \/ Started \/ Wait \/ Close
  BY <1>1, <1>8 DEF Take, Leave, Dies, Load, Swap, NothingOpens, Register, Start, Started,
                    Wait, Close
<1>9. ASSUME NEW rollback, Binds(rollback), session.workflow # "STOPPED"
      PROVE  Running' /\ Same
  <2> DEFINE p == Cleared(session)
  <2>1. p \in Session /\ p.result = session.result /\ p.operation = session.operation
    BY <1>0, ClearedType
  <2>2. session' = [p EXCEPT !.workflow = "LIVE", !.state = "starting",
                       !.generation = p.generation + 1, !.clock = session.generation + 1,
                       !.bound = TRUE]
    BY <1>9 DEF Binds
  <2> HIDE DEF p
  <2>3. /\ session'.workflow = "LIVE" /\ session'.state = "starting"
        /\ session'.result = p.result /\ session'.operation = p.operation
    BY <2>1, <2>2 DEF Session
  <2> QED BY <2>1, <2>3 DEF Running, Unsettled, Halts
<1>10. CASE OpenCandidate
  <2>1. session.workflow # "STOPPED" /\ (Binds(FALSE) \/ UNCHANGED session)
    BY <1>10 DEF OpenCandidate, Current
  <2> QED BY <1>1, <1>9, <2>1
<1>11. CASE OpenPrevious
  <2>1. session.workflow # "STOPPED" /\ (Binds(TRUE) \/ UNCHANGED session)
    BY <1>11 DEF OpenPrevious, Current
  <2> QED BY <1>1, <1>9, <2>1
<1>14. ASSUME NEW g \in Generations, WorkerStep(g) PROVE Running' /\ Same
  <2>1. CASE Pcm(g) \/ SourceEnds(g) \/ Ask(g) \/ Begin(g) \/ Abandon(g) \/ Infer(g)
    BY <1>1, <2>1 DEF Pcm, SourceEnds, Ask, Begin, Abandon, Infer
  <2>2. CASE Publish(g) /\ session' # session
    <3>1. PICK fresh \in BOOLEAN :
            session' = [session EXCEPT !.state = IF fresh THEN "active" ELSE "listening",
                                       !.fresh = fresh, !.shown = IF fresh THEN g ELSE 0]
      BY <2>2 DEF Publish
    <3>2. Fresh(g)
      BY <2>2 DEF Publish
    <3> DEFINE state == IF fresh THEN "active" ELSE "listening"
    <3>3. /\ session'.state = state /\ session'.workflow = session.workflow
          /\ session'.result = session.result /\ session'.operation = session.operation
      BY <1>0, <3>1 DEF Session
    <3>4. state \notin Halts
      BY DEF Halts
    <3>5. session.workflow # "STOPPED"
      BY <3>2 DEF Fresh, CurrentAt, Current
    <3> QED BY <3>3, <3>4, <3>5 DEF Running, Unsettled
  <2>3. CASE Ended(g) /\ session' # session
    <3>1. session' = Suspended(session) /\ session.workflow # "STOPPED"
      BY <2>3 DEF Ended, Fresh, CurrentAt, Current
    <3> QED BY <1>0, <3>1, SuspendedType DEF Running, Unsettled, Halts
  <2> QED BY <1>1, <1>14, <2>1, <2>2, <2>3 DEF WorkerStep
<1>15. CASE WatchPcm
  <2>1. session' = [session EXCEPT !.state = "listening"]
    BY <1>15 DEF WatchPcm
  <2>2. /\ session'.state = "listening" /\ session'.workflow = session.workflow
        /\ session'.result = session.result /\ session'.operation = session.operation
    BY <1>0, <2>1 DEF Session
  <2> QED BY <2>2 DEF Running, Unsettled, Halts
<1>16. CASE WatchWithdraws
  <2> DEFINE p == Cleared(session)
  <2>1. /\ p \in Session /\ p.result = session.result /\ p.operation = session.operation
        /\ p.workflow = session.workflow
    BY <1>0, ClearedType
  <2>2. session' = [p EXCEPT !.state = "listening"]
    BY <1>16 DEF WatchWithdraws
  <2> HIDE DEF p
  <2>3. /\ session'.state = "listening" /\ session'.workflow = p.workflow
        /\ session'.result = p.result /\ session'.operation = p.operation
    BY <2>1, <2>2 DEF Session
  <2> QED BY <2>1, <2>3 DEF Running, Unsettled, Halts
<1>17. CASE Reap \/ UNCHANGED vars
  BY <1>1, <1>17 DEF Reap, vars
<1>12. CASE Bind \/ Fail \/ Restart
  BY <1>1, <1>12, SettledBy DEF Bind, Fail
<1> QED
  BY <1>4, <1>5, <1>6, <1>7, <1>8, <1>10, <1>11, <1>12, <1>14, <1>15, <1>16, <1>17
  DEF Next, Command, Completion, RunnerStep

\* Keys are taken from the count of commands, and a token has a number.
LEMMA KeyedStep ==
  ASSUME TypeOK, Keyed, [Next]_vars
  PROVE  Keyed'
<1>0. Requested /\ history.issued \in Nat /\ token.id \in Nat
  BY DEF TypeOK, Requested
<1>1. ASSUME UNCHANGED <<scheduled, command, history>>, token'.id = token.id PROVE Keyed'
  BY <1>1 DEF Keyed
<1>2. ASSUME NEW action \in Actions, Handled(action) PROVE Keyed'
  <2> DEFINE c == [action |-> action, key |-> Key]
  <2>1. Key = history.issued + 1 /\ c.key = Key
    BY DEF Key
  <2>2. /\ command' = c /\ history'.issued = Key
        /\ history'.applied = history.applied \cup {c}
        /\ UNCHANGED <<scheduled, token>>
    BY <1>0, <1>2 DEF Handled, Requested
  <2>3. \A d \in history.applied : d.key \in Nat
    BY <1>0 DEF Requested, CommandRecord
  <2>4. \A d \in history.applied : d.key <= Key
    BY <1>0, <2>1, <2>3 DEF Keyed
  <2>5. scheduled \in Nat
    BY <1>0 DEF Requested
  <2> HIDE DEF c
  <2> QED BY <1>0, <2>1, <2>2, <2>4, <2>5 DEF Keyed
<1>3. CASE Pause \/ Stop \/ Resume \/ Switch
  BY <1>2, <1>3 DEF Pause, Stop, Resume, Switch, Actions
<1>4. CASE Retry
  BY <1>4 DEF Retry, Keyed
<1>5. CASE Delete
  <2>1. command'.key = 0 /\ token'.id = token.id /\ UNCHANGED <<scheduled, history>>
    BY <1>0, <1>5 DEF Delete, Requested
  <2> QED BY <1>0, <2>1 DEF Keyed
<1>6. CASE DeleteSucceeds \/ DeleteFails
  <2>1. command' = NoCommand /\ UNCHANGED <<scheduled, token>>
    BY <1>6, Zenon DEF DeleteSucceeds, DeleteFails
  <2>2. history'.issued = history.issued /\ history'.applied = history.applied
    BY <1>0, <1>6 DEF DeleteSucceeds, DeleteFails, Requested
  <2> QED BY <1>0, <2>1, <2>2 DEF Keyed, NoCommand
<1>7. CASE Reconcile
  <2>1. command'.key = 0 /\ UNCHANGED history
    BY <1>7 DEF Reconcile, NoCommand
  <2>2. scheduled' \in {scheduled, command.key}
    BY <1>7 DEF Reconcile, ReconcileSwitch, ReconcileOther
  <2>3. ReconcileSwitch \/ ReconcileOther
    BY <1>7 DEF Reconcile
  <2>4. token'.id \in {token.id, token.id + 1}
    BY <1>0, <2>3, ReconcileStep, CancelStep, ScheduledStep
  <2> QED BY <1>0, <2>1, <2>2, <2>4 DEF Keyed
<1>8. CASE Restart
  <2>1. /\ scheduled' = 0 /\ command'.key = 0 /\ token'.id = token.id
        /\ history'.issued = history.issued /\ history'.applied = history.applied
    BY <1>0, <1>8 DEF Restart, NoCommand, Requested
  <2> QED BY <1>0, <2>1 DEF Keyed
<1>9. CASE RunnerStep
  BY <1>1, <1>9
  DEF RunnerStep, Take, Leave, Dies, Load, Swap, OpenCandidate, OpenPrevious, NothingOpens,
      Register, Start, Started, Wait, Bind, Close, Fail, control, request
<1>10. CASE \E g \in Generations : WorkerStep(g)
  BY <1>1, <1>10
  DEF WorkerStep, Pcm, SourceEnds, Ask, Begin, Abandon, Infer, Publish, Ended, control, request
<1>11. CASE WatchPcm \/ WatchWithdraws \/ Reap \/ UNCHANGED vars
  BY <1>1, <1>11 DEF WatchPcm, WatchWithdraws, Reap, control, request, vars
<1> QED
  BY <1>3, <1>4, <1>5, <1>6, <1>7, <1>8, <1>9, <1>10, <1>11 DEF Next, Command, Completion

\* A runner that is to settle the switch goes on until it does.
LEMMA RunnerPursues ==
  ASSUME TypeOK, token.id # 0, Pursued, ~deleting, session.workflow # "STOPPED", RunnerStep,
         Bind => ~CurrentAt(Op.token, runner.generation), Fail => ~Current(Op.token)
  PROVE  Pursued'
<1>0. /\ runner \in RunnerState /\ runner.op.token \in Nat /\ session \in Session
      /\ token \in [id : Nat, set : BOOLEAN] /\ NoOperation.token = 0
  BY RunnerFields DEF TypeOK, NoOperation
<1>1. UNCHANGED token /\ ~token.set
  BY DEF Pursued, RunnerStep, Take, Leave, Dies, Load, Swap, OpenCandidate, OpenPrevious,
         NothingOpens, Register, Start, Started, Wait, Bind, Close, Fail, control
<1>2. \A t : t = token.id => Current(t)
  BY <1>1 DEF Current, Cancelled
<1>3. ASSUME NEW pc \in Opening, Steps(pc), UNCHANGED pending, runner.pc \in Opening
      PROVE  Pursued'
  BY <1>0, <1>1, <1>3, SteppedOn DEF Pursued, Lined, Carried, Active, Opening
<1>4. ASSUME Finished, UNCHANGED pending, ~Carried PROVE Pursued'
  <2>1. runner'.pc = "take"
    BY <1>4, AtType DEF Finished
  <2> QED BY <1>1, <1>4, <2>1 DEF Pursued, Lined, Active
<1>5. Carried => Current(Op.token) /\ ~runner.kept
  BY <1>2 DEF Carried, Op
<1>6. CASE Take
  <2>1. ~Carried
    BY <1>6 DEF Take, Carried, Opening
  <2>2. pending.token = token.id
    BY <2>1 DEF Pursued, Lined
  <2>3. ~Cancelled(pending.token) /\ Current(pending.token)
    BY <1>2, <2>2 DEF Current
  <2>4. \/ runner' = Runner("load", pending, 0, FALSE, 0, FALSE)
        \/ \E n \in 0..Candidates : runner' = Runner("open", pending, n, FALSE, 0, FALSE)
    BY <1>6, <2>3 DEF Take
  <2>5. runner'.op = pending /\ runner'.pc \in {"load", "open"} /\ runner'.kept = FALSE
    BY <2>4 DEF Runner
  <2> QED BY <1>1, <2>2, <2>5 DEF Pursued, Carried, Opening
<1>7. CASE Leave \/ Dies
  <2>1. ~Carried
    BY <1>7 DEF Leave, Dies, Carried, Opening
  <2>2. pending.token = token.id /\ Active
    BY <2>1 DEF Pursued, Lined
  <2> QED BY <1>0, <1>7, <2>2 DEF Leave, Dies, Active
<1>8. CASE Load
  BY <1>3, <1>4, <1>5, <1>8 DEF Load, Opening, control
<1>9. CASE Swap
  <2>1. ASSUME Resolve, UNCHANGED pending PROVE Pursued'
    <3>1. PICK n \in 0..Candidates : runner' = [runner EXCEPT !.pc = "open", !.left = n]
      BY <2>1 DEF Resolve
    <3>2. runner'.pc = "open" /\ runner'.op = runner.op /\ runner'.kept = runner.kept
      BY <1>0, <3>1 DEF RunnerState
    <3> QED BY <1>1, <2>1, <3>2 DEF Pursued, Lined, Carried, Active, Opening
  <2> QED BY <1>4, <1>5, <1>9, <2>1 DEF Swap, control
<1>10. ASSUME NEW rollback \in BOOLEAN, Binds(rollback), UNCHANGED pending, runner.pc = "open"
       PROVE  Pursued'
  <2> DEFINE op == [runner.op EXCEPT !.previous = runner.op.previous /\ ~rollback]
             left == IF rollback THEN 0 ELSE runner.left - 1
  <2>1. runner' = Runner("register", op, left, rollback, session.generation + 1, runner.kept)
    BY <1>10 DEF Binds, Op
  <2>2. op.token = runner.op.token
    BY <1>0, RunnerFields DEF Operation
  <2> HIDE DEF op, left
  <2>3. runner'.pc = "register" /\ runner'.op.token = runner.op.token /\ runner'.kept = runner.kept
    BY <2>1, <2>2 DEF Runner
  <2> QED BY <1>1, <1>10, <2>3 DEF Pursued, Lined, Carried, Active, Opening
<1>11. CASE OpenCandidate
  <2>1. ASSUME runner' = [runner EXCEPT !.left = runner.left - 1], UNCHANGED pending,
               runner.pc = "open"
        PROVE  Pursued'
    <3>1. runner'.pc = "open" /\ runner'.op = runner.op /\ runner'.kept = runner.kept
      BY <1>0, <2>1 DEF RunnerState
    <3> QED BY <1>1, <2>1, <3>1 DEF Pursued, Lined, Carried, Active, Opening
  <2> QED BY <1>10, <1>11, <2>1 DEF OpenCandidate, control
<1>12. CASE OpenPrevious
  BY <1>3, <1>10, <1>12 DEF OpenPrevious, Opening, control
<1>13. CASE NothingOpens
  BY <1>3, <1>4, <1>5, <1>13 DEF NothingOpens, Opening, control
<1>14. CASE Register
  <2>1. Steps("start") \/ Steps("close")
    BY <1>14 DEF Register, Steps
  <2>2. UNCHANGED pending /\ runner.pc = "register"
    BY <1>14 DEF Register, control
  <2> QED BY <1>3, <2>1, <2>2 DEF Opening
<1>15. CASE Start \/ Started \/ Wait
  <2>1. /\ Steps("opened") \/ Steps("close") \/ Steps("wait") \/ Steps("bind")
        /\ UNCHANGED pending /\ runner.pc \in {"start", "opened", "wait"}
    BY <1>15 DEF Start, Started, Wait, control
  <2> QED BY <1>3, <2>1 DEF Opening
<1>16. CASE Bind
  BY <1>3, <1>16 DEF Bind, Opening, control
<1>17. CASE Close
  <2>1. ASSUME Steps("fail") \/ Steps("open"), UNCHANGED pending, runner.pc = "close"
        PROVE  Pursued'
    BY <1>3, <2>1 DEF Opening
  <2>2. /\ UNCHANGED pending /\ runner.pc = "close"
        /\ \/ (runner.kept \/ ~Current(Op.token)) /\ Finished
           \/ Steps("fail") \/ Steps("open")
    BY <1>17 DEF Close, Steps, control
  <2> QED BY <1>4, <1>5, <2>1, <2>2
<1>18. CASE Fail
  <2>1. Finished /\ UNCHANGED pending
    BY <1>18 DEF Fail, control
  <2> QED BY <1>4, <1>5, <1>18, <2>1
<1> QED
  BY <1>6, <1>7, <1>8, <1>9, <1>11, <1>12, <1>13, <1>14, <1>15, <1>16, <1>17, <1>18
  DEF RunnerStep

\* Whoever deletes cancels first, and only a reconciliation takes a new token.
LEMMA CutStep ==
  ASSUME TypeOK, Closing, Cut, [Next]_vars
  PROVE  Cut'
<1>0. Requested
  BY DEF TypeOK, Requested
<1>1. CASE Pause \/ Stop \/ Resume \/ Switch \/ Retry
  BY <1>1 DEF Pause, Stop, Resume, Switch, Retry, Handled, Closing, Cut
<1>2. CASE Delete
  BY <1>0, <1>2 DEF Delete, Requested, Cut
<1>3. CASE Completion \/ Restart
  <2>1. command' = NoCommand
    BY <1>3, Zenon DEF Completion, Reconcile, DeleteSucceeds, DeleteFails, Restart
  <2> QED BY <2>1 DEF NoCommand, Cut
<1>4. CASE RunnerStep
  BY <1>4
  DEF RunnerStep, Take, Leave, Dies, Load, Swap, OpenCandidate, OpenPrevious, NothingOpens,
      Register, Start, Started, Wait, Bind, Close, Fail, control, request, Cut
<1>5. CASE \E g \in Generations : WorkerStep(g)
  BY <1>5
  DEF WorkerStep, Pcm, SourceEnds, Ask, Begin, Abandon, Infer, Publish, Ended, control, request,
      Cut
<1>6. CASE WatchPcm \/ WatchWithdraws \/ Reap \/ UNCHANGED vars
  BY <1>6 DEF WatchPcm, WatchWithdraws, Reap, control, request, vars, Cut
<1> QED BY <1>1, <1>2, <1>3, <1>4, <1>5, <1>6 DEF Next, Command

\* Scheduling takes a new token and gives it to an active runner.
LEMMA SchedulePursues ==
  ASSUME NEW previous, NEW paused, Schedule(previous, paused)
  PROVE  Pursued'
<1>1. /\ token'.set = FALSE /\ pending'.token = token'.id
      /\ runner' = (IF Active THEN runner ELSE At("take"))
  BY DEF Schedule
<1>2. runner'.pc \notin {"dead", "leaving"}
  BY <1>1, AtType DEF Active
<1> QED BY <1>1, <1>2 DEF Pursued, Lined, Active

\* What the store's refusal leaves behind stays as it is, whoever comes late.
LEMMA DroppedStays ==
  ASSUME TypeOK, Unsettled, Running, Dropped, [Next]_vars, Unsettled'
  PROVE  deleting' \/ Pursued' \/ Dropped'
<1>0. \A t, g : ~Current(t) /\ ~CurrentAt(t, g)
  BY DEF Dropped, Current, CurrentAt, Cancelled
<1>1. ASSUME UNCHANGED <<token, session, history>> PROVE Dropped'
  BY <1>1 DEF Dropped
<1>2. CASE Pause \/ Stop \/ Resume \/ Restart
  BY <1>2, SettledBy
<1>3. CASE Switch
  BY <1>3 DEF Switch, Unsettled
<1>4. CASE Retry \/ DeleteSucceeds \/ Reap \/ UNCHANGED vars
  BY <1>1, <1>4 DEF Retry, DeleteSucceeds, Reap, vars
<1>5. CASE Delete
  BY <1>5 DEF Delete
<1>6. CASE DeleteFails
  <2>1. session' = Suspended(session) /\ UNCHANGED token /\ session.workflow # "STOPPED"
    BY <1>6 DEF DeleteFails, Running
  <2>2. session'.state = "unavailable" /\ session'.operation = session.operation
    BY <2>1, SuspendedType DEF TypeOK
  <2>3. history'.dropped = session.operation
    BY <1>6 DEF DeleteFails, Unsettled, TypeOK
  <2> QED BY <2>1, <2>2, <2>3 DEF Dropped
<1>7. CASE Reconcile
  <2>1. /\ ReconcileSwitch \/ ReconcileOther
        /\ UNCHANGED <<session, history>>
    BY <1>7 DEF Reconcile
  <2>2. (\E previous, paused : Schedule(previous, paused)) \/ UNCHANGED token
    BY <2>1 DEF ReconcileSwitch, ReconcileOther, Dropped
  <2> QED BY <1>1, <2>1, <2>2, SchedulePursues
<1>8. CASE RunnerStep
  BY <1>0, <1>1, <1>8
  DEF RunnerStep, Take, Leave, Dies, Load, Swap, OpenCandidate, OpenPrevious, NothingOpens,
      Register, Start, Started, Wait, Bind, Close, Fail, control, request
<1>9. CASE \E g \in Generations : WorkerStep(g)
  BY <1>0, <1>1, <1>9
  DEF WorkerStep, Pcm, SourceEnds, Ask, Begin, Abandon, Infer, Publish, Ended, Fresh, control,
      request
<1>10. CASE WatchPcm \/ WatchWithdraws
  BY <1>10 DEF WatchPcm, WatchWithdraws, Watched, Dropped
<1> QED
  BY <1>2, <1>3, <1>4, <1>5, <1>6, <1>7, <1>8, <1>9, <1>10 DEF Next, Command, Completion

\* A pending switch is asked for, awaits its turn or is under way.
LEMMA SettlingStep ==
  ASSUME TypeOK, Keyed, Cut, Settling, [Next]_vars
  PROVE  Settling'
<1> SUFFICES ASSUME Unsettled', ~deleting', ~(Unsettled /\ Dropped)
             PROVE  Awaited' \/ Pursued' \/ Dropped'
  <2>1. Unsettled => Running
    BY DEF Settling
  <2> QED BY <2>1, PendingSession, DroppedStays DEF Settling
<1>0. /\ Requested /\ token \in [id : Nat, set : BOOLEAN] /\ history.issued \in Nat
      /\ scheduled \in Nat /\ session \in Session
      /\ switching \in [previous : BOOLEAN, paused : BOOLEAN]
  BY DEF TypeOK, Requested
<1>1. /\ Running'
      /\ Switch \/ (Unsettled /\ session'.operation = session.operation)
      /\ ~Pause /\ ~Stop /\ ~Resume /\ ~Restart
      /\ Bind => ~CurrentAt(Op.token, runner.generation)
      /\ Fail => ~Current(Op.token)
  BY PendingSession, SettledBy DEF Settling
<1>2. CASE Switch
  <2> DEFINE p == Cleared(session)
  <2>1. p \in Session
    BY <1>0, ClearedType
  <2>2. /\ session' = [p EXCEPT !.state = "switching", !.generation = p.generation + 1,
                                !.operation = Key, !.result = "pending"]
        /\ command' = [action |-> "switch", key |-> Key] /\ UNCHANGED scheduled
    BY <1>2 DEF Switch, Handled
  <2> HIDE DEF p
  <2>3. session'.operation = Key /\ command'.action = "switch" /\ command'.key = Key
    BY <2>1, <2>2 DEF Session
  <2>4. scheduled # Key
    BY <1>0 DEF Key, Keyed
  <2> QED BY <2>2, <2>3, <2>4 DEF Awaited
<1>3. CASE ~Switch
  <2>0. /\ Unsettled /\ session'.operation = session.operation
        /\ session.workflow # "STOPPED" /\ session.state \notin Halts
    BY <1>1, <1>3 DEF Settling, Running
  <2>1. ASSUME UNCHANGED <<command, scheduled, token, pending, runner>>, ~deleting
        PROVE  Awaited' \/ Pursued'
    BY <2>0, <2>1 DEF Settling, Awaited, Pursued, Lined, Carried, Active
  <2>2. ASSUME NEW previous \in BOOLEAN, NEW paused \in BOOLEAN, Schedule(previous, paused)
        PROVE  Pursued'
    BY <2>2, SchedulePursues
  <2>4. CASE Retry
    <3>1. command = NoCommand /\ ~deleting
      BY <2>4 DEF Retry, Serving
    <3>2. Pursued
      BY <2>0, <3>1 DEF Settling, Awaited, NoCommand
    <3>3. UNCHANGED <<token, pending, runner>>
      BY <2>4 DEF Retry
    <3> QED BY <3>2, <3>3 DEF Pursued, Lined, Carried, Active
  <2>5. CASE Delete
    BY <2>5 DEF Delete
  <2>3. CASE DeleteFails
    <3>1. session' = Suspended(session) /\ UNCHANGED token /\ token.set
      BY <2>3 DEF DeleteFails, Cut
    <3>2. session'.state = "unavailable"
      BY <1>0, <2>0, <3>1, SuspendedType
    <3>3. history'.dropped = session.operation
      BY <2>0, <2>3 DEF DeleteFails, Unsettled, TypeOK
    <3> QED BY <2>0, <3>1, <3>2, <3>3 DEF Dropped
  <2>6. CASE DeleteSucceeds
    <3>1. command.action = "delete" /\ UNCHANGED <<deleting, token, pending, runner>>
      BY <2>6 DEF DeleteSucceeds
    <3>2. Pursued
      BY <2>0, <3>1 DEF Settling, Awaited
    <3> QED BY <3>1, <3>2 DEF Pursued, Lined, Carried, Active
  <2>7. CASE Reconcile
    <3>1. /\ ReconcileSwitch \/ ReconcileOther
          /\ UNCHANGED deleting
      BY <2>7 DEF Reconcile
    <3>2. CASE \E previous, paused \in BOOLEAN : Schedule(previous, paused)
      BY <2>2, <3>2
    <3>3. CASE ~\E previous, paused \in BOOLEAN : Schedule(previous, paused)
      <4>1. UNCHANGED <<token, pending, runner>>
        <5>1. CASE ReconcileSwitch
          BY <1>0, <3>3, <5>1 DEF ReconcileSwitch
        <5>2. CASE ReconcileOther
          BY <2>0, <3>3, <5>2 DEF ReconcileOther, Halts
        <5> QED BY <3>1, <5>1, <5>2
      <4>2. ~Awaited
        <5>1. SUFFICES ASSUME Awaited PROVE FALSE
          OBVIOUS
        <5>2. Schedule(switching.previous, switching.paused)
          BY <2>0, <3>1, <5>1 DEF Awaited, ReconcileSwitch, ReconcileOther, Unsettled
        <5>3. switching.previous \in BOOLEAN /\ switching.paused \in BOOLEAN
          BY <1>0
        <5> QED BY <3>3, <5>2, <5>3
      <4> QED BY <2>0, <3>1, <4>1, <4>2 DEF Settling, Pursued, Lined, Carried, Active
    <3> QED BY <3>2, <3>3
  <2>8. CASE RunnerStep
    <3>1. UNCHANGED <<command, scheduled, deleting>>
      BY <2>8
      DEF RunnerStep, Take, Leave, Dies, Load, Swap, OpenCandidate, OpenPrevious, NothingOpens,
          Register, Start, Started, Wait, Bind, Close, Fail, control, request
    <3>2. CASE Awaited
      BY <2>0, <3>1, <3>2 DEF Awaited
    <3>3. CASE Pursued
      BY <1>1, <2>0, <2>8, <3>1, <3>3, RunnerPursues DEF Keyed
    <3> QED BY <2>0, <3>1, <3>2, <3>3 DEF Settling
  <2>9. CASE \E g \in Generations : WorkerStep(g)
    <3>1. UNCHANGED <<deleting, command, scheduled, token, pending, runner>>
      BY <2>9
      DEF WorkerStep, Pcm, SourceEnds, Ask, Begin, Abandon, Infer, Publish, Ended, control, request
    <3> QED BY <2>1, <3>1
  <2>10. CASE WatchPcm \/ WatchWithdraws \/ Reap \/ UNCHANGED vars
    BY <2>1, <2>10 DEF WatchPcm, WatchWithdraws, Reap, control, request, vars
  <2> QED
    BY <1>1, <1>3, <2>3, <2>4, <2>5, <2>6, <2>7, <2>8, <2>9, <2>10
    DEF Next, Command, Completion
<1> QED BY <1>2, <1>3

\* A pending switch always has somebody who will settle it, and no step of the
\* lifecycle leaves one behind, but for a deletion the store refuses: what that has
\* dropped is left pending in a session that is suspended until a command comes.
THEOREM PendingServed == Spec => []PendingIsServed
<1>1. Init => Keyed /\ Cut /\ Settling
  BY DEF Init, Keyed, Cut, Settling, Unsettled, NoCommand
<1>2. ModelInv /\ Keyed /\ Cut /\ Settling /\ [Next]_vars => (Keyed /\ Cut /\ Settling)'
  BY KeyedStep, CutStep, SettlingStep DEF ModelInv, IInv
<1>3. Settling => PendingIsServed
  BY DEF Settling, PendingIsServed, Unsettled, Awaited, Pursued, Lined, Carried, Active, Opening,
         Dropped, Quiet, NoCommand
<1>4. ModelInv /\ [Next]_vars => ModelInv'
  BY ModelInvStep
<1> QED BY <1>1, <1>2, <1>3, <1>4, ModelInvInit, PTL DEF Spec

=============================================================================
