--------------------------- MODULE CommandLedger ---------------------------
(***************************************************************************)
(* One session's command handler over its durable store                    *)
(* (apps/api/commands.py, probes.py, persistence.py and the writers of     *)
(* service.py and roles/pa/session.py): the ledger of idempotent commands, *)
(* the write-through of every other change, deletion behind a tombstone,   *)
(* and a process that may crash between any two steps.                     *)
(*                                                                         *)
(* A session's state is abstracted to its two counters and to how often    *)
(* the command under each key has taken effect.  `busy' is the thread that *)
(* holds the session lock: a command holds it (with the store's) from the  *)
(* ledger lookup to its answer, any other writer from its first change to  *)
(* its commit or rollback.  Deletion takes only the lifecycle lock, which  *)
(* commands hold too, and so runs beside the writers.                      *)
(***************************************************************************)
EXTENDS Naturals

CONSTANTS
  Keys,            \* idempotency keys of the session
  Requests,        \* commands: [key, expected (state version), body]
  LiveReference,   \* whether a session has a LiveAudioController: a set of answers
  MaxSequence,     \* bound on the events of a run
  Undecided, NoRequest

ASSUME LedgerAssumption ==
  /\ \A r \in Requests : r.key \in Keys /\ r.expected \in Nat
  /\ LiveReference \subseteq BOOLEAN
  /\ MaxSequence \in Nat
  /\ Undecided \notin [request : Requests, outcome : {"applied", "rejected"}, version : Nat]
  /\ NoRequest \notin Requests

VARIABLES
  live,      \* this session has one
  running,   \* the process is up
  memory,    \* the PASession object's state
  disk,      \* its row in sessions
  ledger,    \* its rows in commands, by key
  tombstone, \* its row in deleted_sessions
  deletion,  \* "none"; "requested": the fence is up; "refused": the store failed
  busy,      \* the holder of the session lock, with what it must put back
  answers,   \* the answers handlers have returned
  seen       \* the highest event_sequence a client has been shown

vars == <<live, running, memory, disk, ledger, tombstone, deletion, busy, answers, seen>>

New == [version |-> 0, sequence |-> 0, effects |-> [k \in Keys |-> 0]]
NoDecisions == [k \in Keys |-> Undecided]

Held(kind, r, outcome, version, before) ==
  [kind |-> kind, request |-> r, outcome |-> outcome, version |-> version, before |-> before]

Nobody == Held("free", NoRequest, "rejected", 0, New)

\* Mutated: a transition that keeps the version.
PublishedUnversioned(s, bump) == [s EXCEPT !.sequence = @ + 1]

\* _append_event, and _transition when the version moves as well.
Published(s, bump) ==
  [version |-> IF bump THEN s.version + 1 ELSE s.version,
   sequence |-> s.sequence + 1, effects |-> s.effects]

Init ==
  /\ live \in LiveReference
  /\ running = TRUE
  /\ memory = New
  /\ disk = New
  /\ ledger = NoDecisions
  /\ tombstone = FALSE
  /\ deletion = "none"
  /\ busy = Nobody
  /\ answers = {}
  /\ seen = 0

Serving == running /\ ~tombstone
Shown(n) == seen' = IF n > seen THEN n ELSE seen
HasRoom == memory.sequence < MaxSequence

-----------------------------------------------------------------------------
(***************************************************************************)
(* CommandHandler.handle.                                                  *)
(***************************************************************************)
Arrives(r) == Serving /\ deletion = "none" /\ busy = Nobody

\* The ledger is consulted before the command's binding: a retry is given the
\* recorded answer, another command under the key a conflict and a snapshot.
Replay(r) ==
  /\ Arrives(r)
  /\ ledger[r.key] # Undecided
  /\ ledger[r.key].request = r
  /\ answers' = answers \cup
       {[request |-> r, outcome |-> ledger[r.key].outcome, version |-> ledger[r.key].version]}
  /\ UNCHANGED <<live, running, memory, disk, ledger, tombstone, deletion, busy, seen>>

Conflict(r) ==
  /\ Arrives(r)
  /\ ledger[r.key] # Undecided
  /\ ledger[r.key].request # r
  /\ answers' = answers \cup
       {[request |-> r, outcome |-> "conflict", version |-> memory.version]}
  /\ Shown(memory.sequence)
  /\ UNCHANGED <<live, running, memory, disk, ledger, tombstone, deletion, busy>>

\* The command is bound to the state the client saw, passes, and changes it.
Apply(r) ==
  /\ Arrives(r)
  /\ ledger[r.key] = Undecided
  /\ r.expected = memory.version
  /\ HasRoom
  /\ memory' = [Published(memory, TRUE) EXCEPT !.effects[r.key] = @ + 1]
  /\ busy' = Held("command", r, "applied", memory.version + 1, memory)
  /\ UNCHANGED <<live, running, disk, ledger, tombstone, deletion, answers, seen>>

\* Mutated: a refusal filed as a conflict.
RefuseAsConflict(r) ==
  /\ Arrives(r)
  /\ ledger[r.key] = Undecided
  /\ busy' = Held("command", r, "conflict", memory.version, memory)
  /\ UNCHANGED <<live, running, memory, disk, ledger, tombstone, deletion, answers, seen>>

\* A stale binding, an unauthorised action or an invalid payload: whatever the
\* session had changed by then is put back.
Refuse(r) ==
  /\ Arrives(r)
  /\ ledger[r.key] = Undecided
  /\ busy' = Held("command", r, "rejected", memory.version, memory)
  /\ UNCHANGED <<live, running, memory, disk, ledger, tombstone, deletion, answers, seen>>

Handling == running /\ busy.kind = "command"

Decision(b) == [request |-> b.request, outcome |-> b.outcome, version |-> b.version]

\* Mutated: only applied commands are remembered.
EnteredIfApplied(b) ==
  IF b.outcome = "applied" THEN [ledger EXCEPT ![b.request.key] = Decision(b)] ELSE ledger

Entered(b) == [ledger EXCEPT ![b.request.key] = Decision(b)]

\* One transaction stores the decision and the session.
Commit ==
  /\ Handling
  /\ ~tombstone
  /\ ledger' = Entered(busy)
  /\ disk' = memory
  /\ busy' = [busy EXCEPT !.kind = "answer"]
  /\ UNCHANGED <<live, running, memory, tombstone, deletion, answers, seen>>

\* Mutated: no rollback.
KeepChange(b) == UNCHANGED memory

Rollback(b) == memory' = b.before

\* The transaction fails: the session is put back and the client gets no answer.
CommitFails ==
  /\ Handling
  /\ Rollback(busy)
  /\ busy' = Nobody
  /\ UNCHANGED <<live, running, disk, ledger, tombstone, deletion, answers, seen>>

Return ==
  /\ running /\ busy.kind = "answer"
  /\ answers' = answers \cup
       {[request |-> busy.request, outcome |-> busy.outcome, version |-> busy.version]}
  /\ Shown(memory.sequence)
  /\ busy' = Nobody
  /\ UNCHANGED <<live, running, memory, disk, ledger, tombstone, deletion>>

-----------------------------------------------------------------------------
(***************************************************************************)
(* The writers that are not commands: @_persisted methods of the session   *)
(* (windows, suspensions), and the live controller, which changes the      *)
(* session and persists it without a rollback.                             *)
(***************************************************************************)
Write(kind) ==
  /\ running
  /\ deletion # "requested"
  /\ busy = Nobody
  /\ ~tombstone
  /\ HasRoom
  /\ \E bump \in BOOLEAN : memory' = Published(memory, bump)
  /\ busy' = Held(kind, NoRequest, "applied", 0, memory)
  /\ UNCHANGED <<live, running, disk, ledger, tombstone, deletion, answers, seen>>

WriterBegins == Write("writer")
ControllerBegins == live /\ Write("controller")

Writing(kind) == running /\ busy.kind = kind

\* The deletion fence is read once more after the change ...
WriterChecks ==
  /\ Writing("writer")
  /\ IF deletion = "requested"
     THEN Rollback(busy) /\ busy' = Nobody
     ELSE busy' = [busy EXCEPT !.kind = "saving"] /\ UNCHANGED memory
  /\ UNCHANGED <<live, running, disk, ledger, tombstone, deletion, answers, seen>>

\* ... and save_session looks for the tombstone in its own transaction; losing
\* that race is not an error.
\* Mutated: the tombstone is not looked for.
StoredAnyway(s) == disk' = s

Stored(s) == disk' = IF tombstone THEN disk ELSE s

Saves ==
  /\ Writing("saving") \/ Writing("controller")
  /\ Stored(memory)
  /\ busy' = Nobody
  /\ UNCHANGED <<live, running, memory, ledger, tombstone, deletion, answers, seen>>

SaveFails ==
  /\ Writing("saving")
  /\ Rollback(busy)
  /\ busy' = Nobody
  /\ UNCHANGED <<live, running, disk, ledger, tombstone, deletion, answers, seen>>

ControllerFails ==
  /\ Writing("controller")
  /\ busy' = Nobody
  /\ UNCHANGED <<live, running, memory, disk, ledger, tombstone, deletion, answers, seen>>

-----------------------------------------------------------------------------
(***************************************************************************)
(* RuntimeAPI.delete_session.                                              *)
(***************************************************************************)
Lifecycle == busy.kind \notin {"command", "answer"}

DeleteBegins ==
  /\ Serving
  /\ deletion = "none"
  /\ Lifecycle
  /\ deletion' = "requested"
  /\ UNCHANGED <<live, running, memory, disk, ledger, tombstone, busy, answers, seen>>

\* One transaction writes the tombstone and removes the rows.
DeleteCommits ==
  /\ Serving
  /\ deletion = "requested"
  /\ tombstone' = TRUE
  /\ ledger' = NoDecisions
  /\ disk' = New
  /\ UNCHANGED <<live, running, memory, deletion, busy, answers, seen>>

DeleteFails ==
  /\ Serving
  /\ deletion = "requested"
  /\ deletion' = "refused"
  /\ UNCHANGED <<live, running, memory, disk, ledger, tombstone, busy, answers, seen>>

\* A suspension published from state s, and saved.
Suspended(s) == memory' = Published(s, TRUE) /\ disk' = Published(s, TRUE)

\* The failed deletion suspends the session before it lets commands in again; a
\* second failure of the store is swallowed.
SuspendRefused ==
  /\ Serving
  /\ deletion = "refused"
  /\ busy = Nobody
  /\ deletion' = "none"
  /\ \/ HasRoom /\ Suspended(memory)
     \/ UNCHANGED <<memory, disk>>
  /\ UNCHANGED <<live, running, ledger, tombstone, busy, answers, seen>>

-----------------------------------------------------------------------------
\* Mutated: a snapshot taken without the session lock.
ReadUnlocked ==
  /\ Serving
  /\ deletion # "requested"
  /\ Shown(memory.sequence)
  /\ UNCHANGED <<live, running, memory, disk, ledger, tombstone, deletion, busy, answers>>

\* A snapshot or an event stream, under the session lock and behind the fence.
Read ==
  /\ Serving
  /\ deletion # "requested"
  /\ busy = Nobody
  /\ Shown(memory.sequence)
  /\ UNCHANGED <<live, running, memory, disk, ledger, tombstone, deletion, busy, answers>>

Crash ==
  /\ running
  /\ running' = FALSE
  /\ memory' = disk
  /\ busy' = Nobody
  /\ deletion' = "none"
  /\ UNCHANGED <<live, disk, ledger, tombstone, answers, seen>>

\* _load_state: the stored session is loaded, suspended and saved, unless it had
\* been stopped; a deleted one is not there to load.
Start ==
  /\ ~running
  /\ running' = TRUE
  /\ \/ ~tombstone /\ HasRoom /\ Suspended(disk)
     \/ UNCHANGED <<memory, disk>>
  /\ UNCHANGED <<live, ledger, tombstone, deletion, busy, answers, seen>>

Command == \E r \in Requests : Replay(r) \/ Conflict(r) \/ Apply(r) \/ Refuse(r)
Handler == Commit \/ CommitFails \/ Return
Writer ==
  \/ WriterBegins
  \/ WriterChecks
  \/ Saves
  \/ SaveFails
  \/ ControllerBegins
  \/ ControllerFails
Deletion == DeleteBegins \/ DeleteCommits \/ DeleteFails \/ SuspendRefused

Next == Command \/ Handler \/ Writer \/ Deletion \/ Read \/ Crash \/ Start

Spec == Init /\ [][Next]_vars

-----------------------------------------------------------------------------
States == [version : Nat, sequence : Nat, effects : [Keys -> Nat]]
Outcomes == {"applied", "rejected", "conflict"}
Decisions == [request : Requests, outcome : Outcomes \ {"conflict"}, version : Nat]
Holders ==
  [kind : {"free", "command", "answer", "writer", "saving", "controller"},
   request : Requests \cup {NoRequest}, outcome : Outcomes \ {"conflict"}, version : Nat,
   before : States]

\* Types of the handler's and the store's state; a recorded decision is never a
\* conflict, which the handler answers without storing it.
TypeOK ==
  /\ live \in BOOLEAN
  /\ running \in BOOLEAN
  /\ memory \in States
  /\ disk \in States
  /\ ledger \in [Keys -> Decisions \cup {Undecided}]
  /\ tombstone \in BOOLEAN
  /\ deletion \in {"none", "requested", "refused"}
  /\ busy \in Holders
  /\ answers \subseteq [request : Requests, outcome : Outcomes, version : Nat]
  /\ seen \in Nat

(***************************************************************************)
(* The command service clients are promised, seen in what the store holds. *)
(***************************************************************************)
Service ==
  INSTANCE ExactlyOnce WITH
    decided <- ledger, effects <- disk.effects, forgotten <- tombstone,
    Versions <- 0 .. MaxSequence

\* Handler, store, rollback, crash and restart together implement that service.
Promise == Service!ASpec

\* A command takes effect as often as its decision says, once or never, in the
\* state that survives a crash.
OneEffect == Service!OneEffect

\* Whatever was retried, lost or restarted, two answers to one request agree.
AnswersAgree == Service!AnswersAgree

\* Of all commands issued against one state_version at most one is applied.
OneWinner ==
  \A k, l \in Keys :
    /\ ledger[k] # Undecided /\ ledger[k].outcome = "applied"
    /\ ledger[l] # Undecided /\ ledger[l].outcome = "applied"
    /\ ledger[k].request.expected = ledger[l].request.expected
    => k = l

\* Retries get one answer, and of two commands bound to one state only one wins.
OneAnswer == AnswersAgree /\ OneWinner

\* What a client has been shown, an event or a snapshot, is on disk.
SeenIsDurable == ~tombstone => seen <= disk.sequence

\* Between two holders of the session lock memory and disk are the same.
WriteThrough == running /\ busy = Nobody /\ ~tombstone => memory = disk

\* Unless a live controller changes the session, which keeps what it could not
\* store: neither a rollback nor a crash takes back what was shown, and a failed
\* transaction leaves nothing behind for the next one to store.
StoreKeepsUp == ~live => SeenIsDurable /\ WriteThrough

\* A deleted session stays deleted: no writer that was under way and no restart
\* brings a row of it back.
Buried == tombstone => disk = New /\ ledger = NoDecisions

\* PA_SHARED_INTERFACES_V1.md: event_sequence is strictly increasing by one per
\* emitted event; so a restart numbers its first event above all that were seen.
NumbersNotReused ==
  [][~running /\ running' /\ memory' # memory => memory'.sequence > seen]_vars
=============================================================================
