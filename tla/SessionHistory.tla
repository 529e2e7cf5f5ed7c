--------------------------- MODULE SessionHistory ---------------------------
(***************************************************************************)
(* What a rehearsal session remembers, in memory and on disk: its audit    *)
(* records, the versions of its baseline, the frames a baseline can be     *)
(* accepted from and the audio kept for preparing it (roles/pa/session.py, *)
(* core/profiles/baselines.py, apps/api/persistence.py).                   *)
(*                                                                         *)
(* Every change is made in memory under the session lock, written in one   *)
(* SQLite transaction and rolled back in memory when that fails: a command *)
(* by CommandHandler.handle, anything else by the decorator _persisted.    *)
(* Deletion does not take the session lock, and the service may crash      *)
(* between any two steps.                                                  *)
(*                                                                         *)
(* Workflow, incidents and probes are PASession's, the answers to commands *)
(* CommandLedger's.  What an audit record, a frame's audio or a profile    *)
(* says is represented by the number of the change that made it, `takes`:  *)
(* two contents are equal only if they were made at the same time.         *)
(***************************************************************************)
EXTENDS Integers, Sequences, FiniteSets

CONSTANTS
  Instruments,     \* of the song's configuration
  WindowSamples,   \* samples in a window
  Hops,            \* how far after a window the next one kept may begin
  FrameRetention,  \* frames kept: frame_retention
  AuditRetention,  \* audit records kept in memory: 128
  AuditsPerWindow, \* how many records a window may make
  PcmLimit,        \* samples kept for a baseline: _baseline_pcm_limit
  MaxTakes,        \* bound of a run: changes tried
  None

ASSUME HistoryAssumption ==
  /\ WindowSamples \in Nat \ {0} /\ PcmLimit \in Nat /\ MaxTakes \in Nat
  /\ Hops \subseteq Nat \ {0} /\ AuditsPerWindow \subseteq 0..2
  /\ FrameRetention \in Nat \ {0}
  /\ AuditRetention \in Nat \ {0, 1}   \* no operation makes more than two records

VARIABLES
  memory,   \* the session's state: what export_state and restore_state move
  windows,  \* _baseline_windows: the dictionary's entries, oldest first
  pcm,      \* _baseline_pcm_samples
  op,       \* the operation that holds the session lock
  scan,     \* the local variables of build_baseline_profile
  row,      \* the session's row of table sessions, or None
  archive,  \* table session_audit: from audit_index to record
  shelf,    \* table baselines: from version to profile
  up,       \* the service runs and has the session
  dying,    \* _deletion_requested
  deleted,  \* the session is in table deleted_sessions
  takes     \* changes tried so far

vars == <<memory, windows, pcm, op, scan, row, archive, shelf, up, dying, deleted, takes>>
stored == <<row, archive, shelf>>
audio == <<windows, pcm>>

Records == [index : Nat, what : Nat]
Frames == [id : Nat, start : Nat, heard : SUBSET Instruments, take : Nat]
Profiles == [take : Nat, hashes : Seq(Nat), context : Seq(Nat),
             samples : [Instruments -> Nat], windows : [Instruments -> Nat]]

-----------------------------------------------------------------------------
(* Sequences and tables.                                                   *)

Newest(s, n) == IF Len(s) > n THEN SubSeq(s, Len(s) - n + 1, Len(s)) ELSE s

\* A list that is appended to and then cut to its newest n.
Keep(s, e, n) == Newest(Append(s, e), n)

Put(table, key, value) ==
  [k \in DOMAIN table \cup {key} |-> IF k = key THEN value ELSE table[k]]

Histories ==
  [total : Nat, audit : Seq(Records), profiles : Seq(Profiles), baseline : Nat,
   sequence : Nat, frames : Seq(Frames),
   mode : {"rehearsal", "live"}, workflow : {"open", "paused", "restart", "stopped"}]

Fresh ==
  [total |-> 0, audit |-> <<>>, profiles |-> <<>>, baseline |-> 0, sequence |-> 0,
   frames |-> <<>>, mode |-> "rehearsal", workflow |-> "open"]

Idle == [step |-> "idle", command |-> FALSE, before |-> Fresh, chosen |-> <<>>]

Unscanned ==
  [next |-> 1,
   covered |-> [i \in Instruments |-> -1], samples |-> [i \in Instruments |-> 0],
   qualified |-> [i \in Instruments |-> -1], windows |-> [i \in Instruments |-> 0]]

-----------------------------------------------------------------------------
(* An operation: the lock is taken, memory changed, the change written.    *)

Ready == up /\ op.step = "idle" /\ ~dying

\* Under the lock, with what memory was for the roll-back.
Begins(step, command, chosen) ==
  op' = [step |-> step, command |-> command, before |-> memory, chosen |-> chosen]

\* Mutated: memory keeps the change that was not written.
RollBackNothing ==
  /\ memory' = memory /\ op' = Idle /\ scan' = Unscanned

\* restore_state: the session as it was.  The audio kept is not part of it.
RollBack ==
  /\ memory' = op.before /\ op' = Idle /\ scan' = Unscanned

\* _audit: the next index, whatever is still in memory.
Audited(m, what) ==
  [m EXCEPT !.total = @ + 1,
            !.audit = Keep(@, [index |-> m.total + 1, what |-> what], AuditRetention)]

\* A change that makes up to two audit records.
Noted(m, records) ==
  CASE records = 0 -> m
    [] records = 1 -> Audited(m, takes)
    [] records = 2 -> Audited(Audited(m, takes), takes)

\* A change with a content of its own.
Stamped == takes < MaxTakes /\ takes' = takes + 1

\* An operation that only changes memory and is then written.
Changes(m, command) ==
  /\ memory' = m
  /\ Begins("save", command, <<>>)
  /\ UNCHANGED <<scan, up, dying, deleted, stored>>

\* Commands and suspensions.  In the rehearsal policy none of them touches
\* baselines or frames; an adjustment leaves one or two audit records.
Adjust ==
  /\ Ready /\ memory.workflow = "open"
  /\ \E records \in 1..2 : Changes(Noted(memory, records), TRUE)
  /\ Stamped
  /\ UNCHANGED audio

StartLive ==
  /\ Ready /\ memory.workflow = "open"
  /\ memory.mode = "rehearsal" /\ memory.baseline # 0
  /\ Changes([memory EXCEPT !.mode = "live"], TRUE)
  /\ UNCHANGED <<audio, takes>>

Pause ==
  /\ Ready /\ memory.workflow \in {"open", "paused", "restart"}
  /\ \E command \in BOOLEAN :
       /\ command => memory.workflow = "open"
       /\ Changes([memory EXCEPT !.workflow = "paused"], command)
  /\ UNCHANGED <<audio, takes>>

Resume ==
  /\ Ready /\ memory.workflow = "paused"
  /\ Changes([memory EXCEPT !.workflow = "open"], TRUE)
  /\ UNCHANGED <<audio, takes>>

Stop ==
  /\ Ready /\ memory.workflow # "stopped"
  /\ Changes([memory EXCEPT !.workflow = "stopped"], TRUE)
  /\ UNCHANGED <<audio, takes>>

-----------------------------------------------------------------------------
(* Observing a window (observe_window).                                    *)

\* Mutated: an entry that is there stays (setdefault).
HeldFirst(id, take) ==
  IF \E k \in DOMAIN windows : windows[k].id = id THEN windows
  ELSE Append(windows, [id |-> id, take |-> take])

\* _baseline_windows[frame_id] = window: an entry that is there is replaced
\* where it stands.
Held(id, take) ==
  IF \E k \in DOMAIN windows : windows[k].id = id
  THEN [k \in DOMAIN windows |-> IF windows[k].id = id THEN [id |-> id, take |-> take]
                                 ELSE windows[k]]
  ELSE Append(windows, [id |-> id, take |-> take])

\* Mutated: one window too few.
ExcessRoundedDown(count) ==
  IF count > PcmLimit THEN (count - PcmLimit) \div WindowSamples ELSE 0

\* How many of the oldest windows must go to bring this count within the limit.
Excess(count) ==
  IF count > PcmLimit THEN (count - PcmLimit + WindowSamples - 1) \div WindowSamples ELSE 0

\* The frame built of the next window: its number is one that a rolled back
\* observation may have had before.
NextFrame(hop, heard) ==
  LET last == memory.frames[Len(memory.frames)]
  IN [id |-> memory.sequence + 1,
      start |-> IF memory.frames = <<>> THEN 0 ELSE last.start + hop,
      heard |-> heard, take |-> takes]

Framed(frame) ==
  [memory EXCEPT !.sequence = @ + 1, !.frames = Keep(@, frame, FrameRetention)]

Observable == Ready /\ memory.workflow \in {"open", "paused"}

\* In live mode the audio is not kept.
ObserveLive ==
  /\ Observable /\ memory.mode = "live"
  /\ \E hop \in Hops, records \in AuditsPerWindow :
       Changes(Noted(Framed(NextFrame(hop, {})), records), FALSE)
  /\ Stamped /\ UNCHANGED audio

\* In rehearsal it is, up to the limit: the oldest go first.  With none left to
\* go the loop would raise an error (EvictionEnds: that does not happen).
ObserveRehearsal ==
  /\ Observable /\ memory.mode = "rehearsal" /\ Stamped
  /\ \E hop \in Hops, heard \in SUBSET Instruments, records \in AuditsPerWindow :
       LET frame == NextFrame(hop, heard)
           held  == Held(frame.id, takes)
           count == pcm + WindowSamples
       IN  /\ Excess(count) <= Len(held)
           /\ windows' = SubSeq(held, Excess(count) + 1, Len(held))
           /\ pcm' = count - Excess(count) * WindowSamples
           /\ Changes(Noted(Framed(frame), records), FALSE)

-----------------------------------------------------------------------------
(* Accepting a baseline (_accept_baseline, build_baseline_profile).        *)

End(frame) == frame.start + WindowSamples

HeldUnder(id) == {windows[k].take : k \in {j \in DOMAIN windows : windows[j].id = id}}

\* The frames of the interval, complete and with their audio still there.
Accept ==
  /\ Ready /\ memory.workflow = "open" /\ memory.mode = "rehearsal"
  /\ \E first, last \in DOMAIN memory.frames :
       LET chosen == SubSeq(memory.frames, first, last)
       IN  /\ first <= last
           /\ \A k \in 1..Len(chosen) - 1 : chosen[k + 1].start <= End(chosen[k])
           /\ \A k \in 1..Len(chosen) : HeldUnder(chosen[k].id) # {}
           /\ Begins("scan", TRUE, chosen)
  /\ scan' = Unscanned
  /\ UNCHANGED <<memory, audio, up, dying, deleted, takes, stored>>

Larger(a, b) == IF a > b THEN a ELSE b

\* One frame in order of sample_start: the new samples of each active
\* instrument, and whether this window begins after the last one counted.
Scanned(s, frame) ==
  LET Heard(old, new) == [i \in Instruments |-> IF i \in frame.heard THEN new[i] ELSE old[i]]
      Counts(i)       == frame.start >= s.qualified[i]
      unique(i)       == Larger(0, End(frame) - Larger(frame.start, s.covered[i]))
  IN [next      |-> s.next + 1,
      samples   |-> Heard(s.samples, [i \in Instruments |-> s.samples[i] + unique(i)]),
      covered   |-> Heard(s.covered, [i \in Instruments |-> Larger(s.covered[i], End(frame))]),
      windows   |-> Heard(s.windows, [i \in Instruments |->
                                        s.windows[i] + IF Counts(i) THEN 1 ELSE 0]),
      qualified |-> Heard(s.qualified, [i \in Instruments |->
                                          IF Counts(i) THEN End(frame) ELSE s.qualified[i]])]

\* Mutated: the end of the last window counted is that of the last one heard.
ScanFrameOneEnd ==
  /\ up /\ op.step = "scan" /\ scan.next <= Len(op.chosen)
  /\ LET s == Scanned(scan, op.chosen[scan.next]) IN scan' = [s EXCEPT !.qualified = s.covered]
  /\ UNCHANGED <<memory, audio, op, up, dying, deleted, takes, stored>>

ScanFrame ==
  /\ up /\ op.step = "scan" /\ scan.next <= Len(op.chosen)
  /\ scan' = Scanned(scan, op.chosen[scan.next])
  /\ UNCHANGED <<memory, audio, op, up, dying, deleted, takes, stored>>

\* A frame whose quality, or whose difference from the reference, does not do for
\* this command; a stored version with other content; an instrument that was not
\* heard: the command is rejected and the session as it was.
Covered == \A i \in Instruments : scan.windows[i] > 0

Reject ==
  /\ up /\ op.step = "scan"
  /\ scan.next > Len(op.chosen) => ~Covered \/ memory.baseline + 1 \in DOMAIN memory.profiles
  /\ RollBack
  /\ UNCHANGED <<audio, up, dying, deleted, takes, stored>>

\* What the analyzer prepares its context of: the audio under the frames' names.
ContextOf(chosen) == [k \in 1..Len(chosen) |-> CHOOSE t \in HeldUnder(chosen[k].id) : TRUE]

Profile ==
  [take |-> takes, hashes |-> [k \in 1..Len(op.chosen) |-> op.chosen[k].take],
   context |-> ContextOf(op.chosen), samples |-> scan.samples, windows |-> scan.windows]

Accepted ==
  /\ up /\ op.step = "scan" /\ scan.next > Len(op.chosen) /\ Covered
  /\ memory.baseline + 1 \notin DOMAIN memory.profiles
  /\ Stamped
  /\ LET version == memory.baseline + 1
     IN memory' = Audited([memory EXCEPT !.profiles = Put(@, version, Profile),
                                         !.baseline = version], takes)
  /\ op' = [op EXCEPT !.step = "save"] /\ scan' = Unscanned
  /\ UNCHANGED <<audio, up, dying, deleted, stored>>

-----------------------------------------------------------------------------
(* The write (save_session, record_command) and its failure.               *)

\* _persist_baseline and _persist_audit refuse to change what is stored.
Agrees(m) ==
  /\ \A v \in DOMAIN m.profiles \cap DOMAIN shelf : m.profiles[v] = shelf[v]
  /\ \A k \in DOMAIN m.audit : m.audit[k].index \in DOMAIN archive =>
                                 archive[m.audit[k].index] = m.audit[k]

Written(m) ==
  /\ row' = m
  /\ shelf' = [v \in DOMAIN shelf \cup DOMAIN m.profiles |->
                 IF v \in DOMAIN shelf THEN shelf[v] ELSE m.profiles[v]]
  /\ archive' = [n \in DOMAIN archive \cup {m.audit[k].index : k \in DOMAIN m.audit} |->
                   IF n \in DOMAIN archive THEN archive[n]
                   ELSE m.audit[CHOOSE k \in DOMAIN m.audit : m.audit[k].index = n]]

Save ==
  /\ up /\ op.step = "save" /\ ~deleted /\ Agrees(memory)
  /\ Written(memory)
  /\ op' = Idle
  /\ UNCHANGED <<memory, audio, scan, up, dying, deleted, takes>>

\* The deletion overtook the write: for a command that is an error, for the
\* persistence callback it is not.
SaveTooLate ==
  /\ up /\ op.step = "save" /\ deleted /\ ~op.command
  /\ op' = Idle
  /\ UNCHANGED <<memory, audio, scan, up, dying, deleted, takes, stored>>

\* An error of the database, stored content that differs, or a deletion.
SaveFails ==
  /\ up /\ op.step = "save"
  /\ RollBack
  /\ UNCHANGED <<audio, up, dying, deleted, takes, stored>>

-----------------------------------------------------------------------------
(* Deletion, crash and restart.                                            *)

AskDelete ==
  /\ up /\ ~dying /\ ~deleted /\ dying' = TRUE
  /\ UNCHANGED <<memory, audio, op, scan, stored, up, deleted, takes>>

\* delete_session: the fence, and every row but the baselines.
Delete ==
  /\ up /\ dying /\ ~deleted /\ deleted' = TRUE
  /\ row' = None /\ archive' = <<>>
  /\ UNCHANGED <<memory, audio, op, scan, shelf, up, dying, takes>>

\* The suspension that follows is a Pause.
DeleteFails ==
  /\ up /\ dying /\ ~deleted /\ dying' = FALSE
  /\ UNCHANGED <<memory, audio, op, scan, stored, up, deleted, takes>>

Crash ==
  /\ up /\ up' = FALSE
  /\ memory' = Fresh /\ windows' = <<>> /\ pcm' = 0
  /\ op' = Idle /\ scan' = Unscanned /\ dying' = FALSE
  /\ UNCHANGED <<stored, deleted, takes>>

\* from_state, then suspend_for_runtime_restart and its write: when that fails,
\* the service has not started.
Restart ==
  /\ ~up /\ ~deleted /\ up' = TRUE
  /\ LET m == IF row.workflow = "stopped" THEN row ELSE [row EXCEPT !.workflow = "restart"]
     IN  /\ memory' = m
         /\ IF row.workflow = "stopped" THEN UNCHANGED stored ELSE Agrees(m) /\ Written(m)
  /\ UNCHANGED <<audio, op, scan, dying, deleted, takes>>

-----------------------------------------------------------------------------
\* A session is created with its row.
Init ==
  /\ memory = Fresh /\ row = Fresh /\ archive = <<>> /\ shelf = <<>>
  /\ windows = <<>> /\ pcm = 0 /\ op = Idle /\ scan = Unscanned
  /\ up = TRUE /\ dying = FALSE /\ deleted = FALSE /\ takes = 0

Next ==
  \/ Adjust \/ StartLive \/ Pause \/ Resume \/ Stop
  \/ ObserveLive \/ ObserveRehearsal
  \/ Accept \/ ScanFrame \/ Reject \/ Accepted
  \/ Save \/ SaveTooLate \/ SaveFails
  \/ AskDelete \/ Delete \/ DeleteFails \/ Crash \/ Restart

Spec == Init /\ [][Next]_vars

-----------------------------------------------------------------------------
(* Properties.                                                             *)

TypeOK ==
  /\ memory \in Histories /\ row \in Histories \cup {None}
  /\ windows \in Seq([id : Nat, take : Nat]) /\ pcm \in Nat
  /\ op \in [step : {"idle", "scan", "save"}, command : BOOLEAN,
             before : Histories, chosen : Seq(Frames)]
  /\ scan \in [next : Nat, covered : [Instruments -> Int], samples : [Instruments -> Nat],
               qualified : [Instruments -> Int], windows : [Instruments -> Nat]]
  /\ archive \in Seq(Records) /\ shelf \in Seq(Profiles)
  /\ up \in BOOLEAN /\ dying \in BOOLEAN /\ deleted \in BOOLEAN /\ takes \in Nat

Smaller(a, b) == IF a < b THEN a ELSE b

\* The tables hold the whole history of a session of which m is the rest.
StoreHolds(m) ==
  /\ row = m
  /\ DOMAIN archive = 1..m.total
  /\ Len(m.audit) = Smaller(m.total, AuditRetention)
  /\ \A k \in DOMAIN m.audit :
       /\ m.audit[k].index = m.total - Len(m.audit) + k
       /\ m.audit[k] = archive[m.audit[k].index]
  /\ shelf = m.profiles /\ DOMAIN m.profiles = 1..m.baseline

\* Whenever no change is waiting to be written, memory is what is stored: every
\* audit record ever made is in the archive under consecutive indices with the
\* newest in memory, and every version of the baseline is in its table
\* (_persisted, CommandHandler.handle, restore_state, _audit, from_state).
MemoryIsStored == up /\ op.step # "save" /\ ~deleted => StoreHolds(memory)

\* Whatever was rolled back before, a write never contradicts a stored audit
\* record or baseline, and a version to be accepted is free: the refusals of
\* _persist_audit, _persist_baseline and BaselineStore.save do not happen.
NeverContradicts ==
  /\ op.step = "save" /\ ~deleted => Agrees(memory)
  /\ op.step = "scan" => memory.baseline + 1 \notin DOMAIN memory.profiles

\* Memory and tables never differ about a session's history.
OneHistory == MemoryIsStored /\ NeverContradicts

\* A baseline's model context was prepared of the very audio whose hashes it
\* names, although the audio is not rolled back with the frames and a frame's
\* identity is used again (observe_window, _accept_baseline).
ContextIsOfItsAudio ==
  \A profiles \in {memory.profiles, shelf} :
    \A v \in DOMAIN profiles : profiles[v].context = profiles[v].hashes

\* The windows counted so far that the instrument was heard in.
Starts(i) == {op.chosen[k].start : k \in {n \in DOMAIN op.chosen : n < scan.next /\ i \in op.chosen[n].heard}}

Samples(start) == start..(start + WindowSamples - 1)

Apart(starts) == \A a, b \in starts : a < b => a + WindowSamples <= b

\* valid_active_seconds counts each sample an instrument was heard in once, and
\* qualified_nonoverlap_windows is the largest number of its windows that do not
\* overlap, however the windows overlap (build_baseline_profile).
CoverageIsExact ==
  op.step = "scan" =>
    \A i \in Instruments :
      /\ scan.samples[i] = Cardinality(UNION {Samples(a) : a \in Starts(i)})
      /\ \E S \in SUBSET Starts(i) : Apart(S) /\ Cardinality(S) = scan.windows[i]
      /\ \A S \in SUBSET Starts(i) : Apart(S) => Cardinality(S) <= scan.windows[i]

\* The audio kept never exceeds its limit, and the loop that drops the oldest
\* always has one to drop, although the count is not rolled back with the
\* observation that it counted (observe_window).
EvictionEnds ==
  /\ WindowSamples * Len(windows) <= PcmLimit
  /\ memory.mode = "rehearsal" =>
       Excess(pcm + WindowSamples) <= Len(Held(memory.sequence + 1, takes))

\* accept_baseline rejects an interval whose audio is gone with "capture a new
\* rehearsal interval": the audio of a window just observed is there.
NewAudioIsKept ==
  [][ObserveRehearsal => \E k \in DOMAIN windows' : windows'[k].take = takes]_vars
=============================================================================
