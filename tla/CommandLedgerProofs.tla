------------------------ MODULE CommandLedgerProofs ------------------------
(***************************************************************************)
(* The command ledger keeps its promise for any keys, requests and bounds: *)
(* first the types, then an inductive invariant about the holder of the    *)
(* session lock, from which the safety properties and the refinement of    *)
(* ExactlyOnce follow.                                                     *)
(***************************************************************************)
EXTENDS CommandLedger, TLAPS

LEMMA PublishedType ==
  ASSUME NEW s \in States, NEW bump \in BOOLEAN
  PROVE  /\ Published(s, bump) \in States
         /\ Published(s, bump).effects = s.effects
         /\ Published(s, bump).sequence = s.sequence + 1
         /\ Published(s, bump).version = IF bump THEN s.version + 1 ELSE s.version
<1> DEFINE v == IF bump THEN s.version + 1 ELSE s.version
           p == [version |-> v, sequence |-> s.sequence + 1, effects |-> s.effects]
<1>1. v \in Nat /\ s.sequence + 1 \in Nat /\ s.effects \in [Keys -> Nat]
  BY DEF States
<1>2. Published(s, bump) = p
  BY DEF Published
<1> HIDE DEF v
<1>3. p \in States
  BY <1>1, Zenon DEF States
<1> QED BY <1>2, <1>3 DEF v

LEMMA NewType == New \in States /\ New.version = 0 /\ New.sequence = 0
BY DEF New, States

LEMMA HeldType ==
  ASSUME NEW kind \in {"free", "command", "answer", "writer", "saving", "controller"},
         NEW r \in Requests \cup {NoRequest},
         NEW outcome \in {"applied", "rejected"}, NEW version \in Nat, NEW before \in States
  PROVE  Held(kind, r, outcome, version, before) \in Holders
BY DEF Held, Holders, Outcomes

LEMMA NobodyType == Nobody \in Holders /\ Nobody.kind = "free"
BY HeldType, NewType DEF Nobody, Held

LEMMA HolderFields ==
  ASSUME NEW b \in Holders
  PROVE  /\ b.kind \in {"free", "command", "answer", "writer", "saving", "controller"}
         /\ b.request \in Requests \cup {NoRequest}
         /\ b.outcome \in {"applied", "rejected"}
         /\ b.version \in Nat
         /\ b.before \in States
BY DEF Holders, Outcomes

\* Changing only what the lock is held for.
LEMMA NewKind ==
  ASSUME NEW b \in Holders, NEW kind \in {"answer", "saving"}
  PROVE  /\ [b EXCEPT !.kind = kind] \in Holders
         /\ [b EXCEPT !.kind = kind].kind = kind
         /\ [b EXCEPT !.kind = kind].request = b.request
         /\ [b EXCEPT !.kind = kind].outcome = b.outcome
         /\ [b EXCEPT !.kind = kind].version = b.version
         /\ [b EXCEPT !.kind = kind].before = b.before
BY DEF Holders, Outcomes

LEMMA DecisionType ==
  ASSUME NEW b \in Holders, b.request \in Requests
  PROVE  Decision(b) \in Decisions /\ Decision(b) # Undecided
<1>1. Decision(b) \in [request : Requests, outcome : {"applied", "rejected"}, version : Nat]
  BY HolderFields DEF Decision
<1> QED BY <1>1, LedgerAssumption DEF Decisions, Outcomes

LEMMA NoDecisionsType ==
  NoDecisions \in [Keys -> Decisions \cup {Undecided}] /\ \A k \in Keys : NoDecisions[k] = Undecided
BY DEF NoDecisions

-----------------------------------------------------------------------------
(***************************************************************************)
(* Types.  A command's request is one of Requests; this is kept with them  *)
(* because its decision is typed by it.                                    *)
(***************************************************************************)
Typed ==
  /\ TypeOK
  /\ busy.kind \in {"command", "answer"} => busy.request \in Requests

LEMMA InitTyped == Init => Typed
<1> SUFFICES ASSUME Init PROVE Typed
  OBVIOUS
<1>1. memory \in States /\ disk \in States /\ busy \in Holders /\ busy.kind = "free"
  BY NewType, NobodyType DEF Init
<1>2. ledger \in [Keys -> Decisions \cup {Undecided}]
  BY NoDecisionsType DEF Init
<1>3. /\ running \in BOOLEAN /\ tombstone \in BOOLEAN /\ seen \in Nat
      /\ deletion \in {"none", "requested", "refused"}
      /\ answers \subseteq [request : Requests, outcome : Outcomes, version : Nat]
  BY DEF Init
<1>4. live \in BOOLEAN
  BY LedgerAssumption DEF Init
<1> QED BY <1>1, <1>2, <1>3, <1>4 DEF Typed, TypeOK

LEMMA ApplyTyped ==
  ASSUME Typed, NEW r \in Requests, Apply(r)
  PROVE  Typed'
<1> DEFINE p == Published(memory, TRUE)
<1>1. p \in States
  BY PublishedType DEF Typed, TypeOK
<1>2. memory' \in States
  <2> HIDE DEF p
  <2>1. r.key \in Keys
    BY LedgerAssumption
  <2>2. p.version \in Nat /\ p.sequence \in Nat /\ p.effects \in [Keys -> Nat]
    BY <1>1 DEF States
  <2>3. [p.effects EXCEPT ![r.key] = @ + 1] \in [Keys -> Nat]
    BY <2>1, <2>2
  <2>4. [p EXCEPT !.effects[r.key] = @ + 1]
           = [version |-> p.version, sequence |-> p.sequence,
              effects |-> [p.effects EXCEPT ![r.key] = @ + 1]]
    BY <1>1 DEF States
  <2>5. [p EXCEPT !.effects[r.key] = @ + 1] \in States
    BY <2>2, <2>3, <2>4, Zenon DEF States
  <2> QED BY <2>5 DEF Apply, p
<1>3. busy' \in Holders /\ busy'.kind = "command" /\ busy'.request = r
  BY HeldType DEF Apply, Held, Typed, TypeOK, States
<1> QED BY <1>2, <1>3 DEF Apply, Typed, TypeOK

LEMMA NextTyped ==
  ASSUME Typed, [Next]_vars
  PROVE  Typed'
<1> USE DEF Typed, TypeOK, Serving, Arrives
<1>1. ASSUME NEW r \in Requests, Replay(r) PROVE Typed'
  <2>1. /\ ledger[r.key].outcome \in Outcomes
        /\ ledger[r.key].version \in Nat
    BY <1>1, LedgerAssumption DEF Replay, Decisions
  <2> QED BY <1>1, <2>1 DEF Replay
<1>2. ASSUME NEW r \in Requests, Conflict(r) PROVE Typed'
  BY <1>2 DEF Conflict, Shown, Outcomes, States
<1>3. ASSUME NEW r \in Requests, Apply(r) PROVE Typed'
  BY <1>3, ApplyTyped
<1>4. ASSUME NEW r \in Requests, Refuse(r) PROVE Typed'
  <2>1. busy' \in Holders /\ busy'.kind = "command" /\ busy'.request = r
    BY <1>4, HeldType DEF Refuse, Held, States
  <2> QED BY <1>4, <2>1 DEF Refuse
<1>5. ASSUME Commit PROVE Typed'
  <2>1. busy' \in Holders /\ busy'.kind = "answer" /\ busy'.request = busy.request
    BY <1>5, NewKind DEF Commit
  <2>2. ledger' \in [Keys -> Decisions \cup {Undecided}]
    BY <1>5, DecisionType, LedgerAssumption DEF Commit, Handling, Entered
  <2> QED BY <1>5, <2>1, <2>2 DEF Commit, Handling
<1>6. ASSUME CommitFails PROVE Typed'
  BY <1>6, NobodyType, HolderFields DEF CommitFails, Rollback
<1>7. ASSUME Return PROVE Typed'
  <2>1. answers' \subseteq [request : Requests, outcome : Outcomes, version : Nat]
    BY <1>7, HolderFields DEF Return, Outcomes
  <2> QED BY <1>7, <2>1, NobodyType DEF Return, Shown, States
<1>8. ASSUME NEW kind \in {"writer", "controller"}, Write(kind) PROVE Typed'
  <2>1. memory' \in States
    BY <1>8, PublishedType DEF Write
  <2>2. busy' \in Holders /\ busy'.kind = kind
    BY <1>8, HeldType DEF Write, Held
  <2> QED BY <1>8, <2>1, <2>2 DEF Write
<1>9. ASSUME WriterChecks PROVE Typed'
  BY <1>9, NobodyType, HolderFields, NewKind, ZenonT(40) DEF WriterChecks, Rollback
<1>10. ASSUME Saves \/ SaveFails \/ ControllerFails PROVE Typed'
  BY <1>10, NobodyType, HolderFields DEF Saves, SaveFails, ControllerFails, Stored, Rollback
<1>11. ASSUME Deletion PROVE Typed'
  <2>1. ASSUME SuspendRefused PROVE memory' \in States /\ disk' \in States
    BY <2>1, PublishedType DEF SuspendRefused, Suspended
  <2> QED BY <1>11, <2>1, NewType, NoDecisionsType
        DEF Deletion, DeleteBegins, DeleteCommits, DeleteFails, SuspendRefused
<1>12. ASSUME Read PROVE Typed'
  BY <1>12 DEF Read, Shown, States
<1>13. ASSUME Crash PROVE Typed'
  BY <1>13, NobodyType DEF Crash
<1>14. ASSUME Start PROVE Typed'
  <2>1. memory' \in States /\ disk' \in States
    BY <1>14, PublishedType DEF Start, Suspended
  <2> QED BY <1>14, <2>1 DEF Start
<1>15. ASSUME UNCHANGED vars PROVE Typed'
  BY <1>15 DEF vars
<1> QED
  BY <1>1, <1>2, <1>3, <1>4, <1>5, <1>6, <1>7, <1>8, <1>9, <1>10, <1>11, <1>12, <1>13,
     <1>14, <1>15
     DEF Next, Command, Handler, Writer, WriterBegins, ControllerBegins

\* Every reachable state of the handler and its store is well typed.
THEOREM LedgerTyped == Spec => []TypeOK
<1>1. Typed /\ [Next]_vars => Typed'
  BY NextTyped
<1>2. Typed => TypeOK
  BY DEF Typed
<1> QED BY InitTyped, <1>1, <1>2, PTL DEF Spec

-----------------------------------------------------------------------------
(***************************************************************************)
(* The inductive invariant.  Counters only grow, and what is on disk never *)
(* runs ahead of memory; the holder of the lock knows what it must put     *)
(* back, and outside a command memory and disk have seen the same effects. *)
(***************************************************************************)
Ahead(s) ==
  /\ s.version <= s.sequence
  /\ s.sequence <= MaxSequence
  /\ ~tombstone => disk.version <= s.version /\ disk.sequence <= s.sequence

InBounds == Ahead(memory) /\ Ahead(disk) /\ (busy.kind \notin {"free", "answer"} => Ahead(busy.before))

NoneRunning == ~running => busy.kind = "free"

CommandHolder ==
  busy.kind \in {"command", "answer"} =>
    /\ ~tombstone
    /\ deletion = "none"
    /\ busy.version <= MaxSequence

\* Until it commits a command has changed only memory, and only by itself.
CommandUncommitted ==
  busy.kind = "command" =>
    /\ ledger[busy.request.key] = Undecided
    /\ busy.before.effects = disk.effects
    /\ \/ /\ busy.outcome = "applied"
          /\ memory.effects = [disk.effects EXCEPT ![busy.request.key] = @ + 1]
          /\ busy.request.expected = busy.before.version
          /\ memory.version = busy.before.version + 1
       \/ busy.outcome = "rejected" /\ memory = busy.before

CommandCommitted == busy.kind = "answer" => ledger[busy.request.key] = Decision(busy)

SameEffects ==
  /\ busy.kind # "command" /\ ~tombstone => memory.effects = disk.effects
  /\ busy.kind \in {"writer", "saving", "controller"} /\ ~tombstone =>
       busy.before.effects = disk.effects

Winners ==
  \A k \in Keys :
    ledger[k] # Undecided /\ ledger[k].outcome = "applied" =>
      ledger[k].request.expected < disk.version

Answered ==
  ~tombstone =>
    \A a \in answers :
      LET d == ledger[a.request.key]
      IN  /\ d # Undecided
          /\ IF d.request = a.request
             THEN a.outcome = d.outcome /\ a.version = d.version
             ELSE a.outcome = "conflict"

Effects ==
  \A k \in Keys :
    disk.effects[k] =
      (IF ledger[k] # Undecided /\ ledger[k].outcome = "applied" THEN 1 ELSE 0)

Agreement ==
  \A a, b \in answers :
    a.request = b.request =>
      a.outcome = b.outcome /\ (a.outcome # "conflict" => a = b)

Locking ==
  /\ InBounds
  /\ NoneRunning
  /\ CommandHolder
  /\ CommandUncommitted
  /\ CommandCommitted
  /\ SameEffects

Storing == Winners /\ Effects /\ OneWinner /\ Buried

Answering == Answered /\ Agreement

LedgerInv == Typed /\ Locking /\ Storing /\ Answering

LEMMA StoringKept ==
  ASSUME Storing, UNCHANGED <<disk, ledger, tombstone>>
  PROVE  Storing'
BY DEF Storing, Winners, Effects, OneWinner, Buried

LEMMA AnsweringKept ==
  ASSUME Answering, UNCHANGED <<ledger, tombstone, answers>>
  PROVE  Answering'
BY DEF Answering, Answered, Agreement

LEMMA InitInv == Init => LedgerInv
<1> SUFFICES ASSUME Init PROVE LedgerInv
  OBVIOUS
<1>1. Typed
  BY InitTyped
<1>2. Locking
  BY NewType, NobodyType, LedgerAssumption
     DEF Init, Locking, InBounds, Ahead, NoneRunning, CommandHolder, CommandUncommitted,
         CommandCommitted, SameEffects
<1>3. Storing
  BY NoDecisionsType
     DEF Init, Storing, Winners, Effects, OneWinner, Buried, New
<1>4. Answering
  BY DEF Init, Answering, Answered, Agreement
<1> QED BY <1>1, <1>2, <1>3, <1>4 DEF LedgerInv

\* An answer that repeats the ledger, or names the conflict with it, agrees with
\* every answer given before.
LEMMA OneMoreAnswer ==
  ASSUME Typed, Answering, NEW a,
         ~tombstone,
         ledger[a.request.key] # Undecided,
         IF ledger[a.request.key].request = a.request
         THEN a = Decision(ledger[a.request.key])
         ELSE a.outcome = "conflict",
         answers' = answers \cup {a},
         UNCHANGED <<ledger, tombstone>>,
         a \in [request : Requests, outcome : Outcomes, version : Nat]
  PROVE  Answering'
<1>1. Answered'
  BY DEF Answering, Answered, Decision
<1>2. ASSUME NEW b \in answers, b.request = a.request
      PROVE  b.outcome = a.outcome /\ (a.outcome # "conflict" => a = b)
  <2>1. b \in [request : Requests, outcome : Outcomes, version : Nat]
    BY DEF Typed, TypeOK
  <2>2. ledger[a.request.key].outcome # "conflict"
    BY LedgerAssumption DEF Typed, TypeOK, Decisions, Outcomes
  <2>3. b.outcome = a.outcome
    BY <1>2, <2>2 DEF Answering, Answered, Decision
  <2>4. a.outcome # "conflict" => a.version = b.version
    BY <1>2, <2>2 DEF Answering, Answered, Decision
  <2> QED BY <1>2, <2>1, <2>3, <2>4
<1>3. Agreement'
  BY <1>2 DEF Answering, Agreement
<1> QED BY <1>1, <1>3 DEF Answering

LEMMA ReplayInv ==
  ASSUME LedgerInv, NEW r \in Requests, Replay(r) \/ Conflict(r)
  PROVE  LedgerInv'
<1>1. Typed'
  BY NextTyped DEF LedgerInv, Next, Command
<1>2. Locking'
  BY DEF LedgerInv, Locking, InBounds, Ahead, NoneRunning, CommandHolder,
     CommandUncommitted, CommandCommitted, SameEffects, Replay, Conflict
<1>3. Storing'
  BY StoringKept DEF LedgerInv, Replay, Conflict
<1>4. Answering'
  <2>1. CASE Replay(r)
    <3> DEFINE a == [request |-> r, outcome |-> ledger[r.key].outcome,
                     version |-> ledger[r.key].version]
    <3>1. ledger[r.key] \in Decisions
      BY <2>1, LedgerAssumption DEF Replay, LedgerInv, Typed, TypeOK
    <3>2. a \in [request : Requests, outcome : Outcomes, version : Nat]
      BY <3>1 DEF Decisions
    <3>3. a = Decision(ledger[r.key])
      BY <2>1 DEF Replay, Decision
    <3> QED BY <2>1, <3>2, <3>3, OneMoreAnswer DEF Replay, LedgerInv, Arrives, Serving
  <2>2. CASE Conflict(r)
    <3> DEFINE a == [request |-> r, outcome |-> "conflict", version |-> memory.version]
    <3>1. a \in [request : Requests, outcome : Outcomes, version : Nat]
      BY DEF LedgerInv, Typed, TypeOK, States, Outcomes
    <3> QED BY <2>2, <3>1, OneMoreAnswer DEF Conflict, LedgerInv, Arrives, Serving
  <2> QED BY <2>1, <2>2
<1> QED BY <1>1, <1>2, <1>3, <1>4 DEF LedgerInv

LEMMA ApplyInv ==
  ASSUME LedgerInv, NEW r \in Requests, Apply(r) \/ Refuse(r)
  PROVE  LedgerInv'
<1>1. Typed'
  BY NextTyped DEF LedgerInv, Next, Command
<1> DEFINE p == Published(memory, TRUE)
<1>2. /\ p \in States /\ p.effects = memory.effects
      /\ p.sequence = memory.sequence + 1 /\ p.version = memory.version + 1
  BY PublishedType DEF LedgerInv, Typed, TypeOK
<1>3. /\ busy.kind = "free" /\ ~tombstone /\ running /\ deletion = "none"
      /\ ledger[r.key] = Undecided
      /\ UNCHANGED <<running, disk, ledger, tombstone, deletion, answers, seen>>
  BY NobodyType DEF Apply, Refuse, Arrives, Serving
<1>4. busy'.kind = "command" /\ busy'.request = r /\ busy'.before = memory
  <2> HIDE DEF p
  <2>1. \E o, v : busy' = Held("command", r, o, v, memory)
    BY Zenon DEF Apply, Refuse
  <2> QED BY <2>1 DEF Held
<1>5. CASE Apply(r)
  <2> HIDE DEF p
  <2>1. /\ memory'.version = memory.version + 1
        /\ memory'.sequence = memory.sequence + 1
        /\ memory'.effects = [memory.effects EXCEPT ![r.key] = @ + 1]
    BY <1>2, <1>5 DEF Apply, p, States
  <2>2. busy'.outcome = "applied" /\ busy'.version = memory.version + 1
    BY <1>5 DEF Apply, Held
  <2>3. memory.sequence < MaxSequence /\ r.expected = memory.version
    BY <1>5 DEF Apply, HasRoom
  <2>4. InBounds'
    BY <1>3, <1>4, <2>1, <2>3, LedgerAssumption
       DEF LedgerInv, Locking, InBounds, Ahead, Typed, TypeOK, States
  <2>5. CommandHolder'
    BY <1>3, <1>4, <2>2, <2>3, LedgerAssumption
       DEF LedgerInv, Locking, InBounds, Ahead, Typed, TypeOK, States, CommandHolder
  <2>6. CommandUncommitted'
    BY <1>3, <1>4, <2>1, <2>2, <2>3
       DEF LedgerInv, Locking, SameEffects, CommandUncommitted
  <2> QED BY <1>3, <1>4, <2>4, <2>5, <2>6, <1>1, StoringKept, AnsweringKept
        DEF LedgerInv, Locking, NoneRunning, CommandCommitted, SameEffects
<1>6. CASE Refuse(r)
  <2>1. memory' = memory /\ busy'.outcome = "rejected" /\ busy'.version = memory.version
    BY <1>6 DEF Refuse, Held
  <2>2. InBounds' /\ CommandHolder'
    BY <1>3, <1>4, <2>1, LedgerAssumption
       DEF LedgerInv, Locking, InBounds, Ahead, Typed, TypeOK, States, CommandHolder
  <2>3. CommandUncommitted'
    BY <1>3, <1>4, <2>1 DEF LedgerInv, Locking, SameEffects, CommandUncommitted
  <2> QED BY <1>3, <1>4, <2>2, <2>3, <1>1, StoringKept, AnsweringKept
        DEF LedgerInv, Locking, NoneRunning, CommandCommitted, SameEffects
<1> QED BY <1>5, <1>6

LEMMA CommitInv ==
  ASSUME LedgerInv, Commit
  PROVE  LedgerInv'
<1>1. Typed'
  BY NextTyped DEF LedgerInv, Next, Handler
<1> DEFINE k == busy.request.key
<1>2. /\ busy \in Holders /\ busy.request \in Requests /\ k \in Keys
      /\ ledger \in [Keys -> Decisions \cup {Undecided}]
      /\ memory \in States /\ disk \in States
  BY LedgerAssumption DEF LedgerInv, Typed, TypeOK, Commit, Handling
<1>3. /\ busy.kind = "command" /\ running /\ ~tombstone /\ deletion = "none"
      /\ ledger' = [ledger EXCEPT ![k] = Decision(busy)] /\ disk' = memory
      /\ UNCHANGED <<running, memory, tombstone, deletion, answers>>
  BY DEF Commit, Handling, Entered, LedgerInv, Locking, CommandHolder
<1>4. /\ busy'.kind = "answer" /\ busy'.request = busy.request
      /\ busy'.outcome = busy.outcome /\ busy'.version = busy.version
  BY <1>2, NewKind DEF Commit
<1>5. /\ Decision(busy) \in Decisions /\ Decision(busy) # Undecided
      /\ Decision(busy').request = busy.request /\ Decision(busy').outcome = busy.outcome
      /\ Decision(busy) = Decision(busy')
      /\ ledger'[k] = Decision(busy)
      /\ \A l \in Keys \ {k} : ledger'[l] = ledger[l]
  BY <1>2, <1>3, <1>4, DecisionType DEF Decision
<1>6. ledger[k] = Undecided
  BY <1>3 DEF LedgerInv, Locking, CommandUncommitted
<1>7. Locking'
  BY <1>2, <1>3, <1>4, <1>5
     DEF LedgerInv, Locking, InBounds, Ahead, NoneRunning, CommandHolder,
         CommandUncommitted, CommandCommitted, SameEffects, States
<1>8. \A l \in Keys :
        ledger[l] # Undecided /\ ledger[l].outcome = "applied" =>
          ledger[l].request.expected < disk.version
  BY DEF LedgerInv, Storing, Winners
<1>9. busy.outcome = "applied" =>
        /\ busy.request.expected = busy.before.version
        /\ memory.version = busy.before.version + 1
        /\ disk.version <= busy.before.version
  BY <1>3 DEF LedgerInv, Locking, CommandUncommitted, InBounds, Ahead
<1>10. disk.version <= memory.version
  BY <1>3 DEF LedgerInv, Locking, InBounds, Ahead
<1>11. \A l \in Keys : ledger[l] # Undecided => ledger[l].request.expected \in Nat
  BY <1>2, LedgerAssumption DEF Decisions
<1>12. busy.request.expected \in Nat /\ busy.before.version \in Nat
  BY <1>2, LedgerAssumption, HolderFields DEF States
<1>13. Winners'
  BY <1>2, <1>3, <1>5, <1>8, <1>9, <1>10, <1>11, <1>12 DEF Winners, States, Decision
<1>14. OneWinner'
  <2>1. ASSUME NEW l \in Keys, l # k, busy.outcome = "applied",
               ledger[l] # Undecided, ledger[l].outcome = "applied"
        PROVE  ledger[l].request.expected # busy.request.expected
    BY <2>1, <1>2, <1>8, <1>9, <1>11, <1>12 DEF States
  <2> QED BY <2>1, <1>5 DEF LedgerInv, Storing, OneWinner, Decision
<1>15. Effects'
  <2>1. \A l \in Keys :
          disk.effects[l] =
            (IF ledger[l] # Undecided /\ ledger[l].outcome = "applied" THEN 1 ELSE 0)
    BY DEF LedgerInv, Storing, Effects
  <2>2. CASE busy.outcome = "applied"
    <3>1. memory.effects = [disk.effects EXCEPT ![k] = @ + 1]
      BY <1>3, <2>2 DEF LedgerInv, Locking, CommandUncommitted
    <3>2. disk.effects \in [Keys -> Nat]
      BY <1>2 DEF States
    <3> QED BY <3>1, <3>2, <2>1, <2>2, <1>2, <1>3, <1>5, <1>6 DEF Effects, Decision
  <2>3. CASE busy.outcome # "applied"
    <3>1. memory.effects = disk.effects
      BY <1>3, <2>3 DEF LedgerInv, Locking, CommandUncommitted
    <3> QED BY <3>1, <2>1, <2>3, <1>2, <1>3, <1>5, <1>6 DEF Effects, Decision
  <2> QED BY <2>2, <2>3
<1>16. Buried'
  BY <1>3 DEF Buried
<1>17. Answering'
  <2>1. \A a \in answers : a.request \in Requests /\ a.request.key \in Keys
    BY LedgerAssumption DEF LedgerInv, Typed, TypeOK
  <2>2. \A a \in answers : ledger[a.request.key] # Undecided
    BY <1>3 DEF LedgerInv, Answering, Answered
  <2> QED BY <2>1, <2>2, <1>3, <1>5, <1>6
        DEF LedgerInv, Answering, Answered, Agreement
<1> QED BY <1>1, <1>7, <1>13, <1>14, <1>15, <1>16, <1>17 DEF LedgerInv, Storing

LEMMA ReturnInv ==
  ASSUME LedgerInv, CommitFails \/ Return
  PROVE  LedgerInv'
<1>1. Typed'
  BY NextTyped DEF LedgerInv, Next, Handler
<1>2. busy'.kind = "free" /\ UNCHANGED <<running, disk, ledger, tombstone, deletion>>
  BY NobodyType DEF CommitFails, Return
<1>3. Storing'
  BY <1>2, StoringKept DEF LedgerInv
<1>4. busy \in Holders /\ busy.before \in States /\ memory \in States /\ disk \in States
  BY HolderFields DEF LedgerInv, Typed, TypeOK
<1>5. CASE CommitFails
  <2>1. busy.kind = "command" /\ ~tombstone /\ memory' = busy.before /\ UNCHANGED answers
    BY <1>5 DEF CommitFails, Handling, Rollback, LedgerInv, Locking, CommandHolder
  <2>2. busy.before.effects = disk.effects
    BY <2>1 DEF LedgerInv, Locking, CommandUncommitted
  <2>3. Locking'
    BY <1>2, <1>4, <2>1, <2>2
       DEF LedgerInv, Locking, InBounds, Ahead, NoneRunning, CommandHolder,
           CommandUncommitted, CommandCommitted, SameEffects
  <2> QED BY <1>1, <1>2, <1>3, <2>1, <2>3, AnsweringKept DEF LedgerInv
<1>6. CASE Return
  <2>1. busy.kind = "answer" /\ ~tombstone /\ UNCHANGED memory
    BY <1>6 DEF Return, LedgerInv, Locking, CommandHolder
  <2>2. Locking'
    BY <1>2, <2>1
       DEF LedgerInv, Locking, InBounds, Ahead, NoneRunning, CommandHolder,
           CommandUncommitted, CommandCommitted, SameEffects
  <2> DEFINE a == [request |-> busy.request, outcome |-> busy.outcome, version |-> busy.version]
  <2>3. a \in [request : Requests, outcome : Outcomes, version : Nat]
    BY <2>1, <1>4, HolderFields DEF LedgerInv, Typed, Outcomes
  <2>4. busy.request.key \in Keys
    BY <2>1, LedgerAssumption DEF LedgerInv, Typed
  <2>5. ledger[a.request.key] = Decision(busy) /\ Decision(busy) # Undecided
    BY <2>1, <1>4, DecisionType DEF LedgerInv, Typed, Locking, CommandCommitted
  <2>6. a = Decision(ledger[a.request.key]) /\ ledger[a.request.key].request = a.request
    BY <2>5 DEF Decision
  <2>7. answers' = answers \cup {a}
    BY <1>6 DEF Return
  <2>8. Answering'
    BY <1>2, <2>1, <2>3, <2>5, <2>6, <2>7, OneMoreAnswer DEF LedgerInv
  <2> QED BY <1>1, <1>3, <2>2, <2>8 DEF LedgerInv
<1> QED BY <1>5, <1>6

LEMMA WriteInv ==
  ASSUME LedgerInv, NEW kind \in {"writer", "controller"}, Write(kind),
         WriterBegins \/ ControllerBegins
  PROVE  LedgerInv'
<1>1. Typed'
  BY NextTyped DEF LedgerInv, Next, Writer
<1>2. PICK bump \in BOOLEAN : memory' = Published(memory, bump)
  BY DEF Write
<1>3. /\ memory \in States /\ disk \in States /\ memory' \in States
      /\ memory'.effects = memory.effects
      /\ memory'.sequence = memory.sequence + 1
      /\ memory'.version \in {memory.version, memory.version + 1}
  BY <1>2, PublishedType DEF LedgerInv, Typed, TypeOK
<1>4. /\ busy.kind = "free" /\ ~tombstone /\ running /\ memory.sequence < MaxSequence
      /\ UNCHANGED <<running, disk, ledger, tombstone, deletion, answers>>
  BY NobodyType DEF Write, HasRoom
<1>5. busy'.kind = kind /\ busy'.before = memory
  BY DEF Write, Held
<1>6. InBounds'
  BY <1>3, <1>4, <1>5, LedgerAssumption
     DEF LedgerInv, Locking, InBounds, Ahead, States
<1>7. Locking'
  BY <1>3, <1>4, <1>5, <1>6
     DEF LedgerInv, Locking, NoneRunning, CommandHolder, CommandUncommitted,
         CommandCommitted, SameEffects
<1> QED BY <1>1, <1>4, <1>7, StoringKept, AnsweringKept DEF LedgerInv

LEMMA SaveInv ==
  ASSUME LedgerInv, WriterChecks \/ Saves \/ SaveFails \/ ControllerFails
  PROVE  LedgerInv'
<1>1. Typed'
  BY NextTyped DEF LedgerInv, Next, Writer
<1>2. /\ busy \in Holders /\ busy.before \in States /\ memory \in States /\ disk \in States
      /\ ledger \in [Keys -> Decisions \cup {Undecided}]
  BY HolderFields DEF LedgerInv, Typed, TypeOK
<1>3. /\ busy.kind \in {"writer", "saving", "controller"} /\ running
      /\ UNCHANGED <<running, ledger, tombstone, deletion, answers>>
  BY DEF WriterChecks, Saves, SaveFails, ControllerFails, Writing
<1>4. Answering'
  BY <1>3, AnsweringKept DEF LedgerInv
<1>5. CASE /\ UNCHANGED <<memory, disk>>
           /\ busy'.kind = "saving" /\ busy'.before = busy.before
  <2>1. busy'.kind \in {"writer", "saving", "controller"} /\ busy'.before = busy.before
        /\ UNCHANGED <<memory, disk>>
    BY <1>3, <1>5
  <2>2. Locking'
    BY <1>3, <2>1
       DEF LedgerInv, Locking, InBounds, Ahead, NoneRunning, CommandHolder,
           CommandUncommitted, CommandCommitted, SameEffects
  <2> QED BY <1>1, <1>3, <1>4, <2>1, <2>2, StoringKept DEF LedgerInv
<1>6. CASE busy'.kind = "free" /\ UNCHANGED disk /\ memory' \in {memory, busy.before}
  <2>1. Locking'
    BY <1>3, <1>6
       DEF LedgerInv, Locking, InBounds, Ahead, NoneRunning, CommandHolder,
           CommandUncommitted, CommandCommitted, SameEffects
  <2> QED BY <1>1, <1>3, <1>4, <1>6, <2>1, StoringKept DEF LedgerInv
<1>7. CASE busy'.kind = "free" /\ UNCHANGED memory /\ ~tombstone /\ disk' = memory
  <2>1. Locking'
    BY <1>2, <1>3, <1>7
       DEF LedgerInv, Locking, InBounds, Ahead, NoneRunning, CommandHolder,
           CommandUncommitted, CommandCommitted, SameEffects, States
  <2>2. disk'.effects = disk.effects /\ disk.version <= disk'.version
    BY <1>3, <1>7 DEF LedgerInv, Locking, SameEffects, InBounds, Ahead
  <2>3. Winners'
    <3>1. \A k \in Keys : ledger[k] # Undecided => ledger[k].request.expected \in Nat
      BY <1>2, LedgerAssumption DEF Decisions
    <3>2. disk.version \in Nat /\ disk'.version \in Nat
      BY <1>2, <1>7 DEF States
    <3> QED BY <3>1, <3>2, <2>2, <1>3 DEF LedgerInv, Storing, Winners
  <2>4. Effects' /\ OneWinner' /\ Buried'
    BY <1>3, <1>7, <2>2 DEF LedgerInv, Storing, Effects, OneWinner, Buried
  <2> QED BY <1>1, <1>4, <2>1, <2>3, <2>4 DEF LedgerInv, Storing
<1>8. CASE WriterChecks
  <2>1. CASE deletion = "requested"
    BY <1>8, <2>1, <1>6, NobodyType DEF WriterChecks, Rollback
  <2>2. CASE deletion # "requested"
    <3>1. busy' = [busy EXCEPT !.kind = "saving"] /\ memory' = memory /\ disk' = disk
      BY <1>8, <2>2 DEF WriterChecks
    <3> QED BY <3>1, <1>2, <1>5, NewKind
  <2> QED BY <2>1, <2>2
<1>9. CASE Saves
  BY <1>9, <1>6, <1>7, NobodyType DEF Saves, Stored
<1>10. CASE SaveFails
  BY <1>10, <1>6, NobodyType DEF SaveFails, Rollback
<1>11. CASE ControllerFails
  BY <1>11, <1>6, NobodyType DEF ControllerFails
<1> QED BY <1>8, <1>9, <1>10, <1>11

\* A session that is stored again after one more transition, with the lock free.
LEMMA SuspendedInv ==
  ASSUME LedgerInv, Typed', busy.kind = "free", busy'.kind = "free", ~tombstone,
         UNCHANGED <<ledger, tombstone, answers>>,
         NEW s \in States, s.effects = disk.effects, s.version <= s.sequence,
         disk.version <= s.version, disk.sequence <= s.sequence, s.sequence < MaxSequence,
         Suspended(s)
  PROVE  LedgerInv'
<1> DEFINE p == Published(s, TRUE)
<1>1. /\ p \in States /\ p.effects = disk.effects
      /\ p.sequence = s.sequence + 1 /\ p.version = s.version + 1
      /\ s.version \in Nat /\ s.sequence \in Nat
      /\ memory \in States /\ disk \in States
      /\ ledger \in [Keys -> Decisions \cup {Undecided}]
  BY PublishedType DEF LedgerInv, Typed, TypeOK, States
<1>2. memory' = p /\ disk' = p
  BY DEF Suspended
<1> HIDE DEF p
<1>3. MaxSequence \in Nat /\ disk.version \in Nat
  BY <1>1, LedgerAssumption DEF States
<1>4. /\ p.version <= p.sequence /\ p.sequence <= MaxSequence
      /\ disk.version < p.version
  BY <1>1, <1>3
<1>5. InBounds'
  BY <1>1, <1>2, <1>3, <1>4 DEF InBounds, Ahead, States
<1>6. Locking'
  BY <1>1, <1>2, <1>5
     DEF Locking, NoneRunning, CommandHolder, CommandUncommitted, CommandCommitted, SameEffects
<1>7. \A k \in Keys : ledger[k] # Undecided => ledger[k].request.expected \in Nat
  BY <1>1, LedgerAssumption DEF Decisions
<1>8. disk'.version \in Nat /\ disk.version < disk'.version /\ disk'.effects = disk.effects
  BY <1>1, <1>2, <1>3, <1>4 DEF States
<1>9. Winners'
  BY <1>3, <1>7, <1>8 DEF LedgerInv, Storing, Winners
<1>10. Effects' /\ OneWinner' /\ Buried'
  BY <1>8 DEF LedgerInv, Storing, Effects, OneWinner, Buried
<1> QED BY <1>6, <1>9, <1>10, AnsweringKept DEF LedgerInv, Storing

LEMMA DeletionInv ==
  ASSUME LedgerInv, Deletion
  PROVE  LedgerInv'
<1>1. Typed'
  BY NextTyped DEF LedgerInv, Next
<1>2. CASE DeleteBegins \/ DeleteFails
  <2>1. busy.kind \notin {"command", "answer"}
        /\ UNCHANGED <<running, memory, disk, ledger, tombstone, busy, answers>>
    BY <1>2 DEF DeleteBegins, DeleteFails, Lifecycle, LedgerInv, Locking, CommandHolder
  <2>2. Locking'
    BY <2>1 DEF LedgerInv, Locking, InBounds, Ahead, NoneRunning, CommandHolder,
                CommandUncommitted, CommandCommitted, SameEffects
  <2> QED BY <1>1, <2>1, <2>2, StoringKept, AnsweringKept DEF LedgerInv
<1>3. CASE DeleteCommits
  <2>1. /\ busy.kind \notin {"command", "answer"}
        /\ tombstone' /\ ledger' = NoDecisions /\ disk' = New
        /\ UNCHANGED <<running, memory, busy, answers, deletion>>
    BY <1>3 DEF DeleteCommits, LedgerInv, Locking, CommandHolder
  <2>2. Locking'
    BY <2>1, NewType, LedgerAssumption
       DEF LedgerInv, Locking, InBounds, Ahead, NoneRunning, CommandHolder,
           CommandUncommitted, CommandCommitted, SameEffects
  <2>3. Storing'
    BY <2>1, NoDecisionsType DEF Storing, Winners, Effects, OneWinner, Buried, New
  <2>4. Answering'
    BY <2>1 DEF LedgerInv, Answering, Answered, Agreement
  <2> QED BY <1>1, <2>2, <2>3, <2>4 DEF LedgerInv
<1>4. CASE SuspendRefused
  <2>1. /\ busy.kind = "free" /\ ~tombstone /\ memory \in States
        /\ UNCHANGED <<running, ledger, tombstone, busy, answers>>
    BY <1>4, NobodyType DEF SuspendRefused, Serving, LedgerInv, Typed, TypeOK
  <2>2. CASE HasRoom /\ Suspended(memory)
    <3>1. /\ memory.effects = disk.effects /\ memory.version <= memory.sequence
          /\ disk.version <= memory.version /\ disk.sequence <= memory.sequence
          /\ memory.sequence < MaxSequence
      BY <2>1, <2>2 DEF LedgerInv, Locking, SameEffects, InBounds, Ahead, HasRoom
    <3> QED BY <1>1, <2>1, <2>2, <3>1, SuspendedInv
  <2>3. CASE memory' = memory /\ disk' = disk
    <3>1. Locking'
      BY <2>1, <2>3 DEF LedgerInv, Locking, InBounds, Ahead, NoneRunning, CommandHolder,
                        CommandUncommitted, CommandCommitted, SameEffects
    <3> QED BY <1>1, <2>1, <2>3, <3>1, StoringKept, AnsweringKept DEF LedgerInv
  <2>4. \/ HasRoom /\ Suspended(memory)
        \/ memory' = memory /\ disk' = disk
    BY <1>4 DEF SuspendRefused
  <2> QED BY <2>2, <2>3, <2>4
<1> QED BY <1>2, <1>3, <1>4 DEF Deletion

LEMMA RestartInv ==
  ASSUME LedgerInv, Read \/ Crash \/ Start
  PROVE  LedgerInv'
<1>1. Typed'
  BY NextTyped DEF LedgerInv, Next
<1>2. CASE Read
  <2>1. UNCHANGED <<running, memory, disk, ledger, tombstone, deletion, busy, answers>>
    BY <1>2 DEF Read
  <2>2. Locking'
    BY <2>1 DEF LedgerInv, Locking, InBounds, Ahead, NoneRunning, CommandHolder,
                CommandUncommitted, CommandCommitted, SameEffects
  <2> QED BY <1>1, <2>1, <2>2, StoringKept, AnsweringKept DEF LedgerInv
<1>3. CASE Crash
  <2>1. /\ busy'.kind = "free" /\ memory' = disk
        /\ UNCHANGED <<disk, ledger, tombstone, answers>>
    BY <1>3, NobodyType DEF Crash
  <2>2. Locking'
    BY <2>1 DEF LedgerInv, Locking, InBounds, Ahead, NoneRunning, CommandHolder,
                CommandUncommitted, CommandCommitted, SameEffects, Typed, TypeOK, States
  <2> QED BY <1>1, <2>1, <2>2, StoringKept, AnsweringKept DEF LedgerInv
<1>4. CASE Start
  <2>1. /\ busy.kind = "free" /\ running'
        /\ UNCHANGED <<ledger, tombstone, deletion, busy, answers>>
    BY <1>4 DEF Start, LedgerInv, Locking, NoneRunning
  <2>2. CASE ~tombstone /\ HasRoom /\ Suspended(disk)
    <3>1. /\ disk \in States /\ disk.version <= disk.sequence
          /\ disk.version <= disk.version /\ disk.sequence <= disk.sequence
          /\ disk.sequence < MaxSequence
      BY <2>2, LedgerAssumption
         DEF LedgerInv, Locking, InBounds, Ahead, HasRoom, Typed, TypeOK, States
    <3> QED BY <1>1, <2>1, <2>2, <3>1, SuspendedInv
  <2>3. CASE memory' = memory /\ disk' = disk
    <3>1. Locking'
      BY <2>1, <2>3 DEF LedgerInv, Locking, InBounds, Ahead, NoneRunning, CommandHolder,
                        CommandUncommitted, CommandCommitted, SameEffects
    <3> QED BY <1>1, <2>1, <2>3, <3>1, StoringKept, AnsweringKept DEF LedgerInv
  <2>4. \/ ~tombstone /\ HasRoom /\ Suspended(disk)
        \/ memory' = memory /\ disk' = disk
    BY <1>4 DEF Start
  <2> QED BY <2>2, <2>3, <2>4
<1> QED BY <1>2, <1>3, <1>4

LEMMA NextInv == LedgerInv /\ [Next]_vars => LedgerInv'
<1> SUFFICES ASSUME LedgerInv, [Next]_vars PROVE LedgerInv'
  OBVIOUS
<1>1. CASE UNCHANGED vars
  <2>1. Typed'
    BY NextTyped DEF LedgerInv
  <2> QED BY <1>1, <2>1, StoringKept, AnsweringKept
        DEF vars, LedgerInv, Locking, InBounds, Ahead, NoneRunning, CommandHolder,
            CommandUncommitted, CommandCommitted, SameEffects
<1> QED BY <1>1, ReplayInv, ApplyInv, CommitInv, ReturnInv, WriteInv, SaveInv, DeletionInv,
           RestartInv
     DEF Next, Command, Handler, Writer, WriterBegins, ControllerBegins

LEMMA SpecInv == Spec => []LedgerInv
BY InitInv, NextInv, PTL DEF Spec

\* In every reachable state a key's effects on disk are those of its decision.
THEOREM EffectsOnce == Spec => []OneEffect
<1>1. LedgerInv => OneEffect
  BY Zenon DEF LedgerInv, Storing, Effects, OneEffect, Service!OneEffect
<1> QED BY SpecInv, <1>1, PTL

\* No two answers ever given to one request disagree.
THEOREM AnswersNeverDiffer == Spec => []AnswersAgree
<1>1. LedgerInv => AnswersAgree
  BY DEF LedgerInv, Answering, Agreement, AnswersAgree, Service!AnswersAgree
<1> QED BY SpecInv, <1>1, PTL

\* No two commands bound to one state version are both applied.
THEOREM AtMostOneWins == Spec => []OneWinner
<1>1. LedgerInv => OneWinner
  BY DEF LedgerInv, Storing
<1> QED BY SpecInv, <1>1, PTL

\* Both together.
THEOREM OneAnswerEach == Spec => []OneAnswer
BY AnswersNeverDiffer, AtMostOneWins, PTL DEF OneAnswer

\* No row of a deleted session ever comes back.
THEOREM StaysBuried == Spec => []Buried
<1>1. LedgerInv => Buried
  BY DEF LedgerInv, Storing
<1> QED BY SpecInv, <1>1, PTL

-----------------------------------------------------------------------------
(***************************************************************************)
(* Without a live controller every change is written through or put back,  *)
(* so what a client has been shown is durable.                             *)
(***************************************************************************)
Durable ==
  /\ busy.kind # "controller"
  /\ busy.kind \in {"free", "answer"} /\ ~tombstone => memory = disk
  /\ busy.kind \in {"command", "writer", "saving"} /\ ~tombstone => busy.before = disk
  /\ SeenIsDurable

LEMMA DurableInit == Init => Durable
BY NobodyType, NewType DEF Init, Durable, SeenIsDurable

LEMMA DurableNext ==
  ASSUME ~live, LedgerInv, Durable, [Next]_vars
  PROVE  Durable'
<1> USE DEF Durable, SeenIsDurable
<1>1. /\ busy \in Holders /\ memory \in States /\ disk \in States /\ busy.before \in States
      /\ seen \in Nat /\ memory.sequence \in Nat /\ disk.sequence \in Nat
      /\ ~tombstone => disk.sequence <= memory.sequence
  BY HolderFields
     DEF LedgerInv, Typed, TypeOK, States, Locking, InBounds, Ahead
<1>2. ASSUME NEW r \in Requests, Replay(r) \/ Conflict(r) PROVE Durable'
  BY <1>2, <1>1, NobodyType DEF Replay, Conflict, Arrives, Serving, Shown
<1>3. ASSUME NEW r \in Requests, Apply(r) \/ Refuse(r) PROVE Durable'
  <2>1. busy.kind = "free" /\ ~tombstone /\ UNCHANGED <<disk, tombstone, seen>>
    BY <1>3, NobodyType DEF Apply, Refuse, Arrives, Serving
  <2>2. \E o, v : busy' = Held("command", r, o, v, memory)
    BY <1>3, Zenon DEF Apply, Refuse
  <2> QED BY <2>1, <2>2 DEF Held
<1>4. CASE Commit
  <2>1. busy'.kind = "answer" /\ disk' = memory /\ UNCHANGED <<memory, tombstone, seen>>
    BY <1>4, <1>1, NewKind DEF Commit
  <2> QED BY <2>1, <1>1
<1>5. CASE CommitFails \/ Return
  <2>1. busy'.kind = "free" /\ UNCHANGED <<disk, tombstone>>
    BY <1>5, NobodyType DEF CommitFails, Return
  <2> QED BY <1>5, <2>1, <1>1 DEF CommitFails, Handling, Rollback, Return, Shown
<1>6. CASE WriterBegins
  <2>1. busy.kind = "free" /\ busy'.kind = "writer" /\ busy'.before = memory
        /\ UNCHANGED <<disk, tombstone, seen>>
    BY <1>6, NobodyType DEF WriterBegins, Write, Held
  <2> QED BY <2>1
<1>7. CASE WriterChecks
  <2>1. UNCHANGED <<disk, tombstone, seen>> /\ busy.kind = "writer"
    BY <1>7 DEF WriterChecks, Writing
  <2>2. CASE deletion = "requested"
    BY <1>7, <2>1, <2>2, NobodyType DEF WriterChecks, Rollback
  <2>3. CASE deletion # "requested"
    <3>1. busy' = [busy EXCEPT !.kind = "saving"]
      BY <1>7, <2>3 DEF WriterChecks
    <3>2. busy'.kind = "saving" /\ busy'.before = busy.before
      BY <3>1, <1>1, NewKind
    <3> QED BY <2>1, <3>2
  <2> QED BY <2>2, <2>3
<1>8. CASE Saves
  <2>1. /\ busy'.kind = "free" /\ UNCHANGED <<memory, tombstone, seen>>
        /\ ~tombstone => disk' = memory
    BY <1>8, NobodyType DEF Saves, Stored
  <2> QED BY <2>1, <1>1
<1>9. CASE SaveFails
  BY <1>9, NobodyType DEF SaveFails, Rollback, Writing
<1>10. CASE ControllerBegins \/ ControllerFails
  BY <1>10 DEF ControllerBegins, ControllerFails, Writing
<1>11. CASE DeleteBegins \/ DeleteFails
  BY <1>11 DEF DeleteBegins, DeleteFails
<1>12. CASE DeleteCommits
  BY <1>12 DEF DeleteCommits
<1>13. CASE SuspendRefused
  <2>1. busy.kind = "free" /\ memory = disk /\ UNCHANGED <<tombstone, busy, seen>>
    BY <1>13, NobodyType DEF SuspendRefused, Serving
  <2>2. CASE Suspended(memory)
    <3>1. memory' = disk' /\ disk'.sequence = memory.sequence + 1
      BY <2>2, <1>1, PublishedType DEF Suspended
    <3>2. ~tombstone => seen <= disk'.sequence
      BY <1>1, <2>1, <3>1
    <3> QED BY <2>1, <3>1, <3>2
  <2>3. CASE memory' = memory /\ disk' = disk
    BY <2>1, <2>3
  <2> QED BY <1>13, <2>2, <2>3 DEF SuspendRefused
<1>14. CASE Read
  BY <1>14, <1>1, NobodyType DEF Read, Serving, Shown
<1>15. CASE Crash
  BY <1>15, <1>1, NobodyType DEF Crash
<1>16. CASE Start
  <2>1. busy.kind = "free" /\ UNCHANGED <<tombstone, busy, seen>>
    BY <1>16 DEF Start, LedgerInv, Locking, NoneRunning
  <2>2. CASE ~tombstone /\ Suspended(disk)
    <3>1. memory' = disk' /\ disk'.sequence = disk.sequence + 1
      BY <2>2, <1>1, PublishedType DEF Suspended
    <3>2. ~tombstone => seen <= disk'.sequence
      BY <1>1, <3>1
    <3> QED BY <2>1, <3>1, <3>2
  <2>3. CASE memory' = memory /\ disk' = disk
    BY <2>1, <2>3
  <2> QED BY <1>16, <2>2, <2>3 DEF Start
<1>17. CASE UNCHANGED vars
  BY <1>17 DEF vars
<1> QED
  BY <1>2, <1>3, <1>4, <1>5, <1>6, <1>7, <1>8, <1>9, <1>10, <1>11, <1>12, <1>13, <1>14,
     <1>15, <1>16, <1>17
     DEF Next, Command, Handler, Writer, Deletion

\* Whether a session has a controller is settled when it is created.
LEMMA LiveKept == [Next]_vars => live' = live
BY DEF Next, Command, Handler, Writer, Deletion, Replay, Conflict, Apply, Refuse, Commit,
       CommitFails, Return, WriterBegins, ControllerBegins, Write, WriterChecks, Saves,
       SaveFails, ControllerFails, DeleteBegins, DeleteCommits, DeleteFails,
       SuspendRefused, Read, Crash, Start, vars

\* No rollback and no crash takes back an event or a snapshot a client was
\* given, and with the lock free memory is what the store holds, unless the
\* session has a controller.
THEOREM TheStoreKeepsUp == Spec => []StoreKeepsUp
<1> DEFINE Inv == ~live => Durable
<1>1. Init => Inv
  BY DurableInit
<1>2. LedgerInv /\ Inv /\ [Next]_vars => Inv'
  BY DurableNext, LiveKept
<1>3. Inv => StoreKeepsUp
  BY NobodyType DEF Durable, StoreKeepsUp, WriteThrough
<1> QED
  <2> HIDE DEF Inv
  <2> QED BY SpecInv, <1>1, <1>2, <1>3, PTL DEF Spec

-----------------------------------------------------------------------------
(***************************************************************************)
(* The refinement.  A command is decided when its transaction commits and  *)
(* answered when its handler returns; every other step of the handler, the *)
(* writers, the crash and the restart leaves what the service promises     *)
(* untouched.                                                              *)
(***************************************************************************)
Observed == <<ledger, disk.effects, tombstone, answers>>

LEMMA CommitDecides ==
  ASSUME LedgerInv, Commit
  PROVE  \E r \in Requests : Service!Decide(r)
<1> DEFINE r == busy.request
           k == busy.request.key
<1>1. /\ busy \in Holders /\ busy.kind = "command" /\ ~tombstone
      /\ r \in Requests /\ k \in Keys
      /\ busy.outcome \in {"applied", "rejected"} /\ busy.version \in Nat
      /\ ledger[k] = Undecided
      /\ ledger \in [Keys -> Decisions \cup {Undecided}]
  BY HolderFields, LedgerAssumption
     DEF Commit, Handling, LedgerInv, Typed, TypeOK, Locking, CommandUncommitted
<1>2. busy.version \in 0 .. MaxSequence
  BY <1>1, LedgerAssumption DEF LedgerInv, Locking, CommandHolder
<1>3. /\ ledger' = [ledger EXCEPT ![k] = [request |-> r, outcome |-> busy.outcome,
                                          version |-> busy.version]]
      /\ disk' = memory /\ UNCHANGED <<tombstone, answers>>
  BY DEF Commit, Entered, Decision
<1>4. CASE busy.outcome = "applied"
  <2>1. disk'.effects = [disk.effects EXCEPT ![k] = @ + 1]
    BY <1>1, <1>3, <1>4 DEF LedgerInv, Locking, CommandUncommitted
  <2>2. Service!Decide(r)
    BY <1>1, <1>2, <1>3, <1>4, <2>1 DEF Service!Decide
  <2> QED BY <1>1, <2>2
<1>5. CASE busy.outcome = "rejected"
  <2>1. disk'.effects = disk.effects
    BY <1>1, <1>3, <1>5 DEF LedgerInv, Locking, CommandUncommitted
  <2>2. Service!Decide(r)
    BY <1>1, <1>2, <1>3, <1>5, <2>1 DEF Service!Decide
  <2> QED BY <1>1, <2>2
<1> QED BY <1>1, <1>4, <1>5

LEMMA ReplyAnswers ==
  ASSUME LedgerInv, NEW r \in Requests, Replay(r) \/ Conflict(r)
  PROVE  Service!Answer(r)
<1>1. CASE Replay(r)
  BY <1>1 DEF Replay, Arrives, Serving, Service!Answer
<1>2. CASE Conflict(r)
  <2>1. memory.version \in 0 .. MaxSequence
    BY LedgerAssumption DEF LedgerInv, Locking, InBounds, Ahead, Typed, TypeOK, States
  <2> QED BY <1>2, <2>1 DEF Conflict, Arrives, Serving, Service!Answer
<1> QED BY <1>1, <1>2

LEMMA ReturnAnswers ==
  ASSUME LedgerInv, Return
  PROVE  \E r \in Requests : Service!Answer(r)
<1>1. /\ busy \in Holders /\ busy.kind = "answer" /\ ~tombstone
      /\ busy.request \in Requests
      /\ ledger[busy.request.key] = Decision(busy)
  BY DEF Return, LedgerInv, Typed, TypeOK, Locking, CommandHolder, CommandCommitted
<1>2. Decision(busy) # Undecided
  BY <1>1, DecisionType
<1>3. Service!Answer(busy.request)
  BY <1>1, <1>2 DEF Return, Decision, Service!Answer
<1> QED BY <1>1, <1>3

LEMMA StepRefines ==
  ASSUME LedgerInv, [Next]_vars
  PROVE  [Service!ANext]_(Service!avars)
<1> SUFFICES ASSUME ~UNCHANGED Observed PROVE Service!ANext
  BY DEF Service!avars, Observed
<1>1. CASE Commit
  BY <1>1, CommitDecides DEF Service!ANext
<1>2. ASSUME NEW r \in Requests, Replay(r) \/ Conflict(r) PROVE Service!ANext
  BY <1>2, ReplyAnswers DEF Service!ANext
<1>3. CASE Return
  BY <1>3, ReturnAnswers DEF Service!ANext
<1>4. CASE DeleteCommits
  BY <1>4 DEF DeleteCommits, NoDecisions, New, Service!ANext, Service!Forget
<1>5. CASE Saves
  <2>1. disk'.effects = disk.effects
    BY <1>5 DEF Saves, Stored, Writing, LedgerInv, Locking, SameEffects
  <2> QED BY <1>5, <2>1 DEF Saves, Observed
<1>6. CASE SuspendRefused
  <2>1. busy.kind = "free" /\ ~tombstone /\ memory \in States
    BY <1>6, NobodyType DEF SuspendRefused, Serving, LedgerInv, Typed, TypeOK
  <2>2. Suspended(memory) => disk'.effects = disk.effects
    BY <2>1, PublishedType DEF Suspended, LedgerInv, Locking, SameEffects
  <2>3. disk'.effects = disk.effects
    BY <1>6, <2>2 DEF SuspendRefused
  <2> QED BY <1>6, <2>3 DEF SuspendRefused, Observed
<1>7. CASE Start
  <2>1. Suspended(disk) => disk'.effects = disk.effects
    BY PublishedType DEF Suspended, LedgerInv, Typed, TypeOK
  <2>2. disk'.effects = disk.effects
    BY <1>7, <2>1 DEF Start
  <2> QED BY <1>7, <2>2 DEF Start, Observed
<1>8. ASSUME \/ \E r \in Requests : Apply(r) \/ Refuse(r)
             \/ CommitFails \/ WriterBegins \/ ControllerBegins \/ WriterChecks
             \/ SaveFails \/ ControllerFails
             \/ DeleteBegins \/ DeleteFails \/ Read \/ Crash \/ UNCHANGED vars
      PROVE  UNCHANGED Observed
  BY <1>8 DEF Apply, Refuse, CommitFails, WriterBegins, ControllerBegins, Write, WriterChecks,
              SaveFails, ControllerFails, DeleteBegins, DeleteFails, Read, Crash, vars, Observed
<1> QED
  BY <1>1, <1>2, <1>3, <1>4, <1>5, <1>6, <1>7, <1>8
     DEF Next, Command, Handler, Writer, Deletion

\* Handler, store, rollback, deletion, crash and restart together implement the
\* command service that contracts/PA_SHARED_INTERFACES_V1.md promises: every
\* behaviour of this module is, seen through the store, a behaviour of ExactlyOnce.
THEOREM KeepsThePromise == Spec => Promise
<1>1. Init => Service!AInit
  BY DEF Init, New, NoDecisions, Service!AInit
<1>2. LedgerInv /\ [Next]_vars => [Service!ANext]_(Service!avars)
  BY StepRefines
<1> QED BY SpecInv, <1>1, <1>2, PTL DEF Spec, Promise, Service!ASpec
=============================================================================
