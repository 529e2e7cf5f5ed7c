---------------------------- MODULE EventStream ----------------------------
(***************************************************************************)
(* The browser's event client (apps/ui/runtime-adapter.js) over the event  *)
(* stream of its sessions (apps/api/transport.py, session_events;          *)
(* roles/pa/session.py, events_after): requests, a socket and timers whose *)
(* answers come in any order, late, or not at all, while the operator      *)
(* opens, starts, commands and deletes sessions.                           *)
(*                                                                         *)
(* A step is what JavaScript runs between two awaits, what the service     *)
(* does under a session lock, or a fault of what lies between.  A call is  *)
(* an async function suspended at an await; what the function has read     *)
(* before is in the call.  A socket the client has replaced or closed is   *)
(* gone: its callbacks compare it with this.socket first.  A session's     *)
(* state is its event_sequence: the version never moves without it, so     *)
(* that of two states the later has the larger one.  The probe beside the  *)
(* snapshot is left out, but not the waits for it; what is published is    *)
(* stored (CommandLedger has what is not).                                 *)
(***************************************************************************)
EXTENDS Integers, Sequences

CONSTANTS
  Sessions,     \* session identities
  None,         \* no session
  Existing,     \* the sessions there are at first
  Retention,    \* event_retention
  Asks,         \* what the operator does: "open", "leave", "command", "delete",
                \* "create"
  Losable,      \* the tasks whose request may fail
  MaxAsks, MaxCalls, MaxFaults, MaxSequence   \* bounds of a run

ASSUME StreamAssumption ==
  /\ None \notin Sessions
  /\ Existing \subseteq Sessions
  /\ Retention \in Nat \ {0}
  /\ Losable \subseteq {"open", "openProbe", "event", "recover", "recoverProbe",
                       "command", "delete", "create", "stop"}
  /\ {MaxAsks, MaxCalls, MaxFaults, MaxSequence} \subseteq Nat

VARIABLES
  server,  \* each session: [state, seq, log]
  adapter, \* the RuntimeAdapter's fields, and what it told onConnection last
  socket,  \* its socket with what is on the way to it, or NoSocket
  calls,   \* the suspended calls and timers, in MaxCalls places
  used     \* [asks, faults] so far, and of what failed, for the properties: the
           \* visits whose opening, and whose refresh after the last event, did

vars == <<server, adapter, socket, calls, used>>

NoView == [session |-> None, seq |-> 0]
NoSocket == [phase |-> "none", at |-> 0, inbox |-> <<>>]
Waiting == [kind |-> "waiting", seq |-> 0]
Idle == [task |-> "idle", session |-> None, generation |-> 0, known |-> 0, from |-> None,
         answer |-> Waiting]
Call(task, session, generation, known) ==
  [Idle EXCEPT !.task = task, !.session = session, !.generation = generation, !.known = known]
Places == DOMAIN calls
Free(i) == calls[i] = Idle /\ \A j \in 1..(i - 1) : calls[j] # Idle

Init ==
  /\ server = [s \in Sessions |->
                 [state |-> IF s \in Existing THEN "live" ELSE "none",
                  seq |-> 0, log |-> <<>>]]
  /\ adapter = [active |-> None, generation |-> 0, view |-> NoView, cursor |-> 0,
                timer |-> 0, stopped |-> FALSE, connected |-> FALSE, forgotten |-> {}]
  /\ socket = NoSocket
  /\ calls = [i \in 1..MaxCalls |-> Idle]
  /\ used = [asks |-> 0, faults |-> 0, opening |-> 0, refresh |-> 0]

-----------------------------------------------------------------------------
(* The adapter's operations on its own fields.                             *)

Larger(m, n) == IF m > n THEN m ELSE n

\* Mutated: whatever answer comes last is shown.
ShownAnyway(a, s, seq) ==
  IF s \in a.forgotten \/ s # a.active THEN a
  ELSE [a EXCEPT !.view = [session |-> s, seq |-> seq], !.cursor = Larger(@, seq)]

\* acceptSnapshot: no other session, no deleted one, nothing older than the view.
Shown(a, s, seq) ==
  IF s \in a.forgotten \/ s # a.active \/ seq < a.view.seq THEN a
  ELSE [a EXCEPT !.view = [session |-> s, seq |-> seq], !.cursor = Larger(@, seq)]

Current(a, c) == c.session = a.active /\ c.generation = a.generation

Activated(a, s) ==
  [a EXCEPT !.generation = @ + 1, !.active = s, !.cursor = 0, !.view = NoView,
            !.stopped = FALSE, !.connected = FALSE]

\* clearSession of the active session; stopEvents is part of it.
Cleared(a) ==
  [a EXCEPT !.generation = @ + 1, !.active = None, !.view = NoView, !.cursor = 0,
            !.stopped = TRUE, !.connected = FALSE]

\* stopEvents; the socket that closes finds nothing to do.
StopEvents(a) ==
  /\ adapter' = [a EXCEPT !.stopped = TRUE, !.connected = FALSE]
  /\ socket' = NoSocket

\* clearTimeout knows the timer that was set last; those of an earlier
\* generation that it misses find nothing to do.
Untimed(cs) ==
  [i \in DOMAIN cs |-> IF i = adapter.timer /\ cs[i].task = "timer" THEN Idle ELSE cs[i]]

\* connect asks for what came after the given cursor.
Connect(a, s, cursor) ==
  IF s \in a.forgotten \/ s # a.active THEN adapter' = a /\ UNCHANGED socket
  ELSE /\ adapter' = [a EXCEPT !.stopped = FALSE, !.cursor = Larger(@, cursor)]
       /\ socket' = [phase |-> "connecting", at |-> cursor, inbox |-> <<>>]

Becomes(i, call) == calls' = [calls EXCEPT ![i] = call]
Ends(i) == Becomes(i, Idle)
Begins(call) == \E i \in Places : Free(i) /\ Becomes(i, call)

-----------------------------------------------------------------------------
(* The service: what it publishes, stores and answers.                     *)

\* Mutated: nothing is dropped.
Whole(q, n) == q

Last(q, n) == IF Len(q) > n THEN SubSeq(q, Len(q) - n + 1, Len(q)) ELSE q

\* _transition (a snapshot event) or _append_event (a frame, an incident, a
\* verification).
Published(r, full) ==
  [r EXCEPT !.seq = @ + 1,
            !.log = Last(Append(@, [seq |-> r.seq + 1, full |-> full]), Retention)]

Exists(s) == server[s].state \in {"live", "stopped"}
HasRoom(s) == server[s].seq < MaxSequence

Publish(s) ==
  /\ server[s].state = "live" /\ HasRoom(s)
  /\ \E full \in BOOLEAN : server' = [server EXCEPT ![s] = Published(@, full)]
  /\ UNCHANGED <<adapter, socket, calls, used>>

Answers(i, kind, r) ==
  Becomes(i, [calls[i] EXCEPT !.answer = [kind |-> kind, seq |-> r.seq]])
Asked(i) == calls[i].task \notin {"idle", "timer"} /\ calls[i].answer = Waiting

\* GET of the session or of its probe, and a command, which may have an effect;
\* a refused one is answered with a snapshot too.
Answer(i) ==
  LET c == calls[i] IN
  /\ Asked(i) /\ c.task \notin {"delete", "create", "stop"}
  /\ IF ~Exists(c.session)
     THEN Answers(i, "missing", server[c.session]) /\ UNCHANGED server
     ELSE \E r \in {server[c.session]} \cup
                   (IF c.task = "command" /\ HasRoom(c.session)
                    THEN {Published(server[c.session], TRUE)} ELSE {}) :
            Answers(i, "done", r) /\ server' = [server EXCEPT ![c.session] = r]
  /\ UNCHANGED <<adapter, socket, used>>

\* delete_session drops the session with what it retains.
Ended(r) == [r EXCEPT !.state = "deleted", !.log = <<>>]

AnswerDelete(i) ==
  LET c == calls[i] IN
  /\ Asked(i) /\ c.task = "delete"
  /\ server' = [server EXCEPT ![c.session] = Ended(@)]
  /\ Answers(i, "done", server[c.session])
  /\ UNCHANGED <<adapter, socket, used>>

AnswerCreate(i) ==
  /\ Asked(i) /\ calls[i].task = "create"
  /\ \E s \in Sessions :
       /\ server[s].state = "none"
       /\ server' = [server EXCEPT ![s].state = "live"]
       /\ Becomes(i, [calls[i] EXCEPT !.session = s,
                                      !.answer = [kind |-> "done", seq |-> 0]])
  /\ UNCHANGED <<adapter, socket, used>>

\* A stop bound to the state it was told, or a conflict and the state there is.
AnswerStop(i) ==
  LET c == calls[i] IN
  /\ Asked(i) /\ c.task = "stop"
  /\ \/ /\ server[c.session].state = "deleted"
        /\ Answers(i, "missing", server[c.session])
        /\ UNCHANGED server
     \/ /\ server[c.session].state # "deleted"
        /\ server[c.session].seq # c.known
        /\ Answers(i, "conflict", server[c.session])
        /\ UNCHANGED server
     \/ /\ server[c.session].state # "deleted"
        /\ Answers(i, "done", server[c.session])
        /\ server' = [server EXCEPT ![c.session] =
                        [Published(@, TRUE) EXCEPT !.state = "stopped"]]
  /\ UNCHANGED <<adapter, socket, used>>

\* A request that fails, before or after it was served.
Lost(i) ==
  LET c == calls[i]
      Mark(task, visit) == IF c.task = task /\ Current(adapter, c) THEN c.generation ELSE visit
  IN
  /\ used.faults < MaxFaults
  /\ c.task \in Losable
  /\ Answers(i, "failed", [seq |-> 0])
  /\ used' = [used EXCEPT !.faults = @ + 1, !.opening = Mark("open", @),
                          !.refresh = Mark("event", @)]
  /\ UNCHANGED <<server, adapter, socket>>

\* Another browser deletes the session.
DeletedElsewhere(s) ==
  /\ Exists(s)
  /\ used.faults < MaxFaults
  /\ server' = [server EXCEPT ![s] = Ended(@)]
  /\ used' = [used EXCEPT !.faults = @ + 1]
  /\ UNCHANGED <<adapter, socket, calls>>

\* session_events: no session, a cursor from the future, or an open stream.
Accept ==
  LET r == server[adapter.active] IN
  /\ socket.phase = "connecting"
  /\ socket' = [socket EXCEPT !.phase = IF ~Exists(adapter.active) THEN "gone"
                                        ELSE IF socket.at > r.seq THEN "broken" ELSE "open"]
  /\ adapter' = [adapter EXCEPT !.connected = @ \/ socket'.phase = "open"]
  /\ UNCHANGED <<server, calls, used>>

\* What is retained of the events after a position; their numbers have no gaps.
After(r, at) == Last(r.log, r.seq - at)
Missed(r) == Len(r.log) > 0 /\ socket.at < r.log[1].seq - 1

\* connect_events reads what is retained after the stream's position; when the
\* position is no longer retained, a snapshot published for it.
Poll ==
  LET s == adapter.active
      r == IF Missed(server[s]) THEN Published(server[s], TRUE) ELSE server[s]
      batch == IF Missed(server[s]) THEN <<r.log[Len(r.log)]>> ELSE After(server[s], socket.at)
  IN
  /\ socket.phase = "open"
  /\ IF ~Exists(s) THEN socket' = [socket EXCEPT !.phase = "gone"] /\ UNCHANGED server
     ELSE /\ batch # <<>>
          /\ server' = [server EXCEPT ![s] = r]
          /\ socket' = [socket EXCEPT !.at = batch[Len(batch)].seq, !.inbox = @ \o batch]
  /\ UNCHANGED <<adapter, calls, used>>

Break ==
  /\ socket.phase \in {"connecting", "open"}
  /\ used.faults < MaxFaults
  /\ socket' = [socket EXCEPT !.phase = "broken", !.inbox = <<>>]
  /\ used' = [used EXCEPT !.faults = @ + 1]
  /\ UNCHANGED <<server, adapter, calls>>

-----------------------------------------------------------------------------
(* The socket's callbacks.                                                 *)

\* An event is taken up: what failed after the one before is made good.
EventTaken == [used EXCEPT !.refresh = 0]

\* handleEvent: duplicates are dropped, a gap is recovered from, a snapshot is
\* shown, and for any other event the session is asked for again.
Message ==
  LET e == Head(socket.inbox)
      s == adapter.active
      g == adapter.generation
      next == [adapter EXCEPT !.cursor = e.seq]
  IN
  /\ socket.inbox # <<>>
  /\ socket' = [socket EXCEPT !.inbox = Tail(@)]
  /\ \/ /\ e.seq <= adapter.cursor
        /\ UNCHANGED <<adapter, calls, used>>
     \/ /\ e.seq > adapter.cursor /\ e.seq # adapter.cursor + 1
        /\ adapter' = [adapter EXCEPT !.connected = FALSE]
        /\ Begins(Call("recover", s, g, 0))
        /\ UNCHANGED used
     \/ /\ e.seq = adapter.cursor + 1 /\ e.full
        /\ adapter' = Shown(next, s, e.seq)
        /\ UNCHANGED calls
        /\ used' = EventTaken
     \/ /\ e.seq = adapter.cursor + 1 /\ ~e.full
        /\ adapter' = next
        /\ Begins(Call("event", s, g, 0))
        /\ used' = EventTaken
  /\ UNCHANGED server

\* Mutated: a stream that ends is left alone.
ClosedQuietly ==
  /\ socket.inbox = <<>> /\ socket.phase \in {"broken", "gone"}
  /\ socket' = NoSocket
  /\ adapter' = IF socket.phase = "gone" THEN Cleared(adapter)
                ELSE [adapter EXCEPT !.connected = FALSE]
  /\ UNCHANGED <<server, calls, used>>

\* onclose: 4404 clears the session, anything else is tried again later.
Closed ==
  /\ socket.inbox = <<>> /\ socket.phase \in {"broken", "gone"}
  /\ socket' = NoSocket
  /\ IF socket.phase = "gone" THEN adapter' = Cleared(adapter) /\ UNCHANGED calls
     ELSE \E i \in Places :
            /\ Free(i)
            /\ adapter' = [adapter EXCEPT !.connected = FALSE, !.timer = i]
            /\ Becomes(i, Call("timer", adapter.active, adapter.generation, 0))
  /\ UNCHANGED <<server, used>>

-----------------------------------------------------------------------------
(* What the calls do when their answers are there.                         *)

Ready(i, task) == calls[i].task = task /\ calls[i].answer # Waiting
Done(i) == calls[i].answer.kind = "done"
Seen(a, i) == Shown(a, calls[i].session, calls[i].answer.seq)

\* The catch clause of openSession.
OpenFails(i) ==
  IF adapter.active = calls[i].session
  THEN StopEvents(adapter) /\ calls' = Untimed([calls EXCEPT ![i] = Idle])
  ELSE Ends(i) /\ UNCHANGED <<adapter, socket>>

\* openSession: its refresh, its probe, its stream.
Opened(i) ==
  LET c == calls[i]
      shown == Seen(adapter, i)
  IN
  /\ Ready(i, "open")
  /\ IF Done(i) /\ Current(adapter, c)
     THEN /\ adapter' = shown
          /\ Becomes(i, Call("openProbe", c.session, adapter.generation, shown.view.seq))
          /\ UNCHANGED socket
     ELSE OpenFails(i)
  /\ UNCHANGED <<server, used>>

OpenedProbe(i) ==
  LET c == calls[i] IN
  /\ Ready(i, "openProbe")
  /\ IF Done(i)
     THEN Connect(adapter, c.session, c.known) /\ Ends(i)
     ELSE OpenFails(i)
  /\ UNCHANGED <<server, used>>

\* The rest of handleEvent after its refresh, which a failure ends.
Refreshed(i) ==
  /\ Ready(i, "event")
  /\ Ends(i)
  /\ adapter' = IF Done(i) /\ Current(adapter, calls[i]) THEN Seen(adapter, i) ELSE adapter
  /\ UNCHANGED <<server, socket, used>>

Given(c) == adapter.stopped \/ ~Current(adapter, c)

\* Mutated: recovery gives up when it fails.
GiveUp(i) == Ends(i) /\ adapter' = [adapter EXCEPT !.connected = FALSE]

\* The catch clause of recover: later again, unless the session was left.
TryLater(i) ==
  IF Given(calls[i]) THEN Ends(i) /\ UNCHANGED adapter
  ELSE /\ adapter' = [adapter EXCEPT !.connected = FALSE, !.timer = i]
       /\ Becomes(i, Call("timer", calls[i].session, calls[i].generation, 0))

\* recover, once a timer fires,
TimerFires(i) ==
  LET c == calls[i] IN
  /\ c.task = "timer"
  /\ IF Given(c) THEN Ends(i) /\ UNCHANGED adapter
     ELSE /\ adapter' = [adapter EXCEPT !.connected = FALSE]
          /\ Becomes(i, Call("recover", c.session, c.generation, 0))
  /\ UNCHANGED <<server, socket, used>>

\* after its refresh,
Recovered(i) ==
  LET c == calls[i] IN
  /\ Ready(i, "recover")
  /\ IF ~Done(i) THEN TryLater(i)
     ELSE /\ adapter' = IF Current(adapter, c) THEN Seen(adapter, i) ELSE adapter
          /\ IF Given(c) THEN Ends(i)
             ELSE Becomes(i, Call("recoverProbe", c.session, c.generation, 0))
  /\ UNCHANGED <<server, socket, used>>

\* and after its probe.
RecoveredProbe(i) ==
  LET c == calls[i] IN
  /\ Ready(i, "recoverProbe")
  /\ IF ~Done(i) THEN TryLater(i) /\ UNCHANGED socket
     ELSE /\ Ends(i)
          /\ IF Given(c) THEN UNCHANGED <<adapter, socket>> ELSE Connect(adapter, c.session, adapter.cursor)
  /\ UNCHANGED <<server, used>>

\* command and requestProbe: an answer of this visit, applied or refused, brings
\* a snapshot.
Commanded(i) ==
  /\ Ready(i, "command")
  /\ Ends(i)
  /\ adapter' = IF Done(i) /\ calls[i].generation = adapter.generation
                THEN Seen(adapter, i) ELSE adapter
  /\ UNCHANGED <<server, socket, used>>

\* deleteSession: only a confirmed deletion is remembered.
Deleted(i) ==
  LET c == calls[i]
      a == [adapter EXCEPT !.forgotten = @ \cup {c.session}]
  IN
  /\ Ready(i, "delete")
  /\ Ends(i)
  /\ IF ~Done(i) THEN UNCHANGED <<adapter, socket>>
     ELSE IF adapter.active = c.session THEN adapter' = Cleared(a) /\ socket' = NoSocket
     ELSE adapter' = a /\ UNCHANGED socket
  /\ UNCHANGED <<server, used>>

\* The operator has turned from the session the new one was to replace.
LeftMeanwhile(c) ==
  /\ c.from # None
  /\ \/ adapter.active # c.from
     \/ adapter.generation # c.generation
     \/ c.from \in adapter.forgotten

\* createLiveReferenceSession adopts the new session, or stops it again.
Created(i) ==
  LET c == calls[i]
      shown == Seen(Activated(adapter, c.session), i)
  IN
  /\ Ready(i, "create")
  /\ IF ~Done(i) THEN Ends(i) /\ UNCHANGED <<adapter, socket>>
     ELSE IF LeftMeanwhile(c)
     THEN /\ Becomes(i, Call("stop", c.session, 0, c.answer.seq))
          /\ UNCHANGED <<adapter, socket>>
     ELSE Connect(shown, c.session, c.answer.seq) /\ Ends(i)
  /\ UNCHANGED <<server, used>>

\* Mutated: a conflict ends the attempt to stop.
StopOnce(i) == Ends(i)

\* stopUnadoptedSession: after a conflict it is tried again, thrice.
StopAgain(i) ==
  LET c == calls[i] IN
  IF c.answer.kind = "conflict" /\ c.generation < 3
  THEN Becomes(i, Call("stop", c.session, c.generation + 1, c.answer.seq))
  ELSE Ends(i)

Unadopted(i) ==
  /\ Ready(i, "stop")
  /\ StopAgain(i)
  /\ UNCHANGED <<server, adapter, socket, used>>

-----------------------------------------------------------------------------
(* What the operator does (apps/ui/app.js).                                *)

May(what) ==
  /\ what \in Asks
  /\ used.asks < MaxAsks
  /\ used' = [used EXCEPT !.asks = @ + 1]
  /\ UNCHANGED server

\* A session whose creation has been answered.
Known(s) ==
  /\ server[s].state # "none"
  /\ \A i \in Places : calls[i].task = "create" => calls[i].session # s

\* openSession; a deleted session is refused.
Open(s) ==
  /\ May("open") /\ Known(s)
  /\ s \notin adapter.forgotten
  /\ adapter' = Activated(adapter, s)
  /\ socket' = NoSocket
  /\ Begins(Call("open", s, adapter'.generation, 0))

\* openFixture turns to an example.
Leave ==
  /\ May("leave")
  /\ StopEvents(adapter)
  /\ calls' = Untimed(calls)

\* command and requestProbe, from the view.
Command ==
  /\ May("command")
  /\ adapter.view # NoView
  /\ Begins(Call("command", adapter.active, adapter.generation, 0))
  /\ UNCHANGED <<adapter, socket>>

\* A second deletion of the session waits for the first.
Delete(s) ==
  /\ May("delete") /\ Known(s)
  /\ \A i \in Places : calls[i].task = "delete" => calls[i].session # s
  /\ Begins(Call("delete", s, 0, 0))
  /\ UNCHANGED <<adapter, socket>>

\* createLiveReferenceSession, in place of a session or (setup) of none.
Create ==
  /\ May("create")
  /\ \E from \in {adapter.active, None} :
       Begins([Call("create", None, adapter.generation, 0) EXCEPT !.from = from])
  /\ UNCHANGED <<adapter, socket>>

Operator ==
  \/ Leave \/ Command \/ Create
  \/ \E s \in Sessions : Open(s) \/ Delete(s)

Serve(i) == Answer(i) \/ AnswerDelete(i) \/ AnswerCreate(i) \/ AnswerStop(i)

Goes(i) ==
  \/ TimerFires(i) \/ Opened(i) \/ OpenedProbe(i) \/ Refreshed(i)
  \/ Recovered(i) \/ RecoveredProbe(i) \/ Commanded(i) \/ Deleted(i)
  \/ Created(i) \/ Unadopted(i)

Next ==
  \/ Operator \/ Accept \/ Poll \/ Break \/ Message \/ Closed
  \/ \E s \in Sessions : Publish(s) \/ DeletedElsewhere(s)
  \/ \E i \in Places : Serve(i) \/ Lost(i) \/ Goes(i)

\* What is asked is answered, what has arrived is taken up, timers fire; the
\* operator, the sessions and the faults owe nothing.
Fairness ==
  /\ WF_vars(Accept \/ Poll)
  /\ WF_vars(Message \/ Closed)
  /\ \A i \in 1..MaxCalls : WF_vars(Serve(i) \/ Goes(i))

Spec == Init /\ [][Next]_vars /\ Fairness

-----------------------------------------------------------------------------
(* Properties                                                              *)

CallRecord ==
  [task : {"idle", "timer", "open", "openProbe", "event", "recover", "recoverProbe",
           "command", "delete", "create", "stop"},
   session : Sessions \cup {None}, generation : Nat, known : Nat,
   from : Sessions \cup {None},
   answer : [kind : {"waiting", "done", "missing", "conflict", "failed"}, seq : Nat]]

TypeOK ==
  /\ server \in [Sessions -> [state : {"none", "live", "stopped", "deleted"}, seq : Nat,
                              log : Seq([seq : Nat, full : BOOLEAN])]]
  /\ \A s \in Sessions : Len(server[s].log) <= Retention
  /\ adapter \in [active : Sessions \cup {None}, generation : Nat, cursor : Nat,
                  view : [session : Sessions \cup {None}, seq : Nat],
                  timer : Nat, stopped : BOOLEAN, connected : BOOLEAN,
                  forgotten : SUBSET Sessions]
  /\ socket \in [phase : {"none", "connecting", "open", "broken", "gone"}, at : Nat,
                 inbox : Seq([seq : Nat, full : BOOLEAN])]
  /\ calls \in [1..MaxCalls -> CallRecord]
  /\ used \in [asks : 0..MaxAsks, faults : 0..MaxFaults, opening : Nat, refresh : Nat]

\* The screen follows one session, shows states it really had, never an older
\* one after a newer, and never a deleted one, whatever answers come late.
Screen ==
  INSTANCE Follower WITH
    truth <- [s \in Sessions |-> server[s].seq],
    following <- adapter.active,
    visit <- adapter.generation,
    shown <- [session |-> adapter.view.session, seq |-> adapter.view.seq],
    forgotten <- adapter.forgotten
Follows == Screen!FSpec

\* A session on the screen that is there and whose stream nobody has stopped (the
\* operator by leaving it, the adapter when an opening fails, runtime-adapter.js:166).
Watched == adapter.active # None /\ ~adapter.stopped /\ Exists(adapter.active)

\* A call of this visit under way for one of these tasks.
UnderWay(tasks) ==
  \E i \in Places : Current(adapter, calls[i]) /\ calls[i].task \in tasks

\* The adapter asks for a session once when it opens it and once after an event; a
\* request that fails then is not repeated.
NotRepeated == adapter.generation \in {used.opening, used.refresh}

ShowsAllTaken == adapter.view.session = adapter.active /\ adapter.view.seq = adapter.cursor

\* Whatever request fails and whatever comes late: a session that is watched and has
\* no stream has a call of this visit under way that will connect one; and while the
\* view is behind the events taken up a refresh is under way, unless one has failed
\* since the last event, or this visit's opening has: those are not repeated.
RepairInHand ==
  Watched =>
    /\ \/ socket.phase # "none"
       \/ UnderWay({"open", "openProbe", "timer", "recover", "recoverProbe"})
    /\ ShowsAllTaken \/ UnderWay({"open", "event"}) \/ NotRepeated

\* The cleanup of a session nobody wants leaves it capturing only when the
\* session has changed under each of its four attempts, or a request has failed.
UnusedIsStopped ==
  [][\A i \in Places :
       (/\ calls[i].task = "stop" /\ calls'[i].task # "stop"
        /\ calls[i].generation < 3 /\ calls[i].answer.kind # "failed")
         => server[calls[i].session].state # "live"]_vars

\* Over an open stream everything the session has published has been taken up.
UpToDate ==
  /\ socket.phase = "open" /\ socket.inbox = <<>>
  /\ adapter.cursor = server[adapter.active].seq

\* Whatever requests fail and whatever is missed, a session that is watched for ever
\* gets an open stream again and takes up all it publishes; and it is shown as it is,
\* unless a refresh has failed since the last event, or the visit's opening has.
CatchesUp == []<>(Watched => UpToDate /\ (ShowsAllTaken \/ NotRepeated))

-----------------------------------------------------------------------------
(* What a document says and the code does not do.                          *)

\* docs/implementation/CHECKPOINT_1_INTEGRATION.md:70-73 has "frame-only event
\* refresh" among the corrections that "are resolved".  The refresh after a frame, an
\* incident or a verification is asked for once (runtime-adapter.js:376, 382): when it
\* fails, the view stays behind the events taken up, and nothing is under way that
\* would bring it.
ViewIsRefreshed ==
  Watched /\ used.opening # adapter.generation =>
    ShowsAllTaken \/ UnderWay({"open", "event", "recover"})
=============================================================================
