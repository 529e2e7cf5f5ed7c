------------------------- MODULE EventStreamProofs -------------------------
(***************************************************************************)
(* What the browser's event client keeps, for any sessions, operations,    *)
(* calls, faults and retention.  What a call holds was so when the service *)
(* answered it, and the service only goes on (Grown); the view is behind   *)
(* what was taken up only while a call is under way that brings it, or     *)
(* after one has failed; and a session on the screen has a stream or a     *)
(* call that opens one.                                                    *)
(***************************************************************************)
EXTENDS EventStream, SequenceTheorems, TLAPS

Event == [seq : Nat, full : BOOLEAN]
States == {"none", "live", "stopped", "deleted"}
SessionRecord == [state : States, seq : Nat, log : Seq(Event)]
Server == [Sessions -> SessionRecord]
Named == Sessions \cup {None}
View == [session : Named, seq : Nat]
Adapter == [active : Named, generation : Nat, cursor : Nat, view : View, timer : Nat,
            stopped : BOOLEAN, connected : BOOLEAN, forgotten : SUBSET Sessions]
Socket == [phase : {"none", "connecting", "open", "broken", "gone"}, at : Nat,
           inbox : Seq(Event)]
Reply == [kind : {"waiting", "done", "missing", "conflict", "failed"}, seq : Nat]
Calls == [1..MaxCalls -> CallRecord]
Counts == [asks : 0..MaxAsks, faults : 0..MaxFaults, opening : Nat, refresh : Nat]
Requests == {"open", "openProbe", "event", "recover", "recoverProbe", "command", "delete",
             "create", "stop"}

There(r) == r.state \in {"live", "stopped"}

\* At most Retention events are retained, the last ones, without a gap.
Retained(r) ==
  /\ Len(r.log) <= Retention
  /\ \A k \in 1..Len(r.log) : r.log[k].seq = r.seq - Len(r.log) + k

\* What the adapter holds is of the session on the screen, and was so once.
Screened(sv, a) ==
  /\ a.view.seq <= a.cursor
  /\ a.view = NoView \/ a.view.session = a.active
  /\ a.active = None => a.view = NoView
  /\ a.active # None =>
       /\ sv[a.active].state # "none"
       /\ a.active \notin a.forgotten
       /\ a.cursor <= sv[a.active].seq
  /\ \A s \in a.forgotten : sv[s].state = "deleted"

\* The stream is of that session and delivers what the session has published.
Streamed(sv, a, k) ==
  /\ k.phase = "none" => k.inbox = <<>>
  /\ k.phase # "none" =>
       /\ a.active # None
       /\ k.at <= sv[a.active].seq
       /\ \A n \in 1..Len(k.inbox) : k.inbox[n].seq <= sv[a.active].seq

\* What a call has read and been answered was so when the service answered.
Told(sv, c) ==
  /\ c.answer.kind = "waiting" => c.answer.seq = 0
  /\ c.answer.kind = "conflict" => c.task = "stop"
  /\ c.task = "create" => c.known = 0
  /\ c.session = None =>
       /\ c.task \in {"idle", "create"}
       /\ c.answer.kind \in {"waiting", "failed"}
  /\ c.session # None =>
       /\ sv[c.session].state # "none"
       /\ c.known <= sv[c.session].seq
       /\ c.answer.kind \in {"done", "conflict"} => c.answer.seq <= sv[c.session].seq
       /\ c.answer.kind = "missing" => ~There(sv[c.session])
       /\ c.task = "delete" /\ c.answer.kind = "done" => sv[c.session].state = "deleted"
       /\ c.task = "stop" /\ c.answer.kind \in {"done", "missing"}
            => sv[c.session].state # "live"

\* Nobody but the call that created it knows a session whose creation is not taken up.
Newborn(a, cs, i) ==
  cs[i].task = "create" /\ cs[i].session # None =>
    /\ a.active # cs[i].session
    /\ cs[i].session \notin a.forgotten
    /\ \A j \in 1..MaxCalls \ {i} : cs[j].session # cs[i].session

Basics ==
  /\ TypeOK
  /\ \A s \in Sessions : Retained(server[s])
  /\ Screened(server, adapter)
  /\ Streamed(server, adapter, socket)
  /\ \A i \in 1..MaxCalls : Told(server, calls[i])
  /\ \A i \in 1..MaxCalls : Newborn(adapter, calls, i)

\* A state behind nothing the adapter has taken up, or is going to take up when
\* an opening of this session connects.
Covers(a, cs, n) ==
  /\ a.cursor <= n
  /\ \A i \in 1..MaxCalls :
       cs[i].task = "openProbe" /\ cs[i].session = a.active => cs[i].known <= n

\* What has been taken up is behind nothing that an opening is going to take up.
Past(a, cs) == Covers(a, cs, a.cursor)

\* A call whose answer, here or to come, is going to be shown and covers all that.
Bringing(a, cs, i) ==
  /\ Current(a, cs[i])
  /\ \/ cs[i].task = "open"
     \/ cs[i].task = "event" /\ Past(a, cs)
  /\ \/ cs[i].answer = Waiting
     \/ cs[i].answer.kind = "done" /\ Covers(a, cs, cs[i].answer.seq)

Followed(sv, a) == a.active # None /\ There(sv[a.active])

\* The view covers all, or a call brings what does, or one that would have has failed.
ViewInHand(sv, a, cs, u) ==
  Followed(sv, a) =>
    \/ a.view # NoView /\ Covers(a, cs, a.view.seq)
    \/ \E i \in 1..MaxCalls : Bringing(a, cs, i)
    \/ u.opening = a.generation
    \/ u.refresh = a.generation /\ Past(a, cs)

\* A call that is going to connect.
Connecting(a, cs, i) ==
  /\ Current(a, cs[i])
  /\ cs[i].task \in {"open", "openProbe", "timer", "recover", "recoverProbe"}

StreamInHand(sv, a, k, cs) ==
  Followed(sv, a) /\ ~a.stopped =>
    \/ k.phase # "none"
    \/ \E i \in 1..MaxCalls : Connecting(a, cs, i)

-----------------------------------------------------------------------------
(* The service goes on: numbers grow, and what has ended stays so.         *)

GoesOn(r, t) ==
  /\ r.seq <= t.seq
  /\ r.state # "none" =>
       /\ t.state # "none"
       /\ There(t) => There(r)
       /\ t.state = "live" => r.state = "live"
       /\ r.state = "deleted" => t.state = "deleted"
Grown(sv, sw) == \A s \in Sessions : GoesOn(sv[s], sw[s])

\* What was true of the service stays true of it.
LEMMA TruthStays ==
  ASSUME NEW sv \in Server, NEW sw \in Server, Grown(sv, sw)
  PROVE  /\ \A a \in Adapter : Screened(sv, a) => Screened(sw, a)
         /\ \A a \in Adapter, k \in Socket :
              Streamed(sv, a, k) /\ Screened(sv, a) => Streamed(sw, a, k)
         /\ \A c \in CallRecord : Told(sv, c) => Told(sw, c)
<1>1. ASSUME NEW a \in Adapter, Screened(sv, a) PROVE Screened(sw, a)
  BY <1>1 DEF Grown, GoesOn, Server, SessionRecord, Adapter, View, Named, Screened, NoView
<1>2. ASSUME NEW a \in Adapter, NEW k \in Socket, Streamed(sv, a, k), Screened(sv, a)
      PROVE  Streamed(sw, a, k)
  <2> SUFFICES ASSUME k.phase # "none" PROVE Streamed(sw, a, k)
    BY <1>2 DEF Streamed
  <2>1. a.active \in Sessions
    BY <1>2 DEF Streamed, Adapter, Named
  <2>2. sv[a.active].seq \in Nat /\ sw[a.active].seq \in Nat
        /\ sv[a.active].seq <= sw[a.active].seq
    BY <2>1 DEF Grown, GoesOn, Server, SessionRecord
  <2>3. \A n \in 1..Len(k.inbox) : k.inbox[n].seq \in Nat
    <3>1. k.inbox \in Seq(Event)
      BY DEF Socket
    <3>2. \A n \in 1..Len(k.inbox) : k.inbox[n] \in Event
      BY <3>1
    <3>3. QED BY <3>2 DEF Event
  <2>4. k.at \in Nat
    BY DEF Socket
  <2>5. QED BY <1>2, <2>1, <2>2, <2>3, <2>4 DEF Streamed
<1>3. ASSUME NEW c \in CallRecord, Told(sv, c) PROVE Told(sw, c)
  BY <1>3 DEF Grown, GoesOn, Server, SessionRecord, CallRecord, Told
<1>4. QED BY <1>1, <1>2, <1>3

\* The last n of a sequence.
LEMMA LastOnes ==
  ASSUME NEW S, NEW q \in Seq(S), NEW n \in Nat
  PROVE  /\ Last(q, n) \in Seq(S)
         /\ Len(Last(q, n)) = IF Len(q) > n THEN n ELSE Len(q)
         /\ \A k \in 1..Len(Last(q, n)) :
              /\ Len(q) - Len(Last(q, n)) + k \in 1..Len(q)
              /\ Last(q, n)[k] = q[Len(q) - Len(Last(q, n)) + k]
<1>0. Len(q) \in Nat
  OBVIOUS
<1>1. CASE Len(q) <= n
  <2>1. Last(q, n) = q
    BY <1>0, <1>1 DEF Last
  <2>2. QED BY <1>0, <1>1, <2>1
<1>2. CASE Len(q) > n
  <2> DEFINE m == Len(q) - n + 1
             l == SubSeq(q, m, Len(q))
  <2>1. m \in Nat /\ m >= 1 /\ Len(q) - m + 1 = n
    BY <1>0, <1>2
  <2>2. \A i \in m..Len(q) : q[i] \in S
    BY <1>0, <2>1
  <2>3. Last(q, n) = l
    BY <1>2 DEF Last
  <2> HIDE DEF m
  <2>4. /\ l \in Seq(S)
        /\ Len(l) = IF m <= Len(q) THEN Len(q) - m + 1 ELSE 0
        /\ \A i \in 1..(Len(q) - m + 1) : l[i] = q[m + i - 1]
    BY <1>0, <2>1, <2>2, SubSeqProperties
  <2>5. Len(l) = n
    BY <1>0, <2>1, <2>4
  <2> HIDE DEF l
  <2>6. \A k \in 1..n : Len(q) - n + k \in 1..Len(q) /\ l[k] = q[Len(q) - n + k]
    <3> TAKE k \in 1..n
    <3>1. m + k - 1 = Len(q) - n + k /\ Len(q) - n + k \in 1..Len(q)
      BY <1>0, <1>2, <2>1
    <3>2. l[k] = q[m + k - 1]
      BY <2>1, <2>4
    <3>3. QED BY <3>1, <3>2
  <2>7. QED BY <1>2, <2>3, <2>4, <2>5, <2>6
<1>3. QED BY <1>0, <1>1, <1>2

\* Publishing appends the next number and drops what is over the limit.
LEMMA Publishing ==
  ASSUME NEW r \in SessionRecord, Retained(r), NEW full \in BOOLEAN
  PROVE  /\ Published(r, full) \in SessionRecord
         /\ Published(r, full).seq = r.seq + 1
         /\ Published(r, full).state = r.state
         /\ Retained(Published(r, full))
         /\ Len(Published(r, full).log) # 0
<1> DEFINE e == [seq |-> r.seq + 1, full |-> full]
           q == Append(r.log, e)
           l == Last(q, Retention)
<1>1. r.log \in Seq(Event) /\ r.seq \in Nat /\ r.state \in States /\ e \in Event
  BY DEF SessionRecord, Event
<1>2. /\ q \in Seq(Event) /\ Len(r.log) \in Nat /\ Len(q) = Len(r.log) + 1
      /\ q[Len(r.log) + 1] = e
      /\ \A k \in 1..Len(r.log) : q[k] = r.log[k]
  <2> HIDE DEF e
  <2>1. QED BY <1>1, AppendProperties
<1>3. \A k \in 1..Len(q) : q[k].seq = (r.seq + 1) - Len(q) + k
  <2> TAKE k \in 1..Len(q)
  <2>1. CASE k = Len(q)
    BY <1>1, <1>2, <2>1
  <2>2. CASE k # Len(q)
    <3>1. k \in 1..Len(r.log)
      BY <1>2, <2>2
    <3>2. q[k].seq = r.seq - Len(r.log) + k
      BY <1>2, <3>1 DEF Retained
    <3>3. QED BY <1>1, <1>2, <3>1, <3>2
  <2>3. QED BY <2>1, <2>2
<1>4. Retention \in Nat
  BY StreamAssumption
<1>5. Published(r, full) = [r EXCEPT !.seq = r.seq + 1, !.log = l]
  BY DEF Published
<1> HIDE DEF q
<1>6. /\ l \in Seq(Event)
      /\ Len(l) = IF Len(q) > Retention THEN Retention ELSE Len(q)
      /\ \A k \in 1..Len(l) :
           /\ Len(q) - Len(l) + k \in 1..Len(q)
           /\ l[k] = q[Len(q) - Len(l) + k]
  BY <1>2, <1>4, LastOnes
<1> HIDE DEF l
<1>7. /\ Published(r, full) \in SessionRecord
      /\ Published(r, full).seq = r.seq + 1
      /\ Published(r, full).state = r.state
      /\ Published(r, full).log = l
  <2> DEFINE t == [r EXCEPT !.seq = r.seq + 1]
  <2>1. t \in SessionRecord /\ t.seq = r.seq + 1 /\ t.state = r.state
    BY <1>1 DEF SessionRecord
  <2>2. Published(r, full) = [t EXCEPT !.log = l]
    BY <1>5
  <2> HIDE DEF t
  <2>3. QED BY <1>6, <2>1, <2>2 DEF SessionRecord
<1>8. \A k \in 1..Len(l) : l[k].seq = (r.seq + 1) - Len(l) + k
  <2> TAKE k \in 1..Len(l)
  <2>1. l[k].seq = (r.seq + 1) - Len(q) + (Len(q) - Len(l) + k)
    BY <1>3, <1>6
  <2>2. Len(q) \in Nat /\ Len(l) \in Nat
    BY <1>1, <1>2, <1>6
  <2>3. QED BY <1>1, <2>1, <2>2
<1>9. Len(l) <= Retention /\ Len(l) # 0
  BY <1>1, <1>2, <1>4, <1>6, StreamAssumption
<1>10. QED BY <1>7, <1>8, <1>9 DEF Retained
-----------------------------------------------------------------------------
(* The adapter's operations on its own fields.                             *)

\* A field may be given any value of its kind.
LEMMA AdapterField ==
  ASSUME NEW a \in Adapter
  PROVE  /\ \A v \in Named : [a EXCEPT !.active = v] \in Adapter
         /\ \A v \in Nat : [a EXCEPT !.generation = v] \in Adapter
         /\ \A v \in Nat : [a EXCEPT !.cursor = v] \in Adapter
         /\ \A v \in View : [a EXCEPT !.view = v] \in Adapter
         /\ \A v \in Nat : [a EXCEPT !.timer = v] \in Adapter
         /\ \A v \in BOOLEAN : [a EXCEPT !.stopped = v] \in Adapter
         /\ \A v \in BOOLEAN : [a EXCEPT !.connected = v] \in Adapter
         /\ \A v \in SUBSET Sessions : [a EXCEPT !.forgotten = v] \in Adapter
  BY DEF Adapter

LEMMA CallField ==
  ASSUME NEW c \in CallRecord
  PROVE  /\ \A v \in Named : [c EXCEPT !.session = v] \in CallRecord
         /\ \A v \in Reply : /\ [c EXCEPT !.answer = v] \in CallRecord
                             /\ [c EXCEPT !.answer = v].answer = v
                             /\ [c EXCEPT !.answer = v].task = c.task
                             /\ [c EXCEPT !.answer = v].session = c.session
                             /\ [c EXCEPT !.answer = v].known = c.known
  BY DEF CallRecord, Named, Reply

\* A call begins waiting, with what it has been given.
LEMMA Calling ==
  ASSUME NEW t \in Requests \cup {"timer"}, NEW s \in Named, NEW g \in Nat, NEW n \in Nat
  PROVE  LET c == Call(t, s, g, n) IN
         /\ c \in CallRecord
         /\ c.task = t /\ c.session = s /\ c.generation = g /\ c.known = n
         /\ c.answer = Waiting
  BY DEF Call, Idle, Waiting, CallRecord, Named, Requests

LEMMA Blank ==
  /\ Idle \in CallRecord
  /\ Idle.task = "idle" /\ Idle.session = None /\ Idle.answer = Waiting
  /\ NoView \in View /\ NoView.session = None /\ NoView.seq = 0
  /\ NoSocket \in Socket /\ NoSocket.phase = "none"
  /\ \A c \in CallRecord : c.answer.kind \in {"waiting", "done", "missing", "conflict", "failed"}
                           /\ c.answer.seq \in Nat
  BY EmptySeq DEF Idle, Waiting, CallRecord, NoView, View, Named, NoSocket, Socket

\* Showing a state of the session on the screen, or leaving the adapter alone: it is
\* the same visit.
LEMMA ShowingStays ==
  ASSUME NEW a \in Adapter, NEW s \in Named, NEW n \in Nat
  PROVE  /\ Shown(a, s, n) \in Adapter
         /\ Shown(a, s, n).active = a.active
         /\ Shown(a, s, n).generation = a.generation
         /\ Shown(a, s, n).stopped = a.stopped
         /\ Shown(a, s, n).forgotten = a.forgotten
<1> DEFINE v == [session |-> s, seq |-> n]
           b == Shown(a, s, n)
<1>1. v \in View /\ Larger(a.cursor, n) \in Nat
  BY DEF View, Adapter, Larger
<1>2. b \in Adapter
  BY <1>1, AdapterField DEF Shown
<1>3. b = a \/ b = [a EXCEPT !.view = v, !.cursor = Larger(a.cursor, n)]
  BY DEF Shown
<1> HIDE DEF b, v
<1>4. QED BY <1>2, <1>3 DEF Adapter, b

\* What is shown.
LEMMA Showing ==
  ASSUME NEW a \in Adapter, NEW s \in Named, NEW n \in Nat
  PROVE  \/ /\ s \in a.forgotten \/ s # a.active \/ n < a.view.seq
            /\ Shown(a, s, n) = a
         \/ /\ s \notin a.forgotten /\ s = a.active /\ n >= a.view.seq
            /\ Shown(a, s, n).view = [session |-> s, seq |-> n]
            /\ Shown(a, s, n).cursor = Larger(a.cursor, n)
<1>1. CASE s \in a.forgotten \/ s # a.active \/ n < a.view.seq
  BY <1>1 DEF Shown
<1>2. CASE ~(s \in a.forgotten \/ s # a.active \/ n < a.view.seq)
  <2>1. n >= a.view.seq
    BY <1>2 DEF Adapter, View
  <2>2. QED BY <1>2, <2>1 DEF Shown, Adapter
<1>3. QED BY <1>1, <1>2

LEMMA ShowingLater ==
  ASSUME NEW a \in Adapter, NEW s \in Named, NEW n \in Nat,
         s \notin a.forgotten, s = a.active, n >= a.view.seq
  PROVE  /\ Shown(a, s, n).view = [session |-> s, seq |-> n]
         /\ Shown(a, s, n).cursor = Larger(a.cursor, n)
<1>1. a.view.seq \in Nat
  BY DEF Adapter, View
<1>2. QED BY <1>1, Showing

\* A new visit begins blank.
LEMMA Activating ==
  ASSUME NEW a \in Adapter, NEW s \in Named
  PROVE  /\ Activated(a, s) \in Adapter
         /\ Activated(a, s).active = s
         /\ Activated(a, s).generation = a.generation + 1
         /\ Activated(a, s).cursor = 0
         /\ Activated(a, s).view = NoView
         /\ ~Activated(a, s).stopped
         /\ Activated(a, s).forgotten = a.forgotten
<1>1. a.generation + 1 \in Nat /\ 0 \in Nat /\ NoView \in View
  BY Blank DEF Adapter
<1>2. Activated(a, s) \in Adapter
  BY <1>1, AdapterField DEF Activated
<1>3. QED BY <1>2 DEF Activated, Adapter

\* A session that is no more is left.
LEMMA Clearing ==
  ASSUME NEW a \in Adapter
  PROVE  /\ Cleared(a) \in Adapter
         /\ Cleared(a).active = None
         /\ Cleared(a).generation = a.generation + 1
         /\ Cleared(a).cursor = 0
         /\ Cleared(a).view = NoView
         /\ Cleared(a).forgotten = a.forgotten
<1>1. a.generation + 1 \in Nat /\ 0 \in Nat /\ NoView \in View /\ None \in Named
  BY Blank DEF Adapter, Named
<1>2. Cleared(a) \in Adapter
  BY <1>1, AdapterField DEF Cleared
<1>3. QED BY <1>2 DEF Cleared, Adapter

-----------------------------------------------------------------------------
(* What was true of the adapter stays true of it.                          *)

\* What an answer brings is true.
LEMMA ShowingTrue ==
  ASSUME NEW sv \in Server, NEW a \in Adapter, NEW s \in Sessions, NEW n \in Nat,
         Screened(sv, a), n <= sv[s].seq
  PROVE  Screened(sv, Shown(a, s, n))
<1>1. CASE Shown(a, s, n) = a
  BY <1>1
<1>2. CASE /\ s \notin a.forgotten /\ s = a.active /\ n >= a.view.seq
           /\ Shown(a, s, n).view = [session |-> s, seq |-> n]
           /\ Shown(a, s, n).cursor = Larger(a.cursor, n)
  <2>1. /\ a.cursor \in Nat /\ Larger(a.cursor, n) \in Nat
        /\ n <= Larger(a.cursor, n)
        /\ \A m \in Nat : a.cursor <= m /\ n <= m => Larger(a.cursor, n) <= m
    BY DEF Adapter, Larger
  <2>2. s \in Named /\ sv[s].seq \in Nat /\ s # None
    BY StreamAssumption DEF Named, Server, SessionRecord
  <2>3. Shown(a, s, n).active = s /\ Shown(a, s, n).forgotten = a.forgotten
    BY <1>2, <2>2, ShowingStays
  <2>4. /\ sv[s].state # "none" /\ s \notin a.forgotten /\ a.cursor <= sv[s].seq
        /\ \A t \in a.forgotten : sv[t].state = "deleted"
    BY <1>2, <2>2 DEF Screened
  <2>5. QED BY <1>2, <2>1, <2>2, <2>3, <2>4 DEF Screened
<1>3. s \in Named
  BY DEF Named
<1>4. QED BY <1>1, <1>2, <1>3, Showing

\* What is known of a session that Basics speaks of.
LEMMA Typed ==
  TypeOK <=> /\ server \in Server /\ adapter \in Adapter /\ socket \in Socket
             /\ calls \in Calls /\ used \in Counts
             /\ \A s \in Sessions : Len(server[s].log) <= Retention
  BY DEF TypeOK, Server, SessionRecord, States, Adapter, View, Named, Socket, Calls, Event,
         Counts

LEMMA BasicsSay ==
  ASSUME Basics
  PROVE  /\ server \in Server /\ adapter \in Adapter /\ socket \in Socket /\ calls \in Calls
         /\ used \in Counts
         /\ \A s \in Sessions : Retained(server[s])
         /\ Screened(server, adapter)
         /\ Streamed(server, adapter, socket)
         /\ \A i \in 1..MaxCalls : calls[i] \in CallRecord /\ Told(server, calls[i])
         /\ \A i \in 1..MaxCalls : Newborn(adapter, calls, i)
         /\ Places = 1..MaxCalls
  BY Typed DEF Basics, Calls, Places

LEMMA BasicsHold ==
  ASSUME server' \in Server, adapter' \in Adapter, socket' \in Socket, calls' \in Calls,
         used' \in Counts,
         \A s \in Sessions : Retained(server'[s]),
         Screened(server', adapter'), Streamed(server', adapter', socket'),
         \A i \in 1..MaxCalls : Told(server', calls'[i]),
         \A i \in 1..MaxCalls : Newborn(adapter', calls', i)
  PROVE  Basics'
<1>1. TypeOK' <=> /\ server' \in Server /\ adapter' \in Adapter /\ socket' \in Socket
                  /\ calls' \in Calls /\ used' \in Counts
                  /\ \A s \in Sessions : Len(server'[s].log) <= Retention
  BY DEF TypeOK, Server, SessionRecord, States, Adapter, View, Named, Socket, Calls, Event,
         Counts
<1>2. \A s \in Sessions : Len(server'[s].log) <= Retention
  BY DEF Retained
<1>3. QED BY <1>1, <1>2 DEF Basics

\* One session goes on.
LEMMA OneGoesOn ==
  ASSUME Basics, NEW s \in Sessions, NEW r \in SessionRecord, Retained(r),
         GoesOn(server[s], r), server' = [server EXCEPT ![s] = r]
  PROVE  /\ server' \in Server
         /\ Grown(server, server')
         /\ \A t \in Sessions : Retained(server'[t])
         /\ Screened(server', adapter)
         /\ Streamed(server', adapter, socket)
         /\ \A i \in 1..MaxCalls : Told(server', calls[i])
<1>1. server' \in Server
  BY BasicsSay DEF Server
<1>2. \A t \in Sessions : server'[t] = IF t = s THEN r ELSE server[t]
  BY BasicsSay DEF Server
<1>3. Grown(server, server')
  BY <1>2, BasicsSay DEF Grown, GoesOn, Server, SessionRecord
<1>4. \A t \in Sessions : Retained(server'[t])
  BY <1>2, BasicsSay
<1>5. server' \in Server /\ server \in Server
  BY <1>1, BasicsSay
<1>6. QED BY <1>1, <1>3, <1>4, TruthStays, BasicsSay

\* A call is given its answer.
LEMMA AnswerGiven ==
  ASSUME Basics, NEW i \in 1..MaxCalls, NEW v \in Reply,
         calls' = [calls EXCEPT ![i] = [calls[i] EXCEPT !.answer = v]]
  PROVE  /\ calls' \in Calls
         /\ calls'[i].task = calls[i].task /\ calls'[i].session = calls[i].session
         /\ calls'[i].generation = calls[i].generation /\ calls'[i].known = calls[i].known
         /\ calls'[i].answer = v
         /\ \A j \in 1..MaxCalls \ {i} : calls'[j] = calls[j]
         /\ \A j \in 1..MaxCalls : Newborn(adapter, calls', j)
<1> DEFINE c == [calls[i] EXCEPT !.answer = v]
<1>1. calls[i] \in CallRecord /\ calls \in Calls
  BY BasicsSay
<1>2. /\ c \in CallRecord
      /\ c.task = calls[i].task /\ c.session = calls[i].session
      /\ c.generation = calls[i].generation /\ c.known = calls[i].known
      /\ c.answer = v
  BY <1>1 DEF CallRecord, Reply
<1>3. calls' = [calls EXCEPT ![i] = c]
  OBVIOUS
<1> HIDE DEF c
<1>4. /\ calls' \in Calls /\ calls'[i] = c
      /\ \A j \in 1..MaxCalls \ {i} : calls'[j] = calls[j]
  BY <1>1, <1>2, <1>3 DEF Calls
<1>5. \A j \in 1..MaxCalls :
        calls'[j].task = calls[j].task /\ calls'[j].session = calls[j].session
  BY <1>2, <1>4
<1>6. \A j \in 1..MaxCalls : Newborn(adapter, calls', j)
  BY <1>5, BasicsSay DEF Newborn
<1>7. QED BY <1>2, <1>4, <1>6

-----------------------------------------------------------------------------
(* The basic facts, step by step: the service.                             *)

\* A deleted session keeps its number.
LEMMA Ending ==
  ASSUME NEW r \in SessionRecord
  PROVE  /\ Ended(r) \in SessionRecord /\ Retained(Ended(r))
         /\ Ended(r).seq = r.seq /\ Ended(r).state = "deleted"
<1> DEFINE t == [r EXCEPT !.state = "deleted"]
<1>1. t \in SessionRecord /\ t.seq = r.seq /\ t.state = "deleted"
  BY DEF SessionRecord, States
<1>2. Ended(r) = [t EXCEPT !.log = <<>>]
  BY DEF Ended
<1> HIDE DEF t
<1>3. <<>> \in Seq(Event) /\ Len(<<>>) = 0
  BY EmptySeq
<1>4. /\ Ended(r) \in SessionRecord /\ Ended(r).seq = t.seq /\ Ended(r).state = t.state
      /\ Ended(r).log = <<>>
  BY <1>1, <1>2, <1>3 DEF SessionRecord
<1>5. Retained(Ended(r))
  BY <1>3, <1>4, StreamAssumption DEF Retained
<1>6. QED BY <1>1, <1>4, <1>5

LEMMA FaultCounted ==
  ASSUME used \in Counts
  PROVE  /\ used.faults < MaxFaults /\ used' = [used EXCEPT !.faults = @ + 1]
              => used' \in Counts
         /\ used.asks < MaxAsks /\ used' = [used EXCEPT !.asks = @ + 1]
              => used' \in Counts
  BY StreamAssumption DEF Counts

\* What publishing, ending and nothing make of a record.
LEMMA RecordsGoOn ==
  ASSUME Basics, NEW s \in Sessions
  PROVE  /\ server[s] \in SessionRecord /\ Retained(server[s])
         /\ GoesOn(server[s], server[s])
         /\ \A full \in BOOLEAN :
              LET r == Published(server[s], full) IN
              /\ r \in SessionRecord /\ Retained(r) /\ GoesOn(server[s], r)
              /\ r.seq = server[s].seq + 1 /\ r.state = server[s].state
              /\ Len(r.log) # 0
         /\ LET r == Ended(server[s]) IN
            /\ r \in SessionRecord /\ Retained(r)
            /\ r.seq = server[s].seq /\ r.state = "deleted"
            /\ server[s].state # "none" => GoesOn(server[s], r)
<1>1. server[s] \in SessionRecord /\ Retained(server[s]) /\ server[s].seq \in Nat
  BY BasicsSay DEF Server, SessionRecord
<1>2. ASSUME NEW full \in BOOLEAN
      PROVE  LET r == Published(server[s], full) IN
             /\ r \in SessionRecord /\ Retained(r) /\ GoesOn(server[s], r)
             /\ r.seq = server[s].seq + 1 /\ r.state = server[s].state
             /\ Len(r.log) # 0
  BY <1>1, Publishing DEF GoesOn, There
<1>3. LET r == Ended(server[s]) IN
      /\ r \in SessionRecord /\ Retained(r)
      /\ r.seq = server[s].seq /\ r.state = "deleted"
      /\ server[s].state # "none" => GoesOn(server[s], r)
  BY <1>1, Ending DEF GoesOn, There
<1>4. GoesOn(server[s], server[s])
  BY <1>1 DEF GoesOn
<1>5. QED BY <1>1, <1>2, <1>3, <1>4

LEMMA PublishBasics == ASSUME Basics, NEW s \in Sessions, Publish(s) PROVE Basics'
<1>1. PICK full \in BOOLEAN : server' = [server EXCEPT ![s] = Published(server[s], full)]
  BY DEF Publish
<1> DEFINE r == Published(server[s], full)
<1>2. r \in SessionRecord /\ Retained(r) /\ GoesOn(server[s], r)
  BY RecordsGoOn
<1>3. server' = [server EXCEPT ![s] = r]
  BY <1>1
<1> HIDE DEF r
<1>4. /\ server' \in Server
      /\ \A t \in Sessions : Retained(server'[t])
      /\ Screened(server', adapter)
      /\ Streamed(server', adapter, socket)
      /\ \A i \in 1..MaxCalls : Told(server', calls[i])
  BY <1>2, <1>3, OneGoesOn
<1>5. UNCHANGED <<adapter, socket, calls, used>>
  BY DEF Publish
<1>6. QED BY <1>4, <1>5, BasicsSay, BasicsHold

LEMMA DeletedElsewhereBasics ==
  ASSUME Basics, NEW s \in Sessions, DeletedElsewhere(s)
  PROVE  Basics'
<1> DEFINE r == Ended(server[s])
<1>1. server[s].state # "none"
  BY DEF DeletedElsewhere, Exists
<1>2. r \in SessionRecord /\ Retained(r) /\ GoesOn(server[s], r)
  BY <1>1, RecordsGoOn
<1>3. server' = [server EXCEPT ![s] = r]
  BY DEF DeletedElsewhere
<1> HIDE DEF r
<1>4. /\ server' \in Server
      /\ \A t \in Sessions : Retained(server'[t])
      /\ Screened(server', adapter)
      /\ Streamed(server', adapter, socket)
      /\ \A i \in 1..MaxCalls : Told(server', calls[i])
  BY <1>2, <1>3, OneGoesOn
<1>5. UNCHANGED <<adapter, socket, calls>>
  BY DEF DeletedElsewhere
<1>6. used' \in Counts
  BY BasicsSay, FaultCounted DEF DeletedElsewhere
<1>7. QED BY <1>4, <1>5, <1>6, BasicsSay, BasicsHold

\* An answer that is true leaves what the calls were told true.
LEMMA AnsweredTruly ==
  ASSUME Basics, NEW i \in 1..MaxCalls, NEW v \in Reply,
         calls' = [calls EXCEPT ![i] = [calls[i] EXCEPT !.answer = v]],
         Told(server', [calls[i] EXCEPT !.answer = v]),
         \A j \in 1..MaxCalls : Told(server', calls[j])
  PROVE  \A j \in 1..MaxCalls : Told(server', calls'[j])
  BY BasicsSay DEF Calls

\* The service answers a call, changing the call's session or none.
LEMMA ServiceAnswers ==
  ASSUME Basics, NEW i \in 1..MaxCalls, NEW v \in Reply,
         NEW s \in Sessions, NEW r \in SessionRecord, Retained(r), GoesOn(server[s], r),
         server' = [server EXCEPT ![s] = r],
         calls' = [calls EXCEPT ![i] = [calls[i] EXCEPT !.answer = v]],
         UNCHANGED <<adapter, socket>>,
         used' \in Counts,
         Told(server', [calls[i] EXCEPT !.answer = v])
  PROVE  Basics'
<1>1. /\ server' \in Server
      /\ \A t \in Sessions : Retained(server'[t])
      /\ Screened(server', adapter)
      /\ Streamed(server', adapter, socket)
      /\ \A j \in 1..MaxCalls : Told(server', calls[j])
  BY OneGoesOn
<1>2. calls' \in Calls /\ \A j \in 1..MaxCalls : Newborn(adapter, calls', j)
  BY AnswerGiven
<1>3. \A j \in 1..MaxCalls : Told(server', calls'[j])
  BY <1>1, AnsweredTruly
<1>4. QED BY <1>1, <1>2, <1>3, BasicsSay, BasicsHold

\* A call that waits for the service: what it is and where it stands.
LEMMA Waits ==
  ASSUME Basics, NEW i \in 1..MaxCalls, Asked(i), calls[i].task # "create"
  PROVE  /\ calls[i] \in CallRecord /\ Told(server, calls[i])
         /\ calls[i].session \in Sessions /\ calls[i].session # None
         /\ server[calls[i].session].state # "none"
         /\ calls[i].answer = Waiting
<1>1. calls[i] \in CallRecord /\ Told(server, calls[i])
  BY BasicsSay
<1>2. calls[i].session # None
  BY <1>1 DEF Told, Asked
<1>3. calls[i].session \in Sessions
  BY <1>1, <1>2 DEF CallRecord
<1>4. QED BY <1>1, <1>2, <1>3 DEF Told, Asked

\* What an answer must be to leave what a waiting call was told true.
LEMMA TrueAnswer ==
  ASSUME NEW sv \in Server, NEW c \in CallRecord, NEW v \in Reply, Told(sv, c),
         c.session # None, v.kind # "waiting",
         v.kind = "conflict" => c.task = "stop",
         v.kind \in {"done", "conflict"} => v.seq <= sv[c.session].seq,
         v.kind = "missing" => ~There(sv[c.session]),
         c.task = "delete" /\ v.kind = "done" => sv[c.session].state = "deleted",
         c.task = "stop" /\ v.kind \in {"done", "missing"} => sv[c.session].state # "live"
  PROVE  Told(sv, [c EXCEPT !.answer = v])
<1> DEFINE d == [c EXCEPT !.answer = v]
<1>1. d.answer = v /\ d.task = c.task /\ d.session = c.session /\ d.known = c.known
  BY CallField
<1> HIDE DEF d
<1>2. Told(sv, d)
  BY <1>1 DEF Told
<1>3. QED BY <1>2 DEF d

\* The service answers a waiting call, and the answer is true of what it leaves.
LEMMA AnswerServed ==
  ASSUME Basics, NEW i \in 1..MaxCalls, Asked(i), calls[i].task # "create",
         NEW kind \in {"done", "missing", "conflict"}, NEW n \in Nat, NEW r \in SessionRecord,
         Retained(r), GoesOn(server[calls[i].session], r), n <= r.seq,
         server' = [server EXCEPT ![calls[i].session] = r],
         Becomes(i, [calls[i] EXCEPT !.answer = [kind |-> kind, seq |-> n]]),
         UNCHANGED <<adapter, socket, used>>,
         kind = "conflict" => calls[i].task = "stop",
         kind = "missing" => ~There(r),
         calls[i].task = "delete" /\ kind = "done" => r.state = "deleted",
         calls[i].task = "stop" /\ kind \in {"done", "missing"} => r.state # "live"
  PROVE  Basics'
<1> DEFINE c == calls[i]
           s == c.session
           v == [kind |-> kind, seq |-> n]
<1>1. c \in CallRecord /\ Told(server, c) /\ s \in Sessions /\ s # None
  BY Waits
<1>2. used' \in Counts /\ UNCHANGED <<adapter, socket>>
  BY BasicsSay
<1>3. v \in Reply /\ v.kind = kind /\ v.seq = n
  BY DEF Reply
<1>4. calls' = [calls EXCEPT ![i] = [calls[i] EXCEPT !.answer = v]]
  BY DEF Becomes
<1>5. server'[s] = r /\ server' \in Server /\ Told(server', c)
  BY <1>1, OneGoesOn, BasicsSay DEF Server
<1> HIDE DEF v
<1>6. Told(server', [c EXCEPT !.answer = v])
  BY <1>1, <1>3, <1>5, TrueAnswer
<1>7. QED BY <1>1, <1>2, <1>3, <1>4, <1>6, ServiceAnswers

LEMMA SameServer ==
  ASSUME Basics, NEW s \in Sessions, UNCHANGED server
  PROVE  server' = [server EXCEPT ![s] = server[s]]
  BY BasicsSay DEF Server

LEMMA AnswerBasics == ASSUME Basics, NEW i \in 1..MaxCalls, Answer(i) PROVE Basics'
<1> DEFINE c == calls[i]
           s == c.session
<1>1. /\ Asked(i) /\ c.task \notin {"delete", "create", "stop"}
      /\ UNCHANGED <<adapter, socket, used>>
  BY DEF Answer
<1>2. s \in Sessions
  BY <1>1, Waits
<1>3. CASE ~Exists(s)
  <2>1. Answers(i, "missing", server[s]) /\ UNCHANGED server
    BY <1>3 DEF Answer
  <2>2. server[s].seq \in Nat /\ server[s].seq <= server[s].seq
    BY <1>2, RecordsGoOn DEF SessionRecord
  <2>3. QED
    BY <1>1, <1>2, <1>3, <2>1, <2>2, RecordsGoOn, SameServer, AnswerServed
       DEF Answers, Exists, There
<1>4. CASE Exists(s)
  <2>1. PICK r \in {server[s]} \cup {Published(server[s], TRUE)} :
          Answers(i, "done", r) /\ server' = [server EXCEPT ![s] = r]
    BY <1>4 DEF Answer
  <2>2. r \in SessionRecord /\ Retained(r) /\ GoesOn(server[s], r)
    BY <1>2, RecordsGoOn
  <2>3. r.seq \in Nat /\ r.seq <= r.seq
    BY <2>2 DEF SessionRecord
  <2>4. QED BY <1>1, <2>1, <2>2, <2>3, AnswerServed DEF Answers
<1>5. QED BY <1>3, <1>4

LEMMA AnswerDeleteBasics == ASSUME Basics, NEW i \in 1..MaxCalls, AnswerDelete(i) PROVE Basics'
<1> DEFINE s == calls[i].session
           r == Ended(server[s])
<1>1. /\ Asked(i) /\ calls[i].task = "delete"
      /\ UNCHANGED <<adapter, socket, used>>
      /\ Answers(i, "done", server[s])
      /\ server' = [server EXCEPT ![s] = r]
  BY DEF AnswerDelete
<1>2. s \in Sessions /\ server[s].state # "none"
  BY <1>1, Waits
<1>3. /\ r \in SessionRecord /\ Retained(r) /\ GoesOn(server[s], r)
      /\ r.seq = server[s].seq /\ r.state = "deleted"
  BY <1>2, RecordsGoOn
<1> HIDE DEF r
<1>4. server[s].seq \in Nat /\ server[s].seq <= r.seq
  BY <1>2, <1>3, RecordsGoOn DEF SessionRecord
<1>5. QED BY <1>1, <1>3, <1>4, AnswerServed DEF Answers

LEMMA AnswerStopBasics == ASSUME Basics, NEW i \in 1..MaxCalls, AnswerStop(i) PROVE Basics'
<1> DEFINE s == calls[i].session
<1>1. /\ Asked(i) /\ calls[i].task = "stop"
      /\ UNCHANGED <<adapter, socket, used>>
  BY DEF AnswerStop
<1>2. s \in Sessions
  BY <1>1, Waits
<1>3. server[s].seq \in Nat /\ server[s].seq <= server[s].seq
  BY <1>2, RecordsGoOn DEF SessionRecord
<1>4. CASE /\ server[s].state = "deleted"
           /\ Answers(i, "missing", server[s]) /\ UNCHANGED server
  BY <1>1, <1>2, <1>3, <1>4, RecordsGoOn, SameServer, AnswerServed DEF Answers, There
<1>5. CASE /\ Answers(i, "conflict", server[s]) /\ UNCHANGED server
  BY <1>1, <1>2, <1>3, <1>5, RecordsGoOn, SameServer, AnswerServed DEF Answers
<1>6. CASE /\ server[s].state # "deleted"
           /\ Answers(i, "done", server[s])
           /\ server' = [server EXCEPT ![s] = [Published(@, TRUE) EXCEPT !.state = "stopped"]]
  <2> DEFINE q == Published(server[s], TRUE)
             r == [q EXCEPT !.state = "stopped"]
  <2>1. /\ q \in SessionRecord /\ Retained(q) /\ GoesOn(server[s], q)
        /\ q.seq = server[s].seq + 1
    BY <1>2, RecordsGoOn
  <2>2. server' = [server EXCEPT ![s] = r]
    BY <1>6
  <2>3. server[s].state # "none"
    BY <1>1, Waits
  <2> HIDE DEF q
  <2>4. /\ r \in SessionRecord /\ r.seq = q.seq /\ r.log = q.log /\ r.state = "stopped"
    BY <2>1 DEF SessionRecord, States
  <2> HIDE DEF r
  <2>5. Retained(r)
    BY <2>1, <2>4 DEF Retained
  <2>6. server[s].state \in States
    BY <1>2, RecordsGoOn DEF SessionRecord
  <2>7. GoesOn(server[s], r) /\ server[s].seq <= r.seq
    BY <1>3, <1>6, <2>1, <2>3, <2>4, <2>6 DEF GoesOn, There, States
  <2>8. QED BY <1>1, <1>3, <1>6, <2>2, <2>4, <2>5, <2>7, AnswerServed DEF Answers
<1>7. QED BY <1>4, <1>5, <1>6 DEF AnswerStop
LEMMA AnswerCreateBasics == ASSUME Basics, NEW i \in 1..MaxCalls, AnswerCreate(i) PROVE Basics'
<1>1. /\ calls[i].task = "create" /\ calls[i].answer = Waiting
      /\ UNCHANGED <<adapter, socket, used>>
  BY DEF AnswerCreate, Asked
<1> DEFINE v == [kind |-> "done", seq |-> 0]
<1>2. PICK s \in Sessions :
        /\ server[s].state = "none"
        /\ server' = [server EXCEPT ![s].state = "live"]
        /\ calls' = [calls EXCEPT ![i] = [calls[i] EXCEPT !.session = s, !.answer = v]]
  BY DEF AnswerCreate, Becomes
<1> DEFINE r == [server[s] EXCEPT !.state = "live"]
           e == [calls[i] EXCEPT !.session = s]
           c == [e EXCEPT !.answer = v]
<1>3. server[s] \in SessionRecord /\ Retained(server[s]) /\ server \in Server
  BY BasicsSay, RecordsGoOn
<1>4. r \in SessionRecord /\ Retained(r) /\ GoesOn(server[s], r)
      /\ r.state = "live" /\ r.seq = server[s].seq
  BY <1>2, <1>3 DEF SessionRecord, States, Retained, GoesOn
<1>5. server' = [server EXCEPT ![s] = r]
  BY <1>2
<1> HIDE DEF r
<1>6. /\ server' \in Server
      /\ \A t \in Sessions : Retained(server'[t])
      /\ Screened(server', adapter)
      /\ Streamed(server', adapter, socket)
      /\ \A j \in 1..MaxCalls : Told(server', calls[j])
      /\ server'[s] = r
  BY <1>3, <1>4, <1>5, OneGoesOn DEF Server
<1>7. calls[i] \in CallRecord /\ Told(server, calls[i]) /\ calls \in Calls /\ s # None
      /\ s \in Named
  BY BasicsSay, StreamAssumption DEF Named
<1>8. v \in Reply /\ v.kind = "done" /\ v.seq = 0
  BY DEF Reply
<1>9. e \in CallRecord /\ e.task = "create" /\ e.session = s /\ e.known = calls[i].known
  BY <1>1, <1>7 DEF CallRecord, Named
<1>10. calls' = [calls EXCEPT ![i] = c]
  BY <1>2
<1> HIDE DEF e, v
<1>11. c \in CallRecord /\ c.task = "create" /\ c.session = s /\ c.known = calls[i].known
       /\ c.answer = v
  BY <1>8, <1>9, CallField
<1> HIDE DEF c
<1>12. /\ calls' \in Calls /\ calls'[i] = c
       /\ \A j \in 1..MaxCalls \ {i} : calls'[j] = calls[j]
  BY <1>7, <1>10, <1>11 DEF Calls
<1>13. Told(server', c)
  <2>1. calls[i].known = 0
    BY <1>1, <1>7 DEF Told
  <2>2. QED BY <1>4, <1>6, <1>7, <1>8, <1>11, <2>1 DEF Told, SessionRecord
<1>14. \A j \in 1..MaxCalls : Newborn(adapter, calls', j)
  <2>1. \A j \in 1..MaxCalls : calls[j].session # s
    BY <1>2, <1>7, BasicsSay DEF Told
  <2>2. adapter.active # s /\ s \notin adapter.forgotten
    BY <1>2, <1>7, BasicsSay DEF Screened
  <2>3. Newborn(adapter, calls', i)
    BY <1>11, <1>12, <2>1, <2>2 DEF Newborn
  <2>4. ASSUME NEW j \in 1..MaxCalls \ {i} PROVE Newborn(adapter, calls', j)
    BY <1>11, <1>12, <2>1, BasicsSay DEF Newborn
  <2>5. QED BY <2>3, <2>4
<1>15. QED BY <1>1, <1>6, <1>12, <1>13, <1>14, BasicsSay, BasicsHold

LEMMA LostBasics == ASSUME Basics, NEW i \in 1..MaxCalls, Lost(i) PROVE Basics'
<1> DEFINE v == [kind |-> "failed", seq |-> 0]
           c == [calls[i] EXCEPT !.answer = v]
<1>1. /\ calls[i].task \in Requests
      /\ calls' = [calls EXCEPT ![i] = c]
      /\ UNCHANGED <<server, adapter, socket>>
  BY StreamAssumption DEF Lost, Answers, Becomes, Requests
<1>2. v \in Reply /\ v.kind = "failed"
  BY DEF Reply
<1>3. calls[i] \in CallRecord /\ Told(server, calls[i])
  BY BasicsSay
<1> HIDE DEF v
<1>4. /\ c.answer = v /\ c.task = calls[i].task /\ c.session = calls[i].session
      /\ c.known = calls[i].known
  BY <1>2, <1>3, CallField
<1>5. calls' \in Calls /\ \A j \in 1..MaxCalls : Newborn(adapter, calls', j)
  BY <1>1, <1>2, AnswerGiven
<1>6. Told(server', c)
  BY <1>1, <1>2, <1>3, <1>4 DEF Told, Requests
<1>7. \A j \in 1..MaxCalls : Told(server', calls[j])
  BY <1>1, BasicsSay
<1>8. \A j \in 1..MaxCalls : Told(server', calls'[j])
  BY <1>1, <1>2, <1>6, <1>7, AnsweredTruly
<1>9. used' \in Counts
  <2> DEFINE Mark(task, visit) == IF calls[i].task = task /\ Current(adapter, calls[i])
                                   THEN calls[i].generation ELSE visit
             m == Mark("open", used.opening)
             n == Mark("event", used.refresh)
  <2>1. used \in Counts /\ calls[i].generation \in Nat /\ used.faults < MaxFaults
    BY <1>3, BasicsSay DEF Lost, CallRecord
  <2>2. m \in Nat /\ n \in Nat
    BY <2>1 DEF Counts
  <2>3. used' = [used EXCEPT !.faults = used.faults + 1, !.opening = m, !.refresh = n]
    BY DEF Lost
  <2> HIDE DEF m, n
  <2>4. used' = [asks |-> used.asks, faults |-> used.faults + 1, opening |-> m, refresh |-> n]
    BY <2>1, <2>3 DEF Counts
  <2>5. used.asks \in 0..MaxAsks /\ used.faults + 1 \in 0..MaxFaults
    BY <2>1, StreamAssumption DEF Counts
  <2>6. QED BY <2>2, <2>4, <2>5 DEF Counts
<1>10. QED BY <1>1, <1>5, <1>8, <1>9, BasicsSay, BasicsHold

-----------------------------------------------------------------------------
(* The socket.                                                             *)

\* A field of the socket may be given any value of its kind.
LEMMA PhaseField ==
  ASSUME NEW k \in Socket, NEW p \in {"none", "connecting", "open", "broken", "gone"}
  PROVE  /\ [k EXCEPT !.phase = p] \in Socket
         /\ [k EXCEPT !.phase = p].phase = p
         /\ [k EXCEPT !.phase = p].at = k.at
         /\ [k EXCEPT !.phase = p].inbox = k.inbox
  BY DEF Socket

LEMMA AtField ==
  ASSUME NEW k \in Socket, NEW n \in Nat
  PROVE  /\ [k EXCEPT !.at = n] \in Socket
         /\ [k EXCEPT !.at = n].at = n
         /\ [k EXCEPT !.at = n].phase = k.phase
         /\ [k EXCEPT !.at = n].inbox = k.inbox
  BY DEF Socket

LEMMA InboxField ==
  ASSUME NEW k \in Socket, NEW q \in Seq(Event)
  PROVE  /\ [k EXCEPT !.inbox = q] \in Socket
         /\ [k EXCEPT !.inbox = q].inbox = q
         /\ [k EXCEPT !.inbox = q].phase = k.phase
         /\ [k EXCEPT !.inbox = q].at = k.at
  BY DEF Socket

LEMMA AcceptBasics == ASSUME Basics, Accept PROVE Basics'
<1>1. UNCHANGED <<server, calls, used>> /\ socket.phase = "connecting"
  BY DEF Accept
<1>2. PICK p \in {"gone", "broken", "open"} : socket' = [socket EXCEPT !.phase = p]
  BY DEF Accept
<1>3. PICK b \in BOOLEAN : adapter' = [adapter EXCEPT !.connected = b]
  <2>1. (adapter.connected \/ socket'.phase = "open") \in BOOLEAN
    OBVIOUS
  <2>2. QED BY <2>1 DEF Accept
<1>4. socket' \in Socket /\ socket'.at = socket.at /\ socket'.inbox = socket.inbox
      /\ socket'.phase # "none"
  <2>1. p \in {"none", "connecting", "open", "broken", "gone"} /\ p # "none"
    OBVIOUS
  <2>2. socket \in Socket
    BY BasicsSay
  <2>3. QED BY <1>2, <2>1, <2>2, PhaseField
<1>5. /\ adapter' \in Adapter /\ adapter'.active = adapter.active
      /\ adapter'.view = adapter.view /\ adapter'.cursor = adapter.cursor
      /\ adapter'.forgotten = adapter.forgotten
  BY <1>3, BasicsSay DEF Adapter
<1>6. Screened(server', adapter')
  BY <1>1, <1>5, BasicsSay DEF Screened
<1>7. Streamed(server', adapter', socket')
  BY <1>1, <1>4, <1>5, BasicsSay DEF Streamed
<1>8. \A i \in 1..MaxCalls : Told(server', calls'[i]) /\ Newborn(adapter', calls', i)
  BY <1>1, <1>5, BasicsSay DEF Newborn
<1>9. QED BY <1>1, <1>4, <1>5, <1>6, <1>7, <1>8, BasicsSay, BasicsHold

LEMMA BreakBasics == ASSUME Basics, Break PROVE Basics'
<1>1. UNCHANGED <<server, adapter, calls>> /\ socket.phase # "none"
  BY DEF Break
<1>2. <<>> \in Seq(Event) /\ Len(<<>>) = 0
  BY EmptySeq
<1> DEFINE k == [socket EXCEPT !.phase = "broken"]
<1>3. k \in Socket /\ k.at = socket.at
  BY BasicsSay, PhaseField
<1>4. socket' = [k EXCEPT !.inbox = <<>>]
  BY DEF Break
<1> HIDE DEF k
<1>5. socket' \in Socket /\ socket'.at = socket.at /\ socket'.inbox = <<>>
  BY <1>2, <1>3, <1>4, InboxField
<1>6. Streamed(server', adapter', socket')
  BY <1>1, <1>2, <1>5, BasicsSay DEF Streamed
<1>7. used' \in Counts
  BY BasicsSay, FaultCounted DEF Break
<1>8. QED BY <1>1, <1>5, <1>6, <1>7, BasicsSay, BasicsHold

\* What is read of a session's events after a position is of that session's past.
LEMMA Batch ==
  ASSUME NEW r \in SessionRecord, Retained(r), NEW at \in Nat, at <= r.seq
  PROVE  /\ After(r, at) \in Seq(Event)
         /\ \A n \in 1..Len(After(r, at)) : After(r, at)[n].seq <= r.seq
         /\ Len(r.log) # 0 => /\ <<r.log[Len(r.log)]>> \in Seq(Event)
                              /\ r.log[Len(r.log)].seq <= r.seq
<1>1. r.log \in Seq(Event) /\ r.seq \in Nat /\ r.seq - at \in Nat /\ Len(r.log) \in Nat
  BY DEF SessionRecord
<1>2. \A n \in 1..Len(r.log) : r.log[n].seq <= r.seq /\ r.log[n] \in Event
  BY <1>1 DEF Retained
<1> DEFINE l == Last(r.log, r.seq - at)
<1>3. /\ l \in Seq(Event)
      /\ \A k \in 1..Len(l) :
           /\ Len(r.log) - Len(l) + k \in 1..Len(r.log)
           /\ l[k] = r.log[Len(r.log) - Len(l) + k]
  BY <1>1, LastOnes
<1>4. l = After(r, at)
  BY DEF After
<1> HIDE DEF l
<1>5. \A k \in 1..Len(l) : l[k].seq <= r.seq
  BY <1>2, <1>3
<1>6. Len(r.log) # 0 => r.log[Len(r.log)].seq <= r.seq /\ r.log[Len(r.log)] \in Event
  BY <1>1, <1>2
<1>7. QED BY <1>3, <1>4, <1>5, <1>6

LEMMA PollBasics == ASSUME Basics, Poll PROVE Basics'
<1> DEFINE s == adapter.active
<1>1. socket.phase = "open" /\ UNCHANGED <<adapter, calls, used>>
  BY DEF Poll
<1>2. s \in Sessions /\ s # None /\ socket.at <= server[s].seq
  BY <1>1, BasicsSay DEF Streamed, Adapter, Named
<1>3. CASE ~Exists(s)
  <2>1. socket' = [socket EXCEPT !.phase = "gone"] /\ UNCHANGED server
    BY <1>3 DEF Poll
  <2>2. socket' \in Socket /\ socket'.at = socket.at /\ socket'.inbox = socket.inbox
        /\ socket'.phase # "none"
    BY <2>1, BasicsSay, PhaseField
  <2>3. Streamed(server', adapter', socket')
    BY <1>1, <2>1, <2>2, BasicsSay DEF Streamed
  <2>4. QED BY <1>1, <2>1, <2>2, <2>3, BasicsSay, BasicsHold
<1>4. CASE Exists(s)
  <2>1. PICK r \in SessionRecord, batch \in Seq(Event) :
          /\ Retained(r) /\ GoesOn(server[s], r)
          /\ server' = [server EXCEPT ![s] = r]
          /\ batch # <<>>
          /\ socket' = [socket EXCEPT !.at = batch[Len(batch)].seq, !.inbox = @ \o batch]
          /\ \A n \in 1..Len(batch) : batch[n].seq <= r.seq
    <3>1. CASE Missed(server[s])
      <4> DEFINE r == Published(server[s], TRUE)
                 e == r.log[Len(r.log)]
      <4>1. /\ r \in SessionRecord /\ Retained(r) /\ GoesOn(server[s], r) /\ Len(r.log) # 0
        BY <1>2, RecordsGoOn
      <4>2. /\ server' = [server EXCEPT ![s] = r]
            /\ socket' = [socket EXCEPT !.at = <<e>>[Len(<<e>>)].seq, !.inbox = @ \o <<e>>]
            /\ <<e>> # <<>>
        BY <1>4, <3>1 DEF Poll
      <4> HIDE DEF r
      <4>3. r.seq \in Nat
        BY <4>1 DEF SessionRecord
      <4>4. <<e>> \in Seq(Event) /\ e.seq <= r.seq
        BY <4>1, <4>3, Batch
      <4> HIDE DEF e
      <4>5. \A n \in 1..Len(<<e>>) : <<e>>[n].seq <= r.seq
        BY <4>4
      <4>6. QED BY <4>1, <4>2, <4>4, <4>5
    <3>2. CASE ~Missed(server[s])
      <4> DEFINE batch == After(server[s], socket.at)
      <4>1. /\ server' = [server EXCEPT ![s] = server[s]]
            /\ socket' = [socket EXCEPT !.at = batch[Len(batch)].seq, !.inbox = @ \o batch]
            /\ batch # <<>>
        BY <1>4, <3>2 DEF Poll
      <4>2. server[s] \in SessionRecord /\ Retained(server[s]) /\ GoesOn(server[s], server[s])
        BY <1>2, RecordsGoOn
      <4>3. socket.at \in Nat
        BY BasicsSay DEF Socket
      <4>4. batch \in Seq(Event) /\ \A n \in 1..Len(batch) : batch[n].seq <= server[s].seq
        BY <1>2, <4>2, <4>3, Batch
      <4>5. QED BY <4>1, <4>2, <4>4
    <3>3. QED BY <3>1, <3>2
  <2>2. /\ server' \in Server
        /\ \A t \in Sessions : Retained(server'[t])
        /\ Screened(server', adapter)
        /\ Streamed(server', adapter, socket)
        /\ \A j \in 1..MaxCalls : Told(server', calls[j])
        /\ server'[s] = r
    BY <1>2, <2>1, OneGoesOn, BasicsSay DEF Server
  <2>3. Len(batch) \in 1..Len(batch) /\ batch[Len(batch)] \in Event
    BY <2>1
  <2> DEFINE n == batch[Len(batch)].seq
             q == socket.inbox \o batch
             k == [socket EXCEPT !.at = n]
  <2>4. n \in Nat /\ n <= r.seq
    BY <2>1, <2>3 DEF Event
  <2>5. k \in Socket /\ k.phase = socket.phase /\ k.inbox = socket.inbox /\ k.at = n
    BY <2>4, BasicsSay, AtField
  <2>6. socket' = [k EXCEPT !.inbox = q]
    BY <2>1, BasicsSay DEF Socket
  <2>7. socket.inbox \in Seq(Event)
    BY BasicsSay DEF Socket
  <2> HIDE DEF k, n
  <2>8. /\ q \in Seq(Event)
        /\ \A m \in 1..Len(q) : q[m].seq <= r.seq
    <3>1. \A m \in 1..Len(socket.inbox) : socket.inbox[m].seq <= r.seq
      BY <1>1, <2>2 DEF Streamed
    <3>2. /\ q \in Seq(Event) /\ Len(q) = Len(socket.inbox) + Len(batch)
          /\ \A m \in 1..Len(socket.inbox) + Len(batch) :
               q[m] = IF m <= Len(socket.inbox) THEN socket.inbox[m]
                      ELSE batch[m - Len(socket.inbox)]
      BY <2>7, ConcatProperties
    <3>3. Len(socket.inbox) \in Nat /\ Len(batch) \in Nat
      BY <2>7
    <3>4. ASSUME NEW m \in 1..Len(q), m > Len(socket.inbox)
          PROVE  m - Len(socket.inbox) \in 1..Len(batch)
      BY <3>2, <3>3, <3>4
    <3>5. QED BY <2>1, <3>1, <3>2, <3>3, <3>4
  <2> HIDE DEF q
  <2>9. /\ socket' \in Socket /\ socket'.at = n /\ socket'.inbox = q
        /\ socket'.phase = socket.phase
    BY <2>5, <2>6, <2>8, InboxField
  <2>10. Streamed(server', adapter', socket')
    BY <1>1, <1>2, <2>2, <2>4, <2>8, <2>9 DEF Streamed
  <2>11. QED BY <1>1, <2>2, <2>9, <2>10, BasicsSay, BasicsHold
<1>5. QED BY <1>3, <1>4

-----------------------------------------------------------------------------
(* The callbacks, the calls and the operator.                              *)

\* No other call than that in place i is the creation of session s.
Unborn(i, s) ==
  s = None \/ \A j \in 1..MaxCalls \ {i} : calls[j].task = "create" => calls[j].session # s

LEMMA Known1 ==
  ASSUME Basics, NEW i \in 1..MaxCalls
  PROVE  /\ Unborn(i, calls[i].session)
         /\ Unborn(i, adapter.active)
         /\ \A s \in adapter.forgotten : Unborn(i, s)
         /\ \A s \in Sessions : Known(s) => Unborn(i, s)
<1>1. Unborn(i, calls[i].session)
  BY BasicsSay DEF Unborn, Newborn
<1>2. Unborn(i, adapter.active)
  BY BasicsSay DEF Unborn, Newborn
<1>3. ASSUME NEW s \in adapter.forgotten PROVE Unborn(i, s)
  BY BasicsSay, StreamAssumption DEF Unborn, Newborn, Adapter
<1>4. \A s \in Sessions : Known(s) => Unborn(i, s)
  BY BasicsSay DEF Unborn, Known
<1>5. QED BY <1>1, <1>2, <1>3, <1>4

LEMMA Placed ==
  ASSUME Basics, NEW i \in 1..MaxCalls, NEW c \in CallRecord, Becomes(i, c)
  PROVE  /\ calls' \in Calls /\ calls'[i] = c
         /\ \A j \in 1..MaxCalls \ {i} : calls'[j] = calls[j]
  BY BasicsSay DEF Becomes, Calls

LEMMA NewbornsStay ==
  ASSUME Basics, NEW b \in Adapter, NEW i \in 1..MaxCalls, NEW c \in CallRecord,
         Becomes(i, c), c.task = "create" => c.session = None,
         Unborn(i, c.session), Unborn(i, b.active), \A s \in b.forgotten : Unborn(i, s)
  PROVE  \A j \in 1..MaxCalls : Newborn(b, calls', j)
<1>1. calls'[i] = c /\ \A j \in 1..MaxCalls \ {i} : calls'[j] = calls[j]
  BY Placed
<1>2. Newborn(b, calls', i)
  BY <1>1 DEF Newborn
<1>3. ASSUME NEW j \in 1..MaxCalls \ {i} PROVE Newborn(b, calls', j)
  <2>1. Newborn(adapter, calls, j)
    BY BasicsSay
  <2>2. QED BY <1>1, <2>1 DEF Newborn, Unborn
<1>4. QED BY <1>2, <1>3

\* A step of the browser that changes the adapter, the socket and one call.
LEMMA OneCallStep ==
  ASSUME Basics, UNCHANGED server, used' \in Counts,
         adapter' \in Adapter, Screened(server, adapter'),
         socket' \in Socket, Streamed(server, adapter', socket'),
         NEW i \in 1..MaxCalls, NEW c \in CallRecord, Becomes(i, c), Told(server, c),
         c.task = "create" => c.session = None,
         Unborn(i, c.session), Unborn(i, adapter'.active),
         \A s \in adapter'.forgotten : Unborn(i, s)
  PROVE  Basics'
<1>1. calls' \in Calls /\ calls'[i] = c
      /\ \A j \in 1..MaxCalls \ {i} : calls'[j] = calls[j]
  BY Placed
<1>2. \A j \in 1..MaxCalls : Told(server', calls'[j])
  BY <1>1, BasicsSay
<1>3. \A j \in 1..MaxCalls : Newborn(adapter', calls', j)
  BY NewbornsStay
<1>4. QED BY <1>1, <1>2, <1>3, BasicsSay, BasicsHold

\* A step that leaves the calls alone, or ends some of them.
LEMMA EndingStep ==
  ASSUME Basics, UNCHANGED server, used' \in Counts,
         adapter' \in Adapter, Screened(server, adapter'),
         adapter'.active \in {adapter.active, None}, adapter'.forgotten = adapter.forgotten,
         socket' \in Socket, Streamed(server, adapter', socket'),
         calls' \in Calls, \A j \in 1..MaxCalls : calls'[j] \in {calls[j], Idle}
  PROVE  Basics'
<1>1. Told(server, Idle)
  BY Blank DEF Told, Waiting, Idle
<1>2. \A j \in 1..MaxCalls : Told(server', calls'[j])
  BY <1>1, BasicsSay
<1>3. ASSUME NEW j \in 1..MaxCalls PROVE Newborn(adapter', calls', j)
  BY Blank, BasicsSay DEF Newborn
<1>4. QED BY <1>2, <1>3, BasicsSay, BasicsHold
\* Whoever looks at the same session has the same stream.
LEMMA StreamKept ==
  ASSUME NEW sv, NEW a, NEW b, NEW k, Streamed(sv, a, k), b.active = a.active
  PROVE  Streamed(sv, b, k)
  BY DEF Streamed

LEMMA NothingStreamed == \A sv, a : Streamed(sv, a, NoSocket)
  BY DEF Streamed, NoSocket

LEMMA NothingTold == Told(server, Idle) /\ \A i : Unborn(i, None)
  BY DEF Told, Idle, Waiting, Unborn

\* An answer brings a state the session had.
LEMMA Answered ==
  ASSUME Basics, NEW i \in 1..MaxCalls, Done(i)
  PROVE  /\ calls[i].session \in Sessions /\ calls[i].session # None
         /\ calls[i].session \in Named
         /\ calls[i].answer.seq \in Nat /\ calls[i].known \in Nat /\ calls[i].generation \in Nat
         /\ server[calls[i].session].seq \in Nat
         /\ calls[i].answer.seq <= server[calls[i].session].seq
         /\ calls[i].known <= server[calls[i].session].seq
         /\ server[calls[i].session].state # "none"
<1>1. calls[i] \in CallRecord /\ Told(server, calls[i])
  BY BasicsSay
<1>2. calls[i].session # None
  BY <1>1 DEF Told, Done
<1>3. calls[i].session \in Sessions
  BY <1>1, <1>2 DEF CallRecord
<1>4. server[calls[i].session].seq \in Nat
  BY <1>3, BasicsSay DEF Server, SessionRecord
<1>5. /\ calls[i].answer.seq \in Nat /\ calls[i].known \in Nat /\ calls[i].generation \in Nat
  BY <1>1 DEF CallRecord
<1>6. /\ calls[i].answer.seq <= server[calls[i].session].seq
      /\ calls[i].known <= server[calls[i].session].seq
      /\ server[calls[i].session].state # "none"
  BY <1>1, <1>2 DEF Told, Done
<1>7. QED BY <1>2, <1>3, <1>4, <1>5, <1>6 DEF Named

\* What is seen in an answer is true, and of the same visit.
LEMMA Seeing ==
  ASSUME Basics, NEW i \in 1..MaxCalls, Done(i)
  PROVE  LET b == Seen(adapter, i) IN
         /\ b \in Adapter /\ Screened(server, b) /\ Streamed(server, b, socket)
         /\ b.active = adapter.active /\ b.generation = adapter.generation
         /\ b.stopped = adapter.stopped /\ b.forgotten = adapter.forgotten
<1> DEFINE s == calls[i].session
           n == calls[i].answer.seq
           b == Shown(adapter, s, n)
<1>1. /\ s \in Sessions /\ s \in Named /\ n \in Nat /\ n <= server[s].seq
      /\ server \in Server /\ adapter \in Adapter /\ Screened(server, adapter)
      /\ Streamed(server, adapter, socket)
  BY Answered, BasicsSay
<1> HIDE DEF s, n
<1>2. /\ b \in Adapter
      /\ b.active = adapter.active /\ b.generation = adapter.generation
      /\ b.stopped = adapter.stopped /\ b.forgotten = adapter.forgotten
  BY <1>1, ShowingStays
<1>3. Screened(server, b)
  BY <1>1, ShowingTrue
<1>4. Streamed(server, b, socket)
  BY <1>1, <1>2, StreamKept
<1>5. b = Seen(adapter, i)
  BY DEF Seen, s, n
<1>6. QED BY <1>2, <1>3, <1>4, <1>5

\* Connecting to the session on the screen opens a stream; otherwise nothing happens.
LEMMA Connected ==
  ASSUME server \in Server, NEW a \in Adapter, NEW s \in Sessions, NEW n \in Nat,
         n <= server[s].seq, Screened(server, a), Connect(a, s, n),
         socket \in Socket,
         \/ Streamed(server, a, socket)
         \/ s \notin a.forgotten /\ s = a.active
  PROVE  /\ adapter' \in Adapter /\ Screened(server, adapter')
         /\ socket' \in Socket /\ Streamed(server, adapter', socket')
         /\ adapter'.active = a.active /\ adapter'.generation = a.generation
         /\ adapter'.view = a.view /\ adapter'.forgotten = a.forgotten
         /\ \/ /\ s \in a.forgotten \/ s # a.active
               /\ adapter' = a /\ UNCHANGED socket
            \/ /\ s \notin a.forgotten /\ s = a.active
               /\ adapter'.cursor = Larger(a.cursor, n)
               /\ ~adapter'.stopped
               /\ socket'.phase = "connecting"
<1>1. CASE s \in a.forgotten \/ s # a.active
  <2>1. adapter' = a /\ UNCHANGED socket
    BY <1>1 DEF Connect
  <2>2. QED BY <1>1, <2>1
<1>2. CASE s \notin a.forgotten /\ s = a.active
  <2> DEFINE m == Larger(a.cursor, n)
             b == [a EXCEPT !.stopped = FALSE]
  <2>1. /\ adapter' = [b EXCEPT !.cursor = m]
        /\ socket' = [phase |-> "connecting", at |-> n, inbox |-> <<>>]
    <3>1. adapter' = [a EXCEPT !.stopped = FALSE, !.cursor = Larger(a.cursor, n)]
      BY <1>2 DEF Connect
    <3>2. QED BY <1>2, <3>1 DEF Connect
  <2>2. /\ m \in Nat /\ a.cursor <= m /\ n <= m
        /\ m <= server[s].seq /\ a.view.seq \in Nat /\ a.cursor \in Nat
        /\ s # None
    <3>1. a.cursor \in Nat /\ server[s].seq \in Nat /\ a.view.seq \in Nat
      BY DEF Adapter, View, Server, SessionRecord
    <3>2. s # None
      BY StreamAssumption
    <3>3. a.cursor <= server[s].seq
      BY <1>2, <3>2 DEF Screened
    <3>4. QED BY <3>1, <3>2, <3>3 DEF Larger
  <2>3. /\ b \in Adapter /\ b.active = a.active /\ b.generation = a.generation
        /\ b.view = a.view /\ b.forgotten = a.forgotten /\ ~b.stopped
    BY DEF Adapter
  <2> HIDE DEF b, m
  <2>4. /\ adapter' \in Adapter /\ adapter'.active = a.active
        /\ adapter'.generation = a.generation
        /\ adapter'.view = a.view /\ adapter'.forgotten = a.forgotten /\ ~adapter'.stopped
        /\ adapter'.cursor = m
    BY <2>1, <2>2, <2>3 DEF Adapter
  <2>5. Screened(server, adapter')
    BY <1>2, <2>2, <2>4 DEF Screened
  <2>6. <<>> \in Seq(Event) /\ Len(<<>>) = 0
    BY EmptySeq
  <2>7. /\ socket' \in Socket /\ socket'.phase = "connecting" /\ socket'.at = n
        /\ socket'.inbox = <<>>
    BY <2>1, <2>6 DEF Socket
  <2>8. Streamed(server, adapter', socket')
    BY <1>2, <2>2, <2>4, <2>6, <2>7 DEF Streamed
  <2>9. QED BY <1>2, <2>4, <2>5, <2>7, <2>8 DEF m
<1>3. QED BY <1>1, <1>2

\* A new visit is of a session that there is, and has no stream yet.
LEMMA Visiting ==
  ASSUME Basics, NEW s \in Sessions, server[s].state # "none", s \notin adapter.forgotten
  PROVE  Screened(server, Activated(adapter, s))
<1>1. s \in Named /\ s # None /\ server[s].seq \in Nat /\ adapter \in Adapter
      /\ Screened(server, adapter)
  BY BasicsSay, StreamAssumption DEF Named, Server, SessionRecord
<1>2. QED BY <1>1, Activating, Blank DEF Screened

LEMMA Leaving ==
  ASSUME NEW a \in Adapter, \A s \in a.forgotten : server[s].state = "deleted"
  PROVE  Screened(server, Cleared(a))
  BY Clearing, Blank DEF Screened
\* A call that ends.
LEMMA EndedStep ==
  ASSUME Basics, UNCHANGED server, used' \in Counts,
         adapter' \in Adapter, Screened(server, adapter'),
         socket' \in Socket, Streamed(server, adapter', socket'),
         NEW i \in 1..MaxCalls, Ends(i),
         Unborn(i, adapter'.active), \A s \in adapter'.forgotten : Unborn(i, s)
  PROVE  Basics'
<1>1. Idle \in CallRecord /\ Idle.task # "create" /\ Idle.session = None
  BY Blank
<1>2. Told(server, Idle) /\ Unborn(i, Idle.session) /\ Becomes(i, Idle)
  BY <1>1, NothingTold DEF Ends
<1>3. QED BY <1>1, <1>2, OneCallStep

\* A call that goes on to its next wait, or one that begins.
LEMMA CallStep ==
  ASSUME Basics, UNCHANGED server, used' \in Counts,
         adapter' \in Adapter, Screened(server, adapter'),
         socket' \in Socket, Streamed(server, adapter', socket'),
         NEW i \in 1..MaxCalls, NEW t \in (Requests \ {"create"}) \cup {"timer"},
         NEW s \in Sessions, NEW g \in Nat, NEW n \in Nat, Becomes(i, Call(t, s, g, n)),
         server[s].state # "none", n <= server[s].seq,
         Unborn(i, s), Unborn(i, adapter'.active),
         \A f \in adapter'.forgotten : Unborn(i, f)
  PROVE  Basics'
<1> DEFINE c == Call(t, s, g, n)
<1>1. /\ c \in CallRecord
      /\ c.task = t /\ c.session = s /\ c.generation = g /\ c.known = n
      /\ c.answer = Waiting
  <2>1. t \in Requests \cup {"timer"} /\ s \in Named
    BY DEF Named
  <2>2. QED BY <2>1, Calling
<1>2. Becomes(i, c) /\ s # None /\ t # "create"
  BY StreamAssumption DEF Requests
<1> HIDE DEF c
<1>3. Told(server, c)
  BY <1>1, <1>2 DEF Told, Waiting
<1>4. QED BY <1>1, <1>2, <1>3, OneCallStep

\* The session on the screen, when there is a stream or a view.
LEMMA OnScreen ==
  ASSUME Basics, socket.phase # "none" \/ adapter.view # NoView \/ adapter.active # None
  PROVE  /\ adapter.active \in Sessions /\ adapter.active # None
         /\ server[adapter.active].state # "none"
         /\ server[adapter.active].seq \in Nat
         /\ adapter.active \notin adapter.forgotten
         /\ adapter.generation \in Nat /\ adapter.cursor \in Nat
         /\ adapter.cursor <= server[adapter.active].seq
<1>1. /\ adapter \in Adapter /\ server \in Server
      /\ Screened(server, adapter) /\ Streamed(server, adapter, socket)
  BY BasicsSay
<1>2. adapter.active # None
  BY <1>1 DEF Screened, Streamed
<1>3. adapter.active \in Sessions /\ adapter.generation \in Nat /\ adapter.cursor \in Nat
  BY <1>1, <1>2 DEF Adapter, Named
<1>4. server[adapter.active].seq \in Nat
  BY <1>1, <1>3 DEF Server, SessionRecord
<1>5. QED BY <1>1, <1>2, <1>3, <1>4 DEF Screened

\* A flag of the adapter, or its timer, changes none of the basic facts.
LEMMA Flagged ==
  ASSUME Basics, NEW i \in Nat
  PROVE  LET a == [adapter EXCEPT !.connected = FALSE]
             b == [adapter EXCEPT !.connected = FALSE, !.timer = i] IN
         /\ a \in Adapter /\ Screened(server, a) /\ Streamed(server, a, socket)
         /\ a.active = adapter.active /\ a.forgotten = adapter.forgotten
         /\ a.generation = adapter.generation /\ a.stopped = adapter.stopped
         /\ a.view = adapter.view /\ a.cursor = adapter.cursor
         /\ b \in Adapter /\ Screened(server, b) /\ Streamed(server, b, socket)
         /\ b.active = adapter.active /\ b.forgotten = adapter.forgotten
         /\ b.generation = adapter.generation /\ b.stopped = adapter.stopped
         /\ b.view = adapter.view /\ b.cursor = adapter.cursor
<1> DEFINE a == [adapter EXCEPT !.connected = FALSE]
           b == [a EXCEPT !.timer = i]
<1>1. /\ adapter \in Adapter
      /\ Screened(server, adapter) /\ Streamed(server, adapter, socket)
  BY BasicsSay
<1>2. /\ a \in Adapter
      /\ a.active = adapter.active /\ a.forgotten = adapter.forgotten
      /\ a.generation = adapter.generation /\ a.stopped = adapter.stopped
      /\ a.view = adapter.view /\ a.cursor = adapter.cursor
  BY <1>1 DEF Adapter
<1>3. b = [adapter EXCEPT !.connected = FALSE, !.timer = i]
  OBVIOUS
<1>4. /\ b \in Adapter
      /\ b.active = adapter.active /\ b.forgotten = adapter.forgotten
      /\ b.generation = adapter.generation /\ b.stopped = adapter.stopped
      /\ b.view = adapter.view /\ b.cursor = adapter.cursor
  <2> HIDE DEF a
  <2>1. QED BY <1>2 DEF Adapter
<1> HIDE DEF a, b
<1>5. Screened(server, a) /\ Screened(server, b)
  BY <1>1, <1>2, <1>4 DEF Screened
<1>6. Streamed(server, a, socket) /\ Streamed(server, b, socket)
  BY <1>1, <1>2, <1>4, StreamKept
<1>7. QED BY <1>2, <1>3, <1>4, <1>5, <1>6 DEF a, b
\* The first event on the way, and what is left.
LEMMA Arriving ==
  ASSUME Basics, socket.inbox # <<>>, socket' = [socket EXCEPT !.inbox = Tail(@)]
  PROVE  /\ Head(socket.inbox) \in Event
         /\ Head(socket.inbox).seq <= server[adapter.active].seq
         /\ socket.phase # "none"
         /\ socket' \in Socket /\ socket'.phase = socket.phase
         /\ Streamed(server, adapter, socket')
<1> DEFINE q == socket.inbox
<1>1. q \in Seq(Event) /\ socket \in Socket /\ Streamed(server, adapter, socket)
  BY BasicsSay DEF Socket
<1>2. /\ Head(q) \in Event /\ Head(q) = q[1] /\ 1 \in 1..Len(q)
      /\ Tail(q) \in Seq(Event) /\ Len(Tail(q)) = Len(q) - 1
      /\ \A n \in 1..Len(Tail(q)) : n + 1 \in 1..Len(q) /\ Tail(q)[n] = q[n + 1]
  BY <1>1
<1>3. socket.phase # "none"
  BY <1>1 DEF Streamed
<1>4. /\ socket' \in Socket /\ socket'.phase = socket.phase /\ socket'.at = socket.at
      /\ socket'.inbox = Tail(q)
  BY <1>1, <1>2, InboxField
<1>5. Streamed(server, adapter, socket')
  BY <1>1, <1>2, <1>3, <1>4 DEF Streamed
<1>6. Head(q).seq <= server[adapter.active].seq
  BY <1>1, <1>2, <1>3 DEF Streamed
<1>7. QED BY <1>2, <1>3, <1>4, <1>5, <1>6

\* The next event is taken up.
LEMMA TakenUp ==
  ASSUME Basics, NEW n \in Nat, socket.phase # "none", n = adapter.cursor + 1,
         n <= server[adapter.active].seq
  PROVE  LET a == [adapter EXCEPT !.cursor = n]
             b == Shown(a, adapter.active, n) IN
         /\ a \in Adapter /\ Screened(server, a)
         /\ a.active = adapter.active /\ a.forgotten = adapter.forgotten
         /\ a.generation = adapter.generation /\ a.stopped = adapter.stopped
         /\ a.view = adapter.view /\ a.cursor = n
         /\ b \in Adapter /\ Screened(server, b)
         /\ b.active = adapter.active /\ b.forgotten = adapter.forgotten
         /\ b.generation = adapter.generation /\ b.stopped = adapter.stopped
<1> DEFINE a == [adapter EXCEPT !.cursor = n]
           b == Shown(a, adapter.active, n)
<1>1. adapter \in Adapter /\ server \in Server /\ Screened(server, adapter)
  BY BasicsSay
<1>2. adapter.active \in Sessions /\ adapter.active \in Named /\ adapter.cursor \in Nat
      /\ adapter.active # None
  BY OnScreen DEF Named
<1>3. /\ a \in Adapter /\ a.active = adapter.active /\ a.forgotten = adapter.forgotten
      /\ a.generation = adapter.generation /\ a.stopped = adapter.stopped
      /\ a.view = adapter.view /\ a.cursor = n
  BY <1>1 DEF Adapter
<1> HIDE DEF a
<1>4. adapter.view.seq \in Nat
  BY <1>1 DEF Adapter, View
<1>5. Screened(server, a)
  BY <1>1, <1>2, <1>3, <1>4 DEF Screened
<1>6. Screened(server, b)
  BY <1>1, <1>2, <1>3, <1>5, ShowingTrue
<1>7. /\ b \in Adapter
      /\ b.active = a.active /\ b.forgotten = a.forgotten
      /\ b.generation = a.generation /\ b.stopped = a.stopped
  BY <1>2, <1>3, ShowingStays
<1>8. QED BY <1>3, <1>5, <1>6, <1>7 DEF a

LEMMA MessageBasics == ASSUME Basics, Message PROVE Basics'
<1> DEFINE e == Head(socket.inbox)
           s == adapter.active
           g == adapter.generation
           next == [adapter EXCEPT !.cursor = e.seq]
<1>1. UNCHANGED server /\ socket' = [socket EXCEPT !.inbox = Tail(@)]
      /\ socket.inbox # <<>> /\ (UNCHANGED used \/ used' = EventTaken)
  BY DEF Message
<1>2. /\ e \in Event /\ e.seq \in Nat /\ e.seq <= server[s].seq /\ socket.phase # "none"
      /\ socket' \in Socket /\ Streamed(server, adapter, socket')
  BY <1>1, Arriving DEF Event
<1>3. /\ s \in Sessions /\ server[s].state # "none" /\ server[s].seq \in Nat /\ g \in Nat
      /\ adapter.cursor \in Nat
  BY <1>2, OnScreen
<1>4. /\ used' \in Counts /\ calls \in Calls
      /\ Screened(server, adapter) /\ adapter \in Adapter /\ Places = 1..MaxCalls
  BY <1>1, BasicsSay DEF EventTaken, Counts
<1>5. \A i \in 1..MaxCalls : Unborn(i, s) /\ \A f \in adapter.forgotten : Unborn(i, f)
  BY Known1
<1>6. CASE e.seq <= adapter.cursor
  <2>1. UNCHANGED <<adapter, calls>>
    BY <1>2, <1>3, <1>6 DEF Message
  <2>2. QED BY <1>1, <1>2, <1>4, <2>1, EndingStep
<1>7. CASE e.seq > adapter.cursor /\ e.seq # adapter.cursor + 1
  <2>1. adapter' = [adapter EXCEPT !.connected = FALSE]
        /\ Begins(Call("recover", s, g, 0))
    BY <1>2, <1>3, <1>7 DEF Message
  <2>2. PICK i \in 1..MaxCalls : Becomes(i, Call("recover", s, g, 0))
    BY <1>4, <2>1 DEF Begins
  <2>3. /\ adapter' \in Adapter /\ Screened(server, adapter')
        /\ adapter'.active = s /\ adapter'.forgotten = adapter.forgotten
    BY <2>1, Flagged
  <2>4. Streamed(server, adapter', socket')
    BY <1>2, <2>3, StreamKept
  <2>5. "recover" \in (Requests \ {"create"}) \cup {"timer"} /\ 0 \in Nat /\ 0 <= server[s].seq
    BY <1>3 DEF Requests
  <2>6. QED BY <1>1, <1>2, <1>3, <1>4, <1>5, <2>2, <2>3, <2>4, <2>5, CallStep
<1>8. CASE e.seq = adapter.cursor + 1 /\ e.full
  <2>1. adapter' = Shown(next, s, e.seq) /\ UNCHANGED calls
    BY <1>2, <1>3, <1>8 DEF Message, Event
  <2>2. /\ adapter' \in Adapter /\ Screened(server, adapter')
        /\ adapter'.active = s /\ adapter'.forgotten = adapter.forgotten
    BY <1>2, <1>8, <2>1, TakenUp
  <2>3. Streamed(server, adapter', socket')
    BY <1>2, <2>2, StreamKept
  <2>4. QED BY <1>1, <1>2, <1>4, <2>1, <2>2, <2>3, EndingStep
<1>9. CASE e.seq = adapter.cursor + 1 /\ ~e.full
  <2>1. adapter' = next /\ Begins(Call("event", s, g, 0))
    BY <1>2, <1>3, <1>9 DEF Message, Event
  <2>2. PICK i \in 1..MaxCalls : Becomes(i, Call("event", s, g, 0))
    BY <1>4, <2>1 DEF Begins
  <2>3. /\ adapter' \in Adapter /\ Screened(server, adapter')
        /\ adapter'.active = s /\ adapter'.forgotten = adapter.forgotten
    BY <1>2, <1>9, <2>1, TakenUp
  <2>4. Streamed(server, adapter', socket')
    BY <1>2, <2>3, StreamKept
  <2>5. "event" \in (Requests \ {"create"}) \cup {"timer"} /\ 0 \in Nat /\ 0 <= server[s].seq
    BY <1>3 DEF Requests
  <2>6. QED BY <1>1, <1>2, <1>3, <1>4, <1>5, <2>2, <2>3, <2>4, <2>5, CallStep
<1>10. QED BY <1>2, <1>3, <1>6, <1>7, <1>8, <1>9

LEMMA ClosedBasics == ASSUME Basics, Closed PROVE Basics'
<1> DEFINE s == adapter.active
           g == adapter.generation
<1>1. UNCHANGED <<server, used>> /\ socket' = NoSocket /\ socket.phase \in {"broken", "gone"}
  BY DEF Closed
<1>2. /\ s \in Sessions /\ server[s].state # "none" /\ server[s].seq \in Nat /\ g \in Nat
  BY <1>1, OnScreen
<1>3. /\ used' \in Counts /\ calls \in Calls
      /\ Screened(server, adapter) /\ adapter \in Adapter /\ Places = 1..MaxCalls
  BY <1>1, BasicsSay
<1>4. \A i \in 1..MaxCalls : Unborn(i, s) /\ \A f \in adapter.forgotten : Unborn(i, f)
  BY Known1
<1>5. socket' \in Socket /\ Streamed(server, adapter', socket')
  BY <1>1, Blank, NothingStreamed
<1>6. CASE socket.phase = "gone"
  <2>1. adapter' = Cleared(adapter) /\ UNCHANGED calls
    BY <1>6 DEF Closed
  <2>2. /\ adapter' \in Adapter /\ adapter'.active = None
        /\ adapter'.forgotten = adapter.forgotten
    BY <1>3, <2>1, Clearing
  <2>3. Screened(server, adapter')
    BY <1>3, <2>1, Leaving DEF Screened
  <2>4. QED BY <1>1, <1>3, <1>5, <2>1, <2>2, <2>3, EndingStep
<1>7. CASE socket.phase # "gone"
  <2>1. PICK i \in 1..MaxCalls :
          /\ adapter' = [adapter EXCEPT !.connected = FALSE, !.timer = i]
          /\ Becomes(i, Call("timer", s, g, 0))
    BY <1>3, <1>7 DEF Closed
  <2>2. /\ adapter' \in Adapter /\ Screened(server, adapter')
        /\ adapter'.active = s /\ adapter'.forgotten = adapter.forgotten
    <3>1. i \in Nat
      OBVIOUS
    <3>2. QED BY <2>1, <3>1, Flagged
  <2>3. 0 \in Nat /\ 0 <= server[s].seq
    BY <1>2
  <2>4. QED BY <1>1, <1>2, <1>3, <1>4, <1>5, <2>1, <2>2, <2>3, CallStep
<1>8. QED BY <1>6, <1>7
\* What every step of a call starts from.
LEMMA Started ==
  ASSUME Basics
  PROVE  /\ server \in Server /\ adapter \in Adapter /\ socket \in Socket /\ calls \in Calls
         /\ Screened(server, adapter) /\ Streamed(server, adapter, socket)
         /\ Places = 1..MaxCalls
         /\ UNCHANGED used => used' \in Counts
         /\ \A i \in 1..MaxCalls : /\ Unborn(i, adapter.active)
                                   /\ \A f \in adapter.forgotten : Unborn(i, f)
                                   /\ Unborn(i, calls[i].session)
  BY BasicsSay, Known1

\* stopEvents leaves the session as it is.
LEMMA Stopping ==
  ASSUME Basics, StopEvents(adapter)
  PROVE  /\ adapter' \in Adapter /\ Screened(server, adapter')
         /\ adapter'.active = adapter.active /\ adapter'.forgotten = adapter.forgotten
         /\ adapter'.generation = adapter.generation /\ adapter'.stopped
         /\ adapter'.view = adapter.view /\ adapter'.cursor = adapter.cursor
         /\ socket' = NoSocket /\ socket' \in Socket /\ Streamed(server, adapter', socket')
<1> DEFINE b == [adapter EXCEPT !.stopped = TRUE]
<1>1. adapter \in Adapter /\ Screened(server, adapter)
  BY BasicsSay
<1>2. /\ b \in Adapter /\ b.active = adapter.active /\ b.forgotten = adapter.forgotten
      /\ b.generation = adapter.generation /\ b.stopped
      /\ b.view = adapter.view /\ b.cursor = adapter.cursor
  BY <1>1 DEF Adapter
<1>3. adapter' = [b EXCEPT !.connected = FALSE] /\ socket' = NoSocket
  BY DEF StopEvents
<1> HIDE DEF b
<1>4. /\ adapter' \in Adapter /\ adapter'.active = b.active /\ adapter'.forgotten = b.forgotten
      /\ adapter'.generation = b.generation /\ adapter'.stopped = b.stopped
      /\ adapter'.view = b.view /\ adapter'.cursor = b.cursor
  BY <1>2, <1>3 DEF Adapter
<1>5. Screened(server, adapter')
  BY <1>1, <1>2, <1>4 DEF Screened
<1>6. QED BY <1>2, <1>3, <1>4, <1>5, Blank, NothingStreamed

\* Calls are left alone or ended.
LEMMA Ceasing ==
  ASSUME Basics, NEW i \in 1..MaxCalls
  PROVE  /\ Untimed(calls) \in Calls
         /\ \A j \in 1..MaxCalls : \/ Untimed(calls)[j] = calls[j]
                                   \/ Untimed(calls)[j] = Idle /\ calls[j].task = "timer"
         /\ LET cs == Untimed([calls EXCEPT ![i] = Idle]) IN
            /\ cs \in Calls
            /\ cs[i] = Idle
            /\ \A j \in 1..MaxCalls \ {i} : \/ cs[j] = calls[j]
                                            \/ cs[j] = Idle /\ calls[j].task = "timer"
<1>1. calls \in Calls /\ Idle \in CallRecord
  BY BasicsSay, Blank
<1>2. /\ Untimed(calls) \in Calls
      /\ \A j \in 1..MaxCalls : \/ Untimed(calls)[j] = calls[j]
                                \/ Untimed(calls)[j] = Idle /\ calls[j].task = "timer"
  BY <1>1 DEF Untimed, Calls
<1> DEFINE d == [calls EXCEPT ![i] = Idle]
<1>3. d \in Calls /\ d[i] = Idle /\ \A j \in 1..MaxCalls \ {i} : d[j] = calls[j]
  BY <1>1 DEF Calls
<1> HIDE DEF d
<1>4. /\ Untimed(d) \in Calls
      /\ \A j \in 1..MaxCalls : \/ Untimed(d)[j] = d[j]
                                \/ Untimed(d)[j] = Idle /\ d[j].task = "timer"
  BY <1>1, <1>3 DEF Untimed, Calls
<1>5. QED BY <1>2, <1>3, <1>4 DEF d

LEMMA OpenFailsBasics ==
  ASSUME Basics, NEW i \in 1..MaxCalls, OpenFails(i), UNCHANGED <<server, used>>
  PROVE  Basics'
<1>1. CASE adapter.active = calls[i].session
  <2>1. StopEvents(adapter) /\ calls' = Untimed([calls EXCEPT ![i] = Idle])
    BY <1>1 DEF OpenFails
  <2>2. calls' \in Calls /\ \A j \in 1..MaxCalls : calls'[j] \in {calls[j], Idle}
    BY <2>1, Ceasing
  <2>3. QED BY <2>1, <2>2, Stopping, Started, EndingStep
<1>2. CASE adapter.active # calls[i].session
  <2>1. Ends(i) /\ UNCHANGED <<adapter, socket>>
    BY <1>2 DEF OpenFails
  <2>2. QED BY <2>1, Started, EndedStep
<1>3. QED BY <1>1, <1>2

LEMMA OpenedBasics == ASSUME Basics, NEW i \in 1..MaxCalls, Opened(i) PROVE Basics'
<1> DEFINE c == calls[i]
           shown == Seen(adapter, i)
<1>1. UNCHANGED <<server, used>>
  BY DEF Opened
<1>2. CASE ~(Done(i) /\ Current(adapter, c))
  BY <1>1, <1>2, OpenFailsBasics DEF Opened
<1>3. CASE Done(i) /\ Current(adapter, c)
  <2> DEFINE s == c.session
             g == adapter.generation
             n == shown.view.seq
  <2>1. /\ adapter' = shown /\ UNCHANGED socket
        /\ Becomes(i, Call("openProbe", s, g, n))
    BY <1>3 DEF Opened
  <2>2. /\ shown \in Adapter /\ Screened(server, shown) /\ Streamed(server, shown, socket)
        /\ shown.active = adapter.active /\ shown.generation = adapter.generation
        /\ shown.forgotten = adapter.forgotten
    BY <1>3, Seeing
  <2>3. s \in Sessions /\ server[s].state # "none" /\ s = adapter.active /\ s # None
    BY <1>3, Answered DEF Current
  <2> HIDE DEF shown, s
  <2>4. n \in Nat /\ n <= server[s].seq /\ g \in Nat
    <3>1. shown.view.seq \in Nat /\ shown.cursor \in Nat /\ g \in Nat /\ server[s].seq \in Nat
      BY <2>2, <2>3, Started DEF Adapter, View, Server, SessionRecord
    <3>2. QED BY <2>2, <2>3, <3>1 DEF Screened
  <2> HIDE DEF n, g
  <2>5. "openProbe" \in (Requests \ {"create"}) \cup {"timer"}
    BY DEF Requests
  <2>6. Unborn(i, s)
    BY Started DEF s
  <2>7. QED BY <1>1, <2>1, <2>2, <2>3, <2>4, <2>5, <2>6, Started, CallStep
<1>4. QED BY <1>2, <1>3

LEMMA OpenedProbeBasics == ASSUME Basics, NEW i \in 1..MaxCalls, OpenedProbe(i) PROVE Basics'
<1>1. UNCHANGED <<server, used>>
  BY DEF OpenedProbe
<1>2. CASE ~Done(i)
  BY <1>1, <1>2, OpenFailsBasics DEF OpenedProbe
<1>3. CASE Done(i)
  <2> DEFINE s == calls[i].session
             n == calls[i].known
  <2>1. Connect(adapter, s, n) /\ Ends(i)
    BY <1>3 DEF OpenedProbe
  <2>2. s \in Sessions /\ n \in Nat /\ n <= server[s].seq
    BY <1>3, Answered
  <2>3. /\ adapter' \in Adapter /\ Screened(server, adapter')
        /\ socket' \in Socket /\ Streamed(server, adapter', socket')
        /\ adapter'.active = adapter.active /\ adapter'.forgotten = adapter.forgotten
    BY <2>1, <2>2, Started, Connected
  <2>4. QED BY <1>1, <2>1, <2>3, Started, EndedStep
<1>4. QED BY <1>2, <1>3

LEMMA RefreshedBasics == ASSUME Basics, NEW i \in 1..MaxCalls, Refreshed(i) PROVE Basics'
<1>1. Ends(i) /\ UNCHANGED <<server, socket, used>>
  BY DEF Refreshed
<1>2. CASE Done(i) /\ Current(adapter, calls[i])
  <2>1. adapter' = Seen(adapter, i)
    BY <1>2 DEF Refreshed
  <2>2. QED BY <1>1, <1>2, <2>1, Seeing, Started, EndedStep
<1>3. CASE ~(Done(i) /\ Current(adapter, calls[i]))
  <2>1. UNCHANGED adapter
    BY <1>3 DEF Refreshed
  <2>2. QED BY <1>1, <2>1, Started, EndedStep
<1>4. QED BY <1>2, <1>3
\* A call of a session that there is.
LEMMA Busy ==
  ASSUME Basics, NEW i \in 1..MaxCalls, calls[i].task \notin {"idle", "create"}
  PROVE  /\ calls[i].session \in Sessions /\ calls[i].session # None
         /\ server[calls[i].session].state # "none"
         /\ server[calls[i].session].seq \in Nat
         /\ 0 \in Nat /\ 0 <= server[calls[i].session].seq
         /\ calls[i].generation \in Nat
<1>1. calls[i] \in CallRecord /\ Told(server, calls[i])
  BY BasicsSay
<1>2. calls[i].session # None /\ calls[i].generation \in Nat
  BY <1>1 DEF Told, CallRecord
<1>3. calls[i].session \in Sessions
  BY <1>1, <1>2 DEF CallRecord
<1>4. server[calls[i].session].seq \in Nat
  BY <1>3, BasicsSay DEF Server, SessionRecord
<1>5. QED BY <1>1, <1>2, <1>3, <1>4 DEF Told

LEMMA TryLaterBasics ==
  ASSUME Basics, NEW i \in 1..MaxCalls, calls[i].task \notin {"idle", "create"},
         TryLater(i), UNCHANGED <<server, socket, used>>
  PROVE  Basics'
<1>1. CASE Given(calls[i])
  BY <1>1, Started, EndedStep DEF TryLater
<1>2. CASE ~Given(calls[i])
  <2>1. /\ adapter' = [adapter EXCEPT !.connected = FALSE, !.timer = i]
        /\ Becomes(i, Call("timer", calls[i].session, calls[i].generation, 0))
    BY <1>2 DEF TryLater
  <2>2. i \in Nat
    OBVIOUS
  <2>3. /\ adapter' \in Adapter /\ Screened(server, adapter')
        /\ adapter'.active = adapter.active /\ adapter'.forgotten = adapter.forgotten
        /\ Streamed(server, adapter', socket)
    BY <2>1, <2>2, Flagged
  <2>4. QED BY <2>1, <2>3, Busy, Started, CallStep
<1>3. QED BY <1>1, <1>2

LEMMA TimerFiresBasics == ASSUME Basics, NEW i \in 1..MaxCalls, TimerFires(i) PROVE Basics'
<1>1. calls[i].task = "timer" /\ UNCHANGED <<server, socket, used>>
  BY DEF TimerFires
<1>2. CASE Given(calls[i])
  BY <1>1, <1>2, Started, EndedStep DEF TimerFires
<1>3. CASE ~Given(calls[i])
  <2>1. /\ adapter' = [adapter EXCEPT !.connected = FALSE]
        /\ Becomes(i, Call("recover", calls[i].session, calls[i].generation, 0))
    BY <1>3 DEF TimerFires
  <2>2. i \in Nat
    OBVIOUS
  <2>3. /\ adapter' \in Adapter /\ Screened(server, adapter')
        /\ adapter'.active = adapter.active /\ adapter'.forgotten = adapter.forgotten
        /\ Streamed(server, adapter', socket)
    BY <2>1, <2>2, Flagged
  <2>4. "recover" \in (Requests \ {"create"}) \cup {"timer"}
    BY DEF Requests
  <2>5. QED BY <1>1, <2>1, <2>3, <2>4, Busy, Started, CallStep
<1>4. QED BY <1>2, <1>3

LEMMA RecoveredBasics == ASSUME Basics, NEW i \in 1..MaxCalls, Recovered(i) PROVE Basics'
<1>1. calls[i].task = "recover" /\ UNCHANGED <<server, socket, used>>
  BY DEF Recovered, Ready
<1>2. CASE ~Done(i)
  BY <1>1, <1>2, TryLaterBasics DEF Recovered
<1>3. CASE Done(i)
  <2>1. /\ adapter' \in Adapter /\ Screened(server, adapter')
        /\ adapter'.active = adapter.active /\ adapter'.forgotten = adapter.forgotten
        /\ Streamed(server, adapter', socket)
    BY <1>3, Seeing, Started DEF Recovered
  <2>2. CASE Given(calls[i])
    BY <1>1, <1>3, <2>1, <2>2, Started, EndedStep DEF Recovered
  <2>3. CASE ~Given(calls[i])
    <3>1. Becomes(i, Call("recoverProbe", calls[i].session, calls[i].generation, 0))
      BY <1>3, <2>3 DEF Recovered
    <3>2. "recoverProbe" \in (Requests \ {"create"}) \cup {"timer"}
      BY DEF Requests
    <3>3. QED BY <1>1, <2>1, <3>1, <3>2, Busy, Started, CallStep
  <2>4. QED BY <2>2, <2>3
<1>4. QED BY <1>2, <1>3

LEMMA RecoveredProbeBasics ==
  ASSUME Basics, NEW i \in 1..MaxCalls, RecoveredProbe(i)
  PROVE  Basics'
<1>1. calls[i].task = "recoverProbe" /\ UNCHANGED <<server, used>>
  BY DEF RecoveredProbe, Ready
<1>2. CASE ~Done(i)
  BY <1>1, <1>2, TryLaterBasics DEF RecoveredProbe
<1>3. CASE Done(i) /\ Given(calls[i])
  BY <1>1, <1>3, Started, EndedStep DEF RecoveredProbe
<1>4. CASE Done(i) /\ ~Given(calls[i])
  <2> DEFINE s == calls[i].session
             n == adapter.cursor
  <2>1. Connect(adapter, s, n) /\ Ends(i)
    BY <1>4 DEF RecoveredProbe
  <2>2. s \in Sessions /\ s = adapter.active /\ s # None
    BY <1>1, <1>4, Busy DEF Given, Current
  <2>3. n \in Nat /\ n <= server[s].seq
    BY <2>2, OnScreen
  <2>4. /\ adapter' \in Adapter /\ Screened(server, adapter')
        /\ socket' \in Socket /\ Streamed(server, adapter', socket')
        /\ adapter'.active = adapter.active /\ adapter'.forgotten = adapter.forgotten
    BY <2>1, <2>2, <2>3, Started, Connected
  <2>5. QED BY <1>1, <2>1, <2>4, Started, EndedStep
<1>5. QED BY <1>2, <1>3, <1>4

LEMMA CommandedBasics == ASSUME Basics, NEW i \in 1..MaxCalls, Commanded(i) PROVE Basics'
<1>1. Ends(i) /\ UNCHANGED <<server, socket, used>>
  BY DEF Commanded
<1>2. CASE Done(i) /\ calls[i].generation = adapter.generation
  <2>1. adapter' = Seen(adapter, i)
    BY <1>2 DEF Commanded
  <2>2. QED BY <1>1, <1>2, <2>1, Seeing, Started, EndedStep
<1>3. CASE ~(Done(i) /\ calls[i].generation = adapter.generation)
  <2>1. UNCHANGED adapter
    BY <1>3 DEF Commanded
  <2>2. QED BY <1>1, <2>1, Started, EndedStep
<1>4. QED BY <1>2, <1>3

LEMMA DeletedBasics == ASSUME Basics, NEW i \in 1..MaxCalls, Deleted(i) PROVE Basics'
<1> DEFINE s == calls[i].session
           f == adapter.forgotten \cup {s}
           a == [adapter EXCEPT !.forgotten = f]
<1>1. /\ Ready(i, "delete") /\ calls[i].task = "delete"
      /\ Ends(i) /\ UNCHANGED <<server, used>>
  BY DEF Deleted, Ready
<1>2. CASE ~Done(i)
  BY <1>1, <1>2, Started, EndedStep DEF Deleted
<1>3. CASE Done(i)
  <2>1. s \in Sessions /\ s # None /\ server[s].state = "deleted"
    BY <1>1, <1>3, Busy, BasicsSay DEF Told, Done
  <2>2. f \in SUBSET Sessions
    BY <2>1, Started DEF Adapter
  <2>3. \A x \in f : server[x].state = "deleted" /\ Unborn(i, x)
    BY <2>1, Started DEF Screened
  <2> HIDE DEF f
  <2>4. /\ a \in Adapter /\ a.active = adapter.active /\ a.generation = adapter.generation
        /\ a.cursor = adapter.cursor /\ a.view = adapter.view /\ a.forgotten = f
    BY <2>2, Started DEF Adapter
  <2>5. adapter.active = s => adapter' = Cleared(a) /\ socket' = NoSocket
    BY <1>3 DEF Deleted, f
  <2>6. adapter.active # s => adapter' = a /\ UNCHANGED socket
    BY <1>3 DEF Deleted, f
  <2> HIDE DEF a
  <2>7. CASE adapter.active = s
    <3>1. Screened(server, Cleared(a))
      BY <2>3, <2>4, Leaving
    <3>2. /\ Cleared(a) \in Adapter /\ Cleared(a).active = None /\ Cleared(a).forgotten = f
      BY <2>4, Clearing
    <3>3. socket' \in Socket /\ Streamed(server, adapter', socket')
      BY <2>5, <2>7, Blank, NothingStreamed
    <3>4. QED BY <1>1, <2>3, <2>5, <2>7, <3>1, <3>2, <3>3, Started, NothingTold, EndedStep
  <2>8. CASE adapter.active # s
    <3>1. adapter.active \notin f \/ adapter.active = None
      BY <2>1, <2>8, Started DEF Screened, f
    <3>2. Screened(server, a)
      BY <2>3, <2>4, <3>1, Started DEF Screened
    <3>3. Streamed(server, a, socket)
      BY <2>4, Started, StreamKept
    <3>4. QED BY <1>1, <2>3, <2>4, <2>6, <2>8, <3>2, <3>3, Started, EndedStep
  <2>9. QED BY <2>7, <2>8
<1>4. QED BY <1>2, <1>3
\* A session just created is turned to and shown.
LEMMA Adopting ==
  ASSUME Basics, NEW i \in 1..MaxCalls, calls[i].task = "create", Done(i)
  PROVE  LET s == calls[i].session
             shown == Seen(Activated(adapter, s), i) IN
         /\ s \in Sessions /\ s # None /\ s \notin adapter.forgotten
         /\ server[s].state # "none"
         /\ calls[i].answer.seq \in Nat /\ calls[i].answer.seq <= server[s].seq
         /\ shown \in Adapter /\ Screened(server, shown)
         /\ shown.active = s /\ shown.generation = adapter.generation + 1
         /\ shown.forgotten = adapter.forgotten /\ ~shown.stopped
         /\ shown.view = [session |-> s, seq |-> calls[i].answer.seq]
         /\ shown.cursor = calls[i].answer.seq
<1> DEFINE s == calls[i].session
           n == calls[i].answer.seq
           a == Activated(adapter, s)
           b == Shown(a, s, n)
<1>1. /\ s \in Sessions /\ s # None /\ s \in Named /\ n \in Nat /\ n <= server[s].seq
      /\ server[s].state # "none"
  BY Answered
<1>2. s \notin adapter.forgotten
  BY <1>1, BasicsSay DEF Newborn
<1>3. b = Seen(Activated(adapter, s), i)
  BY DEF Seen
<1> HIDE DEF s, n
<1>4. /\ a \in Adapter /\ a.active = s /\ a.generation = adapter.generation + 1
      /\ a.cursor = 0 /\ a.view = NoView /\ ~a.stopped /\ a.forgotten = adapter.forgotten
  BY <1>1, Started, Activating
<1>5. Screened(server, a)
  BY <1>1, <1>2, Visiting
<1> HIDE DEF a
<1>6. /\ b \in Adapter /\ b.active = a.active /\ b.generation = a.generation
      /\ b.stopped = a.stopped /\ b.forgotten = a.forgotten
  BY <1>1, <1>4, ShowingStays
<1>7. Screened(server, b)
  BY <1>1, <1>4, <1>5, Started, ShowingTrue
<1>8. b.view = [session |-> s, seq |-> n] /\ b.cursor = Larger(0, n)
  <2>1. ~(s \in a.forgotten \/ s # a.active \/ n < a.view.seq)
    BY <1>1, <1>2, <1>4, Blank
  <2>2. QED BY <1>1, <1>4, <2>1, Showing
<1>9. Larger(0, n) = n
  BY <1>1 DEF Larger
<1>10. QED BY <1>1, <1>2, <1>3, <1>4, <1>6, <1>7, <1>8, <1>9 DEF s, n, a

LEMMA CreatedBasics == ASSUME Basics, NEW i \in 1..MaxCalls, Created(i) PROVE Basics'
<1> DEFINE s == calls[i].session
           n == calls[i].answer.seq
           shown == Seen(Activated(adapter, s), i)
<1>1. calls[i].task = "create" /\ UNCHANGED <<server, used>>
  BY DEF Created, Ready
<1>2. CASE ~Done(i)
  BY <1>1, <1>2, Started, EndedStep DEF Created
<1>3. CASE Done(i) /\ LeftMeanwhile(calls[i])
  <2>1. /\ Becomes(i, Call("stop", s, 0, n))
        /\ UNCHANGED <<adapter, socket>>
    BY <1>3 DEF Created
  <2>2. "stop" \in (Requests \ {"create"}) \cup {"timer"} /\ 0 \in Nat
    BY DEF Requests
  <2>3. /\ s \in Sessions /\ server[s].state # "none" /\ n \in Nat /\ n <= server[s].seq
    BY <1>3, Answered
  <2>4. QED BY <1>1, <2>1, <2>2, <2>3, Started, CallStep
<1>4. CASE Done(i) /\ ~LeftMeanwhile(calls[i])
  <2>1. Connect(shown, s, n) /\ Ends(i)
    BY <1>4 DEF Created
  <2>2. /\ s \in Sessions /\ s \notin adapter.forgotten
        /\ n \in Nat /\ n <= server[s].seq
        /\ shown \in Adapter /\ Screened(server, shown)
        /\ shown.active = s /\ shown.forgotten = adapter.forgotten
    BY <1>1, <1>4, Adopting
  <2> HIDE DEF shown, n
  <2>3. /\ adapter' \in Adapter /\ Screened(server, adapter')
        /\ socket' \in Socket /\ Streamed(server, adapter', socket')
        /\ adapter'.active = s /\ adapter'.forgotten = adapter.forgotten
    BY <2>1, <2>2, Started, Connected
  <2>4. QED BY <1>1, <2>1, <2>3, Started, EndedStep
<1>5. QED BY <1>2, <1>3, <1>4

LEMMA UnadoptedBasics == ASSUME Basics, NEW i \in 1..MaxCalls, Unadopted(i) PROVE Basics'
<1> DEFINE c == calls[i]
<1>1. calls[i].task = "stop" /\ UNCHANGED <<server, adapter, socket, used>>
  BY DEF Unadopted, Ready
<1>2. CASE c.answer.kind = "conflict" /\ c.generation < 3
  <2>1. Becomes(i, Call("stop", c.session, c.generation + 1, c.answer.seq))
    BY <1>2 DEF Unadopted, StopAgain
  <2>2. "stop" \in (Requests \ {"create"}) \cup {"timer"}
    BY DEF Requests
  <2>3. /\ c.session \in Sessions /\ server[c.session].state # "none"
        /\ c.session # None /\ c.generation + 1 \in Nat
    BY <1>1, Busy
  <2>4. c.answer.seq \in Nat /\ c.answer.seq <= server[c.session].seq
    BY <1>2, <2>3, BasicsSay DEF Told, CallRecord
  <2>5. QED BY <1>1, <2>1, <2>2, <2>3, <2>4, Started, CallStep
<1>3. CASE ~(c.answer.kind = "conflict" /\ c.generation < 3)
  BY <1>1, <1>3, Started, EndedStep DEF Unadopted, StopAgain
<1>4. QED BY <1>2, <1>3

\* What the operator does is counted.
LEMMA Counted ==
  ASSUME Basics, NEW w, May(w)
  PROVE  used' \in Counts /\ UNCHANGED server
  BY BasicsSay, FaultCounted DEF May

LEMMA OpenBasics == ASSUME Basics, NEW s \in Sessions, Open(s) PROVE Basics'
<1> DEFINE a == Activated(adapter, s)
           g == a.generation
<1>1. /\ May("open") /\ Known(s) /\ s \notin adapter.forgotten
      /\ adapter' = a /\ socket' = NoSocket
      /\ Begins(Call("open", s, g, 0))
  BY DEF Open
<1>2. server[s].state # "none" /\ s \in Named
  BY <1>1 DEF Known, Named
<1>3. /\ a \in Adapter /\ a.active = s /\ a.forgotten = adapter.forgotten /\ Screened(server, a)
  BY <1>1, <1>2, Started, Activating, Visiting
<1> HIDE DEF a
<1>4. g \in Nat /\ server[s].seq \in Nat
  BY <1>3, Started DEF Adapter, Server, SessionRecord
<1>5. PICK i \in 1..MaxCalls : Becomes(i, Call("open", s, g, 0))
  BY <1>1, Started DEF Begins
<1>6. socket' \in Socket /\ Streamed(server, adapter', socket')
  BY <1>1, Blank, NothingStreamed
<1>7. Unborn(i, s)
  BY <1>1, Known1
<1>8. "open" \in (Requests \ {"create"}) \cup {"timer"} /\ 0 \in Nat /\ 0 <= server[s].seq
  BY <1>4 DEF Requests
<1>9. used' \in Counts /\ UNCHANGED server
  BY <1>1, Counted
<1> HIDE DEF g
<1>10. QED BY <1>1, <1>2, <1>3, <1>4, <1>5, <1>6, <1>7, <1>8, <1>9, Started, CallStep

LEMMA LeaveBasics == ASSUME Basics, Leave PROVE Basics'
<1>1. May("leave") /\ StopEvents(adapter) /\ calls' = Untimed(calls)
  BY DEF Leave
<1>2. calls' \in Calls /\ \A j \in 1..MaxCalls : calls'[j] \in {calls[j], Idle}
  BY <1>1, BasicsSay, Blank DEF Untimed, Calls
<1>3. QED BY <1>1, <1>2, Counted, Stopping, EndingStep

LEMMA CommandBasics == ASSUME Basics, Command PROVE Basics'
<1>1. /\ May("command") /\ adapter.view # NoView /\ UNCHANGED <<adapter, socket>>
      /\ Begins(Call("command", adapter.active, adapter.generation, 0))
  BY DEF Command
<1>2. PICK i \in 1..MaxCalls : Becomes(i, Call("command", adapter.active, adapter.generation, 0))
  BY <1>1, Started DEF Begins
<1>3. /\ adapter.active \in Sessions /\ server[adapter.active].state # "none"
      /\ adapter.generation \in Nat /\ 0 \in Nat /\ 0 <= server[adapter.active].seq
  BY <1>1, OnScreen
<1>4. "command" \in (Requests \ {"create"}) \cup {"timer"}
  BY DEF Requests
<1>5. used' \in Counts /\ UNCHANGED server
  BY <1>1, Counted
<1>6. QED BY <1>1, <1>2, <1>3, <1>4, <1>5, Started, CallStep

LEMMA DeleteBasics == ASSUME Basics, NEW s \in Sessions, Delete(s) PROVE Basics'
<1>1. /\ May("delete") /\ Known(s) /\ UNCHANGED <<adapter, socket>>
      /\ Begins(Call("delete", s, 0, 0))
  BY DEF Delete
<1>2. PICK i \in 1..MaxCalls : Becomes(i, Call("delete", s, 0, 0))
  BY <1>1, Started DEF Begins
<1>3. server[s].state # "none" /\ server[s].seq \in Nat /\ 0 \in Nat /\ 0 <= server[s].seq
  BY <1>1, Started DEF Known, Server, SessionRecord
<1>4. "delete" \in (Requests \ {"create"}) \cup {"timer"}
  BY DEF Requests
<1>5. used' \in Counts /\ UNCHANGED server
  BY <1>1, Counted
<1>6. Unborn(i, s)
  BY <1>1, Known1
<1>7. QED BY <1>1, <1>2, <1>3, <1>4, <1>5, <1>6, Started, CallStep

LEMMA CreateBasics == ASSUME Basics, Create PROVE Basics'
<1>1. /\ May("create") /\ UNCHANGED <<adapter, socket>>
  BY DEF Create
<1> DEFINE d == Call("create", None, adapter.generation, 0)
<1>2. PICK from \in {adapter.active, None}, i \in 1..MaxCalls :
        Becomes(i, [d EXCEPT !.from = from])
  BY Started DEF Create, Begins
<1>3. from \in Named /\ None \in Named /\ adapter.generation \in Nat /\ 0 \in Nat
      /\ "create" \in Requests \cup {"timer"}
  BY Started DEF Adapter, Named, Requests
<1>4. /\ d \in CallRecord
      /\ d.task = "create" /\ d.session = None /\ d.known = 0 /\ d.answer = Waiting
  BY <1>3, Calling
<1> DEFINE c == [d EXCEPT !.from = from]
<1> HIDE DEF d
<1>5. /\ c \in CallRecord
      /\ c.task = "create" /\ c.session = None /\ c.known = 0 /\ c.answer = Waiting
  BY <1>3, <1>4 DEF CallRecord, Named
<1>6. Becomes(i, c)
  BY <1>2
<1> HIDE DEF c
<1>7. Told(server, c) /\ Unborn(i, c.session)
  BY <1>5, NothingTold DEF Told, Waiting
<1>8. used' \in Counts /\ UNCHANGED server
  BY <1>1, Counted
<1>9. QED BY <1>1, <1>5, <1>6, <1>7, <1>8, Started, OneCallStep
-----------------------------------------------------------------------------
(* The basic facts hold.                                                   *)

LEMMA InitBasics == Init => Basics
<1> SUFFICES ASSUME Init PROVE Basics
  OBVIOUS
<1>1. <<>> \in Seq(Event) /\ Len(<<>>) = 0
  BY EmptySeq
<1>2. server \in Server /\ \A s \in Sessions : Retained(server[s])
  BY <1>1, StreamAssumption DEF Init, Server, SessionRecord, States, Retained
<1>3. adapter \in Adapter
  BY Blank DEF Init, Adapter, Named
<1>4. calls \in Calls /\ \A i \in 1..MaxCalls : calls[i] = Idle
  BY Blank DEF Init, Calls
<1>5. used \in Counts
  BY StreamAssumption DEF Init, Counts
<1>6. adapter.active = None /\ adapter.forgotten = {} /\ adapter.view = NoView
      /\ adapter.cursor = 0
  BY DEF Init
<1>7. Screened(server, adapter)
  BY <1>6, Blank DEF Screened
<1>8. socket \in Socket /\ Streamed(server, adapter, socket)
  BY Blank, NothingStreamed DEF Init
<1>9. \A i \in 1..MaxCalls : Told(server, calls[i]) /\ Newborn(adapter, calls, i)
  BY <1>4, NothingTold, Blank DEF Newborn
<1>10. TypeOK
  BY <1>2, <1>3, <1>4, <1>5, <1>8, Typed DEF Retained
<1>11. QED BY <1>2, <1>7, <1>8, <1>9, <1>10 DEF Basics

LEMMA NextBasics == Basics /\ [Next]_vars => Basics'
<1> SUFFICES ASSUME Basics, [Next]_vars PROVE Basics'
  OBVIOUS
<1>0. Places = 1..MaxCalls
  BY BasicsSay
<1>1. CASE Operator
  BY <1>1, LeaveBasics, CommandBasics, CreateBasics, OpenBasics, DeleteBasics DEF Operator
<1>2. CASE Accept
  BY <1>2, AcceptBasics
<1>3. CASE Poll
  BY <1>3, PollBasics
<1>4. CASE Break
  BY <1>4, BreakBasics
<1>5. CASE Message
  BY <1>5, MessageBasics
<1>6. CASE Closed
  BY <1>6, ClosedBasics
<1>7. ASSUME NEW s \in Sessions, Publish(s) \/ DeletedElsewhere(s) PROVE Basics'
  BY <1>7, PublishBasics, DeletedElsewhereBasics
<1>8. ASSUME NEW i \in 1..MaxCalls, Serve(i) PROVE Basics'
  BY <1>8, AnswerBasics, AnswerDeleteBasics, AnswerCreateBasics, AnswerStopBasics DEF Serve
<1>9. ASSUME NEW i \in 1..MaxCalls, Lost(i) PROVE Basics'
  BY <1>9, LostBasics
<1>10. ASSUME NEW i \in 1..MaxCalls, Goes(i) PROVE Basics'
  BY <1>10, TimerFiresBasics, OpenedBasics, OpenedProbeBasics, RefreshedBasics,
     RecoveredBasics, RecoveredProbeBasics, CommandedBasics, DeletedBasics,
     CreatedBasics, UnadoptedBasics DEF Goes
<1>11. CASE UNCHANGED vars
  BY <1>11, BasicsSay, BasicsHold DEF vars
<1>12. QED
  BY <1>0, <1>1, <1>2, <1>3, <1>4, <1>5, <1>6, <1>7, <1>8, <1>9, <1>10, <1>11 DEF Next

LEMMA BasicsInvariant == Spec => []Basics
  BY InitBasics, NextBasics, PTL DEF Spec

\* The client, the socket, the calls and the service keep the types of their
\* fields, at most Retention events are kept and the counters keep to their bounds.
THEOREM TypesKept == Spec => []TypeOK
<1>1. Basics => TypeOK
  BY DEF Basics
<1>2. QED BY <1>1, BasicsInvariant, PTL

-----------------------------------------------------------------------------
(* The session nobody wants.                                               *)

StopsStay == \A i \in 1..MaxCalls : calls[i].task = "stop" => calls'[i].task = "stop"

LEMMA OtherPlace ==
  ASSUME Basics, NEW i \in 1..MaxCalls, NEW c, Becomes(i, c), calls[i].task # "stop"
  PROVE  StopsStay
  BY BasicsSay DEF Becomes, Calls, StopsStay

LEMMA AnsweredPlace ==
  ASSUME Basics, NEW i \in 1..MaxCalls, NEW v,
         Becomes(i, [calls[i] EXCEPT !.answer = v])
  PROVE  StopsStay
<1>1. calls[i] \in CallRecord /\ calls \in Calls
  BY BasicsSay
<1>2. [calls[i] EXCEPT !.answer = v].task = calls[i].task
  BY <1>1 DEF CallRecord
<1>3. QED BY <1>1, <1>2 DEF Becomes, Calls, StopsStay

LEMMA BegunPlace ==
  ASSUME Basics, NEW c, Begins(c)
  PROVE  StopsStay
  BY OtherPlace, BasicsSay, Blank DEF Begins, Free

LEMMA FailedPlace ==
  ASSUME Basics, NEW i \in 1..MaxCalls, OpenFails(i), calls[i].task # "stop"
  PROVE  StopsStay
<1>1. CASE adapter.active = calls[i].session
  BY <1>1, Ceasing DEF OpenFails, StopsStay
<1>2. CASE adapter.active # calls[i].session
  BY <1>2, OtherPlace DEF OpenFails, Ends
<1>3. QED BY <1>1, <1>2

\* Only the cleanup itself ends a cleanup.
LEMMA OthersKeepStops ==
  ASSUME Basics, [Next]_vars, \A i \in Places : ~Unadopted(i)
  PROVE  StopsStay
<1>0. Places = 1..MaxCalls
  BY BasicsSay
<1>1. CASE Operator
  <2>1. CASE Leave
    BY <2>1, BasicsSay DEF Leave, Untimed, Calls, StopsStay
  <2>2. CASE Command
    BY <2>2, BegunPlace DEF Command
  <2>3. CASE Create
    BY <2>3, BegunPlace DEF Create
  <2>4. ASSUME NEW s \in Sessions, Open(s) \/ Delete(s) PROVE StopsStay
    BY <2>4, BegunPlace DEF Open, Delete
  <2>5. QED BY <1>1, <2>1, <2>2, <2>3, <2>4 DEF Operator
<1>2. CASE Accept \/ Poll \/ Break
  BY <1>2 DEF Accept, Poll, Break, StopsStay
<1>3. CASE Message
  BY <1>3, BegunPlace DEF Message, StopsStay
<1>4. CASE Closed
  BY <1>0, <1>4, OtherPlace, Blank DEF Closed, Free, StopsStay
<1>5. ASSUME NEW s \in Sessions, Publish(s) \/ DeletedElsewhere(s) PROVE StopsStay
  BY <1>5 DEF Publish, DeletedElsewhere, StopsStay
<1>6. ASSUME NEW i \in 1..MaxCalls, Serve(i) PROVE StopsStay
  <2>1. CASE Answer(i)
    BY <2>1, AnsweredPlace DEF Answer, Answers
  <2>2. CASE AnswerDelete(i)
    BY <2>2, AnsweredPlace DEF AnswerDelete, Answers
  <2>3. CASE AnswerCreate(i)
    BY <2>3, OtherPlace DEF AnswerCreate
  <2>4. CASE AnswerStop(i)
    BY <2>4, AnsweredPlace DEF AnswerStop, Answers
  <2>5. QED BY <1>6, <2>1, <2>2, <2>3, <2>4 DEF Serve
<1>7. ASSUME NEW i \in 1..MaxCalls, Lost(i) PROVE StopsStay
  BY <1>7, AnsweredPlace DEF Lost, Answers
<1>8. ASSUME NEW i \in 1..MaxCalls, Goes(i) PROVE StopsStay
  <2>1. CASE TimerFires(i)
    BY <2>1, OtherPlace DEF TimerFires, Ends
  <2>2. CASE Opened(i)
    BY <2>2, OtherPlace, FailedPlace DEF Opened, Ready
  <2>3. CASE OpenedProbe(i)
    BY <2>3, OtherPlace, FailedPlace DEF OpenedProbe, Ready, Ends
  <2>4. CASE Refreshed(i) \/ Commanded(i) \/ Deleted(i)
    BY <2>4, OtherPlace DEF Refreshed, Commanded, Deleted, Ready, Ends
  <2>5. CASE Recovered(i) \/ RecoveredProbe(i)
    BY <2>5, OtherPlace DEF Recovered, RecoveredProbe, TryLater, Ready, Ends
  <2>6. CASE Created(i)
    BY <2>6, OtherPlace DEF Created, Ready, Ends
  <2>7. QED BY <1>0, <1>8, <2>1, <2>2, <2>3, <2>4, <2>5, <2>6 DEF Goes
<1>9. CASE UNCHANGED vars
  BY <1>9 DEF vars, StopsStay
<1>10. QED
  BY <1>0, <1>1, <1>2, <1>3, <1>4, <1>5, <1>6, <1>7, <1>8, <1>9 DEF Next

\* The cleanup ends with what it was told: the session stopped, or is no more.
LEMMA CleanupEnds ==
  ASSUME Basics, NEW i \in 1..MaxCalls, Unadopted(i), calls[i].task = "stop",
         calls'[i].task # "stop", calls[i].generation < 3, calls[i].answer.kind # "failed"
  PROVE  server[calls[i].session].state # "live"
<1> DEFINE c == calls[i]
<1>1. c \in CallRecord /\ Told(server, c) /\ calls \in Calls
  BY BasicsSay
<1>2. c.answer # Waiting
  BY DEF Unadopted, Ready
<1>3. c.answer.kind # "waiting"
  BY <1>1, <1>2 DEF CallRecord, Told, Waiting
<1>4. c.answer.kind # "conflict"
  <2> SUFFICES ASSUME c.answer.kind = "conflict" PROVE FALSE
    OBVIOUS
  <2>1. Becomes(i, Call("stop", c.session, c.generation + 1, c.answer.seq))
    BY DEF Unadopted, StopAgain
  <2>2. Call("stop", c.session, c.generation + 1, c.answer.seq).task = "stop"
    BY DEF Call, Idle
  <2>3. QED BY <1>1, <2>1, <2>2 DEF Becomes, Calls
<1>5. c.answer.kind \in {"done", "missing"}
  BY <1>1, <1>3, <1>4 DEF CallRecord
<1>6. c.session # None
  BY <1>1 DEF Told
<1>7. QED BY <1>1, <1>5, <1>6 DEF Told

\* stopUnadoptedSession, capped at four attempts, never ends with the session it
\* was to stop still capturing unless the session changed under each attempt or a
\* request failed.
THEOREM UnusedStopped == Spec => UnusedIsStopped
<1> DEFINE A == \A i \in Places :
                  (/\ calls[i].task = "stop" /\ calls'[i].task # "stop"
                   /\ calls[i].generation < 3 /\ calls[i].answer.kind # "failed")
                    => server[calls[i].session].state # "live"
<1>1. Basics /\ [Next]_vars => [A]_vars
  <2> SUFFICES ASSUME Basics, [Next]_vars, NEW i \in Places,
                      calls[i].task = "stop", calls'[i].task # "stop",
                      calls[i].generation < 3, calls[i].answer.kind # "failed"
               PROVE  server[calls[i].session].state # "live"
    OBVIOUS
  <2>1. Places = 1..MaxCalls
    BY BasicsSay
  <2>2. PICK j \in Places : Unadopted(j)
    BY <2>1, OthersKeepStops DEF StopsStay
  <2>3. j = i
    BY <2>1, <2>2, BasicsSay DEF Unadopted, StopAgain, Ends, Becomes, Calls
  <2>4. QED BY <2>1, <2>2, <2>3, CleanupEnds
<1>2. QED BY <1>1, BasicsInvariant, PTL DEF Spec, UnusedIsStopped
-----------------------------------------------------------------------------
(* The screen is a follower.                                               *)

\* A turn, a state no older than that shown, or nothing new on the screen.
Moved ==
  /\ adapter.forgotten \subseteq adapter'.forgotten
  /\ \/ adapter'.generation > adapter.generation
     \/ /\ adapter'.active = adapter.active
        /\ adapter'.generation = adapter.generation
        /\ \/ adapter'.view = adapter.view
           \/ /\ adapter'.forgotten = adapter.forgotten
              /\ adapter'.view # NoView
              /\ adapter.view.seq <= adapter'.view.seq

LEMMA OneGrows ==
  ASSUME Basics, NEW s \in Sessions, NEW r, GoesOn(server[s], r),
         server' = [server EXCEPT ![s] = r]
  PROVE  Grown(server, server')
  BY BasicsSay DEF Grown, GoesOn, Server, SessionRecord

LEMMA NothingGrows == ASSUME Basics, UNCHANGED server PROVE Grown(server, server')
  BY BasicsSay DEF Grown, GoesOn, Server, SessionRecord

LEMMA ServeGrows == ASSUME Basics, NEW i \in 1..MaxCalls, Serve(i) PROVE Grown(server, server')
<1> DEFINE s == calls[i].session
<1>1. CASE Answer(i)
  <2>1. s \in Sessions
    BY <1>1, Waits DEF Answer
  <2>2. CASE ~Exists(s)
    BY <1>1, <2>2, NothingGrows DEF Answer
  <2>3. CASE Exists(s)
    <3>1. PICK r \in {server[s], Published(server[s], TRUE)} :
            server' = [server EXCEPT ![s] = r]
      BY <1>1, <2>3 DEF Answer
    <3>2. GoesOn(server[s], r)
      BY <2>1, RecordsGoOn
    <3>3. QED BY <2>1, <3>1, <3>2, OneGrows
  <2>4. QED BY <2>2, <2>3
<1>2. CASE AnswerDelete(i)
  <2>1. s \in Sessions /\ server[s].state # "none"
    BY <1>2, Waits DEF AnswerDelete
  <2>2. GoesOn(server[s], Ended(server[s])) /\ server' = [server EXCEPT ![s] = Ended(server[s])]
    BY <1>2, <2>1, RecordsGoOn DEF AnswerDelete
  <2>3. QED BY <2>1, <2>2, OneGrows
<1>3. CASE AnswerCreate(i)
  <2>1. PICK t \in Sessions : /\ server[t].state = "none"
                              /\ server' = [server EXCEPT ![t].state = "live"]
    BY <1>3 DEF AnswerCreate
  <2>2. GoesOn(server[t], [server[t] EXCEPT !.state = "live"])
    BY <2>1, BasicsSay DEF GoesOn, Server, SessionRecord
  <2>3. server' = [server EXCEPT ![t] = [server[t] EXCEPT !.state = "live"]]
    BY <2>1
  <2>4. QED BY <2>2, <2>3, OneGrows
<1>4. CASE AnswerStop(i)
  <2>1. s \in Sessions
    BY <1>4, Waits DEF AnswerStop
  <2>2. CASE UNCHANGED server
    BY <2>2, NothingGrows
  <2>3. CASE /\ server[s].state # "deleted"
             /\ server' = [server EXCEPT ![s] = [Published(@, TRUE) EXCEPT !.state = "stopped"]]
    <3> DEFINE q == Published(server[s], TRUE)
               r == [q EXCEPT !.state = "stopped"]
    <3>1. q \in SessionRecord /\ q.seq = server[s].seq + 1 /\ server[s].seq \in Nat
          /\ server[s].state \in States
      BY <2>1, RecordsGoOn DEF SessionRecord
    <3>2. server[s].state # "none"
      BY <1>4, Waits DEF AnswerStop
    <3>3. server' = [server EXCEPT ![s] = r]
      BY <2>3
    <3> HIDE DEF q
    <3>4. r.seq = server[s].seq + 1 /\ r.state = "stopped"
      BY <3>1 DEF SessionRecord
    <3> HIDE DEF r
    <3>5. GoesOn(server[s], r)
      BY <2>3, <3>1, <3>2, <3>4 DEF GoesOn, There, States
    <3>6. QED BY <2>1, <3>3, <3>5, OneGrows
  <2>4. QED BY <1>4, <2>2, <2>3 DEF AnswerStop
<1>5. QED BY <1>1, <1>2, <1>3, <1>4 DEF Serve

\* No step takes back what the service has come to.
LEMMA StepGrows == ASSUME Basics, [Next]_vars PROVE Grown(server, server')
<1>0. Places = 1..MaxCalls
  BY BasicsSay
<1>1. CASE Operator
  BY <1>1, NothingGrows DEF Operator, Leave, Command, Create, Open, Delete, May
<1>2. CASE Accept \/ Break \/ Message \/ Closed
  BY <1>2, NothingGrows DEF Accept, Break, Message, Closed
<1>3. CASE Poll
  <2>1. adapter.active \in Sessions
    BY <1>3, OnScreen DEF Poll
  <2>2. CASE UNCHANGED server
    BY <2>2, NothingGrows
  <2>3. CASE server' = [server EXCEPT ![adapter.active] = Published(server[adapter.active], TRUE)]
    BY <2>1, <2>3, RecordsGoOn, OneGrows
  <2>4. CASE server' = [server EXCEPT ![adapter.active] = server[adapter.active]]
    BY <2>1, <2>4, RecordsGoOn, OneGrows
  <2>5. QED BY <1>3, <2>2, <2>3, <2>4 DEF Poll
<1>4. ASSUME NEW s \in Sessions, Publish(s) PROVE Grown(server, server')
  BY <1>4, RecordsGoOn, OneGrows DEF Publish
<1>5. ASSUME NEW s \in Sessions, DeletedElsewhere(s) PROVE Grown(server, server')
  BY <1>5, RecordsGoOn, OneGrows DEF DeletedElsewhere, Exists
<1>6. ASSUME NEW i \in 1..MaxCalls, Serve(i) \/ Lost(i) PROVE Grown(server, server')
  BY <1>6, ServeGrows, NothingGrows DEF Lost
<1>7. ASSUME NEW i \in 1..MaxCalls, Goes(i) PROVE Grown(server, server')
  BY <1>7, NothingGrows DEF Goes, TimerFires, Opened, OpenedProbe, Refreshed, Recovered,
     RecoveredProbe, Commanded, Deleted, Created, Unadopted
<1>8. CASE UNCHANGED vars
  BY <1>8, NothingGrows DEF vars
<1>9. QED BY <1>0, <1>1, <1>2, <1>3, <1>4, <1>5, <1>6, <1>7, <1>8 DEF Next
\* Showing a state moves the screen on, if at all.
LEMMA ShowingMoves ==
  ASSUME NEW s \in Named, NEW n \in Nat, s # None, adapter \in Adapter,
         NEW a \in Adapter, a.active = adapter.active, a.generation = adapter.generation,
         a.view = adapter.view, a.forgotten = adapter.forgotten,
         adapter' = Shown(a, s, n)
  PROVE  Moved
<1>1. /\ adapter'.active = a.active /\ adapter'.generation = a.generation
      /\ adapter'.forgotten = a.forgotten
  BY ShowingStays
<1>2. CASE adapter' = a
  BY <1>1, <1>2 DEF Moved
<1>3. CASE n >= a.view.seq /\ adapter'.view = [session |-> s, seq |-> n]
  <2>1. a.view.seq \in Nat /\ adapter'.view # NoView
    BY <1>3 DEF Adapter, View, NoView
  <2>2. a.view.seq <= adapter'.view.seq
    BY <1>3, <2>1
  <2>3. QED BY <1>1, <2>1, <2>2 DEF Moved
<1>4. QED BY <1>2, <1>3, Showing

LEMMA SeeingMoves ==
  ASSUME Basics, NEW i \in 1..MaxCalls, Done(i), adapter' = Seen(adapter, i)
  PROVE  Moved
  BY Answered, Started, ShowingMoves DEF Seen

LEMMA SameMoves ==
  ASSUME adapter.forgotten \subseteq adapter'.forgotten, adapter'.active = adapter.active,
         adapter'.generation = adapter.generation, adapter'.view = adapter.view
  PROVE  Moved
  BY DEF Moved

LEMMA FlagMoves ==
  ASSUME Basics, NEW i \in Nat,
         adapter' \in {[adapter EXCEPT !.connected = FALSE],
                       [adapter EXCEPT !.connected = FALSE, !.timer = i]}
  PROVE  Moved
  BY Flagged, SameMoves

LEMMA TurningMoves ==
  ASSUME adapter \in Adapter, adapter'.generation = adapter.generation + 1,
         adapter.forgotten \subseteq adapter'.forgotten
  PROVE  Moved
  BY DEF Moved, Adapter

LEMMA MessageMoves == ASSUME Basics, Message PROVE Moved
<1> DEFINE e == Head(socket.inbox)
           s == adapter.active
           next == [adapter EXCEPT !.cursor = e.seq]
<1>1. /\ e \in Event /\ e.seq \in Nat /\ e.seq <= server[s].seq /\ socket.phase # "none"
  BY Arriving DEF Message, Event
<1>2. CASE UNCHANGED adapter
  BY <1>2, SameMoves
<1>3. CASE adapter' = [adapter EXCEPT !.connected = FALSE]
  BY <1>3, FlagMoves
<1>4. CASE e.seq = adapter.cursor + 1 /\ adapter' = Shown(next, s, e.seq)
  <2>1. /\ next \in Adapter /\ next.active = adapter.active
        /\ next.generation = adapter.generation /\ next.view = adapter.view
        /\ next.forgotten = adapter.forgotten
    BY <1>1, <1>4, TakenUp
  <2>2. s \in Named /\ s # None /\ adapter \in Adapter
    BY <1>1, OnScreen, Started DEF Named
  <2> HIDE DEF next
  <2>3. QED BY <1>1, <1>4, <2>1, <2>2, ShowingMoves
<1>5. CASE e.seq = adapter.cursor + 1 /\ adapter' = next
  BY <1>1, <1>5, TakenUp, SameMoves
<1>6. QED BY <1>2, <1>3, <1>4, <1>5 DEF Message

LEMMA OpenFailsMoves == ASSUME Basics, NEW i \in 1..MaxCalls, OpenFails(i) PROVE Moved
  BY Stopping, SameMoves DEF OpenFails

LEMMA ConnectMoves ==
  ASSUME Basics, NEW s \in Sessions, NEW n \in Nat, n <= server[s].seq,
         Connect(adapter, s, n)
  PROVE  Moved
  BY Started, Connected, SameMoves

LEMMA TryLaterMoves == ASSUME Basics, NEW i \in 1..MaxCalls, TryLater(i) PROVE Moved
<1>1. i \in Nat
  OBVIOUS
<1>2. QED BY <1>1, FlagMoves, SameMoves DEF TryLater

LEMMA DeletedMoves == ASSUME Basics, NEW i \in 1..MaxCalls, Deleted(i) PROVE Moved
<1> DEFINE f == adapter.forgotten \cup {calls[i].session}
           a == [adapter EXCEPT !.forgotten = f]
<1>1. CASE ~Done(i)
  BY <1>1, SameMoves DEF Deleted
<1>2. CASE Done(i)
  <2>1. f \in SUBSET Sessions /\ adapter.forgotten \subseteq f
    BY <1>2, Answered, Started DEF Adapter
  <2>2. adapter' \in {a, Cleared(a)}
    BY <1>2 DEF Deleted
  <2> HIDE DEF f
  <2>3. /\ a \in Adapter /\ a.active = adapter.active /\ a.generation = adapter.generation
        /\ a.view = adapter.view /\ a.forgotten = f
    BY <2>1, Started DEF Adapter
  <2> HIDE DEF a
  <2>4. Cleared(a).generation = a.generation + 1 /\ Cleared(a).forgotten = f
    BY <2>3, Clearing
  <2>5. QED BY <2>1, <2>2, <2>3, <2>4, Started, SameMoves, TurningMoves
<1>3. QED BY <1>1, <1>2

LEMMA GoesMoves == ASSUME Basics, NEW i \in 1..MaxCalls, Goes(i) PROVE Moved
<1>1. CASE TimerFires(i)
  BY <1>1, FlagMoves, SameMoves DEF TimerFires
<1>2. CASE Opened(i)
  BY <1>2, SeeingMoves, OpenFailsMoves DEF Opened
<1>3. CASE OpenedProbe(i)
  BY <1>3, Answered, ConnectMoves, OpenFailsMoves DEF OpenedProbe
<1>4. CASE Refreshed(i) \/ Commanded(i)
  BY <1>4, SeeingMoves, SameMoves DEF Refreshed, Commanded
<1>5. CASE Recovered(i)
  BY <1>5, SeeingMoves, TryLaterMoves, SameMoves DEF Recovered
<1>6. CASE RecoveredProbe(i)
  <2>1. CASE ~Done(i)
    BY <1>6, <2>1, TryLaterMoves DEF RecoveredProbe
  <2>2. CASE Done(i) /\ Given(calls[i])
    BY <1>6, <2>2, SameMoves DEF RecoveredProbe
  <2>3. CASE Done(i) /\ ~Given(calls[i])
    <3>1. calls[i].session \in Sessions /\ calls[i].session = adapter.active
          /\ calls[i].session # None
      BY <2>3, Answered DEF Given, Current
    <3>2. adapter.cursor \in Nat /\ adapter.cursor <= server[calls[i].session].seq
      BY <3>1, OnScreen
    <3>3. QED BY <1>6, <2>3, <3>1, <3>2, ConnectMoves DEF RecoveredProbe
  <2>4. QED BY <2>1, <2>2, <2>3
<1>7. CASE Deleted(i)
  BY <1>7, DeletedMoves
<1>8. CASE Created(i)
  <2>1. CASE UNCHANGED adapter
    BY <2>1, SameMoves
  <2>2. CASE Done(i) /\ ~LeftMeanwhile(calls[i])
    <3> DEFINE s == calls[i].session
               n == calls[i].answer.seq
               shown == Seen(Activated(adapter, s), i)
    <3>1. Connect(shown, s, n)
      BY <1>8, <2>2 DEF Created
    <3>2. /\ s \in Sessions /\ s \notin adapter.forgotten
          /\ n \in Nat /\ n <= server[s].seq
          /\ shown \in Adapter /\ Screened(server, shown)
          /\ shown.active = s /\ shown.forgotten = adapter.forgotten
          /\ shown.generation = adapter.generation + 1
      BY <1>8, <2>2, Adopting DEF Created, Ready
    <3> HIDE DEF shown, n
    <3>3. adapter'.generation = shown.generation /\ adapter'.forgotten = adapter.forgotten
      BY <3>1, <3>2, Started, Connected
    <3>4. QED BY <3>2, <3>3, Started, TurningMoves
  <2>3. QED BY <1>8, <2>1, <2>2 DEF Created
<1>9. CASE Unadopted(i)
  BY <1>9, SameMoves DEF Unadopted
<1>10. QED BY <1>1, <1>2, <1>3, <1>4, <1>5, <1>6, <1>7, <1>8, <1>9 DEF Goes

LEMMA StepMoves == ASSUME Basics, [Next]_vars PROVE Moved
<1>0. Places = 1..MaxCalls
  BY BasicsSay
<1>1. CASE Operator
  <2>1. CASE Leave
    BY <2>1, Stopping, SameMoves DEF Leave
  <2>2. CASE Command \/ Create \/ \E s \in Sessions : Delete(s)
    BY <2>2, SameMoves DEF Command, Create, Delete
  <2>3. ASSUME NEW s \in Sessions, Open(s) PROVE Moved
    <3>1. s \in Named /\ adapter' = Activated(adapter, s)
      BY <2>3 DEF Named, Open
    <3>2. QED BY <3>1, Started, Activating, TurningMoves
  <2>4. QED BY <1>1, <2>1, <2>2, <2>3 DEF Operator
<1>2. CASE Accept
  <2>1. PICK b : adapter' = [adapter EXCEPT !.connected = b]
    BY <1>2 DEF Accept
  <2>2. /\ adapter'.active = adapter.active /\ adapter'.generation = adapter.generation
        /\ adapter'.view = adapter.view /\ adapter'.forgotten = adapter.forgotten
    BY <2>1, Started DEF Adapter
  <2>3. QED BY <2>2, SameMoves
<1>3. CASE Poll \/ Break
  BY <1>3, SameMoves DEF Poll, Break
<1>4. CASE Message
  BY <1>4, MessageMoves
<1>5. CASE Closed
  <2>1. CASE adapter' = Cleared(adapter)
    BY <2>1, Started, Clearing, TurningMoves
  <2>2. ASSUME NEW i \in 1..MaxCalls,
               adapter' = [adapter EXCEPT !.connected = FALSE, !.timer = i]
        PROVE  Moved
    <3>1. i \in Nat
      OBVIOUS
    <3>2. QED BY <2>2, <3>1, FlagMoves
  <2>3. QED BY <1>0, <1>5, <2>1, <2>2 DEF Closed
<1>6. ASSUME NEW s \in Sessions, Publish(s) \/ DeletedElsewhere(s) PROVE Moved
  BY <1>6, SameMoves DEF Publish, DeletedElsewhere
<1>7. ASSUME NEW i \in 1..MaxCalls, Serve(i) \/ Lost(i) PROVE Moved
  BY <1>7, SameMoves DEF Serve, Answer, AnswerDelete, AnswerCreate, AnswerStop, Lost
<1>8. ASSUME NEW i \in 1..MaxCalls, Goes(i) PROVE Moved
  BY <1>8, GoesMoves
<1>9. CASE UNCHANGED vars
  BY <1>9, SameMoves DEF vars
<1>10. QED BY <1>0, <1>1, <1>2, <1>3, <1>4, <1>5, <1>6, <1>7, <1>8, <1>9 DEF Next

\* What is on the screen is of the session followed, and was so.
OnTheScreen ==
  /\ adapter.active \in (Sessions \ adapter.forgotten) \cup {None}
  /\ adapter.active \notin adapter.forgotten
  /\ adapter.generation \in Nat
  /\ adapter.view = [session |-> adapter.view.session, seq |-> adapter.view.seq]
  /\ adapter.view # NoView =>
       /\ adapter.active \in Sessions /\ adapter.active # None
       /\ adapter.view.session = adapter.active
       /\ adapter.view.seq <= server[adapter.active].seq

LEMMA ScreenSays == Basics => OnTheScreen
<1> SUFFICES ASSUME Basics PROVE OnTheScreen
  OBVIOUS
<1>1. /\ adapter \in Adapter /\ server \in Server /\ Screened(server, adapter)
  BY BasicsSay
<1>2. adapter.view = [session |-> adapter.view.session, seq |-> adapter.view.seq]
      /\ adapter.view.seq \in Nat /\ adapter.cursor \in Nat
  BY <1>1 DEF Adapter, View
<1>3. adapter.active \in Named /\ adapter.forgotten \subseteq Sessions
      /\ adapter.generation \in Nat
  BY <1>1 DEF Adapter
<1>4. adapter.active \notin adapter.forgotten
  BY <1>1, <1>3, StreamAssumption DEF Screened
<1>5. adapter.view # NoView => adapter.active # None
  BY <1>1 DEF Screened
<1>6. adapter.active # None => server[adapter.active].seq \in Nat
  BY <1>1, <1>3 DEF Server, SessionRecord, Named
<1>7. adapter.view # NoView => /\ adapter.view.session = adapter.active
                               /\ adapter.view.seq <= server[adapter.active].seq
  BY <1>1, <1>2, <1>5, <1>6 DEF Screened
<1>8. QED BY <1>2, <1>3, <1>4, <1>5, <1>7 DEF Named, OnTheScreen

LEMMA FollowerStep == ASSUME Basics, Basics', [Next]_vars PROVE Screen!FNext
<1>1. Screen!Grows
  BY StepGrows, BasicsSay DEF Grown, GoesOn, Screen!Grows, Server, SessionRecord
<1>2. OnTheScreen /\ OnTheScreen'
  BY ScreenSays, PTL
<1>3. Moved
  BY StepMoves
<1>4. CASE adapter'.generation > adapter.generation
  BY <1>1, <1>2, <1>3, <1>4
     DEF Moved, OnTheScreen, NoView, Screen!FNext, Screen!Follow, Screen!Blank
<1>5. CASE /\ adapter'.active = adapter.active
           /\ adapter'.generation = adapter.generation
           /\ adapter'.view = adapter.view
  BY <1>1, <1>2, <1>3, <1>5 DEF Moved, OnTheScreen, Screen!FNext, Screen!Pass
<1>6. CASE /\ adapter'.active = adapter.active
           /\ adapter'.generation = adapter.generation
           /\ adapter'.forgotten = adapter.forgotten
           /\ adapter'.view # NoView
           /\ adapter.view.seq <= adapter'.view.seq
  BY <1>1, <1>2, <1>6 DEF OnTheScreen, Screen!FNext, Screen!Learn
<1>7. QED BY <1>3, <1>4, <1>5, <1>6 DEF Moved

LEMMA FollowerInit == Init => Screen!FInit
  BY DEF Init, NoView, Screen!FInit, Screen!Blank

\* The event client implements the screen an operator is promised: it follows one
\* session, each state shown is one it had and newer than the last, and none is of
\* a deleted session, whatever comes late, twice or not at all.
THEOREM FollowsTheSession == Spec => Follows
<1>1. Basics /\ Basics' /\ [Next]_vars => [Screen!FNext]_Screen!fvars
  BY FollowerStep
<1>2. QED BY <1>1, FollowerInit, BasicsInvariant, PTL DEF Spec, Follows, Screen!FSpec

-----------------------------------------------------------------------------
(* A repair is in hand, whatever request fails.                            *)

InHand ==
  /\ ViewInHand(server, adapter, calls, used)
  /\ StreamInHand(server, adapter, socket, calls)

\* No opening and no refresh has failed, and no event been taken up.
Unmarked == used'.opening = used.opening /\ used'.refresh = used.refresh

\* Places other than i are as they were, but for timers that have been cleared.
Others(i) ==
  \A j \in 1..MaxCalls \ {i} : \/ calls'[j] = calls[j]
                               \/ calls'[j] = Idle /\ calls[j].task = "timer"

\* What one place contributes, before a step and after it.
CoverKept(a, i) ==
  /\ adapter'.cursor = a.cursor
  /\ calls'[i].task = "openProbe" /\ calls'[i].session = a.active
       => \/ calls'[i].known <= a.cursor
          \/ /\ calls[i].task = "openProbe" /\ calls[i].session = a.active
             /\ calls'[i].known = calls[i].known

LEMMA CoversStay ==
  ASSUME calls \in Calls, calls' \in Calls, NEW a \in Adapter, NEW i \in 1..MaxCalls,
         adapter'.active = a.active, Others(i), CoverKept(a, i),
         NEW n \in Nat, Covers(a, calls, n)
  PROVE  Covers(adapter', calls', n)
<1> SUFFICES ASSUME NEW j \in 1..MaxCalls, calls'[j].task = "openProbe",
                    calls'[j].session = a.active
             PROVE  calls'[j].known <= n
  BY DEF Covers, CoverKept
<1>1. a.cursor \in Nat /\ a.cursor <= n
  BY DEF Covers, Adapter
<1>2. calls'[j].known \in Nat /\ calls[j].known \in Nat
  BY DEF Calls, CallRecord
<1>3. CASE j = i
  BY <1>1, <1>2, <1>3 DEF CoverKept, Covers
<1>4. CASE j # i
  <2>1. calls'[j] = calls[j]
    BY <1>4, Blank DEF Others
  <2>2. QED BY <2>1 DEF Covers
<1>5. QED BY <1>3, <1>4

\* The view is in hand after a step that leaves what others do alone.
LEMMA ViewKept ==
  ASSUME calls \in Calls, calls' \in Calls, NEW a \in Adapter, NEW i \in 1..MaxCalls,
         ViewInHand(server, a, calls, used), Unmarked,
         Followed(server', adapter') => Followed(server, a),
         adapter'.active = a.active, adapter'.generation = a.generation,
         adapter'.view = a.view, Others(i), a.cursor <= adapter'.cursor,
         adapter'.cursor \in Nat,
         \A n \in Nat : Covers(a, calls, n) => Covers(adapter', calls', n),
         Bringing(a, calls, i) =>
           \/ ~Followed(server', adapter')
           \/ Bringing(adapter', calls', i)
           \/ a.view # NoView /\ Covers(a, calls, a.view.seq)
  PROVE  ViewInHand(server', adapter', calls', used')
<1> SUFFICES ASSUME Followed(server', adapter')
             PROVE  \/ adapter'.view # NoView /\ Covers(adapter', calls', adapter'.view.seq)
                    \/ \E j \in 1..MaxCalls : Bringing(adapter', calls', j)
                    \/ used'.opening = adapter'.generation
                    \/ used'.refresh = adapter'.generation /\ Past(adapter', calls')
  BY DEF ViewInHand
<1>0. Past(a, calls) => Past(adapter', calls')
  <2> SUFFICES ASSUME Past(a, calls) PROVE Past(adapter', calls')
    OBVIOUS
  <2>1. a.cursor \in Nat
    BY DEF Adapter
  <2>2. Covers(adapter', calls', a.cursor)
    BY <2>1 DEF Past
  <2>3. adapter'.cursor = a.cursor
    BY <2>1, <2>2 DEF Covers
  <2>4. QED BY <2>2, <2>3 DEF Past
<1>1. CASE a.view # NoView /\ Covers(a, calls, a.view.seq)
  <2>1. a.view.seq \in Nat
    BY DEF Adapter, View
  <2>2. QED BY <1>1, <2>1
<1>2. ASSUME NEW j \in 1..MaxCalls, Bringing(a, calls, j), j # i
      PROVE  Bringing(adapter', calls', j)
  <2>1. calls'[j] = calls[j]
    BY <1>2 DEF Others, Bringing
  <2>2. calls[j].answer.seq \in Nat
    BY DEF Calls, CallRecord
  <2>3. QED BY <1>0, <1>2, <2>1, <2>2 DEF Bringing, Current
<1>3. CASE \E j \in 1..MaxCalls : Bringing(a, calls, j)
  BY <1>1, <1>2, <1>3
<1>4. QED BY <1>0, <1>1, <1>3 DEF ViewInHand, Unmarked

\* So is the stream.
LEMMA StreamHeld ==
  ASSUME NEW i \in 1..MaxCalls,
         StreamInHand(server, adapter, socket, calls),
         Followed(server', adapter') => Followed(server, adapter),
         adapter'.active = adapter.active, adapter'.generation = adapter.generation,
         adapter.stopped => adapter'.stopped,
         socket.phase # "none" => socket'.phase # "none",
         \A j \in 1..MaxCalls \ {i} : calls'[j] = calls[j],
         Connecting(adapter, calls, i) =>
           socket'.phase # "none" \/ Connecting(adapter', calls', i) \/ adapter'.stopped
  PROVE  StreamInHand(server', adapter', socket', calls')
<1>1. ASSUME NEW j \in 1..MaxCalls, Connecting(adapter, calls, j), j # i
      PROVE  Connecting(adapter', calls', j)
  BY <1>1 DEF Connecting, Current
<1>2. QED BY <1>1 DEF StreamInHand

\* A session that is followed was so before, unless it was just turned to.
LEMMA FollowedBefore ==
  ASSUME Basics, [Next]_vars, adapter'.active = adapter.active
  PROVE  Followed(server', adapter') => Followed(server, adapter)
<1> SUFFICES ASSUME Followed(server', adapter') PROVE Followed(server, adapter)
  OBVIOUS
<1>1. adapter.active # None /\ adapter.active \in Sessions
      /\ server[adapter.active].state # "none"
  BY BasicsSay DEF Followed, Screened, Adapter, Named
<1>2. GoesOn(server[adapter.active], server'[adapter.active])
  BY <1>1, StepGrows DEF Grown
<1>3. QED BY <1>1, <1>2 DEF GoesOn, Followed

\* A step that leaves what is on the screen and the stream alone and changes one
\* call, one that is bringing and connecting nothing.
LEMMA QuietStep ==
  ASSUME Basics, Basics', [Next]_vars, InHand, Unmarked, NEW i \in 1..MaxCalls,
         adapter'.active = adapter.active, adapter'.generation = adapter.generation,
         adapter'.view = adapter.view, adapter'.cursor = adapter.cursor,
         adapter.stopped => adapter'.stopped,
         socket.phase # "none" => socket'.phase # "none",
         \A j \in 1..MaxCalls \ {i} : calls'[j] = calls[j],
         calls'[i].task = "openProbe" =>
           /\ calls[i].task = "openProbe" /\ calls[i].session = calls'[i].session
           /\ calls'[i].known = calls[i].known,
         Bringing(adapter, calls, i) =>
           ~Followed(server', adapter') \/ Bringing(adapter', calls', i),
         Connecting(adapter, calls, i) => Connecting(adapter', calls', i) \/ adapter'.stopped
  PROVE  InHand'
<1>1. adapter \in Adapter /\ calls \in Calls
  BY BasicsSay
<1>2. calls' \in Calls
  BY Typed DEF Basics, TypeOK, Calls
<1>3. Followed(server', adapter') => Followed(server, adapter)
  BY FollowedBefore
<1>4. Others(i) /\ CoverKept(adapter, i)
  BY DEF Others, CoverKept
<1>5. \A n \in Nat : Covers(adapter, calls, n) => Covers(adapter', calls', n)
  BY <1>1, <1>2, <1>4, CoversStay
<1>6. ViewInHand(server', adapter', calls', used')
  BY <1>1, <1>2, <1>3, <1>4, <1>5, ViewKept DEF InHand, Adapter
<1>7. StreamInHand(server', adapter', socket', calls')
  BY <1>3, StreamHeld DEF InHand
<1>8. QED BY <1>6, <1>7 DEF InHand
\* A step that leaves the calls alone too.
LEMMA UntouchedStep ==
  ASSUME Basics, [Next]_vars, InHand, Unmarked, UNCHANGED calls,
         adapter'.active = adapter.active, adapter'.generation = adapter.generation,
         adapter'.view = adapter.view, adapter'.cursor = adapter.cursor,
         adapter.stopped => adapter'.stopped,
         socket.phase # "none" => socket'.phase # "none"
  PROVE  InHand'
<1>1. Followed(server', adapter') => Followed(server, adapter)
  BY FollowedBefore
<1>2. \A n : Covers(adapter, calls, n) => Covers(adapter', calls', n)
  BY DEF Covers
<1>3. \A i \in 1..MaxCalls : /\ Bringing(adapter, calls, i) => Bringing(adapter', calls', i)
                             /\ Connecting(adapter, calls, i) => Connecting(adapter', calls', i)
  BY <1>2 DEF Bringing, Past, Connecting, Current
<1>4. ViewInHand(server', adapter', calls', used')
  BY <1>1, <1>2, <1>3 DEF InHand, ViewInHand, Past, Unmarked
<1>5. StreamInHand(server', adapter', socket', calls')
  BY <1>1, <1>3 DEF InHand, StreamInHand
<1>6. QED BY <1>4, <1>5 DEF InHand

LEMMA SocketSteps ==
  ASSUME Basics, [Next]_vars, InHand, Unmarked,
         \/ Accept \/ Poll \/ Break \/ \E s \in Sessions : Publish(s) \/ DeletedElsewhere(s)
  PROVE  InHand'
<1>1. CASE Accept
  <2>1. PICK b : adapter' = [adapter EXCEPT !.connected = b]
    BY <1>1 DEF Accept
  <2>2. /\ adapter'.active = adapter.active /\ adapter'.generation = adapter.generation
        /\ adapter'.view = adapter.view /\ adapter'.cursor = adapter.cursor
        /\ adapter'.stopped = adapter.stopped
    BY <2>1, Started DEF Adapter
  <2>3. PICK p \in {"gone", "broken", "open"} : socket' = [socket EXCEPT !.phase = p]
    BY <1>1 DEF Accept
  <2>4. socket'.phase = p
    BY <2>3, Started DEF Socket
  <2>5. UNCHANGED calls
    BY <1>1 DEF Accept
  <2>6. QED BY <2>2, <2>4, <2>5, UntouchedStep
<1>2. CASE Poll
  <2>1. UNCHANGED <<adapter, calls>> /\ socket.phase = "open"
    BY <1>2 DEF Poll
  <2>2. socket'.phase # "none"
    BY <1>2, Started DEF Poll, Socket
  <2>3. QED BY <2>1, <2>2, UntouchedStep
<1>3. CASE Break
  <2>1. UNCHANGED <<adapter, calls>> /\ socket'.phase = "broken"
    BY <1>3, Started DEF Break, Socket
  <2>2. QED BY <2>1, UntouchedStep
<1>4. CASE \E s \in Sessions : Publish(s) \/ DeletedElsewhere(s)
  BY <1>4, UntouchedStep DEF Publish, DeletedElsewhere
<1>5. QED BY <1>1, <1>2, <1>3, <1>4

\* What has been taken up is not newer than the session.
LEMMA TakenIsPast ==
  ASSUME Basics, Basics', adapter' = adapter, Followed(server', adapter), NEW n \in Nat,
         n = server'[adapter.active].seq,
         \A i \in 1..MaxCalls : /\ calls'[i].task = calls[i].task
                                /\ calls'[i].session = calls[i].session
                                /\ calls'[i].known = calls[i].known
  PROVE  Covers(adapter', calls', n)
<1>1. \A i \in 1..MaxCalls : Told(server', calls'[i])
  BY DEF Basics
<1>2. adapter.cursor <= n
  BY DEF Basics, Screened, Followed
<1>3. QED BY <1>1, <1>2 DEF Covers, Told, Followed

\* An answer to a call that brings the state of the session is one that covers all.
LEMMA ServeInHand ==
  ASSUME Basics, Basics', [Next]_vars, InHand, Unmarked, NEW i \in 1..MaxCalls, Serve(i)
  PROVE  InHand'
<1>0. UNCHANGED <<adapter, socket>> /\ Asked(i)
  BY DEF Serve, Answer, AnswerDelete, AnswerCreate, AnswerStop
<1>1. CASE AnswerCreate(i)
  <2>1. PICK c : Becomes(i, c) /\ c.task = "create" /\ calls[i].task = "create"
    <3>1. PICK s \in Sessions :
            Becomes(i, [calls[i] EXCEPT !.session = s, !.answer = [kind |-> "done", seq |-> 0]])
      BY <1>1 DEF AnswerCreate
    <3>2. [calls[i] EXCEPT !.session = s, !.answer = [kind |-> "done", seq |-> 0]].task
            = calls[i].task
      BY BasicsSay DEF CallRecord
    <3>3. QED BY <1>1, <3>1, <3>2 DEF AnswerCreate
  <2>2. calls'[i] = c /\ \A j \in 1..MaxCalls \ {i} : calls'[j] = calls[j]
    BY <2>1, BasicsSay DEF Becomes, Calls
  <2>3. QED BY <1>0, <2>1, <2>2, QuietStep DEF Bringing, Connecting
<1>2. CASE ~AnswerCreate(i)
  <2>1. PICK v \in Reply : Becomes(i, [calls[i] EXCEPT !.answer = v])
    <3>1. calls[i].task # "create" /\ calls[i].task \notin {"idle", "create"}
      BY <1>0, <1>2 DEF Serve, Answer, AnswerDelete, AnswerStop, Asked
    <3>2. server[calls[i].session].seq \in Nat /\ calls[i].session \in Sessions
      BY <3>1, Busy
    <3>3. ASSUME NEW r, r.seq \in Nat, NEW kind \in {"done", "missing", "conflict"}
          PROVE  [kind |-> kind, seq |-> r.seq] \in Reply
      BY <3>3 DEF Reply
    <3>4. Published(server[calls[i].session], TRUE).seq \in Nat
      <4>1. Published(server[calls[i].session], TRUE) \in SessionRecord
        BY <3>2, RecordsGoOn
      <4>2. QED BY <4>1 DEF SessionRecord
    <3>5. ASSUME NEW kind \in {"done", "missing", "conflict"},
                 NEW r \in {server[calls[i].session], Published(server[calls[i].session], TRUE)},
                 Answers(i, kind, r)
          PROVE  \E v \in Reply : Becomes(i, [calls[i] EXCEPT !.answer = v])
      <4>1. [kind |-> kind, seq |-> r.seq] \in Reply
        BY <3>2, <3>3, <3>4
      <4>2. QED BY <3>5, <4>1 DEF Answers
    <3>6. CASE Answer(i)
      BY <3>5, <3>6 DEF Answer
    <3>7. CASE AnswerDelete(i)
      BY <3>5, <3>7 DEF AnswerDelete
    <3>8. CASE AnswerStop(i)
      BY <3>5, <3>8 DEF AnswerStop
    <3>9. QED BY <1>2, <3>6, <3>7, <3>8 DEF Serve
  <2>2. /\ calls'[i].task = calls[i].task /\ calls'[i].session = calls[i].session
        /\ calls'[i].generation = calls[i].generation /\ calls'[i].known = calls[i].known
        /\ \A j \in 1..MaxCalls \ {i} : calls'[j] = calls[j]
    BY <2>1, AnswerGiven DEF Becomes
  <2>3. Connecting(adapter, calls, i) => Connecting(adapter', calls', i)
    BY <1>0, <2>2 DEF Connecting, Current
  <2>4. ASSUME Bringing(adapter, calls, i), Followed(server', adapter')
        PROVE  Bringing(adapter', calls', i)
    <3> DEFINE s == adapter.active
    <3>1. /\ Answer(i) /\ calls[i].session = s /\ calls[i].task \in {"open", "event"}
          /\ s \in Sessions /\ There(server'[s])
      BY <1>0, <1>2, <2>4, Waits
         DEF Serve, Answer, AnswerDelete, AnswerStop, Bringing, Current, Followed
    <3>2. Exists(s)
      <4> SUFFICES ASSUME ~Exists(s) PROVE FALSE
        OBVIOUS
      <4>1. UNCHANGED server
        BY <3>1 DEF Answer
      <4>2. QED BY <3>1, <4>1 DEF Exists, There
    <3>3. PICK r \in {server[s], Published(server[s], TRUE)} :
            Answers(i, "done", r) /\ server' = [server EXCEPT ![s] = r]
      BY <3>1, <3>2 DEF Answer
    <3>4. server'[s] = r /\ r.seq \in Nat
      BY <3>1, <3>3, RecordsGoOn, BasicsSay DEF Server, SessionRecord
    <3>5. calls'[i].answer = [kind |-> "done", seq |-> r.seq]
      BY <3>3, BasicsSay DEF Answers, Becomes, Calls, CallRecord
    <3>6. Covers(adapter', calls', r.seq)
      BY <1>0, <2>2, <2>4, <3>4, TakenIsPast
    <3>7. Past(adapter, calls) => Past(adapter', calls')
      BY <1>0, <2>2 DEF Past, Covers
    <3>8. QED BY <1>0, <2>2, <2>4, <3>5, <3>6, <3>7 DEF Bringing, Current
  <2>5. QED BY <1>0, <2>2, <2>3, <2>4, QuietStep
<1>3. QED BY <1>1, <1>2

\* A failure of what was bringing the view is marked.
LEMMA LostInHand ==
  ASSUME Basics, Basics', [Next]_vars, InHand, NEW i \in 1..MaxCalls, Lost(i)
  PROVE  InHand'
<1> DEFINE v == [kind |-> "failed", seq |-> 0]
           g == adapter.generation
<1>1. /\ UNCHANGED <<server, adapter, socket>>
      /\ calls' = [calls EXCEPT ![i] = [calls[i] EXCEPT !.answer = v]]
  BY DEF Lost, Answers, Becomes
<1>2. v \in Reply
  BY DEF Reply
<1>3. /\ calls'[i].task = calls[i].task /\ calls'[i].session = calls[i].session
      /\ calls'[i].generation = calls[i].generation /\ calls'[i].known = calls[i].known
      /\ \A j \in 1..MaxCalls \ {i} : calls'[j] = calls[j]
  BY <1>1, <1>2, AnswerGiven
<1>4. /\ Current(adapter, calls[i]) /\ calls[i].task = "open" => used'.opening = g
      /\ ~(Current(adapter, calls[i]) /\ calls[i].task = "open") => used'.opening = used.opening
      /\ Current(adapter, calls[i]) /\ calls[i].task = "event" => used'.refresh = g
      /\ ~(Current(adapter, calls[i]) /\ calls[i].task = "event") => used'.refresh = used.refresh
  <2>1. used \in Counts
    BY BasicsSay
  <2>2. QED BY <2>1 DEF Lost, Counts, Current
<1>5. CASE ~(Current(adapter, calls[i]) /\ calls[i].task \in {"open", "event"})
  <2>1. Unmarked
    BY <1>4, <1>5 DEF Unmarked
  <2>2. ~Bringing(adapter, calls, i)
    BY <1>5 DEF Bringing
  <2>3. QED BY <1>1, <1>3, <2>1, <2>2, QuietStep DEF Connecting, Current
<1>6. CASE Current(adapter, calls[i]) /\ calls[i].task \in {"open", "event"}
  <2>1. Followed(server', adapter') => Followed(server, adapter)
    BY <1>1 DEF Followed
  <2>2. \A n : Covers(adapter, calls, n) => Covers(adapter', calls', n)
    BY <1>1, <1>3 DEF Covers
  <2>3. Past(adapter, calls) => Past(adapter', calls')
    BY <1>1, <2>2 DEF Past
  <2>4. \A j \in 1..MaxCalls \ {i} : Bringing(adapter, calls, j) => Bringing(adapter', calls', j)
    BY <1>1, <1>3, <2>2, <2>3 DEF Bringing, Current
  <2>5. ViewInHand(server', adapter', calls', used')
    <3>1. CASE calls[i].task = "open"
      BY <1>1, <1>4, <1>6, <3>1 DEF ViewInHand
    <3>2. CASE calls[i].task = "event"
      <4>1. used'.refresh = g /\ used'.opening = used.opening
        BY <1>4, <1>6, <3>2
      <4>2. Bringing(adapter, calls, i) => Past(adapter', calls')
        BY <2>3, <3>2 DEF Bringing
      <4>3. QED BY <1>1, <2>1, <2>2, <2>3, <2>4, <4>1, <4>2 DEF InHand, ViewInHand
    <3>3. QED BY <1>6, <3>1, <3>2
  <2>6. StreamInHand(server', adapter', socket', calls')
    <3>1. Connecting(adapter, calls, i) => Connecting(adapter', calls', i)
      BY <1>1, <1>3 DEF Connecting, Current
    <3>2. QED BY <1>1, <1>3, <2>1, <3>1, StreamHeld DEF InHand
  <2>7. QED BY <2>5, <2>6 DEF InHand
<1>7. QED BY <1>5, <1>6

\* A call that begins takes a free place.
LEMMA Beginning ==
  ASSUME Basics, NEW i \in 1..MaxCalls, NEW c, Free(i), Becomes(i, c)
  PROVE  /\ calls'[i] = c /\ \A j \in 1..MaxCalls \ {i} : calls'[j] = calls[j]
         /\ calls[i].task = "idle"
         /\ \A a, k : ~Bringing(a, calls, i) /\ ~Connecting(a, calls, i)
<1>1. calls[i] = Idle /\ calls[i].task = "idle"
  BY Blank DEF Free
<1>2. QED BY <1>1, BasicsSay DEF Becomes, Calls, Bringing, Connecting

LEMMA TaskOf ==
  ASSUME NEW t, NEW s, NEW g, NEW n
  PROVE  LET c == Call(t, s, g, n) IN
         /\ c.task = t /\ c.session = s /\ c.generation = g /\ c.known = n
         /\ c.answer = Waiting
         /\ \A f : [c EXCEPT !.from = f].task = t
  BY DEF Call, Idle

LEMMA BegunInHand ==
  ASSUME Basics, Basics', [Next]_vars, InHand, Unmarked, NEW c, Begins(c), c.task # "openProbe",
         adapter'.active = adapter.active, adapter'.generation = adapter.generation,
         adapter'.view = adapter.view, adapter'.cursor = adapter.cursor,
         adapter.stopped => adapter'.stopped,
         socket.phase # "none" => socket'.phase # "none"
  PROVE  InHand'
<1>1. PICK i \in 1..MaxCalls : Free(i) /\ Becomes(i, c)
  BY Started DEF Begins
<1>2. /\ calls'[i] = c /\ \A j \in 1..MaxCalls \ {i} : calls'[j] = calls[j]
      /\ ~Bringing(adapter, calls, i) /\ ~Connecting(adapter, calls, i)
  BY <1>1, Beginning
<1>3. QED BY <1>2, QuietStep

LEMMA OpenInHand ==
  ASSUME Basics, NEW s \in Sessions, Open(s)
  PROVE  InHand'
<1> DEFINE g == adapter'.generation
           c == Call("open", s, g, 0)
<1>1. /\ adapter' = Activated(adapter, s) /\ Begins(c)
  BY DEF Open
<1>2. adapter'.active = s
  BY <1>1, Started, Activating DEF Named
<1>3. PICK i \in 1..MaxCalls : calls'[i] = c
  BY <1>1, Started, Beginning DEF Begins
<1>4. c.task = "open" /\ c.session = s /\ c.generation = g /\ c.answer = Waiting
  BY TaskOf
<1>5. Bringing(adapter', calls', i) /\ Connecting(adapter', calls', i)
  BY <1>2, <1>3, <1>4 DEF Bringing, Connecting, Current
<1>6. QED BY <1>5 DEF InHand, ViewInHand, StreamInHand

\* The session stays, timers are cleared, and no stream is owed.
LEMMA LeaveInHand ==
  ASSUME Basics, Basics', [Next]_vars, InHand, Unmarked, Leave
  PROVE  InHand'
<1>1. /\ adapter'.active = adapter.active /\ adapter'.generation = adapter.generation
      /\ adapter'.stopped /\ adapter'.view = adapter.view /\ adapter'.cursor = adapter.cursor
  BY Stopping DEF Leave
<1>2. \A j \in 1..MaxCalls : \/ calls'[j] = calls[j]
                             \/ calls'[j] = Idle /\ calls[j].task = "timer"
  BY BasicsSay DEF Leave, Untimed, Calls
<1>3. Followed(server', adapter') => Followed(server, adapter)
  BY <1>1, FollowedBefore
<1>4. \A n : Covers(adapter, calls, n) => Covers(adapter', calls', n)
  BY <1>1, <1>2, Blank DEF Covers
<1>5. Past(adapter, calls) => Past(adapter', calls')
  BY <1>1, <1>4 DEF Past
<1>6. \A j \in 1..MaxCalls : Bringing(adapter, calls, j) => Bringing(adapter', calls', j)
  BY <1>1, <1>2, <1>4, <1>5 DEF Bringing, Current
<1>7. QED BY <1>1, <1>3, <1>4, <1>5, <1>6 DEF InHand, ViewInHand, StreamInHand, Unmarked

LEMMA OperatorInHand ==
  ASSUME Basics, Basics', [Next]_vars, InHand, Unmarked, Operator
  PROVE  InHand'
<1>1. CASE Command
  BY <1>1, TaskOf, BegunInHand DEF Command
<1>2. CASE Create
  <2>1. PICK from : Begins([Call("create", None, adapter.generation, 0) EXCEPT !.from = from])
    BY <1>2 DEF Create
  <2>2. [Call("create", None, adapter.generation, 0) EXCEPT !.from = from].task = "create"
    BY TaskOf
  <2>3. QED BY <1>2, <2>1, <2>2, BegunInHand DEF Create
<1>3. ASSUME NEW s \in Sessions, Delete(s) PROVE InHand'
  BY <1>3, TaskOf, BegunInHand DEF Delete
<1>4. QED BY <1>1, <1>2, <1>3, OpenInHand, LeaveInHand DEF Operator

\* Whoever follows nothing is owed nothing.
LEMMA NothingOwed ==
  ASSUME NEW sv, NEW a, NEW k, NEW cs, NEW u, ~Followed(sv, a)
  PROVE  ViewInHand(sv, a, cs, u) /\ StreamInHand(sv, a, k, cs)
  BY DEF ViewInHand, StreamInHand

LEMMA ClosedInHand ==
  ASSUME Basics, Basics', [Next]_vars, InHand, Unmarked, Closed
  PROVE  InHand'
<1>1. CASE socket.phase = "gone"
  <2>1. adapter'.active = None
    BY <1>1, Started, Clearing DEF Closed
  <2>2. ~Followed(server', adapter')
    BY <2>1 DEF Followed
  <2>3. QED BY <2>2, NothingOwed DEF InHand
<1>2. CASE socket.phase # "gone"
  <2> DEFINE c == Call("timer", adapter.active, adapter.generation, 0)
  <2>1. PICK i \in 1..MaxCalls :
          /\ Free(i) /\ Becomes(i, c)
          /\ adapter' = [adapter EXCEPT !.connected = FALSE, !.timer = i]
    BY <1>2, Started DEF Closed
  <2>2. c.task = "timer" /\ c.session = adapter.active /\ c.generation = adapter.generation
    BY TaskOf
  <2>3. /\ adapter'.active = adapter.active /\ adapter'.generation = adapter.generation
        /\ adapter'.view = adapter.view /\ adapter'.cursor = adapter.cursor
        /\ adapter'.stopped = adapter.stopped
    <3>1. i \in Nat
      OBVIOUS
    <3>2. QED BY <2>1, <3>1, Flagged
  <2> HIDE DEF c
  <2>4. /\ calls'[i] = c /\ \A j \in 1..MaxCalls \ {i} : calls'[j] = calls[j]
        /\ ~Bringing(adapter, calls, i)
    BY <2>1, Beginning
  <2>5. Connecting(adapter', calls', i)
    BY <2>2, <2>3, <2>4 DEF Connecting, Current
  <2>6. adapter \in Adapter /\ calls \in Calls /\ calls' \in Calls
    BY BasicsSay, Typed DEF Basics, TypeOK, Calls
  <2>7. Others(i) /\ CoverKept(adapter, i)
    BY <2>2, <2>3, <2>4 DEF Others, CoverKept
  <2>8. \A n \in Nat : Covers(adapter, calls, n) => Covers(adapter', calls', n)
    BY <2>3, <2>6, <2>7, CoversStay
  <2>9. ViewInHand(server', adapter', calls', used')
    BY <2>3, <2>4, <2>6, <2>7, <2>8, FollowedBefore, ViewKept DEF InHand, Adapter
  <2>10. QED BY <2>5, <2>9 DEF InHand, StreamInHand
<1>3. QED BY <1>1, <1>2
\* Showing a state that covers all leaves nothing to bring.
LEMMA ShownCovers ==
  ASSUME calls \in Calls, NEW a \in Adapter, a.view.seq <= a.cursor,
         NEW s \in Named, s # None, s = a.active, s \notin a.forgotten,
         NEW n \in Nat, Covers(a, calls, n)
  PROVE  LET b == Shown(a, s, n) IN b.view # NoView /\ Covers(b, calls, b.view.seq)
<1> DEFINE b == Shown(a, s, n)
<1>1. a.view.seq \in Nat /\ a.cursor \in Nat /\ a.cursor <= n
  BY DEF Adapter, View, Covers
<1>2. n >= a.view.seq
  BY <1>1
<1>3. b.view = [session |-> s, seq |-> n] /\ b.cursor = Larger(a.cursor, n)
      /\ b.active = a.active
  <2>1. b.view = [session |-> s, seq |-> n] /\ b.cursor = Larger(a.cursor, n)
    BY <1>2, ShowingLater
  <2>2. QED BY <2>1, ShowingStays
<1>4. b.cursor = n
  BY <1>1, <1>3 DEF Larger
<1>5. b.view # NoView /\ b.view.seq = n
  BY <1>3 DEF NoView
<1> HIDE DEF b
<1>6. Covers(b, calls, n)
  BY <1>1, <1>3, <1>4 DEF Covers
<1>7. QED BY <1>5, <1>6 DEF b

\* Showing any state of the session leaves the view in hand.
LEMMA SeenKeeps ==
  ASSUME NEW sv, NEW u, calls \in Calls, NEW a \in Adapter, a.view.seq <= a.cursor,
         NEW s \in Named, s # None, NEW n \in Nat, ViewInHand(sv, a, calls, u)
  PROVE  ViewInHand(sv, Shown(a, s, n), calls, u)
<1> DEFINE b == Shown(a, s, n)
<1>1. CASE b = a
  BY <1>1
<1>2. CASE /\ s \notin a.forgotten /\ s = a.active /\ n >= a.view.seq
           /\ b.cursor = Larger(a.cursor, n)
  <2>1. b.active = a.active /\ b.generation = a.generation
    BY ShowingStays
  <2>2. Covers(a, calls, n) => b.view # NoView /\ Covers(b, calls, b.view.seq)
    BY <1>2, ShownCovers
  <2>3. a.cursor \in Nat /\ a.view.seq \in Nat
    BY DEF Adapter, View
  <2>4. Past(a, calls) => Past(b, calls)
    BY <1>2, <2>1, <2>3 DEF Past, Covers, Larger, Calls, CallRecord
  <2>5. CASE a.view # NoView /\ Covers(a, calls, a.view.seq)
    <3>1. Covers(a, calls, n)
      BY <1>2, <2>3, <2>5 DEF Covers, Calls, CallRecord
    <3>2. QED BY <2>2, <3>1 DEF ViewInHand
  <2>6. ASSUME NEW j \in 1..MaxCalls, Bringing(a, calls, j)
        PROVE  ViewInHand(sv, b, calls, u)
    <3> DEFINE m == calls[j].answer.seq
    <3>1. m \in Nat
      BY DEF Calls, CallRecord
    <3> HIDE DEF m, b
    <3>2. CASE calls[j].answer = Waiting
      BY <2>1, <2>4, <2>6, <3>2 DEF Bringing, Current, ViewInHand
    <3>3. CASE calls[j].answer.kind = "done" /\ Covers(a, calls, m) /\ n <= m
      <4>1. Covers(b, calls, m)
        BY <1>2, <2>1, <2>3, <3>1, <3>3 DEF Covers, Larger
      <4>2. QED BY <2>1, <2>4, <2>6, <3>3, <4>1 DEF Bringing, Current, ViewInHand, m
    <3>4. CASE calls[j].answer.kind = "done" /\ Covers(a, calls, m) /\ n > m
      <4>1. Covers(a, calls, n)
        BY <2>3, <3>1, <3>4 DEF Covers, Calls, CallRecord
      <4>2. QED BY <2>2, <4>1 DEF ViewInHand
    <3>5. QED BY <2>6, <3>1, <3>2, <3>3, <3>4 DEF Bringing, m
  <2>7. Followed(sv, b) => Followed(sv, a)
    BY <2>1 DEF Followed
  <2>8. QED BY <2>1, <2>4, <2>5, <2>6, <2>7 DEF ViewInHand
<1>3. QED BY <1>1, <1>2, Showing

\* While nothing of an opening is still to come, or was lost, all is behind the cursor.
LEMMA PastOrOpening ==
  ASSUME Basics, InHand
  PROVE  \/ Past(adapter, calls)
         \/ used.opening = adapter.generation
         \/ ~Followed(server, adapter)
         \/ \E j \in 1..MaxCalls : Bringing(adapter, calls, j) /\ calls[j].task = "open"
<1>1. adapter.view.seq \in Nat /\ adapter.cursor \in Nat /\ adapter.view.seq <= adapter.cursor
  BY BasicsSay DEF Adapter, View, Screened
<1>2. CASE Covers(adapter, calls, adapter.view.seq)
  <2>1. adapter.cursor = adapter.view.seq
    BY <1>1, <1>2 DEF Covers
  <2>2. QED BY <1>2, <2>1 DEF Past
<1>3. ASSUME NEW j \in 1..MaxCalls, Bringing(adapter, calls, j)
      PROVE  calls[j].task = "open" \/ Past(adapter, calls)
  BY <1>3 DEF Bringing
<1>4. QED BY <1>2, <1>3 DEF InHand, ViewInHand

LEMMA MessageInHand ==
  ASSUME Basics, Basics', [Next]_vars, InHand, Message
  PROVE  InHand'
<1> DEFINE e == Head(socket.inbox)
           s == adapter.active
           g == adapter.generation
           next == [adapter EXCEPT !.cursor = e.seq]
           b == Shown(next, s, e.seq)
<1>1. /\ e \in Event /\ e.seq \in Nat /\ e.seq <= server[s].seq
      /\ socket.phase # "none" /\ socket'.phase = socket.phase
  BY Arriving DEF Message, Event
<1>2. /\ s \in Sessions /\ s # None /\ s \in Named /\ s \notin adapter.forgotten
      /\ adapter.cursor \in Nat /\ adapter \in Adapter /\ calls \in Calls
      /\ adapter.view.seq \in Nat /\ adapter.view.seq <= adapter.cursor
  BY <1>1, OnScreen, Started DEF Named, Screened, Adapter, View
<1>3. CASE UNCHANGED <<adapter, calls, used>>
  BY <1>1, <1>3, UntouchedStep DEF Unmarked
<1>4. CASE /\ UNCHANGED used
           /\ adapter' = [adapter EXCEPT !.connected = FALSE]
           /\ Begins(Call("recover", s, g, 0))
  <2> DEFINE c == Call("recover", s, g, 0)
  <2>1. /\ adapter'.active = adapter.active /\ adapter'.generation = adapter.generation
        /\ adapter'.view = adapter.view /\ adapter'.cursor = adapter.cursor
        /\ adapter'.stopped = adapter.stopped
    <3>1. 0 \in Nat
      OBVIOUS
    <3>2. QED BY <1>4, <3>1, Flagged
  <2>2. c.task # "openProbe"
    BY TaskOf
  <2> HIDE DEF c
  <2>3. Begins(c)
    BY <1>4 DEF c
  <2>4. QED BY <1>1, <1>4, <2>1, <2>2, <2>3, BegunInHand DEF Unmarked
<1> DEFINE taken == e.seq = adapter.cursor + 1 /\ used' = EventTaken
<1>5. CASE taken /\ adapter' = b /\ UNCHANGED calls
  <2>1. /\ next \in Adapter /\ next.active = s /\ next.forgotten = adapter.forgotten
        /\ next.generation = adapter.generation /\ next.view = adapter.view
        /\ next.cursor = e.seq
    BY <1>1, <1>5, TakenUp
  <2>0. e.seq = adapter.cursor + 1 /\ used'.opening = used.opening
    BY <1>5, BasicsSay DEF EventTaken, Counts
  <2> HIDE DEF next, e, taken
  <2>2. next.view.seq <= next.cursor
    BY <1>1, <1>2, <2>0, <2>1
  <2>3. Covers(next, calls, e.seq) => b.view # NoView /\ Covers(b, calls, b.view.seq)
    BY <1>1, <1>2, <2>1, <2>2, ShownCovers
  <2>4. b.active = s /\ b.generation = adapter.generation
    BY <1>1, <1>2, <2>1, ShowingStays
  <2>5. b.cursor = e.seq
    <3>1. e.seq >= next.view.seq /\ next.view.seq \in Nat
      BY <1>1, <1>2, <2>0, <2>1
    <3>2. /\ next \in Adapter /\ s \in Named /\ e.seq \in Nat
          /\ s \notin next.forgotten /\ s = next.active
      BY <1>1, <1>2, <2>1
    <3>3. b.cursor = Larger(next.cursor, e.seq)
      BY <3>1, <3>2, ShowingLater
    <3>4. QED BY <1>1, <2>1, <3>3 DEF Larger
  <2> HIDE DEF b
  <2>6. ASSUME Past(adapter, calls) PROVE ViewInHand(server', b, calls, used')
    <3>1. \A i \in 1..MaxCalls : calls[i].known \in Nat
      BY <1>2 DEF Calls, CallRecord
    <3>2. Covers(next, calls, e.seq)
      BY <1>1, <1>2, <2>0, <2>1, <2>6, <3>1 DEF Past, Covers
    <3>3. QED BY <2>3, <3>2 DEF ViewInHand
  <2>7. ASSUME NEW j \in 1..MaxCalls, Bringing(adapter, calls, j), calls[j].task = "open"
        PROVE  ViewInHand(server', b, calls, used')
    <3> DEFINE m == calls[j].answer.seq
    <3>1. m \in Nat
      BY <1>2 DEF Calls, CallRecord
    <3> HIDE DEF m
    <3>2. CASE calls[j].answer = Waiting
      BY <2>4, <2>7, <3>2 DEF Bringing, Current, ViewInHand
    <3>3. CASE calls[j].answer.kind = "done" /\ Covers(adapter, calls, m) /\ e.seq <= m
      <4>1. Covers(b, calls, m)
        BY <2>4, <2>5, <3>3 DEF Covers
      <4>2. QED BY <2>4, <2>7, <3>3, <4>1 DEF Bringing, Current, ViewInHand, m
    <3>4. CASE calls[j].answer.kind = "done" /\ Covers(adapter, calls, m) /\ e.seq > m
      <4>1. Covers(next, calls, e.seq)
        BY <1>1, <1>2, <2>1, <3>1, <3>4 DEF Covers, Calls, CallRecord
      <4>2. QED BY <2>3, <4>1 DEF ViewInHand
    <3>5. QED BY <1>1, <2>7, <3>1, <3>2, <3>3, <3>4 DEF Bringing, m
  <2>8. Followed(server', b) => Followed(server, adapter)
    BY <1>5, <2>4, FollowedBefore
  <2>9. ViewInHand(server', b, calls, used')
    <3>1. \/ Past(adapter, calls) \/ used.opening = adapter.generation
          \/ ~Followed(server, adapter)
          \/ \E j \in 1..MaxCalls : Bringing(adapter, calls, j) /\ calls[j].task = "open"
      BY PastOrOpening
    <3>2. QED BY <2>0, <2>4, <2>6, <2>7, <2>8, <3>1 DEF ViewInHand
  <2>10. QED BY <1>1, <1>5, <2>9 DEF InHand, StreamInHand
<1>6. CASE taken /\ adapter' = next /\ Begins(Call("event", s, g, 0))
  <2> DEFINE c == Call("event", s, g, 0)
  <2>0. e.seq = adapter.cursor + 1 /\ used'.opening = used.opening
    BY <1>6, BasicsSay DEF EventTaken, Counts
  <2>1. adapter'.active = s /\ adapter'.generation = g /\ adapter'.cursor = e.seq
    BY <1>1, <1>6, TakenUp
  <2>2. PICK i \in 1..MaxCalls :
          /\ calls'[i] = c /\ calls[i].task = "idle"
          /\ \A j \in 1..MaxCalls \ {i} : calls'[j] = calls[j]
    BY <1>6, Started, Beginning DEF Begins
  <2>3. c.task = "event" /\ c.session = s /\ c.generation = g /\ c.answer = Waiting
    BY TaskOf
  <2>4. Past(adapter', calls') => Bringing(adapter', calls', i)
    BY <2>1, <2>2, <2>3 DEF Bringing, Current
  <2> HIDE DEF c, e, taken
  <2>5. ASSUME NEW n \in Nat, e.seq <= n,
               \A j \in 1..MaxCalls :
                 calls[j].task = "openProbe" /\ calls[j].session = s => calls[j].known <= n
        PROVE  Covers(adapter', calls', n)
    BY <2>1, <2>2, <2>3, <2>5 DEF Covers
  <2>6. Past(adapter, calls) => Past(adapter', calls')
    <3>1. \A j \in 1..MaxCalls : calls[j].known \in Nat
      BY <1>2 DEF Calls, CallRecord
    <3>2. QED BY <1>1, <1>2, <2>0, <2>1, <2>5, <3>1 DEF Past, Covers
  <2>7. ASSUME NEW j \in 1..MaxCalls, Bringing(adapter, calls, j), calls[j].task = "open"
        PROVE  \E k \in 1..MaxCalls : Bringing(adapter', calls', k)
    <3> DEFINE m == calls[j].answer.seq
    <3>1. m \in Nat /\ calls'[j] = calls[j]
      BY <1>2, <2>2, <2>7 DEF Calls, CallRecord
    <3>2. CASE calls[j].answer = Waiting
      BY <2>1, <2>7, <3>1, <3>2 DEF Bringing, Current
    <3>3. CASE calls[j].answer.kind = "done" /\ Covers(adapter, calls, m) /\ e.seq <= m
      <4>1. Covers(adapter', calls', m)
        BY <2>5, <3>1, <3>3 DEF Covers
      <4>2. QED BY <2>1, <2>7, <3>1, <3>3, <4>1 DEF Bringing, Current
    <3>4. CASE calls[j].answer.kind = "done" /\ Covers(adapter, calls, m) /\ e.seq > m
      <4>1. \A k \in 1..MaxCalls : calls[k].known \in Nat
        BY <1>2 DEF Calls, CallRecord
      <4>2. Past(adapter', calls')
        BY <1>1, <2>1, <2>5, <3>1, <3>4, <4>1 DEF Past, Covers
      <4>3. QED BY <2>4, <4>2
    <3>5. QED BY <1>1, <2>7, <3>1, <3>2, <3>3, <3>4 DEF Bringing
  <2>8. Followed(server', adapter') => Followed(server, adapter)
    BY <2>1, FollowedBefore
  <2>9. ViewInHand(server', adapter', calls', used')
    <3>1. \/ Past(adapter, calls) \/ used.opening = adapter.generation
          \/ ~Followed(server, adapter)
          \/ \E j \in 1..MaxCalls : Bringing(adapter, calls, j) /\ calls[j].task = "open"
      BY PastOrOpening
    <3>2. QED BY <2>0, <2>1, <2>4, <2>6, <2>7, <2>8, <3>1 DEF ViewInHand
  <2>10. QED BY <1>1, <2>9 DEF InHand, StreamInHand
<1>7. QED BY <1>3, <1>4, <1>5, <1>6 DEF Message
-----------------------------------------------------------------------------
(* What the calls do leaves a repair in hand.                              *)

\* A call goes on or ends, after its answer may have been shown.
LEMMA CallGoesOn ==
  ASSUME Basics, Basics', [Next]_vars, InHand, Unmarked,
         NEW a \in Adapter, ViewInHand(server, a, calls, used),
         a.active = adapter.active, a.generation = adapter.generation,
         NEW i \in 1..MaxCalls, NEW c, Becomes(i, c),
         adapter'.active = a.active, adapter'.generation = a.generation,
         adapter'.view = a.view, adapter'.cursor = a.cursor,
         adapter.stopped => adapter'.stopped,
         socket.phase # "none" => socket'.phase # "none",
         c.task = "openProbe" => c.known <= a.cursor,
         Bringing(a, calls, i) => \/ ~Followed(server', adapter')
                                  \/ a.view # NoView /\ Covers(a, calls, a.view.seq),
         Connecting(adapter, calls, i) =>
           \/ socket'.phase # "none" \/ adapter'.stopped
           \/ /\ c.task \in {"open", "openProbe", "timer", "recover", "recoverProbe"}
              /\ c.session = calls[i].session /\ c.generation = calls[i].generation
  PROVE  InHand'
<1>1. calls \in Calls /\ calls' \in Calls
  BY BasicsSay, Typed DEF Basics, TypeOK, Calls
<1>2. calls'[i] = c /\ \A j \in 1..MaxCalls \ {i} : calls'[j] = calls[j]
  BY <1>1 DEF Becomes, Calls
<1>3. Followed(server', adapter') => Followed(server, adapter)
  BY FollowedBefore
<1>4. Followed(server', adapter') => Followed(server, a)
  BY <1>3 DEF Followed
<1>5. Others(i) /\ CoverKept(a, i)
  BY <1>2 DEF Others, CoverKept
<1>6. \A n \in Nat : Covers(a, calls, n) => Covers(adapter', calls', n)
  BY <1>1, <1>5, CoversStay
<1>7. ViewInHand(server', adapter', calls', used')
  BY <1>1, <1>4, <1>5, <1>6, ViewKept DEF Adapter
<1>8. Connecting(adapter, calls, i) =>
        socket'.phase # "none" \/ Connecting(adapter', calls', i) \/ adapter'.stopped
  BY <1>2 DEF Connecting, Current
<1>9. StreamInHand(server', adapter', socket', calls')
  BY <1>2, <1>3, <1>8, StreamHeld DEF InHand
<1>10. QED BY <1>7, <1>9 DEF InHand

\* What the screen shows has been taken up.
LEMMA ViewIsPast ==
  ASSUME Basics
  PROVE  adapter \in Adapter /\ adapter.view.seq <= adapter.cursor
  BY BasicsSay DEF Screened

\* An answer that covered all leaves, once seen, nothing to bring.
LEMMA Brought ==
  ASSUME Basics, NEW i \in 1..MaxCalls, Done(i), Current(adapter, calls[i])
  PROVE  LET b == Seen(adapter, i) IN
         Bringing(b, calls, i) => b.view # NoView /\ Covers(b, calls, b.view.seq)
<1> DEFINE s == calls[i].session
           n == calls[i].answer.seq
           b == Shown(adapter, s, n)
<1> SUFFICES ASSUME Bringing(b, calls, i)
             PROVE  b.view # NoView /\ Covers(b, calls, b.view.seq)
  BY DEF Seen
<1>1. /\ s \in Named /\ s # None /\ n \in Nat /\ s = adapter.active
      /\ adapter \in Adapter /\ adapter.view.seq \in Nat /\ adapter.cursor \in Nat
      /\ adapter.view.seq <= adapter.cursor /\ s \notin adapter.forgotten
  BY Answered, Started, ViewIsPast, OnScreen DEF Current, Adapter, View
<1>2. Covers(b, calls, n)
  BY DEF Bringing, Done, Waiting
<1> HIDE DEF s, n
<1>3. CASE b = adapter
  <2>1. ~(s \in adapter.forgotten \/ s # adapter.active \/ n < adapter.view.seq)
    BY <1>1, <1>2, <1>3 DEF Covers
  <2>2. adapter.cursor <= n
    BY <1>2, <1>3 DEF Covers
  <2>3. b.view = [session |-> s, seq |-> n]
    BY <1>1, <2>1, Showing
  <2>4. QED BY <1>1, <1>2, <2>3 DEF NoView
<1>4. CASE b.view = [session |-> s, seq |-> n]
  BY <1>1, <1>2, <1>4 DEF NoView
<1>5. QED BY <1>1, <1>3, <1>4, Showing

\* The view stays in hand when an answer is seen.
LEMMA SeeingKeeps ==
  ASSUME Basics, InHand, NEW i \in 1..MaxCalls, Done(i)
  PROVE  ViewInHand(server, Seen(adapter, i), calls, used)
<1>1. /\ calls[i].session \in Named /\ calls[i].session # None /\ calls[i].answer.seq \in Nat
  BY Answered
<1>2. adapter \in Adapter /\ adapter.view.seq <= adapter.cursor /\ calls \in Calls
  BY ViewIsPast, BasicsSay
<1>3. QED BY <1>1, <1>2, SeenKeeps DEF InHand, Seen

LEMMA OpenFailsInHand ==
  ASSUME Basics, Basics', [Next]_vars, InHand, Unmarked, NEW i \in 1..MaxCalls,
         OpenFails(i), UNCHANGED server,
         ~Bringing(adapter, calls, i)
  PROVE  InHand'
<1>1. adapter \in Adapter /\ calls \in Calls /\ calls' \in Calls
      /\ ViewInHand(server, adapter, calls, used)
  BY BasicsSay, Typed DEF Basics, TypeOK, Calls, InHand
<1>2. CASE adapter.active = calls[i].session
  <2>1. StopEvents(adapter) /\ calls' = Untimed([calls EXCEPT ![i] = Idle])
    BY <1>2 DEF OpenFails
  <2>2. /\ adapter'.active = adapter.active /\ adapter'.generation = adapter.generation
        /\ adapter'.stopped /\ adapter'.view = adapter.view /\ adapter'.cursor = adapter.cursor
    BY <2>1, Stopping
  <2>3. Others(i) /\ calls'[i] = Idle
    BY <2>1, Ceasing DEF Others
  <2>4. CoverKept(adapter, i)
    BY <2>2, <2>3, Blank DEF CoverKept
  <2>5. \A n \in Nat : Covers(adapter, calls, n) => Covers(adapter', calls', n)
    BY <1>1, <2>2, <2>3, <2>4, CoversStay
  <2>6. Followed(server', adapter') => Followed(server, adapter)
    BY <2>2, FollowedBefore
  <2>7. ViewInHand(server', adapter', calls', used')
    BY <1>1, <2>2, <2>3, <2>5, <2>6, ViewKept DEF Adapter
  <2>8. QED BY <2>2, <2>7 DEF InHand, StreamInHand
<1>3. CASE adapter.active # calls[i].session
  <2>1. Becomes(i, Idle) /\ UNCHANGED <<adapter, socket>>
    BY <1>3 DEF OpenFails, Ends
  <2>2. ~Connecting(adapter, calls, i)
    BY <1>3 DEF Connecting, Current
  <2>3. Idle.task # "openProbe"
    BY Blank
  <2>4. QED BY <1>1, <2>1, <2>2, <2>3, CallGoesOn
<1>4. QED BY <1>2, <1>3

LEMMA OpenedInHand ==
  ASSUME Basics, Basics', [Next]_vars, InHand, Unmarked, NEW i \in 1..MaxCalls, Opened(i)
  PROVE  InHand'
<1>1. calls[i].answer # Waiting /\ UNCHANGED server
  BY DEF Opened, Ready
<1>2. CASE ~(Done(i) /\ Current(adapter, calls[i]))
  BY <1>1, <1>2, OpenFailsInHand DEF Opened, Bringing, Done
<1>3. CASE Done(i) /\ Current(adapter, calls[i])
  <2> DEFINE a == Seen(adapter, i)
             c == Call("openProbe", calls[i].session, adapter.generation, a.view.seq)
  <2>1. adapter' = a /\ Becomes(i, c) /\ UNCHANGED socket
    BY <1>3 DEF Opened
  <2>2. /\ a \in Adapter /\ a.active = adapter.active /\ a.generation = adapter.generation
        /\ a.stopped = adapter.stopped /\ Screened(server, a)
    BY <1>3, Seeing
  <2>3. ViewInHand(server, a, calls, used)
    BY <1>3, SeeingKeeps
  <2>4. Bringing(a, calls, i) => a.view # NoView /\ Covers(a, calls, a.view.seq)
    BY <1>3, Brought
  <2> HIDE DEF a
  <2>5. /\ c.task = "openProbe" /\ c.session = calls[i].session
        /\ c.generation = adapter.generation /\ c.known = a.view.seq
    BY TaskOf
  <2> HIDE DEF c
  <2>6. c.known <= a.cursor /\ c.generation = calls[i].generation
    BY <1>3, <2>2, <2>5 DEF Screened, Current
  <2>7. QED BY <2>1, <2>2, <2>3, <2>4, <2>5, <2>6, CallGoesOn
<1>4. QED BY <1>2, <1>3

LEMMA OpenedProbeInHand ==
  ASSUME Basics, Basics', [Next]_vars, InHand, Unmarked, NEW i \in 1..MaxCalls, OpenedProbe(i)
  PROVE  InHand'
<1> DEFINE s == calls[i].session
           n == calls[i].known
<1>1. calls[i].task = "openProbe" /\ UNCHANGED server
  BY DEF OpenedProbe, Ready
<1>2. ~Bringing(adapter, calls, i)
  BY <1>1 DEF Bringing
<1>3. CASE ~Done(i)
  BY <1>1, <1>2, <1>3, OpenFailsInHand DEF OpenedProbe
<1>4. CASE Done(i)
  <2>1. Connect(adapter, s, n) /\ Becomes(i, Idle)
    BY <1>4 DEF OpenedProbe, Ends
  <2>2. s \in Sessions /\ s # None /\ n \in Nat /\ n <= server[s].seq
    BY <1>4, Answered
  <2>3. adapter \in Adapter /\ calls \in Calls /\ calls' \in Calls
        /\ ViewInHand(server, adapter, calls, used) /\ adapter.cursor \in Nat
    BY BasicsSay, Typed DEF Basics, TypeOK, Calls, InHand, Adapter
  <2>4. /\ adapter'.active = adapter.active /\ adapter'.generation = adapter.generation
        /\ adapter'.view = adapter.view
        /\ \/ /\ s \in adapter.forgotten \/ s # adapter.active
              /\ adapter' = adapter /\ UNCHANGED socket
           \/ /\ s \notin adapter.forgotten /\ s = adapter.active
              /\ adapter'.cursor = Larger(adapter.cursor, n)
              /\ ~adapter'.stopped
              /\ socket'.phase = "connecting"
    BY <2>1, <2>2, Started, Connected
  <2>5. CASE /\ s \in adapter.forgotten \/ s # adapter.active
             /\ adapter' = adapter /\ UNCHANGED socket
    <3>1. s # adapter.active
      BY <2>2, <2>5, OnScreen
    <3>2. ~Connecting(adapter, calls, i)
      BY <3>1 DEF Connecting, Current
    <3>3. Idle.task # "openProbe"
      BY Blank
    <3>4. QED BY <1>2, <2>1, <2>3, <2>5, <3>2, <3>3, CallGoesOn
  <2>6. CASE /\ s = adapter.active /\ socket'.phase = "connecting"
             /\ adapter'.cursor = Larger(adapter.cursor, n)
    <3>1. calls'[i] = Idle /\ \A j \in 1..MaxCalls \ {i} : calls'[j] = calls[j]
      BY <2>1, <2>3 DEF Becomes, Calls
    <3>2. Others(i)
      BY <3>1 DEF Others
    <3>3. ASSUME NEW m \in Nat, Covers(adapter, calls, m) PROVE Covers(adapter', calls', m)
      <4>1. adapter.cursor <= m /\ n <= m
        BY <1>1, <2>6, <3>3 DEF Covers
      <4>2. adapter'.cursor <= m
        BY <2>6, <4>1 DEF Larger
      <4>3. QED BY <2>4, <3>1, <3>3, <4>2, Blank DEF Covers
    <3>4. Followed(server', adapter') => Followed(server, adapter)
      BY <2>4, FollowedBefore
    <3>5. adapter.cursor <= adapter'.cursor /\ adapter'.cursor \in Nat
      BY <2>2, <2>3, <2>6 DEF Larger
    <3>6. ViewInHand(server', adapter', calls', used')
      BY <1>2, <2>3, <2>4, <3>2, <3>3, <3>4, <3>5, ViewKept
    <3>7. QED BY <2>6, <3>6 DEF InHand, StreamInHand
  <2>7. QED BY <2>4, <2>5, <2>6
<1>5. QED BY <1>3, <1>4
\* A call that only ends.
LEMMA EndsInHand ==
  ASSUME Basics, Basics', [Next]_vars, InHand, Unmarked, NEW i \in 1..MaxCalls, Ends(i),
         calls[i].task \in {"event", "command", "delete", "create", "stop"}
           \/ Given(calls[i]),
         calls[i].task \notin {"open", "event"} \/ ~Bringing(adapter, calls, i),
         adapter'.active = adapter.active, adapter'.generation = adapter.generation,
         adapter'.view = adapter.view, adapter'.cursor = adapter.cursor,
         adapter'.stopped = adapter.stopped, UNCHANGED socket
  PROVE  InHand'
<1>1. adapter \in Adapter /\ ViewInHand(server, adapter, calls, used)
  BY BasicsSay DEF InHand
<1>2. ~Bringing(adapter, calls, i)
  BY DEF Bringing
<1>3. Connecting(adapter, calls, i) => adapter'.stopped
  BY DEF Connecting, Given
<1>4. Idle.task # "openProbe" /\ Becomes(i, Idle)
  BY Blank DEF Ends
<1>5. QED BY <1>1, <1>2, <1>3, <1>4, CallGoesOn

LEMMA RefreshedInHand ==
  ASSUME Basics, Basics', [Next]_vars, InHand, Unmarked, NEW i \in 1..MaxCalls,
         Refreshed(i) \/ Commanded(i)
  PROVE  InHand'
<1>1. /\ Ends(i) /\ UNCHANGED <<server, socket>>
      /\ calls[i].task \in {"event", "command"} /\ calls[i].answer # Waiting
  BY DEF Refreshed, Commanded, Ready
<1>2. CASE Done(i) /\ adapter' = Seen(adapter, i)
  <2> DEFINE a == Seen(adapter, i)
  <2>1. /\ a \in Adapter /\ a.active = adapter.active /\ a.generation = adapter.generation
        /\ a.stopped = adapter.stopped
    BY <1>2, Seeing
  <2>2. ViewInHand(server, a, calls, used)
    BY <1>2, SeeingKeeps
  <2>3. Bringing(a, calls, i) => a.view # NoView /\ Covers(a, calls, a.view.seq)
    BY <1>2, <2>1, Brought DEF Bringing, Current
  <2>4. adapter' = a /\ Becomes(i, Idle) /\ UNCHANGED socket
    BY <1>1, <1>2 DEF Ends
  <2> HIDE DEF a
  <2>5. ~Connecting(adapter, calls, i) /\ Idle.task # "openProbe"
    BY <1>1, Blank DEF Connecting
  <2>6. QED BY <2>1, <2>2, <2>3, <2>4, <2>5, CallGoesOn
<1>3. CASE UNCHANGED adapter /\ ~(Done(i) /\ Current(adapter, calls[i]))
  <2>1. ~Bringing(adapter, calls, i)
    BY <1>1, <1>3 DEF Bringing, Done
  <2>2. QED BY <1>1, <1>3, <2>1, EndsInHand
<1>4. CASE UNCHANGED adapter /\ Commanded(i)
  BY <1>1, <1>4, EndsInHand DEF Commanded, Ready, Bringing
<1>5. QED BY <1>2, <1>3, <1>4 DEF Refreshed, Commanded

\* A call of the repair goes on to its next step.
LEMMA RepairGoesOn ==
  ASSUME Basics, Basics', [Next]_vars, InHand, Unmarked, NEW i \in 1..MaxCalls,
         NEW t \in {"timer", "recover", "recoverProbe"},
         calls[i].task \in {"timer", "recover", "recoverProbe"},
         Becomes(i, Call(t, calls[i].session, calls[i].generation, 0)),
         adapter'.active = adapter.active, adapter'.generation = adapter.generation,
         adapter'.view = adapter.view, adapter'.cursor = adapter.cursor,
         adapter'.stopped = adapter.stopped, UNCHANGED socket
  PROVE  InHand'
<1> DEFINE c == Call(t, calls[i].session, calls[i].generation, 0)
<1>1. adapter \in Adapter /\ ViewInHand(server, adapter, calls, used) /\ Becomes(i, c)
  BY BasicsSay DEF InHand
<1>2. c.task = t /\ c.session = calls[i].session /\ c.generation = calls[i].generation
  BY TaskOf
<1>3. ~Bringing(adapter, calls, i)
  BY DEF Bringing
<1> HIDE DEF c
<1>4. c.task # "openProbe" /\ c.task \in {"open", "openProbe", "timer", "recover", "recoverProbe"}
  BY <1>2
<1>5. QED BY <1>1, <1>2, <1>3, <1>4, CallGoesOn

LEMMA TryLaterInHand ==
  ASSUME Basics, Basics', [Next]_vars, InHand, Unmarked, NEW i \in 1..MaxCalls, TryLater(i),
         calls[i].task \in {"recover", "recoverProbe"}, UNCHANGED socket
  PROVE  InHand'
<1>1. CASE Given(calls[i])
  BY <1>1, EndsInHand DEF TryLater
<1>2. CASE ~Given(calls[i])
  <2>1. i \in Nat
    OBVIOUS
  <2>2. /\ adapter'.active = adapter.active /\ adapter'.generation = adapter.generation
        /\ adapter'.view = adapter.view /\ adapter'.cursor = adapter.cursor
        /\ adapter'.stopped = adapter.stopped
    BY <1>2, <2>1, Flagged DEF TryLater
  <2>3. QED BY <1>2, <2>2, RepairGoesOn DEF TryLater
<1>3. QED BY <1>1, <1>2

LEMMA RepairInHandStep ==
  ASSUME Basics, Basics', [Next]_vars, InHand, Unmarked, NEW i \in 1..MaxCalls,
         TimerFires(i) \/ Recovered(i) \/ RecoveredProbe(i)
  PROVE  InHand'
<1>1. CASE TimerFires(i)
  <2>1. CASE Given(calls[i])
    BY <1>1, <2>1, EndsInHand DEF TimerFires
  <2>2. CASE ~Given(calls[i])
    <3>1. 0 \in Nat
      OBVIOUS
    <3>2. /\ adapter'.active = adapter.active /\ adapter'.generation = adapter.generation
          /\ adapter'.view = adapter.view /\ adapter'.cursor = adapter.cursor
          /\ adapter'.stopped = adapter.stopped
      BY <1>1, <2>2, <3>1, Flagged DEF TimerFires
    <3>3. QED BY <1>1, <2>2, <3>2, RepairGoesOn DEF TimerFires
  <2>3. QED BY <2>1, <2>2
<1>2. CASE Recovered(i)
  <2>1. CASE ~Done(i)
    BY <1>2, <2>1, TryLaterInHand DEF Recovered, Ready
  <2>2. CASE Done(i)
    <3> DEFINE a == IF Current(adapter, calls[i]) THEN Seen(adapter, i) ELSE adapter
               c == IF Given(calls[i]) THEN Idle
                    ELSE Call("recoverProbe", calls[i].session, calls[i].generation, 0)
    <3>1. /\ a \in Adapter /\ a.active = adapter.active /\ a.generation = adapter.generation
          /\ a.stopped = adapter.stopped /\ ViewInHand(server, a, calls, used)
      BY <2>2, Seeing, SeeingKeeps, BasicsSay DEF InHand
    <3>2. adapter' = a /\ Becomes(i, c) /\ UNCHANGED socket /\ calls[i].task = "recover"
      BY <1>2, <2>2 DEF Recovered, Ends, Ready
    <3> HIDE DEF a
    <3>3. ~Bringing(a, calls, i)
      BY <3>2 DEF Bringing
    <3>4. c.task # "openProbe"
      BY TaskOf, Blank
    <3>5. Connecting(adapter, calls, i) =>
            \/ adapter.stopped
            \/ /\ c.task = "recoverProbe" /\ c.session = calls[i].session
               /\ c.generation = calls[i].generation
      BY TaskOf DEF Connecting, Given
    <3> HIDE DEF c
    <3>6. QED BY <3>1, <3>2, <3>3, <3>4, <3>5, CallGoesOn
  <2>3. QED BY <2>1, <2>2
<1>3. CASE RecoveredProbe(i)
  <2>1. CASE ~Done(i)
    BY <1>3, <2>1, TryLaterInHand DEF RecoveredProbe, Ready
  <2>2. CASE Done(i) /\ Given(calls[i])
    BY <1>3, <2>2, EndsInHand DEF RecoveredProbe, Ready
  <2>3. CASE Done(i) /\ ~Given(calls[i])
    <3> DEFINE s == calls[i].session
               n == adapter.cursor
    <3>1. Connect(adapter, s, n) /\ Becomes(i, Idle) /\ calls[i].task = "recoverProbe"
      BY <1>3, <2>3 DEF RecoveredProbe, Ready, Ends
    <3>2. s \in Sessions /\ s = adapter.active /\ s # None /\ ~adapter.stopped
      BY <2>3, Answered DEF Given, Current
    <3>3. n \in Nat /\ n <= server[s].seq /\ s \notin adapter.forgotten
      BY <3>2, OnScreen
    <3>4. /\ adapter'.active = adapter.active /\ adapter'.generation = adapter.generation
          /\ adapter'.view = adapter.view /\ adapter'.cursor = Larger(n, n)
          /\ socket'.phase = "connecting"
      BY <3>1, <3>2, <3>3, Started, Connected
    <3>5. Larger(n, n) = n
      BY DEF Larger
    <3>6. adapter \in Adapter /\ ViewInHand(server, adapter, calls, used)
      BY BasicsSay DEF InHand
    <3>7. ~Bringing(adapter, calls, i) /\ Idle.task # "openProbe"
      BY <3>1, Blank DEF Bringing
    <3>8. QED BY <3>1, <3>2, <3>4, <3>5, <3>6, <3>7, CallGoesOn
  <2>4. QED BY <2>1, <2>2, <2>3
<1>4. QED BY <1>1, <1>2, <1>3

LEMMA DeletedInHand ==
  ASSUME Basics, Basics', [Next]_vars, InHand, Unmarked, NEW i \in 1..MaxCalls, Deleted(i)
  PROVE  InHand'
<1> DEFINE f == adapter.forgotten \cup {calls[i].session}
           a == [adapter EXCEPT !.forgotten = f]
<1>1. calls[i].task = "delete" /\ Ends(i)
  BY DEF Deleted, Ready
<1>2. CASE ~Done(i)
  BY <1>1, <1>2, EndsInHand DEF Deleted
<1>3. CASE Done(i)
  <2>1. f \in SUBSET Sessions
    BY <1>3, Answered, Started DEF Adapter
  <2>2. \/ adapter' = Cleared(a)
        \/ adapter' = a /\ UNCHANGED socket
    BY <1>3 DEF Deleted
  <2> HIDE DEF f
  <2>3. /\ a \in Adapter /\ a.active = adapter.active /\ a.generation = adapter.generation
        /\ a.view = adapter.view /\ a.cursor = adapter.cursor /\ a.stopped = adapter.stopped
    BY <2>1, Started DEF Adapter
  <2> HIDE DEF a
  <2>4. CASE adapter' = Cleared(a)
    <3>1. ~Followed(server', adapter')
      BY <2>3, <2>4, Clearing DEF Followed
    <3>2. QED BY <3>1, NothingOwed DEF InHand
  <2>5. CASE adapter' = a /\ UNCHANGED socket
    BY <1>1, <2>3, <2>5, EndsInHand
  <2>6. QED BY <2>2, <2>4, <2>5
<1>4. QED BY <1>2, <1>3

LEMMA CreatedInHand ==
  ASSUME Basics, Basics', [Next]_vars, InHand, Unmarked, NEW i \in 1..MaxCalls, Created(i)
  PROVE  InHand'
<1> DEFINE s == calls[i].session
           n == calls[i].answer.seq
           shown == Seen(Activated(adapter, s), i)
<1>1. calls[i].task = "create"
  BY DEF Created, Ready
<1>2. CASE ~Done(i)
  BY <1>1, <1>2, EndsInHand DEF Created
<1>3. CASE Done(i) /\ LeftMeanwhile(calls[i])
  <2>1. Becomes(i, Call("stop", s, 0, n)) /\ UNCHANGED <<adapter, socket>>
    BY <1>3 DEF Created
  <2>2. Call("stop", s, 0, n).task # "openProbe"
    BY TaskOf
  <2>3. adapter \in Adapter /\ ViewInHand(server, adapter, calls, used)
    BY BasicsSay DEF InHand
  <2>4. ~Bringing(adapter, calls, i) /\ ~Connecting(adapter, calls, i)
    BY <1>1 DEF Bringing, Connecting
  <2>5. QED BY <2>1, <2>2, <2>3, <2>4, CallGoesOn
<1>4. CASE Done(i) /\ ~LeftMeanwhile(calls[i])
  <2>1. Connect(shown, s, n) /\ Becomes(i, Idle)
    BY <1>4 DEF Created, Ends
  <2>2. /\ s \in Sessions /\ s # None /\ s \notin adapter.forgotten
        /\ n \in Nat /\ n <= server[s].seq
        /\ shown \in Adapter /\ Screened(server, shown)
        /\ shown.active = s /\ shown.forgotten = adapter.forgotten
        /\ shown.view = [session |-> s, seq |-> n] /\ shown.cursor = n
    BY <1>1, <1>4, Adopting
  <2> HIDE DEF shown, n
  <2>3. /\ adapter'.active = s /\ adapter'.view = [session |-> s, seq |-> n]
        /\ adapter'.cursor = Larger(n, n) /\ socket'.phase = "connecting"
    BY <2>1, <2>2, Started, Connected
  <2>4. Larger(n, n) = n
    BY DEF Larger
  <2>5. \A j \in 1..MaxCalls : calls'[j].task = "openProbe" => calls'[j].session # s
    <3>1. \A j \in 1..MaxCalls \ {i} : calls[j].session # s
      BY <1>1, <2>2, BasicsSay DEF Newborn
    <3>2. calls'[i] = Idle /\ \A j \in 1..MaxCalls \ {i} : calls'[j] = calls[j]
      BY <2>1, BasicsSay DEF Becomes, Calls
    <3>3. QED BY <3>1, <3>2, Blank
  <2>6. adapter'.view # NoView /\ Covers(adapter', calls', n)
    BY <2>2, <2>3, <2>4, <2>5 DEF Covers, NoView
  <2>7. QED BY <2>3, <2>6 DEF InHand, ViewInHand, StreamInHand
<1>5. QED BY <1>2, <1>3, <1>4

LEMMA UnadoptedInHand ==
  ASSUME Basics, Basics', [Next]_vars, InHand, Unmarked, NEW i \in 1..MaxCalls, Unadopted(i)
  PROVE  InHand'
<1>1. calls[i].task = "stop" /\ UNCHANGED <<server, adapter, socket>>
  BY DEF Unadopted, Ready
<1>2. PICK c : Becomes(i, c) /\ c.task # "openProbe"
  BY TaskOf, Blank DEF Unadopted, StopAgain, Ends
<1>3. adapter \in Adapter /\ ViewInHand(server, adapter, calls, used)
  BY BasicsSay DEF InHand
<1>4. ~Bringing(adapter, calls, i) /\ ~Connecting(adapter, calls, i)
  BY <1>1 DEF Bringing, Connecting
<1>5. QED BY <1>1, <1>2, <1>3, <1>4, CallGoesOn

\* What marks is a request that fails, and an event that is taken up.
LEMMA Unmarking ==
  ASSUME Basics,
         \/ Operator \/ Accept \/ Poll \/ Break \/ Closed \/ UNCHANGED vars
         \/ \E s \in Sessions : Publish(s) \/ DeletedElsewhere(s)
         \/ \E i \in Places : Serve(i) \/ Goes(i)
  PROVE  Unmarked
<1>1. used \in Counts
  BY BasicsSay
<1>2. CASE Operator
  <2>1. used' = [used EXCEPT !.asks = @ + 1]
    BY <1>2 DEF Operator, Open, Leave, Command, Delete, Create, May
  <2>2. QED BY <1>1, <2>1 DEF Counts, Unmarked
<1>3. CASE Break \/ \E s \in Sessions : DeletedElsewhere(s)
  <2>1. used' = [used EXCEPT !.faults = @ + 1]
    BY <1>3 DEF Break, DeletedElsewhere
  <2>2. QED BY <1>1, <2>1 DEF Counts, Unmarked
<1>4. CASE \E i \in Places : Serve(i)
  BY <1>4 DEF Serve, Answer, AnswerDelete, AnswerCreate, AnswerStop, Unmarked
<1>5. CASE \E i \in Places : Goes(i)
  BY <1>5 DEF Goes, TimerFires, Opened, OpenedProbe, Refreshed, Recovered, RecoveredProbe,
              Commanded, Deleted, Created, Unadopted, Unmarked
<1>6. CASE Accept \/ Poll \/ Closed \/ UNCHANGED vars \/ \E s \in Sessions : Publish(s)
  BY <1>6 DEF Accept, Poll, Closed, Publish, vars, Unmarked
<1>7. QED BY <1>2, <1>3, <1>4, <1>5, <1>6

LEMMA StepInHand ==
  ASSUME Basics, Basics', [Next]_vars, InHand
  PROVE  InHand'
<1>0. Places = 1..MaxCalls
  BY BasicsSay
<1>1. CASE Operator
  BY <1>1, Unmarking, OperatorInHand
<1>2. CASE Accept \/ Poll \/ Break \/ \E s \in Sessions : Publish(s) \/ DeletedElsewhere(s)
  BY <1>2, Unmarking, SocketSteps
<1>3. CASE Message
  BY <1>3, MessageInHand
<1>4. CASE Closed
  BY <1>4, Unmarking, ClosedInHand
<1>5. ASSUME NEW i \in 1..MaxCalls, Serve(i) PROVE InHand'
  BY <1>0, <1>5, Unmarking, ServeInHand
<1>6. ASSUME NEW i \in 1..MaxCalls, Lost(i) PROVE InHand'
  BY <1>6, LostInHand
<1>7. ASSUME NEW i \in 1..MaxCalls, Goes(i) PROVE InHand'
  <2>1. Unmarked
    BY <1>0, <1>7, Unmarking
  <2>2. QED BY <1>7, <2>1, RepairInHandStep, OpenedInHand, OpenedProbeInHand, RefreshedInHand,
               DeletedInHand, CreatedInHand, UnadoptedInHand DEF Goes
<1>8. CASE UNCHANGED vars
  BY <1>8, Unmarking, UntouchedStep DEF vars
<1>9. QED BY <1>0, <1>1, <1>2, <1>3, <1>4, <1>5, <1>6, <1>7, <1>8 DEF Next

LEMMA InitInHand == Init => InHand
<1> SUFFICES ASSUME Init PROVE InHand
  OBVIOUS
<1>1. ~Followed(server, adapter)
  BY DEF Init, Followed
<1>2. QED BY <1>1, NothingOwed DEF InHand

LEMMA HandsRepair == Basics /\ InHand => RepairInHand
<1> SUFFICES ASSUME Basics, InHand, Followed(server, adapter), ~adapter.stopped
             PROVE  /\ \/ socket.phase # "none"
                       \/ UnderWay({"open", "openProbe", "timer", "recover", "recoverProbe"})
                    /\ ShowsAllTaken \/ UnderWay({"open", "event"}) \/ NotRepeated
  BY DEF RepairInHand, Watched, Followed, Exists, There
<1>1. Places = 1..MaxCalls
  BY BasicsSay
<1>2. \/ socket.phase # "none"
      \/ UnderWay({"open", "openProbe", "timer", "recover", "recoverProbe"})
  BY <1>1 DEF InHand, StreamInHand, Connecting, UnderWay
<1>3. CASE \E i \in 1..MaxCalls : Bringing(adapter, calls, i)
  BY <1>1, <1>2, <1>3 DEF Bringing, UnderWay
<1>4. CASE adapter.view # NoView /\ Covers(adapter, calls, adapter.view.seq)
  <2>1. adapter.cursor \in Nat /\ adapter.view.seq \in Nat /\ adapter.view.seq <= adapter.cursor
    BY BasicsSay, ViewIsPast DEF Adapter, View
  <2>2. adapter.view.session = adapter.active
    BY <1>4, BasicsSay DEF Screened
  <2>3. QED BY <1>2, <1>4, <2>1, <2>2 DEF Covers, ShowsAllTaken
<1>5. QED BY <1>2, <1>3, <1>4 DEF InHand, ViewInHand, NotRepeated

\* Whatever request fails, a session that is watched always has a stream or a call of
\* this visit that will connect one, and is shown as far as its events have been taken
\* up unless a refresh is under way or one of those that are not repeated has failed.
THEOREM RepairsInHand == Spec => []RepairInHand
<1>1. Basics /\ Basics' /\ InHand /\ [Next]_vars => InHand'
  BY StepInHand
<1>2. QED BY <1>1, InitInHand, HandsRepair, BasicsInvariant, PTL DEF Spec
=============================================================================
