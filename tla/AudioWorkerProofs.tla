------------------------- MODULE AudioWorkerProofs -------------------------
(***************************************************************************)
(* Proofs of the safety properties of AudioWorker, for any capacities,     *)
(* window sizes and hops, and any number of blocks and losses.             *)
(*                                                                         *)
(* Positions are what the code compares, moments are what was recorded.    *)
(* The argument is that both advance together along everything the driver  *)
(* hands out: a step of one position is a step of one moment (Stream).  So *)
(* what a run of the producer holds is unbroken (Framing), and windows of  *)
(* one run differ in positions as they differ in moments, with no loss     *)
(* between them (Windows).                                                 *)
(***************************************************************************)
EXTENDS AudioWorker, SequenceTheorems, TLAPS

Filling == {"put", "evict", "count", "offer"}

\* A packet handed out after another is further on, and the next position was
\* recorded at the next moment.
Follows(p, q) == p.start < q.start /\ (q.start = p.start + 1 => q.at = p.at + 1)

\* What the driver hands out after moment m, from position n on, follows p.
IsBefore(p, m, n) == p.at <= m /\ p.start < n /\ (p.start + 1 = n => p.at = m)

Stream ==
  /\ \A t \in input.lost : t <= input.taken
  /\ ~Mic => ring = <<>> /\ input.lost = {}
  /\ \A i \in 1..Len(ring) : IsBefore(ring[i], input.taken, input.next) /\ ring[i].at \notin input.lost
  /\ \A i, j \in 1..Len(ring) : i < j => Follows(ring[i], ring[j])
  /\ producer.run # 0 =>
       /\ producer.last.at <= input.taken
       /\ Mic => /\ IsBefore(producer.last, input.taken, input.next)
                 /\ \A i \in 1..Len(ring) : Follows(producer.last, ring[i])
       /\ ~Mic /\ producer.pc \in Filling \cup {"pull"} =>
            producer.last.at = input.taken /\ producer.last.start + 1 = input.taken

\* The buffer holds the last moments of the run, none of them lost.
Framing ==
  /\ producer.run = 0 => producer.buffer = <<>> /\ producer.pc \notin Filling
  /\ producer.run # 0 => producer.last.start + 1 = producer.start + Len(producer.buffer)
  /\ \A i \in 1..Len(producer.buffer) :
       producer.buffer[i] = producer.last.at - Len(producer.buffer) + i
  /\ \A t \in input.lost :
       ~(producer.last.at - Len(producer.buffer) < t /\ t <= producer.last.at)
  /\ producer.pc = "pull" => Len(producer.buffer) < WindowSize
  /\ producer.pc \in Filling => Len(producer.buffer) = WindowSize

Windows == ({queue[i] : i \in 1..Len(queue)} \cup {consumer.window, consumer.previous}) \ {NoWindow}

Whole(w) ==
  /\ Len(w.heard) = WindowSize
  /\ \A i \in 1..WindowSize : w.heard[i] = w.heard[1] + i - 1
  /\ w.run # 0 /\ w.run <= producer.run

\* No audio was lost since the window began, if it is of the producer's run.
Recent(w) ==
  w.run = producer.run =>
    /\ w.heard[1] - w.start = producer.last.at - producer.last.start
    /\ \A t \in input.lost : ~(w.heard[1] <= t /\ t <= producer.last.at)
    /\ w.heard[1] <= producer.last.at

\* Windows of one run lie in one recording.
OneRecording(v, w) ==
  v.run = w.run =>
    /\ v.heard[1] - v.start = w.heard[1] - w.start
    /\ \A t \in input.lost : ~(v.heard[1] < t /\ t < w.heard[1])

Framed ==
  /\ \A w \in Windows : Whole(w) /\ Recent(w) /\ w.heard[1] <= input.taken
  /\ \A v, w \in Windows : OneRecording(v, w)

\* There is room where the producer makes some.
RoomMade ==
  /\ worker.error # "full"
  /\ producer.pc \in {"count", "offer"} => Len(queue) < QueueCapacity

\* What the consumer has found out about its window.
Judged ==
  /\ \A i \in 1..Len(queue) : queue[i] # NoWindow
  /\ consumer.pc \in {"taken", "drain", "check", "ask", "infer", "inferring"} =>
       consumer.window # NoWindow
  /\ consumer.pc \in {"ask", "infer", "inferring"} /\ consumer.previous # NoWindow =>
       /\ ~consumer.physical => consumer.window.run = consumer.previous.run
       /\ ~consumer.physical /\ ~consumer.gap =>
            consumer.window.start = consumer.previous.start + Hop
  /\ consumer.pc # "done" => worker.told = 0

IInv == TypeOK /\ Stream /\ Framing /\ Framed /\ RoomMade /\ Judged

-----------------------------------------------------------------------------
(* Sequences.                                                              *)

\* Taking the first element of a queue.
LEMMA TailFacts ==
  ASSUME NEW S, NEW s \in Seq(S), s # <<>>
  PROVE  /\ Len(s) \in Nat \ {0}
         /\ Head(s) = s[1] /\ Head(s) \in S
         /\ Tail(s) \in Seq(S) /\ Len(Tail(s)) = Len(s) - 1
         /\ \A i \in 1..Len(s) - 1 : Tail(s)[i] = s[i + 1]
<1>1. Len(s) \in Nat \ {0}
  BY EmptySeq
<1> QED
  BY <1>1, HeadTailProperties

\* Adding an element.
LEMMA AppendFacts ==
  ASSUME NEW S, NEW s \in Seq(S), NEW e \in S
  PROVE  /\ Len(s) \in Nat
         /\ Append(s, e) \in Seq(S) /\ Len(Append(s, e)) = Len(s) + 1
         /\ \A i \in 1..Len(s) : Append(s, e)[i] = s[i]
         /\ Append(s, e)[Len(s) + 1] = e
<1> QED
  BY AppendProperties, LenProperties

\* What is left of a full buffer when a window has been framed.
LEMMA RestFacts ==
  ASSUME NEW S, NEW s \in Seq(S), Len(s) = WindowSize
  PROVE  /\ SubSeq(s, Hop + 1, WindowSize) \in Seq(S)
         /\ Len(SubSeq(s, Hop + 1, WindowSize)) = WindowSize - Hop
         /\ \A i \in 1..WindowSize - Hop : SubSeq(s, Hop + 1, WindowSize)[i] = s[Hop + i]
<1>1. WindowSize \in Nat \ {0} /\ Hop \in 1..WindowSize
  BY AudioAssumption
<1>2. \A i \in Hop + 1..WindowSize : s[i] \in S
  BY <1>1, ElementOfSeq
<1>3. /\ SubSeq(s, Hop + 1, WindowSize) \in Seq(S)
      /\ Len(SubSeq(s, Hop + 1, WindowSize)) =
           IF Hop + 1 <= WindowSize THEN WindowSize - (Hop + 1) + 1 ELSE 0
      /\ \A i \in 1..WindowSize - (Hop + 1) + 1 :
           SubSeq(s, Hop + 1, WindowSize)[i] = s[Hop + 1 + i - 1]
  BY <1>1, <1>2, SubSeqProperties
<1> QED
  BY <1>1, <1>3

-----------------------------------------------------------------------------
(* Types.                                                                  *)

LEMMA InitTyped == Init => TypeOK
<1> SUFFICES ASSUME Init PROVE TypeOK
  OBVIOUS
<1>1. <<>> \in Seq(Packet) /\ <<>> \in Seq(AWindow) /\ <<>> \in Seq(Moments) /\ Len(<<>>) = 0
  BY EmptySeq
<1>2. NoWindow \in AWindow
  BY <1>1 DEF NoWindow, AWindow
<1> QED
  BY <1>1, <1>2, AudioAssumption DEF Init, TypeOK, Inputs, Workers, Producers, Consumers

\* Closing the input keeps the types.
LEMMA CloseTyped ==
  ASSUME TypeOK, CloseInput(worker)
  PROVE  /\ input' \in Inputs
         /\ input'.kind = input.kind /\ input'.taken = input.taken /\ input'.next = input.next
         /\ input'.lost = input.lost /\ input'.faults = input.faults
         /\ worker' \in Workers /\ worker'.told = worker.told
         /\ worker'.error \in {worker.error, "close"}
<1> QED
  BY DEF TypeOK, CloseInput, Mic, Inputs, Workers

\* What accepting a packet does: nothing once the worker is stopped; otherwise the
\* packet is the last one, of the same run if it is the next and of a new one if not.
LEMMA AcceptEffect ==
  ASSUME TypeOK, NEW p \in Packet, Accept(p), producer.pc = "pull",
         Len(producer.buffer) < WindowSize
  PROVE  /\ producer' \in Producers /\ Len(producer'.buffer) <= WindowSize
         /\ worker' \in Workers /\ worker'.told = worker.told /\ worker'.error = worker.error
         /\ \/ /\ producer'.pc = "finish" /\ producer'.run = producer.run
               /\ producer'.last = producer.last /\ producer'.start = producer.start
               /\ producer'.buffer = producer.buffer
            \/ /\ producer'.pc = IF Len(producer'.buffer) = WindowSize THEN "put" ELSE "pull"
               /\ producer'.last = p
               /\ \/ /\ producer.run # 0 /\ p.start = producer.last.start + 1
                     /\ producer'.run = producer.run /\ producer'.start = producer.start
                     /\ producer'.buffer = Append(producer.buffer, p.at)
                  \/ /\ producer'.run = producer.run + 1 /\ producer'.start = p.start
                     /\ producer'.buffer = <<p.at>>
<1> DEFINE joined == producer.run # 0 /\ p.start = producer.last.start + 1
           buffer == IF joined THEN Append(producer.buffer, p.at) ELSE <<p.at>>
<1>1. p.at \in Moments /\ p.at \in Nat /\ p.start \in Nat /\ p \in [at : Nat, start : Nat]
  BY AudioAssumption DEF Packet, Moments
<1>2. /\ producer \in Producers /\ worker \in Workers
      /\ producer.buffer \in Seq(Moments) /\ Len(producer.buffer) \in Nat
  BY LenProperties DEF TypeOK, Producers
<1>3. buffer \in Seq(Moments) /\ Len(buffer) <= WindowSize
  <2>1. Append(producer.buffer, p.at) \in Seq(Moments)
        /\ Len(Append(producer.buffer, p.at)) = Len(producer.buffer) + 1
    BY <1>1, <1>2, AppendFacts
  <2>2. <<p.at>> \in Seq(Moments) /\ Len(<<p.at>>) = 1
    BY <1>1
  <2> QED
    BY <1>2, <2>1, <2>2, AudioAssumption
<1>4. CASE worker.stop
  <2>1. producer' = [producer EXCEPT !.pc = "finish"] /\ worker' = worker
    BY <1>4 DEF Accept
  <2>2. /\ producer' \in Producers /\ producer'.pc = "finish" /\ producer'.run = producer.run
        /\ producer'.last = producer.last /\ producer'.start = producer.start
        /\ producer'.buffer = producer.buffer
    BY <2>1, <1>2 DEF Producers
  <2> QED
    BY <1>2, <2>1, <2>2, AudioAssumption
<1>5. CASE ~worker.stop
  <2>1. producer' = [pc |-> IF Len(buffer) = WindowSize THEN "put" ELSE "pull",
                     run |-> IF joined THEN producer.run ELSE producer.run + 1,
                     last |-> p,
                     start |-> IF joined THEN producer.start ELSE p.start,
                     buffer |-> buffer]
        /\ worker' = IF joined \/ producer.run = 0 THEN worker
                     ELSE [worker EXCEPT !.splits = @ + 1]
    BY <1>5 DEF Accept
  <2>2. joined => buffer = Append(producer.buffer, p.at)
    OBVIOUS
  <2>3. ~joined => buffer = <<p.at>>
    OBVIOUS
  <2>4. joined => producer.run # 0 /\ p.start = producer.last.start + 1
    OBVIOUS
  <2> HIDE DEF buffer, joined
  <2>5. producer' \in Producers /\ producer'.buffer = buffer
    BY <1>1, <1>2, <1>3, <2>1 DEF Producers
  <2>6. worker' \in Workers /\ worker'.told = worker.told /\ worker'.error = worker.error
    BY <1>2, <2>1 DEF Workers
  <2>7. /\ producer'.pc = IF Len(producer'.buffer) = WindowSize THEN "put" ELSE "pull"
        /\ producer'.last = p
        /\ producer'.run = IF joined THEN producer.run ELSE producer.run + 1
        /\ producer'.start = IF joined THEN producer.start ELSE p.start
    BY <2>1
  <2> QED
    BY <1>3, <2>2, <2>3, <2>4, <2>5, <2>6, <2>7
<1> QED
  BY <1>4, <1>5

\* What queueing the window does: one more window, Hop fewer moments in the buffer.
LEMMA QueuedEffect ==
  ASSUME TypeOK, Queued, Room, Len(producer.buffer) = WindowSize
  PROVE  /\ queue' = Append(queue, Window) /\ queue' \in Seq(AWindow)
         /\ Window \in AWindow
         /\ Len(queue') = Len(queue) + 1 /\ Len(queue') <= QueueCapacity
         /\ producer' \in Producers /\ producer'.pc = "pull"
         /\ producer'.run = producer.run /\ producer'.last = producer.last
         /\ producer'.start = producer.start + Hop
         /\ Len(producer'.buffer) = WindowSize - Hop
         /\ \A i \in 1..WindowSize - Hop : producer'.buffer[i] = producer.buffer[Hop + i]
<1>1. /\ WindowSize \in Nat /\ Hop \in Nat /\ Hop <= WindowSize
      /\ producer \in Producers /\ producer.buffer \in Seq(Moments)
      /\ queue \in Seq(AWindow) /\ Len(queue) \in Nat
  BY AudioAssumption, LenProperties DEF TypeOK, Producers
<1>2. Window \in AWindow
  BY <1>1 DEF Window, AWindow, Producers
<1>3. /\ queue' = Append(queue, Window) /\ queue' \in Seq(AWindow)
      /\ Len(queue') = Len(queue) + 1 /\ Len(queue') <= QueueCapacity
  BY <1>1, <1>2, AppendFacts, AudioAssumption DEF Queued, Room
<1> DEFINE rest == SubSeq(producer.buffer, Hop + 1, WindowSize)
<1>4. /\ rest \in Seq(Moments) /\ Len(rest) = WindowSize - Hop
      /\ \A i \in 1..WindowSize - Hop : rest[i] = producer.buffer[Hop + i]
  BY <1>1, RestFacts
<1>5. producer' = [producer EXCEPT !.pc = "pull", !.start = @ + Hop, !.buffer = rest]
  BY DEF Queued
<1> HIDE DEF rest
<1>6. /\ producer' \in Producers /\ producer'.pc = "pull" /\ producer'.run = producer.run
      /\ producer'.last = producer.last /\ producer'.start = producer.start + Hop
      /\ producer'.buffer = rest
  <2>1. PICK q : q = [producer EXCEPT !.pc = "pull"]
    OBVIOUS
  <2>2. /\ q \in Producers /\ q.pc = "pull" /\ q.run = producer.run /\ q.last = producer.last
        /\ q.start = producer.start
    BY <1>1, <2>1 DEF Producers
  <2>3. PICK r : r = [q EXCEPT !.start = producer.start + Hop]
    OBVIOUS
  <2>9. producer.start + Hop \in Nat
    BY <1>1 DEF Producers
  <2>4. /\ r \in Producers /\ r.pc = "pull" /\ r.run = producer.run /\ r.last = producer.last
        /\ r.start = producer.start + Hop
    BY <2>2, <2>3, <2>9 DEF Producers
  <2>5. producer' = [r EXCEPT !.buffer = rest]
    BY <1>5, <2>1, <2>3
  <2> QED
    BY <1>4, <2>4, <2>5 DEF Producers
<1> QED
  BY <1>2, <1>3, <1>4, <1>6

\* What the driver's callback does: it goes on by one position and one moment, or by
\* more of each, and hands out the packet or counts its moment as lost.
LEMMA CallbackEffect ==
  ASSUME TypeOK, Callback
  PROVE  /\ input' \in Inputs /\ input'.kind = input.kind /\ Mic
         /\ \E at \in Moments, start \in Nat :
              /\ at > input.taken /\ input'.taken = at
              /\ start >= input.next /\ (start = input.next => at = input.taken + 1)
              /\ input'.next = start + 1
              /\ \/ /\ ring' = ring
                    /\ input'.lost \subseteq input.lost \cup (input.taken + 1)..at
                 \/ /\ ring' = Append(ring, [at |-> at, start |-> start])
                    /\ Len(ring) # RingCapacity
                    /\ input'.lost \subseteq input.lost \cup (input.taken + 1)..(at - 1)
<1>1. /\ input \in Inputs /\ input.taken \in Nat /\ input.next \in Nat /\ input.faults \in Nat
      /\ MaxBlocks \in Nat
  BY AudioAssumption DEF TypeOK, Inputs
<1>2. PICK lost \in 0..1, gap \in BOOLEAN :
        LET at == input.taken + lost + 1
            start == IF gap THEN input.next + 1 ELSE input.next
            full == Len(ring) = RingCapacity
        IN  /\ lost > 0 => gap
            /\ at <= MaxBlocks
            /\ gap \/ full => input.faults < MaxFaults
            /\ ring' = IF full THEN ring ELSE Append(ring, [at |-> at, start |-> start])
            /\ input' = [input EXCEPT
                 !.taken = at, !.next = Counted(start, full),
                 !.faults = @ + (IF gap THEN 1 ELSE 0) + (IF full THEN 1 ELSE 0),
                 !.lost = @ \cup (input.taken + 1)..(at - 1) \cup (IF full THEN {at} ELSE {})]
  BY DEF Callback
<1> DEFINE at == input.taken + lost + 1
           start == IF gap THEN input.next + 1 ELSE input.next
           faults == input.faults + (IF gap THEN 1 ELSE 0)
                       + (IF Len(ring) = RingCapacity THEN 1 ELSE 0)
           gone == input.lost \cup (input.taken + 1)..(at - 1)
                     \cup (IF Len(ring) = RingCapacity THEN {at} ELSE {})
<1>3. /\ at \in Moments /\ at \in 0..MaxBlocks /\ at > input.taken
      /\ start \in Nat /\ start >= input.next /\ (start = input.next => at = input.taken + 1)
      /\ start + 1 \in Nat /\ faults \in Nat
  <2>1. at <= MaxBlocks /\ (lost > 0 => gap)
    BY ONLY <1>2
  <2>2. at \in Nat /\ at > input.taken
    BY ONLY <1>1
  <2>3. CASE gap
    <3>1. start = input.next + 1 /\ faults \in Nat
      BY <1>1, <2>3
    <3> HIDE DEF at, start, faults
    <3> QED
      BY <1>1, <2>1, <2>2, <3>1 DEF Moments
  <2>4. CASE ~gap
    <3>1. start = input.next /\ lost = 0
      BY <2>1, <2>4
    <3> QED
      BY <1>1, <2>1, <2>2, <3>1 DEF Moments
  <2> QED
    BY <2>3, <2>4
<1>4. gone \subseteq Moments
  <2>1. input.lost \subseteq Moments
    BY <1>1 DEF Inputs
  <2>2. (input.taken + 1)..(at - 1) \subseteq Moments
    BY <1>1, <1>3 DEF Moments
  <2> QED
    BY <1>3, <2>1, <2>2
<1>5. /\ Len(ring) = RingCapacity => ring' = ring
      /\ Len(ring) # RingCapacity => ring' = Append(ring, [at |-> at, start |-> start])
  BY ONLY <1>2
<1>6. input' = [input EXCEPT !.taken = at, !.next = start + 1, !.faults = faults, !.lost = gone]
  BY ONLY <1>2 DEF Counted
<1>7. /\ Len(ring) = RingCapacity => gone \subseteq input.lost \cup (input.taken + 1)..at
      /\ Len(ring) # RingCapacity => gone \subseteq input.lost \cup (input.taken + 1)..(at - 1)
  BY <1>1, <1>3, SMTT(20)
<1> HIDE DEF at, start, faults, gone
<1>8. PICK q : q = [input EXCEPT !.taken = at]
  OBVIOUS
<1>9. q \in Inputs /\ q.kind = input.kind /\ q.taken = at
  BY <1>1, <1>3, <1>8 DEF Inputs
<1>10. PICK r : r = [q EXCEPT !.next = start + 1]
  OBVIOUS
<1>11. r \in Inputs /\ r.kind = input.kind /\ r.taken = at /\ r.next = start + 1
  BY <1>3, <1>9, <1>10 DEF Inputs
<1>12. PICK s : s = [r EXCEPT !.faults = faults]
  OBVIOUS
<1>13. s \in Inputs /\ s.kind = input.kind /\ s.taken = at /\ s.next = start + 1
  BY <1>3, <1>11, <1>12 DEF Inputs
<1>14. input' = [s EXCEPT !.lost = gone]
  BY <1>6, <1>8, <1>10, <1>12
<1>15. /\ input' \in Inputs /\ input'.kind = input.kind /\ input'.taken = at
       /\ input'.next = start + 1 /\ input'.lost = gone
  BY <1>4, <1>13, <1>14 DEF Inputs
<1>16. Mic
  BY DEF Callback
<1> QED
  BY <1>3, <1>5, <1>7, <1>15, <1>16

\* What going back to wait does.
LEMMA WaitsEffect ==
  ASSUME NEW c \in Consumers, Waits(c)
  PROVE  /\ consumer' \in Consumers /\ consumer'.pc = "wait" /\ consumer'.window = NoWindow
         /\ consumer'.previous = c.previous /\ consumer'.gap = c.gap
<1>1. NoWindow \in AWindow
  BY EmptySeq DEF NoWindow, AWindow
<1>2. <<0, 0>> \in Nat \X Nat
  OBVIOUS
<1>3. PICK d : d = [c EXCEPT !.pc = "wait"]
  OBVIOUS
<1>4. d \in Consumers /\ d.pc = "wait" /\ d.previous = c.previous /\ d.gap = c.gap
  BY <1>3 DEF Consumers
<1>5. PICK e : e = [d EXCEPT !.window = NoWindow]
  OBVIOUS
<1>6. /\ e \in Consumers /\ e.pc = "wait" /\ e.window = NoWindow
      /\ e.previous = c.previous /\ e.gap = c.gap
  BY <1>1, <1>4, <1>5 DEF Consumers
<1>7. PICK f : f = [e EXCEPT !.physical = FALSE]
  OBVIOUS
<1>8. /\ f \in Consumers /\ f.pc = "wait" /\ f.window = NoWindow
      /\ f.previous = c.previous /\ f.gap = c.gap
  BY <1>6, <1>7 DEF Consumers
<1>9. PICK h : h = [f EXCEPT !.read = 0]
  OBVIOUS
<1>10. /\ h \in Consumers /\ h.pc = "wait" /\ h.window = NoWindow
       /\ h.previous = c.previous /\ h.gap = c.gap
  BY <1>8, <1>9 DEF Consumers
<1>11. consumer' = [h EXCEPT !.epoch = <<0, 0>>]
  BY <1>3, <1>5, <1>7, <1>9 DEF Waits
<1> QED
  BY <1>2, <1>10, <1>11 DEF Consumers

\* What leaving the window out, or publishing it, does.
LEMMA LeavesOutEffect ==
  ASSUME TypeOK, LeavesOut
  PROVE  /\ consumer' \in Consumers /\ consumer'.pc = "wait" /\ consumer'.window = NoWindow
         /\ consumer'.previous = consumer.previous /\ consumer'.gap
<1>1. PICK c : c = [consumer EXCEPT !.gap = TRUE]
  OBVIOUS
<1>2. c \in Consumers /\ c.previous = consumer.previous /\ c.gap = TRUE
  BY <1>1 DEF TypeOK, Consumers
<1>3. Waits(c)
  BY <1>1 DEF LeavesOut
<1> QED
  BY <1>2, <1>3, WaitsEffect

LEMMA PublishEffect ==
  ASSUME TypeOK, Publish
  PROVE  /\ consumer' \in Consumers /\ consumer'.pc = "wait" /\ consumer'.window = NoWindow
         /\ consumer'.previous = consumer.window
<1>1. PICK c : c = [consumer EXCEPT !.previous = consumer.window]
  OBVIOUS
<1>2. c \in Consumers /\ c.previous = consumer.window
  BY <1>1 DEF TypeOK, Consumers
<1>3. PICK d : d = [c EXCEPT !.gap = FALSE]
  OBVIOUS
<1>4. d \in Consumers /\ d.previous = consumer.window
  BY <1>2, <1>3 DEF Consumers
<1>5. PICK e : e = [d EXCEPT !.splits = worker.splits]
  OBVIOUS
<1>6. e \in Consumers /\ e.previous = consumer.window
  BY <1>4, <1>5 DEF TypeOK, Consumers, Workers
<1>7. PICK f : f = [e EXCEPT !.faults = consumer.read]
  OBVIOUS
<1>8. f \in Consumers /\ f.previous = consumer.window
  <2>1. consumer.read \in Nat
    BY DEF TypeOK, Consumers
  <2> QED
    BY <1>6, <1>7, <2>1 DEF Consumers
<1>9. Waits(f)
  BY <1>1, <1>3, <1>5, <1>7 DEF Publish
<1> QED
  BY <1>8, <1>9, WaitsEffect

\* What looking at the window does.
LEMMA CheckEffect ==
  ASSUME TypeOK, Check
  PROVE  /\ consumer' \in Consumers
         /\ consumer'.pc = IF consumer'.gap THEN "ask" ELSE "infer"
         /\ consumer'.window = consumer.window /\ consumer'.previous = consumer.previous
         /\ consumer'.physical = Physical(consumer.window)
         /\ consumer'.gap = Skipped(consumer.window)
<1> DEFINE w == consumer.window
<1>1. Skipped(w) \in BOOLEAN /\ Physical(w) \in BOOLEAN
  BY DEF Skipped, Physical, TypeOK, Consumers
<1>2. consumer' = [consumer EXCEPT
           !.pc = IF Skipped(w) THEN "ask" ELSE "infer", !.physical = Physical(w),
           !.gap = Skipped(w), !.dropped = worker.dropped, !.read = input.faults]
  BY DEF Check
<1>3. PICK a : a = [consumer EXCEPT !.pc = IF Skipped(w) THEN "ask" ELSE "infer"]
  OBVIOUS
<1>4. /\ a \in Consumers /\ a.pc = IF Skipped(w) THEN "ask" ELSE "infer"
      /\ a.window = w /\ a.previous = consumer.previous
  BY <1>3 DEF TypeOK, Consumers
<1>5. PICK b : b = [a EXCEPT !.physical = Physical(w)]
  OBVIOUS
<1>6. /\ b \in Consumers /\ b.pc = IF Skipped(w) THEN "ask" ELSE "infer"
      /\ b.window = w /\ b.previous = consumer.previous /\ b.physical = Physical(w)
  BY <1>1, <1>4, <1>5 DEF Consumers
<1>7. PICK c : c = [b EXCEPT !.gap = Skipped(w)]
  OBVIOUS
<1>8. /\ c \in Consumers /\ c.pc = IF Skipped(w) THEN "ask" ELSE "infer"
      /\ c.window = w /\ c.previous = consumer.previous /\ c.physical = Physical(w)
      /\ c.gap = Skipped(w)
  BY <1>1, <1>6, <1>7 DEF Consumers
<1>9. PICK d : d = [c EXCEPT !.dropped = worker.dropped]
  OBVIOUS
<1>10. /\ d \in Consumers /\ d.pc = IF Skipped(w) THEN "ask" ELSE "infer"
       /\ d.window = w /\ d.previous = consumer.previous /\ d.physical = Physical(w)
       /\ d.gap = Skipped(w)
  BY <1>8, <1>9 DEF TypeOK, Consumers, Workers
<1>11. consumer' = [d EXCEPT !.read = input.faults]
  BY <1>2, <1>3, <1>5, <1>7, <1>9
<1> QED
  BY <1>10, <1>11 DEF TypeOK, Consumers, Inputs

\* Both consumer and producer mostly move on and nothing else.
LEMMA GoesEffect ==
  ASSUME TypeOK,
         NEW pc \in {"wait", "empty", "taken", "drain", "check", "ask", "infer", "inferring",
                     "end", "tell", "done"},
         Goes(pc)
  PROVE  /\ consumer' \in Consumers /\ consumer'.pc = pc /\ consumer'.window = consumer.window
         /\ consumer'.previous = consumer.previous
         /\ consumer'.gap = consumer.gap /\ consumer'.physical = consumer.physical
<1> QED
  BY DEF Goes, TypeOK, Consumers

LEMMA MovesEffect ==
  ASSUME TypeOK,
         NEW pc \in {"pull", "put", "evict", "count", "offer", "finish", "close", "done"},
         producer' = [producer EXCEPT !.pc = pc]
  PROVE  /\ producer' \in Producers /\ producer'.pc = pc /\ producer'.run = producer.run
         /\ producer'.last = producer.last /\ producer'.start = producer.start
         /\ producer'.buffer = producer.buffer
<1> QED
  BY DEF TypeOK, Producers

\* Every step of the driver and of the producer keeps the types.
LEMMA ProducerTyped ==
  ASSUME TypeOK, Framing, Callback \/ CallbackFails \/ Producing
  PROVE  TypeOK'
<1> USE DEF TypeOK
<1>1. CASE Callback
  <2>1. PICK at \in Moments, start \in Nat :
          \/ ring' = ring
          \/ ring' = Append(ring, [at |-> at, start |-> start]) /\ Len(ring) # RingCapacity
    BY <1>1, CallbackEffect
  <2>2. [at |-> at, start |-> start] \in Packet
    BY DEF Packet
  <2>3. ring' \in Seq(Packet) /\ Len(ring') <= RingCapacity
    <3>1. /\ Append(ring, [at |-> at, start |-> start]) \in Seq(Packet) /\ Len(ring) \in Nat
          /\ Len(Append(ring, [at |-> at, start |-> start])) = Len(ring) + 1
      BY <2>2, AppendFacts
    <3> QED
      BY <2>1, <3>1, AudioAssumption, SMTT(20)
  <2> QED
    BY <1>1, <2>3, CallbackEffect DEF Callback
<1>2. CASE CallbackFails
  BY <1>2 DEF CallbackFails, Inputs
<1>3. CASE PullPacket
  <2>1. Head(ring) \in Packet /\ Tail(ring) \in Seq(Packet) /\ Len(Tail(ring)) <= RingCapacity
    BY <1>3, TailFacts, AudioAssumption DEF PullPacket
  <2>2. Len(producer.buffer) < WindowSize
    BY <1>3 DEF PullPacket, Framing
  <2> QED
    BY <1>3, <2>1, <2>2, AcceptEffect DEF PullPacket
<1>4. CASE PullBlock
  <2>1. [at |-> input.taken + 1, start |-> input.taken] \in Packet /\ input.taken + 1 \in 0..MaxBlocks
    BY <1>4, AudioAssumption DEF PullBlock, Packet, Moments, Inputs
  <2>2. Len(producer.buffer) < WindowSize
    BY <1>4 DEF PullBlock, Framing
  <2>3. input' \in Inputs
    BY <1>4, <2>1 DEF PullBlock, Inputs
  <2> QED
    BY <1>4, <2>1, <2>2, <2>3, AcceptEffect DEF PullBlock
<1>5. CASE SourceEnds
  <2>1. worker' \in Workers
    BY <1>5 DEF SourceEnds, Workers
  <2> QED
    BY <1>5, <2>1, MovesEffect DEF SourceEnds
<1>6. CASE Put
  <2>1. CASE Queued /\ Room
    <3>1. Len(producer.buffer) = WindowSize
      BY <1>6 DEF Put, Framing, Filling
    <3> QED
      BY <1>6, <2>1, <3>1, QueuedEffect, AudioAssumption DEF Put
  <2>2. CASE producer' = [producer EXCEPT !.pc = "finish"] /\ queue' = queue
    BY <1>6, <2>2, MovesEffect DEF Put
  <2>3. CASE producer' = [producer EXCEPT !.pc = "evict"] /\ queue' = queue
    BY <1>6, <2>3, MovesEffect DEF Put
  <2> QED
    BY <1>6, <2>1, <2>2, <2>3 DEF Put
<1>7. CASE Evict
  <2>1. queue' \in Seq(AWindow) /\ Len(queue') <= QueueCapacity
    <3>1. CASE queue = <<>>
      BY <1>7, <3>1 DEF Evict
    <3>2. CASE queue # <<>>
      <4>1. Tail(queue) \in Seq(AWindow) /\ Len(Tail(queue)) <= QueueCapacity
        BY <3>2, TailFacts, AudioAssumption
      <4> QED
        BY <1>7, <3>2, <4>1 DEF Evict
    <3> QED
      BY <3>1, <3>2
  <2> QED
    BY <1>7, <2>1, MovesEffect DEF Evict
<1>8. CASE Count
  <2>1. worker' \in Workers
    BY <1>8, SMTT(20) DEF Count, Workers
  <2> QED
    BY <1>8, <2>1, MovesEffect DEF Count
<1>9. CASE Offer
  <2>1. CASE Queued /\ Room
    <3>1. Len(producer.buffer) = WindowSize
      BY <1>9 DEF Offer, Framing, Filling
    <3> QED
      BY <1>9, <2>1, <3>1, QueuedEffect, AudioAssumption DEF Offer, Room
  <2>2. CASE ~Room
    <3>1. worker' \in Workers
      BY <1>9, <2>2 DEF Offer, Workers
    <3> QED
      BY <1>9, <2>2, <3>1, MovesEffect DEF Offer
  <2> QED
    BY <1>9, <2>1, <2>2 DEF Offer
<1>10. CASE Finish
  <2>1. worker' \in Workers
    BY <1>10 DEF Finish, Workers
  <2> QED
    BY <1>10, <2>1, MovesEffect DEF Finish
<1>11. CASE ProducerCloses
  BY <1>11, CloseTyped, MovesEffect DEF ProducerCloses
<1> QED
  BY <1>1, <1>2, <1>3, <1>4, <1>5, <1>6, <1>7, <1>8, <1>9, <1>10, <1>11 DEF Producing

\* So does every step of the consumer and of the thread in stop().
LEMMA ConsumerTyped ==
  ASSUME TypeOK, Judged, Consuming \/ Stop \/ StopCloses \/ UNCHANGED vars
  PROVE  TypeOK'
<1> USE DEF TypeOK
<1>1. CASE Take
  <2>1. /\ Head(queue) \in AWindow /\ Tail(queue) \in Seq(AWindow)
        /\ Len(Tail(queue)) <= QueueCapacity
    BY <1>1, TailFacts, AudioAssumption DEF Take
  <2>2. PICK c : c = [consumer EXCEPT !.pc = "taken"]
    OBVIOUS
  <2>3. c \in Consumers /\ consumer' = [c EXCEPT !.window = Head(queue)]
    BY <1>1, <2>2 DEF Take, Consumers
  <2>4. consumer' \in Consumers
    BY <2>1, <2>3 DEF Consumers
  <2> QED
    BY <1>1, <2>1, <2>4 DEF Take
<1>2. CASE Empty
  BY <1>2, GoesEffect DEF Empty
<1>3. CASE AfterEmpty
  BY <1>3, GoesEffect DEF AfterEmpty
<1>4. CASE AfterTake
  BY <1>4, GoesEffect DEF AfterTake
<1>5. CASE Drain
  <2>1. CASE queue = <<>>
    BY <1>5, <2>1, GoesEffect DEF Drain
  <2>2. CASE queue # <<>>
    <3>1. /\ Head(queue) \in AWindow /\ Tail(queue) \in Seq(AWindow)
          /\ Len(Tail(queue)) <= QueueCapacity
      BY <2>2, TailFacts, AudioAssumption
    <3>2. PICK c : c = [consumer EXCEPT !.window = Head(queue)]
      OBVIOUS
    <3>3. c \in Consumers /\ consumer' = [c EXCEPT !.gap = TRUE]
      BY <1>5, <2>2, <3>1, <3>2 DEF Drain, Consumers
    <3>4. consumer' \in Consumers
      BY <3>3 DEF Consumers
    <3>5. worker' \in Workers
      BY <1>5, <2>2 DEF Drain, Workers
    <3> QED
      BY <1>5, <2>2, <3>1, <3>4, <3>5 DEF Drain
  <2> QED
    BY <2>1, <2>2
<1>6. CASE Outdated
  BY <1>6, LeavesOutEffect DEF Outdated
<1>7. CASE Check
  BY <1>7, CheckEffect DEF Check
<1>8. CASE TellGap
  BY <1>8, GoesEffect, LeavesOutEffect DEF TellGap
<1>9. CASE Infer
  <2>1. Epoch \in Nat \X Nat /\ consumer.epoch \in Nat \X Nat
    BY DEF Epoch, Inputs, Workers, Consumers
  <2>2. PICK c : c = [consumer EXCEPT !.pc = "inferring"]
    OBVIOUS
  <2>3. /\ c \in Consumers
        /\ consumer' = [c EXCEPT !.epoch = IF LiveReference THEN Epoch ELSE consumer.epoch]
    BY <1>9, <2>2 DEF Infer, Consumers
  <2>4. consumer' \in Consumers
    BY <2>1, <2>3 DEF Consumers
  <2> QED
    BY <1>9, <2>4 DEF Infer
<1>10. CASE Refused
  BY <1>10, LeavesOutEffect DEF Refused
<1>11. CASE Fails
  <2>1. worker' \in Workers
    BY <1>11 DEF Fails, Workers
  <2> QED
    BY <1>11, <2>1, GoesEffect DEF Fails
<1>12. CASE Publish
  BY <1>12, PublishEffect DEF Publish
<1>13. CASE ConsumerCloses
  BY <1>13, CloseTyped, GoesEffect DEF ConsumerCloses
<1>14. CASE Tell
  <2>1. worker.told = 0
    BY <1>14 DEF Tell, Judged
  <2>2. worker' \in Workers
    BY <1>14, <2>1 DEF Tell, Workers
  <2> QED
    BY <1>14, <2>2, GoesEffect DEF Tell
<1>15. CASE Stop
  BY <1>15 DEF Stop, Workers
<1>16. CASE StopCloses
  BY <1>16, CloseTyped DEF StopCloses
<1>17. CASE UNCHANGED vars
  BY <1>17 DEF vars
<1> QED
  BY <1>1, <1>2, <1>3, <1>4, <1>5, <1>6, <1>7, <1>8, <1>9, <1>10, <1>11, <1>12, <1>13, <1>14,
     <1>15, <1>16, <1>17 DEF Consuming

-----------------------------------------------------------------------------
(* Positions and moments.                                                  *)

\* Everything handed out was recorded; what is not touched stays as it is.
LEMMA StreamKept ==
  ASSUME TypeOK, Stream,
         ring' = ring, input'.taken = input.taken, input'.next = input.next,
         input'.lost = input.lost, input'.kind = input.kind,
         producer'.run = producer.run, producer'.last = producer.last,
         producer'.pc \in Filling \cup {"pull"} => producer.pc \in Filling \cup {"pull"}
  PROVE  Stream'
<1> QED
  BY DEF Stream, IsBefore, Mic, Follows

\* The driver's callback continues the stream.
LEMMA CallbackStream ==
  ASSUME TypeOK, Stream, Callback
  PROVE  Stream'
<1>1. PICK at \in Moments, start \in Nat :
        /\ at > input.taken /\ input'.taken = at
        /\ start >= input.next /\ (start = input.next => at = input.taken + 1)
        /\ input'.next = start + 1
        /\ \/ /\ ring' = ring
              /\ input'.lost \subseteq input.lost \cup (input.taken + 1)..at
           \/ /\ ring' = Append(ring, [at |-> at, start |-> start])
              /\ input'.lost \subseteq input.lost \cup (input.taken + 1)..(at - 1)
  BY CallbackEffect
<1>2. /\ Mic /\ Mic' /\ producer' = producer
      /\ input.taken \in Nat /\ input.next \in Nat /\ at \in Nat
      /\ input.lost \subseteq Moments /\ Moments \subseteq Nat
  <2>1. MaxBlocks \in Nat /\ Moments \subseteq Nat
    BY AudioAssumption DEF Moments
  <2>2. /\ input.taken \in Nat /\ input.next \in Nat /\ at \in Nat /\ input.lost \subseteq Moments
    BY <2>1 DEF TypeOK, Inputs
  <2>3. Mic /\ input'.kind = input.kind
    BY CallbackEffect
  <2> QED
    BY <2>1, <2>2, <2>3 DEF Callback, Mic
<1>3. ASSUME NEW t \in input'.lost
      PROVE  t <= input'.taken
  <2>1. t \in input.lost \/ t \in (input.taken + 1)..at \/ t \in (input.taken + 1)..(at - 1)
    BY <1>1
  <2>2. t \in input.lost => t <= input.taken /\ t \in Nat
    BY <1>2 DEF Stream
  <2> QED
    BY <1>1, <1>2, <2>1, <2>2
<1> DEFINE new == [at |-> at, start |-> start]
<1>4. new \in Packet /\ new.at = at /\ new.start = start
  BY DEF Packet
<1>5. ASSUME NEW p \in [at : Nat, start : Nat], IsBefore(p, input.taken, input.next)
      PROVE  IsBefore(p, input'.taken, input'.next) /\ Follows(p, new)
  BY <1>1, <1>2, <1>4, <1>5 DEF IsBefore, Follows
<1>6. ring \in Seq(Packet) /\ Len(ring) \in Nat /\ \A i \in 1..Len(ring) : ring[i] \in Packet
  BY LenProperties, ElementOfSeq DEF TypeOK
<1>7. Packet \subseteq [at : Nat, start : Nat]
  BY <1>2 DEF Packet
<1>8. producer.last \in [at : Nat, start : Nat]
  BY DEF TypeOK, Producers
<1>9. ASSUME NEW i \in 1..Len(ring)
      PROVE  /\ IsBefore(ring[i], input'.taken, input'.next) /\ Follows(ring[i], new)
             /\ ring[i].at \notin input'.lost
  <2>1. IsBefore(ring[i], input.taken, input.next) /\ ring[i].at \notin input.lost
    BY DEF Stream
  <2>2. ring[i] \in [at : Nat, start : Nat] /\ ring[i].at \in Nat
    BY <1>6, <1>7
  <2>3. ring[i].at <= input.taken
    BY <2>1 DEF IsBefore
  <2>4. ring[i].at \notin input'.lost
    BY <1>1, <1>2, <2>1, <2>2, <2>3
  <2> QED
    BY <1>5, <2>1, <2>2, <2>4
<1>10. producer.run # 0 => /\ producer.last.at <= input'.taken
                           /\ IsBefore(producer.last, input'.taken, input'.next)
                           /\ Follows(producer.last, new)
  BY <1>2, <1>5, <1>8 DEF Stream, IsBefore
<1>11. CASE ring' = ring
  BY <1>2, <1>3, <1>9, <1>10, <1>11 DEF Stream
<1>12. CASE /\ ring' = Append(ring, new)
            /\ input'.lost \subseteq input.lost \cup (input.taken + 1)..(at - 1)
  <2>1. /\ Len(ring') = Len(ring) + 1 /\ ring'[Len(ring) + 1] = new
        /\ \A i \in 1..Len(ring) : ring'[i] = ring[i]
    BY <1>4, <1>6, <1>12, AppendFacts
  <2>2. IsBefore(new, input'.taken, input'.next) /\ new.at \notin input'.lost
    <3>1. at \notin input.lost
      BY <1>1, <1>2 DEF Stream
    <3> QED
      BY <1>1, <1>2, <1>4, <1>12, <3>1 DEF IsBefore
  <2>3. ASSUME NEW i \in 1..Len(ring')
        PROVE  IsBefore(ring'[i], input'.taken, input'.next) /\ ring'[i].at \notin input'.lost
    <3>1. CASE i \in 1..Len(ring)
      BY <1>9, <2>1, <3>1
    <3>2. CASE i = Len(ring) + 1
      BY <2>1, <2>2, <3>2
    <3> QED
      BY <1>6, <2>1, <3>1, <3>2
  <2>4. ASSUME NEW i \in 1..Len(ring'), NEW j \in 1..Len(ring'), i < j
        PROVE  Follows(ring'[i], ring'[j])
    <3>1. i \in 1..Len(ring)
      BY <1>6, <2>1, <2>4
    <3>2. CASE j \in 1..Len(ring)
      BY <2>1, <2>4, <3>1, <3>2 DEF Stream
    <3>3. CASE j = Len(ring) + 1
      BY <1>9, <2>1, <3>1, <3>3
    <3> QED
      BY <1>6, <2>1, <3>2, <3>3
  <2>5. ASSUME NEW i \in 1..Len(ring'), producer.run # 0
        PROVE  Follows(producer.last, ring'[i])
    <3>1. CASE i \in 1..Len(ring)
      BY <1>2, <2>1, <2>5, <3>1 DEF Stream
    <3>2. CASE i = Len(ring) + 1
      BY <1>10, <2>1, <2>5, <3>2
    <3> QED
      BY <1>6, <2>1, <3>1, <3>2
  <2> QED
    BY <1>2, <1>3, <1>10, <2>3, <2>4, <2>5 DEF Stream
<1> QED
  BY <1>1, <1>11, <1>12

\* A packet taken from the ring is the last one; what is left follows it.
LEMMA PacketStream ==
  ASSUME TypeOK, Stream, Framing, PullPacket
  PROVE  Stream'
<1>1. /\ Mic /\ input' = input /\ Mic' /\ ring # <<>> /\ ring' = Tail(ring)
      /\ producer.pc = "pull" /\ Accept(Head(ring))
  BY DEF PullPacket, Mic
<1>2. /\ ring \in Seq(Packet) /\ Len(ring) \in Nat \ {0} /\ Head(ring) = ring[1]
      /\ Head(ring) \in Packet /\ Len(ring') = Len(ring) - 1
      /\ \A i \in 1..Len(ring) - 1 : ring'[i] = ring[i + 1]
  BY <1>1, TailFacts DEF TypeOK
<1>3. \A i \in 1..Len(ring') :
        IsBefore(ring'[i], input'.taken, input'.next) /\ ring'[i].at \notin input'.lost
  <2>1. ASSUME NEW i \in 1..Len(ring')
        PROVE  i + 1 \in 1..Len(ring) /\ ring'[i] = ring[i + 1]
    BY <1>2
  <2> QED
    BY <1>1, <2>1 DEF Stream
<1>4. \A i, j \in 1..Len(ring') : i < j => Follows(ring'[i], ring'[j])
  <2>1. ASSUME NEW i \in 1..Len(ring'), NEW j \in 1..Len(ring'), i < j
        PROVE  /\ i + 1 \in 1..Len(ring) /\ j + 1 \in 1..Len(ring) /\ i + 1 < j + 1
               /\ ring'[i] = ring[i + 1] /\ ring'[j] = ring[j + 1]
    BY <1>2, <2>1
  <2>2. ASSUME NEW i \in 1..Len(ring'), NEW j \in 1..Len(ring'), i < j
        PROVE  Follows(ring'[i], ring'[j])
    <3>1. \A k, l \in 1..Len(ring) : k < l => Follows(ring[k], ring[l])
      BY DEF Stream
    <3>2. Follows(ring[i + 1], ring[j + 1])
      BY <2>1, <2>2, <3>1
    <3> QED
      BY <2>1, <2>2, <3>2
  <2> QED
    BY <2>2
<1>5. Len(producer.buffer) < WindowSize
  BY <1>1 DEF Framing
<1>6. \/ producer'.run = producer.run /\ producer'.last = producer.last
      \/ producer'.last = ring[1]
  BY <1>1, <1>2, <1>5, AcceptEffect
<1>7. CASE producer'.run = producer.run /\ producer'.last = producer.last
  <2>1. ASSUME producer.run # 0, NEW i \in 1..Len(ring')
        PROVE  Follows(producer.last, ring'[i])
    <3>1. i + 1 \in 1..Len(ring) /\ ring'[i] = ring[i + 1]
      BY <1>2
    <3> QED
      BY <1>1, <2>1, <3>1 DEF Stream
  <2>2. producer.run # 0 => /\ producer.last.at <= input'.taken
                            /\ IsBefore(producer.last, input'.taken, input'.next)
    BY <1>1 DEF Stream
  <2>3. \A t \in input'.lost : t <= input'.taken
    BY <1>1 DEF Stream
  <2> QED
    BY <1>1, <1>3, <1>4, <1>7, <2>1, <2>2, <2>3 DEF Stream
<1>8. CASE producer'.last = ring[1]
  <2>1. 1 \in 1..Len(ring)
    BY <1>2
  <2>2. IsBefore(ring[1], input'.taken, input'.next)
    BY <1>1, <2>1 DEF Stream
  <2>3. ASSUME NEW i \in 1..Len(ring')
        PROVE  Follows(ring[1], ring'[i])
    <3>1. i + 1 \in 1..Len(ring) /\ ring'[i] = ring[i + 1] /\ 1 < i + 1
      BY <1>2
    <3>2. \A k, l \in 1..Len(ring) : k < l => Follows(ring[k], ring[l])
      BY DEF Stream
    <3>3. Follows(ring[1], ring[i + 1])
      BY <2>1, <3>1, <3>2
    <3> QED
      BY <3>1, <3>3
  <2>4. \A t \in input'.lost : t <= input'.taken
    BY <1>1 DEF Stream
  <2> QED
    BY <1>1, <1>3, <1>4, <1>8, <2>2, <2>3, <2>4 DEF Stream, IsBefore
<1> QED
  BY <1>6, <1>7, <1>8

\* A block of a file is the last one.
LEMMA BlockStream ==
  ASSUME TypeOK, Stream, Framing, PullBlock
  PROVE  Stream'
<1> DEFINE p == [at |-> input.taken + 1, start |-> input.taken]
<1>1. /\ ~Mic /\ producer.pc = "pull" /\ input.taken < MaxBlocks /\ Accept(p)
      /\ input' = [input EXCEPT !.taken = @ + 1] /\ ring' = ring
  BY DEF PullBlock
<1>2. /\ input.taken \in Nat /\ input'.taken = input.taken + 1 /\ input'.lost = input.lost
      /\ ~Mic' /\ MaxBlocks \in Nat
  BY <1>1, AudioAssumption DEF TypeOK, Inputs, Mic
<1>3. p \in Packet
  BY <1>1, <1>2 DEF Packet, Moments
<1>4. ring = <<>> /\ input.lost = {} /\ Len(ring) = 0
  BY <1>1, EmptySeq DEF Stream
<1>5. Len(producer.buffer) < WindowSize
  BY <1>1 DEF Framing
<1>6. \/ producer'.run = producer.run /\ producer'.last = producer.last /\ producer'.pc = "finish"
      \/ producer'.last = p
  BY <1>1, <1>3, <1>5, AcceptEffect
<1>7. producer.last.at \in Nat
  BY DEF TypeOK, Producers
<1>8. CASE producer'.run = producer.run /\ producer'.last = producer.last /\ producer'.pc = "finish"
  <2>1. producer.run # 0 => producer.last.at <= input'.taken
    BY <1>2, <1>7 DEF Stream
  <2> QED
    BY <1>1, <1>2, <1>4, <1>8, <2>1 DEF Stream, Filling
<1>9. CASE producer'.last = p
  <2>1. producer'.last.at = input'.taken /\ producer'.last.start + 1 = input'.taken
    BY <1>2, <1>9
  <2>2. producer'.last.at <= input'.taken
    BY <1>2, <2>1
  <2> QED
    BY <1>1, <1>2, <1>4, <2>1, <2>2 DEF Stream
<1> QED
  BY <1>6, <1>8, <1>9

\* The stream is kept by every step.
LEMMA StreamStep ==
  ASSUME TypeOK, Stream, Framing, [Next]_vars
  PROVE  Stream'
<1>1. CASE Callback
  BY <1>1, CallbackStream
<1>2. CASE PullPacket
  BY <1>2, PacketStream
<1>3. CASE PullBlock
  BY <1>3, BlockStream
<1>4. CASE CallbackFails
  <2>1. /\ input'.taken = input.taken /\ input'.next = input.next /\ input'.lost = input.lost
        /\ input'.kind = input.kind
    BY <1>4 DEF CallbackFails, TypeOK, Inputs
  <2> QED
    BY <1>4, <2>1, StreamKept DEF CallbackFails
<1>5. CASE Consuming \/ Stop \/ StopCloses \/ UNCHANGED vars
  <2>1. /\ ring' = ring /\ producer' = producer
        /\ input'.taken = input.taken /\ input'.next = input.next /\ input'.lost = input.lost
        /\ input'.kind = input.kind
    BY <1>5, CloseTyped DEF Consuming, Stop, StopCloses, vars, Take, Empty, AfterEmpty, AfterTake,
       Drain, Outdated, Check, TellGap, Infer, Refused, Fails, Publish, ConsumerCloses, Tell
  <2> QED
    BY <2>1, StreamKept
<1>6. CASE SourceEnds \/ Put \/ Evict \/ Count \/ Offer \/ Finish \/ ProducerCloses
  <2>1. /\ ring' = ring
        /\ input'.taken = input.taken /\ input'.next = input.next /\ input'.lost = input.lost
        /\ input'.kind = input.kind
    BY <1>6, CloseTyped DEF SourceEnds, Put, Evict, Count, Offer, Finish, ProducerCloses
  <2>2. CASE Queued
    <3>1. producer.pc \in Filling
      BY <1>6, <2>2 DEF SourceEnds, Put, Evict, Count, Offer, Finish, ProducerCloses, Filling,
         Queued
    <3> QED
      BY <2>1, <2>2, <3>1, StreamKept DEF Queued
  <2>3. CASE ~Queued
    <3>1. PICK pc \in {"evict", "count", "offer", "finish", "close", "done"} :
            /\ producer' = [producer EXCEPT !.pc = pc]
            /\ pc \in Filling => producer.pc \in Filling
      BY <1>6, <2>3 DEF SourceEnds, Put, Evict, Count, Offer, Finish, ProducerCloses, Filling
    <3>2. /\ producer'.pc = pc /\ producer'.run = producer.run /\ producer'.last = producer.last
      BY <3>1, MovesEffect
    <3> QED
      BY <2>1, <3>1, <3>2, StreamKept DEF Filling
  <2> QED
    BY <2>2, <2>3
<1> QED
  BY <1>1, <1>2, <1>3, <1>4, <1>5, <1>6 DEF Next, Producing

-----------------------------------------------------------------------------
(* The buffer.                                                             *)

LEMMA Numbers ==
  ASSUME TypeOK
  PROVE  /\ producer.run \in Nat /\ producer.start \in Nat
         /\ producer.last.at \in Nat /\ producer.last.start \in Nat
         /\ producer.buffer \in Seq(Moments) /\ Len(producer.buffer) \in Nat
         /\ Len(producer.buffer) <= WindowSize
         /\ WindowSize \in Nat \ {0} /\ Hop \in Nat \ {0} /\ Hop <= WindowSize
         /\ Moments \subseteq Nat /\ input.lost \subseteq Moments /\ input.taken \in Nat
<1>1. /\ producer.run \in Nat /\ producer.start \in Nat
      /\ producer.last.at \in Nat /\ producer.last.start \in Nat
      /\ producer.buffer \in Seq(Moments) /\ Len(producer.buffer) <= WindowSize
  BY DEF TypeOK, Producers
<1>2. Len(producer.buffer) \in Nat
  BY <1>1, LenProperties
<1>3. WindowSize \in Nat \ {0} /\ Hop \in Nat \ {0} /\ Hop <= WindowSize /\ Moments \subseteq Nat
  BY AudioAssumption DEF Moments
<1>4. input.lost \subseteq Moments /\ input.taken \in Nat
  BY AudioAssumption DEF TypeOK, Inputs
<1> QED
  BY <1>1, <1>2, <1>3, <1>4

\* Steps that leave the buffer alone keep what is known of it.
LEMMA FramingKept ==
  ASSUME Framing, input'.lost = input.lost,
         producer'.run = producer.run, producer'.last = producer.last,
         producer'.start = producer.start, producer'.buffer = producer.buffer,
         producer'.pc = "pull" => producer.pc = "pull",
         producer'.pc \in Filling => producer.pc \in Filling
  PROVE  Framing'
<1> QED
  BY DEF Framing

\* What is lost after the last packet lies beyond the buffer.
LEMMA CallbackFraming ==
  ASSUME TypeOK, Stream, Framing, Callback
  PROVE  Framing'
<1>1. producer' = producer
  BY DEF Callback
<1>2. ASSUME NEW t \in input'.lost
      PROVE  (t \in input.lost \/ t > input.taken) /\ t \in Int
  <2>1. PICK at \in Moments :
          \/ input'.lost \subseteq input.lost \cup (input.taken + 1)..at
          \/ input'.lost \subseteq input.lost \cup (input.taken + 1)..(at - 1)
    BY CallbackEffect
  <2>2. t \in input.lost \/ t \in (input.taken + 1)..at \/ t \in (input.taken + 1)..(at - 1)
    BY <2>1
  <2>3. at \in Nat /\ input.taken \in Nat /\ input.lost \subseteq Nat
    BY Numbers
  <2> QED
    BY <2>2, <2>3
<1>3. producer.run # 0 => producer.last.at <= input.taken
  BY DEF Stream
<1>4. producer.run = 0 => Len(producer.buffer) = 0
  BY EmptySeq DEF Framing
<1>5. ASSUME NEW t \in input'.lost
      PROVE  ~(producer.last.at - Len(producer.buffer) < t /\ t <= producer.last.at)
  <2>1. CASE t \in input.lost
    BY <2>1 DEF Framing
  <2>2. CASE t > input.taken
    <3>1. /\ t \in Int /\ producer.last.at \in Nat /\ input.taken \in Nat
          /\ Len(producer.buffer) \in Nat
      BY <1>2, Numbers
    <3> QED
      BY <1>3, <1>4, <2>2, <3>1
  <2> QED
    BY <1>2, <2>1, <2>2
<1> QED
  BY <1>1, <1>5 DEF Framing

\* A packet that follows the last one continues the buffer or starts it anew.
LEMMA AcceptFraming ==
  ASSUME TypeOK, Framing, NEW p \in Packet, Accept(p), producer.pc = "pull",
         input'.lost = input.lost, p.at \notin input.lost,
         producer.run # 0 => Follows(producer.last, p)
  PROVE  Framing'
<1> DEFINE n == Len(producer.buffer)
<1>1. /\ n \in Nat /\ n < WindowSize /\ producer.last.at \in Nat /\ producer.last.start \in Nat
      /\ producer.start \in Nat /\ producer.run \in Nat /\ input.lost \subseteq Nat
      /\ WindowSize \in Nat
  BY Numbers DEF Framing
<1>2. p.at \in Moments /\ p.at \in Nat /\ p.start \in Nat
  BY Numbers DEF Packet
<1>3. Len(producer'.buffer) <= WindowSize
  BY <1>1, AcceptEffect
<1>4. CASE /\ producer'.pc = "finish" /\ producer'.run = producer.run
           /\ producer'.last = producer.last /\ producer'.start = producer.start
           /\ producer'.buffer = producer.buffer
  BY <1>4, FramingKept DEF Filling
<1>5. CASE /\ producer'.pc = IF Len(producer'.buffer) = WindowSize THEN "put" ELSE "pull"
           /\ producer'.last = p
           /\ producer.run # 0 /\ p.start = producer.last.start + 1
           /\ producer'.run = producer.run /\ producer'.start = producer.start
           /\ producer'.buffer = Append(producer.buffer, p.at)
  <2>1. p.at = producer.last.at + 1
    BY <1>5 DEF Follows
  <2>2. /\ Len(producer'.buffer) = n + 1
        /\ \A i \in 1..n : producer'.buffer[i] = producer.buffer[i]
        /\ producer'.buffer[n + 1] = p.at
    BY <1>2, <1>5, Numbers, AppendFacts
  <2>3. producer'.last.start + 1 = producer'.start + Len(producer'.buffer)
    <3>1. producer.last.start + 1 = producer.start + n
      BY <1>5 DEF Framing
    <3> QED
      BY <1>1, <1>2, <1>5, <2>2, <3>1
  <2>4. ASSUME NEW i \in 1..Len(producer'.buffer)
        PROVE  producer'.buffer[i] = producer'.last.at - Len(producer'.buffer) + i
    <3>1. CASE i \in 1..n
      <4>1. producer.buffer[i] = producer.last.at - n + i
        BY <3>1 DEF Framing
      <4> QED
        BY <1>1, <1>2, <1>5, <2>1, <2>2, <3>1, <4>1
    <3>2. CASE i = n + 1
      BY <1>1, <1>2, <1>5, <2>2, <3>2
    <3> QED
      BY <1>1, <2>2, <3>1, <3>2
  <2>5. ASSUME NEW t \in input'.lost
        PROVE  ~(producer'.last.at - Len(producer'.buffer) < t /\ t <= producer'.last.at)
    <3>1. ~(producer.last.at - n < t /\ t <= producer.last.at) /\ t # p.at /\ t \in Nat
      BY <1>1 DEF Framing
    <3>3. producer'.last.at = producer.last.at + 1 /\ t # producer.last.at + 1
      BY <1>5, <2>1, <3>1
    <3>4. producer.last.at \in Nat /\ n \in Nat /\ Len(producer'.buffer) = n + 1
      BY <1>1, <2>2
    <3>2. producer'.last.at - Len(producer'.buffer) = producer.last.at - n
      BY <3>3, <3>4, SMTT(20)
    <3>5. CASE t <= producer.last.at
      BY <3>1, <3>2, <3>5
    <3>6. CASE t > producer.last.at
      BY <3>1, <3>3, <3>4, <3>6
    <3> QED
      BY <3>1, <3>4, <3>5, <3>6
  <2> QED
    BY <1>1, <1>3, <1>5, <2>2, <2>3, <2>4, <2>5 DEF Framing, Filling
<1>6. CASE /\ producer'.pc = IF Len(producer'.buffer) = WindowSize THEN "put" ELSE "pull"
           /\ producer'.last = p
           /\ producer'.run = producer.run + 1 /\ producer'.start = p.start
           /\ producer'.buffer = <<p.at>>
  <2>1. Len(producer'.buffer) = 1 /\ producer'.buffer[1] = p.at
    BY <1>6
  <2>2. \A i \in 1..Len(producer'.buffer) :
          producer'.buffer[i] = producer'.last.at - Len(producer'.buffer) + i
    BY <1>2, <1>6, <2>1
  <2>3. ASSUME NEW t \in input'.lost
        PROVE  ~(producer'.last.at - Len(producer'.buffer) < t /\ t <= producer'.last.at)
    <3>1. t # p.at /\ t \in Nat
      BY <1>1
    <3> QED
      BY <1>2, <1>6, <2>1, <3>1
  <2>4. producer'.run # 0
    BY <1>1, <1>6
  <2> QED
    BY <1>1, <1>2, <1>3, <1>6, <2>1, <2>2, <2>3, <2>4 DEF Framing, Filling
<1>7. Len(producer.buffer) < WindowSize
  BY <1>1
<1> HIDE DEF n
<1> QED
  BY <1>4, <1>5, <1>6, <1>7, AcceptEffect

\* A window framed leaves the end of the buffer.
LEMMA QueuedFraming ==
  ASSUME TypeOK, Framing, Queued, Room, producer.pc \in Filling, input'.lost = input.lost
  PROVE  Framing'
<1>1. Len(producer.buffer) = WindowSize /\ producer.run # 0
  BY DEF Framing
<1>2. /\ producer'.pc = "pull" /\ producer'.run = producer.run /\ producer'.last = producer.last
      /\ producer'.start = producer.start + Hop
      /\ Len(producer'.buffer) = WindowSize - Hop
      /\ \A i \in 1..WindowSize - Hop : producer'.buffer[i] = producer.buffer[Hop + i]
  BY <1>1, QueuedEffect
<1>3. producer'.last.start + 1 = producer'.start + Len(producer'.buffer)
  <2>1. producer.last.start + 1 = producer.start + WindowSize
    BY <1>1 DEF Framing
  <2> QED
    BY <1>2, <2>1, Numbers
<1>4. ASSUME NEW i \in 1..Len(producer'.buffer)
      PROVE  producer'.buffer[i] = producer'.last.at - Len(producer'.buffer) + i
  <2>1. i \in 1..WindowSize - Hop /\ Hop + i \in 1..WindowSize
    BY <1>2, Numbers
  <2>2. producer.buffer[Hop + i] = producer.last.at - WindowSize + (Hop + i)
    BY <1>1, <2>1 DEF Framing
  <2> QED
    BY <1>2, <2>1, <2>2, Numbers
<1>5. ASSUME NEW t \in input'.lost
      PROVE  ~(producer'.last.at - Len(producer'.buffer) < t /\ t <= producer'.last.at)
  <2>1. ~(producer.last.at - WindowSize < t /\ t <= producer.last.at) /\ t \in Nat
    BY <1>1, Numbers DEF Framing
  <2> QED
    BY <1>2, <2>1, Numbers
<1>6. Len(producer'.buffer) < WindowSize
  BY <1>2, Numbers
<1> QED
  BY <1>1, <1>2, <1>3, <1>4, <1>5, <1>6 DEF Framing, Filling

\* A block of a file, too, follows the last one, and is not lost.
LEMMA PullFollows ==
  ASSUME TypeOK, Stream
  PROVE  /\ PullPacket => /\ Head(ring) \in Packet /\ Head(ring).at \notin input.lost
                          /\ producer.run # 0 => Follows(producer.last, Head(ring))
         /\ PullBlock => LET p == [at |-> input.taken + 1, start |-> input.taken] IN
              /\ p \in Packet /\ p.at \notin input.lost
              /\ producer.run # 0 => Follows(producer.last, p)
<1>1. ASSUME PullPacket
      PROVE  /\ Head(ring) \in Packet /\ Head(ring).at \notin input.lost
             /\ producer.run # 0 => Follows(producer.last, Head(ring))
  <2>1. /\ Mic /\ Head(ring) = ring[1] /\ Head(ring) \in Packet /\ 1 \in 1..Len(ring)
    BY <1>1, TailFacts DEF PullPacket, TypeOK
  <2> QED
    BY <2>1 DEF Stream
<1>2. ASSUME PullBlock
      PROVE  LET p == [at |-> input.taken + 1, start |-> input.taken] IN
               /\ p \in Packet /\ p.at \notin input.lost
               /\ producer.run # 0 => Follows(producer.last, p)
  <2> DEFINE p == [at |-> input.taken + 1, start |-> input.taken]
  <2>1. /\ ~Mic /\ producer.pc = "pull" /\ input.taken < MaxBlocks /\ MaxBlocks \in Nat
        /\ input.taken \in Nat /\ producer.last.at \in Nat /\ producer.last.start \in Nat
    BY <1>2, Numbers, AudioAssumption DEF PullBlock
  <2>2. p \in Packet /\ p.at = input.taken + 1 /\ p.start = input.taken
    BY <2>1 DEF Packet, Moments
  <2>3. p.at \notin input.lost
    BY <2>1 DEF Stream
  <2>4. ASSUME producer.run # 0
        PROVE  producer.last.at = input.taken /\ producer.last.start + 1 = input.taken
    BY <2>1, <2>4 DEF Stream
  <2>5. producer.run # 0 => Follows(producer.last, p)
    BY <2>1, <2>2, <2>4 DEF Follows
  <2> QED
    BY <2>2, <2>3, <2>5
<1> QED
  BY <1>1, <1>2

\* Producer steps that neither pull nor queue only move on.
LEMMA ProducerMoves ==
  ASSUME TypeOK, SourceEnds \/ Put \/ Evict \/ Count \/ Offer \/ Finish \/ ProducerCloses, ~Queued
  PROVE  /\ producer' \in Producers /\ producer'.run = producer.run
         /\ producer'.last = producer.last /\ producer'.start = producer.start
         /\ producer'.buffer = producer.buffer
         /\ producer'.pc # "pull" /\ (producer'.pc \in Filling => producer.pc \in Filling)
         /\ queue' = queue \/ (queue # <<>> /\ queue' = Tail(queue))
         /\ consumer' = consumer
<1>1. PICK pc \in {"evict", "count", "offer", "finish", "close", "done"} :
        /\ producer' = [producer EXCEPT !.pc = pc]
        /\ pc \in Filling => producer.pc \in Filling
  BY DEF SourceEnds, Put, Evict, Count, Offer, Finish, ProducerCloses, Filling
<1>2. queue' = queue \/ (queue # <<>> /\ queue' = Tail(queue))
  BY DEF SourceEnds, Put, Evict, Count, Offer, Finish, ProducerCloses
<1>3. consumer' = consumer
  BY DEF SourceEnds, Put, Evict, Count, Offer, Finish, ProducerCloses
<1> QED
  BY <1>1, <1>2, <1>3, MovesEffect

\* What the producer's other steps and the consumer's leave of the input.
LEMMA InputKept ==
  ASSUME TypeOK,
         \/ CallbackFails \/ Consuming \/ Stop \/ StopCloses \/ UNCHANGED vars
         \/ SourceEnds \/ Put \/ Evict \/ Count \/ Offer \/ Finish \/ ProducerCloses
  PROVE  input'.taken = input.taken /\ input'.lost = input.lost
<1> QED
  BY CloseTyped DEF CallbackFails, Consuming, Stop, StopCloses, vars, Take, Empty, AfterEmpty,
     AfterTake, Drain, Outdated, Check, TellGap, Infer, Refused, Fails, Publish, ConsumerCloses,
     Tell, SourceEnds, Put, Evict, Count, Offer, Finish, ProducerCloses, TypeOK, Inputs

\* The driver, the consumer and stop() leave the producer alone.
LEMMA ProducerKept ==
  ASSUME Callback \/ CallbackFails \/ Consuming \/ Stop \/ StopCloses \/ UNCHANGED vars
  PROVE  producer' = producer
<1> QED
  BY DEF Callback, CallbackFails, Consuming, Stop, StopCloses, vars, Take, Empty, AfterEmpty,
     AfterTake, Drain, Outdated, Check, TellGap, Infer, Refused, Fails, Publish, ConsumerCloses,
     Tell

\* What is known of the buffer is kept by every step.
LEMMA FramingStep ==
  ASSUME TypeOK, Stream, Framing, [Next]_vars
  PROVE  Framing'
<1>1. CASE Callback
  BY <1>1, CallbackFraming
<1>2. CASE PullPacket
  BY <1>2, AcceptFraming, PullFollows DEF PullPacket
<1>3. CASE PullBlock
  <2>1. input'.lost = input.lost
    BY <1>3 DEF PullBlock, TypeOK, Inputs
  <2> QED
    BY <1>3, <2>1, AcceptFraming, PullFollows DEF PullBlock
<1>4. CASE CallbackFails \/ Consuming \/ Stop \/ StopCloses \/ UNCHANGED vars
  BY <1>4, InputKept, ProducerKept, FramingKept
<1>5. CASE SourceEnds \/ Put \/ Evict \/ Count \/ Offer \/ Finish \/ ProducerCloses
  <2>1. input'.lost = input.lost
    BY <1>5, InputKept
  <2>2. CASE Queued
    <3>1. Room /\ producer.pc \in Filling
      BY <1>5, <2>2 DEF SourceEnds, Put, Evict, Count, Offer, Finish, ProducerCloses, Filling,
         Queued
    <3> QED
      BY <2>1, <2>2, <3>1, QueuedFraming
  <2>3. CASE ~Queued
    BY <1>5, <2>1, <2>3, ProducerMoves, FramingKept
  <2> QED
    BY <2>2, <2>3
<1> QED
  BY <1>1, <1>2, <1>3, <1>4, <1>5 DEF Next, Producing

-----------------------------------------------------------------------------
(* The windows.                                                            *)

\* Taking windows out of the queue, passing them on or leaving them out.
LEMMA WindowsShrink ==
  ASSUME TypeOK, queue' = queue \/ (queue # <<>> /\ queue' = Tail(queue)),
         consumer'.window \in {NoWindow, consumer.window} \cup {queue[i] : i \in 1..Len(queue)},
         consumer'.previous \in {consumer.previous, consumer.window}
  PROVE  Windows' \subseteq Windows
<1>1. CASE queue' = queue
  BY <1>1 DEF Windows, NoWindow
<1>2. CASE queue # <<>> /\ queue' = Tail(queue)
  <2>1. /\ Len(queue) \in Nat \ {0} /\ Len(queue') = Len(queue) - 1
        /\ \A i \in 1..Len(queue) - 1 : queue'[i] = queue[i + 1]
    BY <1>2, TailFacts DEF TypeOK
  <2>2. ASSUME NEW i \in 1..Len(queue')
        PROVE  \E j \in 1..Len(queue) : queue'[i] = queue[j]
    <3>1. i + 1 \in 1..Len(queue)
      BY <2>1
    <3>2. queue'[i] = queue[i + 1]
      BY <2>1
    <3> QED
      BY <3>1, <3>2
  <2> QED
    BY <2>2, ZenonT(40) DEF Windows, NoWindow
<1> QED
  BY <1>1, <1>2

\* Steps that add no window, change no run and lose nothing.
LEMMA FramedKept ==
  ASSUME Framed, Windows' \subseteq Windows,
         producer'.run = producer.run, producer'.last = producer.last,
         input'.taken = input.taken, input'.lost = input.lost
  PROVE  Framed'
<1> QED
  BY DEF Framed, Whole, Recent, OneRecording

LEMMA WindowNumbers ==
  ASSUME TypeOK, Framed, NEW w \in Windows
  PROVE  /\ w.run \in Nat \ {0} /\ w.run <= producer.run /\ w.start \in Nat
         /\ w.heard[1] \in Nat /\ w.heard[1] <= input.taken
<1>1. w \in AWindow
  <2>1. \A i \in 1..Len(queue) : queue[i] \in AWindow
    BY ElementOfSeq DEF TypeOK
  <2> QED
    BY <2>1 DEF Windows, TypeOK, Consumers
<1>2. Whole(w) /\ w.heard[1] <= input.taken
  BY DEF Framed
<1>3. w.run \in Nat /\ w.start \in Nat /\ w.heard \in Seq(Moments) /\ Len(w.heard) = WindowSize
  BY <1>1, <1>2 DEF AWindow, Whole
<1>4. 1 \in 1..Len(w.heard)
  BY <1>3, Numbers
<1>5. w.heard[1] \in Nat
  BY <1>3, <1>4, ElementOfSeq, Numbers
<1> QED
  BY <1>2, <1>3, <1>5 DEF Whole

\* What is lost after the last packet lies between no two windows.
LEMMA CallbackFramed ==
  ASSUME TypeOK, Stream, Framed, Callback
  PROVE  Framed'
<1>1. producer' = producer /\ queue' = queue /\ consumer' = consumer
  BY DEF Callback
<1>2. input.taken \in Nat /\ input'.taken \in Nat /\ input.taken <= input'.taken
  <2>1. PICK at \in Moments : at > input.taken /\ input'.taken = at
    BY CallbackEffect
  <2>2. at \in Nat /\ input.taken \in Nat
    BY Numbers
  <2> QED
    BY <2>1, <2>2
<1>3. ASSUME NEW t \in input'.lost
      PROVE  (t \in input.lost \/ t > input.taken) /\ t \in Int
  <2>1. PICK at \in Moments :
          \/ input'.lost \subseteq input.lost \cup (input.taken + 1)..at
          \/ input'.lost \subseteq input.lost \cup (input.taken + 1)..(at - 1)
    BY CallbackEffect
  <2>2. t \in input.lost \/ t \in (input.taken + 1)..at \/ t \in (input.taken + 1)..(at - 1)
    BY <2>1
  <2>3. at \in Nat /\ input.taken \in Nat /\ input.lost \subseteq Nat
    BY Numbers
  <2> QED
    BY <2>2, <2>3
<1>4. Windows' = Windows
  BY <1>1 DEF Windows, NoWindow
<1>5. ASSUME NEW w \in Windows
      PROVE  Whole(w)' /\ Recent(w)' /\ w.heard[1] <= input'.taken
  <2>1. Whole(w) /\ Recent(w) /\ w.heard[1] <= input.taken
    BY DEF Framed
  <2>2. w.heard[1] \in Nat /\ w.run # 0
    BY WindowNumbers
  <2>3. Whole(w)'
    BY <1>1, <2>1 DEF Whole
  <2>4. ASSUME NEW t \in input'.lost, w.run = producer.run
        PROVE  ~(w.heard[1] <= t /\ t <= producer.last.at)
    <3>1. CASE t \in input.lost
      BY <2>1, <2>4, <3>1 DEF Recent
    <3>2. CASE t > input.taken
      <4>1. producer.last.at <= input.taken /\ producer.last.at \in Nat /\ t \in Int
        BY <1>3, <2>2, <2>4, Numbers DEF Stream
      <4> QED
        BY <1>2, <3>2, <4>1
    <3> QED
      BY <1>3, <3>1, <3>2
  <2>5. Recent(w)'
    BY <1>1, <2>1, <2>4 DEF Recent
  <2>6. w.heard[1] <= input'.taken
    BY <1>2, <2>1, <2>2
  <2> QED
    BY <2>3, <2>5, <2>6
<1>6. ASSUME NEW v \in Windows, NEW w \in Windows
      PROVE  OneRecording(v, w)'
  <2>1. OneRecording(v, w) /\ w.heard[1] <= input.taken /\ w.heard[1] \in Nat
    BY WindowNumbers DEF Framed
  <2>2. ASSUME NEW t \in input'.lost, v.run = w.run
        PROVE  ~(v.heard[1] < t /\ t < w.heard[1])
    <3>1. CASE t \in input.lost
      BY <2>1, <2>2, <3>1 DEF OneRecording
    <3>2. CASE t > input.taken
      <4>1. t \in Int
        BY <1>3
      <4> QED
        BY <1>2, <2>1, <3>2, <4>1
    <3> QED
      BY <1>3, <3>1, <3>2
  <2> QED
    BY <2>1, <2>2 DEF OneRecording
<1> QED
  BY <1>4, <1>5, <1>6 DEF Framed

\* A packet of the same run moves the run on by one moment, and none is lost; one of a
\* new run has no windows yet.
LEMMA AcceptFramed ==
  ASSUME TypeOK, Framing, Framed, NEW p \in Packet, Accept(p), producer.pc = "pull",
         producer.run # 0 => Follows(producer.last, p), p.at \notin input.lost,
         input'.lost = input.lost, input'.taken \in {input.taken, input.taken + 1},
         queue' = queue, consumer' = consumer
  PROVE  Framed'
<1>1. Windows' = Windows
  BY DEF Windows, NoWindow
<1>2. /\ input.taken \in Nat /\ producer.run \in Nat /\ input.lost \subseteq Nat
      /\ producer.last.at \in Nat /\ producer.last.start \in Nat
      /\ p.at \in Nat /\ p.start \in Nat
  BY Numbers DEF Packet
<1>3. Len(producer.buffer) < WindowSize
  BY DEF Framing
<1>4. \/ producer'.run = producer.run /\ producer'.last = producer.last
      \/ /\ producer'.run = producer.run /\ producer'.last = p
         /\ p.start = producer.last.start + 1 /\ p.at = producer.last.at + 1
      \/ producer'.run = producer.run + 1
  BY <1>3, AcceptEffect DEF Follows
<1>5. ASSUME NEW w \in Windows
      PROVE  Whole(w)' /\ Recent(w)' /\ w.heard[1] <= input'.taken
  <2>1. Whole(w) /\ Recent(w) /\ w.heard[1] <= input.taken
    BY DEF Framed
  <2>2. w.heard[1] \in Nat /\ w.run \in Nat /\ w.run <= producer.run
    BY WindowNumbers
  <2>3. w.run <= producer'.run
    BY <1>2, <1>4, <2>2
  <2>4. Whole(w)'
    BY <2>1, <2>3 DEF Whole
  <2>5. w.heard[1] <= input'.taken
    BY <1>2, <2>1, <2>2
  <2>6. Recent(w)'
    <3>1. CASE producer'.run = producer.run /\ producer'.last = producer.last
      BY <2>1, <3>1 DEF Recent
    <3>2. CASE /\ producer'.run = producer.run /\ producer'.last = p
               /\ p.start = producer.last.start + 1 /\ p.at = producer.last.at + 1
      <4> SUFFICES ASSUME w.run = producer.run
                   PROVE  Recent(w)'
        BY <3>2 DEF Recent
      <4>1. /\ w.heard[1] - w.start = producer.last.at - producer.last.start
            /\ w.heard[1] <= producer.last.at /\ w.start \in Nat
        BY <2>1, WindowNumbers DEF Recent
      <4>2. w.heard[1] - w.start = p.at - p.start /\ w.heard[1] <= p.at
        BY <1>2, <2>2, <3>2, <4>1
      <4>3. ASSUME NEW t \in input.lost
            PROVE  ~(w.heard[1] <= t /\ t <= p.at)
        <5>1. ~(w.heard[1] <= t /\ t <= producer.last.at) /\ t # p.at /\ t \in Nat
          BY <1>2, <2>1 DEF Recent
        <5> QED
          BY <1>2, <2>2, <3>2, <5>1
      <4> QED
        BY <3>2, <4>2, <4>3 DEF Recent
    <3>3. CASE producer'.run = producer.run + 1
      <4>1. w.run # producer'.run
        BY <1>2, <2>2, <3>3
      <4> QED
        BY <4>1 DEF Recent
    <3> QED
      BY <1>4, <3>1, <3>2, <3>3
  <2> QED
    BY <2>4, <2>5, <2>6
<1>6. \A v, w \in Windows : OneRecording(v, w)'
  BY DEF Framed, OneRecording
<1> QED
  BY <1>1, <1>5, <1>6 DEF Framed

\* The window of a full buffer is whole and the latest of its run.
LEMMA QueuedFramed ==
  ASSUME TypeOK, Stream, Framing, Framed, Queued, Room, producer.pc \in Filling,
         input'.lost = input.lost, input'.taken = input.taken, consumer' = consumer
  PROVE  Framed'
<1> DEFINE first == producer.buffer[1]
<1>1. Len(producer.buffer) = WindowSize /\ producer.run # 0
  BY DEF Framing
<1>2. /\ producer'.run = producer.run /\ producer'.last = producer.last
      /\ queue' = Append(queue, Window) /\ Window \in AWindow /\ queue \in Seq(AWindow)
  BY <1>1, QueuedEffect DEF TypeOK
<1>2a. PICK new : new = Window
  OBVIOUS
<1>3. Windows' \subseteq Windows \cup {new}
  <2>1. /\ Len(queue) \in Nat /\ Len(queue') = Len(queue) + 1
        /\ \A i \in 1..Len(queue) : queue'[i] = queue[i]
        /\ queue'[Len(queue) + 1] = Window
    BY <1>2, AppendFacts
  <2>2. ASSUME NEW i \in 1..Len(queue')
        PROVE  queue'[i] = Window \/ \E j \in 1..Len(queue) : queue'[i] = queue[j]
    <3>1. CASE i \in 1..Len(queue)
      BY <2>1, <3>1
    <3>2. CASE i = Len(queue) + 1
      BY <2>1, <3>2
    <3> QED
      BY <2>1, <3>1, <3>2
  <2> QED
    BY <1>2a, <2>2 DEF Windows, NoWindow
<1>4. /\ new.run = producer.run /\ new.start = producer.start /\ new.heard = producer.buffer
  BY <1>2a DEF Window
<1>5. /\ producer.last.at \in Nat /\ producer.last.start \in Nat /\ producer.start \in Nat
      /\ WindowSize \in Nat \ {0} /\ input.lost \subseteq Nat /\ input.taken \in Nat
      /\ producer.run \in Nat
  BY Numbers
<1>6. \A i \in 1..WindowSize : producer.buffer[i] = producer.last.at - WindowSize + i
  BY <1>1 DEF Framing
<1>7. first = producer.last.at - WindowSize + 1
  <2>1. 1 \in 1..WindowSize
    BY <1>5
  <2> QED
    BY <1>6, <2>1
<1>8. producer.last.start + 1 = producer.start + WindowSize
  BY <1>1 DEF Framing
<1>9. \A t \in input.lost : ~(first <= t /\ t <= producer.last.at)
  <2>1. ASSUME NEW t \in input.lost
        PROVE  ~(producer.last.at - WindowSize < t /\ t <= producer.last.at) /\ t \in Nat
    BY <1>1, <1>5 DEF Framing
  <2> QED
    BY <1>5, <1>7, <2>1
<1>10. first \in Int /\ first <= producer.last.at /\ first <= input.taken
  <2>1. producer.last.at <= input.taken
    BY <1>1 DEF Stream
  <2> QED
    BY <1>5, <1>7, <2>1
<1>11. first - producer.start = producer.last.at - producer.last.start
  BY <1>5, <1>7, <1>8
<1>12. \A i \in 1..WindowSize : producer.buffer[i] = first + i - 1
  BY <1>5, <1>6, <1>7
<1> HIDE DEF first
<1>13. new.heard[1] = first
  BY <1>4 DEF first
<1>14. Whole(new)' /\ Recent(new)' /\ new.heard[1] <= input'.taken
  <2>1. Whole(new)
    BY <1>1, <1>4, <1>5, <1>12, <1>13 DEF Whole
  <2>2. Recent(new)
    BY <1>4, <1>9, <1>10, <1>11, <1>13 DEF Recent
  <2> QED
    BY <1>2, <1>10, <1>13, <2>1, <2>2 DEF Whole, Recent
<1>15. ASSUME NEW w \in Windows
       PROVE  /\ Whole(w)' /\ Recent(w)' /\ w.heard[1] <= input'.taken
              /\ OneRecording(w, new)' /\ OneRecording(new, w)'
  <2>1. Whole(w) /\ Recent(w) /\ w.heard[1] <= input.taken /\ w.heard[1] \in Nat
    BY WindowNumbers DEF Framed
  <2>2. Whole(w)' /\ Recent(w)' /\ w.heard[1] <= input'.taken
    BY <1>2, <2>1 DEF Whole, Recent
  <2>3. ASSUME w.run = producer.run
        PROVE  /\ w.heard[1] - w.start = producer.last.at - producer.last.start
               /\ \A t \in input.lost : ~(w.heard[1] <= t /\ t <= producer.last.at)
               /\ w.heard[1] <= producer.last.at
    BY <2>1, <2>3 DEF Recent
  <2>4. ASSUME w.run = producer.run, NEW t \in input.lost
        PROVE  ~(w.heard[1] < t /\ t < first) /\ ~(first < t /\ t < w.heard[1])
    <3>1. /\ ~(w.heard[1] <= t /\ t <= producer.last.at) /\ w.heard[1] <= producer.last.at
          /\ ~(first <= t /\ t <= producer.last.at) /\ t \in Nat
      BY <1>5, <1>9, <2>3, <2>4
    <3> QED
      BY <1>5, <1>10, <2>1, <3>1
  <2>5. OneRecording(w, new)'
    BY <1>4, <1>11, <1>13, <2>3, <2>4 DEF OneRecording
  <2>6. OneRecording(new, w)'
    BY <1>4, <1>11, <1>13, <2>3, <2>4 DEF OneRecording
  <2> QED
    BY <2>2, <2>5, <2>6
<1>16. OneRecording(new, new)'
  <2>1. \A t \in input.lost : ~(first < t /\ t < first)
    BY <1>5, <1>10
  <2> QED
    BY <1>13, <2>1 DEF OneRecording
<1>17. \A v, w \in Windows : OneRecording(v, w)'
  BY DEF Framed, OneRecording
<1> QED
  BY <1>3, <1>14, <1>15, <1>16, <1>17 DEF Framed

\* Every step keeps what is known of the windows.
LEMMA FramedStep ==
  ASSUME TypeOK, Stream, Framing, Framed, [Next]_vars
  PROVE  Framed'
<1>1. CASE Callback
  BY <1>1, CallbackFramed
<1>2. CASE PullPacket
  BY <1>2, AcceptFramed, PullFollows DEF PullPacket
<1>3. CASE PullBlock
  <2>1. input'.lost = input.lost /\ input'.taken = input.taken + 1
    BY <1>3 DEF PullBlock, TypeOK, Inputs
  <2> QED
    BY <1>3, <2>1, AcceptFramed, PullFollows DEF PullBlock
<1>4. CASE CallbackFails \/ Stop \/ StopCloses \/ UNCHANGED vars
  <2>1. queue' = queue /\ consumer' = consumer
    BY <1>4 DEF CallbackFails, Stop, StopCloses, vars
  <2>2. Windows' \subseteq Windows
    BY <2>1, WindowsShrink
  <2> QED
    BY <1>4, <2>2, InputKept, ProducerKept, FramedKept
<1>5. CASE SourceEnds \/ Put \/ Evict \/ Count \/ Offer \/ Finish \/ ProducerCloses
  <2>1. input'.lost = input.lost /\ input'.taken = input.taken
    BY <1>5, InputKept
  <2>2. CASE Queued
    <3>1. Room /\ producer.pc \in Filling /\ consumer' = consumer
      BY <1>5, <2>2 DEF SourceEnds, Put, Evict, Count, Offer, Finish, ProducerCloses, Filling,
         Queued
    <3> QED
      BY <2>1, <2>2, <3>1, QueuedFramed
  <2>3. CASE ~Queued
    <3>1. Windows' \subseteq Windows
      BY <1>5, <2>3, ProducerMoves, WindowsShrink
    <3> QED
      BY <1>5, <2>1, <2>3, <3>1, ProducerMoves, FramedKept
  <2> QED
    BY <2>2, <2>3
<1>6. CASE Consuming
  <2>1. Windows' \subseteq Windows
    <3>1. CASE Take
      <4>1. queue # <<>> /\ queue' = Tail(queue) /\ 1 \in 1..Len(queue) /\ Head(queue) = queue[1]
        BY <3>1, TailFacts DEF Take, TypeOK
      <4>2. consumer'.window = Head(queue) /\ consumer'.previous = consumer.previous
        BY <3>1 DEF Take, TypeOK, Consumers
      <4> QED
        BY <4>1, <4>2, WindowsShrink
    <3>2. CASE Drain
      <4>1. CASE queue = <<>>
        BY <3>2, <4>1, GoesEffect, WindowsShrink DEF Drain
      <4>2. CASE queue # <<>>
        <5>1. queue' = Tail(queue) /\ 1 \in 1..Len(queue) /\ Head(queue) = queue[1]
          BY <3>2, <4>2, TailFacts DEF Drain, TypeOK
        <5>2. consumer'.window = Head(queue) /\ consumer'.previous = consumer.previous
          BY <3>2, <4>2 DEF Drain, TypeOK, Consumers
        <5> QED
          BY <4>2, <5>1, <5>2, WindowsShrink
      <4> QED
        BY <4>1, <4>2
    <3>3. CASE Outdated \/ Refused \/ (TellGap /\ LeavesOut)
      BY <3>3, LeavesOutEffect, WindowsShrink DEF Outdated, Refused, TellGap
    <3>4. CASE Publish
      BY <3>4, PublishEffect, WindowsShrink DEF Publish
    <3>5. CASE Check
      BY <3>5, CheckEffect, WindowsShrink DEF Check
    <3>6. CASE Infer
      <4>1. consumer'.window = consumer.window /\ consumer'.previous = consumer.previous
        BY <3>6 DEF Infer, TypeOK, Consumers
      <4> QED
        BY <3>6, <4>1, WindowsShrink DEF Infer
    <3>7. CASE Empty \/ AfterEmpty \/ AfterTake \/ Fails \/ ConsumerCloses \/ Tell
               \/ (TellGap /\ Goes("infer"))
      <4>1. /\ queue' = queue
            /\ \/ Goes("wait") \/ Goes("empty") \/ Goes("drain") \/ Goes("infer") \/ Goes("end")
               \/ Goes("tell") \/ Goes("done")
        BY <3>7 DEF Empty, AfterEmpty, AfterTake, Fails, ConsumerCloses, Tell, TellGap
      <4>2. consumer'.window = consumer.window /\ consumer'.previous = consumer.previous
        BY <4>1, GoesEffect
      <4> QED
        BY <4>1, <4>2, WindowsShrink
    <3> QED
      BY <1>6, <3>1, <3>2, <3>3, <3>4, <3>5, <3>6, <3>7 DEF Consuming, TellGap
  <2> QED
    BY <1>6, <2>1, InputKept, ProducerKept, FramedKept
<1> QED
  BY <1>1, <1>2, <1>3, <1>4, <1>5, <1>6 DEF Next, Producing

-----------------------------------------------------------------------------
(* Room, and what the consumer finds out.                                  *)

\* What the consumer's steps, and those of stop(), do to the queue and the errors.
LEMMA ConsumerEffect ==
  ASSUME TypeOK, Consuming \/ Stop \/ StopCloses \/ UNCHANGED vars
  PROVE  /\ queue' = queue \/ (queue # <<>> /\ queue' = Tail(queue))
         /\ worker'.error \in {worker.error, "close", "processing"}
         /\ consumer'.pc # "done" => worker'.told = worker.told
<1>1. CASE Drain
  BY <1>1 DEF Drain, TypeOK, Workers
<1>2. CASE Fails
  BY <1>2 DEF Fails, TypeOK, Workers
<1>3. CASE ConsumerCloses
  BY <1>3, CloseTyped DEF ConsumerCloses
<1>4. CASE Tell
  <2>1. consumer'.pc = "done" /\ queue' = queue
    BY <1>4, GoesEffect DEF Tell
  <2>2. worker'.error = worker.error
    BY <1>4 DEF Tell, TypeOK, Workers
  <2> QED
    BY <2>1, <2>2
<1>5. CASE Stop
  BY <1>5 DEF Stop, TypeOK, Workers
<1>6. CASE StopCloses
  BY <1>6, CloseTyped DEF StopCloses
<1>7. CASE \/ Take \/ Empty \/ AfterEmpty \/ AfterTake \/ Outdated \/ Check \/ TellGap \/ Infer
           \/ Refused \/ Publish \/ UNCHANGED vars
  BY <1>7 DEF Take, Empty, AfterEmpty, AfterTake, Outdated, Check, TellGap, Infer, Refused,
     Publish, vars
<1> QED
  BY <1>1, <1>2, <1>3, <1>4, <1>5, <1>6, <1>7 DEF Consuming

\* Where the producer makes room it finds it, for only the consumer uses the queue too.
LEMMA RoomStep ==
  ASSUME TypeOK, Stream, Framing, RoomMade, [Next]_vars
  PROVE  RoomMade'
<1>1. queue \in Seq(AWindow) /\ Len(queue) \in Nat /\ QueueCapacity \in Nat \ {0}
  BY LenProperties, AudioAssumption DEF TypeOK
<1>2. ASSUME queue # <<>>
      PROVE  Len(Tail(queue)) = Len(queue) - 1
  BY <1>1, <1>2, TailFacts
<1>3. CASE Callback \/ CallbackFails
  BY <1>3 DEF Callback, CallbackFails, RoomMade
<1>4. CASE PullPacket \/ PullBlock
  <2>1. Len(producer.buffer) < WindowSize
    BY <1>4 DEF PullPacket, PullBlock, Framing
  <2>2. PICK p \in Packet : Accept(p) /\ producer.pc = "pull"
    BY <1>4, PullFollows DEF PullPacket, PullBlock
  <2>3. worker'.error = worker.error /\ producer'.pc \in {"finish", "put", "pull"}
    BY <2>1, <2>2, AcceptEffect
  <2> QED
    BY <2>3 DEF RoomMade
<1>5. CASE SourceEnds
  <2>1. worker'.error # "full" /\ producer'.pc = "finish"
    BY <1>5, MovesEffect DEF SourceEnds, RoomMade, TypeOK, Workers
  <2> QED
    BY <2>1 DEF RoomMade
<1>6. CASE Put
  <2>1. worker' = worker
    BY <1>6 DEF Put
  <2>2. producer'.pc \in {"finish", "pull", "evict"}
    BY <1>6, MovesEffect DEF Put, Queued, TypeOK, Producers
  <2> QED
    BY <2>1, <2>2 DEF RoomMade
<1>7. CASE Evict
  <2>1. worker' = worker
    BY <1>7 DEF Evict
  <2>2. Len(queue') < QueueCapacity
    <3>1. CASE queue = <<>>
      BY <1>1, <1>7, <3>1, EmptySeq DEF Evict
    <3>2. CASE queue # <<>>
      BY <1>1, <1>2, <1>7, <3>2 DEF Evict, TypeOK
    <3> QED
      BY <3>1, <3>2
  <2> QED
    BY <2>1, <2>2 DEF RoomMade
<1>8. CASE Count
  <2>1. worker'.error = worker.error /\ queue' = queue
    BY <1>8 DEF Count, TypeOK, Workers
  <2> QED
    BY <1>8, <2>1 DEF Count, RoomMade
<1>9. CASE Offer
  <2>1. Queued /\ Room /\ worker' = worker
    BY <1>9 DEF Offer, RoomMade, Room
  <2>2. producer'.pc = "pull"
    BY <2>1 DEF Queued, TypeOK, Producers
  <2> QED
    BY <2>1, <2>2 DEF RoomMade
<1>10. CASE Finish \/ ProducerCloses
  <2>1. worker'.error \in {worker.error, "close"}
    BY <1>10, CloseTyped DEF Finish, ProducerCloses, TypeOK, Workers
  <2>2. producer'.pc \in {"close", "done"}
    BY <1>10, MovesEffect DEF Finish, ProducerCloses
  <2> QED
    BY <2>1, <2>2 DEF RoomMade
<1>11. CASE Consuming \/ Stop \/ StopCloses \/ UNCHANGED vars
  <2>1. producer' = producer
    BY <1>11, ProducerKept
  <2>2. worker'.error \in {worker.error, "close", "processing"}
    BY <1>11, ConsumerEffect
  <2>3. Len(queue) < QueueCapacity => Len(queue') < QueueCapacity
    <3>1. queue' = queue \/ (queue # <<>> /\ queue' = Tail(queue))
      BY <1>11, ConsumerEffect
    <3> QED
      BY <1>1, <1>2, <3>1
  <2> QED
    BY <2>1, <2>2, <2>3 DEF RoomMade
<1> QED
  BY <1>3, <1>4, <1>5, <1>6, <1>7, <1>8, <1>9, <1>10, <1>11 DEF Next, Producing

\* What the driver's and the producer's steps leave alone.
LEMMA ConsumerKept ==
  ASSUME TypeOK, Stream, Framing, Callback \/ CallbackFails \/ Producing
  PROVE  consumer' = consumer /\ worker'.told = worker.told
<1>1. CASE PullPacket \/ PullBlock
  <2>1. Len(producer.buffer) < WindowSize
    BY <1>1 DEF PullPacket, PullBlock, Framing
  <2>2. PICK p \in Packet : Accept(p) /\ producer.pc = "pull"
    BY <1>1, PullFollows DEF PullPacket, PullBlock
  <2> QED
    BY <1>1, <2>1, <2>2, AcceptEffect DEF PullPacket, PullBlock
<1>2. CASE ~PullPacket /\ ~PullBlock
  BY <1>2, CloseTyped DEF Callback, CallbackFails, Producing, SourceEnds, Put, Evict, Count, Offer,
     Finish, ProducerCloses, TypeOK, Workers
<1> QED
  BY <1>1, <1>2

\* Every window queued is one.
LEMMA QueueStep ==
  ASSUME TypeOK, Stream, Framing, Judged, [Next]_vars
  PROVE  \A i \in 1..Len(queue') : queue'[i] # NoWindow
<1>1. queue \in Seq(AWindow) /\ \A i \in 1..Len(queue) : queue[i] # NoWindow
  BY DEF TypeOK, Judged
<1>2. CASE queue' = queue
  BY <1>1, <1>2
<1>3. CASE queue # <<>> /\ queue' = Tail(queue)
  <2>1. /\ Len(queue) \in Nat \ {0} /\ Len(queue') = Len(queue) - 1
        /\ \A i \in 1..Len(queue) - 1 : queue'[i] = queue[i + 1]
    BY <1>1, <1>3, TailFacts
  <2>2. ASSUME NEW i \in 1..Len(queue')
        PROVE  queue'[i] = queue[i + 1] /\ i + 1 \in 1..Len(queue)
    BY <2>1
  <2> QED
    BY <1>1, <2>2
<1>4. CASE Queued /\ Room /\ producer.pc \in Filling
  <2>1. Len(producer.buffer) = WindowSize /\ producer.run # 0
    BY <1>4 DEF Framing
  <2>2. queue' = Append(queue, Window) /\ Window \in AWindow /\ Window # NoWindow
    BY <1>4, <2>1, QueuedEffect DEF Window, NoWindow
  <2>3. /\ Len(queue) \in Nat /\ Len(queue') = Len(queue) + 1
        /\ \A i \in 1..Len(queue) : queue'[i] = queue[i]
        /\ queue'[Len(queue) + 1] = Window
    BY <1>1, <2>2, AppendFacts
  <2>4. ASSUME NEW i \in 1..Len(queue')
        PROVE  queue'[i] # NoWindow
    <3>1. CASE i \in 1..Len(queue)
      BY <1>1, <2>3, <3>1
    <3>2. CASE i = Len(queue) + 1
      BY <2>2, <2>3, <3>2
    <3> QED
      BY <2>3, <3>1, <3>2
  <2> QED
    BY <2>4
<1>5. \/ queue' = queue
      \/ queue # <<>> /\ queue' = Tail(queue)
      \/ Queued /\ Room /\ producer.pc \in Filling
  <2>1. CASE Consuming \/ Stop \/ StopCloses \/ UNCHANGED vars
    BY <2>1, ConsumerEffect
  <2>2. CASE Callback \/ CallbackFails \/ Producing
    BY <2>2 DEF Callback, CallbackFails, Producing, PullPacket, PullBlock, SourceEnds, Put, Evict,
       Count, Offer, Finish, ProducerCloses, Filling
  <2> QED
    BY <2>1, <2>2 DEF Next
<1> QED
  BY <1>2, <1>3, <1>4, <1>5

Judging == {"ask", "infer", "inferring"}
Holding == {"taken", "drain", "check"} \cup Judging

\* What the consumer knows of its window is kept where the window is, found out by
\* looking at it, and forgotten with it.
LEMMA JudgedStep ==
  ASSUME TypeOK, Stream, Framing, Judged, [Next]_vars
  PROVE  Judged'
<1>1. \A i \in 1..Len(queue') : queue'[i] # NoWindow
  BY QueueStep
<1> DEFINE Known == /\ consumer.pc \in Holding => consumer.window # NoWindow
                    /\ consumer.pc \in Judging /\ consumer.previous # NoWindow =>
                         /\ ~consumer.physical => consumer.window.run = consumer.previous.run
                         /\ ~consumer.physical /\ ~consumer.gap =>
                              consumer.window.start = consumer.previous.start + Hop
<1>2. Known
  BY DEF Judged, Judging, Holding
<1>3. SUFFICES Known' /\ (consumer'.pc # "done" => worker'.told = 0)
  BY <1>1 DEF Judged, Judging, Holding, NoWindow
<1>4. CASE Callback \/ CallbackFails \/ Producing
  BY <1>2, <1>4, ConsumerKept DEF Judged, NoWindow
<1>5. CASE Stop \/ StopCloses \/ UNCHANGED vars
  <2>1. consumer' = consumer
    BY <1>5 DEF Stop, StopCloses, vars
  <2> QED
    BY <1>2, <1>5, <2>1, ConsumerEffect DEF Judged, NoWindow
<1>6. CASE Consuming
  <2>1. consumer'.pc # "done" => worker'.told = 0
    <3>1. consumer.pc # "done"
      BY <1>6 DEF Consuming, Take, Empty, AfterEmpty, AfterTake, Drain, Outdated, Check, TellGap,
         Infer, Refused, Fails, Publish, ConsumerCloses, Tell
    <3> QED
      BY <1>6, <3>1, ConsumerEffect DEF Judged
  <2>2. CASE Take
    <3>1. Head(queue) = queue[1] /\ 1 \in 1..Len(queue)
      BY <2>2, TailFacts DEF Take, TypeOK
    <3>2. consumer'.window # NoWindow /\ consumer'.pc = "taken"
      BY <2>2, <3>1 DEF Take, TypeOK, Consumers, Judged
    <3> QED
      BY <2>1, <3>2 DEF Holding, Judging, NoWindow
  <2>3. CASE Drain
    <3>1. CASE queue = <<>>
      <4>1. consumer'.pc = "check" /\ consumer'.window = consumer.window
        BY <2>3, <3>1, GoesEffect DEF Drain
      <4>2. consumer.window # NoWindow
        BY <1>2, <2>3 DEF Drain, Holding
      <4> QED
        BY <2>1, <4>1, <4>2 DEF Holding, Judging, NoWindow
    <3>2. CASE queue # <<>>
      <4>1. Head(queue) = queue[1] /\ 1 \in 1..Len(queue)
        BY <3>2, TailFacts DEF TypeOK
      <4>2. consumer'.window = Head(queue) /\ consumer'.pc = "drain"
        BY <2>3, <3>2 DEF Drain, TypeOK, Consumers
      <4>3. Head(queue) # NoWindow
        BY <4>1 DEF Judged
      <4> QED
        BY <2>1, <4>2, <4>3 DEF Holding, Judging, NoWindow
    <3> QED
      BY <3>1, <3>2
  <2>4. CASE Outdated \/ Refused \/ Publish \/ (TellGap /\ LeavesOut)
    <3>1. consumer'.pc = "wait"
      BY <2>4, LeavesOutEffect, PublishEffect DEF Outdated, Refused, TellGap
    <3> QED
      BY <2>1, <3>1 DEF Holding, Judging
  <2>5. CASE Check
    <3>1. /\ consumer'.window = consumer.window /\ consumer'.previous = consumer.previous
          /\ consumer'.physical = Physical(consumer.window)
          /\ consumer'.gap = Skipped(consumer.window)
      BY <2>5, CheckEffect
    <3>2. consumer.window # NoWindow
      BY <1>2, <2>5 DEF Check, Holding
    <3>3. ASSUME consumer.previous # NoWindow, ~Physical(consumer.window)
          PROVE  consumer.window.run = consumer.previous.run
      BY <3>3 DEF Physical
    <3>4. ASSUME consumer.previous # NoWindow, ~Physical(consumer.window),
                 ~Skipped(consumer.window)
          PROVE  consumer.window.start = consumer.previous.start + Hop
      BY <3>3, <3>4 DEF Skipped
    <3> QED
      BY <2>1, <3>1, <3>2, <3>3, <3>4 DEF NoWindow
  <2>6. CASE Infer
    <3>1. /\ consumer'.window = consumer.window /\ consumer'.previous = consumer.previous
          /\ consumer'.physical = consumer.physical /\ consumer'.gap = consumer.gap
          /\ consumer'.pc = "inferring" /\ consumer.pc = "infer"
      BY <2>6 DEF Infer, TypeOK, Consumers
    <3> QED
      BY <1>2, <2>1, <3>1 DEF Holding, Judging, NoWindow
  <2>7. CASE \/ Empty \/ AfterEmpty \/ AfterTake \/ Fails \/ ConsumerCloses \/ Tell
             \/ (TellGap /\ Goes("infer"))
    <3>1. PICK pc \in {"wait", "empty", "drain", "infer", "end", "tell", "done"} :
            /\ Goes(pc)
            /\ pc = "drain" => consumer.pc = "taken"
            /\ pc = "infer" => consumer.pc = "ask"
      BY <2>7 DEF Empty, AfterEmpty, AfterTake, Fails, ConsumerCloses, Tell, TellGap
    <3>2. /\ consumer'.window = consumer.window /\ consumer'.previous = consumer.previous
          /\ consumer'.physical = consumer.physical /\ consumer'.gap = consumer.gap
          /\ consumer'.pc = pc
      BY <3>1, GoesEffect
    <3>3. /\ consumer'.pc \in Holding => consumer.pc \in Holding
          /\ consumer'.pc \in Judging => consumer.pc \in Judging
      BY <3>1, <3>2 DEF Holding, Judging
    <3> QED
      BY <1>2, <2>1, <3>2, <3>3 DEF NoWindow
  <2> QED
    BY <1>6, <2>2, <2>3, <2>4, <2>5, <2>6, <2>7 DEF Consuming, TellGap
<1> QED
  BY <1>4, <1>5, <1>6 DEF Next

-----------------------------------------------------------------------------
(* The invariant and what follows from it.                                 *)

LEMMA InitIInv == Init => IInv
<1> SUFFICES ASSUME Init PROVE IInv
  OBVIOUS
<1>1. TypeOK
  BY InitTyped
<1>2. Len(<<>>) = 0
  BY EmptySeq
<1>3. /\ ring = <<>> /\ queue = <<>> /\ input.lost = {} /\ input.taken = 0
      /\ producer.pc = "pull" /\ producer.run = 0 /\ producer.buffer = <<>>
      /\ consumer.pc = "wait" /\ consumer.window = NoWindow /\ consumer.previous = NoWindow
      /\ worker.error = "none" /\ worker.told = 0
  BY DEF Init
<1>4. Stream
  BY <1>2, <1>3 DEF Stream
<1>5. Framing
  BY <1>2, <1>3, Numbers, <1>1 DEF Framing, Filling
<1>6. Framed
  <2>1. Windows = {}
    BY <1>2, <1>3 DEF Windows
  <2> QED
    BY <2>1 DEF Framed
<1>7. RoomMade /\ Judged
  BY <1>2, <1>3 DEF RoomMade, Judged
<1> QED
  BY <1>1, <1>4, <1>5, <1>6, <1>7 DEF IInv

LEMMA IInvStep == IInv /\ [Next]_vars => IInv'
<1> SUFFICES ASSUME IInv, [Next]_vars PROVE IInv'
  OBVIOUS
<1>1. TypeOK /\ Stream /\ Framing /\ Framed /\ RoomMade /\ Judged
  BY DEF IInv
<1>2. TypeOK'
  BY <1>1, ProducerTyped, ConsumerTyped DEF Next
<1> QED
  BY <1>1, <1>2, StreamStep, FramingStep, FramedStep, RoomStep, JudgedStep DEF IInv

LEMMA IInvAlways == Spec => []IInv
<1> QED
  BY InitIInv, IInvStep, PTL DEF Spec

\* Every variable has its type, the ring, the queue and the buffer keep their bounds,
\* and the session is told of an end once at most.
THEOREM WorkerTyped == Spec => []TypeOK
<1>1. IInv => TypeOK
  BY DEF IInv
<1> QED
  BY <1>1, IInvAlways, PTL

\* No window in the queue or in analysis runs across audio that was lost, however the
\* losses, the producer and the consumer meet (windows_from_chunks, _callback).
THEOREM NoWindowIsBroken == Spec => []WindowsAreWhole
<1>1. IInv => WindowsAreWhole
  <2> SUFFICES ASSUME IInv PROVE WindowsAreWhole
    OBVIOUS
  <2>1. TypeOK /\ Framed /\ queue \in Seq(AWindow)
    BY DEF IInv, TypeOK
  <2>2. ASSUME NEW w \in ({queue[i] : i \in DOMAIN queue} \cup {consumer.window}) \ {NoWindow}
        PROVE  /\ Len(w.heard) = WindowSize
               /\ \A i \in 2..WindowSize : w.heard[i] = w.heard[i - 1] + 1
    <3>1. w \in Windows
      BY <2>1, LenProperties DEF Windows
    <3>2. w.heard[1] \in Nat /\ WindowSize \in Nat
      BY <2>1, <3>1, WindowNumbers, Numbers
    <3>3. /\ Len(w.heard) = WindowSize
          /\ \A i \in 1..WindowSize : w.heard[i] = w.heard[1] + i - 1
      BY <2>1, <3>1 DEF Framed, Whole
    <3>4. ASSUME NEW i \in 2..WindowSize
          PROVE  w.heard[i] = w.heard[i - 1] + 1
      <4>1. i \in 1..WindowSize /\ i - 1 \in 1..WindowSize
        BY <3>2
      <4>2. w.heard[i] = w.heard[1] + i - 1 /\ w.heard[i - 1] = w.heard[1] + (i - 1) - 1
        BY <3>3, <4>1
      <4> QED
        BY <3>2, <4>2
    <3> QED
      BY <3>3, <3>4
  <2> QED
    BY <2>2 DEF WindowsAreWhole
<1> QED
  BY <1>1, IInvAlways, PTL

\* A full queue never ends acquisition: the producer is the only one that adds to it, so
\* the room it made is still there (_put_drop_oldest).
THEOREM RoomIsKept == Spec => []AcquisitionGoesOn
<1>1. IInv => AcquisitionGoesOn
  BY DEF IInv, RoomMade, AcquisitionGoesOn
<1> QED
  BY <1>1, IInvAlways, PTL

\* When the second of two windows published in a row carries no dropout, they are of one
\* run, hence of one recording, and nothing was lost between their beginnings (_analyze).
THEOREM DropoutsAreMarked == Spec => LossIsMarked
<1> DEFINE A == Publishing /\ consumer.previous # NoWindow =>
             consumer.physical \/
               \A t \in input.lost : ~(consumer.previous.heard[1] < t /\ t < consumer.window.heard[1])
<1>1. IInv => A
  <2> SUFFICES ASSUME IInv, Publishing, consumer.previous # NoWindow, ~consumer.physical
               PROVE  \A t \in input.lost :
                        ~(consumer.previous.heard[1] < t /\ t < consumer.window.heard[1])
    BY DEF A
  <2>1. consumer.window.run = consumer.previous.run /\ consumer.window # NoWindow
    BY DEF IInv, Judged, Publishing
  <2>2. consumer.window \in Windows /\ consumer.previous \in Windows
    BY <2>1 DEF Windows
  <2>3. OneRecording(consumer.previous, consumer.window)
    BY <2>2 DEF IInv, Framed
  <2> QED
    BY <2>1, <2>3 DEF OneRecording
<1>2. IInv /\ [Next]_vars => [A]_vars
  BY <1>1
<1> QED
  BY <1>2, IInvAlways, PTL DEF Spec, LossIsMarked, A

\* When it does not tell of a gap either, the second begins one hop after the first.
THEOREM GapsAreTold == Spec => SkipsAreTold
<1> DEFINE A == Publishing /\ consumer.previous # NoWindow /\ ~consumer.physical /\ ~consumer.gap =>
             consumer.window.heard[1] = consumer.previous.heard[1] + Hop
<1>1. IInv => A
  <2> SUFFICES ASSUME IInv, Publishing, consumer.previous # NoWindow, ~consumer.physical,
                      ~consumer.gap
               PROVE  consumer.window.heard[1] = consumer.previous.heard[1] + Hop
    BY DEF A
  <2>1. /\ consumer.window.run = consumer.previous.run /\ consumer.window # NoWindow
        /\ consumer.window.start = consumer.previous.start + Hop
    BY DEF IInv, Judged, Publishing
  <2>2. consumer.window \in Windows /\ consumer.previous \in Windows
    BY <2>1 DEF Windows
  <2>3. TypeOK /\ Framed
    BY DEF IInv
  <2>4. OneRecording(consumer.previous, consumer.window)
    BY <2>2, <2>3 DEF Framed
  <2>5. /\ consumer.window.heard[1] \in Nat /\ consumer.previous.heard[1] \in Nat
        /\ consumer.window.start \in Nat /\ consumer.previous.start \in Nat /\ Hop \in Nat
    BY <2>2, <2>3, WindowNumbers, Numbers
  <2>6. consumer.previous.heard[1] - consumer.previous.start
          = consumer.window.heard[1] - consumer.window.start
    BY <2>1, <2>4 DEF OneRecording
  <2> QED
    BY <2>1, <2>5, <2>6
<1>2. IInv /\ [Next]_vars => [A]_vars
  BY <1>1
<1> QED
  BY <1>2, IInvAlways, PTL DEF Spec, SkipsAreTold, A

\* Both together: no loss and no skip between two published windows goes untold.
THEOREM LossesAreTold == Spec => LossIsTold
BY DropoutsAreMarked, GapsAreTold, PTL DEF LossIsTold

=============================================================================
