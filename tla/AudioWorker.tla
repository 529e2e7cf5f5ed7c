---------------------------- MODULE AudioWorker ----------------------------
(***************************************************************************)
(* One audio worker (core/runtime/worker.py) with its input                *)
(* (core/audio/native.py, inputs.py) and the framing of windows            *)
(* (core/audio/pipeline.py).                                               *)
(*                                                                         *)
(* Threads that interleave here: the driver's callback, which puts packets *)
(* in a bounded ring; the producer, which cuts contiguous runs of packets  *)
(* into overlapping windows and puts them in a bounded queue, dropping the *)
(* oldest; the consumer, which takes the newest, tells the session of what *)
(* it leaves out, and infers; and the thread that stops the worker.        *)
(*                                                                         *)
(* The unit of audio is one block of the driver.  A packet carries its     *)
(* sample position, which is what the code goes by, and the moment it was  *)
(* recorded, which the code cannot see and the properties speak of.        *)
(* Rate conversion and window contents are left out.                       *)
(***************************************************************************)
EXTENDS Integers, Sequences

CONSTANTS
  Kinds,          \* kinds of input: "live_microphone", "uploaded_file"
  LiveReference,  \* the session is one of the live controller
  MaxBlocks,      \* bound on the blocks recorded, the length of a file
  MaxFaults,      \* bound on the blocks lost or marked, one by one
  RingCapacity,   \* packets the driver's ring holds
  QueueCapacity,  \* windows the queue holds
  WindowSize,     \* blocks of a window
  Hop             \* blocks from one window to the next

ASSUME AudioAssumption ==
  /\ Kinds \subseteq {"live_microphone", "uploaded_file"}
  /\ LiveReference \in BOOLEAN
  /\ MaxBlocks \in Nat
  /\ MaxFaults \in Nat
  /\ RingCapacity \in Nat \ {0}
  /\ QueueCapacity \in Nat \ {0}
  /\ WindowSize \in Nat \ {0}
  /\ Hop \in 1..WindowSize

VARIABLES
  input,     \* NativeMicAudioInput or FileAudioInput
  ring,      \* packets from the callback to the producer
  worker,    \* what the threads of the worker share
  queue,     \* windows from the producer to the consumer
  producer,  \* the thread _acquire
  consumer,  \* the thread _analyze
  stopper    \* the thread in stop()

vars == <<input, ring, worker, queue, producer, consumer, stopper>>

NoWindow == [run |-> 0, start |-> 0, heard |-> <<>>]

Init ==
  /\ \E kind \in Kinds :
       input = [kind |-> kind, taken |-> 0, next |-> 0, faults |-> 0, stop |-> FALSE,
                open |-> kind = "live_microphone", error |-> FALSE, lost |-> {}]
  /\ ring = <<>>
  /\ worker = [stop |-> FALSE, finished |-> FALSE, error |-> "none",
               dropped |-> 0, splits |-> 0, told |-> 0]
  /\ queue = <<>>
  /\ producer = [pc |-> "pull", run |-> 0, last |-> [at |-> 0, start |-> 0], start |-> 0,
                 buffer |-> <<>>]
  /\ consumer = [pc |-> "wait", window |-> NoWindow, previous |-> NoWindow,
                 physical |-> FALSE, gap |-> FALSE,
                 dropped |-> 0, splits |-> 0, faults |-> 0, read |-> 0, epoch |-> <<0, 0>>]
  /\ stopper = "none"

Mic == input.kind = "live_microphone"
Epoch == <<worker.splits, input.faults>>

-----------------------------------------------------------------------------
(* The driver's thread: _callback.                                         *)

\* Mutated: a packet without room leaves the position where it was.
CountedIfQueued(start, full) == IF full THEN start ELSE start + 1

\* Positions count every packet, one the ring has no room for too.
Counted(start, full) == start + 1

\* Blocks may be lost before this one, which the driver's status or the clock
\* shows (a loss beyond the tolerance); either may also be wrong.  The position
\* then skips one.
Callback ==
  /\ Mic /\ ~input.stop
  /\ \E lost \in 0..1, gap \in BOOLEAN :
       LET at == input.taken + lost + 1
           start == IF gap THEN input.next + 1 ELSE input.next
           full == Len(ring) = RingCapacity
       IN  /\ lost > 0 => gap
           /\ at <= MaxBlocks
           /\ gap \/ full => input.faults < MaxFaults
           /\ ring' = IF full THEN ring ELSE Append(ring, [at |-> at, start |-> start])
           /\ input' = [input EXCEPT
                !.taken = at, !.next = Counted(start, full),
                !.faults = @ + (IF gap THEN 1 ELSE 0) + (IF full THEN 1 ELSE 0),
                !.lost = @ \cup (input.taken + 1)..(at - 1) \cup (IF full THEN {at} ELSE {})]
  /\ UNCHANGED <<worker, queue, producer, consumer, stopper>>

\* An invalid packet ends the capture.
CallbackFails ==
  /\ Mic /\ ~input.stop
  /\ input' = [input EXCEPT !.error = TRUE, !.stop = TRUE]
  /\ UNCHANGED <<ring, worker, queue, producer, consumer, stopper>>

-----------------------------------------------------------------------------
(* The producer: _acquire over chunks() and windows_from_chunks.           *)

\* _close_input: a native input is closed; what the driver raises is the worker's
\* error unless it has one.  (A file has nothing to close.)
CloseInput(w) ==
  /\ input' = [input EXCEPT !.stop = Mic, !.open = FALSE]
  /\ \E raised \in {FALSE, input.open} :
       worker' = [w EXCEPT !.error = IF raised /\ @ = "none" THEN "close" ELSE @]

\* A packet continues the run, or starts the next one.  A full window is put.
Accept(p) ==
  LET joined == producer.run # 0 /\ p.start = producer.last.start + 1
      buffer == IF joined THEN Append(producer.buffer, p.at) ELSE <<p.at>>
  IN  IF worker.stop
      THEN /\ producer' = [producer EXCEPT !.pc = "finish"]
           /\ UNCHANGED worker
      ELSE /\ producer' = [pc |-> IF Len(buffer) = WindowSize THEN "put" ELSE "pull",
                           run |-> IF joined THEN producer.run ELSE producer.run + 1,
                           last |-> p,
                           start |-> IF joined THEN producer.start ELSE p.start,
                           buffer |-> buffer]
           /\ worker' = IF joined \/ producer.run = 0 THEN worker
                        ELSE [worker EXCEPT !.splits = @ + 1]

\* A get that began before the input was closed still returns its packet.
PullPacket ==
  /\ producer.pc = "pull" /\ Mic
  /\ ring # <<>>
  /\ Accept(Head(ring))
  /\ ring' = Tail(ring)
  /\ UNCHANGED <<input, queue, consumer, stopper>>

PullBlock ==
  /\ producer.pc = "pull" /\ ~Mic
  /\ input.taken < MaxBlocks
  /\ Accept([at |-> input.taken + 1, start |-> input.taken])
  /\ input' = [input EXCEPT !.taken = @ + 1]
  /\ UNCHANGED <<ring, queue, consumer, stopper>>

\* The source ends: closed, failed, silent for too long, or read to its end.
SourceEnds ==
  /\ producer.pc = "pull"
  /\ producer' = [producer EXCEPT !.pc = "finish"]
  /\ \/ /\ ~Mic /\ input.taken = MaxBlocks
        /\ UNCHANGED worker
     \/ /\ Mic /\ input.stop
        /\ worker' = IF input.error THEN [worker EXCEPT !.error = "capture"] ELSE worker
     \/ /\ Mic /\ ring = <<>>
        /\ worker' = [worker EXCEPT !.error = "capture"]
  /\ UNCHANGED <<input, ring, queue, consumer, stopper>>

Window == [run |-> producer.run, start |-> producer.start, heard |-> producer.buffer]

\* Mutated: the queue has no bound.
AlwaysRoom == TRUE

Room == Len(queue) < QueueCapacity

\* The window is in the queue; its first Hop blocks are no longer needed.
Queued ==
  /\ queue' = Append(queue, Window)
  /\ producer' = [producer EXCEPT !.pc = "pull", !.start = @ + Hop,
                                  !.buffer = SubSeq(@, Hop + 1, WindowSize)]

\* put_nowait, or an end if the worker was stopped meanwhile.
Put ==
  /\ producer.pc = "put"
  /\ IF worker.stop
     THEN producer' = [producer EXCEPT !.pc = "finish"] /\ UNCHANGED queue
     ELSE IF Room THEN Queued
     ELSE producer' = [producer EXCEPT !.pc = "evict"] /\ UNCHANGED queue
  /\ UNCHANGED <<input, ring, worker, consumer, stopper>>

\* Mutated: the oldest window is counted and stays.
EvictNothing ==
  /\ producer.pc = "evict"
  /\ producer' = [producer EXCEPT !.pc = IF queue = <<>> THEN "offer" ELSE "count"]
  /\ UNCHANGED <<input, ring, worker, queue, consumer, stopper>>

\* The queue was full: the oldest window goes, if the consumer did not take it,
Evict ==
  /\ producer.pc = "evict"
  /\ IF queue = <<>>
     THEN producer' = [producer EXCEPT !.pc = "offer"] /\ UNCHANGED queue
     ELSE producer' = [producer EXCEPT !.pc = "count"] /\ queue' = Tail(queue)
  /\ UNCHANGED <<input, ring, worker, consumer, stopper>>

\* is counted,
Count ==
  /\ producer.pc = "count"
  /\ worker' = [worker EXCEPT !.dropped = @ + 1]
  /\ producer' = [producer EXCEPT !.pc = "offer"]
  /\ UNCHANGED <<input, ring, queue, consumer, stopper>>

\* and the new one is put in its place; a queue still full would end acquisition.
Offer ==
  /\ producer.pc = "offer"
  /\ IF Room THEN Queued /\ UNCHANGED worker
     ELSE /\ worker' = [worker EXCEPT !.error = "full"]
          /\ producer' = [producer EXCEPT !.pc = "finish"]
          /\ UNCHANGED queue
  /\ UNCHANGED <<input, ring, consumer, stopper>>

Finish ==
  /\ producer.pc = "finish"
  /\ worker' = [worker EXCEPT !.finished = TRUE]
  /\ producer' = [producer EXCEPT !.pc = "close"]
  /\ UNCHANGED <<input, ring, queue, consumer, stopper>>

ProducerCloses ==
  /\ producer.pc = "close"
  /\ CloseInput(worker)
  /\ producer' = [producer EXCEPT !.pc = "done"]
  /\ UNCHANGED <<ring, queue, consumer, stopper>>

Producing ==
  PullPacket \/ PullBlock \/ SourceEnds \/ Put \/ Evict \/ Count \/ Offer \/ Finish \/ ProducerCloses

-----------------------------------------------------------------------------
(* The consumer: _analyze with the session's callbacks.                    *)

Goes(pc) == consumer' = [consumer EXCEPT !.pc = pc]

\* The loop goes round; what it computed for this window is not used again.
Waits(c) ==
  consumer' = [c EXCEPT !.pc = "wait", !.window = NoWindow, !.physical = FALSE,
                        !.read = 0, !.epoch = <<0, 0>>]
LeavesOut == Waits([consumer EXCEPT !.gap = TRUE])

\* A get that began before the worker was stopped still returns its window.
Take ==
  /\ consumer.pc = "wait"
  /\ queue # <<>>
  /\ queue' = Tail(queue)
  /\ consumer' = [consumer EXCEPT !.pc = "taken", !.window = Head(queue)]
  /\ UNCHANGED <<input, ring, worker, producer, stopper>>

\* A wait for a window ends without one; then the producer may have finished.
Empty ==
  /\ consumer.pc = "wait"
  /\ IF worker.stop THEN Goes("end") ELSE queue = <<>> /\ Goes("empty")
  /\ UNCHANGED <<input, ring, worker, queue, producer, stopper>>

AfterEmpty ==
  /\ consumer.pc = "empty"
  /\ Goes(IF worker.finished THEN "end" ELSE "wait")
  /\ UNCHANGED <<input, ring, worker, queue, producer, stopper>>

AfterTake ==
  /\ consumer.pc = "taken"
  /\ Goes(IF worker.error # "none" THEN "end" ELSE "drain")
  /\ UNCHANGED <<input, ring, worker, queue, producer, stopper>>

\* Only the newest window is analysed; the others are left out.
Drain ==
  /\ consumer.pc = "drain"
  /\ IF queue = <<>>
     THEN Goes("check") /\ UNCHANGED <<worker, queue>>
     ELSE /\ queue' = Tail(queue)
          /\ worker' = [worker EXCEPT !.dropped = @ + 1]
          /\ consumer' = [consumer EXCEPT !.window = Head(queue), !.gap = TRUE]
  /\ UNCHANGED <<input, ring, producer, stopper>>

\* A window that waited too long is left out.
Outdated ==
  /\ consumer.pc = "check"
  /\ LeavesOut
  /\ UNCHANGED <<input, ring, worker, queue, producer, stopper>>

\* Mutated: runs are not compared.
PhysicalByCounters(w) == worker.splits # consumer.splits \/ input.faults # consumer.faults

\* Was audio lost since the last window analysed,
Physical(w) ==
  \/ worker.splits # consumer.splits
  \/ input.faults # consumer.faults
  \/ consumer.previous # NoWindow /\ w.run # consumer.previous.run

\* Mutated: positions are not compared.
SkippedByCounter(w) == consumer.gap \/ worker.dropped # consumer.dropped

\* or analysis left out?
Skipped(w) ==
  \/ consumer.gap
  \/ worker.dropped # consumer.dropped
  \/ /\ consumer.previous # NoWindow
     /\ w.run = consumer.previous.run
     /\ w.start # consumer.previous.start + Hop

Check ==
  /\ consumer.pc = "check"
  /\ LET gap == Skipped(consumer.window)
     IN  consumer' = [consumer EXCEPT
           !.pc = IF gap THEN "ask" ELSE "infer", !.physical = Physical(consumer.window),
           !.gap = gap, !.dropped = worker.dropped, !.read = input.faults]
  /\ UNCHANGED <<input, ring, worker, queue, producer, stopper>>

\* on_analysis_gap: the session forgets its persistence, or is not current.
TellGap ==
  /\ consumer.pc = "ask"
  /\ Goes("infer") \/ LeavesOut
  /\ UNCHANGED <<input, ring, worker, queue, producer, stopper>>

\* on_window: the live controller remembers the fault counters when it has the
\* model's lock,
Infer ==
  /\ consumer.pc = "infer"
  /\ consumer' = [consumer EXCEPT !.pc = "inferring",
                                  !.epoch = IF LiveReference THEN Epoch ELSE @]
  /\ UNCHANGED <<input, ring, worker, queue, producer, stopper>>

\* refused: the source is not current, the result too late, audio was lost,
Refused ==
  /\ consumer.pc \in {"infer", "inferring"}
  /\ LeavesOut
  /\ UNCHANGED <<input, ring, worker, queue, producer, stopper>>

\* failing,
Fails ==
  /\ consumer.pc = "inferring"
  /\ worker' = [worker EXCEPT !.error = "processing", !.stop = TRUE]
  /\ Goes("end")
  /\ UNCHANGED <<input, ring, queue, producer, stopper>>

\* or published, by the live controller only if nothing was lost meanwhile.
Publish ==
  /\ consumer.pc = "inferring"
  /\ LiveReference => consumer.epoch = Epoch
  /\ Waits([consumer EXCEPT !.previous = consumer.window, !.gap = FALSE,
                            !.splits = worker.splits, !.faults = consumer.read])
  /\ UNCHANGED <<input, ring, worker, queue, producer, stopper>>

ConsumerCloses ==
  /\ consumer.pc = "end"
  /\ CloseInput(worker)
  /\ Goes("tell")
  /\ UNCHANGED <<ring, queue, producer, stopper>>

\* Mutated: a worker that failed is taken for one that was stopped.
EndedRunning == ~worker.stop

\* on_end is called unless the worker was stopped without an error.
EndedByItself == ~worker.stop \/ worker.error # "none"

Tell ==
  /\ consumer.pc = "tell"
  /\ worker' = IF EndedByItself
               THEN [worker EXCEPT !.told = @ + 1] ELSE worker
  /\ Goes("done")
  /\ UNCHANGED <<input, ring, queue, producer, stopper>>

Consuming ==
  \/ Take \/ Empty \/ AfterEmpty \/ AfterTake \/ Drain \/ Outdated \/ Check \/ TellGap
  \/ Infer \/ Refused \/ Fails \/ Publish \/ ConsumerCloses \/ Tell

-----------------------------------------------------------------------------
(* stop(): once; it may give up waiting for the threads.                   *)

Stop ==
  /\ stopper = "none"
  /\ stopper' = "closing"
  /\ worker' = [worker EXCEPT !.stop = TRUE]
  /\ UNCHANGED <<input, ring, queue, producer, consumer>>

StopCloses ==
  /\ stopper = "closing"
  /\ stopper' = "joining"
  /\ CloseInput(worker)
  /\ UNCHANGED <<ring, queue, producer, consumer>>

Next == Callback \/ CallbackFails \/ Producing \/ Consuming \/ Stop \/ StopCloses

Spec == Init /\ [][Next]_vars

\* The threads of the process run, calls of the model and of the session return.
\* Nothing is owed by the driver, nor is anybody obliged to call stop.
FairSpec == Spec /\ WF_vars(Producing) /\ WF_vars(Consuming) /\ WF_vars(StopCloses)

-----------------------------------------------------------------------------
(* What must hold.                                                         *)

Moments == 1..MaxBlocks
Packet == [at : Moments, start : Nat]
AWindow == [run : Nat, start : Nat, heard : Seq(Moments)]
Inputs ==
  [kind : Kinds, taken : 0..MaxBlocks, next : Nat, faults : Nat, stop : BOOLEAN, open : BOOLEAN,
   error : BOOLEAN, lost : SUBSET Moments]
Workers ==
  [stop : BOOLEAN, finished : BOOLEAN, error : {"none", "capture", "full", "processing", "close"},
   dropped : Nat, splits : Nat, told : 0..1]
Producers ==
  [pc : {"pull", "put", "evict", "count", "offer", "finish", "close", "done"},
   run : Nat, last : [at : Nat, start : Nat], start : Nat, buffer : Seq(Moments)]
Consumers ==
  [pc : {"wait", "empty", "taken", "drain", "check", "ask", "infer", "inferring", "end", "tell",
         "done"},
   window : AWindow, previous : AWindow, physical : BOOLEAN, gap : BOOLEAN,
   dropped : Nat, splits : Nat, faults : Nat, read : Nat, epoch : Nat \X Nat]

\* Every variable has its type; ring, queue and buffer keep their bounds.
TypeOK ==
  /\ input \in Inputs
  /\ ring \in Seq(Packet) /\ Len(ring) <= RingCapacity
  /\ worker \in Workers
  /\ queue \in Seq(AWindow) /\ Len(queue) <= QueueCapacity
  /\ producer \in Producers /\ Len(producer.buffer) <= WindowSize
  /\ consumer \in Consumers
  /\ stopper \in {"none", "closing", "joining"}

\* A window that is queued or analysed was recorded without a break: audio the
\* driver lost or the ring had no room for lies in none ("never concatenate
\* across missing PCM").
WindowsAreWhole ==
  \A w \in ({queue[i] : i \in DOMAIN queue} \cup {consumer.window}) \ {NoWindow} :
    Len(w.heard) = WindowSize /\ \A i \in 2..WindowSize : w.heard[i] = w.heard[i - 1] + 1

\* A producer that makes room in a full queue finds it, whatever the consumer does.
AcquisitionGoesOn == worker.error # "full"

Publishing == consumer.pc = "inferring" /\ consumer'.pc = "wait" /\ ~consumer'.gap

\* When audio was lost between two windows published one after the other, the
\* second carries the dropout ("Actual capture faults continue to mark dropout").
LossIsMarked ==
  [][Publishing /\ consumer.previous # NoWindow =>
       consumer.physical \/
         \A t \in input.lost : ~(consumer.previous.heard[1] < t /\ t < consumer.window.heard[1])]_vars

\* A window published without a dropout is the next of the same recording, or
\* the session was told to forget its persistence first.
SkipsAreTold ==
  [][Publishing /\ consumer.previous # NoWindow /\ ~consumer.physical /\ ~consumer.gap =>
       consumer.window.heard[1] = consumer.previous.heard[1] + Hop]_vars

\* No loss and no skip between two published windows goes untold.
LossIsTold == LossIsMarked /\ SkipsAreTold

\* Whoever ends the worker, both threads leave; a worker that ended by itself tells
\* the session.
EndsForAll ==
  worker.finished \/ worker.stop ~>
    /\ producer.pc = "done" /\ consumer.pc = "done"
    /\ stopper = "none" => worker.told = 1

\* A window published undamaged has met no capture fault since it was looked at
\* ("physical gap ... suppress it", DELAYED_ANALYSIS_TIMING_FREEZE.md:15-17).
UndamagedIsCurrent ==
  [][Publishing /\ ~consumer.physical => consumer.read = input.faults]_vars

=============================================================================
