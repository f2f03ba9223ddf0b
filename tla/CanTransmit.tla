----------------------------- MODULE CanTransmit -----------------------------
(***************************************************************************)
(* The server's transmit path (core/can_interface.cpp, core/ring_buffer.h): *)
(* transmit() tries the socket and falls back on the ring; the write       *)
(* notifier's handler onSocketWriteReady drains the ring.                  *)
(*                                                                         *)
(* transmit() is called by two threads: the CAN thread (flow control and   *)
(* consecutive frames, from the frame handler and the poll timer) and the  *)
(* main thread (single and first frames: CanServer is not moved to the CAN *)
(* thread, so sendCanResponse and isotp_send run in the main event loop).  *)
(* The handler runs in the CAN thread.  Steps are cut at each access of    *)
(* the shared m_head, m_tail and slots.                                    *)
(*                                                                         *)
(* ringbuffer::push is not atomic, and both threads push.  What the path   *)
(* promises while no two pushes overlap is told apart from what happens    *)
(* once two have by the history variable clash; a slot written by both at  *)
(* once keeps the frame of either here, never a mixture of the two.        *)
(*                                                                         *)
(* A frame is named by the thread that sends it and its number.  The       *)
(* driver's queue and the bus are external: a write fails (ENOBUFS) when   *)
(* the queue is full, and the bus empties the queue.                       *)
(***************************************************************************)
EXTENDS Integers, Sequences, FiniteSets

CONSTANTS
  MainFrames,   \* bound: number of frames the main thread transmits
  CanFrames,    \* bound: number of frames the CAN thread transmits
  RingSize,     \* RING_BUF_SIZE, 4096
  QueueLen,     \* length of the driver's queue (txqueuelen)
  Batch         \* frames one call of the handler sends at most, 32

ASSUME TransmitAssumption ==
  /\ MainFrames \in Nat
  /\ CanFrames \in Nat
  /\ RingSize \in Nat \ {0, 1}
  /\ QueueLen \in Nat \ {0}
  /\ Batch \in Nat \ {0}

Threads == {"main", "can"}
NumFrames(t) == IF t = "main" THEN MainFrames ELSE CanFrames

Frames == UNION {{t} \X (1..NumFrames(t)) : t \in Threads}
None   == <<>>   \* the zeroed slots of a new ring

VARIABLES
  buffer, head, tail,  \* the ring
  notifier,            \* m_writeNotifier is enabled
  queue,               \* the driver's queue
  wire,                \* frames the bus has carried, in order
  issued,              \* number of frames each thread has transmitted so far
  dropped,             \* frames given up because the ring was full
  pc, frame, next,     \* control point, bufFrame and next of each thread
  batch,               \* loop counter of the handler
  clash                \* history: two threads have been in push at once

ring_vars == <<buffer, head, tail>>
vars == <<buffer, head, tail, notifier, queue, wire, issued, dropped, pc, frame,
          next, batch, clash>>

Slots == 0..(RingSize - 1)
IsEmpty == head = tail

(* transmit() pushes at "read", "check", "store", "publish"; the handler's *)
(* push of a frame it could not write passes through the same points with  *)
(* an h in front, because the two return to different places.              *)
TransmitPoints == {"write", "read", "check", "store", "publish", "notify"}
HandlerPoints  == {"pop", "advance", "hwrite", "hread", "hcheck", "hstore",
                   "hpublish", "empty", "disable"}

(* Between the first access of a push and its last.                        *)
PushPoints == {"check", "store", "publish", "hcheck", "hstore", "hpublish"}
-----------------------------------------------------------------------------
Init ==
  /\ buffer = [s \in Slots |-> None] /\ head = 0 /\ tail = 0
  /\ notifier = FALSE
  /\ queue = <<>> /\ wire = <<>>
  /\ issued = [t \in Threads |-> 0]
  /\ dropped = {}
  /\ pc = [t \in Threads |-> "idle"]
  /\ frame = [t \in Threads |-> None]
  /\ next = [t \in Threads |-> 0]
  /\ batch = 0
  /\ clash = FALSE

Goto(t, label) == pc' = [pc EXCEPT ![t] = label]

(* transmit() is entered with the next frame of the thread.                *)
Call(t) ==
  /\ pc[t] = "idle"
  /\ issued[t] < NumFrames(t)
  /\ issued' = [issued EXCEPT ![t] = @ + 1]
  /\ frame' = [frame EXCEPT ![t] = <<t, issued[t] + 1>>]
  /\ Goto(t, "write")
  /\ UNCHANGED <<ring_vars, notifier, queue, wire, dropped, next, batch, clash>>

CanWrite == Len(queue) < QueueLen

(* The direct ::write; when it fails the frame goes to the ring.           *)
Write(t) ==
  /\ pc[t] = "write"
  /\ \/ CanWrite /\ queue' = Append(queue, frame[t]) /\ Goto(t, "idle")
     \/ ~CanWrite /\ UNCHANGED queue /\ Goto(t, "read")
  /\ UNCHANGED <<ring_vars, notifier, wire, issued, dropped, frame, next,
                 batch, clash>>

(* Mutant: no wrap at the end of the ring.                                 *)
Following_NoWrap(s) == s + 1

(* ringbuffer::push, one access of a shared field at a time.               *)
Following(s) == (s + 1) % RingSize

PushRead(t, from, to) ==
  /\ pc[t] = from
  /\ next' = [next EXCEPT ![t] = Following(head)]
  /\ Goto(t, to)
  /\ clash' = (clash \/ \E u \in Threads \ {t} : pc[u] \in PushPoints)
  /\ UNCHANGED <<ring_vars, notifier, queue, wire, issued, dropped, frame,
                 batch>>

(* Mutant: one slot more is kept free.                                     *)
PushCheck_OneEarly(t, from, to, return) ==
  /\ pc[t] = from
  /\ \/ /\ tail \in {next[t], Following(next[t])}
        /\ dropped' = dropped \cup {frame[t]}
        /\ Goto(t, return)
     \/ /\ tail \notin {next[t], Following(next[t])}
        /\ UNCHANGED dropped
        /\ Goto(t, to)
  /\ UNCHANGED <<ring_vars, notifier, queue, wire, issued, frame, next, batch,
                 clash>>

(* A full ring: transmit() logs and returns, the handler ignores the       *)
(* result; either way the frame is gone.                                   *)
PushCheck(t, from, to, return) ==
  /\ pc[t] = from
  /\ \/ next[t] = tail /\ dropped' = dropped \cup {frame[t]} /\ Goto(t, return)
     \/ next[t] # tail /\ UNCHANGED dropped /\ Goto(t, to)
  /\ UNCHANGED <<ring_vars, notifier, queue, wire, issued, frame, next, batch,
                 clash>>

(* m_head is read again for the slot.                                      *)
PushStore(t, from, to) ==
  /\ pc[t] = from
  /\ buffer' = [buffer EXCEPT ![head] = frame[t]]
  /\ Goto(t, to)
  /\ UNCHANGED <<head, tail, notifier, queue, wire, issued, dropped, frame,
                 next,
                 batch, clash>>

PushPublish(t, from, return) ==
  /\ pc[t] = from
  /\ head' = next[t]
  /\ Goto(t, return)
  /\ UNCHANGED <<buffer, tail, notifier, queue, wire, issued, dropped, frame,
                 next, batch, clash>>

(* Mutant: the frame is pushed and nobody is told.                         *)
Notify_Never(t) ==
  /\ pc[t] = "notify"
  /\ Goto(t, "idle")
  /\ UNCHANGED <<ring_vars, notifier, queue, wire, issued, dropped, frame, next,
                 batch, clash>>

(* Only the thread that owns the interface enables the write notifier.     *)
Notify(t) ==
  /\ pc[t] = "notify"
  /\ notifier' = (notifier \/ t = "can")
  /\ Goto(t, "idle")
  /\ UNCHANGED <<ring_vars, queue, wire, issued, dropped, frame, next, batch,
                 clash>>

(* transmit() once it is entered.                                          *)
Continue(t) ==
  \/ Write(t)
  \/ PushRead(t, "read", "check") \/ PushCheck(t, "check", "store", "idle")
  \/ PushStore(t, "store", "publish") \/ PushPublish(t, "publish", "notify")
  \/ Notify(t)

(***************************************************************************)
(* onSocketWriteReady, in the CAN thread between two other callbacks.  The *)
(* socket polls as writable even while the driver's queue is full.         *)
(***************************************************************************)
Activated ==
  /\ pc["can"] = "idle" /\ notifier
  /\ batch' = 0
  /\ Goto("can", "pop")
  /\ UNCHANGED <<ring_vars, notifier, queue, wire, issued, dropped, frame,
                 next, clash>>

(* Mutant: the frame is looked at and not taken out before it is written.  *)
Pop_Peek ==
  /\ pc["can"] = "pop"
  /\ \/ /\ batch < Batch /\ ~IsEmpty
        /\ frame' = [frame EXCEPT !["can"] = buffer[tail]]
        /\ Goto("can", "hwrite")
     \/ /\ batch = Batch \/ IsEmpty
        /\ UNCHANGED frame
        /\ Goto("can", "empty")
  /\ UNCHANGED <<ring_vars, notifier, queue, wire, issued, dropped, next,
                 batch, clash>>

Pop ==
  /\ pc["can"] = "pop"
  /\ \/ /\ batch < Batch /\ ~IsEmpty
        /\ frame' = [frame EXCEPT !["can"] = buffer[tail]]
        /\ Goto("can", "advance")
     \/ /\ batch = Batch \/ IsEmpty
        /\ UNCHANGED frame
        /\ Goto("can", "empty")
  /\ UNCHANGED <<ring_vars, notifier, queue, wire, issued, dropped, next,
                 batch, clash>>

PopAdvance ==
  /\ pc["can"] = "advance"
  /\ tail' = Following(tail)
  /\ Goto("can", "hwrite")
  /\ UNCHANGED <<buffer, head, notifier, queue, wire, issued, dropped, frame,
                 next, batch, clash>>

(* The write succeeds, at once or at a retry; or the queue is still full   *)
(* at the last of the five retries and the frame is pushed back.           *)
HandlerWrite ==
  /\ pc["can"] = "hwrite"
  /\ \/ /\ CanWrite
        /\ queue' = Append(queue, frame["can"])
        /\ batch' = batch + 1
        /\ Goto("can", "pop")
     \/ /\ ~CanWrite
        /\ UNCHANGED <<queue, batch>>
        /\ Goto("can", "hread")
  /\ UNCHANGED <<ring_vars, notifier, wire, issued, dropped, frame, next,
                 clash>>

(* Mutant: the notifier is disabled at the end of a batch.                 *)
CheckEmpty_Skipped ==
  /\ pc["can"] = "empty"
  /\ Goto("can", "disable")
  /\ UNCHANGED <<ring_vars, notifier, queue, wire, issued, dropped, frame, next,
                 batch, clash>>

CheckEmpty ==
  /\ pc["can"] = "empty"
  /\ Goto("can", IF IsEmpty THEN "disable" ELSE "idle")
  /\ UNCHANGED <<ring_vars, notifier, queue, wire, issued, dropped, frame, next,
                 batch, clash>>

Disable ==
  /\ pc["can"] = "disable"
  /\ notifier' = FALSE
  /\ Goto("can", "idle")
  /\ UNCHANGED <<ring_vars, queue, wire, issued, dropped, frame, next, batch,
                 clash>>

Handler ==
  \/ Activated \/ Pop \/ PopAdvance \/ HandlerWrite
  \/ PushRead("can", "hread", "hcheck") \/ PushCheck("can", "hcheck", "hstore", "empty")
  \/ PushStore("can", "hstore", "hpublish") \/ PushPublish("can", "hpublish", "empty")
  \/ CheckEmpty \/ Disable

(* The controller sends the oldest frame of its queue.                     *)
Carry ==
  /\ queue # <<>>
  /\ wire' = Append(wire, Head(queue))
  /\ queue' = Tail(queue)
  /\ UNCHANGED <<ring_vars, notifier, issued, dropped, pc, frame, next, batch,
                 clash>>
-----------------------------------------------------------------------------
Next == (\E t \in Threads : Call(t) \/ Continue(t)) \/ Handler \/ Carry

Spec == Init /\ [][Next]_vars

(* Both threads are scheduled, the notifier fires while it is enabled, and *)
(* the bus is alive.                                                       *)
Fairness ==
  /\ \A t \in Threads : WF_vars(Continue(t))
  /\ WF_vars(Handler)
  /\ WF_vars(Carry)

FairSpec == Spec /\ Fairness
-----------------------------------------------------------------------------
TypeOK ==
  /\ buffer \in [Slots -> Frames \cup {None}] /\ head \in Slots /\ tail \in Slots
  /\ notifier \in BOOLEAN
  /\ queue \in Seq(Frames \cup {None}) /\ Len(queue) <= QueueLen
  /\ wire \in Seq(Frames \cup {None})
  /\ \A t \in Threads : issued[t] \in 0..NumFrames(t)
  /\ dropped \subseteq Frames \cup {None}
  /\ pc["main"] \in {"idle"} \cup TransmitPoints
  /\ pc["can"] \in {"idle"} \cup TransmitPoints \cup HandlerPoints
  /\ frame \in [Threads -> Frames \cup {None}] /\ next \in [Threads -> Slots]
  /\ batch \in 0..Batch
  /\ clash \in BOOLEAN

Issued == {f \in Frames : f[2] <= issued[f[1]]}

(* The places a frame can be in.                                           *)
Holding == {"write", "read", "check", "store", "publish",
            "hwrite", "hread", "hcheck", "hstore", "hpublish"}
InHand(f)  == {t \in Threads : pc[t] \in Holding /\ frame[t] = f}
Count      == (head - tail + RingSize) % RingSize
InRing(f)  == {k \in 0..(Count - 1) :
                 buffer[(tail + k) % RingSize] = f}
InQueue(f) == {i \in 1..Len(queue) : queue[i] = f}
OnWire(f)  == {i \in 1..Len(wire) : wire[i] = f}
Copies(f)  == Cardinality(InHand(f)) + Cardinality(InRing(f))
                + Cardinality(InQueue(f)) + Cardinality(OnWire(f))

(* can_interface.cpp:224: a frame the driver refuses is pushed into the    *)
(* ring and taken out by the write notifier; so it is lost only by a full  *)
(* ring, and never sent twice.                                             *)
ExactlyOnce == \A f \in Issued : Copies(f) = IF f \in dropped THEN 0 ELSE 1

(* Until two pushes overlap that is what happens, wherever the two threads *)
(* are in push, pop and the push back of a frame the driver refused.       *)
OnceApart == clash \/ ExactlyOnce

(* When the CAN thread is back in its event loop and the notifier is off,  *)
(* what the ring holds was put there by the main thread.                   *)
Woken ==
  pc["can"] = "idle" /\ ~notifier /\ ~clash
    => \A k \in 0..(Count - 1) : buffer[(tail + k) % RingSize][1] = "main"

(* A frame is given up only when the ring is full at that moment, although *)
(* the head it is judged by was read earlier and the other thread may have *)
(* moved the tail since.  That covers the handler, which ignores the       *)
(* result of its push: the slot its pop freed may be taken by then.        *)
OnlyFull == [][UNCHANGED dropped \/ clash \/ Count = RingSize - 1]_vars

(* A frame of the CAN thread gets to the bus, with those of the main       *)
(* thread before it, unless a full ring or two pushes at once cost it.     *)
CanSent ==
  \A f \in Frames :
    f[1] = "can" /\ f \in Issued ~> f \in dropped \/ OnWire(f) # {} \/ clash

(* can_interface.cpp:224 again, for the frames of both threads.            *)
AllSent == \A f \in Frames : f \in Issued ~> f \in dropped \/ OnWire(f) # {}
=============================================================================
