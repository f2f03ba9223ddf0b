-------------------------- MODULE CanTransmitProofs --------------------------
(***************************************************************************)
(* Proofs about module CanTransmit, for every ring, driver queue, batch    *)
(* and number of frames of either thread.  Until two pushes overlap: once  *)
(* they have, ringbuffer::push being not atomic, only the types are left   *)
(* (see the README and the runs CanTransmit_overlap and _stranded).        *)
(*                                                                         *)
(* The argument: the hands of the two threads, the ring, the driver's      *)
(* queue and the wire hold disjoint sets of frames, together exactly the   *)
(* frames issued and not dropped, and each step moves one frame from one   *)
(* of them to the next.  A push and a pop touch different slots, and a pop *)
(* only makes room for the push that is under way.                         *)
(***************************************************************************)
EXTENDS CanTransmit, FiniteSetTheorems, SequenceTheorems, TLAPS

C == pc["can"]

Other(t) == IF t = "main" THEN "can" ELSE "main"

(* Indices without the modulo: the number of frames between tail t and     *)
(* head h, the slot of the k-th of them, and the slot after s.             *)
Between(h, t) == IF h >= t THEN h - t ELSE h - t + RingSize
SlotOf(t, k)  == IF t + k < RingSize THEN t + k ELSE t + k - RingSize
Succ(s)       == IF s + 1 < RingSize THEN s + 1 ELSE 0
Slot(k)       == SlotOf(tail, k)
Ring          == 0..(Between(head, tail) - 1)

(* What each place holds.                                                  *)
Elements(s)  == {s[i] : i \in 1..Len(s)}
Distinct(s)  == \A i, j \in 1..Len(s) : s[i] = s[j] => i = j
Hand(t)      == IF pc[t] \in Holding THEN {frame[t]} ELSE {}
InHands      == Hand("main") \cup Hand("can")
InTheRing    == {buffer[Slot(k)] : k \in Ring}
RingDistinct == \A k, l \in Ring : buffer[Slot(k)] = buffer[Slot(l)] => k = l
Live         == Issued \ dropped

Disjoint(A, B) == A \cap B = {}

Places ==
  /\ dropped \subseteq Issued
  /\ Live = InHands \cup InTheRing \cup Elements(queue) \cup Elements(wire)
  /\ Disjoint(Hand("main"), Hand("can"))
  /\ Disjoint(InHands, InTheRing)
  /\ Disjoint(InHands, Elements(queue))
  /\ Disjoint(InHands, Elements(wire))
  /\ Disjoint(InTheRing, Elements(queue))
  /\ Disjoint(InTheRing, Elements(wire))
  /\ Disjoint(Elements(queue), Elements(wire))
  /\ RingDistinct /\ Distinct(queue) /\ Distinct(wire)

(* The types, and what they need at each point of the handler.             *)
AfterPop == {"hwrite", "hread", "hcheck", "hstore", "hpublish"}

Typed ==
  /\ TypeOK
  /\ DOMAIN pc = Threads /\ DOMAIN issued = Threads
  /\ C \in AfterPop \cup {"advance"} => batch < Batch

(* What a thread knows at each point of transmit() and of a push.          *)
Knows(t) ==
  /\ pc[t] \in Holding => frame[t] \in Frames
  /\ pc[t] \in PushPoints => next[t] = Succ(head)
  /\ pc[t] \in {"store", "publish", "hstore", "hpublish"} => Succ(head) # tail
  /\ pc[t] \in {"publish", "hpublish"} => buffer[head] = frame[t]

(* The main thread carries its own frames; nobody wakes the handler for    *)
(* them.                                                                   *)
MainOwn  == pc["main"] \in Holding => frame["main"][1] = "main"
OnlyMain == \A f \in InTheRing : f[1] = "main"

Control ==
  /\ Knows("main") /\ Knows("can")
  /\ ~(pc["main"] \in PushPoints /\ C \in PushPoints)
  /\ MainOwn
  /\ C = "advance" => ~IsEmpty /\ frame["can"] = buffer[tail]
  /\ C \in HandlerPoints => notifier
  /\ C = "disable" => OnlyMain
  /\ C # "notify" /\ ~notifier => OnlyMain

IInv == Typed /\ (clash \/ (Control /\ Places))
-----------------------------------------------------------------------------
(***************************************************************************)
(* The ring's indices.                                                     *)
(***************************************************************************)
LEMMA ModTwice ==
  ASSUME NEW N \in Nat \ {0}, NEW a \in Nat, a < N + N
  PROVE  a % N = IF a < N THEN a ELSE a - N
<1>1. CASE a < N
  BY <1>1
<1>2. CASE a >= N
  <2>1. a = N * 1 + (a - N) /\ a - N \in 0..(N - 1)
    BY <1>2
  <2> QED BY <2>1, <1>2
<1> QED BY <1>1, <1>2

LEMMA SuccWraps ==
  ASSUME NEW s \in Slots
  PROVE  Following(s) = Succ(s) /\ Succ(s) \in Slots
<1> DEFINE a == s + 1
<1>1. RingSize \in Nat \ {0} /\ s \in Nat /\ s < RingSize /\ RingSize > 1
  BY TransmitAssumption DEF Slots
<1>2. a \in Nat /\ a < RingSize + RingSize /\ a <= RingSize
  BY <1>1
<1>3. Following(s) = a % RingSize /\ Succ(s) = IF a < RingSize THEN a ELSE 0
  BY DEF Following, Succ
<1> HIDE DEF a
<1>4. a % RingSize = IF a < RingSize THEN a ELSE a - RingSize
  BY <1>1, <1>2, ModTwice, Zenon
<1> QED BY <1>1, <1>2, <1>3, <1>4 DEF Slots

LEMMA BetweenCounts ==
  ASSUME NEW h \in Slots, NEW t \in Slots
  PROVE  /\ Between(h, t) \in Slots
         /\ Between(h, t) = (h - t + RingSize) % RingSize
         /\ Between(h, t) = 0 <=> h = t
<1> DEFINE a == h - t + RingSize
<1>1. /\ RingSize \in Nat \ {0} /\ h \in Nat /\ h < RingSize
      /\ t \in Nat /\ t < RingSize
  BY TransmitAssumption DEF Slots
<1>2. a \in Nat /\ a < RingSize + RingSize
  BY <1>1
<1>3. /\ h < t <=> a < RingSize
      /\ a - RingSize = h - t /\ Between(h, t) = IF h >= t THEN h - t ELSE a
  BY <1>1 DEF Between
<1>4. (h - t + RingSize) % RingSize = a % RingSize
  OBVIOUS
<1> HIDE DEF a
<1>5. a % RingSize = IF a < RingSize THEN a ELSE a - RingSize
  BY <1>1, <1>2, ModTwice, Zenon
<1> QED BY <1>1, <1>2, <1>3, <1>4, <1>5 DEF Slots, Between

LEMMA SlotsOfRing ==
  ASSUME NEW h \in Slots, NEW t \in Slots, NEW k \in 0..(Between(h, t) - 1)
  PROVE  /\ SlotOf(t, k) \in Slots
         /\ SlotOf(t, k) = (t + k) % RingSize
         /\ SlotOf(t, k) # h
<1> DEFINE a == t + k
<1>1. /\ RingSize \in Nat \ {0} /\ h \in Nat /\ h < RingSize
      /\ t \in Nat /\ t < RingSize /\ k \in Nat
  BY TransmitAssumption DEF Slots
<1>2. k < (IF h >= t THEN h - t ELSE h - t + RingSize) /\ k < RingSize
  BY <1>1 DEF Between
<1>3. /\ a \in Nat /\ a < RingSize + RingSize /\ a # h /\ a - RingSize # h
      /\ SlotOf(t, k) = (IF a < RingSize THEN a ELSE a - RingSize)
  BY <1>1, <1>2 DEF SlotOf
<1>4. (t + k) % RingSize = a % RingSize
  OBVIOUS
<1> HIDE DEF a
<1>5. a % RingSize = IF a < RingSize THEN a ELSE a - RingSize
  BY <1>1, <1>3, ModTwice, Zenon
<1> QED BY <1>1, <1>3, <1>4, <1>5 DEF Slots

(* A frame published at the head is the last of the ring, the others keep  *)
(* their places.                                                           *)
LEMMA PublishOne ==
  ASSUME NEW h \in Slots, NEW t \in Slots, Succ(h) # t
  PROVE  /\ Between(Succ(h), t) = Between(h, t) + 1
         /\ SlotOf(t, Between(h, t)) = h
<1>1. /\ RingSize \in Nat \ {0, 1} /\ h \in Nat /\ h < RingSize
      /\ t \in Nat /\ t < RingSize
  BY TransmitAssumption DEF Slots
<1> QED BY <1>1 DEF Between, SlotOf, Succ

(* A frame taken at the tail was the first of the ring, the others move up. *)
LEMMA TakeOne ==
  ASSUME NEW h \in Slots, NEW t \in Slots, h # t
  PROVE  /\ Between(h, Succ(t)) = Between(h, t) - 1
         /\ SlotOf(t, 0) = t
         /\ \A k \in Nat : SlotOf(Succ(t), k) = SlotOf(t, k + 1) \/ k >= Between(h, t) - 1
         /\ Succ(h) # Succ(t)
<1>1. /\ RingSize \in Nat \ {0, 1} /\ h \in Nat /\ h < RingSize
      /\ t \in Nat /\ t < RingSize
  BY TransmitAssumption DEF Slots
<1> QED BY <1>1 DEF Between, SlotOf, Succ

(* A head whose next slot is the tail closes a full ring.                  *)
LEMMA FullCount ==
  ASSUME NEW h \in Slots, NEW t \in Slots, Succ(h) = t
  PROVE  Between(h, t) = RingSize - 1
<1>1. /\ RingSize \in Nat \ {0, 1} /\ h \in Nat /\ h < RingSize
      /\ t \in Nat /\ t < RingSize
  BY TransmitAssumption DEF Slots
<1> QED BY <1>1 DEF Between, Succ
-----------------------------------------------------------------------------
(***************************************************************************)
(* What the places hold after a step.                                      *)
(***************************************************************************)
LEMMA ElementsAppend ==
  ASSUME NEW S, NEW s \in Seq(S), NEW e \in S
  PROVE  /\ Elements(Append(s, e)) = Elements(s) \cup {e}
         /\ Distinct(s) /\ e \notin Elements(s) => Distinct(Append(s, e))
  BY DEF Elements, Distinct

LEMMA ElementsTail ==
  ASSUME NEW S, NEW s \in Seq(S), s # <<>>, Distinct(s)
  PROVE  /\ Head(s) \in Elements(s)
         /\ Elements(Tail(s)) = Elements(s) \ {Head(s)}
         /\ Distinct(Tail(s))
<1>1. /\ Len(s) \in Nat \ {0} /\ Head(s) = s[1]
      /\ Len(Tail(s)) = Len(s) - 1
      /\ \A i \in 1..(Len(s) - 1) : Tail(s)[i] = s[i + 1]
  OBVIOUS
<1>2. Head(s) \in Elements(s)
  BY <1>1 DEF Elements
<1>3. ASSUME NEW x \in Elements(Tail(s))
      PROVE  x \in Elements(s) \ {Head(s)}
  <2>1. PICK i \in 1..(Len(s) - 1) : x = s[i + 1]
    BY <1>1, <1>3 DEF Elements
  <2>2. i + 1 \in 1..Len(s) /\ 1 \in 1..Len(s) /\ i + 1 # 1
    BY <1>1, <2>1
  <2> QED BY <1>1, <2>1, <2>2 DEF Elements, Distinct
<1>4. ASSUME NEW x \in Elements(s) \ {Head(s)}
      PROVE  x \in Elements(Tail(s))
  <2>1. PICK i \in 1..Len(s) : x = s[i]
    BY <1>4 DEF Elements
  <2>2. i # 1
    BY <1>1, <1>4, <2>1
  <2>3. i - 1 \in 1..Len(Tail(s)) /\ (i - 1) + 1 = i /\ i - 1 \in 1..(Len(s) - 1)
    BY <1>1, <2>2
  <2>4. Tail(s)[i - 1] = x
    BY <1>1, <2>1, <2>3
  <2> QED BY <2>3, <2>4 DEF Elements
<1>5. Distinct(Tail(s))
  <2>1. ASSUME NEW i \in 1..(Len(s) - 1), NEW j \in 1..(Len(s) - 1),
               s[i + 1] = s[j + 1]
        PROVE  i = j
    <3>1. i + 1 \in 1..Len(s) /\ j + 1 \in 1..Len(s)
      BY <1>1
    <3> QED BY <2>1, <3>1 DEF Distinct
  <2> QED BY <1>1, <2>1 DEF Distinct
<1> QED BY <1>2, <1>3, <1>4, <1>5

LEMMA RingTyped ==
  ASSUME TypeOK
  PROVE  /\ head \in Slots /\ tail \in Slots
         /\ Between(head, tail) \in Nat /\ Between(head, tail) < RingSize
         /\ \A k \in Ring : Slot(k) \in Slots /\ Slot(k) # head /\ k \in Nat
<1>1. head \in Slots /\ tail \in Slots
  BY DEF TypeOK
<1>2. Between(head, tail) \in Slots
  BY <1>1, BetweenCounts
<1> QED BY <1>1, <1>2, SlotsOfRing, TransmitAssumption DEF Ring, Slot, Slots

(* The frame stored at the head joins the ring.                            *)
LEMMA RingPublish ==
  ASSUME TypeOK, Succ(head) # tail, head' = Succ(head),
         UNCHANGED <<buffer, tail>>
  PROVE  /\ InTheRing' = InTheRing \cup {buffer[head]}
         /\ RingDistinct /\ buffer[head] \notin InTheRing => RingDistinct'
<1> DEFINE n == Between(head, tail)
<1>1. /\ n \in Nat /\ Ring = 0..(n - 1) /\ Ring' = 0..n
      /\ \A k \in Nat : Slot(k)' = Slot(k)
      /\ Slot(n) = head
  BY RingTyped, PublishOne DEF Ring, Slot
<1>2. Ring' = Ring \cup {n} /\ n \notin Ring
  <2> HIDE DEF n
  <2> QED BY <1>1
<1>3. \A k \in Ring' : buffer'[Slot(k)'] = buffer[Slot(k)]
  BY <1>1
<1> HIDE DEF n
<1> QED BY <1>1, <1>2, <1>3 DEF InTheRing, RingDistinct

(* The frame at the tail leaves the ring.                                  *)
LEMMA RingTake ==
  ASSUME TypeOK, ~IsEmpty, RingDistinct, tail' = Succ(tail),
         UNCHANGED <<buffer, head>>
  PROVE  /\ buffer[tail] \in InTheRing
         /\ InTheRing' = InTheRing \ {buffer[tail]}
         /\ RingDistinct'
         /\ Succ(head') # tail'
<1> DEFINE n == Between(head, tail)
<1>1. /\ n \in Nat \ {0} /\ Ring = 0..(n - 1) /\ Ring' = 0..(n - 2)
      /\ \A k \in 0..(n - 2) : Slot(k)' = Slot(k + 1)
      /\ Slot(0) = tail
      /\ Succ(head') # tail'
  <2>1. n \in Nat \ {0} /\ Between(head, Succ(tail)) = n - 1
    BY RingTyped, TakeOne, BetweenCounts DEF IsEmpty
  <2>2. \A k \in Nat : SlotOf(Succ(tail), k) = SlotOf(tail, k + 1) \/ k >= n - 1
    BY RingTyped, TakeOne DEF IsEmpty
  <2>3. SlotOf(tail, 0) = tail /\ Succ(head) # Succ(tail)
    BY RingTyped, TakeOne DEF IsEmpty
  <2> HIDE DEF n
  <2>4. Ring' = 0..(n - 2)
    <3>1. n - 1 - 1 = n - 2 BY <2>1
    <3> QED BY <2>1, <3>1 DEF Ring
  <2>5. \A k \in 0..(n - 2) : k \in Nat /\ ~(k >= n - 1)
    BY <2>1
  <2> QED BY <2>1, <2>2, <2>3, <2>4, <2>5 DEF Ring, Slot, n
<1> HIDE DEF n
<1>2. \A k \in Ring' : buffer'[Slot(k)'] = buffer[Slot(k + 1)] /\ k + 1 \in Ring
                       /\ k + 1 # 0
  BY <1>1
<1>3. \A k \in Ring : k # 0 => k - 1 \in Ring' /\ (k - 1) + 1 = k
  BY <1>1
<1>4. 0 \in Ring /\ buffer[Slot(0)] = buffer[tail]
  BY <1>1
<1>5. buffer[tail] \in InTheRing
  BY <1>4 DEF InTheRing
<1>6. InTheRing' = InTheRing \ {buffer[tail]}
  <2>1. ASSUME NEW k \in Ring'
        PROVE  buffer'[Slot(k)'] \in InTheRing \ {buffer[tail]}
    BY <1>2, <1>4, <2>1 DEF InTheRing, RingDistinct
  <2>2. ASSUME NEW k \in Ring, buffer[Slot(k)] # buffer[tail]
        PROVE  buffer[Slot(k)] \in InTheRing'
    <3>1. k # 0
      BY <1>4, <2>2
    <3>2. k - 1 \in Ring' /\ buffer'[Slot(k - 1)'] = buffer[Slot(k)]
      BY <1>2, <1>3, <3>1
    <3> QED BY <3>2 DEF InTheRing
  <2> QED BY <2>1, <2>2 DEF InTheRing
<1>7. RingDistinct'
  <2>1. ASSUME NEW k \in Ring', NEW l \in Ring',
               buffer[Slot(k + 1)] = buffer[Slot(l + 1)]
        PROVE  k = l
    <3>1. k + 1 = l + 1
      BY <1>2, <2>1 DEF RingDistinct
    <3>2. k \in Int /\ l \in Int
      BY <1>1
    <3> QED BY <3>1, <3>2
  <2> QED BY <1>2, <2>1 DEF RingDistinct
<1> QED BY <1>1, <1>5, <1>6, <1>7
-----------------------------------------------------------------------------
(***************************************************************************)
(* The types, whatever the threads do to each other.                       *)
(***************************************************************************)
LEMMA Moved ==
  ASSUME Typed, NEW t \in Threads, NEW label, Goto(t, label)
  PROVE  /\ pc'[t] = label /\ pc'[Other(t)] = pc[Other(t)]
         /\ Other(t) \in Threads /\ t # Other(t) /\ Threads = {t, Other(t)}
         /\ DOMAIN pc' = Threads
  BY DEF Goto, Typed, Threads, Other

LEMMA FramesOf ==
  ASSUME NEW t \in Threads, NEW n \in 1..NumFrames(t)
  PROVE  <<t, n>> \in Frames
  BY DEF Frames

LEMMA CallTyped == ASSUME Typed, NEW t \in Threads, Call(t) PROVE Typed'
<1>1. /\ issued[t] \in Nat /\ issued[t] + 1 \in 1..NumFrames(t)
      /\ \A u \in Threads : NumFrames(u) \in Nat
  BY TransmitAssumption DEF Typed, TypeOK, Call, NumFrames
<1>2. <<t, issued[t] + 1>> \in Frames
  BY <1>1, FramesOf
<1>3. /\ frame' \in [Threads -> Frames \cup {None}]
      /\ \A u \in Threads : issued'[u] \in 0..NumFrames(u)
      /\ DOMAIN issued' = Threads
  BY <1>1, <1>2 DEF Typed, TypeOK, Call
<1>4. TypeOK'
  BY <1>3, Moved DEF Typed, TypeOK, Call, ring_vars, Threads, TransmitPoints, Other
<1> QED BY <1>3, <1>4, Moved
        DEF Typed, Call, C, Threads, Other, AfterPop

LEMMA QueueTyped ==
  ASSUME Typed, NEW t \in Threads, CanWrite
  PROVE  /\ Append(queue, frame[t]) \in Seq(Frames \cup {None})
         /\ Len(Append(queue, frame[t])) <= QueueLen
<1>1. /\ queue \in Seq(Frames \cup {None}) /\ frame[t] \in Frames \cup {None}
      /\ Len(queue) < QueueLen /\ QueueLen \in Nat /\ Len(queue) \in Nat
  BY TransmitAssumption DEF Typed, TypeOK, CanWrite
<1> QED BY <1>1, AppendProperties

LEMMA WriteTyped == ASSUME Typed, NEW t \in Threads, Write(t) PROVE Typed'
<1>1. PICK label \in {"idle", "read"} : Goto(t, label)
  BY DEF Write
<1>2. queue' \in Seq(Frames \cup {None}) /\ Len(queue') <= QueueLen
  BY QueueTyped DEF Typed, TypeOK, Write
<1>3. TypeOK'
  BY <1>1, <1>2, Moved DEF Typed, TypeOK, Write, ring_vars, Threads, TransmitPoints, Other
<1> QED BY <1>1, <1>3, Moved DEF Typed, Write, C, Threads, Other, AfterPop

(* The push of transmit() and the push of the handler pass through the     *)
(* same steps.                                                             *)
InTransmit(t, from, to) ==
  \/ <<from, to>> \in {<<"read", "check">>, <<"check", "store">>, <<"check", "idle">>,
                       <<"store", "publish">>, <<"publish", "notify">>}
  \/ t = "can" /\ <<from, to>> \in {<<"hread", "hcheck">>, <<"hcheck", "hstore">>,
                 <<"hcheck", "empty">>, <<"hstore", "hpublish">>, <<"hpublish", "empty">>}

LEMMA PushMoved ==
  ASSUME Typed, NEW t \in Threads, NEW from, NEW to, InTransmit(t, from, to),
         pc[t] = from, Goto(t, to), UNCHANGED <<issued, batch>>
  PROVE  /\ pc'["main"] \in {"idle"} \cup TransmitPoints
         /\ pc'["can"] \in {"idle"} \cup TransmitPoints \cup HandlerPoints
         /\ DOMAIN pc' = Threads /\ DOMAIN issued' = Threads
         /\ C' \in AfterPop \cup {"advance"} => batch' < Batch
<1>1. /\ pc["main"] \in {"idle"} \cup TransmitPoints
      /\ pc["can"] \in {"idle"} \cup TransmitPoints \cup HandlerPoints
  BY DEF Typed, TypeOK
<1>2. CASE t = "main"
  BY <1>1, <1>2, Moved DEF Other, InTransmit, TransmitPoints, Typed, C
<1>3. CASE t = "can"
  BY <1>1, <1>3, Moved
  DEF Other, InTransmit, TransmitPoints, HandlerPoints, Typed, C, AfterPop
<1> QED BY <1>2, <1>3 DEF Threads

LEMMA PushTyped ==
  ASSUME Typed, NEW t \in Threads, NEW from, NEW to, NEW return,
         \/ PushRead(t, from, to) /\ InTransmit(t, from, to)
         \/ /\ PushCheck(t, from, to, return)
            /\ InTransmit(t, from, to) /\ InTransmit(t, from, return)
         \/ PushStore(t, from, to) /\ InTransmit(t, from, to)
         \/ PushPublish(t, from, return) /\ InTransmit(t, from, return)
  PROVE  Typed'
<1>1. CASE PushRead(t, from, to) /\ InTransmit(t, from, to)
  <2>1. next' \in [Threads -> Slots] /\ clash' \in BOOLEAN
    BY <1>1, SuccWraps DEF PushRead, Typed, TypeOK
  <2> QED BY <1>1, <2>1, PushMoved DEF PushRead, Typed, TypeOK, ring_vars
<1>2. CASE /\ PushCheck(t, from, to, return)
           /\ InTransmit(t, from, to) /\ InTransmit(t, from, return)
  <2>1. dropped' \subseteq Frames \cup {None}
    BY <1>2 DEF PushCheck, Typed, TypeOK
  <2>2. PICK label \in {to, return} : Goto(t, label)
    BY <1>2 DEF PushCheck
  <2> QED BY <1>2, <2>1, <2>2, PushMoved DEF PushCheck, Typed, TypeOK, ring_vars
<1>3. CASE PushStore(t, from, to) /\ InTransmit(t, from, to)
  <2>1. buffer' \in [Slots -> Frames \cup {None}]
    BY <1>3 DEF PushStore, Typed, TypeOK
  <2> QED BY <1>3, <2>1, PushMoved DEF PushStore, Typed, TypeOK
<1>4. CASE PushPublish(t, from, return) /\ InTransmit(t, from, return)
  <2>1. head' \in Slots
    BY <1>4 DEF PushPublish, Typed, TypeOK
  <2> QED BY <1>4, <2>1, PushMoved DEF PushPublish, Typed, TypeOK
<1> QED BY <1>1, <1>2, <1>3, <1>4

LEMMA ContinueTyped == ASSUME Typed, NEW t \in Threads, Continue(t) PROVE Typed'
<1>1. CASE Write(t) BY <1>1, WriteTyped
<1>2. CASE PushRead(t, "read", "check")
  BY <1>2, PushTyped DEF InTransmit
<1>3. CASE PushCheck(t, "check", "store", "idle")
  BY <1>3, PushTyped DEF InTransmit
<1>4. CASE PushStore(t, "store", "publish")
  BY <1>4, PushTyped DEF InTransmit
<1>5. CASE PushPublish(t, "publish", "notify")
  BY <1>5, PushTyped DEF InTransmit
<1>6. CASE Notify(t)
  <2>1. TypeOK'
    BY <1>6, Moved DEF Typed, TypeOK, Notify, ring_vars, Threads, Other
  <2> QED BY <1>6, <2>1, Moved DEF Typed, Notify, C, Threads, Other, AfterPop
<1> QED BY <1>1, <1>2, <1>3, <1>4, <1>5, <1>6 DEF Continue

LEMMA HandlerTyped == ASSUME Typed, Handler PROVE Typed'
<1> USE DEF Threads, Other
<1>1. CASE Activated
  BY <1>1, Moved, TransmitAssumption
  DEF Activated, Typed, TypeOK, ring_vars, HandlerPoints, C, AfterPop
<1>2. CASE Pop
  <2>1. frame' \in [Threads -> Frames \cup {None}]
    BY <1>2 DEF Pop, Typed, TypeOK
  <2>2. \/ batch < Batch /\ Goto("can", "advance")
        \/ Goto("can", "empty")
    BY <1>2, TransmitAssumption DEF Pop, Typed, TypeOK
  <2> QED BY <1>2, <2>1, <2>2, Moved
          DEF Pop, Typed, TypeOK, ring_vars, HandlerPoints, C, AfterPop
<1>3. CASE PopAdvance
  <2>1. tail' \in Slots
    BY <1>3, SuccWraps DEF PopAdvance, Typed, TypeOK
  <2> QED BY <1>3, <2>1, Moved
          DEF PopAdvance, Typed, TypeOK, HandlerPoints, C, AfterPop
<1>4. CASE HandlerWrite
  <2>1. /\ queue' \in Seq(Frames \cup {None}) /\ Len(queue') <= QueueLen
        /\ batch' \in 0..Batch
        /\ \/ Goto("can", "pop")
           \/ Goto("can", "hread") /\ batch' < Batch
    <3>1. batch \in 0..Batch /\ batch < Batch /\ Batch \in Nat
      BY <1>4, TransmitAssumption DEF HandlerWrite, Typed, TypeOK, C, AfterPop
    <3>2. CASE CanWrite /\ queue' = Append(queue, frame["can"])
               /\ batch' = batch + 1 /\ Goto("can", "pop")
      BY <3>1, <3>2, QueueTyped
    <3>3. CASE UNCHANGED <<queue, batch>> /\ Goto("can", "hread")
      BY <3>1, <3>3 DEF Typed, TypeOK
    <3> QED BY <1>4, <3>2, <3>3 DEF HandlerWrite
  <2> QED BY <1>4, <2>1, Moved
          DEF HandlerWrite, Typed, TypeOK, ring_vars, HandlerPoints, C, AfterPop
<1>5. CASE PushRead("can", "hread", "hcheck")
  BY <1>5, PushTyped DEF InTransmit
<1>6. CASE PushCheck("can", "hcheck", "hstore", "empty")
  BY <1>6, PushTyped DEF InTransmit
<1>7. CASE PushStore("can", "hstore", "hpublish")
  BY <1>7, PushTyped DEF InTransmit
<1>8. CASE PushPublish("can", "hpublish", "empty")
  BY <1>8, PushTyped DEF InTransmit
<1>9. CASE CheckEmpty
  <2>1. PICK label \in {"disable", "idle"} : Goto("can", label)
    BY <1>9 DEF CheckEmpty
  <2>2. UNCHANGED <<ring_vars, notifier, queue, wire, issued, dropped, frame, next,
                    batch, clash>>
    BY <1>9 DEF CheckEmpty
  <2>3. C' = label /\ pc'["main"] = pc["main"] /\ DOMAIN pc' = Threads
    BY <2>1, Moved DEF C
  <2>4. TypeOK'
    BY <2>2, <2>3 DEF Typed, TypeOK, ring_vars, HandlerPoints, C
  <2> QED BY <2>2, <2>3, <2>4 DEF Typed, AfterPop
<1>10. CASE Disable
  <2>1. C' = "idle" /\ pc'["main"] = pc["main"] /\ DOMAIN pc' = Threads
    BY <1>10, Moved DEF Disable, C
  <2>2. TypeOK'
    BY <1>10, <2>1 DEF Disable, Typed, TypeOK, ring_vars, C
  <2> QED BY <1>10, <2>1, <2>2 DEF Disable, Typed, AfterPop
<1> QED BY <1>1, <1>2, <1>3, <1>4, <1>5, <1>6, <1>7, <1>8, <1>9, <1>10 DEF Handler

LEMMA TypedStep == ASSUME Typed, [Next]_vars PROVE Typed'
<1>1. CASE Carry
  <2>1. /\ queue' \in Seq(Frames \cup {None}) /\ wire' \in Seq(Frames \cup {None})
        /\ Len(queue') <= QueueLen
    BY <1>1, TransmitAssumption DEF Carry, Typed, TypeOK
  <2> QED BY <1>1, <2>1 DEF Carry, Typed, TypeOK, ring_vars, C
<1>2. CASE UNCHANGED vars
  BY <1>2 DEF Typed, TypeOK, vars, ring_vars, C
<1> QED BY <1>1, <1>2, CallTyped, ContinueTyped, HandlerTyped DEF Next
-----------------------------------------------------------------------------
(***************************************************************************)
(* The steps, until two pushes overlap.                                    *)
(***************************************************************************)
LEMMA HandTyped ==
  ASSUME Typed, Control, NEW t \in Threads, pc[t] \in Holding
  PROVE  frame[t] \in Frames /\ frame[t] \in Frames \cup {None}
  BY DEF Control, Knows, Threads

(* A step that moves no frame.                                             *)
LEMMA PlacesKept ==
  ASSUME Places, \A t \in Threads : Hand(t)' = Hand(t),
         UNCHANGED <<ring_vars, queue, wire, issued, dropped>>
  PROVE  Places'
<1>1. /\ Live' = Live /\ InTheRing' = InTheRing
      /\ Elements(queue)' = Elements(queue) /\ Elements(wire)' = Elements(wire)
      /\ RingDistinct' = RingDistinct
      /\ Issued' = Issued
      /\ Distinct(queue)' = Distinct(queue) /\ Distinct(wire)' = Distinct(wire)
  BY DEF ring_vars, Live, Issued, InTheRing, Ring, Slot, Elements, RingDistinct,
         Distinct
<1>2. InHands' = InHands /\ Hand("main")' = Hand("main") /\ Hand("can")' = Hand("can")
  BY DEF InHands, Threads
<1> QED BY <1>1, <1>2 DEF Places, Disjoint

(* A thread takes a frame in its hand, or lets go of it.                   *)
LEMMA HandFills ==
  ASSUME NEW t \in Threads, pc[t] \notin Holding, pc'[t] \in Holding,
         Hand(Other(t))' = Hand(Other(t))
  PROVE  /\ InHands' = InHands \cup {frame'[t]}
         /\ Disjoint(Hand("main"), Hand("can")) /\ frame'[t] \notin InHands
              => Disjoint(Hand("main"), Hand("can"))'
  BY DEF InHands, Hand, Threads, Other, Disjoint

LEMMA HandEmpties ==
  ASSUME NEW t \in Threads, pc[t] \in Holding, pc'[t] \notin Holding,
         Hand(Other(t))' = Hand(Other(t)), Disjoint(Hand("main"), Hand("can"))
  PROVE  /\ frame[t] \in InHands /\ InHands' = InHands \ {frame[t]}
         /\ Disjoint(Hand("main"), Hand("can"))'
  BY DEF InHands, Hand, Threads, Other, Disjoint

(* The parts of Places that a step away from the queue or the wire, or     *)
(* from the ring, leaves alone.                                            *)
LEMMA RingKept ==
  ASSUME UNCHANGED ring_vars
  PROVE  InTheRing' = InTheRing /\ RingDistinct' = RingDistinct
  BY DEF ring_vars, InTheRing, Ring, Slot, RingDistinct

LEMMA BusKept ==
  ASSUME UNCHANGED <<queue, wire>>
  PROVE  /\ Elements(queue)' = Elements(queue) /\ Elements(wire)' = Elements(wire)
         /\ Distinct(queue)' = Distinct(queue) /\ Distinct(wire)' = Distinct(wire)
  BY DEF Elements, Distinct

LEMMA LiveKept ==
  ASSUME UNCHANGED <<issued, dropped>>
  PROVE  Live' = Live /\ Issued' = Issued
  BY DEF Live, Issued

(* What the other thread knows, when the ring is not touched.              *)
LEMMA KnowsKept ==
  ASSUME NEW t \in Threads, Knows(t), pc'[t] = pc[t], frame'[t] = frame[t],
         next'[t] = next[t], UNCHANGED ring_vars
  PROVE  Knows(t)'
  BY DEF Knows, ring_vars


LEMMA CallStep ==
  ASSUME Typed, Control, Places, NEW t \in Threads, Call(t)
  PROVE  Control' /\ Places'
<1> DEFINE f == <<t, issued[t] + 1>>
<1>1. /\ pc[t] = "idle" /\ issued[t] < NumFrames(t)
      /\ issued' = [issued EXCEPT ![t] = @ + 1]
      /\ frame' = [frame EXCEPT ![t] = f]
      /\ UNCHANGED <<ring_vars, notifier, queue, wire, dropped, next, batch, clash>>
  BY DEF Call
<1>2. /\ pc'[t] = "write" /\ pc'[Other(t)] = pc[Other(t)]
      /\ Other(t) \in Threads /\ t # Other(t) /\ Threads = {t, Other(t)}
  BY Moved DEF Call
<1>3. /\ issued[t] \in Nat /\ issued[t] + 1 \in 1..NumFrames(t)
      /\ f \in Frames /\ f \notin Issued
  <2>1. issued[t] \in Nat /\ issued[t] + 1 \in 1..NumFrames(t)
    BY <1>1, TransmitAssumption DEF Typed, TypeOK, NumFrames
  <2> QED BY <2>1, FramesOf DEF Issued
<1>4. frame'[t] = f /\ frame'[Other(t)] = frame[Other(t)] /\ f[1] = t
  BY <1>1, <1>2 DEF Typed, TypeOK
<1>5. issued'[t] = issued[t] + 1 /\ issued'[Other(t)] = issued[Other(t)]
  BY <1>1, <1>2 DEF Typed
<1>6. Issued' = Issued \cup {f}
  <2>1. ASSUME NEW g \in Frames
        PROVE  g[2] <= issued'[g[1]] <=> g[2] <= issued[g[1]] \/ g = f
    <3>1. PICK u \in Threads : \E n \in 1..NumFrames(u) : g = <<u, n>>
      BY DEF Frames
    <3>2. PICK n \in 1..NumFrames(u) : g = <<u, n>>
      BY <3>1
    <3>3. CASE u = t
      BY <1>3, <1>5, <3>2, <3>3
    <3>4. CASE u = Other(t)
      BY <1>2, <1>5, <3>2, <3>4
    <3> QED BY <1>2, <3>3, <3>4
  <2> QED BY <1>3, <2>1 DEF Issued
<1> HIDE DEF f
<1>7. InTheRing' = InTheRing
  BY <1>1, RingKept
<1>8. Control'
  <2>1. Knows(Other(t))'
    BY <1>1, <1>2, <1>4, KnowsKept DEF Control, Threads
  <2>2. Knows(t)'
    BY <1>2, <1>3, <1>4 DEF Knows, PushPoints
  <2>3. Knows("main")' /\ Knows("can")'
    BY <1>2, <2>1, <2>2 DEF Threads, Other
  <2>4. MainOwn'
    BY <1>2, <1>4 DEF Control, MainOwn, Threads, Other
  <2> QED BY <1>1, <1>2, <1>4, <1>7, <2>3, <2>4
          DEF Control, ring_vars, IsEmpty, HandlerPoints, PushPoints, C, Threads,
              Other, OnlyMain
<1>9. Places'
  <2>1. pc[t] \notin Holding /\ pc'[t] \in Holding /\ Hand(Other(t))' = Hand(Other(t))
    BY <1>1, <1>2, <1>4 DEF Hand, Holding
  <2>2. f \notin dropped /\ f \notin Live /\ Disjoint(Hand("main"), Hand("can"))
    BY <1>1, <1>3 DEF Places, Live
  <2>3. f \notin InHands
    BY <2>2 DEF Places
  <2>4. InHands' = InHands \cup {f} /\ Disjoint(Hand("main"), Hand("can"))'
    BY <1>4, <2>1, <2>2, <2>3, HandFills
  <2>5. Live' = Live \cup {f} /\ dropped' \subseteq Issued'
    BY <1>1, <1>6, <2>2 DEF Live, Places
  <2> QED BY <1>1, <2>2, <2>4, <2>5, RingKept, BusKept DEF Places, Disjoint
<1> QED BY <1>8, <1>9

(* A frame written: from the hand to the driver's queue.                   *)
LEMMA WrittenPlaces ==
  ASSUME Typed, Control, Places, NEW t \in Threads, pc[t] \in Holding,
         pc'[t] \notin Holding, pc'[Other(t)] = pc[Other(t)],
         queue' = Append(queue, frame[t]),
         UNCHANGED <<ring_vars, wire, issued, dropped, frame>>
  PROVE  Places'
<1> DEFINE f == frame[t]
<1>1. Hand(Other(t))' = Hand(Other(t))
  BY DEF Hand
<1>2. /\ f \in InHands /\ InHands' = InHands \ {f}
      /\ Disjoint(Hand("main"), Hand("can"))'
  BY <1>1, HandEmpties DEF Places
<1>3. /\ Elements(queue)' = Elements(queue) \cup {f}
      /\ Distinct(queue)'
  <2>1. queue \in Seq(Frames \cup {None}) /\ f \in Frames \cup {None}
    BY HandTyped DEF Typed, TypeOK
  <2>2. Distinct(queue) /\ f \notin Elements(queue)
    BY <1>2 DEF Places, Disjoint
  <2>3. /\ Elements(Append(queue, f)) = Elements(queue) \cup {f}
        /\ Distinct(Append(queue, f))
    BY <2>1, <2>2, ElementsAppend
  <2> QED BY <2>3 DEF Elements, Distinct
<1>4. /\ Elements(wire)' = Elements(wire) /\ Distinct(wire)' = Distinct(wire)
      /\ dropped' = dropped
  BY DEF Elements, Distinct
<1> HIDE DEF f
<1> QED BY <1>2, <1>3, <1>4, RingKept, LiveKept DEF Places, Disjoint

LEMMA WriteStep ==
  ASSUME Typed, Control, Places, NEW t \in Threads, Write(t)
  PROVE  Control' /\ Places'
<1>1. PICK label \in {"idle", "read"} :
        /\ Goto(t, label)
        /\ label = "idle" => queue' = Append(queue, frame[t])
        /\ label = "read" => UNCHANGED queue
  BY DEF Write
<1>2. pc[t] = "write"
      /\ UNCHANGED <<ring_vars, notifier, wire, issued, dropped, frame, next,
                     batch, clash>>
  BY DEF Write
<1>3. /\ pc'[t] = label /\ pc'[Other(t)] = pc[Other(t)]
      /\ Other(t) \in Threads /\ t # Other(t) /\ Threads = {t, Other(t)}
  BY <1>1, Moved
<1>4. Control'
  <2>1. Knows(Other(t))' /\ Knows(t)'
    <3>1. Knows(t) /\ Knows(Other(t))
      BY <1>3 DEF Control, Threads
    <3> QED BY <1>2, <1>3, <3>1, KnowsKept DEF Knows, Holding, PushPoints
  <2>2. Knows("main")' /\ Knows("can")'
    BY <1>3, <2>1 DEF Threads, Other
  <2>3. MainOwn'
    BY <1>2, <1>3 DEF Control, MainOwn, Threads, Other, Holding
  <2> QED BY <1>2, <1>3, <2>2, <2>3, RingKept
          DEF Control, ring_vars, IsEmpty, HandlerPoints, PushPoints, C, Threads,
              Other, OnlyMain
<1>5. CASE label = "idle"
  <2>1. pc[t] \in Holding /\ pc'[t] \notin Holding
    BY <1>2, <1>3, <1>5 DEF Holding
  <2> QED BY <1>1, <1>2, <1>3, <1>4, <1>5, <2>1, WrittenPlaces
<1>6. CASE label = "read"
  <2>1. \A u \in Threads : Hand(u)' = Hand(u)
    BY <1>2, <1>3, <1>6 DEF Hand, Holding
  <2> QED BY <1>1, <1>2, <1>4, <1>6, <2>1, PlacesKept
<1> QED BY <1>5, <1>6

LEMMA PushReadStep ==
  ASSUME Typed, Control, Places, NEW t \in Threads, NEW from, NEW to,
         PushRead(t, from, to), ~clash',
         \/ from = "read" /\ to = "check"
         \/ t = "can" /\ from = "hread" /\ to = "hcheck"
  PROVE  Control' /\ Places'
<1>1. /\ pc[t] = from /\ next' = [next EXCEPT ![t] = Following(head)]
      /\ UNCHANGED <<ring_vars, notifier, queue, wire, issued, dropped, frame, batch>>
  BY DEF PushRead
<1>2. /\ pc'[t] = to /\ pc'[Other(t)] = pc[Other(t)]
      /\ Other(t) \in Threads /\ t # Other(t) /\ Threads = {t, Other(t)}
  BY Moved DEF PushRead
<1>3. next'[t] = Succ(head) /\ next'[Other(t)] = next[Other(t)]
  <2>1. Following(head) = Succ(head)
    BY SuccWraps DEF Typed, TypeOK
  <2> QED BY <1>1, <1>2, <2>1 DEF Typed, TypeOK
<1>4. pc'[Other(t)] \notin PushPoints
  BY <1>2 DEF PushRead
<1>5. pc[t] \in Holding /\ pc'[t] \in Holding
  BY <1>1, <1>2 DEF Holding
<1>6. Control'
  <2>1. Knows(t) /\ Knows(Other(t))
    BY <1>2 DEF Control, Threads
  <2>2. Knows(Other(t))'
    BY <1>1, <1>2, <1>3, <2>1, KnowsKept
  <2>3. Knows(t)'
    BY <1>1, <1>2, <1>3, <1>5, <2>1 DEF Knows, ring_vars
  <2>4. Knows("main")' /\ Knows("can")'
    BY <1>2, <2>2, <2>3 DEF Threads, Other
  <2>5. MainOwn'
    BY <1>1, <1>2, <1>5 DEF Control, MainOwn, Threads, Other
  <2> QED BY <1>1, <1>2, <1>4, <2>4, <2>5, RingKept
          DEF Control, ring_vars, IsEmpty, HandlerPoints, PushPoints, C, Threads,
              Other, OnlyMain
<1>7. Places'
  <2>1. \A u \in Threads : Hand(u)' = Hand(u)
    BY <1>1, <1>2, <1>5 DEF Hand
  <2> QED BY <1>1, <2>1, PlacesKept
<1> QED BY <1>6, <1>7

(* A frame dropped leaves the hand and is no longer counted.               *)
LEMMA DroppedPlaces ==
  ASSUME Places, NEW t \in Threads, pc[t] \in Holding,
         pc'[t] \notin Holding, pc'[Other(t)] = pc[Other(t)],
         dropped' = dropped \cup {frame[t]},
         UNCHANGED <<ring_vars, queue, wire, issued, frame>>
  PROVE  Places'
<1> DEFINE f == frame[t]
<1>1. Hand(Other(t))' = Hand(Other(t))
  BY DEF Hand
<1>2. /\ f \in InHands /\ InHands' = InHands \ {f}
      /\ Disjoint(Hand("main"), Hand("can"))'
  BY <1>1, HandEmpties DEF Places
<1>3. f \in Live
  BY <1>2 DEF Places
<1>4. Live' = Live \ {f} /\ dropped' \subseteq Issued'
  BY <1>3 DEF Live, Issued, Places
<1> HIDE DEF f
<1> QED BY <1>2, <1>4, RingKept, BusKept DEF Places, Disjoint

(* A frame is given up in a full ring: the tail has not moved past what    *)
(* the thread read as the slot after the head, and the head has not moved. *)
LEMMA PushCheckStep ==
  ASSUME Typed, Control, Places, NEW t \in Threads, NEW from, NEW to, NEW return,
         PushCheck(t, from, to, return),
         \/ from = "check" /\ to = "store" /\ return = "idle"
         \/ t = "can" /\ from = "hcheck" /\ to = "hstore" /\ return = "empty"
  PROVE  /\ Control' /\ Places'
         /\ UNCHANGED dropped \/ Succ(head) = tail
<1>1. PICK label \in {to, return} :
        /\ Goto(t, label)
        /\ label = return => next[t] = tail /\ dropped' = dropped \cup {frame[t]}
        /\ label = to => next[t] # tail /\ UNCHANGED dropped
  BY DEF PushCheck
<1>2. /\ pc[t] = from
      /\ UNCHANGED <<ring_vars, notifier, queue, wire, issued, frame, next, batch,
                     clash>>
  BY DEF PushCheck
<1>3. /\ pc'[t] = label /\ pc'[Other(t)] = pc[Other(t)]
      /\ Other(t) \in Threads /\ t # Other(t) /\ Threads = {t, Other(t)}
  BY <1>1, Moved
<1>4. Knows(t) /\ Knows(Other(t)) /\ next[t] = Succ(head) /\ pc[t] \in Holding
  <2>1. Knows(t) /\ Knows(Other(t))
    BY <1>3 DEF Control, Threads
  <2> QED BY <1>2, <2>1 DEF Knows, PushPoints, Holding
<1>5. Control'
  <2>1. Knows(Other(t))'
    BY <1>2, <1>3, <1>4, KnowsKept
  <2>2. Knows(t)'
    BY <1>1, <1>2, <1>3, <1>4 DEF Knows, ring_vars, Holding, PushPoints
  <2>3. Knows("main")' /\ Knows("can")'
    BY <1>3, <2>1, <2>2 DEF Threads, Other
  <2>4. MainOwn'
    BY <1>2, <1>3, <1>4 DEF Control, MainOwn, Threads, Other
  <2>5. t = "main" \/ t = "can"
    BY DEF Threads
  <2>6. pc[t] \in PushPoints
    BY <1>2 DEF PushPoints
  <2>7. InTheRing' = InTheRing
    BY <1>2, RingKept
  <2> QED BY <1>1, <1>2, <1>3, <2>3, <2>4, <2>5, <2>6, <2>7
          DEF Control, ring_vars, IsEmpty, HandlerPoints, PushPoints, C, Other,
              OnlyMain
<1>6. CASE label = return
  <2>1. pc'[t] \notin Holding
    BY <1>3, <1>6 DEF Holding
  <2> QED BY <1>1, <1>2, <1>3, <1>4, <1>5, <1>6, <2>1, DroppedPlaces
<1>7. CASE label = to
  <2>1. \A u \in Threads : Hand(u)' = Hand(u)
    BY <1>2, <1>3, <1>4, <1>7 DEF Hand, Holding
  <2> QED BY <1>1, <1>2, <1>5, <1>7, <2>1, PlacesKept
<1> QED BY <1>6, <1>7

(* The slot at the head is not in the ring.                                *)
LEMMA PushStoreStep ==
  ASSUME Typed, Control, Places, NEW t \in Threads, NEW from, NEW to,
         PushStore(t, from, to),
         \/ from = "store" /\ to = "publish"
         \/ t = "can" /\ from = "hstore" /\ to = "hpublish"
  PROVE  Control' /\ Places'
<1>1. /\ pc[t] = from /\ buffer' = [buffer EXCEPT ![head] = frame[t]]
      /\ UNCHANGED <<head, tail, notifier, queue, wire, issued, dropped, frame,
                     next, batch, clash>>
  BY DEF PushStore
<1>2. /\ pc'[t] = to /\ pc'[Other(t)] = pc[Other(t)]
      /\ Other(t) \in Threads /\ t # Other(t) /\ Threads = {t, Other(t)}
  BY Moved DEF PushStore
<1>3. buffer'[head] = frame[t] /\ \A i \in Slots : i # head => buffer'[i] = buffer[i]
  BY <1>1 DEF Typed, TypeOK
<1>4. /\ pc[t] \in Holding /\ pc'[t] \in Holding
      /\ pc[t] \in PushPoints /\ pc'[t] \in PushPoints
  BY <1>1, <1>2 DEF Holding, PushPoints
<1>5. Knows(t) /\ Knows(Other(t)) /\ pc[Other(t)] \notin PushPoints
  BY <1>2, <1>4 DEF Control, Threads, Other, C
<1>6. InTheRing' = InTheRing /\ RingDistinct' = RingDistinct
  <2>1. \A k \in Ring : Slot(k)' = Slot(k)
    BY <1>1 DEF Slot
  <2>2. Ring' = Ring
    BY <1>1 DEF Ring
  <2>3. \A k \in Ring : buffer'[Slot(k)'] = buffer[Slot(k)]
    BY <1>3, <2>1, RingTyped DEF Typed
  <2> QED BY <2>2, <2>3 DEF InTheRing, RingDistinct
<1>7. Control'
  <2>1. Knows(Other(t))'
    BY <1>1, <1>2, <1>5 DEF Knows, PushPoints
  <2>2. Knows(t)'
    BY <1>1, <1>2, <1>3, <1>4, <1>5 DEF Knows
  <2>3. Knows("main")' /\ Knows("can")'
    BY <1>2, <2>1, <2>2 DEF Threads, Other
  <2>4. MainOwn'
    BY <1>1, <1>2, <1>4 DEF Control, MainOwn, Threads, Other
  <2>5. C' = "advance" => ~IsEmpty' /\ frame'["can"] = buffer'[tail']
    <3>1. C' = "advance" => C = "advance"
      BY <1>2, <1>4 DEF PushPoints, C, Other, Threads
    <3> QED BY <1>1, <1>3, <3>1 DEF Control, IsEmpty, Typed, TypeOK
  <2> QED BY <1>1, <1>2, <1>4, <1>5, <1>6, <2>3, <2>4, <2>5
          DEF Control, HandlerPoints, PushPoints, C, Threads, Other, OnlyMain
<1>8. Places'
  <2>1. \A u \in Threads : Hand(u)' = Hand(u)
    BY <1>1, <1>2, <1>4 DEF Hand
  <2>2. Hand("main")' = Hand("main") /\ Hand("can")' = Hand("can") /\ InHands' = InHands
    BY <2>1 DEF InHands, Threads
  <2> QED BY <1>1, <1>6, <2>2, BusKept, LiveKept DEF Places, Disjoint
<1> QED BY <1>7, <1>8

(* From the hand to the ring.                                              *)
LEMMA PushPublishStep ==
  ASSUME Typed, Control, Places, NEW t \in Threads, NEW from, NEW return,
         PushPublish(t, from, return),
         \/ from = "publish" /\ return = "notify"
         \/ t = "can" /\ from = "hpublish" /\ return = "empty"
  PROVE  Control' /\ Places'
<1> DEFINE f == frame[t]
<1>1. /\ pc[t] = from /\ head' = next[t]
      /\ UNCHANGED <<buffer, tail, notifier, queue, wire, issued, dropped, frame,
                     next, batch, clash>>
  BY DEF PushPublish
<1>2. /\ pc'[t] = return /\ pc'[Other(t)] = pc[Other(t)]
      /\ Other(t) \in Threads /\ t # Other(t) /\ Threads = {t, Other(t)}
  BY Moved DEF PushPublish
<1>3. /\ pc[t] \in Holding /\ pc'[t] \notin Holding
      /\ pc[t] \in PushPoints /\ pc'[t] \notin PushPoints
  BY <1>1, <1>2 DEF Holding, PushPoints
<1>4. Knows(t) /\ Knows(Other(t)) /\ pc[Other(t)] \notin PushPoints
  BY <1>2, <1>3 DEF Control, Threads, Other, C
<1>5. head' = Succ(head) /\ Succ(head) # tail /\ buffer[head] = f
  BY <1>1, <1>3, <1>4 DEF Knows
<1>6. /\ f \in InHands /\ InHands' = InHands \ {f}
      /\ Disjoint(Hand("main"), Hand("can"))'
  <2>1. Hand(Other(t))' = Hand(Other(t))
    BY <1>1, <1>2 DEF Hand
  <2> QED BY <1>3, <2>1, HandEmpties DEF Places
<1>7. InTheRing' = InTheRing \cup {f} /\ RingDistinct'
  <2>1. f \notin InTheRing /\ RingDistinct
    BY <1>6 DEF Places, Disjoint
  <2> QED BY <1>1, <1>5, <2>1, RingPublish DEF Typed
<1>8. Control'
  <2>1. Knows(Other(t))'
    BY <1>1, <1>2, <1>4 DEF Knows, PushPoints
  <2>2. Knows(t)'
    BY <1>2, <1>3 DEF Knows, PushPoints
  <2>3. Knows("main")' /\ Knows("can")'
    BY <1>2, <2>1, <2>2 DEF Threads, Other
  <2>4. MainOwn'
    BY <1>1, <1>2, <1>3 DEF Control, MainOwn, Threads, Other
  <2>5. C' = "advance" => ~IsEmpty' /\ frame'["can"] = buffer'[tail']
    <3>1. C' = "advance" => C = "advance"
      BY <1>1, <1>2 DEF C, Other, Threads
    <3> QED BY <1>1, <1>5, <3>1 DEF Control, IsEmpty
  <2>6. C' = "disable" \/ (C' # "notify" /\ ~notifier') => OnlyMain'
    <3>1. CASE t = "main"
      BY <1>1, <1>2, <1>3, <1>7, <3>1 DEF Control, MainOwn, OnlyMain, C, Other
    <3>2. CASE t = "can"
      BY <1>1, <1>2, <3>2 DEF Control, C, HandlerPoints
    <3> QED BY <3>1, <3>2 DEF Threads
  <2>7. C' \in HandlerPoints => notifier'
    BY <1>1, <1>2 DEF Control, HandlerPoints, C, Threads, Other
  <2>8. ~(pc'["main"] \in PushPoints /\ C' \in PushPoints)
    BY <1>2, <1>3 DEF C, Threads, Other
  <2> QED BY <2>3, <2>4, <2>5, <2>6, <2>7, <2>8 DEF Control
<1>9. Places'
  <2> HIDE DEF f
  <2> QED BY <1>1, <1>6, <1>7, BusKept, LiveKept DEF Places, Disjoint
<1> QED BY <1>8, <1>9

(* A step of the handler, or of transmit() at its end, that leaves the     *)
(* ring and the frames alone.                                              *)
LEMMA LabelStep ==
  ASSUME Typed, Control, Places, NEW t \in Threads, NEW label, Goto(t, label),
         pc[t] \notin Holding, label \notin Holding, label # "advance",
         UNCHANGED <<ring_vars, queue, wire, issued, dropped, frame, next>>,
         (C' \in HandlerPoints => notifier'),
         (C' = "disable" \/ (C' # "notify" /\ ~notifier') => OnlyMain)
  PROVE  Control' /\ Places'
<1>1. /\ pc'[t] = label /\ pc'[Other(t)] = pc[Other(t)]
      /\ Other(t) \in Threads /\ t # Other(t) /\ Threads = {t, Other(t)}
  BY Moved
<1>2. PushPoints \subseteq Holding
  BY DEF PushPoints, Holding
<1>3. Knows("main")' /\ Knows("can")'
  <2>1. Knows(t) /\ Knows(Other(t))
    BY <1>1 DEF Control, Threads
  <2>2. Knows(Other(t))'
    BY <1>1, <2>1, KnowsKept
  <2>3. Knows(t)'
    BY <1>1, <1>2 DEF Knows, PushPoints
  <2> QED BY <1>1, <2>2, <2>3 DEF Threads, Other
<1>4. MainOwn'
  BY <1>1 DEF Control, MainOwn, Threads, Other
<1>5. C' = "advance" => ~IsEmpty' /\ frame'["can"] = buffer'[tail']
  BY <1>1 DEF Control, ring_vars, IsEmpty, C, Threads, Other
<1>6. ~(pc'["main"] \in PushPoints /\ C' \in PushPoints)
  BY <1>1, <1>2 DEF C, Threads, Other
<1>7. OnlyMain' = OnlyMain
  BY RingKept DEF OnlyMain
<1>8. \A u \in Threads : Hand(u)' = Hand(u)
  BY <1>1 DEF Hand
<1>9. Places'
  BY <1>8, PlacesKept
<1> QED BY <1>3, <1>4, <1>5, <1>6, <1>7, <1>9 DEF Control

LEMMA NotifyStep ==
  ASSUME Typed, Control, Places, NEW t \in Threads, Notify(t)
  PROVE  Control' /\ Places'
<1>1. /\ pc[t] = "notify" /\ notifier' = (notifier \/ t = "can") /\ Goto(t, "idle")
      /\ UNCHANGED <<ring_vars, queue, wire, issued, dropped, frame, next>>
  BY DEF Notify
<1>2. pc'[t] = "idle" /\ pc'[Other(t)] = pc[Other(t)]
  BY <1>1, Moved
<1>3. C' \in HandlerPoints => notifier'
  BY <1>1, <1>2 DEF Control, C, HandlerPoints, Threads, Other
<1>4. C' = "disable" \/ (C' # "notify" /\ ~notifier') => OnlyMain
  BY <1>1, <1>2 DEF Control, C, Threads, Other
<1>5. "notify" \notin Holding /\ "idle" \notin Holding /\ "idle" # "advance"
  BY DEF Holding
<1> QED BY <1>1, <1>3, <1>4, <1>5, LabelStep

LEMMA CanLabelStep ==
  ASSUME Typed, Control, Places, NEW label, Goto("can", label),
         C \notin Holding, label \notin Holding, label # "advance",
         UNCHANGED <<ring_vars, queue, wire, issued, dropped, frame, next>>,
         (label \in HandlerPoints => notifier'),
         (label = "disable" \/ ~notifier' => OnlyMain)
  PROVE  Control' /\ Places'
<1>1. "can" \in Threads /\ C' = label /\ pc["can"] \notin Holding
  BY Moved DEF Threads, C
<1> QED BY <1>1, LabelStep

LEMMA ActivatedStep ==
  ASSUME Typed, Control, Places, Activated
  PROVE  Control' /\ Places'
  BY CanLabelStep DEF Activated, C, Holding

LEMMA CheckEmptyStep ==
  ASSUME Typed, Control, Places, CheckEmpty
  PROVE  Control' /\ Places'
<1>1. /\ C = "empty" /\ UNCHANGED notifier
      /\ UNCHANGED <<ring_vars, queue, wire, issued, dropped, frame, next>>
  BY DEF CheckEmpty, C
<1>2. PICK label \in {"disable", "idle"} :
        Goto("can", label) /\ (label = "disable" => IsEmpty)
  BY DEF CheckEmpty
<1>3. notifier /\ (IsEmpty => OnlyMain)
  <2>1. IsEmpty => InTheRing = {}
    BY BetweenCounts DEF Typed, TypeOK, IsEmpty, InTheRing, Ring
  <2> QED BY <1>1, <2>1 DEF Control, HandlerPoints, OnlyMain
<1> QED BY <1>1, <1>2, <1>3, CanLabelStep DEF Holding

LEMMA DisableStep ==
  ASSUME Typed, Control, Places, Disable
  PROVE  Control' /\ Places'
<1>1. OnlyMain
  BY DEF Disable, Control, C
<1> QED BY <1>1, CanLabelStep DEF Disable, C, Holding, HandlerPoints

LEMMA PopStep ==
  ASSUME Typed, Control, Places, Pop
  PROVE  Control' /\ Places'
<1>1. /\ C = "pop" /\ notifier /\ notifier' = notifier
      /\ UNCHANGED <<ring_vars, queue, wire, issued, dropped, next>>
  BY DEF Pop, C, Control, HandlerPoints
<1>2. CASE UNCHANGED frame /\ Goto("can", "empty")
  BY <1>1, <1>2, CanLabelStep DEF Holding
<1>3. CASE /\ ~IsEmpty /\ Goto("can", "advance")
           /\ frame' = [frame EXCEPT !["can"] = buffer[tail]]
  <2>1. C' = "advance" /\ pc'["main"] = pc["main"]
    BY <1>3, Moved DEF C, Threads, Other
  <2>2. frame'["can"] = buffer[tail] /\ frame'["main"] = frame["main"]
    BY <1>3 DEF Typed, TypeOK, Threads
  <2>3. Knows("main")' /\ Knows("can")'
    <3>1. Knows("main")'
      BY <1>1, <2>1, <2>2, KnowsKept DEF Control, Threads
    <3>2. Knows("can")'
      BY <2>1 DEF Knows, Holding, PushPoints, C
    <3> QED BY <3>1, <3>2
  <2>4. Control'
    BY <1>1, <1>3, <2>1, <2>2, <2>3, RingKept
    DEF Control, MainOwn, PushPoints, ring_vars, IsEmpty, OnlyMain
  <2>5. \A u \in Threads : Hand(u)' = Hand(u)
    BY <1>1, <2>1, <2>2 DEF Hand, Threads, Holding, C
  <2> QED BY <1>1, <2>4, <2>5, PlacesKept
<1> QED BY <1>2, <1>3 DEF Pop

(* From the ring to the hand; a push under way finds more room than it     *)
(* looked for.                                                             *)
LEMMA PopAdvanceStep ==
  ASSUME Typed, Control, Places, PopAdvance
  PROVE  Control' /\ Places'
<1> DEFINE f == frame["can"]
<1>1. /\ C = "advance" /\ tail' = Following(tail) /\ notifier
      /\ UNCHANGED <<buffer, head, notifier, queue, wire, issued, dropped, frame,
                     next, batch, clash>>
  BY DEF PopAdvance, C, Control, HandlerPoints
<1>2. C' = "hwrite" /\ pc'["main"] = pc["main"] /\ pc'["can"] = "hwrite"
  BY Moved DEF PopAdvance, C, Threads, Other
<1>3. tail' = Succ(tail)
  BY <1>1, SuccWraps DEF Typed, TypeOK
<1>4. /\ f \in InTheRing /\ InTheRing' = InTheRing \ {f} /\ RingDistinct'
      /\ Succ(head) # tail'
  <2>1. ~IsEmpty /\ f = buffer[tail] /\ RingDistinct
    BY <1>1 DEF Control, Places
  <2> QED BY <1>1, <1>3, <2>1, RingTake DEF Typed
<1>5. f \in Frames
  BY <1>4 DEF Places, Live, Issued
<1>6. Control'
  <2>1. Knows("main")'
    BY <1>1, <1>2, <1>4 DEF Control, Knows
  <2>2. Knows("can")'
    BY <1>1, <1>2, <1>5 DEF Knows, PushPoints
  <2> QED BY <1>1, <1>2, <1>4, <2>1, <2>2
          DEF Control, MainOwn, PushPoints, OnlyMain
<1>7. Places'
  <2>1. pc["can"] \notin Holding /\ pc'["can"] \in Holding /\ "can" \in Threads
        /\ Hand("main")' = Hand("main") /\ Other("can") = "main"
    BY <1>1, <1>2 DEF Hand, Holding, C, Threads, Other
  <2>2. f \notin InHands /\ frame'["can"] = f
    BY <1>1, <1>4 DEF Places, Disjoint
  <2>3. InHands' = InHands \cup {f} /\ Disjoint(Hand("main"), Hand("can"))'
    BY <2>1, <2>2, HandFills DEF Places
  <2> HIDE DEF f
  <2> QED BY <1>1, <1>4, <2>3, BusKept, LiveKept DEF Places, Disjoint
<1> QED BY <1>6, <1>7

LEMMA HandlerWriteStep ==
  ASSUME Typed, Control, Places, HandlerWrite
  PROVE  Control' /\ Places'
<1>1. PICK label \in {"pop", "hread"} :
        /\ Goto("can", label)
        /\ label = "pop" => queue' = Append(queue, frame["can"])
        /\ label = "hread" => UNCHANGED queue
  BY DEF HandlerWrite
<1>2. /\ C = "hwrite" /\ notifier /\ notifier' = notifier
      /\ UNCHANGED <<ring_vars, wire, issued, dropped, frame, next, clash>>
  BY DEF HandlerWrite, C, Control, HandlerPoints
<1>3. C' = label /\ pc'["main"] = pc["main"] /\ pc'["can"] = label
  BY <1>1, Moved DEF C, Threads, Other
<1>4. Control'
  <2>1. Knows("main")'
    BY <1>2, <1>3, KnowsKept DEF Control, Threads
  <2>2. Knows("can")'
    BY <1>2, <1>3 DEF Control, Knows, Holding, PushPoints, C
  <2> QED BY <1>1, <1>2, <1>3, <2>1, <2>2, RingKept
          DEF Control, MainOwn, PushPoints, ring_vars, IsEmpty, OnlyMain
<1>5. "can" \in Threads /\ pc["can"] \in Holding /\ Other("can") = "main"
  BY <1>2 DEF Holding, C, Threads, Other
<1>6. CASE label = "pop"
  BY <1>1, <1>2, <1>3, <1>4, <1>5, <1>6, WrittenPlaces DEF Holding
<1>7. CASE label = "hread"
  <2>1. \A u \in Threads : Hand(u)' = Hand(u)
    BY <1>2, <1>3, <1>5, <1>7 DEF Hand, Threads, Holding
  <2> QED BY <1>1, <1>2, <1>4, <1>7, <2>1, PlacesKept
<1> QED BY <1>6, <1>7

(* From the driver's queue to the wire.                                    *)
LEMMA CarryStep ==
  ASSUME Typed, Control, Places, Carry
  PROVE  Control' /\ Places'
<1> DEFINE g == Head(queue)
<1>1. /\ queue # <<>> /\ wire' = Append(wire, g) /\ queue' = Tail(queue)
      /\ UNCHANGED <<ring_vars, notifier, issued, dropped, pc, frame, next, batch,
                     clash>>
  BY DEF Carry
<1>2. /\ queue \in Seq(Frames \cup {None}) /\ wire \in Seq(Frames \cup {None})
      /\ g \in Frames \cup {None} /\ Distinct(queue)
  BY <1>1 DEF Typed, TypeOK, Places
<1>3. Control'
  <2>1. Knows("main")' /\ Knows("can")'
    BY <1>1, KnowsKept DEF Control, Threads
  <2> QED BY <1>1, <2>1, RingKept
          DEF Control, ring_vars, IsEmpty, C, MainOwn, OnlyMain
<1>4. Places'
  <2>1. /\ g \in Elements(queue) /\ Elements(queue)' = Elements(queue) \ {g}
        /\ Distinct(queue)'
    <3>1. /\ g \in Elements(queue)
          /\ Elements(Tail(queue)) = Elements(queue) \ {g}
          /\ Distinct(Tail(queue))
      BY <1>1, <1>2, ElementsTail
    <3> QED BY <1>1, <3>1 DEF Elements, Distinct
  <2>2. Elements(wire)' = Elements(wire) \cup {g} /\ Distinct(wire)'
    <3>1. Distinct(wire) /\ g \notin Elements(wire)
      BY <1>1, <2>1 DEF Places, Disjoint
    <3>2. /\ Elements(Append(wire, g)) = Elements(wire) \cup {g}
          /\ Distinct(Append(wire, g))
      BY <1>2, <3>1, ElementsAppend
    <3> QED BY <1>1, <3>2 DEF Elements, Distinct
  <2>3. InHands' = InHands /\ Hand("main")' = Hand("main") /\ Hand("can")' = Hand("can")
    BY <1>1 DEF InHands, Hand
  <2> HIDE DEF g
  <2> QED BY <1>1, <2>1, <2>2, <2>3, RingKept, LiveKept DEF Places, Disjoint
<1> QED BY <1>3, <1>4
-----------------------------------------------------------------------------
LEMMA TypedInit == Init => Typed
<1> SUFFICES ASSUME Init PROVE Typed
  OBVIOUS
<1>1. /\ buffer \in [Slots -> Frames \cup {None}]
      /\ 0 \in Slots /\ next \in [Threads -> Slots]
  BY TransmitAssumption DEF Init, Slots
<1>2. /\ queue \in Seq(Frames \cup {None}) /\ Len(queue) = 0
      /\ wire \in Seq(Frames \cup {None})
  BY DEF Init
<1>3. \A t \in Threads : issued[t] \in 0..NumFrames(t)
  BY TransmitAssumption DEF Init, NumFrames
<1>4. frame \in [Threads -> Frames \cup {None}]
  BY DEF Init
<1>5. pc["main"] = "idle" /\ pc["can"] = "idle" /\ DOMAIN pc = Threads
      /\ DOMAIN issued = Threads
  BY DEF Init, Threads
<1>6. /\ head \in Slots /\ tail \in Slots /\ notifier \in BOOLEAN /\ dropped = {}
      /\ clash \in BOOLEAN
  BY <1>1 DEF Init
<1>7. batch \in 0..Batch /\ Len(queue) <= QueueLen
  <2>1. batch = 0 BY DEF Init
  <2> QED BY <1>2, <2>1, TransmitAssumption
<1>8. TypeOK
  BY <1>1, <1>2, <1>3, <1>4, <1>5, <1>6, <1>7 DEF TypeOK
<1> QED BY <1>5, <1>8 DEF Typed, C, AfterPop

LEMMA ApartInit == Init => Control /\ Places
<1> SUFFICES ASSUME Init PROVE Control /\ Places
  OBVIOUS
<1>1. pc["main"] = "idle" /\ pc["can"] = "idle" /\ head = 0 /\ tail = 0
  BY DEF Init, Threads
<1>2. InTheRing = {} /\ RingDistinct
  <2>1. 0 \in Slots
    BY TransmitAssumption DEF Slots
  <2>2. Between(head, tail) = 0
    BY <1>1, <2>1, BetweenCounts
  <2>3. Ring = {}
    BY <2>2 DEF Ring
  <2> QED BY <2>3 DEF InTheRing, RingDistinct
<1>3. Control
  BY <1>1, <1>2 DEF Control, Knows, C, MainOwn, OnlyMain, Holding, PushPoints,
                    HandlerPoints
<1>4. Issued = {}
  <2>1. ASSUME NEW t \in Threads, NEW n \in 1..NumFrames(t)
        PROVE  ~(n <= issued[t])
    BY TransmitAssumption DEF Init, NumFrames
  <2> QED BY <2>1 DEF Issued, Frames
<1>5. Elements(queue) = {} /\ Elements(wire) = {} /\ Distinct(queue) /\ Distinct(wire)
      /\ dropped = {}
  BY DEF Init, Elements, Distinct
<1>6. Hand("main") = {} /\ Hand("can") = {} /\ InHands = {}
  BY <1>1 DEF Hand, InHands, Holding
<1>7. Places
  BY <1>2, <1>4, <1>5, <1>6 DEF Places, Disjoint, Live
<1> QED BY <1>3, <1>7

LEMMA ApartStep ==
  ASSUME Typed, Control, Places, [Next]_vars, ~clash'
  PROVE  /\ Control' /\ Places'
         /\ UNCHANGED dropped \/ Succ(head) = tail
<1>1. ASSUME NEW t \in Threads, Call(t) \/ Continue(t)
      PROVE  Control' /\ Places' /\ (UNCHANGED dropped \/ Succ(head) = tail)
  <2>1. CASE Call(t) BY <2>1, CallStep DEF Call
  <2>2. CASE Write(t) BY <2>2, WriteStep DEF Write
  <2>3. CASE PushRead(t, "read", "check") BY <2>3, PushReadStep DEF PushRead
  <2>4. CASE PushCheck(t, "check", "store", "idle") BY <2>4, PushCheckStep
  <2>5. CASE PushStore(t, "store", "publish") BY <2>5, PushStoreStep DEF PushStore
  <2>6. CASE PushPublish(t, "publish", "notify")
    BY <2>6, PushPublishStep DEF PushPublish
  <2>7. CASE Notify(t) BY <2>7, NotifyStep DEF Notify
  <2> QED BY <1>1, <2>1, <2>2, <2>3, <2>4, <2>5, <2>6, <2>7 DEF Continue
<1>2. CASE Handler
  <2>1. CASE Activated BY <2>1, ActivatedStep DEF Activated
  <2>2. CASE Pop BY <2>2, PopStep DEF Pop
  <2>3. CASE PopAdvance BY <2>3, PopAdvanceStep DEF PopAdvance
  <2>4. CASE HandlerWrite BY <2>4, HandlerWriteStep DEF HandlerWrite
  <2>5. CASE PushRead("can", "hread", "hcheck")
    BY <2>5, PushReadStep DEF PushRead, Threads
  <2>6. CASE PushCheck("can", "hcheck", "hstore", "empty")
    BY <2>6, PushCheckStep DEF Threads
  <2>7. CASE PushStore("can", "hstore", "hpublish")
    BY <2>7, PushStoreStep DEF PushStore, Threads
  <2>8. CASE PushPublish("can", "hpublish", "empty")
    BY <2>8, PushPublishStep DEF PushPublish, Threads
  <2>9. CASE CheckEmpty BY <2>9, CheckEmptyStep DEF CheckEmpty
  <2>10. CASE Disable BY <2>10, DisableStep DEF Disable
  <2> QED BY <1>2, <2>1, <2>2, <2>3, <2>4, <2>5, <2>6, <2>7, <2>8, <2>9, <2>10
          DEF Handler
<1>3. CASE Carry
  BY <1>3, CarryStep DEF Carry
<1>4. CASE UNCHANGED vars
  <2>1. /\ UNCHANGED ring_vars
        /\ UNCHANGED <<notifier, queue, wire, issued, dropped, pc, frame, next>>
    BY <1>4 DEF vars, ring_vars
  <2>2. Control'
    <3>1. Knows("main")' /\ Knows("can")'
      BY <2>1, KnowsKept DEF Control, Threads
    <3> QED BY <2>1, <3>1, RingKept
            DEF ring_vars, Control, C, IsEmpty, MainOwn, OnlyMain
  <2>3. Places'
    <3>1. \A t \in Threads : Hand(t)' = Hand(t)
      BY <2>1 DEF Hand
    <3> QED BY <2>1, <3>1, PlacesKept
  <2> QED BY <2>1, <2>2, <2>3
<1> QED BY <1>1, <1>2, <1>3, <1>4 DEF Next

(* Once two pushes have overlapped the step is remembered.                 *)
LEMMA ClashStays == ASSUME clash, [Next]_vars PROVE clash'
  BY DEF Next, Call, Continue, Write, PushRead, PushCheck, PushStore, PushPublish,
         Notify, Handler, Activated, Pop, PopAdvance, HandlerWrite, CheckEmpty,
         Disable, Carry, vars

LEMMA StepInv == IInv /\ [Next]_vars => IInv'
<1> SUFFICES ASSUME IInv, [Next]_vars PROVE IInv'
  OBVIOUS
<1>1. Typed'
  BY TypedStep DEF IInv
<1>2. CASE clash'
  BY <1>1, <1>2 DEF IInv
<1>3. CASE ~clash'
  <2>1. Control /\ Places
    BY <1>3, ClashStays DEF IInv
  <2> QED BY <1>1, <1>3, <2>1, ApartStep DEF IInv
<1> QED BY <1>2, <1>3

LEMMA Invariance == Spec => []IInv
<1>1. Init => IInv
  BY TypedInit, ApartInit DEF IInv
<1> QED BY <1>1, StepInv, PTL DEF Spec
-----------------------------------------------------------------------------
(***************************************************************************)
(* The theorems.                                                           *)
(***************************************************************************)

(* The indices of the ring stay inside it, only frames and zeroed slots    *)
(* are in it, in the driver's queue and on the bus, and the queue is never *)
(* overfilled, whatever the pushes of the two threads do to each other.    *)
THEOREM RingTypeCorrect == Spec => []TypeOK
<1>1. IInv => TypeOK
  BY DEF IInv, Typed
<1> QED BY <1>1, Invariance, PTL

(* The number of places of each kind a frame is in.                        *)
LEMMA OneOf ==
  ASSUME NEW S, \A x, y \in S : x = y
  PROVE  Cardinality(S) = IF S = {} THEN 0 ELSE 1
<1>1. CASE S = {}
  BY <1>1, FS_EmptySet
<1>2. CASE S # {}
  <2>1. PICK x : x \in S
    BY <1>2
  <2>2. S = {x}
    BY <2>1
  <2> QED BY <1>2, <2>2, FS_Singleton
<1> QED BY <1>1, <1>2

LEMMA CopiesCounted ==
  ASSUME Typed, Control, Places, NEW f \in Issued
  PROVE  Copies(f) = IF f \in dropped THEN 0 ELSE 1
<1>1. Count = Between(head, tail)
  BY RingTyped, BetweenCounts DEF Typed, Count
<1>2. Cardinality(InHand(f)) = IF f \in InHands THEN 1 ELSE 0
  <2>1. \A t, u \in InHand(f) : t = u
    BY DEF InHand, Threads, Places, Disjoint, Hand
  <2>2. InHand(f) # {} <=> f \in InHands
    BY DEF InHand, InHands, Hand, Threads
  <2> QED BY <2>1, <2>2, OneOf
<1>3. Cardinality(InRing(f)) = IF f \in InTheRing THEN 1 ELSE 0
  <2>1. \A k \in Ring : Slot(k) = (tail + k) % RingSize
    BY RingTyped, SlotsOfRing DEF Ring, Slot, Typed
  <2>2. InRing(f) = {k \in Ring : buffer[Slot(k)] = f}
    BY <1>1, <2>1 DEF InRing, Ring
  <2>3. \A k, l \in InRing(f) : k = l
    BY <2>2 DEF Places, RingDistinct
  <2>4. InRing(f) # {} <=> f \in InTheRing
    BY <2>2 DEF InTheRing
  <2> QED BY <2>3, <2>4, OneOf
<1>4. Cardinality(InQueue(f)) = IF f \in Elements(queue) THEN 1 ELSE 0
  <2>1. \A i, j \in InQueue(f) : i = j
    BY DEF InQueue, Places, Distinct
  <2>2. InQueue(f) # {} <=> f \in Elements(queue)
    BY DEF InQueue, Elements
  <2> QED BY <2>1, <2>2, OneOf
<1>5. Cardinality(OnWire(f)) = IF f \in Elements(wire) THEN 1 ELSE 0
  <2>1. \A i, j \in OnWire(f) : i = j
    BY DEF OnWire, Places, Distinct
  <2>2. OnWire(f) # {} <=> f \in Elements(wire)
    BY DEF OnWire, Elements
  <2> QED BY <2>1, <2>2, OneOf
<1>6. \/ /\ f \in dropped
         /\ f \notin InHands /\ f \notin InTheRing
         /\ f \notin Elements(queue) /\ f \notin Elements(wire)
      \/ /\ f \notin dropped
         /\ \/ /\ f \in InHands /\ f \notin InTheRing
               /\ f \notin Elements(queue) /\ f \notin Elements(wire)
            \/ /\ f \notin InHands /\ f \in InTheRing
               /\ f \notin Elements(queue) /\ f \notin Elements(wire)
            \/ /\ f \notin InHands /\ f \notin InTheRing
               /\ f \in Elements(queue) /\ f \notin Elements(wire)
            \/ /\ f \notin InHands /\ f \notin InTheRing
               /\ f \notin Elements(queue) /\ f \in Elements(wire)
  BY DEF Places, Disjoint, Live
<1> QED BY <1>2, <1>3, <1>4, <1>5, <1>6 DEF Copies

(* Wherever the two threads stand in transmit(), push, pop or the push     *)
(* back of a frame the driver refused, and until two pushes overlap, a     *)
(* frame handed to transmit() is in one place and in one only, unless a    *)
(* full ring cost it: nothing is sent twice and nothing vanishes.          *)
THEOREM TransmitOnceApart == Spec => []OnceApart
<1>1. IInv => OnceApart
  BY CopiesCounted DEF IInv, OnceApart, ExactlyOnce
<1> QED BY <1>1, Invariance, PTL

(* Back in its event loop with the write notifier off, the CAN thread has  *)
(* left none of its frames in the ring: the main thread put them there.    *)
THEOREM TransmitWoken == Spec => []Woken
<1>1. IInv => Woken
  <2> SUFFICES ASSUME Typed, Control, C = "idle", ~notifier,
                      NEW k \in 0..(Count - 1)
               PROVE  buffer[(tail + k) % RingSize][1] = "main"
    BY DEF IInv, Woken, C
  <2>1. k \in Ring /\ Slot(k) = (tail + k) % RingSize
    BY RingTyped, BetweenCounts, SlotsOfRing DEF Typed, Count, Ring, Slot
  <2>2. buffer[Slot(k)] \in InTheRing
    BY <2>1 DEF InTheRing
  <2> QED BY <2>1, <2>2 DEF Control, OnlyMain
<1> QED BY <1>1, Invariance, PTL

(* A thread gives a frame up only in a ring that is full at that moment,   *)
(* although it judges by a head it read before and a tail that the other   *)
(* thread moves; until two pushes overlap.                                 *)
THEOREM TransmitOnlyFull == Spec => OnlyFull
<1>1. IInv /\ [Next]_vars
        => [UNCHANGED dropped \/ clash \/ Count = RingSize - 1]_vars
  <2> SUFFICES ASSUME Typed, Control, Places, [Next]_vars, ~clash,
                      dropped' # dropped
               PROVE  Count = RingSize - 1
    BY DEF IInv, vars
  <2>1. ~clash'
    BY DEF Next, Call, Continue, Write, PushRead, PushCheck, PushStore,
           PushPublish, Notify, Handler, Activated, Pop, PopAdvance,
           HandlerWrite, CheckEmpty, Disable, Carry, vars
  <2>2. Succ(head) = tail
    BY <2>1, ApartStep
  <2> QED BY <2>2, FullCount, BetweenCounts DEF Typed, TypeOK, Count
<1> QED BY <1>1, Invariance, PTL DEF Spec, OnlyFull
=============================================================================
