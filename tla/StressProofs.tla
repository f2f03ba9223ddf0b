------------------------------ MODULE StressProofs ------------------------------
(***************************************************************************)
(* What is proved of the client's CAN channel while a stress test runs on  *)
(* it: the three views of "working" (device, signals, label) agree as far  *)
(* as the program means them to, the ramp stays in its bounds, and the     *)
(* loss that is shown is made of requests that have no answer the monitor  *)
(* could have counted.                                                     *)
(*                                                                         *)
(* The last is about sums over the windows.  Sum is a recursive function;  *)
(* what it gives is proved by induction, from the least number for which a *)
(* claim fails (NatLessThanWellFounded and WFMin of the library).  The     *)
(* invariant lays marks along a sequence instead of summing it: a sequence *)
(* of numbers, each one apart from the one before by what the element      *)
(* between them weighs.  Append adds a mark and Tail takes one away.       *)
(***************************************************************************)
EXTENDS StressMonitor, SequenceTheorems, WellFoundedInduction, TLAPS

(* The two parts of the channel's type: what is a truth value, or follows  *)
(* one, and what is a number or a sequence.                                *)
Views ==
  /\ adapter \in BOOLEAN /\ reconnectTimer \in BOOLEAN /\ hears \in BOOLEAN
  /\ device \in {"none", "failed", "up"}
  /\ device = "failed" => reconnectTimer
  /\ device = "up" => adapter
  /\ label \in {"none", "initializing", "ready", "failed"}

Queues ==
  /\ calls \in Seq({"init", "gui", "stress"}) /\ bus \in Seq({"gui", "stress"})
  /\ requests \in 0..MaxRequests /\ inits \in 0..MaxInits /\ faults \in 0..MaxFaults

LEMMA ChannelParts == ChannelTypeOK <=> Views /\ Queues
BY DEF ChannelTypeOK, Views, Queues, Works

(* Device errors, repairs and inits keep this much: a device that failed   *)
(* has its reconnect timer, and none works without an adapter.             *)
LEMMA ManageStep ==
  ASSUME Views, Queues, Manage
  PROVE  Views' /\ Queues'
<1> USE DEF Views, Queues
<1>1. CASE ConnectCan
  <2>1. Views'
    BY <1>1, Zenon DEF ConnectCan
  <2>2. Queues'
    BY <1>1, ChannelAssumption DEF ConnectCan
  <2> QED BY <2>1, <2>2
<1>2. CASE init
  <2>1. Views'
    BY <1>2, Zenon DEF init, InitDevice
  <2>2. Queues'
    BY <1>2 DEF init
  <2> QED BY <2>1, <2>2
<1>3. CASE tryReconnect
  <2>1. Views'
    <3>1. CASE adapter
      BY <1>3, <3>1, Zenon DEF tryReconnect, Repair, InitDevice
    <3>2. CASE ~adapter
      <4>1. device' = "failed"
        BY <1>3, <3>2 DEF tryReconnect, Repair, InitDevice
      <4>2. reconnectTimer' = TRUE
        BY <1>3, <3>2, Zenon DEF tryReconnect, Repair, InitDevice
      <4>3. adapter' = adapter /\ hears' = hears /\ label' = label
        BY <1>3 DEF tryReconnect, Repair
      <4>4. device' # "up"
        BY <4>1
      <4> QED BY <4>1, <4>2, <4>3, <4>4, Zenon
    <3> QED BY <3>1, <3>2
  <2>2. Queues'
    BY <1>3 DEF tryReconnect
  <2> QED BY <2>1, <2>2
<1>4. CASE DeviceError
  <2>1. Views'
    <3>1. reconnectTimer' = TRUE /\ UNCHANGED <<hears, label>>
      BY <1>4 DEF DeviceError, errorOccurred
    <3>2. CASE adapter' = FALSE /\ device' = "failed"
      <4>1. device' # "up"
        BY <3>2
      <4> QED BY <3>1, <3>2, <4>1, Zenon
    <3>3. CASE UNCHANGED <<adapter, device>>
      BY <3>1, <3>3, Zenon
    <3> QED BY <1>4, <3>2, <3>3 DEF DeviceError
  <2>2. Queues'
    BY <1>4, ChannelAssumption DEF DeviceError
  <2> QED BY <2>1, <2>2
<1>5. CASE PlugIn
  BY <1>5 DEF PlugIn
<1> QED BY <1>1, <1>2, <1>3, <1>4, <1>5 DEF Manage

(* The steps that only move requests and answers.                          *)
Traffic ==
  \/ GuiRequest \/ onSendFrameTimeout
  \/ Send \/ Answer \/ LoseAnswer

LEMMA TrafficStep ==
  ASSUME Views, Queues, Traffic
  PROVE  Views' /\ Queues'
<1> USE DEF Views, Queues
<1>1. CASE GuiRequest
  BY <1>1, ChannelAssumption DEF GuiRequest
<1>2. CASE onSendFrameTimeout
  BY <1>2, ChannelAssumption DEF onSendFrameTimeout
<1>3. CASE Send
  BY <1>3 DEF Send
<1>4. CASE Answer
  BY <1>4 DEF Answer
<1>5. CASE LoseAnswer
  BY <1>5 DEF LoseAnswer
<1> QED BY <1>1, <1>2, <1>3, <1>4, <1>5 DEF Traffic

(* The steps of the monitor leave the channel alone; the others are the    *)
(* channel's own.                                                          *)
LEMMA ChannelStep ==
  ASSUME [MNext]_stress_vars
  PROVE  Manage \/ Traffic \/ UNCHANGED channel_vars
<1> USE DEF Traffic
<1>1. CASE SendAndTell \/ AnswerAndTell
  BY <1>1 DEF SendAndTell, AnswerAndTell
<1>2. CASE start \/ stop \/ onPressureIncreaseTimeout \/ Count \/ onTimerTimeout
  BY <1>2 DEF start, stop, onPressureIncreaseTimeout, Count, onTimerTimeout
<1>3. CASE UNCHANGED stress_vars
  BY <1>3 DEF stress_vars
<1> QED BY <1>1, <1>2, <1>3 DEF MNext

LEMMA QueuesStep ==
  ASSUME Views, Queues, [MNext]_stress_vars
  PROVE  Views' /\ Queues'
<1>1. CASE UNCHANGED channel_vars
  BY <1>1 DEF Views, Queues, channel_vars
<1> QED BY <1>1, ManageStep, TrafficStep, ChannelStep

(* Whatever fails, is repaired or initialised again, and whatever a stress *)
(* test adds to it: the state of the channel is well typed, a device that  *)
(* failed has its reconnect timer running (can_interface.cpp:78-94), and   *)
(* one that works has an adapter.                                          *)
THEOREM ChannelTypeCorrect == MSpec => []ChannelTypeOK
<1>1. MInit => Views /\ Queues
  <2> SUFFICES ASSUME MInit
               PROVE  Views /\ Queues
    OBVIOUS
  <2>1. Views
    BY Zenon DEF MInit, Init, Views
  <2>2. Queues
    BY ChannelAssumption DEF MInit, Init, Queues
  <2> QED BY <2>1, <2>2
<1>2. Views /\ Queues /\ [MNext]_stress_vars => Views' /\ Queues'
  BY QueuesStep
<1> QED BY <1>1, <1>2, ChannelParts, PTL DEF MSpec

(* While the label says "ready" an answer that is received is heard, and   *)
(* while it says "failed" none is, however many inits and device errors    *)
(* there were: only init changes the signals, and it changes the label     *)
(* with them (can_worker.cpp:21-38).                                       *)
THEOREM LabelTellsWhatIsHeard == MSpec => []ReadyHears
<1>1. MInit => ReadyHears
  BY DEF MInit, Init, ReadyHears, GuiFree
<1>2. ReadyHears /\ [MNext]_stress_vars => ReadyHears'
  <2> SUFFICES ASSUME ReadyHears, [MNext]_stress_vars
               PROVE  ReadyHears'
    OBVIOUS
  <2> USE DEF ReadyHears, GuiFree
  <2>1. CASE ConnectCan
    BY <2>1 DEF ConnectCan
  <2>2. CASE init
    BY <2>2 DEF init
  <2>3. CASE tryReconnect \/ DeviceError \/ PlugIn
    BY <2>3 DEF tryReconnect, Repair, DeviceError, PlugIn
  <2>4. CASE Traffic
    BY <2>4 DEF Traffic, GuiRequest, onSendFrameTimeout, Send, Answer, LoseAnswer
  <2>5. CASE UNCHANGED channel_vars
    BY <2>5 DEF channel_vars
  <2> QED BY <2>1, <2>2, <2>3, <2>4, <2>5, ChannelStep DEF Manage
<1> QED BY <1>1, <1>2, PTL DEF MSpec

(* The ramp runs only while the test does and stays less than a step above *)
(* the maximum.                                                            *)
RampRuns ==
  /\ running \in BOOLEAN /\ pressureTimer \in BOOLEAN
  /\ pressureTimer => running

RampInBounds == m_currentFreq \in StartFreq..(MaxFreq + StepFreq - 1)

LEMMA RampSteps ==
  ASSUME [MNext]_stress_vars
  PROVE  \/ start \/ stop \/ onPressureIncreaseTimeout
         \/ UNCHANGED timers
BY DEF MNext, SendAndTell, AnswerAndTell, onSendFrameTimeout, Count,
       onTimerTimeout, timers, monitor_vars, stress_vars

(* m_pressureTimer raises the frequency until it is not below the maximum  *)
(* (stresstestmonitor.cpp), and stops with the test: however tests are     *)
(* started and stopped, the ramp stays less than a step above the maximum  *)
(* and does not outlive its test.                                          *)
THEOREM RampStaysInBounds == MSpec => [](RampRuns /\ RampInBounds)
<1>1. MInit => RampRuns /\ RampInBounds
  <2> SUFFICES ASSUME MInit
               PROVE  RampRuns /\ RampInBounds
    OBVIOUS
  <2>1. RampRuns
    BY Zenon DEF MInit, RampRuns
  <2>2. RampInBounds
    BY MonitorAssumption DEF MInit, RampInBounds
  <2> QED BY <2>1, <2>2
<1>2. RampRuns /\ RampInBounds /\ [MNext]_stress_vars => RampRuns' /\ RampInBounds'
  <2> SUFFICES ASSUME RampRuns, RampInBounds, [MNext]_stress_vars
               PROVE  RampRuns' /\ RampInBounds'
    OBVIOUS
  <2>1. CASE start
    <3>1. RampRuns'
      BY <2>1, Zenon DEF start, RampRuns
    <3>2. RampInBounds'
      BY <2>1, MonitorAssumption DEF start, RampInBounds
    <3> QED BY <3>1, <3>2
  <2>2. CASE stop
    <3>1. RampRuns'
      BY <2>2, Zenon DEF stop, RampRuns
    <3>2. RampInBounds'
      BY <2>2 DEF stop, RampInBounds
    <3> QED BY <3>1, <3>2
  <2>3. CASE onPressureIncreaseTimeout
    <3>1. RampRuns'
      BY <2>3, Zenon DEF onPressureIncreaseTimeout, RampRuns
    <3>2. \/ m_currentFreq < MaxFreq /\ m_currentFreq' = m_currentFreq + StepFreq
          \/ m_currentFreq' = m_currentFreq
      BY <2>3, Zenon DEF onPressureIncreaseTimeout, BelowMax, Raised
    <3>3. RampInBounds'
      BY <3>2, MonitorAssumption DEF RampInBounds
    <3> QED BY <3>1, <3>3
  <2>4. CASE UNCHANGED timers
    BY <2>4 DEF timers, RampRuns, RampInBounds
  <2> QED BY <2>1, <2>2, <2>3, <2>4, RampSteps
<1> QED BY <1>1, <1>2, PTL DEF MSpec
-----------------------------------------------------------------------------
LEMMA LeastOf ==
  ASSUME NEW R, NEW S, IsWellFoundedOn(R, S), NEW T, T \subseteq S, T # {}
  PROVE  \E x \in T : \A y \in T : ~ (<<y, x>> \in R)
BY WFMin

LEMMA NatOrder ==
  \E R : IsWellFoundedOn(R, Nat) /\ \A x, y \in Nat : <<y, x>> \in R <=> y < x
<1>1. IsWellFoundedOn(OpToRel(<, Nat), Nat)
  BY NatLessThanWellFounded
<1>2. \A x, y \in Nat : <<y, x>> \in OpToRel(<, Nat) <=> y < x
  BY DEF OpToRel
<1> QED BY <1>1, <1>2

LEMMA Induct ==
  ASSUME NEW S, 0 \in S, \A n \in Nat : n \in S => n + 1 \in S
  PROVE  \A n \in Nat : n \in S
<1> SUFFICES ASSUME Nat \ S # {} PROVE FALSE
  OBVIOUS
<1>1. PICK R : IsWellFoundedOn(R, Nat) /\ \A x, y \in Nat : <<y, x>> \in R <=> y < x
  BY NatOrder
<1>2. PICK x \in Nat \ S : \A y \in Nat \ S : ~ (<<y, x>> \in R)
  BY <1>1, LeastOf
<1>3. \A y \in Nat : y < x => y \in S
  BY <1>1, <1>2
<1>4. x # 0 /\ x - 1 \in Nat /\ x - 1 < x
  BY <1>2
<1>5. x - 1 \in S
  BY <1>3, <1>4
<1>6. (x - 1) + 1 \in S
  BY <1>4, <1>5
<1> QED BY <1>2, <1>6

(* f is the running sum of q.                                              *)
Sums(f, n, q) == f[0] = 0 /\ \A i \in 1..n : f[i] = f[i - 1] + q[i]

LEMMA SumsExist ==
  ASSUME NEW q \in Seq(Int)
  PROVE  \E f \in [0..Len(q) -> Int] : Sums(f, Len(q), q)
<1>0. PICK n \in Nat : n = Len(q)
  BY LenProperties
<1>1. \A i \in 1..n : q[i] \in Int
  BY <1>0, ElementOfSeq
<1> DEFINE N == {m \in Nat : m <= n => \E f \in [0..m -> Int] : Sums(f, m, q)}
<1>2. 0 \in N
  <2> DEFINE g == [i \in 0..0 |-> 0]
  <2>1. g \in [0..0 -> Int] /\ g[0] = 0 /\ \A i \in 1..0 : FALSE
    OBVIOUS
  <2> HIDE DEF g
  <2>2. Sums(g, 0, q)
    BY <2>1 DEF Sums
  <2> QED BY <2>1, <2>2
<1>3. ASSUME NEW m \in Nat, m \in N PROVE m + 1 \in N
  <2> SUFFICES ASSUME m + 1 <= n PROVE \E f \in [0..(m + 1) -> Int] : Sums(f, m + 1, q)
    OBVIOUS
  <2>1. PICK f \in [0..m -> Int] : f[0] = 0 /\ \A i \in 1..m : f[i] = f[i - 1] + q[i]
    BY <1>3 DEF Sums
  <2> DEFINE g == [i \in 0..(m + 1) |-> IF i = m + 1 THEN f[m] + q[m + 1] ELSE f[i]]
  <2>2. f[m] \in Int /\ q[m + 1] \in Int
    BY <1>1
  <2>3. g \in [0..(m + 1) -> Int]
    BY <2>2
  <2>4. ASSUME NEW i \in 1..(m + 1) PROVE g[i] = g[i - 1] + q[i]
    <3>1. CASE i = m + 1
      BY <3>1
    <3>2. CASE i # m + 1
      <4>1. i \in 1..m /\ i - 1 \in 0..m
        BY <3>2
      <4>2. f[i] = f[i - 1] + q[i]
        BY <2>1, <4>1
      <4> QED BY <4>1, <4>2, <3>2
    <3> QED BY <3>1, <3>2
  <2>5. g[0] = 0
    BY <2>1
  <2> HIDE DEF g
  <2>6. Sums(g, m + 1, q)
    BY <2>4, <2>5 DEF Sums
  <2> QED BY <2>3, <2>6
<1>4. n \in N
  <2> HIDE DEF N
  <2> QED BY <1>2, <1>3, Induct
<1> QED BY <1>0, <1>4

LEMMA SumIs ==
  ASSUME NEW q \in Seq(Int)
  PROVE  \E f \in [0..Len(q) -> Int] : Sums(f, Len(q), q) /\ Sum(q) = f[Len(q)]
<1> DEFINE IsSum(f) == f = [i \in 0..Len(q) |-> IF i = 0 THEN 0 ELSE f[i - 1] + q[i]]
<1>0. PICK n \in Nat : n = Len(q)
  BY LenProperties
<1>1. PICK f \in [0..n -> Int] : Sums(f, n, q)
  BY <1>0, SumsExist
<1>2. \A i \in 0..n : f[i] = IF i = 0 THEN 0 ELSE f[i - 1] + q[i]
  BY <1>1 DEF Sums
<1>3. f = [i \in 0..n |-> IF i = 0 THEN 0 ELSE f[i - 1] + q[i]]
  BY <1>2
<1>4. IsSum(f)
  BY <1>0, <1>3
<1>5. PICK g : g = (CHOOSE h : IsSum(h))
  OBVIOUS
<1>6. IsSum(g)
  BY <1>4, <1>5
<1>7. Sum(q) = g[n]
  BY <1>0, <1>5 DEF Sum
<1>8. \A i \in 0..n : g[i] = IF i = 0 THEN 0 ELSE g[i - 1] + q[i]
  BY <1>0, <1>6
<1> DEFINE N == {m \in Nat : m <= n => g[m] = f[m]}
<1>9. 0 \in N
  BY <1>2, <1>8
<1>10. ASSUME NEW m \in Nat, m \in N PROVE m + 1 \in N
  <2> SUFFICES ASSUME m + 1 <= n PROVE g[m + 1] = f[m + 1]
    OBVIOUS
  <2>1. m + 1 \in 0..n /\ m + 1 # 0 /\ (m + 1) - 1 = m
    OBVIOUS
  <2>2. g[m] = f[m]
    BY <1>10
  <2> QED BY <2>1, <2>2, <1>2, <1>8
<1>11. n \in N
  <2> HIDE DEF N
  <2> QED BY <1>9, <1>10, Induct
<1> QED BY <1>0, <1>1, <1>7, <1>11

(* What rises in each step by at least -a has fallen by the sum at most.   *)
LEMMA SumBounds ==
  ASSUME NEW a \in Seq(Int), NEW c \in Seq(Int), Len(c) = Len(a) + 1,
         \A i \in 1..Len(a) : c[i + 1] >= c[i] - a[i]
  PROVE  Sum(a) \in Int /\ c[Len(a) + 1] >= c[1] - Sum(a)
<1>0. PICK n \in Nat : n = Len(a)
  BY LenProperties
<1>1. PICK f \in [0..n -> Int] : Sums(f, n, a) /\ Sum(a) = f[n]
  BY <1>0, SumIs
<1>2. \A i \in 1..n : a[i] \in Int
  BY <1>0, ElementOfSeq
<1>3. \A i \in 1..(n + 1) : c[i] \in Int
  BY <1>0, ElementOfSeq
<1> DEFINE N == {m \in Nat : m <= n => c[m + 1] >= c[1] - f[m]}
<1>4. 0 \in N
  BY <1>1, <1>3 DEF Sums
<1>5. ASSUME NEW m \in Nat, m \in N PROVE m + 1 \in N
  <2> SUFFICES ASSUME m + 1 <= n PROVE c[(m + 1) + 1] >= c[1] - f[m + 1]
    OBVIOUS
  <2>1. m + 1 \in 1..n /\ (m + 1) - 1 = m
    OBVIOUS
  <2>2. f[m + 1] = f[m] + a[m + 1] /\ f[m] \in Int
    BY <2>1, <1>1 DEF Sums
  <2>3. c[(m + 1) + 1] >= c[m + 1] - a[m + 1]
    BY <2>1, <1>0
  <2>4. (m + 1) + 1 \in 1..(n + 1) /\ m + 1 \in 1..(n + 1) /\ 1 \in 1..(n + 1)
    BY <2>1
  <2>5. PICK x \in Int, y \in Int, z \in Int :
          x = c[(m + 1) + 1] /\ y = c[m + 1] /\ z = c[1]
    BY <2>4, <1>3
  <2>6. PICK u \in Int, v \in Int : u = a[m + 1] /\ v = f[m]
    BY <2>1, <2>2, <1>2
  <2>7. x >= y - u /\ y >= z - v
    BY <2>3, <2>5, <2>6, <1>5
  <2>8. x >= z - (v + u)
    BY <2>7
  <2> QED BY <2>2, <2>5, <2>6, <2>8
<1>6. n \in N
  <2> HIDE DEF N
  <2> QED BY <1>4, <1>5, Induct
<1> QED BY <1>0, <1>1, <1>6

(* The same of the difference of two sums.                                 *)
LEMMA SumDifference ==
  ASSUME NEW a \in Seq(Int), NEW b \in Seq(Int), NEW c \in Seq(Int),
         Len(b) = Len(a), Len(c) = Len(a) + 1,
         \A i \in 1..Len(a) : c[i + 1] = c[i] + (a[i] - b[i])
  PROVE  Sum(a) \in Int /\ Sum(b) \in Int /\ Sum(a) - Sum(b) = c[Len(a) + 1] - c[1]
<1>0. PICK n \in Nat : n = Len(a)
  BY LenProperties
<1>1. PICK f \in [0..n -> Int] : Sums(f, n, a) /\ Sum(a) = f[n]
  BY <1>0, SumIs
<1>2. PICK g \in [0..n -> Int] : Sums(g, n, b) /\ Sum(b) = g[n]
  BY <1>0, SumIs
<1>3. \A i \in 1..n : a[i] \in Int /\ b[i] \in Int
  BY <1>0, ElementOfSeq
<1>4. \A i \in 1..(n + 1) : c[i] \in Int
  BY <1>0, ElementOfSeq
<1> DEFINE N == {m \in Nat : m <= n => f[m] - g[m] = c[m + 1] - c[1]}
<1>5. 0 \in N
  BY <1>1, <1>2, <1>4 DEF Sums
<1>6. ASSUME NEW m \in Nat, m \in N PROVE m + 1 \in N
  <2> SUFFICES ASSUME m + 1 <= n PROVE f[m + 1] - g[m + 1] = c[(m + 1) + 1] - c[1]
    OBVIOUS
  <2>1. m + 1 \in 1..n /\ (m + 1) - 1 = m
    OBVIOUS
  <2>2. /\ f[m + 1] = f[m] + a[m + 1] /\ f[m] \in Int
        /\ g[m + 1] = g[m] + b[m + 1] /\ g[m] \in Int
    BY <2>1, <1>1, <1>2 DEF Sums
  <2>3. c[(m + 1) + 1] = c[m + 1] + (a[m + 1] - b[m + 1])
    BY <2>1, <1>0
  <2>4. (m + 1) + 1 \in 1..(n + 1) /\ m + 1 \in 1..(n + 1) /\ 1 \in 1..(n + 1)
    BY <2>1
  <2>5. PICK x \in Int, y \in Int, z \in Int :
          x = c[(m + 1) + 1] /\ y = c[m + 1] /\ z = c[1]
    BY <2>4, <1>4
  <2>6. PICK u \in Int, v \in Int, r \in Int, s \in Int :
          u = a[m + 1] /\ v = f[m] /\ r = b[m + 1] /\ s = g[m]
    BY <2>1, <2>2, <1>3
  <2>7. x = y + (u - r) /\ v - s = y - z
    BY <2>3, <2>5, <2>6, <1>6
  <2>8. (v + u) - (s + r) = x - z
    BY <2>7
  <2> QED BY <2>2, <2>5, <2>6, <2>8
<1>7. n \in N
  <2> HIDE DEF N
  <2> QED BY <1>5, <1>6, Induct
<1> QED BY <1>0, <1>1, <1>2, <1>7

(* Marks along a sequence: each one differs from the one before by the     *)
(* weight of the element between them.                                     *)
Marks(c, s, weight) ==
  /\ c \in Seq(Int) /\ Len(c) = Len(s) + 1
  /\ \A i \in 1..Len(s) : c[i + 1] = c[i] + weight[s[i]]

LastMark(c) == c[Len(c)]

Longer(c2, c, y) ==
  /\ c2 \in Seq(Int) /\ Len(c2) = Len(c) + 1
  /\ \A i \in 1..Len(c) : c2[i] = c[i]
  /\ c2[Len(c) + 1] = LastMark(c) + y

Shorter(c2, c) ==
  /\ c2 \in Seq(Int) /\ Len(c2) = Len(c) - 1
  /\ \A i \in 1..Len(c2) : c2[i] = c[i + 1]

LEMMA Lengthened ==
  ASSUME NEW c \in Seq(Int), Len(c) > 0, NEW y \in Int
  PROVE  \E c2 : Longer(c2, c, y)
<1>1. LastMark(c) \in Int
  BY ElementOfSeq DEF LastMark
<1> DEFINE z == LastMark(c) + y
<1>2. z \in Int
  BY <1>1
<1> HIDE DEF z
<1>3. /\ Append(c, z) \in Seq(Int) /\ Len(Append(c, z)) = Len(c) + 1
      /\ \A i \in 1..Len(c) : Append(c, z)[i] = c[i]
      /\ Append(c, z)[Len(c) + 1] = z
  BY <1>2, AppendProperties
<1>4. Longer(Append(c, z), c, y)
  BY <1>3 DEF Longer, z
<1> QED BY <1>4

LEMMA Shortened ==
  ASSUME NEW c \in Seq(Int), Len(c) > 0
  PROVE  \E c2 : Shorter(c2, c)
<1>1. Tail(c) \in Seq(Int) /\ Len(Tail(c)) = Len(c) - 1
  OBVIOUS
<1>2. \A i \in 1..Len(Tail(c)) : Tail(c)[i] = c[i + 1]
  OBVIOUS
<1>3. Shorter(Tail(c), c)
  BY <1>1, <1>2 DEF Shorter
<1> QED BY <1>3

LEMMA MarksAppend ==
  ASSUME NEW A, NEW weight \in [A -> Int], NEW s \in Seq(A), NEW x \in A,
         NEW c, Marks(c, s, weight)
  PROVE  \E c2 : Marks(c2, Append(s, x), weight) /\ Longer(c2, c, weight[x])
<1>0. PICK n \in Nat : n = Len(s)
  BY LenProperties
<1>1. c \in Seq(Int) /\ Len(c) = n + 1 /\ \A i \in 1..n : c[i + 1] = c[i] + weight[s[i]]
  BY <1>0 DEF Marks
<1>2. PICK y \in Int : y = weight[x]
  OBVIOUS
<1>10. Len(c) > 0
  BY <1>1
<1>3. PICK c2 : Longer(c2, c, y)
  BY <1>10, <1>1, <1>2, Lengthened
<1>4. c2 \in Seq(Int) /\ Len(c2) = n + 2 /\ (\A i \in 1..(n + 1) : c2[i] = c[i])
      /\ c2[n + 2] = c[n + 1] + y
  <2>1. Len(c2) = (n + 1) + 1 /\ c2[(n + 1) + 1] = c[n + 1] + y
    BY <1>3, <1>1 DEF Longer, LastMark
  <2>2. (n + 1) + 1 = n + 2
    OBVIOUS
  <2> QED BY <2>1, <2>2, <1>3, <1>1 DEF Longer
<1>5. PICK t \in Seq(A) : t = Append(s, x) /\ Len(t) = n + 1
                          /\ (\A i \in 1..n : t[i] = s[i]) /\ t[n + 1] = x
  BY <1>0, AppendProperties
<1>6. \A i \in 1..(n + 1) : c2[i + 1] = c2[i] + weight[t[i]]
  <2> TAKE i \in 1..(n + 1)
  <2>1. CASE i = n + 1
    <3>1. i + 1 = n + 2 /\ i \in 1..(n + 1)
      BY <2>1
    <3>2. c2[i] = c[n + 1] /\ c2[i + 1] = c[n + 1] + y /\ weight[t[i]] = y
      BY <3>1, <2>1, <1>2, <1>4, <1>5
    <3> QED BY <3>2
  <2>2. CASE i # n + 1
    <3>1. i \in 1..n /\ i + 1 \in 1..(n + 1)
      BY <2>2
    <3>2. c[i + 1] = c[i] + weight[s[i]]
      BY <3>1, <1>1
    <3>3. c2[i + 1] = c[i + 1] /\ c2[i] = c[i] /\ t[i] = s[i]
      BY <3>1, <1>4, <1>5
    <3> QED BY <3>2, <3>3
  <2> QED BY <2>1, <2>2
<1>7. Marks(c2, t, weight)
  <2>1. Len(c2) = (n + 1) + 1
    BY <1>4
  <2> QED BY <2>1, <1>4, <1>5, <1>6 DEF Marks
<1> QED BY <1>2, <1>3, <1>5, <1>7

LEMMA MarksTail ==
  ASSUME NEW A, NEW weight \in [A -> Int], NEW s \in Seq(A), s # <<>>,
         NEW c, Marks(c, s, weight)
  PROVE  /\ \E c2 : Marks(c2, Tail(s), weight) /\ Shorter(c2, c)
         /\ Head(s) \in A /\ c[2] = c[1] + weight[Head(s)]
<1>0. PICK n \in Nat : n = Len(s) /\ n > 0
  BY LenProperties, EmptySeq
<1>1. c \in Seq(Int) /\ Len(c) = n + 1 /\ \A i \in 1..n : c[i + 1] = c[i] + weight[s[i]]
  BY <1>0 DEF Marks
<1>10. Len(c) > 0
  BY <1>0, <1>1
<1>2. PICK c2 : Shorter(c2, c)
  BY <1>10, <1>1, Shortened
<1>3. c2 \in Seq(Int) /\ Len(c2) = n /\ (\A i \in 1..n : c2[i] = c[i + 1])
  BY <1>1, <1>2 DEF Shorter
<1>4. PICK t \in Seq(A) : t = Tail(s) /\ Len(t) = n - 1 /\ (\A i \in 1..(n - 1) : t[i] = s[i + 1])
  <2>1. Tail(s) \in Seq(A) /\ Len(Tail(s)) = Len(s) - 1
    OBVIOUS
  <2>2. \A i \in 1..Len(Tail(s)) : Tail(s)[i] = s[i + 1]
    OBVIOUS
  <2> QED BY <2>1, <2>2, <1>0
<1>5. \A i \in 1..(n - 1) : c2[i + 1] = c2[i] + weight[t[i]]
  <2> TAKE i \in 1..(n - 1)
  <2>1. i + 1 \in 1..n /\ i \in 1..n
    OBVIOUS
  <2>2. c[(i + 1) + 1] = c[i + 1] + weight[s[i + 1]]
    BY <2>1, <1>1
  <2>3. c2[i + 1] = c[(i + 1) + 1] /\ c2[i] = c[i + 1] /\ t[i] = s[i + 1]
    BY <2>1, <1>3, <1>4
  <2> QED BY <2>2, <2>3
<1>6. Marks(c2, t, weight)
  <2>1. Len(c2) = (n - 1) + 1
    BY <1>3
  <2> QED BY <2>1, <1>3, <1>4, <1>5 DEF Marks
<1>7. Head(s) = s[1] /\ s[1] \in A /\ 1 \in 1..n
  BY <1>0, ElementOfSeq
<1>8. c[1 + 1] = c[1] + weight[s[1]]
  BY <1>1, <1>7
<1> QED BY <1>2, <1>4, <1>6, <1>7, <1>8

(* The last mark is less than room above every other.                      *)
Rise(c, room) == \A i \in 1..Len(c) : LastMark(c) - c[i] <= room

LEMMA RiseLonger ==
  ASSUME NEW c \in Seq(Int), NEW c2, NEW y \in Int, Longer(c2, c, y), Len(c) > 0,
         NEW room \in Int, NEW room2 \in Int, room + y <= room2, 0 <= room2,
         Rise(c, room)
  PROVE  Rise(c2, room2) /\ c2[1] = c[1] /\ LastMark(c2) = LastMark(c) + y
         /\ LastMark(c) \in Int /\ c[1] \in Int
<1>0. PICK n \in Nat : n = Len(c)
  BY LenProperties
<1>1. PICK x \in Int : x = LastMark(c)
  BY <1>0, ElementOfSeq DEF LastMark
<1>2. Len(c2) = n + 1 /\ (\A i \in 1..n : c2[i] = c[i]) /\ c2[n + 1] = x + y
  BY <1>0, <1>1 DEF Longer
<1>3. LastMark(c2) = x + y
  BY <1>2 DEF LastMark
<1>4. \A i \in 1..(n + 1) : (x + y) - c2[i] <= room2
  <2> TAKE i \in 1..(n + 1)
  <2>1. CASE i = n + 1
    BY <2>1, <1>2
  <2>2. CASE i # n + 1
    <3>1. i \in 1..n
      BY <2>2
    <3>2. PICK z \in Int : z = c[i]
      BY <3>1, <1>0, ElementOfSeq
    <3>3. x - z <= room
      BY <3>1, <3>2, <1>0, <1>1 DEF Rise
    <3>4. (x + y) - z <= room2
      BY <3>3
    <3> QED BY <3>1, <3>2, <3>4, <1>2
  <2> QED BY <2>1, <2>2
<1>5. c[1] \in Int
  BY ElementOfSeq
<1> QED BY <1>0, <1>1, <1>2, <1>3, <1>4, <1>5 DEF Rise

LEMMA RiseShorter ==
  ASSUME NEW c \in Seq(Int), NEW c2, Shorter(c2, c), Len(c) > 1,
         NEW room \in Int, Rise(c, room)
  PROVE  Rise(c2, room) /\ c2[1] = c[2] /\ LastMark(c2) = LastMark(c)
         /\ LastMark(c) \in Int /\ c[1] \in Int /\ c[2] \in Int
<1>0. PICK n \in Nat : n = Len(c)
  BY LenProperties
<1>1. Len(c2) = n - 1 /\ (\A i \in 1..(n - 1) : c2[i] = c[i + 1])
  BY <1>0 DEF Shorter
<1>2. LastMark(c2) = LastMark(c)
  <2>1. n - 1 \in 1..(n - 1) /\ (n - 1) + 1 = n
    BY <1>0
  <2>2. c2[n - 1] = c[n]
    BY <2>1, <1>1
  <2> QED BY <2>2, <1>0, <1>1 DEF LastMark
<1>3. \A i \in 1..(n - 1) : LastMark(c) - c2[i] <= room
  <2> TAKE i \in 1..(n - 1)
  <2>1. i + 1 \in 1..n
    OBVIOUS
  <2> QED BY <2>1, <1>0, <1>1 DEF Rise
<1>4. c2[1] = c[2]
  <2>1. 1 \in 1..(n - 1) /\ 1 + 1 = 2
    BY <1>0
  <2> QED BY <2>1, <1>1
<1>5. LastMark(c) \in Int /\ c[1] \in Int /\ c[2] \in Int
  BY <1>0, ElementOfSeq DEF LastMark
<1> QED BY <1>1, <1>2, <1>3, <1>4, <1>5 DEF Rise
-----------------------------------------------------------------------------
(* No mark is above the last one.                                          *)
Peak(c) == \A i \in 1..Len(c) : c[i] <= LastMark(c)

LEMMA PeakLonger ==
  ASSUME NEW c \in Seq(Int), NEW c2, NEW y \in Nat, Longer(c2, c, y), Len(c) > 0,
         Peak(c)
  PROVE  Peak(c2) /\ c2[1] = c[1] /\ LastMark(c2) = LastMark(c) + y
         /\ LastMark(c) \in Int /\ c[1] \in Int
<1>0. PICK n \in Nat : n = Len(c)
  BY LenProperties
<1>1. PICK x \in Int : x = LastMark(c)
  BY <1>0, ElementOfSeq DEF LastMark
<1>2. Len(c2) = n + 1 /\ (\A i \in 1..n : c2[i] = c[i]) /\ c2[n + 1] = x + y
  BY <1>0, <1>1 DEF Longer
<1>3. LastMark(c2) = x + y
  BY <1>2 DEF LastMark
<1>4. \A i \in 1..(n + 1) : c2[i] <= x + y
  <2> TAKE i \in 1..(n + 1)
  <2>1. CASE i = n + 1
    BY <2>1, <1>2
  <2>2. CASE i # n + 1
    <3>1. i \in 1..n
      BY <2>2
    <3>2. PICK z \in Int : z = c[i]
      BY <3>1, <1>0, ElementOfSeq
    <3>3. z <= x
      BY <3>1, <3>2, <1>0, <1>1 DEF Peak
    <3> QED BY <3>1, <3>2, <3>3, <1>2
  <2> QED BY <2>1, <2>2
<1>5. c[1] \in Int
  BY ElementOfSeq
<1> QED BY <1>0, <1>1, <1>2, <1>3, <1>4, <1>5 DEF Peak

LEMMA PeakShorter ==
  ASSUME NEW c \in Seq(Int), NEW c2, Shorter(c2, c), Len(c) > 1, Peak(c)
  PROVE  Peak(c2) /\ c2[1] = c[2] /\ LastMark(c2) = LastMark(c)
         /\ LastMark(c) \in Int /\ c[1] \in Int /\ c[2] \in Int /\ c[2] <= LastMark(c)
<1>0. PICK n \in Nat : n = Len(c)
  BY LenProperties
<1>1. Len(c2) = n - 1 /\ (\A i \in 1..(n - 1) : c2[i] = c[i + 1])
  BY <1>0 DEF Shorter
<1>2. LastMark(c2) = LastMark(c)
  <2>1. n - 1 \in 1..(n - 1) /\ (n - 1) + 1 = n
    BY <1>0
  <2>2. c2[n - 1] = c[n]
    BY <2>1, <1>1
  <2> QED BY <2>2, <1>0, <1>1 DEF LastMark
<1>3. \A i \in 1..(n - 1) : c2[i] <= LastMark(c)
  <2> TAKE i \in 1..(n - 1)
  <2>1. i + 1 \in 1..n
    OBVIOUS
  <2> QED BY <2>1, <1>0, <1>1 DEF Peak
<1>4. c2[1] = c[2] /\ c[2] <= LastMark(c)
  <2>1. 1 \in 1..(n - 1) /\ 1 + 1 = 2 /\ 2 \in 1..n
    BY <1>0
  <2> QED BY <2>1, <1>0, <1>1 DEF Peak
<1>5. LastMark(c) \in Int /\ c[1] \in Int /\ c[2] \in Int
  BY <1>0, ElementOfSeq DEF LastMark
<1> QED BY <1>1, <1>2, <1>3, <1>4, <1>5 DEF Peak

(* A request of the test on the bus is one that is open.                   *)
BusWeight == [r \in {"gui", "stress"} |-> IF r = "stress" THEN 1 ELSE 0]

BusMarks(b) == Marks(b, bus, BusWeight) /\ Peak(b) /\ LastMark(b) - b[1] <= open

BusCovered == \E b : BusMarks(b)

LEMMA BusWeights ==
  /\ BusWeight \in [{"gui", "stress"} -> Int]
  /\ BusWeight["gui"] = 0 /\ BusWeight["stress"] = 1
BY DEF BusWeight

LEMMA BusMarksType ==
  ASSUME bus \in Seq({"gui", "stress"}), NEW b, BusMarks(b)
  PROVE  b \in Seq(Int) /\ Len(b) > 0 /\ (bus # <<>> => Len(b) > 1)
<1>1. Len(bus) \in Nat /\ (bus # <<>> => Len(bus) > 0)
  BY LenProperties, EmptySeq
<1> QED BY <1>1 DEF BusMarks, Marks

LEMMA OpenIsNat ==
  ASSUME Queues, open \in Int, BusCovered
  PROVE  open \in Nat
<1>1. PICK b : BusMarks(b)
  BY DEF BusCovered
<1>2. b \in Seq(Int) /\ Len(b) > 0
  BY <1>1, BusMarksType DEF Queues
<1>3. b[1] \in Int /\ b[1] <= LastMark(b) /\ LastMark(b) - b[1] <= open
  BY <1>1, <1>2, ElementOfSeq DEF BusMarks, Peak
<1>4. LastMark(b) \in Int
  BY <1>2, ElementOfSeq DEF LastMark
<1> QED BY <1>3, <1>4

LEMMA BusGrows ==
  ASSUME Queues, open \in Int, BusCovered, NEW r \in {"gui", "stress"},
         bus' = Append(bus, r),
         open' = IF r = "stress" THEN open + 1 ELSE open
  PROVE  BusCovered'
<1>1. PICK b : BusMarks(b)
  BY DEF BusCovered
<1>2. b \in Seq(Int) /\ Len(b) > 0
  BY <1>1, BusMarksType DEF Queues
<1>3. PICK y \in Nat : y = BusWeight[r] /\ open' = open + y
  BY BusWeights
<1>4. PICK c : Marks(c, Append(bus, r), BusWeight) /\ Longer(c, b, BusWeight[r])
  BY <1>1, MarksAppend, BusWeights DEF BusMarks, Queues
<1>5. /\ Peak(c) /\ c[1] = b[1] /\ LastMark(c) = LastMark(b) + y
      /\ LastMark(b) \in Int /\ b[1] \in Int
  BY <1>1, <1>2, <1>3, <1>4, PeakLonger DEF BusMarks
<1>6. LastMark(c) - c[1] <= open'
  <2>1. PICK u \in Int, v \in Int : u = LastMark(b) /\ v = b[1]
    BY <1>5
  <2>2. u - v <= open
    BY <1>1, <2>1 DEF BusMarks
  <2>3. LastMark(c) = u + y /\ c[1] = v
    BY <1>5, <2>1, Zenon
  <2>4. (u + y) - v <= open + y
    BY <2>2
  <2> QED BY <2>3, <2>4, <1>3, Zenon
<1>7. Marks(c, bus', BusWeight)
  BY <1>4
<1> QED BY <1>5, <1>6, <1>7 DEF BusCovered, BusMarks

(* The first request leaves the bus: if it is one of the test there was    *)
(* one open.                                                               *)
LEMMA BusShrinks ==
  ASSUME Queues, open \in Int, BusCovered, bus # <<>>, bus' = Tail(bus),
         open' \in {open, IF Head(bus) = "stress" THEN open - 1 ELSE open}
  PROVE  BusCovered' /\ (Head(bus) = "stress" => open >= 1)
<1>1. PICK b : BusMarks(b)
  BY DEF BusCovered
<1>2. b \in Seq(Int) /\ Len(b) > 1
  BY <1>1, BusMarksType DEF Queues
<1>3. PICK c : Marks(c, Tail(bus), BusWeight) /\ Shorter(c, b)
  BY <1>1, MarksTail, BusWeights DEF BusMarks, Queues
<1>4. Head(bus) \in {"gui", "stress"} /\ b[2] = b[1] + BusWeight[Head(bus)]
  BY <1>1, MarksTail, BusWeights, SMTT(30) DEF BusMarks, Queues
<1>5. /\ Peak(c) /\ c[1] = b[2] /\ LastMark(c) = LastMark(b)
      /\ LastMark(b) \in Int /\ b[1] \in Int /\ b[2] \in Int /\ b[2] <= LastMark(b)
  BY <1>1, <1>2, <1>3, PeakShorter DEF BusMarks
<1>6. PICK u \in Int, v \in Int, w \in Int : u = LastMark(b) /\ v = b[1] /\ w = b[2]
  BY <1>5
<1>7. u - v <= open /\ w <= u
  BY <1>1, <1>5, <1>6 DEF BusMarks
<1>8. w = v + (IF Head(bus) = "stress" THEN 1 ELSE 0)
  BY <1>4, <1>6, BusWeights
<1>9. LastMark(c) - c[1] <= open'
  BY <1>5, <1>6, <1>7, <1>8
<1>10. Head(bus) = "stress" => open >= 1
  BY <1>7, <1>8
<1>11. Marks(c, bus', BusWeight)
  BY <1>3
<1> QED BY <1>5, <1>9, <1>10, <1>11 DEF BusCovered, BusMarks

LEMMA BusKept ==
  ASSUME BusCovered, bus' = bus, open \in Int, open' \in Int, open' >= open, Queues
  PROVE  BusCovered'
<1>1. PICK b : BusMarks(b)
  BY DEF BusCovered
<1>2. b \in Seq(Int) /\ Len(b) > 0
  BY <1>1, BusMarksType DEF Queues
<1>3. PICK u \in Int, v \in Int : u = LastMark(b) /\ v = b[1]
  BY <1>2, ElementOfSeq DEF LastMark
<1>4. u - v <= open
  BY <1>1, <1>3 DEF BusMarks
<1>5. LastMark(b) - b[1] <= open'
  BY <1>3, <1>4
<1> QED BY <1>1, <1>5 DEF BusCovered, BusMarks

LEMMA Quiet ==
  ASSUME [MNext]_stress_vars
  PROVE  \/ SendAndTell \/ AnswerAndTell
         \/ LoseAnswer /\ UNCHANGED monitor_vars
         \/ UNCHANGED <<bus, open>>
<1>1. CASE (Manage \/ GuiRequest) /\ UNCHANGED monitor_vars
  BY <1>1 DEF Manage, ConnectCan, init, tryReconnect, DeviceError, PlugIn,
       GuiRequest, monitor_vars, history
<1>2. CASE start \/ stop \/ onPressureIncreaseTimeout \/ onSendFrameTimeout
           \/ Count \/ onTimerTimeout
  BY <1>2 DEF start, stop, onPressureIncreaseTimeout, onSendFrameTimeout, Count,
       onTimerTimeout, channel_vars, monitor_vars, history
<1>3. CASE UNCHANGED stress_vars
  BY <1>3 DEF stress_vars, channel_vars, monitor_vars, history
<1> QED BY <1>1, <1>2, <1>3 DEF MNext

LEMMA BusStep ==
  ASSUME Queues, open \in Int, BusCovered, [MNext]_stress_vars
  PROVE  BusCovered' /\ open' \in Int
<1>1. CASE SendAndTell
  <2>1. calls # <<>> /\ Head(calls) \in {"gui", "stress"}
    <3>1. calls \in Seq({"init", "gui", "stress"}) /\ calls # <<>> /\ Head(calls) # "init"
      BY <1>1 DEF SendAndTell, Send, Queues
    <3>2. Head(calls) \in {"init", "gui", "stress"}
      BY <3>1
    <3> QED BY <3>1, <3>2
  <2>2. open' = IF Head(calls) = "stress" THEN open + 1 ELSE open
    BY <1>1 DEF SendAndTell
  <2>3. open' \in Int /\ open' >= open
    BY <2>2
  <2>4. CASE Works
    <3>1. bus' = Append(bus, Head(calls))
      BY <1>1, <2>4 DEF SendAndTell, Send
    <3> QED BY <2>1, <2>2, <2>3, <3>1, BusGrows
  <2>5. CASE ~Works
    <3>1. bus' = bus
      BY <1>1, <2>5 DEF SendAndTell, Send
    <3> QED BY <2>3, <3>1, BusKept
  <2> QED BY <2>4, <2>5
<1>2. CASE AnswerAndTell
  <2>1. bus # <<>> /\ bus' = Tail(bus)
        /\ open' = IF Head(bus) = "stress" THEN open - 1 ELSE open
    BY <1>2 DEF AnswerAndTell, Answer
  <2> QED BY <2>1, BusShrinks
<1>3. CASE LoseAnswer /\ UNCHANGED monitor_vars
  <2>1. bus # <<>> /\ bus' = Tail(bus) /\ open' = open
    BY <1>3 DEF LoseAnswer, monitor_vars, history
  <2> QED BY <2>1, BusShrinks
<1>4. CASE UNCHANGED <<bus, open>>
  BY <1>4, BusKept
<1> QED BY <1>1, <1>2, <1>3, <1>4, Quiet
-----------------------------------------------------------------------------
(* A signal that a request was sent raises the loss, an answer lowers it.  *)
EventWeight == [e \in {"sent", "answered"} |-> IF e = "sent" THEN 1 ELSE -1]

WindowMarks(e, sent, recv) ==
  /\ e \in Seq(Int) /\ Len(e) = Len(sent) + 1
  /\ \A i \in 1..Len(sent) : e[i + 1] = e[i] + (sent[i] - recv[i])

(* The level is less than room above every mark.                           *)
Above(level, c, room) == \A i \in 1..Len(c) : level - c[i] <= room

Counted == m_sentRequestCount - m_receivedResponseCount

(* The signals posted from any of them on, and what was counted in the     *)
(* last seconds of the window with all that is posted, say of no more      *)
(* requests without an answer than there are.                              *)
SignalMarks(d, e) ==
  /\ Marks(d, events, EventWeight) /\ Rise(d, open + missed)
  /\ WindowMarks(e, m_sentWindow, m_recvWindow)
  /\ LastMark(e) = m_lastSentRequests - m_lastReceivedResponses
  /\ Above(Counted + (LastMark(d) - d[1]), e, open + missed)

SignalsCovered == \E d, e : SignalMarks(d, e)

CountersTyped ==
  /\ m_sentRequestCount \in Nat /\ m_receivedResponseCount \in Nat
  /\ m_lastSentRequests \in 0..m_sentRequestCount
  /\ m_lastReceivedResponses \in 0..m_receivedResponseCount

WindowsTyped ==
  /\ m_sentWindow \in Seq(Nat) /\ m_recvWindow \in Seq(Nat)
  /\ Len(m_sentWindow) = Len(m_recvWindow) /\ Len(m_sentWindow) <= WindowSize

SignalsTyped == events \in Seq({"sent", "answered"}) /\ missed \in Nat

LEMMA EventWeights ==
  /\ EventWeight \in [{"sent", "answered"} -> Int]
  /\ EventWeight["sent"] = 1 /\ EventWeight["answered"] = -1
BY DEF EventWeight

LEMMA EventMarksType ==
  ASSUME SignalsTyped, NEW d, Marks(d, events, EventWeight)
  PROVE  d \in Seq(Int) /\ Len(d) > 0 /\ (events # <<>> => Len(d) > 1)
<1>1. Len(events) \in Nat /\ (events # <<>> => Len(events) > 0)
  BY LenProperties, EmptySeq DEF SignalsTyped
<1> QED BY <1>1 DEF Marks

LEMMA WindowMarksType ==
  ASSUME WindowsTyped, NEW e, WindowMarks(e, m_sentWindow, m_recvWindow)
  PROVE  e \in Seq(Int) /\ Len(e) > 0
<1>1. Len(m_sentWindow) \in Nat
  BY LenProperties DEF WindowsTyped
<1> QED BY <1>1 DEF WindowMarks

LEMMA AboveKept ==
  ASSUME NEW level \in Int, NEW level2 \in Int, NEW room \in Int, NEW room2 \in Int,
         level2 - level <= room2 - room, NEW c \in Seq(Int), Above(level, c, room)
  PROVE  Above(level2, c, room2)
<1> SUFFICES ASSUME NEW i \in 1..Len(c) PROVE level2 - c[i] <= room2
  BY DEF Above
<1>1. PICK z \in Int : z = c[i]
  BY ElementOfSeq, LenProperties
<1>2. level - z <= room
  BY <1>1 DEF Above
<1> QED BY <1>1, <1>2

(* A signal is posted: with it one more request is open, or one answer     *)
(* less is due, or an answer is missed, or nobody of the test waits.       *)
LEMMA SignalPosted ==
  ASSUME SignalsTyped, CountersTyped, WindowsTyped, SignalsCovered,
         open \in Nat, open' \in Nat, missed' \in Nat,
         NEW s \in {"sent", "answered"}, events' = Append(events, s),
         EventWeight[s] <= (open' + missed') - (open + missed),
         UNCHANGED <<counters, snapshots, windows>>
  PROVE  SignalsCovered'
<1>1. PICK d, e : SignalMarks(d, e)
  BY DEF SignalsCovered
<1>2. d \in Seq(Int) /\ Len(d) > 0
  BY <1>1, EventMarksType DEF SignalMarks
<1>3. PICK y \in Int : y = EventWeight[s]
  BY EventWeights
<1>4. PICK c : Marks(c, Append(events, s), EventWeight) /\ Longer(c, d, EventWeight[s])
  BY <1>1, MarksAppend, EventWeights DEF SignalMarks, SignalsTyped
<1>12. open + missed \in Int /\ open' + missed' \in Nat
  <2>1. missed \in Nat
    BY DEF SignalsTyped
  <2>2. \A m, n \in Nat : m + n \in Nat /\ m + n \in Int
    OBVIOUS
  <2> QED BY <2>1, <2>2, Zenon
<1>5. PICK room \in Int, room2 \in Nat : room = open + missed /\ room2 = open' + missed'
  BY <1>12
<1>6. /\ Rise(c, room2) /\ c[1] = d[1] /\ LastMark(c) = LastMark(d) + y
      /\ LastMark(d) \in Int /\ d[1] \in Int
  <2>1. room + y <= room2 /\ 0 <= room2 /\ room2 \in Int
    <3>1. y <= room2 - room
      BY <1>3, <1>5
    <3> QED BY <3>1
  <2>2. Rise(d, room) /\ Longer(c, d, y)
    BY <1>1, <1>3, <1>4, <1>5 DEF SignalMarks
  <2> QED BY <2>1, <2>2, <1>2, RiseLonger
<1>7. e \in Seq(Int) /\ WindowMarks(e, m_sentWindow', m_recvWindow')
  BY <1>1, WindowMarksType DEF SignalMarks, WindowMarks, windows
<1>8. LastMark(e) = (m_lastSentRequests - m_lastReceivedResponses)'
  BY <1>1 DEF SignalMarks, snapshots
<1>9. Above(Counted' + (LastMark(c) - c[1]), e, room2)
  <2>1. PICK level \in Int : level = Counted + (LastMark(d) - d[1])
    BY <1>6 DEF Counted, CountersTyped
  <2>2. PICK level2 \in Int : level2 = Counted' + (LastMark(c) - c[1]) /\ level2 = level + y
    <3>1. Counted' = Counted /\ Counted \in Int
      BY DEF Counted, counters, CountersTyped
    <3>2. PICK n \in Int, u \in Int, v \in Int :
            n = Counted /\ u = LastMark(d) /\ v = d[1]
      BY <3>1, <1>6
    <3>3. level = n + (u - v) /\ Counted' + (LastMark(c) - c[1]) = n + ((u + y) - v)
      BY <3>1, <3>2, <2>1, <1>6
    <3>4. n + ((u + y) - v) = (n + (u - v)) + y
      OBVIOUS
    <3> QED BY <3>3, <3>4
  <2>3. level2 - level <= room2 - room
    <3>1. y <= room2 - room
      BY <1>3, <1>5
    <3> QED BY <3>1, <2>2
  <2>4. Above(level, e, room)
    BY <1>1, <1>5, <2>1 DEF SignalMarks
  <2>5. Above(level2, e, room2)
    BY <2>3, <2>4, <1>7, AboveKept
  <2> QED BY <2>2, <2>5
<1>10. Marks(c, events', EventWeight)
  BY <1>4
<1>11. /\ Rise(c, open' + missed')
       /\ Above(Counted' + (LastMark(c) - c[1]), e, open' + missed')
  BY <1>5, <1>6, <1>9
<1> QED BY <1>7, <1>8, <1>10, <1>11 DEF SignalsCovered, SignalMarks

(* A step that posts no signal and loses no request.                       *)
LEMMA SignalsKept ==
  ASSUME SignalsTyped, CountersTyped, WindowsTyped, SignalsCovered,
         open \in Nat, open' \in Nat, missed' \in Nat,
         open' + missed' >= open + missed,
         UNCHANGED <<events, counters, snapshots, windows>>
  PROVE  SignalsCovered'
<1>1. PICK d, e : SignalMarks(d, e)
  BY DEF SignalsCovered
<1>2. d \in Seq(Int) /\ Len(d) > 0
  BY <1>1, EventMarksType DEF SignalMarks
<1>12. open + missed \in Int /\ open' + missed' \in Int
  BY DEF SignalsTyped
<1>3. PICK room \in Int, room2 \in Int :
        room = open + missed /\ room2 = open' + missed' /\ room2 >= room
  BY <1>12
<1>4. LastMark(d) \in Int /\ d[1] \in Int
  BY <1>2, ElementOfSeq DEF LastMark
<1>5. Above(LastMark(d), d, room)
  BY <1>1, <1>3 DEF SignalMarks, Rise, Above
<1>6. Above(LastMark(d), d, room2)
  <2>1. LastMark(d) - LastMark(d) <= room2 - room
    BY <1>3, <1>4
  <2> QED BY <2>1, <1>2, <1>3, <1>4, <1>5, AboveKept
<1>7. Rise(d, open' + missed')
  BY <1>3, <1>6 DEF Rise, Above
<1>8. e \in Seq(Int) /\ WindowMarks(e, m_sentWindow', m_recvWindow')
  BY <1>1, WindowMarksType DEF SignalMarks, WindowMarks, windows
<1>9. LastMark(e) = (m_lastSentRequests - m_lastReceivedResponses)'
  BY <1>1 DEF SignalMarks, snapshots
<1>10. Above(Counted' + (LastMark(d) - d[1]), e, open' + missed')
  <2>1. PICK level \in Int : level = Counted + (LastMark(d) - d[1])
    BY <1>4 DEF Counted, CountersTyped
  <2>2. level = Counted' + (LastMark(d) - d[1])
    BY <2>1 DEF Counted, counters
  <2>3. level - level <= room2 - room
    BY <1>3
  <2>4. Above(level, e, room)
    BY <1>1, <1>3, <2>1 DEF SignalMarks
  <2>5. Above(level, e, room2)
    BY <2>3, <2>4, <1>3, <1>8, AboveKept
  <2> QED BY <2>2, <2>5, <1>3
<1>11. Marks(d, events', EventWeight)
  BY <1>1 DEF SignalMarks
<1> QED BY <1>7, <1>8, <1>9, <1>10, <1>11 DEF SignalsCovered, SignalMarks

(* A signal is counted: what was posted is what is counted.                *)
LEMMA SignalCounted ==
  ASSUME SignalsTyped, CountersTyped, WindowsTyped, SignalsCovered,
         open \in Nat, Count
  PROVE  SignalsCovered'
<1>0. /\ events # <<>> /\ events' = Tail(events)
      /\ UNCHANGED <<open, missed, snapshots, windows>>
  BY DEF Count, history
<1>1. PICK d, e : SignalMarks(d, e)
  BY DEF SignalsCovered
<1>2. d \in Seq(Int) /\ Len(d) > 1
  BY <1>0, <1>1, EventMarksType DEF SignalMarks
<1>3. PICK c : Marks(c, Tail(events), EventWeight) /\ Shorter(c, d)
  BY <1>0, <1>1, MarksTail, EventWeights DEF SignalMarks, SignalsTyped
<1>4. Head(events) \in {"sent", "answered"} /\ d[2] = d[1] + EventWeight[Head(events)]
  BY <1>0, <1>1, MarksTail, EventWeights DEF SignalMarks, SignalsTyped
<1>5. PICK y \in Int : y = EventWeight[Head(events)]
  BY <1>4, EventWeights
<1>6. PICK n \in Int : n = Counted /\ Counted' = n + y
  <2>1. Counted \in Int
    BY DEF Counted, CountersTyped
  <2>2. CASE Head(events) = "sent"
    BY <2>1, <2>2, <1>5, EventWeights DEF Count, Counted, CountersTyped
  <2>3. CASE Head(events) # "sent"
    <3>1. y = -1
      BY <2>3, <1>4, <1>5, EventWeights
    <3>2. /\ m_receivedResponseCount' = m_receivedResponseCount + 1
          /\ m_sentRequestCount' = m_sentRequestCount
      BY <2>3 DEF Count
    <3> QED BY <2>1, <3>1, <3>2 DEF Counted, CountersTyped
  <2> QED BY <2>2, <2>3
<1>7. PICK room \in Int : room = open + missed /\ room = open' + missed'
  <2>1. missed \in Nat
    BY DEF SignalsTyped
  <2>2. \A m, k \in Nat : m + k \in Int
    OBVIOUS
  <2>3. open + missed \in Int
    BY <2>1, <2>2, Zenon
  <2> QED BY <2>3, <1>0
<1>8. /\ Rise(c, room) /\ c[1] = d[2] /\ LastMark(c) = LastMark(d)
      /\ LastMark(d) \in Int /\ d[1] \in Int /\ d[2] \in Int
  BY <1>1, <1>2, <1>3, <1>7, RiseShorter DEF SignalMarks
<1>9. WindowMarks(e, m_sentWindow', m_recvWindow')
  BY <1>0, <1>1 DEF SignalMarks, windows
<1>10. LastMark(e) = (m_lastSentRequests - m_lastReceivedResponses)'
  BY <1>0, <1>1 DEF SignalMarks, snapshots
<1>11. Above(Counted' + (LastMark(c) - c[1]), e, room)
  <2>1. PICK u \in Int, v \in Int : u = LastMark(d) /\ v = d[1]
    BY <1>8
  <2>2. Counted' + (LastMark(c) - c[1]) = (n + y) + (u - (v + y))
    BY <2>1, <1>4, <1>5, <1>6, <1>8
  <2>3. (n + y) + (u - (v + y)) = n + (u - v)
    OBVIOUS
  <2>4. Above(n + (u - v), e, room)
    BY <2>1, <1>1, <1>6, <1>7 DEF SignalMarks
  <2> QED BY <2>2, <2>3, <2>4
<1>12. Marks(c, events', EventWeight)
  BY <1>0, <1>3
<1> QED BY <1>7, <1>8, <1>9, <1>10, <1>11, <1>12 DEF SignalsCovered, SignalMarks

LEMMA WindowAppend ==
  ASSUME NEW a \in Seq(Nat), NEW b \in Seq(Nat), Len(a) = Len(b),
         NEW x \in Nat, NEW y \in Nat, NEW e, WindowMarks(e, a, b)
  PROVE  \E e2 : WindowMarks(e2, Append(a, x), Append(b, y)) /\ Longer(e2, e, x - y)
<1>0. PICK n \in Nat : n = Len(a)
  BY LenProperties
<1>1. e \in Seq(Int) /\ Len(e) = n + 1 /\ \A i \in 1..n : e[i + 1] = e[i] + (a[i] - b[i])
  BY <1>0 DEF WindowMarks
<1>2. PICK z \in Int : z = x - y
  OBVIOUS
<1>3. Len(e) > 0
  BY <1>1
<1>4. PICK f : Longer(f, e, z)
  BY <1>1, <1>2, <1>3, Lengthened
<1>5. f \in Seq(Int) /\ Len(f) = n + 2 /\ (\A i \in 1..(n + 1) : f[i] = e[i])
      /\ f[n + 2] = e[n + 1] + z
  <2>1. Len(f) = (n + 1) + 1 /\ f[(n + 1) + 1] = e[n + 1] + z
    BY <1>4, <1>1 DEF Longer, LastMark
  <2>2. (n + 1) + 1 = n + 2
    OBVIOUS
  <2> QED BY <2>1, <2>2, <1>4, <1>1 DEF Longer
<1>6. PICK s \in Seq(Nat) : s = Append(a, x) /\ Len(s) = n + 1
                            /\ (\A i \in 1..n : s[i] = a[i]) /\ s[n + 1] = x
  BY <1>0, AppendProperties
<1>10. Len(b) = n
  BY <1>0
<1>7. PICK r \in Seq(Nat) : r = Append(b, y) /\ Len(r) = n + 1
                            /\ (\A i \in 1..n : r[i] = b[i]) /\ r[n + 1] = y
  BY <1>10, AppendProperties
<1>8. \A i \in 1..(n + 1) : f[i + 1] = f[i] + (s[i] - r[i])
  <2> TAKE i \in 1..(n + 1)
  <2>1. CASE i = n + 1
    <3>1. f[i] = e[n + 1] /\ f[i + 1] = e[n + 1] + z /\ s[i] - r[i] = z
      BY <2>1, <1>2, <1>5, <1>6, <1>7
    <3> QED BY <3>1
  <2>2. CASE i # n + 1
    <3>1. i \in 1..n /\ i + 1 \in 1..(n + 1)
      BY <2>2
    <3>2. e[i + 1] = e[i] + (a[i] - b[i])
      BY <3>1, <1>1
    <3>3. f[i + 1] = e[i + 1] /\ f[i] = e[i] /\ s[i] = a[i] /\ r[i] = b[i]
      BY <3>1, <1>5, <1>6, <1>7
    <3> QED BY <3>2, <3>3
  <2> QED BY <2>1, <2>2
<1>9. WindowMarks(f, s, r)
  <2>1. Len(f) = (n + 1) + 1
    BY <1>5
  <2> QED BY <2>1, <1>5, <1>6, <1>8 DEF WindowMarks
<1> QED BY <1>2, <1>4, <1>6, <1>7, <1>9

LEMMA WindowTail ==
  ASSUME NEW a \in Seq(Nat), NEW b \in Seq(Nat), Len(a) = Len(b), Len(a) > 0,
         NEW e, WindowMarks(e, a, b)
  PROVE  \E e2 : WindowMarks(e2, Tail(a), Tail(b)) /\ Shorter(e2, e)
<1>0. PICK n \in Nat : n = Len(a) /\ n > 0
  BY LenProperties
<1>1. e \in Seq(Int) /\ Len(e) = n + 1 /\ \A i \in 1..n : e[i + 1] = e[i] + (a[i] - b[i])
  BY <1>0 DEF WindowMarks
<1>2. Len(e) > 0
  BY <1>0, <1>1
<1>3. PICK f : Shorter(f, e)
  BY <1>1, <1>2, Shortened
<1>4. f \in Seq(Int) /\ Len(f) = n /\ \A i \in 1..n : f[i] = e[i + 1]
  BY <1>1, <1>3 DEF Shorter
<1>5. PICK s \in Seq(Nat) : s = Tail(a) /\ Len(s) = n - 1 /\ \A i \in 1..(n - 1) : s[i] = a[i + 1]
  <2>1. Tail(a) \in Seq(Nat) /\ Len(Tail(a)) = Len(a) - 1
    BY <1>0
  <2>2. \A i \in 1..Len(Tail(a)) : Tail(a)[i] = a[i + 1]
    BY <1>0
  <2> QED BY <2>1, <2>2, <1>0
<1>6. PICK r \in Seq(Nat) : r = Tail(b) /\ Len(r) = n - 1 /\ \A i \in 1..(n - 1) : r[i] = b[i + 1]
  <2>1. Tail(b) \in Seq(Nat) /\ Len(Tail(b)) = Len(b) - 1
    BY <1>0
  <2>2. \A i \in 1..Len(Tail(b)) : Tail(b)[i] = b[i + 1]
    BY <1>0
  <2> QED BY <2>1, <2>2, <1>0
<1>7. \A i \in 1..(n - 1) : f[i + 1] = f[i] + (s[i] - r[i])
  <2> TAKE i \in 1..(n - 1)
  <2>1. i + 1 \in 1..n /\ i \in 1..n
    OBVIOUS
  <2>2. e[(i + 1) + 1] = e[i + 1] + (a[i + 1] - b[i + 1])
    BY <2>1, <1>1
  <2>3. f[i + 1] = e[(i + 1) + 1] /\ f[i] = e[i + 1] /\ s[i] = a[i + 1] /\ r[i] = b[i + 1]
    BY <2>1, <1>4, <1>5, <1>6
  <2> QED BY <2>2, <2>3
<1>8. WindowMarks(f, s, r)
  <2>1. Len(f) = (n - 1) + 1
    BY <1>4
  <2> QED BY <2>1, <1>4, <1>5, <1>7 DEF WindowMarks
<1> QED BY <1>3, <1>5, <1>6, <1>8

LEMMA AboveLonger ==
  ASSUME NEW c \in Seq(Int), NEW c2, NEW y \in Int, Longer(c2, c, y),
         NEW level, NEW room, Above(level, c, room),
         level - (LastMark(c) + y) <= room
  PROVE  Above(level, c2, room) /\ LastMark(c2) = LastMark(c) + y
<1>0. PICK n \in Nat : n = Len(c)
  BY LenProperties
<1>1. Len(c2) = n + 1 /\ (\A i \in 1..n : c2[i] = c[i]) /\ c2[n + 1] = LastMark(c) + y
  BY <1>0 DEF Longer
<1>2. ASSUME NEW i \in 1..(n + 1) PROVE level - c2[i] <= room
  <2>1. CASE i = n + 1
    BY <2>1, <1>1
  <2>2. CASE i # n + 1
    <3>1. i \in 1..n
      BY <2>2
    <3> QED BY <3>1, <1>0, <1>1 DEF Above
  <2> QED BY <2>1, <2>2
<1> QED BY <1>1, <1>2 DEF Above, LastMark

LEMMA AboveShorter ==
  ASSUME NEW c \in Seq(Int), NEW c2, Shorter(c2, c), Len(c) > 1,
         NEW level, NEW room, Above(level, c, room)
  PROVE  Above(level, c2, room) /\ LastMark(c2) = LastMark(c)
<1>0. PICK n \in Nat : n = Len(c)
  BY LenProperties
<1>1. Len(c2) = n - 1 /\ (\A i \in 1..(n - 1) : c2[i] = c[i + 1])
  BY <1>0 DEF Shorter
<1>2. LastMark(c2) = LastMark(c)
  <2>1. n - 1 \in 1..(n - 1) /\ (n - 1) + 1 = n
    BY <1>0
  <2>2. c2[n - 1] = c[n]
    BY <2>1, <1>1
  <2> QED BY <2>2, <1>0, <1>1 DEF LastMark
<1>3. ASSUME NEW i \in 1..(n - 1) PROVE level - c2[i] <= room
  <2>1. i + 1 \in 1..n
    OBVIOUS
  <2> QED BY <2>1, <1>0, <1>1 DEF Above
<1> QED BY <1>1, <1>2, <1>3 DEF Above

(* A test starts: nothing is counted and nothing posted to its monitor.    *)
LEMMA SignalsStarted ==
  ASSUME open \in Nat, missed \in Nat, start
  PROVE  SignalsCovered'
<1>1. /\ events' = <<>> /\ m_sentWindow' = <<>> /\ m_recvWindow' = <<>>
      /\ m_sentRequestCount' = 0 /\ m_receivedResponseCount' = 0
      /\ m_lastSentRequests' = 0 /\ m_lastReceivedResponses' = 0
      /\ open' = open /\ missed' = missed
  BY DEF start, history
<1>2. PICK d \in Seq(Int) : Len(d) = 1 /\ d[1] = 0
  <2>1. <<0>> \in Seq(Int) /\ Len(<<0>>) = 1 /\ <<0>>[1] = 0
    OBVIOUS
  <2> QED BY <2>1
<1>3. Marks(d, events', EventWeight) /\ WindowMarks(d, m_sentWindow', m_recvWindow')
  <2>1. Len(<<>>) = 0 /\ \A i \in 1..0 : FALSE
    OBVIOUS
  <2> QED BY <1>1, <1>2, <2>1 DEF Marks, WindowMarks
<1>4. LastMark(d) = 0
  BY <1>2 DEF LastMark
<1>5. 0 <= open' + missed'
  BY <1>1
<1>6. Rise(d, open' + missed') /\ Above(0, d, open' + missed')
  <2>1. \A i \in 1..Len(d) : d[i] = 0
    BY <1>2
  <2> QED BY <2>1, <1>4, <1>5 DEF Rise, Above
<1>7. Counted' + (LastMark(d) - d[1]) = 0
  BY <1>1, <1>2, <1>4 DEF Counted
<1>8. LastMark(d) = (m_lastSentRequests - m_lastReceivedResponses)'
  BY <1>1, <1>4
<1>9. Above(Counted' + (LastMark(d) - d[1]), d, open' + missed')
  BY <1>6, <1>7
<1>10. Rise(d, open' + missed')
  BY <1>6
<1> QED BY <1>3, <1>8, <1>9, <1>10 DEF SignalsCovered, SignalMarks


LEMMA TickTypes ==
  ASSUME CountersTyped, WindowsTyped, onTimerTimeout
  PROVE  \E a \in Seq(Nat), b \in Seq(Nat), x \in Nat, y \in Nat :
           /\ x = m_sentRequestCount - m_lastSentRequests
           /\ y = m_receivedResponseCount - m_lastReceivedResponses
           /\ a = Append(m_sentWindow, x) /\ b = Append(m_recvWindow, y)
           /\ Len(a) = Len(b) /\ Len(a) = Len(m_sentWindow) + 1
           /\ m_sentWindow' = (IF Len(a) > WindowSize THEN Tail(a) ELSE a)
           /\ m_recvWindow' = (IF Len(a) > WindowSize THEN Tail(b) ELSE b)
<1>1. PICK x \in Nat, y \in Nat :
        /\ x = m_sentRequestCount - m_lastSentRequests
        /\ y = m_receivedResponseCount - m_lastReceivedResponses
  BY DEF CountersTyped
<1>2. PICK a \in Seq(Nat), b \in Seq(Nat) :
        /\ a = Append(m_sentWindow, x) /\ b = Append(m_recvWindow, y)
        /\ Len(a) = Len(m_sentWindow) + 1 /\ Len(b) = Len(m_recvWindow) + 1
  <2>1. m_sentWindow \in Seq(Nat) /\ m_recvWindow \in Seq(Nat)
    BY DEF WindowsTyped
  <2>2. PICK a \in Seq(Nat) : a = Append(m_sentWindow, x) /\ Len(a) = Len(m_sentWindow) + 1
    BY <2>1, AppendProperties
  <2>3. PICK b \in Seq(Nat) : b = Append(m_recvWindow, y) /\ Len(b) = Len(m_recvWindow) + 1
    BY <2>1, AppendProperties
  <2> QED BY <2>2, <2>3
<1>3. Len(a) = Len(b)
  BY <1>2 DEF WindowsTyped
<1>4. m_sentWindow' = (IF Len(a) > WindowSize THEN Tail(a) ELSE a)
  BY <1>1, <1>2 DEF onTimerTimeout
<1>5. m_recvWindow' = (IF Len(b) > WindowSize THEN Tail(b) ELSE b)
  BY <1>1, <1>2 DEF onTimerTimeout, RecvWindow
<1> QED BY <1>1, <1>2, <1>3, <1>4, <1>5

LEMMA WindowsTicked ==
  ASSUME CountersTyped, WindowsTyped, onTimerTimeout
  PROVE  WindowsTyped'
<1>1. PICK a \in Seq(Nat), b \in Seq(Nat) :
        /\ Len(a) = Len(b) /\ Len(a) = Len(m_sentWindow) + 1
        /\ m_sentWindow' = (IF Len(a) > WindowSize THEN Tail(a) ELSE a)
        /\ m_recvWindow' = (IF Len(a) > WindowSize THEN Tail(b) ELSE b)
  BY TickTypes, SMTT(30)
<1>2. PICK n \in Nat : n = Len(m_sentWindow) /\ n <= WindowSize
  BY LenProperties DEF WindowsTyped
<1>3. WindowSize \in Nat
  BY MonitorAssumption
<1>4. CASE n + 1 > WindowSize
  <2>1. m_sentWindow' = Tail(a) /\ m_recvWindow' = Tail(b)
    BY <1>1, <1>2, <1>4
  <2>2. Len(a) > 0 /\ Len(b) > 0
    BY <1>1, <1>2
  <2>3. /\ Tail(a) \in Seq(Nat) /\ Tail(b) \in Seq(Nat)
        /\ Len(Tail(a)) = Len(a) - 1 /\ Len(Tail(b)) = Len(b) - 1
    BY <2>2
  <2>4. Len(Tail(a)) = n /\ Len(Tail(b)) = n
    BY <2>3, <1>1, <1>2
  <2> QED BY <2>1, <2>3, <2>4, <1>2 DEF WindowsTyped
<1>5. CASE ~ (n + 1 > WindowSize)
  <2>1. m_sentWindow' = a /\ m_recvWindow' = b
    BY <1>1, <1>2, <1>5
  <2>2. Len(a) = n + 1 /\ Len(b) = n + 1 /\ n + 1 <= WindowSize
    BY <1>1, <1>2, <1>3, <1>5
  <2> QED BY <2>1, <2>2 DEF WindowsTyped
<1> QED BY <1>4, <1>5

(* A second ends: the windows count up to now.                             *)
LEMMA SignalsTicked ==
  ASSUME SignalsTyped, CountersTyped, WindowsTyped, SignalsCovered,
         open \in Nat, onTimerTimeout
  PROVE  SignalsCovered'
<1>0. /\ UNCHANGED <<events, open, missed, counters>>
      /\ m_lastSentRequests' = m_sentRequestCount
      /\ m_lastReceivedResponses' = m_receivedResponseCount
  BY DEF onTimerTimeout, history
<1>1. PICK d, e : SignalMarks(d, e)
  BY DEF SignalsCovered
<1>2. d \in Seq(Int) /\ Len(d) > 0 /\ e \in Seq(Int) /\ Len(e) > 0
  BY <1>1, EventMarksType, WindowMarksType DEF SignalMarks
<1>3. PICK u \in Int, v \in Int : u = LastMark(d) /\ v = d[1]
  BY <1>2, ElementOfSeq DEF LastMark
<1>4. PICK room : room = open + missed /\ room = open' + missed'
  BY <1>0
<1>5. u - v <= room
  BY <1>1, <1>2, <1>3, <1>4 DEF SignalMarks, Rise
<1>6. PICK a \in Seq(Nat), b \in Seq(Nat), x \in Nat, y \in Nat :
        /\ x = m_sentRequestCount - m_lastSentRequests
        /\ y = m_receivedResponseCount - m_lastReceivedResponses
        /\ a = Append(m_sentWindow, x) /\ b = Append(m_recvWindow, y)
        /\ Len(a) = Len(b) /\ Len(a) = Len(m_sentWindow) + 1
        /\ m_sentWindow' = (IF Len(a) > WindowSize THEN Tail(a) ELSE a)
        /\ m_recvWindow' = (IF Len(a) > WindowSize THEN Tail(b) ELSE b)
  BY TickTypes
<1>7. PICK z \in Int : z = x - y
  OBVIOUS
<1>8. PICK f : WindowMarks(f, a, b) /\ Longer(f, e, z)
  BY <1>1, <1>6, <1>7, WindowAppend DEF SignalMarks, WindowsTyped
<1>9. PICK n \in Int : n = Counted /\ n = Counted' /\ LastMark(e) + z = n
  <2>1. Counted \in Int /\ Counted' = Counted
    BY <1>0 DEF Counted, CountersTyped, counters
  <2>2. LastMark(e) = m_lastSentRequests - m_lastReceivedResponses
    BY <1>1 DEF SignalMarks
  <2>3. LastMark(e) + z = Counted
    BY <2>2, <1>6, <1>7 DEF Counted, CountersTyped
  <2> QED BY <2>1, <2>3
<1>10. Above(n + (u - v), f, room) /\ LastMark(f) = n
  <2>1. Above(n + (u - v), e, room)
    BY <1>1, <1>3, <1>4, <1>9 DEF SignalMarks
  <2>2. (n + (u - v)) - (LastMark(e) + z) <= room
    <3>1. (n + (u - v)) - n = u - v
      OBVIOUS
    <3> QED BY <3>1, <1>5, <1>9
  <2> QED BY <2>1, <2>2, <1>2, <1>8, <1>9, AboveLonger
<1>11. \E g : /\ WindowMarks(g, m_sentWindow', m_recvWindow')
              /\ Above(n + (u - v), g, room) /\ LastMark(g) = n
  <2>1. CASE Len(a) > WindowSize
    <3>1. Len(a) > 0 /\ Len(f) > 1 /\ f \in Seq(Int)
      <4>1. Len(m_sentWindow) \in Nat
        BY LenProperties DEF WindowsTyped
      <4>2. Len(f) = Len(a) + 1 /\ f \in Seq(Int)
        BY <1>8 DEF WindowMarks
      <4> QED BY <4>1, <4>2, <1>6
    <3>2. PICK g : WindowMarks(g, Tail(a), Tail(b)) /\ Shorter(g, f)
      BY <3>1, <1>6, <1>8, WindowTail
    <3>3. Above(n + (u - v), g, room) /\ LastMark(g) = n
      BY <3>1, <3>2, <1>10, AboveShorter
    <3> QED BY <2>1, <3>2, <3>3, <1>6
  <2>2. CASE ~ (Len(a) > WindowSize)
    BY <2>2, <1>6, <1>8, <1>10
  <2> QED BY <2>1, <2>2
<1>12. PICK g : /\ WindowMarks(g, m_sentWindow', m_recvWindow')
                /\ Above(n + (u - v), g, room) /\ LastMark(g) = n
  BY <1>11
<1>13. Marks(d, events', EventWeight) /\ Rise(d, open' + missed')
  BY <1>0, <1>1, <1>4 DEF SignalMarks
<1>14. LastMark(g) = (m_lastSentRequests - m_lastReceivedResponses)'
  BY <1>0, <1>9, <1>12 DEF Counted
<1>15. Above(Counted' + (LastMark(d) - d[1]), g, open' + missed')
  BY <1>3, <1>4, <1>9, <1>12
<1> QED BY <1>12, <1>13, <1>14, <1>15 DEF SignalsCovered, SignalMarks

(* As many answers as are posted lower the loss, at most.                  *)
LEMMA PostedBounds ==
  ASSUME SignalsTyped, NEW d, Marks(d, events, EventWeight)
  PROVE  Posted \in Nat /\ LastMark(d) \in Int /\ d[1] \in Int
         /\ LastMark(d) - d[1] >= -Posted
<1>0. PICK n \in Nat : n = Len(events) /\ DOMAIN events = 1..n
  BY LenProperties DEF SignalsTyped
<1>1. d \in Seq(Int) /\ Len(d) = n + 1 /\ \A i \in 1..n : d[i + 1] = d[i] + EventWeight[events[i]]
  BY <1>0 DEF Marks
<1>2. PICK a : a = [i \in 1..n |-> IF events[i] = "answered" THEN 1 ELSE 0]
  OBVIOUS
<1>3. a \in [1..n -> Int] /\ \A i \in 1..n : a[i] = IF events[i] = "answered" THEN 1 ELSE 0
  BY <1>2
<1>4. a \in Seq(Int) /\ Len(a) = n
  BY <1>3
<1>5. Posted = Sum(a)
  BY <1>0, <1>2 DEF Posted
<1>6. \A i \in 1..n : d[i + 1] >= d[i] - a[i]
  <2> TAKE i \in 1..n
  <2>1. events[i] \in {"sent", "answered"}
    BY <1>0, ElementOfSeq DEF SignalsTyped
  <2>2. PICK z \in Int : z = d[i]
    BY <1>1, ElementOfSeq
  <2>3. CASE events[i] = "sent"
    <3>1. d[i + 1] = z + 1 /\ a[i] = 0
      BY <2>2, <2>3, <1>1, <1>3, EventWeights
    <3> QED BY <3>1, <2>2
  <2>4. CASE events[i] = "answered"
    <3>1. d[i + 1] = z + (-1) /\ a[i] = 1
      BY <2>2, <2>4, <1>1, <1>3, EventWeights
    <3> QED BY <3>1, <2>2
  <2> QED BY <2>1, <2>3, <2>4
<1>7. Sum(a) \in Int /\ d[n + 1] >= d[1] - Sum(a)
  <2>1. Len(d) = Len(a) + 1 /\ \A i \in 1..Len(a) : d[i + 1] >= d[i] - a[i]
    BY <1>1, <1>4, <1>6
  <2>2. Sum(a) \in Int /\ d[Len(a) + 1] >= d[1] - Sum(a)
    BY <2>1, <1>1, <1>4, SumBounds
  <2> QED BY <2>2, <1>4
<1>8. Sum(a) >= 0
  <2>1. PICK c : c = [i \in 1..(n + 1) |-> 0]
    OBVIOUS
  <2>2. c \in [1..(n + 1) -> Int] /\ \A i \in 1..(n + 1) : c[i] = 0
    BY <2>1
  <2>3. c \in Seq(Int) /\ Len(c) = n + 1
    BY <2>2
  <2>4. \A i \in 1..n : c[i + 1] >= c[i] - a[i]
    <3> TAKE i \in 1..n
    <3>1. i + 1 \in 1..(n + 1) /\ i \in 1..(n + 1)
      OBVIOUS
    <3>2. c[i + 1] = 0 /\ c[i] = 0 /\ a[i] \in {0, 1}
      BY <3>1, <2>2, <1>3
    <3> QED BY <3>2
  <2>5. Len(c) = Len(a) + 1 /\ \A i \in 1..Len(a) : c[i + 1] >= c[i] - a[i]
    BY <2>3, <2>4, <1>4
  <2>6. c[Len(a) + 1] >= c[1] - Sum(a)
    BY <2>5, <2>3, <1>4, SumBounds
  <2>7. c[n + 1] = 0 /\ c[1] = 0
    BY <2>2
  <2> QED BY <2>6, <2>7, <1>4, <1>7
<1>9. LastMark(d) \in Int /\ d[1] \in Int /\ LastMark(d) = d[n + 1]
  BY <1>1, ElementOfSeq DEF LastMark
<1>10. PICK u \in Int, v \in Int, p \in Nat : u = LastMark(d) /\ v = d[1] /\ p = Posted
  BY <1>5, <1>7, <1>8, <1>9
<1>11. u >= v - p
  BY <1>5, <1>7, <1>9, <1>10
<1>12. u - v >= -p
  BY <1>11
<1> QED BY <1>10, <1>12

LEMMA SumType ==
  ASSUME NEW q \in Seq(Nat)
  PROVE  Sum(q) \in Int
<1>0. PICK n \in Nat : n = Len(q) /\ q \in Seq(Int)
  BY LenProperties
<1>1. PICK f \in [0..n -> Int] : Sum(q) = f[n]
  BY <1>0, SumIs
<1> QED BY <1>1

(* What the tick shows: the requests of the window less its answers.       *)
LEMMA LostIs ==
  ASSUME WindowsTyped', onTimerTimeout
  PROVE  /\ Sum(m_sentWindow') \in Int /\ Sum(m_recvWindow') \in Int
         /\ lost' \in Nat
         /\ lost' = 0 \/ lost' = Sum(m_sentWindow') - Sum(m_recvWindow')
<1>1. Sum(m_sentWindow') \in Int /\ Sum(m_recvWindow') \in Int
  BY SumType DEF WindowsTyped
<1>2. PICK x \in Int, y \in Int : x = Sum(m_sentWindow') /\ y = Sum(m_recvWindow')
  BY <1>1
<1>3. lost' = IF x - y > 0 THEN x - y ELSE 0
  BY <1>2 DEF onTimerTimeout
<1> QED BY <1>1, <1>2, <1>3

(* The inductive invariant of the monitor.                                 *)
MonitorInv ==
  /\ Queues /\ CountersTyped /\ WindowsTyped /\ SignalsTyped
  /\ open \in Nat /\ lost \in Nat /\ ticks \in 0..MaxTicks /\ tests \in 0..MaxTests
  /\ BusCovered /\ SignalsCovered

LEMMA MonitorStarts ==
  ASSUME MInit
  PROVE  MonitorInv
<1>1. Queues
  BY ChannelAssumption DEF MInit, Init, Queues
<1>2. /\ CountersTyped /\ WindowsTyped /\ SignalsTyped
      /\ open \in Nat /\ lost \in Nat /\ ticks \in 0..MaxTicks /\ tests \in 0..MaxTests
  BY MonitorAssumption DEF MInit, CountersTyped, WindowsTyped, SignalsTyped
<1>3. PICK d \in Seq(Int) : Len(d) = 1 /\ d[1] = 0
  <2>1. <<0>> \in Seq(Int) /\ Len(<<0>>) = 1 /\ <<0>>[1] = 0
    OBVIOUS
  <2> QED BY <2>1
<1>4. /\ Marks(d, events, EventWeight) /\ WindowMarks(d, m_sentWindow, m_recvWindow)
      /\ Marks(d, bus, BusWeight)
  <2>1. Len(<<>>) = 0 /\ \A i \in 1..0 : FALSE
    OBVIOUS
  <2> QED BY <1>3, <2>1 DEF Marks, WindowMarks, MInit, Init
<1>5. LastMark(d) = 0 /\ \A i \in 1..Len(d) : d[i] = 0
  BY <1>3 DEF LastMark
<1>6. Peak(d) /\ Rise(d, 0) /\ Above(0, d, 0)
  BY <1>5 DEF Peak, Rise, Above
<1>7. open = 0 /\ open + missed = 0 /\ m_lastSentRequests - m_lastReceivedResponses = 0
      /\ Counted + (LastMark(d) - d[1]) = 0
  BY <1>3, <1>5 DEF MInit, Counted
<1>8. BusCovered
  <2>1. LastMark(d) - d[1] <= open
    BY <1>3, <1>5, <1>7
  <2> QED BY <2>1, <1>4, <1>6 DEF BusCovered, BusMarks
<1>9. SignalsCovered
  <2>1. Above(Counted + (LastMark(d) - d[1]), d, open + missed) /\ Rise(d, open + missed)
    BY <1>6, <1>7
  <2>2. LastMark(d) = m_lastSentRequests - m_lastReceivedResponses
    BY <1>5, <1>7
  <2> QED BY <2>1, <2>2, <1>4 DEF SignalsCovered, SignalMarks
<1> QED BY <1>1, <1>2, <1>8, <1>9 DEF MonitorInv

LEMMA Untold ==
  ASSUME [MNext]_stress_vars
  PROVE  \/ SendAndTell \/ AnswerAndTell \/ start \/ Count \/ onTimerTimeout
         \/ UNCHANGED <<events, counters, snapshots, windows, lost, history, bounds>>
<1>1. CASE (Manage \/ GuiRequest \/ LoseAnswer) /\ UNCHANGED monitor_vars
  BY <1>1 DEF monitor_vars
<1>2. CASE stop \/ onPressureIncreaseTimeout \/ onSendFrameTimeout
  BY <1>2 DEF stop, onPressureIncreaseTimeout, onSendFrameTimeout, monitor_vars
<1>3. CASE UNCHANGED stress_vars
  BY <1>3 DEF stress_vars, monitor_vars
<1> QED BY <1>1, <1>2, <1>3 DEF MNext

LEMMA NatSum == \A m, n \in Nat : m + n \in Int
OBVIOUS

LEMMA AnswerCounts ==
  ASSUME MonitorInv, AnswerAndTell
  PROVE  open' \in Nat /\ missed' \in Nat
         /\ IF hears THEN open' + missed' >= (open + missed) - 1
                     ELSE open' + missed' >= open + missed
<1>0. open \in Nat /\ missed \in Nat
  BY DEF MonitorInv, SignalsTyped
<1>1. bus # <<>> /\ bus' = Tail(bus)
      /\ open' = (IF Head(bus) = "stress" THEN open - 1 ELSE open)
      /\ missed' = (IF Head(bus) = "stress" /\ ~hears THEN missed + 1 ELSE missed)
  BY DEF AnswerAndTell, Answer
<1>2. Head(bus) = "stress" => open >= 1
  <2>1. open \in Int
    BY <1>0
  <2> QED BY <2>1, <1>1, BusShrinks DEF MonitorInv
<1>3. CASE hears
  <2>1. missed' = missed
    BY <1>1, <1>3
  <2>2. CASE Head(bus) = "stress"
    BY <2>1, <2>2, <1>0, <1>1, <1>2, <1>3
  <2>3. CASE Head(bus) # "stress"
    BY <2>1, <2>3, <1>0, <1>1, <1>3
  <2> QED BY <2>2, <2>3
<1>4. CASE ~hears
  <2>1. CASE Head(bus) = "stress"
    BY <2>1, <1>0, <1>1, <1>2, <1>4
  <2>2. CASE Head(bus) # "stress"
    BY <2>2, <1>0, <1>1, <1>4
  <2> QED BY <2>1, <2>2
<1> QED BY <1>3, <1>4

LEMMA SignalsStep ==
  ASSUME MonitorInv, open' \in Nat, [MNext]_stress_vars
  PROVE  SignalsCovered' /\ SignalsTyped'
<1> USE DEF MonitorInv
<1>1. CASE SendAndTell
  <2>0. UNCHANGED <<counters, snapshots, windows, missed>> /\ missed' \in Nat
    BY <1>1 DEF SendAndTell, SignalsTyped
  <2>1. CASE Head(calls) = "stress"
    <3>1. events' = Append(events, "sent") /\ open' = open + 1
      BY <1>1, <2>1 DEF SendAndTell
    <3>2. EventWeight["sent"] <= (open' + missed') - (open + missed)
      BY <2>0, <3>1, EventWeights DEF SignalsTyped
    <3>3. SignalsTyped'
      BY <2>0, <3>1 DEF SignalsTyped
    <3> QED BY <2>0, <3>1, <3>2, <3>3, SignalPosted
  <2>2. CASE Head(calls) # "stress"
    <3>1. events' = events /\ open' = open
      BY <1>1, <2>2 DEF SendAndTell
    <3>2. open' + missed' >= open + missed
      BY <2>0, <3>1 DEF SignalsTyped
    <3>3. SignalsTyped'
      BY <2>0, <3>1 DEF SignalsTyped
    <3> QED BY <2>0, <3>1, <3>2, <3>3, SignalsKept
  <2> QED BY <2>1, <2>2
<1>2. CASE AnswerAndTell
  <2>0. UNCHANGED <<counters, snapshots, windows>>
    BY <1>2 DEF AnswerAndTell
  <2>1. CASE hears
    <3>1. events' = Append(events, "answered")
      BY <1>2, <2>1 DEF AnswerAndTell
    <3>2. missed' \in Nat /\ open' + missed' >= (open + missed) - 1
      BY <1>2, <2>1, AnswerCounts
    <3>3. EventWeight["answered"] <= (open' + missed') - (open + missed)
      <4>1. open + missed \in Int /\ open' + missed' \in Int
        BY <3>2, NatSum, Zenon DEF SignalsTyped
      <4>2. PICK x \in Int, y \in Int : x = open + missed /\ y = open' + missed'
        BY <4>1
      <4>3. -1 <= y - x
        BY <3>2, <4>2
      <4> QED BY <4>2, <4>3, EventWeights
    <3>4. SignalsTyped'
      BY <3>1, <3>2 DEF SignalsTyped
    <3> QED BY <2>0, <3>1, <3>2, <3>3, <3>4, SignalPosted
  <2>2. CASE ~hears
    <3>1. events' = events
      BY <1>2, <2>2 DEF AnswerAndTell
    <3>2. missed' \in Nat /\ open' + missed' >= open + missed
      BY <1>2, <2>2, AnswerCounts
    <3>3. SignalsTyped'
      BY <3>1, <3>2 DEF SignalsTyped
    <3> QED BY <2>0, <3>1, <3>2, <3>3, SignalsKept
  <2> QED BY <2>1, <2>2
<1>3. CASE start
  <2>1. SignalsTyped'
    BY <1>3 DEF start, history, SignalsTyped
  <2> QED BY <2>1, <1>3, SignalsStarted DEF SignalsTyped
<1>4. CASE Count
  <2>1. SignalsTyped'
    BY <1>4 DEF Count, history, SignalsTyped
  <2> QED BY <2>1, <1>4, SignalCounted
<1>5. CASE onTimerTimeout
  <2>1. SignalsTyped'
    BY <1>5 DEF onTimerTimeout, history, SignalsTyped
  <2> QED BY <2>1, <1>5, SignalsTicked
<1>6. CASE UNCHANGED <<events, counters, snapshots, windows, lost, history, bounds>>
  <2>1. UNCHANGED <<events, counters, snapshots, windows, open, missed>>
    BY <1>6 DEF history
  <2>2. SignalsTyped' /\ missed' \in Nat
    BY <2>1 DEF SignalsTyped
  <2>3. open' + missed' >= open + missed
    BY <2>1 DEF SignalsTyped
  <2> QED BY <2>1, <2>2, <2>3, SignalsKept
<1> QED BY <1>1, <1>2, <1>3, <1>4, <1>5, <1>6, Untold
-----------------------------------------------------------------------------
LEMMA NumbersStep ==
  ASSUME MonitorInv, [MNext]_stress_vars
  PROVE  /\ CountersTyped' /\ WindowsTyped' /\ lost' \in Nat
         /\ ticks' \in 0..MaxTicks /\ tests' \in 0..MaxTests
<1> USE DEF MonitorInv
<1>1. CASE start
  <2>1. CountersTyped' /\ WindowsTyped'
    BY <1>1, MonitorAssumption DEF start, CountersTyped, WindowsTyped
  <2>2. lost' \in Nat /\ ticks' \in 0..MaxTicks /\ tests' \in 0..MaxTests
    BY <1>1, MonitorAssumption DEF start
  <2> QED BY <2>1, <2>2
<1>2. CASE Count
  <2>1. CountersTyped'
    BY <1>2 DEF Count, snapshots, CountersTyped
  <2>2. WindowsTyped'
    BY <1>2 DEF Count, windows, WindowsTyped
  <2> QED BY <2>1, <2>2, <1>2 DEF Count, bounds
<1>3. CASE onTimerTimeout
  <2>1. WindowsTyped'
    BY <1>3, WindowsTicked
  <2>2. CountersTyped'
    BY <1>3 DEF onTimerTimeout, counters, CountersTyped
  <2>3. lost' \in Nat
    BY <1>3, <2>1, LostIs
  <2>4. ticks' \in 0..MaxTicks /\ tests' \in 0..MaxTests
    BY <1>3, MonitorAssumption DEF onTimerTimeout
  <2> QED BY <2>1, <2>2, <2>3, <2>4
<1>4. CASE UNCHANGED <<counters, snapshots, windows, lost, bounds>>
  BY <1>4 DEF counters, snapshots, windows, bounds, CountersTyped, WindowsTyped
<1>5. CASE SendAndTell \/ AnswerAndTell
  BY <1>4, <1>5 DEF SendAndTell, AnswerAndTell
<1> QED BY <1>1, <1>2, <1>3, <1>4, <1>5, Untold

LEMMA MonitorStep ==
  ASSUME Views, MonitorInv, [MNext]_stress_vars
  PROVE  MonitorInv'
<1>1. Queues'
  BY QueuesStep DEF MonitorInv
<1>2. open \in Int
  BY DEF MonitorInv
<1>3. BusCovered' /\ open' \in Int
  BY <1>2, BusStep DEF MonitorInv
<1>4. (Queues /\ open \in Int /\ BusCovered => open \in Nat)'
  BY OpenIsNat, PTL
<1>5. open' \in Nat
  BY <1>1, <1>3, <1>4
<1>6. SignalsCovered' /\ SignalsTyped'
  BY <1>5, SignalsStep
<1> QED BY <1>1, <1>3, <1>5, <1>6, NumbersStep DEF MonitorInv

LEMMA MonitorInvariant == MSpec => [](Views /\ MonitorInv)
<1>1. MInit => Views /\ MonitorInv
  <2>1. MInit => Views
    BY Zenon DEF MInit, Init, Views
  <2> QED BY <2>1, MonitorStarts
<1>2. Views /\ MonitorInv /\ [MNext]_stress_vars => Views' /\ MonitorInv'
  <2>1. MonitorInv => Queues
    BY DEF MonitorInv
  <2> QED BY <2>1, MonitorStep, QueuesStep
<1> QED BY <1>1, <1>2, PTL DEF MSpec

(* The whole state is well typed, and the numbers of requests that are     *)
(* open, of answers that were missed and of those shown as lost never fall *)
(* below zero, although each of them is a difference; the two windows have *)
(* one length, at most SLIDING_WINDOW_SIZE (stresstestmonitor.cpp:116-137).*)
THEOREM StressTypeCorrect == MSpec => []StressTypeOK
<1>1. MonitorInv /\ ChannelTypeOK /\ RampRuns /\ RampInBounds => StressTypeOK
  <2> SUFFICES ASSUME MonitorInv, ChannelTypeOK, RampRuns, RampInBounds
               PROVE  StressTypeOK
    OBVIOUS
  <2>1. counters \in Nat \X Nat /\ snapshots \in Nat \X Nat
    BY DEF MonitorInv, CountersTyped, counters, snapshots
  <2>2. /\ events \in Seq({"sent", "answered"}) /\ missed \in Nat
        /\ m_sentWindow \in Seq(Nat) /\ m_recvWindow \in Seq(Nat)
        /\ Len(m_sentWindow) = Len(m_recvWindow) /\ Len(m_sentWindow) <= WindowSize
        /\ lost \in Nat /\ open \in Nat
        /\ ticks \in 0..MaxTicks /\ tests \in 0..MaxTests
    BY DEF MonitorInv, SignalsTyped, WindowsTyped
  <2>3. running \in BOOLEAN /\ (pressureTimer => running)
    BY Zenon DEF RampRuns
  <2>4. m_currentFreq \in StartFreq..(MaxFreq + StepFreq - 1)
    BY DEF RampInBounds
  <2> QED BY <2>1, <2>2, <2>3, <2>4, Zenon DEF StressTypeOK
<1> QED BY <1>1, MonitorInvariant, ChannelTypeCorrect, RampStaysInBounds, PTL

(* The windows sum to what is counted less the first mark, and by the      *)
(* invariant that is no more than the requests without an answer and the   *)
(* answers still posted.                                                   *)
LEMMA TickShows ==
  ASSUME MonitorInv, MonitorInv', onTimerTimeout
  PROVE  lost' <= open + missed + Posted
<1>0. /\ UNCHANGED <<events, open, missed, counters>>
      /\ m_lastSentRequests' = m_sentRequestCount
      /\ m_lastReceivedResponses' = m_receivedResponseCount
  BY DEF onTimerTimeout, history
<1>1. PICK d, e : SignalMarks(d, e)'
  BY DEF MonitorInv, SignalsCovered
<1>2. Marks(d, events, EventWeight)
  BY <1>0, <1>1 DEF SignalMarks
<1>3. PICK u \in Int, v \in Int, p \in Nat :
        u = LastMark(d) /\ v = d[1] /\ p = Posted /\ u - v >= -p
  BY <1>2, PostedBounds DEF MonitorInv
<1>4. PICK room \in Nat : room = open + missed
  <2>1. \A m, n \in Nat : m + n \in Nat
    OBVIOUS
  <2>2. open \in Nat /\ missed \in Nat
    BY DEF MonitorInv, SignalsTyped
  <2> QED BY <2>1, <2>2
<1>5. WindowMarks(e, m_sentWindow', m_recvWindow') /\ LastMark(e) = Counted'
      /\ Above(Counted' + (LastMark(d) - d[1]), e, room)
  <2>1. WindowMarks(e, m_sentWindow', m_recvWindow')
    BY <1>1 DEF SignalMarks
  <2>2. LastMark(e) = m_lastSentRequests' - m_lastReceivedResponses'
    BY <1>1 DEF SignalMarks
  <2>3. LastMark(e) = Counted'
    BY <2>2, <1>0 DEF Counted, counters
  <2>4. Above(Counted' + (LastMark(d) - d[1]), e, open' + missed')
    BY <1>1 DEF SignalMarks
  <2> QED BY <2>1, <2>3, <2>4, <1>0, <1>4
<1>6. PICK k \in Nat : k = Len(m_sentWindow') /\ Len(m_recvWindow') = k
  BY LenProperties DEF MonitorInv, WindowsTyped
<1>7. e \in Seq(Int) /\ Len(e) = k + 1
      /\ \A i \in 1..k : e[i + 1] = e[i] + (m_sentWindow'[i] - m_recvWindow'[i])
  BY <1>5, <1>6 DEF WindowMarks
<1>8. m_sentWindow' \in Seq(Int) /\ m_recvWindow' \in Seq(Int)
  BY DEF MonitorInv, WindowsTyped
<1>9. Sum(m_sentWindow') - Sum(m_recvWindow') = e[k + 1] - e[1]
  <2>1. PICK a \in Seq(Int), b \in Seq(Int) : a = m_sentWindow' /\ b = m_recvWindow'
    BY <1>8
  <2>2. Len(a) = k /\ Len(b) = Len(a) /\ Len(e) = Len(a) + 1
    BY <2>1, <1>6, <1>7
  <2>3. \A i \in 1..Len(a) : e[i + 1] = e[i] + (a[i] - b[i])
    BY <2>1, <2>2, <1>7
  <2>4. Sum(a) - Sum(b) = e[Len(a) + 1] - e[1]
    BY <2>2, <2>3, <1>7, SumDifference
  <2> QED BY <2>1, <2>2, <2>4
<1>10. PICK x \in Int, y \in Int : x = e[k + 1] /\ y = e[1] /\ x = Counted'
  <2>1. k + 1 \in 1..(k + 1) /\ 1 \in 1..(k + 1)
    OBVIOUS
  <2> QED BY <2>1, <1>5, <1>7, ElementOfSeq DEF LastMark
<1>11. (x + (u - v)) - y <= room
  <2>1. 1 \in 1..Len(e)
    BY <1>7
  <2> QED BY <2>1, <1>3, <1>5, <1>10 DEF Above
<1>12. x - y <= room + p
  BY <1>3, <1>11
<1>13. lost' = 0 \/ lost' = x - y
  BY <1>9, <1>10, LostIs DEF MonitorInv
<1>14. lost' <= room + p
  BY <1>12, <1>13
<1> QED BY <1>3, <1>4, <1>14

(* A tick shows no more requests as lost (stresstestmonitor.cpp:116-137)   *)
(* than have no answer yet, were answered while the channel was deaf or    *)
(* have their answer posted and not counted, however requests, answers,    *)
(* lost answers, device errors, ticks, stops and new tests interleave; for *)
(* every size of the window and any number of requests.                    *)
THEOREM LossShownAccounted == MSpec => LossAccounted
<1>1. MonitorInv /\ MonitorInv' => [onTimerTimeout => lost' <= open + missed + Posted]_stress_vars
  BY TickShows
<1>2. MonitorInv /\ [MNext]_stress_vars /\ MonitorInv'
      => [onTimerTimeout => lost' <= open + missed + Posted]_stress_vars
  BY <1>1
<1> QED BY <1>2, MonitorInvariant, PTL DEF MSpec, LossAccounted
=============================================================================
