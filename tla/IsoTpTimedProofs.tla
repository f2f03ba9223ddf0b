-------------------------- MODULE IsoTpTimedProofs --------------------------
(***************************************************************************)
(* Proofs about module IsoTpTimed: with round trips no longer than N_Bs,   *)
(* the timers and polls of the code keep the premise the other theorems    *)
(* about the transport start from.  The argument is the age of send_timer  *)
(* added to what is left of a frame's delay: it never exceeds one delay    *)
(* for a frame and two for its answer, and time does not pass a frame that *)
(* is due.  The second part is about calm behaviours, in which the client  *)
(* gives nothing up: the same argument for the receiver's timer, whose     *)
(* next frame may still wait for the sender's poll.                        *)
(***************************************************************************)
EXTENDS IsoTpTimed, IsoTpProofs

Delay == 0..MaxDelay

DueInv ==
  /\ data_due \in Seq(Delay) /\ Len(data_due) = Len(data_bus)
  /\ fc_due \in Seq(Delay) /\ Len(fc_due) = Len(fc_bus)
  /\ age_bs \in Nat

AnswerInTime ==
  InProgress =>
    /\ \A i \in 1..Len(data_due) : data_due[i] + age_bs <= MaxDelay
    /\ \A i \in 1..Len(fc_due) : fc_due[i] + age_bs <= 2 * MaxDelay

TimedInv == IInv /\ DueInv /\ AnswerInTime
-----------------------------------------------------------------------------
(* A bus stays as it is, loses its oldest frame or gains one.              *)
Moves(q, r) == \/ r = q
               \/ q # <<>> /\ r = Tail(q)
               \/ Len(r) = Len(q) + 1

(* A step of the link keeps the delays of the frames on a bus; the frame   *)
(* it puts there gets one of its own.                                      *)
Kept(due, due2) ==
  \A i \in 1..Len(due2) : \E j \in 1..Len(due) : due2[i] = due[j]
Grown(due, due2) ==
  \A i \in 1..Len(due2) :
    \/ \E j \in 1..Len(due) : due2[i] = due[j]
    \/ due2[i] \in Delay

LEMMA DueMoves ==
  ASSUME NEW F, NEW q \in Seq(F), NEW r \in Seq(F), Moves(q, r),
         NEW due \in Seq(Delay), Len(due) = Len(q), NEW delay \in Delay
  PROVE  /\ Due(due, q, r, delay) \in Seq(Delay)
         /\ Len(Due(due, q, r, delay)) = Len(r)
         /\ \/ Kept(due, Due(due, q, r, delay))
            \/ Len(r) = Len(q) + 1 /\ Grown(due, Due(due, q, r, delay))
<1>1. CASE r = q
  BY <1>1 DEF Due, Kept
<1>2. CASE q # <<>> /\ r = Tail(q)
  <2>1. Len(r) < Len(q) /\ ~(Len(r) > Len(q)) /\ Len(q) # 0 /\ Len(r) = Len(q) - 1
    BY <1>2
  <2>2. due # <<>>
    BY <2>1
  <2>3. /\ Tail(due) \in Seq(Delay) /\ Len(Tail(due)) = Len(r)
        /\ \A i \in 1..Len(Tail(due)) : i + 1 \in 1..Len(due) /\ Tail(due)[i] = due[i + 1]
    BY <2>1, <2>2
  <2>4. Due(due, q, r, delay) = Tail(due)
    BY <2>1 DEF Due
  <2>5. Kept(due, Tail(due))
    BY <2>3 DEF Kept
  <2> QED BY <2>3, <2>4, <2>5
<1>3. CASE Len(r) = Len(q) + 1
  <2>1. Len(r) > Len(q)
    BY <1>3
  <2>2. /\ Append(due, delay) \in Seq(Delay) /\ Len(Append(due, delay)) = Len(r)
        /\ \A i \in 1..Len(due) : Append(due, delay)[i] = due[i]
        /\ Append(due, delay)[Len(due) + 1] = delay
        /\ \A i \in 1..Len(r) : i \in 1..Len(due) \/ i = Len(due) + 1
    BY <1>3, AppendProperties
  <2>3. Due(due, q, r, delay) = Append(due, delay)
    BY <2>1 DEF Due
  <2>4. Grown(due, Append(due, delay))
    <3> DEFINE more == Append(due, delay)
    <3>1. /\ Len(more) = Len(r) /\ more[Len(due) + 1] \in Delay
          /\ \A i \in 1..Len(due) : more[i] = due[i]
      BY <2>2
    <3> HIDE DEF more
    <3>2. Grown(due, more)
      BY <2>2, <3>1 DEF Grown
    <3> QED BY <3>2 DEF more
  <2> QED BY <1>3, <2>2, <2>3, <2>4
<1> QED BY <1>1, <1>2, <1>3 DEF Moves

LEMMA BusLengths ==
  ASSUME TypeOK PROVE Len(data_bus) \in Nat /\ Len(fc_bus) \in Nat
BY DEF TypeOK

LEMMA NextMoves ==
  ASSUME TypeOK, [Next]_vars
  PROVE  Moves(data_bus, data_bus') /\ Moves(fc_bus, fc_bus')
<1> USE DEF Moves, TypeOK
<1>1. ASSUME NEW f, data_bus' = Append(data_bus, f) PROVE Len(data_bus') = Len(data_bus) + 1
  BY <1>1
<1>2. ASSUME NEW f, fc_bus' = Append(fc_bus, f) PROVE Len(fc_bus') = Len(fc_bus) + 1
  BY <1>2
<1>3. CASE Send \/ PollSend
  BY <1>1, <1>3 DEF Send, SendSingle, SendFirst, PollSend
<1>4. CASE OnFlowControl \/ LoseFlowControl \/ LoseData \/ OnSingleFrame
  BY <1>4 DEF OnFlowControl, LoseFlowControl, LoseData, OnSingleFrame, IsHead
<1>5. CASE OnFirstFrame
  BY <1>2, <1>5 DEF OnFirstFrame, IsHead, StartReception
<1>6. CASE OnConsecutiveFrame
  BY <1>2, <1>6 DEF OnConsecutiveFrame, IsHead, MessageComplete, BlockContinues,
                    BlockComplete
<1>7. CASE TimeoutBs \/ TimeoutCr \/ RestartSender \/ RestartReceiver \/ UNCHANGED vars
  BY <1>7 DEF TimeoutBs, TimeoutCr, RestartSender, ResetSender, RestartReceiver, vars
<1> QED BY <1>3, <1>4, <1>5, <1>6, <1>7 DEF Next

LEMMA DueStep ==
  ASSUME TypeOK, TypeOK', [Next]_vars, DueInv, OnTheBuses, age_bs' \in Nat
  PROVE  /\ DueInv'
         /\ \/ Kept(data_due, data_due')
            \/ Len(data_bus') = Len(data_bus) + 1 /\ Grown(data_due, data_due')
         /\ \/ Kept(fc_due, fc_due')
            \/ Len(fc_bus') = Len(fc_bus) + 1 /\ Grown(fc_due, fc_due')
<1>1. PICK delay \in Delays :
        /\ data_due' = Due(data_due, data_bus, data_bus', delay)
        /\ fc_due' = Due(fc_due, fc_bus, fc_bus', delay)
  BY DEF OnTheBuses
<1>2. delay \in Delay
  BY <1>1, TimedAssumption DEF Delays, Delay
<1>3. /\ data_bus \in Seq(Frame) /\ data_bus' \in Seq(Frame)
      /\ fc_bus \in Seq(FCFrame) /\ fc_bus' \in Seq(FCFrame)
  BY DEF TypeOK, FCFrame
<1>4. Moves(data_bus, data_bus') /\ Moves(fc_bus, fc_bus')
  BY NextMoves
<1>5. /\ data_due' \in Seq(Delay) /\ Len(data_due') = Len(data_bus')
      /\ \/ Kept(data_due, data_due')
         \/ Len(data_bus') = Len(data_bus) + 1 /\ Grown(data_due, data_due')
  <2>1. data_due \in Seq(Delay) /\ Len(data_due) = Len(data_bus)
    BY DEF DueInv
  <2> QED BY <1>1, <1>2, <1>3, <1>4, <2>1, DueMoves
<1>6. /\ fc_due' \in Seq(Delay) /\ Len(fc_due') = Len(fc_bus')
      /\ \/ Kept(fc_due, fc_due')
         \/ Len(fc_bus') = Len(fc_bus) + 1 /\ Grown(fc_due, fc_due')
  <2>1. fc_due \in Seq(Delay) /\ Len(fc_due) = Len(fc_bus)
    BY DEF DueInv
  <2> QED BY <1>1, <1>2, <1>3, <1>4, <2>1, DueMoves
<1> QED BY <1>5, <1>6 DEF DueInv

(* A due frame of a sender that has not waited yet.                        *)
LEMMA FreshAge ==
  ASSUME DueInv, age_bs = 0
  PROVE  AnswerInTime
<1>1. \A d \in Delay : d + 0 <= MaxDelay /\ d + 0 <= 2 * MaxDelay
  BY TimedAssumption DEF Delay
<1> QED BY <1>1 DEF AnswerInTime, DueInv

(* While the timer stands still and no frame is added nothing changes.     *)
LEMMA SameAge ==
  ASSUME AnswerInTime, age_bs' = age_bs, InProgress' => InProgress,
         Kept(data_due, data_due'), Kept(fc_due, fc_due')
  PROVE  AnswerInTime'
BY DEF AnswerInTime, Kept

(* What the invariant is for: an expired N_Bs finds both buses empty.      *)
LEMMA ExpiredQuiet ==
  ASSUME TimedInv, InProgress, age_bs > Timeout
  PROVE  BusesQuiet
<1>1. /\ Timeout \in Nat /\ MaxDelay \in Nat /\ 2 * MaxDelay <= Timeout
      /\ age_bs \in Nat
  BY TimedAssumption DEF TimedInv, DueInv
<1>2. ASSUME data_bus # <<>> PROVE FALSE
  <2>1. 1 \in 1..Len(data_due) /\ data_due[1] \in Delay
    BY <1>2 DEF TimedInv, DueInv, IInv, TypeOK
  <2>2. data_due[1] + age_bs <= MaxDelay
    BY <2>1 DEF TimedInv, AnswerInTime
  <2> QED BY <1>1, <2>1, <2>2 DEF Delay
<1>3. ASSUME fc_bus # <<>> PROVE FALSE
  <2>1. 1 \in 1..Len(fc_due) /\ fc_due[1] \in Delay
    BY <1>3 DEF TimedInv, DueInv, IInv, TypeOK
  <2>2. fc_due[1] + age_bs <= 2 * MaxDelay
    BY <2>1 DEF TimedInv, AnswerInTime
  <2> QED BY <1>1, <2>1, <2>2 DEF Delay
<1> QED BY <1>2, <1>3 DEF BusesQuiet

LEMMA TimedNextTimely ==
  ASSUME TimedInv, [TNext]_timed_vars
  PROVE  [TimelyNext]_vars
<1>1. CASE age_bs > Timeout /\ TimeoutBs
  <2>1. BusesQuiet
    BY <1>1, ExpiredQuiet DEF TimeoutBs, InProgress
  <2> QED BY <1>1, <2>1 DEF TimelyNext
<1> QED
  BY <1>1
  DEF TNext, isotp_send, Runs, Tick, PollSendHalf, PollReceiveHalf, DataArrives,
      FlowControlArrives, Lose, TimelyNext, timed_vars, vars
-----------------------------------------------------------------------------
(***************************************************************************)
(* Each action keeps the bound on the age.                                 *)
(***************************************************************************)
LEMMA LinkKept ==
  ASSUME TimedInv, [TNext]_timed_vars
  PROVE  /\ [Next]_vars /\ TypeOK /\ TypeOK' /\ IInv'
<1>1. [TimelyNext]_vars
  BY TimedNextTimely
<1>2. IInv'
  BY <1>1, IInvStep DEF TimedInv
<1> QED BY <1>1, <1>2 DEF TimelyNext, Next, TimedInv, IInv

LEMMA DataArrivesStep ==
  ASSUME TimedInv, TNext, DataArrives
  PROVE  DueInv' /\ AnswerInTime'
<1> USE DEF TimedInv
<1>1. [Next]_vars /\ TypeOK /\ TypeOK'
  BY LinkKept
<1>2. /\ age_bs' = age_bs /\ age_bs \in Nat /\ InProgress' = InProgress
      /\ data_bus # <<>> /\ Head(data_due) = 0 /\ data_bus' = Tail(data_bus)
      /\ OnTheBuses
  BY DEF DataArrives, DueInv, OnSingleFrame, OnFirstFrame, OnConsecutiveFrame,
         send_vars, InProgress
<1>3. Len(data_bus') # Len(data_bus) + 1
  BY <1>1, <1>2 DEF TypeOK
<1>4. DueInv' /\ Kept(data_due, data_due') /\ Grown(fc_due, fc_due')
  BY <1>1, <1>2, <1>3, DueStep DEF Kept, Grown
<1>5. ASSUME InProgress
      PROVE  /\ \A i \in 1..Len(data_due') : data_due'[i] + age_bs <= MaxDelay
             /\ \A i \in 1..Len(fc_due') : fc_due'[i] + age_bs <= 2 * MaxDelay
  <2>1. age_bs <= MaxDelay
    <3>1. 1 \in 1..Len(data_due) /\ data_due[1] = 0
      BY <1>1, <1>2 DEF DueInv, TypeOK
    <3>2. data_due[1] + age_bs <= MaxDelay
      BY <1>5, <3>1 DEF AnswerInTime
    <3> QED BY <1>2, <3>1, <3>2
  <2>2. \A d \in Delay : d + age_bs <= 2 * MaxDelay
    BY <1>2, <2>1, TimedAssumption DEF Delay
  <2> QED BY <1>4, <1>5, <2>2 DEF Kept, Grown, AnswerInTime
<1> QED BY <1>2, <1>4, <1>5 DEF AnswerInTime

LEMMA TickStep ==
  ASSUME TimedInv, TNext, Tick
  PROVE  DueInv' /\ AnswerInTime'
<1> USE DEF TimedInv
<1>1. /\ UNCHANGED <<data_bus, fc_bus, send_status>>
      /\ age_bs' = Later(age_bs, send_status)
      /\ data_due' = Sooner(data_due) /\ fc_due' = Sooner(fc_due)
      /\ data_bus # <<>> => Head(data_due) > 0
      /\ fc_bus # <<>> => Head(fc_due) > 0
  BY DEF Tick, vars, send_vars
<1>2. /\ data_due \in Seq(Delay) /\ Len(data_due) = Len(data_bus)
      /\ fc_due \in Seq(Delay) /\ Len(fc_due) = Len(fc_bus)
      /\ age_bs \in Nat /\ Timeout \in Nat /\ MaxDelay \in Nat
      /\ data_bus \in Seq(Frame) /\ fc_bus \in Seq(FCFrame)
  BY TimedAssumption DEF DueInv, IInv, TypeOK
<1>3. age_bs' \in Nat /\ age_bs' <= age_bs + 1
  BY <1>1, <1>2 DEF Later, Smaller
<1>4. \A due \in Seq(Delay) :
        /\ Sooner(due) \in Seq(Delay) /\ Len(Sooner(due)) = Len(due)
        /\ \A i \in 1..Len(due) :
             Sooner(due)[i] = IF due[i] > 0 THEN due[i] - 1 ELSE 0
  <2> SUFFICES ASSUME NEW due \in Seq(Delay)
               PROVE  /\ Sooner(due) \in Seq(Delay) /\ Len(Sooner(due)) = Len(due)
                      /\ \A i \in 1..Len(due) :
                           Sooner(due)[i] = IF due[i] > 0 THEN due[i] - 1 ELSE 0
    OBVIOUS
  <2>1. \A d \in Delay : (IF d > 0 THEN d - 1 ELSE 0) \in Delay
    BY <1>2 DEF Delay
  <2>2. \A i \in 1..Len(due) : (IF due[i] > 0 THEN due[i] - 1 ELSE 0) \in Delay
    BY <2>1
  <2>3. Len(due) \in Nat
    OBVIOUS
  <2> QED BY <2>2, <2>3 DEF Sooner
<1>5. DueInv'
  BY <1>1, <1>2, <1>3, <1>4 DEF DueInv
<1>6. ASSUME NEW due \in Seq(Delay), NEW bound \in Nat, due # <<>> => Head(due) > 0,
             \A i \in 1..Len(due) : due[i] + age_bs <= bound
      PROVE  \A i \in 1..Len(due) : Sooner(due)[i] + age_bs' <= bound
  <2> SUFFICES ASSUME NEW i \in 1..Len(due)
               PROVE  Sooner(due)[i] + age_bs' <= bound
    OBVIOUS
  <2>1. due[1] \in Nat /\ due[i] \in Nat /\ 1 \in 1..Len(due)
    BY <1>2 DEF Delay
  <2>2. due[1] > 0
    BY <1>6, <2>1
  <2>3. due[1] + age_bs <= bound /\ due[i] + age_bs <= bound
    BY <1>6, <2>1
  <2>4. Sooner(due)[i] = IF due[i] > 0 THEN due[i] - 1 ELSE 0
    BY <1>4
  <2>5. CASE due[i] > 0
    <3>1. Sooner(due)[i] = due[i] - 1
      BY <2>4, <2>5
    <3> QED BY <1>2, <1>3, <2>1, <2>3, <3>1
  <2>6. CASE ~(due[i] > 0)
    <3>1. Sooner(due)[i] = 0
      BY <2>4, <2>6
    <3>2. age_bs' <= bound
      BY <1>2, <1>3, <2>1, <2>2, <2>3
    <3>3. \A a \in Nat : 0 + a = a
      OBVIOUS
    <3> QED BY <1>3, <3>1, <3>2, <3>3
  <2> QED BY <2>5, <2>6
<1>7. ASSUME InProgress
      PROVE  /\ \A i \in 1..Len(data_due') : data_due'[i] + age_bs' <= MaxDelay
             /\ \A i \in 1..Len(fc_due') : fc_due'[i] + age_bs' <= 2 * MaxDelay
  <2>1. /\ \A i \in 1..Len(data_due) : data_due[i] + age_bs <= MaxDelay
        /\ \A i \in 1..Len(fc_due) : fc_due[i] + age_bs <= 2 * MaxDelay
    BY <1>7 DEF AnswerInTime
  <2>2. /\ data_due # <<>> => Head(data_due) > 0
        /\ fc_due # <<>> => Head(fc_due) > 0
    BY <1>1, <1>2
  <2>3. 2 * MaxDelay \in Nat
    BY <1>2
  <2>4. \A i \in 1..Len(data_due) : Sooner(data_due)[i] + age_bs' <= MaxDelay
    BY <1>2, <1>6, <2>1, <2>2
  <2>5. \A i \in 1..Len(fc_due) : Sooner(fc_due)[i] + age_bs' <= 2 * MaxDelay
    BY <1>2, <1>6, <2>1, <2>2, <2>3
  <2> QED BY <1>1, <1>2, <1>4, <2>4, <2>5
<1> QED BY <1>1, <1>5, <1>7 DEF AnswerInTime, InProgress

LEMMA PollSendHalfStep ==
  ASSUME TimedInv, TNext, PollSendHalf
  PROVE  DueInv' /\ AnswerInTime'
<1> USE DEF TimedInv
<1>1. [Next]_vars /\ TypeOK /\ TypeOK' /\ OnTheBuses /\ age_bs \in Nat
  BY LinkKept DEF PollSendHalf, DueInv
<1>2. CASE PollSend /\ age_bs' = 0
  <2>1. DueInv'
    BY <1>1, <1>2, DueStep, 0 \in Nat
  <2>2. (DueInv /\ age_bs = 0 => AnswerInTime)'
    BY FreshAge, PTL
  <2> QED BY <1>2, <2>1, <2>2
<1>3. CASE TimeoutBs /\ UNCHANGED age_bs
  <2>1. DueInv'
    BY <1>1, <1>3, DueStep
  <2>2. ~InProgress'
    BY <1>3 DEF TimeoutBs, InProgress
  <2> QED BY <2>1, <2>2 DEF AnswerInTime
<1>4. CASE UNCHANGED <<vars, age_bs>>
  <2>1. /\ DueInv' /\ Kept(data_due, data_due') /\ Kept(fc_due, fc_due')
        /\ InProgress' = InProgress
    <3>1. Len(data_bus') # Len(data_bus) + 1 /\ Len(fc_bus') # Len(fc_bus) + 1
      <4>1. data_bus' = data_bus /\ fc_bus' = fc_bus
        BY <1>4 DEF vars
      <4>2. Len(data_bus) \in Nat /\ Len(fc_bus) \in Nat
        BY <1>1, BusLengths
      <4> QED BY <4>1, <4>2
    <3>2. InProgress' = InProgress
      BY <1>4 DEF vars, send_vars, InProgress
    <3> QED BY <1>1, <1>4, <3>1, <3>2, DueStep
  <2> QED BY <1>4, <2>1, SameAge
<1> QED BY <1>2, <1>3, <1>4 DEF PollSendHalf

LEMMA OtherSteps ==
  ASSUME TimedInv, TNext,
         isotp_send \/ PollReceiveHalf \/ FlowControlArrives \/ Lose
  PROVE  DueInv' /\ AnswerInTime'
<1> USE DEF TimedInv
<1>1. [Next]_vars /\ TypeOK /\ TypeOK' /\ age_bs \in Nat
  BY LinkKept DEF DueInv
<1>2. (DueInv /\ age_bs = 0 => AnswerInTime)'
  BY FreshAge, PTL
<1>3. CASE isotp_send
  <2>1. age_bs' \in Nat /\ OnTheBuses /\ (InProgress' => age_bs' = 0)
    BY <1>1, <1>3 DEF isotp_send, StartBs, InProgress
  <2>2. DueInv'
    BY <1>1, <2>1, DueStep
  <2> QED BY <1>2, <2>1, <2>2 DEF AnswerInTime
<1>4. CASE PollReceiveHalf
  <2>1. UNCHANGED <<data_bus, fc_bus, data_due, fc_due, age_bs, send_status>>
    BY <1>4 DEF PollReceiveHalf, TimeoutCr, vars, send_vars
  <2> QED BY <2>1 DEF DueInv, AnswerInTime, InProgress
<1>5. CASE FlowControlArrives
  <2>1. /\ age_bs' \in Nat /\ OnTheBuses
        /\ InProgress' => age_bs' = 0
    BY <1>1, <1>5 DEF FlowControlArrives, OnFlowControl, InProgress, send_vars
  <2>2. DueInv'
    BY <1>1, <2>1, DueStep
  <2> QED BY <1>2, <2>1, <2>2 DEF AnswerInTime
<1>6. CASE Lose
  <2>1. /\ OnTheBuses /\ age_bs' = age_bs /\ InProgress' = InProgress
        /\ Len(data_bus') # Len(data_bus) + 1 /\ Len(fc_bus') # Len(fc_bus) + 1
    <3>1. \/ data_bus # <<>> /\ data_bus' = Tail(data_bus) /\ UNCHANGED fc_bus
          \/ fc_bus # <<>> /\ fc_bus' = Tail(fc_bus) /\ UNCHANGED data_bus
      BY <1>6 DEF Lose, LoseData, LoseFlowControl
    <3>2. data_bus \in Seq(Frame) /\ fc_bus \in Seq(FCFrame)
      BY <1>1 DEF TypeOK
    <3>3. Len(data_bus') # Len(data_bus) + 1 /\ Len(fc_bus') # Len(fc_bus) + 1
      BY <3>1, <3>2
    <3> QED BY <1>6, <3>3 DEF Lose, LoseData, LoseFlowControl, InProgress, send_vars
  <2>2. DueInv' /\ Kept(data_due, data_due') /\ Kept(fc_due, fc_due')
    BY <1>1, <2>1, DueStep
  <2> QED BY <2>1, <2>2, SameAge
<1> QED BY <1>3, <1>4, <1>5, <1>6
-----------------------------------------------------------------------------
LEMMA TimedInit == TInit => TimedInv
<1> SUFFICES ASSUME TInit PROVE TimedInv
  OBVIOUS
<1>1. IInv
  BY IInvInit DEF TInit
<1>2. DueInv
  BY DEF TInit, Init, DueInv
<1> QED BY <1>1, <1>2, FreshAge DEF TInit, TimedInv

LEMMA TimedStep ==
  ASSUME TimedInv, [TNext]_timed_vars
  PROVE  TimedInv'
<1>1. IInv'
  BY LinkKept
<1>2. CASE UNCHANGED timed_vars
  BY <1>1, <1>2 DEF timed_vars, vars, send_vars, TimedInv, DueInv,
                    AnswerInTime, InProgress
<1>3. CASE TNext
  BY <1>1, <1>3, TickStep, PollSendHalfStep, DataArrivesStep, OtherSteps
  DEF TNext, Runs, TimedInv
<1> QED BY <1>2, <1>3

LEMMA TimedInvariance == TSpec => []TimedInv
BY TimedInit, TimedStep, PTL DEF TSpec

(* With the clock of the code a flow-control frame finds the sender        *)
(* waiting for it.                                                         *)
THEOREM TimedFlowControl == TSpec => []FlowControlFresh
<1>1. TimedInv => FlowControlFresh
  BY DEF TimedInv, IInv
<1> QED BY <1>1, TimedInvariance, PTL
(* Nor is any premise left for what the link delivers, and in which        *)
(* window: with the clock the transport keeps its promises.                *)
LEMMA TimedLink == TSpec => Init /\ [][Next]_vars /\ []IInv
<1>1. TimedInv /\ [TNext]_timed_vars => [Next]_vars
  BY LinkKept
<1>2. TimedInv => IInv
  BY DEF TimedInv
<1> QED BY <1>1, <1>2, TimedInvariance, PTL DEF TSpec, TInit

THEOREM TimedTransport == TSpec => [](Integrity /\ WithinBlock /\ BlockBound)
<1>1. IInv => Integrity /\ WithinBlock
  BY DEF IInv
<1>2. /\ IInv /\ Credit(data_bus, send_bs_remain) /\ [Next]_vars
      => Credit(data_bus, send_bs_remain)'
  BY CreditStep DEF vars, send_vars
<1> QED BY TimedLink, CreditInit, CreditBounds, <1>1, <1>2, PTL

(* And implements the abstract service.                                    *)
THEOREM TimedService == TSpec => ServiceSpec
BY TimedLink, OrderInvInit, OrderInvStep, ServiceInit, ServiceStep, PTL
DEF ServiceSpec, Service!Spec
-----------------------------------------------------------------------------
(* The link whose N_Bs cannot expire early takes the same steps.           *)
LEMMA UntimedStep ==
  ASSUME [TimelyNext]_vars
  PROVE  [Untimed!Next]_(Untimed!vars)
<1> USE DEF send_vars, Untimed!send_vars, receive_vars, Untimed!receive_vars
<1>1. CASE Send
  <2>1. ASSUME NEW size \in Sizes, SendSingle(size)
        PROVE  Untimed!SendSingle(size)
    BY <2>1 DEF SendSingle, Untimed!SendSingle, SFMax, Untimed!SFMax,
                SingleFrame, Untimed!SingleFrame, Run, Untimed!Run
  <2>2. ASSUME NEW size \in Sizes, SendFirst(size)
        PROVE  Untimed!SendFirst(size)
    BY <2>2 DEF SendFirst, Untimed!SendFirst, SFMax, Untimed!SFMax, FirstFrame,
                Untimed!FirstFrame, Run, Untimed!Run, FFData, Untimed!FFData
  <2> QED BY <1>1, <2>1, <2>2 DEF Send, Untimed!Send, Untimed!Next
<1>2. PollSend => Untimed!PollSend
  BY DEF PollSend, Untimed!PollSend, ConsecutiveFrame, Untimed!ConsecutiveFrame,
         Run, Untimed!Run, CurrentMsg, Untimed!CurrentMsg, send_size,
         Untimed!send_size, Smaller, Untimed!Smaller, CFData, Untimed!CFData,
         NextSN, Untimed!NextSN
<1>3. TimeoutBs /\ BusesQuiet => Untimed!TimeoutBs
  BY DEF TimeoutBs, Untimed!TimeoutBs, BusesQuiet, Untimed!BusesQuiet
<1>4. OnFlowControl => Untimed!OnFlowControl
  BY DEF OnFlowControl, Untimed!OnFlowControl
<1>5. RestartSender => Untimed!RestartSender
  BY DEF RestartSender, Untimed!RestartSender, ResetSender, Untimed!ResetSender,
         BusesQuiet, Untimed!BusesQuiet
<1>6. OnSingleFrame => Untimed!OnSingleFrame
  BY DEF OnSingleFrame, Untimed!OnSingleFrame, IsHead, Untimed!IsHead,
         HandOver, Untimed!HandOver
<1>7. OnFirstFrame => Untimed!OnFirstFrame
  BY DEF OnFirstFrame, Untimed!OnFirstFrame, IsHead, Untimed!IsHead, SFMax,
         Untimed!SFMax, StartReception, Untimed!StartReception, FFData,
         Untimed!FFData, FlowControl, Untimed!FlowControl
<1>8. OnConsecutiveFrame => Untimed!OnConsecutiveFrame
  <2>1. MessageComplete => Untimed!MessageComplete
    BY DEF MessageComplete, Untimed!MessageComplete, HandOver, Untimed!HandOver
  <2>2. BlockContinues => Untimed!BlockContinues
    BY DEF BlockContinues, Untimed!BlockContinues
  <2>3. BlockComplete => Untimed!BlockComplete
    BY DEF BlockComplete, Untimed!BlockComplete, FlowControl, Untimed!FlowControl
  <2>4. \A run : CopyRun(run) => Untimed!CopyRun(run)
    BY DEF CopyRun, Untimed!CopyRun, Smaller, Untimed!Smaller, CFData,
           Untimed!CFData, NextSN, Untimed!NextSN
  <2> QED BY <2>1, <2>2, <2>3, <2>4
          DEF OnConsecutiveFrame, Untimed!OnConsecutiveFrame, IsHead, Untimed!IsHead
<1>9. TimeoutCr => Untimed!TimeoutCr
  BY DEF TimeoutCr, Untimed!TimeoutCr, BusesQuiet, Untimed!BusesQuiet,
         SenderActive, Untimed!SenderActive, CrDue, Untimed!CrDue
<1>10. RestartReceiver => Untimed!RestartReceiver
  BY DEF RestartReceiver, Untimed!RestartReceiver
<1>11. LoseData => Untimed!LoseData
  BY DEF LoseData, Untimed!LoseData
<1>12. LoseFlowControl => Untimed!LoseFlowControl
  BY DEF LoseFlowControl, Untimed!LoseFlowControl
<1>13. UNCHANGED vars => UNCHANGED Untimed!vars
  BY DEF vars, Untimed!vars
<1> QED BY <1>1, <1>2, <1>3, <1>4, <1>5, <1>6, <1>7, <1>8, <1>9, <1>10, <1>11,
           <1>12, <1>13
        DEF TimelyNext, Untimed!Next

(* The clock keeps the premise of the other theorems: with round trips no  *)
(* longer than N_Bs the timer never expires while an answer is on its way, *)
(* however the polls of the two nodes fall and whatever is lost.           *)
THEOREM TimedKeepsThePremise == TSpec => KeepsThePremise
<1>1. TInit => Untimed!Init
  BY DEF TInit, Init, Untimed!Init
<1>2. TimedInv /\ [TNext]_timed_vars => [Untimed!Next]_(Untimed!vars)
  BY TimedNextTimely, UntimedStep
<1> QED BY TimedInvariance, <1>1, <1>2, PTL
        DEF TSpec, KeepsThePremise, Untimed!Spec
-----------------------------------------------------------------------------
(***************************************************************************)
(* Calm behaviours of the client: nothing is lost, each frame takes as     *)
(* long as the last and the timers are exact.                              *)
(***************************************************************************)
(* The two halves are at the same message.  Up to which byte the frames of *)
(* the message being received have been sent; the i-th frame on the bus    *)
(* starts at AtByte(i) if it is one of them.                               *)
SameTransfer == InProgress /\ Receiving /\ ReceiveMsg = CurrentMsg
AtByte(i)    == receive_offset + CFData * (i - 1)
SentUpTo     == IF SameTransfer THEN send_offset ELSE receive_size

(* They are on the bus without a gap, in front of whatever follows.        *)
Stream ==
  Receiving =>
    /\ \A i \in Bus : IsCF(i) <=> AtByte(i) < SentUpTo
    /\ \A i \in Bus : IsCF(i) => data_bus[i].data = Run(ReceiveMsg, AtByte(i))
    /\ SentUpTo <= receive_offset + CFData * Len(data_bus)

(* So the sender is ahead by what is on the bus, in bytes and in credit.   *)
Level ==
  SameTransfer =>
    /\ send_offset = receive_offset + CFData * Len(data_bus)
    /\ fc_bus = <<>> => send_bs_remain + Len(data_bus) = receive_bs_count

(* Nobody sends what nobody receives.                                      *)
Listens ==
  /\ ~Receiving => NoCF
  /\ InProgress /\ send_bs_remain > 0 => Receiving

(* An answer is right: a grant to one who listens, a refusal of what is    *)
(* too long.                                                               *)
AnswerRight ==
  fc_bus # <<>> =>
    \/ Head(fc_bus) = FlowControl("CONTINUE", BlockSize) /\ Receiving
    \/ Head(fc_bus).fs = "OVERFLOW" /\ ~Receiving /\ ~Fits(send_size)

(* A message that fits and is not being received has its first frame, with *)
(* its length, under way.                                                  *)
Asked ==
  /\ InProgress /\ Fits(send_size) /\ ~SameTransfer
       => data_bus # <<>> /\ IsFF(Len(data_bus))
  /\ \A i \in Bus : IsFF(i) => data_bus[i].pci = send_size % DLMod

SyncInv == Stream /\ Level /\ Listens /\ AnswerRight /\ Asked

(* N_Cr waits for the frame in front, or for the answer and the frame it   *)
(* will release, or for the next poll of the client and the frame it will  *)
(* send.  Each comes in time.                                              *)
ReceiverClock ==
  Receiving =>
    /\ data_bus # <<>> => age_cr + data_due[1] <= Timeout
    /\ data_bus = <<>> /\ fc_bus # <<>>
         => age_cr + fc_due[1] + MaxDelay <= Timeout
    /\ data_bus = <<>> /\ fc_bus = <<>>
         => age_cr + MaxDelay + (IF client_polls THEN 0 ELSE next_poll["send"])
              <= Timeout

(* While it may send, the client's next poll is at most a period behind    *)
(* the last frame it sent.                                                 *)
PollClock ==
  SameTransfer /\ send_bs_remain > 0 /\ data_bus # <<>> =>
    next_poll["send"] + MaxDelay <= data_due[Len(data_due)] + Period

ClockInv ==
  /\ next_poll \in [Halves -> 0..Period] /\ age_cr \in Nat
  /\ ReceiverClock /\ PollClock
-----------------------------------------------------------------------------
LEMMA LinkTyped ==
  ASSUME TypeOK
  PROVE  /\ send_offset \in Nat /\ send_bs_remain \in Nat
         /\ receive_offset \in Nat /\ receive_size \in Nat
         /\ receive_bs_count \in Nat /\ Len(data_bus) \in Nat
         /\ Receiving => receive_bs_count > 0
BY ConstantsAssumption DEF TypeOK, Receiving

LEMMA HeadIsCF ==
  ASSUME IInv, SyncInv, Receiving, data_bus # <<>>
  PROVE  IsCF(1)
<1>1. 1 \in Bus /\ Len(data_bus) >= 1
  BY BusHead DEF IInv, Bus
<1>2. AtByte(1) < SentUpTo
  <2>1. receive_offset < receive_size
    BY DEF IInv, ReceiveInv
  <2>2. SameTransfer => send_offset > receive_offset
    BY <1>1, LinkTyped DEF SyncInv, Level, CFData, IInv
  <2> QED BY <2>1, <2>2, LinkTyped DEF AtByte, SentUpTo, CFData, IInv
<1> QED BY <1>1, <1>2 DEF SyncInv, Stream

LEMMA EmptyIsSame ==
  ASSUME IInv, SyncInv, Receiving, data_bus = <<>>
  PROVE  SameTransfer /\ (fc_bus = <<>> => send_bs_remain > 0)
<1>1. Len(data_bus) = 0
  OBVIOUS
<1>2. SameTransfer
  <2>1. receive_offset < receive_size
    BY DEF IInv, ReceiveInv
  <2> QED BY <1>1, <2>1, LinkTyped DEF SyncInv, Stream, SentUpTo, CFData, IInv
<1>3. fc_bus = <<>> => send_bs_remain > 0
  BY <1>1, <1>2, LinkTyped DEF SyncInv, Level, IInv
<1> QED BY <1>2, <1>3

LEMMA SyncSend ==
  ASSUME IInv, SyncInv, Send
  PROVE  SyncInv'
<1> USE DEF IInv
<1>1. PICK size \in Sizes : SendSingle(size) \/ SendFirst(size)
  BY DEF Send
<1>2. PICK f : /\ data_bus' = Append(data_bus, f) /\ f.type # "CF"
               /\ f.type = "FF" => f.pci = size % DLMod /\ SendFirst(size)
               /\ SendFirst(size) => f.type = "FF"
  BY <1>1 DEF SendSingle, SendFirst, SingleFrame, FirstFrame
<1>3. /\ ~InProgress /\ sent' = Append(sent, size)
      /\ UNCHANGED <<fc_bus, receive_status, receive_size, receive_offset,
                     receive_bs_count, receive_buffer>>
      /\ InProgress' => SendFirst(size) /\ send_bs_remain' = 0
  BY <1>1 DEF SendSingle, SendFirst, InProgress, receive_vars
<1>4. fc_bus = <<>>
  BY <1>3 DEF FlowControlFresh, InProgress
<1>5. /\ Len(data_bus') = Len(data_bus) + 1 /\ Len(data_bus) \in Nat
      /\ \A i \in Bus : data_bus'[i] = data_bus[i]
      /\ data_bus'[Len(data_bus) + 1] = f
      /\ Bus' = Bus \cup {Len(data_bus) + 1}
  BY <1>2, BusAppend
<1>6. CurrentMsg' = Len(sent) + 1 /\ send_size' = size /\ Len(sent) \in Nat
  BY <1>3, SentAppend
<1>7. ~SameTransfer /\ ~SameTransfer'
  <2>1. Receiving => ReceiveMsg \in 1..Len(sent)
    BY DEF ReceiveInv
  <2> QED BY <1>3, <1>6, <2>1 DEF SameTransfer, Receiving, ReceiveMsg
<1>8. Stream'
  <2> SUFFICES ASSUME Receiving
               PROVE  /\ \A i \in Bus' : data_bus'[i].type = "CF"
                                           <=> AtByte(i) < receive_size
                      /\ \A i \in Bus' : data_bus'[i].type = "CF"
                           => data_bus'[i].data = Run(ReceiveMsg, AtByte(i))
                      /\ receive_size <= receive_offset + CFData * (Len(data_bus) + 1)
    BY <1>3, <1>5, <1>7 DEF Stream, SentUpTo, AtByte, Receiving, ReceiveMsg, IsCF
  <2>1. /\ \A i \in Bus : IsCF(i) <=> AtByte(i) < receive_size
        /\ \A i \in Bus : IsCF(i) => data_bus[i].data = Run(ReceiveMsg, AtByte(i))
        /\ receive_size <= receive_offset + CFData * Len(data_bus)
    BY <1>7 DEF SyncInv, Stream, SentUpTo
  <2>2. ~(AtByte(Len(data_bus) + 1) < receive_size)
    BY <2>1, LinkTyped DEF AtByte, CFData
  <2>3. receive_size <= receive_offset + CFData * (Len(data_bus) + 1)
    BY <2>1, LinkTyped DEF CFData
  <2> QED BY <1>2, <1>5, <2>1, <2>2, <2>3 DEF IsCF
<1>9. Listens'
  <2>1. ~Receiving => NoCF'
    BY <1>2, <1>5 DEF SyncInv, Listens, NoCF, IsCF
  <2> QED BY <1>3, <2>1 DEF Listens, Receiving
<1>10. Asked'
  <2>1. InProgress' => data_bus' # <<>> /\ data_bus'[Len(data_bus')].type = "FF"
    BY <1>2, <1>3, <1>5
  <2>2. \A i \in Bus' : data_bus'[i].type = "FF" => data_bus'[i].pci = send_size' % DLMod
    BY <1>2, <1>3, <1>5, <1>6 DEF FFInv, IsFF
  <2> QED BY <2>1, <2>2 DEF Asked, IsFF
<1> QED BY <1>3, <1>4, <1>7, <1>8, <1>9, <1>10 DEF SyncInv, Level, AnswerRight

LEMMA SyncPollSend ==
  ASSUME IInv, TypeOK', SyncInv, PollSend
  PROVE  SyncInv'
<1> USE DEF IInv
<1>1. /\ InProgress /\ send_bs_remain > 0
      /\ send_offset' = send_offset + Smaller(send_size - send_offset, CFData)
      /\ send_bs_remain' = send_bs_remain - 1
      /\ InProgress' <=> ~(send_offset' >= send_size)
      /\ UNCHANGED <<sent, fc_bus, receive_status, receive_size, receive_offset,
                     receive_bs_count, receive_buffer>>
  BY DEF PollSend, InProgress, receive_vars
<1>2. SameTransfer
  BY <1>1 DEF SyncInv, Listens, WindowInv, SameTransfer
<1>3. fc_bus = <<>>
  BY <1>1 DEF FlowControlFresh
<1> DEFINE f == ConsecutiveFrame(CurrentMsg, send_offset, send_sn)
<1>4. data_bus' = Append(data_bus, f) /\ f.type = "CF" /\ f.data = Run(CurrentMsg, send_offset)
  BY DEF PollSend, ConsecutiveFrame
<1> HIDE DEF f
<1>5. /\ Len(data_bus') = Len(data_bus) + 1 /\ Len(data_bus) \in Nat
      /\ \A i \in Bus : data_bus'[i] = data_bus[i]
      /\ data_bus'[Len(data_bus) + 1] = f
      /\ Bus' = Bus \cup {Len(data_bus) + 1}
  BY <1>4, BusAppend
<1>6. /\ send_size \in Nat /\ send_offset < send_size
      /\ receive_size = send_size /\ send_size' = send_size
      /\ CurrentMsg' = CurrentMsg
  BY <1>1, <1>2, SentTyped DEF SendInv, ReceiveInv, SameTransfer, send_size, CurrentMsg
<1>7. /\ send_offset = receive_offset + CFData * Len(data_bus)
      /\ send_bs_remain + Len(data_bus) = receive_bs_count
  BY <1>2, <1>3 DEF SyncInv, Level
<1>8. /\ send_offset < send_offset' /\ send_offset' <= send_offset + CFData
      /\ InProgress' => send_offset' = send_offset + CFData
      /\ ~InProgress' => send_size <= send_offset + CFData
      /\ send_offset' \in Nat
  BY <1>1, <1>6, LinkTyped DEF Smaller, CFData
<1>9. /\ SameTransfer' <=> InProgress'
      /\ SentUpTo' = IF InProgress' THEN send_offset' ELSE receive_size
  BY <1>1, <1>2, <1>6 DEF SameTransfer, SentUpTo, Receiving, ReceiveMsg
<1>10. /\ SentUpTo' > send_offset /\ SentUpTo' <= send_offset + CFData
       /\ SentUpTo' \in Nat
  BY <1>6, <1>8, <1>9, LinkTyped
<1>11. Stream'
  <2> SUFFICES
        /\ \A i \in Bus' : data_bus'[i].type = "CF" <=> AtByte(i) < SentUpTo'
        /\ \A i \in Bus' : data_bus'[i].type = "CF"
             => data_bus'[i].data = Run(ReceiveMsg, AtByte(i))
        /\ SentUpTo' <= receive_offset + CFData * (Len(data_bus) + 1)
    BY <1>1, <1>5 DEF Stream, AtByte, Receiving, ReceiveMsg, IsCF
  <2>1. /\ \A i \in Bus : IsCF(i) <=> AtByte(i) < send_offset
        /\ \A i \in Bus : IsCF(i) => data_bus[i].data = Run(ReceiveMsg, AtByte(i))
    BY <1>2 DEF SyncInv, Stream, SentUpTo, SameTransfer
  <2>2. \A i \in Bus : AtByte(i) < send_offset
    BY <1>5, <1>7, LinkTyped DEF AtByte, CFData, Bus
  <2>3. AtByte(Len(data_bus) + 1) = send_offset
    BY <1>5, <1>7, LinkTyped DEF AtByte, CFData
  <2>4. \A i \in Bus : AtByte(i) < SentUpTo'
    <3>1. \A i \in Bus : AtByte(i) \in Int
      BY LinkTyped DEF AtByte, CFData, Bus
    <3> QED BY <2>2, <3>1, <1>10, LinkTyped
  <2>5. SentUpTo' <= receive_offset + CFData * (Len(data_bus) + 1)
    BY <1>5, <1>7, <1>10, LinkTyped DEF CFData
  <2>6. data_bus'[Len(data_bus) + 1].data = Run(ReceiveMsg, AtByte(Len(data_bus) + 1))
    BY <1>2, <1>4, <1>5, <2>3 DEF SameTransfer
  <2> QED BY <1>4, <1>5, <1>10, <2>1, <2>2, <2>3, <2>4, <2>5, <2>6 DEF IsCF
<1>12. Level'
  <2> SUFFICES ASSUME InProgress'
               PROVE  /\ send_offset' = receive_offset + CFData * (Len(data_bus) + 1)
                      /\ send_bs_remain' + (Len(data_bus) + 1) = receive_bs_count
    BY <1>1, <1>5, <1>9 DEF Level
  <2> QED BY <1>1, <1>5, <1>7, <1>8, LinkTyped, SMTT(30) DEF CFData
<1>13. Listens'
  BY <1>1, <1>2 DEF Listens, SameTransfer, Receiving
<1>14. Asked'
  <2>1. \A i \in Bus' : ~(data_bus'[i].type = "FF")
    BY <1>2, <1>4, <1>5 DEF SameTransfer, WindowInv, IsFF
  <2> QED BY <1>9, <2>1 DEF Asked, IsFF
<1> QED BY <1>1, <1>3, <1>11, <1>12, <1>13, <1>14 DEF SyncInv, AnswerRight

LEMMA SyncTimeoutBs ==
  ASSUME IInv, SyncInv, TimeoutBs, BusesQuiet
  PROVE  SyncInv' /\ ~Receiving /\ ~Fits(send_size)
<1>1. /\ InProgress /\ send_bs_remain = 0 /\ ~InProgress'
      /\ data_bus = <<>> /\ fc_bus = <<>>
      /\ UNCHANGED <<sent, data_bus, fc_bus, receive_status>>
  BY DEF TimeoutBs, BusesQuiet, InProgress, receive_vars
<1>2. ~Receiving /\ ~Receiving'
  BY <1>1, EmptyIsSame DEF Receiving
<1>3. ~Fits(send_size)
  BY <1>1, <1>2 DEF SyncInv, Asked, SameTransfer
<1>4. NoCF' /\ Bus' = {}
  BY <1>1 DEF NoCF, Bus
<1> QED BY <1>1, <1>2, <1>3, <1>4
        DEF SyncInv, Stream, Level, Listens, AnswerRight, Asked, SameTransfer

LEMMA SyncFlowControl ==
  ASSUME IInv, TypeOK', SyncInv, OnFlowControl
  PROVE  /\ SyncInv' /\ data_bus = <<>> /\ InProgress
         /\ UNCHANGED <<data_bus, receive_status>>
         /\ fc_bus' = <<>>
         /\ ~InProgress' => ~Receiving /\ ~Fits(send_size)
<1> USE DEF IInv
<1>1. /\ fc_bus # <<>> /\ fc_bus' = Tail(fc_bus)
      /\ UNCHANGED <<sent, data_bus, receive_status, receive_size, receive_offset,
                     receive_bs_count, receive_buffer>>
  BY DEF OnFlowControl, receive_vars
<1>2. /\ Len(fc_bus) = 1 /\ data_bus = <<>> /\ InProgress
      /\ Receiving => ReceiveMsg = CurrentMsg /\ receive_offset = send_offset
  BY <1>1 DEF FlowControlFresh, InProgress, Receiving, ReceiveMsg
<1>3. fc_bus' = <<>> /\ data_bus' = <<>>
  <2>1. fc_bus \in Seq(FCFrame)
    BY DEF TypeOK
  <2>2. Tail(fc_bus) \in Seq(FCFrame) /\ Len(Tail(fc_bus)) = 0
    BY <1>1, <1>2, <2>1
  <2>3. Tail(fc_bus) = <<>>
    BY <2>2, EmptySeq
  <2> QED BY <1>1, <1>2, <2>3
<1>4. CASE Head(fc_bus) = FlowControl("CONTINUE", BlockSize) /\ Receiving
  <2>1. /\ send_bs_remain' = BlockSize
        /\ UNCHANGED <<send_status, send_offset, send_sn>>
    BY <1>2, <1>4 DEF OnFlowControl, FlowControl, InProgress
  <2>2. SameTransfer' /\ Receiving' /\ receive_bs_count = BlockSize
    BY <1>1, <1>2, <1>4, <2>1
    DEF SameTransfer, InProgress, Receiving, ReceiveMsg, CurrentMsg, FCInv
  <2>3. Bus' = {} /\ Len(data_bus') = 0
    BY <1>3 DEF Bus
  <2>4. Stream' /\ Level'
    <3>1. /\ receive_offset + CFData * 0 = receive_offset
          /\ BlockSize + 0 = BlockSize
      BY ConstantsAssumption, LinkTyped DEF CFData
    <3>2. /\ receive_offset' = send_offset' /\ send_bs_remain' = receive_bs_count'
          /\ SentUpTo' = send_offset'
      BY <1>1, <1>2, <1>4, <2>1, <2>2 DEF SentUpTo
    <3>3. receive_offset' = receive_offset /\ send_bs_remain' = BlockSize
      BY <1>1, <2>1
    <3>4. /\ receive_offset' + CFData * Len(data_bus') = receive_offset'
          /\ send_bs_remain' + Len(data_bus') = receive_bs_count'
      BY <2>3, <3>1, <3>2, <3>3
    <3>5. receive_offset' <= receive_offset'
      BY <3>3, LinkTyped
    <3> QED BY <2>3, <3>2, <3>4, <3>5 DEF Stream, Level
  <2> QED BY <1>1, <1>2, <1>3, <1>4, <2>1, <2>2, <2>3, <2>4
          DEF SyncInv, Listens, AnswerRight, Asked, InProgress
<1>5. CASE Head(fc_bus).fs = "OVERFLOW" /\ ~Receiving /\ ~Fits(send_size)
  <2>1. ~InProgress' /\ ~Receiving'
    BY <1>1, <1>2, <1>5 DEF OnFlowControl, InProgress, Receiving
  <2>2. Bus' = {} /\ NoCF'
    BY <1>3 DEF Bus, NoCF
  <2> QED BY <1>1, <1>2, <1>3, <1>5, <2>1, <2>2
          DEF SyncInv, Stream, Level, Listens, AnswerRight, Asked, SameTransfer
<1> QED BY <1>1, <1>4, <1>5 DEF SyncInv, AnswerRight

(* A frame that starts a message finds the receiver idle.                  *)
LEMMA StartFindsIdle ==
  ASSUME IInv, SyncInv, IsHead("SF") \/ IsHead("FF")
  PROVE  ~Receiving
<1>1. data_bus # <<>> /\ data_bus[1].type # "CF"
  BY BusHead DEF IsHead, IInv
<1> QED BY <1>1, HeadIsCF DEF IsCF

(* What is asked stays asked while the frame in front is not the question. *)
LEMMA AskedTail ==
  ASSUME IInv, SyncInv, data_bus # <<>>, ~IsHead("FF"), data_bus' = Tail(data_bus),
         UNCHANGED <<sent, send_vars>>, SameTransfer => SameTransfer'
  PROVE  Asked'
<1>1. /\ Len(data_bus') = Len(data_bus) - 1 /\ Len(data_bus) \in Nat /\ Len(data_bus) > 0
      /\ \A i \in 1..Len(data_bus') :
           i + 1 \in Bus /\ data_bus'[i] = data_bus[i + 1]
  BY BusTail, BusHead DEF IInv, Bus
<1>2. InProgress' = InProgress /\ send_size' = send_size
  BY DEF send_vars, InProgress, send_size, CurrentMsg
<1>3. ASSUME InProgress, Fits(send_size), ~SameTransfer'
      PROVE  data_bus' # <<>> /\ data_bus'[Len(data_bus')].type = "FF"
  <2>1. IsFF(Len(data_bus))
    BY <1>3 DEF SyncInv, Asked
  <2>2. Len(data_bus) # 1
    BY <2>1, BusHead DEF IsHead, IsFF, IInv
  <2>3. Len(data_bus') \in 1..Len(data_bus') /\ Len(data_bus') + 1 = Len(data_bus)
    BY <1>1, <2>2
  <2>4. data_bus'[Len(data_bus')] = data_bus[Len(data_bus)]
    BY <1>1, <2>3
  <2>5. data_bus' # <<>>
    <3>1. data_bus' = <<>> => Len(data_bus') = 0
      OBVIOUS
    <3>2. 0 \notin 1..0
      OBVIOUS
    <3> QED BY <2>3, <3>1, <3>2
  <2> QED BY <2>1, <2>4, <2>5 DEF IsFF
<1>4. \A i \in Bus' : data_bus'[i].type = "FF" => data_bus'[i].pci = send_size % DLMod
  BY <1>1 DEF SyncInv, Asked, IsFF, Bus
<1> QED BY <1>2, <1>3, <1>4 DEF Asked, IsFF

LEMMA SyncSingleFrame ==
  ASSUME IInv, SyncInv, OnSingleFrame
  PROVE  SyncInv' /\ ~Receiving /\ ~Receiving'
<1> USE DEF IInv
<1>1. /\ ~Receiving /\ ~Receiving' /\ data_bus # <<>> /\ ~IsHead("FF")
      /\ data_bus' = Tail(data_bus) /\ UNCHANGED <<sent, send_vars, fc_bus>>
  BY StartFindsIdle DEF OnSingleFrame, HandOver, Receiving, IsHead
<1>2. ~SameTransfer /\ ~SameTransfer' /\ fc_bus = <<>>
  BY <1>1 DEF SameTransfer, FlowControlFresh
<1>3. NoCF'
  <2>1. NoCF
    BY <1>1 DEF SyncInv, Listens
  <2> QED BY <1>1, <2>1, BusTail DEF NoCF, Bus, IsCF
<1>4. ~(InProgress' /\ send_bs_remain' > 0)
  BY <1>1 DEF SyncInv, Listens, send_vars, InProgress
<1>5. Asked'
  BY <1>1, <1>2, AskedTail
<1> QED BY <1>1, <1>2, <1>3, <1>4, <1>5
        DEF SyncInv, Stream, Level, Listens, AnswerRight

LEMMA SyncFirstFrame ==
  ASSUME IInv, TypeOK', SyncInv, OnFirstFrame
  PROVE  /\ SyncInv' /\ ~Receiving /\ data_bus' = <<>>
         /\ Receiving' => fc_bus = <<>> /\ Len(fc_bus') = 1
<1> USE DEF IInv
<1> DEFINE f == Head(data_bus)
<1>1. /\ ~Receiving /\ data_bus # <<>> /\ f = data_bus[1] /\ 1 \in Bus /\ IsFF(1)
      /\ data_bus' = Tail(data_bus) /\ UNCHANGED <<sent, send_vars>>
      /\ Len(data_bus) \in Nat
  BY StartFindsIdle, BusHead DEF OnFirstFrame, IsHead, IsFF
<1>2. /\ 1 = Len(data_bus) /\ fc_bus = <<>> /\ InProgress /\ send_bs_remain = 0
      /\ send_offset = FFData /\ f.data = Run(CurrentMsg, 0)
      /\ f.pci \in {0, send_size} /\ f.pci = send_size % DLMod
  BY <1>1 DEF FFInv, SyncInv, Asked
<1>3. data_bus' = <<>> /\ Len(data_bus') = 0 /\ Bus' = {} /\ NoCF'
  BY <1>1, <1>2, BusTail DEF Bus, NoCF
<1>4. /\ InProgress' /\ send_bs_remain' = 0 /\ send_offset' = FFData
      /\ CurrentMsg' = CurrentMsg /\ send_size' = send_size
  BY <1>1, <1>2 DEF send_vars, InProgress, CurrentMsg, send_size
<1>5. send_size \in Nat /\ send_size > SFMax
  BY <1>2, SentTyped DEF SendInv
<1>6. CASE f.pci <= SFMax /\ UNCHANGED <<fc_bus, receive_vars>>
  <2>1. ~Fits(send_size)
    <3>1. send_size < DLMod => send_size % DLMod = send_size
      BY <1>5, ConstantsAssumption
    <3>2. send_size % DLMod <= SFMax
      BY <1>2, <1>6
    <3> QED BY <1>5, <3>1, <3>2 DEF Fits, SFMax
  <2>2. ~Receiving' /\ fc_bus' = <<>>
    BY <1>1, <1>2, <1>6 DEF receive_vars, Receiving
  <2> QED BY <1>1, <1>3, <1>4, <2>1, <2>2
          DEF SyncInv, Stream, Level, Listens, AnswerRight, Asked, SameTransfer
<1>7. CASE /\ f.pci > SFMax /\ f.pci > RecvBuf
           /\ receive_status' = "IDLE"
           /\ fc_bus' = Append(fc_bus, FlowControl("OVERFLOW", 0))
  <2>1. ~Fits(send_size)
    BY <1>2, <1>5, <1>7, ConstantsAssumption DEF Fits, SFMax
  <2>2. ~Receiving' /\ Head(fc_bus').fs = "OVERFLOW"
    BY <1>2, <1>7 DEF Receiving, FlowControl
  <2> QED BY <1>1, <1>3, <1>4, <2>1, <2>2
          DEF SyncInv, Stream, Level, Listens, AnswerRight, Asked, SameTransfer
<1>8. CASE StartReception(f)
  <2>1. /\ Receiving' /\ receive_offset' = FFData
        /\ fc_bus' = Append(fc_bus, FlowControl("CONTINUE", BlockSize))
        /\ receive_buffer' = <<f.data>>
    BY <1>8 DEF StartReception, Receiving
  <2>2. fc_bus' = <<FlowControl("CONTINUE", BlockSize)>>
    BY <1>2, <2>1
  <2>3. SameTransfer'
    BY <1>2, <1>4, <2>1 DEF SameTransfer, ReceiveMsg, Run
  <2>4. Stream' /\ Level'
    <3>1. FFData = FFData + CFData * 0
      BY DEF FFData, CFData
    <3> QED BY <1>3, <1>4, <2>1, <2>2, <2>3, <3>1 DEF Stream, Level, SentUpTo, FFData
  <2> QED BY <1>1, <1>2, <1>3, <2>1, <2>2, <2>3, <2>4
          DEF SyncInv, Listens, AnswerRight, Asked
<1> QED BY <1>6, <1>7, <1>8 DEF OnFirstFrame

(* The frame at the front is the next run, whole and expected.             *)
LEMMA HeadIsNext ==
  ASSUME IInv, SyncInv, OnConsecutiveFrame
  PROVE  /\ Receiving /\ data_bus # <<>> /\ IsHead("CF") /\ ~IsHead("FF")
         /\ data_bus' = Tail(data_bus) /\ UNCHANGED <<sent, send_vars>>
         /\ fc_bus = <<>>
         /\ Head(data_bus).data = Run(ReceiveMsg, receive_offset)
         /\ Head(data_bus).pci = receive_sn
         /\ CopyRun(Head(data_bus).data)
         /\ MessageComplete \/ BlockContinues \/ BlockComplete
<1> USE DEF IInv
<1>1. /\ data_bus # <<>> /\ data_bus' = Tail(data_bus)
      /\ UNCHANGED <<sent, send_vars>> /\ IsHead("CF") /\ ~IsHead("FF")
      /\ 1 \in Bus /\ Head(data_bus) = data_bus[1] /\ IsCF(1)
  BY BusHead DEF OnConsecutiveFrame, IsHead, IsCF
<1>2. Receiving
  BY <1>1 DEF SyncInv, Listens, NoCF
<1>3. fc_bus = <<>>
  BY <1>1 DEF FlowControlFresh
<1>4. data_bus[1].data = Run(ReceiveMsg, receive_offset)
  <2>1. data_bus[1].data = Run(ReceiveMsg, AtByte(1))
    BY <1>1, <1>2 DEF SyncInv, Stream
  <2>2. AtByte(1) = receive_offset
    BY LinkTyped DEF AtByte, CFData
  <2> QED BY <2>1, <2>2
<1>5. data_bus[1].pci = receive_sn
  <2>1. Aligned(receive_offset, data_bus[1].pci)
    BY <1>1, <1>4 DEF CFInv, Run
  <2>2. Aligned(receive_offset, receive_sn)
    BY <1>2 DEF ReceiveInv
  <2>3. data_bus[1].pci \in Nat /\ receive_sn \in Nat
    BY <2>1, <2>2, ConstantsAssumption DEF Aligned
  <2> QED BY <2>1, <2>2, <2>3, LinkTyped, AlignedUnique
<1>6. /\ CopyRun(Head(data_bus).data)
      /\ MessageComplete \/ BlockContinues \/ BlockComplete
  BY <1>1, <1>2, <1>5 DEF OnConsecutiveFrame, Receiving
<1> QED BY <1>1, <1>2, <1>3, <1>4, <1>5, <1>6

LEMMA SyncComplete ==
  ASSUME IInv, SyncInv, OnConsecutiveFrame, MessageComplete
  PROVE  SyncInv' /\ ~Receiving' /\ Len(delivered') = Len(delivered) + 1
<1> USE DEF IInv
<1>1. /\ Receiving /\ data_bus # <<>> /\ ~IsHead("FF")
      /\ data_bus' = Tail(data_bus) /\ UNCHANGED <<sent, send_vars>>
      /\ fc_bus = <<>> /\ fc_bus' = <<>> /\ ~Receiving'
      /\ receive_offset' >= receive_size
      /\ receive_offset' = receive_offset
                             + Smaller(receive_size - receive_offset, CFData)
      /\ \E d : delivered' = Append(delivered, d)
  BY HeadIsNext DEF MessageComplete, HandOver, CopyRun, Receiving
<1>2. Len(delivered') = Len(delivered) + 1
  BY <1>1 DEF TypeOK
<1>3. receive_size <= receive_offset + CFData
  BY <1>1, LinkTyped DEF Smaller, CFData
<1>4. ~SameTransfer
  <2> SUFFICES ASSUME SameTransfer PROVE FALSE
    OBVIOUS
  <2>1. /\ send_offset = receive_offset + CFData * Len(data_bus)
        /\ send_offset < send_size /\ receive_size = send_size
        /\ Len(data_bus) > 0
    BY <1>1, BusHead DEF SyncInv, Level, SendInv, ReceiveInv, SameTransfer, send_size,
                         CurrentMsg, Bus
  <2> QED BY <1>3, <2>1, LinkTyped DEF CFData
<1>5. NoCF'
  <2> SUFFICES ASSUME NEW i \in 1..Len(data_bus') PROVE ~(data_bus'[i].type = "CF")
    BY DEF NoCF, Bus, IsCF
  <2>1. i + 1 \in Bus /\ data_bus'[i] = data_bus[i + 1]
    BY <1>1, BusTail
  <2>2. ~(AtByte(i + 1) < receive_size)
    BY <1>3, LinkTyped DEF AtByte, CFData
  <2> QED BY <1>1, <1>4, <2>1, <2>2 DEF SyncInv, Stream, SentUpTo, IsCF
<1>6. ~(InProgress' /\ send_bs_remain' > 0)
  BY <1>1, <1>4 DEF WindowInv, SameTransfer, send_vars, InProgress
<1>7. Asked'
  BY <1>1, <1>4, AskedTail
<1> QED BY <1>1, <1>2, <1>5, <1>6, <1>7
        DEF SyncInv, Stream, Level, Listens, AnswerRight, SameTransfer

LEMMA SyncContinues ==
  ASSUME IInv, TypeOK', SyncInv, OnConsecutiveFrame, BlockContinues
  PROVE  /\ SyncInv' /\ Receiving' /\ fc_bus' = fc_bus
         /\ SameTransfer' => SameTransfer
<1> USE DEF IInv
<1>1. /\ Receiving /\ data_bus # <<>> /\ ~IsHead("FF") /\ IsHead("CF")
      /\ data_bus' = Tail(data_bus) /\ UNCHANGED <<sent, send_vars>>
      /\ fc_bus = <<>> /\ fc_bus' = <<>> /\ Receiving'
      /\ Head(data_bus).data = Run(ReceiveMsg, receive_offset)
      /\ Head(data_bus).pci = receive_sn
      /\ CopyRun(Run(ReceiveMsg, receive_offset))
      /\ receive_bs_count' = receive_bs_count - 1
      /\ receive_offset' < receive_size
  BY HeadIsNext DEF BlockContinues, Receiving
<1>2. receive_offset = RunOffset(Len(receive_buffer) + 1)
  BY <1>1, NextRun
<1>3. /\ receive_offset' = receive_offset + CFData
      /\ receive_size' = receive_size /\ ReceiveMsg' = ReceiveMsg
      /\ CurrentMsg' = CurrentMsg /\ InProgress' = InProgress
  BY <1>1, <1>2, CopiedFacts
<1>4. /\ SameTransfer' <=> SameTransfer
      /\ SentUpTo' = SentUpTo /\ send_offset' = send_offset
      /\ send_bs_remain' = send_bs_remain
  BY <1>1, <1>3 DEF SameTransfer, SentUpTo, send_vars
<1>5. /\ Len(data_bus') = Len(data_bus) - 1 /\ Len(data_bus) \in Nat
      /\ \A i \in 1..Len(data_bus') :
           i + 1 \in Bus /\ data_bus'[i] = data_bus[i + 1]
  BY <1>1, BusTail, BusHead
<1>6. Stream'
  <2>1. /\ \A i \in Bus : IsCF(i) <=> AtByte(i) < SentUpTo
        /\ \A i \in Bus : IsCF(i) => data_bus[i].data = Run(ReceiveMsg, AtByte(i))
        /\ SentUpTo <= receive_offset + CFData * Len(data_bus)
    BY <1>1 DEF SyncInv, Stream
  <2>2. \A i \in 1..Len(data_bus') : AtByte(i)' = AtByte(i + 1)
    BY <1>3, LinkTyped DEF AtByte, CFData
  <2>3. SentUpTo \in Nat
    BY LinkTyped DEF SentUpTo
  <2>4. SentUpTo <= receive_offset' + CFData * Len(data_bus')
    BY <1>3, <1>5, <2>1, <2>3, LinkTyped DEF CFData
  <2> QED BY <1>3, <1>4, <1>5, <2>1, <2>2, <2>4 DEF Stream, Bus, IsCF
<1>7. Level'
  <2> SUFFICES ASSUME SameTransfer
               PROVE  /\ send_offset = receive_offset' + CFData * Len(data_bus')
                      /\ send_bs_remain + Len(data_bus') = receive_bs_count'
    BY <1>4 DEF Level
  <2>1. /\ send_offset = receive_offset + CFData * Len(data_bus)
        /\ send_bs_remain + Len(data_bus) = receive_bs_count
    BY <1>1 DEF SyncInv, Level
  <2>2. \A o, n, c, k \in Nat :
           /\ (o + CFData) + CFData * (n - 1) = o + CFData * n
           /\ k + n = c => k + (n - 1) = c - 1
    BY DEF CFData
  <2>3. /\ receive_offset \in Nat /\ Len(data_bus) \in Nat
        /\ receive_bs_count \in Nat /\ send_bs_remain \in Nat
    BY LinkTyped
  <2>4. /\ receive_offset' = receive_offset + CFData
        /\ Len(data_bus') = Len(data_bus) - 1
        /\ receive_bs_count' = receive_bs_count - 1
    BY <1>1, <1>3, <1>5
  <2> QED BY <2>1, <2>2, <2>3, <2>4, SMTT(30)
<1>8. Asked'
  BY <1>1, <1>4, AskedTail
<1> QED BY <1>1, <1>4, <1>6, <1>7, <1>8 DEF SyncInv, Listens, AnswerRight

LEMMA SyncBlock ==
  ASSUME IInv, IInv', SyncInv, OnConsecutiveFrame, BlockComplete
  PROVE  /\ SyncInv' /\ Receiving' /\ Len(fc_bus') = 1 /\ data_bus' = <<>>
         /\ fc_bus = <<>>
<1> USE DEF IInv
<1>1. /\ Receiving /\ Receiving' /\ UNCHANGED <<sent, send_vars>> /\ fc_bus = <<>>
      /\ fc_bus' = Append(fc_bus, FlowControl("CONTINUE", BlockSize))
  BY HeadIsNext DEF BlockComplete, Receiving
<1>2. fc_bus' = <<FlowControl("CONTINUE", BlockSize)>>
  BY <1>1
<1>3. /\ data_bus' = <<>> /\ InProgress' /\ SameTransfer'
      /\ receive_offset' = send_offset' /\ Len(fc_bus') = 1
      /\ send_bs_remain' = 0
  BY <1>1, <1>2 DEF FlowControlFresh, SameTransfer, InProgress, Receiving, ReceiveMsg
<1>4. Len(data_bus') = 0 /\ Bus' = {}
  BY <1>3 DEF Bus
<1>5. Stream' /\ Level'
  <2>1. receive_offset' \in Nat
    BY DEF TypeOK
  <2>2. receive_offset' + CFData * Len(data_bus') = receive_offset'
    <3>1. CFData * Len(data_bus') = 0
      BY <1>4 DEF CFData
    <3> QED BY <2>1, <3>1
  <2>3. receive_offset' <= receive_offset' /\ SentUpTo' = receive_offset'
    BY <1>3, <2>1 DEF SentUpTo
  <2> QED BY <1>2, <1>3, <1>4, <2>2, <2>3 DEF Stream, Level
<1> QED BY <1>1, <1>2, <1>3, <1>4, <1>5 DEF SyncInv, Listens, AnswerRight, Asked
-----------------------------------------------------------------------------
(***************************************************************************)
(* The clock.                                                              *)
(***************************************************************************)
LEMMA ClockTyped ==
  ASSUME TimedInv, ClockInv
  PROVE  /\ Period \in Nat /\ Timeout \in Nat /\ MaxDelay \in Nat
         /\ 2 * MaxDelay <= Timeout
         /\ age_cr \in Nat
         /\ next_poll["send"] \in 0..Period /\ next_poll["receive"] \in 0..Period
         /\ data_bus \in Seq(Frame) /\ Len(data_due) = Len(data_bus)
         /\ data_due \in Seq(Delay)
         /\ fc_bus \in Seq(FCFrame) /\ Len(fc_due) = Len(fc_bus)
         /\ fc_due \in Seq(Delay)
BY TimedAssumption DEF TimedInv, DueInv, IInv, TypeOK, ClockInv, Halves

LEMMA DueHeads ==
  ASSUME TimedInv, ClockInv
  PROVE  /\ data_bus # <<>> => /\ 1 \in 1..Len(data_due) /\ data_due[1] \in Delay
                               /\ Head(data_due) = data_due[1]
                               /\ data_due[Len(data_due)] \in Delay
         /\ fc_bus # <<>> => /\ 1 \in 1..Len(fc_due) /\ fc_due[1] \in Delay
                             /\ Head(fc_due) = fc_due[1]
BY ClockTyped

(* Calm steps give each frame the same delay.                              *)
LEMMA CalmDue ==
  ASSUME Calm, OnTheBuses
  PROVE  /\ data_due' = Due(data_due, data_bus, data_bus', MaxDelay)
         /\ fc_due' = Due(fc_due, fc_bus, fc_bus', MaxDelay)
BY DEF Calm, OnTheBuses, Delays

LEMMA DueSame ==
  ASSUME TimedInv, ClockInv, Calm, OnTheBuses
  PROVE  /\ data_bus' = data_bus => data_due' = data_due
         /\ fc_bus' = fc_bus => fc_due' = fc_due
<1>1. Len(data_bus) \in Nat /\ Len(fc_bus) \in Nat
  BY ClockTyped
<1> QED BY <1>1, CalmDue DEF Due

LEMMA DueAppended ==
  ASSUME TimedInv, ClockInv, Calm, OnTheBuses, NEW f, data_bus' = Append(data_bus, f)
  PROVE  /\ Len(data_due') = Len(data_due) + 1
         /\ data_due'[Len(data_due')] = MaxDelay
         /\ data_due'[1] = IF data_bus = <<>> THEN MaxDelay ELSE data_due[1]
<1>1. Len(data_bus') = Len(data_bus) + 1 /\ Len(data_bus) \in Nat
  BY ClockTyped
<1>2. data_due' = Append(data_due, MaxDelay)
  BY <1>1, CalmDue DEF Due
<1>3. /\ data_due \in Seq(Delay) /\ MaxDelay \in Delay /\ Len(data_due) = Len(data_bus)
  BY ClockTyped DEF Delay
<1>4. /\ Len(data_due') = Len(data_due) + 1
      /\ data_due'[Len(data_due) + 1] = MaxDelay
      /\ \A i \in 1..Len(data_due) : data_due'[i] = data_due[i]
  BY <1>2, <1>3
<1>5. data_bus = <<>> => Len(data_due) + 1 = 1
  BY <1>3
<1>6. data_bus # <<>> => 1 \in 1..Len(data_due)
  BY DueHeads
<1> QED BY <1>4, <1>5, <1>6

LEMMA DueTaken ==
  ASSUME TimedInv, ClockInv, Calm, OnTheBuses, data_bus # <<>>, data_bus' = Tail(data_bus)
  PROVE  /\ Len(data_due') = Len(data_due) - 1
         /\ \A i \in 1..Len(data_due') : data_due'[i] = data_due[i + 1]
         /\ data_due' \in Seq(Delay)
<1>1. Len(data_bus') < Len(data_bus) /\ ~(Len(data_bus') > Len(data_bus))
  BY ClockTyped
<1>2. data_due' = Tail(data_due)
  BY <1>1, CalmDue DEF Due
<1>3. data_due \in Seq(Delay) /\ data_due # <<>>
  BY ClockTyped
<1> QED BY <1>2, <1>3

LEMMA DueAnswer ==
  ASSUME TimedInv, ClockInv, Calm, OnTheBuses, fc_bus = <<>>, Len(fc_bus') = 1
  PROVE  fc_due'[1] = MaxDelay
<1>1. fc_due' = Append(fc_due, MaxDelay)
  BY CalmDue DEF Due
<1>2. fc_due \in Seq(Delay) /\ Len(fc_due) = 0
  BY ClockTyped
<1> QED BY <1>1, <1>2

(* What the invariant is for: the receiver's timer does not expire.        *)
LEMMA NoTimeoutCr ==
  ASSUME TimedInv, ClockInv, Receiving
  PROVE  ~(age_cr > Timeout)
<1>1. \A a, d, e, t \in Nat : a + d <= t \/ a + d + e <= t => ~(a > t)
  OBVIOUS
<1>2. /\ age_cr \in Nat /\ Timeout \in Nat /\ MaxDelay \in Nat
      /\ next_poll["send"] \in Nat /\ 0 \in Nat
  BY ClockTyped
<1>3. CASE data_bus # <<>>
  BY <1>1, <1>2, <1>3, DueHeads DEF ClockInv, ReceiverClock, Delay
<1>4. CASE data_bus = <<>> /\ fc_bus # <<>>
  BY <1>1, <1>2, <1>4, DueHeads DEF ClockInv, ReceiverClock, Delay
<1>5. CASE data_bus = <<>> /\ fc_bus = <<>>
  BY <1>1, <1>2, <1>5 DEF ClockInv, ReceiverClock
<1> QED BY <1>3, <1>4, <1>5

(* The property, of one step.                                              *)
GivesUpNothing ==
  /\ InProgress /\ send_status' = "ERROR" => ~Fits(send_size)
  /\ Receiving /\ receive_status' = "IDLE" => Len(delivered') = Len(delivered) + 1

LEMMA CalmSend ==
  ASSUME TimedInv, SyncInv, ClockInv, Calm, isotp_send
  PROVE  SyncInv' /\ ClockInv' /\ GivesUpNothing
<1> USE DEF TimedInv
<1>1. /\ Send /\ OnTheBuses /\ UNCHANGED <<next_poll, age_cr, client_polls>>
  BY DEF isotp_send
<1>2. PICK size \in Sizes : SendSingle(size) \/ SendFirst(size)
  BY <1>1 DEF Send
<1>3. PICK f : data_bus' = Append(data_bus, f)
  BY <1>2 DEF SendSingle, SendFirst
<1>4. /\ ~InProgress /\ UNCHANGED <<receive_status, receive_buffer>>
      /\ sent' = Append(sent, size)
      /\ InProgress' => SendFirst(size)
  BY <1>2 DEF SendSingle, SendFirst, InProgress, receive_vars
<1>5. SyncInv'
  BY <1>1, SyncSend
<1>6. data_bus' # <<>>
  BY <1>3, ClockTyped
<1>7. Receiving => data_bus # <<>>
  BY <1>4, EmptyIsSame DEF SameTransfer
<1>8. ~SameTransfer'
  <2>1. Receiving => ReceiveMsg \in 1..Len(sent)
    BY DEF IInv, ReceiveInv
  <2>2. CurrentMsg' = Len(sent) + 1 /\ Len(sent) \in Nat
    BY <1>4, SentAppend DEF IInv
  <2> QED BY <1>4, <2>1, <2>2 DEF SameTransfer, Receiving, ReceiveMsg
<1>9. ClockInv'
  <2>1. ReceiverClock'
    BY <1>1, <1>3, <1>4, <1>6, <1>7, DueAppended DEF ClockInv, ReceiverClock, Receiving
  <2> QED BY <1>1, <1>8, <2>1 DEF ClockInv, PollClock
<1>10. GivesUpNothing
  BY <1>4 DEF GivesUpNothing, Receiving
<1> QED BY <1>5, <1>9, <1>10

(* The timer of the sending half in a calm behaviour of the client.        *)
LEMMA CalmPollNow ==
  ASSUME TimedInv, ClockInv, Calm, PollNow("send")
  PROVE  /\ next_poll' \in [Halves -> 0..Period]
         /\ next_poll'["send"] \in 0..Period
<1>1. next_poll \in [Halves -> 0..Period] /\ Period \in 0..Period /\ "send" \in Halves
  BY ClockTyped DEF ClockInv, Halves
<1>2. Periods = {Period}
  BY DEF Calm, Periods
<1>3. next_poll' \in [Halves -> 0..Period]
  BY <1>1, <1>2 DEF PollNow, PollTimer
<1> QED BY <1>1, <1>3

LEMMA CalmPollSend ==
  ASSUME TimedInv, TimedInv', SyncInv, ClockInv, Calm, PollSendHalf
  PROVE  SyncInv' /\ ClockInv' /\ GivesUpNothing
<1> USE DEF TimedInv
<1>1. /\ PollNow("send") /\ OnTheBuses /\ UNCHANGED age_cr
      /\ next_poll' \in [Halves -> 0..Period] /\ next_poll'["send"] \in 0..Period
  BY CalmPollNow DEF PollSendHalf
<1>2. CASE PollSend
  <2>1. /\ InProgress /\ send_bs_remain > 0
        /\ UNCHANGED <<fc_bus, receive_status>>
        /\ send_status' \in {"IDLE", "INPROGRESS"}
    BY <1>2 DEF PollSend, InProgress, receive_vars
  <2>2. PICK f : data_bus' = Append(data_bus, f)
    BY <1>2 DEF PollSend
  <2>3. SyncInv'
    BY <1>2, SyncPollSend DEF IInv
  <2>4. Receiving /\ fc_bus = <<>> /\ data_bus' # <<>>
    BY <2>1, <2>2, ClockTyped, SMTT(30) DEF SyncInv, Listens, IInv, FlowControlFresh
  <2>5. age_cr + data_due'[1] <= Timeout
    <3>1. CASE data_bus # <<>>
      <4>1. age_cr + data_due[1] <= Timeout
        BY <2>4, <3>1 DEF ClockInv, ReceiverClock
      <4> QED BY <1>1, <2>2, <3>1, <4>1, DueAppended
    <3>2. CASE data_bus = <<>>
      <4>1. age_cr + MaxDelay + (IF client_polls THEN 0 ELSE next_poll["send"]) <= Timeout
        BY <2>4, <3>2 DEF ClockInv, ReceiverClock
      <4>2. age_cr + MaxDelay <= Timeout
        BY <4>1, ClockTyped
      <4> QED BY <1>1, <2>2, <3>2, <4>2, DueAppended
    <3> QED BY <3>1, <3>2
  <2>6. PollClock'
    <3>1. data_due'[Len(data_due')] = MaxDelay
      BY <1>1, <2>2, DueAppended
    <3>2. next_poll'["send"] + MaxDelay <= MaxDelay + Period
      BY <1>1, ClockTyped
    <3> QED BY <3>1, <3>2 DEF PollClock
  <2>7. ReceiverClock'
    BY <1>1, <2>4, <2>5 DEF ReceiverClock
  <2> QED BY <1>1, <2>1, <2>3, <2>6, <2>7 DEF ClockInv, GivesUpNothing, Receiving
<1>3. CASE age_bs > Timeout /\ TimeoutBs
  <2>1. BusesQuiet
    BY <1>3, ExpiredQuiet DEF TimeoutBs, InProgress
  <2>2. SyncInv' /\ ~Receiving /\ ~Fits(send_size)
    BY <1>3, <2>1, SyncTimeoutBs
  <2>3. ~Receiving'
    BY <1>3, <2>2 DEF TimeoutBs, receive_vars, Receiving
  <2> QED BY <1>1, <2>2, <2>3
          DEF ClockInv, ReceiverClock, PollClock, SameTransfer, GivesUpNothing
<1>4. CASE /\ send_status = "INPROGRESS" => send_bs_remain = 0 /\ age_bs <= Timeout
           /\ UNCHANGED vars
  <2>1. UNCHANGED <<sent, send_vars, data_bus, fc_bus, receive_vars, delivered>>
    BY <1>4 DEF vars
  <2>2. SyncInv'
    BY <2>1 DEF SyncInv, Stream, Level, Listens, AnswerRight, Asked, SameTransfer,
                SentUpTo, AtByte, Bus, IsCF, IsFF, NoCF, InProgress, Receiving,
                ReceiveMsg, CurrentMsg, send_size, send_vars, receive_vars
  <2>3. UNCHANGED <<data_due, fc_due>>
    BY <1>1, <2>1, DueSame
  <2>4. ~(InProgress /\ send_bs_remain > 0)
    BY <1>4 DEF InProgress
  <2>5. Receiving /\ data_bus = <<>> => fc_bus # <<>>
    BY <2>4, EmptyIsSame DEF SameTransfer
  <2>6. ReceiverClock' /\ PollClock'
    BY <1>1, <2>1, <2>3, <2>4, <2>5
    DEF ClockInv, ReceiverClock, PollClock, Receiving, SameTransfer, InProgress,
        send_vars, receive_vars
  <2> QED BY <1>1, <2>1, <2>2, <2>6
          DEF ClockInv, GivesUpNothing, InProgress, Receiving, send_vars, receive_vars
<1> QED BY <1>2, <1>3, <1>4 DEF PollSendHalf

LEMMA CalmPollReceive ==
  ASSUME TimedInv, SyncInv, ClockInv, Calm, PollReceiveHalf
  PROVE  SyncInv' /\ ClockInv' /\ GivesUpNothing
<1>1. ClientHalf = "send"
  BY DEF Calm, ClientHalf
<1>2. /\ PollTimer("receive") /\ UNCHANGED <<age_cr, data_due, fc_due, client_polls>>
  BY <1>1 DEF PollReceiveHalf, PollNow, PollTimer
<1>3. next_poll' \in [Halves -> 0..Period] /\ next_poll'["send"] = next_poll["send"]
  <2>1. next_poll \in [Halves -> 0..Period] /\ Period \in 0..Period
    BY ClockTyped DEF ClockInv
  <2>2. Periods = {Period}
    BY DEF Calm, Periods
  <2>3. next_poll' = [next_poll EXCEPT !["receive"] = Period]
    BY <1>2, <2>2 DEF PollTimer
  <2> QED BY <2>1, <2>3 DEF Halves
<1>4. UNCHANGED vars
  BY NoTimeoutCr DEF PollReceiveHalf, TimeoutCr, Receiving
<1>5. UNCHANGED <<sent, send_vars, data_bus, fc_bus, receive_vars, delivered>>
  BY <1>4 DEF vars
<1>6. SyncInv'
  BY <1>5 DEF SyncInv, Stream, Level, Listens, AnswerRight, Asked, SameTransfer,
              SentUpTo, AtByte, Bus, IsCF, IsFF, NoCF, InProgress, Receiving,
              ReceiveMsg, CurrentMsg, send_size, send_vars, receive_vars
<1>7. ReceiverClock' /\ PollClock'
  BY <1>2, <1>3, <1>5
  DEF ClockInv, ReceiverClock, PollClock, Receiving, SameTransfer, InProgress,
      ReceiveMsg, CurrentMsg, send_vars, receive_vars
<1> QED BY <1>2, <1>3, <1>5, <1>6, <1>7
        DEF ClockInv, GivesUpNothing, Receiving, InProgress, send_vars, receive_vars

LEMMA CalmFlowControl ==
  ASSUME TimedInv, TimedInv', SyncInv, ClockInv, Calm, FlowControlArrives
  PROVE  SyncInv' /\ ClockInv' /\ GivesUpNothing
<1> USE DEF TimedInv
<1>1. /\ fc_bus # <<>> /\ Head(fc_due) = 0 /\ OnFlowControl
      /\ client_polls' /\ UNCHANGED <<next_poll, age_cr>>
  BY DEF FlowControlArrives, Calm, ClientHalf
<1>2. /\ SyncInv' /\ data_bus = <<>> /\ data_bus' = <<>> /\ fc_bus' = <<>>
      /\ UNCHANGED receive_status
      /\ ~InProgress' => ~Receiving /\ ~Fits(send_size)
  BY <1>1, SyncFlowControl DEF IInv
<1>3. ASSUME Receiving PROVE age_cr + MaxDelay + 0 <= Timeout
  <2>1. age_cr + fc_due[1] + MaxDelay <= Timeout /\ fc_due[1] = 0
    BY <1>1, <1>2, <1>3, DueHeads DEF ClockInv, ReceiverClock
  <2> QED BY <2>1, ClockTyped
<1>4. ReceiverClock' /\ PollClock'
  BY <1>1, <1>2, <1>3 DEF ReceiverClock, PollClock, Receiving
<1> QED BY <1>1, <1>2, <1>4 DEF ClockInv, GivesUpNothing, Receiving, InProgress

LEMMA CalmData ==
  ASSUME TimedInv, TimedInv', SyncInv, ClockInv, Calm, Period <= Timeout, DataArrives
  PROVE  SyncInv' /\ ClockInv' /\ GivesUpNothing
<1> USE DEF TimedInv
<1>1. /\ data_bus # <<>> /\ Head(data_due) = 0 /\ OnTheBuses
      /\ data_bus' = Tail(data_bus) /\ UNCHANGED <<next_poll, send_vars>>
      /\ client_polls' <=> client_polls
      /\ OnSingleFrame \/ OnFirstFrame \/ OnConsecutiveFrame
      /\ age_cr' = IF /\ receive_status' = "INPROGRESS"
                      /\ fc_bus' # fc_bus \/ receive_buffer' # receive_buffer
                   THEN 0 ELSE age_cr
  BY DEF DataArrives, Calm, ClientHalf, OnSingleFrame, OnFirstFrame, OnConsecutiveFrame
<1>2. age_cr' \in Nat
  BY <1>1, ClockTyped
<1>3. fc_bus = <<>>
  BY <1>1 DEF IInv, FlowControlFresh
<1>4. InProgress' = InProgress /\ (InProgress => send_status' # "ERROR")
  BY <1>1 DEF send_vars, InProgress
<1>5. ASSUME ~Receiving' PROVE ReceiverClock' /\ PollClock'
  BY <1>5 DEF ReceiverClock, PollClock, SameTransfer
<1>6. ASSUME data_bus' = <<>>, Len(fc_bus') = 1, Receiving', fc_bus' # fc_bus
      PROVE  ReceiverClock' /\ PollClock'
  <2>1. age_cr' = 0
    BY <1>1, <1>6 DEF Receiving
  <2>2. fc_due'[1] = MaxDelay /\ fc_bus' # <<>>
    BY <1>1, <1>3, <1>6, DueAnswer
  <2>3. 0 + MaxDelay + MaxDelay <= Timeout
    BY ClockTyped
  <2> QED BY <1>6, <2>1, <2>2, <2>3 DEF ReceiverClock, PollClock
<1>7. CASE OnSingleFrame
  BY <1>1, <1>2, <1>4, <1>5, <1>7, SyncSingleFrame DEF ClockInv, GivesUpNothing
<1>8. CASE OnFirstFrame
  <2>1. /\ SyncInv' /\ ~Receiving /\ data_bus' = <<>>
        /\ Receiving' => fc_bus = <<>> /\ Len(fc_bus') = 1
    BY <1>8, SyncFirstFrame DEF IInv
  <2>2. Receiving' => fc_bus' # fc_bus
    <3>1. Len(<<>>) # 1
      OBVIOUS
    <3> QED BY <2>1, <3>1
  <2> QED BY <1>1, <1>2, <1>4, <1>5, <1>6, <2>1, <2>2 DEF ClockInv, GivesUpNothing
<1>9. CASE OnConsecutiveFrame /\ MessageComplete
  BY <1>1, <1>2, <1>4, <1>5, <1>9, SyncComplete DEF ClockInv, GivesUpNothing
<1>10. CASE OnConsecutiveFrame /\ BlockComplete
  <2>1. /\ SyncInv' /\ Receiving' /\ Len(fc_bus') = 1 /\ data_bus' = <<>>
        /\ fc_bus = <<>>
    BY <1>10, SyncBlock
  <2>2. fc_bus' # fc_bus
    <3>1. Len(<<>>) # 1
      OBVIOUS
    <3> QED BY <2>1, <3>1
  <2>3. ReceiverClock' /\ PollClock'
    BY <1>6, <2>1, <2>2
  <2> QED BY <1>1, <1>2, <1>4, <2>1, <2>3 DEF ClockInv, GivesUpNothing, Receiving
<1>11. CASE OnConsecutiveFrame /\ BlockContinues
  <2>1. /\ SyncInv' /\ Receiving' /\ fc_bus' = fc_bus
        /\ SameTransfer' => SameTransfer
    BY <1>11, SyncContinues DEF IInv
  <2>2. age_cr' = 0
    <3>1. receive_buffer' = Append(receive_buffer, Head(data_bus).data)
      BY <1>11, HeadIsNext DEF CopyRun
    <3>2. Len(receive_buffer') = Len(receive_buffer) + 1 /\ Len(receive_buffer) \in Nat
      BY <3>1 DEF IInv, TypeOK
    <3>3. receive_buffer' # receive_buffer
      BY <3>2
    <3> QED BY <1>1, <2>1, <3>3 DEF Receiving
  <2>3. /\ Len(data_due') = Len(data_due) - 1 /\ Len(data_due) \in Nat
        /\ \A i \in 1..Len(data_due') : data_due'[i] = data_due[i + 1]
        /\ data_due' \in Seq(Delay) /\ Len(data_bus') = Len(data_due')
    BY <1>1, DueTaken, ClockTyped DEF DueInv
  <2>4. CASE data_bus' # <<>>
    <3>1. 1 \in 1..Len(data_due') /\ data_due'[1] \in Delay
      <4>1. Len(data_bus') # 0
        BY <2>4 DEF IInv, TypeOK
      <4> QED BY <2>3, <4>1
    <3>2. 0 + data_due'[1] <= Timeout
      BY <3>1, ClockTyped DEF Delay
    <3>3. data_due'[Len(data_due')] = data_due[Len(data_due)]
      <4>1. Len(data_due') \in 1..Len(data_due') /\ Len(data_due') + 1 = Len(data_due)
        BY <2>3, <3>1
      <4> QED BY <2>3, <4>1
    <3>4. PollClock'
      BY <1>1, <2>1, <3>3 DEF ClockInv, PollClock, send_vars
    <3> QED BY <1>1, <1>2, <1>4, <2>1, <2>2, <2>4, <3>2, <3>4
            DEF ClockInv, ReceiverClock, GivesUpNothing, Receiving
  <2>5. CASE data_bus' = <<>>
    <3>1. SameTransfer' /\ send_bs_remain' > 0
      <4>1. (IInv /\ SyncInv /\ Receiving /\ data_bus = <<>>
               => SameTransfer /\ (fc_bus = <<>> => send_bs_remain > 0))'
        BY EmptyIsSame, PTL
      <4> QED BY <1>3, <2>1, <2>5, <4>1
    <3>2. SameTransfer /\ send_bs_remain > 0
      BY <1>1, <2>1, <3>1 DEF send_vars
    <3>3. next_poll["send"] + MaxDelay <= data_due[Len(data_due)] + Period
      BY <1>1, <3>2 DEF ClockInv, PollClock
    <3>4. data_due[Len(data_due)] = 0
      <4>1. Len(data_bus') = 0
        BY <2>5
      <4>2. Len(data_due) = 1
        <5>1. Len(data_due) - 1 = 0 /\ Len(data_due) \in Nat
          BY <2>3, <4>1
        <5> QED BY <5>1
      <4> QED BY <1>1, <4>2, DueHeads
    <3>5. ReceiverClock'
      <4> SUFFICES 0 + MaxDelay + (IF client_polls THEN 0 ELSE next_poll["send"])
                     <= Timeout
        BY <1>1, <1>3, <2>1, <2>2, <2>5 DEF ReceiverClock
      <4>1. next_poll["send"] \in Nat /\ MaxDelay \in Nat /\ Period \in Nat /\ Timeout \in Nat
        BY ClockTyped
      <4> QED BY <3>3, <3>4, <4>1
    <3> QED BY <1>1, <1>2, <1>4, <2>1, <2>5, <3>5
            DEF ClockInv, PollClock, GivesUpNothing, Receiving
  <2> QED BY <2>4, <2>5
<1> QED BY <1>1, <1>7, <1>8, <1>9, <1>10, <1>11, HeadIsNext

LEMMA CalmTick ==
  ASSUME TimedInv, SyncInv, ClockInv, Calm, Tick
  PROVE  SyncInv' /\ ClockInv' /\ GivesUpNothing
<1> USE DEF TimedInv
<1>1. /\ \A half \in Halves : next_poll[half] > 0
      /\ ~client_polls /\ ~client_polls'
      /\ next_poll' = [half \in Halves |-> next_poll[half] - 1]
      /\ age_cr' = Later(age_cr, receive_status)
      /\ data_due' = Sooner(data_due) /\ fc_due' = Sooner(fc_due)
      /\ data_bus # <<>> => Head(data_due) > 0
      /\ fc_bus # <<>> => Head(fc_due) > 0
      /\ UNCHANGED <<sent, send_vars, data_bus, fc_bus, receive_vars, delivered>>
  BY DEF Tick, vars
<1>2. SyncInv'
  BY <1>1 DEF SyncInv, Stream, Level, Listens, AnswerRight, Asked, SameTransfer,
              SentUpTo, AtByte, Bus, IsCF, IsFF, NoCF, InProgress, Receiving,
              ReceiveMsg, CurrentMsg, send_size, send_vars, receive_vars
<1>3. /\ next_poll' \in [Halves -> 0..Period]
      /\ next_poll'["send"] = next_poll["send"] - 1
      /\ next_poll["send"] \in Nat /\ next_poll["send"] > 0
  <2>1. \A half \in Halves : next_poll[half] \in 0..Period /\ next_poll[half] > 0
    BY <1>1 DEF ClockInv
  <2>2. Period \in Nat /\ "send" \in Halves
    BY ClockTyped DEF Halves
  <2>3. \A half \in Halves : next_poll[half] - 1 \in 0..Period
    BY <2>1, <2>2
  <2> QED BY <1>1, <2>1, <2>2, <2>3
<1>4. age_cr' \in Nat /\ age_cr' <= age_cr + 1
  BY <1>1, ClockTyped DEF Later, Smaller
<1>5. ASSUME NEW due \in Seq(Delay), NEW i \in 1..Len(due)
      PROVE  /\ Len(Sooner(due)) = Len(due) /\ due[i] \in Nat
             /\ Sooner(due)[i] = IF due[i] > 0 THEN due[i] - 1 ELSE 0
  BY ClockTyped, SMTT(30) DEF Sooner, Delay
<1>6. ReceiverClock'
  <2> SUFFICES ASSUME Receiving
               PROVE  /\ data_bus # <<>> => age_cr' + data_due'[1] <= Timeout
                      /\ data_bus = <<>> /\ fc_bus # <<>>
                           => age_cr' + fc_due'[1] + MaxDelay <= Timeout
                      /\ data_bus = <<>> /\ fc_bus = <<>>
                           => age_cr' + MaxDelay + next_poll'["send"] <= Timeout
    BY <1>1 DEF ReceiverClock, Receiving, receive_vars
  <2>0. /\ age_cr \in Nat /\ Timeout \in Nat /\ MaxDelay \in Nat
        /\ data_due \in Seq(Delay) /\ fc_due \in Seq(Delay)
    BY ClockTyped
  <2>1. ASSUME data_bus # <<>> PROVE age_cr' + data_due'[1] <= Timeout
    <3>1. age_cr + data_due[1] <= Timeout
      BY <2>1 DEF ClockInv, ReceiverClock
    <3>2. /\ data_due[1] \in Nat /\ data_due[1] > 0 /\ 1 \in 1..Len(data_due)
      BY <1>1, <2>1, DueHeads DEF Delay
    <3>3. data_due'[1] = data_due[1] - 1
      BY <1>1, <1>5, <2>0, <3>2
    <3> QED BY <1>4, <2>0, <3>1, <3>2, <3>3
  <2>2. ASSUME data_bus = <<>>, fc_bus # <<>>
        PROVE  age_cr' + fc_due'[1] + MaxDelay <= Timeout
    <3>1. age_cr + fc_due[1] + MaxDelay <= Timeout
      BY <2>2 DEF ClockInv, ReceiverClock
    <3>2. /\ fc_due[1] \in Nat /\ fc_due[1] > 0 /\ 1 \in 1..Len(fc_due)
      BY <1>1, <2>2, DueHeads DEF Delay
    <3>3. fc_due'[1] = fc_due[1] - 1
      BY <1>1, <1>5, <2>0, <3>2
    <3> QED BY <1>4, <2>0, <3>1, <3>2, <3>3
  <2>3. ASSUME data_bus = <<>>, fc_bus = <<>>
        PROVE  age_cr' + MaxDelay + next_poll'["send"] <= Timeout
    <3>1. age_cr + MaxDelay + next_poll["send"] <= Timeout
      BY <1>1, <2>3 DEF ClockInv, ReceiverClock
    <3> QED BY <1>3, <1>4, <2>0, <3>1
  <2> QED BY <2>1, <2>2, <2>3
<1>7. PollClock'
  <2> SUFFICES ASSUME SameTransfer, send_bs_remain > 0, data_bus # <<>>
               PROVE  next_poll'["send"] + MaxDelay
                        <= data_due'[Len(data_due')] + Period
    BY <1>1 DEF PollClock, SameTransfer, InProgress, Receiving, ReceiveMsg, CurrentMsg,
                send_vars, receive_vars
  <2> DEFINE n == Len(data_due)
  <2>1. next_poll["send"] + MaxDelay <= data_due[n] + Period
    BY DEF ClockInv, PollClock
  <2>2. n \in 1..n /\ data_due \in Seq(Delay)
    BY ClockTyped, DueHeads
  <2>3. /\ Len(data_due') = n /\ data_due[n] \in Nat
        /\ data_due'[n] = IF data_due[n] > 0 THEN data_due[n] - 1 ELSE 0
    BY <1>1, <1>5, <2>2
  <2>4. data_due'[n] \in Nat /\ data_due'[n] >= data_due[n] - 1
    BY <2>3
  <2>5. MaxDelay \in Nat /\ Period \in Nat
    BY ClockTyped
  <2> HIDE DEF n
  <2> QED BY <1>3, <2>1, <2>3, <2>4, <2>5, SMTT(30)
<1> QED BY <1>1, <1>2, <1>3, <1>4, <1>6, <1>7
        DEF ClockInv, GivesUpNothing, InProgress, Receiving, send_vars, receive_vars
-----------------------------------------------------------------------------
CalmInv == TimedInv /\ (Calm => SyncInv /\ ClockInv)

LEMMA CalmInit == TInit => CalmInv
<1> SUFFICES ASSUME TInit PROVE CalmInv
  OBVIOUS
<1>1. SyncInv
  <2>1. /\ ~InProgress /\ ~Receiving /\ Bus = {} /\ fc_bus = <<>>
    BY DEF TInit, Init, InProgress, Receiving, Bus
  <2> QED BY <2>1 DEF SyncInv, Stream, Level, Listens, AnswerRight, Asked,
                      SameTransfer, NoCF
<1>2. ClockInv
  <2>1. next_poll \in [Halves -> 0..Period]
    BY TimedAssumption DEF TInit
  <2>2. ~Receiving /\ age_cr \in Nat
    BY DEF TInit, Init, Receiving
  <2> QED BY <2>1, <2>2 DEF ClockInv, ReceiverClock, PollClock, SameTransfer
<1> QED BY <1>1, <1>2, TimedInit DEF CalmInv

LEMMA CalmStep ==
  ASSUME Period <= Timeout, CalmInv, [TNext]_timed_vars
  PROVE  CalmInv' /\ (Calm => GivesUpNothing)
<1>1. TimedInv /\ TimedInv'
  BY TimedStep DEF CalmInv
<1>2. Calm' <=> Calm
  BY DEF TNext, isotp_send, Runs, Tick, PollSendHalf, PollReceiveHalf, DataArrives,
         FlowControlArrives, Lose, timed_vars, Calm
<1> SUFFICES ASSUME Calm PROVE SyncInv' /\ ClockInv' /\ GivesUpNothing
  BY <1>1, <1>2 DEF CalmInv
<1>3. SyncInv /\ ClockInv
  BY DEF CalmInv
<1>4. CASE UNCHANGED timed_vars
  <2>1. /\ UNCHANGED <<sent, send_vars, data_bus, fc_bus, receive_vars, delivered>>
        /\ UNCHANGED <<next_poll, client_polls, age_cr, data_due, fc_due>>
    BY <1>4 DEF timed_vars, vars
  <2>2. SyncInv'
    BY <1>3, <2>1
    DEF SyncInv, Stream, Level, Listens, AnswerRight, Asked, SameTransfer,
        SentUpTo, AtByte, Bus, IsCF, IsFF, NoCF, InProgress, Receiving,
        ReceiveMsg, CurrentMsg, send_size, send_vars, receive_vars
  <2>3. ClockInv'
    BY <1>3, <2>1
    DEF ClockInv, ReceiverClock, PollClock, Receiving, SameTransfer, InProgress,
        ReceiveMsg, CurrentMsg, send_vars, receive_vars
  <2> QED BY <2>1, <2>2, <2>3
          DEF GivesUpNothing, InProgress, Receiving, send_vars, receive_vars
<1>5. ~Lose
  BY DEF Lose, Calm
<1> QED BY <1>1, <1>3, <1>4, <1>5, CalmSend, CalmPollSend, CalmPollReceive, CalmData,
           CalmFlowControl, CalmTick
        DEF TNext, Runs

(* In a calm behaviour the client gives up only what does not fit, and the *)
(* server nothing, if the poll timer is not slower than N_Cr (both are     *)
(* 100 ms): however the polls of the two nodes fall, and with every delay  *)
(* up to half the timeout.                                                 *)
THEOREM CalmKeepsEverything ==
  ASSUME Period <= Timeout
  PROVE  TSpec => CalmGivesUpNothing
<1>1. CalmInv /\ [TNext]_timed_vars => CalmInv'
  BY CalmStep
<1>2. TSpec => []CalmInv
  BY CalmInit, <1>1, PTL DEF TSpec
<1> DEFINE Step ==
      Calm =>
        /\ send_status = "INPROGRESS" /\ send_status' = "ERROR" => ~Fits(send_size)
        /\ receive_status = "INPROGRESS" /\ receive_status' = "IDLE"
             => Len(delivered') = Len(delivered) + 1
<1>3. CalmInv /\ [TNext]_timed_vars => [Step]_timed_vars
  BY CalmStep DEF GivesUpNothing, InProgress, Receiving
<1> QED BY <1>2, <1>3, PTL DEF TSpec, CalmGivesUpNothing
=============================================================================
