-------------------------- MODULE IsoTpNodesProofs --------------------------
(***************************************************************************)
(* Proofs about module IsoTpNodes: what the main thread and the CAN thread *)
(* of the server do to each other on the unlocked link costs messages, but *)
(* no byte of one.  A call of isotp_send that is cut in three looks to     *)
(* everybody else like a call in one step: the message exists once its     *)
(* first frame is on the bus, and from then on the sender is in the        *)
(* transfer.  A flow-control frame that arrives before send_status is      *)
(* stored is one that is lost, so the one-step link loses frames whether   *)
(* or not the bus does.                                                    *)
(***************************************************************************)
EXTENDS IsoTpNodes, IsoTpProofs

Started == main_pc = "init"

Atomic == INSTANCE IsoTpProofs WITH
  Faults         <- Faults \cup {"loss"},
  send_status    <- IF Started THEN "INPROGRESS" ELSE send_status,
  send_offset    <- IF Started THEN FFData ELSE send_offset,
  send_sn        <- IF Started THEN 1 ELSE send_sn,
  send_bs_remain <- IF Started THEN 0 ELSE send_bs_remain

(* Where the main thread is, and what the CAN thread leaves alone then.    *)
PcInv ==
  /\ main_pc \in {"idle", "transmit", "init"}
  /\ main_pc # "idle" => sender = "server" /\ send_status # "INPROGRESS"
  /\ main_pc = "transmit" => /\ send_offset = 0
                             /\ main_size \in Sizes /\ main_size <= SendBuf
                             /\ Len(sent) < MaxMsgs
  /\ main_pc = "init" => sent # <<>>

(* A client that may be initialised at any time sends single frames only,  *)
(* and its send half is always as new.                                     *)
ClientInv ==
  sender = "client" /\ "restart" \in Faults =>
    send_status = "IDLE" /\ send_offset = 0 /\ send_sn = 0 /\ send_bs_remain = 0

NodeInv == TypeOK /\ PcInv /\ ClientInv
-----------------------------------------------------------------------------
LEMMA AtomicAssumption == Atomic!ConstantsAssumption
BY ConstantsAssumption DEF Atomic!ConstantsAssumption, Atomic!FaultKinds, FaultKinds

LEMMA AtomicTimely == Timely => Atomic!Timely
BY DEF Timely, Atomic!Timely

LEMMA NodeInvInit == NInit => NodeInv
BY TypeInit DEF NInit, NodeInv, PcInv, ClientInv, Init

LEMMA NodeInvStep == NodeInv /\ [NNext]_nodes_vars => NodeInv'
<1> SUFFICES ASSUME NodeInv, [NNext]_nodes_vars PROVE NodeInv'
  OBVIOUS
<1> USE DEF NodeInv
<1>1. CASE UNCHANGED nodes_vars
  BY <1>1, TypeStep
  DEF nodes_vars, node_vars, main_vars, vars, send_vars, PcInv, ClientInv
<1>2. CASE sender = "client" /\ ClientSend /\ UNCHANGED node_vars
  <2>1. PICK size \in Requests : SendSingle(size) \/ SendFirst(size)
    BY <1>2 DEF ClientSend
  <2>2. TypeOK'
    BY <2>1, TypeStep, NodesAssumption DEF Next, Send
  <2>3. ClientInv'
    <3>1. size \in Nat /\ ("restart" \in Faults => size <= SFMax)
      BY NodesAssumption, ConstantsAssumption
    <3> QED BY <1>2, <2>1, <3>1
            DEF ClientInv, SendSingle, SendFirst, node_vars, SFMax
  <2> QED BY <1>2, <2>2, <2>3 DEF PcInv, node_vars, main_vars
<1>3. CASE RestartReceiver /\ UNCHANGED node_vars
  <2>1. TypeOK'
    BY <1>3, TypeStep DEF Next
  <2> QED BY <1>3, <2>1 DEF PcInv, ClientInv, node_vars, main_vars,
                            RestartReceiver, send_vars
<1>4. CASE CanThreads /\ UNCHANGED node_vars
  <2>1. TypeOK'
    BY <1>4, TypeStep DEF Next, CanThreads
  <2>2. UNCHANGED sent
    BY <1>4 DEF CanThreads, PollSend, TimeoutBs, OnFlowControl, OnSingleFrame,
                OnFirstFrame, OnConsecutiveFrame, TimeoutCr, LoseData,
                LoseFlowControl
  <2>3. send_status # "INPROGRESS" => UNCHANGED send_vars
    BY <1>4 DEF CanThreads, PollSend, TimeoutBs, OnFlowControl, OnSingleFrame,
                OnFirstFrame, OnConsecutiveFrame, TimeoutCr, LoseData,
                LoseFlowControl
  <2> QED BY <1>4, <2>1, <2>2, <2>3
          DEF PcInv, ClientInv, node_vars, main_vars, send_vars
<1>5. ASSUME NEW size \in Sizes, MainCopy(size), sender = "server",
             UNCHANGED sender
      PROVE  NodeInv'
  <2>1. TypeOK'
    BY <1>5 DEF MainCopy, TypeOK, receive_vars
  <2> QED BY <1>5, <2>1 DEF MainCopy, PcInv, ClientInv
<1>6. CASE (MainSingle \/ MainFirst) /\ sender = "server" /\ UNCHANGED sender
  <2>1. /\ sent \in Seq(Sizes) /\ main_size \in Sizes /\ Len(sent) + 1 \in Nat
        /\ sent' = Append(sent, main_size)
    BY <1>6 DEF TypeOK, PcInv, MainSingle, MainFirst
  <2>2. sent' \in Seq(Sizes) /\ sent' # <<>>
    BY <2>1, AppendProperties
  <2>3. /\ SingleFrame(Len(sent) + 1, main_size) \in Frame
        /\ FirstFrame(Len(sent) + 1, main_size) \in Frame
    BY <2>1, FramesTyped, ConstantsAssumption, 0 \in Nat
  <2>4. data_bus' \in Seq(Frame)
    <3>1. ASSUME NEW f \in Frame, data_bus' = Append(data_bus, f)
          PROVE  data_bus' \in Seq(Frame)
      BY <3>1, AppendProperties DEF TypeOK
    <3> QED BY <1>6, <2>3, <3>1 DEF MainSingle, MainFirst
  <2>5. TypeOK'
    BY <1>6, <2>2, <2>4 DEF MainSingle, MainFirst, TypeOK, receive_vars, send_vars
  <2>6. PcInv'
    BY <1>6, <2>2 DEF MainSingle, MainFirst, PcInv, send_vars
  <2> QED BY <1>6, <2>5, <2>6 DEF ClientInv
<1>7. CASE MainInit /\ sender = "server" /\ UNCHANGED sender
  <2>1. TypeOK'
    BY <1>7, ConstantsAssumption DEF MainInit, TypeOK, receive_vars, PcInv, FFData
  <2> QED BY <1>7, <2>1 DEF MainInit, PcInv, ClientInv
<1>8. CASE ResetSender /\ main_pc' = "idle" /\ UNCHANGED sender
  <2>1. TypeOK'
    BY <1>8, ConstantsAssumption DEF ResetSender, TypeOK, receive_vars
  <2> QED BY <1>8, <2>1 DEF ResetSender, PcInv, ClientInv
<1>9. CASE (ServerRestarts \/ ClientInit) /\ UNCHANGED sender
  <2>1. CASE sender = "server" /\ ServerRestarts
    BY <1>8, <1>9, <2>1 DEF ServerRestarts, RestartSender
  <2>2. CASE sender = "client" /\ ClientInit
    <3>1. main_pc' = "idle"
      BY <2>2 DEF ClientInit, PcInv, main_vars
    <3> QED BY <1>8, <1>9, <2>2, <3>1 DEF ClientInit
  <2>3. CASE RestartReceiver /\ UNCHANGED main_vars
    BY <1>3, <1>9, <2>3 DEF node_vars
  <2> QED BY <1>9, <2>1, <2>2, <2>3 DEF ServerRestarts, ClientInit
<1> QED BY <1>1, <1>2, <1>4, <1>5, <1>6, <1>7, <1>9
        DEF NNext, MainSend, node_vars
-----------------------------------------------------------------------------
(***************************************************************************)
(* Every step of the nodes is one of the one-step link, but for the copy,  *)
(* which only moves send_offset.                                           *)
(***************************************************************************)
LEMMA SimulatesMain ==
  ASSUME NodeInv, MainSingle \/ MainFirst \/ MainInit
  PROVE  [Atomic!Next]_(Atomic!vars)
<1>1. CASE MainSingle
  <2>1. /\ ~Started /\ ~Started' /\ send_offset = 0 /\ send_status # "INPROGRESS"
        /\ main_size \in Sizes /\ main_size <= SendBuf /\ main_size <= SFMax
        /\ Len(sent) < MaxMsgs
    BY <1>1 DEF MainSingle, Started, NodeInv, PcInv
  <2>2. Atomic!SendSingle(main_size)
    BY <1>1, <2>1
    DEF MainSingle, Atomic!SendSingle, Atomic!SFMax, SFMax, Atomic!SingleFrame,
        SingleFrame, Atomic!Run, Run, send_vars, receive_vars, Atomic!receive_vars
  <2> QED BY <2>1, <2>2 DEF Atomic!Next, Atomic!Send
<1>2. CASE MainFirst
  <2>1. /\ ~Started /\ Started' /\ send_status # "INPROGRESS"
        /\ main_size \in Sizes /\ main_size <= SendBuf /\ main_size > SFMax
        /\ Len(sent) < MaxMsgs
    BY <1>2 DEF MainFirst, Started, NodeInv, PcInv
  <2>2. Atomic!SendFirst(main_size)
    BY <1>2, <2>1
    DEF MainFirst, Atomic!SendFirst, Atomic!SFMax, SFMax, Atomic!FirstFrame,
        FirstFrame, Atomic!Run, Run, send_vars, receive_vars, Atomic!receive_vars,
        Atomic!FFData, FFData
  <2> QED BY <2>1, <2>2 DEF Atomic!Next, Atomic!Send
<1>3. CASE MainInit
  BY <1>3 DEF MainInit, Started, Atomic!vars, Atomic!send_vars,
              receive_vars, Atomic!receive_vars, FFData
<1> QED BY <1>1, <1>2, <1>3

(* What the CAN threads, the bus and the client's thread do.               *)
LEMMA SimulatesOthers ==
  ASSUME NodeInv, UNCHANGED node_vars,
         \/ CanThreads \/ RestartReceiver
         \/ sender = "client" /\ (ClientSend \/ ResetSender)
  PROVE  [Atomic!Next]_(Atomic!vars)
<1> USE DEF Atomic!send_vars, send_vars, Atomic!receive_vars, receive_vars
<1>1. UNCHANGED <<Started, main_pc>>
  BY DEF node_vars, main_vars, Started
<1>2. main_pc # "idle" => send_status # "INPROGRESS"
  BY DEF NodeInv, PcInv
<1>3. CASE PollSend
  <2>1. main_pc = "idle" /\ ~Started
    BY <1>1, <1>2, <1>3 DEF PollSend, NodeInv, PcInv, Started
  <2>2. Atomic!PollSend
    BY <1>1, <1>3, <2>1
    DEF PollSend, Atomic!PollSend, ConsecutiveFrame, Atomic!ConsecutiveFrame,
        Run, Atomic!Run, CurrentMsg, Atomic!CurrentMsg, send_size,
        Atomic!send_size, Smaller, Atomic!Smaller, CFData, Atomic!CFData,
        NextSN, Atomic!NextSN
  <2> QED BY <2>2 DEF Atomic!Next
<1>4. CASE TimeoutBs
  <2>1. main_pc = "idle" /\ ~Started
    BY <1>1, <1>2, <1>4 DEF TimeoutBs, NodeInv, PcInv, Started
  <2>2. Atomic!TimeoutBs
    BY <1>1, <1>4, <2>1
    DEF TimeoutBs, Atomic!TimeoutBs, BusesQuiet, Atomic!BusesQuiet
  <2> QED BY <2>2 DEF Atomic!Next
<1>5. CASE OnFlowControl
  <2>2. CASE Started
    <3>1. UNCHANGED send_vars /\ Started'
      BY <1>1, <1>2, <1>5, <2>2 DEF OnFlowControl, Started
    <3>2. Atomic!LoseFlowControl
      BY <1>5, <2>2, <3>1 DEF OnFlowControl, Atomic!LoseFlowControl
    <3> QED BY <3>2 DEF Atomic!Next
  <2>3. CASE ~Started
    <3>1. Atomic!OnFlowControl
      BY <1>1, <1>5, <2>3 DEF OnFlowControl, Atomic!OnFlowControl
    <3> QED BY <3>1 DEF Atomic!Next
  <2> QED BY <2>2, <2>3
<1>6. CASE OnSingleFrame
  <2>1. Atomic!OnSingleFrame
    BY <1>1, <1>6
    DEF OnSingleFrame, Atomic!OnSingleFrame, IsHead, Atomic!IsHead, HandOver,
        Atomic!HandOver
  <2> QED BY <2>1 DEF Atomic!Next
<1>7. CASE OnFirstFrame
  <2>1. Atomic!OnFirstFrame
    BY <1>1, <1>7
    DEF OnFirstFrame, Atomic!OnFirstFrame, IsHead, Atomic!IsHead, SFMax,
        Atomic!SFMax, StartReception, Atomic!StartReception, FFData,
        Atomic!FFData, FlowControl, Atomic!FlowControl
  <2> QED BY <2>1 DEF Atomic!Next
<1>8. CASE OnConsecutiveFrame
  <2>1. MessageComplete => Atomic!MessageComplete
    BY DEF MessageComplete, Atomic!MessageComplete, HandOver, Atomic!HandOver
  <2>2. BlockContinues => Atomic!BlockContinues
    BY DEF BlockContinues, Atomic!BlockContinues
  <2>3. BlockComplete => Atomic!BlockComplete
    BY DEF BlockComplete, Atomic!BlockComplete, FlowControl, Atomic!FlowControl
  <2>4. \A run : CopyRun(run) => Atomic!CopyRun(run)
    BY DEF CopyRun, Atomic!CopyRun, Smaller, Atomic!Smaller, CFData,
           Atomic!CFData, NextSN, Atomic!NextSN
  <2>5. Atomic!OnConsecutiveFrame
    BY <1>1, <1>8, <2>1, <2>2, <2>3, <2>4
    DEF OnConsecutiveFrame, Atomic!OnConsecutiveFrame, IsHead, Atomic!IsHead
  <2> QED BY <2>5 DEF Atomic!Next
<1>9. CASE TimeoutCr
  <2>1. Atomic!TimeoutCr
    BY <1>1, <1>9
    DEF TimeoutCr, Atomic!TimeoutCr, BusesQuiet, Atomic!BusesQuiet,
        SenderActive, Atomic!SenderActive, CrDue, Atomic!CrDue
  <2> QED BY <2>1 DEF Atomic!Next
<1>10. CASE LoseData
  <2>1. Atomic!LoseData
    BY <1>1, <1>10 DEF LoseData, Atomic!LoseData
  <2> QED BY <2>1 DEF Atomic!Next
<1>11. CASE LoseFlowControl
  <2>1. Atomic!LoseFlowControl
    BY <1>1, <1>11 DEF LoseFlowControl, Atomic!LoseFlowControl
  <2> QED BY <2>1 DEF Atomic!Next
<1>12. CASE RestartReceiver
  <2>1. Atomic!RestartReceiver
    BY <1>1, <1>12 DEF RestartReceiver, Atomic!RestartReceiver
  <2> QED BY <2>1 DEF Atomic!Next
<1>13. CASE sender = "client" /\ ClientSend
  <2>1. main_pc = "idle" /\ ~Started /\ ~Started'
    BY <1>1, <1>13 DEF NodeInv, PcInv, Started
  <2>2. ASSUME NEW size \in Sizes, SendSingle(size)
        PROVE  Atomic!SendSingle(size)
    BY <2>1, <2>2
    DEF SendSingle, Atomic!SendSingle, SFMax, Atomic!SFMax, SingleFrame,
        Atomic!SingleFrame, Run, Atomic!Run
  <2>3. ASSUME NEW size \in Sizes, SendFirst(size)
        PROVE  Atomic!SendFirst(size)
    BY <2>1, <2>3
    DEF SendFirst, Atomic!SendFirst, SFMax, Atomic!SFMax, FirstFrame,
        Atomic!FirstFrame, Run, Atomic!Run, FFData, Atomic!FFData
  <2> QED BY <1>13, <2>2, <2>3, NodesAssumption
          DEF Atomic!Next, Atomic!Send, ClientSend
<1>14. CASE sender = "client" /\ ResetSender
  BY <1>1, <1>14 DEF ResetSender, NodeInv, ClientInv, Atomic!vars
<1> QED BY <1>3, <1>4, <1>5, <1>6, <1>7, <1>8, <1>9, <1>10, <1>11, <1>12, <1>13,
           <1>14
        DEF CanThreads

LEMMA Simulates ==
  ASSUME NodeInv, [NNext]_nodes_vars
  PROVE  \/ [Atomic!Next]_(Atomic!vars)
         \/ \E size \in Sizes : MainCopy(size)
<1>1. CASE UNCHANGED nodes_vars
  BY <1>1 DEF nodes_vars, node_vars, main_vars, vars, send_vars, receive_vars,
              Started, Atomic!vars, Atomic!send_vars, Atomic!receive_vars
<1>2. CASE MainSend
  BY <1>2, SimulatesMain DEF MainSend
<1>3. CASE sender = "server" /\ ServerRestarts
  <2>1. ~Started' /\ RestartSender
    BY <1>3 DEF ServerRestarts, Started
  <2>2. Atomic!RestartSender
    BY <2>1
    DEF RestartSender, Atomic!RestartSender, ResetSender, Atomic!ResetSender,
        BusesQuiet, Atomic!BusesQuiet, receive_vars, Atomic!receive_vars
  <2> QED BY <2>2 DEF Atomic!Next
<1>4. CASE (ServerRestarts \/ ClientInit) /\ UNCHANGED node_vars
           /\ ~(sender = "server" /\ ServerRestarts)
  <2>1. RestartReceiver \/ (sender = "client" /\ ResetSender)
    BY <1>4 DEF ServerRestarts, ClientInit
  <2> QED BY <1>4, <2>1, SimulatesOthers
<1>5. CASE UNCHANGED node_vars /\ (CanThreads \/ (sender = "client" /\ ClientSend))
  BY <1>5, SimulatesOthers
<1> QED BY <1>1, <1>2, <1>3, <1>4, <1>5
        DEF NNext, node_vars, ServerRestarts, ClientInit
-----------------------------------------------------------------------------
(* The invariants of the one-step link, read through the cut call; the     *)
(* credit is the sender's own.                                             *)
LinkInv == Atomic!IInv /\ Atomic!OrderInv
NodesInv == NodeInv /\ LinkInv /\ Credit(data_bus, send_bs_remain)

LEMMA LinkInvInit == NInit => LinkInv
<1> SUFFICES ASSUME NInit PROVE LinkInv
  OBVIOUS
<1>1. Atomic!Init
  BY DEF NInit, Init, Atomic!Init, Started
<1> QED BY <1>1, AtomicAssumption, Atomic!IInvInit, Atomic!OrderInvInit DEF LinkInv

LEMMA LinkInvStep ==
  ASSUME Timely, NodeInv, LinkInv, [NNext]_nodes_vars
  PROVE  LinkInv'
<1>1. CASE [Atomic!Next]_(Atomic!vars)
  BY <1>1, AtomicAssumption, AtomicTimely, Atomic!TimelyStep, Atomic!OrderInvStep
  DEF LinkInv
<1>2. ASSUME NEW size \in Sizes, MainCopy(size)
      PROVE  LinkInv'
  <2>1. ~Started /\ ~Started' /\ send_offset' = 0 /\ send_status # "INPROGRESS"
    BY <1>2 DEF MainCopy, Started
  <2>2. UNCHANGED <<sent, send_status, send_sn, send_bs_remain, data_bus, fc_bus,
                    receive_vars, delivered>>
    BY <1>2 DEF MainCopy
  <2>3. ~Atomic!InProgress
    BY <2>1 DEF Atomic!InProgress
  <2>4. Atomic!IInv'
    BY <2>1, <2>2, <2>3, AtomicAssumption, Atomic!OffsetIdle
    DEF LinkInv, receive_vars, Atomic!receive_vars
  <2>5. Atomic!OrderInv'
    BY <2>2 DEF LinkInv, Atomic!OrderInv, Atomic!Bus, Atomic!Starts,
                Atomic!LastNumber, Atomic!NumberOf, Atomic!Receiving,
                Atomic!ReceiveMsg, receive_vars
  <2> QED BY <2>4, <2>5 DEF LinkInv
<1> QED BY <1>1, <1>2, Simulates

(* A grant finds the bus empty, if the sender takes it.                    *)
LEMMA GrantedCredit ==
  ASSUME NodesInv, OnFlowControl
  PROVE  Credit(data_bus', send_bs_remain')
<1>1. /\ fc_bus # <<>> /\ fc_bus \in Seq(FCFrame) /\ UNCHANGED data_bus
      /\ BlockSize \in Nat
  BY ConstantsAssumption DEF NodesInv, NodeInv, TypeOK, OnFlowControl
<1>2. data_bus = <<>>
  BY <1>1 DEF NodesInv, LinkInv, Atomic!IInv, Atomic!FlowControlFresh
<1>3. CASE UNCHANGED send_bs_remain
  BY <1>1, <1>3 DEF NodesInv
<1>4. CASE send_bs_remain' = Head(fc_bus).bs
  <2>1. Head(fc_bus) \in FCFrame
    BY <1>1
  <2>2. send_bs_remain' \in 0..BlockSize
    BY <1>4, <2>1 DEF FCFrame
  <2>3. Cardinality(CFs(data_bus')) = 0
    BY <1>1, <1>2, CFsEmpty
  <2>4. \A r \in 0..BlockSize : 0 + r <= BlockSize
    BY <1>1
  <2> QED BY <2>2, <2>3, <2>4 DEF Credit
<1> QED BY <1>3, <1>4 DEF OnFlowControl, send_vars

LEMMA NodesCreditStep ==
  ASSUME NodesInv, NodeInv', [NNext]_nodes_vars
  PROVE  Credit(data_bus', send_bs_remain')
<1>1. /\ data_bus \in Seq(Frame) /\ data_bus' \in Seq(Frame)
      /\ send_bs_remain \in 0..BlockSize /\ BlockSize \in Nat
      /\ Cardinality(CFs(data_bus)) \in Nat
      /\ Credit(data_bus, send_bs_remain)
  BY CFsFinite, ConstantsAssumption DEF NodesInv, NodeInv, TypeOK
<1>2. ASSUME NEW f, data_bus' = Append(data_bus, f), f \in Frame, f.type # "CF",
             send_bs_remain' = send_bs_remain \/ send_bs_remain' = 0
      PROVE  Credit(data_bus', send_bs_remain')
  <2>1. Cardinality(CFs(data_bus')) = Cardinality(CFs(data_bus))
    BY <1>1, <1>2, CFsAppend
  <2> QED BY <1>1, <1>2, <2>1 DEF Credit
<1>3. ASSUME NEW m \in Nat, NEW size \in Nat
      PROVE  /\ SingleFrame(m, size) \in Frame /\ SingleFrame(m, size).type # "CF"
             /\ FirstFrame(m, size) \in Frame /\ FirstFrame(m, size).type # "CF"
  <2>1. SingleFrame(m, size).type # "CF" /\ FirstFrame(m, size).type # "CF"
    BY DEF SingleFrame, FirstFrame
  <2> QED BY <2>1, FramesTyped, 0 \in Nat
<1>4. CASE ClientSend
  <2>1. PICK size \in Requests : SendSingle(size) \/ SendFirst(size)
    BY <1>4 DEF ClientSend
  <2>2. Len(sent) + 1 \in Nat /\ size \in Nat
    BY ConstantsAssumption, NodesAssumption DEF NodesInv, NodeInv, TypeOK
  <2> QED BY <1>2, <1>3, <2>1, <2>2 DEF SendSingle, SendFirst
<1>5. CASE MainSingle \/ MainFirst
  <2>1. Len(sent) + 1 \in Nat /\ main_size \in Nat
    <3>1. sent \in Seq(Sizes) /\ main_size \in Sizes
      BY <1>5 DEF NodesInv, NodeInv, TypeOK, PcInv, MainSingle, MainFirst
    <3> QED BY <3>1, ConstantsAssumption
  <2> QED BY <1>2, <1>3, <1>5, <2>1 DEF MainSingle, MainFirst, send_vars
<1>6. CASE PollSend
  <2> DEFINE f == ConsecutiveFrame(CurrentMsg, send_offset, send_sn)
  <2>1. f \in Frame /\ f.type = "CF"
    <3>1. CurrentMsg \in Nat /\ send_offset \in Nat /\ send_sn \in Nat
      BY ConstantsAssumption DEF NodesInv, NodeInv, TypeOK, CurrentMsg
    <3> QED BY <3>1, FramesTyped, 0 \in Nat DEF ConsecutiveFrame
  <2>2. data_bus' = Append(data_bus, f) /\ send_bs_remain' = send_bs_remain - 1
    BY <1>6 DEF PollSend
  <2> HIDE DEF f
  <2> QED BY <1>1, <2>1, <2>2, CFsAppend DEF Credit
<1>7. CASE /\ data_bus # <<>> /\ data_bus' = Tail(data_bus)
           /\ send_bs_remain' = send_bs_remain
  <2>1. Cardinality(CFs(data_bus')) \in Nat
    BY <1>1, CFsFinite
  <2>2. Cardinality(CFs(data_bus')) <= Cardinality(CFs(data_bus))
    BY <1>1, <1>7, CFsTail
  <2> QED BY <1>1, <1>7, <2>1, <2>2 DEF Credit
<1>8. CASE OnSingleFrame \/ OnFirstFrame \/ OnConsecutiveFrame \/ LoseData
  BY <1>7, <1>8 DEF OnSingleFrame, OnFirstFrame, OnConsecutiveFrame, LoseData,
                    IsHead, send_vars
<1>9. CASE UNCHANGED data_bus /\ send_bs_remain' \in {send_bs_remain, 0}
  BY <1>1, <1>9 DEF Credit
<1>10. CASE \/ TimeoutBs \/ TimeoutCr \/ ServerRestarts \/ ClientInit
            \/ LoseFlowControl \/ UNCHANGED nodes_vars
  BY <1>9, <1>10 DEF TimeoutBs, TimeoutCr, ServerRestarts, ClientInit,
                     RestartReceiver, RestartSender, ResetSender,
                     LoseFlowControl, send_vars, nodes_vars, vars
<1>11. CASE MainInit \/ \E size \in Sizes : MainCopy(size)
  BY <1>9, <1>11 DEF MainInit, MainCopy
<1> QED BY <1>4, <1>5, <1>6, <1>8, <1>10, <1>11, GrantedCredit
        DEF NNext, MainSend, CanThreads

LEMMA NodesInvariance == Timely /\ NSpec => []NodesInv
<1> SUFFICES ASSUME Timely PROVE NSpec => []NodesInv
  OBVIOUS
<1>1. NInit => NodesInv
  <2>1. ASSUME NInit PROVE Credit(data_bus, send_bs_remain)
    <3>1. Cardinality(CFs(data_bus)) = 0 /\ send_bs_remain = 0
      BY <2>1, CFsEmpty DEF NInit, Init
    <3> QED BY <3>1, ConstantsAssumption DEF Credit
  <2> QED BY <2>1, NodeInvInit, LinkInvInit DEF NodesInv
<1>2. NodesInv /\ [NNext]_nodes_vars => NodesInv'
  <2> SUFFICES ASSUME NodesInv, [NNext]_nodes_vars PROVE NodesInv'
    OBVIOUS
  <2>1. NodeInv'
    BY NodeInvStep DEF NodesInv
  <2>2. LinkInv'
    BY LinkInvStep DEF NodesInv
  <2>3. Credit(data_bus', send_bs_remain')
    BY <2>1, NodesCreditStep
  <2> QED BY <2>1, <2>2, <2>3 DEF NodesInv
<1> QED BY <1>1, <1>2, PTL DEF NSpec
-----------------------------------------------------------------------------
(* The types hold whatever the two threads do, early timeouts included.    *)
THEOREM NodesTypeCorrect == NSpec => []TypeOK
<1>1. NodeInv => TypeOK
  BY DEF NodeInv
<1> QED BY <1>1, NodeInvInit, NodeInvStep, PTL DEF NSpec

(* A message read through the cut call is one of those accepted.           *)
LEMMA NodesSound == NodesInv => TypeOK /\ Integrity
<1> SUFFICES ASSUME NodesInv, NEW i \in 1..Len(delivered)
             PROVE  \E m \in 1..Len(sent) : IsMessage(delivered[i], m)
  BY DEF NodesInv, NodeInv, Integrity
<1>1. PICK m \in 1..Len(sent) : Atomic!IsMessage(delivered[i], m)
  BY DEF NodesInv, LinkInv, Atomic!IInv, Atomic!Integrity
<1>2. /\ delivered[i].size = sent[m]
      /\ delivered[i].data = [j \in 1..NumRuns(sent[m]) |-> Run(m, RunOffset(j))]
  BY <1>1
  DEF Atomic!IsMessage, Atomic!NumRuns, NumRuns, Atomic!Run, Run,
      Atomic!RunOffset, RunOffset, Atomic!SFMax, SFMax, Atomic!FFData, FFData,
      Atomic!CFData, CFData
<1>3. IsMessage(delivered[i], m)
  BY <1>2 DEF IsMessage
<1> QED BY <1>3

(* What is handed over is a message accepted, byte for byte, although the  *)
(* server's two threads share the link without a lock.                     *)
THEOREM NodesIntegrity == Timely /\ NSpec => []Integrity
BY NodesInvariance, NodesSound, PTL

(* The consecutive frames on the bus are those the receiver still counts.  *)
THEOREM NodesWindow == Timely /\ NSpec => []WithinBlock
<1>1. NodesInv => WithinBlock
  BY DEF NodesInv, LinkInv, Atomic!IInv, Atomic!WithinBlock, WithinBlock,
         Atomic!IsCF, IsCF, Atomic!CFData, CFData
<1> QED BY <1>1, NodesInvariance, PTL

(* No more than a block is out or permitted: a credit left over from an    *)
(* earlier transfer is never spent on top of a new one.                    *)
THEOREM NodesBlockBound == Timely /\ NSpec => []BlockBound
<1>1. NodesInv => BlockBound
  BY DEF NodesInv, Credit, CFs, BlockBound, IsCF
<1> QED BY <1>1, NodesInvariance, PTL
-----------------------------------------------------------------------------
LEMMA NodesVisible ==
  ASSUME NodesInv, [NNext]_nodes_vars
  PROVE  Visible
<1>1. CASE [Atomic!Next]_(Atomic!vars)
  <2>1. Atomic!Visible
    BY <1>1, AtomicAssumption, Atomic!VisibleStep DEF NodesInv, LinkInv
  <2> QED BY <2>1 DEF Atomic!Visible, Visible, Atomic!NumberOf, NumberOf,
                      Atomic!LastNumber, LastNumber
<1>2. CASE \E size \in Sizes : MainCopy(size)
  BY <1>2 DEF MainCopy, Visible
<1> QED BY <1>1, <1>2, Simulates DEF NodesInv

(* The link between the two nodes implements the service: every message    *)
(* handed over was accepted, is handed over once, and never after a later  *)
(* one, however the calls of isotp_send interleave with the CAN thread.    *)
THEOREM NodesService == Timely /\ NSpec => ServiceSpec
<1> SUFFICES ASSUME Timely PROVE NSpec => ServiceSpec
  OBVIOUS
<1>1. NInit => Service!Init
  <2> SUFFICES ASSUME NInit PROVE Service!Init
    OBVIOUS
  <2>1. Len(sent) = 0 /\ Mapped = <<>>
    BY DEF NInit, Init, Mapped
  <2> QED BY <2>1 DEF Service!Init, Mapped
<1>2. NodesInv /\ NodesInv' /\ [NNext]_nodes_vars
      => [Service!Next]_(Service!vars)
  <2> SUFFICES ASSUME NodesInv, NodesInv', [NNext]_nodes_vars
               PROVE  [Service!Next]_(Service!vars)
    OBVIOUS
  <2>1. TypeOK /\ Integrity
    BY NodesSound
  <2>2. TypeOK' /\ Integrity'
    <3>1. (NodesInv => TypeOK /\ Integrity)'
      BY NodesSound, PTL
    <3> QED BY <3>1
  <2> QED BY <2>1, <2>2, NodesVisible, Implements
<1> QED BY NodesInvariance, <1>1, <1>2, PTL DEF NSpec, ServiceSpec, Service!Spec
=============================================================================
