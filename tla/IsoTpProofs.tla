----------------------------- MODULE IsoTpProofs -----------------------------
(***************************************************************************)
(* Proofs about module IsoTp, for every block size, every number of        *)
(* messages of any sizes, every pair of buffer sizes, and under frame      *)
(* loss, restarts and receiver timeouts at any time.  "early_bs" is        *)
(* excluded: with it the properties are false (see the README).            *)
(***************************************************************************)
EXTENDS IsoTp, FiniteSetTheorems, SequenceTheorems, TLAPS

(* The hypothesis of the theorems: N_Bs is longer than the bus delay.      *)
Timely == "early_bs" \notin Faults

(* The n-th consecutive frame of a message starts at this offset and has   *)
(* the number n modulo MaxSN + 1; w counts the wraps.                      *)
Aligned(off, sn) ==
  /\ sn \in 0..MaxSN
  /\ \E w \in Nat : off = FFData + CFData * (w * (MaxSN + 1) + sn - 1)

InProgress == send_status = "INPROGRESS"
Receiving  == receive_status = "INPROGRESS"
ReceiveMsg == receive_buffer[1].msg
Bus        == 1..Len(data_bus)
IsFF(i)    == data_bus[i].type = "FF"
IsSF(i)    == data_bus[i].type = "SF"

(* A sender in a transfer stands before the end, at a frame boundary.      *)
SendInv ==
  InProgress => /\ Len(sent) > 0
                /\ send_size > SFMax
                /\ send_offset < send_size
                /\ Aligned(send_offset, send_sn)

(* Every frame on the bus is what its header says; a first frame is the    *)
(* last one, since the sender waits for its answer.                        *)
SFInv == \A i \in Bus : IsSF(i) =>
  /\ data_bus[i].data.msg \in 1..Len(sent)
  /\ data_bus[i].data.off = 0
  /\ data_bus[i].pci = sent[data_bus[i].data.msg]
  /\ data_bus[i].pci <= SFMax

FFInv == \A i \in Bus : IsFF(i) =>
  /\ i = Len(data_bus)
  /\ fc_bus = <<>>
  /\ InProgress /\ send_bs_remain = 0 /\ send_offset = FFData /\ send_sn = 1
  /\ data_bus[i].data = Run(CurrentMsg, 0)
  /\ data_bus[i].pci \in {0, send_size}

CFInv == \A i \in Bus : IsCF(i) =>
  /\ data_bus[i].data.msg \in 1..Len(sent)
  /\ sent[data_bus[i].data.msg] > SFMax
  /\ data_bus[i].data.off < sent[data_bus[i].data.msg]
  /\ Aligned(data_bus[i].data.off, data_bus[i].pci)
  /\ InProgress /\ data_bus[i].data.msg = CurrentMsg
       => data_bus[i].data.off < send_offset

BusOrder == \A i, j \in Bus : i < j =>
  /\ data_bus[i].data.msg <= data_bus[j].data.msg
  /\ IsCF(i) /\ IsCF(j) /\ data_bus[i].data.msg = data_bus[j].data.msg
       => data_bus[i].data.off < data_bus[j].data.off

(* The receive half holds a prefix of one message.                         *)
ReceiveInv ==
  Receiving =>
    /\ Len(receive_buffer) > 0
    /\ ReceiveMsg \in 1..Len(sent)
    /\ receive_size = sent[ReceiveMsg]
    /\ receive_size > SFMax
    /\ receive_offset < receive_size
    /\ receive_offset = FFData + CFData * (Len(receive_buffer) - 1)
    /\ Aligned(receive_offset, receive_sn)
    /\ \A i \in 1..Len(receive_buffer) :
         receive_buffer[i] = Run(ReceiveMsg, RunOffset(i))

FCInv == fc_bus # <<>> /\ Receiving => receive_bs_count = BlockSize

(* The window of the receiver against the position of the sender.          *)
NoCF == \A i \in Bus : ~IsCF(i)

WindowInv ==
  Receiving =>
    /\ InProgress /\ ReceiveMsg = CurrentMsg =>
         /\ send_offset >= receive_offset
         /\ send_offset + CFData * send_bs_remain
              <= receive_offset + CFData * receive_bs_count
         /\ \A i \in Bus : ~IsFF(i)
    /\ InProgress /\ send_bs_remain > 0 => ReceiveMsg = CurrentMsg
    /\ ~InProgress \/ ReceiveMsg # CurrentMsg =>
         NoCF \/ receive_size <= receive_offset + CFData * receive_bs_count

IInv ==
  /\ TypeOK
  /\ SendInv /\ SFInv /\ FFInv /\ CFInv /\ BusOrder
  /\ ReceiveInv /\ FCInv /\ WindowInv
  /\ FlowControlFresh /\ WithinBlock /\ Integrity
-----------------------------------------------------------------------------
(***************************************************************************)
(* Sequence numbers and offsets.                                           *)
(***************************************************************************)
LEMMA MulMono ==
  ASSUME NEW N \in Nat, NEW v \in Nat, NEW w \in Nat, v < w
  PROVE  v * N + N <= w * N
<1>1. PICK d \in Nat : w = v + 1 + d
  <2>1. w - v - 1 \in Nat OBVIOUS
  <2> QED BY <2>1
<1>2. w * N = v * N + N + d * N
  BY <1>1
<1>3. d * N \in Nat
  OBVIOUS
<1>4. v * N \in Nat
  OBVIOUS
<1> QED BY <1>2, <1>3, <1>4

(* The length field carries a length below the modulus unchanged, and the  *)
(* modulus itself as 0.                                                    *)
LEMMA ModUpTo ==
  ASSUME NEW d \in Nat \ {0}, NEW a \in Nat, a <= d
  PROVE  a % d \in {0, a}
<1>1. CASE a < d
  <2>1. a % d = a BY <1>1
  <2> QED BY <2>1
<1>2. CASE a = d
  <2>1. d % d = 0 OBVIOUS
  <2> QED BY <1>2, <2>1
<1> QED BY <1>1, <1>2

LEMMA FirstFrameLength ==
  ASSUME NEW m, NEW size \in Nat, size <= SendBuf
  PROVE  FirstFrame(m, size).pci \in {0, size}
<1>1. size <= DLMod /\ DLMod \in Nat \ {0}
  BY ConstantsAssumption
<1>2. size % DLMod \in {0, size}
  BY <1>1, ModUpTo
<1>3. FirstFrame(m, size).pci = size % DLMod
  BY DEF FirstFrame
<1> QED BY <1>2, <1>3

LEMMA AlignedFirst == Aligned(FFData, 1)
<1>1. FFData = FFData + CFData * (0 * (MaxSN + 1) + 1 - 1)
  BY ConstantsAssumption DEF FFData, CFData
<1> QED BY <1>1, ConstantsAssumption DEF Aligned

LEMMA AlignedNext ==
  ASSUME NEW off \in Nat, NEW sn \in Nat, Aligned(off, sn)
  PROVE  Aligned(off + CFData, NextSN(sn))
<1> DEFINE N == MaxSN + 1
<1>1. PICK w \in Nat : off = FFData + CFData * (w * N + sn - 1)
  BY DEF Aligned
<1>2. sn \in 0..MaxSN /\ N \in Nat /\ MaxSN \in Nat
  BY ConstantsAssumption DEF Aligned
<1> DEFINE p == w * N
<1>3. p \in Nat
  BY <1>2
<1>4. CASE sn + 1 > MaxSN
  <2>1. (w + 1) * N = p + N
    BY <1>2
  <2>2. off + CFData = FFData + CFData * ((w + 1) * N + 0 - 1)
    <3> HIDE DEF p
    <3>1. off = FFData + CFData * (p + sn - 1) BY <1>1 DEF p
    <3> QED BY <1>2, <1>3, <1>4, <2>1, <3>1 DEF FFData, CFData
  <2>3. NextSN(sn) = 0
    BY <1>4 DEF NextSN
  <2>4. w + 1 \in Nat /\ 0 \in 0..MaxSN
    BY <1>2
  <2>5. Aligned(off + CFData, 0)
    BY <2>2, <2>4 DEF Aligned
  <2> QED BY <2>3, <2>5
<1>5. CASE ~(sn + 1 > MaxSN)
  <2>1. off + CFData = FFData + CFData * (p + (sn + 1) - 1)
    <3> HIDE DEF p
    <3>1. off = FFData + CFData * (p + sn - 1) BY <1>1 DEF p
    <3> QED BY <1>2, <1>3, <1>5, <3>1 DEF FFData, CFData
  <2>2. NextSN(sn) = sn + 1
    BY <1>5 DEF NextSN
  <2>3. sn + 1 \in 0..MaxSN
    BY <1>2, <1>5
  <2>4. Aligned(off + CFData, sn + 1)
    BY <2>1, <2>3 DEF Aligned
  <2> QED BY <2>2, <2>4
<1> QED BY <1>4, <1>5

LEMMA AlignedGap ==
  ASSUME NEW o1 \in Nat, NEW s1 \in Nat, Aligned(o1, s1),
         NEW o2 \in Nat, NEW s2 \in Nat, Aligned(o2, s2),
         o1 < o2
  PROVE  o1 + CFData <= o2
<1> DEFINE N == MaxSN + 1
<1>0. N \in Nat BY ConstantsAssumption
<1>1. PICK v \in Nat : o1 = FFData + CFData * (v * N + s1 - 1)
  BY DEF Aligned
<1>2. PICK w \in Nat : o2 = FFData + CFData * (w * N + s2 - 1)
  BY DEF Aligned
<1> DEFINE p == v * N + s1 - 1
           q == w * N + s2 - 1
<1>3. p \in Int /\ q \in Int
  BY <1>0
<1> HIDE DEF p, q
<1>4. o1 = FFData + CFData * p /\ o2 = FFData + CFData * q
  BY <1>1, <1>2 DEF p, q
<1> QED BY <1>3, <1>4 DEF FFData, CFData

(* Inside a window of at most MaxSN + 1 frames a number names one frame. *)
LEMMA AlignedWindow ==
  ASSUME NEW o1 \in Nat, NEW sn \in Nat, NEW o2 \in Nat,
         Aligned(o1, sn), Aligned(o2, sn),
         o1 <= o2, o2 < o1 + CFData * (MaxSN + 1)
  PROVE  o1 = o2
<1> DEFINE N == MaxSN + 1
<1>0. N \in Nat BY ConstantsAssumption
<1>1. PICK v \in Nat : o1 = FFData + CFData * (v * N + sn - 1)
  BY DEF Aligned
<1>2. PICK w \in Nat : o2 = FFData + CFData * (w * N + sn - 1)
  BY DEF Aligned
<1> DEFINE p == v * N
           q == w * N
<1>3. p \in Nat /\ q \in Nat
  BY <1>0
<1>4. v < w => p + N <= q
  BY <1>0, MulMono
<1>5. w < v => q + N <= p
  BY <1>0, MulMono
<1>6. v = w => p = q
  OBVIOUS
<1>7. o1 = FFData + CFData * (p + sn - 1) /\ o2 = FFData + CFData * (q + sn - 1)
  BY <1>1, <1>2
<1> HIDE DEF p, q, N
<1>8. o2 < o1 + CFData * N
  BY DEF N
<1> QED BY <1>0, <1>3, <1>4, <1>5, <1>6, <1>7, <1>8 DEF FFData, CFData

LEMMA AlignedUnique ==
  ASSUME NEW off \in Nat, NEW s1 \in Nat, NEW s2 \in Nat,
         Aligned(off, s1), Aligned(off, s2)
  PROVE  s1 = s2
<1> DEFINE N == MaxSN + 1
<1>0. N \in Nat /\ s1 < N /\ s2 < N
  BY ConstantsAssumption DEF Aligned
<1>1. PICK v \in Nat : off = FFData + CFData * (v * N + s1 - 1)
  BY DEF Aligned
<1>2. PICK w \in Nat : off = FFData + CFData * (w * N + s2 - 1)
  BY DEF Aligned
<1> DEFINE p == v * N
           q == w * N
<1>3. p \in Nat /\ q \in Nat
  BY <1>0
<1>4. v < w => p + N <= q
  BY <1>0, MulMono
<1>5. w < v => q + N <= p
  BY <1>0, MulMono
<1>6. v = w => p = q
  OBVIOUS
<1>7. off = FFData + CFData * (p + s1 - 1) /\ off = FFData + CFData * (q + s2 - 1)
  BY <1>1, <1>2
<1> HIDE DEF p, q, N
<1> QED BY <1>0, <1>3, <1>4, <1>5, <1>6, <1>7 DEF FFData, CFData

-----------------------------------------------------------------------------
(***************************************************************************)
(* Type correctness.                                                       *)
(***************************************************************************)
LEMMA FramesTyped ==
  ASSUME NEW m \in Nat, NEW size \in Nat, NEW off \in Nat, NEW sn \in Nat
  PROVE  /\ SingleFrame(m, size) \in Frame
         /\ FirstFrame(m, size) \in Frame
         /\ ConsecutiveFrame(m, off, sn) \in Frame
<1>1. size % DLMod \in Nat
  BY ConstantsAssumption
<1> QED
  BY <1>1 DEF SingleFrame, FirstFrame, ConsecutiveFrame, Frame, FrameType,
              DataRun, Run

LEMMA NextSNTyped ==
  ASSUME NEW sn \in 0..MaxSN
  PROVE  NextSN(sn) \in 0..MaxSN
BY ConstantsAssumption DEF NextSN

LEMMA TypeInit == Init => TypeOK
BY ConstantsAssumption DEF Init, TypeOK

LEMMA TypeStep == TypeOK /\ [Next]_vars => TypeOK'
<1> SUFFICES ASSUME TypeOK, [Next]_vars PROVE TypeOK'
  OBVIOUS
<1> USE ConstantsAssumption
<1>0. sent # <<>> => /\ CurrentMsg \in 1..Len(sent)
                     /\ send_size \in Nat
  <2> SUFFICES ASSUME sent # <<>> PROVE CurrentMsg \in 1..Len(sent)
                                        /\ send_size \in Nat
    OBVIOUS
  <2>1. CurrentMsg \in 1..Len(sent)
    BY DEF TypeOK, CurrentMsg
  <2>2. sent[CurrentMsg] \in Sizes
    BY <2>1 DEF TypeOK
  <2> QED BY <2>1, <2>2 DEF send_size
<1>1. ASSUME NEW size \in Sizes, SendSingle(size) PROVE TypeOK'
  <2>1. SingleFrame(Len(sent) + 1, size) \in Frame
    BY FramesTyped DEF TypeOK
  <2> QED BY <1>1, <2>1 DEF TypeOK, SendSingle, receive_vars
<1>2. ASSUME NEW size \in Sizes, SendFirst(size) PROVE TypeOK'
  <2>1. FirstFrame(Len(sent) + 1, size) \in Frame
    BY FramesTyped DEF TypeOK
  <2> QED BY <1>2, <2>1, SMTT(30) DEF TypeOK, SendFirst, receive_vars, FFData
<1>3. CASE PollSend
  <2>1. ConsecutiveFrame(CurrentMsg, send_offset, send_sn) \in Frame
    BY <1>0, <1>3, FramesTyped DEF PollSend, TypeOK, CurrentMsg
  <2>2. send_offset' \in Nat
    BY <1>0, <1>3 DEF PollSend, TypeOK, Smaller, CFData
  <2>3. send_sn' \in 0..MaxSN
    BY <1>3, NextSNTyped DEF PollSend, TypeOK
  <2> QED BY <1>3, <2>1, <2>2, <2>3 DEF TypeOK, PollSend, receive_vars
<1>4. CASE TimeoutBs
  BY <1>4 DEF TypeOK, TimeoutBs, receive_vars
<1>5. CASE OnFlowControl
  <2>1. Head(fc_bus) \in FCFrame /\ Tail(fc_bus) \in Seq(FCFrame)
    BY <1>5 DEF OnFlowControl, TypeOK
  <2>2. Head(fc_bus).bs \in 0..BlockSize
    BY <2>1 DEF FCFrame
  <2> QED BY <1>5, <2>1, <2>2 DEF TypeOK, OnFlowControl, send_vars, receive_vars
<1>6. CASE RestartSender
  BY <1>6 DEF TypeOK, RestartSender, ResetSender, receive_vars
<1> DEFINE f == Head(data_bus)
<1>7. data_bus # <<>> => /\ f.pci \in Nat /\ f.data \in DataRun
                         /\ Tail(data_bus) \in Seq(Frame)
  <2>1. data_bus # <<>> => f \in Frame /\ Tail(data_bus) \in Seq(Frame)
    BY DEF TypeOK
  <2> QED BY <2>1 DEF Frame
<1>8. CASE OnSingleFrame
  BY <1>7, <1>8 DEF TypeOK, OnSingleFrame, IsHead, HandOver, send_vars
<1>9. CASE OnFirstFrame
  <2>1. /\ FlowControl("OVERFLOW", 0) \in FCFrame
        /\ FlowControl("CONTINUE", BlockSize) \in FCFrame
    BY DEF FlowControl, FCFrame
  <2> HIDE DEF f
  <2>2. data_bus # <<>> /\ data_bus' = Tail(data_bus)
    BY <1>9 DEF OnFirstFrame, StartReception, IsHead
  <2>3. CASE UNCHANGED <<fc_bus, receive_vars>>
    BY <1>9, <1>7, <2>2, <2>3
    DEF TypeOK, OnFirstFrame, StartReception, send_vars, receive_vars
  <2>4. CASE /\ receive_status' = "IDLE"
             /\ fc_bus' = Append(fc_bus, FlowControl("OVERFLOW", 0))
             /\ UNCHANGED <<receive_size, receive_offset, receive_sn,
                            receive_bs_count, receive_buffer>>
    BY <1>9, <1>7, <2>1, <2>2, <2>4 DEF TypeOK, OnFirstFrame, StartReception, send_vars
  <2>5. CASE /\ receive_status' = "INPROGRESS"
             /\ receive_size' = f.pci
             /\ receive_offset' = FFData
             /\ receive_sn' = 1
             /\ receive_bs_count' = BlockSize
             /\ receive_buffer' = <<f.data>>
             /\ fc_bus' = Append(fc_bus, FlowControl("CONTINUE", BlockSize))
    BY <1>9, <1>7, <2>1, <2>2, <2>5
    DEF TypeOK, OnFirstFrame, StartReception, send_vars, FFData
  <2> QED BY <1>9, <2>3, <2>4, <2>5 DEF OnFirstFrame, StartReception, f
<1>10. CASE OnConsecutiveFrame
  <2>1. data_bus # <<>> /\ data_bus' = Tail(data_bus)
        /\ UNCHANGED <<sent, send_vars>>
    BY <1>10 DEF OnConsecutiveFrame, IsHead
  <2>2. CASE UNCHANGED <<fc_bus, receive_vars, delivered>>
    BY <1>7, <2>1, <2>2 DEF TypeOK, send_vars, receive_vars
  <2>3. CASE /\ receive_status' = "IDLE"
             /\ UNCHANGED <<fc_bus, receive_size, receive_offset, receive_sn,
                            receive_bs_count, receive_buffer, delivered>>
    BY <1>7, <2>1, <2>3 DEF TypeOK, send_vars
  <2>4. CASE /\ receive_status = "INPROGRESS" /\ CopyRun(f.data)
             /\ MessageComplete \/ BlockContinues \/ BlockComplete
    <3>1. FlowControl("CONTINUE", BlockSize) \in FCFrame
      BY DEF FlowControl, FCFrame
    <3>2. receive_offset' \in Nat
      BY <2>4 DEF CopyRun, TypeOK, Smaller, CFData
    <3>3. receive_sn' \in 0..MaxSN /\ receive_size' \in Nat
      BY <2>4, NextSNTyped DEF CopyRun, TypeOK
    <3>4. receive_buffer' \in Seq(DataRun)
      BY <1>7, <2>1, <2>4 DEF CopyRun, TypeOK
    <3>5. CASE MessageComplete
      <4>1. [size |-> receive_size, data |-> receive_buffer']
              \in [size : Nat, data : Seq(DataRun)]
        BY <3>4 DEF TypeOK
      <4> QED BY <1>7, <2>1, <3>2, <3>3, <3>4, <3>5, <4>1
              DEF TypeOK, send_vars, MessageComplete, HandOver
    <3>6. CASE BlockContinues
      BY <1>7, <2>1, <2>4, <3>2, <3>3, <3>4, <3>6
      DEF TypeOK, send_vars, BlockContinues
    <3>7. CASE BlockComplete
      BY <1>7, <2>1, <3>1, <3>2, <3>3, <3>4, <3>7
      DEF TypeOK, send_vars, BlockComplete
    <3> QED BY <2>4, <3>5, <3>6, <3>7
  <2> QED BY <1>10, <2>2, <2>3, <2>4 DEF OnConsecutiveFrame
<1>11. CASE TimeoutCr
  BY <1>11 DEF TypeOK, TimeoutCr, send_vars
<1>12. CASE RestartReceiver
  BY <1>12 DEF TypeOK, RestartReceiver, send_vars
<1>13. CASE LoseData
  BY <1>7, <1>13 DEF TypeOK, LoseData, send_vars, receive_vars
<1>14. CASE LoseFlowControl
  BY <1>14 DEF TypeOK, LoseFlowControl, send_vars, receive_vars
<1>15. CASE UNCHANGED vars
  BY <1>15 DEF TypeOK, vars, send_vars, receive_vars
<1> QED
  BY <1>1, <1>2, <1>3, <1>4, <1>5, <1>6, <1>8, <1>9, <1>10, <1>11, <1>12,
     <1>13, <1>14, <1>15 DEF Next, Send

(* Every variable keeps its type: in particular a credit never exceeds the *)
(* block size and a sequence number always fits its four bits.             *)
THEOREM TypeCorrect == Spec => []TypeOK
<1>1. Init => TypeOK
  BY TypeInit
<1>2. TypeOK /\ [Next]_vars => TypeOK'
  BY TypeStep
<1> QED BY <1>1, <1>2, PTL DEF Spec

-----------------------------------------------------------------------------
(***************************************************************************)
(* The buses as sequences.                                                 *)
(***************************************************************************)
LEMMA BusTail ==
  ASSUME TypeOK, data_bus # <<>>, data_bus' = Tail(data_bus)
  PROVE  /\ Len(data_bus') = Len(data_bus) - 1
         /\ \A i \in 1..Len(data_bus') :
              i + 1 \in Bus /\ data_bus'[i] = data_bus[i + 1]
BY DEF TypeOK, Bus

LEMMA BusHead ==
  ASSUME TypeOK, data_bus # <<>>
  PROVE  /\ 1 \in Bus /\ Head(data_bus) = data_bus[1]
         /\ Len(data_bus) \in Nat
<1>1. data_bus \in Seq(Frame) /\ Len(data_bus) \in Nat
  BY DEF TypeOK
<1>2. Len(data_bus) # 0
  BY <1>1
<1>3. Head(data_bus) = data_bus[1]
  BY <1>1
<1> QED BY <1>1, <1>2, <1>3 DEF Bus

LEMMA BusAppend ==
  ASSUME TypeOK, NEW f, data_bus' = Append(data_bus, f)
  PROVE  /\ Len(data_bus') = Len(data_bus) + 1
         /\ \A i \in Bus : data_bus'[i] = data_bus[i]
         /\ data_bus'[Len(data_bus) + 1] = f
         /\ Bus' = Bus \cup {Len(data_bus) + 1}
         /\ Len(data_bus) \in Nat
BY DEF TypeOK, Bus

LEMMA BusTyped ==
  ASSUME TypeOK, NEW i \in Bus
  PROVE  /\ data_bus[i].type \in FrameType
         /\ data_bus[i].pci \in Nat
         /\ data_bus[i].data \in DataRun
         /\ data_bus[i].data.msg \in Nat
         /\ data_bus[i].data.off \in Nat
<1>1. data_bus[i] \in Frame
  BY DEF TypeOK, Bus
<1> QED BY <1>1 DEF Frame, DataRun

LEMMA SentAppend ==
  ASSUME TypeOK, NEW s \in Sizes, sent' = Append(sent, s)
  PROVE  /\ Len(sent') = Len(sent) + 1
         /\ CurrentMsg' = Len(sent) + 1
         /\ send_size' = s
         /\ Len(sent) \in Nat
         /\ s \in Nat
         /\ \A m \in 1..Len(sent) : m \in 1..Len(sent') /\ sent'[m] = sent[m]
BY ConstantsAssumption DEF TypeOK, CurrentMsg, send_size

LEMMA SentTyped ==
  ASSUME TypeOK
  PROVE  /\ Len(sent) \in Nat
         /\ \A m \in 1..Len(sent) : sent[m] \in Nat
         /\ sent # <<>> => CurrentMsg \in 1..Len(sent) /\ send_size \in Nat
<1>1. Len(sent) \in Nat /\ \A m \in 1..Len(sent) : sent[m] \in Sizes
  BY DEF TypeOK
<1>2. sent # <<>> => CurrentMsg \in 1..Len(sent)
  BY DEF TypeOK, CurrentMsg
<1> QED BY <1>1, <1>2, ConstantsAssumption DEF send_size

(* Taking the oldest frame off the bus keeps what is known of the others.  *)
LEMMA Consume ==
  ASSUME IInv, data_bus # <<>>, data_bus' = Tail(data_bus),
         UNCHANGED <<sent, send_vars>>
  PROVE  /\ SendInv' /\ SFInv' /\ CFInv' /\ BusOrder'
         /\ UNCHANGED fc_bus => FFInv'
         /\ NoCF => NoCF'
         /\ (\A i \in Bus : ~IsFF(i)) => (\A i \in Bus : ~IsFF(i))'
<1> USE DEF IInv, send_vars
<1>1. /\ Len(data_bus') = Len(data_bus) - 1
      /\ \A i \in 1..Len(data_bus') :
           i + 1 \in Bus /\ data_bus'[i] = data_bus[i + 1]
  BY BusTail
<1>2. Len(data_bus) \in Nat
  BY DEF TypeOK
<1>3. SendInv'
  BY DEF SendInv, InProgress, CurrentMsg, send_size
<1>4. SFInv'
  BY <1>1 DEF SFInv, Bus, IsSF
<1>5. CFInv'
  BY <1>1 DEF CFInv, Bus, IsCF, InProgress, CurrentMsg
<1>6. BusOrder'
  BY <1>1, <1>2 DEF BusOrder, Bus, IsCF
<1>7. UNCHANGED fc_bus => FFInv'
  <2> SUFFICES ASSUME UNCHANGED fc_bus, NEW i \in 1..Len(data_bus'),
                      data_bus'[i].type = "FF"
               PROVE  /\ i = Len(data_bus')
                      /\ fc_bus = <<>>
                      /\ InProgress /\ send_bs_remain = 0
                      /\ send_offset = FFData /\ send_sn = 1
                      /\ data_bus'[i].data = Run(CurrentMsg, 0)
                      /\ data_bus'[i].pci \in {0, send_size}
    BY DEF FFInv, Bus, IsFF, InProgress, CurrentMsg, send_size
  <2>1. i + 1 \in Bus /\ IsFF(i + 1) /\ data_bus'[i] = data_bus[i + 1]
    BY <1>1 DEF IsFF
  <2>2. /\ i + 1 = Len(data_bus)
        /\ fc_bus = <<>>
        /\ InProgress /\ send_bs_remain = 0
        /\ send_offset = FFData /\ send_sn = 1
        /\ data_bus[i + 1].data = Run(CurrentMsg, 0)
        /\ data_bus[i + 1].pci \in {0, send_size}
    BY <2>1 DEF FFInv
  <2>3. i = Len(data_bus')
    <3>1. i \in Nat /\ i + 1 = Len(data_bus)
      BY <2>1, <2>2
    <3>2. Len(data_bus') = Len(data_bus) - 1
      BY <1>1
    <3> QED BY <1>2, <3>1, <3>2
  <2> QED BY <2>1, <2>2, <2>3
<1>8. NoCF => NoCF'
  BY <1>1 DEF NoCF, Bus, IsCF
<1>9. (\A i \in Bus : ~IsFF(i)) => (\A i \in Bus : ~IsFF(i))'
  BY <1>1 DEF Bus, IsFF
<1> QED BY <1>3, <1>4, <1>5, <1>6, <1>7, <1>8, <1>9

LEMMA IntegrityKept ==
  ASSUME TypeOK, Integrity, UNCHANGED delivered,
         UNCHANGED sent \/ \E s \in Sizes : sent' = Append(sent, s)
  PROVE  Integrity'
<1>1. \A m \in 1..Len(sent) : m \in 1..Len(sent') /\ sent'[m] = sent[m]
  BY SentAppend
<1>2. \A d, m : IsMessage(d, m) => IsMessage(d, m)'
  BY <1>1 DEF IsMessage
<1>3. ASSUME NEW i \in 1..Len(delivered)
      PROVE  \E m \in 1..Len(sent') : IsMessage(delivered[i], m)'
  <2>1. PICK m \in 1..Len(sent) : IsMessage(delivered[i], m)
    BY DEF Integrity
  <2>2. m \in 1..Len(sent')
    BY <1>1
  <2>3. IsMessage(delivered[i], m)'
    BY <1>1, <2>1 DEF IsMessage
  <2> QED BY <2>2, <2>3
<1> QED BY <1>3 DEF Integrity

-----------------------------------------------------------------------------
(***************************************************************************)
(* Each action preserves the invariant.  TypeOK' comes from TypeStep.      *)
(***************************************************************************)
LEMMA IInvInit == Init => IInv
BY TypeInit
DEF Init, IInv, SendInv, SFInv, FFInv, CFInv, BusOrder, ReceiveInv, FCInv,
    WindowInv, FlowControlFresh, WithinBlock, Integrity, InProgress, Receiving,
    Bus

LEMMA SendSingleStep ==
  ASSUME IInv, TypeOK', NEW size \in Sizes, SendSingle(size)
  PROVE  IInv'
<1> USE DEF IInv
<1>1. /\ ~InProgress /\ ~InProgress' /\ size <= SFMax
      /\ sent' = Append(sent, size)
      /\ data_bus' = Append(data_bus, SingleFrame(Len(sent) + 1, size))
      /\ UNCHANGED <<fc_bus, receive_vars, delivered>>
  BY DEF SendSingle, InProgress
<1> DEFINE f == SingleFrame(Len(sent) + 1, size)
           n == Len(data_bus) + 1
<1>2. f.type = "SF" /\ f.pci = size /\ f.data.msg = Len(sent) + 1 /\ f.data.off = 0
  BY DEF SingleFrame, Run
<1>3. /\ Len(data_bus') = n
      /\ \A i \in Bus : data_bus'[i] = data_bus[i]
      /\ data_bus'[n] = f
      /\ Bus' = Bus \cup {n}
      /\ Len(data_bus) \in Nat
  BY <1>1, BusAppend
<1>4. /\ Len(sent') = Len(sent) + 1 /\ Len(sent) \in Nat
      /\ sent'[Len(sent) + 1] = size
      /\ \A m \in 1..Len(sent) : m \in 1..Len(sent') /\ sent'[m] = sent[m]
  BY <1>1, SentAppend DEF send_size, CurrentMsg
<1>5. fc_bus = <<>> /\ \A i \in Bus : ~IsFF(i)
  BY <1>1 DEF FlowControlFresh, FFInv, InProgress
<1> HIDE DEF f
<1>6. SendInv'
  BY <1>1 DEF SendInv
<1>7. SFInv'
  <2>1. ASSUME NEW i \in Bus, data_bus[i].type = "SF"
        PROVE  /\ data_bus[i].data.msg \in 1..Len(sent')
               /\ data_bus[i].data.off = 0
               /\ data_bus[i].pci = sent'[data_bus[i].data.msg]
               /\ data_bus[i].pci <= SFMax
    <3>1. /\ data_bus[i].data.msg \in 1..Len(sent)
          /\ data_bus[i].data.off = 0
          /\ data_bus[i].pci = sent[data_bus[i].data.msg]
          /\ data_bus[i].pci <= SFMax
      BY <2>1 DEF SFInv, IsSF
    <3> QED BY <3>1, <1>4
  <2>2. ASSUME NEW i \in Bus', data_bus'[i].type = "SF"
        PROVE  /\ data_bus'[i].data.msg \in 1..Len(sent')
               /\ data_bus'[i].data.off = 0
               /\ data_bus'[i].pci = sent'[data_bus'[i].data.msg]
               /\ data_bus'[i].pci <= SFMax
    <3>1. CASE i \in Bus
      BY <1>3, <2>1, <2>2, <3>1
    <3>2. CASE i = n
      BY <1>1, <1>2, <1>3, <1>4, <3>2
    <3> QED BY <1>3, <3>1, <3>2
  <2> QED BY <2>2 DEF SFInv, IsSF
<1>8. FFInv'
  BY <1>2, <1>3, <1>5 DEF FFInv, IsFF
<1>9. CFInv'
  <2>1. ASSUME NEW i \in Bus, data_bus[i].type = "CF"
        PROVE  /\ data_bus[i].data.msg \in 1..Len(sent')
               /\ sent'[data_bus[i].data.msg] > SFMax
               /\ data_bus[i].data.off < sent'[data_bus[i].data.msg]
               /\ Aligned(data_bus[i].data.off, data_bus[i].pci)
    <3>1. /\ data_bus[i].data.msg \in 1..Len(sent)
          /\ sent[data_bus[i].data.msg] > SFMax
          /\ data_bus[i].data.off < sent[data_bus[i].data.msg]
          /\ Aligned(data_bus[i].data.off, data_bus[i].pci)
      BY <2>1 DEF CFInv, IsCF
    <3> QED BY <3>1, <1>4
  <2>2. ASSUME NEW i \in Bus', data_bus'[i].type = "CF"
        PROVE  i \in Bus /\ data_bus'[i] = data_bus[i]
    BY <1>2, <1>3, <2>2
  <2>3. ASSUME NEW i \in Bus', data_bus'[i].type = "CF"
        PROVE  /\ data_bus'[i].data.msg \in 1..Len(sent')
               /\ sent'[data_bus'[i].data.msg] > SFMax
               /\ data_bus'[i].data.off < sent'[data_bus'[i].data.msg]
               /\ Aligned(data_bus'[i].data.off, data_bus'[i].pci)
    BY <2>1, <2>2, <2>3
  <2> QED BY <1>1, <2>3 DEF CFInv, IsCF
<1>10. BusOrder'
  <2>1. \A i \in Bus : data_bus[i].data.msg <= Len(sent)
    BY <1>1, <1>5, BusTyped DEF SFInv, CFInv, FrameType, IsSF, IsCF, IsFF
  <2>2. \A i \in Bus : i < n /\ i \in Nat /\ data_bus[i].data.msg \in Nat
    BY <1>3, BusTyped DEF Bus
  <2> QED BY <1>2, <1>3, <1>4, <2>1, <2>2, SMTT(30) DEF BusOrder, IsCF
<1>11. ReceiveInv'
  BY <1>1, <1>4 DEF ReceiveInv, Receiving, receive_vars, ReceiveMsg
<1>12. FCInv' /\ FlowControlFresh'
  BY <1>1, <1>5 DEF FCInv, FlowControlFresh
<1>13. WindowInv'
  BY <1>1, <1>2, <1>3 DEF WindowInv, Receiving, receive_vars, NoCF, IsCF
<1>14. WithinBlock'
  BY <1>1, <1>2, <1>3 DEF WithinBlock, receive_vars, IsCF, Bus
<1>15. Integrity'
  BY <1>1, IntegrityKept
<1> QED BY <1>6, <1>7, <1>8, <1>9, <1>10, <1>11, <1>12, <1>13, <1>14, <1>15

LEMMA SendFirstStep ==
  ASSUME IInv, TypeOK', NEW size \in Sizes, SendFirst(size)
  PROVE  IInv'
<1> USE DEF IInv
<1>1. /\ ~InProgress /\ InProgress' /\ size > SFMax /\ size <= SendBuf
      /\ sent' = Append(sent, size)
      /\ data_bus' = Append(data_bus, FirstFrame(Len(sent) + 1, size))
      /\ send_offset' = FFData /\ send_sn' = 1 /\ send_bs_remain' = 0
      /\ UNCHANGED <<fc_bus, receive_vars, delivered>>
  BY DEF SendFirst, InProgress
<1> DEFINE f == FirstFrame(Len(sent) + 1, size)
           n == Len(data_bus) + 1
<1>2. /\ f.type = "FF" /\ f.data = Run(Len(sent) + 1, 0)
      /\ f.data.msg = Len(sent) + 1
  BY DEF FirstFrame, Run
<1>3. /\ Len(data_bus') = n
      /\ \A i \in Bus : data_bus'[i] = data_bus[i]
      /\ data_bus'[n] = f
      /\ Bus' = Bus \cup {n}
      /\ Len(data_bus) \in Nat
  BY <1>1, BusAppend
<1>4. /\ Len(sent') = Len(sent) + 1 /\ Len(sent) \in Nat
      /\ CurrentMsg' = Len(sent) + 1 /\ send_size' = size /\ size \in Nat
      /\ \A m \in 1..Len(sent) : m \in 1..Len(sent') /\ sent'[m] = sent[m]
  BY <1>1, SentAppend
<1>5. fc_bus = <<>> /\ \A i \in Bus : ~IsFF(i)
  BY <1>1 DEF FlowControlFresh, FFInv, InProgress
<1>6. f.pci \in {0, size}
  <2> HIDE DEF IInv
  <2> QED BY <1>1, <1>4, FirstFrameLength
<1> HIDE DEF f
<1>7. SendInv'
  BY <1>1, <1>4, AlignedFirst DEF SendInv, FFData, SFMax
<1>8. SFInv'
  BY <1>2, <1>3, <1>4, SMTT(40) DEF SFInv, IsSF
<1>9. FFInv'
  BY <1>1, <1>2, <1>3, <1>4, <1>5, <1>6 DEF FFInv, IsFF
<1>10. CFInv'
  <2>1. \A i \in Bus : IsCF(i) => data_bus[i].data.msg # CurrentMsg'
    BY <1>4 DEF CFInv
  <2> QED BY <1>2, <1>3, <1>4, <2>1, SMTT(30) DEF CFInv, IsCF
<1>11. BusOrder'
  <2>1. \A i \in Bus : data_bus[i].data.msg <= Len(sent)
    BY <1>1, <1>5, BusTyped DEF SFInv, CFInv, FrameType, IsSF, IsCF, IsFF
  <2>2. \A i \in Bus : i < n /\ i \in Nat /\ data_bus[i].data.msg \in Nat
    BY <1>3, BusTyped DEF Bus
  <2> QED BY <1>2, <1>3, <1>4, <2>1, <2>2, SMTT(30) DEF BusOrder, IsCF
<1>12. ReceiveInv'
  BY <1>1, <1>4 DEF ReceiveInv, Receiving, receive_vars, ReceiveMsg
<1>13. FCInv' /\ FlowControlFresh'
  BY <1>1, <1>5 DEF FCInv, FlowControlFresh
<1>14. WindowInv'
  <2>1. Receiving => ReceiveMsg # CurrentMsg'
    BY <1>4 DEF ReceiveInv
  <2>2. Receiving => \/ \A i \in Bus : data_bus[i].type # "CF"
                     \/ receive_size <= receive_offset
                                          + CFData * receive_bs_count
    BY <1>1 DEF WindowInv, NoCF, IsCF
  <2>3. (\A i \in Bus : data_bus[i].type # "CF") => NoCF'
    BY <1>2, <1>3 DEF NoCF, IsCF
  <2>4. UNCHANGED <<Receiving, ReceiveMsg, receive_size, receive_offset,
                   receive_bs_count>>
    BY <1>1 DEF Receiving, receive_vars, ReceiveMsg
  <2>5. ~(send_bs_remain' > 0)
    BY <1>1
  <2> QED BY <2>1, <2>2, <2>3, <2>4, <2>5 DEF WindowInv
<1>15. WithinBlock'
  BY <1>1, <1>2, <1>3 DEF WithinBlock, receive_vars, IsCF, Bus
<1>16. Integrity'
  BY <1>1, IntegrityKept
<1> QED BY <1>7, <1>8, <1>9, <1>10, <1>11, <1>12, <1>13, <1>14, <1>15, <1>16

(* A consecutive frame more: it lies in the receiver's window because the  *)
(* sender had credit for it.                                               *)
LEMMA PollSendStep ==
  ASSUME IInv, TypeOK', PollSend
  PROVE  IInv'
<1> USE DEF IInv
<1>1. /\ InProgress /\ send_bs_remain > 0
      /\ data_bus' = Append(data_bus,
                        ConsecutiveFrame(CurrentMsg, send_offset, send_sn))
      /\ send_offset' = send_offset + Smaller(send_size - send_offset, CFData)
      /\ send_sn' = NextSN(send_sn)
      /\ send_bs_remain' = send_bs_remain - 1
      /\ send_status' = IF send_offset' >= send_size THEN "IDLE"
                        ELSE "INPROGRESS"
      /\ UNCHANGED <<sent, fc_bus, receive_vars, delivered>>
  BY DEF PollSend, InProgress
<1> DEFINE f == ConsecutiveFrame(CurrentMsg, send_offset, send_sn)
           n == Len(data_bus) + 1
<1>2. /\ f.type = "CF" /\ f.pci = send_sn
      /\ f.data.msg = CurrentMsg /\ f.data.off = send_offset
  BY DEF ConsecutiveFrame, Run
<1>3. /\ Len(data_bus') = n
      /\ \A i \in Bus : data_bus'[i] = data_bus[i]
      /\ data_bus'[n] = f
      /\ Bus' = Bus \cup {n}
      /\ Len(data_bus) \in Nat
  BY <1>1, BusAppend
<1>4. /\ CurrentMsg \in 1..Len(sent) /\ CurrentMsg' = CurrentMsg
      /\ send_size \in Nat /\ send_size' = send_size
      /\ send_size = sent[CurrentMsg] /\ Len(sent) \in Nat
  BY <1>1, SentTyped DEF SendInv, CurrentMsg, send_size, InProgress, TypeOK
<1>5. /\ send_size > SFMax /\ send_offset < send_size
      /\ Aligned(send_offset, send_sn)
      /\ send_offset \in Nat /\ send_sn \in Nat /\ send_bs_remain \in Nat
  BY <1>1, ConstantsAssumption DEF SendInv, TypeOK
<1>6. fc_bus = <<>> /\ \A i \in Bus : ~IsFF(i)
  BY <1>1, <1>5 DEF FlowControlFresh, FFInv
<1>7. InProgress' => /\ send_offset' < send_size
                     /\ send_offset' = send_offset + CFData
  BY <1>1, <1>4, <1>5 DEF InProgress, Smaller, CFData
<1>8. ~InProgress' => send_size <= send_offset + CFData
  BY <1>1, <1>4, <1>5 DEF InProgress, Smaller, CFData
<1> HIDE DEF f
<1>9. SendInv'
  BY <1>1, <1>4, <1>5, <1>7, AlignedNext DEF SendInv, CurrentMsg
<1>10. SFInv'
  <2>1. SUFFICES ASSUME NEW i \in Bus', data_bus'[i].type = "SF"
                 PROVE  /\ data_bus'[i].data.msg \in 1..Len(sent')
                        /\ data_bus'[i].data.off = 0
                        /\ data_bus'[i].pci = sent'[data_bus'[i].data.msg]
                        /\ data_bus'[i].pci <= SFMax
    BY DEF SFInv, IsSF
  <2>2. i \in Bus /\ data_bus'[i] = data_bus[i]
    BY <1>2, <1>3, <2>1
  <2>3. sent' = sent
    BY <1>1
  <2> QED BY <2>1, <2>2, <2>3 DEF SFInv, IsSF
<1>11. FFInv'
  BY <1>2, <1>3, <1>6 DEF FFInv, IsFF
<1>12. CFInv'
  <2>1. ASSUME NEW i \in Bus, data_bus[i].type = "CF"
        PROVE  /\ data_bus[i].data.msg \in 1..Len(sent)
               /\ sent[data_bus[i].data.msg] > SFMax
               /\ data_bus[i].data.off < sent[data_bus[i].data.msg]
               /\ Aligned(data_bus[i].data.off, data_bus[i].pci)
               /\ data_bus[i].data.msg = CurrentMsg
                    => data_bus[i].data.off < send_offset
    BY <1>1, <2>1 DEF CFInv, IsCF
  <2>2. InProgress' => send_offset' > send_offset /\ send_offset' \in Nat
    BY <1>5, <1>7 DEF CFData
  <2>3. ASSUME NEW i \in Bus', data_bus'[i].type = "CF"
        PROVE  /\ data_bus'[i].data.msg \in 1..Len(sent)
               /\ sent[data_bus'[i].data.msg] > SFMax
               /\ data_bus'[i].data.off < sent[data_bus'[i].data.msg]
               /\ Aligned(data_bus'[i].data.off, data_bus'[i].pci)
               /\ InProgress' /\ data_bus'[i].data.msg = CurrentMsg
                    => data_bus'[i].data.off < send_offset'
    <3>1. CASE i \in Bus
      <4>1. data_bus'[i] = data_bus[i] /\ data_bus[i].data.off \in Nat
        BY <1>3, <3>1, BusTyped
      <4> QED BY <1>5, <2>1, <2>2, <2>3, <3>1, <4>1
    <3>2. CASE i = n
      BY <1>2, <1>3, <1>4, <1>5, <2>2, <3>2
    <3> QED BY <1>3, <3>1, <3>2
  <2> QED BY <1>1, <1>4, <2>3 DEF CFInv, IsCF
<1>13. BusOrder'
  <2>1. \A i \in Bus : /\ data_bus[i].data.msg <= CurrentMsg
                       /\ IsCF(i) /\ data_bus[i].data.msg = CurrentMsg
                            => data_bus[i].data.off < send_offset
    BY <1>1, <1>6, BusTyped
    DEF SFInv, CFInv, FrameType, IsSF, IsCF, IsFF, CurrentMsg
  <2>2. \A i \in Bus : i < n /\ i \in Nat /\ data_bus[i].data.msg \in Nat
    BY <1>3, BusTyped DEF Bus
  <2> QED BY <1>2, <1>3, <2>1, <2>2 DEF BusOrder, IsCF
<1>14. ReceiveInv'
  BY <1>1 DEF ReceiveInv, Receiving, receive_vars, ReceiveMsg
<1>15. FCInv' /\ FlowControlFresh'
  BY <1>1, <1>6 DEF FCInv, FlowControlFresh
<1>16. UNCHANGED <<Receiving, ReceiveMsg, receive_size, receive_offset,
                  receive_bs_count>>
  BY <1>1 DEF Receiving, receive_vars, ReceiveMsg
<1>17. Receiving =>
         /\ ReceiveMsg = CurrentMsg
         /\ receive_offset \in Nat /\ receive_bs_count \in Nat
         /\ receive_size = send_size
         /\ send_offset >= receive_offset
         /\ send_offset + CFData * send_bs_remain
              <= receive_offset + CFData * receive_bs_count
  BY <1>1, <1>4, ConstantsAssumption DEF WindowInv, ReceiveInv, TypeOK
<1>18. WindowInv'
  <2>1. Receiving /\ InProgress' =>
          /\ send_offset' >= receive_offset
          /\ send_offset' + CFData * send_bs_remain'
               <= receive_offset + CFData * receive_bs_count
    BY <1>1, <1>5, <1>7, <1>17 DEF CFData
  <2>2. Receiving /\ ~InProgress' =>
          receive_size <= receive_offset + CFData * receive_bs_count
    BY <1>1, <1>4, <1>5, <1>8, <1>17 DEF CFData
  <2>3. (\A i \in Bus : ~IsFF(i))'
    BY <1>2, <1>3, <1>6 DEF IsFF
  <2> QED BY <1>4, <1>16, <1>17, <2>1, <2>2, <2>3 DEF WindowInv
<1>19. WithinBlock'
  <2>1. Receiving => send_offset < receive_offset + CFData * receive_bs_count
    BY <1>1, <1>5, <1>17 DEF CFData
  <2>2. ASSUME Receiving, NEW i \in Bus', data_bus'[i].type = "CF"
        PROVE  /\ data_bus'[i].data.msg = ReceiveMsg
               /\ data_bus'[i].data.off >= receive_offset
               /\ data_bus'[i].data.off
                    < receive_offset + CFData * receive_bs_count
    <3>1. CASE i \in Bus
      BY <1>3, <2>2, <3>1
      DEF WithinBlock, IsCF, Bus, Receiving, ReceiveMsg
    <3>2. CASE i = n
      BY <1>2, <1>3, <1>17, <2>1, <2>2, <3>2
    <3> QED BY <1>3, <3>1, <3>2
  <2> QED BY <1>1, <2>2
          DEF WithinBlock, IsCF, Bus, Receiving, ReceiveMsg, receive_vars
<1>20. Integrity'
  BY <1>1, IntegrityKept
<1> QED BY <1>9, <1>10, <1>11, <1>12, <1>13, <1>14, <1>15, <1>18, <1>19, <1>20

(* When the timer expires nothing is on the way: no frame of the abandoned *)
(* message can reach the receiver later.                                   *)
LEMMA TimeoutBsStep ==
  ASSUME IInv, TypeOK', BusesQuiet, TimeoutBs
  PROVE  IInv'
<1> USE DEF IInv
<1>1. /\ data_bus = <<>> /\ fc_bus = <<>> /\ ~InProgress'
      /\ UNCHANGED <<sent, send_offset, send_sn, send_bs_remain, data_bus,
                     fc_bus, receive_vars, delivered>>
  BY DEF TimeoutBs, BusesQuiet, InProgress
<1>2. Bus' = {} /\ Bus = {}
  BY <1>1 DEF Bus
<1>3. SendInv' /\ SFInv' /\ FFInv' /\ CFInv' /\ BusOrder'
  BY <1>1, <1>2 DEF SendInv, SFInv, FFInv, CFInv, BusOrder
<1>4. ReceiveInv'
  BY <1>1 DEF ReceiveInv, Receiving, receive_vars, ReceiveMsg
<1>5. FCInv' /\ FlowControlFresh' /\ WithinBlock'
  BY <1>1, <1>2 DEF FCInv, FlowControlFresh, WithinBlock, Bus
<1>6. WindowInv'
  BY <1>1, <1>2 DEF WindowInv, NoCF
<1>7. Integrity'
  BY <1>1, IntegrityKept
<1> QED BY <1>3, <1>4, <1>5, <1>6, <1>7

LEMMA RestartSenderStep ==
  ASSUME IInv, TypeOK', RestartSender
  PROVE  IInv'
<1> USE DEF IInv
<1>1. /\ data_bus = <<>> /\ fc_bus = <<>> /\ ~InProgress'
      /\ UNCHANGED <<sent, data_bus, fc_bus, receive_vars, delivered>>
  BY DEF RestartSender, ResetSender, BusesQuiet, InProgress
<1>2. Bus' = {} /\ Bus = {}
  BY <1>1 DEF Bus
<1>3. SendInv' /\ SFInv' /\ FFInv' /\ CFInv' /\ BusOrder'
  BY <1>1, <1>2 DEF SendInv, SFInv, FFInv, CFInv, BusOrder
<1>4. ReceiveInv'
  BY <1>1 DEF ReceiveInv, Receiving, receive_vars, ReceiveMsg
<1>5. FCInv' /\ FlowControlFresh' /\ WithinBlock'
  BY <1>1, <1>2 DEF FCInv, FlowControlFresh, WithinBlock, Bus
<1>6. WindowInv'
  BY <1>1, <1>2 DEF WindowInv, NoCF
<1>7. Integrity'
  BY <1>1, IntegrityKept
<1> QED BY <1>3, <1>4, <1>5, <1>6, <1>7

(* The answer finds the sender waiting in the transfer it belongs to.      *)
LEMMA OnFlowControlStep ==
  ASSUME IInv, TypeOK', OnFlowControl
  PROVE  IInv'
<1> USE DEF IInv
<1>1. /\ fc_bus # <<>> /\ fc_bus' = Tail(fc_bus)
      /\ UNCHANGED <<sent, data_bus, receive_vars, delivered>>
      /\ UNCHANGED <<send_offset, send_sn>>
  BY DEF OnFlowControl, send_vars
<1>2. /\ Len(fc_bus) = 1 /\ data_bus = <<>> /\ InProgress
      /\ Receiving => /\ ReceiveMsg = CurrentMsg
                      /\ receive_offset = send_offset
                      /\ receive_bs_count = BlockSize
  BY <1>1 DEF FlowControlFresh, FCInv, InProgress, Receiving, ReceiveMsg
<1>3. Bus' = {} /\ Bus = {}
  BY <1>1, <1>2 DEF Bus
<1>4. fc_bus' = <<>>
  <2>1. fc_bus \in Seq(FCFrame) /\ Tail(fc_bus) \in Seq(FCFrame)
    BY <1>1 DEF TypeOK
  <2>2. Len(Tail(fc_bus)) = 0
    BY <1>1, <1>2, <2>1
  <2> QED BY <1>1, <2>1, <2>2
<1>5. UNCHANGED <<CurrentMsg, send_size, Receiving, ReceiveMsg, receive_size,
                 receive_offset, receive_bs_count>>
  BY <1>1 DEF CurrentMsg, send_size, Receiving, ReceiveMsg, receive_vars
<1>6. SendInv'
  BY <1>1, <1>2, <1>5 DEF SendInv
<1>7. SFInv' /\ FFInv' /\ CFInv' /\ BusOrder'
  BY <1>3 DEF SFInv, FFInv, CFInv, BusOrder
<1>8. ReceiveInv'
  BY <1>1 DEF ReceiveInv, Receiving, receive_vars, ReceiveMsg
<1>9. FCInv' /\ FlowControlFresh' /\ WithinBlock'
  BY <1>3, <1>4 DEF FCInv, FlowControlFresh, WithinBlock, Bus
<1>10. WindowInv'
  <2> DEFINE credit == send_bs_remain'
  <2>1. credit \in Nat /\ credit <= BlockSize /\ BlockSize \in Nat
        /\ send_offset \in Nat
    BY ConstantsAssumption DEF TypeOK
  <2> HIDE DEF credit
  <2>2. Receiving => /\ send_offset >= receive_offset
                     /\ send_offset + CFData * credit
                          <= receive_offset + CFData * receive_bs_count
    BY <1>2, <2>1 DEF CFData
  <2>3. Receiving => /\ send_offset' >= receive_offset
                     /\ send_offset' + CFData * send_bs_remain'
                          <= receive_offset + CFData * receive_bs_count
    BY <1>1, <2>2 DEF credit
  <2> QED BY <1>2, <1>3, <1>5, <2>3 DEF WindowInv, NoCF
<1>11. Integrity'
  BY <1>1, IntegrityKept
<1> QED BY <1>6, <1>7, <1>8, <1>9, <1>10, <1>11

(* The frames that end or replace the transfer at the receiver.            *)
LEMMA ReceiverIdle ==
  ASSUME IInv, ~Receiving', UNCHANGED <<sent, send_vars, fc_bus, delivered>>,
         SFInv', FFInv', CFInv', BusOrder', TypeOK',
         fc_bus # <<>> => UNCHANGED data_bus
  PROVE  IInv'
<1> USE DEF IInv, send_vars
<1>1. SendInv'
  BY DEF SendInv, InProgress, CurrentMsg, send_size
<1>2. ReceiveInv' /\ FCInv' /\ WindowInv'
  BY DEF ReceiveInv, FCInv, WindowInv
<1>3. WithinBlock'
  BY DEF WithinBlock, Receiving
<1>4. FlowControlFresh'
  BY DEF FlowControlFresh, Receiving
<1>5. Integrity'
  BY IntegrityKept
<1> QED BY <1>1, <1>2, <1>3, <1>4, <1>5

LEMMA TimeoutCrStep ==
  ASSUME IInv, TypeOK', TimeoutCr
  PROVE  IInv'
<1>1. ~Receiving' /\ UNCHANGED <<sent, send_vars, fc_bus, data_bus, delivered>>
  BY DEF TimeoutCr, Receiving
<1>2. SFInv' /\ FFInv' /\ CFInv' /\ BusOrder'
  BY <1>1 DEF IInv, SFInv, FFInv, CFInv, BusOrder, Bus, IsSF, IsFF, IsCF,
              send_vars, InProgress, CurrentMsg, send_size
<1> QED BY <1>1, <1>2, ReceiverIdle

LEMMA RestartReceiverStep ==
  ASSUME IInv, TypeOK', RestartReceiver
  PROVE  IInv'
<1>1. ~Receiving' /\ UNCHANGED <<sent, send_vars, fc_bus, data_bus, delivered>>
  BY DEF RestartReceiver, Receiving
<1>2. SFInv' /\ FFInv' /\ CFInv' /\ BusOrder'
  BY <1>1 DEF IInv, SFInv, FFInv, CFInv, BusOrder, Bus, IsSF, IsFF, IsCF,
              send_vars, InProgress, CurrentMsg, send_size
<1> QED BY <1>1, <1>2, ReceiverIdle

(* The oldest frame leaves the bus and the receive half stays as it is.    *)
LEMMA DropStep ==
  ASSUME IInv, TypeOK', data_bus # <<>>, data_bus' = Tail(data_bus),
         UNCHANGED <<sent, send_vars, fc_bus, receive_vars, delivered>>
  PROVE  IInv'
<1> USE DEF IInv
<1>1. /\ SendInv' /\ SFInv' /\ CFInv' /\ BusOrder' /\ FFInv'
      /\ NoCF => NoCF'
      /\ (\A i \in Bus : ~IsFF(i)) => (\A i \in Bus : ~IsFF(i))'
  BY Consume
<1>2. fc_bus = <<>>
  BY DEF FlowControlFresh
<1>3. ReceiveInv'
  BY DEF ReceiveInv, Receiving, receive_vars, ReceiveMsg
<1>4. FCInv' /\ FlowControlFresh'
  BY <1>2 DEF FCInv, FlowControlFresh
<1>5. WindowInv'
  BY <1>1 DEF WindowInv, Receiving, receive_vars, send_vars, InProgress,
              ReceiveMsg, CurrentMsg
<1>6. WithinBlock'
  <2>1. \A i \in 1..Len(data_bus') :
          i + 1 \in Bus /\ data_bus'[i] = data_bus[i + 1]
    BY BusTail
  <2> QED BY <2>1 DEF WithinBlock, IsCF, Bus, receive_vars
<1>7. Integrity'
  BY IntegrityKept
<1> QED BY <1>1, <1>3, <1>4, <1>5, <1>6, <1>7

LEMMA LoseDataStep ==
  ASSUME IInv, TypeOK', LoseData
  PROVE  IInv'
BY DropStep DEF LoseData

LEMMA LoseFlowControlStep ==
  ASSUME IInv, TypeOK', LoseFlowControl
  PROVE  IInv'
<1> USE DEF IInv
<1>1. /\ fc_bus # <<>> /\ fc_bus' = Tail(fc_bus)
      /\ UNCHANGED <<sent, send_vars, data_bus, receive_vars, delivered>>
  BY DEF LoseFlowControl
<1>2. Len(fc_bus) = 1 /\ data_bus = <<>> /\ Bus = {} /\ Bus' = {}
  BY <1>1 DEF FlowControlFresh, Bus
<1>3. fc_bus' = <<>>
  <2>1. fc_bus \in Seq(FCFrame) /\ Tail(fc_bus) \in Seq(FCFrame)
    BY <1>1 DEF TypeOK
  <2>2. Len(Tail(fc_bus)) = 0
    BY <1>1, <1>2, <2>1
  <2> QED BY <1>1, <2>1, <2>2
<1>4. SendInv'
  BY <1>1 DEF SendInv, InProgress, CurrentMsg, send_size, send_vars
<1>5. SFInv' /\ FFInv' /\ CFInv' /\ BusOrder'
  BY <1>2 DEF SFInv, FFInv, CFInv, BusOrder
<1>6. ReceiveInv'
  BY <1>1 DEF ReceiveInv, Receiving, receive_vars, ReceiveMsg
<1>7. FCInv' /\ FlowControlFresh' /\ WithinBlock'
  BY <1>2, <1>3 DEF FCInv, FlowControlFresh, WithinBlock, Bus
<1>8. WindowInv'
  BY <1>1, <1>2 DEF WindowInv, Receiving, receive_vars, send_vars, InProgress,
                    ReceiveMsg, CurrentMsg, NoCF
<1>9. Integrity'
  BY <1>1, IntegrityKept
<1> QED BY <1>4, <1>5, <1>6, <1>7, <1>8, <1>9

(* Handing over a complete message keeps what was handed over before.      *)
LEMMA IntegrityHandOver ==
  ASSUME TypeOK, Integrity, UNCHANGED sent, NEW d,
         delivered' = Append(delivered, d),
         NEW k \in 1..Len(sent), IsMessage(d, k)
  PROVE  Integrity'
<1>1. /\ Len(delivered) \in Nat
      /\ Len(delivered') = Len(delivered) + 1
      /\ delivered'[Len(delivered) + 1] = d
      /\ \A i \in 1..Len(delivered) : delivered'[i] = delivered[i]
  BY DEF TypeOK
<1>2. ASSUME NEW e, NEW m \in 1..Len(sent), IsMessage(e, m)
      PROVE  m \in 1..Len(sent') /\ e.size = sent'[m]
             /\ e.data = [i \in 1..NumRuns(sent'[m]) |-> Run(m, RunOffset(i))]
  BY <1>2 DEF IsMessage
<1>3. ASSUME NEW i \in 1..Len(delivered')
      PROVE  \E m \in 1..Len(sent) : IsMessage(delivered'[i], m)
  <2>1. CASE i \in 1..Len(delivered)
    BY <1>1, <2>1 DEF Integrity
  <2>2. CASE i = Len(delivered) + 1
    BY <1>1, <2>2
  <2> QED BY <1>1, <2>1, <2>2
<1>4. ASSUME NEW i \in 1..Len(delivered')
      PROVE  \E m \in 1..Len(sent') :
               /\ m \in 1..Len(sent')
               /\ delivered'[i].size = sent'[m]
               /\ delivered'[i].data =
                    [j \in 1..NumRuns(sent'[m]) |-> Run(m, RunOffset(j))]
  <2>1. PICK m \in 1..Len(sent) : IsMessage(delivered'[i], m)
    BY <1>3
  <2> QED BY <2>1, <1>2
<1> QED BY <1>4 DEF Integrity, IsMessage

LEMMA OnSingleFrameStep ==
  ASSUME IInv, TypeOK', OnSingleFrame
  PROVE  IInv'
<1> DEFINE f == Head(data_bus)
<1>1. /\ data_bus # <<>> /\ data_bus' = Tail(data_bus) /\ f.type = "SF"
      /\ ~Receiving' /\ UNCHANGED <<sent, send_vars, fc_bus>>
      /\ delivered' = Append(delivered, [size |-> f.pci, data |-> <<f.data>>])
  BY DEF OnSingleFrame, IsHead, HandOver, Receiving
<1>2. 1 \in Bus /\ f = data_bus[1]
  BY <1>1, BusHead DEF IInv
<1>3. /\ f.data.msg \in 1..Len(sent) /\ f.data.off = 0
      /\ f.pci = sent[f.data.msg] /\ f.pci <= SFMax
  BY <1>1, <1>2 DEF IInv, SFInv, IsSF
<1>4. f.data = Run(f.data.msg, 0)
  <2>1. f.data \in DataRun
    BY <1>2, BusTyped DEF IInv
  <2> QED BY <1>3, <2>1 DEF DataRun, Run
<1> DEFINE d == [size |-> f.pci, data |-> <<f.data>>]
<1>5. IsMessage(d, f.data.msg)
  <2> DEFINE m == f.data.msg
  <2>1. NumRuns(sent[m]) = 1
    BY <1>3 DEF NumRuns
  <2>2. <<f.data>> = [i \in 1..1 |-> Run(m, RunOffset(i))]
    BY <1>4 DEF RunOffset
  <2> QED BY <1>3, <2>1, <2>2 DEF IsMessage
<1>6. Integrity'
  BY <1>1, <1>3, <1>5, IntegrityHandOver DEF IInv
<1>7. /\ SendInv' /\ SFInv' /\ CFInv' /\ BusOrder' /\ FFInv'
  BY <1>1, Consume
<1>8. ReceiveInv' /\ FCInv' /\ WindowInv' /\ WithinBlock' /\ FlowControlFresh'
  <2>1. fc_bus' = <<>>
    BY <1>1 DEF IInv, FlowControlFresh
  <2> QED BY <1>1, <2>1 DEF ReceiveInv, FCInv, WindowInv, WithinBlock,
                            FlowControlFresh, Receiving
<1> QED BY <1>6, <1>7, <1>8 DEF IInv

(* A first frame is the last thing the sender wrote, so whatever the       *)
(* receiver answers finds the sender waiting at byte FFData.               *)
LEMMA OnFirstFrameStep ==
  ASSUME IInv, TypeOK', OnFirstFrame
  PROVE  IInv'
<1> DEFINE f == Head(data_bus)
<1>1. /\ data_bus # <<>> /\ data_bus' = Tail(data_bus) /\ f.type = "FF"
      /\ UNCHANGED <<sent, send_vars, delivered>>
  BY DEF OnFirstFrame, StartReception, IsHead
<1>2. 1 \in Bus /\ f = data_bus[1] /\ IsFF(1)
  BY <1>1, BusHead DEF IInv, IsFF
<1>3. /\ Len(data_bus) = 1 /\ fc_bus = <<>>
      /\ InProgress /\ send_bs_remain = 0 /\ send_offset = FFData /\ send_sn = 1
      /\ f.data = Run(CurrentMsg, 0) /\ f.pci \in {0, send_size}
  BY <1>2 DEF IInv, FFInv
<1>4. data_bus' = <<>>
  <2>1. data_bus \in Seq(Frame) /\ Tail(data_bus) \in Seq(Frame)
    BY <1>1 DEF IInv, TypeOK
  <2>2. Len(Tail(data_bus)) = 0
    BY <1>1, <1>3, <2>1
  <2> QED BY <1>1, <2>1, <2>2
<1>5. Bus' = {}
  BY <1>4 DEF Bus
<1>6. SendInv' /\ SFInv' /\ FFInv' /\ CFInv' /\ BusOrder'
  BY <1>1, <1>5, Consume DEF IInv, SFInv, FFInv, CFInv, BusOrder
<1>7. Integrity'
  BY <1>1, IntegrityKept DEF IInv
<1>8. CASE UNCHANGED <<fc_bus, receive_vars>>
  BY <1>1, <1>8, DropStep
<1>9. CASE /\ receive_status' = "IDLE"
           /\ fc_bus' = Append(fc_bus, FlowControl("OVERFLOW", 0))
  <2>1. ~Receiving'
    BY <1>9 DEF Receiving
  <2>2. FlowControlFresh'
    <3>1. Len(fc_bus') = 1
      BY <1>3, <1>9
    <3> QED BY <1>1, <1>3, <1>4, <2>1, <3>1
            DEF FlowControlFresh, Receiving, InProgress, send_vars
  <2>3. ReceiveInv' /\ FCInv' /\ WindowInv' /\ WithinBlock'
    BY <2>1 DEF ReceiveInv, FCInv, WindowInv, WithinBlock, Receiving
  <2> QED BY <1>6, <1>7, <2>2, <2>3 DEF IInv
<1>10. CASE /\ f.pci > SFMax
            /\ receive_status' = "INPROGRESS"
            /\ receive_size' = f.pci
            /\ receive_offset' = FFData
            /\ receive_sn' = 1
            /\ receive_bs_count' = BlockSize
            /\ receive_buffer' = <<f.data>>
            /\ fc_bus' = Append(fc_bus, FlowControl("CONTINUE", BlockSize))
  <2>1. /\ CurrentMsg \in 1..Len(sent) /\ CurrentMsg' = CurrentMsg
        /\ send_size' = send_size /\ send_size = sent[CurrentMsg]
        /\ send_size \in Nat
    BY <1>1, <1>3, SentTyped
    DEF IInv, SendInv, TypeOK, CurrentMsg, send_size, InProgress
  <2>2. f.pci = send_size /\ send_size > SFMax
    BY <1>3, <1>10 DEF SFMax
  <2>3. /\ Len(receive_buffer') = 1 /\ receive_buffer'[1] = Run(CurrentMsg, 0)
        /\ ReceiveMsg' = CurrentMsg
    BY <1>3, <1>10 DEF ReceiveMsg, Run
  <2>4. ReceiveInv'
    BY <1>1, <1>10, <2>1, <2>2, <2>3, AlignedFirst
    DEF ReceiveInv, FFData, SFMax, CFData, RunOffset
  <2>5. Len(fc_bus') = 1 /\ fc_bus' # <<>>
    BY <1>3, <1>10
  <2>6. FlowControlFresh'
    BY <1>1, <1>3, <1>4, <1>10, <2>1, <2>3, <2>5
    DEF FlowControlFresh, InProgress, send_vars, ReceiveMsg
  <2>7. FCInv'
    BY <1>10 DEF FCInv
  <2>8. WithinBlock'
    BY <1>5 DEF WithinBlock, Bus
  <2>9. WindowInv'
    <3>1. /\ send_offset' = receive_offset' /\ receive_offset' = FFData
          /\ send_bs_remain' = 0 /\ receive_bs_count' = BlockSize
      BY <1>1, <1>3, <1>10 DEF send_vars
    <3>2. FFData >= FFData /\ FFData + CFData * 0 <= FFData + CFData * BlockSize
      BY ConstantsAssumption DEF FFData, CFData
    <3>3. ~(send_bs_remain' > 0) /\ InProgress'
      BY <1>1, <1>3, <3>1 DEF send_vars, InProgress
    <3> QED BY <1>5, <2>1, <2>3, <3>1, <3>2, <3>3 DEF WindowInv
  <2> QED BY <1>6, <1>7, <2>4, <2>6, <2>7, <2>8, <2>9 DEF IInv
<1> QED BY <1>8, <1>9, <1>10 DEF OnFirstFrame, StartReception

(* The frame with the number the receiver expects is the next run of the   *)
(* message: inside the window no other frame has that number.              *)
LEMMA NextRun ==
  ASSUME IInv, IsHead("CF"), Receiving, Head(data_bus).pci = receive_sn
  PROVE  /\ Head(data_bus).data = Run(ReceiveMsg, receive_offset)
         /\ receive_offset = RunOffset(Len(receive_buffer) + 1)
<1> USE DEF IInv
<1> DEFINE f == Head(data_bus)
<1>1. 1 \in Bus /\ f = data_bus[1] /\ IsCF(1)
  BY BusHead DEF IsHead, IsCF
<1>2. /\ f.data.msg = ReceiveMsg
      /\ f.data.off >= receive_offset
      /\ f.data.off < receive_offset + CFData * receive_bs_count
  BY <1>1 DEF WithinBlock, Receiving, ReceiveMsg, Bus
<1>3. Aligned(f.data.off, receive_sn) /\ Aligned(receive_offset, receive_sn)
  BY <1>1 DEF CFInv, ReceiveInv
<1>4. f.data \in DataRun /\ f.data.off \in Nat
  BY <1>1, BusTyped
<1>5. /\ receive_offset \in Nat /\ receive_sn \in Nat
      /\ receive_bs_count \in Nat /\ receive_bs_count <= MaxSN + 1
      /\ MaxSN + 1 \in Nat
  BY ConstantsAssumption DEF TypeOK
<1> DEFINE off == f.data.off
           N == MaxSN + 1
<1> HIDE DEF off, N
<1>6. off < receive_offset + CFData * N
  <2>1. off \in Nat /\ N \in Nat /\ receive_bs_count <= N
        /\ off < receive_offset + CFData * receive_bs_count
    BY <1>2, <1>4, <1>5 DEF off, N
  <2> QED BY <2>1, <1>5 DEF CFData
<1>7. off = receive_offset
  BY <1>2, <1>3, <1>4, <1>5, <1>6, AlignedWindow DEF off, N
<1>8. f.data = Run(ReceiveMsg, receive_offset)
  BY <1>2, <1>4, <1>7 DEF off, DataRun, Run
<1>9. receive_offset = RunOffset(Len(receive_buffer) + 1)
  <2>1. /\ receive_offset = FFData + CFData * (Len(receive_buffer) - 1)
        /\ Len(receive_buffer) > 0 /\ Len(receive_buffer) \in Nat
    BY DEF ReceiveInv, TypeOK
  <2> QED BY <2>1 DEF RunOffset, FFData, CFData
<1> QED BY <1>8, <1>9

(* The runs held after the copy.                                           *)
LEMMA CopyKept ==
  ASSUME IInv, Receiving, CopyRun(Run(ReceiveMsg, receive_offset)),
         receive_offset = RunOffset(Len(receive_buffer) + 1)
  PROVE  /\ Len(receive_buffer) \in Nat
         /\ receive_buffer' \in Seq(DataRun)
         /\ Len(receive_buffer') = Len(receive_buffer) + 1
         /\ ReceiveMsg' = ReceiveMsg
         /\ \A i \in 1..Len(receive_buffer) + 1 :
              receive_buffer'[i] = Run(ReceiveMsg, RunOffset(i))
<1> USE DEF IInv
<1> DEFINE r == Run(ReceiveMsg, receive_offset)
           n == Len(receive_buffer)
<1>1. /\ receive_buffer \in Seq(DataRun) /\ n \in Nat /\ n > 0
      /\ ReceiveMsg \in Nat /\ receive_offset \in Nat
      /\ \A i \in 1..n : receive_buffer[i] = Run(ReceiveMsg, RunOffset(i))
  BY SMTT(30) DEF TypeOK, ReceiveInv
<1>2. r \in DataRun
  BY <1>1 DEF Run, DataRun
<1>3. receive_buffer' = Append(receive_buffer, r)
  BY DEF CopyRun
<1> HIDE DEF r
<1>4. /\ receive_buffer' \in Seq(DataRun) /\ Len(receive_buffer') = n + 1
      /\ \A i \in 1..n : receive_buffer'[i] = receive_buffer[i]
      /\ receive_buffer'[n + 1] = r
  BY <1>1, <1>2, <1>3
<1>5. receive_buffer'[1] = receive_buffer[1]
  BY <1>1, <1>4
<1>6. ASSUME NEW i \in 1..n + 1
      PROVE  receive_buffer'[i] = Run(ReceiveMsg, RunOffset(i))
  <2>1. CASE i \in 1..n
    BY <1>1, <1>4, <2>1
  <2>2. CASE i = n + 1
    BY <1>4, <2>2 DEF r
  <2> QED BY <1>1, <2>1, <2>2
<1> QED BY <1>1, <1>4, <1>5, <1>6 DEF ReceiveMsg

(* The last run completes the message, so what is handed over is all of it. *)
LEMMA CompleteStep ==
  ASSUME IInv, TypeOK', IsHead("CF"), data_bus' = Tail(data_bus),
         UNCHANGED <<sent, send_vars>>,
         Receiving, CopyRun(Run(ReceiveMsg, receive_offset)),
         receive_offset = RunOffset(Len(receive_buffer) + 1),
         MessageComplete
  PROVE  IInv'
<1> USE DEF IInv
<1> DEFINE m == ReceiveMsg
           n == Len(receive_buffer)
           d == [size |-> receive_size, data |-> receive_buffer']
<1>1. /\ ~Receiving' /\ UNCHANGED fc_bus
      /\ delivered' = Append(delivered, d)
  BY DEF MessageComplete, HandOver, Receiving
<1>2. /\ m \in 1..Len(sent) /\ receive_size = sent[m] /\ receive_size > SFMax
      /\ receive_offset < receive_size /\ receive_size \in Nat
      /\ receive_offset = FFData + CFData * (n - 1) /\ n > 0
  BY DEF ReceiveInv, TypeOK
<1>3. /\ n \in Nat /\ receive_buffer' \in Seq(DataRun)
      /\ Len(receive_buffer') = n + 1
      /\ \A i \in 1..n + 1 : receive_buffer'[i] = Run(m, RunOffset(i))
  BY CopyKept
<1>4. receive_size <= receive_offset + CFData
  BY <1>2, <1>3, SMTT(30) DEF CopyRun, MessageComplete, Smaller, CFData, FFData
<1>5. NumRuns(sent[m]) = n + 1
  <2> DEFINE s == receive_size
  <2>1. 7 * n <= s /\ s < 7 * n + 7
    BY <1>2, <1>3, <1>4 DEF FFData, CFData
  <2>2. s \div 7 = n
    BY <1>2, <1>3, <2>1
  <2>3. NumRuns(s) = 1 + s \div 7
    BY <1>2 DEF NumRuns, FFData, CFData, SFMax
  <2> QED BY <1>2, <1>3, <2>2, <2>3
<1>6. receive_buffer' = [i \in 1..n + 1 |-> Run(m, RunOffset(i))]
  BY <1>3
<1>7. IsMessage(d, m)
  BY <1>2, <1>5, <1>6 DEF IsMessage
<1>8. Integrity'
  BY <1>1, <1>2, <1>7, IntegrityHandOver
<1>9. /\ SendInv' /\ SFInv' /\ CFInv' /\ BusOrder' /\ FFInv'
  BY <1>1, Consume DEF IsHead
<1>10. ReceiveInv' /\ FCInv' /\ WindowInv' /\ WithinBlock' /\ FlowControlFresh'
  <2>1. fc_bus' = <<>>
    BY <1>1 DEF FlowControlFresh, IsHead
  <2> QED BY <1>1, <2>1 DEF ReceiveInv, FCInv, WindowInv, WithinBlock,
                            FlowControlFresh, Receiving
<1> QED BY <1>8, <1>9, <1>10

(* What holds when a run was copied and the message is not complete.       *)
LEMMA CopiedFacts ==
  ASSUME IInv, TypeOK', IsHead("CF"), data_bus' = Tail(data_bus),
         UNCHANGED <<sent, send_vars>>,
         Receiving, Receiving',
         Head(data_bus).data = Run(ReceiveMsg, receive_offset),
         CopyRun(Run(ReceiveMsg, receive_offset)),
         receive_offset = RunOffset(Len(receive_buffer) + 1),
         receive_offset' < receive_size
  PROVE  /\ receive_offset' = receive_offset + CFData
         /\ receive_size' = receive_size /\ ReceiveMsg' = ReceiveMsg
         /\ CurrentMsg' = CurrentMsg /\ InProgress' = InProgress
         /\ ReceiveInv'
         /\ InProgress /\ ReceiveMsg = CurrentMsg
              => send_offset >= receive_offset + CFData
         /\ \A i \in Bus' : (data_bus'[i].type = "CF") =>
              /\ data_bus'[i].data.msg = ReceiveMsg
              /\ data_bus'[i].data.off >= receive_offset + CFData
              /\ data_bus'[i].data.off
                   < receive_offset + CFData * receive_bs_count
<1> USE DEF IInv
<1>0. /\ receive_offset \in Nat /\ receive_size \in Nat /\ receive_sn \in Nat
      /\ send_offset \in Nat /\ send_sn \in Nat
  BY ConstantsAssumption DEF TypeOK
<1>1. /\ ReceiveMsg \in 1..Len(sent) /\ receive_size = sent[ReceiveMsg]
      /\ receive_size > SFMax /\ Aligned(receive_offset, receive_sn)
      /\ receive_offset < receive_size
      /\ receive_offset = FFData + CFData * (Len(receive_buffer) - 1)
  BY DEF ReceiveInv
<1>2. /\ receive_offset' = receive_offset + CFData
      /\ receive_size' = receive_size /\ receive_sn' = NextSN(receive_sn)
  BY <1>0, <1>1, SMTT(40) DEF CopyRun, Smaller, CFData
<1>3. /\ Len(receive_buffer) \in Nat
      /\ Len(receive_buffer') = Len(receive_buffer) + 1
      /\ ReceiveMsg' = ReceiveMsg
      /\ \A i \in 1..Len(receive_buffer) + 1 :
           receive_buffer'[i] = Run(ReceiveMsg, RunOffset(i))
  BY CopyKept
<1>4. CurrentMsg' = CurrentMsg /\ InProgress' = InProgress
  BY DEF CurrentMsg, InProgress, send_vars
<1>5. ReceiveInv'
  <2>1. Aligned(receive_offset', receive_sn')
    BY <1>0, <1>1, <1>2, AlignedNext
  <2>2. Aligned(receive_offset, receive_sn)'
    BY <2>1 DEF Aligned
  <2>3. receive_offset' = FFData + CFData * (Len(receive_buffer') - 1)
    BY <1>0, <1>1, <1>2, <1>3 DEF FFData, CFData
  <2> QED BY <1>1, <1>2, <1>3, <2>2, <2>3 DEF ReceiveInv
<1>6. 1 \in Bus /\ Head(data_bus) = data_bus[1] /\ IsCF(1)
      /\ data_bus[1].data.msg = ReceiveMsg
      /\ data_bus[1].data.off = receive_offset
  BY BusHead DEF IsHead, IsCF, Run
<1>7. InProgress /\ ReceiveMsg = CurrentMsg
        => send_offset >= receive_offset + CFData
  <2> SUFFICES ASSUME InProgress, ReceiveMsg = CurrentMsg
               PROVE  send_offset >= receive_offset + CFData
    OBVIOUS
  <2>1. receive_offset < send_offset
    BY <1>6 DEF CFInv
  <2>2. Aligned(send_offset, send_sn)
    BY DEF SendInv
  <2>3. receive_offset + CFData <= send_offset
    BY <1>0, <1>1, <2>1, <2>2, AlignedGap
  <2> QED BY <1>0, <2>3 DEF CFData
<1>8. ASSUME NEW i \in Bus', data_bus'[i].type = "CF"
      PROVE  /\ data_bus'[i].data.msg = ReceiveMsg
             /\ data_bus'[i].data.off >= receive_offset + CFData
             /\ data_bus'[i].data.off
                  < receive_offset + CFData * receive_bs_count
  <2> DEFINE j == i + 1
             g == data_bus[j]
  <2>1. j \in Bus /\ data_bus'[i] = g /\ i \in Nat /\ i > 0
    BY BusTail DEF IsHead, Bus
  <2>2. g.type = "CF" /\ 1 < j
    <3>1. 1 < j
      BY <2>1
    <3>2. data_bus'[i].type = "CF"
      BY <1>8
    <3> HIDE DEF g
    <3>3. g.type = "CF"
      BY <2>1, <3>2
    <3> QED BY <3>1, <3>3
  <2>3. /\ g.data.msg = ReceiveMsg
        /\ g.data.off < receive_offset + CFData * receive_bs_count
    BY <2>1, <2>2 DEF WithinBlock, IsCF, Bus, Receiving, ReceiveMsg
  <2>4. receive_offset < g.data.off
    BY <1>6, <2>1, <2>2, <2>3 DEF BusOrder, IsCF
  <2>5. Aligned(g.data.off, g.pci) /\ g.data.off \in Nat /\ g.pci \in Nat
    BY <2>1, <2>2, BusTyped DEF CFInv, IsCF
  <2> HIDE DEF g
  <2>6. receive_offset + CFData <= g.data.off
    BY <1>0, <1>1, <2>4, <2>5, AlignedGap
  <2> QED BY <1>0, <2>1, <2>3, <2>5, <2>6 DEF CFData
<1> QED BY <1>2, <1>3, <1>4, <1>5, <1>7, <1>8

(* Inside a block both the window and what is left of it move by a frame.  *)
LEMMA BlockContinuesStep ==
  ASSUME IInv, TypeOK', IsHead("CF"), data_bus' = Tail(data_bus),
         UNCHANGED <<sent, send_vars>>,
         Receiving, Head(data_bus).data = Run(ReceiveMsg, receive_offset),
         CopyRun(Run(ReceiveMsg, receive_offset)),
         receive_offset = RunOffset(Len(receive_buffer) + 1),
         BlockContinues
  PROVE  IInv'
<1> USE DEF IInv
<1>1. /\ Receiving' /\ UNCHANGED <<fc_bus, delivered>>
      /\ receive_bs_count' = receive_bs_count - 1
      /\ receive_offset' < receive_size
      /\ receive_bs_count \in Nat /\ receive_offset \in Nat
      /\ send_offset \in Nat /\ send_bs_remain \in Nat
  BY ConstantsAssumption DEF BlockContinues, Receiving, TypeOK
<1>2. /\ receive_offset' = receive_offset + CFData
      /\ receive_size' = receive_size /\ ReceiveMsg' = ReceiveMsg
      /\ CurrentMsg' = CurrentMsg /\ InProgress' = InProgress
      /\ ReceiveInv'
      /\ InProgress /\ ReceiveMsg = CurrentMsg
           => send_offset >= receive_offset + CFData
      /\ \A i \in Bus' : (data_bus'[i].type = "CF") =>
           /\ data_bus'[i].data.msg = ReceiveMsg
           /\ data_bus'[i].data.off >= receive_offset + CFData
           /\ data_bus'[i].data.off
                < receive_offset + CFData * receive_bs_count
  BY <1>1, CopiedFacts
<1>3. /\ SendInv' /\ SFInv' /\ CFInv' /\ BusOrder' /\ FFInv'
      /\ (\A i \in Bus : ~IsFF(i)) => (\A i \in Bus : ~IsFF(i))'
  BY <1>1, Consume DEF IsHead
<1>4. fc_bus' = <<>>
  BY <1>1 DEF FlowControlFresh, IsHead
<1>5. FCInv' /\ FlowControlFresh'
  BY <1>4 DEF FCInv, FlowControlFresh
<1>6. receive_offset' + CFData * receive_bs_count'
        = receive_offset + CFData * receive_bs_count
  BY <1>1, <1>2 DEF CFData
<1>7. WithinBlock'
  <2>1. \A i \in Bus' : (data_bus'[i].type = "CF") =>
           /\ data_bus'[i].data.msg = ReceiveMsg'
           /\ data_bus'[i].data.off >= receive_offset'
           /\ data_bus'[i].data.off
                < receive_offset' + CFData * receive_bs_count'
    BY <1>2, <1>6
  <2> QED BY <2>1 DEF WithinBlock, Bus, IsCF, ReceiveMsg
<1>8. ~NoCF
  BY BusHead DEF NoCF, IsHead, IsCF
<1>9. WindowInv'
  <2>1. InProgress' /\ ReceiveMsg' = CurrentMsg' =>
          /\ send_offset' >= receive_offset'
          /\ send_offset' + CFData * send_bs_remain'
               <= receive_offset' + CFData * receive_bs_count'
          /\ (\A i \in Bus : ~IsFF(i))'
    BY <1>2, <1>3, <1>6 DEF WindowInv, send_vars
  <2>2. InProgress' /\ send_bs_remain' > 0 => ReceiveMsg' = CurrentMsg'
    BY <1>2 DEF WindowInv, send_vars
  <2>3. ~InProgress' \/ ReceiveMsg' # CurrentMsg' =>
          receive_size' <= receive_offset' + CFData * receive_bs_count'
    BY <1>2, <1>6, <1>8 DEF WindowInv
  <2> QED BY <2>1, <2>2, <2>3 DEF WindowInv
<1>10. Integrity'
  BY <1>1, IntegrityKept
<1> QED BY <1>2, <1>3, <1>5, <1>7, <1>9, <1>10

(* The last frame of a block: the sender can only be waiting, at the next  *)
(* byte, with nothing else on the bus; the new credit is for this transfer. *)
LEMMA BlockCompleteStep ==
  ASSUME IInv, TypeOK', IsHead("CF"), data_bus' = Tail(data_bus),
         UNCHANGED <<sent, send_vars>>,
         Receiving, Head(data_bus).data = Run(ReceiveMsg, receive_offset),
         CopyRun(Run(ReceiveMsg, receive_offset)),
         receive_offset = RunOffset(Len(receive_buffer) + 1),
         BlockComplete
  PROVE  IInv'
<1> USE DEF IInv
<1>1. /\ Receiving' /\ UNCHANGED delivered
      /\ receive_bs_count = 1 /\ receive_bs_count' = BlockSize
      /\ fc_bus' = Append(fc_bus, FlowControl("CONTINUE", BlockSize))
      /\ receive_offset' < receive_size
      /\ receive_offset \in Nat /\ receive_size \in Nat
      /\ send_offset \in Nat /\ send_bs_remain \in Nat
  BY ConstantsAssumption DEF BlockComplete, Receiving, TypeOK
<1>2. /\ receive_offset' = receive_offset + CFData
      /\ receive_size' = receive_size /\ ReceiveMsg' = ReceiveMsg
      /\ CurrentMsg' = CurrentMsg /\ InProgress' = InProgress
      /\ ReceiveInv'
      /\ InProgress /\ ReceiveMsg = CurrentMsg
           => send_offset >= receive_offset + CFData
      /\ \A i \in Bus' : (data_bus'[i].type = "CF") =>
           /\ data_bus'[i].data.msg = ReceiveMsg
           /\ data_bus'[i].data.off >= receive_offset + CFData
           /\ data_bus'[i].data.off
                < receive_offset + CFData * receive_bs_count
  BY <1>1, CopiedFacts
<1>3. fc_bus = <<>>
  BY DEF FlowControlFresh, IsHead
<1>4. ~NoCF /\ 1 \in Bus /\ data_bus[1].data.msg = ReceiveMsg
  BY BusHead DEF NoCF, IsHead, IsCF, Run
<1>5. InProgress /\ ReceiveMsg = CurrentMsg
  BY <1>1, <1>2, <1>4 DEF WindowInv, CFData
<1>6. /\ send_offset = receive_offset' /\ send_bs_remain = 0
      /\ \A i \in Bus : ~IsFF(i)
  BY <1>1, <1>2, <1>5 DEF WindowInv, CFData
<1>7. Bus' = {}
  <2> SUFFICES ASSUME NEW i \in Bus' PROVE FALSE
    OBVIOUS
  <2>1. i + 1 \in Bus /\ data_bus'[i] = data_bus[i + 1] /\ 1 < i + 1
    BY BusTail DEF IsHead, Bus
  <2>2. CASE data_bus'[i].type = "CF"
    <3> DEFINE o == data_bus'[i].data.off
    <3>1. /\ o >= receive_offset + CFData
          /\ o < receive_offset + CFData * receive_bs_count
      BY <1>2, <2>2
    <3>2. o \in Nat
      BY <2>1, BusTyped
    <3> HIDE DEF o
    <3> QED BY <1>1, <3>1, <3>2 DEF CFData
  <2>3. CASE data_bus'[i].type = "FF"
    BY <1>6, <2>1, <2>3 DEF IsFF
  <2>4. CASE data_bus'[i].type = "SF"
    <3> DEFINE k == data_bus[i + 1].data.msg
    <3>1. /\ k \in 1..Len(sent) /\ sent[k] <= SFMax
      BY <2>1, <2>4 DEF SFInv, IsSF
    <3>2. ReceiveMsg <= k
      BY <1>4, <2>1 DEF BusOrder
    <3>3. k = CurrentMsg
      BY <1>5, <3>1, <3>2, SentTyped DEF CurrentMsg
    <3>4. send_size > SFMax /\ send_size \in Nat
      BY <1>5, <3>1, SentTyped DEF SendInv, send_size, CurrentMsg
    <3> QED BY <3>1, <3>3, <3>4 DEF send_size, SFMax
  <2> QED BY <2>1, <2>2, <2>3, <2>4, BusTyped DEF FrameType
<1>8. data_bus' = <<>>
  <2>1. data_bus' \in Seq(Frame)
    BY DEF TypeOK
  <2> QED BY <1>7, <2>1 DEF Bus
<1>9. /\ SendInv' /\ SFInv' /\ CFInv' /\ BusOrder' /\ FFInv'
  BY <1>7, Consume DEF IsHead, FFInv
<1>10. receive_sn' = send_sn
  <2>1. /\ Aligned(send_offset, send_sn) /\ Aligned(receive_offset, receive_sn)
        /\ receive_sn \in Nat /\ send_sn \in Nat
    BY <1>5, ConstantsAssumption DEF SendInv, ReceiveInv, TypeOK
  <2>2. receive_sn' = NextSN(receive_sn) /\ NextSN(receive_sn) \in Nat
    BY <2>1, ConstantsAssumption DEF CopyRun, NextSN
  <2>3. Aligned(send_offset, NextSN(receive_sn))
    BY <1>1, <1>2, <1>6, <2>1, AlignedNext
  <2> QED BY <1>1, <2>1, <2>2, <2>3, AlignedUnique
<1>11. FCInv'
  BY <1>1 DEF FCInv
<1>12. FlowControlFresh'
  <2>1. Len(fc_bus') = 1
    BY <1>1, <1>3
  <2> QED BY <1>2, <1>5, <1>6, <1>8, <1>10, <2>1
          DEF FlowControlFresh, InProgress, ReceiveMsg, send_vars
<1>13. WithinBlock'
  BY <1>7 DEF WithinBlock, Bus
<1>14. WindowInv'
  <2>1. /\ send_offset' = receive_offset' /\ send_bs_remain' = 0
        /\ receive_offset' \in Nat /\ BlockSize \in Nat
    BY <1>6, ConstantsAssumption DEF send_vars, TypeOK
  <2> DEFINE o == receive_offset'
  <2> HIDE DEF o
  <2>2. o \in Nat => o >= o /\ o + CFData * 0 <= o + CFData * BlockSize
    BY <2>1 DEF CFData
  <2>3. /\ send_offset' >= receive_offset'
        /\ send_offset' + CFData * send_bs_remain'
             <= receive_offset' + CFData * receive_bs_count'
    BY <1>1, <2>1, <2>2 DEF o
  <2> QED BY <1>2, <1>5, <1>7, <2>3 DEF WindowInv
<1>15. Integrity'
  BY <1>1, IntegrityKept
<1> QED BY <1>2, <1>9, <1>11, <1>12, <1>13, <1>14, <1>15

LEMMA OnConsecutiveFrameStep ==
  ASSUME IInv, TypeOK', OnConsecutiveFrame
  PROVE  IInv'
<1> DEFINE f == Head(data_bus)
<1>1. /\ IsHead("CF") /\ data_bus # <<>> /\ data_bus' = Tail(data_bus)
      /\ UNCHANGED <<sent, send_vars>>
  BY DEF OnConsecutiveFrame, IsHead
<1>2. CASE UNCHANGED <<fc_bus, receive_vars, delivered>>
  BY <1>1, <1>2, DropStep
<1>3. CASE receive_status' = "IDLE" /\ UNCHANGED <<fc_bus, delivered>>
  <2>1. fc_bus = <<>> /\ ~Receiving'
    BY <1>1, <1>3 DEF IInv, FlowControlFresh, Receiving
  <2>2. SFInv' /\ FFInv' /\ CFInv' /\ BusOrder'
    BY <1>1, <1>3, Consume
  <2> QED BY <1>1, <1>3, <2>1, <2>2, ReceiverIdle
<1>4. CASE /\ Receiving /\ f.pci = receive_sn
           /\ CopyRun(f.data)
           /\ MessageComplete \/ BlockContinues \/ BlockComplete
  <2>1. /\ f.data = Run(ReceiveMsg, receive_offset)
        /\ receive_offset = RunOffset(Len(receive_buffer) + 1)
    BY <1>1, <1>4, NextRun
  <2>2. CASE MessageComplete
    BY <1>1, <1>4, <2>1, <2>2, CompleteStep
  <2>3. CASE BlockContinues
    BY <1>1, <1>4, <2>1, <2>3, BlockContinuesStep
  <2>4. CASE BlockComplete
    BY <1>1, <1>4, <2>1, <2>4, BlockCompleteStep
  <2> QED BY <1>4, <2>2, <2>3, <2>4
<1> QED BY <1>2, <1>3, <1>4 DEF OnConsecutiveFrame, Receiving

(* The steps of a link on which N_Bs never expires too early.              *)
TimelyNext ==
  \/ Send \/ PollSend \/ (TimeoutBs /\ BusesQuiet) \/ OnFlowControl
  \/ RestartSender \/ OnSingleFrame \/ OnFirstFrame \/ OnConsecutiveFrame
  \/ TimeoutCr \/ RestartReceiver \/ LoseData \/ LoseFlowControl

LEMMA IInvStep ==
  ASSUME IInv, [TimelyNext]_vars
  PROVE  IInv'
<1>1. TypeOK'
  BY TypeStep DEF IInv, TimelyNext, Next
<1>2. CASE UNCHANGED vars
  <2>1. UNCHANGED <<sent, send_vars, data_bus, fc_bus, receive_vars, delivered>>
    BY <1>2 DEF vars
  <2>2. SendInv' /\ SFInv' /\ FFInv' /\ CFInv' /\ BusOrder'
    BY <2>1 DEF IInv, SendInv, SFInv, FFInv, CFInv, BusOrder, Bus, IsSF, IsFF,
                IsCF, send_vars, InProgress, CurrentMsg, send_size
  <2>3. ReceiveInv' /\ FCInv' /\ FlowControlFresh' /\ WithinBlock'
    BY <2>1 DEF IInv, ReceiveInv, FCInv, FlowControlFresh, WithinBlock, IsCF,
                Receiving, ReceiveMsg, receive_vars, send_vars, CurrentMsg
  <2>4. WindowInv'
    BY <2>1 DEF IInv, WindowInv, Receiving, InProgress, ReceiveMsg, CurrentMsg,
                receive_vars, send_vars, NoCF, Bus, IsCF, IsFF
  <2>5. Integrity'
    BY <2>1, IntegrityKept DEF IInv
  <2> QED BY <1>1, <2>2, <2>3, <2>4, <2>5 DEF IInv
<1> QED
  BY <1>1, <1>2, SendSingleStep, SendFirstStep, PollSendStep, TimeoutBsStep,
     OnFlowControlStep, RestartSenderStep, OnSingleFrameStep, OnFirstFrameStep,
     OnConsecutiveFrameStep, TimeoutCrStep, RestartReceiverStep, LoseDataStep,
     LoseFlowControlStep
  DEF TimelyNext, Send

LEMMA TimelyStep ==
  ASSUME IInv, [Next]_vars, Timely
  PROVE  IInv'
<1>1. [TimelyNext]_vars
  BY DEF Next, TimelyNext, TimeoutBs, Timely
<1> QED BY <1>1, IInvStep

(* What a sender that is not in a transfer does with send_offset does not  *)
(* matter.                                                                 *)
LEMMA OffsetIdle ==
  ASSUME IInv, ~InProgress, send_offset' \in Nat,
         UNCHANGED <<sent, send_status, send_sn, send_bs_remain, data_bus,
                     fc_bus, receive_vars, delivered>>
  PROVE  IInv'
<1> USE DEF IInv, receive_vars
<1>1. TypeOK'
  BY DEF TypeOK
<1>2. SendInv' /\ ~InProgress'
  BY DEF SendInv, InProgress
<1>3. SFInv' /\ BusOrder'
  BY DEF SFInv, BusOrder, Bus, IsSF, IsCF
<1>4. FFInv'
  BY DEF FFInv, Bus, IsFF, InProgress
<1>5. CFInv'
  BY <1>2 DEF CFInv, Bus, IsCF, CurrentMsg
<1>6. ReceiveInv' /\ FCInv' /\ WithinBlock'
  BY DEF ReceiveInv, FCInv, WithinBlock, Receiving, ReceiveMsg, IsCF
<1>7. WindowInv'
  BY <1>2 DEF WindowInv, Receiving, ReceiveMsg, InProgress, CurrentMsg, NoCF,
              Bus, IsCF
<1>8. FlowControlFresh'
  BY DEF FlowControlFresh, InProgress
<1>9. Integrity'
  BY IntegrityKept
<1> QED BY <1>1, <1>2, <1>3, <1>4, <1>5, <1>6, <1>7, <1>8, <1>9
-----------------------------------------------------------------------------
LEMMA Invariance == Timely /\ Spec => []IInv
<1> SUFFICES ASSUME Timely PROVE Spec => []IInv
  OBVIOUS
<1>1. Init => IInv
  BY IInvInit
<1>2. IInv /\ [Next]_vars => IInv'
  BY TimelyStep
<1> QED BY <1>1, <1>2, PTL DEF Spec

(* What isotp_receive hands over is always one accepted message, complete  *)
(* and unmixed, for every loss, restart and receiver timeout.              *)
THEOREM TransportIntegrity == Timely /\ Spec => []Integrity
<1>1. IInv => Integrity
  BY DEF IInv
<1> QED BY <1>1, Invariance, PTL

(* An answer of the receiver always finds the sender waiting in the        *)
(* transfer it belongs to: no credit is spent on another message.          *)
THEOREM TransportFlowControl == Timely /\ Spec => []FlowControlFresh
<1>1. IInv => FlowControlFresh
  BY DEF IInv
<1> QED BY <1>1, Invariance, PTL

(* Every consecutive frame a receiver can meet lies in its current window, *)
(* so a 4-bit number identifies it, for any block of up to MaxSN + 1.      *)
THEOREM TransportWindow == Timely /\ Spec => []WithinBlock
<1>1. IInv => WithinBlock
  BY DEF IInv
<1> QED BY <1>1, Invariance, PTL
-----------------------------------------------------------------------------
(* The credit and the consecutive frames on the bus.  Each frame sent      *)
(* costs one credit, and a new block is granted only when the bus is empty.*)
CFs(q) == {i \in 1..Len(q) : q[i].type = "CF"}

LEMMA CFsFinite ==
  ASSUME NEW q \in Seq(Frame)
  PROVE  IsFiniteSet(CFs(q)) /\ Cardinality(CFs(q)) \in Nat
<1>1. IsFiniteSet(1..Len(q))
  BY FS_Interval
<1>2. IsFiniteSet(CFs(q))
  BY <1>1, FS_Subset DEF CFs
<1> QED BY <1>2, FS_CardinalityType

LEMMA CFsEmpty == Cardinality(CFs(<<>>)) = 0
<1>1. CFs(<<>>) = {}
  BY DEF CFs
<1> QED BY <1>1, FS_EmptySet

LEMMA CFsAppend ==
  ASSUME NEW q \in Seq(Frame), NEW f \in Frame
  PROVE  /\ f.type # "CF" => Cardinality(CFs(Append(q, f))) = Cardinality(CFs(q))
         /\ f.type = "CF" => Cardinality(CFs(Append(q, f))) = Cardinality(CFs(q)) + 1
<1> DEFINE n == Len(q) + 1
<1>1. /\ Len(Append(q, f)) = n /\ n \in Nat /\ n \notin 1..Len(q)
      /\ \A i \in 1..Len(q) : i \in 1..n /\ Append(q, f)[i] = q[i]
      /\ \A i \in 1..n : i \in 1..Len(q) \/ i = n
      /\ n \in 1..n /\ Append(q, f)[n] = f
  OBVIOUS
<1>2. CASE f.type # "CF"
  <2>1. CFs(Append(q, f)) = CFs(q)
    BY <1>1, <1>2 DEF CFs
  <2> QED BY <1>2, <2>1
<1>3. CASE f.type = "CF"
  <2>1. CFs(Append(q, f)) = CFs(q) \cup {n} /\ n \notin CFs(q)
    BY <1>1, <1>3 DEF CFs
  <2> QED BY <1>3, <2>1, CFsFinite, FS_AddElement
<1> QED BY <1>2, <1>3

LEMMA CFsTail ==
  ASSUME NEW q \in Seq(Frame), q # <<>>
  PROVE  Cardinality(CFs(Tail(q))) <= Cardinality(CFs(q))
<1> DEFINE g == [i \in CFs(Tail(q)) |-> i + 1]
<1>1. \A i \in 1..Len(Tail(q)) : i + 1 \in 1..Len(q) /\ Tail(q)[i] = q[i + 1]
  OBVIOUS
<1>2. \A i \in CFs(Tail(q)) : i \in Int /\ i + 1 \in CFs(q)
  BY <1>1 DEF CFs
<1>3. g \in Injection(CFs(Tail(q)), CFs(q))
  <2>1. g \in [CFs(Tail(q)) -> CFs(q)]
    BY <1>2
  <2>2. \A a, b \in CFs(Tail(q)) : g[a] = g[b] => a = b
    BY <1>2
  <2> HIDE DEF g
  <2> QED BY <2>1, <2>2 DEF Injection, IsInjective
<1> HIDE DEF g
<1> QED BY <1>3, CFsFinite, FS_Injection

Credit(q, remain) == Cardinality(CFs(q)) + remain <= BlockSize

LEMMA CreditStep ==
  ASSUME IInv, Credit(data_bus, send_bs_remain), Next
  PROVE  Credit(data_bus', send_bs_remain')
<1>1. /\ data_bus \in Seq(Frame) /\ send_bs_remain \in 0..BlockSize
      /\ BlockSize \in Nat /\ fc_bus \in Seq(FCFrame) /\ Len(sent) \in Nat
      /\ Cardinality(CFs(data_bus)) \in Nat
  BY CFsFinite, ConstantsAssumption DEF IInv, TypeOK
<1>2. ASSUME NEW size \in Sizes, SendSingle(size)
      PROVE  Credit(data_bus', send_bs_remain')
  <2>1. /\ SingleFrame(Len(sent) + 1, size) \in Frame
        /\ SingleFrame(Len(sent) + 1, size).type # "CF"
    BY <1>1, FramesTyped, ConstantsAssumption DEF SingleFrame
  <2> QED BY <1>1, <1>2, <2>1, CFsAppend DEF SendSingle, Credit
<1>3. ASSUME NEW size \in Sizes, SendFirst(size)
      PROVE  Credit(data_bus', send_bs_remain')
  <2>1. /\ FirstFrame(Len(sent) + 1, size) \in Frame
        /\ FirstFrame(Len(sent) + 1, size).type # "CF"
    BY <1>1, FramesTyped, ConstantsAssumption DEF FirstFrame
  <2>2. Cardinality(CFs(data_bus)) <= BlockSize
    BY <1>1 DEF Credit
  <2> QED BY <1>1, <1>3, <2>1, <2>2, CFsAppend DEF SendFirst, Credit
<1>4. CASE PollSend
  <2> DEFINE f == ConsecutiveFrame(CurrentMsg, send_offset, send_sn)
  <2>1. f \in Frame /\ f.type = "CF"
    BY <1>1, FramesTyped, ConstantsAssumption
    DEF ConsecutiveFrame, IInv, TypeOK, CurrentMsg
  <2>2. data_bus' = Append(data_bus, f) /\ send_bs_remain' = send_bs_remain - 1
    BY <1>4 DEF PollSend
  <2> HIDE DEF f
  <2> QED BY <1>1, <2>1, <2>2, CFsAppend DEF Credit
<1>5. CASE OnFlowControl
  <2>1. data_bus = <<>> /\ data_bus' = <<>> /\ fc_bus # <<>>
    BY <1>5 DEF OnFlowControl, IInv, FlowControlFresh
  <2>2. send_bs_remain' \in {send_bs_remain, Head(fc_bus).bs}
    BY <1>5 DEF OnFlowControl, send_vars
  <2>3. Head(fc_bus).bs \in 0..BlockSize
    <3>1. Head(fc_bus) \in FCFrame
      BY <1>1, <2>1
    <3> QED BY <3>1 DEF FCFrame
  <2>4. Cardinality(CFs(data_bus')) = 0
    BY <2>1, CFsEmpty
  <2>5. send_bs_remain' \in 0..BlockSize
    BY <1>1, <2>2, <2>3
  <2>6. \A r \in 0..BlockSize : 0 + r <= BlockSize
    BY <1>1
  <2> QED BY <2>4, <2>5, <2>6 DEF Credit
<1>6. CASE data_bus # <<>> /\ data_bus' = Tail(data_bus) /\ send_bs_remain' = send_bs_remain
  <2>1. Tail(data_bus) \in Seq(Frame)
    BY <1>1, <1>6
  <2>2. Cardinality(CFs(Tail(data_bus))) \in Nat
    BY <2>1, CFsFinite
  <2>3. Cardinality(CFs(Tail(data_bus))) <= Cardinality(CFs(data_bus))
    BY <1>1, <1>6, CFsTail
  <2>4. Cardinality(CFs(data_bus')) <= Cardinality(CFs(data_bus))
        /\ Cardinality(CFs(data_bus')) \in Nat
    BY <1>6, <2>2, <2>3
  <2> QED BY <1>1, <1>6, <2>4 DEF Credit
<1>7. CASE OnSingleFrame \/ OnFirstFrame \/ OnConsecutiveFrame \/ LoseData
  BY <1>6, <1>7
  DEF OnSingleFrame, OnFirstFrame, OnConsecutiveFrame, LoseData, IsHead, send_vars
<1>8. CASE RestartSender
  BY <1>1, <1>8 DEF RestartSender, ResetSender, Credit
<1>9. CASE TimeoutBs \/ TimeoutCr \/ RestartReceiver \/ LoseFlowControl
  BY <1>9
  DEF TimeoutBs, TimeoutCr, RestartReceiver, LoseFlowControl, send_vars, Credit
<1> QED BY <1>2, <1>3, <1>4, <1>5, <1>7, <1>8, <1>9 DEF Next, Send

LEMMA CreditInit == Init => Credit(data_bus, send_bs_remain)
<1>1. Cardinality(CFs(<<>>)) = 0
  BY CFsEmpty
<1>2. ASSUME Init PROVE Cardinality(CFs(data_bus)) = 0 /\ send_bs_remain = 0
  BY <1>1, <1>2 DEF Init
<1> QED BY <1>2, ConstantsAssumption DEF Credit

LEMMA CreditBounds == Credit(data_bus, send_bs_remain) => BlockBound
BY DEF Credit, BlockBound, CFs, IsCF

(* The sender never has more consecutive frames out, or still permitted,   *)
(* than one block, however many were lost and whoever gave up.             *)
THEOREM TransportBlockBound == Timely /\ Spec => []BlockBound
<1> SUFFICES ASSUME Timely PROVE Spec => []BlockBound
  OBVIOUS
<1>1. /\ IInv /\ Credit(data_bus, send_bs_remain) /\ [Next]_vars
      => Credit(data_bus, send_bs_remain)'
  BY CreditStep DEF vars, send_vars
<1> QED BY Invariance, CreditInit, CreditBounds, <1>1, PTL DEF Spec
-----------------------------------------------------------------------------
(* The transport implements the service of module IsoTpService: a message  *)
(* is handed over at most once, whole, and never after a later one.        *)
(* Integrity gives each message handed over its number; what remains is    *)
(* the order of the numbers, which rests on the order of the frames on the *)
(* bus.                                                                    *)

(* The number of a message handed over, read off its first run of bytes.   *)
NumberOf(d) == d.data[1].msg
LastNumber  == IF delivered = <<>> THEN 0
               ELSE NumberOf(delivered[Len(delivered)])

(* A frame that starts a message on the bus is later than what was handed  *)
(* over, than the message being received, and than every frame before it.  *)
Starts(i) == data_bus[i].type # "CF"

OrderInv ==
  /\ \A i \in Bus : Starts(i) => LastNumber < data_bus[i].data.msg
  /\ \A i, j \in Bus : i < j /\ Starts(j)
       => data_bus[i].data.msg < data_bus[j].data.msg
  /\ Receiving => LastNumber < ReceiveMsg
  /\ Receiving => \A i \in Bus : Starts(i) => ReceiveMsg < data_bus[i].data.msg
-----------------------------------------------------------------------------
(* The number read off a message handed over is its number.                *)
LEMMA Numbered ==
  TypeOK /\ Integrity =>
    \A i \in 1..Len(delivered) :
            /\ NumberOf(delivered[i]) \in 1..Len(sent)
            /\ IsMessage(delivered[i], NumberOf(delivered[i]))
            /\ MessageNumber(delivered[i]) = NumberOf(delivered[i])
<1> SUFFICES ASSUME TypeOK, Integrity, NEW i \in 1..Len(delivered)
             PROVE  /\ NumberOf(delivered[i]) \in 1..Len(sent)
                    /\ IsMessage(delivered[i], NumberOf(delivered[i]))
                    /\ MessageNumber(delivered[i]) = NumberOf(delivered[i])
  OBVIOUS
<1>1. PICK m \in 1..Len(sent) : IsMessage(delivered[i], m)
  BY DEF Integrity
<1>2. NumRuns(sent[m]) \in Nat /\ NumRuns(sent[m]) >= 1
  <2>1. sent[m] \in Nat
    BY <1>1, SentTyped
  <2> QED BY <2>1 DEF NumRuns, FFData, CFData, SFMax
<1>3. delivered[i].data[1] = Run(m, RunOffset(1))
  BY <1>1, <1>2 DEF IsMessage
<1>4. NumberOf(delivered[i]) = m
  BY <1>3 DEF NumberOf, Run
<1> QED BY <1>1, <1>4 DEF MessageNumber, NumberOf

LEMMA LastTyped ==
  ASSUME TypeOK, Integrity
  PROVE  LastNumber \in 0..Len(sent) /\ Len(sent) \in Nat
<1>1. Len(sent) \in Nat /\ Len(delivered) \in Nat
  BY DEF TypeOK
<1>2. delivered # <<>> => Len(delivered) \in 1..Len(delivered)
  BY <1>1 DEF TypeOK
<1> QED BY <1>1, <1>2, Numbered DEF LastNumber

LEMMA BusNumbers ==
  ASSUME IInv
  PROVE  \A i \in Bus : data_bus[i].data.msg \in 1..Len(sent)
<1> SUFFICES ASSUME NEW i \in Bus
             PROVE  data_bus[i].data.msg \in 1..Len(sent)
  OBVIOUS
<1>1. CASE data_bus[i].type = "SF"
  BY <1>1 DEF IInv, SFInv, IsSF
<1>2. CASE data_bus[i].type = "CF"
  BY <1>2 DEF IInv, CFInv, IsCF
<1>3. CASE data_bus[i].type = "FF"
  <2>1. InProgress /\ data_bus[i].data = Run(CurrentMsg, 0)
    BY <1>3 DEF IInv, FFInv, IsFF
  <2>2. CurrentMsg \in 1..Len(sent)
    BY <2>1, SentTyped DEF IInv, TypeOK, InProgress
  <2> QED BY <2>1, <2>2 DEF Run
<1> QED BY <1>1, <1>2, <1>3, BusTyped DEF IInv, FrameType
-----------------------------------------------------------------------------
(***************************************************************************)
(* Each kind of step keeps the order.                                      *)
(***************************************************************************)

(* A message enters the bus with the highest number.                       *)
LEMMA OrderStart ==
  ASSUME IInv, OrderInv, NEW f, f.data.msg = Len(sent) + 1,
         data_bus' = Append(data_bus, f),
         UNCHANGED <<delivered, receive_vars>>
  PROVE  OrderInv'
<1>1. /\ Len(data_bus) \in Nat /\ Len(data_bus') = Len(data_bus) + 1
      /\ \A i \in Bus : data_bus'[i] = data_bus[i]
      /\ data_bus'[Len(data_bus) + 1] = f
      /\ Bus' = Bus \cup {Len(data_bus) + 1}
      /\ \A i \in Bus : i <= Len(data_bus)
  <2>1. Len(data_bus) \in Nat
    BY DEF IInv, TypeOK
  <2> QED BY <2>1, BusAppend DEF IInv, Bus
<1>2. \A i \in Bus : data_bus[i].data.msg \in Nat /\ data_bus[i].data.msg < f.data.msg
  BY BusNumbers, LastTyped
<1>3. LastNumber < f.data.msg /\ LastNumber' = LastNumber
  BY LastTyped DEF LastNumber, IInv
<1>4. Receiving => ReceiveMsg < f.data.msg
  BY LastTyped DEF IInv, ReceiveInv
<1>5. Receiving' = Receiving /\ ReceiveMsg' = ReceiveMsg
  BY DEF Receiving, ReceiveMsg, receive_vars
<1>6. \A i \in Bus' : Starts(i)' => LastNumber < data_bus'[i].data.msg
  BY <1>1, <1>3 DEF OrderInv, Starts
<1>7. \A i, j \in Bus' : i < j /\ Starts(j)' => data_bus'[i].data.msg < data_bus'[j].data.msg
  BY <1>1, <1>2 DEF OrderInv, Starts, Bus
<1>8. Receiving => \A i \in Bus' : Starts(i)' => ReceiveMsg < data_bus'[i].data.msg
  BY <1>1, <1>4 DEF OrderInv, Starts
<1>9. Receiving => LastNumber < ReceiveMsg
  BY DEF OrderInv
<1> QED BY <1>3, <1>5, <1>6, <1>7, <1>8, <1>9 DEF OrderInv

(* A consecutive frame starts nothing.                                     *)
LEMMA OrderContinue ==
  ASSUME IInv, OrderInv, NEW f, f.type = "CF",
         data_bus' = Append(data_bus, f),
         UNCHANGED <<delivered, receive_vars>>
  PROVE  OrderInv'
<1>1. /\ Len(data_bus) \in Nat /\ Len(data_bus') = Len(data_bus) + 1
      /\ \A i \in Bus : data_bus'[i] = data_bus[i]
      /\ data_bus'[Len(data_bus) + 1] = f
      /\ Bus' = Bus \cup {Len(data_bus) + 1}
      /\ \A i \in Bus : i <= Len(data_bus) /\ i \in Nat
  <2>1. Len(data_bus) \in Nat
    BY DEF IInv, TypeOK
  <2> QED BY <2>1, BusAppend DEF IInv, Bus
<1>2. LastNumber' = LastNumber /\ Receiving' = Receiving /\ ReceiveMsg' = ReceiveMsg
  BY DEF LastNumber, Receiving, ReceiveMsg, receive_vars
<1>3. \A i \in Bus' : Starts(i)' => i \in Bus /\ Starts(i) /\ data_bus'[i] = data_bus[i]
  BY <1>1 DEF Starts
<1>4. \A i, j \in Bus' : i < j /\ j \in Bus => i \in Bus /\ data_bus'[i] = data_bus[i]
  BY <1>1 DEF Bus
<1>5. \A i, j \in Bus' : i < j /\ Starts(j)' => data_bus'[i].data.msg < data_bus'[j].data.msg
  BY <1>3, <1>4 DEF OrderInv
<1> QED BY <1>2, <1>3, <1>5 DEF OrderInv

(* A frame leaves the bus and nothing else of the order changes, but that  *)
(* a reception may end.                                                    *)
LEMMA OrderDrop ==
  ASSUME IInv, OrderInv, UNCHANGED delivered,
         UNCHANGED data_bus \/ (data_bus # <<>> /\ data_bus' = Tail(data_bus)),
         Receiving' => Receiving /\ ReceiveMsg' = ReceiveMsg
  PROVE  OrderInv'
<1>1. LastNumber' = LastNumber
  BY DEF LastNumber
<1>2. CASE UNCHANGED data_bus
  BY <1>1, <1>2 DEF OrderInv, Bus, Starts
<1>3. CASE data_bus # <<>> /\ data_bus' = Tail(data_bus)
  <2>1. \A i \in Bus' : i + 1 \in Bus /\ data_bus'[i] = data_bus[i + 1]
    BY <1>3, BusTail DEF IInv, Bus
  <2>2. \A i, j \in Bus' : i < j => i + 1 < j + 1
    BY DEF Bus
  <2>3. \A i \in Bus' : Starts(i)' => Starts(i + 1)
    BY <2>1 DEF Starts
  <2> QED BY <1>1, <2>1, <2>2, <2>3 DEF OrderInv
<1> QED BY <1>2, <1>3

(* Taking the oldest frame off the bus leaves later starts only.           *)
LEMMA StartsAhead ==
  ASSUME IInv, OrderInv, data_bus # <<>>, data_bus' = Tail(data_bus)
  PROVE  /\ 1 \in Bus /\ Head(data_bus) = data_bus[1]
         /\ \A i \in Bus' : Starts(i)' =>
              data_bus[1].data.msg < data_bus'[i].data.msg
         /\ \A i, j \in Bus' : i < j /\ Starts(j)' =>
              data_bus'[i].data.msg < data_bus'[j].data.msg
         /\ \A i \in Bus' : Starts(i)' => LastNumber < data_bus'[i].data.msg
         /\ Receiving => \A i \in Bus' : Starts(i)' =>
              ReceiveMsg < data_bus'[i].data.msg
<1>1. 1 \in Bus /\ Head(data_bus) = data_bus[1]
  BY BusHead DEF IInv
<1>2. \A i \in Bus' : i + 1 \in Bus /\ 1 < i + 1 /\ data_bus'[i] = data_bus[i + 1]
  BY BusTail DEF IInv, Bus
<1>3. \A i, j \in Bus' : i < j => i + 1 < j + 1
  BY DEF Bus
<1>4. \A i \in Bus' : Starts(i)' => Starts(i + 1)
  BY <1>2 DEF Starts
<1> QED BY <1>1, <1>2, <1>3, <1>4 DEF OrderInv

(* The message handed over becomes the last one.                           *)
LEMMA LastOf ==
  ASSUME IInv, NEW d, delivered' = Append(delivered, d)
  PROVE  LastNumber' = NumberOf(d)
<1>1. /\ Len(delivered) \in Nat /\ Len(delivered') = Len(delivered) + 1
      /\ delivered'[Len(delivered) + 1] = d
  BY DEF IInv, TypeOK
<1>2. Len(delivered') # 0
  BY <1>1
<1>3. delivered' # <<>>
  BY <1>2
<1> QED BY <1>1, <1>3 DEF LastNumber

LEMMA OrderSingle ==
  ASSUME IInv, OrderInv, OnSingleFrame
  PROVE  OrderInv'
<1> DEFINE f == Head(data_bus)
           d == [size |-> f.pci, data |-> <<f.data>>]
<1>1. /\ data_bus # <<>> /\ data_bus' = Tail(data_bus)
      /\ ~Receiving' /\ delivered' = Append(delivered, d)
  BY DEF OnSingleFrame, IsHead, HandOver, Receiving
<1>2. LastNumber' = data_bus[1].data.msg
  <2>1. LastNumber' = NumberOf(d)
    BY <1>1, LastOf
  <2>2. NumberOf(d) = f.data.msg
    BY DEF NumberOf
  <2> QED BY <1>1, <2>1, <2>2, StartsAhead
<1> QED BY <1>1, <1>2, StartsAhead DEF OrderInv

LEMMA OrderFirst ==
  ASSUME IInv, OrderInv, OnFirstFrame
  PROVE  OrderInv'
<1> DEFINE f == Head(data_bus)
<1>1. /\ data_bus # <<>> /\ data_bus' = Tail(data_bus) /\ f.type = "FF"
      /\ UNCHANGED delivered
  BY DEF OnFirstFrame, IsHead
<1>2. CASE UNCHANGED receive_vars \/ receive_status' = "IDLE"
  <2>1. Receiving' => Receiving /\ ReceiveMsg' = ReceiveMsg
    BY <1>2 DEF receive_vars, Receiving, ReceiveMsg
  <2> QED BY <1>1, <2>1, OrderDrop
<1>3. CASE StartReception(f)
  <2>1. ReceiveMsg' = data_bus[1].data.msg
    BY <1>1, <1>3, StartsAhead DEF StartReception, ReceiveMsg
  <2>2. LastNumber' = LastNumber
    BY <1>1 DEF LastNumber
  <2>3. Starts(1) /\ 1 \in Bus
    BY <1>1, StartsAhead DEF Starts
  <2>4. LastNumber < data_bus[1].data.msg
    BY <2>3 DEF OrderInv
  <2> QED BY <1>1, <2>1, <2>2, <2>4, StartsAhead DEF OrderInv
<1> QED BY <1>2, <1>3 DEF OnFirstFrame, receive_vars

LEMMA OrderConsecutive ==
  ASSUME IInv, OrderInv, OnConsecutiveFrame
  PROVE  OrderInv'
<1> DEFINE f == Head(data_bus)
<1>1. data_bus # <<>> /\ data_bus' = Tail(data_bus)
  BY DEF OnConsecutiveFrame, IsHead
<1>2. CASE UNCHANGED delivered /\ (UNCHANGED receive_vars \/ receive_status' = "IDLE")
  <2>1. Receiving' => Receiving /\ ReceiveMsg' = ReceiveMsg
    BY <1>2 DEF receive_vars, Receiving, ReceiveMsg
  <2> QED BY <1>1, <1>2, <2>1, OrderDrop
<1>3. ASSUME Receiving, CopyRun(f.data)
      PROVE  receive_buffer' # <<>> /\ receive_buffer'[1] = receive_buffer[1]
  <2>1. receive_buffer \in Seq(DataRun) /\ Len(receive_buffer) > 0
    BY <1>3 DEF IInv, TypeOK, ReceiveInv
  <2> QED BY <1>3, <2>1 DEF CopyRun
<1>4. CASE Receiving /\ CopyRun(f.data) /\ (BlockContinues \/ BlockComplete)
  <2>1. Receiving' => Receiving /\ ReceiveMsg' = ReceiveMsg
    BY <1>3, <1>4 DEF ReceiveMsg
  <2>2. UNCHANGED delivered
    BY <1>4 DEF BlockContinues, BlockComplete
  <2> QED BY <1>1, <2>1, <2>2, OrderDrop
<1>5. CASE Receiving /\ CopyRun(f.data) /\ MessageComplete
  <2> DEFINE d == [size |-> receive_size, data |-> receive_buffer']
  <2>1. delivered' = Append(delivered, d) /\ ~Receiving'
    BY <1>5 DEF MessageComplete, HandOver, Receiving
  <2>2. LastNumber' = NumberOf(d)
    BY <2>1, LastOf
  <2>3. NumberOf(d) = ReceiveMsg
    BY <1>3, <1>5 DEF NumberOf, ReceiveMsg
  <2> QED BY <1>1, <1>5, <2>1, <2>2, <2>3, StartsAhead DEF OrderInv
<1> QED BY <1>2, <1>4, <1>5
        DEF OnConsecutiveFrame, Receiving, receive_vars
-----------------------------------------------------------------------------
LEMMA OrderInvInit == Init => OrderInv
BY DEF Init, OrderInv, Bus, Receiving

LEMMA OrderInvStep == IInv /\ OrderInv /\ [Next]_vars => OrderInv'
<1> SUFFICES ASSUME IInv, OrderInv, [Next]_vars PROVE OrderInv'
  OBVIOUS
<1>1. ASSUME NEW size \in Sizes, SendSingle(size) PROVE OrderInv'
  <2>1. SingleFrame(Len(sent) + 1, size).data.msg = Len(sent) + 1
    BY DEF SingleFrame, Run
  <2> QED BY <1>1, <2>1, OrderStart DEF SendSingle
<1>2. ASSUME NEW size \in Sizes, SendFirst(size) PROVE OrderInv'
  <2>1. FirstFrame(Len(sent) + 1, size).data.msg = Len(sent) + 1
    BY DEF FirstFrame, Run
  <2> QED BY <1>2, <2>1, OrderStart DEF SendFirst
<1>3. CASE PollSend
  <2>1. ConsecutiveFrame(CurrentMsg, send_offset, send_sn).type = "CF"
    BY DEF ConsecutiveFrame
  <2> QED BY <1>3, <2>1, OrderContinue DEF PollSend
<1>4. CASE TimeoutBs \/ OnFlowControl \/ RestartSender \/ TimeoutCr
           \/ RestartReceiver \/ LoseData \/ LoseFlowControl \/ UNCHANGED vars
  <2>1. Receiving' => Receiving /\ ReceiveMsg' = ReceiveMsg
    BY <1>4 DEF TimeoutBs, OnFlowControl, RestartSender, ResetSender, TimeoutCr,
                RestartReceiver, LoseData, LoseFlowControl, vars,
                receive_vars, Receiving, ReceiveMsg
  <2>2. /\ UNCHANGED delivered
        /\ UNCHANGED data_bus \/ (data_bus # <<>> /\ data_bus' = Tail(data_bus))
    BY <1>4 DEF TimeoutBs, OnFlowControl, RestartSender, ResetSender, TimeoutCr,
                RestartReceiver, LoseData, LoseFlowControl, vars
  <2> QED BY <2>1, <2>2, OrderDrop
<1> QED BY <1>1, <1>2, <1>3, <1>4, OrderSingle, OrderFirst, OrderConsecutive
        DEF Next, Send
-----------------------------------------------------------------------------
(***************************************************************************)
(* The refinement.  The service's sequence of numbers, read off the data.  *)
(***************************************************************************)
Numbers == [i \in 1..Len(delivered) |-> NumberOf(delivered[i])]
Mapped  == [i \in 1..Len(delivered) |-> MessageNumber(delivered[i])]

LEMMA MappedNumbers == TypeOK /\ Integrity => Mapped = Numbers
BY Numbered DEF Mapped, Numbers

LEMMA LastMapped ==
  ASSUME TypeOK, Integrity
  PROVE  LastNumber = IF Numbers = <<>> THEN 0 ELSE Numbers[Len(Numbers)]
<1>1. Len(delivered) \in Nat /\ delivered \in Seq([size : Nat, data : Seq(DataRun)])
  BY DEF TypeOK
<1>2. Len(Numbers) = Len(delivered)
  BY <1>1 DEF Numbers
<1>3. CASE delivered = <<>>
  <2>1. Numbers = <<>>
    BY <1>3 DEF Numbers
  <2> QED BY <1>3, <2>1 DEF LastNumber
<1>4. CASE delivered # <<>>
  <2>1. Len(delivered) \in 1..Len(delivered)
    BY <1>1, <1>4
  <2>2. Numbers[Len(Numbers)] = NumberOf(delivered[Len(delivered)])
    BY <1>2, <2>1 DEF Numbers
  <2>3. Numbers # <<>>
    BY <1>2, <2>1
  <2> QED BY <1>4, <2>2, <2>3 DEF LastNumber
<1> QED BY <1>3, <1>4

LEMMA NumbersAppend ==
  ASSUME TypeOK, Integrity, NEW d, NumberOf(d) \in Nat, delivered' = Append(delivered, d)
  PROVE  Numbers' = Append(Numbers, NumberOf(d))
<1>1. /\ Len(delivered) \in Nat /\ Len(delivered') = Len(delivered) + 1
      /\ delivered'[Len(delivered) + 1] = d
      /\ \A i \in 1..Len(delivered) : delivered'[i] = delivered[i]
  BY DEF TypeOK
<1>2. Numbers \in Seq(Nat) /\ Len(Numbers) = Len(delivered)
  <2>1. \A i \in 1..Len(delivered) : NumberOf(delivered[i]) \in Nat
    BY Numbered, LastTyped
  <2> QED BY <1>1, <2>1 DEF Numbers
<1>3. /\ Append(Numbers, NumberOf(d)) \in Seq(Nat)
      /\ Len(Append(Numbers, NumberOf(d))) = Len(delivered) + 1
      /\ \A i \in 1..Len(delivered) :
           Append(Numbers, NumberOf(d))[i] = NumberOf(delivered[i])
      /\ Append(Numbers, NumberOf(d))[Len(delivered) + 1] = NumberOf(d)
  BY <1>2, AppendProperties DEF Numbers
<1>4. \A i \in 1..Len(delivered) + 1 :
        NumberOf(delivered'[i]) = Append(Numbers, NumberOf(d))[i]
  BY <1>1, <1>3
<1>5. Numbers' \in Seq(Nat) /\ Len(Numbers') = Len(delivered) + 1
  <2>1. \A i \in 1..Len(delivered) + 1 : NumberOf(delivered'[i]) \in Nat
    <3>1. \A i \in 1..Len(delivered) : NumberOf(delivered[i]) \in Nat
      BY Numbered, LastTyped
    <3> QED BY <1>1, <3>1
  <2> QED BY <1>1, <2>1 DEF Numbers
<1>6. \A i \in 1..Len(Numbers') : Numbers'[i] = Append(Numbers, NumberOf(d))[i]
  BY <1>1, <1>4, <1>5 DEF Numbers
<1> HIDE DEF Numbers
<1> QED BY <1>3, <1>5, <1>6, SeqEqual

(* What the application sees of a step: a message is accepted, nothing, or *)
(* a later message than the last is handed over.                           *)
Visible ==
  \/ Len(sent') = Len(sent) + 1 /\ UNCHANGED delivered
  \/ UNCHANGED <<sent, delivered>>
  \/ /\ UNCHANGED sent
     /\ \E d : /\ delivered' = Append(delivered, d)
               /\ NumberOf(d) > LastNumber
               /\ NumberOf(d) \in 1..Len(sent)

LEMMA VisibleStep ==
  ASSUME IInv, OrderInv, [Next]_vars
  PROVE  Visible
<1> USE DEF Visible
<1>1. ASSUME NEW size \in Sizes, SendSingle(size) \/ SendFirst(size)
      PROVE  Len(sent') = Len(sent) + 1 /\ UNCHANGED delivered
  BY <1>1 DEF SendSingle, SendFirst, IInv, TypeOK
<1>2. CASE \/ PollSend \/ TimeoutBs \/ OnFlowControl \/ RestartSender
           \/ OnFirstFrame \/ TimeoutCr \/ RestartReceiver
           \/ LoseData \/ LoseFlowControl \/ UNCHANGED vars
  BY <1>2 DEF PollSend, TimeoutBs, OnFlowControl, RestartSender, ResetSender,
              OnFirstFrame, TimeoutCr, RestartReceiver, LoseData, LoseFlowControl, vars
<1>3. CASE OnSingleFrame
  <2> DEFINE f == Head(data_bus)
             d == [size |-> f.pci, data |-> <<f.data>>]
  <2>1. /\ data_bus # <<>> /\ f.type = "SF" /\ UNCHANGED sent
        /\ delivered' = Append(delivered, d)
    BY <1>3 DEF OnSingleFrame, IsHead, HandOver
  <2>2. NumberOf(d) = data_bus[1].data.msg /\ 1 \in Bus /\ Starts(1)
    BY <2>1, BusHead DEF NumberOf, Starts, IInv
  <2>3. NumberOf(d) > LastNumber
    BY <2>2, LastTyped, BusNumbers DEF OrderInv
  <2> QED BY <2>1, <2>2, <2>3, BusNumbers
<1>4. CASE OnConsecutiveFrame
  <2>1. CASE UNCHANGED <<sent, delivered>>
    BY <2>1
  <2>2. CASE /\ Receiving /\ CopyRun(Head(data_bus).data) /\ MessageComplete
             /\ UNCHANGED sent
    <3> DEFINE d == [size |-> receive_size, data |-> receive_buffer']
    <3>1. delivered' = Append(delivered, d)
      BY <2>2 DEF MessageComplete, HandOver
    <3>2. receive_buffer'[1] = receive_buffer[1]
      <4>1. receive_buffer \in Seq(DataRun) /\ Len(receive_buffer) > 0
        BY <2>2 DEF IInv, TypeOK, ReceiveInv
      <4> QED BY <2>2, <4>1 DEF CopyRun
    <3>3. NumberOf(d) = ReceiveMsg
      BY <3>2 DEF NumberOf, ReceiveMsg
    <3>4. ReceiveMsg \in 1..Len(sent) /\ LastNumber < ReceiveMsg
      BY <2>2 DEF IInv, ReceiveInv, OrderInv
    <3>5. ReceiveMsg > LastNumber
      BY <3>4, LastTyped
    <3> QED BY <2>2, <3>1, <3>3, <3>4, <3>5
  <2> QED BY <1>4, <2>1, <2>2 DEF OnConsecutiveFrame, BlockContinues,
                                  BlockComplete, Receiving, receive_vars
<1> QED BY <1>1, <1>2, <1>3, <1>4 DEF Next, Send

LEMMA Implements ==
  ASSUME TypeOK, Integrity, TypeOK', Integrity', Visible
  PROVE  [Service!Next]_(Service!vars)
<1>1. Mapped = Numbers
  BY MappedNumbers
<1>2. Mapped' = Numbers'
  <2>1. (TypeOK /\ Integrity => Mapped = Numbers)'
    BY MappedNumbers, PTL
  <2> QED BY <2>1
<1>3. CASE Len(sent') = Len(sent) + 1 /\ UNCHANGED delivered
  <2>1. Numbers' = Numbers
    BY <1>3 DEF Numbers
  <2>2. Mapped' = Mapped
    BY <1>1, <1>2, <2>1
  <2>3. Service!Accept
    BY <1>3, <2>2 DEF Service!Accept, Mapped
  <2> QED BY <2>3 DEF Service!Next
<1>4. CASE UNCHANGED <<sent, delivered>>
  <2>1. Numbers' = Numbers
    BY <1>4 DEF Numbers
  <2>2. Mapped' = Mapped
    BY <1>1, <1>2, <2>1
  <2> QED BY <1>4, <2>2 DEF Service!vars, Mapped
<1>5. ASSUME UNCHANGED sent, NEW d, delivered' = Append(delivered, d),
             NumberOf(d) > LastNumber, NumberOf(d) \in 1..Len(sent)
      PROVE  Service!Next
  <2> DEFINE m == NumberOf(d)
  <2>1. m \in Nat /\ m \in 1..Len(sent) /\ m <= Len(sent)
    BY <1>5, LastTyped
  <2>2. Mapped' = Append(Mapped, m)
    BY <1>1, <1>2, <1>5, <2>1, NumbersAppend
  <2>3. m > IF Mapped = <<>> THEN 0 ELSE Mapped[Len(Mapped)]
    BY <1>1, <1>5, LastMapped
  <2> HIDE DEF m
  <2>4. Service!Deliver(m)
    BY <1>5, <2>1, <2>2, <2>3
    DEF Service!Deliver, Service!LastDelivered, Mapped
  <2> QED BY <2>1, <2>4 DEF Service!Next
<1> QED BY <1>3, <1>4, <1>5 DEF Visible

LEMMA ServiceInit == Init => Service!Init
<1> SUFFICES ASSUME Init PROVE Service!Init
  OBVIOUS
<1>1. Len(sent) = 0 /\ Mapped = <<>>
  BY DEF Init, Mapped
<1> QED BY <1>1 DEF Service!Init, Mapped

LEMMA ServiceStep ==
  ASSUME IInv, IInv', OrderInv, [Next]_vars
  PROVE  [Service!Next]_(Service!vars)
BY VisibleStep, Implements DEF IInv

(* The transport implements its service: every message handed over was     *)
(* accepted, is handed over once, and never after a later one.             *)
THEOREM TransportService == Timely /\ Spec => ServiceSpec
<1> SUFFICES ASSUME Timely PROVE Spec => ServiceSpec
  OBVIOUS
<1>1. Spec => []OrderInv
  <2>1. Spec => []IInv
    BY Invariance
  <2> QED BY <2>1, OrderInvInit, OrderInvStep, PTL DEF Spec
<1> QED BY Invariance, ServiceInit, ServiceStep, <1>1, PTL
        DEF Spec, ServiceSpec, Service!Spec
=============================================================================
