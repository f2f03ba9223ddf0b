-------------------------------- MODULE IsoTp --------------------------------
(***************************************************************************)
(* One direction of an ISO-TP link (isotp/isotp.c): the send half of one   *)
(* node's IsoTpLink and the receive half of the other node's, with the CAN *)
(* bus between them.  The two directions of a link share no field: SF, FF  *)
(* and CF frames touch only receive_*, FC frames only send_*, and          *)
(* isotp_poll treats the halves one after the other, so a full-duplex link *)
(* is two copies of this module.                                           *)
(*                                                                         *)
(* Variables carry the names of the link's fields.  The payload is         *)
(* abstracted to what reassembly can confuse: a run of bytes is named by   *)
(* the message it was cut from and its offset there.  Sizes and offsets    *)
(* are the real byte counts.  ISO_TP_DEFAULT_ST_MIN is 0, so no gap is     *)
(* kept between consecutive frames; both timers become the actions         *)
(* TimeoutBs and TimeoutCr.                                                *)
(***************************************************************************)
EXTENDS Integers, Sequences, FiniteSets

CONSTANTS
  BlockSize,  \* ISO_TP_DEFAULT_BLOCK_SIZE, 8 in isotp_config.h
  MaxSN,      \* the largest sequence number, 0x0F
  DLMod,      \* FF_DL has 12 bits: a length is sent modulo 4096
  SendBuf,    \* send_buf_size of the sending node
  RecvBuf,    \* receive_buf_size of the receiving node
  Sizes,      \* sizes of the messages the application sends
  MaxMsgs,    \* bound: number of messages accepted in a behaviour
  Faults      \* what the environment may do, a subset of FaultKinds

FaultKinds == {"loss",      \* a frame disappears (full ring, bus off)
               "restart",   \* a node re-initialises its link
               "early_bs",  \* N_Bs expires although an answer is on its way
               "early_cr"}  \* N_Cr expires although the sender is still active

ASSUME ConstantsAssumption ==
  /\ BlockSize \in Nat \ {0}
  /\ MaxSN \in Nat \ {0}
  /\ BlockSize <= MaxSN + 1
  /\ DLMod \in Nat \ {0}
  /\ SendBuf \in Nat
  /\ SendBuf <= DLMod
  /\ RecvBuf \in Nat
  /\ Sizes \subseteq Nat \ {0}
  /\ MaxMsgs \in Nat
  /\ Faults \subseteq FaultKinds

FFData == 6   \* payload bytes of a first frame
CFData == 7   \* payload bytes of a consecutive frame
SFMax  == 7   \* largest single-frame payload

VARIABLES
  sent,            \* sizes of the messages isotp_send accepted; the last is
                   \* the content of send_buffer, its size is send_size
  send_status, send_offset, send_sn, send_bs_remain,
  data_bus,        \* SF, FF and CF frames on their way, oldest first
  fc_bus,          \* FC frames on their way back
  receive_status, receive_size, receive_offset, receive_sn, receive_bs_count,
  receive_buffer,  \* the runs of bytes copied, in the order of the copies
  delivered        \* what isotp_receive handed to the application

send_vars    == <<send_status, send_offset, send_sn, send_bs_remain>>
receive_vars == <<receive_status, receive_size, receive_offset, receive_sn,
                  receive_bs_count, receive_buffer>>
vars == <<sent, send_vars, data_bus, fc_bus, receive_vars, delivered>>

Smaller(a, b) == IF a <= b THEN a ELSE b

(* Mutant: the wrap is tested before the increment.                        *)
NextSN_LateWrap(sn) == IF sn > MaxSN THEN 0 ELSE sn + 1

(* if (++sn > 0x0F) sn = 0; *)
NextSN(sn) == IF sn + 1 > MaxSN THEN 0 ELSE sn + 1

CurrentMsg == Len(sent)
send_size  == sent[CurrentMsg]

Run(m, off) == [msg |-> m, off |-> off]

(* pci is the header's number: SF_DL, FF_DL or SN.                         *)
SingleFrame(m, size)       == [type |-> "SF", pci |-> size, data |-> Run(m, 0)]
FirstFrame(m, size)        == [type |-> "FF", pci |-> size % DLMod,
                               data |-> Run(m, 0)]
ConsecutiveFrame(m, o, sn) == [type |-> "CF", pci |-> sn, data |-> Run(m, o)]

FlowControl(fs, bs) == [fs |-> fs, bs |-> bs]
-----------------------------------------------------------------------------
Init ==
  /\ sent = <<>>
  /\ send_status = "IDLE" /\ send_offset = 0 /\ send_sn = 0
  /\ send_bs_remain = 0
  /\ data_bus = <<>> /\ fc_bus = <<>>
  /\ receive_status = "IDLE" /\ receive_size = 0 /\ receive_offset = 0
  /\ receive_sn = 0 /\ receive_bs_count = 0 /\ receive_buffer = <<>>
  /\ delivered = <<>>

(***************************************************************************)
(* The sending node.                                                       *)
(***************************************************************************)

(* isotp_send_with_id, once its two refusals (size > send_buf_size, and a  *)
(* transmission in progress) are passed: a refused call changes nothing.   *)
SendSingle(size) ==
  /\ send_status # "INPROGRESS"
  /\ size <= SFMax /\ size <= SendBuf /\ Len(sent) < MaxMsgs
  /\ sent' = Append(sent, size)
  /\ send_offset' = 0
  /\ data_bus' = Append(data_bus, SingleFrame(Len(sent) + 1, size))
  /\ UNCHANGED <<send_status, send_sn, send_bs_remain, fc_bus,
                 receive_vars, delivered>>

SendFirst(size) ==
  /\ send_status # "INPROGRESS"
  /\ size > SFMax /\ size <= SendBuf /\ Len(sent) < MaxMsgs
  /\ sent' = Append(sent, size)
  /\ data_bus' = Append(data_bus, FirstFrame(Len(sent) + 1, size))
  /\ send_offset' = FFData
  /\ send_sn' = 1
  /\ send_bs_remain' = 0
  /\ send_status' = "INPROGRESS"
  /\ UNCHANGED <<fc_bus, receive_vars, delivered>>

(* Mutant: the block's credit is not spent.                                *)
PollSend_KeepsCredit ==
  /\ send_status = "INPROGRESS"
  /\ send_bs_remain > 0
  /\ data_bus' = Append(data_bus,
                        ConsecutiveFrame(CurrentMsg, send_offset, send_sn))
  /\ send_offset' = send_offset + Smaller(send_size - send_offset, CFData)
  /\ send_sn' = NextSN(send_sn)
  /\ send_status' = IF send_offset' >= send_size THEN "IDLE" ELSE "INPROGRESS"
  /\ UNCHANGED <<sent, send_bs_remain, fc_bus, receive_vars, delivered>>

(* isotp_poll with credit: one consecutive frame.  The shim's send function *)
(* always reports success once a callback is set, so the error branch of    *)
(* the poll is not taken.                                                   *)
PollSend ==
  /\ send_status = "INPROGRESS"
  /\ send_bs_remain > 0
  /\ data_bus' = Append(data_bus,
                        ConsecutiveFrame(CurrentMsg, send_offset, send_sn))
  /\ send_offset' = send_offset + Smaller(send_size - send_offset, CFData)
  /\ send_sn' = NextSN(send_sn)
  /\ send_bs_remain' = send_bs_remain - 1
  /\ send_status' = IF send_offset' >= send_size THEN "IDLE" ELSE "INPROGRESS"
  /\ UNCHANGED <<sent, fc_bus, receive_vars, delivered>>

(* isotp_poll without credit, after send_timer_bs.  Each FF, CF and FC     *)
(* restarts the timer, so unless "early_bs" is possible nothing is on its  *)
(* way any more: what was expected was lost, or never sent.                *)
BusesQuiet == data_bus = <<>> /\ fc_bus = <<>>

(* Mutant: N_Bs is restarted instead of ending the transfer.               *)
TimeoutBs_Restarts ==
  /\ send_status = "INPROGRESS"
  /\ send_bs_remain = 0
  /\ BusesQuiet \/ "early_bs" \in Faults
  /\ UNCHANGED vars

TimeoutBs ==
  /\ send_status = "INPROGRESS"
  /\ send_bs_remain = 0
  /\ BusesQuiet \/ "early_bs" \in Faults
  /\ send_status' = "ERROR"
  /\ UNCHANGED <<sent, send_offset, send_sn, send_bs_remain, data_bus, fc_bus,
                 receive_vars, delivered>>

(* Mutant: the credit is one frame less than the block.                    *)
OnFlowControl_OneLess ==
  /\ fc_bus # <<>>
  /\ fc_bus' = Tail(fc_bus)
  /\ LET fc == Head(fc_bus) IN
       \/ /\ send_status # "INPROGRESS"
          /\ UNCHANGED send_vars
       \/ /\ send_status = "INPROGRESS" /\ fc.fs = "CONTINUE"
          /\ send_bs_remain' = fc.bs - 1
          /\ UNCHANGED <<send_status, send_offset, send_sn>>
       \/ /\ send_status = "INPROGRESS" /\ fc.fs = "OVERFLOW"
          /\ send_status' = "ERROR"
          /\ UNCHANGED <<send_offset, send_sn, send_bs_remain>>
  /\ UNCHANGED <<sent, data_bus, receive_vars, delivered>>

(* isotp_on_can_message with a flow-control frame.  A receiver of this     *)
(* code sends CONTINUE with BS = BlockSize, or OVERFLOW; never WAIT.       *)
OnFlowControl ==
  /\ fc_bus # <<>>
  /\ fc_bus' = Tail(fc_bus)
  /\ LET fc == Head(fc_bus) IN
       \/ /\ send_status # "INPROGRESS"
          /\ UNCHANGED send_vars
       \/ /\ send_status = "INPROGRESS" /\ fc.fs = "CONTINUE"
          /\ send_bs_remain' = fc.bs
          /\ UNCHANGED <<send_status, send_offset, send_sn>>
       \/ /\ send_status = "INPROGRESS" /\ fc.fs = "OVERFLOW"
          /\ send_status' = "ERROR"
          /\ UNCHANGED <<send_offset, send_sn, send_bs_remain>>
  /\ UNCHANGED <<sent, data_bus, receive_vars, delivered>>

(* isotp_init_link: the send half of a new link.                           *)
ResetSender ==
  /\ "restart" \in Faults
  /\ send_status' = "IDLE" /\ send_offset' = 0 /\ send_sn' = 0
  /\ send_bs_remain' = 0
  /\ UNCHANGED <<sent, data_bus, fc_bus, receive_vars, delivered>>

(* A sender whose process ends and is started again, the server's, waits   *)
(* five seconds in between (RestartSec): by then the bus has drained.  The *)
(* client's init waits for nothing: see module IsoTpNodes.                 *)
RestartSender == BusesQuiet /\ ResetSender

(***************************************************************************)
(* The receiving node.  Its frame handler calls isotp_on_can_message and   *)
(* then isotp_receive: a message that becomes FULL is handed over, and the *)
(* status is IDLE again, in the same step.                                 *)
(***************************************************************************)
HandOver(size, buffer) ==
  /\ delivered' = Append(delivered, [size |-> size, data |-> buffer])
  /\ receive_status' = "IDLE"

IsHead(type) == data_bus # <<>> /\ Head(data_bus).type = type

OnSingleFrame ==
  /\ IsHead("SF")
  /\ data_bus' = Tail(data_bus)
  /\ LET f == Head(data_bus) IN
       /\ receive_size' = f.pci
       /\ receive_buffer' = <<f.data>>
       /\ HandOver(f.pci, <<f.data>>)
  /\ UNCHANGED <<sent, send_vars, fc_bus, receive_offset, receive_sn,
                 receive_bs_count>>

(* Mutant: the offset is left where the last reception ended.              *)
StartReception_KeepsOffset(f) ==
  /\ receive_status' = "INPROGRESS"
  /\ receive_size' = f.pci
  /\ receive_sn' = 1
  /\ receive_bs_count' = BlockSize
  /\ receive_buffer' = <<f.data>>
  /\ fc_bus' = Append(fc_bus, FlowControl("CONTINUE", BlockSize))
  /\ UNCHANGED receive_offset

StartReception(f) ==
  /\ receive_status' = "INPROGRESS"
  /\ receive_size' = f.pci
  /\ receive_offset' = FFData
  /\ receive_sn' = 1
  /\ receive_bs_count' = BlockSize
  /\ receive_buffer' = <<f.data>>
  /\ fc_bus' = Append(fc_bus, FlowControl("CONTINUE", BlockSize))

(* A length that needs no multi-frame transfer is refused without an       *)
(* answer, and a transfer in progress stays as it is; a length beyond the  *)
(* buffer is answered with OVERFLOW; any other starts a transfer, in place *)
(* of one in progress.                                                     *)
OnFirstFrame ==
  /\ IsHead("FF")
  /\ data_bus' = Tail(data_bus)
  /\ LET f == Head(data_bus) IN
       \/ /\ f.pci <= SFMax
          /\ UNCHANGED <<fc_bus, receive_vars>>
       \/ /\ f.pci > SFMax /\ f.pci > RecvBuf
          /\ receive_status' = "IDLE"
          /\ fc_bus' = Append(fc_bus, FlowControl("OVERFLOW", 0))
          /\ UNCHANGED <<receive_size, receive_offset, receive_sn,
                         receive_bs_count, receive_buffer>>
       \/ /\ f.pci > SFMax /\ f.pci <= RecvBuf
          /\ StartReception(f)
  /\ UNCHANGED <<sent, send_vars, delivered>>

(* A consecutive frame with the number the receiver expects: one more run  *)
(* is copied, then the message is complete, or the block is, or neither.   *)
CopyRun(run) ==
  /\ receive_offset' = receive_offset
                         + Smaller(receive_size - receive_offset, CFData)
  /\ receive_sn' = NextSN(receive_sn)
  /\ receive_buffer' = Append(receive_buffer, run)
  /\ receive_size' = receive_size

(* Mutant: the block counter is looked at before the end of the message.   *)
MessageComplete_Grants ==
  /\ receive_offset' >= receive_size
  /\ HandOver(receive_size, receive_buffer')
  /\ fc_bus' = IF receive_bs_count = 1
               THEN Append(fc_bus, FlowControl("CONTINUE", BlockSize)) ELSE fc_bus
  /\ UNCHANGED receive_bs_count

MessageComplete ==
  /\ receive_offset' >= receive_size
  /\ HandOver(receive_size, receive_buffer')
  /\ UNCHANGED <<fc_bus, receive_bs_count>>

(* Mutant: a flow-control frame answers every consecutive frame.           *)
BlockContinues_Grants ==
  /\ receive_offset' < receive_size
  /\ receive_bs_count # 1
  /\ receive_bs_count' = receive_bs_count - 1
  /\ fc_bus' = Append(fc_bus, FlowControl("CONTINUE", BlockSize))
  /\ UNCHANGED <<receive_status, delivered>>

BlockContinues ==
  /\ receive_offset' < receive_size
  /\ receive_bs_count # 1
  /\ receive_bs_count' = receive_bs_count - 1
  /\ UNCHANGED <<fc_bus, receive_status, delivered>>

(* Mutant: the next block is not granted.                                  *)
BlockComplete_Silent ==
  /\ receive_offset' < receive_size
  /\ receive_bs_count = 1
  /\ receive_bs_count' = BlockSize
  /\ UNCHANGED <<fc_bus, receive_status, delivered>>

BlockComplete ==
  /\ receive_offset' < receive_size
  /\ receive_bs_count = 1
  /\ receive_bs_count' = BlockSize
  /\ fc_bus' = Append(fc_bus, FlowControl("CONTINUE", BlockSize))
  /\ UNCHANGED <<receive_status, delivered>>

OnConsecutiveFrame ==
  /\ IsHead("CF")
  /\ data_bus' = Tail(data_bus)
  /\ LET f == Head(data_bus) IN
       \/ /\ receive_status # "INPROGRESS"
          /\ UNCHANGED <<fc_bus, receive_vars, delivered>>
       \/ /\ receive_status = "INPROGRESS" /\ f.pci # receive_sn
          /\ receive_status' = "IDLE"
          /\ UNCHANGED <<fc_bus, receive_size, receive_offset, receive_sn,
                         receive_bs_count, receive_buffer, delivered>>
       \/ /\ receive_status = "INPROGRESS" /\ f.pci = receive_sn
          /\ CopyRun(f.data)
          /\ MessageComplete \/ BlockContinues \/ BlockComplete
  /\ UNCHANGED <<sent, send_vars>>

(* isotp_poll, after receive_timer_cr, which each FF and CF restarts:      *)
(* unless "early_cr" is possible nothing is on its way any more, and the   *)
(* sender has no credit to send with.                                      *)
SenderActive == send_status = "INPROGRESS" /\ send_bs_remain > 0
CrDue == BusesQuiet /\ ~SenderActive

(* Mutant: N_Cr is restarted instead of ending the reception.              *)
TimeoutCr_Restarts ==
  /\ receive_status = "INPROGRESS"
  /\ CrDue \/ "early_cr" \in Faults
  /\ UNCHANGED vars

TimeoutCr ==
  /\ receive_status = "INPROGRESS"
  /\ CrDue \/ "early_cr" \in Faults
  /\ receive_status' = "IDLE"
  /\ UNCHANGED <<sent, send_vars, data_bus, fc_bus, receive_size,
                 receive_offset, receive_sn, receive_bs_count, receive_buffer,
                 delivered>>

RestartReceiver ==
  /\ "restart" \in Faults
  /\ receive_status' = "IDLE" /\ receive_size' = 0 /\ receive_offset' = 0
  /\ receive_sn' = 0 /\ receive_bs_count' = 0
  /\ UNCHANGED <<sent, send_vars, data_bus, fc_bus, receive_buffer, delivered>>

(***************************************************************************)
(* The bus is FIFO in each direction.  Losing the oldest frame is enough:  *)
(* a loss can be put off until the frame would have been delivered.        *)
(***************************************************************************)
LoseData ==
  /\ "loss" \in Faults
  /\ data_bus # <<>>
  /\ data_bus' = Tail(data_bus)
  /\ UNCHANGED <<sent, send_vars, fc_bus, receive_vars, delivered>>

LoseFlowControl ==
  /\ "loss" \in Faults
  /\ fc_bus # <<>>
  /\ fc_bus' = Tail(fc_bus)
  /\ UNCHANGED <<sent, send_vars, data_bus, receive_vars, delivered>>
-----------------------------------------------------------------------------
Send == \E size \in Sizes : SendSingle(size) \/ SendFirst(size)

Next ==
  \/ Send \/ PollSend \/ TimeoutBs \/ OnFlowControl \/ RestartSender
  \/ OnSingleFrame \/ OnFirstFrame \/ OnConsecutiveFrame
  \/ TimeoutCr \/ RestartReceiver
  \/ LoseData \/ LoseFlowControl

Spec == Init /\ [][Next]_vars
-----------------------------------------------------------------------------
FrameType == {"SF", "FF", "CF"}
DataRun   == [msg : Nat, off : Nat]
Frame     == [type : FrameType, pci : Nat, data : DataRun]
FCFrame   == [fs : {"CONTINUE", "OVERFLOW"}, bs : 0..BlockSize]

TypeOK ==
  /\ sent \in Seq(Sizes)
  /\ send_status = "INPROGRESS" => sent # <<>>
  /\ send_status \in {"IDLE", "INPROGRESS", "ERROR"}
  /\ send_offset \in Nat /\ send_sn \in 0..MaxSN
  /\ send_bs_remain \in 0..BlockSize
  /\ data_bus \in Seq(Frame) /\ fc_bus \in Seq(FCFrame)
  /\ receive_status \in {"IDLE", "INPROGRESS"}
  /\ receive_size \in Nat /\ receive_offset \in Nat
  /\ receive_sn \in 0..MaxSN /\ receive_bs_count \in 0..BlockSize
  /\ receive_status = "INPROGRESS" => receive_bs_count > 0
  /\ receive_buffer \in Seq(DataRun)
  /\ delivered \in Seq([size : Nat, data : Seq(DataRun)])

(* Offset of the i-th run of a message: the first frame's, then one for    *)
(* each consecutive frame.                                                 *)
RunOffset(i)  == IF i = 1 THEN 0 ELSE FFData + CFData * (i - 2)
NumRuns(size) == IF size <= SFMax THEN 1
                 ELSE 1 + (size - FFData + CFData - 1) \div CFData
IsMessage(d, m) ==
  /\ m \in 1..Len(sent)
  /\ d.size = sent[m]
  /\ d.data = [i \in 1..NumRuns(sent[m]) |-> Run(m, RunOffset(i))]

(* What isotp_receive hands over is one of the messages isotp_send         *)
(* accepted, byte for byte: no bytes of another message, none missing and  *)
(* none twice, whatever was lost and whichever side gave up in between.    *)
Integrity ==
  \A i \in 1..Len(delivered) :
    \E m \in 1..Len(sent) : IsMessage(delivered[i], m)

(* A flow-control frame on its way belongs to the transfer the sender is   *)
(* waiting in, nothing else is on the bus, and if the receiver has not     *)
(* given up meanwhile both sides stand at the same byte and number: the    *)
(* sender never spends a credit granted to an earlier message.             *)
FlowControlFresh ==
  fc_bus # <<>> =>
    /\ Len(fc_bus) = 1 /\ data_bus = <<>>
    /\ send_status = "INPROGRESS" /\ send_bs_remain = 0
    /\ receive_status = "INPROGRESS" =>
         /\ receive_buffer[1].msg = CurrentMsg
         /\ receive_offset = send_offset
         /\ receive_sn = send_sn

(* The credits of both sides agree: every consecutive frame on its way is  *)
(* of the message being received and inside the window of bytes the        *)
(* receiver still counts for this block, so 4-bit numbers never confuse    *)
(* two frames, however many frames of the block were lost.                 *)
IsCF(i) == data_bus[i].type = "CF"

WithinBlock ==
  receive_status = "INPROGRESS" =>
    \A i \in 1..Len(data_bus) : IsCF(i) =>
      /\ data_bus[i].data.msg = receive_buffer[1].msg
      /\ data_bus[i].data.off >= receive_offset
      /\ data_bus[i].data.off < receive_offset + CFData * receive_bs_count

(* The sender never has more consecutive frames out, or still permitted,   *)
(* than one block: what isotp_config.h:4 sizes by the driver's queue.      *)
BlockBound ==
  Cardinality({i \in 1..Len(data_bus) : IsCF(i)}) + send_bs_remain <= BlockSize

(* The transport implements the service, under the mapping that names a    *)
(* message handed over by its number, and a mixed one by 0.                *)
MessageNumber(d) ==
  IF \E m \in 1..Len(sent) : IsMessage(d, m) THEN d.data[1].msg ELSE 0

Service == INSTANCE IsoTpService WITH
             accepted  <- Len(sent),
             delivered <- [i \in 1..Len(delivered) |->
                             MessageNumber(delivered[i])]
ServiceSpec == Service!Spec

(* No reception hangs: the receiver leaves INPROGRESS whatever is lost and *)
(* whoever restarts.  N_Cr may expire early, but need not: only an expiry  *)
(* that is due is sure to come, so the property rests on the sender coming *)
(* to its end, or to rest for want of credit, and on the bus draining.     *)
ReceiverSettles == receive_status = "INPROGRESS"
                     ~> receive_status # "INPROGRESS"

(* A length the 12 bits can carry and the receiver has room for.           *)
Fits(size) == size <= SFMax \/ (size < DLMod /\ size <= RecvBuf)
=============================================================================
