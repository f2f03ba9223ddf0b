------------------------------ MODULE IsoTpNodes ------------------------------
(***************************************************************************)
(* The two directions between the client and the server, as each node runs *)
(* isotp.c.  In either one everything but the sending is module IsoTp.     *)
(*                                                                         *)
(* The client calls isotp_send in the thread that also polls the link and  *)
(* reads the bus: a call is one step.  On the server CanServer stays in    *)
(* the main thread, so sendCanResponse calls isotp_send there, while the   *)
(* CAN thread runs isotp_on_can_message and isotp_poll on the same         *)
(* IsoTpLink without a lock.  That call is cut where the CAN thread can    *)
(* see the difference: the first frame is on the bus before send_status    *)
(* says that a transfer is in progress.  A message counts as accepted, and *)
(* is named by its place in sent, from its first frame on: nobody but the  *)
(* main thread can tell it from one not yet passed to isotp_send before.   *)
(*                                                                         *)
(* The client initialises its link again whenever the user connects and    *)
(* after a device error, whatever is on the bus then.  A transfer of its   *)
(* own in progress would be open to the flow control of the one before;    *)
(* but a request of the client fits a single frame, which needs none.      *)
(* The server's link is new when its process has been started again.       *)
(***************************************************************************)
EXTENDS IsoTp

CONSTANTS
  Senders,   \* the nodes whose sending is looked at
  Requests   \* sizes of the messages the client sends

ASSUME NodesAssumption ==
  /\ Senders \subseteq {"client", "server"}
  /\ Requests \subseteq Sizes
  /\ "restart" \in Faults => \A size \in Requests : size <= SFMax

VARIABLES
  sender,    \* the node whose send half this is
  main_pc,   \* where the server's main thread is in isotp_send_with_id
  main_size  \* size of the message it has copied, until its first frame

main_vars  == <<main_pc, main_size>>
node_vars  == <<sender, main_vars>>
nodes_vars == <<vars, node_vars>>

NInit == Init /\ sender \in Senders /\ main_pc = "idle" /\ main_size = 0

(* Mutant: no refusal while a transfer is in progress.                     *)
MainCopy_WhileBusy(size) ==
  /\ main_pc = "idle"
  /\ size <= SendBuf /\ Len(sent) < MaxMsgs
  /\ send_offset' = 0
  /\ main_pc' = "transmit" /\ main_size' = size
  /\ UNCHANGED <<sent, send_status, send_sn, send_bs_remain, data_bus, fc_bus,
                 receive_vars, delivered>>

(* The refusals, the copy into send_buffer, and send_size and send_offset. *)
(* A refusal for a transfer in progress changes nothing: the response is   *)
(* dropped.                                                                *)
MainCopy(size) ==
  /\ main_pc = "idle"
  /\ send_status # "INPROGRESS"
  /\ size <= SendBuf /\ Len(sent) < MaxMsgs
  /\ send_offset' = 0
  /\ main_pc' = "transmit" /\ main_size' = size
  /\ UNCHANGED <<sent, send_status, send_sn, send_bs_remain, data_bus, fc_bus,
                 receive_vars, delivered>>

MainSingle ==
  /\ main_pc = "transmit" /\ main_size <= SFMax
  /\ sent' = Append(sent, main_size)
  /\ data_bus' = Append(data_bus, SingleFrame(Len(sent) + 1, main_size))
  /\ main_pc' = "idle" /\ main_size' = 0
  /\ UNCHANGED <<send_vars, fc_bus, receive_vars, delivered>>

MainFirst ==
  /\ main_pc = "transmit" /\ main_size > SFMax
  /\ sent' = Append(sent, main_size)
  /\ data_bus' = Append(data_bus, FirstFrame(Len(sent) + 1, main_size))
  /\ main_pc' = "init" /\ main_size' = 0
  /\ UNCHANGED <<send_vars, fc_bus, receive_vars, delivered>>

(* send_offset and send_sn, then the multi-frame control flags; the CAN    *)
(* thread reads none of them before send_status, which is stored last.     *)
(* The calls of isotp_user_get_ms in between keep the compiler from moving *)
(* send_status ahead; that the processor makes the stores visible in this  *)
(* order is assumed, nothing in the code asks for it.                      *)
MainInit ==
  /\ main_pc = "init"
  /\ send_offset' = FFData
  /\ send_sn' = 1
  /\ send_bs_remain' = 0
  /\ send_status' = "INPROGRESS"
  /\ main_pc' = "idle"
  /\ UNCHANGED <<main_size, sent, data_bus, fc_bus, receive_vars, delivered>>

MainSend == (\E size \in Sizes : MainCopy(size)) \/ MainSingle \/ MainFirst \/ MainInit

(* What a node's CAN thread does in either direction, and the bus.         *)
CanThreads ==
  \/ PollSend \/ TimeoutBs \/ OnFlowControl
  \/ OnSingleFrame \/ OnFirstFrame \/ OnConsecutiveFrame \/ TimeoutCr
  \/ LoseData \/ LoseFlowControl

(* The server's process ends, wherever its threads are, and is started     *)
(* again.                                                                  *)
ServerRestarts ==
  IF sender = "server"
  THEN RestartSender /\ main_pc' = "idle" /\ main_size' = 0
  ELSE RestartReceiver /\ UNCHANGED main_vars

(* Can_InterFace::init                                                     *)
ClientInit ==
  /\ IF sender = "client" THEN ResetSender ELSE RestartReceiver
  /\ UNCHANGED main_vars

ClientSend == \E size \in Requests : SendSingle(size) \/ SendFirst(size)

NNext ==
  /\ \/ sender = "server" /\ MainSend
     \/ sender = "client" /\ ClientSend /\ UNCHANGED main_vars
     \/ CanThreads /\ UNCHANGED main_vars
     \/ ServerRestarts \/ ClientInit
  /\ UNCHANGED sender

NSpec == NInit /\ [][NNext]_nodes_vars

(* The poll timers run, the event loops take every frame that arrives, and *)
(* isotp_send returns.  N_Cr is sure to expire when it is due, and only    *)
(* then.  Nothing makes the application send.                              *)
NFairness ==
  /\ WF_nodes_vars((MainSingle \/ MainFirst \/ MainInit) /\ UNCHANGED sender)
  /\ WF_nodes_vars(PollSend /\ UNCHANGED node_vars)
  /\ WF_nodes_vars(TimeoutBs /\ UNCHANGED node_vars)
  /\ WF_nodes_vars(TimeoutCr /\ CrDue /\ UNCHANGED node_vars)
  /\ WF_nodes_vars(OnFlowControl /\ UNCHANGED node_vars)
  /\ WF_nodes_vars((OnSingleFrame \/ OnFirstFrame \/ OnConsecutiveFrame)
                     /\ UNCHANGED node_vars)

NFairSpec == NSpec /\ NFairness
-----------------------------------------------------------------------------
(* isotp_send returns and every transfer it starts ends, by success, N_Bs  *)
(* or an overflow, whatever is lost and whatever the CAN thread does in    *)
(* between.                                                                *)
SenderSettles ==
  (main_pc # "idle" \/ send_status = "INPROGRESS")
    ~> (main_pc = "idle" /\ send_status # "INPROGRESS")

(* isotp.h:94: multi-frame messages are sent when isotp_poll is called;    *)
(* with nothing lost, a message that fits is sent to its end.              *)
SentToTheEnd ==
  \A m \in 1..MaxMsgs :
    (Len(sent) >= m /\ Fits(sent[m]))
      ~> \E i \in 1..Len(delivered) : IsMessage(delivered[i], m)
=============================================================================
