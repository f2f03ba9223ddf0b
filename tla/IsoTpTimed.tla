------------------------------ MODULE IsoTpTimed ------------------------------
(***************************************************************************)
(* Module IsoTp with a clock.  N_Bs and N_Cr are 100 ms and are looked at  *)
(* only in isotp_poll, which both nodes call from a timer of 100 ms, too;  *)
(* each poll sends at most one consecutive frame.  The client polls also   *)
(* after each frame it has handled (can_interface.cpp:175); the server     *)
(* does not.  So module IsoTp's premise, that an answer is never later     *)
(* than N_Bs, becomes a question of delays, and its freedom to let N_Cr    *)
(* expire too early becomes a question of the timers.                      *)
(*                                                                         *)
(* Time passes in units (Tick), and never past what is due: a frame that   *)
(* has arrived, a timer of Qt.  A Qt timer of this kind is up to Jitter    *)
(* early or late, the clock of a node included; a frame takes up to        *)
(* MaxDelay, the event loop included.  In a calm behaviour the timers are  *)
(* exact, all frames take equally long and none is lost.                   *)
(*                                                                         *)
(* isotp_send is one step (module IsoTpNodes cuts it).  Left out are the   *)
(* polls that come more often than these: on the client after a request    *)
(* that is refused and after frames of the other direction.                *)
(***************************************************************************)
EXTENDS IsoTp

CONSTANTS
  Senders,   \* the nodes whose sending is looked at
  Period,    \* the interval of m_pollTimer
  Timeout,   \* ISO_TP_DEFAULT_RESPONSE_TIMEOUT
  Jitter,    \* how early or late a timer is
  MaxDelay   \* the longest a frame takes

ASSUME TimedAssumption ==
  /\ Senders \subseteq {"client", "server"}
  /\ Period \in Nat /\ Timeout \in Nat /\ Jitter \in Nat /\ MaxDelay \in Nat
  /\ Jitter < Period
  /\ 2 * MaxDelay <= Timeout
  /\ {"early_bs", "early_cr"} \subseteq Faults

VARIABLES
  sender,             \* the node whose send half this is
  calm,               \* nothing is lost, early or late
  next_poll,          \* per half, the time until m_pollTimer fires
  client_polls,       \* the client has handled a frame and polls now
  age_bs, age_cr,     \* time since send_timer_bs, receive_timer_cr were set
  data_due, fc_due    \* per frame on a bus, the time until it arrives

timed_vars == <<vars, sender, calm, next_poll, client_polls, age_bs, age_cr,
                data_due, fc_due>>

Halves  == {"send", "receive"}
Periods == IF calm THEN {Period} ELSE (Period - Jitter)..(Period + Jitter)
Delays  == IF calm THEN {MaxDelay} ELSE 0..MaxDelay
ClientHalf == IF sender = "client" THEN "send" ELSE "receive"

TInit ==
  /\ Init
  /\ sender \in Senders /\ calm \in BOOLEAN
  /\ next_poll \in [Halves -> 1..Period]
  /\ client_polls = FALSE
  /\ age_bs = 0 /\ age_cr = 0
  /\ data_due = <<>> /\ fc_due = <<>>

(* What a step of IsoTp puts on a bus arrives within MaxDelay.             *)
Due(due, bus, bus_next, delay) ==
  IF Len(bus_next) > Len(bus) THEN Append(due, delay)
  ELSE IF Len(bus_next) < Len(bus) THEN Tail(due) ELSE due
OnTheBuses ==
  \E delay \in Delays :
    /\ data_due' = Due(data_due, data_bus, data_bus', delay)
    /\ fc_due' = Due(fc_due, fc_bus, fc_bus', delay)
-----------------------------------------------------------------------------
(* Mutant: N_Bs is left as the last transfer left it, expired.             *)
StartBs_Not == age_bs' = IF send_status' = "INPROGRESS" THEN Timeout + 1 ELSE age_bs

StartBs == age_bs' = IF send_status' = "INPROGRESS" THEN 0 ELSE age_bs

isotp_send ==
  /\ Send
  /\ StartBs
  /\ OnTheBuses
  /\ UNCHANGED <<sender, calm, next_poll, client_polls, age_cr>>

(* The poll timer of the half's node fires, or the client has handled a    *)
(* frame.                                                                  *)
PollTimer(half) ==
  /\ next_poll[half] = 0
  /\ \E p \in Periods : next_poll' = [next_poll EXCEPT ![half] = p]
  /\ UNCHANGED client_polls
PollNow(half) ==
  \/ PollTimer(half)
  \/ half = ClientHalf /\ client_polls /\ client_polls' = FALSE
     /\ UNCHANGED next_poll

PollSendHalf ==
  /\ PollNow("send")
  /\ \/ PollSend /\ age_bs' = 0
     \/ age_bs > Timeout /\ TimeoutBs /\ UNCHANGED age_bs
     \/ /\ send_status = "INPROGRESS" => send_bs_remain = 0 /\ age_bs <= Timeout
        /\ UNCHANGED <<vars, age_bs>>
  /\ OnTheBuses
  /\ UNCHANGED <<sender, calm, age_cr>>

PollReceiveHalf ==
  /\ PollNow("receive")
  /\ \/ age_cr > Timeout /\ TimeoutCr
     \/ /\ receive_status = "INPROGRESS" => age_cr <= Timeout
        /\ UNCHANGED vars
  /\ UNCHANGED <<sender, calm, age_bs, age_cr, data_due, fc_due>>

(* A frame that has arrived is handled; then the client polls.             *)
DataArrives ==
  /\ data_bus # <<>> /\ Head(data_due) = 0
  /\ ~(client_polls /\ ClientHalf = "receive")
  /\ OnSingleFrame \/ OnFirstFrame \/ OnConsecutiveFrame
  /\ age_cr' = IF /\ receive_status' = "INPROGRESS"
                  /\ fc_bus' # fc_bus \/ receive_buffer' # receive_buffer
               THEN 0 ELSE age_cr
  /\ client_polls' = (client_polls \/ ClientHalf = "receive")
  /\ OnTheBuses
  /\ UNCHANGED <<sender, calm, next_poll, age_bs>>

FlowControlArrives ==
  /\ fc_bus # <<>> /\ Head(fc_due) = 0
  /\ ~(client_polls /\ ClientHalf = "send")
  /\ OnFlowControl
  /\ age_bs' = IF send_status = "INPROGRESS" THEN 0 ELSE age_bs
  /\ client_polls' = (client_polls \/ ClientHalf = "send")
  /\ OnTheBuses
  /\ UNCHANGED <<sender, calm, next_poll, age_cr>>

Lose ==
  /\ ~calm
  /\ LoseData \/ LoseFlowControl
  /\ OnTheBuses
  /\ UNCHANGED <<sender, calm, next_poll, client_polls, age_bs, age_cr>>

(* Ages count no further than what tells a timer has expired, and only     *)
(* while the timer is looked at.                                           *)
Later(age, status) ==
  IF status = "INPROGRESS" THEN Smaller(age + 1, Timeout + 1) ELSE 0
Sooner(due) == [i \in 1..Len(due) |-> IF due[i] > 0 THEN due[i] - 1 ELSE 0]

Tick ==
  /\ \A half \in Halves : next_poll[half] > 0
  /\ ~client_polls
  /\ data_bus # <<>> => Head(data_due) > 0
  /\ fc_bus # <<>> => Head(fc_due) > 0
  /\ next_poll' = [half \in Halves |-> next_poll[half] - 1]
  /\ age_bs' = Later(age_bs, send_status)
  /\ age_cr' = Later(age_cr, receive_status)
  /\ data_due' = Sooner(data_due) /\ fc_due' = Sooner(fc_due)
  /\ UNCHANGED <<vars, sender, calm, client_polls>>

Runs == Tick \/ PollSendHalf \/ PollReceiveHalf \/ DataArrives \/ FlowControlArrives

TNext == isotp_send \/ Runs \/ Lose

(* Time passes and the event loops run.                                    *)
TSpec == TInit /\ [][TNext]_timed_vars /\ WF_timed_vars(Runs)
-----------------------------------------------------------------------------
(* The clock keeps the premise of module IsoTp and of the theorems about   *)
(* it: with round trips below 100 ms N_Bs never expires while an answer is *)
(* on its way, whatever is lost and however the polls of the two nodes     *)
(* fall.  Only N_Cr may expire early (isotp.c:285, 497, 510).              *)
Untimed == INSTANCE IsoTp WITH Faults <- Faults \ {"early_bs"}
KeepsThePremise == Untimed!Spec

(* In a calm behaviour neither timer expires on the client's transfers and *)
(* no number is wrong: the client gives up only what cannot fit, the       *)
(* server nothing.  Of the server's transfers it is not so: its answer to  *)
(* a flow-control frame waits for its next poll and may come after N_Cr.   *)
Calm == calm /\ sender = "client"
CalmGivesUpNothing ==
  [][Calm =>
      /\ send_status = "INPROGRESS" /\ send_status' = "ERROR" => ~Fits(send_size)
      /\ receive_status = "INPROGRESS" /\ receive_status' = "IDLE"
           => Len(delivered') = Len(delivered) + 1]_timed_vars

(* In a calm behaviour every message of the client that is accepted and    *)
(* fits is handed over.                                                    *)
CalmDelivers ==
  \A m \in 1..MaxMsgs :
    (Calm /\ Len(sent) >= m /\ Fits(sent[m]))
      ~> \E i \in 1..Len(delivered) : IsMessage(delivered[i], m)
=============================================================================
