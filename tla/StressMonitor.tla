----------------------------- MODULE StressMonitor -----------------------------
(***************************************************************************)
(* The client's stress test (client/stresstestmonitor.cpp) over CanChannel. *)
(* A monitor in its own thread posts requests to the CAN thread from       *)
(* m_sendTimer; the CAN thread posts back a signal for each request it     *)
(* sends and for each answer it hears, those to other requests included;   *)
(* each second the monitor shows the loss in a window of three seconds,    *)
(* and m_pressureTimer raises the frequency.                               *)
(*                                                                         *)
(* Each test has a new monitor; requests and answers of the last one may   *)
(* still be under way.  The rate at which timers fire is not modelled:     *)
(* m_currentFreq is, the intervals are not.  Bus load is left out: it is   *)
(* shown and nothing reads it back.                                        *)
(***************************************************************************)
EXTENDS CanChannel

CONSTANTS
  StartFreq, MaxFreq, StepFreq,  \* the parameters of the dialog
  WindowSize,                    \* SLIDING_WINDOW_SIZE, 3
  MaxTicks,                      \* bound: seconds of all tests
  MaxTests                       \* bound: tests

ASSUME MonitorAssumption ==
  /\ StartFreq \in Nat \ {0} /\ StepFreq \in Nat \ {0}
  /\ MaxFreq \in Nat /\ MaxFreq >= StartFreq
  /\ WindowSize \in Nat \ {0}
  /\ MaxTicks \in Nat /\ MaxTests \in Nat

VARIABLES
  running,           \* m_timer, m_sendTimer and m_stopTimer are active
  pressureTimer,
  m_currentFreq,
  events,            \* signals posted to the monitor
  m_sentRequestCount, m_receivedResponseCount,
  m_lastSentRequests, m_lastReceivedResponses,
  m_sentWindow, m_recvWindow,
  lost,              \* what the last tick showed, in requests
  open,              \* history: requests of tests sent and not answered
  missed,            \* history: answers to them that nobody heard
  ticks, tests

counters == <<m_sentRequestCount, m_receivedResponseCount>>
snapshots == <<m_lastSentRequests, m_lastReceivedResponses>>
windows == <<m_sentWindow, m_recvWindow>>
history == <<open, missed>>
bounds == <<ticks, tests>>
timers == <<running, pressureTimer, m_currentFreq>>
monitor_vars == <<timers, events, counters, snapshots, windows, lost, history,
                  bounds>>
stress_vars == <<channel_vars, monitor_vars>>

MInit ==
  /\ Init
  /\ running = FALSE /\ pressureTimer = FALSE /\ m_currentFreq = StartFreq
  /\ events = <<>>
  /\ m_sentRequestCount = 0 /\ m_receivedResponseCount = 0
  /\ m_lastSentRequests = 0 /\ m_lastReceivedResponses = 0
  /\ m_sentWindow = <<>> /\ m_recvWindow = <<>> /\ lost = 0
  /\ open = 0 /\ missed = 0
  /\ ticks = 0 /\ tests = 0
-----------------------------------------------------------------------------
(* on_stress_btn_clicked and start, with the last test stopped: its        *)
(* monitor goes with the signals posted to it.                             *)
start ==
  /\ tests < MaxTests /\ tests' = tests + 1
  /\ GuiFree /\ device # "none"
  /\ running' = TRUE /\ pressureTimer' = TRUE /\ m_currentFreq' = StartFreq
  /\ events' = <<>>
  /\ m_sentRequestCount' = 0 /\ m_receivedResponseCount' = 0
  /\ m_lastSentRequests' = 0 /\ m_lastReceivedResponses' = 0
  /\ m_sentWindow' = <<>> /\ m_recvWindow' = <<>> /\ lost' = 0
  /\ UNCHANGED <<channel_vars, history, ticks>>

(* onTestFinished, or the window is closed                                 *)
stop ==
  /\ running
  /\ running' = FALSE /\ pressureTimer' = FALSE
  /\ UNCHANGED <<channel_vars, m_currentFreq, events, counters, snapshots,
                 windows, lost, history, bounds>>

(* Mutant: the ramp ends only exactly at the maximum.                      *)
BelowMax_NotEqual == m_currentFreq # MaxFreq

BelowMax == m_currentFreq < MaxFreq

(* Mutant: the step is added to the start, not to the frequency.           *)
Raised_FromStart(freq) == StartFreq + StepFreq

Raised(freq) == freq + StepFreq

onPressureIncreaseTimeout ==
  /\ pressureTimer
  /\ \/ /\ BelowMax
        /\ m_currentFreq' = Raised(m_currentFreq)
        /\ UNCHANGED pressureTimer
     \/ /\ ~BelowMax
        /\ pressureTimer' = FALSE
        /\ UNCHANGED m_currentFreq
  /\ UNCHANGED <<channel_vars, running, events, counters, snapshots, windows,
                 lost, history, bounds>>

onSendFrameTimeout ==
  /\ running
  /\ requests < MaxRequests /\ requests' = requests + 1
  /\ calls' = Append(calls, "stress")
  /\ UNCHANGED <<adapter, device, reconnectTimer, hears, label, bus, inits,
                 faults, monitor_vars>>

(* Can_worker::sendUdsMessage tells the monitor before it sends, and       *)
(* whether or not anything is sent; sendUdsData tells nobody.              *)
SendAndTell ==
  /\ Send
  /\ IF Head(calls) = "stress"
     THEN events' = Append(events, "sent") /\ open' = open + 1
     ELSE UNCHANGED <<events, open>>
  /\ UNCHANGED <<timers, counters, snapshots, windows, lost, missed, bounds>>

(* Can_worker::onUdsMessageReceived                                        *)
AnswerAndTell ==
  /\ Answer
  /\ events' = IF hears THEN Append(events, "answered") ELSE events
  /\ open' = IF Head(bus) = "stress" THEN open - 1 ELSE open
  /\ missed' = IF Head(bus) = "stress" /\ ~hears THEN missed + 1 ELSE missed
  /\ UNCHANGED <<timers, counters, snapshots, windows, lost, bounds>>

(* onRequestSent and onResponseReceived                                    *)
Count ==
  /\ events # <<>>
  /\ events' = Tail(events)
  /\ IF Head(events) = "sent"
     THEN /\ m_sentRequestCount' = m_sentRequestCount + 1
          /\ UNCHANGED m_receivedResponseCount
     ELSE /\ m_receivedResponseCount' = m_receivedResponseCount + 1
          /\ UNCHANGED m_sentRequestCount
  /\ UNCHANGED <<channel_vars, timers, snapshots, windows, lost, history, bounds>>

Sum(s) ==
  LET sum[i \in 0..Len(s)] == IF i = 0 THEN 0 ELSE sum[i - 1] + s[i] IN
  sum[Len(s)]

(* Mutant: the window of answers is a second shorter.                      *)
RecvWindow_Shorter(window) ==
  IF Len(window) >= WindowSize THEN Tail(window) ELSE window

RecvWindow(window) == IF Len(window) > WindowSize THEN Tail(window) ELSE window

onTimerTimeout ==
  /\ running
  /\ ticks < MaxTicks /\ ticks' = ticks + 1
  /\ LET sent == Append(m_sentWindow, m_sentRequestCount - m_lastSentRequests)
         recv == Append(m_recvWindow,
                        m_receivedResponseCount - m_lastReceivedResponses) IN
     /\ m_sentWindow' = IF Len(sent) > WindowSize THEN Tail(sent) ELSE sent
     /\ m_recvWindow' = RecvWindow(recv)
  /\ LET difference == Sum(m_sentWindow') - Sum(m_recvWindow') IN
     lost' = IF difference > 0 THEN difference ELSE 0
  /\ m_lastSentRequests' = m_sentRequestCount
  /\ m_lastReceivedResponses' = m_receivedResponseCount
  /\ UNCHANGED <<channel_vars, timers, events, counters, history, tests>>

MNext ==
  \/ (Manage \/ GuiRequest \/ LoseAnswer) /\ UNCHANGED monitor_vars
  \/ SendAndTell \/ AnswerAndTell
  \/ start \/ stop \/ onPressureIncreaseTimeout \/ onSendFrameTimeout
  \/ Count \/ onTimerTimeout

MSpec == MInit /\ [][MNext]_stress_vars

(* The timers fire while they run, and the user plugs the adapter in.      *)
MFairness ==
  /\ WF_stress_vars(tryReconnect /\ UNCHANGED monitor_vars)
  /\ WF_stress_vars(PlugIn /\ UNCHANGED monitor_vars)
  /\ WF_stress_vars(onPressureIncreaseTimeout)

MFairSpec == MSpec /\ MFairness
-----------------------------------------------------------------------------
(* Types only; the frequency is in its type up to a step above the maximum *)
(* (RunsAtMaximum is what the code says of it).                            *)
StressTypeOK ==
  /\ ChannelTypeOK
  /\ pressureTimer => running
  /\ running \in BOOLEAN
  /\ m_currentFreq \in StartFreq..(MaxFreq + StepFreq - 1)
  /\ events \in Seq({"sent", "answered"})
  /\ counters \in Nat \X Nat /\ snapshots \in Nat \X Nat
  /\ m_sentWindow \in Seq(Nat) /\ m_recvWindow \in Seq(Nat)
  /\ Len(m_sentWindow) = Len(m_recvWindow) /\ Len(m_sentWindow) <= WindowSize
  /\ lost \in Nat /\ open \in Nat /\ missed \in Nat
  /\ ticks \in 0..MaxTicks /\ tests \in 0..MaxTests

(* What bounds the loss that is shown: the requests that have no answer    *)
(* yet, the answers that came while the channel was deaf and those that    *)
(* are posted to the monitor and not counted.  So a request that is        *)
(* answered may be shown as lost while its signal is queued                *)
(* (stresstestmonitor.cpp:116-137 says the window rules out a false loss;  *)
(* it does not), but no more than that.  Answers to other requests and to  *)
(* an earlier test are counted too and can only hide a loss.               *)
Posted == Sum([i \in DOMAIN events |-> IF events[i] = "answered" THEN 1 ELSE 0])
LossAccounted ==
  [][onTimerTimeout => lost' <= open + missed + Posted]_stress_vars

(* The ramp ends, with the maximum reached or passed.                      *)
RampEnds ==
  pressureTimer ~> (~running \/ (~pressureTimer /\ m_currentFreq >= MaxFreq))

(* stresstestmonitor.cpp:197-199 says that the ramp ends at the maximum,   *)
(* the dialog's maximum frequency, and the test goes on at it.             *)
RunsAtMaximum == running /\ ~pressureTimer => m_currentFreq = MaxFreq
=============================================================================
