------------------------- MODULE ServerProcessProofs -------------------------
(***************************************************************************)
(* What is proved of the server as a process that is killed and restarted  *)
(* and keeps a log: the order and the addressees of the answers survive    *)
(* the kills, although client numbers start again, and the log tells what  *)
(* was answered, in order.                                                 *)
(***************************************************************************)
EXTENDS ServerProcess, UdsProofs

(* The CAN tester never leaves its channel; so what is on the bus when the *)
(* process ends still has its reader.                                      *)
OnCan == \A t \in CanTesters : connection[t] = CAN

CoreInv == OrderInv /\ OnCan

LEMMA ProcessIs == ProcessAndLog => ProcessUdsRequest /\ kills' = kills
BY DEF ProcessAndLog, ProcessUdsRequest, Log

LEMMA OnCanStep ==
  ASSUME OnCan, SessionInv, [Next]_vars PROVE OnCan'
<1>1. CAN # None /\ CAN \notin ClientIds
  BY ClientIdsFacts DEF Channels, CAN, None
<1>2. connection \in [Testers -> Channels \union {None}] /\ CanTesters \subseteq Testers
  BY ServerAssumption DEF SessionInv, TypeOK
<1>3. ASSUME NEW t \in Testers, Connect(t) \/ Leave(t) PROVE OnCan'
  BY <1>1, <1>2, <1>3 DEF Connect, Leave, OnCan
<1>4. CASE UNCHANGED connection
  BY <1>4 DEF OnCan
<1> QED
  BY <1>3, <1>4, ProcessKeeps
  DEF Next, Server, vars, tester_vars, onClientDisconnected, Arrive, SendRequest,
      Receive, SendTcpResponse, SendCanResponse

LEMMA KillSession ==
  ASSUME CoreInv, Kill PROVE SessionInv'
<1>1. m_session' \in SessionState /\ SessionNeedsAuth'
  BY DEF Kill, NewSession, SessionState, SessionNeedsAuth, Sessions
<1>2. /\ m_nextClientId' \in FirstClientId..(FirstClientId + MaxConnections)
      /\ m_clientMap' \subseteq FirstClientId..(m_nextClientId' - 1)
  BY ServerAssumption DEF Kill, FirstClientId
<1>3. /\ connection' \in [Testers -> Channels \union {None}]
      /\ asked' \in [Testers -> 0..MaxRequests]
      /\ last_seed' \in [Testers -> Nat]
  BY DEF Kill, Channels, CoreInv, OrderInv, AnswerInv, SessionInv, TypeOK
<1>4. /\ to_server' \in [Channels -> Seq([req : RequestType, tag : Tag])]
      /\ to_tester' \in [Channels ->
           Seq([raw : RawType, response : ResponseType, tag : Tag])]
  <2>1. \A S : <<>> \in Seq(S)
    OBVIOUS
  <2>2. to_tester \in [Channels ->
          Seq([raw : RawType, response : ResponseType, tag : Tag])]
    BY DEF CoreInv, OrderInv, AnswerInv, SessionInv, TypeOK
  <2> QED BY <2>1, <2>2 DEF Kill
<1>5. /\ uds_queue' \in Seq(Events)
      /\ answer_queue' \in Seq(Answers) /\ can_answers' \in Seq(Answers)
  BY DEF Kill
<1> QED BY <1>1, <1>2, <1>3, <1>4, <1>5 DEF SessionInv, TypeOK

(* Only the CAN tester stays, and only what is on the bus towards it.      *)
LEMMA KillCore ==
  ASSUME CoreInv, Kill PROVE CoreInv'
<1>1. SessionInv'
  BY KillSession
<1>2. \A t \in Testers : connection'[t] = IF t \in CanTesters THEN CAN ELSE None
  BY DEF Kill
<1>3. CAN # None /\ CAN \notin ClientIds /\ None \notin ClientIds /\ None \notin Channels
  BY ClientIdsFacts DEF Channels, CAN, None
<1>4. CanTesters \subseteq Testers /\ \A t, u \in CanTesters : t = u
  BY ServerAssumption
<1>5. ChannelsApart'
  BY <1>2, <1>3, <1>4 DEF ChannelsApart, Connected
<1>6. OnCan'
  BY <1>2, <1>4 DEF OnCan
<1>7. /\ \A c \in Channels : to_server'[c] = <<>>
      /\ \A c \in Channels : to_tester'[c] = IF c = CAN THEN to_tester[CAN] ELSE <<>>
      /\ uds_queue' = <<>> /\ answer_queue' = <<>> /\ can_answers' = <<>>
      /\ asked' = asked
  BY DEF Kill
<1>8. CAN \in Channels
  BY DEF Channels
<1>9. Tagged'
  <2>1. \A i \in 1..Len(to_tester[CAN]) :
          /\ to_tester[CAN][i].tag.channel = CAN
          /\ \A t \in Testers : connection'[t] = CAN => to_tester[CAN][i].tag.tester = t
    BY <1>2, <1>3, <1>4, <1>8
    DEF CoreInv, OrderInv, AnswerInv, Tagged, Mine, OnCan
  <2> QED BY <1>7, <2>1 DEF Tagged, Mine
<1>10. OverTcp' /\ NoneAhead'
  BY <1>7, <1>8 DEF CoreInv, OrderInv, NoneAhead, NotAhead, OverTcp
<1>11. \A c \in Channels : Line(c)'
  <2>1. Rising(to_tester[CAN], CAN)
    BY <1>8 DEF CoreInv, OrderInv, Line, InLine
  <2>2. \A c \in Channels : InLine(to_tester'[c], <<>>, <<>>, <<>>, c)
    BY <1>7, <2>1, EmptyInLine DEF InLine
  <2> QED BY <1>7, <2>2 DEF Line, AnswersOf
<1> QED BY <1>1, <1>5, <1>6, <1>9, <1>10, <1>11 DEF CoreInv, OrderInv, AnswerInv

LEMMA RestartCore ==
  ASSUME CoreInv, Restart PROVE CoreInv'
<1>1. /\ to_server' = [to_server EXCEPT ![CAN] = <<>>]
      /\ UNCHANGED <<m_session, m_nextClientId, m_clientMap, connection, asked,
                     last_seed, to_tester, uds_queue, answer_queue, can_answers>>
  BY DEF Restart, tester_vars
<1>2. \A c \in Channels : to_server'[c] \in {to_server[c], <<>>}
  BY <1>1, LineFacts DEF CoreInv
<1>3. SessionInv'
  <2>1. to_server' \in [Channels -> Seq(ToServer)]
    <3>1. \A S : <<>> \in Seq(S)
      OBVIOUS
    <3> QED BY <1>1, <3>1, LineFacts DEF CoreInv
  <2> QED BY <1>1, <2>1
          DEF CoreInv, OrderInv, AnswerInv, SessionInv, TypeOK, SessionNeedsAuth,
              ToServer
<1>4. m_nextClientId \in Int
  BY ServerAssumption
  DEF CoreInv, OrderInv, AnswerInv, SessionInv, TypeOK, FirstClientId
<1>5. ChannelsApart' /\ Tagged'
  BY <1>1, <1>2, <1>4, TaggedStays
  DEF CoreInv, OrderInv, AnswerInv, ChannelsApart, Connected
<1>6. OverTcp' /\ NoneAhead' /\ \A c \in Channels : Line(c)'
  BY <1>1, <1>2, LinesStay DEF CoreInv
<1> QED BY <1>1, <1>3, <1>5, <1>6 DEF CoreInv, OrderInv, AnswerInv, OnCan

LEMMA NextOrKill ==
  ASSUME [PNext]_process_vars PROVE [Next]_vars \/ Kill \/ Restart
<1>1. CASE TesterStep
  BY <1>1 DEF TesterStep, Next
<1>2. CASE Relay
  BY <1>2 DEF Relay, Next, Server
<1>3. CASE \/ \E t \in Testers : ConnectAndLog(t)
           \/ \E c \in ClientIds : DisconnectAndLog(c)
           \/ ProcessAndLog
  BY <1>3, ProcessIs DEF ConnectAndLog, DisconnectAndLog, Next, Server
<1>4. CASE onFlushTimer \/ flushLogQueue
  BY <1>4 DEF onFlushTimer, flushLogQueue
<1>5. CASE UNCHANGED process_vars
  BY <1>5 DEF process_vars
<1> QED BY <1>1, <1>2, <1>3, <1>4, <1>5 DEF PNext

LEMMA InitCore == PInit => CoreInv
<1>1. Init => OnCan
  BY ServerAssumption DEF Init, OnCan
<1> QED BY <1>1, InitOrder DEF PInit, CoreInv

LEMMA CoreStep == CoreInv /\ [PNext]_process_vars => CoreInv'
<1> SUFFICES ASSUME CoreInv, [PNext]_process_vars PROVE CoreInv'
  OBVIOUS
<1>1. ASSUME [Next]_vars PROVE CoreInv'
  BY <1>1, NextOrder, OnCanStep DEF CoreInv, OrderInv, AnswerInv
<1> QED BY <1>1, KillCore, RestartCore, NextOrKill

(* After a restart the client numbers begin again at 1001, and still no    *)
(* answer reaches a connection that did not ask for it: what bore the old  *)
(* number has gone with the process.                                       *)
THEOREM AnswersGoHomeAcrossKills == PSpec => []OwnAnswers
<1>1. CoreInv => OwnAnswers
  BY TaggedAnswers DEF CoreInv, OrderInv
<1> QED BY InitCore, CoreStep, <1>1, PTL DEF PSpec

(* The requests of a tester are counted through the ends of the server:    *)
(* what is on its way stays in their order, and an answer lost with the    *)
(* process leaves no other in its place.                                   *)
THEOREM AnswersInOrderAcrossKills == PSpec => []InRequestOrder
<1>1. CoreInv => InRequestOrder
  BY OrderedPipeline DEF CoreInv
<1> QED BY InitCore, CoreStep, <1>1, PTL DEF PSpec

(* A new process begins unauthenticated in the default session, and no     *)
(* kill leaves the one without the other.                                  *)
THEOREM SessionAuthenticatedAcrossKills == PSpec => []SessionNeedsAuth
<1>1. CoreInv => SessionNeedsAuth
  BY DEF CoreInv, OrderInv, AnswerInv, SessionInv
<1> QED BY InitCore, CoreStep, <1>1, PTL DEF PSpec
-----------------------------------------------------------------------------
(* The log holds what was answered                                         *)

LogEntry ==
  [kind : {"uds"}, tag : Tag]
    \union [kind : {"connected", "disconnected"}, channel : Channels, life : Nat]

LogTypes ==
  /\ m_logQueue \in Seq(LogEntry) /\ rows \in Seq(LogEntry)
  /\ kills \in Nat

InLog(entry) == IsIn(entry, rows) \/ IsIn(entry, m_logQueue) \/ entry \in failed

OnRecord(q) ==
  \A i \in 1..Len(q) :
    LogsTransaction(RequestSid(q[i].response)) => InLog(Transaction(q[i].tag))

AllOnRecord ==
  /\ OnRecord(answer_queue)
  /\ \A c \in ClientIds : OnRecord(to_tester[c])

LogInv == CoreInv /\ LogTypes /\ AllOnRecord

LEMMA IsInAppend ==
  ASSUME NEW S, NEW q \in Seq(S), NEW e \in S
  PROVE  IsIn(e, Append(q, e)) /\ \A x : IsIn(x, q) => IsIn(x, Append(q, e))
<1>1. /\ Len(Append(q, e)) \in 1..Len(Append(q, e))
      /\ Append(q, e)[Len(Append(q, e))] = e
      /\ \A i \in 1..Len(q) : i \in 1..Len(Append(q, e)) /\ Append(q, e)[i] = q[i]
  OBVIOUS
<1> QED BY <1>1 DEF IsIn

LEMMA IsInTail ==
  ASSUME NEW S, NEW q \in Seq(S), q # <<>>
  PROVE  \A x : IsIn(x, q) => x = Head(q) \/ IsIn(x, Tail(q))
<1>1. ASSUME NEW i \in 1..Len(q)
      PROVE  q[i] = Head(q) \/ (i - 1 \in 1..Len(Tail(q)) /\ Tail(q)[i - 1] = q[i])
  OBVIOUS
<1> QED BY <1>1 DEF IsIn

(* Every service answers with its own number: a negative response carries  *)
(* it as sub-function, a positive one above the mask.                      *)
LEMMA ResponseSid ==
  ASSUME NEW s \in SessionState, NEW req \in RequestType, NEW seed
  PROVE  RequestSid(processRequest(s, req, seed).response) = req.sid
<1>1. \A t, nrc : RequestSid(Refuse(t, req, nrc).response) = req.sid
  BY DEF RequestSid, Refuse, Outcome, makeNegativeResponse, NEGATIVE_RESPONSE
<1>2. ASSUME req.sid # 63
      PROVE  \A t, payload : RequestSid(Outcome(t, Positive(req, payload)).response)
                               = req.sid
  BY <1>2 DEF RequestSid, Outcome, Positive, NEGATIVE_RESPONSE,
              POSITIVE_RESPONSE_MASK, RequestType
<1>3. ASSUME req.sid # 63
      PROVE  \A t, payload :
               RequestSid(Outcome(t, Positive([req EXCEPT !.sub = 0], payload)).response)
                 = req.sid
  BY <1>3 DEF RequestSid, Outcome, Positive, NEGATIVE_RESPONSE,
              POSITIVE_RESPONSE_MASK, RequestType
<1>4. CASE req.sid = 63
  BY <1>1, <1>4
  DEF processRequest, DIAGNOSTIC_SESSION_CONTROL, READ_DATA_BY_IDENTIFIER,
      TESTER_PRESENT, SECURITY_ACCESS, ECU_RESET
<1>5. CASE req.sid # 63
  <2>1. RequestSid(handleDiagnosticSessionControl(s, req).response) = req.sid
    BY <1>1, <1>2, <1>5 DEF handleDiagnosticSessionControl
  <2>2. RequestSid(handleReadDataByIdentifier(s, req).response) = req.sid
    BY <1>1, <1>3, <1>5 DEF handleReadDataByIdentifier
  <2>3. RequestSid(handleSecurityAccess(s, req, seed).response) = req.sid
    BY <1>1, <1>2, <1>5 DEF handleSecurityAccess
  <2>4. /\ RequestSid(handleTesterPresent(s, req).response) = req.sid
        /\ RequestSid(handleECUReset(s, req).response) = req.sid
    BY <1>1, <1>2, <1>5 DEF handleTesterPresent, handleECUReset
  <2> QED BY <1>1, <2>1, <2>2, <2>3, <2>4 DEF processRequest
<1> QED BY <1>4, <1>5

LEMMA LogEntries ==
  ASSUME kills \in Nat
  PROVE  /\ \A tag \in Tag : Transaction(tag) \in LogEntry
         /\ \A c \in Channels : \A what \in {"connected", "disconnected"} :
              ClientEvent(what, c) \in LogEntry
  BY DEF Transaction, ClientEvent, LogEntry

(* Nothing but a kill takes an entry out of the log.                       *)
LEMMA LogGrows ==
  ASSUME LogInv, [PNext]_process_vars, ~Kill
  PROVE  /\ LogTypes'
         /\ \A entry : InLog(entry) => InLog(entry)'
<1>1. m_logQueue \in Seq(LogEntry) /\ rows \in Seq(LogEntry) /\ kills \in Nat
  BY DEF LogInv, LogTypes
<1>2. ASSUME NEW wanted, NEW entry \in LogEntry, Log(wanted, entry)
      PROVE  LogTypes' /\ \A x : InLog(x) => InLog(x)'
  <2>1. m_logQueue' \in {m_logQueue, Append(m_logQueue, entry)}
    BY <1>2 DEF Log, enqueueEntry
  <2>2. m_logQueue' \in Seq(LogEntry)
    BY <1>1, <2>1, QueueTypes
  <2>3. \A x : IsIn(x, m_logQueue) => IsIn(x, m_logQueue')
    BY <1>1, <2>1, IsInAppend
  <2>4. rows' = rows /\ failed' = failed /\ kills' = kills
    BY <1>2 DEF Log
  <2> QED BY <1>1, <2>2, <2>3, <2>4 DEF LogTypes, InLog, IsIn
<1>3. ASSUME NEW t \in Testers, ConnectAndLog(t)
      PROVE  LogTypes' /\ \A x : InLog(x) => InLog(x)'
  <2>1. m_nextClientId \in Channels
    BY <1>3 DEF ConnectAndLog, Connect, Channels
  <2> QED BY <1>1, <1>2, <1>3, <2>1, LogEntries DEF ConnectAndLog
<1>4. ASSUME NEW c \in ClientIds, DisconnectAndLog(c)
      PROVE  LogTypes' /\ \A x : InLog(x) => InLog(x)'
  <2>1. c \in Channels
    BY <1>4 DEF Channels
  <2> QED BY <1>1, <1>2, <1>4, <2>1, LogEntries DEF DisconnectAndLog
<1>5. ASSUME ProcessAndLog
      PROVE  LogTypes' /\ \A x : InLog(x) => InLog(x)'
  <2>1. Head(uds_queue) \in Events
    BY <1>5, QueueTypes, LineFacts
    DEF ProcessAndLog, LogInv, CoreInv
  <2>2. Transaction(Head(uds_queue).tag) \in LogEntry
    BY <1>1, <2>1, LogEntries DEF Events
  <2> QED BY <1>2, <1>5, <2>2 DEF ProcessAndLog
<1>6. ASSUME flushLogQueue
      PROVE  LogTypes' /\ \A x : InLog(x) => InLog(x)'
  <2>1. CASE m_logQueue # <<>>
    <3>1. Head(m_logQueue) \in LogEntry /\ Tail(m_logQueue) \in Seq(LogEntry)
      BY <1>1, <2>1, QueueTypes
    <3>2. /\ m_logQueue' = Tail(m_logQueue) /\ kills' = kills
          /\ \/ rows' = Append(rows, Head(m_logQueue)) /\ failed' = failed
             \/ rows' = rows /\ failed' = failed \union {Head(m_logQueue)}
      BY <1>6, <2>1 DEF flushLogQueue, InsertHead, Dequeue
    <3>3. LogTypes'
      BY <1>1, <3>1, <3>2, QueueTypes DEF LogTypes
    <3>4. \A x : IsIn(x, m_logQueue) => x = Head(m_logQueue) \/ IsIn(x, m_logQueue')
      BY <1>1, <2>1, <3>2, IsInTail
    <3>5. \/ failed' = failed /\ IsIn(Head(m_logQueue), rows')
             /\ \A x : IsIn(x, rows) => IsIn(x, rows')
          \/ rows' = rows /\ failed' = failed \union {Head(m_logQueue)}
      BY <1>1, <3>1, <3>2, IsInAppend
    <3>6. \A x : InLog(x) => IsIn(x, rows') \/ IsIn(x, m_logQueue') \/ x \in failed'
      BY <3>4, <3>5 DEF InLog
    <3> QED BY <3>3, <3>6 DEF InLog, IsIn
  <2>2. CASE m_logQueue = <<>>
    BY <1>1, <1>6, <2>2 DEF flushLogQueue, LogTypes, InLog, IsIn
  <2> QED BY <2>1, <2>2
<1>7. ASSUME UNCHANGED <<m_logQueue, rows, failed, kills>>
      PROVE  LogTypes' /\ \A x : InLog(x) => InLog(x)'
  BY <1>1, <1>7 DEF LogTypes, InLog, IsIn
<1>8. CASE TesterStep \/ Restart \/ Relay \/ onFlushTimer \/ UNCHANGED process_vars
  BY <1>7, <1>8 DEF TesterStep, Restart, Relay, onFlushTimer, process_vars, log_vars
<1> QED BY <1>3, <1>4, <1>5, <1>6, <1>8 DEF PNext

(* An answer and its place in a queue: what is on record stays so while    *)
(* the queue is read, and while answers on record are added.               *)
Recorded(e) == LogsTransaction(RequestSid(e.response)) => InLog(Transaction(e.tag))

LEMMA OnRecordQueue ==
  ASSUME NEW S, NEW q \in Seq(S), OnRecord(q)
  PROVE  /\ q # <<>> => OnRecord(Tail(q)) /\ Recorded(Head(q))
         /\ \A e \in S : Recorded(e) => OnRecord(Append(q, e))
<1>1. ASSUME q # <<>> PROVE OnRecord(Tail(q)) /\ Recorded(Head(q))
  BY <1>1, TailElements DEF OnRecord, Recorded
<1>2. ASSUME NEW e \in S, Recorded(e) PROVE OnRecord(Append(q, e))
  BY <1>2, AppendElements DEF OnRecord, Recorded
<1> QED BY <1>1, <1>2

(* Before the log changes: which answers the queues hold after the step.   *)
LEMMA AnswersMove ==
  ASSUME LogInv, [PNext]_process_vars, ~Kill, ~ProcessAndLog
  PROVE  /\ OnRecord(answer_queue')
         /\ \A c \in ClientIds : OnRecord(to_tester'[c])
<1>1. /\ OnRecord(answer_queue) /\ \A c \in ClientIds : OnRecord(to_tester[c])
      /\ OnRecord(<<>>)
  BY DEF LogInv, AllOnRecord, OnRecord
<1>2. /\ answer_queue \in Seq(Answers)
      /\ to_tester \in [Channels -> Seq(ToTester)]
      /\ ClientIds \subseteq Channels /\ CAN \notin ClientIds
  BY LineFacts, ClientIdsFacts DEF LogInv, CoreInv, Channels
<1>3. ASSUME NEW c \in Channels, NEW answer, Transmit(c, answer),
             Recorded(answer) \/ c = CAN
      PROVE  \A d \in ClientIds : OnRecord(to_tester'[d])
  <2> DEFINE m == [raw |-> serializeUDSMessage(answer.response),
                   response |-> answer.response, tag |-> answer.tag]
  <2>1. \/ to_tester' = to_tester
        \/ to_tester' = [to_tester EXCEPT ![c] = Append(to_tester[c], m)]
    BY <1>3 DEF Transmit
  <2>2. Recorded(m) \/ c = CAN
    BY <1>3 DEF Recorded
  <2> HIDE DEF m
  <2>3. to_tester[c] \in Seq(ToTester \union {m}) /\ m \in ToTester \union {m}
    BY <1>2
  <2>4. c # CAN => OnRecord(Append(to_tester[c], m))
    BY <1>1, <2>2, <2>3, OnRecordQueue DEF Channels
  <2> QED BY <1>1, <1>2, <2>1, <2>4
<1>4. CASE SendTcpResponse
  <2> DEFINE answer == Head(answer_queue)
  <2>1. /\ answer_queue # <<>> /\ answer_queue' = Tail(answer_queue)
        /\ Transmit(answer.client, answer) \/ to_tester' = to_tester
    BY <1>4 DEF SendTcpResponse
  <2>2. OnRecord(Tail(answer_queue)) /\ Recorded(answer)
    BY <1>1, <1>2, <2>1, OnRecordQueue
  <2>3. answer.client \in Channels
    <3>1. answer \in Answers
      BY <1>2, <2>1, QueueTypes
    <3> HIDE DEF answer
    <3> QED BY <3>1 DEF Answers
  <2> QED BY <1>1, <1>3, <2>1, <2>2, <2>3
<1>5. CASE SendCanResponse
  <2>1. /\ answer_queue' = answer_queue /\ CAN \in Channels
        /\ Transmit(CAN, Head(can_answers)) \/ to_tester' = to_tester
    BY <1>5 DEF SendCanResponse, Channels
  <2> QED BY <1>1, <1>3, <2>1
<1>6. ASSUME NEW t \in Testers, Receive(t)
      PROVE  /\ OnRecord(answer_queue')
             /\ \A c \in ClientIds : OnRecord(to_tester'[c])
  <2> DEFINE c == connection[t]
  <2>1. /\ answer_queue' = answer_queue /\ to_tester[c] # <<>>
        /\ to_tester' = [to_tester EXCEPT ![c] = Tail(to_tester[c])]
    BY <1>6 DEF Receive
  <2> HIDE DEF c
  <2>2. c \in ClientIds => OnRecord(Tail(to_tester[c]))
    BY <1>1, <1>2, <2>1, OnRecordQueue
  <2> QED BY <1>1, <1>2, <2>1, <2>2
<1>7. ASSUME NEW t \in Testers, Leave(t)
      PROVE  /\ OnRecord(answer_queue')
             /\ \A c \in ClientIds : OnRecord(to_tester'[c])
  BY <1>1, <1>2, <1>7 DEF Leave
<1>8. CASE UNCHANGED <<answer_queue, to_tester>>
  BY <1>1, <1>8
<1>9. CASE \/ \E t \in Testers : ConnectAndLog(t)
           \/ \E c \in ClientIds : DisconnectAndLog(c)
           \/ Restart \/ onFlushTimer \/ flushLogQueue \/ UNCHANGED process_vars
  BY <1>8, <1>9
  DEF ConnectAndLog, DisconnectAndLog, Connect, onClientDisconnected, Restart,
      onFlushTimer, flushLogQueue, process_vars, vars, queues
<1>10. CASE TesterStep \/ Relay
  BY <1>4, <1>5, <1>6, <1>7, <1>8, <1>10 DEF TesterStep, Relay, SendRequest, Arrive
<1> QED BY <1>9, <1>10 DEF PNext

(* The worker logs a request before it posts the answer.                   *)
LEMMA ProcessRecorded ==
  ASSUME LogInv, ProcessAndLog
  PROVE  /\ UNCHANGED <<to_tester, options>>
         /\ \/ answer_queue' = answer_queue
            \/ \E a : /\ a.tag = Head(uds_queue).tag
                      /\ answer_queue' \in {answer_queue, Append(answer_queue, a)}
                      /\ LogsTransaction(RequestSid(a.response)) =>
                           IsIn(Transaction(a.tag), m_logQueue')
<1> DEFINE event == Head(uds_queue)
<1>1. PICK out \in processUdsRequest(m_session, event.req) :
        /\ PostAnswer(event.client,
             [client |-> event.client, response |-> out.response, tag |-> event.tag])
        /\ Log(IsAnswer(out.response) /\ LogsTransaction(event.req.sid),
               Transaction(event.tag))
        /\ UNCHANGED to_tester
  BY DEF ProcessAndLog, Finish
<1> DEFINE a == [client |-> event.client, response |-> out.response, tag |-> event.tag]
<1>12. ~IsAnswer(out.response) => answer_queue' = answer_queue
  BY <1>1 DEF PostAnswer
<1>2. answer_queue' \in {answer_queue, Append(answer_queue, a)}
  BY <1>1 DEF PostAnswer
<1>3. event \in Events
  BY QueueTypes, LineFacts DEF ProcessAndLog, LogInv, CoreInv
<1>4. event.req \in RequestType /\ event.tag \in Tag
  BY <1>3 DEF Events
<1>5. m_session \in SessionState
  BY DEF LogInv, CoreInv, OrderInv, AnswerInv, SessionInv, TypeOK
<1>6. IsAnswer(out.response) => RequestSid(a.response) = event.req.sid
  BY <1>4, <1>5, ResponseSid, WorkerOutcome DEF IsAnswer, NoMessage
<1>7. IsAnswer(out.response) /\ LogsTransaction(event.req.sid)
        => m_logQueue' = Append(m_logQueue, Transaction(event.tag))
  BY <1>1 DEF Log, enqueueEntry
<1>8. m_logQueue \in Seq(LogEntry) /\ Transaction(event.tag) \in LogEntry
  BY <1>4, LogEntries DEF LogInv, LogTypes
<1>9. IsAnswer(out.response) /\ LogsTransaction(event.req.sid)
        => IsIn(Transaction(event.tag), m_logQueue')
  BY <1>7, <1>8, IsInAppend
<1>10. UNCHANGED <<to_tester, options>>
  BY <1>1 DEF Log
<1>11. a.tag = event.tag
  OBVIOUS
<1> HIDE DEF a
<1> QED BY <1>2, <1>6, <1>9, <1>10, <1>11, <1>12

LEMMA RecordStep ==
  ASSUME LogInv, [PNext]_process_vars PROVE LogTypes' /\ AllOnRecord'
<1>1. CASE Kill
  <2>1. /\ answer_queue' = <<>> /\ m_logQueue' = <<>> /\ rows' = rows
        /\ kills' = kills + 1
        /\ \A c \in Channels : c # CAN => to_tester'[c] = <<>>
    BY <1>1 DEF Kill
  <2>2. ClientIds \subseteq Channels /\ CAN \notin ClientIds
    BY ClientIdsFacts DEF Channels
  <2>3. LogTypes'
    BY <2>1 DEF LogInv, LogTypes
  <2> QED BY <2>1, <2>2, <2>3 DEF AllOnRecord, OnRecord
<1>2. CASE ~Kill
  <2>1. LogTypes' /\ \A entry : InLog(entry) => InLog(entry)'
    BY <1>2, LogGrows
  <2>2. options' = options
    BY <1>2
    DEF PNext, process_vars, TesterStep, Restart, ConnectAndLog, DisconnectAndLog,
        ProcessAndLog, Log, Relay, onFlushTimer, flushLogQueue
  <2> DEFINE Later(e) == LogsTransaction(RequestSid(e.response)) =>
               \/ IsIn(Transaction(e.tag), rows')
               \/ IsIn(Transaction(e.tag), m_logQueue')
               \/ Transaction(e.tag) \in failed'
             AllLater(q) == \A i \in 1..Len(q) : Later(q[i])
  <2>3. \A q : OnRecord(q) => AllLater(q)
    BY <2>1 DEF OnRecord, InLog, IsIn
  <2> HIDE DEF Later
  <2>4. AllLater(answer_queue') /\ \A c \in ClientIds : AllLater(to_tester'[c])
    <3>1. CASE ~ProcessAndLog
      BY <1>2, <2>3, <3>1, AnswersMove
    <3>2. CASE ProcessAndLog
      <4>1. /\ to_tester' = to_tester
            /\ AllLater(answer_queue) /\ \A c \in ClientIds : AllLater(to_tester[c])
        BY <3>2, <2>3, ProcessRecorded DEF LogInv, AllOnRecord
      <4>2. CASE answer_queue' = answer_queue
        BY <4>1, <4>2
      <4>3. CASE answer_queue' # answer_queue
        <5>1. PICK a : /\ answer_queue' \in {answer_queue, Append(answer_queue, a)}
                       /\ LogsTransaction(RequestSid(a.response)) =>
                            IsIn(Transaction(a.tag), m_logQueue')
          BY <3>2, <4>3, ProcessRecorded
        <5>2. Later(a)
          BY <5>1 DEF Later
        <5>3. answer_queue \in Seq(Answers \union {a}) /\ a \in Answers \union {a}
          BY LineFacts DEF LogInv, CoreInv
        <5>4. AllLater(Append(answer_queue, a))
          BY <4>1, <5>2, <5>3, AppendElements
        <5> QED BY <4>1, <5>1, <5>4
      <4> QED BY <4>2, <4>3
    <3> QED BY <3>1, <3>2
  <2> QED BY <2>1, <2>2, <2>4
          DEF AllOnRecord, OnRecord, LogsTransaction, Later, InLog, Transaction, IsIn
<1> QED BY <1>1, <1>2

(* What is answered over TCP is on record before the tester can see it,    *)
(* whatever kills, failed inserts and flushes come between.                *)
THEOREM AnswersAreLogged == PSpec => []AnswersLogged
<1>1. PInit => LogInv
  <2> SUFFICES ASSUME PInit PROVE LogInv
    OBVIOUS
  <2>1. LogTypes /\ AllOnRecord
    BY ClientIdsFacts DEF PInit, Init, LogTypes, AllOnRecord, OnRecord, Channels
  <2> QED BY <2>1, InitCore DEF LogInv
<1>2. LogInv /\ [PNext]_process_vars => LogInv'
  BY CoreStep, RecordStep DEF LogInv
<1>3. LogInv => AnswersLogged
  <2> SUFFICES ASSUME LogInv,
                      NEW q \in {answer_queue} \union {to_tester[c] : c \in ClientIds},
                      NEW i \in 1..Len(q),
                      LogsTransaction(RequestSid(q[i].response))
               PROVE  \/ IsIn(Transaction(q[i].tag), Logged)
                      \/ Transaction(q[i].tag) \in failed
    BY DEF AnswersLogged
  <2>1. InLog(Transaction(q[i].tag))
    BY DEF LogInv, AllOnRecord, OnRecord
  <2>2. rows \in Seq(LogEntry) /\ m_logQueue \in Seq(LogEntry)
    BY DEF LogInv, LogTypes
  <2>3. \A x : IsIn(x, rows) \/ IsIn(x, m_logQueue) => IsIn(x, Logged)
    <3>1. \A j \in 1..Len(rows) : j \in 1..Len(Logged) /\ Logged[j] = rows[j]
      BY <2>2 DEF Logged
    <3>2. \A j \in 1..Len(m_logQueue) :
            Len(rows) + j \in 1..Len(Logged) /\ Logged[Len(rows) + j] = m_logQueue[j]
      BY <2>2 DEF Logged
    <3> QED BY <3>1, <3>2 DEF IsIn
  <2> QED BY <2>1, <2>3 DEF InLog
<1> QED BY <1>1, <1>2, <1>3, PTL DEF PSpec
-----------------------------------------------------------------------------
(* The log tells a true story                                              *)

Fine(a, b) == a # b /\ ~WrongOrder(a, b)

InOrder(q) == \A i, j \in 1..Len(q) : i < j => Fine(q[i], q[j])

Across(p, q) == \A i \in 1..Len(p) : \A j \in 1..Len(q) : Fine(p[i], q[j])

(* A logged request comes before the same tester's requests that are still *)
(* to be logged; a logged connection has a number already given out, and   *)
(* a logged end one that is no longer open.                                *)
Before(e, tag) ==
  e.tag.tester = tag.tester /\ e.tag.channel = tag.channel => e.tag.n < tag.n

KnownRequest(e) ==
  /\ e.tag.n <= asked[e.tag.tester]
  /\ \A j \in 1..Len(uds_queue) : Before(e, uds_queue[j].tag)
  /\ \A c \in Channels : \A j \in 1..Len(to_server[c]) :
       Before(e, to_server[c][j].tag)

KnownClient(e) ==
  /\ e.life <= kills
  /\ e.life = kills => e.channel < m_nextClientId
  /\ e.life = kills /\ e.kind = "disconnected" => e.channel \notin m_clientMap

Known(e) ==
  IF e.kind = "uds" THEN KnownRequest(e) ELSE KnownClient(e)

AllKnown(q) == \A i \in 1..Len(q) : Known(q[i])

Story ==
  /\ InOrder(rows) /\ InOrder(m_logQueue) /\ Across(rows, m_logQueue)
  /\ AllKnown(rows) /\ AllKnown(m_logQueue)

StoryInv == LogInv /\ Story

LEMMA EntryTypes ==
  /\ \A e \in LogEntry : e.kind = "uds" =>
       /\ e.tag.tester \in Testers /\ e.tag.channel \in Channels /\ e.tag.n \in Int
  /\ \A e \in LogEntry : e.kind # "uds" =>
       /\ e.kind \in {"connected", "disconnected"}
       /\ e.channel \in Channels /\ e.channel \in Int /\ e.life \in Nat
<1>1. Channels \subseteq Int
  BY ClientIdsFacts DEF Channels, CAN
<1>2. ASSUME NEW e \in LogEntry, e.kind = "uds"
      PROVE  /\ e.tag.tester \in Testers /\ e.tag.channel \in Channels
             /\ e.tag.n \in Int
  BY <1>2 DEF LogEntry, Tag
<1>3. ASSUME NEW e \in LogEntry, e.kind # "uds"
      PROVE  /\ e.kind \in {"connected", "disconnected"}
             /\ e.channel \in Channels /\ e.life \in Nat
  BY <1>3 DEF LogEntry
<1> QED BY <1>1, <1>2, <1>3

LEMMA StoryTypes ==
  ASSUME LogInv
  PROVE  /\ m_logQueue \in Seq(LogEntry) /\ rows \in Seq(LogEntry)
         /\ kills \in Nat /\ m_nextClientId \in Int
         /\ asked \in [Testers -> Int]
         /\ to_server \in [Channels -> Seq(ToServer)]
         /\ uds_queue \in Seq(Events)
         /\ m_clientMap \subseteq Int
         /\ \A c \in m_clientMap : c < m_nextClientId
<1>1. m_logQueue \in Seq(LogEntry) /\ rows \in Seq(LogEntry) /\ kills \in Nat
  BY DEF LogInv, LogTypes
<1>2. to_server \in [Channels -> Seq(ToServer)] /\ uds_queue \in Seq(Events)
  BY LineFacts DEF LogInv, CoreInv
<1>3. asked \in [Testers -> Int]
  BY DEF LogInv, CoreInv, OrderInv, AnswerInv, SessionInv, TypeOK
<1>4. /\ m_nextClientId \in Int /\ m_clientMap \subseteq Int
      /\ \A c \in m_clientMap : c < m_nextClientId
  <2>1. /\ m_nextClientId \in FirstClientId..(FirstClientId + MaxConnections)
        /\ m_clientMap \subseteq FirstClientId..(m_nextClientId - 1)
    BY DEF LogInv, CoreInv, OrderInv, AnswerInv, SessionInv, TypeOK
  <2> QED BY <2>1, ServerAssumption DEF FirstClientId
<1> QED BY <1>1, <1>2, <1>3, <1>4

(* What is known of a logged entry stays known through every step.         *)
LEMMA ConnectKnown ==
  ASSUME LogInv, NEW e \in LogEntry, Known(e), NEW t \in Testers, Connect(t),
         kills' = kills
  PROVE  Known(e)'
<1>1. CASE e.kind = "uds"
  BY <1>1 DEF Known, KnownRequest, Before, Connect, queues
<1>2. CASE e.kind # "uds"
  <2>1. /\ m_nextClientId' = m_nextClientId + 1
        /\ m_clientMap' = m_clientMap \union {m_nextClientId}
    BY DEF Connect
  <2> QED BY <1>2, <2>1, EntryTypes, StoryTypes DEF Known, KnownClient
<1> QED BY <1>1, <1>2

LEMMA DisconnectKnown ==
  ASSUME LogInv, NEW e \in LogEntry, Known(e), NEW d \in ClientIds,
         onClientDisconnected(d), kills' = kills
  PROVE  Known(e)'
<1>1. /\ \A c \in Channels : to_server'[c] \in {to_server[c], <<>>}
      /\ m_clientMap' \subseteq m_clientMap
      /\ UNCHANGED <<asked, uds_queue, m_nextClientId>>
  BY StoryTypes DEF onClientDisconnected, tester_vars
<1>2. CASE e.kind = "uds"
  BY <1>1, <1>2 DEF Known, KnownRequest, Before
<1>3. CASE e.kind # "uds"
  BY <1>1, <1>3 DEF Known, KnownClient
<1> QED BY <1>2, <1>3

LEMMA SendRequestKnown ==
  ASSUME LogInv, NEW e \in LogEntry, Known(e), NEW t \in Testers, SendRequest(t),
         kills' = kills
  PROVE  Known(e)'
<1>1. CASE e.kind # "uds"
  BY <1>1 DEF SendRequest, Known, KnownClient
<1>2. CASE e.kind = "uds"
  <2>1. PICK req : Ask(t, req)
    BY DEF SendRequest
  <2> DEFINE c == connection[t]
             m == [req |-> req, tag |-> [tester |-> t, channel |-> c,
                                         n |-> asked[t] + 1]]
  <2>2. c \in Channels
    BY DEF LogInv, CoreInv, OrderInv, AnswerInv, SessionInv, TypeOK, SendRequest,
           Ask, Connected
  <2>3. /\ to_server' = [to_server EXCEPT ![c] = Append(to_server[c], m)]
        /\ asked' = [asked EXCEPT ![t] = asked[t] + 1]
        /\ uds_queue' = uds_queue
    BY <2>1, <2>2, StoryTypes DEF Ask, SendRequest
  <2>4. m.tag.tester = t /\ m.tag.n = asked[t] + 1
    OBVIOUS
  <2> HIDE DEF m, c
  <2>5. e.tag.n <= asked[e.tag.tester] /\ e.tag.tester \in Testers /\ e.tag.n \in Int
    BY <1>2, EntryTypes DEF Known, KnownRequest
  <2> DEFINE u == e.tag.tester  n == e.tag.n
  <2>6. u \in Testers /\ n \in Int /\ n <= asked[u] /\ asked \in [Testers -> Int]
    BY <2>5, StoryTypes
  <2> HIDE DEF u, n
  <2>7. n <= asked'[u]
    BY <2>3, <2>6
  <2>8. Before(e, m.tag)
    <3>1. u = t => n < asked[t] + 1
      BY <2>6
    <3> QED BY <2>4, <3>1 DEF Before, u, n
  <2>9. \A j \in 1..Len(Append(to_server[c], m)) :
          Before(e, Append(to_server[c], m)[j].tag)
    <3>1. to_server[c] \in Seq(ToServer \union {m}) /\ m \in ToServer \union {m}
      BY <2>2, StoryTypes
    <3>2. \A j \in 1..Len(to_server[c]) : Before(e, to_server[c][j].tag)
      BY <1>2, <2>2 DEF Known, KnownRequest
    <3> QED BY <2>8, <3>1, <3>2, AppendElements
  <2>10. \A d \in Channels : \A j \in 1..Len(to_server'[d]) :
           Before(e, to_server'[d][j].tag)
    <3>1. to_server'[c] = Append(to_server[c], m)
      BY <2>2, <2>3, StoryTypes
    <3>2. \A d \in Channels : d # c => to_server'[d] = to_server[d]
      BY <2>3, StoryTypes
    <3> QED BY <1>2, <2>9, <3>1, <3>2 DEF Known, KnownRequest
  <2> QED BY <1>2, <2>3, <2>7, <2>10 DEF Known, KnownRequest, Before, u, n
<1> QED BY <1>1, <1>2

LEMMA ArriveKnown ==
  ASSUME LogInv, NEW e \in LogEntry, Known(e), NEW c \in Channels, Arrive(c),
         kills' = kills
  PROVE  Known(e)'
<1>1. CASE e.kind # "uds"
  BY <1>1 DEF Arrive, Known, KnownClient
<1>2. CASE e.kind = "uds"
  <2> DEFINE m == [client |-> c, req |-> Head(to_server[c]).req,
                   tag |-> Head(to_server[c]).tag]
  <2>1. /\ to_server[c] # <<>> /\ asked' = asked
        /\ to_server' = [to_server EXCEPT ![c] = Tail(to_server[c])]
        /\ uds_queue' = Append(uds_queue, m)
    BY DEF Arrive, tester_vars
  <2>2. m.tag = Head(to_server[c]).tag
    OBVIOUS
  <2> HIDE DEF m
  <2>3. /\ to_server[c] \in Seq(ToServer)
        /\ \A j \in 1..Len(to_server[c]) : Before(e, to_server[c][j].tag)
        /\ \A j \in 1..Len(uds_queue) : Before(e, uds_queue[j].tag)
    BY <1>2, StoryTypes DEF Known, KnownRequest
  <2>4. /\ Before(e, m.tag)
        /\ \A j \in 1..Len(Tail(to_server[c])) : Before(e, Tail(to_server[c])[j].tag)
    BY <2>1, <2>2, <2>3, TailElements
  <2>5. \A j \in 1..Len(uds_queue') : Before(e, uds_queue'[j].tag)
    <3>1. uds_queue \in Seq(Events \union {m}) /\ m \in Events \union {m}
      BY StoryTypes
    <3> QED BY <2>1, <2>3, <2>4, <3>1, AppendElements
  <2>6. \A d \in Channels : \A j \in 1..Len(to_server'[d]) :
          Before(e, to_server'[d][j].tag)
    <3>1. /\ to_server'[c] = Tail(to_server[c])
          /\ \A d \in Channels : d # c => to_server'[d] = to_server[d]
      BY <2>1, StoryTypes
    <3> QED BY <1>2, <2>4, <3>1 DEF Known, KnownRequest
  <2> QED BY <1>2, <2>1, <2>5, <2>6 DEF Known, KnownRequest, Before
<1> QED BY <1>1, <1>2

LEMMA ProcessKnown ==
  ASSUME LogInv, NEW e \in LogEntry, Known(e), ProcessUdsRequest, kills' = kills
  PROVE  Known(e)'
<1>1. /\ uds_queue # <<>> /\ uds_queue' = Tail(uds_queue)
      /\ UNCHANGED <<asked, to_server, m_nextClientId, m_clientMap>>
  BY ProcessKeeps
<1>2. CASE e.kind # "uds"
  BY <1>1, <1>2 DEF Known, KnownClient
<1>3. CASE e.kind = "uds"
  <2>1. \A j \in 1..Len(uds_queue') : Before(e, uds_queue'[j].tag)
    BY <1>1, <1>3, TailElements, StoryTypes DEF Known, KnownRequest
  <2> QED BY <1>1, <1>3, <2>1 DEF Known, KnownRequest, Before
<1> QED BY <1>2, <1>3

LEMMA KillKnown ==
  ASSUME LogInv, NEW e \in LogEntry, Known(e), Kill
  PROVE  Known(e)'
<1>1. /\ uds_queue' = <<>> /\ asked' = asked /\ kills' = kills + 1
      /\ \A c \in Channels : to_server'[c] = <<>>
  BY DEF Kill
<1>2. CASE e.kind = "uds"
  BY <1>1, <1>2 DEF Known, KnownRequest
<1>3. CASE e.kind # "uds"
  BY <1>1, <1>3, EntryTypes, StoryTypes DEF Known, KnownClient
<1> QED BY <1>2, <1>3

LEMMA QueuesStayKnown ==
  ASSUME NEW e, Known(e),
         \A c \in Channels : to_server'[c] \in {to_server[c], <<>>},
         UNCHANGED <<asked, uds_queue, m_nextClientId, m_clientMap, kills>>
  PROVE  Known(e)'
<1>1. CASE e.kind = "uds"
  BY <1>1 DEF Known, KnownRequest, Before
<1>2. CASE e.kind # "uds"
  BY <1>2 DEF Known, KnownClient
<1> QED BY <1>1, <1>2

LEMMA KnownStays ==
  ASSUME LogInv, [PNext]_process_vars, NEW e \in LogEntry, Known(e)
  PROVE  Known(e)'
<1>1. CASE \/ \E t \in Testers : ConnectAndLog(t)
           \/ \E c \in ClientIds : DisconnectAndLog(c)
           \/ ProcessAndLog \/ Kill
  BY <1>1, ConnectKnown, DisconnectKnown, ProcessKnown, KillKnown, ProcessIs
  DEF ConnectAndLog, DisconnectAndLog, Log
<1>2. CASE \/ \E t \in Testers : SendRequest(t) /\ kills' = kills
           \/ \E c \in Channels : Arrive(c) /\ kills' = kills
  BY <1>2, SendRequestKnown, ArriveKnown
<1>3. CASE Restart
  <2>1. \A c \in Channels : to_server'[c] \in {to_server[c], <<>>}
    BY <1>3, StoryTypes DEF Restart
  <2> QED BY <1>3, <2>1, QueuesStayKnown DEF Restart, tester_vars
<1>4. CASE UNCHANGED <<to_server, asked, uds_queue, m_nextClientId, m_clientMap, kills>>
  BY <1>4, QueuesStayKnown
<1>5. CASE TesterStep \/ Relay
  BY <1>2, <1>4, <1>5
  DEF TesterStep, Relay, Leave, Receive, SendTcpResponse, SendCanResponse,
      tester_vars
<1>6. CASE onFlushTimer \/ flushLogQueue \/ UNCHANGED process_vars
  BY <1>4, <1>6
  DEF onFlushTimer, flushLogQueue, process_vars, vars, tester_vars, queues
<1> QED BY <1>1, <1>3, <1>5, <1>6 DEF PNext

(* Sequences of log entries                                                *)
LEMMA StoryAppend ==
  ASSUME NEW q \in Seq(LogEntry), NEW x \in LogEntry
  PROVE  /\ InOrder(q) /\ (\A i \in 1..Len(q) : Fine(q[i], x)) => InOrder(Append(q, x))
         /\ \A p : Across(p, q) /\ (\A i \in 1..Len(p) : Fine(p[i], x))
                     => Across(p, Append(q, x))
         /\ \A s : Across(q, s) /\ (\A i \in 1..Len(s) : Fine(x, s[i]))
                     => Across(Append(q, x), s)
<1>1. ASSUME InOrder(q), \A i \in 1..Len(q) : Fine(q[i], x)
      PROVE  InOrder(Append(q, x))
  BY <1>1, AppendElements DEF InOrder
<1>2. ASSUME NEW p, Across(p, q), \A i \in 1..Len(p) : Fine(p[i], x)
      PROVE  Across(p, Append(q, x))
  BY <1>2, AppendElements DEF Across
<1>3. ASSUME NEW s, Across(q, s), \A i \in 1..Len(s) : Fine(x, s[i])
      PROVE  Across(Append(q, x), s)
  BY <1>3, AppendElements DEF Across
<1> QED BY <1>1, <1>2, <1>3

LEMMA StoryTail ==
  ASSUME NEW q \in Seq(LogEntry), q # <<>>
  PROVE  /\ InOrder(q) => /\ InOrder(Tail(q))
                          /\ \A i \in 1..Len(Tail(q)) : Fine(Head(q), Tail(q)[i])
         /\ \A p : Across(p, q) => /\ Across(p, Tail(q))
                                   /\ \A i \in 1..Len(p) : Fine(p[i], Head(q))
<1>1. ASSUME InOrder(q)
      PROVE  /\ InOrder(Tail(q))
             /\ \A i \in 1..Len(Tail(q)) : Fine(Head(q), Tail(q)[i])
  BY <1>1, TailElements DEF InOrder
<1>2. ASSUME NEW p, Across(p, q)
      PROVE  Across(p, Tail(q)) /\ \A i \in 1..Len(p) : Fine(p[i], Head(q))
  BY <1>2, TailElements DEF Across
<1> QED BY <1>1, <1>2

(* The entry a step adds fits behind every logged one, and what is known   *)
(* of logged entries is true of it after the step.                         *)
Fits(x) == \A e \in LogEntry : Known(e) => Fine(e, x)

LEMMA LogStory ==
  ASSUME StoryInv, [PNext]_process_vars, NEW wanted, NEW x \in LogEntry,
         Log(wanted, x), Fits(x), Known(x)'
  PROVE  Story'
<1>1. /\ m_logQueue' \in {m_logQueue, Append(m_logQueue, x)} /\ rows' = rows
  BY DEF Log, enqueueEntry
<1>2. m_logQueue \in Seq(LogEntry) /\ rows \in Seq(LogEntry)
  BY StoryTypes DEF StoryInv
<1>3. /\ \A i \in 1..Len(m_logQueue) : m_logQueue[i] \in LogEntry /\ Known(m_logQueue[i])
      /\ \A i \in 1..Len(rows) : rows[i] \in LogEntry /\ Known(rows[i])
  BY <1>2 DEF StoryInv, Story, AllKnown
<1>4. InOrder(m_logQueue') /\ Across(rows, m_logQueue') /\ InOrder(rows)
  BY <1>1, <1>2, <1>3, StoryAppend DEF StoryInv, Story, Fits
<1>5. \A e \in LogEntry : Known(e) => Known(e)'
  BY KnownStays DEF StoryInv
<1> DEFINE K == {e \in LogEntry : Known(e)'}
<1>6. \A i \in 1..Len(rows) : rows[i] \in K
  BY <1>3, <1>5
<1>7. \A i \in 1..Len(m_logQueue') : m_logQueue'[i] \in K
  <2>1. x \in K /\ \A i \in 1..Len(m_logQueue) : m_logQueue[i] \in K
    BY <1>3, <1>5
  <2> HIDE DEF K
  <2> QED BY <1>1, <1>2, <2>1, AppendElements, SMTT(30)
<1>8. AllKnown(rows)' /\ AllKnown(m_logQueue)'
  BY <1>1, <1>6, <1>7 DEF AllKnown, Known, KnownRequest, KnownClient, Before
<1> QED BY <1>1, <1>4, <1>8 DEF Story, InOrder, Across, Fine, WrongOrder

LEMMA ConnectStory ==
  ASSUME StoryInv, [PNext]_process_vars, NEW t \in Testers, ConnectAndLog(t)
  PROVE  Story'
<1> DEFINE c == m_nextClientId
<1>1. PICK x : x = ClientEvent("connected", c)
  OBVIOUS
<1>2. /\ x.kind = "connected" /\ x.channel = c /\ x.life = kills
  BY <1>1 DEF ClientEvent
<1>3. c \in Channels /\ c \in Int /\ kills \in Nat
  BY StoryTypes DEF StoryInv, ConnectAndLog, Connect, Channels
<1>4. x \in LogEntry
  BY <1>1, <1>3, LogEntries
<1>5. Fits(x)
  <2> SUFFICES ASSUME NEW e \in LogEntry, Known(e) PROVE Fine(e, x)
    BY DEF Fits
  <2>1. e.kind # "uds" /\ e.life = kills => e.channel < c
    BY DEF Known, KnownClient
  <2> QED BY <1>2, <1>3, <2>1, EntryTypes DEF Fine, WrongOrder
<1>6. Known(x)'
  <2>1. m_nextClientId' = c + 1 /\ kills' = kills
    BY DEF ConnectAndLog, Connect, Log
  <2> QED BY <1>2, <1>3, <2>1 DEF Known, KnownClient
<1>7. Log(LogsEvents, x)
  BY <1>1 DEF ConnectAndLog
<1> QED BY <1>4, <1>5, <1>6, <1>7, LogStory

LEMMA DisconnectStory ==
  ASSUME StoryInv, [PNext]_process_vars, NEW c \in ClientIds, DisconnectAndLog(c)
  PROVE  Story'
<1>1. PICK x : x = ClientEvent("disconnected", c)
  OBVIOUS
<1>2. /\ x.kind = "disconnected" /\ x.channel = c /\ x.life = kills
  BY <1>1 DEF ClientEvent
<1>3. c \in Channels /\ c \in Int /\ kills \in Nat /\ m_nextClientId \in Int
  BY StoryTypes, ClientIdsFacts DEF StoryInv, Channels
<1>4. x \in LogEntry
  BY <1>1, <1>3, LogEntries
<1>5. c \in m_clientMap /\ c < m_nextClientId
  BY StoryTypes DEF StoryInv, DisconnectAndLog, onClientDisconnected
<1>6. Fits(x)
  <2> SUFFICES ASSUME NEW e \in LogEntry, Known(e) PROVE Fine(e, x)
    BY DEF Fits
  <2>1. e.kind = "disconnected" /\ e.life = kills => e.channel \notin m_clientMap
    BY DEF Known, KnownClient
  <2> QED BY <1>2, <1>5, <2>1 DEF Fine, WrongOrder
<1>7. Known(x)'
  <2>1. /\ m_nextClientId' = m_nextClientId /\ kills' = kills
        /\ m_clientMap' = m_clientMap \ {c}
    BY DEF DisconnectAndLog, onClientDisconnected, Log
  <2> QED BY <1>2, <1>3, <1>5, <2>1 DEF Known, KnownClient
<1>8. Log(LogsEvents, x)
  BY <1>1 DEF DisconnectAndLog
<1> QED BY <1>4, <1>6, <1>7, <1>8, LogStory

(* The request at the head of the UDS queue is behind every logged one and *)
(* before the others of its channel.                                       *)
LEMMA ProcessStory ==
  ASSUME StoryInv, [PNext]_process_vars, ProcessAndLog
  PROVE  Story'
<1> DEFINE event == Head(uds_queue)
<1>1. PICK tag : tag = event.tag
  OBVIOUS
<1>2. PICK x : x = Transaction(tag)
  OBVIOUS
<1>3. x.kind = "uds" /\ x.tag = tag
  BY <1>2 DEF Transaction
<1>4. /\ uds_queue # <<>> /\ uds_queue' = Tail(uds_queue)
      /\ UNCHANGED <<asked, to_server>>
  BY ProcessIs, ProcessKeeps
<1>5. OrderInv
  BY DEF StoryInv, LogInv, CoreInv
<1>6. uds_queue \in Seq(Events)
  BY <1>5, LineFacts
<1>7. event = uds_queue[1] /\ 1 \in 1..Len(uds_queue) /\ uds_queue[1] \in Events
  BY <1>4, <1>6, TailElements
<1>8. tag \in Tag /\ tag = uds_queue[1].tag
  BY <1>1, <1>7 DEF Events
<1>9. x \in LogEntry
  BY <1>2, <1>8, LogEntries, StoryTypes DEF StoryInv
<1>10. tag.channel \in Channels /\ tag.n \in Int
  BY <1>8 DEF Tag
<1>11. Fits(x)
  <2> SUFFICES ASSUME NEW e \in LogEntry, Known(e) PROVE Fine(e, x)
    BY DEF Fits
  <2>1. e.kind = "uds" => Before(e, tag)
    BY <1>7, <1>8 DEF Known, KnownRequest
  <2>2. e.kind = "uds" => e.tag.n \in Int
    BY EntryTypes
  <2> QED BY <1>3, <1>10, <2>1, <2>2 DEF Fine, WrongOrder, Before
<1>12. InLine(to_tester[tag.channel], AnswersOf(tag.channel), uds_queue,
              to_server[tag.channel], tag.channel)
  BY <1>5, <1>10 DEF OrderInv, Line
<1>13. \A j \in 1..Len(uds_queue') : Before(x, uds_queue'[j].tag)
  <2>1. Below(tag, Tail(uds_queue), tag.channel)
    BY <1>1, <1>4, <1>6, <1>12, TailInLine DEF InLine
  <2> QED BY <1>3, <1>4, <2>1 DEF Below, Before
<1>14. \A c \in Channels : \A j \in 1..Len(to_server[c]) :
         Before(x, to_server[c][j].tag)
  <2>1. Below(tag, to_server[tag.channel], tag.channel)
    BY <1>1, <1>4, <1>6, <1>12, TailInLine DEF InLine
  <2>2. \A c \in Channels : \A j \in 1..Len(to_server[c]) :
          to_server[c][j].tag.channel = c
    BY <1>5, LineFacts
  <2> QED BY <1>3, <2>1, <2>2 DEF Below, Before
<1>15. tag.n <= asked[tag.tester]
  BY <1>5, <1>7, <1>8 DEF OrderInv, NoneAhead, NotAhead
<1>16. Known(x)'
  BY <1>3, <1>4, <1>13, <1>14, <1>15 DEF Known, KnownRequest, Before
<1>17. \E wanted : Log(wanted, x)
  BY <1>1, <1>2 DEF ProcessAndLog
<1> QED BY <1>9, <1>11, <1>16, <1>17, LogStory

LEMMA StayStory ==
  ASSUME StoryInv, [PNext]_process_vars, rows' = rows,
         m_logQueue' \in {m_logQueue, <<>>}
  PROVE  Story'
<1>1. m_logQueue \in Seq(LogEntry) /\ rows \in Seq(LogEntry)
  BY StoryTypes DEF StoryInv
<1>2. \A e \in LogEntry : Known(e) => Known(e)'
  BY KnownStays DEF StoryInv
<1> DEFINE K == {e \in LogEntry : Known(e)'}
<1>3. \A i \in 1..Len(rows) : rows[i] \in K
  BY <1>1, <1>2 DEF StoryInv, Story, AllKnown
<1>4. \A i \in 1..Len(m_logQueue') : m_logQueue'[i] \in K
  BY <1>1, <1>2 DEF StoryInv, Story, AllKnown
<1>5. AllKnown(rows)' /\ AllKnown(m_logQueue)'
  BY <1>3, <1>4 DEF AllKnown, Known, KnownRequest, KnownClient, Before
<1>6. InOrder(m_logQueue') /\ Across(rows, m_logQueue') /\ InOrder(rows)
  BY DEF StoryInv, Story, InOrder, Across
<1> QED BY <1>5, <1>6 DEF Story, InOrder, Across, Fine, WrongOrder

(* The head of the queue goes to the end of the table, or nowhere.         *)
LEMMA FlushStory ==
  ASSUME StoryInv, [PNext]_process_vars, flushLogQueue, m_logQueue # <<>>
  PROVE  Story'
<1>1. m_logQueue \in Seq(LogEntry) /\ rows \in Seq(LogEntry)
  BY StoryTypes DEF StoryInv
<1>2. PICK x : x = Head(m_logQueue)
  OBVIOUS
<1>3. m_logQueue' = Tail(m_logQueue) /\ rows' \in {rows, Append(rows, x)}
  BY <1>2 DEF flushLogQueue, InsertHead, Dequeue
<1>4. x \in LogEntry /\ Tail(m_logQueue) \in Seq(LogEntry)
  BY <1>1, <1>2, QueueTypes
<1>5. /\ InOrder(Tail(m_logQueue)) /\ Across(rows, Tail(m_logQueue))
      /\ \A i \in 1..Len(Tail(m_logQueue)) : Fine(x, Tail(m_logQueue)[i])
      /\ \A i \in 1..Len(rows) : Fine(rows[i], x)
  BY <1>1, <1>2, StoryTail DEF StoryInv, Story
<1>6. InOrder(rows') /\ Across(rows', Tail(m_logQueue))
  BY <1>1, <1>3, <1>4, <1>5, StoryAppend DEF StoryInv, Story
<1>7. \A e \in LogEntry : Known(e) => Known(e)'
  BY KnownStays DEF StoryInv
<1> DEFINE K == {e \in LogEntry : Known(e)'}
<1>8. x \in K /\ \A i \in 1..Len(Tail(m_logQueue)) : Tail(m_logQueue)[i] \in K
  BY <1>1, <1>2, <1>4, <1>7, TailElements DEF StoryInv, Story, AllKnown
<1>9. \A i \in 1..Len(rows) : rows[i] \in K
  BY <1>1, <1>7 DEF StoryInv, Story, AllKnown
<1>10. \A i \in 1..Len(rows') : rows'[i] \in K
  <2> HIDE DEF K
  <2>1. \A i \in 1..Len(Append(rows, x)) : Append(rows, x)[i] \in K
    BY <1>1, <1>4, <1>8, <1>9, AppendElements
  <2> QED BY <1>3, <1>9, <2>1
<1>11. AllKnown(rows)' /\ AllKnown(m_logQueue)'
  BY <1>3, <1>8, <1>10 DEF AllKnown, Known, KnownRequest, KnownClient, Before
<1> QED BY <1>3, <1>5, <1>6, <1>11 DEF Story, InOrder, Across, Fine, WrongOrder

LEMMA StoryStep ==
  ASSUME StoryInv, [PNext]_process_vars PROVE Story'
<1>1. CASE \/ \E t \in Testers : ConnectAndLog(t)
           \/ \E c \in ClientIds : DisconnectAndLog(c)
           \/ ProcessAndLog
  BY <1>1, ConnectStory, DisconnectStory, ProcessStory
<1>2. CASE flushLogQueue
  <2>1. CASE m_logQueue # <<>>
    BY <1>2, <2>1, FlushStory
  <2>2. CASE m_logQueue = <<>>
    BY <1>2, <2>2, StayStory DEF flushLogQueue
  <2> QED BY <2>1, <2>2
<1>3. CASE \/ TesterStep \/ Restart \/ Relay \/ onFlushTimer \/ Kill
           \/ UNCHANGED process_vars
  BY <1>3, StayStory
  DEF TesterStep, Restart, Relay, onFlushTimer, Kill, process_vars, log_vars
<1> QED BY <1>1, <1>2, <1>3 DEF PNext

(* No entry is logged twice, a connection's requests are logged in their   *)
(* order and its end never before its beginning, through any number of     *)
(* kills, restarts and failed inserts, with client numbers that are given  *)
(* out again in every life.                                                *)
THEOREM LogTellsATrueStory == PSpec => []LogInOrder
<1>1. PInit => StoryInv
  <2> SUFFICES ASSUME PInit PROVE StoryInv
    OBVIOUS
  <2>1. LogTypes /\ AllOnRecord
    BY ClientIdsFacts DEF PInit, Init, LogTypes, AllOnRecord, OnRecord, Channels
  <2>2. Story
    BY DEF PInit, Story, InOrder, Across, AllKnown
  <2> QED BY <2>1, <2>2, InitCore DEF StoryInv, LogInv
<1>2. StoryInv /\ [PNext]_process_vars => StoryInv'
  BY CoreStep, RecordStep, StoryStep DEF StoryInv, LogInv
<1>3. StoryInv => LogInOrder
  <2> SUFFICES ASSUME StoryInv, NEW i \in 1..Len(Logged), NEW j \in 1..Len(Logged),
                      i < j
               PROVE  Fine(Logged[i], Logged[j])
    BY DEF LogInOrder, Fine
  <2>1. m_logQueue \in Seq(LogEntry) /\ rows \in Seq(LogEntry)
    BY StoryTypes DEF StoryInv
  <2>2. /\ Len(rows) \in Nat /\ Len(m_logQueue) \in Nat
        /\ \A k \in 1..Len(Logged) :
             \/ k \in 1..Len(rows) /\ Logged[k] = rows[k]
             \/ /\ k - Len(rows) \in 1..Len(m_logQueue)
                /\ Logged[k] = m_logQueue[k - Len(rows)]
        /\ Len(Logged) \in Nat
    BY <2>1 DEF Logged
  <2> DEFINE l == Logged
  <2> HIDE DEF l
  <2>3. Fine(l[i], l[j])
    <3>1. i \in Nat /\ j \in Nat /\ i < j
      BY <2>2
    <3>2. CASE j \in 1..Len(rows)
      BY <2>2, <3>1, <3>2 DEF StoryInv, Story, InOrder, l
    <3>3. CASE j \notin 1..Len(rows)
      <4>1. /\ j - Len(rows) \in 1..Len(m_logQueue)
            /\ l[j] = m_logQueue[j - Len(rows)]
        BY <2>2, <3>3 DEF l
      <4>2. CASE i \in 1..Len(rows) /\ l[i] = rows[i]
        BY <4>1, <4>2 DEF StoryInv, Story, Across
      <4>3. CASE /\ i - Len(rows) \in 1..Len(m_logQueue)
                 /\ l[i] = m_logQueue[i - Len(rows)]
        <5>1. i - Len(rows) < j - Len(rows)
          BY <2>2, <3>1
        <5> QED BY <4>1, <4>3, <5>1 DEF StoryInv, Story, InOrder
      <4> QED BY <2>2, <4>2, <4>3 DEF l
    <3> QED BY <3>2, <3>3
  <2> QED BY <2>3 DEF l
<1> QED BY <1>1, <1>2, <1>3, PTL DEF PSpec
=============================================================================
