------------------------------ MODULE UdsProofs ------------------------------
(***************************************************************************)
(* What is proved of the UDS server for any number of testers, requests    *)
(* and connections: its types, that no session but the default one is held *)
(* without authentication, and that the answers reach only the connection  *)
(* that asked, in the order of the requests; the same of the server with   *)
(* its GUI clients (UdsSystem); and, of an only client, that what it       *)
(* believes of its session is so once nothing is under way.                *)
(***************************************************************************)
EXTENDS UdsSystem, TLAPS

(* The services                                                            *)

Authentic(s) == s.currentSession # DEFAULT_SESSION => s.isAuthenticated

LEMMA HalfByte ==
  ASSUME NEW n \in 0..255 PROVE n \div 2 + 1 \in 0..128
  OBVIOUS

(* A negative response is a response, whatever service it is for.          *)
LEMMA RefuseType ==
  ASSUME NEW s \in SessionState, NEW req \in RequestType, NEW nrc \in 0..255
  PROVE  /\ Refuse(s, req, nrc).session = s
         /\ Refuse(s, req, nrc).response \in ResponseType
  BY DEF Refuse, Outcome, makeNegativeResponse, ResponseType, RequestType,
         Nothing, PayloadType, Kinds, NEGATIVE_RESPONSE

LEMMA OutcomeType ==
  ASSUME NEW s \in SessionState, NEW req \in RequestType,
         NEW payload \in PayloadType
  PROVE  /\ Outcome(s, Positive(req, payload)).session = s
         /\ Outcome(s, Positive(req, payload)).response \in ResponseType
  BY DEF Outcome, Positive, ResponseType, RequestType, POSITIVE_RESPONSE_MASK

(* What a service leaves in m_session and answers.                         *)
Sound(s, out) ==
  /\ out.session \in SessionState
  /\ Authentic(s) => Authentic(out.session)
  /\ out.response \in ResponseType

LEMMA SoundRefuse ==
  ASSUME NEW s \in SessionState, NEW req \in RequestType, NEW nrc \in 0..255
  PROVE  Sound(s, Refuse(s, req, nrc))
  BY RefuseType DEF Sound

LEMMA SoundOutcome ==
  ASSUME NEW s \in SessionState, NEW t \in SessionState,
         NEW req \in RequestType, NEW payload \in PayloadType,
         Authentic(s) => Authentic(t)
  PROVE  Sound(s, Outcome(t, Positive(req, payload)))
  BY OutcomeType DEF Sound

LEMMA NothingType == Nothing \in PayloadType
  BY DEF Nothing, PayloadType, Kinds

(* Session control: the default session may always be entered and takes    *)
(* the authentication away, the others need it.                            *)
LEMMA SoundSessionControl ==
  ASSUME NEW s \in SessionState, NEW req \in RequestType
  PROVE  Sound(s, handleDiagnosticSessionControl(s, req))
<1> DEFINE enter == [s EXCEPT !.currentSession = req.sub]
           leave == [s EXCEPT !.currentSession = DEFAULT_SESSION,
                              !.isAuthenticated = FALSE, !.securityLevel = 0]
<1>1. CASE req.sub = DEFAULT_SESSION
  <2>1. leave \in SessionState /\ Authentic(leave)
    <3>1. /\ DEFAULT_SESSION \in Sessions /\ 0 \in 0..128
          /\ FALSE \in BOOLEAN
      BY DEF Sessions
    <3>2. leave \in SessionState
      BY <3>1 DEF SessionState
    <3>3. leave.currentSession = DEFAULT_SESSION
      BY DEF SessionState
    <3> QED BY <3>2, <3>3 DEF Authentic
  <2>2. handleDiagnosticSessionControl(s, req)
          = Outcome(leave, Positive(req, Nothing))
    BY <1>1 DEF handleDiagnosticSessionControl, DEFAULT_SESSION,
                PROGRAMMING_SESSION, EXTENDED_DIAGNOSTIC
  <2> HIDE DEF leave
  <2> QED BY <2>1, <2>2, SoundOutcome, NothingType
<1>2. CASE req.sub \in {PROGRAMMING_SESSION, EXTENDED_DIAGNOSTIC}
  <2>0. req.sub # DEFAULT_SESSION
    BY <1>2 DEF DEFAULT_SESSION, PROGRAMMING_SESSION, EXTENDED_DIAGNOSTIC
  <2>1. CASE s.isAuthenticated
    <3>1. enter \in SessionState /\ Authentic(enter)
      BY <1>2, <2>1 DEF SessionState, Authentic, Sessions
    <3>2. handleDiagnosticSessionControl(s, req)
            = Outcome(enter, Positive(req, Nothing))
      BY <1>2, <2>0, <2>1 DEF handleDiagnosticSessionControl
    <3> HIDE DEF enter
    <3> QED BY <3>1, <3>2, SoundOutcome, NothingType
  <2>2. CASE ~s.isAuthenticated
    <3>1. handleDiagnosticSessionControl(s, req)
            = Refuse(s, req, SECURITY_ACCESS_DENIED)
      BY <1>2, <2>0, <2>2 DEF handleDiagnosticSessionControl
    <3> QED BY <3>1, SoundRefuse DEF SECURITY_ACCESS_DENIED
  <2> QED BY <2>1, <2>2
<1>3. CASE req.sub \notin Sessions
  <2>1. handleDiagnosticSessionControl(s, req)
          = Refuse(s, req, SUB_FUNCTION_NOT_SUPPORTED)
    BY <1>3 DEF handleDiagnosticSessionControl, Sessions
  <2> QED BY <2>1, SoundRefuse DEF SUB_FUNCTION_NOT_SUPPORTED
<1> QED BY <1>1, <1>2, <1>3 DEF Sessions

LEMMA SoundRead ==
  ASSUME NEW s \in SessionState, NEW req \in RequestType
  PROVE  Sound(s, handleReadDataByIdentifier(s, req))
<1>1. CASE req.payload.kind \notin DidClass
  <2>1. handleReadDataByIdentifier(s, req)
          = Refuse(s, req, INCORRECT_MESSAGE_LENGTH)
    BY <1>1 DEF handleReadDataByIdentifier, DidClass
  <2> QED BY <2>1, SoundRefuse DEF INCORRECT_MESSAGE_LENGTH
<1>2. CASE req.payload.kind \in DidClass /\ req.payload.kind = "unknown"
  BY <1>2, SoundRefuse DEF handleReadDataByIdentifier, REQUEST_OUT_OF_RANGE
<1>3. CASE req.payload.kind = "restricted" /\ ~s.isAuthenticated
  BY <1>3, SoundRefuse
  DEF handleReadDataByIdentifier, DidClass, SECURITY_ACCESS_DENIED
<1>4. CASE /\ req.payload.kind \in DidClass /\ req.payload.kind # "unknown"
           /\ ~(req.payload.kind = "restricted" /\ ~s.isAuthenticated)
  <2>1. handleReadDataByIdentifier(s, req)
          = Outcome(s, Positive([req EXCEPT !.sub = 0], req.payload))
    BY <1>4 DEF handleReadDataByIdentifier
  <2>2. [req EXCEPT !.sub = 0] \in RequestType /\ req.payload \in PayloadType
    BY DEF RequestType
  <2> QED BY <2>1, <2>2, SoundOutcome
<1> QED BY <1>1, <1>2, <1>3, <1>4

LEMMA SoundSecurityAccess ==
  ASSUME NEW s \in SessionState, NEW req \in RequestType, NEW seed \in Nat
  PROVE  Sound(s, handleSecurityAccess(s, req, seed))
<1> DEFINE asked_seed == [s EXCEPT !.seed = seed,
                                   !.securityLevel = req.sub \div 2 + 1]
           granted == [s EXCEPT !.isAuthenticated = TRUE]
<1>1. CASE req.sub % 2 = 1
  <2>1. req.sub \div 2 + 1 \in 0..128
    BY HalfByte DEF RequestType
  <2> DEFINE level == req.sub \div 2 + 1
  <2> HIDE DEF level
  <2>2. /\ [s EXCEPT !.seed = seed, !.securityLevel = level] \in SessionState
        /\ Authentic(s) =>
             Authentic([s EXCEPT !.seed = seed, !.securityLevel = level])
    BY <2>1 DEF SessionState, Authentic, level
  <2>3. asked_seed \in SessionState /\ (Authentic(s) => Authentic(asked_seed))
    BY <2>2 DEF level
  <2>4. handleSecurityAccess(s, req, seed)
          = Outcome(asked_seed, Positive(req, Seed(seed)))
    BY <1>1 DEF handleSecurityAccess
  <2>5. Seed(seed) \in PayloadType
    BY DEF Seed, PayloadType, Kinds
  <2> HIDE DEF asked_seed
  <2> QED BY <2>3, <2>4, <2>5, SoundOutcome
<1>2. CASE req.sub % 2 # 1
  <2>0. req.sub % 2 = 0
    BY <1>2 DEF RequestType
  <2>1. CASE req.payload.kind # "key"
    <3>1. handleSecurityAccess(s, req, seed)
            = Refuse(s, req, INCORRECT_MESSAGE_LENGTH)
      BY <1>2, <2>0, <2>1 DEF handleSecurityAccess, Key
    <3> QED BY <3>1, SoundRefuse DEF INCORRECT_MESSAGE_LENGTH
  <2>2. CASE req.payload.kind = "key" /\ req.payload = Key(s.seed)
    <3>1. granted \in SessionState /\ Authentic(granted)
      BY DEF SessionState, Authentic
    <3>2. handleSecurityAccess(s, req, seed)
            = Outcome(granted, Positive(req, Nothing))
      BY <1>2, <2>0, <2>2 DEF handleSecurityAccess
    <3> HIDE DEF granted
    <3> QED BY <3>1, <3>2, SoundOutcome, NothingType
  <2>3. CASE req.payload.kind = "key" /\ req.payload # Key(s.seed)
    BY <1>2, <2>0, <2>3, SoundRefuse DEF handleSecurityAccess, INVALID_KEY
  <2> QED BY <2>1, <2>2, <2>3
<1> QED BY <1>1, <1>2

(* No service, and no refusal, leaves a session without its authentication.*)
LEMMA ProcessRequestSound ==
  ASSUME NEW s \in SessionState, NEW req \in RequestType, NEW seed \in Nat
  PROVE  Sound(s, processRequest(s, req, seed))
<1>1. Sound(s, Outcome(s, Positive(req, Nothing)))
  BY SoundOutcome, NothingType
<1>2. \A nrc \in 0..255 : Sound(s, Refuse(s, req, nrc))
  BY SoundRefuse
<1>3. Sound(s, handleTesterPresent(s, req))
  BY <1>1, <1>2 DEF handleTesterPresent, SUB_FUNCTION_NOT_SUPPORTED
<1>4. Sound(s, handleECUReset(s, req))
  BY <1>1, <1>2 DEF handleECUReset, SUB_FUNCTION_NOT_SUPPORTED
<1>5. CASE req.sid \in NeedsSession /\ s.currentSession = DEFAULT_SESSION
  BY <1>5, <1>2 DEF processRequest, SUB_FUNCTION_NOT_SUPPORTED_IN_ACTIVE_SESSION
<1>6. CASE ~(req.sid \in NeedsSession /\ s.currentSession = DEFAULT_SESSION)
  <2>1. /\ Sound(s, handleDiagnosticSessionControl(s, req))
        /\ Sound(s, handleReadDataByIdentifier(s, req))
        /\ Sound(s, handleSecurityAccess(s, req, seed))
    BY SoundSessionControl, SoundRead, SoundSecurityAccess
  <2>2. Sound(s, Refuse(s, req, SERVICE_NOT_SUPPORTED))
    BY <1>2 DEF SERVICE_NOT_SUPPORTED
  <2> QED BY <1>3, <1>4, <1>6, <2>1, <2>2 DEF processRequest
<1> QED BY <1>5, <1>6

(* A service always has an answer; no answer's number is 0.                *)
LEMMA ServiceAnswers ==
  ASSUME NEW s, NEW req \in RequestType, NEW seed
  PROVE  IsAnswer(processRequest(s, req, seed).response)
<1>1. \A t, nrc : IsAnswer(Refuse(t, req, nrc).response)
  BY DEF IsAnswer, Refuse, Outcome, makeNegativeResponse, NEGATIVE_RESPONSE
<1>2. \A t, payload : IsAnswer(Outcome(t, Positive(req, payload)).response)
  BY DEF IsAnswer, Outcome, Positive, POSITIVE_RESPONSE_MASK, RequestType
<1>3. \A t, payload :
         IsAnswer(Outcome(t, Positive([req EXCEPT !.sub = 0], payload)).response)
  BY DEF IsAnswer, Outcome, Positive, POSITIVE_RESPONSE_MASK, RequestType
<1>4. IsAnswer(handleDiagnosticSessionControl(s, req).response)
  BY <1>1, <1>2 DEF handleDiagnosticSessionControl
<1>5. IsAnswer(handleReadDataByIdentifier(s, req).response)
  BY <1>1, <1>3 DEF handleReadDataByIdentifier
<1>6. IsAnswer(handleSecurityAccess(s, req, seed).response)
  BY <1>1, <1>2 DEF handleSecurityAccess
<1>7. /\ IsAnswer(handleTesterPresent(s, req).response)
      /\ IsAnswer(handleECUReset(s, req).response)
  BY <1>1, <1>2 DEF handleTesterPresent, handleECUReset
<1> QED BY <1>1, <1>4, <1>5, <1>6, <1>7 DEF processRequest

(* The worker's outcome is that of the service, or an empty answer and a   *)
(* session the service leaves.                                             *)
LEMMA WorkerOutcome ==
  ASSUME NEW s, NEW req, NEW out \in processUdsRequest(s, req)
  PROVE  \/ \E seed \in generateSecuritySeed(s) : out = processRequest(s, req, seed)
         \/ /\ req \in Throwing /\ out.response = NoMessage
            /\ \/ out.session = s
               \/ \E seed \in generateSecuritySeed(s) :
                    out.session = processRequest(s, req, seed).session
<1> DEFINE whole == {processRequest(s, req, seed) : seed \in generateSecuritySeed(s)}
<1>1. \/ out \in whole
      \/ /\ req \in Throwing
         /\ \E t \in {s} \union {o.session : o \in whole} : out = Outcome(t, NoMessage)
  BY DEF processUdsRequest
<1>2. \A t : Outcome(t, NoMessage).session = t /\ Outcome(t, NoMessage).response = NoMessage
  BY DEF Outcome
<1> QED BY <1>1, <1>2

LEMMA WorkerSound ==
  ASSUME NEW s \in SessionState, NEW req \in RequestType,
         NEW out \in processUdsRequest(s, req)
  PROVE  Sound(s, out)
<1>1. \A seed \in generateSecuritySeed(s) : Sound(s, processRequest(s, req, seed))
  <2>1. \A seed \in generateSecuritySeed(s) : seed \in Nat
    BY DEF generateSecuritySeed, SessionState
  <2> QED BY <2>1, ProcessRequestSound
<1>2. NoMessage \in ResponseType
  BY NothingType DEF NoMessage, ResponseType
<1> QED BY <1>1, <1>2, WorkerOutcome DEF Sound

LEMMA ProcessKeeps ==
  ASSUME ProcessUdsRequest
  PROVE  /\ uds_queue # <<>> /\ uds_queue' = Tail(uds_queue)
         /\ UNCHANGED <<m_nextClientId, m_clientMap, connection, asked, last_seed,
                        to_server, to_tester>>
BY DEF ProcessUdsRequest, Finish, tester_vars
-----------------------------------------------------------------------------
(* Types and the session                                                   *)

SessionInv == TypeOK /\ SessionNeedsAuth

LEMMA QueueTypes ==
  ASSUME NEW S, NEW q \in Seq(S)
  PROVE  /\ \A e \in S : Append(q, e) \in Seq(S)
         /\ q # <<>> => Head(q) \in S /\ Tail(q) \in Seq(S)
  OBVIOUS

LEMMA ClientIdsFacts ==
  /\ ClientIds \subseteq Int /\ CAN \notin ClientIds /\ None \notin Channels
  /\ \A c \in ClientIds : c >= FirstClientId
  BY ServerAssumption DEF ClientIds, Channels, CAN, None, FirstClientId

LEMMA InitSession == Init => SessionInv
<1> SUFFICES ASSUME Init PROVE SessionInv
  OBVIOUS
<1>1. m_session \in SessionState /\ SessionNeedsAuth
  BY DEF Init, NewSession, SessionState, SessionNeedsAuth, Sessions
<1>2. m_nextClientId \in FirstClientId..(FirstClientId + MaxConnections)
  BY ServerAssumption DEF Init, FirstClientId
<1>3. /\ connection \in [Testers -> Channels \union {None}]
      /\ asked \in [Testers -> 0..MaxRequests]
      /\ last_seed \in [Testers -> Nat]
  BY ServerAssumption DEF Init, Channels
<1>4. /\ to_server \in [Channels -> Seq([req : RequestType, tag : Tag])]
      /\ to_tester \in [Channels ->
           Seq([raw : RawType, response : ResponseType, tag : Tag])]
  <2>1. \A S : <<>> \in Seq(S)
    OBVIOUS
  <2> QED BY <2>1 DEF Init
<1>5. /\ uds_queue \in Seq(Events)
      /\ answer_queue \in Seq(Answers) /\ can_answers \in Seq(Answers)
  BY DEF Init
<1> QED BY <1>1, <1>2, <1>3, <1>4, <1>5 DEF SessionInv, TypeOK, Init

LEMMA ConnectSession ==
  ASSUME SessionInv, NEW t \in Testers, Connect(t) PROVE SessionInv'
<1>1. /\ m_nextClientId' \in FirstClientId..(FirstClientId + MaxConnections)
      /\ m_clientMap' \subseteq FirstClientId..(m_nextClientId' - 1)
  BY ServerAssumption
  DEF SessionInv, TypeOK, Connect, ClientIds, FirstClientId
<1>2. connection' \in [Testers -> Channels \union {None}]
  BY DEF SessionInv, TypeOK, Connect, Channels
<1> QED BY <1>1, <1>2
        DEF SessionInv, TypeOK, SessionNeedsAuth, Connect, queues

LEMMA LeaveSession ==
  ASSUME SessionInv, NEW t \in Testers, Leave(t) PROVE SessionInv'
<1>1. connection' \in [Testers -> Channels \union {None}]
  BY DEF SessionInv, TypeOK, Leave
<1>2. to_tester' \in [Channels ->
        Seq([raw : RawType, response : ResponseType, tag : Tag])]
  <2>1. \A S : <<>> \in Seq(S)
    OBVIOUS
  <2> QED BY <2>1 DEF SessionInv, TypeOK, Leave
<1> QED BY <1>1, <1>2 DEF SessionInv, TypeOK, SessionNeedsAuth, Leave

LEMMA DisconnectedSession ==
  ASSUME SessionInv, NEW c \in ClientIds, onClientDisconnected(c)
  PROVE  SessionInv'
<1>1. to_server' \in [Channels -> Seq([req : RequestType, tag : Tag])]
  <2>1. \A S : <<>> \in Seq(S)
    OBVIOUS
  <2> QED BY <2>1 DEF SessionInv, TypeOK, onClientDisconnected
<1>2. m_clientMap' \subseteq m_clientMap
  BY DEF onClientDisconnected
<1> QED BY <1>1, <1>2
        DEF SessionInv, TypeOK, SessionNeedsAuth, onClientDisconnected,
            tester_vars

LEMMA AskTypes ==
  ASSUME SessionInv, NEW t \in Testers, NEW req \in RequestType, Ask(t, req)
  PROVE  /\ asked' \in [Testers -> 0..MaxRequests]
         /\ to_server' \in [Channels -> Seq([req : RequestType, tag : Tag])]
<1> DEFINE m == [req |-> req, tag |-> [tester |-> t, channel |-> connection[t],
                                       n |-> asked[t] + 1]]
<1>0. asked[t] \in Nat /\ asked[t] + 1 \in 1..MaxRequests
  BY ServerAssumption DEF SessionInv, TypeOK, Ask
<1>1. connection[t] \in Channels
  BY DEF SessionInv, TypeOK, Ask, Connected
<1>2. m \in [req : RequestType, tag : Tag]
  BY <1>0, <1>1 DEF Tag
<1> HIDE DEF m
<1>3. Append(to_server[connection[t]], m) \in Seq([req : RequestType, tag : Tag])
  BY <1>1, <1>2, QueueTypes DEF SessionInv, TypeOK
<1>4. to_server' = [to_server EXCEPT ![connection[t]] =
                      Append(to_server[connection[t]], m)]
  BY <1>1 DEF Ask, m, SessionInv, TypeOK
<1>5. to_server \in [Channels -> Seq([req : RequestType, tag : Tag])]
  BY DEF SessionInv, TypeOK
<1>6. asked' = [asked EXCEPT ![t] = asked[t] + 1]
  BY DEF Ask
<1>7. asked' \in [Testers -> 0..MaxRequests]
  BY <1>0, <1>6 DEF SessionInv, TypeOK
<1> QED BY <1>3, <1>4, <1>5, <1>7

LEMMA SendRequestSession ==
  ASSUME SessionInv, NEW t \in Testers, SendRequest(t) PROVE SessionInv'
<1>1. PICK req \in Requests \union
             {Request(SECURITY_ACCESS, 2, Key(s)) : s \in {last_seed[t]} \ {0}} :
        Ask(t, req)
  BY DEF SendRequest
<1>2. req \in RequestType
  <2>1. \A s \in Nat : Request(SECURITY_ACCESS, 2, Key(s)) \in RequestType
    BY DEF Request, Key, RequestType, PayloadType, Kinds, SECURITY_ACCESS
  <2>2. last_seed[t] \in Nat
    BY DEF SessionInv, TypeOK
  <2> QED BY <1>1, <2>1, <2>2, ServerAssumption
<1>3. /\ asked' \in [Testers -> 0..MaxRequests]
      /\ to_server' \in [Channels -> Seq([req : RequestType, tag : Tag])]
  BY <1>1, <1>2, AskTypes
<1> QED BY <1>3 DEF SessionInv, TypeOK, SessionNeedsAuth, SendRequest

LEMMA ArriveSession ==
  ASSUME SessionInv, NEW c \in Channels, Arrive(c) PROVE SessionInv'
<1> DEFINE M == [req : RequestType, tag : Tag]
<1>1. /\ to_server \in [Channels -> Seq(M)] /\ to_server[c] \in Seq(M)
      /\ Head(to_server[c]) \in M /\ Tail(to_server[c]) \in Seq(M)
  BY QueueTypes DEF SessionInv, TypeOK, Arrive
<1>2. [client |-> c, req |-> Head(to_server[c]).req,
       tag |-> Head(to_server[c]).tag] \in Events
  BY <1>1 DEF Events
<1>3. uds_queue' \in Seq(Events)
  BY <1>2, QueueTypes DEF SessionInv, TypeOK, Arrive
<1>4. to_server' = [to_server EXCEPT ![c] = Tail(to_server[c])]
  BY DEF Arrive
<1> HIDE DEF M
<1>5. to_server' \in [Channels -> Seq(M)]
  BY <1>1, <1>4
<1> QED BY <1>3, <1>5
        DEF SessionInv, TypeOK, SessionNeedsAuth, Arrive, tester_vars, M

(* The only action that changes m_session.                                 *)
LEMMA ProcessSession ==
  ASSUME SessionInv, ProcessUdsRequest PROVE SessionInv'
<1> DEFINE event == Head(uds_queue)
<1>1. event \in Events /\ uds_queue' \in Seq(Events)
  BY QueueTypes, ProcessKeeps DEF SessionInv, TypeOK
<1>2. PICK out \in processUdsRequest(m_session, event.req) :
        /\ m_session' = out.session
        /\ PostAnswer(event.client,
             [client |-> event.client, response |-> out.response, tag |-> event.tag])
  BY DEF ProcessUdsRequest, Finish
<1>3. m_session \in SessionState /\ Authentic(m_session)
  BY DEF SessionInv, TypeOK, SessionNeedsAuth, Authentic
<1>4. event.req \in RequestType /\ event.client \in Channels /\ event.tag \in Tag
  BY <1>1 DEF Events
<1>6. Sound(m_session, out)
  BY <1>3, <1>4, WorkerSound
<1> HIDE DEF event
<1>7. m_session' \in SessionState /\ SessionNeedsAuth'
  BY <1>2, <1>3, <1>6 DEF Sound, Authentic, SessionNeedsAuth
<1>8. PICK a : a = [client |-> event.client, response |-> out.response,
                    tag |-> event.tag]
  OBVIOUS
<1>9. answer_queue' \in Seq(Answers) /\ can_answers' \in Seq(Answers)
  <2>1. PostAnswer(event.client, a)
    BY <1>2, <1>8
  <2>2. a \in Answers
    BY <1>4, <1>6, <1>8 DEF Sound, Answers
  <2>3. /\ Append(answer_queue, a) \in Seq(Answers)
        /\ Append(can_answers, a) \in Seq(Answers)
    BY <2>2, QueueTypes DEF SessionInv, TypeOK
  <2> QED BY <2>1, <2>3 DEF PostAnswer, SessionInv, TypeOK
<1> QED BY <1>1, <1>7, <1>9, ProcessKeeps DEF SessionInv, TypeOK

LEMMA TransmitTypes ==
  ASSUME SessionInv, NEW c \in Channels, NEW answer \in Answers,
         Transmit(c, answer)
  PROVE  to_tester' \in [Channels ->
           Seq([raw : RawType, response : ResponseType, tag : Tag])]
<1> DEFINE M == [raw : RawType, response : ResponseType, tag : Tag]
           m == [raw |-> serializeUDSMessage(answer.response),
                 response |-> answer.response, tag |-> answer.tag]
<1>1. m \in M
  BY DEF Answers, serializeUDSMessage, RawType, ResponseType
<1>2. to_tester \in [Channels -> Seq(M)] /\ to_tester[c] \in Seq(M)
  BY DEF SessionInv, TypeOK
<1>3. \/ to_tester' = to_tester
      \/ to_tester' = [to_tester EXCEPT ![c] = Append(to_tester[c], m)]
  BY DEF Transmit
<1> HIDE DEF m, M
<1>4. Append(to_tester[c], m) \in Seq(M)
  BY <1>1, <1>2, QueueTypes
<1>5. to_tester' \in [Channels -> Seq(M)]
  BY <1>2, <1>3, <1>4
<1> QED BY <1>5 DEF M

LEMMA SendTcpSession ==
  ASSUME SessionInv, SendTcpResponse PROVE SessionInv'
<1>1. Head(answer_queue) \in Answers /\ answer_queue' \in Seq(Answers)
  BY QueueTypes DEF SessionInv, TypeOK, SendTcpResponse
<1>2. Head(answer_queue).client \in Channels
  BY <1>1 DEF Answers
<1>3. \/ Transmit(Head(answer_queue).client, Head(answer_queue))
      \/ to_tester' = to_tester
  BY DEF SendTcpResponse
<1>4. to_tester' \in [Channels ->
        Seq([raw : RawType, response : ResponseType, tag : Tag])]
  BY <1>1, <1>2, <1>3, TransmitTypes DEF SessionInv, TypeOK
<1> QED BY <1>1, <1>4
        DEF SessionInv, TypeOK, SessionNeedsAuth, SendTcpResponse, tester_vars

LEMMA SendCanSession ==
  ASSUME SessionInv, SendCanResponse PROVE SessionInv'
<1>1. Head(can_answers) \in Answers /\ can_answers' \in Seq(Answers)
  BY QueueTypes DEF SessionInv, TypeOK, SendCanResponse
<1>2. CAN \in Channels
  BY DEF Channels
<1>3. Transmit(CAN, Head(can_answers)) \/ to_tester' = to_tester
  BY DEF SendCanResponse
<1>4. to_tester' \in [Channels ->
        Seq([raw : RawType, response : ResponseType, tag : Tag])]
  BY <1>1, <1>2, <1>3, TransmitTypes DEF SessionInv, TypeOK
<1> QED BY <1>1, <1>4
        DEF SessionInv, TypeOK, SessionNeedsAuth, SendCanResponse, tester_vars

LEMMA ReceiveSession ==
  ASSUME SessionInv, NEW t \in Testers, Receive(t) PROVE SessionInv'
<1> DEFINE M == [raw : RawType, response : ResponseType, tag : Tag]
           c == connection[t]
<1>1. c \in Channels
  BY DEF SessionInv, TypeOK, Receive, Connected
<1>2. to_tester \in [Channels -> Seq(M)] /\ to_tester[c] \in Seq(M)
  BY <1>1 DEF SessionInv, TypeOK
<1>3. Head(to_tester[c]) \in M /\ Tail(to_tester[c]) \in Seq(M)
  BY <1>2, QueueTypes DEF Receive
<1>4. Head(to_tester[c]).raw.payload.value \in Nat
  BY <1>3 DEF RawType, PayloadType
<1>5. last_seed' \in [Testers -> Nat]
  <2> DEFINE v == Head(to_tester[c]).raw.payload.value
  <2>1. last_seed' = last_seed \/ last_seed' = [last_seed EXCEPT ![t] = v]
    BY DEF Receive
  <2>2. last_seed \in [Testers -> Nat] /\ v \in Nat
    BY <1>4 DEF SessionInv, TypeOK
  <2> HIDE DEF v
  <2> QED BY <2>1, <2>2
<1>6. to_tester' = [to_tester EXCEPT ![c] = Tail(to_tester[c])]
  BY DEF Receive
<1> HIDE DEF M, c
<1>7. to_tester' \in [Channels -> Seq(M)]
  BY <1>1, <1>2, <1>3, <1>6
<1> QED BY <1>5, <1>7 DEF SessionInv, TypeOK, SessionNeedsAuth, Receive, M

LEMMA SessionStep ==
  SessionInv /\ [Next]_vars => SessionInv'
<1> SUFFICES ASSUME SessionInv, [Next]_vars PROVE SessionInv'
  OBVIOUS
<1>1. CASE \E t \in Testers : Connect(t) \/ Leave(t) \/ SendRequest(t) \/ Receive(t)
  BY <1>1, ConnectSession, LeaveSession, SendRequestSession, ReceiveSession
<1>2. CASE \E c \in ClientIds : onClientDisconnected(c)
  BY <1>2, DisconnectedSession
<1>3. CASE \E c \in Channels : Arrive(c)
  BY <1>3, ArriveSession
<1>4. CASE ProcessUdsRequest \/ SendTcpResponse \/ SendCanResponse
  BY <1>4, ProcessSession, SendTcpSession, SendCanSession
<1>5. CASE UNCHANGED vars
  BY <1>5 DEF SessionInv, TypeOK, SessionNeedsAuth, vars, tester_vars, queues
<1> QED BY <1>1, <1>2, <1>3, <1>4, <1>5 DEF Next, Server

(* Every queue of the three threads carries what its reader expects, and   *)
(* the session stays within its fields' ranges.                            *)
THEOREM UdsTypeCorrect == Spec => []TypeOK
<1>1. SessionInv => TypeOK
  BY DEF SessionInv
<1> QED BY InitSession, SessionStep, <1>1, PTL DEF Spec

(* With any number of TCP and CAN testers sharing m_session, in any order  *)
(* of requests and disconnections, the server is in the programming or the *)
(* extended session only while it is authenticated.                        *)
THEOREM SessionAuthenticated == Spec => []SessionNeedsAuth
<1>1. SessionInv => SessionNeedsAuth
  BY DEF SessionInv
<1> QED BY InitSession, SessionStep, <1>1, PTL DEF Spec

(* A positive answer to a read needs a session, and a session the          *)
(* authentication; so the refusal of an unauthenticated read is never made.*)
ReadGuarded(s, r) ==
  /\ r.sid = READ_DATA_BY_IDENTIFIER + POSITIVE_RESPONSE_MASK
       => s.isAuthenticated
  /\ ~(r.sub = READ_DATA_BY_IDENTIFIER /\ r.nrc = SECURITY_ACCESS_DENIED)

LEMMA ReadGuardedRefuse ==
  ASSUME NEW s, NEW req, NEW nrc, 
         req.sid # READ_DATA_BY_IDENTIFIER \/ nrc # SECURITY_ACCESS_DENIED
  PROVE  ReadGuarded(s, Refuse(s, req, nrc).response)
  BY DEF ReadGuarded, Refuse, Outcome, makeNegativeResponse, NEGATIVE_RESPONSE,
         READ_DATA_BY_IDENTIFIER, POSITIVE_RESPONSE_MASK

LEMMA ReadGuardedPositive ==
  ASSUME NEW s, NEW t, NEW req \in RequestType, NEW payload,
         req.sid # READ_DATA_BY_IDENTIFIER \/ s.isAuthenticated
  PROVE  ReadGuarded(s, Outcome(t, Positive(req, payload)).response)
  BY DEF ReadGuarded, Outcome, Positive, RequestType, SECURITY_ACCESS_DENIED,
         READ_DATA_BY_IDENTIFIER, POSITIVE_RESPONSE_MASK

LEMMA ProcessRequestGuarded ==
  ASSUME NEW s \in SessionState, Authentic(s), NEW req \in RequestType, NEW seed
  PROVE  ReadGuarded(s, processRequest(s, req, seed).response)
<1> USE DEF READ_DATA_BY_IDENTIFIER
<1>1. CASE req.sid \in NeedsSession /\ s.currentSession = DEFAULT_SESSION
  BY <1>1, ReadGuardedRefuse
  DEF processRequest, SUB_FUNCTION_NOT_SUPPORTED_IN_ACTIVE_SESSION,
      SECURITY_ACCESS_DENIED
<1>2. CASE /\ req.sid = READ_DATA_BY_IDENTIFIER
           /\ s.currentSession # DEFAULT_SESSION
  <2>1. s.isAuthenticated
    BY <1>2 DEF Authentic
  <2>2. processRequest(s, req, seed) = handleReadDataByIdentifier(s, req)
    BY <1>2 DEF processRequest, DIAGNOSTIC_SESSION_CONTROL, TESTER_PRESENT,
                SECURITY_ACCESS, ECU_RESET
  <2>3. [req EXCEPT !.sub = 0] \in RequestType
    BY DEF RequestType
  <2>4. \A t : ReadGuarded(s, Outcome(s, Positive([req EXCEPT !.sub = 0], t)).response)
    BY <2>1, <2>3, ReadGuardedPositive
  <2>5. \A nrc : nrc # SECURITY_ACCESS_DENIED
                   => ReadGuarded(s, Refuse(s, req, nrc).response)
    BY ReadGuardedRefuse
  <2> QED BY <2>1, <2>2, <2>4, <2>5
          DEF handleReadDataByIdentifier, INCORRECT_MESSAGE_LENGTH,
              REQUEST_OUT_OF_RANGE, SECURITY_ACCESS_DENIED
<1>3. CASE /\ req.sid # READ_DATA_BY_IDENTIFIER
           /\ ~(req.sid \in NeedsSession /\ s.currentSession = DEFAULT_SESSION)
  <2>1. \A nrc : ReadGuarded(s, Refuse(s, req, nrc).response)
    BY <1>3, ReadGuardedRefuse
  <2>2. \A t, payload : ReadGuarded(s, Outcome(t, Positive(req, payload)).response)
    BY <1>3, ReadGuardedPositive
  <2>3. ReadGuarded(s, handleDiagnosticSessionControl(s, req).response)
    BY <2>1, <2>2 DEF handleDiagnosticSessionControl
  <2>4. ReadGuarded(s, handleSecurityAccess(s, req, seed).response)
    BY <2>1, <2>2 DEF handleSecurityAccess
  <2>5. /\ ReadGuarded(s, handleTesterPresent(s, req).response)
        /\ ReadGuarded(s, handleECUReset(s, req).response)
    BY <2>1, <2>2 DEF handleTesterPresent, handleECUReset
  <2> QED BY <1>3, <2>1, <2>3, <2>4, <2>5 DEF processRequest
<1> QED BY <1>1, <1>2, <1>3 DEF NeedsSession

LEMMA WorkerGuarded ==
  ASSUME NEW s \in SessionState, Authentic(s), NEW req \in RequestType,
         NEW out \in processUdsRequest(s, req)
  PROVE  ReadGuarded(s, out.response)
<1>1. ReadGuarded(s, NoMessage)
  BY DEF ReadGuarded, NoMessage, READ_DATA_BY_IDENTIFIER, POSITIVE_RESPONSE_MASK
<1> QED BY <1>1, WorkerOutcome, ProcessRequestGuarded

LEMMA ReadsStep ==
  ASSUME SessionInv, ProcessUdsRequest,
         NEW q \in {answer_queue', can_answers'} \ {answer_queue, can_answers}
  PROVE  ReadGuarded(m_session, q[Len(q)].response)
<1> DEFINE event == Head(uds_queue)
<1>1. event \in Events
  BY QueueTypes, ProcessKeeps DEF SessionInv, TypeOK
<1>2. PICK out \in processUdsRequest(m_session, event.req) :
        PostAnswer(event.client,
          [client |-> event.client, response |-> out.response, tag |-> event.tag])
  BY DEF ProcessUdsRequest, Finish
<1> DEFINE a == [client |-> event.client, response |-> out.response,
                 tag |-> event.tag]
<1>3. event.req \in RequestType
  BY <1>1 DEF Events
<1>4. ReadGuarded(m_session, a.response)
  BY <1>3, WorkerGuarded DEF SessionInv, TypeOK, SessionNeedsAuth, Authentic
<1>5. PostAnswer(event.client, a)
  BY <1>2
<1> HIDE DEF a, event
<1>6. q \in {Append(answer_queue, a), Append(can_answers, a)}
  BY <1>5 DEF PostAnswer
<1>7. q[Len(q)] = a
  BY <1>6 DEF SessionInv, TypeOK
<1> QED BY <1>4, <1>7

(* Whoever authenticated and whatever was asked since, a DID is read only  *)
(* in an authenticated session and a read is never refused for want of     *)
(* authentication: uds_handler.cpp:111 is dead code behind line 25.        *)
THEOREM ReadsAreUnlocked == Spec => ReadsUnlocked
<1>1. SessionInv /\ [Next]_vars =>
        [\A q \in {answer_queue', can_answers'} \ {answer_queue, can_answers} :
           (q # <<>> /\ ProcessUdsRequest) =>
              LET r == q[Len(q)].response IN
              /\ r.sid = READ_DATA_BY_IDENTIFIER + POSITIVE_RESPONSE_MASK
                   => m_session.isAuthenticated
              /\ ~(r.sub = READ_DATA_BY_IDENTIFIER /\ r.nrc = SECURITY_ACCESS_DENIED)
        ]_vars
  BY ReadsStep DEF ReadGuarded
<1> QED BY InitSession, SessionStep, <1>1, PTL DEF Spec, ReadsUnlocked
-----------------------------------------------------------------------------
(* Answers and their askers.  A channel's number is never used again, and  *)
(* one tester at a time is on a channel; so whatever carries a channel's   *)
(* number was asked by the tester still on it, if there is one.            *)

Mine(tag, c) ==
  /\ tag.channel = c
  /\ c # CAN => c < m_nextClientId
  /\ \A t \in Testers : connection[t] = c => tag.tester = t

ChannelsApart ==
  /\ \A t \in Testers : connection[t] \in ClientIds => connection[t] < m_nextClientId
  /\ \A t, u \in Testers : connection[t] = connection[u] /\ Connected(t) => t = u

Tagged ==
  /\ \A c \in Channels : \A i \in 1..Len(to_server[c]) : Mine(to_server[c][i].tag, c)
  /\ \A c \in Channels : \A i \in 1..Len(to_tester[c]) : Mine(to_tester[c][i].tag, c)
  /\ \A i \in 1..Len(uds_queue) : Mine(uds_queue[i].tag, uds_queue[i].client)
  /\ \A i \in 1..Len(answer_queue) :
       Mine(answer_queue[i].tag, answer_queue[i].client)
  /\ \A i \in 1..Len(can_answers) : Mine(can_answers[i].tag, CAN)

AnswerInv == SessionInv /\ ChannelsApart /\ Tagged

LEMMA InitAnswers == Init => AnswerInv
<1> SUFFICES ASSUME Init PROVE AnswerInv
  OBVIOUS
<1>1. ChannelsApart
  <2>1. \A t \in Testers : connection[t] = IF t \in CanTesters THEN CAN ELSE None
    BY DEF Init
  <2>2. CAN \notin ClientIds /\ None \notin ClientIds
    BY ClientIdsFacts DEF Channels
  <2>3. \A a, b \in CanTesters : a = b
    BY ServerAssumption
  <2> QED BY <2>1, <2>2, <2>3 DEF ChannelsApart, Connected, CAN, None
<1>2. Tagged
  BY DEF Init, Tagged
<1> QED BY <1>1, <1>2, InitSession DEF AnswerInv

(* A tag stays its channel's while channels are only handed out or left.   *)
LEMMA MineStays ==
  ASSUME SessionInv, NEW tag, NEW c \in Channels, Mine(tag, c),
         m_nextClientId' >= m_nextClientId, m_nextClientId' \in Int,
         \A t \in Testers : connection'[t] = c =>
            connection[t] = c \/ c = m_nextClientId
  PROVE  Mine(tag, c)'
<1>1. m_nextClientId \in Int /\ m_nextClientId >= FirstClientId
  BY ServerAssumption DEF SessionInv, TypeOK, FirstClientId
<1>2. c \in Int
  BY ClientIdsFacts DEF Channels, CAN
<1>3. c # m_nextClientId
  BY <1>1 DEF Mine, CAN, FirstClientId
<1> QED BY <1>1, <1>2, <1>3 DEF Mine

LEMMA QueueFacts ==
  ASSUME SessionInv
  PROVE  /\ \A c \in Channels : /\ to_server[c] \in Seq([req : RequestType, tag : Tag])
                                /\ to_tester[c] \in Seq([raw : RawType,
                                     response : ResponseType, tag : Tag])
         /\ \A i \in 1..Len(uds_queue) : uds_queue[i].client \in Channels
         /\ \A i \in 1..Len(answer_queue) : answer_queue[i].client \in Channels
         /\ CAN \in Channels
<1>1. CAN \in Channels
  BY DEF Channels
<1>2. \A c \in Channels : /\ to_server[c] \in Seq([req : RequestType, tag : Tag])
                          /\ to_tester[c] \in Seq([raw : RawType,
                               response : ResponseType, tag : Tag])
  BY DEF SessionInv, TypeOK
<1>3. \A i \in 1..Len(uds_queue) : uds_queue[i] \in Events
  BY DEF SessionInv, TypeOK
<1>4. \A i \in 1..Len(answer_queue) : answer_queue[i] \in Answers
  BY DEF SessionInv, TypeOK
<1>5. /\ \A e \in Events : e.client \in Channels
      /\ \A e \in Answers : e.client \in Channels
  BY DEF Events, Answers
<1> QED BY <1>1, <1>2, <1>3, <1>4, <1>5

(* Connecting, leaving and disconnecting move no message.                  *)
LEMMA TaggedStays ==
  ASSUME SessionInv, Tagged, m_nextClientId' >= m_nextClientId,
         m_nextClientId' \in Int,
         \A t \in Testers : \A c \in Channels : connection'[t] = c =>
            connection[t] = c \/ c = m_nextClientId,
         \A c \in Channels : to_server'[c] \in {to_server[c], <<>>}
                            /\ to_tester'[c] \in {to_tester[c], <<>>},
         UNCHANGED <<uds_queue, answer_queue, can_answers>>
  PROVE  Tagged'
<1>1. \A tag : \A c \in Channels : Mine(tag, c) => Mine(tag, c)'
  BY MineStays
<1> DEFINE MineNext(tag, c) ==
             /\ tag.channel = c
             /\ c # CAN => c < m_nextClientId'
             /\ \A t \in Testers : connection'[t] = c => tag.tester = t
<1>2. \A tag : \A c \in Channels : Mine(tag, c) => MineNext(tag, c)
  BY <1>1 DEF Mine
<1> HIDE DEF MineNext
<1>3. \A c \in Channels : \A i \in 1..Len(to_server'[c]) :
        MineNext(to_server'[c][i].tag, c)
  BY <1>2 DEF Tagged
<1>4. \A c \in Channels : \A i \in 1..Len(to_tester'[c]) :
        MineNext(to_tester'[c][i].tag, c)
  BY <1>2 DEF Tagged
<1>5. /\ \A i \in 1..Len(uds_queue') : MineNext(uds_queue'[i].tag, uds_queue'[i].client)
      /\ \A i \in 1..Len(answer_queue') :
           MineNext(answer_queue'[i].tag, answer_queue'[i].client)
      /\ \A i \in 1..Len(can_answers') : MineNext(can_answers'[i].tag, CAN)
  BY <1>2, QueueFacts DEF Tagged
<1> QED BY <1>3, <1>4, <1>5 DEF Tagged, MineNext, Mine

LEMMA ConnectAnswers ==
  ASSUME AnswerInv, NEW t \in Testers, Connect(t)
  PROVE  ChannelsApart' /\ Tagged'
<1>1. /\ m_nextClientId \in ClientIds /\ m_nextClientId \in Int
      /\ m_nextClientId # None /\ m_nextClientId # CAN
  BY ClientIdsFacts DEF Connect, Channels, None
<1>2. /\ connection \in [Testers -> Channels \union {None}]
      /\ connection' = [connection EXCEPT ![t] = m_nextClientId]
      /\ m_nextClientId' = m_nextClientId + 1
  BY DEF AnswerInv, SessionInv, TypeOK, Connect
<1>3. \A u \in Testers : u # t => connection'[u] = connection[u]
  BY <1>2
<1>4. connection'[t] = m_nextClientId
  BY <1>2
<1>5. \A u \in Testers : connection[u] # m_nextClientId
  BY <1>1 DEF AnswerInv, ChannelsApart
<1>6. \A u \in Testers : connection'[u] \in ClientIds => connection'[u] < m_nextClientId'
  <2>1. ClientIds \subseteq Int
    BY ClientIdsFacts
  <2>2. \A u \in Testers : connection[u] \in ClientIds => connection[u] < m_nextClientId
    BY DEF AnswerInv, ChannelsApart
  <2>3. SUFFICES ASSUME NEW u \in Testers, connection'[u] \in ClientIds
                PROVE  connection'[u] < m_nextClientId + 1
    BY <1>2
  <2>4. connection'[u] \in Int
    BY <2>1, <2>3
  <2>5. CASE u = t
    BY <1>1, <1>4, <2>5
  <2>6. CASE u # t
    BY <1>1, <1>3, <2>2, <2>3, <2>4, <2>6
  <2> QED BY <2>5, <2>6
<1>7. \A u, v \in Testers :
        connection'[u] = connection'[v] /\ connection'[u] # None => u = v
  BY <1>3, <1>4, <1>5 DEF AnswerInv, ChannelsApart, Connected
<1>8. ChannelsApart'
  BY <1>6, <1>7 DEF ChannelsApart, Connected
<1>9. \A u \in Testers : \A c \in Channels : connection'[u] = c =>
        connection[u] = c \/ c = m_nextClientId
  BY <1>3, <1>4
<1>10. Tagged'
  BY <1>1, <1>2, <1>9, TaggedStays DEF AnswerInv, Connect, queues
<1> QED BY <1>8, <1>10

LEMMA LeaveAnswers ==
  ASSUME AnswerInv, NEW t \in Testers, Leave(t)
  PROVE  ChannelsApart' /\ Tagged'
<1>1. \A u \in Testers : connection'[u] \in {connection[u], None}
  BY DEF AnswerInv, SessionInv, TypeOK, Leave
<1>2. None \notin Channels /\ None \notin ClientIds
  BY ClientIdsFacts DEF Channels
<1>3. m_nextClientId' = m_nextClientId /\ m_nextClientId \in Int
  BY ServerAssumption DEF Leave, AnswerInv, SessionInv, TypeOK, FirstClientId
<1>4. ChannelsApart'
  BY <1>1, <1>2, <1>3 DEF AnswerInv, ChannelsApart, Connected
<1>5. \A c \in Channels : to_tester'[c] \in {to_tester[c], <<>>}
  BY DEF AnswerInv, SessionInv, TypeOK, Leave
<1>6. Tagged'
  BY <1>1, <1>2, <1>3, <1>5, TaggedStays DEF AnswerInv, Leave
<1> QED BY <1>4, <1>6

LEMMA DisconnectedAnswers ==
  ASSUME AnswerInv, NEW c \in ClientIds, onClientDisconnected(c)
  PROVE  ChannelsApart' /\ Tagged'
<1>1. m_nextClientId' = m_nextClientId /\ m_nextClientId \in Int
  BY ServerAssumption
  DEF onClientDisconnected, AnswerInv, SessionInv, TypeOK, FirstClientId
<1>2. \A d \in Channels : to_server'[d] \in {to_server[d], <<>>}
  BY DEF AnswerInv, SessionInv, TypeOK, onClientDisconnected
<1>3. Tagged'
  BY <1>1, <1>2, TaggedStays DEF AnswerInv, onClientDisconnected, tester_vars
<1> QED BY <1>1, <1>3
        DEF AnswerInv, ChannelsApart, Connected, onClientDisconnected, tester_vars

(* The other actions change neither the channels nor the numbers: each     *)
(* takes a message from the head of one queue or puts one at the end.      *)
Carries(q, c) == \A i \in 1..Len(q) : Mine(q[i].tag, c)
Posted(q) == \A i \in 1..Len(q) : Mine(q[i].tag, q[i].client)

LEMMA TaggedParts ==
  ASSUME Tagged
  PROVE  /\ \A c \in Channels : Carries(to_server[c], c) /\ Carries(to_tester[c], c)
         /\ Posted(uds_queue) /\ Posted(answer_queue) /\ Carries(can_answers, CAN)
  BY DEF Tagged, Carries, Posted

LEMMA TaggedFromParts ==
  ASSUME ChannelsApart, UNCHANGED <<connection, m_nextClientId>>,
         \A c \in Channels : Carries(to_server'[c], c) /\ Carries(to_tester'[c], c),
         Posted(uds_queue'), Posted(answer_queue'), Carries(can_answers', CAN)
  PROVE  ChannelsApart' /\ Tagged'
<1>1. ChannelsApart'
  BY DEF ChannelsApart, Connected
<1>2. Tagged'
  BY DEF Tagged, Carries, Posted, Mine
<1> QED BY <1>1, <1>2

LEMMA CarriesAppend ==
  ASSUME NEW S, NEW q \in Seq(S), NEW e \in S, NEW c, Carries(q, c), Mine(e.tag, c)
  PROVE  Carries(Append(q, e), c)
<1>1. \A i \in 1..Len(Append(q, e)) :
        Append(q, e)[i] = e \/ (i \in 1..Len(q) /\ Append(q, e)[i] = q[i])
  OBVIOUS
<1> QED BY <1>1 DEF Carries

LEMMA CarriesTail ==
  ASSUME NEW S, NEW q \in Seq(S), q # <<>>, NEW c, Carries(q, c)
  PROVE  Carries(Tail(q), c) /\ Mine(Head(q).tag, c)
<1>1. /\ \A i \in 1..Len(Tail(q)) : i + 1 \in 1..Len(q) /\ Tail(q)[i] = q[i + 1]
      /\ 1 \in 1..Len(q) /\ Head(q) = q[1]
  OBVIOUS
<1> QED BY <1>1 DEF Carries

LEMMA PostedAppend ==
  ASSUME NEW S, NEW q \in Seq(S), NEW e \in S, Posted(q), Mine(e.tag, e.client)
  PROVE  Posted(Append(q, e))
<1>1. \A i \in 1..Len(Append(q, e)) :
        Append(q, e)[i] = e \/ (i \in 1..Len(q) /\ Append(q, e)[i] = q[i])
  OBVIOUS
<1> QED BY <1>1 DEF Posted

LEMMA PostedTail ==
  ASSUME NEW S, NEW q \in Seq(S), q # <<>>, Posted(q)
  PROVE  Posted(Tail(q)) /\ Mine(Head(q).tag, Head(q).client)
<1>1. /\ \A i \in 1..Len(Tail(q)) : i + 1 \in 1..Len(q) /\ Tail(q)[i] = q[i + 1]
      /\ 1 \in 1..Len(q) /\ Head(q) = q[1]
  OBVIOUS
<1> QED BY <1>1 DEF Posted

ToServer == [req : RequestType, tag : Tag]
ToTester == [raw : RawType, response : ResponseType, tag : Tag]

(* A tester asks, whatever it asks.                                        *)
Asks(t) ==
  /\ \E req : Ask(t, req)
  /\ UNCHANGED <<m_session, m_nextClientId, m_clientMap, connection, last_seed,
                 to_tester, uds_queue, answer_queue, can_answers>>

LEMMA AskAnswers ==
  ASSUME AnswerInv, SessionInv', NEW t \in Testers, Asks(t)
  PROVE  ChannelsApart' /\ Tagged'
<1> DEFINE c == connection[t]
<1>1. c \in Channels /\ c # None
  BY DEF AnswerInv, SessionInv, TypeOK, Asks, Ask, Connected
<1>2. PICK req : Ask(t, req)
  BY DEF Asks
<1> DEFINE m == [req |-> req, tag |-> [tester |-> t, channel |-> c,
                                       n |-> asked[t] + 1]]
<1>3. Mine(m.tag, c)
  <2>1. \A u \in Testers : connection[u] = c => u = t
    BY <1>1 DEF AnswerInv, ChannelsApart, Connected
  <2>2. c # CAN => c < m_nextClientId
    BY <1>1 DEF AnswerInv, ChannelsApart, Channels
  <2> QED BY <2>1, <2>2 DEF Mine
<1>4. to_server \in [Channels -> Seq(ToServer)]
  BY DEF AnswerInv, SessionInv, TypeOK, ToServer
<1>5. to_server' = [to_server EXCEPT ![c] = Append(to_server[c], m)]
  BY <1>2, <1>1, <1>4 DEF Ask
<1>6. m.tag.tester = t
  OBVIOUS
<1> HIDE DEF m, c
<1>7. to_server'[c] = Append(to_server[c], m)
  BY <1>1, <1>4, <1>5
<1>8. Carries(to_server'[c], c)
  <2>1. Carries(to_server[c], c)
    BY <1>1, TaggedParts DEF AnswerInv
  <2>2. to_server[c] \in Seq(ToServer \union {m}) /\ m \in ToServer \union {m}
    BY <1>1, <1>4
  <2> QED BY <1>3, <1>7, <2>1, <2>2, CarriesAppend
<1>9. \A d \in Channels : Carries(to_server'[d], d)
  BY <1>4, <1>5, <1>8, TaggedParts DEF AnswerInv
<1> QED BY <1>9, TaggedParts, TaggedFromParts DEF AnswerInv, Asks

LEMMA ArriveAnswers ==
  ASSUME AnswerInv, NEW c \in Channels, Arrive(c)
  PROVE  ChannelsApart' /\ Tagged'
<1> DEFINE e == [client |-> c, req |-> Head(to_server[c]).req,
                 tag |-> Head(to_server[c]).tag]
<1>1. to_server \in [Channels -> Seq(ToServer)] /\ to_server[c] # <<>>
  BY DEF AnswerInv, SessionInv, TypeOK, Arrive, ToServer
<1>2. to_server' = [to_server EXCEPT ![c] = Tail(to_server[c])]
  BY DEF Arrive
<1>3. Carries(to_server[c], c) /\ to_server[c] \in Seq(ToServer)
  BY <1>1, TaggedParts DEF AnswerInv
<1>4. Carries(Tail(to_server[c]), c) /\ Mine(Head(to_server[c]).tag, c)
  BY <1>1, <1>3, CarriesTail
<1>5. Mine(e.tag, e.client)
  BY <1>4
<1>6. uds_queue' = Append(uds_queue, e)
  BY DEF Arrive
<1>7. \A d \in Channels : Carries(to_server'[d], d)
  BY <1>1, <1>2, <1>4, TaggedParts DEF AnswerInv
<1> HIDE DEF e
<1>8. Posted(uds_queue')
  <2>1. uds_queue \in Seq(Events \union {e}) /\ e \in Events \union {e}
    BY DEF AnswerInv, SessionInv, TypeOK
  <2> QED BY <1>5, <1>6, <2>1, PostedAppend, TaggedParts DEF AnswerInv
<1> QED BY <1>7, <1>8, TaggedParts, TaggedFromParts
        DEF AnswerInv, Arrive, tester_vars

LEMMA ProcessAnswers ==
  ASSUME AnswerInv, ProcessUdsRequest
  PROVE  ChannelsApart' /\ Tagged'
<1> DEFINE event == Head(uds_queue)
<1>1. PICK out \in processUdsRequest(m_session, event.req) :
        PostAnswer(event.client,
          [client |-> event.client, response |-> out.response, tag |-> event.tag])
  BY DEF ProcessUdsRequest, Finish
<1> DEFINE a == [client |-> event.client, response |-> out.response,
                 tag |-> event.tag]
<1>2. uds_queue \in Seq(Events) /\ uds_queue # <<>> /\ uds_queue' = Tail(uds_queue)
  BY ProcessKeeps DEF AnswerInv, SessionInv, TypeOK
<1>3. Posted(uds_queue') /\ Mine(event.tag, event.client)
  BY <1>2, PostedTail, TaggedParts DEF AnswerInv
<1>4. Mine(a.tag, a.client) /\ a.client = event.client
  BY <1>3
<1>5. PostAnswer(event.client, a)
  BY <1>1
<1> HIDE DEF a, event
<1>6. /\ answer_queue \in Seq(Answers \union {a}) /\ a \in Answers \union {a}
      /\ can_answers \in Seq(Answers \union {a})
  BY DEF AnswerInv, SessionInv, TypeOK
<1>7. Posted(answer_queue) /\ Carries(can_answers, CAN)
  BY TaggedParts DEF AnswerInv
<1>8. Posted(Append(answer_queue, a))
  BY <1>4, <1>6, <1>7, PostedAppend
<1>9. a.client = CAN => Carries(Append(can_answers, a), CAN)
  BY <1>4, <1>6, <1>7, CarriesAppend
<1>10. Posted(answer_queue') /\ Carries(can_answers', CAN)
  BY <1>4, <1>5, <1>7, <1>8, <1>9 DEF PostAnswer
<1> QED BY <1>3, <1>10, TaggedParts, TaggedFromParts, ProcessKeeps DEF AnswerInv

LEMMA TransmitAnswers ==
  ASSUME AnswerInv, NEW c \in Channels, NEW answer \in Answers,
         Mine(answer.tag, c), Transmit(c, answer)
  PROVE  \A d \in Channels : Carries(to_tester'[d], d)
<1> DEFINE m == [raw |-> serializeUDSMessage(answer.response),
                 response |-> answer.response, tag |-> answer.tag]
<1>1. \/ to_tester' = to_tester
      \/ to_tester' = [to_tester EXCEPT ![c] = Append(to_tester[c], m)]
  BY DEF Transmit
<1>2. to_tester \in [Channels -> Seq(ToTester)]
  BY DEF AnswerInv, SessionInv, TypeOK, ToTester
<1>3. Mine(m.tag, c)
  OBVIOUS
<1> HIDE DEF m
<1>4. to_tester[c] \in Seq(ToTester \union {m}) /\ m \in ToTester \union {m}
  BY <1>2
<1>5. \A d \in Channels : Carries(to_tester[d], d)
  BY TaggedParts DEF AnswerInv
<1>6. Carries(Append(to_tester[c], m), c)
  BY <1>3, <1>4, <1>5, CarriesAppend
<1> QED BY <1>1, <1>2, <1>5, <1>6

LEMMA SendTcpAnswers ==
  ASSUME AnswerInv, SendTcpResponse
  PROVE  ChannelsApart' /\ Tagged'
<1> DEFINE answer == Head(answer_queue)
<1>1. /\ answer_queue \in Seq(Answers) /\ answer_queue # <<>>
      /\ answer_queue' = Tail(answer_queue)
  BY DEF AnswerInv, SessionInv, TypeOK, SendTcpResponse
<1>2. answer \in Answers /\ answer.client \in Channels
  <2>1. answer \in Answers
    BY <1>1, QueueTypes
  <2> HIDE DEF answer
  <2> QED BY <2>1 DEF Answers
<1>3. Posted(answer_queue') /\ Mine(answer.tag, answer.client)
  BY <1>1, PostedTail, TaggedParts DEF AnswerInv
<1>4. Transmit(answer.client, answer) \/ to_tester' = to_tester
  BY DEF SendTcpResponse
<1> HIDE DEF answer
<1>5. \A c \in Channels : Carries(to_tester'[c], c)
  BY <1>2, <1>3, <1>4, TransmitAnswers, TaggedParts DEF AnswerInv
<1> QED BY <1>3, <1>5, TaggedParts, TaggedFromParts
        DEF AnswerInv, SendTcpResponse, tester_vars

LEMMA SendCanAnswers ==
  ASSUME AnswerInv, SendCanResponse
  PROVE  ChannelsApart' /\ Tagged'
<1> DEFINE answer == Head(can_answers)
<1>1. /\ can_answers \in Seq(Answers) /\ can_answers # <<>>
      /\ can_answers' = Tail(can_answers)
  BY DEF AnswerInv, SessionInv, TypeOK, SendCanResponse
<1>2. answer \in Answers /\ CAN \in Channels
  BY <1>1, QueueTypes DEF Channels
<1>3. Carries(can_answers', CAN) /\ Mine(answer.tag, CAN)
  BY <1>1, CarriesTail, TaggedParts DEF AnswerInv
<1>4. Transmit(CAN, answer) \/ to_tester' = to_tester
  BY DEF SendCanResponse
<1> HIDE DEF answer
<1>5. \A c \in Channels : Carries(to_tester'[c], c)
  BY <1>2, <1>3, <1>4, TransmitAnswers, TaggedParts DEF AnswerInv
<1> QED BY <1>3, <1>5, TaggedParts, TaggedFromParts
        DEF AnswerInv, SendCanResponse, tester_vars

LEMMA ReceiveAnswers ==
  ASSUME AnswerInv, NEW t \in Testers, Receive(t)
  PROVE  ChannelsApart' /\ Tagged'
<1> DEFINE c == connection[t]
<1>1. c \in Channels /\ to_tester[c] # <<>>
  BY DEF AnswerInv, SessionInv, TypeOK, Receive, Connected
<1>2. to_tester \in [Channels -> Seq(ToTester)]
  BY DEF AnswerInv, SessionInv, TypeOK, ToTester
<1>3. to_tester' = [to_tester EXCEPT ![c] = Tail(to_tester[c])]
  BY DEF Receive
<1> HIDE DEF c
<1>4. Carries(to_tester[c], c) /\ to_tester[c] \in Seq(ToTester)
  BY <1>1, <1>2, TaggedParts DEF AnswerInv
<1>5. Carries(Tail(to_tester[c]), c)
  BY <1>1, <1>4, CarriesTail
<1>6. \A d \in Channels : Carries(to_tester'[d], d)
  BY <1>2, <1>3, <1>5, TaggedParts DEF AnswerInv
<1> QED BY <1>6, TaggedParts, TaggedFromParts DEF AnswerInv, Receive

(* The steps of the server with testers of any kind.                       *)
Steps ==
  \/ \E t \in Testers : Connect(t) \/ Leave(t) \/ Asks(t) \/ Receive(t)
  \/ Server

LEMMA NextSteps == [Next]_vars => [Steps]_vars
  BY DEF Next, Steps, Asks, SendRequest

LEMMA AnswerStep ==
  ASSUME AnswerInv, SessionInv', [Steps]_vars
  PROVE  AnswerInv'
<1>1. SessionInv'
  OBVIOUS
<1>2. CASE \E t \in Testers : Connect(t) \/ Leave(t) \/ Asks(t) \/ Receive(t)
  BY <1>1, <1>2, ConnectAnswers, LeaveAnswers, AskAnswers, ReceiveAnswers
  DEF AnswerInv
<1>3. CASE \E c \in ClientIds : onClientDisconnected(c)
  BY <1>1, <1>3, DisconnectedAnswers DEF AnswerInv
<1>4. CASE \E c \in Channels : Arrive(c)
  BY <1>1, <1>4, ArriveAnswers DEF AnswerInv
<1>5. CASE ProcessUdsRequest \/ SendTcpResponse \/ SendCanResponse
  BY <1>1, <1>5, ProcessAnswers, SendTcpAnswers, SendCanAnswers DEF AnswerInv
<1>6. CASE UNCHANGED vars
  <2>1. ChannelsApart' /\ Tagged'
    BY <1>6, TaggedParts, TaggedFromParts DEF AnswerInv, vars, tester_vars, queues
  <2> QED BY <1>1, <2>1 DEF AnswerInv
<1> QED BY <1>2, <1>3, <1>4, <1>5, <1>6 DEF Steps, Server

LEMMA TaggedAnswers == AnswerInv => OwnAnswers
<1> SUFFICES ASSUME AnswerInv, NEW t \in Testers, Connected(t),
                    NEW i \in 1..Len(to_tester[connection[t]])
             PROVE  /\ to_tester[connection[t]][i].tag.tester = t
                    /\ to_tester[connection[t]][i].tag.channel = connection[t]
  BY DEF OwnAnswers
<1>1. connection[t] \in Channels
  BY DEF AnswerInv, SessionInv, TypeOK, Connected
<1> QED BY <1>1 DEF AnswerInv, Tagged, Mine

(* An answer reaches only the connection its request came from, and the    *)
(* tester there is the one that asked, for any number of testers that come *)
(* and go while their requests are being served.                           *)
THEOREM AnswersGoHome == Spec => []OwnAnswers
<1>1. AnswerInv /\ [Next]_vars => AnswerInv'
  <2> SUFFICES ASSUME AnswerInv, [Next]_vars PROVE AnswerInv'
    OBVIOUS
  <2>1. SessionInv'
    BY SessionStep DEF AnswerInv
  <2> QED BY <2>1, NextSteps, AnswerStep
<1> QED BY <1>1, InitAnswers, TaggedAnswers, PTL DEF Spec
-----------------------------------------------------------------------------
(* The order of answers.  A channel's requests and answers lie in a line   *)
(* of four queues, and an answer never overtakes: each step takes the head *)
(* of one queue of the line to the end of the queue before it.             *)

Rising(q, c) ==
  \A i, j \in 1..Len(q) :
    i < j /\ q[i].tag.channel = c /\ q[j].tag.channel = c
      => q[i].tag.n < q[j].tag.n

Precedes(p, q, c) ==
  \A i \in 1..Len(p) : \A j \in 1..Len(q) :
    p[i].tag.channel = c /\ q[j].tag.channel = c => p[i].tag.n < q[j].tag.n

Above(q, tag, c) ==
  \A i \in 1..Len(q) :
    q[i].tag.channel = c /\ tag.channel = c => q[i].tag.n < tag.n

Below(tag, q, c) ==
  \A i \in 1..Len(q) :
    q[i].tag.channel = c /\ tag.channel = c => tag.n < q[i].tag.n

InLine(p, q, r, s, c) ==
  /\ Rising(p, c) /\ Rising(q, c) /\ Rising(r, c) /\ Rising(s, c)
  /\ Precedes(p, q, c) /\ Precedes(p, r, c) /\ Precedes(p, s, c)
  /\ Precedes(q, r, c) /\ Precedes(q, s, c) /\ Precedes(r, s, c)

LEMMA AppendElements ==
  ASSUME NEW q, NEW S, q \in Seq(S), NEW e \in S
  PROVE  /\ Len(Append(q, e)) = Len(q) + 1 /\ Len(q) \in Nat
         /\ \A i \in 1..Len(Append(q, e)) :
              \/ i = Len(q) + 1 /\ Append(q, e)[i] = e
              \/ i \in 1..Len(q) /\ Append(q, e)[i] = q[i]
  OBVIOUS

LEMMA TailElements ==
  ASSUME NEW q, NEW S, q \in Seq(S), q # <<>>
  PROVE  /\ \A i \in 1..Len(Tail(q)) : i + 1 \in 1..Len(q) /\ Tail(q)[i] = q[i + 1]
         /\ Len(q) \in Nat /\ Len(Tail(q)) = Len(q) - 1
         /\ 1 \in 1..Len(q) /\ Head(q) = q[1]
  OBVIOUS

LEMMA AppendInLine ==
  ASSUME NEW q, NEW S, q \in Seq(S), NEW e \in S, NEW c
  PROVE  /\ Rising(q, c) /\ Above(q, e.tag, c) => Rising(Append(q, e), c)
         /\ \A p : Precedes(p, q, c) /\ Above(p, e.tag, c)
                     => Precedes(p, Append(q, e), c)
         /\ \A s : Precedes(q, s, c) /\ Below(e.tag, s, c)
                     => Precedes(Append(q, e), s, c)
<1>1. ASSUME Rising(q, c), Above(q, e.tag, c) PROVE Rising(Append(q, e), c)
  BY <1>1, AppendElements DEF Rising, Above
<1>2. ASSUME NEW p, Precedes(p, q, c), Above(p, e.tag, c)
      PROVE  Precedes(p, Append(q, e), c)
  BY <1>2, AppendElements DEF Precedes, Above
<1>3. ASSUME NEW s, Precedes(q, s, c), Below(e.tag, s, c)
      PROVE  Precedes(Append(q, e), s, c)
  BY <1>3, AppendElements DEF Precedes, Below
<1> QED BY <1>1, <1>2, <1>3

LEMMA TailInLine ==
  ASSUME NEW q, NEW S, q \in Seq(S), q # <<>>, NEW c
  PROVE  /\ Rising(q, c) => Rising(Tail(q), c) /\ Below(Head(q).tag, Tail(q), c)
         /\ \A p : Precedes(p, q, c)
                     => Precedes(p, Tail(q), c) /\ Above(p, Head(q).tag, c)
         /\ \A s : Precedes(q, s, c)
                     => Precedes(Tail(q), s, c) /\ Below(Head(q).tag, s, c)
<1>1. ASSUME Rising(q, c)
      PROVE  Rising(Tail(q), c) /\ Below(Head(q).tag, Tail(q), c)
  BY <1>1, TailElements DEF Rising, Below
<1>2. ASSUME NEW p, Precedes(p, q, c)
      PROVE  Precedes(p, Tail(q), c) /\ Above(p, Head(q).tag, c)
  BY <1>2, TailElements DEF Precedes, Above
<1>3. ASSUME NEW s, Precedes(q, s, c)
      PROVE  Precedes(Tail(q), s, c) /\ Below(Head(q).tag, s, c)
  BY <1>3, TailElements DEF Precedes, Below
<1> QED BY <1>1, <1>2, <1>3

LEMMA EmptyInLine ==
  /\ \A c : Rising(<<>>, c)
  /\ \A q, c : Precedes(<<>>, q, c) /\ Precedes(q, <<>>, c)
  BY DEF Rising, Precedes

(* The other channels' messages are not in the line.                       *)
LEMMA OffChannel ==
  ASSUME NEW tag, NEW c, tag.channel # c
  PROVE  \A q : Above(q, tag, c) /\ Below(tag, q, c)
  BY DEF Above, Below

(* The worker's answers for a channel: one queue for CAN, one for TCP.     *)
AnswersOf(c) == IF c = CAN THEN can_answers ELSE answer_queue

Line(c) == InLine(to_tester[c], AnswersOf(c), uds_queue, to_server[c], c)

NotAhead(q) == \A i \in 1..Len(q) : q[i].tag.n <= asked[q[i].tag.tester]

NoneAhead ==
  /\ \A c \in Channels : NotAhead(to_server[c]) /\ NotAhead(to_tester[c])
  /\ NotAhead(uds_queue) /\ NotAhead(answer_queue) /\ NotAhead(can_answers)

OverTcp == \A i \in 1..Len(answer_queue) : answer_queue[i].client # CAN

OrderInv ==
  AnswerInv /\ OverTcp /\ NoneAhead /\ \A c \in Channels : Line(c)

(* What the proofs use of the types, and what carries the CAN channel.     *)
LEMMA LineFacts ==
  ASSUME OrderInv
  PROVE  /\ \A c \in Channels :
              to_server[c] \in Seq(ToServer) /\ to_tester[c] \in Seq(ToTester)
         /\ to_server \in [Channels -> Seq(ToServer)]
         /\ to_tester \in [Channels -> Seq(ToTester)]
         /\ uds_queue \in Seq(Events)
         /\ answer_queue \in Seq(Answers) /\ can_answers \in Seq(Answers)
         /\ \A c \in Channels : AnswersOf(c) \in Seq(Answers)
         /\ \A c \in Channels : \A i \in 1..Len(to_server[c]) :
              to_server[c][i].tag.channel = c
         /\ \A c \in Channels : \A i \in 1..Len(to_tester[c]) :
              to_tester[c][i].tag.channel = c
         /\ \A i \in 1..Len(uds_queue) :
              uds_queue[i].tag.channel = uds_queue[i].client
         /\ \A i \in 1..Len(answer_queue) :
              /\ answer_queue[i].tag.channel = answer_queue[i].client
              /\ answer_queue[i].tag.channel # CAN
         /\ \A i \in 1..Len(can_answers) : can_answers[i].tag.channel = CAN
<1>1. /\ to_server \in [Channels -> Seq(ToServer)]
      /\ to_tester \in [Channels -> Seq(ToTester)]
      /\ uds_queue \in Seq(Events)
      /\ answer_queue \in Seq(Answers) /\ can_answers \in Seq(Answers)
  BY DEF OrderInv, AnswerInv, SessionInv, TypeOK, ToServer, ToTester
<1>2. \A c \in Channels : AnswersOf(c) \in Seq(Answers)
  BY <1>1 DEF AnswersOf
<1>3. /\ \A c \in Channels : \A i \in 1..Len(to_server[c]) :
           to_server[c][i].tag.channel = c
      /\ \A c \in Channels : \A i \in 1..Len(to_tester[c]) :
           to_tester[c][i].tag.channel = c
  BY DEF OrderInv, AnswerInv, Tagged, Mine
<1>4. /\ \A i \in 1..Len(uds_queue) :
           uds_queue[i].tag.channel = uds_queue[i].client
      /\ \A i \in 1..Len(answer_queue) :
           /\ answer_queue[i].tag.channel = answer_queue[i].client
           /\ answer_queue[i].tag.channel # CAN
      /\ \A i \in 1..Len(can_answers) : can_answers[i].tag.channel = CAN
  BY DEF OrderInv, AnswerInv, Tagged, Mine, OverTcp
<1> QED BY <1>1, <1>2, <1>3, <1>4

LEMMA NotAheadAppend ==
  ASSUME NEW q, NEW S, q \in Seq(S), NEW e \in S, NotAhead(q),
         e.tag.n <= asked[e.tag.tester]
  PROVE  NotAhead(Append(q, e))
  BY AppendElements DEF NotAhead

LEMMA NotAheadTail ==
  ASSUME NEW q, NEW S, q \in Seq(S), q # <<>>, NotAhead(q)
  PROVE  NotAhead(Tail(q)) /\ Head(q).tag.n <= asked[Head(q).tag.tester]
  BY TailElements DEF NotAhead

(* Next to nothing moves: each queue stays or is emptied.                  *)
LEMMA LinesStay ==
  ASSUME OrderInv, UNCHANGED <<asked, uds_queue, answer_queue, can_answers>>,
         \A c \in Channels : to_server'[c] \in {to_server[c], <<>>}
                            /\ to_tester'[c] \in {to_tester[c], <<>>}
  PROVE  OverTcp' /\ NoneAhead' /\ \A c \in Channels : Line(c)'
<1>1. OverTcp'
  BY DEF OrderInv, OverTcp
<1>2. NoneAhead'
  <2>1. NotAhead(<<>>)
    BY DEF NotAhead
  <2>2. NotAhead(uds_queue) /\ NotAhead(answer_queue) /\ NotAhead(can_answers)
    BY DEF OrderInv, NoneAhead
  <2>3. \A q : NotAhead(q) => NotAhead(q)'
    BY DEF NotAhead
  <2> QED BY <2>1, <2>2, <2>3 DEF OrderInv, NoneAhead, NotAhead
<1>3. \A c \in Channels : Line(c)'
  BY EmptyInLine DEF OrderInv, Line, InLine, AnswersOf
<1> QED BY <1>1, <1>2, <1>3

(* A tester's next request comes after all it has asked on this channel.   *)
LEMMA AskOrder ==
  ASSUME OrderInv, SessionInv', NEW t \in Testers, Asks(t)
  PROVE  OverTcp' /\ NoneAhead' /\ \A c \in Channels : Line(c)'
<1> DEFINE c == connection[t]
<1>1. c \in Channels /\ c # None
  BY DEF OrderInv, AnswerInv, SessionInv, TypeOK, Asks, Ask, Connected
<1>2. PICK req : Ask(t, req)
  BY DEF Asks
<1> DEFINE m == [req |-> req, tag |-> [tester |-> t, channel |-> c,
                                       n |-> asked[t] + 1]]
<1>3. /\ to_server' = [to_server EXCEPT ![c] = Append(to_server[c], m)]
      /\ asked' = [asked EXCEPT ![t] = asked[t] + 1]
  BY <1>2, <1>1, LineFacts DEF Ask
<1>4. m.tag.tester = t /\ m.tag.channel = c /\ m.tag.n = asked[t] + 1
  OBVIOUS
<1>5. asked \in [Testers -> Int] /\ asked[t] \in Int
  BY DEF OrderInv, AnswerInv, SessionInv, TypeOK
<1>6. UNCHANGED <<to_tester, uds_queue, answer_queue, can_answers>>
  BY DEF Asks
<1> HIDE DEF m, c
<1>7. to_server[c] \in Seq(ToServer \union {m}) /\ m \in ToServer \union {m}
  BY <1>1, LineFacts
<1>8. /\ to_server'[c] = Append(to_server[c], m)
      /\ \A d \in Channels : d # c => to_server'[d] = to_server[d]
  BY <1>1, <1>3, LineFacts
<1>9. \A e \in ToServer \union ToTester \union Events \union Answers :
        /\ e.tag.tester \in Testers /\ e.tag.n \in Int
  BY DEF ToServer, ToTester, Events, Answers, Tag
<1> DEFINE Later(q) == \A i \in 1..Len(q) : q[i].tag.n <= asked'[q[i].tag.tester]
<1>10. ASSUME NEW q, NEW S, q \in Seq(S),
              S \subseteq ToServer \union ToTester \union Events \union Answers,
              NotAhead(q)
       PROVE  Later(q)
  <2>1. SUFFICES ASSUME NEW i \in 1..Len(q)
                 PROVE  q[i].tag.n <= asked'[q[i].tag.tester]
    OBVIOUS
  <2>2. q[i] \in S
    BY <1>10
  <2>3. q[i].tag.tester \in Testers /\ q[i].tag.n \in Int
    BY <1>9, <1>10, <2>2
  <2>4. q[i].tag.n <= asked[q[i].tag.tester]
    BY <1>10 DEF NotAhead
  <2> DEFINE u == q[i].tag.tester  n == q[i].tag.n
  <2> HIDE DEF u, n
  <2>5. u \in Testers /\ n \in Int /\ n <= asked[u]
    BY <2>3, <2>4 DEF u, n
  <2>6. n <= asked'[u]
    BY <1>3, <1>5, <2>5
  <2> QED BY <2>6 DEF u, n
<1>11. ASSUME NEW q, NEW S, q \in Seq(S),
              S \subseteq ToServer \union ToTester \union Events \union Answers,
              NotAhead(q),
              \A i \in 1..Len(q) : q[i].tag.channel = c => q[i].tag.tester = t
       PROVE  Above(q, m.tag, c)
  <2>1. SUFFICES ASSUME NEW i \in 1..Len(q), q[i].tag.channel = c
                 PROVE  q[i].tag.n < m.tag.n
    BY DEF Above
  <2>2. q[i].tag.tester = t /\ q[i].tag.n <= asked[t]
    BY <1>11, <2>1 DEF NotAhead
  <2>3. q[i].tag.n \in Int
    BY <1>9, <1>11
  <2> QED BY <1>4, <1>5, <2>2, <2>3
<1>12. /\ \A i \in 1..Len(to_server[c]) : to_server[c][i].tag.tester = t
       /\ \A i \in 1..Len(to_tester[c]) : to_tester[c][i].tag.tester = t
       /\ \A i \in 1..Len(uds_queue) :
            uds_queue[i].tag.channel = c => uds_queue[i].tag.tester = t
       /\ \A i \in 1..Len(answer_queue) :
            answer_queue[i].tag.channel = c => answer_queue[i].tag.tester = t
       /\ \A i \in 1..Len(can_answers) :
            can_answers[i].tag.channel = c => can_answers[i].tag.tester = t
  BY <1>1, LineFacts DEF OrderInv, AnswerInv, Tagged, Mine, c
<1>13. /\ NotAhead(to_server[c]) /\ NotAhead(to_tester[c]) /\ NotAhead(uds_queue)
       /\ NotAhead(answer_queue) /\ NotAhead(can_answers)
  BY <1>1 DEF OrderInv, NoneAhead
<1>14. /\ Above(to_server[c], m.tag, c) /\ Above(to_tester[c], m.tag, c)
       /\ Above(uds_queue, m.tag, c)
       /\ Above(answer_queue, m.tag, c) /\ Above(can_answers, m.tag, c)
  <2>1. Above(to_server[c], m.tag, c)
    BY <1>1, <1>11, <1>12, <1>13, LineFacts
  <2>2. Above(to_tester[c], m.tag, c)
    BY <1>1, <1>11, <1>12, <1>13, LineFacts
  <2>3. Above(uds_queue, m.tag, c)
    BY <1>11, <1>12, <1>13, LineFacts
  <2>4. Above(answer_queue, m.tag, c)
    BY <1>11, <1>12, <1>13, LineFacts
  <2>5. Above(can_answers, m.tag, c)
    BY <1>11, <1>12, <1>13, LineFacts
  <2> QED BY <2>1, <2>2, <2>3, <2>4, <2>5
<1>15. InLine(to_tester[c], AnswersOf(c), uds_queue, Append(to_server[c], m), c)
  BY <1>1, <1>7, <1>14, AppendInLine DEF OrderInv, Line, InLine, AnswersOf
<1>16. \A d \in Channels : Line(d)'
  <2>1. ASSUME NEW d \in Channels
        PROVE  InLine(to_tester[d], AnswersOf(d), uds_queue, to_server'[d], d)
    BY <1>8, <1>15 DEF OrderInv, Line
  <2> QED BY <1>6, <2>1 DEF Line, AnswersOf
<1>17. OverTcp'
  BY <1>6 DEF OrderInv, OverTcp
<1>18. NoneAhead'
  <2>1. \A d \in Channels : Later(to_tester[d]) /\ Later(to_server[d])
    BY <1>10, LineFacts DEF OrderInv, NoneAhead
  <2>2. Later(uds_queue) /\ Later(answer_queue) /\ Later(can_answers)
    BY <1>10, LineFacts DEF OrderInv, NoneAhead
  <2>3. m.tag.n <= asked'[m.tag.tester]
    BY <1>3, <1>4, <1>5
  <2>4. Later(Append(to_server[c], m))
    BY <1>1, <1>7, <2>1, <2>3, AppendElements
  <2>5. \A d \in Channels : Later(to_server'[d])
    BY <1>8, <2>1, <2>4
  <2> QED BY <1>6, <2>1, <2>2, <2>5 DEF NoneAhead, NotAhead
<1> QED BY <1>16, <1>17, <1>18

LEMMA ConnectionsOrder ==
  ASSUME OrderInv,
         \/ \E t \in Testers : Connect(t) \/ Leave(t)
         \/ \E c \in ClientIds : onClientDisconnected(c)
  PROVE  OverTcp' /\ NoneAhead' /\ \A c \in Channels : Line(c)'
<1>1. ASSUME NEW t \in Testers, Connect(t)
      PROVE  OverTcp' /\ NoneAhead' /\ \A c \in Channels : Line(c)'
  BY <1>1, LinesStay DEF Connect, queues
<1>2. ASSUME NEW t \in Testers, Leave(t)
      PROVE  OverTcp' /\ NoneAhead' /\ \A c \in Channels : Line(c)'
  <2>1. \A c \in Channels : to_tester'[c] \in {to_tester[c], <<>>}
    BY <1>2, LineFacts DEF Leave
  <2> QED BY <1>2, <2>1, LinesStay DEF Leave
<1>3. ASSUME NEW d \in ClientIds, onClientDisconnected(d)
      PROVE  OverTcp' /\ NoneAhead' /\ \A c \in Channels : Line(c)'
  <2>1. \A c \in Channels : to_server'[c] \in {to_server[c], <<>>}
    BY <1>3, LineFacts DEF onClientDisconnected
  <2> QED BY <1>3, <2>1, LinesStay DEF onClientDisconnected, tester_vars
<1> QED BY <1>1, <1>2, <1>3

(* The head of the channel's requests goes to the end of the UDS queue.    *)
LEMMA ArriveOrder ==
  ASSUME OrderInv, NEW c \in Channels, Arrive(c)
  PROVE  OverTcp' /\ NoneAhead' /\ \A d \in Channels : Line(d)'
<1> DEFINE e == [client |-> c, req |-> Head(to_server[c]).req,
                 tag |-> Head(to_server[c]).tag]
<1>1. /\ to_server[c] # <<>>
      /\ to_server' = [to_server EXCEPT ![c] = Tail(to_server[c])]
      /\ uds_queue' = Append(uds_queue, e)
      /\ UNCHANGED <<asked, to_tester, answer_queue, can_answers>>
  BY DEF Arrive, tester_vars
<1>2. e.tag = Head(to_server[c]).tag
  OBVIOUS
<1> HIDE DEF e
<1>3. uds_queue \in Seq(Events \union {e}) /\ e \in Events \union {e}
  BY LineFacts
<1>4. /\ to_server'[c] = Tail(to_server[c])
      /\ \A d \in Channels : d # c => to_server'[d] = to_server[d]
  BY <1>1, LineFacts
<1>5. to_server[c] \in Seq(ToServer)
  BY LineFacts
<1>6. e.tag.channel = c
  BY <1>1, <1>2, <1>5, TailElements, LineFacts
<1>7. InLine(to_tester[c], AnswersOf(c), uds_queue', to_server'[c], c)
  <2>1. InLine(to_tester[c], AnswersOf(c), uds_queue, to_server[c], c)
    BY DEF OrderInv, Line
  <2>2. InLine(to_tester[c], AnswersOf(c), uds_queue, Tail(to_server[c]), c)
    BY <1>1, <1>5, <2>1, TailInLine DEF InLine
  <2>3. /\ Above(to_tester[c], e.tag, c) /\ Above(AnswersOf(c), e.tag, c)
        /\ Above(uds_queue, e.tag, c) /\ Below(e.tag, Tail(to_server[c]), c)
    BY <1>1, <1>2, <1>5, <2>1, TailInLine DEF InLine
  <2> QED BY <1>1, <1>3, <1>4, <2>2, <2>3, AppendInLine DEF InLine
<1>8. ASSUME NEW d \in Channels, d # c
      PROVE  InLine(to_tester[d], AnswersOf(d), uds_queue', to_server'[d], d)
  <2>1. InLine(to_tester[d], AnswersOf(d), uds_queue, to_server'[d], d)
    BY <1>4, <1>8 DEF OrderInv, Line
  <2>2. \A q : Above(q, e.tag, d) /\ Below(e.tag, q, d)
    BY <1>6, <1>8, OffChannel
  <2> QED BY <1>1, <1>3, <2>1, <2>2, AppendInLine DEF InLine
<1>9. \A d \in Channels : Line(d)'
  BY <1>1, <1>7, <1>8 DEF Line, AnswersOf
<1>10. NotAhead(uds_queue') /\ \A d \in Channels : NotAhead(to_server'[d])
  <2>1. NotAhead(Tail(to_server[c])) /\ e.tag.n <= asked[e.tag.tester]
    BY <1>1, <1>2, <1>5, NotAheadTail DEF OrderInv, NoneAhead
  <2> QED BY <1>1, <1>3, <1>4, <2>1, NotAheadAppend DEF OrderInv, NoneAhead
<1>11. NoneAhead'
  BY <1>1, <1>10 DEF OrderInv, NoneAhead, NotAhead
<1> QED BY <1>1, <1>9, <1>11 DEF OrderInv, OverTcp

(* The answer goes to the end of the queue its channel's answers wait in;  *)
(* the other queue holds none of this channel.                             *)
LEMMA ProcessOrder ==
  ASSUME OrderInv, ProcessUdsRequest
  PROVE  OverTcp' /\ NoneAhead' /\ \A d \in Channels : Line(d)'
<1> DEFINE event == Head(uds_queue)
           c == event.client
<1>1. PICK out \in processUdsRequest(m_session, event.req) :
        PostAnswer(c, [client |-> c, response |-> out.response, tag |-> event.tag])
  BY DEF ProcessUdsRequest, Finish
<1> DEFINE a == [client |-> c, response |-> out.response, tag |-> event.tag]
<1>2. /\ uds_queue # <<>> /\ uds_queue' = Tail(uds_queue)
      /\ UNCHANGED <<asked, to_tester, to_server>>
  BY ProcessKeeps
<1>3. uds_queue \in Seq(Events)
  BY LineFacts
<1>4. c \in Channels /\ event.tag.channel = c
  <2>1. event = uds_queue[1] /\ 1 \in 1..Len(uds_queue) /\ uds_queue[1] \in Events
    BY <1>2, <1>3, TailElements
  <2> HIDE DEF event
  <2> QED BY <2>1, LineFacts DEF Events
<1>5. a.tag = event.tag /\ a.client = c
  OBVIOUS
<1>6. PostAnswer(c, a)
  BY <1>1
<1> HIDE DEF a, c
<1>7. /\ answer_queue \in Seq(Answers \union {a}) /\ a \in Answers \union {a}
      /\ can_answers \in Seq(Answers \union {a})
  BY LineFacts
<1>9. /\ AnswersOf(c) \in Seq(Answers \union {a})
      /\ c = CAN => /\ can_answers' \in {AnswersOf(c), Append(AnswersOf(c), a)}
                    /\ answer_queue' = answer_queue
      /\ c # CAN => /\ answer_queue' \in {AnswersOf(c), Append(AnswersOf(c), a)}
                    /\ can_answers' = can_answers
  BY <1>6, <1>7 DEF PostAnswer, AnswersOf
<1>10. \A d \in Channels : InLine(to_tester[d], AnswersOf(d), Tail(uds_queue),
                                  to_server[d], d)
  BY <1>2, <1>3, TailInLine DEF OrderInv, Line, InLine
<1>11. InLine(to_tester[c], Append(AnswersOf(c), a), Tail(uds_queue), to_server[c], c)
  <2>1. InLine(to_tester[c], AnswersOf(c), uds_queue, to_server[c], c)
    BY <1>4 DEF OrderInv, Line
  <2>2. /\ Above(to_tester[c], a.tag, c) /\ Above(AnswersOf(c), a.tag, c)
        /\ Below(a.tag, Tail(uds_queue), c) /\ Below(a.tag, to_server[c], c)
    BY <1>2, <1>3, <1>5, <2>1, TailInLine DEF InLine
  <2> QED BY <1>4, <1>7, <1>9, <1>10, <2>2, AppendInLine DEF InLine
<1>12. ASSUME NEW d \in Channels, d # c
       PROVE  InLine(to_tester[d], Append(AnswersOf(d), a), Tail(uds_queue),
                     to_server[d], d)
  <2>1. \A q : Above(q, a.tag, d) /\ Below(a.tag, q, d)
    BY <1>4, <1>5, <1>12, OffChannel
  <2>2. AnswersOf(d) \in Seq(Answers \union {a})
    BY <1>7 DEF AnswersOf
  <2> QED BY <1>7, <1>10, <1>12, <2>1, <2>2, AppendInLine DEF InLine
<1>13. \A d \in Channels :
         (IF d = CAN THEN can_answers' ELSE answer_queue')
           \in {AnswersOf(d), Append(AnswersOf(d), a)}
  BY <1>9 DEF AnswersOf
<1>15. \A d \in Channels :
         InLine(to_tester[d], IF d = CAN THEN can_answers' ELSE answer_queue',
                Tail(uds_queue), to_server[d], d)
  BY <1>4, <1>10, <1>11, <1>12, <1>13
<1>16. \A d \in Channels : Line(d)'
  BY <1>2, <1>15 DEF Line, AnswersOf
<1>17. NotAhead(Tail(uds_queue)) /\ NotAhead(answer_queue') /\ NotAhead(can_answers')
  <2>1. NotAhead(Tail(uds_queue)) /\ a.tag.n <= asked[a.tag.tester]
    BY <1>2, <1>3, <1>5, NotAheadTail DEF OrderInv, NoneAhead
  <2>2. NotAhead(Append(answer_queue, a)) /\ NotAhead(Append(can_answers, a))
    BY <1>7, <2>1, NotAheadAppend DEF OrderInv, NoneAhead
  <2> QED BY <1>6, <2>1, <2>2 DEF PostAnswer, OrderInv, NoneAhead
<1>18. NoneAhead'
  BY <1>2, <1>17 DEF OrderInv, NoneAhead, NotAhead
<1>19. OverTcp'
  <2>1. CASE c = CAN
    BY <1>9, <2>1 DEF OrderInv, OverTcp
  <2>2. CASE c # CAN
    <3>1. answer_queue' \in {answer_queue, Append(answer_queue, a)}
      BY <1>9, <2>2 DEF AnswersOf
    <3>2. \A i \in 1..Len(Append(answer_queue, a)) :
            Append(answer_queue, a)[i].client # CAN
      BY <1>5, <1>7, <2>2, AppendElements DEF OrderInv, OverTcp
    <3> QED BY <3>1, <3>2 DEF OrderInv, OverTcp
  <2> QED BY <2>1, <2>2
<1> QED BY <1>16, <1>18, <1>19

(* The head of the channel's answers goes to the tester or is dropped; the *)
(* other channels may share the queue it leaves.                           *)
LEMMA TransmitOrder ==
  ASSUME OrderInv, NEW c \in Channels, AnswersOf(c) # <<>>,
         Head(AnswersOf(c)).tag.channel = c,
         Transmit(c, Head(AnswersOf(c))) \/ to_tester' = to_tester,
         NEW after, after \in [Channels -> Seq(Answers)],
         after[c] = Tail(AnswersOf(c)),
         \A d \in Channels : 
            \/ after[d] = AnswersOf(d)
            \/ AnswersOf(d) # <<>> /\ after[d] = Tail(AnswersOf(d))
  PROVE  /\ \A d \in Channels :
              InLine(to_tester'[d], after[d], uds_queue, to_server[d], d)
         /\ \A d \in Channels : NotAhead(to_tester'[d]) /\ NotAhead(after[d])
<1> DEFINE answer == Head(AnswersOf(c))
           m == [raw |-> serializeUDSMessage(answer.response),
                 response |-> answer.response, tag |-> answer.tag]
<1>1. \/ to_tester' = to_tester
      \/ to_tester' = [to_tester EXCEPT ![c] = Append(to_tester[c], m)]
  BY DEF Transmit
<1>2. m.tag = answer.tag /\ answer.tag.channel = c
  OBVIOUS
<1> HIDE DEF m
<1>3. to_tester[c] \in Seq(ToTester \union {m}) /\ m \in ToTester \union {m}
  BY LineFacts
<1>4. /\ to_tester'[c] \in {to_tester[c], Append(to_tester[c], m)}
      /\ \A d \in Channels : d # c => to_tester'[d] = to_tester[d]
  BY <1>1, LineFacts
<1>5. \A d \in Channels : InLine(to_tester[d], after[d], uds_queue, to_server[d], d)
  <2>1. SUFFICES ASSUME NEW d \in Channels
                 PROVE  InLine(to_tester[d], after[d], uds_queue, to_server[d], d)
    OBVIOUS
  <2>2. InLine(to_tester[d], AnswersOf(d), uds_queue, to_server[d], d)
    BY DEF OrderInv, Line
  <2>3. AnswersOf(d) \in Seq(Answers)
    BY LineFacts
  <2>4. AnswersOf(d) # <<>> =>
          InLine(to_tester[d], Tail(AnswersOf(d)), uds_queue, to_server[d], d)
    BY <2>2, <2>3, TailInLine DEF InLine
  <2> QED BY <2>2, <2>4
<1>6. InLine(Append(to_tester[c], m), after[c], uds_queue, to_server[c], c)
  <2>1. InLine(to_tester[c], AnswersOf(c), uds_queue, to_server[c], c)
    BY DEF OrderInv, Line
  <2>2. AnswersOf(c) \in Seq(Answers)
    BY LineFacts
  <2>3. /\ Above(to_tester[c], m.tag, c) /\ Below(m.tag, after[c], c)
        /\ Below(m.tag, uds_queue, c) /\ Below(m.tag, to_server[c], c)
    BY <1>2, <2>1, <2>2, TailInLine DEF InLine
  <2> QED BY <1>3, <1>5, <2>3, AppendInLine DEF InLine
<1>7. NotAhead(Append(to_tester[c], m))
  <2>1. m.tag.n <= asked[m.tag.tester]
    <3>1. NotAhead(AnswersOf(c)) /\ AnswersOf(c) \in Seq(Answers)
      BY LineFacts DEF OrderInv, NoneAhead, AnswersOf
    <3> QED BY <1>2, <3>1, NotAheadTail
  <2> QED BY <1>3, <2>1, NotAheadAppend DEF OrderInv, NoneAhead
<1>8. \A d \in Channels : NotAhead(after[d])
  <2>1. \A d \in Channels : NotAhead(AnswersOf(d)) /\ AnswersOf(d) \in Seq(Answers)
    BY LineFacts DEF OrderInv, NoneAhead, AnswersOf
  <2> QED BY <2>1, NotAheadTail
<1> QED BY <1>4, <1>5, <1>6, <1>7, <1>8 DEF OrderInv, NoneAhead

LEMMA SendTcpOrder ==
  ASSUME OrderInv, SendTcpResponse
  PROVE  OverTcp' /\ NoneAhead' /\ \A d \in Channels : Line(d)'
<1> DEFINE answer == Head(answer_queue)
           c == answer.client
           after == [d \in Channels |-> IF d = CAN THEN can_answers
                                        ELSE Tail(answer_queue)]
<1>1. /\ answer_queue # <<>> /\ answer_queue' = Tail(answer_queue)
      /\ UNCHANGED <<asked, to_server, uds_queue, can_answers>>
      /\ Transmit(c, answer) \/ to_tester' = to_tester
  BY DEF SendTcpResponse, tester_vars
<1>2. /\ answer_queue \in Seq(Answers) /\ can_answers \in Seq(Answers)
      /\ Tail(answer_queue) \in Seq(Answers)
  BY <1>1, LineFacts, QueueTypes
<1>3. c \in Channels /\ c # CAN /\ answer.tag.channel = c
  <2>1. /\ answer = answer_queue[1] /\ 1 \in 1..Len(answer_queue)
        /\ answer_queue[1] \in Answers
    BY <1>1, <1>2, TailElements
  <2> HIDE DEF answer
  <2> QED BY <2>1, LineFacts DEF Answers
<1> HIDE DEF c
<1>4. AnswersOf(c) = answer_queue
  BY <1>3 DEF AnswersOf
<1>5. after \in [Channels -> Seq(Answers)]
  BY <1>2
<1>6. after[c] = Tail(AnswersOf(c))
  BY <1>3, <1>4
<1>7. \A d \in Channels : \/ after[d] = AnswersOf(d)
                          \/ AnswersOf(d) # <<>> /\ after[d] = Tail(AnswersOf(d))
  BY <1>1 DEF AnswersOf
<1>8. \A d \in Channels : after[d] = IF d = CAN THEN can_answers' ELSE answer_queue'
  BY <1>1
<1> HIDE DEF after
<1>9. /\ \A d \in Channels :
           InLine(to_tester'[d], after[d], uds_queue, to_server[d], d)
      /\ \A d \in Channels : NotAhead(to_tester'[d]) /\ NotAhead(after[d])
  BY <1>1, <1>3, <1>4, <1>5, <1>6, <1>7, TransmitOrder
<1>10. \A d \in Channels : Line(d)'
  BY <1>1, <1>8, <1>9 DEF Line, AnswersOf
<1>11. NotAhead(answer_queue')
  BY <1>3, <1>8, <1>9
<1>12. NoneAhead'
  BY <1>1, <1>9, <1>11 DEF OrderInv, NoneAhead, NotAhead
<1>13. OverTcp'
  BY <1>1, <1>2, TailElements DEF OrderInv, OverTcp
<1> QED BY <1>10, <1>12, <1>13

LEMMA SendCanOrder ==
  ASSUME OrderInv, SendCanResponse
  PROVE  OverTcp' /\ NoneAhead' /\ \A d \in Channels : Line(d)'
<1> DEFINE after == [d \in Channels |-> IF d = CAN THEN Tail(can_answers)
                                        ELSE answer_queue]
<1>1. /\ can_answers # <<>> /\ can_answers' = Tail(can_answers)
      /\ UNCHANGED <<asked, to_server, uds_queue, answer_queue>>
      /\ Transmit(CAN, Head(can_answers)) \/ to_tester' = to_tester
  BY DEF SendCanResponse, tester_vars
<1>2. /\ answer_queue \in Seq(Answers) /\ can_answers \in Seq(Answers)
      /\ Tail(can_answers) \in Seq(Answers)
  BY <1>1, LineFacts, QueueTypes
<1>3. CAN \in Channels /\ Head(can_answers).tag.channel = CAN
  BY <1>1, <1>2, TailElements, LineFacts DEF Channels
<1>4. AnswersOf(CAN) = can_answers
  BY DEF AnswersOf
<1>5. after \in [Channels -> Seq(Answers)]
  BY <1>2
<1>6. after[CAN] = Tail(AnswersOf(CAN))
  BY <1>3, <1>4
<1>7. \A d \in Channels : \/ after[d] = AnswersOf(d)
                          \/ AnswersOf(d) # <<>> /\ after[d] = Tail(AnswersOf(d))
  BY <1>1 DEF AnswersOf
<1>8. \A d \in Channels : after[d] = IF d = CAN THEN can_answers' ELSE answer_queue'
  BY <1>1
<1> HIDE DEF after
<1>9. /\ \A d \in Channels :
           InLine(to_tester'[d], after[d], uds_queue, to_server[d], d)
      /\ \A d \in Channels : NotAhead(to_tester'[d]) /\ NotAhead(after[d])
  BY <1>1, <1>3, <1>4, <1>5, <1>6, <1>7, TransmitOrder
<1>10. \A d \in Channels : Line(d)'
  BY <1>1, <1>8, <1>9 DEF Line, AnswersOf
<1>11. NotAhead(can_answers')
  BY <1>3, <1>8, <1>9
<1>12. NoneAhead'
  BY <1>1, <1>9, <1>11 DEF OrderInv, NoneAhead, NotAhead
<1> QED BY <1>1, <1>10, <1>12 DEF OrderInv, OverTcp

LEMMA ReceiveOrder ==
  ASSUME OrderInv, NEW t \in Testers, Receive(t)
  PROVE  OverTcp' /\ NoneAhead' /\ \A d \in Channels : Line(d)'
<1> DEFINE c == connection[t]
<1>1. /\ c \in Channels /\ to_tester[c] # <<>>
      /\ to_tester' = [to_tester EXCEPT ![c] = Tail(to_tester[c])]
      /\ UNCHANGED <<asked, to_server, uds_queue, answer_queue, can_answers>>
  BY DEF OrderInv, AnswerInv, SessionInv, TypeOK, Receive, Connected
<1> HIDE DEF c
<1>2. to_tester[c] \in Seq(ToTester)
  BY <1>1, LineFacts
<1>3. /\ to_tester'[c] = Tail(to_tester[c])
      /\ \A d \in Channels : d # c => to_tester'[d] = to_tester[d]
  BY <1>1, LineFacts
<1>4. \A d \in Channels :
        InLine(to_tester'[d], AnswersOf(d), uds_queue, to_server[d], d)
  <2>1. \A d \in Channels :
          InLine(to_tester[d], AnswersOf(d), uds_queue, to_server[d], d)
    BY DEF OrderInv, Line
  <2>2. InLine(Tail(to_tester[c]), AnswersOf(c), uds_queue, to_server[c], c)
    BY <1>1, <1>2, <2>1, TailInLine DEF InLine
  <2> QED BY <1>3, <2>1, <2>2
<1>5. \A d \in Channels : Line(d)'
  BY <1>1, <1>4 DEF Line, AnswersOf
<1>6. \A d \in Channels : NotAhead(to_tester'[d])
  BY <1>1, <1>2, <1>3, NotAheadTail DEF OrderInv, NoneAhead
<1>7. NoneAhead'
  BY <1>1, <1>6 DEF OrderInv, NoneAhead, NotAhead
<1> QED BY <1>1, <1>5, <1>7 DEF OrderInv, OverTcp

LEMMA InitOrder == Init => OrderInv
<1> SUFFICES ASSUME Init PROVE OrderInv
  OBVIOUS
<1>1. AnswerInv
  BY InitAnswers
<1>2. OverTcp /\ NoneAhead
  BY DEF Init, OverTcp, NoneAhead, NotAhead
<1>3. \A c \in Channels : Line(c)
  BY EmptyInLine DEF Init, Line, InLine, AnswersOf
<1> QED BY <1>1, <1>2, <1>3 DEF OrderInv

LEMMA OrderStep ==
  ASSUME OrderInv, SessionInv', [Steps]_vars
  PROVE  OrderInv'
<1>1. AnswerInv' /\ SessionInv'
  BY AnswerStep DEF OrderInv
<1>2. CASE \E t \in Testers : Asks(t) \/ Receive(t)
  BY <1>1, <1>2, AskOrder, ReceiveOrder DEF OrderInv
<1>3. CASE \/ \E t \in Testers : Connect(t) \/ Leave(t)
           \/ \E c \in ClientIds : onClientDisconnected(c)
  BY <1>1, <1>3, ConnectionsOrder DEF OrderInv
<1>4. CASE \E c \in Channels : Arrive(c)
  BY <1>1, <1>4, ArriveOrder DEF OrderInv
<1>5. CASE ProcessUdsRequest \/ SendTcpResponse \/ SendCanResponse
  BY <1>1, <1>5, ProcessOrder, SendTcpOrder, SendCanOrder DEF OrderInv
<1>6. CASE UNCHANGED vars
  BY <1>1, <1>6, LinesStay DEF OrderInv, vars, tester_vars, queues
<1> QED BY <1>2, <1>3, <1>4, <1>5, <1>6 DEF Steps, Server

LEMMA NextOrder == OrderInv /\ [Next]_vars => OrderInv'
<1> SUFFICES ASSUME OrderInv, [Next]_vars PROVE OrderInv'
  OBVIOUS
<1>1. SessionInv'
  BY SessionStep DEF OrderInv, AnswerInv
<1> QED BY <1>1, NextSteps, OrderStep

(* Two queues of the line, one after the other.                            *)
LEMMA JoinInLine ==
  ASSUME NEW A, NEW B, NEW p \in Seq(A), NEW q \in Seq(B), NEW c,
         Rising(p, c), Rising(q, c), Precedes(p, q, c)
  PROVE  /\ Rising(p \o q, c) /\ p \o q \in Seq(A \union B)
         /\ \A s : Precedes(p, s, c) /\ Precedes(q, s, c) => Precedes(p \o q, s, c)
<1>1. /\ Len(p \o q) = Len(p) + Len(q) /\ Len(p) \in Nat /\ Len(q) \in Nat
      /\ \A i \in 1..Len(p \o q) :
           \/ i \in 1..Len(p) /\ (p \o q)[i] = p[i]
           \/ i - Len(p) \in 1..Len(q) /\ (p \o q)[i] = q[i - Len(p)]
  OBVIOUS
<1>2. p \o q \in Seq(A \union B)
  OBVIOUS
<1> DEFINE pq == p \o q
<1>5. /\ Len(p) \in Nat /\ Len(pq) \in Nat
      /\ \A i \in 1..Len(pq) :
           \/ i \in 1..Len(p) /\ pq[i] = p[i]
           \/ i > Len(p) /\ i - Len(p) \in 1..Len(q) /\ pq[i] = q[i - Len(p)]
  BY <1>1
<1> HIDE DEF pq
<1>3. Rising(pq, c)
  <2> SUFFICES ASSUME NEW i \in 1..Len(pq), NEW j \in 1..Len(pq), i < j,
                      pq[i].tag.channel = c, pq[j].tag.channel = c
               PROVE  pq[i].tag.n < pq[j].tag.n
    BY DEF Rising
  <2>1. CASE j \in 1..Len(p) /\ pq[j] = p[j]
    <3>1. i \in 1..Len(p) /\ pq[i] = p[i]
      BY <1>5, <2>1
    <3> QED BY <2>1, <3>1 DEF Rising
  <2>2. CASE j - Len(p) \in 1..Len(q) /\ pq[j] = q[j - Len(p)]
    <3>1. CASE i \in 1..Len(p) /\ pq[i] = p[i]
      BY <2>2, <3>1 DEF Precedes
    <3>2. CASE i - Len(p) \in 1..Len(q) /\ pq[i] = q[i - Len(p)]
      <4>1. i - Len(p) < j - Len(p)
        BY <1>5
      <4> QED BY <2>2, <3>2, <4>1 DEF Rising
    <3> QED BY <1>5, <3>1, <3>2
  <2> QED BY <1>5, <2>1, <2>2
<1>4. \A s : Precedes(p, s, c) /\ Precedes(q, s, c) => Precedes(pq, s, c)
  BY <1>1 DEF Precedes, pq
<1> QED BY <1>2, <1>3, <1>4 DEF pq

LEMMA OrderedPipeline == OrderInv => InRequestOrder
<1> SUFFICES ASSUME OrderInv, NEW c \in Channels PROVE Rising(Pipeline(c), c)
  BY DEF InRequestOrder, Rising
<1> DEFINE p == to_tester[c]  s == to_server[c]  u == uds_queue
           a == answer_queue  b == can_answers
<1>1. /\ p \in Seq(ToTester) /\ a \in Seq(Answers) /\ b \in Seq(Answers)
      /\ u \in Seq(Events) /\ s \in Seq(ToServer)
  BY LineFacts
<1>2. /\ Rising(p, c) /\ Rising(a, c) /\ Rising(b, c) /\ Rising(u, c) /\ Rising(s, c)
      /\ Precedes(p, a, c) /\ Precedes(p, b, c) /\ Precedes(p, u, c) /\ Precedes(p, s, c)
      /\ Precedes(a, b, c) /\ Precedes(a, u, c) /\ Precedes(a, s, c)
      /\ Precedes(b, u, c) /\ Precedes(b, s, c) /\ Precedes(u, s, c)
  <2>1. InLine(p, AnswersOf(c), u, s, c)
    BY DEF OrderInv, Line
  <2>2. CASE c = CAN
    BY <2>1, <2>2, LineFacts DEF InLine, AnswersOf, Rising, Precedes
  <2>3. CASE c # CAN
    BY <2>1, <2>3, LineFacts, SMTT(30) DEF InLine, AnswersOf, Rising, Precedes
  <2> QED BY <2>2, <2>3
<1> HIDE DEF p, a, b, u, s
<1>3. /\ p \o a \in Seq(ToTester \union Answers) /\ Rising(p \o a, c)
      /\ Precedes(p \o a, b, c) /\ Precedes(p \o a, u, c) /\ Precedes(p \o a, s, c)
  BY <1>1, <1>2, JoinInLine
<1> DEFINE pa == p \o a
<1> HIDE DEF pa
<1>4. /\ pa \o b \in Seq((ToTester \union Answers) \union Answers)
      /\ Rising(pa \o b, c) /\ Precedes(pa \o b, u, c) /\ Precedes(pa \o b, s, c)
  BY <1>1, <1>2, <1>3, JoinInLine DEF pa
<1> DEFINE pab == pa \o b
<1> HIDE DEF pab
<1>5. /\ pab \o u \in Seq(((ToTester \union Answers) \union Answers) \union Events)
      /\ Rising(pab \o u, c) /\ Precedes(pab \o u, s, c)
  BY <1>1, <1>2, <1>4, JoinInLine DEF pab
<1> DEFINE pabu == pab \o u
<1> HIDE DEF pabu
<1>6. Rising(pabu \o s, c)
  BY <1>1, <1>2, <1>5, JoinInLine DEF pabu
<1>7. Pipeline(c) = pabu \o s
  BY DEF Pipeline, pabu, pab, pa, p, a, b, u, s
<1> QED BY <1>6, <1>7

(* The answers of a connection come in the order of its requests, and each *)
(* request is somewhere on its way at most once, for any number of testers *)
(* and whatever the three threads do in between.                           *)
THEOREM AnswersInOrder == Spec => []InRequestOrder
  BY NextOrder, InitOrder, OrderedPipeline, PTL DEF Spec
-----------------------------------------------------------------------------
(* The server with its GUI clients.                                        *)

(* Some element of the queue is in S.                                      *)
Hits(q, S) == \E i \in 1..Len(q) : q[i] \in S

LEMMA HitsAppend ==
  ASSUME NEW T, NEW q \in Seq(T), NEW x \in T, NEW S
  PROVE  Hits(Append(q, x), S) <=> Hits(q, S) \/ x \in S
<1>1. /\ Len(Append(q, x)) = Len(q) + 1 /\ Append(q, x)[Len(q) + 1] = x
      /\ \A i \in 1..Len(q) : Append(q, x)[i] = q[i]
  OBVIOUS
<1>2. PICK n \in Nat : n = Len(q)
  OBVIOUS
<1>3. PICK r : r = Append(q, x)
  OBVIOUS
<1>4. Len(r) = n + 1 /\ r[n + 1] = x /\ \A i \in 1..n : r[i] = q[i]
  BY <1>1, <1>2, <1>3
<1>5. \A i \in 1..(n + 1) : i \in 1..n \/ i = n + 1
  OBVIOUS
<1>6. 1..n \subseteq 1..(n + 1) /\ n + 1 \in 1..(n + 1)
  OBVIOUS
<1>7. Hits(r, S) <=> Hits(q, S) \/ x \in S
  BY <1>2, <1>4, <1>5, <1>6 DEF Hits
<1> QED BY <1>3, <1>7

LEMMA HitsTail ==
  ASSUME NEW T, NEW q \in Seq(T), q # <<>>, NEW S
  PROVE  Hits(q, S) <=> Head(q) \in S \/ Hits(Tail(q), S)
<1>1. /\ Len(Tail(q)) = Len(q) - 1 /\ Head(q) = q[1] /\ Len(q) \in Nat /\ Len(q) > 0
      /\ \A i \in 1..Len(Tail(q)) : Tail(q)[i] = q[i + 1]
  OBVIOUS
<1>2. PICK n \in Nat : n = Len(q) /\ n > 0
  BY <1>1
<1>3. PICK r : r = Tail(q)
  OBVIOUS
<1>4. Len(r) = n - 1 /\ \A i \in 1..(n - 1) : r[i] = q[i + 1]
  BY <1>1, <1>2, <1>3
<1>5. ASSUME NEW i \in 1..n, q[i] \in S PROVE Head(q) \in S \/ Hits(r, S)
  <2>1. CASE i = 1
    BY <2>1, <1>1, <1>5
  <2>2. CASE i # 1
    <3>1. i - 1 \in 1..(n - 1) /\ (i - 1) + 1 = i
      BY <2>2, <1>2
    <3>2. r[i - 1] \in S
      BY <3>1, <1>4, <1>5
    <3> QED BY <3>1, <3>2, <1>4 DEF Hits
  <2> QED BY <2>1, <2>2
<1>6. ASSUME NEW i \in 1..(n - 1), r[i] \in S PROVE Hits(q, S)
  <2>1. i + 1 \in 1..n
    BY <1>2
  <2> QED BY <2>1, <1>2, <1>4, <1>6 DEF Hits
<1>7. ASSUME Head(q) \in S PROVE Hits(q, S)
  <2>1. 1 \in 1..n
    BY <1>2
  <2> QED BY <2>1, <1>1, <1>2, <1>7 DEF Hits
<1>8. Hits(r, S) => Hits(q, S)
  BY <1>4, <1>6 DEF Hits
<1>9. Hits(q, S) => Head(q) \in S \/ Hits(r, S)
  BY <1>2, <1>5 DEF Hits
<1> QED BY <1>3, <1>7, <1>8, <1>9

LEMMA HitsNone == \A S : ~Hits(<<>>, S)
<1>1. Len(<<>>) = 0 /\ \A i \in 1..0 : FALSE
  OBVIOUS
<1> QED BY <1>1 DEF Hits

(* The session after a request that is accepted, and after a queue of      *)
(* them, by way of the session after each one.                             *)
After(session, e) ==
  IF e.req.sid = DIAGNOSTIC_SESSION_CONTROL THEN e.req.sub ELSE session

Passes(f, q) == \A i \in 1..Len(q) : f[i + 1] = After(f[i], q[i])

Leads(from, q, to) ==
  \E f : f[1] = from /\ f[Len(q) + 1] = to /\ Passes(f, q)

LEMMA LeadsAppend ==
  ASSUME NEW T, NEW q \in Seq(T), NEW e \in T, NEW from, NEW to, Leads(from, q, to)
  PROVE  Leads(from, Append(q, e), After(to, e))
<1>1. /\ Len(Append(q, e)) = Len(q) + 1 /\ Append(q, e)[Len(q) + 1] = e
      /\ \A i \in 1..Len(q) : Append(q, e)[i] = q[i]
  OBVIOUS
<1>2. PICK n \in Nat : n = Len(q)
  OBVIOUS
<1>3. PICK r : r = Append(q, e)
  OBVIOUS
<1>4. Len(r) = n + 1 /\ r[n + 1] = e /\ \A i \in 1..n : r[i] = q[i]
  BY <1>1, <1>2, <1>3
<1>5. PICK f : f[1] = from /\ f[n + 1] = to /\ \A i \in 1..n : f[i + 1] = After(f[i], q[i])
  BY <1>2 DEF Leads, Passes
<1> DEFINE z == After(to, e)
<1>6. PICK g : g = [i \in 1..(n + 2) |-> IF i = n + 2 THEN z ELSE f[i]]
  OBVIOUS
<1>7. (\A i \in 1..(n + 1) : g[i] = f[i]) /\ g[n + 2] = z
  <2> HIDE DEF z
  <2>1. ASSUME NEW i \in 1..(n + 1) PROVE g[i] = f[i]
    <3>1. i \in 1..(n + 2) /\ i # n + 2
      OBVIOUS
    <3> QED BY <3>1, <1>6
  <2>2. n + 2 \in 1..(n + 2)
    OBVIOUS
  <2> QED BY <2>1, <2>2, <1>6
<1>8. ASSUME NEW i \in 1..(n + 1) PROVE g[i + 1] = After(g[i], r[i])
  <2>1. CASE i = n + 1
    <3>1. g[i + 1] = z /\ g[i] = to /\ r[i] = e
      <4>1. i + 1 = n + 2
        BY <2>1
      <4> HIDE DEF z
      <4> QED BY <4>1, <2>1, <1>4, <1>5, <1>7
    <3> QED BY <3>1
  <2>2. CASE i # n + 1
    <3>1. i \in 1..n /\ i + 1 \in 1..(n + 1)
      BY <2>2
    <3>2. f[i + 1] = After(f[i], q[i])
      BY <3>1, <1>5
    <3>3. g[i + 1] = f[i + 1] /\ g[i] = f[i] /\ r[i] = q[i]
      <4> HIDE DEF z
      <4> QED BY <3>1, <1>4, <1>7
    <3> QED BY <3>2, <3>3
  <2> QED BY <2>1, <2>2
<1>9. g[1] = from /\ g[(n + 1) + 1] = z
  <2>1. (n + 1) + 1 = n + 2 /\ 1 \in 1..(n + 1)
    OBVIOUS
  <2> HIDE DEF z
  <2> QED BY <2>1, <1>5, <1>7
<1>10. Leads(from, r, z)
  <2> HIDE DEF z
  <2>1. Passes(g, r)
    BY <1>4, <1>8 DEF Passes
  <2> QED BY <2>1, <1>4, <1>9 DEF Leads
<1> QED BY <1>3, <1>10

LEMMA LeadsTail ==
  ASSUME NEW T, NEW q \in Seq(T), q # <<>>, NEW from, NEW to, Leads(from, q, to)
  PROVE  Leads(After(from, Head(q)), Tail(q), to)
<1>1. /\ Len(Tail(q)) = Len(q) - 1 /\ Head(q) = q[1] /\ Len(q) \in Nat /\ Len(q) > 0
      /\ \A i \in 1..Len(Tail(q)) : Tail(q)[i] = q[i + 1]
  OBVIOUS
<1>2. PICK n \in Nat : n = Len(q) /\ n > 0
  BY <1>1
<1>3. PICK r : r = Tail(q)
  OBVIOUS
<1>4. Len(r) = n - 1 /\ \A i \in 1..(n - 1) : r[i] = q[i + 1]
  BY <1>1, <1>2, <1>3
<1>5. PICK f : f[1] = from /\ f[n + 1] = to /\ \A i \in 1..n : f[i + 1] = After(f[i], q[i])
  BY <1>2 DEF Leads, Passes
<1>6. PICK g : g = [i \in 1..n |-> f[i + 1]]
  OBVIOUS
<1>7. \A i \in 1..n : g[i] = f[i + 1]
  BY <1>6
<1>8. ASSUME NEW i \in 1..(n - 1) PROVE g[i + 1] = After(g[i], r[i])
  <2>1. i \in 1..n /\ i + 1 \in 1..n
    BY <1>2
  <2> QED BY <2>1, <1>4, <1>5, <1>7
<1>9. g[1] = After(from, Head(q)) /\ g[(n - 1) + 1] = to
  <2>1. 1 \in 1..n /\ n \in 1..n /\ (n - 1) + 1 = n
    BY <1>2
  <2>2. g[1] = f[1 + 1] /\ f[1 + 1] = After(f[1], q[1])
    BY <2>1, <1>5, <1>7
  <2>3. g[n] = f[n + 1]
    BY <2>1, <1>7
  <2> QED BY <2>1, <2>2, <2>3, <1>1, <1>5
<1>10. Passes(g, r)
  BY <1>4, <1>8 DEF Passes
<1>11. Leads(After(from, Head(q)), r, to)
  BY <1>4, <1>9, <1>10 DEF Leads
<1> QED BY <1>3, <1>11

LEMMA LeadsNone == \A from, to : Leads(from, <<>>, to) <=> from = to
<1>1. Len(<<>>) = 0 /\ 0 + 1 = 1 /\ \A i \in 1..0 : FALSE
  OBVIOUS
<1> SUFFICES ASSUME NEW from, NEW to PROVE Leads(from, <<>>, to) <=> from = to
  OBVIOUS
<1>2. Leads(from, <<>>, to) => from = to
  BY <1>1 DEF Leads
<1>3. from = to => Leads(from, <<>>, to)
  <2> SUFFICES ASSUME from = to PROVE Leads(from, <<>>, from)
    OBVIOUS
  <2>1. PICK f : f = [i \in {1} |-> from]
    OBVIOUS
  <2>2. f[1] = from
    BY <2>1
  <2>3. Passes(f, <<>>)
    BY <1>1 DEF Passes
  <2> QED BY <1>1, <2>2, <2>3 DEF Leads
<1> QED BY <1>2, <1>3

(* What a client asks, apart from the default session.                     *)
SessionRequests ==
  {Request(DIAGNOSTIC_SESSION_CONTROL, sub, Nothing) :
     sub \in {PROGRAMMING_SESSION, EXTENDED_DIAGNOSTIC}}

PlainRequests ==
  {Request(SECURITY_ACCESS, 1, Nothing),
   Request(READ_DATA_BY_IDENTIFIER, 0, Did("open")),
   Request(TESTER_PRESENT, 0, Nothing), Request(ECU_RESET, 1, Nothing)}
    \union {Request(SECURITY_ACCESS, 2, Key(s)) : s \in Nat}

ClientRequests == SessionRequests \union PlainRequests

LEMMA SessionRequestIs ==
  ASSUME NEW sub \in Sessions
  PROVE  /\ Request(DIAGNOSTIC_SESSION_CONTROL, sub, Nothing) \in RequestType
         /\ Request(DIAGNOSTIC_SESSION_CONTROL, sub, Nothing).sid = DIAGNOSTIC_SESSION_CONTROL
         /\ Request(DIAGNOSTIC_SESSION_CONTROL, sub, Nothing).sub = sub
<1>1. sub \in 0..255
  BY DEF Sessions, DEFAULT_SESSION, PROGRAMMING_SESSION, EXTENDED_DIAGNOSTIC
<1> QED BY <1>1, NothingType DEF Request, RequestType, DIAGNOSTIC_SESSION_CONTROL

LEMMA SessionRequestsAre ==
  ASSUME NEW req \in SessionRequests
  PROVE  /\ req \in RequestType /\ req.sid = DIAGNOSTIC_SESSION_CONTROL
         /\ req.sub \in {PROGRAMMING_SESSION, EXTENDED_DIAGNOSTIC}
<1>1. PICK sub \in {PROGRAMMING_SESSION, EXTENDED_DIAGNOSTIC} :
        req = Request(DIAGNOSTIC_SESSION_CONTROL, sub, Nothing)
  BY DEF SessionRequests
<1>2. sub \in Sessions
  BY DEF Sessions
<1> QED BY <1>1, <1>2, SessionRequestIs

LEMMA PlainRequestsAre ==
  ASSUME NEW req \in PlainRequests
  PROVE  /\ req \in RequestType
         /\ req.sid \in {SECURITY_ACCESS, READ_DATA_BY_IDENTIFIER, TESTER_PRESENT, ECU_RESET}
         /\ req.sid = SECURITY_ACCESS =>
              \/ req.sub = 1 /\ req.payload = Nothing
              \/ req.sub = 2 /\ req.payload.kind = "key"
<1>1. Nothing \in PayloadType /\ Did("open") \in PayloadType
  BY NothingType DEF Did, PayloadType, Kinds, DidClass
<1>2. CASE req \in {Request(SECURITY_ACCESS, 1, Nothing),
                    Request(READ_DATA_BY_IDENTIFIER, 0, Did("open")),
                    Request(TESTER_PRESENT, 0, Nothing), Request(ECU_RESET, 1, Nothing)}
  BY <1>1, <1>2 DEF Request, RequestType, SECURITY_ACCESS, READ_DATA_BY_IDENTIFIER,
       TESTER_PRESENT, ECU_RESET
<1>3. ASSUME NEW s \in Nat, req = Request(SECURITY_ACCESS, 2, Key(s))
      PROVE  req \in RequestType /\ req.sid = SECURITY_ACCESS /\ req.sub = 2
             /\ req.payload.kind = "key"
  <2>1. Key(s) \in PayloadType /\ Key(s).kind = "key"
    BY DEF Key, PayloadType, Kinds
  <2> QED BY <1>3, <2>1 DEF Request, RequestType, SECURITY_ACCESS
<1> QED BY <1>2, <1>3 DEF PlainRequests

LEMMA ClientRequestsTyped == ClientRequests \subseteq RequestType
BY SessionRequestsAre, PlainRequestsAre DEF ClientRequests

(* The client takes a message for the grant of security access.            *)
Grants(msg) == msg.sid = SECURITY_ACCESS + POSITIVE_RESPONSE_MASK /\ msg.sub = 2

Told(response) == Grants(deserializeUDSMessage(serializeUDSMessage(response)))

LEMMA ToldIs ==
  ASSUME NEW r \in ResponseType
  PROVE  Told(r) <=> /\ r.sub = 2 /\ r.sid # NEGATIVE_RESPONSE
                     /\ r.sid = SECURITY_ACCESS + POSITIVE_RESPONSE_MASK
BY DEF Told, Grants, deserializeUDSMessage, serializeUDSMessage, ResponseType,
       SECURITY_ACCESS, POSITIVE_RESPONSE_MASK, NEGATIVE_RESPONSE

LEMMA RefuseTold ==
  ASSUME NEW s, NEW req \in RequestType, NEW nrc \in 0..255
  PROVE  Refuse(s, req, nrc).session = s /\ ~Told(Refuse(s, req, nrc).response)
<1>1. Refuse(s, req, nrc).response = makeNegativeResponse(req.sid, nrc)
      /\ Refuse(s, req, nrc).session = s
  BY DEF Refuse, Outcome
<1>2. makeNegativeResponse(req.sid, nrc) \in ResponseType
  BY NothingType DEF makeNegativeResponse, ResponseType, RequestType, NEGATIVE_RESPONSE
<1>3. makeNegativeResponse(req.sid, nrc).sid = NEGATIVE_RESPONSE
  BY DEF makeNegativeResponse
<1> QED BY <1>1, <1>2, <1>3, ToldIs

LEMMA OutcomeTold ==
  ASSUME NEW s, NEW req \in RequestType, NEW payload \in PayloadType
  PROVE  /\ Outcome(s, Positive(req, payload)).session = s
         /\ Told(Outcome(s, Positive(req, payload)).response)
              <=> req.sid = SECURITY_ACCESS /\ req.sub = 2
<1>1. Outcome(s, Positive(req, payload)).session = s
      /\ Outcome(s, Positive(req, payload)).response = Positive(req, payload)
  BY DEF Outcome
<1>2. Positive(req, payload) \in ResponseType
  BY DEF Positive, ResponseType, RequestType, POSITIVE_RESPONSE_MASK
<1>3. Positive(req, payload).sid = req.sid + POSITIVE_RESPONSE_MASK
      /\ Positive(req, payload).sub = req.sub
  BY DEF Positive
<1>4. req.sid \in 0..255
  BY DEF RequestType
<1>5. Told(Positive(req, payload)) <=> req.sid = SECURITY_ACCESS /\ req.sub = 2
  BY <1>2, <1>3, <1>4, ToldIs
  DEF SECURITY_ACCESS, POSITIVE_RESPONSE_MASK, NEGATIVE_RESPONSE
<1> QED BY <1>1, <1>5

(* What an answer tells the client of the session: the key was taken, or   *)
(* nothing that it asks apart from the session changes what it sees of it. *)
Tells(s, req, out) ==
  /\ s.isAuthenticated => out.session.isAuthenticated
  /\ Told(out.response) => out.session.isAuthenticated
  /\ out.session.isAuthenticated => s.isAuthenticated \/ Told(out.response)
  /\ req \in PlainRequests => out.session.currentSession = s.currentSession
  /\ req \in SessionRequests /\ s.isAuthenticated
       => out.session.currentSession = req.sub

LEMMA KeptTells ==
  ASSUME NEW s \in SessionState, NEW req \in PlainRequests, NEW out,
         out.session = s, ~Told(out.response)
  PROVE  Tells(s, req, out)
<1>1. req \notin SessionRequests
  <2>1. DIAGNOSTIC_SESSION_CONTROL \notin
          {SECURITY_ACCESS, READ_DATA_BY_IDENTIFIER, TESTER_PRESENT, ECU_RESET}
    BY DEF DIAGNOSTIC_SESSION_CONTROL, SECURITY_ACCESS, READ_DATA_BY_IDENTIFIER,
           TESTER_PRESENT, ECU_RESET
  <2> QED BY <2>1, SessionRequestsAre, PlainRequestsAre
<1> QED BY <1>1 DEF Tells

LEMMA SessionTells ==
  ASSUME NEW s \in SessionState, NEW req \in SessionRequests, NEW seed \in Nat
  PROVE  Tells(s, req, processRequest(s, req, seed))
<1>1. /\ req \in RequestType /\ req.sid = DIAGNOSTIC_SESSION_CONTROL
      /\ req.sub \in {PROGRAMMING_SESSION, EXTENDED_DIAGNOSTIC}
  BY SessionRequestsAre
<1>2. processRequest(s, req, seed) = handleDiagnosticSessionControl(s, req)
  BY <1>1 DEF processRequest, NeedsSession, DIAGNOSTIC_SESSION_CONTROL,
       READ_DATA_BY_IDENTIFIER, WRITE_DATA_BY_IDENTIFIER, ROUTINE_CONTROL,
       SECURITY_ACCESS, TESTER_PRESENT, ECU_RESET
<1>3. req.sub # DEFAULT_SESSION
  BY <1>1 DEF DEFAULT_SESSION, PROGRAMMING_SESSION, EXTENDED_DIAGNOSTIC
<1>4. req \notin PlainRequests
  BY <1>1, PlainRequestsAre DEF DIAGNOSTIC_SESSION_CONTROL, SECURITY_ACCESS,
       READ_DATA_BY_IDENTIFIER, TESTER_PRESENT, ECU_RESET
<1>5. CASE s.isAuthenticated
  <2> DEFINE enter == [s EXCEPT !.currentSession = req.sub]
  <2>1. processRequest(s, req, seed) = Outcome(enter, Positive(req, Nothing))
    BY <1>1, <1>2, <1>3, <1>5 DEF handleDiagnosticSessionControl
  <2>2. enter.currentSession = req.sub /\ enter.isAuthenticated = s.isAuthenticated
    BY DEF SessionState
  <2> HIDE DEF enter
  <2>3. processRequest(s, req, seed).session = enter
    BY <2>1, <1>1, OutcomeTold, NothingType
  <2> QED BY <2>2, <2>3, <1>4, <1>5 DEF Tells
<1>6. CASE ~s.isAuthenticated
  <2>1. processRequest(s, req, seed) = Refuse(s, req, SECURITY_ACCESS_DENIED)
    BY <1>1, <1>2, <1>3, <1>6 DEF handleDiagnosticSessionControl
  <2>2. /\ processRequest(s, req, seed).session = s
        /\ ~Told(processRequest(s, req, seed).response)
    BY <2>1, <1>1, RefuseTold DEF SECURITY_ACCESS_DENIED
  <2> QED BY <2>2, <1>4, <1>6 DEF Tells
<1> QED BY <1>5, <1>6

LEMMA SecurityTells ==
  ASSUME NEW s \in SessionState, NEW req \in PlainRequests, NEW seed \in Nat,
         req.sid = SECURITY_ACCESS
  PROVE  Tells(s, req, processRequest(s, req, seed))
<1>1. /\ req \in RequestType
      /\ \/ req.sub = 1 /\ req.payload = Nothing
         \/ req.sub = 2 /\ req.payload.kind = "key"
  BY PlainRequestsAre
<1>2. processRequest(s, req, seed) = handleSecurityAccess(s, req, seed)
  BY DEF processRequest, NeedsSession, DIAGNOSTIC_SESSION_CONTROL,
       READ_DATA_BY_IDENTIFIER, WRITE_DATA_BY_IDENTIFIER, ROUTINE_CONTROL,
       SECURITY_ACCESS, TESTER_PRESENT, ECU_RESET
<1>3. req \notin SessionRequests
  BY SessionRequestsAre DEF DIAGNOSTIC_SESSION_CONTROL, SECURITY_ACCESS
<1>4. CASE req.sub = 1
  <2> DEFINE next == [s EXCEPT !.seed = seed, !.securityLevel = req.sub \div 2 + 1]
  <2>1. req.sub % 2 = 1
    BY <1>4
  <2>2. processRequest(s, req, seed) = Outcome(next, Positive(req, Seed(seed)))
    BY <1>2, <2>1 DEF handleSecurityAccess
  <2>3. next.currentSession = s.currentSession /\ next.isAuthenticated = s.isAuthenticated
    BY DEF SessionState
  <2>4. Seed(seed) \in PayloadType
    BY DEF Seed, PayloadType, Kinds
  <2> HIDE DEF next
  <2>5. /\ processRequest(s, req, seed).session = next
        /\ ~Told(processRequest(s, req, seed).response)
    BY <2>2, <2>4, <1>1, <1>4, OutcomeTold
  <2> QED BY <2>3, <2>5, <1>3 DEF Tells
<1>5. CASE req.sub = 2 /\ req.payload.kind = "key"
  <2>0. req.sub % 2 = 0 /\ req.sub % 2 # 1
    BY <1>5
  <2>1. CASE req.payload = Key(s.seed)
    <3> DEFINE granted == [s EXCEPT !.isAuthenticated = TRUE]
    <3>1. processRequest(s, req, seed) = Outcome(granted, Positive(req, Nothing))
      BY <1>2, <1>5, <2>0, <2>1 DEF handleSecurityAccess
    <3>2. granted.currentSession = s.currentSession /\ granted.isAuthenticated
      BY DEF SessionState
    <3> HIDE DEF granted
    <3>3. /\ processRequest(s, req, seed).session = granted
          /\ Told(processRequest(s, req, seed).response)
      BY <3>1, <1>1, <1>5, OutcomeTold, NothingType
    <3> QED BY <3>2, <3>3, <1>3 DEF Tells
  <2>2. CASE req.payload # Key(s.seed)
    <3>1. processRequest(s, req, seed) = Refuse(s, req, INVALID_KEY)
      BY <1>2, <1>5, <2>0, <2>2 DEF handleSecurityAccess
    <3>2. /\ processRequest(s, req, seed).session = s
          /\ ~Told(processRequest(s, req, seed).response)
      BY <3>1, <1>1, RefuseTold DEF INVALID_KEY
    <3> QED BY <3>2, KeptTells
  <2> QED BY <2>1, <2>2
<1> QED BY <1>1, <1>4, <1>5

LEMMA ReadTells ==
  ASSUME NEW s \in SessionState, NEW req \in PlainRequests, NEW seed \in Nat,
         req.sid = READ_DATA_BY_IDENTIFIER
  PROVE  Tells(s, req, processRequest(s, req, seed))
<1>1. req \in RequestType /\ req.payload \in PayloadType
  BY PlainRequestsAre DEF RequestType
<1>2. \/ processRequest(s, req, seed) = handleReadDataByIdentifier(s, req)
      \/ processRequest(s, req, seed)
           = Refuse(s, req, SUB_FUNCTION_NOT_SUPPORTED_IN_ACTIVE_SESSION)
  BY DEF processRequest, NeedsSession, DIAGNOSTIC_SESSION_CONTROL,
       READ_DATA_BY_IDENTIFIER, WRITE_DATA_BY_IDENTIFIER, ROUTINE_CONTROL,
       SECURITY_ACCESS, TESTER_PRESENT, ECU_RESET
<1>3. \A nrc \in 0..255 : Tells(s, req, Refuse(s, req, nrc))
  BY <1>1, RefuseTold, KeptTells
<1>4. Tells(s, req, Outcome(s, Positive([req EXCEPT !.sub = 0], req.payload)))
  <2> DEFINE r == [req EXCEPT !.sub = 0]
  <2>1. r \in RequestType /\ r.sid = req.sid
    BY <1>1 DEF RequestType
  <2> HIDE DEF r
  <2>2. r.sid # SECURITY_ACCESS
    BY <2>1 DEF SECURITY_ACCESS, READ_DATA_BY_IDENTIFIER
  <2>3. /\ Outcome(s, Positive(r, req.payload)).session = s
        /\ ~Told(Outcome(s, Positive(r, req.payload)).response)
    BY <2>1, <2>2, <1>1, OutcomeTold
  <2>4. Tells(s, req, Outcome(s, Positive(r, req.payload)))
    BY <2>3, KeptTells
  <2> QED BY <2>4 DEF r
<1>5. \/ handleReadDataByIdentifier(s, req)
           = Outcome(s, Positive([req EXCEPT !.sub = 0], req.payload))
      \/ handleReadDataByIdentifier(s, req) = Refuse(s, req, INCORRECT_MESSAGE_LENGTH)
      \/ handleReadDataByIdentifier(s, req) = Refuse(s, req, REQUEST_OUT_OF_RANGE)
      \/ handleReadDataByIdentifier(s, req) = Refuse(s, req, SECURITY_ACCESS_DENIED)
  <2>1. CASE req.payload.kind \notin DidClass
    BY <2>1 DEF handleReadDataByIdentifier, DidClass
  <2>2. CASE req.payload.kind = "unknown"
    BY <2>2 DEF handleReadDataByIdentifier, DidClass
  <2>3. CASE req.payload.kind = "restricted" /\ ~s.isAuthenticated
    BY <2>3 DEF handleReadDataByIdentifier, DidClass
  <2>4. CASE /\ req.payload.kind \in DidClass /\ req.payload.kind # "unknown"
             /\ ~(req.payload.kind = "restricted" /\ ~s.isAuthenticated)
    BY <2>4 DEF handleReadDataByIdentifier
  <2> QED BY <2>1, <2>2, <2>3, <2>4
<1>6. {INCORRECT_MESSAGE_LENGTH, REQUEST_OUT_OF_RANGE, SECURITY_ACCESS_DENIED,
       SUB_FUNCTION_NOT_SUPPORTED_IN_ACTIVE_SESSION} \subseteq 0..255
  BY DEF INCORRECT_MESSAGE_LENGTH, REQUEST_OUT_OF_RANGE, SECURITY_ACCESS_DENIED,
         SUB_FUNCTION_NOT_SUPPORTED_IN_ACTIVE_SESSION
<1> QED BY <1>2, <1>3, <1>4, <1>5, <1>6

LEMMA OtherTells ==
  ASSUME NEW s \in SessionState, NEW req \in PlainRequests, NEW seed \in Nat,
         req.sid \in {TESTER_PRESENT, ECU_RESET}
  PROVE  Tells(s, req, processRequest(s, req, seed))
<1>1. req \in RequestType
  BY PlainRequestsAre
<1>2. \/ processRequest(s, req, seed) = handleTesterPresent(s, req)
      \/ processRequest(s, req, seed) = handleECUReset(s, req)
  BY DEF processRequest, NeedsSession, DIAGNOSTIC_SESSION_CONTROL,
       READ_DATA_BY_IDENTIFIER, WRITE_DATA_BY_IDENTIFIER, ROUTINE_CONTROL,
       SECURITY_ACCESS, TESTER_PRESENT, ECU_RESET
<1>3. \/ processRequest(s, req, seed) = Outcome(s, Positive(req, Nothing))
      \/ processRequest(s, req, seed) = Refuse(s, req, SUB_FUNCTION_NOT_SUPPORTED)
  BY <1>2 DEF handleTesterPresent, handleECUReset
<1>4. req.sid # SECURITY_ACCESS
  BY DEF SECURITY_ACCESS, TESTER_PRESENT, ECU_RESET
<1>5. /\ processRequest(s, req, seed).session = s
      /\ ~Told(processRequest(s, req, seed).response)
  BY <1>1, <1>3, <1>4, OutcomeTold, RefuseTold, NothingType, SMTT(30) DEF SUB_FUNCTION_NOT_SUPPORTED
<1> QED BY <1>5, KeptTells

LEMMA RequestTells ==
  ASSUME NEW s \in SessionState, NEW req \in ClientRequests, NEW seed \in Nat
  PROVE  Tells(s, req, processRequest(s, req, seed))
BY SessionTells, SecurityTells, ReadTells, OtherTells, PlainRequestsAre
DEF ClientRequests
-----------------------------------------------------------------------------
(* Types of the client.                                                    *)
Shown == [msg : {deserializeUDSMessage(raw) : raw \in RawType}, response : ResponseType]

GuiTypeOK ==
  /\ securityAccessCompleted \in [Testers -> BOOLEAN]
  /\ pendingOperation \in [Testers -> {None} \union Sessions]
  /\ currentSession \in [Testers -> Sessions]
  /\ gui_queue \in [Testers -> Seq(Shown)]

LEMMA ShownType ==
  ASSUME NEW raw \in RawType, NEW response \in ResponseType
  PROVE  [msg |-> deserializeUDSMessage(raw), response |-> response] \in Shown
BY DEF Shown

LEMMA ShownPayload ==
  ASSUME NEW g \in Shown
  PROVE  g.msg.payload.value \in Nat
<1>1. PICK raw \in RawType : g.msg = deserializeUDSMessage(raw)
  BY DEF Shown
<1>2. deserializeUDSMessage(raw).payload = raw.payload
  BY DEF deserializeUDSMessage
<1> QED BY <1>1, <1>2 DEF RawType, PayloadType

(* A click and an answer make one request, or none.                        *)
PostsSome(t) ==
  \/ \E req \in RequestType : Ask(t, req)
  \/ UNCHANGED <<asked, to_server>>

LEMMA PostSome ==
  ASSUME NEW t, NEW req \in RequestType, Post(t, req)
  PROVE  PostsSome(t)
BY DEF Post, PostsSome

LEMMA SessionRange ==
  /\ DEFAULT_SESSION \in Sessions /\ PROGRAMMING_SESSION \in Sessions
  /\ EXTENDED_DIAGNOSTIC \in Sessions
BY DEF Sessions

LEMMA PlainTyped ==
  /\ Request(SECURITY_ACCESS, 1, Nothing) \in RequestType
  /\ Request(READ_DATA_BY_IDENTIFIER, 0, Did("open")) \in RequestType
  /\ Request(TESTER_PRESENT, 0, Nothing) \in RequestType
  /\ Request(ECU_RESET, 1, Nothing) \in RequestType
  /\ \A s \in Nat : Request(SECURITY_ACCESS, 2, Key(s)) \in RequestType
BY PlainRequestsAre DEF PlainRequests

FlagTypes ==
  /\ securityAccessCompleted \in [Testers -> BOOLEAN]
  /\ pendingOperation \in [Testers -> {None} \union Sessions]
  /\ currentSession \in [Testers -> Sessions]

LEMMA SwitchTypes ==
  ASSUME FlagTypes, NEW t \in Testers, NEW sub \in Sessions, SwitchSession(t, sub)
  PROVE  /\ PostsSome(t)
         /\ pendingOperation' \in [Testers -> {None} \union Sessions]
         /\ currentSession' \in [Testers -> Sessions]
<1>1. PostsSome(t)
  BY SessionRequestIs, PostSome DEF SwitchSession
<1> QED BY <1>1 DEF SwitchSession, FlagTypes

LEMMA EnterTypes ==
  ASSUME FlagTypes, NEW t \in Testers, NEW sub \in Sessions, enterSession(t, sub)
  PROVE  PostsSome(t) /\ FlagTypes'
<1>1. CASE sub # DEFAULT_SESSION /\ ~securityAccessCompleted[t]
  <2>1. PostsSome(t)
    BY <1>1, PlainTyped, PostSome DEF enterSession, requestSecurityAccess
  <2>2. pendingOperation' \in [Testers -> {None} \union Sessions]
    BY <1>1 DEF enterSession, FlagTypes
  <2> QED BY <1>1, <2>1, <2>2 DEF enterSession, FlagTypes
<1>2. CASE ~(sub # DEFAULT_SESSION /\ ~securityAccessCompleted[t])
  <2>1. SwitchSession(t, sub)
    BY <1>2 DEF enterSession
  <2>2. securityAccessCompleted' \in [Testers -> BOOLEAN]
    <3>1. securityAccessCompleted' = [securityAccessCompleted EXCEPT ![t] =
            securityAccessCompleted[t] /\ sub # DEFAULT_SESSION]
      BY <1>2 DEF enterSession
    <3>2. (securityAccessCompleted[t] /\ sub # DEFAULT_SESSION) \in BOOLEAN
      OBVIOUS
    <3> QED BY <3>1, <3>2 DEF FlagTypes
  <2> QED BY <2>1, <2>2, SwitchTypes DEF FlagTypes
<1> QED BY <1>1, <1>2

LEMMA SendTypes ==
  ASSUME FlagTypes, NEW t \in Testers, NEW req \in RequestType, sendUDSRequest(t, req)
  PROVE  PostsSome(t) /\ FlagTypes'
<1>1. PostsSome(t)
  BY PostSome DEF sendUDSRequest, PostsSome
<1> QED BY <1>1 DEF sendUDSRequest, gui_flags, FlagTypes

LEMMA PressIs ==
  ASSUME NEW t, NEW button \in Buttons, Press(t, button)
  PROVE  \/ enterSession(t, EXTENDED_DIAGNOSTIC)
         \/ enterSession(t, PROGRAMMING_SESSION)
         \/ button = "Default" /\ enterSession(t, DEFAULT_SESSION)
         \/ sendUDSRequest(t, Request(READ_DATA_BY_IDENTIFIER, 0, Did("open")))
         \/ sendUDSRequest(t, Request(TESTER_PRESENT, 0, Nothing))
         \/ sendUDSRequest(t, Request(ECU_RESET, 1, Nothing))
BY DEF Press, Buttons

LEMMA ClickTypes ==
  ASSUME FlagTypes, NEW t \in Testers, Click(t)
  PROVE  PostsSome(t) /\ FlagTypes'
<1>1. PICK button \in Clicks : Press(t, button)
  BY DEF Click
<1>2. button \in Buttons
  BY SystemAssumption
<1> QED BY <1>1, <1>2, PressIs, EnterTypes, SendTypes, SessionRange, PlainTyped

LEMMA HandleTypes ==
  ASSUME GuiTypeOK, NEW t \in Testers, onUdsMessageReceived(t)
  PROVE  PostsSome(t) /\ FlagTypes'
<1>0. FlagTypes
  BY DEF GuiTypeOK, FlagTypes
<1> DEFINE msg == Head(gui_queue[t]).msg
<1>1. OnSeed(t, msg) \/ OnAccessGranted(t, msg) \/ OnShown(msg)
  BY DEF onUdsMessageReceived
<1>2. msg.payload.value \in Nat
  <2>1. gui_queue[t] \in Seq(Shown) /\ gui_queue[t] # <<>>
    BY DEF GuiTypeOK, onUdsMessageReceived
  <2>2. Head(gui_queue[t]) \in Shown
    BY <2>1
  <2> QED BY <2>2, ShownPayload
<1> HIDE DEF msg
<1>3. CASE OnSeed(t, msg)
  <2>1. PostsSome(t)
    BY <1>2, <1>3, PlainTyped, PostSome DEF OnSeed
  <2> QED BY <2>1, <1>0, <1>3 DEF OnSeed, gui_flags, FlagTypes
<1>4. CASE OnAccessGranted(t, msg)
  <2>1. securityAccessCompleted' \in [Testers -> BOOLEAN]
    BY <1>0, <1>4 DEF OnAccessGranted, FlagTypes
  <2>2. CASE pendingOperation[t] # None
    <3>1. SwitchSession(t, pendingOperation[t]) /\ pendingOperation[t] \in Sessions
      BY <1>0, <1>4, <2>2 DEF OnAccessGranted, FlagTypes
    <3> QED BY <3>1, <2>1, <1>0, SwitchTypes DEF FlagTypes
  <2>3. CASE pendingOperation[t] = None
    BY <1>0, <1>4, <2>1, <2>3 DEF OnAccessGranted, FlagTypes, PostsSome
  <2> QED BY <2>2, <2>3
<1>5. CASE OnShown(msg)
  BY <1>0, <1>5 DEF OnShown, PostsSome, gui_flags, FlagTypes
<1> QED BY <1>1, <1>3, <1>4, <1>5

SystemTypes == SessionInv /\ GuiTypeOK

LEMMA GuiParts == GuiTypeOK <=> FlagTypes /\ gui_queue \in [Testers -> Seq(Shown)]
BY DEF GuiTypeOK, FlagTypes

LEMMA PostedTypes ==
  ASSUME SessionInv, NEW t \in Testers, PostsSome(t),
         UNCHANGED <<server_vars, connection, last_seed, to_tester>>
  PROVE  SessionInv'
<1>1. /\ asked' \in [Testers -> 0..MaxRequests]
      /\ to_server' \in [Channels -> Seq([req : RequestType, tag : Tag])]
  <2>1. CASE \E req \in RequestType : Ask(t, req)
    BY <2>1, AskTypes
  <2>2. CASE UNCHANGED <<asked, to_server>>
    BY <2>2 DEF SessionInv, TypeOK
  <2> QED BY <2>1, <2>2 DEF PostsSome
<1> QED BY <1>1 DEF SessionInv, TypeOK, SessionNeedsAuth, server_vars

LEMMA GuiQueueTail ==
  ASSUME gui_queue \in [Testers -> Seq(Shown)], NEW t \in Testers,
         gui_queue[t] # <<>>, gui_queue' = [gui_queue EXCEPT ![t] = Tail(@)]
  PROVE  gui_queue' \in [Testers -> Seq(Shown)]
<1>1. Tail(gui_queue[t]) \in Seq(Shown)
  BY QueueTypes
<1> QED BY <1>1

LEMMA PostToGuiIs ==
  ASSUME SystemTypes, NEW t \in Testers, PostToGui(t)
  PROVE  /\ connection[t] \in Channels /\ to_tester[connection[t]] # <<>>
         /\ \E g \in Shown :
              /\ g.msg = deserializeUDSMessage(Head(to_tester[connection[t]]).raw)
              /\ gui_queue' = [gui_queue EXCEPT ![t] = Append(gui_queue[t], g)]
<1>1. connection[t] \in Channels /\ to_tester[connection[t]] # <<>>
  BY DEF PostToGui, Receive, Connected, SystemTypes, SessionInv, TypeOK
<1>2. PICK m : m = Head(to_tester[connection[t]])
  OBVIOUS
<1>3. m.raw \in RawType /\ m.response \in ResponseType
  <2>1. to_tester[connection[t]]
          \in Seq([raw : RawType, response : ResponseType, tag : Tag])
    BY <1>1 DEF SystemTypes, SessionInv, TypeOK
  <2>2. m \in [raw : RawType, response : ResponseType, tag : Tag]
    BY <1>1, <1>2, <2>1, QueueTypes
  <2> QED BY <2>2
<1>4. PICK g : g = [msg |-> deserializeUDSMessage(m.raw), response |-> m.response]
  OBVIOUS
<1>5. g \in Shown /\ g.msg = deserializeUDSMessage(m.raw)
  BY <1>3, <1>4, ShownType
<1>6. gui_queue' = [gui_queue EXCEPT ![t] = Append(gui_queue[t], g)]
  BY <1>2, <1>4 DEF PostToGui
<1> QED BY <1>1, <1>2, <1>5, <1>6

LEMMA Players == Guis \subseteq Testers /\ Others \subseteq Testers
BY SystemAssumption DEF Guis

LEMMA SystemTypesStep ==
  ASSUME SystemTypes, [GNext]_system_vars
  PROVE  SystemTypes'
<1>0. SessionInv /\ FlagTypes /\ gui_queue \in [Testers -> Seq(Shown)]
  BY GuiParts DEF SystemTypes
<1>1. ASSUME NEW t \in Testers, Click(t) PROVE SystemTypes'
  <2>1. PostsSome(t) /\ FlagTypes'
    BY <1>0, <1>1, ClickTypes
  <2>2. UNCHANGED <<server_vars, connection, last_seed, to_tester, gui_queue>>
    BY <1>1 DEF Click
  <2>3. SessionInv'
    BY <1>0, <2>1, <2>2, PostedTypes
  <2>4. gui_queue' \in [Testers -> Seq(Shown)]
    BY <1>0, <2>2
  <2> QED BY <2>1, <2>3, <2>4 DEF SystemTypes, GuiTypeOK, FlagTypes
<1>2. ASSUME NEW t \in Testers, onUdsMessageReceived(t) PROVE SystemTypes'
  <2>1. PostsSome(t) /\ FlagTypes'
    BY <1>2, HandleTypes DEF SystemTypes
  <2>2. /\ UNCHANGED <<server_vars, connection, last_seed, to_tester>>
        /\ gui_queue[t] # <<>> /\ gui_queue' = [gui_queue EXCEPT ![t] = Tail(@)]
    BY <1>2 DEF onUdsMessageReceived
  <2>3. SessionInv'
    BY <1>0, <2>1, <2>2, PostedTypes
  <2>4. gui_queue' \in [Testers -> Seq(Shown)]
    BY <1>0, <2>2, GuiQueueTail
  <2> QED BY <2>1, <2>3, <2>4 DEF SystemTypes, GuiTypeOK, FlagTypes
<1>3. ASSUME NEW t \in Testers, PostToGui(t) PROVE SystemTypes'
  <2>1. SessionInv'
    BY <1>0, <1>3, ReceiveSession DEF PostToGui
  <2>2. FlagTypes'
    BY <1>0, <1>3 DEF PostToGui, gui_flags, FlagTypes
  <2>3. PICK g \in Shown : gui_queue' = [gui_queue EXCEPT ![t] = Append(gui_queue[t], g)]
    BY <1>3, PostToGuiIs
  <2>4. gui_queue' \in [Testers -> Seq(Shown)]
    <3>1. Append(gui_queue[t], g) \in Seq(Shown)
      BY <1>0, QueueTypes
    <3> QED BY <1>0, <2>3, <3>1
  <2> QED BY <2>1, <2>2, <2>4 DEF SystemTypes, GuiTypeOK, FlagTypes
<1>4. CASE ((\E t \in Testers : Connect(t) \/ Leave(t)) \/ Server) /\ UNCHANGED gui_vars
  <2>1. SessionInv'
    BY <1>0, <1>4, ConnectSession, LeaveSession, DisconnectedSession, ArriveSession,
       ProcessSession, SendTcpSession, SendCanSession DEF Server
  <2>2. FlagTypes' /\ gui_queue' = gui_queue
    BY <1>0, <1>4 DEF gui_vars, gui_flags, FlagTypes
  <2> QED BY <1>0, <2>1, <2>2 DEF SystemTypes, GuiTypeOK, FlagTypes
<1>5. CASE UNCHANGED system_vars
  BY <1>5 DEF system_vars, vars, tester_vars, queues, gui_vars, gui_flags,
       SystemTypes, GuiTypeOK, SessionInv, TypeOK, SessionNeedsAuth
<1>6. ASSUME NEW t \in Testers, OtherStep(t) PROVE SystemTypes'
  <2>1. SessionInv'
    BY <1>0, <1>6, SendRequestSession, ReceiveSession DEF OtherStep
  <2>2. FlagTypes' /\ gui_queue' = gui_queue
    BY <1>0, <1>6 DEF OtherStep, gui_vars, gui_flags, FlagTypes
  <2> QED BY <1>0, <2>1, <2>2 DEF SystemTypes, GuiTypeOK, FlagTypes
<1> QED BY <1>1, <1>2, <1>3, <1>4, <1>5, <1>6, Players DEF GNext

LEMMA SystemTypesInit ==
  ASSUME GInit
  PROVE  SystemTypes
<1>1. SessionInv
  BY InitSession DEF GInit
<1>2. GuiTypeOK
  BY SessionRange DEF GInit, GuiTypeOK
<1> QED BY <1>1, <1>2 DEF SystemTypes
-----------------------------------------------------------------------------
(* The hypothesis: one client, on TCP, keeps its first connection and      *)
(* never clicks on the default session; no service it asks for throws.     *)
OneClient ==
  /\ \A t, u \in Testers : t = u
  /\ Others = {} /\ CanTesters = {} /\ MaxConnections = 1
  /\ "Default" \notin Clicks
  /\ Throwing \intersect ClientRequests = {}

Only == FirstClientId

LEMMA OnlyChannel ==
  ASSUME OneClient
  PROVE  /\ ClientIds = {Only} /\ Channels = {Only, CAN}
         /\ Only # CAN /\ Only # None /\ CAN # None /\ Only \in Int
BY DEF OneClient, ClientIds, Channels, Only, FirstClientId, CAN, None

ClientAsks == [req : ClientRequests, tag : Tag]
SessionAsks == {m \in ClientAsks : m.req \in SessionRequests}
ClientEvents == [client : {Only}, req : ClientRequests, tag : Tag]
SessionEvents == {e \in ClientEvents : e.req \in SessionRequests}
ClientAnswers == [client : {Only}, response : ResponseType, tag : Tag]
GrantAnswers == {a \in ClientAnswers : Told(a.response)}
GrantBytes == {m \in [raw : RawType, response : ResponseType, tag : Tag] :
                 Grants(deserializeUDSMessage(m.raw))}
GrantShown == {g \in Shown : Grants(g.msg)}

(* Where the connection stands: not made yet, in use, or left for good.    *)
Link(t) ==
  /\ connection[t] \in {None, Only}
  /\ connection[t] = Only => Only \in m_clientMap /\ m_nextClientId # Only

Live(t) == m_nextClientId = Only \/ connection[t] = Only

(* What is under way comes from the client.                                *)
FromClient(t) ==
  /\ to_server[Only] \in Seq(ClientAsks) /\ to_server[CAN] = <<>>
  /\ uds_queue \in Seq(ClientEvents) /\ answer_queue \in Seq(ClientAnswers)
  /\ pendingOperation[t] \in {None, PROGRAMMING_SESSION, EXTENDED_DIAGNOSTIC}
  /\ m_nextClientId = Only =>
       uds_queue = <<>> /\ to_server[Only] = <<>> /\ ~m_session.isAuthenticated

(* The client knows of the authentication, or a grant is on its way.       *)
GrantUnderWay(t) ==
  \/ Hits(answer_queue, GrantAnswers)
  \/ Hits(to_tester[Only], GrantBytes)
  \/ Hits(gui_queue[t], GrantShown)

AccessFollows(t) ==
  m_session.isAuthenticated <=> securityAccessCompleted[t] \/ GrantUnderWay(t)

(* A session is asked for only with access, and what is asked for leads    *)
(* from the session of the server to the one the client believes in.       *)
SessionFollows(t) ==
  /\ Hits(uds_queue, SessionEvents) \/ Hits(to_server[Only], SessionAsks)
       => m_session.isAuthenticated
  /\ \E between : /\ Leads(m_session.currentSession, uds_queue, between)
                  /\ Leads(between, to_server[Only], currentSession[t])

Follows(t) == FromClient(t) /\ AccessFollows(t) /\ SessionFollows(t)

StepInv ==
  /\ SystemTypes
  /\ \A t \in Testers : Link(t) /\ (Live(t) => Follows(t))

LEMMA StepInvInit ==
  ASSUME OneClient, GInit
  PROVE  StepInv
<1>1. SystemTypes
  BY SystemTypesInit
<1> SUFFICES ASSUME NEW t \in Testers PROVE Link(t) /\ Follows(t)
  BY <1>1 DEF StepInv
<1>2. Link(t)
  BY OnlyChannel DEF GInit, Init, Link, OneClient
<1>3. /\ to_server[Only] = <<>> /\ to_server[CAN] = <<>> /\ to_tester[Only] = <<>>
      /\ uds_queue = <<>> /\ answer_queue = <<>> /\ gui_queue[t] = <<>>
      /\ m_session = NewSession
      /\ securityAccessCompleted[t] = FALSE /\ pendingOperation[t] = None
      /\ currentSession[t] = DEFAULT_SESSION
  BY OnlyChannel DEF GInit, Init
<1>4. m_session.isAuthenticated = FALSE /\ m_session.currentSession = DEFAULT_SESSION
  BY <1>3 DEF NewSession
<1>5. \A S : <<>> \in Seq(S) /\ ~Hits(<<>>, S)
  BY HitsNone
<1>6. FromClient(t)
  BY <1>3, <1>4, <1>5 DEF FromClient
<1>7. AccessFollows(t)
  BY <1>3, <1>4, <1>5 DEF AccessFollows, GrantUnderWay
<1>8. SessionFollows(t)
  BY <1>3, <1>4, <1>5, LeadsNone DEF SessionFollows
<1> QED BY <1>2, <1>6, <1>7, <1>8 DEF Follows

(* Nothing is on its way: the two agree.                                   *)
LEMMA FollowsInStep ==
  ASSUME OneClient, StepInv
  PROVE  InStep
<1> SUFFICES ASSUME Quiet, NEW t \in Testers, connection[t] = Only
             PROVE  /\ securityAccessCompleted[t] = m_session.isAuthenticated
                    /\ currentSession[t] = m_session.currentSession
  BY Players DEF InStep, Only
<1>1. Follows(t)
  BY DEF StepInv, Live
<1>2. /\ uds_queue = <<>> /\ answer_queue = <<>> /\ gui_queue[t] = <<>>
      /\ to_server[Only] = <<>> /\ to_tester[Only] = <<>>
  BY OnlyChannel DEF Quiet
<1>3. m_session.isAuthenticated <=> securityAccessCompleted[t]
  BY <1>1, <1>2, HitsNone DEF Follows, AccessFollows, GrantUnderWay
<1>4. m_session.isAuthenticated \in BOOLEAN /\ securityAccessCompleted[t] \in BOOLEAN
  BY DEF StepInv, SystemTypes, SessionInv, TypeOK, SessionState, GuiTypeOK
<1>5. currentSession[t] = m_session.currentSession
  BY <1>1, <1>2, LeadsNone DEF Follows, SessionFollows
<1> QED BY <1>3, <1>4, <1>5

(* The hypotheses of a step of the only client t.                          *)
InUse(t) == SystemTypes /\ Link(t) /\ Live(t) /\ Follows(t)

LEMMA InUseFacts ==
  ASSUME OneClient, NEW t \in Testers, InUse(t)
  PROVE  /\ \A u \in Testers : u = t
         /\ m_session \in SessionState /\ m_session.isAuthenticated \in BOOLEAN
         /\ to_server \in [Channels -> Seq([req : RequestType, tag : Tag])]
         /\ to_tester \in [Channels -> Seq([raw : RawType, response : ResponseType, tag : Tag])]
         /\ gui_queue \in [Testers -> Seq(Shown)] /\ FlagTypes
         /\ connection \in [Testers -> Channels \union {None}]
         /\ asked \in [Testers -> 0..MaxRequests]
         /\ m_nextClientId \in Int /\ m_clientMap \subseteq {Only}
         /\ m_nextClientId = Only => Only \notin m_clientMap
         /\ connection[t] \in {None, Only}
         /\ connection[t] = Only => Only \in m_clientMap /\ m_nextClientId # Only
         /\ connection[t] = None => m_nextClientId = Only
<1>1. TypeOK /\ GuiTypeOK
  BY DEF InUse, SystemTypes, SessionInv
<1>2. /\ \A u \in Testers : u = t
      /\ MaxConnections = 1
  BY DEF OneClient
<1>3. /\ m_nextClientId \in FirstClientId..(FirstClientId + MaxConnections)
      /\ m_clientMap \subseteq FirstClientId..(m_nextClientId - 1)
  BY <1>1 DEF TypeOK
<1>4. /\ m_nextClientId \in Int
      /\ m_nextClientId = Only \/ m_nextClientId = Only + 1
  BY <1>2, <1>3 DEF Only, FirstClientId
<1>5. m_clientMap \subseteq {Only} /\ (m_nextClientId = Only => Only \notin m_clientMap)
  BY <1>3, <1>4, <1>2 DEF Only, FirstClientId
<1>6. m_session \in SessionState /\ m_session.isAuthenticated \in BOOLEAN
  BY <1>1 DEF TypeOK, SessionState
<1>7. /\ connection[t] \in {None, Only}
      /\ connection[t] = Only => Only \in m_clientMap /\ m_nextClientId # Only
      /\ connection[t] = None => m_nextClientId = Only
  BY OnlyChannel DEF InUse, Link, Live
<1> QED BY <1>1, <1>2, <1>4, <1>5, <1>6, <1>7 DEF TypeOK, GuiTypeOK, FlagTypes

LEMMA PostIs ==
  ASSUME OneClient, NEW t \in Testers, InUse(t), NEW req \in ClientRequests, Post(t, req)
  PROVE  \/ connection[t] = None /\ to_server' = to_server
         \/ /\ connection[t] = Only
            /\ \E m \in ClientAsks :
                 /\ m.req = req
                 /\ to_server'[Only] = Append(to_server[Only], m)
                 /\ to_server'[CAN] = to_server[CAN]
<1>1. CASE connection[t] = None
  BY <1>1 DEF Post, Connected
<1>2. CASE connection[t] = Only
  <2>1. Ask(t, req)
    BY <1>2, OnlyChannel DEF Post, Connected
  <2>2. PICK m : m = [req |-> req, tag |-> [tester |-> t, channel |-> connection[t],
                                            n |-> asked[t] + 1]]
    OBVIOUS
  <2>3. asked[t] + 1 \in 1..MaxRequests
    <3>1. asked[t] \in 0..MaxRequests /\ asked[t] < MaxRequests /\ MaxRequests \in Nat
      BY <2>1, InUseFacts, ServerAssumption DEF Ask
    <3> QED BY <3>1
  <2>4. m \in ClientAsks /\ m.req = req
    <3>1. Only \in Channels
      BY OnlyChannel
    <3> QED BY <2>2, <2>3, <3>1, <1>2 DEF ClientAsks, Tag
  <2>5. to_server' = [to_server EXCEPT ![Only] = Append(to_server[Only], m)]
    BY <2>1, <2>2, <1>2 DEF Ask
  <2>6. Only \in Channels /\ CAN \in Channels /\ Only # CAN
    BY OnlyChannel
  <2>7. DOMAIN to_server = Channels
    BY InUseFacts
  <2>8. /\ to_server'[Only] = Append(to_server[Only], m)
        /\ to_server'[CAN] = to_server[CAN]
    BY <2>5, <2>6, <2>7
  <2> QED BY <1>2, <2>4, <2>8
<1> QED BY <1>1, <1>2, InUseFacts

(* What a step of the client leaves alone.                                 *)
ServerStays == UNCHANGED <<server_vars, connection, last_seed>>

LEMMA NothingAsked ==
  ASSUME OneClient, NEW t \in Testers, InUse(t), ServerStays, to_server' = to_server,
         currentSession'[t] = currentSession[t],
         pendingOperation'[t] \in {None, PROGRAMMING_SESSION, EXTENDED_DIAGNOSTIC}
  PROVE  FromClient(t)' /\ SessionFollows(t)'
<1>1. FromClient(t) /\ SessionFollows(t)
  BY DEF InUse, Follows
<1>2. /\ m_session' = m_session /\ m_nextClientId' = m_nextClientId
      /\ uds_queue' = uds_queue /\ answer_queue' = answer_queue
  BY DEF ServerStays, server_vars
<1>3. FromClient(t)'
  BY <1>1, <1>2 DEF FromClient
<1>4. SessionFollows(t)'
  BY <1>1, <1>2 DEF SessionFollows
<1> QED BY <1>3, <1>4

LEMMA AskedFollows ==
  ASSUME OneClient, NEW t \in Testers, InUse(t), ServerStays, connection[t] = Only,
         NEW m \in ClientAsks,
         to_server'[Only] = Append(to_server[Only], m), to_server'[CAN] = to_server[CAN],
         m.req \in SessionRequests => m_session.isAuthenticated,
         currentSession'[t] = After(currentSession[t], m),
         pendingOperation'[t] \in {None, PROGRAMMING_SESSION, EXTENDED_DIAGNOSTIC}
  PROVE  FromClient(t)' /\ SessionFollows(t)'
<1>1. FromClient(t) /\ SessionFollows(t)
  BY DEF InUse, Follows
<1>2. /\ m_session' = m_session /\ m_nextClientId' = m_nextClientId
      /\ uds_queue' = uds_queue /\ answer_queue' = answer_queue
  BY DEF ServerStays, server_vars
<1>3. m_nextClientId # Only
  BY InUseFacts
<1>4. to_server[Only] \in Seq(ClientAsks) /\ to_server[CAN] = <<>>
  BY <1>1 DEF FromClient
<1>5. Append(to_server[Only], m) \in Seq(ClientAsks)
  BY <1>4, QueueTypes
<1>6. FromClient(t)'
  <2>1. to_server'[Only] \in Seq(ClientAsks) /\ to_server'[CAN] = <<>>
    BY <1>4, <1>5
  <2> QED BY <2>1, <1>1, <1>2, <1>3 DEF FromClient
<1>7. Hits(to_server'[Only], SessionAsks) <=>
        Hits(to_server[Only], SessionAsks) \/ m \in SessionAsks
  BY <1>4, HitsAppend
<1>8. \E between : /\ Leads(m_session.currentSession, uds_queue, between)
                   /\ Leads(between, to_server'[Only], currentSession'[t])
  <2>1. PICK between : /\ Leads(m_session.currentSession, uds_queue, between)
                       /\ Leads(between, to_server[Only], currentSession[t])
    BY <1>1 DEF SessionFollows
  <2>2. Leads(between, Append(to_server[Only], m), After(currentSession[t], m))
    BY <2>1, <1>4, LeadsAppend
  <2> QED BY <2>1, <2>2
<1>9. SessionFollows(t)'
  <2>1. Hits(uds_queue, SessionEvents) \/ Hits(to_server'[Only], SessionAsks)
          => m_session.isAuthenticated
    BY <1>1, <1>7 DEF SessionFollows, SessionAsks
  <2> QED BY <2>1, <1>2, <1>8 DEF SessionFollows
<1> QED BY <1>6, <1>9

LEMMA PlainStays ==
  ASSUME NEW req \in PlainRequests, NEW m, m.req = req, NEW session
  PROVE  After(session, m) = session /\ req \notin SessionRequests
<1>1. req.sid # DIAGNOSTIC_SESSION_CONTROL
  BY PlainRequestsAre DEF DIAGNOSTIC_SESSION_CONTROL, SECURITY_ACCESS,
       READ_DATA_BY_IDENTIFIER, TESTER_PRESENT, ECU_RESET
<1> QED BY <1>1, SessionRequestsAre DEF After

(* A request that asks for no session.                                     *)
LEMMA PlainPost ==
  ASSUME OneClient, NEW t \in Testers, InUse(t), ServerStays,
         NEW req \in PlainRequests, Post(t, req),
         currentSession'[t] = currentSession[t],
         pendingOperation'[t] \in {None, PROGRAMMING_SESSION, EXTENDED_DIAGNOSTIC}
  PROVE  FromClient(t)' /\ SessionFollows(t)'
<1>1. req \in ClientRequests
  BY DEF ClientRequests
<1>2. CASE to_server' = to_server
  BY <1>2, NothingAsked
<1>3. ASSUME connection[t] = Only, NEW m \in ClientAsks, m.req = req,
             to_server'[Only] = Append(to_server[Only], m), to_server'[CAN] = to_server[CAN]
      PROVE  FromClient(t)' /\ SessionFollows(t)'
  <2>1. currentSession'[t] = After(currentSession[t], m) /\ m.req \notin SessionRequests
    BY <1>3, PlainStays
  <2> QED BY <1>3, <2>1, AskedFollows
<1> QED BY <1>1, <1>2, <1>3, PostIs

(* A request for a session, made with access.                              *)
LEMMA SessionPost ==
  ASSUME OneClient, NEW t \in Testers, InUse(t), ServerStays, m_session.isAuthenticated,
         NEW sub \in {PROGRAMMING_SESSION, EXTENDED_DIAGNOSTIC}, SwitchSession(t, sub)
  PROVE  FromClient(t)' /\ SessionFollows(t)'
<1>1. PICK req : req = Request(DIAGNOSTIC_SESSION_CONTROL, sub, Nothing)
  OBVIOUS
<1>2. req \in SessionRequests /\ req \in ClientRequests /\ Post(t, req)
  BY <1>1 DEF SessionRequests, ClientRequests, SwitchSession
<1>3. req.sid = DIAGNOSTIC_SESSION_CONTROL /\ req.sub = sub
  <2>1. sub \in Sessions
    BY DEF Sessions
  <2> QED BY <1>1, <2>1, SessionRequestIs
<1>4. currentSession'[t] = sub /\ pendingOperation'[t] = None
  <2>1. FlagTypes
    BY InUseFacts
  <2> QED BY <2>1 DEF SwitchSession, FlagTypes
<1>5. connection[t] # None
  <2>1. FromClient(t)
    BY DEF InUse, Follows
  <2> QED BY <2>1, InUseFacts DEF FromClient
<1>6. ASSUME connection[t] = Only, NEW m \in ClientAsks, m.req = req,
             to_server'[Only] = Append(to_server[Only], m), to_server'[CAN] = to_server[CAN]
      PROVE  FromClient(t)' /\ SessionFollows(t)'
  <2>1. currentSession'[t] = After(currentSession[t], m)
    BY <1>3, <1>4, <1>6 DEF After
  <2> QED BY <1>4, <1>6, <2>1, AskedFollows
<1> QED BY <1>2, <1>5, <1>6, PostIs

LEMMA SamePending ==
  ASSUME OneClient, NEW t \in Testers, InUse(t)
  PROVE  /\ pendingOperation[t] \in {None, PROGRAMMING_SESSION, EXTENDED_DIAGNOSTIC}
         /\ FromClient(t) /\ AccessFollows(t) /\ SessionFollows(t)
BY DEF InUse, Follows, FromClient

(* enterSession for a session other than the default one.                  *)
LEMMA EnterFollows ==
  ASSUME OneClient, NEW t \in Testers, InUse(t), ServerStays,
         NEW sub \in {PROGRAMMING_SESSION, EXTENDED_DIAGNOSTIC}, enterSession(t, sub)
  PROVE  /\ FromClient(t)' /\ SessionFollows(t)'
         /\ securityAccessCompleted'[t] <=> securityAccessCompleted[t]
<1>0. sub # DEFAULT_SESSION
  BY DEF DEFAULT_SESSION, PROGRAMMING_SESSION, EXTENDED_DIAGNOSTIC
<1>1. CASE ~securityAccessCompleted[t]
  <2>1. /\ Post(t, Request(SECURITY_ACCESS, 1, Nothing))
        /\ pendingOperation' = [pendingOperation EXCEPT ![t] = sub]
        /\ UNCHANGED <<securityAccessCompleted, currentSession>>
    BY <1>0, <1>1 DEF enterSession, requestSecurityAccess
  <2>2. pendingOperation'[t] = sub
    BY <2>1, InUseFacts DEF FlagTypes
  <2>3. PICK req : req = Request(SECURITY_ACCESS, 1, Nothing)
    OBVIOUS
  <2>4. req \in PlainRequests /\ Post(t, req)
    BY <2>1, <2>3 DEF PlainRequests
  <2> QED BY <2>1, <2>2, <2>4, PlainPost
<1>2. CASE securityAccessCompleted[t]
  <2>1. /\ SwitchSession(t, sub)
        /\ securityAccessCompleted' = [securityAccessCompleted EXCEPT ![t] =
             securityAccessCompleted[t] /\ sub # DEFAULT_SESSION]
    BY <1>0, <1>2 DEF enterSession
  <2>2. m_session.isAuthenticated
    BY <1>2, SamePending DEF AccessFollows
  <2>3. securityAccessCompleted'[t] <=> securityAccessCompleted[t]
    BY <2>1, <1>0, InUseFacts DEF FlagTypes
  <2> QED BY <2>1, <2>2, <2>3, SessionPost
<1> QED BY <1>1, <1>2

LEMMA SendFollows ==
  ASSUME OneClient, NEW t \in Testers, InUse(t), ServerStays,
         NEW req \in PlainRequests, sendUDSRequest(t, req)
  PROVE  /\ FromClient(t)' /\ SessionFollows(t)'
         /\ securityAccessCompleted'[t] <=> securityAccessCompleted[t]
<1>1. UNCHANGED <<securityAccessCompleted, pendingOperation, currentSession>>
  BY DEF sendUDSRequest, gui_flags
<1>2. pendingOperation'[t] \in {None, PROGRAMMING_SESSION, EXTENDED_DIAGNOSTIC}
  BY <1>1, SamePending
<1>3. Post(t, req) \/ to_server' = to_server
  BY DEF sendUDSRequest
<1>4. FromClient(t)' /\ SessionFollows(t)'
  BY <1>1, <1>2, <1>3, PlainPost, NothingAsked
<1> QED BY <1>1, <1>4

LEMMA ClickFollows ==
  ASSUME OneClient, NEW t \in Testers, InUse(t), Click(t)
  PROVE  Follows(t)'
<1>1. PICK button \in Clicks : Press(t, button)
  BY DEF Click
<1>2. button \in Buttons /\ button # "Default"
  BY SystemAssumption DEF OneClient
<1>3. ServerStays /\ to_tester' = to_tester /\ gui_queue' = gui_queue
  BY DEF Click, ServerStays
<1>4. /\ FromClient(t)' /\ SessionFollows(t)'
      /\ securityAccessCompleted'[t] <=> securityAccessCompleted[t]
  <2>1. CASE \E sub \in {PROGRAMMING_SESSION, EXTENDED_DIAGNOSTIC} : enterSession(t, sub)
    BY <2>1, <1>3, EnterFollows
  <2>2. CASE \E req \in PlainRequests : sendUDSRequest(t, req)
    BY <2>2, <1>3, SendFollows
  <2>3. /\ Request(READ_DATA_BY_IDENTIFIER, 0, Did("open")) \in PlainRequests
        /\ Request(TESTER_PRESENT, 0, Nothing) \in PlainRequests
        /\ Request(ECU_RESET, 1, Nothing) \in PlainRequests
    BY DEF PlainRequests
  <2> QED BY <1>1, <1>2, <2>1, <2>2, <2>3, PressIs
<1>5. AccessFollows(t)'
  <2>1. m_session' = m_session /\ answer_queue' = answer_queue
    BY <1>3 DEF ServerStays, server_vars
  <2> QED BY <2>1, <1>3, <1>4, SamePending DEF AccessFollows, GrantUnderWay
<1> QED BY <1>4, <1>5 DEF Follows

(* No negative response is taken for a grant.                              *)
LEMMA NegativeGrantsNothing ==
  ASSUME NEW g \in Shown, g.msg.isNegativeResponse
  PROVE  ~Grants(g.msg)
<1>1. PICK raw \in RawType : g.msg = deserializeUDSMessage(raw)
  BY DEF Shown
<1>2. PICK m : m = deserializeUDSMessage(raw)
  OBVIOUS
<1>3. m.sid = m.sub
  <2>1. CASE raw.sid = NEGATIVE_RESPONSE
    BY <1>2, <2>1 DEF deserializeUDSMessage
  <2>2. CASE raw.sid # NEGATIVE_RESPONSE
    <3>1. m.isNegativeResponse = FALSE
      BY <1>2, <2>2 DEF deserializeUDSMessage
    <3> QED BY <3>1, <1>1, <1>2
  <2> QED BY <2>1, <2>2
<1> QED BY <1>1, <1>2, <1>3 DEF Grants, SECURITY_ACCESS, POSITIVE_RESPONSE_MASK

LEMMA HandleFollows ==
  ASSUME OneClient, NEW t \in Testers, InUse(t), onUdsMessageReceived(t)
  PROVE  Follows(t)'
<1>1. PICK g : g = Head(gui_queue[t])
  OBVIOUS
<1>2. /\ gui_queue[t] \in Seq(Shown) /\ gui_queue[t] # <<>>
      /\ gui_queue'[t] = Tail(gui_queue[t])
  BY InUseFacts DEF onUdsMessageReceived
<1>3. g \in Shown
  BY <1>1, <1>2
<1>4. Hits(gui_queue[t], GrantShown) <=> Grants(g.msg) \/ Hits(gui_queue'[t], GrantShown)
  BY <1>1, <1>2, <1>3, HitsTail DEF GrantShown
<1>5. ServerStays /\ to_tester' = to_tester
  BY DEF onUdsMessageReceived, ServerStays
<1>6. m_session' = m_session /\ answer_queue' = answer_queue
  BY <1>5 DEF ServerStays, server_vars
<1>7. m_session.isAuthenticated <=> securityAccessCompleted[t] \/ GrantUnderWay(t)
  BY SamePending DEF AccessFollows
<1>8. ASSUME ~Grants(g.msg), securityAccessCompleted' = securityAccessCompleted
      PROVE  AccessFollows(t)'
  <2>1. GrantUnderWay(t)' <=> GrantUnderWay(t)
    BY <1>4, <1>5, <1>6, <1>8 DEF GrantUnderWay
  <2> QED BY <2>1, <1>6, <1>7, <1>8 DEF AccessFollows
<1>9. OnSeed(t, g.msg) \/ OnAccessGranted(t, g.msg) \/ OnShown(g.msg)
  BY <1>1 DEF onUdsMessageReceived
<1>10. CASE OnSeed(t, g.msg)
  <2>1. PICK s : s = g.msg.payload.value
    OBVIOUS
  <2>2. s \in Nat
    BY <2>1, <1>3, ShownPayload
  <2>3. /\ Post(t, Request(SECURITY_ACCESS, 2, Key(s)))
        /\ UNCHANGED <<securityAccessCompleted, pendingOperation, currentSession>>
    BY <1>10, <2>1 DEF OnSeed, gui_flags
  <2>4. PICK req : req = Request(SECURITY_ACCESS, 2, Key(s))
    OBVIOUS
  <2>5. req \in PlainRequests /\ Post(t, req)
    BY <2>2, <2>3, <2>4 DEF PlainRequests
  <2>6. pendingOperation'[t] \in {None, PROGRAMMING_SESSION, EXTENDED_DIAGNOSTIC}
    BY <2>3, SamePending
  <2>7. ~Grants(g.msg)
    BY <1>10 DEF OnSeed, Grants
  <2> QED BY <1>5, <1>8, <2>3, <2>5, <2>6, <2>7, PlainPost DEF Follows
<1>11. CASE OnAccessGranted(t, g.msg)
  <2>1. Grants(g.msg) /\ securityAccessCompleted'[t]
    BY <1>11, InUseFacts DEF OnAccessGranted, Grants, FlagTypes
  <2>2. m_session.isAuthenticated
    BY <1>4, <1>7, <2>1 DEF GrantUnderWay
  <2>3. AccessFollows(t)'
    BY <2>1, <2>2, <1>6 DEF AccessFollows
  <2>4. CASE pendingOperation[t] # None
    <3>1. SwitchSession(t, pendingOperation[t])
      BY <1>11, <2>4 DEF OnAccessGranted
    <3>2. pendingOperation[t] \in {PROGRAMMING_SESSION, EXTENDED_DIAGNOSTIC}
      BY <2>4, SamePending
    <3> QED BY <3>1, <3>2, <1>5, <2>2, <2>3, SessionPost DEF Follows
  <2>5. CASE pendingOperation[t] = None
    <3>1. UNCHANGED <<to_server, currentSession, pendingOperation>>
      BY <1>11, <2>5 DEF OnAccessGranted
    <3>2. pendingOperation'[t] \in {None, PROGRAMMING_SESSION, EXTENDED_DIAGNOSTIC}
      BY <3>1, SamePending
    <3> QED BY <3>1, <3>2, <1>5, <2>3, NothingAsked DEF Follows
  <2> QED BY <2>4, <2>5
<1>12. CASE OnShown(g.msg)
  <2>1. UNCHANGED <<to_server, securityAccessCompleted, currentSession, pendingOperation>>
    BY <1>12 DEF OnShown, gui_flags
  <2>2. ~Grants(g.msg)
    BY <1>3, <1>12, NegativeGrantsNothing DEF OnShown, Grants
  <2>3. pendingOperation'[t] \in {None, PROGRAMMING_SESSION, EXTENDED_DIAGNOSTIC}
    BY <2>1, SamePending
  <2> QED BY <1>5, <1>8, <2>1, <2>2, <2>3, NothingAsked DEF Follows
<1> QED BY <1>9, <1>10, <1>11, <1>12

LEMMA PostToGuiFollows ==
  ASSUME OneClient, NEW t \in Testers, InUse(t), PostToGui(t)
  PROVE  Follows(t)'
<1>1. /\ connection[t] = Only /\ to_tester[Only] # <<>>
  <2>1. SystemTypes
    BY DEF InUse
  <2>2. connection[t] \in Channels /\ to_tester[connection[t]] # <<>>
    BY <2>1, PostToGuiIs
  <2> QED BY <2>2, InUseFacts, OnlyChannel
<1>2. PICK g \in Shown :
        /\ g.msg = deserializeUDSMessage(Head(to_tester[Only]).raw)
        /\ gui_queue' = [gui_queue EXCEPT ![t] = Append(gui_queue[t], g)]
  <2>1. SystemTypes
    BY DEF InUse
  <2> QED BY <2>1, <1>1, PostToGuiIs
<1>3. gui_queue'[t] = Append(gui_queue[t], g) /\ gui_queue[t] \in Seq(Shown)
  BY <1>2, InUseFacts
<1>4. /\ to_tester[Only] \in Seq([raw : RawType, response : ResponseType, tag : Tag])
      /\ to_tester'[Only] = Tail(to_tester[Only])
  BY <1>1, InUseFacts, OnlyChannel DEF PostToGui, Receive
<1>5. Hits(gui_queue'[t], GrantShown) <=> Hits(gui_queue[t], GrantShown) \/ g \in GrantShown
  BY <1>3, HitsAppend
<1>6. PICK m : m = Head(to_tester[Only])
  OBVIOUS
<1>7. Hits(to_tester[Only], GrantBytes) <=>
        m \in GrantBytes \/ Hits(to_tester'[Only], GrantBytes)
  BY <1>1, <1>4, <1>6, HitsTail
<1>8. m \in GrantBytes <=> g \in GrantShown
  <2>1. m \in [raw : RawType, response : ResponseType, tag : Tag]
    BY <1>1, <1>4, <1>6, QueueTypes
  <2> QED BY <2>1, <1>2, <1>6 DEF GrantBytes, GrantShown
<1>9. /\ m_session' = m_session /\ m_nextClientId' = m_nextClientId
      /\ uds_queue' = uds_queue /\ answer_queue' = answer_queue /\ to_server' = to_server
      /\ UNCHANGED <<securityAccessCompleted, pendingOperation, currentSession>>
  BY DEF PostToGui, Receive, gui_flags
<1>10. GrantUnderWay(t)' <=> GrantUnderWay(t)
  BY <1>5, <1>7, <1>8, <1>9 DEF GrantUnderWay
<1>11. AccessFollows(t)'
  BY <1>9, <1>10, SamePending DEF AccessFollows
<1>12. FromClient(t)' /\ SessionFollows(t)'
  BY <1>9, SamePending DEF FromClient, SessionFollows
<1> QED BY <1>11, <1>12 DEF Follows

(* What a step of the server leaves alone.                                 *)
LEMMA GuiStays ==
  ASSUME NEW t \in Testers, UNCHANGED gui_vars
  PROVE  /\ securityAccessCompleted' = securityAccessCompleted
         /\ pendingOperation' = pendingOperation /\ currentSession' = currentSession
         /\ gui_queue' = gui_queue
BY DEF gui_vars, gui_flags

LEMMA ConnectFollows ==
  ASSUME OneClient, NEW t \in Testers, InUse(t), NEW u \in Testers, Connect(u),
         UNCHANGED gui_vars
  PROVE  Follows(t)'
<1>1. /\ m_session' = m_session /\ m_nextClientId' = m_nextClientId + 1
      /\ uds_queue' = uds_queue /\ answer_queue' = answer_queue /\ to_server' = to_server
      /\ to_tester' = to_tester
  BY DEF Connect, queues
<1>2. m_nextClientId = Only
  BY OnlyChannel DEF Connect
<1>3. m_nextClientId' # Only
  BY <1>1, <1>2, OnlyChannel
<1> QED BY <1>1, <1>3, GuiStays, SamePending
    DEF Follows, FromClient, AccessFollows, GrantUnderWay, SessionFollows

LEMMA ArriveFollows ==
  ASSUME OneClient, NEW t \in Testers, InUse(t), NEW c \in Channels, Arrive(c),
         UNCHANGED gui_vars
  PROVE  Follows(t)'
<1>0. FromClient(t) /\ AccessFollows(t) /\ SessionFollows(t)
  BY SamePending
<1>1. /\ to_server[Only] \in Seq(ClientAsks) /\ to_server[CAN] = <<>>
      /\ uds_queue \in Seq(ClientEvents) /\ answer_queue \in Seq(ClientAnswers)
  BY <1>0 DEF FromClient
<1>2. c = Only /\ to_server[Only] # <<>> /\ Only \in m_clientMap
  BY <1>1, OnlyChannel DEF Arrive
<1>3. m_nextClientId # Only
  BY <1>2, InUseFacts
<1>4. PICK m : m = Head(to_server[Only])
  OBVIOUS
<1>5. PICK e : e = [client |-> Only, req |-> m.req, tag |-> m.tag]
  OBVIOUS
<1>6. m \in ClientAsks /\ e \in ClientEvents /\ e.req = m.req
      /\ Tail(to_server[Only]) \in Seq(ClientAsks)
      /\ Append(uds_queue, e) \in Seq(ClientEvents)
  <2>1. m \in ClientAsks /\ Tail(to_server[Only]) \in Seq(ClientAsks)
    BY <1>1, <1>2, <1>4, QueueTypes
  <2>2. e \in ClientEvents /\ e.req = m.req
    BY <1>5, <2>1 DEF ClientAsks, ClientEvents
  <2> QED BY <1>1, <2>1, <2>2, QueueTypes
<1>7. /\ uds_queue' = Append(uds_queue, e)
      /\ to_server'[Only] = Tail(to_server[Only]) /\ to_server'[CAN] = to_server[CAN]
  <2>1. DOMAIN to_server = Channels
    BY InUseFacts
  <2> QED BY <1>2, <1>4, <1>5, <2>1, OnlyChannel DEF Arrive
<1>8. /\ m_session' = m_session /\ m_nextClientId' = m_nextClientId
      /\ answer_queue' = answer_queue /\ to_tester' = to_tester
  BY DEF Arrive
<1>9. FromClient(t)'
  <2>1. to_server'[Only] \in Seq(ClientAsks) /\ to_server'[CAN] = <<>>
        /\ uds_queue' \in Seq(ClientEvents)
    BY <1>1, <1>6, <1>7
  <2>2. pendingOperation'[t] \in {None, PROGRAMMING_SESSION, EXTENDED_DIAGNOSTIC}
    BY GuiStays, SamePending
  <2>3. m_nextClientId' # Only /\ answer_queue' \in Seq(ClientAnswers)
    BY <1>1, <1>3, <1>8
  <2> QED BY <2>1, <2>2, <2>3 DEF FromClient
<1>10. AccessFollows(t)'
  BY <1>0, <1>8, GuiStays DEF AccessFollows, GrantUnderWay
<1>11. SessionFollows(t)'
  <2>1. Hits(uds_queue', SessionEvents) <=> Hits(uds_queue, SessionEvents) \/ e \in SessionEvents
    BY <1>1, <1>6, <1>7, HitsAppend
  <2>2. Hits(to_server[Only], SessionAsks) <=>
          m \in SessionAsks \/ Hits(to_server'[Only], SessionAsks)
    BY <1>1, <1>2, <1>4, <1>7, HitsTail
  <2>3. e \in SessionEvents <=> m \in SessionAsks
    BY <1>6 DEF SessionEvents, SessionAsks
  <2>4. PICK between : /\ Leads(m_session.currentSession, uds_queue, between)
                       /\ Leads(between, to_server[Only], currentSession[t])
    BY <1>0 DEF SessionFollows
  <2>5. Leads(m_session.currentSession, Append(uds_queue, e), After(between, e))
    BY <2>4, <1>1, <1>6, LeadsAppend
  <2>6. Leads(After(between, Head(to_server[Only])), Tail(to_server[Only]), currentSession[t])
    BY <2>4, <1>1, <1>2, LeadsTail
  <2>7. After(between, e) = After(between, m)
    BY <1>6 DEF After
  <2>8. \E z : /\ Leads(m_session'.currentSession, uds_queue', z)
               /\ Leads(z, to_server'[Only], currentSession'[t])
    BY <2>5, <2>6, <2>7, <1>4, <1>7, <1>8, GuiStays
  <2>9. Hits(uds_queue', SessionEvents) \/ Hits(to_server'[Only], SessionAsks)
          => m_session'.isAuthenticated
    BY <2>1, <2>2, <2>3, <1>0, <1>8 DEF SessionFollows
  <2> QED BY <2>8, <2>9 DEF SessionFollows
<1> QED BY <1>9, <1>10, <1>11 DEF Follows

LEMMA ProcessFollows ==
  ASSUME OneClient, NEW t \in Testers, InUse(t), ProcessUdsRequest, UNCHANGED gui_vars
  PROVE  Follows(t)'
<1>0. FromClient(t) /\ AccessFollows(t) /\ SessionFollows(t)
  BY SamePending
<1>1. /\ uds_queue \in Seq(ClientEvents) /\ answer_queue \in Seq(ClientAnswers)
      /\ uds_queue # <<>> /\ m_nextClientId # Only
  BY <1>0, ProcessKeeps DEF FromClient
<1>2. PICK e : e = Head(uds_queue)
  OBVIOUS
<1>3. e \in ClientEvents /\ Tail(uds_queue) \in Seq(ClientEvents)
  BY <1>1, <1>2, QueueTypes
<1>4. e.client = Only /\ e.req \in ClientRequests /\ e.tag \in Tag
  BY <1>3 DEF ClientEvents
<1>5. PICK out \in processUdsRequest(m_session, e.req) :
        /\ m_session' = out.session
        /\ PostAnswer(e.client,
             [client |-> e.client, response |-> out.response, tag |-> e.tag])
  BY <1>2 DEF ProcessUdsRequest, Finish
<1>6. PICK seed \in generateSecuritySeed(m_session) :
        out = processRequest(m_session, e.req, seed)
  BY <1>4, <1>5, WorkerOutcome DEF OneClient
<1>7. seed \in Nat /\ m_session \in SessionState
  <2>1. m_session \in SessionState /\ m_session.seed \in Nat
    BY InUseFacts DEF SessionState
  <2> QED BY <2>1 DEF generateSecuritySeed
<1>8. Tells(m_session, e.req, out)
  BY <1>4, <1>6, <1>7, RequestTells
<1>9. out.response \in ResponseType
  <2>1. e.req \in RequestType
    BY <1>4, ClientRequestsTyped
  <2>2. Authentic(m_session)
    BY DEF InUse, SystemTypes, SessionInv, SessionNeedsAuth, Authentic
  <2> QED BY <1>6, <1>7, <2>1, <2>2, ProcessRequestSound DEF Sound
<1>10. PICK a : a = [client |-> Only, response |-> out.response, tag |-> e.tag]
  OBVIOUS
<1>11. a \in ClientAnswers /\ (a \in GrantAnswers <=> Told(out.response))
  BY <1>4, <1>9, <1>10 DEF ClientAnswers, GrantAnswers
<1>17. IsAnswer(out.response)
  BY <1>4, <1>6, ClientRequestsTyped, ServiceAnswers
<1>12. /\ answer_queue' = Append(answer_queue, a)
       /\ m_session' = out.session /\ uds_queue' = Tail(uds_queue)
       /\ m_nextClientId' = m_nextClientId /\ to_server' = to_server
       /\ to_tester' = to_tester
  BY <1>4, <1>5, <1>10, <1>17, OnlyChannel, ProcessKeeps DEF PostAnswer
<1>13. FromClient(t)'
  <2>1. answer_queue' \in Seq(ClientAnswers) /\ uds_queue' \in Seq(ClientEvents)
    BY <1>1, <1>3, <1>11, <1>12, QueueTypes
  <2>2. pendingOperation'[t] \in {None, PROGRAMMING_SESSION, EXTENDED_DIAGNOSTIC}
    BY GuiStays, SamePending
  <2> QED BY <2>1, <2>2, <1>0, <1>1, <1>12 DEF FromClient
<1>14. AccessFollows(t)'
  <2>1. Hits(answer_queue', GrantAnswers) <=>
          Hits(answer_queue, GrantAnswers) \/ Told(out.response)
    BY <1>1, <1>11, <1>12, HitsAppend
  <2>2. GrantUnderWay(t)' <=> GrantUnderWay(t) \/ Told(out.response)
    BY <2>1, <1>12, GuiStays DEF GrantUnderWay
  <2>3. m_session.isAuthenticated <=> securityAccessCompleted[t] \/ GrantUnderWay(t)
    BY <1>0 DEF AccessFollows
  <2>4. m_session'.isAuthenticated <=> m_session.isAuthenticated \/ Told(out.response)
    BY <1>8, <1>12 DEF Tells
  <2>5. securityAccessCompleted' = securityAccessCompleted
    BY GuiStays
  <2> QED BY <2>2, <2>3, <2>4, <2>5 DEF AccessFollows
<1>15. SessionFollows(t)'
  <2>1. Hits(uds_queue, SessionEvents) <=>
          e \in SessionEvents \/ Hits(uds_queue', SessionEvents)
    BY <1>1, <1>2, <1>12, HitsTail
  <2>2. Hits(uds_queue', SessionEvents) \/ Hits(to_server'[Only], SessionAsks)
          => m_session'.isAuthenticated
    BY <2>1, <1>0, <1>8, <1>12 DEF SessionFollows, Tells
  <2>3. out.session.currentSession = After(m_session.currentSession, e)
    <3>1. CASE e.req \in SessionRequests
      <4>1. m_session.isAuthenticated
        BY <3>1, <2>1, <1>3, <1>0 DEF SessionFollows, SessionEvents
      <4>2. e.req.sid = DIAGNOSTIC_SESSION_CONTROL
        BY <3>1, SessionRequestsAre
      <4> QED BY <3>1, <4>1, <4>2, <1>8 DEF Tells, After
    <3>2. CASE e.req \in PlainRequests
      BY <3>2, <1>8, PlainStays DEF Tells
    <3> QED BY <3>1, <3>2, <1>4 DEF ClientRequests
  <2>4. PICK between : /\ Leads(m_session.currentSession, uds_queue, between)
                       /\ Leads(between, to_server[Only], currentSession[t])
    BY <1>0 DEF SessionFollows
  <2>5. Leads(After(m_session.currentSession, Head(uds_queue)), Tail(uds_queue), between)
    BY <2>4, <1>1, LeadsTail
  <2>6. \E z : /\ Leads(m_session'.currentSession, uds_queue', z)
               /\ Leads(z, to_server'[Only], currentSession'[t])
    BY <2>3, <2>4, <2>5, <1>2, <1>12, GuiStays
  <2> QED BY <2>2, <2>6 DEF SessionFollows
<1> QED BY <1>13, <1>14, <1>15 DEF Follows

LEMMA SendTcpFollows ==
  ASSUME OneClient, NEW t \in Testers, InUse(t), SendTcpResponse, UNCHANGED gui_vars
  PROVE  Follows(t)'
<1>0. FromClient(t) /\ AccessFollows(t) /\ SessionFollows(t)
  BY SamePending
<1>1. answer_queue \in Seq(ClientAnswers) /\ answer_queue # <<>>
  BY <1>0 DEF FromClient, SendTcpResponse
<1>2. PICK a : a = Head(answer_queue)
  OBVIOUS
<1>3. a \in ClientAnswers /\ Tail(answer_queue) \in Seq(ClientAnswers)
  BY <1>1, <1>2, QueueTypes
<1>4. a.client = Only /\ a.response \in ResponseType /\ a.tag \in Tag
  BY <1>3 DEF ClientAnswers
<1>5. /\ m_session' = m_session /\ m_nextClientId' = m_nextClientId
      /\ uds_queue' = uds_queue /\ to_server' = to_server
      /\ answer_queue' = Tail(answer_queue)
  BY DEF SendTcpResponse
<1>6. Hits(answer_queue, GrantAnswers) <=>
        a \in GrantAnswers \/ Hits(answer_queue', GrantAnswers)
  BY <1>1, <1>2, <1>5, HitsTail
<1>7. FromClient(t)' /\ SessionFollows(t)'
  BY <1>0, <1>3, <1>5, GuiStays DEF FromClient, SessionFollows
<1>8. AccessFollows(t)'
  <2>1. CASE connection[t] = None
    <3>1. m_nextClientId = Only
      BY <2>1, InUseFacts
    <3>2. to_tester' = to_tester
      BY <1>2, <1>4, <3>1, InUseFacts DEF SendTcpResponse
    <3>3. ~m_session.isAuthenticated
      BY <3>1, <1>0 DEF FromClient
    <3> QED BY <3>2, <3>3, <1>0, <1>5, <1>6, GuiStays DEF AccessFollows, GrantUnderWay
  <2>2. CASE connection[t] = Only
    <3>1. PICK m : m = [raw |-> serializeUDSMessage(a.response), response |-> a.response,
                        tag |-> a.tag]
      OBVIOUS
    <3>2. ~Abandoned(Only) /\ Only \in m_clientMap
      BY <2>2, InUseFacts DEF Abandoned
    <3>3. to_tester' = [to_tester EXCEPT ![Only] = Append(to_tester[Only], m)]
      BY <1>2, <1>4, <3>1, <3>2 DEF SendTcpResponse, Transmit
    <3>4. /\ to_tester'[Only] = Append(to_tester[Only], m)
          /\ to_tester[Only] \in Seq([raw : RawType, response : ResponseType, tag : Tag])
      BY <3>3, InUseFacts, OnlyChannel
    <3>5. m \in [raw : RawType, response : ResponseType, tag : Tag]
      <4>1. serializeUDSMessage(a.response) \in RawType
        BY <1>4 DEF serializeUDSMessage, RawType, ResponseType
      <4> QED BY <4>1, <3>1, <1>4
    <3>6. m \in GrantBytes <=> a \in GrantAnswers
      BY <3>1, <3>5, <1>3 DEF GrantBytes, GrantAnswers, Told
    <3>7. Hits(to_tester'[Only], GrantBytes) <=>
            Hits(to_tester[Only], GrantBytes) \/ m \in GrantBytes
      <4>1. PICK S : S = [raw : RawType, response : ResponseType, tag : Tag]
        OBVIOUS
      <4>2. to_tester[Only] \in Seq(S) /\ m \in S
        BY <4>1, <3>4, <3>5
      <4> QED BY <4>2, <3>4, HitsAppend
    <3>8. GrantUnderWay(t)' <=> GrantUnderWay(t)
      BY <1>6, <3>6, <3>7, GuiStays DEF GrantUnderWay
    <3> QED BY <3>8, <1>0, <1>5, GuiStays DEF AccessFollows
  <2> QED BY <2>1, <2>2, InUseFacts
<1> QED BY <1>7, <1>8 DEF Follows

LEMMA SendCanFollows ==
  ASSUME OneClient, NEW t \in Testers, InUse(t), SendCanResponse, UNCHANGED gui_vars
  PROVE  Follows(t)'
<1>1. to_tester'[Only] = to_tester[Only]
  <2>1. PICK m : to_tester' = to_tester \/ to_tester' = [to_tester EXCEPT ![CAN] = m]
    BY DEF SendCanResponse, Transmit
  <2> QED BY <2>1, InUseFacts, OnlyChannel
<1>2. /\ m_session' = m_session /\ m_nextClientId' = m_nextClientId
      /\ uds_queue' = uds_queue /\ answer_queue' = answer_queue /\ to_server' = to_server
  BY DEF SendCanResponse
<1> QED BY <1>1, <1>2, GuiStays, SamePending
    DEF Follows, FromClient, AccessFollows, GrantUnderWay, SessionFollows

(* The link only moves on: from not made to in use to left.                *)
LinkMoves(t) == Link(t)' /\ (Live(t)' => Live(t))

LEMMA LinkFacts ==
  ASSUME OneClient, SystemTypes, NEW t \in Testers, Link(t)
  PROVE  /\ \A u \in Testers : u = t
         /\ connection \in [Testers -> Channels \union {None}]
         /\ m_nextClientId \in Int /\ m_clientMap \subseteq {Only}
         /\ m_nextClientId = Only \/ m_nextClientId = Only + 1
         /\ m_nextClientId = Only => Only \notin m_clientMap
<1>1. TypeOK /\ MaxConnections = 1 /\ \A u \in Testers : u = t
  BY DEF SystemTypes, SessionInv, OneClient
<1>2. /\ m_nextClientId \in FirstClientId..(FirstClientId + MaxConnections)
      /\ m_clientMap \subseteq FirstClientId..(m_nextClientId - 1)
  BY <1>1 DEF TypeOK
<1>3. m_nextClientId \in Int /\ (m_nextClientId = Only \/ m_nextClientId = Only + 1)
  BY <1>1, <1>2 DEF Only, FirstClientId
<1>4. m_clientMap \subseteq {Only} /\ (m_nextClientId = Only => Only \notin m_clientMap)
  BY <1>2, <1>3 DEF Only, FirstClientId
<1> QED BY <1>1, <1>3, <1>4 DEF TypeOK

LEMMA ConnectLink ==
  ASSUME OneClient, SystemTypes, NEW t \in Testers, Link(t), NEW u \in Testers, Connect(u)
  PROVE  LinkMoves(t)
<1>1. /\ u = t /\ m_nextClientId = Only
      /\ m_nextClientId' = m_nextClientId + 1
      /\ m_clientMap' = m_clientMap \union {m_nextClientId}
      /\ connection' = [connection EXCEPT ![t] = m_nextClientId]
  BY LinkFacts, OnlyChannel DEF Connect
<1>2. connection'[t] = Only /\ Only \in m_clientMap' /\ m_nextClientId' # Only
  BY <1>1, LinkFacts, OnlyChannel
<1>3. Live(t)
  BY <1>1 DEF Live
<1> QED BY <1>2, <1>3 DEF LinkMoves, Link

LEMMA LeaveLink ==
  ASSUME OneClient, SystemTypes, NEW t \in Testers, Link(t), NEW u \in Testers, Leave(u)
  PROVE  LinkMoves(t)
<1>1. /\ u = t /\ connection[t] = Only /\ m_nextClientId' = m_nextClientId
      /\ connection' = [connection EXCEPT ![t] = None]
  BY LinkFacts, OnlyChannel DEF Leave
<1>2. connection'[t] = None
  BY <1>1, LinkFacts
<1>3. Live(t)
  BY <1>1 DEF Live
<1> QED BY <1>2, <1>3, OnlyChannel DEF LinkMoves, Link

LEMMA DisconnectedLink ==
  ASSUME OneClient, SystemTypes, NEW t \in Testers, Link(t), NEW c \in ClientIds,
         onClientDisconnected(c)
  PROVE  LinkMoves(t) /\ ~Live(t)'
<1>1. c = Only /\ Only \in m_clientMap /\ connection[t] # Only
      /\ m_nextClientId' = m_nextClientId /\ connection' = connection
  BY OnlyChannel DEF onClientDisconnected, Abandoned, tester_vars
<1>2. m_nextClientId # Only
  BY <1>1, LinkFacts
<1>3. ~Live(t)'
  BY <1>1, <1>2 DEF Live
<1> QED BY <1>1, <1>3 DEF LinkMoves, Link

(* Every other step leaves the link as it is.                              *)
LEMMA SameLink ==
  ASSUME NEW t, Link(t), UNCHANGED <<m_nextClientId, m_clientMap, connection>>
  PROVE  LinkMoves(t)
BY DEF LinkMoves, Link, Live

LEMMA StepInvStep ==
  ASSUME OneClient, StepInv, [GNext]_system_vars
  PROVE  StepInv'
<1>1. SystemTypes /\ SystemTypes'
  BY SystemTypesStep DEF StepInv
<1> SUFFICES ASSUME NEW t \in Testers PROVE Link(t)' /\ (Live(t)' => Follows(t)')
  BY <1>1 DEF StepInv
<1>2. Link(t) /\ (Live(t) => Follows(t)) /\ \A u \in Testers : u = t
  BY DEF StepInv, OneClient
<1>3. ASSUME LinkMoves(t), InUse(t) => Follows(t)'
      PROVE  Link(t)' /\ (Live(t)' => Follows(t)')
  BY <1>1, <1>2, <1>3 DEF LinkMoves, InUse
<1>4. ASSUME NEW u \in Testers, Click(u) PROVE LinkMoves(t) /\ (InUse(t) => Follows(t)')
  <2>1. LinkMoves(t)
    BY <1>2, <1>4, SameLink DEF Click, server_vars
  <2> QED BY <2>1, <1>2, <1>4, ClickFollows
<1>5. ASSUME NEW u \in Testers, PostToGui(u) PROVE LinkMoves(t) /\ (InUse(t) => Follows(t)')
  <2>1. LinkMoves(t)
    BY <1>2, <1>5, SameLink DEF PostToGui, Receive
  <2> QED BY <2>1, <1>2, <1>5, PostToGuiFollows
<1>6. ASSUME NEW u \in Testers, onUdsMessageReceived(u)
      PROVE  LinkMoves(t) /\ (InUse(t) => Follows(t)')
  <2>1. LinkMoves(t)
    BY <1>2, <1>6, SameLink DEF onUdsMessageReceived, server_vars
  <2> QED BY <2>1, <1>2, <1>6, HandleFollows
<1>7. ASSUME NEW u \in Testers, Connect(u), UNCHANGED gui_vars
      PROVE  LinkMoves(t) /\ (InUse(t) => Follows(t)')
  BY <1>1, <1>2, <1>7, ConnectLink, ConnectFollows
<1>8. ASSUME NEW u \in Testers, Leave(u) PROVE LinkMoves(t) /\ ~Live(t)'
  <2>1. LinkMoves(t)
    BY <1>1, <1>2, <1>8, LeaveLink
  <2>2. u = t /\ connection[t] = Only /\ m_nextClientId' = m_nextClientId
        /\ connection' = [connection EXCEPT ![t] = None]
    BY <1>2, <1>8, OnlyChannel DEF Leave
  <2>3. m_nextClientId # Only /\ connection'[t] # Only
    BY <2>2, <1>1, <1>2, LinkFacts, OnlyChannel DEF Link
  <2> QED BY <2>1, <2>2, <2>3 DEF Live
<1>9. ASSUME NEW c \in ClientIds, onClientDisconnected(c) PROVE LinkMoves(t) /\ ~Live(t)'
  BY <1>1, <1>2, <1>9, DisconnectedLink
<1>10. ASSUME NEW c \in Channels, Arrive(c), UNCHANGED gui_vars
       PROVE  LinkMoves(t) /\ (InUse(t) => Follows(t)')
  <2>1. LinkMoves(t)
    BY <1>2, <1>10, SameLink DEF Arrive, tester_vars
  <2> QED BY <2>1, <1>10, ArriveFollows
<1>11. ASSUME ProcessUdsRequest, UNCHANGED gui_vars
       PROVE  LinkMoves(t) /\ (InUse(t) => Follows(t)')
  <2>1. LinkMoves(t)
    BY <1>2, <1>11, SameLink, ProcessKeeps
  <2> QED BY <2>1, <1>11, ProcessFollows
<1>12. ASSUME SendTcpResponse, UNCHANGED gui_vars
       PROVE  LinkMoves(t) /\ (InUse(t) => Follows(t)')
  <2>1. LinkMoves(t)
    BY <1>2, <1>12, SameLink DEF SendTcpResponse, tester_vars
  <2> QED BY <2>1, <1>12, SendTcpFollows
<1>13. ASSUME SendCanResponse, UNCHANGED gui_vars
       PROVE  LinkMoves(t) /\ (InUse(t) => Follows(t)')
  <2>1. LinkMoves(t)
    BY <1>2, <1>13, SameLink DEF SendCanResponse, tester_vars
  <2> QED BY <2>1, <1>13, SendCanFollows
<1>14. CASE UNCHANGED system_vars
  <2>1. LinkMoves(t)
    BY <1>2, <1>14, SameLink DEF system_vars, vars, tester_vars
  <2>2. Follows(t) => Follows(t)'
    BY <1>14 DEF system_vars, vars, tester_vars, queues, gui_vars, gui_flags,
       Follows, FromClient, AccessFollows, GrantUnderWay, SessionFollows
  <2> QED BY <2>1, <2>2, <1>2 DEF LinkMoves
<1>15. CASE GNext
  <2>1. CASE \E u \in Guis : Click(u) \/ PostToGui(u) \/ onUdsMessageReceived(u)
    BY <2>1, <1>3, <1>4, <1>5, <1>6, Players
  <2>2. CASE (\E u \in Testers : Connect(u) \/ Leave(u)) /\ UNCHANGED gui_vars
    BY <2>2, <1>3, <1>7, <1>8 DEF LinkMoves
  <2>3. CASE Server /\ UNCHANGED gui_vars
    BY <2>3, <1>3, <1>9, <1>10, <1>11, <1>12, <1>13 DEF LinkMoves, Server
  <2>4. ~(\E u \in Others : OtherStep(u))
    BY DEF OneClient
  <2> QED BY <1>15, <2>1, <2>2, <2>3, <2>4 DEF GNext
<1> QED BY <1>14, <1>15
-----------------------------------------------------------------------------
(* With clients that click and answer on their own, each step is still one *)
(* of the server or of a tester that asks.                                 *)
LEMMA SystemSteps ==
  ASSUME SystemTypes, [GNext]_system_vars
  PROVE  [Steps]_vars
<1>0. SessionInv /\ FlagTypes
  BY GuiParts DEF SystemTypes
<1>1. ASSUME NEW t \in Testers, PostsSome(t),
             UNCHANGED <<server_vars, connection, last_seed, to_tester>>
      PROVE  [Steps]_vars
  <2>1. CASE \E req \in RequestType : Ask(t, req)
    BY <1>1, <2>1 DEF Steps, Asks, server_vars
  <2>2. CASE UNCHANGED <<asked, to_server>>
    BY <1>1, <2>2 DEF vars, tester_vars, queues, server_vars
  <2> QED BY <1>1, <2>1, <2>2 DEF PostsSome
<1>2. ASSUME NEW t \in Testers, Click(t) PROVE [Steps]_vars
  <2>1. PostsSome(t)
    BY <1>0, <1>2, ClickTypes
  <2> QED BY <1>1, <1>2, <2>1 DEF Click
<1>3. ASSUME NEW t \in Testers, onUdsMessageReceived(t) PROVE [Steps]_vars
  <2>1. PostsSome(t)
    BY <1>3, HandleTypes DEF SystemTypes
  <2> QED BY <1>1, <1>3, <2>1 DEF onUdsMessageReceived
<1>4. ASSUME NEW t \in Testers, PostToGui(t) PROVE [Steps]_vars
  BY <1>4 DEF PostToGui, Steps
<1>5. CASE (\E t \in Testers : Connect(t) \/ Leave(t)) \/ Server
  BY <1>5 DEF Steps
<1>6. CASE UNCHANGED system_vars
  BY <1>6 DEF system_vars
<1>7. ASSUME NEW t \in Testers, OtherStep(t) PROVE [Steps]_vars
  BY <1>7 DEF OtherStep, SendRequest, Steps, Asks
<1> QED BY <1>2, <1>3, <1>4, <1>5, <1>6, <1>7, Players DEF GNext

LEMMA SystemInvariant == GSpec => []SystemTypes
<1>1. GInit => SystemTypes
  BY SystemTypesInit
<1>2. SystemTypes /\ [GNext]_system_vars => SystemTypes'
  BY SystemTypesStep
<1> QED BY <1>1, <1>2, PTL DEF GSpec

(* The types of the whole system, GUI clients included, for any number of  *)
(* clients, connections and clicks.                                        *)
THEOREM SystemTypeCorrect == GSpec => [](TypeOK /\ GuiTypeOK)
<1>1. SystemTypes => TypeOK /\ GuiTypeOK
  BY DEF SystemTypes, SessionInv
<1> QED BY <1>1, SystemInvariant, PTL

(* Whatever is clicked in the GUI clients, and whenever their answers are  *)
(* handled, no session but the default one is held without authentication. *)
THEOREM SystemAuthenticated == GSpec => []SessionNeedsAuth
<1>1. SystemTypes => SessionNeedsAuth
  BY DEF SystemTypes, SessionInv
<1> QED BY <1>1, SystemInvariant, PTL

LEMMA SystemOrder == GSpec => []OrderInv
<1>1. GInit => SystemTypes /\ OrderInv
  BY SystemTypesInit, InitOrder DEF GInit
<1>2. SystemTypes /\ OrderInv /\ [GNext]_system_vars => SystemTypes' /\ OrderInv'
  <2> SUFFICES ASSUME SystemTypes, OrderInv, [GNext]_system_vars
               PROVE  SystemTypes' /\ OrderInv'
    OBVIOUS
  <2>1. SystemTypes' /\ SessionInv'
    BY SystemTypesStep DEF SystemTypes
  <2>2. [Steps]_vars
    BY SystemSteps
  <2> QED BY <2>1, <2>2, OrderStep
<1> QED BY <1>1, <1>2, PTL DEF GSpec

(* A GUI client gets only answers to what its own connection asked, keys   *)
(* and sessions it asks for on receiving an answer included.               *)
THEOREM SystemAnswersGoHome == GSpec => []OwnAnswers
<1>1. OrderInv => OwnAnswers
  BY TaggedAnswers DEF OrderInv
<1> QED BY <1>1, SystemOrder, PTL

(* And it gets them in the order it asked.                                 *)
THEOREM SystemAnswersInOrder == GSpec => []InRequestOrder
  BY SystemOrder, OrderedPipeline, PTL

(* Once nothing is under way, what an only client believes of the session  *)
(* is what the server has: its access and the session it is in.  For any   *)
(* number of clicks and any set of buttons without the default session,    *)
(* and whatever was clicked while answers were still on their way.         *)
THEOREM ClientInStep == ASSUME OneClient PROVE GSpec => []InStep
<1>1. GInit => StepInv
  BY StepInvInit
<1>2. StepInv /\ [GNext]_system_vars => StepInv'
  BY StepInvStep
<1>3. StepInv => InStep
  BY FollowsInStep
<1> QED BY <1>1, <1>2, <1>3, PTL DEF GSpec
=============================================================================
