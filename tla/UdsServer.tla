------------------------------ MODULE UdsServer ------------------------------
(***************************************************************************)
(* The UDS server as its threads run it, from the bytes of a request to    *)
(* the bytes of its answer.  The TCP thread numbers its clients and posts  *)
(* each parsed request to the UDS thread, where one worker serves TCP and  *)
(* CAN requests in the order they were posted; the answer is posted back   *)
(* with the client's number and looked up in m_clientMap only then, when   *)
(* the client may be gone.  All clients share one m_session.               *)
(*                                                                         *)
(* A tester has one connection at a time.  A TCP connection is known by    *)
(* the number the server gives it; the CAN channel has none and never      *)
(* closes.  TCP is in order and without loss while it lasts.  Each request *)
(* has a tag (who asked, on which connection, the how-manieth), which the  *)
(* program does not have: requestId never reaches the wire.                *)
(***************************************************************************)
EXTENDS UdsHandler

CONSTANTS
  Testers,         \* the clients of the server
  CanTesters,      \* at most one of them, on the CAN channel
  Requests,        \* what a tester asks, keys apart
  Throwing,        \* requests whose service may throw, as on lack of memory
  MaxRequests,     \* bound: requests of one tester
  MaxConnections   \* bound: TCP connections in all

ASSUME ServerAssumption ==
  /\ CanTesters \subseteq Testers
  /\ \A a, b \in CanTesters : a = b
  /\ Requests \subseteq RequestType /\ Throwing \subseteq RequestType
  /\ MaxRequests \in Nat /\ MaxConnections \in Nat

CAN == -1
None == 0
FirstClientId == 1001
ClientIds == FirstClientId..(FirstClientId + MaxConnections - 1)
Channels == ClientIds \union {CAN}

VARIABLES
  m_session,       \* the one SessionState
  m_nextClientId,  \* the number of the next TCP client
  m_clientMap,     \* the numbers with a socket
  connection,      \* connection[t]: the channel t is on, or None
  asked,           \* asked[t]: how many requests t has made
  last_seed,       \* last_seed[t]: the seed t last received
  to_server,       \* to_server[c]: requests under way on channel c
  to_tester,       \* to_tester[c]: answers under way
  uds_queue,       \* the UDS thread's event queue
  answer_queue,    \* tcpResponseReady events of the TCP thread
  can_answers      \* canResponseReady events of the main thread

queues == <<to_server, to_tester, uds_queue, answer_queue, can_answers>>
tester_vars == <<connection, asked, last_seed>>
vars == <<m_session, m_nextClientId, m_clientMap, tester_vars, queues>>

Connected(t) == connection[t] # None
Abandoned(c) == \A t \in Testers : connection[t] # c

Init ==
  /\ m_session = NewSession
  /\ m_nextClientId = FirstClientId
  /\ m_clientMap = {}
  /\ connection = [t \in Testers |-> IF t \in CanTesters THEN CAN ELSE None]
  /\ asked = [t \in Testers |-> 0]
  /\ last_seed = [t \in Testers |-> 0]
  /\ to_server = [c \in Channels |-> <<>>]
  /\ to_tester = [c \in Channels |-> <<>>]
  /\ uds_queue = <<>> /\ answer_queue = <<>> /\ can_answers = <<>>
-----------------------------------------------------------------------------
(* Mutant: the client number is not counted up.                            *)
Connect_SameId(t) ==
  /\ connection[t] = None
  /\ m_nextClientId \in ClientIds
  /\ m_clientMap' = m_clientMap \union {m_nextClientId}
  /\ connection' = [connection EXCEPT ![t] = m_nextClientId]
  /\ UNCHANGED <<m_session, m_nextClientId, asked, last_seed, queues>>

(* onNewConnection *)
Connect(t) ==
  /\ connection[t] = None
  /\ m_nextClientId \in ClientIds
  /\ m_nextClientId' = m_nextClientId + 1
  /\ m_clientMap' = m_clientMap \union {m_nextClientId}
  /\ connection' = [connection EXCEPT ![t] = m_nextClientId]
  /\ UNCHANGED <<m_session, asked, last_seed, queues>>

(* The tester's end goes first; what it had sent may still arrive.         *)
Leave(t) ==
  /\ connection[t] \in ClientIds
  /\ connection' = [connection EXCEPT ![t] = None]
  /\ to_tester' = [to_tester EXCEPT ![connection[t]] = <<>>]
  /\ UNCHANGED <<m_session, m_nextClientId, m_clientMap, asked, last_seed,
                 to_server, uds_queue, answer_queue, can_answers>>

(* QTcpSocket::disconnected: the number leaves m_clientMap and the parser  *)
(* goes with its bytes; events already posted stay in their queues.        *)
onClientDisconnected(c) ==
  /\ c \in m_clientMap /\ Abandoned(c)
  /\ m_clientMap' = m_clientMap \ {c}
  /\ to_server' = [to_server EXCEPT ![c] = <<>>]
  /\ UNCHANGED <<m_session, m_nextClientId, tester_vars, to_tester, uds_queue,
                 answer_queue, can_answers>>

Ask(t, req) ==
  /\ Connected(t) /\ asked[t] < MaxRequests
  /\ asked' = [asked EXCEPT ![t] = @ + 1]
  /\ to_server' = [to_server EXCEPT ![connection[t]] = Append(@,
       [req |-> req,
        tag |-> [tester |-> t, channel |-> connection[t], n |-> asked[t] + 1]])]

(* A tester sends any request, and the key of a seed it has received.      *)
SendRequest(t) ==
  /\ \E req \in Requests \union
        {Request(SECURITY_ACCESS, 2, Key(s)) : s \in {last_seed[t]} \ {0}} :
       Ask(t, req)
  /\ UNCHANGED <<m_session, m_nextClientId, m_clientMap, connection, last_seed,
                 to_tester, uds_queue, answer_queue, can_answers>>

(* Mutant: a request is posted before those that wait.                     *)
Arrive_AtFront(c) ==
  /\ to_server[c] # <<>>
  /\ c \in m_clientMap \union {CAN}
  /\ uds_queue' = <<[client |-> c, req |-> Head(to_server[c]).req,
                     tag |-> Head(to_server[c]).tag]>> \o uds_queue
  /\ to_server' = [to_server EXCEPT ![c] = Tail(@)]
  /\ UNCHANGED <<m_session, m_nextClientId, m_clientMap, tester_vars, to_tester,
                 answer_queue, can_answers>>

(* onClientReadyRead and the parser on TCP, onFrameReceived on CAN.        *)
Arrive(c) ==
  /\ to_server[c] # <<>>
  /\ c \in m_clientMap \union {CAN}
  /\ uds_queue' = Append(uds_queue, [client |-> c, req |-> Head(to_server[c]).req,
                                     tag |-> Head(to_server[c]).tag])
  /\ to_server' = [to_server EXCEPT ![c] = Tail(@)]
  /\ UNCHANGED <<m_session, m_nextClientId, m_clientMap, tester_vars, to_tester,
                 answer_queue, can_answers>>

(* What a service throws is caught; then the answer is empty, and          *)
(* m_session is as it was or as the service had set it.                    *)
processUdsRequest(s, req) ==
  LET whole   == {processRequest(s, req, seed) : seed \in generateSecuritySeed(s)}
      reached == {s} \union {out.session : out \in whole} IN
  whole \union {Outcome(t, NoMessage) : t \in {u \in reached : req \in Throwing}}

IsAnswer(response) == response.sid # 0

(* Mutant: every answer is emitted as a CAN answer.                        *)
PostAnswer_OnCan(client, answer) ==
  /\ can_answers' = IF IsAnswer(answer.response) THEN Append(can_answers, answer)
                    ELSE can_answers
  /\ UNCHANGED answer_queue

(* onTcpUdsMessageReceived and onCanUdsMessageReceived: an empty answer is *)
(* dropped.                                                                *)
PostAnswer(client, answer) ==
  \/ /\ ~IsAnswer(answer.response)
     /\ UNCHANGED <<answer_queue, can_answers>>
  \/ /\ IsAnswer(answer.response) /\ client = CAN
     /\ can_answers' = Append(can_answers, answer)
     /\ UNCHANGED answer_queue
  \/ /\ IsAnswer(answer.response) /\ client # CAN
     /\ answer_queue' = Append(answer_queue, answer)
     /\ UNCHANGED can_answers

(* The worker is done with the head of its queue.                          *)
Finish(out) ==
  /\ m_session' = out.session
  /\ LET event == Head(uds_queue) IN
     PostAnswer(event.client, [client |-> event.client,
                               response |-> out.response, tag |-> event.tag])
  /\ uds_queue' = Tail(uds_queue)
  /\ UNCHANGED <<m_nextClientId, m_clientMap, tester_vars, to_server, to_tester>>

ProcessUdsRequest ==
  /\ uds_queue # <<>>
  /\ \E out \in processUdsRequest(m_session, Head(uds_queue).req) : Finish(out)

(* Onto a channel nobody listens to, bytes are lost.                       *)
Transmit(c, answer) ==
  to_tester' = IF Abandoned(c) THEN to_tester
               ELSE [to_tester EXCEPT ![c] = Append(@,
                       [raw |-> serializeUDSMessage(answer.response),
                        response |-> answer.response, tag |-> answer.tag])]

(* The number is looked up when the answer is sent.                        *)
SendTcpResponse ==
  /\ answer_queue # <<>>
  /\ IF Head(answer_queue).client \in m_clientMap
     THEN Transmit(Head(answer_queue).client, Head(answer_queue))
     ELSE UNCHANGED to_tester
  /\ answer_queue' = Tail(answer_queue)
  /\ UNCHANGED <<m_session, m_nextClientId, m_clientMap, tester_vars, to_server,
                 uds_queue, can_answers>>

(* isotp_send refuses while a transfer is in progress, and ISO-TP may give *)
(* up on the answer (modules IsoTp and IsoTpNodes): either way the    *)
(* answer is gone and nobody is told.                                      *)
SendCanResponse ==
  /\ can_answers # <<>>
  /\ Transmit(CAN, Head(can_answers)) \/ UNCHANGED to_tester
  /\ can_answers' = Tail(can_answers)
  /\ UNCHANGED <<m_session, m_nextClientId, m_clientMap, tester_vars, to_server,
                 uds_queue, answer_queue>>

Receive(t) ==
  /\ Connected(t) /\ to_tester[connection[t]] # <<>>
  /\ LET payload == Head(to_tester[connection[t]]).raw.payload IN
     last_seed' = IF payload.kind = "seed"
                  THEN [last_seed EXCEPT ![t] = payload.value] ELSE last_seed
  /\ to_tester' = [to_tester EXCEPT ![connection[t]] = Tail(@)]
  /\ UNCHANGED <<m_session, m_nextClientId, m_clientMap, connection, asked,
                 to_server, uds_queue, answer_queue, can_answers>>

Server ==
  \/ \E c \in ClientIds : onClientDisconnected(c)
  \/ \E c \in Channels : Arrive(c)
  \/ ProcessUdsRequest \/ SendTcpResponse \/ SendCanResponse

Next ==
  \/ \E t \in Testers : Connect(t) \/ Leave(t) \/ SendRequest(t) \/ Receive(t)
  \/ Server

Spec == Init /\ [][Next]_vars

(* The event loops keep running.  Nothing is assumed of the testers but    *)
(* that they read.                                                         *)
Fairness ==
  /\ \A c \in Channels : WF_vars(Arrive(c))
  /\ WF_vars(ProcessUdsRequest) /\ WF_vars(SendTcpResponse)
  /\ WF_vars(SendCanResponse)
  /\ \A t \in Testers : WF_vars(Receive(t))

FairSpec == Spec /\ Fairness
-----------------------------------------------------------------------------
Tag == [tester : Testers, channel : Channels, n : 1..MaxRequests]
Events  == [client : Channels, req : RequestType, tag : Tag]
Answers == [client : Channels, response : ResponseType, tag : Tag]

(* The session, the client numbers, the testers and what is in the queues. *)
TypeOK ==
  /\ m_session \in SessionState
  /\ m_nextClientId \in FirstClientId..(FirstClientId + MaxConnections)
  /\ m_clientMap \subseteq FirstClientId..(m_nextClientId - 1)
  /\ connection \in [Testers -> Channels \union {None}]
  /\ asked \in [Testers -> 0..MaxRequests]
  /\ last_seed \in [Testers -> Nat]
  /\ to_server \in [Channels -> Seq([req : RequestType, tag : Tag])]
  /\ to_tester \in [Channels ->
       Seq([raw : RawType, response : ResponseType, tag : Tag])]
  /\ uds_queue \in Seq(Events)
  /\ answer_queue \in Seq(Answers) /\ can_answers \in Seq(Answers)

(* A session other than the default one is held only by an authenticated   *)
(* tester, whatever mix of requests, disconnections and testers led there  *)
(* (uds_handler.cpp:62 and 70 check it on entry; 57-59 keep it on exit).   *)
SessionNeedsAuth ==
  m_session.currentSession # DEFAULT_SESSION => m_session.isAuthenticated

(* A DID is read only in an authenticated session, and the answer to a     *)
(* read is never "security access denied": the session check at            *)
(* uds_handler.cpp:25 comes first, so that line 111 is never reached.      *)
ReadsUnlocked ==
  [][\A q \in {answer_queue', can_answers'} \ {answer_queue, can_answers} :
       (q # <<>> /\ ProcessUdsRequest) =>
          LET r == q[Len(q)].response IN
          /\ r.sid = READ_DATA_BY_IDENTIFIER + POSITIVE_RESPONSE_MASK
               => m_session.isAuthenticated
          /\ ~(r.sub = READ_DATA_BY_IDENTIFIER /\ r.nrc = SECURITY_ACCESS_DENIED)
    ]_vars

(* What a tester receives answers its own request, made on the connection  *)
(* it still has: an answer computed for a client that left is never sent   *)
(* to the client that came after it (tcpworkerserver.cpp:105, 202).        *)
OwnAnswers ==
  \A t \in Testers : Connected(t) =>
    \A i \in 1..Len(to_tester[connection[t]]) :
      LET tag == to_tester[connection[t]][i].tag IN
      tag.tester = t /\ tag.channel = connection[t]

(* The answers of one connection come in the order of its requests, each   *)
(* request being somewhere on its way at most once, across the four queues *)
(* of three threads (or two queues and the bus).                           *)
Pipeline(c) ==
  to_tester[c] \o answer_queue \o can_answers \o uds_queue \o to_server[c]
InRequestOrder ==
  \A c \in Channels :
    LET p == Pipeline(c) IN
    \A i, j \in 1..Len(p) :
      i < j /\ p[i].tag.channel = c /\ p[j].tag.channel = c
        => p[i].tag.n < p[j].tag.n

(* A request on a TCP connection that stays open is answered, if its       *)
(* service does not throw: no interleaving with other clients swallows it. *)
(* (A CAN answer may be lost: SendCanResponse.)                            *)
Under(t, n) ==
  \E i \in 1..Len(to_server[connection[t]]) :
    LET m == to_server[connection[t]][i] IN
    /\ m.tag = [tester |-> t, channel |-> connection[t], n |-> n]
    /\ m.req \notin Throwing
Reaches(t, n) ==
  \E i \in 1..Len(to_tester[connection[t]]) :
    to_tester[connection[t]][i].tag = [tester |-> t, channel |-> connection[t], n |-> n]
Answered ==
  \A t \in Testers \ CanTesters : \A n \in 1..MaxRequests :
    (Connected(t) /\ Under(t, n)) ~> (~Connected(t) \/ Reaches(t, n))
=============================================================================
