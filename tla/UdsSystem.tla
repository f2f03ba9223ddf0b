------------------------------ MODULE UdsSystem ------------------------------
(***************************************************************************)
(* The whole diagnostic system: the server of UdsServer with, as testers,  *)
(* GUI clients of client/client.cpp and, where there are some, diagnostic  *)
(* tools of another make, which ask what they like.  A client's flags are  *)
(* its view of the server's session; they change when a button is pressed  *)
(* and when an answer is handled, while requests and answers are on their  *)
(* way.                                                                    *)
(*                                                                         *)
(* A client's GUI thread handles one event at a time: a click or an answer *)
(* the TCP or CAN thread has posted to it.  A request goes to the channel  *)
(* at once, or nowhere when there is no connection.                        *)
(***************************************************************************)
EXTENDS UdsServer

CONSTANTS
  Others,          \* the testers that are no GUI client
  Clicks,          \* the buttons that are pressed, a subset of Buttons
  MaxClicks,       \* bound: clicks of one client
  MaxOther         \* bound: requests of one of the others

Buttons == {"ex", "code", "Default", "read", "Tester", "ECU"}
Guis == Testers \ Others

(* One click causes at most three requests: seed, key, session.            *)
ASSUME SystemAssumption ==
  /\ Others \subseteq Testers
  /\ Clicks \subseteq Buttons
  /\ MaxClicks \in Nat /\ MaxRequests >= 3 * MaxClicks
  /\ MaxOther \in Nat

VARIABLES
  securityAccessCompleted,
  waitingForSecurityAccess,
  pendingOperation,   \* a session to enter after security access, or None
  currentSession,     \* the session the client believes in
  gui_queue,          \* answers posted to the GUI thread
  clicks              \* clicks[t]: how many so far

gui_flags == <<securityAccessCompleted, waitingForSecurityAccess,
               pendingOperation, currentSession>>
gui_vars == <<gui_flags, gui_queue, clicks>>
server_vars == <<m_session, m_nextClientId, m_clientMap, uds_queue, answer_queue,
                 can_answers>>
system_vars == <<vars, gui_vars>>

GInit ==
  /\ Init
  /\ securityAccessCompleted = [t \in Testers |-> FALSE]
  /\ waitingForSecurityAccess = [t \in Testers |-> FALSE]
  /\ pendingOperation = [t \in Testers |-> None]
  /\ currentSession = [t \in Testers |-> DEFAULT_SESSION]
  /\ gui_queue = [t \in Testers |-> <<>>]
  /\ clicks = [t \in Testers |-> 0]
-----------------------------------------------------------------------------
(* Tcp_worker::sendUdsData and Can_worker::sendUdsData *)
Post(t, req) ==
  IF Connected(t) THEN Ask(t, req) ELSE UNCHANGED <<asked, to_server>>

requestSecurityAccess(t) == Post(t, Request(SECURITY_ACCESS, 1, Nothing))

(* The part of enterSession after the security check: m_currentSession     *)
(* changes on sending, whatever the server will answer.                    *)
SwitchSession(t, sub) ==
  /\ Post(t, Request(DIAGNOSTIC_SESSION_CONTROL, sub, Nothing))
  /\ currentSession' = [currentSession EXCEPT ![t] = sub]
  /\ pendingOperation' = [pendingOperation EXCEPT ![t] = None]

(* Mutant: the programming session is entered without security access.     *)
enterSession_Unsecured(t, sub) ==
  IF sub = EXTENDED_DIAGNOSTIC /\ ~securityAccessCompleted[t]
  THEN /\ requestSecurityAccess(t)
       /\ pendingOperation' = [pendingOperation EXCEPT ![t] = sub]
       /\ waitingForSecurityAccess' = [waitingForSecurityAccess EXCEPT ![t] = TRUE]
       /\ UNCHANGED <<securityAccessCompleted, currentSession>>
  ELSE /\ SwitchSession(t, sub)
       /\ UNCHANGED <<securityAccessCompleted, waitingForSecurityAccess>>

enterSession(t, sub) ==
  IF sub # DEFAULT_SESSION /\ ~securityAccessCompleted[t]
  THEN /\ requestSecurityAccess(t)
       /\ pendingOperation' = [pendingOperation EXCEPT ![t] = sub]
       /\ waitingForSecurityAccess' = [waitingForSecurityAccess EXCEPT ![t] = TRUE]
       /\ UNCHANGED <<securityAccessCompleted, currentSession>>
  ELSE /\ SwitchSession(t, sub)
       /\ securityAccessCompleted' = [securityAccessCompleted EXCEPT ![t] =
            @ /\ sub # DEFAULT_SESSION]
       /\ waitingForSecurityAccess' = [waitingForSecurityAccess EXCEPT ![t] =
            @ /\ sub # DEFAULT_SESSION]

(* Tester present and ECU reset need no security access.                   *)
sendUDSRequest(t, req) ==
  /\ IF securityAccessCompleted[t] \/ req.sid \in {TESTER_PRESENT, ECU_RESET}
     THEN Post(t, req)
     ELSE UNCHANGED <<asked, to_server>>
  /\ UNCHANGED gui_flags

Press(t, button) ==
  CASE button = "ex"      -> enterSession(t, EXTENDED_DIAGNOSTIC)
    [] button = "code"    -> enterSession(t, PROGRAMMING_SESSION)
    [] button = "Default" -> enterSession(t, DEFAULT_SESSION)
    [] button = "read" ->
         sendUDSRequest(t, Request(READ_DATA_BY_IDENTIFIER, 0, Did("open")))
    [] button = "Tester"  -> sendUDSRequest(t, Request(TESTER_PRESENT, 0, Nothing))
    [] button = "ECU"     -> sendUDSRequest(t, Request(ECU_RESET, 1, Nothing))

Click(t) ==
  /\ clicks[t] < MaxClicks
  /\ clicks' = [clicks EXCEPT ![t] = @ + 1]
  /\ \E button \in Clicks : Press(t, button)
  /\ UNCHANGED <<server_vars, connection, last_seed, to_tester, gui_queue>>

(* The client's worker thread parses an answer and posts it.               *)
PostToGui(t) ==
  /\ Receive(t)
  /\ LET m == Head(to_tester[connection[t]]) IN
     gui_queue' = [gui_queue EXCEPT ![t] = Append(@,
       [msg |-> deserializeUDSMessage(m.raw), response |-> m.response])]
  /\ UNCHANGED <<gui_flags, clicks>>

(* A seed is answered with its key at once.                                *)
OnSeed(t, msg) ==
  /\ msg.sid = SECURITY_ACCESS + POSITIVE_RESPONSE_MASK /\ msg.sub = 1
  /\ Post(t, Request(SECURITY_ACCESS, 2, Key(msg.payload.value)))
  /\ UNCHANGED gui_flags

(* Mutant: the pending operation is not run.                               *)
OnAccessGranted_Forgets(t, msg) ==
  /\ msg.sid = SECURITY_ACCESS + POSITIVE_RESPONSE_MASK /\ msg.sub = 2
  /\ securityAccessCompleted' = [securityAccessCompleted EXCEPT ![t] = TRUE]
  /\ waitingForSecurityAccess' = [waitingForSecurityAccess EXCEPT ![t] = FALSE]
  /\ UNCHANGED <<asked, to_server, currentSession, pendingOperation>>

(* Access is granted: the pending session is entered now.                  *)
OnAccessGranted(t, msg) ==
  /\ msg.sid = SECURITY_ACCESS + POSITIVE_RESPONSE_MASK /\ msg.sub = 2
  /\ securityAccessCompleted' = [securityAccessCompleted EXCEPT ![t] = TRUE]
  /\ waitingForSecurityAccess' = [waitingForSecurityAccess EXCEPT ![t] = FALSE]
  /\ IF pendingOperation[t] # None THEN SwitchSession(t, pendingOperation[t])
     ELSE UNCHANGED <<asked, to_server, currentSession, pendingOperation>>

(* A negative response, and every other positive one, is only shown.       *)
OnShown(msg) ==
  /\ msg.isNegativeResponse \/ msg.sid # SECURITY_ACCESS + POSITIVE_RESPONSE_MASK
  /\ UNCHANGED <<asked, to_server, gui_flags>>

onUdsMessageReceived(t) ==
  /\ gui_queue[t] # <<>>
  /\ LET msg == Head(gui_queue[t]).msg IN
     OnSeed(t, msg) \/ OnAccessGranted(t, msg) \/ OnShown(msg)
  /\ gui_queue' = [gui_queue EXCEPT ![t] = Tail(@)]
  /\ UNCHANGED <<server_vars, connection, last_seed, to_tester, clicks>>

OtherStep(t) ==
  /\ (SendRequest(t) /\ asked[t] < MaxOther) \/ Receive(t)
  /\ UNCHANGED gui_vars

GNext ==
  \/ \E t \in Guis : Click(t) \/ PostToGui(t) \/ onUdsMessageReceived(t)
  \/ \E t \in Others : OtherStep(t)
  \/ /\ (\E t \in Testers : Connect(t) \/ Leave(t)) \/ Server
     /\ UNCHANGED gui_vars

GSpec == GInit /\ [][GNext]_system_vars

(* Every event loop keeps running; nobody has to click, ask or connect.    *)
GFairness ==
  /\ \A c \in Channels : WF_system_vars(Arrive(c) /\ UNCHANGED gui_vars)
  /\ WF_system_vars(ProcessUdsRequest /\ UNCHANGED gui_vars)
  /\ WF_system_vars(SendTcpResponse /\ UNCHANGED gui_vars)
  /\ WF_system_vars(SendCanResponse /\ UNCHANGED gui_vars)
  /\ \A t \in Guis : WF_system_vars(PostToGui(t))
                       /\ WF_system_vars(onUdsMessageReceived(t))

GFairSpec == GSpec /\ GFairness
-----------------------------------------------------------------------------
(* Nothing is on its way.                                                  *)
Quiet ==
  /\ uds_queue = <<>> /\ answer_queue = <<>> /\ can_answers = <<>>
  /\ \A c \in Channels : to_server[c] = <<>> /\ to_tester[c] = <<>>
  /\ \A t \in Testers : gui_queue[t] = <<>>

NobodyElseAsked == \A t \in Others : asked[t] = 0

(* Once nothing is on its way, the flags of an only client that kept its   *)
(* first connection and stays out of the default session agree with the    *)
(* server's session: whatever was clicked while answers were under way,    *)
(* some key met the seed the server then had, and the session the client   *)
(* believes in is the one it is in.                                        *)
InStep ==
  Quiet /\ NobodyElseAsked =>
    \A t \in Guis : connection[t] = FirstClientId =>
      /\ securityAccessCompleted[t] = m_session.isAuthenticated
      /\ currentSession[t] = m_session.currentSession

(* A session asked for is entered: once a seed request is on its way on    *)
(* the client's first connection, security access completes and the        *)
(* pending operation runs (client.cpp:341-354), unless the client leaves   *)
(* or another tester asks for something.  Another tester, and what a       *)
(* connection left behind, may ask for a seed and so make the key that is  *)
(* on its way a wrong one.                                                 *)
AsksForSeed(t) ==
  /\ connection[t] = FirstClientId
  /\ \E i \in 1..Len(to_server[FirstClientId]) :
       to_server[FirstClientId][i].req = Request(SECURITY_ACCESS, 1, Nothing)
PendingRuns ==
  \A t \in Guis :
    AsksForSeed(t)
      ~> \/ ~Connected(t) \/ ~NobodyElseAsked
         \/ securityAccessCompleted[t] /\ pendingOperation[t] = None
              /\ ~waitingForSecurityAccess[t]
=============================================================================
