----------------------------- MODULE UdsHandler ------------------------------
(***************************************************************************)
(* The server's UDS services (core/uds_handler.cpp): processRequest as a   *)
(* function of m_session and the request.  There is one UDS_handler, and   *)
(* so one m_session, for all TCP clients and the CAN channel.              *)
(*                                                                         *)
(* Service and session numbers are those of core/types.h.  A DID is        *)
(* abstracted to what handleReadDataByIdentifier tells apart, a key to the *)
(* seed it answers, and a seed to a number.  The last parameter is what    *)
(* generateSecuritySeed returns if the service calls it.                   *)
(***************************************************************************)
EXTENDS Integers, Sequences

(* Service ids, in the decimal of 0x10, 0x11, 0x22, 0x27, 0x2E, 0x31, 0x3E *)
DIAGNOSTIC_SESSION_CONTROL == 16
ECU_RESET                  == 17
READ_DATA_BY_IDENTIFIER    == 34
SECURITY_ACCESS            == 39
WRITE_DATA_BY_IDENTIFIER   == 46
ROUTINE_CONTROL            == 49
TESTER_PRESENT             == 62
NEGATIVE_RESPONSE          == 127
POSITIVE_RESPONSE_MASK     == 64

DEFAULT_SESSION     == 1
PROGRAMMING_SESSION == 2
EXTENDED_DIAGNOSTIC == 3
Sessions == {DEFAULT_SESSION, PROGRAMMING_SESSION, EXTENDED_DIAGNOSTIC}

SERVICE_NOT_SUPPORTED                        == 17
SUB_FUNCTION_NOT_SUPPORTED                   == 18
INCORRECT_MESSAGE_LENGTH                     == 19
REQUEST_OUT_OF_RANGE                         == 49
SECURITY_ACCESS_DENIED                       == 51
INVALID_KEY                                  == 53
SUB_FUNCTION_NOT_SUPPORTED_IN_ACTIVE_SESSION == 126

(* Payloads: nothing, too short for the service, a DID, a key or a seed.   *)
(* A "restricted" DID is a known one from 0xF1A0 on, an "open" one is      *)
(* known and below.                                                        *)
Nothing  == [kind |-> "none", value |-> 0]
Short    == [kind |-> "short", value |-> 0]
Did(c)   == [kind |-> c, value |-> 0]
Key(s)   == [kind |-> "key", value |-> s]
Seed(s)  == [kind |-> "seed", value |-> s]
DidClass == {"open", "restricted", "unknown"}

Kinds    == {"none", "short", "key", "seed"} \union DidClass

(* What a UDSMessage's fields range over.                                  *)
PayloadType  == [kind : Kinds, value : Nat]
RequestType  == [sid : 0..255, sub : 0..255, payload : PayloadType]
RawType      == [sid : Nat, sub : 0..255, payload : PayloadType]
ResponseType == [sid : Nat, sub : 0..255, nrc : 0..255, payload : PayloadType]

Request(sid, sub, payload) == [sid |-> sid, sub |-> sub, payload |-> payload]

(* Responses as UDSMessage fields; nrc is negativeCode.                    *)
Positive(req, payload) ==
  [sid |-> req.sid + POSITIVE_RESPONSE_MASK, sub |-> req.sub, nrc |-> 0,
   payload |-> payload]
makeNegativeResponse(sid, nrc) ==
  [sid |-> NEGATIVE_RESPONSE, sub |-> sid, nrc |-> nrc, payload |-> Nothing]

(* UDSMessage{}: there is nothing to answer.                               *)
NoMessage == [sid |-> 0, sub |-> 0, nrc |-> 0, payload |-> Nothing]

(* m_session *)
NewSession == [currentSession |-> DEFAULT_SESSION, isAuthenticated |-> FALSE,
               securityLevel |-> 0, seed |-> 0]

SessionState == [currentSession : Sessions, isAuthenticated : BOOLEAN,
                 securityLevel : 0..128, seed : Nat]

Outcome(session, response) == [session |-> session, response |-> response]
Refuse(s, req, nrc) == Outcome(s, makeNegativeResponse(req.sid, nrc))

(* serializeUDSMessage writes sid, sub-function and payload; negativeCode   *)
(* is not written.  The client's deserializeUDSMessage takes the NRC from  *)
(* the third byte, and 0 when there is none.                               *)
serializeUDSMessage(msg) ==
  [sid |-> msg.sid, sub |-> msg.sub, payload |-> msg.payload]
deserializeUDSMessage(raw) ==
  LET negative == raw.sid = NEGATIVE_RESPONSE IN
  [sid |-> IF negative THEN raw.sub ELSE raw.sid, sub |-> raw.sub,
   payload |-> raw.payload, isNegativeResponse |-> negative,
   negativeCode |-> IF negative THEN raw.payload.value ELSE 0]
-----------------------------------------------------------------------------
(* Mutants: the default session takes the authentication away and leaves   *)
(* the session; any number is a session.                                   *)
SessionControl_KeepsSession(s, req) ==
  CASE req.sub = DEFAULT_SESSION ->
         Outcome([s EXCEPT !.isAuthenticated = FALSE, !.securityLevel = 0],
                 Positive(req, Nothing))
    [] req.sub \in {PROGRAMMING_SESSION, EXTENDED_DIAGNOSTIC} ->
         IF s.isAuthenticated
         THEN Outcome([s EXCEPT !.currentSession = req.sub], Positive(req, Nothing))
         ELSE Refuse(s, req, SECURITY_ACCESS_DENIED)
    [] OTHER -> Refuse(s, req, SUB_FUNCTION_NOT_SUPPORTED)
SessionControl_AnyNumber(s, req) ==
  IF s.isAuthenticated \/ req.sub = DEFAULT_SESSION
  THEN Outcome([s EXCEPT !.currentSession = req.sub,
                         !.isAuthenticated = @ /\ req.sub # DEFAULT_SESSION],
               Positive(req, Nothing))
  ELSE Refuse(s, req, SECURITY_ACCESS_DENIED)

handleDiagnosticSessionControl(s, req) ==
  LET enter == [s EXCEPT !.currentSession = req.sub]
      leave == [s EXCEPT !.currentSession = DEFAULT_SESSION,
                         !.isAuthenticated = FALSE, !.securityLevel = 0]
      ok(t) == Outcome(t, Positive(req, Nothing)) IN
  CASE req.sub = DEFAULT_SESSION -> ok(leave)
    [] req.sub \in {PROGRAMMING_SESSION, EXTENDED_DIAGNOSTIC} ->
         IF s.isAuthenticated THEN ok(enter)
         ELSE Refuse(s, req, SECURITY_ACCESS_DENIED)
    [] OTHER -> Refuse(s, req, SUB_FUNCTION_NOT_SUPPORTED)

handleReadDataByIdentifier(s, req) ==
  CASE req.payload.kind \notin DidClass ->
         Refuse(s, req, INCORRECT_MESSAGE_LENGTH)
    [] req.payload.kind = "unknown" -> Refuse(s, req, REQUEST_OUT_OF_RANGE)
    [] req.payload.kind = "restricted" /\ ~s.isAuthenticated ->
         Refuse(s, req, SECURITY_ACCESS_DENIED)
    [] OTHER -> Outcome(s, Positive([req EXCEPT !.sub = 0], req.payload))

handleTesterPresent(s, req) ==
  IF req.sub = 0 THEN Outcome(s, Positive(req, Nothing))
  ELSE Refuse(s, req, SUB_FUNCTION_NOT_SUPPORTED)

(* An odd sub-function asks for a seed, an even one brings the key.  The   *)
(* seed stays valid after its use and across session changes.              *)
handleSecurityAccess(s, req, seed) ==
  CASE req.sub % 2 = 1 ->
         Outcome([s EXCEPT !.seed = seed,
                           !.securityLevel = req.sub \div 2 + 1],
                 Positive(req, Seed(seed)))
    [] req.sub % 2 = 0 /\ req.payload.kind # "key" ->
         Refuse(s, req, INCORRECT_MESSAGE_LENGTH)
    [] req.sub % 2 = 0 /\ req.payload = Key(s.seed) ->
         Outcome([s EXCEPT !.isAuthenticated = TRUE], Positive(req, Nothing))
    [] OTHER -> Refuse(s, req, INVALID_KEY)

(* The answer carries the time; m_session is not touched.                  *)
handleECUReset(s, req) ==
  IF req.sub \in {1, 2, 3} THEN Outcome(s, Positive(req, Nothing))
  ELSE Refuse(s, req, SUB_FUNCTION_NOT_SUPPORTED)

(* The seed is a hash of the time in milliseconds, never 0: two requests   *)
(* in the same millisecond get the same one.                               *)
generateSecuritySeed(s) == {s.seed, s.seed + 1} \ {0}

(* Mutant: reading is possible in every session.                           *)
NeedsSession_ButReads == {WRITE_DATA_BY_IDENTIFIER, ROUTINE_CONTROL}

NeedsSession == {READ_DATA_BY_IDENTIFIER, WRITE_DATA_BY_IDENTIFIER,
                 ROUTINE_CONTROL}

processRequest(s, req, seed) ==
  IF req.sid \in NeedsSession /\ s.currentSession = DEFAULT_SESSION
  THEN Refuse(s, req, SUB_FUNCTION_NOT_SUPPORTED_IN_ACTIVE_SESSION)
  ELSE CASE req.sid = DIAGNOSTIC_SESSION_CONTROL ->
              handleDiagnosticSessionControl(s, req)
         [] req.sid = READ_DATA_BY_IDENTIFIER ->
              handleReadDataByIdentifier(s, req)
         [] req.sid = TESTER_PRESENT  -> handleTesterPresent(s, req)
         [] req.sid = SECURITY_ACCESS -> handleSecurityAccess(s, req, seed)
         [] req.sid = ECU_RESET       -> handleECUReset(s, req)
         [] OTHER -> Refuse(s, req, SERVICE_NOT_SUPPORTED)
=============================================================================
