----------------------------- MODULE MCUdsSystem -----------------------------
(* What the tester that is no GUI client asks: to unlock the session, to    *)
(* read in it, to leave it and to enter one there is not.  The read may     *)
(* throw.                                                                   *)
EXTENDS UdsSystem

RequestSeed    == Request(SECURITY_ACCESS, 1, Nothing)
EnterDefault   == Request(DIAGNOSTIC_SESSION_CONTROL, DEFAULT_SESSION, Nothing)
WrongSession   == Request(DIAGNOSTIC_SESSION_CONTROL, 5, Nothing)
ReadRestricted == Request(READ_DATA_BY_IDENTIFIER, 0, Did("restricted"))

OtherRequests == {RequestSeed, EnterDefault, WrongSession, ReadRestricted}
ReadMayThrow  == {ReadRestricted}
=============================================================================
