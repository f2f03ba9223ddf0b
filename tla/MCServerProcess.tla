--------------------------- MODULE MCServerProcess ---------------------------
(* The command lines and the requests of the run: TesterPresent, which is   *)
(* logged only at the level TRACE, and a service that is refused.           *)
EXTENDS ServerProcess

CommandLines == {[level |-> 3, skip |-> FALSE]}

Probe   == Request(TESTER_PRESENT, 0, Nothing)
Refused == Request(ROUTINE_CONTROL, 1, Nothing)
ProbeAndRefused == {Probe, Refused}
RefusedMayThrow == {Refused}
=============================================================================
