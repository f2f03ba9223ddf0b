----------------------------- MODULE MCTcpSession -----------------------------
(* Packets for model checking TcpSession and TcpFraming.  Seeds and keys    *)
(* are four bytes of any value, so they may hold the magic bytes and a      *)
(* header.                                                                  *)
EXTENDS TcpSession

Heartbeat     == [type |-> 2, payload |-> <<>>]
SendKey       == [type |-> UDS, payload |-> <<39, 2, 205, 171, 3, 0>>]
ClientPackets == {Heartbeat, SendKey}

Present       == [type |-> UDS, payload |-> <<126, 0>>]
Seed          == [type |-> UDS, payload |-> <<103, 1, 205, 171, 3, 0>>]
ServerPackets == {Present, Seed}
=============================================================================
