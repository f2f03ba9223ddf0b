------------------------------ MODULE TcpSession ------------------------------
(***************************************************************************)
(* The client's TCP session (client/tcp_worker.cpp) over the byte stream   *)
(* of TcpFraming: the socket, the reconnect and the heartbeat timer and    *)
(* the mark isUserDisconnect in the TCP thread; the buttons and the status *)
(* label in the GUI thread.  The two threads talk by queued calls (slots)  *)
(* and queued signals.                                                     *)
(*                                                                         *)
(* QTcpSocket is external: connectToHost returns at once and its outcome   *)
(* comes later; a disconnect during the attempt is put off until its end;  *)
(* a socket with bytes to write closes only when they are written.  The    *)
(* address is an IP address, so that no host lookup comes first.  Timers   *)
(* have no length: they fire at some time while they run.                  *)
(***************************************************************************)
EXTENDS TcpFraming

CONSTANTS
  MaxClicks,    \* bound: presses of the two buttons
  MaxOutages,   \* bound: connections lost and servers gone
  MaxSignals    \* bound: signals that wait when the reconnect timer fires

(* Every connection is the work of a click or follows an outage.           *)
ASSUME SessionAssumption ==
  /\ MaxClicks \in Nat /\ MaxOutages \in Nat /\ MaxSignals \in Nat \ {0}
  /\ MaxConnections >= MaxClicks + MaxOutages

VARIABLES
  socket,            \* state of m_socket; "none" before initSocket
  pendingClose,      \* disconnectFromHost was called during the attempt
  isUserDisconnect,
  reconnectTimer,    \* m_reconnectTimer is active
  heartbeatTimer,    \* m_heartbeatTimer is active
  reachable,         \* the server listens and the network is up
  slots,             \* calls posted to the TCP thread
  signals,           \* signals posted to the GUI thread
  label,             \* what label_TcpStatus says
  wanted,            \* history: the last call the worker got was a connect
  clicks, outages

worker_vars == <<socket, pendingClose, isUserDisconnect, reconnectTimer,
                 heartbeatTimer>>
gui_vars == <<slots, signals, label, wanted, clicks>>
network_vars == <<reachable, outages>>
session_vars == <<vars, worker_vars, gui_vars, network_vars>>

SInit ==
  /\ Init
  /\ socket = "none" /\ pendingClose = FALSE /\ isUserDisconnect = FALSE
  /\ reconnectTimer = FALSE /\ heartbeatTimer = FALSE
  /\ reachable \in BOOLEAN
  /\ slots = <<>> /\ signals = <<>> /\ label = "down" /\ wanted = FALSE
  /\ clicks = 0 /\ outages = 0
-----------------------------------------------------------------------------
(* on_btn_ConnectTcp_clicked and on_btn_DisconnectTcp_clicked: the label   *)
(* changes at once, the call is posted.                                    *)
Click(call, text) ==
  /\ clicks < MaxClicks
  /\ clicks' = clicks + 1
  /\ slots' = Append(slots, call)
  /\ label' = text
  /\ UNCHANGED <<vars, worker_vars, signals, wanted, network_vars>>

ClickConnect    == Click("connect", "connecting")
ClickDisconnect == Click("disconnect", "down")

(* The three signals of the worker.                                        *)
LabelOf(signal) ==
  CASE signal = "connected"    -> "ready"
    [] signal = "reconnect"    -> "reconnecting"
    [] signal = "disconnected" -> "down"

ShowStatus ==
  /\ signals # <<>>
  /\ label' = LabelOf(Head(signals))
  /\ signals' = Tail(signals)
  /\ UNCHANGED <<vars, worker_vars, slots, wanted, clicks, network_vars>>
-----------------------------------------------------------------------------
(* The TCP thread is in its event loop: a close that was put off follows   *)
(* the end of the attempt in the same call.                                *)
InEventLoop == ~(socket = "connected" /\ pendingClose)

NextSlot(call) == InEventLoop /\ slots # <<>> /\ Head(slots) = call

(* initSocket and connectToServer.  While the socket is closing Qt ignores *)
(* connectToHost.                                                          *)
connectToServer ==
  /\ NextSlot("connect")
  /\ slots' = Tail(slots) /\ wanted' = TRUE
  /\ socket' = IF socket \in {"none", "unconnected"} THEN "connecting" ELSE socket
  /\ UNCHANGED <<vars, pendingClose, isUserDisconnect, reconnectTimer,
                 heartbeatTimer, signals, label, clicks, network_vars>>

(* Mutant: the mark is set only for a connection that is open.             *)
MarkUserDisconnect_IfOpen == isUserDisconnect' = (isUserDisconnect \/ open)

MarkUserDisconnect == isUserDisconnect' = TRUE

StartReconnect == reconnectTimer' = (reconnectTimer \/ ~isUserDisconnect)

(* Mutant: the GUI is not told of an end the user asked for.               *)
SignalDisconnected_IfLost ==
  signals' = IF isUserDisconnect THEN signals ELSE Append(signals, "disconnected")

SignalDisconnected == signals' = Append(signals, "disconnected")

(* The end of a connection: Break, and the slot onDisconnected.            *)
onDisconnected ==
  /\ Break
  /\ socket' = "unconnected" /\ pendingClose' = FALSE
  /\ heartbeatTimer' = FALSE
  /\ StartReconnect /\ SignalDisconnected

(* Mutant: a running attempt is not given up.                              *)
PutOffClose_IfConnected == pendingClose' = (pendingClose \/ socket = "connected")

PutOffClose ==
  pendingClose' = (pendingClose \/ socket \in {"connecting", "connected"})

(* DisconnectToServer up to disconnectFromHost, which is CloseNow.         *)
DisconnectToServer ==
  /\ NextSlot("disconnect")
  /\ slots' = Tail(slots) /\ wanted' = FALSE
  /\ IF socket = "none" THEN UNCHANGED worker_vars
     ELSE /\ MarkUserDisconnect
          /\ reconnectTimer' = FALSE
          /\ PutOffClose
          /\ UNCHANGED <<socket, heartbeatTimer>>
  /\ UNCHANGED <<vars, signals, label, clicks, network_vars>>

(* disconnectFromHost of an open socket: closed at once, or closing while  *)
(* bytes are left to write.                                                *)
CloseNow ==
  /\ ~InEventLoop
  /\ \/ onDisconnected
     \/ /\ receiver = "server" => wire # <<>>
        /\ socket' = "closing" /\ pendingClose' = FALSE
        /\ UNCHANGED <<vars, reconnectTimer, heartbeatTimer, signals>>
  /\ UNCHANGED <<isUserDisconnect, slots, label, wanted, clicks, network_vars>>

(* The last byte is written.                                               *)
Closed ==
  /\ socket = "closing"
  /\ onDisconnected
  /\ UNCHANGED <<isUserDisconnect, slots, label, wanted, clicks, network_vars>>

(* Mutant: the reconnect timer goes on.                                    *)
StopReconnect_Never == UNCHANGED reconnectTimer

StopReconnect == reconnectTimer' = FALSE

(* The attempt succeeds: Connect, and the slot onConnected.                *)
onConnected ==
  /\ socket = "connecting" /\ reachable
  /\ Connect
  /\ socket' = "connected"
  /\ StopReconnect
  /\ heartbeatTimer' = TRUE
  /\ signals' = Append(signals, "connected")
  /\ UNCHANGED <<pendingClose, isUserDisconnect, slots, label, wanted, clicks, network_vars>>

(* Nothing in the worker listens to errors: a failed attempt is silent.    *)
ConnectFails ==
  /\ socket = "connecting" /\ ~reachable
  /\ socket' = "unconnected" /\ pendingClose' = FALSE
  /\ UNCHANGED <<vars, isUserDisconnect, reconnectTimer, heartbeatTimer, gui_vars,
                 network_vars>>

(* Mutant: the timer is a single shot.                                     *)
TimerRepeats_Not == reconnectTimer' = FALSE

TimerRepeats == UNCHANGED reconnectTimer

onReconnectTimer ==
  /\ InEventLoop /\ reconnectTimer
  /\ ~isUserDisconnect /\ socket = "unconnected" /\ Len(signals) < MaxSignals
  /\ socket' = "connecting"
  /\ signals' = Append(signals, "reconnect")
  /\ TimerRepeats
  /\ UNCHANGED <<vars, pendingClose, isUserDisconnect, heartbeatTimer, slots, label, wanted, clicks, network_vars>>

(* sendHeartbeat and sendUdsData: only on a connected socket.  A request   *)
(* is posted by the GUI; one that is too late is dropped.                  *)
ClientSends(packet) ==
  /\ receiver = "server" /\ InEventLoop /\ socket = "connected"
  /\ packet.type # UDS => heartbeatTimer
  /\ SendPacket(packet)

ServerSends(packet) == receiver = "client" /\ SendPacket(packet)

Transfer ==
  /\ \/ \E packet \in Packets : ClientSends(packet) \/ ServerSends(packet)
     \/ \E n \in 1..Len(wire) : ReadyRead(n)
  /\ UNCHANGED <<worker_vars, gui_vars, network_vars>>
-----------------------------------------------------------------------------
(* The connection breaks and the client's socket notices.                  *)
Lost ==
  /\ outages < MaxOutages /\ outages' = outages + 1
  /\ InEventLoop /\ open
  /\ onDisconnected
  /\ reachable' \in BOOLEAN
  /\ UNCHANGED <<isUserDisconnect, slots, label, wanted, clicks>>

ServerGone ==
  /\ outages < MaxOutages /\ outages' = outages + 1
  /\ ~open /\ reachable /\ reachable' = FALSE
  /\ UNCHANGED <<vars, worker_vars, gui_vars>>

ServerBack ==
  /\ ~reachable /\ reachable' = TRUE
  /\ UNCHANGED <<vars, worker_vars, gui_vars, outages>>

SNext ==
  \/ ClickConnect \/ ClickDisconnect \/ ShowStatus
  \/ connectToServer \/ DisconnectToServer \/ CloseNow \/ Closed
  \/ onConnected \/ ConnectFails \/ onReconnectTimer
  \/ Transfer
  \/ Lost \/ ServerGone \/ ServerBack

SSpec == SInit /\ [][SNext]_session_vars

(* The event loop of the TCP thread runs, an attempt ends, a closing       *)
(* socket closes, and a server that is gone comes back.                    *)
SFairness ==
  /\ WF_session_vars(connectToServer \/ DisconnectToServer)
  /\ WF_session_vars(CloseNow) /\ WF_session_vars(Closed)
  /\ WF_session_vars(onConnected) /\ WF_session_vars(ConnectFails)
  /\ WF_session_vars(onReconnectTimer)
  /\ WF_session_vars(ServerBack) /\ WF_session_vars(ShowStatus)

SFairSpec == SSpec /\ SFairness
-----------------------------------------------------------------------------
(* Types; the connection of TcpFraming is the socket's, the heartbeat timer *)
(* runs exactly while it is open and the reconnect timer never then, nor   *)
(* after a disconnect of the user.                                         *)
SessionTypeOK ==
  /\ TypeOK
  /\ socket \in {"none", "unconnected", "connecting", "connected", "closing"}
  /\ open = (socket \in {"connected", "closing"})
  /\ pendingClose => socket \in {"connecting", "connected"}
  /\ isUserDisconnect \in BOOLEAN /\ reachable \in BOOLEAN /\ wanted \in BOOLEAN
  /\ heartbeatTimer = open
  /\ reconnectTimer => ~open /\ ~isUserDisconnect
  /\ slots \in Seq({"connect", "disconnect"})
  /\ signals \in Seq({"connected", "reconnect", "disconnected"})
  /\ label \in {"down", "connecting", "reconnecting", "ready"}

(* When nothing is posted either way, the label tells the truth: "ready"   *)
(* only on an open connection, and "down" or "reconnecting" never on a     *)
(* connected socket.  The labels set by the buttons and by the signals     *)
(* come from two threads and meet in any order (client.cpp:59-79, 205-221  *)
(* and 516-523).                                                           *)
LabelAgrees ==
  slots = <<>> /\ signals = <<>> /\ InEventLoop =>
    /\ label = "ready" => socket \in {"connected", "closing"}
    /\ label \in {"down", "reconnecting"} => socket # "connected"

(* A connection the user closed stays closed: once the last call the       *)
(* worker has got is a disconnect, only a later click opens the socket     *)
(* again, whichever of timer, running attempt and lost connection comes in *)
(* between (tcp_worker.cpp:74-95).                                         *)
StaysDown ==
  [][~wanted /\ socket = "unconnected" =>
       socket' = "unconnected" \/ wanted']_session_vars

(* And a running attempt or an open connection ends after a disconnect.    *)
DisconnectEnds ==
  ~wanted ~> (wanted \/ socket \in {"none", "unconnected"})

(* tcp_worker.h:10: a connection that is lost comes back when the server   *)
(* does, unless the user has disconnected, be it long ago                  *)
(* (isUserDisconnect is never reset).                                      *)
ComesBack ==
  (connections > 0 /\ ~open) ~> (socket = "connected" \/ isUserDisconnect)
=============================================================================
