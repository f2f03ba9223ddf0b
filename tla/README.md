# TLA+ specification of the TCP/CAN UDS diagnostic system

This directory specifies, model-checks and partly proves the diagnostic
system of this repository: a Qt client (Windows) and a server (ARM Linux)
that speak UDS over two channels, TCP and CAN with ISO-TP.

    client  = src/new_TcpCan_client/          server = src/new_TcpCan_server_V3/

Paths below are relative to those two directories (`client:` and `server:`).
`PROJECT.json` lists the runs, what each definition models (file and lines),
the hazards and the theorems.

## 1. The system

    client GUI thread            server main thread: MainServer, CanServer
      client (flags, log)          | isotp_send  <- canResponseReady
        |  queued signals          |
      TCP thread   CAN thread    TCP thread          CAN thread        UDS thread
      Tcp_worker   Can_worker    TcpWorkerServer     Can_worker_server UDS_Worker
      parser       Can_InterFace parser per client   can_interface     UDS_handler
        |            | isotp       |                   | isotp, ring     m_session
        +---- TCP byte stream -----+                   |
                     +----------- CAN bus -------------+

| Component | State | Operations | Interacts with | Hard because |
|---|---|---|---|---|
| ISO-TP link, both nodes (`isotp/isotp.c`) | `send_*`, `receive_*` of `IsoTpLink` | `isotp_send`, `isotp_poll`, `isotp_on_can_message`, `isotp_receive`, `isotp_init_link` | peer link over the bus; poll timer; application | lost frames, two timers, 4-bit sequence numbers, block credits, re-initialisation |
| `isotp_send` on the server (`server/can_worker*.cpp`) | the same link, without a lock | `sendCanResponse`, `sendUdsMessage` in the main thread; handler and poll in the CAN thread | both threads write one struct | the first frame is on the bus before the link knows |
| CAN transmit path (`server: core/can_interface.cpp`, `core/ring_buffer.h`) | ring, write notifier, driver queue | `transmit`, `push`, `pop`, `onSocketWriteReady` | main thread, CAN thread, driver | two producers, notifier enabled from one thread only |
| CAN receive path (`server: core/can_interface.cpp`) | socket | `onSocketCanActivity` in batches | ISO-TP | batch limit |
| UDS services (`server: core/uds_handler.cpp`) | `m_session` (session, authenticated, seed) | session control, read DID, security access, tester present, ECU reset | UDS worker | one session for all testers |
| UDS worker, TCP server (`core/uds_worker.cpp`, `server/tcpworkerserver.cpp`) | client numbers, sockets, parsers, four event queues | accept, disconnect, read, process, answer | all threads, by queued signals | clients leave and come while their answers are under way |
| TCP framing (`core/protocol_parser.cpp` of both) | `m_buffer` | `pushData`, `sendPacket`, `constructUdsPacket` | TCP | reads cut anywhere, resynchronisation, buffers that outlive a connection |
| TCP session of the client (`client/tcp_worker.cpp`) | socket, reconnect and heartbeat timer, `isUserDisconnect`; label | connect, disconnect, reconnect | framing, GUI | flags that outlive a connection, a label with two writers |
| CAN interface of the client (`core/can_interface.cpp`, `client/can_worker.cpp`) | device, link, reconnect timer, signal connections, label | init, re-init after an error | ISO-TP, stress monitor | re-initialisation at any moment; two layers that initialise differently |
| Client logic (`client: client/client.cpp`) | security flag, pending operation, believed session | buttons, answers | both workers | state changes on sending and again on the answer |
| Database logger (`server/db_logger.cpp`) | level, mutex-protected queue, tables | log, flush every 5 s | every thread | the mutex is held for the whole flush; failed inserts; the end of the process |
| Server process (`server/mainserver.cpp`, `main.cpp`, `tcpcan-server.service`) | threads | start, kill, restart | every thread | what is in memory is gone, what is in the database stays |
| Stress monitor (`client/stresstestmonitor.cpp`) | counters, window, frequency | ramp, statistics | CAN channel, by signals | counts that arrive later than what they count |
| DID database, windows, scripts | — | reads of /proc, drawing, set-up | — | I/O only |

What makes each correct:

* ISO-TP: what is handed over is what was accepted, whole; a sender never
  spends a credit given to another message; nothing hangs; without faults
  nothing is given up.
* Transmit path: a frame is sent once, or dropped by a full ring and never
  otherwise; what is in the ring is taken out. (With two threads in `push` the
  code keeps neither; section 4.)
* Services: protected services only for an authenticated session, after any
  history of any testers.
* Routing: an answer goes to the connection that asked, in order, and there is
  one unless the service throws.
* Framing: on a buffer that starts empty dispatched = sent, for every way to cut
  the stream; and on any buffer of the client the cuts make no difference.
* Client: once everything has settled, its flags are the server's.
* TCP session: a lost connection comes back, one the user closed does not, and
  the label settles on the truth.
* CAN channel: a channel shown as ready hears its answers; a failed device
  comes back.
* Log: an answer is on record before it is sent; the database tells a true
  story, whatever failed or was killed.
* Stress monitor: a loss that is shown is no more than what is unanswered,
  unheard or not counted yet; the ramp ends, and should end at the maximum.

## 2. Modules

| Module | Models | Variables and actions |
|---|---|---|
| `IsoTpService` | abstract: messages are accepted, each is delivered at most once and in order, some never | `Accept`, `Deliver` |
| `IsoTp` | one direction of a link, send half to receive half, and the bus | fields of `IsoTpLink` by their names; one action per frame type handled, per branch of `isotp_poll`, per timer, per fault |
| `IsoTpNodes` | `IsoTp` as each node runs it: the client sends requests of its own sizes in one thread and initialises its link at any moment; the server sends from the main thread, cut at the accesses the CAN thread can observe, and may be started again | `sender`, `main_pc`; `MainCopy`, `MainSingle`, `MainFirst`, `MainInit`, `ClientSend`, `ClientInit`, `ServerRestarts` |
| `CanTransmit` | transmit path with both threads that call it, one shared access per step | `head`, `tail`, `buffer`, `notifier`, `queue`, and a `pc` per thread; the history variable `clash` says that two pushes have overlapped |
| `UdsHandler` | `processRequest` and the service handlers as operators: (session, request) to (session, response) | no state |
| `UdsServer` | testers, TCP connections, the four queues between the threads, one `m_session`; services that throw (`Throwing`) and the empty answer that is dropped | one action per queued slot |
| `UdsSystem` | `UdsServer` with the GUI client as a tester and, if wanted, testers of another make (`Others`) | the client's flags; `Click`, `PostToGui`, `onUdsMessageReceived` |
| `IsoTpTimed` | `IsoTp` with a clock: poll timers with jitter, frames with delays | `next_poll`, `age_bs`, `age_cr`, `data_due`, `fc_due`; `isotp_send`, `PollSendHalf`, `PollReceiveHalf`, `DataArrives`, `FlowControlArrives`, `Tick` |
| `ServerProcess` | `UdsServer` as a process: log queue, mutex, flush, database, kill, restart | `m_logQueue`, `flushing`, `rows`; `ConnectAndLog`, `ProcessAndLog`, `onFlushTimer`, `flushLogQueue`, `Kill`, `Restart` |
| `TcpFraming` | both packet writers, both parsers, the byte stream | `wire`, `m_buffer`; `SendPacket`, `ReadyRead(n)`, `Break`, `Connect` |
| `TcpSession` | the client's session over `TcpFraming`: socket, timers, `isUserDisconnect`, buttons, label | one action per slot, signal and outcome of a socket call |
| `CanChannel` | the client's CAN channel: device, reconnect timer, signal connections, label | `ConnectCan`, `init`, `tryReconnect`, `DeviceError`, `Send`, `Answer` |
| `StressMonitor` | the stress test over `CanChannel` | counters, windows, `m_currentFreq`; one action per timer and signal |
| `MCUdsSystem`, `MCServerProcess`, `MCTcpSession` | requests, command lines and packets for the runs | |
| `IsoTpProofs`, `IsoTpNodesProofs`, `IsoTpTimedProofs`, `CanTransmitProofs`, `UdsProofs`, `ServerProcessProofs`, `TcpProofs`, `StressProofs` | theorems and proofs, each about the module it is named for; `UdsProofs` about `UdsServer` and `UdsSystem`, `TcpProofs` about `TcpFraming` and `TcpSession`, `StressProofs` about `CanChannel` and `StressMonitor` (section 5) | |

How they fit. The two directions of a link share no field of `IsoTpLink`: SF,
FF and CF frames touch `receive_*`, FC frames `send_*`, and `isotp_poll`
treats the halves one after the other. So a direction is a module, and
`IsoTpNodes` runs it for either sender. `UdsServer` EXTENDS `UdsHandler` and
calls its operators in the step of the UDS thread; `UdsSystem` EXTENDS
`UdsServer` and replaces free testers by the client program;
`ServerProcess` EXTENDS `UdsServer`, too, and adds to each slot that logs what it
does to the queue, so that a slot waits while a flush holds the mutex.
`TcpSession` drives `TcpFraming`'s `Connect` and `Break` from the socket's states,
and `StressMonitor` drives `CanChannel`. `IsoTpTimed` EXTENDS `IsoTp` and
implements it (`KeepsThePremise`: `INSTANCE IsoTp` with fewer faults): each of its
steps is a step of `IsoTp`, a timer fires when its time has come.
`UdsServer` takes TCP as an ordered channel of whole messages, which is what
`TcpFraming` shows of a connection that starts with an empty buffer, and CAN as
a channel that may lose an answer, which is what `IsoTpNodes` and
`CanTransmit` show. Answers on CAN in their order: the order of the frames
themselves is assumed, see the FIFO bus in section 4.

Abstractions, and why they keep what matters:

* *Payload.* `IsoTp` names a run of bytes by its message and offset: everything
  reassembly can confuse is still distinguishable. `TcpFraming` keeps real
  bytes and the real CRC, because there a wrong offset turns data into headers.
* *Time.* `ISO_TP_DEFAULT_ST_MIN` is 0, so no separation time is kept. The two
  ISO-TP timers are restarted by every frame in the direction they watch; they
  become actions enabled when nothing they wait for is on its way any more.
  `early_cr` and `early_bs` in `Faults` drop that condition for one of them.
  `IsoTpTimed` has the clock, and shows which of them the program can meet.
  Elsewhere a running timer fires at some time.
* *Qt.* A queued signal or call is an entry of a sequence; a slot is one step. A
  call of `QTcpSocket` returns at once and its outcome is a step of its own: an
  attempt succeeds or fails, a close during an attempt is put off until its end,
  a socket with bytes to write closes later, a connect while closing is ignored.
* *Security.* A key is named by the seed it answers, a seed by a number that
  differs from the last one; DIDs are the three classes
  `handleReadDataByIdentifier` tells apart.
* *Tags.* `UdsServer` gives each request a tag (who, on which connection, the
  how-manieth). The program has none (`requestId` never reaches the wire); the
  tag is read only by the properties.
* *Exceptions.* No service of `uds_handler.cpp` throws by itself; what it calls
  may (memory). A request in `Throwing` may be processed as usual or may throw,
  before or after its service has changed `m_session`; the catch
  (`uds_worker.cpp:88`) makes that an empty message, and 33 and 59 drop it, so
  that nothing is sent and nothing is logged.
* *Restart.* A process that ends is started again after five seconds
  (`RestartSec`), when the bus has drained (`RestartSender`). The client's `init` has no such
  pause and runs with frames under way (`ClientInit`).
* *Loss on the bus* takes the oldest frame. A frame lost later in the queue is
  the same as one lost when it would have been delivered.

## 3. Runs

TLC finishes each passing run in about two minutes or less. Model sizes are
distinct states.

| Run | Instance | Shows |
|---|---|---|
| `isotp_nodes` (366 240) | `IsoTpNodes`: both senders, block 2, numbers modulo 4, four messages of 5 to 64 bytes (the client's of 5), loss, client init at any moment, restart of the server, early N_Cr | `Integrity`, `WithinBlock`, `BlockBound`, implementation of `IsoTpService`, no transfer hangs (`SenderSettles`, `ReceiverSettles`) |
| `isotp_timed` (1 531 946) | `IsoTpTimed`: both senders, the values of `isotp_config.h` (block 8, 15 is the last number, 12-bit length), buffers of 4096 and 1024, two messages of 8 to 4096 bytes, loss; 20 ms to a unit of time, so period and timeout 5, jitter 1, delay up to 1 | `FlowControlFresh`; `KeepsThePremise`: every behaviour is one of `IsoTp` without early N_Bs; in calm behaviours of the client `CalmGivesUpNothing` that fits and `CalmDelivers` it |
| `serversend_race` | `IsoTpNodes`, server only, no fault | violation of `SentToTheEnd` |
| `transmit` (570 142) | `CanTransmit`, one frame of the main thread and three of the CAN thread, ring of 3, driver queue of 1, batch of 2 | until two pushes overlap `OnceApart`, `Woken`, `OnlyFull`; `CanSent` |
| `transmit_stranded` | the same, two frames and one | violation of `AllSent` |
| `transmit_overlap` | the same, two frames each | violation of `ExactlyOnce` |
| `server_process` (176 879) | two TCP testers, two kinds of request, one of which may throw, one connection in each life of the process, one kill, one failed insert | `OwnAnswers`, `Answered`, `AnswersLogged`, `LogInOrder`, `Written` |
| `system_step` (753 932) | one GUI client on TCP, two clicks on five buttons, up to two connections; one tester of another make on CAN, one request of four, one of which may throw | `SessionNeedsAuth`, `ReadsUnlocked`, `OwnAnswers`, `InRequestOrder`, `InStep`, `PendingRuns` |
| `tcp_session` (275 147) | `TcpSession`: either direction, two packets, three clicks, one outage, every cut into reads | `ExactlyRead`, `CutsAlike`, `LabelAgrees`, `StaysDown`, `DisconnectEnds`, `ComesBack` |
| `tcp_reconnect` | the same, one click | violation of `ReadAfterReconnect` |
| `client_can` (676 395) | `StressMonitor`: two inits, one fault, two requests, two tests, three seconds, a window of two, a ramp from 4 by 2 to 7 | `ReadyHears`, `DeviceBack`, `LossAccounted`, `RampEnds` |
| `ramp_over` | the same | violation of `RunsAtMaximum` |

**Why the bounds are enough.** Confusion in ISO-TP needs the sequence number to
wrap and a block to end: with 2 frames to a block and 4 numbers a 41-byte
message takes two and a half blocks and passes the wrap, and the ratio (a block
is half the numbers) is the code's, 8 to 16. The sizes 41 and 60 stand on either
side of the 45-byte receive buffer, 64 is the length that becomes 0 in `FF_DL`; a
fourth message lets a stale frame of the first meet a later one. The client sends
5 bytes only: none of its requests needs a second frame, and with its `init`
unguarded that is a premise (`NodesAssumption`, section 4). In
`isotp_timed` the values are the code's own; 62 bytes end exactly at a block,
132 bytes pass the wrap, 1025 and 4096 do not fit. A unit of 20 ms is coarser
than the program's milliseconds, but what matters is the order of polls,
arrivals and time-outs: a delay of one unit on each way leaves an answer in time
whichever poll triggers it, jitter makes the period one unit shorter or longer
than the timeout, and the phases of the two timers are free. A ring of three slots is
full with two frames; one of the main thread with three of the CAN thread fill it,
wrap it, take the slot a pop has freed and let a push of each thread overlap, with the
handler's push back as well as with `transmit`; a batch of two ends
before the ring is empty. A main thread frame left in the ring, and a second one
behind, is what the two violations take. Two testers, one of which returns, are
all that a mix-up of answers takes, and after a kill client numbers start again
with answers of the last life still wanted. In `system_step` the tester on CAN
unlocks, reads, leaves or makes up a session between any two steps of the
client; two clicks and one reconnection of the client reach both protected
sessions, each with answers of the click before under way, and the seed request of
the old connection behind the new one. One connection per tester at a time is the client's
rule (`tcp_worker.cpp:62`). A log entry meets a flush at its start, in its middle
and after it with two entries in the queue. Three clicks make connect, disconnect
and connect again overtake each other on the way to the worker, and one outage
comes before, in or after any of them; `MaxSignals` keeps the reconnect
timer of an absent server from filling the queue to the GUI, which takes its
signals in order whatever their number. One device error and two inits
reach each of the four combinations of
device and signals; the window of the monitor slides with three seconds, and
from 4 by 2 the ramp passes 7 without meeting it. For framing,
a packet that holds the magic bytes and a whole header in its payload, a
shorter one and a heartbeat, cut anywhere, cover each branch of both parsers
but the length limit of the server, which needs a false header, and a server
connection has none.

**Fairness.** `IsoTpNodes`: weak fairness of polls, timers and frame handlers: the
poll is a periodic `QTimer` (server `can_worker_server.cpp:82-93`) and the
handlers are slots of running event loops. N_Cr may expire at any moment
(`early_cr`), but is sure to expire only when it is due: nothing on the bus and a
sender without credit. That this comes to pass is the claim of `ReceiverSettles`, and
not an assumption. Nothing makes the application send.
`CanTransmit`: each thread is scheduled, an enabled `QSocketNotifier` fires,
the bus carries what is in the driver's queue. `UdsServer`, `UdsSystem`: each
event loop takes its next event; nobody has to connect, ask, click or leave.
`IsoTpTimed`: time passes and event loops run. `ServerProcess`: as `UdsServer`,
while the process is up; the UDS thread needs strong fairness because a flush can
take the mutex again and again, with five seconds in between. `TcpSession`: the
worker's event loop runs, an attempt ends, a closing socket closes, running
timers fire (`tcp_worker.cpp:20-32`), and a server that is gone comes back,
which is what `ComesBack` waits for. `StressMonitor`: reconnect and ramp timer fire
and the user plugs the adapter in again. Deadlock checking is off in all runs:
the bounds on messages, requests, clicks and connections end every behaviour,
and a system nobody uses may stand still. Hanging is what the leads-to
properties are about.

**Each property has a mutant**: an operator with the change a plausible bug
would make (listed in `PROJECT.json`, next to its original in the module). With
it in place TLC finds the property violated.

## 4. What the checks found

Five runs document a disagreement between the code and what it says of itself:

1. `serversend_race`. On the server `isotp_send` runs in the main thread
   and puts the first frame on the bus before it sets `send_status`
   (`isotp.c:277`, `287`). A flow-control frame handled in between is ignored;
   the response ends in N_Bs although nothing was lost.
2. `transmit_stranded`. `transmit` enables the write notifier only in the CAN
   thread (`can_interface.cpp:240`); a response frame the main thread pushes
   stays in the ring until the CAN thread is refused a frame too.
3. `transmit_overlap`. `ringbuffer::push` is made for one producer
   (`ring_buffer.h:18-27`) and has two: the main thread transmits the single or first
   frame of every response, the CAN thread everything else. Two pushes that overlap
   store into one slot, or publish the head one of them read first, and a frame is
   lost or sent twice. It takes a driver queue that is full for both.
4. `tcp_reconnect`. The client's parser keeps its buffer when the connection
   breaks (`tcp_worker.cpp:96-112`). Two bytes left over make, with the first
   three of the next connection, a header of 939 bytes; three left over, one
   of 43 981. Answers are swallowed until so many bytes have come.
5. `ramp_over`. The stress test is said to keep running at the maximum frequency
   (`stresstestmonitor.cpp:197-199`, `client.cpp:659-660`). Line 189 adds a whole
   step to any frequency below it, so the test goes on at up to a step less one
   above the maximum. `RampEnds` and `StressTypeOK` state what is true.

Other facts the models show and no run keeps, because no document of the
repository claims the opposite or another run is about the same lines. Where a
change is named, they are reached by it:

* `serializeUDSMessage` (`server: core/udshelper.cpp:3-12`) does not write the
  negative response code, and the client shows 00 for every refusal
  (`client.cpp:321-323`). `RawType` of `UdsHandler` has no field for it.
* The handler's push back into a ring that has become full loses its frame without
  a word (`can_interface.cpp:275`): `transmit` has taken the slot the pop freed. `OnlyFull`
  allows it, for the ring is full.
* The frames of one thread leave `transmit` out of order (a direct write does
  not look at the ring, `can_interface.cpp:220`). `IsoTp` assumes a FIFO bus, and
  the results on `Integrity` are results under that assumption. A reordering within
  a message is no worse than a loss, the sequence numbers show it. But frames of
  two responses may change places, too: when the first frame of a later
  response overtakes consecutive frame 1 of a short one, the receiver starts the
  later message and takes that frame for its own first. The two are spliced.
* The client's `init` with frames under way (`ClientInit`): with `Requests =
  {5, 20, 41}`, which `NodesAssumption` excludes, a flow-control frame for the transfer
  that was cut off grants credit to the next one; `WithinBlock` and `BlockBound`
  fail, and with loss `Integrity`. No request of today's client is longer than a
  single frame.
* The calm results (`CalmGivesUpNothing`, `CalmDelivers`) are about transfers of
  several frames from the client. Today's client sends none; they say that the
  transport would carry them.
* An exception in a service (`uds_worker.cpp:88`) leaves the request without an
  answer and without a log entry. `Answered` is stated for the other requests.
* A seed request that an old connection has left behind is answered after those of the
  new connection have begun and makes their key a wrong one: without "on its first
  connection" `PendingRuns` fails (`uds_handler.cpp:197`).
* The rest of a broken connection in the client's buffer and the header of the next
  packet can meet a checksum of 16 bits that fits (`client:
  core/protocol_parser.cpp:65`, `tcp_worker.cpp:112`): then something is dispatched
  that nobody sent. The project claims the opposite only to a server and on a buffer
  that starts empty (`FramingSends`).
* A tick between an answer and its signal shows a request as lost that was answered:
  the comment at `stresstestmonitor.cpp:116` rules that out, `LossAccounted`
  does not. What it bounds is how many.
* `"early_bs"` in `Faults` of `IsoTp`: if an answer may come later than N_Bs
  (100 ms), it grants credit to the next message, and `Integrity`, `WithinBlock`,
  `FlowControlFresh` and `BlockBound` all fail. `KeepsThePremise` shows that it
  takes a round trip of more than 100 ms (an event loop held up for that long):
  the polls alone cannot do it, a flow-control frame is answered at once.
* `Calm` without `sender = "client"` in `IsoTpTimed`: the server answers a
  flow-control frame with the first frame of the next block only at its next
  poll, up to 100 ms later, and the client's N_Cr is 100 ms, too. With exact
  timers and no loss the client can give up a reception (`isotp.c:520`), so
  responses of several frames are unreliable by design; the other direction is
  not, because the client polls after each frame it handles
  (`client: core/can_interface.cpp:175`).
* `"Default"` in `Clicks`: the answer to a key, handled after the Default button
  has cleared the flag, sets it again (`client.cpp:338`, against the comment at
  775), and `InStep` fails. It fails, too, without its premises: with a second tester and
  with a client that reconnects, because the server has one `m_session` for all and
  for ever, and with a client on CAN, whose answer the server may be unable to send.
* An ECU reset leaves `m_session` unlocked (`uds_handler.cpp:231-250`).
* A CAN tester may wait for ever: `isotp_send` refuses a response during a
  transfer and nobody looks (`can_worker_server.cpp:158`). `Answered` is
  therefore stated for TCP testers.
* `TcpSession`: a connect while the socket is closing is ignored by Qt and not
  repeated; a first connect that fails is silent, because nothing listens to
  the socket's errors and the reconnect timer is started only by
  `onDisconnected` (the label stays "connecting"); a click on Connect while
  connected leaves the label at "connecting" (`client.cpp:218`), which
  `LabelAgrees` allows; `isUserDisconnect` is never reset
  (`tcp_worker.cpp:78`), so after one disconnect by the user no later connection
  is ever repaired. `ComesBack` is stated up to that.
* `CanChannel`: a device that the reconnect timer repaired after a failed init is
  up and deaf, and the label says "failed" (`can_worker.cpp:21-31`): requests go
  out and no answer is shown until the user presses the button again. An error
  of a device that is up starts the timer, too, and one second later tears down
  a channel that works. The result of `createDevice` is not checked
  (`can_interface.cpp:73-74`).
* `StressMonitor`: `frameSentSignal` has no emitter, so the bus load counts received frames
  only; answers to the user's own requests and to the last
  test are counted and hide a loss (`can_worker.cpp:55-60`); the summary divides
  by the number of requests, which may be 0 (`client.cpp:625`).
* `ServerProcess`: nothing flushes the queue at the end of the process: the
  flush of `main.cpp:73` is posted to a loop that has ended, and there is no
  signal handler. Up to five seconds of entries are lost, as `Written` allows.
  `--stress-mode` says errors and warnings (`main.cpp:40`) and sets `LEVEL_ERROR`.

## 5. Proofs

`tlapm` checks every theorem, for all values of the constants that satisfy
the named assumptions. `PROJECT.json` lists the theorems with the property each
one states.

### The transport (`IsoTpProofs`, `IsoTpNodesProofs`, `IsoTpTimedProofs`)

Assumptions: `ConstantsAssumption` (a block is at most as long as the
number range, the send buffer at most what the length field carries, sizes are
positive), and, where a theorem says so, `Timely`: N_Bs does not expire while
its answer is on its way (no `early_bs` in `Faults`). Every loss, restart and
early N_Cr is allowed. Without `Timely` the properties are false (section 4);
`TimedKeepsThePremise` derives it from the clock.

* `TypeCorrect`: `Spec => []TypeOK`, under every fault.
* `TransportIntegrity`, `TransportFlowControl`, `TransportWindow`,
  `TransportBlockBound`: `Integrity`, `FlowControlFresh`, `WithinBlock` and
  `BlockBound` of `IsoTp`.

The properties are not inductive: `Integrity` looks at what was delivered and
says nothing of what is half received. The inductive invariant `IInv` adds
`SendInv`, `ReceiveInv` (each half stands at a frame boundary; the receive
buffer is a prefix of one message), `SFInv`, `FFInv`, `CFInv`, `BusOrder`
(every frame on the bus is what its header says, in order, and a first frame
is the last because the sender waits), and `WindowInv`, the core: while a
message is received, the sender's position plus its remaining credit stays
within the receiver's position plus the rest of the block. `Aligned` ties an
offset to its sequence number modulo `MaxSN + 1`; two aligned offsets with the
same number inside one window are equal (`AlignedUnique`, by
`BlockSize <= MaxSN + 1`), so a frame with the expected number is the expected
frame (`NextRun`). There is one lemma per action; `IInvStep` joins them.
`BlockBound` counts frames on the bus and needs, besides `IInv`, that
a flow-control frame finds neither a consecutive frame on the bus nor credit
with the sender: a block is granted when the one before it has arrived.

* `TransportService`: `Timely /\ Spec => ServiceSpec`, the refinement of
  `IsoTpService`: each message is handed over at most once, whole, and never
  after a later one. `IInv` gives each message handed over its number; the
  invariant `OrderInv` adds that a frame that starts a message is later than
  whatever was handed over, is being received or is in front of it on the bus. `VisibleStep`
  says what the application sees of each action, and `Implements` maps that to
  `Accept`, `Deliver` or a stutter.

* `NodesTypeCorrect`, `NodesIntegrity`, `NodesWindow`, `NodesBlockBound`,
  `NodesService`: the same for `IsoTpNodes`, in which `isotp_send` of the server
  is cut in three and the CAN thread runs in between, and the client initialises its
  link with frames under way. `NodesAssumption` is what the latter needs: if nodes
  restart, the client's requests fit a single frame. The proof does not repeat
  the invariant. It maps the cut call to a call in one step (`Atomic`, an
  `INSTANCE` of the proof module): a message exists once its first frame is on the
  bus, and from then on the sender is in the transfer, even while
  `send_status` is not stored yet. A flow-control frame handled in that gap is
  ignored by the code and is a lost frame of the mapped link; so the mapped link
  has `"loss"` among its faults whether the bus loses frames or not. `NodeInv`
  says what the CAN thread leaves alone while the main thread is inside.
  This is the exact price of the missing lock: messages, as `serversend_race`
  shows, but never content, order or window.

* `TimedFlowControl`, `TimedKeepsThePremise`: `TSpec => []FlowControlFresh` and
  `TSpec => KeepsThePremise`, for every period, jitter and timeout with
  `2 * MaxDelay <= Timeout` (`TimedAssumption`). A transfer that waits has its
  question or its answer on a bus; the invariant `AnswerInTime` bounds the age of
  N_Bs plus what is left of the delay of each such frame, by one delay for a
  question and two for an answer, and `Tick` does not pass a frame that is due.
  So when N_Bs fires nothing is on its way: `TimeoutBs` of `IsoTp`, which is
  `Timely`. Therefore `TimedTransport` and `TimedService`: with the clock
  `Integrity`, `WithinBlock`, `BlockBound` and the refinement of `IsoTpService`
  hold without that premise.

* `CalmKeepsEverything`: `TSpec => CalmGivesUpNothing`, if `Period <= Timeout` (both
  are 100 ms). Two invariants of calm behaviours carry it. `SyncInv`: the
  consecutive frames on the bus are those of the message being received, from
  the receiver's byte up to the sender's without a gap (`Stream`), the two differ by
  what is on the bus, in bytes and in credit (`Level`), and a message that fits and
  is not being received has its first frame under way (`Asked`). So the frame at
  the front is always the expected one. `ClockInv`: what N_Cr waits for, the
  frame in front, or the answer and the frame it releases, or the client's next
  poll and the frame it sends, comes before the timeout (`ReceiverClock`); while
  the client may send, its poll is at most a period behind its last frame
  (`PollClock`). The server's transfers are excluded by `Calm`, and rightly
  (section 4).

### The transmit path (`CanTransmitProofs`)

Assumption: `TransmitAssumption` (sizes are positive, the ring has more than one
slot). Both threads transmit, any number of frames each.

* `RingTypeCorrect`, `TransmitOnceApart`, `TransmitWoken`, `TransmitOnlyFull`:
  `TypeOK`, `OnceApart`, `Woken` and `OnlyFull`, for every ring, driver
  queue, batch and number of frames.

`TypeOK` holds whatever the threads do to each other. The other three say what holds
until two pushes overlap (`clash`); after that they are false in the code
(`transmit_overlap`). That is the weakest premise that makes them true, not a use
the program avoids: the two threads are free to be anywhere else at once, in `pop`
against `push`, in the check and the disabling of the notifier against a push, in a
push against the taking of its slot.

The inductive invariant is `Typed /\ (clash \/ (Control /\ Places))`. `Places`: the hands of
the two threads, the ring, the driver's queue and the wire hold disjoint sets of
frames without repetition, together exactly the frames issued and not dropped.
`Control`: what a thread knows at each point between two shared accesses and
keeps knowing while the other moves (`Knows`: its `next` is the slot after `head`, and
once the check has passed that slot is not `tail`, which a pop only moves away), and
that a ring with the notifier off holds frames of the main thread only. For each
step there is a lemma that takes the whole invariant to the next state
(`PushStoreStep`, `PopAdvanceStep`, ...).
The arithmetic of the ring is in `SuccWraps`, `BetweenCounts`, `SlotsOfRing`,
`PublishOne` and `TakeOne`; `CopiesCounted` leads from disjoint places to the count
of copies that `OnceApart` speaks of.

### The services, the routing and the client (`UdsProofs`, `ServerProcessProofs`)

Assumptions: `ServerAssumption` (and `ProcessAssumption` for the process,
`SystemAssumption` for the client program).

* `UdsTypeCorrect`, `SessionAuthenticated`: `Spec => []TypeOK` and
  `Spec => []SessionNeedsAuth` by the invariant `SessionInv`. Its heart is
  `ProcessRequestSound`: every service maps a sound session to a sound one.
* `ReadsAreUnlocked`: `Spec => ReadsUnlocked`, an action property, from
  `SessionInv` and `ProcessRequestGuarded`.
* `AnswersGoHome`: `Spec => []OwnAnswers`, by `AnswerInv`: no two testers
  share a channel, the number of a new client is above every number in any
  queue, and every event carries its own channel and, while that channel is
  a tester's, that tester.
* `AnswersInOrder`: `Spec => []InRequestOrder`, by `OrderInv`: for each channel
  the four queues it passes hold rising request numbers, each queue entirely
  before the next (`Line`), and no number is above what its tester has asked
  (`NoneAhead`). Stated queue by queue, a step that moves an event from one queue
  to the next touches two of six pairs.

`UdsSystem` is `UdsServer` with the client program as tester.

* `SystemTypeCorrect`, `SystemAuthenticated`, `SystemAnswersGoHome`,
  `SystemAnswersInOrder`: the invariants of `UdsServer` hold of it, for any number
  of clients, on TCP or CAN, because a client asks only as a tester may.
* `ClientInStep`: `GSpec => []InStep` under `OneClient`: one client, on TCP, on its
  first connection, that never presses Default, nobody else (`Others = {}`), and no
  service it asks for throws (`Throwing`); any number of clicks. Without
  these `InStep` fails, as section 4 says. The invariant `StepInv` says, of a
  client that has not left yet (`Live`), that the server is authenticated exactly when
  the client knows it or a grant is on its way, in any of the three queues an answer
  passes (`AccessFollows`), and that the session requests on their way, event queue
  first, then TCP, lead from the session the server is in to the one the client
  believes in, none of them being sent before the server is authenticated
  (`SessionFollows`). When nothing is on its way what is left of it is `InStep`.

`SystemAssumption` has `MaxRequests >= 3 * MaxClicks`: a click causes at most three
requests (seed, key, session), so the bound on requests never keeps the client
from sending one of them.

`ServerProcess` is `UdsServer` with kills, restarts and the log. A kill forgets the
session, starts client numbers again and empties all queues but the bus to the CAN tester.

* `AnswersGoHomeAcrossKills`, `AnswersInOrderAcrossKills`,
  `SessionAuthenticatedAcrossKills`: the invariant `CoreInv` is `OrderInv` and
  that the CAN tester keeps its channel; each step of the process is one of
  `UdsServer`, a kill or a restart (`NextOrKill`).
* `AnswersAreLogged`: `PSpec => []AnswersLogged` by `LogInv`: every answer in any
  queue over TCP has its entry in the log queue, the database or among the
  failed inserts; a kill, which loses the log queue, loses those answers with it.
* `LogTellsATrueStory`: `PSpec => []LogInOrder` by `StoryInv`, which adds that
  what is still on its way is later than what is logged, and that
  an entry about a connection is about one that exists or has existed in that life of
  the process.

### The byte stream and the session over it (`TcpProofs`)

Assumption: `FramingAssumption`: what the program sends. Requests fit the length limit
of the server, answers the two bytes of the length, and no UDS request is empty. The
payloads are arbitrary bytes, magic bytes and whole packets included, and the
checksum is the real one.

* `FramingTypes`, `FramingReads`: `Spec => []TypeOK` and `Spec => []ExactlyRead`, for all
  packets and all cuts into reads. The invariant `FInv` says that the bytes parsed, the
  rest in `m_buffer` and the bytes under way are together the stream of the
  packets sent, and that the rest is the start of the next packet. `LoopIs` gives
  the parser's loop as a relation, by induction over the length of the buffer;
  `ParseReads`: on a buffer that begins with whole packets it takes exactly
  those, one turn each (`ReadsPacket`), and stops in front of a part of one
  (`WaitsForRest`).
* `FramingSends`: `OnlySent` to a server, or on a connection that starts with an empty
  buffer. On a later connection of the client, with bytes of the last in the
  buffer, `OnlySent` is false for some bytes: a wrong offset may meet a
  checksum that fits. No run and no theorem claims it there.
* `FramingCuts`: `Spec => CutsAlike`, which holds on those connections, too. A turn of
  the client's loop on a packet that is whole, or on a wrong offset, is the same with
  more bytes behind (`TurnOfMore`); so a read of `a \o b` is a read of `a` and one of
  what it leaves with `b` (`CutsJoin`, by induction on the length of `a`).
* `SessionImplements`: `SSpec => Spec`: the session opens, breaks, writes and reads its
  connection as the framing says. `SessionReads` follows.
* `SessionTypes`, `SessionLabel`, `SessionStaysDown`: `SessionTypeOK`, `LabelAgrees`
  and `StaysDown`, by `SInv`. Its heart is what the last signal still under way to the GUI
  says of the socket (`LastTells`), and, once none is, the label (`LabelTells`); and
  that after a disconnect got by the worker `isUserDisconnect` is set
  (`DisconnectMarked`).

### The CAN channel and the stress test (`StressProofs`)

* `ChannelTypeCorrect`: `MSpec => []ChannelTypeOK`, from `ChannelAssumption`. It
  contains that a failed device has its reconnect timer and that one that works
  has an adapter.
* `LabelTellsWhatIsHeard`: `MSpec => []ReadyHears`, with no assumption at all:
  only `init` changes the signals, and the label with them.
* `RampStaysInBounds`, `StressTypeCorrect`: the frequency's part of
  `StressTypeOK`, and all of it, from `MonitorAssumption`.
* `LossShownAccounted`: `MSpec => LossAccounted`. The invariant `MonitorInv` says, of every
  stretch of the recent past that ends now, that the requests counted in it exceed
  the answers counted in it by no more than what is open or missed: for the
  stretches that begin at a signal still posted to the monitor or at a second of the
  window (`SignalsCovered`). The requests of the test on the bus are among the open
  ones (`BusCovered`). All three are sequences of running totals (`Marks`), which a
  step extends, shortens or lowers. What a tick shows is the total of the stretch
  that is the whole window.

Recursive functions (the checksum, the parser's loop, the sums) are reasoned about with
induction on their length: a property that fails somewhere fails at a smallest
number (`Least`, `LeastOf` and `Induct`), which is first order and needs no theorem with an operator as a
parameter.

### Model-checked only

* `SenderSettles`, `ReceiverSettles`, `CalmDelivers`, `CanSent`, `Answered`, `Written`,
  `PendingRuns`, `DisconnectEnds`, `ComesBack`, `DeviceBack`, `RampEnds`: liveness
  under fairness, which the prover does not support.
* The runs that expect a violation.

Every other property of the runs is a theorem.

## 6. Not modelled

* Windows, plots and log texts: no state that is read back. Bus load is of this kind.
* Reading DID values from `/proc` and `/sys`; opening sockets, configuring
  interfaces, creating tables; the shell script that sets IRQ affinity: I/O.
* Packets of type 1, which nobody sends; functional addressing of ISO-TP, the
  logger's `logCanFrame`, `logSystemMetric`, `logSecurityAudit` and its
  categories, which have no callers; separation times, which are 0.
* `MainServer::stop` and `TcpWorkerServer::stopServer`: only the destructor calls
  them, after `app.exec()` has returned, and nothing in the program ends that
  loop; a signal ends the process without them. (Both would need care:
  `stopServer` walks `m_clients` while the slots of the sockets it closes remove
  from it, `tcpworkerserver.cpp:87`.)
* `mainserver.cpp:210-218`: two slots of the main thread that read the address
  of a socket the TCP thread has already scheduled for deletion. They only log.
* In `IsoTpTimed` the polls that come more often than a transfer itself makes
  them: after a request that is refused and after frames of the other
  direction. `early_cr` of `IsoTp` and the free interleaving of polls in
  `IsoTpNodes` cover their effects on safety.
* In `CanChannel` a request before the first init, which would use a null
  pointer (`can_worker.cpp:44-53`), and the fall-back to TCP of
  `client.cpp:160-163`, which `Can_InterFace::Instance()` never allows
  (it creates what it cannot find).

## 7. Plan

1. Done: the modules of section 2, the runs of section 3, the theorems of section 5.
2. Done: every safety and action property of the runs and every refinement, as
   theorems, under the hypotheses section 5 names.
3. Worth adding if the code changes: a lock around the link of the server
   (`IsoTpNodes` would lose `MainCopy` to `MainInit`, `serversend_race` would pass), a `push` under a
   lock (`CanTransmit` without `clash`, `transmit_overlap` would pass), a notifier
   enabled from either thread (`Notify`, `transmit_stranded`), a parser that is
   cleared with its connection (`NewBuffer`, `tcp_reconnect`, and `OnlySent` for the
   client), a ramp cut off at the maximum (`Raised`, `ramp_over`).
