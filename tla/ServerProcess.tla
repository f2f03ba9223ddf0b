----------------------------- MODULE ServerProcess -----------------------------
(***************************************************************************)
(* The server as a process: UdsServer, its log, and the kills and restarts *)
(* it lives through (tcpcan-server.service restarts it).  The TCP and the  *)
(* UDS thread put entries in m_logQueue under m_queueMutex; every five     *)
(* seconds the main thread writes the whole queue to the database, and     *)
(* holds the mutex until it has, so that the other threads wait.  Nothing  *)
(* else empties the queue: the flush at exit (main.cpp:73) is posted to a  *)
(* loop that has ended, and a signal ends the process without it.          *)
(*                                                                         *)
(* Left out: the entries of start-up, of warnings and of errors, which     *)
(* travel in the same way; logCanFrame, logSystemMetric, logSecurityAudit  *)
(* and the categories, which nobody calls.  A kill takes a connection and  *)
(* what is on it at once; a frame on the bus finds no reader.              *)
(***************************************************************************)
EXTENDS UdsServer, FiniteSets

CONSTANTS
  Options,     \* the command lines: log level and --skip-tester-present
  MaxKills,    \* bound: ends of the process
  MaxFailures  \* bound: inserts that fail

LEVEL_INFO == 3
LEVEL_TRACE == 5

ASSUME ProcessAssumption ==
  /\ Options \subseteq [level : 0..LEVEL_TRACE, skip : BOOLEAN]
  /\ MaxKills \in Nat /\ MaxFailures \in Nat

VARIABLES
  up,          \* the process runs
  options,     \* m_logLevel and m_skipTesterPresent
  m_logQueue,
  flushing,    \* flushLogQueue is running and holds m_queueMutex
  rows,        \* the tables, in the order of insertion
  failed,      \* history: entries whose insert failed
  kills

log_vars == <<m_logQueue, flushing, rows, failed>>
process_vars == <<vars, up, options, log_vars, kills>>

PInit ==
  /\ Init
  /\ up = TRUE /\ options \in Options
  /\ m_logQueue = <<>> /\ flushing = FALSE /\ rows = <<>> /\ failed = {}
  /\ kills = 0
-----------------------------------------------------------------------------
ClientEvent(what, c) == [kind |-> what, channel |-> c, life |-> kills]
Transaction(tag) == [kind |-> "uds", tag |-> tag]

LogsEvents == options.level >= LEVEL_INFO

(* logUdsTransaction                                                       *)
LogsTransaction(sid) ==
  IF sid = TESTER_PRESENT
  THEN ~options.skip /\ options.level >= LEVEL_TRACE
  ELSE options.level >= LEVEL_INFO

(* Mutant: the queue is not locked, and a dequeue overwrites what is added. *)
enqueueEntry_Unlocked(entry) ==
  m_logQueue' = IF flushing THEN m_logQueue ELSE Append(m_logQueue, entry)

enqueueEntry(entry) ==
  /\ ~flushing
  /\ m_logQueue' = Append(m_logQueue, entry)

Log(wanted, entry) ==
  /\ IF wanted THEN enqueueEntry(entry) ELSE UNCHANGED m_logQueue
  /\ UNCHANGED <<up, options, flushing, rows, failed, kills>>

ConnectAndLog(t) ==
  Connect(t) /\ Log(LogsEvents, ClientEvent("connected", m_nextClientId))

DisconnectAndLog(c) ==
  onClientDisconnected(c) /\ Log(LogsEvents, ClientEvent("disconnected", c))

(* What throws is not logged either.                                       *)
ProcessAndLog ==
  /\ uds_queue # <<>>
  /\ LET event == Head(uds_queue) IN
     \E out \in processUdsRequest(m_session, event.req) :
       /\ Finish(out)
       /\ Log(IsAnswer(out.response) /\ LogsTransaction(event.req.sid),
              Transaction(event.tag))
-----------------------------------------------------------------------------
(* Mutant: the timer is a single shot.                                     *)
onFlushTimer_Once ==
  /\ ~flushing /\ m_logQueue # <<>> /\ rows = <<>>
  /\ flushing' = TRUE
  /\ UNCHANGED <<vars, up, options, m_logQueue, rows, failed, kills>>

onFlushTimer ==
  /\ ~flushing /\ m_logQueue # <<>>
  /\ flushing' = TRUE
  /\ UNCHANGED <<vars, up, options, m_logQueue, rows, failed, kills>>

InsertHead ==
  \/ /\ rows' = Append(rows, Head(m_logQueue))
     /\ UNCHANGED failed
  \/ /\ Cardinality(failed) < MaxFailures
     /\ failed' = failed \union {Head(m_logQueue)}
     /\ UNCHANGED rows

(* Mutant: the entry taken off the queue is the last one.                  *)
Dequeue_Last == m_logQueue' = SubSeq(m_logQueue, 1, Len(m_logQueue) - 1)

Dequeue == m_logQueue' = Tail(m_logQueue)

flushLogQueue ==
  /\ flushing
  /\ IF m_logQueue # <<>>
     THEN InsertHead /\ Dequeue /\ UNCHANGED flushing
     ELSE flushing' = FALSE /\ UNCHANGED <<m_logQueue, rows, failed>>
  /\ UNCHANGED <<vars, up, options, kills>>
-----------------------------------------------------------------------------
(* A signal or a crash: what the process holds in memory is gone.          *)
Kill ==
  /\ kills < MaxKills /\ kills' = kills + 1
  /\ up' = FALSE
  /\ m_session' = NewSession
  /\ m_nextClientId' = FirstClientId
  /\ m_clientMap' = {}
  /\ connection' = [t \in Testers |-> IF t \in CanTesters THEN CAN ELSE None]
  /\ to_server' = [c \in Channels |-> <<>>]
  /\ to_tester' = [c \in Channels |-> IF c = CAN THEN to_tester[c] ELSE <<>>]
  /\ uds_queue' = <<>> /\ answer_queue' = <<>> /\ can_answers' = <<>>
  /\ m_logQueue' = <<>> /\ flushing' = FALSE
  /\ UNCHANGED <<asked, last_seed, options, rows, failed>>

Restart ==
  /\ ~up /\ up' = TRUE
  /\ to_server' = [to_server EXCEPT ![CAN] = <<>>]
  /\ UNCHANGED <<m_session, m_nextClientId, m_clientMap, tester_vars, to_tester,
                 uds_queue, answer_queue, can_answers, options, log_vars, kills>>

(* The testers go on while the server is down; nobody connects then.       *)
TesterStep ==
  /\ \E t \in Testers : Leave(t) \/ SendRequest(t) \/ Receive(t)
  /\ UNCHANGED <<up, options, log_vars, kills>>

Relay ==
  /\ \/ \E c \in Channels : Arrive(c)
     \/ SendTcpResponse \/ SendCanResponse
  /\ UNCHANGED <<up, options, log_vars, kills>>

PNext ==
  \/ TesterStep \/ Restart
  \/ /\ up
     /\ \/ \E t \in Testers : ConnectAndLog(t)
        \/ \E c \in ClientIds : DisconnectAndLog(c)
        \/ ProcessAndLog \/ Relay
        \/ onFlushTimer \/ flushLogQueue \/ Kill

PSpec == PInit /\ [][PNext]_process_vars

(* The threads keep running while the process does.  The UDS thread may    *)
(* find the mutex taken again and again, for the length of a flush every   *)
(* five seconds.                                                           *)
PFairness ==
  /\ \A c \in Channels : WF_process_vars(up /\ Arrive(c) /\ Relay)
  /\ SF_process_vars(up /\ ProcessAndLog)
  /\ WF_process_vars(up /\ SendTcpResponse /\ Relay)
  /\ WF_process_vars(up /\ SendCanResponse /\ Relay)
  /\ WF_process_vars(up /\ onFlushTimer)
  /\ WF_process_vars(up /\ flushLogQueue)
  /\ \A t \in Testers : WF_process_vars(Receive(t) /\ TesterStep)

PFairSpec == PSpec /\ PFairness
-----------------------------------------------------------------------------
Logged == rows \o m_logQueue
IsIn(entry, s) == \E i \in 1..Len(s) : s[i] = entry

(* An answer on its way over TCP is on record: in the database, waiting    *)
(* for it, or lost to an insert that failed (uds_worker.cpp:42 logs it     *)
(* before line 48 sends it).                                               *)
RequestSid(r) ==
  IF r.sid = NEGATIVE_RESPONSE THEN r.sub ELSE r.sid - POSITIVE_RESPONSE_MASK
AnswersLogged ==
  \A q \in {answer_queue} \union {to_tester[c] : c \in ClientIds} :
    \A i \in 1..Len(q) :
      LogsTransaction(RequestSid(q[i].response)) =>
        LET entry == Transaction(q[i].tag) IN
        IsIn(entry, Logged) \/ entry \in failed

(* The log tells a true story, whatever kills, failed inserts and threads  *)
(* do to it: no entry twice, the requests of a connection in their order,  *)
(* and a connection's end never before its beginning.                      *)
WrongOrder(a, b) ==
  \/ /\ a.kind = "uds" /\ b.kind = "uds"
     /\ a.tag.tester = b.tag.tester /\ a.tag.channel = b.tag.channel
     /\ a.tag.n >= b.tag.n
  \/ /\ a.kind = "disconnected" /\ b.kind = "connected"
     /\ a.channel = b.channel /\ a.life = b.life
LogInOrder ==
  \A i, j \in 1..Len(Logged) :
    i < j => Logged[i] # Logged[j] /\ ~WrongOrder(Logged[i], Logged[j])

(* What is logged is written, unless its insert fails or the process ends  *)
(* first.                                                                  *)
Entries ==
  {[kind |-> k, channel |-> c, life |-> 0] :
     k \in {"connected", "disconnected"}, c \in ClientIds}
  \union {Transaction([tester |-> t, channel |-> c, n |-> n]) :
            t \in Testers, c \in ClientIds, n \in 1..MaxRequests}
Written ==
  \A entry \in Entries :
    IsIn(entry, m_logQueue) ~>
      (IsIn(entry, rows) \/ entry \in failed \/ kills > 0)
=============================================================================
