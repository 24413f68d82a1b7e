--------------------------- MODULE SessionObject ---------------------------
(***************************************************************************)
(* The Durable Object of one session (src/src/worker.ts), with the broker  *)
(* it holds, the controller requests that wait in it, the WebSockets of    *)
(* the runner instances that connect to it, and the restarts that lose its *)
(* memory but neither its storage nor its hibernatable sockets.            *)
(*                                                                         *)
(* A handler (fetch, webSocketMessage, webSocketClose, a timer) is one     *)
(* step, with the microtasks it releases: the object's input gate delivers *)
(* no other event while a handler awaits storage. The one await that is    *)
(* kept is the persistState before a command goes on the wire, where the   *)
(* object may be lost between the write and the send.                      *)
(***************************************************************************)
EXTENDS SessionBroker, Naturals, Sequences

CONSTANT MaxRestarts   \* bound on the number of losses of the object's memory

ASSUME MaxRestartsAssumption == MaxRestarts \in Nat

VARIABLES
  broker,        \* in memory: the broker and the rows it works on
  runnerSocket,  \* in memory: the socket last accepted or restored, or None
  pending,       \* in memory: the socket each pendingRunnerResults entry waits on
  sending,       \* in memory: the command whose persistState is awaited, or None
  disk,          \* Durable Object storage: the rows of the last persistState
  request,       \* each POST /commands: none, waiting, lost, or its answer
  conn,          \* the life of each WebSocket
  inbox,         \* messages the runner put on each WebSocket, in order
  task,          \* per socket, how far the runner is with each command
  deliveries,    \* how often each command was put on a wire (history)
  process,       \* the background job each start_job command started
  restarts       \* number of restarts so far

memory == <<broker, runnerSocket, pending, sending>>
runner == <<conn, inbox, task, process>>
vars   == <<memory, disk, request, runner, deliveries, restarts>>

\* open: both ends use it. closing: the object closed it, the runner has not
\* noticed. left: the runner is gone, the object was not told.
ConnStates == {"unused", "open", "closing", "left", "closed"}

Messages ==
  [kind : {"ack"}, cmd : Commands] \cup
  [kind : {"result"}, cmd : Commands, outcome : Outcomes]

\* What start_job commands may have started, with the instance that did. A
\* stopping process was interrupted and still holds a pipe open.
NoProcess == [status |-> "none", runner |-> None]
Processes == {NoProcess} \cup
             [status : {"running", "stopping", "exited", "interrupted"}, runner : Runners]

\* The rows of a broker, and their type.
StoredRows == [session : SessionRow, cmd : [Commands -> CommandRow], jobs : [Commands -> JobRow]]
Rows(b) == [session |-> b.session, cmd |-> b.cmd, jobs |-> b.jobs]

Init ==
  /\ broker = CreateSession
  /\ runnerSocket = None
  /\ pending = [c \in Commands |-> None]
  /\ sending = None
  /\ disk = Rows(CreateSession)
  /\ request = [c \in Commands |-> "none"]
  /\ conn = [s \in Sockets |-> "unused"]
  /\ inbox = [s \in Sockets |-> <<>>]
  /\ task = [s \in Sockets |-> [c \in Commands |-> "none"]]
  /\ deliveries = [c \in Commands |-> 0]
  /\ process = [j \in Commands |-> NoProcess]
  /\ restarts = 0

-----------------------------------------------------------------------------
(* What every handler begins and ends with.                                 *)

\* Mutant of PersistState: command rows are not marked dirty.
PersistWithoutCommands == disk' = [Rows(broker') EXCEPT !.cmd = disk.cmd]

\* persistState: whatever changed in memory since the last call is written.
PersistState == disk' = Rows(broker')

\* getWebSockets: the accepted sockets whose close has not been delivered, in
\* no particular order.
GetWebSockets == {s \in Sockets : conn[s] \in {"open", "closing", "left"}}

\* restoreAcceptedRunnerSocket: the socket it picks, None when it returns
\* without picking one.
ToRestore ==
  IF runnerSocket = None /\ GetWebSockets # {} THEN GetWebSockets ELSE {None}

\* The broker after a restore of s, on a live session ...
Restored(s) == IF s = None THEN broker ELSE AttachRunner(broker, s)
\* ... and the socket, which is remembered even when the restore then throws.
SocketAfter(s) == IF s = None THEN runnerSocket ELSE s

\* An entry into the object that finds the gate open.
Enter == sending = None

-----------------------------------------------------------------------------
(* Controller requests.                                                     *)

\* Mutant of IsNewCommand: a command whose fate is unknown is sent again.
IsNewOrUnknownCommand(c) == broker.cmd[c].state \in {"absent", "unknown"}

\* createCommand finds no row under this command id; a row it finds is
\* returned as it is (Query).
IsNewCommand(c) == broker.cmd[c].state = "absent"

\* POST /commands with a new command id, up to the first await.
CreateCommandRequest(c) ==
  /\ Enter
  /\ Live(broker)
  /\ IsNewCommand(c)
  /\ \E w \in ToRestore :
       /\ broker' = CreateCommand(Restored(w), c)
       /\ runnerSocket' = SocketAfter(w)
  /\ PersistState
  /\ IF broker'.cmd[c].state = "sent_to_runner"
     THEN sending' = c /\ request' = [request EXCEPT ![c] = "waiting"]
     ELSE sending' = sending /\ request' = [request EXCEPT ![c] = "failed"]
  /\ UNCHANGED <<pending, runner, deliveries, restarts>>

\* The same POST again, GET /status and GET /commands/:id change only what the
\* restore changes.
Query ==
  /\ Enter
  /\ Live(broker)
  /\ runnerSocket = None
  /\ \E w \in GetWebSockets :
       /\ broker' = Restored(w)
       /\ runnerSocket' = w
  /\ PersistState
  /\ UNCHANGED <<pending, sending, request, runner, deliveries, restarts>>

\* Any request or message on a session that is over, when there is a socket to
\* restore: the restore throws before anything else is looked at.
RejectedEntry ==
  /\ Enter
  /\ ~Live(broker)
  /\ runnerSocket = None
  /\ \E w \in GetWebSockets : runnerSocket' = w
  /\ UNCHANGED <<broker, pending, sending, disk, request, runner, deliveries, restarts>>

\* Any other request on a session that is over: the broker refuses it, and
\* fetch writes the rows that a message left unwritten (RecordAndPersist).
RefusedRequest ==
  /\ Enter
  /\ ~Live(broker)
  /\ runnerSocket # None \/ GetWebSockets = {}
  /\ UNCHANGED <<broker, runnerSocket, pending, sending, request, runner, deliveries, restarts>>
  /\ PersistState

RevokeRequest ==
  /\ Enter
  /\ Live(broker)
  /\ \E w \in ToRestore :
       /\ broker' = Revoke(Restored(w))
       /\ runnerSocket' = SocketAfter(w)
  /\ PersistState
  /\ UNCHANGED <<pending, sending, request, runner, deliveries, restarts>>

-----------------------------------------------------------------------------
(* Sending a command and waiting for its result.                            *)

\* createCommand after the handlers of the commands in C rejected.
RejectAll(b, C) ==
  [b EXCEPT !.cmd = [c \in Commands |-> IF c \in C THEN MarkCommandUnknown(b, c).cmd[c] ELSE @[c]]]

\* Mutant of AnswerAll: the answer carries the error code for the state.
AnswerAllWithError(C) ==
  request' = [c \in Commands |-> IF c \in C THEN broker'.cmd[c].error ELSE request[c]]

\* The requests of the commands in C are answered with their rows.
AnswerAll(C) ==
  request' = [c \in Commands |-> IF c \in C THEN broker'.cmd[c].state ELSE request[c]]

\* sendCommandToRunnerSocket once its persistState is done. A send throws on a
\* socket this side has closed and is lost on one the runner has left.
SendCommandToRunnerSocket(c) ==
  /\ sending = c
  /\ sending' = None
  /\ LET s == broker.handler IN
     IF conn[s] \in {"closing", "closed"}
     THEN /\ broker' = RejectAll(broker, {c})
          /\ PersistState
          /\ AnswerAll({c})
          /\ UNCHANGED <<pending, task, deliveries>>
     ELSE /\ pending' = [pending EXCEPT ![c] = s]
          /\ IF conn[s] = "open" THEN task' = [task EXCEPT ![s][c] = "sent"]
                                 ELSE task' = task
          /\ deliveries' = [deliveries EXCEPT ![c] = @ + 1]
          /\ UNCHANGED <<broker, disk, request>>
  /\ UNCHANGED <<runnerSocket, conn, inbox, process, restarts>>

\* The deadline timer of a pending result.
DeadlinePasses(c) ==
  /\ Enter
  /\ pending[c] # None
  /\ pending' = [pending EXCEPT ![c] = None]
  /\ broker' = RejectAll(broker, {c})
  /\ PersistState
  /\ AnswerAll({c})
  /\ UNCHANGED <<runnerSocket, sending, runner, deliveries, restarts>>

-----------------------------------------------------------------------------
(* The runner's WebSockets.                                                 *)

\* GET /runner/ws: preflight, close of the socket before it, attach. A runner
\* process connects again only when it has given up its last connection.
AcceptRunnerWebSocket(s) ==
  /\ Enter
  /\ Live(broker)
  /\ conn[s] = "unused"
  /\ \A t \in Sockets : Owner[t] = Owner[s] => conn[t] \notin {"open", "closing"}
  /\ \E w \in ToRestore :
       /\ broker' = AttachRunner(Restored(w), s)
       /\ conn' = [t \in Sockets |->
                     IF t = s THEN "open"
                     ELSE IF t = SocketAfter(w) /\ conn[t] = "open" THEN "closing"
                     ELSE conn[t]]
  /\ runnerSocket' = s
  /\ PersistState
  /\ UNCHANGED <<pending, sending, request, inbox, task, process, deliveries, restarts>>

\* webSocketMessage with a heartbeat; on a session that is over it throws.
WebSocketHeartbeat(s) ==
  /\ Enter
  /\ Live(broker)
  /\ s \in GetWebSockets
  /\ \E w \in ToRestore :
       /\ broker' = RecordRunnerActivity(Restored(w), Owner[s])
       /\ runnerSocket' = SocketAfter(w)
  /\ PersistState
  /\ UNCHANGED <<pending, sending, request, runner, deliveries, restarts>>

\* What recordRunnerActivity leaves of a message's effect on the rows: on a
\* session that is over it throws, and the change stays in memory only.
RecordAndPersist(b, r) ==
  IF Live(broker) THEN broker' = RecordRunnerActivity(b, r) /\ PersistState
                  ELSE broker' = b /\ UNCHANGED disk

\* webSocketMessage with the ACK of a command.
WebSocketAck(s) ==
  /\ Enter
  /\ inbox[s] # <<>>
  /\ Head(inbox[s]).kind = "ack"
  /\ inbox' = [inbox EXCEPT ![s] = Tail(@)]
  /\ \E w \in ToRestore :
       /\ runnerSocket' = SocketAfter(w)
       /\ IF w # None /\ ~Live(broker)
          THEN UNCHANGED <<broker, disk>>
          ELSE RecordAndPersist(
                 AcknowledgeFromRunner(Restored(w), Head(inbox[s]).cmd, Owner[s]), Owner[s])
  /\ UNCHANGED <<pending, sending, request, conn, task, process, deliveries, restarts>>

\* Mutants of SettlePending: the entry and its timer stay; it is resolved even
\* if the result was not applied; it is dropped when it should be rejected;
\* the answer is not persisted.
SettleWithoutDelete(b, c, accepted, outcome) ==
  /\ broker' = IF accepted THEN ResumeCreateCommand(b, c, outcome) ELSE RejectAll(b, {c})
  /\ PersistState
  /\ pending' = pending
  /\ AnswerAll({c})

SettleAlwaysResolving(b, c, accepted, outcome) ==
  /\ broker' = ResumeCreateCommand(b, c, outcome)
  /\ PersistState
  /\ pending' = [pending EXCEPT ![c] = None]
  /\ AnswerAll({c})

SettleForgettingRejection(b, c, accepted, outcome) ==
  /\ broker' = b
  /\ PersistState
  /\ pending' = [pending EXCEPT ![c] = None]
  /\ IF accepted THEN AnswerAll({c}) ELSE UNCHANGED request

SettleWithoutPersist(b, c, accepted, outcome) ==
  /\ broker' = IF accepted THEN ResumeCreateCommand(b, c, outcome) ELSE RejectAll(b, {c})
  /\ pending' = [pending EXCEPT ![c] = None]
  /\ AnswerAll({c})
  /\ UNCHANGED disk

\* The pending entry of command c is settled: resolved when the result was
\* applied, rejected when it was not. b is the broker with the result applied.
SettlePending(b, c, accepted, outcome) ==
  /\ broker' = IF accepted THEN ResumeCreateCommand(b, c, outcome) ELSE RejectAll(b, {c})
  /\ PersistState
  /\ pending' = [pending EXCEPT ![c] = None]
  /\ AnswerAll({c})

\* webSocketMessage with the result of a command.
WebSocketResult(s) ==
  /\ Enter
  /\ inbox[s] # <<>>
  /\ Head(inbox[s]).kind = "result"
  /\ inbox' = [inbox EXCEPT ![s] = Tail(@)]
  /\ \E w \in ToRestore :
       LET c       == Head(inbox[s]).cmd
           outcome == Head(inbox[s]).outcome
           applied == ApplyRunnerResult(Restored(w), c, Owner[s], outcome)
       IN /\ runnerSocket' = SocketAfter(w)
          /\ IF w # None /\ ~Live(broker)
             THEN UNCHANGED <<broker, disk, pending, request>>
             ELSE IF pending[c] = None \/ ~Live(broker)
             THEN RecordAndPersist(applied, Owner[s]) /\ UNCHANGED <<pending, request>>
             ELSE SettlePending(RecordRunnerActivity(applied, Owner[s]), c,
                                Accepts(Restored(w), c, Owner[s]), outcome)
  /\ UNCHANGED <<sending, conn, task, process, deliveries, restarts>>

\* The commands whose results are awaited on s.
PendingOn(s) == {c \in Commands : pending[c] = s}

\* webSocketClose and webSocketError.
WebSocketClose(s) ==
  /\ Enter
  /\ conn[s] = "left"
  /\ conn' = [conn EXCEPT ![s] = "closed"]
  /\ inbox' = [inbox EXCEPT ![s] = <<>>]
  /\ broker' = RejectAll(MarkRunnerDisconnected(broker, Owner[s]), PendingOn(s))
  /\ PersistState
  /\ pending' = [c \in Commands |-> IF c \in PendingOn(s) THEN None ELSE pending[c]]
  /\ AnswerAll(PendingOn(s))
  /\ runnerSocket' = IF runnerSocket = s THEN None ELSE runnerSocket
  /\ UNCHANGED <<sending, task, process, deliveries, restarts>>

-----------------------------------------------------------------------------
(* The runner processes, as far as the object can tell (python/colab_runner.py). *)

Connected(s) == conn[s] \in {"open", "closing"}

\* A command is acknowledged before it is executed.
RunnerReceives(s, c) ==
  /\ Connected(s)
  /\ task[s][c] = "sent"
  /\ task' = [task EXCEPT ![s][c] = "executing"]
  /\ inbox' = [inbox EXCEPT ![s] = Append(@, [kind |-> "ack", cmd |-> c])]
  /\ UNCHANGED <<memory, disk, request, conn, process, deliveries, restarts>>

JobsOf(r)  == {j \in Commands : process[j].runner = r}
Running(j) == process[j].status \in {"running", "stopping"}
Reported(j) == IF Running(j) THEN "running" ELSE process[j].status

Failure == [ok |-> FALSE, job |-> None, status |-> "none"]
Report(j, status) == [ok |-> TRUE, job |-> j, status |-> status]

\* What runner r may answer to command c. A second job is refused while one
\* runs; an interrupt may give up waiting for the end; anything may fail.
RunnerOutcomes(r, c) ==
  {Failure} \cup
  CASE Type[c] = "run_shell" -> {[ok |-> TRUE, job |-> None, status |-> "none"]}
    [] Type[c] = "start_job" ->
         IF \E j \in JobsOf(r) : Running(j) THEN {} ELSE {Report(c, "running")}
    [] Type[c] \in {"job_status", "tail_job"} ->
         {Report(j, Reported(j)) : j \in JobsOf(r)}
    [] Type[c] = "interrupt_job" ->
         {Report(j, Reported(j)) : j \in JobsOf(r)} \cup
         {Report(j, "interrupted") : j \in {k \in JobsOf(r) : Running(k)}}

\* The process of a job command that succeeded.
ProcessAfter(c, o, r) ==
  [status |-> IF Type[c] = "interrupt_job" /\ o.status = "running" THEN "stopping" ELSE o.status,
   runner |-> r]

RunnerFinishes(s, c) ==
  /\ Connected(s)
  /\ task[s][c] = "executing"
  /\ task' = [task EXCEPT ![s][c] = "none"]
  /\ \E o \in RunnerOutcomes(Owner[s], c) :
       /\ inbox' = [inbox EXCEPT ![s] =
                      Append(@, [kind |-> "result", cmd |-> c, outcome |-> o])]
       /\ process' = IF o.ok /\ Type[c] \in {"start_job", "interrupt_job"}
                     THEN [process EXCEPT ![o.job] = ProcessAfter(c, o, Owner[s])]
                     ELSE process
  /\ UNCHANGED <<memory, disk, request, conn, deliveries, restarts>>

JobExits(j) ==
  /\ Running(j)
  /\ process' = [process EXCEPT ![j].status = IF @ = "running" THEN "exited" ELSE "interrupted"]
  /\ UNCHANGED <<memory, disk, request, conn, inbox, task, deliveries, restarts>>

\* The connection is gone for the runner, which cancels what it executes for it.
RunnerLeaves(s) ==
  /\ Connected(s)
  /\ conn' = [conn EXCEPT ![s] = "left"]
  /\ task' = [task EXCEPT ![s] = [c \in Commands |-> "none"]]
  /\ UNCHANGED <<memory, disk, request, inbox, process, deliveries, restarts>>

-----------------------------------------------------------------------------
(* Time and the platform.                                                   *)

\* A change of how now compares with a time stored in the session row.
TimePasses(session) ==
  /\ broker' = [broker EXCEPT !.session = session]
  /\ UNCHANGED <<runnerSocket, pending, sending, request, runner, deliveries, restarts>>

HeartbeatGoesStale ==
  /\ broker.session.fresh
  /\ TimePasses([broker.session EXCEPT !.fresh = FALSE])
  /\ disk' = [disk EXCEPT !.session.fresh = FALSE]

SessionExpires ==
  /\ ~broker.session.expired
  /\ TimePasses([broker.session EXCEPT !.expired = TRUE])
  /\ disk' = [disk EXCEPT !.session.expired = TRUE]

\* The object is evicted or fails: memory is lost, the requests in it with it,
\* and the next event finds what loadPersistedState reads back.
Restart ==
  /\ restarts < MaxRestarts
  /\ restarts' = restarts + 1
  /\ broker' = [session |-> disk.session, cmd |-> disk.cmd, jobs |-> disk.jobs,
                handler |-> None]
  /\ runnerSocket' = None
  /\ pending' = [c \in Commands |-> None]
  /\ sending' = None
  /\ request' = [c \in Commands |-> IF request[c] = "waiting" THEN "lost" ELSE request[c]]
  /\ UNCHANGED <<disk, runner, deliveries>>

Next ==
  \/ \E c \in Commands : CreateCommandRequest(c) \/ SendCommandToRunnerSocket(c)
                         \/ DeadlinePasses(c) \/ JobExits(c)
  \/ Query \/ RejectedEntry \/ RefusedRequest \/ RevokeRequest
  \/ \E s \in Sockets : AcceptRunnerWebSocket(s) \/ WebSocketHeartbeat(s)
                        \/ WebSocketAck(s) \/ WebSocketResult(s) \/ WebSocketClose(s)
                        \/ RunnerLeaves(s)
  \/ \E s \in Sockets, c \in Commands : RunnerReceives(s, c) \/ RunnerFinishes(s, c)
  \/ HeartbeatGoesStale \/ SessionExpires \/ Restart

Spec == Init /\ [][Next]_vars

\* Timers fire, awaited storage completes. Nothing else is promised: the
\* controller, the runner and the network may stop at any time.
Fairness == \A c \in Commands : WF_vars(SendCommandToRunnerSocket(c)) /\ WF_vars(DeadlinePasses(c))

FairSpec == Spec /\ Fairness

-----------------------------------------------------------------------------
(* Correctness.                                                             *)

InFlight(c) == ~Final(broker.cmd[c]) /\ broker.cmd[c].state # "absent"

\* Every variable has its type.
TypeOK ==
  /\ broker \in BrokerState
  /\ runnerSocket \in Sockets \cup {None}
  /\ pending \in [Commands -> Sockets \cup {None}]
  /\ sending \in Commands \cup {None}
  /\ disk \in StoredRows
  /\ request \in [Commands -> {"none", "waiting", "lost"} \cup CommandStates]
  /\ conn \in [Sockets -> ConnStates]
  /\ inbox \in [Sockets -> Seq(Messages)]
  /\ task \in [Sockets -> [Commands -> {"none", "sent", "executing"}]]
  /\ deliveries \in [Commands -> Nat]
  /\ process \in [Commands -> Processes]
  /\ restarts \in 0..MaxRestarts

\* The runner works only on commands, and answers only commands, whose row in
\* storage already names it: a restart cannot forget a command that is out
\* (sendCommandToRunnerSocket persists before it sends).
DurableBeforeDelivery ==
  \A s \in Sockets, c \in Commands :
    \/ task[s][c] # "none"
    \/ \E i \in DOMAIN inbox[s] : inbox[s][i].cmd = c
    => disk.cmd[c].runner = Owner[s]

\* No command goes out twice, whatever is retried, lost or restarted
\* (createCommand returns a row that exists).
DeliveredAtMostOnce == \A c \in Commands : deliveries[c] <= 1

\* While the session is live, storage holds what memory holds whenever no
\* handler is running, so that a restart forgets nothing but waits and
\* handlers (every handler ends in persistState).
LiveMemoryIsStored == Live(broker) => disk = Rows(broker)

\* What the controller was told is what storage holds: a success or failure
\* stays, and an unknown command keeps a final row (fetch persists before it
\* answers; a late result may still settle an unknown command).
AnswersAreDurable ==
  \A c \in Commands :
    /\ request[c] \in {"succeeded", "failed"} => disk.cmd[c].state = request[c]
    /\ request[c] = "unknown" => Final(disk.cmd[c])

\* A request waits exactly while its entry in pendingRunnerResults, or the
\* persistState before it, exists; on a live session its command is then
\* undecided and out at the instance of the socket it waits on.
WaitingMatchesPending ==
  \A c \in Commands :
    /\ request[c] = "waiting" <=> (pending[c] # None \/ sending = c)
    /\ pending[c] # None /\ Live(broker) =>
         InFlight(c) /\ broker.cmd[c].runner = Owner[pending[c]]

\* Commands go to the socket of the runner instance the session row names,
\* whatever sockets were replaced, closed late or restored.
RoutedToCurrentRunner ==
  Live(broker) /\ broker.handler # None =>
    /\ broker.handler = runnerSocket
    /\ Owner[broker.handler] = broker.session.runner

\* A job that is recorded as running belongs to the current instance, so
\* active_job_id never names a job of a replaced runner.
RunningJobsAreCurrent ==
  \A j \in Commands : broker.jobs[j].status = "running" =>
                        broker.jobs[j].runner = broker.session.runner

\* A job recorded as ended did end, in the way recorded.
EndedJobsEnded ==
  \A j \in Commands : broker.jobs[j].status \in {"exited", "interrupted"} =>
                        process[j].status = broker.jobs[j].status

\* createCommand never finds, after its await, that the result it was given
\* belongs to another instance than the one it read before the await.
NoInternalError == \A c \in Commands : broker.cmd[c].error # "INTERNAL_ERROR"

\* On a live session a settled row never changes again.
SettledStays ==
  [][\A c \in Commands : Settled(broker.cmd[c]) /\ Live(broker) =>
                           broker'.cmd[c] = broker.cmd[c]]_vars

\* A command succeeds only through the current instance: late results of a
\* replaced runner change nothing.
OnlyCurrentRunnerCompletes ==
  [][\A c \in Commands :
       broker'.cmd[c].state = "succeeded" /\ broker.cmd[c].state # "succeeded" =>
         broker.cmd[c].runner = broker'.session.runner]_vars

\* The rows in storage move as CommandLifecycle allows.
Lifecycle == INSTANCE CommandLifecycle WITH
  row     <- [c \in Commands |-> [state |-> disk.cmd[c].state, runner |-> disk.cmd[c].runner]],
  current <- disk.session.runner,
  over    <- disk.session.revoked \/ disk.session.expired

ImplementsLifecycle == Lifecycle!Spec

\* Every POST /commands gets its answer, if the object survives.
RequestsAreAnswered ==
  \A c \in Commands : request[c] = "waiting" ~> request[c] # "waiting"

\* What the error text of RUNNER_OFFLINE says: no runner is connected.
OfflineMeansNotConnected ==
  [][\A c \in Commands :
       broker'.cmd[c].error = "RUNNER_OFFLINE" /\ broker.cmd[c].state = "absent" =>
         ~IsRunnerFresh(broker')]_vars

\* What the specification document says of unknown_lost: another runner
\* instance has connected.
LostMeansRunnerRestart ==
  [][\A j \in Commands :
       broker.jobs[j].status = "running" /\ broker'.jobs[j].status = "unknown_lost" =>
         \E s \in Sockets : conn[s] = "unused" /\ conn'[s] = "open"]_vars
=============================================================================
