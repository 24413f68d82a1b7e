-------------------------- MODULE SessionCommandsProofs --------------------------
(***************************************************************************)
(* What becomes of commands and jobs in SessionObject: the rows, the       *)
(* requests that wait, what is on the wire and what the runner started,    *)
(* for every set of commands, runner instances and sockets and any number  *)
(* of restarts; and that the rows in storage implement CommandLifecycle.   *)
(***************************************************************************)
EXTENDS SessionObjectProofs

-----------------------------------------------------------------------------
(* The inductive invariant.                                                 *)

\* A command row any sequence of handlers can leave. A row without an instance
\* is absent or was refused, so it takes no result.
RowSound(row) ==
  /\ row.error # "INTERNAL_ERROR"
  /\ row.error = "COMMAND_STATE_UNKNOWN" => row.state = "unknown"
  /\ row.state = "absent" => row.runner = None
  /\ row.state # "absent" /\ ~Settled(row) => row.runner # None

\* q is p, or p moved on by the current instance r: what the row q in memory
\* may be when the row in storage is p, once the session is over and messages
\* of the runner change memory only.
Ahead(p, q, r) ==
  \/ q = p
  \/ /\ p.state \in {"sent_to_runner", "runner_acknowledged", "unknown"}
     /\ p.runner = r /\ q.runner = r
     /\ \/ p.state = "sent_to_runner" /\ q.state = "runner_acknowledged"
        \/ q.state \in {"succeeded", "failed"} /\ Settled(q)

\* Storage agrees with memory on whose the session is and whether it is over.
SessionsAgree ==
  /\ disk.session.runner  = broker.session.runner
  /\ disk.session.revoked = broker.session.revoked
  /\ disk.session.expired = broker.session.expired

RowsInv ==
  \A c \in Commands :
    /\ RowSound(broker.cmd[c])
    /\ RowSound(disk.cmd[c])
    /\ Ahead(disk.cmd[c], broker.cmd[c], broker.session.runner)

\* WaitingMatchesPending, with what it needs of a command that is about to be
\* sent and of waits on a session that is over.
WaitsInv ==
  \A c \in Commands :
    /\ request[c] = "waiting" <=> (pending[c] # None \/ sending = c)
    /\ pending[c] # None => /\ broker.cmd[c].state # "absent"
                            /\ broker.cmd[c].runner = Owner[pending[c]]
                            /\ Live(broker) => InFlight(c)
    /\ sending = c => /\ pending[c] = None
                      /\ broker.handler # None
                      /\ broker.cmd[c].state = "sent_to_runner"
                      /\ broker.cmd[c].runner = Owner[broker.handler]

\* An answered request finds its answer in a row: settled, or final if the
\* answer was unknown.
Answered(answer, row) ==
  /\ answer \in {"succeeded", "failed"} => row.state = answer /\ Settled(row)
  /\ answer = "unknown" => Final(row)

AnswersInv ==
  \A c \in Commands : Answered(request[c], broker.cmd[c]) /\ Answered(request[c], disk.cmd[c])

\* A command the runner works on was delivered, on one socket, and has not
\* started its job; jobs come from delivered commands.
TasksInv ==
  /\ \A s \in Sockets, c \in Commands : task[s][c] # "none" =>
       /\ disk.cmd[c].runner = Owner[s]
       /\ deliveries[c] # 0
       /\ process[c] = NoProcess
       /\ \A t \in Sockets : task[t][c] # "none" => t = s
  /\ \A c \in Commands : process[c] # NoProcess => deliveries[c] # 0

\* What a message m of instance r says is true of the jobs in proc.
MessageSound(m, r, proc) ==
  m.kind = "result" /\ m.outcome.job # None =>
    /\ proc[m.outcome.job].runner = r
    /\ m.outcome.status # "unknown_lost"
    /\ m.outcome.status \in {"exited", "interrupted"} =>
         proc[m.outcome.job].status = m.outcome.status

InboxInv ==
  \A s \in Sockets : \A i \in DOMAIN inbox[s] :
    /\ disk.cmd[inbox[s][i].cmd].runner = Owner[s]
    /\ MessageSound(inbox[s][i], Owner[s], process)

\* The job rows beside the processes: a row is filed under the instance whose
\* process it is, a running job is the current instance's, an end is true.
JobsFiled(jobs, current, proc) ==
  \A j \in Commands :
    /\ jobs[j].status = "absent" => jobs[j].runner = None
    /\ jobs[j].status # "absent" => jobs[j].runner # None /\ jobs[j].runner = proc[j].runner
    /\ jobs[j].status = "running" => jobs[j].runner = current
    /\ jobs[j].status \in {"exited", "interrupted"} => proc[j].status = jobs[j].status

JobsInv ==
  /\ JobsFiled(broker.jobs, broker.session.runner, process)
  /\ JobsFiled(disk.jobs, broker.session.runner, process)

\* What SessionObjectProofs shows to be invariant, ...
Basis == TypeOK /\ LiveMemoryIsStored /\ RoutedToCurrentRunner /\ UndeliveredUntilSent
\* ... and what is added to it here.
CommandsInv ==
  SessionsAgree /\ RowsInv /\ WaitsInv /\ AnswersInv /\ TasksInv /\ InboxInv /\ JobsInv

-----------------------------------------------------------------------------
(* The steps of one command, whatever handler takes them.                   *)

\* Nothing happens to command c.
Untouched(c) ==
  /\ broker'.cmd[c] = broker.cmd[c]
  /\ pending'[c] = pending[c]
  /\ request'[c] = request[c]
  /\ sending' = c <=> sending = c
  /\ sending = c => broker'.handler = broker.handler

\* It is refused, for want of a runner.
Refused(c) ==
  /\ broker.cmd[c].state = "absent"
  /\ broker'.cmd[c] = [state |-> "failed", runner |-> None, error |-> "RUNNER_OFFLINE"]
  /\ request' = [request EXCEPT ![c] = "failed"]
  /\ pending'[c] = pending[c]
  /\ sending = None /\ sending' = None
  /\ PersistState

\* It is directed at the current instance, and its request waits.
Dispatched(c) ==
  /\ broker.cmd[c].state = "absent"
  /\ broker'.session.runner # None
  /\ broker'.handler # None
  /\ Owner[broker'.handler] = broker'.session.runner
  /\ broker'.cmd[c] =
       [state |-> "sent_to_runner", runner |-> broker'.session.runner, error |-> "none"]
  /\ request' = [request EXCEPT ![c] = "waiting"]
  /\ pending'[c] = pending[c]
  /\ sending = None /\ sending' = c
  /\ PersistState

\* It is put on the wire.
PutOnWire(c) ==
  /\ sending = c /\ sending' = None
  /\ pending' = [pending EXCEPT ![c] = broker.handler]
  /\ UNCHANGED <<broker, disk, request>>

\* The current instance acknowledges it.
Acked(c) ==
  /\ broker.cmd[c].state \in {"sent_to_runner", "runner_acknowledged"}
  /\ broker.cmd[c].runner = broker'.session.runner
  /\ broker'.cmd[c] = AcknowledgedRow(broker.cmd[c])
  /\ pending' = pending /\ request' = request
  /\ sending = None /\ sending' = None

\* The current instance completes it; its request is answered if it waits.
Completed(c) ==
  /\ broker.cmd[c].state # "absent" /\ ~Settled(broker.cmd[c])
  /\ broker.cmd[c].runner = broker'.session.runner
  /\ broker'.cmd[c] \in CompletedRows(broker.cmd[c])
  /\ sending = None /\ sending' = None
  /\ \/ /\ pending[c] = None \/ ~Live(broker)
        /\ pending' = pending /\ request' = request
     \/ /\ pending[c] # None
        /\ pending'[c] = None
        /\ request'[c] = broker'.cmd[c].state
        /\ PersistState

\* The wait for it ends without a result.
GivenUp(c) ==
  /\ pending[c] # None \/ sending = c
  /\ broker'.cmd[c] = UnknownRow(broker.cmd[c])
  /\ pending'[c] = None
  /\ sending' = None
  /\ request'[c] = "unknown"
  /\ PersistState

RowStep(c) == \/ Untouched(c) \/ Refused(c) \/ Dispatched(c) \/ PutOnWire(c)
              \/ Acked(c) \/ Completed(c) \/ GivenUp(c)

\* Memory is stored, or nothing but the age of the session row is.
StorageStep ==
  \/ PersistState
  \/ /\ disk'.cmd = disk.cmd /\ disk'.jobs = disk.jobs
     /\ broker'.session.runner = broker.session.runner

\* A session over stays over, with the instance it has.
SessionStep ==
  /\ broker'.session.runner # None \/ broker.session.runner = None
  /\ Live(broker)' => Live(broker)
  /\ ~Live(broker) => broker'.session.runner = broker.session.runner

-----------------------------------------------------------------------------
(* Every step is one of these steps for every command.                      *)

\* Rejected waits leave their rows unknown, and the others alone.
LEMMA RejectAllRow ==
  ASSUME NEW b \in BrokerState, NEW C
  PROVE  /\ RejectAll(b, C).jobs = b.jobs
         /\ \A c \in Commands \ C : RejectAll(b, C).cmd[c] = b.cmd[c]
         /\ \A c \in Commands \cap C : RejectAll(b, C).cmd[c] = UnknownRow(b.cmd[c])
BY DEF UnknownRow, RejectAll, MarkCommandUnknown, BrokerState

\* What a restore does not touch.
LEMMA RestoredFrame ==
  ASSUME TypeOK, NEW w \in ToRestore
  PROVE  LET b == Restored(w) IN
         /\ b.cmd = broker.cmd
         /\ Live(b) = Live(broker)
         /\ b.session.revoked = broker.session.revoked
         /\ b.session.expired = broker.session.expired
         /\ w = None => b = broker
         /\ w # None => b.session.runner = Owner[w] /\ b.handler = w
<1>1. CASE w = None
  BY <1>1 DEF Restored
<1>2. CASE w # None
  BY <1>2, RestoredType, AttachRunnerFrame DEF Restored, TypeOK, Live
<1>3. QED
  BY <1>1, <1>2

\* An ACK, once it is read: the restore throws, the change is recorded and
\* stored, or it stays in the memory of a session that is over.
LEMMA AckEffect ==
  ASSUME TypeOK, NEW s \in Sockets, WebSocketAck(s)
  PROVE  LET c == Head(inbox[s]).cmd IN
         \/ UNCHANGED <<broker, disk>>
         \/ \E w \in ToRestore :
              /\ Live(broker)
              /\ broker' = RecordRunnerActivity(
                             AcknowledgeFromRunner(Restored(w), c, Owner[s]), Owner[s])
              /\ PersistState
         \/ /\ ~Live(broker)
            /\ broker' = AcknowledgeFromRunner(broker, c, Owner[s])
            /\ UNCHANGED disk
<1> DEFINE a(w) == AcknowledgeFromRunner(Restored(w), Head(inbox[s]).cmd, Owner[s])
<1>1. PICK w \in ToRestore : IF w # None /\ ~Live(broker)
                             THEN UNCHANGED <<broker, disk>>
                             ELSE RecordAndPersist(a(w), Owner[s])
  BY DEF WebSocketAck
<1>2. CASE w # None /\ ~Live(broker)
  BY <1>1, <1>2
<1>3. CASE Live(broker)
  BY <1>1, <1>3 DEF RecordAndPersist
<1>4. CASE w = None /\ ~Live(broker)
  BY <1>1, <1>4 DEF RecordAndPersist, Restored
<1>5. QED
  BY <1>2, <1>3, <1>4

\* A result, once it is read: as an ACK, and if its request waits on a live
\* session, the wait is settled.
LEMMA ResultEffect ==
  ASSUME TypeOK, NEW s \in Sockets, WebSocketResult(s)
  PROVE  LET c       == Head(inbox[s]).cmd
             outcome == Head(inbox[s]).outcome
         IN
         \/ UNCHANGED <<broker, disk, pending, request>>
         \/ \E w \in ToRestore :
              /\ Live(broker) /\ pending[c] = None
              /\ broker' = RecordRunnerActivity(
                             ApplyRunnerResult(Restored(w), c, Owner[s], outcome), Owner[s])
              /\ PersistState
              /\ UNCHANGED <<pending, request>>
         \/ /\ ~Live(broker)
            /\ broker' = ApplyRunnerResult(broker, c, Owner[s], outcome)
            /\ UNCHANGED <<disk, pending, request>>
         \/ \E w \in ToRestore :
              /\ Live(broker) /\ pending[c] # None
              /\ SettlePending(RecordRunnerActivity(
                                 ApplyRunnerResult(Restored(w), c, Owner[s], outcome), Owner[s]),
                               c, Accepts(Restored(w), c, Owner[s]), outcome)
<1> DEFINE c       == Head(inbox[s]).cmd
           outcome == Head(inbox[s]).outcome
           a(w)    == ApplyRunnerResult(Restored(w), c, Owner[s], outcome)
           Settle(w) == SettlePending(RecordRunnerActivity(a(w), Owner[s]), c,
                                      Accepts(Restored(w), c, Owner[s]), outcome)
<1>1. PICK w \in ToRestore :
        IF w # None /\ ~Live(broker)
        THEN UNCHANGED <<broker, disk, pending, request>>
        ELSE IF pending[c] = None \/ ~Live(broker)
        THEN RecordAndPersist(a(w), Owner[s]) /\ UNCHANGED <<pending, request>>
        ELSE Settle(w)
  BY DEF WebSocketResult
<1>2. CASE w # None /\ ~Live(broker)
  BY <1>1, <1>2
<1>3. CASE Live(broker) /\ pending[c] = None
  BY <1>1, <1>3 DEF RecordAndPersist
<1>4. CASE w = None /\ ~Live(broker)
  BY <1>1, <1>4 DEF RecordAndPersist, Restored
<1>5. CASE Live(broker) /\ pending[c] # None
  <2>1. Settle(w)
    BY <1>1, <1>5
  <2>2. QED
    BY <1>5, <2>1
<1>6. QED
  BY <1>2, <1>3, <1>4, <1>5

\* Every step but a restart stores memory or leaves the rows in storage alone,
\* and keeps whose the session is and that it is over.
LEMMA StepsOfSession ==
  ASSUME TypeOK, SessionsAgree, [Next]_vars, ~Restart
  PROVE  StorageStep /\ SessionStep /\ SessionsAgree'
<1> DEFINE Over(b) == b.session.revoked \/ b.session.expired
           Goal == StorageStep /\ SessionStep /\ SessionsAgree'
<1>0. broker \in BrokerState
  BY DEF TypeOK
<1> HIDE DEF Goal
<1>1. ASSUME PersistState, SessionStep PROVE Goal
  BY <1>1 DEF Goal, PersistState, Rows, StorageStep, SessionsAgree
<1>2. ASSUME broker'.session = broker.session, UNCHANGED disk PROVE Goal
  BY <1>2 DEF Goal, StorageStep, SessionStep, SessionsAgree, Live
<1>3. ASSUME Live(broker), PersistState, NEW w \in ToRestore,
             \/ broker'.session.runner = Restored(w).session.runner
             \/ \E s \in Sockets : broker'.session.runner = Owner[s]
      PROVE  Goal
  <2>1. \A s \in Sockets : Owner[s] # None
    BY OwnerAssumption, NoneAssumption
  <2>2. Restored(w).session.runner = broker.session.runner
        \/ \E s \in Sockets : Restored(w).session.runner = Owner[s]
    BY RestoredType, RestoredFrame
  <2>3. SessionStep
    BY <1>3, <2>1, <2>2 DEF SessionStep
  <2>4. QED
    BY <1>1, <1>3, <2>3
<1>4. ASSUME NEW c \in Commands, CreateCommandRequest(c) PROVE Goal
  <2>1. PICK w \in ToRestore : broker' = CreateCommand(Restored(w), c)
    BY <1>4 DEF CreateCommandRequest
  <2>2. broker'.session = Restored(w).session
    BY <2>1, RestoredType, CreateCommandFrame DEF SameSession
  <2>3. Live(broker) /\ PersistState
    BY <1>4 DEF CreateCommandRequest
  <2>4. QED
    BY <1>3, <2>2, <2>3
<1>5. ASSUME NEW b \in BrokerState, NEW C, broker' = RejectAll(b, C), PersistState,
             b.session.runner = broker.session.runner,
             Live(b) = Live(broker)
      PROVE  Goal
  <2>1. broker'.session = b.session
    BY <1>5, RejectAllFrame DEF SameSession
  <2>2. SessionStep
    BY <1>5, <2>1 DEF SessionStep, Live
  <2>3. QED
    BY <1>1, <1>5, <2>2
<1>6. ASSUME NEW c \in Commands, SendCommandToRunnerSocket(c) PROVE Goal
  <2>1. \/ UNCHANGED <<broker, disk>>
        \/ broker' = RejectAll(broker, {c}) /\ PersistState
    BY <1>6 DEF SendCommandToRunnerSocket
  <2>2. QED
    BY <1>0, <1>2, <1>5, <2>1
<1>7. ASSUME NEW c \in Commands, DeadlinePasses(c) PROVE Goal
  BY <1>0, <1>5, <1>7 DEF DeadlinePasses
<1>8. ASSUME Query PROVE Goal
  <2>1. PICK w \in ToRestore : broker' = Restored(w)
    BY <1>8 DEF Query, ToRestore
  <2>2. Live(broker) /\ PersistState
    BY <1>8 DEF Query
  <2>3. QED
    BY <1>3, <2>1, <2>2
<1>9. ASSUME RejectedEntry \/ RefusedRequest PROVE Goal
  BY <1>1, <1>2, <1>9 DEF RejectedEntry, RefusedRequest, SessionStep
<1>10. ASSUME RevokeRequest PROVE Goal
  <2>1. PICK w \in ToRestore : broker' = Revoke(Restored(w))
    BY <1>10 DEF RevokeRequest
  <2>2. broker'.session.runner = Restored(w).session.runner
    BY <2>1, RestoredType DEF Revoke, BrokerState, SessionRow
  <2>3. QED
    BY <1>3, <1>10, <2>2 DEF RevokeRequest
<1>11. ASSUME NEW s \in Sockets, AcceptRunnerWebSocket(s) PROVE Goal
  <2>1. PICK w \in ToRestore : broker' = AttachRunner(Restored(w), s)
    BY <1>11 DEF AcceptRunnerWebSocket
  <2>2. broker'.session.runner = Owner[s]
    BY <2>1, RestoredType, AttachRunnerFrame
  <2>3. QED
    BY <1>3, <1>11, <2>2 DEF AcceptRunnerWebSocket
<1>12. ASSUME NEW s \in Sockets, WebSocketHeartbeat(s) PROVE Goal
  <2>1. PICK w \in ToRestore : broker' = RecordRunnerActivity(Restored(w), Owner[s])
    BY <1>12 DEF WebSocketHeartbeat
  <2>2. broker'.session.runner = Restored(w).session.runner
    BY <2>1, RestoredType, RecordRunnerActivityFrame
  <2>3. QED
    BY <1>3, <1>12, <2>2 DEF WebSocketHeartbeat
<1>13. ASSUME NEW s \in Sockets, WebSocketAck(s) PROVE Goal
  <2> DEFINE c    == Head(inbox[s]).cmd
             a(b) == AcknowledgeFromRunner(b, c, Owner[s])
  <2>1. c \in Commands
    BY <1>13, HeadType DEF WebSocketAck
  <2>2. \A b \in BrokerState : a(b) \in BrokerState /\ a(b).session = b.session
    BY <2>1, AcknowledgeFromRunnerType, AcknowledgeFromRunnerFrame DEF SameSession
  <2> HIDE DEF a
  <2>3. \/ UNCHANGED <<broker, disk>>
        \/ \E w \in ToRestore : /\ Live(broker)
                                /\ broker' = RecordRunnerActivity(a(Restored(w)), Owner[s])
                                /\ PersistState
        \/ broker' = a(broker) /\ UNCHANGED disk
    BY <1>13, AckEffect DEF a
  <2>4. CASE \E w \in ToRestore : /\ Live(broker)
                                  /\ broker' = RecordRunnerActivity(a(Restored(w)), Owner[s])
                                  /\ PersistState
    <3>1. PICK w \in ToRestore : broker' = RecordRunnerActivity(a(Restored(w)), Owner[s])
      BY <2>4
    <3>2. broker'.session.runner = Restored(w).session.runner
      BY <2>2, <3>1, RestoredType, RecordRunnerActivityFrame
    <3>3. QED
      BY <1>3, <2>4, <3>2
  <2>5. QED
    BY <1>0, <1>2, <2>2, <2>3, <2>4
<1>14. ASSUME NEW s \in Sockets, WebSocketResult(s) PROVE Goal
  <2> DEFINE c       == Head(inbox[s]).cmd
             outcome == Head(inbox[s]).outcome
             a(b)    == ApplyRunnerResult(b, c, Owner[s], outcome)
             d(b)    == RecordRunnerActivity(a(b), Owner[s])
  <2>1. c \in Commands /\ outcome \in Outcomes
    BY <1>14, HeadType DEF WebSocketResult
  <2>2. \A b \in BrokerState : a(b) \in BrokerState /\ a(b).session = b.session
    BY <2>1, ApplyRunnerResultType, ApplyRunnerResultFrame DEF SameSession
  <2>3. \/ UNCHANGED <<broker, disk>>
        \/ \E w \in ToRestore : Live(broker) /\ broker' = d(Restored(w)) /\ PersistState
        \/ broker' = a(broker) /\ UNCHANGED disk
        \/ \E w \in ToRestore :
             /\ Live(broker)
             /\ SettlePending(d(Restored(w)), c, Accepts(Restored(w), c, Owner[s]), outcome)
    BY <1>14, ResultEffect
  <2> HIDE DEF a, d
  <2>4. CASE \E w \in ToRestore : Live(broker) /\ broker' = d(Restored(w)) /\ PersistState
    <3>1. PICK w \in ToRestore : broker' = d(Restored(w))
      BY <2>4
    <3>2. broker'.session.runner = Restored(w).session.runner
      BY <2>2, <3>1, RestoredType, RecordRunnerActivityFrame DEF d
    <3>3. QED
      BY <1>3, <2>4, <3>2
  <2>5. CASE \E w \in ToRestore :
             /\ Live(broker)
             /\ SettlePending(d(Restored(w)), c, Accepts(Restored(w), c, Owner[s]), outcome)
    <3>1. PICK w \in ToRestore :
             SettlePending(d(Restored(w)), c, Accepts(Restored(w), c, Owner[s]), outcome)
      BY <2>5
    <3>2. d(Restored(w)) \in BrokerState
      BY <2>2, RestoredType, RecordRunnerActivityType DEF d
    <3>3. /\ broker' \in {ResumeCreateCommand(d(Restored(w)), c, outcome),
                          RejectAll(d(Restored(w)), {c})}
          /\ PersistState
      BY <3>1 DEF SettlePending
    <3>4. broker' \in BrokerState /\ broker'.session = d(Restored(w)).session
      BY <2>1, <3>2, <3>3, ResumeCreateCommandType, ResumeCreateCommandFrame, RejectAllType,
         RejectAllFrame DEF SameSession
    <3>5. d(Restored(w)).session.runner = Restored(w).session.runner
      BY <2>2, RestoredType, RecordRunnerActivityFrame DEF d
    <3>6. QED
      BY <1>3, <2>5, <3>3, <3>4, <3>5
  <2>6. QED
    BY <1>0, <1>2, <2>2, <2>3, <2>4, <2>5
<1>15. ASSUME NEW s \in Sockets, WebSocketClose(s) PROVE Goal
  <2>1. /\ broker' = RejectAll(MarkRunnerDisconnected(broker, Owner[s]), PendingOn(s))
        /\ PersistState
    BY <1>15 DEF WebSocketClose
  <2>2. QED
    BY <1>0, <1>5, <2>1, MarkRunnerDisconnectedType, MarkRunnerDisconnectedFrame DEF Live
<1>16. ASSUME NEW s \in Sockets, NEW c \in Commands,
              RunnerReceives(s, c) \/ RunnerFinishes(s, c)
       PROVE  Goal
  BY <1>2, <1>16 DEF RunnerReceives, RunnerFinishes, memory
<1>17. ASSUME HeartbeatGoesStale \/ SessionExpires PROVE Goal
  <2>1. /\ disk'.cmd = disk.cmd /\ disk'.jobs = disk.jobs
        /\ broker'.session.runner = broker.session.runner
        /\ disk'.session.runner = disk.session.runner
        /\ disk'.session.revoked = disk.session.revoked
        /\ broker'.session.revoked = broker.session.revoked
    BY <1>0, <1>17 DEF HeartbeatGoesStale, SessionExpires, TimePasses, TypeOK, BrokerState,
                       StoredRows, SessionRow
  <2>2. \/ /\ disk'.session.expired = disk.session.expired
           /\ broker'.session.expired = broker.session.expired
        \/ broker'.session.expired = TRUE /\ disk'.session.expired = TRUE
    BY <1>0, <1>17 DEF HeartbeatGoesStale, SessionExpires, TimePasses, TypeOK, BrokerState,
                       StoredRows, SessionRow
  <2>3. QED
    BY <2>1, <2>2 DEF Goal, StorageStep, SessionStep, SessionsAgree, Live
<1>18. ASSUME NEW c \in Commands, JobExits(c) PROVE Goal
  BY <1>2, <1>18 DEF JobExits, memory
<1>19. ASSUME NEW s \in Sockets, RunnerLeaves(s) PROVE Goal
  BY <1>2, <1>19 DEF RunnerLeaves, memory
<1>20. ASSUME UNCHANGED vars PROVE Goal
  BY <1>2, <1>20 DEF vars, memory
<1>21. Goal
  BY <1>4, <1>6, <1>7, <1>8, <1>9, <1>10, <1>11, <1>12, <1>13, <1>14, <1>15, <1>16, <1>17,
     <1>18, <1>19, <1>20 DEF Next
<1>22. QED
  BY <1>21 DEF Goal

\* The row in memory names the instance the row in storage names.
LEMMA SameRunner ==
  ASSUME RowsInv, NEW c \in Commands
  PROVE  broker.cmd[c].runner = disk.cmd[c].runner
BY DEF RowsInv, Ahead

\* The message at the head of an inbox comes from the instance its command was
\* directed at, and tells the truth about jobs.
LEMMA HeadSound ==
  ASSUME TypeOK, RowsInv, InboxInv, NEW s \in Sockets, inbox[s] # <<>>
  PROVE  LET m == Head(inbox[s]) IN
         /\ disk.cmd[m.cmd].runner = Owner[s]
         /\ broker.cmd[m.cmd].runner = Owner[s]
         /\ MessageSound(m, Owner[s], process)
<1>1. inbox[s] \in Seq(Messages)
  BY DEF TypeOK
<1>2. 1 \in DOMAIN inbox[s] /\ Head(inbox[s]) = inbox[s][1]
  BY <1>1
<1>3. disk.cmd[Head(inbox[s]).cmd].runner = Owner[s] /\ MessageSound(Head(inbox[s]), Owner[s], process)
  BY <1>2 DEF InboxInv
<1>4. Head(inbox[s]).cmd \in Commands
  BY HeadType
<1>5. QED
  BY <1>3, <1>4, SameRunner

\* Every step but a restart is one of these steps for each command.
LEMMA StepsOfRow ==
  ASSUME Basis, RowsInv, WaitsInv, InboxInv, [Next]_vars, ~Restart, NEW c \in Commands
  PROVE  RowStep(c)
<1>0. /\ broker \in BrokerState
      /\ TypeOK
      /\ c # None
      /\ broker.cmd[c] \in CommandRow
      /\ DOMAIN request = Commands
      /\ \A s \in Sockets : Owner[s] \in Runners /\ Owner[s] # None
  BY OwnerAssumption, NoneAssumption DEF Basis, TypeOK, BrokerState
<1>1. ASSUME broker'.cmd = broker.cmd, UNCHANGED <<pending, request, sending>>,
             sending # None => broker'.handler = broker.handler
      PROVE  RowStep(c)
  BY <1>0, <1>1 DEF RowStep, Untouched
<1>2. ASSUME UNCHANGED <<broker, pending, request, sending>> PROVE RowStep(c)
  BY <1>1, <1>2
<1>3. ASSUME NEW b \in BrokerState, NEW C, b.cmd = broker.cmd, broker' = RejectAll(b, C),
             PersistState, AnswerAll(C), sending' = None,
             \A d \in Commands : pending'[d] = IF d \in C THEN None ELSE pending[d],
             \A d \in Commands : d \in C => pending[d] # None \/ sending = d,
             \A d \in Commands : d \notin C => sending # d
      PROVE  RowStep(c)
  <2>1. CASE c \in C
    <3>0. RejectAll(b, C).cmd[c] = UnknownRow(b.cmd[c])
      BY <2>1, RejectAllRow
    <3>1. broker'.cmd[c] = UnknownRow(broker.cmd[c])
      BY <1>3, <3>0
    <3>2. request'[c] = "unknown"
      BY <1>0, <1>3, <2>1, <3>1 DEF AnswerAll, UnknownRow, CommandRow
    <3>3. GivenUp(c)
      BY <1>3, <2>1, <3>1, <3>2 DEF GivenUp
    <3>4. QED
      BY <3>3 DEF RowStep
  <2>2. CASE c \notin C
    <3>0. RejectAll(b, C).cmd[c] = b.cmd[c]
      BY <2>2, RejectAllRow
    <3>1. broker'.cmd[c] = broker.cmd[c] /\ request'[c] = request[c]
      BY <1>3, <2>2, <3>0 DEF AnswerAll
    <3>2. Untouched(c)
      BY <1>0, <1>3, <2>2, <3>1 DEF Untouched
    <3>3. QED
      BY <3>2 DEF RowStep
  <2>3. QED
    BY <2>1, <2>2
<1>4. ASSUME NEW d \in Commands, CreateCommandRequest(d) PROVE RowStep(c)
  <2>1. PICK w \in ToRestore : broker' = CreateCommand(Restored(w), d)
    BY <1>4 DEF CreateCommandRequest
  <2> DEFINE b == Restored(w)
  <2>2. /\ b \in BrokerState /\ b.cmd = broker.cmd /\ Live(b)
        /\ Routed(b, SocketAfter(w))
    BY <1>0, <1>4, RestoredType, RestoredFrame, RestoredRouted DEF Basis, CreateCommandRequest
  <2>3. sending = None /\ pending' = pending /\ PersistState /\ broker.cmd[d].state = "absent"
    BY <1>4 DEF CreateCommandRequest, Enter, IsNewCommand
  <2>4. IF broker'.cmd[d].state = "sent_to_runner"
        THEN sending' = d /\ request' = [request EXCEPT ![d] = "waiting"]
        ELSE sending' = sending /\ request' = [request EXCEPT ![d] = "failed"]
    BY <1>4 DEF CreateCommandRequest
  <2> HIDE DEF b
  <2>5. broker'.session = b.session /\ broker'.handler = b.handler
    BY <2>1, <2>2, CreateCommandFrame DEF SameSession, b
  <2>6. CASE c = d /\ CanDispatch(b)
    <3>1. broker'.cmd[c] =
            [state |-> "sent_to_runner", runner |-> b.session.runner, error |-> "none"]
      BY <2>1, <2>2, <2>6 DEF CreateCommand, BrokerState, b
    <3>2. b.session.runner # None /\ b.handler # None /\ Owner[b.handler] = b.session.runner
      BY <2>2, <2>6 DEF CanDispatch, Routed
    <3>3. Dispatched(c)
      BY <2>3, <2>4, <2>5, <2>6, <3>1, <3>2 DEF Dispatched
    <3>4. QED
      BY <3>3 DEF RowStep
  <2>7. CASE c = d /\ ~CanDispatch(b)
    <3>1. broker'.cmd[c] = [state |-> "failed", runner |-> None, error |-> "RUNNER_OFFLINE"]
      BY <2>1, <2>2, <2>7 DEF CreateCommand, BrokerState, b
    <3>2. Refused(c)
      BY <2>3, <2>4, <2>7, <3>1 DEF Refused
    <3>3. QED
      BY <3>2 DEF RowStep
  <2>8. CASE c # d
    <3>1. broker'.cmd[c] = broker.cmd[c]
      BY <2>1, <2>2, <2>8, CreateCommandFrame DEF b
    <3>2. request'[c] = request[c] /\ sending' \in {None, d}
      BY <1>0, <2>3, <2>4, <2>8
    <3>3. Untouched(c)
      BY <1>0, <2>3, <2>8, <3>1, <3>2 DEF Untouched
    <3>4. QED
      BY <3>3 DEF RowStep
  <2>9. QED
    BY <2>6, <2>7, <2>8
<1>5. ASSUME NEW d \in Commands, SendCommandToRunnerSocket(d) PROVE RowStep(c)
  <2>1. sending = d /\ sending' = None /\ pending[d] = None
    BY <1>5 DEF SendCommandToRunnerSocket, WaitsInv
  <2>2. CASE conn[broker.handler] \in {"closing", "closed"}
    <3>1. /\ broker' = RejectAll(broker, {d})
          /\ PersistState /\ AnswerAll({d}) /\ pending' = pending
      BY <1>5, <2>2 DEF SendCommandToRunnerSocket
    <3>2. QED
      BY <1>0, <1>3, <2>1, <3>1
  <2>3. CASE conn[broker.handler] \notin {"closing", "closed"}
    <3>1. /\ pending' = [pending EXCEPT ![d] = broker.handler]
          /\ UNCHANGED <<broker, disk, request>>
      BY <1>5, <2>3 DEF SendCommandToRunnerSocket
    <3>2. CASE c = d
      BY <2>1, <3>1, <3>2 DEF RowStep, PutOnWire
    <3>3. CASE c # d
      BY <1>0, <2>1, <3>1, <3>3 DEF RowStep, Untouched
    <3>4. QED
      BY <3>2, <3>3
  <2>4. QED
    BY <2>2, <2>3
<1>6. ASSUME NEW d \in Commands, DeadlinePasses(d) PROVE RowStep(c)
  <2>1. /\ sending = None /\ sending' = None /\ pending[d] # None
        /\ pending' = [pending EXCEPT ![d] = None]
        /\ broker' = RejectAll(broker, {d}) /\ PersistState /\ AnswerAll({d})
    BY <1>6 DEF DeadlinePasses, Enter
  <2>2. \A e \in Commands : pending'[e] = IF e \in {d} THEN None ELSE pending[e]
    BY <1>0, <2>1 DEF TypeOK
  <2>3. \A e \in Commands : e # None
    BY NoneAssumption
  <2>4. QED
    BY <1>0, <1>3, <2>1, <2>2, <2>3
<1>7. ASSUME NEW s \in Sockets, WebSocketClose(s) PROVE RowStep(c)
  <2> DEFINE b == MarkRunnerDisconnected(broker, Owner[s])
  <2>1. b \in BrokerState /\ b.cmd = broker.cmd
    BY <1>0, MarkRunnerDisconnectedType, MarkRunnerDisconnectedFrame
  <2>2. /\ sending = None /\ sending' = None
        /\ pending' = [d \in Commands |-> IF d \in PendingOn(s) THEN None ELSE pending[d]]
        /\ broker' = RejectAll(b, PendingOn(s)) /\ PersistState /\ AnswerAll(PendingOn(s))
    BY <1>7 DEF WebSocketClose, Enter
  <2>3. \A d \in Commands : d # None /\ (d \in PendingOn(s) => pending[d] # None)
    BY NoneAssumption DEF PendingOn
  <2>4. QED
    BY <1>3, <2>1, <2>2, <2>3
<1>8. ASSUME NEW w \in ToRestore, broker'.cmd = Restored(w).cmd, sending = None,
             UNCHANGED <<pending, request, sending>>
      PROVE  RowStep(c)
  BY <1>0, <1>1, <1>8, RestoredFrame
<1>9. CASE Query
  <2>1. PICK w \in ToRestore : broker' = Restored(w)
    BY <1>9 DEF Query, ToRestore
  <2>2. QED
    BY <1>8, <1>9, <2>1 DEF Query, Enter
<1>10. CASE RejectedEntry \/ RefusedRequest
  BY <1>2, <1>10 DEF RejectedEntry, RefusedRequest
<1>11. CASE RevokeRequest
  <2>1. PICK w \in ToRestore : broker' = Revoke(Restored(w))
    BY <1>11 DEF RevokeRequest
  <2>2. broker'.cmd = Restored(w).cmd
    BY <1>0, <2>1, RestoredType DEF Revoke, BrokerState
  <2>3. QED
    BY <1>8, <1>11, <2>2 DEF RevokeRequest, Enter
<1>12. ASSUME NEW s \in Sockets, AcceptRunnerWebSocket(s) PROVE RowStep(c)
  <2>1. PICK w \in ToRestore : broker' = AttachRunner(Restored(w), s)
    BY <1>12 DEF AcceptRunnerWebSocket
  <2>2. broker'.cmd = Restored(w).cmd
    BY <1>0, <2>1, RestoredType, AttachRunnerFrame
  <2>3. QED
    BY <1>8, <1>12, <2>2 DEF AcceptRunnerWebSocket, Enter
<1>13. ASSUME NEW s \in Sockets, WebSocketHeartbeat(s) PROVE RowStep(c)
  <2>1. PICK w \in ToRestore : broker' = RecordRunnerActivity(Restored(w), Owner[s])
    BY <1>13 DEF WebSocketHeartbeat
  <2>2. broker'.cmd = Restored(w).cmd
    BY <1>0, <2>1, RestoredType, RecordRunnerActivityFrame
  <2>3. QED
    BY <1>8, <1>13, <2>2 DEF WebSocketHeartbeat, Enter
<1>14. ASSUME NEW s \in Sockets, NEW d \in Commands,
              RunnerReceives(s, d) \/ RunnerFinishes(s, d)
       PROVE  RowStep(c)
  BY <1>2, <1>14 DEF RunnerReceives, RunnerFinishes, memory
<1>15. ASSUME NEW s \in Sockets, RunnerLeaves(s) PROVE RowStep(c)
  BY <1>2, <1>15 DEF RunnerLeaves, memory
<1>16. ASSUME NEW j \in Commands, JobExits(j) PROVE RowStep(c)
  BY <1>2, <1>16 DEF JobExits, memory
<1>17. CASE HeartbeatGoesStale \/ SessionExpires
  BY <1>0, <1>1, <1>17 DEF HeartbeatGoesStale, SessionExpires, TimePasses, BrokerState
<1>18. CASE UNCHANGED vars
  BY <1>2, <1>18 DEF vars, memory
<1>19. ASSUME NEW s \in Sockets, WebSocketAck(s) PROVE RowStep(c)
  <2> DEFINE d    == Head(inbox[s]).cmd
             a(b) == AcknowledgeFromRunner(b, d, Owner[s])
  <2>1. d \in Commands /\ broker.cmd[d].runner = Owner[s]
    BY <1>0, <1>19, HeadType, HeadSound DEF WebSocketAck
  <2>2. sending = None /\ UNCHANGED <<sending, pending, request>>
    BY <1>19 DEF WebSocketAck, Enter
  <2>3. ASSUME NEW b \in BrokerState, b.cmd = broker.cmd, broker'.cmd = a(b).cmd,
               broker'.session.runner = b.session.runner
        PROVE  RowStep(c)
    <3>1. CASE c # d \/ a(b).cmd[d] = b.cmd[d]
      <4>1. a(b).cmd[c] = b.cmd[c]
        BY <2>1, <2>3, <3>1, AcknowledgeRow
      <4>2. Untouched(c)
        BY <1>0, <2>2, <2>3, <4>1 DEF Untouched
      <4>3. QED
        BY <4>2 DEF RowStep
    <3>2. CASE c = d /\ a(b).cmd[d] # b.cmd[d]
      <4>1. /\ FromItsRunner(b, c, Owner[s])
            /\ b.cmd[c].state \in {"sent_to_runner", "runner_acknowledged"}
            /\ a(b).cmd[c] = AcknowledgedRow(b.cmd[c])
        BY <2>1, <2>3, <3>2, AcknowledgeRow
      <4>2. Acked(c)
        BY <2>1, <2>2, <2>3, <3>2, <4>1 DEF Acked, FromItsRunner
      <4>3. QED
        BY <4>2 DEF RowStep
    <3>3. QED
      BY <3>1, <3>2
  <2>4. \A b \in BrokerState : a(b) \in BrokerState /\ a(b).session = b.session
    BY <2>1, AcknowledgeFromRunnerType, AcknowledgeFromRunnerFrame DEF SameSession
  <2> HIDE DEF a
  <2>5. CASE UNCHANGED <<broker, disk>>
    BY <1>2, <2>2, <2>5
  <2>6. CASE broker' = a(broker)
    BY <1>0, <2>3, <2>4, <2>6
  <2>7. ASSUME NEW w \in ToRestore, broker' = RecordRunnerActivity(a(Restored(w)), Owner[s])
        PROVE  RowStep(c)
    <3>1. Restored(w) \in BrokerState /\ Restored(w).cmd = broker.cmd
      BY <1>0, RestoredType, RestoredFrame
    <3>2. broker'.cmd = a(Restored(w)).cmd
          /\ broker'.session.runner = Restored(w).session.runner
      BY <2>4, <2>7, <3>1, RecordRunnerActivityFrame
    <3>3. QED
      BY <2>3, <3>1, <3>2
  <2>8. QED
    BY <1>0, <1>19, <2>5, <2>6, <2>7, AckEffect DEF a
<1>20. ASSUME NEW s \in Sockets, WebSocketResult(s) PROVE RowStep(c)
  <2> DEFINE d       == Head(inbox[s]).cmd
             outcome == Head(inbox[s]).outcome
             a(b)    == ApplyRunnerResult(b, d, Owner[s], outcome)
             e(b)    == RecordRunnerActivity(a(b), Owner[s])
  <2>1. d \in Commands /\ outcome \in Outcomes /\ broker.cmd[d].runner = Owner[s]
    BY <1>0, <1>20, HeadType, HeadSound DEF WebSocketResult
  <2>2. sending = None /\ sending' = None
    BY <1>20 DEF WebSocketResult, Enter
  <2>3. \A b \in BrokerState : a(b) \in BrokerState /\ a(b).session = b.session
    BY <2>1, ApplyRunnerResultType, ApplyRunnerResultFrame DEF SameSession
  <2>4. ASSUME NEW b \in BrokerState, ~Accepts(b, d, Owner[s]) \/ Settled(b.cmd[d])
        PROVE  a(b) = b
    BY <2>4, ApplyNothing
  <2>5. ASSUME NEW b \in BrokerState, Accepts(b, d, Owner[s]), ~Settled(b.cmd[d])
        PROVE  /\ a(b).cmd[d] \in CompletedRows(b.cmd[d])
               /\ \A x \in Commands \ {d} : a(b).cmd[x] = b.cmd[x]
    BY <2>1, <2>5, ApplyCompletes
  <2> HIDE DEF a
  <2>6. ASSUME NEW b \in BrokerState, b.cmd = broker.cmd, broker'.cmd = a(b).cmd,
               broker'.session.runner = b.session.runner,
               UNCHANGED <<pending, request>>, pending[d] = None \/ ~Live(broker)
        PROVE  RowStep(c)
    <3>1. CASE ~Accepts(b, d, Owner[s]) \/ Settled(b.cmd[d])
      <4>1. broker'.cmd = broker.cmd
        BY <2>4, <2>6, <3>1
      <4>2. QED
        BY <1>1, <2>2, <2>6, <4>1
    <3>2. CASE Accepts(b, d, Owner[s]) /\ ~Settled(b.cmd[d]) /\ c = d
      <4>1. /\ broker'.cmd[c] \in CompletedRows(broker.cmd[c])
            /\ broker.cmd[c].state # "absent" /\ ~Settled(broker.cmd[c])
            /\ broker.cmd[c].runner = broker'.session.runner
        BY <2>1, <2>5, <2>6, <3>2 DEF Accepts, FromItsRunner
      <4>2. Completed(c)
        BY <2>2, <2>6, <3>2, <4>1 DEF Completed
      <4>3. QED
        BY <4>2 DEF RowStep
    <3>3. CASE Accepts(b, d, Owner[s]) /\ ~Settled(b.cmd[d]) /\ c # d
      <4>1. broker'.cmd[c] = broker.cmd[c]
        BY <2>5, <2>6, <3>3
      <4>2. Untouched(c)
        BY <1>0, <2>2, <2>6, <4>1 DEF Untouched
      <4>3. QED
        BY <4>2 DEF RowStep
    <3>4. QED
      BY <3>1, <3>2, <3>3
  <2>7. CASE UNCHANGED <<broker, disk, pending, request>>
    BY <1>2, <2>2, <2>7
  <2>8. CASE /\ ~Live(broker)
             /\ broker' = a(broker)
             /\ UNCHANGED <<disk, pending, request>>
    BY <1>0, <2>3, <2>6, <2>8
  <2>9. ASSUME NEW w \in ToRestore
        PROVE  Restored(w) \in BrokerState /\ Restored(w).cmd = broker.cmd
    BY <1>0, RestoredType, RestoredFrame
  <2>10. ASSUME NEW b \in BrokerState
         PROVE  /\ e(b) \in BrokerState
                /\ e(b).cmd = a(b).cmd
                /\ e(b).session.runner = b.session.runner
    BY <2>3, RecordRunnerActivityType, RecordRunnerActivityFrame
  <2> HIDE DEF e
  <2>11. ASSUME NEW w \in ToRestore, pending[d] = None, broker' = e(Restored(w)),
                UNCHANGED <<pending, request>>
         PROVE  RowStep(c)
    BY <2>6, <2>9, <2>10, <2>11
  <2>12. ASSUME NEW w \in ToRestore, Live(broker), pending[d] # None,
                SettlePending(e(Restored(w)), d, Accepts(Restored(w), d, Owner[s]), outcome)
         PROVE  RowStep(c)
    <3> DEFINE b == Restored(w)
    <3>1. b \in BrokerState /\ b.cmd = broker.cmd
      BY <2>9
    <3>2. broker.cmd[d].state # "absent" /\ ~Settled(broker.cmd[d])
      BY <2>1, <2>12 DEF WaitsInv, InFlight, Settled
    <3>3. /\ broker' = IF Accepts(b, d, Owner[s]) THEN ResumeCreateCommand(e(b), d, outcome)
                       ELSE RejectAll(e(b), {d})
          /\ PersistState /\ AnswerAll({d})
          /\ pending' = [pending EXCEPT ![d] = None]
      BY <2>12 DEF SettlePending
    <3>4. e(b) \in BrokerState /\ e(b).cmd = a(b).cmd /\ e(b).session.runner = b.session.runner
      BY <2>10, <3>1
    <3> HIDE DEF b
    <3>5. CASE ~Accepts(b, d, Owner[s])
      <4>1. e(b).cmd = broker.cmd
        BY <2>4, <3>1, <3>4, <3>5
      <4>2. \A x \in Commands : pending'[x] = IF x \in {d} THEN None ELSE pending[x]
        BY <1>0, <3>3 DEF TypeOK
      <4>3. \A x \in Commands : x # None
        BY NoneAssumption
      <4>4. QED
        BY <1>3, <2>2, <2>12, <3>3, <3>4, <3>5, <4>1, <4>2, <4>3
    <3>6. CASE Accepts(b, d, Owner[s])
      <4>1. /\ a(b).cmd[d] \in CompletedRows(b.cmd[d])
            /\ \A x \in Commands \ {d} : a(b).cmd[x] = b.cmd[x]
        BY <2>5, <3>1, <3>2, <3>6
      <4>2. /\ Settled(a(b).cmd[d]) /\ a(b).cmd[d].state # "absent"
            /\ a(b).cmd[d].runner = Owner[s]
        BY <2>1, <3>1, <4>1, CompletedRowSettled DEF BrokerState
      <4>3. b.session.runner = Owner[s]
        BY <3>6 DEF Accepts, FromItsRunner
      <4>4. broker' = e(b)
        <5>1. broker' = ResumeCreateCommand(e(b), d, outcome)
          BY <3>3, <3>6
        <5>2. /\ Settled(e(b).cmd[d]) /\ e(b).cmd[d].state # "absent"
              /\ e(b).cmd[d].runner = e(b).session.runner
          BY <3>4, <4>2, <4>3
        <5>3. ResumeCreateCommand(e(b), d, outcome) = e(b)
          BY <5>2, ResumeSettled
        <5>4. QED
          BY <5>1, <5>3
      <4>5. CASE c = d
        <5>1. /\ broker'.cmd[c] \in CompletedRows(broker.cmd[c])
              /\ broker.cmd[c].runner = broker'.session.runner
          BY <2>1, <3>1, <3>4, <4>1, <4>3, <4>4, <4>5
        <5>2. request'[c] = broker'.cmd[c].state /\ pending'[c] = None
          BY <1>0, <3>3, <4>5 DEF AnswerAll, TypeOK
        <5>3. Completed(c)
          BY <2>2, <2>12, <3>2, <3>3, <4>5, <5>1, <5>2 DEF Completed
        <5>4. QED
          BY <5>3 DEF RowStep
      <4>6. CASE c # d
        <5>1. broker'.cmd[c] = broker.cmd[c]
          BY <3>1, <3>4, <4>1, <4>4, <4>6
        <5>2. request'[c] = request[c] /\ pending'[c] = pending[c]
          BY <1>0, <3>3, <4>6 DEF AnswerAll, TypeOK
        <5>3. Untouched(c)
          BY <1>0, <2>2, <5>1, <5>2 DEF Untouched
        <5>4. QED
          BY <5>3 DEF RowStep
      <4>7. QED
        BY <4>5, <4>6
    <3>7. QED
      BY <3>5, <3>6
  <2>13. QED
    BY <1>0, <1>20, <2>7, <2>8, <2>11, <2>12, ResultEffect DEF a, e
<1>21. QED
  BY <1>4, <1>5, <1>6, <1>7, <1>9, <1>10, <1>11, <1>12, <1>13, <1>14, <1>15, <1>16, <1>17,
     <1>18, <1>19, <1>20 DEF Next

-----------------------------------------------------------------------------
(* The parts of the invariant that speak of rows.                           *)

\* The rows a sound row can move to are sound.
LEMMA RowSoundMoves ==
  ASSUME NEW p \in CommandRow, RowSound(p)
  PROVE  /\ p.state \in {"sent_to_runner", "runner_acknowledged"} => RowSound(AcknowledgedRow(p))
         /\ p.runner # None => RowSound(UnknownRow(p))
         /\ \A q \in CompletedRows(p) : RowSound(q)
<1>1. p.state \in {"sent_to_runner", "runner_acknowledged"} => RowSound(AcknowledgedRow(p))
  BY DEF RowSound, AcknowledgedRow, CommandRow, Settled, Final
<1>2. p.runner # None => RowSound(UnknownRow(p))
  BY DEF RowSound, UnknownRow, CommandRow
<1>3. ASSUME NEW q \in CompletedRows(p) PROVE RowSound(q)
  BY CompletedRowSettled DEF RowSound
<1>4. QED
  BY <1>1, <1>2, <1>3

\* An undecided row of the current instance can run ahead of storage.
LEMMA AheadMoves ==
  ASSUME NEW p \in CommandRow, NEW q \in CommandRow, NEW r, Ahead(p, q, r), RowSound(q),
         q.runner = r
  PROVE  /\ q.state \in {"sent_to_runner", "runner_acknowledged"} => Ahead(p, AcknowledgedRow(q), r)
         /\ q.state # "absent" /\ ~Settled(q) => \A x \in CompletedRows(q) : Ahead(p, x, r)
<1>1. ASSUME q.state \in {"sent_to_runner", "runner_acknowledged"}
      PROVE  Ahead(p, AcknowledgedRow(q), r)
  <2>1. CASE q.state = "runner_acknowledged"
    <3>1. AcknowledgedRow(q) = q
      BY <2>1 DEF AcknowledgedRow, CommandRow
    <3>2. QED
      BY <3>1
  <2>2. CASE q.state = "sent_to_runner"
    <3>1. q = p
      BY <2>2 DEF Ahead
    <3>2. AcknowledgedRow(q).state = "runner_acknowledged" /\ AcknowledgedRow(q).runner = r
      BY DEF AcknowledgedRow, CommandRow
    <3>3. QED
      BY <2>2, <3>1, <3>2 DEF Ahead
  <2>3. QED
    BY <1>1, <2>1, <2>2
<1>2. ASSUME q.state # "absent", ~Settled(q), NEW x \in CompletedRows(q)
      PROVE  Ahead(p, x, r)
  <2>1. Settled(x) /\ x.state \in {"succeeded", "failed"} /\ x.runner = r
    BY <1>2, CompletedRowSettled
  <2>2. q.state \in {"sent_to_runner", "runner_acknowledged", "unknown"}
    BY <1>2 DEF RowSound, Settled, Final, CommandRow, CommandStates
  <2>3. p.state \in {"sent_to_runner", "runner_acknowledged", "unknown"} /\ p.runner = r
    BY <2>2, <1>2 DEF Ahead
  <2>4. QED
    BY <2>1, <2>3 DEF Ahead
<1>3. QED
  BY <1>1, <1>2

\* RowsInv is inductive.
LEMMA RowsInvNext ==
  ASSUME Basis, SessionsAgree, RowsInv, WaitsInv, InboxInv, [Next]_vars
  PROVE  RowsInv'
<1>0. TypeOK
  BY DEF Basis
<1> SUFFICES ASSUME NEW c \in Commands
             PROVE  /\ RowSound(broker'.cmd[c])
                    /\ RowSound(disk'.cmd[c])
                    /\ Ahead(disk'.cmd[c], broker'.cmd[c], broker'.session.runner)
  BY DEF RowsInv, RowSound, Settled, Final, Ahead
<1> DEFINE p == disk.cmd[c]
           q == broker.cmd[c]
<1>1. RowSound(p) /\ RowSound(q) /\ Ahead(p, q, broker.session.runner)
  BY DEF RowsInv
<1>2. p \in CommandRow /\ q \in CommandRow
  BY <1>0 DEF TypeOK, BrokerState, StoredRows
<1>3. CASE Restart
  <2>1. broker'.cmd[c] = p /\ disk'.cmd[c] = p
    BY <1>3 DEF Restart
  <2>2. QED
    BY <1>1, <2>1 DEF Ahead
<1>4. CASE ~Restart
  <2>1. RowStep(c) /\ StorageStep
    BY <1>0, <1>4, StepsOfRow, StepsOfSession
  <2>2. RowSound(broker'.cmd[c])
    <3>1. CASE Untouched(c) \/ PutOnWire(c)
      BY <1>1, <3>1 DEF Untouched, PutOnWire
    <3>2. CASE Refused(c)
      BY <3>2 DEF Refused, RowSound, Settled, Final
    <3>3. CASE Dispatched(c)
      BY <3>3 DEF Dispatched, RowSound
    <3>4. CASE Acked(c) \/ Completed(c)
      BY <1>1, <1>2, <3>4, RowSoundMoves DEF Acked, Completed
    <3>5. CASE GivenUp(c)
      <4>1. q.runner # None
        BY <1>0, <3>5, OwnerAssumption, NoneAssumption
           DEF GivenUp, WaitsInv, TypeOK, BrokerState
      <4>2. QED
        BY <1>1, <1>2, <3>5, <4>1, RowSoundMoves DEF GivenUp
    <3>6. QED
      BY <2>1, <3>1, <3>2, <3>3, <3>4, <3>5 DEF RowStep
  <2>3. CASE PersistState
    BY <2>2, <2>3 DEF PersistState, Rows, Ahead
  <2>4. CASE ~PersistState
    <3>1. disk'.cmd[c] = p /\ broker'.session.runner = broker.session.runner
      BY <2>1, <2>4 DEF StorageStep
    <3>2. Ahead(p, broker'.cmd[c], broker'.session.runner)
      <4>1. CASE Untouched(c) \/ PutOnWire(c)
        BY <1>1, <3>1, <4>1 DEF Untouched, PutOnWire
      <4>2. CASE Acked(c) \/ Completed(c)
        BY <1>1, <1>2, <3>1, <4>2, AheadMoves DEF Acked, Completed
      <4>3. QED
        BY <2>1, <2>4, <4>1, <4>2 DEF RowStep, Refused, Dispatched, GivenUp
    <3>3. QED
      BY <1>1, <2>2, <3>1, <3>2
  <2>5. QED
    BY <2>3, <2>4
<1>5. QED
  BY <1>3, <1>4

\* WaitsInv is inductive.
LEMMA WaitsInvNext ==
  ASSUME Basis, SessionsAgree, RowsInv, WaitsInv, InboxInv, [Next]_vars
  PROVE  WaitsInv'
<1>0. TypeOK /\ TypeOK'
  BY NextType DEF Basis
<1> DEFINE Waits(c) ==
             /\ request'[c] = "waiting" <=> (pending'[c] # None \/ sending' = c)
             /\ pending'[c] # None => /\ broker'.cmd[c].state # "absent"
                                      /\ broker'.cmd[c].runner = Owner[pending'[c]]
                                      /\ Live(broker)' => InFlight(c)'
             /\ sending' = c => /\ pending'[c] = None
                                /\ broker'.handler # None
                                /\ broker'.cmd[c].state = "sent_to_runner"
                                /\ broker'.cmd[c].runner = Owner[broker'.handler]
<1> SUFFICES ASSUME NEW c \in Commands PROVE Waits(c)
  BY DEF WaitsInv
<1>1. /\ request[c] = "waiting" <=> (pending[c] # None \/ sending = c)
      /\ pending[c] # None => /\ broker.cmd[c].state # "absent"
                              /\ broker.cmd[c].runner = Owner[pending[c]]
                              /\ Live(broker) => InFlight(c)
      /\ sending = c => /\ pending[c] = None
                        /\ broker.handler # None
                        /\ broker.cmd[c].state = "sent_to_runner"
                        /\ broker.cmd[c].runner = Owner[broker.handler]
  BY DEF WaitsInv
<1>2. /\ broker.cmd[c] \in CommandRow /\ broker'.cmd[c] \in CommandRow
      /\ c # None
      /\ c \in DOMAIN request /\ c \in DOMAIN pending
  BY <1>0, NoneAssumption DEF TypeOK, BrokerState
<1>3. CASE Restart
  BY <1>2, <1>3 DEF Restart
<1>4. CASE ~Restart
  <2>1. RowStep(c) /\ SessionStep
    BY <1>0, <1>4, StepsOfRow, StepsOfSession
  <2>2. CASE Untouched(c)
    <3>1. Live(broker)' /\ pending[c] # None => InFlight(c)'
      BY <1>1, <2>1, <2>2 DEF Untouched, SessionStep, InFlight, Final
    <3>2. QED
      BY <1>1, <2>2, <3>1 DEF Untouched
  <2>3. CASE Refused(c)
    BY <1>1, <1>2, <2>3 DEF Refused
  <2>4. CASE Dispatched(c)
    BY <1>1, <1>2, <2>4 DEF Dispatched
  <2>5. CASE PutOnWire(c)
    BY <1>1, <1>2, <2>5 DEF PutOnWire, InFlight, Final
  <2>6. CASE Acked(c)
    BY <1>1, <1>2, <2>6 DEF Acked, AcknowledgedRow, CommandRow, InFlight, Final
  <2>7. CASE Completed(c)
    <3>1. broker'.cmd[c].state \in {"succeeded", "failed"}
          /\ broker'.cmd[c].runner = broker.cmd[c].runner
      BY <1>2, <2>7, CompletedRowSettled DEF Completed
    <3>2. CASE pending'[c] = None
      BY <1>1, <1>2, <2>7, <3>1, <3>2 DEF Completed
    <3>3. CASE pending'[c] # None
      BY <1>1, <1>2, <2>1, <2>7, <3>1, <3>3 DEF Completed, SessionStep
    <3>4. QED
      BY <3>2, <3>3
  <2>8. CASE GivenUp(c)
    BY <1>2, <2>8 DEF GivenUp
  <2>9. QED
    BY <2>1, <2>2, <2>3, <2>4, <2>5, <2>6, <2>7, <2>8 DEF RowStep
<1>5. QED
  BY <1>3, <1>4

\* AnswersInv is inductive.
LEMMA AnswersInvNext ==
  ASSUME Basis, SessionsAgree, RowsInv, WaitsInv, AnswersInv, InboxInv, [Next]_vars
  PROVE  AnswersInv'
<1>0. TypeOK /\ TypeOK'
  BY NextType DEF Basis
<1> SUFFICES ASSUME NEW c \in Commands
             PROVE  Answered(request'[c], broker'.cmd[c]) /\ Answered(request'[c], disk'.cmd[c])
  BY DEF AnswersInv, Answered, Settled, Final
<1>1. Answered(request[c], broker.cmd[c]) /\ Answered(request[c], disk.cmd[c])
  BY DEF AnswersInv
<1>2. /\ broker.cmd[c] \in CommandRow /\ broker'.cmd[c] \in CommandRow
      /\ c \in DOMAIN request
  BY <1>0 DEF TypeOK, BrokerState
<1>3. CASE Restart
  <2>1. request'[c] \in {"lost", request[c]} /\ broker'.cmd[c] = disk.cmd[c] /\ disk' = disk
    BY <1>3 DEF Restart
  <2>2. QED
    BY <1>1, <2>1 DEF Answered
<1>4. CASE ~Restart
  <2>1. RowStep(c) /\ StorageStep
    BY <1>0, <1>4, StepsOfRow, StepsOfSession
  <2>2. Answered(request'[c], broker'.cmd[c])
    <3>1. CASE Untouched(c) \/ PutOnWire(c)
      BY <1>1, <3>1 DEF Untouched, PutOnWire
    <3>2. CASE Refused(c)
      BY <1>2, <3>2 DEF Refused, Answered, Settled, Final
    <3>3. CASE Dispatched(c)
      BY <1>2, <3>3 DEF Dispatched, Answered
    <3>4. CASE Acked(c)
      BY <1>1, <1>2, <3>4 DEF Acked, Answered, Settled, Final
    <3>5. CASE Completed(c)
      <4>1. Settled(broker'.cmd[c]) /\ broker'.cmd[c].state \in {"succeeded", "failed"}
        BY <1>2, <3>5, CompletedRowSettled DEF Completed
      <4>2. request'[c] \in {request[c], broker'.cmd[c].state}
        BY <3>5 DEF Completed
      <4>3. ~Settled(broker.cmd[c])
        BY <3>5 DEF Completed
      <4>4. QED
        BY <1>1, <4>1, <4>2, <4>3 DEF Answered, Settled
    <3>6. CASE GivenUp(c)
      BY <1>2, <3>6 DEF GivenUp, Answered, UnknownRow, CommandRow, Final
    <3>7. QED
      BY <2>1, <3>1, <3>2, <3>3, <3>4, <3>5, <3>6 DEF RowStep
  <2>3. CASE PersistState
    BY <2>2, <2>3 DEF PersistState, Rows
  <2>4. CASE ~PersistState
    <3>1. disk'.cmd[c] = disk.cmd[c]
      BY <2>1, <2>4 DEF StorageStep
    <3>2. request'[c] = request[c]
      BY <2>1, <2>4 DEF RowStep, Untouched, Refused, Dispatched, PutOnWire, Acked, Completed,
                        GivenUp
    <3>3. QED
      BY <1>1, <2>2, <3>1, <3>2
  <2>5. QED
    BY <2>3, <2>4
<1>5. QED
  BY <1>3, <1>4

-----------------------------------------------------------------------------
(* The parts of the invariant that speak of the runner.                     *)

\* A row in storage keeps the instance it names.
LEMMA RunnerStays ==
  ASSUME Basis, SessionsAgree, RowsInv, WaitsInv, InboxInv, [Next]_vars,
         NEW c \in Commands, disk.cmd[c].runner # None
  PROVE  disk'.cmd[c].runner = disk.cmd[c].runner
<1>0. TypeOK
  BY DEF Basis
<1>1. /\ RowSound(broker.cmd[c])
      /\ broker.cmd[c].runner = disk.cmd[c].runner
      /\ broker.cmd[c] \in CommandRow
  BY <1>0, SameRunner DEF RowsInv, TypeOK, BrokerState
<1>2. CASE Restart
  BY <1>2 DEF Restart
<1>3. CASE ~Restart
  <2>1. RowStep(c) /\ StorageStep
    BY <1>0, <1>3, StepsOfRow, StepsOfSession
  <2>2. broker'.cmd[c].runner = broker.cmd[c].runner
    <3>1. CASE Untouched(c) \/ PutOnWire(c)
      BY <3>1 DEF Untouched, PutOnWire
    <3>2. CASE Refused(c) \/ Dispatched(c)
      BY <1>1, <3>2 DEF Refused, Dispatched, RowSound
    <3>3. CASE Acked(c) \/ GivenUp(c)
      BY <1>1, <3>3 DEF Acked, GivenUp, AcknowledgedRow, UnknownRow, CommandRow
    <3>4. CASE Completed(c)
      BY <1>1, <3>4, CompletedRowSettled DEF Completed
    <3>5. QED
      BY <2>1, <3>1, <3>2, <3>3, <3>4 DEF RowStep
  <2>3. QED
    BY <1>1, <2>1, <2>2 DEF StorageStep, PersistState, Rows
<1>4. QED
  BY <1>2, <1>3

\* A process belongs to one instance and ends once.
ProcessStays(j) ==
  process[j] # NoProcess =>
    /\ process'[j].runner = process[j].runner
    /\ process[j].status \in {"exited", "interrupted"} => process'[j].status = process[j].status

\* Processes exist under an instance.
LEMMA ProcessType ==
  ASSUME TypeOK, NEW j \in Commands
  PROVE  /\ process[j] # NoProcess <=> process[j].runner # None
         /\ process[j].status \in {"running", "stopping", "exited", "interrupted"}
              => process[j] # NoProcess
<1>1. process[j] \in Processes
  BY DEF TypeOK
<1>2. QED
  BY <1>1, NoneAssumption DEF Processes, NoProcess

\* What was true of a job in a message stays true.
LEMMA MessageStaysSound ==
  ASSUME TypeOK, \A j \in Commands : ProcessStays(j), NEW m \in Messages, NEW r \in Runners,
         MessageSound(m, r, process)
  PROVE  MessageSound(m, r, process')
<1> SUFFICES ASSUME m.kind = "result", m.outcome.job # None
             PROVE  /\ process'[m.outcome.job].runner = r
                    /\ m.outcome.status # "unknown_lost"
                    /\ m.outcome.status \in {"exited", "interrupted"} =>
                         process'[m.outcome.job].status = m.outcome.status
  BY DEF MessageSound
<1> DEFINE j == m.outcome.job
<1>1. j \in Commands
  BY DEF Messages, Outcomes
<1>2. /\ process[j].runner = r
      /\ m.outcome.status # "unknown_lost"
      /\ m.outcome.status \in {"exited", "interrupted"} => process[j].status = m.outcome.status
  BY DEF MessageSound
<1>3. process[j] # NoProcess /\ ProcessStays(j)
  BY <1>1, <1>2, ProcessType, NoneAssumption
<1> HIDE DEF j
<1>4. QED
  BY <1>2, <1>3 DEF ProcessStays, j

\* So does what a job row says, whoever the current instance is.
LEMMA JobsStayFiled ==
  ASSUME TypeOK, \A j \in Commands : ProcessStays(j), NEW jobs, NEW r,
         JobsFiled(jobs, r, process)
  PROVE  JobsFiled(jobs, r, process')
<1> SUFFICES ASSUME NEW j \in Commands, jobs[j].status # "absent"
             PROVE  /\ jobs[j].runner = process'[j].runner
                    /\ jobs[j].status \in {"exited", "interrupted"} =>
                         process'[j].status = jobs[j].status
  BY DEF JobsFiled
<1>1. /\ jobs[j].runner # None /\ jobs[j].runner = process[j].runner
      /\ jobs[j].status \in {"exited", "interrupted"} => process[j].status = jobs[j].status
  BY DEF JobsFiled
<1>2. process[j] # NoProcess
  BY <1>1, ProcessType
<1>3. QED
  BY <1>1, <1>2 DEF ProcessStays

\* What the runner's answer says of a job is true of the process it leaves;
\* the only process it creates is the command's own.
LEMMA FinishEffect ==
  ASSUME TypeOK, TasksInv, NEW s \in Sockets, NEW c \in Commands, RunnerFinishes(s, c)
  PROVE  /\ \E o \in Outcomes :
              /\ inbox' = [inbox EXCEPT ![s] =
                             Append(@, [kind |-> "result", cmd |-> c, outcome |-> o])]
              /\ MessageSound([kind |-> "result", cmd |-> c, outcome |-> o], Owner[s], process')
         /\ \A j \in Commands :
              /\ ProcessStays(j)
              /\ process'[j] # NoProcess => process[j] # NoProcess \/ j = c
<1>1. PICK o \in RunnerOutcomes(Owner[s], c) :
        /\ inbox' = [inbox EXCEPT ![s] =
                       Append(@, [kind |-> "result", cmd |-> c, outcome |-> o])]
        /\ process' = IF o.ok /\ Type[c] \in {"start_job", "interrupt_job"}
                      THEN [process EXCEPT ![o.job] = ProcessAfter(c, o, Owner[s])]
                      ELSE process
  BY DEF RunnerFinishes
<1>2. /\ o \in Outcomes
      /\ o.job # None => o.status \in {"running", "exited", "interrupted"}
      /\ Owner[s] \in Runners /\ Owner[s] # None
  BY RunnerOutcomesType, OwnerAssumption, NoneAssumption
<1>3. process[c] = NoProcess
  BY DEF RunnerFinishes, TasksInv
<1> DEFINE Sound == o.job # None => /\ process'[o.job].runner = Owner[s]
                                    /\ o.status \in {"exited", "interrupted"} =>
                                         process'[o.job].status = o.status
           Kept  == \A j \in Commands :
                      /\ ProcessStays(j)
                      /\ process'[j] # NoProcess => process[j] # NoProcess \/ j = c
<1>4. \A j \in JobsOf(Owner[s]) : /\ j \in Commands /\ process[j].runner = Owner[s]
                                  /\ process[j] # NoProcess
  BY <1>2, ProcessType DEF JobsOf
<1>5. ASSUME o.job = None PROVE Sound /\ Kept
  <2>1. process' = process
    BY <1>1, <1>5, JobOutcomesNameJobs
  <2>2. Kept
    BY <2>1 DEF ProcessStays
  <2>3. QED
    BY <1>5, <2>2
<1>6. ASSUME o.job # None PROVE Sound /\ Kept
  <2>1. \/ Type[c] = "start_job" /\ o = Report(c, "running")
        \/ /\ Type[c] # "start_job" /\ o.job \in JobsOf(Owner[s])
           /\ o = Report(o.job, Reported(o.job))
        \/ /\ Type[c] = "interrupt_job" /\ o.job \in JobsOf(Owner[s]) /\ Running(o.job)
           /\ o = Report(o.job, "interrupted")
    BY <1>6, TypeAssumption DEF RunnerOutcomes, Failure, Report, CommandTypes
  <2>2. o.ok = TRUE
    BY <2>1 DEF Report
  <2>3. ASSUME Type[c] = "start_job", o = Report(c, "running") PROVE Sound /\ Kept
    <3>1. o.job = c /\ o.status = "running"
      BY <2>3 DEF Report
    <3>2. process' = [process EXCEPT ![c] = [status |-> "running", runner |-> Owner[s]]]
      BY <1>1, <2>2, <2>3, <3>1 DEF ProcessAfter
    <3>3. QED
      BY <1>3, <3>1, <3>2 DEF TypeOK, ProcessStays
  <2>4. ASSUME Type[c] # "start_job", o.job \in JobsOf(Owner[s]) PROVE Sound /\ Kept
    <3> DEFINE k == o.job
    <3>1. k \in Commands /\ process[k].runner = Owner[s] /\ process[k] # NoProcess
      BY <1>4, <2>4
    <3>2. ASSUME Type[c] # "interrupt_job" PROVE Sound /\ Kept
      <4>1. process' = process
        BY <1>1, <2>4, <3>2
      <4>2. o = Report(k, Reported(k))
        BY <2>1, <2>4, <3>2
      <4>3. o.status \in {"exited", "interrupted"} => process[k].status = o.status
        BY <4>2 DEF Report, Reported
      <4>4. QED
        BY <3>1, <4>1, <4>3 DEF ProcessStays
    <3>3. ASSUME Type[c] = "interrupt_job" PROVE Sound /\ Kept
      <4> DEFINE st == IF o.status = "running" THEN "stopping" ELSE o.status
      <4>1. process' = [process EXCEPT ![k] = [status |-> st, runner |-> Owner[s]]]
        BY <1>1, <2>2, <3>3 DEF ProcessAfter
      <4>2. process'[k] = [status |-> st, runner |-> Owner[s]]
            /\ \A j \in Commands : j # k => process'[j] = process[j]
        BY <3>1, <4>1 DEF TypeOK
      <4>3. process[k].status \in {"exited", "interrupted"} => o.status = process[k].status
        <5>1. CASE Running(k)
          BY <5>1 DEF Running
        <5>2. CASE ~Running(k)
          <6>1. o = Report(k, Reported(k)) /\ Reported(k) = process[k].status
            BY <2>1, <3>3, <5>2 DEF Reported
          <6>2. QED
            BY <6>1 DEF Report
        <5>3. QED
          BY <5>1, <5>2
      <4>4. Sound
        BY <4>2
      <4>5. Kept
        BY <3>1, <4>2, <4>3 DEF ProcessStays
      <4>6. QED
        BY <4>4, <4>5
    <3>4. QED
      BY <3>2, <3>3
  <2>5. QED
    BY <2>1, <2>3, <2>4
<1>7. Sound /\ Kept
  BY <1>5, <1>6
<1>8. MessageSound([kind |-> "result", cmd |-> c, outcome |-> o], Owner[s], process')
  BY <1>2, <1>7 DEF MessageSound
<1> HIDE DEF Sound
<1>9. QED
  BY <1>1, <1>2, <1>7, <1>8

\* No step but a runner's touches the processes, and none breaks ProcessStays.
LEMMA ProcessesStay ==
  ASSUME TypeOK, TasksInv, [Next]_vars
  PROVE  \A j \in Commands : ProcessStays(j)
<1>1. ASSUME process' = process PROVE \A j \in Commands : ProcessStays(j)
  BY <1>1 DEF ProcessStays
<1>2. ASSUME NEW c \in Commands,
             CreateCommandRequest(c) \/ SendCommandToRunnerSocket(c) \/ DeadlinePasses(c)
      PROVE  process' = process
  BY <1>2 DEF CreateCommandRequest, SendCommandToRunnerSocket, DeadlinePasses, runner
<1>3. ASSUME NEW s \in Sockets,
             \/ AcceptRunnerWebSocket(s) \/ WebSocketHeartbeat(s) \/ WebSocketAck(s)
             \/ WebSocketResult(s) \/ WebSocketClose(s) \/ RunnerLeaves(s)
      PROVE  process' = process
  BY <1>3 DEF AcceptRunnerWebSocket, WebSocketHeartbeat, WebSocketAck, WebSocketResult,
              WebSocketClose, RunnerLeaves, runner
<1>4. CASE \/ Query \/ RejectedEntry \/ RefusedRequest \/ RevokeRequest \/ HeartbeatGoesStale
           \/ SessionExpires \/ Restart \/ UNCHANGED vars
  BY <1>1, <1>4 DEF Query, RejectedEntry, RefusedRequest, RevokeRequest,
                    HeartbeatGoesStale, SessionExpires,
                    TimePasses, Restart, vars, runner
<1>5. ASSUME NEW s \in Sockets, NEW c \in Commands, RunnerReceives(s, c) \/ RunnerFinishes(s, c)
      PROVE  \A j \in Commands : ProcessStays(j)
  BY <1>1, <1>5, FinishEffect DEF RunnerReceives
<1>6. ASSUME NEW j \in Commands, JobExits(j) PROVE \A k \in Commands : ProcessStays(k)
  <2>1. process[j].status \in {"running", "stopping"}
    BY <1>6 DEF JobExits, Running
  <2>2. process'[j].runner = process[j].runner
        /\ \A k \in Commands : k # j => process'[k] = process[k]
    <3>1. process[j] \in [status : {"running", "stopping"}, runner : Runners]
      BY <2>1 DEF TypeOK, Processes, NoProcess
    <3>2. QED
      BY <1>6, <3>1 DEF JobExits, TypeOK
  <2>3. QED
    BY <2>1, <2>2 DEF ProcessStays
<1>7. QED
  BY <1>1, <1>2, <1>3, <1>4, <1>5, <1>6 DEF Next

\* The steps that touch neither what the runner does nor what it did.
LEMMA RunnerUntouched ==
  ASSUME [Next]_vars
  PROVE  \/ UNCHANGED <<task, process, deliveries>>
         \/ \E c \in Commands : SendCommandToRunnerSocket(c) \/ JobExits(c)
         \/ \E s \in Sockets : RunnerLeaves(s)
         \/ \E s \in Sockets, c \in Commands : RunnerReceives(s, c) \/ RunnerFinishes(s, c)
<1>1. ASSUME NEW c \in Commands, CreateCommandRequest(c) \/ DeadlinePasses(c)
      PROVE  UNCHANGED <<task, process, deliveries>>
  BY <1>1 DEF CreateCommandRequest, DeadlinePasses, runner
<1>2. ASSUME NEW s \in Sockets,
             \/ AcceptRunnerWebSocket(s) \/ WebSocketHeartbeat(s) \/ WebSocketAck(s)
             \/ WebSocketResult(s) \/ WebSocketClose(s)
      PROVE  UNCHANGED <<task, process, deliveries>>
  BY <1>2 DEF AcceptRunnerWebSocket, WebSocketHeartbeat, WebSocketAck, WebSocketResult,
              WebSocketClose, runner
<1>3. CASE \/ Query \/ RejectedEntry \/ RefusedRequest \/ RevokeRequest \/ HeartbeatGoesStale
           \/ SessionExpires \/ Restart \/ UNCHANGED vars
  BY <1>3 DEF Query, RejectedEntry, RefusedRequest, RevokeRequest,
              HeartbeatGoesStale, SessionExpires,
              TimePasses, Restart, vars, runner
<1>4. QED
  BY <1>1, <1>2, <1>3 DEF Next

\* TasksInv is inductive: a command reaches one socket, of the instance its
\* row names, before it reaches any other and before its job exists.
LEMMA TasksInvNext ==
  ASSUME Basis, SessionsAgree, RowsInv, WaitsInv, TasksInv, InboxInv, [Next]_vars
  PROVE  TasksInv'
<1>0. TypeOK
  BY DEF Basis
<1> DEFINE At(s, c)  == task[s][c] # "none"
           Now(s, c) == task'[s][c] # "none"
<1>1. \A s \in Sockets : Owner[s] \in Runners /\ Owner[s] # None
  BY OwnerAssumption, NoneAssumption
<1>2. \A s \in Sockets, c \in Commands :
        disk.cmd[c].runner = Owner[s] => disk'.cmd[c].runner = Owner[s]
  BY <1>1, RunnerStays
<1>3. ASSUME \A s \in Sockets, c \in Commands : Now(s, c) => At(s, c) /\ process'[c] = process[c],
             \A c \in Commands : deliveries[c] # 0 => deliveries'[c] # 0,
             \A c \in Commands : process'[c] # NoProcess => process[c] # NoProcess
      PROVE  TasksInv'
  BY <1>2, <1>3 DEF TasksInv, NoProcess
<1>4. CASE UNCHANGED <<task, process, deliveries>>
  BY <1>3, <1>4
<1>5. ASSUME NEW c \in Commands, SendCommandToRunnerSocket(c) PROVE TasksInv'
  <2> DEFINE h == broker.handler
  <2>1. sending = c /\ process' = process
    BY <1>5 DEF SendCommandToRunnerSocket
  <2>2. CASE conn[h] \in {"closing", "closed"}
    BY <1>3, <1>5, <2>1, <2>2 DEF SendCommandToRunnerSocket
  <2>3. CASE conn[h] \notin {"closing", "closed"}
    <3>1. /\ deliveries' = [deliveries EXCEPT ![c] = @ + 1]
          /\ task' = task \/ task' = [task EXCEPT ![h] = [task[h] EXCEPT ![c] = "sent"]]
          /\ disk' = disk
      BY <1>5, <2>3 DEF SendCommandToRunnerSocket
    <3>2. /\ deliveries[c] = 0
          /\ h \in Sockets /\ disk.cmd[c].runner = Owner[h]
      <4>1. h # None /\ broker.cmd[c].runner = Owner[h] /\ deliveries[c] = 0
        BY <2>1 DEF WaitsInv, Basis, UndeliveredUntilSent
      <4>2. h \in Sockets
        BY <1>0, <4>1 DEF TypeOK, BrokerState
      <4>3. QED
        BY <4>1, <4>2, SameRunner
    <3>3. deliveries'[c] # 0 /\ \A d \in Commands \ {c} : deliveries'[d] = deliveries[d]
      BY <1>0, <3>1, <3>2 DEF TypeOK
    <3>4. \A t \in Sockets, d \in Commands : Now(t, d) => At(t, d) \/ (t = h /\ d = c)
      <4>1. task \in [Sockets -> [Commands -> {"none", "sent", "executing"}]]
        BY <1>0 DEF TypeOK
      <4>2. QED
        BY <3>1, <3>2, <4>1
    <3>5. process[c] = NoProcess /\ \A t \in Sockets : ~At(t, c)
      BY <3>2 DEF TasksInv
    <3> HIDE DEF h
    <3>6. ASSUME NEW t \in Sockets, NEW d \in Commands, Now(t, d)
          PROVE  /\ disk'.cmd[d].runner = Owner[t]
                 /\ deliveries'[d] # 0
                 /\ process'[d] = NoProcess
                 /\ \A u \in Sockets : Now(u, d) => u = t
      <4>1. CASE d = c
        BY <2>1, <3>1, <3>2, <3>3, <3>4, <3>5, <3>6, <4>1
      <4>2. CASE d # c
        <5>1. At(t, d)
          BY <3>4, <3>6, <4>2
        <5>2. \A u \in Sockets : Now(u, d) => At(u, d)
          BY <3>4, <4>2
        <5>3. QED
          BY <2>1, <3>1, <3>3, <4>2, <5>1, <5>2 DEF TasksInv
      <4>3. QED
        BY <4>1, <4>2
    <3>7. \A d \in Commands : process'[d] # NoProcess => deliveries'[d] # 0
      BY <2>1, <3>3 DEF TasksInv
    <3>8. QED
      BY <3>6, <3>7 DEF TasksInv, NoProcess
  <2>4. QED
    BY <2>2, <2>3
<1>6. ASSUME NEW j \in Commands, JobExits(j) PROVE TasksInv'
  <2>1. process[j] # NoProcess
    BY <1>6 DEF JobExits, Running, NoProcess
  <2>2. /\ UNCHANGED <<task, deliveries>>
        /\ \A c \in Commands : c # j => process'[c] = process[c]
    BY <1>6 DEF JobExits, TypeOK
  <2>3. \A s \in Sockets, c \in Commands : Now(s, c) => At(s, c) /\ c # j
    BY <2>1, <2>2 DEF TasksInv
  <2>4. QED
    BY <1>3, <2>1, <2>2, <2>3
<1>7. ASSUME NEW s \in Sockets, RunnerLeaves(s) PROVE TasksInv'
  <2>1. UNCHANGED <<process, deliveries>>
        /\ task' = [task EXCEPT ![s] = [c \in Commands |-> "none"]]
    BY <1>7 DEF RunnerLeaves
  <2>2. \A t \in Sockets, c \in Commands : Now(t, c) => At(t, c)
    BY <1>0, <2>1 DEF TypeOK
  <2>3. QED
    BY <1>3, <2>1, <2>2
<1>8. ASSUME NEW s \in Sockets, NEW c \in Commands, RunnerReceives(s, c) PROVE TasksInv'
  <2>1. /\ UNCHANGED <<process, deliveries>>
        /\ task[s][c] = "sent"
        /\ task' = [task EXCEPT ![s] = [task[s] EXCEPT ![c] = "executing"]]
    BY <1>8 DEF RunnerReceives
  <2>2. task \in [Sockets -> [Commands -> {"none", "sent", "executing"}]]
    BY <1>0 DEF TypeOK
  <2>3. \A t \in Sockets, d \in Commands : Now(t, d) => At(t, d)
    BY <2>1, <2>2
  <2>4. QED
    BY <1>3, <2>1, <2>3
<1>9. ASSUME NEW s \in Sockets, NEW c \in Commands, RunnerFinishes(s, c) PROVE TasksInv'
  <2>1. /\ deliveries' = deliveries
        /\ task[s][c] = "executing"
        /\ task' = [task EXCEPT ![s] = [task[s] EXCEPT ![c] = "none"]]
    BY <1>9 DEF RunnerFinishes
  <2>2. task \in [Sockets -> [Commands -> {"none", "sent", "executing"}]]
    BY <1>0 DEF TypeOK
  <2>3. \A t \in Sockets, d \in Commands : Now(t, d) => At(t, d) /\ ~(t = s /\ d = c)
    BY <2>1, <2>2
  <2>4. deliveries[c] # 0 /\ \A t \in Sockets : At(t, c) => t = s
    BY <2>1 DEF TasksInv
  <2>5. \A t \in Sockets, d \in Commands : Now(t, d) => At(t, d) /\ d # c
    BY <2>3, <2>4
  <2>6. \A j \in Commands : process'[j] # NoProcess => process[j] # NoProcess \/ j = c
    BY <1>0, <1>9, FinishEffect
  <2>7. \A t \in Sockets, d \in Commands : Now(t, d) =>
          /\ disk'.cmd[d].runner = Owner[t]
          /\ deliveries'[d] # 0
          /\ process'[d] = NoProcess
          /\ \A u \in Sockets : Now(u, d) => u = t
    BY <1>2, <2>1, <2>5, <2>6 DEF TasksInv
  <2>8. \A d \in Commands : process'[d] # NoProcess => deliveries'[d] # 0
    BY <2>1, <2>4, <2>6 DEF TasksInv
  <2>9. QED
    BY <2>7, <2>8 DEF TasksInv, NoProcess
<1>10. QED
  BY <1>4, <1>5, <1>6, <1>7, <1>8, <1>9, RunnerUntouched

\* What the tail of a sequence and an appended sequence hold.
LEMMA TailElements ==
  ASSUME NEW T, NEW q \in Seq(T), q # <<>>, NEW i \in DOMAIN Tail(q)
  PROVE  \E k \in DOMAIN q : Tail(q)[i] = q[k]
OBVIOUS

LEMMA AppendElements ==
  ASSUME NEW T, NEW q \in Seq(T), NEW m, NEW i \in DOMAIN Append(q, m)
  PROVE  Append(q, m)[i] = m \/ \E k \in DOMAIN q : Append(q, m)[i] = q[k]
OBVIOUS

\* InboxInv is inductive.
LEMMA InboxInvNext ==
  ASSUME Basis, SessionsAgree, RowsInv, WaitsInv, TasksInv, InboxInv, [Next]_vars
  PROVE  InboxInv'
<1>0. TypeOK /\ TypeOK'
  BY NextType DEF Basis
<1> DEFINE Good(m, s) == disk'.cmd[m.cmd].runner = Owner[s] /\ MessageSound(m, Owner[s], process')
<1>1. ASSUME NEW s \in Sockets, NEW i \in DOMAIN inbox[s] PROVE Good(inbox[s][i], s)
  <2>1. inbox[s][i] \in Messages /\ inbox[s][i].cmd \in Commands
    <3>1. inbox[s] \in Seq(Messages)
      BY <1>0 DEF TypeOK
    <3>2. inbox[s][i] \in Messages
      BY <3>1
    <3>3. QED
      BY <3>2 DEF Messages
  <2>2. Owner[s] \in Runners /\ Owner[s] # None
    BY OwnerAssumption, NoneAssumption
  <2>3. /\ disk.cmd[inbox[s][i].cmd].runner = Owner[s]
        /\ MessageSound(inbox[s][i], Owner[s], process)
    BY DEF InboxInv
  <2>4. \A j \in Commands : ProcessStays(j)
    BY <1>0, ProcessesStay
  <2>5. MessageSound(inbox[s][i], Owner[s], process')
    BY <1>0, <2>1, <2>2, <2>3, <2>4, MessageStaysSound
  <2>6. disk'.cmd[inbox[s][i].cmd].runner = Owner[s]
    BY <2>1, <2>2, <2>3, RunnerStays
  <2>7. QED
    BY <2>5, <2>6
<1> HIDE DEF Good
<1>2. ASSUME \A s \in Sockets : \A i \in DOMAIN inbox'[s] :
               \/ \E k \in DOMAIN inbox[s] : inbox'[s][i] = inbox[s][k]
               \/ Good(inbox'[s][i], s)
      PROVE  InboxInv'
  <2>1. \A s \in Sockets : \A i \in DOMAIN inbox'[s] : Good(inbox'[s][i], s)
    BY <1>1, <1>2
  <2>2. QED
    BY <2>1 DEF Good, InboxInv, MessageSound
<1>3. ASSUME inbox' = inbox PROVE InboxInv'
  BY <1>2, <1>3
<1>4. ASSUME NEW s \in Sockets, inbox[s] # <<>>, inbox' = [inbox EXCEPT ![s] = Tail(@)]
      PROVE  InboxInv'
  <2>1. inbox \in [Sockets -> Seq(Messages)]
    BY <1>0 DEF TypeOK
  <2>2. \A t \in Sockets : inbox'[t] = IF t = s THEN Tail(inbox[s]) ELSE inbox[t]
    BY <1>4, <2>1
  <2>3. \A i \in DOMAIN Tail(inbox[s]) : \E k \in DOMAIN inbox[s] : Tail(inbox[s])[i] = inbox[s][k]
    BY <1>4, <2>1, TailElements
  <2>4. QED
    BY <1>2, <2>2, <2>3
<1>5. ASSUME NEW s \in Sockets, NEW m, Good(m, s), inbox' = [inbox EXCEPT ![s] = Append(@, m)]
      PROVE  InboxInv'
  <2>1. inbox \in [Sockets -> Seq(Messages)]
    BY <1>0 DEF TypeOK
  <2>2. \A t \in Sockets : inbox'[t] = IF t = s THEN Append(inbox[s], m) ELSE inbox[t]
    BY <1>5, <2>1
  <2>3. \A i \in DOMAIN Append(inbox[s], m) :
          \/ Append(inbox[s], m)[i] = m
          \/ \E k \in DOMAIN inbox[s] : Append(inbox[s], m)[i] = inbox[s][k]
    BY <2>1, AppendElements
  <2>4. QED
    BY <1>2, <1>5, <2>2, <2>3
<1>6. ASSUME NEW c \in Commands,
             \/ CreateCommandRequest(c) \/ SendCommandToRunnerSocket(c)
             \/ DeadlinePasses(c) \/ JobExits(c)
      PROVE  inbox' = inbox
  BY <1>6 DEF CreateCommandRequest, SendCommandToRunnerSocket, DeadlinePasses, JobExits, runner
<1>7. ASSUME NEW s \in Sockets,
             AcceptRunnerWebSocket(s) \/ WebSocketHeartbeat(s) \/ RunnerLeaves(s)
      PROVE  inbox' = inbox
  BY <1>7 DEF AcceptRunnerWebSocket, WebSocketHeartbeat, RunnerLeaves, runner
<1>8. ASSUME NEW s \in Sockets, WebSocketAck(s) \/ WebSocketResult(s) PROVE InboxInv'
  BY <1>4, <1>8 DEF WebSocketAck, WebSocketResult
<1>9. ASSUME NEW s \in Sockets, WebSocketClose(s) PROVE InboxInv'
  <2>1. \A t \in Sockets : inbox'[t] = IF t = s THEN <<>> ELSE inbox[t]
    BY <1>0, <1>9 DEF WebSocketClose, TypeOK
  <2>2. QED
    BY <1>2, <2>1
<1>10. ASSUME NEW s \in Sockets, NEW c \in Commands, RunnerReceives(s, c) PROVE InboxInv'
  <2> DEFINE m == [kind |-> "ack", cmd |-> c]
  <2>1. /\ inbox' = [inbox EXCEPT ![s] = Append(@, m)]
        /\ task[s][c] = "sent" /\ disk' = disk
    BY <1>10 DEF RunnerReceives
  <2>2. disk.cmd[c].runner = Owner[s]
    BY <2>1 DEF TasksInv
  <2>3. Good(m, s)
    BY <2>1, <2>2 DEF Good, MessageSound
  <2>4. QED
    BY <1>5, <2>1, <2>3
<1>11. ASSUME NEW s \in Sockets, NEW c \in Commands, RunnerFinishes(s, c) PROVE InboxInv'
  <2>1. PICK o \in Outcomes :
          /\ inbox' = [inbox EXCEPT ![s] =
                         Append(@, [kind |-> "result", cmd |-> c, outcome |-> o])]
          /\ MessageSound([kind |-> "result", cmd |-> c, outcome |-> o], Owner[s], process')
    BY <1>0, <1>11, FinishEffect
  <2>2. disk.cmd[c].runner = Owner[s] /\ disk' = disk
    BY <1>11 DEF RunnerFinishes, TasksInv
  <2>3. Good([kind |-> "result", cmd |-> c, outcome |-> o], s)
    BY <2>1, <2>2 DEF Good
  <2>4. QED
    BY <1>5, <2>1, <2>3
<1>12. CASE \/ Query \/ RejectedEntry \/ RefusedRequest \/ RevokeRequest \/ HeartbeatGoesStale
            \/ SessionExpires \/ Restart \/ UNCHANGED vars
  BY <1>3, <1>12 DEF Query, RejectedEntry, RefusedRequest, RevokeRequest,
                     HeartbeatGoesStale, SessionExpires,
                     TimePasses, Restart, vars, runner
<1>13. QED
  BY <1>3, <1>6, <1>7, <1>8, <1>9, <1>10, <1>11, <1>12 DEF Next

-----------------------------------------------------------------------------
(* The part of the invariant that speaks of jobs.                           *)

\* Attaching an instance settles the jobs of the one before it.
LEMMA AttachJobs ==
  ASSUME NEW b \in BrokerState, NEW s \in Sockets, NEW proc,
         JobsFiled(b.jobs, b.session.runner, proc)
  PROVE  JobsFiled(AttachRunner(b, s).jobs, Owner[s], proc)
<1> DEFINE previous == b.session.runner
           jobs     == AttachRunner(b, s).jobs
<1>1. b.jobs \in [Commands -> JobRow]
  BY DEF BrokerState
<1>2. CASE previous \notin {None, Owner[s]}
  <2>1. jobs = MarkRunningJobsLost(b.jobs, previous)
    BY <1>2 DEF AttachRunner, BrokerState
  <2>2. ASSUME NEW j \in Commands
        PROVE  IF b.jobs[j].status = "running"
               THEN jobs[j].status = "unknown_lost" /\ jobs[j].runner = b.jobs[j].runner
               ELSE jobs[j] = b.jobs[j]
    BY <1>1, <2>1 DEF MarkRunningJobsLost, JobsFiled, JobRow
  <2> HIDE DEF jobs
  <2>3. JobsFiled(jobs, Owner[s], proc)
    BY <2>2 DEF JobsFiled
  <2>4. QED
    BY <2>3 DEF jobs
<1>3. CASE previous \in {None, Owner[s]}
  <2>1. jobs = b.jobs
    BY <1>3 DEF AttachRunner, BrokerState
  <2>2. JobsFiled(b.jobs, Owner[s], proc)
    BY <1>3 DEF JobsFiled
  <2> HIDE DEF jobs
  <2>3. JobsFiled(jobs, Owner[s], proc)
    BY <2>1, <2>2
  <2>4. QED
    BY <2>3 DEF jobs
<1>4. QED
  BY <1>2, <1>3

\* So does a restore.
LEMMA RestoredJobs ==
  ASSUME TypeOK, NEW w \in ToRestore, JobsFiled(broker.jobs, broker.session.runner, process)
  PROVE  JobsFiled(Restored(w).jobs, Restored(w).session.runner, process)
BY AttachJobs, RestoredType, AttachRunnerFrame DEF Restored, TypeOK

\* What an outcome reported by instance r says of its job is true of proc.
OutcomeSound(o, r, proc) ==
  o.job # None => /\ proc[o.job].runner = r
                  /\ o.status # "unknown_lost"
                  /\ o.status \in {"exited", "interrupted"} => proc[o.job].status = o.status

\* A true result of the current instance leaves the job rows true and filed.
LEMMA ApplyJobs ==
  ASSUME NEW b \in BrokerState, NEW c \in Commands, NEW r, r # None,
         NEW outcome \in Outcomes, NEW proc,
         b.cmd[c].runner = r, b.session.runner = r, OutcomeSound(outcome, r, proc),
         JobsFiled(b.jobs, r, proc)
  PROVE  JobsFiled(JobsAfter(b, c, outcome), r, proc)
<1>1. CASE ~(outcome.ok /\ outcome.job # None)
  BY <1>1 DEF JobsAfter
<1>2. CASE outcome.ok /\ outcome.job # None
  <2> DEFINE j   == outcome.job
             row == JobRowAfter(b, c, j, outcome.status)
  <2>1. j \in Commands /\ outcome.status \in JobStatuses
    BY <1>2 DEF Outcomes
  <2>2. /\ proc[j].runner = r
        /\ outcome.status # "unknown_lost"
        /\ outcome.status \in {"exited", "interrupted"} => proc[j].status = outcome.status
    BY <1>2 DEF OutcomeSound
  <2>3. /\ b.jobs[j].status = "absent" => b.jobs[j].runner = None
        /\ b.jobs[j].status # "absent" => b.jobs[j].runner = r
        /\ b.jobs[j].status = "running" => b.jobs[j].runner = r
        /\ b.jobs[j].status \in {"exited", "interrupted"} => proc[j].status = b.jobs[j].status
        /\ b.jobs[j] \in JobRow
    BY <2>1, <2>2 DEF JobsFiled, BrokerState
  <2>4. row = b.jobs[j] \/ (row.status = outcome.status /\ row.runner = r)
    <3>1. JobRunner(b, j, c) = r
      BY <2>3 DEF JobRunner, JobRow
    <3>2. CASE Type[c] = "start_job"
      BY <3>2 DEF JobRowAfter
    <3>3. CASE Type[c] \in {"job_status", "interrupt_job"}
      BY <3>1, <3>3 DEF JobRowAfter
    <3>4. CASE Type[c] = "tail_job" /\ b.jobs[j].status # "absent"
      BY <2>3, <3>4 DEF JobRowAfter, JobRow
    <3>5. CASE /\ Type[c] \notin {"start_job", "job_status", "interrupt_job"}
               /\ ~(Type[c] = "tail_job" /\ b.jobs[j].status # "absent")
      BY <3>5 DEF JobRowAfter
    <3>6. QED
      BY <3>2, <3>3, <3>4, <3>5
  <2>5. JobsAfter(b, c, outcome) = [b.jobs EXCEPT ![j] = row]
    BY <1>2 DEF JobsAfter
  <2> HIDE DEF row
  <2>6. /\ JobsAfter(b, c, outcome)[j] = row
        /\ \A k \in Commands \ {j} : JobsAfter(b, c, outcome)[k] = b.jobs[k]
    BY <2>1, <2>5 DEF BrokerState
  <2> HIDE DEF j
  <2>7. /\ row.status = "absent" => row.runner = None
        /\ row.status # "absent" => row.runner # None /\ row.runner = proc[j].runner
        /\ row.status = "running" => row.runner = r
        /\ row.status \in {"exited", "interrupted"} => proc[j].status = row.status
    BY <2>1, <2>2, <2>3, <2>4 DEF JobStatuses
  <2>8. QED
    BY <2>6, <2>7 DEF JobsFiled
<1>3. QED
  BY <1>1, <1>2

\* JobsInv is inductive.
LEMMA JobsInvNext ==
  ASSUME Basis, SessionsAgree, RowsInv, WaitsInv, TasksInv, InboxInv, JobsInv, [Next]_vars
  PROVE  JobsInv'
<1>0. TypeOK /\ broker \in BrokerState
  BY DEF Basis, TypeOK
<1> DEFINE Filed == JobsFiled(broker'.jobs, broker'.session.runner, process)
<1>1. ASSUME Filed PROVE JobsInv'
  <2>1. \A j \in Commands : ProcessStays(j)
    BY <1>0, ProcessesStay
  <2>2. JobsFiled(broker'.jobs, broker'.session.runner, process')
    BY <1>0, <1>1, <2>1, JobsStayFiled
  <2>3. JobsFiled(disk'.jobs, broker'.session.runner, process')
    <3>1. CASE Restart \/ PersistState
      <4>1. disk'.jobs = broker'.jobs
        BY <3>1 DEF Restart, PersistState, Rows
      <4>2. QED
        BY <2>2, <4>1
    <3>2. CASE ~(Restart \/ PersistState)
      <4>1. disk'.jobs = disk.jobs /\ broker'.session.runner = broker.session.runner
        BY <1>0, <3>2, StepsOfSession DEF StorageStep
      <4>2. JobsFiled(disk.jobs, broker.session.runner, process')
        BY <1>0, <2>1, JobsStayFiled DEF JobsInv
      <4>3. QED
        BY <4>1, <4>2
    <3>3. QED
      BY <3>1, <3>2
  <2>4. QED
    BY <2>2, <2>3 DEF JobsInv, JobsFiled
<1> HIDE DEF Filed
<1>2. ASSUME broker'.jobs = broker.jobs, broker'.session.runner = broker.session.runner
      PROVE  Filed
  BY <1>2 DEF Filed, JobsInv
<1>3. ASSUME NEW w \in ToRestore, broker'.jobs = Restored(w).jobs,
             broker'.session.runner = Restored(w).session.runner
      PROVE  Filed
  BY <1>0, <1>3, RestoredJobs DEF Filed, JobsInv
<1>4. ASSUME NEW c \in Commands,
             \/ CreateCommandRequest(c) \/ SendCommandToRunnerSocket(c)
             \/ DeadlinePasses(c) \/ JobExits(c)
      PROVE  Filed
  <2>1. CASE CreateCommandRequest(c)
    <3>1. PICK w \in ToRestore : broker' = CreateCommand(Restored(w), c)
      BY <2>1 DEF CreateCommandRequest
    <3>2. CreateCommand(Restored(w), c).jobs = Restored(w).jobs
          /\ CreateCommand(Restored(w), c).session = Restored(w).session
      BY <1>0, RestoredType, CreateCommandFrame DEF CreateCommand, BrokerState, SameSession
    <3>3. QED
      BY <1>3, <3>1, <3>2
  <2>2. CASE SendCommandToRunnerSocket(c) \/ DeadlinePasses(c) \/ JobExits(c)
    <3>1. broker' \in {broker, RejectAll(broker, {c})}
      BY <2>2 DEF SendCommandToRunnerSocket, DeadlinePasses, JobExits, memory
    <3>2. QED
      BY <1>0, <1>2, <3>1, RejectAllRow, RejectAllFrame DEF SameSession
  <2>3. QED
    BY <1>4, <2>1, <2>2
<1>5. ASSUME Query PROVE Filed
  <2>1. PICK w \in ToRestore : broker' = Restored(w)
    BY <1>5 DEF Query, ToRestore
  <2>2. QED
    BY <1>3, <2>1
<1>6. ASSUME RevokeRequest PROVE Filed
  <2>1. PICK w \in ToRestore : broker' = Revoke(Restored(w))
    BY <1>6 DEF RevokeRequest
  <2>2. Revoke(Restored(w)).jobs = Restored(w).jobs
        /\ Revoke(Restored(w)).session.runner = Restored(w).session.runner
    BY <1>0, RestoredType DEF Revoke, BrokerState, SessionRow
  <2>3. QED
    BY <1>3, <2>1, <2>2
<1>7. ASSUME RejectedEntry \/ RefusedRequest \/ UNCHANGED vars PROVE Filed
  BY <1>2, <1>7 DEF RejectedEntry, RefusedRequest, vars, memory
<1>8. ASSUME NEW s \in Sockets, AcceptRunnerWebSocket(s) PROVE Filed
  <2>1. PICK w \in ToRestore : broker' = AttachRunner(Restored(w), s)
    BY <1>8 DEF AcceptRunnerWebSocket
  <2>2. QED
    BY <1>0, <2>1, RestoredType, RestoredJobs, AttachJobs, AttachRunnerFrame DEF Filed, JobsInv
<1>9. ASSUME NEW s \in Sockets, WebSocketHeartbeat(s) PROVE Filed
  <2>1. PICK w \in ToRestore : broker' = RecordRunnerActivity(Restored(w), Owner[s])
    BY <1>9 DEF WebSocketHeartbeat
  <2>2. QED
    BY <1>0, <1>3, <2>1, RestoredType, RecordRunnerActivityFrame
<1>10. ASSUME NEW s \in Sockets, WebSocketClose(s) PROVE Filed
  <2> DEFINE b == MarkRunnerDisconnected(broker, Owner[s])
  <2>1. broker' = RejectAll(b, PendingOn(s))
    BY <1>10 DEF WebSocketClose
  <2>2. b \in BrokerState /\ b.jobs = broker.jobs /\ b.session.runner = broker.session.runner
    BY <1>0, MarkRunnerDisconnectedType, MarkRunnerDisconnectedFrame
  <2>3. QED
    BY <1>2, <2>1, <2>2, RejectAllRow, RejectAllFrame DEF SameSession
<1>11. ASSUME NEW s \in Sockets, WebSocketAck(s) PROVE Filed
  <2> DEFINE a(b) == AcknowledgeFromRunner(b, Head(inbox[s]).cmd, Owner[s])
  <2>1. ASSUME NEW b \in BrokerState
        PROVE  a(b) \in BrokerState /\ a(b).jobs = b.jobs /\ a(b).session = b.session
    BY <1>0, <1>11, HeadType, AcknowledgeRow, AcknowledgeFromRunnerType, AcknowledgeFromRunnerFrame
       DEF WebSocketAck, SameSession
  <2> HIDE DEF a
  <2>2. ASSUME NEW w \in ToRestore, broker' = RecordRunnerActivity(a(Restored(w)), Owner[s])
        PROVE  Filed
    BY <1>0, <1>3, <2>1, <2>2, RestoredType, RecordRunnerActivityFrame
  <2>3. CASE broker' = a(broker) \/ UNCHANGED broker
    BY <1>0, <1>2, <2>1, <2>3
  <2>4. QED
    BY <1>0, <1>11, <2>2, <2>3, AckEffect DEF a
<1>12. ASSUME NEW s \in Sockets, WebSocketResult(s) PROVE Filed
  <2> DEFINE d       == Head(inbox[s]).cmd
             outcome == Head(inbox[s]).outcome
             a(b)    == ApplyRunnerResult(b, d, Owner[s], outcome)
             e(b)    == RecordRunnerActivity(a(b), Owner[s])
  <2>1. /\ d \in Commands /\ outcome \in Outcomes /\ broker.cmd[d].runner = Owner[s]
        /\ OutcomeSound(outcome, Owner[s], process)
        /\ Owner[s] \in Runners /\ Owner[s] # None
    <3>1. inbox[s] # <<>> /\ Head(inbox[s]).kind = "result"
      BY <1>12 DEF WebSocketResult
    <3>2. d \in Commands /\ outcome \in Outcomes
      BY <1>0, <3>1, HeadType
    <3>3. MessageSound(Head(inbox[s]), Owner[s], process) /\ broker.cmd[d].runner = Owner[s]
      BY <1>0, <3>1, HeadSound
    <3>4. Owner[s] \in Runners /\ Owner[s] # None
      BY OwnerAssumption, NoneAssumption
    <3>5. QED
      BY <3>1, <3>2, <3>3, <3>4 DEF MessageSound, OutcomeSound
  <2>2. ASSUME NEW b \in BrokerState, b.cmd = broker.cmd,
               JobsFiled(b.jobs, b.session.runner, process)
        PROVE  /\ a(b) \in BrokerState /\ a(b).session = b.session
               /\ JobsFiled(a(b).jobs, b.session.runner, process)
    <3>1. a(b) \in BrokerState /\ a(b).session = b.session
      BY <2>1, ApplyRunnerResultType, ApplyRunnerResultFrame DEF SameSession
    <3>2. CASE ~Accepts(b, d, Owner[s]) \/ Settled(b.cmd[d])
      BY <2>2, <3>1, <3>2, ApplyNothing
    <3>3. CASE Accepts(b, d, Owner[s]) /\ ~Settled(b.cmd[d])
      <4>1. a(b).jobs = JobsAfter(b, d, outcome)
        BY <2>1, <3>3, ApplyCompletes
      <4>2. b.session.runner = Owner[s]
        BY <3>3 DEF Accepts, FromItsRunner
      <4> HIDE DEF a, d, outcome
      <4>3. QED
        BY <2>1, <2>2, <3>1, <4>1, <4>2, ApplyJobs
    <3>4. QED
      BY <3>2, <3>3
  <2>3. ASSUME NEW b \in BrokerState, Accepts(b, d, Owner[s]), ~Settled(b.cmd[d])
        PROVE  a(b).cmd[d] \in CompletedRows(b.cmd[d])
    BY <2>1, <2>3, ApplyCompletes
  <2> HIDE DEF a
  <2>4. ASSUME NEW b \in BrokerState, b.cmd = broker.cmd,
               JobsFiled(b.jobs, b.session.runner, process)
        PROVE  /\ e(b) \in BrokerState /\ e(b).cmd = a(b).cmd
               /\ e(b).session.runner = b.session.runner
               /\ JobsFiled(e(b).jobs, e(b).session.runner, process)
    BY <2>2, <2>4, RecordRunnerActivityType, RecordRunnerActivityFrame
  <2> HIDE DEF e
  <2>5. ASSUME NEW w \in ToRestore
        PROVE  /\ Restored(w) \in BrokerState /\ Restored(w).cmd = broker.cmd
               /\ JobsFiled(Restored(w).jobs, Restored(w).session.runner, process)
    BY <1>0, RestoredType, RestoredFrame, RestoredJobs DEF JobsInv
  <2>6. CASE UNCHANGED broker
    BY <1>2, <2>6
  <2>7. CASE broker' = a(broker)
    BY <1>0, <2>2, <2>7 DEF Filed, JobsInv
  <2>8. ASSUME NEW w \in ToRestore, broker' = e(Restored(w)) PROVE Filed
    BY <2>4, <2>5, <2>8 DEF Filed
  <2>9. ASSUME NEW w \in ToRestore, Live(broker), pending[d] # None,
               SettlePending(e(Restored(w)), d, Accepts(Restored(w), d, Owner[s]), outcome)
        PROVE  Filed
    <3> DEFINE b == Restored(w)
    <3>1. b \in BrokerState /\ b.cmd = broker.cmd
          /\ JobsFiled(b.jobs, b.session.runner, process)
      BY <2>5
    <3>2. ~Settled(broker.cmd[d])
      BY <2>1, <2>9 DEF WaitsInv, InFlight, Settled
    <3>3. broker' = IF Accepts(b, d, Owner[s]) THEN ResumeCreateCommand(e(b), d, outcome)
                    ELSE RejectAll(e(b), {d})
      BY <2>9 DEF SettlePending
    <3> HIDE DEF b
    <3>4. CASE ~Accepts(b, d, Owner[s])
      <4>1. /\ broker'.jobs = e(b).jobs
            /\ broker'.session = e(b).session
        BY <2>4, <3>1, <3>3, <3>4, RejectAllRow, RejectAllFrame DEF SameSession
      <4>2. QED
        BY <2>4, <3>1, <4>1 DEF Filed
    <3>5. CASE Accepts(b, d, Owner[s])
      <4>1. a(b).cmd[d] \in CompletedRows(b.cmd[d])
        BY <2>3, <3>1, <3>2, <3>5
      <4>2. /\ Settled(a(b).cmd[d]) /\ a(b).cmd[d].state # "absent"
            /\ a(b).cmd[d].runner = Owner[s]
        BY <2>1, <3>1, <4>1, CompletedRowSettled DEF BrokerState
      <4>3. b.session.runner = Owner[s]
        BY <3>5 DEF Accepts, FromItsRunner
      <4>4. broker' = e(b)
        BY <2>4, <3>1, <3>3, <3>5, <4>2, <4>3, ResumeSettled
      <4>5. QED
        BY <2>4, <3>1, <4>4 DEF Filed
    <3>6. QED
      BY <3>4, <3>5
  <2>10. QED
    BY <1>0, <1>12, <2>6, <2>7, <2>8, <2>9, ResultEffect DEF a, e
<1>13. ASSUME NEW s \in Sockets, RunnerLeaves(s) PROVE Filed
  BY <1>2, <1>13 DEF RunnerLeaves, memory
<1>14. ASSUME NEW s \in Sockets, NEW c \in Commands, RunnerReceives(s, c) \/ RunnerFinishes(s, c)
       PROVE  Filed
  BY <1>2, <1>14 DEF RunnerReceives, RunnerFinishes, memory
<1>15. ASSUME HeartbeatGoesStale \/ SessionExpires PROVE Filed
  BY <1>0, <1>2, <1>15 DEF HeartbeatGoesStale, SessionExpires, TimePasses, BrokerState, SessionRow
<1>16. ASSUME Restart PROVE Filed
  BY <1>16 DEF Restart, Filed, JobsInv, SessionsAgree
<1>17. QED
  BY <1>1, <1>4, <1>5, <1>6, <1>7, <1>8, <1>9, <1>10, <1>11, <1>12, <1>13, <1>14, <1>15, <1>16
     DEF Next

-----------------------------------------------------------------------------
(* The invariant, and the safety properties that follow from it.            *)

\* A restart reads whose the session is back from storage.
LEMMA SessionsAgreeNext ==
  ASSUME Basis, SessionsAgree, [Next]_vars
  PROVE  SessionsAgree'
<1>1. CASE Restart
  BY <1>1 DEF Restart, SessionsAgree
<1>2. CASE ~Restart
  BY <1>2, StepsOfSession DEF Basis
<1>3. QED
  BY <1>1, <1>2

\* It holds at the start, ...
LEMMA CommandsInit == Init => Basis /\ CommandsInv
<1> SUFFICES ASSUME Init PROVE Basis /\ CommandsInv
  OBVIOUS
<1>1. Basis
  <2>1. LiveMemoryIsStored
    BY DEF Init, LiveMemoryIsStored
  <2>2. RoutedToCurrentRunner
    BY DEF Init, CreateSession, RoutedToCurrentRunner
  <2>3. QED
    BY <2>1, <2>2, InitType, UndeliveredInit DEF Basis
<1>2. SessionsAgree
  BY DEF Init, SessionsAgree, Rows
<1>3. /\ \A c \in Commands : broker.cmd[c] = NoCommand /\ disk.cmd[c] = NoCommand
      /\ \A j \in Commands : broker.jobs[j] = NoJob /\ disk.jobs[j] = NoJob
  <2>1. /\ CreateSession.cmd = [c \in Commands |-> NoCommand]
        /\ CreateSession.jobs = [j \in Commands |-> NoJob]
    BY DEF CreateSession
  <2>2. /\ broker = CreateSession
        /\ disk.cmd = CreateSession.cmd /\ disk.jobs = CreateSession.jobs
    BY DEF Init, Rows
  <2>3. QED
    BY <2>1, <2>2
<1>4. RowsInv
  <2>1. RowSound(NoCommand) /\ Ahead(NoCommand, NoCommand, broker.session.runner)
    BY DEF RowSound, Ahead, NoCommand
  <2>2. QED
    BY <1>3, <2>1 DEF RowsInv
<1>5. WaitsInv
  BY NoneAssumption DEF Init, WaitsInv
<1>6. AnswersInv
  BY DEF Init, AnswersInv, Answered
<1>7. TasksInv
  BY DEF Init, TasksInv
<1>8. InboxInv
  BY DEF Init, InboxInv
<1>9. JobsInv
  BY <1>3 DEF JobsInv, JobsFiled, NoJob
<1>10. QED
  BY <1>1, <1>2, <1>4, <1>5, <1>6, <1>7, <1>8, <1>9 DEF CommandsInv

\* ... every step keeps it, ...
LEMMA CommandsNext == Basis /\ CommandsInv /\ [Next]_vars => (Basis /\ CommandsInv)'
<1> SUFFICES ASSUME Basis, CommandsInv, [Next]_vars PROVE Basis' /\ CommandsInv'
  OBVIOUS
<1>1. TypeOK /\ LiveMemoryIsStored /\ RoutedToCurrentRunner /\ UndeliveredUntilSent
  BY DEF Basis
<1>2. Basis'
  BY <1>1, NextType, LiveMemoryIsStoredNext, RoutedNext, UndeliveredUntilSentNext DEF Basis
<1>3. SessionsAgree /\ RowsInv /\ WaitsInv /\ AnswersInv /\ TasksInv /\ InboxInv /\ JobsInv
  BY DEF CommandsInv
<1>4. SessionsAgree'
  BY <1>3, SessionsAgreeNext
<1>5. RowsInv' /\ WaitsInv' /\ AnswersInv'
  BY <1>3, RowsInvNext, WaitsInvNext, AnswersInvNext
<1>6. TasksInv' /\ InboxInv' /\ JobsInv'
  BY <1>3, TasksInvNext, InboxInvNext, JobsInvNext
<1>7. QED
  BY <1>2, <1>4, <1>5, <1>6 DEF CommandsInv

\* ... so it always holds.
LEMMA CommandsAlways == Spec => [](Basis /\ CommandsInv)
BY CommandsInit, CommandsNext, PTL DEF Spec

\* The runner works on and answers only commands that storage says were
\* directed at it: persistState is awaited before a command is sent.
THEOREM DurableBeforeDeliveryAlways == Spec => []DurableBeforeDelivery
<1>1. CommandsInv => DurableBeforeDelivery
  BY DEF CommandsInv, TasksInv, InboxInv, DurableBeforeDelivery
<1>2. QED
  BY <1>1, CommandsAlways, PTL

\* A request waits exactly while its entry in pendingRunnerResults, or the
\* persistState before it, exists.
THEOREM WaitingMatchesPendingAlways == Spec => []WaitingMatchesPending
<1>1. CommandsInv => WaitingMatchesPending
  BY DEF CommandsInv, WaitsInv, WaitingMatchesPending
<1>2. QED
  BY <1>1, CommandsAlways, PTL

\* The INTERNAL_ERROR branch of createCommand is never taken.
THEOREM NoInternalErrorAlways == Spec => []NoInternalError
<1>1. CommandsInv => NoInternalError
  BY DEF CommandsInv, RowsInv, RowSound, NoInternalError
<1>2. QED
  BY <1>1, CommandsAlways, PTL

\* What the controller was told is what storage holds, through every restart.
THEOREM AnswersAreDurableAlways == Spec => []AnswersAreDurable
<1>1. CommandsInv => AnswersAreDurable
  BY DEF CommandsInv, AnswersInv, Answered, AnswersAreDurable
<1>2. QED
  BY <1>1, CommandsAlways, PTL

\* A job recorded as running belongs to the current instance, however it
\* connected, was replaced, or was restored.
THEOREM RunningJobsAreCurrentAlways == Spec => []RunningJobsAreCurrent
<1>1. CommandsInv => RunningJobsAreCurrent
  BY DEF CommandsInv, JobsInv, JobsFiled, RunningJobsAreCurrent
<1>2. QED
  BY <1>1, CommandsAlways, PTL

\* A job recorded as exited or interrupted did end so.
THEOREM EndedJobsEndedAlways == Spec => []EndedJobsEnded
<1>1. CommandsInv => EndedJobsEnded
  BY DEF CommandsInv, JobsInv, JobsFiled, EndedJobsEnded
<1>2. QED
  BY <1>1, CommandsAlways, PTL

\* What RowsInv and WaitsInv say of one command.
LEMMA WhatHolds ==
  ASSUME Basis, CommandsInv, NEW c \in Commands
  PROVE  /\ broker.cmd[c] \in CommandRow /\ disk.cmd[c] \in CommandRow
         /\ RowSound(broker.cmd[c]) /\ RowSound(disk.cmd[c])
         /\ Ahead(disk.cmd[c], broker.cmd[c], broker.session.runner)
         /\ Live(broker) => broker.cmd[c] = disk.cmd[c]
         /\ pending[c] # None \/ sending = c =>
              /\ broker.cmd[c].state # "absent"
              /\ Live(broker) => broker.cmd[c].state \in {"sent_to_runner", "runner_acknowledged"}
<1>1. broker.cmd[c] \in CommandRow /\ disk.cmd[c] \in CommandRow
  BY DEF Basis, TypeOK, BrokerState, StoredRows
<1>2. Live(broker) => broker.cmd[c] = disk.cmd[c]
  BY DEF Basis, LiveMemoryIsStored, Rows
<1>3. RowSound(broker.cmd[c]) /\ RowSound(disk.cmd[c])
      /\ Ahead(disk.cmd[c], broker.cmd[c], broker.session.runner)
  BY DEF CommandsInv, RowsInv
<1>4. pending[c] # None \/ sending = c =>
        /\ broker.cmd[c].state # "absent"
        /\ Live(broker) => broker.cmd[c].state \in {"sent_to_runner", "runner_acknowledged"}
  BY <1>1 DEF CommandsInv, WaitsInv, InFlight, Final, CommandRow, CommandStates
<1>5. QED
  BY <1>1, <1>2, <1>3, <1>4

\* On a live session no handler, timer or restart changes a settled row.
THEOREM SettledStaysAlways == Spec => SettledStays
<1>1. ASSUME Basis, CommandsInv, [Next]_vars, NEW c \in Commands,
             Settled(broker.cmd[c]), Live(broker)
      PROVE  broker'.cmd[c] = broker.cmd[c]
  <2>1. CASE Restart
    BY <1>1, <2>1, WhatHolds DEF Restart
  <2>2. CASE ~Restart
    <3>1. RowStep(c)
      BY <1>1, <2>2, StepsOfRow DEF CommandsInv
    <3>2. ~Refused(c) /\ ~Dispatched(c) /\ ~Acked(c) /\ ~Completed(c)
      BY <1>1 DEF Refused, Dispatched, Acked, Completed, Settled, Final
    <3>3. ~GivenUp(c)
      BY <1>1, WhatHolds DEF GivenUp, Settled, Final
    <3>4. QED
      BY <3>1, <3>2, <3>3 DEF RowStep, Untouched, PutOnWire
  <2>3. QED
    BY <2>1, <2>2
<1>2. Basis /\ CommandsInv /\ [Next]_vars =>
        [\A c \in Commands : Settled(broker.cmd[c]) /\ Live(broker) =>
                               broker'.cmd[c] = broker.cmd[c]]_vars
  BY <1>1
<1>3. QED
  BY <1>2, CommandsAlways, PTL DEF Spec, SettledStays

\* Only the instance that is current when it happens makes a command succeed.
THEOREM OnlyCurrentRunnerCompletesAlways == Spec => OnlyCurrentRunnerCompletes
<1>1. ASSUME Basis, CommandsInv, [Next]_vars, NEW c \in Commands,
             broker'.cmd[c].state = "succeeded", broker.cmd[c].state # "succeeded"
      PROVE  broker.cmd[c].runner = broker'.session.runner
  <2>1. CASE Restart
    <3>1. disk.cmd[c].state = "succeeded"
      BY <1>1, <2>1 DEF Restart
    <3>2. QED
      BY <1>1, <3>1, WhatHolds DEF Ahead
  <2>2. CASE ~Restart
    <3>1. RowStep(c)
      BY <1>1, <2>2, StepsOfRow DEF CommandsInv
    <3>2. broker.cmd[c] \in CommandRow
      BY <1>1, WhatHolds
    <3>3. ~Untouched(c) /\ ~Refused(c) /\ ~Dispatched(c) /\ ~PutOnWire(c)
      BY <1>1 DEF Untouched, Refused, Dispatched, PutOnWire
    <3>4. ~Acked(c) /\ ~GivenUp(c)
      BY <1>1, <3>2 DEF Acked, GivenUp, AcknowledgedRow, UnknownRow, CommandRow
    <3>5. Completed(c)
      BY <3>1, <3>3, <3>4 DEF RowStep
    <3>6. QED
      BY <3>5 DEF Completed
  <2>3. QED
    BY <2>1, <2>2
<1>2. Basis /\ CommandsInv /\ [Next]_vars =>
        [\A c \in Commands :
           broker'.cmd[c].state = "succeeded" /\ broker.cmd[c].state # "succeeded" =>
             broker.cmd[c].runner = broker'.session.runner]_vars
  BY <1>1
<1>3. QED
  BY <1>2, CommandsAlways, PTL DEF Spec, OnlyCurrentRunnerCompletes

-----------------------------------------------------------------------------
(* The rows in storage implement CommandLifecycle.                          *)

\* What CommandLifecycle sees of a row.
Seen(row) == [state |-> row.state, runner |-> row.runner]

\* A step of a row in memory is, for the row in storage when memory is stored,
\* a move of the lifecycle or none.
LEMMA StoredStepMoves ==
  ASSUME Basis, CommandsInv, NEW c \in Commands, RowStep(c), SessionStep,
         SessionsAgree', broker'.cmd[c] \in CommandRow
  PROVE  \/ Seen(broker'.cmd[c]) = Seen(disk.cmd[c])
         \/ Lifecycle!Move(Seen(disk.cmd[c]), Seen(broker'.cmd[c]))
<1> DEFINE p  == disk.cmd[c]
           m  == broker.cmd[c]
           q  == broker'.cmd[c]
           r  == broker.session.runner
           r1 == disk'.session.runner
           over == disk.session.revoked \/ disk.session.expired
           Goal == Seen(q) = Seen(p) \/ Lifecycle!Move(Seen(p), Seen(q))
<1>1. /\ p \in CommandRow /\ m \in CommandRow /\ RowSound(m) /\ Ahead(p, m, r)
      /\ r1 = broker'.session.runner
      /\ over <=> ~Live(broker)
  BY WhatHolds DEF SessionsAgree, CommandsInv, Live
<1>2. m # p => over /\ r1 = r
  BY <1>1, WhatHolds DEF SessionStep
<1>3. ASSUME p.state = "sent_to_runner", p.runner = r1, q.runner = p.runner,
             q.state = "runner_acknowledged"
      PROVE  Goal
  BY <1>3 DEF Seen, Lifecycle!Move, Lifecycle!Acknowledged
<1>4. ASSUME p.state \in Lifecycle!Undecided, p.runner = r1, q.runner = p.runner,
             q.state \in {"succeeded", "failed"}
      PROVE  Goal
  BY <1>4 DEF Seen, Lifecycle!Move, Lifecycle!Decided
<1>5. ASSUME p.state \in Lifecycle!Undecided \/ over, p.state # "absent", q.runner = p.runner,
             q.state = "unknown"
      PROVE  Goal
  BY <1>5 DEF Seen, Lifecycle!Move, Lifecycle!GivenUp
<1>6. ASSUME p.state = "absent", q.state = "failed", q.runner = None PROVE Goal
  BY <1>6 DEF Seen, Lifecycle!Move, Lifecycle!Refused
<1>7. ASSUME p.state = "absent", q.state = "sent_to_runner", q.runner = r1, r1 # None PROVE Goal
  BY <1>7 DEF Seen, Lifecycle!Move, Lifecycle!Dispatched
<1>8. ASSUME q.state = p.state, q.runner = p.runner PROVE Goal
  BY <1>8 DEF Seen
<1> HIDE DEF Goal, over
<1>9. ASSUME Untouched(c) \/ PutOnWire(c) PROVE Goal
  <2>1. q = m
    BY <1>9 DEF Untouched, PutOnWire
  <2>2. QED
    BY <1>1, <1>2, <1>3, <1>4, <1>8, <2>1 DEF Ahead, Lifecycle!Undecided
<1>10. ASSUME Refused(c) PROVE Goal
  <2>1. q.state = "failed" /\ q.runner = None /\ m.state = "absent"
    BY <1>10 DEF Refused
  <2>2. p = m
    BY <1>1, <2>1 DEF Ahead
  <2>3. QED
    BY <1>6, <2>1, <2>2
<1>11. ASSUME Dispatched(c) PROVE Goal
  <2>1. q.state = "sent_to_runner" /\ q.runner = r1 /\ r1 # None /\ m.state = "absent"
    BY <1>1, <1>11 DEF Dispatched
  <2>2. p = m
    BY <1>1, <2>1 DEF Ahead
  <2>3. QED
    BY <1>7, <2>1, <2>2
<1>12. ASSUME Acked(c) PROVE Goal
  <2>1. /\ q.state = "runner_acknowledged" /\ q.runner = m.runner /\ m.runner = r1
        /\ m.state \in {"sent_to_runner", "runner_acknowledged"}
    BY <1>1, <1>12 DEF Acked, AcknowledgedRow, CommandRow
  <2>2. p.runner = m.runner /\ p.state \in {"sent_to_runner", "runner_acknowledged"}
    BY <1>1, <2>1 DEF Ahead
  <2>3. QED
    BY <1>3, <1>8, <2>1, <2>2
<1>13. ASSUME Completed(c) PROVE Goal
  <2>1. q.state \in {"succeeded", "failed"} /\ q.runner = m.runner /\ m.runner = r1
    BY <1>1, <1>13, CompletedRowSettled DEF Completed
  <2>2. m.state \in Lifecycle!Undecided
    BY <1>1, <1>13 DEF Completed, Settled, Final, RowSound, CommandRow, CommandStates,
                       Lifecycle!Undecided
  <2>3. p.runner = m.runner /\ p.state \in Lifecycle!Undecided
    BY <1>1, <2>2 DEF Ahead, Lifecycle!Undecided
  <2>4. QED
    BY <1>4, <2>1, <2>3
<1>14. ASSUME GivenUp(c) PROVE Goal
  <2>1. q.state = "unknown" /\ q.runner = m.runner
    BY <1>1, <1>14 DEF GivenUp, UnknownRow, CommandRow
  <2>2. /\ m.state # "absent"
        /\ over \/ m.state \in {"sent_to_runner", "runner_acknowledged"}
    BY <1>1, <1>14, WhatHolds DEF GivenUp
  <2>3. p.runner = m.runner /\ p.state # "absent"
        /\ (over \/ p.state \in Lifecycle!Undecided)
    BY <1>1, <1>2, <2>2 DEF Ahead, Lifecycle!Undecided
  <2>4. QED
    BY <1>5, <2>1, <2>3
<1>15. Goal
  BY <1>9, <1>10, <1>11, <1>12, <1>13, <1>14 DEF RowStep
<1>16. QED
  BY <1>15 DEF Goal

\* Every step is a step of the lifecycle, or changes nothing it sees.
LEMMA LifecycleNext ==
  ASSUME Basis, CommandsInv, [Next]_vars
  PROVE  [Lifecycle!Next]_<<[c \in Commands |-> Seen(disk.cmd[c])], disk.session.runner,
                            disk.session.revoked \/ disk.session.expired>>
<1> DEFINE rows == [c \in Commands |-> Seen(disk.cmd[c])]
           over == disk.session.revoked \/ disk.session.expired
<1>1. CASE Restart
  BY <1>1 DEF Restart
<1>2. CASE ~Restart
  <2>1. SessionStep /\ StorageStep /\ SessionsAgree /\ SessionsAgree'
    BY <1>2, StepsOfSession DEF Basis, CommandsInv
  <2>2. TypeOK'
    BY NextType DEF Basis
  <2>3. rows' \in [Commands -> [state : Lifecycle!States, runner : Runners \cup {None}]]
    BY <2>2 DEF TypeOK, StoredRows, CommandRow, CommandStates, Seen, Lifecycle!States
  <2>4. ASSUME NEW c \in Commands
        PROVE  \/ Seen(disk'.cmd[c]) = Seen(disk.cmd[c])
               \/ Lifecycle!Move(Seen(disk.cmd[c]), Seen(disk'.cmd[c]))
    <3>1. CASE PersistState
      <4>1. disk'.cmd[c] = broker'.cmd[c] /\ broker'.cmd[c] \in CommandRow
        BY <2>2, <3>1 DEF PersistState, Rows, TypeOK, BrokerState
      <4>2. RowStep(c)
        BY <1>2, StepsOfRow DEF CommandsInv
      <4>3. QED
        BY <2>1, <4>1, <4>2, StoredStepMoves
    <3>2. CASE ~PersistState
      BY <2>1, <3>2 DEF StorageStep
    <3>3. QED
      BY <3>1, <3>2
  <2>5. \A c \in Commands :
          /\ rows[c] = Seen(disk.cmd[c])
          /\ rows'[c] = Seen(disk'.cmd[c])
    OBVIOUS
  <2>6. \A c \in Commands : rows'[c] = rows[c] \/ Lifecycle!Move(rows[c], rows'[c])
    BY <2>4, <2>5
  <2>7. /\ disk'.session.runner \in Runners \cup {None}
        /\ disk'.session.runner # None \/ disk.session.runner = None
        /\ over => over' /\ disk'.session.runner = disk.session.runner
    BY <2>1, <2>2 DEF SessionStep, SessionsAgree, Live, TypeOK, StoredRows, SessionRow
  <2>8. QED
    BY <2>3, <2>6, <2>7 DEF Lifecycle!Next, Seen
<1>3. QED
  BY <1>1, <1>2

\* Whatever handlers, runners and restarts do, the rows that a restart would
\* read back move only as CommandLifecycle allows.
THEOREM ImplementsLifecycleAlways == Spec => ImplementsLifecycle
<1>1. Init => Lifecycle!Init
  BY DEF Init, Rows, CreateSession, NewSession, NoCommand, Lifecycle!Init
<1>2. Basis /\ CommandsInv /\ [Next]_vars =>
        [Lifecycle!Next]_<<[c \in Commands |-> [state |-> disk.cmd[c].state,
                                                runner |-> disk.cmd[c].runner]],
                           disk.session.runner, disk.session.revoked \/ disk.session.expired>>
  BY LifecycleNext DEF Seen
<1>3. QED
  BY <1>1, <1>2, CommandsAlways, PTL DEF Spec, ImplementsLifecycle, Lifecycle!Spec
=============================================================================
