------------------------- MODULE SessionObjectProofs -------------------------
(***************************************************************************)
(* Invariants of SessionObject, for every set of commands, runner          *)
(* instances and sockets and any number of restarts.                       *)
(***************************************************************************)
EXTENDS SessionObject, SessionBrokerProofs

-----------------------------------------------------------------------------
(* Type correctness.                                                        *)

\* What a restore leaves has the broker's type (restoreAcceptedRunnerSocket).
LEMMA RestoredType ==
  ASSUME TypeOK, NEW w \in ToRestore
  PROVE  /\ w \in Sockets \cup {None}
         /\ Restored(w) \in BrokerState
         /\ SocketAfter(w) \in Sockets \cup {None}
<1>1. w \in Sockets \cup {None}
  BY DEF ToRestore, GetWebSockets
<1>2. Restored(w) \in BrokerState
  BY <1>1, AttachRunnerType DEF Restored, TypeOK
<1>3. QED
  BY <1>1, <1>2 DEF SocketAfter, TypeOK

\* Rejecting several waits keeps the broker's type.
LEMMA RejectAllType ==
  ASSUME NEW b \in BrokerState, NEW C
  PROVE  RejectAll(b, C) \in BrokerState
<1>1. ASSUME NEW c \in Commands
      PROVE  MarkCommandUnknown(b, c).cmd[c] \in CommandRow
  BY MarkCommandUnknownType DEF BrokerState
<1>2. b.cmd \in [Commands -> CommandRow]
  BY DEF BrokerState
<1>3. [c \in Commands |-> IF c \in C THEN MarkCommandUnknown(b, c).cmd[c] ELSE b.cmd[c]]
        \in [Commands -> CommandRow]
  BY <1>1, <1>2
<1>4. QED
  BY <1>3 DEF RejectAll, BrokerState

\* Rejecting waits changes existing or new command rows only.
LEMMA RejectAllFrame ==
  ASSUME NEW b \in BrokerState, NEW C
  PROVE  /\ SameSession(b, RejectAll(b, C))
         /\ KeepsCommands(b, RejectAll(b, C))
         /\ \A c \in C \cap Commands : RejectAll(b, C).cmd[c].state = "unknown"
<1>1. \A c \in Commands : MarkCommandUnknown(b, c).cmd[c].state = "unknown"
  BY DEF MarkCommandUnknown, BrokerState, CommandRow
<1>2. QED
  BY <1>1 DEF RejectAll, SameSession, KeepsCommands, BrokerState

\* persistState writes rows of the right type.
LEMMA PersistType ==
  ASSUME broker' \in BrokerState, PersistState
  PROVE  disk' \in StoredRows
BY DEF PersistState, Rows, BrokerState, StoredRows

\* Requests are answered with states.
LEMMA AnswerAllType ==
  ASSUME broker' \in BrokerState, NEW C, AnswerAll(C),
         request \in [Commands -> {"none", "waiting", "lost"} \cup CommandStates]
  PROVE  request' \in [Commands -> {"none", "waiting", "lost"} \cup CommandStates]
BY DEF AnswerAll, BrokerState, CommandRow

\* The initial state has the type.
LEMMA InitType == Init => TypeOK
<1> SUFFICES ASSUME Init PROVE TypeOK
  OBVIOUS
<1>1. broker \in BrokerState
  BY CreateSessionType DEF Init
<1>2. disk \in StoredRows
  BY CreateSessionType DEF Init, Rows, BrokerState, StoredRows
<1>3. inbox \in [Sockets -> Seq(Messages)]
  BY DEF Init
<1>4. QED
  BY <1>1, <1>2, <1>3, MaxRestartsAssumption
     DEF Init, TypeOK, ConnStates, Processes, NoProcess, CommandStates

\* recordRunnerActivity and persistState after it keep the types.
LEMMA RecordAndPersistType ==
  ASSUME NEW b \in BrokerState, NEW r \in Runners, RecordAndPersist(b, r), disk \in StoredRows
  PROVE  broker' \in BrokerState /\ disk' \in StoredRows
<1>1. CASE Live(broker)
  BY <1>1, RecordRunnerActivityType, PersistType DEF RecordAndPersist
<1>2. CASE ~Live(broker)
  BY <1>2 DEF RecordAndPersist
<1>3. QED
  BY <1>1, <1>2

\* Settling a pending result keeps the types.
LEMMA SettlePendingType ==
  ASSUME NEW b \in BrokerState, NEW c \in Commands, NEW accepted, NEW outcome \in Outcomes,
         SettlePending(b, c, accepted, outcome),
         pending \in [Commands -> Sockets \cup {None}],
         request \in [Commands -> {"none", "waiting", "lost"} \cup CommandStates]
  PROVE  /\ broker' \in BrokerState
         /\ disk' \in StoredRows
         /\ pending' \in [Commands -> Sockets \cup {None}]
         /\ request' \in [Commands -> {"none", "waiting", "lost"} \cup CommandStates]
<1>1. broker' \in BrokerState
  BY ResumeCreateCommandType, RejectAllType DEF SettlePending
<1>2. QED
  BY <1>1, PersistType, AnswerAllType DEF SettlePending

\* The message at the head of an inbox, and what it carries.
LEMMA HeadType ==
  ASSUME TypeOK, NEW s \in Sockets, inbox[s] # <<>>
  PROVE  /\ Head(inbox[s]).cmd \in Commands
         /\ Head(inbox[s]).kind = "result" => Head(inbox[s]).outcome \in Outcomes
         /\ Tail(inbox[s]) \in Seq(Messages)
<1>1. inbox[s] \in Seq(Messages)
  BY DEF TypeOK
<1>2. Head(inbox[s]) \in Messages /\ Tail(inbox[s]) \in Seq(Messages)
  BY <1>1
<1>3. QED
  BY <1>2 DEF Messages

\* The answers of a job command that succeeded name a job.
LEMMA JobOutcomesNameJobs ==
  ASSUME NEW r, NEW c \in Commands, NEW o \in RunnerOutcomes(r, c),
         o.ok, Type[c] \in {"start_job", "interrupt_job"}
  PROVE  o.job \in Commands /\ o.job # None
BY NoneAssumption DEF RunnerOutcomes, Failure, Report, JobsOf

\* The runner's answers are outcomes, and name no lost job.
LEMMA RunnerOutcomesType ==
  ASSUME TypeOK, NEW r \in Runners, NEW c \in Commands, NEW o \in RunnerOutcomes(r, c)
  PROVE  /\ o \in Outcomes
         /\ o.job # None => o.status \in {"running", "exited", "interrupted"}
<1>1. ASSUME NEW j \in JobsOf(r)
      PROVE  j \in Commands /\ Reported(j) \in {"running", "exited", "interrupted"}
  BY NoneAssumption DEF JobsOf, Reported, Running, TypeOK, Processes, NoProcess
<1>2. /\ Failure \in Outcomes /\ Failure.job = None
      /\ \A j \in Commands, st \in {"running", "exited", "interrupted"} :
           Report(j, st) \in Outcomes /\ Report(j, st).status = st
  BY DEF Failure, Report, Outcomes, JobStatuses
<1>3. \/ o = Failure
      \/ o = [ok |-> TRUE, job |-> None, status |-> "none"]
      \/ o = Report(c, "running")
      \/ \E j \in JobsOf(r) : o = Report(j, Reported(j)) \/ o = Report(j, "interrupted")
  <2>1. CASE Type[c] = "run_shell"
    BY <2>1 DEF RunnerOutcomes
  <2>2. CASE Type[c] = "start_job"
    BY <2>2 DEF RunnerOutcomes
  <2>3. CASE Type[c] \in {"job_status", "tail_job"}
    BY <2>3 DEF RunnerOutcomes
  <2>4. CASE Type[c] = "interrupt_job"
    BY <2>4 DEF RunnerOutcomes
  <2>5. QED
    BY <2>1, <2>2, <2>3, <2>4, TypeAssumption DEF CommandTypes
<1>4. CASE o = [ok |-> TRUE, job |-> None, status |-> "none"]
  BY <1>4 DEF Outcomes
<1>5. QED
  BY <1>1, <1>2, <1>3, <1>4

\* Every step keeps the type.
LEMMA NextType == TypeOK /\ [Next]_vars => TypeOK'
<1> SUFFICES ASSUME TypeOK, [Next]_vars PROVE TypeOK'
  OBVIOUS
<1> USE DEF memory, runner, Enter
<1>1. ASSUME NEW c \in Commands, CreateCommandRequest(c) PROVE TypeOK'
  <2>1. PICK w \in ToRestore : /\ broker' = CreateCommand(Restored(w), c)
                               /\ runnerSocket' = SocketAfter(w)
    BY <1>1 DEF CreateCommandRequest
  <2>2. broker' \in BrokerState /\ runnerSocket' \in Sockets \cup {None}
    BY <2>1, RestoredType, CreateCommandType
  <2>3. disk' \in StoredRows
    BY <1>1, <2>2, PersistType DEF CreateCommandRequest
  <2>4. QED
    BY <1>1, <2>2, <2>3 DEF CreateCommandRequest, TypeOK, CommandStates
<1>2. ASSUME NEW c \in Commands, SendCommandToRunnerSocket(c) PROVE TypeOK'
  <2> DEFINE s == broker.handler
  <2>1. s \in Sockets \cup {None}
    BY DEF TypeOK, BrokerState
  <2>2. CASE conn[s] \in {"closing", "closed"}
    <3>1. broker' \in BrokerState
      BY <1>2, <2>2, RejectAllType DEF SendCommandToRunnerSocket, TypeOK
    <3>2. disk' \in StoredRows
      BY <1>2, <2>2, <3>1, PersistType DEF SendCommandToRunnerSocket
    <3>3. request' \in [Commands -> {"none", "waiting", "lost"} \cup CommandStates]
      BY <1>2, <2>2, <3>1, AnswerAllType DEF SendCommandToRunnerSocket, TypeOK
    <3>4. QED
      BY <1>2, <2>2, <3>1, <3>2, <3>3 DEF SendCommandToRunnerSocket, TypeOK
  <2>3. CASE conn[s] \notin {"closing", "closed"}
    <3>1. /\ pending' = [pending EXCEPT ![c] = s]
          /\ task' \in {task, [task EXCEPT ![s][c] = "sent"]}
          /\ deliveries' = [deliveries EXCEPT ![c] = @ + 1]
          /\ UNCHANGED <<broker, disk, request, runnerSocket, conn, inbox, process, restarts>>
      BY <1>2, <2>3 DEF SendCommandToRunnerSocket
    <3>2. task' \in [Sockets -> [Commands -> {"none", "sent", "executing"}]]
      <4> DEFINE T == [Commands -> {"none", "sent", "executing"}]
      <4>1. ASSUME s \in Sockets PROVE [task[s] EXCEPT ![c] = "sent"] \in T
        BY <4>1 DEF TypeOK
      <4>2. [task EXCEPT ![s] = [task[s] EXCEPT ![c] = "sent"]] \in [Sockets -> T]
        <5> HIDE DEF T
        <5>1. task \in [Sockets -> T]
          BY DEF TypeOK, T
        <5>2. QED
          BY <4>1, <5>1
      <4>3. QED
        BY <3>1, <4>2 DEF TypeOK
    <3>3. QED
      BY <1>2, <2>1, <3>1, <3>2 DEF SendCommandToRunnerSocket, TypeOK
  <2>4. QED
    BY <2>2, <2>3
<1>3. ASSUME NEW c \in Commands, DeadlinePasses(c) PROVE TypeOK'
  <2>1. broker' \in BrokerState
    BY <1>3, RejectAllType DEF DeadlinePasses, TypeOK
  <2>2. disk' \in StoredRows
    BY <1>3, <2>1, PersistType DEF DeadlinePasses
  <2>3. request' \in [Commands -> {"none", "waiting", "lost"} \cup CommandStates]
    BY <1>3, <2>1, AnswerAllType DEF DeadlinePasses, TypeOK
  <2>4. QED
    BY <1>3, <2>1, <2>2, <2>3 DEF DeadlinePasses, TypeOK
<1>4. ASSUME NEW j \in Commands, JobExits(j) PROVE TypeOK'
  <2> DEFINE ended == IF process[j].status = "running" THEN "exited" ELSE "interrupted"
  <2>1. process[j] \in [status : {"running", "stopping"}, runner : Runners]
    BY <1>4 DEF JobExits, Running, TypeOK, Processes, NoProcess
  <2>2. [process[j] EXCEPT !.status = ended] \in Processes
    BY <2>1 DEF Processes
  <2>3. process' = [process EXCEPT ![j] = [process[j] EXCEPT !.status = ended]]
    BY <1>4 DEF JobExits
  <2>4. QED
    BY <1>4, <2>2, <2>3 DEF JobExits, TypeOK
<1>5. CASE Query
  <2>1. PICK w \in ToRestore : w \in Sockets /\ broker' = Restored(w) /\ runnerSocket' = w
    BY <1>5 DEF Query, ToRestore, GetWebSockets
  <2>2. broker' \in BrokerState
    BY <2>1, RestoredType
  <2>3. disk' \in StoredRows
    BY <1>5, <2>2, PersistType DEF Query
  <2>4. QED
    BY <1>5, <2>1, <2>2, <2>3 DEF Query, TypeOK
<1>6. CASE RejectedEntry \/ RefusedRequest
  BY <1>6, PersistType DEF RejectedEntry, RefusedRequest, GetWebSockets, TypeOK
<1>7. CASE RevokeRequest
  <2>1. PICK w \in ToRestore : broker' = Revoke(Restored(w)) /\ runnerSocket' = SocketAfter(w)
    BY <1>7 DEF RevokeRequest
  <2>2. broker' \in BrokerState /\ runnerSocket' \in Sockets \cup {None}
    BY <2>1, RestoredType, RevokeType
  <2>3. disk' \in StoredRows
    BY <1>7, <2>2, PersistType DEF RevokeRequest
  <2>4. QED
    BY <1>7, <2>2, <2>3 DEF RevokeRequest, TypeOK
<1>8. ASSUME NEW s \in Sockets, AcceptRunnerWebSocket(s) PROVE TypeOK'
  <2>1. PICK w \in ToRestore :
          /\ broker' = AttachRunner(Restored(w), s)
          /\ conn' = [t \in Sockets |-> IF t = s THEN "open"
                                        ELSE IF t = SocketAfter(w) /\ conn[t] = "open"
                                             THEN "closing" ELSE conn[t]]
    BY <1>8 DEF AcceptRunnerWebSocket
  <2>2. broker' \in BrokerState
    BY <2>1, RestoredType, AttachRunnerType
  <2>3. disk' \in StoredRows
    BY <1>8, <2>2, PersistType DEF AcceptRunnerWebSocket
  <2>4. conn' \in [Sockets -> ConnStates]
    BY <2>1 DEF TypeOK, ConnStates
  <2>5. QED
    BY <1>8, <2>2, <2>3, <2>4 DEF AcceptRunnerWebSocket, TypeOK
<1>9. ASSUME NEW s \in Sockets, WebSocketHeartbeat(s) PROVE TypeOK'
  <2>1. PICK w \in ToRestore : /\ broker' = RecordRunnerActivity(Restored(w), Owner[s])
                               /\ runnerSocket' = SocketAfter(w)
    BY <1>9 DEF WebSocketHeartbeat
  <2>2. broker' \in BrokerState /\ runnerSocket' \in Sockets \cup {None}
    BY <2>1, RestoredType, RecordRunnerActivityType
  <2>3. disk' \in StoredRows
    BY <1>9, <2>2, PersistType DEF WebSocketHeartbeat
  <2>4. QED
    BY <1>9, <2>2, <2>3 DEF WebSocketHeartbeat, TypeOK
<1>10. ASSUME NEW s \in Sockets, WebSocketAck(s) PROVE TypeOK'
  <2>1. PICK w \in ToRestore :
          /\ runnerSocket' = SocketAfter(w)
          /\ IF w # None /\ ~Live(broker)
             THEN UNCHANGED <<broker, disk>>
             ELSE RecordAndPersist(
                    AcknowledgeFromRunner(Restored(w), Head(inbox[s]).cmd, Owner[s]), Owner[s])
    BY <1>10 DEF WebSocketAck
  <2>2. Head(inbox[s]) \in Messages /\ Head(inbox[s]).cmd \in Commands
    BY <1>10 DEF WebSocketAck, TypeOK, Messages
  <2>3. AcknowledgeFromRunner(Restored(w), Head(inbox[s]).cmd, Owner[s]) \in BrokerState
    BY <2>2, RestoredType, AcknowledgeFromRunnerType
  <2>4. broker' \in BrokerState /\ disk' \in StoredRows
    BY <2>1, <2>3, RecordAndPersistType, OwnerAssumption DEF TypeOK
  <2>5. inbox' \in [Sockets -> Seq(Messages)]
    BY <1>10 DEF WebSocketAck, TypeOK
  <2>6. runnerSocket' \in Sockets \cup {None}
    BY <2>1, RestoredType
  <2>7. QED
    BY <1>10, <2>4, <2>5, <2>6 DEF WebSocketAck, TypeOK
<1>11. ASSUME NEW s \in Sockets, WebSocketResult(s) PROVE TypeOK'
  <2> DEFINE c       == Head(inbox[s]).cmd
             outcome == Head(inbox[s]).outcome
             Rejected(w) == w # None /\ ~Live(broker)
             Unawaited == pending[c] = None \/ ~Live(broker)
             applied(w)  == ApplyRunnerResult(Restored(w), c, Owner[s], outcome)
             accepted(w) == Accepts(Restored(w), c, Owner[s])
  <2>1. PICK w \in ToRestore :
          /\ runnerSocket' = SocketAfter(w)
          /\ IF Rejected(w)
             THEN UNCHANGED <<broker, disk, pending, request>>
             ELSE IF Unawaited
             THEN RecordAndPersist(applied(w), Owner[s]) /\ UNCHANGED <<pending, request>>
             ELSE SettlePending(RecordRunnerActivity(applied(w), Owner[s]), c,
                                accepted(w), outcome)
    BY <1>11 DEF WebSocketResult
  <2>2. c \in Commands /\ outcome \in Outcomes
    <3>1. Head(inbox[s]) \in Messages
      BY <1>11 DEF WebSocketResult, TypeOK
    <3>2. QED
      BY <1>11, <3>1 DEF WebSocketResult, Messages
  <2>3. applied(w) \in BrokerState
    BY <2>2, RestoredType, ApplyRunnerResultType
  <2>4. RecordRunnerActivity(applied(w), Owner[s]) \in BrokerState
    BY <2>3, RecordRunnerActivityType
  <2>5. /\ broker' \in BrokerState
        /\ disk' \in StoredRows
        /\ pending' \in [Commands -> Sockets \cup {None}]
        /\ request' \in [Commands -> {"none", "waiting", "lost"} \cup CommandStates]
    <3>1. CASE Rejected(w)
      BY <2>1, <3>1 DEF TypeOK
    <3>2. CASE ~Rejected(w) /\ Unawaited
      BY <2>1, <2>3, <3>2, RecordAndPersistType, OwnerAssumption DEF TypeOK
    <3>3. CASE ~Rejected(w) /\ ~Unawaited
      <4>1. SettlePending(RecordRunnerActivity(applied(w), Owner[s]), c, accepted(w), outcome)
        BY <2>1, <3>3
      <4>2. QED
        BY <2>2, <2>4, <4>1, SettlePendingType DEF TypeOK
    <3>4. QED
      BY <3>1, <3>2, <3>3
  <2>6. inbox' \in [Sockets -> Seq(Messages)]
    BY <1>11 DEF WebSocketResult, TypeOK
  <2>7. runnerSocket' \in Sockets \cup {None}
    BY <2>1, RestoredType
  <2>8. QED
    BY <1>11, <2>5, <2>6, <2>7 DEF WebSocketResult, TypeOK
<1>12. ASSUME NEW s \in Sockets, WebSocketClose(s) PROVE TypeOK'
  <2>1. broker' \in BrokerState
    BY <1>12, MarkRunnerDisconnectedType, RejectAllType DEF WebSocketClose, TypeOK
  <2>2. disk' \in StoredRows
    BY <1>12, <2>1, PersistType DEF WebSocketClose
  <2>3. request' \in [Commands -> {"none", "waiting", "lost"} \cup CommandStates]
    BY <1>12, <2>1, AnswerAllType DEF WebSocketClose, TypeOK
  <2>4. inbox' \in [Sockets -> Seq(Messages)]
    BY <1>12 DEF WebSocketClose, TypeOK
  <2>5. QED
    BY <1>12, <2>1, <2>2, <2>3, <2>4 DEF WebSocketClose, TypeOK, ConnStates
<1>13. ASSUME NEW s \in Sockets, NEW c \in Commands, RunnerReceives(s, c) PROVE TypeOK'
  <2>1. [kind |-> "ack", cmd |-> c] \in Messages
    BY DEF Messages
  <2>2. inbox' \in [Sockets -> Seq(Messages)]
    BY <1>13, <2>1 DEF RunnerReceives, TypeOK
  <2>3. QED
    BY <1>13, <2>2 DEF RunnerReceives, TypeOK
<1>14. ASSUME NEW s \in Sockets, NEW c \in Commands, RunnerFinishes(s, c) PROVE TypeOK'
  <2>1. PICK o \in RunnerOutcomes(Owner[s], c) :
          /\ inbox' = [inbox EXCEPT ![s] =
                         Append(@, [kind |-> "result", cmd |-> c, outcome |-> o])]
          /\ process' = IF o.ok /\ Type[c] \in {"start_job", "interrupt_job"}
                        THEN [process EXCEPT ![o.job] = ProcessAfter(c, o, Owner[s])]
                        ELSE process
    BY <1>14 DEF RunnerFinishes
  <2>2. o \in Outcomes /\ (o.job # None => o.status \in {"running", "exited", "interrupted"})
    BY RunnerOutcomesType, OwnerAssumption
  <2>3. [kind |-> "result", cmd |-> c, outcome |-> o] \in Messages
    BY <2>2 DEF Messages
  <2>4. inbox' \in [Sockets -> Seq(Messages)]
    BY <2>1, <2>3 DEF TypeOK
  <2>5. process' \in [Commands -> Processes]
    <3>1. ASSUME o.ok, Type[c] \in {"start_job", "interrupt_job"}
          PROVE  ProcessAfter(c, o, Owner[s]) \in Processes
      <4>1. o.job # None
        BY <3>1, JobOutcomesNameJobs
      <4>2. QED
        BY <2>2, <4>1, OwnerAssumption DEF ProcessAfter, Processes
    <3>2. QED
      BY <2>1, <3>1 DEF TypeOK
  <2>6. QED
    BY <1>14, <2>4, <2>5 DEF RunnerFinishes, TypeOK
<1>15. ASSUME NEW s \in Sockets, RunnerLeaves(s) PROVE TypeOK'
  BY <1>15 DEF RunnerLeaves, TypeOK, ConnStates
<1>16. CASE HeartbeatGoesStale
  <2>1. /\ [broker.session EXCEPT !.fresh = FALSE] \in SessionRow
        /\ [disk.session EXCEPT !.fresh = FALSE] \in SessionRow
    BY DEF TypeOK, BrokerState, StoredRows, SessionRow
  <2>2. /\ broker' = [broker EXCEPT !.session = [broker.session EXCEPT !.fresh = FALSE]]
        /\ disk' = [disk EXCEPT !.session = [disk.session EXCEPT !.fresh = FALSE]]
    BY <1>16 DEF HeartbeatGoesStale, TimePasses
  <2>3. broker' \in BrokerState /\ disk' \in StoredRows
    BY <2>1, <2>2 DEF TypeOK, BrokerState, StoredRows
  <2>4. QED
    BY <1>16, <2>3 DEF HeartbeatGoesStale, TimePasses, TypeOK
<1>17. CASE SessionExpires
  <2>1. /\ [broker.session EXCEPT !.expired = TRUE] \in SessionRow
        /\ [disk.session EXCEPT !.expired = TRUE] \in SessionRow
    BY DEF TypeOK, BrokerState, StoredRows, SessionRow
  <2>2. /\ broker' = [broker EXCEPT !.session = [broker.session EXCEPT !.expired = TRUE]]
        /\ disk' = [disk EXCEPT !.session = [disk.session EXCEPT !.expired = TRUE]]
    BY <1>17 DEF SessionExpires, TimePasses
  <2>3. broker' \in BrokerState /\ disk' \in StoredRows
    BY <2>1, <2>2 DEF TypeOK, BrokerState, StoredRows
  <2>4. QED
    BY <1>17, <2>3 DEF SessionExpires, TimePasses, TypeOK
<1>18. CASE Restart
  BY <1>18, MaxRestartsAssumption DEF Restart, TypeOK, BrokerState, StoredRows
<1>19. CASE UNCHANGED vars
  BY <1>19 DEF vars, TypeOK
<1>20. QED
  BY <1>1, <1>2, <1>3, <1>4, <1>5, <1>6, <1>7, <1>8, <1>9, <1>10, <1>11, <1>12, <1>13,
     <1>14, <1>15, <1>16, <1>17, <1>18, <1>19 DEF Next

\* Every variable keeps its type in every execution.
THEOREM TypeCorrect == Spec => []TypeOK
BY InitType, NextType, PTL DEF Spec

-----------------------------------------------------------------------------
(* A live session is in storage as it is in memory.                         *)

\* Every handler that changes a live session ends in persistState.
LEMMA LiveMemoryIsStoredNext ==
  TypeOK /\ LiveMemoryIsStored /\ [Next]_vars => LiveMemoryIsStored'
<1> SUFFICES ASSUME TypeOK, LiveMemoryIsStored, [Next]_vars PROVE LiveMemoryIsStored'
  OBVIOUS
<1>1. ASSUME PersistState PROVE LiveMemoryIsStored'
  BY <1>1 DEF PersistState, LiveMemoryIsStored
<1>2. ASSUME UNCHANGED <<broker, disk>> PROVE LiveMemoryIsStored'
  BY <1>2 DEF LiveMemoryIsStored, Live, Rows
<1>3. ASSUME NEW w \in ToRestore, ~(w # None /\ ~Live(broker)), NEW b \in BrokerState,
             SameSession(Restored(w), b), NEW r, RecordAndPersist(b, r)
      PROVE  LiveMemoryIsStored'
  <2>1. CASE Live(broker)
    BY <1>1, <1>3, <2>1 DEF RecordAndPersist
  <2>2. CASE ~Live(broker)
    <3>1. Restored(w) = broker
      BY <1>3, <2>2 DEF Restored
    <3>2. broker' = b /\ ~Live(b)
      BY <1>3, <2>2, <3>1 DEF RecordAndPersist, SameSession, Live
    <3>3. QED
      BY <3>2 DEF LiveMemoryIsStored, Live
  <2>3. QED
    BY <2>1, <2>2
<1>4. ASSUME NEW c \in Commands,
             CreateCommandRequest(c) \/ SendCommandToRunnerSocket(c) \/ DeadlinePasses(c)
      PROVE  LiveMemoryIsStored'
  BY <1>1, <1>2, <1>4 DEF CreateCommandRequest, SendCommandToRunnerSocket, DeadlinePasses
<1>5. CASE Query \/ RejectedEntry \/ RefusedRequest \/ RevokeRequest
  BY <1>1, <1>2, <1>5 DEF Query, RejectedEntry, RefusedRequest, RevokeRequest
<1>6. ASSUME NEW s \in Sockets,
             AcceptRunnerWebSocket(s) \/ WebSocketHeartbeat(s) \/ WebSocketClose(s)
      PROVE  LiveMemoryIsStored'
  BY <1>1, <1>6 DEF AcceptRunnerWebSocket, WebSocketHeartbeat, WebSocketClose
<1>7. ASSUME NEW s \in Sockets, WebSocketAck(s) PROVE LiveMemoryIsStored'
  <2> DEFINE c    == Head(inbox[s]).cmd
             a(w) == AcknowledgeFromRunner(Restored(w), c, Owner[s])
  <2>1. PICK w \in ToRestore : IF w # None /\ ~Live(broker)
                               THEN UNCHANGED <<broker, disk>>
                               ELSE RecordAndPersist(a(w), Owner[s])
    BY <1>7 DEF WebSocketAck
  <2>2. c \in Commands
    BY <1>7, HeadType DEF WebSocketAck
  <2>3. a(w) \in BrokerState /\ SameSession(Restored(w), a(w))
    BY <2>2, RestoredType, AcknowledgeFromRunnerType, AcknowledgeFromRunnerFrame
  <2>4. CASE w # None /\ ~Live(broker)
    BY <1>2, <2>1, <2>4
  <2>5. CASE ~(w # None /\ ~Live(broker))
    BY <1>3, <2>1, <2>3, <2>5
  <2>6. QED
    BY <2>4, <2>5
<1>8. ASSUME NEW s \in Sockets, WebSocketResult(s) PROVE LiveMemoryIsStored'
  <2> DEFINE c         == Head(inbox[s]).cmd
             outcome   == Head(inbox[s]).outcome
             a(w)      == ApplyRunnerResult(Restored(w), c, Owner[s], outcome)
             Settle(w) == SettlePending(RecordRunnerActivity(a(w), Owner[s]), c,
                                        Accepts(Restored(w), c, Owner[s]), outcome)
  <2>1. PICK w \in ToRestore :
          IF w # None /\ ~Live(broker)
          THEN UNCHANGED <<broker, disk, pending, request>>
          ELSE IF pending[c] = None \/ ~Live(broker)
          THEN RecordAndPersist(a(w), Owner[s]) /\ UNCHANGED <<pending, request>>
          ELSE Settle(w)
    BY <1>8 DEF WebSocketResult
  <2>2. c \in Commands /\ outcome \in Outcomes
    BY <1>8, HeadType DEF WebSocketResult
  <2>3. a(w) \in BrokerState /\ SameSession(Restored(w), a(w))
    BY <2>2, RestoredType, ApplyRunnerResultType, ApplyRunnerResultFrame
  <2>4. CASE w # None /\ ~Live(broker)
    BY <1>2, <2>1, <2>4
  <2>5. CASE ~(w # None /\ ~Live(broker)) /\ (pending[c] = None \/ ~Live(broker))
    BY <1>3, <2>1, <2>3, <2>5
  <2>6. CASE ~(w # None /\ ~Live(broker)) /\ ~(pending[c] = None \/ ~Live(broker))
    BY <1>1, <2>1, <2>6 DEF SettlePending
  <2>7. QED
    BY <2>4, <2>5, <2>6
<1>9. ASSUME NEW s \in Sockets, NEW c \in Commands,
             RunnerReceives(s, c) \/ RunnerFinishes(s, c)
      PROVE  LiveMemoryIsStored'
  BY <1>2, <1>9 DEF RunnerReceives, RunnerFinishes, memory
<1>10. CASE HeartbeatGoesStale
  <2>1. /\ broker' = [broker EXCEPT !.session = [broker.session EXCEPT !.fresh = FALSE]]
        /\ disk' = [disk EXCEPT !.session = [disk.session EXCEPT !.fresh = FALSE]]
    BY <1>10 DEF HeartbeatGoesStale, TimePasses
  <2>2. Live(broker)' => Live(broker)
    BY <2>1 DEF Live, TypeOK, BrokerState, SessionRow
  <2>3. ASSUME disk = Rows(broker) PROVE disk' = Rows(broker)'
    BY <2>1, <2>3 DEF Rows, TypeOK, BrokerState
  <2>4. QED
    BY <2>2, <2>3 DEF LiveMemoryIsStored
<1>11. CASE SessionExpires
  BY <1>11 DEF SessionExpires, TimePasses, LiveMemoryIsStored, Live, TypeOK, BrokerState,
               SessionRow
<1>12. CASE Restart
  BY <1>12 DEF Restart, LiveMemoryIsStored, Rows, TypeOK, StoredRows
<1>13. CASE UNCHANGED vars
  BY <1>2, <1>13 DEF vars, memory
<1>14. ASSUME NEW c \in Commands, JobExits(c) PROVE LiveMemoryIsStored'
  BY <1>2, <1>14 DEF JobExits, memory
<1>15. ASSUME NEW s \in Sockets, RunnerLeaves(s) PROVE LiveMemoryIsStored'
  BY <1>2, <1>15 DEF RunnerLeaves, memory
<1>16. QED
  BY <1>4, <1>5, <1>6, <1>7, <1>8, <1>9, <1>10, <1>11, <1>12, <1>13, <1>14, <1>15 DEF Next

\* While the session is live, a restart forgets nothing that is in a row.
THEOREM LiveMemoryIsStoredAlways == Spec => []LiveMemoryIsStored
<1>1. Init => LiveMemoryIsStored
  BY DEF Init, LiveMemoryIsStored
<1>2. QED
  BY <1>1, TypeCorrect, LiveMemoryIsStoredNext, PTL DEF Spec

-----------------------------------------------------------------------------
(* Commands are routed to the current runner instance.                      *)

\* RoutedToCurrentRunner of a broker b beside the remembered socket rs.
Routed(b, rs) ==
  Live(b) /\ b.handler # None => b.handler = rs /\ Owner[b.handler] = b.session.runner

\* A restore picks the handler and the socket together.
LEMMA RestoredRouted ==
  ASSUME TypeOK, RoutedToCurrentRunner, NEW w \in ToRestore
  PROVE  Routed(Restored(w), SocketAfter(w))
<1>1. CASE w = None
  BY <1>1 DEF Routed, RoutedToCurrentRunner, Restored, SocketAfter
<1>2. CASE w # None
  BY <1>2, RestoredType, AttachRunnerFrame
     DEF TypeOK, Routed, Restored, SocketAfter
<1>3. QED
  BY <1>1, <1>2

\* Only attach, restore, disconnect and revoke touch the route.
LEMMA SameSessionRouted ==
  ASSUME NEW b, NEW a, NEW rs, Routed(b, rs), SameSession(b, a)
  PROVE  Routed(a, rs)
BY DEF Routed, SameSession, Live

\* Recording activity keeps the route.
LEMMA RecordRunnerActivityRouted ==
  ASSUME NEW b \in BrokerState, NEW r, NEW rs, Routed(b, rs)
  PROVE  Routed(RecordRunnerActivity(b, r), rs)
BY RecordRunnerActivityFrame DEF Routed, Live

\* The memory a step leaves is routed.
LEMMA RoutedNext ==
  TypeOK /\ RoutedToCurrentRunner /\ [Next]_vars => RoutedToCurrentRunner'
<1> SUFFICES ASSUME TypeOK, RoutedToCurrentRunner, [Next]_vars PROVE RoutedToCurrentRunner'
  OBVIOUS
<1>0. Routed(broker, runnerSocket) /\ broker \in BrokerState
  BY DEF RoutedToCurrentRunner, Routed, TypeOK
<1>1. ASSUME Routed(broker', runnerSocket') PROVE RoutedToCurrentRunner'
  BY <1>1 DEF Routed, RoutedToCurrentRunner, Live
<1>2. ASSUME UNCHANGED <<broker, runnerSocket>> PROVE RoutedToCurrentRunner'
  BY <1>0, <1>1, <1>2
<1>3. ASSUME NEW b \in BrokerState, NEW r, Routed(b, runnerSocket'), RecordAndPersist(b, r)
      PROVE  RoutedToCurrentRunner'
  BY <1>1, <1>3, RecordRunnerActivityRouted DEF RecordAndPersist
<1>4. ASSUME NEW c \in Commands, CreateCommandRequest(c) PROVE RoutedToCurrentRunner'
  BY <1>1, <1>4, RestoredType, RestoredRouted, CreateCommandFrame, SameSessionRouted
     DEF CreateCommandRequest
<1>5. ASSUME NEW c \in Commands, SendCommandToRunnerSocket(c) \/ DeadlinePasses(c)
      PROVE  RoutedToCurrentRunner'
  <2>1. runnerSocket' = runnerSocket /\ broker' \in {broker, RejectAll(broker, {c})}
    BY <1>5 DEF SendCommandToRunnerSocket, DeadlinePasses
  <2>2. SameSession(broker, broker')
    BY <1>0, <2>1, RejectAllFrame DEF SameSession
  <2>3. QED
    BY <1>0, <1>1, <2>1, <2>2, SameSessionRouted
<1>6. CASE Query
  <2>1. PICK w \in ToRestore : w # None /\ broker' = Restored(w) /\ runnerSocket' = w
    BY <1>6, NoneAssumption DEF Query, ToRestore, GetWebSockets
  <2>2. QED
    BY <1>1, <2>1, RestoredRouted DEF SocketAfter
<1>7. CASE RejectedEntry \/ RefusedRequest
  BY <1>0, <1>1, <1>7 DEF RejectedEntry, RefusedRequest, Routed
<1>8. CASE RevokeRequest
  BY <1>1, <1>8, RestoredType DEF RevokeRequest, Revoke, Routed, BrokerState
<1>9. ASSUME NEW s \in Sockets, AcceptRunnerWebSocket(s) PROVE RoutedToCurrentRunner'
  BY <1>1, <1>9, RestoredType, AttachRunnerFrame DEF AcceptRunnerWebSocket, Routed
<1>10. ASSUME NEW s \in Sockets, WebSocketHeartbeat(s) PROVE RoutedToCurrentRunner'
  BY <1>1, <1>10, RestoredType, RestoredRouted, RecordRunnerActivityRouted
     DEF WebSocketHeartbeat
<1>11. ASSUME NEW s \in Sockets, WebSocketAck(s) PROVE RoutedToCurrentRunner'
  <2> DEFINE c    == Head(inbox[s]).cmd
             a(w) == AcknowledgeFromRunner(Restored(w), c, Owner[s])
  <2>1. PICK w \in ToRestore : /\ runnerSocket' = SocketAfter(w)
                               /\ IF w # None /\ ~Live(broker)
                                  THEN UNCHANGED <<broker, disk>>
                                  ELSE RecordAndPersist(a(w), Owner[s])
    BY <1>11 DEF WebSocketAck
  <2>2. c \in Commands
    BY <1>11, HeadType DEF WebSocketAck
  <2>3. a(w) \in BrokerState /\ Routed(a(w), runnerSocket')
    <3>1. a(w) \in BrokerState /\ SameSession(Restored(w), a(w))
      BY <2>2, RestoredType, AcknowledgeFromRunnerType, AcknowledgeFromRunnerFrame
    <3>2. QED
      BY <2>1, <3>1, RestoredRouted, SameSessionRouted
  <2>4. CASE w # None /\ ~Live(broker)
    BY <1>1, <2>1, <2>4 DEF Routed
  <2>5. CASE ~(w # None /\ ~Live(broker))
    BY <1>3, <2>1, <2>3, <2>5
  <2>6. QED
    BY <2>4, <2>5
<1>12. ASSUME NEW s \in Sockets, WebSocketResult(s) PROVE RoutedToCurrentRunner'
  <2> DEFINE c         == Head(inbox[s]).cmd
             outcome   == Head(inbox[s]).outcome
             a(w)      == ApplyRunnerResult(Restored(w), c, Owner[s], outcome)
             Settle(w) == SettlePending(RecordRunnerActivity(a(w), Owner[s]), c,
                                        Accepts(Restored(w), c, Owner[s]), outcome)
  <2>1. PICK w \in ToRestore :
          /\ runnerSocket' = SocketAfter(w)
          /\ IF w # None /\ ~Live(broker)
             THEN UNCHANGED <<broker, disk, pending, request>>
             ELSE IF pending[c] = None \/ ~Live(broker)
             THEN RecordAndPersist(a(w), Owner[s]) /\ UNCHANGED <<pending, request>>
             ELSE Settle(w)
    BY <1>12 DEF WebSocketResult
  <2>2. c \in Commands /\ outcome \in Outcomes
    BY <1>12, HeadType DEF WebSocketResult
  <2>3. a(w) \in BrokerState /\ Routed(a(w), runnerSocket')
    <3>1. a(w) \in BrokerState /\ SameSession(Restored(w), a(w))
      BY <2>2, RestoredType, ApplyRunnerResultType, ApplyRunnerResultFrame
    <3>2. QED
      BY <2>1, <3>1, RestoredRouted, SameSessionRouted
  <2>4. CASE w # None /\ ~Live(broker)
    BY <1>1, <2>1, <2>4 DEF Routed
  <2>5. CASE ~(w # None /\ ~Live(broker)) /\ (pending[c] = None \/ ~Live(broker))
    BY <1>3, <2>1, <2>3, <2>5
  <2>6. CASE ~(w # None /\ ~Live(broker)) /\ ~(pending[c] = None \/ ~Live(broker))
    <3> DEFINE d == RecordRunnerActivity(a(w), Owner[s])
    <3>1. d \in BrokerState /\ Routed(d, runnerSocket')
      BY <2>3, RecordRunnerActivityType, RecordRunnerActivityRouted
    <3>2. SettlePending(d, c, Accepts(Restored(w), c, Owner[s]), outcome)
      BY <2>1, <2>6
    <3>3. broker' \in {ResumeCreateCommand(d, c, outcome), RejectAll(d, {c})}
      BY <3>2 DEF SettlePending
    <3>4. SameSession(d, broker')
      BY <2>2, <3>1, <3>3, ResumeCreateCommandFrame, RejectAllFrame
    <3>5. QED
      BY <1>1, <3>1, <3>4, SameSessionRouted
  <2>7. QED
    BY <2>4, <2>5, <2>6
<1>13. ASSUME NEW s \in Sockets, WebSocketClose(s) PROVE RoutedToCurrentRunner'
  <2> DEFINE d == MarkRunnerDisconnected(broker, Owner[s])
  <2>1. /\ broker' = RejectAll(d, PendingOn(s))
        /\ runnerSocket' = IF runnerSocket = s THEN None ELSE runnerSocket
    BY <1>13 DEF WebSocketClose
  <2>2. d \in BrokerState /\ SameSession(d, broker')
    BY <1>0, <2>1, MarkRunnerDisconnectedType, RejectAllFrame
  <2>3. Routed(d, runnerSocket')
    BY <1>0, <2>1, MarkRunnerDisconnectedFrame DEF Routed, Live
  <2>4. QED
    BY <1>1, <2>2, <2>3, SameSessionRouted
<1>14. ASSUME NEW s \in Sockets, NEW c \in Commands,
              RunnerReceives(s, c) \/ RunnerFinishes(s, c)
       PROVE  RoutedToCurrentRunner'
  BY <1>2, <1>14 DEF RunnerReceives, RunnerFinishes, memory
<1>15. ASSUME NEW s \in Sockets, RunnerLeaves(s) PROVE RoutedToCurrentRunner'
  BY <1>2, <1>15 DEF RunnerLeaves, memory
<1>16. ASSUME NEW j \in Commands, JobExits(j) PROVE RoutedToCurrentRunner'
  BY <1>2, <1>16 DEF JobExits, memory
<1>17. ASSUME NEW session \in SessionRow, TimePasses(session),
              session.runner = broker.session.runner,
              ~session.revoked /\ ~session.expired => Live(broker)
       PROVE  RoutedToCurrentRunner'
  BY <1>0, <1>1, <1>17 DEF TimePasses, Routed, Live, BrokerState
<1>18. CASE HeartbeatGoesStale
  <2>1. [broker.session EXCEPT !.fresh = FALSE] \in SessionRow
    BY <1>0 DEF BrokerState, SessionRow
  <2>2. QED
    BY <1>0, <1>17, <1>18, <2>1 DEF HeartbeatGoesStale, Live, BrokerState, SessionRow
<1>19. CASE SessionExpires
  <2>1. [broker.session EXCEPT !.expired = TRUE] \in SessionRow
    BY <1>0 DEF BrokerState, SessionRow
  <2>2. QED
    BY <1>0, <1>17, <1>19, <2>1 DEF SessionExpires, Live, BrokerState, SessionRow
<1>20. CASE Restart
  BY <1>1, <1>20 DEF Restart, Routed
<1>21. CASE UNCHANGED vars
  BY <1>2, <1>21 DEF vars, memory
<1>22. QED
  BY <1>4, <1>5, <1>6, <1>7, <1>8, <1>9, <1>10, <1>11, <1>12, <1>13, <1>14, <1>15, <1>16,
     <1>18, <1>19, <1>20, <1>21 DEF Next

\* Commands only ever go to the socket of the instance in the session row.
THEOREM RoutedToCurrentRunnerAlways == Spec => []RoutedToCurrentRunner
<1>1. Init => RoutedToCurrentRunner
  BY DEF Init, CreateSession, RoutedToCurrentRunner
<1>2. QED
  BY <1>1, TypeCorrect, RoutedNext, PTL DEF Spec

-----------------------------------------------------------------------------
(* No command is delivered twice.                                           *)

\* The inductive form of DeliveredAtMostOnce: a command without a row, in
\* memory or in storage, or with its send still ahead, was not delivered.
UndeliveredUntilSent ==
  \A c \in Commands :
    /\ deliveries[c] <= 1
    /\ "absent" \in {broker.cmd[c].state, disk.cmd[c].state} => deliveries[c] = 0
    /\ sending = c => /\ deliveries[c] = 0
                      /\ "absent" \notin {broker.cmd[c].state, disk.cmd[c].state}

\* A restore changes no command row.
LEMMA RestoredCommands ==
  ASSUME TypeOK, NEW w \in ToRestore
  PROVE  Restored(w).cmd = broker.cmd
BY RestoredType, AttachRunnerFrame DEF Restored, TypeOK

\* Every step but a restart keeps the rows in memory.
LEMMA StepKeepsCommands ==
  ASSUME TypeOK, [Next]_vars, ~Restart
  PROVE  KeepsCommands(broker, broker')
<1>0. broker \in BrokerState
  BY DEF TypeOK
<1>1. ASSUME broker'.cmd = broker.cmd PROVE KeepsCommands(broker, broker')
  BY <1>1 DEF KeepsCommands
<1>2. ASSUME NEW w \in ToRestore, NEW b \in BrokerState, KeepsCommands(Restored(w), b), NEW r,
             RecordAndPersist(b, r) \/ UNCHANGED broker
      PROVE  KeepsCommands(broker, broker')
  BY <1>1, <1>2, RestoredCommands, RecordRunnerActivityFrame DEF RecordAndPersist, KeepsCommands
<1>3. ASSUME NEW c \in Commands, CreateCommandRequest(c) PROVE KeepsCommands(broker, broker')
  BY <1>3, RestoredType, RestoredCommands, CreateCommandFrame
     DEF CreateCommandRequest, KeepsCommands
<1>4. ASSUME NEW c \in Commands, SendCommandToRunnerSocket(c) \/ DeadlinePasses(c)
      PROVE  KeepsCommands(broker, broker')
  <2>1. broker' \in {broker, RejectAll(broker, {c})}
    BY <1>4 DEF SendCommandToRunnerSocket, DeadlinePasses
  <2>2. QED
    BY <1>0, <2>1, RejectAllFrame DEF KeepsCommands
<1>5. CASE Query \/ RejectedEntry \/ RefusedRequest
  <2>1. broker'.cmd = broker.cmd
    <3>1. CASE Query
      <4>1. PICK w \in ToRestore : broker' = Restored(w)
        BY <1>5, <3>1 DEF Query, ToRestore
      <4>2. QED
        BY <4>1, RestoredCommands
    <3>2. QED
      BY <1>5, <3>1 DEF RejectedEntry, RefusedRequest
  <2>2. QED
    BY <1>1, <2>1
<1>6. CASE RevokeRequest
  BY <1>1, <1>6, RestoredType, RestoredCommands DEF RevokeRequest, Revoke, BrokerState
<1>7. ASSUME NEW s \in Sockets, AcceptRunnerWebSocket(s) PROVE KeepsCommands(broker, broker')
  BY <1>1, <1>7, RestoredType, RestoredCommands, AttachRunnerFrame DEF AcceptRunnerWebSocket
<1>8. ASSUME NEW s \in Sockets, WebSocketHeartbeat(s) PROVE KeepsCommands(broker, broker')
  BY <1>1, <1>8, RestoredType, RestoredCommands, RecordRunnerActivityFrame
     DEF WebSocketHeartbeat
<1>9. ASSUME NEW s \in Sockets, WebSocketAck(s) PROVE KeepsCommands(broker, broker')
  <2> DEFINE c    == Head(inbox[s]).cmd
             a(w) == AcknowledgeFromRunner(Restored(w), c, Owner[s])
  <2>1. PICK w \in ToRestore : UNCHANGED broker \/ RecordAndPersist(a(w), Owner[s])
    BY <1>9 DEF WebSocketAck
  <2>2. c \in Commands
    BY <1>9, HeadType DEF WebSocketAck
  <2>3. a(w) \in BrokerState /\ KeepsCommands(Restored(w), a(w))
    BY <2>2, RestoredType, AcknowledgeFromRunnerType, AcknowledgeFromRunnerFrame
  <2>4. QED
    BY <1>2, <2>1, <2>3
<1>10. ASSUME NEW s \in Sockets, WebSocketResult(s) PROVE KeepsCommands(broker, broker')
  <2> DEFINE c         == Head(inbox[s]).cmd
             outcome   == Head(inbox[s]).outcome
             a(w)      == ApplyRunnerResult(Restored(w), c, Owner[s], outcome)
             d(w)      == RecordRunnerActivity(a(w), Owner[s])
             Settle(w) == SettlePending(d(w), c, Accepts(Restored(w), c, Owner[s]), outcome)
  <2>1. PICK w \in ToRestore : \/ UNCHANGED broker
                               \/ RecordAndPersist(a(w), Owner[s])
                               \/ Settle(w)
    BY <1>10 DEF WebSocketResult
  <2>2. c \in Commands /\ outcome \in Outcomes
    BY <1>10, HeadType DEF WebSocketResult
  <2>3. a(w) \in BrokerState /\ KeepsCommands(Restored(w), a(w))
    BY <2>2, RestoredType, ApplyRunnerResultType, ApplyRunnerResultFrame
  <2>4. CASE Settle(w)
    <3>1. d(w) \in BrokerState /\ d(w).cmd = a(w).cmd
      BY <2>3, RecordRunnerActivityType, RecordRunnerActivityFrame
    <3>2. broker' \in {ResumeCreateCommand(d(w), c, outcome), RejectAll(d(w), {c})}
      BY <2>4 DEF SettlePending
    <3>3. KeepsCommands(d(w), broker')
      BY <2>2, <3>1, <3>2, ResumeCreateCommandFrame, RejectAllFrame
    <3>4. QED
      BY <2>3, <3>1, <3>3, RestoredCommands DEF KeepsCommands
  <2>5. QED
    BY <1>2, <2>1, <2>3, <2>4
<1>11. ASSUME NEW s \in Sockets, WebSocketClose(s) PROVE KeepsCommands(broker, broker')
  BY <1>0, <1>11, MarkRunnerDisconnectedType, MarkRunnerDisconnectedFrame, RejectAllFrame
     DEF WebSocketClose, KeepsCommands
<1>12. ASSUME NEW s \in Sockets, NEW c \in Commands,
              RunnerReceives(s, c) \/ RunnerFinishes(s, c)
       PROVE  KeepsCommands(broker, broker')
  BY <1>1, <1>12 DEF RunnerReceives, RunnerFinishes, memory
<1>13. ASSUME NEW s \in Sockets, RunnerLeaves(s) PROVE KeepsCommands(broker, broker')
  BY <1>1, <1>13 DEF RunnerLeaves, memory
<1>14. ASSUME NEW j \in Commands, JobExits(j) PROVE KeepsCommands(broker, broker')
  BY <1>1, <1>14 DEF JobExits, memory
<1>15. CASE HeartbeatGoesStale \/ SessionExpires
  BY <1>0, <1>1, <1>15 DEF HeartbeatGoesStale, SessionExpires, TimePasses, BrokerState
<1>16. CASE UNCHANGED vars
  BY <1>1, <1>16 DEF vars, memory
<1>17. QED
  BY <1>3, <1>4, <1>5, <1>6, <1>7, <1>8, <1>9, <1>10, <1>11, <1>12, <1>13, <1>14, <1>15,
     <1>16 DEF Next

\* A step that sends nothing leaves storage as it was or as memory is now.
LEMMA StepStores ==
  ASSUME TypeOK, [Next]_vars, ~Restart
  PROVE  disk'.cmd \in {disk.cmd, broker'.cmd}
<1>1. ASSUME PersistState PROVE disk'.cmd = broker'.cmd
  BY <1>1 DEF PersistState, Rows
<1>2. ASSUME NEW s \in Sockets, WebSocketAck(s) \/ WebSocketResult(s)
      PROVE  disk'.cmd \in {disk.cmd, broker'.cmd}
  BY <1>1, <1>2 DEF WebSocketAck, WebSocketResult, RecordAndPersist, SettlePending
<1>3. ASSUME NEW c \in Commands,
             \/ CreateCommandRequest(c) \/ SendCommandToRunnerSocket(c)
             \/ DeadlinePasses(c) \/ JobExits(c)
      PROVE  disk'.cmd \in {disk.cmd, broker'.cmd}
  BY <1>1, <1>3 DEF CreateCommandRequest, SendCommandToRunnerSocket, DeadlinePasses, JobExits
<1>4. ASSUME NEW s \in Sockets,
             \/ AcceptRunnerWebSocket(s) \/ WebSocketHeartbeat(s)
             \/ WebSocketClose(s) \/ RunnerLeaves(s)
      PROVE  disk'.cmd \in {disk.cmd, broker'.cmd}
  BY <1>1, <1>4 DEF AcceptRunnerWebSocket, WebSocketHeartbeat, WebSocketClose, RunnerLeaves
<1>5. ASSUME NEW s \in Sockets, NEW c \in Commands, RunnerReceives(s, c) \/ RunnerFinishes(s, c)
      PROVE  disk'.cmd \in {disk.cmd, broker'.cmd}
  BY <1>5 DEF RunnerReceives, RunnerFinishes
<1>6. CASE Query \/ RejectedEntry \/ RefusedRequest \/ RevokeRequest
  BY <1>1, <1>6 DEF Query, RejectedEntry, RefusedRequest, RevokeRequest
<1>7. CASE HeartbeatGoesStale \/ SessionExpires
  BY <1>7 DEF HeartbeatGoesStale, SessionExpires, TypeOK, StoredRows
<1>8. CASE UNCHANGED vars
  BY <1>8 DEF vars
<1>9. QED
  BY <1>2, <1>3, <1>4, <1>5, <1>6, <1>7, <1>8 DEF Next

\* Only a new command starts to be sent, and only a send delivers.
LEMMA StepDelivers ==
  ASSUME TypeOK, [Next]_vars
  PROVE  \/ UNCHANGED deliveries /\ sending' \in {sending, None}
         \/ \E c \in Commands : CreateCommandRequest(c) \/ SendCommandToRunnerSocket(c)
<1>1. ASSUME NEW s \in Sockets,
             \/ AcceptRunnerWebSocket(s) \/ WebSocketHeartbeat(s) \/ WebSocketAck(s)
             \/ WebSocketResult(s) \/ WebSocketClose(s) \/ RunnerLeaves(s)
      PROVE  UNCHANGED deliveries /\ sending' \in {sending, None}
  BY <1>1 DEF AcceptRunnerWebSocket, WebSocketHeartbeat, WebSocketAck, WebSocketResult,
              WebSocketClose, RunnerLeaves, memory
<1>2. ASSUME NEW s \in Sockets, NEW c \in Commands, RunnerReceives(s, c) \/ RunnerFinishes(s, c)
      PROVE  UNCHANGED deliveries /\ sending' \in {sending, None}
  BY <1>2 DEF RunnerReceives, RunnerFinishes, memory
<1>3. ASSUME NEW c \in Commands, DeadlinePasses(c) \/ JobExits(c)
      PROVE  UNCHANGED deliveries /\ sending' \in {sending, None}
  BY <1>3 DEF DeadlinePasses, JobExits, memory
<1>4. CASE \/ Query \/ RejectedEntry \/ RefusedRequest \/ RevokeRequest \/ HeartbeatGoesStale
           \/ SessionExpires \/ Restart \/ UNCHANGED vars
  BY <1>4 DEF Query, RejectedEntry, RefusedRequest, RevokeRequest,
              HeartbeatGoesStale, SessionExpires,
              TimePasses, Restart, vars, memory
<1>5. QED
  BY <1>1, <1>2, <1>3, <1>4 DEF Next

\* UndeliveredUntilSent is inductive.
LEMMA UndeliveredUntilSentNext ==
  TypeOK /\ UndeliveredUntilSent /\ [Next]_vars => UndeliveredUntilSent'
<1> SUFFICES ASSUME TypeOK, UndeliveredUntilSent, [Next]_vars PROVE UndeliveredUntilSent'
  OBVIOUS
<1>1. CASE Restart
  BY <1>1, NoneAssumption DEF Restart, UndeliveredUntilSent
<1>2. ASSUME ~Restart
      PROVE  \A c \in Commands : /\ broker.cmd[c].state # "absent" => broker'.cmd[c].state # "absent"
                                 /\ "absent" \notin {broker.cmd[c].state, disk.cmd[c].state}
                                      => disk'.cmd[c].state # "absent"
                                 /\ "absent" = disk'.cmd[c].state
                                      => "absent" \in {broker.cmd[c].state, disk.cmd[c].state}
  BY <1>2, StepKeepsCommands, StepStores DEF KeepsCommands
<1>3. CASE ~Restart /\ UNCHANGED deliveries /\ sending' \in {sending, None}
  BY <1>2, <1>3, NoneAssumption DEF UndeliveredUntilSent
<1>4. ASSUME ~Restart, NEW c \in Commands, CreateCommandRequest(c)
      PROVE  UndeliveredUntilSent'
  <2>1. deliveries' = deliveries /\ sending' \in {None, c} /\ deliveries[c] = 0
    BY <1>4 DEF CreateCommandRequest, Enter, IsNewCommand, UndeliveredUntilSent
  <2>2. broker'.cmd[c].state # "absent" /\ disk'.cmd[c].state # "absent"
    BY <1>4, RestoredType, CreateCommandFrame DEF CreateCommandRequest, PersistState, Rows
  <2>3. QED
    BY <1>2, <1>4, <2>1, <2>2, NoneAssumption DEF UndeliveredUntilSent
<1>5. ASSUME ~Restart, NEW c \in Commands, SendCommandToRunnerSocket(c)
      PROVE  UndeliveredUntilSent'
  <2>1. /\ sending = c /\ sending' = None
        /\ deliveries' \in {deliveries, [deliveries EXCEPT ![c] = @ + 1]}
    BY <1>5 DEF SendCommandToRunnerSocket
  <2>2. /\ deliveries[c] = 0 /\ "absent" \notin {broker.cmd[c].state, disk.cmd[c].state}
        /\ "absent" \notin {broker'.cmd[c].state, disk'.cmd[c].state}
    BY <1>2, <1>5, <2>1 DEF UndeliveredUntilSent
  <2>3. \A d \in Commands : deliveries'[d] = deliveries[d] \/ (d = c /\ deliveries'[d] = 1)
    BY <2>1, <2>2 DEF TypeOK
  <2>4. QED
    BY <1>2, <1>5, <2>1, <2>2, <2>3, NoneAssumption DEF UndeliveredUntilSent
<1>6. QED
  BY <1>1, <1>3, <1>4, <1>5, StepDelivers

\* No command was delivered at the start.
LEMMA UndeliveredInit == Init => UndeliveredUntilSent
<1> SUFFICES ASSUME Init, NEW c \in Commands
             PROVE  /\ deliveries[c] <= 1
                    /\ deliveries[c] = 0
                    /\ sending # c
  BY Zenon DEF UndeliveredUntilSent
<1>1. QED
  BY NoneAssumption DEF Init

\* However often the controller repeats a POST, and whatever is lost or
\* restarted, a command is put on a wire at most once.
THEOREM DeliveredAtMostOnceAlways == Spec => []DeliveredAtMostOnce
<1>1. UndeliveredUntilSent => DeliveredAtMostOnce
  BY DEF UndeliveredUntilSent, DeliveredAtMostOnce
<1>2. QED
  BY <1>1, TypeCorrect, UndeliveredInit, UndeliveredUntilSentNext, PTL DEF Spec
=============================================================================
