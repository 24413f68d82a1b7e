------------------------- MODULE SessionBrokerProofs -------------------------
(***************************************************************************)
(* What the broker's operators return and preserve, for every set of       *)
(* commands, runner instances and sockets. SessionObjectProofs cites these *)
(* lemmas wherever a handler calls the broker.                             *)
(***************************************************************************)
EXTENDS SessionBroker, TLAPS

-----------------------------------------------------------------------------
(* Types.                                                                   *)

\* A new session has the broker's type (createSession).
LEMMA CreateSessionType == CreateSession \in BrokerState
BY DEF CreateSession, BrokerState, SessionRow, CommandRow, JobRow, NewSession, NoCommand,
       NoJob, CommandStates, CommandErrors, JobStatuses

\* Settling the jobs of an instance keeps the type of the job rows.
LEMMA MarkRunningJobsLostType ==
  ASSUME NEW jobs \in [Commands -> JobRow], NEW r
  PROVE  MarkRunningJobsLost(jobs, r) \in [Commands -> JobRow]
BY DEF MarkRunningJobsLost, JobRow, JobStatuses

\* Attaching or restoring a connection keeps the type.
LEMMA AttachRunnerType ==
  ASSUME NEW b \in BrokerState, NEW s \in Sockets
  PROVE  AttachRunner(b, s) \in BrokerState
BY OwnerAssumption, MarkRunningJobsLostType DEF AttachRunner, BrokerState, SessionRow

\* Recording activity keeps the type.
LEMMA RecordRunnerActivityType ==
  ASSUME NEW b \in BrokerState, NEW r
  PROVE  RecordRunnerActivity(b, r) \in BrokerState
BY DEF RecordRunnerActivity, BrokerState, SessionRow

\* Recording a disconnect keeps the type.
LEMMA MarkRunnerDisconnectedType ==
  ASSUME NEW b \in BrokerState, NEW r
  PROVE  MarkRunnerDisconnected(b, r) \in BrokerState
BY DEF MarkRunnerDisconnected, BrokerState, SessionRow

\* Revoking keeps the type.
LEMMA RevokeType ==
  ASSUME NEW b \in BrokerState
  PROVE  Revoke(b) \in BrokerState
BY DEF Revoke, BrokerState, SessionRow

\* Creating a command keeps the type.
LEMMA CreateCommandType ==
  ASSUME NEW b \in BrokerState, NEW c \in Commands
  PROVE  CreateCommand(b, c) \in BrokerState
BY DEF CreateCommand, BrokerState, SessionRow, CommandRow, CommandStates, CommandErrors

\* Marking a command unknown keeps the type.
LEMMA MarkCommandUnknownType ==
  ASSUME NEW b \in BrokerState, NEW c \in Commands
  PROVE  MarkCommandUnknown(b, c) \in BrokerState
<1> DEFINE row == [b.cmd[c] EXCEPT !.state = "unknown", !.error = "COMMAND_STATE_UNKNOWN"]
<1>1. row \in CommandRow
  <2>1. b.cmd[c] \in CommandRow
    BY DEF BrokerState
  <2>2. QED
    BY <2>1, Zenon DEF CommandRow, CommandStates, CommandErrors
<1>2. MarkCommandUnknown(b, c) = [b EXCEPT !.cmd = [b.cmd EXCEPT ![c] = row]]
  BY Zenon DEF MarkCommandUnknown
<1> HIDE DEF row
<1>3. [b.cmd EXCEPT ![c] = row] \in [Commands -> CommandRow]
  BY <1>1 DEF BrokerState
<1>4. QED
  BY <1>2, <1>3 DEF BrokerState

\* An ACK keeps the type.
LEMMA AcknowledgeFromRunnerType ==
  ASSUME NEW b \in BrokerState, NEW c \in Commands, NEW r
  PROVE  AcknowledgeFromRunner(b, c, r) \in BrokerState
BY SMTT(30) DEF AcknowledgeFromRunner, BrokerState, CommandRow, CommandStates

\* The job row an ok result leaves has the type of a job row.
LEMMA JobRowAfterType ==
  ASSUME NEW b \in BrokerState, NEW c \in Commands, NEW j \in Commands,
         NEW status \in JobStatuses
  PROVE  JobRowAfter(b, c, j, status) \in JobRow
BY DEF JobRowAfter, JobRunner, BrokerState, CommandRow, JobRow

\* Applying a result keeps the type.
LEMMA ApplyRunnerResultType ==
  ASSUME NEW b \in BrokerState, NEW c \in Commands, NEW r, NEW outcome \in Outcomes
  PROVE  ApplyRunnerResult(b, c, r, outcome) \in BrokerState
<1>1. CASE ~Accepts(b, c, r) \/ Settled(b.cmd[c])
  BY <1>1 DEF ApplyRunnerResult
<1>2. CASE ~(~Accepts(b, c, r) \/ Settled(b.cmd[c]))
  <2> DEFINE cmd  == [b.cmd EXCEPT ![c] = CompletedRow(@, outcome)]
             jobs == IF outcome.ok /\ outcome.job # None
                     THEN [b.jobs EXCEPT ![outcome.job] =
                             JobRowAfter(b, c, outcome.job, outcome.status)]
                     ELSE b.jobs
  <2>1. cmd \in [Commands -> CommandRow]
    <3>1. CompletedRow(b.cmd[c], outcome) \in CommandRow
      <4>1. b.cmd[c] \in CommandRow
        BY DEF BrokerState
      <4>2. CASE outcome.ok
        BY <4>1, <4>2 DEF CompletedRow, CommandRow, CommandStates, CommandErrors
      <4>3. CASE ~outcome.ok
        BY <4>1, <4>3 DEF CompletedRow, CommandRow, CommandStates, CommandErrors
      <4>4. QED
        BY <4>2, <4>3
    <3>2. QED
      BY <3>1 DEF BrokerState
  <2>2. jobs \in [Commands -> JobRow]
    <3>1. CASE outcome.job \in Commands /\ outcome.status \in JobStatuses
      BY <3>1, JobRowAfterType DEF BrokerState
    <3>2. CASE outcome.job = None
      BY <3>2 DEF BrokerState
    <3>3. QED
      BY <3>1, <3>2 DEF Outcomes
  <2>3. ApplyRunnerResult(b, c, r, outcome) = [b EXCEPT !.cmd = cmd, !.jobs = jobs]
    BY <1>2 DEF ApplyRunnerResult
  <2>4. QED
    BY <2>1, <2>2, <2>3 DEF BrokerState
<1>3. QED
  BY <1>1, <1>2

\* Resuming createCommand with a result keeps the type.
LEMMA ResumeCreateCommandType ==
  ASSUME NEW b \in BrokerState, NEW c \in Commands, NEW outcome \in Outcomes
  PROVE  ResumeCreateCommand(b, c, outcome) \in BrokerState
<1> DEFINE row    == [b.cmd[c] EXCEPT !.state = "failed", !.error = "INTERNAL_ERROR"]
           failed == [b EXCEPT !.cmd[c] = [@ EXCEPT !.state = "failed", !.error = "INTERNAL_ERROR"]]
<1>1. failed \in BrokerState
  <2>1. row \in CommandRow
    <3>1. b.cmd[c] \in CommandRow
      BY DEF BrokerState
    <3>2. QED
      BY <3>1, Zenon DEF CommandRow, CommandStates, CommandErrors
  <2>2. failed = [b EXCEPT !.cmd = [b.cmd EXCEPT ![c] = row]]
    BY Zenon
  <2> HIDE DEF row
  <2>3. [b.cmd EXCEPT ![c] = row] \in [Commands -> CommandRow]
    BY <2>1 DEF BrokerState
  <2> HIDE DEF failed
  <2>4. QED
    BY <2>2, <2>3 DEF BrokerState
<1>2. QED
  BY <1>1, ApplyRunnerResultType DEF ResumeCreateCommand

-----------------------------------------------------------------------------
(* Frames: what an operator does not touch.                                 *)

\* a has the session row and the handler of b ...
SameSession(b, a) == a.session = b.session /\ a.handler = b.handler
\* ... and every command row that exists in b.
KeepsCommands(b, a) ==
  \A c \in Commands : b.cmd[c].state # "absent" => a.cmd[c].state # "absent"

\* createCommand touches neither the session row nor the runners map, and
\* leaves a row for the command (broker.ts, the insert before the dispatch).
LEMMA CreateCommandFrame ==
  ASSUME NEW b \in BrokerState, NEW c \in Commands
  PROVE  /\ SameSession(b, CreateCommand(b, c))
         /\ CreateCommand(b, c).cmd[c].state # "absent"
         /\ \A d \in Commands \ {c} : CreateCommand(b, c).cmd[d] = b.cmd[d]
BY DEF CreateCommand, SameSession, BrokerState

\* An ACK changes one existing command row and nothing else.
LEMMA AcknowledgeFromRunnerFrame ==
  ASSUME NEW b \in BrokerState, NEW c \in Commands, NEW r
  PROVE  LET a == AcknowledgeFromRunner(b, c, r) IN SameSession(b, a) /\ KeepsCommands(b, a)
BY DEF AcknowledgeFromRunner, SameSession, KeepsCommands, BrokerState, CommandRow

\* A result changes command and job rows only, and removes none.
LEMMA ApplyRunnerResultFrame ==
  ASSUME NEW b \in BrokerState, NEW c \in Commands, NEW r, NEW outcome
  PROVE  LET a == ApplyRunnerResult(b, c, r, outcome) IN SameSession(b, a) /\ KeepsCommands(b, a)
<1>1. CASE ~Accepts(b, c, r) \/ Settled(b.cmd[c])
  BY <1>1 DEF ApplyRunnerResult, SameSession, KeepsCommands
<1>2. CASE ~(~Accepts(b, c, r) \/ Settled(b.cmd[c]))
  <2> DEFINE a == ApplyRunnerResult(b, c, r, outcome)
  <2>1. SameSession(b, a) /\ a.cmd = [b.cmd EXCEPT ![c] = CompletedRow(@, outcome)]
    BY <1>2 DEF ApplyRunnerResult, SameSession, BrokerState
  <2>2. CompletedRow(b.cmd[c], outcome).state # "absent"
    BY DEF CompletedRow, BrokerState, CommandRow
  <2>3. KeepsCommands(b, a)
    BY <2>1, <2>2 DEF KeepsCommands, BrokerState
  <2>4. QED
    BY <2>1, <2>3
<1>3. QED
  BY <1>1, <1>2

\* So does resuming createCommand with a result.
LEMMA ResumeCreateCommandFrame ==
  ASSUME NEW b \in BrokerState, NEW c \in Commands, NEW outcome
  PROVE  LET a == ResumeCreateCommand(b, c, outcome) IN SameSession(b, a) /\ KeepsCommands(b, a)
<1> DEFINE e == [b EXCEPT !.cmd[c] = [@ EXCEPT !.state = "failed", !.error = "INTERNAL_ERROR"]]
<1>1. SameSession(b, e) /\ KeepsCommands(b, e)
  BY DEF SameSession, KeepsCommands, BrokerState, CommandRow
<1>2. QED
  BY <1>1, ApplyRunnerResultFrame DEF ResumeCreateCommand

\* Activity does not change whose the session is, whether it is over, or
\* anything about commands and jobs.
LEMMA RecordRunnerActivityFrame ==
  ASSUME NEW b \in BrokerState, NEW r
  PROVE  LET a == RecordRunnerActivity(b, r) IN
         /\ a.session.runner = b.session.runner
         /\ a.session.revoked = b.session.revoked
         /\ a.session.expired = b.session.expired
         /\ a.handler = b.handler /\ a.cmd = b.cmd /\ a.jobs = b.jobs
BY DEF RecordRunnerActivity, BrokerState, SessionRow

\* Nor does a disconnect, which on a live session clears the handler of the
\* current instance.
LEMMA MarkRunnerDisconnectedFrame ==
  ASSUME NEW b \in BrokerState, NEW r
  PROVE  LET a == MarkRunnerDisconnected(b, r) IN
         /\ a.session.runner = b.session.runner
         /\ a.session.revoked = b.session.revoked
         /\ a.session.expired = b.session.expired
         /\ a.handler \in {b.handler, None} /\ a.cmd = b.cmd /\ a.jobs = b.jobs
         /\ Live(b) /\ b.session.runner = r => a.handler = None
BY DEF MarkRunnerDisconnected, BrokerState, SessionRow

\* An attached or restored connection becomes the session's.
LEMMA AttachRunnerFrame ==
  ASSUME NEW b \in BrokerState, NEW s \in Sockets
  PROVE  LET a == AttachRunner(b, s) IN
         /\ a.session.runner = Owner[s] /\ a.handler = s
         /\ a.session.revoked = b.session.revoked
         /\ a.session.expired = b.session.expired
         /\ a.cmd = b.cmd
BY DEF AttachRunner, BrokerState, SessionRow

-----------------------------------------------------------------------------
(* Results: what an operator does to the row of its command.                *)

\* What an ACK, and a wait that ends without a result, make of a row.
AcknowledgedRow(row) == [row EXCEPT !.state = "runner_acknowledged"]
UnknownRow(row)      == [row EXCEPT !.state = "unknown", !.error = "COMMAND_STATE_UNKNOWN"]

\* An ACK moves the row of its command, if it does anything.
LEMMA AcknowledgeRow ==
  ASSUME NEW b \in BrokerState, NEW c \in Commands, NEW r
  PROVE  LET a == AcknowledgeFromRunner(b, c, r) IN
         /\ a.jobs = b.jobs
         /\ \A d \in Commands \ {c} : a.cmd[d] = b.cmd[d]
         /\ \/ a.cmd[c] = b.cmd[c]
            \/ /\ FromItsRunner(b, c, r)
               /\ b.cmd[c].state \in {"sent_to_runner", "runner_acknowledged"}
               /\ a.cmd[c] = AcknowledgedRow(b.cmd[c])
<1> DEFINE q == AcknowledgedRow(b.cmd[c])
<1>1. CASE FromItsRunner(b, c, r) /\ ~Final(b.cmd[c])
  <2>1. AcknowledgeFromRunner(b, c, r) = [b EXCEPT !.cmd = [b.cmd EXCEPT ![c] = q]]
    BY <1>1 DEF AcknowledgeFromRunner, AcknowledgedRow, BrokerState
  <2>2. b.cmd[c].state \in {"sent_to_runner", "runner_acknowledged"}
    BY <1>1 DEF FromItsRunner, Final, BrokerState, CommandRow, CommandStates
  <2>3. QED
    BY <1>1, <2>1, <2>2 DEF BrokerState
<1>2. CASE ~(FromItsRunner(b, c, r) /\ ~Final(b.cmd[c]))
  BY <1>2 DEF AcknowledgeFromRunner
<1>3. QED
  BY <1>1, <1>2

\* The rows a result can complete a row to.
CompletedRows(row) == {[row EXCEPT !.state = "succeeded", !.error = "none"],
                       [row EXCEPT !.state = "failed", !.error = "RUNNER_ERROR"]}

\* A completed row is settled and keeps its instance.
LEMMA CompletedRowSettled ==
  ASSUME NEW row \in CommandRow, NEW q \in CompletedRows(row)
  PROVE  Settled(q) /\ q.state \in {"succeeded", "failed"} /\ q.runner = row.runner
         /\ q.error \in {"none", "RUNNER_ERROR"}
BY DEF CompletedRows, Settled, Final, CommandRow

\* A result that is not accepted, or comes for a settled row, does nothing.
LEMMA ApplyNothing ==
  ASSUME NEW b, NEW c, NEW r, NEW outcome, ~Accepts(b, c, r) \/ Settled(b.cmd[c])
  PROVE  ApplyRunnerResult(b, c, r, outcome) = b
BY DEF ApplyRunnerResult

\* What a result makes of the job rows.
JobsAfter(b, c, outcome) ==
  IF outcome.ok /\ outcome.job # None
  THEN [b.jobs EXCEPT ![outcome.job] = JobRowAfter(b, c, outcome.job, outcome.status)]
  ELSE b.jobs

\* Any other completes the row of its command, and touches the job row of the
\* job it names.
LEMMA ApplyCompletes ==
  ASSUME NEW b \in BrokerState, NEW c \in Commands, NEW r, NEW outcome \in Outcomes,
         Accepts(b, c, r), ~Settled(b.cmd[c])
  PROVE  LET a == ApplyRunnerResult(b, c, r, outcome) IN
         /\ a.cmd[c] \in CompletedRows(b.cmd[c])
         /\ \A d \in Commands \ {c} : a.cmd[d] = b.cmd[d]
         /\ a.jobs = JobsAfter(b, c, outcome)
<1> DEFINE q    == CompletedRow(b.cmd[c], outcome)
           jobs == JobsAfter(b, c, outcome)
<1>1. ApplyRunnerResult(b, c, r, outcome) =
        [b EXCEPT !.cmd = [b.cmd EXCEPT ![c] = q], !.jobs = jobs]
  BY DEF ApplyRunnerResult, JobsAfter
<1>2. q \in CompletedRows(b.cmd[c])
  <2>1. CASE outcome.ok
    BY <2>1 DEF CompletedRow, CompletedRows
  <2>2. CASE ~outcome.ok
    BY <2>2 DEF CompletedRow, CompletedRows
  <2>3. QED
    BY <2>1, <2>2
<1>3. b.cmd \in [Commands -> CommandRow] /\ DOMAIN b = {"session", "cmd", "jobs", "handler"}
  BY DEF BrokerState
<1> HIDE DEF q, jobs
<1>4. QED
  BY <1>1, <1>2, <1>3 DEF jobs

\* Resuming createCommand on a row its own result has settled changes nothing.
LEMMA ResumeSettled ==
  ASSUME NEW b, NEW c, NEW outcome, Settled(b.cmd[c]),
         b.cmd[c].state # "absent", b.session.runner = b.cmd[c].runner
  PROVE  ResumeCreateCommand(b, c, outcome) = b
BY ApplyNothing DEF ResumeCreateCommand, Accepts, FromItsRunner
=============================================================================
