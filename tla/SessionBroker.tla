--------------------------- MODULE SessionBroker ---------------------------
(***************************************************************************)
(* The session broker of src/src/broker.ts: what each of its methods does  *)
(* to the rows of one session and to the in-memory map of runner handlers. *)
(* The methods run without awaiting, so each is an operator from the state *)
(* b before the call to the state after it; SessionObject says when they   *)
(* are called.                                                             *)
(*                                                                         *)
(* b.session  the session row; "fresh" stands for lastHeartbeatAt being at *)
(*            most 45 s old, "expired" for expiresAt being in the past     *)
(* b.cmd      the command rows, by command id                              *)
(* b.jobs     the job rows, by the id of the start_job command             *)
(* b.handler  the entry of the runners map: the socket its closure sends   *)
(*            to, or None                                                  *)
(*                                                                         *)
(* Callers are authenticated (tokens, timestamps and nonces are outside    *)
(* this module), and the audit rows, which nothing reads, are left out.    *)
(***************************************************************************)
CONSTANTS
  Commands,   \* command ids
  Runners,    \* runner instance ids
  Sockets,    \* runner connections
  Owner,      \* the runner instance in each connection's attachment
  Type,       \* the type of each command
  None        \* null, undefined

CommandTypes == {"start_job", "job_status", "tail_job", "interrupt_job", "run_shell"}

ASSUME OwnerAssumption == Owner \in [Sockets -> Runners]
ASSUME TypeAssumption  == Type \in [Commands -> CommandTypes]
ASSUME NoneAssumption  == None \notin Commands \cup Runners \cup Sockets

-----------------------------------------------------------------------------
(* Rows. "absent" is a row that does not exist; the states accepted and     *)
(* queued of one createCommand call, and running of completeCommand, are    *)
(* overwritten before anything else can run.                                *)

CommandStates == {"absent", "sent_to_runner", "runner_acknowledged",
                  "succeeded", "failed", "unknown"}
CommandErrors == {"none", "RUNNER_OFFLINE", "COMMAND_STATE_UNKNOWN",
                  "INTERNAL_ERROR", "RUNNER_ERROR"}
JobStatuses   == {"running", "exited", "interrupted", "unknown_lost"}

CommandRow == [state : CommandStates, runner : Runners \cup {None}, error : CommandErrors]
JobRow     == [status : JobStatuses \cup {"absent"}, runner : Runners \cup {None}]
SessionRow == [revoked : BOOLEAN, expired : BOOLEAN, connected : BOOLEAN,
               runner : Runners \cup {None}, fresh : BOOLEAN]

BrokerState == [session : SessionRow,
                cmd     : [Commands -> CommandRow],
                jobs    : [Commands -> JobRow],
                handler : Sockets \cup {None}]

NewSession == [revoked |-> FALSE, expired |-> FALSE, connected |-> FALSE,
               runner |-> None, fresh |-> FALSE]
NoCommand  == [state |-> "absent", runner |-> None, error |-> "none"]
NoJob      == [status |-> "absent", runner |-> None]

CreateSession == [session |-> NewSession,
                  cmd     |-> [c \in Commands |-> NoCommand],
                  jobs    |-> [j \in Commands |-> NoJob],
                  handler |-> None]

\* What the runner answers: the outcome, and for a job command that succeeds
\* the job it is about and that job's status.
Outcomes == [ok : BOOLEAN, job : {None}, status : {"none"}] \cup
            [ok : {TRUE}, job : Commands, status : JobStatuses]

-----------------------------------------------------------------------------
(* Conditions.                                                              *)

Live(b)           == ~b.session.revoked /\ ~b.session.expired
IsRunnerFresh(b)  == b.session.connected /\ b.session.fresh
Final(row)        == row.state \in {"succeeded", "failed", "unknown"}

\* A final row that a late result may not change any more.
Settled(row) ==
  /\ Final(row)
  /\ row.state # "unknown"
  /\ ~(row.state = "failed" /\ row.error = "COMMAND_STATE_UNKNOWN")

CanDispatch(b) == IsRunnerFresh(b) /\ b.session.runner # None /\ b.handler # None

\* Mutant of FromItsRunner: a replaced runner is still listened to.
FromAnyRunner(b, c, r) == b.cmd[c].state # "absent" /\ b.cmd[c].runner \in {None, r}

\* The guards an ACK and a result share: the row exists, the runner instance
\* is the session's current one and is the one the command was sent to.
FromItsRunner(b, c, r) ==
  /\ b.cmd[c].state # "absent"
  /\ b.session.runner = r
  /\ b.cmd[c].runner \in {None, r}

-----------------------------------------------------------------------------
(* Runner connections.                                                      *)

MarkRunningJobsLost(jobs, r) ==
  [j \in Commands |-> IF jobs[j].status = "running" /\ jobs[j].runner = r
                      THEN [jobs[j] EXCEPT !.status = "unknown_lost"]
                      ELSE jobs[j]]

\* Mutant of AttachRunner: a restored connection does not settle the jobs of
\* the instance before it.
AttachRunnerKeepingJobs(b, s) ==
  [b EXCEPT !.session = [@ EXCEPT !.connected = TRUE, !.runner = Owner[s], !.fresh = TRUE],
            !.handler = s]

\* attachRunner and restoreRunnerConnection, on a live session.
AttachRunner(b, s) ==
  LET previous == b.session.runner IN
  [b EXCEPT !.jobs    = IF previous \notin {None, Owner[s]}
                        THEN MarkRunningJobsLost(@, previous) ELSE @,
            !.session = [@ EXCEPT !.connected = TRUE, !.runner = Owner[s], !.fresh = TRUE],
            !.handler = s]

\* recordRunnerActivity, on a live session; on another it throws.
RecordRunnerActivity(b, r) ==
  IF b.session.runner = r
  THEN [b EXCEPT !.session = [@ EXCEPT !.connected = TRUE, !.fresh = TRUE]]
  ELSE b

\* Mutant of MarkRunnerDisconnected: the runners map keeps its entry.
MarkDisconnectedKeepingHandler(b, r) ==
  IF Live(b) /\ b.session.runner = r
  THEN [b EXCEPT !.session = [@ EXCEPT !.connected = FALSE, !.fresh = TRUE]]
  ELSE b

MarkRunnerDisconnected(b, r) ==
  IF Live(b) /\ b.session.runner = r
  THEN [b EXCEPT !.session = [@ EXCEPT !.connected = FALSE, !.fresh = TRUE],
                 !.handler = None]
  ELSE b

Revoke(b) ==
  [b EXCEPT !.session = [@ EXCEPT !.revoked = TRUE, !.connected = FALSE],
            !.handler = None]

-----------------------------------------------------------------------------
(* Commands.                                                                *)

\* createCommand up to the await of the handler.
CreateCommand(b, c) ==
  [b EXCEPT !.cmd[c] =
     IF CanDispatch(b)
     THEN [state |-> "sent_to_runner", runner |-> b.session.runner, error |-> "none"]
     ELSE [state |-> "failed", runner |-> None, error |-> "RUNNER_OFFLINE"]]

\* createCommand after its handler rejected.
MarkCommandUnknown(b, c) ==
  [b EXCEPT !.cmd[c] = [@ EXCEPT !.state = "unknown", !.error = "COMMAND_STATE_UNKNOWN"]]

AcknowledgeFromRunner(b, c, r) ==
  IF FromItsRunner(b, c, r) /\ ~Final(b.cmd[c])
  THEN [b EXCEPT !.cmd[c].state = "runner_acknowledged"]
  ELSE b

CompletedRow(row, outcome) ==
  IF outcome.ok THEN [row EXCEPT !.state = "succeeded", !.error = "none"]
                ELSE [row EXCEPT !.state = "failed", !.error = "RUNNER_ERROR"]

\* The runner instance a job row is filed under: the first that was recorded.
JobRunner(b, j, c) ==
  IF b.jobs[j].runner # None THEN b.jobs[j].runner ELSE b.cmd[c].runner

\* Mutant of JobRowAfter: an interrupt_job result always means interrupted.
JobRowInterrupted(b, c, j, status) ==
  [status |-> IF Type[c] = "interrupt_job" THEN "interrupted" ELSE status,
   runner |-> JobRunner(b, j, c)]

\* applyJobMetadataFromResult of an ok result of command c about job j.
JobRowAfter(b, c, j, status) ==
  CASE Type[c] = "start_job" -> [status |-> status, runner |-> b.cmd[c].runner]
    [] Type[c] \in {"job_status", "interrupt_job"} ->
         [status |-> status, runner |-> JobRunner(b, j, c)]
    [] Type[c] = "tail_job" /\ b.jobs[j].status # "absent" ->
         [b.jobs[j] EXCEPT !.status = status]
    [] OTHER -> b.jobs[j]

\* applyRunnerResult: Accepts says that it returns a row and not null.
Accepts(b, c, r) == FromItsRunner(b, c, r)

ApplyRunnerResult(b, c, r, outcome) ==
  IF ~Accepts(b, c, r) \/ Settled(b.cmd[c]) THEN b
  ELSE [b EXCEPT !.cmd[c] = CompletedRow(@, outcome),
                 !.jobs   = IF outcome.ok /\ outcome.job # None
                            THEN [@ EXCEPT ![outcome.job] =
                                    JobRowAfter(b, c, outcome.job, outcome.status)]
                            ELSE @]

\* createCommand after its handler returned a result. The runner it expects is
\* the one read from the session row before the await, which is the row's.
ResumeCreateCommand(b, c, outcome) ==
  LET r == b.cmd[c].runner IN
  IF Accepts(b, c, r)
  THEN ApplyRunnerResult(b, c, r, outcome)
  ELSE [b EXCEPT !.cmd[c] = [@ EXCEPT !.state = "failed", !.error = "INTERNAL_ERROR"]]
=============================================================================
