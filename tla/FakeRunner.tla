----------------------------- MODULE FakeRunner -----------------------------
(***************************************************************************)
(* The runner that the tests put behind the broker (src/fake-runner.ts):   *)
(* its background jobs, interrupts and foreground runs, beside the file    *)
(* commands of ProjectFiles. The broker calls its handler for each command *)
(* as it comes, so unlike those of the Colab runner its commands run       *)
(* concurrently, between one await and the next.                           *)
(*                                                                         *)
(* A command that starts something gives its name to it: the process is a  *)
(* shell and what the shell left behind, in the shell's process group or   *)
(* out of it. Logs and commands that only read are not modelled here.      *)
(***************************************************************************)
EXTENDS ProjectFiles

VARIABLES
  command,      \* what each command is, where it is, and how it was answered
  job,          \* of each start_job: status, and whether it was to be interrupted
  activeJobId,
  process       \* of each start_job, run_shell and run_python

jobs == <<command, job, activeJobId, process>>
vars == <<jobs, files>>

\* shell: what was spawned.  group: its descendants in its process group.
\* away: descendants that left the group.  Both hold its pipes.
Processes == [shell : {"none", "up", "down"}, group : BOOLEAN, away : BOOLEAN,
              stubborn : BOOLEAN]   \* it ignores SIGTERM
Statuses  == {"none", "running", "exited", "interrupted"}

TypeOK ==
  /\ FilesTypeOK
  /\ command \in [Commands ->
       [type : {"none", "start_job", "run", "interrupt_job"},
        pc : {"none", "mkdir", "waiting", "escalated", "timedOut", "over"},
        on : Commands \cup {None}, answer : {"none", "refused", "done", "failed"}]]
  /\ job \in [Commands -> [status : Statuses, interruptedAt : BOOLEAN]]
  /\ activeJobId \in {None} \cup {s \in Commands : job[s].status = "running"}
  /\ process \in [Commands -> Processes]
  /\ \A c \in Commands :
       /\ command[c].type = "none" \/ access[c].mode = "none"
       /\ job[c].status # "none" => command[c].type = "start_job"
       /\ command[c].type = "start_job" =>
            ((job[c].status = "none") <=> (process[c].shell = "none"))

NoCommand == [type |-> "none", pc |-> "none", on |-> None, answer |-> "none"]
NoJob     == [status |-> "none", interruptedAt |-> FALSE]
NoProcess == [shell |-> "none", group |-> FALSE, away |-> FALSE, stubborn |-> FALSE]

Init ==
  /\ FilesInit
  /\ command = [c \in Commands |-> NoCommand]
  /\ job = [c \in Commands |-> NoJob]
  /\ activeJobId = None
  /\ process = [c \in Commands |-> NoProcess]

-----------------------------------------------------------------------------
Closed(o) == process[o].shell = "down" /\ ~process[o].group /\ ~process[o].away

\* A command comes: what it awaits first, or how it is answered at once.
Begins(c, type, pc) ==
  /\ command[c].type = "none" /\ At(c, "start")
  /\ command' = [command EXCEPT ![c].type = type, ![c].pc = pc]
AnsweredAtOnce(c, type, what) ==
  /\ command[c].type = "none" /\ At(c, "start")
  /\ command' = [command EXCEPT ![c].type = type, ![c].pc = "over", ![c].answer = what]

Is(c, type, pc) == command[c].type = type /\ command[c].pc = pc
Awaits(c, pc)   == command' = [command EXCEPT ![c].pc = pc]
Answer(c, what) == command' = [command EXCEPT ![c].pc = "over", ![c].answer = what]

\* runningJob
RunningJob == activeJobId # None /\ job[activeJobId].status = "running"

StartJob(c) ==
  /\ IF RunningJob THEN AnsweredAtOnce(c, "start_job", "refused")
     ELSE Begins(c, "start_job", "mkdir")
  /\ UNCHANGED <<job, activeJobId, process>>

Spawned == {[NoProcess EXCEPT !.shell = "up", !.stubborn = b] : b \in BOOLEAN}

\* After the await of mkdir, which may fail.
SpawnJob(c) ==
  /\ Is(c, "start_job", "mkdir")
  /\ \/ Answer(c, "refused") /\ UNCHANGED <<job, activeJobId, process>>
     \/ /\ Answer(c, "done")
        /\ job' = [job EXCEPT ![c].status = "running"]
        /\ \E p \in Spawned : process' = [process EXCEPT ![c] = p]
        /\ activeJobId' = c

\* Mutant of CloseJob: the job stays the active one.
CloseJobOnly(s) ==
  /\ job[s].status = "running" /\ Closed(s)
  /\ job' = [job EXCEPT ![s].status =
               IF job[s].interruptedAt THEN "interrupted" ELSE "exited"]
  /\ UNCHANGED <<command, activeJobId, process>>

\* watchChild, and the job's done.finally.
CloseJob(s) ==
  /\ job[s].status = "running" /\ Closed(s)
  /\ job' = [job EXCEPT ![s].status =
               IF job[s].interruptedAt THEN "interrupted" ELSE "exited"]
  /\ activeJobId' = IF activeJobId = s THEN None ELSE activeJobId
  /\ UNCHANGED <<command, process>>

\* process.kill(-pid): what left the group is not reached.
Signalled(s, signal) ==
  IF signal = "SIGTERM" /\ process[s].stubborn THEN process
  ELSE [process EXCEPT ![s].shell = "down", ![s].group = FALSE]

InterruptJob(c, s, signal) ==
  /\ command[c].type = "none" /\ At(c, "start")
  /\ job[s].status # "none"
  /\ job' = [job EXCEPT ![s].interruptedAt = TRUE]
  /\ command' = [command EXCEPT ![c] =
       IF job[s].status # "running"
       THEN [type |-> "interrupt_job", pc |-> "over", on |-> s, answer |-> "done"]
       ELSE [type |-> "interrupt_job", on |-> s, answer |-> "none",
             pc |-> IF signal = "SIGTERM" THEN "waiting" ELSE "escalated"]]
  /\ process' = IF job[s].status = "running" THEN Signalled(s, signal) ELSE process
  /\ UNCHANGED activeJobId

InterruptUnknown(c) ==
  /\ AnsweredAtOnce(c, "interrupt_job", "refused")
  /\ UNCHANGED <<job, activeJobId, process>>

\* Mutant of Escalate: the timer was cleared.
EscalateNever(c) ==
  /\ Is(c, "interrupt_job", "waiting") /\ job[command[c].on].status = "running"
  /\ Awaits(c, "escalated")
  /\ UNCHANGED <<job, activeJobId, process>>

\* The timer of kill_after_sec, unless the race is over.
Escalate(c) ==
  /\ Is(c, "interrupt_job", "waiting") /\ job[command[c].on].status = "running"
  /\ Awaits(c, "escalated")
  /\ process' = Signalled(command[c].on, "SIGKILL")
  /\ UNCHANGED <<job, activeJobId>>

\* Promise.race: the job is done, or the sleep is over, which lasts a second
\* longer than the timer.
InterruptEnds(c) ==
  /\ \/ Is(c, "interrupt_job", "escalated")
     \/ Is(c, "interrupt_job", "waiting") /\ job[command[c].on].status # "running"
  /\ Answer(c, "done")
  /\ UNCHANGED <<job, activeJobId, process>>

-----------------------------------------------------------------------------
(* Foreground runs: the timer reaches the child alone, and no group.        *)

\* runFakeShell and runFakePython make a directory first, and runFakePython
\* its file. What they cannot do, they throw, and handle does not catch.
Run(c) ==
  /\ Begins(c, "run", "mkdir") \/ AnsweredAtOnce(c, "run", "failed")
  /\ UNCHANGED <<job, activeJobId, process>>

SpawnRun(c) ==
  /\ Is(c, "run", "mkdir")
  /\ Awaits(c, "waiting")
  /\ process' = [process EXCEPT ![c].shell = "up"]
  /\ UNCHANGED <<job, activeJobId>>

TimeOut(c) ==
  /\ Is(c, "run", "waiting") /\ ~Closed(c)
  /\ Awaits(c, "timedOut")
  /\ process' = [process EXCEPT ![c].shell = "down"]
  /\ UNCHANGED <<job, activeJobId>>

\* The child and its pipes are closed. The run's file may then fail to go.
RunEnds(c) ==
  /\ Is(c, "run", "waiting") \/ Is(c, "run", "timedOut")
  /\ Closed(c)
  /\ \E what \in {"done", "failed"} : Answer(c, what)
  /\ UNCHANGED <<job, activeJobId, process>>

-----------------------------------------------------------------------------
(* What processes do of themselves. External.                               *)

Forks(o) ==
  /\ process[o].shell = "up"
  /\ \/ command[o].type = "start_job" /\ process' = [process EXCEPT ![o].group = TRUE]
     \/ process' = [process EXCEPT ![o].away = TRUE]
  /\ UNCHANGED <<command, job, activeJobId>>

ProcessEnds(o) ==
  /\ \/ process[o].shell = "up" /\ process' = [process EXCEPT ![o].shell = "down"]
     \/ process[o].group        /\ process' = [process EXCEPT ![o].group = FALSE]
     \/ process[o].away         /\ process' = [process EXCEPT ![o].away = FALSE]
  /\ UNCHANGED <<command, job, activeJobId>>

JobStep(c) ==
  \/ StartJob(c) \/ SpawnJob(c) \/ CloseJob(c)
  \/ \E s \in Commands, signal \in {"SIGTERM", "SIGKILL"} : InterruptJob(c, s, signal)
  \/ InterruptUnknown(c) \/ Escalate(c) \/ InterruptEnds(c)
  \/ Run(c) \/ SpawnRun(c) \/ TimeOut(c) \/ RunEnds(c)
  \/ Forks(c) \/ ProcessEnds(c)

Next ==
  \E c \in Commands :
    \/ JobStep(c) /\ UNCHANGED files
    \/ command[c].type = "none" /\ FileStep(c) /\ UNCHANGED jobs

Symmetry == Permutations(Commands)

Spec == Init /\ [][Next]_vars

-----------------------------------------------------------------------------
(* When an interrupt is answered, nothing is left of the job's process     *)
(* group, whether or not it minded SIGTERM, whatever left the group and    *)
(* holds its pipes, and although another job may have started meanwhile;   *)
(* when a run is answered that got as far as its process, nothing is left  *)
(* that holds its pipes (interrupt, sendSignal, runBoundedProcess).        *)
AnswerMeansOver ==
  \A c \in Commands : command[c].pc = "over" =>
    /\ command[c].on # None => LET p == process[command[c].on]
                               IN p.shell = "down" /\ ~p.group
    /\ command[c].type = "run" => Closed(c) \/ process[c] = NoProcess
=============================================================================
