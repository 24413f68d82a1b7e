--------------------------- MODULE RunnerCommands ---------------------------
(***************************************************************************)
(* How the Colab runner (python/colab_runner.py) executes commands: one    *)
(* task per command of a connection, a lock that serialises those that     *)
(* change something, processes with a group and pipes of their own, one    *)
(* background job at a time, timeouts with SIGTERM and SIGKILL, and the    *)
(* cancellation of everything a lost connection leaves behind.             *)
(*                                                                         *)
(* Commands are numbered in the order in which they arrive, and a process  *)
(* or a job has the number of the command that started it. Output, files   *)
(* and arguments are left out; the log of a job is JobLog's.               *)
(***************************************************************************)
EXTENDS Integers, FiniteSets, Sequences

CONSTANTS
  MaxCommands,    \* bound: commands received
  MaxConnections  \* bound: connections opened

ASSUME CommandBounds == MaxCommands \in Nat /\ MaxConnections \in Nat

Commands == 1..MaxCommands

VARIABLES
  conn,    \* the WebSocket: its state and how many there were
  cmd,     \* one task per command
  lock,    \* serial_lock: its holder and then its waiters
  proc,    \* the process each command started
  job,     \* JOBS
  active   \* ACTIVE_JOB_ID, 0 for None

vars == <<conn, cmd, lock, proc, job, active>>

\* read stands for every command that only looks, write for write_file, run for
\* run_shell and run_python.
Kinds == {"read", "write", "run", "start", "interrupt"}

\* Mutant of Serial: start_job runs beside other commands.
SerialWithoutStart == {"write", "run", "interrupt"}

\* requires_serial_command_execution
Serial == {"write", "run", "start", "interrupt"}

Running == {"spawning", "running", "terminating", "killing", "draining",
            "grace", "last", "cancelling", "abandoning"}
Ended   == {"answered", "lost"}
Live    == {"queued"} \cup Running
Results == {"none", "ok", "exit", "no_exit", "timed_out", "started", "refused",
            "not_found", "running", "exited", "interrupted"}

\* child: "zombie" has exited, "reaped" was waited for by asyncio's watcher
\* thread, "ended" has its return code set.  held: others hold its pipes.
\* signal: the strongest one sent to its group, or "child" for the child alone.
Process == [child  : {"none", "alive", "zombie", "reaped", "ended"},
            held   : BOOLEAN,
            signal : {"none", "SIGTERM", "SIGKILL", "child"}]
Job     == [status : {"none", "running", "exited", "interrupted"}, interrupted_at : BOOLEAN]
Command == [kind : Kinds, pc : {"new"} \cup Live \cup Ended, target : Commands \cup {0},
            signal : {"SIGTERM", "SIGKILL"}, result : Results]

TypeOK ==
  /\ conn \in [state : {"down", "open", "closing"}, count : 0..MaxConnections]
  /\ cmd \in [Commands -> Command]
  /\ lock \in Seq(Commands)
  /\ \A i, k \in 1..Len(lock) : i # k => lock[i] # lock[k]
  /\ \A i \in 1..Len(lock) : cmd[lock[i]].pc \in Live
  /\ proc \in [Commands -> Process]
  /\ job \in [Commands -> Job]
  /\ active \in Commands \cup {0}

Init ==
  /\ conn = [state |-> "down", count |-> 0]
  /\ cmd = [c \in Commands |-> [kind |-> "read", pc |-> "new", target |-> 0,
                                signal |-> "SIGTERM", result |-> "none"]]
  /\ lock = <<>>
  /\ proc = [c \in Commands |-> [child |-> "none", held |-> FALSE, signal |-> "none"]]
  /\ job = [c \in Commands |-> [status |-> "none", interrupted_at |-> FALSE]]
  /\ active = 0

-----------------------------------------------------------------------------
(* Processes.                                                               *)

Exited(c)   == proc[c].child \in {"zombie", "reaped", "ended"}
Signaled(c, sig) == [proc EXCEPT ![c].signal = IF @ = "SIGKILL" THEN @ ELSE sig]

\* What a process does by itself, at any time.  Who else holds the pipes is
\* kept for jobs alone: a run command does not wait for it.
Forks(c) ==
  /\ job[c].status = "running"
  /\ proc[c].child = "alive" /\ ~proc[c].held
  /\ proc[c].signal \in {"none", "SIGTERM"}
  /\ proc' = [proc EXCEPT ![c].held = TRUE]
  /\ UNCHANGED <<conn, cmd, lock, job, active>>

ChildEnds(c) ==
  /\ proc[c].child = "alive"
  /\ proc' = [proc EXCEPT ![c].child = "zombie"]
  /\ UNCHANGED <<conn, cmd, lock, job, active>>

OthersEnd(c) ==
  /\ proc[c].held /\ job[c].status = "running"
  /\ proc' = [proc EXCEPT ![c].held = FALSE]
  /\ UNCHANGED <<conn, cmd, lock, job, active>>

\* asyncio's watcher thread waits for the child; the loop learns of it later.
\* Left out where nobody in the runner waits for the child any more.
IsAwaited(c) == job[c].status = "running" \/ cmd[c].pc \in Running

WatcherReaps(c) ==
  /\ proc[c].child = "zombie" /\ IsAwaited(c)
  /\ proc' = [proc EXCEPT ![c].child = "reaped"]
  /\ UNCHANGED <<conn, cmd, lock, job, active>>

ReturncodeSet(c) ==
  /\ proc[c].child = "reaped" /\ IsAwaited(c)
  /\ proc' = [proc EXCEPT ![c].child = "ended"]
  /\ UNCHANGED <<conn, cmd, lock, job, active>>

\* _watch_process: the process, then its streams.
WatchProcess(j) ==
  /\ job[j].status = "running" /\ proc[j].child = "ended" /\ ~proc[j].held
  /\ job' = [job EXCEPT ![j].status =
                          IF job[j].interrupted_at THEN "interrupted" ELSE "exited"]
  /\ active' = IF active = j THEN 0 ELSE active
  /\ UNCHANGED <<conn, cmd, lock, proc>>

-----------------------------------------------------------------------------
(* The tasks of a connection.                                               *)

\* connect_once: the ACK is sent, then the task is created.  The controller
\* knows the jobs of the runner, or names one that is not there.
Receive(c) ==
  /\ conn.state = "open"
  /\ cmd[c].pc = "new" /\ \A d \in 1..c - 1 : cmd[d].pc # "new"
  /\ \E kind \in Kinds, sig \in {"SIGTERM", "SIGKILL"},
        target \in {0} \cup {j \in Commands : job[j].status # "none"} :
       /\ kind # "interrupt" => target = 0 /\ sig = "SIGTERM"
       /\ cmd' = [cmd EXCEPT ![c] = [kind |-> kind, pc |-> "queued", target |-> target,
                                     signal |-> sig, result |-> "none"]]
       /\ lock' = IF kind \in Serial THEN Append(lock, c) ELSE lock
  /\ UNCHANGED <<conn, proc, job, active>>

\* Mutant of Release: a command that ends keeps the lock.
ReleaseNever(c) == lock

\* The command is done and lets the lock go; its answer is sent, and whether it
\* arrives is the Durable Object's matter.
Release(c) == IF lock # <<>> /\ Head(lock) = c THEN Tail(lock) ELSE lock

Finish(c, result) ==
  /\ cmd' = [cmd EXCEPT ![c].pc = "answered", ![c].result = result]
  /\ lock' = Release(c)

Goes(c, pc) == cmd' = [cmd EXCEPT ![c].pc = pc] /\ UNCHANGED lock

MayRun(c) ==
  /\ cmd[c].pc = "queued"
  /\ cmd[c].kind \in Serial => Head(lock) = c

\* A command that needs no waiting.
ExecuteAtOnce(c) ==
  /\ MayRun(c) /\ cmd[c].kind \in {"read", "write"}
  /\ Finish(c, "ok")
  /\ UNCHANGED <<conn, proc, job, active>>

\* start_job refuses before it awaits anything.
JobIsRunning == active # 0 /\ job[active].status = "running"

\* A process that cannot be started is an exception that nobody answers.
Spawn(c) ==
  /\ MayRun(c)
  /\ cmd[c].kind \in {"run", "start"}
  /\ cmd[c].kind = "start" => ~JobIsRunning
  /\ \/ /\ proc' = [proc EXCEPT ![c].child = "alive"]
        /\ Goes(c, "spawning")
     \/ /\ cmd' = [cmd EXCEPT ![c].pc = "lost"] /\ lock' = Release(c)
        /\ UNCHANGED proc
  /\ UNCHANGED <<conn, job, active>>

RefuseJob(c) ==
  /\ MayRun(c) /\ cmd[c].kind = "start" /\ JobIsRunning
  /\ Finish(c, "refused")
  /\ UNCHANGED <<conn, proc, job, active>>

\* create_subprocess_shell returns.
Spawned(c) ==
  /\ cmd[c].pc = "spawning"
  /\ IF cmd[c].kind = "start"
     THEN /\ job' = [job EXCEPT ![c].status = "running"]
          /\ active' = c
          /\ Finish(c, "started")
     ELSE Goes(c, "running") /\ UNCHANGED <<job, active>>
  /\ UNCHANGED <<conn, proc>>

-----------------------------------------------------------------------------
(* collect_process                                                          *)

Collecting(c) == cmd[c].pc \in {"running", "terminating", "killing"}

\* wait_for_direct_process_exit.  When the watcher thread was first and the
\* loop has not heard of it, waitpid fails and the return code is still None.
SeeExit(c) ==
  /\ Collecting(c) /\ Exited(c)
  /\ cmd' = [cmd EXCEPT ![c].pc = "draining",
                        ![c].result = IF cmd[c].pc # "running" THEN "timed_out"
                                      ELSE IF proc[c].child = "reaped" THEN "no_exit"
                                      ELSE "exit"]
  /\ proc' = [proc EXCEPT ![c].child = "ended"]
  /\ UNCHANGED <<conn, lock, job, active>>

\* Mutant of Escalates: the group is asked to end, and no more.
EscalatesOnce(pc) == CASE pc = "running" -> "draining"
                       [] OTHER          -> pc

Escalates(pc) == CASE pc = "running"     -> "terminating"
                   [] pc = "terminating" -> "killing"
                   [] pc = "killing"     -> "draining"

\* The timeout of the command, then a second for each signal.
TimeOut(c) ==
  /\ Collecting(c) /\ ~Exited(c)
  /\ cmd' = [cmd EXCEPT ![c].pc = Escalates(@), ![c].result = "timed_out"]
  /\ proc' = CASE Escalates(cmd[c].pc) = "killing" -> Signaled(c, "SIGKILL")
               [] cmd[c].pc = "running"            -> Signaled(c, "SIGTERM")
               [] OTHER                            -> proc
  /\ UNCHANGED <<conn, lock, job, active>>

\* The streams end, or their timeout closes the pipes.
Drained(c) ==
  /\ cmd[c].pc = "draining"
  /\ Finish(c, cmd[c].result)
  /\ UNCHANGED <<conn, proc, job, active>>

-----------------------------------------------------------------------------
(* interrupt_job                                                            *)

Target(c) == cmd[c].target
Interrupting(c) == cmd[c].pc \in {"grace", "last"}

InterruptEnded(c) ==
  /\ \/ MayRun(c) /\ cmd[c].kind = "interrupt"
     \/ Interrupting(c)
  /\ IF Target(c) = 0 THEN Finish(c, "not_found")
     ELSE job[Target(c)].status # "running" /\ Finish(c, job[Target(c)].status)
  /\ UNCHANGED <<conn, proc, job, active>>

InterruptRunning(c) ==
  /\ MayRun(c) /\ cmd[c].kind = "interrupt"
  /\ Target(c) # 0 /\ job[Target(c)].status = "running"
  /\ job' = [job EXCEPT ![Target(c)].interrupted_at = TRUE]
  /\ proc' = Signaled(Target(c), cmd[c].signal)
  /\ Goes(c, IF cmd[c].signal = "SIGTERM" THEN "grace" ELSE "last")
  /\ UNCHANGED <<conn, active>>

\* Mutant of KillAfter: the job is given all the time it wants.
KillNever(c) == FALSE /\ UNCHANGED vars

KillAfter(c) ==
  /\ cmd[c].pc = "grace" /\ job[Target(c)].status = "running"
  /\ proc' = Signaled(Target(c), "SIGKILL")
  /\ Goes(c, "last")
  /\ UNCHANGED <<conn, job, active>>

\* Five seconds later the job is reported as it is.
GiveUp(c) ==
  /\ cmd[c].pc = "last" /\ job[Target(c)].status = "running"
  /\ Finish(c, "running")
  /\ UNCHANGED <<conn, proc, job, active>>

-----------------------------------------------------------------------------
(* The connection.                                                          *)

Connect ==
  /\ conn.state = "down" /\ conn.count < MaxConnections
  /\ conn' = [state |-> "open", count |-> conn.count + 1]
  /\ UNCHANGED <<cmd, lock, proc, job, active>>

\* Where CancelledError finds a task.  One that is being spawned waits for its
\* child to end; one that collects closes its streams.
Cancelled(pc) ==
  CASE pc \in {"queued", "draining", "grace", "last"} -> "lost"
    [] pc = "spawning" -> "abandoning"
    [] pc \in {"running", "terminating", "killing"} -> "cancelling"
    [] OTHER -> pc

\* Mutant of KilledBy: what a cancelled command runs is left alone.
KilledByNothing(pc) == "none"

\* Only the wait for the command itself answers a cancellation with SIGKILL.
KilledBy(pc) == CASE pc = "running"  -> "SIGKILL"
                  [] pc = "spawning" -> "child"
                  [] OTHER           -> "none"

Disconnect ==
  /\ conn.state = "open"
  /\ conn' = [conn EXCEPT !.state = "closing"]
  /\ cmd' = [c \in Commands |-> [cmd[c] EXCEPT !.pc = Cancelled(@)]]
  /\ proc' = [c \in Commands |->
                IF KilledBy(cmd[c].pc) = "none" THEN proc[c]
                ELSE Signaled(c, KilledBy(cmd[c].pc))[c]]
  /\ lock' = <<>>
  /\ UNCHANGED <<job, active>>

\* A second for the killed child and a moment for its streams.
CleanedUp(c) ==
  /\ \/ cmd[c].pc = "cancelling"
     \/ cmd[c].pc = "abandoning" /\ proc[c].child = "ended"
  /\ cmd' = [cmd EXCEPT ![c].pc = "lost"]
  /\ UNCHANGED <<conn, lock, proc, job, active>>

\* Mutant of Gathered: the next connection does not wait for the old tasks.
NotGathered ==
  /\ conn.state = "closing"
  /\ conn' = [conn EXCEPT !.state = "down"]
  /\ UNCHANGED <<cmd, lock, proc, job, active>>

Gathered ==
  /\ conn.state = "closing"
  /\ \A c \in Commands : cmd[c].pc \notin Live
  /\ conn' = [conn EXCEPT !.state = "down"]
  /\ UNCHANGED <<cmd, lock, proc, job, active>>

Task(c) ==
  \/ ExecuteAtOnce(c) \/ Spawn(c) \/ RefuseJob(c) \/ Spawned(c)
  \/ SeeExit(c) \/ TimeOut(c) \/ Drained(c)
  \/ InterruptEnded(c) \/ InterruptRunning(c) \/ KillAfter(c) \/ GiveUp(c)
  \/ CleanedUp(c)

Next ==
  \/ Connect \/ Disconnect \/ Gathered
  \/ \E c \in Commands :
       \/ Receive(c) \/ Task(c) \/ WatchProcess(c)
       \/ Forks(c) \/ ChildEnds(c) \/ OthersEnd(c) \/ WatcherReaps(c) \/ ReturncodeSet(c)

Spec == Init /\ [][Next]_vars

\* The loop and its timers run, the watcher thread runs, and a child that was
\* sent SIGKILL ends.  Nothing else has to end, and nobody has to connect.
Progress ==
  \/ Gathered
  \/ \E c \in Commands :
       \/ Task(c) \/ WatchProcess(c) \/ WatcherReaps(c) \/ ReturncodeSet(c)
       \/ proc[c].signal \in {"SIGKILL", "child"} /\ ChildEnds(c)

FairSpec == Spec /\ WF_vars(Progress)

-----------------------------------------------------------------------------
(* At most one command that changes something is executing, over all the   *)
(* connections there were: connect_once does not return before the tasks   *)
(* it cancelled have ended.                                                *)
OneAtATime ==
  Cardinality({c \in Commands : cmd[c].kind \in Serial /\ cmd[c].pc \in Running}) <= 1

(* A job that JOBS calls running is the one ACTIVE_JOB_ID names, so at most *)
(* one is, although start_job looks before it awaits the process and sets  *)
(* it after.                                                               *)
RunningJobIsActive == \A j \in Commands : job[j].status = "running" => active = j

(* A process that nobody asked to end is that of a command that still      *)
(* executes or of a job that the runner calls running.                     *)
ProcessesAreOwned ==
  \A c \in Commands :
    proc[c].child = "alive" /\ proc[c].signal = "none"
      => cmd[c].pc \in Running \/ job[c].status = "running"

(* What the controller is told when it asked for something to end: the     *)
(* child of a run command that was answered, and the job of an interrupt   *)
(* that was answered, has ended or has been sent SIGKILL.                  *)
AnswerMeansOver ==
  \A c \in Commands :
    cmd[c].pc = "answered" =>
      /\ cmd[c].kind = "run" => Exited(c) \/ proc[c].signal = "SIGKILL"
      /\ cmd[c].result = "running" => proc[Target(c)].signal = "SIGKILL"

(* Whatever a command waits for, the lock, a process that ignores SIGTERM  *)
(* or a descendant that holds the pipes, its task ends.                    *)
EveryCommandEnds == \A c \in Commands : cmd[c].pc # "new" ~> cmd[c].pc \in Ended

(* Whoever runs a command to its end gets its exit code (collect_process). *)
ExitCodeIsReturned == \A c \in Commands : cmd[c].pc = "answered" => cmd[c].result # "no_exit"
=============================================================================
