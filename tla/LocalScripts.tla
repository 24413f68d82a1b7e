---------------------------- MODULE LocalScripts ----------------------------
(***************************************************************************)
(* The scripts that set up, replace, stop and reconnect the bridge         *)
(* (scripts/*.mjs, scripts/colab-reconnect-runner.py) and what they act    *)
(* on: the Worker's secrets and sessions, the local configuration file,    *)
(* the Colab VM with its runner processes and their pid file.              *)
(*                                                                         *)
(* A run of a script is named by the tool call that started it, and so are *)
(* the one bridge session and the one runner process it may create.  Each  *)
(* external command is a step of its own that may fail; a run that is      *)
(* killed leaves the command it was waiting for behind.                    *)
(***************************************************************************)
EXTENDS Naturals, FiniteSets

CONSTANTS
  Calls,      \* tool calls, each of which starts at most one script
  Torn,       \* a configuration file that is not valid JSON
  First,      \* the session and the runner of an earlier setup
  None,       \* no session, no process, no file
  MaxFaults   \* bound: dead runners and reclaimed VMs

ASSUME NamesAssumption ==
  First \notin Calls /\ None \notin Calls \cup {First} /\ Torn \notin Calls \cup {First, None}
ASSUME CallsAssumption == IsFiniteSet(Calls)
ASSUME FaultsAssumption == MaxFaults \in Nat

VARIABLES
  adminSecret,  \* the run whose ADMIN_SECRET the Worker holds
  created,      \* bridge sessions the Worker ever made
  live,         \* those neither revoked nor expired
  file,         \* the local configuration file
  vm,           \* the named Colab VM exists
  alive,        \* runner processes on the VM
  serves,       \* the bridge session in a runner's environment
  pid,          \* the runner the pid file names
  script,       \* runs of the scripts
  faults,       \* counts what broke, for the bound
  overlapped,   \* history: some two runs were active at once
  solo          \* history: the run since whose beginning no other was active

worker      == <<adminSecret, created, live>>
runtime     == <<vm, alive, serves, pid>>
history     == <<faults, overlapped, solo>>
scriptVars  == <<worker, file, runtime, script, history>>

Runs     == Calls \cup {First}
(* A configuration is named by the run that wrote it: session, tokens and  *)
(* dangerous-tools flag go together.                                       *)
Config   == Runs
Missing  == None

ScriptTools == {"setup", "recreate", "stop", "reconnect", "local", "dry_run"}

\* Where a run is: "new" and "done" apart, the command it waits for.
InProcess  == {"write", "writing"}
Deployment == {"worker", "create"}
Bootstrap  == {"colab", "launch", "verify"}
Helper     == {"read", "signal", "restart"}
Exits      == {"ok", "failed", "gone"}
Places     == {"new", "stopping", "local"} \cup InProcess \cup Deployment \cup Bootstrap
                 \cup Helper \cup Exits

NewRun == [tool |-> "local", pc |-> "new", killed |-> FALSE, env |-> None,
           bootstrap |-> FALSE]

Active(c) == script[c].pc \notin {"new"} \cup Exits
At(c, place) == script[c].pc = place
Goto(c, place) == script' = [script EXCEPT ![c].pc = place]

(* The process that would start the next command was killed: setup-all for *)
(* everything but the bootstrap it starts, recreate and stop only for the  *)
(* command that stops the VM.                                              *)
Orphaned(c) ==
  /\ script[c].killed
  /\ \/ At(c, "stopping") \/ At(c, "local")
     \/ script[c].tool = "setup" /\ script[c].pc \in Deployment \cup InProcess

Continue(c, place) == Goto(c, IF Orphaned(c) THEN "gone" ELSE place)

(* A command fails: the script that runs it exits with 1.                  *)
Fail(c) == Continue(c, "failed")

-----------------------------------------------------------------------------
(* setup-all reads the file it is going to replace before anything else.   *)
CanReadConfig == file # Torn

(* Where a run starts; recreate may be told to skip the stop.              *)
FirstPlace(tool, skipStop) ==
  CASE tool = "setup" -> IF CanReadConfig THEN "worker" ELSE "failed"
    [] tool = "recreate" /\ skipStop -> IF CanReadConfig THEN "worker" ELSE "failed"
    [] tool = "recreate" /\ ~skipStop -> "stopping"
    [] tool = "stop" -> "stopping"
    [] tool = "reconnect" -> "read"
    [] OTHER -> "local"

(* The runs cs start together; setup bootstraps unless told not to,        *)
(* recreate always.                                                        *)
Begin(cs, tool) ==
  LET others == {c \in Calls : Active(c)} IN
  /\ \E skipStop  \in SUBSET {c \in cs : tool[c] = "recreate"},
        bootstrap \in SUBSET {c \in cs : tool[c] = "setup"} :
       script' = [c \in Calls |->
         IF c \notin cs THEN script[c]
         ELSE [NewRun EXCEPT !.tool = tool[c],
                             !.pc = FirstPlace(tool[c], c \in skipStop),
                             !.bootstrap = c \in bootstrap \/ tool[c] = "recreate"]]
  /\ IF cs = {} THEN UNCHANGED <<overlapped, solo>>
     ELSE LET apart == others = {} /\ Cardinality(cs) = 1 IN
          /\ overlapped' = (overlapped \/ ~apart)
          /\ IF apart THEN solo' \in cs ELSE solo' = None
  /\ UNCHANGED faults

-----------------------------------------------------------------------------
(* recreate-runtime.mjs and stop-runtime.mjs: colab stop.  recreate goes   *)
(* on to setup-all, which reads the file now, whatever it returned.        *)
AfterStop(c, exit) ==
  IF script[c].tool = "stop" THEN exit
  ELSE IF CanReadConfig THEN "worker" ELSE "failed"

(* With the VM go its processes, the pid file and a helper running there.  *)
LoseRuntime(runs) ==
  /\ vm' = FALSE /\ alive' = {} /\ pid' = None
  /\ script' = [c \in Calls |->
       IF runs[c].pc \in {"signal", "restart"} THEN [runs[c] EXCEPT !.pc = "failed"]
       ELSE runs[c]]

ColabStop(c) ==
  /\ At(c, "stopping")
  /\ \/ LoseRuntime([script EXCEPT ![c].pc =
                         IF Orphaned(c) THEN "gone" ELSE AfterStop(c, "ok")])
     \/ Continue(c, AfterStop(c, "failed")) /\ UNCHANGED <<vm, alive, pid>>
  /\ UNCHANGED <<worker, file, serves, history>>

(* setup-all.mjs: prerequisites, then wrangler puts the two secrets and    *)
(* deploys; any of them may fail, with or without the first one's effect.  *)
(* The admin secret is generated, so that every run has its own.           *)
ConfigureWorker(c) ==
  /\ At(c, "worker")
  /\ \/ adminSecret' = c /\ (Continue(c, "create") \/ Fail(c))
     \/ Fail(c) /\ UNCHANGED adminSecret
  /\ UNCHANGED <<created, live, file, runtime, history>>

(* createBridgeSession: the Worker compares the secret; the answer may be  *)
(* lost after the session was created.                                     *)
Authorized(c) == adminSecret = c

\* Mutant of CreateSession: an error answer is taken for a session.
CreateSessionUnchecked(c) ==
  /\ At(c, "create")
  /\ \/ /\ Authorized(c)
        /\ created' = created \cup {c} /\ live' = live \cup {c}
     \/ ~Authorized(c) /\ UNCHANGED <<created, live>>
  /\ Continue(c, "write")
  /\ UNCHANGED <<adminSecret, file, runtime, history>>

\* Mutant of CreateSession: a session is usable before the Worker has recorded it.
CreateSessionUnrecorded(c) ==
  /\ At(c, "create") /\ Authorized(c)
  /\ live' = live \cup {c}
  /\ Continue(c, "write")
  /\ UNCHANGED <<adminSecret, created, file, runtime, history>>

CreateSession(c) ==
  /\ At(c, "create")
  /\ \/ /\ Authorized(c)
        /\ created' = created \cup {c} /\ live' = live \cup {c}
        /\ Continue(c, "write") \/ Fail(c)
     \/ Fail(c) /\ UNCHANGED <<created, live>>
  /\ UNCHANGED <<adminSecret, file, runtime, history>>

(* writeBridgeConfig: writeFile truncates the file, then fills it.         *)
OpenConfig(c) ==
  /\ At(c, "write")
  /\ \/ file' = Torn /\ Goto(c, "writing")
     \/ Fail(c) /\ UNCHANGED file
  /\ UNCHANGED <<worker, runtime, history>>

WriteConfig(c) ==
  /\ At(c, "writing")
  /\ \/ file' = c /\ Goto(c, IF script[c].bootstrap THEN "colab" ELSE "verify")
     \/ Fail(c) /\ UNCHANGED file
  /\ UNCHANGED <<worker, runtime, history>>

-----------------------------------------------------------------------------
(* bootstrap-colab.mjs: reuse the VM or create one, install and upload,    *)
(* start the runner.  A runner that is already there is left alone.        *)
EnsureRuntime(c) ==
  /\ At(c, "colab")
  /\ \/ vm' = TRUE /\ (Goto(c, "launch") \/ Fail(c))
     \/ Fail(c) /\ UNCHANGED vm
  /\ UNCHANGED <<worker, file, alive, serves, pid, history>>

StartProcess(c, session) ==
  /\ vm
  /\ alive' = alive \cup {c}
  /\ serves' = [serves EXCEPT ![c] = session]
  /\ pid' = c

\* Mutant of LaunchRunner: the runner is started on the environment of the one before it.
LaunchRunnerInherited(c) ==
  /\ At(c, "launch")
  /\ \/ StartProcess(c, IF pid = None THEN c ELSE serves[pid]) /\ Goto(c, "verify")
     \/ Fail(c) /\ UNCHANGED <<alive, serves, pid>>
  /\ UNCHANGED <<worker, file, vm, history>>

LaunchRunner(c) ==
  /\ At(c, "launch")
  /\ \/ StartProcess(c, c) /\ Goto(c, "verify")
     \/ Fail(c) /\ UNCHANGED <<alive, serves, pid>>
  /\ UNCHANGED <<worker, file, vm, history>>

Verify(c) ==
  /\ At(c, "verify")
  /\ Continue(c, "ok") \/ Fail(c)
  /\ UNCHANGED <<worker, file, runtime, history>>

-----------------------------------------------------------------------------
(* colab-reconnect-runner.py on the VM: the bridge environment comes from  *)
(* the process the pid file names; that process is signalled and its       *)
(* successor started, each on what the pid file says then.  A helper whose *)
(* answer is lost has failed, whatever it did.                             *)
ReadRunnerEnv(c) ==
  /\ At(c, "read")
  /\ \/ vm /\ pid \in alive
        /\ script' = [script EXCEPT ![c].pc = "signal", ![c].env = serves[pid]]
     \/ Fail(c)
  /\ UNCHANGED <<worker, file, runtime, history>>

\* Mutant of StopExistingRunner: the old process is left running.
LeaveExistingRunner(c) ==
  /\ At(c, "signal")
  /\ Goto(c, "restart")
  /\ UNCHANGED <<worker, file, runtime, history>>

(* What the pid file names may have died since: the process is then not    *)
(* there, or not the expected one any more, which the helper refuses.      *)
StopExistingRunner(c) ==
  /\ At(c, "signal")
  /\ \/ alive' = alive \ {pid} /\ Goto(c, "restart")
     \/ pid \notin alive /\ Fail(c) /\ UNCHANGED alive
  /\ UNCHANGED <<worker, file, vm, serves, pid, history>>

StartRunner(c) ==
  /\ At(c, "restart")
  /\ \/ /\ StartProcess(c, script[c].env)
        /\ \E exit \in {"ok", "failed"} :
             script' = [script EXCEPT ![c].pc = exit, ![c].env = None]
     \/ Fail(c) /\ UNCHANGED <<alive, serves, pid>>
  /\ UNCHANGED <<worker, file, vm, history>>

(* doctor, runtime options, Colab CLI queries and transfers, dry runs.     *)
LocalCommand(c) ==
  /\ At(c, "local")
  /\ Continue(c, "ok") \/ Fail(c)
  /\ UNCHANGED <<worker, file, runtime, history>>

ScriptStep(c) ==
  \/ ColabStop(c) \/ ConfigureWorker(c) \/ CreateSession(c)
  \/ OpenConfig(c) \/ WriteConfig(c)
  \/ EnsureRuntime(c) \/ LaunchRunner(c) \/ Verify(c)
  \/ ReadRunnerEnv(c) \/ StopExistingRunner(c) \/ StartRunner(c)
  \/ LocalCommand(c)

(* SIGTERM reaches the script the server started and nothing below it.     *)
Kill(c) ==
  script' = [script EXCEPT ![c].killed = TRUE,
    ![c].pc = IF @ \in InProcess /\ script[c].tool = "setup" THEN "gone" ELSE @]

-----------------------------------------------------------------------------
(* What happens to the bridge without a script: a runner process dies,     *)
(* Colab takes the VM back.                                                *)
Fault == faults < MaxFaults /\ faults' = faults + 1 /\ UNCHANGED <<overlapped, solo>>

RunnerDies ==
  /\ Fault
  /\ \E r \in alive : alive' = alive \ {r}
  /\ UNCHANGED <<worker, file, vm, serves, pid, script>>

RuntimeReclaimed ==
  /\ Fault
  /\ vm
  /\ LoseRuntime(script)
  /\ UNCHANGED <<worker, file, serves>>

(* Nothing was ever set up, or an earlier setup left session and runner    *)
(* First.                                                                  *)
ScriptInit ==
  /\ \/ /\ file = Missing /\ created = {} /\ live = {}
        /\ vm = FALSE /\ alive = {} /\ pid = None
     \/ /\ file = First
        /\ created = {First} /\ live = {First}
        /\ vm = TRUE /\ alive = {First} /\ pid = First
  /\ adminSecret = First
  /\ serves = [r \in Runs |-> IF r = First THEN First ELSE None]
  /\ script = [c \in Calls |-> NewRun]
  /\ faults = 0 /\ overlapped = FALSE /\ solo = None

ScriptTypeOK ==
  /\ adminSecret \in Runs
  /\ created \subseteq Runs /\ live \subseteq created
  /\ file \in Config \cup {Torn, Missing}
  /\ vm \in BOOLEAN /\ alive \subseteq Runs
  /\ serves \in [Runs -> Runs \cup {None}] /\ pid \in Runs \cup {None}
  /\ script \in [Calls -> [tool : ScriptTools, pc : Places, killed : BOOLEAN,
                           env : Runs \cup {None}, bootstrap : BOOLEAN]]
  /\ faults \in 0..MaxFaults /\ overlapped \in BOOLEAN /\ solo \in Calls \cup {None}
=============================================================================
