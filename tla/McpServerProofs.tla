-------------------------- MODULE McpServerProofs --------------------------
(***************************************************************************)
(* Proofs about McpServer and the scripts it runs, for any number of tool  *)
(* calls, of calls in a message, of scripts and of faults.                 *)
(***************************************************************************)
EXTENDS McpServer, FiniteSetTheorems, TLAPS

-----------------------------------------------------------------------------
(* The inductive invariant.                                                 *)

Provisions   == {"setup", "recreate"}
BeforeLaunch == {"new", "stopping", "colab", "launch"} \cup Deployment \cup InProcess

\* A run belongs to the call that started it, and goes on no further than it.
RunInv ==
  \A c \in Calls :
    /\ script[c].pc # "new" => call[c].state # "new" /\ call[c].tool = script[c].tool
    /\ script[c].pc \in Deployment \cup InProcess \cup Bootstrap =>
         script[c].tool \in Provisions
    /\ script[c].pc = "stopping" => script[c].tool \in {"stop", "recreate"}
    /\ script[c].pc \in Helper \cup {"local"} => script[c].tool \notin Provisions
    /\ call[c].result = "ok" /\ call[c].tool \in ScriptTools => script[c].pc = "ok"

\* The file is the work of a run that provisions, which made its session before.
FileInv ==
  /\ file \in Calls => script[file].pc # "new" /\ script[file].tool \in Provisions
  /\ \A c \in Calls : script[c].pc \in InProcess => c \in created

\* What a run that was alone has done, nobody has undone.
SoloInv ==
  \A c \in Calls : solo = c =>
    /\ \A d \in Calls : d # c => ~Active(d)
    /\ script[c].bootstrap /\ script[c].tool \in Provisions =>
         /\ script[c].pc \in {"colab", "launch", "verify", "ok"} => file = c
         /\ script[c].pc \in {"verify", "ok"} /\ vm => pid = c /\ serves[c] = c
    /\ Provisioned(c) => cache \in {None, c}

\* Before a run launches its runner nothing knows the session of the run.
ServesInv ==
  \A c \in Calls : script[c].pc \in BeforeLaunch =>
    /\ \A r \in Runs : serves[r] # c
    /\ \A d \in Calls : script[d].env # c

ApartInv == ~overlapped => \A c, d \in Calls : Active(c) /\ Active(d) => c = d

\* The session a helper is about to start a runner for is served by no other.
HelperInv ==
  ~overlapped => \A d \in Calls :
    /\ script[d].pc = "signal" => \A r \in alive : r # pid => serves[r] # script[d].env
    /\ script[d].pc = "restart" => \A r \in alive : serves[r] # script[d].env

Inv == /\ TypeOK /\ RunInv /\ FileInv /\ ConfigNamesCreatedSession /\ StaleOnlyAfterFailure
       /\ SoloInv /\ ServesInv /\ ApartInv /\ HelperInv /\ NoRivalRunners

-----------------------------------------------------------------------------
(* What the steps do to the runs.                                           *)

Run == [tool : ScriptTools, pc : Places, killed : BOOLEAN, env : Runs \cup {None},
        bootstrap : BOOLEAN]

\* The run c goes to the place p, and nothing else about the runs changes.
Moves(c, p) ==
  /\ script' \in [Calls -> Run]
  /\ script'[c].pc = p /\ script'[c].tool = script[c].tool
  /\ script'[c].env = script[c].env /\ script'[c].bootstrap = script[c].bootstrap
  /\ \A d \in Calls : d # c => script'[d] = script[d]

LEMMA GotoMoves ==
  ASSUME TypeOK, NEW c \in Calls, NEW p \in Places, Goto(c, p)
  PROVE  Moves(c, p)
<1>1. script \in [Calls -> Run] /\ script[c] \in Run
  BY DEF TypeOK, ScriptTypeOK, Run
<1> DEFINE x == [script[c] EXCEPT !.pc = p]
<1>2. /\ x \in Run /\ x.pc = p /\ x.tool = script[c].tool /\ x.env = script[c].env
      /\ x.bootstrap = script[c].bootstrap
  BY <1>1 DEF Run
<1> HIDE DEF x
<1>3. script' = [script EXCEPT ![c] = x]
  BY DEF Goto, x
<1> QED
  BY <1>1, <1>2, <1>3 DEF Moves

LEMMA ContinueMoves ==
  ASSUME TypeOK, NEW c \in Calls, NEW p \in Places, Continue(c, p)
  PROVE  Moves(c, p) \/ Moves(c, "gone")
<1>1. "gone" \in Places
  BY DEF Places, Exits
<1> QED
  BY <1>1, GotoMoves DEF Continue

LEMMA FailMoves ==
  ASSUME TypeOK, NEW c \in Calls, Fail(c)
  PROVE  Moves(c, "failed") \/ Moves(c, "gone")
BY ContinueMoves DEF Fail, Places, Exits

\* With the VM go the helpers that run on it.
LEMMA LoseRuntimeEffect ==
  ASSUME NEW runs \in [Calls -> Run], LoseRuntime(runs)
  PROVE  /\ vm' = FALSE /\ alive' = {} /\ pid' = None
         /\ script' \in [Calls -> Run]
         /\ \A d \in Calls :
              /\ script'[d].pc = IF runs[d].pc \in {"signal", "restart"} THEN "failed"
                                 ELSE runs[d].pc
              /\ script'[d].tool = runs[d].tool /\ script'[d].env = runs[d].env
              /\ script'[d].bootstrap = runs[d].bootstrap
<1>1. ASSUME NEW d \in Calls
      PROVE  /\ [runs[d] EXCEPT !.pc = "failed"] \in Run
             /\ [runs[d] EXCEPT !.pc = "failed"].pc = "failed"
             /\ [runs[d] EXCEPT !.pc = "failed"].tool = runs[d].tool
             /\ [runs[d] EXCEPT !.pc = "failed"].env = runs[d].env
             /\ [runs[d] EXCEPT !.pc = "failed"].bootstrap = runs[d].bootstrap
  BY DEF Run, Places, Exits
<1> QED
  BY <1>1 DEF LoseRuntime

\* The VM goes while the run c goes from stopping to the place p.
Stops(c, p) ==
  /\ vm' = FALSE /\ alive' = {} /\ pid' = None
  /\ script' \in [Calls -> Run]
  /\ script'[c].pc = p /\ script'[c].tool = script[c].tool
  /\ script'[c].env = script[c].env /\ script'[c].bootstrap = script[c].bootstrap
  /\ \A d \in Calls : d # c =>
       /\ script'[d].pc = IF script[d].pc \in {"signal", "restart"} THEN "failed"
                          ELSE script[d].pc
       /\ script'[d].tool = script[d].tool /\ script'[d].env = script[d].env
       /\ script'[d].bootstrap = script[d].bootstrap

Ends(c) == Moves(c, "failed") \/ Moves(c, "gone")

ReadsEnv(c) ==
  /\ pid \in alive
  /\ script' \in [Calls -> Run]
  /\ script'[c].pc = "signal" /\ script'[c].tool = script[c].tool
  /\ script'[c].env = serves[pid] /\ script'[c].bootstrap = script[c].bootstrap
  /\ \A d \in Calls : d # c => script'[d] = script[d]

Restarts(c) ==
  /\ StartProcess(c, script[c].env)
  /\ script' \in [Calls -> Run]
  /\ script'[c].pc \in {"ok", "failed"} /\ script'[c].tool = script[c].tool
  /\ script'[c].env = None /\ script'[c].bootstrap = script[c].bootstrap
  /\ \A d \in Calls : d # c => script'[d] = script[d]

\* One command of a script that neither stops the VM nor helps on it.
Provision(c) ==
  \/ /\ At(c, "worker") /\ (Ends(c) \/ Moves(c, "create"))
     /\ UNCHANGED <<created, live, file, runtime>>
  \/ /\ At(c, "create") /\ UNCHANGED <<file, runtime>>
     /\ \/ Ends(c) /\ UNCHANGED <<created, live>>
        \/ /\ Ends(c) \/ Moves(c, "write")
           /\ created' = created \cup {c} /\ live' = live \cup {c}
  \/ /\ At(c, "write") /\ UNCHANGED <<created, live, runtime>>
     /\ (Moves(c, "writing") /\ file' = Torn) \/ (Ends(c) /\ file' = file)
  \/ /\ At(c, "writing") /\ UNCHANGED <<created, live, runtime>>
     /\ \/ /\ file' = c
           /\ Moves(c, IF script[c].bootstrap THEN "colab" ELSE "verify")
        \/ Ends(c) /\ file' = file
  \/ /\ At(c, "colab") /\ (Ends(c) \/ Moves(c, "launch"))
     /\ UNCHANGED <<created, live, file, alive, serves, pid>> /\ vm' \in BOOLEAN
  \/ /\ At(c, "launch") /\ UNCHANGED <<created, live, file, vm>>
     /\ \/ StartProcess(c, c) /\ Moves(c, "verify")
        \/ Ends(c) /\ UNCHANGED runtime
  \/ /\ At(c, "verify") /\ (Ends(c) \/ Moves(c, "ok"))
     /\ UNCHANGED <<created, live, file, runtime>>

Help(c) ==
  /\ UNCHANGED <<created, live, file, vm>>
  /\ \/ At(c, "read") /\ (ReadsEnv(c) \/ Ends(c)) /\ UNCHANGED runtime
     \/ /\ At(c, "signal") /\ Moves(c, "restart")
        /\ alive' = alive \ {pid} /\ UNCHANGED <<serves, pid>>
     \/ At(c, "signal") /\ Ends(c) /\ UNCHANGED runtime
     \/ At(c, "restart") /\ (Restarts(c) \/ (Ends(c) /\ UNCHANGED runtime))
     \/ At(c, "local") /\ (Ends(c) \/ Moves(c, "ok")) /\ UNCHANGED runtime

Stop(c) ==
  /\ At(c, "stopping") /\ UNCHANGED <<created, live, file, serves>>
  /\ \/ \E p \in {"ok", "failed", "gone", "worker"} :
          /\ Stops(c, p)
          /\ p = "ok" => script[c].tool = "stop"
          /\ p = "worker" => script[c].tool # "stop"
     \/ /\ UNCHANGED runtime
        /\ Ends(c) \/ (Moves(c, "worker") /\ script[c].tool # "stop")

LEMMA StopEffect ==
  ASSUME TypeOK, NEW c \in Calls, ColabStop(c)
  PROVE  Stop(c)
<1> DEFINE exit == IF Orphaned(c) THEN "gone" ELSE AfterStop(c, "ok")
           runs == [script EXCEPT ![c].pc = exit]
<1>1. script \in [Calls -> Run] /\ script[c] \in Run
  BY DEF TypeOK, ScriptTypeOK, Run
<1>2. ASSUME LoseRuntime(runs)
      PROVE  \E p \in {"ok", "failed", "gone", "worker"} :
               /\ Stops(c, p)
               /\ p = "ok" => script[c].tool = "stop"
               /\ p = "worker" => script[c].tool # "stop"
  <2>1. /\ exit \in {"ok", "failed", "gone", "worker"}
        /\ exit = "ok" => script[c].tool = "stop"
        /\ exit = "worker" => script[c].tool # "stop"
    BY DEF AfterStop
  <2> DEFINE x == [script[c] EXCEPT !.pc = exit]
  <2> HIDE DEF exit
  <2>2. /\ x \in Run /\ x.pc = exit /\ x.tool = script[c].tool
        /\ x.env = script[c].env /\ x.bootstrap = script[c].bootstrap
    BY <1>1, <2>1 DEF Run, Places, Exits, Deployment
  <2> HIDE DEF x
  <2>3. runs = [script EXCEPT ![c] = x]
    BY DEF x
  <2>4. /\ runs \in [Calls -> Run] /\ runs[c] = x
        /\ \A d \in Calls : d # c => runs[d] = script[d]
    BY <1>1, <2>2, <2>3
  <2> HIDE DEF runs
  <2>5. Stops(c, exit)
    <3>1. /\ vm' = FALSE /\ alive' = {} /\ pid' = None
          /\ script' \in [Calls -> Run]
          /\ \A d \in Calls :
               /\ script'[d].pc = IF runs[d].pc \in {"signal", "restart"} THEN "failed"
                                  ELSE runs[d].pc
               /\ script'[d].tool = runs[d].tool /\ script'[d].env = runs[d].env
               /\ script'[d].bootstrap = runs[d].bootstrap
      BY <1>2, <2>4, LoseRuntimeEffect
    <3>2. /\ script'[c].pc = exit /\ script'[c].tool = script[c].tool
          /\ script'[c].env = script[c].env /\ script'[c].bootstrap = script[c].bootstrap
      BY <2>1, <2>2, <2>4, <3>1
    <3> QED
      BY <2>4, <3>1, <3>2 DEF Stops
  <2> QED
    BY <2>1, <2>5
<1>3. ASSUME Continue(c, AfterStop(c, "failed"))
      PROVE  Ends(c) \/ (Moves(c, "worker") /\ script[c].tool # "stop")
  <2>1. \/ AfterStop(c, "failed") = "failed"
        \/ AfterStop(c, "failed") = "worker" /\ script[c].tool # "stop"
    BY DEF AfterStop
  <2>2. {"failed", "worker"} \subseteq Places
    BY DEF Places, Exits, Deployment
  <2> QED
    BY <1>3, <2>1, <2>2, ContinueMoves DEF Ends
<1> QED
  BY <1>2, <1>3 DEF ColabStop, Stop, worker, runtime

LEMMA ProvisionEffect ==
  ASSUME TypeOK, NEW c \in Calls,
         \/ ConfigureWorker(c) \/ CreateSession(c) \/ OpenConfig(c) \/ WriteConfig(c)
         \/ EnsureRuntime(c) \/ LaunchRunner(c) \/ Verify(c)
  PROVE  Provision(c)
<1>1. {"create", "write", "writing", "colab", "launch", "verify", "ok"} \subseteq Places
  BY DEF Places, Exits, Deployment, InProcess, Bootstrap
<1>2. Fail(c) => Ends(c)
  BY FailMoves DEF Ends
<1>3. \A p \in Places : Goto(c, p) => Moves(c, p)
  BY GotoMoves
<1>4. \A p \in Places : Continue(c, p) => Moves(c, p) \/ Ends(c)
  BY ContinueMoves DEF Ends
<1>5. CASE ConfigureWorker(c)
  BY <1>1, <1>2, <1>4, <1>5 DEF ConfigureWorker, Provision
<1>6. CASE CreateSession(c)
  BY <1>1, <1>2, <1>4, <1>6 DEF CreateSession, Provision
<1>7. CASE OpenConfig(c)
  BY <1>1, <1>2, <1>3, <1>7 DEF OpenConfig, Provision, worker
<1>8. CASE WriteConfig(c)
  BY <1>1, <1>2, <1>3, <1>8 DEF WriteConfig, Provision, worker
<1>9. CASE EnsureRuntime(c)
  <2>1. vm' \in BOOLEAN
    BY <1>9 DEF EnsureRuntime, TypeOK, ScriptTypeOK
  <2> QED
    BY <1>1, <1>2, <1>3, <1>9, <2>1 DEF EnsureRuntime, Provision, worker
<1>10. CASE LaunchRunner(c)
  BY <1>1, <1>2, <1>3, <1>10 DEF LaunchRunner, Provision, worker, runtime
<1>11. CASE Verify(c)
  BY <1>1, <1>2, <1>4, <1>11 DEF Verify, Provision, worker
<1> QED
  BY <1>5, <1>6, <1>7, <1>8, <1>9, <1>10, <1>11

LEMMA HelpEffect ==
  ASSUME TypeOK, NEW c \in Calls,
         \/ ReadRunnerEnv(c) \/ StopExistingRunner(c) \/ StartRunner(c) \/ LocalCommand(c)
  PROVE  Help(c)
<1>1. {"signal", "restart", "ok", "failed"} \subseteq Places
  BY DEF Places, Exits, Helper
<1>2. Fail(c) => Ends(c)
  BY FailMoves DEF Ends
<1>3. /\ script \in [Calls -> Run] /\ script[c] \in Run
      /\ serves \in [Runs -> Runs \cup {None}] /\ alive \subseteq Runs
  BY DEF TypeOK, ScriptTypeOK, Run
<1>4. ASSUME NEW p \in Places, NEW e \in Runs \cup {None},
             script' = [script EXCEPT ![c].pc = p, ![c].env = e]
      PROVE  /\ script' \in [Calls -> Run]
             /\ script'[c].pc = p /\ script'[c].tool = script[c].tool
             /\ script'[c].env = e /\ script'[c].bootstrap = script[c].bootstrap
             /\ \A d \in Calls : d # c => script'[d] = script[d]
  <2> DEFINE x == [script[c] EXCEPT !.pc = p, !.env = e]
  <2>1. /\ x \in Run /\ x.pc = p /\ x.tool = script[c].tool /\ x.env = e
        /\ x.bootstrap = script[c].bootstrap
    BY <1>3 DEF Run
  <2> HIDE DEF x
  <2>2. script' = [script EXCEPT ![c] = x]
    BY <1>4 DEF x
  <2> QED
    BY <1>3, <2>1, <2>2
<1>5. CASE ReadRunnerEnv(c)
  <2>1. ASSUME pid \in alive,
               script' = [script EXCEPT ![c].pc = "signal", ![c].env = serves[pid]]
        PROVE  ReadsEnv(c)
    <3>1. serves[pid] \in Runs \cup {None}
      BY <1>3, <2>1
    <3> QED
      BY <1>1, <1>4, <2>1, <3>1 DEF ReadsEnv
  <2> QED
    BY <1>2, <1>5, <2>1 DEF ReadRunnerEnv, Help, worker, runtime
<1>6. CASE StopExistingRunner(c)
  BY <1>1, <1>2, <1>6, GotoMoves DEF StopExistingRunner, Help, worker, runtime
<1>7. CASE StartRunner(c)
  <2>1. ASSUME StartProcess(c, script[c].env), NEW exit \in {"ok", "failed"},
               script' = [script EXCEPT ![c].pc = exit, ![c].env = None]
        PROVE  Restarts(c)
    BY ZenonT(30), <1>1, <1>4, <2>1 DEF Restarts
  <2> QED
    BY <1>2, <1>7, <2>1 DEF StartRunner, Help, worker, runtime
<1>8. CASE LocalCommand(c)
  BY <1>1, <1>2, <1>8, ContinueMoves DEF LocalCommand, Help, worker, Ends, runtime
<1> QED
  BY <1>5, <1>6, <1>7, <1>8

\* The VM goes without a script.
Reclaims ==
  /\ vm' = FALSE /\ alive' = {} /\ pid' = None
  /\ script' \in [Calls -> Run]
  /\ \A d \in Calls :
       /\ script'[d].pc = IF script[d].pc \in {"signal", "restart"} THEN "failed"
                          ELSE script[d].pc
       /\ script'[d].tool = script[d].tool /\ script'[d].env = script[d].env
       /\ script'[d].bootstrap = script[d].bootstrap

LEMMA ReclaimEffect ==
  ASSUME TypeOK, RuntimeReclaimed
  PROVE  Reclaims /\ UNCHANGED <<worker, file, serves, overlapped, solo>>
<1>1. script \in [Calls -> Run]
  BY DEF TypeOK, ScriptTypeOK, Run
<1> QED
  BY <1>1, LoseRuntimeEffect DEF RuntimeReclaimed, Reclaims, Fault

\* A run that is killed stays where it is, or is gone if nothing is left of it.
LEMMA KillMoves ==
  ASSUME TypeOK, NEW c \in Calls, Kill(c)
  PROVE  \/ Moves(c, script[c].pc)
         \/ Moves(c, "gone") /\ script[c].pc \in InProcess
<1>1. script \in [Calls -> Run] /\ script[c] \in Run
  BY DEF TypeOK, ScriptTypeOK, Run
<1> DEFINE p == IF script[c].pc \in InProcess /\ script[c].tool = "setup" THEN "gone"
                ELSE script[c].pc
           x == [script[c] EXCEPT !.killed = TRUE, !.pc = p]
<1>2. /\ p \in Places
      /\ p = script[c].pc \/ (p = "gone" /\ script[c].pc \in InProcess)
  BY <1>1 DEF Run, Places, Exits
<1>3. script' = [script EXCEPT ![c] = x]
  BY <1>1 DEF Kill
<1> HIDE DEF p
<1>4. /\ x \in Run /\ x.pc = p /\ x.tool = script[c].tool /\ x.env = script[c].env
      /\ x.bootstrap = script[c].bootstrap
  BY <1>1, <1>2 DEF Run
<1> HIDE DEF x
<1>5. Moves(c, p)
  BY <1>1, <1>3, <1>4 DEF Moves
<1> QED
  BY <1>2, <1>5

\* The runs cs begin, on the tools that were asked for.
Begins(cs, tool) ==
  /\ script' \in [Calls -> Run]
  /\ \A c \in Calls \ cs : script'[c] = script[c]
  /\ \A c \in cs :
       /\ script'[c].tool = tool[c] /\ script'[c].env = None
       /\ script'[c].pc \in {"worker", "failed", "stopping", "read", "local"}
       /\ script'[c].pc = "worker" => tool[c] \in Provisions
       /\ script'[c].pc = "stopping" => tool[c] \in {"stop", "recreate"}
       /\ script'[c].pc \in {"read", "local"} => tool[c] \notin Provisions
  /\ \/ cs = {} /\ UNCHANGED <<overlapped, solo>>
     \/ /\ \E c \in cs : cs = {c} /\ solo' = c
        /\ \A c \in Calls : ~Active(c)
        /\ overlapped' = overlapped
     \/ overlapped' = TRUE /\ solo' = None

LEMMA BeginEffect ==
  ASSUME TypeOK, NEW cs \in SUBSET Calls, NEW tool, Begin(cs, tool),
         \A c \in cs : tool[c] \in ScriptTools
  PROVE  Begins(cs, tool)
<1>1. script \in [Calls -> Run]
  BY DEF TypeOK, ScriptTypeOK, Run
<1>2. PICK skipStop \in SUBSET {c \in cs : tool[c] = "recreate"},
           bootstrap \in SUBSET {c \in cs : tool[c] = "setup"} :
        script' = [c \in Calls |->
          IF c \notin cs THEN script[c]
          ELSE [NewRun EXCEPT !.tool = tool[c],
                              !.pc = FirstPlace(tool[c], c \in skipStop),
                              !.bootstrap = c \in bootstrap \/ tool[c] = "recreate"]]
  BY ZenonT(30) DEF Begin
<1>3. ASSUME NEW c \in cs
      PROVE  /\ script'[c] \in Run
             /\ script'[c].tool = tool[c] /\ script'[c].env = None
             /\ script'[c].pc \in {"worker", "failed", "stopping", "read", "local"}
             /\ script'[c].pc = "worker" => tool[c] \in Provisions
             /\ script'[c].pc = "stopping" => tool[c] \in {"stop", "recreate"}
             /\ script'[c].pc \in {"read", "local"} => tool[c] \notin Provisions
  <2> DEFINE p == FirstPlace(tool[c], c \in skipStop)
             b == c \in bootstrap \/ tool[c] = "recreate"
             x == [NewRun EXCEPT !.tool = tool[c], !.pc = p, !.bootstrap = b]
  <2>1. /\ p \in {"worker", "failed", "stopping", "read", "local"}
        /\ p = "worker" => tool[c] \in Provisions
        /\ p = "stopping" => tool[c] \in {"stop", "recreate"}
        /\ p \in {"read", "local"} => tool[c] \notin Provisions
    <3>1. tool[c] = "setup" => p \in {"worker", "failed"}
      BY DEF FirstPlace
    <3>2. tool[c] = "recreate" => p \in {"worker", "failed", "stopping"}
      BY DEF FirstPlace
    <3>3. tool[c] = "stop" => p = "stopping"
      BY DEF FirstPlace
    <3>4. tool[c] = "reconnect" => p = "read"
      BY DEF FirstPlace
    <3>5. tool[c] \in {"local", "dry_run"} => p = "local"
      BY DEF FirstPlace
    <3> QED
      BY <3>1, <3>2, <3>3, <3>4, <3>5 DEF ScriptTools, Provisions
  <2>2. b \in BOOLEAN /\ tool[c] \in ScriptTools
    OBVIOUS
  <2>3. script'[c] = x
    BY ZenonT(30), <1>2
  <2> HIDE DEF p, b
  <2>4. p \in Places
    BY <2>1 DEF Places, Deployment, Exits, Helper
  <2>5. x \in Run /\ x.tool = tool[c] /\ x.env = None /\ x.pc = p
    BY <2>2, <2>4 DEF NewRun, Run
  <2> QED
    BY <2>1, <2>3, <2>5
<1>4. \A c \in Calls \ cs : script'[c] = script[c]
  BY ZenonT(30), <1>2
<1>5. script' \in [Calls -> Run]
  BY ZenonT(30), <1>1, <1>2, <1>3, <1>4
<1>6. \/ cs = {} /\ UNCHANGED <<overlapped, solo>>
      \/ /\ \E c \in cs : cs = {c} /\ solo' = c
         /\ \A c \in Calls : ~Active(c)
         /\ overlapped' = overlapped
      \/ overlapped' = TRUE /\ solo' = None
  <2>1. overlapped \in BOOLEAN
    BY DEF TypeOK, ScriptTypeOK
  <2>2. IsFiniteSet(cs)
    BY CallsAssumption, FS_Subset
  <2>3. Cardinality(cs) = 1 => \E c : cs = {c}
    BY <2>2, FS_Singleton
  <2> DEFINE apart == {c \in Calls : Active(c)} = {} /\ Cardinality(cs) = 1
  <2>4. cs # {} => /\ overlapped' = (overlapped \/ ~apart)
                   /\ IF apart THEN solo' \in cs ELSE solo' = None
    BY ZenonT(30) DEF Begin
  <2>5. CASE cs = {}
    BY <2>5 DEF Begin
  <2>6. CASE cs # {} /\ apart
    BY <2>1, <2>3, <2>4, <2>6
  <2>7. CASE cs # {} /\ ~apart
    BY <2>1, <2>4, <2>7
  <2> QED
    BY <2>5, <2>6, <2>7
<1> QED
  BY <1>3, <1>4, <1>5, <1>6 DEF Begins

-----------------------------------------------------------------------------
(* The steps by what they do to the scripts and to the calls.               *)

\* Nothing happens to the scripts and what they act on, revocation apart.
ScriptsKeep == UNCHANGED <<created, file, runtime, script, overlapped, solo>>

ScriptRuns(c) == /\ Stop(c) \/ Provision(c) \/ Help(c)
                 /\ UNCHANGED <<overlapped, solo, cache, call>>

TimesOut(c) == /\ \/ Moves(c, script[c].pc)
                  \/ Moves(c, "gone") /\ script[c].pc \in InProcess
               /\ UNCHANGED <<created, file, runtime, overlapped, solo, cache, call>>

Dies == /\ alive' \subseteq alive
        /\ UNCHANGED <<created, file, vm, serves, pid, script, overlapped, solo, cache, call>>

Vanishes == Reclaims /\ UNCHANGED <<created, file, serves, overlapped, solo, cache, call>>

LEMMA StepKinds ==
  ASSUME TypeOK, [Next]_vars
  PROVE  \/ ScriptsKeep /\ (UNCHANGED <<cache, call>>
                            \/ \E c \in Calls : AnswerRequest(c) \/ AnswerRevoke(c)
                                                  \/ ScriptClosed(c))
         \/ ReceiveMessage \/ Dies \/ Vanishes
         \/ \E c \in Calls : ScriptRuns(c) \/ TimesOut(c)
<1>1. CASE UNCHANGED vars
  BY <1>1 DEF vars, scriptVars, worker, history, ScriptsKeep
<1>2. ASSUME NEW c \in Calls, AnswerRequest(c) \/ AnswerRevoke(c) \/ ScriptClosed(c)
      PROVE  ScriptsKeep
  BY <1>2 DEF AnswerRequest, AnswerRevoke, ScriptClosed, scriptVars, worker, history, ScriptsKeep
<1>3. ASSUME NEW c \in Calls, TimeOut(c)
      PROVE  TimesOut(c)
  BY <1>3, KillMoves DEF TimeOut, TimesOut, worker, history
<1>4. ASSUME NEW c \in Calls, Script(c)
      PROVE  ScriptRuns(c)
  <2>1. UNCHANGED <<overlapped, solo, cache, call>>
    BY <1>4 DEF Script, ScriptStep, ColabStop, ConfigureWorker, CreateSession, OpenConfig,
                WriteConfig, EnsureRuntime, LaunchRunner, Verify, ReadRunnerEnv,
                StopExistingRunner, StartRunner, LocalCommand, history
  <2>2. Stop(c) \/ Provision(c) \/ Help(c)
    BY <1>4, StopEffect, ProvisionEffect, HelpEffect DEF Script, ScriptStep
  <2> QED
    BY <2>1, <2>2 DEF ScriptRuns
<1>5. RunnerDies /\ UNCHANGED <<cache, call>> => Dies
  BY DEF RunnerDies, Dies, Fault, worker
<1>6. RuntimeReclaimed /\ UNCHANGED <<cache, call>> => Vanishes
  BY ReclaimEffect DEF Vanishes, worker
<1> QED
  BY <1>1, <1>2, <1>3, <1>4, <1>5, <1>6 DEF Next, Environment

Call == [tool : Tools, state : {"new", "waiting", "done"},
         config : Config \cup {None}, result : Results]

LEMMA AnsweredEffect ==
  ASSUME TypeOK, NEW c \in Calls, NEW result \in Results, Answered(c, result)
  PROVE  /\ call' \in [Calls -> Call]
         /\ call'[c].tool = call[c].tool /\ call'[c].state = "done"
         /\ call'[c].result = result /\ call'[c].config = None
         /\ \A d \in Calls : d # c => call'[d] = call[d]
<1>1. call \in [Calls -> Call] /\ call[c] \in Call
  BY DEF TypeOK, Call
<1> DEFINE x == [call[c] EXCEPT !.state = "done", !.result = result, !.config = None]
<1>2. /\ x \in Call /\ x.tool = call[c].tool /\ x.state = "done" /\ x.result = result
      /\ x.config = None
  BY <1>1 DEF Call
<1> HIDE DEF x
<1>3. call' = [call EXCEPT ![c] = x]
  BY DEF Answered, x
<1> QED
  BY <1>1, <1>2, <1>3

\* A call that is received is turned away, answered at once, or waits.
LEMMA ReceivedEffect ==
  ASSUME TypeOK, NEW tool \in Tools \cup Refusals, NEW config \in Config \cup {None}
  PROVE  LET x == Received(tool, config)
         IN /\ x \in Call /\ x.state # "new"
            /\ tool \in ScriptTools => x.tool = tool /\ x.result = "none"
            /\ x.tool \in ScriptTools => tool = x.tool
            /\ x.config \in {None, config, Loaded}
<1> DEFINE done(result, c)  == [tool |-> tool, state |-> "done", config |-> c, result |-> result]
           waiting(c)       == [tool |-> tool, state |-> "waiting", config |-> c, result |-> "none"]
           x == Received(tool, config)
           refused == [done("error", None) EXCEPT !.tool = "status"]
<1>1. x = CASE tool \in Refusals -> refused
            [] tool = "summary" -> done("ok", ConfigSummary)
            [] tool \in ScriptTools -> waiting(None)
            [] tool \in RemoteTools /\ config = None -> done("error", None)
            [] OTHER -> waiting(config)
  BY Zenon DEF Received
<1>2. /\ refused \in Call /\ refused.state = "done" /\ refused.tool = "status"
      /\ refused.config = None
  BY DEF Call, Tools, RemoteTools, Results
<1>3. Loaded \in Config \cup {None}
  BY DEF Loaded
<1>4. ASSUME NEW c \in Config \cup {None}, NEW result \in {"ok", "error"}, tool \in Tools
      PROVE  /\ done(result, c) \in Call /\ done(result, c).state = "done"
             /\ done(result, c).tool = tool /\ done(result, c).config = c
  BY <1>4 DEF Call, Results
<1>5. ASSUME NEW c \in Config \cup {None}, tool \in Tools
      PROVE  /\ waiting(c) \in Call /\ waiting(c).state = "waiting"
             /\ waiting(c).tool = tool /\ waiting(c).config = c
             /\ waiting(c).result = "none"
  BY <1>5 DEF Call, Results
<1> HIDE DEF done, waiting, refused, x
<1>6. "status" \notin ScriptTools
  BY DEF ScriptTools
<1>7. CASE tool \in Refusals
  <2>1. tool \notin ScriptTools /\ tool # "summary" /\ tool \notin RemoteTools
    BY <1>7 DEF Refusals, ScriptTools, RemoteTools
  <2>2. x = refused
    BY <1>1, <1>7, <2>1
  <2> QED
    BY <1>2, <1>6, <2>1, <2>2 DEF x
<1>8. CASE tool = "summary"
  <2>1. tool \notin ScriptTools /\ tool \notin Refusals /\ tool \notin RemoteTools
        /\ tool \in Tools
    BY <1>8 DEF Refusals, ScriptTools, RemoteTools, Tools
  <2>2. x = done("ok", Loaded)
    BY <1>1, <1>8, <2>1 DEF ConfigSummary
  <2> QED
    BY <1>3, <1>4, <2>1, <2>2 DEF x
<1>9. CASE tool \in ScriptTools
  <2>1. tool # "summary" /\ tool \notin Refusals /\ tool \notin RemoteTools /\ tool \in Tools
    BY <1>9 DEF Refusals, ScriptTools, RemoteTools, Tools
  <2>2. x = waiting(None)
    BY <1>1, <1>9, <2>1
  <2> QED
    BY <1>5, <1>9, <2>1, <2>2 DEF x
<1>10. CASE tool \in RemoteTools
  <2>1. tool # "summary" /\ tool \notin Refusals /\ tool \notin ScriptTools /\ tool \in Tools
    BY <1>10 DEF Refusals, ScriptTools, RemoteTools, Tools
  <2>2. x = done("error", None) \/ x = waiting(config)
    BY <1>1, <1>10, <2>1
  <2> QED
    BY <1>4, <1>5, <2>1, <2>2 DEF x
<1> QED
  BY <1>7, <1>8, <1>9, <1>10 DEF Tools

\* What a message does: its calls are new, those that run a script begin it, and
\* all of them go by the configuration that the server holds or loads.
LEMMA MessageEffect ==
  ASSUME TypeOK, ReceiveMessage
  PROVE  /\ call' \in [Calls -> Call] /\ cache' \in {cache, ResolveConfig}
         /\ UNCHANGED <<worker, file, runtime, faults>>
         /\ \E cs \in SUBSET Calls : \E scripts \in SUBSET cs :
            \E tool \in [scripts -> ScriptTools] :
              /\ Begins(scripts, tool)
              /\ \A c \in cs : call[c].state = "new"
              /\ \A c \in Calls \ cs : call'[c] = call[c]
              /\ \A c \in cs :
                   /\ call'[c].state # "new"
                   /\ call'[c].config \in {None, ResolveConfig, Loaded}
                   /\ call'[c].tool \in ScriptTools <=> c \in scripts
              /\ \A c \in scripts : call'[c].tool = tool[c] /\ call'[c].result = "none"
<1>1. PICK cs \in SUBSET {c \in Calls : call[c].state = "new"} :
      \E tool \in [cs -> Tools \cup Refusals] :
        /\ call' = [c \in Calls |->
                      IF c \in cs THEN Received(tool[c], ResolveConfig) ELSE call[c]]
        /\ Begin({c \in cs : tool[c] \in ScriptTools}, tool)
  BY DEF ReceiveMessage
<1>2. PICK tool \in [cs -> Tools \cup Refusals] :
        /\ call' = [c \in Calls |->
                      IF c \in cs THEN Received(tool[c], ResolveConfig) ELSE call[c]]
        /\ Begin({c \in cs : tool[c] \in ScriptTools}, tool)
  BY <1>1
<1>3. /\ call \in [Calls -> Call] /\ ResolveConfig \in Config \cup {None}
      /\ Loaded \in Config \cup {None}
  BY DEF TypeOK, Call, ResolveConfig, Loaded
<1> DEFINE scripts == {c \in cs : tool[c] \in ScriptTools}
           t == [c \in scripts |-> tool[c]]
<1>4. ASSUME NEW c \in cs
      PROVE  /\ call'[c] \in Call /\ call'[c].state # "new"
             /\ call'[c].config \in {None, ResolveConfig, Loaded}
             /\ call'[c].tool \in ScriptTools <=> c \in scripts
             /\ c \in scripts => call'[c].tool = tool[c] /\ call'[c].result = "none"
  <2>1. tool[c] \in Tools \cup Refusals
    BY <1>2
  <2> DEFINE x == Received(tool[c], ResolveConfig)
  <2>2. /\ x \in Call /\ x.state # "new"
        /\ tool[c] \in ScriptTools => x.tool = tool[c] /\ x.result = "none"
        /\ x.tool \in ScriptTools => tool[c] = x.tool
        /\ x.config \in {None, ResolveConfig, Loaded}
    BY <1>3, <2>1, ReceivedEffect
  <2>3. call'[c] = x
    BY <1>2
  <2> HIDE DEF x
  <2> QED
    BY <2>2, <2>3
<1>5. \A c \in Calls \ cs : call'[c] = call[c]
  BY <1>2
<1>6. call' \in [Calls -> Call]
  BY <1>2, <1>3, <1>4, <1>5
<1>7. Begins(scripts, tool)
  BY <1>2, BeginEffect
<1>8. Begins(scripts, t)
  BY <1>7 DEF Begins
<1>9. UNCHANGED <<worker, file, runtime, faults>> /\ cache' \in {cache, ResolveConfig}
  BY ZenonT(30), <1>1 DEF ReceiveMessage, Begin
<1>10. t \in [scripts -> ScriptTools] /\ scripts \in SUBSET cs
  BY <1>2
<1> HIDE DEF scripts
<1>11. \A c \in scripts : c \in cs /\ t[c] = tool[c]
  BY DEF scripts
<1> HIDE DEF t
<1>12. /\ \A c \in cs :
           /\ call'[c].state # "new"
           /\ call'[c].config \in {None, ResolveConfig, Loaded}
           /\ call'[c].tool \in ScriptTools <=> c \in scripts
       /\ \A c \in scripts : call'[c].tool = t[c] /\ call'[c].result = "none"
  BY <1>4, <1>11
<1>13. cs \in SUBSET Calls /\ \A c \in cs : call[c].state = "new"
  BY <1>1
<1>14. \E runs \in SUBSET cs : \E asked \in [runs -> ScriptTools] :
         /\ Begins(runs, asked)
         /\ \A c \in cs : call[c].state = "new"
         /\ \A c \in Calls \ cs : call'[c] = call[c]
         /\ \A c \in cs :
              /\ call'[c].state # "new"
              /\ call'[c].config \in {None, ResolveConfig, Loaded}
              /\ call'[c].tool \in ScriptTools <=> c \in runs
         /\ \A c \in runs : call'[c].tool = asked[c] /\ call'[c].result = "none"
  BY <1>5, <1>8, <1>10, <1>12, <1>13
<1> QED
  BY <1>6, <1>9, <1>13, <1>14

-----------------------------------------------------------------------------
(* The parts of the invariant, each kept by every step.                     *)

LEMMA TypeInductive ==
  ASSUME TypeOK, [Next]_vars
  PROVE  TypeOK'
<1> USE DEF TypeOK, ScriptTypeOK
<1>1. script' \in [Calls -> Run]
  <2>1. script \in [Calls -> Run]
    BY DEF Run
  <2>2. ReceiveMessage => script' \in [Calls -> Run]
    BY MessageEffect DEF Begins
  <2>3. ASSUME NEW c \in Calls, ScriptRuns(c)
        PROVE  script' \in [Calls -> Run]
    <3>1. CASE Stop(c)
      BY <3>1 DEF Stop, Stops, Moves, Ends
    <3>2. CASE Provision(c)
      BY <3>2 DEF Provision, Moves, Ends
    <3>3. CASE Help(c)
      BY <3>3 DEF Help, Moves, Ends, ReadsEnv, Restarts
    <3> QED
      BY <2>3, <3>1, <3>2, <3>3 DEF ScriptRuns
  <2>4. ASSUME NEW c \in Calls, TimesOut(c)
        PROVE  script' \in [Calls -> Run]
    BY <2>4 DEF TimesOut, Moves
  <2>5. ScriptsKeep \/ Dies \/ Vanishes => script' \in [Calls -> Run]
    BY <2>1 DEF ScriptsKeep, Dies, Vanishes, Reclaims
  <2> QED
    BY <2>2, <2>3, <2>4, <2>5, StepKinds
<1>2. call' \in [Calls -> Call]
  <2>1. call \in [Calls -> Call]
    BY DEF Call
  <2>2. ReceiveMessage => call' \in [Calls -> Call]
    BY MessageEffect
  <2>3. \A c \in Calls :
          AnswerRequest(c) \/ AnswerRevoke(c) \/ ScriptClosed(c) => call' \in [Calls -> Call]
    BY AnsweredEffect DEF AnswerRequest, AnswerRevoke, ScriptClosed, Results
  <2> QED
    BY <2>1, <2>2, <2>3, StepKinds DEF Dies, Vanishes, ScriptRuns, TimesOut
<1>3. cache' \in Config \cup {None}
  <2>1. ReceiveMessage => cache' \in Config \cup {None}
    BY MessageEffect DEF ResolveConfig, Loaded
  <2>2. \A c \in Calls :
          AnswerRequest(c) \/ AnswerRevoke(c) \/ ScriptClosed(c) => cache' \in {cache, None}
    BY DEF AnswerRequest, AnswerRevoke, ScriptClosed, ClearAfter
  <2> QED
    BY <2>1, <2>2, StepKinds DEF Dies, Vanishes, ScriptRuns, TimesOut
<1>4. /\ file' \in Config \cup {Torn, Missing} /\ vm' \in BOOLEAN
      /\ alive' \subseteq Runs /\ pid' \in Runs \cup {None}
      /\ serves' \in [Runs -> Runs \cup {None}]
  <2> DEFINE Goal == /\ file' \in Config \cup {Torn, Missing} /\ vm' \in BOOLEAN
                     /\ alive' \subseteq Runs /\ pid' \in Runs \cup {None}
                     /\ serves' \in [Runs -> Runs \cup {None}]
  <2>1. CASE UNCHANGED <<file, runtime>>
    BY <2>1 DEF runtime
  <2>2. ASSUME NEW c \in Calls, Stop(c)
        PROVE  Goal
    BY <2>2 DEF Stop, Stops, runtime
  <2>3. ASSUME NEW c \in Calls, NEW s \in Runs \cup {None}, StartProcess(c, s)
        PROVE  /\ alive' \subseteq Runs /\ pid' \in Runs \cup {None}
               /\ serves' \in [Runs -> Runs \cup {None}]
    BY <2>3 DEF StartProcess, Runs
  <2>4. ASSUME NEW c \in Calls, Provision(c)
        PROVE  Goal
    <3>1. StartProcess(c, c) => /\ alive' \subseteq Runs /\ pid' \in Runs \cup {None}
                                /\ serves' \in [Runs -> Runs \cup {None}]
      BY <2>3 DEF Runs
    <3>2. c \in Config
      BY DEF Config, Runs
    <3> QED
      BY <2>4, <3>1, <3>2 DEF Provision, runtime
  <2>5. ASSUME NEW c \in Calls, Help(c)
        PROVE  Goal
    <3>1. script[c].env \in Runs \cup {None}
      OBVIOUS
    <3> QED
      BY <2>3, <2>5, <3>1 DEF Help, Restarts, runtime
  <2>6. CASE Dies \/ Vanishes
    BY <2>6 DEF Dies, Vanishes, Reclaims
  <2>7. CASE ReceiveMessage
    BY <2>7, MessageEffect DEF runtime
  <2> QED
    BY <2>1, <2>2, <2>4, <2>5, <2>6, <2>7, StepKinds DEF ScriptsKeep, ScriptRuns, TimesOut
<1>5. /\ created' \subseteq Runs /\ live' \subseteq created'
      /\ adminSecret' \in Runs
  <2>1. CASE UNCHANGED worker
    BY <2>1 DEF worker
  <2>2. ASSUME NEW c \in Calls, AnswerRevoke(c)
        PROVE  live' \subseteq live /\ UNCHANGED <<created, adminSecret>>
    BY <2>2 DEF AnswerRevoke
  <2>3. ASSUME NEW c \in Calls, ConfigureWorker(c) \/ CreateSession(c)
        PROVE  created' \subseteq Runs /\ live' \subseteq created' /\ adminSecret' \in Runs
    BY <2>3 DEF ConfigureWorker, CreateSession, Runs
  <2> QED
    BY <2>1, <2>2, <2>3
       DEF Next, vars, scriptVars, ReceiveMessage, AnswerRequest, ScriptClosed, TimeOut, Script,
           ScriptStep, ColabStop, OpenConfig, WriteConfig, EnsureRuntime, LaunchRunner, Verify,
           ReadRunnerEnv, StopExistingRunner, StartRunner, LocalCommand, Environment,
           RunnerDies, RuntimeReclaimed
<1>6. faults' \in 0..MaxFaults
  <2>1. CASE faults' = faults
    BY <2>1
  <2>2. CASE Fault
    BY <2>2, FaultsAssumption DEF Fault
  <2> QED
    BY <2>1, <2>2, MessageEffect
       DEF Next, vars, scriptVars, history, AnswerRequest, AnswerRevoke, ScriptClosed, TimeOut,
           Script, ScriptStep, ColabStop, ConfigureWorker, CreateSession, OpenConfig, WriteConfig,
           EnsureRuntime, LaunchRunner, Verify, ReadRunnerEnv, StopExistingRunner, StartRunner,
           LocalCommand, Environment, RunnerDies, RuntimeReclaimed
<1>7. overlapped' \in BOOLEAN /\ solo' \in Calls \cup {None}
  <2>1. ReceiveMessage => overlapped' \in BOOLEAN /\ solo' \in Calls \cup {None}
    <3>1. ASSUME NEW cs \in SUBSET Calls, NEW tool, Begins(cs, tool)
          PROVE  overlapped' \in BOOLEAN /\ solo' \in Calls \cup {None}
      BY <3>1 DEF Begins
    <3> QED
      BY <3>1, MessageEffect
  <2> QED
    BY <2>1, StepKinds DEF ScriptsKeep, Dies, Vanishes, ScriptRuns, TimesOut
<1> QED
  BY <1>1, <1>2, <1>3, <1>4, <1>5, <1>6, <1>7 DEF Run, Call

\* Where a run may come from: a place is entered from the one before it, or kept.
LEMMA RunMoves ==
  ASSUME TypeOK, NEW d \in Calls, ScriptsKeep \/ Dies \/ Vanishes
                                    \/ \E c \in Calls : ScriptRuns(c) \/ TimesOut(c)
  PROVE  /\ script'[d].tool = script[d].tool /\ script'[d].bootstrap = script[d].bootstrap
         /\ ~Active(d) => script'[d].pc = script[d].pc
         /\ Active(d) => script'[d].pc # "new"
         /\ \/ script'[d].pc \in {script[d].pc, "failed", "gone"}
            \/ /\ script'[d].pc = "ok"
               /\ script[d].pc \in {"verify", "restart", "local", "stopping"}
               /\ script[d].pc = "stopping" => script[d].tool = "stop"
            \/ /\ script'[d].pc = "worker" /\ script[d].pc = "stopping"
               /\ script[d].tool # "stop"
            \/ script'[d].pc = "create" /\ script[d].pc = "worker"
            \/ script'[d].pc = "write" /\ script[d].pc = "create" /\ d \in created'
            \/ script'[d].pc = "writing" /\ script[d].pc = "write"
            \/ script'[d].pc \in {"colab", "verify"} /\ script[d].pc = "writing"
            \/ script'[d].pc = "launch" /\ script[d].pc = "colab"
            \/ script'[d].pc = "verify" /\ script[d].pc = "launch"
            \/ script'[d].pc = "signal" /\ script[d].pc = "read"
            \/ script'[d].pc = "restart" /\ script[d].pc = "signal"
<1> DEFINE Goal ==
         /\ script'[d].tool = script[d].tool /\ script'[d].bootstrap = script[d].bootstrap
         /\ ~Active(d) => script'[d].pc = script[d].pc
         /\ Active(d) => script'[d].pc # "new"
         /\ \/ script'[d].pc \in {script[d].pc, "failed", "gone"}
            \/ /\ script'[d].pc = "ok"
               /\ script[d].pc \in {"verify", "restart", "local", "stopping"}
               /\ script[d].pc = "stopping" => script[d].tool = "stop"
            \/ /\ script'[d].pc = "worker" /\ script[d].pc = "stopping"
               /\ script[d].tool # "stop"
            \/ script'[d].pc = "create" /\ script[d].pc = "worker"
            \/ script'[d].pc = "write" /\ script[d].pc = "create" /\ d \in created'
            \/ script'[d].pc = "writing" /\ script[d].pc = "write"
            \/ script'[d].pc \in {"colab", "verify"} /\ script[d].pc = "writing"
            \/ script'[d].pc = "launch" /\ script[d].pc = "colab"
            \/ script'[d].pc = "verify" /\ script[d].pc = "launch"
            \/ script'[d].pc = "signal" /\ script[d].pc = "read"
            \/ script'[d].pc = "restart" /\ script[d].pc = "signal"
<1>1. ASSUME script'[d] = script[d]
      PROVE  Goal
  BY <1>1 DEF Active
<1>2. ASSUME Vanishes
      PROVE  Goal
  BY <1>2 DEF Vanishes, Reclaims, Active, Exits
<1>3. ASSUME NEW c \in Calls, Stop(c)
      PROVE  Goal
  BY <1>3 DEF Stop, Stops, Moves, Ends, At, Active, Exits
<1>4. ASSUME NEW c \in Calls, Provision(c)
      PROVE  Goal
  <2>1. CASE c = d
    BY <1>4, <2>1 DEF Provision, Moves, Ends, At, Active, Exits
  <2>2. CASE c # d
    <3>1. script'[d] = script[d]
      BY <1>4, <2>2 DEF Provision, Moves, Ends
    <3> QED
      BY <1>1, <3>1
  <2> QED
    BY <2>1, <2>2
<1>5. ASSUME NEW c \in Calls, Help(c)
      PROVE  Goal
  <2>1. CASE c = d
    BY <1>5, <2>1 DEF Help, Moves, Ends, At, ReadsEnv, Restarts, Active, Exits
  <2>2. CASE c # d
    <3>1. script'[d] = script[d]
      BY <1>5, <2>2 DEF Help, Moves, Ends, ReadsEnv, Restarts
    <3> QED
      BY <1>1, <3>1
  <2> QED
    BY <2>1, <2>2
<1>6. ASSUME NEW c \in Calls, TimesOut(c)
      PROVE  Goal
  BY <1>6 DEF TimesOut, Moves, InProcess, Active, Exits
<1> HIDE DEF Goal
<1>7. script' = script => Goal
  BY <1>1
<1>8. Goal
  BY <1>2, <1>3, <1>4, <1>5, <1>6, <1>7 DEF ScriptsKeep, Dies, ScriptRuns
<1> QED
  BY <1>8 DEF Goal

\* What the answer to a call does to it.
LEMMA CallMoves ==
  ASSUME TypeOK, [Next]_vars, ~ReceiveMessage, NEW d \in Calls
  PROVE  /\ call'[d].tool = call[d].tool /\ call'[d].config \in {call[d].config, None}
         /\ call[d].state # "new" => call'[d].state # "new"
         /\ call[d].state = "new" => call'[d] = call[d]
         /\ call'[d].result = "ok" /\ call[d].tool \in ScriptTools =>
              \/ call[d].result = "ok"
              \/ ScriptClosed(d) /\ Succeeded(d) /\ cache' = ClearAfter(d)
         /\ cache' \in {cache, None}
<1> DEFINE Goal ==
         /\ call'[d].tool = call[d].tool /\ call'[d].config \in {call[d].config, None}
         /\ call[d].state # "new" => call'[d].state # "new"
         /\ call[d].state = "new" => call'[d] = call[d]
         /\ call'[d].result = "ok" /\ call[d].tool \in ScriptTools =>
              \/ call[d].result = "ok"
              \/ ScriptClosed(d) /\ Succeeded(d) /\ cache' = ClearAfter(d)
         /\ cache' \in {cache, None}
<1>1. ASSUME call' = call, cache' = cache
      PROVE  Goal
  BY <1>1
<1>2. ASSUME NEW c \in Calls, NEW result \in Results, Answered(c, result),
             call[c].state = "waiting", cache' \in {cache, None},
             c = d /\ result = "ok" /\ call[d].tool \in ScriptTools =>
               ScriptClosed(d) /\ Succeeded(d) /\ cache' = ClearAfter(d)
      PROVE  Goal
  <2>1. CASE c = d
    BY <1>2, <2>1, AnsweredEffect
  <2>2. CASE c # d
    <3>1. call'[d] = call[d]
      BY <1>2, <2>2, AnsweredEffect
    <3> QED
      BY <1>2, <3>1
  <2> QED
    BY <2>1, <2>2
<1> HIDE DEF Goal
<1>3. {"ok", "error"} \subseteq Results
  BY DEF Results
<1>4. ASSUME NEW c \in Calls, AnswerRequest(c) \/ AnswerRevoke(c)
      PROVE  Goal
  <2>1. /\ call[c].state = "waiting" /\ cache' \in {cache, None}
        /\ call[c].tool \notin ScriptTools
    BY <1>4 DEF AnswerRequest, AnswerRevoke, Asks, RemoteTools, ScriptTools
  <2>2. Answered(c, "ok") \/ Answered(c, "error")
    BY <1>4 DEF AnswerRequest, AnswerRevoke
  <2> QED
    BY <1>2, <1>3, <2>1, <2>2
<1>5. ASSUME NEW c \in Calls, ScriptClosed(c)
      PROVE  Goal
  <2>1. call[c].state = "waiting"
    BY <1>5 DEF ScriptClosed, RunsScript
  <2>2. CASE Succeeded(c) /\ Answered(c, "ok") /\ cache' = ClearAfter(c)
    <3>1. cache' \in {cache, None}
      BY <2>2 DEF ClearAfter
    <3> QED
      BY <1>2, <1>3, <1>5, <2>1, <2>2, <3>1
  <2>3. CASE Answered(c, "error") /\ cache' = cache
    BY <1>2, <1>3, <2>1, <2>3
  <2> QED
    BY <1>5, <2>2, <2>3 DEF ScriptClosed
<1>6. Goal
  BY <1>1, <1>4, <1>5, StepKinds DEF Dies, Vanishes, ScriptRuns, TimesOut
<1> QED
  BY <1>6 DEF Goal

\* The steps that are not messages.
LEMMA ScriptKinds ==
  ASSUME TypeOK, [Next]_vars, ~ReceiveMessage
  PROVE  ScriptsKeep \/ Dies \/ Vanishes \/ \E c \in Calls : ScriptRuns(c) \/ TimesOut(c)
BY StepKinds

LEMMA RunInductive ==
  ASSUME TypeOK, RunInv, [Next]_vars
  PROVE  RunInv'
<1> SUFFICES ASSUME NEW c \in Calls
             PROVE  /\ script'[c].pc # "new" =>
                         call'[c].state # "new" /\ call'[c].tool = script'[c].tool
                    /\ script'[c].pc \in Deployment \cup InProcess \cup Bootstrap =>
                         script'[c].tool \in Provisions
                    /\ script'[c].pc = "stopping" => script'[c].tool \in {"stop", "recreate"}
                    /\ script'[c].pc \in Helper \cup {"local"} =>
                         script'[c].tool \notin Provisions
                    /\ call'[c].result = "ok" /\ call'[c].tool \in ScriptTools =>
                         script'[c].pc = "ok"
  BY DEF RunInv
<1>1. /\ script[c].pc # "new" => call[c].state # "new" /\ call[c].tool = script[c].tool
      /\ script[c].pc \in Deployment \cup InProcess \cup Bootstrap =>
           script[c].tool \in Provisions
      /\ script[c].pc = "stopping" => script[c].tool \in {"stop", "recreate"}
      /\ script[c].pc \in Helper \cup {"local"} => script[c].tool \notin Provisions
      /\ call[c].result = "ok" /\ call[c].tool \in ScriptTools => script[c].pc = "ok"
      /\ script[c].tool \in ScriptTools
  BY DEF RunInv, TypeOK, ScriptTypeOK
<1>2. CASE ReceiveMessage
  <2>1. PICK cs \in SUBSET Calls : \E scripts \in SUBSET cs :
          \E tool \in [scripts -> ScriptTools] :
            /\ Begins(scripts, tool)
            /\ \A d \in cs : call[d].state = "new"
            /\ \A d \in Calls \ cs : call'[d] = call[d]
            /\ \A d \in cs :
                 /\ call'[d].state # "new"
                 /\ call'[d].tool \in ScriptTools <=> d \in scripts
            /\ \A d \in scripts : call'[d].tool = tool[d] /\ call'[d].result = "none"
    BY <1>2, MessageEffect
  <2>2. PICK scripts \in SUBSET cs :
          \E tool \in [scripts -> ScriptTools] :
            /\ Begins(scripts, tool)
            /\ \A d \in cs :
                 /\ call'[d].state # "new"
                 /\ call'[d].tool \in ScriptTools <=> d \in scripts
            /\ \A d \in scripts : call'[d].tool = tool[d] /\ call'[d].result = "none"
    BY <2>1
  <2>3. PICK tool \in [scripts -> ScriptTools] :
            /\ Begins(scripts, tool)
            /\ \A d \in cs :
                 /\ call'[d].state # "new"
                 /\ call'[d].tool \in ScriptTools <=> d \in scripts
            /\ \A d \in scripts : call'[d].tool = tool[d] /\ call'[d].result = "none"
    BY <2>2
  <2>4. CASE c \in scripts
    <3>1. /\ script'[c].tool = tool[c]
          /\ script'[c].pc \in {"worker", "failed", "stopping", "read", "local"}
          /\ script'[c].pc = "worker" => tool[c] \in Provisions
          /\ script'[c].pc = "stopping" => tool[c] \in {"stop", "recreate"}
          /\ script'[c].pc \in {"read", "local"} => tool[c] \notin Provisions
      BY <2>3, <2>4 DEF Begins
    <3>2. /\ call'[c].state # "new" /\ call'[c].tool = tool[c] /\ call'[c].result = "none"
      BY <2>3, <2>4
    <3> QED
      BY <3>1, <3>2 DEF Deployment, InProcess, Bootstrap, Helper
  <2>5. CASE c \in cs \ scripts
    <3>1. script'[c] = script[c] /\ script[c].pc = "new"
      BY <1>1, <2>1, <2>3, <2>5 DEF Begins
    <3>2. call'[c].tool \notin ScriptTools
      BY <2>3, <2>5
    <3> QED
      BY <3>1, <3>2 DEF Deployment, InProcess, Bootstrap, Helper
  <2>6. CASE c \notin cs
    <3>1. script'[c] = script[c] /\ call'[c] = call[c]
      BY <2>1, <2>3, <2>6 DEF Begins
    <3> QED
      BY <1>1, <3>1
  <2> QED
    BY <2>4, <2>5, <2>6
<1>3. CASE ~ReceiveMessage
  <2>1. /\ script'[c].tool = script[c].tool
        /\ ~Active(c) => script'[c].pc = script[c].pc
        /\ \/ script'[c].pc \in {script[c].pc, "failed", "gone", "ok"}
           \/ /\ script'[c].pc = "worker" /\ script[c].pc = "stopping"
              /\ script[c].tool # "stop"
           \/ /\ script'[c].pc \notin Helper \cup {"stopping", "local"}
              /\ script[c].pc \in Deployment \cup InProcess \cup Bootstrap
           \/ script'[c].pc \in {"signal", "restart"} /\ script[c].pc \in Helper
    BY <1>3, ScriptKinds, RunMoves DEF Deployment, InProcess, Bootstrap, Helper
  <2>2. /\ call'[c].tool = call[c].tool
        /\ call[c].state # "new" => call'[c].state # "new"
        /\ call'[c].result = "ok" /\ call[c].tool \in ScriptTools =>
             call[c].result = "ok" \/ Succeeded(c)
    BY <1>3, CallMoves
  <2>3. script'[c].pc # "new" => script[c].pc # "new"
    BY <2>1 DEF Active
  <2>4. script'[c].pc \in Deployment \cup InProcess \cup Bootstrap =>
          script'[c].tool \in Provisions
    BY <1>1, <2>1 DEF Deployment, InProcess, Bootstrap, Provisions
  <2>5. script'[c].pc = "stopping" => script'[c].tool \in {"stop", "recreate"}
    BY <1>1, <2>1
  <2>6. script[c].pc = "ok" => script'[c].pc = "ok"
    BY <2>1 DEF Active, Exits
  <2>7. script'[c].pc \in Helper \cup {"local"} => script'[c].tool \notin Provisions
    BY <1>1, <2>1 DEF Deployment, InProcess, Bootstrap, Helper
  <2> QED
    BY <1>1, <2>1, <2>2, <2>3, <2>4, <2>5, <2>6, <2>7 DEF Succeeded
<1> QED
  BY <1>2, <1>3

\* What a message does to each run and each call, and to the histories.
LEMMA MessageMoves ==
  ASSUME TypeOK, RunInv, ReceiveMessage
  PROVE  /\ UNCHANGED <<created, file, vm, alive, serves, pid>>
         /\ cache' \in {cache, ResolveConfig}
         /\ \A d \in Calls :
              \/ script'[d] = script[d]
              \/ /\ script[d].pc = "new" /\ script'[d].env = None
                 /\ script'[d].pc \in {"worker", "failed", "stopping", "read", "local"}
                 /\ call[d].state = "new" /\ call'[d].result = "none"
         /\ \A d \in Calls :
              \/ call'[d] = call[d]
              \/ /\ call[d].state = "new"
                 /\ call'[d].config \in {None, ResolveConfig, Loaded}
                 /\ call'[d].tool \in ScriptTools => call'[d].result = "none"
         /\ \/ script' = script /\ UNCHANGED <<overlapped, solo>>
            \/ /\ \A d \in Calls : ~Active(d)
               /\ solo' \in Calls /\ script[solo'].pc = "new" /\ script'[solo'].pc # "new"
               /\ \A d \in Calls : d # solo' => script'[d] = script[d]
               /\ call'[solo'].result = "none"
               /\ overlapped' = overlapped
            \/ overlapped' = TRUE /\ solo' = None
<1>1. PICK cs \in SUBSET Calls : \E scripts \in SUBSET cs :
        \E tool \in [scripts -> ScriptTools] :
          /\ Begins(scripts, tool)
          /\ \A c \in cs : call[c].state = "new"
          /\ \A c \in Calls \ cs : call'[c] = call[c]
          /\ \A c \in cs :
               /\ call'[c].config \in {None, ResolveConfig, Loaded}
               /\ call'[c].tool \in ScriptTools <=> c \in scripts
          /\ \A c \in scripts : call'[c].tool = tool[c] /\ call'[c].result = "none"
  BY ZenonT(30), MessageEffect
<1>2. PICK scripts \in SUBSET cs : \E tool \in [scripts -> ScriptTools] :
          /\ Begins(scripts, tool)
          /\ \A c \in cs :
               /\ call'[c].config \in {None, ResolveConfig, Loaded}
               /\ call'[c].tool \in ScriptTools <=> c \in scripts
          /\ \A c \in scripts : call'[c].tool = tool[c] /\ call'[c].result = "none"
  BY <1>1
<1>3. PICK tool \in [scripts -> ScriptTools] : Begins(scripts, tool)
  BY <1>2
<1>4. UNCHANGED <<created, file, vm, alive, serves, pid>> /\ cache' \in {cache, ResolveConfig}
  BY MessageEffect DEF worker, runtime
<1>5. \A c \in scripts :
        /\ script[c].pc = "new" /\ script'[c].env = None
        /\ script'[c].pc \in {"worker", "failed", "stopping", "read", "local"}
        /\ call[c].state = "new" /\ call'[c].result = "none"
  BY <1>1, <1>2, <1>3 DEF Begins, RunInv
<1>6. \A c \in Calls \ scripts : script'[c] = script[c]
  BY <1>3 DEF Begins
<1>7. \A d \in Calls :
        \/ call'[d] = call[d]
        \/ /\ call[d].state = "new"
           /\ call'[d].config \in {None, ResolveConfig, Loaded}
           /\ call'[d].tool \in ScriptTools => call'[d].result = "none"
  BY <1>1, <1>2
<1>8. scripts = {} => script' = script
  <2>1. script \in [Calls -> Run] /\ script' \in [Calls -> Run]
    BY <1>3 DEF TypeOK, ScriptTypeOK, Run, Begins
  <2> QED
    BY <1>6, <2>1
<1>9. \/ script' = script /\ UNCHANGED <<overlapped, solo>>
      \/ /\ \A d \in Calls : ~Active(d)
         /\ solo' \in Calls /\ script[solo'].pc = "new" /\ script'[solo'].pc # "new"
         /\ \A d \in Calls : d # solo' => script'[d] = script[d]
         /\ call'[solo'].result = "none"
         /\ overlapped' = overlapped
      \/ overlapped' = TRUE /\ solo' = None
  <2>1. CASE scripts = {} /\ UNCHANGED <<overlapped, solo>>
    BY <1>8, <2>1
  <2>2. ASSUME NEW c \in scripts, scripts = {c}, solo' = c, overlapped' = overlapped,
               \A d \in Calls : ~Active(d)
        PROVE  /\ solo' \in Calls /\ script[solo'].pc = "new" /\ script'[solo'].pc # "new"
               /\ \A d \in Calls : d # solo' => script'[d] = script[d]
               /\ call'[solo'].result = "none"
    BY <1>5, <1>6, <2>2
  <2> QED
    BY <1>3, <2>1, <2>2 DEF Begins
<1> QED
  BY <1>4, <1>5, <1>6, <1>7, <1>9

\* The file is replaced only by the run that writes it, after it is torn.
LEMMA FileMoves ==
  ASSUME TypeOK, [Next]_vars
  PROVE  /\ created \subseteq created'
         /\ \/ file' \in {file, Torn}
            \/ \E c \in Calls :
                 /\ file' = c /\ script[c].pc = "writing"
                 /\ script'[c].pc \in {"colab", "verify"}
                 /\ \A d \in Calls : d # c => script'[d] = script[d]
                 /\ script'[c].tool = script[c].tool
                 /\ UNCHANGED <<call, cache, solo>>
<1>1. \A c \in Calls : Stop(c) \/ Help(c) => UNCHANGED <<created, file>>
  BY DEF Stop, Help
<1>2. ASSUME NEW c \in Calls, Provision(c)
      PROVE  /\ created \subseteq created'
             /\ \/ file' \in {file, Torn}
                \/ /\ file' = c /\ script[c].pc = "writing"
                   /\ script'[c].pc \in {"colab", "verify"}
                   /\ \A d \in Calls : d # c => script'[d] = script[d]
                   /\ script'[c].tool = script[c].tool
  BY <1>2 DEF Provision, Moves, At
<1>3. ReceiveMessage => UNCHANGED <<created, file>>
  BY MessageEffect DEF worker
<1> QED
  BY <1>1, <1>2, <1>3, StepKinds DEF ScriptsKeep, Dies, Vanishes, ScriptRuns, TimesOut

LEMMA FileInductive ==
  ASSUME TypeOK, RunInv, FileInv, [Next]_vars
  PROVE  FileInv'
<1>1. created \subseteq created'
  BY FileMoves
<1>2. ASSUME NEW d \in Calls, script[d].pc # "new"
      PROVE  script'[d].pc # "new" /\ script'[d].tool = script[d].tool
  <2>1. ReceiveMessage => script'[d] = script[d]
    BY <1>2, MessageMoves
  <2>2. ~ReceiveMessage => /\ script'[d].tool = script[d].tool
                           /\ Active(d) => script'[d].pc # "new"
                           /\ ~Active(d) => script'[d].pc = script[d].pc
    BY ScriptKinds, RunMoves
  <2> QED
    BY <1>2, <2>1, <2>2
<1>3. ASSUME file' \in Calls
      PROVE  script'[file'].pc # "new" /\ script'[file'].tool \in Provisions
  <2>1. file' # Torn
    BY <1>3, NamesAssumption
  <2>2. CASE file' = file
    BY <1>2, <1>3, <2>2 DEF FileInv
  <2>3. CASE file' # file
    BY <1>2, <2>1, <2>3, FileMoves DEF RunInv, InProcess
  <2> QED
    BY <2>2, <2>3
<1>4. ASSUME NEW c \in Calls, script'[c].pc \in InProcess
      PROVE  c \in created'
  <2>1. script[c].pc \in InProcess \/ c \in created'
    <3>1. ReceiveMessage => script'[c] = script[c]
      BY <1>4, MessageMoves DEF InProcess
    <3>2. ~ReceiveMessage => script[c].pc \in InProcess \/ c \in created'
      BY <1>4, ScriptKinds, RunMoves DEF InProcess
    <3> QED
      BY <1>4, <3>1, <3>2
  <2> QED
    BY <1>1, <2>1 DEF FileInv
<1> QED
  BY <1>3, <1>4 DEF FileInv

\* Without a message the server keeps what it holds, or clears it.
LEMMA CacheMoves ==
  ASSUME TypeOK, [Next]_vars, ~ReceiveMessage
  PROVE  cache' \in {cache, None}
<1>1. \A c \in Calls :
        AnswerRequest(c) \/ AnswerRevoke(c) \/ ScriptClosed(c) => cache' \in {cache, None}
  BY DEF AnswerRequest, AnswerRevoke, ScriptClosed, ClearAfter
<1> QED
  BY <1>1, StepKinds DEF Dies, Vanishes, ScriptRuns, TimesOut

\* Configurations are taken from the file, and the file from a session that exists.
LEMMA ConfigInductive ==
  ASSUME TypeOK, RunInv, FileInv, ConfigNamesCreatedSession, [Next]_vars
  PROVE  ConfigNamesCreatedSession'
<1> DEFINE Named(x) == x \in Config => x \in created'
<1>1. created \subseteq created'
  BY FileMoves
<1>2. /\ Named(file) /\ Named(cache) /\ \A c \in Calls : Named(call[c].config)
      /\ Named(None) /\ Named(Torn)
  BY <1>1, NamesAssumption DEF ConfigNamesCreatedSession, Config, Runs
<1>3. Named(file')
  BY <1>1, <1>2, FileMoves DEF FileInv, InProcess
<1>4. Named(Loaded) /\ Named(ResolveConfig)
  BY <1>2 DEF Loaded, ResolveConfig
<1> HIDE DEF Named
<1>5. Named(cache')
  <2>1. ReceiveMessage => cache' \in {cache, ResolveConfig}
    BY MessageEffect
  <2>2. ~ReceiveMessage => cache' \in {cache, None}
    BY CacheMoves
  <2> QED
    BY <1>2, <1>4, <2>1, <2>2
<1>6. ASSUME NEW c \in Calls
      PROVE  Named(call'[c].config)
  <2>1. ReceiveMessage => call'[c].config \in {call[c].config, None, ResolveConfig, Loaded}
    BY MessageMoves
  <2>2. ~ReceiveMessage => call'[c].config \in {call[c].config, None}
    BY CallMoves
  <2> QED
    BY <1>2, <1>4, <2>1, <2>2
<1> QED
  BY <1>3, <1>5, <1>6 DEF ConfigNamesCreatedSession, Named

\* Whoever wrote another session into the file than the server holds is under way,
\* or failed: a success clears what the server holds.
LEMMA StaleInductive ==
  ASSUME TypeOK, RunInv, FileInv, StaleOnlyAfterFailure, [Next]_vars
  PROVE  StaleOnlyAfterFailure'
<1> SUFFICES ASSUME cache' # None, file' \in Config, cache' # file'
             PROVE  file' \in Calls /\ call'[file'].result # "ok"
  BY DEF StaleOnlyAfterFailure
<1>1. Config = Calls \cup {First} /\ Torn \notin Config
  BY NamesAssumption DEF Config, Runs
<1>2. CASE file' # file
  <2>1. PICK c \in Calls : file' = c /\ script[c].pc = "writing" /\ call' = call
    BY <1>1, <1>2, FileMoves
  <2>2. call[c].tool \in ScriptTools /\ call[c].result # "ok"
    BY <2>1 DEF RunInv, InProcess, Provisions, ScriptTools
  <2> QED
    BY <2>1, <2>2
<1>3. CASE file' = file /\ ReceiveMessage
  <2>1. cache' \in {cache, Loaded}
    BY <1>3, MessageEffect DEF ResolveConfig
  <2>2. cache' = cache
    BY <1>3, <2>1 DEF Loaded
  <2>3. file \in Calls /\ call[file].result # "ok"
    BY <1>3, <2>2 DEF StaleOnlyAfterFailure
  <2>4. call[file].state # "new"
    BY <2>3 DEF RunInv, FileInv
  <2>5. call'[file] = call[file]
    BY <1>3, <2>3, <2>4, MessageMoves
  <2> QED
    BY <1>3, <2>3, <2>5
<1>4. CASE file' = file /\ ~ReceiveMessage
  <2>1. cache' = cache
    BY <1>4, CacheMoves
  <2>2. file \in Calls /\ call[file].result # "ok"
    BY <1>4, <2>1 DEF StaleOnlyAfterFailure
  <2>3. script[file].pc # "new" /\ script[file].tool \in Provisions
    BY <2>2 DEF FileInv
  <2>4. call[file].tool \in Provisions
    BY <2>2, <2>3 DEF RunInv
  <2>5. call[file].tool \in ScriptTools
    BY <2>4 DEF Provisions, ScriptTools
  <2>6. ClearAfter(file) = None
    BY <2>4 DEF ClearAfter, Provisions, ClearingTools
  <2>7. call'[file].result # "ok"
    BY <1>4, <2>2, <2>5, <2>6, CallMoves
  <2> QED
    BY <1>4, <2>2, <2>7
<1> QED
  BY <1>2, <1>3, <1>4

\* Only a run that goes on takes steps.
LEMMA OnlyActiveRun ==
  ASSUME TypeOK, NEW c \in Calls, Stop(c) \/ Provision(c) \/ Help(c)
  PROVE  Active(c)
<1>1. script[c].pc \in {"stopping", "worker", "create", "write", "writing", "colab", "launch",
                        "verify", "read", "signal", "restart", "local"}
  BY DEF Stop, Provision, Help, At
<1> QED
  BY <1>1 DEF Active, Exits

LEMMA SoloInductive ==
  ASSUME TypeOK, RunInv, SoloInv, [Next]_vars
  PROVE  SoloInv'
<1> DEFINE Quiet(c) == \A d \in Calls : d # c => ~Active(d)
           Done(c)  == script[c].bootstrap /\ script[c].tool \in Provisions =>
                         /\ script[c].pc \in {"colab", "launch", "verify", "ok"} => file = c
                         /\ script[c].pc \in {"verify", "ok"} /\ vm =>
                              pid = c /\ serves[c] = c
           Held(c)  == Provisioned(c) => cache \in {None, c}
<1>1. SUFFICES ASSUME NEW c \in Calls, solo' = c
               PROVE  Quiet(c)' /\ Done(c)' /\ Held(c)'
  BY DEF SoloInv
<1>2. None \notin Calls
  BY NamesAssumption
<1>3. SUFFICES ASSUME solo = c => Quiet(c) /\ Done(c) /\ Held(c)
               PROVE  Quiet(c)' /\ Done(c)' /\ Held(c)'
  BY DEF SoloInv
<1>4. CASE ReceiveMessage /\ solo' # solo
  <2>1. /\ \A d \in Calls : ~Active(d)
        /\ script[c].pc = "new" /\ script'[c].pc # "new"
        /\ \A d \in Calls : d # c => script'[d] = script[d]
        /\ call'[c].result = "none"
    BY <1>1, <1>2, <1>4, MessageMoves
  <2>2. script'[c].pc \notin {"colab", "launch", "verify", "ok"}
    BY <1>4, <2>1, MessageMoves
  <2> QED
    BY <2>1, <2>2 DEF Active, Provisioned
<1>5. CASE ReceiveMessage /\ solo' = solo /\ script' # script
  <2>1. script[c].pc = "new" /\ script'[c].pc # "new" /\ call'[c].result = "none"
    BY <1>1, <1>2, <1>5, MessageMoves
  <2>2. /\ \A d \in Calls : ~Active(d)
        /\ \A d \in Calls : d # c => script'[d] = script[d]
    BY <1>1, <1>2, <1>5, MessageMoves
  <2>3. script'[c].pc \notin {"colab", "launch", "verify", "ok"}
    BY <1>5, <2>1, MessageMoves
  <2> QED
    BY <2>1, <2>2, <2>3 DEF Active, Provisioned
<1>6. CASE ReceiveMessage /\ solo' = solo /\ script' = script
  <2>1. Quiet(c) /\ Done(c) /\ Held(c) /\ UNCHANGED <<file, vm, pid, serves>>
    BY <1>1, <1>3, <1>6, MessageMoves
  <2>2. Quiet(c)' /\ Done(c)'
    BY <1>6, <2>1 DEF Active
  <2>3. ASSUME Provisioned(c)'
        PROVE  cache' \in {None, c}
    <3>1. call'[c] = call[c]
      BY <1>6, <2>3, MessageMoves DEF Provisioned, ScriptTools
    <3>2. Provisioned(c) /\ cache \in {None, c}
      BY <1>6, <2>1, <2>3, <3>1 DEF Provisioned
    <3>3. file = c
      BY <2>1, <3>2 DEF Provisioned, RunInv, ScriptTools, Provisions
    <3>4. cache' \in {cache, ResolveConfig}
      BY <1>6, MessageMoves
    <3> QED
      BY <3>2, <3>3, <3>4 DEF ResolveConfig, Loaded, Config, Runs
  <2> QED
    BY <2>2, <2>3
<1>7. CASE ~ReceiveMessage
  <2>1. solo = c /\ Quiet(c) /\ Done(c) /\ Held(c)
    BY <1>1, <1>3, <1>7, ScriptKinds DEF ScriptsKeep, Dies, Vanishes, ScriptRuns, TimesOut
  <2>2. Quiet(c)'
    BY <1>7, <2>1, ScriptKinds, RunMoves DEF Active
  <2>3. script'[c].tool = script[c].tool /\ script'[c].bootstrap = script[c].bootstrap
    BY <1>7, ScriptKinds, RunMoves
  <2>4. Held(c)'
    <3>1. ASSUME Provisioned(c)'
          PROVE  cache' \in {None, c}
      <4>1. call[c].tool \in {"setup", "recreate"} /\ call'[c].result = "ok"
        BY <1>7, <3>1, CallMoves DEF Provisioned
      <4>2. call[c].result = "ok" \/ cache' = ClearAfter(c)
        BY <1>7, <4>1, CallMoves DEF ScriptTools
      <4>3. cache' \in {cache, None}
        BY <1>7, CacheMoves
      <4>4. script[c].bootstrap
        BY <2>3, <3>1 DEF Provisioned
      <4> QED
        BY <2>1, <4>1, <4>2, <4>3, <4>4 DEF Provisioned, ClearAfter, ClearingTools
    <3> QED
      BY <3>1
  <2>5. Done(c)'
    <3> SUFFICES ASSUME script[c].bootstrap, script[c].tool \in Provisions
                 PROVE  /\ script'[c].pc \in {"colab", "launch", "verify", "ok"} => file' = c
                        /\ script'[c].pc \in {"verify", "ok"} /\ vm' =>
                             pid' = c /\ serves'[c] = c
      BY <2>3
    <3> DEFINE Goal == /\ script'[c].pc \in {"colab", "launch", "verify", "ok"} => file' = c
                       /\ script'[c].pc \in {"verify", "ok"} /\ vm' =>
                            pid' = c /\ serves'[c] = c
    <3>1. ASSUME UNCHANGED <<file, vm, pid, serves>>,
                 script'[c].pc \in {script[c].pc, "failed", "gone"}
          PROVE  Goal
      BY <2>1, <3>1
    <3>2. ASSUME Vanishes
          PROVE  Goal
      BY <2>1, <3>2 DEF Vanishes, Reclaims
    <3>3. ASSUME NEW d \in Calls, Stop(d) \/ Provision(d) \/ Help(d)
          PROVE  Goal
      <4>1. d = c
        BY <2>1, <3>3, OnlyActiveRun
      <4>2. CASE Stop(c)
        BY <4>2 DEF Stop, Stops, Moves, Ends, Provisions
      <4>3. CASE Help(c)
        <5>1. script[c].pc \notin Helper \cup {"local"}
          BY DEF RunInv
        <5> QED
          BY <4>3, <5>1 DEF Help, At, Helper
      <4>4. CASE Provision(c)
        <5>1. serves \in [Runs -> Runs \cup {None}] /\ c \in Runs
          BY DEF TypeOK, ScriptTypeOK, Runs
        <5>2. CASE UNCHANGED <<file, runtime>> /\ (Ends(c) \/ script'[c].pc = script[c].pc)
          BY <3>1, <5>2 DEF runtime, Ends, Moves
        <5>3. CASE script[c].pc \in {"worker", "create", "write", "writing", "colab"}
          BY <2>1, <4>4, <5>3 DEF Provision, Moves, Ends, At, runtime
        <5>4. CASE script[c].pc = "launch"
          <6>1. CASE StartProcess(c, c) /\ Moves(c, "verify") /\ file' = file
            BY <2>1, <5>1, <5>4, <6>1 DEF StartProcess, Moves
          <6> QED
            BY <4>4, <5>2, <5>4, <6>1 DEF Provision, At
        <5>5. CASE script[c].pc = "verify"
          BY <2>1, <4>4, <5>5 DEF Provision, Moves, Ends, At, runtime
        <5> QED
          BY <4>4, <5>3, <5>4, <5>5 DEF Provision, At
      <4> QED
        BY <3>3, <4>1, <4>2, <4>3, <4>4
    <3> HIDE DEF Goal
    <3>4. ASSUME NEW d \in Calls, TimesOut(d)
          PROVE  Goal
      BY <3>1, <3>4 DEF TimesOut, Moves, runtime
    <3>5. ScriptsKeep \/ Dies => Goal
      BY <3>1 DEF ScriptsKeep, Dies, runtime
    <3>6. Goal
      BY <1>7, <3>2, <3>3, <3>4, <3>5, ScriptKinds DEF ScriptRuns
    <3> QED
      BY <3>6 DEF Goal
  <2> QED
    BY <2>2, <2>4, <2>5
<1> QED
  BY <1>4, <1>5, <1>6, <1>7

\* Sessions come to a helper from the runner it found, and to a runner from the
\* bootstrap or the helper that starts it.
LEMMA SessionMoves ==
  ASSUME TypeOK, RunInv, [Next]_vars
  PROVE  /\ \A d \in Calls :
              \/ script'[d].env \in {script[d].env, None}
              \/ pid \in alive /\ script'[d].env = serves[pid]
         /\ \A r \in Runs :
              \/ serves'[r] = serves[r]
              \/ r \in Calls /\ serves'[r] = script[r].env
              \/ r \in Calls /\ serves'[r] = r /\ script'[r].pc = "verify"
<1> DEFINE Goal == /\ \A d \in Calls :
                        \/ script'[d].env \in {script[d].env, None}
                        \/ pid \in alive /\ script'[d].env = serves[pid]
                   /\ \A r \in Runs :
                        \/ serves'[r] = serves[r]
                        \/ r \in Calls /\ serves'[r] = script[r].env
                        \/ r \in Calls /\ serves'[r] = r /\ script'[r].pc = "verify"
<1>1. ASSUME serves' = serves, \A d \in Calls : script'[d].env \in {script[d].env, None}
      PROVE  Goal
  BY <1>1
<1>2. ASSUME NEW c \in Calls, NEW s, StartProcess(c, s)
      PROVE  serves'[c] = s /\ \A r \in Runs : r # c => serves'[r] = serves[r]
  BY <1>2 DEF StartProcess, TypeOK, ScriptTypeOK, Runs
<1>3. ASSUME NEW c \in Calls, NEW p, Moves(c, p)
      PROVE  \A d \in Calls : script'[d].env = script[d].env
  BY <1>3 DEF Moves
<1>4. ASSUME NEW c \in Calls, NEW p, StartProcess(c, c), Moves(c, "verify")
      PROVE  Goal
  <2>1. script'[c].pc = "verify"
    BY <1>4 DEF Moves
  <2> QED
    BY <1>2, <1>3, <1>4, <2>1
<1>5. ASSUME NEW c \in Calls, Restarts(c)
      PROVE  Goal
  <2>1. StartProcess(c, script[c].env) /\ script'[c].env = None
        /\ \A d \in Calls : d # c => script'[d].env = script[d].env
    BY <1>5 DEF Restarts
  <2> QED
    BY <1>2, <2>1
<1>6. ASSUME NEW c \in Calls, ReadsEnv(c), serves' = serves
      PROVE  Goal
  BY <1>6 DEF ReadsEnv
<1> HIDE DEF Goal
<1>7. ASSUME NEW c \in Calls, NEW p, Moves(c, p), serves' = serves
      PROVE  Goal
  BY <1>1, <1>3, <1>7
<1>8. ASSUME NEW c \in Calls, Ends(c), serves' = serves
      PROVE  Goal
  BY <1>7, <1>8 DEF Ends
<1>9. ASSUME NEW c \in Calls, Stop(c)
      PROVE  Goal
  <2>1. \A p : Stops(c, p) => \A d \in Calls : script'[d].env = script[d].env
    BY DEF Stops
  <2>2. serves' = serves
    BY <1>9 DEF Stop
  <2> QED
    BY <1>1, <1>7, <1>8, <1>9, <2>1, <2>2 DEF Stop
<1>10. ASSUME NEW c \in Calls, Provision(c)
       PROVE  Goal
  <2>1. CASE StartProcess(c, c) /\ Moves(c, "verify")
    BY <1>4, <2>1
  <2>2. CASE serves' = serves /\ (Ends(c) \/ \E p : Moves(c, p))
    BY <1>7, <1>8, <2>2
  <2> QED
    BY <1>10, <2>1, <2>2 DEF Provision, runtime
<1>11. ASSUME NEW c \in Calls, Help(c)
       PROVE  Goal
  BY <1>5, <1>6, <1>7, <1>8, <1>11 DEF Help, runtime
<1>12. ASSUME NEW c \in Calls, TimesOut(c)
       PROVE  Goal
  BY <1>7, <1>12 DEF TimesOut, runtime
<1>13. ReceiveMessage => Goal
  BY <1>1, MessageMoves
<1>14. Vanishes \/ Dies \/ ScriptsKeep => Goal
  BY <1>1 DEF Vanishes, Reclaims, Dies, ScriptsKeep, runtime
<1>15. Goal
  BY <1>9, <1>10, <1>11, <1>12, <1>13, <1>14, StepKinds DEF ScriptRuns
<1> QED
  BY <1>15 DEF Goal

LEMMA ServesInductive ==
  ASSUME TypeOK, RunInv, ServesInv, [Next]_vars
  PROVE  ServesInv'
<1> SUFFICES ASSUME NEW c \in Calls, script'[c].pc \in BeforeLaunch
             PROVE  /\ \A r \in Runs : serves'[r] # c
                    /\ \A d \in Calls : script'[d].env # c
  BY DEF ServesInv
<1>1. script[c].pc \in BeforeLaunch
  <2>1. ReceiveMessage => script'[c] = script[c] \/ script[c].pc = "new"
    BY MessageMoves
  <2>2. ~ReceiveMessage => script[c].pc \in BeforeLaunch
    BY ScriptKinds, RunMoves DEF BeforeLaunch, Deployment, InProcess
  <2> QED
    BY <2>1, <2>2 DEF BeforeLaunch
<1>2. (\A r \in Runs : serves[r] # c) /\ (\A d \in Calls : script[d].env # c) /\ c # None
  BY <1>1, NamesAssumption DEF ServesInv
<1>3. script'[c].pc # "verify" /\ alive \subseteq Runs
  BY DEF BeforeLaunch, Deployment, InProcess, TypeOK, ScriptTypeOK
<1> QED
  BY <1>2, <1>3, SessionMoves

LEMMA ApartInductive ==
  ASSUME TypeOK, RunInv, ApartInv, [Next]_vars
  PROVE  ApartInv' /\ (overlapped => overlapped')
<1>1. CASE ReceiveMessage
  <2>1. CASE script' = script /\ overlapped' = overlapped
    BY <2>1 DEF ApartInv, Active
  <2>2. CASE /\ \A d \in Calls : ~Active(d)
             /\ \A d \in Calls : d # solo' => script'[d] = script[d]
             /\ overlapped' = overlapped
    BY <2>2 DEF ApartInv, Active
  <2>3. CASE overlapped' = TRUE
    BY <2>3 DEF ApartInv
  <2> QED
    BY <1>1, <2>1, <2>2, <2>3, MessageMoves
<1>2. CASE ~ReceiveMessage
  <2>1. overlapped' = overlapped
    BY <1>2, ScriptKinds DEF ScriptsKeep, Dies, Vanishes, ScriptRuns, TimesOut
  <2>2. \A c \in Calls : Active(c)' => Active(c)
    BY <1>2, ScriptKinds, RunMoves DEF Active
  <2> QED
    BY <2>1, <2>2 DEF ApartInv
<1> QED
  BY <1>1, <1>2

\* With one run at a time every runner serves a session of its own: a bootstrap has
\* made a new one, a helper has stopped the runner whose session it takes over.
LEMMA RivalInductive ==
  ASSUME TypeOK, RunInv, ServesInv, ApartInv, HelperInv, NoRivalRunners, [Next]_vars
  PROVE  HelperInv' /\ NoRivalRunners'
<1> DEFINE Rivals == \E r1, r2 \in alive : r1 # r2 /\ serves[r1] = serves[r2]
           Ready(d) == /\ script[d].pc = "signal" =>
                            \A r \in alive : r # pid => serves[r] # script[d].env
                       /\ script[d].pc = "restart" =>
                            \A r \in alive : serves[r] # script[d].env
           Goal     == ~Rivals' /\ \A d \in Calls : Ready(d)'
<1>1. SUFFICES ASSUME ~overlapped'
               PROVE  Goal
  BY DEF HelperInv, NoRivalRunners
<1>2. ~overlapped
  BY <1>1, ApartInductive
<1>3. /\ ~Rivals /\ \A d \in Calls : Ready(d)
      /\ \A c, d \in Calls : Active(c) /\ Active(d) => c = d
  BY <1>2 DEF HelperInv, NoRivalRunners, ApartInv
<1>4. alive \subseteq Runs /\ serves \in [Runs -> Runs \cup {None}] /\ Calls \subseteq Runs
  BY DEF TypeOK, ScriptTypeOK, Runs
<1>5. ASSUME NEW c \in Calls, Active(c), NEW d \in Calls, d # c
      PROVE  script[d].pc \notin {"signal", "restart"}
  BY <1>3, <1>5 DEF Active, Exits
<1>6. ASSUME UNCHANGED <<serves, pid>>, alive' \subseteq alive,
             \A d \in Calls : script'[d].pc \in {"signal", "restart"} =>
                                script'[d].pc = script[d].pc /\ script'[d].env = script[d].env
      PROVE  Goal
  BY <1>3, <1>6
<1>7. ASSUME alive' = {}
      PROVE  Goal
  BY <1>7
<1>8. ASSUME NEW c \in Calls, Active(c), NEW s, StartProcess(c, s),
             \A r \in alive : serves[r] # s,
             script'[c].pc \notin {"signal", "restart"},
             \A d \in Calls : d # c => script'[d] = script[d]
      PROVE  Goal
  <2>1. /\ alive' = alive \cup {c} /\ serves'[c] = s
        /\ \A r \in alive : r # c => serves'[r] = serves[r]
    BY <1>4, <1>8 DEF StartProcess
  <2>2. ~Rivals'
    BY <1>3, <1>8, <2>1
  <2>3. \A d \in Calls : script'[d].pc \notin {"signal", "restart"}
    BY <1>5, <1>8
  <2> QED
    BY <2>2, <2>3
<1>9. ASSUME NEW c \in Calls, At(c, "read"), ReadsEnv(c), UNCHANGED <<alive, serves, pid>>
      PROVE  Goal
  <2>1. \A r \in alive : r # pid => serves[r] # serves[pid]
    BY <1>3, <1>9 DEF ReadsEnv
  <2>2. Active(c)
    BY <1>9 DEF At, Active, Exits
  <2> QED
    BY <1>3, <1>5, <1>9, <2>1, <2>2 DEF ReadsEnv
<1>10. ASSUME NEW c \in Calls, At(c, "signal"), Moves(c, "restart"), alive' = alive \ {pid},
              UNCHANGED <<serves, pid>>
       PROVE  Goal
  <2>1. Active(c)
    BY <1>10 DEF At, Active, Exits
  <2>2. \A r \in alive' : serves'[r] # script'[c].env
    BY <1>3, <1>10 DEF Moves, At
  <2> QED
    BY <1>3, <1>5, <1>10, <2>1, <2>2 DEF Moves
<1> HIDE DEF Goal
<1>11. ASSUME NEW c \in Calls, NEW p, Moves(c, p), p \notin {"signal", "restart"},
              UNCHANGED <<alive, serves, pid>>
       PROVE  Goal
  BY <1>6, <1>11 DEF Moves
<1>12. ASSUME NEW c \in Calls, Ends(c), UNCHANGED <<alive, serves, pid>>
       PROVE  Goal
  BY <1>11, <1>12 DEF Ends
<1>13. ASSUME NEW c \in Calls, Stop(c)
       PROVE  Goal
  BY <1>7, <1>11, <1>12, <1>13 DEF Stop, Stops, runtime
<1>14. ASSUME NEW c \in Calls, Provision(c)
       PROVE  Goal
  <2>1. Active(c)
    BY <1>14, OnlyActiveRun
  <2>2. CASE At(c, "launch") /\ StartProcess(c, c) /\ Moves(c, "verify")
    <3>1. \A r \in alive : serves[r] # c
      BY <1>4, <2>2 DEF ServesInv, BeforeLaunch, At
    <3> QED
      BY <1>8, <2>1, <2>2, <3>1 DEF Moves
  <2>3. CASE UNCHANGED <<alive, serves, pid>> /\
             (Ends(c) \/ \E p : Moves(c, p) /\ p \notin {"signal", "restart"})
    BY <1>11, <1>12, <2>3
  <2> QED
    BY <1>14, <2>2, <2>3 DEF Provision, runtime
<1>15. ASSUME NEW c \in Calls, Help(c)
       PROVE  Goal
  <2>1. Active(c)
    BY <1>15, OnlyActiveRun
  <2>2. CASE At(c, "restart") /\ Restarts(c)
    <3>1. \A r \in alive : serves[r] # script[c].env
      BY <1>3, <2>2 DEF At
    <3> QED
      BY <1>8, <2>1, <2>2, <3>1 DEF Restarts
  <2> QED
    BY <1>9, <1>10, <1>11, <1>12, <1>15, <2>2 DEF Help, runtime
<1>16. ASSUME NEW c \in Calls, TimesOut(c)
       PROVE  Goal
  BY <1>6, <1>16 DEF TimesOut, Moves, runtime
<1>17. ReceiveMessage => Goal
  <2>1. ReceiveMessage =>
          \A d \in Calls : script'[d].pc \in {"signal", "restart"} => script'[d] = script[d]
    BY MessageMoves
  <2>2. ReceiveMessage => UNCHANGED <<alive, serves, pid>>
    BY MessageMoves
  <2> QED
    BY <1>6, <2>1, <2>2
<1>18. Dies \/ ScriptsKeep => Goal
  BY <1>6 DEF Dies, ScriptsKeep, runtime
<1>19. Vanishes => Goal
  BY <1>7 DEF Vanishes, Reclaims
<1> QED
  BY <1>13, <1>14, <1>15, <1>16, <1>17, <1>18, <1>19, StepKinds DEF ScriptRuns

-----------------------------------------------------------------------------
(* Results.                                                                 *)

LEMMA InvInit ==
  ASSUME Init
  PROVE  Inv
<1> USE DEF Init, ScriptInit, NewRun, NewCall
<1>1. /\ script = [c \in Calls |-> NewRun] /\ call = [c \in Calls |-> NewCall]
      /\ NewRun.pc = "new" /\ NewRun.tool = "local" /\ NewRun.env = None
      /\ NewCall.state = "new" /\ NewCall.result = "none" /\ NewCall.config = None
  OBVIOUS
<1>2. TypeOK
  <2>1. NewRun \in Run
    BY DEF Run, ScriptTools, Places
  <2>2. NewCall \in Call
    BY DEF Call, Tools, RemoteTools, Results
  <2> HIDE DEF NewRun, NewCall
  <2>3. script \in [Calls -> Run] /\ call \in [Calls -> Call]
    BY <1>1, <2>1, <2>2
  <2>4. /\ created \subseteq Runs /\ live \subseteq created /\ alive \subseteq Runs
        /\ file \in Config \cup {Torn, Missing} /\ pid \in Runs \cup {None}
        /\ adminSecret \in Runs /\ vm \in BOOLEAN /\ cache \in Config \cup {None}
    BY DEF Runs, Config
  <2>5. serves \in [Runs -> Runs \cup {None}]
    BY DEF Runs
  <2>6. faults \in 0..MaxFaults /\ overlapped \in BOOLEAN /\ solo \in Calls \cup {None}
    <3>1. faults = 0 /\ overlapped = FALSE /\ solo = None
      BY Zenon
    <3> HIDE DEF Init, ScriptInit
    <3>2. faults \in 0..MaxFaults
      BY <3>1, FaultsAssumption
    <3> QED
      BY Zenon, <3>1, <3>2
  <2> QED
    BY <2>3, <2>4, <2>5, <2>6 DEF TypeOK, ScriptTypeOK, Run, Call
<1> HIDE DEF NewRun, NewCall
<1>3. RunInv
  BY <1>1 DEF RunInv, Deployment, InProcess, Bootstrap, Helper
<1>4. FileInv /\ SoloInv /\ ApartInv /\ HelperInv
  <2>1. \A c \in Calls : script[c].pc = "new" /\ solo # c /\ file # c
    BY <1>1, NamesAssumption DEF Missing
  <2> QED
    BY <2>1 DEF FileInv, SoloInv, ApartInv, HelperInv, Active, InProcess
<1>5. ConfigNamesCreatedSession /\ StaleOnlyAfterFailure
  BY <1>1, NamesAssumption DEF ConfigNamesCreatedSession, StaleOnlyAfterFailure, Config, Runs, Missing
<1>6. ServesInv
  BY <1>1, NamesAssumption DEF ServesInv, Runs
<1>7. NoRivalRunners
  BY DEF NoRivalRunners
<1> QED
  BY <1>2, <1>3, <1>4, <1>5, <1>6, <1>7 DEF Inv

LEMMA InvNext ==
  ASSUME Inv, [Next]_vars
  PROVE  Inv'
BY TypeInductive, RunInductive, FileInductive, ConfigInductive, StaleInductive, SoloInductive,
   ServesInductive, ApartInductive, RivalInductive DEF Inv

LEMMA InvAlways == Spec => []Inv
BY InvInit, InvNext, PTL DEF Spec

\* Type correctness of the server, of its calls and of all the scripts act on.
THEOREM TypeCorrect == Spec => []TypeOK
<1>1. Inv => TypeOK
  BY DEF Inv
<1> QED
  BY <1>1, InvAlways, PTL

\* Whatever session the file, the server or a call under way goes by was created on
\* the Worker before: writeBridgeConfig comes after createBridgeSession in setup-all,
\* and the server takes its configuration from nowhere else.
THEOREM ConfigNamesCreatedSessionAlways == Spec => []ConfigNamesCreatedSession
<1>1. Inv => ConfigNamesCreatedSession
  BY DEF Inv
<1> QED
  BY <1>1, InvAlways, PTL

\* The server goes by another session than the file names only while the run that
\* wrote the file was not reported as done: the tools that replace the file clear
\* what the server holds when they succeed.
THEOREM StaleOnlyAfterFailureAlways == Spec => []StaleOnlyAfterFailure
<1>1. Inv => StaleOnlyAfterFailure
  BY DEF Inv
<1> QED
  BY <1>1, InvAlways, PTL

\* A bootstrap that was reported as done, with no other run beside it or after it:
\* the next call goes by the session made for it, and the pid file names a runner of
\* that session, whatever messages, faults and timeouts came in between.
THEOREM ProvisionedIsUsedAlways == Spec => []ProvisionedIsUsed
<1>1. ASSUME Inv
      PROVE  ProvisionedIsUsed
  <2> SUFFICES ASSUME NEW c \in Calls, Provisioned(c), solo = c
               PROVE  ResolveConfig = c /\ (vm => pid = c /\ serves[c] = c)
    BY DEF ProvisionedIsUsed
  <2>1. script[c].pc = "ok" /\ script[c].tool \in Provisions
    BY <1>1 DEF Inv, RunInv, Provisioned, Provisions, ScriptTools
  <2>2. /\ file = c /\ cache \in {None, c}
        /\ vm => pid = c /\ serves[c] = c
    BY <1>1, <2>1 DEF Inv, SoloInv, Provisioned
  <2> QED
    BY <2>2 DEF ResolveConfig, Loaded, Config, Runs
<1> QED
  BY <1>1, InvAlways, PTL

\* As long as no two runs of scripts overlapped, no two runner processes serve one
\* session, for however many bootstraps, reconnects, kills and lost VMs.
THEOREM NoRivalRunnersAlways == Spec => []NoRivalRunners
<1>1. Inv => NoRivalRunners
  BY DEF Inv
<1> QED
  BY <1>1, InvAlways, PTL
=============================================================================
