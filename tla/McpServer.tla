------------------------------ MODULE McpServer ------------------------------
(***************************************************************************)
(* The local MCP server (src/mcp-server.ts) with the scripts it runs       *)
(* (LocalScripts): one message of the MCP client at a time, the calls of a *)
(* batch side by side, a configuration that is read once and kept, and a   *)
(* timeout for every script.                                               *)
(***************************************************************************)
EXTENDS LocalScripts

CONSTANTS
  MaxBatch,   \* calls in one message, at most
  MaxScripts  \* bound: calls that run a script

ASSUME BoundsAssumption == MaxBatch \in Nat \ {0} /\ MaxScripts \in Nat

VARIABLES
  cache,      \* ColabMcpServer.config
  call        \* tool calls

vars == <<scriptVars, cache, call>>

\* status stands for every tool that asks the Worker, revoke apart.
RemoteTools   == {"status", "revoke"}
Tools         == RemoteTools \cup ScriptTools \cup {"summary"}
ClearingTools == {"setup", "recreate", "stop", "dry_run"}
Results       == {"none", "ok", "error"}

\* How a call is turned away before it does anything: for its arguments, or by
\* the local policy for dangerous tools, which the configuration holds.
Refusals      == {"refused", "disabled"}

NewCall == [tool |-> "status", state |-> "new", config |-> None, result |-> "none"]

Waiting == {c \in Calls : call[c].state = "waiting"}
Answered(c, result) ==
  call' = [call EXCEPT ![c].state = "done", ![c].result = result, ![c].config = None]

(* loadLocalBridgeConfig: a missing or torn file is a BridgeConfigError.   *)
Loaded == IF file \in Config THEN file ELSE None

(* resolveConfig: read once, kept until it is cleared.                     *)
ResolveConfig == IF cache # None THEN cache ELSE Loaded

(* getConfigSummary reads the file whatever the server holds.              *)
ConfigSummary == Loaded

-----------------------------------------------------------------------------
Received(tool, config) ==
  LET done(result, c)  == [tool |-> tool, state |-> "done", config |-> c, result |-> result]
      waiting(c)       == [tool |-> tool, state |-> "waiting", config |-> c, result |-> "none"]
  IN CASE tool \in Refusals -> [done("error", None) EXCEPT !.tool = "status"]
       [] tool = "summary" -> done("ok", ConfigSummary)
       [] tool \in ScriptTools -> waiting(None)
       [] tool \in RemoteTools /\ config = None -> done("error", None)
       [] OTHER -> waiting(config)

(* The next message: the calls of a batch all run to their first await     *)
(* before anything else happens, and on one configuration.                 *)
ReceiveMessage ==
  /\ Waiting = {}
  /\ \E cs \in SUBSET {c \in Calls : call[c].state = "new"} :
     \E tool \in [cs -> Tools \cup Refusals] :
       /\ cs # {} /\ Cardinality(cs) <= MaxBatch
       /\ call' = [c \in Calls |->
                     IF c \in cs THEN Received(tool[c], ResolveConfig) ELSE call[c]]
       /\ Cardinality({c \in Calls : call'[c].tool \in ScriptTools}) <= MaxScripts
       /\ cache' = IF \E c \in cs : tool[c] \in RemoteTools \cup {"disabled"} THEN ResolveConfig ELSE cache
       /\ Begin({c \in cs : tool[c] \in ScriptTools}, tool)
  /\ UNCHANGED <<worker, file, runtime>>

(* One HTTP request per remote call.  The answer may be lost, or come      *)
(* from a runner that is not there.                                        *)
Asks(c) == call[c].state = "waiting" /\ call[c].tool \in RemoteTools
Admitted(c) == call[c].config \in live

AnswerRequest(c) ==
  /\ Asks(c) /\ call[c].tool # "revoke"
  /\ \/ Admitted(c) /\ Answered(c, "ok")
     \/ Answered(c, "error")
  /\ UNCHANGED <<scriptVars, cache>>

AnswerRevoke(c) ==
  /\ Asks(c) /\ call[c].tool = "revoke"
  /\ \/ /\ Admitted(c)
        /\ live' = live \ {call[c].config}
        /\ \/ Answered(c, "ok") /\ cache' = None
           \/ Answered(c, "error") /\ UNCHANGED cache
     \/ Answered(c, "error") /\ UNCHANGED <<live, cache>>
  /\ UNCHANGED <<adminSecret, created, file, runtime, script, history>>

-----------------------------------------------------------------------------
RunsScript(c) == call[c].state = "waiting" /\ call[c].tool \in ScriptTools

(* The child's pipes close when nobody holds them any more: the commands   *)
(* of the Worker's setup and the reconnect helper have pipes of their own, *)
(* all others inherit the server's.                                        *)
HoldsPipes(c) ==
  \/ script[c].pc \in Bootstrap \cup {"stopping"}
  \/ script[c].tool = "recreate" /\ Active(c)

\* Mutant of Closed: only a child that exited by itself ends the call.
ClosedOnExit(c) == script[c].pc \in {"ok", "failed"}

Closed(c) == ~Active(c) \/ (script[c].killed /\ ~HoldsPipes(c))

Succeeded(c) == script[c].pc = "ok" /\ ~script[c].killed

\* Mutant of ClearAfter: recreate keeps the configuration the server holds.
ClearAfterSetupOnly(c) == IF call[c].tool \in {"setup", "stop"} THEN None ELSE cache

ClearAfter(c) == IF call[c].tool \in ClearingTools THEN None ELSE cache

ScriptClosed(c) ==
  /\ RunsScript(c) /\ Closed(c)
  /\ \/ Succeeded(c) /\ Answered(c, "ok") /\ cache' = ClearAfter(c)
     \/ ~Succeeded(c) /\ Answered(c, "error") /\ UNCHANGED cache
  /\ UNCHANGED scriptVars

(* The timer may fire between the exit of the child and its close event.   *)
TimeOut(c) ==
  /\ RunsScript(c) /\ ~script[c].killed
  /\ Kill(c)
  /\ UNCHANGED <<worker, file, runtime, history, cache, call>>

-----------------------------------------------------------------------------
Init ==
  /\ ScriptInit
  /\ cache = None
  /\ call = [c \in Calls |-> NewCall]

Script(c) == ScriptStep(c) /\ UNCHANGED <<cache, call>>
Environment == (RunnerDies \/ RuntimeReclaimed) /\ UNCHANGED <<cache, call>>

Next ==
  \/ ReceiveMessage
  \/ \E c \in Calls : AnswerRequest(c) \/ AnswerRevoke(c) \/ ScriptClosed(c) \/ TimeOut(c)
  \/ \E c \in Calls : Script(c)
  \/ Environment

Spec == Init /\ [][Next]_vars

(* External commands and HTTP requests end; the client need not send, the  *)
(* timer need not fire, nothing need break.                                *)
Fairness ==
  \A c \in Calls : /\ WF_vars(Script(c))
                   /\ WF_vars(AnswerRequest(c) \/ AnswerRevoke(c) \/ ScriptClosed(c))

FairSpec == Spec /\ Fairness

-----------------------------------------------------------------------------
TypeOK ==
  /\ ScriptTypeOK
  /\ cache \in Config \cup {None}
  /\ call \in [Calls -> [tool : Tools, state : {"new", "waiting", "done"},
                         config : Config \cup {None}, result : Results]]

(* The server holds another session than the file only because the run     *)
(* that wrote the file is still going on or was reported as failed.        *)
StaleOnlyAfterFailure ==
  cache # None /\ file \in Config /\ cache # file =>
    file \in Calls /\ call[file].result # "ok"

(* Whatever session a configuration names, in the file, in the server or   *)
(* in a call under way, was created on the Worker before.                  *)
ConfigNamesCreatedSession ==
  LET used == {file, cache} \cup {call[c].config : c \in Calls} IN
  \A config \in used \cap Config : config \in created

Provisioned(c) ==
  /\ call[c].tool \in {"setup", "recreate"} /\ call[c].result = "ok"
  /\ script[c].bootstrap

(* After a bootstrap that was reported as done, undisturbed, and nothing   *)
(* since: the next call uses the session made for it, and the runner to    *)
(* reconnect is that session's.                                            *)
ProvisionedIsUsed ==
  \A c \in Calls : Provisioned(c) /\ solo = c =>
    /\ ResolveConfig = c
    /\ vm => pid = c /\ serves[c] = c

(* Runs that never overlap leave no two runner processes of one session,   *)
(* which would take the connection from each other for ever.               *)
NoRivalRunners ==
  ~overlapped =>
    \A r1, r2 \in alive : r1 # r2 => serves[r1] # serves[r2]

(* A call is answered, however its script ends.                            *)
EveryCallIsAnswered ==
  \A c \in Calls : call[c].state = "waiting" ~> call[c].state = "done"
=============================================================================
