------------------------ MODULE RunnerCommandsProofs ------------------------
(***************************************************************************)
(* Invariants of RunnerCommands, for any number of commands and            *)
(* connections.                                                            *)
(***************************************************************************)
EXTENDS RunnerCommands, FiniteSetTheorems, SequenceTheorems, TLAPS

-----------------------------------------------------------------------------
(* The strengthening.                                                       *)

Going      == Live \ {"cancelling", "abandoning"}
InLock(c)  == \E i \in 1..Len(lock) : lock[i] = c
HasLock(c) == lock # <<>> /\ lock[1] = c

\* The lock holds the serial commands of the open connection, each once, and
\* only the first of them executes.
LockInv ==
  /\ \A i \in 1..Len(lock) : cmd[lock[i]].kind \in Serial
  /\ \A c \in Commands :
       cmd[c].kind \in Serial /\ cmd[c].pc \in Going =>
         /\ InLock(c)
         /\ cmd[c].pc # "queued" => HasLock(c)

\* Tasks live with their connection, and those of a lost one are cancelled.
ConnectionInv ==
  /\ conn.state # "open" => lock = <<>>
  /\ \A c \in Commands :
       /\ cmd[c].pc \in Going => conn.state = "open"
       /\ cmd[c].pc \in {"cancelling", "abandoning"} => conn.state = "closing"

\* Two serial commands that execute are the same one.
SerialInv ==
  \A c, d \in Commands :
    /\ cmd[c].kind \in Serial /\ cmd[c].pc \in Running
    /\ cmd[d].kind \in Serial /\ cmd[d].pc \in Running
    => c = d

\* What the tasks, the lock and the connection have to do with each other.
TaskInv ==
  /\ conn \in [state : {"down", "open", "closing"}, count : 0..MaxConnections]
  /\ cmd \in [Commands -> Command]
  /\ lock \in Seq(Commands)
  /\ \A i, k \in 1..Len(lock) : i # k => lock[i] # lock[k]
  /\ \A i \in 1..Len(lock) : cmd[lock[i]].pc \in Live
  /\ LockInv /\ ConnectionInv /\ SerialInv

\* A start_job that waits for its process saw no running job, and none has
\* come up since.
StartSawNoJob ==
  \A c \in Commands : cmd[c].kind = "start" /\ cmd[c].pc = "spawning" => ~JobIsRunning

JobInv ==
  /\ proc \in [Commands -> Process]
  /\ job \in [Commands -> Job]
  /\ active \in Commands \cup {0}
  /\ RunningJobIsActive /\ StartSawNoJob

IInv == TaskInv /\ JobInv

-----------------------------------------------------------------------------
(* The lock.                                                                *)

LEMMA CommandsAreNumbers == Commands \subseteq Nat \ {0}
BY CommandBounds DEF Commands

\* Letting the lock go takes a command out of it that is first or not in it at
\* all, and leaves the others in.
LEMMA ReleaseFacts ==
  ASSUME NEW c \in Commands, lock \in Seq(Commands), InLock(c) => HasLock(c),
         \A i, k \in 1..Len(lock) : i # k => lock[i] # lock[k]
  PROVE  /\ Release(c) \in Seq(Commands)
         /\ \A i, k \in 1..Len(Release(c)) : i # k => Release(c)[i] # Release(c)[k]
         /\ \A i \in 1..Len(Release(c)) : Release(c)[i] # c /\ InLock(Release(c)[i])
         /\ \A d \in Commands \ {c} :
              InLock(d) => \E i \in 1..Len(Release(c)) : Release(c)[i] = d
<1>1. CASE lock # <<>> /\ Head(lock) = c
  <2>1. Release(c) = Tail(lock)
    BY <1>1 DEF Release
  <2>2. /\ Tail(lock) \in Seq(Commands)
        /\ Len(Tail(lock)) = Len(lock) - 1
        /\ \A i \in 1..Len(Tail(lock)) : Tail(lock)[i] = lock[i+1]
        /\ Head(lock) = lock[1]
        /\ Len(lock) \in Nat /\ Len(lock) # 0
    BY <1>1, HeadTailProperties, LenProperties, EmptySeq
  <2>3. \A i \in 1..Len(Tail(lock)) : i + 1 \in 1..Len(lock) /\ i + 1 # 1
    BY <2>2
  <2>4. \A i \in 2..Len(lock) : i - 1 \in 1..Len(Tail(lock)) /\ Tail(lock)[i-1] = lock[i]
    BY <2>2
  <2>5. 1 \in 1..Len(lock) /\ lock[1] = c
    BY <1>1, <2>2
  <2>6. \A d \in Commands \ {c} :
          InLock(d) => \E i \in 1..Len(Tail(lock)) : Tail(lock)[i] = d
    <3>1. SUFFICES ASSUME NEW d \in Commands \ {c}, NEW i \in 1..Len(lock), lock[i] = d
                   PROVE  \E k \in 1..Len(Tail(lock)) : Tail(lock)[k] = d
      BY DEF InLock
    <3>2. i \in 2..Len(lock)
      BY <2>2, <2>5, <3>1
    <3>3. QED
      BY <2>4, <3>1, <3>2
  <2>7. \A i \in 1..Len(Tail(lock)) : Tail(lock)[i] # c /\ InLock(Tail(lock)[i])
    BY <2>2, <2>3, <2>5 DEF InLock
  <2>8. \A i, k \in 1..Len(Tail(lock)) : i # k => Tail(lock)[i] # Tail(lock)[k]
    BY <2>2, <2>3
  <2>9. QED
    BY <2>1, <2>2, <2>6, <2>7, <2>8
<1>2. CASE ~(lock # <<>> /\ Head(lock) = c)
  <2>1. Release(c) = lock
    BY <1>2 DEF Release
  <2>2. ~InLock(c)
    BY <1>2, HeadTailProperties DEF HasLock
  <2>3. QED
    BY <2>1, <2>2 DEF InLock
<1>3. QED
  BY <1>1, <1>2

\* A serial command that may start has the lock; others are not in it.
LEMMA MayRunFacts ==
  ASSUME TaskInv, NEW c \in Commands, MayRun(c)
  PROVE  /\ cmd[c].pc \in Going
         /\ cmd[c].kind \in Serial => HasLock(c)
         /\ InLock(c) => HasLock(c)
<1>1. cmd[c].pc \in Going
  BY DEF MayRun, Going, Live, Running
<1>2. ASSUME cmd[c].kind \in Serial PROVE HasLock(c)
  <2>1. lock # <<>>
    BY <1>1, <1>2, EmptySeq DEF TaskInv, LockInv, InLock
  <2>2. QED
    BY <1>2, <2>1, HeadTailProperties DEF MayRun, HasLock, TaskInv
<1>3. InLock(c) => cmd[c].kind \in Serial
  BY DEF InLock, TaskInv, LockInv
<1>4. QED
  BY <1>1, <1>2, <1>3

\* The same of a command that executes.
LEMMA GoingFacts ==
  ASSUME TaskInv, NEW c \in Commands, cmd[c].pc \in Going, cmd[c].pc # "queued"
  PROVE  /\ cmd[c].kind \in Serial => HasLock(c)
         /\ InLock(c) => HasLock(c)
BY DEF TaskInv, LockInv, InLock

-----------------------------------------------------------------------------
(* What a step may do to the tasks.                                         *)

\* A command that may run, or runs, ends and lets the lock go.
LEMMA TaskEnds ==
  ASSUME TaskInv, NEW c \in Commands,
         cmd[c].pc \in Going, InLock(c) => HasLock(c),
         cmd' \in [Commands -> Command],
         \A d \in Commands \ {c} : cmd'[d] = cmd[d],
         cmd'[c].pc \in Ended, lock' = Release(c), conn' = conn
  PROVE  TaskInv'
<1> USE DEF TaskInv
<1>1. /\ lock' \in Seq(Commands)
      /\ \A i, k \in 1..Len(lock') : i # k => lock'[i] # lock'[k]
      /\ \A i \in 1..Len(lock') : lock'[i] # c /\ InLock(lock'[i])
      /\ \A d \in Commands \ {c} : InLock(d) => InLock(d)'
  <2> DEFINE left == Release(c)
  <2>1. /\ left \in Seq(Commands)
        /\ \A i, k \in 1..Len(left) : i # k => left[i] # left[k]
        /\ \A i \in 1..Len(left) : left[i] # c /\ InLock(left[i])
        /\ \A d \in Commands \ {c} : InLock(d) => \E i \in 1..Len(left) : left[i] = d
    BY ReleaseFacts
  <2>2. lock' = left
    OBVIOUS
  <2> HIDE DEF left
  <2>3. QED
    BY <2>1, <2>2 DEF InLock
<1>2. \A i \in 1..Len(lock') : lock'[i] \in Commands \ {c}
  BY <1>1, ElementOfSeq
<1>3. \A i \in 1..Len(lock') : cmd'[lock'[i]].pc \in Live /\ cmd'[lock'[i]].kind \in Serial
  BY <1>1, <1>2 DEF InLock, LockInv
<1>4. cmd'[c].pc \notin Going \cup Running
  BY DEF Ended, Going, Live, Running
<1>5. LockInv'
  <2>1. ASSUME NEW d \in Commands, cmd'[d].kind \in Serial, cmd'[d].pc \in Going
        PROVE  InLock(d)' /\ (cmd'[d].pc # "queued" => HasLock(d)')
    <3>1. d # c /\ cmd'[d] = cmd[d] /\ InLock(d)
      BY <2>1, <1>4 DEF LockInv
    <3>2. ASSUME cmd[d].pc # "queued" PROVE lock' = lock
      <4>1. HasLock(d) /\ ~InLock(c)
        BY <2>1, <3>1, <3>2 DEF LockInv, HasLock
      <4>2. ~(lock # <<>> /\ Head(lock) = c)
        BY <4>1, <3>1, HeadTailProperties DEF HasLock
      <4>3. QED
        BY <4>2 DEF Release
    <3>3. QED
      BY <2>1, <3>1, <3>2, <1>1 DEF LockInv, HasLock
  <2>2. QED
    BY <1>3, <2>1 DEF LockInv, Serial
<1>6. ConnectionInv'
  <2>1. conn.state = "open"
    BY DEF ConnectionInv
  <2>2. QED
    BY <1>4, <2>1 DEF ConnectionInv, Going, Live, Running, Ended
<1>7. SerialInv'
  BY <1>4 DEF SerialInv
<1>8. QED
  BY <1>1, <1>3, <1>5, <1>6, <1>7

\* A command that may run, or runs, goes on with the lock it has.
LEMMA TaskGoesOn ==
  ASSUME TaskInv, NEW c \in Commands,
         cmd[c].pc \in Going, cmd[c].kind \in Serial => HasLock(c),
         cmd' \in [Commands -> Command],
         \A d \in Commands \ {c} : cmd'[d] = cmd[d],
         cmd'[c].kind = cmd[c].kind,
         cmd'[c].pc \in Going \ {"queued"}, UNCHANGED <<lock, conn>>
  PROVE  TaskInv'
<1> USE DEF TaskInv
<1>1. cmd'[c].pc \in Live /\ cmd'[c].pc \in Running
  BY DEF Going, Live
<1>2. \A d \in Commands : cmd'[d].kind = cmd[d].kind
  OBVIOUS
<1>3. \A i \in 1..Len(lock) : lock[i] \in Commands
  BY ElementOfSeq
<1>4. LockInv'
  <2>1. \A i \in 1..Len(lock) : cmd'[lock[i]].kind \in Serial
    BY <1>2, <1>3 DEF LockInv
  <2>2. \A d \in Commands : cmd'[d].kind \in Serial /\ cmd'[d].pc \in Going =>
          InLock(d) /\ (cmd'[d].pc # "queued" => HasLock(d))
    BY <1>2 DEF LockInv
  <2>3. QED
    BY <2>1, <2>2 DEF LockInv, InLock, HasLock, Serial
<1>5. ConnectionInv'
  <2>1. conn.state = "open"
    BY DEF ConnectionInv
  <2>2. QED
    BY <2>1 DEF ConnectionInv, Going
<1>6. SerialInv'
  <2>1. \A d \in Commands \ {c} :
          cmd[c].kind \in Serial /\ cmd[d].kind \in Serial => cmd[d].pc \notin Running
    <3>1. SUFFICES ASSUME NEW d \in Commands \ {c}, cmd[c].kind \in Serial,
                          cmd[d].kind \in Serial, cmd[d].pc \in Running
                   PROVE  FALSE
      OBVIOUS
    <3>2. cmd[d].pc \in Going /\ cmd[d].pc # "queued"
      BY <3>1 DEF ConnectionInv, Going, Live, Running
    <3>3. QED
      BY <3>1, <3>2 DEF LockInv, HasLock
  <2>2. QED
    BY <2>1, <1>2 DEF SerialInv
<1>7. \A i \in 1..Len(lock') : cmd'[lock'[i]].pc \in Live
  BY <1>1, <1>3
<1>8. QED
  BY <1>4, <1>5, <1>6, <1>7

\* The tasks are left alone.
LEMMA TaskUnchanged ==
  ASSUME TaskInv, UNCHANGED <<conn, cmd, lock>>
  PROVE  TaskInv'
BY DEF TaskInv, LockInv, ConnectionInv, SerialInv, InLock, HasLock, Going, Live, Running, Serial

-----------------------------------------------------------------------------
(* The tasks over the actions.                                              *)

LEMMA ConnectTasks ==
  ASSUME IInv, Connect
  PROVE  TaskInv'
<1>1. /\ conn' \in [state : {"down", "open", "closing"}, count : 0..MaxConnections]
      /\ conn'.state = "open" /\ conn.state = "down"
  BY CommandBounds DEF IInv, TaskInv, Connect
<1>2. ConnectionInv'
  BY <1>1 DEF IInv, TaskInv, Connect, ConnectionInv, Going, Live, Running
<1>3. QED
  BY <1>1, <1>2 DEF IInv, TaskInv, Connect, LockInv, SerialInv, InLock, HasLock, Going, Live,
                    Running, Serial

LEMMA GatheredTasks ==
  ASSUME IInv, Gathered
  PROVE  TaskInv'
<1>1. /\ conn' \in [state : {"down", "open", "closing"}, count : 0..MaxConnections]
      /\ conn'.state = "down" /\ conn.state = "closing"
  BY DEF IInv, TaskInv, Gathered
<1>2. ConnectionInv'
  BY <1>1 DEF IInv, TaskInv, Gathered, ConnectionInv, Going, Live, Running
<1>3. QED
  BY <1>1, <1>2 DEF IInv, TaskInv, Gathered, LockInv, SerialInv, InLock, HasLock, Going, Live,
                    Running, Serial

LEMMA DisconnectTasks ==
  ASSUME IInv, Disconnect
  PROVE  TaskInv'
<1> USE DEF IInv, TaskInv, Disconnect
<1>1. \A c \in Commands :
        /\ Cancelled(cmd[c].pc) \in {"new"} \cup Live \cup Ended
        /\ Cancelled(cmd[c].pc) \notin Going
        /\ Cancelled(cmd[c].pc) \in Running => cmd[c].pc \in Running
  BY DEF Cancelled, Command, Going, Live, Running, Ended
<1>2. \A c \in Commands : cmd'[c] = [cmd[c] EXCEPT !.pc = Cancelled(cmd[c].pc)]
  OBVIOUS
<1>3. \A c \in Commands : [cmd[c] EXCEPT !.pc = Cancelled(cmd[c].pc)] \in Command
  BY <1>1 DEF Command
<1>4. cmd' \in [Commands -> Command]
  BY <1>3
<1>5. \A c \in Commands : cmd'[c].kind = cmd[c].kind /\ cmd'[c].pc = Cancelled(cmd[c].pc)
  BY <1>2 DEF Command
<1>6. /\ lock' \in Seq(Commands) /\ lock' = <<>> /\ 1..Len(lock') = {}
      /\ conn' \in [state : {"down", "open", "closing"}, count : 0..MaxConnections]
      /\ conn'.state = "closing"
  BY EmptySeq
<1>7. LockInv' /\ ConnectionInv'
  BY <1>1, <1>5, <1>6 DEF LockInv, ConnectionInv
<1>8. SerialInv'
  BY <1>1, <1>5 DEF SerialInv
<1>9. QED
  BY <1>4, <1>6, <1>7, <1>8

LEMMA ReceiveTasks ==
  ASSUME IInv, NEW c \in Commands, Receive(c)
  PROVE  TaskInv'
<1> USE DEF IInv, TaskInv
<1>1. PICK kind \in Kinds, sig \in {"SIGTERM", "SIGKILL"},
           target \in {0} \cup {j \in Commands : job[j].status # "none"} :
        /\ cmd' = [cmd EXCEPT ![c] = [kind |-> kind, pc |-> "queued", target |-> target,
                                      signal |-> sig, result |-> "none"]]
        /\ lock' = IF kind \in Serial THEN Append(lock, c) ELSE lock
  BY DEF Receive
<1>2. /\ cmd' \in [Commands -> Command]
      /\ cmd'[c].kind = kind /\ cmd'[c].pc = "queued"
      /\ \A d \in Commands \ {c} : cmd'[d] = cmd[d]
  BY <1>1 DEF Command, Live, Running, Results
<1>3. \A i \in 1..Len(lock) : lock[i] \in Commands \ {c}
  BY ElementOfSeq DEF Receive, Live, Running
<1>4. CASE kind \in Serial
  <2>1. /\ lock' \in Seq(Commands) /\ Len(lock') = Len(lock) + 1
        /\ \A i \in 1..Len(lock) : lock'[i] = lock[i]
        /\ lock'[Len(lock) + 1] = c /\ Len(lock) \in Nat
    BY <1>1, <1>4, AppendProperties, LenProperties
  <2>2. \A i \in 1..Len(lock') : i \in 1..Len(lock) \/ i = Len(lock) + 1
    BY <2>1
  <2>3. \A i, k \in 1..Len(lock') : i # k => lock'[i] # lock'[k]
    BY <2>1, <2>2, <1>3
  <2>4. \A i \in 1..Len(lock') : cmd'[lock'[i]].pc \in Live /\ cmd'[lock'[i]].kind \in Serial
    BY <2>1, <2>2, <1>2, <1>3, <1>4 DEF LockInv, Live
  <2>5. InLock(c)' /\ \A d \in Commands : InLock(d) => InLock(d)'
    BY <2>1 DEF InLock
  <2>6. \A d \in Commands : HasLock(d) => HasLock(d)'
    BY <2>1, EmptySeq DEF HasLock
  <2>7. LockInv'
    BY <2>4, <2>5, <2>6, <1>2 DEF LockInv, Serial
  <2>8. QED
    BY <2>1, <2>3, <2>4, <2>7, <1>2 DEF Receive, ConnectionInv, SerialInv, Going, Live, Running
<1>5. CASE kind \notin Serial
  <2>1. lock' = lock
    BY <1>1, <1>5
  <2>2. LockInv'
    BY <2>1, <1>2, <1>3, <1>5 DEF LockInv, InLock, HasLock, Serial
  <2>3. QED
    BY <2>1, <2>2, <1>2, <1>3 DEF Receive, ConnectionInv, SerialInv, Going, Live, Running
<1>6. QED
  BY <1>4, <1>5

\* The end of a task that a lost connection cancelled.
LEMMA CleanedUpTasks ==
  ASSUME IInv, NEW c \in Commands, CleanedUp(c)
  PROVE  TaskInv'
<1> USE DEF IInv, TaskInv, CleanedUp
<1>1. /\ cmd' \in [Commands -> Command] /\ cmd'[c].pc = "lost"
      /\ \A d \in Commands \ {c} : cmd'[d] = cmd[d]
  BY DEF Command, Ended
<1>2. lock = <<>> /\ 1..Len(lock) = {}
  BY EmptySeq DEF ConnectionInv
<1>3. QED
  BY <1>1, <1>2 DEF LockInv, ConnectionInv, SerialInv, InLock, HasLock, Going, Live, Running,
                    Serial

\* Finish and Goes, of a command that has what TaskEnds and TaskGoesOn ask for.
LEMMA FinishTasks ==
  ASSUME TaskInv, NEW c \in Commands, NEW result \in Results,
         cmd[c].pc \in Going, InLock(c) => HasLock(c),
         Finish(c, result), conn' = conn
  PROVE  TaskInv'
<1> DEFINE ended == [cmd[c] EXCEPT !.pc = "answered", !.result = result]
<1>1. ended \in Command /\ ended.pc \in Ended
  BY DEF TaskInv, Command, Ended
<1>2. /\ cmd' = [cmd EXCEPT ![c] = ended]
      /\ lock' = Release(c)
  BY DEF Finish
<1> HIDE DEF ended
<1>3. /\ cmd' \in [Commands -> Command] /\ cmd'[c].pc \in Ended
      /\ \A d \in Commands \ {c} : cmd'[d] = cmd[d]
  BY <1>1, <1>2 DEF TaskInv
<1>4. QED
  BY <1>2, <1>3, TaskEnds

LEMMA GoesTasks ==
  ASSUME TaskInv, NEW c \in Commands, NEW pc \in Going \ {"queued"},
         cmd[c].pc \in Going, cmd[c].kind \in Serial => HasLock(c),
         Goes(c, pc), conn' = conn
  PROVE  TaskInv'
<1>1. /\ cmd' \in [Commands -> Command] /\ cmd'[c].pc = pc /\ cmd'[c].kind = cmd[c].kind
      /\ \A d \in Commands \ {c} : cmd'[d] = cmd[d]
      /\ UNCHANGED lock
  BY DEF Goes, TaskInv, Command, Going
<1>2. QED
  BY <1>1, TaskGoesOn

LEMMA StartingTasks ==
  ASSUME IInv, NEW c \in Commands, MayRun(c),
         ExecuteAtOnce(c) \/ Spawn(c) \/ RefuseJob(c) \/ InterruptRunning(c)
  PROVE  TaskInv'
<1>1. /\ TaskInv /\ cmd[c].pc \in Going
      /\ cmd[c].kind \in Serial => HasLock(c)
      /\ InLock(c) => HasLock(c)
  BY MayRunFacts DEF IInv
<1>2. CASE ExecuteAtOnce(c)
  BY <1>1, <1>2, FinishTasks DEF ExecuteAtOnce, Results
<1>3. CASE RefuseJob(c)
  BY <1>1, <1>3, FinishTasks DEF RefuseJob, Results
<1>4. CASE InterruptRunning(c)
  <2>1. PICK pc \in {"grace", "last"} : Goes(c, pc)
    BY <1>4 DEF InterruptRunning
  <2>2. QED
    BY <1>1, <1>4, <2>1, GoesTasks DEF InterruptRunning, Going, Live, Running
<1>5. CASE Spawn(c)
  <2>1. CASE Goes(c, "spawning")
    BY <1>1, <1>5, <2>1, GoesTasks DEF Spawn, Going, Live, Running
  <2>2. CASE cmd' = [cmd EXCEPT ![c].pc = "lost"] /\ lock' = Release(c)
    <3>1. /\ cmd' \in [Commands -> Command] /\ cmd'[c].pc \in Ended
          /\ \A d \in Commands \ {c} : cmd'[d] = cmd[d]
      BY <2>2, <1>1 DEF TaskInv, Command, Ended
    <3>2. QED
      BY <1>1, <1>5, <2>2, <3>1, TaskEnds DEF Spawn
  <2>3. QED
    BY <1>5, <2>1, <2>2 DEF Spawn
<1>6. QED
  BY <1>2, <1>3, <1>4, <1>5

LEMMA InterruptEndedTasks ==
  ASSUME IInv, NEW c \in Commands, InterruptEnded(c)
  PROVE  TaskInv'
<1>1. TaskInv /\ cmd[c].pc \in Going /\ (InLock(c) => HasLock(c))
  BY MayRunFacts, GoingFacts DEF IInv, InterruptEnded, Interrupting, Going, Live, Running
<1>2. Target(c) \in Commands \cup {0}
  BY DEF IInv, TaskInv, Command, Target
<1>3. PICK result \in Results : Finish(c, result)
  BY <1>2 DEF InterruptEnded, IInv, JobInv, Job, Results
<1>4. QED
  BY <1>1, <1>3, FinishTasks DEF InterruptEnded

LEMMA ExecutingTasks ==
  ASSUME IInv, NEW c \in Commands,
         Spawned(c) \/ SeeExit(c) \/ TimeOut(c) \/ Drained(c) \/ KillAfter(c) \/ GiveUp(c)
  PROVE  TaskInv'
<1> USE DEF IInv
<1>1. /\ TaskInv /\ cmd[c].pc \in Going /\ cmd[c].pc # "queued"
      /\ cmd \in [Commands -> Command]
  BY DEF Spawned, SeeExit, TimeOut, Drained, KillAfter, GiveUp, Collecting, Going, Live, Running,
         TaskInv
<1>2. /\ cmd[c].kind \in Serial => HasLock(c)
      /\ InLock(c) => HasLock(c)
  BY <1>1, GoingFacts
<1>3. CASE Spawned(c)
  <2>1. CASE cmd[c].kind = "start"
    BY <1>1, <1>2, <1>3, <2>1, FinishTasks DEF Spawned, Results
  <2>2. CASE cmd[c].kind # "start"
    BY <1>1, <1>2, <1>3, <2>2, GoesTasks DEF Spawned, Going, Live, Running
  <2>3. QED
    BY <2>1, <2>2
<1>4. CASE SeeExit(c)
  <2>1. PICK result \in Results :
          cmd' = [cmd EXCEPT ![c].pc = "draining", ![c].result = result]
    BY <1>4 DEF SeeExit, Results
  <2>2. /\ cmd' \in [Commands -> Command]
        /\ cmd'[c].pc = "draining" /\ cmd'[c].kind = cmd[c].kind
        /\ \A d \in Commands \ {c} : cmd'[d] = cmd[d]
    BY <1>1, <2>1, ZenonT(30) DEF Command, Live, Running
  <2>3. QED
    BY <1>1, <1>2, <1>4, <2>2, TaskGoesOn DEF SeeExit, Going, Live, Running
<1>5. CASE TimeOut(c)
  <2>1. PICK pc \in {"terminating", "killing", "draining"} :
          cmd' = [cmd EXCEPT ![c].pc = pc, ![c].result = "timed_out"]
    BY <1>5 DEF TimeOut, Escalates, Collecting
  <2>2. /\ cmd' \in [Commands -> Command]
        /\ cmd'[c].pc = pc /\ cmd'[c].kind = cmd[c].kind
        /\ \A d \in Commands \ {c} : cmd'[d] = cmd[d]
    BY <1>1, <2>1, ZenonT(30) DEF Command, Live, Running, Results
  <2>3. QED
    BY <1>1, <1>2, <1>5, <2>2, TaskGoesOn DEF TimeOut, Going, Live, Running
<1>6. CASE Drained(c)
  BY <1>1, <1>2, <1>6, FinishTasks DEF Drained, Command
<1>7. CASE KillAfter(c)
  BY <1>1, <1>2, <1>7, GoesTasks DEF KillAfter, Going, Live, Running
<1>8. CASE GiveUp(c)
  BY <1>1, <1>2, <1>8, FinishTasks DEF GiveUp, Results
<1>9. QED
  BY <1>3, <1>4, <1>5, <1>6, <1>7, <1>8

-----------------------------------------------------------------------------
(* The jobs over the actions.                                               *)

LEMMA SignaledType ==
  ASSUME proc \in [Commands -> Process], NEW c, NEW sig \in {"SIGTERM", "SIGKILL", "child"}
  PROVE  Signaled(c, sig) \in [Commands -> Process]
BY DEF Signaled, Process

LEMMA ChildType ==
  ASSUME proc \in [Commands -> Process], NEW c \in Commands,
         NEW child \in {"none", "alive", "zombie", "reaped", "ended"}
  PROVE  [proc EXCEPT ![c].child = child] \in [Commands -> Process]
BY DEF Process

LEMMA HeldType ==
  ASSUME proc \in [Commands -> Process], NEW c \in Commands
  PROVE  /\ [proc EXCEPT ![c].held = TRUE] \in [Commands -> Process]
         /\ [proc EXCEPT ![c].held = FALSE] \in [Commands -> Process]
BY DEF Process

LEMMA StatusType ==
  ASSUME job \in [Commands -> Job], NEW c \in Commands,
         NEW status \in {"none", "running", "exited", "interrupted"}
  PROVE  /\ [job EXCEPT ![c].status = status] \in [Commands -> Job]
         /\ [job EXCEPT ![c].status = status][c].status = status
BY DEF Job

LEMMA InterruptedType ==
  ASSUME job \in [Commands -> Job], NEW c
  PROVE  /\ [job EXCEPT ![c].interrupted_at = TRUE] \in [Commands -> Job]
         /\ \A j \in Commands : [job EXCEPT ![c].interrupted_at = TRUE][j].status = job[j].status
BY DEF Job

\* A step that starts no job, and lets no start_job come to wait for its process.
LEMMA JobsKept ==
  ASSUME IInv, proc' \in [Commands -> Process], UNCHANGED <<job, active>>,
         \A c \in Commands : cmd'[c].kind = "start" /\ cmd'[c].pc = "spawning" =>
           \/ cmd[c].kind = "start" /\ cmd[c].pc = "spawning"
           \/ ~JobIsRunning
  PROVE  JobInv'
BY DEF IInv, JobInv, RunningJobIsActive, StartSawNoJob, JobIsRunning

LEMMA ProcessJobs ==
  ASSUME IInv, NEW c \in Commands,
         Forks(c) \/ ChildEnds(c) \/ OthersEnd(c) \/ WatcherReaps(c) \/ ReturncodeSet(c)
  PROVE  JobInv'
<1>1. UNCHANGED <<job, active, cmd>>
  BY DEF Forks, ChildEnds, OthersEnd, WatcherReaps, ReturncodeSet
<1>2. proc' \in [Commands -> Process]
  <2>1. proc \in [Commands -> Process]
    BY DEF IInv, JobInv
  <2>2. \/ proc' = [proc EXCEPT ![c].held = TRUE]
        \/ proc' = [proc EXCEPT ![c].held = FALSE]
        \/ \E child \in {"zombie", "reaped", "ended"} : proc' = [proc EXCEPT ![c].child = child]
    BY Zenon DEF Forks, ChildEnds, OthersEnd, WatcherReaps, ReturncodeSet
  <2>3. ASSUME NEW child \in {"zombie", "reaped", "ended"},
               proc' = [proc EXCEPT ![c].child = child]
        PROVE  proc' \in [Commands -> Process]
    BY <2>1, <2>3, ChildType
  <2>4. QED
    BY <2>1, <2>2, <2>3, HeldType
<1>3. QED
  BY <1>1, <1>2, JobsKept

LEMMA ConnectionJobs ==
  ASSUME IInv, Connect \/ Disconnect \/ Gathered
  PROVE  JobInv'
<1> USE DEF IInv
<1>1. UNCHANGED <<job, active>>
  BY DEF Connect, Disconnect, Gathered
<1>2. CASE Connect \/ Gathered
  BY <1>1, <1>2, JobsKept DEF Connect, Gathered, JobInv
<1>3. CASE Disconnect
  <2>1. proc' \in [Commands -> Process]
    <3>1. ASSUME NEW c \in Commands, KilledBy(cmd[c].pc) # "none"
          PROVE  Signaled(c, KilledBy(cmd[c].pc))[c] \in Process
      <4>1. KilledBy(cmd[c].pc) \in {"SIGTERM", "SIGKILL", "child"}
        BY <3>1 DEF KilledBy
      <4>2. QED
        BY <4>1, SignaledType DEF JobInv
    <3>2. QED
      BY <1>3, <3>1 DEF Disconnect, JobInv
  <2>2. \A c \in Commands : cmd'[c].kind = cmd[c].kind /\ cmd'[c].pc = Cancelled(cmd[c].pc)
    BY <1>3 DEF Disconnect, TaskInv, Command
  <2>3. \A c \in Commands : Cancelled(cmd[c].pc) # "spawning"
    BY DEF Cancelled
  <2>4. QED
    BY <1>1, <2>1, <2>2, <2>3, JobsKept
<1>4. QED
  BY <1>2, <1>3

\* Only _watch_process ends a job.
LEMMA WatchProcessJobs ==
  ASSUME IInv, NEW j \in Commands, WatchProcess(j)
  PROVE  JobInv'
<1>1. /\ job' \in [Commands -> Job] /\ job'[j].status # "running"
      /\ \A i \in Commands \ {j} : job'[i] = job[i]
  <2>1. job \in [Commands -> Job]
    BY DEF IInv, JobInv
  <2>2. PICK status \in {"exited", "interrupted"} : job' = [job EXCEPT ![j].status = status]
    BY DEF WatchProcess
  <2>3. QED
    BY <2>1, <2>2, StatusType
<1>2. active' \in Commands \cup {0} /\ active' = (IF active = j THEN 0 ELSE active)
  BY DEF IInv, JobInv, WatchProcess
<1>3. RunningJobIsActive'
  BY <1>1, <1>2 DEF IInv, JobInv, RunningJobIsActive
<1>4. JobIsRunning' => JobIsRunning
  BY <1>1, <1>2 DEF IInv, JobInv, JobIsRunning
<1>5. QED
  BY <1>1, <1>2, <1>3, <1>4 DEF IInv, JobInv, WatchProcess, StartSawNoJob

\* Only start_job, back from its wait for the process, starts one.
LEMMA SpawnedJobs ==
  ASSUME IInv, NEW c \in Commands, Spawned(c)
  PROVE  JobInv'
<1> USE DEF IInv, TaskInv, JobInv, Spawned
<1>1. CASE cmd[c].kind = "start"
  <2>1. /\ job' \in [Commands -> Job] /\ active' = c
        /\ \A i \in Commands \ {c} : job'[i] = job[i]
    <3>1. job' = [job EXCEPT ![c].status = "running"] /\ active' = c
      BY <1>1
    <3>2. QED
      BY <3>1, StatusType
  <2>2. \A i \in Commands : job[i].status # "running"
    BY <1>1, CommandsAreNumbers DEF StartSawNoJob, JobIsRunning, RunningJobIsActive
  <2>3. RunningJobIsActive'
    BY <2>1, <2>2 DEF RunningJobIsActive
  <2>4. \A d \in Commands : cmd'[d].kind = "start" => cmd'[d].pc # "spawning"
    <3>1. cmd'[c].pc = "answered" /\ \A d \in Commands \ {c} : cmd'[d] = cmd[d]
      BY <1>1 DEF Finish, Command
    <3>2. QED
      BY <1>1, <3>1 DEF SerialInv, Serial, Running
  <2>5. QED
    BY <2>1, <2>3, <2>4, <1>1 DEF StartSawNoJob
<1>2. CASE cmd[c].kind # "start"
  <2>1. cmd'[c].pc = "running" /\ \A d \in Commands \ {c} : cmd'[d] = cmd[d]
    BY <1>2 DEF Goes, Command
  <2>2. QED
    BY <1>2, <2>1, JobsKept
<1>3. QED
  BY <1>1, <1>2

\* The other tasks leave the jobs' states alone.
LEMMA TaskJobs ==
  ASSUME IInv, NEW c \in Commands,
         Receive(c) \/ ExecuteAtOnce(c) \/ Spawn(c) \/ RefuseJob(c) \/ SeeExit(c) \/ TimeOut(c)
         \/ Drained(c) \/ InterruptEnded(c) \/ KillAfter(c) \/ GiveUp(c) \/ CleanedUp(c)
  PROVE  JobInv'
<1> USE DEF IInv, TaskInv, JobInv
<1>1. UNCHANGED <<job, active>>
  BY DEF Receive, ExecuteAtOnce, Spawn, RefuseJob, SeeExit, TimeOut, Drained, InterruptEnded,
         KillAfter, GiveUp, CleanedUp
<1>2. proc' \in [Commands -> Process]
  <2>1. CASE TimeOut(c) \/ KillAfter(c)
    BY <2>1, SignaledType DEF TimeOut, KillAfter
  <2>2. CASE Spawn(c) \/ SeeExit(c)
    <3>1. \/ UNCHANGED proc
          \/ \E child \in {"alive", "ended"} : proc' = [proc EXCEPT ![c].child = child]
      BY <2>2 DEF Spawn, SeeExit
    <3>2. ASSUME NEW child \in {"alive", "ended"}, proc' = [proc EXCEPT ![c].child = child]
          PROVE  proc' \in [Commands -> Process]
      BY <3>2, ChildType
    <3>3. QED
      BY <3>1, <3>2
  <2>3. CASE Receive(c) \/ ExecuteAtOnce(c) \/ RefuseJob(c) \/ Drained(c) \/ InterruptEnded(c)
             \/ GiveUp(c) \/ CleanedUp(c)
    BY <2>3 DEF Receive, ExecuteAtOnce, RefuseJob, Drained, InterruptEnded, GiveUp, CleanedUp
  <2>4. QED
    BY <2>1, <2>2, <2>3
<1>3. \A d \in Commands \ {c} : cmd'[d] = cmd[d]
  BY DEF Receive, ExecuteAtOnce, Spawn, RefuseJob, SeeExit, TimeOut, Drained, InterruptEnded,
         KillAfter, GiveUp, CleanedUp, Finish, Goes
<1>4. cmd'[c].kind = "start" /\ cmd'[c].pc = "spawning" => ~JobIsRunning
  <2>1. CASE Spawn(c)
    BY <2>1 DEF Spawn, Goes, Command
  <2>2. CASE ~Spawn(c)
    <3>1. cmd'[c].pc # "spawning"
      BY <2>2 DEF Receive, ExecuteAtOnce, RefuseJob, SeeExit, TimeOut, Drained, InterruptEnded,
                  KillAfter, GiveUp, CleanedUp, Finish, Goes, Escalates, Collecting, Command
    <3>2. QED
      BY <3>1
  <2>3. QED
    BY <2>1, <2>2
<1>5. QED
  BY <1>1, <1>2, <1>3, <1>4, JobsKept

LEMMA InterruptRunningJobs ==
  ASSUME IInv, NEW c \in Commands, InterruptRunning(c)
  PROVE  JobInv'
<1> USE DEF IInv, TaskInv, JobInv, InterruptRunning
<1>1. job' \in [Commands -> Job] /\ \A j \in Commands : job'[j].status = job[j].status
  BY InterruptedType
<1>2. proc' \in [Commands -> Process]
  BY SignaledType DEF Command
<1>3. \A d \in Commands : cmd'[d].kind = "start" /\ cmd'[d].pc = "spawning" => cmd'[d] = cmd[d]
  BY DEF Goes, Command
<1>4. JobIsRunning' = JobIsRunning
  BY <1>1 DEF JobIsRunning
<1>5. QED
  BY <1>1, <1>2, <1>3, <1>4 DEF RunningJobIsActive, StartSawNoJob

-----------------------------------------------------------------------------
(* What the lock, the tasks and the jobs keep.                              *)

LEMMA InitIInv ==
  ASSUME Init
  PROVE  IInv
<1> USE DEF Init
<1>1. /\ conn \in [state : {"down", "open", "closing"}, count : 0..MaxConnections]
      /\ cmd \in [Commands -> Command]
      /\ lock \in Seq(Commands) /\ 1..Len(lock) = {}
  BY CommandBounds, EmptySeq DEF Command, Kinds, Results
<1>2. LockInv /\ ConnectionInv /\ SerialInv
  BY <1>1 DEF LockInv, ConnectionInv, SerialInv, Going, Live, Running
<1>3. proc \in [Commands -> Process] /\ job \in [Commands -> Job]
  BY DEF Process, Job
<1>4. RunningJobIsActive /\ StartSawNoJob
  BY DEF RunningJobIsActive, StartSawNoJob
<1>5. QED
  BY <1>1, <1>2, <1>3, <1>4 DEF IInv, TaskInv, JobInv

LEMMA NextIInv ==
  ASSUME IInv, [Next]_vars
  PROVE  IInv'
<1>1. CASE Connect \/ Disconnect \/ Gathered
  BY <1>1, ConnectTasks, DisconnectTasks, GatheredTasks, ConnectionJobs DEF IInv
<1>2. ASSUME NEW c \in Commands, Receive(c)
      PROVE  IInv'
  BY <1>2, ReceiveTasks, TaskJobs DEF IInv
<1>3. ASSUME NEW c \in Commands, Task(c)
      PROVE  IInv'
  <2>1. CASE ExecuteAtOnce(c) \/ Spawn(c) \/ RefuseJob(c)
    BY <2>1, StartingTasks, TaskJobs DEF IInv, ExecuteAtOnce, Spawn, RefuseJob
  <2>2. CASE InterruptRunning(c)
    BY <2>2, StartingTasks, InterruptRunningJobs DEF IInv, InterruptRunning
  <2>3. CASE Spawned(c)
    BY <2>3, ExecutingTasks, SpawnedJobs DEF IInv
  <2>4. CASE SeeExit(c) \/ TimeOut(c) \/ Drained(c) \/ KillAfter(c) \/ GiveUp(c)
    BY <2>4, ExecutingTasks, TaskJobs DEF IInv
  <2>5. CASE InterruptEnded(c)
    BY <2>5, InterruptEndedTasks, TaskJobs DEF IInv
  <2>6. CASE CleanedUp(c)
    BY <2>6, CleanedUpTasks, TaskJobs DEF IInv
  <2>7. QED
    BY <1>3, <2>1, <2>2, <2>3, <2>4, <2>5, <2>6 DEF Task
<1>4. ASSUME NEW c \in Commands, WatchProcess(c)
      PROVE  IInv'
  BY <1>4, TaskUnchanged, WatchProcessJobs DEF IInv, WatchProcess
<1>5. ASSUME NEW c \in Commands,
             Forks(c) \/ ChildEnds(c) \/ OthersEnd(c) \/ WatcherReaps(c) \/ ReturncodeSet(c)
      PROVE  IInv'
  <2>1. UNCHANGED <<conn, cmd, lock>>
    BY <1>5 DEF Forks, ChildEnds, OthersEnd, WatcherReaps, ReturncodeSet
  <2>2. QED
    BY <1>5, <2>1, TaskUnchanged, ProcessJobs DEF IInv
<1>6. CASE UNCHANGED vars
  <2>1. UNCHANGED <<conn, cmd, lock, proc, job, active>>
    BY <1>6 DEF vars
  <2>2. JobInv'
    BY <2>1, JobsKept DEF IInv, JobInv
  <2>3. QED
    BY <2>1, <2>2, TaskUnchanged DEF IInv
<1>7. QED
  BY <1>1, <1>2, <1>3, <1>4, <1>5, <1>6 DEF Next

LEMMA Inductive == Spec => []IInv
<1>1. Init => IInv
  BY InitIInv
<1>2. IInv /\ [Next]_vars => IInv'
  BY NextIInv
<1>3. QED
  BY <1>1, <1>2, PTL DEF Spec

(* Every variable has its type, and the lock never holds a command twice or *)
(* one that has ended (connect_once, serial_lock).                          *)
THEOREM TypeCorrect == Spec => []TypeOK
<1>1. IInv => TypeOK
  BY DEF IInv, TaskInv, JobInv, TypeOK
<1>2. QED
  BY <1>1, Inductive, PTL

(* At most one command that changes something is executing, however many   *)
(* connections came and went (execute_runner_command, connect_once).       *)
THEOREM SerialCommandsExclude == Spec => []OneAtATime
<1>1. ASSUME IInv PROVE OneAtATime
  <2> DEFINE S == {c \in Commands : cmd[c].kind \in Serial /\ cmd[c].pc \in Running}
  <2>1. \A c, d \in S : c = d
    BY <1>1 DEF IInv, TaskInv, SerialInv
  <2>2. ASSUME NEW c \in S PROVE S = {c}
    BY <2>1
  <2> HIDE DEF S
  <2>3. Cardinality(S) <= 1
    <3>1. CASE S = {}
      BY <3>1, FS_EmptySet
    <3>2. CASE S # {}
      <4>1. PICK c \in S : S = {c}
        BY <2>2, <3>2
      <4>2. Cardinality(S) = 1
        BY <4>1, FS_Singleton
      <4>3. QED
        BY <4>2
    <3>3. QED
      BY <3>1, <3>2
  <2>4. QED
    BY <2>3 DEF S, OneAtATime
<1>2. IInv => OneAtATime
  BY <1>1
<1>3. QED
  BY <1>2, Inductive, PTL

(* A job that JOBS calls running is the one that ACTIVE_JOB_ID names, so no *)
(* two run, although start_job looks before it awaits and sets it after.    *)
THEOREM OneJobRuns == Spec => []RunningJobIsActive
<1>1. IInv => RunningJobIsActive
  BY DEF IInv, JobInv
<1>2. QED
  BY <1>1, Inductive, PTL

-----------------------------------------------------------------------------
(* Processes and answers.                                                   *)

SentKill(c) == proc[c].signal = "SIGKILL"

\* What a task in each state knows of the process it started ...
ProcessKnown(c) ==
  /\ cmd[c].pc \in {"new", "queued"} \/ cmd[c].kind \notin {"run", "start"} =>
       proc[c].child = "none"
  /\ cmd[c].pc \in {"terminating", "cancelling"} => proc[c].signal # "none"
  /\ cmd[c].pc = "killing" => SentKill(c)
  /\ cmd[c].pc = "draining" \/ (cmd[c].pc = "answered" /\ cmd[c].kind = "run") =>
       Exited(c) \/ SentKill(c)

\* ... and an interrupt of the job it interrupts.
TargetKnown(c) ==
  /\ Interrupting(c) => cmd[c].kind = "interrupt"
  /\ cmd[c].result = "running" => cmd[c].pc = "answered"
  /\ Interrupting(c) \/ cmd[c].result = "running" => Target(c) # 0
  /\ cmd[c].pc = "last" \/ cmd[c].result = "running" => SentKill(Target(c))

Owned(c) ==
  proc[c].child = "alive" /\ proc[c].signal = "none"
    => cmd[c].pc \in Running \/ job[c].status = "running"

OwnInv == \A c \in Commands : ProcessKnown(c) /\ TargetKnown(c) /\ Owned(c)

\* What a step cannot take back of process p.
Steady(p) ==
  /\ Exited(p) => Exited(p)'
  /\ SentKill(p) => SentKill(p)'
  /\ proc[p].signal # "none" => proc'[p].signal # "none"
  /\ proc[p].child = "none" => proc'[p].child = "none"
  /\ proc'[p].child = "alive" => proc[p].child = "alive"

\* A signal reaches one process group, and SIGKILL is never taken back.
LEMMA SignaledFacts ==
  ASSUME proc \in [Commands -> Process], NEW c \in Commands,
         NEW sig \in {"SIGTERM", "SIGKILL", "child"}
  PROVE  LET new == Signaled(c, sig) IN
         /\ \A p \in Commands \ {c} : new[p] = proc[p]
         /\ new[c].child = proc[c].child
         /\ new[c].signal = IF SentKill(c) THEN "SIGKILL" ELSE sig
BY DEF Signaled, Process, SentKill

\* What a change of the child, or of who holds its pipes, leaves.
LEMMA ChildFacts ==
  ASSUME proc \in [Commands -> Process], NEW c \in Commands, NEW child
  PROVE  LET new == [proc EXCEPT ![c].child = child] IN
         /\ \A p \in Commands \ {c} : new[p] = proc[p]
         /\ new[c].child = child
         /\ new[c].signal = proc[c].signal
BY DEF Process

LEMMA HeldFacts ==
  ASSUME proc \in [Commands -> Process], NEW c \in Commands, NEW held,
         NEW p \in Commands
  PROVE  LET new == [proc EXCEPT ![c].held = held] IN
         new[p].child = proc[p].child /\ new[p].signal = proc[p].signal
BY DEF Process

\* No step but the start of process p takes anything of it back.
LEMMA ProcessMoves ==
  ASSUME IInv, [Next]_vars, NEW p \in Commands
  PROVE  Steady(p) \/ (Spawn(p) /\ Goes(p, "spawning"))
<1>0. proc \in [Commands -> Process] /\ cmd \in [Commands -> Command]
  BY DEF IInv, JobInv, TaskInv
<1>1. ASSUME proc'[p].child = proc[p].child,
             \/ proc'[p].signal = proc[p].signal
             \/ /\ proc'[p].signal # "none"
                /\ SentKill(p) => proc'[p].signal = "SIGKILL"
      PROVE  Steady(p)
  BY <1>1 DEF Steady, Exited, SentKill
<1>2. ASSUME proc' = proc PROVE Steady(p)
  BY <1>1, <1>2
<1>3. ASSUME NEW c \in Commands, NEW sig \in {"SIGTERM", "SIGKILL", "child"},
             proc' = Signaled(c, sig)
      PROVE  Steady(p)
  BY <1>0, <1>1, <1>3, SignaledFacts
<1>4. ASSUME NEW c \in Commands, NEW child \in {"zombie", "reaped", "ended"},
             Exited(c) \/ proc[c].child = "alive",
             proc' = [proc EXCEPT ![c].child = child]
      PROVE  Steady(p)
  <2>1. CASE p = c
    BY <1>0, <1>4, <2>1, ChildFacts DEF Steady, Exited, SentKill
  <2>2. CASE p # c
    BY <1>0, <1>1, <1>4, <2>2, ChildFacts
  <2>3. QED
    BY <2>1, <2>2
<1>5. ASSUME NEW c \in Commands,
             ChildEnds(c) \/ WatcherReaps(c) \/ ReturncodeSet(c) \/ SeeExit(c)
      PROVE  Steady(p)
  <2>1. PICK child \in {"zombie", "reaped", "ended"} : proc' = [proc EXCEPT ![c].child = child]
    BY <1>5, Zenon DEF ChildEnds, WatcherReaps, ReturncodeSet, SeeExit
  <2>2. Exited(c) \/ proc[c].child = "alive"
    BY <1>5 DEF ChildEnds, WatcherReaps, ReturncodeSet, SeeExit, Exited
  <2>3. QED
    BY <1>4, <2>1, <2>2
<1>6. ASSUME NEW c \in Commands, Forks(c) \/ OthersEnd(c) PROVE Steady(p)
  <2>1. PICK held \in BOOLEAN : proc' = [proc EXCEPT ![c].held = held]
    BY <1>6 DEF Forks, OthersEnd
  <2>2. QED
    BY <1>0, <1>1, <2>1, HeldFacts
<1>7. ASSUME NEW c \in Commands, TimeOut(c) PROVE Steady(p)
  BY <1>2, <1>3, <1>7 DEF TimeOut
<1>8. ASSUME NEW c \in Commands, InterruptRunning(c) \/ KillAfter(c) PROVE Steady(p)
  <2>1. PICK sig \in {"SIGTERM", "SIGKILL"} : proc' = Signaled(Target(c), sig)
    BY <1>0, <1>8 DEF InterruptRunning, KillAfter, Command
  <2>2. CASE Target(c) \in Commands
    BY <1>3, <2>1, <2>2
  <2>3. CASE Target(c) \notin Commands
    <3>1. proc' = proc
      BY <1>0, <2>1, <2>3 DEF Signaled
    <3>2. QED
      BY <1>2, <3>1
  <2>4. QED
    BY <2>2, <2>3
<1>9. ASSUME NEW c \in Commands, Spawn(c)
      PROVE  Steady(p) \/ (Spawn(p) /\ Goes(p, "spawning"))
  <2>1. CASE UNCHANGED proc
    BY <1>2, <2>1
  <2>2. CASE proc' = [proc EXCEPT ![c].child = "alive"] /\ Goes(c, "spawning")
    <3>1. CASE p = c
      BY <1>9, <2>2, <3>1
    <3>2. CASE p # c
      BY <1>0, <1>1, <2>2, <3>2, ChildFacts
    <3>3. QED
      BY <3>1, <3>2
  <2>3. QED
    BY <1>9, <2>1, <2>2 DEF Spawn
<1>10. CASE Disconnect
  <2>1. CASE KilledBy(cmd[p].pc) = "none"
    BY <1>1, <1>10, <2>1 DEF Disconnect
  <2>2. CASE KilledBy(cmd[p].pc) # "none"
    <3>1. KilledBy(cmd[p].pc) \in {"SIGKILL", "child"}
      BY <2>2 DEF KilledBy
    <3>2. proc'[p] = Signaled(p, KilledBy(cmd[p].pc))[p]
      BY <1>10, <2>2 DEF Disconnect
    <3>3. QED
      BY <1>0, <1>1, <3>1, <3>2, SignaledFacts
  <2>3. QED
    BY <2>1, <2>2
<1>11. ASSUME NEW c \in Commands,
              \/ Receive(c) \/ ExecuteAtOnce(c) \/ RefuseJob(c) \/ Spawned(c) \/ Drained(c)
              \/ InterruptEnded(c) \/ GiveUp(c) \/ CleanedUp(c) \/ WatchProcess(c)
       PROVE  Steady(p)
  BY <1>2, <1>11 DEF Receive, ExecuteAtOnce, RefuseJob, Spawned, Drained, InterruptEnded, GiveUp,
                     CleanedUp, WatchProcess
<1>12. CASE Connect \/ Gathered \/ UNCHANGED vars
  BY <1>2, <1>12 DEF Connect, Gathered, vars
<1>13. QED
  BY <1>5, <1>6, <1>7, <1>8, <1>9, <1>10, <1>11, <1>12 DEF Next, Task

\* What is known of a task stays true while the task does not move.
LEMMA KnownStays ==
  ASSUME IInv, OwnInv, [Next]_vars, NEW d \in Commands, cmd'[d] = cmd[d], Steady(d),
         \A p \in Commands : SentKill(p) => SentKill(p)'
  PROVE  ProcessKnown(d)' /\ TargetKnown(d)'
<1>1. ProcessKnown(d) /\ TargetKnown(d) /\ Target(d) \in Commands \cup {0}
  BY DEF OwnInv, IInv, TaskInv, Command, Target
<1>2. ProcessKnown(d)'
  BY <1>1 DEF ProcessKnown, Steady
<1>3. TargetKnown(d)'
  BY <1>1 DEF TargetKnown, Interrupting, Target
<1>4. QED
  BY <1>2, <1>3

\* What is known of a task that moves, but neither starts a process nor
\* interrupts a job with the move.
LEMMA KnownMoves ==
  ASSUME IInv, OwnInv, NEW c \in Commands, Steady(c),
         \A p \in Commands : SentKill(p) => SentKill(p)',
         cmd'[c].kind = cmd[c].kind, cmd'[c].target = cmd[c].target,
         cmd[c].pc \notin {"new", "queued"},
         cmd'[c].pc \notin {"new", "queued", "grace", "last"},
         cmd'[c].pc \in {"terminating", "cancelling"} => proc'[c].signal # "none",
         cmd'[c].pc = "killing" => SentKill(c)',
         cmd'[c].pc = "draining" \/ (cmd'[c].pc = "answered" /\ cmd[c].kind = "run") =>
           Exited(c)' \/ SentKill(c)',
         cmd'[c].result = "running" =>
           cmd'[c].pc = "answered" /\ (cmd[c].pc = "last" \/ cmd[c].result = "running")
  PROVE  ProcessKnown(c)' /\ TargetKnown(c)'
<1>1. ProcessKnown(c) /\ TargetKnown(c) /\ Target(c) \in Commands \cup {0}
  BY DEF OwnInv, IInv, TaskInv, Command, Target
<1>2. ProcessKnown(c)'
  BY <1>1 DEF ProcessKnown, Steady
<1>3. TargetKnown(c)'
  BY <1>1 DEF TargetKnown, Interrupting, Target
<1>4. QED
  BY <1>2, <1>3

\* Whose a process is stays so while neither its task nor its job moves.
LEMMA OwnedStays ==
  ASSUME NEW d \in Commands, Owned(d), Steady(d),
         cmd[d].pc \in Running => cmd'[d].pc \in Running \/ job'[d].status = "running",
         job[d].status = "running" => job'[d].status = "running"
  PROVE  Owned(d)'
BY DEF Owned, Steady

\* A command that has not started a process, or cannot start one, owns none.
LEMMA NothingToOwn ==
  ASSUME NEW d \in Commands, proc'[d].child = "none"
  PROVE  Owned(d)'
BY DEF Owned

\* A step of the tasks and the jobs keeps what is known of the others.
LEMMA OthersKnown ==
  ASSUME IInv, OwnInv, [Next]_vars, NEW c \in Commands,
         \A d \in Commands \ {c} : cmd'[d] = cmd[d] /\ job'[d].status = job[d].status,
         Steady(c) \/ (Spawn(c) /\ Goes(c, "spawning"))
  PROVE  /\ \A d \in Commands \ {c} : Steady(d)
         /\ \A p \in Commands : SentKill(p) => SentKill(p)'
         /\ \A d \in Commands \ {c} : ProcessKnown(d)' /\ TargetKnown(d)' /\ Owned(d)'
<1>1. cmd \in [Commands -> Command] /\ proc \in [Commands -> Process]
  BY DEF IInv, TaskInv, JobInv
<1>2. ASSUME NEW d \in Commands \ {c} PROVE Steady(d)
  <2>1. ~(Spawn(d) /\ Goes(d, "spawning"))
    <3>1. Spawn(d) /\ Goes(d, "spawning") => cmd'[d].pc = "spawning" /\ cmd[d].pc = "queued"
      BY <1>1 DEF Spawn, MayRun, Goes
    <3>2. QED
      BY <3>1
  <2>2. QED
    BY <2>1, ProcessMoves
<1>3. ASSUME NEW p \in Commands, SentKill(p) PROVE SentKill(p)'
  <2>1. CASE Steady(p)
    BY <1>3, <2>1 DEF Steady
  <2>2. CASE Spawn(p) /\ Goes(p, "spawning")
    <3>1. proc' = [proc EXCEPT ![p].child = "alive"] \/ UNCHANGED proc
      BY <2>2 DEF Spawn
    <3>2. proc'[p].signal = proc[p].signal
      <4>1. CASE proc' = [proc EXCEPT ![p].child = "alive"]
        BY <1>1, <4>1 DEF Process
      <4>2. QED
        BY <3>1, <4>1
    <3>3. QED
      BY <1>3, <3>2 DEF SentKill
  <2>3. QED
    BY <2>1, <2>2, ProcessMoves
<1>4. ASSUME NEW d \in Commands \ {c} PROVE ProcessKnown(d)' /\ TargetKnown(d)' /\ Owned(d)'
  BY <1>2, <1>3, KnownStays, OwnedStays DEF OwnInv
<1>5. QED
  BY <1>2, <1>3, <1>4

\* What is known over the steps of a task.
LEMMA TaskOwns ==
  ASSUME IInv, OwnInv, [Next]_vars, NEW c \in Commands, Receive(c) \/ Task(c)
  PROVE  OwnInv'
<1>0. /\ cmd \in [Commands -> Command] /\ proc \in [Commands -> Process]
      /\ job \in [Commands -> Job] /\ cmd[c] \in Command
      /\ Target(c) \in Commands \cup {0}
      /\ ProcessKnown(c) /\ TargetKnown(c) /\ Owned(c)
  BY DEF IInv, TaskInv, JobInv, OwnInv, Command, Target
<1>1. Steady(c) \/ (Spawn(c) /\ Goes(c, "spawning"))
  BY ProcessMoves
<1>2. ASSUME NEW d \in Commands \ {c} PROVE cmd'[d] = cmd[d] /\ job'[d].status = job[d].status
  <2>1. cmd'[d] = cmd[d]
    BY <1>0 DEF Receive, Task, ExecuteAtOnce, Spawn, RefuseJob, Spawned, SeeExit, TimeOut, Drained,
           InterruptEnded, InterruptRunning, KillAfter, GiveUp, CleanedUp, Finish, Goes
  <2>2. CASE Spawned(c)
    BY <1>0, <2>1, <2>2 DEF Spawned
  <2>3. CASE InterruptRunning(c)
    BY <1>0, <2>1, <2>3, InterruptedType DEF InterruptRunning
  <2>4. CASE ~Spawned(c) /\ ~InterruptRunning(c)
    BY <2>1, <2>4 DEF Receive, Task, ExecuteAtOnce, Spawn, RefuseJob, SeeExit, TimeOut, Drained,
                      InterruptEnded, KillAfter, GiveUp, CleanedUp
  <2>5. QED
    BY <2>2, <2>3, <2>4
<1>3. /\ \A p \in Commands : SentKill(p) => SentKill(p)'
      /\ \A d \in Commands \ {c} : ProcessKnown(d)' /\ TargetKnown(d)' /\ Owned(d)'
  BY <1>1, <1>2, OthersKnown
<1>4. SUFFICES ProcessKnown(c)' /\ TargetKnown(c)' /\ Owned(c)'
  BY <1>3 DEF OwnInv
<1>5. ASSUME proc'[c].child = "none", cmd'[c].pc # "answered" \/ cmd'[c].kind # "run",
             cmd'[c].pc \notin {"terminating", "cancelling", "killing", "draining"},
             TargetKnown(c)'
      PROVE  ProcessKnown(c)' /\ TargetKnown(c)' /\ Owned(c)'
  BY <1>5, NothingToOwn DEF ProcessKnown
<1>6. CASE Receive(c)
  <2>1. /\ cmd[c].pc = "new" /\ cmd'[c].pc = "queued" /\ cmd'[c].result = "none"
        /\ proc' = proc
    BY <1>0, <1>6 DEF Receive
  <2>2. TargetKnown(c)'
    BY <2>1 DEF TargetKnown, Interrupting
  <2>3. proc'[c].child = "none"
    BY <1>0, <2>1 DEF ProcessKnown
  <2>4. QED
    BY <1>5, <2>1, <2>2, <2>3
<1>7. ASSUME NEW result \in Results, Finish(c, result), UNCHANGED proc,
             proc[c].child = "none", cmd[c].kind # "run",
             result = "running" => cmd[c].pc = "last"
      PROVE  ProcessKnown(c)' /\ TargetKnown(c)' /\ Owned(c)'
  <2>1. /\ cmd'[c].pc = "answered" /\ cmd'[c].result = result
        /\ cmd'[c].kind = cmd[c].kind /\ cmd'[c].target = cmd[c].target
    BY <1>0, <1>7 DEF Finish, Command
  <2>2. TargetKnown(c)'
    BY <1>0, <1>3, <1>7, <2>1 DEF TargetKnown, Interrupting, Target
  <2>3. QED
    BY <1>5, <1>7, <2>1, <2>2
<1>8. CASE ExecuteAtOnce(c) \/ RefuseJob(c)
  <2>1. PICK result \in {"ok", "refused"} : Finish(c, result)
    BY <1>8 DEF ExecuteAtOnce, RefuseJob
  <2>2. proc[c].child = "none" /\ cmd[c].kind # "run" /\ UNCHANGED proc
    BY <1>0, <1>8 DEF ExecuteAtOnce, RefuseJob, MayRun, ProcessKnown
  <2>3. QED
    BY <1>7, <2>1, <2>2 DEF Results
<1>9. CASE Spawn(c)
  <2>1. cmd[c].pc = "queued" /\ cmd[c].kind \in {"run", "start"} /\ proc[c].child = "none"
    BY <1>0, <1>9 DEF Spawn, MayRun, ProcessKnown
  <2>2. cmd[c].result # "running"
    BY <1>0, <2>1 DEF TargetKnown
  <2>3. CASE proc' = [proc EXCEPT ![c].child = "alive"] /\ Goes(c, "spawning")
    <3>1. /\ cmd'[c].pc = "spawning" /\ cmd'[c].kind = cmd[c].kind
          /\ cmd'[c].result = cmd[c].result
      BY <1>0, <2>3 DEF Goes, Command
    <3>2. ProcessKnown(c)' /\ TargetKnown(c)'
      BY <2>1, <2>2, <3>1 DEF ProcessKnown, TargetKnown, Interrupting
    <3>3. Owned(c)'
      BY <3>1 DEF Owned, Running
    <3>4. QED
      BY <3>2, <3>3
  <2>4. CASE cmd' = [cmd EXCEPT ![c].pc = "lost"] /\ UNCHANGED proc
    <3>1. cmd'[c].pc = "lost" /\ cmd'[c].result = cmd[c].result
      BY <1>0, <2>4 DEF Command
    <3>2. TargetKnown(c)'
      BY <2>2, <3>1 DEF TargetKnown, Interrupting
    <3>3. QED
      BY <1>5, <2>1, <2>4, <3>1, <3>2
  <2>5. QED
    BY <1>9, <2>3, <2>4 DEF Spawn
<1>10. ASSUME ~Spawn(c) PROVE Steady(c)
  BY <1>1, <1>10
<1>11. CASE Spawned(c)
  <2>1. cmd[c].pc = "spawning" /\ UNCHANGED proc /\ ~Spawn(c)
    BY <1>11 DEF Spawned, Spawn, MayRun
  <2>2. cmd[c].result # "running"
    BY <1>0, <2>1 DEF TargetKnown
  <2>3. CASE cmd[c].kind = "start"
    <3>1. /\ cmd'[c].pc = "answered" /\ cmd'[c].result = "started"
          /\ cmd'[c].kind = cmd[c].kind /\ cmd'[c].target = cmd[c].target
      BY <1>0, <1>11, <2>3 DEF Spawned, Finish, Command
    <3>2. ProcessKnown(c)' /\ TargetKnown(c)'
      BY <1>3, <1>10, <2>1, <2>3, <3>1, KnownMoves
    <3>3. job'[c].status = "running"
      BY <1>0, <1>11, <2>3, StatusType, ZenonT(30) DEF Spawned
    <3>4. QED
      BY <3>2, <3>3 DEF Owned
  <2>4. CASE cmd[c].kind # "start"
    <3>1. /\ cmd'[c].pc = "running" /\ cmd'[c].result = cmd[c].result
          /\ cmd'[c].kind = cmd[c].kind /\ cmd'[c].target = cmd[c].target
      BY <1>0, <1>11, <2>4 DEF Spawned, Goes, Command
    <3>2. ProcessKnown(c)' /\ TargetKnown(c)'
      BY <1>3, <1>10, <2>1, <2>2, <3>1, KnownMoves
    <3>3. QED
      BY <3>1, <3>2 DEF Owned, Running
  <2>5. QED
    BY <2>3, <2>4
<1>12. CASE SeeExit(c)
  <2>1. /\ cmd[c].pc \in {"running", "terminating", "killing"} /\ ~Spawn(c)
        /\ proc' = [proc EXCEPT ![c].child = "ended"]
    BY <1>12 DEF SeeExit, Collecting, Spawn, MayRun
  <2>2. PICK result \in {"timed_out", "no_exit", "exit"} :
          cmd' = [cmd EXCEPT ![c].pc = "draining", ![c].result = result]
    BY <1>12 DEF SeeExit
  <2>3. /\ cmd'[c].pc = "draining" /\ cmd'[c].result = result
        /\ cmd'[c].kind = cmd[c].kind /\ cmd'[c].target = cmd[c].target
    BY <1>0, <2>2 DEF Command
  <2>4. proc'[c].child = "ended"
    BY <1>0, <2>1, ChildFacts
  <2>5. ProcessKnown(c)' /\ TargetKnown(c)'
    BY <1>3, <1>10, <2>1, <2>3, <2>4, KnownMoves DEF Exited
  <2>6. QED
    BY <2>4, <2>5 DEF Owned
<1>13. CASE TimeOut(c)
  <2>1. cmd[c].pc \in {"running", "terminating", "killing"} /\ ~Spawn(c)
    BY <1>13 DEF TimeOut, Collecting, Spawn, MayRun
  <2>2. /\ cmd'[c].pc = Escalates(cmd[c].pc) /\ cmd'[c].result = "timed_out"
        /\ cmd'[c].kind = cmd[c].kind /\ cmd'[c].target = cmd[c].target
    BY <1>0, <1>13 DEF TimeOut, Command
  <2>3. /\ cmd'[c].pc \in {"terminating", "killing", "draining"}
        /\ cmd'[c].pc = "terminating" => cmd[c].pc = "running"
        /\ cmd'[c].pc = "killing" => cmd[c].pc = "terminating"
        /\ cmd'[c].pc = "draining" => cmd[c].pc = "killing"
    BY <2>1, <2>2 DEF Escalates
  <2>4. cmd'[c].pc = "terminating" => proc'[c].signal # "none"
    <3>1. ASSUME cmd'[c].pc = "terminating" PROVE proc' = Signaled(c, "SIGTERM")
      BY <1>13, <2>2, <2>3, <3>1 DEF TimeOut
    <3>2. QED
      BY <1>0, <3>1, SignaledFacts
  <2>5. cmd'[c].pc = "killing" => SentKill(c)'
    <3>1. ASSUME cmd'[c].pc = "killing" PROVE proc' = Signaled(c, "SIGKILL")
      BY <1>13, <2>2, <2>3, <3>1 DEF TimeOut
    <3>2. QED
      BY <1>0, <3>1, SignaledFacts DEF SentKill
  <2>6. cmd'[c].pc = "draining" => SentKill(c)'
    BY <1>0, <1>3, <2>3 DEF ProcessKnown
  <2>7. ProcessKnown(c)' /\ TargetKnown(c)'
    BY <1>3, <1>10, <2>1, <2>2, <2>3, <2>4, <2>5, <2>6, KnownMoves
  <2>8. QED
    BY <2>3, <2>7 DEF Owned, Running
<1>14. CASE Drained(c)
  <2>1. cmd[c].pc = "draining" /\ UNCHANGED proc /\ ~Spawn(c)
    BY <1>14 DEF Drained, Spawn, MayRun
  <2>2. /\ cmd'[c].pc = "answered" /\ cmd'[c].result = cmd[c].result
        /\ cmd'[c].kind = cmd[c].kind /\ cmd'[c].target = cmd[c].target
    BY <1>0, <1>14 DEF Drained, Finish, Command
  <2>3. Exited(c) \/ SentKill(c)
    BY <1>0, <2>1 DEF ProcessKnown
  <2>4. ProcessKnown(c)' /\ TargetKnown(c)'
    BY <1>3, <1>10, <2>1, <2>2, <2>3, KnownMoves DEF Steady
  <2>5. QED
    BY <2>1, <2>3, <2>4 DEF Owned, Exited, SentKill
<1>15. CASE InterruptEnded(c)
  <2>1. cmd[c].kind = "interrupt" /\ UNCHANGED proc
    BY <1>0, <1>15 DEF InterruptEnded, TargetKnown
  <2>2. proc[c].child = "none"
    BY <1>0, <2>1 DEF ProcessKnown
  <2>3. PICK result \in {"none", "not_found", "exited", "interrupted"} : Finish(c, result)
    BY <1>0, <1>15 DEF InterruptEnded, Job
  <2>4. QED
    BY <1>7, <2>1, <2>2, <2>3 DEF Results
<1>16. CASE InterruptRunning(c)
  <2>1. /\ cmd[c].pc = "queued" /\ cmd[c].kind = "interrupt" /\ Target(c) \in Commands
        /\ proc' = Signaled(Target(c), cmd[c].signal)
    BY <1>0, <1>16 DEF InterruptRunning, MayRun
  <2>2. proc[c].child = "none" /\ cmd[c].result # "running"
    BY <1>0, <2>1 DEF ProcessKnown, TargetKnown
  <2>3. /\ cmd'[c].pc = IF cmd[c].signal = "SIGTERM" THEN "grace" ELSE "last"
        /\ cmd'[c].kind = cmd[c].kind /\ cmd'[c].target = cmd[c].target
        /\ cmd'[c].result = cmd[c].result
    BY <1>0, <1>16 DEF InterruptRunning, Goes, Command
  <2>4. cmd[c].signal \in {"SIGTERM", "SIGKILL"}
    BY <1>0 DEF Command
  <2>5. proc'[c].child = "none" /\ (cmd'[c].pc = "last" => SentKill(Target(c))')
    BY <1>0, <2>1, <2>2, <2>3, <2>4, SignaledFacts DEF SentKill, Target
  <2>6. TargetKnown(c)'
    BY <2>1, <2>2, <2>3, <2>5, CommandsAreNumbers DEF TargetKnown, Interrupting, Target
  <2>7. QED
    BY <1>5, <2>3, <2>5, <2>6
<1>17. CASE KillAfter(c)
  <2>1. /\ cmd[c].pc = "grace" /\ proc' = Signaled(Target(c), "SIGKILL")
        /\ cmd[c].kind = "interrupt" /\ Target(c) \in Commands
        /\ cmd[c].result # "running"
    BY <1>0, <1>17 DEF KillAfter, TargetKnown, Interrupting
  <2>2. proc[c].child = "none"
    BY <1>0, <2>1 DEF ProcessKnown
  <2>3. /\ cmd'[c].pc = "last"
        /\ cmd'[c].kind = cmd[c].kind /\ cmd'[c].target = cmd[c].target
        /\ cmd'[c].result = cmd[c].result
    BY <1>0, <1>17 DEF KillAfter, Goes, Command
  <2>4. proc'[c].child = "none" /\ SentKill(Target(c))'
    BY <1>0, <2>1, <2>2, <2>3, SignaledFacts DEF SentKill, Target
  <2>5. TargetKnown(c)'
    BY <2>1, <2>3, <2>4, CommandsAreNumbers DEF TargetKnown, Interrupting, Target
  <2>6. QED
    BY <1>5, <2>3, <2>4, <2>5
<1>18. CASE GiveUp(c)
  <2>1. cmd[c].pc = "last" /\ cmd[c].kind = "interrupt" /\ UNCHANGED proc
        /\ Finish(c, "running")
    BY <1>0, <1>18 DEF GiveUp, TargetKnown, Interrupting
  <2>2. proc[c].child = "none"
    BY <1>0, <2>1 DEF ProcessKnown
  <2>3. QED
    BY <1>7, <2>1, <2>2 DEF Results
<1>19. CASE CleanedUp(c)
  <2>1. /\ cmd[c].pc \in {"cancelling", "abandoning"} /\ UNCHANGED proc /\ ~Spawn(c)
        /\ cmd[c].pc = "abandoning" => proc[c].child = "ended"
    BY <1>19 DEF CleanedUp, Spawn, MayRun
  <2>2. /\ cmd'[c].pc = "lost" /\ cmd'[c].result = cmd[c].result
        /\ cmd'[c].kind = cmd[c].kind /\ cmd'[c].target = cmd[c].target
    BY <1>0, <1>19 DEF CleanedUp, Command
  <2>3. cmd[c].result # "running"
    BY <1>0, <2>1 DEF TargetKnown
  <2>4. ProcessKnown(c)' /\ TargetKnown(c)'
    BY <1>3, <1>10, <2>1, <2>2, <2>3, KnownMoves
  <2>5. proc[c].signal # "none" \/ proc[c].child = "ended"
    BY <1>0, <2>1 DEF ProcessKnown
  <2>6. QED
    BY <2>1, <2>4, <2>5 DEF Owned
<1>20. QED
  BY <1>6, <1>8, <1>9, <1>11, <1>12, <1>13, <1>14, <1>15, <1>16, <1>17, <1>18, <1>19 DEF Task

\* What is known over a lost connection: every task is cancelled where it is.
LEMMA DisconnectOwns ==
  ASSUME IInv, OwnInv, [Next]_vars, Disconnect
  PROVE  OwnInv'
<1>0. cmd \in [Commands -> Command] /\ proc \in [Commands -> Process] /\ UNCHANGED job
  BY DEF IInv, TaskInv, JobInv, Disconnect
<1>1. \A c \in Commands :
        /\ cmd'[c].pc = Cancelled(cmd[c].pc) /\ cmd'[c].result = cmd[c].result
        /\ cmd'[c].kind = cmd[c].kind /\ cmd'[c].target = cmd[c].target
  BY <1>0 DEF Disconnect, Command
<1>2. ASSUME NEW p \in Commands PROVE Steady(p)
  <2>1. ~(Spawn(p) /\ Goes(p, "spawning"))
    <3>1. Goes(p, "spawning") => cmd'[p].pc = "spawning"
      BY <1>0 DEF Goes
    <3>2. Cancelled(cmd[p].pc) # "spawning"
      BY DEF Cancelled
    <3>3. QED
      BY <1>1, <3>1, <3>2
  <2>2. QED
    BY <2>1, ProcessMoves
<1>3. \A p \in Commands : SentKill(p) => SentKill(p)'
  BY <1>2 DEF Steady
<1>4. SUFFICES ASSUME NEW c \in Commands
               PROVE  ProcessKnown(c)' /\ TargetKnown(c)' /\ Owned(c)'
  BY DEF OwnInv
<1>5. ProcessKnown(c) /\ TargetKnown(c) /\ Owned(c) /\ cmd[c].pc \in {"new"} \cup Live \cup Ended
  BY <1>0 DEF OwnInv, Command
<1>6. CASE cmd[c].pc \in {"new", "queued"}
  <2>1. proc'[c].child = "none" /\ cmd'[c].pc \in {"new", "lost"}
    BY <1>1, <1>2, <1>5, <1>6 DEF ProcessKnown, Steady, Cancelled
  <2>2. cmd'[c].result # "running"
    BY <1>1, <1>5, <1>6 DEF TargetKnown
  <2>3. QED
    BY <2>1, <2>2, NothingToOwn DEF ProcessKnown, TargetKnown, Interrupting
<1>7. CASE cmd[c].pc \in {"running", "terminating", "killing"}
  <2>1. cmd'[c].pc = "cancelling" /\ cmd[c].result # "running"
    BY <1>1, <1>5, <1>7 DEF Cancelled, TargetKnown
  <2>2. proc'[c].signal # "none"
    <3>1. CASE cmd[c].pc = "running"
      <4>1. proc'[c] = Signaled(c, "SIGKILL")[c]
        BY <3>1 DEF Disconnect, KilledBy
      <4>2. QED
        BY <1>0, <4>1, SignaledFacts
    <3>2. CASE cmd[c].pc # "running"
      BY <1>2, <1>5, <1>7, <3>2 DEF ProcessKnown, SentKill, Steady
    <3>3. QED
      BY <3>1, <3>2
  <2>3. ProcessKnown(c)' /\ TargetKnown(c)'
    BY <1>1, <1>2, <1>3, <1>7, <2>1, <2>2, KnownMoves
  <2>4. QED
    BY <2>2, <2>3 DEF Owned
<1>8. CASE cmd[c].pc = "spawning"
  <2>1. cmd'[c].pc = "abandoning" /\ cmd[c].result # "running"
    BY <1>1, <1>5, <1>8 DEF Cancelled, TargetKnown
  <2>2. ProcessKnown(c)' /\ TargetKnown(c)'
    BY <1>1, <1>2, <1>3, <1>8, <2>1, KnownMoves
  <2>3. QED
    BY <2>1, <2>2 DEF Owned, Running
<1>9. CASE cmd[c].pc = "draining"
  <2>1. cmd'[c].pc = "lost" /\ cmd[c].result # "running"
    BY <1>1, <1>5, <1>9 DEF Cancelled, TargetKnown
  <2>2. ProcessKnown(c)' /\ TargetKnown(c)'
    BY <1>1, <1>2, <1>3, <1>9, <2>1, KnownMoves
  <2>3. Exited(c)' \/ SentKill(c)'
    BY <1>2, <1>5, <1>9 DEF ProcessKnown, Steady
  <2>4. QED
    BY <2>2, <2>3 DEF Owned, Exited, SentKill
<1>10. CASE cmd[c].pc \in {"grace", "last"}
  <2>1. cmd'[c].pc = "lost" /\ cmd[c].result # "running" /\ cmd[c].kind = "interrupt"
    BY <1>1, <1>5, <1>10 DEF Cancelled, TargetKnown, Interrupting
  <2>2. ProcessKnown(c)' /\ TargetKnown(c)'
    BY <1>1, <1>2, <1>3, <1>10, <2>1, KnownMoves
  <2>3. proc'[c].child = "none"
    BY <1>2, <1>5, <2>1 DEF ProcessKnown, Steady
  <2>4. QED
    BY <2>2, <2>3, NothingToOwn
<1>11. CASE cmd[c].pc \in {"cancelling", "abandoning", "answered", "lost"}
  <2>1. cmd'[c].pc = cmd[c].pc
    BY <1>1, <1>11 DEF Cancelled
  <2>2. ProcessKnown(c)'
    BY <1>1, <1>2, <1>5, <2>1 DEF ProcessKnown, Steady
  <2>3. Target(c) \in Commands \cup {0}
    BY <1>0 DEF Command, Target
  <2>4. TargetKnown(c)'
    BY <1>1, <1>3, <1>5, <2>1, <2>3 DEF TargetKnown, Interrupting, Target
  <2>5. QED
    BY <1>0, <1>2, <1>5, <2>1, <2>2, <2>4, OwnedStays
<1>12. QED
  BY <1>5, <1>6, <1>7, <1>8, <1>9, <1>10, <1>11 DEF Live, Running, Ended

\* What is known over the steps in which no task moves.
LEMMA OtherwiseOwns ==
  ASSUME IInv, OwnInv, [Next]_vars, UNCHANGED cmd,
         \A j \in Commands : job'[j].status = job[j].status \/ WatchProcess(j)
  PROVE  OwnInv'
<1>0. cmd \in [Commands -> Command] /\ proc \in [Commands -> Process]
  BY DEF IInv, TaskInv, JobInv
<1>1. ASSUME NEW p \in Commands PROVE Steady(p)
  <2>1. Goes(p, "spawning") => cmd'[p].pc = "spawning"
    BY <1>0 DEF Goes
  <2>2. Spawn(p) => cmd[p].pc = "queued"
    BY DEF Spawn, MayRun
  <2>3. QED
    BY <2>1, <2>2, ProcessMoves
<1>2. \A p \in Commands : SentKill(p) => SentKill(p)'
  BY <1>1 DEF Steady
<1>3. ASSUME NEW c \in Commands PROVE Owned(c)'
  <2>1. CASE job'[c].status = job[c].status
    BY <1>1, <2>1, OwnedStays DEF OwnInv
  <2>2. CASE WatchProcess(c)
    BY <2>2 DEF WatchProcess, Owned
  <2>3. QED
    BY <2>1, <2>2
<1>4. QED
  BY <1>1, <1>2, <1>3, KnownStays DEF OwnInv

\* OwnInv is inductive relative to IInv, ...
LEMMA NextOwnInv ==
  ASSUME IInv, OwnInv, [Next]_vars
  PROVE  OwnInv'
<1>1. ASSUME NEW c \in Commands, Receive(c) \/ Task(c) PROVE OwnInv'
  BY <1>1, TaskOwns
<1>2. CASE Disconnect
  BY <1>2, DisconnectOwns
<1>3. ASSUME NEW c \in Commands, WatchProcess(c) PROVE OwnInv'
  <2>1. UNCHANGED cmd /\ \A j \in Commands \ {c} : job'[j] = job[j]
    BY <1>3 DEF WatchProcess, IInv, JobInv
  <2>2. QED
    BY <1>3, <2>1, OtherwiseOwns
<1>4. ASSUME NEW c \in Commands,
             Forks(c) \/ ChildEnds(c) \/ OthersEnd(c) \/ WatcherReaps(c) \/ ReturncodeSet(c)
      PROVE  OwnInv'
  <2>1. UNCHANGED <<cmd, job>>
    BY <1>4 DEF Forks, ChildEnds, OthersEnd, WatcherReaps, ReturncodeSet
  <2>2. QED
    BY <2>1, OtherwiseOwns
<1>5. CASE Connect \/ Gathered \/ UNCHANGED vars
  <2>1. UNCHANGED <<cmd, job>>
    BY <1>5 DEF Connect, Gathered, vars
  <2>2. QED
    BY <2>1, OtherwiseOwns
<1>6. QED
  BY <1>1, <1>2, <1>3, <1>4, <1>5 DEF Next

\* ... and both always hold.
LEMMA OwnInductive == Spec => [](IInv /\ OwnInv)
<1>1. Init => OwnInv
  <2>1. ASSUME Init, NEW c \in Commands
        PROVE  /\ cmd[c].pc = "new" /\ cmd[c].result = "none"
               /\ proc[c].child = "none"
    BY <2>1 DEF Init
  <2>2. ASSUME Init, NEW c \in Commands PROVE ProcessKnown(c) /\ TargetKnown(c) /\ Owned(c)
    BY <2>1, <2>2 DEF ProcessKnown, TargetKnown, Interrupting, Owned
  <2>3. QED
    BY <2>2 DEF OwnInv
<1>2. IInv /\ OwnInv /\ [Next]_vars => OwnInv'
  BY NextOwnInv
<1>3. QED
  BY <1>1, <1>2, Inductive, PTL DEF Spec

(* A process that nobody asked to end is that of a command that still      *)
(* executes or of a job in JOBS that runs: no lost connection, timeout or   *)
(* cancellation leaves one behind (collect_process, connect_once).          *)
THEOREM NoProcessIsLeft == Spec => []ProcessesAreOwned
<1>1. OwnInv => ProcessesAreOwned
  BY DEF OwnInv, Owned, ProcessesAreOwned
<1>2. QED
  BY <1>1, OwnInductive, PTL

(* The child of a run command that was answered, and the job of an          *)
(* interrupt that was answered while it runs, has ended or has been sent    *)
(* SIGKILL (collect_process, interrupt_job).                                *)
THEOREM AnswersMeanOver == Spec => []AnswerMeansOver
<1>1. OwnInv => AnswerMeansOver
  BY DEF OwnInv, ProcessKnown, TargetKnown, SentKill, AnswerMeansOver
<1>2. QED
  BY <1>1, OwnInductive, PTL
=============================================================================
