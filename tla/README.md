# Agent Colab Bridge in TLA+

A bridge lets a coding agent on a laptop use a Colab runtime. The agent talks
to a local MCP server, the MCP server posts commands to a Cloudflare Worker,
the Worker hands them to the Durable Object of the session, and the Durable
Object sends them over a WebSocket to a Python runner in the Colab runtime. Any
of the five may stop, be replaced or be evicted while a command is under way,
and what the controller is told about that command must still be true.

This directory holds the TLA+ specification of that system, the TLC
configurations that check it, and the theorems about it that TLAPS proves.
Paths below are relative to the repository, so `src/worker.ts` is the file that
`PROJECT.json` calls `src/src/worker.ts`.

    tlc -workers 2 -config SessionConnections.cfg MCSessionObject.tla
    tlc -workers 2 -config JobLogFollow.cfg JobLog.tla
    tlc -workers 2 -config McpScripts.cfg McpServer.tla
    tlc -workers 2 -config RunnerCommands.cfg RunnerCommands.tla
    tlc -workers 2 -config RequestAuth.cfg RequestAuth.tla
    tlc -workers 2 -config RowStorage.cfg RowStorage.tla
    tlc -workers 2 -config FakeRunner.cfg FakeRunner.tla
    tlapm SessionBrokerProofs.tla
    tlapm NaturalFacts.tla
    tlapm SessionObjectProofs.tla
    tlapm SessionCommandsProofs.tla
    tlapm RunnerCommandsProofs.tla
    tlapm RequestAuthProofs.tla
    tlapm JobLogProofs.tla
    tlapm McpServerProofs.tla

`PROJECT.json` names the module of every configuration, and for every
definition that stands for code the lines it stands for.

## 1. Inventory

| Component | State | Operations | Talks to |
|---|---|---|---|
| Session broker (`src/broker.ts`, `src/protocol.ts`) | session, command, job and audit rows; map of runner handlers; failed-authentication counters | createSession, getStatus, revoke, attachRunner, restoreRunnerConnection, recordRunnerActivity, markRunnerDisconnected, createCommand, acknowledge, applyRunnerResult, getCommandResult | called by the Durable Object and the HTTP routes; calls the runner handler and awaits it |
| Durable Object (`src/worker.ts`) | the broker in memory; remembered socket; pending results with timers; Durable Object storage; hibernatable sockets with attachments | fetch, webSocketMessage (heartbeat, ACK, result), webSocketClose, webSocketError, timers, loadPersistedState, persistState, restoreAcceptedRunnerSocket | Worker routes, runner WebSockets, storage |
| Authentication and nonces (`src/auth.ts`, `src/broker.ts`, `src/worker.ts`) | nonces seen, rejected attempts per minute | requireController, requireRunner, nonce retention and cap | every request of the two sides |
| HTTP routes (`src/http.ts`) | none | parse, dispatch, map errors | broker |
| MCP server (`src/mcp-server.ts`, `src/mcp.ts`) | cached bridge configuration, operation log | tools/list, tools/call, batches, setup, reconnect, recreate and stop operations | MCP client of the agent; HTTP to the Worker; child scripts |
| MCP client, configuration (`src/mcp-client.ts`, `src/mcp-config.ts`) | configuration file | one POST per tool call, no retries; search for the file | Worker |
| Colab runner (`python/colab_runner.py`) | one connection, a task per command, serial lock, jobs, one active job, a log ring per job | connect, heartbeat, acknowledge, execute, start/status/tail/interrupt of jobs, reconnect after 5 s | Durable Object; child processes |
| Fake runner (`src/fake-runner.ts`), the runner the tests put behind the broker | jobs with a log ring each, the active job, foreground runs, project files | handle (start, status, tail and interrupt of jobs, run_shell and run_python, write_file and read_file) | broker, which calls it for each command as it comes; child processes, files |
| Lifecycle scripts (`scripts/setup-all.mjs`, `recreate-runtime.mjs`, `reconnect-runner.mjs`, `colab-reconnect-runner.py`, `stop-runtime.mjs`, `bootstrap-colab.mjs`) | configuration file, deployed Worker, Colab runtime, runner process | sequences of the above that may stop after any step | colab CLI, wrangler, Worker |
| Doctor, smoke test, packaging, plugin copy | none | read-only checks, file copies | |

What is hard in each, and what makes it correct:

- **Broker and Durable Object.** One session, many actors: the controller that
  repeats a POST, the deadline timer, the results and ACKs of a runner, the late
  close of a socket that was replaced, a second runner instance, an eviction
  that loses the memory but neither the storage nor the sockets. Correct means:
  a command goes out at most once and only after it is stored; what the
  controller was told is what the storage holds and stays so; only the current
  instance decides a command; commands are routed to the current instance's
  socket; no job of a replaced instance is reported as running; every request
  gets an answer.
- **Colab runner, jobs.** Two streams and a watcher write what a follower reads
  by cursor out of a bounded ring. Correct means: the ring is bounded, no gap in
  the cursors goes unannounced, "ended and not truncated" means that nothing
  more will come, and a follower gets there.
- **Colab runner, commands.** One task per command under a serial lock, all
  cancelled when the connection goes; processes with groups and pipes of their
  own, which may ignore SIGTERM or leave descendants; a watcher thread that
  waits for the same children. Correct means: one command at a time over all
  connections, one job at a time, no process that nobody owns, an answer only
  when what it says is true, and every task ends.
- **Authentication and nonces.** Nonces are forgotten by age and by number, and
  live in rows and an index that several requests write at once. Correct means:
  no request is admitted twice, also across an eviction; a client that keeps
  failing is throttled and let in again.
- **Rows in storage.** Rows and the index that names them are put by several
  requests at once; audit rows make room for newer ones; a snapshot of an older
  version becomes rows when an object first loads it, and the object may go at
  any moment of that. Correct means: what was answered is loaded again, the
  snapshot is not lost half way, and memory and storage come to agree.
- **Fake runner.** No serial lock: its commands interleave at every await.
  Correct means: an interrupt is answered, and when it is the job's group is
  gone; a write is whole or absent, and what was answered as written stays.
- **MCP server and scripts.** A configuration that is cached in one process
  and replaced by another; sequences of external commands that stop half way,
  or go on after the process above them was killed. Correct means: after a
  reported setup every call uses the session it made; a configuration never
  names a session that does not exist; no two runner processes serve one
  session; every call is answered.

`PROJECT.json` lists the hazards one by one with the line where each bites and
the properties that would catch it.

## 2. Plan

Done, in this order:

1. `SessionBroker`: the broker's methods as operators on its rows.
2. `SessionObject`: the Durable Object around the broker, the WebSockets, the
   runner as the object sees it, restarts.
3. `CommandLifecycle`: what a session promises of its commands; `SessionObject`
   is shown to implement it.
4. `JobLog`: the log ring of a job, its writers and its follower.
5. `SessionBrokerProofs`, `SessionObjectProofs`: the first four theorems.
6. `LocalScripts` and `McpServer`: the scripts as sequences that may stop
   anywhere, composed with the server that runs them and caches what they write.
7. `RunnerCommands`: the runner's tasks, lock, processes and signals.
8. `RequestAuth`: admission of requests, nonces, and the rows and the index of
   `persistState` as separate writes.
9. `RunnerCommandsProofs`: types, the serial lock, the one running job, the
   owners of processes and what an answer means.
10. `SessionCommandsProofs`: rows, waits, answers and jobs of a session, the two
    action properties, and the refinement of `CommandLifecycle`.
11. `RequestAuthProofs`: admission at most once, and what storage remembers.
12. `McpServerProofs`: the configuration, the bootstrapped session, the runners.
13. `NaturalFacts`, `JobLogProofs`: induction on the natural numbers in a form
    the provers can use, and with it the ring, its markers and its follower, and
    the throttle's list of failures.
14. `RowStorage`: the session, command, job and audit rows of an object, their
    index, and the snapshot of an older version.
15. `ProjectFiles`: `write_file` and `read_file` of the fake runner on one path.
16. `FakeRunner`: its jobs, interrupts and runs, composed with `ProjectFiles`
    into a runner whose commands are all concurrent.

Next: the routes of the Worker that choose the object, and the second side of a
session in `RequestAuth` (the runner's upgrade beside the controller's
requests), would widen what is modelled; `RowStorage`, `FakeRunner` and
`ProjectFiles` are the modules without proofs.

## 3. The modules

### SessionBroker

The broker's methods run without awaiting, so each is an operator from the state
before the call to the state after it. A broker state `b` is a record: the
session row, the command rows by id, the job rows by the id of the `start_job`
command that started the job, and `handler`, the entry of the `runners` map,
named by the socket its closure sends to. Two times are abstracted to what the
code asks of them: `fresh` (the last heartbeat is at most 45 s old) and
`expired`. `createCommand` awaits its handler, so it is three operators:
`CreateCommand` before the await, `ResumeCreateCommand` after a result,
`MarkCommandUnknown` after a rejection. The states `accepted`, `queued` and
`running` are overwritten in the same synchronous run of code and do not appear
as rows; `timed_out`, `canceled` and `expired` are never assigned by the code.
Message ids are left out: a command is dispatched once, so its
`runner_message_id` says no more than its id.

### SessionObject

| TLA+ | Code |
|---|---|
| `broker`, `runnerSocket`, `pending` | fields of `BridgeSessionDurableObject`: `broker`, `runnerSocket`, `pendingRunnerResults`; lost by `Restart` |
| `sending` | the command whose handler awaits `persistState` in `sendCommandToRunnerSocket` |
| `disk` | the row-backed storage; `PersistState` writes what changed |
| `request` | the HTTP request of each command: waiting, answered with a state, or lost with the object |
| `conn`, `inbox`, `task` | each WebSocket's life, what the runner sent on it, how far the runner is with each command it received |
| `process` | the background jobs in the runtime |
| `deliveries`, `restarts` | history and bound |

The handlers are `CreateCommandRequest`, `Query` (a repeated POST and the GETs,
which change what the restore changes), `RevokeRequest`,
`AcceptRunnerWebSocket`, `WebSocketHeartbeat`, `WebSocketAck`,
`WebSocketResult`, `WebSocketClose` and `DeadlinePasses`. `RefusedRequest` is a
request of a controller that the broker turns away on a session that is over:
`fetch` persists after it all the same (`src/worker.ts:257`), which flushes the
rows that a result had changed in memory before it threw. Every one but the
timer and the close begins with `restoreAcceptedRunnerSocket`: when no socket
is remembered, *any* socket that the platform still lists becomes the handler
(`ToRestore`), and on a session that is over the restore throws after it has
remembered the socket (`RejectedEntry`). A result on a session that was revoked
or has expired is applied in memory, `recordRunnerActivity` throws, nothing is
persisted, and the request waits for its timer (`RecordAndPersist`).

The runner side has what the object can tell apart: it acknowledges before it
executes, may fail any command, refuses a second job, may give up waiting for
an interrupted job, cancels what it executes when the connection goes, and a
runner process opens a new connection only when it has given up the last.
Two runner processes, as during a reconnect, may be connected at once. A result
that was sent and never arrived is one that `WebSocketClose` finds in `inbox`.

Platform assumptions, all of Cloudflare's Durable Objects and external to the
repository:

- The input gate is closed while a handler awaits storage, so a handler is one
  step together with the microtasks it releases. The exception is kept: the
  object may be lost while `sendCommandToRunnerSocket` awaits its write.
- `CreateCommandRequest` goes from the restore (`src/worker.ts:226`) to the
  handler's first write in one step. In between the route awaits the body
  (`parseJsonObject`, `src/http.ts:129`), which is no storage and may let
  another event in: that event then comes after this restore and not before it,
  and what it leaves of the handler is what `createCommand` reads.
- A `persistState` is one write. The rows are put before the index
  (`src/worker.ts:345`); an eviction between the two is the subject of
  `RequestAuth` and `RowStorage`.
- `getWebSockets` may still list a socket that the object has closed or that the
  runner has left, until its close is delivered, in any order. Sockets survive
  an eviction.

### CommandLifecycle

The promise: per command a state and an instance, the current instance, and
whether the session is over. A row moves only to `failed` (refused), to
`sent_to_runner` at the current instance, to `runner_acknowledged`, to a
decision by its instance while that is current, or to `unknown`, which a late
result may still decide. `Lifecycle` in `SessionObject` maps it to the rows in
*storage*: that is what a controller can read after any restart.

### JobLog

`JobLogRing.add`, `_compact`, `_add_log_dropped_event` and `tail`, the two
stream readers, the watcher, the mark that `interrupt` sets, and a controller
that follows the log: from `next_cursor`, until the job has ended and the answer is
not truncated. The controller is not in the repository; after `CURSOR_EXPIRED`
this one goes on at `oldest_cursor - 1`, because `tail` returns only events with
a greater cursor (`python/colab_runner.py:167`), and going on at `oldest_cursor`
itself would skip an event that is still there. The fake runner has the same
ring statement by statement (`src/fake-runner.ts:618`); the map names its lines
for the definitions of the ring. An event keeps its cursor, stream and size. A text is split into
pieces that end where the next character has no room (`Pieces`), and a stream
that ends within a character adds its replacement.

The module is written to be reasoned about: `total_bytes` is a sum given by a
recursive function (`Sums`), and the events after a cursor are a suffix of the
ring, since cursors only grow (`AvailableIsFilter` proves that the suffix is what
the filter of `tail` keeps).

### LocalScripts and McpServer

| TLA+ | Code |
|---|---|
| `cache` | `ColabMcpServer.config` |
| `call` | the calls of `tools/call` messages: the configuration a call asks the Worker with, and what it reported |
| `script` | one run of a script per call: the external command it waits for, whether the server has killed it |
| `file` | the configuration file: named by the run that wrote it, missing, or torn |
| `adminSecret`, `created`, `live` | the Worker's secret and the sessions it made, of which some are revoked |
| `vm`, `alive`, `serves`, `pid` | the Colab VM, its runner processes, the session in a process's environment, the pid file |
| `overlapped`, `solo`, `faults` | history and bound |

A script is a sequence of external commands, each a step that may fail with or
without its effect: `setup-all.mjs` configures the Worker, creates a session,
truncates and fills the file, runs the bootstrap; `recreate-runtime.mjs` stops
the VM, whatever that returns, and runs setup-all, which bootstraps always;
`reconnect-runner.mjs` runs a helper on the VM that reads the old runner's
environment, signals the process the pid file names and starts another; it
refuses (`StopExistingRunner`) when the file names a live process that is not
its runner. The
server's timeout sends SIGTERM to the child and to nothing below it
(`src/mcp-server.ts:1791`): the step under way goes on, and what depended on the
killed process does not follow (`Orphaned`). A call ends when nobody holds the
child's pipes (`Closed`); descendants that inherited them keep it open.

`ReceiveMessage` takes one message: the calls of a batch run to their first
await on one configuration before anything else happens. `status` stands for
every tool that asks the Worker, `local` for the doctor, the runtime options and
the Colab CLI queries and transfers, `dry_run` for a dry run of a tool that
clears the cache when it succeeds. A call may be refused for its arguments, or
by the local policy for dangerous tools, which loads the file into the cache.
The prerequisites, the two secrets and the deployment are one step with partial
failure. Every run has an admin secret of its own, as when it is
generated; two runs that are given the same one (`scripts/setup-all.mjs:103`)
would not lock each other out, and are left out. `LaunchRunner` uploads the
runner's configuration, whose path on the VM all runs share, and starts the
runner that reads it in one step: two bootstraps that overlap could start a
runner with the other's configuration, which the properties about runners
exclude anyway, since they speak of runs that nothing overlapped. A runner that
was sent SIGTERM counts as ended in that step: `colab_runner.py` installs no
handler for it, so the moment in which the old runner and the new one are both
up is not seen here. `SessionObject` has both of them connected.
An expired session is a session that is not live; that a live one expires during
a run is not a step. Environment variables that override the file, and
`config` arguments that name another one, are left out.

### RunnerCommands

Commands are numbered in order of arrival; a process and a job have the number
of the command that started them. `lock` is `serial_lock` with its waiters,
`conn` the connection and how many there were, `active` is `ACTIVE_JOB_ID`.
`cmd[c].pc` is where a task awaits: `queued` for the lock, `spawning`,
`running` / `terminating` / `killing` in the three waits of `collect_process`,
`draining` for the streams, `grace` and `last` in the two waits of
`BackgroundJob.interrupt`, `cancelling` and `abandoning` for what is left to do
after `CancelledError`. A child is alive, a zombie, reaped by asyncio's watcher
thread, or ended with its return code set; `Cancelled` and `KilledBy` say where
a lost connection finds a task and which signal, if any, its process still gets.

Abstractions: `read` stands for every command that changes nothing in the
runner, `write` for `write_file`; the answer is sent in the step that finishes
the command, since whether it arrives is `SessionObject`'s matter; who else
holds a process's pipes is kept for jobs only, a foreground command does not wait
for it longer than `FINAL_STREAM_DRAIN_TIMEOUT_SEC`. A process may end at any
time or never, until SIGKILL.

### RequestAuth

The requests of one side of one session. A request is its nonce and the
timestamp it was sent with; it may arrive several times. `Refuse` and `Accept`
are `requireController` and `requireRunner`: throttle, timestamp, token, nonce.
`Reject` is what `src/http.ts` turns away first, which leaves the nonce unused.
Then the request persists: `PutRows` drains the changes of *all* requests and
puts their rows, `DeleteRows` deletes, `PutIndex` writes the index as memory has
it by then, `Answer` answers; `ApplyWrite` makes one issued write durable and
`Evict` loses memory, failure counters and the writes not yet applied. A refused
HTTP request persists as well; a refused runner upgrade does not (`TurnedAway`).
The nonce rows are the ones this module has; the others go the same way through
`drainChanges` and `indexKeys`, and are `RowStorage`'s. `preflightRunnerAuth`
checks what `Refuse` checks and stores nothing, in the same run of code as the
attachment that follows.

Each sender's clock is ahead of the object's by a number of its own, `ahead`,
up to `MaxAhead`, and no relation between that and the windows is assumed: a
clock that is behind sends a timestamp that is late already. `TimesAssumption`
says only `2 * Skew <= Retention` and `Protected <= Retention`; the code has
`Retention = 2 * Skew` and `Protected = Skew` (`src/worker.ts:119`). That is not
enough to remember every nonce: `validateTimestamp` accepts timestamps up to
`Skew` ahead (`src/auth.ts:84`), so that a request may be good for `2 * Skew`
after it was first seen, and beyond the cap a nonce is kept for `Protected`
only. `AcceptedOnce`, what the documents promise, is therefore violated
(`RequestReuse`, section 6). What holds is that nothing else is admitted twice:
`crowdedOut` is the history of the requests whose nonces made room under the
cap, and `CrowdedOut` those of them whose sender's clock is so far ahead that
the timestamp outlives the protection. `AcceptedOnceUnlessCrowdedOut` and
`AnsweredIsRemembered` except those and no others.

Assumption: storage applies writes in the order of issue (Durable Objects').

### RowStorage

| TLA+ | Code |
|---|---|
| `loaded`, `rows`, `audits`, `sequence`, `dirty`, `deleted` | the broker store in memory: the maps, the audit rows oldest first, `auditSequence`, `dirtyRows`, `deletedKeys` |
| `legacy` | the snapshot an older version left under its own key, which is never removed |
| `writes`, `stored`, `index` | what was issued to storage and is not yet applied, the rows in storage, the index row |
| `request` | where each request is in `persistState`, and what it left in the rows (history) |
| `crowdedOut` | the audit rows that made room for newer ones (history) |

`Load` is `loadPersistedState`: rows when the index lists any
(`HydrateRows`), otherwise the snapshot, all of whose rows are then to be put
(`HydrateLegacySnapshot`). `Handle` stands for whatever a request does to rows:
it gives any set of them a new version and inserts an audit row under the key of
the time and the sequence (`AuditKey`), which may crowd out older ones (`Kept`).
`PutRows`, `DeleteRows`, `PutIndex` and `Answer` are the stages of
`persistState`, with other requests between any two; `ApplyPut` makes one put
durable, `ApplyDeleteOrIndex` one deletion or index.

Assumptions: loading is one step (the input gate is closed); storage applies
writes in the order of issue, but the puts of one `Promise.all` in any order,
and an eviction may fall between them; an object runs at a later millisecond
than the one before it. Rows that were put and not indexed when an object was
lost stay in storage for good and are never loaded: `StorageCatchesUp` says that
nothing unlisted is left only as long as no object was lost.

### FakeRunner

It extends `ProjectFiles`: any command may turn out to be a `start_job`, an
`interrupt_job`, a foreground run or a file command, and all of them interleave
at their awaits. A `start_job` or run command gives its name to what it starts.
`process` has the shell, its descendants in the shell's process group and those
that left it, both of which hold its pipes; `job` has the status and whether an
interrupt marked it; `activeJobId` is the field. `StartJob` checks, `SpawnJob`
starts and records the job after the await of `mkdir`, so two jobs may run;
`CloseJob` is the child's close event with `done.finally`. `InterruptJob` marks
and signals the group, `Escalate` is the timer of `kill_after_sec`,
`InterruptEnds` what follows `Promise.race`. `Run`, `SpawnRun`, `TimeOut` and
`RunEnds` are `runFakeShell` and `runFakePython`; their timeout reaches the
child and not its descendants, and what they cannot do they throw (`failed`).
`Forks` and `ProcessEnds` are what processes do of themselves.

The log ring is `JobLog`'s; output limits and the file that `run_python` writes
its code to are left out.

### ProjectFiles

`write_file` and `read_file` of every mode on one path, each call to the file
system a step of its own that may fail. It has no specification of its own:
`FilesInit` and `FileStep` are parts of `FakeRunner`'s. `ResolvePath` and
`MakeParent` are `resolveSafeProjectPath` (a directory that another command made
meanwhile is no error), `LookUpTarget` the refusal of directories, links and,
for `create_new`, of what is there; `WriteTemp`, `Place` and `Unlink` the
temporary file, its `rename` or `link`, and the `finally` block; `Open`,
`WriteAppend` and `Read` the handles that stay on the file they opened when a
rename replaces it. A file is the list of the writes in it, each of two parts:
an append may take two calls, and what is placed is whole. What the path names
at first is nothing, a file, or something else, and only these commands change
it. An append creates its file when it opens it, so a read may find the file
empty; that is a state the properties allow.

## 4. The runs

| Run | Instance | Shows |
|---|---|---|
| `SessionConnections` | 1 command, 2 instances, 3 sockets, 2 restarts, fairness | types, storage equals memory, stored before sent, routing, jobs of replaced instances, at most one delivery, only the current instance decides, the refinement of `CommandLifecycle`, and every request is answered or lost with the object |
| `SessionCommands` | 2 commands (a job and its interrupt), 2 instances, a socket each | answers are durable, waits match pending entries, ended jobs ended, no `INTERNAL_ERROR` after the await, settled rows stay |
| `JobLogFollow` | ring of 4 units, events of up to 2, answers of 1, 6 units of output | cursors contiguous, no silent gap, an ended log is complete, the follower finishes |
| `McpScripts` | 2 calls in one or two messages, of any tool, both may run scripts; an earlier setup or none; 1 fault | stale configurations only after a failed setup, configurations name real sessions, a reported bootstrap is what is used, no rival runners, every call is answered |
| `RunnerCommands` | 3 commands of any kind, 2 connections | one command and one job at a time, processes have owners, answers mean what they say, every task ends |
| `RequestAuth` | 2 requests, 3 deliveries, clocks up to 2 ahead, cap 1, clock to 3 with a skew of 1, a protected window of 1 and a retention of 2, throttle of 1 | admitted once unless crowded out, answered nonces are in storage, storage catches up |
| `RowStorage` | 1 row, 3 requests, audit cap 2, snapshots of up to 3 audit rows, 1 eviction | the next object finds all: the snapshot survives its migration, what was answered is loaded, audit rows keep their keys, storage catches up |
| `FakeRunner` | 3 commands of any kind: jobs, interrupts, runs, writes of any mode and reads of one path | answers mean what they say; `create_new` is exclusive, and reads and later files reflect what was answered as written |
| `SessionReconnect`, `SessionRestore` | 1 command; 2 sockets of one instance and no restart, or one of each of two and 1 restart | findings of section 6 |
| `RunnerExitCode` | 1 command, 1 connection | a finding of section 6 |
| `RequestReuse` | that of `RequestAuth` | a finding of section 6 |

Why the bounds are enough. Three sockets of two instances give every order the
routing code distinguishes: a replaced socket of the same instance, of the other
instance, and one of each at once, with the late close of any. Two restarts let
an object restore a wrong socket, lose it, and restore another. Two commands are
what the pending map and the job rows relate (a job, and a command about it);
the handlers of different commands share nothing else. In `JobLog`, four units
hold one, two or several events, an event may exceed the answer's limit, reads
of three units are split in two (a piece may be short by a character of two),
and six units of output compact the ring more than once, with a marker pushed out by a later compaction. In `McpScripts`
two calls give a setup beside another setup, a stop, a reconnect or a
revocation, and a call after a script that failed, timed out or goes on
unobserved; the earlier setup supplies the session and the runner that are
replaced. In `RunnerCommands` three commands are a job, what waits behind it
and what interrupts it, and two connections let tasks of one outlive it. In
`RequestAuth` a cap of one nonce overflows with two requests, the third delivery
repeats one of them, four times tell apart within the skew, protected, retained
and outdated, and a clock two ahead sends timestamps from the future that are
accepted, and some that are not yet. In `RowStorage` three requests crowd out
audit rows of each other and of the snapshot, whose third row is crowded out as
it is loaded; one row shows what a second would, since rows meet only in the
index, which the audit rows share. In
`FakeRunner` three commands are two jobs that overlap and an interrupt, a job
and two interrupts with either signal, or a write, what it races with and a read
after both. `RequestAuth`, `RowStorage` and `FakeRunner` exchange their requests,
deliveries, rows or commands by symmetry: all start alike and their properties
are invariants. Deadlock is not checked: a session that is over, a log that was
read to its end, a client that has sent everything, and commands, deliveries or
a clock at their bound stop.

Fairness. `SessionObject` assumes that an awaited write completes and a set
timer fires: both are the platform's. The controller, the runner and the
network owe nothing. `JobLog` assumes that the event loop runs the watcher once
what it awaits is done, and that the controller goes on asking; whether the job
ever ends is not assumed. `McpServer` assumes that external commands and HTTP
requests end and that the server handles what ended; its timer need not fire and
the client need not send. `RunnerCommands` assumes that the event loop, its
timers and the watcher thread run and that SIGKILL ends a process; nothing else
ends by itself, and nobody has to connect. `RequestAuth`, `RowStorage` and
`FakeRunner` state no liveness: a run of the fake runner whose descendants hold
its pipes is never answered.

Every property has a mutant in `PROJECT.json`: a plausible mistake in one
definition (an operator named beside it, commented "Mutant of") under which the
run fails.

## 5. The theorems

In `SessionObjectProofs`, for all commands, instances, sockets, owners, types
and numbers of restarts, from the assumptions `OwnerAssumption`,
`TypeAssumption`, `NoneAssumption` and `MaxRestartsAssumption` only:

- `TypeCorrect`: `Spec => []TypeOK`. `SessionBrokerProofs` has the type of every
  broker operator as a lemma; the proof of a step cites them action by action.
- `LiveMemoryIsStoredAlways`: inductive with `TypeOK`. The argument is that each
  action that changes a row either persists (`StepStores`) or happens on a
  session that is over, and that a session that is over stays so.
- `RoutedToCurrentRunnerAlways`: inductive with `TypeOK`. The hard steps are the
  close of a socket that is not the remembered one, which must remove the
  handler or belong to another instance, and the restart, which forgets both
  sides of the equation.
- `DeliveredAtMostOnceAlways`: `DeliveredAtMostOnce` alone is not inductive. The
  strengthening `UndeliveredUntilSent` says that a command with no row in
  memory, or whose write is awaited, was never put on a wire. It needs in turn that memory and storage
  agree on a live session (a restart must not bring a row back to `absent`), so
  the proof uses `LiveMemoryIsStored`; `StepKeepsCommands` says that no step
  removes a row.

In `RunnerCommandsProofs`, for any number of commands and connections, from
`CommandBounds` only. The inductive invariant `IInv` is about the tasks
(`TaskInv`) and about the jobs (`JobInv`):

- `TypeCorrect`: `Spec => []TypeOK`, which also says that the lock holds no
  command twice and none that has ended. `ReleaseFacts` is the lemma about the
  queue; `TaskEnds` and `TaskGoesOn` say what a step of one task may do, and each
  action of a task is an instance of one of them.
- `SerialCommandsExclude`: `OneAtATime` is not inductive: nothing in it keeps a
  second command from starting. `LockInv` adds that whoever executes is the
  first in the lock, and `ConnectionInv` that after a lost connection, when the
  lock is gone, no task is left that could start and the next connection waits
  for those that are being cancelled.
- `OneJobRuns`: `RunningJobIsActive` needs `StartSawNoJob`: no job runs while a
  `start_job` awaits its process. Only another `start_job` could break that, and
  `SerialInv` says that there is none.

- `NoProcessIsLeft`, `AnswersMeanOver`: `ProcessesAreOwned` and
  `AnswerMeansOver` are not inductive. `OwnInv` adds, per command, what its place
  says of its process (`ProcessKnown`: a task that waits for a process to end has
  signalled it, and one that is draining or has answered waited until it had
  ended or sent SIGKILL), and of the job an interrupt is about (`TargetKnown`).

In `SessionCommandsProofs`, from the same assumptions as `SessionObjectProofs`
and on top of its invariant (`Basis`), one inductive invariant, `CommandsInv`,
gives six invariants, two action properties and the refinement:

- `DurableBeforeDeliveryAlways`, `WaitingMatchesPendingAlways`,
  `NoInternalErrorAlways`, `AnswersAreDurableAlways`,
  `RunningJobsAreCurrentAlways`, `EndedJobsEndedAlways`. None of them is
  inductive. `RowsInv` says how far memory may be ahead of storage once the
  session is over (`Ahead`), and `SessionsAgree` that both name the same
  instance: without them a restart could bring back a row that contradicts an
  answer. `AnswersInv` therefore asks of both rows what `AnswersAreDurable` asks
  of the one in storage. `TasksInv` says that a command is worked on over one
  socket and before its job exists; `InboxInv` that what a message says of a job
  is true while the message travels; and `JobsInv` files each job row under the
  instance whose process it is. That is why a late result cannot make a row of a
  replaced instance run again.
- `SettledStaysAlways`, `OnlyCurrentRunnerCompletesAlways`: from the invariant
  and `StepOfRow`, which lists what one step may do to one row.
- `ImplementsLifecycleAlways`: `Spec => ImplementsLifecycle`. `StoredStepMoves`
  turns a step of a row in storage into one of the moves of `CommandLifecycle`
  at the current instance; `LifecycleNext` puts them together with the moves of
  the session.

In `RequestAuthProofs`, for any cap, windows, senders' clocks and number of
requests and deliveries, from the module's assumptions (of the windows
`2 * Skew <= Retention` and `Protected <= Retention`, which the code's constants
meet, and nothing about how far the clocks are ahead):

- `AcceptedOnceUnlessCrowdedOutAlways`: the argument is that a nonce is forgotten
  only when its request has expired or made room under the cap (`GoneInv`), and
  that whatever was admitted is in memory, or else one of these (`MemoryInv`).
  A request that made room after its protected window has expired too, unless
  the sender's clock is ahead by more than the protection allows for, which is
  `CrowdedOut`. After an eviction memory is what storage lists, so that this is
  inductive only together with the storage part.
- `AnsweredIsRememberedAlways`: `RowsInv` says that what memory knows is to be
  put, is being put, or is stored; `KeptInv` follows an admitted request through
  its writes: its row precedes its index, and every index issued after that lists
  it.
- `StorageCatchesUpAlways`: `IndexInv` says that the last index under way, or
  else the one in storage, is that of memory.
- `FailuresBoundedAlways` and `TypeCorrect`: the throttle never keeps more
  failures than its limit, which no run repeats. By `FailuresInv`, the failures are in
  time order and none is ahead of the clock. Therefore those outside the window
  come first, and `RecentIsWindow` shows that the suffix `Recent` takes is what
  the filter of `pruneAuthFailures` keeps.

In `McpServerProofs`, for any number of calls, batches, scripts and faults, from
`NamesAssumption`, `CallsAssumption` (the calls are finitely many, which
counting a batch needs) and `FaultsAssumption`. The lemmas `StopEffect`,
`ProvisionEffect`, `HelpEffect`, `BeginEffect` and `MessageEffect` say what each
kind of step does; `RunMoves` lists from where a run may come to its place.

- `TypeCorrect`: `Spec => []TypeOK`, with the types of `LocalScripts`.
- `ConfigNamesCreatedSessionAlways`: needs `FileInv`: a run that writes the file
  has created its session.
- `StaleOnlyAfterFailureAlways`: needs `RunInv`, by which a call reported as done
  has a run that went through to its end on the tool that was called, so that
  its answer cleared the cache.
- `ProvisionedIsUsedAlways`: `SoloInv` follows the one run that goes on from the
  moment it writes the file to the moment it is reported; nobody else is active,
  so nobody undoes what it did.
- `NoRivalRunnersAlways`: `ServesInv` says that before a run launches its runner
  nothing knows its session, `HelperInv` that a helper which has signalled the
  old runner is the only one with that session, and `ApartInv` that runs which
  never overlapped are one at a time.

In `JobLogProofs`, for any sizes of the ring, the events, the markers and the
answers, from `SizesAssumption` (a character fits into an event) and
`MaxOutputAssumption`:

- The lemmas. The library's induction theorems take a predicate, which the
  installed provers cannot supply. `NaturalFacts` proves, from the
  well-foundedness of `<` on the naturals, the same with a set
  (`InductionOnSet`). With it, the recursion of `Sums` has a solution
  (`SumsExist`, `SumsAreSums`), sums of parts add up (`SumsOfPart`,
  `TotalOfParts`), and the recursion of `Add` goes from one good ring to the
  next (`RingsExist`, `AddFacts`).
- `RingBoundedAlways` (the ring is within its bytes or down to one event, which
  no run repeats), `CursorsContiguousAlways`: `GoodRing` is kept by every
  event that is pushed (`PushFacts`), so by a marker and by what a marker pushes
  out.
- `DropsNotOvercountedAlways` (the output kept and the output that markers
  report are together at most what was written): `Known` (what is kept plus what was said to be
  dropped) grows by no more than what was written: what `AddEvent` removes is
  what its marker says, and what the marker itself removes is in no count.
- `NoSilentGapAlways`, `EndedIsCompleteAlways`: `AvailableFacts` and
  `ReturnedFacts` compute the cursors of an answer; `Inv` adds that a job is
  called ended only when its streams are, so that nothing is written after.

The inductive invariants were first checked by TLC on the instances of section
4. Only model-checked remain the liveness properties (`RequestsAreAnswered`,
`FollowerFinishes`, `EveryCommandEnds`, `EveryCallIsAnswered`), which are out of
the prover's reach, and all of `RowStorage`, `FakeRunner` and `ProjectFiles`.

## 6. Where the code and its documents disagree

Each is a run that TLC finds violated.

- `SessionReconnect`. "Runner reconnect with the same `runner_instance_id` is a
  network reconnect." (`agent-colab-bridge-spec.md:748`). The late close of the
  replaced socket compares instances, not sockets (`src/broker.ts:335`), and
  deletes the new socket's handler; after the next heartbeat the session counts
  as connected while commands are refused with "No Colab runner is connected
  for this session.", until the next close or eviction.
- `SessionRestore`. "If a runner reconnects with a different
  `runner_instance_id`, mark any previously running job `unknown_lost`"
  (`agent-colab-bridge-spec.md:486`). After an eviction the object may restore a
  socket of the instance before the current one, which marks the running job of
  the current one lost although nobody reconnected.
- `RunnerExitCode`. "Return exit code, truncated stdout, truncated stderr,
  duration, and whether truncation occurred." (`agent-colab-bridge-spec.md:347`).
  `wait_for_direct_process_exit` polls `os.waitpid` beside asyncio's watcher
  thread. When the thread was first, `waitpid` raises `ChildProcessError` and
  `process.returncode` is returned (`python/colab_runner.py:1101`), which the
  event loop has not set yet: a command that succeeded is answered with
  `exit_code` null and `timed_out` false. It happens with event loops that use a
  thread to wait for children (Python's default before 3.12, and after it where
  pidfds are missing).
- `RequestReuse`. "rejects reused nonces during the session retention window"
  (`agent-colab-bridge-spec.md:781`), and the test "nonce compaction keeps
  entries still inside auth skew" (`test/worker.test.ts`) names the same
  intention. A timestamp may be five minutes ahead (`src/auth.ts:84` takes the
  absolute difference), so a request can be accepted for ten minutes; past 1000
  nonces a side, a nonce is kept for five minutes from when it was seen
  (`src/worker.ts:120`, `src/worker.ts:1125`). A delivery of the same request
  after that is admitted again.

Five more that the models show and no run states:

- "Deadlines are enforced by stored `deadline_at` values and Durable Object
  alarms." (`agent-colab-bridge-spec.md:647`). The deadline is a `setTimeout`
  (`src/worker.ts:536`); no alarm is set. A command in flight at an eviction
  stays `sent_to_runner` or `runner_acknowledged` until a result comes.
- "Expired commands must not be executed by the runner if delivered late."
  (`agent-colab-bridge-spec.md:648`). The runner does not read `deadline_at`
  (`python/colab_runner.py:1204`).
- "MVP allows one active background job per session."
  (`agent-colab-bridge-spec.md:478`). The fake runner checks for a running job,
  awaits `mkdir` (`src/fake-runner.ts:277`) and then records its own; two
  `start_job` commands that come together both start one. The Colab runner's
  serial lock keeps it from this (`RunningJobIsActive`).
- The bytes that a `log_dropped` marker itself pushes out of the ring
  (`python/colab_runner.py:228`) are in no marker's count, though
  `agent-colab-bridge-spec.md:549` promises byte counts for what compaction
  drops (`DropsNotOvercounted` is the half that holds).
- A connection lost during `kill_after_sec` cancels the interrupt before SIGKILL
  (`python/colab_runner.py:334`), though `agent-colab-bridge-spec.md:578` says
  "Escalate to `SIGKILL` after `kill_after_sec`."

## 7. Not modelled

- Output limits, file contents and path checks of the runner's commands, the
  GPU query (which blocks the runner's event loop, heartbeats included, while it
  runs), heartbeats in `RunnerCommands`.
- Token generation and hashing; what the audit rows say; how many keys the
  storage takes in one deletion.
- The configuration's environment variables, legacy paths and spelling variants;
  `setup-bridge.mjs` on its own; the smoke test that setup may run at its end.
- `list_jobs` results, which write job rows the way `job_status` does, one per
  job.
- Of the fake runner: output limits, path syntax, the file `run_python` writes
  its code to, and the commands that only read.
- Schemas, parsing, redaction, wording: data without control.
- The plugin package (a generated copy of the sources), packaging, the doctor:
  no state of their own.
