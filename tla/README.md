# Verification of gh-copilot-codespace

`gh-copilot-codespace` runs the Copilot CLI locally while its tools work in a
GitHub Codespace. A local extension host and MCP server translate tool calls
into operations of an executor; the executor keeps one daemon in the Codespace,
reached through an SSH stream that carries newline-delimited JSON frames; the
daemon runs commands, shell sessions, searches, file operations and patches.

This directory holds TLA+ models of the parts of that program whose correctness
depends on interleavings and failures, the TLC configurations that check them,
and TLAPS proofs. Every definition is translated from the Go source; the file
`PROJECT.json` names, for each one, the lines it stands for. Names follow the
source where TLA+ allows it.

Run a check with `tlc -config <X>.cfg <Module>.tla`, a proof with
`tlapm <Module>.tla`.

## Inventory

| Component | State it keeps | Operations | What is hard | Module |
|---|---|---|---|---|
| daemon client, `internal/daemonclient` | published generation, closed flag, waiter of the attempt at work, cooldown; per generation: sticky error, reader, write lock, pending calls | `call`, `RunBashIfConnected`, `preflightConnection`, `probeConnection`, `cancelRequest`, `reconnect`, `Close` | calls share a connection that dies at any point of any of them; no replay; bounded cancellation; Close during a reconnect | `DaemonClient`, `AtMostOnceCall` |
| daemon loop, `daemon.go` | in-flight map, context and process group of each request | request, cancel, end of input; `runProcessInDir` | cancel between start and registration of a process; duplicate ids; processes that ignore signals or escape | `DaemonServer`, `DaemonPeer` |
| shell sessions, `daemon.go`, `daemon_process_sessions.go` | id reservations, process sessions, tmux state objects, cgroups | start (tmux, process), stop, wait, read, write, list | two backends under one id, failing tmux commands, restart of the daemon, stop racing start; output and status read one after the other while the command goes on | `Sessions`, `RemoteBash` |
| filesystem and patches, `daemon_filesystem.go` | files of the Codespace | view, edit, create, patch, grep, glob; by the daemon, or by the deployed helper, which runs the same code once for each call | several files changed as one while others write them; a tree that changes while it is searched | `PatchCommit`, `PatchProofs`, `PatchLossProofs` (patches); `Search`, `SearchProcess`, `SearchProofs` (glob and grep) |
| rooted writes and local copies, `daemon_rooted_unix.go`, `mcp/local_copy_open_unix.go` | one target file, staged and recovery names | snapshot, exchange, verify, swap back, create | a concurrent writer must not lose its content, and an error must say what it left | `FileWrite` |
| registry and lifecycle, `internal/registry`, `mcp/lifecycle.go` | alias table, access policy | connect, create, delete | state read before a long remote command and used after it | `Codespaces` |
| MCP tool server, `mcp/server.go` | none beyond the registry and shell ids | one handler per tool | the codespace a handler resolves may be gone when it acts; `remote_bash` starts, waits, falls back, stops and hands over a session | `Codespaces` (resolution and commands), `RemoteBash` |
| workspace and native status | pinned codespace, status cache | sample, publish | a sample of a codespace that is not the pinned one any more | `Codespaces`, `Host` |
| extension host, `extension_host.go` | calls in flight, channel of answers | call, answer, shut down | shutdown with calls in flight, a writer that fails | `Host` |
| SSH client, `internal/ssh/client.go` | control master and its configuration | set up, refresh, run, retry; tmux sessions | concurrent refresh, retry of commands; a deadline in one of several tmux commands | `Codespaces`, `RemoteBash` |
| helper deployment, `deploy.go` | helper file of a content hash | probe, upload, place, verify | interrupted and concurrent uploads | `Codespaces` |
| launcher, provisioning, generated scripts | none shared | sequential | nothing concurrent | not modelled |

How they interact: the MCP server calls an executor (the daemon client, or the
SSH client when no daemon could be deployed). Over SSH a file tool runs
`<helper> filesystem <op>`, which is the deployed binary and the daemon's own code; without a
helper it is refused. (`ssh/client_filesystem.go` also holds a Python runner for these
operations, which only its tests execute. It is not modelled.) The daemon client spawns a daemon
through `internal/daemontransport` and exchanges hello, request, response and
cancel frames with it; the daemon starts processes and tmux sessions. The
registry maps aliases to executors and is shared by all tool handlers.

## Modules

### DaemonClient

State: the fields of `Executor` guarded by `Executor.mu` (`conn`, `closed`,
`reconnecting`, `cooldown`), the two atomic counters, the stream state of every
generation (`err`, `readerDone`, `shut`, `writer`), the remote side as the
client can observe it (`up`, `wire`, `running`, `back`), and one program counter
for each caller, reconnect goroutine and closer. A step is one critical section,
one channel operation or one call on the stream, so that every interleaving of
goroutines the locks allow is a behaviour:

* `Begin` ... `StopWaiting` are `call`, `connectionFor` and the loop of
  `obtainConnection`, one action for each branch taken under `Executor.mu`.
  `purpose` says which of its three callers an error or a new generation
  goes back to.
* `Send`, `Lock`, `WriteAll`, `WriteCut`, `Abandon`, `Written` are
  `callOnWithOptions` and `writeFrame`: the checks before and after the write lock,
  a complete write, a write cut short (nothing, a fragment, or everything but the
  newline has arrived), the `AfterFunc` of streams without deadlines, and the
  order in which a write error, the context and the deadline are looked at.
* `TakeResponse` ... `CancelRequest` are the select loop, the liveness probe and
  `cancelRequest`.
* `Deliver`, `ReaderExit` are `readLoop`; `DaemonReceive`, `DaemonCancel`,
  `DaemonRespond`, `DaemonEnds` are the peer (`DaemonServer` models it in full).
* `RecoverTransport` ... `Leave` are the goroutine `reconnect`, `CloseBegin` ...
  `CloseTransport` are `Close`, which any number of goroutines may call. Its second look at the published generation, after
  the attempt has ended, never finds a new one: nothing is published once `closed` is set.

Abstractions: a generation's stream is a set of frames; only the order of a
request and its cancel frame is kept, which is all the two sides depend on. The
ping of a probe is folded into its outcome. The backoff is a cooldown that expires
at some time. Terminal causes and error texts are left out.

`AtMostOnceCall` states what the executor promises the caller of one operation;
`DaemonClient` implements it (`KeepsPromise`) with the number of times a daemon
started the operation as `effect`, and the kind of result as `report`.

### DaemonServer

`runDaemonIO`: the reading loop (`mode`, `target`, `doomed`), the in-flight map,
one goroutine for each request, and the shell of a `run_bash` request with its
process group. `item.cancel()` is two steps (context, then signal), a handler
is registered after its shell was started, and the loop ends in cancelAll,
`wg.Wait` and the deferred stop of process sessions. Request ids are a constant function,
so that two requests may share one. `DaemonPeer` states what the client relies
on: a request that was read is answered at most once, `canceled` answers only
a request that was cancelled, and a daemon that ended has nothing running.
`DaemonClient` takes exactly these steps for its peer.

### Sessions

All requests name one session id; sessions with other ids share with it only
`daemonTmuxStartMu`. The maps `daemonSessionIDs`, `daemonProcessSessions` and
`daemonSessions` have one variable each for their entry under that id. A start
by tmux is a sequence of tmux commands, each of which may fail or be cut off by
its context after it took effect; a start of a process session creates a cgroup
and a gated process, stores it, opens the gate and looks at its context. A stop
of a process session is the goroutine of `beginStop`, shared by all who
stop it. `Restart` replaces the daemon: requests, maps and processes are lost
(their cgroups are killed before the new daemon says hello), tmux lives on.

Abstractions: what is typed and printed (see `RemoteBash`); sleeping times. The
two lookups of `daemonProcessSessions` in a stop or a wait (first in the dispatch,
then in the process backend) are one step. Process sessions exist only where
cgroups are supported (`dispatchDaemonRequest` refuses the verb otherwise), so
the path of a session without a cgroup is not modelled.

### PatchCommit

`apply_patch` from `daemonBuildPatchPlan` to the end of the commit or of the
rollback; `edit` is a patch of one update. The file system is one function, `dir`, from names to files, and a file is an inode
and a content: what `daemonSamePatchFileState` compares. A plan gives each action
paths of its own (`reservePath` and `reserveFile` see to it). A step is one call that other
programs can observe or disturb; `pc` and `at` say which call comes next:
`PlanAction` ... `RevalidateAction` check, `CreateBackup` ... `SettleSource` are
`daemonCommitPatchAction` with what it undoes by itself, `UndoAdd` ... `UndoTarget` the
four kinds of rollback, last action first. Other programs rename a file over a
path of the plan, rewrite one in place under all its names, or remove one; a call of the patch
may fail by itself; its context may end at any time.

`VerifyUpdate` is what follows an exchange. Both files are read; the exchange is undone when the displaced
one is not what the plan read, or cannot be read, but only if the live one is certainly the patch's. If the
live one cannot be read, the action returns an error and an empty rollback, both files stay where they are, and
the rollback of the actions before reports no error: the patch fails and this action is still installed.

Abstractions: staged, backup and removed names are chosen by the code with a random part and
nobody else writes there; a path is read and compared in one step, which
may fail; directories that a patch creates (the file system refuses to
remove one that is not empty); hunks; programs that go on writing through an
open descriptor after their file was moved.

`owed` is a history variable: the contents that nobody meant to remove. A content
is owed from the time it is written until its writer, another writer or a
successful patch replaces it.

### FileWrite

One file replaced whole, or created, by the protocol that exists in the daemon, for `remote_copy` and for the
`create` tool, and in the local side of `remote_copy` (`impl`). Several writers work on one path without a lock, and other programs put
files, links or directories there, or remove them. Steps are the calls the others can
observe: `Ask`, `ReadSource`, `OpenParent`, `MakeParent`, `Snapshot`, `Stage`, `Recheck`, `Exchange`, `Verify`, `SwapBack`, `Create`, and
the end, which removes or keeps the recovery name. The two implementations take the same steps; they differ in when
they look at a cancellation, and `create` makes its directories first. The calls that unlink what an error does not
keep are deferred and may fail unseen, so that `Fail` unlinks any part. A state of a file is one value, for inode, mode and
digest together, as the snapshots compare them.

`owed` is as in `PatchCommit`. `exposed` holds what got to the path between the last look at it and
the exchange back: no protocol on top of `rename` can do better for that.

### Codespaces and Host

`Codespaces` has the registry and what tool calls do to it. Each call is a goroutine; the registry's mutex covers one
operation, so `connect_codespace` checks, sets up SSH, deploys the helper, wraps the executor and
only then registers, and the second check (in `Register`) decides.
`delete_codespace` resolves by alias and deregisters by alias, then closes what it deregistered, in a step each. `ReuseMaster` and `EstablishMaster` are the control master, `CheckDigest`,
`Upload` and `Place` the helper's deployment over connections that may break on either side of
their effect. `RunOnDaemon` is a command over the daemon; `RunDirect`, `Muxed` and `Plain` one over the master, or by itself
after the one retry that a reading command gets, for a file tool only with a helper. `Fails` and `RunBash` are the fallback of
`bashHandler`: when the session could not be started and the connection to a daemon is not what was lost, it runs
the command once more. Tools without an alias resolve to the only codespace there is (`Resolve`). A `ManagedCodespace` is
named by the call that made it, as the code compares pointers.

`Host` composes this with the extension host: `Receive`, the bounded channel of answers (`Respond`, `Write`),
the writer's ends, `Drain`, `Close` (wait for the calls), `Returns`, `Cleanup` (close what is still
registered), and the sampler of the status line, which checks that
the pinned codespace is connected before and after its probe. `Watched` names what may be
called while there is a status line; without one the sampler never starts, which keeps
the state space within bounds.

Abstractions: the decoder's goroutine and the signal handler are
folded into `Drain` and `Returns`; `list_tools` and `list_codespaces` only read; the access policy,
provisioning and the checkout of a branch are part of what may fail in a connection.

### Search and SearchProcess

`glob` and `grep` walk the roots of a request (`search`) one after the other, a directory at a
time in the order of its names; other programs add, remove and replace entries
between any two steps. Files are read a line at a time by `DaemonHit` and `DaemonMiss`, which keep the lines of
context; what a line holds is
chosen when it is read. `want` is the reference: what a search that has the whole file
would show. Names are integers (negative ones hidden). A pattern is a set of alternatives, each a sequence of segments, with `*` and `**`;
`DaemonMatchSegments` is the matcher that recurs over the rest of the path, `Names` what a pattern means.

`SearchProcess` adds the other way: a child (fd, rg) writes the answer, the reader takes it up to the limit, looks for
one byte more, stops the child with SIGTERM and then SIGKILL, and gives its exit code
a meaning. Requests without roots are made with a child.

Abstractions: byte limits and decoding are one nondeterministic end of a file each
(`InputLimit`, `TooLarge`, `Binary`); file types, regular expressions and brace
expansion are data of the request.

### RemoteBash

`remote_bash` and the calls that follow it by its shellId, over one of the three backends: tmux driven over SSH
(`ssh.Client`), tmux driven by the daemon, and a process of the daemon. `Begin` ... `RunBash` start the session, or fall
back; `First` and `Reads` choose between waiting and reading once. `Loop`, `Sleep` and `CutOff` are
`waitForSessionOutput`, which polls over SSH with a deadline for each read; `Channel`, `Await`, `Wake` are `daemonWaitSession`, which
waits for the exit status and reads once more. A read of tmux is `Check` (has-session), `Capture`, for the daemon
`Option` (the exit status that the supervisor notes) and `Recapture`, and `Status` (list-panes); one of a process is
`Snapshot` (the status) and `Output`. Between any two of these the command may print, end or be killed, another
call may stop the session, a wait may pass (`TimePasses`), and any command may fail (`Breaks`). `Kill`, `Remove`,
`Removed` are the end of the session, by `remote_stop_bash` or by `remote_bash` itself (`cleanup`).

Abstractions: the output is a number of units of which a reader sees the last `Tail`; `marker` is the unit, if any, that is
the text `[session exited]`, which over SSH is how an answer says that the session has exited.
How the daemon starts and stops sessions step by step is in `Sessions`.

## Runs

All bounds are constants of the configurations.

| Run | Bounds | Shows |
|---|---|---|
| `client_shared` | 2 pings, 2 attempts | `TypeOK`, `SingleReconnect`, `ResponsePinned`, `OnlyDeadReplaced` |
| `client_tools` | 2 tool calls, 1 attempt, one context may end, deadline streams | `NeverReplayed`, `HonestUnsent`, `CanceledCallIsCanceled`, `KeepsPromise` |
| `client_live` | 1 tool or passive call, 1 closer, 1 attempt, its context may end, fairness | `QuietAfterClose`, `EveryCallReturns` (callers and closers), `CloseStopsEveryDaemon` |
| `client_cancel_pipe` | 2 passive calls, streams without deadlines | violates `CanceledCallIsCanceled` |
| `server` | 3 requests, two with one id, escapes allowed, fairness | `Reachable`, `NoOrphans`, `ServesPeer`, `CancelIsAnswered`, `EndOfInputEnds` |
| `sessions` | 3 requests of any kind, tmux fails, 1 restart | `Stoppable`, `OneSession`, `StoppedIsDead`, `FailedStartNeverRan`, `NoStrandedWait` |
| `patch` | 2 actions of any kind, 2 changes by others, 2 failing calls, one cancellation | `TypeOK`, `NothingLost`, `AllOrNothing`, `FailureRestores` |
| `files` | 2 writers, each by any of the three, 2 changes by others, 2 failing calls | `TypeOK`, `NothingLost`, `NoLostUpdate`, `HonestFailure` |
| `host` | 2 calls of any kind, 2 codespaces, 2 aliases, channel of 1, 1 failing connection; the status line beside connect and delete | `TypeOK`, `NoExecutorLeaks`, `StatusHonest`, `AnswerKept`, `RunOnce` |
| `search` | globs over 6 paths with 1 change, 1 or 2 roots, 5 patterns; greps over 2 files with up to 6 lines, context up to 2, limits 0 to 4; children of up to 4 lines | `TypeOK`, `ShowsEveryMatch`, `HonestAnswer`, `ProcessAnswer` |
| `remote_bash` | `remote_bash` and one other call, 1 unit of output, which may look like the marker; beside it 2 requests of `Sessions` of any kind, tmux fails, fairness | `FinalAnswer`, `EveryRequestReturns` |
| `remote_bash_wait` | the same, without the marker | violates `LeavesRunning` |

`MCRemoteBash` holds two instances that share no state, `RemoteBash` and `Sessions`; a behaviour is one of either.

Some properties have a condition, because the code does not keep them without it.
`CanceledCallIsCanceled` is checked on streams with write deadlines
(`client_cancel_pipe` shows the others). `CancelIsAnswered` and `EndOfInputEnds` suppose
that no escaped descendant holds an output for ever (`OutputsEnd`). `OneSession` states that an id stays
reserved only for behaviours without a tmux start, and supposes that nobody stops a
session and that no tmux start fails, since both free the id by design.
Both `NothingLost`
except contents written between a check and the call that trusts it.
`FailureRestores` excepts the one action that failed, if its file is complete under the names that its error gives: a
delete whose last call failed leaves it under the `removed` name; after an update the patch may be installed, with
the original under the staged name and in the backup; after a rename the file may be at its target, with a backup.
`HonestFailure` excepts the temporary name of a write, whose deferred unlinking may fail.
`RunOnce` does not cover `remote_bash` over SSH alone, where the code may run a command a second time. `FinalAnswer` excepts the output of
a pane that still lived when it was captured and was dead when its status was read, and, over SSH,
a command that prints the marker itself. `ProcessAnswer` says nothing of the exit code of a child that another program killed (`alien`).

Why the bounds are enough. Two callers are the smallest number that share a
generation, a waiter and a write lock, and the code treats all callers alike; two
attempts give a generation that is replaced, one that replaces it and a
third that replaces that one, so that a caller may hold any of old, current and
next. Past `MaxAttempts` an attempt is taken to fail at once, which callers see as
the cooldown error. The server needs two requests with one id and
one with another for each way a cancel may miss. For sessions, a
start, a stop and a second start are the shortest history in which an id is reused
while its old session is still being stopped. Two actions give a patch
something to roll back while a later one fails, and each action touches only its own paths;
two changes let a second writer come while the first is
being noticed and undone, and two failing calls let the undoing of the first failure fail. The same holds of two writers of one path. Two calls are
what a race between connections, between a connection and a removal, or
for the channel of answers takes; with a channel of one the second answer
waits. One change during a walk is enough to invalidate any one of its reads, and
six lines hold two groups of context that touch, overlap or stay apart, cut
by a limit inside either. One unit of output is printed before, between or after any two commands of a
read, and a call that reads, writes or stops may come at any time. The runs allow the system to
stop (`CHECK_DEADLOCK FALSE`): every request is made once, so that it does.

## Fairness

* Callers, attempts, closers, handlers and stop goroutines are goroutines:
  weak fairness of their steps. A goroutine blocked in a `select` of several
  channels is woken by any that is ready, and Go chooses at random among the
  ready ones: a call whose probes succeed again and again still takes its
  response, its context or the end of its reader (strong fairness of these
  three).
* `daemonTmuxStartMu` is a Go mutex, which hands over to a starving waiter: strong
  fairness of `TmuxLock`.
* Timers fire: the probe, the grace periods and the waits take their timeout step.
* A daemon whose input is closed ends: `processStream.Close` kills it after two
  seconds. A reader at the end of its file returns. A live daemon reads its
  input and completes what it started.
* Nothing is assumed of commands: a shell need not exit, and may ignore SIGTERM.
* `EveryRequestReturns` is checked in `MCRemoteBash`, under the fairness of `Sessions!FairSpec`.

## Findings

1. `client_cancel_pipe`: on a stream without `SetWriteDeadline`, which the
   production `processStream` is, a context that ends just as the write of
   a whole frame returns makes `writeFrame` return the context error. No cancel frame
   follows and the generation stays in use: the command keeps running, although
   the documentation of `RunBashIfConnected` says that cancellation still
   sends a cancel request.
2. `remote_bash_wait`: over SSH, `ReadSession` takes every failure of `tmux has-session` for a session that does not
   exist, also the one that the deadline of the read makes (`client.go:835`). `waitForSessionOutput` knows only
   `context.DeadlineExceeded` as the end of the wait, so that `bashHandler` stops a command that has run longer
   than `initial_wait`, and answers with an error, instead of leaving it running under its shellId. The test for slow reads
   (`server_test.go:1512`) uses a mock whose read returns the context's error. The daemon's backends keep `LeavesRunning`.

Observations, made while modelling, that no run is spent on (the properties above except them by name):

* The limit of reconnect attempts (`reconnect.go:143`) is counted per `obtainConnection`, which one
  call may enter three times, not per call as the comment on the constant says.
* A cancelled command whose descendant left the process group and keeps its output open is
  not answered (`daemon.go:607`), and keeps the daemon from ending.
* The error paths of a tmux start release the session id twice (`daemon.go:748`); in between a
  process session may have reserved it.
* A `stop_bash` that comes between the reservation of an id and the session's entry finds nothing to
  stop, and the start succeeds afterwards.
* `remote_bash` over SSH alone may run its command twice: `new-session` has started it when the transport fails, or when it
  ends before `remain-on-exit` is set and `set-option` finds no session (`client.go:701`), and the handler then
  calls `RunBash` (`server.go:707`). Over a daemon it does not: a start that fails has not let the command go
  (`FailedStartNeverRan`), and a lost connection leads to no second one (`RunOnce`).
* Over SSH a command that prints `[session exited]` is taken for one that has exited (`server.go:844`), and stopped. A pane
  that was killed by a signal has no exit status there (`parsePaneStatus` wants two fields) and is never seen as dead.
* A pane is captured before its status is read (`client.go:839`): an answer that says that the session exited may lack what was
  printed last. The daemon captures it again when it finds an exit status.
* A patch that fails because a file it has just installed cannot be read leaves that file
  installed and reports no rollback error (`daemon_filesystem.go:2635`): `README.md:211` says that a patch is applied atomically.
* The rollbacks of an add and of a move compare a path with what the patch installed and remove it
  in a later call (`daemon_filesystem.go:2920`, `:3011`); a file that another program renames there in
  between is removed. The rollback of an update exchanges first.
* A delete whose last `os.Remove` fails returns no rollback, so its file stays under the `removed` name and the plan
  reports the failure without a rollback error; `FailureRestores` allows it.
* When two writes swap back at once, a third party's file may go (`exposed` in `FileWrite`).
* `delete_codespace` checks the codespace it resolved, and removes by alias afterwards (`lifecycle.go:638`): if
  the alias was given away in between, another codespace is deregistered. A workspace call
  resolves the alias twice (`workspace.go:64`), with the same effect for what it runs on.
* A command that has taken the SSH config path while another call disables multiplexing runs with an
  empty one, and fails in a way that is not retried.
* A file that vanishes between the listing of its directory and its turn fails the whole search.
* A search child killed by a signal that the daemon did not send has exit code -1, which the comparison with 1
  (`daemon_filesystem.go:846` and its callers) takes for a complete answer.

## Proofs

`DaemonClientProofs` proves for any finite or infinite set of callers and
closers, and any number of attempts:

* `TypeCorrect`: `Spec => []TypeOK`. `TypeOK` alone is not inductive: a
  caller writes to `writer[on[c]]` and `prev[a]` becomes a published generation, so that
  the indices must be known to be generations.
* `OneReconnect`: `Spec => []SingleReconnect`.

Both follow from `BaseInv`, which adds to `TypeOK` that an attempt between recovery and
publication is the one `reconnecting` names (`AttemptInv`), that attempts start in
order and each spawns at most one generation (hence `nextGeneration` never exceeds
`MaxAttempts + 1`), and that a caller or closer at work holds a generation
(`HoldInv`). One lemma for each kind of actor and part of the invariant has one
step for each action. They rest on the assumptions on constants in `DaemonClient` alone.

Its second part, on calls, proves, again for any number of callers, closers and attempts, what
one call can rely on:

* `NoReplay`: `Spec => []NeverReplayed`, `HonestLosses`: `Spec => []HonestUnsent`,
  `PinnedResponses`: `Spec => []ResponsePinned`;
* `AtMostOnce`: `Spec => KeepsPromise`, the refinement of `AtMostOnceCall`.

They follow from `CallInv`. Request ids are handed out once (`IdInv`). Once bytes of a
request may have left (`touched`), its caller is past the write, or in
`obtainConnection` for the last time with `lostUnknown` as its answer, so that it
neither sends again nor reports a loss before sending (`CallPhase`). The request is then in one frame on the
generation the caller holds, or it was started, once, and what runs or comes back
for it carries its id (`FrameInv`); this is what a proof of `NeverReplayed` needs, which
alone says nothing of frames on the way. `AnswerInv` ties responses and answers to
operations that were started. `CallInv` was checked with TLC before it was proved. A step of
`AtMostOnceCall` is `Execute` when a daemon reads a request and `Report` when a caller
returns; the other steps stutter.

`FileWriteProofs` proves what `FileWrite` promises for any number of writers, changes by
other programs and failing calls, where the run has two writers, two changes and two faults:
`WritesTypeCorrect` (`TypeOK`), `WritesLoseNothing` (`NothingLost`), `WritesSeeUpdates`
(`NoLostUpdate`) and `WritesFailHonestly` (`HonestFailure`). All follow from `WriteInv`,
which was checked with TLC before it was proved:

* `OwnInv`: what a write's temporary and recovery names hold in each phase;
* `SingleInv`: no content is under two names, a recovery copy apart;
* `FreshInv`: nobody has seen what is not yet written or installed;
* `TookInv`, `MadeInv`: what a write replaced is gone and nobody else replaces it, and there
  is one creation while no other program changes the path. These give `NoLostUpdate`;
* `OwedInv`: what is owed is under the path or a temporary name, and not in the path when an
  exchange back would bring it where it is unlinked. `NothingLost` alone is not inductive
  without that;
* `FailedInv`: a failed write that keeps nothing has left nothing, but for its temporary name.

The actions of the implementations are first reduced to nine kinds of steps
(`Prepares`, `Stages`, `Proceeds`, `Exchanges`, `Creates`, `Installs`, `SwapsBack`,
`Succeeds`, `GivesUp`), for each of which the invariant is then preserved. The proof
rests on `FileBoundsAssumption` and on `DistinctAssumption`: writers are not among the numbers of other
programs' contents, and the absent file is no content.

The last part of `DaemonClientProofs` proves the rest of the executor's safety properties:

* `CloseIsQuiet`: `Spec => []QuietAfterClose`, for any number of goroutines that call
  `Close`, where the run has one. The first `Close` captures the attempt at work and waits for
  it; a later one, which comes after that attempt has given up its place, does not, and may
  return while the stream that was made too late is still open. The property therefore
  says that another `Close` waits for it then (`Awaited`).
* `HealthyIsKept`: `Spec => OnlyDeadReplaced`, an action property.
* `CancelsReach`: `DeadlineStreams => (Spec => []CanceledCallIsCanceled)`. The condition is needed:
  finding 1.

The first two follow from `LifeInv`. `GenerationInv`: while an attempt works, the published
generation is dead and the attempt's own is newer; a call that enters `obtainConnection` to avoid a
generation saw that one die, so that no call can start an attempt beside a healthy
generation. `CloseInv`: once `closed` is set nothing is published or started, so every `Close`
captures the same generation, and an attempt at work is one that each of them waits for. `OwnerInv`: a stream this side has
not closed is the published one, or in the hands of one attempt that will publish, discard or retire it.
A caller's 25 actions are first reduced to what they may do to generations (`CallerEffect`).
`CancelsReach` follows from `CancelInv` on top of `CallInv`: a request that was written is `Settled` when its
call has ended with the context error, and whatever daemon and client do next keeps it so.
Both were checked with TLC first, `LifeInv` with two closers and two attempts.

`HostProofs` proves all of `Host`'s invariants for any number of calls, codespaces, aliases,
failing connections and any size of the channel: `HostTypeCorrect` (`TypeOK`),
`ExecutorsDoNotLeak` (`NoExecutorLeaks`), `HelperStaysWhole` (`HelperWhole`), `StatusIsHonest`
(`StatusHonest`), `AnswersAreKept` (`AnswerKept`) and `CommandsRunOnce` (`RunOnce`). `HelperWhole` is in no run: a helper that some client has
verified is whole, however many deployments break off or race. They
follow from `HostInv`, which was checked with TLC before:

* `RunInv`: how often a call has run its command at each step of the way over daemon, master and plain SSH. A call
  is at `plain` without having run anything unless it only reads, and at `again` over a daemon without having run
  anything. `RunOnce` is not inductive without that;
* `TargetInv`: what a call can resolve was connected by a call that has ended, so that it does not change from an
  executor without a daemon to one with a daemon meanwhile;
* `OpenInv`: an open executor is a registered one's, or that of a call at `register`, or of one that was
  deregistered and is about to be closed; and from
  `closing` on no call is at work, so that nothing is opened behind `Cleanup`;
* `AnswerInv`: an ended call's answer is in the channel, written or dropped; the channel is finite, which is why
  a writer that stops has emptied it; nothing is dropped unless the host is stopping;
* `SampleInv`: a sample taken while the pinned codespace went away is not a branch, since the
  codespace that was there at the start never comes back.

All steps of a call are reduced to `Works(c)`: it moves on, leaves the calls of others alone, and
registers no codespace but its own. The proofs rest on `CodespacesAssumption` and `HostAssumption`.

`DaemonServerProofs` proves `RequestsReachable` (`Reachable`), `ShellsNotOrphaned` (`NoOrphans`) and
`DaemonServesPeer` (`ServesPeer`, the refinement of `DaemonPeer`) for any number of requests with any ids.
`ServerInv` is `TypeOK`, `Reachable` (inductive with the duplicate check of the reading loop),
`HandlerInv` (a shell is alive only between its start and its reaping; only a request that was cancelled is
answered as such) and `EndInv` (when the loop has drained, every handler has finished, so that nothing starts
after `StopSessions`). For the refinement, `ReadRequest` is `Receive` or `Refuse` of the peer, `ReadCancel` and `CancelNext` are
`Cancel`, `WriteResponse` is `Respond` and `StopSessions` is `End`; every other step leaves what the peer
shows (`Shown`) as it is.

`SessionsProofs` proves `SessionTypeCorrect`, `SessionsStoppable` (`Stoppable`), `SessionIsOne` (`OneSession`),
`SessionsStopDead` (`StoppedIsDead`), `FailedStartsNeverRan` (`FailedStartNeverRan`) and `WaitsNotStranded`
(`NoStrandedWait`) for any number of requests under one id and any number of restarts. `SessionInv`
has, besides the types and the last two properties:

* `LabelInv`: which request can be where, and that a stop or a wait acts on what it looked up;
* `ShellInv`: how the process, its cgroup, its stop goroutine and its entry in the map go together; a live
  process owns the cgroup and is in the map or still in the hands of its start;
* `ReservedInv`: under the conditions of `OneSession` (`Calm`) whoever counts on the reservation
  (`Holds`, `TmuxHolds`) has it, at most one process start or session does, and none does while a tmux session
  exists. `OneSession` speaks of sessions that run; the invariant has to start where the
  id is reserved and end where it is given back;
* `RanInv`: a command that was let go belongs to a start that reports it, or that was cancelled.

`PatchProofs` proves for plans of any length and kinds, and any number of failing calls, what the run checks
for two actions and two failures:

* `TypeCorrect`: `Spec => []TypeOK`, whatever other programs write and whenever the context ends. It
  takes that a rollback that runs is the last recorded one, and that only what exists is displaced (`TypeInv`);
* `WholeOrNot`: `Spec => []AllOrNothing`, and `FailedPatchRestores`: `Spec => []FailureRestores`.

Both properties speak of the end only, and of the whole plan. What is invariant (`Still`, with `QuietInv` saying
when) gives for each step, and for each action of the plan by its place before, at or after the
action at hand, what is under its five names, and whether its rollback is recorded: `Committed`, `Working` or
`Waiting` while the plan is carried out, `ToUndo`, `Reverting` or `Resolved` while it is rolled back. It also says that the
steps that put a stranger's file back (`swapBack`, `moveBack`, `undoSwapBack`) are never reached when there is no stranger.
Once a rollback has reported an error nothing is claimed, and without a failing call none does. A step touches
the names of one action (`OnlyHere`, `SameStays`), so that each action's lemma has to show only how that one goes on, is
done, fails or is undone (`GoesOn`, `IsDone`, `Fails`, `GoesOnUndoing`, `IsUndone`). The invariant was checked with TLC before, for three
actions. An action that failed has its files in one of the places that
`KeptAside` allows (`Aside`). The proofs rest on `PlanAssumption`, `KindsAssumption`, `BoundsAssumption` and `NoneAssumption`.

`PatchLossProofs` proves what holds of a patch although others interfere:

* `PatchLosesNothing`: `Spec => []NothingLost`, for plans of any length and kinds, any failing calls and any writes by other
  programs.

`NothingLost` alone is not inductive: it does not say which of the names that hold a content the patch will
remove. The invariant (`LossInv`) says for each action where the content it replaces is: at its source before the action is begun
(`Ready`, `Intact`), in its backup, and for a rename also at its target, once it is carried out (`Carried`),
in between by step (`AtHand`), and on the way back (`Due`, `Rolling`) until everything that is owed is where
nothing removes it any more (`Over`). With it go that contents and files are made in order (`Dated`), that what
the patch writes is never owed (`Foreign`), and that a file has one name, but for a source that a rollback has linked
to its backup (`OneName`): the patch tells its own files by their identity. Two facts make the
steps small. A call of the patch moves the files of one action (`Framed`), each of which comes from another
and none of which is lost (`Handled`), and leaves the other actions' places alone. Another program's write
changes one path; what was there is exposed if the patch trusts that path at this moment, and what it finds
there afterwards is not its own (`WorldDisturbs`, `TrustedIsExposed`). The invariant was checked with TLC before, for
two actions, two writes by others and two failing calls (not all at once), and for one action with three writes. The assumptions are those of `PatchProofs`.

`SearchProofs` proves the four properties of the run `search` for every tree, every request and every text, any
number of changes by other programs, and for searches with a child as well as without (`ProcessSpec`):

* `SearchTypeCorrect` (`TypeOK`), with the bound on the answer;
* `SearchAnswersHonestly` (`HonestAnswer`): a complete answer has every file that was there all the time, whatever
  changes beside it, and nothing that the pattern does not name;
* `SearchProcessAnswers` (`ProcessAnswer`): what fd or rg wrote is given whole or cut at the limit;
* `SearchShowsEveryMatch` (`ShowsEveryMatch`): the reader, which sees one line at a time, shows what a search shows that
  has the whole file;
* `MatchersAgree`: the glob matcher (`DaemonMatchSegments`), which recurs over places in pattern and path, matches exactly the paths whose
  names the segments can be laid along (`Names`). It rests on an argument by the least counterexample,
  as the induction theorems cannot be used here.

The invariant (`SearchInvariant`) has these parts besides the types (`SearchTypes`, `TreeInv`) and the child
(`ChildInv`):

* `AheadInv`: a file that was there all the time is ahead of the walk of each root it is below, or done with. Ahead means
  that the walk has not begun, is at the file, or has a directory on its stack from which the way to the file goes on by an
  entry that is still to come, or that is not read yet (`InFrame`). `WalkInv` says where walks are:
  each directory on the stack is below the one before;
* `FinishInv`, `ListInv`: only who has come to the end of all walks answers as complete, and the list has only what the pattern names;
* `AnswerInv`, `LineInv`: the answer is what was wanted of the files before, and what this one shows so far. The reader remembers
  the last `before` lines, the end of the window and the last line shown. `LineInv` says
  what these must be, given the lines read; `HitRendered` and `MissRendered` say what one line more adds to
  what should be shown, and `DaemonLine` that the reader adds that.

Sorted sequences (`InOrder`) are defined by rank; `InOrderSorts` and `InOrderIsOnly` say that this is the sorted
order and no other sequence is. The invariant was checked with TLC before it was proved. The proofs rest on
`PathsAssumption` and `SearchesAssumption`: paths are finite in number and closed under parents, what is below a directory that
is not there is not there, and every glob has a limit, which `daemonNormalizeGlobLimit` makes sure of.

Only model-checked: everything under fairness, that is `EveryCallReturns`, `CloseStopsEveryDaemon`, `CancelIsAnswered`,
`EndOfInputEnds` and `EveryRequestReturns` (liveness is out of reach of the proof system), and `FinalAnswer` of `RemoteBash`. Every other property of
the passing runs is stated by a theorem.

## Plan

1. Done: `DaemonClient`, `AtMostOnceCall`, `DaemonClientProofs`.
2. Done: `DaemonServer`, `DaemonPeer`.
3. Done: `Sessions`.
4. Done: `PatchCommit`, `FileWrite`, `FileWriteProofs`.
5. Done: `Codespaces`, `Host` (registry, lifecycle, SSH master, helper, extension host, status line).
6. Done: `Search`, `SearchProcess`.
7. Done: `HostProofs`, `DaemonServerProofs`, `SessionsProofs`, `PatchProofs`, `PatchLossProofs`,
   `SearchProofs`.
8. Done: `RemoteBash` (`bashHandler` and the readers of a session).
9. A proof of `FinalAnswer`; the text of patches and hunks, and view ranges, against reference definitions.

Runs are few and each answers one question; new modules share runs where they
compose.

## Not modelled

Reading of flags, prompts, generated JavaScript and configuration, provisioning and
timing helpers are sequential and share no state. JSON
encoding, the bytes of files and error texts are data no property depends on. `view` and the parsing of patches are
not modelled. The Python runner in `ssh/client_filesystem.go` is not modelled, since the program never executes it. A directory that a patch
creates is not modelled, since the file system refuses to remove one that is not empty. Reuse of process ids,
the size of pipes and wall-clock times are left to the operating system.
