-------------------------------- MODULE Host --------------------------------
(***************************************************************************)
(* The extension host (extension_host.go): it reads requests, makes each   *)
(* tool call in a goroutine, writes the answers one at a time, and at the  *)
(* end cancels and waits for the calls before it closes the executors of   *)
(* the codespaces that are still connected.  Beside it runs the sampler of *)
(* the native status line (native_status.go).  What a call does is in      *)
(* Codespaces.                                                             *)
(***************************************************************************)
EXTENDS Codespaces

CONSTANTS
  Cap,     \* capacity of the channel of responses
  Watched  \* what may be called while there is a status line

ASSUME HostAssumption == Cap \in Nat \ {0} /\ Watched \subseteq Tools

VARIABLES
  phase,      \* runExtensionHostIO
  signalled,  \* SIGINT, SIGTERM or SIGHUP has come
  queue,      \* answers in the channel
  written,    \* calls whose answer the parent got
  dropped,    \* calls whose answer nobody will write
  writer,     \* "stopped" after the last answer, "failed" with an error
  sampler,    \* the goroutine of nativeStatusSampler.start
  sample,     \* what it has found and will publish
  steady,     \* history: Startup has been connected all through the probe
  published,  \* the status in the cache file
  unwritten   \* the last status could not be published

serverVars  == <<phase, signalled>>
writerVars  == <<queue, written, dropped, writer>>
samplerVars == <<sampler, sample, steady, published, unwritten>>
vars == <<codespaceVars, serverVars, writerVars, samplerVars>>

TypeOK ==
  /\ CodespacesTypeOK
  /\ phase \in {"serving", "draining", "closing", "returned", "exited"}
  /\ signalled \in BOOLEAN
  /\ queue \subseteq Calls /\ Cardinality(queue) <= Cap
  /\ written \subseteq Calls /\ dropped \subseteq Calls
  /\ writer \in {"running", "stopped", "failed"}
  /\ sampler \in {"none", "idle", "probing", "publish", "stopped"}
  /\ sample \in {"none", "branch", "error"}
  /\ published \in {"branch", "error", "disconnected"}
  /\ steady \in BOOLEAN /\ unwritten \in BOOLEAN

Init ==
  /\ CodespacesInit
  /\ phase = "serving" /\ signalled = FALSE
  /\ queue = {} /\ written = {} /\ dropped = {} /\ writer = "running"
  /\ sampler = (IF {tool[c] : c \in Calls} \subseteq Watched THEN "idle" ELSE "none")
  /\ sample = "none" /\ published = "error"
  /\ steady = TRUE /\ unwritten = FALSE

-----------------------------------------------------------------------------
(* Reading                                                                 *)

\* call_tool: a goroutine is started for each request.
Receive(c) ==
  /\ phase = "serving" /\ At(c, "idle")
  /\ Goto(c, "start")
  /\ UNCHANGED <<callVars, sshVars, helperVars, target, removed, ran, registry,
                 executorVars, github, stopping, faults, serverVars, writerVars, samplerVars>>

-----------------------------------------------------------------------------
(* Writing                                                                 *)

\* Mutated sending: does not wait for room.
RespondOrDrop(c) ==
  /\ At(c, "respond") /\ Goto(c, "done")
  /\ \/ /\ Cardinality(queue) < Cap
        /\ queue' = queue \cup {c} /\ UNCHANGED dropped
     \/ /\ Cardinality(queue) = Cap
        /\ dropped' = dropped \cup {c} /\ UNCHANGED queue
  /\ UNCHANGED <<callVars, sshVars, helperVars, target, removed, ran, registry,
                 executorVars, github, stopping, faults, serverVars, written, writer, samplerVars>>

\* sendResponse: at once if the channel has room, or else it waits.
Respond(c) ==
  LET room == Cardinality(queue) < Cap IN
  /\ \/ room /\ (At(c, "respond") \/ At(c, "blocked")) /\ Goto(c, "done")
          /\ queue' = queue \cup {c} /\ UNCHANGED dropped
     \/ ~room /\ At(c, "respond") /\ Goto(c, "blocked") /\ UNCHANGED <<queue, dropped>>
     \/ /\ At(c, "blocked") /\ (stopping \/ writer # "running")
        /\ Goto(c, "done") /\ dropped' = dropped \cup {c} /\ UNCHANGED queue
  /\ UNCHANGED <<callVars, sshVars, helperVars, target, removed, ran, registry,
                 executorVars, github, stopping, faults, serverVars, written, writer, samplerVars>>

Write ==
  /\ writer = "running"
  /\ \E c \in queue : queue' = queue \ {c} /\ written' = written \cup {c}
  /\ UNCHANGED <<codespaceVars, serverVars, dropped, writer, samplerVars>>

\* The pipe breaks, or the output is closed under a writer that is stuck when
\* the server ends: everything stops, what is left is thrown away.
WriterFails ==
  /\ writer = "running" /\ queue # {}
  /\ Fault(phase = "closing")
  /\ writer' = "failed" /\ dropped' = dropped \cup queue /\ queue' = {}
  /\ stopping' = TRUE
  /\ UNCHANGED <<callVars, sshVars, helperVars, pc, result, target, removed, ran, registry,
                 executorVars, github, serverVars, written, samplerVars>>

\* A failed writer goes on emptying the channel.
WriterDrains ==
  /\ writer = "failed" /\ queue # {}
  /\ dropped' = dropped \cup queue /\ queue' = {}
  /\ UNCHANGED <<codespaceVars, serverVars, written, writer, samplerVars>>

WriterStops ==
  /\ writer = "running" /\ phase = "closing" /\ queue = {}
  /\ writer' = "stopped"
  /\ UNCHANGED <<codespaceVars, serverVars, queue, written, dropped, samplerVars>>

-----------------------------------------------------------------------------
(* Ending                                                                  *)

\* The server's loop ends with the input, which the parent may close at any
\* time, with a signal or with the writer, and cancels the calls.
Drain ==
  /\ phase = "serving" /\ phase' = "draining"
  /\ stopping' = TRUE /\ signalled' \in BOOLEAN
  /\ UNCHANGED <<callVars, sshVars, helperVars, pc, result, target, removed, ran, registry,
                 executorVars, github, faults, writerVars, samplerVars>>

\* Mutated end: does not wait for the calls.
CloseAtOnce ==
  /\ phase = "draining" /\ phase' = "closing"
  /\ UNCHANGED <<codespaceVars, signalled, writerVars, samplerVars>>

\* wg.Wait, then the channel is closed.
Close ==
  /\ phase = "draining" /\ \A c \in Calls : At(c, "idle") \/ At(c, "done")
  /\ phase' = "closing"
  /\ UNCHANGED <<codespaceVars, signalled, writerVars, samplerVars>>

\* After the reader of the input, which the parent must end (README).
Returns ==
  /\ phase = "closing" /\ writer # "running"
  /\ phase' = "returned"
  /\ UNCHANGED <<codespaceVars, signalled, writerVars, samplerVars>>

\* The deferred clean-up, after the sampler has been joined.
Cleanup ==
  /\ phase = "returned" /\ sampler \in {"none", "stopped"}
  /\ phase' = "exited" /\ open' = open \ {registry[a] : a \in Aliases}
  /\ UNCHANGED <<callVars, sshVars, helperVars, pc, result, target, removed, ran, registry,
                 daemons, github, stopping, faults, signalled, writerVars, samplerVars>>

-----------------------------------------------------------------------------
(* The status line.  Its context ends with a signal and with the server    *)

Cancelled == signalled \/ phase = "returned"

SampleBegin ==
  /\ sampler = "idle" /\ ~Cancelled
  /\ \/ /\ ConnectedPrimary /\ Startup \in open
        /\ sampler' = "probing" /\ sample' = "none"
     \/ /\ ~ConnectedPrimary \/ Startup \notin open
        /\ sampler' = "publish" /\ sample' = "error"
  /\ UNCHANGED <<codespaceVars, serverVars, writerVars, steady, published, unwritten>>

\* Mutated sampling: does not look at the registry after the probe.
SampleEndUnchecked ==
  /\ sampler = "probing" /\ sampler' = "publish"
  /\ sample' \in {"error"} \cup (IF signalled THEN {} ELSE {"branch"})
  /\ UNCHANGED <<codespaceVars, serverVars, writerVars, steady, published, unwritten>>

\* The answer, or the end of the time the probe has, or of its context; then
\* the target is compared once more.
SampleEnd ==
  /\ sampler = "probing" /\ sampler' = "publish"
  /\ sample' \in {"error"} \cup
       (IF ConnectedPrimary /\ ~signalled THEN {"branch"} ELSE {})
  /\ UNCHANGED <<codespaceVars, serverVars, writerVars, steady, published, unwritten>>

\* A file of its own, renamed when it is complete.
Publish(status) ==
  /\ published' = status
  /\ UNCHANGED codespaceVars
Unpublished ==
  /\ Fault(FALSE)
  /\ UNCHANGED <<callVars, sshVars, helperVars, pc, result, target, removed, ran, registry,
                 executorVars, github, stopping, published>>

PublishSample ==
  /\ sampler = "publish" /\ sampler' = "idle"
  /\ sample' = "none" /\ steady' = TRUE
  /\ Publish(sample) \/ Unpublished
  /\ UNCHANGED <<serverVars, writerVars, unwritten>>

SamplerStops ==
  /\ sampler = "idle" /\ Cancelled /\ sampler' = "stopped"
  /\ \/ Publish("disconnected") /\ UNCHANGED unwritten
     \/ Unpublished /\ unwritten' = TRUE
  /\ UNCHANGED <<serverVars, writerVars, sample, steady>>

Sampler == SampleBegin \/ SampleEnd \/ PublishSample \/ SamplerStops

-----------------------------------------------------------------------------
\* History: a removal ends the steadiness of the sample under way.
Watch == steady' = (steady /\ (sampler = "probing" => registry'[Pinned] = Startup))

CodespaceStep ==
  /\ \/ \E c \in Calls : ConnectStep(c) \/ DeleteStep(c) \/ CommandStep(c)
     \/ MasterDies \/ Retire \/ Refresh
  /\ phase # "exited" /\ Watch
  /\ UNCHANGED <<serverVars, writerVars, sampler, sample, published, unwritten>>

Finished == phase = "exited" /\ UNCHANGED vars

Next ==
  \/ CodespaceStep
  \/ \E c \in Calls : Receive(c) \/ Respond(c)
  \/ Write \/ WriterFails \/ WriterDrains \/ WriterStops
  \/ Drain \/ Close \/ Returns \/ Cleanup \/ Sampler
  \/ Finished

Spec == Init /\ [][Next]_vars

-----------------------------------------------------------------------------
(* Properties                                                              *)

\* A codespace is connected once, and no daemon executor is forgotten: an open
\* one belongs to a connected codespace, or to the call that is about to
\* register it or to close it; none is open when the host is gone.
NoExecutorLeaks ==
  /\ \A a, b \in Aliases : a # b /\ registry[a] # None /\ registry[b] # None =>
       name[registry[a]] # name[registry[b]]
  /\ \A m \in open : \/ m \in Registered \/ (m \in Calls /\ pc[m] = "register")
                       \/ \E c \in Calls : pc[c] = "cleanup" /\ removed[c] = m
  /\ phase = "exited" => open = {}

\* A helper that a client has verified is whole, and stays so while others
\* deploy the same one, over connections that break half way
\* (deployBinaryWithDeps).
HelperWhole == \A m \in selected : helper[name[m]] = "whole"

\* A branch is shown only if the pinned codespace was connected all through
\* the probe, and nothing but the end after the host is gone, unless the file
\* could not be written.
StatusHonest ==
  /\ sample = "branch" => steady
  /\ phase = "exited" /\ sampler = "stopped" => published = "disconnected" \/ unwritten

\* Every call is answered, unless the host is stopping; what is in the channel
\* then is still written (runExtensionHostServer).
AnswerKept ==
  /\ dropped # {} => stopping
  /\ phase = "exited" /\ writer = "stopped" =>
       \A c \in Calls : At(c, "done") => c \in written \/ c \in dropped

\* What changes a file is started over there at most once, whatever becomes of
\* the daemon and the SSH master, and so is the command of remote_bash when
\* the executor speaks to a daemon; over SSH alone the handler may run it a
\* second time (runBashSyncFallback).  Nothing is run by a call that reports
\* that its target is not connected.
RunOnce ==
  \A c \in Calls :
    /\ tool[c] = "edit" => ran[c] <= 1
    /\ tool[c] = "bash" /\ target[c] \in daemons => ran[c] <= 1
    /\ result[c] = "refused" => ran[c] = 0
=============================================================================
