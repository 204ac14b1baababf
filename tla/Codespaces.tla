----------------------------- MODULE Codespaces -----------------------------
(***************************************************************************)
(* The registry of connected codespaces and what tool calls do to it:      *)
(* connect_codespace, create_codespace and delete_codespace                *)
(* (mcp/lifecycle.go, registry/registry.go), the SSH master they set up    *)
(* and share (ssh/client.go), the helper they deploy (deploy.go), and the  *)
(* commands that run over it.                                              *)
(*                                                                         *)
(* Every tool call is a goroutine of its own.  The registry's mutex covers *)
(* one operation, never a call: what a call checked may have changed when  *)
(* it acts on it.  A ManagedCodespace is known by the call that made it,   *)
(* as the code compares pointers.  `view' stands for the tools of the      *)
(* pinned workspace that only read, `edit' for the ones that change files, *)
(* under any alias, and `bash' for remote_bash without a process session.  *)
(***************************************************************************)
EXTENDS Naturals, FiniteSets

CONSTANTS
  Calls,     \* tool calls, each made once
  Startup,   \* the codespace connected before the first call
  Names,     \* codespaces of the account
  Home,      \* the one connected at startup
  Aliases,   \* aliases the registry may hold
  Pinned,    \* the alias of Startup, which the workspace is pinned to
  Setups,    \* what Startup may have been set up with
  MaxFaults, \* bound: remote commands and connections that fail
  None

Tools == {"connect", "create", "delete", "view", "edit", "bash"}

\* What the deployed helper does when there is no daemon.
Filesystem == {"view", "edit"}

ASSUME CodespacesAssumption ==
  /\ Home \in Names /\ Pinned \in Aliases /\ MaxFaults \in Nat
  /\ Setups \subseteq SUBSET {"daemon", "master", "helper"}
  /\ Startup \notin Calls /\ None \notin Calls \cup {Startup} \cup Aliases

Managed == Calls \cup {Startup}

VARIABLES
  tool, alias, name, \* of each call: what it does, under which alias or none, with what
  pc, result,        \* where it is, and how it ended
  target, removed,   \* the ManagedCodespace a call resolved; the one it removed
  ran,               \* how often the command of a call was started over there
  registry,          \* the ManagedCodespace under each alias
  daemons,           \* those whose executor speaks to a daemon
  open,              \* those whose daemon executor is open (Cleanup closes it)
  github,            \* codespaces that exist
  master,            \* those with an SSH control master that works
  mux,               \* clients with an SSH config path
  helper, seen,      \* the helper file of each codespace; what an upload saw there
  selected,          \* clients with a verified helper path
  stopping,          \* the contexts of all calls have ended
  faults

callVars   == <<tool, alias, name>>
sshVars    == <<master, mux>>
helperVars == <<helper, seen, selected>>
executorVars == <<daemons, open>>
codespaceVars == <<callVars, sshVars, helperVars, executorVars, pc, result, target,
                   removed, ran, registry, github, stopping, faults>>

Steps == {"idle", "start", "ready", "setup", "retired", "digest", "upload", "place",
          "verify", "wrap", "register", "deregister", "cleanup", "remove", "resolve",
          "run", "muxed", "plain", "again", "respond", "blocked", "done"}

CodespacesTypeOK ==
  /\ tool \in [Calls -> Tools] /\ alias \in [Calls -> Aliases \cup {None}]
  /\ name \in [Managed -> Names]
  /\ pc \in [Calls -> Steps]
  /\ result \in [Calls -> {"none", "ok", "refused", "failed"}]
  /\ target \in [Calls -> Managed \cup {None}]
  /\ removed \in [Calls -> Managed \cup {None}] /\ ran \in [Calls -> 0 .. 2]
  /\ registry \in [Aliases -> Managed \cup {None}]
  /\ daemons \subseteq Managed /\ open \subseteq daemons /\ mux \subseteq Managed /\ selected \subseteq Managed
  /\ github \subseteq Names /\ master \subseteq Names
  /\ helper \in [Names -> {"none", "corrupt", "whole"}]
  /\ seen \in [Calls -> {"none", "corrupt", "whole"}]
  /\ stopping \in BOOLEAN /\ faults \in 0 .. MaxFaults

\* What view and delete work with is in the registry: no name of their own.
\* toolRuntimeInputsFromEnv: Startup may lack a daemon, a master or a helper.
CodespacesInit ==
  /\ tool \in [Calls -> Tools] /\ alias \in [Calls -> Aliases \cup {None}]
  /\ name \in {n \in [Managed -> Names] : n[Startup] = Home}
  /\ \A c \in Calls : tool[c] \in Filesystem \cup {"bash", "delete"} => name[c] = Home
  /\ \A c \in Calls : tool[c] \notin {"edit", "bash"} => alias[c] # None
  /\ \A c \in Calls : tool[c] = "view" => alias[c] = Pinned
  /\ \A c \in Calls : tool[c] = "create" => name[c] # Home
  /\ pc = [c \in Calls |-> "idle"] /\ result = [c \in Calls |-> "none"]
  /\ target = [c \in Calls |-> None] /\ removed = target
  /\ ran = [c \in Calls |-> 0]
  /\ registry = [a \in Aliases |-> IF a = Pinned THEN Startup ELSE None]
  /\ \E s \in Setups :
       /\ open = {m \in {Startup} : "daemon" \in s} /\ daemons = open
       /\ mux = {m \in {Startup} : "master" \in s}
       /\ selected = {m \in {Startup} : "helper" \in s}
  /\ github = Names \ {name[c] : c \in {d \in Calls : tool[d] = "create"}}
  /\ master = {name[m] : m \in mux}
  /\ helper \in [Names -> {"none", "corrupt", "whole"}]
  /\ \A n \in Names : helper[n] = "whole" <=> (n = Home /\ selected # {})
  /\ seen = [c \in Calls |-> "none"]
  /\ stopping = FALSE /\ faults = 0

-----------------------------------------------------------------------------
\* A step fails for a reason, or by itself, with the network or the other end.
Fault(reason) ==
  \/ reason /\ UNCHANGED faults
  \/ ~reason /\ faults < MaxFaults /\ faults' = faults + 1

At(c, l) == pc[c] = l
Goto(c, l) == pc' = [pc EXCEPT ![c] = l] /\ UNCHANGED result
Return(c, r) == pc' = [pc EXCEPT ![c] = "respond"] /\ result' = [result EXCEPT ![c] = r]

(* registry.go *)

Registered == {registry[a] : a \in Aliases} \ {None}

\* Without an alias it is the only one there is.
Resolve(a) == IF a # None THEN registry[a]
              ELSE IF \E m \in Registered : Registered = {m}
                   THEN CHOOSE m \in Registered : Registered = {m} ELSE None
FindByName(n) == {a \in Aliases : registry[a] # None /\ name[registry[a]] = n}
Deregister(a) == registry' = [registry EXCEPT ![a] = None]
\* The suffixes stand for any alias that is not taken.
DefaultAlias == {a \in Aliases : registry[a] = None}

Register(c) ==
  /\ registry[alias[c]] = None /\ FindByName(name[c]) = {}
  /\ registry' = [registry EXCEPT ![alias[c]] = c]

-----------------------------------------------------------------------------
(* connect_codespace and create_codespace                                  *)

Taken(c) == Resolve(alias[c]) # None

\* The alias was given, or is derived: then another one is found if it is taken.
ConnectCheck(c) ==
  /\ At(c, "start") /\ tool[c] = "connect"
  /\ \/ /\ FindByName(name[c]) = {} /\ ~Taken(c)
        /\ Goto(c, "setup") /\ UNCHANGED alias
     \/ /\ FindByName(name[c]) = {} /\ Taken(c)
        /\ \E a \in DefaultAlias : alias' = [alias EXCEPT ![c] = a]
        /\ Goto(c, "setup")
     \/ /\ FindByName(name[c]) # {} \/ Taken(c)
        /\ Return(c, "refused") /\ UNCHANGED alias
  /\ UNCHANGED <<tool, name, sshVars, helperVars, target, removed, ran, registry,
                 executorVars, github, stopping, faults>>

\* gh codespace create, then up to 30 tries until it answers.
Create(c) ==
  /\ At(c, "start") /\ tool[c] = "create"
  /\ \/ /\ ~Taken(c) /\ ~stopping /\ name[c] \notin github
        /\ github' = github \cup {name[c]}
        /\ Goto(c, "ready") /\ UNCHANGED faults
     \/ /\ Fault(Taken(c) \/ stopping \/ name[c] \in github)
        /\ Return(c, "failed") /\ UNCHANGED github
  /\ UNCHANGED <<callVars, sshVars, helperVars, target, removed, ran, registry,
                 executorVars, stopping>>

WaitReady(c) ==
  /\ At(c, "ready")
  /\ \/ /\ ~stopping /\ name[c] \in github
        /\ Goto(c, "setup") /\ UNCHANGED faults
     \/ /\ Fault(stopping \/ name[c] \notin github)
        /\ Return(c, "failed")
  /\ UNCHANGED <<callVars, sshVars, helperVars, target, removed, ran, registry,
                 executorVars, github, stopping>>

\* SetupMultiplexing: a master that answers is shared; one that does not is
\* told to exit and its socket removed.
ReuseMaster(c) ==
  /\ At(c, "setup")
  /\ \/ /\ name[c] \in master /\ ~stopping
        /\ mux' = mux \cup {c} /\ Goto(c, "digest") /\ UNCHANGED <<master, faults>>
     \/ /\ Fault(name[c] \notin master \/ stopping)
        /\ master' = master \ {name[c]}
        /\ Goto(c, "retired") /\ UNCHANGED mux
  /\ UNCHANGED <<callVars, helperVars, target, removed, ran, registry,
                 executorVars, github, stopping>>

\* Two attempts; a master that cannot be had leaves the client without one.
EstablishMaster(c) ==
  /\ At(c, "retired")
  /\ \/ /\ name[c] \in github /\ ~stopping
        /\ master' = master \cup {name[c]} /\ mux' = mux \cup {c}
        /\ Goto(c, "digest") /\ UNCHANGED faults
     \/ /\ ~stopping /\ Fault(FALSE)
        /\ Goto(c, "digest") /\ UNCHANGED sshVars
     \/ /\ Fault(name[c] \notin github \/ stopping)
        /\ Return(c, "failed") /\ UNCHANGED sshVars
  /\ UNCHANGED <<callVars, helperVars, target, removed, ran, registry,
                 executorVars, github, stopping>>

-----------------------------------------------------------------------------
(* deployBinary: a failure is only reported, and the call goes on without  *)

Lost(c) == stopping \/ name[c] \notin github
Undeployed(c) == Goto(c, "wrap") /\ UNCHANGED helperVars

\* deployedHelperDigest, before an upload and after it; then the helper is
\* probed and selected.
CheckDigest(c) ==
  /\ At(c, "digest") \/ At(c, "verify")
  /\ \/ /\ ~Lost(c) /\ helper[name[c]] = "whole"
        /\ selected' = selected \cup {c}
        /\ Goto(c, "wrap") /\ UNCHANGED <<helper, seen, faults>>
     \/ /\ ~Lost(c) /\ At(c, "digest") /\ helper[name[c]] # "whole"
        /\ Goto(c, "upload") /\ UNCHANGED <<helperVars, faults>>
     \/ /\ Fault(Lost(c) \/ (At(c, "verify") /\ helper[name[c]] # "whole"))
        /\ Undeployed(c)
  /\ UNCHANGED <<callVars, sshVars, target, removed, ran, registry,
                 executorVars, github, stopping>>

\* The script uploads to a name of its own and looks at the destination only
\* when the checksum is right; a connection that is lost ends the upload.
Upload(c) ==
  /\ At(c, "upload")
  /\ \/ /\ ~Lost(c) /\ seen' = [seen EXCEPT ![c] = helper[name[c]]]
        /\ Goto(c, "place") /\ UNCHANGED <<helper, selected, faults>>
     \/ Fault(Lost(c)) /\ Undeployed(c)
  /\ UNCHANGED <<callVars, sshVars, target, removed, ran, registry,
                 executorVars, github, stopping>>

\* mv -f over a corrupt file, mv -n otherwise.
Placed(c) == IF seen[c] = "corrupt" \/ helper[name[c]] = "none" THEN "whole"
             ELSE helper[name[c]]

\* A script whose caller has lost it may have got there or not.
Place(c) ==
  /\ At(c, "place")
  /\ \/ /\ ~Lost(c) /\ helper' = [helper EXCEPT ![name[c]] = Placed(c)]
        /\ Goto(c, "verify") /\ UNCHANGED faults
     \/ /\ Fault(Lost(c))
        /\ helper' \in {helper, [helper EXCEPT ![name[c]] = Placed(c)]}
        /\ Goto(c, "wrap")
  /\ seen' = [seen EXCEPT ![c] = "none"]
  /\ UNCHANGED <<callVars, sshVars, selected, target, removed, ran, registry,
                 executorVars, github, stopping>>

-----------------------------------------------------------------------------
\* ExecutorSetup dials the daemon, or leaves the SSH client as the executor.
Wrap(c) ==
  /\ At(c, "wrap") /\ Goto(c, "register")
  /\ \/ /\ ~Lost(c) /\ daemons' = daemons \cup {c} /\ open' = open \cup {c}
        /\ UNCHANGED faults
     \/ Fault(Lost(c)) /\ UNCHANGED executorVars
  /\ UNCHANGED <<callVars, sshVars, helperVars, target, removed, ran, registry,
                 github, stopping>>

\* Another call may have taken the alias or the codespace meanwhile.
Finish(c) ==
  /\ At(c, "register")
  /\ \/ Register(c) /\ Return(c, "ok") /\ UNCHANGED open
     \/ /\ Taken(c) \/ FindByName(name[c]) # {}
        /\ open' = open \ {c} /\ Return(c, "failed") /\ UNCHANGED registry
  /\ UNCHANGED <<callVars, sshVars, helperVars, target, removed, ran, daemons, github,
                 stopping, faults>>

-----------------------------------------------------------------------------
(* delete_codespace: resolved by its alias, and removed by its alias       *)

DeleteResolve(c) ==
  /\ At(c, "start") /\ tool[c] = "delete"
  /\ target' = [target EXCEPT ![c] = Resolve(alias[c])]
  /\ \/ Taken(c) /\ Goto(c, "deregister")
     \/ ~Taken(c) /\ Return(c, "refused")
  /\ UNCHANGED <<callVars, sshVars, helperVars, removed, ran, registry, executorVars, github,
                 stopping, faults>>

\* What is under the alias by now, whether or not it is what was resolved.
DeleteDeregister(c) ==
  /\ At(c, "deregister")
  /\ removed' = [removed EXCEPT ![c] = registry[alias[c]]]
  /\ Deregister(alias[c]) /\ Goto(c, "cleanup")
  /\ UNCHANGED <<callVars, sshVars, helperVars, target, ran, executorVars, github,
                 stopping, faults>>

\* With `delete' the codespace goes, too.
DeleteCleanup(c) ==
  /\ At(c, "cleanup")
  /\ open' = open \ {removed[c]} /\ removed' = [removed EXCEPT ![c] = None]
  /\ Goto(c, "remove") \/ Return(c, "ok")
  /\ UNCHANGED <<callVars, sshVars, helperVars, target, ran, registry, daemons, github,
                 stopping, faults>>

DeleteRemote(c) ==
  LET n == name[target[c]] IN
  /\ At(c, "remove")
  /\ \/ /\ ~stopping /\ github' = github \ {n} /\ master' = master \ {n}
        /\ Return(c, "ok") /\ UNCHANGED faults
     \/ Fault(stopping) /\ Return(c, "failed") /\ UNCHANGED <<github, master>>
  /\ UNCHANGED <<callVars, mux, helperVars, target, removed, ran, registry, executorVars,
                 stopping>>

-----------------------------------------------------------------------------
(* Commands                                                                *)

\* WorkspaceRuntime.connectedPrimary
ConnectedPrimary == Resolve(Pinned) = Startup

\* The tools of the workspace are pinned to what was connected at startup.
WorkspaceCall(c) ==
  /\ At(c, "start") /\ tool[c] \in Filesystem \cup {"bash"}
  /\ \/ (tool[c] = "view" => ConnectedPrimary) /\ Goto(c, "resolve")
     \/ tool[c] = "view" /\ ~ConnectedPrimary /\ Return(c, "refused")
  /\ UNCHANGED <<callVars, sshVars, helperVars, target, removed, ran, registry,
                 executorVars, github, stopping, faults>>

\* The handler resolves the alias again.
HandlerResolve(c) ==
  /\ At(c, "resolve")
  /\ target' = [target EXCEPT ![c] = Resolve(alias[c])]
  /\ \/ Taken(c) /\ Goto(c, "run")
     \/ ~Taken(c) /\ Return(c, "refused")
  /\ UNCHANGED <<callVars, sshVars, helperVars, removed, ran, registry, executorVars, github,
                 stopping, faults>>

Started(c) == ran' = [ran EXCEPT ![c] = @ + 1]

Effect(c) == UNCHANGED ran \/ Started(c)

\* Mutated rule: forgets that the outcome of a lost connection is unknown.
FallBackAnyway(c, lost) == tool[c] = "bash" /\ ~stopping

\* canFallbackAfterSessionStartError, in sync mode.
FallsBack(c, lost) == tool[c] = "bash" /\ ~stopping /\ ~lost

\* remote_bash whose session could not be started runs its command once more.
Fails(c, lost) == Return(c, "failed") \/ (FallsBack(c, lost) /\ Goto(c, "again"))

\* Over the daemon, which answers, refuses to start the command (Sessions), or
\* is lost before or after it has.
RunOnDaemon(c) ==
  /\ At(c, "run") /\ target[c] \in daemons
  /\ \/ target[c] \in open /\ Started(c) /\ Return(c, "ok") /\ UNCHANGED faults
     \/ Fault(stopping \/ target[c] \notin open) /\ Effect(c) /\ Fails(c, TRUE)
     \/ Fault(target[c] \notin open) /\ Fails(c, FALSE) /\ UNCHANGED ran
  /\ UNCHANGED <<callVars, sshVars, helperVars, target, removed, registry, executorVars,
                 github, stopping>>

\* Over SSH, with or without the master, or not at all.
RunDirect(c) ==
  LET unhelped == tool[c] \in Filesystem /\ target[c] \notin selected IN
  /\ At(c, "run") /\ target[c] \notin daemons
  /\ IF unhelped THEN Return(c, "failed")
     ELSE Goto(c, IF target[c] \in mux THEN "muxed" ELSE "plain")
  /\ UNCHANGED <<callVars, sshVars, helperVars, target, removed, ran, registry,
                 executorVars, github, stopping, faults>>

\* The transport of a command failed, before or after it ran.
Broken(c) == /\ target[c] \in mux /\ name[target[c]] \notin master /\ ~stopping
             /\ Effect(c)

\* execReadOnlyWithInput runs a command that reads once more.
Retryable(c) == tool[c] = "view"

\* Mutated retry: over the same master.
RunOverMaster(c) == UNCHANGED <<pc, result, mux>>

\* disableMultiplexing removes the socket and the config path: from then on
\* ssh connects by itself.
RunAgain(c) == mux' = mux \ {target[c]} /\ Goto(c, "plain")

\* A config path that another call has emptied makes ssh fail in a way that is
\* not retried.
Muxed(c) ==
  LET m == target[c] IN
  /\ At(c, "muxed")
  /\ \/ /\ m \in mux /\ name[m] \in master \cup github /\ ~stopping
        /\ Started(c) /\ Return(c, "ok") /\ UNCHANGED <<mux, faults>>
     \/ Broken(c) /\ Retryable(c) /\ RunAgain(c) /\ UNCHANGED faults
     \/ Broken(c) /\ ~Retryable(c) /\ Fails(c, FALSE) /\ UNCHANGED <<mux, faults>>
     \/ /\ Fault(m \notin mux \/ stopping) /\ Effect(c)
        /\ Fails(c, FALSE) /\ UNCHANGED mux
  /\ UNCHANGED <<callVars, master, helperVars, target, removed, registry, executorVars,
                 github, stopping>>

Plain(c) ==
  /\ At(c, "plain")
  /\ \/ /\ name[target[c]] \in github /\ ~stopping
        /\ Started(c) /\ Return(c, "ok") /\ UNCHANGED faults
     \/ /\ Fault(stopping \/ name[target[c]] \notin github) /\ Effect(c)
        /\ Fails(c, FALSE)
  /\ UNCHANGED <<callVars, sshVars, helperVars, target, removed, registry, executorVars,
                 github, stopping>>

\* runBashSyncFallback: RunBash over the same executor, whatever has started.
RunBash(c) ==
  LET m    == target[c]
      gone == IF m \in daemons THEN m \notin open ELSE name[m] \notin github IN
  /\ At(c, "again")
  /\ \/ ~gone /\ ~stopping /\ Started(c) /\ Return(c, "ok") /\ UNCHANGED faults
     \/ /\ Fault(gone \/ stopping \/ name[m] \notin master) /\ Effect(c)
        /\ Return(c, "failed")
  /\ UNCHANGED <<callVars, sshVars, helperVars, target, removed, registry, executorVars,
                 github, stopping>>

-----------------------------------------------------------------------------
(* The network, and the daemon client's recovery                           *)

MasterDies ==
  \E n \in master :
    /\ Fault(FALSE) /\ master' = master \ {n}
    /\ UNCHANGED <<callVars, mux, helperVars, pc, result, target, removed, ran,
                   registry, executorVars, github, stopping>>

\* RefreshMultiplexing, when a connection to the daemon is lost: what is there
\* is retired first.
Retire ==
  \E m \in open \cap mux :
    /\ Fault(name[m] \notin master) /\ ~stopping
    /\ master' = master \ {name[m]} /\ mux' = mux \ {m}
    /\ UNCHANGED <<callVars, helperVars, pc, result, target, removed, ran, registry,
                   executorVars, github, stopping>>
Refresh ==
  \E m \in open \ mux :
    /\ name[m] \in github /\ ~stopping
    /\ master' = master \cup {name[m]} /\ mux' = mux \cup {m}
    /\ UNCHANGED <<callVars, helperVars, pc, result, target, removed, ran, registry,
                   executorVars, github, stopping, faults>>

ConnectStep(c) ==
  \/ ConnectCheck(c) \/ Create(c) \/ WaitReady(c) \/ ReuseMaster(c) \/ EstablishMaster(c)
  \/ CheckDigest(c) \/ Upload(c) \/ Place(c) \/ Wrap(c) \/ Finish(c)
DeleteStep(c) ==
  DeleteResolve(c) \/ DeleteDeregister(c) \/ DeleteCleanup(c) \/ DeleteRemote(c)
CommandStep(c) ==
  \/ WorkspaceCall(c) \/ HandlerResolve(c) \/ RunOnDaemon(c) \/ RunDirect(c)
  \/ Muxed(c) \/ Plain(c) \/ RunBash(c)
=============================================================================
