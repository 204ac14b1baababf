----------------------------- MODULE RemoteBash -----------------------------
(***************************************************************************)
(* One session of remote_bash and the calls that follow it by its shellId: *)
(* remote_bash itself, remote_read_bash, remote_write_bash and             *)
(* remote_stop_bash (server.go).  The session is kept by one of               *)
(*   "direct"   tmux, driven by commands over SSH (ssh.Client)             *)
(*   "tmux"     tmux, driven by the daemon                                 *)
(*   "process"  a process of the daemon                                    *)
(* How the daemon starts and stops sessions step by step is in Sessions;   *)
(* this module is about what their readers see, and when.  The output is a *)
(* number of units, of which a reader sees the last Tail.                  *)
(***************************************************************************)
EXTENDS Integers

CONSTANTS
  Starter,   \* the remote_bash call
  Others,    \* the other calls
  Length,    \* bound: units that the command prints
  Tail,      \* units that a reader sees (100 lines)
  Markers    \* which unit of the output is the text "[session exited]", 0: none

ASSUME CallsAssumption == Starter \notin Others
ASSUME LengthAssumption == Length \in Nat /\ Tail \in Nat \ {0}
ASSUME MarkersAssumption == Markers \subseteq Nat

VARIABLES
  backend,  \* what keeps the session
  async,    \* the mode of remote_bash
  marker,   \* the unit that looks like the marker
  command,  \* "none", "running", or how it ended: "over", "killed"
  printed,  \* units it has printed
  session,  \* "none", "open", "stopping" (a process that is being stopped), "gone"
  remain,   \* remain-on-exit is set
  dead,     \* tmux has seen the end of the pane
  noted,    \* the exit status is noted: in the tmux option, or in the session
  woken,    \* its done channel is closed
  call

requestVars == <<backend, async, marker>>
sessionVars == <<command, printed, session, remain, dead, noted, woken>>
vars == <<requestVars, sessionVars, call>>

Calls == Others \union {Starter}

\* final: it reads once more, without a deadline; due: its wait has passed;
\* seen: units captured; ended: the command had ended by then; exited: the
\* answer says that it has, "pane" when the pane was found dead and "text" when
\* only the output says so.
\* History: broke, a command of its own failed or it was canceled; cut, it
\* stopped a running command.
NoCall ==
  [pc |-> "idle", due |-> FALSE, final |-> FALSE, seen |-> 0, ended |-> FALSE,
   exited |-> "no", ok |-> FALSE, broke |-> FALSE, cut |-> FALSE]

Init ==
  /\ backend \in {"direct", "tmux", "process"} /\ async \in BOOLEAN
  /\ backend = "process" => ~async
  /\ marker \in Markers
  /\ command = "none" /\ printed = 0 /\ session = "none"
  /\ remain = FALSE /\ dead = FALSE /\ noted = FALSE /\ woken = FALSE
  /\ call = [c \in Calls |-> NoCall]

Open == session \in {"open", "stopping"}
Ended == command \in {"over", "killed"}
At(c, p) == call[c].pc = p
Goto(c, p) == call' = [call EXCEPT ![c].pc = p]
\* The deadline of the wait has cut off the command under way.
Expired(c) == call[c].due /\ ~call[c].final
Marked(n) == marker > 0 /\ marker \in (n - Tail + 1)..n

\* remote_bash stops its session when the command has ended and when the read
\* of it has failed, unless the session was asked for (mode async).
After(c, exited) ==
  IF c = Starter /\ ~async /\ exited # "no" THEN "cleanup" ELSE "done"
Answer(c, n, ended, exited) ==
  call' = [call EXCEPT ![c].pc = After(c, exited), ![c].ok = TRUE, ![c].seen = n,
                       ![c].ended = ended, ![c].exited = exited]
Error(c) ==
  call' = [call EXCEPT ![c].pc = After(c, "error"), ![c].ok = (c = Starter /\ async)]

-----------------------------------------------------------------------------
(* The command and its session                                             *)

Prints ==
  /\ command = "running" /\ printed < Length
  /\ printed' = printed + 1
  /\ UNCHANGED <<requestVars, command, session, remain, dead, noted, woken, call>>

\* A pane without remain-on-exit takes its session along.
Ends(how) ==
  /\ command = "running"
  /\ command' = how
  /\ session' = IF backend = "direct" /\ ~remain THEN "gone" ELSE session
  /\ UNCHANGED <<requestVars, printed, remain, dead, noted, woken, call>>

\* The supervisor sets the exit status option, unless it was killed too;
\* cmd.Wait returns.
Note ==
  /\ Open /\ ~noted
  /\ \/ backend = "tmux" /\ command = "over"
     \/ backend = "process" /\ Ended
  /\ noted' = TRUE
  /\ UNCHANGED <<requestVars, command, printed, session, remain, dead, woken, call>>

Wake ==
  /\ noted /\ ~woken
  /\ woken' = TRUE
  /\ UNCHANGED <<requestVars, command, printed, session, remain, dead, noted, call>>

PaneDies ==
  /\ Open /\ Ended /\ ~dead /\ backend # "process"
  /\ backend = "tmux" => woken \/ command = "killed"
  /\ dead' = TRUE
  /\ UNCHANGED <<requestVars, command, printed, session, remain, noted, woken, call>>

-----------------------------------------------------------------------------
(* Starting                                                                *)

\* Where a call with a wait, or one that reads once, begins to read.
First(once) ==
  CASE backend = "direct" -> "loop"
    [] backend = "tmux" -> IF once THEN "check" ELSE "channel"
    [] backend = "process" -> "load"

Reads(c, once) ==
  call' = [call EXCEPT ![c].pc = IF c = Starter /\ async THEN "check" ELSE First(once),
                       ![c].final = (once \/ (c = Starter /\ async))]

\* remote_bash, or remote_read_bash, remote_write_bash and remote_stop_bash.
Begin(c) ==
  /\ At(c, "idle")
  /\ \E first \in IF c = Starter THEN {"start"} ELSE {"read", "send", "stop"} : Goto(c, first)
  /\ UNCHANGED <<requestVars, sessionVars>>

Start(c) ==
  /\ At(c, "start")
  /\ session' = "open" /\ command' = "running"
  /\ IF backend = "direct" THEN Goto(c, "remain") ELSE Goto(c, "read")
  /\ UNCHANGED <<requestVars, printed, remain, dead, noted, woken>>

SetRemain(c) ==
  /\ At(c, "remain") /\ Open
  /\ remain' = TRUE /\ Goto(c, "read")
  /\ UNCHANGED <<requestVars, command, printed, session, dead, noted, woken>>

\* A failed start of a tmux session, even of one that runs the command, is
\* followed by RunBash, unless the call was canceled or the daemon is lost.
StartFails(c) ==
  /\ \/ At(c, "start") \/ At(c, "remain")
  /\ \/ Goto(c, "done")
     \/ backend # "process" /\ ~async /\ Goto(c, "fallback")
  /\ UNCHANGED <<requestVars, sessionVars>>

RunBash(c) ==
  /\ At(c, "fallback")
  /\ \E ok \in BOOLEAN : call' = [call EXCEPT ![c].pc = "done", ![c].ok = ok]
  /\ UNCHANGED <<requestVars, sessionVars>>

\* A pane takes keys, a process takes no input.
TakesInput == Open /\ backend # "process"

Send(c) ==
  /\ At(c, "send")
  /\ IF TakesInput THEN Goto(c, "read") ELSE Error(c)
  /\ UNCHANGED <<requestVars, sessionVars>>

Read(c) ==
  /\ At(c, "read")
  /\ \E once \in BOOLEAN : Reads(c, once)
  /\ UNCHANGED <<requestVars, sessionVars>>

-----------------------------------------------------------------------------
(* Reading tmux                                                            *)

Loop(c) ==
  /\ At(c, "loop")
  /\ IF Expired(c) THEN Answer(c, call[c].seen, call[c].ended, "no") ELSE Goto(c, "check")
  /\ UNCHANGED <<requestVars, sessionVars>>

Channel(c) ==
  /\ At(c, "channel")
  /\ IF Open THEN Goto(c, "check") ELSE Error(c)
  /\ UNCHANGED <<requestVars, sessionVars>>

Check(c) ==
  /\ At(c, "check")
  /\ IF Open THEN Goto(c, "capture") ELSE Error(c)
  /\ UNCHANGED <<requestVars, sessionVars>>

Capture(c) ==
  /\ At(c, "capture")
  /\ IF Open
     THEN call' = [call EXCEPT ![c].pc = IF backend = "direct" THEN "status" ELSE "option",
                               ![c].seen = printed, ![c].ended = Ended]
     ELSE Error(c)
  /\ UNCHANGED <<requestVars, sessionVars>>

\* Mutant of Option: the output is not captured again.
OptionEnough(c) ==
  /\ At(c, "option")
  /\ IF Open /\ noted THEN Answer(c, call[c].seen, call[c].ended, "yes") ELSE Goto(c, "status")
  /\ UNCHANGED <<requestVars, sessionVars>>

\* A status that cannot be read is that of a command that runs.
Option(c) ==
  /\ At(c, "option")
  /\ \E read \in BOOLEAN : Goto(c, IF read /\ Open /\ noted THEN "recapture" ELSE "status")
  /\ UNCHANGED <<requestVars, sessionVars>>

Recapture(c) ==
  /\ At(c, "recapture")
  /\ IF Open THEN Answer(c, printed, Ended, "yes") ELSE Error(c)
  /\ UNCHANGED <<requestVars, sessionVars>>

\* What the call does with a capture of a pane that has ended or not.
Judge(c, exited) ==
  IF call[c].final \/ exited # "no" \/ (backend = "direct" /\ call[c].due)
  THEN Answer(c, call[c].seen, call[c].ended, exited)
  ELSE Goto(c, IF backend = "direct" THEN "sleep" ELSE "await")

\* Over SSH only a pane with an exit status is seen as dead.
Status(c) ==
  /\ At(c, "status")
  /\ \E read \in BOOLEAN :
       Judge(c, IF read /\ Open /\ dead /\ (backend = "direct" => command = "over") THEN "pane"
                ELSE IF backend = "direct" /\ Marked(call[c].seen) THEN "text" ELSE "no")
  /\ UNCHANGED <<requestVars, sessionVars>>

Sleep(c) ==
  /\ At(c, "sleep")
  /\ Goto(c, "loop")
  /\ UNCHANGED <<requestVars, sessionVars>>

-----------------------------------------------------------------------------
(* Reading a process, and waiting in the daemon                            *)

Load(c) ==
  /\ At(c, "load")
  /\ IF Open THEN Goto(c, IF call[c].final THEN "snapshot" ELSE "await") ELSE Error(c)
  /\ UNCHANGED <<requestVars, sessionVars>>

Await(c) ==
  /\ At(c, "await") /\ (woken \/ call[c].due)
  /\ call' = [call EXCEPT ![c].pc = IF backend = "process" THEN "snapshot" ELSE "check",
                          ![c].final = TRUE]
  /\ UNCHANGED <<requestVars, sessionVars>>

\* The status first, then the output.
Snapshot(c) ==
  /\ At(c, "snapshot")
  /\ call' = [call EXCEPT ![c].pc = "output", ![c].exited = IF noted THEN "yes" ELSE "no"]
  /\ UNCHANGED <<requestVars, sessionVars>>

Output(c) ==
  /\ At(c, "output")
  /\ Answer(c, printed, Ended, call[c].exited)
  /\ UNCHANGED <<requestVars, sessionVars>>

-----------------------------------------------------------------------------
(* Time, failures and the end                                              *)

Reading == {"loop", "channel", "check", "capture", "option", "recapture", "status",
            "sleep", "load", "await", "snapshot", "output"}

TimePasses(c) ==
  /\ call[c].pc \in Reading /\ ~call[c].final /\ ~call[c].due
  /\ call' = [call EXCEPT ![c].due = TRUE]
  /\ UNCHANGED <<requestVars, sessionVars>>

\* The deadline passes in a tmux command.  Over SSH waitForSessionOutput takes
\* the capture's DeadlineExceeded for the end of the wait; the check does not
\* tell it from a session that is not there.  The daemon reads once more.
CutOff(c) ==
  /\ Expired(c) /\ call[c].pc \in {"channel", "check", "capture", "recapture"}
  /\ CASE backend # "direct" -> call' = [call EXCEPT ![c].pc = "check", ![c].final = TRUE]
       [] At(c, "check") -> Error(c)
       [] OTHER -> Answer(c, call[c].seen, call[c].ended, "no")
  /\ UNCHANGED <<requestVars, sessionVars>>

\* A command of the call fails, the daemon is lost, or the call is canceled.
Breaks(c) ==
  /\ call[c].pc \in Reading \union {"send"}
  /\ call' = [call EXCEPT ![c].pc = After(c, "error"), ![c].ok = (c = Starter /\ async),
                          ![c].broke = TRUE, ![c].exited = "no"]
  /\ UNCHANGED <<requestVars, sessionVars>>

\* kill-session, or the signals of the daemon.
Kill(c) ==
  /\ Open /\ \/ At(c, "stop") \/ At(c, "cleanup")
  /\ command' = IF command = "running" THEN "killed" ELSE command
  /\ session' = IF backend = "process" THEN "stopping" ELSE "gone"
  /\ woken' = (woken \/ backend = "tmux")
  /\ call' = [call EXCEPT ![c].pc = IF backend = "process" THEN "remove" ELSE "done",
                          ![c].cut = (command = "running")]
  /\ UNCHANGED <<requestVars, printed, remain, dead, noted>>

\* The daemon removes a process session when the process has ended, whether
\* the call that stopped it still waits or not.
Remove ==
  /\ session = "stopping" /\ woken
  /\ session' = "gone"
  /\ UNCHANGED <<requestVars, command, printed, remain, dead, noted, woken, call>>

Removed(c) ==
  /\ At(c, "remove") /\ session = "gone"
  /\ Goto(c, "done")
  /\ UNCHANGED <<requestVars, sessionVars>>

\* There is no such session, or the command failed: an error of
\* remote_stop_bash, a warning of remote_bash.
StopFails(c) ==
  /\ call[c].pc \in {"stop", "cleanup", "remove"}
  /\ Goto(c, "done")
  /\ UNCHANGED <<requestVars, sessionVars>>

Next ==
  \/ Prints \/ Ends("over") \/ Ends("killed") \/ Note \/ Wake \/ PaneDies \/ Remove
  \/ \E c \in Calls :
       \/ Begin(c) \/ Start(c) \/ SetRemain(c) \/ StartFails(c) \/ RunBash(c)
       \/ Send(c) \/ Read(c) \/ Loop(c) \/ Channel(c) \/ Check(c) \/ Capture(c)
       \/ Option(c) \/ Recapture(c) \/ Status(c) \/ Sleep(c)
       \/ Load(c) \/ Await(c) \/ Snapshot(c) \/ Output(c)
       \/ TimePasses(c) \/ CutOff(c) \/ Breaks(c)
       \/ Kill(c) \/ Removed(c) \/ StopFails(c)

Spec == Init /\ [][Next]_vars
-----------------------------------------------------------------------------
(* Properties                                                              *)

\* Who is told that the session has exited is told so of a command that has
\* ended, and sees all that it printed (ReadSession, daemonReadSessionState,
\* snapshot).  Excepted is the output of a pane that still lived when it was
\* captured and was dead when its status was read, and, over SSH, a command
\* that prints the text "[session exited]" itself.
FinalAnswer ==
  \A c \in Calls : call[c].ok =>
    /\ call[c].exited \in {"yes", "pane"} => Ended
    /\ call[c].exited = "yes" \/ (call[c].exited = "pane" /\ call[c].ended) =>
         call[c].seen = printed

\* remote_bash lets a command go on that its wait was too short for: it stops
\* one only when its own reading failed or was canceled (bashHandler).
LeavesRunning == call[Starter].cut => call[Starter].broke
=============================================================================
