------------------------------ MODULE FileWrite ------------------------------
(***************************************************************************)
(* One file is replaced whole, or created, under a path of a work          *)
(* directory.  The protocol exists twice: on the codespace                 *)
(* (daemon_rooted_unix.go, for remote_copy and for the create tool; the    *)
(* daemon runs it, or the deployed helper when there is no daemon) and on  *)
(* the local side of remote_copy (mcp/local_copy_open_unix.go).            *)
(*                                                                         *)
(* Several writers work on one path, without a lock, and other programs    *)
(* change it too.  A step is one call on the file system that the others   *)
(* can observe or disturb; temporary names are a writer's own.             *)
(***************************************************************************)
EXTENDS Naturals

CONSTANTS
  Writers,    \* concurrent writes of one path
  MaxWrites,  \* bound: changes by other programs
  MaxFaults,  \* bound: file system calls that fail by themselves
  None        \* the absent file

ASSUME FileBoundsAssumption == MaxWrites \in Nat /\ MaxFaults \in Nat

Path        == <<"path">>
Temp(w)     == <<"temp", w>>
Recovery(w) == <<"recovery", w>>
Names == {Path} \cup {Temp(w) : w \in Writers} \cup {Recovery(w) : w \in Writers}

\* A state of a file, as the snapshots tell them apart: inode, mode and
\* digest together.  Other programs also put links and directories there.
Original  == <<0, "file">>
Staged(w) == <<w, "file">>
Contents == {Original} \cup {Staged(w) : w \in Writers}
              \cup ((1 .. MaxWrites) \X {"file", "other"})
Regular(c) == c \notin (1 .. MaxWrites) \X {"other"}

ASSUME DistinctAssumption == Writers \cap (0 .. MaxWrites) = {} /\ None \notin Contents

VARIABLES
  parent,    \* the directory of the path: "missing", "directory" or "other"
  dir,       \* what each name holds
  impl,      \* which code writes: "daemon" (a copy), "create" or "local"
  overwrite, \* the argument of each write
  pc,        \* where each write is
  snap,      \* its destination snapshot
  canceled,  \* its context ended
  result,    \* "none", "ok" or "error"
  told,      \* the names its error says are preserved
  writes, faults,
  owed,      \* history: contents nobody meant to replace
  exposed    \* history: those that a write trusts nobody put there

callVars  == <<impl, overwrite>>
worldVars == <<writes, owed, exposed>>
vars == <<callVars, worldVars, parent, dir, pc, snap, canceled, result, told, faults>>

Steps == {"ask", "read", "open", "make", "snapshot", "stage", "create", "recheck",
          "exchange", "verify", "swapBack", "finish", "done"}

TypeOK ==
  /\ parent \in {"missing", "directory", "other"}
  /\ dir \in [Names -> Contents \cup {None}]
  /\ impl \in [Writers -> {"daemon", "create", "local"}]
  /\ overwrite \in [Writers -> BOOLEAN]
  /\ pc \in [Writers -> Steps]
  /\ snap \in [Writers -> {c \in Contents : Regular(c)} \cup {None}]
  /\ canceled \in [Writers -> BOOLEAN]
  /\ result \in [Writers -> {"none", "ok", "error"}]
  /\ told \in [Writers -> SUBSET Names]
  /\ writes \in 0 .. MaxWrites /\ faults \in 0 .. MaxFaults
  /\ owed \subseteq Contents /\ exposed \subseteq Contents
  /\ \A w \in Writers :
       pc[w] \in {"recheck", "exchange", "verify", "swapBack", "finish"} => snap[w] # None

\* A copy from the codespace writes locally; the other two write there.
\* remote_copy asks first, the create tool makes the directories first.
Init ==
  /\ \/ impl \in [Writers -> {"local"}]
     \/ impl \in [Writers -> {"daemon", "create"}]
  /\ overwrite \in [Writers -> BOOLEAN]
  /\ \A w \in Writers : impl[w] = "create" => ~overwrite[w]
  /\ pc \in [Writers -> {"ask", "make", "open"}]
  /\ \A w \in Writers :
       /\ impl[w] = "local" => pc[w] = "ask"
       /\ impl[w] = "create" <=> pc[w] = "make"
  /\ parent \in {"missing", "directory", "other"}
  /\ \E c \in IF parent = "directory" THEN {None, Original} ELSE {None} :
       dir = [n \in Names |-> IF n = Path THEN c ELSE None]
  /\ snap = [w \in Writers |-> None]
  /\ canceled = [w \in Writers |-> FALSE]
  /\ result = [w \in Writers |-> "none"]
  /\ told = [w \in Writers |-> {}]
  /\ writes = 0 /\ faults = 0
  /\ owed = {dir[Path]} \ {None} /\ exposed = {}

-----------------------------------------------------------------------------
\* A call is refused for a reason, or fails by itself.
Refused(reason) ==
  \/ reason /\ UNCHANGED faults
  \/ faults < MaxFaults /\ faults' = faults + 1

Exchanged(n, m) == [dir EXCEPT ![n] = dir[m], ![m] = dir[n]]

Goto(w, l) == pc' = [pc EXCEPT ![w] = l] /\ UNCHANGED <<result, told>>

\* Return: the names `gone' are unlinked.
Return(w, r, kept, gone, d) ==
  /\ pc' = [pc EXCEPT ![w] = "done"]
  /\ result' = [result EXCEPT ![w] = r]
  /\ told' = [told EXCEPT ![w] = kept]
  /\ dir' = [n \in Names |-> IF n \in gone THEN None ELSE d[n]]
Both(w) == {Temp(w), Recovery(w)}
Succeed(w, d) == Return(w, "ok", {}, Both(w), d)

\* An error leaves the unlinking of what it does not keep to deferred calls,
\* whose own errors nobody looks at.
Fail(w, kept, d) == \E gone \in SUBSET (Both(w) \ kept) : Return(w, "error", kept, gone, d)
Error(w, kept) == Fail(w, kept, dir)

\* What gets to the path while a write is about to exchange it without another
\* look at it.
Exposed(new, others) ==
  IF \E w \in others : pc[w] = "swapBack" THEN exposed \cup ({new} \ {None}) ELSE exposed

\* w took the path from `old' to `new', which others may rely on from now on.
Owe(old, new) ==
  /\ owed' = (owed \ {old}) \cup {new}
  /\ exposed' = Exposed(new, Writers)

-----------------------------------------------------------------------------
(* Before the file system is touched                                       *)

\* remote_copy asks first whether the destination exists.
Ask(w) ==
  LET taken == \/ ~overwrite[w] /\ dir[Path] # None
               \/ impl[w] = "local" /\ (parent = "other" \/ ~Regular(dir[Path]))
  IN
  /\ pc[w] = "ask"
  /\ \/ /\ ~taken /\ ~canceled[w] /\ UNCHANGED <<dir, faults>>
        /\ Goto(w, "read")
     \/ Refused(taken \/ canceled[w]) /\ Error(w, {})
  /\ UNCHANGED <<callVars, worldVars, parent, snap, canceled>>

\* The content to copy: a source that is too large, or no file, ends the call.
ReadSource(w) ==
  /\ pc[w] = "read" /\ UNCHANGED faults
  /\ \/ ~canceled[w] /\ Goto(w, "open") /\ UNCHANGED dir
     \/ Error(w, {})
  /\ UNCHANGED <<callVars, worldVars, parent, snap, canceled>>

\* The directories of the path are opened one by one, without following links.
OpenParent(w) ==
  /\ pc[w] = "open"
  /\ \/ /\ parent # "other" /\ UNCHANGED <<dir, faults>>
        /\ Goto(w, IF parent = "missing" THEN "make" ELSE "snapshot")
     \/ Refused(parent = "other" \/ (canceled[w] /\ impl[w] = "local")) /\ Error(w, {})
  /\ UNCHANGED <<callVars, worldVars, parent, snap, canceled>>

\* mkdir; one that exists by now will do, and so does a link for MkdirAll.
MakeParent(w) ==
  /\ pc[w] = "make"
  /\ \/ /\ parent' = IF parent = "missing" THEN "directory" ELSE parent
        /\ Goto(w, "open") /\ UNCHANGED <<dir, faults>>
     \/ Refused(parent = "other") /\ Error(w, {}) /\ UNCHANGED parent
  /\ UNCHANGED <<callVars, worldVars, snap, canceled>>

-----------------------------------------------------------------------------
(* On the codespace: daemonWriteRootedFile                                 *)

\* Mutated snapshot: takes whatever is there for a file.
SnapshotAnything(w) ==
  /\ pc[w] = "snapshot" /\ ~canceled[w] /\ (overwrite[w] \/ dir[Path] = None)
  /\ snap' = [snap EXCEPT ![w] = dir[Path]] /\ Goto(w, "stage")
  /\ UNCHANGED <<callVars, worldVars, parent, dir, canceled, faults>>

Snapshot(w) ==
  LET bad == ~Regular(dir[Path]) \/ (dir[Path] # None /\ ~overwrite[w]) IN
  /\ pc[w] = "snapshot"
  /\ \/ /\ ~bad /\ ~canceled[w] /\ snap' = [snap EXCEPT ![w] = dir[Path]]
        /\ Goto(w, "stage") /\ UNCHANGED <<dir, faults>>
     \/ Refused(bad \/ canceled[w]) /\ Error(w, {}) /\ UNCHANGED snap
  /\ UNCHANGED <<callVars, worldVars, parent, canceled>>

\* The staged file, and a copy of the destination to recover from, which must
\* be what the snapshot saw.
Staging(w, copy) == [dir EXCEPT ![Temp(w)] = Staged(w), ![Recovery(w)] = copy]
Stage(w) ==
  LET changed == snap[w] # None /\ dir[Path] # snap[w] IN
  /\ pc[w] = "stage"
  /\ \/ /\ ~changed /\ ~canceled[w] /\ UNCHANGED faults
        /\ dir' = Staging(w, snap[w])
        /\ Goto(w, IF snap[w] = None THEN "create" ELSE "recheck")
     \/ /\ Refused(changed \/ canceled[w])
        /\ \E d \in {dir, Staging(w, None), Staging(w, snap[w])} : Fail(w, {}, d)
  /\ UNCHANGED <<callVars, worldVars, parent, snap, canceled>>

\* Mutated creation: a plain rename, which replaces.
CreateOver(w) ==
  /\ pc[w] = "create" /\ Succeed(w, Exchanged(Temp(w), Path))
  /\ Owe(None, Staged(w))
  /\ UNCHANGED <<callVars, parent, snap, canceled, writes, faults>>

\* A new file: a rename that replaces nothing.
Create(w) ==
  /\ pc[w] = "create"
  /\ \/ /\ dir[Path] = None /\ ~canceled[w] /\ UNCHANGED faults
        /\ Succeed(w, Exchanged(Temp(w), Path))
        /\ Owe(None, Staged(w))
     \/ Refused(dir[Path] # None \/ canceled[w]) /\ Error(w, {}) /\ UNCHANGED <<owed, exposed>>
  /\ UNCHANGED <<callVars, parent, snap, canceled, writes>>

Recheck(w) ==
  /\ pc[w] = "recheck"
  /\ \/ /\ dir[Path] = snap[w] /\ ~canceled[w]
        /\ Goto(w, "exchange") /\ UNCHANGED <<dir, faults>>
     \/ Refused(dir[Path] # snap[w] \/ canceled[w]) /\ Error(w, {Recovery(w)})
  /\ UNCHANGED <<callVars, worldVars, parent, snap, canceled>>

Exchange(w) ==
  /\ pc[w] = "exchange"
  /\ \/ /\ dir[Path] # None /\ ~canceled[w] /\ UNCHANGED faults
        /\ dir' = Exchanged(Temp(w), Path) /\ Goto(w, "verify")
     \/ Refused(dir[Path] = None \/ canceled[w]) /\ Error(w, {})
  /\ UNCHANGED <<callVars, worldVars, parent, snap, canceled>>

Displaced(w) == dir[Temp(w)] = snap[w]
Live(w) == dir[Path] = Staged(w)
Installed(w) == Goto(w, "finish") /\ Owe(snap[w], Staged(w)) /\ UNCHANGED dir

\* Mutated verification: does not look at what it displaced.
VerifyPathOnly(w) ==
  /\ pc[w] = "verify" /\ Live(w) /\ Installed(w)
  /\ UNCHANGED <<callVars, parent, snap, canceled, writes, faults>>

\* What was displaced must be what the snapshot saw, and the path must still
\* hold the staged file.  Only with the latter is the exchange undone: a
\* context that ended in between leaves the new file in place.
Verify(w) ==
  /\ pc[w] = "verify"
  /\ \/ /\ Displaced(w) /\ Live(w) /\ ~canceled[w] /\ UNCHANGED faults
        /\ Installed(w)
     \/ /\ Live(w) /\ ~canceled[w] /\ Refused(~Displaced(w))
        /\ Goto(w, "swapBack") /\ UNCHANGED <<dir, owed, exposed>>
     \/ Refused(~Live(w) \/ canceled[w]) /\ Error(w, Both(w)) /\ UNCHANGED <<owed, exposed>>
  /\ UNCHANGED <<callVars, parent, snap, canceled, writes>>

\* Mutated way back: a failed one does not keep what was displaced.
SwapBackUncommitted(w) ==
  /\ pc[w] = "swapBack" /\ Refused(dir[Path] = None)
  /\ Fail(w, Both(w), [dir EXCEPT ![Temp(w)] = None])
  /\ UNCHANGED <<callVars, worldVars, parent, snap, canceled>>

\* Whatever is at the path now is taken for the staged file, and unlinked by
\* the deferred call.
SwapBack(w) ==
  /\ pc[w] = "swapBack"
  /\ \/ /\ dir[Path] # None /\ UNCHANGED faults
        /\ Fail(w, {Recovery(w)}, Exchanged(Temp(w), Path))
        /\ exposed' = Exposed(dir[Temp(w)], Writers \ {w})
     \/ Refused(dir[Path] = None) /\ Error(w, Both(w)) /\ UNCHANGED exposed
  /\ UNCHANGED <<callVars, parent, snap, canceled, writes, owed>>

\* The displaced file, then the copy of it, are unlinked: an error says which
\* are left.
Finish(w) ==
  /\ pc[w] = "finish"
  /\ \/ Succeed(w, dir) /\ UNCHANGED faults
     \/ \E kept \in {Both(w), {Recovery(w)}} : Refused(FALSE) /\ Return(w, "error", kept, Both(w) \ kept, dir)
  /\ UNCHANGED <<callVars, worldVars, parent, snap, canceled>>

Install(w) == Create(w) \/ Recheck(w) \/ Exchange(w) \/ Verify(w) \/ SwapBack(w) \/ Finish(w)

-----------------------------------------------------------------------------
(* The three writes                                                        *)

CopyToRemote(w)   == impl[w] = "daemon" /\ (Ask(w) \/ ReadSource(w))
CopyFromRemote(w) == impl[w] = "local" /\ (Ask(w) \/ ReadSource(w))

DaemonWrite(w) == OpenParent(w) \/ MakeParent(w) \/ Snapshot(w) \/ Stage(w) \/ Install(w)

\* The create tool: MkdirAll, then the same write under that directory, which
\* finds it there.
CreateFile(w) ==
  impl[w] = "create" /\ DaemonWrite(w)

LocalParent(w)   == OpenParent(w) \/ MakeParent(w)
LocalSnapshot(w) == Snapshot(w)
LocalStage(w)    == Stage(w)
LocalInstall(w)  == Install(w)
LocalWrite(w)    == LocalParent(w) \/ LocalSnapshot(w) \/ LocalStage(w) \/ LocalInstall(w)

-----------------------------------------------------------------------------
(* The world                                                               *)

Cancel(w) ==
  /\ ~canceled[w] /\ pc[w] # "done"
  /\ canceled' = [canceled EXCEPT ![w] = TRUE]
  /\ UNCHANGED <<callVars, worldVars, parent, dir, pc, snap, result, told, faults>>

\* Another program puts something under the path, or removes it.
Change(new) ==
  /\ writes < MaxWrites /\ writes' = writes + 1
  /\ parent = "directory" /\ \E w \in Writers : pc[w] # "done"
  /\ dir' = [dir EXCEPT ![Path] = new]
  /\ owed' = (owed \ {dir[Path]}) \cup ({new} \ {None})
  /\ exposed' = Exposed(new, Writers)
  /\ UNCHANGED <<callVars, parent, pc, snap, canceled, result, told, faults>>
Put(kind) == Change(<<writes + 1, kind>>)
Unlink == dir[Path] # None /\ Change(None)

Next ==
  \/ \E w \in Writers :
       \/ CopyToRemote(w) \/ CopyFromRemote(w) \/ Cancel(w)
       \/ impl[w] = "daemon" /\ DaemonWrite(w)
       \/ CreateFile(w)
       \/ impl[w] = "local" /\ LocalWrite(w)
  \/ \E kind \in {"file", "other"} : Put(kind)
  \/ Unlink

Spec == Init /\ [][Next]_vars

-----------------------------------------------------------------------------
(* Properties                                                              *)

\* Nothing is lost while writers race: what was at the path, what another
\* program put there and what a write installed is under some name until a
\* write that had seen it replaces it.  Excepted is what gets to the path in
\* the instant between the last look at it and the exchange back (`swapBack').
NothingLost == \A c \in owed \ exposed : \E n \in Names : dir[n] = c

\* Of two writes that start from the same file only one succeeds: the other
\* would undo an update it never saw.
NoLostUpdate ==
  \A v, w \in Writers :
    v # w /\ result[v] = "ok" /\ result[w] = "ok" /\ snap[v] = snap[w] =>
      snap[v] = None /\ writes > 0

\* What an error says is preserved is there, and a write whose error says
\* nothing is preserved has left its content nowhere, but for a temporary
\* file that could not be unlinked.
HonestFailure ==
  \A w \in Writers :
    /\ \A n \in told[w] : dir[n] # None
    /\ result[w] = "error" /\ told[w] = {} =>
         \A n \in Names \ {Temp(w)} : dir[n] # Staged(w)
=============================================================================
