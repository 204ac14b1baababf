----------------------------- MODULE PatchCommit -----------------------------
(***************************************************************************)
(* apply_patch of cmd/gh-copilot-codespace/daemon_filesystem.go: a plan of *)
(* adds, deletes, updates and moves is staged, validated and committed one *)
(* action after the other; an error or a cancelled context rolls back what *)
(* was committed.  Other programs write the same files all the while, and  *)
(* nothing locks them out: the code tells their files from its own by      *)
(* comparing each path with a recorded state, and renames without          *)
(* replacing.                                                              *)
(*                                                                         *)
(* A step is one call on the file system that others can observe or        *)
(* disturb, or one comparison.  Every call may fail by itself, the reads   *)
(* and Lstats of a comparison too.  Names the code makes up (staged,       *)
(* backup, removed) are its own; that the removal of such a name may fail  *)
(* where the code ignores it, and leave it behind, is not modelled, nor are*)
(* the directories made for the targets.                                   *)
(***************************************************************************)
EXTENDS Naturals, FiniteSets, FiniteSetsExt

CONSTANTS
  N,          \* actions of the plan
  Kinds,      \* "add", "delete", "update", "move" (with hunks), "rename"
  MaxWrites,  \* bound: changes by other programs
  MaxFaults,  \* bound: file system calls that fail by themselves
  None        \* the absent file

ASSUME PlanAssumption == N \in Nat \ {0}
ASSUME KindsAssumption == Kinds \subseteq {"add", "delete", "update", "move", "rename"}
ASSUME BoundsAssumption == MaxWrites \in Nat /\ MaxFaults \in Nat

Plan == 1 .. N
Moves == {"move", "rename"}
Rewrites == {"add", "update", "move"}

\* reservePath and reserveFile keep the paths of a plan apart, so that each
\* action has a source and a target of its own.
Source(i)  == <<i, "source">>
Staged(i)  == <<i, "staged">>
Backup(i)  == <<i, "backup">>
Removed(i) == <<i, "removed">>
Moved(i)   == <<i, "target">>
Paths   == Plan \X {"source", "target"}
Names   == Paths \cup (Plan \X {"staged", "backup", "removed"})
Origins == (Plan \X {"source", "staged", "backup"})
             \cup ((1 .. MaxWrites) \X {"writer"})

\* What os.SameFile compares, and the content with its metadata.
Files == [ino : Origins, text : Origins]
ASSUME NoneAssumption == None \notin Files \cup Origins
Original(i) == [ino |-> Source(i), text |-> Source(i)]
Patch(i)    == [ino |-> Staged(i), text |-> Staged(i)]

VARIABLES
  kind,     \* the plan
  dir,      \* the file under each name
  pc, at,   \* where the patch is, and at which action
  state,    \* sourceState of each action
  staged,   \* actions with a stagedTempPath
  undo,     \* actions with a rollback
  matched,  \* targetMatches of daemonRollbackMovedPath
  failures, \* its failures
  conflict, \* some rollback reported an error
  ctxDone, result,
  writes, faults,
  owed,     \* history: contents nobody meant to remove
  exposed   \* history: contents written between a check and the call it is for

planVars  == <<kind, state>>
patchVars == <<staged, undo, matched, failures, conflict>>
endVars   == <<ctxDone, result>>
worldVars == <<writes, owed, exposed>>
vars == <<planVars, patchVars, endVars, worldVars, dir, pc, at, faults>>

Target(i) == IF kind[i] \in Moves THEN Moved(i) ELSE Source(i)
\* What the target holds once the action is committed.
Installed(i) == IF kind[i] = "rename" THEN state[i] ELSE Patch(i)

Checking == {"plan", "stage", "revalidate", "validate", "backup", "recheck"}
Installing == {"install", "verify", "swapBack", "moveBack", "take", "settle",
               "putBack", "commit"}
Undoing == {"undo", "undoRemove", "undoRestore", "undoSwap", "undoSettle",
            "undoOriginal", "undoSwapBack", "undoFast", "undoLink", "undoCheck", "undoTarget"}

TypeOK ==
  /\ kind \in [Plan -> Kinds]
  /\ dir \in [Names -> Files \cup {None}]
  /\ pc \in Checking \cup Installing \cup Undoing \cup {"done"}
  /\ at \in Plan
  /\ state \in [Plan -> Files \cup {None}]
  /\ pc \notin {"plan", "done"} => \A i \in Plan : kind[i] # "add" => state[i] # None
  /\ staged \subseteq Plan /\ undo \subseteq Plan
  /\ {matched, failures, conflict, ctxDone} \subseteq BOOLEAN
  /\ result \in {"none", "ok", "error"}
  /\ writes \in 0 .. MaxWrites /\ faults \in 0 .. MaxFaults
  /\ owed \subseteq Origins /\ exposed \subseteq Origins

Before(n) == \E i \in Plan : kind[i] # "add" /\ n = Source(i)

Init ==
  /\ kind \in [Plan -> Kinds]
  /\ dir = [n \in Names |-> IF Before(n) THEN Original(n[1]) ELSE None]
  /\ pc = "plan" /\ at = 1
  /\ state = [i \in Plan |-> None]
  /\ staged = {} /\ undo = {}
  /\ matched = FALSE /\ failures = FALSE /\ conflict = FALSE
  /\ ctxDone = FALSE /\ result = "none"
  /\ writes = 0 /\ faults = 0
  /\ owed = {n \in Paths : Before(n)} /\ exposed = {}

-----------------------------------------------------------------------------
(* The file system                                                         *)

\* A call is refused for a reason, or fails by itself.
Refused(reason) ==
  \/ reason /\ UNCHANGED faults
  \/ faults < MaxFaults /\ faults' = faults + 1

Remove(n)      == [dir EXCEPT ![n] = None]
RemoveAll(S)   == [n \in Names |-> IF n \in S THEN None ELSE dir[n]]
Rename(n, m)   == [dir EXCEPT ![n] = None, ![m] = dir[n]]
Exchange(n, m) == [dir EXCEPT ![n] = dir[m], ![m] = dir[n]]

\* Mutated rename: replaces the target.
BlockedUnlessThere(n, m) == dir[n] = None

\* renameat2 with RENAME_NOREPLACE
Blocked(n, m) == dir[n] = None \/ dir[m] # None

Goto(l) == pc' = l /\ UNCHANGED at
\* The next action of the plan, or l after the last one.
Advance(loop, l) ==
  IF at < N THEN at' = at + 1 /\ pc' = loop ELSE at' = 1 /\ pc' = l

\* Return before anything was changed.
GiveUp == Goto("done") /\ result' = "error"
\* fail: roll back what was committed.
Fail == Goto("undo")

-----------------------------------------------------------------------------
(* Plan, staging, validation                                               *)

Free(i) == kind[i] \in Moves => dir[Moved(i)] = None

\* Mutated plan: takes a missing source for an empty one.
PlanUnchecked ==
  /\ pc = "plan" /\ ~ctxDone
  /\ state' = [state EXCEPT ![at] = dir[Source(at)]]
  /\ Advance("plan", "stage")
  /\ UNCHANGED <<kind, patchVars, endVars, worldVars, dir, faults>>

\* daemonBuildPatchPlan
PlanAction ==
  /\ pc = "plan"
  /\ \/ /\ ~ctxDone /\ Free(at)
        /\ (kind[at] = "add") = (dir[Source(at)] = None)
        /\ state' = [state EXCEPT ![at] = dir[Source(at)]]
        /\ Advance("plan", "stage") /\ UNCHANGED <<result, faults>>
     \/ /\ Refused(ctxDone \/ ~Free(at) \/ (kind[at] = "add") # (dir[Source(at)] = None))
        /\ GiveUp /\ UNCHANGED state
  /\ UNCHANGED <<kind, patchVars, ctxDone, worldVars, dir>>

\* Staged files are new files: nobody else sees them.  A failure half way
\* removes those already made.
StagePlan ==
  /\ pc = "stage"
  /\ \/ /\ ~ctxDone
        /\ staged' = {i \in Plan : kind[i] \in Rewrites}
        /\ dir' = [n \in Names |-> IF \E i \in staged' : n = Staged(i)
                                   THEN Patch(n[1]) ELSE dir[n]]
        /\ Goto("revalidate") /\ UNCHANGED <<result, faults>>
     \/ Refused(ctxDone) /\ GiveUp /\ UNCHANGED <<staged, dir>>
  /\ UNCHANGED <<planVars, undo, matched, failures, conflict, ctxDone, worldVars>>

\* Everything is as the plan found it.
Valid(i) ==
  /\ ~ctxDone /\ Free(i)
  /\ dir[Source(i)] = state[i]

RevalidatePlan ==
  /\ pc = "revalidate"
  /\ \/ Valid(at) /\ Advance("revalidate", "validate") /\ UNCHANGED faults
     \/ Refused(~Valid(at)) /\ Fail
  /\ UNCHANGED <<planVars, patchVars, endVars, worldVars, dir>>

RevalidateAction ==
  /\ pc = "validate"
  /\ \/ /\ Valid(at) /\ UNCHANGED faults
        /\ Goto(IF kind[at] = "add" THEN "install" ELSE "backup")
     \/ Refused(~Valid(at)) /\ Fail
  /\ UNCHANGED <<planVars, patchVars, endVars, worldVars, dir>>

\* A copy of the source, which must still be the one the plan read.
CreateBackup ==
  /\ pc = "backup"
  /\ \/ /\ ~ctxDone /\ dir[Source(at)] = state[at]
        /\ dir' = [dir EXCEPT ![Backup(at)] =
                     [ino |-> Backup(at), text |-> state[at].text]]
        /\ Goto(IF kind[at] = "delete" THEN "take" ELSE "recheck")
        /\ UNCHANGED faults
     \/ /\ Refused(ctxDone \/ dir[Source(at)] # state[at])
        /\ Fail /\ UNCHANGED dir
  /\ UNCHANGED <<planVars, patchVars, endVars, worldVars>>

Recheck ==
  /\ pc = "recheck"
  /\ \/ Valid(at) /\ Goto("install") /\ UNCHANGED <<dir, faults>>
     \/ Refused(~Valid(at)) /\ Fail /\ dir' = Remove(Backup(at))
  /\ UNCHANGED <<planVars, patchVars, endVars, worldVars>>

-----------------------------------------------------------------------------
(* daemonCommitPatchAction                                                 *)

Done == Advance("validate", "commit")
Undoable == undo' = undo \cup {at}

\* daemonCommitStagedFile without overwriting
InstallStaged ==
  /\ pc = "install" /\ kind[at] \in {"add", "move"}
  /\ \/ /\ ~Blocked(Staged(at), Target(at)) /\ UNCHANGED faults
        /\ dir' = Rename(Staged(at), Target(at))
        /\ staged' = staged \ {at} /\ Undoable
        /\ IF kind[at] = "add" THEN Done ELSE Goto("take")
     \/ /\ Refused(Blocked(Staged(at), Target(at))) /\ Fail
        /\ dir' = Remove(Backup(at)) /\ UNCHANGED <<staged, undo>>
  /\ UNCHANGED <<planVars, matched, failures, conflict, endVars, worldVars>>

InstallMove ==
  /\ pc = "install" /\ kind[at] = "rename"
  /\ \/ /\ ~Blocked(Source(at), Target(at)) /\ UNCHANGED faults
        /\ dir' = Rename(Source(at), Target(at)) /\ Goto("verify")
     \/ /\ Refused(Blocked(Source(at), Target(at))) /\ Fail
        /\ dir' = Remove(Backup(at))
  /\ UNCHANGED <<planVars, patchVars, endVars, worldVars>>

\* RENAME_EXCHANGE: the source stays under its name all the time.
InstallUpdate ==
  /\ pc = "install" /\ kind[at] = "update"
  /\ \/ /\ dir[Source(at)] # None /\ UNCHANGED faults
        /\ dir' = Exchange(Staged(at), Source(at)) /\ Goto("verify")
     \/ /\ Refused(dir[Source(at)] = None) /\ Fail
        /\ dir' = Remove(Backup(at))
  /\ UNCHANGED <<planVars, patchVars, endVars, worldVars>>

\* Was it the file the plan read that was moved?  A file that cannot be read
\* is not.
VerifyMove ==
  /\ pc = "verify" /\ kind[at] = "rename"
  /\ \/ dir[Target(at)] = state[at] /\ Undoable /\ Done /\ UNCHANGED faults
     \/ Refused(dir[Target(at)] # state[at]) /\ Goto("moveBack") /\ UNCHANGED undo
  /\ UNCHANGED <<planVars, staged, matched, failures, conflict, endVars,
                 worldVars, dir>>

\* Back if the source is free, otherwise both stay where they are.
MoveBack ==
  /\ pc = "moveBack"
  /\ \/ /\ ~Blocked(Target(at), Source(at)) /\ UNCHANGED faults
        /\ dir' = Rename(Target(at), Source(at))
     \/ Refused(Blocked(Target(at), Source(at))) /\ UNCHANGED dir
  /\ Fail
  /\ UNCHANGED <<planVars, patchVars, endVars, worldVars>>

Live == dir[Source(at)] = Patch(at)
Displaced == dir[Staged(at)] = state[at]

\* Was it the file the plan read that was displaced, and is the patch live?
\* If the live path does not match, or cannot be read, both files stay where
\* they are and nothing is rolled back.
VerifyUpdate ==
  /\ pc = "verify" /\ kind[at] = "update"
  /\ \/ /\ Displaced /\ Live
        /\ staged' = staged \ {at} /\ Undoable
        /\ \/ dir' = Remove(Staged(at)) /\ Done /\ UNCHANGED faults
           \/ Refused(FALSE) /\ Fail /\ UNCHANGED dir
     \/ /\ Live /\ Refused(~Displaced) /\ Goto("swapBack")
        /\ UNCHANGED <<dir, staged, undo>>
     \/ /\ Refused(~Live) /\ staged' = staged \ {at} /\ Fail
        /\ UNCHANGED <<dir, undo>>
  /\ UNCHANGED <<planVars, matched, failures, conflict, endVars, worldVars>>

\* What comes back under the staged name is taken for the patch, and is
\* removed with the other staged files.
SwapBack ==
  /\ pc = "swapBack"
  /\ \/ /\ dir[Source(at)] # None /\ UNCHANGED <<staged, faults>>
        /\ dir' = Exchange(Staged(at), Source(at))
     \/ Refused(dir[Source(at)] = None) /\ staged' = staged \ {at} /\ UNCHANGED dir
  /\ Fail
  /\ UNCHANGED <<planVars, undo, matched, failures, conflict, endVars, worldVars>>

\* Mutated failure: a move, too, forgets its rollback.
TakeForgets(d) ==
  dir' = d /\ Fail /\ undo' = undo \ {at}

\* A delete that fails keeps no rollback, nor its backup.
TakeFails(d) ==
  /\ dir' = IF kind[at] = "delete" THEN [d EXCEPT ![Backup(at)] = None] ELSE d
  /\ Fail /\ UNCHANGED undo

\* daemonRemoveValidatedPatchSource: out of the way first ...
TakeSource ==
  /\ pc = "take"
  /\ \/ /\ ~Blocked(Source(at), Removed(at)) /\ UNCHANGED <<undo, faults>>
        /\ dir' = Rename(Source(at), Removed(at)) /\ Goto("settle")
     \/ Refused(dir[Source(at)] = None) /\ TakeFails(dir)
  /\ UNCHANGED <<planVars, staged, matched, failures, conflict, endVars, worldVars>>

Unwanted == dir[Removed(at)] # state[at] \/ ctxDone

\* ... then removed, unless it is not the file the plan read ...
SettleSource ==
  /\ pc = "settle"
  /\ \/ /\ ~Unwanted
        /\ \/ dir' = Remove(Removed(at)) /\ Undoable /\ Done /\ UNCHANGED faults
           \/ Refused(FALSE) /\ TakeFails(dir)
     \/ Refused(Unwanted) /\ Goto("putBack") /\ UNCHANGED <<dir, undo>>
  /\ UNCHANGED <<planVars, staged, matched, failures, conflict, endVars, worldVars>>

\* ... which goes back if its path is free.
PutBack ==
  /\ pc = "putBack"
  /\ \/ /\ dir[Source(at)] = None /\ UNCHANGED faults
        /\ TakeFails(Rename(Removed(at), Source(at)))
     \/ Refused(dir[Source(at)] # None) /\ TakeFails(dir)
  /\ UNCHANGED <<planVars, staged, matched, failures, conflict, endVars, worldVars>>

\* The originals are given up now, and the backups go.
Commit ==
  /\ pc = "commit"
  /\ \/ /\ ~ctxDone /\ Goto("done") /\ result' = "ok"
        /\ dir' = RemoveAll({Backup(i) : i \in undo})
        /\ owed' = owed \ {state[i].text : i \in {j \in Plan : kind[j] \notin {"add", "rename"}}}
     \/ ctxDone /\ Fail /\ UNCHANGED <<result, dir, owed>>
  /\ UNCHANGED <<planVars, patchVars, ctxDone, writes, exposed, faults>>

-----------------------------------------------------------------------------
(* daemonRollbackPatchPlan: the last action first                          *)

Last == Max(undo)
Undo(k) == pc = "undo" /\ undo # {} /\ kind[Last] = k

\* One rollback has returned, with an error or without.
Undone(ok) ==
  /\ undo' = undo \ {Last} /\ conflict' = (conflict \/ ~ok)
  /\ Goto("undo")
  /\ UNCHANGED <<staged, matched, failures>>

UndoAdd ==
  /\ Undo("add")
  /\ \/ dir[Source(Last)] = None /\ Undone(TRUE) /\ UNCHANGED faults
     \/ /\ dir[Source(Last)] = Patch(Last) /\ UNCHANGED <<patchVars, faults>>
        /\ Goto("undoRemove")
     \/ Refused(dir[Source(Last)] \notin {None, Patch(Last)}) /\ Undone(FALSE)
  /\ UNCHANGED <<planVars, endVars, worldVars, dir>>

\* os.Remove of whatever the path names by now
UndoRemove ==
  /\ pc = "undoRemove"
  /\ \/ /\ dir[Source(Last)] # None /\ UNCHANGED faults
        /\ dir' = Remove(Source(Last)) /\ Undone(TRUE)
     \/ Refused(dir[Source(Last)] = None) /\ Undone(FALSE) /\ UNCHANGED dir
  /\ UNCHANGED <<planVars, endVars, worldVars>>

\* daemonRestorePatchBackupNoReplace
Restore ==
  /\ \/ /\ ~Blocked(Backup(Last), Source(Last)) /\ UNCHANGED faults
        /\ dir' = Rename(Backup(Last), Source(Last)) /\ Undone(TRUE)
     \/ /\ Refused(Blocked(Backup(Last), Source(Last)))
        /\ Undone(FALSE) /\ UNCHANGED dir
  /\ UNCHANGED <<planVars, endVars, worldVars>>

UndoDelete == Undo("delete") /\ Restore
UndoRestore == pc = "undoRestore" /\ Restore

UndoUpdate ==
  /\ Undo("update")
  /\ \/ /\ dir[Source(Last)] \in {None, Patch(Last)} /\ UNCHANGED <<patchVars, faults>>
        /\ Goto(IF dir[Source(Last)] = None THEN "undoRestore" ELSE "undoSwap")
     \/ Refused(dir[Source(Last)] \notin {None, Patch(Last)}) /\ Undone(FALSE)
  /\ UNCHANGED <<planVars, endVars, worldVars, dir>>

UndoSwap ==
  /\ pc = "undoSwap"
  /\ \/ /\ dir[Source(Last)] # None /\ UNCHANGED <<patchVars, faults>>
        /\ dir' = Exchange(Backup(Last), Source(Last)) /\ Goto("undoSettle")
     \/ Refused(dir[Source(Last)] = None) /\ Undone(FALSE) /\ UNCHANGED dir
  /\ UNCHANGED <<planVars, endVars, worldVars>>

Restored == [ino |-> Backup(Last), text |-> state[Last].text]

\* Did the original displace the patch, or what another program put there?
UndoSettle ==
  /\ pc = "undoSettle"
  /\ \/ /\ dir[Backup(Last)] = Patch(Last)
        /\ \/ dir' = Remove(Backup(Last)) /\ Undone(TRUE) /\ UNCHANGED faults
           \/ Refused(FALSE) /\ Undone(FALSE) /\ UNCHANGED dir
     \/ /\ Refused(dir[Backup(Last)] # Patch(Last)) /\ Goto("undoOriginal")
        /\ UNCHANGED <<patchVars, dir>>
  /\ UNCHANGED <<planVars, endVars, worldVars>>

\* Swap back only what is certainly the original.
UndoOriginal ==
  /\ pc = "undoOriginal"
  /\ \/ /\ dir[Source(Last)] = Restored /\ Goto("undoSwapBack")
        /\ UNCHANGED <<patchVars, faults>>
     \/ Refused(dir[Source(Last)] # Restored) /\ Undone(FALSE)
  /\ UNCHANGED <<planVars, endVars, worldVars, dir>>

UndoSwapBack ==
  /\ pc = "undoSwapBack"
  /\ \/ /\ dir[Source(Last)] # None /\ UNCHANGED faults
        /\ dir' = Exchange(Backup(Last), Source(Last))
     \/ Refused(dir[Source(Last)] = None) /\ UNCHANGED dir
  /\ Undone(FALSE)
  /\ UNCHANGED <<planVars, endVars, worldVars>>

\* daemonRollbackMovedPath: is the target still the patch's, and what is under
\* the source?  Either may not be told; a source that cannot be inspected is
\* left alone.
UndoMoved ==
  /\ Undo("move") \/ Undo("rename")
  /\ \/ /\ failures' = FALSE
        /\ \/ dir[Target(Last)] = Installed(Last) /\ matched' = TRUE /\ UNCHANGED faults
           \/ Refused(dir[Target(Last)] # Installed(Last)) /\ matched' = FALSE
     \/ /\ failures' = TRUE /\ Refused(FALSE)
        /\ matched' \in {FALSE, dir[Target(Last)] = Installed(Last)}
  /\ Goto(IF failures' THEN "undoTarget"
          ELSE IF dir[Source(Last)] # None THEN "undoCheck"
          ELSE IF kind[Last] = "rename" /\ matched' THEN "undoFast"
          ELSE "undoLink")
  /\ UNCHANGED <<planVars, staged, undo, conflict, endVars, worldVars, dir>>

Without(d, n) == [d EXCEPT ![n] = None]

\* A file that was only moved is moved back, and its backup removed.
UndoFast ==
  /\ pc = "undoFast"
  /\ \/ /\ ~Blocked(Target(Last), Source(Last))
        /\ \/ /\ dir' = Without(Rename(Target(Last), Source(Last)), Backup(Last))
              /\ Undone(TRUE) /\ UNCHANGED faults
           \/ /\ dir' = Rename(Target(Last), Source(Last))
              /\ Undone(FALSE) /\ Refused(FALSE)
     \/ /\ Refused(Blocked(Target(Last), Source(Last)))
        /\ Goto("undoLink") /\ UNCHANGED <<patchVars, dir>>
  /\ UNCHANGED <<planVars, endVars, worldVars>>

\* A missing source is linked to the backup, which stays for now.
UndoLink ==
  /\ pc = "undoLink"
  /\ \/ /\ dir[Source(Last)] = None /\ UNCHANGED <<failures, faults>>
        /\ dir' = [dir EXCEPT ![Source(Last)] = dir[Backup(Last)]]
     \/ Refused(dir[Source(Last)] # None) /\ failures' = TRUE /\ UNCHANGED dir
  /\ Goto("undoTarget")
  /\ UNCHANGED <<planVars, staged, undo, matched, conflict, endVars, worldVars>>

UndoCheck ==
  /\ pc = "undoCheck"
  /\ \/ dir[Source(Last)] = state[Last] /\ failures' = FALSE /\ UNCHANGED faults
     \/ Refused(dir[Source(Last)] # state[Last]) /\ failures' = TRUE
  /\ Goto("undoTarget")
  /\ UNCHANGED <<planVars, staged, undo, matched, conflict, endVars, worldVars, dir>>

\* The target is removed if it was the patch when the rollback began; with
\* any failure the backup is kept.
UndoTarget ==
  /\ pc = "undoTarget"
  /\ \/ /\ dir[Target(Last)] = None \/ matched
        /\ \/ /\ ~failures /\ dir' = RemoveAll({Target(Last), Backup(Last)})
              /\ Undone(TRUE) /\ UNCHANGED faults
           \/ /\ Refused(failures) /\ dir' = Remove(Target(Last)) /\ Undone(FALSE)
     \/ /\ dir[Target(Last)] # None /\ Refused(~matched)
        /\ Undone(FALSE) /\ UNCHANGED dir
  /\ UNCHANGED <<planVars, endVars, worldVars>>

\* Mutated end: staged files are left behind.
LeaveStaged == UNCHANGED dir

\* daemonCleanupPatchStages
CleanupStages == dir' = RemoveAll({Staged(i) : i \in staged})

RolledBack ==
  /\ pc = "undo" /\ undo = {}
  /\ CleanupStages /\ GiveUp
  /\ UNCHANGED <<planVars, patchVars, ctxDone, worldVars, faults>>

-----------------------------------------------------------------------------
(* The world                                                               *)

Cancel ==
  /\ ~ctxDone /\ pc # "done" /\ ctxDone' = TRUE
  /\ UNCHANGED <<planVars, patchVars, result, worldVars, dir, pc, at, faults>>

InUse == {Source(i) : i \in Plan} \cup {Target(i) : i \in Plan}
\* The path a coming call trusts to hold what an earlier check found there,
\* without a way back.
Trusted(p) ==
  \/ pc = "swapBack" /\ p = Source(at)
  \/ pc = "undoRemove" /\ p = Source(Last)
  \/ pc \in {"undoFast", "undoLink", "undoCheck", "undoTarget"}
     /\ matched /\ p = Target(Last)

\* Another program puts a file under a path, by renaming or by rewriting it
\* in place (under all its names), or removes one.
Change(p, d, new) ==
  /\ writes < MaxWrites /\ writes' = writes + 1 /\ pc # "done"
  /\ dir' = d
  /\ owed' = (IF dir[p] = None THEN owed ELSE owed \ {dir[p].text}) \cup new
  /\ exposed' = IF Trusted(p) THEN exposed \cup new ELSE exposed
  /\ UNCHANGED <<planVars, patchVars, endVars, pc, at, faults>>

Writer == <<writes + 1, "writer">>

Replace(p) ==
  Change(p, [dir EXCEPT ![p] = [ino |-> Writer, text |-> Writer]], {Writer})
RewriteInPlace(p) ==
  /\ dir[p] # None
  /\ Change(p, [n \in Names |-> IF dir[n] # None /\ dir[n].ino = dir[p].ino
                                THEN [dir[n] EXCEPT !.text = Writer] ELSE dir[n]],
            {Writer})
Unlink(p) == dir[p] # None /\ Change(p, Remove(p), {})

-----------------------------------------------------------------------------
CheckStep == PlanAction \/ StagePlan \/ RevalidatePlan \/ RevalidateAction
               \/ CreateBackup \/ Recheck
InstallStep ==
  \/ InstallStaged \/ InstallMove \/ InstallUpdate
  \/ VerifyMove \/ MoveBack \/ VerifyUpdate \/ SwapBack
  \/ TakeSource \/ SettleSource \/ PutBack \/ Commit
UndoStep ==
  \/ UndoAdd \/ UndoRemove \/ UndoDelete \/ UndoRestore
  \/ UndoUpdate \/ UndoSwap \/ UndoSettle \/ UndoOriginal \/ UndoSwapBack
  \/ UndoMoved \/ UndoFast \/ UndoLink \/ UndoCheck \/ UndoTarget
  \/ RolledBack

Next ==
  \/ CheckStep \/ InstallStep \/ UndoStep \/ Cancel
  \/ \E p \in InUse : Replace(p) \/ RewriteInPlace(p) \/ Unlink(p)

Spec == Init /\ [][Next]_vars

-----------------------------------------------------------------------------
(* Properties                                                              *)

Kept(c) == \E n \in Names : dir[n] # None /\ dir[n].text = c

\* No content is lost, neither what the patch replaced before it is sure to
\* succeed, nor what another program wrote under its paths at any time, also
\* while it is rolled back, and whichever calls fail: it is there, under its
\* path or under a preserved name.  Contents written between a check and the
\* call that trusts it are excepted.
NothingLost == \A c \in owed \ exposed : Kept(c)

Planned(n) ==
  LET i == n[1] IN
  CASE n = Source(i) /\ kind[i] \in {"add", "update"} -> Patch(i).text
    [] n = Moved(i) /\ kind[i] = "move"   -> Patch(i).text
    [] n = Moved(i) /\ kind[i] = "rename" -> Source(i)
    [] OTHER -> None
Text(n) == IF dir[n] = None THEN None ELSE dir[n].text
Started(n) == IF Before(n) THEN n ELSE None

\* While nobody interferes a patch is applied whole or not at all, whenever its
\* context ends, and leaves none of its own names behind ("applies it
\* atomically", README).
AllOrNothing ==
  pc = "done" /\ writes = 0 /\ faults = 0 =>
    \A n \in Names : Text(n) = IF result = "ok" THEN Planned(n) ELSE Started(n)

AsBefore(i) == \A n \in {Source(i), Moved(i)} : Text(n) = Started(n)
\* The names the error of the failed action mentions as preserved.
KeptAside(i) ==
  \/ kind[i] = "delete" /\ Text(Removed(i)) = Source(i)
  \/ kind[i] = "update" /\ Text(Staged(i)) = Source(i) /\ Text(Backup(i)) = Source(i)
  \/ kind[i] = "rename" /\ Text(Moved(i)) = Source(i) /\ Text(Backup(i)) = Source(i)

\* While nobody interferes, a patch that fails without a rollback error leaves
\* every path as it was, whichever calls fail by themselves, but for the one
\* action that failed: its file may be aside, with the patch installed or the
\* path gone, and is then complete under names its error gives.
FailureRestores ==
  pc = "done" /\ writes = 0 /\ result = "error" /\ ~conflict =>
    \A i \in Plan : AsBefore(i) \/ (i = at /\ KeptAside(i))
=============================================================================
