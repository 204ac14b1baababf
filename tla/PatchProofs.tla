------------------------------ MODULE PatchProofs ------------------------------
(***************************************************************************)
(* What a patch promises for plans of any length and of any kinds, for     *)
(* any number of calls that fail and of changes by other programs.         *)
(*                                                                         *)
(* While nobody else writes, the files of each action of the plan are a    *)
(* function of where the patch is: those of the actions before the one at  *)
(* hand are as the patch wants them, those after it as they were, and only *)
(* the action at hand is in between (Still).                               *)
(***************************************************************************)
EXTENDS PatchCommit, FiniteSetTheorems, TLAPS

\* All contents the names can have.
Directories == [Names -> Files \cup {None}]
\* The names of one action.
NamesOf(i) == {Source(i), Moved(i), Staged(i), Backup(i), Removed(i)}

\* No two names of a plan are the same.
LEMMA NamesAreApart ==
  ASSUME NEW i \in Plan, NEW j \in Plan
  PROVE  /\ Source(i) = Source(j) => i = j
         /\ Moved(i) = Moved(j) => i = j
         /\ Staged(i) = Staged(j) => i = j
         /\ Backup(i) = Backup(j) => i = j
         /\ Removed(i) = Removed(j) => i = j
         /\ Source(i) \notin {Moved(j), Staged(j), Backup(j), Removed(j)}
         /\ Moved(i) \notin {Staged(j), Backup(j), Removed(j)}
         /\ Staged(i) \notin {Backup(j), Removed(j)}
         /\ Backup(i) # Removed(j)
BY DEF Source, Moved, Staged, Backup, Removed

LEMMA NamesAreTyped ==
  ASSUME NEW i \in Plan
  PROVE  /\ Source(i) \in Names /\ Moved(i) \in Names /\ Staged(i) \in Names
         /\ Backup(i) \in Names /\ Removed(i) \in Names /\ Target(i) \in Names
         /\ Patch(i) \in Files /\ Original(i) \in Files
         /\ Backup(i) \in Origins /\ Source(i) \in Origins /\ Staged(i) \in Origins
BY DEF Source, Moved, Staged, Backup, Removed, Target, Names, Paths, Files, Origins,
       Patch, Original

\* What the calls on the file system leave is a directory again.
LEMMA DirectoriesStayTyped ==
  ASSUME dir \in Directories
  PROVE  /\ \A n \in Names : Remove(n) \in Directories
         /\ \A n, m \in Names : Rename(n, m) \in Directories
         /\ \A n, m \in Names : Exchange(n, m) \in Directories
         /\ \A S : RemoveAll(S) \in Directories
         /\ \A n \in Names, d \in Directories : [d EXCEPT ![n] = None] \in Directories
         /\ \A n \in Names, f \in Files : [dir EXCEPT ![n] = f] \in Directories
         /\ \A n, m \in Names : [dir EXCEPT ![n] = dir[m]] \in Directories
BY DEF Directories, Remove, Rename, Exchange, RemoveAll

\* A set of actions has a last one: Max is what its name says.
LEMMA LastOfPlan ==
  ASSUME NEW S \in SUBSET Plan, S # {}
  PROVE  Max(S) \in S
<1> DEFINE Above(i) == {j \in S : i < j}
           T == {Above(i) : i \in S}
           R == StrictSubsetOrdering(S)
<1>1. IsFiniteSet(S)
  <2>1. 1 \in Int /\ N \in Int
    BY PlanAssumption
  <2>2. IsFiniteSet(1 .. N)
    BY <2>1, FS_Interval
  <2> QED
    BY <2>2, FS_Subset DEF Plan
<1>2. IsWellFoundedOn(R, SUBSET S)
  BY <1>1, FS_StrictSubsetOrderingWellFounded, FS_FiniteSubsetsOfFinite
<1>3. PICK x \in T : \A y \in T : <<y, x>> \notin R
  <2>1. T \subseteq SUBSET S /\ T # {}
    OBVIOUS
  <2> HIDE DEF R, T
  <2> QED
    BY <1>2, <2>1, WFMin
<1>4. PICK m \in S : x = Above(m)
  OBVIOUS
<1>5. ASSUME NEW i \in S, m < i PROVE FALSE
  <2>1. Above(i) \in SUBSET S /\ Above(m) \in SUBSET S
    OBVIOUS
  <2>2. Above(i) \subseteq Above(m) /\ i \in Above(m) /\ i \notin Above(i)
    <3>1. i \in Int /\ m \in Int /\ \A j \in S : j \in Int
      BY PlanAssumption DEF Plan
    <3>2. \A j \in S : i < j => m < j
      BY <1>5, <3>1
    <3>3. ~ (i < i)
      BY <3>1
    <3> QED
      BY <1>5, <3>2, <3>3, Zenon
  <2>3. <<Above(i), Above(m)>> \in R
    <3> HIDE DEF Above
    <3> QED
      BY <2>1, <2>2 DEF StrictSubsetOrdering
  <2> QED
    BY <1>3, <1>4, <2>3
<1>6. \A y \in S : m >= y
  BY <1>5, PlanAssumption DEF Plan
<1> QED
  BY <1>6 DEF Max

-----------------------------------------------------------------------------
(* Types                                                                   *)

\* The types, and what a step relies on to keep them: a rollback that runs is
\* the last of the recorded ones; a plan that goes on has read its sources; only
\* what exists is backed up or displaced.
TypeInv ==
  /\ TypeOK
  /\ pc \in Undoing \ {"undo"} => undo # {}
  /\ pc = "plan" => \A i \in Plan : i < at /\ kind[i] # "add" => state[i] # None
  /\ pc = "backup" => kind[at] # "add"
  /\ pc = "verify" /\ kind[at] = "update" => dir[Staged(at)] # None

LEMMA LastIsTyped == undo \in SUBSET Plan /\ undo # {} => Last \in Plan /\ Last \in undo
BY LastOfPlan DEF Last

LEMMA PlanActionTyped == TypeInv /\ PlanAction => TypeInv'
<1> SUFFICES ASSUME TypeInv, PlanAction PROVE TypeInv'
  OBVIOUS
<1> USE DEF TypeInv, TypeOK
<1>1. UNCHANGED <<kind, staged, undo, matched, failures, conflict, ctxDone, writes,
                  owed, exposed, dir>>
  BY DEF PlanAction, patchVars, worldVars
<1>2. faults' \in 0 .. MaxFaults
  BY BoundsAssumption DEF PlanAction, Advance, Refused, GiveUp, Goto
<1>3. at' \in Plan
  BY PlanAssumption DEF Plan, PlanAction, Advance, Refused, GiveUp, Goto
<1>4. pc' \in Checking \cup Installing \cup Undoing \cup {"done"}
  BY DEF Checking, Installing, Undoing, PlanAction, Advance, Refused, GiveUp, Goto
<1>5. pc' \in {"plan", "stage", "done"}
  BY DEF PlanAction, Advance, Refused, GiveUp, Goto
<1>6. pc' \in Undoing \ {"undo"} => undo' # {}
  BY DEF Undoing, PlanAction, Advance, Refused, GiveUp, Goto
<1>7. pc' = "backup" => kind[at'] # "add"
  BY DEF PlanAction, Advance, Refused, GiveUp, Goto
<1>8. pc' = "verify" => kind[at'] # "update" \/ dir'[Staged(at')] # None
  BY <1>1, NamesAreTyped, NamesAreApart
     DEF PlanAction, Advance, Refused, GiveUp, Goto, Plan
<1>9. pc' = "stage" => \A i \in Plan : kind[i] # "add" => state'[i] # None
  <2> SUFFICES ASSUME pc' = "stage", NEW i \in Plan, kind[i] # "add"
               PROVE  state'[i] # None
    OBVIOUS
  <2>1. /\ (kind[at] = "add") = (dir[Source(at)] = None)
        /\ state' = [state EXCEPT ![at] = dir[Source(at)]]
        /\ ~ (at < N) /\ pc = "plan"
    BY DEF PlanAction, Advance, GiveUp, Goto
  <2>2. i < at \/ i = at
    BY <2>1, PlanAssumption DEF Plan
  <2> QED
    BY <2>1, <2>2
<1>10. pc' = "plan" => \A i \in Plan : i < at' /\ kind[i] # "add" => state'[i] # None
  <2> SUFFICES ASSUME pc' = "plan", NEW i \in Plan, i < at', kind[i] # "add"
               PROVE  state'[i] # None
    OBVIOUS
  <2>1. /\ (kind[at] = "add") = (dir[Source(at)] = None)
        /\ state' = [state EXCEPT ![at] = dir[Source(at)]]
        /\ at < N /\ at' = at + 1 /\ pc = "plan"
    BY DEF PlanAction, Advance, GiveUp, Goto
  <2>2. i < at \/ i = at
    BY <2>1, PlanAssumption DEF Plan
  <2> QED
    BY <2>1, <2>2
<1>11. result' \in {"none", "ok", "error"}
  BY DEF PlanAction, Advance, Refused, GiveUp, Goto
<1>12. state' \in [Plan -> Files \cup {None}]
  BY NamesAreTyped, LastIsTyped DEF PlanAction, Advance, Refused, GiveUp, Goto
<1>13. TypeOK'
  BY <1>1, <1>2, <1>3, <1>4, <1>5, <1>9, <1>11, <1>12
<1>14. TypeOK'
  BY <1>1, <1>13
<1> QED
  BY <1>1, <1>2, <1>3, <1>4, <1>5, <1>6, <1>7, <1>8, <1>9, <1>10, <1>11, <1>12, <1>13,
     <1>14

LEMMA StagePlanTyped == TypeInv /\ StagePlan => TypeInv'
<1> SUFFICES ASSUME TypeInv, StagePlan PROVE TypeInv'
  OBVIOUS
<1> USE DEF TypeInv, TypeOK
<1>1. UNCHANGED <<kind, state, undo, matched, failures, conflict, ctxDone, writes,
                  owed, exposed>>
  BY DEF StagePlan, planVars, worldVars
<1>2. /\ at' \in Plan
      /\ pc' \in Checking \cup Installing \cup Undoing \cup {"done"}
      /\ pc \notin {"plan", "done"} /\ pc' # "plan"
      /\ pc' \in Undoing \ {"undo"} => undo' # {}
      /\ pc' = "backup" => kind[at'] # "add"
      /\ faults' \in 0 .. MaxFaults
  BY LastIsTyped, BoundsAssumption, PlanAssumption
     DEF Plan, Checking, Installing, Undoing, StagePlan, Goto, Refused, GiveUp
<1>3. staged' \subseteq Plan /\ undo' \subseteq Plan
  BY LastIsTyped DEF StagePlan, Goto, Refused, GiveUp
<1>4. pc' = "verify" => kind[at'] # "update" \/ dir'[Staged(at')] # None
  BY <1>1, NamesAreTyped, NamesAreApart DEF StagePlan, Goto, Refused, GiveUp, Plan
<1>5. dir' \in [Names -> Files \cup {None}]
  <2>1. dir \in Directories /\ at \in Plan
    BY DEF Directories
  <2>3. [n \in Names |-> IF \E i \in staged' : n = Staged(i)
                          THEN Patch(n[1]) ELSE dir[n]] \in Directories
    <3>1. staged' \subseteq Plan
      BY DEF StagePlan, Refused
    <3> QED
      BY <2>1, <3>1, NamesAreTyped DEF Directories, Staged
  <2> HIDE DEF TypeInv, TypeOK
  <2>9. dir' \in Directories
    BY <2>1, <2>3, NamesAreTyped, DirectoriesStayTyped
       DEF StagePlan, Goto, Refused, GiveUp
  <2> QED
    BY <2>9 DEF Directories
<1>6. result' \in {"none", "ok", "error"}
  BY DEF StagePlan, Goto, Refused, GiveUp
<1> QED
  BY <1>1, <1>2, <1>3, <1>4, <1>5, <1>6

LEMMA RevalidatePlanTyped == TypeInv /\ RevalidatePlan => TypeInv'
<1> SUFFICES ASSUME TypeInv, RevalidatePlan PROVE TypeInv'
  OBVIOUS
<1> USE DEF TypeInv, TypeOK
<1>1. UNCHANGED <<kind, state, staged, undo, matched, failures, conflict, ctxDone,
                  result, writes, owed, exposed, dir>>
  BY DEF RevalidatePlan, endVars, patchVars, planVars, worldVars
<1>2. /\ at' \in Plan
      /\ pc' \in Checking \cup Installing \cup Undoing \cup {"done"}
      /\ pc \notin {"plan", "done"} /\ pc' # "plan"
      /\ pc' \in Undoing \ {"undo"} => undo' # {}
      /\ pc' = "backup" => kind[at'] # "add"
      /\ faults' \in 0 .. MaxFaults
  BY LastIsTyped, BoundsAssumption, PlanAssumption
     DEF Plan, Checking, Installing, Undoing, RevalidatePlan, Advance, Refused, Fail,
         Goto
<1>3. pc' = "verify" => kind[at'] # "update" \/ dir'[Staged(at')] # None
  BY <1>1, NamesAreTyped, NamesAreApart
     DEF RevalidatePlan, Advance, Refused, Fail, Goto, Plan
<1> QED
  BY <1>1, <1>2, <1>3

LEMMA RevalidateActionTyped == TypeInv /\ RevalidateAction => TypeInv'
<1> SUFFICES ASSUME TypeInv, RevalidateAction PROVE TypeInv'
  OBVIOUS
<1> USE DEF TypeInv, TypeOK
<1>1. UNCHANGED <<kind, state, staged, undo, matched, failures, conflict, ctxDone,
                  result, writes, owed, exposed, dir>>
  BY DEF RevalidateAction, endVars, patchVars, planVars, worldVars
<1>2. /\ at' \in Plan
      /\ pc' \in Checking \cup Installing \cup Undoing \cup {"done"}
      /\ pc \notin {"plan", "done"} /\ pc' # "plan"
      /\ pc' \in Undoing \ {"undo"} => undo' # {}
      /\ pc' = "backup" => kind[at'] # "add"
      /\ faults' \in 0 .. MaxFaults
  BY LastIsTyped, BoundsAssumption, PlanAssumption
     DEF Plan, Checking, Installing, Undoing, RevalidateAction, Goto, Refused, Fail
<1>3. pc' = "verify" => kind[at'] # "update" \/ dir'[Staged(at')] # None
  BY <1>1, NamesAreTyped, NamesAreApart
     DEF RevalidateAction, Goto, Refused, Fail, Plan
<1> QED
  BY <1>1, <1>2, <1>3

LEMMA CreateBackupTyped == TypeInv /\ CreateBackup => TypeInv'
<1> SUFFICES ASSUME TypeInv, CreateBackup PROVE TypeInv'
  OBVIOUS
<1> USE DEF TypeInv, TypeOK
<1>1. UNCHANGED <<kind, state, staged, undo, matched, failures, conflict, ctxDone,
                  result, writes, owed, exposed>>
  BY DEF CreateBackup, endVars, patchVars, planVars, worldVars
<1>2. /\ at' \in Plan
      /\ pc' \in Checking \cup Installing \cup Undoing \cup {"done"}
      /\ pc \notin {"plan", "done"} /\ pc' # "plan"
      /\ pc' \in Undoing \ {"undo"} => undo' # {}
      /\ pc' = "backup" => kind[at'] # "add"
      /\ faults' \in 0 .. MaxFaults
  BY LastIsTyped, BoundsAssumption, PlanAssumption
     DEF Plan, Checking, Installing, Undoing, CreateBackup, Goto, Refused, Fail
<1>3. pc' = "verify" => kind[at'] # "update" \/ dir'[Staged(at')] # None
  BY <1>1, NamesAreTyped, NamesAreApart DEF CreateBackup, Goto, Refused, Fail, Plan
<1>4. dir' \in [Names -> Files \cup {None}]
  <2>1. dir \in Directories /\ at \in Plan
    BY DEF Directories
  <2>3. [ino |-> Backup(at), text |-> state[at].text] \in Files \/ dir' = dir
    BY NamesAreTyped, NoneAssumption DEF Files, CreateBackup, Fail, Goto, Checking
  <2> HIDE DEF TypeInv, TypeOK
  <2>9. dir' \in Directories
    BY <2>1, <2>3, NamesAreTyped, DirectoriesStayTyped
       DEF CreateBackup, Goto, Refused, Fail
  <2> QED
    BY <2>9 DEF Directories
<1> QED
  BY <1>1, <1>2, <1>3, <1>4

LEMMA RecheckTyped == TypeInv /\ Recheck => TypeInv'
<1> SUFFICES ASSUME TypeInv, Recheck PROVE TypeInv'
  OBVIOUS
<1> USE DEF TypeInv, TypeOK
<1>1. UNCHANGED <<kind, state, staged, undo, matched, failures, conflict, ctxDone,
                  result, writes, owed, exposed>>
  BY DEF Recheck, endVars, patchVars, planVars, worldVars
<1>2. /\ at' \in Plan
      /\ pc' \in Checking \cup Installing \cup Undoing \cup {"done"}
      /\ pc \notin {"plan", "done"} /\ pc' # "plan"
      /\ pc' \in Undoing \ {"undo"} => undo' # {}
      /\ pc' = "backup" => kind[at'] # "add"
      /\ faults' \in 0 .. MaxFaults
  BY LastIsTyped, BoundsAssumption, PlanAssumption
     DEF Plan, Checking, Installing, Undoing, Recheck, Goto, Refused, Fail
<1>3. pc' = "verify" => kind[at'] # "update" \/ dir'[Staged(at')] # None
  BY <1>1, NamesAreTyped, NamesAreApart DEF Recheck, Goto, Refused, Fail, Plan
<1>4. dir' \in [Names -> Files \cup {None}]
  <2>1. dir \in Directories /\ at \in Plan
    BY DEF Directories
  <2> HIDE DEF TypeInv, TypeOK
  <2>9. dir' \in Directories
    BY <2>1, NamesAreTyped, DirectoriesStayTyped DEF Recheck, Goto, Refused, Fail
  <2> QED
    BY <2>9 DEF Directories
<1> QED
  BY <1>1, <1>2, <1>3, <1>4

LEMMA InstallStagedTyped == TypeInv /\ InstallStaged => TypeInv'
<1> SUFFICES ASSUME TypeInv, InstallStaged PROVE TypeInv'
  OBVIOUS
<1> USE DEF TypeInv, TypeOK
<1>1. UNCHANGED <<kind, state, matched, failures, conflict, ctxDone, result, writes,
                  owed, exposed>>
  BY DEF InstallStaged, endVars, planVars, worldVars
<1>2. /\ at' \in Plan
      /\ pc' \in Checking \cup Installing \cup Undoing \cup {"done"}
      /\ pc \notin {"plan", "done"} /\ pc' # "plan"
      /\ pc' \in Undoing \ {"undo"} => undo' # {}
      /\ pc' = "backup" => kind[at'] # "add"
      /\ faults' \in 0 .. MaxFaults
  BY LastIsTyped, BoundsAssumption, PlanAssumption
     DEF Plan, Checking, Installing, Undoing, InstallStaged, Undoable, Done, Advance,
         Goto, Refused, Fail
<1>3. staged' \subseteq Plan /\ undo' \subseteq Plan
  BY LastIsTyped DEF InstallStaged, Undoable, Done, Advance, Goto, Refused, Fail
<1>4. pc' = "verify" => kind[at'] # "update" \/ dir'[Staged(at')] # None
  BY <1>1, NamesAreTyped, NamesAreApart
     DEF InstallStaged, Undoable, Done, Advance, Goto, Refused, Fail, Rename, Plan
<1>5. dir' \in [Names -> Files \cup {None}]
  <2>1. dir \in Directories /\ at \in Plan
    BY DEF Directories
  <2> HIDE DEF TypeInv, TypeOK
  <2>9. dir' \in Directories
    BY <2>1, NamesAreTyped, DirectoriesStayTyped
       DEF InstallStaged, Undoable, Done, Advance, Goto, Refused, Fail
  <2> QED
    BY <2>9 DEF Directories
<1> QED
  BY <1>1, <1>2, <1>3, <1>4, <1>5

LEMMA InstallMoveTyped == TypeInv /\ InstallMove => TypeInv'
<1> SUFFICES ASSUME TypeInv, InstallMove PROVE TypeInv'
  OBVIOUS
<1> USE DEF TypeInv, TypeOK
<1>1. UNCHANGED <<kind, state, staged, undo, matched, failures, conflict, ctxDone,
                  result, writes, owed, exposed>>
  BY DEF InstallMove, endVars, patchVars, planVars, worldVars
<1>2. /\ at' \in Plan
      /\ pc' \in Checking \cup Installing \cup Undoing \cup {"done"}
      /\ pc \notin {"plan", "done"} /\ pc' # "plan"
      /\ pc' \in Undoing \ {"undo"} => undo' # {}
      /\ pc' = "backup" => kind[at'] # "add"
      /\ faults' \in 0 .. MaxFaults
  BY LastIsTyped, BoundsAssumption, PlanAssumption
     DEF Plan, Checking, Installing, Undoing, InstallMove, Goto, Refused, Fail
<1>3. pc' = "verify" => kind[at'] # "update" \/ dir'[Staged(at')] # None
  BY <1>1, NamesAreTyped, NamesAreApart
     DEF InstallMove, Goto, Refused, Fail, Rename, Plan
<1>4. dir' \in [Names -> Files \cup {None}]
  <2>1. dir \in Directories /\ at \in Plan
    BY DEF Directories
  <2> HIDE DEF TypeInv, TypeOK
  <2>9. dir' \in Directories
    BY <2>1, NamesAreTyped, DirectoriesStayTyped DEF InstallMove, Goto, Refused, Fail
  <2> QED
    BY <2>9 DEF Directories
<1> QED
  BY <1>1, <1>2, <1>3, <1>4

LEMMA InstallUpdateTyped == TypeInv /\ InstallUpdate => TypeInv'
<1> SUFFICES ASSUME TypeInv, InstallUpdate PROVE TypeInv'
  OBVIOUS
<1> USE DEF TypeInv, TypeOK
<1>1. UNCHANGED <<kind, state, staged, undo, matched, failures, conflict, ctxDone,
                  result, writes, owed, exposed>>
  BY DEF InstallUpdate, endVars, patchVars, planVars, worldVars
<1>2. /\ at' \in Plan
      /\ pc' \in Checking \cup Installing \cup Undoing \cup {"done"}
      /\ pc \notin {"plan", "done"} /\ pc' # "plan"
      /\ pc' \in Undoing \ {"undo"} => undo' # {}
      /\ pc' = "backup" => kind[at'] # "add"
      /\ faults' \in 0 .. MaxFaults
  BY LastIsTyped, BoundsAssumption, PlanAssumption
     DEF Plan, Checking, Installing, Undoing, InstallUpdate, Goto, Refused, Fail
<1>3. pc' = "verify" => kind[at'] # "update" \/ dir'[Staged(at')] # None
  BY <1>1, NamesAreTyped, NamesAreApart
     DEF InstallUpdate, Goto, Refused, Fail, Exchange, Plan
<1>4. dir' \in [Names -> Files \cup {None}]
  <2>1. dir \in Directories /\ at \in Plan
    BY DEF Directories
  <2> HIDE DEF TypeInv, TypeOK
  <2>9. dir' \in Directories
    BY <2>1, NamesAreTyped, DirectoriesStayTyped
       DEF InstallUpdate, Goto, Refused, Fail
  <2> QED
    BY <2>9 DEF Directories
<1> QED
  BY <1>1, <1>2, <1>3, <1>4

LEMMA VerifyMoveTyped == TypeInv /\ VerifyMove => TypeInv'
<1> SUFFICES ASSUME TypeInv, VerifyMove PROVE TypeInv'
  OBVIOUS
<1> USE DEF TypeInv, TypeOK
<1>1. UNCHANGED <<kind, state, staged, matched, failures, conflict, ctxDone, result,
                  writes, owed, exposed, dir>>
  BY DEF VerifyMove, endVars, planVars, worldVars
<1>2. /\ at' \in Plan
      /\ pc' \in Checking \cup Installing \cup Undoing \cup {"done"}
      /\ pc \notin {"plan", "done"} /\ pc' # "plan"
      /\ pc' \in Undoing \ {"undo"} => undo' # {}
      /\ pc' = "backup" => kind[at'] # "add"
      /\ faults' \in 0 .. MaxFaults
  BY LastIsTyped, BoundsAssumption, PlanAssumption
     DEF Plan, Checking, Installing, Undoing, VerifyMove, Undoable, Done, Advance,
         Refused, Goto
<1>3. staged' \subseteq Plan /\ undo' \subseteq Plan
  BY LastIsTyped DEF VerifyMove, Undoable, Done, Advance, Refused, Goto
<1>4. pc' = "verify" => kind[at'] # "update" \/ dir'[Staged(at')] # None
  BY <1>1, NamesAreTyped, NamesAreApart
     DEF VerifyMove, Undoable, Done, Advance, Refused, Goto, Plan
<1> QED
  BY <1>1, <1>2, <1>3, <1>4

LEMMA MoveBackTyped == TypeInv /\ MoveBack => TypeInv'
<1> SUFFICES ASSUME TypeInv, MoveBack PROVE TypeInv'
  OBVIOUS
<1> USE DEF TypeInv, TypeOK
<1>1. UNCHANGED <<kind, state, staged, undo, matched, failures, conflict, ctxDone,
                  result, writes, owed, exposed>>
  BY DEF MoveBack, endVars, patchVars, planVars, worldVars
<1>2. /\ at' \in Plan
      /\ pc' \in Checking \cup Installing \cup Undoing \cup {"done"}
      /\ pc \notin {"plan", "done"} /\ pc' # "plan"
      /\ pc' \in Undoing \ {"undo"} => undo' # {}
      /\ pc' = "backup" => kind[at'] # "add"
      /\ faults' \in 0 .. MaxFaults
  BY LastIsTyped, BoundsAssumption, PlanAssumption
     DEF Plan, Checking, Installing, Undoing, MoveBack, Refused, Fail, Goto
<1>3. pc' = "verify" => kind[at'] # "update" \/ dir'[Staged(at')] # None
  BY <1>1, NamesAreTyped, NamesAreApart
     DEF MoveBack, Refused, Fail, Goto, Rename, Plan
<1>4. dir' \in [Names -> Files \cup {None}]
  <2>1. dir \in Directories /\ at \in Plan
    BY DEF Directories
  <2> HIDE DEF TypeInv, TypeOK
  <2>9. dir' \in Directories
    BY <2>1, NamesAreTyped, DirectoriesStayTyped DEF MoveBack, Refused, Fail, Goto
  <2> QED
    BY <2>9 DEF Directories
<1> QED
  BY <1>1, <1>2, <1>3, <1>4

LEMMA VerifyUpdateTyped == TypeInv /\ VerifyUpdate => TypeInv'
<1> SUFFICES ASSUME TypeInv, VerifyUpdate PROVE TypeInv'
  OBVIOUS
<1> USE DEF TypeInv, TypeOK
<1>1. UNCHANGED <<kind, state, matched, failures, conflict, ctxDone, result, writes,
                  owed, exposed>>
  BY DEF VerifyUpdate, endVars, planVars, worldVars
<1>2. /\ at' \in Plan
      /\ pc' \in Checking \cup Installing \cup Undoing \cup {"done"}
      /\ pc \notin {"plan", "done"} /\ pc' # "plan"
      /\ pc' \in Undoing \ {"undo"} => undo' # {}
      /\ pc' = "backup" => kind[at'] # "add"
      /\ faults' \in 0 .. MaxFaults
  BY LastIsTyped, BoundsAssumption, PlanAssumption
     DEF Plan, Checking, Installing, Undoing, VerifyUpdate, Undoable, Done, Advance,
         Refused, Fail, Goto
<1>3. staged' \subseteq Plan /\ undo' \subseteq Plan
  BY LastIsTyped DEF VerifyUpdate, Undoable, Done, Advance, Refused, Fail, Goto
<1>4. pc' = "verify" => kind[at'] # "update" \/ dir'[Staged(at')] # None
  BY <1>1, NamesAreTyped, NamesAreApart
     DEF VerifyUpdate, Undoable, Done, Advance, Refused, Fail, Goto, Plan
<1>5. dir' \in [Names -> Files \cup {None}]
  <2>1. dir \in Directories /\ at \in Plan
    BY DEF Directories
  <2> HIDE DEF TypeInv, TypeOK
  <2>9. dir' \in Directories
    BY <2>1, NamesAreTyped, DirectoriesStayTyped
       DEF VerifyUpdate, Undoable, Done, Advance, Refused, Fail, Goto
  <2> QED
    BY <2>9 DEF Directories
<1> QED
  BY <1>1, <1>2, <1>3, <1>4, <1>5

LEMMA SwapBackTyped == TypeInv /\ SwapBack => TypeInv'
<1> SUFFICES ASSUME TypeInv, SwapBack PROVE TypeInv'
  OBVIOUS
<1> USE DEF TypeInv, TypeOK
<1>1. UNCHANGED <<kind, state, undo, matched, failures, conflict, ctxDone, result,
                  writes, owed, exposed>>
  BY DEF SwapBack, endVars, planVars, worldVars
<1>2. /\ at' \in Plan
      /\ pc' \in Checking \cup Installing \cup Undoing \cup {"done"}
      /\ pc \notin {"plan", "done"} /\ pc' # "plan"
      /\ pc' \in Undoing \ {"undo"} => undo' # {}
      /\ pc' = "backup" => kind[at'] # "add"
      /\ faults' \in 0 .. MaxFaults
  BY LastIsTyped, BoundsAssumption, PlanAssumption
     DEF Plan, Checking, Installing, Undoing, SwapBack, Refused, Fail, Goto
<1>3. staged' \subseteq Plan /\ undo' \subseteq Plan
  BY LastIsTyped DEF SwapBack, Refused, Fail, Goto
<1>4. pc' = "verify" => kind[at'] # "update" \/ dir'[Staged(at')] # None
  BY <1>1, NamesAreTyped, NamesAreApart
     DEF SwapBack, Refused, Fail, Goto, Exchange, Plan
<1>5. dir' \in [Names -> Files \cup {None}]
  <2>1. dir \in Directories /\ at \in Plan
    BY DEF Directories
  <2> HIDE DEF TypeInv, TypeOK
  <2>9. dir' \in Directories
    BY <2>1, NamesAreTyped, DirectoriesStayTyped DEF SwapBack, Refused, Fail, Goto
  <2> QED
    BY <2>9 DEF Directories
<1> QED
  BY <1>1, <1>2, <1>3, <1>4, <1>5

LEMMA TakeSourceTyped == TypeInv /\ TakeSource => TypeInv'
<1> SUFFICES ASSUME TypeInv, TakeSource PROVE TypeInv'
  OBVIOUS
<1> USE DEF TypeInv, TypeOK
<1>1. UNCHANGED <<kind, state, staged, matched, failures, conflict, ctxDone, result,
                  writes, owed, exposed>>
  BY DEF TakeSource, endVars, planVars, worldVars
<1>2. /\ at' \in Plan
      /\ pc' \in Checking \cup Installing \cup Undoing \cup {"done"}
      /\ pc \notin {"plan", "done"} /\ pc' # "plan"
      /\ pc' \in Undoing \ {"undo"} => undo' # {}
      /\ pc' = "backup" => kind[at'] # "add"
      /\ faults' \in 0 .. MaxFaults
  BY LastIsTyped, BoundsAssumption, PlanAssumption
     DEF Plan, Checking, Installing, Undoing, TakeSource, Goto, Refused, TakeFails,
         Fail
<1>3. staged' \subseteq Plan /\ undo' \subseteq Plan
  BY LastIsTyped DEF TakeSource, Goto, Refused, TakeFails, Fail
<1>4. pc' = "verify" => kind[at'] # "update" \/ dir'[Staged(at')] # None
  BY <1>1, NamesAreTyped, NamesAreApart
     DEF TakeSource, Goto, Refused, TakeFails, Fail, Rename, Plan
<1>5. dir' \in [Names -> Files \cup {None}]
  <2>1. dir \in Directories /\ at \in Plan
    BY DEF Directories
  <2> HIDE DEF TypeInv, TypeOK
  <2>9. dir' \in Directories
    BY <2>1, NamesAreTyped, DirectoriesStayTyped
       DEF TakeSource, Goto, Refused, TakeFails, Fail
  <2> QED
    BY <2>9 DEF Directories
<1> QED
  BY <1>1, <1>2, <1>3, <1>4, <1>5

LEMMA SettleSourceTyped == TypeInv /\ SettleSource => TypeInv'
<1> SUFFICES ASSUME TypeInv, SettleSource PROVE TypeInv'
  OBVIOUS
<1> USE DEF TypeInv, TypeOK
<1>1. UNCHANGED <<kind, state, staged, matched, failures, conflict, ctxDone, result,
                  writes, owed, exposed>>
  BY DEF SettleSource, endVars, planVars, worldVars
<1>2. /\ at' \in Plan
      /\ pc' \in Checking \cup Installing \cup Undoing \cup {"done"}
      /\ pc \notin {"plan", "done"} /\ pc' # "plan"
      /\ pc' \in Undoing \ {"undo"} => undo' # {}
      /\ pc' = "backup" => kind[at'] # "add"
      /\ faults' \in 0 .. MaxFaults
  BY LastIsTyped, BoundsAssumption, PlanAssumption
     DEF Plan, Checking, Installing, Undoing, SettleSource, Unwanted, Undoable, Done,
         Advance, Refused, TakeFails, Fail, Goto
<1>3. staged' \subseteq Plan /\ undo' \subseteq Plan
  BY LastIsTyped
     DEF SettleSource, Unwanted, Undoable, Done, Advance, Refused, TakeFails, Fail,
         Goto
<1>4. pc' = "verify" => kind[at'] # "update" \/ dir'[Staged(at')] # None
  BY <1>1, NamesAreTyped, NamesAreApart
     DEF SettleSource, Unwanted, Undoable, Done, Advance, Refused, TakeFails, Fail,
         Goto, Rename, Plan
<1>5. dir' \in [Names -> Files \cup {None}]
  <2>1. dir \in Directories /\ at \in Plan
    BY DEF Directories
  <2> HIDE DEF TypeInv, TypeOK
  <2>9. dir' \in Directories
    BY <2>1, NamesAreTyped, DirectoriesStayTyped
       DEF SettleSource, Unwanted, Undoable, Done, Advance, Refused, TakeFails, Fail,
           Goto
  <2> QED
    BY <2>9 DEF Directories
<1> QED
  BY <1>1, <1>2, <1>3, <1>4, <1>5

LEMMA PutBackTyped == TypeInv /\ PutBack => TypeInv'
<1> SUFFICES ASSUME TypeInv, PutBack PROVE TypeInv'
  OBVIOUS
<1> USE DEF TypeInv, TypeOK
<1>1. UNCHANGED <<kind, state, staged, matched, failures, conflict, ctxDone, result,
                  writes, owed, exposed>>
  BY DEF PutBack, endVars, planVars, worldVars
<1>2. /\ at' \in Plan
      /\ pc' \in Checking \cup Installing \cup Undoing \cup {"done"}
      /\ pc \notin {"plan", "done"} /\ pc' # "plan"
      /\ pc' \in Undoing \ {"undo"} => undo' # {}
      /\ pc' = "backup" => kind[at'] # "add"
      /\ faults' \in 0 .. MaxFaults
  BY LastIsTyped, BoundsAssumption, PlanAssumption
     DEF Plan, Checking, Installing, Undoing, PutBack, Goto, Refused, TakeFails,
         Fail
<1>3. staged' \subseteq Plan /\ undo' \subseteq Plan
  BY LastIsTyped DEF PutBack, Goto, Refused, TakeFails, Fail
<1>4. pc' = "verify" => kind[at'] # "update" \/ dir'[Staged(at')] # None
  BY <1>1, NamesAreTyped, NamesAreApart
     DEF PutBack, Goto, Refused, TakeFails, Fail, Rename, Plan
<1>5. dir' \in [Names -> Files \cup {None}]
  <2>1. dir \in Directories /\ at \in Plan
    BY DEF Directories
  <2> HIDE DEF TypeInv, TypeOK
  <2>9. dir' \in Directories
    BY <2>1, NamesAreTyped, DirectoriesStayTyped
       DEF PutBack, Goto, Refused, TakeFails, Fail
  <2> QED
    BY <2>9 DEF Directories
<1> QED
  BY <1>1, <1>2, <1>3, <1>4, <1>5

LEMMA CommitTyped == TypeInv /\ Commit => TypeInv'
<1> SUFFICES ASSUME TypeInv, Commit PROVE TypeInv'
  OBVIOUS
<1> USE DEF TypeInv, TypeOK
<1>1. UNCHANGED <<kind, state, staged, undo, matched, failures, conflict, ctxDone,
                  writes, exposed, faults>>
  BY DEF Commit, patchVars, planVars
<1>2. /\ at' \in Plan
      /\ pc' \in Checking \cup Installing \cup Undoing \cup {"done"}
      /\ pc \notin {"plan", "done"} /\ pc' # "plan"
      /\ pc' \in Undoing \ {"undo"} => undo' # {}
      /\ pc' = "backup" => kind[at'] # "add"
  BY LastIsTyped, BoundsAssumption, PlanAssumption
     DEF Plan, Checking, Installing, Undoing, Commit, Goto, Fail
<1>3. pc' = "verify" => kind[at'] # "update" \/ dir'[Staged(at')] # None
  BY <1>1, NamesAreTyped, NamesAreApart DEF Commit, Goto, Fail, Plan
<1>4. dir' \in [Names -> Files \cup {None}]
  <2>1. dir \in Directories /\ at \in Plan
    BY DEF Directories
  <2> HIDE DEF TypeInv, TypeOK
  <2>9. dir' \in Directories
    BY <2>1, NamesAreTyped, DirectoriesStayTyped DEF Commit, Goto, Fail
  <2> QED
    BY <2>9 DEF Directories
<1>5. result' \in {"none", "ok", "error"}
  BY DEF Commit, Goto, Fail
<1>6. owed' \subseteq Origins
  BY NamesAreTyped, LastIsTyped DEF Files, Commit, Goto, Fail
<1> QED
  BY <1>1, <1>2, <1>3, <1>4, <1>5, <1>6

LEMMA UndoAddTyped == TypeInv /\ UndoAdd => TypeInv'
<1> SUFFICES ASSUME TypeInv, UndoAdd PROVE TypeInv'
  OBVIOUS
<1> USE DEF TypeInv, TypeOK
<1>1. UNCHANGED <<kind, state, ctxDone, result, writes, owed, exposed, dir>>
  BY DEF UndoAdd, endVars, planVars, worldVars
<1>2. /\ at' \in Plan
      /\ pc' \in Checking \cup Installing \cup Undoing \cup {"done"}
      /\ pc \notin {"plan", "done"} /\ pc' # "plan"
      /\ pc' \in Undoing \ {"undo"} => undo' # {}
      /\ pc' = "backup" => kind[at'] # "add"
      /\ faults' \in 0 .. MaxFaults
  BY LastIsTyped, BoundsAssumption, PlanAssumption
     DEF Plan, Checking, Installing, Undoing, UndoAdd, Undo, Undone, Goto, Refused,
         patchVars
<1>3. staged' \subseteq Plan /\ undo' \subseteq Plan
  BY LastIsTyped DEF UndoAdd, Undo, Undone, Goto, Refused, patchVars
<1>4. pc' = "verify" => kind[at'] # "update" \/ dir'[Staged(at')] # None
  BY <1>1, NamesAreTyped, NamesAreApart
     DEF UndoAdd, Undo, Undone, Goto, Refused, patchVars, Plan
<1>5. matched' \in BOOLEAN
  BY DEF UndoAdd, Undo, Undone, Goto, Refused, patchVars
<1>6. failures' \in BOOLEAN
  BY DEF UndoAdd, Undo, Undone, Goto, Refused, patchVars
<1>7. conflict' \in BOOLEAN
  BY DEF UndoAdd, Undo, Undone, Goto, Refused, patchVars
<1> QED
  BY <1>1, <1>2, <1>3, <1>4, <1>5, <1>6, <1>7

LEMMA UndoRemoveTyped == TypeInv /\ UndoRemove => TypeInv'
<1> SUFFICES ASSUME TypeInv, UndoRemove PROVE TypeInv'
  OBVIOUS
<1> USE DEF TypeInv, TypeOK
<1>1. UNCHANGED <<kind, state, ctxDone, result, writes, owed, exposed>>
  BY DEF UndoRemove, endVars, planVars, worldVars
<1>2. /\ at' \in Plan
      /\ pc' \in Checking \cup Installing \cup Undoing \cup {"done"}
      /\ pc \notin {"plan", "done"} /\ pc' # "plan"
      /\ pc' \in Undoing \ {"undo"} => undo' # {}
      /\ pc' = "backup" => kind[at'] # "add"
      /\ faults' \in 0 .. MaxFaults
  BY LastIsTyped, BoundsAssumption, PlanAssumption
     DEF Plan, Checking, Installing, Undoing, UndoRemove, Undone, Goto, Refused
<1>3. staged' \subseteq Plan /\ undo' \subseteq Plan
  BY LastIsTyped DEF UndoRemove, Undone, Goto, Refused
<1>4. pc' = "verify" => kind[at'] # "update" \/ dir'[Staged(at')] # None
  BY <1>1, NamesAreTyped, NamesAreApart DEF UndoRemove, Undone, Goto, Refused, Plan
<1>5. dir' \in [Names -> Files \cup {None}]
  <2>1. dir \in Directories /\ at \in Plan
    BY DEF Directories
  <2>2. Last \in Plan
    BY LastIsTyped DEF UndoRemove, Undone, Goto, Refused, Undoing
  <2> HIDE DEF TypeInv, TypeOK
  <2>9. dir' \in Directories
    BY <2>1, <2>2, NamesAreTyped, DirectoriesStayTyped
       DEF UndoRemove, Undone, Goto, Refused
  <2> QED
    BY <2>9 DEF Directories
<1>6. matched' \in BOOLEAN
  BY DEF UndoRemove, Undone, Goto, Refused
<1>7. failures' \in BOOLEAN
  BY DEF UndoRemove, Undone, Goto, Refused
<1>8. conflict' \in BOOLEAN
  BY DEF UndoRemove, Undone, Goto, Refused
<1> QED
  BY <1>1, <1>2, <1>3, <1>4, <1>5, <1>6, <1>7, <1>8

LEMMA UndoDeleteTyped == TypeInv /\ UndoDelete => TypeInv'
<1> SUFFICES ASSUME TypeInv, UndoDelete PROVE TypeInv'
  OBVIOUS
<1> USE DEF TypeInv, TypeOK
<1>1. UNCHANGED <<kind, state, ctxDone, result, writes, owed, exposed>>
  BY DEF UndoDelete, Restore, endVars, planVars, worldVars
<1>2. /\ at' \in Plan
      /\ pc' \in Checking \cup Installing \cup Undoing \cup {"done"}
      /\ pc \notin {"plan", "done"} /\ pc' # "plan"
      /\ pc' \in Undoing \ {"undo"} => undo' # {}
      /\ pc' = "backup" => kind[at'] # "add"
      /\ faults' \in 0 .. MaxFaults
  BY LastIsTyped, BoundsAssumption, PlanAssumption
     DEF Plan, Checking, Installing, Undoing, UndoDelete, Undo, Restore, Undone, Goto,
         Refused
<1>3. staged' \subseteq Plan /\ undo' \subseteq Plan
  BY LastIsTyped DEF UndoDelete, Undo, Restore, Undone, Goto, Refused
<1>4. pc' = "verify" => kind[at'] # "update" \/ dir'[Staged(at')] # None
  BY <1>1, NamesAreTyped, NamesAreApart
     DEF UndoDelete, Undo, Restore, Undone, Goto, Refused, Rename, Plan
<1>5. dir' \in [Names -> Files \cup {None}]
  <2>1. dir \in Directories /\ at \in Plan
    BY DEF Directories
  <2>2. Last \in Plan
    BY LastIsTyped DEF UndoDelete, Undo, Restore, Undone, Goto, Refused, Undoing
  <2> HIDE DEF TypeInv, TypeOK
  <2>9. dir' \in Directories
    BY <2>1, <2>2, NamesAreTyped, DirectoriesStayTyped
       DEF UndoDelete, Undo, Restore, Undone, Goto, Refused
  <2> QED
    BY <2>9 DEF Directories
<1>6. matched' \in BOOLEAN
  BY DEF UndoDelete, Undo, Restore, Undone, Goto, Refused
<1>7. failures' \in BOOLEAN
  BY DEF UndoDelete, Undo, Restore, Undone, Goto, Refused
<1>8. conflict' \in BOOLEAN
  BY DEF UndoDelete, Undo, Restore, Undone, Goto, Refused
<1> QED
  BY <1>1, <1>2, <1>3, <1>4, <1>5, <1>6, <1>7, <1>8

LEMMA UndoRestoreTyped == TypeInv /\ UndoRestore => TypeInv'
<1> SUFFICES ASSUME TypeInv, UndoRestore PROVE TypeInv'
  OBVIOUS
<1> USE DEF TypeInv, TypeOK
<1>1. UNCHANGED <<kind, state, ctxDone, result, writes, owed, exposed>>
  BY DEF UndoRestore, Restore, endVars, planVars, worldVars
<1>2. /\ at' \in Plan
      /\ pc' \in Checking \cup Installing \cup Undoing \cup {"done"}
      /\ pc \notin {"plan", "done"} /\ pc' # "plan"
      /\ pc' \in Undoing \ {"undo"} => undo' # {}
      /\ pc' = "backup" => kind[at'] # "add"
      /\ faults' \in 0 .. MaxFaults
  BY LastIsTyped, BoundsAssumption, PlanAssumption
     DEF Plan, Checking, Installing, Undoing, UndoRestore, Restore, Undone, Goto,
         Refused
<1>3. staged' \subseteq Plan /\ undo' \subseteq Plan
  BY LastIsTyped DEF UndoRestore, Restore, Undone, Goto, Refused
<1>4. pc' = "verify" => kind[at'] # "update" \/ dir'[Staged(at')] # None
  BY <1>1, NamesAreTyped, NamesAreApart
     DEF UndoRestore, Restore, Undone, Goto, Refused, Rename, Plan
<1>5. dir' \in [Names -> Files \cup {None}]
  <2>1. dir \in Directories /\ at \in Plan
    BY DEF Directories
  <2>2. Last \in Plan
    BY LastIsTyped DEF UndoRestore, Restore, Undone, Goto, Refused, Undoing
  <2> HIDE DEF TypeInv, TypeOK
  <2>9. dir' \in Directories
    BY <2>1, <2>2, NamesAreTyped, DirectoriesStayTyped
       DEF UndoRestore, Restore, Undone, Goto, Refused
  <2> QED
    BY <2>9 DEF Directories
<1>6. matched' \in BOOLEAN
  BY DEF UndoRestore, Restore, Undone, Goto, Refused
<1>7. failures' \in BOOLEAN
  BY DEF UndoRestore, Restore, Undone, Goto, Refused
<1>8. conflict' \in BOOLEAN
  BY DEF UndoRestore, Restore, Undone, Goto, Refused
<1> QED
  BY <1>1, <1>2, <1>3, <1>4, <1>5, <1>6, <1>7, <1>8

LEMMA UndoUpdateTyped == TypeInv /\ UndoUpdate => TypeInv'
<1> SUFFICES ASSUME TypeInv, UndoUpdate PROVE TypeInv'
  OBVIOUS
<1> USE DEF TypeInv, TypeOK
<1>1. UNCHANGED <<kind, state, ctxDone, result, writes, owed, exposed, dir>>
  BY DEF UndoUpdate, endVars, planVars, worldVars
<1>2. /\ at' \in Plan
      /\ pc' \in Checking \cup Installing \cup Undoing \cup {"done"}
      /\ pc \notin {"plan", "done"} /\ pc' # "plan"
      /\ pc' \in Undoing \ {"undo"} => undo' # {}
      /\ pc' = "backup" => kind[at'] # "add"
      /\ faults' \in 0 .. MaxFaults
  BY LastIsTyped, BoundsAssumption, PlanAssumption
     DEF Plan, Checking, Installing, Undoing, UndoUpdate, Undo, Goto, Refused, Undone,
         patchVars
<1>3. staged' \subseteq Plan /\ undo' \subseteq Plan
  BY LastIsTyped DEF UndoUpdate, Undo, Goto, Refused, Undone, patchVars
<1>4. pc' = "verify" => kind[at'] # "update" \/ dir'[Staged(at')] # None
  BY <1>1, NamesAreTyped, NamesAreApart
     DEF UndoUpdate, Undo, Goto, Refused, Undone, patchVars, Plan
<1>5. matched' \in BOOLEAN
  BY DEF UndoUpdate, Undo, Goto, Refused, Undone, patchVars
<1>6. failures' \in BOOLEAN
  BY DEF UndoUpdate, Undo, Goto, Refused, Undone, patchVars
<1>7. conflict' \in BOOLEAN
  BY DEF UndoUpdate, Undo, Goto, Refused, Undone, patchVars
<1> QED
  BY <1>1, <1>2, <1>3, <1>4, <1>5, <1>6, <1>7

LEMMA UndoSwapTyped == TypeInv /\ UndoSwap => TypeInv'
<1> SUFFICES ASSUME TypeInv, UndoSwap PROVE TypeInv'
  OBVIOUS
<1> USE DEF TypeInv, TypeOK
<1>1. UNCHANGED <<kind, state, ctxDone, result, writes, owed, exposed>>
  BY DEF UndoSwap, endVars, planVars, worldVars
<1>2. /\ at' \in Plan
      /\ pc' \in Checking \cup Installing \cup Undoing \cup {"done"}
      /\ pc \notin {"plan", "done"} /\ pc' # "plan"
      /\ pc' \in Undoing \ {"undo"} => undo' # {}
      /\ pc' = "backup" => kind[at'] # "add"
      /\ faults' \in 0 .. MaxFaults
  BY LastIsTyped, BoundsAssumption, PlanAssumption
     DEF Plan, Checking, Installing, Undoing, UndoSwap, Goto, Refused, Undone,
         patchVars
<1>3. staged' \subseteq Plan /\ undo' \subseteq Plan
  BY LastIsTyped DEF UndoSwap, Goto, Refused, Undone, patchVars
<1>4. pc' = "verify" => kind[at'] # "update" \/ dir'[Staged(at')] # None
  BY <1>1, NamesAreTyped, NamesAreApart
     DEF UndoSwap, Goto, Refused, Undone, patchVars, Exchange, Plan
<1>5. dir' \in [Names -> Files \cup {None}]
  <2>1. dir \in Directories /\ at \in Plan
    BY DEF Directories
  <2>2. Last \in Plan
    BY LastIsTyped DEF UndoSwap, Goto, Refused, Undone, Undoing
  <2> HIDE DEF TypeInv, TypeOK
  <2>9. dir' \in Directories
    BY <2>1, <2>2, NamesAreTyped, DirectoriesStayTyped
       DEF UndoSwap, Goto, Refused, Undone, patchVars
  <2> QED
    BY <2>9 DEF Directories
<1>6. matched' \in BOOLEAN
  BY DEF UndoSwap, Goto, Refused, Undone, patchVars
<1>7. failures' \in BOOLEAN
  BY DEF UndoSwap, Goto, Refused, Undone, patchVars
<1>8. conflict' \in BOOLEAN
  BY DEF UndoSwap, Goto, Refused, Undone, patchVars
<1> QED
  BY <1>1, <1>2, <1>3, <1>4, <1>5, <1>6, <1>7, <1>8

LEMMA UndoSettleTyped == TypeInv /\ UndoSettle => TypeInv'
<1> SUFFICES ASSUME TypeInv, UndoSettle PROVE TypeInv'
  OBVIOUS
<1> USE DEF TypeInv, TypeOK
<1>1. UNCHANGED <<kind, state, ctxDone, result, writes, owed, exposed>>
  BY DEF UndoSettle, endVars, planVars, worldVars
<1>2. /\ at' \in Plan
      /\ pc' \in Checking \cup Installing \cup Undoing \cup {"done"}
      /\ pc \notin {"plan", "done"} /\ pc' # "plan"
      /\ pc' \in Undoing \ {"undo"} => undo' # {}
      /\ pc' = "backup" => kind[at'] # "add"
      /\ faults' \in 0 .. MaxFaults
  BY LastIsTyped, BoundsAssumption, PlanAssumption
     DEF Plan, Checking, Installing, Undoing, UndoSettle, Undone, Goto, Refused,
         patchVars
<1>3. staged' \subseteq Plan /\ undo' \subseteq Plan
  BY LastIsTyped DEF UndoSettle, Undone, Goto, Refused, patchVars
<1>4. pc' = "verify" => kind[at'] # "update" \/ dir'[Staged(at')] # None
  BY <1>1, NamesAreTyped, NamesAreApart
     DEF UndoSettle, Undone, Goto, Refused, patchVars, Plan
<1>5. dir' \in [Names -> Files \cup {None}]
  <2>1. dir \in Directories /\ at \in Plan
    BY DEF Directories
  <2>2. Last \in Plan
    BY LastIsTyped DEF UndoSettle, Undone, Goto, Refused, Undoing
  <2> HIDE DEF TypeInv, TypeOK
  <2>9. dir' \in Directories
    BY <2>1, <2>2, NamesAreTyped, DirectoriesStayTyped
       DEF UndoSettle, Undone, Goto, Refused, patchVars
  <2> QED
    BY <2>9 DEF Directories
<1>6. matched' \in BOOLEAN
  BY DEF UndoSettle, Undone, Goto, Refused, patchVars
<1>7. failures' \in BOOLEAN
  BY DEF UndoSettle, Undone, Goto, Refused, patchVars
<1>8. conflict' \in BOOLEAN
  BY DEF UndoSettle, Undone, Goto, Refused, patchVars
<1> QED
  BY <1>1, <1>2, <1>3, <1>4, <1>5, <1>6, <1>7, <1>8

LEMMA UndoOriginalTyped == TypeInv /\ UndoOriginal => TypeInv'
<1> SUFFICES ASSUME TypeInv, UndoOriginal PROVE TypeInv'
  OBVIOUS
<1> USE DEF TypeInv, TypeOK
<1>1. UNCHANGED <<kind, state, ctxDone, result, writes, owed, exposed>>
  BY DEF UndoOriginal, endVars, planVars, worldVars
<1>2. /\ at' \in Plan
      /\ pc' \in Checking \cup Installing \cup Undoing \cup {"done"}
      /\ pc \notin {"plan", "done"} /\ pc' # "plan"
      /\ pc' \in Undoing \ {"undo"} => undo' # {}
      /\ pc' = "backup" => kind[at'] # "add"
      /\ faults' \in 0 .. MaxFaults
  BY LastIsTyped, BoundsAssumption, PlanAssumption
     DEF Plan, Checking, Installing, Undoing, UndoOriginal, Undone, Goto, Refused,
         patchVars
<1>3. staged' \subseteq Plan /\ undo' \subseteq Plan
  BY LastIsTyped DEF UndoOriginal, Undone, Goto, Refused, patchVars
<1>4. pc' = "verify" => kind[at'] # "update" \/ dir'[Staged(at')] # None
  BY <1>1, NamesAreTyped, NamesAreApart
     DEF UndoOriginal, Undone, Goto, Refused, patchVars, Plan
<1>5. dir' \in [Names -> Files \cup {None}]
  <2>1. dir \in Directories /\ at \in Plan
    BY DEF Directories
  <2>2. Last \in Plan
    BY LastIsTyped DEF UndoOriginal, Undone, Goto, Refused, Undoing
  <2> HIDE DEF TypeInv, TypeOK
  <2>9. dir' \in Directories
    BY <2>1, <2>2, NamesAreTyped, DirectoriesStayTyped
       DEF UndoOriginal, Undone, Goto, Refused, patchVars
  <2> QED
    BY <2>9 DEF Directories
<1>6. matched' \in BOOLEAN
  BY DEF UndoOriginal, Undone, Goto, Refused, patchVars
<1>7. failures' \in BOOLEAN
  BY DEF UndoOriginal, Undone, Goto, Refused, patchVars
<1>8. conflict' \in BOOLEAN
  BY DEF UndoOriginal, Undone, Goto, Refused, patchVars
<1> QED
  BY <1>1, <1>2, <1>3, <1>4, <1>5, <1>6, <1>7, <1>8

LEMMA UndoSwapBackTyped == TypeInv /\ UndoSwapBack => TypeInv'
<1> SUFFICES ASSUME TypeInv, UndoSwapBack PROVE TypeInv'
  OBVIOUS
<1> USE DEF TypeInv, TypeOK
<1>1. UNCHANGED <<kind, state, ctxDone, result, writes, owed, exposed>>
  BY DEF UndoSwapBack, endVars, planVars, worldVars
<1>2. /\ at' \in Plan
      /\ pc' \in Checking \cup Installing \cup Undoing \cup {"done"}
      /\ pc \notin {"plan", "done"} /\ pc' # "plan"
      /\ pc' \in Undoing \ {"undo"} => undo' # {}
      /\ pc' = "backup" => kind[at'] # "add"
      /\ faults' \in 0 .. MaxFaults
  BY LastIsTyped, BoundsAssumption, PlanAssumption
     DEF Plan, Checking, Installing, Undoing, UndoSwapBack, Refused, Undone, Goto
<1>3. staged' \subseteq Plan /\ undo' \subseteq Plan
  BY LastIsTyped DEF UndoSwapBack, Refused, Undone, Goto
<1>4. pc' = "verify" => kind[at'] # "update" \/ dir'[Staged(at')] # None
  BY <1>1, NamesAreTyped, NamesAreApart
     DEF UndoSwapBack, Refused, Undone, Goto, Exchange, Plan
<1>5. dir' \in [Names -> Files \cup {None}]
  <2>1. dir \in Directories /\ at \in Plan
    BY DEF Directories
  <2>2. Last \in Plan
    BY LastIsTyped DEF UndoSwapBack, Refused, Undone, Goto, Undoing
  <2> HIDE DEF TypeInv, TypeOK
  <2>9. dir' \in Directories
    BY <2>1, <2>2, NamesAreTyped, DirectoriesStayTyped
       DEF UndoSwapBack, Refused, Undone, Goto
  <2> QED
    BY <2>9 DEF Directories
<1>6. matched' \in BOOLEAN
  BY DEF UndoSwapBack, Refused, Undone, Goto
<1>7. failures' \in BOOLEAN
  BY DEF UndoSwapBack, Refused, Undone, Goto
<1>8. conflict' \in BOOLEAN
  BY DEF UndoSwapBack, Refused, Undone, Goto
<1> QED
  BY <1>1, <1>2, <1>3, <1>4, <1>5, <1>6, <1>7, <1>8

LEMMA UndoMovedTyped == TypeInv /\ UndoMoved => TypeInv'
<1> SUFFICES ASSUME TypeInv, UndoMoved PROVE TypeInv'
  OBVIOUS
<1> USE DEF TypeInv, TypeOK
<1>1. UNCHANGED <<kind, state, staged, undo, conflict, ctxDone, result, writes, owed,
                  exposed, dir>>
  BY DEF UndoMoved, endVars, planVars, worldVars
<1>2. /\ at' = at /\ undo # {} /\ pc = "undo"
      /\ pc' \in {"undoTarget", "undoCheck", "undoFast", "undoLink"}
  BY DEF UndoMoved, Undo, Goto
<1>6. faults' \in 0 .. MaxFaults
  <2> HIDE DEF TypeInv, TypeOK
  <2>1. faults' = faults \/ (faults < MaxFaults /\ faults' = faults + 1)
    BY Zenon DEF UndoMoved, Refused
  <2>2. faults \in 0 .. MaxFaults
    BY DEF TypeInv, TypeOK
  <2> QED
    BY ONLY <2>1, <2>2, BoundsAssumption
<1>3. pc' = "verify" => kind[at'] # "update" \/ dir'[Staged(at')] # None
  BY <1>2
<1>4. matched' \in BOOLEAN
  BY DEF UndoMoved, Undo, Refused, Goto
<1>5. failures' \in BOOLEAN
  BY DEF UndoMoved, Undo, Refused, Goto
<1> QED
  BY <1>1, <1>2, <1>3, <1>4, <1>5, <1>6 DEF Undoing

LEMMA UndoFastTyped == TypeInv /\ UndoFast => TypeInv'
<1> SUFFICES ASSUME TypeInv, UndoFast PROVE TypeInv'
  OBVIOUS
<1> USE DEF TypeInv, TypeOK
<1>1. UNCHANGED <<kind, state, ctxDone, result, writes, owed, exposed>>
  BY DEF UndoFast, endVars, planVars, worldVars
<1>2. /\ at' \in Plan
      /\ pc' \in Checking \cup Installing \cup Undoing \cup {"done"}
      /\ pc \notin {"plan", "done"} /\ pc' # "plan"
      /\ pc' \in Undoing \ {"undo"} => undo' # {}
      /\ pc' = "backup" => kind[at'] # "add"
      /\ faults' \in 0 .. MaxFaults
  BY LastIsTyped, BoundsAssumption, PlanAssumption
     DEF Plan, Checking, Installing, Undoing, UndoFast, Without, Undone, Goto,
         Refused, patchVars
<1>3. staged' \subseteq Plan /\ undo' \subseteq Plan
  BY LastIsTyped DEF UndoFast, Without, Undone, Goto, Refused, patchVars
<1>4. pc' = "verify" => kind[at'] # "update" \/ dir'[Staged(at')] # None
  BY <1>1, NamesAreTyped, NamesAreApart
     DEF UndoFast, Without, Undone, Goto, Refused, patchVars, Rename, Plan
<1>5. dir' \in [Names -> Files \cup {None}]
  <2>1. dir \in Directories /\ at \in Plan
    BY DEF Directories
  <2>2. Last \in Plan
    BY LastIsTyped DEF UndoFast, Without, Undone, Goto, Refused, Undoing
  <2> HIDE DEF TypeInv, TypeOK
  <2>9. dir' \in Directories
    BY <2>1, <2>2, NamesAreTyped, DirectoriesStayTyped
       DEF UndoFast, Without, Undone, Goto, Refused, patchVars
  <2> QED
    BY <2>9 DEF Directories
<1>6. matched' \in BOOLEAN
  BY DEF UndoFast, Without, Undone, Goto, Refused, patchVars
<1>7. failures' \in BOOLEAN
  BY DEF UndoFast, Without, Undone, Goto, Refused, patchVars
<1>8. conflict' \in BOOLEAN
  BY DEF UndoFast, Without, Undone, Goto, Refused, patchVars
<1> QED
  BY <1>1, <1>2, <1>3, <1>4, <1>5, <1>6, <1>7, <1>8

LEMMA UndoLinkTyped == TypeInv /\ UndoLink => TypeInv'
<1> SUFFICES ASSUME TypeInv, UndoLink PROVE TypeInv'
  OBVIOUS
<1> USE DEF TypeInv, TypeOK
<1>1. UNCHANGED <<kind, state, staged, undo, matched, conflict, ctxDone, result,
                  writes, owed, exposed>>
  BY DEF UndoLink, endVars, planVars, worldVars
<1>2. /\ at' \in Plan
      /\ pc' \in Checking \cup Installing \cup Undoing \cup {"done"}
      /\ pc \notin {"plan", "done"} /\ pc' # "plan"
      /\ pc' \in Undoing \ {"undo"} => undo' # {}
      /\ pc' = "backup" => kind[at'] # "add"
      /\ faults' \in 0 .. MaxFaults
  BY LastIsTyped, BoundsAssumption, PlanAssumption
     DEF Plan, Checking, Installing, Undoing, UndoLink, Refused, Goto
<1>3. pc' = "verify" => kind[at'] # "update" \/ dir'[Staged(at')] # None
  BY <1>1, NamesAreTyped, NamesAreApart DEF UndoLink, Refused, Goto, Plan
<1>4. dir' \in [Names -> Files \cup {None}]
  <2>1. dir \in Directories /\ at \in Plan
    BY DEF Directories
  <2>2. Last \in Plan
    BY LastIsTyped DEF UndoLink, Refused, Goto, Undoing
  <2> HIDE DEF TypeInv, TypeOK
  <2>9. dir' \in Directories
    BY <2>1, <2>2, NamesAreTyped, DirectoriesStayTyped DEF UndoLink, Refused, Goto
  <2> QED
    BY <2>9 DEF Directories
<1>5. failures' \in BOOLEAN
  BY DEF UndoLink, Refused, Goto
<1> QED
  BY <1>1, <1>2, <1>3, <1>4, <1>5

LEMMA UndoCheckTyped == TypeInv /\ UndoCheck => TypeInv'
<1> SUFFICES ASSUME TypeInv, UndoCheck PROVE TypeInv'
  OBVIOUS
<1> USE DEF TypeInv, TypeOK
<1>1. UNCHANGED <<kind, state, staged, undo, matched, conflict, ctxDone, result,
                  writes, owed, exposed, dir>>
  BY DEF UndoCheck, endVars, planVars, worldVars
<1>2. /\ at' \in Plan
      /\ pc' \in Checking \cup Installing \cup Undoing \cup {"done"}
      /\ pc \notin {"plan", "done"} /\ pc' # "plan"
      /\ pc' \in Undoing \ {"undo"} => undo' # {}
      /\ pc' = "backup" => kind[at'] # "add"
      /\ faults' \in 0 .. MaxFaults
  BY LastIsTyped, BoundsAssumption, PlanAssumption
     DEF Plan, Checking, Installing, Undoing, UndoCheck, Refused, Goto
<1>3. pc' = "verify" => kind[at'] # "update" \/ dir'[Staged(at')] # None
  BY <1>1, NamesAreTyped, NamesAreApart DEF UndoCheck, Refused, Goto, Plan
<1>4. failures' \in BOOLEAN
  BY DEF UndoCheck, Refused, Goto
<1> QED
  BY <1>1, <1>2, <1>3, <1>4

LEMMA UndoTargetTyped == TypeInv /\ UndoTarget => TypeInv'
<1> SUFFICES ASSUME TypeInv, UndoTarget PROVE TypeInv'
  OBVIOUS
<1> USE DEF TypeInv, TypeOK
<1>1. UNCHANGED <<kind, state, ctxDone, result, writes, owed, exposed>>
  BY DEF UndoTarget, endVars, planVars, worldVars
<1>2. /\ at' \in Plan
      /\ pc' \in Checking \cup Installing \cup Undoing \cup {"done"}
      /\ pc \notin {"plan", "done"} /\ pc' # "plan"
      /\ pc' \in Undoing \ {"undo"} => undo' # {}
      /\ pc' = "backup" => kind[at'] # "add"
      /\ faults' \in 0 .. MaxFaults
  BY LastIsTyped, BoundsAssumption, PlanAssumption
     DEF Plan, Checking, Installing, Undoing, UndoTarget, Undone, Goto, Refused
<1>3. staged' \subseteq Plan /\ undo' \subseteq Plan
  BY LastIsTyped DEF UndoTarget, Undone, Goto, Refused
<1>4. pc' = "verify" => kind[at'] # "update" \/ dir'[Staged(at')] # None
  BY <1>1, NamesAreTyped, NamesAreApart DEF UndoTarget, Undone, Goto, Refused, Plan
<1>5. dir' \in [Names -> Files \cup {None}]
  <2>1. dir \in Directories /\ at \in Plan
    BY DEF Directories
  <2>2. Last \in Plan
    BY LastIsTyped DEF UndoTarget, Undone, Goto, Refused, Undoing
  <2> HIDE DEF TypeInv, TypeOK
  <2>9. dir' \in Directories
    BY <2>1, <2>2, NamesAreTyped, DirectoriesStayTyped
       DEF UndoTarget, Undone, Goto, Refused
  <2> QED
    BY <2>9 DEF Directories
<1>6. matched' \in BOOLEAN
  BY DEF UndoTarget, Undone, Goto, Refused
<1>7. failures' \in BOOLEAN
  BY DEF UndoTarget, Undone, Goto, Refused
<1>8. conflict' \in BOOLEAN
  BY DEF UndoTarget, Undone, Goto, Refused
<1> QED
  BY <1>1, <1>2, <1>3, <1>4, <1>5, <1>6, <1>7, <1>8

LEMMA RolledBackTyped == TypeInv /\ RolledBack => TypeInv'
<1> SUFFICES ASSUME TypeInv, RolledBack PROVE TypeInv'
  OBVIOUS
<1> USE DEF TypeInv, TypeOK
<1>1. UNCHANGED <<kind, state, staged, undo, matched, failures, conflict, ctxDone,
                  writes, owed, exposed, faults>>
  BY DEF RolledBack, patchVars, planVars, worldVars
<1>2. /\ at' \in Plan
      /\ pc' \in Checking \cup Installing \cup Undoing \cup {"done"}
      /\ pc \notin {"plan", "done"} /\ pc' # "plan"
      /\ pc' \in Undoing \ {"undo"} => undo' # {}
      /\ pc' = "backup" => kind[at'] # "add"
  BY LastIsTyped, BoundsAssumption, PlanAssumption
     DEF Plan, Checking, Installing, Undoing, RolledBack, CleanupStages, GiveUp, Goto
<1>3. pc' = "verify" => kind[at'] # "update" \/ dir'[Staged(at')] # None
  BY <1>1, NamesAreTyped, NamesAreApart
     DEF RolledBack, CleanupStages, GiveUp, Goto, Plan
<1>4. dir' \in [Names -> Files \cup {None}]
  <2>1. dir \in Directories /\ at \in Plan
    BY DEF Directories
  <2> HIDE DEF TypeInv, TypeOK
  <2>9. dir' \in Directories
    BY <2>1, NamesAreTyped, DirectoriesStayTyped
       DEF RolledBack, CleanupStages, GiveUp, Goto
  <2> QED
    BY <2>9 DEF Directories
<1>5. result' \in {"none", "ok", "error"}
  BY DEF RolledBack, CleanupStages, GiveUp, Goto
<1> QED
  BY <1>1, <1>2, <1>3, <1>4, <1>5

LEMMA CancelTyped == TypeInv /\ Cancel => TypeInv'
<1> SUFFICES ASSUME TypeInv, Cancel PROVE TypeInv'
  OBVIOUS
<1> USE DEF TypeInv, TypeOK
<1>1. UNCHANGED <<kind, state, staged, undo, matched, failures, conflict, result,
                  writes, owed, exposed, dir, pc, at, faults>>
  BY DEF Cancel, patchVars, planVars, worldVars
<1>2. at' \in Plan
  BY <1>1 DEF Plan
<1>3. pc' \in Undoing \ {"undo"} => undo' # {}
  BY <1>1 DEF Undoing, Cancel
<1>4. ctxDone' \in BOOLEAN
  BY DEF Cancel
<1> QED
  BY <1>1, <1>2, <1>3, <1>4

LEMMA WorldTyped ==
  ASSUME TypeInv, NEW p \in InUse,
         Replace(p) \/ RewriteInPlace(p) \/ Unlink(p)
  PROVE  TypeInv'
<1> DEFINE rewritten == [n \in Names |->
             IF dir[n] # None /\ dir[n].ino = dir[p].ino
             THEN [dir[n] EXCEPT !.text = Writer] ELSE dir[n]]
<1>1. PICK d, new :
        /\ Change(p, d, new) /\ new \in {{Writer}, {}}
        /\ \/ d = [dir EXCEPT ![p] = [ino |-> Writer, text |-> Writer]]
           \/ d = Remove(p)
           \/ d = rewritten
  BY DEF Replace, RewriteInPlace, Unlink
<1>2. UNCHANGED <<kind, state, staged, undo, matched, failures, conflict, ctxDone,
                  result, pc, at, faults>>
  BY <1>1 DEF Change, planVars, patchVars, endVars
<1>3. writes' \in 0 .. MaxWrites /\ Writer \in Origins
  BY <1>1, BoundsAssumption DEF Change, Writer, Origins, TypeInv, TypeOK
<1>4. owed' \subseteq Origins /\ exposed' \subseteq Origins
  BY <1>1, <1>3 DEF Change, TypeInv, TypeOK
<1>5. dir \in Directories /\ p \in Names
  BY NamesAreTyped DEF Directories, TypeInv, TypeOK, InUse
<1>6. [ino |-> Writer, text |-> Writer] \in Files
  BY <1>3 DEF Files
<1>7. rewritten \in Directories
  <2>1. \A n \in Names : dir[n] # None => [dir[n] EXCEPT !.text = Writer] \in Files
    BY <1>3, <1>5 DEF Directories, Files
  <2> QED
    BY <1>5, <2>1 DEF Directories
<1>8. dir' \in Directories
  BY <1>1, <1>5, <1>6, <1>7, DirectoriesStayTyped DEF Change
<1>9. ASSUME NEW n \in Names, n \notin InUse, dir[n] # None
      PROVE  dir'[n] # None
  <2>1. n # p
    BY <1>9
  <2>2. dir[n] # None => [dir[n] EXCEPT !.text = Writer] \in Files
    BY <1>3, <1>5 DEF Directories, Files
  <2> HIDE DEF rewritten
  <2>3. CASE d = rewritten
    BY <1>1, <1>9, <2>2, <2>3, NoneAssumption DEF Change, rewritten
  <2> QED
    BY <1>1, <1>5, <1>9, <2>1, <2>3 DEF Change, Remove, Directories
<1>10. pc = "verify" /\ kind[at] = "update" => dir'[Staged(at)] # None
  <2>1. at \in Plan
    BY DEF TypeInv, TypeOK
  <2>2. Staged(at) \in Names /\ Staged(at) \notin InUse
    BY <2>1, NamesAreTyped DEF InUse, Staged, Source, Moved, Target
  <2> QED
    BY <1>9, <2>2 DEF TypeInv
<1> QED
  BY <1>2, <1>3, <1>4, <1>8, <1>10 DEF TypeInv, TypeOK, Directories

LEMMA InitTyped == Init => TypeInv
<1> SUFFICES ASSUME Init PROVE TypeInv
  OBVIOUS
<1> USE DEF Init
<1>1. dir \in [Names -> Files \cup {None}]
  BY DEF Before, Original, Files, Origins, Source, Names, Paths
<1>2. owed \subseteq Origins
  BY DEF Before, Origins, Source, Paths
<1>3. state \in [Plan -> Files \cup {None}]
  OBVIOUS
<1>4. at \in Plan
  BY PlanAssumption DEF Plan
<1>5. ~ (\E i \in Plan : i < 1)
  BY PlanAssumption DEF Plan
<1>6. writes \in 0 .. MaxWrites /\ faults \in 0 .. MaxFaults
  BY BoundsAssumption
<1>7. TypeOK
  BY <1>1, <1>2, <1>3, <1>4, <1>6 DEF TypeOK, Checking
<1> QED
  BY <1>5, <1>7 DEF TypeInv, Undoing

LEMMA StepTyped == TypeInv /\ [Next]_vars => TypeInv'
<1> SUFFICES ASSUME TypeInv, [Next]_vars PROVE TypeInv'
  OBVIOUS
<1>1. CASE CheckStep
  BY <1>1, PlanActionTyped, StagePlanTyped, RevalidatePlanTyped,
     RevalidateActionTyped, CreateBackupTyped, RecheckTyped
     DEF CheckStep
<1>2. CASE InstallStep
  BY <1>2, InstallStagedTyped, InstallMoveTyped, InstallUpdateTyped, VerifyMoveTyped,
     MoveBackTyped, VerifyUpdateTyped, SwapBackTyped, TakeSourceTyped,
     SettleSourceTyped, PutBackTyped, CommitTyped
     DEF InstallStep
<1>3. CASE UndoStep
  BY <1>3, UndoAddTyped, UndoRemoveTyped, UndoDeleteTyped, UndoRestoreTyped,
     UndoUpdateTyped, UndoSwapTyped, UndoSettleTyped, UndoOriginalTyped, UndoSwapBackTyped,
     UndoMovedTyped, UndoFastTyped, UndoLinkTyped, UndoCheckTyped, UndoTargetTyped,
     RolledBackTyped
     DEF UndoStep
<1>4. CASE Cancel
  BY <1>4, CancelTyped
<1>5. CASE \E p \in InUse : Replace(p) \/ RewriteInPlace(p) \/ Unlink(p)
  BY <1>5, WorldTyped
<1>6. CASE UNCHANGED vars
  BY <1>6 DEF TypeInv, TypeOK, vars, planVars, patchVars, endVars, worldVars
<1> QED
  BY <1>1, <1>2, <1>3, <1>4, <1>5, <1>6 DEF Next

-----------------------------------------------------------------------------
(* A patch nobody interferes with                                          *)

\* What the source of an action held, what is copied of it, what its target gets,
\* and what a rollback may leave under the source.
Began(i) == IF kind[i] = "add" THEN None ELSE Original(i)
Copy(i)  == [ino |-> Backup(i), text |-> Source(i)]
Put(i)   == IF kind[i] = "rename" THEN Original(i) ELSE Patch(i)
Back(i)  == IF kind[i] = "add" THEN {None} ELSE {Original(i), Copy(i)}

\* The source and the target: as they were, as the patch wants them, or with the
\* target of a rewritten move installed and its source still there.
Holds(i, s, t) == dir[Source(i)] = s /\ dir[Moved(i)] = t
Clean(i)   == Holds(i, Began(i), None)
Applied(i) == Holds(i, IF kind[i] \in {"add", "update"} THEN Patch(i) ELSE None,
                       IF kind[i] \in Moves THEN Put(i) ELSE None)
Half(i)    == kind[i] = "move" /\ Holds(i, Original(i), Patch(i))
\* The backup of an action.
Backed(i)  == dir[Backup(i)] = IF kind[i] = "add" THEN None ELSE Copy(i)

\* Not begun, and done.
Waiting(i) ==
  /\ Clean(i) /\ i \notin undo
  /\ dir[Removed(i)] = None
  /\ dir[Staged(i)] = IF kind[i] \in Rewrites THEN Patch(i) ELSE None
  /\ kind[i] \in Rewrites => i \in staged
Pending(i)   == Waiting(i) /\ dir[Backup(i)] = None
Settled(i)   == Backed(i) /\ dir[Staged(i)] = None
Committed(i) == /\ Applied(i) /\ Settled(i)
                /\ i \in undo /\ dir[Removed(i)] = None

\* The action at hand, by the step it is at.
Verifying(i) ==
  \/ /\ kind[i] = "update" /\ Applied(i) /\ Backed(i)
     /\ dir[Staged(i)] = Original(i) /\ i \in staged /\ i \notin undo
  \/ kind[i] = "rename" /\ Applied(i) /\ Settled(i) /\ i \notin undo

Taking(i) ==
  \/ kind[i] = "delete" /\ Clean(i) /\ i \notin undo
  \/ Half(i) /\ i \in undo

Taken(i) ==
  \/ kind[i] = "delete" /\ Applied(i) /\ i \notin undo
  \/ kind[i] = "move" /\ Applied(i) /\ i \in undo

Working(i) ==
  /\ pc = "validate" => Pending(i)
  /\ pc = "backup"   => Pending(i) /\ kind[i] # "add"
  /\ pc = "recheck"  => Waiting(i) /\ Backed(i) /\ kind[i] \notin {"add", "delete"}
  /\ pc = "install"  => Waiting(i) /\ Backed(i) /\ kind[i] # "delete"
  /\ pc \in {"verify", "swapBack", "moveBack"} => Verifying(i) /\ dir[Removed(i)] = None
  /\ pc = "swapBack" => kind[i] = "update" /\ faults # 0
  /\ pc = "moveBack" => kind[i] = "rename" /\ faults # 0
  /\ pc = "take"     => Taking(i) /\ Settled(i) /\ dir[Removed(i)] = None
  /\ pc \in {"settle", "putBack"} =>
       Taken(i) /\ Settled(i) /\ dir[Removed(i)] = Original(i)

\* Without a failing call nothing is left next to the paths.
Tidy(i) == faults = 0 => /\ dir[Removed(i)] = None
                         /\ i \notin staged => dir[Staged(i)] = None
\* What the failed action may have left: its file aside and complete.
Aside(i) ==
  /\ faults # 0 /\ i = at
  /\ \/ kind[i] = "delete" /\ dir[Removed(i)] = Original(i)
     \/ /\ kind[i] = "update" /\ dir[Staged(i)] = Original(i)
        /\ dir[Backup(i)] = Copy(i) /\ i \notin staged
     \/ kind[i] = "rename" /\ dir[Moved(i)] = Original(i) /\ dir[Backup(i)] = Copy(i)
\* Undone, or never begun: as it was, or aside.
Resolved(i) ==
  /\ Tidy(i)
  /\ (dir[Moved(i)] = None /\ dir[Source(i)] \in Back(i)) \/ Aside(i)
  /\ faults = 0 => dir[Backup(i)] = None
\* Recorded for the rollback, which has not come to it.
ToUndo(i) == Backed(i) /\ (Applied(i) \/ Half(i)) /\ Tidy(i)

\* The rollback that runs, by the step it is at.
Reverting(i) ==
  /\ Tidy(i)
  /\ pc = "undoRemove" => kind[i] = "add" /\ Applied(i) /\ Backed(i)
  /\ pc = "undoSwap"   => kind[i] = "update" /\ Applied(i) /\ Backed(i)
  /\ pc = "undoSettle" => /\ kind[i] = "update" /\ Holds(i, Copy(i), None)
                          /\ dir[Backup(i)] = Patch(i)
  /\ pc \in {"undoOriginal", "undoSwapBack"} => faults # 0
  /\ pc = "undoFast"   => kind[i] = "rename" /\ Applied(i)
  /\ pc = "undoLink"   => kind[i] \in Moves /\ Applied(i)
  /\ pc = "undoCheck"  => Half(i)
  /\ pc = "undoTarget" => /\ kind[i] \in Moves /\ dir[Moved(i)] = Put(i)
                          /\ IF failures \/ ~matched THEN faults # 0
                             ELSE dir[Source(i)] \in Back(i)
  /\ pc \in {"undoFast", "undoLink", "undoCheck", "undoTarget"} =>
       Backed(i) /\ (matched \/ faults # 0)
  /\ pc \in {"undoFast", "undoLink"} => ~failures

Looping == {"validate", "backup", "recheck", "install", "verify", "swapBack",
            "moveBack", "take", "settle", "putBack"}

Empty(S) == \A n \in S : dir[n] = None
Own(i)   == {Staged(i), Backup(i), Removed(i)}

\* The plan has read what was there, ...
StatesRead ==
  /\ pc = "plan" => \A i \in Plan : i < at => state[i] = Began(i)
  /\ pc \notin {"plan", "done"} => \A i \in Plan : state[i] = Began(i)

\* ... and the files are where the patch left them.
Shape ==
  /\ pc \in {"plan", "stage"} =>
       /\ undo = {} /\ staged = {}
       /\ \A i \in Plan : Clean(i) /\ Empty(Own(i))
  /\ pc = "revalidate" => \A i \in Plan : Pending(i)
  /\ pc \in Looping => \A i \in Plan : /\ i < at => Committed(i)
                                       /\ i > at => Pending(i)
                                       /\ i = at => Working(i)
  /\ pc = "commit" => \A i \in Plan : Committed(i)
  /\ pc \in Undoing =>
       \A i \in Plan : /\ i \notin undo => Resolved(i)
                       /\ i \in undo => IF pc # "undo" /\ i = Last
                                        THEN Reverting(i) ELSE ToUndo(i)
  /\ pc = "done" => \A i \in Plan :
       IF result = "ok" THEN Applied(i) /\ Empty(Own(i))
       ELSE Resolved(i) /\ (faults = 0 => Empty(Own(i)))
  /\ pc # "undoRestore"

\* A rollback reports a conflict only after a call that failed by itself.
Still ==
  /\ faults = 0 => ~conflict
  /\ pc \notin Undoing \cup {"done"} => ~conflict
  /\ ~conflict => StatesRead /\ Shape
QuietInv == writes = 0 => Still

-----------------------------------------------------------------------------
(* How the plan gets on: what all steps of the commit, and all steps of the*)
(* rollback, have in common                                                *)

\* Nothing of action i changes.
Same(i) ==
  /\ \A n \in NamesOf(i) : dir'[n] = dir[n]
  /\ kind' = kind
  /\ (i \in undo') = (i \in undo) /\ (i \in staged') = (i \in staged)
  /\ faults = 0 \/ faults' # 0

LEMMA SameStays ==
  ASSUME NEW i \in Plan, Same(i)
  PROVE  /\ Pending(i) => Pending(i)' /\ Resolved(i)'
         /\ Committed(i) => Committed(i)'
         /\ Resolved(i) /\ at' = at => Resolved(i)'
         /\ ToUndo(i) => ToUndo(i)'
<1>1. /\ dir'[Source(i)] = dir[Source(i)] /\ dir'[Moved(i)] = dir[Moved(i)]
      /\ dir'[Staged(i)] = dir[Staged(i)] /\ dir'[Backup(i)] = dir[Backup(i)]
      /\ dir'[Removed(i)] = dir[Removed(i)]
  BY DEF Same, NamesOf
<1>2. (Clean(i) => Clean(i)') /\ (Applied(i) => Applied(i)') /\ (Half(i) => Half(i)')
  BY <1>1 DEF Same, Clean, Applied, Half, Holds, Began, Put
<1>3. (Backed(i) => Backed(i)') /\ (Tidy(i) => Tidy(i)')
  BY <1>1 DEF Same, Backed, Tidy, Copy, Put
<1>4. Pending(i) => Pending(i)'
  BY <1>1, <1>2 DEF Same, Pending, Waiting
<1>8. Pending(i)' => Resolved(i)'
  BY DEF Pending, Waiting, Resolved, Tidy, Clean, Holds, Back, Began
<1>5. Committed(i) => Committed(i)'
  BY <1>1, <1>2, <1>3 DEF Same, Committed, Settled
<1>6. ASSUME Resolved(i), at' = at PROVE Resolved(i)'
  <2>1. Aside(i) => Aside(i)'
    BY <1>1, <1>6 DEF Same, Aside, Copy
  <2> QED
    BY <1>1, <1>2, <1>3, <1>6, <2>1 DEF Same, Resolved, Back, Copy
<1>7. ToUndo(i) => ToUndo(i)'
  BY <1>1, <1>2, <1>3 DEF Same, ToUndo
<1> QED
  BY <1>4, <1>5, <1>6, <1>7, <1>8

\* The other actions of the plan are where they were.
Elsewhere(a) == \A i \in Plan : i # a => Same(i)

\* The action at hand goes on, ...
LEMMA GoesOn ==
  ASSUME Still, pc \in Looping, pc' \in Looping, NEW a \in Plan, at = a, at' = a,
         UNCHANGED <<kind, state, conflict>>, Elsewhere(a), Working(a)'
  PROVE  Still'
<1>1. StatesRead /\ Shape /\ ~conflict
  BY DEF Still, Looping, Undoing
<1>2. StatesRead'
  BY <1>1 DEF StatesRead, Looping, Began
<1>3. \A i \in Plan : (i < at => Committed(i)') /\ (i > at => Pending(i)')
  BY <1>1, SameStays, PlanAssumption DEF Shape, Elsewhere, Plan
<1>4. Shape'
  BY <1>3 DEF Shape, Looping, Undoing
<1> QED
  BY <1>1, <1>2, <1>4 DEF Still

\* ... is done, and the next one begins, ...
LEMMA IsDone ==
  ASSUME Still, pc \in Looping, NEW a \in Plan, at = a, Done,
         UNCHANGED <<kind, state, conflict>>, Elsewhere(a), Committed(a)'
  PROVE  Still'
<1>1. StatesRead /\ Shape /\ ~conflict
  BY DEF Still, Looping, Undoing
<1>2. pc' \in {"validate", "commit"}
  BY DEF Done, Advance
<1>3. StatesRead'
  BY <1>1, <1>2 DEF StatesRead, Looping, Began
<1>4. ASSUME NEW i \in Plan
      PROVE  (i <= at => Committed(i)') /\ (i > at => Pending(i)')
  <2>1. (i < at => Committed(i)) /\ (i > at => Pending(i))
    BY <1>1 DEF Shape
  <2>2. i < at \/ i = at \/ i > at
    BY PlanAssumption DEF Plan
  <2>3. i < at \/ i > at => i # at
    BY PlanAssumption DEF Plan
  <2>4. CASE i # at
    <3>1. Same(i)
      BY <2>4 DEF Elsewhere
    <3> QED
      BY <2>1, <2>2, <2>4, <3>1, SameStays, PlanAssumption DEF Plan
  <2>5. CASE i = at
    BY <2>5, PlanAssumption DEF Plan
  <2> QED
    BY <2>4, <2>5
<1>5. Shape'
  <2>1. CASE at < N
    <3>1. at' = at + 1 /\ pc' = "validate"
      BY <2>1 DEF Done, Advance
    <3>2. \A i \in Plan : /\ i < at' => Committed(i)'
                          /\ i >= at' => Pending(i)'
      BY <1>4, <3>1, PlanAssumption DEF Plan
    <3>3. \A i \in Plan : i = at' => Working(i)'
      BY <3>1, <3>2, PlanAssumption DEF Working, Plan
    <3> QED
      BY <3>1, <3>2, <3>3, PlanAssumption DEF Shape, Looping, Undoing, Plan
  <2>2. CASE ~ (at < N)
    <3>1. pc' = "commit"
      BY <2>2 DEF Done, Advance
    <3>2. \A i \in Plan : Committed(i)'
      BY <1>4, <2>2, PlanAssumption DEF Plan
    <3> QED
      BY <3>1, <3>2 DEF Shape, Looping, Undoing
  <2> QED
    BY <2>1, <2>2
<1> QED
  BY <1>1, <1>2, <1>3, <1>5 DEF Still, Undoing

LEMMA BecomesUndo ==
  ASSUME NEW i \in Plan
  PROVE  /\ Committed(i) => ToUndo(i)
         /\ Pending(i) => Resolved(i)
<1>1. Committed(i) => ToUndo(i)
  BY DEF Committed, Settled, ToUndo, Tidy
<1>2. Pending(i) => Resolved(i)
  BY DEF Pending, Waiting, Resolved, Tidy, Clean, Holds, Back, Began
<1> QED
  BY <1>1, <1>2

\* ... or fails: what was committed is undone, and so is it if it can be.
LEMMA Fails ==
  ASSUME Still, pc \in Looping, NEW a \in Plan, at = a, Fail,
         UNCHANGED <<kind, state, conflict>>, Elsewhere(a),
         a \in undo' => ToUndo(a)', a \notin undo' => Resolved(a)'
  PROVE  Still'
<1>1. StatesRead /\ Shape /\ ~conflict
  BY DEF Still, Looping, Undoing
<1>2. pc' = "undo" /\ at' = at
  BY DEF Fail, Goto
<1>3. StatesRead'
  BY <1>1, <1>2 DEF StatesRead, Looping, Began
<1>4. ASSUME NEW i \in Plan, i # at
      PROVE  (i \in undo' => ToUndo(i)') /\ (i \notin undo' => Resolved(i)')
  <2>1. Same(i)
    BY <1>4 DEF Elsewhere
  <2>2. CASE i < at
    <3>1. Committed(i)
      BY <1>1, <2>2 DEF Shape
    <3> QED
      BY <2>1, <3>1, BecomesUndo, SameStays DEF Committed, Same
  <2>3. CASE i > at
    <3>1. Pending(i)
      BY <1>1, <2>3 DEF Shape
    <3> QED
      BY <2>1, <3>1, SameStays DEF Pending, Waiting, Same
  <2> QED
    BY <1>4, <2>2, <2>3, PlanAssumption DEF Plan
<1>5. \A i \in Plan : (i \in undo' => ToUndo(i)') /\ (i \notin undo' => Resolved(i)')
  BY <1>2, <1>4
<1>6. Shape'
  BY <1>2, <1>5 DEF Shape, Looping, Undoing
<1> QED
  BY <1>1, <1>2, <1>3, <1>6 DEF Still, Undoing

\* A rollback goes on, ...
LEMMA GoesOnUndoing ==
  ASSUME Still, ~conflict, NEW a \in Plan, Last = a, pc \in Undoing,
         pc' \in Undoing \ {"undo", "undoRestore"}, undo # {},
         undo \subseteq Plan,
         UNCHANGED <<kind, state, at, conflict, undo>>, Elsewhere(a), Reverting(a)'
  PROVE  Still'
<1>1. StatesRead /\ Shape
  BY DEF Still
<1>2. StatesRead'
  BY <1>1 DEF StatesRead, Undoing, Began
<1>3. Last' = Last
  BY DEF Last
<1>4. ASSUME NEW i \in Plan, i # Last
      PROVE  (i \in undo => ToUndo(i)') /\ (i \notin undo => Resolved(i)')
  <2>1. Same(i)
    BY <1>4 DEF Elsewhere
  <2>2. (i \in undo => ToUndo(i)) /\ (i \notin undo => Resolved(i))
    BY <1>1, <1>4 DEF Shape
  <2> QED
    BY <2>1, <2>2, SameStays
<1>5. Shape'
  BY <1>3, <1>4, LastIsTyped DEF Shape, Looping, Undoing
<1> QED
  BY <1>1, <1>2, <1>5 DEF Still, Undoing

\* ... succeeds, ...
LEMMA IsUndone ==
  ASSUME Still, ~conflict, NEW a \in Plan, Last = a, pc \in Undoing,
         undo # {}, undo \subseteq Plan, pc' = "undo", undo' = undo \ {a},
         ~conflict',
         UNCHANGED <<kind, state, at>>, Elsewhere(a), Resolved(a)'
  PROVE  Still'
<1>1. StatesRead /\ Shape
  BY DEF Still
<1>2. StatesRead'
  BY <1>1 DEF StatesRead, Undoing, Began
<1>3. ASSUME NEW i \in Plan, i # Last
      PROVE  (i \in undo => ToUndo(i)') /\ (i \notin undo => Resolved(i)')
  <2>1. Same(i)
    BY <1>3 DEF Elsewhere
  <2>2. (i \in undo => ToUndo(i)) /\ (i \notin undo => Resolved(i))
    BY <1>1, <1>3 DEF Shape
  <2> QED
    BY <2>1, <2>2, SameStays
<1>4. \A i \in Plan : (i \in undo' => ToUndo(i)') /\ (i \notin undo' => Resolved(i)')
  BY <1>3
<1>5. Shape'
  BY <1>4 DEF Shape, Looping, Undoing
<1> QED
  BY <1>1, <1>2, <1>5 DEF Still, Undoing

\* ... or reports a conflict, which only a call that failed can have caused.
LEMMA InConflict ==
  ASSUME Still, pc \in Undoing, pc' \in Undoing \cup {"done"}, conflict', faults' # 0
  PROVE  Still'
BY DEF Still, Undoing

\* The names and the files of one action, and what sets them apart.
LEMMA OwnNames ==
  ASSUME NEW a \in Plan
  PROVE  /\ Original(a).text = Source(a)
         /\ Copy(a) = [ino |-> Backup(a), text |-> Source(a)]
         /\ Source(a) \in Names /\ Moved(a) \in Names /\ Staged(a) \in Names
         /\ Backup(a) \in Names /\ Removed(a) \in Names
         /\ Source(a) # Moved(a) /\ Source(a) # Staged(a) /\ Source(a) # Backup(a)
         /\ Source(a) # Removed(a) /\ Moved(a) # Staged(a) /\ Moved(a) # Backup(a)
         /\ Moved(a) # Removed(a) /\ Staged(a) # Backup(a) /\ Staged(a) # Removed(a)
         /\ Backup(a) # Removed(a)
         /\ Patch(a) # None /\ Original(a) # None /\ Copy(a) # None
         /\ NamesOf(a) = {Source(a), Moved(a), Staged(a), Backup(a), Removed(a)}
         /\ NamesOf(a) \subseteq Names
         /\ Patch(a) # Original(a) /\ Patch(a) # Copy(a) /\ Copy(a) # Original(a)
<1>1. Patch(a) \in Files /\ Original(a) \in Files /\ Copy(a) \in Files
  BY DEF Patch, Original, Copy, Files, Origins, Source, Staged, Backup
<1>2. Patch(a) # Original(a) /\ Patch(a) # Copy(a) /\ Copy(a) # Original(a)
  BY DEF Patch, Original, Copy, Source, Staged, Backup
<1>3. /\ Original(a).text = Source(a)
      /\ Copy(a) = [ino |-> Backup(a), text |-> Source(a)]
  BY DEF Original, Copy
<1> QED
  BY <1>1, <1>2, <1>3, NamesAreApart, NamesAreTyped, NoneAssumption DEF NamesOf

\* The names of two actions are different names.
LEMMA NoSharedNames ==
  ASSUME NEW a \in Plan, NEW i \in Plan, i # a
  PROVE  NamesOf(i) \subseteq Names \ NamesOf(a)
BY NamesAreApart, NamesAreTyped DEF NamesOf

\* A step that touches the names of action a only.
LEMMA OnlyHere ==
  ASSUME NEW a \in Plan, \A n \in Names \ NamesOf(a) : dir'[n] = dir[n],
         kind' = kind, faults = 0 \/ faults' # 0,
         \A i \in Plan : i # a => /\ (i \in undo') = (i \in undo)
                                  /\ (i \in staged') = (i \in staged)
  PROVE  Elsewhere(a)
BY NoSharedNames DEF Elsewhere, Same

-----------------------------------------------------------------------------
(* The steps of the commit                                                 *)

LEMMA RevalidateActionStill ==
  ASSUME TypeInv, writes = 0, Still, RevalidateAction
  PROVE  Still'
<1>1. PICK a \in Plan : at = a
  BY DEF TypeInv, TypeOK
<1>2. dir \in Directories /\ pc \in Looping /\ faults \in Nat
  BY BoundsAssumption
     DEF TypeInv, TypeOK, Directories, Looping, RevalidateAction
<1>3. /\ UNCHANGED <<kind, state, conflict, ctxDone, undo, staged, dir,
                     failures>>
      /\ (faults = 0 \/ faults' # 0)
  BY <1>2
     DEF RevalidateAction, Refused, planVars, patchVars, endVars, worldVars
<1>4. Pending(a) /\ state[a] = Began(a)
  BY <1>1, <1>2, OwnNames
     DEF Still, Shape, StatesRead, Looping, Undoing, RevalidateAction, Working,
         Verifying, Half
<1>5. Elsewhere(a)
  <2>1. \A n \in Names \ NamesOf(a) : dir'[n] = dir[n]
    BY <1>1, <1>2, <1>3, OwnNames DEF RevalidateAction, Directories
  <2>2. undo' \in {undo, undo \cup {a}} /\ staged' \in {staged, staged \ {a}}
    BY <1>1, <1>2, <1>3 DEF RevalidateAction, patchVars
  <2> QED
    BY <1>3, <2>1, <2>2, OnlyHere
<1>6. \/ Fail /\ dir' = dir /\ undo' = undo
      \/ kind[a] = "add" /\ Goto("install") /\ dir' = dir
      \/ kind[a] # "add" /\ Goto("backup") /\ dir' = dir
  BY <1>1, <1>2, <1>3, <1>4, OwnNames
     DEF RevalidateAction, Refused, Waiting, Pending, Clean, Holds, Began, Copy,
         Moves, Rewrites, patchVars, Valid, Free
<1>7. CASE Fail /\ dir' = dir /\ undo' = undo
  <2>1. (a \in undo' => ToUndo(a)') /\ (a \notin undo' => Resolved(a)')
    BY <1>1, <1>2, <1>3, <1>4, <1>7, OwnNames
       DEF Waiting, Pending, Resolved, ToUndo, Tidy, Clean, Applied, Half, Holds,
           Backed, Began, Put, Back, Directories, Moves, Rewrites
  <2> QED
    BY <1>1, <1>2, <1>3, <1>5, <1>7, <2>1, Fails
<1>8. CASE kind[a] = "add" /\ Goto("install") /\ dir' = dir
  <2>1. Working(a)' /\ pc' \in Looping /\ at' = at
    BY <1>1, <1>2, <1>3, <1>4, <1>8, OwnNames
       DEF Waiting, Pending, Settled, Verifying, Taking, Taken, Working, Clean,
           Applied, Half, Holds, Backed, Began, Put, Directories, Moves,
           Rewrites, Goto, Looping
  <2> QED
    BY <1>1, <1>2, <1>3, <1>5, <1>8, <2>1, GoesOn
<1>9. CASE kind[a] # "add" /\ Goto("backup") /\ dir' = dir
  <2>1. Working(a)' /\ pc' \in Looping /\ at' = at
    BY <1>1, <1>2, <1>3, <1>4, <1>9, OwnNames
       DEF Waiting, Pending, Settled, Verifying, Taking, Taken, Working, Clean,
           Applied, Half, Holds, Backed, Began, Put, Directories, Moves,
           Rewrites, Goto, Looping
  <2> QED
    BY <1>1, <1>2, <1>3, <1>5, <1>9, <2>1, GoesOn
<1> QED
  BY <1>6, <1>7, <1>8, <1>9

LEMMA CreateBackupStill ==
  ASSUME TypeInv, writes = 0, Still, CreateBackup
  PROVE  Still'
<1>1. PICK a \in Plan : at = a
  BY DEF TypeInv, TypeOK
<1>2. dir \in Directories /\ pc \in Looping /\ faults \in Nat
  BY BoundsAssumption
     DEF TypeInv, TypeOK, Directories, Looping, CreateBackup
<1>3. /\ UNCHANGED <<kind, state, conflict, ctxDone, undo, staged,
                     failures>>
      /\ (faults = 0 \/ faults' # 0)
  BY <1>2
     DEF CreateBackup, Refused, planVars, patchVars, endVars, worldVars
<1>4. Pending(a) /\ kind[a] # "add" /\ state[a] = Began(a)
  BY <1>1, <1>2, OwnNames
     DEF Still, Shape, StatesRead, Looping, Undoing, CreateBackup, Working, Verifying,
         Half
<1>5. Elsewhere(a)
  <2>1. \A n \in Names \ NamesOf(a) : dir'[n] = dir[n]
    BY <1>1, <1>2, <1>3, OwnNames DEF CreateBackup, Directories
  <2>2. undo' \in {undo, undo \cup {a}} /\ staged' \in {staged, staged \ {a}}
    BY <1>1, <1>2, <1>3 DEF CreateBackup, patchVars
  <2> QED
    BY <1>3, <2>1, <2>2, OnlyHere
<1>6. \/ Fail /\ dir' = dir
      \/ kind[a] = "delete" /\ Goto("take")
         /\ dir' = [dir EXCEPT ![Backup(a)] = Copy(a)]
      \/ kind[a] # "delete" /\ Goto("recheck")
         /\ dir' = [dir EXCEPT ![Backup(a)] = Copy(a)]
  BY <1>1, <1>2, <1>3, <1>4, OwnNames
     DEF CreateBackup, Refused, Waiting, Pending, Clean, Holds, Began, Copy, Rewrites,
         patchVars
<1>7. CASE Fail /\ dir' = dir
  <2>1. (a \in undo' => ToUndo(a)') /\ (a \notin undo' => Resolved(a)')
    BY <1>1, <1>2, <1>3, <1>4, <1>7, OwnNames
       DEF Waiting, Pending, Resolved, ToUndo, Tidy, Clean, Applied, Half, Holds,
           Backed, Began, Put, Back, Directories, Moves, Rewrites
  <2> QED
    BY <1>1, <1>2, <1>3, <1>5, <1>7, <2>1, Fails
<1>8. CASE kind[a] = "delete" /\ Goto("take")
           /\ dir' = [dir EXCEPT ![Backup(a)] = Copy(a)]
  <2>1. Working(a)' /\ pc' \in Looping /\ at' = at
    BY <1>1, <1>2, <1>3, <1>4, <1>8, OwnNames
       DEF Waiting, Pending, Settled, Verifying, Taking, Taken, Working, Clean,
           Applied, Half, Holds, Backed, Began, Put, Directories, Moves,
           Rewrites, Goto, Looping
  <2> QED
    BY <1>1, <1>2, <1>3, <1>5, <1>8, <2>1, GoesOn
<1>9. CASE kind[a] # "delete" /\ Goto("recheck")
           /\ dir' = [dir EXCEPT ![Backup(a)] = Copy(a)]
  <2>1. Working(a)' /\ pc' \in Looping /\ at' = at
    BY <1>1, <1>2, <1>3, <1>4, <1>9, OwnNames
       DEF Waiting, Pending, Settled, Verifying, Taking, Taken, Working, Clean,
           Applied, Half, Holds, Backed, Began, Put, Directories, Moves,
           Rewrites, Goto, Looping
  <2> QED
    BY <1>1, <1>2, <1>3, <1>5, <1>9, <2>1, GoesOn
<1> QED
  BY <1>6, <1>7, <1>8, <1>9

LEMMA RecheckStill ==
  ASSUME TypeInv, writes = 0, Still, Recheck
  PROVE  Still'
<1>1. PICK a \in Plan : at = a
  BY DEF TypeInv, TypeOK
<1>2. dir \in Directories /\ pc \in Looping /\ faults \in Nat
  BY BoundsAssumption DEF TypeInv, TypeOK, Directories, Looping, Recheck
<1>3. /\ UNCHANGED <<kind, state, conflict, ctxDone, undo, staged,
                     failures>>
      /\ (faults = 0 \/ faults' # 0)
  BY <1>2 DEF Recheck, Refused, planVars, patchVars, endVars, worldVars
<1>4. Waiting(a) /\ Backed(a) /\ kind[a] \notin {"add", "delete"} /\ state[a] = Began(a)
  BY <1>1, <1>2, OwnNames
     DEF Still, Shape, StatesRead, Looping, Undoing, Recheck, Working, Verifying, Half
<1>5. Elsewhere(a)
  <2>1. \A n \in Names \ NamesOf(a) : dir'[n] = dir[n]
    BY <1>1, <1>2, <1>3, OwnNames DEF Recheck, Remove, Directories
  <2>2. undo' \in {undo, undo \cup {a}} /\ staged' \in {staged, staged \ {a}}
    BY <1>1, <1>2, <1>3 DEF Recheck, patchVars
  <2> QED
    BY <1>3, <2>1, <2>2, OnlyHere
<1>6. \/ Fail /\ dir' = Remove(Backup(a))
      \/ Goto("install") /\ dir' = dir
  BY <1>1, <1>2, <1>3, <1>4, OwnNames
     DEF Recheck, Refused, Waiting, Clean, Holds, Backed, Began, Copy, Moves,
         Rewrites, patchVars, Valid, Free
<1>7. CASE Fail /\ dir' = Remove(Backup(a))
  <2>1. (a \in undo' => ToUndo(a)') /\ (a \notin undo' => Resolved(a)')
    BY <1>1, <1>2, <1>3, <1>4, <1>7, OwnNames
       DEF Waiting, Resolved, ToUndo, Tidy, Clean, Applied, Half, Holds, Backed,
           Began, Put, Back, Remove, Directories, Moves, Rewrites
  <2> QED
    BY <1>1, <1>2, <1>3, <1>5, <1>7, <2>1, Fails
<1>8. CASE Goto("install") /\ dir' = dir
  <2>1. Working(a)' /\ pc' \in Looping /\ at' = at
    BY <1>1, <1>2, <1>3, <1>4, <1>8, OwnNames
       DEF Waiting, Pending, Settled, Verifying, Taking, Taken, Working, Clean,
           Applied, Half, Holds, Backed, Began, Put, Directories, Moves,
           Rewrites, Goto, Looping
  <2> QED
    BY <1>1, <1>2, <1>3, <1>5, <1>8, <2>1, GoesOn
<1> QED
  BY <1>6, <1>7, <1>8

LEMMA InstallStagedStill ==
  ASSUME TypeInv, writes = 0, Still, InstallStaged
  PROVE  Still'
<1>1. PICK a \in Plan : at = a
  BY DEF TypeInv, TypeOK
<1>2. dir \in Directories /\ pc \in Looping /\ faults \in Nat
  BY BoundsAssumption
     DEF TypeInv, TypeOK, Directories, Looping, InstallStaged
<1>3. /\ UNCHANGED <<kind, state, conflict, ctxDone, failures>>
      /\ (faults = 0 \/ faults' # 0)
  BY <1>2 DEF InstallStaged, Refused, planVars, endVars, worldVars
<1>4. Waiting(a) /\ Backed(a) /\ kind[a] \in {"add", "move"} /\ state[a] = Began(a)
  BY <1>1, <1>2, OwnNames
     DEF Still, Shape, StatesRead, Looping, Undoing, InstallStaged, Working,
         Verifying, Half
<1>5. Elsewhere(a)
  <2>1. \A n \in Names \ NamesOf(a) : dir'[n] = dir[n]
    BY <1>1, <1>2, <1>3, OwnNames
       DEF InstallStaged, Rename, Remove, Directories, Target
  <2>2. undo' \in {undo, undo \cup {a}} /\ staged' \in {staged, staged \ {a}}
    BY <1>1, <1>2, <1>3 DEF InstallStaged, Undoable
  <2> QED
    BY <1>3, <2>1, <2>2, OnlyHere
<1>6. \/ Fail /\ dir' = Remove(Backup(a)) /\ undo' = undo /\ staged' = staged
      \/ kind[a] = "add" /\ Done /\ dir' = Rename(Staged(a), Source(a))
         /\ undo' = undo \cup {a}
      \/ kind[a] = "move" /\ Goto("take") /\ dir' = Rename(Staged(a), Moved(a))
         /\ undo' = undo \cup {a}
  BY <1>1, <1>2, <1>3, <1>4, OwnNames
     DEF InstallStaged, Undoable, Refused, Waiting, Clean, Holds, Backed, Began, Copy,
         Target, Moves, Rewrites, Blocked
<1>7. CASE Fail /\ dir' = Remove(Backup(a)) /\ undo' = undo /\ staged' = staged
  <2>1. (a \in undo' => ToUndo(a)') /\ (a \notin undo' => Resolved(a)')
    BY <1>1, <1>2, <1>3, <1>4, <1>7, OwnNames
       DEF Waiting, Resolved, ToUndo, Tidy, Clean, Applied, Half, Holds, Backed,
           Began, Put, Back, Remove, Directories, Moves, Rewrites
  <2> QED
    BY <1>1, <1>2, <1>3, <1>5, <1>7, <2>1, Fails
<1>8. CASE kind[a] = "add" /\ Done /\ dir' = Rename(Staged(a), Source(a))
           /\ undo' = undo \cup {a}
  <2>1. Committed(a)'
    BY <1>1, <1>2, <1>3, <1>4, <1>8, OwnNames
       DEF Waiting, Committed, Settled, Clean, Applied, Holds, Backed, Began,
           Put, Rename, Directories, Moves, Rewrites
  <2> QED
    BY <1>1, <1>2, <1>3, <1>5, <1>8, <2>1, IsDone
<1>9. CASE kind[a] = "move" /\ Goto("take") /\ dir' = Rename(Staged(a), Moved(a))
           /\ undo' = undo \cup {a}
  <2>1. Working(a)' /\ pc' \in Looping /\ at' = at
    BY <1>1, <1>2, <1>3, <1>4, <1>9, OwnNames
       DEF Waiting, Pending, Settled, Verifying, Taking, Taken, Working, Clean,
           Applied, Half, Holds, Backed, Began, Put, Rename, Directories,
           Moves, Rewrites, Goto, Looping
  <2> QED
    BY <1>1, <1>2, <1>3, <1>5, <1>9, <2>1, GoesOn
<1> QED
  BY <1>6, <1>7, <1>8, <1>9

LEMMA InstallMoveStill ==
  ASSUME TypeInv, writes = 0, Still, InstallMove
  PROVE  Still'
<1>1. PICK a \in Plan : at = a
  BY DEF TypeInv, TypeOK
<1>2. dir \in Directories /\ pc \in Looping /\ faults \in Nat
  BY BoundsAssumption
     DEF TypeInv, TypeOK, Directories, Looping, InstallMove
<1>3. /\ UNCHANGED <<kind, state, conflict, ctxDone, undo, staged,
                     failures>>
      /\ (faults = 0 \/ faults' # 0)
  BY <1>2
     DEF InstallMove, Refused, planVars, patchVars, endVars, worldVars
<1>4. Waiting(a) /\ Backed(a) /\ kind[a] = "rename" /\ state[a] = Began(a)
  BY <1>1, <1>2, OwnNames
     DEF Still, Shape, StatesRead, Looping, Undoing, InstallMove, Working, Verifying,
         Half
<1>5. Elsewhere(a)
  <2>1. \A n \in Names \ NamesOf(a) : dir'[n] = dir[n]
    BY <1>1, <1>2, <1>3, OwnNames DEF InstallMove, Rename, Remove, Directories, Target
  <2>2. undo' \in {undo, undo \cup {a}} /\ staged' \in {staged, staged \ {a}}
    BY <1>1, <1>2, <1>3 DEF InstallMove, patchVars
  <2> QED
    BY <1>3, <2>1, <2>2, OnlyHere
<1>6. \/ Fail /\ dir' = Remove(Backup(a))
      \/ Goto("verify") /\ dir' = Rename(Source(a), Moved(a))
  BY <1>1, <1>2, <1>3, <1>4, OwnNames
     DEF InstallMove, Refused, Waiting, Clean, Holds, Backed, Began, Copy, Target,
         Moves, Rewrites, patchVars, Blocked
<1>7. CASE Fail /\ dir' = Remove(Backup(a))
  <2>1. (a \in undo' => ToUndo(a)') /\ (a \notin undo' => Resolved(a)')
    BY <1>1, <1>2, <1>3, <1>4, <1>7, OwnNames
       DEF Waiting, Resolved, ToUndo, Tidy, Clean, Applied, Half, Holds, Backed,
           Began, Put, Back, Remove, Directories, Moves, Rewrites
  <2> QED
    BY <1>1, <1>2, <1>3, <1>5, <1>7, <2>1, Fails
<1>8. CASE Goto("verify") /\ dir' = Rename(Source(a), Moved(a))
  <2>1. Working(a)' /\ pc' \in Looping /\ at' = at
    BY <1>1, <1>2, <1>3, <1>4, <1>8, OwnNames
       DEF Waiting, Pending, Settled, Verifying, Taking, Taken, Working, Clean,
           Applied, Half, Holds, Backed, Began, Put, Rename, Directories,
           Moves, Rewrites, Goto, Looping
  <2> QED
    BY <1>1, <1>2, <1>3, <1>5, <1>8, <2>1, GoesOn
<1> QED
  BY <1>6, <1>7, <1>8

LEMMA InstallUpdateStill ==
  ASSUME TypeInv, writes = 0, Still, InstallUpdate
  PROVE  Still'
<1>1. PICK a \in Plan : at = a
  BY DEF TypeInv, TypeOK
<1>2. dir \in Directories /\ pc \in Looping /\ faults \in Nat
  BY BoundsAssumption
     DEF TypeInv, TypeOK, Directories, Looping, InstallUpdate
<1>3. /\ UNCHANGED <<kind, state, conflict, ctxDone, undo, staged,
                     failures>>
      /\ (faults = 0 \/ faults' # 0)
  BY <1>2
     DEF InstallUpdate, Refused, planVars, patchVars, endVars, worldVars
<1>4. Waiting(a) /\ Backed(a) /\ kind[a] = "update" /\ state[a] = Began(a)
  BY <1>1, <1>2, OwnNames
     DEF Still, Shape, StatesRead, Looping, Undoing, InstallUpdate, Working,
         Verifying, Half
<1>5. Elsewhere(a)
  <2>1. \A n \in Names \ NamesOf(a) : dir'[n] = dir[n]
    BY <1>1, <1>2, <1>3, OwnNames DEF InstallUpdate, Remove, Exchange, Directories
  <2>2. undo' \in {undo, undo \cup {a}} /\ staged' \in {staged, staged \ {a}}
    BY <1>1, <1>2, <1>3 DEF InstallUpdate, patchVars
  <2> QED
    BY <1>3, <2>1, <2>2, OnlyHere
<1>6. \/ Fail /\ dir' = Remove(Backup(a))
      \/ Goto("verify") /\ dir' = Exchange(Staged(a), Source(a))
  BY <1>1, <1>2, <1>3, <1>4, OwnNames
     DEF InstallUpdate, Refused, Waiting, Clean, Holds, Backed, Began, Copy, Rewrites,
         patchVars
<1>7. CASE Fail /\ dir' = Remove(Backup(a))
  <2>1. (a \in undo' => ToUndo(a)') /\ (a \notin undo' => Resolved(a)')
    BY <1>1, <1>2, <1>3, <1>4, <1>7, OwnNames
       DEF Waiting, Resolved, ToUndo, Tidy, Clean, Applied, Half, Holds, Backed,
           Began, Put, Back, Remove, Directories, Moves, Rewrites
  <2> QED
    BY <1>1, <1>2, <1>3, <1>5, <1>7, <2>1, Fails
<1>8. CASE Goto("verify") /\ dir' = Exchange(Staged(a), Source(a))
  <2>1. Working(a)' /\ pc' \in Looping /\ at' = at
    BY <1>1, <1>2, <1>3, <1>4, <1>8, OwnNames
       DEF Waiting, Pending, Settled, Verifying, Taking, Taken, Working, Clean,
           Applied, Half, Holds, Backed, Began, Put, Exchange, Directories,
           Moves, Rewrites, Goto, Looping
  <2> QED
    BY <1>1, <1>2, <1>3, <1>5, <1>8, <2>1, GoesOn
<1> QED
  BY <1>6, <1>7, <1>8

LEMMA VerifyMoveStill ==
  ASSUME TypeInv, writes = 0, Still, VerifyMove
  PROVE  Still'
<1>1. PICK a \in Plan : at = a
  BY DEF TypeInv, TypeOK
<1>2. dir \in Directories /\ pc \in Looping /\ faults \in Nat
  BY BoundsAssumption
     DEF TypeInv, TypeOK, Directories, Looping, VerifyMove
<1>3. /\ UNCHANGED <<kind, state, conflict, ctxDone, staged, dir, failures>>
      /\ (faults = 0 \/ faults' # 0)
  BY <1>2 DEF VerifyMove, Refused, planVars, endVars, worldVars
<1>4. kind[a] = "rename" /\ Applied(a) /\ Settled(a) /\ dir[Removed(a)] = None
      /\ state[a] = Began(a) /\ a \notin undo
  BY <1>1, <1>2, OwnNames
     DEF Still, Shape, StatesRead, Looping, Undoing, VerifyMove, Working, Verifying,
         Half
<1>5. Elsewhere(a)
  <2>1. \A n \in Names \ NamesOf(a) : dir'[n] = dir[n]
    BY <1>1, <1>2, <1>3, OwnNames DEF VerifyMove, Directories, Target
  <2>2. undo' \in {undo, undo \cup {a}} /\ staged' \in {staged, staged \ {a}}
    BY <1>1, <1>2, <1>3 DEF VerifyMove, Undoable
  <2> QED
    BY <1>3, <2>1, <2>2, OnlyHere
<1>6. \/ Done /\ dir' = dir /\ undo' = undo \cup {a}
      \/ Goto("moveBack") /\ dir' = dir /\ undo' = undo /\ faults' # 0
  BY <1>1, <1>2, <1>3, <1>4, OwnNames
     DEF VerifyMove, Refused, Undoable, Settled, Applied, Holds, Backed, Began, Put, Copy,
         Target, Moves
<1>7. CASE Done /\ dir' = dir /\ undo' = undo \cup {a}
  <2>1. Committed(a)'
    BY <1>1, <1>2, <1>3, <1>4, <1>7, OwnNames
       DEF Committed, Settled, Applied, Holds, Backed, Began, Put, Directories,
           Moves
  <2> QED
    BY <1>1, <1>2, <1>3, <1>5, <1>7, <2>1, IsDone
<1>8. CASE Goto("moveBack") /\ dir' = dir /\ undo' = undo /\ faults' # 0
  <2>1. Working(a)' /\ pc' \in Looping /\ at' = at
    BY <1>1, <1>2, <1>3, <1>4, <1>8, OwnNames
       DEF Settled, Verifying, Working, Applied, Holds, Backed, Put, Copy,
           Directories, Moves, Goto, Looping
  <2> QED
    BY <1>1, <1>2, <1>3, <1>5, <1>8, <2>1, GoesOn
<1> QED
  BY <1>6, <1>7, <1>8

LEMMA MoveBackStill ==
  ASSUME TypeInv, writes = 0, Still, MoveBack
  PROVE  Still'
<1>1. PICK a \in Plan : at = a
  BY DEF TypeInv, TypeOK
<1>2. dir \in Directories /\ pc \in Looping /\ faults \in Nat
  BY BoundsAssumption
     DEF TypeInv, TypeOK, Directories, Looping, MoveBack
<1>3. /\ UNCHANGED <<kind, state, conflict, ctxDone, staged, undo, failures>>
      /\ (faults = 0 \/ faults' # 0)
  BY <1>2 DEF MoveBack, Refused, planVars, patchVars, endVars, worldVars
<1>4. kind[a] = "rename" /\ Applied(a) /\ Settled(a) /\ dir[Removed(a)] = None
      /\ state[a] = Began(a) /\ a \notin undo /\ faults # 0
  BY <1>1, <1>2, OwnNames
     DEF Still, Shape, StatesRead, Looping, Undoing, MoveBack, Working, Verifying
<1>5. Elsewhere(a)
  <2>1. \A n \in Names \ NamesOf(a) : dir'[n] = dir[n]
    BY <1>1, <1>2, <1>3, <1>4, OwnNames DEF MoveBack, Rename, Directories, Target, Moves
  <2> QED
    BY <1>3, <2>1, OnlyHere
<1>6. /\ Fail
      /\ dir' = dir \/ dir' = Rename(Moved(a), Source(a))
  BY <1>1, <1>4 DEF MoveBack, Target, Moves
<1>7. Resolved(a)' /\ a \notin undo'
  <2>1. CASE dir' = dir
    BY <1>1, <1>2, <1>3, <1>4, <1>6, <2>1, OwnNames
       DEF Resolved, Aside, Settled, Tidy, Applied, Holds, Backed, Put, Fail, Goto, Moves
  <2>2. CASE dir' = Rename(Moved(a), Source(a))
    BY <1>1, <1>2, <1>3, <1>4, <1>6, <2>2, OwnNames
       DEF Resolved, Settled, Tidy, Applied, Holds, Backed, Put, Back, Rename,
           Directories, Moves
  <2> QED
    BY <1>6, <2>1, <2>2
<1> QED
  BY <1>1, <1>2, <1>3, <1>5, <1>6, <1>7, Fails

LEMMA VerifyUpdateStill ==
  ASSUME TypeInv, writes = 0, Still, VerifyUpdate
  PROVE  Still'
<1>1. PICK a \in Plan : at = a
  BY DEF TypeInv, TypeOK
<1>2. dir \in Directories /\ pc \in Looping /\ faults \in Nat
  BY BoundsAssumption
     DEF TypeInv, TypeOK, Directories, Looping, VerifyUpdate
<1>3. /\ UNCHANGED <<kind, state, conflict, ctxDone, failures>>
      /\ (faults = 0 \/ faults' # 0)
  BY <1>2 DEF VerifyUpdate, Refused, planVars, endVars, worldVars
<1>4. kind[a] = "update" /\ Applied(a) /\ Backed(a) /\ dir[Staged(a)] = Original(a)
      /\ dir[Removed(a)] = None /\ state[a] = Began(a) /\ a \notin undo /\ a \in staged
  BY <1>1, <1>2, OwnNames
     DEF Still, Shape, StatesRead, Looping, Undoing, VerifyUpdate, Working, Verifying,
         Half
<1>5. Elsewhere(a)
  <2>1. \A n \in Names \ NamesOf(a) : dir'[n] = dir[n]
    BY <1>1, <1>2, <1>3, OwnNames DEF VerifyUpdate, Remove, Directories
  <2>2. undo' \in {undo, undo \cup {a}} /\ staged' \in {staged, staged \ {a}}
    BY <1>1, <1>2, <1>3 DEF VerifyUpdate, Undoable
  <2> QED
    BY <1>3, <2>1, <2>2, OnlyHere
<1>6. \/ Done /\ dir' = Remove(Staged(a)) /\ undo' = undo \cup {a}
      \/ Fail /\ dir' = dir /\ undo' = undo \cup {a} /\ faults' # 0
      \/ Goto("swapBack") /\ dir' = dir /\ undo' = undo /\ staged' = staged
         /\ faults' # 0
      \/ Fail /\ dir' = dir /\ undo' = undo /\ staged' = staged \ {a} /\ faults' # 0
  BY <1>1, <1>2, <1>3, <1>4, OwnNames
     DEF VerifyUpdate, Undoable, Refused, Live, Displaced, Applied, Holds, Backed,
         Began, Put, Copy, Moves
<1>7. CASE Done /\ dir' = Remove(Staged(a)) /\ undo' = undo \cup {a}
  <2>1. Committed(a)'
    BY <1>1, <1>2, <1>3, <1>4, <1>7, OwnNames
       DEF Committed, Settled, Applied, Holds, Backed, Began, Put, Remove,
           Directories, Moves
  <2> QED
    BY <1>1, <1>2, <1>3, <1>5, <1>7, <2>1, IsDone
<1>8. CASE Fail /\ dir' = dir /\ undo' = undo \cup {a} /\ faults' # 0
  <2>1. (a \in undo' => ToUndo(a)') /\ (a \notin undo' => Resolved(a)')
    BY <1>1, <1>2, <1>3, <1>4, <1>8, OwnNames
       DEF Resolved, ToUndo, Tidy, Applied, Half, Holds, Backed, Began, Put,
           Back, Directories, Moves
  <2> QED
    BY <1>1, <1>2, <1>3, <1>5, <1>8, <2>1, Fails
<1>9. CASE Goto("swapBack") /\ dir' = dir /\ undo' = undo /\ staged' = staged
           /\ faults' # 0
  <2>1. Working(a)' /\ pc' \in Looping /\ at' = at
    BY <1>1, <1>2, <1>3, <1>4, <1>9, OwnNames
       DEF Verifying, Working, Applied, Holds, Backed, Put, Copy, Directories,
           Moves, Goto, Looping
  <2> QED
    BY <1>1, <1>2, <1>3, <1>5, <1>9, <2>1, GoesOn
<1>10. CASE Fail /\ dir' = dir /\ undo' = undo /\ staged' = staged \ {a} /\ faults' # 0
  <2>1. (a \in undo' => ToUndo(a)') /\ (a \notin undo' => Resolved(a)')
    BY <1>1, <1>2, <1>3, <1>4, <1>10, OwnNames
       DEF Resolved, Aside, Tidy, Backed, Copy, Fail, Goto
  <2> QED
    BY <1>1, <1>2, <1>3, <1>5, <1>10, <2>1, Fails
<1> QED
  BY <1>6, <1>7, <1>8, <1>9, <1>10

LEMMA SwapBackStill ==
  ASSUME TypeInv, writes = 0, Still, SwapBack
  PROVE  Still'
<1>1. PICK a \in Plan : at = a
  BY DEF TypeInv, TypeOK
<1>2. dir \in Directories /\ pc \in Looping /\ faults \in Nat
  BY BoundsAssumption
     DEF TypeInv, TypeOK, Directories, Looping, SwapBack
<1>3. /\ UNCHANGED <<kind, state, conflict, ctxDone, undo, failures>>
      /\ (faults = 0 \/ faults' # 0)
  BY <1>2 DEF SwapBack, Refused, planVars, endVars, worldVars
<1>4. kind[a] = "update" /\ Applied(a) /\ Backed(a) /\ dir[Staged(a)] = Original(a)
      /\ dir[Removed(a)] = None /\ state[a] = Began(a) /\ a \notin undo /\ a \in staged
      /\ faults # 0
  BY <1>1, <1>2, OwnNames
     DEF Still, Shape, StatesRead, Looping, Undoing, SwapBack, Working, Verifying
<1>5. Elsewhere(a)
  <2>1. \A n \in Names \ NamesOf(a) : dir'[n] = dir[n]
    BY <1>1, <1>2, <1>3, OwnNames DEF SwapBack, Exchange, Directories
  <2>2. staged' \in {staged, staged \ {a}}
    BY <1>1, <1>2, <1>3 DEF SwapBack
  <2> QED
    BY <1>3, <2>1, <2>2, OnlyHere
<1>6. /\ Fail
      /\ \/ dir' = dir /\ staged' = staged \ {a}
         \/ dir' = Exchange(Staged(a), Source(a))
  BY <1>1 DEF SwapBack
<1>7. Resolved(a)' /\ a \notin undo'
  <2>1. CASE dir' = dir /\ staged' = staged \ {a}
    BY <1>1, <1>2, <1>3, <1>4, <1>6, <2>1, OwnNames
       DEF Resolved, Aside, Tidy, Backed, Copy, Fail, Goto
  <2>2. CASE dir' = Exchange(Staged(a), Source(a))
    BY <1>1, <1>2, <1>3, <1>4, <1>6, <2>2, OwnNames
       DEF Resolved, Tidy, Applied, Holds, Back, Exchange, Directories, Moves
  <2> QED
    BY <1>6, <2>1, <2>2
<1> QED
  BY <1>1, <1>2, <1>3, <1>5, <1>6, <1>7, Fails

LEMMA TakeSourceStill ==
  ASSUME TypeInv, writes = 0, Still, TakeSource
  PROVE  Still'
<1>1. PICK a \in Plan : at = a
  BY DEF TypeInv, TypeOK
<1>2. dir \in Directories /\ pc \in Looping /\ faults \in Nat
  BY BoundsAssumption
     DEF TypeInv, TypeOK, Directories, Looping, TakeSource
<1>3. /\ UNCHANGED <<kind, state, conflict, ctxDone, staged, failures>>
      /\ (faults = 0 \/ faults' # 0)
  BY <1>2 DEF TakeSource, Refused, planVars, endVars, worldVars
<1>4. Taking(a) /\ Settled(a) /\ dir[Removed(a)] = None /\ state[a] = Began(a)
  BY <1>1, <1>2, OwnNames
     DEF Still, Shape, StatesRead, Looping, Undoing, TakeSource, Working, Verifying,
         Half
<1>5. Elsewhere(a)
  <2>1. \A n \in Names \ NamesOf(a) : dir'[n] = dir[n]
    BY <1>1, <1>2, <1>3, OwnNames DEF TakeSource, TakeFails, Rename, Directories
  <2>2. undo' \in {undo, undo \cup {a}} /\ staged' \in {staged, staged \ {a}}
    BY <1>1, <1>2, <1>3 DEF TakeSource, TakeFails
  <2> QED
    BY <1>3, <2>1, <2>2, OnlyHere
<1>6. \/ Goto("settle") /\ dir' = Rename(Source(a), Removed(a)) /\ undo' = undo
      \/ kind[a] = "delete" /\ Fail /\ dir' = [dir EXCEPT ![Backup(a)] = None]
         /\ undo' = undo
      \/ kind[a] = "move" /\ Fail /\ dir' = dir /\ undo' = undo
  BY <1>1, <1>2, <1>3, <1>4, OwnNames
     DEF TakeSource, Refused, TakeFails, Settled, Taking, Clean, Half, Holds, Backed,
         Began, Put, Copy, Moves, Blocked
<1>7. CASE Goto("settle") /\ dir' = Rename(Source(a), Removed(a)) /\ undo' = undo
  <2>1. Working(a)' /\ pc' \in Looping /\ at' = at
    BY <1>1, <1>2, <1>3, <1>4, <1>7, OwnNames
       DEF Waiting, Pending, Settled, Verifying, Taking, Taken, Working, Clean,
           Applied, Half, Holds, Backed, Began, Put, Rename, Directories,
           Moves, Rewrites, Goto, Looping
  <2> QED
    BY <1>1, <1>2, <1>3, <1>5, <1>7, <2>1, GoesOn
<1>8. CASE kind[a] = "delete" /\ Fail /\ dir' = [dir EXCEPT ![Backup(a)] = None]
           /\ undo' = undo
  <2>1. (a \in undo' => ToUndo(a)') /\ (a \notin undo' => Resolved(a)')
    BY <1>1, <1>2, <1>3, <1>4, <1>8, OwnNames
       DEF Settled, Taking, Resolved, ToUndo, Tidy, Clean, Applied, Half, Holds,
           Backed, Began, Put, Back, Directories, Moves
  <2> QED
    BY <1>1, <1>2, <1>3, <1>5, <1>8, <2>1, Fails
<1>9. CASE kind[a] = "move" /\ Fail /\ dir' = dir /\ undo' = undo
  <2>1. (a \in undo' => ToUndo(a)') /\ (a \notin undo' => Resolved(a)')
    BY <1>1, <1>2, <1>3, <1>4, <1>9, OwnNames
       DEF Settled, Taking, Resolved, ToUndo, Tidy, Clean, Applied, Half, Holds,
           Backed, Began, Put, Back, Directories, Moves
  <2> QED
    BY <1>1, <1>2, <1>3, <1>5, <1>9, <2>1, Fails
<1> QED
  BY <1>6, <1>7, <1>8, <1>9

LEMMA SettleSourceStill ==
  ASSUME TypeInv, writes = 0, Still, SettleSource
  PROVE  Still'
<1>1. PICK a \in Plan : at = a
  BY DEF TypeInv, TypeOK
<1>2. dir \in Directories /\ pc \in Looping /\ faults \in Nat
  BY BoundsAssumption
     DEF TypeInv, TypeOK, Directories, Looping, SettleSource
<1>3. /\ UNCHANGED <<kind, state, conflict, ctxDone, staged, failures>>
      /\ (faults = 0 \/ faults' # 0)
  BY <1>2 DEF SettleSource, Refused, planVars, endVars, worldVars
<1>4. Taken(a) /\ Settled(a) /\ dir[Removed(a)] = Original(a) /\ state[a] = Began(a)
  BY <1>1, <1>2, OwnNames
     DEF Still, Shape, StatesRead, Looping, Undoing, SettleSource, Working, Verifying,
         Half
<1>5. Elsewhere(a)
  <2>1. \A n \in Names \ NamesOf(a) : dir'[n] = dir[n]
    BY <1>1, <1>2, <1>3, OwnNames
       DEF SettleSource, TakeFails, Rename, Remove, Directories
  <2>2. undo' \in {undo, undo \cup {a}} /\ staged' \in {staged, staged \ {a}}
    BY <1>1, <1>2, <1>3 DEF SettleSource, Undoable, TakeFails
  <2> QED
    BY <1>3, <2>1, <2>2, OnlyHere
<1>6. \/ Done /\ dir' = Remove(Removed(a)) /\ undo' = undo \cup {a}
      \/ kind[a] = "delete" /\ Fail /\ dir' = [dir EXCEPT ![Backup(a)] = None]
         /\ undo' = undo /\ faults' # 0
      \/ kind[a] = "move" /\ Fail /\ dir' = dir /\ undo' = undo /\ faults' # 0
      \/ Goto("putBack") /\ dir' = dir /\ undo' = undo
  BY <1>1, <1>2, <1>3, <1>4, OwnNames
     DEF SettleSource, Unwanted, Undoable, Refused, TakeFails, Settled, Taken,
         Applied, Holds, Backed, Began, Put, Copy, Moves
<1>7. CASE Done /\ dir' = Remove(Removed(a)) /\ undo' = undo \cup {a}
  <2>1. Committed(a)'
    BY <1>1, <1>2, <1>3, <1>4, <1>7, OwnNames
       DEF Committed, Settled, Taken, Applied, Holds, Backed, Began, Put,
           Remove, Directories, Moves
  <2> QED
    BY <1>1, <1>2, <1>3, <1>5, <1>7, <2>1, IsDone
<1>8. CASE kind[a] = "delete" /\ Fail /\ dir' = [dir EXCEPT ![Backup(a)] = None]
           /\ undo' = undo /\ faults' # 0
  <2>1. (a \in undo' => ToUndo(a)') /\ (a \notin undo' => Resolved(a)')
    BY <1>1, <1>2, <1>3, <1>4, <1>8, OwnNames
       DEF Settled, Taken, Resolved, Aside, Fail, Goto, ToUndo, Tidy, Applied, Half, Holds, Backed,
           Began, Put, Back, Directories, Moves
  <2> QED
    BY <1>1, <1>2, <1>3, <1>5, <1>8, <2>1, Fails
<1>9. CASE kind[a] = "move" /\ Fail /\ dir' = dir /\ undo' = undo /\ faults' # 0
  <2>1. (a \in undo' => ToUndo(a)') /\ (a \notin undo' => Resolved(a)')
    BY <1>1, <1>2, <1>3, <1>4, <1>9, OwnNames
       DEF Settled, Taken, Resolved, ToUndo, Tidy, Applied, Half, Holds, Backed,
           Began, Put, Back, Directories, Moves
  <2> QED
    BY <1>1, <1>2, <1>3, <1>5, <1>9, <2>1, Fails
<1>10. CASE Goto("putBack") /\ dir' = dir /\ undo' = undo
  <2>1. Working(a)' /\ pc' \in Looping /\ at' = at
    BY <1>1, <1>2, <1>3, <1>4, <1>10, OwnNames
       DEF Settled, Taken, Working, Applied, Half, Holds, Backed, Put, Copy,
           Directories, Moves, Goto, Looping
  <2> QED
    BY <1>1, <1>2, <1>3, <1>5, <1>10, <2>1, GoesOn
<1> QED
  BY <1>6, <1>7, <1>8, <1>9, <1>10

LEMMA PutBackStill ==
  ASSUME TypeInv, writes = 0, Still, PutBack
  PROVE  Still'
<1>1. PICK a \in Plan : at = a
  BY DEF TypeInv, TypeOK
<1>2. dir \in Directories /\ pc \in Looping /\ faults \in Nat
  BY BoundsAssumption
     DEF TypeInv, TypeOK, Directories, Looping, PutBack
<1>3. /\ UNCHANGED <<kind, state, conflict, ctxDone, staged, failures>>
      /\ (faults = 0 \/ faults' # 0)
  BY <1>2 DEF PutBack, Refused, planVars, endVars, worldVars
<1>4. Taken(a) /\ Settled(a) /\ dir[Removed(a)] = Original(a) /\ state[a] = Began(a)
  BY <1>1, <1>2, OwnNames
     DEF Still, Shape, StatesRead, Looping, Undoing, PutBack, Working, Verifying,
         Half
<1>5. Elsewhere(a)
  <2>1. \A n \in Names \ NamesOf(a) : dir'[n] = dir[n]
    BY <1>1, <1>2, <1>3, OwnNames
       DEF PutBack, TakeFails, Rename, Directories
  <2>2. undo' \in {undo, undo \cup {a}} /\ staged' \in {staged, staged \ {a}}
    BY <1>1, <1>2, <1>3 DEF PutBack, TakeFails
  <2> QED
    BY <1>3, <2>1, <2>2, OnlyHere
<1>6. \/ kind[a] = "delete" /\ Fail /\ dir' = [dir EXCEPT ![Backup(a)] = None]
         /\ undo' = undo /\ faults' # 0
      \/ kind[a] = "move" /\ Fail /\ dir' = dir /\ undo' = undo /\ faults' # 0
      \/ kind[a] = "delete" /\ Fail
         /\ dir' = [Rename(Removed(a), Source(a)) EXCEPT ![Backup(a)] = None]
         /\ undo' = undo
      \/ kind[a] = "move" /\ Fail /\ dir' = Rename(Removed(a), Source(a))
         /\ undo' = undo
  BY <1>1, <1>2, <1>3, <1>4, OwnNames
     DEF PutBack, Refused, TakeFails, Settled, Taken, Applied, Holds, Backed, Began,
         Put, Copy, Moves
<1>8. CASE kind[a] = "delete" /\ Fail /\ dir' = [dir EXCEPT ![Backup(a)] = None]
           /\ undo' = undo /\ faults' # 0
  <2>1. (a \in undo' => ToUndo(a)') /\ (a \notin undo' => Resolved(a)')
    BY <1>1, <1>2, <1>3, <1>4, <1>8, OwnNames
       DEF Settled, Taken, Resolved, Aside, Fail, Goto, ToUndo, Tidy, Applied, Half, Holds, Backed,
           Began, Put, Back, Directories, Moves
  <2> QED
    BY <1>1, <1>2, <1>3, <1>5, <1>8, <2>1, Fails
<1>9. CASE kind[a] = "move" /\ Fail /\ dir' = dir /\ undo' = undo /\ faults' # 0
  <2>1. (a \in undo' => ToUndo(a)') /\ (a \notin undo' => Resolved(a)')
    BY <1>1, <1>2, <1>3, <1>4, <1>9, OwnNames
       DEF Settled, Taken, Resolved, ToUndo, Tidy, Applied, Half, Holds, Backed,
           Began, Put, Back, Directories, Moves
  <2> QED
    BY <1>1, <1>2, <1>3, <1>5, <1>9, <2>1, Fails
<1>10. CASE kind[a] = "delete" /\ Fail
            /\ dir' = [Rename(Removed(a), Source(a)) EXCEPT ![Backup(a)] = None]
            /\ undo' = undo
  <2>1. (a \in undo' => ToUndo(a)') /\ (a \notin undo' => Resolved(a)')
    BY <1>1, <1>2, <1>3, <1>4, <1>10, OwnNames
       DEF Settled, Taken, Resolved, ToUndo, Tidy, Applied, Half, Holds, Backed,
           Began, Put, Back, Rename, Directories, Moves
  <2> QED
    BY <1>1, <1>2, <1>3, <1>5, <1>10, <2>1, Fails
<1>11. CASE kind[a] = "move" /\ Fail /\ dir' = Rename(Removed(a), Source(a))
            /\ undo' = undo
  <2>1. (a \in undo' => ToUndo(a)') /\ (a \notin undo' => Resolved(a)')
    BY <1>1, <1>2, <1>3, <1>4, <1>11, OwnNames
       DEF Settled, Taken, Resolved, ToUndo, Tidy, Applied, Half, Holds, Backed,
           Began, Put, Back, Rename, Directories, Moves
  <2> QED
    BY <1>1, <1>2, <1>3, <1>5, <1>11, <2>1, Fails
<1> QED
  BY <1>6, <1>8, <1>9, <1>10, <1>11

-----------------------------------------------------------------------------
(* The steps of the rollback                                               *)

LEMMA UndoAddStill ==
  ASSUME TypeInv, writes = 0, Still, UndoAdd
  PROVE  Still'
<1>1. undo \subseteq Plan /\ undo # {} /\ pc \in Undoing
  BY LastIsTyped DEF TypeInv, TypeOK, Undoing, UndoAdd, Undo
<1>2. dir \in Directories /\ faults \in Nat /\ conflict \in BOOLEAN
  BY BoundsAssumption DEF TypeInv, TypeOK, Directories
<1>3. PICK a \in Plan : Last = a
  BY <1>1, LastIsTyped
<1>4. /\ UNCHANGED <<kind, state, at, staged, dir>>
      /\ (faults = 0 \/ faults' # 0) /\ faults' \in Nat
  BY <1>2
     DEF Goto, Refused, UndoAdd, Undone, endVars, patchVars, planVars,
         worldVars
<1>5. CASE conflict
  <2>1. faults # 0
    BY <1>5 DEF Still
  <2>2. conflict' /\ pc' \in Undoing
    BY <1>1, <1>4, <1>5 DEF UndoAdd, Undo, Undone, Goto, Refused, patchVars, Undoing
  <2> QED
    BY <1>1, <1>4, <2>1, <2>2, InConflict
<1>6. CASE ~conflict
  <2>1. ToUndo(a) /\ kind[a] = "add" /\ state[a] = Began(a)
    BY <1>1, <1>3, <1>6, LastIsTyped
       DEF Still, Shape, StatesRead, Undoing, UndoAdd, Undo
  <2>2. Elsewhere(a)
    <3>1. \A n \in Names \ NamesOf(a) : dir'[n] = dir[n]
      BY <1>2, <1>3, <1>4, OwnNames DEF UndoAdd, Undone, Directories
    <3>2. undo' \in {undo, undo \ {a}} /\ staged' = staged
      BY <1>3, <1>4 DEF UndoAdd, Undone, Goto, patchVars
    <3> QED
      BY <1>4, <3>1, <3>2, OnlyHere
  <2>3. \/ Goto("undoRemove") /\ dir' = dir
        \/ conflict'
    BY <1>1, <1>2, <1>3, <1>4, <1>6, <2>1, OwnNames
       DEF UndoAdd, Undo, Undone, Refused, ToUndo, Tidy, Applied, Half, Holds, Backed,
           Began, Put, Copy, Moves, patchVars, Goto
  <2>4. \/ Goto("undoRemove") /\ dir' = dir
        \/ faults' # 0
    BY <1>1, <1>2, <1>3, <1>4, <1>6, <2>1, OwnNames
       DEF UndoAdd, Undo, Undone, Refused, ToUndo, Tidy, Applied, Half, Holds, Backed,
           Began, Put, Copy, Moves, patchVars, Goto
  <2>5. CASE Goto("undoRemove") /\ dir' = dir
    <3>1. UNCHANGED <<undo, staged, conflict>>
      BY <1>1, <1>4, <2>5 DEF UndoAdd, Undo, Undone, Goto, Refused, patchVars
    <3>2. Reverting(a)'
      BY <1>1, <1>2, <1>3, <1>4, <2>1, <2>5, OwnNames, <3>1
         DEF ToUndo, Reverting, Tidy, Applied, Half, Holds, Backed, Began, Put,
             Back, Directories, Moves, UndoAdd, Goto, Undoing
    <3>3. pc' \in Undoing \ {"undo", "undoRestore"}
      BY <2>5 DEF Goto, Undoing
    <3> QED
      BY <1>1, <1>3, <1>4, <1>6, <2>2, <3>1, <3>2, <3>3, GoesOnUndoing
  <2>6. CASE conflict' /\ faults' # 0
    <3>1. pc' \in Undoing
      BY <1>1, <1>4 DEF UndoAdd, Undo, Undone, Goto, Refused, Undoing
    <3> QED
      BY <1>1, <1>4, <2>6, <3>1, InConflict
  <2> QED
    BY <2>3, <2>4, <2>5, <2>6
<1> QED
  BY <1>5, <1>6

LEMMA UndoRemoveStill ==
  ASSUME TypeInv, writes = 0, Still, UndoRemove
  PROVE  Still'
<1>1. undo \subseteq Plan /\ undo # {} /\ pc \in Undoing
  BY LastIsTyped DEF TypeInv, TypeOK, Undoing, UndoRemove
<1>2. dir \in Directories /\ faults \in Nat /\ conflict \in BOOLEAN
  BY BoundsAssumption DEF TypeInv, TypeOK, Directories
<1>3. PICK a \in Plan : Last = a
  BY <1>1, LastIsTyped
<1>4. /\ UNCHANGED <<kind, state, at, staged>>
      /\ (faults = 0 \/ faults' # 0) /\ faults' \in Nat
  BY <1>2
     DEF Goto, Refused, UndoRemove, Undone, endVars, planVars, worldVars
<1>5. CASE conflict
  <2>1. faults # 0
    BY <1>5 DEF Still
  <2>2. conflict' /\ pc' \in Undoing
    BY <1>1, <1>4, <1>5 DEF UndoRemove, Undone, Goto, Refused, Undoing
  <2> QED
    BY <1>1, <1>4, <2>1, <2>2, InConflict
<1>6. CASE ~conflict
  <2>1. Reverting(a) /\ state[a] = Began(a)
    BY <1>1, <1>3, <1>6, LastIsTyped DEF Still, Shape, StatesRead, Undoing, UndoRemove
  <2>2. Elsewhere(a)
    <3>1. \A n \in Names \ NamesOf(a) : dir'[n] = dir[n]
      BY <1>2, <1>3, <1>4, OwnNames DEF UndoRemove, Undone, Remove, Directories
    <3>2. undo' \in {undo, undo \ {a}} /\ staged' = staged
      BY <1>3, <1>4 DEF UndoRemove, Undone, Goto
    <3> QED
      BY <1>4, <3>1, <3>2, OnlyHere
  <2>3. \/ pc' = "undo" /\ undo' = undo \ {a} /\ ~conflict' /\ dir' = Remove(Source(a))
        \/ conflict'
    BY <1>1, <1>2, <1>3, <1>4, <1>6, <2>1, OwnNames
       DEF UndoRemove, Undone, Refused, Reverting, Tidy, Applied, Half, Holds, Backed,
           Began, Put, Back, Copy, Moves, Goto
  <2>4. \/ pc' = "undo" /\ undo' = undo \ {a} /\ ~conflict' /\ dir' = Remove(Source(a))
        \/ faults' # 0
    BY <1>1, <1>2, <1>3, <1>4, <1>6, <2>1, OwnNames
       DEF UndoRemove, Undone, Refused, Reverting, Tidy, Applied, Half, Holds, Backed,
           Began, Put, Back, Copy, Moves, Goto
  <2>5. CASE pc' = "undo" /\ undo' = undo \ {a} /\ ~conflict'
             /\ dir' = Remove(Source(a))
    <3>1. Resolved(a)'
      BY <1>1, <1>2, <1>3, <1>4, <2>1, <2>5, OwnNames
         DEF Resolved, Reverting, Tidy, Applied, Half, Holds, Backed, Began,
             Put, Back, Remove, Directories, Moves, UndoRemove
    <3> QED
      BY <1>1, <1>3, <1>4, <1>6, <2>2, <2>5, <3>1, IsUndone
  <2>6. CASE conflict' /\ faults' # 0
    <3>1. pc' \in Undoing
      BY <1>1, <1>4 DEF UndoRemove, Undone, Goto, Refused, Undoing
    <3> QED
      BY <1>1, <1>4, <2>6, <3>1, InConflict
  <2> QED
    BY <2>3, <2>4, <2>5, <2>6
<1> QED
  BY <1>5, <1>6

LEMMA UndoDeleteStill ==
  ASSUME TypeInv, writes = 0, Still, UndoDelete
  PROVE  Still'
<1>1. undo \subseteq Plan /\ undo # {} /\ pc \in Undoing
  BY LastIsTyped DEF TypeInv, TypeOK, Undoing, UndoDelete, Undo
<1>2. dir \in Directories /\ faults \in Nat /\ conflict \in BOOLEAN
  BY BoundsAssumption DEF TypeInv, TypeOK, Directories
<1>3. PICK a \in Plan : Last = a
  BY <1>1, LastIsTyped
<1>4. /\ UNCHANGED <<kind, state, at, staged>>
      /\ (faults = 0 \/ faults' # 0) /\ faults' \in Nat
  BY <1>2
     DEF Goto, Refused, Restore, UndoDelete, Undone, endVars, planVars,
         worldVars
<1>5. CASE conflict
  <2>1. faults # 0
    BY <1>5 DEF Still
  <2>2. conflict' /\ pc' \in Undoing
    BY <1>1, <1>4, <1>5 DEF UndoDelete, Undo, Restore, Undone, Goto, Refused, Undoing
  <2> QED
    BY <1>1, <1>4, <2>1, <2>2, InConflict
<1>6. CASE ~conflict
  <2>1. ToUndo(a) /\ kind[a] = "delete" /\ state[a] = Began(a)
    BY <1>1, <1>3, <1>6, LastIsTyped
       DEF Still, Shape, StatesRead, Undoing, UndoDelete, Undo
  <2>2. Elsewhere(a)
    <3>1. \A n \in Names \ NamesOf(a) : dir'[n] = dir[n]
      BY <1>2, <1>3, <1>4, OwnNames
         DEF UndoDelete, Restore, Undone, Rename, Directories
    <3>2. undo' \in {undo, undo \ {a}} /\ staged' = staged
      BY <1>3, <1>4 DEF UndoDelete, Restore, Undone, Goto
    <3> QED
      BY <1>4, <3>1, <3>2, OnlyHere
  <2>3. \/ pc' = "undo" /\ undo' = undo \ {a} /\ ~conflict'
           /\ dir' = Rename(Backup(a), Source(a))
        \/ conflict'
    BY <1>1, <1>2, <1>3, <1>4, <1>6, <2>1, OwnNames
       DEF UndoDelete, Undo, Restore, Undone, Refused, ToUndo, Tidy, Applied, Half,
           Holds, Backed, Began, Put, Copy, Moves, Blocked, Goto
  <2>4. \/ pc' = "undo" /\ undo' = undo \ {a} /\ ~conflict'
           /\ dir' = Rename(Backup(a), Source(a))
        \/ faults' # 0
    BY <1>1, <1>2, <1>3, <1>4, <1>6, <2>1, OwnNames
       DEF UndoDelete, Undo, Restore, Undone, Refused, ToUndo, Tidy, Applied, Half,
           Holds, Backed, Began, Put, Copy, Moves, Blocked, Goto
  <2>5. CASE pc' = "undo" /\ undo' = undo \ {a} /\ ~conflict'
             /\ dir' = Rename(Backup(a), Source(a))
    <3>1. Resolved(a)'
      BY <1>1, <1>2, <1>3, <1>4, <2>1, <2>5, OwnNames
         DEF Resolved, ToUndo, Tidy, Applied, Half, Holds, Backed, Began, Put,
             Back, Rename, Directories, Moves, UndoDelete
    <3> QED
      BY <1>1, <1>3, <1>4, <1>6, <2>2, <2>5, <3>1, IsUndone
  <2>6. CASE conflict' /\ faults' # 0
    <3>1. pc' \in Undoing
      BY <1>1, <1>4 DEF UndoDelete, Undo, Restore, Undone, Goto, Refused, Undoing
    <3> QED
      BY <1>1, <1>4, <2>6, <3>1, InConflict
  <2> QED
    BY <2>3, <2>4, <2>5, <2>6
<1> QED
  BY <1>5, <1>6

LEMMA UndoUpdateStill ==
  ASSUME TypeInv, writes = 0, Still, UndoUpdate
  PROVE  Still'
<1>1. undo \subseteq Plan /\ undo # {} /\ pc \in Undoing
  BY LastIsTyped DEF TypeInv, TypeOK, Undoing, UndoUpdate, Undo
<1>2. dir \in Directories /\ faults \in Nat /\ conflict \in BOOLEAN
  BY BoundsAssumption DEF TypeInv, TypeOK, Directories
<1>3. PICK a \in Plan : Last = a
  BY <1>1, LastIsTyped
<1>4. /\ UNCHANGED <<kind, state, at, staged, dir>>
      /\ (faults = 0 \/ faults' # 0) /\ faults' \in Nat
  BY <1>2
     DEF Goto, Refused, UndoUpdate, Undone, endVars, patchVars, planVars,
         worldVars
<1>5. CASE conflict
  <2>1. faults # 0
    BY <1>5 DEF Still
  <2>2. conflict' /\ pc' \in Undoing
    BY <1>1, <1>4, <1>5
       DEF UndoUpdate, Undo, Goto, Refused, Undone, patchVars, Undoing
  <2> QED
    BY <1>1, <1>4, <2>1, <2>2, InConflict
<1>6. CASE ~conflict
  <2>1. ToUndo(a) /\ kind[a] = "update" /\ state[a] = Began(a)
    BY <1>1, <1>3, <1>6, LastIsTyped
       DEF Still, Shape, StatesRead, Undoing, UndoUpdate, Undo
  <2>2. Elsewhere(a)
    <3>1. \A n \in Names \ NamesOf(a) : dir'[n] = dir[n]
      BY <1>2, <1>3, <1>4, OwnNames DEF UndoUpdate, Undone, Directories
    <3>2. undo' \in {undo, undo \ {a}} /\ staged' = staged
      BY <1>3, <1>4 DEF UndoUpdate, Goto, Undone, patchVars
    <3> QED
      BY <1>4, <3>1, <3>2, OnlyHere
  <2>3. \/ Goto("undoSwap") /\ dir' = dir
        \/ conflict'
    BY <1>1, <1>2, <1>3, <1>4, <1>6, <2>1, OwnNames
       DEF UndoUpdate, Undo, Refused, Undone, ToUndo, Tidy, Applied, Half, Holds,
           Backed, Began, Put, Copy, Moves, patchVars, Goto
  <2>4. \/ Goto("undoSwap") /\ dir' = dir
        \/ faults' # 0
    BY <1>1, <1>2, <1>3, <1>4, <1>6, <2>1, OwnNames
       DEF UndoUpdate, Undo, Refused, Undone, ToUndo, Tidy, Applied, Half, Holds,
           Backed, Began, Put, Copy, Moves, patchVars, Goto
  <2>5. CASE Goto("undoSwap") /\ dir' = dir
    <3>1. UNCHANGED <<undo, staged, conflict>>
      BY <1>1, <1>4, <2>5 DEF UndoUpdate, Undo, Goto, Refused, Undone, patchVars
    <3>2. Reverting(a)'
      BY <1>1, <1>2, <1>3, <1>4, <2>1, <2>5, OwnNames, <3>1
         DEF ToUndo, Reverting, Tidy, Applied, Half, Holds, Backed, Began, Put,
             Back, Directories, Moves, UndoUpdate, Goto, Undoing
    <3>3. pc' \in Undoing \ {"undo", "undoRestore"}
      BY <2>5 DEF Goto, Undoing
    <3> QED
      BY <1>1, <1>3, <1>4, <1>6, <2>2, <3>1, <3>2, <3>3, GoesOnUndoing
  <2>6. CASE conflict' /\ faults' # 0
    <3>1. pc' \in Undoing
      BY <1>1, <1>4 DEF UndoUpdate, Undo, Goto, Refused, Undone, Undoing
    <3> QED
      BY <1>1, <1>4, <2>6, <3>1, InConflict
  <2> QED
    BY <2>3, <2>4, <2>5, <2>6
<1> QED
  BY <1>5, <1>6

LEMMA UndoSwapStill ==
  ASSUME TypeInv, writes = 0, Still, UndoSwap
  PROVE  Still'
<1>1. undo \subseteq Plan /\ undo # {} /\ pc \in Undoing
  BY LastIsTyped DEF TypeInv, TypeOK, Undoing, UndoSwap
<1>2. dir \in Directories /\ faults \in Nat /\ conflict \in BOOLEAN
  BY BoundsAssumption DEF TypeInv, TypeOK, Directories
<1>3. PICK a \in Plan : Last = a
  BY <1>1, LastIsTyped
<1>4. /\ UNCHANGED <<kind, state, at, staged>>
      /\ (faults = 0 \/ faults' # 0) /\ faults' \in Nat
  BY <1>2
     DEF Goto, Refused, UndoSwap, Undone, endVars, patchVars, planVars,
         worldVars
<1>5. CASE conflict
  <2>1. faults # 0
    BY <1>5 DEF Still
  <2>2. conflict' /\ pc' \in Undoing
    BY <1>1, <1>4, <1>5 DEF UndoSwap, Goto, Refused, Undone, patchVars, Undoing
  <2> QED
    BY <1>1, <1>4, <2>1, <2>2, InConflict
<1>6. CASE ~conflict
  <2>1. Reverting(a) /\ state[a] = Began(a)
    BY <1>1, <1>3, <1>6, LastIsTyped DEF Still, Shape, StatesRead, Undoing, UndoSwap
  <2>2. Elsewhere(a)
    <3>1. \A n \in Names \ NamesOf(a) : dir'[n] = dir[n]
      BY <1>2, <1>3, <1>4, OwnNames DEF UndoSwap, Undone, Exchange, Directories
    <3>2. undo' \in {undo, undo \ {a}} /\ staged' = staged
      BY <1>3, <1>4 DEF UndoSwap, Goto, Undone, patchVars
    <3> QED
      BY <1>4, <3>1, <3>2, OnlyHere
  <2>3. \/ Goto("undoSettle") /\ dir' = Exchange(Backup(a), Source(a))
        \/ conflict'
    BY <1>1, <1>2, <1>3, <1>4, <1>6, <2>1, OwnNames
       DEF UndoSwap, Refused, Undone, Reverting, Tidy, Applied, Half, Holds, Backed,
           Began, Put, Back, Copy, Moves, patchVars, Goto
  <2>4. \/ Goto("undoSettle") /\ dir' = Exchange(Backup(a), Source(a))
        \/ faults' # 0
    BY <1>1, <1>2, <1>3, <1>4, <1>6, <2>1, OwnNames
       DEF UndoSwap, Refused, Undone, Reverting, Tidy, Applied, Half, Holds, Backed,
           Began, Put, Back, Copy, Moves, patchVars, Goto
  <2>5. CASE Goto("undoSettle") /\ dir' = Exchange(Backup(a), Source(a))
    <3>1. UNCHANGED <<undo, staged, conflict>>
      BY <1>1, <1>4, <2>5 DEF UndoSwap, Goto, Refused, Undone, patchVars
    <3>2. Reverting(a)'
      BY <1>1, <1>2, <1>3, <1>4, <2>1, <2>5, OwnNames, <3>1
         DEF Reverting, Tidy, Applied, Half, Holds, Backed, Began, Put, Back,
             Exchange, Directories, Moves, UndoSwap, Goto, Undoing
    <3>3. pc' \in Undoing \ {"undo", "undoRestore"}
      BY <2>5 DEF Goto, Undoing
    <3> QED
      BY <1>1, <1>3, <1>4, <1>6, <2>2, <3>1, <3>2, <3>3, GoesOnUndoing
  <2>6. CASE conflict' /\ faults' # 0
    <3>1. pc' \in Undoing
      BY <1>1, <1>4 DEF UndoSwap, Goto, Refused, Undone, Undoing
    <3> QED
      BY <1>1, <1>4, <2>6, <3>1, InConflict
  <2> QED
    BY <2>3, <2>4, <2>5, <2>6
<1> QED
  BY <1>5, <1>6

LEMMA UndoSettleStill ==
  ASSUME TypeInv, writes = 0, Still, UndoSettle
  PROVE  Still'
<1>1. undo \subseteq Plan /\ undo # {} /\ pc \in Undoing
  BY LastIsTyped DEF TypeInv, TypeOK, Undoing, UndoSettle
<1>2. dir \in Directories /\ faults \in Nat /\ conflict \in BOOLEAN
  BY BoundsAssumption DEF TypeInv, TypeOK, Directories
<1>3. PICK a \in Plan : Last = a
  BY <1>1, LastIsTyped
<1>4. /\ UNCHANGED <<kind, state, at, staged>>
      /\ (faults = 0 \/ faults' # 0) /\ faults' \in Nat
  BY <1>2
     DEF Goto, Refused, UndoSettle, Undone, endVars, patchVars, planVars,
         worldVars
<1>5. CASE conflict
  <2>1. faults # 0
    BY <1>5 DEF Still
  <2>2. conflict' /\ pc' \in Undoing
    BY <1>1, <1>4, <1>5 DEF UndoSettle, Undone, Goto, Refused, patchVars, Undoing
  <2> QED
    BY <1>1, <1>4, <2>1, <2>2, InConflict
<1>6. CASE ~conflict
  <2>1. Reverting(a) /\ state[a] = Began(a)
    BY <1>1, <1>3, <1>6, LastIsTyped DEF Still, Shape, StatesRead, Undoing, UndoSettle
  <2>2. Elsewhere(a)
    <3>1. \A n \in Names \ NamesOf(a) : dir'[n] = dir[n]
      BY <1>2, <1>3, <1>4, OwnNames DEF UndoSettle, Undone, Remove, Directories
    <3>2. undo' \in {undo, undo \ {a}} /\ staged' = staged
      BY <1>3, <1>4 DEF UndoSettle, Undone, Goto, patchVars
    <3> QED
      BY <1>4, <3>1, <3>2, OnlyHere
  <2>3. \/ pc' = "undo" /\ undo' = undo \ {a} /\ ~conflict' /\ dir' = Remove(Backup(a))
        \/ conflict'
        \/ Goto("undoOriginal") /\ dir' = dir /\ faults' # 0
    <3>1. dir[Backup(a)] = Patch(a)
      BY <2>1 DEF Reverting, UndoSettle
    <3>2. CASE dir[Backup(Last)] = Patch(Last) /\ (Undone(TRUE) \/ Undone(FALSE))
      BY <1>3, <1>6, <3>2 DEF UndoSettle, Undone, Refused, Goto
    <3>3. CASE Refused(dir[Backup(Last)] # Patch(Last)) /\ Goto("undoOriginal") /\ dir' = dir
      BY <1>2, <1>3, <3>1, <3>3 DEF Refused
    <3> QED
      BY <3>2, <3>3, Zenon DEF UndoSettle
  <2>4. \/ pc' = "undo" /\ undo' = undo \ {a} /\ ~conflict' /\ dir' = Remove(Backup(a))
        \/ faults' # 0
    BY <1>1, <1>2, <1>3, <1>4, <1>6, <2>1, OwnNames
       DEF UndoSettle, Undone, Refused, Reverting, Tidy, Applied, Half, Holds, Backed,
           Began, Put, Back, Copy, Moves, patchVars, Restored, Goto
  <2>5. CASE pc' = "undo" /\ undo' = undo \ {a} /\ ~conflict'
             /\ dir' = Remove(Backup(a))
    <3>1. Resolved(a)'
      BY <1>1, <1>2, <1>3, <1>4, <2>1, <2>5, OwnNames
         DEF Resolved, Reverting, Tidy, Applied, Half, Holds, Backed, Began,
             Put, Back, Remove, Directories, Moves, UndoSettle
    <3> QED
      BY <1>1, <1>3, <1>4, <1>6, <2>2, <2>5, <3>1, IsUndone
  <2>6. CASE conflict' /\ faults' # 0
    <3>1. pc' \in Undoing
      BY <1>1, <1>4 DEF UndoSettle, Undone, Goto, Refused, Undoing
    <3> QED
      BY <1>1, <1>4, <2>6, <3>1, InConflict
  <2>7. CASE Goto("undoOriginal") /\ dir' = dir /\ faults' # 0
    <3>1. UNCHANGED <<undo, staged, conflict>>
      BY <1>1, <1>4, <2>7 DEF UndoSettle, Undone, Goto, Refused, patchVars
    <3>2. Reverting(a)'
      BY <2>7, <3>1 DEF Reverting, Tidy, Goto
    <3>3. pc' \in Undoing \ {"undo", "undoRestore"}
      BY <2>7 DEF Goto, Undoing
    <3> QED
      BY <1>1, <1>3, <1>4, <1>6, <2>2, <3>1, <3>2, <3>3, GoesOnUndoing
  <2> QED
    BY <2>3, <2>4, <2>5, <2>6, <2>7
<1> QED
  BY <1>5, <1>6

LEMMA UndoOriginalStill ==
  ASSUME TypeInv, writes = 0, Still, UndoOriginal
  PROVE  Still'
<1>1. undo \subseteq Plan /\ undo # {} /\ pc \in Undoing
  BY LastIsTyped DEF TypeInv, TypeOK, Undoing, UndoOriginal
<1>2. dir \in Directories /\ faults \in Nat /\ conflict \in BOOLEAN
  BY BoundsAssumption DEF TypeInv, TypeOK, Directories
<1>3. PICK a \in Plan : Last = a
  BY <1>1, LastIsTyped
<1>4. /\ UNCHANGED <<kind, state, at, staged, dir>>
      /\ (faults = 0 \/ faults' # 0) /\ faults' \in Nat
  BY <1>2
     DEF Goto, Refused, UndoOriginal, Undone, endVars, patchVars, planVars,
         worldVars
<1>5. faults # 0
  <2>1. CASE conflict
    BY <2>1 DEF Still
  <2>2. CASE ~conflict
    BY <1>1, <1>3, <2>2, LastIsTyped DEF Still, Shape, Undoing, UndoOriginal, Reverting
  <2> QED
    BY <2>1, <2>2
<1>6. faults' # 0
  BY <1>4, <1>5
<1>7. CASE conflict'
  <2>1. pc' \in Undoing
    BY <1>1, <1>4 DEF UndoOriginal, Undone, Goto, Undoing
  <2> QED
    BY <1>1, <1>4, <1>6, <1>7, <2>1, InConflict
<1>8. CASE ~conflict'
  <2>1. Goto("undoSwapBack") /\ UNCHANGED <<undo, conflict>>
    BY <1>8 DEF UndoOriginal, Undone, patchVars
  <2>2. ~conflict
    BY <1>8, <2>1
  <2>3. Elsewhere(a)
    BY <1>4, <2>1, OnlyHere
  <2>4. Reverting(a)'
    BY <1>6, <2>1 DEF Reverting, Tidy, Goto
  <2>5. pc' \in Undoing \ {"undo", "undoRestore"}
    BY <2>1 DEF Goto, Undoing
  <2> QED
    BY <1>1, <1>3, <1>4, <2>1, <2>2, <2>3, <2>4, <2>5, GoesOnUndoing
<1> QED
  BY <1>7, <1>8

LEMMA UndoSwapBackStill ==
  ASSUME TypeInv, writes = 0, Still, UndoSwapBack
  PROVE  Still'
<1>1. undo \subseteq Plan /\ undo # {} /\ pc \in Undoing
  BY LastIsTyped DEF TypeInv, TypeOK, Undoing, UndoSwapBack
<1>2. faults \in Nat
  BY BoundsAssumption DEF TypeInv, TypeOK
<1>3. PICK a \in Plan : Last = a
  BY <1>1, LastIsTyped
<1>4. faults # 0
  <2>1. CASE conflict
    BY <2>1 DEF Still
  <2>2. CASE ~conflict
    BY <1>1, <1>3, <2>2, LastIsTyped DEF Still, Shape, Undoing, UndoSwapBack, Reverting
  <2> QED
    BY <2>1, <2>2
<1>5. conflict' /\ pc' = "undo"
  BY DEF UndoSwapBack, Undone, Goto
<1>6. faults' # 0
  <2>1. faults' = faults \/ faults' = faults + 1
    BY Zenon DEF UndoSwapBack, Refused
  <2> QED
    BY <1>2, <1>4, <2>1
<1> QED
  BY <1>1, <1>5, <1>6, InConflict DEF Undoing

LEMMA UndoMovedStill ==
  ASSUME TypeInv, writes = 0, Still, UndoMoved
  PROVE  Still'
<1>1. undo \subseteq Plan /\ undo # {} /\ pc \in Undoing
  BY LastIsTyped DEF TypeInv, TypeOK, Undoing, UndoMoved, Undo
<1>2. dir \in Directories /\ faults \in Nat /\ conflict \in BOOLEAN
  BY BoundsAssumption DEF TypeInv, TypeOK, Directories
<1>3. PICK a \in Plan : Last = a
  BY <1>1, LastIsTyped
<1>4. /\ UNCHANGED <<kind, state, at, staged, undo, dir, conflict>>
      /\ (faults = 0 \/ faults' # 0) /\ faults' \in Nat
  <2>1. faults' = faults \/ faults' = faults + 1
    BY Zenon DEF UndoMoved, Refused
  <2>2. (faults = 0 \/ faults' # 0) /\ faults' \in Nat
    BY <1>2, <2>1
  <2> QED
    BY <2>2 DEF Goto, UndoMoved, planVars
<1>5. CASE conflict
  <2>1. faults # 0
    BY <1>5 DEF Still
  <2>2. conflict' /\ pc' \in Undoing
    BY <1>1, <1>4, <1>5 DEF UndoMoved, Undo, Goto, Undoing
  <2> QED
    BY <1>1, <1>4, <2>1, <2>2, InConflict
<1>6. CASE ~conflict
  <2>1. ToUndo(a) /\ kind[a] \in Moves /\ state[a] = Began(a)
    BY <1>1, <1>3, <1>6, LastIsTyped
       DEF Still, Shape, StatesRead, Undoing, UndoMoved, Undo, Moves
  <2>2. Elsewhere(a)
    <3>1. \A n \in Names \ NamesOf(a) : dir'[n] = dir[n]
      BY <1>2, <1>3, <1>4, OwnNames DEF UndoMoved, Directories, Target
    <3>2. undo' \in {undo, undo \ {a}} /\ staged' = staged
      BY <1>3, <1>4 DEF UndoMoved, Goto
    <3> QED
      BY <1>4, <3>1, <3>2, OnlyHere
  <2>3. Target(a) = Moved(a) /\ dir[Moved(a)] = Installed(a) /\ Installed(a) = Put(a)
    BY <2>1 DEF Target, Moves, ToUndo, Applied, Half, Holds, Installed, Put, Began
  <2>4. (failures' \/ ~matched') => faults' # 0
    <3>1. faults' = faults + 1 => faults' # 0
      BY <1>2
    <3>2. \/ ~failures' /\ matched'
          \/ faults' = faults + 1
      BY <1>3, <2>3, Zenon DEF UndoMoved, Refused
    <3> QED
      BY <3>1, <3>2
  <2>5. UNCHANGED <<undo, staged, conflict>> /\ failures' \in BOOLEAN
    BY <1>4 DEF UndoMoved
  <2>6. pc' = IF failures' THEN "undoTarget"
              ELSE IF dir[Source(a)] # None THEN "undoCheck"
              ELSE IF kind[a] = "rename" /\ matched' THEN "undoFast"
              ELSE "undoLink"
    BY <1>3 DEF UndoMoved, Goto
  <2>7. pc' \in {"undoTarget", "undoCheck", "undoFast", "undoLink"}
    BY <2>6
  <2>8. Tidy(a)' /\ Backed(a)' /\ dir'[Moved(a)] = Put(a)'
    BY <1>4, <2>1, <2>3 DEF ToUndo, Tidy, Backed, Copy, Put
  <2>9. (Applied(a) => Applied(a)') /\ (Half(a) => Half(a)')
    BY <1>4 DEF Applied, Half, Holds, Put
  <2>10. Reverting(a)'
    <3>1. CASE failures'
      BY <1>4, <2>1, <2>4, <2>6, <2>8, <3>1 DEF Reverting
    <3>2. CASE ~failures' /\ dir[Source(a)] # None
      <4>1. pc' = "undoCheck"
        BY <2>6, <3>2
      <4>2. Half(a)'
        BY <2>1, <2>9, <3>2 DEF ToUndo, Applied, Holds, Moves
      <4> QED
        BY <2>4, <2>8, <4>1, <4>2 DEF Reverting
    <3>3. CASE ~failures' /\ dir[Source(a)] = None
      <4>1. Applied(a)'
        BY <2>1, <2>9, <3>3, OwnNames DEF ToUndo, Half, Holds
      <4>2. pc' = IF kind[a] = "rename" /\ matched' THEN "undoFast" ELSE "undoLink"
        BY <2>6, <3>3
      <4> QED
        BY <1>4, <2>1, <2>4, <2>8, <3>3, <4>1, <4>2 DEF Reverting
    <3> QED
      BY <3>1, <3>2, <3>3
  <2>11. pc' \in Undoing \ {"undo", "undoRestore"}
    BY <2>7 DEF Undoing
  <2> QED
    BY <1>1, <1>3, <1>4, <1>6, <2>2, <2>5, <2>10, <2>11, GoesOnUndoing
<1> QED
  BY <1>5, <1>6

LEMMA UndoFastStill ==
  ASSUME TypeInv, writes = 0, Still, UndoFast
  PROVE  Still'
<1>1. undo \subseteq Plan /\ undo # {} /\ pc \in Undoing
  BY LastIsTyped DEF TypeInv, TypeOK, Undoing, UndoFast
<1>2. dir \in Directories /\ faults \in Nat /\ conflict \in BOOLEAN
  BY BoundsAssumption DEF TypeInv, TypeOK, Directories
<1>3. PICK a \in Plan : Last = a
  BY <1>1, LastIsTyped
<1>4. /\ UNCHANGED <<kind, state, at, staged>>
      /\ (faults = 0 \/ faults' # 0) /\ faults' \in Nat
  BY <1>2
     DEF Goto, Refused, UndoFast, Undone, endVars, patchVars, planVars,
         worldVars
<1>5. CASE conflict
  <2>1. faults # 0
    BY <1>5 DEF Still
  <2>2. conflict' /\ pc' \in Undoing
    BY <1>1, <1>4, <1>5
       DEF UndoFast, Without, Undone, Goto, Refused, patchVars, Undoing
  <2> QED
    BY <1>1, <1>4, <2>1, <2>2, InConflict
<1>6. CASE ~conflict
  <2>1. Reverting(a) /\ Target(a) = Moved(a) /\ state[a] = Began(a)
    BY <1>1, <1>3, <1>6, LastIsTyped
       DEF Still, Shape, StatesRead, Undoing, UndoFast, Moves, Reverting, Target
  <2>2. Elsewhere(a)
    <3>1. \A n \in Names \ NamesOf(a) : dir'[n] = dir[n]
      BY <1>2, <1>3, <1>4, OwnNames
         DEF UndoFast, Undone, Rename, Without, Directories, Target
    <3>2. undo' \in {undo, undo \ {a}} /\ staged' = staged
      BY <1>3, <1>4 DEF UndoFast, Undone, Goto, patchVars
    <3> QED
      BY <1>4, <3>1, <3>2, OnlyHere
  <2>3. \/ pc' = "undo" /\ undo' = undo \ {a} /\ ~conflict'
           /\ dir' = Without(Rename(Moved(a), Source(a)), Backup(a))
        \/ conflict'
        \/ Goto("undoLink") /\ dir' = dir /\ matched' = matched /\ failures' = failures
    <3>1. \/ /\ dir' = Without(Rename(Target(Last), Source(Last)), Backup(Last))
             /\ Undone(TRUE)
          \/ Undone(FALSE)
          \/ Goto("undoLink") /\ UNCHANGED <<patchVars, dir>>
      BY Zenon DEF UndoFast
    <3>2. Undone(TRUE) => pc' = "undo" /\ undo' = undo \ {a} /\ ~conflict'
      BY <1>3, <1>6 DEF Undone, Goto
    <3>3. Undone(FALSE) => conflict'
      BY DEF Undone
    <3>4. Without(Rename(Target(Last), Source(Last)), Backup(Last))
            = Without(Rename(Moved(a), Source(a)), Backup(a))
      BY <1>3, <2>1
    <3>5. CASE /\ dir' = Without(Rename(Target(Last), Source(Last)), Backup(Last))
               /\ Undone(TRUE)
      BY <3>2, <3>4, <3>5
    <3>6. CASE Goto("undoLink") /\ UNCHANGED <<patchVars, dir>>
      BY <3>6 DEF patchVars
    <3> QED
      BY <3>1, <3>3, <3>6, <3>5
  <2>4. \/ pc' = "undo" /\ undo' = undo \ {a} /\ ~conflict'
           /\ dir' = Without(Rename(Moved(a), Source(a)), Backup(a))
        \/ faults' # 0
        \/ Goto("undoLink") /\ dir' = dir /\ matched' = matched /\ failures' = failures
    <3>1. \/ /\ dir' = Without(Rename(Target(Last), Source(Last)), Backup(Last))
             /\ Undone(TRUE)
          \/ Refused(FALSE)
          \/ Goto("undoLink") /\ UNCHANGED <<patchVars, dir>>
      BY Zenon DEF UndoFast
    <3>2. Undone(TRUE) => pc' = "undo" /\ undo' = undo \ {a} /\ ~conflict'
      BY <1>3, <1>6 DEF Undone, Goto
    <3>3. Refused(FALSE) => faults' # 0
      BY <1>2 DEF Refused
    <3>4. Without(Rename(Target(Last), Source(Last)), Backup(Last))
            = Without(Rename(Moved(a), Source(a)), Backup(a))
      BY <1>3, <2>1
    <3>5. CASE /\ dir' = Without(Rename(Target(Last), Source(Last)), Backup(Last))
               /\ Undone(TRUE)
      BY <3>2, <3>4, <3>5
    <3>6. CASE Goto("undoLink") /\ UNCHANGED <<patchVars, dir>>
      BY <3>6 DEF patchVars
    <3> QED
      BY <3>1, <3>3, <3>6, <3>5
  <2>5. CASE pc' = "undo" /\ undo' = undo \ {a} /\ ~conflict'
             /\ dir' = Without(Rename(Moved(a), Source(a)), Backup(a))
    <3>1. Resolved(a)'
      BY <1>1, <1>2, <1>3, <1>4, <2>1, <2>5, OwnNames
         DEF Resolved, Reverting, Tidy, Applied, Half, Holds, Backed, Began,
             Put, Back, Rename, Without, Directories, Moves, UndoFast
    <3> QED
      BY <1>1, <1>3, <1>4, <1>6, <2>2, <2>5, <3>1, IsUndone
  <2>6. CASE conflict' /\ faults' # 0
    <3>1. pc' \in Undoing
      BY <1>1, <1>4 DEF UndoFast, Without, Undone, Goto, Refused, Undoing
    <3> QED
      BY <1>1, <1>4, <2>6, <3>1, InConflict
  <2>7. CASE Goto("undoLink") /\ dir' = dir /\ matched' = matched
             /\ failures' = failures
    <3>1. UNCHANGED <<undo, staged, conflict>>
      BY <1>1, <1>4, <2>7 DEF UndoFast, Without, Undone, Goto, Refused, patchVars
    <3>2. Reverting(a)'
      BY <1>1, <1>2, <1>3, <1>4, <2>1, <2>7, OwnNames, <3>1
         DEF Reverting, Tidy, Applied, Half, Holds, Backed, Began, Put, Back,
             Rename, Without, Directories, Moves, UndoFast, Goto, Undoing
    <3>3. pc' \in Undoing \ {"undo", "undoRestore"}
      BY <2>7 DEF Goto, Undoing
    <3> QED
      BY <1>1, <1>3, <1>4, <1>6, <2>2, <3>1, <3>2, <3>3, GoesOnUndoing
  <2> QED
    BY <2>3, <2>4, <2>5, <2>6, <2>7
<1> QED
  BY <1>5, <1>6

LEMMA UndoLinkStill ==
  ASSUME TypeInv, writes = 0, Still, UndoLink
  PROVE  Still'
<1>1. undo \subseteq Plan /\ undo # {} /\ pc \in Undoing
  BY LastIsTyped DEF TypeInv, TypeOK, Undoing, UndoLink
<1>2. dir \in Directories /\ faults \in Nat /\ conflict \in BOOLEAN
  BY BoundsAssumption DEF TypeInv, TypeOK, Directories
<1>3. PICK a \in Plan : Last = a
  BY <1>1, LastIsTyped
<1>4. /\ UNCHANGED <<kind, state, at, staged, undo, conflict>>
      /\ (faults = 0 \/ faults' # 0) /\ faults' \in Nat
  BY <1>2 DEF Goto, Refused, UndoLink, endVars, planVars, worldVars
<1>5. CASE conflict
  <2>1. faults # 0
    BY <1>5 DEF Still
  <2>2. conflict' /\ pc' \in Undoing
    BY <1>1, <1>4, <1>5 DEF UndoLink, Refused, Goto, Undoing
  <2> QED
    BY <1>1, <1>4, <2>1, <2>2, InConflict
<1>6. CASE ~conflict
  <2>1. Reverting(a) /\ state[a] = Began(a)
    BY <1>1, <1>3, <1>6, LastIsTyped DEF Still, Shape, StatesRead, Undoing, UndoLink
  <2>2. Elsewhere(a)
    <3>1. \A n \in Names \ NamesOf(a) : dir'[n] = dir[n]
      BY <1>2, <1>3, <1>4, OwnNames DEF UndoLink, Directories
    <3>2. undo' \in {undo, undo \ {a}} /\ staged' = staged
      BY <1>3, <1>4 DEF UndoLink, Goto
    <3> QED
      BY <1>4, <3>1, <3>2, OnlyHere
  <2>3. \/ Goto("undoTarget") /\ dir' = [dir EXCEPT ![Source(a)] = dir[Backup(a)]]
           /\ failures' = failures /\ matched' = matched
        \/ Goto("undoTarget") /\ dir' = dir /\ failures' = TRUE
           /\ matched' = matched /\ faults' # 0
    BY <1>1, <1>2, <1>3, <1>4, <1>6, <2>1, OwnNames
       DEF UndoLink, Refused, Reverting, Tidy, Applied, Half, Holds, Backed,
           Began, Put, Back, Copy, Moves, Goto
  <2>4. CASE Goto("undoTarget") /\ dir' = [dir EXCEPT ![Source(a)] = dir[Backup(a)]]
             /\ failures' = failures /\ matched' = matched
    <3>1. UNCHANGED <<undo, staged, conflict>>
      BY <1>1, <1>4, <2>4 DEF UndoLink, Refused, Goto
    <3>2. Reverting(a)'
      BY <1>1, <1>2, <1>3, <1>4, <2>1, <2>4, OwnNames, <3>1
         DEF Reverting, Tidy, Applied, Half, Holds, Backed, Began, Put, Back,
             Directories, Moves, UndoLink, Goto, Undoing
    <3>3. pc' \in Undoing \ {"undo", "undoRestore"}
      BY <2>4 DEF Goto, Undoing
    <3> QED
      BY <1>1, <1>3, <1>4, <1>6, <2>2, <3>1, <3>2, <3>3, GoesOnUndoing
  <2>5. CASE Goto("undoTarget") /\ dir' = dir /\ failures' = TRUE
             /\ matched' = matched /\ faults' # 0
    <3>1. UNCHANGED <<undo, staged, conflict>>
      BY <1>1, <1>4, <2>5 DEF UndoLink, Refused, Goto
    <3>2. Reverting(a)'
      BY <1>1, <1>2, <1>3, <1>4, <2>1, <2>5, OwnNames, <3>1
         DEF Reverting, Tidy, Applied, Half, Holds, Backed, Began, Put, Back,
             Directories, Moves, UndoLink, Goto, Undoing
    <3>3. pc' \in Undoing \ {"undo", "undoRestore"}
      BY <2>5 DEF Goto, Undoing
    <3> QED
      BY <1>1, <1>3, <1>4, <1>6, <2>2, <3>1, <3>2, <3>3, GoesOnUndoing
  <2> QED
    BY <2>3, <2>4, <2>5
<1> QED
  BY <1>5, <1>6

LEMMA UndoCheckStill ==
  ASSUME TypeInv, writes = 0, Still, UndoCheck
  PROVE  Still'
<1>1. undo \subseteq Plan /\ undo # {} /\ pc \in Undoing
  BY LastIsTyped DEF TypeInv, TypeOK, Undoing, UndoCheck
<1>2. dir \in Directories /\ faults \in Nat /\ conflict \in BOOLEAN
  BY BoundsAssumption DEF TypeInv, TypeOK, Directories
<1>3. PICK a \in Plan : Last = a
  BY <1>1, LastIsTyped
<1>4. /\ UNCHANGED <<kind, state, at, staged, undo, dir, conflict>>
      /\ (faults = 0 \/ faults' # 0) /\ faults' \in Nat
  BY <1>2 DEF Goto, Refused, UndoCheck, endVars, planVars, worldVars
<1>5. CASE conflict
  <2>1. faults # 0
    BY <1>5 DEF Still
  <2>2. conflict' /\ pc' \in Undoing
    BY <1>1, <1>4, <1>5 DEF UndoCheck, Goto, Undoing
  <2> QED
    BY <1>1, <1>4, <2>1, <2>2, InConflict
<1>6. CASE ~conflict
  <2>1. Reverting(a) /\ state[a] = Began(a)
    BY <1>1, <1>3, <1>6, LastIsTyped DEF Still, Shape, StatesRead, Undoing, UndoCheck
  <2>2. Elsewhere(a)
    <3>1. \A n \in Names \ NamesOf(a) : dir'[n] = dir[n]
      BY <1>2, <1>3, <1>4, OwnNames DEF UndoCheck, Directories
    <3>2. undo' \in {undo, undo \ {a}} /\ staged' = staged
      BY <1>3, <1>4 DEF UndoCheck, Goto
    <3> QED
      BY <1>4, <3>1, <3>2, OnlyHere
  <2>3. \/ Goto("undoTarget") /\ dir' = dir /\ failures' = FALSE /\ matched' = matched
        \/ Goto("undoTarget") /\ dir' = dir /\ failures' = TRUE /\ matched' = matched
           /\ faults' # 0
    BY <1>1, <1>2, <1>3, <1>4, <1>6, <2>1, OwnNames
       DEF UndoCheck, Refused, Reverting, Tidy, Applied, Half, Holds, Backed, Began,
           Put, Back, Copy, Moves, Goto
  <2>4. CASE Goto("undoTarget") /\ dir' = dir /\ failures' = FALSE /\ matched' = matched
    <3>1. UNCHANGED <<undo, staged, conflict>>
      BY <1>1, <1>4, <2>4 DEF UndoCheck, Goto
    <3>2. Reverting(a)'
      BY <1>1, <1>2, <1>3, <1>4, <2>1, <2>4, OwnNames, <3>1
         DEF Reverting, Tidy, Applied, Half, Holds, Backed, Began, Put, Back,
             Directories, Moves, UndoCheck, Goto, Undoing
    <3>3. pc' \in Undoing \ {"undo", "undoRestore"}
      BY <2>4 DEF Goto, Undoing
    <3> QED
      BY <1>1, <1>3, <1>4, <1>6, <2>2, <3>1, <3>2, <3>3, GoesOnUndoing
  <2>5. CASE Goto("undoTarget") /\ dir' = dir /\ failures' = TRUE /\ matched' = matched
             /\ faults' # 0
    <3>1. UNCHANGED <<undo, staged, conflict>>
      BY <1>1, <1>4, <2>5 DEF UndoCheck, Goto
    <3>2. Reverting(a)'
      BY <1>1, <1>2, <1>3, <1>4, <2>1, <2>5, OwnNames, <3>1
         DEF Reverting, Tidy, Applied, Half, Holds, Backed, Began, Put, Back,
             Directories, Moves, UndoCheck, Goto, Undoing
    <3>3. pc' \in Undoing \ {"undo", "undoRestore"}
      BY <2>5 DEF Goto, Undoing
    <3> QED
      BY <1>1, <1>3, <1>4, <1>6, <2>2, <3>1, <3>2, <3>3, GoesOnUndoing
  <2> QED
    BY <2>3, <2>4, <2>5
<1> QED
  BY <1>5, <1>6

LEMMA UndoTargetStill ==
  ASSUME TypeInv, writes = 0, Still, UndoTarget
  PROVE  Still'
<1>1. undo \subseteq Plan /\ undo # {} /\ pc \in Undoing
  BY LastIsTyped DEF TypeInv, TypeOK, Undoing, UndoTarget
<1>2. dir \in Directories /\ faults \in Nat /\ conflict \in BOOLEAN
  BY BoundsAssumption DEF TypeInv, TypeOK, Directories
<1>3. PICK a \in Plan : Last = a
  BY <1>1, LastIsTyped
<1>4. /\ UNCHANGED <<kind, state, at, staged>>
      /\ (faults = 0 \/ faults' # 0) /\ faults' \in Nat
  BY <1>2
     DEF Goto, Refused, UndoTarget, Undone, endVars, planVars, worldVars
<1>5. CASE conflict
  <2>1. faults # 0
    BY <1>5 DEF Still
  <2>2. conflict' /\ pc' \in Undoing
    BY <1>1, <1>4, <1>5 DEF UndoTarget, Undone, Goto, Refused, Undoing
  <2> QED
    BY <1>1, <1>4, <2>1, <2>2, InConflict
<1>6. CASE ~conflict
  <2>1. Reverting(a) /\ (failures \/ ~matched => faults # 0) /\ state[a] = Began(a)
    BY <1>1, <1>3, <1>6, LastIsTyped
       DEF Still, Shape, StatesRead, Undoing, UndoTarget, Moves, Reverting, Target
  <2>2. Elsewhere(a)
    <3>1. \A n \in Names \ NamesOf(a) : dir'[n] = dir[n]
      BY <1>2, <1>3, <1>4, OwnNames
         DEF UndoTarget, Undone, Remove, RemoveAll, Directories, Target
    <3>2. undo' \in {undo, undo \ {a}} /\ staged' = staged
      BY <1>3, <1>4 DEF UndoTarget, Undone, Goto
    <3> QED
      BY <1>4, <3>1, <3>2, OnlyHere
  <2>3. (Refused(failures) => faults' # 0) /\ (Refused(~matched) => faults' # 0)
    BY <1>2, <2>1 DEF Refused
  <2>4. \/ pc' = "undo" /\ undo' = undo \ {a} /\ ~conflict' /\ ~failures /\ matched
           /\ dir' = RemoveAll({Moved(a), Backup(a)})
        \/ conflict' /\ faults' # 0
    <3>1. Undone(TRUE) => pc' = "undo" /\ undo' = undo \ {a} /\ ~conflict'
      BY <1>3, <1>6 DEF Undone, Goto
    <3>2. Undone(FALSE) => conflict'
      BY DEF Undone
    <3>3. kind[a] \in Moves /\ dir[Moved(a)] # None
      BY <2>1, OwnNames DEF UndoTarget, Reverting, Put
    <3> QED
      BY <1>3, <2>3, <3>1, <3>2, <3>3, Zenon DEF Target, UndoTarget
  <2>5. CASE pc' = "undo" /\ undo' = undo \ {a} /\ ~conflict' /\ ~failures /\ matched
             /\ dir' = RemoveAll({Moved(a), Backup(a)})
    <3>1. Resolved(a)'
      BY <1>1, <1>2, <1>3, <1>4, <2>1, <2>5, OwnNames
         DEF Resolved, Reverting, Tidy, Applied, Half, Holds, Backed, Began,
             Put, Back, Remove, RemoveAll, Directories, Moves, UndoTarget
    <3> QED
      BY <1>1, <1>3, <1>4, <1>6, <2>2, <2>5, <3>1, IsUndone
  <2>6. CASE conflict' /\ faults' # 0
    <3>1. pc' \in Undoing
      BY <1>1, <1>4 DEF UndoTarget, Undone, Goto, Refused, Undoing
    <3> QED
      BY <1>1, <1>4, <2>6, <3>1, InConflict
  <2> QED
    BY <2>4, <2>5, <2>6
<1> QED
  BY <1>5, <1>6

-----------------------------------------------------------------------------
(* The steps before and after                                              *)

LEMMA PlanActionStill ==
  ASSUME TypeInv, writes = 0, Still, PlanAction
  PROVE  Still'
<1>1. /\ UNCHANGED <<kind, staged, undo, conflict, dir>>
      /\ (faults = 0 \/ faults' # 0)
  BY BoundsAssumption
     DEF PlanAction, Refused, TypeInv, TypeOK, patchVars, worldVars
<1>2. pc = "plan" /\ ~conflict /\ StatesRead /\ Shape
  BY DEF PlanAction, Still, Undoing
<1>3. undo = {} /\ staged = {} /\ \A i \in Plan : Clean(i) /\ Empty(Own(i))
  BY <1>2 DEF Shape
<1>4. \A i \in Plan : Clean(i)' /\ Empty(Own(i))'
  BY <1>1, <1>3 DEF Clean, Holds, Began, Empty
<1>5. CASE GiveUp
  <2>1. pc' = "done" /\ result' = "error"
    BY <1>5 DEF GiveUp, Goto
  <2>2. \A i \in Plan : Resolved(i)'
    BY <1>4 DEF Resolved, Tidy, Clean, Holds, Back, Began, Empty, Own
  <2>3. Shape'
    BY <1>4, <2>1, <2>2 DEF Shape, Looping, Undoing
  <2> QED
    BY <1>1, <1>2, <2>1, <2>3 DEF Still, StatesRead, Undoing
<1>6. CASE ~GiveUp
  <2>1. state' = [state EXCEPT ![at] = dir[Source(at)]] /\ Advance("plan", "stage")
    BY <1>6 DEF PlanAction
  <2>2. at \in Plan /\ state \in [Plan -> Files \cup {None}]
    BY DEF TypeInv, TypeOK
  <2>3. pc' \in {"plan", "stage"}
    BY <2>1 DEF Advance
  <2>4. Shape'
    BY <1>1, <1>3, <1>4, <2>3 DEF Shape, Looping, Undoing
  <2>5. \A i \in Plan : i <= at => state'[i] = Began(i)
    <3>1. \A i \in Plan : i < at => state[i] = Began(i)
      BY <1>2 DEF StatesRead
    <3>2. dir[Source(at)] = Began(at)
      BY <1>3, <2>2 DEF Clean, Holds
    <3>3. \A i \in Plan : i <= at => i < at \/ i = at
      BY <2>2, PlanAssumption DEF Plan
    <3> QED
      BY <2>1, <2>2, <3>1, <3>2, <3>3
  <2>6. StatesRead'
    <3>1. CASE at < N
      <4>1. at' = at + 1 /\ pc' = "plan"
        BY <2>1, <3>1 DEF Advance
      <4>2. \A i \in Plan : i < at' => i <= at
        BY <2>2, <4>1, PlanAssumption DEF Plan
      <4> QED
        BY <1>1, <2>5, <4>1, <4>2 DEF StatesRead, Began
    <3>2. CASE ~ (at < N)
      <4>1. pc' = "stage"
        BY <2>1, <3>2 DEF Advance
      <4>2. \A i \in Plan : i <= at
        BY <2>2, <3>2, PlanAssumption DEF Plan
      <4> QED
        BY <1>1, <2>5, <4>1, <4>2 DEF StatesRead, Began
    <3> QED
      BY <3>1, <3>2
  <2> QED
    BY <1>1, <1>2, <2>3, <2>4, <2>6 DEF Still, Undoing
<1> QED
  BY <1>5, <1>6

\* The staged files are made in one step, next to untouched paths.
LEMMA StagePlanStill ==
  ASSUME TypeInv, writes = 0, Still, StagePlan
  PROVE  Still'
<1>1. /\ UNCHANGED <<kind, state, undo, conflict>>
      /\ (faults = 0 \/ faults' # 0)
  BY BoundsAssumption
     DEF StagePlan, Refused, TypeInv, TypeOK, planVars, endVars,
         worldVars
<1>2. pc = "stage" /\ ~conflict /\ StatesRead /\ Shape
  BY DEF StagePlan, Still, Undoing
<1>3. undo = {} /\ staged = {} /\ \A i \in Plan : Clean(i) /\ Empty(Own(i))
  BY <1>2 DEF Shape
<1>4. CASE UNCHANGED <<staged, dir>> /\ GiveUp
  <2>1. pc' = "done" /\ result' = "error"
    BY <1>4 DEF GiveUp, Goto
  <2>2. \A i \in Plan : Resolved(i)' /\ Empty(Own(i))'
    BY <1>1, <1>3, <1>4 DEF Resolved, Tidy, Clean, Holds, Back, Began, Empty, Own
  <2>3. Shape'
    BY <1>1, <1>3, <2>1, <2>2 DEF Shape, Looping, Undoing
  <2>4. StatesRead'
    BY <1>1, <1>2, <2>1 DEF StatesRead, Began
  <2> QED
    BY <1>1, <1>2, <2>1, <2>3, <2>4 DEF Still, Undoing
<1>5. CASE ~ (UNCHANGED <<staged, dir>> /\ GiveUp)
  <2>1. /\ staged' = {i \in Plan : kind[i] \in Rewrites} /\ pc' = "revalidate"
        /\ dir' = [n \in Names |-> IF \E i \in staged' : n = Staged(i)
                                   THEN Patch(n[1]) ELSE dir[n]]
    BY <1>5 DEF StagePlan, Goto
  <2>2. ASSUME NEW i \in Plan PROVE Pending(i)'
    <3>1. /\ dir'[Source(i)] = dir[Source(i)] /\ dir'[Moved(i)] = dir[Moved(i)]
          /\ dir'[Backup(i)] = dir[Backup(i)] /\ dir'[Removed(i)] = dir[Removed(i)]
      BY <2>1, NamesAreApart, NamesAreTyped
    <3>2. dir'[Staged(i)] = IF kind[i] \in Rewrites THEN Patch(i) ELSE dir[Staged(i)]
      <4>1. (\E j \in staged' : Staged(i) = Staged(j)) <=> kind[i] \in Rewrites
        BY <2>1, NamesAreApart
      <4>2. Staged(i)[1] = i
        BY DEF Staged
      <4> QED
        BY <2>1, <4>1, <4>2, NamesAreTyped
    <3>3. Clean(i) /\ Empty(Own(i))
      BY <1>3
    <3> QED
      BY <1>1, <1>3, <2>1, <3>1, <3>2, <3>3
         DEF Pending, Waiting, Clean, Holds, Began, Empty, Own
  <2>3. Shape'
    BY <2>1, <2>2 DEF Shape, Looping, Undoing
  <2>4. StatesRead'
    BY <1>1, <1>2, <2>1 DEF StatesRead, Began
  <2> QED
    BY <1>1, <1>2, <2>1, <2>3, <2>4 DEF Still, Undoing
<1> QED
  BY <1>4, <1>5

LEMMA RevalidatePlanStill ==
  ASSUME TypeInv, writes = 0, Still, RevalidatePlan
  PROVE  Still'
<1>1. /\ UNCHANGED <<kind, state, staged, undo, conflict, dir>>
      /\ (faults = 0 \/ faults' # 0)
  BY BoundsAssumption
     DEF RevalidatePlan, Refused, TypeInv, TypeOK, planVars, patchVars,
         endVars, worldVars
<1>2. pc = "revalidate" /\ ~conflict /\ StatesRead /\ Shape
  BY DEF RevalidatePlan, Still, Undoing
<1>3. \A i \in Plan : Pending(i) /\ Same(i) /\ i \notin undo
  BY <1>1, <1>2 DEF Shape, Same, Pending, Waiting
<1>4. \A i \in Plan : Pending(i)' /\ Resolved(i)'
  BY <1>3, SameStays
<1>5. pc' \in {"revalidate", "undo"} \/ (pc' = "validate" /\ at' = 1)
  BY DEF RevalidatePlan, Advance, Fail, Goto
<1>6. pc' = "validate" => \A i \in Plan : i >= at' /\ Working(i)'
  <2> SUFFICES ASSUME pc' = "validate", NEW i \in Plan PROVE i >= at' /\ Working(i)'
    OBVIOUS
  <2>1. i >= at'
    BY <1>5, PlanAssumption DEF Plan
  <2> QED
    BY <1>4, <2>1 DEF Working
<1>7. \A i \in Plan : i >= at' => ~ (i < at')
  BY PlanAssumption, <1>5
     DEF Plan, TypeInv, TypeOK, RevalidatePlan, Advance, Fail, Goto
<1>8. Shape'
  BY <1>1, <1>3, <1>4, <1>5, <1>6, <1>7 DEF Shape, Looping, Undoing
<1>9. StatesRead'
  BY <1>1, <1>2, <1>5 DEF StatesRead, Began
<1> QED
  BY <1>1, <1>2, <1>5, <1>8, <1>9 DEF Still, Undoing

\* The backups of a patch that succeeded go; a cancelled one is undone.
LEMMA CommitStill ==
  ASSUME TypeInv, writes = 0, Still, Commit
  PROVE  Still'
<1>1. UNCHANGED <<kind, state, staged, undo, conflict, faults>>
  BY DEF Commit, planVars, patchVars
<1>2. pc = "commit" /\ ~conflict /\ StatesRead /\ Shape
  BY DEF Commit, Still, Undoing
<1>3. \A i \in Plan : Committed(i)
  BY <1>2 DEF Shape
<1>4. CASE ctxDone
  <2>1. pc' = "undo" /\ dir' = dir
    BY <1>4 DEF Commit, Fail, Goto
  <2>2. \A i \in Plan : ToUndo(i)' /\ i \in undo'
    <3>1. \A i \in Plan : Same(i)
      BY <1>1, <2>1 DEF Same
    <3> QED
      BY <1>1, <1>3, <3>1, BecomesUndo, SameStays DEF Committed
  <2>3. Shape'
    BY <2>1, <2>2 DEF Shape, Looping, Undoing
  <2>4. StatesRead'
    BY <1>1, <1>2, <2>1 DEF StatesRead, Began
  <2> QED
    BY <1>1, <1>2, <2>1, <2>3, <2>4 DEF Still, Undoing
<1>5. CASE ~ctxDone
  <2>1. pc' = "done" /\ result' = "ok" /\ dir' = RemoveAll({Backup(i) : i \in undo})
    BY <1>5 DEF Commit, Goto
  <2>2. ASSUME NEW i \in Plan PROVE Applied(i)' /\ Empty(Own(i))'
    <3>1. /\ dir'[Source(i)] = dir[Source(i)] /\ dir'[Moved(i)] = dir[Moved(i)]
          /\ dir'[Staged(i)] = dir[Staged(i)] /\ dir'[Removed(i)] = dir[Removed(i)]
      BY <2>1, NamesAreApart, NamesAreTyped
         DEF RemoveAll, TypeInv, TypeOK
    <3>2. dir'[Backup(i)] = None
      BY <1>3, <2>1, NamesAreTyped DEF RemoveAll, Committed
    <3> QED
      BY <1>1, <1>3, <3>1, <3>2
         DEF Committed, Settled, Applied, Holds, Put, Empty, Own
  <2>3. Shape'
    BY <2>1, <2>2 DEF Shape, Looping, Undoing
  <2> QED
    BY <1>1, <1>2, <2>1, <2>3 DEF Still, Undoing, StatesRead
<1> QED
  BY <1>4, <1>5

\* The end of a rollback: the staged files go.
LEMMA RolledBackStill ==
  ASSUME TypeInv, writes = 0, Still, RolledBack
  PROVE  Still'
<1>1. UNCHANGED <<kind, at, staged, conflict, faults>> /\ undo = {} /\ pc = "undo"
  BY DEF RolledBack, GiveUp, Goto, planVars, patchVars, worldVars
<1>2. pc' = "done" /\ result' = "error"
  BY DEF RolledBack, GiveUp, Goto
<1>3. CASE conflict
  BY <1>1, <1>2, <1>3 DEF Still, Undoing
<1>4. CASE ~conflict
  <2>1. \A i \in Plan : Resolved(i)
    BY <1>1, <1>4 DEF Still, Shape, Undoing
  <2>2. staged \subseteq Plan /\ dir' = RemoveAll({Staged(i) : i \in staged})
    BY DEF TypeInv, TypeOK, RolledBack, CleanupStages
  <2>3. ASSUME NEW i \in Plan
        PROVE  Resolved(i)' /\ (faults' = 0 => Empty(Own(i))')
    <3>1. /\ dir'[Source(i)] = dir[Source(i)] /\ dir'[Moved(i)] = dir[Moved(i)]
          /\ dir'[Removed(i)] = dir[Removed(i)] /\ dir'[Backup(i)] = dir[Backup(i)]
          /\ dir'[Staged(i)] = IF i \in staged THEN None ELSE dir[Staged(i)]
      BY <2>2, NamesAreApart, NamesAreTyped DEF RemoveAll
    <3>2. Resolved(i)
      BY <2>1
    <3>3. Aside(i) => Aside(i)'
      BY <1>1, <3>1 DEF Aside, Copy
    <3> QED
      BY <1>1, <3>1, <3>2, <3>3 DEF Resolved, Tidy, Back, Copy, Empty, Own
  <2>4. Shape'
    BY <1>2, <2>3 DEF Shape, Looping, Undoing
  <2> QED
    BY <1>1, <1>2, <1>4, <2>1, <2>4 DEF Still, Undoing, StatesRead
<1> QED
  BY <1>3, <1>4

LEMMA StillSame ==
  ASSUME Still, UNCHANGED <<kind, dir, pc, at, state, staged, undo, matched, failures,
                            conflict, result, faults>>
  PROVE  Still'
BY DEF Still, StatesRead, Shape, Looping, Undoing, Working, Waiting, Pending,
       Committed, Settled, Verifying, Taking, Taken, Resolved, Aside, ToUndo,
       Reverting, Tidy, Clean, Applied, Half, Holds, Backed, Began, Put, Copy, Back,
       Empty, Own, Last

\* A cancellation changes no file.
LEMMA CancelStill ==
  ASSUME TypeInv, Still, Cancel
  PROVE  Still'
<1>1. UNCHANGED <<kind, dir, pc, at, state, staged, undo, matched, failures, conflict,
                  result, faults>>
  BY DEF Cancel, planVars, patchVars, worldVars
<1> QED
  BY <1>1, StillSame

\* No call that reports a rollback error follows a missing source.
LEMMA RestoreStill ==
  ASSUME TypeInv, Still, UndoRestore
  PROVE  Still'
<1>1. conflict /\ pc \in Undoing
  BY DEF Still, Shape, UndoRestore, Undoing
<1>2. faults # 0 /\ faults \in Nat
  BY <1>1, BoundsAssumption DEF Still, TypeInv, TypeOK
<1>3. conflict' /\ pc' = "undo"
  BY <1>1 DEF UndoRestore, Restore, Undone, Goto
<1>4. faults' # 0
  BY <1>2 DEF UndoRestore, Restore, Refused, Undone, Goto
<1> QED
  BY <1>1, <1>3, <1>4, InConflict DEF Undoing

\* At the beginning every source is there, and nothing else.
LEMMA InitStill == Init => Still
<1> SUFFICES ASSUME Init PROVE Still
  OBVIOUS
<1> USE DEF Init
<1>1. ASSUME NEW i \in Plan PROVE Clean(i) /\ Empty(Own(i))
  <2>1. Before(Source(i)) <=> kind[i] # "add"
    BY NamesAreApart DEF Before
  <2>2. \A n \in {Moved(i), Staged(i), Backup(i), Removed(i)} : ~Before(n)
    BY NamesAreApart DEF Before
  <2>3. Source(i)[1] = i
    BY DEF Source
  <2> QED
    BY <2>1, <2>2, <2>3, NamesAreTyped DEF Clean, Holds, Began, Empty, Own
<1>2. \A i \in Plan : ~ (i < 1)
  BY PlanAssumption DEF Plan
<1> QED
  BY <1>1, <1>2 DEF Still, StatesRead, Shape, Looping, Undoing

-----------------------------------------------------------------------------
(* The invariant                                                           *)

LEMMA StepStill ==
  ASSUME TypeInv, writes = 0, Still, [Next]_vars, writes' = 0
  PROVE  Still'
<1>1. CASE CheckStep
  BY <1>1, PlanActionStill, StagePlanStill, RevalidatePlanStill, RevalidateActionStill,
     CreateBackupStill, RecheckStill
     DEF CheckStep
<1>2. CASE InstallStep
  BY <1>2, InstallStagedStill, InstallMoveStill, InstallUpdateStill, VerifyMoveStill,
     MoveBackStill, VerifyUpdateStill, SwapBackStill, TakeSourceStill,
     SettleSourceStill, PutBackStill, CommitStill
     DEF InstallStep
<1>3. CASE UndoStep
  BY <1>3, UndoAddStill, UndoRemoveStill, UndoDeleteStill, RestoreStill,
     UndoUpdateStill, UndoSwapStill, UndoSettleStill, UndoOriginalStill,
     UndoSwapBackStill, UndoMovedStill, UndoFastStill, UndoLinkStill,
     UndoCheckStill, UndoTargetStill, RolledBackStill
     DEF UndoStep
<1>4. CASE Cancel
  BY <1>4, CancelStill
<1>5. CASE \E p \in InUse : Replace(p) \/ RewriteInPlace(p) \/ Unlink(p)
  BY <1>5 DEF Replace, RewriteInPlace, Unlink, Change
<1>6. CASE UNCHANGED vars
  <2>1. UNCHANGED <<kind, dir, pc, at, state, staged, undo, matched, failures,
                    conflict, result, faults>>
    BY <1>6 DEF vars, planVars, patchVars, endVars, worldVars
  <2> QED
    BY <2>1, StillSame
<1> QED
  BY <1>1, <1>2, <1>3, <1>4, <1>5, <1>6 DEF Next

\* Only the world writes.
LEMMA OthersWriteNothing ==
  ASSUME [Next]_vars
  PROVE  \/ writes' = writes
         \/ writes < MaxWrites /\ writes' = writes + 1
<1>1. CASE CheckStep
  BY <1>1
     DEF CheckStep, PlanAction, StagePlan, RevalidatePlan, RevalidateAction,
         CreateBackup, Recheck, worldVars
<1>2. CASE InstallStep
  BY <1>2
     DEF InstallStep, InstallStaged, InstallMove, InstallUpdate, VerifyMove,
         MoveBack, VerifyUpdate, SwapBack, TakeSource, SettleSource, PutBack,
         Commit, worldVars
<1>3. CASE UndoStep
  BY <1>3
     DEF UndoStep, UndoAdd, UndoRemove, UndoDelete, UndoRestore, Restore,
         UndoUpdate, UndoSwap, UndoSettle, UndoOriginal, UndoSwapBack, UndoMoved,
         UndoFast, UndoLink, UndoCheck, UndoTarget, RolledBack, worldVars
<1>4. CASE Cancel
  BY <1>4 DEF Cancel, worldVars
<1>5. CASE \E p \in InUse : Replace(p) \/ RewriteInPlace(p) \/ Unlink(p)
  BY <1>5 DEF Replace, RewriteInPlace, Unlink, Change
<1>6. CASE UNCHANGED vars
  BY <1>6 DEF vars, worldVars
<1> QED
  BY <1>1, <1>2, <1>3, <1>4, <1>5, <1>6 DEF Next

LEMMA StepQuiet == TypeInv /\ QuietInv /\ [Next]_vars => QuietInv'
<1> SUFFICES ASSUME TypeInv, QuietInv, [Next]_vars, writes' = 0
             PROVE  Still'
  BY DEF QuietInv
<1>1. writes = 0
  <2>1. writes \in Nat
    BY BoundsAssumption DEF TypeInv, TypeOK
  <2> QED
    BY <2>1, OthersWriteNothing
<1> QED
  BY <1>1, StepStill DEF QuietInv

\* What the invariant says at the end is what AllOrNothing asks for, ...
LEMMA QuietIsWhole == TypeInv /\ QuietInv => AllOrNothing
<1> SUFFICES ASSUME TypeInv, QuietInv, pc = "done", writes = 0, faults = 0,
                    NEW n \in Names
             PROVE  Text(n) = IF result = "ok" THEN Planned(n) ELSE Started(n)
  BY DEF AllOrNothing
<1>1. Shape
  BY DEF QuietInv, Still
<1>2. PICK i \in Plan : n \in {Source(i), Moved(i), Staged(i), Backup(i), Removed(i)}
      /\ n[1] = i
  BY DEF Names, Paths, Source, Moved, Staged, Backup, Removed
<1>3. n = Source(i) => (Before(n) <=> kind[i] # "add")
  BY NamesAreApart DEF Before
<1>4. n # Source(i) => ~Before(n)
  BY <1>2, NamesAreApart DEF Before
<1>5. Original(i).text = Source(i) /\ Copy(i).text = Source(i)
  BY DEF Original, Copy
<1>6. kind[i] \in {"add", "delete", "update", "move", "rename"}
  BY KindsAssumption DEF TypeInv, TypeOK
<1>7. CASE result = "ok"
  <2>1. Applied(i) /\ Empty(Own(i))
    BY <1>1, <1>7 DEF Shape
  <2>2. dir[n] = IF n = Source(i) THEN IF kind[i] \in {"add", "update"} THEN Patch(i) ELSE None
                 ELSE IF n = Moved(i) /\ kind[i] \in Moves THEN Put(i) ELSE None
    BY <1>2, <2>1, OwnNames DEF Applied, Holds, Empty, Own
  <2>3. Planned(n) = IF n = Source(i)
        /\ kind[i] \in {"add", "update"} THEN Patch(i).text
                     ELSE IF n = Moved(i) /\ kind[i] = "move" THEN Patch(i).text
                     ELSE IF n = Moved(i) /\ kind[i] = "rename" THEN Source(i) ELSE None
    BY <1>2, OwnNames DEF Planned
  <2> QED
    BY <1>2, <1>5, <1>6, <1>7, <2>2, <2>3, OwnNames DEF Text, Put, Moves
<1>8. CASE result # "ok"
  <2>1. Resolved(i) /\ Empty(Own(i))
    BY <1>1, <1>8 DEF Shape
  <2> QED
    BY <1>2, <1>3, <1>4, <1>5, <1>8, <2>1, OwnNames
       DEF Resolved, Aside, Tidy, Back, Empty, Own, Text, Started
<1> QED
  BY <1>7, <1>8

\* ... and, without a conflict, what FailureRestores asks for.
LEMMA QuietRestores == TypeInv /\ QuietInv => FailureRestores
<1> SUFFICES ASSUME TypeInv, QuietInv, pc = "done", writes = 0, result = "error",
                    ~conflict, NEW i \in Plan
             PROVE  AsBefore(i) \/ (i = at /\ KeptAside(i))
  BY DEF FailureRestores
<1>1. Resolved(i)
  BY DEF QuietInv, Still, Shape
<1>2. (Before(Source(i)) <=> kind[i] # "add") /\ ~Before(Moved(i))
  BY NamesAreApart DEF Before
<1>3. Original(i).text = Source(i) /\ Copy(i).text = Source(i)
  BY DEF Original, Copy
<1>4. CASE dir[Moved(i)] = None /\ dir[Source(i)] \in Back(i)
  <2>1. Text(Moved(i)) = Started(Moved(i))
    BY <1>2, <1>4 DEF Text, Started
  <2>2. Text(Source(i)) = Started(Source(i))
    BY <1>2, <1>3, <1>4, OwnNames DEF Text, Started, Back
  <2> QED
    BY <2>1, <2>2 DEF AsBefore
<1>5. CASE Aside(i)
  BY <1>3, <1>5, OwnNames DEF Aside, KeptAside, Text
<1> QED
  BY <1>1, <1>4, <1>5 DEF Resolved

LEMMA QuietInvariant == Spec => [](TypeInv /\ QuietInv)
<1>1. Init => TypeInv /\ QuietInv
  BY InitTyped, InitStill DEF QuietInv
<1>2. TypeInv /\ QuietInv /\ [Next]_vars => (TypeInv /\ QuietInv)'
  BY StepTyped, StepQuiet
<1> QED
  BY <1>1, <1>2, PTL DEF Spec

-----------------------------------------------------------------------------
(* Theorems                                                                *)

\* The state of a patch is well formed (daemonPatchAction, and what apply_patch
\* keeps for its rollback), whatever other programs write, whichever calls fail
\* and whenever the context ends.
THEOREM TypeCorrect == Spec => []TypeOK
<1>1. TypeInv => TypeOK
  BY DEF TypeInv
<1> QED
  BY InitTyped, StepTyped, <1>1, PTL DEF Spec

\* While nobody interferes apply_patch applies a plan of any length whole or not
\* at all, whenever it is cancelled, and leaves none of its own names behind
\* (daemonCommitPatchPlan, daemonRollbackPatchPlan).
THEOREM WholeOrNot == Spec => []AllOrNothing
<1>1. TypeInv /\ QuietInv => AllOrNothing
  BY QuietIsWhole
<1> QED
  BY <1>1, QuietInvariant, PTL

\* When calls on the file system fail, reads and Lstats included, and the rollback
\* reports no error, every path is as it was, but for those of the action that
\* failed: its file may be aside, complete under the names the error gives
\* (daemonCommitPatchAction, daemonRemoveValidatedPatchSource).
THEOREM FailedPatchRestores == Spec => []FailureRestores
<1>1. TypeInv /\ QuietInv => FailureRestores
  BY QuietRestores
<1> QED
  BY <1>1, QuietInvariant, PTL
=============================================================================
