----------------------------- MODULE PatchLossProofs -----------------------------
(***************************************************************************)
(* Whatever other programs write meanwhile, a patch loses no content: every*)
(* content that is owed is under some name, at each step.                  *)
(*                                                                         *)
(* For each action of the plan the invariant says where what it replaces is*)
(* to be found: at its source before it is begun, in its backup (and, for a*)
(* rename, at its target) once it is carried out, and under a name nothing *)
(* removes any more when it is undone (Lossless).  A step moves the files  *)
(* of one action only, and removes a file only when its content is not owed*)
(* or is under another name (Handled); another program changes one path,   *)
(* and what it wrote there the patch recognizes as not its own (Disturbed).*)
(***************************************************************************)
EXTENDS PatchProofs

\* What must not be lost; a name that holds nothing of it; a name that has it.
Owing == owed \ exposed
At(n, c) == dir[n] # None /\ dir[n].text = c
Dispensable(n) == dir[n] # None => dir[n].text \notin Owing
\* What is under name n, if it must not be lost, is under m, too.
Twice(n, m) == dir[n] # None /\ dir[n].text \in Owing => At(m, dir[n].text)

\* The original content of action i, if it must not be lost, is under name n.
Has(n, i) == kind[i] # "add" /\ state[i].text \in Owing => At(n, state[i].text)
\* It is in the backup, which is a file of its own.
Copied(i) ==
  dir[Backup(i)] = IF kind[i] = "add" THEN None
                   ELSE [ino |-> Backup(i), text |-> state[i].text]

\* Contents and files were made before the next write; what the patch writes is
\* never owed.
ByNow(o) == o[2] = "writer" => o[1] <= writes
Dated == \A n \in Names : dir[n] # None => ByNow(dir[n].ino) /\ ByNow(dir[n].text)
Foreign == \A c \in owed : c[2] \in {"source", "writer"}

\* A file has one name; but a rollback may link a source to its backup.
Loose(i) == pc \in Undoing /\ (i \notin undo \/ (pc = "undoTarget" /\ i = Last))
Linked(i, n, m) ==
  Loose(i) /\ \/ n = Source(i) /\ m = Backup(i)
              \/ n = Backup(i) /\ m = Source(i)
Alike(n, m) == n # m /\ dir[n] # None /\ dir[m] # None /\ dir[n].ino = dir[m].ino
OneName ==
  \A n, m \in Names : Alike(n, m) => dir[n] = dir[m] /\ \E i \in Plan : Linked(i, n, m)

Whole == NothingLost /\ Dated /\ Foreign /\ OneName

\* What is recorded of an action.
Recorded(i) ==
  /\ state[i] # None => ByNow(state[i].text)
  /\ i \in staged => kind[i] \in Rewrites

\* An action whose source is not touched, one not begun, and one carried out.
Unused(o) == \A n \in Names : dir[n] # None => dir[n].ino # o
Intact(i) ==
  /\ Has(Source(i), i) /\ i \notin undo
  /\ dir[Removed(i)] = None
  /\ i \in staged => Dispensable(Staged(i))
Ready(i) == Intact(i) /\ dir[Backup(i)] = None /\ Unused(Backup(i))
Carried(i) ==
  /\ i \in undo /\ i \notin staged /\ Copied(i)
  /\ kind[i] = "rename" => Has(Moved(i), i)

\* The action at hand, by the step it is at.
AtHand(i) ==
  /\ pc = "validate" => Ready(i)
  /\ pc = "backup"   => Ready(i) /\ kind[i] # "add"
  /\ pc = "recheck"  => Intact(i) /\ Copied(i) /\ kind[i] \notin {"add", "delete"}
  /\ pc = "install"  => Intact(i) /\ Copied(i) /\ kind[i] # "delete"
  /\ pc \in {"verify", "swapBack", "take", "settle", "putBack"} => Copied(i)
  /\ pc = "verify"   => kind[i] \in {"update", "rename"}
  /\ pc = "verify" /\ kind[i] = "rename" => Has(Moved(i), i) /\ i \notin staged
  /\ pc \in {"verify", "swapBack", "moveBack"} => i \notin undo
  /\ pc = "swapBack" => kind[i] = "update" /\ Dispensable(Source(i))
  /\ pc = "moveBack" => kind[i] = "rename" /\ i \notin staged
  /\ pc = "take"     => Has(Source(i), i) /\ dir[Removed(i)] = None
  /\ pc \in {"settle", "putBack"} => Has(Removed(i), i)
  /\ pc \in {"take", "settle", "putBack"} =>
       /\ kind[i] \in {"delete", "move"} /\ i \notin staged
       /\ (kind[i] = "move") <=> (i \in undo)

\* An action that is undone, or never began: its staged file, which is removed in
\* the end, holds nothing that is owed.
Over(i) == i \in staged => Dispensable(Staged(i))
\* An action to be undone.
Due(i) == Copied(i) /\ Over(i)

\* The action that is being undone, by the step it is at.
OwnTarget(i) ==
  dir[Moved(i)] # None =>
    \/ dir[Moved(i)].text \notin Owing
    \/ kind[i] = "rename" /\ dir[Moved(i)].text = state[i].text
Rolling(i) ==
  /\ Over(i)
  /\ pc \in {"undoRemove", "undoRestore", "undoSwap", "undoFast", "undoLink", "undoCheck"} =>
       Copied(i)
  /\ pc = "undoRemove" => kind[i] = "add" /\ Dispensable(Source(i))
  /\ pc \in {"undoRestore", "undoSwap", "undoSettle", "undoOriginal", "undoSwapBack"} =>
       kind[i] = "update"
  /\ pc \in {"undoSettle", "undoOriginal", "undoSwapBack"} => Has(Source(i), i)
  /\ pc \in {"undoFast", "undoLink", "undoCheck", "undoTarget"} =>
       kind[i] \in Moves /\ (matched => OwnTarget(i))
  /\ pc = "undoFast" => kind[i] = "rename" /\ Has(Moved(i), i)
  /\ pc = "undoTarget" =>
       IF failures THEN Has(Backup(i), i)
       ELSE Has(Source(i), i) /\ Twice(Backup(i), Source(i))

Keeping ==
  /\ pc \in {"plan", "stage"} =>
       /\ undo = {} /\ staged = {}
       /\ \A n \in Names : dir[n] # None => dir[n].ino[2] \notin {"staged", "backup"}
       /\ \A i \in Plan : Empty(Own(i))
  /\ pc = "plan" => \A i \in Plan : i < at => Has(Source(i), i)
  /\ pc = "stage" => \A i \in Plan : Has(Source(i), i)
  /\ pc = "revalidate" => \A i \in Plan : Ready(i)
  /\ pc \in Looping => \A i \in Plan : /\ i < at => Carried(i)
                                       /\ i > at => Ready(i)
                                       /\ i = at => AtHand(i)
  /\ pc = "commit" => \A i \in Plan : Carried(i)
  /\ pc \in Undoing =>
       \A i \in Plan : /\ i \notin undo => Over(i)
                       /\ i \in undo => IF pc # "undo" /\ i = Last
                                        THEN Rolling(i) ELSE Due(i)

Lossless == Whole /\ (\A i \in Plan : Recorded(i)) /\ Keeping
LossInv == NothingLost /\ (pc # "done" => Lossless)

-----------------------------------------------------------------------------
(* What a step leaves to the other actions, and to the files of its own    *)

\* The files of action a come from each other, ...
Sourced(a) == \A n \in NamesOf(a) : dir'[n] # None => \E x \in NamesOf(a) : dir[x] = dir'[n]
\* ... nothing of them that is owed goes, ...
Saved(a) ==
  \A n \in NamesOf(a) : dir[n] # None /\ dir[n].text \in Owing =>
    \E m \in NamesOf(a) : dir'[m] # None /\ dir'[m].text = dir[n].text
\* ... and no two of them are the same, but for a source that is its backup.
Apart(a) == \A n, m \in NamesOf(a) : ~Alike(n, m)
OneHere(a) == \A n, m \in NamesOf(a) : Alike(n, m) => dir[n] = dir[m] /\ Linked(a, n, m)
Handled(a) == Sourced(a) /\ Saved(a) /\ OneHere(a)'

\* What a step of action a leaves alone.
Framed(a) ==
  /\ Elsewhere(a) /\ \A n \in Names \ NamesOf(a) : dir'[n] = dir[n]
  /\ UNCHANGED <<kind, state, writes, owed>> /\ exposed \subseteq exposed'

LEMMA OwedShrinks == ASSUME NEW a \in Plan, Framed(a) PROVE Owing' \subseteq Owing
BY DEF Framed, Owing

\* What holds of action i holds on when a step of another action leaves it alone.
LEMMA OthersStay ==
  ASSUME NEW a \in Plan, NEW i \in Plan, i # a, Framed(a)
  PROVE  /\ Intact(i) => Intact(i)'
         /\ Carried(i) => Carried(i)'
         /\ Over(i) => Over(i)'
         /\ Due(i) => Due(i)'
<1>1. /\ dir'[Source(i)] = dir[Source(i)] /\ dir'[Moved(i)] = dir[Moved(i)]
      /\ dir'[Staged(i)] = dir[Staged(i)] /\ dir'[Backup(i)] = dir[Backup(i)]
      /\ dir'[Removed(i)] = dir[Removed(i)]
  BY DEF Framed, Elsewhere, Same, NamesOf
<1>2. /\ kind' = kind /\ state' = state
      /\ (i \in undo') = (i \in undo) /\ (i \in staged') = (i \in staged)
  BY DEF Framed, Elsewhere, Same
<1>3. Owing' \subseteq Owing
  BY OwedShrinks
<1>4. /\ \A c : At(Source(i), c) = At(Source(i), c)' /\ At(Moved(i), c) = At(Moved(i), c)'
                /\ At(Staged(i), c) = At(Staged(i), c)'
                /\ At(Removed(i), c) = At(Removed(i), c)'
  BY <1>1 DEF At
<1>5. /\ Has(Source(i), i) => Has(Source(i), i)'
      /\ Has(Moved(i), i) => Has(Moved(i), i)'
      /\ Dispensable(Staged(i)) => Dispensable(Staged(i))'
  BY <1>1, <1>2, <1>3, <1>4 DEF Has, Dispensable
<1>6. Copied(i) => Copied(i)'
  BY <1>1, <1>2 DEF Copied
<1>7. Intact(i) => Intact(i)'
  BY <1>1, <1>2, <1>5 DEF Intact
<1>8. Carried(i) => Carried(i)'
  BY <1>2, <1>5, <1>6 DEF Carried
<1>9. Due(i) => Due(i)'
  BY <1>2, <1>4, <1>5, <1>6 DEF Due, Over
<1>10. Over(i) => Over(i)'
  BY <1>2, <1>5 DEF Over
<1> QED
  BY <1>7, <1>8, <1>9, <1>10

LEMMA StaysUnused ==
  ASSUME NEW a \in Plan, NEW i \in Plan, i # a, Framed(a), Sourced(a), Ready(i)
  PROVE  Ready(i)'
<1>1. Intact(i)'
  BY OthersStay DEF Ready
<1>2. dir'[Backup(i)] = None
  BY DEF Ready, Framed, Elsewhere, Same, NamesOf
<1>3. Unused(Backup(i))'
  <2> SUFFICES ASSUME NEW n \in Names, dir'[n] # None PROVE dir'[n].ino # Backup(i)
    BY DEF Unused, Backup
  <2>1. \E x \in Names : dir[x] = dir'[n]
    BY OwnNames DEF Framed, Sourced
  <2> QED
    BY <2>1 DEF Ready, Unused
<1> QED
  BY <1>1, <1>2, <1>3 DEF Ready

\* All files are whole when those of the action at hand are handled well.
LEMMA WholeStays ==
  ASSUME NEW a \in Plan, Whole, Framed(a), Handled(a),
         \A i \in Plan : i # a /\ Loose(i) => Loose(i)'
  PROVE  Whole'
<1>1. Owing' \subseteq Owing
  BY OwedShrinks
<1>2. NothingLost'
  <2> SUFFICES ASSUME NEW c \in Owing' PROVE Kept(c)'
    BY DEF NothingLost, Owing
  <2>1. PICK n \in Names : dir[n] # None /\ dir[n].text = c
    BY <1>1 DEF Whole, NothingLost, Owing, Kept
  <2>2. \E m \in Names : dir'[m] # None /\ dir'[m].text = c
    <3>1. CASE n \in NamesOf(a)
      BY <1>1, <2>1, <3>1, OwnNames DEF Handled, Saved
    <3>2. CASE n \notin NamesOf(a)
      BY <2>1, <3>2 DEF Framed
    <3> QED
      BY <3>1, <3>2
  <2> QED
    BY <2>2 DEF Kept
<1>3. \A n \in Names : dir'[n] # None => \E x \in Names : dir[x] = dir'[n]
  BY OwnNames DEF Framed, Handled, Sourced
<1>4. Dated'
  BY <1>3 DEF Whole, Dated, ByNow, Framed
<1>5. Foreign'
  BY DEF Whole, Foreign, Framed
<1>6. OneName'
  <2> SUFFICES ASSUME NEW n \in Names, NEW m \in Names, Alike(n, m)'
               PROVE  dir'[n] = dir'[m] /\ \E i \in Plan : Linked(i, n, m)'
    BY DEF OneName
  <2>0. n # m /\ dir'[n] # None /\ dir'[m] # None /\ dir'[n].ino = dir'[m].ino
    BY DEF Alike
  <2>1. CASE n \in NamesOf(a) /\ m \in NamesOf(a)
    BY <2>1 DEF Handled, OneHere
  <2>2. CASE n \notin NamesOf(a) /\ m \notin NamesOf(a)
    <3>1. dir'[n] = dir[n] /\ dir'[m] = dir[m]
      BY <2>2 DEF Framed
    <3>2. PICK i \in Plan : dir[n] = dir[m] /\ Linked(i, n, m)
      BY <2>0, <3>1 DEF Whole, OneName, Alike
    <3>3. i # a
      BY <2>2, <3>2 DEF Linked, NamesOf
    <3>4. Linked(i, n, m)'
      BY <3>2, <3>3 DEF Linked
    <3> QED
      BY <3>1, <3>2, <3>4
  <2>3. ASSUME NEW x \in Names, NEW y \in Names, x \in NamesOf(a), y \notin NamesOf(a),
               Alike(x, y)
        PROVE  FALSE
    <3>1. PICK i \in Plan : Linked(i, x, y)
      BY <2>3 DEF Whole, OneName
    <3>2. x \in NamesOf(i) /\ y \in NamesOf(i)
      BY <3>1 DEF Linked, NamesOf
    <3>3. i # a
      BY <2>3, <3>2
    <3> QED
      BY <2>3, <3>2, <3>3, NoSharedNames
  <2>4. CASE n \in NamesOf(a) /\ m \notin NamesOf(a)
    <3>1. PICK x \in NamesOf(a) : dir[x] = dir'[n]
      BY <2>0, <2>4 DEF Handled, Sourced
    <3>2. dir'[m] = dir[m] /\ x \in Names
      BY <2>4, OwnNames DEF Framed
    <3>3. Alike(x, m)
      BY <2>0, <2>4, <3>1, <3>2 DEF Alike
    <3> QED
      BY <2>3, <2>4, <3>2, <3>3
  <2>5. CASE n \notin NamesOf(a) /\ m \in NamesOf(a)
    <3>1. PICK x \in NamesOf(a) : dir[x] = dir'[m]
      BY <2>0, <2>5 DEF Handled, Sourced
    <3>2. dir'[n] = dir[n] /\ x \in Names
      BY <2>5, OwnNames DEF Framed
    <3>3. Alike(x, n)
      BY <2>0, <2>5, <3>1, <3>2 DEF Alike
    <3> QED
      BY <2>3, <2>5, <3>2, <3>3
  <2> QED
    BY <2>1, <2>2, <2>4, <2>5
<1> QED
  BY <1>2, <1>4, <1>5, <1>6 DEF Whole

LEMMA RecordsStay ==
  ASSUME NEW a \in Plan, Framed(a), Recorded(a)', \A i \in Plan : Recorded(i)
  PROVE  \A i \in Plan : Recorded(i)'
<1> SUFFICES ASSUME NEW i \in Plan, i # a PROVE Recorded(i)'
  OBVIOUS
<1>1. Owing' \subseteq Owing
  BY OwedShrinks
<1>2. UNCHANGED <<kind, state, writes>> /\ (i \in staged') = (i \in staged)
  BY DEF Framed, Elsewhere, Same
<1> QED
  BY <1>1, <1>2 DEF Recorded, ByNow

-----------------------------------------------------------------------------
(* How a patch gets on                                                     *)

LEMMA NothingLoose ==
  ASSUME pc \in Looping \cup {"commit", "revalidate"}
  PROVE  \A i \in Plan : ~Loose(i)
BY DEF Looping, Loose, Undoing

\* The action at hand goes on, ...
LEMMA GoesOnWhole ==
  ASSUME Lossless, pc \in Looping, pc' \in Looping, NEW a \in Plan, at = a, at' = a,
         Framed(a), Handled(a), Recorded(a)', AtHand(a)'
  PROVE  Lossless'
<1>1. Whole'
  BY NothingLoose, WholeStays DEF Lossless
<1>2. \A i \in Plan : Recorded(i)'
  BY RecordsStay DEF Lossless
<1>3. ASSUME NEW i \in Plan, i # a
      PROVE  (i < a => Carried(i)') /\ (i > a => Ready(i)')
  <2>1. (i < a => Carried(i)) /\ (i > a => Ready(i))
    BY DEF Lossless, Keeping
  <2> QED
    BY <1>3, <2>1, OthersStay, StaysUnused DEF Handled
<1>4. \A i \in Plan : (i < at' => Carried(i)') /\ (i > at' => Ready(i)')
  BY <1>3, PlanAssumption DEF Plan
<1>5. Keeping'
  BY <1>4 DEF Keeping, Looping, Undoing
<1> QED
  BY <1>1, <1>2, <1>5 DEF Lossless

\* ... is done, and the next one begins, ...
LEMMA IsDoneWhole ==
  ASSUME Lossless, pc \in Looping, NEW a \in Plan, at = a, Done,
         Framed(a), Handled(a), Recorded(a)', Carried(a)'
  PROVE  Lossless'
<1>1. Whole'
  BY NothingLoose, WholeStays DEF Lossless
<1>2. \A i \in Plan : Recorded(i)'
  BY RecordsStay DEF Lossless
<1>3. ASSUME NEW i \in Plan
      PROVE  (i <= a => Carried(i)') /\ (i > a => Ready(i)')
  <2>1. (i < a => Carried(i)) /\ (i > a => Ready(i))
    BY DEF Lossless, Keeping
  <2>2. i < a \/ i = a \/ i > a
    BY PlanAssumption DEF Plan
  <2>3. CASE i # a
    BY <2>1, <2>2, <2>3, OthersStay, StaysUnused, PlanAssumption DEF Handled, Plan
  <2>4. CASE i = a
    BY <2>4, PlanAssumption DEF Plan
  <2> QED
    BY <2>3, <2>4
<1>4. CASE at < N
  <2>1. at' = at + 1 /\ pc' = "validate"
    BY <1>4 DEF Done, Advance
  <2>2. \A i \in Plan : (i < at' => Carried(i)') /\ (i >= at' => Ready(i)')
    BY <1>3, <2>1, PlanAssumption DEF Plan
  <2>3. \A i \in Plan : i = at' => AtHand(i)'
    BY <2>1, <2>2, PlanAssumption DEF AtHand, Plan
  <2>4. Keeping'
    BY <2>1, <2>2, <2>3, PlanAssumption DEF Keeping, Looping, Undoing, Plan
  <2> QED
    BY <1>1, <1>2, <2>4 DEF Lossless
<1>5. CASE ~ (at < N)
  <2>1. pc' = "commit"
    BY <1>5 DEF Done, Advance
  <2>2. \A i \in Plan : Carried(i)'
    BY <1>3, <1>5, PlanAssumption DEF Plan
  <2>3. Keeping'
    BY <2>1, <2>2 DEF Keeping, Looping, Undoing
  <2> QED
    BY <1>1, <1>2, <2>3 DEF Lossless
<1> QED
  BY <1>4, <1>5

\* What was carried out is undone; what was not begun needs nothing.
LEMMA BecomesDue ==
  ASSUME NEW i \in Plan
  PROVE  /\ Carried(i) => Due(i)
         /\ Ready(i) => Over(i)
<1>1. Carried(i) => Due(i)
  BY DEF Carried, Due, Over
<1>2. Ready(i) => Over(i)
  BY DEF Ready, Intact, Over, Twice, Dispensable
<1> QED
  BY <1>1, <1>2

\* ... or fails, and is undone or needs nothing.
LEMMA FailsWhole ==
  ASSUME Lossless, pc \in Looping, NEW a \in Plan, at = a, Fail,
         Framed(a), Handled(a), Recorded(a)',
         a \in undo' => Due(a)', a \notin undo' => Over(a)'
  PROVE  Lossless'
<1>1. Whole'
  BY NothingLoose, WholeStays DEF Lossless
<1>2. \A i \in Plan : Recorded(i)'
  BY RecordsStay DEF Lossless
<1>3. pc' = "undo"
  BY DEF Fail, Goto
<1>4. ASSUME NEW i \in Plan, i # at
      PROVE  (i \in undo' => Due(i)') /\ (i \notin undo' => Over(i)')
  <2>1. (i \in undo') = (i \in undo)
    BY <1>4 DEF Framed, Elsewhere, Same
  <2>2. CASE i < at
    <3>1. Carried(i)
      BY <2>2 DEF Lossless, Keeping
    <3> QED
      BY <1>4, <2>1, <3>1, BecomesDue, OthersStay DEF Carried
  <2>3. CASE i > at
    <3>1. Ready(i)
      BY <2>3 DEF Lossless, Keeping
    <3> QED
      BY <1>4, <2>1, <3>1, BecomesDue, OthersStay DEF Ready, Intact
  <2> QED
    BY <1>4, <2>2, <2>3, PlanAssumption DEF Plan
<1>5. Keeping'
  BY <1>3, <1>4 DEF Keeping, Looping, Undoing
<1> QED
  BY <1>1, <1>2, <1>5 DEF Lossless

\* A rollback goes on, ...
LEMMA GoesOnUndoingWhole ==
  ASSUME Lossless, NEW a \in Plan, Last = a, pc \in Undoing, a \in undo,
         pc' \in Undoing \ {"undo"}, undo' = undo, Framed(a), Handled(a),
         Recorded(a)', Rolling(a)'
  PROVE  Lossless'
<1>1. Last' = Last
  BY DEF Last
<1>2. Whole'
  BY <1>1, WholeStays DEF Lossless, Loose
<1>3. \A i \in Plan : Recorded(i)'
  BY RecordsStay DEF Lossless
<1>4. ASSUME NEW i \in Plan, i # Last
      PROVE  (i \in undo => Due(i)') /\ (i \notin undo => Over(i)')
  <2>1. (i \in undo => Due(i)) /\ (i \notin undo => Over(i))
    BY <1>4 DEF Lossless, Keeping
  <2> QED
    BY <1>4, <2>1, OthersStay
<1>5. Keeping'
  BY <1>1, <1>4 DEF Keeping, Looping, Undoing
<1> QED
  BY <1>2, <1>3, <1>5 DEF Lossless

\* ... or is over, with a conflict or without.
LEMMA IsUndoneWhole ==
  ASSUME Lossless, NEW a \in Plan, Last = a, pc \in Undoing, a \in undo,
         pc' = "undo", undo' = undo \ {a}, Framed(a), Handled(a),
         Recorded(a)', Over(a)'
  PROVE  Lossless'
<1>1. \A i \in Plan : i # a /\ Loose(i) => Loose(i)'
  BY DEF Loose, Undoing
<1>2. Whole'
  BY <1>1, WholeStays DEF Lossless
<1>3. \A i \in Plan : Recorded(i)'
  BY RecordsStay DEF Lossless
<1>4. ASSUME NEW i \in Plan, i # Last
      PROVE  (i \in undo => Due(i)') /\ (i \notin undo => Over(i)')
  <2>1. (i \in undo => Due(i)) /\ (i \notin undo => Over(i))
    BY <1>4 DEF Lossless, Keeping
  <2> QED
    BY <1>4, <2>1, OthersStay
<1>5. Keeping'
  BY <1>4 DEF Keeping, Looping, Undoing
<1> QED
  BY <1>2, <1>3, <1>5 DEF Lossless

-----------------------------------------------------------------------------
(* The calls on the file system                                            *)

LEMMA HereApart ==
  ASSUME NEW a \in Plan, Whole
  PROVE  OneHere(a) /\ (~Loose(a) => Apart(a))
<1>1. ASSUME NEW n \in NamesOf(a), NEW m \in NamesOf(a), Alike(n, m)
      PROVE  dir[n] = dir[m] /\ Linked(a, n, m)
  <2>1. n \in Names /\ m \in Names
    BY OwnNames
  <2>2. PICK i \in Plan : dir[n] = dir[m] /\ Linked(i, n, m)
    BY <1>1, <2>1 DEF Whole, OneName
  <2>3. n \in NamesOf(i)
    BY <2>2 DEF Linked, NamesOf
  <2>4. i = a
    BY <2>3, NoSharedNames
  <2> QED
    BY <2>2, <2>4
<1> QED
  BY <1>1 DEF OneHere, Apart, Linked

LEMMA SameHandled ==
  ASSUME NEW a \in Plan, Whole, Loose(a) => Loose(a)', dir' = dir
  PROVE  Handled(a)
<1>1. OneHere(a)
  BY HereApart
<1>2. OneHere(a)'
  BY <1>1 DEF OneHere, Alike, Linked
<1> QED
  BY <1>2 DEF Handled, Sourced, Saved

LEMMA RenameHandled ==
  ASSUME NEW a \in Plan, Whole, ~Loose(a), dir \in Directories,
         NEW x \in NamesOf(a), NEW y \in NamesOf(a), x # y,
         Dispensable(y), dir' = Rename(x, y)
  PROVE  Handled(a)
<1>1. Apart(a)
  BY HereApart
<1>2. dir'[x] = None /\ dir'[y] = dir[x]
      /\ \A n \in NamesOf(a) : n # x /\ n # y => dir'[n] = dir[n]
  BY OwnNames DEF Rename, Directories
<1>3. Sourced(a)
  BY <1>2 DEF Sourced
<1>4. Saved(a)
  BY <1>2 DEF Saved, Dispensable
<1>5. Apart(a)'
  BY <1>1, <1>2 DEF Apart, Alike
<1> QED
  BY <1>3, <1>4, <1>5 DEF Handled, OneHere, Apart

LEMMA ExchangeHandled ==
  ASSUME NEW a \in Plan, Whole, ~Loose(a), dir \in Directories,
         NEW x \in NamesOf(a), NEW y \in NamesOf(a), x # y, dir' = Exchange(x, y)
  PROVE  Handled(a)
<1>1. Apart(a)
  BY HereApart
<1>2. dir'[x] = dir[y] /\ dir'[y] = dir[x]
      /\ \A n \in NamesOf(a) : n # x /\ n # y => dir'[n] = dir[n]
  BY OwnNames DEF Exchange, Directories
<1>3. Sourced(a)
  BY <1>2 DEF Sourced
<1>4. Saved(a)
  BY <1>2 DEF Saved
<1>5. Apart(a)'
  BY <1>1, <1>2 DEF Apart, Alike
<1> QED
  BY <1>3, <1>4, <1>5 DEF Handled, OneHere, Apart

\* What goes is not owed, or is under name y, which stays.
LEMMA RemoveHandled ==
  ASSUME NEW a \in Plan, Whole, Loose(a) => Loose(a)', dir \in Directories,
         NEW S, NEW y \in NamesOf(a), y \notin S,
         \A x \in S \cap NamesOf(a) : Twice(x, y), dir' = RemoveAll(S)
  PROVE  Handled(a)
<1>1. OneHere(a)
  BY HereApart
<1>2. \A n \in NamesOf(a) : dir'[n] = IF n \in S THEN None ELSE dir[n]
  BY OwnNames DEF RemoveAll
<1>3. Sourced(a)
  BY <1>2 DEF Sourced
<1>4. Saved(a)
  BY <1>2 DEF Saved, Twice, At
<1>5. OneHere(a)'
  BY <1>1, <1>2 DEF OneHere, Alike, Linked
<1> QED
  BY <1>3, <1>4, <1>5 DEF Handled

LEMMA RemoveOne ==
  ASSUME dir \in Directories, NEW x \in Names
  PROVE  Remove(x) = RemoveAll({x}) /\ [dir EXCEPT ![x] = None] = RemoveAll({x})
BY DEF Remove, RemoveAll, Directories

LEMMA RenameRemoveHandled ==
  ASSUME NEW a \in Plan, Whole, ~Loose(a), dir \in Directories,
         NEW x \in NamesOf(a), NEW y \in NamesOf(a), NEW z \in NamesOf(a),
         x # y, x # z, y # z, Dispensable(y), Twice(z, x),
         dir' = [Rename(x, y) EXCEPT ![z] = None]
  PROVE  Handled(a)
<1>1. Apart(a)
  BY HereApart
<1>2. dir'[x] = None /\ dir'[y] = dir[x] /\ dir'[z] = None
      /\ \A n \in NamesOf(a) : n # x /\ n # y /\ n # z => dir'[n] = dir[n]
  BY OwnNames DEF Rename, Directories
<1>3. Sourced(a)
  BY <1>2 DEF Sourced
<1>4. Saved(a)
  BY <1>2 DEF Saved, Dispensable, Twice, At
<1>5. Apart(a)'
  BY <1>1, <1>2 DEF Apart, Alike
<1> QED
  BY <1>3, <1>4, <1>5 DEF Handled, OneHere, Apart

\* A missing source is linked to its backup.
LEMMA LinkHandled ==
  ASSUME NEW a \in Plan, Whole, ~Loose(a), Loose(a)', dir \in Directories,
         dir[Source(a)] = None, dir' = [dir EXCEPT ![Source(a)] = dir[Backup(a)]]
  PROVE  Handled(a)
<1>1. Apart(a)
  BY HereApart
<1>2. dir'[Source(a)] = dir[Backup(a)] /\ dir'[Backup(a)] = dir[Backup(a)]
      /\ \A n \in NamesOf(a) : n # Source(a) => dir'[n] = dir[n]
  BY OwnNames DEF Directories
<1>3. Sourced(a)
  BY <1>2, OwnNames DEF Sourced
<1>4. Saved(a)
  BY <1>2 DEF Saved
<1>5. OneHere(a)'
  <2> SUFFICES ASSUME NEW n \in NamesOf(a), NEW m \in NamesOf(a), Alike(n, m)'
               PROVE  dir'[n] = dir'[m] /\ Linked(a, n, m)'
    BY DEF OneHere, NamesOf
  <2>1. Backup(a) \in NamesOf(a)
    BY OwnNames
  <2>2. \/ n = Source(a) /\ m = Backup(a)
        \/ n = Backup(a) /\ m = Source(a)
    BY <1>1, <1>2, <2>1 DEF Apart, Alike
  <2> QED
    BY <1>2, <2>2 DEF Linked
<1> QED
  BY <1>3, <1>4, <1>5 DEF Handled

LEMMA BackupThere ==
  ASSUME NEW a \in Plan, TypeInv, Copied(a), kind[a] # "add", state[a] # None
  PROVE  At(Backup(a), state[a].text)
<1>1. state[a] \in Files
  BY DEF TypeInv, TypeOK
<1>2. [ino |-> Backup(a), text |-> state[a].text] \in Files
  BY <1>1, NamesAreTyped DEF Files
<1> QED
  BY <1>2, NoneAssumption DEF Copied, At

-----------------------------------------------------------------------------
(* The steps of the commit                                                 *)

LEMMA RevalidateActionWhole ==
  ASSUME TypeInv, Lossless, RevalidateAction
  PROVE  Lossless'
<1>1. PICK a \in Plan : at = a
  BY DEF TypeInv, TypeOK
<1>2. dir \in Directories /\ pc \in Looping /\ faults \in Nat
  BY BoundsAssumption
     DEF TypeInv, TypeOK, Directories, Looping, RevalidateAction
<1>3. Whole /\ Recorded(a) /\ ~Loose(a)
  BY <1>2, NothingLoose DEF Lossless
<1>4. /\ UNCHANGED <<kind, state, conflict, ctxDone, writes, owed, exposed>>
      /\ faults = 0 \/ faults' # 0
      /\ exposed \subseteq exposed'
  BY <1>2
     DEF RevalidateAction, Refused, planVars, patchVars, endVars, worldVars
<1>5. Ready(a)
  BY <1>1, <1>2
     DEF TypeInv, TypeOK, Lossless, Keeping, Looping, AtHand,
         RevalidateAction, Carried
<1>6. Framed(a)
  <2>1. \A n \in Names \ NamesOf(a) : dir'[n] = dir[n]
    BY <1>1, <1>2, <1>4, OwnNames DEF RevalidateAction, Directories
  <2>2. undo' \in {undo, undo \cup {a}} /\ staged' \in {staged, staged \ {a}}
    BY <1>1, <1>2, <1>4 DEF RevalidateAction, patchVars
  <2> QED
    BY <1>4, <2>1, <2>2, OnlyHere DEF Framed
<1>7. Recorded(a)'
  BY <1>1, <1>2, <1>3, <1>4, <1>5
     DEF Recorded, ByNow, Owing, Whole, Dated, Foreign, patchVars, RevalidateAction,
         Refused
<1>8. \/ Fail /\ dir' = dir /\ undo' = undo /\ staged' = staged
      \/ /\ kind[a] = "add" /\ Goto("install") /\ dir' = dir /\ undo' = undo
         /\ staged' = staged
      \/ /\ kind[a] # "add" /\ Goto("backup") /\ dir' = dir /\ undo' = undo
         /\ staged' = staged
  BY <1>1, <1>2, <1>4, <1>5, OwnNames
     DEF RevalidateAction, Refused, Moves, patchVars, Valid, Free
<1>9. CASE Fail /\ dir' = dir /\ undo' = undo /\ staged' = staged
  <2>1. Handled(a)
    BY <1>1, <1>2, <1>3, <1>4, <1>5, <1>9, SameHandled
  <2>2. Owing' \subseteq Owing
    BY <1>6, OwedShrinks
  <2>3. (a \in undo' => Due(a)') /\ (a \notin undo' => Over(a)')
    BY <1>1, <1>2, <1>3, <1>4, <1>5, <1>9, <2>2, OwnNames
       DEF Due, Over, Ready, Intact, Has, Copied,
           Twice, At, Dispensable, Unused, Recorded, Directories, Rewrites, Patch,
           Owing, Whole, Foreign, Staged
  <2> QED
    BY <1>1, <1>2, <1>3, <1>6, <1>7, <1>9, <2>1, <2>3, FailsWhole
<1>10. CASE /\ kind[a] = "add" /\ Goto("install") /\ dir' = dir /\ undo' = undo
            /\ staged' = staged
  <2>1. Handled(a)
    BY <1>1, <1>2, <1>3, <1>4, <1>5, <1>10, SameHandled
  <2>2. Owing' \subseteq Owing
    BY <1>6, OwedShrinks
  <2>3. AtHand(a)' /\ pc' \in Looping /\ at' = a
    BY <1>1, <1>2, <1>3, <1>4, <1>5, <1>10, <2>2, OwnNames
       DEF AtHand, Goto, Looping, Ready, Intact, Has, Copied, At, Dispensable,
           Unused, Recorded, Directories, Rewrites, Patch, Owing, Whole, Foreign,
           Staged
  <2> QED
    BY <1>1, <1>2, <1>3, <1>6, <1>7, <1>10, <2>1, <2>3, GoesOnWhole
<1>11. CASE /\ kind[a] # "add" /\ Goto("backup") /\ dir' = dir /\ undo' = undo
            /\ staged' = staged
  <2>1. Handled(a)
    BY <1>1, <1>2, <1>3, <1>4, <1>5, <1>11, SameHandled
  <2>2. Owing' \subseteq Owing
    BY <1>6, OwedShrinks
  <2>3. AtHand(a)' /\ pc' \in Looping /\ at' = a
    BY <1>1, <1>2, <1>3, <1>4, <1>5, <1>11, <2>2, OwnNames
       DEF AtHand, Goto, Looping, Ready, Intact, Has, Copied, At, Dispensable,
           Unused, Recorded, Directories, Rewrites, Patch, Owing, Whole, Foreign,
           Staged
  <2> QED
    BY <1>1, <1>2, <1>3, <1>6, <1>7, <1>11, <2>1, <2>3, GoesOnWhole
<1> QED
  BY <1>8, <1>9, <1>10, <1>11

LEMMA RecheckWhole ==
  ASSUME TypeInv, Lossless, Recheck
  PROVE  Lossless'
<1>1. PICK a \in Plan : at = a
  BY DEF TypeInv, TypeOK
<1>2. dir \in Directories /\ pc \in Looping /\ faults \in Nat
  BY BoundsAssumption
     DEF TypeInv, TypeOK, Directories, Looping, Recheck
<1>3. Whole /\ Recorded(a) /\ ~Loose(a)
  BY <1>2, NothingLoose DEF Lossless
<1>4. /\ UNCHANGED <<kind, state, conflict, ctxDone, writes, owed, exposed>>
      /\ faults = 0 \/ faults' # 0
      /\ exposed \subseteq exposed'
  BY <1>2 DEF Recheck, Refused, planVars, patchVars, endVars, worldVars
<1>5. Intact(a) /\ Copied(a) /\ kind[a] \notin {"add", "delete"}
  BY <1>1, <1>2
     DEF TypeInv, TypeOK, Lossless, Keeping, Looping, AtHand,
         Recheck, Carried
<1>6. Framed(a)
  <2>1. \A n \in Names \ NamesOf(a) : dir'[n] = dir[n]
    BY <1>1, <1>2, <1>4, OwnNames DEF Recheck, Remove, Directories
  <2>2. undo' \in {undo, undo \cup {a}} /\ staged' \in {staged, staged \ {a}}
    BY <1>1, <1>2, <1>4 DEF Recheck, patchVars
  <2> QED
    BY <1>4, <2>1, <2>2, OnlyHere DEF Framed
<1>7. Recorded(a)'
  BY <1>1, <1>2, <1>3, <1>4, <1>5
     DEF Recorded, ByNow, Owing, Whole, Dated, Foreign, patchVars, Recheck, Refused
<1>8. \/ Fail /\ dir' = Remove(Backup(a)) /\ undo' = undo /\ staged' = staged
      \/ Goto("install") /\ dir' = dir /\ undo' = undo /\ staged' = staged
  BY <1>1, <1>2, <1>4, <1>5, OwnNames
     DEF Recheck, Refused, Intact, Copied, Moves, patchVars, Valid, Free, Remove
<1>9. CASE Fail /\ dir' = Remove(Backup(a)) /\ undo' = undo /\ staged' = staged
  <2>1. Handled(a)
    <3>1. Twice(Backup(a), Source(a))
      BY <1>1, <1>2, <1>3, <1>4, <1>5, <1>9, OwnNames
         DEF Intact, Has, Copied, Twice, At, Dispensable
    <3>2. dir' = RemoveAll({Backup(a)})
      BY <1>1, <1>2, <1>3, <1>4, <1>5, <1>9, OwnNames, RemoveOne
    <3> QED
      BY <1>1, <1>2, <1>3, <1>4, <1>5, <1>9, <3>1, <3>2, OwnNames, RemoveHandled
  <2>2. Owing' \subseteq Owing
    BY <1>6, OwedShrinks
  <2>3. (a \in undo' => Due(a)') /\ (a \notin undo' => Over(a)')
    BY <1>1, <1>2, <1>3, <1>4, <1>5, <1>9, <2>2, OwnNames
       DEF Due, Over, Intact, Has, Copied, Twice,
           At, Dispensable, Recorded, Remove, Directories, Rewrites, Patch, Owing,
           Whole, Foreign, Staged
  <2> QED
    BY <1>1, <1>2, <1>3, <1>6, <1>7, <1>9, <2>1, <2>3, FailsWhole
<1>10. CASE Goto("install") /\ dir' = dir /\ undo' = undo /\ staged' = staged
  <2>1. Handled(a)
    BY <1>1, <1>2, <1>3, <1>4, <1>5, <1>10, SameHandled
  <2>2. Owing' \subseteq Owing
    BY <1>6, OwedShrinks
  <2>3. AtHand(a)' /\ pc' \in Looping /\ at' = a
    BY <1>1, <1>2, <1>3, <1>4, <1>5, <1>10, <2>2, OwnNames
       DEF AtHand, Goto, Looping, Ready, Intact, Has, Copied, At, Dispensable,
           Unused, Recorded, Directories, Rewrites, Patch, Owing, Whole, Foreign,
           Staged
  <2> QED
    BY <1>1, <1>2, <1>3, <1>6, <1>7, <1>10, <2>1, <2>3, GoesOnWhole
<1> QED
  BY <1>8, <1>9, <1>10

LEMMA InstallStagedWhole ==
  ASSUME TypeInv, Lossless, InstallStaged
  PROVE  Lossless'
<1>1. PICK a \in Plan : at = a
  BY DEF TypeInv, TypeOK
<1>2. dir \in Directories /\ pc \in Looping /\ faults \in Nat
  BY BoundsAssumption
     DEF TypeInv, TypeOK, Directories, Looping, InstallStaged
<1>3. Whole /\ Recorded(a) /\ ~Loose(a)
  BY <1>2, NothingLoose DEF Lossless
<1>4. /\ UNCHANGED <<kind, state, conflict, ctxDone, writes, owed, exposed>>
      /\ faults = 0 \/ faults' # 0
      /\ exposed \subseteq exposed'
  BY <1>2 DEF InstallStaged, Refused, planVars, endVars, worldVars
<1>5. Intact(a) /\ Copied(a) /\ kind[a] \in {"add", "move"}
  BY <1>1, <1>2
     DEF TypeInv, TypeOK, Lossless, Keeping, Looping, AtHand,
         InstallStaged, Carried
<1>6. Framed(a)
  <2>1. \A n \in Names \ NamesOf(a) : dir'[n] = dir[n]
    BY <1>1, <1>2, <1>4, OwnNames
       DEF InstallStaged, Rename, Remove, Directories, Target
  <2>2. undo' \in {undo, undo \cup {a}} /\ staged' \in {staged, staged \ {a}}
    BY <1>1, <1>2, <1>4 DEF InstallStaged, Undoable
  <2> QED
    BY <1>4, <2>1, <2>2, OnlyHere DEF Framed
<1>7. Recorded(a)'
  BY <1>1, <1>2, <1>3, <1>4, <1>5
     DEF Recorded, ByNow, Owing, Whole, Dated, Foreign, Staged, Target, Moves,
         InstallStaged, Undoable, Refused
<1>8. \/ Fail /\ dir' = Remove(Backup(a)) /\ undo' = undo /\ staged' = staged
      \/ /\ kind[a] = "add" /\ Done /\ dir[Source(a)] = None
         /\ dir' = Rename(Staged(a), Source(a)) /\ undo' = undo \cup {a}
         /\ staged' = staged \ {a}
      \/ /\ kind[a] = "move" /\ Goto("take") /\ dir[Moved(a)] = None
         /\ dir' = Rename(Staged(a), Moved(a)) /\ undo' = undo \cup {a}
         /\ staged' = staged \ {a}
  BY <1>1, <1>2, <1>4, <1>5, OwnNames
     DEF InstallStaged, Undoable, Refused, Intact, Copied, Target, Moves, Blocked,
         Remove
<1>9. CASE Fail /\ dir' = Remove(Backup(a)) /\ undo' = undo /\ staged' = staged
  <2>1. Handled(a)
    <3>1. Twice(Backup(a), Source(a))
      BY <1>1, <1>2, <1>3, <1>4, <1>5, <1>9, OwnNames
         DEF Intact, Has, Copied, Twice, At, Dispensable
    <3>2. dir' = RemoveAll({Backup(a)})
      BY <1>1, <1>2, <1>3, <1>4, <1>5, <1>9, OwnNames, RemoveOne
    <3> QED
      BY <1>1, <1>2, <1>3, <1>4, <1>5, <1>9, <3>1, <3>2, OwnNames, RemoveHandled
  <2>2. Owing' \subseteq Owing
    BY <1>6, OwedShrinks
  <2>3. (a \in undo' => Due(a)') /\ (a \notin undo' => Over(a)')
    BY <1>1, <1>2, <1>3, <1>4, <1>5, <1>9, <2>2, OwnNames
       DEF Due, Over, Intact, Has, Copied, Twice,
           At, Dispensable, Recorded, Remove, Directories, Rewrites, Patch, Owing,
           Whole, Foreign, Staged
  <2> QED
    BY <1>1, <1>2, <1>3, <1>6, <1>7, <1>9, <2>1, <2>3, FailsWhole
<1>10. CASE /\ kind[a] = "add" /\ Done /\ dir[Source(a)] = None
            /\ dir' = Rename(Staged(a), Source(a)) /\ undo' = undo \cup {a}
            /\ staged' = staged \ {a}
  <2>1. Handled(a)
    <3>1. Dispensable(Source(a))
      BY <1>1, <1>2, <1>3, <1>4, <1>5, <1>10 DEF Intact, Dispensable
    <3> QED
      BY <1>1, <1>2, <1>3, <1>4, <1>5, <1>10, <3>1, OwnNames, RenameHandled
  <2>2. Owing' \subseteq Owing
    BY <1>6, OwedShrinks
  <2>3. Carried(a)'
    BY <1>1, <1>2, <1>3, <1>4, <1>5, <1>10, <2>2, OwnNames
       DEF Intact, Has, Copied, Carried, At, Dispensable, Recorded, Rename,
           Directories, Rewrites, Patch, Owing, Whole, Foreign, Staged
  <2> QED
    BY <1>1, <1>2, <1>3, <1>6, <1>7, <1>10, <2>1, <2>3, IsDoneWhole
<1>11. CASE /\ kind[a] = "move" /\ Goto("take") /\ dir[Moved(a)] = None
            /\ dir' = Rename(Staged(a), Moved(a)) /\ undo' = undo \cup {a}
            /\ staged' = staged \ {a}
  <2>1. Handled(a)
    <3>1. Dispensable(Moved(a))
      BY <1>1, <1>2, <1>3, <1>4, <1>5, <1>11 DEF Intact, Dispensable
    <3> QED
      BY <1>1, <1>2, <1>3, <1>4, <1>5, <1>11, <3>1, OwnNames, RenameHandled
  <2>2. Owing' \subseteq Owing
    BY <1>6, OwedShrinks
  <2>3. AtHand(a)' /\ pc' \in Looping /\ at' = a
    BY <1>1, <1>2, <1>3, <1>4, <1>5, <1>11, <2>2, OwnNames
       DEF AtHand, Goto, Looping, Ready, Intact, Has, Copied, At, Dispensable,
           Unused, Recorded, Rename, Directories, Rewrites, Patch, Owing, Whole,
           Foreign, Staged
  <2> QED
    BY <1>1, <1>2, <1>3, <1>6, <1>7, <1>11, <2>1, <2>3, GoesOnWhole
<1> QED
  BY <1>8, <1>9, <1>10, <1>11

LEMMA InstallMoveWhole ==
  ASSUME TypeInv, Lossless, InstallMove
  PROVE  Lossless'
<1>1. PICK a \in Plan : at = a
  BY DEF TypeInv, TypeOK
<1>2. dir \in Directories /\ pc \in Looping /\ faults \in Nat
  BY BoundsAssumption
     DEF TypeInv, TypeOK, Directories, Looping, InstallMove
<1>3. Whole /\ Recorded(a) /\ ~Loose(a)
  BY <1>2, NothingLoose DEF Lossless
<1>4. /\ UNCHANGED <<kind, state, conflict, ctxDone, writes, owed, exposed>>
      /\ faults = 0 \/ faults' # 0
      /\ exposed \subseteq exposed'
  BY <1>2
     DEF InstallMove, Refused, planVars, patchVars, endVars, worldVars
<1>5. Intact(a) /\ Copied(a) /\ kind[a] = "rename"
  BY <1>1, <1>2
     DEF TypeInv, TypeOK, Lossless, Keeping, Looping, AtHand,
         InstallMove, Carried
<1>6. Framed(a)
  <2>1. \A n \in Names \ NamesOf(a) : dir'[n] = dir[n]
    BY <1>1, <1>2, <1>4, OwnNames DEF InstallMove, Rename, Remove, Directories, Target
  <2>2. undo' \in {undo, undo \cup {a}} /\ staged' \in {staged, staged \ {a}}
    BY <1>1, <1>2, <1>4 DEF InstallMove, patchVars
  <2> QED
    BY <1>4, <2>1, <2>2, OnlyHere DEF Framed
<1>7. Recorded(a)'
  BY <1>1, <1>2, <1>3, <1>4, <1>5
     DEF Recorded, ByNow, Owing, Whole, Dated, Foreign, Target, Moves, patchVars,
         InstallMove, Refused
<1>8. \/ Fail /\ dir' = Remove(Backup(a)) /\ undo' = undo /\ staged' = staged
      \/ /\ Goto("verify") /\ dir[Moved(a)] = None
         /\ dir' = Rename(Source(a), Moved(a)) /\ undo' = undo /\ staged' = staged
  BY <1>1, <1>2, <1>4, <1>5, OwnNames
     DEF InstallMove, Refused, Intact, Copied, Target, Moves, patchVars, Blocked,
         Remove
<1>9. CASE Fail /\ dir' = Remove(Backup(a)) /\ undo' = undo /\ staged' = staged
  <2>1. Handled(a)
    <3>1. Twice(Backup(a), Source(a))
      BY <1>1, <1>2, <1>3, <1>4, <1>5, <1>9, OwnNames
         DEF Intact, Has, Copied, Twice, At, Dispensable
    <3>2. dir' = RemoveAll({Backup(a)})
      BY <1>1, <1>2, <1>3, <1>4, <1>5, <1>9, OwnNames, RemoveOne
    <3> QED
      BY <1>1, <1>2, <1>3, <1>4, <1>5, <1>9, <3>1, <3>2, OwnNames, RemoveHandled
  <2>2. Owing' \subseteq Owing
    BY <1>6, OwedShrinks
  <2>3. (a \in undo' => Due(a)') /\ (a \notin undo' => Over(a)')
    BY <1>1, <1>2, <1>3, <1>4, <1>5, <1>9, <2>2, OwnNames
       DEF Due, Over, Intact, Has, Copied, Twice,
           At, Dispensable, Recorded, Remove, Directories, Rewrites, Patch, Owing,
           Whole, Foreign, Staged
  <2> QED
    BY <1>1, <1>2, <1>3, <1>6, <1>7, <1>9, <2>1, <2>3, FailsWhole
<1>10. CASE /\ Goto("verify") /\ dir[Moved(a)] = None
            /\ dir' = Rename(Source(a), Moved(a)) /\ undo' = undo
            /\ staged' = staged
  <2>1. Handled(a)
    <3>1. Dispensable(Moved(a))
      BY <1>1, <1>2, <1>3, <1>4, <1>5, <1>10 DEF Intact, Dispensable
    <3> QED
      BY <1>1, <1>2, <1>3, <1>4, <1>5, <1>10, <3>1, OwnNames, RenameHandled
  <2>2. Owing' \subseteq Owing
    BY <1>6, OwedShrinks
  <2>3. AtHand(a)' /\ pc' \in Looping /\ at' = a
    BY <1>1, <1>2, <1>3, <1>4, <1>5, <1>10, <2>2, OwnNames
       DEF AtHand, Goto, Looping, Ready, Intact, Has, Copied, At, Dispensable,
           Unused, Recorded, Rename, Directories, Rewrites, Patch, Owing, Whole,
           Foreign, Staged
  <2> QED
    BY <1>1, <1>2, <1>3, <1>6, <1>7, <1>10, <2>1, <2>3, GoesOnWhole
<1> QED
  BY <1>8, <1>9, <1>10

LEMMA InstallUpdateWhole ==
  ASSUME TypeInv, Lossless, InstallUpdate
  PROVE  Lossless'
<1>1. PICK a \in Plan : at = a
  BY DEF TypeInv, TypeOK
<1>2. dir \in Directories /\ pc \in Looping /\ faults \in Nat
  BY BoundsAssumption
     DEF TypeInv, TypeOK, Directories, Looping, InstallUpdate
<1>3. Whole /\ Recorded(a) /\ ~Loose(a)
  BY <1>2, NothingLoose DEF Lossless
<1>4. /\ UNCHANGED <<kind, state, conflict, ctxDone, writes, owed, exposed>>
      /\ faults = 0 \/ faults' # 0
      /\ exposed \subseteq exposed'
  BY <1>2
     DEF InstallUpdate, Refused, planVars, patchVars, endVars, worldVars
<1>5. Intact(a) /\ Copied(a) /\ kind[a] = "update"
  BY <1>1, <1>2
     DEF TypeInv, TypeOK, Lossless, Keeping, Looping, AtHand,
         InstallUpdate, Carried
<1>6. Framed(a)
  <2>1. \A n \in Names \ NamesOf(a) : dir'[n] = dir[n]
    BY <1>1, <1>2, <1>4, OwnNames DEF InstallUpdate, Remove, Exchange, Directories
  <2>2. undo' \in {undo, undo \cup {a}} /\ staged' \in {staged, staged \ {a}}
    BY <1>1, <1>2, <1>4 DEF InstallUpdate, patchVars
  <2> QED
    BY <1>4, <2>1, <2>2, OnlyHere DEF Framed
<1>7. Recorded(a)'
  BY <1>1, <1>2, <1>3, <1>4, <1>5
     DEF Recorded, ByNow, Owing, Whole, Dated, Foreign, Staged, patchVars,
         InstallUpdate, Refused
<1>8. \/ Fail /\ dir' = Remove(Backup(a)) /\ undo' = undo /\ staged' = staged
      \/ Goto("verify") /\ dir' = Exchange(Staged(a), Source(a)) /\ undo' = undo
  BY <1>1, <1>2, <1>4, <1>5, OwnNames
     DEF InstallUpdate, Refused, Intact, Copied, patchVars, Remove
<1>9. CASE Fail /\ dir' = Remove(Backup(a)) /\ undo' = undo /\ staged' = staged
  <2>1. Handled(a)
    <3>1. Twice(Backup(a), Source(a))
      BY <1>1, <1>2, <1>3, <1>4, <1>5, <1>9, OwnNames
         DEF Intact, Has, Copied, Twice, At, Dispensable
    <3>2. dir' = RemoveAll({Backup(a)})
      BY <1>1, <1>2, <1>3, <1>4, <1>5, <1>9, OwnNames, RemoveOne
    <3> QED
      BY <1>1, <1>2, <1>3, <1>4, <1>5, <1>9, <3>1, <3>2, OwnNames, RemoveHandled
  <2>2. Owing' \subseteq Owing
    BY <1>6, OwedShrinks
  <2>3. (a \in undo' => Due(a)') /\ (a \notin undo' => Over(a)')
    BY <1>1, <1>2, <1>3, <1>4, <1>5, <1>9, <2>2, OwnNames
       DEF Due, Over, Intact, Has, Copied, Twice,
           At, Dispensable, Recorded, Remove, Directories, Rewrites, Patch, Owing,
           Whole, Foreign, Staged
  <2> QED
    BY <1>1, <1>2, <1>3, <1>6, <1>7, <1>9, <2>1, <2>3, FailsWhole
<1>10. CASE Goto("verify") /\ dir' = Exchange(Staged(a), Source(a)) /\ undo' = undo
  <2>1. Handled(a)
    BY <1>1, <1>2, <1>3, <1>4, <1>5, <1>10, OwnNames, ExchangeHandled
  <2>2. Owing' \subseteq Owing
    BY <1>6, OwedShrinks
  <2>3. AtHand(a)' /\ pc' \in Looping /\ at' = a
    BY <1>1, <1>2, <1>3, <1>4, <1>5, <1>10, <2>2, OwnNames
       DEF AtHand, Goto, Looping, Ready, Intact, Has, Copied, At, Dispensable,
           Unused, Recorded, Exchange, Directories, Rewrites, Patch, Owing, Whole,
           Foreign, Staged
  <2> QED
    BY <1>1, <1>2, <1>3, <1>6, <1>7, <1>10, <2>1, <2>3, GoesOnWhole
<1> QED
  BY <1>8, <1>9, <1>10

LEMMA VerifyMoveWhole ==
  ASSUME TypeInv, Lossless, VerifyMove
  PROVE  Lossless'
<1>1. PICK a \in Plan : at = a
  BY DEF TypeInv, TypeOK
<1>2. dir \in Directories /\ pc \in Looping /\ faults \in Nat
  BY BoundsAssumption
     DEF TypeInv, TypeOK, Directories, Looping, VerifyMove
<1>3. Whole /\ Recorded(a) /\ ~Loose(a)
  BY <1>2, NothingLoose DEF Lossless
<1>4. /\ UNCHANGED <<kind, state, conflict, ctxDone, writes, owed, exposed>>
      /\ faults = 0 \/ faults' # 0
      /\ exposed \subseteq exposed'
  BY <1>2 DEF VerifyMove, Refused, planVars, endVars, worldVars
<1>5. /\ kind[a] = "rename" /\ Copied(a) /\ Has(Moved(a), a)
      /\ a \notin staged /\ a \notin undo
  BY <1>1, <1>2
     DEF TypeInv, TypeOK, Lossless, Keeping, Looping, AtHand,
         VerifyMove, Carried
<1>6. Framed(a)
  <2>1. \A n \in Names \ NamesOf(a) : dir'[n] = dir[n]
    BY <1>1, <1>2, <1>4, OwnNames DEF VerifyMove, Directories, Target
  <2>2. undo' \in {undo, undo \cup {a}} /\ staged' \in {staged, staged \ {a}}
    BY <1>1, <1>2, <1>4 DEF VerifyMove, Undoable
  <2> QED
    BY <1>4, <2>1, <2>2, OnlyHere DEF Framed
<1>7. Recorded(a)'
  BY <1>1, <1>2, <1>3, <1>4, <1>5
     DEF Recorded, ByNow, Owing, Whole, Dated, Foreign, Target, Moves, VerifyMove,
         Undoable
<1>8. \/ Done /\ dir' = dir /\ undo' = undo \cup {a} /\ staged' = staged
      \/ Goto("moveBack") /\ dir' = dir /\ undo' = undo /\ staged' = staged
  BY <1>1, <1>2, <1>4, <1>5, OwnNames DEF VerifyMove, Refused, Undoable, Copied, Target, Moves
<1>9. CASE Done /\ dir' = dir /\ undo' = undo \cup {a} /\ staged' = staged
  <2>1. Handled(a)
    BY <1>1, <1>2, <1>3, <1>4, <1>5, <1>9, SameHandled
  <2>2. Owing' \subseteq Owing
    BY <1>6, OwedShrinks
  <2>3. Carried(a)'
    BY <1>1, <1>2, <1>3, <1>4, <1>5, <1>9, <2>2, OwnNames
       DEF Has, Copied, Carried, At, Recorded, Directories, Rewrites, Patch, Owing,
           Whole, Foreign, Staged
  <2> QED
    BY <1>1, <1>2, <1>3, <1>6, <1>7, <1>9, <2>1, <2>3, IsDoneWhole
<1>10. CASE Goto("moveBack") /\ dir' = dir /\ undo' = undo /\ staged' = staged
  <2>1. Handled(a)
    BY <1>1, <1>2, <1>3, <1>4, <1>5, <1>10, SameHandled
  <2>2. Owing' \subseteq Owing
    BY <1>6, OwedShrinks
  <2>3. AtHand(a)' /\ pc' \in Looping /\ at' = a
    BY <1>1, <1>2, <1>3, <1>4, <1>5, <1>10, <2>2, OwnNames
       DEF AtHand, Goto, Looping, Ready, Intact, Has, Copied, At, Dispensable,
           Unused, Recorded, Directories, Rewrites, Patch, Owing, Whole, Foreign,
           Staged
  <2> QED
    BY <1>1, <1>2, <1>3, <1>6, <1>7, <1>10, <2>1, <2>3, GoesOnWhole
<1> QED
  BY <1>8, <1>9, <1>10

LEMMA MoveBackWhole ==
  ASSUME TypeInv, Lossless, MoveBack
  PROVE  Lossless'
<1>1. PICK a \in Plan : at = a
  BY DEF TypeInv, TypeOK
<1>2. dir \in Directories /\ pc \in Looping /\ faults \in Nat
  BY BoundsAssumption
     DEF TypeInv, TypeOK, Directories, Looping, MoveBack
<1>3. Whole /\ Recorded(a) /\ ~Loose(a)
  BY <1>2, NothingLoose DEF Lossless
<1>4. /\ UNCHANGED <<kind, state, conflict, ctxDone, writes, owed, exposed>>
      /\ faults = 0 \/ faults' # 0
      /\ exposed \subseteq exposed'
  BY <1>2 DEF MoveBack, Refused, planVars, patchVars, endVars, worldVars
<1>5. kind[a] = "rename" /\ a \notin staged /\ a \notin undo
  BY <1>1, <1>2
     DEF TypeInv, TypeOK, Lossless, Keeping, Looping, AtHand,
         MoveBack, Carried
<1>6. Framed(a)
  <2>1. \A n \in Names \ NamesOf(a) : dir'[n] = dir[n]
    BY <1>1, <1>2, <1>4, OwnNames DEF MoveBack, Rename, Directories, Target
  <2>2. undo' \in {undo, undo \cup {a}} /\ staged' \in {staged, staged \ {a}}
    BY <1>1, <1>2, <1>4 DEF MoveBack, patchVars
  <2> QED
    BY <1>4, <2>1, <2>2, OnlyHere DEF Framed
<1>7. Recorded(a)'
  BY <1>1, <1>2, <1>3, <1>4, <1>5
     DEF Recorded, ByNow, Owing, Whole, Dated, Foreign, Target, Moves, patchVars,
         MoveBack, Refused
<1>8. \/ Fail /\ dir' = dir /\ undo' = undo /\ staged' = staged
      \/ /\ Fail /\ dir[Source(a)] = None /\ dir' = Rename(Moved(a), Source(a))
         /\ undo' = undo /\ staged' = staged
  BY <1>1, <1>2, <1>4, <1>5, OwnNames
     DEF MoveBack, Refused, Target, Moves, patchVars, Blocked
<1>9. CASE Fail /\ dir' = dir /\ undo' = undo /\ staged' = staged
  <2>1. Handled(a)
    BY <1>1, <1>2, <1>3, <1>4, <1>5, <1>9, SameHandled
  <2>2. Owing' \subseteq Owing
    BY <1>6, OwedShrinks
  <2>3. (a \in undo' => Due(a)') /\ (a \notin undo' => Over(a)')
    BY <1>1, <1>2, <1>3, <1>4, <1>5, <1>9, <2>2, OwnNames
       DEF Due, Over, Copied, Twice, At,
           Dispensable, Recorded, Directories, Rewrites, Patch, Owing, Whole, Foreign,
           Staged
  <2> QED
    BY <1>1, <1>2, <1>3, <1>6, <1>7, <1>9, <2>1, <2>3, FailsWhole
<1>10. CASE /\ Fail /\ dir[Source(a)] = None /\ dir' = Rename(Moved(a), Source(a))
            /\ undo' = undo /\ staged' = staged
  <2>1. Handled(a)
    <3>1. Dispensable(Source(a))
      BY <1>1, <1>2, <1>3, <1>4, <1>5, <1>10 DEF Dispensable
    <3> QED
      BY <1>1, <1>2, <1>3, <1>4, <1>5, <1>10, <3>1, OwnNames, RenameHandled
  <2>2. Owing' \subseteq Owing
    BY <1>6, OwedShrinks
  <2>3. (a \in undo' => Due(a)') /\ (a \notin undo' => Over(a)')
    BY <1>1, <1>2, <1>3, <1>4, <1>5, <1>10, <2>2, OwnNames
       DEF Due, Over, Copied, Twice, At,
           Dispensable, Recorded, Rename, Directories, Rewrites, Patch, Owing, Whole,
           Foreign, Staged
  <2> QED
    BY <1>1, <1>2, <1>3, <1>6, <1>7, <1>10, <2>1, <2>3, FailsWhole
<1> QED
  BY <1>8, <1>9, <1>10

LEMMA VerifyUpdateWhole ==
  ASSUME TypeInv, Lossless, VerifyUpdate
  PROVE  Lossless'
<1>1. PICK a \in Plan : at = a
  BY DEF TypeInv, TypeOK
<1>2. dir \in Directories /\ pc \in Looping /\ faults \in Nat
  BY BoundsAssumption
     DEF TypeInv, TypeOK, Directories, Looping, VerifyUpdate
<1>3. Whole /\ Recorded(a) /\ ~Loose(a)
  BY <1>2, NothingLoose DEF Lossless
<1>4. /\ UNCHANGED <<kind, state, conflict, ctxDone, writes, owed, exposed>>
      /\ faults = 0 \/ faults' # 0
      /\ exposed \subseteq exposed'
  BY <1>2 DEF VerifyUpdate, Refused, planVars, endVars, worldVars
<1>5. kind[a] = "update" /\ Copied(a) /\ a \notin undo /\ state[a] # None
  BY <1>1, <1>2
     DEF TypeInv, TypeOK, Lossless, Keeping, Looping, AtHand,
         VerifyUpdate, Carried
<1>6. Framed(a)
  <2>1. \A n \in Names \ NamesOf(a) : dir'[n] = dir[n]
    BY <1>1, <1>2, <1>4, OwnNames DEF VerifyUpdate, Remove, Directories
  <2>2. undo' \in {undo, undo \cup {a}} /\ staged' \in {staged, staged \ {a}}
    BY <1>1, <1>2, <1>4 DEF VerifyUpdate, Undoable
  <2> QED
    BY <1>4, <2>1, <2>2, OnlyHere DEF Framed
<1>7. Recorded(a)'
  BY <1>1, <1>2, <1>3, <1>4, <1>5
     DEF Recorded, ByNow, Owing, Whole, Dated, Foreign, Patch, Staged, VerifyUpdate,
         Undoable, Refused, Live, Displaced
<1>8. \/ /\ Done /\ dir[Staged(a)] = state[a] /\ dir' = Remove(Staged(a))
         /\ undo' = undo \cup {a} /\ staged' = staged \ {a}
      \/ Fail /\ dir' = dir /\ undo' = undo \cup {a} /\ staged' = staged \ {a}
      \/ Goto("swapBack") /\ dir[Source(a)] = Patch(a) /\ dir' = dir /\ undo' = undo
      \/ Fail /\ dir' = dir /\ undo' = undo /\ staged' = staged \ {a}
  BY <1>1, <1>2, <1>4, <1>5, OwnNames
     DEF VerifyUpdate, Undoable, Refused, Live, Displaced, Copied, Remove
<1>9. CASE /\ Done /\ dir[Staged(a)] = state[a] /\ dir' = Remove(Staged(a))
           /\ undo' = undo \cup {a} /\ staged' = staged \ {a}
  <2>1. Handled(a)
    <3>1. Twice(Staged(a), Backup(a))
      BY <1>1, <1>2, <1>3, <1>4, <1>5, <1>9, OwnNames, BackupThere
         DEF Copied, Twice, At
    <3>2. dir' = RemoveAll({Staged(a)})
      BY <1>1, <1>2, <1>3, <1>4, <1>5, <1>9, OwnNames, RemoveOne
    <3> QED
      BY <1>1, <1>2, <1>3, <1>4, <1>5, <1>9, <3>1, <3>2, OwnNames, RemoveHandled
  <2>2. Owing' \subseteq Owing
    BY <1>6, OwedShrinks
  <2>3. Carried(a)'
    BY <1>1, <1>2, <1>3, <1>4, <1>5, <1>9, <2>2, OwnNames
       DEF Has, Copied, Carried, At, Recorded, Remove, Directories, Rewrites, Patch,
           Owing, Whole, Foreign, Staged
  <2> QED
    BY <1>1, <1>2, <1>3, <1>6, <1>7, <1>9, <2>1, <2>3, IsDoneWhole
<1>10. CASE Fail /\ dir' = dir /\ undo' = undo \cup {a} /\ staged' = staged \ {a}
  <2>1. Handled(a)
    BY <1>1, <1>2, <1>3, <1>4, <1>5, <1>10, SameHandled
  <2>2. Owing' \subseteq Owing
    BY <1>6, OwedShrinks
  <2>3. (a \in undo' => Due(a)') /\ (a \notin undo' => Over(a)')
    BY <1>1, <1>2, <1>3, <1>4, <1>5, <1>10, <2>2, OwnNames
       DEF Due, Over, Copied, Twice, At,
           Dispensable, Recorded, Directories, Rewrites, Patch, Owing, Whole, Foreign,
           Staged
  <2> QED
    BY <1>1, <1>2, <1>3, <1>6, <1>7, <1>10, <2>1, <2>3, FailsWhole
<1>11. CASE /\ Goto("swapBack") /\ dir[Source(a)] = Patch(a) /\ dir' = dir
            /\ undo' = undo
  <2>1. Handled(a)
    BY <1>1, <1>2, <1>3, <1>4, <1>5, <1>11, SameHandled
  <2>2. Owing' \subseteq Owing
    BY <1>6, OwedShrinks
  <2>3. AtHand(a)' /\ pc' \in Looping /\ at' = a
    BY <1>1, <1>2, <1>3, <1>4, <1>5, <1>11, <2>2, OwnNames
       DEF AtHand, Goto, Looping, Ready, Intact, Has, Copied, At, Dispensable,
           Unused, Recorded, Directories, Rewrites, Patch, Owing, Whole, Foreign,
           Staged
  <2> QED
    BY <1>1, <1>2, <1>3, <1>6, <1>7, <1>11, <2>1, <2>3, GoesOnWhole
<1>12. CASE Fail /\ dir' = dir /\ undo' = undo /\ staged' = staged \ {a}
  <2>1. Handled(a)
    BY <1>1, <1>2, <1>3, <1>4, <1>5, <1>12, SameHandled
  <2>2. Owing' \subseteq Owing
    BY <1>6, OwedShrinks
  <2>3. (a \in undo' => Due(a)') /\ (a \notin undo' => Over(a)')
    BY <1>1, <1>2, <1>3, <1>4, <1>5, <1>12, <2>2, OwnNames
       DEF Due, Over, Copied, Twice, At,
           Dispensable, Recorded, Directories, Rewrites, Patch, Owing, Whole, Foreign,
           Staged
  <2> QED
    BY <1>1, <1>2, <1>3, <1>6, <1>7, <1>12, <2>1, <2>3, FailsWhole
<1> QED
  BY <1>8, <1>9, <1>10, <1>11, <1>12

LEMMA SwapBackWhole ==
  ASSUME TypeInv, Lossless, SwapBack
  PROVE  Lossless'
<1>1. PICK a \in Plan : at = a
  BY DEF TypeInv, TypeOK
<1>2. dir \in Directories /\ pc \in Looping /\ faults \in Nat
  BY BoundsAssumption
     DEF TypeInv, TypeOK, Directories, Looping, SwapBack
<1>3. Whole /\ Recorded(a) /\ ~Loose(a)
  BY <1>2, NothingLoose DEF Lossless
<1>4. /\ UNCHANGED <<kind, state, conflict, ctxDone, writes, owed, exposed>>
      /\ faults = 0 \/ faults' # 0
      /\ exposed \subseteq exposed'
  BY <1>2 DEF SwapBack, Refused, planVars, endVars, worldVars
<1>5. kind[a] = "update" /\ Dispensable(Source(a)) /\ a \notin undo
  BY <1>1, <1>2
     DEF TypeInv, TypeOK, Lossless, Keeping, Looping, AtHand,
         SwapBack, Carried
<1>6. Framed(a)
  <2>1. \A n \in Names \ NamesOf(a) : dir'[n] = dir[n]
    BY <1>1, <1>2, <1>4, OwnNames DEF SwapBack, Exchange, Directories
  <2>2. undo' \in {undo, undo \cup {a}} /\ staged' \in {staged, staged \ {a}}
    BY <1>1, <1>2, <1>4 DEF SwapBack
  <2> QED
    BY <1>4, <2>1, <2>2, OnlyHere DEF Framed
<1>7. Recorded(a)'
  BY <1>1, <1>2, <1>3, <1>4, <1>5
     DEF Recorded, ByNow, Owing, Whole, Dated, Foreign, Staged, SwapBack, Refused
<1>8. \/ Fail /\ dir' = Exchange(Staged(a), Source(a)) /\ undo' = undo
      \/ Fail /\ dir' = dir /\ undo' = undo /\ staged' = staged \ {a}
  BY <1>1, <1>2, <1>4, <1>5, OwnNames DEF SwapBack, Refused
<1>9. CASE Fail /\ dir' = Exchange(Staged(a), Source(a)) /\ undo' = undo
  <2>1. Handled(a)
    BY <1>1, <1>2, <1>3, <1>4, <1>5, <1>9, OwnNames, ExchangeHandled
  <2>2. Owing' \subseteq Owing
    BY <1>6, OwedShrinks
  <2>3. (a \in undo' => Due(a)') /\ (a \notin undo' => Over(a)')
    BY <1>1, <1>2, <1>3, <1>4, <1>5, <1>9, <2>2, OwnNames
       DEF Due, Over, Copied, Twice, At,
           Dispensable, Recorded, Exchange, Directories, Rewrites, Patch, Owing,
           Whole, Foreign, Staged
  <2> QED
    BY <1>1, <1>2, <1>3, <1>6, <1>7, <1>9, <2>1, <2>3, FailsWhole
<1>10. CASE Fail /\ dir' = dir /\ undo' = undo /\ staged' = staged \ {a}
  <2>1. Handled(a)
    BY <1>1, <1>2, <1>3, <1>4, <1>5, <1>10, SameHandled
  <2>2. Owing' \subseteq Owing
    BY <1>6, OwedShrinks
  <2>3. (a \in undo' => Due(a)') /\ (a \notin undo' => Over(a)')
    BY <1>1, <1>2, <1>3, <1>4, <1>5, <1>10, <2>2, OwnNames
       DEF Due, Over, Copied, Twice, At,
           Dispensable, Recorded, Directories, Rewrites, Patch, Owing, Whole, Foreign,
           Staged
  <2> QED
    BY <1>1, <1>2, <1>3, <1>6, <1>7, <1>10, <2>1, <2>3, FailsWhole
<1> QED
  BY <1>8, <1>9, <1>10

LEMMA TakeSourceWhole ==
  ASSUME TypeInv, Lossless, TakeSource
  PROVE  Lossless'
<1>1. PICK a \in Plan : at = a
  BY DEF TypeInv, TypeOK
<1>2. dir \in Directories /\ pc \in Looping /\ faults \in Nat
  BY BoundsAssumption
     DEF TypeInv, TypeOK, Directories, Looping, TakeSource
<1>3. Whole /\ Recorded(a) /\ ~Loose(a)
  BY <1>2, NothingLoose DEF Lossless
<1>4. /\ UNCHANGED <<kind, state, conflict, ctxDone, writes, owed, exposed>>
      /\ faults = 0 \/ faults' # 0
      /\ exposed \subseteq exposed'
  BY <1>2 DEF TakeSource, Refused, planVars, endVars, worldVars
<1>5. /\ Copied(a) /\ Has(Source(a), a) /\ dir[Removed(a)] = None
      /\ kind[a] \in {"delete", "move"} /\ a \notin staged /\ ((kind[a] = "move") <=> (a \in undo))
  BY <1>1, <1>2
     DEF TypeInv, TypeOK, Lossless, Keeping, Looping, AtHand,
         TakeSource, Carried
<1>6. Framed(a)
  <2>1. \A n \in Names \ NamesOf(a) : dir'[n] = dir[n]
    BY <1>1, <1>2, <1>4, OwnNames DEF TakeSource, TakeFails, Rename, Directories
  <2>2. undo' \in {undo, undo \cup {a}} /\ staged' \in {staged, staged \ {a}}
    BY <1>1, <1>2, <1>4 DEF TakeSource, TakeFails
  <2> QED
    BY <1>4, <2>1, <2>2, OnlyHere DEF Framed
<1>7. Recorded(a)'
  BY <1>1, <1>2, <1>3, <1>4, <1>5
     DEF Recorded, ByNow, Owing, Whole, Dated, Foreign, TakeSource, Refused, TakeFails
<1>8. \/ /\ Goto("settle") /\ dir' = Rename(Source(a), Removed(a)) /\ undo' = undo
         /\ staged' = staged
      \/ /\ kind[a] = "delete" /\ Fail /\ dir' = Remove(Backup(a)) /\ undo' = undo
         /\ staged' = staged
      \/ kind[a] = "move" /\ Fail /\ dir' = dir /\ undo' = undo /\ staged' = staged
  BY <1>1, <1>2, <1>4, <1>5, OwnNames
     DEF TakeSource, Refused, TakeFails, Copied, Blocked, Remove
<1>9. CASE /\ Goto("settle") /\ dir' = Rename(Source(a), Removed(a)) /\ undo' = undo
           /\ staged' = staged
  <2>1. Handled(a)
    <3>1. Dispensable(Removed(a))
      BY <1>1, <1>2, <1>3, <1>4, <1>5, <1>9 DEF Dispensable
    <3> QED
      BY <1>1, <1>2, <1>3, <1>4, <1>5, <1>9, <3>1, OwnNames, RenameHandled
  <2>2. Owing' \subseteq Owing
    BY <1>6, OwedShrinks
  <2>3. AtHand(a)' /\ pc' \in Looping /\ at' = a
    BY <1>1, <1>2, <1>3, <1>4, <1>5, <1>9, <2>2, OwnNames
       DEF AtHand, Goto, Looping, Ready, Intact, Has, Copied, At, Dispensable,
           Unused, Recorded, Rename, Directories, Rewrites, Patch, Owing, Whole,
           Foreign, Staged
  <2> QED
    BY <1>1, <1>2, <1>3, <1>6, <1>7, <1>9, <2>1, <2>3, GoesOnWhole
<1>10. CASE /\ kind[a] = "delete" /\ Fail /\ dir' = Remove(Backup(a))
            /\ undo' = undo /\ staged' = staged
  <2>1. Handled(a)
    <3>1. Twice(Backup(a), Source(a))
      BY <1>1, <1>2, <1>3, <1>4, <1>5, <1>10, OwnNames DEF Has, Copied, Twice, At
    <3>2. dir' = RemoveAll({Backup(a)})
      BY <1>1, <1>2, <1>3, <1>4, <1>5, <1>10, OwnNames, RemoveOne
    <3> QED
      BY <1>1, <1>2, <1>3, <1>4, <1>5, <1>10, <3>1, <3>2, OwnNames, RemoveHandled
  <2>2. Owing' \subseteq Owing
    BY <1>6, OwedShrinks
  <2>3. (a \in undo' => Due(a)') /\ (a \notin undo' => Over(a)')
    BY <1>1, <1>2, <1>3, <1>4, <1>5, <1>10, <2>2, OwnNames
       DEF Due, Over, Has, Copied, Twice, At,
           Dispensable, Recorded, Remove, Directories, Rewrites, Patch, Owing, Whole,
           Foreign, Staged
  <2> QED
    BY <1>1, <1>2, <1>3, <1>6, <1>7, <1>10, <2>1, <2>3, FailsWhole
<1>11. CASE /\ kind[a] = "move" /\ Fail /\ dir' = dir /\ undo' = undo
            /\ staged' = staged
  <2>1. Handled(a)
    BY <1>1, <1>2, <1>3, <1>4, <1>5, <1>11, SameHandled
  <2>2. Owing' \subseteq Owing
    BY <1>6, OwedShrinks
  <2>3. (a \in undo' => Due(a)') /\ (a \notin undo' => Over(a)')
    BY <1>1, <1>2, <1>3, <1>4, <1>5, <1>11, <2>2, OwnNames
       DEF Due, Over, Has, Copied, Twice, At,
           Dispensable, Recorded, Directories, Rewrites, Patch, Owing, Whole, Foreign,
           Staged
  <2> QED
    BY <1>1, <1>2, <1>3, <1>6, <1>7, <1>11, <2>1, <2>3, FailsWhole
<1> QED
  BY <1>8, <1>9, <1>10, <1>11

LEMMA SettleSourceWhole ==
  ASSUME TypeInv, Lossless, SettleSource
  PROVE  Lossless'
<1>1. PICK a \in Plan : at = a
  BY DEF TypeInv, TypeOK
<1>2. dir \in Directories /\ pc \in Looping /\ faults \in Nat
  BY BoundsAssumption
     DEF TypeInv, TypeOK, Directories, Looping, SettleSource
<1>3. Whole /\ Recorded(a) /\ ~Loose(a)
  BY <1>2, NothingLoose DEF Lossless
<1>4. /\ UNCHANGED <<kind, state, conflict, ctxDone, writes, owed, exposed>>
      /\ faults = 0 \/ faults' # 0
      /\ exposed \subseteq exposed'
  BY <1>2 DEF SettleSource, Refused, planVars, endVars, worldVars
<1>5. /\ Copied(a) /\ Has(Removed(a), a) /\ state[a] # None
      /\ kind[a] \in {"delete", "move"} /\ a \notin staged /\ ((kind[a] = "move") <=> (a \in undo))
  BY <1>1, <1>2
     DEF TypeInv, TypeOK, Lossless, Keeping, Looping, AtHand,
         SettleSource, Carried
<1>6. Framed(a)
  <2>1. \A n \in Names \ NamesOf(a) : dir'[n] = dir[n]
    BY <1>1, <1>2, <1>4, OwnNames
       DEF SettleSource, TakeFails, Rename, Remove, Directories
  <2>2. undo' \in {undo, undo \cup {a}} /\ staged' \in {staged, staged \ {a}}
    BY <1>1, <1>2, <1>4 DEF SettleSource, Undoable, TakeFails
  <2> QED
    BY <1>4, <2>1, <2>2, OnlyHere DEF Framed
<1>7. Recorded(a)'
  BY <1>1, <1>2, <1>3, <1>4, <1>5
     DEF Recorded, ByNow, Owing, Whole, Dated, Foreign, SettleSource, Unwanted,
         Undoable, Refused, TakeFails
<1>8. \/ /\ Done /\ dir[Removed(a)] = state[a] /\ dir' = Remove(Removed(a))
         /\ undo' = undo \cup {a} /\ staged' = staged
      \/ /\ kind[a] = "delete" /\ Fail /\ dir' = Remove(Backup(a)) /\ undo' = undo
         /\ staged' = staged
      \/ kind[a] = "move" /\ Fail /\ dir' = dir /\ undo' = undo /\ staged' = staged
      \/ Goto("putBack") /\ dir' = dir /\ undo' = undo /\ staged' = staged
  BY <1>1, <1>2, <1>4, <1>5, OwnNames
     DEF SettleSource, Unwanted, Undoable, Refused, TakeFails, Copied, Remove
<1>9. CASE /\ Done /\ dir[Removed(a)] = state[a] /\ dir' = Remove(Removed(a))
           /\ undo' = undo \cup {a} /\ staged' = staged
  <2>1. Handled(a)
    <3>1. Twice(Removed(a), Backup(a))
      BY <1>1, <1>2, <1>3, <1>4, <1>5, <1>9, OwnNames, BackupThere
         DEF Has, Copied, Twice, At
    <3>2. dir' = RemoveAll({Removed(a)})
      BY <1>1, <1>2, <1>3, <1>4, <1>5, <1>9, OwnNames, RemoveOne
    <3> QED
      BY <1>1, <1>2, <1>3, <1>4, <1>5, <1>9, <3>1, <3>2, OwnNames, RemoveHandled
  <2>2. Owing' \subseteq Owing
    BY <1>6, OwedShrinks
  <2>3. Carried(a)'
    BY <1>1, <1>2, <1>3, <1>4, <1>5, <1>9, <2>2, OwnNames
       DEF Has, Copied, Carried, At, Recorded, Remove, Directories, Rewrites, Patch,
           Owing, Whole, Foreign, Staged
  <2> QED
    BY <1>1, <1>2, <1>3, <1>6, <1>7, <1>9, <2>1, <2>3, IsDoneWhole
<1>10. CASE /\ kind[a] = "delete" /\ Fail /\ dir' = Remove(Backup(a))
            /\ undo' = undo /\ staged' = staged
  <2>1. Handled(a)
    <3>1. Twice(Backup(a), Removed(a))
      BY <1>1, <1>2, <1>3, <1>4, <1>5, <1>10, OwnNames DEF Has, Copied, Twice, At
    <3>2. dir' = RemoveAll({Backup(a)})
      BY <1>1, <1>2, <1>3, <1>4, <1>5, <1>10, OwnNames, RemoveOne
    <3> QED
      BY <1>1, <1>2, <1>3, <1>4, <1>5, <1>10, <3>1, <3>2, OwnNames, RemoveHandled
  <2>2. Owing' \subseteq Owing
    BY <1>6, OwedShrinks
  <2>3. (a \in undo' => Due(a)') /\ (a \notin undo' => Over(a)')
    BY <1>1, <1>2, <1>3, <1>4, <1>5, <1>10, <2>2, OwnNames
       DEF Due, Over, Has, Copied, Twice, At,
           Dispensable, Recorded, Remove, Directories, Rewrites, Patch, Owing, Whole,
           Foreign, Staged
  <2> QED
    BY <1>1, <1>2, <1>3, <1>6, <1>7, <1>10, <2>1, <2>3, FailsWhole
<1>11. CASE /\ kind[a] = "move" /\ Fail /\ dir' = dir /\ undo' = undo
            /\ staged' = staged
  <2>1. Handled(a)
    BY <1>1, <1>2, <1>3, <1>4, <1>5, <1>11, SameHandled
  <2>2. Owing' \subseteq Owing
    BY <1>6, OwedShrinks
  <2>3. (a \in undo' => Due(a)') /\ (a \notin undo' => Over(a)')
    BY <1>1, <1>2, <1>3, <1>4, <1>5, <1>11, <2>2, OwnNames
       DEF Due, Over, Has, Copied, Twice, At,
           Dispensable, Recorded, Directories, Rewrites, Patch, Owing, Whole, Foreign,
           Staged
  <2> QED
    BY <1>1, <1>2, <1>3, <1>6, <1>7, <1>11, <2>1, <2>3, FailsWhole
<1>12. CASE Goto("putBack") /\ dir' = dir /\ undo' = undo /\ staged' = staged
  <2>1. Handled(a)
    BY <1>1, <1>2, <1>3, <1>4, <1>5, <1>12, SameHandled
  <2>2. Owing' \subseteq Owing
    BY <1>6, OwedShrinks
  <2>3. AtHand(a)' /\ pc' \in Looping /\ at' = a
    BY <1>1, <1>2, <1>3, <1>4, <1>5, <1>12, <2>2, OwnNames
       DEF AtHand, Goto, Looping, Has, Copied, At
  <2> QED
    BY <1>1, <1>2, <1>3, <1>6, <1>7, <1>12, <2>1, <2>3, GoesOnWhole
<1> QED
  BY <1>8, <1>9, <1>10, <1>11, <1>12

LEMMA PutBackWhole ==
  ASSUME TypeInv, Lossless, PutBack
  PROVE  Lossless'
<1>1. PICK a \in Plan : at = a
  BY DEF TypeInv, TypeOK
<1>2. dir \in Directories /\ pc \in Looping /\ faults \in Nat
  BY BoundsAssumption
     DEF TypeInv, TypeOK, Directories, Looping, PutBack
<1>3. Whole /\ Recorded(a) /\ ~Loose(a)
  BY <1>2, NothingLoose DEF Lossless
<1>4. /\ UNCHANGED <<kind, state, conflict, ctxDone, writes, owed, exposed>>
      /\ faults = 0 \/ faults' # 0
      /\ exposed \subseteq exposed'
  BY <1>2 DEF PutBack, Refused, planVars, endVars, worldVars
<1>5. /\ Copied(a) /\ Has(Removed(a), a) /\ state[a] # None
      /\ kind[a] \in {"delete", "move"} /\ a \notin staged /\ ((kind[a] = "move") <=> (a \in undo))
  BY <1>1, <1>2
     DEF TypeInv, TypeOK, Lossless, Keeping, Looping, AtHand,
         PutBack, Carried
<1>6. Framed(a)
  <2>1. \A n \in Names \ NamesOf(a) : dir'[n] = dir[n]
    BY <1>1, <1>2, <1>4, OwnNames
       DEF PutBack, TakeFails, Rename, Remove, Directories
  <2>2. undo' \in {undo, undo \cup {a}} /\ staged' \in {staged, staged \ {a}}
    BY <1>1, <1>2, <1>4 DEF PutBack,  TakeFails
  <2> QED
    BY <1>4, <2>1, <2>2, OnlyHere DEF Framed
<1>7. Recorded(a)'
  BY <1>1, <1>2, <1>3, <1>4, <1>5
     DEF Recorded, ByNow, Owing, Whole, Dated, Foreign, PutBack, Refused, TakeFails
<1>8. \/ /\ kind[a] = "delete" /\ Fail /\ dir' = Remove(Backup(a)) /\ undo' = undo
         /\ staged' = staged
      \/ kind[a] = "move" /\ Fail /\ dir' = dir /\ undo' = undo /\ staged' = staged
      \/ /\ kind[a] = "delete" /\ Fail /\ dir[Source(a)] = None
         /\ dir' = [Rename(Removed(a), Source(a)) EXCEPT ![Backup(a)] = None]
         /\ undo' = undo /\ staged' = staged
      \/ /\ kind[a] = "move" /\ Fail /\ dir[Source(a)] = None
         /\ dir' = Rename(Removed(a), Source(a)) /\ undo' = undo /\ staged' = staged
  BY <1>1, <1>2, <1>4, <1>5, OwnNames
     DEF PutBack, Refused, TakeFails, Copied, Remove
<1>9. CASE /\ kind[a] = "delete" /\ Fail /\ dir' = Remove(Backup(a))
            /\ undo' = undo /\ staged' = staged
  <2>1. Handled(a)
    <3>1. Twice(Backup(a), Removed(a))
      BY <1>1, <1>2, <1>3, <1>4, <1>5, <1>9, OwnNames DEF Has, Copied, Twice, At
    <3>2. dir' = RemoveAll({Backup(a)})
      BY <1>1, <1>2, <1>3, <1>4, <1>5, <1>9, OwnNames, RemoveOne
    <3> QED
      BY <1>1, <1>2, <1>3, <1>4, <1>5, <1>9, <3>1, <3>2, OwnNames, RemoveHandled
  <2>2. Owing' \subseteq Owing
    BY <1>6, OwedShrinks
  <2>3. (a \in undo' => Due(a)') /\ (a \notin undo' => Over(a)')
    BY <1>1, <1>2, <1>3, <1>4, <1>5, <1>9, <2>2, OwnNames
       DEF Due, Over, Has, Copied, Twice, At,
           Dispensable, Recorded, Remove, Directories, Rewrites, Patch, Owing, Whole,
           Foreign, Staged
  <2> QED
    BY <1>1, <1>2, <1>3, <1>6, <1>7, <1>9, <2>1, <2>3, FailsWhole
<1>10. CASE /\ kind[a] = "move" /\ Fail /\ dir' = dir /\ undo' = undo
            /\ staged' = staged
  <2>1. Handled(a)
    BY <1>1, <1>2, <1>3, <1>4, <1>5, <1>10, SameHandled
  <2>2. Owing' \subseteq Owing
    BY <1>6, OwedShrinks
  <2>3. (a \in undo' => Due(a)') /\ (a \notin undo' => Over(a)')
    BY <1>1, <1>2, <1>3, <1>4, <1>5, <1>10, <2>2, OwnNames
       DEF Due, Over, Has, Copied, Twice, At,
           Dispensable, Recorded, Directories, Rewrites, Patch, Owing, Whole, Foreign,
           Staged
  <2> QED
    BY <1>1, <1>2, <1>3, <1>6, <1>7, <1>10, <2>1, <2>3, FailsWhole
<1>11. CASE /\ kind[a] = "delete" /\ Fail /\ dir[Source(a)] = None
            /\ dir' = [Rename(Removed(a), Source(a)) EXCEPT ![Backup(a)] = None]
            /\ undo' = undo /\ staged' = staged
  <2>1. Handled(a)
    <3>1. Dispensable(Source(a))
      BY <1>1, <1>2, <1>3, <1>4, <1>5, <1>11 DEF Dispensable
    <3>2. Twice(Backup(a), Removed(a))
      BY <1>1, <1>2, <1>3, <1>4, <1>5, <1>11, OwnNames DEF Has, Copied, Twice, At
    <3> QED
      BY <1>1, <1>2, <1>3, <1>4, <1>5, <1>11, <3>1, <3>2, OwnNames,
         RenameRemoveHandled
  <2>2. Owing' \subseteq Owing
    BY <1>6, OwedShrinks
  <2>3. (a \in undo' => Due(a)') /\ (a \notin undo' => Over(a)')
    BY <1>1, <1>2, <1>3, <1>4, <1>5, <1>11, <2>2, OwnNames
       DEF Due, Over, Has, Copied, Twice, At,
           Dispensable, Recorded, Rename, Directories, Rewrites, Patch, Owing, Whole,
           Foreign, Staged
  <2> QED
    BY <1>1, <1>2, <1>3, <1>6, <1>7, <1>11, <2>1, <2>3, FailsWhole
<1>12. CASE /\ kind[a] = "move" /\ Fail /\ dir[Source(a)] = None
            /\ dir' = Rename(Removed(a), Source(a)) /\ undo' = undo
            /\ staged' = staged
  <2>1. Handled(a)
    <3>1. Dispensable(Source(a))
      BY <1>1, <1>2, <1>3, <1>4, <1>5, <1>12 DEF Dispensable
    <3> QED
      BY <1>1, <1>2, <1>3, <1>4, <1>5, <1>12, <3>1, OwnNames, RenameHandled
  <2>2. Owing' \subseteq Owing
    BY <1>6, OwedShrinks
  <2>3. (a \in undo' => Due(a)') /\ (a \notin undo' => Over(a)')
    BY <1>1, <1>2, <1>3, <1>4, <1>5, <1>12, <2>2, OwnNames
       DEF Due, Over, Has, Copied, Twice, At,
           Dispensable, Recorded, Rename, Directories, Rewrites, Patch, Owing, Whole,
           Foreign, Staged
  <2> QED
    BY <1>1, <1>2, <1>3, <1>6, <1>7, <1>12, <2>1, <2>3, FailsWhole
<1> QED
  BY <1>8, <1>9, <1>10, <1>11, <1>12

-----------------------------------------------------------------------------
(* The rollback                                                            *)

LEMMA UndoAddWhole ==
  ASSUME TypeInv, Lossless, UndoAdd
  PROVE  Lossless'
<1>1. undo \subseteq Plan /\ undo # {} /\ pc \in Undoing
  BY LastIsTyped DEF TypeInv, TypeOK, Undoing, UndoAdd, Undo
<1>2. dir \in Directories /\ faults \in Nat /\ conflict \in BOOLEAN
      /\ state \in [Plan -> Files \cup {None}]
  BY BoundsAssumption DEF TypeInv, TypeOK, Directories
<1>3. PICK a \in undo : Last = a /\ a \in Plan
  BY <1>1, LastIsTyped
<1>4. Whole /\ Recorded(a) /\ ~Loose(a)
  BY <1>1, <1>3 DEF Lossless, Loose, Undoing, UndoAdd, Undo
<1>5. /\ UNCHANGED <<kind, state, staged, writes, owed, exposed>>
      /\ faults = 0 \/ faults' # 0
      /\ conflict => conflict'
      /\ undo' \in {undo, undo \ {a}} /\ (pc' = "undo" => undo' = undo \ {a})
      /\ (pc' # "undo" => undo' = undo)
  BY <1>2, <1>3
     DEF UndoAdd, Refused, Undo, Undone, Goto, planVars, patchVars, endVars,
         worldVars
<1>6. Due(a) /\ kind[a] = "add"
  BY <1>1, <1>3, <1>4
     DEF TypeInv, TypeOK, Lossless, Keeping, Undoing, Undo, Moves, Due,
         Rolling, Recorded, UndoAdd
<1>7. Framed(a)
  <2>1. \A n \in Names \ NamesOf(a) : dir'[n] = dir[n]
    BY <1>2, <1>3, <1>5, OwnNames DEF UndoAdd, Undone, Directories
  <2> QED
    BY <1>3, <1>5, <2>1, OnlyHere DEF Framed
<1>8. Recorded(a)'
  BY <1>3, <1>4, <1>5 DEF Recorded, ByNow, Owing
<1>9. \/ pc' = "undo" /\ dir' = dir
      \/ Goto("undoRemove") /\ dir[Source(a)] = Patch(a) /\ dir' = dir
  BY <1>1, <1>2, <1>3, <1>5, <1>6, OwnNames
     DEF UndoAdd, Undo, Undone, Refused, patchVars, Goto
<1>10. CASE pc' = "undo" /\ dir' = dir
  <2>1. Loose(a) => Loose(a)'
    BY <1>1, <1>3, <1>4, <1>5, <1>10 DEF Loose, Undoing, Last
  <2>2. Handled(a)
    BY <1>2, <1>3, <1>4, <1>5, <1>6, <1>10, <2>1, SameHandled
  <2>3. Owing' \subseteq Owing
    BY <1>3, <1>7, OwedShrinks
  <2>4. Over(a)'
    BY <1>2, <1>3, <1>4, <1>5, <1>6, <1>10, <2>3, OwnNames, BackupThere
       DEF Due, Over, Copied, Twice, At,
           Dispensable, Recorded, Directories, Rewrites, Patch, Owing, Whole, Foreign,
           Staged
  <2> QED
    BY <1>1, <1>3, <1>5, <1>7, <1>8, <1>10, <2>2, <2>4, IsUndoneWhole
<1>11. CASE Goto("undoRemove") /\ dir[Source(a)] = Patch(a) /\ dir' = dir
  <2>1. Loose(a) => Loose(a)'
    BY <1>1, <1>3, <1>4, <1>5, <1>11 DEF Loose, Undoing, Goto, Last
  <2>2. Handled(a)
    BY <1>2, <1>3, <1>4, <1>5, <1>6, <1>11, <2>1, SameHandled
  <2>3. Owing' \subseteq Owing
    BY <1>3, <1>7, OwedShrinks
  <2>4. Rolling(a)' /\ pc' \in Undoing \ {"undo"}
    BY <1>2, <1>3, <1>4, <1>5, <1>6, <1>11, <2>3, OwnNames, BackupThere
       DEF Due, Over, Rolling, OwnTarget, Has, Copied, Twice, At, Dispensable,
           Recorded, Directories, Moves, Rewrites, Patch, Owing, Whole, Foreign,
           Staged, Goto, Undoing
  <2> QED
    BY <1>1, <1>3, <1>5, <1>7, <1>8, <1>11, <2>2, <2>4, GoesOnUndoingWhole
<1> QED
  BY <1>9, <1>10, <1>11

LEMMA UndoRemoveWhole ==
  ASSUME TypeInv, Lossless, UndoRemove
  PROVE  Lossless'
<1>1. undo \subseteq Plan /\ undo # {} /\ pc \in Undoing
  BY LastIsTyped DEF TypeInv, TypeOK, Undoing, UndoRemove
<1>2. dir \in Directories /\ faults \in Nat /\ conflict \in BOOLEAN
      /\ state \in [Plan -> Files \cup {None}]
  BY BoundsAssumption DEF TypeInv, TypeOK, Directories
<1>3. PICK a \in undo : Last = a /\ a \in Plan
  BY <1>1, LastIsTyped
<1>4. Whole /\ Recorded(a) /\ ~Loose(a)
  BY <1>1, <1>3 DEF Lossless, Loose, Undoing, UndoRemove
<1>5. /\ UNCHANGED <<kind, state, staged, writes, owed, exposed>>
      /\ faults = 0 \/ faults' # 0
      /\ conflict => conflict'
      /\ undo' \in {undo, undo \ {a}} /\ (pc' = "undo" => undo' = undo \ {a})
      /\ (pc' # "undo" => undo' = undo)
  BY <1>2, <1>3
     DEF UndoRemove, Refused, Undone, Goto, planVars, endVars, worldVars
<1>6. Rolling(a) /\ kind[a] = "add" /\ Copied(a) /\ Dispensable(Source(a))
  BY <1>1, <1>3, <1>4
     DEF TypeInv, TypeOK, Lossless, Keeping, Undoing, Moves, Due,
         Rolling, Recorded, UndoRemove
<1>7. Framed(a)
  <2>1. \A n \in Names \ NamesOf(a) : dir'[n] = dir[n]
    BY <1>2, <1>3, <1>5, OwnNames DEF UndoRemove, Undone, Remove, Directories
  <2> QED
    BY <1>3, <1>5, <2>1, OnlyHere DEF Framed
<1>8. Recorded(a)'
  BY <1>3, <1>4, <1>5 DEF Recorded, ByNow, Owing
<1>9. \/ pc' = "undo" /\ dir' = Remove(Source(a))
      \/ pc' = "undo" /\ dir' = dir
  BY <1>1, <1>2, <1>3, <1>5, <1>6, OwnNames DEF UndoRemove, Undone, Refused, Goto
<1>10. CASE pc' = "undo" /\ dir' = Remove(Source(a))
  <2>1. Loose(a) => Loose(a)'
    BY <1>1, <1>3, <1>4, <1>5, <1>10 DEF Loose, Undoing, Last
  <2>2. Handled(a)
    <3>1. Twice(Source(a), Moved(a))
      BY <1>2, <1>3, <1>4, <1>5, <1>6, <1>10, OwnNames
         DEF Copied, Twice, At, Dispensable, Owing
    <3>2. dir' = RemoveAll({Source(a)})
      BY <1>2, <1>3, <1>4, <1>5, <1>6, <1>10, OwnNames, RemoveOne
    <3> QED
      BY <1>2, <1>3, <1>4, <1>5, <1>6, <1>10, <2>1, <3>1, <3>2, OwnNames,
         RemoveHandled
  <2>3. Owing' \subseteq Owing
    BY <1>3, <1>7, OwedShrinks
  <2>4. Over(a)'
    BY <1>2, <1>3, <1>4, <1>5, <1>6, <1>10, <2>3, OwnNames, BackupThere
       DEF Over, Rolling, OwnTarget, Has, Copied,
           Twice, At, Dispensable, Recorded, Remove, Directories, Moves, Rewrites,
           Patch, Owing, Whole, Foreign, Staged
  <2> QED
    BY <1>1, <1>3, <1>5, <1>7, <1>8, <1>10, <2>2, <2>4, IsUndoneWhole
<1>11. CASE pc' = "undo" /\ dir' = dir
  <2>1. Loose(a) => Loose(a)'
    BY <1>1, <1>3, <1>4, <1>5, <1>11 DEF Loose, Undoing, Last
  <2>2. Handled(a)
    BY <1>2, <1>3, <1>4, <1>5, <1>6, <1>11, <2>1, SameHandled
  <2>3. Owing' \subseteq Owing
    BY <1>3, <1>7, OwedShrinks
  <2>4. Over(a)'
    BY <1>2, <1>3, <1>4, <1>5, <1>6, <1>11, <2>3, OwnNames, BackupThere
       DEF Over, Rolling, OwnTarget, Has, Copied,
           Twice, At, Dispensable, Recorded, Directories, Moves, Rewrites, Patch,
           Owing, Whole, Foreign, Staged
  <2> QED
    BY <1>1, <1>3, <1>5, <1>7, <1>8, <1>11, <2>2, <2>4, IsUndoneWhole
<1> QED
  BY <1>9, <1>10, <1>11

LEMMA UndoDeleteWhole ==
  ASSUME TypeInv, Lossless, UndoDelete
  PROVE  Lossless'
<1>1. undo \subseteq Plan /\ undo # {} /\ pc \in Undoing
  BY LastIsTyped DEF TypeInv, TypeOK, Undoing, UndoDelete, Undo
<1>2. dir \in Directories /\ faults \in Nat /\ conflict \in BOOLEAN
      /\ state \in [Plan -> Files \cup {None}]
  BY BoundsAssumption DEF TypeInv, TypeOK, Directories
<1>3. PICK a \in undo : Last = a /\ a \in Plan
  BY <1>1, LastIsTyped
<1>4. Whole /\ Recorded(a) /\ ~Loose(a)
  BY <1>1, <1>3 DEF Lossless, Loose, Undoing, UndoDelete, Undo
<1>5. /\ UNCHANGED <<kind, state, staged, writes, owed, exposed>>
      /\ faults = 0 \/ faults' # 0
      /\ conflict => conflict'
      /\ undo' \in {undo, undo \ {a}} /\ (pc' = "undo" => undo' = undo \ {a})
      /\ (pc' # "undo" => undo' = undo)
  BY <1>2, <1>3
     DEF UndoDelete, Refused, Undo, Restore, Undone, Goto, planVars, endVars,
         worldVars
<1>6. Due(a) /\ kind[a] = "delete"
  BY <1>1, <1>3, <1>4
     DEF TypeInv, TypeOK, Lossless, Keeping, Undoing, Undo, Moves, Due,
         Rolling, Recorded, UndoDelete
<1>7. Framed(a)
  <2>1. \A n \in Names \ NamesOf(a) : dir'[n] = dir[n]
    BY <1>2, <1>3, <1>5, OwnNames DEF UndoDelete, Restore, Undone, Rename, Directories
  <2> QED
    BY <1>3, <1>5, <2>1, OnlyHere DEF Framed
<1>8. Recorded(a)'
  BY <1>3, <1>4, <1>5 DEF Recorded, ByNow, Owing
<1>9. \/ /\ pc' = "undo" /\ dir[Source(a)] = None
         /\ dir' = Rename(Backup(a), Source(a))
      \/ pc' = "undo" /\ dir' = dir /\ conflict'
  BY <1>1, <1>2, <1>3, <1>5, <1>6, OwnNames
     DEF UndoDelete, Undo, Restore, Undone, Refused, Blocked, Goto
<1>10. CASE /\ pc' = "undo" /\ dir[Source(a)] = None
            /\ dir' = Rename(Backup(a), Source(a))
  <2>1. Loose(a) => Loose(a)'
    BY <1>1, <1>3, <1>4, <1>5, <1>10 DEF Loose, Undoing, Last
  <2>2. Handled(a)
    <3>1. Dispensable(Source(a))
      BY <1>2, <1>3, <1>4, <1>5, <1>6, <1>10 DEF Dispensable
    <3> QED
      BY <1>2, <1>3, <1>4, <1>5, <1>6, <1>10, <2>1, <3>1, OwnNames, RenameHandled
  <2>3. Owing' \subseteq Owing
    BY <1>3, <1>7, OwedShrinks
  <2>4. Over(a)'
    BY <1>2, <1>3, <1>4, <1>5, <1>6, <1>10, <2>3, OwnNames, BackupThere
       DEF Due, Over, Copied, Twice, At,
           Dispensable, Recorded, Rename, Directories, Rewrites, Patch, Owing, Whole,
           Foreign, Staged
  <2> QED
    BY <1>1, <1>3, <1>5, <1>7, <1>8, <1>10, <2>2, <2>4, IsUndoneWhole
<1>11. CASE pc' = "undo" /\ dir' = dir /\ conflict'
  <2>1. Loose(a) => Loose(a)'
    BY <1>1, <1>3, <1>4, <1>5, <1>11 DEF Loose, Undoing, Last
  <2>2. Handled(a)
    BY <1>2, <1>3, <1>4, <1>5, <1>6, <1>11, <2>1, SameHandled
  <2>3. Owing' \subseteq Owing
    BY <1>3, <1>7, OwedShrinks
  <2>4. Over(a)'
    BY <1>2, <1>3, <1>4, <1>5, <1>6, <1>11, <2>3, OwnNames, BackupThere
       DEF Due, Over, Copied, Twice, At,
           Dispensable, Recorded, Directories, Rewrites, Patch, Owing, Whole, Foreign,
           Staged
  <2> QED
    BY <1>1, <1>3, <1>5, <1>7, <1>8, <1>11, <2>2, <2>4, IsUndoneWhole
<1> QED
  BY <1>9, <1>10, <1>11

LEMMA UndoRestoreWhole ==
  ASSUME TypeInv, Lossless, UndoRestore
  PROVE  Lossless'
<1>1. undo \subseteq Plan /\ undo # {} /\ pc \in Undoing
  BY LastIsTyped DEF TypeInv, TypeOK, Undoing, UndoRestore
<1>2. dir \in Directories /\ faults \in Nat /\ conflict \in BOOLEAN
      /\ state \in [Plan -> Files \cup {None}]
  BY BoundsAssumption DEF TypeInv, TypeOK, Directories
<1>3. PICK a \in undo : Last = a /\ a \in Plan
  BY <1>1, LastIsTyped
<1>4. Whole /\ Recorded(a) /\ ~Loose(a)
  BY <1>1, <1>3 DEF Lossless, Loose, Undoing, UndoRestore
<1>5. /\ UNCHANGED <<kind, state, staged, writes, owed, exposed>>
      /\ faults = 0 \/ faults' # 0
      /\ conflict => conflict'
      /\ undo' \in {undo, undo \ {a}} /\ (pc' = "undo" => undo' = undo \ {a})
      /\ (pc' # "undo" => undo' = undo)
  BY <1>2, <1>3
     DEF UndoRestore, Refused, Restore, Undone, Goto, planVars, endVars, worldVars
<1>6. Due(a) /\ kind[a] = "update" /\ state[a] # None
  BY <1>1, <1>3, <1>4
     DEF TypeInv, TypeOK, Lossless, Keeping, Undoing, Moves, Due,
         Rolling, Recorded, UndoRestore
<1>7. Framed(a)
  <2>1. \A n \in Names \ NamesOf(a) : dir'[n] = dir[n]
    BY <1>2, <1>3, <1>5, OwnNames
       DEF UndoRestore, Restore, Undone, Rename, Directories
  <2> QED
    BY <1>3, <1>5, <2>1, OnlyHere DEF Framed
<1>8. Recorded(a)'
  BY <1>3, <1>4, <1>5 DEF Recorded, ByNow, Owing
<1>9. \/ /\ pc' = "undo" /\ dir[Source(a)] = None
         /\ dir' = Rename(Backup(a), Source(a))
      \/ pc' = "undo" /\ dir' = dir /\ conflict'
  BY <1>1, <1>2, <1>3, <1>5, <1>6, OwnNames
     DEF UndoRestore, Restore, Undone, Refused, Blocked, Goto
<1>10. CASE /\ pc' = "undo" /\ dir[Source(a)] = None
            /\ dir' = Rename(Backup(a), Source(a))
  <2>1. Loose(a) => Loose(a)'
    BY <1>1, <1>3, <1>4, <1>5, <1>10 DEF Loose, Undoing, Last
  <2>2. Handled(a)
    <3>1. Dispensable(Source(a))
      BY <1>2, <1>3, <1>4, <1>5, <1>6, <1>10 DEF Dispensable
    <3> QED
      BY <1>2, <1>3, <1>4, <1>5, <1>6, <1>10, <2>1, <3>1, OwnNames, RenameHandled
  <2>3. Owing' \subseteq Owing
    BY <1>3, <1>7, OwedShrinks
  <2>4. Over(a)'
    BY <1>2, <1>3, <1>4, <1>5, <1>6, <1>10, <2>3, OwnNames, BackupThere
       DEF Due, Over, Copied, Twice, At,
           Dispensable, Recorded, Rename, Directories, Rewrites, Patch, Owing, Whole,
           Foreign, Staged
  <2> QED
    BY <1>1, <1>3, <1>5, <1>7, <1>8, <1>10, <2>2, <2>4, IsUndoneWhole
<1>11. CASE pc' = "undo" /\ dir' = dir /\ conflict'
  <2>1. Loose(a) => Loose(a)'
    BY <1>1, <1>3, <1>4, <1>5, <1>11 DEF Loose, Undoing, Last
  <2>2. Handled(a)
    BY <1>2, <1>3, <1>4, <1>5, <1>6, <1>11, <2>1, SameHandled
  <2>3. Owing' \subseteq Owing
    BY <1>3, <1>7, OwedShrinks
  <2>4. Over(a)'
    BY <1>2, <1>3, <1>4, <1>5, <1>6, <1>11, <2>3, OwnNames, BackupThere
       DEF Due, Over, Copied, Twice, At,
           Dispensable, Recorded, Directories, Rewrites, Patch, Owing, Whole, Foreign,
           Staged
  <2> QED
    BY <1>1, <1>3, <1>5, <1>7, <1>8, <1>11, <2>2, <2>4, IsUndoneWhole
<1> QED
  BY <1>9, <1>10, <1>11

LEMMA UndoUpdateWhole ==
  ASSUME TypeInv, Lossless, UndoUpdate
  PROVE  Lossless'
<1>1. undo \subseteq Plan /\ undo # {} /\ pc \in Undoing
  BY LastIsTyped DEF TypeInv, TypeOK, Undoing, UndoUpdate, Undo
<1>2. dir \in Directories /\ faults \in Nat /\ conflict \in BOOLEAN
      /\ state \in [Plan -> Files \cup {None}]
  BY BoundsAssumption DEF TypeInv, TypeOK, Directories
<1>3. PICK a \in undo : Last = a /\ a \in Plan
  BY <1>1, LastIsTyped
<1>4. Whole /\ Recorded(a) /\ ~Loose(a)
  BY <1>1, <1>3 DEF Lossless, Loose, Undoing, UndoUpdate, Undo
<1>5. /\ UNCHANGED <<kind, state, staged, writes, owed, exposed>>
      /\ faults = 0 \/ faults' # 0
      /\ conflict => conflict'
      /\ undo' \in {undo, undo \ {a}} /\ (pc' = "undo" => undo' = undo \ {a})
      /\ (pc' # "undo" => undo' = undo)
  BY <1>2, <1>3
     DEF UndoUpdate, Refused, Undo, Goto, Undone, planVars, patchVars, endVars,
         worldVars
<1>6. Due(a) /\ kind[a] = "update" /\ state[a] # None
  BY <1>1, <1>3, <1>4
     DEF TypeInv, TypeOK, Lossless, Keeping, Undoing, Undo, Moves, Due,
         Rolling, Recorded, UndoUpdate
<1>7. Framed(a)
  <2>1. \A n \in Names \ NamesOf(a) : dir'[n] = dir[n]
    BY <1>2, <1>3, <1>5, OwnNames DEF UndoUpdate, Undone, Directories
  <2> QED
    BY <1>3, <1>5, <2>1, OnlyHere DEF Framed
<1>8. Recorded(a)'
  BY <1>3, <1>4, <1>5 DEF Recorded, ByNow, Owing
<1>9. \/ Goto("undoRestore") /\ dir' = dir
      \/ Goto("undoSwap") /\ dir' = dir
      \/ pc' = "undo" /\ dir' = dir /\ conflict'
  BY <1>1, <1>2, <1>3, <1>5, <1>6, OwnNames
     DEF UndoUpdate, Undo, Refused, Undone, patchVars, Goto
<1>10. CASE Goto("undoRestore") /\ dir' = dir
  <2>1. Loose(a) => Loose(a)'
    BY <1>1, <1>3, <1>4, <1>5, <1>10 DEF Loose, Undoing, Goto, Last
  <2>2. Handled(a)
    BY <1>2, <1>3, <1>4, <1>5, <1>6, <1>10, <2>1, SameHandled
  <2>3. Owing' \subseteq Owing
    BY <1>3, <1>7, OwedShrinks
  <2>4. Rolling(a)' /\ pc' \in Undoing \ {"undo"}
    BY <1>2, <1>3, <1>4, <1>5, <1>6, <1>10, <2>3, OwnNames, BackupThere
       DEF Due, Over, Rolling, OwnTarget, Has, Copied, Twice, At, Dispensable,
           Recorded, Directories, Moves, Rewrites, Patch, Owing, Whole, Foreign,
           Staged, Goto, Undoing
  <2> QED
    BY <1>1, <1>3, <1>5, <1>7, <1>8, <1>10, <2>2, <2>4, GoesOnUndoingWhole
<1>11. CASE Goto("undoSwap") /\ dir' = dir
  <2>1. Loose(a) => Loose(a)'
    BY <1>1, <1>3, <1>4, <1>5, <1>11 DEF Loose, Undoing, Goto, Last
  <2>2. Handled(a)
    BY <1>2, <1>3, <1>4, <1>5, <1>6, <1>11, <2>1, SameHandled
  <2>3. Owing' \subseteq Owing
    BY <1>3, <1>7, OwedShrinks
  <2>4. Rolling(a)' /\ pc' \in Undoing \ {"undo"}
    BY <1>2, <1>3, <1>4, <1>5, <1>6, <1>11, <2>3, OwnNames, BackupThere
       DEF Due, Over, Rolling, OwnTarget, Has, Copied, Twice, At, Dispensable,
           Recorded, Directories, Moves, Rewrites, Patch, Owing, Whole, Foreign,
           Staged, Goto, Undoing
  <2> QED
    BY <1>1, <1>3, <1>5, <1>7, <1>8, <1>11, <2>2, <2>4, GoesOnUndoingWhole
<1>12. CASE pc' = "undo" /\ dir' = dir /\ conflict'
  <2>1. Loose(a) => Loose(a)'
    BY <1>1, <1>3, <1>4, <1>5, <1>12 DEF Loose, Undoing, Last
  <2>2. Handled(a)
    BY <1>2, <1>3, <1>4, <1>5, <1>6, <1>12, <2>1, SameHandled
  <2>3. Owing' \subseteq Owing
    BY <1>3, <1>7, OwedShrinks
  <2>4. Over(a)'
    BY <1>2, <1>3, <1>4, <1>5, <1>6, <1>12, <2>3, OwnNames, BackupThere
       DEF Due, Over, Copied, Twice, At,
           Dispensable, Recorded, Directories, Rewrites, Patch, Owing, Whole, Foreign,
           Staged
  <2> QED
    BY <1>1, <1>3, <1>5, <1>7, <1>8, <1>12, <2>2, <2>4, IsUndoneWhole
<1> QED
  BY <1>9, <1>10, <1>11, <1>12

LEMMA UndoSwapWhole ==
  ASSUME TypeInv, Lossless, UndoSwap
  PROVE  Lossless'
<1>1. undo \subseteq Plan /\ undo # {} /\ pc \in Undoing
  BY LastIsTyped DEF TypeInv, TypeOK, Undoing, UndoSwap
<1>2. dir \in Directories /\ faults \in Nat /\ conflict \in BOOLEAN
      /\ state \in [Plan -> Files \cup {None}]
  BY BoundsAssumption DEF TypeInv, TypeOK, Directories
<1>3. PICK a \in undo : Last = a /\ a \in Plan
  BY <1>1, LastIsTyped
<1>4. Whole /\ Recorded(a) /\ ~Loose(a)
  BY <1>1, <1>3 DEF Lossless, Loose, Undoing, UndoSwap
<1>5. /\ UNCHANGED <<kind, state, staged, writes, owed, exposed>>
      /\ faults = 0 \/ faults' # 0
      /\ conflict => conflict'
      /\ undo' \in {undo, undo \ {a}} /\ (pc' = "undo" => undo' = undo \ {a})
      /\ (pc' # "undo" => undo' = undo)
  BY <1>2, <1>3
     DEF UndoSwap, Refused, Goto, Undone, planVars, patchVars, endVars, worldVars
<1>6. Due(a) /\ kind[a] = "update" /\ state[a] # None
  BY <1>1, <1>3, <1>4
     DEF TypeInv, TypeOK, Lossless, Keeping, Undoing, Moves, Due,
         Rolling, Recorded, UndoSwap
<1>7. Framed(a)
  <2>1. \A n \in Names \ NamesOf(a) : dir'[n] = dir[n]
    BY <1>2, <1>3, <1>5, OwnNames DEF UndoSwap, Undone, Exchange, Directories
  <2> QED
    BY <1>3, <1>5, <2>1, OnlyHere DEF Framed
<1>8. Recorded(a)'
  BY <1>3, <1>4, <1>5 DEF Recorded, ByNow, Owing
<1>9. \/ Goto("undoSettle") /\ dir' = Exchange(Backup(a), Source(a))
      \/ pc' = "undo" /\ dir' = dir /\ conflict'
  BY <1>1, <1>2, <1>3, <1>5, <1>6, OwnNames
     DEF UndoSwap, Refused, Undone, patchVars, Goto
<1>10. CASE Goto("undoSettle") /\ dir' = Exchange(Backup(a), Source(a))
  <2>1. Loose(a) => Loose(a)'
    BY <1>1, <1>3, <1>4, <1>5, <1>10 DEF Loose, Undoing, Goto, Last
  <2>2. Handled(a)
    BY <1>2, <1>3, <1>4, <1>5, <1>6, <1>10, <2>1, OwnNames, ExchangeHandled
  <2>3. Owing' \subseteq Owing
    BY <1>3, <1>7, OwedShrinks
  <2>4. Rolling(a)' /\ pc' \in Undoing \ {"undo"}
    BY <1>2, <1>3, <1>4, <1>5, <1>6, <1>10, <2>3, OwnNames, BackupThere
       DEF Due, Over, Rolling, OwnTarget, Has, Copied, Twice, At, Dispensable,
           Recorded, Exchange, Directories, Moves, Rewrites, Patch, Owing, Whole,
           Foreign, Staged, Goto, Undoing
  <2> QED
    BY <1>1, <1>3, <1>5, <1>7, <1>8, <1>10, <2>2, <2>4, GoesOnUndoingWhole
<1>11. CASE pc' = "undo" /\ dir' = dir /\ conflict'
  <2>1. Loose(a) => Loose(a)'
    BY <1>1, <1>3, <1>4, <1>5, <1>11 DEF Loose, Undoing, Last
  <2>2. Handled(a)
    BY <1>2, <1>3, <1>4, <1>5, <1>6, <1>11, <2>1, SameHandled
  <2>3. Owing' \subseteq Owing
    BY <1>3, <1>7, OwedShrinks
  <2>4. Over(a)'
    BY <1>2, <1>3, <1>4, <1>5, <1>6, <1>11, <2>3, OwnNames, BackupThere
       DEF Due, Over, Copied, Twice, At,
           Dispensable, Recorded, Directories, Rewrites, Patch, Owing, Whole, Foreign,
           Staged
  <2> QED
    BY <1>1, <1>3, <1>5, <1>7, <1>8, <1>11, <2>2, <2>4, IsUndoneWhole
<1> QED
  BY <1>9, <1>10, <1>11

LEMMA UndoSettleWhole ==
  ASSUME TypeInv, Lossless, UndoSettle
  PROVE  Lossless'
<1>1. undo \subseteq Plan /\ undo # {} /\ pc \in Undoing
  BY LastIsTyped DEF TypeInv, TypeOK, Undoing, UndoSettle
<1>2. dir \in Directories /\ faults \in Nat /\ conflict \in BOOLEAN
      /\ state \in [Plan -> Files \cup {None}]
  BY BoundsAssumption DEF TypeInv, TypeOK, Directories
<1>3. PICK a \in undo : Last = a /\ a \in Plan
  BY <1>1, LastIsTyped
<1>4. Whole /\ Recorded(a) /\ ~Loose(a)
  BY <1>1, <1>3 DEF Lossless, Loose, Undoing, UndoSettle
<1>5. /\ UNCHANGED <<kind, state, staged, writes, owed, exposed>>
      /\ faults = 0 \/ faults' # 0
      /\ conflict => conflict'
      /\ undo' \in {undo, undo \ {a}} /\ (pc' = "undo" => undo' = undo \ {a})
      /\ (pc' # "undo" => undo' = undo)
  BY <1>2, <1>3
     DEF UndoSettle, Refused, Undone, Goto, planVars, patchVars, endVars, worldVars
<1>6. Over(a) /\ kind[a] = "update" /\ Has(Source(a), a)
  BY <1>1, <1>3, <1>4
     DEF TypeInv, TypeOK, Lossless, Keeping, Undoing, Moves, Due,
         Rolling, Recorded, UndoSettle
<1>7. Framed(a)
  <2>1. \A n \in Names \ NamesOf(a) : dir'[n] = dir[n]
    BY <1>2, <1>3, <1>5, OwnNames DEF UndoSettle, Undone, Remove, Directories
  <2> QED
    BY <1>3, <1>5, <2>1, OnlyHere DEF Framed
<1>8. Recorded(a)'
  BY <1>3, <1>4, <1>5 DEF Recorded, ByNow, Owing
<1>9. \/ pc' = "undo" /\ dir[Backup(a)] = Patch(a) /\ dir' = Remove(Backup(a))
      \/ pc' = "undo" /\ dir' = dir /\ conflict'
      \/ Goto("undoOriginal") /\ dir' = dir
  BY <1>1, <1>2, <1>3, <1>5, <1>6, OwnNames
     DEF UndoSettle, Undone, Refused, patchVars, Goto
<1>10. CASE pc' = "undo" /\ dir[Backup(a)] = Patch(a) /\ dir' = Remove(Backup(a))
  <2>1. Loose(a) => Loose(a)'
    BY <1>1, <1>3, <1>4, <1>5, <1>10 DEF Loose, Undoing, Last
  <2>2. Handled(a)
    <3>1. Twice(Backup(a), Source(a))
      BY <1>2, <1>3, <1>4, <1>5, <1>6, <1>10, OwnNames
         DEF Has, Twice, At, Owing, Whole, Foreign, Patch, Staged
    <3>2. dir' = RemoveAll({Backup(a)})
      BY <1>2, <1>3, <1>4, <1>5, <1>6, <1>10, OwnNames, RemoveOne
    <3> QED
      BY <1>2, <1>3, <1>4, <1>5, <1>6, <1>10, <2>1, <3>1, <3>2, OwnNames,
         RemoveHandled
  <2>3. Owing' \subseteq Owing
    BY <1>3, <1>7, OwedShrinks
  <2>4. Over(a)'
    BY <1>2, <1>3, <1>4, <1>5, <1>6, <1>10, <2>3, OwnNames, BackupThere
       DEF Over, Has, Copied, Twice, At,
           Dispensable, Recorded, Remove, Directories, Rewrites, Patch, Owing, Whole,
           Foreign, Staged
  <2> QED
    BY <1>1, <1>3, <1>5, <1>7, <1>8, <1>10, <2>2, <2>4, IsUndoneWhole
<1>11. CASE pc' = "undo" /\ dir' = dir /\ conflict'
  <2>1. Loose(a) => Loose(a)'
    BY <1>1, <1>3, <1>4, <1>5, <1>11 DEF Loose, Undoing, Last
  <2>2. Handled(a)
    BY <1>2, <1>3, <1>4, <1>5, <1>6, <1>11, <2>1, SameHandled
  <2>3. Owing' \subseteq Owing
    BY <1>3, <1>7, OwedShrinks
  <2>4. Over(a)'
    BY <1>2, <1>3, <1>4, <1>5, <1>6, <1>11, <2>3, OwnNames, BackupThere
       DEF Over, Has, Copied, Twice, At,
           Dispensable, Recorded, Directories, Rewrites, Patch, Owing, Whole, Foreign,
           Staged
  <2> QED
    BY <1>1, <1>3, <1>5, <1>7, <1>8, <1>11, <2>2, <2>4, IsUndoneWhole
<1>12. CASE Goto("undoOriginal") /\ dir' = dir
  <2>1. Loose(a) => Loose(a)'
    BY <1>1, <1>3, <1>4, <1>5, <1>12 DEF Loose, Undoing, Goto, Last
  <2>2. Handled(a)
    BY <1>2, <1>3, <1>4, <1>5, <1>6, <1>12, <2>1, SameHandled
  <2>3. Owing' \subseteq Owing
    BY <1>3, <1>7, OwedShrinks
  <2>4. Rolling(a)' /\ pc' \in Undoing \ {"undo"}
    BY <1>2, <1>3, <1>4, <1>5, <1>6, <1>12, <2>3, OwnNames, BackupThere
       DEF Over, Rolling, OwnTarget, Has, Copied, Twice, At, Dispensable,
           Recorded, Directories, Moves, Rewrites, Patch, Owing, Whole, Foreign,
           Staged, Goto, Undoing
  <2> QED
    BY <1>1, <1>3, <1>5, <1>7, <1>8, <1>12, <2>2, <2>4, GoesOnUndoingWhole
<1> QED
  BY <1>9, <1>10, <1>11, <1>12

LEMMA UndoOriginalWhole ==
  ASSUME TypeInv, Lossless, UndoOriginal
  PROVE  Lossless'
<1>1. undo \subseteq Plan /\ undo # {} /\ pc \in Undoing
  BY LastIsTyped DEF TypeInv, TypeOK, Undoing, UndoOriginal
<1>2. dir \in Directories /\ faults \in Nat /\ conflict \in BOOLEAN
      /\ state \in [Plan -> Files \cup {None}]
  BY BoundsAssumption DEF TypeInv, TypeOK, Directories
<1>3. PICK a \in undo : Last = a /\ a \in Plan
  BY <1>1, LastIsTyped
<1>4. Whole /\ Recorded(a) /\ ~Loose(a)
  BY <1>1, <1>3 DEF Lossless, Loose, Undoing, UndoOriginal
<1>5. /\ UNCHANGED <<kind, state, staged, writes, owed, exposed>>
      /\ faults = 0 \/ faults' # 0
      /\ conflict => conflict'
      /\ undo' \in {undo, undo \ {a}} /\ (pc' = "undo" => undo' = undo \ {a})
      /\ (pc' # "undo" => undo' = undo)
  BY <1>2, <1>3
     DEF UndoOriginal, Refused, Undone, Goto, planVars, patchVars, endVars, worldVars
<1>6. Over(a) /\ kind[a] = "update" /\ Has(Source(a), a)
  BY <1>1, <1>3, <1>4
     DEF TypeInv, TypeOK, Lossless, Keeping, Undoing, Moves, Due,
         Rolling, Recorded, UndoOriginal
<1>7. Framed(a)
  <2>1. \A n \in Names \ NamesOf(a) : dir'[n] = dir[n]
    BY <1>2, <1>3, <1>5, OwnNames DEF UndoOriginal, Undone, Directories
  <2> QED
    BY <1>3, <1>5, <2>1, OnlyHere DEF Framed
<1>8. Recorded(a)'
  BY <1>3, <1>4, <1>5 DEF Recorded, ByNow, Owing
<1>9. \/ Goto("undoSwapBack") /\ dir' = dir
      \/ pc' = "undo" /\ dir' = dir /\ conflict'
  BY <1>1, <1>2, <1>3, <1>5, <1>6, OwnNames
     DEF UndoOriginal, Undone, Refused, patchVars, Restored, Goto
<1>10. CASE Goto("undoSwapBack") /\ dir' = dir
  <2>1. Loose(a) => Loose(a)'
    BY <1>1, <1>3, <1>4, <1>5, <1>10 DEF Loose, Undoing, Goto, Last
  <2>2. Handled(a)
    BY <1>2, <1>3, <1>4, <1>5, <1>6, <1>10, <2>1, SameHandled
  <2>3. Owing' \subseteq Owing
    BY <1>3, <1>7, OwedShrinks
  <2>4. Rolling(a)' /\ pc' \in Undoing \ {"undo"}
    BY <1>2, <1>3, <1>4, <1>5, <1>6, <1>10, <2>3, OwnNames, BackupThere
       DEF Over, Rolling, Has, At, Dispensable, Moves, Staged, Goto, Undoing
  <2> QED
    BY <1>1, <1>3, <1>5, <1>7, <1>8, <1>10, <2>2, <2>4, GoesOnUndoingWhole
<1>11. CASE pc' = "undo" /\ dir' = dir /\ conflict'
  <2>1. Loose(a) => Loose(a)'
    BY <1>1, <1>3, <1>4, <1>5, <1>11 DEF Loose, Undoing, Last
  <2>2. Handled(a)
    BY <1>2, <1>3, <1>4, <1>5, <1>6, <1>11, <2>1, SameHandled
  <2>3. Owing' \subseteq Owing
    BY <1>3, <1>7, OwedShrinks
  <2>4. Over(a)'
    BY <1>2, <1>3, <1>4, <1>5, <1>6, <1>11, <2>3, OwnNames, BackupThere
       DEF Over, Has, Copied, Twice, At,
           Dispensable, Recorded, Directories, Rewrites, Patch, Owing, Whole, Foreign,
           Staged
  <2> QED
    BY <1>1, <1>3, <1>5, <1>7, <1>8, <1>11, <2>2, <2>4, IsUndoneWhole
<1> QED
  BY <1>9, <1>10, <1>11

LEMMA UndoSwapBackWhole ==
  ASSUME TypeInv, Lossless, UndoSwapBack
  PROVE  Lossless'
<1>1. undo \subseteq Plan /\ undo # {} /\ pc \in Undoing
  BY LastIsTyped DEF TypeInv, TypeOK, Undoing, UndoSwapBack
<1>2. dir \in Directories /\ faults \in Nat /\ conflict \in BOOLEAN
      /\ state \in [Plan -> Files \cup {None}]
  BY BoundsAssumption DEF TypeInv, TypeOK, Directories
<1>3. PICK a \in undo : Last = a /\ a \in Plan
  BY <1>1, LastIsTyped
<1>4. Whole /\ Recorded(a) /\ ~Loose(a)
  BY <1>1, <1>3 DEF Lossless, Loose, Undoing, UndoSwapBack
<1>5. /\ UNCHANGED <<kind, state, staged, writes, owed, exposed>>
      /\ faults = 0 \/ faults' # 0
      /\ conflict => conflict'
      /\ undo' \in {undo, undo \ {a}} /\ (pc' = "undo" => undo' = undo \ {a})
      /\ (pc' # "undo" => undo' = undo)
  BY <1>2, <1>3
     DEF UndoSwapBack, Refused, Undone, Goto, planVars, endVars, worldVars
<1>6. Over(a) /\ kind[a] = "update" /\ Has(Source(a), a)
  BY <1>1, <1>3, <1>4
     DEF TypeInv, TypeOK, Lossless, Keeping, Undoing, Moves, Due,
         Rolling, Recorded, UndoSwapBack
<1>7. Framed(a)
  <2>1. \A n \in Names \ NamesOf(a) : dir'[n] = dir[n]
    BY <1>2, <1>3, <1>5, OwnNames DEF UndoSwapBack, Undone, Exchange, Directories
  <2> QED
    BY <1>3, <1>5, <2>1, OnlyHere DEF Framed
<1>8. Recorded(a)'
  BY <1>3, <1>4, <1>5 DEF Recorded, ByNow, Owing
<1>9. \/ pc' = "undo" /\ dir' = Exchange(Backup(a), Source(a)) /\ conflict'
      \/ pc' = "undo" /\ dir' = dir /\ conflict'
  BY <1>1, <1>2, <1>3, <1>5, <1>6, OwnNames DEF UndoSwapBack, Refused, Undone, Goto
<1>10. CASE pc' = "undo" /\ dir' = Exchange(Backup(a), Source(a)) /\ conflict'
  <2>1. Loose(a) => Loose(a)'
    BY <1>1, <1>3, <1>4, <1>5, <1>10 DEF Loose, Undoing, Last
  <2>2. Handled(a)
    BY <1>2, <1>3, <1>4, <1>5, <1>6, <1>10, <2>1, OwnNames, ExchangeHandled
  <2>3. Owing' \subseteq Owing
    BY <1>3, <1>7, OwedShrinks
  <2>4. Over(a)'
    BY <1>2, <1>3, <1>4, <1>5, <1>6, <1>10, <2>3, OwnNames, BackupThere
       DEF Over, Has, Copied, Twice, At,
           Dispensable, Recorded, Exchange, Directories, Rewrites, Patch, Owing,
           Whole, Foreign, Staged
  <2> QED
    BY <1>1, <1>3, <1>5, <1>7, <1>8, <1>10, <2>2, <2>4, IsUndoneWhole
<1>11. CASE pc' = "undo" /\ dir' = dir /\ conflict'
  <2>1. Loose(a) => Loose(a)'
    BY <1>1, <1>3, <1>4, <1>5, <1>11 DEF Loose, Undoing, Last
  <2>2. Handled(a)
    BY <1>2, <1>3, <1>4, <1>5, <1>6, <1>11, <2>1, SameHandled
  <2>3. Owing' \subseteq Owing
    BY <1>3, <1>7, OwedShrinks
  <2>4. Over(a)'
    BY <1>2, <1>3, <1>4, <1>5, <1>6, <1>11, <2>3, OwnNames, BackupThere
       DEF Over, Has, Copied, Twice, At,
           Dispensable, Recorded, Directories, Rewrites, Patch, Owing, Whole, Foreign,
           Staged
  <2> QED
    BY <1>1, <1>3, <1>5, <1>7, <1>8, <1>11, <2>2, <2>4, IsUndoneWhole
<1> QED
  BY <1>9, <1>10, <1>11

LEMMA UndoMovedWhole ==
  ASSUME TypeInv, Lossless, UndoMoved
  PROVE  Lossless'
<1>1. undo \subseteq Plan /\ undo # {} /\ pc \in Undoing
  BY LastIsTyped DEF TypeInv, TypeOK, Undoing, UndoMoved, Undo
<1>2. dir \in Directories /\ faults \in Nat /\ conflict \in BOOLEAN
      /\ state \in [Plan -> Files \cup {None}]
  BY BoundsAssumption DEF TypeInv, TypeOK, Directories
<1>3. PICK a \in undo : Last = a /\ a \in Plan
  BY <1>1, LastIsTyped
<1>4. Whole /\ Recorded(a) /\ ~Loose(a)
  BY <1>1, <1>3 DEF Lossless, Loose, Undoing, UndoMoved, Undo
<1>5. /\ UNCHANGED <<kind, state, staged, writes, owed, exposed>>
      /\ faults = 0 \/ faults' # 0
      /\ conflict => conflict'
      /\ undo' \in {undo, undo \ {a}} /\ (pc' = "undo" => undo' = undo \ {a})
      /\ (pc' # "undo" => undo' = undo)
  <2>1. faults' = faults \/ faults' = faults + 1
    BY ZenonT(60) DEF UndoMoved, Refused
  <2>2. faults = 0 \/ faults' # 0
    BY ONLY <1>2, <2>1
  <2>3. pc' # "undo"
    BY DEF UndoMoved, Goto
  <2> QED
    BY <2>2, <2>3 DEF UndoMoved, planVars, endVars, worldVars
<1>6. Due(a) /\ kind[a] \in Moves /\ state[a] # None
  BY <1>1, <1>3, <1>4
     DEF TypeInv, TypeOK, Lossless, Keeping, Undoing, Undo, Moves, Due,
         Rolling, Recorded, UndoMoved
<1>7. Framed(a)
  <2>1. \A n \in Names \ NamesOf(a) : dir'[n] = dir[n]
    BY <1>2, <1>3, <1>5, OwnNames DEF UndoMoved, Directories, Target
  <2> QED
    BY <1>3, <1>5, <2>1, OnlyHere DEF Framed
<1>8. Recorded(a)'
  BY <1>3, <1>4, <1>5 DEF Recorded, ByNow, Owing
<1>9. \/ /\ Goto("undoCheck") /\ dir' = dir
         /\ (matched' => dir[Moved(a)] = Installed(a))
      \/ /\ Goto("undoFast") /\ kind[a] = "rename" /\ dir' = dir /\ matched'
         /\ dir[Moved(a)] = Installed(a)
      \/ /\ Goto("undoLink") /\ dir' = dir
         /\ (matched' => dir[Moved(a)] = Installed(a))
      \/ /\ Goto("undoTarget") /\ dir' = dir /\ failures'
         /\ (matched' => dir[Moved(a)] = Installed(a))
  BY <1>1, <1>2, <1>3, <1>5, <1>6, OwnNames
     DEF UndoMoved, Undo, Target, Moves, Installed, Goto
<1>10. CASE /\ Goto("undoCheck") /\ dir' = dir
            /\ (matched' => dir[Moved(a)] = Installed(a))
  <2>1. Loose(a) => Loose(a)'
    BY <1>1, <1>3, <1>4, <1>5, <1>10 DEF Loose, Undoing, Goto, Last
  <2>2. Handled(a)
    BY <1>2, <1>3, <1>4, <1>5, <1>6, <1>10, <2>1, SameHandled
  <2>3. Owing' \subseteq Owing
    BY <1>3, <1>7, OwedShrinks
  <2>4. Rolling(a)' /\ pc' \in Undoing \ {"undo"}
    BY <1>2, <1>3, <1>4, <1>5, <1>6, <1>10, <2>3, OwnNames, BackupThere
       DEF Due, Over, Rolling, OwnTarget, Has, Copied, Twice, At, Dispensable,
           Recorded, Directories, Moves, Rewrites, Patch, Owing, Whole, Foreign,
           Staged, Installed, Goto, Undoing
  <2> QED
    BY <1>1, <1>3, <1>5, <1>7, <1>8, <1>10, <2>2, <2>4, GoesOnUndoingWhole
<1>11. CASE /\ Goto("undoFast") /\ kind[a] = "rename" /\ dir' = dir /\ matched'
            /\ dir[Moved(a)] = Installed(a)
  <2>1. Loose(a) => Loose(a)'
    BY <1>1, <1>3, <1>4, <1>5, <1>11 DEF Loose, Undoing, Goto, Last
  <2>2. Handled(a)
    BY <1>2, <1>3, <1>4, <1>5, <1>6, <1>11, <2>1, SameHandled
  <2>3. Owing' \subseteq Owing
    BY <1>3, <1>7, OwedShrinks
  <2>4. Rolling(a)' /\ pc' \in Undoing \ {"undo"}
    BY <1>2, <1>3, <1>4, <1>5, <1>6, <1>11, <2>3, OwnNames, BackupThere
       DEF Due, Over, Rolling, OwnTarget, Has, Copied, Twice, At, Dispensable,
           Recorded, Directories, Moves, Rewrites, Patch, Owing, Whole, Foreign,
           Staged, Installed, Goto, Undoing
  <2> QED
    BY <1>1, <1>3, <1>5, <1>7, <1>8, <1>11, <2>2, <2>4, GoesOnUndoingWhole
<1>12. CASE /\ Goto("undoLink") /\ dir' = dir
            /\ (matched' => dir[Moved(a)] = Installed(a))
  <2>1. Loose(a) => Loose(a)'
    BY <1>1, <1>3, <1>4, <1>5, <1>12 DEF Loose, Undoing, Goto, Last
  <2>2. Handled(a)
    BY <1>2, <1>3, <1>4, <1>5, <1>6, <1>12, <2>1, SameHandled
  <2>3. Owing' \subseteq Owing
    BY <1>3, <1>7, OwedShrinks
  <2>4. Rolling(a)' /\ pc' \in Undoing \ {"undo"}
    BY <1>2, <1>3, <1>4, <1>5, <1>6, <1>12, <2>3, OwnNames, BackupThere
       DEF Due, Over, Rolling, OwnTarget, Has, Copied, Twice, At, Dispensable,
           Recorded, Directories, Moves, Rewrites, Patch, Owing, Whole, Foreign,
           Staged, Installed, Goto, Undoing
  <2> QED
    BY <1>1, <1>3, <1>5, <1>7, <1>8, <1>12, <2>2, <2>4, GoesOnUndoingWhole
<1>13. CASE /\ Goto("undoTarget") /\ dir' = dir /\ failures'
            /\ (matched' => dir[Moved(a)] = Installed(a))
  <2>1. Loose(a) => Loose(a)'
    BY <1>1, <1>3, <1>4, <1>5, <1>13 DEF Loose, Undoing, Goto, Last
  <2>2. Handled(a)
    BY <1>2, <1>3, <1>4, <1>5, <1>6, <1>13, <2>1, SameHandled
  <2>3. Owing' \subseteq Owing
    BY <1>3, <1>7, OwedShrinks
  <2>4. Has(Backup(a), a)'
    <3>1. At(Backup(a), state[a].text)
      BY <1>3, <1>6, BackupThere DEF Due, Moves
    <3> QED
      BY <1>5, <1>13, <3>1 DEF Has, At
  <2>5. Rolling(a)' /\ pc' \in Undoing \ {"undo"}
    BY <1>2, <1>3, <1>4, <1>5, <1>6, <1>13, <2>3, <2>4, OwnNames
       DEF Due, Over, Rolling, OwnTarget, At, Dispensable,
           Recorded, Directories, Moves, Rewrites, Patch, Owing, Whole, Foreign,
           Staged, Installed, Goto, Undoing
  <2> QED
    BY <1>1, <1>3, <1>5, <1>7, <1>8, <1>13, <2>2, <2>5, GoesOnUndoingWhole
<1> QED
  BY <1>9, <1>10, <1>11, <1>12, <1>13

LEMMA UndoFastWhole ==
  ASSUME TypeInv, Lossless, UndoFast
  PROVE  Lossless'
<1>1. undo \subseteq Plan /\ undo # {} /\ pc \in Undoing
  BY LastIsTyped DEF TypeInv, TypeOK, Undoing, UndoFast
<1>2. dir \in Directories /\ faults \in Nat /\ conflict \in BOOLEAN
      /\ state \in [Plan -> Files \cup {None}]
  BY BoundsAssumption DEF TypeInv, TypeOK, Directories
<1>3. PICK a \in undo : Last = a /\ a \in Plan
  BY <1>1, LastIsTyped
<1>4. Whole /\ Recorded(a) /\ ~Loose(a)
  BY <1>1, <1>3 DEF Lossless, Loose, Undoing, UndoFast
<1>5. /\ UNCHANGED <<kind, state, staged, writes, owed, exposed>>
      /\ faults = 0 \/ faults' # 0
      /\ conflict => conflict'
      /\ undo' \in {undo, undo \ {a}} /\ (pc' = "undo" => undo' = undo \ {a})
      /\ (pc' # "undo" => undo' = undo)
  BY <1>2, <1>3
     DEF UndoFast, Refused, Undone, Goto, planVars, patchVars, endVars, worldVars
<1>6. /\ Rolling(a) /\ Copied(a) /\ kind[a] = "rename"
      /\ Has(Moved(a), a) /\ (matched => OwnTarget(a))
  BY <1>1, <1>3, <1>4
     DEF TypeInv, TypeOK, Lossless, Keeping, Undoing, Moves, Due,
         Rolling, Recorded, UndoFast
<1>7. Framed(a)
  <2>1. \A n \in Names \ NamesOf(a) : dir'[n] = dir[n]
    BY <1>2, <1>3, <1>5, OwnNames
       DEF UndoFast, Undone, Rename, Without, Directories, Target
  <2> QED
    BY <1>3, <1>5, <2>1, OnlyHere DEF Framed
<1>8. Recorded(a)'
  BY <1>3, <1>4, <1>5 DEF Recorded, ByNow, Owing
<1>9. \/ /\ pc' = "undo" /\ dir[Source(a)] = None
         /\ dir' = [Rename(Moved(a), Source(a)) EXCEPT ![Backup(a)] = None]
      \/ pc' = "undo" /\ dir[Source(a)] = None /\ dir' = Rename(Moved(a), Source(a))
      \/ Goto("undoLink") /\ dir' = dir /\ matched' = matched
  BY <1>1, <1>2, <1>3, <1>5, <1>6, OwnNames
     DEF UndoFast, Without, Undone, Refused, Target, Moves, patchVars, Blocked, Goto,
         Without
<1>10. CASE /\ pc' = "undo" /\ dir[Source(a)] = None
            /\ dir' = [Rename(Moved(a), Source(a)) EXCEPT ![Backup(a)] = None]
  <2>1. Loose(a) => Loose(a)'
    BY <1>1, <1>3, <1>4, <1>5, <1>10 DEF Loose, Undoing, Last
  <2>2. Handled(a)
    <3>1. Dispensable(Source(a))
      BY <1>2, <1>3, <1>4, <1>5, <1>6, <1>10 DEF Dispensable
    <3>2. Twice(Backup(a), Moved(a))
      BY <1>2, <1>3, <1>4, <1>5, <1>6, <1>10, OwnNames DEF Has, Copied, Twice, At
    <3> QED
      BY <1>2, <1>3, <1>4, <1>5, <1>6, <1>10, <2>1, <3>1, <3>2, OwnNames,
         RenameRemoveHandled
  <2>3. Owing' \subseteq Owing
    BY <1>3, <1>7, OwedShrinks
  <2>4. Over(a)'
    BY <1>2, <1>3, <1>4, <1>5, <1>6, <1>10, <2>3, OwnNames, BackupThere
       DEF Over, Rolling, OwnTarget, Has, Copied,
           Twice, At, Dispensable, Recorded, Rename, Directories, Moves, Rewrites,
           Patch, Owing, Whole, Foreign, Staged
  <2> QED
    BY <1>1, <1>3, <1>5, <1>7, <1>8, <1>10, <2>2, <2>4, IsUndoneWhole
<1>11. CASE /\ pc' = "undo" /\ dir[Source(a)] = None
            /\ dir' = Rename(Moved(a), Source(a))
  <2>1. Loose(a) => Loose(a)'
    BY <1>1, <1>3, <1>4, <1>5, <1>11 DEF Loose, Undoing, Last
  <2>2. Handled(a)
    <3>1. Dispensable(Source(a))
      BY <1>2, <1>3, <1>4, <1>5, <1>6, <1>11 DEF Dispensable
    <3> QED
      BY <1>2, <1>3, <1>4, <1>5, <1>6, <1>11, <2>1, <3>1, OwnNames, RenameHandled
  <2>3. Owing' \subseteq Owing
    BY <1>3, <1>7, OwedShrinks
  <2>4. Over(a)'
    BY <1>2, <1>3, <1>4, <1>5, <1>6, <1>11, <2>3, OwnNames, BackupThere
       DEF Over, Rolling, OwnTarget, Has, Copied,
           Twice, At, Dispensable, Recorded, Rename, Directories, Moves, Rewrites,
           Patch, Owing, Whole, Foreign, Staged
  <2> QED
    BY <1>1, <1>3, <1>5, <1>7, <1>8, <1>11, <2>2, <2>4, IsUndoneWhole
<1>12. CASE Goto("undoLink") /\ dir' = dir /\ matched' = matched
  <2>1. Loose(a) => Loose(a)'
    BY <1>1, <1>3, <1>4, <1>5, <1>12 DEF Loose, Undoing, Goto, Last
  <2>2. Handled(a)
    BY <1>2, <1>3, <1>4, <1>5, <1>6, <1>12, <2>1, SameHandled
  <2>3. Owing' \subseteq Owing
    BY <1>3, <1>7, OwedShrinks
  <2>4. Rolling(a)' /\ pc' \in Undoing \ {"undo"}
    BY <1>2, <1>3, <1>4, <1>5, <1>6, <1>12, <2>3, OwnNames, BackupThere
       DEF Over, Rolling, OwnTarget, Has, Copied, Twice, At, Dispensable,
           Recorded, Directories, Moves, Rewrites, Patch, Owing, Whole, Foreign,
           Staged, Goto, Undoing
  <2> QED
    BY <1>1, <1>3, <1>5, <1>7, <1>8, <1>12, <2>2, <2>4, GoesOnUndoingWhole
<1> QED
  BY <1>9, <1>10, <1>11, <1>12

LEMMA UndoLinkWhole ==
  ASSUME TypeInv, Lossless, UndoLink
  PROVE  Lossless'
<1>1. undo \subseteq Plan /\ undo # {} /\ pc \in Undoing
  BY LastIsTyped DEF TypeInv, TypeOK, Undoing, UndoLink
<1>2. dir \in Directories /\ faults \in Nat /\ conflict \in BOOLEAN
      /\ state \in [Plan -> Files \cup {None}]
  BY BoundsAssumption DEF TypeInv, TypeOK, Directories
<1>3. PICK a \in undo : Last = a /\ a \in Plan
  BY <1>1, LastIsTyped
<1>4. Whole /\ Recorded(a) /\ ~Loose(a)
  BY <1>1, <1>3 DEF Lossless, Loose, Undoing, UndoLink
<1>5. /\ UNCHANGED <<kind, state, staged, writes, owed, exposed>>
      /\ faults = 0 \/ faults' # 0
      /\ conflict => conflict'
      /\ undo' \in {undo, undo \ {a}} /\ (pc' = "undo" => undo' = undo \ {a})
      /\ (pc' # "undo" => undo' = undo)
  BY <1>2, <1>3 DEF UndoLink, Refused, Goto, planVars, endVars, worldVars
<1>6. /\ Rolling(a) /\ Copied(a) /\ kind[a] \in Moves /\ state[a] # None
      /\ (matched => OwnTarget(a))
  BY <1>1, <1>3, <1>4
     DEF TypeInv, TypeOK, Lossless, Keeping, Undoing, Moves, Due,
         Rolling, Recorded, UndoLink
<1>7. Framed(a)
  <2>1. \A n \in Names \ NamesOf(a) : dir'[n] = dir[n]
    BY <1>2, <1>3, <1>5, OwnNames DEF UndoLink, Directories
  <2> QED
    BY <1>3, <1>5, <2>1, OnlyHere DEF Framed
<1>8. Recorded(a)'
  BY <1>3, <1>4, <1>5 DEF Recorded, ByNow, Owing
<1>9. \/ /\ Goto("undoTarget") /\ dir[Source(a)] = None
         /\ dir' = [dir EXCEPT ![Source(a)] = dir[Backup(a)]] /\ matched' = matched
      \/ Goto("undoTarget") /\ dir' = dir /\ failures' /\ matched' = matched
  BY <1>1, <1>2, <1>3, <1>5, <1>6, OwnNames DEF UndoLink, Refused, Moves, Goto
<1>10. CASE /\ Goto("undoTarget") /\ dir[Source(a)] = None
            /\ dir' = [dir EXCEPT ![Source(a)] = dir[Backup(a)]]
            /\ matched' = matched
  <2>1. Loose(a)'
    BY <1>1, <1>3, <1>4, <1>5, <1>10 DEF Loose, Undoing, Goto, Last
  <2>2. Handled(a)
    BY <1>2, <1>3, <1>4, <1>5, <1>6, <1>10, <2>1, LinkHandled
  <2>3. Owing' \subseteq Owing
    BY <1>3, <1>7, OwedShrinks
  <2>4. Rolling(a)' /\ pc' \in Undoing \ {"undo"}
    BY <1>2, <1>3, <1>4, <1>5, <1>6, <1>10, <2>3, OwnNames, BackupThere
       DEF Over, Rolling, OwnTarget, Has, Copied, Twice, At, Dispensable,
           Recorded, Directories, Moves, Rewrites, Patch, Owing, Whole, Foreign,
           Staged, Goto, Undoing
  <2> QED
    BY <1>1, <1>3, <1>5, <1>7, <1>8, <1>10, <2>2, <2>4, GoesOnUndoingWhole
<1>11. CASE Goto("undoTarget") /\ dir' = dir /\ failures' /\ matched' = matched
  <2>1. Loose(a) => Loose(a)'
    BY <1>1, <1>3, <1>4, <1>5, <1>11 DEF Loose, Undoing, Goto, Last
  <2>2. Handled(a)
    BY <1>2, <1>3, <1>4, <1>5, <1>6, <1>11, <2>1, SameHandled
  <2>3. Owing' \subseteq Owing
    BY <1>3, <1>7, OwedShrinks
  <2>4. Rolling(a)' /\ pc' \in Undoing \ {"undo"}
    BY <1>2, <1>3, <1>4, <1>5, <1>6, <1>11, <2>3, OwnNames, BackupThere
       DEF Over, Rolling, OwnTarget, Has, Copied, Twice, At, Dispensable,
           Recorded, Directories, Moves, Rewrites, Patch, Owing, Whole, Foreign,
           Staged, Goto, Undoing
  <2> QED
    BY <1>1, <1>3, <1>5, <1>7, <1>8, <1>11, <2>2, <2>4, GoesOnUndoingWhole
<1> QED
  BY <1>9, <1>10, <1>11

LEMMA UndoCheckWhole ==
  ASSUME TypeInv, Lossless, UndoCheck
  PROVE  Lossless'
<1>1. undo \subseteq Plan /\ undo # {} /\ pc \in Undoing
  BY LastIsTyped DEF TypeInv, TypeOK, Undoing, UndoCheck
<1>2. dir \in Directories /\ faults \in Nat /\ conflict \in BOOLEAN
      /\ state \in [Plan -> Files \cup {None}]
  BY BoundsAssumption DEF TypeInv, TypeOK, Directories
<1>3. PICK a \in undo : Last = a /\ a \in Plan
  BY <1>1, LastIsTyped
<1>4. Whole /\ Recorded(a) /\ ~Loose(a)
  BY <1>1, <1>3 DEF Lossless, Loose, Undoing, UndoCheck
<1>5. /\ UNCHANGED <<kind, state, staged, writes, owed, exposed>>
      /\ faults = 0 \/ faults' # 0
      /\ conflict => conflict'
      /\ undo' \in {undo, undo \ {a}} /\ (pc' = "undo" => undo' = undo \ {a})
      /\ (pc' # "undo" => undo' = undo)
  BY <1>2, <1>3 DEF UndoCheck, Refused, Goto, planVars, endVars, worldVars
<1>6. /\ Rolling(a) /\ Copied(a) /\ kind[a] \in Moves /\ state[a] # None
      /\ (matched => OwnTarget(a))
  BY <1>1, <1>3, <1>4
     DEF TypeInv, TypeOK, Lossless, Keeping, Undoing, Moves, Due,
         Rolling, Recorded, UndoCheck
<1>7. Framed(a)
  <2>1. \A n \in Names \ NamesOf(a) : dir'[n] = dir[n]
    BY <1>2, <1>3, <1>5, OwnNames DEF UndoCheck, Directories
  <2> QED
    BY <1>3, <1>5, <2>1, OnlyHere DEF Framed
<1>8. Recorded(a)'
  BY <1>3, <1>4, <1>5 DEF Recorded, ByNow, Owing
<1>9. \/ /\ Goto("undoTarget") /\ (~failures' => dir[Source(a)] = state[a])
         /\ dir' = dir /\ matched' = matched
  BY <1>1, <1>2, <1>3, <1>5, <1>6, OwnNames DEF UndoCheck, Moves, Goto
<1>10. CASE /\ Goto("undoTarget") /\ (~failures' => dir[Source(a)] = state[a])
            /\ dir' = dir /\ matched' = matched
  <2>1. Loose(a) => Loose(a)'
    BY <1>1, <1>3, <1>4, <1>5, <1>10 DEF Loose, Undoing, Goto, Last
  <2>2. Handled(a)
    BY <1>2, <1>3, <1>4, <1>5, <1>6, <1>10, <2>1, SameHandled
  <2>3. Owing' \subseteq Owing
    BY <1>3, <1>7, OwedShrinks
  <2>4. Rolling(a)' /\ pc' \in Undoing \ {"undo"}
    BY <1>2, <1>3, <1>4, <1>5, <1>6, <1>10, <2>3, OwnNames, BackupThere
       DEF Over, Rolling, OwnTarget, Has, Copied, Twice, At, Dispensable,
           Recorded, Directories, Moves, Rewrites, Patch, Owing, Whole, Foreign,
           Staged, Goto, Undoing
  <2> QED
    BY <1>1, <1>3, <1>5, <1>7, <1>8, <1>10, <2>2, <2>4, GoesOnUndoingWhole
<1> QED
  BY <1>9, <1>10

LEMMA UndoTargetWhole ==
  ASSUME TypeInv, Lossless, UndoTarget
  PROVE  Lossless'
<1>1. undo \subseteq Plan /\ undo # {} /\ pc \in Undoing
  BY LastIsTyped DEF TypeInv, TypeOK, Undoing, UndoTarget
<1>2. dir \in Directories /\ faults \in Nat /\ conflict \in BOOLEAN
      /\ state \in [Plan -> Files \cup {None}]
  BY BoundsAssumption DEF TypeInv, TypeOK, Directories
<1>3. PICK a \in undo : Last = a /\ a \in Plan
  BY <1>1, LastIsTyped
<1>4. Whole /\ Recorded(a)
  BY <1>1, <1>3 DEF Lossless, Undoing, UndoTarget
<1>5. /\ UNCHANGED <<kind, state, staged, writes, owed, exposed>>
      /\ faults = 0 \/ faults' # 0
      /\ conflict => conflict'
      /\ undo' \in {undo, undo \ {a}} /\ (pc' = "undo" => undo' = undo \ {a})
      /\ (pc' # "undo" => undo' = undo)
  BY <1>2, <1>3
     DEF UndoTarget, Refused, Undone, Goto, planVars, endVars, worldVars
<1>6. /\ Rolling(a) /\ kind[a] \in Moves /\ (matched => OwnTarget(a))
      /\ IF failures THEN Has(Backup(a), a) ELSE Has(Source(a), a) /\ Twice(Backup(a), Source(a))
  BY <1>1, <1>3, <1>4
     DEF TypeInv, TypeOK, Lossless, Keeping, Undoing, Moves, Due,
         Rolling, Recorded, UndoTarget
<1>7. Framed(a)
  <2>1. \A n \in Names \ NamesOf(a) : dir'[n] = dir[n]
    BY <1>2, <1>3, <1>5, OwnNames
       DEF UndoTarget, Undone, Remove, RemoveAll, Directories, Target
  <2> QED
    BY <1>3, <1>5, <2>1, OnlyHere DEF Framed
<1>8. Recorded(a)'
  BY <1>3, <1>4, <1>5 DEF Recorded, ByNow, Owing
<1>9. \/ /\ pc' = "undo" /\ ~failures /\ (dir[Moved(a)] = None \/ matched)
         /\ dir' = RemoveAll({Moved(a), Backup(a)})
      \/ /\ pc' = "undo" /\ failures /\ (dir[Moved(a)] = None \/ matched)
         /\ dir' = Remove(Moved(a))
      \/ /\ pc' = "undo" /\ ~failures /\ (dir[Moved(a)] = None \/ matched)
         /\ dir' = Remove(Moved(a))
      \/ pc' = "undo" /\ dir' = dir
  BY <1>1, <1>2, <1>3, <1>5, <1>6, OwnNames
     DEF UndoTarget, Undone, Refused, Target, Moves, Goto
<1>10. CASE /\ pc' = "undo" /\ ~failures /\ (dir[Moved(a)] = None \/ matched)
            /\ dir' = RemoveAll({Moved(a), Backup(a)})
  <2>1. Loose(a) => Loose(a)'
    BY <1>1, <1>3, <1>4, <1>5, <1>10 DEF Loose, Undoing, Last
  <2>2. Handled(a)
    <3>1. Twice(Moved(a), Source(a)) /\ Twice(Backup(a), Source(a))
      BY <1>2, <1>3, <1>4, <1>5, <1>6, <1>10, OwnNames DEF OwnTarget, Has, Twice, At
    <3> QED
      BY <1>2, <1>3, <1>4, <1>5, <1>6, <1>10, <2>1, <3>1, OwnNames, RemoveHandled
  <2>3. Owing' \subseteq Owing
    BY <1>3, <1>7, OwedShrinks
  <2>4. Over(a)'
    BY <1>2, <1>3, <1>4, <1>5, <1>6, <1>10, <2>3, OwnNames, BackupThere
       DEF Over, Rolling, OwnTarget, Has, Copied,
           Twice, At, Dispensable, Recorded, RemoveAll, Directories, Moves, Rewrites,
           Patch, Owing, Whole, Foreign, Staged
  <2> QED
    BY <1>1, <1>3, <1>5, <1>7, <1>8, <1>10, <2>2, <2>4, IsUndoneWhole
<1>11. CASE /\ pc' = "undo" /\ failures /\ (dir[Moved(a)] = None \/ matched)
            /\ dir' = Remove(Moved(a))
  <2>1. Loose(a) => Loose(a)'
    BY <1>1, <1>3, <1>4, <1>5, <1>11 DEF Loose, Undoing, Last
  <2>2. Handled(a)
    <3>1. Twice(Moved(a), Backup(a))
      BY <1>2, <1>3, <1>4, <1>5, <1>6, <1>11, OwnNames, BackupThere
         DEF Has, Copied, Twice, At, OwnTarget, Owing
    <3>2. dir' = RemoveAll({Moved(a)})
      BY <1>2, <1>3, <1>4, <1>5, <1>6, <1>11, OwnNames, RemoveOne
    <3> QED
      BY <1>2, <1>3, <1>4, <1>5, <1>6, <1>11, <2>1, <3>1, <3>2, OwnNames,
         RemoveHandled
  <2>3. Owing' \subseteq Owing
    BY <1>3, <1>7, OwedShrinks
  <2>4. Over(a)'
    BY <1>2, <1>3, <1>4, <1>5, <1>6, <1>11, <2>3, OwnNames, BackupThere
       DEF Over, Rolling, OwnTarget, Has, Copied,
           Twice, At, Dispensable, Recorded, Remove, Directories, Moves, Rewrites,
           Patch, Owing, Whole, Foreign, Staged
  <2> QED
    BY <1>1, <1>3, <1>5, <1>7, <1>8, <1>11, <2>2, <2>4, IsUndoneWhole
<1>12. CASE /\ pc' = "undo" /\ ~failures /\ (dir[Moved(a)] = None \/ matched)
            /\ dir' = Remove(Moved(a))
  <2>1. Loose(a) => Loose(a)'
    BY <1>1, <1>3, <1>4, <1>5, <1>12 DEF Loose, Undoing, Last
  <2>2. Handled(a)
    <3>1. Twice(Moved(a), Source(a))
      BY <1>2, <1>3, <1>4, <1>5, <1>6, <1>12, OwnNames
         DEF Has, Twice, At, OwnTarget, Owing
    <3>2. dir' = RemoveAll({Moved(a)})
      BY <1>2, <1>3, <1>4, <1>5, <1>6, <1>12, OwnNames, RemoveOne
    <3> QED
      BY <1>2, <1>3, <1>4, <1>5, <1>6, <1>12, <2>1, <3>1, <3>2, OwnNames,
         RemoveHandled
  <2>3. Owing' \subseteq Owing
    BY <1>3, <1>7, OwedShrinks
  <2>4. Over(a)'
    BY <1>2, <1>3, <1>4, <1>5, <1>6, <1>12, <2>3, OwnNames, BackupThere
       DEF Over, Rolling, OwnTarget, Has, Copied,
           Twice, At, Dispensable, Recorded, Remove, Directories, Moves, Rewrites,
           Patch, Owing, Whole, Foreign, Staged
  <2> QED
    BY <1>1, <1>3, <1>5, <1>7, <1>8, <1>12, <2>2, <2>4, IsUndoneWhole
<1>13. CASE pc' = "undo" /\ dir' = dir
  <2>1. Loose(a) => Loose(a)'
    BY <1>1, <1>3, <1>4, <1>5, <1>13 DEF Loose, Undoing, Last
  <2>2. Handled(a)
    BY <1>2, <1>3, <1>4, <1>5, <1>6, <1>13, <2>1, SameHandled
  <2>3. Owing' \subseteq Owing
    BY <1>3, <1>7, OwedShrinks
  <2>4. Over(a)'
    BY <1>2, <1>3, <1>4, <1>5, <1>6, <1>13, <2>3, OwnNames, BackupThere
       DEF Over, Rolling, OwnTarget, Has, Copied,
           Twice, At, Dispensable, Recorded, Directories, Moves, Rewrites, Patch,
           Owing, Whole, Foreign, Staged
  <2> QED
    BY <1>1, <1>3, <1>5, <1>7, <1>8, <1>13, <2>2, <2>4, IsUndoneWhole
<1> QED
  BY <1>9, <1>10, <1>11, <1>12, <1>13

-----------------------------------------------------------------------------
(* The other programs                                                      *)

\* What another program writes is new.
LEMMA WriterIsNew ==
  ASSUME TypeInv, Whole, \A i \in Plan : Recorded(i)
  PROVE  /\ \A n \in Names : dir[n] # None => dir[n].ino # Writer /\ dir[n].text # Writer
         /\ \A i \in Plan : state[i] # None => state[i].text # Writer
         /\ Writer \notin Owing
<1>1. ~ByNow(Writer)
  BY BoundsAssumption DEF ByNow, Writer, TypeInv, TypeOK
<1>2. \A n \in Names : dir[n] # None => dir[n].ino # Writer /\ dir[n].text # Writer
  BY <1>1 DEF Whole, Dated
<1>3. Writer \notin Owing
  BY <1>2 DEF Whole, NothingLost, Owing, Kept
<1> QED
  BY <1>1, <1>2, <1>3 DEF Recorded

\* A name that shows what another program did at path p.
Hit(n, p) ==
  /\ \/ n = p
     \/ /\ \E i \in Plan : p = Source(i) /\ n = Backup(i) /\ Loose(i)
        /\ dir[n] # None /\ dir[n] = dir[p] /\ dir'[n] # None /\ dir'[n] = dir'[p]
  /\ dir[n] # None => dir[n].text \notin Owing'
  /\ dir'[n] # None =>
       /\ dir'[n].text = Writer
       /\ dir'[n].ino = Writer \/ (dir[n] # None /\ dir'[n].ino = dir[n].ino)

\* What another program leaves of the patch when it writes at path p.
Disturbed(p) ==
  /\ UNCHANGED <<kind, state, staged, undo, matched, failures, conflict, ctxDone,
                 pc, at>>
  /\ writes' = writes + 1
  /\ \A c \in Owing' : c # Writer => c \in Owing
  /\ Trusted(p) => Writer \notin Owing'
  /\ \A n \in Names : dir'[n] = dir[n] \/ Hit(n, p)

LEMMA WorldDisturbs ==
  ASSUME TypeInv, Whole, \A i \in Plan : Recorded(i),
         NEW p \in InUse, Replace(p) \/ RewriteInPlace(p) \/ Unlink(p)
  PROVE  Disturbed(p) /\ Whole'
<1>1. dir \in Directories /\ p \in Names
  BY NamesAreTyped DEF Directories, TypeInv, TypeOK, InUse
<1>2. PICK d, new : /\ Change(p, d, new)
                    /\ IF RewriteInPlace(p) THEN new = {Writer}
                       ELSE (Replace(p) /\ new = {Writer}) \/ (Unlink(p) /\ new = {})
  BY DEF Replace, RewriteInPlace, Unlink
<1>3. UNCHANGED <<kind, state, staged, undo, matched, failures, conflict, ctxDone,
                  pc, at>> /\ writes' = writes + 1
  BY <1>2 DEF Change, planVars, patchVars, endVars
<1>4. /\ owed' = (IF dir[p] = None THEN owed ELSE owed \ {dir[p].text}) \cup new
      /\ exposed' = IF Trusted(p) THEN exposed \cup new ELSE exposed
  BY <1>2 DEF Change
<1>5. /\ \A c \in Owing' : (c # Writer => c \in Owing) /\ (c = Writer => Writer \in new)
      /\ Trusted(p) => Writer \notin Owing'
      /\ dir[p] # None => dir[p].text \notin Owing'
  BY <1>1, <1>2, <1>4, WriterIsNew DEF Owing
<1>6. [ino |-> Writer, text |-> Writer] # None
      /\ \A n \in Names : dir[n] # None =>
           /\ [dir[n] EXCEPT !.text = Writer] # None
           /\ [dir[n] EXCEPT !.text = Writer].text = Writer
           /\ [dir[n] EXCEPT !.text = Writer].ino = dir[n].ino
  <2>1. Writer \in Origins
    BY <1>2, BoundsAssumption
       DEF Change, Writer, Origins, TypeInv, TypeOK
  <2>2. \A n \in Names : dir[n] # None => [dir[n] EXCEPT !.text = Writer] \in Files
    BY <1>1, <2>1 DEF Directories, Files
  <2>3. [ino |-> Writer, text |-> Writer] \in Files
    BY <2>1 DEF Files
  <2>4. \A n \in Names : dir[n] # None => dir[n] \in Files
    BY <1>1 DEF Directories
  <2> QED
    BY <2>2, <2>3, <2>4, NoneAssumption DEF Files
<1>7. ASSUME ~RewriteInPlace(p) PROVE Disturbed(p) /\ NothingLost' /\ OneName'
  <2>1. /\ \A n \in Names : n # p => dir'[n] = dir[n]
        /\ \/ dir'[p] = [ino |-> Writer, text |-> Writer] /\ new = {Writer}
           \/ dir'[p] = None /\ new = {}
    BY <1>1, <1>2, <1>7 DEF Replace, Unlink, Change, Remove, Directories
  <2>2. \A n \in Names : dir'[n] = dir[n] \/ Hit(n, p)
    BY <1>5, <1>6, <2>1 DEF Hit
  <2>3. NothingLost'
    <3> SUFFICES ASSUME NEW c \in Owing' PROVE Kept(c)'
      BY DEF NothingLost, Owing
    <3>1. CASE c = Writer
      BY <1>1, <1>5, <1>6, <2>1, <3>1 DEF Kept
    <3>2. CASE c # Writer
      BY <1>1, <1>5, <2>1, <3>2 DEF Whole, NothingLost, Owing, Kept
    <3> QED
      BY <3>1, <3>2
  <2>4. OneName'
    <3> SUFFICES ASSUME NEW n \in Names, NEW m \in Names, Alike(n, m)'
                 PROVE  dir'[n] = dir'[m] /\ \E i \in Plan : Linked(i, n, m)'
      BY DEF OneName
    <3>1. n # p /\ m # p
      BY <2>1, WriterIsNew DEF Alike
    <3>2. Alike(n, m) /\ dir'[n] = dir[n] /\ dir'[m] = dir[m]
      BY <2>1, <3>1 DEF Alike
    <3> QED
      BY <1>3, <3>2 DEF Whole, OneName, Linked, Loose, Last
  <2> QED
    BY <1>3, <1>5, <2>2, <2>3, <2>4 DEF Disturbed
<1>8. ASSUME RewriteInPlace(p) PROVE Disturbed(p) /\ NothingLost' /\ OneName'
  <2> DEFINE same(n) == dir[n] # None /\ dir[n].ino = dir[p].ino
  <2>1. /\ dir[p] # None /\ new = {Writer}
        /\ \A n \in Names : dir'[n] = IF same(n) THEN [dir[n] EXCEPT !.text = Writer]
                                      ELSE dir[n]
    BY <1>2, <1>8 DEF RewriteInPlace, Change
  <2>2. ASSUME NEW n \in Names, same(n), n # p
        PROVE  dir[n] = dir[p] /\ \E i \in Plan : p = Source(i) /\ n = Backup(i) /\ Loose(i)
    <3>1. Alike(n, p)
      BY <2>1, <2>2 DEF Alike
    <3>2. PICK i \in Plan : dir[n] = dir[p] /\ Linked(i, n, p)
      BY <1>1, <3>1 DEF Whole, OneName
    <3>3. p # Backup(i)
      BY DEF InUse, Backup, Source, Target, Moved
    <3> QED
      BY <3>2, <3>3 DEF Linked
  <2>3. \A n \in Names : same(n) => dir'[n] # None /\ dir'[n].text = Writer
    BY <1>6, <2>1
  <2>4. \A n \in Names : dir'[n] = dir[n] \/ Hit(n, p)
    <3> SUFFICES ASSUME NEW n \in Names, same(n) PROVE Hit(n, p)
      BY <2>1
    <3>1. /\ dir'[n] # None /\ dir'[n].text = Writer /\ dir'[n].ino = dir[n].ino
          /\ dir[n].text \notin Owing'
      BY <1>1, <1>5, <1>6, <2>1, <2>2, <2>3
    <3>2. CASE n # p
      <4>1. dir[n] = dir[p] /\ \E i \in Plan : p = Source(i) /\ n = Backup(i) /\ Loose(i)
        BY <2>2, <3>2
      <4>2. dir'[n] = dir'[p]
        BY <1>1, <2>1, <4>1
      <4> QED
        BY <3>1, <4>1, <4>2 DEF Hit
    <3> QED
      BY <3>1, <3>2 DEF Hit
  <2>5. NothingLost'
    <3> SUFFICES ASSUME NEW c \in Owing' PROVE Kept(c)'
      BY DEF NothingLost, Owing
    <3>1. CASE c = Writer
      BY <1>1, <2>1, <2>3, <3>1 DEF Kept
    <3>2. CASE c # Writer
      <4>1. PICK n \in Names : dir[n] # None /\ dir[n].text = c
        BY <1>5, <3>2 DEF Whole, NothingLost, Owing, Kept
      <4>2. dir'[n] = dir[n]
        BY <1>5, <2>1, <2>2, <4>1
      <4> QED
        BY <4>1, <4>2 DEF Kept
    <3> QED
      BY <3>1, <3>2
  <2>6. OneName'
    <3> SUFFICES ASSUME NEW n \in Names, NEW m \in Names, Alike(n, m)'
                 PROVE  dir'[n] = dir'[m] /\ \E i \in Plan : Linked(i, n, m)'
      BY DEF OneName
    <3>1. Alike(n, m)
      BY <1>6, <2>1 DEF Alike
    <3>2. PICK i \in Plan : dir[n] = dir[m] /\ Linked(i, n, m)
      BY <3>1 DEF Whole, OneName
    <3>3. dir'[n] = dir'[m]
      BY <2>1, <3>2
    <3> QED
      BY <1>3, <3>2, <3>3 DEF Linked, Loose, Last
  <2> QED
    BY <1>3, <1>5, <2>4, <2>5, <2>6 DEF Disturbed
<1>9. Disturbed(p) /\ NothingLost' /\ OneName'
  BY <1>7, <1>8
<1>10. Foreign'
  <2>1. new \subseteq {Writer} /\ Writer[2] = "writer"
    BY <1>2 DEF Writer
  <2>2. \A c \in owed' : c \in owed \/ c = Writer
    BY <1>4, <2>1
  <2> QED
    BY <2>1, <2>2 DEF Whole, Foreign
<1>11. Dated'
  <2> SUFFICES ASSUME NEW n \in Names, dir'[n] # None
               PROVE  (ByNow(dir[n].ino) /\ ByNow(dir[n].text))'
    BY DEF Dated
  <2>1. \A o \in Origins : (ByNow(o) \/ o = Writer) => (o[2] = "writer" => o[1] <= writes')
    BY <1>3, BoundsAssumption
       DEF ByNow, Writer, Origins, TypeInv, TypeOK
  <2>2. dir[n] # None => dir[n].ino \in Origins /\ dir[n].text \in Origins
    BY <1>1 DEF Directories, Files
  <2>3. Writer \in Origins
    BY <1>2, BoundsAssumption
       DEF Change, Writer, Origins, TypeInv, TypeOK
  <2>4. CASE dir'[n] = dir[n]
    BY <2>1, <2>2, <2>4 DEF Whole, Dated, ByNow
  <2>5. CASE Hit(n, p)
    BY <2>1, <2>2, <2>3, <2>5 DEF Whole, Dated, ByNow, Hit
  <2> QED
    BY <1>9, <2>4, <2>5 DEF Disturbed
<1> QED
  BY <1>9, <1>10, <1>11 DEF Whole

\* What another program leaves of the files of an action.
LEMMA WorldSpares ==
  ASSUME TypeInv, NEW p \in InUse, Disturbed(p), NEW i \in Plan
  PROVE  /\ \A n \in Names : \A c \in Owing' : At(n, c) => At(n, c)'
         /\ dir'[Staged(i)] = dir[Staged(i)] /\ dir'[Removed(i)] = dir[Removed(i)]
         /\ dir[Backup(i)] = None \/ ~Loose(i) => dir'[Backup(i)] = dir[Backup(i)]
         /\ \/ dir'[Backup(i)] = dir[Backup(i)]
            \/ p = Source(i) /\ dir'[Backup(i)] # None /\ dir'[Backup(i)] = dir'[Source(i)]
         /\ \A n \in Names : dir[n] # None /\ dir'[n] # dir[n] => dir[n].text \notin Owing'
<1>1. /\ Staged(i) \in Names \ InUse /\ Removed(i) \in Names \ InUse
      /\ Backup(i) \in Names \ InUse
  BY NamesAreTyped DEF InUse, Source, Target, Moved, Staged, Removed, Backup
<1>2. \A j \in Plan : Backup(j) # Staged(i) /\ Backup(j) # Removed(i)
                      /\ (Backup(j) = Backup(i) => j = i)
  BY DEF Staged, Removed, Backup
<1>3. dir'[Staged(i)] = dir[Staged(i)] /\ dir'[Removed(i)] = dir[Removed(i)]
  BY <1>1, <1>2 DEF Disturbed, Hit
<1>4. \/ dir'[Backup(i)] = dir[Backup(i)]
      \/ /\ p = Source(i) /\ Loose(i) /\ dir[Backup(i)] # None
         /\ dir'[Backup(i)] # None /\ dir'[Backup(i)] = dir'[Source(i)]
  BY <1>1, <1>2 DEF Disturbed, Hit
<1>5. \A n \in Names : dir[n] # None /\ dir'[n] # dir[n] => dir[n].text \notin Owing'
  BY DEF Disturbed, Hit
<1>6. \A n \in Names : \A c \in Owing' : At(n, c) => At(n, c)'
  BY <1>5 DEF At
<1> QED
  BY <1>3, <1>4, <1>5, <1>6

LEMMA WorldSparesAction ==
  ASSUME TypeInv, Whole, \A j \in Plan : Recorded(j), NEW p \in InUse, Disturbed(p),
         NEW i \in Plan, kind[i] # "add" => state[i] # None
  PROVE  /\ \A n \in Names : Has(n, i) => Has(n, i)'
         /\ Dispensable(Staged(i)) => Dispensable(Staged(i))'
         /\ Copied(i) /\ ~Loose(i) => Copied(i)'
         /\ Intact(i) => Intact(i)'
         /\ Ready(i) => Ready(i)'
         /\ Carried(i) /\ ~Loose(i) => Carried(i)'
         /\ Due(i) /\ ~Loose(i) => Due(i)'
         /\ Over(i) => Over(i)'
<1>1. UNCHANGED <<kind, state, staged, undo, conflict>>
  BY DEF Disturbed
<1>2. \A c \in Owing' : c # Writer => c \in Owing
  BY DEF Disturbed
<1>3. ASSUME NEW n \in Names, Has(n, i) PROVE Has(n, i)'
  <2> SUFFICES ASSUME kind[i] # "add", state[i].text \in Owing' PROVE At(n, state[i].text)'
    BY <1>1 DEF Has, At
  <2>1. state[i].text # Writer
    BY WriterIsNew
  <2>2. At(n, state[i].text)
    BY <1>2, <1>3, <2>1 DEF Has
  <2> QED
    BY <1>1, <2>2, WorldSpares DEF At
<1>4. /\ dir'[Staged(i)] = dir[Staged(i)] /\ dir'[Removed(i)] = dir[Removed(i)]
      /\ dir[Backup(i)] = None \/ ~Loose(i) => dir'[Backup(i)] = dir[Backup(i)]
      /\ \/ dir'[Backup(i)] = dir[Backup(i)]
         \/ p = Source(i) /\ dir'[Backup(i)] # None /\ dir'[Backup(i)] = dir'[Source(i)]
  BY WorldSpares
<1>5. \A n \in {Staged(i), Backup(i), Removed(i)} : dir[n] # None => dir[n].text # Writer
  BY WriterIsNew, OwnNames
<1>6. Dispensable(Staged(i)) => Dispensable(Staged(i))'
  BY <1>2, <1>4, <1>5 DEF Dispensable
<1>7. Copied(i) /\ ~Loose(i) => Copied(i)'
  BY <1>1, <1>4 DEF Copied
<1>8. Intact(i) => Intact(i)'
  BY <1>1, <1>3, <1>4, <1>6, OwnNames DEF Intact
<1>9. Ready(i) => Ready(i)'
  <2> SUFFICES ASSUME Ready(i) PROVE Ready(i)'
    OBVIOUS
  <2>1. Backup(i) # Writer
    BY DEF Backup, Writer
  <2>2. \A n \in Names : dir'[n] # None => dir'[n].ino # Backup(i)
    BY <2>1 DEF Ready, Unused, Disturbed, Hit
  <2> QED
    BY <1>4, <1>8, <2>2 DEF Ready, Unused, Backup
<1>10. Carried(i) /\ ~Loose(i) => Carried(i)'
  BY <1>1, <1>3, <1>7, OwnNames DEF Carried
<1>11. Over(i) => Over(i)'
  BY <1>1, <1>6 DEF Over
<1> QED
  BY <1>3, <1>6, <1>7, <1>8, <1>9, <1>10, <1>11 DEF Due

\* The path the next call relies on holds nothing that is owed.
LEMMA TrustedIsExposed ==
  ASSUME TypeInv, Whole, \A j \in Plan : Recorded(j), NEW p \in InUse, Disturbed(p),
         NEW i \in Plan
  PROVE  /\ pc = "swapBack" /\ at = i /\ Dispensable(Source(i)) => Dispensable(Source(i))'
         /\ pc = "undoRemove" /\ Last = i /\ Dispensable(Source(i)) => Dispensable(Source(i))'
         /\ pc \in {"undoFast", "undoLink", "undoCheck", "undoTarget"} /\ Last = i
              /\ matched /\ kind[i] \in Moves /\ OwnTarget(i) => OwnTarget(i)'
<1>1. /\ UNCHANGED <<kind, state, pc, at, undo>>
      /\ \A c \in Owing' : c # Writer => c \in Owing
      /\ Trusted(p) => Writer \notin Owing'
  BY DEF Disturbed
<1>2. ASSUME NEW n \in {Source(i), Moved(i)}, p = n => Writer \notin Owing', dir'[n] # None
      PROVE  dir'[n].text \notin Owing' \/ dir'[n] = dir[n]
  <2>1. \A j \in Plan : n # Backup(j)
    BY DEF Source, Moved, Backup
  <2>2. n \in Names
    BY NamesAreTyped
  <2> QED
    BY <1>2, <2>1, <2>2 DEF Disturbed, Hit
<1>3. dir[Source(i)] # None => dir[Source(i)].text # Writer
  BY WriterIsNew, NamesAreTyped
<1>4. dir[Moved(i)] # None => dir[Moved(i)].text # Writer
  BY WriterIsNew, NamesAreTyped
<1>5. ASSUME Dispensable(Source(i)), Source(i) = p => Trusted(p)
      PROVE  Dispensable(Source(i))'
  BY <1>1, <1>2, <1>3, <1>5 DEF Dispensable
<1>6. ASSUME OwnTarget(i), Moved(i) = p => Trusted(p)
      PROVE  OwnTarget(i)'
  BY <1>1, <1>2, <1>4, <1>6 DEF OwnTarget
<1> QED
  BY <1>5, <1>6 DEF Trusted, Target

\* Nothing another program does takes from the patch what it needs.
LEMMA WorldWhole ==
  ASSUME TypeInv, Lossless, pc # "done", NEW p \in InUse,
         Replace(p) \/ RewriteInPlace(p) \/ Unlink(p)
  PROVE  Lossless'
<1>1. Whole /\ \A i \in Plan : Recorded(i)
  BY DEF Lossless
<1>2. Disturbed(p) /\ Whole'
  BY <1>1, WorldDisturbs
<1>3. UNCHANGED <<kind, state, staged, undo, matched, failures, conflict, ctxDone, pc, at>> /\ Last' = Last
  BY <1>2 DEF Disturbed, Last
<1>4. \A c \in Owing' : c # Writer => c \in Owing
  BY <1>2 DEF Disturbed
<1>5. ASSUME NEW i \in Plan PROVE Recorded(i)'
  <2>1. \A o \in Origins : ByNow(o) => (o[2] = "writer" => o[1] <= writes')
    BY <1>2, BoundsAssumption
       DEF Disturbed, ByNow, Origins, TypeInv, TypeOK
  <2>2. state[i] # None => state[i].text \in Origins
    BY DEF TypeInv, TypeOK, Files
  <2> QED
    BY <1>1, <1>3, <1>4, <2>1, <2>2 DEF Recorded, ByNow
<1>6. ASSUME NEW i \in Plan
      PROVE  Loose(i)' = Loose(i)
  BY <1>3 DEF Loose
<1>7. CASE pc \in {"plan", "stage"}
  <2>1. ASSUME NEW i \in Plan, kind[i] # "add" => state[i] # None, Has(Source(i), i)
        PROVE  Has(Source(i), i)'
    BY <1>1, <1>2, <2>1, WorldSparesAction, OwnNames
  <2>2. /\ pc = "plan" => \A i \in Plan : i < at => Has(Source(i), i)'
        /\ pc = "stage" => \A i \in Plan : Has(Source(i), i)'
    BY <1>7, <2>1 DEF Lossless, Keeping, TypeInv, TypeOK
  <2>3. \A i \in Plan : Empty(Own(i))'
    <3> SUFFICES ASSUME NEW i \in Plan PROVE Empty(Own(i))'
      OBVIOUS
    <3>1. Empty(Own(i))
      BY <1>7 DEF Lossless, Keeping
    <3> QED
      BY <1>2, <3>1, WorldSpares DEF Empty, Own
  <2>4. \A n \in Names : dir'[n] # None => dir'[n].ino[2] \notin {"staged", "backup"}
    <3>1. Writer[2] = "writer"
      BY DEF Writer
    <3> QED
      BY <1>2, <1>7, <3>1 DEF Lossless, Keeping, Disturbed, Hit
  <2>5. undo = {} /\ staged = {}
    BY <1>7 DEF Lossless, Keeping
  <2>6. Keeping'
    BY <1>3, <1>7, <2>2, <2>3, <2>4, <2>5 DEF Keeping, Looping, Undoing
  <2> QED
    BY <1>2, <1>5, <2>6 DEF Lossless
<1>8. CASE pc \notin {"plan", "stage"}
  <2>1. ASSUME NEW i \in Plan
        PROVE  /\ \A n \in Names : Has(n, i) => Has(n, i)'
               /\ Dispensable(Staged(i)) => Dispensable(Staged(i))'
               /\ Copied(i) /\ ~Loose(i) => Copied(i)'
               /\ Intact(i) => Intact(i)'
               /\ Ready(i) => Ready(i)'
               /\ Carried(i) /\ ~Loose(i) => Carried(i)'
               /\ Due(i) /\ ~Loose(i) => Due(i)'
               /\ Over(i) => Over(i)'
    <3>1. kind[i] # "add" => state[i] # None
      BY <1>8 DEF TypeInv, TypeOK
    <3> QED
      BY <1>1, <1>2, <3>1, WorldSparesAction
  <2>2. CASE pc \in Looping \cup {"commit", "revalidate"}
    <3>1. \A i \in Plan : ~Loose(i)
      BY <2>2, NothingLoose
    <3>2. ASSUME NEW i \in Plan, i = at, pc \in Looping PROVE AtHand(i)'
      <4>1. AtHand(i) /\ ~Loose(i)
        BY <3>1, <3>2 DEF Lossless, Keeping
      <4>2. dir[Removed(i)] = None => dir'[Removed(i)] = None
        BY <1>2, WorldSpares
      <4>3. pc = "swapBack" => Dispensable(Source(i))'
        BY <1>1, <1>2, <3>2, <4>1, TrustedIsExposed DEF AtHand
      <4>4. Copied(i) => Copied(i)'
        BY <2>1, <4>1
      <4>5. Intact(i) => Intact(i)'
        BY <2>1
      <4>6. Ready(i) => Ready(i)'
        BY <2>1
      <4>7. /\ Has(Source(i), i) => Has(Source(i), i)'
            /\ Has(Moved(i), i) => Has(Moved(i), i)'
            /\ Has(Removed(i), i) => Has(Removed(i), i)'
        BY <2>1, OwnNames
      <4>8. kind' = kind /\ staged' = staged /\ undo' = undo /\ pc' = pc
        BY <1>3
      <4>9. CASE pc \in {"validate", "backup", "recheck", "install"}
        BY <4>1, <4>4, <4>5, <4>6, <4>8, <4>9 DEF AtHand
      <4>10. CASE pc \in {"verify", "swapBack", "moveBack"}
        BY <4>1, <4>3, <4>4, <4>7, <4>8, <4>10 DEF AtHand
      <4>11. CASE pc \in {"take", "settle", "putBack"}
        BY <4>1, <4>2, <4>4, <4>7, <4>8, <4>11 DEF AtHand
      <4> QED
        BY <3>2, <4>9, <4>10, <4>11 DEF Looping
    <3>3. /\ pc \in Looping => \A i \in Plan : (i < at => Carried(i)') /\ (i > at => Ready(i)')
          /\ pc = "commit" => \A i \in Plan : Carried(i)'
          /\ pc = "revalidate" => \A i \in Plan : Ready(i)'
      BY <2>1, <3>1 DEF Lossless, Keeping
    <3>4. pc' = pc /\ at' = at
      BY <1>3
    <3>5. ASSUME pc \in Looping PROVE Keeping'
      <4>1. \A i \in Plan : i = at' => AtHand(i)'
        BY <3>2, <3>4, <3>5
      <4>2. \A i \in Plan : (i < at' => Carried(i)') /\ (i > at' => Ready(i)')
        BY <3>3, <3>4, <3>5
      <4>3. pc' \notin {"plan", "stage", "revalidate", "commit"} /\ pc' \notin Undoing
        BY <3>4, <3>5 DEF Looping, Undoing
      <4> QED
        BY <4>1, <4>2, <4>3 DEF Keeping
    <3>6. ASSUME pc \in {"commit", "revalidate"} PROVE Keeping'
      <4>1. pc' \notin {"plan", "stage"} /\ pc' \notin Looping /\ pc' \notin Undoing
        BY <3>4, <3>6 DEF Looping, Undoing
      <4> QED
        BY <3>3, <3>4, <4>1 DEF Keeping
    <3>7. Keeping'
      BY <2>2, <3>5, <3>6
    <3> QED
      BY <1>2, <1>5, <3>7 DEF Lossless
  <2>3. CASE pc \in Undoing
    <3>1. ASSUME NEW i \in Plan, i \in undo, pc # "undo" /\ i = Last PROVE Rolling(i)'
      <4>1. Rolling(i) /\ (pc # "undoTarget" => ~Loose(i))
        BY <2>3, <3>1 DEF Lossless, Keeping, Loose
      <4>2. pc = "undoRemove" => Dispensable(Source(i))'
        BY <1>1, <1>2, <3>1, <4>1, TrustedIsExposed DEF Rolling
      <4>3. pc \in {"undoFast", "undoLink", "undoCheck", "undoTarget"} /\ matched => OwnTarget(i)'
        BY <1>1, <1>2, <3>1, <4>1, TrustedIsExposed DEF Rolling
      <4>4. Twice(Backup(i), Source(i)) => Twice(Backup(i), Source(i))'
        <5> SUFFICES ASSUME Twice(Backup(i), Source(i)), dir'[Backup(i)] # None,
                            dir'[Backup(i)].text \in Owing'
                     PROVE  At(Source(i), dir[Backup(i)].text)'
          BY DEF Twice
        <5>1. CASE dir'[Backup(i)] = dir[Backup(i)]
          <6>1. dir[Backup(i)].text \in Owing
            BY <1>1, <1>4, <5>1, WriterIsNew, OwnNames
          <6>2. At(Source(i), dir[Backup(i)].text)
            BY <5>1, <6>1 DEF Twice
          <6> QED
            BY <1>2, <5>1, <6>2, WorldSpares, OwnNames DEF At
        <5>2. CASE dir'[Backup(i)] # dir[Backup(i)]
          BY <1>2, <5>2, WorldSpares DEF At
        <5> QED
          BY <5>1, <5>2
      <4> QED
        BY <1>3, <2>1, <4>1, <4>2, <4>3, <4>4, OwnNames DEF Rolling
    <3>2. ASSUME NEW i \in Plan
          PROVE  /\ i \notin undo => Over(i)'
                 /\ i \in undo /\ (pc = "undo" \/ i # Last) => Due(i)'
      <4>1. i \notin undo => Over(i)
        BY <2>3 DEF Lossless, Keeping
      <4>2. i \in undo /\ (pc = "undo" \/ i # Last) => Due(i) /\ ~Loose(i)
        BY <2>3 DEF Lossless, Keeping, Loose
      <4> QED
        BY <2>1, <4>1, <4>2
    <3>3. Keeping'
      BY <1>3, <2>3, <3>1, <3>2 DEF Keeping, Looping, Undoing
    <3> QED
      BY <1>2, <1>5, <3>3 DEF Lossless
  <2> QED
    BY <1>8, <2>2, <2>3
       DEF TypeInv, TypeOK, Checking, Installing, Looping
<1> QED
  BY <1>7, <1>8

-----------------------------------------------------------------------------
(* The plan, staging and validation                                        *)

\* At the beginning every source is owed, and is there.
LEMMA InitWhole == Init => Lossless
<1> SUFFICES ASSUME Init PROVE Lossless
  OBVIOUS
<1>0. /\ dir = [n \in Names |-> IF Before(n) THEN Original(n[1]) ELSE None]
      /\ owed = {n \in Paths : Before(n)} /\ exposed = {}
      /\ pc = "plan" /\ at = 1 /\ staged = {} /\ undo = {}
      /\ \A i \in Plan : state[i] = None
  BY DEF Init
<1>1. ASSUME NEW n \in Names, Before(n)
      PROVE  dir[n].ino = n /\ dir[n].text = n /\ n[2] = "source"
  BY <1>0, <1>1 DEF Before, Original, Source
<1>2. \A n \in Names : dir[n] # None => Before(n)
  BY <1>0
<1>3. NothingLost
  <2> SUFFICES ASSUME NEW c \in owed PROVE Kept(c)
    BY <1>0 DEF NothingLost
  <2>1. c \in Names /\ Before(c)
    BY <1>0 DEF Names
  <2>2. dir[c] = Original(c[1]) /\ Original(c[1]).text = c
    BY <1>0, <2>1 DEF Before, Original, Source
  <2>3. Original(c[1]) \in Files
    BY <2>1 DEF Before, Original, Source, Files, Origins
  <2> QED
    BY <2>1, <2>2, <2>3, NoneAssumption DEF Kept
<1>4. Dated
  BY <1>1, <1>2 DEF Dated, ByNow
<1>5. Foreign
  BY <1>0 DEF Foreign, Before, Source
<1>6. OneName
  BY <1>1, <1>2 DEF OneName, Alike
<1>7. \A i \in Plan : Recorded(i)
  BY <1>0 DEF Recorded
<1>8. \A n \in Names : dir[n] # None => dir[n].ino[2] \notin {"staged", "backup"}
  BY <1>1, <1>2
<1>9. \A i \in Plan : Empty(Own(i)) /\ ~ (i < at)
  <2>1. \A i \in Plan : \A n \in Own(i) : n \in Names /\ ~Before(n)
    BY NamesAreTyped, NamesAreApart DEF Own, Before
  <2> QED
    BY <1>0, <1>2, <2>1, PlanAssumption DEF Empty, Plan
<1>10. Keeping
  BY <1>0, <1>8, <1>9 DEF Keeping, Looping, Undoing
<1> QED
  BY <1>3, <1>4, <1>5, <1>6, <1>7, <1>10 DEF Whole, Lossless

LEMMA PlanActionWhole ==
  ASSUME TypeInv, Lossless, PlanAction
  PROVE  NothingLost' /\ (pc' # "done" => Lossless')
<1>1. UNCHANGED <<kind, dir, staged, undo, writes, owed, exposed>>
      /\ pc = "plan"
  BY DEF PlanAction, patchVars, worldVars
<1>2. NothingLost'
  BY <1>1 DEF Lossless, Whole, NothingLost, Kept
<1>3. ASSUME pc' # "done" PROVE Lossless'
  <2>1. PICK a \in Plan : at = a
    BY DEF TypeInv, TypeOK
  <2>2. /\ (kind[a] = "add") = (dir[Source(a)] = None)
        /\ state' = [state EXCEPT ![a] = dir[Source(a)]] /\ Advance("plan", "stage")
    BY <1>3, <2>1 DEF PlanAction, GiveUp, Goto
  <2>3. state'[a] = dir[Source(a)] /\ \A i \in Plan : i # a => state'[i] = state[i]
    BY <2>2 DEF TypeInv, TypeOK
  <2>4. ~ (\E i \in Plan : Loose(i) \/ Loose(i)')
    BY <1>1, <2>2 DEF Loose, Undoing, Advance
  <2>5. Whole'
    BY <1>1, <1>2, <2>4
       DEF Lossless, Whole, Dated, ByNow, Foreign, OneName, Alike, Linked
  <2>6. \A i \in Plan : Recorded(i)'
    BY <1>1, <2>3, OwnNames DEF Lossless, Keeping, Whole, Dated, Recorded, ByNow
  <2>7. ASSUME NEW i \in Plan, i <= a PROVE Has(Source(i), i)'
    <3>1. CASE i = a
      BY <1>1, <2>2, <2>3, <3>1 DEF Has, At
    <3>2. CASE i # a
      <4>1. Has(Source(i), i)
        BY <1>1, <2>1, <2>7, <3>2, PlanAssumption DEF Lossless, Keeping, Plan
      <4> QED
        BY <1>1, <2>3, <3>2, <4>1 DEF Has, At, Owing
    <3> QED
      BY <3>1, <3>2
  <2>8. /\ undo' = {} /\ staged' = {}
        /\ \A n \in Names : dir'[n] # None => dir'[n].ino[2] \notin {"staged", "backup"}
        /\ \A i \in Plan : Empty(Own(i))'
    BY <1>1 DEF Lossless, Keeping, Empty, Own
  <2>9. pc' = "plan" => \A i \in Plan : i < at' => Has(Source(i), i)'
    BY <2>1, <2>2, <2>7, PlanAssumption DEF Advance, Plan
  <2>10. pc' = "stage" => \A i \in Plan : Has(Source(i), i)'
    BY <2>1, <2>2, <2>7, PlanAssumption DEF Advance, Plan
  <2>11. pc' \in {"plan", "stage"}
    BY <2>2 DEF Advance
  <2>12. Keeping'
    BY <2>8, <2>9, <2>10, <2>11 DEF Keeping, Looping, Undoing
  <2> QED
    BY <2>5, <2>6, <2>12 DEF Lossless
<1> QED
  BY <1>2, <1>3

\* A patch that fails before anything was done has nothing to undo.
LEMMA NothingBegun ==
  ASSUME Lossless, pc \in {"stage", "revalidate"}, pc' = "undo", undo = {},
         \A i \in Plan : Over(i) /\ ~Loose(i),
         UNCHANGED <<kind, dir, state, staged, undo, conflict, writes, owed, exposed>>
  PROVE  Lossless'
<1>1. Whole'
  BY DEF Lossless, Whole, NothingLost, Kept, Dated, ByNow, Foreign, OneName, Alike,
         Linked
<1>2. \A i \in Plan : Recorded(i)'
  BY DEF Lossless, Recorded, ByNow, Owing
<1>3. \A i \in Plan : Over(i)'
  BY DEF Over, Dispensable, Owing
<1>4. Keeping'
  BY <1>3 DEF Keeping, Looping, Undoing
<1> QED
  BY <1>1, <1>2, <1>4 DEF Lossless

LEMMA StagePlanWhole ==
  ASSUME TypeInv, Lossless, StagePlan
  PROVE  NothingLost' /\ (pc' # "done" => Lossless')
<1>1. UNCHANGED <<kind, state, undo, conflict, writes, owed, exposed>>
      /\ pc = "stage" /\ undo = {} /\ staged = {}
  BY DEF StagePlan, planVars, worldVars, Lossless, Keeping
<1>2. /\ \A n \in Names : dir[n] # None => dir[n].ino[2] \notin {"staged", "backup"}
      /\ \A i \in Plan : Empty(Own(i)) /\ Has(Source(i), i)
  BY <1>1 DEF Lossless, Keeping
<1>3. \A i \in Plan : ~Loose(i)
  BY <1>1 DEF Loose, Undoing
<1>4. \/ pc' = "done" /\ dir' = dir
      \/ /\ pc' = "revalidate" /\ staged' = {i \in Plan : kind[i] \in Rewrites}
         /\ dir' = [n \in Names |-> IF \E i \in staged' : n = Staged(i)
                                    THEN Patch(n[1]) ELSE dir[n]]
  BY DEF StagePlan, Goto, GiveUp
<1>5. CASE pc' = "done" /\ dir' = dir
  BY <1>1, <1>5 DEF Lossless, Whole, NothingLost, Kept
<1>6. CASE /\ pc' = "revalidate" /\ staged' = {i \in Plan : kind[i] \in Rewrites}
           /\ dir' = [n \in Names |-> IF \E i \in staged' : n = Staged(i)
                                      THEN Patch(n[1]) ELSE dir[n]]
  <2>1. ASSUME NEW n \in Names
        PROVE  \/ dir'[n] = dir[n]
               \/ \E i \in staged' : n = Staged(i) /\ dir[n] = None /\ dir'[n] = Patch(i)
    <3>1. \A i \in Plan : dir[Staged(i)] = None /\ Staged(i)[1] = i
      BY <1>2 DEF Empty, Own, Staged
    <3> QED
      BY <1>6, <3>1
  <2>2. \A i \in Plan : \A n \in NamesOf(i) \ {Staged(i)} : dir'[n] = dir[n]
    BY <2>1, <1>6, NamesAreTyped, NamesAreApart DEF NamesOf
  <2>3. ASSUME NEW i \in Plan PROVE Dispensable(Staged(i))'
    <3>1. dir[Staged(i)] = None
      BY <1>2 DEF Empty, Own
    <3>2. \A j \in Plan : Patch(j).text \notin owed
      BY DEF Lossless, Whole, Foreign, Patch, Staged
    <3> QED
      BY <1>1, <1>6, <2>1, <3>1, <3>2, OwnNames DEF Dispensable, Owing
  <2>4. NothingLost'
    BY <1>1, <2>1 DEF Lossless, Whole, NothingLost, Kept
  <2>5. Dated' /\ Foreign'
    <3>1. \A i : ByNow(Patch(i).ino)' /\ ByNow(Patch(i).text)'
      BY DEF ByNow, Patch, Staged
    <3>2. \A n \in Names : dir'[n] # None => (ByNow(dir[n].ino) /\ ByNow(dir[n].text))'
      BY <1>1, <2>1, <3>1 DEF Lossless, Whole, Dated, ByNow
    <3> QED
      BY <1>1, <3>2 DEF Lossless, Whole, Dated, Foreign
  <2>6. OneName'
    <3> SUFFICES ASSUME NEW n \in Names, NEW m \in Names, Alike(n, m)' PROVE FALSE
      BY DEF OneName
    <3>1. \A i : Patch(i).ino = Staged(i) /\ Staged(i)[2] = "staged"
      BY DEF Patch, Staged
    <3>2. dir'[n] = dir[n] /\ dir'[m] = dir[m]
      BY <1>2, <2>1, <3>1 DEF Alike
    <3> QED
      BY <1>3, <3>2 DEF Lossless, Whole, OneName, Alike, Linked
  <2>7. \A i \in Plan : Recorded(i)'
    BY <1>1, <1>2, <1>6 DEF Lossless, Recorded, ByNow
  <2>8. ASSUME NEW i \in Plan PROVE Ready(i)'
    <3>1. /\ dir'[Source(i)] = dir[Source(i)] /\ dir'[Backup(i)] = None
          /\ dir'[Removed(i)] = None
      BY <1>2, <2>2, OwnNames DEF Empty, Own
    <3>2. Unused(Backup(i))'
      <4>1. \A j : Patch(j).ino # Backup(i) /\ Backup(i)[2] = "backup"
        BY DEF Backup, Patch, Staged
      <4> QED
        BY <1>2, <2>1, <4>1 DEF Unused, Backup
    <3>3. Has(Source(i), i)'
      BY <1>1, <1>2, <3>1 DEF Has, At, Owing
    <3> QED
      BY <1>1, <1>2, <2>3, <3>1, <3>2, <3>3 DEF Ready, Intact
  <2>9. Keeping'
    BY <1>6, <2>8 DEF Keeping, Looping, Undoing
  <2> QED
    BY <2>4, <2>5, <2>6, <2>7, <2>9 DEF Lossless, Whole
<1> QED
  BY <1>4, <1>5, <1>6

LEMMA RevalidatePlanWhole ==
  ASSUME TypeInv, Lossless, RevalidatePlan
  PROVE  Lossless'
<1>1. UNCHANGED <<kind, dir, state, staged, undo, conflict, writes, owed, exposed>> /\ pc = "revalidate"
  BY DEF RevalidatePlan, planVars, patchVars, worldVars
<1>2. \A i \in Plan : Ready(i) /\ ~Loose(i)
  BY <1>1, NothingLoose DEF Lossless, Keeping
<1>3. Advance("revalidate", "validate") \/ Fail
  BY DEF RevalidatePlan
<1>4. CASE Fail
  <2>1. undo = {}
    BY <1>2 DEF Ready, Intact, TypeInv, TypeOK
  <2> QED
    BY <1>1, <1>2, <1>4, <2>1, BecomesDue, NothingBegun DEF Fail, Goto
<1>5. CASE Advance("revalidate", "validate")
  <2>1. pc' = "revalidate" \/ (pc' = "validate" /\ at' = 1)
    BY <1>5 DEF Advance
  <2>2. Whole'
    BY <1>1, <1>2
       DEF Lossless, Whole, NothingLost, Kept, Dated, ByNow, Foreign, OneName, Alike,
           Linked
  <2>3. \A i \in Plan : Recorded(i)'
    BY <1>1 DEF Lossless, Recorded, ByNow, Owing
  <2>4. \A i \in Plan : Ready(i)'
    BY <1>1, <1>2 DEF Ready, Intact, Has, At, Dispensable, Unused, Owing
  <2>5. \A i \in Plan : ~ (i < 1)
    BY PlanAssumption DEF Plan
  <2>6. \A i \in Plan : pc' = "validate" => AtHand(i)'
    BY <2>4 DEF AtHand
  <2>7. Keeping'
    BY <2>1, <2>4, <2>5, <2>6 DEF Keeping, Looping, Undoing
  <2> QED
    BY <2>2, <2>3, <2>7 DEF Lossless
<1> QED
  BY <1>3, <1>4, <1>5

\* The copy of a source is a new file, and the source stays.
LEMMA CreateBackupWhole ==
  ASSUME TypeInv, Lossless, CreateBackup
  PROVE  Lossless'
<1>1. PICK a \in Plan : at = a
  BY DEF TypeInv, TypeOK
<1>2. dir \in Directories /\ pc = "backup" /\ pc \in Looping
  BY DEF TypeInv, TypeOK, Directories, Looping, CreateBackup
<1>3. Whole /\ Recorded(a) /\ ~Loose(a) /\ Ready(a) /\ kind[a] # "add"
  BY <1>1, <1>2, NothingLoose DEF Lossless, Keeping, AtHand
<1>4. UNCHANGED <<kind, state, staged, undo, conflict, writes, owed, exposed>>
  BY DEF CreateBackup, planVars, patchVars, worldVars
<1>5. /\ \A n \in Names \ {Backup(a)} : dir'[n] = dir[n]
      /\ faults = 0 \/ faults' # 0
  BY <1>1, <1>2, BoundsAssumption
     DEF CreateBackup, Refused, Directories, TypeInv, TypeOK
<1>6. Framed(a)
  BY <1>4, <1>5, OwnNames, OnlyHere DEF Framed
<1>7. Recorded(a)'
  BY <1>3, <1>4 DEF Recorded, ByNow, Owing
<1>8. CASE Fail /\ dir' = dir
  <2>1. Handled(a)
    BY <1>3, <1>8, SameHandled
  <2>2. Over(a)'
    <3>1. Over(a)
      BY <1>3, BecomesDue
    <3> QED
      BY <1>4, <1>8, <3>1 DEF Over, Dispensable, Owing
  <2>3. a \notin undo'
    BY <1>3, <1>4 DEF Ready, Intact
  <2> QED
    BY <1>1, <1>2, <1>6, <1>7, <1>8, <2>1, <2>2, <2>3, FailsWhole
<1>9. CASE /\ dir[Source(a)] = state[a]
           /\ dir' = [dir EXCEPT ![Backup(a)] = [ino |-> Backup(a), text |-> state[a].text]]
           /\ Goto(IF kind[a] = "delete" THEN "take" ELSE "recheck")
  <2>1. dir'[Backup(a)] = [ino |-> Backup(a), text |-> state[a].text]
    BY <1>2, <1>9, OwnNames DEF Directories
  <2>2. state[a] # None
    BY <1>2, <1>3 DEF TypeInv, TypeOK
  <2>3. NothingLost'
    BY <1>3, <1>4, <1>5 DEF Whole, NothingLost, Kept, Ready
  <2>4. Dated' /\ Foreign'
    <3>1. \A o : ByNow(o)' = ByNow(o)
      BY <1>4 DEF ByNow
    <3>2. ByNow(Backup(a)) /\ ByNow(state[a].text)
      BY <1>3, <2>2 DEF Recorded, ByNow, Backup
    <3>3. \A n \in Names : dir'[n] # None => ByNow(dir'[n].ino) /\ ByNow(dir'[n].text)
      BY <1>3, <1>5, <2>1, <3>2 DEF Whole, Dated
    <3> QED
      BY <1>3, <1>4, <3>1, <3>3 DEF Whole, Dated, Foreign
  <2>5. OneName'
    <3> SUFFICES ASSUME NEW n \in Names, NEW m \in Names, Alike(n, m)' PROVE FALSE
      BY DEF OneName
    <3>1. n # Backup(a) /\ m # Backup(a)
      BY <1>3, <1>5, <2>1 DEF Alike, Ready, Unused
    <3>2. Alike(n, m)
      BY <1>5, <3>1 DEF Alike
    <3> QED
      BY <1>2, <1>3, <3>2, NothingLoose DEF Whole, OneName, Linked
  <2>6. \A i \in Plan : Recorded(i)'
    BY <1>6, <1>7, RecordsStay DEF Lossless
  <2>7. ASSUME NEW i \in Plan, i # a
        PROVE  (i < a => Carried(i)') /\ (i > a => Ready(i)')
    <3>1. (i < a => Carried(i)) /\ (i > a => Ready(i))
      BY <1>1, <1>2 DEF Lossless, Keeping
    <3>2. i < a => Carried(i)'
      BY <1>6, <2>7, <3>1, OthersStay
    <3>3. ASSUME Ready(i) PROVE Ready(i)'
      <4>1. Intact(i)'
        BY <1>6, <2>7, <3>3, OthersStay DEF Ready
      <4>2. dir'[Backup(i)] = None
        BY <1>6, <2>7, <3>3 DEF Ready, Framed, Elsewhere, Same, NamesOf
      <4>3. Backup(a) # Backup(i)
        BY <2>7, NamesAreApart
      <4>4. \A n \in Names : dir'[n] # None => dir'[n].ino # Backup(i)
        BY <1>5, <2>1, <3>3, <4>3 DEF Ready, Unused
      <4> QED
        BY <4>1, <4>2, <4>4 DEF Ready, Unused, Backup
    <3> QED
      BY <3>1, <3>2, <3>3
  <2>8. Copied(a)'
    BY <1>3, <1>4, <2>1 DEF Copied, Backup
  <2>9. Intact(a)'
    <3>1. /\ dir'[Source(a)] = dir[Source(a)] /\ dir'[Removed(a)] = dir[Removed(a)]
          /\ dir'[Staged(a)] = dir[Staged(a)]
      BY <1>5, OwnNames
    <3> QED
      BY <1>3, <1>4, <3>1 DEF Ready, Intact, Has, At, Dispensable, Owing
  <2>10. pc' \in {"take", "recheck"} /\ at' = a /\ (pc' = "take" <=> kind[a] = "delete")
    BY <1>1, <1>9 DEF Goto
  <2>11. AtHand(a)'
    BY <1>3, <1>4, <2>8, <2>9, <2>10 DEF AtHand, Intact, Recorded, Rewrites
  <2>12. Keeping'
    BY <1>1, <2>7, <2>10, <2>11, PlanAssumption
       DEF Keeping, Looping, Undoing, Plan
  <2> QED
    BY <2>3, <2>4, <2>5, <2>6, <2>12 DEF Lossless, Whole
<1> QED
  BY <1>1, <1>8, <1>9 DEF CreateBackup

-----------------------------------------------------------------------------
(* The end                                                                 *)

\* What the patch replaced is not owed any more; what it only moved is there.
LEMMA CommitWhole ==
  ASSUME TypeInv, Lossless, Commit
  PROVE  NothingLost' /\ (pc' # "done" => Lossless')
<1>1. UNCHANGED <<kind, state, staged, undo, conflict, writes, exposed>> /\ pc = "commit"
  BY DEF Commit, planVars, patchVars
<1>2. \A i \in Plan : Carried(i) /\ ~Loose(i)
  BY <1>1, NothingLoose DEF Lossless, Keeping
<1>3. CASE /\ pc' = "done" /\ dir' = RemoveAll({Backup(i) : i \in undo})
           /\ owed' = owed \ {state[i].text : i \in {j \in Plan : kind[j] \notin {"add", "rename"}}}
  <2> SUFFICES ASSUME NEW c \in Owing' PROVE Kept(c)'
    BY <1>3 DEF NothingLost, Owing
  <2>1. c \in Owing /\ \A i \in Plan : kind[i] \notin {"add", "rename"} => c # state[i].text
    BY <1>1, <1>3 DEF Owing
  <2>2. PICK n \in Names : dir[n] # None /\ dir[n].text = c
    BY <2>1 DEF Lossless, Whole, NothingLost, Kept, Owing
  <2>3. CASE \A i \in undo : n # Backup(i)
    <3>1. dir'[n] = dir[n]
      BY <1>3, <2>3 DEF RemoveAll
    <3> QED
      BY <2>2, <3>1 DEF Kept
  <2>4. CASE \E i \in undo : n = Backup(i)
    <3>1. PICK i \in Plan : n = Backup(i)
      BY <2>4 DEF TypeInv, TypeOK
    <3>2. kind[i] = "rename" /\ state[i].text = c
      <4>1. Copied(i)
        BY <1>2 DEF Carried
      <4>2. kind[i] # "add" /\ dir[n].text = state[i].text
        BY <2>2, <3>1, <4>1 DEF Copied
      <4> QED
        BY <2>1, <2>2, <4>2
    <3>3. At(Moved(i), c)
      BY <1>2, <2>1, <3>2 DEF Carried, Has
    <3>4. \A j \in undo : Moved(i) # Backup(j)
      BY DEF Moved, Backup
    <3>5. dir'[Moved(i)] = dir[Moved(i)] /\ Moved(i) \in Names
      BY <1>3, <3>4, OwnNames DEF RemoveAll
    <3> QED
      BY <3>3, <3>5 DEF At, Kept
  <2> QED
    BY <2>3, <2>4
<1>4. CASE pc' = "undo" /\ UNCHANGED <<dir, owed>>
  <2>1. Whole'
    BY <1>1, <1>2, <1>4
       DEF Lossless, Whole, NothingLost, Kept, Dated, ByNow, Foreign, OneName, Alike,
           Linked
  <2>2. \A i \in Plan : Recorded(i)'
    BY <1>1, <1>4 DEF Lossless, Recorded, ByNow, Owing
  <2>3. ASSUME NEW i \in Plan PROVE i \in undo /\ Due(i)'
    <3>1. i \in undo /\ Due(i)
      BY <1>2, BecomesDue DEF Carried
    <3> QED
      BY <1>1, <1>4, <3>1 DEF Due, Over, Copied, Dispensable, At, Owing
  <2>4. Keeping'
    BY <1>1, <1>4, <2>3 DEF Keeping, Looping, Undoing
  <2> QED
    BY <2>1, <2>2, <2>4 DEF Lossless, Whole
<1> QED
  BY <1>3, <1>4 DEF Commit, Goto, Fail

\* What the last cleanup removes is nothing that is owed.
LEMMA RolledBackWhole ==
  ASSUME TypeInv, Lossless, RolledBack
  PROVE  NothingLost' /\ pc' = "done"
<1>1. UNCHANGED <<owed, exposed>> /\ pc = "undo" /\ undo = {} /\ pc' = "done"
  BY DEF RolledBack, worldVars, GiveUp, Goto
<1>2. \A i \in Plan : Over(i)
  BY <1>1 DEF Lossless, Keeping, Undoing
<1>3. dir' = RemoveAll({Staged(i) : i \in staged})
  BY DEF RolledBack, CleanupStages
<1>4. ASSUME NEW c \in Owing PROVE Kept(c)'
  <2>1. PICK n \in Names : dir[n] # None /\ dir[n].text = c
    BY DEF Lossless, Whole, NothingLost, Kept, Owing
  <2>2. n \notin {Staged(i) : i \in staged}
    BY <1>2, <2>1 DEF Over, Dispensable, TypeInv, TypeOK
  <2>3. dir'[n] = dir[n]
    BY <1>3, <2>2 DEF RemoveAll
  <2> QED
    BY <2>1, <2>3 DEF Kept
<1> QED
  BY <1>1, <1>4 DEF NothingLost, Owing

\* All of this is about the plan, the files and where the patch is.
LEMMA SameWhole ==
  ASSUME Lossless,
         UNCHANGED <<kind, dir, pc, at, state, staged, undo, matched, failures, conflict,
                     writes, owed, exposed>>
  PROVE  Lossless'
<1>1. Whole'
  BY DEF Lossless, Whole, NothingLost, Kept, Dated, ByNow, Foreign, OneName, Alike,
         Linked, Loose, Last
<1>2. \A i \in Plan : Recorded(i)'
  BY DEF Lossless, Recorded, ByNow, Owing
<1>3. \A i \in Plan : /\ AtHand(i) => AtHand(i)'
                      /\ Rolling(i) => Rolling(i)'
                      /\ Ready(i) => Ready(i)'
                      /\ Carried(i) => Carried(i)'
                      /\ Due(i) => Due(i)'
                      /\ Over(i) => Over(i)'
                      /\ Has(Source(i), i) => Has(Source(i), i)'
                      /\ Empty(Own(i)) => Empty(Own(i))'
  BY DEF AtHand, Rolling, Ready, Carried, Due, Over, Intact, Copied, OwnTarget, Twice,
         Has, At, Dispensable, Unused, Empty, Own, Owing
<1>4. Keeping'
  BY <1>1, <1>3 DEF Lossless, Keeping, Last
<1> QED
  BY <1>1, <1>2, <1>4 DEF Lossless

LEMMA CancelWhole ==
  ASSUME Lossless, Cancel
  PROVE  Lossless'
<1>1. UNCHANGED <<kind, dir, pc, at, state, staged, undo, matched, failures, conflict,
                  writes, owed, exposed>>
  BY DEF Cancel, planVars, patchVars, worldVars
<1> QED
  BY <1>1, SameWhole

LEMMA StutterWhole ==
  ASSUME LossInv, UNCHANGED vars
  PROVE  LossInv'
<1>1. UNCHANGED <<kind, dir, pc, at, state, staged, undo, matched, failures, conflict,
                  writes, owed, exposed>>
  BY DEF vars, planVars, patchVars, endVars, worldVars
<1>2. NothingLost => NothingLost'
  BY <1>1 DEF NothingLost, Kept
<1>3. Lossless => Lossless'
  BY <1>1, SameWhole
<1> QED
  BY <1>1, <1>2, <1>3 DEF LossInv

-----------------------------------------------------------------------------
(* The invariant                                                           *)

LEMMA DoneIsTheEnd == Next => pc # "done"
<1>1. CheckStep => pc # "done"
  BY DEF CheckStep, PlanAction, StagePlan, RevalidatePlan, RevalidateAction,
         CreateBackup, Recheck
<1>2. InstallStep => pc # "done"
  BY DEF InstallStep, InstallStaged, InstallMove, InstallUpdate, VerifyMove, MoveBack,
         VerifyUpdate, SwapBack, TakeSource, SettleSource, PutBack, Commit
<1>3. UndoStep => pc # "done"
  BY DEF UndoStep, Undo, UndoAdd, UndoRemove, UndoDelete, UndoRestore, UndoUpdate,
         UndoSwap, UndoSettle, UndoOriginal, UndoSwapBack, UndoMoved, UndoFast,
         UndoLink, UndoCheck, UndoTarget, RolledBack
<1>4. Cancel => pc # "done"
  BY DEF Cancel
<1>5. (\E p \in InUse : Replace(p) \/ RewriteInPlace(p) \/ Unlink(p)) => pc # "done"
  BY DEF Replace, RewriteInPlace, Unlink, Change
<1> QED
  BY <1>1, <1>2, <1>3, <1>4, <1>5 DEF Next

LEMMA StepWhole ==
  ASSUME TypeInv, Lossless, Next
  PROVE  NothingLost' /\ (pc' # "done" => Lossless')
<1> DEFINE Goal == NothingLost' /\ (pc' # "done" => Lossless')
<1>0. Lossless' => Goal
  BY DEF Lossless, Whole
<1> HIDE DEF Goal
<1>1. ASSUME CheckStep PROVE Goal
  BY <1>0, <1>1, PlanActionWhole, StagePlanWhole, RevalidatePlanWhole,
     RevalidateActionWhole, CreateBackupWhole, RecheckWhole
     DEF CheckStep, Goal
<1>2. ASSUME InstallStep PROVE Goal
  BY <1>0, <1>2, InstallStagedWhole, InstallMoveWhole, InstallUpdateWhole,
     VerifyMoveWhole, MoveBackWhole, VerifyUpdateWhole, SwapBackWhole,
     TakeSourceWhole, SettleSourceWhole, PutBackWhole, CommitWhole
     DEF InstallStep, Goal
<1>3. ASSUME UndoStep PROVE Goal
  BY <1>0, <1>3, UndoAddWhole, UndoRemoveWhole, UndoDeleteWhole, UndoRestoreWhole,
     UndoUpdateWhole, UndoSwapWhole, UndoSettleWhole, UndoOriginalWhole,
     UndoSwapBackWhole, UndoMovedWhole, UndoFastWhole, UndoLinkWhole, UndoCheckWhole,
     UndoTargetWhole, RolledBackWhole
     DEF UndoStep, Goal
<1>4. ASSUME Cancel PROVE Goal
  BY <1>0, <1>4, CancelWhole
<1>5. ASSUME NEW p \in InUse, Replace(p) \/ RewriteInPlace(p) \/ Unlink(p)
      PROVE  Goal
  BY <1>0, <1>5, DoneIsTheEnd, WorldWhole
<1> QED
  BY <1>1, <1>2, <1>3, <1>4, <1>5 DEF Next, Goal

LEMMA LossInvariant == Spec => [](TypeInv /\ LossInv)
<1>1. Init => TypeInv /\ LossInv
  BY InitTyped, InitWhole DEF LossInv, Lossless, Whole
<1>2. TypeInv /\ LossInv /\ [Next]_vars => LossInv'
  BY StutterWhole, DoneIsTheEnd, StepWhole DEF LossInv
<1> QED
  BY <1>1, <1>2, StepTyped, PTL DEF Spec

-----------------------------------------------------------------------------
(* Theorems                                                                *)

\* No content is lost, neither what the patch replaced before it succeeds nor
\* what another program wrote under its paths, however long the plan, whichever
\* calls fail, whatever others write and whenever the context ends
\* (daemonCommitPatchPlan, daemonRollbackPatchPlan).
THEOREM PatchLosesNothing == Spec => []NothingLost
<1>1. TypeInv /\ LossInv => NothingLost
  BY DEF LossInv
<1> QED
  BY <1>1, LossInvariant, PTL
=============================================================================
