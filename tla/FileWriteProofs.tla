-------------------------- MODULE FileWriteProofs --------------------------
(***************************************************************************)
(* What FileWrite promises for any number of writers, changes and faults.  *)
(***************************************************************************)
EXTENDS FileWrite, TLAPS

Early     == {"ask", "read", "open", "make", "snapshot", "stage"}
Ready     == {"create", "recheck", "exchange"}
Replacing == {"recheck", "exchange", "verify", "swapBack", "finish"}
Slots     == {Path} \cup {Temp(w) : w \in Writers}

\* The write w has replaced what its snapshot saw.
Took(w) == snap[w] # None /\ (pc[w] = "finish" \/ result[w] = "ok")
\* The write w has created the path.
Made(w) == snap[w] = None /\ result[w] = "ok"

PhaseInv ==
  \A w \in Writers :
    /\ pc[w] # "done" => result[w] = "none"
    /\ pc[w] = "create" => snap[w] = None

\* What a write's own names hold.
OwnInv ==
  \A w \in Writers :
    /\ pc[w] \in Early => dir[Temp(w)] = None /\ dir[Recovery(w)] = None
    /\ pc[w] \in Ready => dir[Temp(w)] = Staged(w)
    /\ pc[w] \in Replacing => dir[Temp(w)] # None /\ dir[Recovery(w)] = snap[w]
    /\ pc[w] = "finish" => dir[Temp(w)] = snap[w]
    /\ \A n \in told[w] : pc[w] = "done" /\ n \in Both(w) /\ dir[n] # None

\* No content is under two names but as the copy of another.
SingleInv ==
  \A m, n \in Slots : m # n /\ dir[m] = dir[n] => dir[m] = None

\* What was not written yet, and what was not installed yet, nobody has.
FreshInv ==
  /\ \A k \in (writes + 1) .. MaxWrites, kind \in {"file", "other"} :
       /\ \A n \in Names : dir[n] # <<k, kind>>
       /\ \A v \in Writers : snap[v] # <<k, kind>>
       /\ <<k, kind>> \notin owed
  /\ \A w \in Writers :
       /\ pc[w] \in Early \cup Ready =>
            /\ \A n \in Names \ {Temp(w)} : dir[n] # Staged(w)
            /\ \A v \in Writers : snap[v] # Staged(w)
       /\ Staged(w) \in owed => pc[w] \in {"finish", "done"}

\* What was replaced is gone, and nobody else replaces it.
TookInv ==
  \A v \in Writers : Took(v) =>
    /\ \A n \in Slots : dir[n] = snap[v] => n = Temp(v) /\ pc[v] = "finish"
    /\ snap[v] \notin owed
    /\ \A w \in Writers \ {v} : Took(w) => snap[w] # snap[v]

MadeInv ==
  writes = 0 =>
    \A v \in Writers : Made(v) => dir[Path] # None /\ \A w \in Writers \ {v} : ~Made(w)

\* What is owed is under the path or a writer's temporary name, and not where
\* an exchange back would unlink it.
OwedInv ==
  /\ None \notin owed
  /\ \A c \in owed \ exposed : \E n \in Slots : dir[n] = c
  /\ \A w \in Writers : pc[w] = "swapBack" => dir[Path] \notin owed \ exposed

\* A failed write that keeps nothing has left nothing elsewhere.
FailedInv ==
  \A w \in Writers :
    result[w] = "error" /\ told[w] = {} =>
      /\ \A n \in Names \ {Temp(w)} : dir[n] # Staged(w)
      /\ \A v \in Writers : snap[v] # Staged(w)

WriteInv ==
  /\ TypeOK /\ PhaseInv /\ OwnInv /\ SingleInv
  /\ FreshInv /\ TookInv /\ MadeInv /\ OwedInv /\ FailedInv

-----------------------------------------------------------------------------
(* Names and contents                                                      *)

\* The names of a write are its own, and none is the path.
LEMMA NamesApart ==
  /\ Path \in Slots /\ Slots \subseteq Names
  /\ \A w \in Writers :
       /\ Temp(w) \in Slots /\ Recovery(w) \in Names /\ Recovery(w) \notin Slots
       /\ Temp(w) # Path /\ Temp(w) # Recovery(w) /\ Recovery(w) # Path
       /\ \A v \in Writers \ {w} : Temp(v) # Temp(w) /\ Recovery(v) # Recovery(w)
  /\ \A n \in Slots : n # Path => \E w \in Writers : n = Temp(w)
  /\ \A n \in Names : n \in Slots \/ \E w \in Writers : n = Recovery(w)
BY DEF Path, Temp, Recovery, Names, Slots

LEMMA OwnNames ==
  ASSUME NEW w \in Writers
  PROVE  /\ Both(w) \subseteq Names /\ Path \notin Both(w)
         /\ \A n \in Slots \ {Temp(w)} : n \notin Both(w)
         /\ \A v \in Writers \ {w} : Temp(v) \notin Both(w) /\ Recovery(v) \notin Both(w)
BY NamesApart DEF Both

\* What writers and other programs put somewhere is told apart.
LEMMA ContentsApart ==
  /\ None \notin Contents /\ Original \in Contents /\ Regular(Original) /\ Regular(None)
  /\ \A w \in Writers :
       /\ Staged(w) \in Contents /\ Staged(w) # None /\ Staged(w) # Original
       /\ Regular(Staged(w))
       /\ \A v \in Writers \ {w} : Staged(v) # Staged(w)
       /\ \A k \in 1 .. MaxWrites, kind \in {"file", "other"} : Staged(w) # <<k, kind>>
  /\ \A k \in 1 .. MaxWrites, kind \in {"file", "other"} :
       /\ <<k, kind>> \in Contents /\ <<k, kind>> # None /\ <<k, kind>> # Original
       /\ \A j \in 1 .. MaxWrites, other \in {"file", "other"} :
            <<k, kind>> = <<j, other>> => k = j /\ kind = other
<1> USE DistinctAssumption, FileBoundsAssumption DEF Contents, Original, Staged, Regular
<1>1. None \notin Contents /\ Original \in Contents OBVIOUS
<1>2. Regular(Original) OBVIOUS
<1>3. Regular(None) BY <1>1
<1>4. ASSUME NEW w \in Writers
      PROVE  /\ Staged(w) \in Contents /\ Staged(w) # Original /\ Regular(Staged(w))
             /\ \A v \in Writers \ {w} : Staged(v) # Staged(w)
             /\ \A k \in 1 .. MaxWrites, kind \in {"file", "other"} : Staged(w) # <<k, kind>>
  OBVIOUS
<1>5. ASSUME NEW k \in 1 .. MaxWrites, NEW kind \in {"file", "other"}
      PROVE  /\ <<k, kind>> \in Contents /\ <<k, kind>> # Original
             /\ \A j \in 1 .. MaxWrites, other \in {"file", "other"} :
                  <<k, kind>> = <<j, other>> => k = j /\ kind = other
  OBVIOUS
<1> QED BY <1>1, <1>2, <1>3, <1>4, <1>5

LEMMA FutureContents ==
  ASSUME TypeOK, NEW k \in (writes + 1) .. MaxWrites
  PROVE  /\ k \in 1 .. MaxWrites
         /\ \A kind \in {"file", "other"} : <<k, kind>> # None
<1>1. k \in 1 .. MaxWrites
  BY FileBoundsAssumption DEF TypeOK
<1> QED BY <1>1, ContentsApart

-----------------------------------------------------------------------------
(* Steps before anything is staged                                         *)

\* The clean-up of an error that comes early finds nothing.
LEMMA EarlyError ==
  ASSUME TypeOK, OwnInv, NEW w \in Writers, pc[w] \in Early, Error(w, {})
  PROVE  dir' = dir /\ told' = told
<1>1. dir[Temp(w)] = None /\ dir[Recovery(w)] = None
  BY DEF OwnInv
<1>2. \A n \in Names : dir'[n] = dir[n]
  BY <1>1 DEF Error, Fail, Return, Both
<1>3. dir' = dir
  BY <1>2 DEF Error, Fail, Return, TypeOK
<1>4. told[w] = {}
  BY DEF OwnInv, Early
<1>5. told' = told
  BY <1>4 DEF Error, Fail, Return, TypeOK
<1> QED BY <1>3, <1>5

\* All that such a step does: it goes on, takes the snapshot or fails.
Prepares(w) ==
  /\ pc[w] \in Early
  /\ \E l \in Early \cup {"done"} :
       /\ pc' = [pc EXCEPT ![w] = l]
       /\ result' = [result EXCEPT ![w] = IF l = "done" THEN "error" ELSE @]
       /\ \/ snap' = snap
          \/ /\ l = "stage" /\ Regular(dir[Path])
             /\ snap' = [snap EXCEPT ![w] = dir[Path]]
  /\ parent' \in {"missing", "directory", "other"} /\ faults' \in 0 .. MaxFaults
  /\ UNCHANGED <<callVars, worldVars, dir, told, canceled>>

LEMMA RefusedBound ==
  ASSUME TypeOK, NEW reason, Refused(reason)
  PROVE  faults' \in 0 .. MaxFaults
BY FileBoundsAssumption DEF TypeOK, Refused

LEMMA StepsPrepare ==
  ASSUME TypeOK, OwnInv, PhaseInv, NEW w \in Writers,
         \/ Ask(w) \/ ReadSource(w) \/ OpenParent(w) \/ MakeParent(w)
         \/ Snapshot(w)
  PROVE  Prepares(w)
<1> USE DEF Early
<1>0. result[w] = "none" \/ pc[w] = "done"
  BY DEF PhaseInv
<1>1. ASSUME NEW l \in Early, pc[w] \in Early, Goto(w, l)
      PROVE  pc' = [pc EXCEPT ![w] = l] /\ result' = [result EXCEPT ![w] = IF l = "done" THEN "error" ELSE @]
             /\ told' = told
  BY <1>1 DEF Goto, TypeOK
<1>2. ASSUME pc[w] \in Early, Error(w, {})
      PROVE  /\ pc' = [pc EXCEPT ![w] = "done"] /\ result' = [result EXCEPT ![w] = "error"]
             /\ dir' = dir /\ told' = told
  BY <1>2, EarlyError DEF Error, Fail, Return
<1>3. parent \in {"missing", "directory", "other"} /\ faults \in 0 .. MaxFaults
  BY DEF TypeOK
<1>4. CASE Ask(w)
  BY <1>1, <1>2, <1>3, <1>4, RefusedBound DEF Ask, Prepares
<1>5. CASE ReadSource(w)
  BY <1>1, <1>2, <1>3, <1>5 DEF ReadSource, Prepares
<1>6. CASE OpenParent(w)
  BY <1>1, <1>2, <1>3, <1>6, RefusedBound DEF OpenParent, Prepares
<1>7. CASE MakeParent(w)
  BY <1>1, <1>2, <1>3, <1>7, RefusedBound DEF MakeParent, Prepares
<1>8. CASE Snapshot(w)
  BY <1>1, <1>2, <1>3, <1>8, RefusedBound DEF Snapshot, Prepares
<1> QED BY <1>4, <1>5, <1>6, <1>7, <1>8

LEMMA PrepareInv ==
  ASSUME WriteInv, NEW w \in Writers, Prepares(w)
  PROVE  WriteInv'
<1> USE DEF WriteInv, Prepares, callVars, worldVars, Early
<1>1. TypeOK'
  BY NamesApart, ContentsApart DEF TypeOK, Steps
<1>2. PhaseInv'
  BY DEF PhaseInv, TypeOK
<1>3. OwnInv'
  BY DEF OwnInv, TypeOK, Ready, Replacing
<1>4. SingleInv'
  BY DEF SingleInv
<1>5. FreshInv'
  BY NamesApart DEF FreshInv, TypeOK, Ready
<1>6. \A v \in Writers : Took(v)' => Took(v) /\ snap'[v] = snap[v] /\ pc'[v] = pc[v]
  BY DEF Took, TypeOK, PhaseInv
<1>7. TookInv'
  BY <1>6 DEF TookInv
<1>8. \A v \in Writers : Made(v)' => Made(v)
  BY DEF Made, TypeOK, PhaseInv
<1>9. MadeInv'
  BY <1>8 DEF MadeInv
<1>10. OwedInv'
  BY DEF OwedInv, TypeOK
<1>11. FailedInv'
  BY NamesApart, ContentsApart DEF FailedInv, TypeOK, FreshInv, PhaseInv, OwnInv, Ready
<1> QED BY <1>1, <1>2, <1>3, <1>4, <1>5, <1>7, <1>9, <1>10, <1>11

-----------------------------------------------------------------------------
(* Steps that give up after something was staged                           *)

GivesUp(w, kept) ==
  /\ pc[w] \in Ready \cup Replacing
  /\ kept \subseteq Both(w) /\ \A n \in kept : dir[n] # None
  /\ Temp(w) \in kept \/ dir[Temp(w)] \notin owed
  /\ kept = {} => pc[w] \in Ready
  /\ Error(w, kept)
  /\ faults' \in 0 .. MaxFaults
  /\ UNCHANGED <<callVars, worldVars, parent, snap, canceled>>

LEMMA StepsGiveUp ==
  ASSUME WriteInv, NEW w \in Writers,
         NEW kept \in {{}, {Recovery(w)}, Both(w)}, Error(w, kept),
         faults' \in 0 .. MaxFaults,
         UNCHANGED <<callVars, worldVars, parent, snap, canceled>>,
         \/ pc[w] \in {"create", "exchange"} /\ kept = {}
         \/ pc[w] = "recheck" /\ kept = {Recovery(w)}
         \/ pc[w] \in {"verify", "swapBack"} /\ kept = Both(w)
         \/ pc[w] = "finish" /\ kept # {}
  PROVE  GivesUp(w, kept)
<1> USE DEF Ready, Replacing, Both
<1>1. pc[w] \in Ready \cup Replacing
  OBVIOUS
<1>2. pc[w] \in Replacing =>
        dir[Temp(w)] # None /\ dir[Recovery(w)] = snap[w] /\ snap[w] # None
  BY DEF WriteInv, OwnInv, TypeOK
<1>3. \A n \in kept : dir[n] # None
  BY <1>2
<1>4. pc[w] \in Ready => dir[Temp(w)] \notin owed
  BY DEF WriteInv, OwnInv, FreshInv
<1>5. pc[w] = "finish" => dir[Temp(w)] \notin owed
  BY <1>2 DEF WriteInv, OwnInv, TookInv, Took
<1>6. Temp(w) \in kept \/ dir[Temp(w)] \notin owed
  BY <1>2, <1>4, <1>5
<1> QED BY <1>1, <1>3, <1>6 DEF GivesUp

LEMMA GiveUpInv ==
  ASSUME WriteInv, NEW w \in Writers, NEW kept, GivesUp(w, kept)
  PROVE  WriteInv'
<1> USE NamesApart DEF WriteInv, GivesUp, callVars, worldVars, Ready, Replacing
<1>g. PICK gone \in SUBSET (Both(w) \ kept) : Return(w, "error", kept, gone, dir)
  BY DEF Error, Fail
<1> USE <1>g DEF Return
<1>0. \A n \in Names : \/ dir'[n] = dir[n]
                       \/ (n \in Both(w) \ kept) /\ dir'[n] = None
  BY DEF Both, TypeOK
<1>a. \A n \in Names \ Both(w) : dir'[n] = dir[n]
  BY <1>0
<1>b. \A v \in Writers \ {w} : dir'[Temp(v)] = dir[Temp(v)] /\ dir'[Recovery(v)] = dir[Recovery(v)]
  BY <1>a DEF Both
<1>c. dir'[Path] = dir[Path]
  BY <1>a DEF Both
<1>1. TypeOK'
  <2>1. dir' \in [Names -> Contents \cup {None}]
    BY DEF TypeOK
  <2>2. told' \in [Writers -> SUBSET Names]
    BY DEF TypeOK, Both
  <2> QED BY <2>1, <2>2 DEF TypeOK, Steps
<1>2. PhaseInv'
  BY DEF PhaseInv, TypeOK
<1>3. OwnInv'
  BY <1>0, <1>b DEF OwnInv, TypeOK, Early, Both
<1>4. SingleInv'
  BY <1>0 DEF SingleInv
<1>5. FreshInv'
  <2>1. writes' = writes /\ snap' = snap /\ owed' = owed
    OBVIOUS
  <2>2. \A n \in Names : dir'[n] = dir[n] \/ dir'[n] = None
    BY <1>0
  <2>3. \A v \in Writers : pc'[v] \in Early \cup Ready => pc'[v] = pc[v]
    BY DEF TypeOK, Early
  <2>4. \A v \in Writers : pc[v] \in {"finish", "done"} => pc'[v] \in {"finish", "done"}
    BY DEF TypeOK
  <2>5. \A k \in (writes + 1) .. MaxWrites : k \in 1 .. MaxWrites
    BY FutureContents
  <2> QED BY <2>1, <2>2, <2>3, <2>4, <2>5, ContentsApart DEF FreshInv
<1>6. \A v \in Writers : Took(v)' => Took(v) /\ v # w
  BY DEF Took, TypeOK, PhaseInv
<1>7. TookInv'
  BY <1>6, <1>0 DEF TookInv, Took, TypeOK
<1>8. MadeInv'
  BY <1>c DEF MadeInv, Made, TypeOK
<1>9. OwedInv'
  <2>1. ASSUME NEW c \in owed' \ exposed' PROVE \E n \in Slots : dir'[n] = c
    <3>1. c \in owed \ exposed
      OBVIOUS
    <3>2. PICK n \in Slots : dir[n] = c
      BY <3>1 DEF OwedInv
    <3>3. n \notin Both(w) \ kept
      BY <3>1, <3>2 DEF Both
    <3> QED BY <1>0, <3>2, <3>3
  <2>2. \A v \in Writers : pc'[v] = "swapBack" => pc[v] = "swapBack"
    BY DEF TypeOK
  <2> QED BY <1>c, <2>1, <2>2 DEF OwedInv
<1>10. FailedInv'
  BY <1>0, ContentsApart DEF FailedInv, FreshInv, TypeOK, OwnInv, Both
<1> QED BY <1>1, <1>2, <1>3, <1>4, <1>5, <1>7, <1>8, <1>9, <1>10

-----------------------------------------------------------------------------
(* Steps that go on                                                        *)

Stages(w) ==
  /\ pc[w] = "stage" /\ (snap[w] # None => dir[Path] = snap[w])
  /\ dir' = Staging(w, snap[w])
  /\ Goto(w, IF snap[w] = None THEN "create" ELSE "recheck")
  /\ UNCHANGED <<callVars, worldVars, parent, snap, canceled, faults>>

LEMMA StageInv ==
  ASSUME WriteInv, NEW w \in Writers, Stages(w)
  PROVE  WriteInv'
<1> USE NamesApart, ContentsApart
    DEF WriteInv, Stages, Staging, Goto, callVars, worldVars, Early, Ready, Replacing
<1>0. /\ dir'[Temp(w)] = Staged(w) /\ dir'[Recovery(w)] = snap[w]
      /\ \A n \in Names \ Both(w) : dir'[n] = dir[n]
  BY DEF Both, TypeOK
<1>a. /\ dir'[Path] = dir[Path]
      /\ \A v \in Writers \ {w} :
           dir'[Temp(v)] = dir[Temp(v)] /\ dir'[Recovery(v)] = dir[Recovery(v)]
  BY <1>0, OwnNames
<1>b. \A n \in Slots \ {Temp(w)} : dir'[n] = dir[n]
  BY <1>0, OwnNames
<1>c. \A n \in Names : dir[n] # Staged(w)
  BY DEF FreshInv, OwnInv
<1>1. TypeOK'
  <2>1. dir' \in [Names -> Contents \cup {None}]
    BY DEF TypeOK
  <2> QED BY <2>1 DEF TypeOK, Steps
<1>2. PhaseInv'
  BY DEF PhaseInv, TypeOK
<1>3. OwnInv'
  <2>1. \A n \in told[w] : FALSE
    BY DEF OwnInv
  <2> QED BY <1>0, <1>a, <2>1 DEF OwnInv, TypeOK, Both
<1>4. SingleInv'
  BY <1>0, <1>b, <1>c DEF SingleInv
<1>5. FreshInv'
  <2>1. \A k \in (writes + 1) .. MaxWrites : k \in 1 .. MaxWrites
    BY FutureContents
  <2>2. \A n \in Names : \/ n = Temp(w) /\ dir'[n] = Staged(w)
                         \/ dir'[n] \in {dir[n], dir[Path], None}
    BY <1>0 DEF Both
  <2>3. \A v \in Writers : pc'[v] \in Early \cup Ready => pc[v] \in Early \cup Ready
    BY DEF TypeOK
  <2>4. \A v \in Writers : pc[v] \in {"finish", "done"} => pc'[v] \in {"finish", "done"}
    BY DEF TypeOK
  <2>5. ASSUME NEW k \in (writes + 1) .. MaxWrites, NEW kind \in {"file", "other"},
               NEW n \in Names
        PROVE  dir'[n] # <<k, kind>>
    <3>1. k \in 1 .. MaxWrites
      BY <2>1
    <3>2. dir[n] # <<k, kind>> /\ dir[Path] # <<k, kind>>
      BY DEF FreshInv
    <3>3. Staged(w) # <<k, kind>> /\ None # <<k, kind>>
      BY <3>1
    <3> QED BY <2>2, <3>2, <3>3
  <2>6. ASSUME NEW v \in Writers, pc'[v] \in Early \cup Ready,
               NEW n \in Names \ {Temp(v)}
        PROVE  dir'[n] # Staged(v)
    <3>1. pc[v] \in Early \cup Ready
      BY <2>3, <2>6
    <3>2. dir[n] # Staged(v) /\ dir[Path] # Staged(v) /\ None # Staged(v)
      BY <3>1 DEF FreshInv
    <3>3. n = Temp(w) => Staged(w) # Staged(v)
      OBVIOUS
    <3> QED BY <2>2, <3>2, <3>3
  <2>7. ASSUME NEW v \in Writers, pc'[v] \in Early \cup Ready, NEW u \in Writers
        PROVE  snap'[u] # Staged(v)
    BY <2>3, <2>7 DEF FreshInv
  <2>8. ASSUME NEW k \in (writes + 1) .. MaxWrites, NEW kind \in {"file", "other"}
        PROVE  <<k, kind>> \notin owed /\ \A u \in Writers : snap[u] # <<k, kind>>
    BY DEF FreshInv
  <2>9. \A v \in Writers : Staged(v) \in owed => pc'[v] \in {"finish", "done"}
    BY <2>4 DEF FreshInv
  <2>10. owed' = owed /\ writes' = writes /\ snap' = snap
    OBVIOUS
  <2> HIDE DEF WriteInv, Stages, Early, Ready, Goto
  <2> QED BY <2>5, <2>6, <2>7, <2>8, <2>9, <2>10 DEF FreshInv
<1>6. \A v \in Writers : Took(v)' => Took(v) /\ v # w
  BY DEF Took, TypeOK, PhaseInv
<1>7. TookInv'
  BY <1>6, <1>0, <1>b DEF TookInv, Took, TypeOK, FreshInv
<1>8. MadeInv'
  BY <1>a DEF MadeInv, Made, TypeOK
<1>9. OwedInv'
  <2>1. \A v \in Writers : pc'[v] = "swapBack" => pc[v] = "swapBack"
    BY DEF TypeOK
  <2>2. dir[Temp(w)] = None
    BY DEF OwnInv
  <2>3. ASSUME NEW c \in owed \ exposed PROVE \E n \in Slots : dir'[n] = c
    <3>1. PICK n \in Slots : dir[n] = c
      BY DEF OwedInv
    <3>2. n # Temp(w)
      BY <2>2, <3>1 DEF OwedInv
    <3> QED BY <1>b, <3>1, <3>2
  <2> QED BY <1>a, <2>1, <2>3 DEF OwedInv
<1>10. FailedInv'
  <2>1. \A n \in Names : \/ n = Temp(w) /\ dir'[n] = Staged(w)
                         \/ dir'[n] \in {dir[n], dir[Path], None}
    BY <1>0 DEF Both
  <2>2. \A v \in Writers : result[v] = "error" => v # w
    BY DEF PhaseInv
  <2>3. ASSUME NEW v \in Writers, result[v] = "error", told[v] = {},
               NEW n \in Names \ {Temp(v)}
        PROVE  dir'[n] # Staged(v)
    <3>1. \A m \in Names \ {Temp(v)} : dir[m] # Staged(v)
      BY <2>3 DEF FailedInv
    <3>2. Path # Temp(v) /\ v # w /\ None # Staged(v) /\ Staged(w) # Staged(v)
      BY <2>2, <2>3
    <3> QED BY <2>1, <3>1, <3>2
  <2> QED BY <2>3 DEF FailedInv
<1> QED BY <1>1, <1>2, <1>3, <1>4, <1>5, <1>7, <1>8, <1>9, <1>10

\* Staging fails: what could not be unlinked of it stays.
StageFails(w) ==
  /\ pc[w] = "stage"
  /\ dir' = [n \in Names |-> dir'[n]]
  /\ dir'[Temp(w)] \in {None, Staged(w)} /\ dir'[Recovery(w)] \in {None, snap[w]}
  /\ \A n \in Names \ Both(w) : dir'[n] = dir[n]
  /\ pc' = [pc EXCEPT ![w] = "done"] /\ result' = [result EXCEPT ![w] = "error"]
  /\ told' = [told EXCEPT ![w] = {}]
  /\ faults' \in 0 .. MaxFaults
  /\ UNCHANGED <<callVars, worldVars, parent, snap, canceled>>

LEMMA StageFailInv ==
  ASSUME WriteInv, NEW w \in Writers, StageFails(w)
  PROVE  WriteInv'
<1>e. ASSUME NEW k \in (writes + 1) .. MaxWrites, NEW kind \in {"file", "other"}
      PROVE  /\ \A n \in Names : dir[n] # <<k, kind>>
             /\ <<k, kind>> \notin owed /\ \A u \in Writers : snap[u] # <<k, kind>>
  BY DEF WriteInv, FreshInv
<1> USE NamesApart, ContentsApart
    DEF WriteInv, StageFails, callVars, worldVars, Early, Ready, Replacing
<1>a. /\ dir'[Path] = dir[Path]
      /\ \A v \in Writers \ {w} :
           dir'[Temp(v)] = dir[Temp(v)] /\ dir'[Recovery(v)] = dir[Recovery(v)]
  BY OwnNames
<1>b. \A n \in Slots \ {Temp(w)} : dir'[n] = dir[n]
  BY OwnNames
<1>c. /\ \A n \in Names : dir[n] # Staged(w)
      /\ \A v \in Writers : snap[v] # Staged(w)
  BY DEF FreshInv, OwnInv
<1>d. \A n \in Names : \/ (dir'[n] = dir[n]) /\ n \notin Both(w)
                       \/ n = Temp(w) /\ dir'[n] \in {None, Staged(w)}
                       \/ n = Recovery(w) /\ dir'[n] \in {None, snap[w]}
  BY DEF Both
<1>1. TypeOK'
  <2>1. \A n \in Names : dir'[n] \in Contents \cup {None}
    BY <1>d DEF TypeOK
  <2>2. dir' \in [Names -> Contents \cup {None}]
    BY <2>1
  <2> QED BY <2>2 DEF TypeOK, Steps
<1>2. PhaseInv'
  BY DEF PhaseInv, TypeOK
<1>3. OwnInv'
  BY <1>a, <1>d DEF OwnInv, TypeOK, Both
<1>4. SingleInv'
  BY <1>b, <1>c, <1>d DEF SingleInv
<1>5. FreshInv'
  <2>1. ASSUME NEW k \in (writes + 1) .. MaxWrites, NEW kind \in {"file", "other"},
               NEW n \in Names
        PROVE  dir'[n] # <<k, kind>>
    <3>1. k \in 1 .. MaxWrites
      BY FutureContents
    <3>2. dir[n] # <<k, kind>> /\ snap[w] # <<k, kind>>
      BY <1>e
    <3>3. Staged(w) # <<k, kind>> /\ None # <<k, kind>>
      BY <3>1
    <3> QED BY <1>d, <3>2, <3>3
  <2>2. ASSUME NEW v \in Writers, pc'[v] \in Early \cup Ready,
               NEW n \in Names \ {Temp(v)}
        PROVE  dir'[n] # Staged(v)
    <3>1. pc[v] \in Early \cup Ready /\ v # w
      BY <2>2 DEF TypeOK
    <3>2. dir[n] # Staged(v) /\ snap[w] # Staged(v) /\ None # Staged(v)
      BY <3>1 DEF FreshInv
    <3>3. Staged(w) # Staged(v)
      BY <3>1
    <3> QED BY <1>d, <3>2, <3>3
  <2>3. ASSUME NEW v \in Writers, pc'[v] \in Early \cup Ready, NEW u \in Writers
        PROVE  snap'[u] # Staged(v)
    BY <2>3 DEF FreshInv, TypeOK
  <2>4. ASSUME NEW k \in (writes + 1) .. MaxWrites, NEW kind \in {"file", "other"}
        PROVE  <<k, kind>> \notin owed /\ \A u \in Writers : snap[u] # <<k, kind>>
    BY <1>e
  <2>5. \A v \in Writers : Staged(v) \in owed => pc'[v] \in {"finish", "done"}
    BY DEF FreshInv, TypeOK
  <2>6. owed' = owed /\ writes' = writes /\ snap' = snap
    OBVIOUS
  <2> HIDE DEF WriteInv, StageFails, Early, Ready
  <2> QED BY <2>1, <2>2, <2>3, <2>4, <2>5, <2>6 DEF FreshInv
<1>6. \A v \in Writers : Took(v)' => Took(v) /\ v # w
  BY DEF Took, TypeOK, PhaseInv
<1>7. TookInv'
  <2>1. ASSUME NEW v \in Writers, Took(v)', NEW n \in Slots, dir'[n] = snap[v]
        PROVE  n = Temp(v) /\ pc'[v] = "finish"
    <3>1. Took(v) /\ v # w /\ snap[v] # None /\ snap[v] # Staged(w)
      BY <1>6, <1>c, <2>1 DEF Took
    <3>2. n # Temp(w) /\ dir[n] = snap[v]
      BY <1>b, <1>d, <2>1, <3>1
    <3> QED BY <2>1, <3>1, <3>2 DEF TookInv, TypeOK
  <2> QED BY <1>6, <2>1 DEF TookInv
<1>8. MadeInv'
  BY <1>a DEF MadeInv, Made, TypeOK
<1>9. OwedInv'
  <2>1. \A v \in Writers : pc'[v] = "swapBack" => pc[v] = "swapBack"
    BY DEF TypeOK
  <2>2. dir[Temp(w)] = None
    BY DEF OwnInv
  <2>3. ASSUME NEW c \in owed \ exposed PROVE \E n \in Slots : dir'[n] = c
    <3>1. PICK n \in Slots : dir[n] = c
      BY DEF OwedInv
    <3>2. n # Temp(w)
      BY <2>2, <3>1 DEF OwedInv
    <3> QED BY <1>b, <3>1, <3>2
  <2> QED BY <1>a, <2>1, <2>3 DEF OwedInv
<1>10. FailedInv'
  <2>1. ASSUME NEW v \in Writers, result'[v] = "error", told'[v] = {},
               NEW n \in Names \ {Temp(v)}
        PROVE  dir'[n] # Staged(v) /\ \A u \in Writers : snap[u] # Staged(v)
    <3>1. CASE v = w
      BY <1>c, <1>d, <3>1
    <3>2. CASE v # w
      <4>1. result[v] = "error" /\ told[v] = {}
        BY <2>1, <3>2 DEF TypeOK
      <4>2. dir[n] # Staged(v) /\ \A u \in Writers : snap[u] # Staged(v)
        BY <4>1 DEF FailedInv
      <4>3. Staged(w) # Staged(v) /\ None # Staged(v)
        BY <3>2
      <4> QED BY <1>d, <4>2, <4>3
    <3> QED BY <3>1, <3>2
  <2>2. Names \ {Temp(w)} # {} /\ \A v \in Writers : \E n \in Names \ {Temp(v)} : TRUE
    OBVIOUS
  <2> QED BY <2>1, <2>2 DEF FailedInv
<1> QED BY <1>1, <1>2, <1>3, <1>4, <1>5, <1>7, <1>8, <1>9, <1>10

\* Steps that change nothing but where w is, from and to places with the same
\* invariant.
Proceeds(w) ==
  /\ \/ pc[w] = "recheck" /\ Goto(w, "exchange")
     \/ pc[w] = "verify" /\ Live(w) /\ Goto(w, "swapBack")
  /\ faults' \in 0 .. MaxFaults
  /\ UNCHANGED <<callVars, worldVars, parent, dir, snap, canceled>>

LEMMA ProceedInv ==
  ASSUME WriteInv, NEW w \in Writers, Proceeds(w)
  PROVE  WriteInv'
<1> USE DEF WriteInv, Proceeds, Goto, callVars, worldVars, Early, Ready, Replacing
<1>1. TypeOK'
  BY DEF TypeOK, Steps
<1>2. PhaseInv'
  BY DEF PhaseInv, TypeOK
<1>3. OwnInv'
  BY DEF OwnInv, TypeOK
<1>4. SingleInv'
  BY DEF SingleInv
<1>5. FreshInv'
  BY DEF FreshInv, TypeOK
<1>6. \A v \in Writers : Took(v)' = Took(v) /\ (pc'[v] = "finish" <=> pc[v] = "finish")
  BY DEF Took, TypeOK
<1>7. TookInv'
  BY <1>6 DEF TookInv
<1>8. MadeInv'
  BY DEF MadeInv, Made
<1>9. OwedInv'
  BY DEF OwedInv, TypeOK, Live, FreshInv
<1>10. FailedInv'
  BY DEF FailedInv
<1> QED BY <1>1, <1>2, <1>3, <1>4, <1>5, <1>7, <1>8, <1>9, <1>10

Cancels(w) ==
  /\ canceled' \in [Writers -> BOOLEAN]
  /\ UNCHANGED <<callVars, worldVars, parent, dir, pc, snap, result, told, faults>>

LEMMA CancelInv ==
  ASSUME WriteInv, NEW w \in Writers, Cancels(w)
  PROVE  WriteInv'
BY DEF Cancels, WriteInv, callVars, worldVars, TypeOK, PhaseInv, OwnInv, SingleInv,
       FreshInv, TookInv, Took, MadeInv, Made, OwedInv, FailedInv

-----------------------------------------------------------------------------
(* Steps that change the path                                              *)

Exchanges(w) ==
  /\ pc[w] = "exchange" /\ dir[Path] # None
  /\ dir' = Exchanged(Temp(w), Path) /\ Goto(w, "verify")
  /\ UNCHANGED <<callVars, worldVars, parent, snap, canceled, faults>>

LEMMA ExchangedNames ==
  ASSUME TypeOK, NEW w \in Writers
  PROVE  /\ Exchanged(Temp(w), Path) \in [Names -> Contents \cup {None}]
         /\ Exchanged(Temp(w), Path)[Temp(w)] = dir[Path]
         /\ Exchanged(Temp(w), Path)[Path] = dir[Temp(w)]
         /\ \A n \in Names \ {Path, Temp(w)} : Exchanged(Temp(w), Path)[n] = dir[n]
         /\ Recovery(w) \in Names \ {Path, Temp(w)}
         /\ \A v \in Writers \ {w} : /\ Temp(v) \in Names \ {Path, Temp(w)}
                                     /\ Recovery(v) \in Names \ {Path, Temp(w)}
BY NamesApart DEF Exchanged, TypeOK

LEMMA ExchangeInv ==
  ASSUME WriteInv, NEW w \in Writers, Exchanges(w)
  PROVE  WriteInv'
<1> USE NamesApart DEF WriteInv, Exchanges, Goto, callVars, worldVars, Early, Ready, Replacing
<1>0. /\ dir' \in [Names -> Contents \cup {None}]
      /\ dir'[Temp(w)] = dir[Path] /\ dir'[Path] = dir[Temp(w)]
      /\ \A n \in Names \ {Path, Temp(w)} : dir'[n] = dir[n]
      /\ dir'[Recovery(w)] = dir[Recovery(w)]
      /\ \A v \in Writers \ {w} :
           dir'[Temp(v)] = dir[Temp(v)] /\ dir'[Recovery(v)] = dir[Recovery(v)]
  BY ExchangedNames
<1>a. dir[Temp(w)] = Staged(w) /\ Staged(w) \notin owed
  BY DEF OwnInv, FreshInv
<1>1. TypeOK'
  BY <1>0 DEF TypeOK, Steps
<1>2. PhaseInv'
  BY DEF PhaseInv, TypeOK
<1>3. OwnInv'
  <2>1. \A n \in told[w] : FALSE
    BY DEF OwnInv
  <2> QED BY <1>0, <2>1 DEF OwnInv, TypeOK, Both
<1>4. SingleInv'
  BY <1>0 DEF SingleInv
<1>5. FreshInv'
  <2>1. ASSUME NEW k \in (writes + 1) .. MaxWrites, NEW kind \in {"file", "other"},
               NEW n \in Names
        PROVE  dir'[n] # <<k, kind>>
    <3>1. \A m \in Names : dir[m] # <<k, kind>>
      BY DEF FreshInv
    <3> QED BY <1>0, <3>1
  <2>2. ASSUME NEW v \in Writers, pc'[v] \in Early \cup Ready,
               NEW n \in Names \ {Temp(v)}
        PROVE  dir'[n] # Staged(v)
    <3>1. pc[v] \in Early \cup Ready /\ v # w
      BY <2>2 DEF TypeOK
    <3>2. \A m \in Names \ {Temp(v)} : dir[m] # Staged(v)
      BY <3>1 DEF FreshInv
    <3>3. Path # Temp(v) /\ Temp(w) # Temp(v)
      BY <3>1
    <3> QED BY <1>0, <3>2, <3>3
  <2>3. ASSUME NEW v \in Writers, pc'[v] \in Early \cup Ready, NEW u \in Writers
        PROVE  snap'[u] # Staged(v)
    BY <2>3 DEF FreshInv, TypeOK
  <2>4. ASSUME NEW k \in (writes + 1) .. MaxWrites, NEW kind \in {"file", "other"}
        PROVE  <<k, kind>> \notin owed /\ \A u \in Writers : snap[u] # <<k, kind>>
    BY DEF FreshInv
  <2>5. \A v \in Writers : Staged(v) \in owed => pc'[v] \in {"finish", "done"}
    BY DEF FreshInv, TypeOK
  <2>6. owed' = owed /\ writes' = writes /\ snap' = snap
    OBVIOUS
  <2> HIDE DEF WriteInv, Exchanges, Early, Ready, Goto
  <2> QED BY <2>1, <2>2, <2>3, <2>4, <2>5, <2>6 DEF FreshInv
<1>6. \A v \in Writers : Took(v)' => Took(v) /\ v # w
  BY DEF Took, TypeOK, PhaseInv
<1>7. TookInv'
  <2>1. ASSUME NEW v \in Writers, Took(v)', NEW n \in Slots, dir'[n] = snap[v]
        PROVE  n = Temp(v) /\ pc'[v] = "finish"
    <3>1. Took(v) /\ v # w
      BY <1>6, <2>1
    <3>2. dir[Path] # snap[v] /\ dir[Temp(w)] # snap[v]
      BY <3>1 DEF TookInv
    <3>3. dir[n] = snap[v]
      BY <1>0, <2>1, <3>2
    <3> QED BY <2>1, <3>1, <3>3 DEF TookInv, TypeOK
  <2> QED BY <1>6, <2>1 DEF TookInv
<1>8. MadeInv'
  BY <1>0 DEF MadeInv, Made, TypeOK, OwnInv
<1>9. OwedInv'
  <2>1. ASSUME NEW c \in owed \ exposed PROVE \E n \in Slots : dir'[n] = c
    <3>1. PICK n \in Slots : dir[n] = c
      BY DEF OwedInv
    <3> QED BY <1>0, <3>1
  <2> QED BY <1>0, <1>a, <2>1 DEF OwedInv
<1>10. FailedInv'
  <2>1. ASSUME NEW v \in Writers, result[v] = "error", told[v] = {},
               NEW n \in Names \ {Temp(v)}
        PROVE  dir'[n] # Staged(v)
    <3>1. v # w
      BY <2>1 DEF PhaseInv
    <3>2. \A m \in Names \ {Temp(v)} : dir[m] # Staged(v)
      BY <2>1 DEF FailedInv
    <3>3. Path # Temp(v) /\ Temp(w) # Temp(v)
      BY <3>1
    <3> QED BY <1>0, <3>2, <3>3
  <2> QED BY <2>1 DEF FailedInv
<1> QED BY <1>1, <1>2, <1>3, <1>4, <1>5, <1>7, <1>8, <1>9, <1>10

Creates(w) ==
  /\ pc[w] = "create" /\ dir[Path] = None
  /\ Succeed(w, Exchanged(Temp(w), Path)) /\ Owe(None, Staged(w))
  /\ UNCHANGED <<callVars, parent, snap, canceled, writes, faults>>

LEMMA CreateInv ==
  ASSUME WriteInv, NEW w \in Writers, Creates(w)
  PROVE  WriteInv'
<1> USE NamesApart DEF WriteInv, Creates, Succeed, Return, Both, Owe, callVars, Early, Ready, Replacing
<1>0. /\ dir' \in [Names -> Contents \cup {None}]
      /\ dir'[Path] = dir[Temp(w)] /\ dir'[Temp(w)] = None /\ dir'[Recovery(w)] = None
      /\ \A n \in Names \ {Path, Temp(w), Recovery(w)} : dir'[n] = dir[n]
      /\ \A v \in Writers \ {w} :
           dir'[Temp(v)] = dir[Temp(v)] /\ dir'[Recovery(v)] = dir[Recovery(v)]
  BY ExchangedNames
<1>a. dir[Temp(w)] = Staged(w) /\ Staged(w) \notin owed
  BY DEF OwnInv, FreshInv
<1>b. /\ Staged(w) # None /\ Staged(w) \in Contents
      /\ \A v \in Writers \ {w} : Staged(v) # Staged(w)
      /\ \A k \in (writes + 1) .. MaxWrites, kind \in {"file", "other"} :
           Staged(w) # <<k, kind>> /\ <<k, kind>> # None
  BY ContentsApart, FutureContents
<1>c. /\ \A n \in Names \ {Temp(w)} : dir[n] # Staged(w)
      /\ \A v \in Writers : snap[v] # Staged(w)
  BY DEF FreshInv
<1>d. owed' = (owed \ {None}) \cup {Staged(w)} /\ None \notin owed
  BY DEF OwedInv
<1>e. exposed \subseteq exposed' /\ exposed' \subseteq exposed \cup {Staged(w)}
  BY DEF Exposed
<1>1. TypeOK'
  <2>1. told' \in [Writers -> SUBSET Names]
    BY DEF TypeOK
  <2>2. owed' \subseteq Contents /\ exposed' \subseteq Contents
    BY <1>b, <1>d, <1>e DEF TypeOK
  <2> QED BY <1>0, <2>1, <2>2 DEF TypeOK, Steps
<1>2. PhaseInv'
  BY DEF PhaseInv, TypeOK
<1>3. OwnInv'
  BY <1>0 DEF OwnInv, TypeOK, Both
<1>4. SingleInv'
  BY <1>0 DEF SingleInv
<1>5. FreshInv'
  <2>1. ASSUME NEW k \in (writes + 1) .. MaxWrites, NEW kind \in {"file", "other"},
               NEW n \in Names
        PROVE  dir'[n] # <<k, kind>>
    <3>1. \A m \in Names : dir[m] # <<k, kind>>
      BY DEF FreshInv
    <3> QED BY <1>0, <1>b, <3>1
  <2>2. ASSUME NEW v \in Writers, pc'[v] \in Early \cup Ready,
               NEW n \in Names \ {Temp(v)}
        PROVE  dir'[n] # Staged(v)
    <3>1. pc[v] \in Early \cup Ready /\ v # w
      BY <2>2 DEF TypeOK
    <3>2. \A m \in Names \ {Temp(v)} : dir[m] # Staged(v)
      BY <3>1 DEF FreshInv
    <3>3. Path # Temp(v) /\ Temp(w) # Temp(v) /\ None # Staged(v)
      BY <3>1, ContentsApart
    <3> QED BY <1>0, <3>2, <3>3
  <2>3. ASSUME NEW v \in Writers, pc'[v] \in Early \cup Ready, NEW u \in Writers
        PROVE  snap'[u] # Staged(v)
    BY <2>3 DEF FreshInv, TypeOK
  <2>4. ASSUME NEW k \in (writes + 1) .. MaxWrites, NEW kind \in {"file", "other"}
        PROVE  <<k, kind>> \notin owed' /\ \A u \in Writers : snap[u] # <<k, kind>>
    BY <1>b, <1>d DEF FreshInv
  <2>5. \A v \in Writers : Staged(v) \in owed' => pc'[v] \in {"finish", "done"}
    BY <1>b, <1>d DEF FreshInv, TypeOK
  <2>6. writes' = writes /\ snap' = snap
    OBVIOUS
  <2> HIDE DEF WriteInv, Creates, Early, Ready, Succeed, Return, Owe
  <2> QED BY <2>1, <2>2, <2>3, <2>4, <2>5, <2>6 DEF FreshInv
<1>6. \A v \in Writers : Took(v)' => Took(v) /\ v # w
  BY DEF Took, TypeOK, PhaseInv
<1>7. TookInv'
  <2>1. ASSUME NEW v \in Writers, Took(v)', NEW n \in Slots, dir'[n] = snap[v]
        PROVE  n = Temp(v) /\ pc'[v] = "finish"
    <3>1. Took(v) /\ v # w
      BY <1>6, <2>1
    <3>2. dir[n] = snap[v]
      BY <1>0, <1>a, <1>c, <2>1, <3>1 DEF Took
    <3> QED BY <2>1, <3>1, <3>2 DEF TookInv, TypeOK
  <2>2. ASSUME NEW v \in Writers, Took(v)' PROVE snap[v] \notin owed'
    BY <1>6, <1>c, <1>d, <2>2 DEF TookInv
  <2> QED BY <1>6, <2>1, <2>2 DEF TookInv
<1>8. MadeInv'
  <2>1. \A v \in Writers \ {w} : Made(v)' = Made(v)
    BY DEF Made, TypeOK
  <2> QED BY <1>0, <1>a, <1>b, <2>1 DEF MadeInv
<1>9. OwedInv'
  <2>1. ASSUME NEW c \in owed' \ exposed' PROVE \E n \in Slots : dir'[n] = c
    <3>1. CASE c = Staged(w)
      BY <1>0, <1>a, <3>1
    <3>2. CASE c # Staged(w)
      <4>1. c \in owed \ exposed
        BY <1>d, <1>e, <3>2
      <4>2. PICK n \in Slots : dir[n] = c
        BY <4>1 DEF OwedInv
      <4> QED BY <1>0, <1>a, <1>d, <3>2, <4>1, <4>2
    <3> QED BY <3>1, <3>2
  <2>2. ASSUME NEW v \in Writers, pc'[v] = "swapBack"
        PROVE  dir'[Path] \notin owed' \ exposed'
    <3>1. pc[v] = "swapBack"
      BY <2>2 DEF TypeOK
    <3> QED BY <1>0, <1>a, <1>b, <3>1 DEF Exposed
  <2>3. None \notin owed'
    BY <1>b, <1>d
  <2> QED BY <2>1, <2>2, <2>3 DEF OwedInv
<1>10. FailedInv'
  <2>1. ASSUME NEW v \in Writers, result'[v] = "error", told'[v] = {}
        PROVE  (\A n \in Names \ {Temp(v)} : dir'[n] # Staged(v)) /\ \A u \in Writers : snap[u] # Staged(v)
    <3>1. v # w /\ result[v] = "error" /\ told[v] = {}
      BY <2>1 DEF TypeOK
    <3>2. (\A n \in Names \ {Temp(v)} : dir[n] # Staged(v)) /\ \A u \in Writers : snap[u] # Staged(v)
      BY <2>1, <3>1 DEF FailedInv
    <3>3. None # Staged(v) /\ Path # Temp(v) /\ Temp(w) # Temp(v)
      BY <3>1, ContentsApart
    <3> QED BY <1>0, <2>1, <3>2, <3>3
  <2> QED BY <2>1 DEF FailedInv
<1> QED BY <1>1, <1>2, <1>3, <1>4, <1>5, <1>7, <1>8, <1>9, <1>10

\* A verified exchange.
Installs(w) ==
  /\ pc[w] = "verify" /\ Displaced(w) /\ Live(w)
  /\ Goto(w, "finish") /\ Owe(snap[w], Staged(w))
  /\ UNCHANGED <<callVars, parent, dir, snap, canceled, writes, faults>>

LEMMA InstallInv ==
  ASSUME WriteInv, NEW w \in Writers, Installs(w)
  PROVE  WriteInv'
<1> USE NamesApart DEF WriteInv, Installs, Goto, Owe, callVars, Early, Ready, Replacing
<1>a. /\ dir[Temp(w)] = snap[w] /\ snap[w] # None /\ dir[Path] = Staged(w)
      /\ snap[w] # Staged(w)
  BY DEF Displaced, Live, OwnInv, SingleInv, TypeOK
<1>b. /\ Staged(w) # None /\ Staged(w) \in Contents
      /\ \A v \in Writers \ {w} : Staged(v) # Staged(w)
      /\ \A k \in (writes + 1) .. MaxWrites, kind \in {"file", "other"} :
           Staged(w) # <<k, kind>>
  BY ContentsApart, FutureContents
<1>d. owed' = (owed \ {snap[w]}) \cup {Staged(w)}
  OBVIOUS
<1>e. exposed \subseteq exposed' /\ exposed' \subseteq exposed \cup {Staged(w)}
  BY DEF Exposed
<1>f. \A n \in Slots \ {Temp(w)} : dir[n] # snap[w]
  BY <1>a DEF SingleInv
<1>1. TypeOK'
  <2>1. owed' \subseteq Contents /\ exposed' \subseteq Contents
    BY <1>b, <1>d, <1>e DEF TypeOK
  <2> QED BY <1>a, <2>1 DEF TypeOK, Steps
<1>2. PhaseInv'
  BY DEF PhaseInv, TypeOK
<1>3. OwnInv'
  BY <1>a DEF OwnInv, TypeOK
<1>4. SingleInv'
  BY DEF SingleInv
<1>5. FreshInv'
  <2>1. \A v \in Writers : pc'[v] \in Early \cup Ready => pc[v] \in Early \cup Ready
    BY DEF TypeOK
  <2>2. \A v \in Writers : Staged(v) \in owed' => pc'[v] \in {"finish", "done"}
    BY <1>b, <1>d DEF FreshInv, TypeOK
  <2>3. ASSUME NEW k \in (writes + 1) .. MaxWrites, NEW kind \in {"file", "other"}
        PROVE  <<k, kind>> \notin owed'
    BY <1>b, <1>d DEF FreshInv
  <2> QED BY <2>1, <2>2, <2>3 DEF FreshInv
<1>6. \A v \in Writers : Took(v)' => Took(v) \/ v = w
  BY DEF Took, TypeOK
<1>7. TookInv'
  <2>1. \A v \in Writers \ {w} : Took(v)' => /\ Took(v) /\ snap[v] # snap[w]
                                             /\ snap[v] # Staged(w)
    BY <1>6, <1>a DEF TookInv
  <2>2. snap[w] \notin owed'
    BY <1>a, <1>d
  <2>3. \A v \in Writers \ {w} : Took(v)' => snap[v] \notin owed'
    BY <1>d, <2>1 DEF TookInv
  <2>4. ASSUME NEW v \in Writers, Took(v)', NEW n \in Slots, dir[n] = snap[v]
        PROVE  n = Temp(v) /\ pc'[v] = "finish"
    BY <1>f, <2>1, <2>4 DEF TookInv, TypeOK
  <2> QED BY <2>1, <2>2, <2>3, <2>4 DEF TookInv
<1>8. MadeInv'
  BY DEF MadeInv, Made, TypeOK
<1>9. OwedInv'
  <2>1. ASSUME NEW c \in owed' \ exposed' PROVE \E n \in Slots : dir[n] = c
    <3>1. CASE c = Staged(w)
      BY <1>a, <3>1
    <3>2. CASE c # Staged(w)
      <4>1. c \in owed \ exposed
        BY <1>d, <1>e, <3>2
      <4> QED BY <4>1 DEF OwedInv
    <3> QED BY <3>1, <3>2
  <2>2. ASSUME NEW v \in Writers, pc'[v] = "swapBack"
        PROVE  dir'[Path] \notin owed' \ exposed'
    <3>1. pc[v] = "swapBack"
      BY <2>2 DEF TypeOK
    <3> QED BY <1>a, <1>b, <3>1 DEF Exposed
  <2>3. None \notin owed'
    BY <1>b, <1>d DEF OwedInv
  <2> QED BY <2>1, <2>2, <2>3 DEF OwedInv
<1>10. FailedInv'
  BY DEF FailedInv
<1> QED BY <1>1, <1>2, <1>3, <1>4, <1>5, <1>7, <1>8, <1>9, <1>10

\* The way back: what was displaced returns, the staged file is unlinked.
SwapsBack(w) ==
  /\ pc[w] = "swapBack" /\ dir[Path] # None
  /\ Fail(w, {Recovery(w)}, Exchanged(Temp(w), Path))
  /\ exposed' = Exposed(dir[Temp(w)], Writers \ {w})
  /\ UNCHANGED <<callVars, parent, snap, canceled, writes, owed, faults>>

LEMMA SwapBackInv ==
  ASSUME WriteInv, NEW w \in Writers, SwapsBack(w)
  PROVE  WriteInv'
<1> USE NamesApart DEF WriteInv, SwapsBack, callVars, Early, Ready, Replacing
<1>g. PICK gone \in SUBSET (Both(w) \ {Recovery(w)}) :
        Return(w, "error", {Recovery(w)}, gone, Exchanged(Temp(w), Path))
  BY DEF Fail
<1> USE <1>g DEF Return
<1>0. /\ dir' \in [Names -> Contents \cup {None}]
      /\ dir'[Path] = dir[Temp(w)] /\ dir'[Temp(w)] \in {None, dir[Path]}
      /\ dir'[Recovery(w)] = dir[Recovery(w)]
      /\ \A n \in Names \ {Path, Temp(w)} : dir'[n] = dir[n]
      /\ \A v \in Writers \ {w} :
           dir'[Temp(v)] = dir[Temp(v)] /\ dir'[Recovery(v)] = dir[Recovery(v)]
  BY ExchangedNames DEF Both
<1>a. /\ dir[Temp(w)] # None /\ dir[Recovery(w)] # None
      /\ dir[Path] \notin owed \ exposed
  BY DEF OwnInv, OwedInv, TypeOK
<1>b. exposed \subseteq exposed' /\ exposed' \subseteq exposed \cup ({dir[Temp(w)]} \ {None})
  BY DEF Exposed
<1>c. \A n \in Names : dir'[n] = None \/ \E m \in Names : dir'[n] = dir[m]
  BY <1>0
<1>1. TypeOK'
  <2>1. told' \in [Writers -> SUBSET Names]
    BY DEF TypeOK
  <2>2. exposed' \subseteq Contents
    <3>1. dir[Temp(w)] \in Contents \cup {None} /\ exposed \subseteq Contents
      BY DEF TypeOK
    <3> QED BY <1>b, <3>1
  <2> QED BY <1>0, <2>1, <2>2 DEF TypeOK, Steps
<1>2. PhaseInv'
  BY DEF PhaseInv, TypeOK
<1>3. OwnInv'
  BY <1>0, <1>a DEF OwnInv, TypeOK, Both
<1>4. SingleInv'
  BY <1>0 DEF SingleInv
<1>5. FreshInv'
  <2>1. ASSUME NEW k \in (writes + 1) .. MaxWrites, NEW kind \in {"file", "other"},
               NEW n \in Names
        PROVE  dir'[n] # <<k, kind>>
    <3>1. \A m \in Names : dir[m] # <<k, kind>>
      BY DEF FreshInv
    <3>2. None # <<k, kind>>
      BY FutureContents
    <3> QED BY <1>c, <3>1, <3>2
  <2>2. ASSUME NEW v \in Writers, pc'[v] \in Early \cup Ready,
               NEW n \in Names \ {Temp(v)}
        PROVE  dir'[n] # Staged(v)
    <3>1. pc[v] \in Early \cup Ready /\ v # w
      BY <2>2 DEF TypeOK
    <3>2. \A m \in Names \ {Temp(v)} : dir[m] # Staged(v)
      BY <3>1 DEF FreshInv
    <3>3. Path # Temp(v) /\ Temp(w) # Temp(v) /\ None # Staged(v)
      BY <3>1, ContentsApart
    <3> QED BY <1>0, <3>2, <3>3
  <2>3. ASSUME NEW v \in Writers, pc'[v] \in Early \cup Ready, NEW u \in Writers
        PROVE  snap'[u] # Staged(v)
    BY <2>3 DEF FreshInv, TypeOK
  <2>4. ASSUME NEW k \in (writes + 1) .. MaxWrites, NEW kind \in {"file", "other"}
        PROVE  <<k, kind>> \notin owed /\ \A u \in Writers : snap[u] # <<k, kind>>
    BY DEF FreshInv
  <2>5. \A v \in Writers : Staged(v) \in owed => pc'[v] \in {"finish", "done"}
    BY DEF FreshInv, TypeOK
  <2>6. owed' = owed /\ writes' = writes /\ snap' = snap
    OBVIOUS
  <2> HIDE DEF WriteInv, SwapsBack, Early, Ready, Return
  <2> QED BY <2>1, <2>2, <2>3, <2>4, <2>5, <2>6 DEF FreshInv
<1>6. \A v \in Writers : Took(v)' => Took(v) /\ v # w
  BY DEF Took, TypeOK, PhaseInv
<1>7. TookInv'
  <2>1. ASSUME NEW v \in Writers, Took(v)', NEW n \in Slots, dir'[n] = snap[v]
        PROVE  n = Temp(v) /\ pc'[v] = "finish"
    <3>1. Took(v) /\ v # w /\ snap[v] # None
      BY <1>6, <2>1 DEF Took
    <3>2. dir[Temp(w)] # snap[v] /\ dir[Path] # snap[v]
      BY <3>1 DEF TookInv
    <3>3. dir[n] = snap[v]
      BY <1>0, <2>1, <3>1, <3>2
    <3> QED BY <2>1, <3>1, <3>3 DEF TookInv, TypeOK
  <2> QED BY <1>6, <2>1 DEF TookInv
<1>8. MadeInv'
  BY <1>0, <1>a DEF MadeInv, Made, TypeOK
<1>9. OwedInv'
  <2>1. ASSUME NEW c \in owed \ exposed' PROVE \E n \in Slots : dir'[n] = c
    <3>1. c \in owed \ exposed
      BY <1>b
    <3>2. PICK n \in Slots : dir[n] = c
      BY <3>1 DEF OwedInv
    <3>3. n # Path
      BY <1>a, <3>1, <3>2
    <3> QED BY <1>0, <3>2, <3>3
  <2>2. ASSUME NEW v \in Writers, pc'[v] = "swapBack"
        PROVE  dir'[Path] \notin owed' \ exposed'
    <3>1. pc[v] = "swapBack" /\ v # w
      BY <2>2 DEF TypeOK
    <3> QED BY <1>0, <1>a, <3>1 DEF Exposed
  <2> QED BY <2>1, <2>2 DEF OwedInv
<1>10. FailedInv'
  <2>1. ASSUME NEW v \in Writers, result'[v] = "error", told'[v] = {}
        PROVE  (\A n \in Names \ {Temp(v)} : dir'[n] # Staged(v)) /\ \A u \in Writers : snap[u] # Staged(v)
    <3>1. v # w /\ result[v] = "error" /\ told[v] = {}
      BY <2>1 DEF TypeOK
    <3>2. (\A n \in Names \ {Temp(v)} : dir[n] # Staged(v)) /\ \A u \in Writers : snap[u] # Staged(v)
      BY <2>1, <3>1 DEF FailedInv
    <3>3. None # Staged(v) /\ Path # Temp(v) /\ Temp(w) # Temp(v)
      BY <3>1, ContentsApart
    <3> QED BY <1>0, <3>1, <3>2, <3>3
  <2> QED BY <2>1 DEF FailedInv
<1> QED BY <1>1, <1>2, <1>3, <1>4, <1>5, <1>7, <1>8, <1>9, <1>10

Succeeds(w) ==
  /\ pc[w] = "finish" /\ Succeed(w, dir)
  /\ UNCHANGED <<callVars, worldVars, parent, snap, canceled, faults>>

LEMMA SucceedInv ==
  ASSUME WriteInv, NEW w \in Writers, Succeeds(w)
  PROVE  WriteInv'
<1> USE NamesApart DEF WriteInv, Succeeds, Succeed, Return, Both, callVars, worldVars, Early, Ready, Replacing
<1>0. /\ dir' \in [Names -> Contents \cup {None}]
      /\ dir'[Temp(w)] = None
      /\ \A n \in Names : dir'[n] = dir[n] \/ dir'[n] = None
      /\ \A n \in Slots \ {Temp(w)} : dir'[n] = dir[n]
      /\ \A v \in Writers \ {w} :
           dir'[Temp(v)] = dir[Temp(v)] /\ dir'[Recovery(v)] = dir[Recovery(v)]
  BY DEF TypeOK
<1>a. /\ snap[w] # None /\ Took(w) /\ dir[Temp(w)] = snap[w] /\ snap[w] \notin owed
      /\ \A n \in Slots : dir[n] = snap[w] => n = Temp(w)
  BY DEF OwnInv, TookInv, Took, TypeOK
<1>1. TypeOK'
  <2>1. told' \in [Writers -> SUBSET Names]
    BY DEF TypeOK
  <2> QED BY <1>0, <2>1 DEF TypeOK, Steps
<1>2. PhaseInv'
  BY DEF PhaseInv, TypeOK
<1>3. OwnInv'
  BY <1>0 DEF OwnInv, TypeOK, Both
<1>4. SingleInv'
  BY <1>0 DEF SingleInv
<1>5. FreshInv'
  <2>1. ASSUME NEW k \in (writes + 1) .. MaxWrites, NEW kind \in {"file", "other"},
               NEW n \in Names
        PROVE  dir'[n] # <<k, kind>>
    <3>1. \A m \in Names : dir[m] # <<k, kind>>
      BY DEF FreshInv
    <3>2. None # <<k, kind>>
      BY FutureContents
    <3> QED BY <1>0, <3>1, <3>2
  <2>2. ASSUME NEW v \in Writers, pc'[v] \in Early \cup Ready,
               NEW n \in Names \ {Temp(v)}
        PROVE  dir'[n] # Staged(v)
    <3>1. pc[v] \in Early \cup Ready /\ None # Staged(v)
      BY <2>2, ContentsApart DEF TypeOK
    <3>2. \A m \in Names \ {Temp(v)} : dir[m] # Staged(v)
      BY <3>1 DEF FreshInv
    <3> QED BY <1>0, <3>1, <3>2
  <2>3. \A v \in Writers : pc'[v] \in Early \cup Ready => pc[v] \in Early \cup Ready
    BY DEF TypeOK
  <2>4. \A v \in Writers : Staged(v) \in owed => pc'[v] \in {"finish", "done"}
    BY DEF FreshInv, TypeOK
  <2> QED BY <2>1, <2>2, <2>3, <2>4 DEF FreshInv
<1>6. \A v \in Writers : Took(v)' => Took(v) /\ (v # w => pc'[v] = pc[v])
  BY <1>a DEF Took, TypeOK, PhaseInv
<1>7. TookInv'
  <2>1. ASSUME NEW v \in Writers, Took(v)', NEW n \in Slots, dir'[n] = snap[v]
        PROVE  n = Temp(v) /\ pc'[v] = "finish"
    <3>1. Took(v) /\ snap[v] # None
      BY <1>6, <2>1 DEF Took
    <3>2. n # Temp(w) /\ dir[n] = snap[v]
      BY <1>0, <2>1, <3>1
    <3>3. v # w
      BY <1>a, <3>2
    <3> QED BY <1>6, <2>1, <3>1, <3>2, <3>3 DEF TookInv
  <2> QED BY <1>6, <2>1 DEF TookInv
<1>8. MadeInv'
  <2>1. \A v \in Writers : Made(v)' => Made(v)
    BY <1>a DEF Made, TypeOK
  <2> QED BY <1>0, <2>1 DEF MadeInv
<1>9. OwedInv'
  <2>1. ASSUME NEW c \in owed \ exposed PROVE \E n \in Slots : dir'[n] = c
    <3>1. PICK n \in Slots : dir[n] = c
      BY DEF OwedInv
    <3> QED BY <1>0, <1>a, <3>1
  <2>2. \A v \in Writers : pc'[v] = "swapBack" => pc[v] = "swapBack"
    BY DEF TypeOK
  <2> QED BY <1>0, <2>1, <2>2 DEF OwedInv
<1>10. FailedInv'
  <2>1. ASSUME NEW v \in Writers, result'[v] = "error", told'[v] = {}
        PROVE  (\A n \in Names \ {Temp(v)} : dir'[n] # Staged(v)) /\ \A u \in Writers : snap[u] # Staged(v)
    <3>1. v # w /\ result[v] = "error" /\ told[v] = {} /\ None # Staged(v)
      BY <2>1, ContentsApart DEF TypeOK
    <3>2. (\A n \in Names \ {Temp(v)} : dir[n] # Staged(v)) /\ \A u \in Writers : snap[u] # Staged(v)
      BY <2>1, <3>1 DEF FailedInv
    <3> QED BY <1>0, <3>1, <3>2
  <2> QED BY <2>1 DEF FailedInv
<1> QED BY <1>1, <1>2, <1>3, <1>4, <1>5, <1>7, <1>8, <1>9, <1>10

-----------------------------------------------------------------------------
(* Other programs                                                          *)

LEMMA ChangeInv ==
  ASSUME WriteInv,
         NEW new \in {None} \cup {<<writes + 1, kind>> : kind \in {"file", "other"}},
         Change(new)
  PROVE  WriteInv'
<1> USE NamesApart DEF WriteInv, Change, callVars, Early, Ready, Replacing
<1>0. /\ dir'[Path] = new
      /\ \A n \in Names \ {Path} : dir'[n] = dir[n]
      /\ \A v \in Writers : dir'[Temp(v)] = dir[Temp(v)] /\ dir'[Recovery(v)] = dir[Recovery(v)]
  BY DEF TypeOK
<1>a. /\ writes + 1 \in 1 .. MaxWrites /\ writes + 1 \in (writes + 1) .. MaxWrites
      /\ writes' = writes + 1
      /\ \A k \in (writes' + 1) .. MaxWrites :
           k \in (writes + 1) .. MaxWrites /\ k # writes + 1 /\ k \in 1 .. MaxWrites
  BY FileBoundsAssumption DEF TypeOK
<1>b. /\ new \in Contents \cup {None}
      /\ \A v \in Writers : new # Staged(v)
  <2>1. CASE new = None
    BY <2>1, ContentsApart
  <2>2. CASE new # None
    <3>1. PICK kind \in {"file", "other"} : new = <<writes + 1, kind>>
      BY <2>2
    <3> QED BY <1>a, <3>1, ContentsApart
  <2> QED BY <2>1, <2>2
<1>c. /\ new # None => \A n \in Names : dir[n] # new
      /\ new # None => \A v \in Writers : snap[v] # new
  BY <1>a DEF FreshInv
<1>d. owed' = (owed \ {dir[Path]}) \cup ({new} \ {None})
  OBVIOUS
<1>e. exposed \subseteq exposed' /\ exposed' \subseteq exposed \cup ({new} \ {None})
  BY DEF Exposed
<1>1. TypeOK'
  <2>1. dir' \in [Names -> Contents \cup {None}]
    BY <1>b DEF TypeOK
  <2>2. owed' \subseteq Contents /\ exposed' \subseteq Contents
    BY <1>b, <1>d, <1>e DEF TypeOK
  <2>3. writes' \in 0 .. MaxWrites
    BY <1>a
  <2> QED BY <2>1, <2>2, <2>3 DEF TypeOK, Steps
<1>2. PhaseInv'
  BY DEF PhaseInv
<1>3. OwnInv'
  BY <1>0 DEF OwnInv, Both
<1>4. SingleInv'
  BY <1>0, <1>c DEF SingleInv
<1>5. FreshInv'
  <2>1. ASSUME NEW k \in (writes' + 1) .. MaxWrites, NEW kind \in {"file", "other"}
        PROVE  new # <<k, kind>>
    <3>1. k \in 1 .. MaxWrites /\ k # writes + 1
      BY <1>a
    <3>2. None # <<k, kind>>
      BY <3>1, ContentsApart
    <3>3. ASSUME NEW other \in {"file", "other"} PROVE <<writes + 1, other>> # <<k, kind>>
      BY <3>1
    <3> QED BY <3>2, <3>3
  <2>2. ASSUME NEW k \in (writes' + 1) .. MaxWrites, NEW kind \in {"file", "other"}
        PROVE  /\ \A n \in Names : dir'[n] # <<k, kind>>
               /\ \A v \in Writers : snap[v] # <<k, kind>>
               /\ <<k, kind>> \notin owed'
    <3>1. /\ \A n \in Names : dir[n] # <<k, kind>>
          /\ \A v \in Writers : snap[v] # <<k, kind>>
          /\ <<k, kind>> \notin owed
      BY <1>a DEF FreshInv
    <3> QED BY <1>0, <1>d, <2>1, <3>1
  <2>3. ASSUME NEW v \in Writers, pc[v] \in Early \cup Ready,
               NEW n \in Names \ {Temp(v)}
        PROVE  dir'[n] # Staged(v)
    BY <1>0, <1>b, <2>3 DEF FreshInv
  <2>4. \A v \in Writers : Staged(v) \in owed' => Staged(v) \in owed
    BY <1>b, <1>d
  <2>5. pc' = pc /\ snap' = snap
    OBVIOUS
  <2> QED BY <2>2, <2>3, <2>4, <2>5 DEF FreshInv
<1>6. \A v \in Writers : Took(v)' = Took(v)
  BY DEF Took
<1>7. TookInv'
  <2>1. ASSUME NEW v \in Writers, Took(v)
        PROVE  snap[v] \notin owed' /\ \A n \in Slots : dir'[n] = snap[v] => dir[n] = snap[v]
    BY <1>0, <1>c, <1>d, <2>1 DEF TookInv, Took
  <2> QED BY <1>6, <2>1 DEF TookInv
<1>8. MadeInv'
  BY <1>a DEF MadeInv, TypeOK
<1>9. OwedInv'
  <2>1. ASSUME NEW c \in owed' \ exposed' PROVE \E n \in Slots : dir'[n] = c
    <3>1. CASE c = new
      BY <1>0, <3>1
    <3>2. CASE c # new
      <4>1. c \in owed \ exposed /\ c # dir[Path]
        BY <1>d, <1>e, <3>2
      <4>2. PICK n \in Slots : dir[n] = c
        BY <4>1 DEF OwedInv
      <4> QED BY <1>0, <4>1, <4>2
    <3> QED BY <3>1, <3>2
  <2>2. None \notin owed'
    BY <1>d DEF OwedInv
  <2>3. ASSUME NEW v \in Writers, pc[v] = "swapBack"
        PROVE  dir'[Path] \notin owed' \ exposed'
    BY <1>0, <2>2, <2>3 DEF Exposed
  <2> QED BY <2>1, <2>2, <2>3 DEF OwedInv
<1>10. FailedInv'
  BY <1>0, <1>b DEF FailedInv
<1> QED BY <1>1, <1>2, <1>3, <1>4, <1>5, <1>7, <1>8, <1>9, <1>10

-----------------------------------------------------------------------------
(* Every step                                                              *)

\* What an action of the write w does, whichever code it is.
Acts(w) ==
  \/ Prepares(w) \/ Stages(w) \/ StageFails(w) \/ Proceeds(w) \/ Exchanges(w) \/ Creates(w)
  \/ Installs(w) \/ SwapsBack(w) \/ Succeeds(w)
  \/ \E kept \in {{}, {Recovery(w)}, Both(w)} : GivesUp(w, kept)

LEMMA StageActs ==
  ASSUME WriteInv, NEW w \in Writers, Stage(w)
  PROVE  Acts(w)
<1>1. CASE dir' = Staging(w, snap[w]) /\ ~(snap[w] # None /\ dir[Path] # snap[w])
           /\ Goto(w, IF snap[w] = None THEN "create" ELSE "recheck") /\ UNCHANGED faults
  BY <1>1 DEF Stage, Stages, Acts
<1>2. CASE /\ Refused((snap[w] # None /\ dir[Path] # snap[w]) \/ canceled[w])
           /\ \E d \in {dir, Staging(w, None), Staging(w, snap[w])} : Fail(w, {}, d)
  <2>1. faults' \in 0 .. MaxFaults
    BY <1>2, RefusedBound DEF WriteInv
  <2>2. \A n \in Both(w) : dir[n] = None
    BY DEF WriteInv, OwnInv, Stage, Early, Both
  <2>3. PICK d \in {dir, Staging(w, None), Staging(w, snap[w])},
             gone \in SUBSET (Both(w) \ {}) : Return(w, "error", {}, gone, d)
    BY <1>2 DEF Fail
  <2>4. /\ dir'[Temp(w)] \in {None, Staged(w)} /\ dir'[Recovery(w)] \in {None, snap[w]}
        /\ \A n \in Names \ Both(w) : dir'[n] = dir[n]
        /\ DOMAIN dir' = Names
    BY <2>2, <2>3, NamesApart DEF Return, Staging, Both, WriteInv, TypeOK
  <2>5. dir' = [n \in Names |-> dir'[n]]
    BY <2>3 DEF Return
  <2> QED BY <1>2, <2>1, <2>3, <2>4, <2>5 DEF Stage, StageFails, Return, Acts
<1> QED BY <1>1, <1>2 DEF Stage

LEMMA CreateActs ==
  ASSUME WriteInv, NEW w \in Writers, Create(w)
  PROVE  Acts(w)
<1>1. CASE dir[Path] = None /\ Succeed(w, Exchanged(Temp(w), Path)) /\ Owe(None, Staged(w))
           /\ UNCHANGED faults
  BY <1>1 DEF Create, Creates, Acts
<1>2. CASE Refused(dir[Path] # None \/ canceled[w]) /\ Error(w, {}) /\ UNCHANGED <<owed, exposed>>
  <2>1. faults' \in 0 .. MaxFaults
    BY <1>2, RefusedBound DEF WriteInv
  <2>2. GivesUp(w, {})
    BY <1>2, <2>1, StepsGiveUp DEF Create, worldVars
  <2> QED BY <2>2 DEF Acts
<1> QED BY <1>1, <1>2 DEF Create

LEMMA RecheckActs ==
  ASSUME WriteInv, NEW w \in Writers, Recheck(w)
  PROVE  Acts(w)
<1>0. faults \in 0 .. MaxFaults
  BY DEF WriteInv, TypeOK
<1>1. CASE Goto(w, "exchange") /\ UNCHANGED <<dir, faults>>
  BY <1>0, <1>1 DEF Recheck, Proceeds, Acts
<1>2. CASE Refused(dir[Path] # snap[w] \/ canceled[w]) /\ Error(w, {Recovery(w)})
  <2>1. faults' \in 0 .. MaxFaults
    BY <1>2, RefusedBound DEF WriteInv
  <2>2. GivesUp(w, {Recovery(w)})
    BY <1>2, <2>1, StepsGiveUp DEF Recheck, worldVars
  <2> QED BY <2>2 DEF Acts
<1> QED BY <1>1, <1>2 DEF Recheck

LEMMA ExchangeActs ==
  ASSUME WriteInv, NEW w \in Writers, Exchange(w)
  PROVE  Acts(w)
<1>1. CASE dir[Path] # None /\ UNCHANGED faults /\ dir' = Exchanged(Temp(w), Path)
           /\ Goto(w, "verify")
  BY <1>1 DEF Exchange, Exchanges, Acts
<1>2. CASE Refused(dir[Path] = None \/ canceled[w]) /\ Error(w, {})
  <2>1. faults' \in 0 .. MaxFaults
    BY <1>2, RefusedBound DEF WriteInv
  <2>2. GivesUp(w, {})
    BY <1>2, <2>1, StepsGiveUp DEF Exchange, worldVars
  <2> QED BY <2>2 DEF Acts
<1> QED BY <1>1, <1>2 DEF Exchange

LEMMA VerifyActs ==
  ASSUME WriteInv, NEW w \in Writers, Verify(w)
  PROVE  Acts(w)
<1>1. CASE Displaced(w) /\ Live(w) /\ UNCHANGED faults /\ Installed(w)
  BY <1>1 DEF Verify, Installed, Installs, Acts
<1>2. CASE Live(w) /\ Refused(~Displaced(w)) /\ Goto(w, "swapBack")
           /\ UNCHANGED <<dir, owed, exposed>>
  <2>1. faults' \in 0 .. MaxFaults
    BY <1>2, RefusedBound DEF WriteInv
  <2> QED BY <1>2, <2>1 DEF Verify, Proceeds, Acts, worldVars
<1>3. CASE Refused(~Live(w) \/ canceled[w]) /\ Error(w, Both(w)) /\ UNCHANGED <<owed, exposed>>
  <2>1. faults' \in 0 .. MaxFaults
    BY <1>3, RefusedBound DEF WriteInv
  <2>2. GivesUp(w, Both(w))
    BY <1>3, <2>1, StepsGiveUp DEF Verify, worldVars
  <2> QED BY <2>2 DEF Acts
<1> QED BY <1>1, <1>2, <1>3 DEF Verify

LEMMA SwapBackActs ==
  ASSUME WriteInv, NEW w \in Writers, SwapBack(w)
  PROVE  Acts(w)
<1>1. CASE dir[Path] # None /\ UNCHANGED faults
           /\ Fail(w, {Recovery(w)}, Exchanged(Temp(w), Path))
           /\ exposed' = Exposed(dir[Temp(w)], Writers \ {w})
  BY <1>1 DEF SwapBack, SwapsBack, Acts
<1>2. CASE Refused(dir[Path] = None) /\ Error(w, Both(w)) /\ UNCHANGED exposed
  <2>1. faults' \in 0 .. MaxFaults
    BY <1>2, RefusedBound DEF WriteInv
  <2>2. GivesUp(w, Both(w))
    BY <1>2, <2>1, StepsGiveUp DEF SwapBack, worldVars
  <2> QED BY <2>2 DEF Acts
<1> QED BY <1>1, <1>2 DEF SwapBack

LEMMA FinishActs ==
  ASSUME WriteInv, NEW w \in Writers, Finish(w)
  PROVE  Acts(w)
<1>1. CASE Succeed(w, dir) /\ UNCHANGED faults
  BY <1>1 DEF Finish, Succeeds, Acts
<1>2. ASSUME NEW kept \in {Both(w), {Recovery(w)}}, Refused(FALSE),
             Return(w, "error", kept, Both(w) \ kept, dir)
      PROVE  Acts(w)
  <2>1. faults' \in 0 .. MaxFaults
    BY <1>2, RefusedBound DEF WriteInv
  <2>2. kept # {} /\ kept \in {{}, {Recovery(w)}, Both(w)}
    BY DEF Both
  <2>3. Error(w, kept)
    BY <1>2 DEF Error, Fail
  <2>4. GivesUp(w, kept)
    BY <2>1, <2>2, <2>3, StepsGiveUp DEF Finish
  <2> QED BY <2>2, <2>4 DEF Acts
<1> QED BY <1>1, <1>2 DEF Finish

LEMMA WritersAct ==
  ASSUME WriteInv, NEW w \in Writers,
         \/ CopyToRemote(w) \/ CopyFromRemote(w) \/ DaemonWrite(w) \/ LocalWrite(w)
         \/ CreateFile(w)
  PROVE  Acts(w)
<1>1. \/ Ask(w) \/ ReadSource(w) \/ OpenParent(w) \/ MakeParent(w) \/ Snapshot(w)
      \/ Stage(w) \/ Create(w) \/ Recheck(w) \/ Exchange(w) \/ Verify(w)
      \/ SwapBack(w) \/ Finish(w)
  BY DEF CopyToRemote, CopyFromRemote, DaemonWrite, CreateFile, LocalWrite, Install,
         LocalParent, LocalSnapshot, LocalStage, LocalInstall
<1>2. CASE \/ Ask(w) \/ ReadSource(w) \/ OpenParent(w) \/ MakeParent(w) \/ Snapshot(w)
  BY <1>2, StepsPrepare DEF Acts, WriteInv
<1> QED BY <1>1, <1>2, StageActs, CreateActs, RecheckActs, ExchangeActs, VerifyActs,
           SwapBackActs, FinishActs

LEMMA InitInv == Init => WriteInv
<1> SUFFICES ASSUME Init PROVE WriteInv
  OBVIOUS
<1> USE NamesApart, ContentsApart DEF Init, Early, Ready, Replacing
<1>0. /\ dir \in [Names -> Contents \cup {None}]
      /\ dir[Path] \in {None, Original} /\ \A n \in Names \ {Path} : dir[n] = None
      /\ \A w \in Writers : dir[Temp(w)] = None /\ dir[Recovery(w)] = None
  OBVIOUS
<1>1. TypeOK
  BY <1>0, FileBoundsAssumption DEF TypeOK, Steps
<1>2. PhaseInv /\ OwnInv /\ SingleInv
  BY <1>0 DEF PhaseInv, OwnInv, SingleInv
<1>3. FreshInv
  BY <1>0, <1>1, FutureContents DEF FreshInv
<1>4. TookInv /\ MadeInv /\ FailedInv
  BY DEF TookInv, Took, MadeInv, Made, FailedInv
<1>5. OwedInv
  BY <1>0 DEF OwedInv
<1> QED BY <1>1, <1>2, <1>3, <1>4, <1>5 DEF WriteInv

LEMMA NextInv == WriteInv /\ [Next]_vars => WriteInv'
<1> SUFFICES ASSUME WriteInv, [Next]_vars PROVE WriteInv'
  OBVIOUS
<1>1. ASSUME NEW w \in Writers, Acts(w) PROVE WriteInv'
  BY <1>1, PrepareInv, StageInv, StageFailInv, ProceedInv, ExchangeInv, CreateInv, InstallInv, SwapBackInv,
     SucceedInv, GiveUpInv DEF Acts
<1>2. ASSUME NEW w \in Writers, Cancel(w) PROVE WriteInv'
  <2>1. Cancels(w)
    BY <1>2 DEF Cancel, Cancels, WriteInv, TypeOK
  <2> QED BY <2>1, CancelInv
<1>3. ASSUME NEW kind \in {"file", "other"}, Put(kind) PROVE WriteInv'
  <2>1. <<writes + 1, kind>> \in {None} \cup {<<writes + 1, k>> : k \in {"file", "other"}}
    OBVIOUS
  <2> QED BY <1>3, <2>1, ChangeInv DEF Put
<1>4. CASE Unlink
  BY <1>4, ChangeInv DEF Unlink
<1>5. CASE UNCHANGED vars
  BY <1>5 DEF WriteInv, vars, callVars, worldVars, TypeOK, PhaseInv, OwnInv, SingleInv,
       FreshInv, TookInv, Took, MadeInv, Made, OwedInv, FailedInv
<1> QED BY <1>1, <1>2, <1>3, <1>4, <1>5, WritersAct DEF Next

-----------------------------------------------------------------------------
(* The theorems                                                            *)

\* WriteInv holds in every state of every number of concurrent writes.
THEOREM WriteInvariant == Spec => []WriteInv
BY InitInv, NextInv, PTL DEF Spec

\* The state of every write is well formed.
THEOREM WritesTypeCorrect == Spec => []TypeOK
<1>1. WriteInv => TypeOK
  BY DEF WriteInv
<1> QED BY <1>1, WriteInvariant, PTL

\* However many writers race, with however many other programs, whatever
\* nobody replaced knowingly is still there under some name.
THEOREM WritesLoseNothing == Spec => []NothingLost
<1>1. WriteInv => NothingLost
  BY NamesApart DEF WriteInv, OwedInv, NothingLost
<1> QED BY <1>1, WriteInvariant, PTL

\* No write that succeeds undoes an update that it did not see.
THEOREM WritesSeeUpdates == Spec => []NoLostUpdate
<1>1. ASSUME WriteInv PROVE NoLostUpdate
  <2> SUFFICES ASSUME NEW v \in Writers, NEW w \in Writers, v # w,
                      result[v] = "ok", result[w] = "ok", snap[v] = snap[w]
               PROVE  snap[v] = None /\ writes > 0
    BY DEF NoLostUpdate
  <2>1. snap[v] = None
    BY <1>1 DEF WriteInv, TookInv, Took
  <2>2. writes # 0
    BY <1>1, <2>1 DEF WriteInv, MadeInv, Made
  <2> QED BY <1>1, <2>1, <2>2 DEF WriteInv, TypeOK
<1> QED BY <1>1, WriteInvariant, PTL

\* An error tells the truth about what is preserved, and about a path that was
\* left alone.
THEOREM WritesFailHonestly == Spec => []HonestFailure
<1>1. WriteInv => HonestFailure
  BY DEF WriteInv, OwnInv, FailedInv, HonestFailure
<1> QED BY <1>1, WriteInvariant, PTL
=============================================================================
