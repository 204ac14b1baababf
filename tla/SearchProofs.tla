---------------------------- MODULE SearchProofs ----------------------------
(***************************************************************************)
(* glob and grep for every tree, request and text, and every order of the  *)
(* changes other programs make meanwhile: the state is well formed, a      *)
(* complete answer has every file that was there all the time, what is     *)
(* shown of a file is what a search would show that has it whole, and a    *)
(* child's answer is what it wrote, or cut at the limit.                   *)
(*                                                                         *)
(* The invariant has a part for each: SearchTypes and TreeInv; ChildInv    *)
(* for the child; WalkInv, AheadInv, FinishInv and ListInv for what a walk *)
(* has still to come to; AnswerInv and LineInv for the lines that the      *)
(* reader remembers of a file.                                             *)
(***************************************************************************)
EXTENDS SearchProcess, FiniteSetTheorems, SequenceTheorems, WellFoundedInduction, TLAPS

(* Sorting: the elements of a set in the order of different keys.          *)

LEMMA LeastNat ==
  ASSUME NEW S \in SUBSET Nat, S # {}
  PROVE  \E n \in S : \A m \in S : n <= m
<1>1. PICK n \in S : \A m \in S : ~(<<m, n>> \in OpToRel(<, Nat))
  BY NatLessThanWellFounded, WFMin
<1>2. \A m \in S : ~(m < n)
  BY <1>1 DEF OpToRel
<1> QED
  BY <1>2

\* Sorting: the keys of different elements differ.
Keyed(S, key) ==
  /\ IsFiniteSet(S) /\ \A x \in S : key[x] \in Int
  /\ \A x, y \in S : key[x] = key[y] => x = y
Under(S, key, x) == {y \in S : key[y] < key[x]}

LEMMA Ranks ==
  ASSUME NEW S, NEW key, Keyed(S, key)
  PROVE  /\ Cardinality(S) \in Nat
         /\ \A x \in S : Cardinality(Under(S, key, x)) \in 0..(Cardinality(S) - 1)
         /\ \A x, y \in S : key[x] < key[y] =>
              Cardinality(Under(S, key, x)) < Cardinality(Under(S, key, y))
         /\ \A k \in 1..Cardinality(S) : \E x \in S : Cardinality(Under(S, key, x)) = k - 1
<1>1. Cardinality(S) \in Nat
  BY FS_CardinalityType DEF Keyed
<1>2. ASSUME NEW x \in S
      PROVE  /\ IsFiniteSet(Under(S, key, x)) /\ Cardinality(Under(S, key, x)) \in Nat
             /\ Cardinality(Under(S, key, x)) < Cardinality(S)
  <2>1. Under(S, key, x) \in SUBSET S /\ x \notin Under(S, key, x)
    BY DEF Under, Keyed
  <2> QED
    BY <2>1, FS_Subset, FS_CardinalityType DEF Keyed
<1>3. ASSUME NEW x \in S, NEW y \in S, key[x] < key[y]
      PROVE  Cardinality(Under(S, key, x)) < Cardinality(Under(S, key, y))
  <2>1. Under(S, key, x) \in SUBSET Under(S, key, y)
    BY <1>3 DEF Under, Keyed
  <2>2. x \in Under(S, key, y) /\ x \notin Under(S, key, x)
    BY <1>3 DEF Under, Keyed
  <2> QED
    BY <1>2, <2>1, <2>2, FS_Subset
<1>4. ASSUME NEW k \in 1..Cardinality(S)
      PROVE  \E x \in S : Cardinality(Under(S, key, x)) = k - 1
  <2> DEFINE T == 0..(Cardinality(S) - 1)
             f == [x \in S |-> Cardinality(Under(S, key, x))]
  <2>1. f \in [S -> T]
    BY <1>1, <1>2
  <2>2. \A x, y \in S : f[x] = f[y] => x = y
    <3> SUFFICES ASSUME NEW x \in S, NEW y \in S, f[x] = f[y], x # y PROVE FALSE
      OBVIOUS
    <3>1. key[x] \in Int /\ key[y] \in Int /\ key[x] # key[y]
      BY DEF Keyed
    <3>2. key[x] < key[y] \/ key[y] < key[x]
      BY <3>1
    <3> QED
      BY <1>2, <1>3, <3>2
  <2>3. f \in Injection(S, T)
    BY <2>1, <2>2 DEF Injection, IsInjective
  <2>4. IsFiniteSet(T) /\ Cardinality(T) = Cardinality(S)
    <3>1. Cardinality(S) - 1 \in Int
      BY <1>1
    <3> QED
      BY <1>1, <3>1, FS_Interval
  <2>5. f \in Surjection(S, T)
    BY <2>3, <2>4, FS_Injection
  <2>6. PICK x \in S : f[x] = k - 1
    <3>1. k - 1 \in T
      BY <1>1
    <3> HIDE DEF f, T
    <3> QED
      BY <2>5, <3>1 DEF Surjection
  <2> QED
    BY <2>6
<1> QED
  BY <1>1, <1>2, <1>3, <1>4

\* InOrder, for what sort.Slice, os.ReadDir and nsmallest return, sorts.
LEMMA InOrderSorts ==
  ASSUME NEW S, NEW key, Keyed(S, key)
  PROVE  /\ InOrder(S, key) \in Seq(S) /\ Len(InOrder(S, key)) = Cardinality(S)
         /\ \A i, j \in 1..Len(InOrder(S, key)) :
              i < j => key[InOrder(S, key)[i]] < key[InOrder(S, key)[j]]
         /\ \A x \in S : \E i \in 1..Len(InOrder(S, key)) : InOrder(S, key)[i] = x
<1> DEFINE q == InOrder(S, key)
           n == Cardinality(S)
<1>1. n \in Nat /\ q = [k \in 1..n |-> CHOOSE x \in S : Cardinality(Under(S, key, x)) = k - 1]
  BY Ranks DEF InOrder, Under
<1>2. \A k \in 1..n : q[k] \in S /\ Cardinality(Under(S, key, q[k])) = k - 1
  <2> SUFFICES ASSUME NEW k \in 1..n PROVE q[k] \in S /\ Cardinality(Under(S, key, q[k])) = k - 1
    OBVIOUS
  <2>1. \E x \in S : Cardinality(Under(S, key, x)) = k - 1
    BY Ranks
  <2>2. q[k] = CHOOSE x \in S : Cardinality(Under(S, key, x)) = k - 1
    BY <1>1
  <2> QED
    BY <2>1, <2>2
<1> HIDE DEF q
<1>3. q \in Seq(S) /\ Len(q) = n /\ DOMAIN q = 1..n
  <2>1. q \in [1..n -> S]
    BY <1>1, <1>2
  <2>2. n \in Nat
    BY <1>1
  <2> HIDE DEF n
  <2> QED
    BY <2>1, <2>2, SeqDef, LenProperties
<1>4. ASSUME NEW i \in 1..n, NEW j \in 1..n, i < j PROVE key[q[i]] < key[q[j]]
  <2>1. q[i] \in S /\ q[j] \in S /\ key[q[i]] \in Int /\ key[q[j]] \in Int
    BY <1>2 DEF Keyed
  <2>2. SUFFICES ASSUME ~(key[q[i]] < key[q[j]]) PROVE FALSE
    OBVIOUS
  <2>3. key[q[j]] < key[q[i]] \/ q[i] = q[j]
    BY <2>1, <2>2 DEF Keyed
  <2>4. j - 1 < i - 1 \/ j - 1 = i - 1
    BY <1>2, <2>1, <2>3, Ranks
  <2> QED
    BY <1>4, <2>4
<1>5. ASSUME NEW x \in S PROVE \E i \in 1..n : q[i] = x
  <2> DEFINE k == Cardinality(Under(S, key, x)) + 1
  <2>1. k \in 1..n
    BY Ranks
  <2>2. q[k] \in S /\ Cardinality(Under(S, key, q[k])) = Cardinality(Under(S, key, x))
    BY <1>2, <2>1, Ranks
  <2>3. ~(key[q[k]] < key[x]) /\ ~(key[x] < key[q[k]])
    BY <2>2, Ranks
  <2>4. key[q[k]] = key[x]
    BY <2>2, <2>3 DEF Keyed
  <2>5. q[k] = x
    BY <2>2, <2>4 DEF Keyed
  <2> QED
    BY <2>1, <2>5
<1> QED
  BY <1>1, <1>3, <1>4, <1>5 DEF q

\* q is the elements of S in that order; no other sequence is.
Sorts(S, key, q) ==
  /\ q \in Seq(S)
  /\ \A i, j \in 1..Len(q) : i < j => key[q[i]] < key[q[j]]
  /\ \A x \in S : \E i \in 1..Len(q) : q[i] = x

LEMMA InOrderIsOnly ==
  ASSUME NEW S, NEW key, Keyed(S, key), NEW q, Sorts(S, key, q)
  PROVE  q = InOrder(S, key)
<1> SUFFICES ASSUME q \in Seq(S),
                    \A i, j \in 1..Len(q) : i < j => key[q[i]] < key[q[j]],
                    \A x \in S : \E i \in 1..Len(q) : q[i] = x
             PROVE  q = InOrder(S, key)
  BY DEF Sorts
<1>1. Len(q) \in Nat /\ q \in [1..Len(q) -> S]
  OBVIOUS
<1>2. \A i, j \in 1..Len(q) : q[i] = q[j] => i = j
  BY <1>1 DEF Keyed
<1>3. ASSUME NEW k \in 0..Len(q), NEW T, T = {y \in S : \E i \in 1..k : q[i] = y}
      PROVE  Cardinality(T) = k
  <2> DEFINE f == [i \in 1..k |-> q[i]]
  <2>1. f \in [1..k -> T]
    BY <1>1, <1>3
  <2>2. f \in Bijection(1..k, T)
    BY <1>1, <1>2, <1>3, <2>1 DEF Bijection, Injection, Surjection, IsInjective
  <2>3. k \in Nat
    BY <1>1
  <2> HIDE DEF f
  <2>4. ExistsBijection(1..k, T)
    BY <2>2 DEF ExistsBijection
  <2> QED
    BY <2>3, <2>4, FS_CountingElements
<1>4. Cardinality(S) = Len(q)
  <2>1. S = {y \in S : \E i \in 1..Len(q) : q[i] = y}
    OBVIOUS
  <2> QED
    BY <1>1, <1>3, <2>1
<1>5. ASSUME NEW k \in 1..Len(q) PROVE InOrder(S, key)[k] = q[k]
  <2>0. q[k] \in S
    BY <1>1
  <2>1. Under(S, key, q[k]) = {y \in S : \E i \in 1..(k - 1) : q[i] = y}
    <3>1. ASSUME NEW y \in S, key[y] < key[q[k]] PROVE \E i \in 1..(k - 1) : q[i] = y
      <4>1. PICK i \in 1..Len(q) : q[i] = y
        OBVIOUS
      <4>2. ~(k < i) /\ i # k
        BY <1>1, <3>1, <4>1 DEF Keyed
      <4> QED
        BY <1>1, <4>1, <4>2
    <3>2. ASSUME NEW i \in 1..(k - 1) PROVE key[q[i]] < key[q[k]]
      BY <1>1
    <3> QED
      BY <3>1, <3>2 DEF Under
  <2>2. Cardinality(Under(S, key, q[k])) = k - 1
    <3>1. k - 1 \in 0..Len(q)
      BY <1>1
    <3> DEFINE j == k - 1
    <3> HIDE DEF j
    <3>2. Cardinality({y \in S : \E i \in 1..j : q[i] = y}) = j
      BY <1>3, <3>1 DEF j
    <3> QED
      BY <2>1, <3>2 DEF j
  <2>3. ASSUME NEW x \in S, Cardinality(Under(S, key, x)) = k - 1 PROVE x = q[k]
    <3>1. k - 1 \in Int /\ ~(k - 1 < k - 1)
      OBVIOUS
    <3>2. ~(key[x] < key[q[k]]) /\ ~(key[q[k]] < key[x])
      <4>1. \A y, z \in S : key[y] < key[z] =>
              Cardinality(Under(S, key, y)) < Cardinality(Under(S, key, z))
        BY Ranks
      <4> QED
        BY <2>0, <2>2, <2>3, <3>1, <4>1
    <3>3. key[x] \in Int /\ key[q[k]] \in Int
      BY <2>0 DEF Keyed
    <3>4. \A a, b \in Int : ~(a < b) /\ ~(b < a) => a = b
      OBVIOUS
    <3>5. key[x] = key[q[k]]
      BY <3>2, <3>3, <3>4
    <3> QED
      BY <2>0, <3>5 DEF Keyed
  <2>4. (CHOOSE x \in S : Cardinality(Under(S, key, x)) = k - 1) = q[k]
    BY <2>0, <2>2, <2>3
  <2> QED
    BY <1>4, <2>4 DEF InOrder, Under
<1>6. InOrder(S, key) \in Seq(S) /\ Len(InOrder(S, key)) = Len(q)
  BY <1>4, InOrderSorts
<1> QED
  BY <1>5, <1>6, SeqEqual

(* What the variables hold                                                 *)

Name == Paths \union {None}
Text == Seq({"hit", "miss", "long"})
Unit == Name \X Int \X BOOLEAN
EntrySet == {e \in [path : Paths, isDir : BOOLEAN] : e.isDir => e.path \in Dirs}
FrameSet == [dir : Dirs, todo : Seq(EntrySet), more : BOOLEAN]
WalkSet == [began : BOOLEAN, stack : Seq(FrameSet), head : Name]
FileSet ==
  [path : Paths, lines : Text, previous : Seq(Nat), group : BOOLEAN,
   end : Int, emitted : Int]

\* Each frame is a directory in the one before, with entries of its own.
Chain(r, stack) ==
  \A k \in DOMAIN stack :
    /\ IF k = 1 THEN stack[k].dir = search.roots[r]
       ELSE stack[k].dir # <<>> /\ Front(stack[k].dir) = stack[k - 1].dir
    /\ \A j \in DOMAIN stack[k].todo : Front(stack[k].todo[j].path) = stack[k].dir

\* No answer has more than its limit.
Limited == search.limit > 0 /\ Roots # {} => Len(out) <= search.limit
SearchTypes ==
  /\ search \in Searches
  /\ tree \in [Paths -> Kinds] /\ standing \subseteq Paths /\ opened \subseteq Paths
  /\ changes \in 0..search.changes /\ linesLeft \in 0..search.lines
  /\ walks \in [Roots -> WalkSet] /\ \A r \in Roots : Chain(r, walks[r].stack)
  /\ file \in FileSet \union {NoFile} /\ (Roots = {} => file = NoFile)
  /\ file # NoFile => ~Glob
  /\ status \in {"running", "ok", "failed", "canceled"}
  /\ truncated \in BOOLEAN /\ missed \in BOOLEAN
  /\ out \in Seq(Unit) /\ want \in Seq(Unit) /\ Limited

\* The tree hangs together.
TreeInv ==
  /\ \A p \in Paths : tree[p] = "dir" => p \in Dirs
  /\ \A p \in Paths : tree[p] # "none" /\ Front(p) # <<>> => tree[Front(p)] = "dir"
  /\ \A p \in standing : tree[p] = "file"

-----------------------------------------------------------------------------
(* The child                                                               *)

\* Until the process is reaped, its answer is the first units it wrote; it dies
\* of a signal only when somebody sent one.
ChildInv ==
  /\ pc = "walk" <=> Roots # {}
  /\ pc \in {"walk", "reading", "stopping", "waiting", "answered"}
  /\ child \in {"alive", "quiet", "dead"} /\ code \in {-1, 0, 1, 2} /\ wrote \in Nat
  /\ term \in BOOLEAN /\ ctxDone \in BOOLEAN /\ alien \in BOOLEAN
  /\ pc # "walk" =>
       /\ \A i \in DOMAIN out : out[i] = <<None, i - 1, TRUE>>
       /\ Read <= wrote
       /\ pc # "answered" => status = "running" /\ ~truncated
       /\ pc # "answered" /\ UnitLimit > 0 => Read <= UnitLimit
       /\ term => ctxDone \/ pc \in {"stopping", "answered"}
       /\ child = "dead" /\ code = -1 => term \/ alien \/ ctxDone \/ pc \in {"stopping", "answered"}
       /\ pc = "stopping" => AtLimit /\ Read < wrote
       /\ pc = "waiting" => Read = wrote /\ child # "alive"
       /\ ProcessAnswer

-----------------------------------------------------------------------------
(* The walk                                                                *)

\* A path with nothing in it that a search skips; the entry of directory dir
\* on the way to p.
Open(p) == \A i \in DOMAIN p : ~ShouldSkip(p[i])
Strictly(dir, p) == Len(dir) < Len(p) /\ SubSeq(p, 1, Len(dir)) = dir
Step(dir, p) == [path |-> SubSeq(p, 1, Len(dir) + 1), isDir |-> Len(dir) + 1 < Len(p)]

\* A walk has still to come to p.
InFrame(frame, p) ==
  /\ Strictly(frame.dir, p)
  /\ \/ \E j \in 1..Len(frame.todo) : frame.todo[j] = Step(frame.dir, p)
     \/ frame.more
OnStack(stack, p) == \E k \in 1..Len(stack) : InFrame(stack[k], p)
AheadIn(w, p) == ~w.began \/ w.head = p \/ OnStack(w.stack, p)
Ahead(r, p) == AheadIn(walks[r], p)

\* Where a walk is.
Placed(r, w) ==
  /\ ~w.began => w.stack = <<>> /\ w.head = None
  /\ \A k \in 1..Len(w.stack) :
       /\ IsPrefix(search.roots[r], w.stack[k].dir)
       /\ \A l \in k..Len(w.stack) : IsPrefix(w.stack[k].dir, w.stack[l].dir)
  /\ w.head # None =>
       /\ IsPrefix(search.roots[r], w.head)
       /\ w.stack # <<>> => Front(w.head) = Last(w.stack).dir
WalkInv == \A r \in Roots : Placed(r, walks[r])

\* A file that is there all the time is ahead, or done with.
Found(r, p) ==
  IF Glob THEN Matches(Relative(search.roots[r], p)) => p \in Listed ELSE p \in opened
Passed(r, p) == Found(r, p) \/ truncated
AheadInv ==
  status \in {"running", "ok"} =>
    \A p \in standing, r \in Roots :
      IsPrefix(search.roots[r], p) /\ Open(p) => Ahead(r, p) \/ Passed(r, p)
FinishInv ==
  Roots # {} =>
    /\ status = "ok" /\ ~truncated => \A r \in Roots : Done(r)
    /\ missed => truncated
ListInv ==
  Glob /\ Roots # {} =>
    /\ truncated => Len(out) = search.limit
    /\ \A i \in 1..Len(out) :
         /\ out[i][1] \in Paths
         /\ \E r \in Roots : /\ IsPrefix(search.roots[r], out[i][1])
                             /\ Matches(Relative(search.roots[r], out[i][1]))

-----------------------------------------------------------------------------
(* The lines of a file                                                     *)

\* What has to be shown of the lines read so far.
Rendered == IF search.mode = "content" THEN Render(file.path, file.lines) ELSE <<>>

\* The last hit; the last line that is shown.
LastHit(lines) == CHOOSE h \in Hits(lines) : \A i \in Hits(lines) : i <= h
ShownTo(lines) ==
  IF Hits(lines) = {} THEN -1 ELSE Low(LastHit(lines) + search.after, Len(lines) - 1)

\* The n lines that were read last.
Recent(f, n) ==
  /\ Len(f.previous) = n
  /\ \A k \in 1..n : f.previous[k] = Len(f.lines) - n + k - 1

\* What the reader knows of the lines it has read.
LineInv(f) ==
  /\ f.group = (Hits(f.lines) # {})
  /\ Recent(f, Low(Len(f.lines), search.before))
  /\ f.emitted = ShownTo(f.lines)
  /\ f.group => f.end = LastHit(f.lines) + search.after

\* The answer is what was wanted of the files read before and what this one has
\* shown so far, unless a file could not be read whole (missed).
AnswerInv ==
  ~Glob /\ Roots # {} /\ ~missed =>
    /\ status = "running" => ~truncated
    /\ file = NoFile => ShowsEveryMatch
    /\ file # NoFile =>
         /\ status \in {"running", "canceled"} /\ ~truncated
         /\ out = want \o Rendered
         /\ \A k \in 1..Len(file.lines) : file.lines[k] # "long"
         /\ search.mode = "files" => Hits(file.lines) = {}
         /\ search.mode = "content" => LineInv(file)

\* Sequences and paths.
LEMMA FrontLast ==
  ASSUME NEW S, NEW s \in Seq(S), s # <<>>
  PROVE  /\ Len(s) \in Nat \ {0} /\ Last(s) = s[Len(s)] /\ Last(s) \in S
         /\ Front(s) \in Seq(S) /\ Len(Front(s)) = Len(s) - 1
         /\ \A i \in 1..(Len(s) - 1) : Front(s)[i] = s[i]
<1>1. Len(s) \in Nat \ {0} /\ \A i \in 1..Len(s) : s[i] \in S
  OBVIOUS
<1>2. Front(s) = SubSeq(s, 1, Len(s) - 1) /\ Last(s) = s[Len(s)]
  BY DEF Front, Last
<1> DEFINE n == Len(s) - 1
<1>3. n \in Int /\ \A i \in 1..n : s[i] \in S
  BY <1>1
<1> HIDE DEF n
<1>4. /\ SubSeq(s, 1, n) \in Seq(S) /\ Len(SubSeq(s, 1, n)) = IF 1 <= n THEN n - 1 + 1 ELSE 0
      /\ \A i \in 1..(n - 1 + 1) : SubSeq(s, 1, n)[i] = s[1 + i - 1]
  BY <1>3, SubSeqProperties
<1>5. \A i \in 1..n : SubSeq(s, 1, n)[i] = s[i]
  BY <1>3, <1>4
<1> QED
  <2>1. Front(s) = SubSeq(s, 1, n) /\ n = Len(s) - 1 /\ n \in Nat
    BY <1>1, <1>2 DEF n
  <2>2. Len(Front(s)) = n
    BY <1>4, <2>1
  <2> QED
    BY <1>1, <1>2, <1>4, <1>5, <2>1, <2>2

LEMMA Pushed ==
  ASSUME NEW S, NEW s \in Seq(S), NEW x \in S
  PROVE  /\ s \o <<x>> \in Seq(S) /\ Len(s \o <<x>>) = Len(s) + 1
         /\ \A i \in 1..Len(s) : (s \o <<x>>)[i] = s[i]
         /\ (s \o <<x>>)[Len(s) + 1] = x
         /\ Last(s \o <<x>>) = x
BY DEF Last

LEMMA Swapped ==
  ASSUME NEW S, NEW s \in Seq(S), NEW x \in S, s # <<>>
  PROVE  /\ Front(s) \o <<x>> \in Seq(S) /\ Len(Front(s) \o <<x>>) = Len(s)
         /\ \A i \in 1..(Len(s) - 1) : (Front(s) \o <<x>>)[i] = s[i]
         /\ (Front(s) \o <<x>>)[Len(s)] = x
         /\ Last(Front(s) \o <<x>>) = x
BY FrontLast, Pushed

LEMMA PathShape ==
  ASSUME NEW p \in Paths
  PROVE  /\ p \in Seq(Int) /\ Len(p) \in Nat \ {0} /\ p # None /\ p # <<>>
         /\ Last(p) = p[Len(p)] /\ Last(p) \in Int
         /\ Front(p) \in Paths \union {<<>>} /\ Front(p) \in Seq(Int) /\ Len(Front(p)) = Len(p) - 1
         /\ \A i \in 1..(Len(p) - 1) : Front(p)[i] = p[i]
<1>1. p \in Seq(Int) /\ p # <<>> /\ p # None /\ Front(p) \in Paths \union {<<>>}
  BY PathsAssumption DEF None
<1> QED
  BY <1>1, FrontLast

LEMMA PrefixIs ==
  ASSUME NEW S, NEW s \in Seq(S), NEW t \in Seq(S)
  PROVE  IsPrefix(s, t) <=> Len(s) <= Len(t) /\ \A i \in 1..Len(s) : s[i] = t[i]
BY DEF IsPrefix

LEMMA SameSeq ==
  ASSUME NEW S, NEW s \in Seq(S), NEW t \in Seq(S), Len(s) = Len(t),
         \A i \in 1..Len(s) : s[i] = t[i]
  PROVE  s = t
BY SeqEqual

LEMMA Request ==
  ASSUME search \in Searches
  PROVE  /\ search.roots \in Seq(Paths \union {<<>>}) /\ Roots = 1..Len(search.roots)
         /\ Len(search.roots) \in Nat /\ \A r \in Roots : search.roots[r] \in Paths \union {<<>>}
         /\ search.limit \in Nat /\ search.changes \in Nat /\ search.lines \in Nat
         /\ Glob => search.limit > 0
         /\ Glob /\ Roots # {} => search.pattern \subseteq Seq(Int) \ {<<>>}
         /\ ~Glob /\ Roots # {} =>
              /\ search.mode \in {"content", "files", "count", "multiline"}
              /\ search.before \in Nat /\ search.after \in Nat
<1>1. Roots # {} => search.roots # <<>>
  BY DEF Roots
<1> QED
  BY <1>1, SearchesAssumption DEF Glob, Roots

LEMMA GrepFile ==
  ASSUME SearchTypes, file # NoFile
  PROVE  /\ file \in FileSet /\ file.path \in Paths /\ file.path \in Name
         /\ file.lines \in Text /\ file.previous \in Seq(Nat)
         /\ Index \in Nat /\ ~Glob /\ Roots # {}
         /\ search.mode \in {"content", "files", "count", "multiline"}
         /\ search.before \in Nat /\ search.after \in Nat
<1>1. search \in Searches /\ file \in FileSet /\ ~Glob /\ Roots # {}
  BY DEF SearchTypes
<1>2. file.path \in Paths /\ file.lines \in Text /\ file.previous \in Seq(Nat)
  BY <1>1 DEF FileSet
<1>3. Index \in Nat
  BY <1>2 DEF Index, Text
<1> QED
  BY <1>1, <1>2, <1>3, Request DEF Name

LEMMA CutIs ==
  ASSUME SearchTypes, Roots # {}, NEW units \in Seq(Unit)
  PROVE  /\ Cut(units) \in Seq(Unit) /\ out \o Cut(units) \in Seq(Unit)
         /\ search.limit > 0 => Len(out \o Cut(units)) <= search.limit
         /\ Fits(units) => Cut(units) = units /\ (search.limit > 0 => Len(out \o units) <= search.limit)
         /\ ~Fits(units) => /\ search.limit > 0 /\ Len(out \o Cut(units)) = search.limit
                            /\ Len(out \o units) > search.limit
                            /\ out \o Cut(units) = SubSeq(out \o units, 1, search.limit)
<1>1. /\ search.limit \in Nat /\ out \in Seq(Unit) /\ Len(out) \in Nat /\ Len(units) \in Nat
      /\ search.limit > 0 => Len(out) <= search.limit
  BY Request DEF SearchTypes, Limited
<1>2. CASE Fits(units)
  <2>1. Cut(units) = units /\ Len(out \o units) = Len(out) + Len(units) /\ out \o units \in Seq(Unit)
    BY <1>1, <1>2, ConcatProperties DEF Cut
  <2> QED
    BY <1>1, <1>2, <2>1 DEF Fits, Room
<1>3. CASE ~Fits(units)
  <2> DEFINE n == search.limit - Len(out)
             cut == SubSeq(units, 1, n)
  <2>1. n \in Nat /\ n < Len(units) /\ search.limit > 0 /\ Cut(units) = cut
    BY <1>1, <1>3 DEF Fits, Cut, Room
  <2>2. cut \in Seq(Unit) /\ Len(cut) = n /\ \A i \in 1..n : cut[i] = units[i]
    <3> HIDE DEF n
    <3>1. \A i \in 1..n : units[i] \in Unit
      BY <1>1, <2>1
    <3>2. /\ cut \in Seq(Unit) /\ Len(cut) = (IF 1 <= n THEN n - 1 + 1 ELSE 0)
          /\ \A i \in 1..(n - 1 + 1) : cut[i] = units[1 + i - 1]
      BY <2>1, <3>1, SubSeqProperties
    <3> QED
      BY <2>1, <3>2
  <2> HIDE DEF cut
  <2>3. /\ out \o cut \in Seq(Unit) /\ Len(out \o cut) = search.limit
        /\ \A i \in 1..search.limit :
             (out \o cut)[i] = IF i <= Len(out) THEN out[i] ELSE cut[i - Len(out)]
    <3>1. /\ out \o cut \in Seq(Unit) /\ Len(out \o cut) = Len(out) + Len(cut)
          /\ \A i \in 1..(Len(out) + Len(cut)) :
               (out \o cut)[i] = IF i <= Len(out) THEN out[i] ELSE cut[i - Len(out)]
      BY <1>1, <2>2, ConcatProperties
    <3>2. Len(out) + Len(cut) = search.limit
      BY <1>1, <2>2
    <3> QED
      BY <3>1, <3>2
  <2>4. /\ out \o units \in Seq(Unit) /\ Len(out \o units) = Len(out) + Len(units)
        /\ \A i \in 1..(Len(out) + Len(units)) :
             (out \o units)[i] = IF i <= Len(out) THEN out[i] ELSE units[i - Len(out)]
    BY <1>1, ConcatProperties
  <2>5. \A i \in 1..search.limit : (out \o cut)[i] = (out \o units)[i]
    BY <1>1, <2>1, <2>2, <2>3, <2>4
  <2> DEFINE both == out \o units
             m == search.limit
             part == SubSeq(both, 1, m)
  <2>6. part \in Seq(Unit) /\ Len(part) = m /\ \A i \in 1..m : part[i] = both[i]
    <3>1. m \in Nat /\ m > 0 /\ \A i \in 1..m : both[i] \in Unit
      BY <1>1, <2>1, <2>4
    <3> HIDE DEF m, both
    <3>2. /\ part \in Seq(Unit) /\ Len(part) = (IF 1 <= m THEN m - 1 + 1 ELSE 0)
          /\ \A i \in 1..(m - 1 + 1) : part[i] = both[1 + i - 1]
      BY <3>1, SubSeqProperties
    <3> QED
      BY <3>1, <3>2
  <2>7. out \o cut = part
    <3> HIDE DEF part
    <3> QED
      BY <2>3, <2>5, <2>6, SameSeq
  <2> QED
    BY <1>1, <1>3, <2>1, <2>2, <2>3, <2>4, <2>7
<1> QED
  BY <1>2, <1>3

LEMMA AscendingIs ==
  ASSUME NEW S \in SUBSET Int, IsFiniteSet(S)
  PROVE  /\ Keyed(S, [x \in S |-> x])
         /\ Ascending(S) \in Seq(S) /\ Len(Ascending(S)) = Cardinality(S)
         /\ Cardinality(S) \in Nat
         /\ \A i, j \in 1..Len(Ascending(S)) : i < j => Ascending(S)[i] < Ascending(S)[j]
         /\ \A x \in S : \E i \in 1..Len(Ascending(S)) : Ascending(S)[i] = x
<1> DEFINE key == [x \in S |-> x]
<1>1. Keyed(S, key)
  BY DEF Keyed
<1>2. /\ Ascending(S) = InOrder(S, key) /\ \A x \in S : key[x] = x
  BY DEF Ascending
<1> HIDE DEF key
<1>3. /\ InOrder(S, key) \in Seq(S) /\ Len(InOrder(S, key)) = Cardinality(S)
      /\ \A i, j \in 1..Len(InOrder(S, key)) :
           i < j => key[InOrder(S, key)[i]] < key[InOrder(S, key)[j]]
      /\ \A x \in S : \E i \in 1..Len(InOrder(S, key)) : InOrder(S, key)[i] = x
  BY <1>1, InOrderSorts
<1>4. \A i \in 1..Len(Ascending(S)) : Ascending(S)[i] \in S
  BY <1>2, <1>3
<1>5. Cardinality(S) \in Nat
  BY FS_CardinalityType
<1> QED
  BY <1>1, <1>2, <1>3, <1>4, <1>5 DEF key

LEMMA AscendingIsOnly ==
  ASSUME NEW S \in SUBSET Int, IsFiniteSet(S), NEW q \in Seq(S),
         \A i, j \in 1..Len(q) : i < j => q[i] < q[j],
         \A x \in S : \E i \in 1..Len(q) : q[i] = x
  PROVE  q = Ascending(S)
<1> DEFINE key == [x \in S |-> x]
<1>1. Keyed(S, key)
  BY AscendingIs
<1>2. Ascending(S) = InOrder(S, key) /\ \A x \in S : key[x] = x
  BY DEF Ascending
<1>3. \A i \in 1..Len(q) : q[i] \in S
  OBVIOUS
<1> HIDE DEF key
<1>4. \A i, j \in 1..Len(q) : i < j => key[q[i]] < key[q[j]]
  BY <1>2, <1>3
<1>5. Sorts(S, key, q)
  BY <1>4 DEF Sorts
<1>6. q = InOrder(S, key)
  BY <1>1, <1>5, InOrderIsOnly
<1> QED
  BY <1>2, <1>6

LEMMA FiniteRange ==
  ASSUME NEW S, NEW s \in Seq(S), NEW T \in SUBSET Range(s)
  PROVE  IsFiniteSet(T)
<1>1. Len(s) \in Nat /\ s \in Surjection(1..Len(s), Range(s))
  BY DEF Surjection, Range
<1>2. IsFiniteSet(1..Len(s))
  BY <1>1, FS_Interval
<1>3. IsFiniteSet(Range(s))
  BY <1>1, <1>2, FS_Surjection
<1> QED
  BY <1>3, FS_Subset

LEMMA UnitIs ==
  ASSUME NEW p \in Name, NEW i \in Int, NEW b \in BOOLEAN
  PROVE  <<p, i, b>> \in Unit
BY DEF Unit

LEMMA SeparatorIs == Separator \in Unit
<1>1. None \in Name /\ -1 \in Int /\ FALSE \in BOOLEAN
  BY DEF Name
<1> QED
  BY <1>1, UnitIs DEF Separator

\* What the reader remembers of file f, changed.
Moved(f, previous, group, end, emitted) ==
  [f EXCEPT !.previous = previous, !.group = group, !.end = end, !.emitted = emitted]

LEMMA FileIs ==
  ASSUME NEW f \in FileSet, NEW previous \in Seq(Nat), NEW group \in BOOLEAN,
         NEW end \in Int, NEW emitted \in Int
  PROVE  Moved(f, previous, group, end, emitted) \in FileSet
BY DEF FileSet, Moved

LEMMA KeptIs ==
  ASSUME search.before \in Nat, NEW indexes \in Seq(Nat)
  PROVE  /\ Kept(indexes) \in Seq(Nat)
         /\ Len(Kept(indexes)) = Low(Len(indexes), search.before)
         /\ \A k \in 1..Len(Kept(indexes)) :
              Kept(indexes)[k] = indexes[Len(indexes) - Len(Kept(indexes)) + k]
<1> DEFINE n == Len(indexes)
           l == Low(n, search.before)
           m == n - l + 1
<1>1. n \in Nat /\ l \in Nat /\ l <= n /\ \A i \in 1..n : indexes[i] \in Nat
  BY DEF Low
<1>2. Kept(indexes) = SubSeq(indexes, m, n)
  BY DEF Kept
<1>3. m \in Int /\ m >= 1 /\ n - m + 1 = l /\ (m <= n <=> l > 0)
  BY <1>1
<1> HIDE DEF n, l, m
<1>4. \A i \in m..n : indexes[i] \in Nat
  BY <1>1, <1>3
<1>5. /\ SubSeq(indexes, m, n) \in Seq(Nat)
      /\ Len(SubSeq(indexes, m, n)) = IF m <= n THEN n - m + 1 ELSE 0
      /\ \A i \in 1..(n - m + 1) : SubSeq(indexes, m, n)[i] = indexes[m + i - 1]
  BY <1>1, <1>3, <1>4, SubSeqProperties
<1>6. Len(SubSeq(indexes, m, n)) = l
  BY <1>1, <1>3, <1>5
<1>7. \A i \in 1..l : SubSeq(indexes, m, n)[i] = indexes[n - l + i]
  <2>1. \A i \in 1..l : m + i - 1 = n - l + i
    BY <1>1 DEF m
  <2> QED
    BY <1>3, <1>5, <2>1
<1> QED
  BY <1>2, <1>5, <1>6, <1>7 DEF n, l

LEMMA ContextIs ==
  ASSUME SearchTypes, file # NoFile, NEW indexes \in Seq(Nat)
  PROVE  /\ Context(indexes) \in Seq(Unit) /\ Len(Context(indexes)) = Len(indexes)
         /\ \A k \in 1..Len(indexes) : Context(indexes)[k] = <<file.path, indexes[k], FALSE>>
<1> DEFINE n == Len(indexes)
           c == [k \in 1..n |-> <<file.path, indexes[k], FALSE>>]
<1>1. n \in Nat /\ Context(indexes) = c
  BY DEF Context
<1>2. ASSUME NEW k \in 1..n PROVE <<file.path, indexes[k], FALSE>> \in Unit
  <2>1. file.path \in Name /\ indexes[k] \in Int /\ FALSE \in BOOLEAN
    BY GrepFile
  <2> QED
    BY <2>1, UnitIs
<1> HIDE DEF n
<1>3. c \in [1..n -> Unit] /\ \A k \in 1..n : c[k] = <<file.path, indexes[k], FALSE>>
  BY <1>2
<1> HIDE DEF c
<1>4. c \in Seq(Unit) /\ Len(c) = n
  BY <1>1, <1>3
<1> QED
  BY <1>1, <1>3, <1>4 DEF n

LEMMA OptIs ==
  ASSUME NEW condition \in BOOLEAN, NEW unit \in Unit
  PROVE  /\ Opt(condition, unit) \in Seq(Unit)
         /\ Len(Opt(condition, unit)) = IF condition THEN 1 ELSE 0
BY DEF Opt

LEMMA SomeUnits ==
  ASSUME SearchTypes, file # NoFile, NEW i \in Int, NEW b \in BOOLEAN
  PROVE  <<file.path, i, b>> \in Unit /\ <<<<file.path, i, b>>>> \in Seq(Unit)
<1>1. <<file.path, i, b>> \in Unit
  BY GrepFile, UnitIs
<1> DEFINE u == <<file.path, i, b>>
<1> HIDE DEF u
<1>2. u \in Unit => <<u>> \in Seq(Unit)
  OBVIOUS
<1> QED
  BY <1>1, <1>2 DEF u

\* The lines before a hit that the daemon's reader shows with it.
Before ==
  LET start == IF Index < search.before THEN 0 ELSE Index - search.before
  IN  {k \in Range(file.previous) : k >= start /\ k > file.emitted}

LEMMA BeforeIs ==
  ASSUME SearchTypes, file # NoFile
  PROVE  /\ Before \in SUBSET Nat /\ Before \in SUBSET Int /\ IsFiniteSet(Before)
         /\ Ascending(Before) \in Seq(Nat)
<1>1. Before \in SUBSET Range(file.previous)
  BY DEF Before
<1>2. Range(file.previous) \subseteq Nat /\ file.previous \in Seq(Nat)
  BY GrepFile DEF Range
<1>3. IsFiniteSet(Before) /\ Before \in SUBSET Nat /\ Before \in SUBSET Int
  BY <1>1, <1>2, FiniteRange
<1>4. Ascending(Before) \in Seq(Before)
  BY <1>3, AscendingIs
<1> HIDE DEF Before
<1> QED
  BY <1>3, <1>4, SeqMonotonic

LEMMA ShownTypes ==
  ASSUME SearchTypes, file # NoFile, NEW line \in {"hit", "miss", "long"}
  PROVE  /\ Shown(line).units \in Seq(Unit) /\ Shown(line).file \in FileSet
         /\ Shown(line).file.path = file.path /\ Shown(line).file.lines = file.lines
<1> DEFINE i == Index
           h == <<<<file.path, i, TRUE>>>>
           m == <<<<file.path, i, FALSE>>>>
           kept == Kept(file.previous \o <<i>>)
           empty == <<>>
<1>0. /\ i \in Nat /\ file \in FileSet /\ search.before \in Nat /\ search.after \in Nat
      /\ file.previous \in Seq(Nat) /\ Separator \in Unit
  BY GrepFile, SeparatorIs
<1>00. h \in Seq(Unit) /\ m \in Seq(Unit) /\ <<file.path, i, FALSE>> \in Unit
  <2>1. TRUE \in BOOLEAN /\ FALSE \in BOOLEAN /\ i \in Int
    BY <1>0
  <2> HIDE DEF i
  <2>2. \A b \in BOOLEAN : <<file.path, i, b>> \in Unit /\ <<<<file.path, i, b>>>> \in Seq(Unit)
    BY <2>1, SomeUnits
  <2> QED
    BY <2>1, <2>2
<1>01. <<>> \in Seq(Unit)
  OBVIOUS
<1>02. TRUE \in BOOLEAN /\ 0 \in Int /\ empty \in Seq(Nat) /\ i \in Int /\ search.after \in Nat
  BY <1>0
<1>1. file.group \in BOOLEAN /\ file.end \in Int /\ file.emitted \in Int
  BY <1>0 DEF FileSet
<1>2. kept \in Seq(Nat)
  BY <1>0, KeptIs, Pushed
<1> HIDE DEF h, m, i, kept, empty
<1>3. ASSUME NEW x \in Seq(Nat), NEW c \in BOOLEAN
      PROVE  (Opt(c, Separator) \o Context(x)) \o h \in Seq(Unit)
  <2>1. Opt(c, Separator) \in Seq(Unit) /\ Context(x) \in Seq(Unit)
    BY <1>0, ContextIs, OptIs
  <2> QED
    BY <1>00, <2>1, ConcatProperties
<1>4. CASE line = "long"
  <2> DEFINE after == [file EXCEPT !.previous = <<>>]
             after2 == Moved(file, empty, file.group, file.end, file.emitted)
  <2>1. Shown(line).units = <<>> /\ Shown(line).file = after
    BY <1>4 DEF Shown, DaemonLong
  <2>2. after = after2 /\ after.path = file.path /\ after.lines = file.lines
    BY <1>0 DEF FileSet, Moved, empty
  <2>3. after2 \in FileSet
    <3>1. /\ file \in FileSet /\ empty \in Seq(Nat) /\ file.group \in BOOLEAN /\ file.end \in Int
          /\ file.emitted \in Int
      BY <1>0, <1>02, <1>1
    <3> QED
      BY ONLY <3>1, FileIs
  <2> HIDE DEF after, after2
  <2> QED
    BY <1>01, <2>1, <2>2, <2>3
<1>5. CASE line = "hit"
  <2> DEFINE start == IF i < search.before THEN 0 ELSE i - search.before
             fresh == ~file.group \/ start > file.end + 1
             e == IF i + search.after > file.end \/ fresh THEN i + search.after ELSE file.end
             after == [file EXCEPT !.previous = Kept(@ \o <<i>>), !.group = TRUE, !.emitted = i,
                              !.end = e]
             after2 == Moved(file, kept, TRUE, e, i)
  <2>1. Ascending(Before) \in Seq(Nat)
    BY BeforeIs
  <2>2. Shown(line).units = (Opt(fresh /\ file.group, Separator)
                                   \o Context(Ascending(Before))) \o h
        /\ Shown(line).file = after
    BY <1>5 DEF Shown, DaemonHit, Before, i, h, kept
  <2>3. (fresh /\ file.group) \in BOOLEAN /\ e \in Int
    BY <1>0, <1>1
  <2> HIDE DEF fresh, e
  <2>4. after = after2 /\ after.path = file.path /\ after.lines = file.lines
    BY <1>0 DEF FileSet, Moved, kept, empty
  <2>5. after2 \in FileSet
    <3> HIDE DEF e
    <3> QED
      <4>1. /\ file \in FileSet /\ kept \in Seq(Nat) /\ TRUE \in BOOLEAN /\ e \in Int
            /\ i \in Int
          BY <1>0, <1>02, <1>1, <1>2, <2>3
      <4> QED
          BY ONLY <4>1, FileIs
  <2> QED
    BY <1>3, <2>1, <2>2, <2>3, <2>4, <2>5, ZenonT(60)
<1>7. CASE line = "miss"
  <2> DEFINE shown == file.group /\ i <= file.end /\ i > file.emitted
             e == IF shown THEN i ELSE file.emitted
             after == [file EXCEPT !.previous = Kept(@ \o <<i>>), !.emitted = e]
             after2 == Moved(file, kept, file.group, file.end, e)
  <2>1. Shown(line).units = Opt(shown, <<file.path, i, FALSE>>) /\ Shown(line).file = after
    BY <1>7 DEF Shown, DaemonMiss, i
  <2>2. shown \in BOOLEAN /\ e \in Int
    BY <1>0, <1>1
  <2> HIDE DEF shown, e
  <2>3. after = after2 /\ after.path = file.path /\ after.lines = file.lines
    BY <1>0 DEF FileSet, Moved, kept, empty
  <2>4. after2 \in FileSet
    <3> HIDE DEF e
    <3> QED
      <4>1. /\ file \in FileSet /\ kept \in Seq(Nat) /\ file.group \in BOOLEAN /\ file.end \in Int
            /\ e \in Int
          BY <1>0, <1>02, <1>1, <1>2, <2>2
      <4> QED
          BY ONLY <4>1, FileIs
  <2> QED
    BY <1>00, <2>1, <2>2, <2>3, <2>4, OptIs
<1> QED
  BY <1>4, <1>5, <1>7

LEMMA DirShape ==
  ASSUME NEW dir \in Paths \union {<<>>}
  PROVE  dir \in Seq(Int) /\ Len(dir) \in Nat
<1>1. CASE dir = <<>>
  BY <1>1
<1>2. CASE dir \in Paths
  BY <1>2, PathShape
<1> QED
  BY <1>1, <1>2

LEMMA DirsAre == Dirs \subseteq Paths \union {<<>>} /\ <<>> \in Dirs
BY PathsAssumption

-----------------------------------------------------------------------------
\* The entries of a directory.
LEMMA EntryIs ==
  ASSUME SearchTypes, TreeInv, NEW dir \in Dirs, NEW e \in Entries(dir)
  PROVE  /\ e \in EntrySet /\ e.path \in Paths /\ Len(e.path) = Len(dir) + 1
         /\ Front(e.path) = dir /\ ~ShouldSkip(Last(e.path))
         /\ tree[e.path] # "none" /\ (e.isDir <=> tree[e.path] = "dir")
         /\ e = Entry(e.path) /\ Last(e.path) \in Int
<1>1. PICK p \in Paths : /\ e = Entry(p) /\ Len(p) = Len(dir) + 1 /\ IsPrefix(dir, p)
                         /\ tree[p] # "none" /\ ~ShouldSkip(Last(p))
  BY DEF Entries
<1>2. p # <<>> /\ KindOf(p) = tree[p] /\ e = [path |-> p, isDir |-> tree[p] = "dir"]
  BY <1>1, PathShape DEF KindOf, Entry
<1>3. dir \in Seq(Int) /\ Len(dir) \in Nat
  BY DirsAre, DirShape
<1>4. Front(p) = dir
  <2>1. /\ p \in Seq(Int) /\ Front(p) \in Seq(Int) /\ Len(Front(p)) = Len(dir)
        /\ \A i \in 1..Len(dir) : Front(p)[i] = p[i]
    <3>1. /\ p \in Seq(Int) /\ Front(p) \in Seq(Int) /\ Len(Front(p)) = Len(p) - 1
          /\ \A i \in 1..(Len(p) - 1) : Front(p)[i] = p[i]
      BY PathShape
    <3>2. Len(p) - 1 = Len(dir)
      BY <1>1, <1>3
    <3> QED
      BY <3>1, <3>2
  <2>2. \A i \in 1..Len(dir) : dir[i] = p[i]
    <3>1. p \in Seq(Int) /\ dir \in Seq(Int) /\ IsPrefix(dir, p)
      BY <1>1, <1>3, <2>1
    <3> QED
      BY <3>1, PrefixIs
  <2> QED
    BY <1>3, <2>1, <2>2, SameSeq
<1>5. tree[p] = "dir" => p \in Dirs
  BY DEF TreeInv
<1>6. e.path = p /\ e.isDir = (tree[p] = "dir") /\ e \in EntrySet
  BY <1>2, <1>5 DEF EntrySet
<1> QED
  BY <1>1, <1>4, <1>6, PathShape

LEMMA EntriesAre ==
  ASSUME SearchTypes, TreeInv, NEW dir \in Dirs
  PROVE  /\ IsFiniteSet(Entries(dir)) /\ Entries(dir) \subseteq EntrySet
         /\ \A e, f \in Entries(dir) : Last(e.path) = Last(f.path) => e = f
         /\ \A e \in Entries(dir) : Last(e.path) \in Int
<1>1. IsFiniteSet(Entries(dir))
  <2> DEFINE Q == {q \in Paths : /\ Len(q) = Len(dir) + 1 /\ IsPrefix(dir, q)
                                   /\ tree[q] # "none" /\ ~ShouldSkip(Last(q))}
  <2>1. IsFiniteSet(Q)
    BY PathsAssumption, FS_Subset
  <2>2. Entries(dir) = {Entry(p) : p \in Q}
    BY DEF Entries
  <2> HIDE DEF Q
  <2> DEFINE f == [p \in Q |-> Entry(p)]
  <2>3. f \in Surjection(Q, Entries(dir))
    BY <2>2 DEF Surjection
  <2> QED
    BY <2>1, <2>3, FS_Surjection
<1>2. Entries(dir) \subseteq EntrySet
  BY EntryIs
<1>3. ASSUME NEW e \in Entries(dir), NEW f \in Entries(dir), Last(e.path) = Last(f.path)
      PROVE  e = f
  <2>0. dir \in Seq(Int) /\ Len(dir) \in Nat
    BY DirsAre, DirShape
  <2>1. /\ e.path \in Seq(Int) /\ Len(e.path) = Len(dir) + 1
        /\ f.path \in Seq(Int) /\ Len(f.path) = Len(dir) + 1
        /\ e.path[Len(e.path)] = f.path[Len(f.path)]
    BY <1>3, EntryIs, PathShape
  <2>2. \A i \in 1..Len(dir) : e.path[i] = dir[i] /\ f.path[i] = dir[i]
    <3>1. e.path \in Paths /\ f.path \in Paths /\ Front(e.path) = dir /\ Front(f.path) = dir
      BY EntryIs
    <3>2. Len(e.path) - 1 = Len(dir) /\ Len(f.path) - 1 = Len(dir)
      BY <2>0, <2>1
    <3>3. /\ \A i \in 1..(Len(e.path) - 1) : Front(e.path)[i] = e.path[i]
          /\ \A i \in 1..(Len(f.path) - 1) : Front(f.path)[i] = f.path[i]
      BY <3>1, PathShape
    <3> QED
      BY <3>1, <3>2, <3>3
  <2>4. \A i \in 1..Len(e.path) : e.path[i] = f.path[i]
    <3> DEFINE n == Len(dir)
    <3>1. n \in Nat /\ Len(e.path) = n + 1 /\ Len(f.path) = n + 1
      BY <2>0, <2>1
    <3> HIDE DEF n
    <3>2. \A i \in 1..(n + 1) : i \in 1..n \/ i = n + 1
      BY <3>1
    <3>3. \A i \in 1..n : e.path[i] = f.path[i]
      BY <2>2 DEF n
    <3> QED
      BY <2>1, <3>1, <3>2, <3>3
  <2>5. e.path = f.path
    BY <2>1, <2>4, SameSeq
  <2> QED
    BY <2>5, EntryIs
<1>4. ASSUME NEW e \in Entries(dir) PROVE Last(e.path) \in Int /\ e.isDir \in BOOLEAN
  BY EntryIs DEF EntrySet
<1> QED
  BY <1>1, <1>2, <1>3, <1>4

LEMMA DaemonEntriesAre ==
  ASSUME SearchTypes, TreeInv, NEW dir \in Dirs
  PROVE  /\ DaemonEntries(dir) \in Seq(Entries(dir)) /\ DaemonEntries(dir) \in Seq(EntrySet)
         /\ \A e \in Entries(dir) : \E i \in 1..Len(DaemonEntries(dir)) : DaemonEntries(dir)[i] = e
<1> DEFINE key == [e \in Entries(dir) |-> Last(e.path)]
<1>1. Keyed(Entries(dir), key)
  BY EntriesAre DEF Keyed
<1>2. DaemonEntries(dir) = InOrder(Entries(dir), key)
  BY DEF DaemonEntries
<1> HIDE DEF key
<1>3. /\ DaemonEntries(dir) \in Seq(Entries(dir))
      /\ \A e \in Entries(dir) : \E i \in 1..Len(DaemonEntries(dir)) : DaemonEntries(dir)[i] = e
  BY <1>1, <1>2, InOrderSorts
<1>4. Entries(dir) \subseteq EntrySet
  BY EntriesAre
<1> QED
  BY <1>3, <1>4, SeqMonotonic

LEMMA WalkShape ==
  ASSUME SearchTypes, NEW r \in Roots
  PROVE  /\ walks[r] \in WalkSet /\ walks[r].began \in BOOLEAN /\ walks[r].head \in Name
         /\ walks[r].stack \in Seq(FrameSet) /\ Len(walks[r].stack) \in Nat
         /\ DOMAIN walks[r].stack = 1..Len(walks[r].stack) /\ Chain(r, walks[r].stack)
         /\ \A k \in 1..Len(walks[r].stack) : walks[r].stack[k] \in FrameSet
<1>1. walks[r] \in WalkSet /\ Chain(r, walks[r].stack)
  BY DEF SearchTypes
<1>2. walks[r].began \in BOOLEAN /\ walks[r].head \in Name /\ walks[r].stack \in Seq(FrameSet)
  BY <1>1 DEF WalkSet
<1> HIDE DEF FrameSet
<1> QED
  BY <1>1, <1>2

LEMMA FrameShape ==
  ASSUME NEW f \in FrameSet
  PROVE  /\ f.dir \in Dirs /\ f.dir \in Paths \union {<<>>} /\ f.todo \in Seq(EntrySet)
         /\ f.more \in BOOLEAN
         /\ Len(f.todo) \in Nat /\ DOMAIN f.todo = 1..Len(f.todo)
         /\ \A j \in DOMAIN f.todo : f.todo[j] \in EntrySet
<1>1. f.dir \in Dirs /\ f.todo \in Seq(EntrySet) /\ f.more \in BOOLEAN
  BY DEF FrameSet
<1> QED
  BY <1>1, DirsAre

LEMMA EntryShape ==
  ASSUME NEW e \in EntrySet
  PROVE  e.path \in Paths /\ e.path \in Name /\ e.isDir \in BOOLEAN /\ (e.isDir => e.path \in Dirs)
BY DEF EntrySet, Name

LEMMA TopShape ==
  ASSUME SearchTypes, NEW r \in Roots, walks[r].stack # <<>>
  PROVE  /\ Len(walks[r].stack) \in Nat \ {0} /\ Top(r) = walks[r].stack[Len(walks[r].stack)]
         /\ Top(r) \in FrameSet /\ Top(r).dir \in Dirs
         /\ \A j \in 1..Len(Top(r).todo) : Front(Top(r).todo[j].path) = Top(r).dir
<1>1. /\ walks[r].stack \in Seq(FrameSet) /\ Chain(r, walks[r].stack)
      /\ DOMAIN walks[r].stack = 1..Len(walks[r].stack)
  BY WalkShape
<1>2. /\ Len(walks[r].stack) \in Nat \ {0} /\ Top(r) = walks[r].stack[Len(walks[r].stack)]
      /\ Top(r) \in FrameSet
  BY <1>1, FrontLast DEF Top
<1>3. Top(r).dir \in Dirs /\ DOMAIN Top(r).todo = 1..Len(Top(r).todo)
  BY <1>2, FrameShape
<1> QED
  BY <1>1, <1>2, <1>3 DEF Chain

LEMMA HeadShape ==
  ASSUME SearchTypes, NEW r \in Roots, walks[r].stack # <<>>, Top(r).todo # <<>>
  PROVE  /\ Head(Top(r).todo) = Top(r).todo[1] /\ 1 \in 1..Len(Top(r).todo)
         /\ Head(Top(r).todo) \in EntrySet /\ Head(Top(r).todo).path \in Paths
         /\ Front(Head(Top(r).todo).path) = Top(r).dir
         /\ (Head(Top(r).todo).isDir => Head(Top(r).todo).path \in Dirs)
<1>1. Top(r).todo \in Seq(EntrySet)
  BY TopShape, FrameShape
<1>2. Head(Top(r).todo) = Top(r).todo[1] /\ 1 \in 1..Len(Top(r).todo) /\ Top(r).todo[1] \in EntrySet
  BY <1>1
<1> QED
  BY <1>2, TopShape, EntryShape

LEMMA StackedIs ==
  ASSUME SearchTypes, NEW r \in Roots, walks[r].stack # <<>>, NEW f \in FrameSet, f.dir = Top(r).dir,
         \A j \in 1..Len(f.todo) : Front(f.todo[j].path) = f.dir
  PROVE  /\ Front(walks[r].stack) \o <<f>> \in Seq(FrameSet)
         /\ Chain(r, Front(walks[r].stack) \o <<f>>)
<1> DEFINE s == walks[r].stack
           n == Len(s)
           t == Front(s) \o <<f>>
<1>1. s \in Seq(FrameSet) /\ n \in Nat \ {0} /\ Chain(r, s) /\ DOMAIN s = 1..n /\ Top(r) = s[n]
  BY WalkShape, TopShape
<1>2. /\ t \in Seq(FrameSet) /\ Len(t) = n /\ t[n] = f /\ \A k \in 1..(n - 1) : t[k] = s[k]
  <2>1. s \in Seq(FrameSet) /\ s # <<>>
    BY <1>1
  <2> HIDE DEF s
  <2>2. /\ t \in Seq(FrameSet) /\ Len(t) = Len(s) /\ t[Len(s)] = f
        /\ \A k \in 1..(Len(s) - 1) : t[k] = s[k]
    BY ONLY <2>1, f \in FrameSet, Swapped
  <2> QED
    BY <2>2
<1>3. DOMAIN t = 1..n
  BY <1>1, <1>2
<1>4. DOMAIN f.todo = 1..Len(f.todo)
  BY FrameShape
<1> HIDE DEF s, n, t
<1>5. Chain(r, t)
  <2> SUFFICES ASSUME NEW k \in 1..n
               PROVE  /\ IF k = 1 THEN t[k].dir = search.roots[r]
                         ELSE t[k].dir # <<>> /\ Front(t[k].dir) = t[k - 1].dir
                      /\ \A j \in DOMAIN t[k].todo : Front(t[k].todo[j].path) = t[k].dir
    BY <1>3 DEF Chain
  <2>1. t[k].dir = s[k].dir /\ (k # 1 => t[k - 1].dir = s[k - 1].dir)
    <3>1. t[k].dir = s[k].dir
      BY <1>1, <1>2
    <3>2. k # 1 => k - 1 \in 1..(n - 1)
      BY <1>1
    <3> QED
      BY <1>2, <3>1, <3>2
  <2>2. \A j \in DOMAIN t[k].todo : Front(t[k].todo[j].path) = t[k].dir
    <3>1. CASE k = n
      BY <1>2, <1>4, <3>1
    <3>2. CASE k # n
      <4>1. t[k] = s[k] /\ k \in DOMAIN s
        BY <1>1, <1>2, <3>2
      <4> QED
        BY <1>1, <4>1 DEF Chain
    <3> QED
      BY <3>1, <3>2
  <2>3. /\ IF k = 1 THEN s[k].dir = search.roots[r]
           ELSE s[k].dir # <<>> /\ Front(s[k].dir) = s[k - 1].dir
    BY <1>1 DEF Chain
  <2> QED
    BY <2>1, <2>2, <2>3
<1> QED
  BY <1>2, <1>5 DEF t, s

LEMMA Deeper ==
  ASSUME NEW r, NEW s \in Seq(FrameSet), s # <<>>, Chain(r, s),
         NEW dir \in Dirs, dir # <<>>, Front(dir) = Last(s).dir
  PROVE  s \o <<Frame(dir)>> \in Seq(FrameSet) /\ Chain(r, s \o <<Frame(dir)>>)
<1> DEFINE f == Frame(dir)
           n == Len(s)
           t == s \o <<f>>
<1>1. f \in FrameSet /\ f.dir = dir /\ DOMAIN f.todo = {}
  <2>1. <<>> \in Seq(EntrySet) /\ {} \in SUBSET Int /\ TRUE \in BOOLEAN
    OBVIOUS
  <2>2. f \in FrameSet
    BY <2>1 DEF FrameSet, Frame
  <2> QED
    BY <2>2 DEF Frame
<1> HIDE DEF f
<1>2. n \in Nat \ {0} /\ Last(s) = s[n] /\ DOMAIN s = 1..n
  <2>1. Len(s) \in Nat \ {0} /\ Last(s) = s[Len(s)]
    BY FrontLast
  <2> QED
    BY <2>1
<1>3. t \in Seq(FrameSet) /\ Len(t) = n + 1 /\ t[n + 1] = f /\ \A k \in 1..n : t[k] = s[k]
  BY <1>1, Pushed
<1>4. DOMAIN t = 1..(n + 1)
  BY <1>2, <1>3
<1> HIDE DEF n, t
<1>5. Chain(r, t)
  <2> SUFFICES ASSUME NEW k \in 1..(n + 1)
               PROVE  /\ IF k = 1 THEN t[k].dir = search.roots[r]
                         ELSE t[k].dir # <<>> /\ Front(t[k].dir) = t[k - 1].dir
                      /\ \A j \in DOMAIN t[k].todo : Front(t[k].todo[j].path) = t[k].dir
    BY <1>4 DEF Chain
  <2>1. CASE k = n + 1
    <3>1. k # 1 /\ k - 1 = n /\ n \in 1..n
      BY <1>2, <2>1
    <3> QED
      BY <1>1, <1>2, <1>3, <2>1, <3>1
  <2>2. CASE k # n + 1
    <3>1. k \in 1..n /\ (k # 1 => k - 1 \in 1..n)
      BY <1>2, <2>2
    <3>2. t[k] = s[k] /\ (k # 1 => t[k - 1] = s[k - 1]) /\ k \in DOMAIN s
      BY <1>2, <1>3, <3>1
    <3> QED
      BY <3>2 DEF Chain
  <2> QED
    BY <2>1, <2>2
<1> QED
  BY <1>3, <1>5 DEF t, f

LEMMA Shallower ==
  ASSUME NEW r, NEW s \in Seq(FrameSet), s # <<>>, Chain(r, s)
  PROVE  Front(s) \in Seq(FrameSet) /\ Chain(r, Front(s))
<1>1. /\ Front(s) \in Seq(FrameSet) /\ Len(Front(s)) = Len(s) - 1 /\ Len(s) \in Nat \ {0}
      /\ \A k \in 1..(Len(s) - 1) : Front(s)[k] = s[k]
  BY FrontLast
<1>2. DOMAIN Front(s) = 1..(Len(s) - 1) /\ DOMAIN s = 1..Len(s)
  BY <1>1
<1>3. ASSUME NEW k \in 1..(Len(s) - 1)
      PROVE  Front(s)[k] = s[k] /\ (k # 1 => Front(s)[k - 1] = s[k - 1]) /\ k \in DOMAIN s
  <2>1. k \in 1..Len(s) /\ (k # 1 => k - 1 \in 1..(Len(s) - 1))
    BY <1>1
  <2> QED
    BY <1>1, <1>2, <2>1
<1> QED
  BY <1>1, <1>2, <1>3 DEF Chain

LEMMA Alone ==
  ASSUME NEW r, NEW dir \in Dirs, dir = search.roots[r]
  PROVE  <<Frame(dir)>> \in Seq(FrameSet) /\ Chain(r, <<Frame(dir)>>)
<1> DEFINE f == Frame(dir)
<1>1. f \in FrameSet /\ f.dir = dir /\ DOMAIN f.todo = {}
  <2>1. <<>> \in Seq(EntrySet) /\ {} \in SUBSET Int /\ TRUE \in BOOLEAN
    OBVIOUS
  <2>2. f \in FrameSet
    BY <2>1 DEF FrameSet, Frame
  <2> QED
    BY <2>2 DEF Frame
<1> HIDE DEF f
<1>2. <<f>> \in Seq(FrameSet) /\ DOMAIN <<f>> = {1} /\ <<f>>[1] = f
  BY <1>1
<1> QED
  BY <1>1, <1>2 DEF Chain, f

LEMMA AdvancedTypes ==
  ASSUME SearchTypes, NEW r \in Roots, NEW w \in WalkSet, Chain(r, w.stack), Advance(r, w)
  PROVE  SearchTypes'
<1>1. /\ walks' = [walks EXCEPT ![r] = w]
      /\ UNCHANGED <<search, treeVars, fileVars, out, truncated, status>>
  BY DEF Advance
<1>2. Roots' = Roots /\ UNCHANGED <<Glob, Limited>>
  BY <1>1 DEF Roots, Glob, Limited
<1>3. walks' \in [Roots -> WalkSet] /\ \A s \in Roots : walks'[s] = IF s = r THEN w ELSE walks[s]
  BY <1>1 DEF SearchTypes
<1>4. \A s \in Roots : Chain(s, walks[s].stack)
  BY DEF SearchTypes
<1>5. \A s \in Roots : Chain(s, walks'[s].stack)
  BY <1>3, <1>4
<1>6. \A s \in Roots : Chain(s, walks[s].stack)'
  BY <1>1, <1>5 DEF Chain
<1> HIDE DEF WalkSet
<1> QED
  BY <1>1, <1>2, <1>3, <1>6 DEF SearchTypes, treeVars, fileVars

-----------------------------------------------------------------------------
\* Walks and frames with one field changed.
LEMMA WithStack ==
  ASSUME NEW w \in WalkSet, NEW s \in Seq(FrameSet)
  PROVE  LET x == [w EXCEPT !.stack = s]
         IN  x \in WalkSet /\ x.stack = s /\ x.began = w.began /\ x.head = w.head
BY DEF WalkSet

LEMMA WithHead ==
  ASSUME NEW w \in WalkSet, NEW h \in Name
  PROVE  LET x == [w EXCEPT !.head = h]
         IN  x \in WalkSet /\ x.stack = w.stack /\ x.began = w.began /\ x.head = h
BY DEF WalkSet

LEMMA WithBegan ==
  ASSUME NEW w \in WalkSet
  PROVE  LET x == [w EXCEPT !.began = TRUE]
         IN  x \in WalkSet /\ x.stack = w.stack /\ x.began /\ x.head = w.head
BY DEF WalkSet

LEMMA WithTodo ==
  ASSUME NEW f \in FrameSet, NEW todo \in Seq(EntrySet)
  PROVE  LET x == [f EXCEPT !.todo = todo]
         IN  x \in FrameSet /\ x.dir = f.dir /\ x.todo = todo /\ x.more = f.more
BY DEF FrameSet

LEMMA WithMore ==
  ASSUME NEW f \in FrameSet, NEW more \in BOOLEAN
  PROVE  LET x == [f EXCEPT !.more = more]
         IN  x \in FrameSet /\ x.dir = f.dir /\ x.todo = f.todo /\ x.more = more
BY DEF FrameSet

LEMMA ReplacedIs ==
  ASSUME SearchTypes, NEW r \in Roots, walks[r].stack # <<>>, NEW f \in FrameSet, f.dir = Top(r).dir,
         \A j \in 1..Len(f.todo) : Front(f.todo[j].path) = f.dir
  PROVE  /\ Replaced(r, f) \in WalkSet /\ Chain(r, Replaced(r, f).stack)
         /\ Replaced(r, f).stack = Front(walks[r].stack) \o <<f>>
         /\ Replaced(r, f).began = walks[r].began /\ Replaced(r, f).head = walks[r].head
<1> DEFINE s == Front(walks[r].stack) \o <<f>>
<1>1. s \in Seq(FrameSet) /\ Chain(r, s)
  BY StackedIs
<1>2. Replaced(r, f) = [walks[r] EXCEPT !.stack = s]
  BY DEF Replaced
<1>3. walks[r] \in WalkSet
  BY WalkShape
<1> HIDE DEF s
<1>4. LET x == [walks[r] EXCEPT !.stack = s]
      IN  x \in WalkSet /\ x.stack = s /\ x.began = walks[r].began /\ x.head = walks[r].head
  BY <1>1, <1>3, WithStack
<1> QED
  BY <1>1, <1>2, <1>4 DEF s

\* What is left of the top frame after its next entry.
Popped(r) == [Top(r) EXCEPT !.todo = Tail(@)]

LEMMA PoppedIs ==
  ASSUME SearchTypes, NEW r \in Roots, walks[r].stack # <<>>, Top(r).todo # <<>>
  PROVE  /\ Popped(r) \in FrameSet /\ Popped(r).dir = Top(r).dir
         /\ Popped(r).more = Top(r).more
         /\ Popped(r).todo = Tail(Top(r).todo) /\ Len(Popped(r).todo) = Len(Top(r).todo) - 1
         /\ \A j \in 1..Len(Popped(r).todo) : Popped(r).todo[j] = Top(r).todo[j + 1]
         /\ \A j \in 1..Len(Popped(r).todo) : j + 1 \in 1..Len(Top(r).todo)
         /\ \A j \in 1..Len(Popped(r).todo) : Front(Popped(r).todo[j].path) = Popped(r).dir
<1>1. /\ Top(r) \in FrameSet /\ Top(r).todo \in Seq(EntrySet)
      /\ \A j \in 1..Len(Top(r).todo) : Front(Top(r).todo[j].path) = Top(r).dir
  BY TopShape, FrameShape
<1> DEFINE t == Tail(Top(r).todo)
<1>2. /\ t \in Seq(EntrySet) /\ Len(t) = Len(Top(r).todo) - 1 /\ Len(Top(r).todo) \in Nat
      /\ \A j \in 1..Len(t) : t[j] = Top(r).todo[j + 1]
  BY <1>1
<1>3. Popped(r) = [Top(r) EXCEPT !.todo = t]
  BY DEF Popped
<1> HIDE DEF t
<1>4. /\ Popped(r) \in FrameSet /\ Popped(r).dir = Top(r).dir /\ Popped(r).todo = t
      /\ Popped(r).more = Top(r).more
  BY <1>1, <1>2, <1>3, WithTodo
<1>5. \A j \in 1..Len(t) : j + 1 \in 1..Len(Top(r).todo)
  BY <1>2
<1> QED
  BY <1>1, <1>2, <1>4, <1>5 DEF t

LEMMA RestIs ==
  ASSUME SearchTypes, NEW r \in Roots, walks[r].stack # <<>>, Top(r).todo # <<>>
  PROVE  /\ Rest(r) \in WalkSet /\ Chain(r, Rest(r).stack)
         /\ Rest(r).stack = Front(walks[r].stack) \o <<Popped(r)>>
         /\ Rest(r).stack # <<>> /\ Last(Rest(r).stack) = Popped(r)
         /\ Rest(r).began = walks[r].began /\ Rest(r).head = walks[r].head
<1>1. Rest(r) = Replaced(r, Popped(r))
  BY DEF Rest, Popped
<1>2. /\ Popped(r) \in FrameSet /\ Popped(r).dir = Top(r).dir
      /\ \A j \in 1..Len(Popped(r).todo) : Front(Popped(r).todo[j].path) = Popped(r).dir
  BY PoppedIs
<1>3. /\ Rest(r) \in WalkSet /\ Chain(r, Rest(r).stack)
      /\ Rest(r).stack = Front(walks[r].stack) \o <<Popped(r)>>
      /\ Rest(r).began = walks[r].began /\ Rest(r).head = walks[r].head
  BY <1>1, <1>2, ReplacedIs
<1>4. walks[r].stack \in Seq(FrameSet)
  BY WalkShape
<1> DEFINE s == walks[r].stack
<1> HIDE DEF s
<1>5. s \in Seq(FrameSet) /\ s # <<>> => /\ Last(Front(s) \o <<Popped(r)>>) = Popped(r)
                                         /\ Len(Front(s) \o <<Popped(r)>>) = Len(s) /\ Len(s) # 0
  BY <1>2, Swapped
<1> QED
  BY <1>3, <1>4, <1>5 DEF s

LEMMA IntoIs ==
  ASSUME SearchTypes, NEW r \in Roots, walks[r].stack # <<>>, Top(r).todo # <<>>,
         Head(Top(r).todo).path \in Dirs
  PROVE  /\ Into(r) \in WalkSet /\ Chain(r, Into(r).stack)
         /\ Into(r).stack = Rest(r).stack \o <<Frame(Head(Top(r).todo).path)>>
         /\ Into(r).began = walks[r].began /\ Into(r).head = walks[r].head
<1> DEFINE p == Head(Top(r).todo).path
           s == Rest(r).stack
           t == s \o <<Frame(p)>>
<1>1. /\ Rest(r) \in WalkSet /\ s \in Seq(FrameSet) /\ Chain(r, s) /\ s # <<>>
      /\ Last(s).dir = Top(r).dir /\ Rest(r).began = walks[r].began /\ Rest(r).head = walks[r].head
  BY RestIs, PoppedIs DEF WalkSet
<1>2. p \in Dirs /\ p # <<>> /\ Front(p) = Last(s).dir
  BY <1>1, HeadShape, PathShape
<1>3. Into(r) = [Rest(r) EXCEPT !.stack = t]
  BY DEF Into
<1> HIDE DEF p, s
<1>4. t \in Seq(FrameSet) /\ Chain(r, t)
  BY <1>1, <1>2, Deeper
<1> HIDE DEF t
<1>5. LET x == [Rest(r) EXCEPT !.stack = t]
      IN  x \in WalkSet /\ x.stack = t /\ x.began = Rest(r).began /\ x.head = Rest(r).head
  BY <1>1, <1>4, WithStack
<1> QED
  BY <1>1, <1>3, <1>4, <1>5 DEF t, s, p

LEMMA YieldIs ==
  ASSUME SearchTypes, NEW r \in Roots, walks[r].stack # <<>>, Top(r).todo # <<>>
  PROVE  /\ Yield(r) \in WalkSet /\ Chain(r, Yield(r).stack)
         /\ Yield(r).stack = Rest(r).stack /\ Yield(r).began = walks[r].began
         /\ Yield(r).head = Head(Top(r).todo).path
<1>1. Rest(r) \in WalkSet /\ Chain(r, Rest(r).stack) /\ Rest(r).began = walks[r].began
  BY RestIs
<1>2. Head(Top(r).todo).path \in Name
  BY HeadShape, EntryShape
<1>3. Yield(r) = [Rest(r) EXCEPT !.head = Head(Top(r).todo).path]
  BY DEF Yield
<1> DEFINE h == Head(Top(r).todo).path
<1> HIDE DEF h
<1>4. h \in Name => LET x == [Rest(r) EXCEPT !.head = h]
                    IN  x \in WalkSet /\ x.stack = Rest(r).stack /\ x.began = Rest(r).began /\ x.head = h
  BY <1>1, WithHead
<1> QED
  BY <1>1, <1>2, <1>3, <1>4 DEF h

-----------------------------------------------------------------------------
\* The steps of a walk keep the types.
LEMMA FailTypes ==
  ASSUME SearchTypes, Fail
  PROVE  SearchTypes'
<1>1. status' = "failed" /\ UNCHANGED <<search, treeVars, walks, fileVars, out, truncated>>
  BY DEF Fail
<1>2. Roots' = Roots /\ UNCHANGED <<Glob, Limited>>
  BY <1>1 DEF Roots, Glob, Limited
<1>3. \A s \in Roots : Chain(s, walks[s].stack)'
  BY <1>1 DEF Chain, SearchTypes
<1> QED
  BY <1>1, <1>2, <1>3 DEF SearchTypes, treeVars, fileVars

LEMMA BeginRootTypes ==
  ASSUME SearchTypes, TreeInv, NEW r \in Roots, BeginRoot(r)
  PROVE  SearchTypes'
<1> DEFINE root == search.roots[r]
           begun == [walks[r] EXCEPT !.began = TRUE]
<1>1. root \in Paths \union {<<>>}
  BY Request DEF SearchTypes
<1>2. begun \in WalkSet /\ begun.stack = walks[r].stack /\ Chain(r, begun.stack)
  BY WalkShape, WithBegan
<1>3. CASE Fail
  BY <1>3, FailTypes
<1>4. CASE KindOf(root) = "dir" /\ Advance(r, [begun EXCEPT !.stack = <<Frame(root)>>])
  <2> DEFINE s == <<Frame(root)>>
             w == [begun EXCEPT !.stack = s]
  <2>1. root \in Dirs
    BY <1>1, <1>4, DirsAre DEF KindOf, TreeInv
  <2>2. s \in Seq(FrameSet) /\ Chain(r, s)
    BY <2>1, Alone
  <2> HIDE DEF s, begun
  <2>3. w \in WalkSet /\ w.stack = s
    BY <1>2, <2>2, WithStack
  <2>4. Advance(r, w)
    BY <1>4 DEF s
  <2> HIDE DEF w
  <2> QED
    BY <2>2, <2>3, <2>4, AdvancedTypes
<1>5. CASE KindOf(root) = "file" /\ Advance(r, [begun EXCEPT !.head = root])
  <2> DEFINE w == [begun EXCEPT !.head = root]
  <2>1. root \in Name
    BY <1>1, <1>5 DEF KindOf, Name
  <2> HIDE DEF begun, root
  <2>2. w \in WalkSet /\ w.stack = begun.stack
    BY <1>2, <2>1, WithHead
  <2> QED
    BY <1>2, <1>5, <2>2, AdvancedTypes
<1>6. CASE Advance(r, begun)
  BY <1>2, <1>6, AdvancedTypes
<1>7. \/ Fail
      \/ KindOf(root) = "dir" /\ Advance(r, [begun EXCEPT !.stack = <<Frame(root)>>])
      \/ KindOf(root) = "file" /\ Advance(r, [begun EXCEPT !.head = root])
      \/ Advance(r, begun)
  <2> HIDE DEF begun, root
  <2> QED
    BY DEF BeginRoot, begun, root
<1> QED
  BY <1>3, <1>4, <1>5, <1>6, <1>7

\* The frame of a directory that has been read.
Listed1(r) ==
  LET frame == Top(r)
  IN  [frame EXCEPT !.todo = DaemonEntries(frame.dir), !.more = FALSE]

LEMMA Listed1Is ==
  ASSUME SearchTypes, TreeInv, NEW r \in Roots, walks[r].stack # <<>>
  PROVE  LET f == Listed1(r)
         IN  /\ f \in FrameSet /\ f.dir = Top(r).dir
             /\ \A j \in 1..Len(f.todo) : f.todo[j] \in Entries(f.dir) /\ Front(f.todo[j].path) = f.dir
             /\ f.todo \in Seq(Entries(f.dir))
             /\ f.todo = DaemonEntries(f.dir) /\ f.more = FALSE
<1>1. Top(r) \in FrameSet /\ Top(r).dir \in Dirs
  BY TopShape, FrameShape
<1> DEFINE dir == Top(r).dir
           read == DaemonEntries(dir)
<1>2. read \in Seq(Entries(dir)) /\ read \in Seq(EntrySet)
  BY <1>1, DaemonEntriesAre
<1>4. \A e \in Entries(dir) : Front(e.path) = dir
  BY <1>1, EntryIs
<1> DEFINE g == [Top(r) EXCEPT !.todo = read]
           f == [g EXCEPT !.more = FALSE]
<1>5. Listed1(r) = f
  BY <1>1 DEF Listed1, FrameSet
<1> HIDE DEF read
<1>6. g \in FrameSet /\ g.dir = dir /\ g.todo = read
  BY <1>1, <1>2, WithTodo
<1> HIDE DEF g
<1>7. /\ f \in FrameSet /\ f.dir = dir /\ f.todo = read /\ f.more = FALSE
  BY <1>6, WithMore
<1> HIDE DEF f
<1>8. \A j \in 1..Len(read) : read[j] \in Entries(dir)
  BY <1>2
<1> QED
  BY <1>2, <1>4, <1>5, <1>7, <1>8 DEF read

\* What reading a directory does.
LEMMA ListingIs ==
  ASSUME NEW r \in Roots, ListDirectory(r)
  PROVE  /\ Walking(r) /\ walks[r].stack # <<>> /\ Top(r).todo = <<>> /\ Top(r).more
         /\ Fail \/ (KindOf(Top(r).dir) = "dir" /\ Advance(r, Replaced(r, Listed1(r))))
BY DEF ListDirectory, Listed1

LEMMA ListDirectoryTypes ==
  ASSUME SearchTypes, TreeInv, NEW r \in Roots, ListDirectory(r)
  PROVE  SearchTypes'
<1>1. CASE Fail
  BY <1>1, FailTypes
<1>2. walks[r].stack # <<>> /\ Top(r).todo = <<>>
  BY ListingIs
<1>4. CASE Advance(r, Replaced(r, Listed1(r)))
  <2>1. /\ Listed1(r) \in FrameSet /\ Listed1(r).dir = Top(r).dir
        /\ \A j \in 1..Len(Listed1(r).todo) : Front(Listed1(r).todo[j].path) = Listed1(r).dir
    BY <1>2, Listed1Is
  <2>2. Replaced(r, Listed1(r)) \in WalkSet /\ Chain(r, Replaced(r, Listed1(r)).stack)
    BY <1>2, <2>1, ReplacedIs
  <2> QED
    BY <1>4, <2>2, AdvancedTypes
<1> QED
  BY <1>1, <1>4, ListingIs

LEMMA LeaveDirectoryTypes ==
  ASSUME SearchTypes, NEW r \in Roots, LeaveDirectory(r)
  PROVE  SearchTypes'
<1> DEFINE s == Front(walks[r].stack)
           w == [walks[r] EXCEPT !.stack = s]
<1>1. walks[r].stack # <<>> /\ Advance(r, w)
  BY DEF LeaveDirectory
<1>2. walks[r] \in WalkSet /\ walks[r].stack \in Seq(FrameSet) /\ Chain(r, walks[r].stack)
  BY WalkShape
<1>3. s \in Seq(FrameSet) /\ Chain(r, s)
  BY <1>1, <1>2, Shallower
<1> HIDE DEF s
<1>4. w \in WalkSet /\ w.stack = s
  BY <1>2, <1>3, WithStack
<1> QED
  BY <1>1, <1>3, <1>4, AdvancedTypes

\* What taking the next entry does.
LEMMA EnteringIs ==
  ASSUME NEW r \in Roots, DaemonEntry(r)
  PROVE  /\ Walking(r) /\ walks[r].stack # <<>> /\ Top(r).todo # <<>>
         /\ \/ Fail
            \/ Advance(r, Into(r)) /\ Head(Top(r).todo).isDir
            \/ Advance(r, Yield(r)) /\ ~Head(Top(r).todo).isDir /\ EntryKind(r) = "file"
            \/ Advance(r, Rest(r)) /\ ~Head(Top(r).todo).isDir /\ EntryKind(r) \notin {"none", "file"}
BY DEF DaemonEntry, AtEntry

LEMMA EntryTypes ==
  ASSUME SearchTypes, TreeInv, NEW r \in Roots, DaemonEntry(r)
  PROVE  SearchTypes'
<1>1. walks[r].stack # <<>> /\ Top(r).todo # <<>>
  BY EnteringIs
<1>2. CASE Fail
  BY <1>2, FailTypes
<1>3. CASE Advance(r, Into(r)) /\ Head(Top(r).todo).isDir
  <2>1. Head(Top(r).todo).path \in Dirs
    BY <1>1, <1>3, HeadShape
  <2> QED
    BY <1>1, <1>3, <2>1, IntoIs, AdvancedTypes
<1>4. CASE Advance(r, Yield(r))
  BY <1>1, <1>4, YieldIs, AdvancedTypes, RestIs
<1>5. CASE Advance(r, Rest(r))
  BY <1>1, <1>5, RestIs, AdvancedTypes
<1> QED
  BY <1>2, <1>3, <1>4, <1>5, EnteringIs

-----------------------------------------------------------------------------
\* The lines of a file and what a search shows of them.
LEMMA HitsAre ==
  ASSUME NEW lines \in Text
  PROVE  /\ Hits(lines) \in SUBSET (0..(Len(lines) - 1)) /\ Hits(lines) \in SUBSET Int
         /\ Hits(lines) \in SUBSET Nat
         /\ IsFiniteSet(Hits(lines)) /\ Cardinality(Hits(lines)) \in Nat
<1>1. Len(lines) \in Nat /\ Hits(lines) \in SUBSET (0..(Len(lines) - 1))
  BY DEF Text, Hits
<1>2. IsFiniteSet(0..(Len(lines) - 1))
  BY <1>1, FS_Interval
<1>3. IsFiniteSet(Hits(lines))
  BY <1>1, <1>2, FS_Subset
<1> QED
  BY <1>1, <1>3, FS_CardinalityType

LEMMA SlotsAre ==
  ASSUME NEW lines \in Text
  PROVE  /\ Slots(lines) \in SUBSET (0..(2 * Len(lines))) /\ Slots(lines) \in SUBSET Int
         /\ IsFiniteSet(Slots(lines))
<1>1. Len(lines) \in Nat
  BY DEF Text
<1>2. Visible(lines) \subseteq 0..(Len(lines) - 1) /\ Gaps(lines) \subseteq Visible(lines)
  BY DEF Visible, Gaps
<1>3. Slots(lines) \in SUBSET (0..(2 * Len(lines)))
  BY <1>1, <1>2 DEF Slots
<1>4. IsFiniteSet(0..(2 * Len(lines)))
  BY <1>1, FS_Interval
<1> QED
  BY <1>1, <1>3, <1>4, FS_Subset

LEMMA SlotUnitIs ==
  ASSUME NEW path \in Name, NEW lines, NEW slot \in Int
  PROVE  SlotUnit(path, lines, slot) \in Unit
<1>1. CASE slot % 2 = 0
  BY <1>1, SeparatorIs DEF SlotUnit
<1>2. CASE slot % 2 # 0
  <2> DEFINE i == (slot - 1) \div 2
             b == (slot - 1) \div 2 \in Hits(lines)
  <2>1. i \in Int /\ b \in BOOLEAN
    OBVIOUS
  <2>2. SlotUnit(path, lines, slot) = <<path, i, b>>
    BY <1>2 DEF SlotUnit
  <2> HIDE DEF i, b
  <2> QED
    BY <2>1, <2>2, UnitIs
<1> QED
  BY <1>1, <1>2

LEMMA RenderIs ==
  ASSUME NEW path \in Name, NEW lines \in Text
  PROVE  /\ Render(path, lines) \in Seq(Unit)
         /\ Len(Render(path, lines)) = Len(Ascending(Slots(lines)))
         /\ Len(Ascending(Slots(lines))) \in Nat
         /\ \A k \in 1..Len(Ascending(Slots(lines))) :
              Render(path, lines)[k] = SlotUnit(path, lines, Ascending(Slots(lines))[k])
<1> DEFINE q == Ascending(Slots(lines))
           n == Len(q)
           s == [k \in 1..n |-> SlotUnit(path, lines, q[k])]
<1>1. q \in Seq(Slots(lines)) /\ Slots(lines) \in SUBSET Int
  BY SlotsAre, AscendingIs
<1>2. n \in Nat /\ DOMAIN q = 1..n /\ \A k \in 1..n : q[k] \in Int
  <2> HIDE DEF q
  <2> QED
    BY <1>1
<1>3. Render(path, lines) = s
  BY <1>2 DEF Render
<1> HIDE DEF n, q
<1>4. s \in [1..n -> Unit] /\ \A k \in 1..n : s[k] = SlotUnit(path, lines, q[k])
  BY <1>2, SlotUnitIs
<1> HIDE DEF s
<1>5. s \in Seq(Unit) /\ Len(s) = n
  BY <1>2, <1>4
<1> QED
  BY <1>2, <1>3, <1>4, <1>5 DEF n, q

\* A unit for each element of a set of integers.
LEMMA UnitsOf ==
  ASSUME NEW path \in Name, NEW S \in SUBSET Int, IsFiniteSet(S), NEW n \in Nat,
         n = Len(Ascending(S))
  PROVE  /\ [k \in 1..n |-> <<path, Ascending(S)[k], TRUE>>] \in Seq(Unit)
         /\ Len([k \in 1..n |-> <<path, Ascending(S)[k], TRUE>>]) = n
<1> DEFINE q == Ascending(S)
           s == [k \in 1..n |-> <<path, q[k], TRUE>>]
<1>1. q \in Seq(S) /\ n = Len(q)
  BY AscendingIs
<1> HIDE DEF q
<1>2. \A k \in 1..n : q[k] \in Int
  <2>1. \A k \in 1..Len(q) : q[k] \in S
    BY <1>1
  <2> QED
    BY <1>1, <2>1
<1>3. ASSUME NEW k \in 1..n PROVE <<path, q[k], TRUE>> \in Unit
  <2>1. q[k] \in Int /\ TRUE \in BOOLEAN
    BY <1>2
  <2> QED
    BY <2>1, UnitIs
<1>4. s \in [1..n -> Unit]
  BY <1>3
<1> HIDE DEF s
<1>5. s \in Seq(Unit) /\ Len(s) = n
  <2>1. DOMAIN s = 1..n
    BY <1>4
  <2> QED
    BY <1>4, <2>1
<1> QED
  BY <1>5 DEF s, q

LEMMA OneUnit ==
  ASSUME NEW path \in Name, NEW i \in Int, NEW b \in BOOLEAN
  PROVE  <<<<path, i, b>>>> \in Seq(Unit) /\ <<path, i, b>> \in Unit /\ Len(<<<<path, i, b>>>>) = 1
<1> DEFINE u == <<path, i, b>>
<1>1. u \in Unit
  BY UnitIs
<1> HIDE DEF u
<1>2. <<u>> \in Seq(Unit) /\ Len(<<u>>) = 1
  BY <1>1
<1> QED
  BY <1>1, <1>2 DEF u

LEMMA FileOutputIs ==
  ASSUME NEW path \in Name, NEW lines \in Text
  PROVE  FileOutput(path, lines) \in Seq(Unit)
<1> DEFINE c == Cardinality(Hits(lines))
<1>1. Hits(lines) \in SUBSET Int /\ IsFiniteSet(Hits(lines)) /\ c \in Nat
  BY HitsAre
<1>2. Len(Ascending(Hits(lines))) = c
  BY <1>1, AscendingIs
<1>3. CASE search.mode = "content"
  BY <1>3, RenderIs DEF FileOutput
<1>4. <<>> \in Seq(Unit)
  OBVIOUS
<1>5. CASE search.mode = "files"
  <2>1. <<<<path, 0, TRUE>>>> \in Seq(Unit)
    <3>1. path \in Name /\ 0 \in Int /\ TRUE \in BOOLEAN
      OBVIOUS
    <3> QED
      BY ONLY <3>1, OneUnit
  <2> QED
    BY <1>4, <1>5, <2>1 DEF FileOutput
<1>6. CASE search.mode = "count"
  <2>1. <<<<path, c, TRUE>>>> \in Seq(Unit)
    <3> HIDE DEF c
    <3>1. path \in Name /\ c \in Int /\ TRUE \in BOOLEAN
      BY <1>1
    <3> QED
      BY ONLY <3>1, OneUnit
  <2> QED
    BY <1>4, <1>6, <2>1 DEF FileOutput
<1>7. CASE search.mode = "multiline"
  <2>1. [k \in 1..c |-> <<path, Ascending(Hits(lines))[k], TRUE>>] \in Seq(Unit)
    <3> HIDE DEF c
    <3> QED
      BY <1>1, <1>2, UnitsOf
  <2> QED
    BY <1>7, <2>1 DEF FileOutput
<1>8. CASE search.mode \notin {"content", "files", "count", "multiline"}
  BY <1>4, <1>8 DEF FileOutput
<1> QED
  BY <1>3, <1>5, <1>6, <1>7, <1>8

LEMMA CountIs ==
  ASSUME SearchTypes, file # NoFile, NEW lines \in Text
  PROVE  /\ Count(lines) \in Seq(Unit) /\ AllMatches(lines) \in Seq(Unit)
         /\ search.mode = "count" => Count(lines) = FileOutput(file.path, lines)
         /\ search.mode = "multiline" => AllMatches(lines) = FileOutput(file.path, lines)
<1> DEFINE c == Cardinality(Hits(lines))
           u == <<file.path, c, TRUE>>
           q == Ascending(Hits(lines))
<1>1. Hits(lines) \in SUBSET Int /\ IsFiniteSet(Hits(lines)) /\ c \in Nat /\ file.path \in Name
  BY HitsAre, GrepFile
<1>2. q \in Seq(Hits(lines)) /\ Len(q) = c
  BY <1>1, AscendingIs
<1>3. DOMAIN q = 1..c
  <2> HIDE DEF q, c
  <2> QED
    BY <1>2
<1>4. u \in Unit /\ <<u>> \in Seq(Unit)
  <2> HIDE DEF c
  <2>1. file.path \in Name /\ c \in Int /\ TRUE \in BOOLEAN
    BY <1>1
  <2> QED
    BY ONLY <2>1, OneUnit
<1>5. Count(lines) = IF c > 0 THEN <<u>> ELSE <<>>
  BY DEF Count, Opt
<1>6. AllMatches(lines) = [k \in 1..c |-> <<file.path, q[k], TRUE>>]
  BY <1>3 DEF AllMatches
<1>7. AllMatches(lines) \in Seq(Unit)
  <2>1. [k \in 1..c |-> <<file.path, Ascending(Hits(lines))[k], TRUE>>] \in Seq(Unit)
    <3> HIDE DEF c
    <3> QED
      BY <1>1, <1>2, UnitsOf
  <2> QED
    BY <1>6, <2>1
<1>8. search.mode = "count" => Count(lines) = FileOutput(file.path, lines)
  BY <1>5 DEF FileOutput
<1>9. search.mode = "multiline" => AllMatches(lines) = FileOutput(file.path, lines)
  BY <1>6 DEF FileOutput
<1>10. <<>> \in Seq(Unit)
  OBVIOUS
<1> HIDE DEF c, u
<1> QED
  BY <1>4, <1>5, <1>7, <1>8, <1>9, <1>10

-----------------------------------------------------------------------------
\* The steps that give an answer keep the types.
LEMMA TakenIs ==
  ASSUME SearchTypes, NEW r \in Roots, Take(r)
  PROVE  /\ walks[r].head \in Paths /\ walks[r].head \in Name
         /\ walks' \in [Roots -> WalkSet]
         /\ \A s \in Roots : /\ walks'[s].stack = walks[s].stack /\ walks'[s].began = walks[s].began
                             /\ walks'[s].head = IF s = r THEN None ELSE walks[s].head
         /\ status = "running" /\ file = NoFile
         /\ \A s \in Roots : s < r => Done(s)
         /\ search' = search => \A s \in Roots : Chain(s, walks[s].stack)'
<1>1. walks[r].head \in Name /\ walks[r].head # None /\ walks[r] \in WalkSet /\ None \in Name
  BY WalkShape DEF Take, Name
<1> DEFINE w == [walks[r] EXCEPT !.head = None]
<1>2. w \in WalkSet /\ w.stack = walks[r].stack /\ w.began = walks[r].began /\ w.head = None
  BY <1>1, WithHead
<1>3. walks' = [walks EXCEPT ![r] = w] /\ walks \in [Roots -> WalkSet]
  BY DEF Take, SearchTypes
<1> HIDE DEF w
<1>4. walks' \in [Roots -> WalkSet] /\ \A s \in Roots : walks'[s] = IF s = r THEN w ELSE walks[s]
  BY <1>2, <1>3
<1>5. \A s \in Roots : walks'[s].stack = walks[s].stack
  BY <1>2, <1>4
<1>6. ASSUME search' = search, NEW s \in Roots
      PROVE  Chain(s, walks[s].stack)'
  <2>1. Chain(s, walks[s].stack)
    BY DEF SearchTypes
  <2> QED
    BY <1>5, <1>6, <2>1 DEF Chain
<1> QED
  BY <1>1, <1>2, <1>4, <1>5, <1>6 DEF Name, Take

LEMMA PutTypes ==
  ASSUME SearchTypes, Roots # {}, NEW units \in Seq(Unit), Put(units)
  PROVE  /\ out' \in Seq(Unit) /\ (search.limit > 0 => Len(out') <= search.limit)
         /\ truncated' \in BOOLEAN /\ status' \in {"running", "ok", "failed", "canceled"}
<1>1. out' = out \o Cut(units) /\ truncated' = (truncated \/ ~Fits(units))
      /\ status' = IF Fits(units) THEN status ELSE "ok"
  BY DEF Put
<1>2. status \in {"running", "ok", "failed", "canceled"}
  BY DEF SearchTypes
<1> QED
  BY <1>1, <1>2, CutIs

LEMMA GlobTypes ==
  ASSUME SearchTypes, NEW r \in Roots, DaemonGlob(r)
  PROVE  SearchTypes'
<1> DEFINE u == <<<<walks[r].head, 0, TRUE>>>>
<1>1. Take(r) /\ UNCHANGED <<search, treeVars, fileVars>> /\ Glob
  BY DEF DaemonGlob, List
<1>2. Put(u) \/ UNCHANGED <<out, truncated, status>>
  BY DEF DaemonGlob, List
<1>3. u \in Seq(Unit)
  <2>1. walks[r].head \in Name /\ 0 \in Int /\ TRUE \in BOOLEAN
    BY <1>1, TakenIs
  <2> QED
    BY <2>1, OneUnit
<1> HIDE DEF u
<1>4. /\ out' \in Seq(Unit) /\ (search.limit > 0 => Len(out') <= search.limit)
      /\ truncated' \in BOOLEAN /\ status' \in {"running", "ok", "failed", "canceled"}
  <2>1. CASE Put(u)
    BY <1>3, <2>1, PutTypes
  <2>2. CASE UNCHANGED <<out, truncated, status>>
    BY <2>2 DEF SearchTypes, Limited
  <2> QED
    BY <1>2, <2>1, <2>2
<1>5. walks' \in [Roots -> WalkSet] /\ \A s \in Roots : Chain(s, walks[s].stack)'
  BY <1>1, TakenIs
<1>6. Roots' = Roots /\ Glob' = Glob
  BY <1>1 DEF Roots, Glob
<1> QED
  BY <1>1, <1>4, <1>5, <1>6 DEF SearchTypes, Limited, treeVars, fileVars

LEMMA NewFileIs ==
  ASSUME NEW path \in Paths
  PROVE  NewFile(path) \in FileSet /\ NewFile(path) # NoFile
<1>1. <<>> \in Text /\ <<>> \in Seq(Nat) /\ -1 \in Int /\ 0 \in Nat /\ FALSE \in BOOLEAN
  BY DEF Text
<1>2. NewFile(path) \in FileSet
  BY <1>1 DEF NewFile, FileSet
<1>3. NewFile(path).path = path /\ NoFile.path = None /\ path # None
  BY PathShape DEF NewFile, NoFile
<1> QED
  BY <1>2, <1>3

LEMMA OpenTypes ==
  ASSUME SearchTypes, NEW r \in Roots, DaemonOpen(r)
  PROVE  SearchTypes'
<1> DEFINE path == walks[r].head
<1>1. Take(r) /\ UNCHANGED <<search, treeVars, out, linesLeft, want>> /\ ~Glob
  BY DEF DaemonOpen
<1>2. path \in Paths /\ file = NoFile
  BY <1>1, TakenIs
<1>3. NewFile(path) \in FileSet
  BY <1>2, NewFileIs
<1>4. /\ file' \in FileSet \union {NoFile} /\ truncated' \in BOOLEAN /\ missed' \in BOOLEAN
      /\ opened' \subseteq Paths /\ status' \in {"running", "ok", "failed", "canceled"}
  <2>1. /\ file' \in {file, NewFile(path)} /\ truncated' \in {truncated, TRUE}
        /\ missed' \in {missed, TRUE} /\ opened' \in {opened, opened \union {path}}
        /\ status' \in {status, "failed"}
    BY DEF DaemonOpen, Searched, Binary, TooLarge, Skip
  <2>2. truncated \in BOOLEAN /\ missed \in BOOLEAN /\ opened \subseteq Paths
        /\ status \in {"running", "ok", "failed", "canceled"}
    BY DEF SearchTypes
  <2> HIDE DEF path
  <2> QED
    BY <1>2, <1>3, <2>1, <2>2
<1>5. walks' \in [Roots -> WalkSet] /\ \A s \in Roots : Chain(s, walks[s].stack)'
  BY <1>1, TakenIs
<1>6. Roots' = Roots /\ Glob' = Glob /\ Limited' = Limited
  BY <1>1 DEF Roots, Glob, Limited
<1>7. Roots # {}
  OBVIOUS
<1> QED
  BY <1>1, <1>4, <1>5, <1>6, <1>7 DEF SearchTypes, treeVars

\* What the steps in a file leave alone.
LEMMA InFileTypes ==
  ASSUME SearchTypes, file # NoFile, UNCHANGED <<search, treeVars, walks, opened>>,
         file' \in FileSet \union {NoFile}, linesLeft' \in 0..search.lines,
         status' \in {"running", "ok", "failed", "canceled"}, truncated' \in BOOLEAN, missed' \in BOOLEAN,
         out' \in Seq(Unit), want' \in Seq(Unit), search.limit > 0 => Len(out') <= search.limit
  PROVE  SearchTypes'
<1>1. Roots' = Roots /\ Glob' = Glob /\ ~Glob /\ Roots # {}
  BY GrepFile DEF Roots, Glob
<1>2. \A s \in Roots : Chain(s, walks[s].stack)'
  BY DEF Chain, SearchTypes
<1> QED
  BY <1>1, <1>2 DEF SearchTypes, Limited, treeVars

LEMMA CloseTypes ==
  ASSUME SearchTypes, file # NoFile, NEW lines \in Text, Close(lines)
  PROVE  file' = NoFile /\ want' = want \o FileOutput(file.path, lines) /\ want' \in Seq(Unit)
<1>1. FileOutput(file.path, lines) \in Seq(Unit) /\ want \in Seq(Unit)
  BY GrepFile, FileOutputIs DEF SearchTypes
<1> QED
  BY <1>1, ConcatProperties DEF Close

LEMMA ReadLineTypes ==
  ASSUME SearchTypes, NEW line \in {"hit", "miss", "long"}, ReadLine(line)
  PROVE  SearchTypes'
<1> DEFINE lines == Append(file.lines, line)
<1>1. /\ status = "running" /\ file # NoFile /\ linesLeft > 0 /\ linesLeft' = linesLeft - 1
      /\ missed' = (missed \/ line = "long") /\ UNCHANGED <<search, treeVars, walks, opened>>
      /\ \/ ContentLine(line)
         \/ FirstMatch(line)
         \/ CountLine(line)
  BY DEF ReadLine
<1>2. lines \in Text /\ file \in FileSet /\ Roots # {}
  BY <1>1, GrepFile DEF Text
<1>3. linesLeft' \in 0..search.lines /\ missed' \in BOOLEAN
  <2>1. linesLeft \in 0..search.lines /\ search.lines \in Nat /\ missed \in BOOLEAN
    BY Request DEF SearchTypes
  <2>2. linesLeft' \in 0..search.lines
    BY <1>1, <2>1
  <2>3. (missed \/ line = "long") \in BOOLEAN
    BY <2>1
  <2> QED
    BY <1>1, <2>2, <2>3
<1>4. out \in Seq(Unit) /\ want \in Seq(Unit) /\ (search.limit > 0 => Len(out) <= search.limit)
      /\ status \in {"running", "ok", "failed", "canceled"} /\ truncated \in BOOLEAN
  BY <1>2 DEF SearchTypes, Limited
<1>5. ASSUME NEW f \in FileSet PROVE [f EXCEPT !.lines = lines] \in FileSet
  <2> HIDE DEF lines
  <2> QED
    BY <1>2 DEF FileSet
<1> HIDE DEF lines
<1>6. CASE ContentLine(line)
  <2>1. /\ Shown(line).units \in Seq(Unit) /\ Shown(line).file \in FileSet
    BY <1>1, ShownTypes
  <2> DEFINE units == Shown(line).units
             next == Shown(line).file
  <2>2. /\ out' = out \o Cut(units) /\ truncated' = (truncated \/ ~Fits(units) \/ line = "long")
        /\ IF Fits(units)
           THEN file' = [next EXCEPT !.lines = lines] /\ UNCHANGED <<want, status>>
           ELSE Close(lines) /\ status' = "ok"
    BY <1>6 DEF ContentLine, lines
  <2> HIDE DEF units, next
  <2>3. out' \in Seq(Unit) /\ (search.limit > 0 => Len(out') <= search.limit) /\ truncated' \in BOOLEAN
    BY <1>2, <1>4, <2>1, <2>2, CutIs DEF units
  <2>4. [next EXCEPT !.lines = lines] \in FileSet
    BY <1>5, <2>1 DEF next
  <2>5. /\ file' \in FileSet \union {NoFile} /\ want' \in Seq(Unit)
        /\ status' \in {"running", "ok", "failed", "canceled"}
    BY <1>1, <1>2, <1>4, <2>2, <2>4, CloseTypes
  <2> QED
    BY <1>1, <1>3, <2>3, <2>5, InFileTypes
<1>7. CASE FirstMatch(line)
  <2> DEFINE u == <<<<file.path, 0, TRUE>>>>
  <2>1. u \in Seq(Unit)
    <3>1. file.path \in Name /\ 0 \in Int /\ TRUE \in BOOLEAN
      BY <1>1, GrepFile
    <3> QED
      BY <3>1, OneUnit
  <2>2. Put(u) /\ Close(lines)
    BY <1>7 DEF FirstMatch, lines
  <2> HIDE DEF u
  <2>3. file' = NoFile /\ want' \in Seq(Unit)
    BY <1>1, <1>2, <2>2, CloseTypes
  <2> QED
    BY <1>1, <1>2, <1>3, <2>1, <2>2, <2>3, PutTypes, InFileTypes
<1>8. CASE CountLine(line)
  <2>1. file' = [file EXCEPT !.lines = lines] /\ truncated' = (truncated \/ line = "long")
        /\ UNCHANGED <<out, status, want>>
    BY <1>8 DEF CountLine, lines
  <2>2. file' \in FileSet
    BY <1>2, <1>5, <2>1
  <2> QED
    BY <1>1, <1>3, <1>4, <2>1, <2>2, InFileTypes
<1> QED
  BY <1>1, <1>6, <1>7, <1>8

LEMMA EndFileTypes ==
  ASSUME SearchTypes, EndFile \/ InputLimit
  PROVE  SearchTypes'
<1>1. /\ file # NoFile /\ UNCHANGED <<search, treeVars, walks, opened, linesLeft>>
      /\ Close(file.lines)
  BY DEF EndFile, InputLimit
<1>2. /\ file.lines \in Text /\ Roots # {} /\ linesLeft \in 0..search.lines
      /\ status \in {"running", "ok", "failed", "canceled"} /\ truncated \in BOOLEAN /\ missed \in BOOLEAN
      /\ out \in Seq(Unit) /\ (search.limit > 0 => Len(out) <= search.limit)
  BY <1>1, GrepFile DEF SearchTypes, Limited
<1>3. file' = NoFile /\ want' \in Seq(Unit)
  BY <1>1, <1>2, CloseTypes
<1>4. Count(file.lines) \in Seq(Unit) /\ AllMatches(file.lines) \in Seq(Unit) /\ <<>> \in Seq(Unit)
  BY <1>1, <1>2, CountIs
<1>5. /\ out' \in Seq(Unit) /\ (search.limit > 0 => Len(out') <= search.limit)
      /\ truncated' \in BOOLEAN /\ status' \in {"running", "ok", "failed", "canceled"} /\ missed' \in BOOLEAN
  <2>1. CASE EndFile
    <3>1. missed' = missed /\ \E units \in Seq(Unit) : Put(units)
      <4>1. Put(CASE search.mode = "count" -> Count(file.lines)
                  [] search.mode = "multiline" -> AllMatches(file.lines)
                  [] OTHER -> <<>>)
        BY <2>1 DEF EndFile
      <4>2. (CASE search.mode = "count" -> Count(file.lines)
               [] search.mode = "multiline" -> AllMatches(file.lines)
               [] OTHER -> <<>>) \in Seq(Unit)
        BY <1>4
      <4> QED
        BY <2>1, <4>1, <4>2 DEF EndFile
    <3> QED
      BY <1>2, <3>1, PutTypes
  <2>2. CASE InputLimit
    <3> DEFINE counted == IF search.mode = "count" THEN Count(file.lines) ELSE <<>>
    <3>1. counted \in Seq(Unit)
      BY <1>4
    <3>2. /\ out' = out \o Cut(counted) /\ truncated' = TRUE /\ missed' = TRUE
          /\ status' = IF Fits(counted) THEN status ELSE "ok"
      BY <2>2 DEF InputLimit
    <3> HIDE DEF counted
    <3> QED
      BY <1>2, <3>1, <3>2, CutIs
  <2> QED
    BY <2>1, <2>2
<1> QED
  BY <1>1, <1>2, <1>3, <1>5, InFileTypes

-----------------------------------------------------------------------------
\* Changes of the tree, the ends, and the steps of a child keep the types.
LEMMA KeepsTypes ==
  ASSUME SearchTypes, UNCHANGED <<search, walks, fileVars>>, tree' \in [Paths -> Kinds], standing' \subseteq Paths,
         changes' \in 0..search.changes, out' \in Seq(Unit), truncated' \in BOOLEAN,
         status' \in {"running", "ok", "failed", "canceled"},
         search.limit > 0 /\ Roots # {} => Len(out') <= search.limit
  PROVE  SearchTypes'
<1>1. Roots' = Roots /\ Glob' = Glob
  BY DEF Roots, Glob
<1>2. \A s \in Roots : Chain(s, walks[s].stack)'
  BY DEF Chain, SearchTypes
<1> QED
  BY <1>1, <1>2 DEF SearchTypes, Limited, fileVars

LEMMA EndTypes ==
  ASSUME SearchTypes, Finish \/ Cancel
  PROVE  SearchTypes'
<1>1. UNCHANGED <<search, treeVars, walks, fileVars, out, truncated>> /\ status' \in {"ok", "canceled"}
  BY DEF Finish, Cancel
<1> QED
  BY <1>1, KeepsTypes DEF SearchTypes, Limited, treeVars

LEMMA ChangeTypes ==
  ASSUME SearchTypes, NEW path \in Paths, NEW kind \in Kinds, Change(path, kind)
  PROVE  SearchTypes'
<1>1. /\ UNCHANGED <<search, walks, fileVars, out, truncated, status>> /\ changes' = changes + 1
      /\ changes < search.changes /\ standing' = standing \ ({path} \union Below(path))
      /\ tree' = [p \in Paths |-> IF p = path THEN kind
                                  ELSE IF p \in Below(path) THEN "none" ELSE tree[p]]
  BY DEF Change
<1>2. tree' \in [Paths -> Kinds]
  BY <1>1 DEF SearchTypes, Kinds
<1>3. changes' \in 0..search.changes
  BY <1>1, Request DEF SearchTypes
<1> QED
  BY <1>1, <1>2, <1>3, KeepsTypes DEF SearchTypes, Limited

LEMMA ChangeTree ==
  ASSUME SearchTypes, TreeInv, NEW path \in Paths, NEW kind \in Kinds, Change(path, kind)
  PROVE  TreeInv'
<1>1. /\ kind = "dir" => path \in Dirs
      /\ kind # "none" => KindOf(Front(path)) = "dir"
      /\ standing' = standing \ ({path} \union Below(path))
      /\ tree' = [p \in Paths |-> IF p = path THEN kind
                                  ELSE IF p \in Below(path) THEN "none" ELSE tree[p]]
  BY DEF Change
<1>2. \A p \in Paths : tree'[p] = IF p = path THEN kind
                                  ELSE IF p \in Below(path) THEN "none" ELSE tree[p]
  BY <1>1
<1>3. \A p \in Paths : tree'[p] = "dir" => p \in Dirs
  BY <1>1, <1>2 DEF TreeInv
<1>4. \A p \in standing' : tree'[p] = "file"
  BY <1>1, <1>2 DEF TreeInv, SearchTypes
<1>5. ASSUME NEW p \in Paths, tree'[p] # "none", Front(p) # <<>>
      PROVE  tree'[Front(p)] = "dir"
  <2> DEFINE f == Front(p)
  <2>1. /\ f \in Paths /\ f \in Seq(Int) /\ p \in Seq(Int) /\ path \in Seq(Int)
        /\ Len(f) = Len(p) - 1 /\ Len(p) \in Nat \ {0}
        /\ \A i \in 1..(Len(p) - 1) : f[i] = p[i]
    BY <1>5, PathShape
  <2>2. CASE p = path
    <3>1. KindOf(f) = "dir"
      BY <1>1, <1>2, <1>5, <2>2
    <3>2. tree[f] = "dir"
      BY <1>5, <3>1 DEF KindOf
    <3>3. f # path /\ f \notin Below(path)
      <4>1. Len(f) < Len(path)
        BY <2>1, <2>2
      <4>2. IsPrefix(path, f) => Len(path) <= Len(f)
        BY <2>1, PrefixIs
      <4> QED
        BY <2>1, <4>1, <4>2 DEF Below
    <3> QED
      BY <1>2, <2>1, <3>2, <3>3
  <2>3. CASE p # path
    <3>1. p \notin Below(path) /\ tree[p] # "none"
      BY <1>2, <1>5, <2>3
    <3>2. tree[f] = "dir"
      BY <1>5, <3>1 DEF TreeInv
    <3>3. f # path /\ f \notin Below(path)
      <4>1. ~IsPrefix(path, p)
        BY <2>3, <3>1 DEF Below
      <4>2. IsPrefix(path, f) => IsPrefix(path, p)
        <5> SUFFICES ASSUME IsPrefix(path, f) PROVE IsPrefix(path, p)
          OBVIOUS
        <5>1. Len(path) <= Len(f) /\ \A i \in 1..Len(path) : path[i] = f[i]
          BY <2>1, PrefixIs
        <5>2. Len(path) <= Len(p) /\ \A i \in 1..Len(path) : path[i] = p[i]
          BY <2>1, <5>1
        <5> HIDE DEF f
        <5> QED
          BY <2>1, <5>2, PrefixIs
      <4>3. IsPrefix(path, path)
        BY <2>1, PrefixIs
      <4> QED
        BY <4>1, <4>2, <4>3 DEF Below
    <3> QED
      BY <1>2, <2>1, <3>2, <3>3
  <2> QED
    BY <2>2, <2>3
<1> QED
  BY <1>3, <1>4, <1>5 DEF TreeInv

LEMMA InitTypes ==
  ASSUME Init
  PROVE  SearchTypes /\ TreeInv
<1>1. /\ search \in Searches /\ search.tree \in [Paths -> {"none", "file", "dir", "link"}]
      /\ search.changes \in Nat /\ search.lines \in Nat
  BY SearchesAssumption DEF Init
<1>2. NewWalk \in WalkSet /\ NewWalk.stack = <<>>
  <2>1. FALSE \in BOOLEAN /\ <<>> \in Seq(FrameSet) /\ None \in Name
    BY DEF Name
  <2> QED
    BY <2>1 DEF NewWalk, WalkSet
<1>3. walks = [r \in Roots |-> NewWalk]
  BY DEF Init
<1>4. walks \in [Roots -> WalkSet] /\ \A r \in Roots : Chain(r, walks[r].stack)
  BY <1>2, <1>3 DEF Chain
<1>5. <<>> \in Seq(Unit) /\ Len(<<>>) = 0 /\ search.limit \in Nat
  BY <1>1, Request
<1>6. SearchTypes
  <2>1. /\ tree \in [Paths -> Kinds] /\ standing \subseteq Paths /\ opened \subseteq Paths
        /\ changes \in 0..search.changes /\ linesLeft \in 0..search.lines
    BY <1>1 DEF Init, Kinds
  <2>2. file = NoFile /\ status = "running" /\ truncated \in BOOLEAN /\ missed \in BOOLEAN
    BY DEF Init
  <2>3. out \in Seq(Unit) /\ want \in Seq(Unit) /\ Limited
    BY <1>5 DEF Init, Limited
  <2> QED
    BY <1>1, <1>4, <2>1, <2>2, <2>3 DEF SearchTypes
<1>7. TreeInv
  BY <1>1, SearchesAssumption DEF Init, TreeInv
<1> QED
  BY <1>6, <1>7

LEMMA TreeStays ==
  ASSUME TreeInv, UNCHANGED treeVars
  PROVE  TreeInv'
BY DEF TreeInv, treeVars

LEMMA NextTypes ==
  ASSUME SearchTypes, TreeInv, Next
  PROVE  SearchTypes' /\ TreeInv'
<1>1. CASE \E path \in Paths, kind \in Kinds : Change(path, kind)
  BY <1>1, ChangeTypes, ChangeTree
<1>2. CASE Finish \/ Cancel
  <2>1. UNCHANGED treeVars
    BY <1>2 DEF Finish, Cancel
  <2> QED
    BY <1>2, <2>1, EndTypes, TreeStays
<1>3. CASE EndFile \/ InputLimit
  <2>1. UNCHANGED treeVars
    BY <1>3 DEF EndFile, InputLimit
  <2> QED
    BY <1>3, <2>1, EndFileTypes, TreeStays
<1>4. CASE \E line \in {"hit", "miss", "long"} : ReadLine(line)
  <2>1. UNCHANGED treeVars
    BY <1>4 DEF ReadLine
  <2> QED
    BY <1>4, <2>1, ReadLineTypes, TreeStays
<1>5. ASSUME NEW r \in Roots,
             \/ BeginRoot(r) \/ ListDirectory(r) \/ LeaveDirectory(r)
             \/ DaemonEntry(r)
      PROVE  SearchTypes' /\ TreeInv'
  <2>1. UNCHANGED treeVars
    BY <1>5 DEF BeginRoot, ListDirectory, LeaveDirectory, DaemonEntry, Fail, Advance
  <2>2. SearchTypes'
    BY <1>5, BeginRootTypes, ListDirectoryTypes, LeaveDirectoryTypes, EntryTypes
  <2> QED
    BY <2>1, <2>2, TreeStays
<1>6. ASSUME NEW r \in Roots, \/ DaemonGlob(r) \/ DaemonOpen(r)
      PROVE  SearchTypes' /\ TreeInv'
  <2>1. UNCHANGED treeVars
    BY <1>6 DEF DaemonGlob, DaemonOpen, List
  <2>2. SearchTypes'
    BY <1>6, GlobTypes, OpenTypes
  <2> QED
    BY <2>1, <2>2, TreeStays
<1> QED
  BY <1>1, <1>2, <1>3, <1>4, <1>5, <1>6 DEF Next

\* A child gives its answer to a search without roots.
ChildStep ==
  \/ ChildWrites \/ ChildQuiet
  \/ \E result \in {-1, 0, 1, 2}, killed \in BOOLEAN : ChildEnds(result, killed)
  \/ ReadUnit \/ ProbeMore \/ EndOfOutput
  \/ ContextEnds \/ PassSignal \/ KillAfter \/ ChildReaped

LEMMA ChildStepTypes ==
  ASSUME SearchTypes, TreeInv, ChildInv, ChildStep
  PROVE  SearchTypes' /\ TreeInv'
<1>1. UNCHANGED walkVars
  BY DEF ChildStep, ChildWrites, ChildQuiet, ChildEnds, ReadUnit, ProbeMore, EndOfOutput, ContextEnds,
         PassSignal, KillAfter, ChildReaped, Stay
<1>2. UNCHANGED <<search, treeVars, walks, fileVars>>
  BY <1>1 DEF walkVars
<1>3. TreeInv'
  BY <1>2, TreeStays
<1>4. /\ out \in Seq(Unit) /\ Len(out) \in Nat /\ truncated \in BOOLEAN /\ search.limit \in Nat
      /\ status \in {"running", "ok", "failed", "canceled"} /\ wrote \in Nat
      /\ (search.limit > 0 /\ Roots # {} => Len(out) <= search.limit)
  BY Request DEF SearchTypes, ChildInv, Limited
<1>5. CASE ReadUnit
  <2>1. /\ out' = Append(out, <<None, Read, TRUE>>) /\ UNCHANGED <<truncated, status>> /\ Roots = {}
    BY <1>5 DEF ReadUnit, Stay, Reading, ChildInv
  <2>2. <<None, Read, TRUE>> \in Unit
    <3>1. None \in Name /\ Read \in Int /\ TRUE \in BOOLEAN
      BY <1>4 DEF Name, Read
    <3> QED
      BY <3>1, UnitIs
  <2>3. out' \in Seq(Unit)
    <3> DEFINE u == <<None, Read, TRUE>>
    <3> HIDE DEF u
    <3>1. u \in Unit => Append(out, u) \in Seq(Unit)
      BY <1>4
    <3> QED
      BY <2>1, <2>2, <3>1 DEF u
  <2>4. SearchTypes'
    BY <1>2, <1>4, <2>1, <2>3, KeepsTypes DEF SearchTypes, treeVars
  <2> QED
    BY <1>3, <2>4
<1>6. CASE ChildReaped
  <2>1. /\ out' = Shorten(out) /\ truncated' = (pc = "stopping" \/ Len(out') < Read) /\ Roots = {}
        /\ status' = CASE pc = "stopping" -> "ok"
                       [] pc = "waiting" /\ ctxDone -> "canceled"
                       [] OTHER -> IF code > 1 THEN "failed" ELSE "ok"
    BY <1>6 DEF ChildReaped, ChildInv
  <2>2. status' \in {"running", "ok", "failed", "canceled"} /\ truncated' \in BOOLEAN
    BY <2>1
  <2>3. out' \in Seq(Unit)
    <3> DEFINE m == IF search.limit = 0 THEN Read ELSE Low(search.limit, Read)
    <3>1. m \in Nat /\ m <= Len(out) /\ Shorten(out) = SubSeq(out, 1, m)
      BY <1>4 DEF Low, Read, Shorten
    <3> HIDE DEF m
    <3>2. \A i \in 1..m : out[i] \in Unit
      BY <1>4, <3>1
    <3>3. SubSeq(out, 1, m) \in Seq(Unit)
      BY <3>1, <3>2, SubSeqProperties
    <3> QED
      BY <2>1, <3>1, <3>3
  <2>4. SearchTypes'
    BY <1>2, <1>4, <2>1, <2>2, <2>3, KeepsTypes DEF SearchTypes, treeVars
  <2> QED
    BY <1>3, <2>4
<1>7. CASE UNCHANGED <<out, truncated, status>>
  <2>1. SearchTypes'
    BY <1>2, <1>4, <1>7, KeepsTypes DEF SearchTypes, treeVars
  <2> QED
    BY <1>3, <2>1
<1>8. ReadUnit \/ ChildReaped \/ UNCHANGED <<out, truncated, status>>
  BY DEF ChildStep, ChildWrites, ChildQuiet, ChildEnds, ProbeMore, EndOfOutput, ContextEnds,
         PassSignal, KillAfter, Stay, processVars
<1> QED
  BY <1>5, <1>6, <1>7, <1>8

-----------------------------------------------------------------------------
\* The answer of a child.
LEMMA WalkOnly ==
  ASSUME SearchTypes, Next, Roots = {}
  PROVE  UNCHANGED <<search, out, truncated, status>>
<1>1. file = NoFile
  BY DEF SearchTypes
<1>2. \E path \in Paths, kind \in Kinds : Change(path, kind)
  BY <1>1 DEF Next, ReadLine, EndFile, InputLimit, Finish, Cancel
<1> QED
  BY <1>2 DEF Change

LEMMA NextChild ==
  ASSUME SearchTypes, ChildInv, Next, UNCHANGED processVars
  PROVE  ChildInv'
<1>1. UNCHANGED search
  BY DEF Next, BeginRoot, ListDirectory, LeaveDirectory, DaemonEntry, DaemonGlob,
         DaemonOpen, List, ReadLine, EndFile, InputLimit, Finish, Cancel,
         Change, Fail, Advance
<1>2. /\ Roots' = Roots /\ Glob' = Glob /\ UnitLimit' = UnitLimit
      /\ UNCHANGED <<pc, child, code, wrote, term, ctxDone, alien>>
  BY <1>1 DEF Roots, Glob, UnitLimit, processVars, childVars
<1>3. CASE pc = "walk"
  BY <1>2, <1>3 DEF ChildInv
<1>4. CASE pc # "walk"
  <2>1. UNCHANGED <<search, out, truncated, status>>
    BY <1>4, WalkOnly DEF ChildInv
  <2>2. ProcessAnswer' = ProcessAnswer /\ Read' = Read /\ AtLimit' = AtLimit
    BY <1>1, <1>2, <2>1 DEF ProcessAnswer, Read, AtLimit
  <2> QED
    BY <1>2, <2>1, <2>2, ZenonT(60) DEF ChildInv
<1> QED
  BY <1>3, <1>4

LEMMA ChildStepChild ==
  ASSUME SearchTypes, ChildInv, ChildStep
  PROVE  ChildInv'
<1>1. UNCHANGED walkVars
  BY DEF ChildStep, ChildWrites, ChildQuiet, ChildEnds, ReadUnit, ProbeMore, EndOfOutput, ContextEnds,
         PassSignal, KillAfter, ChildReaped, Stay
<1>2. /\ UNCHANGED search /\ Roots' = Roots /\ Glob' = Glob /\ UnitLimit' = UnitLimit
  BY <1>1 DEF Roots, Glob, UnitLimit, walkVars
<1>3. /\ out \in Seq(Unit) /\ Read \in Nat /\ search.limit \in Nat /\ UnitLimit \in Nat /\ wrote \in Nat
      /\ UnitLimit \in {search.limit, search.limit + 1}
  BY Request DEF SearchTypes, Read, UnitLimit, ChildInv
<1>4. CASE ChildWrites
  <2>1. /\ pc \notin {"walk", "answered"} /\ wrote' = wrote + 1
        /\ UNCHANGED <<out, truncated, status, pc, child, code, term, ctxDone, alien>> /\ child = "alive"
    BY <1>4 DEF ChildWrites, Stay
  <2>2. Read' = Read /\ AtLimit' = AtLimit
    BY <1>2, <2>1 DEF Read, AtLimit
  <2>3. wrote' \in Nat /\ Read <= wrote' /\ (Read < wrote => Read < wrote') /\ ProcessAnswer'
        /\ (pc # "walk" => Read <= wrote)
    <3>1. ProcessAnswer' /\ wrote' \in Nat
      BY <1>3, <2>1 DEF ProcessAnswer
    <3>2. Read <= wrote
      BY <2>1 DEF ChildInv
    <3> QED
      BY <1>3, <2>1, <3>1, <3>2
  <2> QED
    BY <1>2, <2>1, <2>2, <2>3 DEF ChildInv
<1>5. CASE ChildQuiet
  <2>1. /\ pc \notin {"walk", "answered"} /\ child' = "quiet" /\ child = "alive"
        /\ UNCHANGED <<out, truncated, status, pc, code, wrote, term, ctxDone, alien>>
    BY <1>5 DEF ChildQuiet, Stay
  <2>2. Read' = Read /\ AtLimit' = AtLimit
    BY <1>2, <2>1 DEF Read, AtLimit
  <2> QED
    BY <1>2, <1>3, <2>1, <2>2 DEF ChildInv, ProcessAnswer
<1>6. CASE \E result \in {-1, 0, 1, 2}, killed \in BOOLEAN : ChildEnds(result, killed)
  <2>1. PICK result \in {-1, 0, 1, 2}, killed \in BOOLEAN : ChildEnds(result, killed)
    BY <1>6
  <2>2. /\ pc # "walk" /\ child # "dead" /\ (result = -1 => killed \/ term)
        /\ child' = "dead" /\ code' = result /\ alien' = (killed /\ ~term)
        /\ UNCHANGED <<out, truncated, status, pc, wrote, term, ctxDone>>
    BY <2>1 DEF ChildEnds, Stay
  <2>3. Read' = Read /\ AtLimit' = AtLimit /\ alien' \in BOOLEAN /\ (code' = -1 => alien' \/ term)
    BY <1>2, <2>2 DEF Read, AtLimit, ChildInv
  <2>4. pc # "answered"
    BY <2>2 DEF ChildInv, ProcessAnswer
  <2> QED
    BY <1>2, <1>3, <2>2, <2>3, <2>4 DEF ChildInv, ProcessAnswer
<1>7. CASE ReadUnit
  <2> DEFINE u == <<None, Read, TRUE>>
  <2>1. /\ pc = "reading" /\ ~AtLimit /\ Read < wrote /\ out' = Append(out, u)
        /\ UNCHANGED <<truncated, status, pc, child, code, wrote, term, ctxDone, alien>>
    BY <1>7 DEF ReadUnit, Stay, Reading, processVars, childVars
  <2>2. /\ Len(out') = Len(out) + 1 /\ DOMAIN out' = 1..(Len(out) + 1) /\ DOMAIN out = 1..Len(out)
        /\ out'[Len(out) + 1] = u /\ \A i \in 1..Len(out) : out'[i] = out[i]
    <3> HIDE DEF u
    <3> QED
      BY <1>3, <2>1
  <2>3. Read' = Read + 1 /\ Read = Len(out)
    BY <2>2 DEF Read
  <2>4. \A i \in DOMAIN out' : out'[i] = <<None, i - 1, TRUE>>
    <3> SUFFICES ASSUME NEW i \in 1..(Len(out) + 1) PROVE out'[i] = <<None, i - 1, TRUE>>
      BY <2>2
    <3>1. CASE i = Len(out) + 1
      <4>1. i - 1 = Read
        BY <1>3, <2>3, <3>1
      <4> QED
        BY <2>2, <3>1, <4>1
    <3>2. CASE i # Len(out) + 1
      <4>1. i \in DOMAIN out
        BY <1>3, <2>2, <2>3, <3>2
      <4> QED
        BY <2>1, <2>2, <4>1 DEF ChildInv
    <3> QED
      BY <3>1, <3>2
  <2>5. UnitLimit > 0 => Read' <= UnitLimit
    <3>1. UnitLimit > 0 => Read <= UnitLimit /\ Read # UnitLimit
      BY <2>1 DEF ChildInv, AtLimit
    <3> QED
      BY <1>3, <2>3, <3>1
  <2> QED
    <3>1. Read' <= wrote /\ ProcessAnswer'
      BY <1>3, <2>1, <2>3 DEF ProcessAnswer
    <3> QED
      BY <1>2, <2>1, <2>4, <2>5, <3>1 DEF ChildInv
<1>8. CASE ProbeMore
  <2>1. /\ pc = "reading" /\ AtLimit /\ Read < wrote /\ pc' = "stopping" /\ term' = TRUE
        /\ UNCHANGED <<out, truncated, status, child, code, wrote, ctxDone, alien>>
    BY <1>8 DEF ProbeMore, Stay, Reading, childVars
  <2>2. Read' = Read /\ AtLimit' = AtLimit
    BY <1>2, <2>1 DEF Read, AtLimit
  <2> QED
    BY <1>2, <1>3, <2>1, <2>2 DEF ChildInv, ProcessAnswer
<1>9. CASE EndOfOutput
  <2>1. /\ pc = "reading" /\ Read = wrote /\ child # "alive" /\ pc' = "waiting" /\ term' = (term \/ ctxDone)
        /\ UNCHANGED <<out, truncated, status, child, code, wrote, ctxDone, alien>>
    BY <1>9 DEF EndOfOutput, Stay, Reading, childVars
  <2>2. Read' = Read /\ AtLimit' = AtLimit /\ term' \in BOOLEAN
    BY <1>2, <2>1 DEF Read, AtLimit, ChildInv
  <2> QED
    BY <1>2, <1>3, <2>1, <2>2 DEF ChildInv, ProcessAnswer
<1>10. CASE ContextEnds
  <2>1. /\ pc \notin {"walk", "answered"} /\ ctxDone' = TRUE
        /\ UNCHANGED <<out, truncated, status, pc, child, code, wrote, term, alien>>
    BY <1>10 DEF ContextEnds, Stay, childVars
  <2>2. Read' = Read /\ AtLimit' = AtLimit
    BY <1>2, <2>1 DEF Read, AtLimit
  <2> QED
    BY <1>2, <1>3, <2>1, <2>2 DEF ChildInv, ProcessAnswer
<1>11. CASE PassSignal
  <2>1. /\ pc \notin {"walk", "answered"} /\ ctxDone /\ term' = TRUE
        /\ UNCHANGED <<out, truncated, status, pc, child, code, wrote, ctxDone, alien>>
    BY <1>11 DEF PassSignal, Stay, childVars
  <2>2. Read' = Read /\ AtLimit' = AtLimit
    BY <1>2, <2>1 DEF Read, AtLimit
  <2> QED
    BY <1>2, <1>3, <2>1, <2>2 DEF ChildInv, ProcessAnswer
<1>12. CASE KillAfter
  <2>1. /\ pc = "stopping" \/ (pc = "waiting" /\ ctxDone /\ term)
        /\ child # "dead"
        /\ child' = "dead" /\ code' = -1
        /\ UNCHANGED <<out, truncated, status, pc, wrote, term, ctxDone, alien>>
    BY <1>12 DEF KillAfter, Stay
  <2>2. Read' = Read /\ AtLimit' = AtLimit
    BY <1>2, <2>1 DEF Read, AtLimit
  <2> QED
    BY <1>2, <1>3, <2>1, <2>2 DEF ChildInv, ProcessAnswer
<1>13. CASE ChildReaped
  <2> DEFINE m == IF search.limit = 0 THEN Read ELSE Low(search.limit, Read)
  <2>1. /\ pc \in {"stopping", "waiting"} /\ child = "dead" /\ pc' = "answered"
        /\ out' = SubSeq(out, 1, m) /\ truncated' = (pc = "stopping" \/ Len(out') < Read)
        /\ status' = CASE pc = "stopping" -> "ok"
                 [] pc = "waiting" /\ ctxDone -> "canceled"
                 [] OTHER -> IF code > 1 THEN "failed" ELSE "ok"
        /\ UNCHANGED <<child, code, wrote, term, ctxDone, alien>>
    BY <1>13 DEF ChildReaped, Shorten, Stay, childVars
  <2>2. m \in Nat /\ m <= Len(out) /\ (search.limit = 0 => m = Read)
        /\ (search.limit # 0 => m <= search.limit /\ (m < Read => m = search.limit))
    BY <1>3 DEF Low, Read
  <2> HIDE DEF m
  <2>3. \A i \in 1..m : out[i] \in Unit /\ i \in DOMAIN out
    BY <1>3, <2>2
  <2>4. Len(out') = m /\ DOMAIN out' = 1..m /\ \A i \in 1..m : out'[i] = out[i]
    <3>1. /\ SubSeq(out, 1, m) \in Seq(Unit) /\ Len(SubSeq(out, 1, m)) = (IF 1 <= m THEN m - 1 + 1 ELSE 0)
          /\ \A i \in 1..(m - 1 + 1) : SubSeq(out, 1, m)[i] = out[1 + i - 1]
      BY <2>2, <2>3, SubSeqProperties
    <3>2. Len(out') = m /\ out' \in Seq(Unit)
      BY <2>1, <2>2, <3>1
    <3>3. \A i \in 1..m : out'[i] = out[i]
      <4>1. m - 1 + 1 = m /\ \A i \in 1..m : 1 + i - 1 = i
        BY <2>2
      <4> QED
        BY <2>1, <3>1, <4>1
    <3> QED
      BY <3>2, <3>3
  <2>5. \A i \in DOMAIN out' : out'[i] = <<None, i - 1, TRUE>>
    BY <2>1, <2>3, <2>4 DEF ChildInv
  <2>6. Read' = m
    BY <2>4 DEF Read
  <2>7. Read <= wrote /\ (pc = "stopping" => AtLimit /\ Read < wrote) /\ (pc = "waiting" => Read = wrote)
        /\ (child = "dead" /\ code = -1 => term \/ alien \/ ctxDone \/ pc \in {"stopping", "answered"})
        /\ (term => ctxDone \/ pc \in {"stopping", "answered"}) /\ code \in {-1, 0, 1, 2}
        /\ alien \in BOOLEAN /\ term \in BOOLEAN /\ ctxDone \in BOOLEAN
    BY <2>1 DEF ChildInv
  <2>8. pc = "stopping" => m = search.limit /\ search.limit > 0
    <3>1. pc = "stopping" => UnitLimit > 0 /\ Read = UnitLimit
      BY <2>7 DEF AtLimit
    <3>2. Glob => search.limit > 0
      BY Request DEF SearchTypes
    <3> QED
      BY <1>3, <2>2, <3>1, <3>2 DEF UnitLimit, Read
  <2>9. ProcessAnswer'
    <3>1. truncated' => search.limit > 0 /\ m = search.limit /\ wrote > m
      <4>1. CASE pc = "stopping"
        BY <1>3, <2>2, <2>7, <2>8, <4>1 DEF Read
      <4>2. CASE pc = "waiting"
        <5>1. truncated' => m < Read
          BY <2>1, <2>4, <4>2
        <5> QED
          BY <1>3, <2>2, <2>7, <4>2, <5>1 DEF Read
      <4> QED
        BY <2>1, <4>1, <4>2
    <3>2. status' = "ok" /\ ~truncated' => m = wrote /\ ~ctxDone /\ (~alien => code \in {0, 1})
      <4>1. CASE pc = "stopping"
        BY <2>1, <4>1
      <4>2. CASE pc = "waiting"
        <5>1. ~truncated' => ~(m < Read)
          BY <2>1, <2>4, <4>2
        <5>2. ~truncated' => m = wrote
          BY <1>3, <2>2, <2>7, <4>2, <5>1 DEF Read
        <5>3. status' = "ok" => ~ctxDone /\ ~(code > 1)
          BY <2>1, <4>2
        <5>4. status' = "ok" /\ ~alien => code # -1
          BY <2>1, <2>7, <4>2, <5>3
        <5> QED
          BY <2>7, <5>2, <5>3, <5>4
      <4> QED
        BY <2>1, <4>1, <4>2
    <3> QED
      BY <1>2, <2>1, <2>5, <2>6, <3>1, <3>2 DEF ProcessAnswer
  <2>10. Read' <= wrote
    BY <1>3, <2>2, <2>6, <2>7 DEF Read
  <2> QED
    BY <1>2, <2>1, <2>5, <2>7, <2>9, <2>10 DEF ChildInv
<1> QED
  BY <1>4, <1>5, <1>6, <1>7, <1>8, <1>9, <1>10, <1>11, <1>12, <1>13 DEF ChildStep

LEMMA InitChild ==
  ASSUME ProcessInit
  PROVE  ChildInv
<1>1. out = <<>> /\ Len(out) = 0 /\ DOMAIN out = {} /\ status = "running" /\ truncated = FALSE
      /\ search.limit \in Nat /\ wrote = 0 /\ code = 0
  BY Request DEF ProcessInit, Init
<1>2. /\ pc = (IF Roots = {} THEN "reading" ELSE "walk")
      /\ child = (IF Roots = {} THEN "alive" ELSE "dead")
      /\ term = FALSE /\ ctxDone = FALSE /\ alien = FALSE
  BY DEF ProcessInit
<1>3. Read = 0 /\ UnitLimit \in Nat /\ ProcessAnswer
  BY <1>1, <1>2 DEF Read, UnitLimit, ProcessAnswer
<1>4. /\ pc = "walk" <=> Roots # {}
      /\ pc \in {"walk", "reading"} /\ child \in {"alive", "dead"} /\ (pc # "walk" => child = "alive")
      /\ term \in BOOLEAN /\ ctxDone \in BOOLEAN /\ alien \in BOOLEAN
      /\ code \in {-1, 0, 1, 2} /\ wrote \in Nat
  BY <1>1, <1>2
<1> QED
  BY <1>1, <1>2, <1>3, <1>4 DEF ChildInv

-----------------------------------------------------------------------------
\* Nothing moves.
LEMMA Stutters ==
  ASSUME SearchTypes, TreeInv, ChildInv, UNCHANGED allVars
  PROVE  SearchTypes' /\ TreeInv' /\ ChildInv'
<1>1. /\ UNCHANGED <<search, treeVars, walks, fileVars, out, truncated, status>>
      /\ UNCHANGED <<pc, child, code, wrote, term, ctxDone, alien>>
  BY DEF allVars, vars, processVars, childVars
<1>2. Roots' = Roots /\ Glob' = Glob /\ UnitLimit' = UnitLimit /\ Read' = Read
  BY <1>1 DEF Roots, Glob, UnitLimit, Read
<1>3. SearchTypes'
  BY <1>1, KeepsTypes DEF SearchTypes, Limited, treeVars
<1>4. ProcessAnswer' = ProcessAnswer /\ AtLimit' = AtLimit
  BY <1>1, <1>2 DEF ProcessAnswer, AtLimit
<1>5. ChildInv'
  BY <1>1, <1>2, <1>4, ZenonT(60) DEF ChildInv
<1> QED
  BY <1>1, <1>3, <1>5, TreeStays

LEMMA TypeOKHolds ==
  ASSUME SearchTypes
  PROVE  TypeOK
<1>1. \A r \in Roots : walks[r].head \in Paths \union {None} /\ Nested(r)
  <2> SUFFICES ASSUME NEW r \in Roots PROVE walks[r].head \in Paths \union {None} /\ Nested(r)
    OBVIOUS
  <2>1. /\ walks[r].head \in Name /\ Chain(r, walks[r].stack)
        /\ \A k \in DOMAIN walks[r].stack : walks[r].stack[k].dir \in Dirs
    BY WalkShape, FrameShape
  <2> QED
    BY <2>1 DEF Name, Chain, Nested
<1>2. file.path \in Paths \union {None}
  BY DEF SearchTypes, FileSet, NoFile
<1> QED
  BY <1>1, <1>2 DEF SearchTypes, TypeOK, Limited

\* SearchProcess, ProcessSpec: the state of a search is well formed and its
\* answer never has more than its limit, with a child or without.
THEOREM SearchTypeCorrect == ProcessSpec => []TypeOK
<1>1. ProcessInit => SearchTypes /\ TreeInv /\ ChildInv
  BY InitTypes, InitChild DEF ProcessInit
<1>2. SearchTypes /\ TreeInv /\ ChildInv /\ [ProcessNext]_allVars => SearchTypes' /\ TreeInv' /\ ChildInv'
  <2> SUFFICES ASSUME SearchTypes, TreeInv, ChildInv, [ProcessNext]_allVars
               PROVE  SearchTypes' /\ TreeInv' /\ ChildInv'
    OBVIOUS
  <2>1. CASE Next /\ UNCHANGED processVars
    BY <2>1, NextTypes, NextChild
  <2>2. CASE ChildStep
    BY <2>2, ChildStepTypes, ChildStepChild
  <2>3. CASE UNCHANGED allVars
    BY <2>3, Stutters
  <2> QED
    BY <2>1, <2>2, <2>3 DEF ProcessNext, ChildStep
<1>3. SearchTypes => TypeOK
  BY TypeOKHolds
<1> QED
  BY <1>1, <1>2, <1>3, PTL DEF ProcessSpec

-----------------------------------------------------------------------------
\* What a pattern means, from segment i and name j on.
Takes(pattern, path, i, j, next) ==
  IF pattern[i] = DoubleStar THEN j <= next
  ELSE next = j + 1 /\ SegmentMatches(pattern[i], path[j])
Aligned(pattern, path, i, j) ==
  \E from \in [i..(Len(pattern) + 1) -> 1..(Len(path) + 1)] :
    /\ from[i] = j /\ from[Len(pattern) + 1] = Len(path) + 1
    /\ \A k \in i..Len(pattern) : Takes(pattern, path, k, from[k], from[k + 1])

LEMMA AlignedStep ==
  ASSUME NEW pattern \in Seq(Int), NEW path \in Seq(Int),
         NEW i \in 1..Len(pattern), NEW j \in 1..(Len(path) + 1)
  PROVE  Aligned(pattern, path, i, j) <=>
           \E next \in 1..(Len(path) + 1) : /\ Takes(pattern, path, i, j, next)
                                            /\ Aligned(pattern, path, i + 1, next)
<1> DEFINE m == Len(pattern)
           n == Len(path)
<1>0. m \in Nat /\ n \in Nat /\ i \in Int /\ i >= 1 /\ i <= m
  OBVIOUS
<1> HIDE DEF m, n
<1>1. ASSUME Aligned(pattern, path, i, j)
      PROVE  \E next \in 1..(n + 1) : /\ Takes(pattern, path, i, j, next)
                                      /\ Aligned(pattern, path, i + 1, next)
  <2>1. PICK from \in [i..(m + 1) -> 1..(n + 1)] :
          /\ from[i] = j /\ from[m + 1] = n + 1
          /\ \A k \in i..m : Takes(pattern, path, k, from[k], from[k + 1])
    BY <1>1 DEF Aligned, m, n
  <2> DEFINE g == [k \in (i + 1)..(m + 1) |-> from[k]]
  <2>2. /\ i + 1 \in i..(m + 1) /\ m + 1 \in (i + 1)..(m + 1) /\ i \in i..m
        /\ \A k \in (i + 1)..(m + 1) : k \in i..(m + 1)
        /\ \A k \in (i + 1)..m : k \in i..m /\ k \in (i + 1)..(m + 1) /\ k + 1 \in (i + 1)..(m + 1)
        /\ i + 1 \in (i + 1)..(m + 1)
    BY <1>0
  <2>3. g \in [(i + 1)..(m + 1) -> 1..(n + 1)] /\ \A k \in (i + 1)..(m + 1) : g[k] = from[k]
    BY <2>1, <2>2
  <2> HIDE DEF g
  <2>4. \A k \in (i + 1)..m : Takes(pattern, path, k, g[k], g[k + 1])
    BY <2>1, <2>2, <2>3
  <2>5. Aligned(pattern, path, i + 1, from[i + 1])
    <3>1. g[i + 1] = from[i + 1] /\ g[m + 1] = n + 1
      BY <2>1, <2>2, <2>3
    <3> QED
      BY <2>3, <2>4, <3>1 DEF Aligned, m, n
  <2> QED
    BY <2>1, <2>2, <2>5
<1>2. ASSUME NEW next \in 1..(n + 1), Takes(pattern, path, i, j, next),
             Aligned(pattern, path, i + 1, next)
      PROVE  Aligned(pattern, path, i, j)
  <2>1. PICK from \in [(i + 1)..(m + 1) -> 1..(n + 1)] :
          /\ from[i + 1] = next /\ from[m + 1] = n + 1
          /\ \A k \in (i + 1)..m : Takes(pattern, path, k, from[k], from[k + 1])
    BY <1>2 DEF Aligned, m, n
  <2> DEFINE g == [k \in i..(m + 1) |-> IF k = i THEN j ELSE from[k]]
  <2>2. /\ i + 1 \in i..(m + 1) /\ m + 1 \in i..(m + 1) /\ i \in i..(m + 1) /\ m + 1 # i /\ i + 1 # i
        /\ \A k \in i..(m + 1) : k = i \/ k \in (i + 1)..(m + 1)
        /\ \A k \in i..m : k \in i..(m + 1) /\ k + 1 \in i..(m + 1) /\ k + 1 # i
        /\ \A k \in i..m : k # i => k \in (i + 1)..m
    BY <1>0
  <2>3. g \in [i..(m + 1) -> 1..(n + 1)] /\ \A k \in i..(m + 1) : g[k] = IF k = i THEN j ELSE from[k]
    <3>1. j \in 1..(n + 1)
      BY DEF n
    <3> QED
      BY <2>1, <2>2, <3>1
  <2> HIDE DEF g
  <2>4. \A k \in i..m : Takes(pattern, path, k, g[k], g[k + 1])
    <3> SUFFICES ASSUME NEW k \in i..m PROVE Takes(pattern, path, k, g[k], g[k + 1])
      OBVIOUS
    <3>1. g[k + 1] = from[k + 1]
      BY <2>2, <2>3
    <3>2. CASE k = i
      BY <1>2, <2>1, <2>2, <2>3, <3>1, <3>2
    <3>3. CASE k # i
      BY <2>1, <2>2, <2>3, <3>1, <3>3
    <3> QED
      BY <3>2, <3>3
  <2> QED
    <3>1. g[i] = j /\ g[m + 1] = n + 1
      BY <2>1, <2>2, <2>3
    <3> QED
      BY <2>3, <2>4, <3>1 DEF Aligned, m, n
<1> QED
  BY <1>1, <1>2 DEF n

LEMMA AlignedEnd ==
  ASSUME NEW pattern \in Seq(Int), NEW path \in Seq(Int), NEW j \in 1..(Len(path) + 1)
  PROVE  Aligned(pattern, path, Len(pattern) + 1, j) <=> j = Len(path) + 1
<1> DEFINE m == Len(pattern)
           n == Len(path)
           g == [k \in (m + 1)..(m + 1) |-> n + 1]
<1>1. m \in Nat /\ n \in Nat /\ (m + 1) \in (m + 1)..(m + 1) /\ (m + 1)..m = {} /\ n + 1 \in 1..(n + 1)
  OBVIOUS
<1> HIDE DEF m, n
<1>2. g \in [(m + 1)..(m + 1) -> 1..(n + 1)] /\ g[m + 1] = n + 1
  BY <1>1
<1> HIDE DEF g
<1>3. Aligned(pattern, path, m + 1, n + 1)
  BY <1>1, <1>2 DEF Aligned, m, n
<1>4. Aligned(pattern, path, m + 1, j) => j = n + 1
  BY DEF Aligned, m, n
<1> QED
  BY <1>3, <1>4 DEF m, n

\* The recursive definition has one solution, which is this one.
DaemonRule(pattern, path, match) ==
  match = [at \in Places(pattern, path) |->
        LET i == at[1]  j == at[2] IN
        IF i > Len(pattern) THEN j = Len(path) + 1
        ELSE IF pattern[i] = DoubleStar
        THEN i = Len(pattern) \/ \E next \in j..(Len(path) + 1) : match[<<i + 1, next>>]
        ELSE j <= Len(path) /\ SegmentMatches(pattern[i], path[j]) /\ match[<<i + 1, j + 1>>]]

\* What the rule says of a place, given what it says of the places after it.
PlaceRule(pattern, path, f, i, j) ==
  f[<<i, j>>] <=>
    IF i > Len(pattern) THEN j = Len(path) + 1
    ELSE \E next \in 1..(Len(path) + 1) : Takes(pattern, path, i, j, next) /\ f[<<i + 1, next>>]

LEMMA OneAnswer ==
  ASSUME NEW pattern \in Seq(Int), NEW path \in Seq(Int), NEW f,
         \A i \in 1..(Len(pattern) + 1), j \in 1..(Len(path) + 1) : PlaceRule(pattern, path, f, i, j)
  PROVE  f[<<1, 1>>] <=> Aligned(pattern, path, 1, 1)
<1> DEFINE m == Len(pattern)
           n == Len(path)
           Wrong == {d \in Nat : d <= m /\ \E j \in 1..(n + 1) :
                       ~(f[<<m + 1 - d, j>>] <=> Aligned(pattern, path, m + 1 - d, j))}
<1>0. m \in Nat /\ n \in Nat
  OBVIOUS
<1>1. ASSUME Wrong # {} PROVE FALSE
  <2>1. PICK d \in Wrong : \A e \in Wrong : d <= e
    <3>1. Wrong \in SUBSET Nat
      OBVIOUS
    <3> HIDE DEF Wrong
    <3> QED
      BY <1>1, <3>1, LeastNat
  <2>2. PICK j \in 1..(n + 1) : ~(f[<<m + 1 - d, j>>] <=> Aligned(pattern, path, m + 1 - d, j))
    BY <2>1
  <2> DEFINE i == m + 1 - d
  <2>3. d \in Nat /\ d <= m /\ i \in 1..(m + 1) /\ ~(f[<<i, j>>] <=> Aligned(pattern, path, i, j))
    BY <1>0, <2>1, <2>2
  <2>4. PlaceRule(pattern, path, f, i, j)
    BY <2>3 DEF m, n
  <2>5. CASE i > m
    <3>1. i = m + 1
      BY <1>0, <2>3, <2>5
    <3>2. Aligned(pattern, path, i, j) <=> j = n + 1
      BY <3>1, AlignedEnd
    <3> HIDE DEF i
    <3> QED
      BY <2>3, <2>4, <2>5, <3>2 DEF PlaceRule, m, n
  <2>6. CASE i <= m
    <3>1. d - 1 \in Nat /\ d - 1 <= m /\ d - 1 < d /\ m + 1 - (d - 1) = i + 1 /\ i \in 1..m
      <4>1. d \in Nat /\ m \in Nat /\ i \in 1..(m + 1) /\ i <= m /\ i = m + 1 - d
        BY <1>0, <2>3, <2>6
      <4> HIDE DEF i, m
      <4>2. d >= 1 /\ d <= m
        BY ONLY <4>1
      <4> QED
        BY ONLY <4>1, <4>2
    <3>2. d - 1 \notin Wrong
      <4>1. d - 1 \in Wrong => d <= d - 1
        BY <2>1
      <4>2. ~(d <= d - 1)
        BY <2>3
      <4> HIDE DEF Wrong
      <4> QED
        BY <4>1, <4>2
    <3>3. \A next \in 1..(n + 1) : f[<<i + 1, next>>] <=> Aligned(pattern, path, i + 1, next)
      BY <3>1, <3>2
    <3>4. Aligned(pattern, path, i, j) <=>
            \E next \in 1..(n + 1) : Takes(pattern, path, i, j, next) /\ Aligned(pattern, path, i + 1, next)
      BY <3>1, AlignedStep
    <3>5. ~(i > m)
      BY <1>0, <2>3, <2>6
    <3> HIDE DEF i
    <3> QED
      BY <2>3, <2>4, <3>3, <3>4, <3>5 DEF PlaceRule, m, n
  <2> QED
    BY <1>0, <2>3, <2>5, <2>6
<1>2. m \in Nat /\ m <= m /\ m + 1 - m = 1 /\ 1 \in 1..(n + 1)
  BY <1>0
<1>3. m \notin Wrong
  BY <1>1
<1> QED
  <2>1. \A j \in 1..(n + 1) : f[<<m + 1 - m, j>>] <=> Aligned(pattern, path, m + 1 - m, j)
    BY <1>2, <1>3
  <2> HIDE DEF m, n
  <2> QED
    BY <1>2, <2>1

\* The answer itself follows the rule.
Alignment(pattern, path) ==
  [at \in Places(pattern, path) |-> Aligned(pattern, path, at[1], at[2])]

LEMMA AlignmentIs ==
  ASSUME NEW pattern, NEW path, NEW i \in 1..(Len(pattern) + 1), NEW j \in 1..(Len(path) + 1)
  PROVE  Alignment(pattern, path)[<<i, j>>] = Aligned(pattern, path, i, j)
<1>1. <<i, j>> \in Places(pattern, path)
  BY DEF Places
<1> QED
  BY <1>1 DEF Alignment

LEMMA FollowsDaemon ==
  ASSUME NEW pattern \in Seq(Int), NEW path \in Seq(Int)
  PROVE  DaemonRule(pattern, path, Alignment(pattern, path))
<1> DEFINE m == Len(pattern)
           n == Len(path)
           A(i, j) == Aligned(pattern, path, i, j)
           match == Alignment(pattern, path)
<1>0. m \in Nat /\ n \in Nat
  OBVIOUS
<1>1. ASSUME NEW i \in 1..(m + 1), NEW j \in 1..(n + 1)
      PROVE  match[<<i, j>>] =
        IF i > m THEN j = n + 1
        ELSE IF pattern[i] = DoubleStar
        THEN i = m \/ \E next \in j..(n + 1) : match[<<i + 1, next>>]
        ELSE j <= n /\ SegmentMatches(pattern[i], path[j]) /\ match[<<i + 1, j + 1>>]
  <2>1. match[<<i, j>>] = A(i, j) /\ A(i, j) \in BOOLEAN
    BY AlignmentIs DEF Aligned
  <2>2. CASE i > m
    <3>1. i = m + 1
      BY <1>0, <2>2
    <3> QED
      BY <2>1, <2>2, <3>1, AlignedEnd
  <2>3. CASE i <= m
    <3>1. i \in 1..m /\ i + 1 \in 1..(m + 1) /\ ~(i > m)
      BY <1>0, <2>3
    <3>2. A(i, j) <=> \E next \in 1..(n + 1) : Takes(pattern, path, i, j, next) /\ A(i + 1, next)
      BY <3>1, AlignedStep
    <3>3. \A next \in 1..(n + 1) : match[<<i + 1, next>>] = A(i + 1, next) /\ A(i + 1, next) \in BOOLEAN
      BY <3>1, AlignmentIs DEF Aligned
    <3>4. i = m => A(i + 1, n + 1)
      <4>1. n + 1 \in 1..(n + 1)
        BY <1>0
      <4> QED
        BY <4>1, AlignedEnd
    <3> HIDE DEF A, match
    <3>5. CASE pattern[i] = DoubleStar
      <4>1. A(i, j) <=> \E next \in j..(n + 1) : A(i + 1, next)
        BY <1>0, <3>2, <3>5 DEF Takes
      <4>2. \A next \in j..(n + 1) : next \in 1..(n + 1)
        BY <1>0
      <4>3. i = m => A(i, j)
        BY <1>0, <3>4, <4>1
      <4>4. (\E next \in j..(n + 1) : match[<<i + 1, next>>]) <=> A(i, j)
        BY <3>3, <4>1, <4>2
      <4> QED
        BY <2>1, <3>1, <3>5, <4>3, <4>4
    <3>6. CASE pattern[i] # DoubleStar
      <4>1. A(i, j) <=> j <= n /\ SegmentMatches(pattern[i], path[j]) /\ A(i + 1, j + 1)
        <5>1. j + 1 \in 1..(n + 1) <=> j <= n
          BY <1>0
        <5> QED
          BY <3>2, <3>6, <5>1 DEF Takes
      <4>2. j <= n => match[<<i + 1, j + 1>>] = A(i + 1, j + 1)
        BY <1>0, <3>3
      <4>3. (j <= n /\ SegmentMatches(pattern[i], path[j]) /\ match[<<i + 1, j + 1>>]) = A(i, j)
        BY <2>1, <4>1, <4>2
      <4> QED
        BY <2>1, <3>1, <3>6, <4>3
    <3> QED
      BY <3>5, <3>6
  <2>4. i > m \/ i <= m
    <3>1. i \in Int /\ m \in Int
      BY <1>0
    <3> HIDE DEF m
    <3> QED
      BY ONLY <3>1
  <2> QED
    BY <2>2, <2>3, <2>4
<1> QED
  <2> SUFFICES ASSUME NEW at \in Places(pattern, path)
               PROVE  match[at] =
                 LET i == at[1]  j == at[2] IN
                 IF i > Len(pattern) THEN j = Len(path) + 1
                 ELSE IF pattern[i] = DoubleStar
                 THEN i = Len(pattern) \/ \E next \in j..(Len(path) + 1) : match[<<i + 1, next>>]
                 ELSE j <= Len(path) /\ SegmentMatches(pattern[i], path[j]) /\ match[<<i + 1, j + 1>>]
    BY DEF DaemonRule, Alignment
  <2>1. PICK i \in 1..(m + 1), j \in 1..(n + 1) : at = <<i, j>>
    BY DEF Places
  <2>2. at[1] = i /\ at[2] = j /\ match[at] = match[<<i, j>>]
    BY <2>1
  <2> HIDE DEF match
  <2> QED
    BY <1>1, <2>2

LEMMA DaemonPlaces ==
  ASSUME NEW pattern \in Seq(Int), NEW path \in Seq(Int), NEW f, DaemonRule(pattern, path, f),
         NEW i \in 1..(Len(pattern) + 1), NEW j \in 1..(Len(path) + 1)
  PROVE  PlaceRule(pattern, path, f, i, j)
<1> DEFINE m == Len(pattern)
           n == Len(path)
<1>0. m \in Nat /\ n \in Nat /\ i \in 1..(m + 1) /\ j \in 1..(n + 1)
  OBVIOUS
<1>1. ASSUME NEW k \in 1..(m + 1), NEW l \in 1..(n + 1)
      PROVE  f[<<k, l>>] = IF k > m THEN l = n + 1
               ELSE IF pattern[k] = DoubleStar
               THEN k = m \/ \E next \in l..(n + 1) : f[<<k + 1, next>>]
               ELSE l <= n /\ SegmentMatches(pattern[k], path[l]) /\ f[<<k + 1, l + 1>>]
  <2>1. <<k, l>> \in Places(pattern, path) /\ <<k, l>>[1] = k /\ <<k, l>>[2] = l
    BY DEF Places
  <2> DEFINE at == <<k, l>>
  <2> HIDE DEF at
  <2>2. f[at] =
          LET a == at[1]  b == at[2] IN
          IF a > Len(pattern) THEN b = Len(path) + 1
          ELSE IF pattern[a] = DoubleStar
          THEN a = Len(pattern) \/ \E next \in b..(Len(path) + 1) : f[<<a + 1, next>>]
          ELSE b <= Len(path) /\ SegmentMatches(pattern[a], path[b]) /\ f[<<a + 1, b + 1>>]
    <3>1. at \in Places(pattern, path)
      BY <2>1 DEF at
    <3> QED
      BY <3>1 DEF DaemonRule
  <2>3. at[1] = k /\ at[2] = l
    BY <2>1 DEF at
  <2>4. f[at] = IF k > m THEN l = n + 1
               ELSE IF pattern[k] = DoubleStar
               THEN k = m \/ \E next \in l..(n + 1) : f[<<k + 1, next>>]
               ELSE l <= n /\ SegmentMatches(pattern[k], path[l]) /\ f[<<k + 1, l + 1>>]
    BY <2>2, <2>3
  <2> QED
    BY <2>4 DEF at
<1>2. f[<<i, j>>] = IF i > m THEN j = n + 1
               ELSE IF pattern[i] = DoubleStar
               THEN i = m \/ \E next \in j..(n + 1) : f[<<i + 1, next>>]
               ELSE j <= n /\ SegmentMatches(pattern[i], path[j]) /\ f[<<i + 1, j + 1>>]
  BY <1>0, <1>1
<1>3. i = m => f[<<i + 1, n + 1>>]
  <2>1. i = m => i + 1 \in 1..(m + 1) /\ n + 1 \in 1..(n + 1) /\ i + 1 > m
    BY <1>0
  <2> HIDE DEF m, n
  <2> QED
    BY <1>1, <2>1
<1> HIDE DEF m, n
<1>4. CASE i > m
  BY <1>2, <1>4 DEF PlaceRule, m, n
<1>5. CASE ~(i > m) /\ pattern[i] = DoubleStar
  <2>1. f[<<i, j>>] <=> (i = m \/ \E next \in j..(n + 1) : f[<<i + 1, next>>])
    BY <1>2, <1>5
  <2>2. f[<<i, j>>] <=> \E next \in j..(n + 1) : f[<<i + 1, next>>]
    <3>1. n + 1 \in j..(n + 1)
      BY <1>0
    <3> QED
      BY <1>3, <2>1, <3>1
  <2>3. \A next : next \in j..(n + 1) <=> next \in 1..(n + 1) /\ j <= next
    BY <1>0
  <2> QED
    BY <1>5, <2>2, <2>3 DEF PlaceRule, Takes, m, n
<1>6. CASE ~(i > m) /\ pattern[i] # DoubleStar
  <2>1. f[<<i, j>>] <=> j <= n /\ SegmentMatches(pattern[i], path[j]) /\ f[<<i + 1, j + 1>>]
    BY <1>2, <1>6
  <2>2. j + 1 \in 1..(n + 1) <=> j <= n
    BY <1>0
  <2>3. f[<<i, j>>] <=> \E next \in 1..(n + 1) : /\ next = j + 1 /\ SegmentMatches(pattern[i], path[j])
                                                /\ f[<<i + 1, next>>]
    BY <2>1, <2>2
  <2> QED
    BY <1>6, <2>3 DEF PlaceRule, Takes, m, n
<1> QED
  BY <1>4, <1>5, <1>6

LEMMA AlignedIsNames ==
  ASSUME NEW pattern \in Seq(Int), NEW path \in Seq(Int)
  PROVE  Aligned(pattern, path, 1, 1) <=> Names(pattern, path)
<1>1. DOMAIN pattern = 1..Len(pattern)
  OBVIOUS
<1>2. \A from : (\A k \in 1..Len(pattern) : Takes(pattern, path, k, from[k], from[k + 1])) <=>
        (\A i \in DOMAIN pattern :
          IF pattern[i] = DoubleStar THEN from[i] <= from[i + 1]
          ELSE from[i + 1] = from[i] + 1 /\ SegmentMatches(pattern[i], path[from[i]]))
  BY <1>1 DEF Takes
<1> QED
  BY <1>2 DEF Aligned, Names

\* DaemonMatchSegments: the recursive matcher answers as the alignment of names
\* with segments says.
THEOREM MatchersAgree ==
  ASSUME NEW pattern \in Seq(Int), NEW path \in Seq(Int)
  PROVE  DaemonMatchSegments(pattern, path) <=> Names(pattern, path)
<1>1. DaemonMatchSegments(pattern, path) <=> Aligned(pattern, path, 1, 1)
  <2> DEFINE f == CHOOSE match : DaemonRule(pattern, path, match)
  <2>1. DaemonRule(pattern, path, f)
    BY FollowsDaemon
  <2>2. DaemonMatchSegments(pattern, path) = f[<<1, 1>>]
    BY DEF DaemonMatchSegments, DaemonRule
  <2> HIDE DEF f
  <2>3. f[<<1, 1>>] <=> Aligned(pattern, path, 1, 1)
    BY <2>1, DaemonPlaces, OneAnswer
  <2> QED
    BY <2>2, <2>3
<1> QED
  BY <1>1, AlignedIsNames

LEMMA PrefixShape ==
  ASSUME NEW root \in Paths \union {<<>>}, NEW p \in Paths, IsPrefix(root, p)
  PROVE  /\ Len(root) <= Len(p) /\ \A i \in 1..Len(root) : root[i] = p[i]
         /\ root # p => Len(root) < Len(p)
<1>1. root \in Seq(Int) /\ Len(root) \in Nat /\ p \in Seq(Int) /\ Len(p) \in Nat
  BY DirShape, PathShape
<1>2. Len(root) <= Len(p) /\ \A i \in 1..Len(root) : root[i] = p[i]
  BY <1>1, PrefixIs
<1>3. Len(root) = Len(p) => root = p
  BY <1>1, <1>2, SameSeq
<1> QED
  BY <1>1, <1>2, <1>3

LEMMA RelativeIs ==
  ASSUME NEW root \in Paths \union {<<>>}, NEW p \in Paths, IsPrefix(root, p)
  PROVE  /\ Relative(root, p) \in Seq(Int) /\ Relative(root, p) # <<>>
         /\ \A i \in DOMAIN Relative(root, p) : \E j \in DOMAIN p : Relative(root, p)[i] = p[j]
<1>1. p \in Seq(Int) /\ Len(p) \in Nat \ {0} /\ Last(p) = p[Len(p)] /\ Last(p) \in Int
      /\ DOMAIN p = 1..Len(p)
  BY PathShape
<1>2. CASE root = p
  <2> DEFINE x == Last(p)
  <2> HIDE DEF x
  <2>1. x \in Int => <<x>> \in Seq(Int) /\ <<x>> # <<>> /\ \A i \in DOMAIN <<x>> : <<x>>[i] = x
    OBVIOUS
  <2>2. Relative(root, p) = <<x>>
    BY <1>2 DEF Relative, x
  <2>3. Len(p) \in DOMAIN p /\ x = p[Len(p)]
    BY <1>1 DEF x
  <2> QED
    BY <1>1, <2>1, <2>2, <2>3
<1>3. CASE root # p
  <2> DEFINE a == Len(root) + 1
             n == Len(p)
             s == SubSeq(p, a, n)
  <2>1. a \in 1..n /\ n \in Nat
    BY <1>1, <1>3, PrefixShape, DirShape
  <2>2. Relative(root, p) = s
    BY <1>3 DEF Relative
  <2>3. \A i \in 1..n : p[i] \in Int
    BY <1>1
  <2> HIDE DEF a
  <2>4. \A i \in a..n : p[i] \in Int
    BY <2>1, <2>3
  <2> HIDE DEF n
  <2>5. s \in Seq(Int) /\ Len(s) = (IF a <= n THEN n - a + 1 ELSE 0)
        /\ \A i \in 1..(n - a + 1) : s[i] = p[a + i - 1]
    BY <1>1, <2>1, <2>4, SubSeqProperties
  <2>6. Len(s) = n - a + 1 /\ DOMAIN s = 1..Len(s) /\ s # <<>>
    <3>1. Len(s) = n - a + 1 /\ Len(s) # 0
      BY <2>1, <2>5
    <3> HIDE DEF s
    <3> QED
      BY <2>5, <3>1
  <2>7. \A i \in 1..(n - a + 1) : a + i - 1 \in 1..n
    BY <2>1
  <2> HIDE DEF s
  <2>8. \A i \in DOMAIN s : a + i - 1 \in DOMAIN p /\ s[i] = p[a + i - 1]
    BY <1>1, <2>5, <2>6, <2>7 DEF n
  <2> QED
    BY <2>2, <2>5, <2>6, <2>8
<1> QED
  BY <1>2, <1>3

LEMMA OneSegment ==
  ASSUME NEW pattern \in Seq(Int), Len(pattern) = 1, NEW x \in Int
  PROVE  SegmentMatches(pattern[1], x) <=> Names(pattern, <<x>>)
<1> DEFINE s == <<x>>
<1>1. s \in Seq(Int) /\ Len(s) = 1 /\ s[1] = x
  OBVIOUS
<1> HIDE DEF s
<1>2. /\ Aligned(pattern, s, 1, 1) <=> \E next \in 1..2 : Takes(pattern, s, 1, 1, next) /\ Aligned(pattern, s, 2, next)
      /\ \A next \in 1..2 : Aligned(pattern, s, 2, next) <=> next = 2
  <2>1. 1 \in 1..Len(pattern) /\ 1 \in 1..(Len(s) + 1) /\ Len(s) + 1 = 2 /\ Len(pattern) + 1 = 2
    BY <1>1
  <2>2. Aligned(pattern, s, 1, 1) <=>
           \E next \in 1..(Len(s) + 1) : Takes(pattern, s, 1, 1, next) /\ Aligned(pattern, s, 1 + 1, next)
    <3>1. \A i \in 1..Len(pattern), j \in 1..(Len(s) + 1) :
            Aligned(pattern, s, i, j) <=>
              \E next \in 1..(Len(s) + 1) : Takes(pattern, s, i, j, next) /\ Aligned(pattern, s, i + 1, next)
      BY <1>1, AlignedStep
    <3> QED
      BY <2>1, <3>1
  <2>3. \A next \in 1..(Len(s) + 1) : Aligned(pattern, s, Len(pattern) + 1, next) <=> next = Len(s) + 1
    BY <1>1, AlignedEnd
  <2> QED
    BY <2>1, <2>2, <2>3
<1>3. Aligned(pattern, s, 1, 1) <=> Takes(pattern, s, 1, 1, 2)
  BY <1>2
<1>4. Takes(pattern, s, 1, 1, 2) <=> SegmentMatches(pattern[1], x)
  BY <1>1 DEF Takes, SegmentMatches
<1> QED
  BY <1>1, <1>3, <1>4, AlignedIsNames DEF s

\* Matches: the daemon takes the pattern at its word.
LEMMA MatchesIs ==
  ASSUME search \in Searches, Glob, NEW r \in Roots, NEW p \in Paths,
         IsPrefix(search.roots[r], p)
  PROVE  Matches(Relative(search.roots[r], p)) <=>
           \E alternative \in search.pattern :
             LET rel == Relative(search.roots[r], p)
             IN  Names(alternative, IF Len(alternative) = 1 THEN <<Last(rel)>> ELSE rel)
<1> DEFINE rel == Relative(search.roots[r], p)
<1>1. search.pattern \subseteq Seq(Int) \ {<<>>} /\ search.roots[r] \in Paths \union {<<>>}
  BY Request
<1>2. /\ rel \in Seq(Int) /\ rel # <<>>
      /\ \A i \in DOMAIN rel : \E j \in DOMAIN p : rel[i] = p[j]
  BY <1>1, RelativeIs
<1> HIDE DEF rel
<1>3. Last(rel) \in Int /\ 1 \in DOMAIN rel
  BY <1>2, FrontLast
<1>4. ASSUME NEW a \in search.pattern
      PROVE  DaemonMatches(a, rel) <=> Names(a, IF Len(a) = 1 THEN <<Last(rel)>> ELSE rel)
  <2>1. a \in Seq(Int) /\ a # <<>>
    BY <1>1
  <2>2. Len(a) = 1 => (SegmentMatches(a[1], Last(rel)) <=> Names(a, <<Last(rel)>>))
    BY <1>3, <2>1, OneSegment
  <2> QED
    BY <1>2, <2>1, <2>2, MatchersAgree DEF DaemonMatches
<1> QED
  BY <1>4 DEF Matches, rel

-----------------------------------------------------------------------------
\* Where the walks are.
LEMMA PrefixSelf ==
  ASSUME NEW p \in Seq(Int)
  PROVE  IsPrefix(p, p)
BY PrefixIs

LEMMA PrefixFront ==
  ASSUME NEW root \in Paths \union {<<>>}, NEW p \in Paths, IsPrefix(root, Front(p))
  PROVE  IsPrefix(root, p)
<1>1. /\ root \in Seq(Int) /\ p \in Seq(Int) /\ Front(p) \in Seq(Int) /\ Len(Front(p)) = Len(p) - 1
      /\ Len(p) \in Nat \ {0} /\ Len(root) \in Nat
      /\ \A i \in 1..(Len(p) - 1) : Front(p)[i] = p[i]
  BY DirShape, PathShape
<1>2. Len(root) <= Len(Front(p)) /\ \A i \in 1..Len(root) : root[i] = Front(p)[i]
  BY <1>1, PrefixIs
<1>3. Len(root) <= Len(p) /\ \A i \in 1..Len(root) : root[i] = p[i]
  <2>1. Len(root) <= Len(p) - 1
    BY <1>1, <1>2
  <2>2. ASSUME NEW i \in 1..Len(root) PROVE root[i] = p[i]
    <3>1. i \in 1..(Len(p) - 1)
      BY <1>1, <2>1
    <3> QED
      BY <1>1, <1>2, <3>1
  <2> QED
    BY <1>1, <2>1, <2>2
<1> QED
  BY <1>1, <1>3, PrefixIs

LEMMA AdvancedWalk ==
  ASSUME SearchTypes, WalkInv, NEW r \in Roots, NEW w, Placed(r, w), Advance(r, w)
  PROVE  WalkInv'
<1>1. walks' = [walks EXCEPT ![r] = w] /\ UNCHANGED search
  BY DEF Advance
<1>2. Roots' = Roots /\ \A s \in Roots : walks'[s] = IF s = r THEN w ELSE walks[s]
  BY <1>1 DEF SearchTypes, Roots
<1>3. \A s \in Roots : Placed(s, walks'[s])
  BY <1>2 DEF WalkInv
<1>4. \A s \in Roots : Placed(s, walks[s])'
  BY <1>1, <1>3 DEF Placed
<1> QED
  BY <1>2, <1>4 DEF WalkInv

LEMMA SameWalks ==
  ASSUME WalkInv, UNCHANGED <<search, walks>>
  PROVE  WalkInv'
<1>1. Roots' = Roots
  BY DEF Roots
<1> QED
  BY <1>1 DEF WalkInv, Placed

LEMMA TakenWalk ==
  ASSUME SearchTypes, WalkInv, UNCHANGED search, NEW r \in Roots, Take(r)
  PROVE  WalkInv'
<1>1. \A s \in Roots : /\ walks'[s].stack = walks[s].stack /\ walks'[s].began = walks[s].began
                       /\ walks'[s].head = IF s = r THEN None ELSE walks[s].head
  BY TakenIs
<1>2. Roots' = Roots
  BY DEF Roots
<1>3. \A s \in Roots : Placed(s, walks[s])'
  BY <1>1 DEF WalkInv, Placed
<1> QED
  BY <1>2, <1>3 DEF WalkInv

\* The places of a walk whose top frame is another, or one shorter or longer.
DirsOf(r, s) ==
  \A k \in 1..Len(s) :
    /\ IsPrefix(search.roots[r], s[k].dir)
    /\ \A l \in k..Len(s) : IsPrefix(s[k].dir, s[l].dir)

LEMMA DirsSwapped ==
  ASSUME NEW r, NEW s \in Seq(FrameSet), s # <<>>, DirsOf(r, s), NEW f \in FrameSet, f.dir = Last(s).dir
  PROVE  DirsOf(r, Front(s) \o <<f>>)
<1> DEFINE t == Front(s) \o <<f>>
           n == Len(s)
<1>1. /\ n \in Nat \ {0} /\ Len(t) = n /\ t[n] = f /\ \A k \in 1..(n - 1) : t[k] = s[k]
      /\ Last(s) = s[n]
  <2>1. Len(s) \in Nat \ {0} /\ Last(s) = s[Len(s)]
    BY FrontLast
  <2>2. Len(t) = Len(s) /\ t[Len(s)] = f /\ \A k \in 1..(Len(s) - 1) : t[k] = s[k]
    BY Swapped
  <2> QED
    BY <2>1, <2>2
<1> HIDE DEF t
<1>2. \A k \in 1..n : t[k].dir = s[k].dir
  BY <1>1
<1>3. \A k \in 1..n : \A l \in k..n : l \in 1..n
  BY <1>1
<1>4. /\ \A k \in 1..n : IsPrefix(search.roots[r], s[k].dir)
      /\ \A k \in 1..n : \A l \in k..n : IsPrefix(s[k].dir, s[l].dir)
  BY DEF DirsOf
<1> HIDE DEF n
<1> QED
  BY <1>1, <1>2, <1>3, <1>4 DEF DirsOf, t

LEMMA DirsShorter ==
  ASSUME NEW r, NEW s \in Seq(FrameSet), s # <<>>, DirsOf(r, s)
  PROVE  DirsOf(r, Front(s))
<1> DEFINE n == Len(s)
<1>1. n \in Nat \ {0} /\ Len(Front(s)) = n - 1 /\ \A k \in 1..(n - 1) : Front(s)[k] = s[k]
  <2>1. /\ Len(s) \in Nat \ {0} /\ Len(Front(s)) = Len(s) - 1
        /\ \A k \in 1..(Len(s) - 1) : Front(s)[k] = s[k]
    BY FrontLast
  <2> QED
    BY <2>1
<1>2. /\ \A k \in 1..n : IsPrefix(search.roots[r], s[k].dir)
      /\ \A k \in 1..n : \A l \in k..n : IsPrefix(s[k].dir, s[l].dir)
  BY DEF DirsOf
<1> HIDE DEF n
<1>3. \A k \in 1..(n - 1) : k \in 1..n /\ \A l \in k..(n - 1) : l \in k..n /\ l \in 1..(n - 1)
  BY <1>1
<1> QED
  BY <1>1, <1>2, <1>3 DEF DirsOf

LEMMA DirsLonger ==
  ASSUME SearchTypes, NEW r \in Roots, NEW s \in Seq(FrameSet), s # <<>>, DirsOf(r, s), NEW dir \in Paths, dir \in Dirs,
         Front(dir) = Last(s).dir
  PROVE  DirsOf(r, s \o <<Frame(dir)>>)
<1> DEFINE f == Frame(dir)
           t == s \o <<f>>
           n == Len(s)
<1>0. f.dir = dir
  BY DEF Frame
<1>1. f \in FrameSet
  <2>1. <<>> \in Seq(EntrySet) /\ {} \in SUBSET Int /\ TRUE \in BOOLEAN
    OBVIOUS
  <2> QED
    BY <2>1 DEF FrameSet, Frame
<1> HIDE DEF f
<1>2. /\ n \in Nat \ {0} /\ Len(t) = n + 1 /\ t[n + 1] = f /\ \A k \in 1..n : t[k] = s[k]
      /\ Last(s) = s[n]
  <2>1. Len(s) \in Nat \ {0} /\ Last(s) = s[Len(s)]
    BY FrontLast
  <2>2. Len(t) = Len(s) + 1 /\ t[Len(s) + 1] = f /\ \A k \in 1..Len(s) : t[k] = s[k]
    BY <1>1, Pushed
  <2> QED
    BY <2>1, <2>2
<1>3. /\ \A k \in 1..n : IsPrefix(search.roots[r], s[k].dir)
      /\ \A k \in 1..n : \A l \in k..n : IsPrefix(s[k].dir, s[l].dir)
      /\ \A k \in 1..n : s[k].dir \in Paths \union {<<>>}
  <2>1. \A k \in 1..Len(s) : s[k] \in FrameSet
    OBVIOUS
  <2>2. \A k \in 1..Len(s) : s[k].dir \in Paths \union {<<>>}
    BY <2>1, FrameShape
  <2> QED
    BY <2>2 DEF DirsOf
<1> HIDE DEF t, n
<1>4. \A k \in 1..n : IsPrefix(s[k].dir, dir)
  <2>1. \A k \in 1..n : n \in k..n
    BY <1>2
  <2>2. \A k \in 1..n : IsPrefix(s[k].dir, Front(dir))
    BY <1>2, <1>3, <2>1
  <2> QED
    BY <1>3, <2>2, PrefixFront
<1>5. IsPrefix(search.roots[r], dir)
  <2>1. search.roots[r] \in Paths \union {<<>>}
    BY Request DEF SearchTypes
  <2>2. IsPrefix(search.roots[r], Front(dir))
    BY <1>2, <1>3
  <2> QED
    BY <2>1, <2>2, PrefixFront
<1>6. IsPrefix(dir, dir)
  BY PathShape, PrefixSelf
<1>7. \A k \in 1..(n + 1) : t[k].dir = IF k = n + 1 THEN dir ELSE s[k].dir
  BY <1>0, <1>2
<1>8. /\ \A k \in 1..(n + 1) : k = n + 1 \/ k \in 1..n
      /\ \A k \in 1..(n + 1) : \A l \in k..(n + 1) : l \in 1..(n + 1) /\ (l = n + 1 \/ (k \in 1..n /\ k # n + 1 /\ l \in k..n))
  BY <1>2
<1>9. \A k \in 1..(n + 1) : IsPrefix(search.roots[r], t[k].dir)
  BY <1>3, <1>5, <1>7, <1>8
<1>10. ASSUME NEW k \in 1..(n + 1), NEW l \in k..(n + 1) PROVE IsPrefix(t[k].dir, t[l].dir)
  BY <1>3, <1>4, <1>6, <1>7, <1>8
<1> QED
  BY <1>2, <1>9, <1>10 DEF DirsOf, t, f

LEMMA WalkDirs ==
  ASSUME WalkInv, NEW r \in Roots
  PROVE  /\ DirsOf(r, walks[r].stack) /\ (walks[r].stack # <<>> \/ walks[r].head # None => walks[r].began)
BY DEF WalkInv, Placed, DirsOf

LEMMA PlacedIs ==
  ASSUME NEW r, NEW w, w.began, w.head = None, DirsOf(r, w.stack)
  PROVE  Placed(r, w)
BY DEF Placed, DirsOf

LEMMA BeginRootWalk ==
  ASSUME SearchTypes, TreeInv, WalkInv, NEW r \in Roots, BeginRoot(r)
  PROVE  WalkInv'
<1> DEFINE root == search.roots[r]
           begun == [walks[r] EXCEPT !.began = TRUE]
<1>1. root \in Paths \union {<<>>} /\ root \in Seq(Int)
  BY Request, DirShape DEF SearchTypes
<1>2. /\ begun \in WalkSet /\ begun.stack = walks[r].stack /\ begun.began /\ begun.head = walks[r].head
  BY WalkShape, WithBegan
<1>3. begun.stack = <<>> /\ begun.head = None
  BY <1>2 DEF BeginRoot, WalkInv, Placed
<1>4. IsPrefix(root, root)
  BY <1>1, PrefixSelf
<1>5. CASE Fail
  BY <1>5, SameWalks DEF Fail
<1>6. CASE KindOf(root) = "dir" /\ Advance(r, [begun EXCEPT !.stack = <<Frame(root)>>])
  <2> DEFINE s == <<Frame(root)>>
             w == [begun EXCEPT !.stack = s]
  <2>1. root \in Dirs
    BY <1>1, <1>6, DirsAre DEF KindOf, TreeInv
  <2>2. s \in Seq(FrameSet) /\ Len(s) = 1 /\ s[1].dir = root
    BY <2>1, Alone DEF Frame
  <2> HIDE DEF s, begun
  <2>3. w \in WalkSet /\ w.stack = s /\ w.began /\ w.head = None
    BY <1>2, <1>3, <2>2, WithStack
  <2>4. Advance(r, w)
    BY <1>6 DEF s
  <2>5. DirsOf(r, s)
    BY <1>4, <2>2 DEF DirsOf
  <2> HIDE DEF w
  <2> QED
    BY <2>3, <2>4, <2>5, PlacedIs, AdvancedWalk
<1>7. CASE KindOf(root) = "file" /\ Advance(r, [begun EXCEPT !.head = root])
  <2> DEFINE w == [begun EXCEPT !.head = root]
  <2>1. root \in Name
    BY <1>1, <1>7 DEF KindOf, Name
  <2> HIDE DEF begun, root
  <2>2. w \in WalkSet /\ w.stack = begun.stack /\ w.head = root /\ w.began
    BY <1>2, <2>1, WithHead
  <2> HIDE DEF w
  <2>3. Placed(r, w)
    BY <1>3, <1>4, <2>2 DEF Placed, root
  <2> QED
    BY <1>7, <2>3, AdvancedWalk DEF w
<1>8. CASE Advance(r, begun)
  <2>1. Len(begun.stack) = 0
    BY <1>3
  <2>2. Placed(r, begun)
    BY <1>2, <1>3, <2>1 DEF Placed
  <2> QED
    BY <1>8, <2>2, AdvancedWalk
<1>9. \/ Fail
      \/ KindOf(root) = "dir" /\ Advance(r, [begun EXCEPT !.stack = <<Frame(root)>>])
      \/ KindOf(root) = "file" /\ Advance(r, [begun EXCEPT !.head = root])
      \/ Advance(r, begun)
  <2> HIDE DEF begun, root
  <2> QED
    BY DEF BeginRoot, begun, root
<1> QED
  BY <1>5, <1>6, <1>7, <1>8, <1>9

LEMMA ReplacedPlaced ==
  ASSUME SearchTypes, WalkInv, NEW r \in Roots, Walking(r), walks[r].stack # <<>>,
         NEW f \in FrameSet, f.dir = Top(r).dir,
         \A j \in 1..Len(f.todo) : Front(f.todo[j].path) = f.dir
  PROVE  Placed(r, Replaced(r, f))
<1>1. /\ walks[r].stack \in Seq(FrameSet) /\ DirsOf(r, walks[r].stack) /\ walks[r].began
      /\ walks[r].head = None /\ Top(r) = Last(walks[r].stack)
  BY WalkShape, WalkDirs DEF Walking, Top
<1>2. DirsOf(r, Front(walks[r].stack) \o <<f>>)
  BY <1>1, DirsSwapped
<1>3. /\ Replaced(r, f).stack = Front(walks[r].stack) \o <<f>>
      /\ Replaced(r, f).began = walks[r].began /\ Replaced(r, f).head = walks[r].head
  BY ReplacedIs
<1> QED
  BY <1>1, <1>2, <1>3, PlacedIs

LEMMA ListDirectoryWalk ==
  ASSUME SearchTypes, TreeInv, WalkInv, NEW r \in Roots, ListDirectory(r)
  PROVE  WalkInv'
<1>1. CASE Fail
  BY <1>1, SameWalks DEF Fail
<1>2. walks[r].stack # <<>> /\ Top(r).todo = <<>> /\ Walking(r)
  BY ListingIs
<1>4. CASE Advance(r, Replaced(r, Listed1(r)))
  <2>1. /\ Listed1(r) \in FrameSet /\ Listed1(r).dir = Top(r).dir
        /\ \A j \in 1..Len(Listed1(r).todo) : Front(Listed1(r).todo[j].path) = Listed1(r).dir
    BY <1>2, Listed1Is
  <2>2. Placed(r, Replaced(r, Listed1(r)))
    BY <1>2, <2>1, ReplacedPlaced
  <2> QED
    BY <1>4, <2>2, AdvancedWalk
<1> QED
  BY <1>1, <1>4, ListingIs

LEMMA LeaveDirectoryWalk ==
  ASSUME SearchTypes, WalkInv, NEW r \in Roots, LeaveDirectory(r)
  PROVE  WalkInv'
<1> DEFINE s == Front(walks[r].stack)
           w == [walks[r] EXCEPT !.stack = s]
<1>1. walks[r].stack # <<>> /\ Advance(r, w) /\ walks[r].head = None
  BY DEF LeaveDirectory, Walking
<1>2. /\ walks[r] \in WalkSet /\ walks[r].stack \in Seq(FrameSet) /\ Chain(r, walks[r].stack)
      /\ DirsOf(r, walks[r].stack) /\ walks[r].began
  BY <1>1, WalkShape, WalkDirs
<1>3. s \in Seq(FrameSet) /\ DirsOf(r, s)
  BY <1>1, <1>2, Shallower, DirsShorter
<1> HIDE DEF s
<1>4. w \in WalkSet /\ w.stack = s /\ w.began = walks[r].began /\ w.head = walks[r].head
  BY <1>2, <1>3, WithStack
<1> HIDE DEF w
<1> QED
  BY <1>1, <1>2, <1>3, <1>4, PlacedIs, AdvancedWalk

LEMMA EntryWalk ==
  ASSUME SearchTypes, TreeInv, WalkInv, NEW r \in Roots, DaemonEntry(r)
  PROVE  WalkInv'
<1>1. walks[r].stack # <<>> /\ Top(r).todo # <<>> /\ Walking(r) /\ walks[r].head = None
  BY EnteringIs DEF Walking
<1>2. CASE Fail
  BY <1>2, SameWalks DEF Fail
<1> DEFINE s == Rest(r).stack
           p == Head(Top(r).todo).path
<1>3. /\ s \in Seq(FrameSet) /\ s # <<>> /\ Last(s).dir = Top(r).dir /\ DirsOf(r, s)
      /\ walks[r].began /\ Rest(r).began /\ Rest(r).head = None
  <2>1. /\ walks[r].stack \in Seq(FrameSet) /\ DirsOf(r, walks[r].stack) /\ walks[r].began
        /\ Top(r) = Last(walks[r].stack)
    BY <1>1, WalkShape, WalkDirs DEF Top
  <2>2. DirsOf(r, Front(walks[r].stack) \o <<Popped(r)>>)
    BY <1>1, <2>1, DirsSwapped, PoppedIs
  <2> QED
    BY <1>1, <2>1, <2>2, RestIs, PoppedIs DEF WalkSet
<1>4. p \in Paths /\ Front(p) = Last(s).dir
  BY <1>1, <1>3, HeadShape
<1>5. CASE Advance(r, Into(r)) /\ Head(Top(r).todo).isDir
  <2>1. p \in Dirs
    BY <1>1, <1>5, HeadShape
  <2>2. Into(r).stack = s \o <<Frame(p)>> /\ Into(r).began = walks[r].began /\ Into(r).head = walks[r].head
    BY <1>1, <2>1, IntoIs
  <2>3. DirsOf(r, s \o <<Frame(p)>>)
    <3> HIDE DEF s, p
    <3> QED
      BY <1>3, <1>4, <2>1, DirsLonger
  <2>4. Placed(r, Into(r))
    BY <1>1, <1>3, <2>2, <2>3, PlacedIs
  <2> QED
    BY <1>5, <2>4, AdvancedWalk
<1>6. CASE Advance(r, Yield(r))
  <2>1. Yield(r).stack = s /\ Yield(r).began = walks[r].began /\ Yield(r).head = p
    BY <1>1, YieldIs
  <2>2. IsPrefix(search.roots[r], p)
    <3>1. search.roots[r] \in Paths \union {<<>>}
      BY Request DEF SearchTypes
    <3>2. Len(s) \in 1..Len(s) /\ Last(s) = s[Len(s)]
      <4> HIDE DEF s
      <4>1. Len(s) \in Nat \ {0} /\ Last(s) = s[Len(s)]
        BY <1>3, FrontLast
      <4> QED
        BY <4>1
    <3>3. IsPrefix(search.roots[r], Last(s).dir)
      BY <1>3, <3>2 DEF DirsOf
    <3> QED
      BY <1>4, <3>1, <3>3, PrefixFront
  <2>3. Placed(r, Yield(r))
    BY <1>3, <1>4, <2>1, <2>2 DEF Placed, DirsOf
  <2> QED
    BY <1>6, <2>3, AdvancedWalk
<1>7. CASE Advance(r, Rest(r))
  BY <1>3, <1>7, PlacedIs, AdvancedWalk
<1> QED
  BY <1>1, <1>2, <1>5, <1>6, <1>7, EnteringIs

LEMMA NextWalk ==
  ASSUME SearchTypes, TreeInv, WalkInv, Next
  PROVE  WalkInv'
<1>1. CASE \E path \in Paths, kind \in Kinds : Change(path, kind)
  BY <1>1, SameWalks DEF Change
<1>2. CASE Finish \/ Cancel \/ EndFile \/ InputLimit
  BY <1>2, SameWalks DEF Finish, Cancel, EndFile, InputLimit
<1>3. CASE \E line \in {"hit", "miss", "long"} : ReadLine(line)
  BY <1>3, SameWalks DEF ReadLine
<1>4. ASSUME NEW r \in Roots,
             \/ BeginRoot(r) \/ ListDirectory(r) \/ LeaveDirectory(r)
             \/ DaemonEntry(r)
      PROVE  WalkInv'
  BY <1>4, BeginRootWalk, ListDirectoryWalk, LeaveDirectoryWalk, EntryWalk
<1>5. ASSUME NEW r \in Roots, DaemonGlob(r) \/ DaemonOpen(r)
      PROVE  WalkInv'
  <2>1. Take(r) /\ UNCHANGED search
    BY <1>5 DEF DaemonGlob, DaemonOpen, List
  <2> QED
    BY <2>1, TakenWalk
<1> QED
  BY <1>1, <1>2, <1>3, <1>4, <1>5 DEF Next

-----------------------------------------------------------------------------
\* The way down to a path.
LEMMA Ancestors ==
  ASSUME TreeInv, NEW p \in Paths, tree[p] # "none", NEW n \in 1..(Len(p) - 1)
  PROVE  SubSeq(p, 1, n) \in Paths /\ tree[SubSeq(p, 1, n)] = "dir"
<1> DEFINE Good(m) == SubSeq(p, 1, m) \in Paths /\ tree[SubSeq(p, 1, m)] = "dir"
           Bad == {k \in Nat : k \in 1..(Len(p) - 1) /\ ~Good(Len(p) - k)}
<1>1. p \in Seq(Int) /\ Len(p) \in Nat \ {0} /\ \A i \in 1..Len(p) : p[i] \in Int
  BY PathShape
<1>2. \A m \in 1..Len(p) :
        /\ SubSeq(p, 1, m) \in Seq(Int) /\ Len(SubSeq(p, 1, m)) = m
        /\ \A i \in 1..m : SubSeq(p, 1, m)[i] = p[i]
  BY <1>1
<1>3. SubSeq(p, 1, Len(p)) = p
  BY <1>1, <1>2, SameSeq
<1>4. ASSUME NEW m \in 2..Len(p), SubSeq(p, 1, m) \in Paths, tree[SubSeq(p, 1, m)] # "none"
      PROVE  Good(m - 1)
  <2> DEFINE q == SubSeq(p, 1, m)
             t == SubSeq(p, 1, m - 1)
  <2>1. m \in 1..Len(p) /\ m - 1 \in 1..Len(p) /\ m \in Nat
    BY <1>1
  <2>2. /\ q \in Seq(Int) /\ Len(q) = m /\ \A i \in 1..m : q[i] = p[i]
        /\ t \in Seq(Int) /\ Len(t) = m - 1 /\ \A i \in 1..(m - 1) : t[i] = p[i]
    BY <1>2, <2>1
  <2>3. q \in Paths
    BY <1>4
  <2> HIDE DEF q, t
  <2>4. /\ Front(q) \in Seq(Int) /\ Len(Front(q)) = m - 1 /\ Front(q) \in Paths \union {<<>>}
        /\ \A i \in 1..(m - 1) : Front(q)[i] = q[i]
    BY <2>2, <2>3, PathShape
  <2>5. Front(q) = t
    <3> DEFINE f == Front(q)
    <3>1. Len(f) = Len(t) /\ \A i \in 1..Len(f) : f[i] = t[i]
      <4>1. \A i \in 1..(m - 1) : i \in 1..m
        BY <2>1
      <4>2. Len(f) = m - 1 /\ Len(t) = m - 1 /\ \A i \in 1..(m - 1) : f[i] = t[i]
        BY <2>2, <2>4, <4>1
      <4> QED
        BY <4>2
    <3>2. f \in Seq(Int)
      BY <2>4
    <3> HIDE DEF f
    <3> QED
      BY <2>2, <3>1, <3>2, SameSeq DEF f
  <2>6. t # <<>>
    BY <2>1, <2>2
  <2> QED
    BY <1>4, <2>3, <2>4, <2>5, <2>6 DEF TreeInv, q, t
<1>5. CASE Bad = {}
  <2>1. Len(p) - n \in Nat /\ Len(p) - n \in 1..(Len(p) - 1) /\ Len(p) - (Len(p) - n) = n
    BY <1>1
  <2> QED
    BY <1>5, <2>1
<1>6. CASE Bad # {}
  <2>1. PICK k \in Bad : \A m \in Bad : k <= m
    <3>1. Bad \in SUBSET Nat
      OBVIOUS
    <3> HIDE DEF Bad
    <3> QED
      BY <1>6, <3>1, LeastNat
  <2> DEFINE m == Len(p) - k + 1
  <2>2. k \in 1..(Len(p) - 1) /\ m \in 2..Len(p) /\ m - 1 = Len(p) - k
    BY <1>1, <2>1
  <2>3. SubSeq(p, 1, m) \in Paths /\ tree[SubSeq(p, 1, m)] # "none"
    <3>1. CASE k = 1
      <4>1. m = Len(p)
        BY <1>1, <3>1
      <4> QED
        BY <1>3, <4>1
    <3>2. CASE k # 1
      <4>1. k - 1 \in Nat /\ k - 1 \in 1..(Len(p) - 1) /\ Len(p) - (k - 1) = m /\ ~(k <= k - 1)
        BY <1>1, <2>2, <3>2
      <4>2. Good(m)
        BY <2>1, <4>1
      <4> QED
        BY <4>2
    <3> QED
      BY <3>1, <3>2
  <2>4. Good(Len(p) - k)
    <3> HIDE DEF m, Good
    <3> QED
      BY <1>4, <2>2, <2>3
  <2> QED
    BY <2>1, <2>4
<1> QED
  BY <1>5, <1>6

\* The entry of a directory on the way to an open file is there.
LEMMA StepIs ==
  ASSUME NEW dir \in Paths \union {<<>>}, NEW p \in Paths, Strictly(dir, p)
  PROVE  /\ Len(dir) \in Nat /\ Len(dir) + 1 \in 1..Len(p) /\ Len(p) \in Nat
         /\ Step(dir, p).path \in Seq(Int) /\ Len(Step(dir, p).path) = Len(dir) + 1
         /\ \A i \in 1..(Len(dir) + 1) : Step(dir, p).path[i] = p[i]
         /\ Last(Step(dir, p).path) = p[Len(dir) + 1] /\ p[Len(dir) + 1] \in Int
         /\ \A i \in 1..Len(dir) : dir[i] = p[i]
         /\ Step(dir, p).isDir = (Len(dir) + 1 < Len(p))
         /\ Step(dir, p).path = SubSeq(p, 1, Len(dir) + 1)
         /\ ~Step(dir, p).isDir => Step(dir, p).path = p
<1> DEFINE m == Len(dir) + 1
           q == SubSeq(p, 1, m)
<1>1. /\ p \in Seq(Int) /\ Len(p) \in Nat \ {0} /\ \A i \in 1..Len(p) : p[i] \in Int
      /\ dir \in Seq(Int) /\ Len(dir) \in Nat
  BY PathShape, DirShape
<1>2. Len(dir) < Len(p) /\ SubSeq(p, 1, Len(dir)) = dir
  BY DEF Strictly
<1>3. m \in 1..Len(p) /\ m \in Nat /\ m # 0
  BY <1>1, <1>2
<1>4. \A i \in 1..Len(dir) : dir[i] = p[i]
  <2> DEFINE d == SubSeq(p, 1, Len(dir))
  <2>1. \A i \in 1..Len(dir) : d[i] = p[i]
    BY <1>1, <1>2
  <2> QED
    BY <1>2, <2>1
<1>5. q \in Seq(Int) /\ Len(q) = m /\ \A i \in 1..m : q[i] = p[i]
  BY <1>1, <1>3
<1>6. Last(q) = p[m] /\ p[m] \in Int
  <2> HIDE DEF q
  <2>1. q # <<>> /\ m \in 1..m
    BY <1>3, <1>5
  <2> HIDE DEF m
  <2> QED
    BY <1>1, <1>3, <1>5, <2>1, FrontLast
<1>7. Step(dir, p).path = q /\ Step(dir, p).isDir = (m < Len(p))
  BY DEF Step
<1>8. ~(m < Len(p)) => q = p
  <2> HIDE DEF q, m
  <2>1. ~(m < Len(p)) => m = Len(p)
    BY <1>1, <1>3
  <2> QED
    BY <1>1, <1>5, <2>1, SameSeq
<1> QED
  BY <1>1, <1>3, <1>4, <1>5, <1>6, <1>7, <1>8

LEMMA WayIs ==
  ASSUME SearchTypes, TreeInv, NEW dir \in Dirs, NEW p \in Paths, tree[p] = "file", Open(p), Strictly(dir, p)
  PROVE  /\ Step(dir, p) \in Entries(dir) /\ KindOf(dir) = "dir" /\ Step(dir, p).path \in Paths
         /\ Step(dir, p).isDir => /\ KindOf(Step(dir, p).path) = "dir" /\ Strictly(Step(dir, p).path, p)
                                  /\ Step(dir, p).path \in Dirs
         /\ ~Step(dir, p).isDir => Step(dir, p).path = p /\ KindOf(p) = "file"
<1> DEFINE m == Len(dir) + 1
           q == SubSeq(p, 1, m)
<1>1. /\ p \in Seq(Int) /\ Len(p) \in Nat \ {0} /\ dir \in Paths \union {<<>>} /\ DOMAIN p = 1..Len(p)
      /\ p # <<>> /\ dir \in Seq(Int)
  BY PathShape, DirsAre, DirShape
<1>2. /\ m \in 1..Len(p) /\ Len(dir) \in Nat /\ Len(q) = m /\ q \in Seq(Int)
      /\ \A i \in 1..Len(dir) : dir[i] = p[i]
      /\ \A i \in 1..m : q[i] = p[i]
      /\ Last(q) = p[m]
      /\ Step(dir, p) = [path |-> q, isDir |-> m < Len(p)]
      /\ (~(m < Len(p)) => q = p)
  <2>1. Step(dir, p) = [path |-> q, isDir |-> m < Len(p)]
    BY DEF Step
  <2>2. Step(dir, p).path = q /\ Step(dir, p).isDir = (m < Len(p))
    BY <2>1
  <2>3. /\ Len(dir) \in Nat /\ Len(dir) + 1 \in 1..Len(p)
        /\ Step(dir, p).path \in Seq(Int) /\ Len(Step(dir, p).path) = Len(dir) + 1
        /\ \A i \in 1..(Len(dir) + 1) : Step(dir, p).path[i] = p[i]
        /\ Last(Step(dir, p).path) = p[Len(dir) + 1]
        /\ \A i \in 1..Len(dir) : dir[i] = p[i]
        /\ ~Step(dir, p).isDir => Step(dir, p).path = p
    BY <1>1, StepIs
  <2> HIDE DEF q
  <2> QED
    BY <2>1, <2>2, <2>3
<1> HIDE DEF q
<1>3. q \in Paths /\ tree[q] = (IF m < Len(p) THEN "dir" ELSE "file")
  <2>1. CASE m < Len(p)
    <3>1. m \in 1..(Len(p) - 1)
      BY <1>1, <1>2, <2>1
    <3> HIDE DEF m
    <3> QED
      BY <2>1, <3>1, Ancestors DEF q
  <2>2. CASE ~(m < Len(p))
    BY <1>2, <2>2
  <2> QED
    BY <2>1, <2>2
<1>4. q # <<>> /\ KindOf(q) = tree[q] /\ KindOf(p) = "file"
  BY <1>1, <1>2, <1>3, PathShape DEF KindOf
<1>5. KindOf(dir) = "dir"
  <2>1. CASE dir = <<>>
    BY <2>1 DEF KindOf
  <2>2. CASE dir # <<>>
    <3> DEFINE n == Len(dir)
    <3>1. n \in 1..(Len(p) - 1) /\ SubSeq(p, 1, n) = dir
      BY <1>1, <1>2, <2>2 DEF Strictly
    <3> HIDE DEF n
    <3> QED
      BY <2>2, <3>1, Ancestors DEF KindOf
  <2> QED
    BY <2>1, <2>2
<1>6. Step(dir, p) \in Entries(dir)
  <2>1. IsPrefix(dir, q)
    <3>1. Len(dir) <= Len(q) /\ \A i \in 1..Len(dir) : dir[i] = q[i]
      BY <1>2
    <3> QED
      BY <1>1, <1>2, <3>1, PrefixIs
  <2>2. ~ShouldSkip(Last(q))
    BY <1>1, <1>2 DEF Open
  <2>3. Step(dir, p) = Entry(q)
    <3>1. (tree[q] = "dir") = (m < Len(p))
      BY <1>3
    <3> QED
      BY <1>2, <1>4, <3>1 DEF Entry
  <2> QED
    BY <1>2, <1>3, <2>1, <2>2, <2>3 DEF Entries
<1>7. m < Len(p) => Strictly(q, p) /\ q \in Dirs
  BY <1>2, <1>3 DEF Strictly, q, TreeInv
<1> QED
  <2>1. Step(dir, p).path = q /\ Step(dir, p).isDir = (m < Len(p))
    BY <1>2
  <2> QED
    BY <1>2, <1>3, <1>4, <1>5, <1>6, <1>7, <2>1

-----------------------------------------------------------------------------
\* What is ahead of a walk.
LEMMA OnShorter ==
  ASSUME NEW s \in Seq(FrameSet), s # <<>>, NEW p
  PROVE  OnStack(s, p) <=> OnStack(Front(s), p) \/ InFrame(Last(s), p)
<1>1. /\ Len(s) \in Nat \ {0} /\ Len(Front(s)) = Len(s) - 1 /\ Last(s) = s[Len(s)]
      /\ \A k \in 1..(Len(s) - 1) : Front(s)[k] = s[k]
  BY FrontLast
<1>2. \A k : k \in 1..Len(s) <=> k \in 1..(Len(s) - 1) \/ k = Len(s)
  BY <1>1
<1> QED
  BY <1>1, <1>2 DEF OnStack

LEMMA OnSwapped ==
  ASSUME NEW s \in Seq(FrameSet), s # <<>>, NEW f \in FrameSet, NEW p
  PROVE  OnStack(Front(s) \o <<f>>, p) <=> OnStack(Front(s), p) \/ InFrame(f, p)
<1> DEFINE t == Front(s) \o <<f>>
<1>1. /\ Len(s) \in Nat \ {0} /\ Len(Front(s)) = Len(s) - 1 /\ \A k \in 1..(Len(s) - 1) : Front(s)[k] = s[k]
  BY FrontLast
<1>2. Len(t) = Len(s) /\ t[Len(s)] = f /\ \A k \in 1..(Len(s) - 1) : t[k] = s[k]
  BY Swapped
<1>3. \A k : k \in 1..Len(s) <=> k \in 1..(Len(s) - 1) \/ k = Len(s)
  BY <1>1
<1> HIDE DEF t
<1>4. OnStack(t, p) <=> OnStack(Front(s), p) \/ InFrame(f, p)
  BY <1>1, <1>2, <1>3 DEF OnStack
<1> QED
  BY <1>4 DEF t

LEMMA OnLonger ==
  ASSUME NEW s \in Seq(FrameSet), NEW f \in FrameSet, NEW p
  PROVE  OnStack(s \o <<f>>, p) <=> OnStack(s, p) \/ InFrame(f, p)
<1> DEFINE t == s \o <<f>>
<1>1. Len(s) \in Nat
  OBVIOUS
<1>2. Len(t) = Len(s) + 1 /\ t[Len(s) + 1] = f /\ \A k \in 1..Len(s) : t[k] = s[k]
  BY Pushed
<1>3. \A k : k \in 1..(Len(s) + 1) <=> k \in 1..Len(s) \/ k = Len(s) + 1
  BY <1>1
<1> HIDE DEF t
<1>4. OnStack(t, p) <=> OnStack(s, p) \/ InFrame(f, p)
  BY <1>1, <1>2, <1>3 DEF OnStack
<1> QED
  BY <1>4 DEF t

LEMMA OnNothing ==
  ASSUME NEW s, s = <<>>, NEW p
  PROVE  ~OnStack(s, p)
<1>1. Len(s) = 0
  OBVIOUS
<1> QED
  BY <1>1 DEF OnStack

\* A directory that has not been read has everything below it ahead.
LEMMA InNewFrame ==
  ASSUME NEW dir, NEW p
  PROVE  Frame(dir) \in [dir : {dir}, todo : {<<>>}, more : {TRUE}]
         /\ (InFrame(Frame(dir), p) <=> Strictly(dir, p))
<1>1. Frame(dir).dir = dir /\ Frame(dir).more
  BY DEF Frame
<1>2. Frame(dir) \in [dir : {dir}, todo : {<<>>}, more : {TRUE}]
  BY DEF Frame
<1> QED
  BY <1>1, <1>2 DEF InFrame

LEMMA NewFrame ==
  ASSUME NEW dir \in Dirs
  PROVE  Frame(dir) \in FrameSet /\ Frame(dir).dir = dir
<1>1. <<>> \in Seq(EntrySet) /\ TRUE \in BOOLEAN
  OBVIOUS
<1> QED
  BY <1>1 DEF FrameSet, Frame

\* One step of one walk.
WalkStep(r) ==
  BeginRoot(r) \/ ListDirectory(r) \/ LeaveDirectory(r) \/ DaemonEntry(r)

LEMMA AdvancedAhead ==
  ASSUME SearchTypes, NEW r \in Roots, NEW w, Advance(r, w), NEW s \in Roots, NEW p
  PROVE  Ahead(s, p)' <=> IF s = r THEN AheadIn(w, p) ELSE Ahead(s, p)
<1>1. walks'[s] = IF s = r THEN w ELSE walks[s]
  BY DEF Advance, SearchTypes
<1>2. Ahead(s, p)' <=> AheadIn(walks'[s], p)
  BY DEF Ahead, AheadIn, OnStack, InFrame, Strictly, Step
<1>3. CASE s = r
  <2>1. walks'[s] = w
    BY <1>1, <1>3
  <2> QED
    BY <1>2, <1>3, <2>1
<1>4. CASE s # r
  <2>1. walks'[s] = walks[s]
    BY <1>1, <1>4
  <2> QED
    BY <1>2, <1>4, <2>1 DEF Ahead
<1> QED
  BY <1>3, <1>4

\* The ways to go on from the state of a walk.
NextOf(r, w) ==
  \/ /\ ~walks[r].began /\ w.began
     /\ LET root == search.roots[r] IN
        \/ KindOf(root) = "dir" /\ root \in Dirs /\ w.stack = <<Frame(root)>> /\ w.head = None
        \/ KindOf(root) = "file" /\ w.stack = <<>> /\ w.head = root
        \/ /\ w.stack = <<>> /\ w.head = None
           /\ KindOf(root) = "file" => ShouldSkip(Last(root))
           /\ KindOf(root) # "dir"
  \/ /\ walks[r].began /\ w.began /\ walks[r].stack # <<>> /\ w.head = None
     /\ Top(r).todo = <<>>
     /\ \/ \E f \in FrameSet :
             /\ f.dir = Top(r).dir
             /\ w.stack = Front(walks[r].stack) \o <<f>>
             /\ Top(r).more
             /\ KindOf(f.dir) = "dir" /\ f = Listed1(r)
        \/ ~Top(r).more /\ w.stack = Front(walks[r].stack)
  \/ /\ walks[r].began /\ w.began /\ walks[r].stack # <<>> /\ Top(r).todo # <<>>
     /\ LET s == Front(walks[r].stack) \o <<Popped(r)>>
            e == Head(Top(r).todo)
        IN \/ w.stack = s \o <<Frame(e.path)>> /\ w.head = None /\ e.path \in Dirs /\ e.isDir
           \/ w.stack = s /\ w.head = e.path /\ ~e.isDir
           \/ w.stack = s /\ w.head = None /\ ~e.isDir /\ EntryKind(r) \notin {"none", "file"}

LEMMA WalkStepIs ==
  ASSUME SearchTypes, TreeInv, WalkInv, NEW r \in Roots, WalkStep(r)
  PROVE  /\ walks[r].head = None /\ UNCHANGED <<search, treeVars, fileVars, out, truncated>>
         /\ \/ status' = "failed" /\ UNCHANGED walks
            \/ UNCHANGED status /\ \E w \in WalkSet : NextOf(r, w) /\ Advance(r, w)
<1>1. walks[r].head = None
  BY DEF WalkStep, BeginRoot, ListDirectory, LeaveDirectory, DaemonEntry, AtEntry, Walking
<1>2. CASE Fail
  BY <1>1, <1>2 DEF Fail
<1>3. ASSUME NEW w \in WalkSet, Advance(r, w), NextOf(r, w)
      PROVE  /\ UNCHANGED <<search, treeVars, fileVars, out, truncated, status>>
             /\ \E v \in WalkSet : NextOf(r, v) /\ Advance(r, v)
  BY <1>3 DEF Advance
<1>4. CASE BeginRoot(r) /\ ~Fail
  <2> DEFINE root == search.roots[r]
             begun == [walks[r] EXCEPT !.began = TRUE]
  <2>1. /\ begun \in WalkSet /\ begun.stack = walks[r].stack /\ begun.began /\ begun.head = walks[r].head
    BY WalkShape, WithBegan
  <2>2. ~walks[r].began /\ begun.stack = <<>> /\ begun.head = None
    BY <1>4, <2>1 DEF BeginRoot, WalkInv, Placed
  <2>3. root \in Paths \union {<<>>}
    BY Request DEF SearchTypes
  <2>4. CASE KindOf(root) = "dir" /\ Advance(r, [begun EXCEPT !.stack = <<Frame(root)>>])
    <3> DEFINE s == <<Frame(root)>>
               w == [begun EXCEPT !.stack = s]
    <3>1. root \in Dirs
      BY <2>3, <2>4, DirsAre DEF KindOf, TreeInv
    <3>2. s \in Seq(FrameSet)
      BY <3>1, Alone
    <3> HIDE DEF s, begun
    <3>3. w \in WalkSet /\ w.stack = s /\ w.began /\ w.head = None
      BY <2>1, <2>2, <3>2, WithStack
    <3> HIDE DEF w
    <3>4. NextOf(r, w)
      BY <2>2, <2>4, <3>1, <3>3 DEF NextOf, s
    <3> QED
      BY <1>3, <1>1, <2>4, <3>3, <3>4 DEF w, s
  <2>5. CASE KindOf(root) = "file" /\ Advance(r, [begun EXCEPT !.head = root])
    <3> DEFINE w == [begun EXCEPT !.head = root]
    <3>1. root \in Name
      BY <2>3, <2>5 DEF KindOf, Name
    <3> HIDE DEF begun
    <3>2. w \in WalkSet /\ w.stack = begun.stack /\ w.head = root /\ w.began
      BY <2>1, <3>1, WithHead
    <3> HIDE DEF w
    <3>3. NextOf(r, w)
      BY <2>2, <2>5, <3>2 DEF NextOf
    <3> QED
      BY <1>3, <1>1, <2>5, <3>2, <3>3 DEF w
  <2>6. CASE /\ Advance(r, begun) /\ KindOf(root) # "dir"
             /\ KindOf(root) = "file" => ShouldSkip(Last(root))
    <3> HIDE DEF begun
    <3>1. NextOf(r, begun)
      BY <2>1, <2>2, <2>6 DEF NextOf
    <3> QED
      BY <1>3, <1>1, <2>1, <2>6, <3>1
  <2>7. \/ KindOf(root) = "dir" /\ Advance(r, [begun EXCEPT !.stack = <<Frame(root)>>])
        \/ KindOf(root) = "file" /\ Advance(r, [begun EXCEPT !.head = root])
        \/ /\ Advance(r, begun) /\ KindOf(root) # "dir"
           /\ KindOf(root) = "file" => ShouldSkip(Last(root))
    <3> HIDE DEF begun, root
    <3> QED
      BY <1>4 DEF BeginRoot, begun, root
  <2> QED
    BY <2>4, <2>5, <2>6, <2>7
<1>5. ASSUME walks[r].stack # <<>> PROVE walks[r].began
  BY <1>5, WalkDirs
<1>6. CASE ListDirectory(r) /\ ~Fail
  <2>1. walks[r].stack # <<>> /\ Top(r).todo = <<>> /\ Top(r).more /\ walks[r].began
    BY <1>5, <1>6, ListingIs
  <2>3. CASE KindOf(Top(r).dir) = "dir" /\ Advance(r, Replaced(r, Listed1(r)))
    <3> DEFINE w == Replaced(r, Listed1(r))
    <3>1. /\ Listed1(r) \in FrameSet /\ Listed1(r).dir = Top(r).dir
          /\ \A j \in 1..Len(Listed1(r).todo) : Front(Listed1(r).todo[j].path) = Listed1(r).dir
      BY <2>1, Listed1Is
    <3>2. /\ w \in WalkSet /\ w.stack = Front(walks[r].stack) \o <<Listed1(r)>>
          /\ w.began = walks[r].began /\ w.head = walks[r].head
      BY <2>1, <3>1, ReplacedIs
    <3> HIDE DEF w
    <3>3. NextOf(r, w)
      BY <1>1, <2>1, <2>3, <3>1, <3>2 DEF NextOf
    <3> QED
      BY <1>1, <1>3, <2>3, <3>2, <3>3 DEF w
  <2> QED
    BY <1>6, <2>3, ListingIs
<1>7. CASE LeaveDirectory(r)
  <2> DEFINE s == Front(walks[r].stack)
             w == [walks[r] EXCEPT !.stack = s]
  <2>1. walks[r].stack # <<>> /\ Top(r).todo = <<>> /\ ~Top(r).more /\ Advance(r, w) /\ walks[r].began
    BY <1>5, <1>7 DEF LeaveDirectory
  <2>2. /\ walks[r] \in WalkSet /\ walks[r].stack \in Seq(FrameSet) /\ Chain(r, walks[r].stack)
    BY WalkShape
  <2>3. s \in Seq(FrameSet)
    BY <2>1, <2>2, Shallower
  <2>0. s = Front(walks[r].stack)
    OBVIOUS
  <2> HIDE DEF s
  <2>4. w \in WalkSet /\ w.stack = s /\ w.began = walks[r].began /\ w.head = walks[r].head
    BY <2>2, <2>3, WithStack
  <2> HIDE DEF w
  <2>5. NextOf(r, w)
    BY <1>1, <2>0, <2>1, <2>4 DEF NextOf
  <2> QED
    BY <1>1, <1>3, <2>1, <2>4, <2>5
<1>8. CASE (DaemonEntry(r)) /\ ~Fail
  <2>1. walks[r].stack # <<>> /\ Top(r).todo # <<>> /\ walks[r].began
    BY <1>5, <1>8, EnteringIs
  <2> DEFINE e == Head(Top(r).todo)
             s == Front(walks[r].stack) \o <<Popped(r)>>
  <2>2. Rest(r) \in WalkSet /\ Rest(r).stack = s /\ Rest(r).began /\ Rest(r).head = None
    BY <1>1, <2>1, RestIs
  <2>3. CASE Advance(r, Into(r)) /\ e.isDir
    <3>1. e.path \in Dirs
      BY <2>1, <2>3, HeadShape
    <3>2. /\ Into(r) \in WalkSet /\ Into(r).stack = s \o <<Frame(e.path)>>
          /\ Into(r).began /\ Into(r).head = None
      BY <1>1, <2>1, <2>2, <3>1, IntoIs
    <3> HIDE DEF e, s
    <3>3. NextOf(r, Into(r))
      BY <2>1, <2>3, <3>1, <3>2 DEF NextOf, e, s
    <3> QED
      BY <1>1, <1>3, <2>3, <3>2, <3>3
  <2>4. CASE Advance(r, Yield(r)) /\ ~e.isDir
    <3>1. Yield(r) \in WalkSet /\ Yield(r).stack = s /\ Yield(r).began /\ Yield(r).head = e.path
      BY <2>1, <2>2, YieldIs
    <3> HIDE DEF e, s
    <3>2. NextOf(r, Yield(r))
      BY <2>1, <2>4, <3>1 DEF NextOf, e, s
    <3> QED
      BY <1>1, <1>3, <2>4, <3>1, <3>2
  <2>5. CASE Advance(r, Rest(r)) /\ ~e.isDir /\ EntryKind(r) \notin {"none", "file"}
    <3> HIDE DEF e, s
    <3>1. NextOf(r, Rest(r))
      BY <2>1, <2>2, <2>5 DEF NextOf, e, s
    <3> QED
      BY <1>1, <1>3, <2>2, <2>5, <3>1
  <2> QED
    BY <1>8, <2>3, <2>4, <2>5, EnteringIs
<1> QED
  BY <1>2, <1>4, <1>6, <1>7, <1>8 DEF WalkStep

\* A file that is there all the time stays ahead of a walk until it is taken.
LEMMA AheadStays ==
  ASSUME SearchTypes, TreeInv, WalkInv, NEW r \in Roots, NEW w \in WalkSet, NextOf(r, w),
         walks[r].head = None,
         NEW p \in Paths, tree[p] = "file", Open(p), IsPrefix(search.roots[r], p), Ahead(r, p)
  PROVE  AheadIn(w, p)
<1>0. p # None /\ p # <<>> /\ KindOf(p) = "file" /\ p \in Seq(Int) /\ Len(p) \in Nat \ {0} /\ DOMAIN p = 1..Len(p)
  BY PathShape DEF KindOf
<1>1. CASE ~walks[r].began
  <2> DEFINE root == search.roots[r]
  <2>1. root \in Paths \union {<<>>}
    BY Request DEF SearchTypes
  <2>2. \/ KindOf(root) = "dir" /\ root \in Dirs /\ w.stack = <<Frame(root)>> /\ w.head = None
        \/ KindOf(root) = "file" /\ w.stack = <<>> /\ w.head = root
        \/ /\ w.stack = <<>> /\ w.head = None
           /\ KindOf(root) = "file" => ShouldSkip(Last(root))
           /\ KindOf(root) # "dir"
    BY <1>1 DEF NextOf
  <2>3. root # p => Strictly(root, p)
    <3> SUFFICES ASSUME root # p PROVE Strictly(root, p)
      OBVIOUS
    <3>1. root \in Seq(Int) /\ Len(root) \in Nat /\ Len(root) < Len(p) /\ \A i \in 1..Len(root) : root[i] = p[i]
      BY <2>1, DirShape, PrefixShape
    <3> DEFINE n == Len(root)
               q == SubSeq(p, 1, n)
    <3>2. q \in Seq(Int) /\ Len(q) = n /\ \A i \in 1..n : q[i] = p[i]
      BY <1>0, <3>1
    <3>3. Len(q) = Len(root) /\ \A i \in 1..Len(q) : q[i] = root[i]
      BY <3>1, <3>2
    <3> HIDE DEF q
    <3>4. q = root
      BY <3>1, <3>2, <3>3, SameSeq
    <3> QED
      BY <3>1, <3>4 DEF Strictly, q
  <2> HIDE DEF root
  <2>4. CASE KindOf(root) = "dir" /\ root \in Dirs /\ w.stack = <<Frame(root)>> /\ w.head = None
    <3>1. root # p
      BY <1>0, <2>4
    <3>2. InFrame(Frame(root), p)
      BY <2>3, <3>1, InNewFrame
    <3>3. Len(w.stack) = 1 /\ w.stack[1] = Frame(root)
      BY <2>4
    <3> QED
      BY <3>2, <3>3 DEF AheadIn, OnStack
  <2>5. ASSUME root # p PROVE KindOf(root) = "dir"
    <3>1. Strictly(root, p)
      BY <2>3, <2>5
    <3>2. CASE root = <<>>
      BY <3>2 DEF KindOf
    <3>3. CASE root # <<>>
      <4> DEFINE n == Len(root)
      <4>1. n \in 1..(Len(p) - 1) /\ SubSeq(p, 1, n) = root
        <5>1. root \in Seq(Int) /\ Len(root) \in Nat /\ Len(root) # 0
          BY <2>1, <3>3, DirShape
        <5> QED
          BY <1>0, <3>1, <5>1 DEF Strictly
      <4> HIDE DEF n
      <4> QED
        BY <3>3, <4>1, Ancestors DEF KindOf
    <3> QED
      BY <3>2, <3>3
  <2>6. CASE KindOf(root) # "dir"
    <3>1. root = p
      BY <2>5, <2>6
    <3>2. ~ShouldSkip(Last(root))
      <4>1. Last(p) = p[Len(p)] /\ Len(p) \in DOMAIN p
        BY <1>0, PathShape
      <4> QED
        BY <3>1, <4>1 DEF Open
    <3> QED
      BY <1>0, <2>2, <2>6, <3>1, <3>2 DEF AheadIn
  <2> QED
    BY <2>2, <2>4, <2>6
<1>2. CASE walks[r].began
  <2> DEFINE st == walks[r].stack
             low == Front(st)
             top == Top(r)
  <2>1. st # <<>> /\ w.began
    BY <1>2 DEF NextOf
  <2>2. st \in Seq(FrameSet) /\ top = Last(st) /\ top \in FrameSet /\ top.dir \in Dirs
    BY <2>1, WalkShape, TopShape DEF Top
  <2>3. OnStack(low, p) \/ InFrame(top, p)
    <3>1. OnStack(st, p)
      BY <1>0, <1>2 DEF Ahead, AheadIn
    <3> QED
      BY <2>1, <2>2, <3>1, OnShorter
  <2>4. low \in Seq(FrameSet)
    BY <2>1, <2>2, FrontLast
  <2>5. ASSUME Strictly(top.dir, p)
        PROVE  /\ Step(top.dir, p) \in Entries(top.dir) /\ KindOf(top.dir) = "dir"
               /\ Step(top.dir, p).path \in Paths
               /\ Step(top.dir, p).isDir =>
                    /\ KindOf(Step(top.dir, p).path) = "dir" /\ Strictly(Step(top.dir, p).path, p)
                    /\ Step(top.dir, p).path \in Dirs
               /\ ~Step(top.dir, p).isDir => Step(top.dir, p).path = p
    <3> HIDE DEF top
    <3> QED
      BY <2>2, <2>5, WayIs
  <2>6. ASSUME NEW f \in FrameSet, f.dir = top.dir, w.stack = low \o <<f>>, top.todo = <<>>, top.more,
               KindOf(f.dir) = "dir", f = Listed1(r)
        PROVE  AheadIn(w, p)
    <3>1. OnStack(w.stack, p) <=> OnStack(low, p) \/ InFrame(f, p)
      BY <2>1, <2>2, <2>6, OnSwapped
    <3>2. ASSUME InFrame(top, p) PROVE InFrame(f, p)
      <4> DEFINE e == Step(f.dir, p)
      <4>1. Strictly(f.dir, p) /\ e \in Entries(f.dir)
        BY <2>5, <2>6, <3>2 DEF InFrame
      <4>2. f.todo = DaemonEntries(f.dir)
        BY <2>1, <2>6, Listed1Is
      <4>3. \E i \in 1..Len(DaemonEntries(f.dir)) : DaemonEntries(f.dir)[i] = e
        BY <2>2, <2>6, <4>1, DaemonEntriesAre
      <4> QED
        BY <4>1, <4>2, <4>3 DEF InFrame
    <3> QED
      BY <2>3, <3>1, <3>2 DEF AheadIn
  <2>7. CASE w.stack = low /\ top.todo = <<>> /\ ~top.more
    <3>1. ~InFrame(top, p)
      <4>1. Len(top.todo) = 0
        BY <2>7
      <4> QED
        BY <2>7, <4>1 DEF InFrame
    <3> QED
      BY <2>3, <2>7, <3>1 DEF AheadIn
  <2>8. CASE top.todo # <<>>
    <3> DEFINE e == Head(top.todo)
               s == low \o <<Popped(r)>>
    <3>1. \/ w.stack = s \o <<Frame(e.path)>> /\ w.head = None /\ e.path \in Dirs /\ e.isDir
          \/ w.stack = s /\ w.head = e.path /\ ~e.isDir
          \/ w.stack = s /\ ~e.isDir /\ EntryKind(r) \notin {"none", "file"}
      BY <1>2, <2>8 DEF NextOf
    <3>2. /\ Popped(r) \in FrameSet /\ Popped(r).dir = top.dir
          /\ Popped(r).more = top.more /\ Len(Popped(r).todo) = Len(top.todo) - 1
          /\ \A j \in 1..Len(Popped(r).todo) : Popped(r).todo[j] = top.todo[j + 1]
      BY <2>1, <2>8, PoppedIs
    <3>3. e = top.todo[1] /\ Len(top.todo) \in Nat \ {0} /\ e.path # <<>>
      <4>1. e = top.todo[1] /\ e.path \in Paths
        BY <2>1, <2>8, HeadShape
      <4>2. top.todo \in Seq(EntrySet)
        BY <2>2, FrameShape
      <4>3. Len(top.todo) \in Nat \ {0}
        BY <2>8, <4>2
      <4> QED
        BY <4>1, <4>3, PathShape
    <3>4. OnStack(s, p) <=> OnStack(low, p) \/ InFrame(Popped(r), p)
      BY <2>1, <2>2, <3>2, OnSwapped
    <3>5. s \in Seq(FrameSet)
      BY <2>1, <2>2, <3>2, Swapped
    <3>6. e.path \in Dirs => (OnStack(s \o <<Frame(e.path)>>, p) <=> OnStack(s, p) \/ Strictly(e.path, p))
      BY <3>5, OnLonger, InNewFrame, NewFrame
    <3>7. ASSUME InFrame(top, p), ~InFrame(Popped(r), p) PROVE e = Step(top.dir, p) /\ Strictly(top.dir, p)
      <4>1. PICK j \in 1..Len(top.todo) : top.todo[j] = Step(top.dir, p)
        BY <3>2, <3>7 DEF InFrame
      <4>2. CASE j = 1
        BY <3>3, <3>7, <4>1, <4>2 DEF InFrame
      <4>3. CASE j # 1
        <5>1. j - 1 \in 1..Len(Popped(r).todo) /\ (j - 1) + 1 = j
          BY <3>2, <3>3, <4>3
        <5>2. Popped(r).todo[j - 1] = Step(top.dir, p)
          BY <3>2, <4>1, <5>1
        <5> QED
          BY <3>2, <3>7, <5>1, <5>2 DEF InFrame
      <4> QED
        BY <4>2, <4>3
    <3>8. CASE OnStack(s, p)
      BY <3>1, <3>6, <3>8 DEF AheadIn
    <3>9. CASE ~OnStack(s, p)
      <4>1. e = Step(top.dir, p) /\ Strictly(top.dir, p)
        BY <2>3, <3>4, <3>7, <3>9
      <4>2. e.isDir => KindOf(e.path) = "dir" /\ Strictly(e.path, p)
        BY <2>5, <4>1
      <4>3. ~e.isDir => e.path = p
        BY <2>5, <4>1
      <4>4. EntryKind(r) = KindOf(e.path)
        BY DEF EntryKind
      <4>5. e.path \in Dirs => (OnStack(s \o <<Frame(e.path)>>, p) <=> Strictly(e.path, p))
        BY <3>6, <3>9
      <4> HIDE DEF e, s
      <4>6. CASE e.isDir
        <5>1. e.path # p /\ e.isDir /\ e.path \in Dirs
          BY <1>0, <2>5, <4>1, <4>2, <4>6
        <5>2. w.stack = s \o <<Frame(e.path)>>
          BY <3>1, <4>2, <4>4, <4>6
        <5> QED
          BY <4>2, <4>5, <4>6, <5>1, <5>2 DEF AheadIn
      <4>7. CASE ~e.isDir
        <5>1. w.head = p
          BY <1>0, <3>1, <4>3, <4>4, <4>7
        <5> QED
          BY <5>1 DEF AheadIn
      <4> QED
        BY <4>6, <4>7
    <3> QED
      BY <3>8, <3>9
  <2>9. \/ \E f \in FrameSet :
             /\ f.dir = top.dir /\ w.stack = low \o <<f>> /\ top.todo = <<>> /\ top.more
             /\ KindOf(f.dir) = "dir" /\ f = Listed1(r)
        \/ w.stack = low /\ top.todo = <<>> /\ ~top.more
        \/ top.todo # <<>>
    <3> HIDE DEF st, low, top
    <3> QED
      BY <1>2 DEF NextOf, st, low, top
  <2> QED
    BY <2>6, <2>7, <2>8, <2>9
<1> QED
  BY <1>1, <1>2

LEMMA TakenAhead ==
  ASSUME SearchTypes, WalkInv, NEW r \in Roots, Take(r), UNCHANGED search
  PROVE  /\ walks[r].head # None /\ walks[r].began /\ Ahead(r, walks[r].head)
         /\ Roots' = Roots
         /\ \A s \in Roots, p \in Paths :
              Ahead(s, p)' <=> IF s = r THEN OnStack(walks[r].stack, p) ELSE Ahead(s, p)
         /\ \A s \in Roots, p \in Paths : Ahead(s, p)' => Ahead(s, p)
         /\ \A s \in Roots, p \in Paths : Ahead(s, p) /\ p # walks[r].head => Ahead(s, p)'
<1>1. walks[r].head # None /\ walks[r].began
  BY WalkDirs DEF Take
<1>2. \A s \in Roots : /\ walks'[s].stack = walks[s].stack /\ walks'[s].began = walks[s].began
                       /\ walks'[s].head = IF s = r THEN None ELSE walks[s].head
  BY TakenIs
<1>3. ASSUME NEW s \in Roots, NEW p \in Paths
      PROVE  /\ Ahead(s, p)' <=> ~walks[s].began \/ walks'[s].head = p \/ OnStack(walks[s].stack, p)
             /\ Ahead(s, p) <=> ~walks[s].began \/ walks[s].head = p \/ OnStack(walks[s].stack, p)
  <2>1. Ahead(s, p)' <=> ~walks'[s].began \/ walks'[s].head = p \/ OnStack(walks'[s].stack, p)
    BY DEF Ahead, AheadIn, OnStack, InFrame, Strictly, Step
  <2>2. Ahead(s, p) <=> ~walks[s].began \/ walks[s].head = p \/ OnStack(walks[s].stack, p)
    BY DEF Ahead, AheadIn
  <2> QED
    BY <1>2, <2>1, <2>2
<1>4. \A p \in Paths : p # None
  BY PathShape
<1>5. Ahead(r, walks[r].head)
  BY DEF Ahead, AheadIn
<1>6. Roots' = Roots
  BY DEF Roots
<1> QED
  BY <1>1, <1>2, <1>3, <1>4, <1>5, <1>6

\* One unit more, or none because the answer is full.
LEMMA PutOne ==
  ASSUME SearchTypes, Glob, Roots # {}, NEW u \in Unit, Put(<<u>>)
  PROVE  \/ /\ out' = out \o <<u>> /\ UNCHANGED <<truncated, status>> /\ Len(out) < search.limit
         \/ out' = out /\ truncated' = TRUE /\ status' = "ok" /\ Len(out) = search.limit /\ search.limit > 0
<1> DEFINE v == <<u>>
<1>1. v \in Seq(Unit) /\ Len(v) = 1
  OBVIOUS
<1>2. out' = out \o Cut(v) /\ truncated' = (truncated \/ ~Fits(v)) /\ status' = IF Fits(v) THEN status ELSE "ok"
  BY DEF Put
<1>3. out \in Seq(Unit) /\ Len(out) \in Nat /\ search.limit \in Nat /\ search.limit > 0
      /\ Len(out) <= search.limit /\ truncated \in BOOLEAN
  BY Request DEF SearchTypes, Limited
<1>0. v = <<u>>
  OBVIOUS
<1> HIDE DEF v
<1>4. Len(out \o v) = Len(out) + 1 /\ out \o v \in Seq(Unit)
  <2>1. Len(out \o v) = Len(out) + Len(v) /\ out \o v \in Seq(Unit)
    BY <1>1, <1>3, ConcatProperties
  <2> QED
    BY <1>1, <1>3, <2>1
<1>5. CASE Fits(v)
  <2>1. out' = out \o v /\ Len(out \o v) <= search.limit
    BY <1>1, <1>2, <1>3, <1>5, CutIs
  <2>2. Len(out) < search.limit
    BY <1>3, <1>4, <2>1
  <2> QED
    BY <1>0, <1>2, <1>3, <1>5, <2>1, <2>2
<1>6. CASE ~Fits(v)
  <2>1. Len(out \o v) > search.limit /\ out \o Cut(v) = SubSeq(out \o v, 1, search.limit)
    BY <1>1, <1>6, CutIs
  <2>2. Len(out) = search.limit
    BY <1>3, <1>4, <2>1
  <2> DEFINE both == out \o v
             n == Len(out)
             part == SubSeq(both, 1, n)
  <2>3. n \in Nat /\ \A i \in 1..n : both[i] = out[i]
    BY <1>1, <1>3
  <2>4. both \in Seq(Unit) /\ Len(both) = n + 1
    BY <1>4
  <2> HIDE DEF both
  <2>5. part \in Seq(Unit) /\ Len(part) = n /\ \A i \in 1..n : part[i] = both[i]
    BY <2>3, <2>4
  <2> HIDE DEF part
  <2>6. part = out
    BY <1>3, <2>3, <2>5, SameSeq
  <2> QED
    BY <1>2, <1>3, <1>6, <2>1, <2>2, <2>6 DEF part, both
<1> QED
  BY <1>5, <1>6

LEMMA GlobStep ==
  ASSUME SearchTypes, NEW r \in Roots, DaemonGlob(r)
  PROVE  LET path == walks[r].head
             named == Matches(Relative(search.roots[r], path))
         IN  /\ Take(r) /\ Glob /\ UNCHANGED <<search, treeVars, fileVars>> /\ path \in Paths
             /\ \/ UNCHANGED <<out, truncated, status>> /\ ~named
                \/ /\ named
                   /\ out' = out \o <<<<path, 0, TRUE>>>> /\ UNCHANGED <<truncated, status>>
                   /\ Len(out) < search.limit
                \/ /\ named
                   /\ out' = out /\ truncated' = TRUE /\ status' = "ok"
                   /\ Len(out) = search.limit /\ search.limit > 0
<1> DEFINE path == walks[r].head
           named == Matches(Relative(search.roots[r], path))
           u == <<path, 0, TRUE>>
<1>1. Take(r) /\ Glob /\ UNCHANGED <<search, treeVars, fileVars>> /\ Roots # {}
  BY DEF DaemonGlob, List
<1>2. path \in Paths /\ u \in Unit
  <2>1. path \in Paths /\ path \in Name
    BY <1>1, TakenIs
  <2> QED
    <3> HIDE DEF path
    <3>1. 0 \in Int /\ TRUE \in BOOLEAN
      OBVIOUS
    <3> QED
      BY <2>1, <3>1 DEF Unit
<1>3. IF named THEN Put(<<u>>) ELSE UNCHANGED <<out, truncated, status>>
  <2> HIDE DEF named
  <2> QED
    BY DEF DaemonGlob, List, named
<1> HIDE DEF named, u, path
<1>4. CASE named
  <2>1. \/ /\ out' = out \o <<u>> /\ UNCHANGED <<truncated, status>> /\ Len(out) < search.limit
        \/ out' = out /\ truncated' = TRUE /\ status' = "ok" /\ Len(out) = search.limit /\ search.limit > 0
    BY <1>1, <1>2, <1>3, <1>4, PutOne
  <2> QED
    BY <1>1, <1>2, <1>4, <2>1 DEF named, u, path
<1>5. CASE ~named
  BY <1>1, <1>2, <1>3, <1>5 DEF named, u, path
<1> QED
  BY <1>4, <1>5

LEMMA OpenStep ==
  ASSUME SearchTypes, NEW r \in Roots, DaemonOpen(r)
  PROVE  /\ Take(r) /\ ~Glob /\ UNCHANGED <<search, treeVars, out>> /\ walks[r].head \in Paths
         /\ truncated => truncated'
         /\ missed' => missed \/ truncated'
         /\ opened \subseteq opened' /\ status' \in {status, "failed"}
         /\ tree[walks[r].head] = "file" => walks[r].head \in opened'
<1>1. Take(r)
  BY DEF DaemonOpen
<1>2. walks[r].head \in Paths
  BY <1>1, TakenIs
<1> QED
  BY <1>1, <1>2 DEF DaemonOpen, Searched, Binary, TooLarge, Skip

LEMMA FileStep ==
  ASSUME SearchTypes, (\E line \in {"hit", "miss", "long"} : ReadLine(line)) \/ EndFile \/ InputLimit
  PROVE  /\ ~Glob /\ UNCHANGED <<search, treeVars, walks, opened>> /\ status = "running"
         /\ truncated => truncated'
         /\ status' = status \/ (status' = "ok" /\ truncated')
         /\ missed' => missed \/ truncated'
<1>1. ~Glob /\ status = "running" /\ UNCHANGED <<search, treeVars, walks, opened>>
  <2>1. file # NoFile /\ status = "running" /\ UNCHANGED <<search, treeVars, walks, opened>>
    BY DEF ReadLine, EndFile, InputLimit
  <2> QED
    BY <2>1, GrepFile
<1>2. ASSUME NEW units, Put(units)
      PROVE  (truncated => truncated') /\ (status' = status \/ (status' = "ok" /\ truncated'))
  BY <1>2 DEF Put
<1>3. CASE \E line \in {"hit", "miss", "long"} : ReadLine(line)
  <2>1. PICK line \in {"hit", "miss", "long"} : ReadLine(line)
    BY <1>3
  <2>2. missed' = (missed \/ line = "long")
    BY <2>1 DEF ReadLine
  <2>3. CASE ContentLine(line)
    <3>1. truncated' = (truncated \/ ~Fits(Shown(line).units) \/ line = "long")
          /\ (Fits(Shown(line).units) => status' = status)
          /\ (~Fits(Shown(line).units) => status' = "ok")
      BY <2>3 DEF ContentLine
    <3> HIDE DEF Shown
    <3> QED
      BY <1>1, <2>2, <3>1
  <2>4. CASE line = "hit" /\ FirstMatch(line)
    BY <1>1, <1>2, <2>2, <2>4 DEF FirstMatch
  <2>5. CASE CountLine(line)
    BY <1>1, <2>2, <2>5 DEF CountLine
  <2> QED
    BY <2>1, <2>3, <2>4, <2>5 DEF ReadLine
<1>4. CASE EndFile
  BY <1>1, <1>2, <1>4 DEF EndFile
<1>5. CASE InputLimit
  BY <1>1, <1>5 DEF InputLimit
<1> QED
  BY <1>3, <1>4, <1>5

-----------------------------------------------------------------------------
\* Every kind of step.
Quiet == Finish \/ Cancel \/ \E path \in Paths, kind \in Kinds : Change(path, kind)
InFileStep ==
  (\E line \in {"hit", "miss", "long"} : ReadLine(line)) \/ EndFile \/ InputLimit

LEMMA NextIs ==
  ASSUME Next
  PROVE  \/ \E r \in Roots : WalkStep(r)
         \/ \E r \in Roots : DaemonGlob(r)
         \/ \E r \in Roots : DaemonOpen(r)
         \/ InFileStep \/ Quiet
BY DEF Next, WalkStep, InFileStep, Quiet

LEMMA QuietIs ==
  ASSUME Quiet
  PROVE  /\ UNCHANGED <<search, walks, fileVars, out, truncated>> /\ standing' \subseteq standing
         /\ status = "running"
         /\ status' = "ok" => \A r \in Roots : Done(r)
         /\ status' \in {"running", "ok", "canceled"}
<1>1. CASE Finish \/ Cancel
  BY <1>1 DEF Finish, Cancel, treeVars
<1>2. CASE \E path \in Paths, kind \in Kinds : Change(path, kind)
  BY <1>2 DEF Change
<1> QED
  BY <1>1, <1>2 DEF Quiet

LEMMA AheadSame ==
  ASSUME UNCHANGED <<search, walks>>
  PROVE  /\ Roots' = Roots /\ Glob' = Glob
         /\ \A r \in Roots : Done(r)' = Done(r)
         /\ \A p : \A r \in Roots : Ahead(r, p)' <=> Ahead(r, p)
BY DEF Roots, Glob, Done, Ahead, AheadIn, OnStack, InFrame, Strictly, Step

-----------------------------------------------------------------------------
\* Nothing that is there all the time is lost.
LEMMA FoundIs ==
  ASSUME UNCHANGED search
  PROVE  /\ Roots' = Roots /\ Glob' = Glob
         /\ \A path : Matches(path)' <=> Matches(path)
         /\ \A p : \A r \in Roots : Relative(search.roots[r], p)' = Relative(search.roots[r], p)
         /\ \A p : Open(p)' <=> Open(p)
BY DEF Roots, Glob, Matches, DaemonMatches, DaemonMatchSegments, Places, SegmentMatches,
       Relative, Open, ShouldSkip

LEMMA NextFinish ==
  ASSUME SearchTypes, TreeInv, WalkInv, FinishInv, Next
  PROVE  FinishInv'
<1>1. CASE Quiet
  <2>1. UNCHANGED <<search, walks>> /\ UNCHANGED <<truncated, missed>>
        /\ (status' = "ok" => \A r \in Roots : Done(r))
    BY <1>1, QuietIs DEF fileVars
  <2>2. Roots' = Roots /\ \A r \in Roots : Done(r)' = Done(r)
    BY <2>1, AheadSame
  <2> QED
    BY <2>1, <2>2 DEF FinishInv
<1>2. CASE InFileStep
  <2>1. /\ UNCHANGED search /\ (truncated => truncated') /\ status = "running"
        /\ status' = status \/ (status' = "ok" /\ truncated')
        /\ missed' => missed \/ truncated'
    BY <1>2, FileStep DEF InFileStep
  <2>2. Roots' = Roots
    BY <2>1 DEF Roots
  <2> QED
    BY <2>1, <2>2 DEF FinishInv
<1>3. ASSUME NEW r \in Roots, WalkStep(r) PROVE FinishInv'
  <2>1. UNCHANGED <<search, truncated, missed>> /\ status' \in {"failed", "running"}
    <3>1. UNCHANGED <<search, fileVars, truncated>> /\ (status' = "failed" \/ UNCHANGED status)
      BY <1>3, WalkStepIs
    <3>2. status = "running"
      BY <1>3 DEF WalkStep, BeginRoot, ListDirectory, LeaveDirectory, DaemonEntry, AtEntry, Walking
    <3> QED
      BY <3>1, <3>2 DEF fileVars
  <2>2. Roots' = Roots
    BY <2>1 DEF Roots
  <2> QED
    BY <2>1, <2>2 DEF FinishInv
<1>4. ASSUME NEW r \in Roots, DaemonOpen(r) PROVE FinishInv'
  <2>1. /\ UNCHANGED search /\ (truncated => truncated') /\ (missed' => missed \/ truncated')
        /\ status' \in {status, "failed"} /\ status = "running"
    BY <1>4, OpenStep DEF Take
  <2>2. Roots' = Roots
    BY <2>1 DEF Roots
  <2> QED
    BY <2>1, <2>2 DEF FinishInv
<1>5. ASSUME NEW r \in Roots, DaemonGlob(r) PROVE FinishInv'
  <2>1. /\ UNCHANGED <<search, fileVars>> /\ status = "running"
        /\ UNCHANGED <<truncated, status>> \/ (truncated' /\ status' = "ok")
    BY <1>5, GlobStep DEF Take
  <2>2. Roots' = Roots /\ missed' = missed
    BY <2>1 DEF Roots, fileVars
  <2> QED
    BY <2>1, <2>2 DEF FinishInv
<1> QED
  BY <1>1, <1>2, <1>3, <1>4, <1>5, NextIs

LEMMA NextList ==
  ASSUME SearchTypes, TreeInv, WalkInv, ListInv, Next
  PROVE  ListInv'
<1>1. ASSUME UNCHANGED <<search, out, truncated>> PROVE ListInv'
  BY <1>1, FoundIs DEF ListInv
<1>2. CASE Quiet
  BY <1>1, <1>2, QuietIs
<1>3. CASE InFileStep
  BY <1>3, FileStep DEF InFileStep, ListInv, Glob
<1>4. ASSUME NEW r \in Roots, WalkStep(r) PROVE ListInv'
  BY <1>1, <1>4, WalkStepIs
<1>5. ASSUME NEW r \in Roots, DaemonOpen(r) PROVE ListInv'
  BY <1>5, OpenStep DEF ListInv, Glob
<1>6. ASSUME NEW r \in Roots, DaemonGlob(r) PROVE ListInv'
  <2> DEFINE path == walks[r].head
             u == <<path, 0, TRUE>>
             named == Matches(Relative(search.roots[r], path))
  <2>1. Take(r) /\ Glob /\ UNCHANGED search /\ path \in Paths /\ Roots # {}
        /\ out \in Seq(Unit) /\ Len(out) \in Nat
    <3>1. Take(r) /\ Glob /\ UNCHANGED search /\ path \in Paths
      BY <1>6, GlobStep
    <3>2. out \in Seq(Unit)
      BY DEF SearchTypes
    <3> HIDE DEF path
    <3> QED
      BY <3>1, <3>2
  <2>2. CASE UNCHANGED <<out, truncated>>
    BY <1>1, <2>1, <2>2
  <2>3. CASE out' = out /\ truncated' = TRUE /\ Len(out) = search.limit
    BY <2>1, <2>3, FoundIs DEF ListInv
  <2>4. CASE named /\ out' = out \o <<u>> /\ UNCHANGED truncated /\ Len(out) < search.limit
    <3>1. u \in Unit /\ u[1] = path
      <4>1. path \in Name /\ 0 \in Int /\ TRUE \in BOOLEAN
        BY <2>1 DEF Name
      <4> HIDE DEF path
      <4> QED
        BY <4>1 DEF Unit
    <3>2. /\ Len(out') = Len(out) + 1 /\ out'[Len(out) + 1] = u
          /\ \A i \in 1..Len(out) : out'[i] = out[i]
      <4> HIDE DEF u
      <4> QED
        BY <2>1, <2>4, <3>1, Pushed
    <3>3. IsPrefix(search.roots[r], path)
      BY <2>1, TakenAhead DEF WalkInv, Placed
    <3>4. ~truncated
      <4>1. search.limit \in Nat
        BY Request DEF SearchTypes
      <4> QED
        BY <2>1, <2>4, <4>1 DEF ListInv
    <3> HIDE DEF u, path
    <3>5. ASSUME NEW i \in 1..Len(out')
          PROVE  /\ out'[i][1] \in Paths
                 /\ \E s \in Roots : /\ IsPrefix(search.roots[s], out'[i][1])
                                     /\ Matches(Relative(search.roots[s], out'[i][1]))
      <4>1. i \in 1..Len(out) \/ i = Len(out) + 1
        BY <2>1, <3>2
      <4>2. CASE i \in 1..Len(out)
        BY <2>1, <3>2, <4>2 DEF ListInv
      <4>3. CASE i = Len(out) + 1
        BY <2>1, <2>4, <3>1, <3>2, <3>3, <4>3 DEF path
      <4> QED
        BY <4>1, <4>2, <4>3
    <3> QED
      BY <2>1, <2>4, <3>4, <3>5, FoundIs DEF ListInv
  <2>5. \/ UNCHANGED <<out, truncated>>
        \/ out' = out /\ truncated' = TRUE /\ Len(out) = search.limit
        \/ named /\ out' = out \o <<u>> /\ UNCHANGED truncated /\ Len(out) < search.limit
    BY <1>6, GlobStep
  <2> QED
    BY <2>2, <2>3, <2>4, <2>5
<1> QED
  BY <1>2, <1>3, <1>4, <1>5, <1>6, NextIs

LEMMA NextAhead ==
  ASSUME SearchTypes, TreeInv, WalkInv, ListInv, AheadInv, Next
  PROVE  AheadInv'
<1> SUFFICES ASSUME status' \in {"running", "ok"}, NEW p \in standing', NEW s \in Roots',
                    IsPrefix(search'.roots[s], p), Open(p)'
             PROVE  Ahead(s, p)' \/ Passed(s, p)'
  BY DEF AheadInv
<1>1. UNCHANGED search /\ status = "running" /\ p \in standing
  <2>1. CASE Quiet
    BY <2>1, QuietIs
  <2>2. CASE InFileStep
    BY <2>2, FileStep DEF InFileStep, treeVars
  <2>3. ASSUME NEW r \in Roots, WalkStep(r) PROVE UNCHANGED <<search, treeVars>> /\ status = "running"
    <3>1. UNCHANGED <<search, treeVars>>
      BY <2>3, WalkStepIs
    <3>2. status = "running"
      BY <2>3 DEF WalkStep, BeginRoot, ListDirectory, LeaveDirectory, DaemonEntry, AtEntry, Walking
    <3> QED
      BY <3>1, <3>2
  <2>4. ASSUME NEW r \in Roots, DaemonGlob(r) \/ DaemonOpen(r)
        PROVE  UNCHANGED <<search, treeVars>> /\ status = "running"
    BY <2>4, GlobStep, OpenStep DEF Take
  <2> QED
    BY <2>1, <2>2, <2>3, <2>4, NextIs DEF treeVars
<1>2. /\ s \in Roots /\ Open(p) /\ IsPrefix(search.roots[s], p) /\ p \in Paths /\ tree[p] = "file"
      /\ Glob' = Glob
  BY <1>1, FoundIs DEF SearchTypes, TreeInv
<1>3. Ahead(s, p) \/ Passed(s, p)
  BY <1>1, <1>2 DEF AheadInv
<1>4. Passed(s, p)' <=> \/ IF Glob THEN Matches(Relative(search.roots[s], p)) => p \in Listed' ELSE p \in opened'
                        \/ truncated'
  <2>1. Found(s, p)' <=> IF Glob THEN Matches(Relative(search.roots[s], p)) => p \in Listed' ELSE p \in opened'
    BY <1>1, <1>2, FoundIs DEF Found
  <2> QED
    BY <1>2, <2>1 DEF Passed
<1>5. Passed(s, p) <=> \/ IF Glob THEN Matches(Relative(search.roots[s], p)) => p \in Listed ELSE p \in opened
                       \/ truncated
  BY DEF Passed, Found
\* Once it is done with, it stays so.
<1>6. ASSUME Passed(s, p), UNCHANGED out, truncated => truncated', opened \subseteq opened'
      PROVE  Passed(s, p)'
  <2>1. Listed' = Listed
    BY <1>6 DEF Listed
  <2> QED
    BY <1>4, <1>5, <1>6, <2>1
<1>7. CASE Quiet
  <2>1. UNCHANGED <<search, walks, out, truncated>> /\ opened' = opened
    BY <1>7, QuietIs DEF fileVars
  <2> QED
    BY <1>2, <1>3, <1>6, <2>1, AheadSame
<1>8. CASE InFileStep
  <2>1. ~Glob /\ UNCHANGED <<search, walks, opened>> /\ (truncated => truncated')
    BY <1>8, FileStep DEF InFileStep
  <2> QED
    BY <1>2, <1>3, <1>4, <1>5, <2>1, AheadSame
<1>9. ASSUME NEW r \in Roots, WalkStep(r) PROVE Ahead(s, p)' \/ Passed(s, p)'
  <2>1. UNCHANGED <<search, out, truncated, opened>> /\ walks[r].head = None
    BY <1>9, WalkStepIs DEF fileVars
  <2>2. CASE Passed(s, p)
    BY <1>6, <2>1, <2>2
  <2>3. CASE Ahead(s, p)
    <3>1. PICK w \in WalkSet : NextOf(r, w) /\ Advance(r, w)
      BY <1>9, WalkStepIs
    <3>2. Ahead(s, p)' <=> IF s = r THEN AheadIn(w, p) ELSE Ahead(s, p)
      BY <1>2, <3>1, AdvancedAhead
    <3> QED
      BY <1>2, <2>1, <2>3, <3>1, <3>2, AheadStays
  <2> QED
    BY <1>3, <2>2, <2>3
<1>10. ASSUME NEW r \in Roots, DaemonOpen(r) PROVE Ahead(s, p)' \/ Passed(s, p)'
  <2>1. /\ Take(r) /\ ~Glob /\ UNCHANGED <<search, out>> /\ (truncated => truncated') /\ opened \subseteq opened'
        /\ tree[walks[r].head] = "file" => walks[r].head \in opened'
    BY <1>10, OpenStep
  <2>2. Ahead(s, p) /\ p # walks[r].head => Ahead(s, p)'
    BY <1>2, <2>1, TakenAhead
  <2>3. p = walks[r].head => Passed(s, p)'
    BY <1>2, <1>4, <2>1
  <2> QED
    BY <1>3, <1>6, <2>1, <2>2, <2>3
<1>11. ASSUME NEW r \in Roots, DaemonGlob(r) PROVE Ahead(s, p)' \/ Passed(s, p)'
  <2> DEFINE path == walks[r].head
             u == <<path, 0, TRUE>>
             named == Matches(Relative(search.roots[r], path))
  <2>1. Take(r) /\ Glob /\ UNCHANGED <<search, fileVars>> /\ path \in Paths /\ Roots # {}
        /\ out \in Seq(Unit) /\ Len(out) \in Nat /\ DOMAIN out = 1..Len(out)
    <3>1. Take(r) /\ Glob /\ UNCHANGED <<search, fileVars>> /\ path \in Paths
      BY <1>11, GlobStep
    <3>2. out \in Seq(Unit)
      BY DEF SearchTypes
    <3> HIDE DEF path
    <3> QED
      BY <3>1, <3>2
  <2>2. \/ UNCHANGED <<out, truncated, status>> /\ ~named
        \/ /\ named
           /\ out' = out \o <<u>> /\ UNCHANGED <<truncated, status>> /\ Len(out) < search.limit
        \/ /\ named
           /\ out' = out /\ truncated' = TRUE /\ status' = "ok" /\ Len(out) = search.limit /\ search.limit > 0
    BY <1>11, GlobStep
  <2>3. /\ Ahead(s, p) /\ p # path => Ahead(s, p)'
        /\ Ahead(r, path)
    BY <1>2, <2>1, TakenAhead
  <2>4. ASSUME out' = out \o <<u>>, UNCHANGED truncated, Len(out) < search.limit
        PROVE  Listed' = Listed \union {path} /\ ~truncated
    <3>1. u \in Unit /\ u[1] = path
      <4>1. path \in Name /\ 0 \in Int /\ TRUE \in BOOLEAN
        BY <2>1 DEF Name
      <4> HIDE DEF path
      <4> QED
        BY <4>1 DEF Unit
    <3> HIDE DEF u, path
    <3>2. /\ Len(out') = Len(out) + 1 /\ out'[Len(out) + 1] = u
          /\ \A i \in 1..Len(out) : out'[i] = out[i]
          /\ out' \in Seq(Unit)
      BY <2>1, <2>4, <3>1, Pushed
    <3>3. /\ DOMAIN out' = 1..(Len(out) + 1)
          /\ \A i \in 1..(Len(out) + 1) : i \in 1..Len(out) \/ i = Len(out) + 1
          /\ \A i \in 1..Len(out) : i \in 1..(Len(out) + 1)
          /\ Len(out) + 1 \in 1..(Len(out) + 1)
      BY <2>1, <3>2
    <3>4. Listed' = {out'[i][1] : i \in 1..(Len(out) + 1)} /\ Listed = {out[i][1] : i \in 1..Len(out)}
      BY <2>1, <3>3 DEF Listed
    <3>5. Listed' = Listed \union {path}
      BY <3>1, <3>2, <3>3, <3>4
    <3>6. search.limit \in Nat
      BY Request DEF SearchTypes
    <3> QED
      BY <2>1, <2>4, <3>5, <3>6 DEF ListInv
  <2>5. CASE Passed(s, p)
    <3>1. CASE UNCHANGED out /\ (truncated => truncated')
      <4>1. opened' = opened
        BY <2>1 DEF fileVars
      <4> QED
        BY <1>6, <2>5, <3>1, <4>1
    <3>2. CASE out' = out \o <<u>> /\ UNCHANGED truncated /\ Len(out) < search.limit
      BY <1>4, <1>5, <2>1, <2>4, <2>5, <3>2
    <3> HIDE DEF named, u, path
    <3>3. truncated' = TRUE => (truncated => truncated')
      OBVIOUS
    <3> QED
      BY <2>2, <3>1, <3>2, <3>3
  <2>6. CASE Ahead(s, p) /\ p # path
    BY <2>3, <2>6
  <2>7. CASE p = path
    <3>2. CASE Ahead(s, p) /\ s # r
      BY <1>2, <2>1, <3>2, TakenAhead
    <3>3. CASE s = r
      <4>1. CASE UNCHANGED <<out, truncated, status>> /\ ~named
        <5>1. Listed' = Listed
          BY <4>1 DEF Listed
        <5>2. named <=> Matches(Relative(search.roots[s], p))
          BY <2>7, <3>3
        <5> QED
          BY <1>4, <2>1, <2>7, <4>1, <5>1, <5>2
      <4>2. CASE out' = out \o <<u>> /\ UNCHANGED truncated /\ Len(out) < search.limit
        BY <1>4, <2>1, <2>4, <2>7, <4>2
      <4>3. CASE truncated' = TRUE
        BY <1>4, <4>3
      <4> QED
        BY <2>2, <4>1, <4>2, <4>3
    <3> QED
      BY <1>3, <2>5, <3>2, <3>3
  <2> QED
    BY <1>3, <2>5, <2>6, <2>7
<1> QED
  BY <1>7, <1>8, <1>9, <1>10, <1>11, NextIs

-----------------------------------------------------------------------------
\* The beginning, and a search with a child.
LEMMA InitSearch ==
  ASSUME Init
  PROVE  WalkInv /\ AheadInv /\ FinishInv /\ ListInv
<1>1. /\ out = <<>> /\ Len(out) = 0 /\ truncated = FALSE /\ status = "running" /\ missed = FALSE
      /\ walks = [r \in Roots |-> NewWalk]
  BY DEF Init
<1>2. \A r \in Roots : ~walks[r].began /\ walks[r].stack = <<>> /\ walks[r].head = None
  BY <1>1 DEF NewWalk
<1>3. WalkInv
  <2> SUFFICES ASSUME NEW r \in Roots PROVE Placed(r, walks[r])
    BY DEF WalkInv
  <2> DEFINE stack == walks[r].stack
  <2>1. Len(stack) = 0
    BY <1>2
  <2> HIDE DEF stack
  <2>2. \A k \in 1..Len(stack) : FALSE
    BY <2>1
  <2> QED
    BY <1>2, <2>2 DEF Placed, stack
<1>4. AheadInv
  BY <1>2 DEF AheadInv, Ahead, AheadIn
<1>5. FinishInv
  BY <1>1 DEF FinishInv
<1>6. ListInv
  BY <1>1 DEF ListInv
<1> QED
  BY <1>3, <1>4, <1>5, <1>6

LEMMA ChildStepSearch ==
  ASSUME ChildInv, ChildStep
  PROVE  WalkInv' /\ AheadInv' /\ FinishInv' /\ ListInv'
<1>1. UNCHANGED walkVars /\ pc # "walk"
  BY DEF ChildStep, ChildWrites, ChildQuiet, ChildEnds, ReadUnit, ProbeMore, EndOfOutput, ContextEnds,
         PassSignal, KillAfter, ChildReaped, Stay, Reading
<1>2. Roots' = {}
  BY <1>1 DEF ChildInv, Roots, walkVars
<1> QED
  BY <1>2 DEF WalkInv, AheadInv, FinishInv, ListInv

LEMMA StutterSearch ==
  ASSUME WalkInv, AheadInv, FinishInv, ListInv, UNCHANGED vars
  PROVE  WalkInv' /\ AheadInv' /\ FinishInv' /\ ListInv'
<1>1. UNCHANGED <<search, tree, standing, changes, walks, file, linesLeft, opened, want, missed, out, truncated, status>>
  BY DEF vars, treeVars, fileVars
<1>2. WalkInv'
  BY <1>1, SameWalks
<1>3. /\ Roots' = Roots /\ Glob' = Glob /\ Listed' = Listed
      /\ (\A r \in Roots : Done(r)') <=> (\A r \in Roots : Done(r))
      /\ \A p : \A r \in Roots : Relative(search.roots[r], p)' = Relative(search.roots[r], p)
      /\ \A p : Matches(p)' <=> Matches(p)
      /\ \A p : Open(p)' <=> Open(p)
      /\ \A p : \A r \in Roots : Ahead(r, p)' <=> Ahead(r, p)
  BY <1>1, FoundIs, AheadSame DEF Listed
<1>4. \A p : \A r \in Roots : Passed(r, p)' <=> Passed(r, p)
  BY <1>1, <1>3 DEF Passed, Found
<1>5. AheadInv'
  BY <1>1, <1>3, <1>4 DEF AheadInv
<1>6. FinishInv'
  BY <1>1, <1>3 DEF FinishInv
<1>7. ListInv'
  BY <1>1, <1>3 DEF ListInv
<1> QED
  BY <1>2, <1>5, <1>6, <1>7

-----------------------------------------------------------------------------
\* Who has no more to do has no file ahead.
LEMMA DoneAhead ==
  ASSUME SearchTypes, NEW r \in Roots, Done(r), NEW p \in Paths
  PROVE  ~Ahead(r, p)
<1>1. walks[r].began /\ walks[r].stack = <<>> /\ walks[r].head = None /\ p # None
  BY PathShape DEF Done
<1> QED
  BY <1>1, OnNothing DEF Ahead, AheadIn

LEMMA NamedIs ==
  ASSUME SearchTypes, Glob, NEW p \in Paths
  PROVE  /\ Named(p) => \E r \in Roots : /\ IsPrefix(search.roots[r], p)
                                         /\ Matches(Relative(search.roots[r], p))
         /\ \A r \in Roots :
              IsPrefix(search.roots[r], p) /\ Matches(Relative(search.roots[r], p)) => Named(p)
<1>1. search \in Searches
  BY DEF SearchTypes
<1>2. ASSUME Named(p)
      PROVE  \E r \in Roots : IsPrefix(search.roots[r], p) /\ Matches(Relative(search.roots[r], p))
  <2>1. PICK r \in Roots, alternative \in search.pattern :
               /\ IsPrefix(search.roots[r], p)
               /\ LET rel == Relative(search.roots[r], p)
                  IN  Names(alternative, IF Len(alternative) = 1 THEN <<Last(rel)>> ELSE rel)
    BY <1>2 DEF Named
  <2>2. Matches(Relative(search.roots[r], p))
    BY <1>1, <2>1, MatchesIs
  <2> QED
    BY <2>1, <2>2
<1>3. ASSUME NEW r \in Roots, IsPrefix(search.roots[r], p), Matches(Relative(search.roots[r], p))
      PROVE  Named(p)
  BY <1>1, <1>3, MatchesIs DEF Named
<1> QED
  BY <1>2, <1>3

LEMMA HonestAnswerHolds ==
  ASSUME SearchTypes, AheadInv, FinishInv, ListInv
  PROVE  HonestAnswer
<1> SUFFICES ASSUME status = "ok", Roots # {}
             PROVE  /\ ~truncated /\ Glob => \A p \in Sought : Named(p) => p \in Listed
                    /\ ~truncated /\ ~Glob => Sought \subseteq opened
                    /\ missed => truncated
                    /\ Glob => \A p \in Listed : Named(p)
  BY DEF HonestAnswer
<1>1. out \in Seq(Unit) /\ DOMAIN out = 1..Len(out) /\ Len(out) \in Nat
  <2>1. out \in Seq(Unit)
    BY DEF SearchTypes
  <2> QED
    BY <2>1
<1>2. ASSUME NEW p \in Sought
      PROVE  /\ p \in Paths /\ \E r \in Roots : IsPrefix(search.roots[r], p)
             /\ \A r \in Roots : IsPrefix(search.roots[r], p) => Ahead(r, p) \/ Passed(r, p)
  BY DEF Sought, Open, AheadInv, SearchTypes
<1>3. ASSUME ~truncated, NEW p \in Sought, NEW r \in Roots, IsPrefix(search.roots[r], p)
      PROVE  Found(r, p)
  <2>1. ~Ahead(r, p)
    BY <1>2, <1>3, DoneAhead DEF FinishInv
  <2> QED
    BY <1>2, <1>3, <2>1 DEF Passed
<1>4. ASSUME ~truncated, Glob, NEW p \in Sought, Named(p) PROVE p \in Listed
  BY <1>2, <1>3, <1>4, NamedIs DEF Found
<1>5. ASSUME ~truncated, ~Glob PROVE Sought \subseteq opened
  BY <1>2, <1>3, <1>5 DEF Found
<1>6. missed => truncated
  BY DEF FinishInv
<1>7. ASSUME Glob, NEW p \in Listed PROVE Named(p)
  <2>1. PICK i \in 1..Len(out) : p = out[i][1]
    BY <1>1 DEF Listed
  <2>2. /\ out[i][1] \in Paths
        /\ \E r \in Roots : /\ IsPrefix(search.roots[r], out[i][1])
                            /\ Matches(Relative(search.roots[r], out[i][1]))
    BY <1>7 DEF ListInv
  <2> QED
    BY <1>7, <2>1, <2>2, NamedIs
<1> QED
  BY <1>4, <1>5, <1>6, <1>7

\* What always holds of a walk through the tree.
WalkingInv ==
  /\ SearchTypes /\ TreeInv /\ ChildInv /\ WalkInv
  /\ AheadInv /\ FinishInv /\ ListInv

LEMMA WalkingStays == ProcessSpec => []WalkingInv
<1>1. ProcessInit => WalkingInv
  BY InitTypes, InitChild, InitSearch DEF ProcessInit, WalkingInv
<1>2. WalkingInv /\ [ProcessNext]_allVars => WalkingInv'
  <2> SUFFICES ASSUME WalkingInv, [ProcessNext]_allVars PROVE WalkingInv'
    OBVIOUS
  <2>0. /\ SearchTypes /\ TreeInv /\ ChildInv /\ WalkInv
        /\ AheadInv /\ FinishInv /\ ListInv
    BY DEF WalkingInv
  <2>1. CASE Next /\ UNCHANGED processVars
    <3>1. SearchTypes' /\ TreeInv' /\ ChildInv' /\ WalkInv'
      BY <2>0, <2>1, NextTypes, NextChild, NextWalk
    <3>2. AheadInv' /\ FinishInv' /\ ListInv'
      BY <2>0, <2>1, NextAhead, NextFinish, NextList
    <3> QED
      BY <3>1, <3>2 DEF WalkingInv
  <2>2. CASE ChildStep
    <3>1. SearchTypes' /\ TreeInv' /\ ChildInv'
      BY <2>0, <2>2, ChildStepTypes, ChildStepChild
    <3>2. WalkInv' /\ AheadInv' /\ FinishInv' /\ ListInv'
      BY <2>0, <2>2, ChildStepSearch
    <3> QED
      BY <3>1, <3>2 DEF WalkingInv
  <2>3. CASE UNCHANGED allVars
    <3>1. SearchTypes' /\ TreeInv' /\ ChildInv'
      BY <2>0, <2>3, Stutters
    <3>2. UNCHANGED vars
      BY <2>3 DEF allVars
    <3>3. WalkInv' /\ AheadInv' /\ FinishInv' /\ ListInv'
      BY <2>0, <3>2, StutterSearch
    <3> QED
      BY <3>1, <3>3 DEF WalkingInv
  <2> QED
    BY <2>1, <2>2, <2>3 DEF ProcessNext, ChildStep
<1> QED
  BY <1>1, <1>2, PTL DEF ProcessSpec

\* HonestAnswer, for every tree, request and order of the changes that other
\* programs make: a complete answer has every file that was there all the time,
\* and a list of files only those that the pattern names (daemonGlobFallback,
\* daemonGrepFallback).
THEOREM SearchAnswersHonestly == ProcessSpec => []HonestAnswer
<1>1. WalkingInv => HonestAnswer
  BY HonestAnswerHolds DEF WalkingInv
<1> QED
  BY <1>1, WalkingStays, PTL

\* ProcessAnswer, for every child, signal and end of the context.
THEOREM SearchProcessAnswers == ProcessSpec => []ProcessAnswer
<1>1. WalkingInv => ProcessAnswer
  BY DEF WalkingInv, ChildInv, ProcessAnswer
<1> QED
  BY <1>1, WalkingStays, PTL

-----------------------------------------------------------------------------
\* One line more.
LEMMA TextIs ==
  ASSUME NEW lines \in Text
  PROVE  /\ lines \in Seq({"hit", "miss", "long"}) /\ Len(lines) \in Nat
         /\ Hits(lines) \subseteq 0..(Len(lines) - 1)
         /\ \A i \in 0..(Len(lines) - 1) : i \in Hits(lines) <=> lines[i + 1] = "hit"
<1>1. lines \in Seq({"hit", "miss", "long"}) /\ Len(lines) \in Nat
  BY DEF Text
<1> QED
  BY <1>1 DEF Hits

LEMMA LineAdded ==
  ASSUME NEW lines \in Text, NEW line \in {"hit", "miss", "long"}
  PROVE  /\ Append(lines, line) \in Text /\ Len(Append(lines, line)) = Len(lines) + 1
         /\ Append(lines, line)[Len(lines) + 1] = line
         /\ \A k \in 1..Len(lines) : Append(lines, line)[k] = lines[k]
         /\ Hits(Append(lines, line)) = Hits(lines) \union (IF line = "hit" THEN {Len(lines)} ELSE {})
<1> DEFINE n == Len(lines)
           more == Append(lines, line)
<1>1. n \in Nat /\ lines \in Seq({"hit", "miss", "long"})
  BY TextIs
<1>2. /\ more \in Text /\ Len(more) = n + 1 /\ more[n + 1] = line
      /\ \A k \in 1..n : more[k] = lines[k]
  BY <1>1 DEF Text
<1> HIDE DEF more, n
<1>3. \A i \in 0..n : i \in 0..(n - 1) \/ i = n
  BY <1>1
<1>4. \A i \in 0..(n - 1) : i + 1 \in 1..n /\ i \in 0..n
  BY <1>1
<1>5. n \in 0..n /\ n + 1 - 1 = n
  BY <1>1
<1>6. Hits(more) = {i \in 0..n : more[i + 1] = "hit"} /\ Hits(lines) = {i \in 0..(n - 1) : lines[i + 1] = "hit"}
  BY <1>2, <1>5 DEF Hits, n
<1>7. ASSUME NEW i \in Hits(more) PROVE i \in Hits(lines) \/ (line = "hit" /\ i = n)
  BY <1>2, <1>3, <1>4, <1>6
<1>8. Hits(lines) \subseteq Hits(more) /\ (line = "hit" => n \in Hits(more))
  BY <1>2, <1>4, <1>5, <1>6
<1> QED
  BY <1>2, <1>6, <1>7, <1>8 DEF more, n

LEMMA LastHitIs ==
  ASSUME NEW lines \in Text, Hits(lines) # {}
  PROVE  /\ LastHit(lines) \in Hits(lines) /\ \A i \in Hits(lines) : i <= LastHit(lines)
         /\ LastHit(lines) \in 0..(Len(lines) - 1)
         /\ \A h \in Hits(lines) : (\A i \in Hits(lines) : i <= h) => LastHit(lines) = h
<1> DEFINE S == Hits(lines)
           q == Ascending(S)
           m == Len(q)
<1>1. S \in SUBSET Int /\ IsFiniteSet(S) /\ S \subseteq 0..(Len(lines) - 1) /\ S # {}
  BY HitsAre
<1> HIDE DEF S
<1>2. /\ q \in Seq(S) /\ \A i, j \in 1..Len(q) : i < j => q[i] < q[j]
      /\ \A x \in S : \E i \in 1..Len(q) : q[i] = x
  BY <1>1, AscendingIs
<1> HIDE DEF q
<1>3. m \in Nat /\ m \in 1..m /\ \A i \in 1..m : q[i] \in S
  <2>1. m \in Nat /\ \A i \in 1..m : q[i] \in S
    BY <1>2
  <2>2. PICK x \in S : TRUE
    BY <1>1
  <2>3. PICK i \in 1..m : q[i] = x
    BY <1>2
  <2> HIDE DEF m
  <2> QED
    BY <2>1, <2>3
<1>4. q[m] \in S /\ \A x \in S : x <= q[m]
  <2> SUFFICES ASSUME NEW x \in S PROVE x <= q[m]
    BY <1>3
  <2>1. PICK i \in 1..m : q[i] = x
    BY <1>2
  <2>2. q[m] \in Int /\ x \in Int
    BY <1>1, <1>3
  <2>3. i < m \/ i = m
    BY <1>3
  <2> QED
    BY <1>2, <1>3, <2>1, <2>2, <2>3
<1>5. \A h \in S : (\A i \in S : i <= h) => h = q[m]
  <2> SUFFICES ASSUME NEW h \in S, \A i \in S : i <= h PROVE h = q[m]
    OBVIOUS
  <2>1. h \in Int /\ q[m] \in Int
    BY <1>1, <1>4
  <2>2. h <= q[m] /\ q[m] <= h
    BY <1>4
  <2> QED
    BY <2>1, <2>2
<1>6. LastHit(lines) = CHOOSE h \in S : \A i \in S : i <= h
  BY DEF LastHit, S
<1>7. LastHit(lines) = q[m]
  BY <1>4, <1>5, <1>6
<1> QED
  BY <1>1, <1>4, <1>5, <1>7 DEF S

\* Which lines are shown.
LEMMA ShownIs ==
  ASSUME NEW lines \in Text, search.before \in Nat, search.after \in Nat
  PROVE  /\ Len(lines) \in Nat /\ ShownTo(lines) \in -1..(Len(lines) - 1)
         /\ Visible(lines) \subseteq 0..ShownTo(lines)
         /\ Hits(lines) = {} => ShownTo(lines) = -1 /\ Visible(lines) = {}
         /\ Hits(lines) # {} =>
              /\ ShownTo(lines) \in Visible(lines)
              /\ LastHit(lines) \in 0..ShownTo(lines)
              /\ \A i \in 0..ShownTo(lines) : LastHit(lines) - search.before <= i => i \in Visible(lines)
              /\ LastHit(lines) + search.after < Len(lines) => ShownTo(lines) = LastHit(lines) + search.after
              /\ LastHit(lines) + search.after >= Len(lines) => ShownTo(lines) = Len(lines) - 1
         /\ \A i \in Hits(lines) : i <= ShownTo(lines)
<1> DEFINE n == Len(lines)
           b == search.before
           a == search.after
           H == Hits(lines)
           s == ShownTo(lines)
           h == LastHit(lines)
<1>1. n \in Nat /\ H \subseteq 0..(n - 1)
  BY TextIs
<1>2. \A i \in 0..(n - 1) : i \in Visible(lines) <=> \E k \in H : k - b <= i /\ i <= k + a
  BY DEF Visible, Window
<1>3. Visible(lines) \subseteq 0..(n - 1)
  BY DEF Visible
<1>4. CASE H = {}
  <2>1. s = -1
    BY <1>4 DEF ShownTo
  <2>2. Visible(lines) = {}
    BY <1>2, <1>3, <1>4
  <2> QED
    BY <1>1, <1>4, <2>1, <2>2
<1>5. CASE H # {}
  <2>1. h \in H /\ h \in 0..(n - 1) /\ \A i \in H : i <= h
    BY <1>5, LastHitIs
  <2>2. s = IF h + a < n - 1 THEN h + a ELSE n - 1
    BY <1>5 DEF ShownTo, Low
  <2> HIDE DEF n, b, a, H, s, h
  <2>3. b \in Nat /\ a \in Nat
    BY DEF a, b
  <2>4. /\ s \in 0..(n - 1) /\ h \in 0..s /\ s <= h + a
        /\ h + a < n => s = h + a
        /\ h + a >= n => s = n - 1
    BY <1>1, <2>1, <2>2, <2>3
  <2>5. ASSUME NEW i \in Visible(lines) PROVE i \in 0..s
    <3>1. i \in 0..(n - 1)
      BY <1>3
    <3>2. PICK k \in H : k - b <= i /\ i <= k + a
      BY <1>2, <3>1
    <3>3. k \in 0..(n - 1) /\ k <= h
      BY <1>1, <2>1
    <3> QED
      BY <1>1, <2>1, <2>2, <2>3, <3>1, <3>2, <3>3
  <2>6. ASSUME NEW i \in 0..s, h - b <= i PROVE i \in Visible(lines)
    <3>1. i \in 0..(n - 1) /\ i <= h + a
      BY <1>1, <2>1, <2>3, <2>4
    <3> QED
      BY <1>2, <2>1, <2>6, <3>1
  <2>7. s \in 0..s /\ h - b <= s
    BY <1>1, <2>1, <2>3, <2>4
  <2>8. \A i \in H : i <= s
    BY <1>1, <2>1, <2>4
  <2>9. s \in Visible(lines)
    BY <2>6, <2>7
  <2> QED
    BY <1>1, <1>5, <2>4, <2>5, <2>6, <2>8, <2>9 DEF n, b, a, H, s, h
<1> QED
  BY <1>4, <1>5

\* A line without a match is shown when it is near enough to the last match.
LEMMA MissAdded ==
  ASSUME NEW lines \in Text, search.before \in Nat, search.after \in Nat
  PROVE  LET n == Len(lines)
             more == Append(lines, "miss")
             shown == Hits(lines) # {} /\ n <= LastHit(lines) + search.after
         IN  /\ Hits(more) = Hits(lines) /\ LastHit(more) = LastHit(lines)
             /\ ShownTo(more) = IF shown THEN n ELSE ShownTo(lines)
             /\ Slots(more) = Slots(lines) \union (IF shown THEN {2 * n + 1} ELSE {})
<1> DEFINE n == Len(lines)
           more == Append(lines, "miss")
           b == search.before
           a == search.after
           H == Hits(lines)
           s == ShownTo(lines)
           h == LastHit(lines)
           shown == H # {} /\ n <= h + a
<1>1. more \in Text /\ Len(more) = n + 1 /\ Hits(more) = H /\ n \in Nat
  BY LineAdded, TextIs
<1>2. LastHit(more) = h
  BY <1>1 DEF LastHit
<1> HIDE DEF more
<1>3. /\ s \in -1..(n - 1) /\ Visible(lines) \subseteq 0..s
      /\ H = {} => s = -1 /\ Visible(lines) = {}
      /\ H # {} => s \in Visible(lines) /\ h \in 0..s /\ (h + a < n => s = h + a) /\ (h + a >= n => s = n - 1)
  BY ShownIs
<1>4. ShownTo(more) = IF H = {} THEN -1 ELSE IF h + a < n THEN h + a ELSE n
  BY <1>1, <1>2 DEF ShownTo, Low
<1>5. \A i \in 0..(n - 1) : i \in Visible(lines) <=> \E k \in H : k - b <= i /\ i <= k + a
  BY DEF Visible, Window
<1>6. /\ \A i \in 0..n : i \in Visible(more) <=> \E k \in H : k - b <= i /\ i <= k + a
      /\ Visible(more) \subseteq 0..n
  BY <1>1 DEF Visible, Window
<1>7. Gaps(more) = {i \in Visible(more) : i - 1 \notin Visible(more) /\ \E j \in Visible(more) : j < i}
  BY DEF Gaps
<1>8. Gaps(lines) = {i \in Visible(lines) : i - 1 \notin Visible(lines) /\ \E j \in Visible(lines) : j < i}
  BY DEF Gaps
<1>9. /\ Slots(more) = {2 * i + 1 : i \in Visible(more)} \union {2 * i : i \in Gaps(more)}
      /\ Slots(lines) = {2 * i + 1 : i \in Visible(lines)} \union {2 * i : i \in Gaps(lines)}
  BY DEF Slots
<1>10. b \in Nat /\ a \in Nat /\ H \subseteq 0..(n - 1) /\ (H # {} => h \in H /\ \A i \in H : i <= h)
  BY LastHitIs, TextIs
<1> HIDE DEF n, b, a, H, s, h
<1>11. n \in Visible(more) <=> shown
  <2>1. ASSUME n \in Visible(more) PROVE shown
    <3>1. PICK k \in H : k - b <= n /\ n <= k + a
      BY <1>1, <1>6, <2>1
    <3>2. k \in 0..(n - 1) /\ k <= h /\ h \in 0..(n - 1)
      BY <1>10
    <3> QED
      BY <1>1, <1>10, <3>1, <3>2
  <2>2. ASSUME shown PROVE n \in Visible(more)
    <3>1. h \in H /\ h \in 0..(n - 1)
      BY <1>10, <2>2
    <3>2. h - b <= n /\ n <= h + a /\ n \in 0..n
      BY <1>1, <1>10, <2>2, <3>1
    <3> QED
      BY <1>6, <3>1, <3>2
  <2> QED
    BY <2>1, <2>2
<1>12. ASSUME NEW i \in 0..(n - 1) PROVE i \in Visible(more) <=> i \in Visible(lines)
  BY <1>1, <1>5, <1>6
<1>13. Visible(more) = Visible(lines) \union (IF shown THEN {n} ELSE {})
  <2>1. \A i \in 0..n : i \in 0..(n - 1) \/ i = n
    BY <1>1
  <2>2. Visible(lines) \subseteq 0..(n - 1) /\ n \notin Visible(lines)
    BY <1>1, <1>3
  <2> QED
    BY <1>6, <1>11, <1>12, <2>1, <2>2
<1>14. Gaps(more) = Gaps(lines)
  <2>1. shown => n - 1 \in Visible(lines)
    <3>1. ASSUME shown PROVE s = n - 1 /\ s \in Visible(lines)
      <4>1. h \in 0..(n - 1)
        BY <1>10, <3>1
      <4> QED
        BY <1>1, <1>3, <1>10, <3>1, <4>1
    <3> QED
      BY <3>1
  <2>2. Visible(lines) \subseteq 0..(n - 1)
    BY <1>1, <1>3
  <2>3. ASSUME NEW i \in 0..(n - 1) PROVE i - 1 # n /\ i # n /\ ~(n < i)
    BY <1>1
  <2>4. ASSUME NEW i \in Visible(lines) PROVE i \in Gaps(more) <=> i \in Gaps(lines)
    <3>1. i \in 0..(n - 1) /\ i \in Visible(more)
      BY <1>13, <2>2
    <3>2. i - 1 \in Visible(more) <=> i - 1 \in Visible(lines)
      BY <1>13, <2>3, <3>1
    <3>3. (\E j \in Visible(more) : j < i) <=> \E j \in Visible(lines) : j < i
      BY <1>13, <2>3, <3>1
    <3> QED
      BY <1>7, <1>8, <3>1, <3>2, <3>3
  <2>5. n \notin Gaps(more)
    BY <1>7, <1>11, <1>13, <2>1
  <2> QED
    BY <1>7, <1>8, <1>13, <2>4, <2>5
<1>15. Slots(more) = Slots(lines) \union (IF shown THEN {2 * n + 1} ELSE {})
  BY <1>9, <1>13, <1>14
<1>16. ShownTo(more) = IF shown THEN n ELSE s
  <2>1. CASE H = {}
    BY <1>3, <1>4, <2>1
  <2>2. CASE H # {}
    <3>1. h \in 0..(n - 1)
      BY <1>10, <2>2
    <3> QED
      BY <1>1, <1>3, <1>4, <1>10, <2>2, <3>1
  <2> QED
    BY <2>1, <2>2
<1> QED
  BY <1>1, <1>2, <1>15, <1>16 DEF n, b, a, H, s, h, more

\* A match shows the lines before it that are not shown already.
From(lines) ==
  LET n == Len(lines)  next == ShownTo(lines) + 1
  IN  IF n - search.before > next THEN n - search.before ELSE next
Apart(lines) == Hits(lines) # {} /\ From(lines) > ShownTo(lines) + 1

LEMMA HitAdded ==
  ASSUME NEW lines \in Text, search.before \in Nat, search.after \in Nat
  PROVE  LET n == Len(lines)
             more == Append(lines, "hit")
             f == From(lines)
         IN  /\ f \in 0..n /\ Hits(more) = Hits(lines) \union {n} /\ LastHit(more) = n
             /\ ShownTo(more) = n
             /\ \A i \in Hits(lines) : i < f
             /\ \A x \in Slots(lines) : x < 2 * f
             /\ Slots(more) = Slots(lines) \union {2 * i + 1 : i \in f..n}
                                \union (IF Apart(lines) THEN {2 * f} ELSE {})
<1> DEFINE n == Len(lines)
           more == Append(lines, "hit")
           b == search.before
           a == search.after
           H == Hits(lines)
           s == ShownTo(lines)
           h == LastHit(lines)
           f == From(lines)
<1>1. more \in Text /\ Len(more) = n + 1 /\ Hits(more) = H \union {n} /\ n \in Nat
  BY LineAdded, TextIs
<1>2. LastHit(more) = n
  <2>1. n \in Hits(more) /\ \A i \in Hits(more) : i <= n
    BY <1>1, TextIs
  <2> QED
    BY <1>1, <2>1, LastHitIs
<1> HIDE DEF more
<1>3. /\ s \in -1..(n - 1) /\ Visible(lines) \subseteq 0..s
      /\ H = {} => s = -1 /\ Visible(lines) = {}
      /\ H # {} => /\ s \in Visible(lines) /\ h \in 0..s
                   /\ \A i \in 0..s : h - b <= i => i \in Visible(lines)
      /\ \A i \in H : i <= s
  BY ShownIs
<1>4. ShownTo(more) = IF n + a < n THEN n + a ELSE n
  BY <1>1, <1>2 DEF ShownTo, Low
<1>5. \A i \in 0..(n - 1) : i \in Visible(lines) <=> \E k \in H : k - b <= i /\ i <= k + a
  BY DEF Visible, Window
<1>6. /\ \A i \in 0..n : i \in Visible(more) <=> \E k \in H \union {n} : k - b <= i /\ i <= k + a
      /\ Visible(more) \subseteq 0..n
  BY <1>1 DEF Visible, Window
<1>7. Gaps(more) = {i \in Visible(more) : i - 1 \notin Visible(more) /\ \E j \in Visible(more) : j < i}
  BY DEF Gaps
<1>8. Gaps(lines) = {i \in Visible(lines) : i - 1 \notin Visible(lines) /\ \E j \in Visible(lines) : j < i}
  BY DEF Gaps
<1>9. /\ Slots(more) = {2 * i + 1 : i \in Visible(more)} \union {2 * i : i \in Gaps(more)}
      /\ Slots(lines) = {2 * i + 1 : i \in Visible(lines)} \union {2 * i : i \in Gaps(lines)}
  BY DEF Slots
<1>10. b \in Nat /\ a \in Nat /\ H \subseteq 0..(n - 1)
  BY TextIs
<1>11. f = IF n - b > s + 1 THEN n - b ELSE s + 1
  BY DEF From
<1>12. Apart(lines) <=> H # {} /\ f > s + 1
  BY DEF Apart
<1> HIDE DEF n, b, a, H, s, h, f
<1>13. f \in 0..n /\ s < f /\ n - b <= f
  BY <1>1, <1>3, <1>10, <1>11
<1>14. ShownTo(more) = n
  BY <1>1, <1>4, <1>10
<1>15. Visible(more) = Visible(lines) \union f..n
  <2>1. ASSUME NEW i \in f..n PROVE i \in Visible(more)
    <3>1. i \in 0..n /\ n - b <= i /\ i <= n + a
      BY <1>1, <1>10, <1>13
    <3> QED
      BY <1>6, <3>1
  <2>2. ASSUME NEW i \in Visible(lines) PROVE i \in Visible(more)
    <3>1. i \in 0..(n - 1) /\ i \in 0..n
      BY <1>1, <1>3
    <3> QED
      BY <1>5, <1>6, <3>1
  <2>3. ASSUME NEW i \in Visible(more), i \notin f..n PROVE i \in Visible(lines)
    <3>1. i \in 0..n /\ i < f /\ i \in 0..(n - 1)
      BY <1>1, <1>6, <1>13, <2>3
    <3>2. PICK k \in H \union {n} : k - b <= i /\ i <= k + a
      BY <1>6, <3>1
    <3>3. CASE k \in H
      BY <1>5, <3>1, <3>2, <3>3
    <3>4. CASE k = n
      <4>1. n - b <= i
        BY <3>2, <3>4
      <4>2. i \in 0..s
        BY <1>1, <1>3, <1>10, <1>11, <3>1, <4>1
      <4>3. H # {}
        BY <1>3, <4>2
      <4>4. h - b <= i
        BY <1>1, <1>3, <1>10, <3>1, <4>1, <4>3
      <4> QED
        BY <1>3, <4>2, <4>3, <4>4
    <3> QED
      BY <3>2, <3>3, <3>4
  <2> QED
    BY <2>1, <2>2, <2>3
<1>16. Gaps(more) = Gaps(lines) \union (IF Apart(lines) THEN {f} ELSE {})
  <2>1. ASSUME NEW i \in Visible(lines) PROVE i \in Gaps(more) <=> i \in Gaps(lines)
    <3>1. i \in 0..s /\ i < f /\ i - 1 < f
      BY <1>1, <1>3, <1>13
    <3>2. i - 1 \in Visible(more) <=> i - 1 \in Visible(lines)
      BY <1>13, <1>15, <3>1
    <3>3. (\E j \in Visible(more) : j < i) <=> \E j \in Visible(lines) : j < i
      <4>1. \A j \in f..n : ~(j < i)
        BY <1>1, <1>13, <3>1
      <4> QED
        BY <1>15, <4>1
    <3> QED
      BY <1>7, <1>8, <1>15, <3>2, <3>3
  <2>2. ASSUME NEW i \in f..n, i # f PROVE i \notin Gaps(more)
    <3>1. i - 1 \in f..n
      BY <1>1, <1>13, <2>2
    <3> QED
      BY <1>7, <1>15, <3>1
  <2>3. f \in Visible(more) /\ f - 1 \notin f..n /\ \A j \in f..n : ~(j < f)
    BY <1>1, <1>13, <1>15
  <2>4. f \in Gaps(more) <=> f - 1 \notin Visible(lines) /\ \E j \in Visible(lines) : j < f
    BY <1>7, <1>15, <2>3
  <2>5. \A j \in Visible(lines) : j < f
    BY <1>1, <1>3, <1>13
  <2>6. CASE Apart(lines)
    <3>1. f - 1 \notin 0..s /\ s \in Visible(lines)
      BY <1>1, <1>3, <1>12, <1>13, <2>6
    <3>2. f \in Gaps(more)
      BY <1>3, <2>4, <2>5, <3>1
    <3>3. Gaps(lines) \subseteq Visible(lines) /\ Gaps(more) \subseteq Visible(lines) \union f..n
      BY <1>7, <1>8, <1>15
    <3> QED
      BY <2>1, <2>2, <2>6, <3>2, <3>3
  <2>7. CASE ~Apart(lines)
    <3>1. f \notin Gaps(more)
      <4>1. CASE H = {}
        BY <1>3, <2>4, <4>1
      <4>2. CASE H # {}
        <5>1. f - 1 = s
          BY <1>1, <1>3, <1>11, <1>12, <1>13, <2>7, <4>2
        <5> QED
          BY <1>3, <2>4, <4>2, <5>1
      <4> QED
        BY <4>1, <4>2
    <3>3. Gaps(lines) \subseteq Visible(lines) /\ Gaps(more) \subseteq Visible(lines) \union f..n
      BY <1>7, <1>8, <1>15
    <3> QED
      BY <2>1, <2>2, <2>7, <3>1, <3>3
  <2> QED
    BY <2>6, <2>7
<1>17. Slots(more) = Slots(lines) \union {2 * i + 1 : i \in f..n} \union (IF Apart(lines) THEN {2 * f} ELSE {})
  BY <1>9, <1>15, <1>16
<1>18. \A x \in Slots(lines) : x < 2 * f
  <2>1. Gaps(lines) \subseteq Visible(lines) /\ \A i \in Visible(lines) : i \in Int /\ i < f
    BY <1>1, <1>3, <1>8, <1>13
  <2> QED
    BY <1>9, <1>13, <2>1
<1>19. \A i \in H : i < f
  BY <1>1, <1>3, <1>10, <1>13
<1> QED
  BY <1>1, <1>2, <1>13, <1>14, <1>17, <1>18, <1>19 DEF n, b, a, H, s, h, f, more

\* What is shown of more lines begins with what is shown of the first.
LEMMA RenderGrows ==
  ASSUME NEW path \in Name, NEW lines \in Text, NEW more \in Text,
         NEW q \in Seq(Int), \A i, j \in 1..Len(q) : i < j => q[i] < q[j],
         \A k \in 1..Len(q) : \A x \in Slots(lines) : x < q[k],
         Slots(more) = Slots(lines) \union {q[k] : k \in 1..Len(q)},
         \A x \in Slots(lines) : SlotUnit(path, more, x) = SlotUnit(path, lines, x),
         NEW units \in Seq(Unit), Len(units) = Len(q),
         \A k \in 1..Len(q) : units[k] = SlotUnit(path, more, q[k])
  PROVE  Render(path, more) = Render(path, lines) \o units
<1> DEFINE S == Slots(lines)
           T == Slots(more)
           p == Ascending(S)
           r == p \o q
           m == Len(p)
           l == Len(q)
<1>1. S \in SUBSET Int /\ IsFiniteSet(S) /\ T \in SUBSET Int /\ IsFiniteSet(T)
  BY SlotsAre
<1> HIDE DEF S, T
<1>2. /\ p \in Seq(S) /\ \A i, j \in 1..Len(p) : i < j => p[i] < p[j]
      /\ \A x \in S : \E i \in 1..Len(p) : p[i] = x
  BY <1>1, AscendingIs
<1> HIDE DEF p
<1>3. m \in Nat /\ l \in Nat /\ \A i \in 1..m : p[i] \in S
  BY <1>2
<1>4. p \in Seq(Int) /\ p \in Seq(T) /\ q \in Seq(T)
  <2>1. S \subseteq T /\ \A k \in 1..Len(q) : q[k] \in T
    BY DEF S, T
  <2>2. p \in Seq(Int) /\ p \in Seq(T)
    BY <1>1, <1>2, <2>1, SeqMonotonic
  <2>3. q \in [1..Len(q) -> T] /\ Len(q) \in Nat
    BY <2>1
  <2>4. q \in Seq(T)
    BY <2>3, SeqDef
  <2> QED
    BY <2>2, <2>4
<1>5. /\ r \in Seq(T) /\ Len(r) = m + l
      /\ \A i \in 1..(m + l) : r[i] = IF i <= m THEN p[i] ELSE q[i - m]
  BY <1>4, ConcatProperties
<1> HIDE DEF r
<1>6. \A i \in 1..(m + l) : /\ i <= m => i \in 1..m /\ r[i] = p[i]
                            /\ ~(i <= m) => i - m \in 1..l /\ r[i] = q[i - m]
  BY <1>3, <1>5
<1>7. ASSUME NEW i \in 1..(m + l), NEW j \in 1..(m + l), i < j PROVE r[i] < r[j]
  <2>1. CASE j <= m
    <3>1. i <= m
      BY <1>3, <1>7, <2>1
    <3> QED
      BY <1>2, <1>6, <1>7, <2>1, <3>1
  <2>2. CASE i <= m /\ ~(j <= m)
    BY <1>3, <1>6, <2>2 DEF S
  <2>3. CASE ~(i <= m) /\ ~(j <= m)
    <3>1. i - m < j - m
      BY <1>3, <1>7
    <3> QED
      BY <1>6, <2>3, <3>1
  <2> QED
    BY <1>3, <1>7, <2>1, <2>2, <2>3
<1>8. ASSUME NEW x \in T PROVE \E i \in 1..(m + l) : r[i] = x
  <2>1. CASE x \in S
    <3>1. PICK i \in 1..m : p[i] = x
      BY <1>2, <2>1
    <3>2. i \in 1..(m + l) /\ i <= m
      BY <1>3
    <3> QED
      BY <1>6, <3>1, <3>2
  <2>2. CASE x \notin S
    <3>1. PICK k \in 1..l : q[k] = x
      BY <2>2 DEF S, T
    <3>2. k + m \in 1..(m + l) /\ ~(k + m <= m) /\ (k + m) - m = k
      BY <1>3
    <3> QED
      BY <1>6, <3>1, <3>2
  <2> QED
    BY <2>1, <2>2
<1>9. r = Ascending(T)
  <2>1. /\ \A i, j \in 1..Len(r) : i < j => r[i] < r[j]
        /\ \A x \in T : \E i \in 1..Len(r) : r[i] = x
    <3> HIDE DEF m, l
    <3> QED
      BY <1>5, <1>7, <1>8
  <2> QED
    BY <1>1, <1>5, <2>1, AscendingIsOnly
<1>10. /\ Render(path, more) \in Seq(Unit) /\ Len(Render(path, more)) = m + l
       /\ \A k \in 1..(m + l) : Render(path, more)[k] = SlotUnit(path, more, r[k])
  <2>1. /\ Render(path, more) \in Seq(Unit) /\ Len(Render(path, more)) = Len(Ascending(T))
        /\ \A k \in 1..Len(Ascending(T)) : Render(path, more)[k] = SlotUnit(path, more, Ascending(T)[k])
    BY RenderIs DEF T
  <2> QED
    BY <1>5, <1>9, <2>1
<1>11. /\ Render(path, lines) \in Seq(Unit) /\ Len(Render(path, lines)) = m
       /\ \A k \in 1..m : Render(path, lines)[k] = SlotUnit(path, lines, p[k])
  BY RenderIs DEF p, S
<1> DEFINE old == Render(path, lines)
           new == Render(path, more)
           both == old \o units
<1> HIDE DEF old, new
<1>12. /\ both \in Seq(Unit) /\ Len(both) = Len(old) + Len(units)
       /\ \A i \in 1..(Len(old) + Len(units)) : both[i] = IF i <= Len(old) THEN old[i] ELSE units[i - Len(old)]
  BY <1>11, ConcatProperties, ZenonT(60) DEF old
<1> HIDE DEF both
<1>13. Len(both) = m + l /\ \A i \in 1..(m + l) : both[i] = IF i <= m THEN old[i] ELSE units[i - m]
  BY <1>11, <1>12 DEF old
<1>14. ASSUME NEW i \in 1..(m + l) PROVE new[i] = both[i]
  <2>1. CASE i <= m
    <3>1. i \in 1..m /\ r[i] = p[i] /\ p[i] \in S
      BY <1>3, <1>6, <2>1
    <3>2. SlotUnit(path, more, p[i]) = SlotUnit(path, lines, p[i])
      BY <3>1 DEF S
    <3> QED
      BY <1>10, <1>11, <1>13, <2>1, <3>1, <3>2 DEF old, new
  <2>2. CASE ~(i <= m)
    BY <1>6, <1>10, <1>13, <2>2 DEF new
  <2> QED
    BY <2>1, <2>2
<1>15. new = both
  BY <1>10, <1>12, <1>13, <1>14, SameSeq DEF new
<1> QED
  BY <1>15 DEF new, both, old

-----------------------------------------------------------------------------
\* What one line adds to what is shown.
LEMMA SlotIs ==
  ASSUME NEW path, NEW lines, NEW i \in Int
  PROVE  /\ SlotUnit(path, lines, 2 * i) = Separator
         /\ SlotUnit(path, lines, 2 * i + 1) = <<path, i, i \in Hits(lines)>>
<1>1. (2 * i) % 2 = 0 /\ (2 * i + 1) % 2 # 0 /\ (2 * i + 1 - 1) \div 2 = i
  OBVIOUS
<1> QED
  BY <1>1 DEF SlotUnit

LEMMA OldSlots ==
  ASSUME NEW path, NEW lines \in Text, NEW more, Hits(more) \ {Len(lines)} = Hits(lines), NEW x \in Slots(lines)
  PROVE  SlotUnit(path, more, x) = SlotUnit(path, lines, x)
<1>1. Len(lines) \in Nat /\ Visible(lines) \subseteq 0..(Len(lines) - 1) /\ Gaps(lines) \subseteq Visible(lines)
  BY TextIs DEF Visible, Gaps
<1>2. CASE \E i \in Visible(lines) : x = 2 * i + 1
  <2>1. PICK i \in Visible(lines) : x = 2 * i + 1
    BY <1>2
  <2>2. i \in Int /\ i # Len(lines)
    BY <1>1
  <2>3. i \in Hits(more) <=> i \in Hits(lines)
    BY <2>2
  <2> QED
    BY <2>1, <2>2, <2>3, SlotIs
<1>3. CASE \E i \in Gaps(lines) : x = 2 * i
  <2>1. PICK i \in Gaps(lines) : x = 2 * i
    BY <1>3
  <2>2. i \in Int
    BY <1>1
  <2> QED
    BY <2>1, <2>2, SlotIs
<1> QED
  BY <1>2, <1>3 DEF Slots

LEMMA MissRendered ==
  ASSUME NEW path \in Name, NEW lines \in Text, search.before \in Nat, search.after \in Nat,
         NEW shown, shown = (Hits(lines) # {} /\ Len(lines) <= LastHit(lines) + search.after)
  PROVE  Render(path, Append(lines, "miss")) = Render(path, lines) \o Opt(shown, <<path, Len(lines), FALSE>>)
<1> DEFINE n == Len(lines)
           more == Append(lines, "miss")
           u == <<path, n, FALSE>>
           units == Opt(shown, u)
           x == 2 * n + 1
           q == IF shown THEN <<x>> ELSE <<>>
<1>1. /\ n \in Nat /\ Hits(more) = Hits(lines) /\ Hits(lines) \subseteq 0..(n - 1) /\ more \in Text
      /\ Slots(more) = Slots(lines) \union (IF shown THEN {x} ELSE {})
  BY MissAdded, TextIs, LineAdded
<1>2. n \notin Hits(lines)
  BY <1>1
<1>3. u \in Unit /\ SlotUnit(path, more, x) = u
  <2> HIDE DEF more
  <2>1. SlotUnit(path, more, x) = <<path, n, n \in Hits(more)>>
    BY <1>1, SlotIs
  <2>2. (n \in Hits(more)) = FALSE
    BY <1>1, <1>2
  <2>3. n \in Int /\ FALSE \in BOOLEAN
    BY <1>1
  <2> HIDE DEF n
  <2> QED
    BY <2>1, <2>2, <2>3, UnitIs
<1>4. \A y \in Slots(lines) : y < x /\ SlotUnit(path, more, y) = SlotUnit(path, lines, y)
  <2>1. \A y \in Slots(lines) : y < x
    <3>1. Slots(lines) \in SUBSET (0..(2 * n))
      BY SlotsAre
    <3> QED
      BY <1>1, <3>1
  <2>2. Hits(more) \ {n} = Hits(lines)
    BY <1>1, <1>2
  <2> QED
    BY <2>1, <2>2, OldSlots
<1>5. x \in Int
  BY <1>1
<1> HIDE DEF u, x, more
<1>6. CASE shown
  <2>1. q \in Seq(Int) /\ Len(q) = 1 /\ q[1] = x /\ units \in Seq(Unit) /\ Len(units) = 1 /\ units[1] = u
    BY <1>3, <1>5, <1>6 DEF Opt
  <2> HIDE DEF q, units
  <2>2. \A k \in 1..Len(q) : k = 1
    BY <2>1
  <2>3. Slots(more) = Slots(lines) \union {q[k] : k \in 1..Len(q)}
    <3>1. {q[k] : k \in 1..Len(q)} = {x}
      BY <2>1, <2>2
    <3> QED
      BY <1>1, <1>6, <3>1
  <2>4. /\ \A i, j \in 1..Len(q) : i < j => q[i] < q[j]
        /\ \A k \in 1..Len(q) : \A y \in Slots(lines) : y < q[k]
        /\ \A k \in 1..Len(q) : units[k] = SlotUnit(path, more, q[k])
        /\ Len(units) = Len(q)
    BY <1>3, <1>4, <2>1, <2>2
  <2>5. Render(path, more) = Render(path, lines) \o units
    BY <1>1, <1>4, <2>1, <2>3, <2>4, RenderGrows, ZenonT(60)
  <2> QED
    BY <2>5 DEF units, u, more
<1>7. CASE ~shown
  <2>1. q \in Seq(Int) /\ Len(q) = 0 /\ units \in Seq(Unit) /\ Len(units) = 0
    BY <1>7 DEF Opt
  <2> HIDE DEF q, units
  <2>2. \A k \in 1..Len(q) : FALSE
    BY <2>1
  <2>3. Slots(more) = Slots(lines) \union {q[k] : k \in 1..Len(q)}
    BY <1>1, <1>7, <2>2
  <2>4. /\ \A i, j \in 1..Len(q) : i < j => q[i] < q[j]
        /\ \A k \in 1..Len(q) : \A y \in Slots(lines) : y < q[k]
        /\ \A k \in 1..Len(q) : units[k] = SlotUnit(path, more, q[k])
        /\ Len(units) = Len(q)
    BY <2>1, <2>2
  <2>5. Render(path, more) = Render(path, lines) \o units
    BY <1>1, <1>4, <2>1, <2>3, <2>4, RenderGrows, ZenonT(60)
  <2> QED
    BY <2>5 DEF units, u, more
<1> QED
  BY <1>6, <1>7

LEMMA HitRendered ==
  ASSUME NEW path \in Name, NEW lines \in Text, search.before \in Nat, search.after \in Nat,
         NEW context \in Seq(Unit), Len(context) = Len(lines) - From(lines),
         \A k \in 1..Len(context) : context[k] = <<path, From(lines) + k - 1, FALSE>>
  PROVE  Render(path, Append(lines, "hit")) =
           Render(path, lines) \o ((Opt(Apart(lines), Separator) \o context) \o <<<<path, Len(lines), TRUE>>>>)
<1> DEFINE n == Len(lines)
           more == Append(lines, "hit")
           f == From(lines)
           u == <<path, n, TRUE>>
           first == Opt(Apart(lines), Separator)
           o == Len(first)
           both == first \o context
           last == <<u>>
           units == both \o last
           l == o + (n - f) + 1
           q == [k \in 1..l |-> IF k <= o THEN 2 * f ELSE 2 * (f + k - 1 - o) + 1]
<1>1. /\ n \in Nat /\ f \in 0..n /\ Hits(more) = Hits(lines) \union {n} /\ more \in Text
      /\ \A x \in Slots(lines) : x < 2 * f
      /\ \A i \in Hits(lines) : i < f
      /\ Slots(more) = Slots(lines) \union {2 * i + 1 : i \in f..n} \union (IF Apart(lines) THEN {2 * f} ELSE {})
      /\ Hits(lines) \subseteq 0..(n - 1) /\ Slots(lines) \subseteq Int
  BY HitAdded, TextIs, LineAdded, SlotsAre
<1>2. /\ Apart(lines) \in BOOLEAN
      /\ first \in Seq(Unit) /\ o = (IF Apart(lines) THEN 1 ELSE 0) /\ (Apart(lines) => first[1] = Separator)
  <2>1. Apart(lines) \in BOOLEAN
    BY DEF Apart
  <2> QED
    BY <2>1, SeparatorIs, OptIs DEF Opt
<1>3. u \in Unit
  <2>1. n \in Int /\ TRUE \in BOOLEAN
    BY <1>1
  <2> HIDE DEF n
  <2> QED
    BY <2>1, UnitIs
<1>4. last \in Seq(Unit) /\ Len(last) = 1 /\ last[1] = u
  <2> HIDE DEF u
  <2> QED
    BY <1>3
<1>5. \A i \in f..n : SlotUnit(path, more, 2 * i + 1) = <<path, i, i = n>>
  <2> HIDE DEF more, n, f
  <2> SUFFICES ASSUME NEW i \in f..n PROVE SlotUnit(path, more, 2 * i + 1) = <<path, i, i = n>>
    OBVIOUS
  <2>1. i \in Int /\ ((i \in Hits(more)) = (i = n))
    BY <1>1
  <2> QED
    BY <2>1, SlotIs
<1>6. SlotUnit(path, more, 2 * f) = Separator
  BY <1>1, SlotIs
<1>7. ASSUME NEW x \in Slots(lines) PROVE SlotUnit(path, more, x) = SlotUnit(path, lines, x)
  <2>1. Hits(more) \ {n} = Hits(lines)
    BY <1>1
  <2> QED
    BY <2>1, OldSlots
<1>8. Len(context) = n - f /\ \A k \in 1..(n - f) : context[k] = <<path, f + k - 1, FALSE>>
  OBVIOUS
<1>9. u = <<path, n, TRUE>>
  OBVIOUS
<1> HIDE DEF first, u, last, n, f, more
<1>10. /\ both \in Seq(Unit) /\ Len(both) = o + (n - f)
       /\ \A k \in 1..(o + (n - f)) : both[k] = IF k <= o THEN first[k] ELSE context[k - o]
  <2>1. /\ both \in Seq(Unit) /\ Len(both) = Len(first) + Len(context)
        /\ \A k \in 1..(Len(first) + Len(context)) :
             both[k] = IF k <= Len(first) THEN first[k] ELSE context[k - Len(first)]
    BY <1>2, ConcatProperties
  <2> QED
    BY <1>8, <2>1
<1> HIDE DEF both
<1>11. /\ units \in Seq(Unit) /\ Len(units) = l
       /\ \A k \in 1..l : units[k] = IF k <= o + (n - f) THEN both[k] ELSE last[k - (o + (n - f))]
  <2>1. /\ units \in Seq(Unit) /\ Len(units) = Len(both) + Len(last)
        /\ \A k \in 1..(Len(both) + Len(last)) :
             units[k] = IF k <= Len(both) THEN both[k] ELSE last[k - Len(both)]
    BY <1>4, <1>10, ConcatProperties
  <2> QED
    BY <1>4, <1>10, <2>1
<1> HIDE DEF units
<1>12. o \in {0, 1} /\ l \in Nat /\ (o = 1 <=> Apart(lines))
  <2> HIDE DEF o
  <2> QED
    BY <1>1, <1>2
<1>13. /\ q \in Seq(Int) /\ Len(q) = l
       /\ \A k \in 1..l : q[k] = IF k <= o THEN 2 * f ELSE 2 * (f + k - 1 - o) + 1
  <2> HIDE DEF o, l
  <2>1. \A k \in 1..l : q[k] \in Int /\ q[k] = IF k <= o THEN 2 * f ELSE 2 * (f + k - 1 - o) + 1
    BY <1>1, <1>12
  <2>2. q \in [1..l -> Int]
    BY <2>1
  <2> HIDE DEF q
  <2> QED
    BY <1>12, <2>1, <2>2
<1>14. l = o + (n - f) + 1
  OBVIOUS
<1> HIDE DEF q, l, o
<1>15. /\ \A i, j \in 1..Len(q) : i < j => q[i] < q[j]
       /\ \A k \in 1..Len(q) : \A x \in Slots(lines) : x < q[k]
  <2>1. \A i, j \in 1..l : i < j => q[i] < q[j]
    <3> SUFFICES ASSUME NEW i \in 1..l, NEW j \in 1..l, i < j PROVE q[i] < q[j]
      OBVIOUS
    <3>1. /\ q[i] = IF i <= o THEN 2 * f ELSE 2 * (f + i - 1 - o) + 1
          /\ q[j] = IF j <= o THEN 2 * f ELSE 2 * (f + j - 1 - o) + 1
      BY <1>13
    <3>2. ~(j <= o)
      BY <1>12
    <3>3. CASE i <= o
      BY <1>1, <1>12, <3>1, <3>2, <3>3
    <3>4. CASE ~(i <= o)
      BY <1>1, <1>12, <3>1, <3>2, <3>4
    <3> QED
      BY <3>3, <3>4
  <2>2. \A k \in 1..l : q[k] >= 2 * f /\ q[k] \in Int
    <3> SUFFICES ASSUME NEW k \in 1..l PROVE q[k] >= 2 * f /\ q[k] \in Int
      OBVIOUS
    <3>0. k \in Int /\ k >= 1 /\ f \in Int /\ o \in Int
      BY <1>1, <1>12
    <3>1. q[k] = IF k <= o THEN 2 * f ELSE 2 * (f + k - 1 - o) + 1
      BY <1>13
    <3>2. CASE k <= o
      BY <3>0, <3>1, <3>2
    <3>3. CASE ~(k <= o)
      <4>1. f + k - 1 - o >= f /\ f + k - 1 - o \in Int
        BY <3>0, <3>3
      <4> QED
        BY <3>0, <3>1, <3>3, <4>1
    <3> QED
      BY <3>2, <3>3
  <2>3. \A x \in Slots(lines) : x \in Int /\ x < 2 * f
    BY <1>1
  <2>4. ASSUME NEW k \in 1..l, NEW x \in Slots(lines) PROVE x < q[k]
    BY <1>1, <2>2, <2>3
  <2> QED
    BY <1>13, <2>1, <2>4
<1>16. Slots(more) = Slots(lines) \union {q[k] : k \in 1..Len(q)}
  <2>1. ASSUME NEW k \in 1..l PROVE q[k] \in {2 * i + 1 : i \in f..n} \union (IF Apart(lines) THEN {2 * f} ELSE {})
    <3>1. CASE k <= o
      BY <1>12, <1>13, <3>1
    <3>2. CASE ~(k <= o)
      <4>1. f + k - 1 - o \in f..n
        BY <1>1, <1>12, <1>14, <3>2
      <4> QED
        BY <1>13, <3>2, <4>1
    <3> QED
      BY <3>1, <3>2
  <2>2. ASSUME NEW i \in f..n PROVE \E k \in 1..l : q[k] = 2 * i + 1
    <3>1. i - f + 1 + o \in 1..l /\ ~(i - f + 1 + o <= o) /\ f + (i - f + 1 + o) - 1 - o = i
      BY <1>1, <1>12, <1>14
    <3> QED
      BY <1>13, <3>1
  <2>3. ASSUME Apart(lines) PROVE \E k \in 1..l : q[k] = 2 * f
    <3>1. 1 \in 1..l /\ 1 <= o
      BY <1>1, <1>12, <1>14, <2>3
    <3> QED
      BY <1>13, <3>1
  <2>4. {q[k] : k \in 1..l} = {2 * i + 1 : i \in f..n} \union (IF Apart(lines) THEN {2 * f} ELSE {})
    BY <2>1, <2>2, <2>3
  <2> QED
    BY <1>1, <1>13, <2>4
<1>17. ASSUME NEW k \in 1..l PROVE units[k] = SlotUnit(path, more, q[k])
  <2>1. CASE k <= o
    <3>1. k = 1 /\ k <= o + (n - f) /\ k \in 1..(o + (n - f)) /\ Apart(lines)
      BY <1>1, <1>12, <1>14, <2>1
    <3> QED
      BY <1>2, <1>6, <1>10, <1>11, <1>13, <2>1, <3>1
  <2>2. CASE ~(k <= o) /\ k <= o + (n - f)
    <3>1. /\ k \in 1..(o + (n - f)) /\ k - o \in 1..(n - f) /\ f + k - 1 - o \in f..n /\ f + k - 1 - o # n
          /\ f + (k - o) - 1 = f + k - 1 - o
      BY <1>1, <1>12, <1>14, <2>2
    <3>2. units[k] = <<path, f + k - 1 - o, FALSE>>
      BY <1>8, <1>10, <1>11, <2>2, <3>1
    <3>3. SlotUnit(path, more, q[k]) = <<path, f + k - 1 - o, f + k - 1 - o = n>>
      BY <1>5, <1>13, <2>2, <3>1
    <3>4. (f + k - 1 - o = n) = FALSE
      BY <3>1
    <3> QED
      BY <3>2, <3>3, <3>4
  <2>3. CASE ~(k <= o + (n - f))
    <3>1. k = l /\ k - (o + (n - f)) = 1 /\ ~(k <= o) /\ f + k - 1 - o = n /\ n \in f..n
      BY <1>1, <1>12, <1>14, <2>3
    <3>2. SlotUnit(path, more, q[k]) = <<path, n, n = n>>
      BY <1>5, <1>13, <3>1
    <3>3. (n = n) = TRUE
      OBVIOUS
    <3> QED
      BY <1>4, <1>9, <1>11, <2>3, <3>1, <3>2, <3>3
  <2> QED
    BY <2>1, <2>2, <2>3
<1>18. Len(units) = Len(q) /\ \A k \in 1..Len(q) : units[k] = SlotUnit(path, more, q[k])
  BY <1>11, <1>13, <1>17
<1>19. Render(path, more) = Render(path, lines) \o units
  BY <1>1, <1>7, <1>11, <1>13, <1>15, <1>16, <1>18, RenderGrows, ZenonT(60)
<1> QED
  BY <1>19 DEF units, both, first, last, u, n, more

-----------------------------------------------------------------------------
\* The reader keeps track.
LEMMA ShownFile ==
  ASSUME SearchTypes, file # NoFile
  PROVE  LET i == Index
             kept == Kept(file.previous \o <<i>>)
             start == IF i < search.before THEN 0 ELSE i - search.before
             fresh == ~file.group \/ start > file.end + 1
             shown == file.group /\ i <= file.end /\ i > file.emitted
         IN  /\ Shown("hit").units = (Opt(fresh /\ file.group, Separator) \o Context(Ascending(Before)))
                                        \o <<<<file.path, i, TRUE>>>>
             /\ Shown("hit").file =
                  Moved(file, kept, TRUE, IF i + search.after > file.end \/ fresh
                                          THEN i + search.after ELSE file.end, i)
             /\ Shown("miss").units = Opt(shown, <<file.path, i, FALSE>>)
             /\ Shown("miss").file =
                  Moved(file, kept, file.group, file.end, IF shown THEN i ELSE file.emitted)
<1> DEFINE i == Index
           kept == Kept(file.previous \o <<i>>)
           start == IF i < search.before THEN 0 ELSE i - search.before
           fresh == ~file.group \/ start > file.end + 1
           shown == file.group /\ i <= file.end /\ i > file.emitted
           e == IF i + search.after > file.end \/ fresh THEN i + search.after ELSE file.end
<1>1. file \in FileSet
  BY GrepFile
<1>2. /\ Shown("hit").units = (Opt(fresh /\ file.group, Separator) \o Context(Ascending(Before)))
                                 \o <<<<file.path, i, TRUE>>>>
      /\ Shown("hit").file = [file EXCEPT !.previous = Kept(@ \o <<i>>), !.group = TRUE, !.emitted = i,
                                          !.end = IF i + search.after > @ \/ fresh
                                                  THEN i + search.after ELSE @]
  BY DEF Shown, DaemonHit, Before
<1>3. /\ Shown("miss").units = Opt(shown, <<file.path, i, FALSE>>)
      /\ Shown("miss").file = [file EXCEPT !.previous = Kept(@ \o <<i>>),
                                           !.emitted = IF shown THEN i ELSE @]
  BY DEF Shown, DaemonMiss
<1> DEFINE after == [file EXCEPT !.previous = kept, !.group = TRUE, !.emitted = i, !.end = e]
           m == IF shown THEN i ELSE file.emitted
           passed == [file EXCEPT !.previous = kept, !.emitted = m]
<1>4. Shown("hit").file = after
  BY <1>2
<1>5. Shown("miss").file = passed
  BY <1>3
<1> HIDE DEF kept, e, shown, fresh, i, m
<1>6. after = Moved(file, kept, TRUE, e, i)
  BY <1>1 DEF Moved, FileSet
<1>7. passed = Moved(file, kept, file.group, file.end, m)
  BY <1>1 DEF Moved, FileSet
<1> HIDE DEF after, passed
<1>8. /\ Shown("hit").file = Moved(file, kept, TRUE, e, i)
      /\ Shown("miss").file = Moved(file, kept, file.group, file.end, m)
  BY <1>4, <1>5, <1>6, <1>7
<1> QED
  BY <1>2, <1>3, <1>8 DEF kept, e, shown, fresh, i, m

\* The lines before the next one.
LEMMA RecentIs ==
  ASSUME NEW f, NEW n \in Nat, NEW m \in Nat, f.previous \in Seq(Nat), Len(f.lines) = n, Recent(f, m), m <= n,
         search.before \in Nat,
         NEW g, g.previous = Kept(f.previous \o <<n>>), Len(g.lines) = n + 1
  PROVE  Recent(g, IF m + 1 < search.before THEN m + 1 ELSE search.before)
<1> DEFINE s == f.previous
           t == s \o <<n>>
           k1 == IF m + 1 < search.before THEN m + 1 ELSE search.before
<1>1. Len(s) = m /\ s \in Seq(Nat) /\ \A k \in 1..m : s[k] = n - m + k - 1
  BY DEF Recent
<1>2. /\ t \in Seq(Nat) /\ Len(t) = m + 1 /\ t[m + 1] = n
      /\ \A k \in 1..m : t[k] = n - m + k - 1
  <2> HIDE DEF s
  <2> QED
    BY <1>1, Pushed
<1> HIDE DEF t
<1>3. \A k \in 1..(m + 1) : t[k] = (n + 1) - (m + 1) + k - 1
  BY <1>2
<1>4. /\ Len(Kept(t)) = k1
      /\ \A k \in 1..k1 : Kept(t)[k] = t[m + 1 - k1 + k]
  <2>1. /\ Len(Kept(t)) = Low(Len(t), search.before)
        /\ \A k \in 1..Len(Kept(t)) : Kept(t)[k] = t[Len(t) - Len(Kept(t)) + k]
    BY <1>2, KeptIs
  <2>2. Len(Kept(t)) = k1
    BY <1>2, <2>1 DEF Low
  <2> DEFINE w == Kept(t)
  <2> HIDE DEF k1, w
  <2>3. Len(w) = k1 /\ Len(t) = m + 1 /\ \A k \in 1..Len(w) : w[k] = t[Len(t) - Len(w) + k]
    BY <1>2, <2>1, <2>2 DEF w
  <2>4. ASSUME NEW k \in 1..k1 PROVE w[k] = t[m + 1 - k1 + k]
    <3>1. k \in 1..Len(w) /\ Len(t) - Len(w) + k = m + 1 - k1 + k
      BY <2>3
    <3>2. w[k] = t[Len(t) - Len(w) + k]
      BY <2>3, <3>1
    <3> QED
      BY <3>1, <3>2
  <2> QED
    BY <2>3, <2>4 DEF w
<1>5. \A k \in 1..k1 : m + 1 - k1 + k \in 1..(m + 1)
  OBVIOUS
<1>6. g.previous = Kept(t) /\ k1 \in Nat
  BY DEF t
<1> HIDE DEF k1, s
<1>7. ASSUME NEW k \in 1..k1 PROVE g.previous[k] = (n + 1) - k1 + k - 1
  <2> DEFINE x == m + 1 - k1 + k
  <2>1. x \in 1..(m + 1) /\ g.previous[k] = t[x]
    BY <1>4, <1>5, <1>6
  <2>2. m \in Int /\ n \in Int /\ k1 \in Int /\ k \in Int /\ x = m + 1 - k1 + k
    BY <1>6
  <2> HIDE DEF x
  <2>3. t[x] = (n + 1) - (m + 1) + x - 1
    BY <1>3, <2>1
  <2>4. (n + 1) - (m + 1) + x - 1 = (n + 1) - k1 + k - 1
    BY ONLY <2>2
  <2> QED
    BY <2>1, <2>3, <2>4
<1> QED
  BY <1>4, <1>6, <1>7 DEF Recent, k1

LEMMA PlaceIs ==
  ASSUME NEW n \in Nat, NEW l \in Nat, NEW start, start = n - l, NEW x \in Int, x >= start, x < n
  PROVE  x - n + l + 1 \in 1..l /\ n - l + (x - n + l + 1) - 1 = x
OBVIOUS

\* daemonCollectGrepContent: the lines before a match that it shows with it.
LEMMA DaemonBefore ==
  ASSUME SearchTypes, file # NoFile, Recent(file, Low(Index, search.before)), file.emitted = ShownTo(file.lines)
  PROVE  LET n == Index
             f == From(file.lines)
             prior == Ascending(Before)
         IN  /\ prior \in Seq(Nat) /\ Len(prior) = n - f
             /\ \A k \in 1..(n - f) : prior[k] = f + k - 1
<1> DEFINE n == Index
           b == search.before
           f == From(file.lines)
           s == ShownTo(file.lines)
           l == Low(n, b)
           start == IF n < b THEN 0 ELSE n - b
           p == file.previous
           q == [k \in 1..(n - f) |-> f + k - 1]
<1>1. /\ n \in Nat /\ b \in Nat /\ file.lines \in Text /\ p \in Seq(Nat) /\ search.after \in Nat
      /\ n = Len(file.lines)
  BY GrepFile DEF Index
<1>2. s \in -1..(n - 1) /\ f = IF n - b > s + 1 THEN n - b ELSE s + 1
  <2>1. s \in -1..(n - 1)
    BY <1>1, ShownIs
  <2> QED
    BY <1>1, <2>1 DEF From
<1>3. Len(p) = l /\ \A k \in 1..l : p[k] = n - l + k - 1
  BY <1>1 DEF Recent
<1>4. Before = {k \in Range(p) : k >= start /\ k > s}
  BY DEF Before
<1>5. DOMAIN p = 1..Len(p) /\ Range(p) = {p[k] : k \in DOMAIN p}
  BY <1>1 DEF Range
<1>6. l = IF n < b THEN n ELSE b
  BY DEF Low
<1> HIDE DEF l, p, n, b, s, f
<1>7. l \in Nat /\ start = n - l /\ f \in 0..n /\ (f = start \/ f = s + 1) /\ start <= f /\ s < f
  BY <1>1, <1>2, <1>6
<1> HIDE DEF start
<1>8. ASSUME NEW x \in Before PROVE x \in f..(n - 1)
  <2>1. PICK k \in 1..l : x = p[k]
    BY <1>3, <1>4, <1>5
  <2>2. x = n - l + k - 1 /\ x >= start /\ x > s
    BY <1>3, <1>4, <2>1
  <2> QED
    BY <1>1, <1>2, <1>7, <2>1, <2>2
<1>9. ASSUME NEW x \in f..(n - 1) PROVE x \in Before
  <2>0. x \in Int /\ f <= x /\ x < n /\ s \in Int /\ start \in Int /\ f \in Int
    BY <1>1, <1>2, <1>7
  <2>1. x - n + l + 1 \in 1..l /\ n - l + (x - n + l + 1) - 1 = x /\ x >= start /\ x > s
    <3>1. x >= start /\ x > s
      BY <1>7, <2>0
    <3>2. x - n + l + 1 \in 1..l /\ n - l + (x - n + l + 1) - 1 = x
      <4>1. n \in Nat /\ l \in Nat /\ start = n - l /\ x \in Int /\ x >= start /\ x < n
        BY <1>1, <1>7, <2>0, <3>1
      <4> QED
        BY ONLY <4>1, PlaceIs
    <3> QED
      BY <3>1, <3>2
  <2>2. x \in Range(p)
    <3>1. p[x - n + l + 1] = x
      BY <1>3, <2>1
    <3> QED
      BY <1>3, <1>5, <2>1, <3>1
  <2> QED
    BY <1>4, <2>1, <2>2
<1>10. Before = f..(n - 1) /\ Before \in SUBSET Int /\ IsFiniteSet(Before)
  <2>1. Before = f..(n - 1)
    BY <1>8, <1>9
  <2> QED
    BY <2>1, BeforeIs
<1>11. q \in Seq(Before) /\ Len(q) = n - f /\ \A k \in 1..(n - f) : q[k] = f + k - 1
  <2>1. n - f \in Nat /\ \A k \in 1..(n - f) : f + k - 1 \in f..(n - 1)
    BY <1>1, <1>7
  <2>2. q \in [1..(n - f) -> Before]
    BY <1>10, <2>1
  <2>3. \A k \in 1..(n - f) : q[k] = f + k - 1
    OBVIOUS
  <2> DEFINE m == n - f
  <2> HIDE DEF q
  <2>4. m \in Nat /\ q \in [1..m -> Before]
    BY <2>1, <2>2
  <2> HIDE DEF m
  <2>5. q \in Seq(Before) /\ Len(q) = m
    BY <2>4
  <2> QED
    BY <2>3, <2>5 DEF m
<1> HIDE DEF q
<1>12. \A i, j \in 1..Len(q) : i < j => q[i] < q[j]
  BY <1>7, <1>11
<1>13. \A x \in Before : \E i \in 1..Len(q) : q[i] = x
  <2> SUFFICES ASSUME NEW x \in f..(n - 1) PROVE \E i \in 1..Len(q) : q[i] = x
    BY <1>10
  <2>1. x - f + 1 \in 1..(n - f) /\ f + (x - f + 1) - 1 = x
    BY <1>1, <1>7
  <2> QED
    BY <1>11, <2>1
<1>14. q = Ascending(Before)
  BY <1>10, <1>11, <1>12, <1>13, AscendingIsOnly
<1>15. Ascending(Before) \in Seq(Nat)
  BY BeforeIs
<1> QED
  BY <1>11, <1>14, <1>15 DEF n, f

\* Every line that is read is shown as a search of the whole file shows it.
LEMMA ApartIs ==
  ASSUME SearchTypes, file # NoFile, Hits(file.lines) # {}
  PROVE  LET n == Index
             start == IF n < search.before THEN 0 ELSE n - search.before
             h == LastHit(file.lines)
             s == ShownTo(file.lines)
         IN  /\ Apart(file.lines) <=> n - search.before > s + 1
             /\ Apart(file.lines) <=> start > h + search.after + 1
             /\ h + search.after - s \in Nat
             /\ h + search.after - s > 0 <=> n <= h + search.after
             /\ h + search.after - s > 0 => s = n - 1
             /\ s \in 0..(n - 1) /\ n \in Nat
<1> DEFINE n == Index
           b == search.before
           a == search.after
           start == IF n < b THEN 0 ELSE n - b
           h == LastHit(file.lines)
           s == ShownTo(file.lines)
           f == From(file.lines)
<1>1. n \in Nat /\ b \in Nat /\ a \in Nat /\ file.lines \in Text /\ n = Len(file.lines)
  BY GrepFile DEF Index
<1>2. /\ s \in -1..(n - 1) /\ h \in 0..s
      /\ h + a < n => s = h + a
      /\ h + a >= n => s = n - 1
  BY <1>1, ShownIs
<1>3. f = IF n - b > s + 1 THEN n - b ELSE s + 1
  BY <1>1 DEF From
<1>4. Apart(file.lines) <=> f > s + 1
  BY DEF Apart
<1> HIDE DEF n, b, a, h, s, f
<1>6. n \in Nat /\ b \in Nat /\ a \in Nat /\ s \in 0..(n - 1) /\ h \in 0..s
  BY <1>1, <1>2
<1>7. Apart(file.lines) <=> n - b > s + 1
  <2>1. f = (IF n - b > s + 1 THEN n - b ELSE s + 1)
    BY <1>3
  <2> QED
    BY ONLY <1>4, <1>6, <2>1
<1>8. h + a < n => s = h + a
  BY <1>2
<1>9. h + a >= n => s = n - 1
  BY <1>2
<1>10. n - b > s + 1 <=> start > h + a + 1
  BY ONLY <1>6, <1>8, <1>9
<1>12. /\ h + a - s \in Nat
       /\ h + a - s > 0 <=> n <= h + a
       /\ h + a - s > 0 => s = n - 1
  BY ONLY <1>6, <1>8, <1>9
<1> QED
  BY <1>6, <1>7, <1>10, <1>12 DEF n, b, a, h, s

LEMMA LowNext ==
  ASSUME NEW n \in Nat, NEW b \in Nat
  PROVE  /\ Low(n, b) \in Nat /\ Low(n, b) <= n
         /\ Low(n + 1, b) = IF Low(n, b) + 1 < b THEN Low(n, b) + 1 ELSE b
BY DEF Low

LEMMA DaemonLine ==
  ASSUME SearchTypes, file # NoFile, LineInv(file), NEW line \in {"hit", "miss"},
         NEW more, more = Append(file.lines, line), NEW g, g = [Shown(line).file EXCEPT !.lines = more]
  PROVE  Render(file.path, more) = Render(file.path, file.lines) \o Shown(line).units /\ LineInv(g)
<1> DEFINE n == Index
           lines == file.lines
           b == search.before
           a == search.after
           h == LastHit(lines)
           s == ShownTo(lines)
           kept == Kept(file.previous \o <<n>>)
<1>1. /\ n \in Nat /\ b \in Nat /\ a \in Nat /\ lines \in Text /\ n = Len(lines) /\ file \in FileSet
      /\ file.path \in Name /\ file.previous \in Seq(Nat)
  BY GrepFile DEF Index
<1>2. /\ file.group = (Hits(lines) # {}) /\ Recent(file, Low(n, b)) /\ file.emitted = s
      /\ file.group => file.end = h + a
  BY <1>1 DEF LineInv
<1>3. more \in Text /\ Len(more) = n + 1
  BY <1>1, LineAdded
<1>4. ASSUME g.previous = kept, g.lines = more PROVE Recent(g, Low(Len(more), b))
  <2> DEFINE m == Low(n, b)
  <2>0. /\ n \in Nat /\ m \in Nat /\ m <= n /\ file.previous \in Seq(Nat) /\ Len(file.lines) = n
        /\ Recent(file, m) /\ search.before \in Nat
        /\ g.previous = Kept(file.previous \o <<n>>) /\ Len(g.lines) = n + 1
    BY <1>1, <1>2, <1>3, <1>4, LowNext
  <2> HIDE DEF n, m
  <2>1. Recent(g, IF m + 1 < b THEN m + 1 ELSE b)
    BY ONLY <2>0, RecentIs
  <2> USE DEF n, m
  <2> QED
    BY <1>1, <1>3, <2>1, LowNext
<1> HIDE DEF kept
<1>5. CASE line = "hit"
  <2> DEFINE start == IF n < b THEN 0 ELSE n - b
             fresh == ~file.group \/ start > file.end + 1
             e == IF n + a > file.end \/ fresh THEN n + a ELSE file.end
             context == Context(Ascending(Before))
             f == From(lines)
  <2>1. /\ Shown(line).units = (Opt(fresh /\ file.group, Separator) \o context) \o <<<<file.path, n, TRUE>>>>
        /\ Shown(line).file = Moved(file, kept, TRUE, e, n)
    BY <1>5, ShownFile DEF kept
  <2>2. g.lines = more /\ g.previous = kept /\ g.group = TRUE /\ g.end = e /\ g.emitted = n
    <3> HIDE DEF e
    <3>1. file \in FileSet /\ g = [Moved(file, kept, TRUE, e, n) EXCEPT !.lines = more]
      BY <1>1, <2>1
    <3> QED
      BY ONLY <3>1 DEF Moved, FileSet
  <2>3. (fresh /\ file.group) = Apart(lines)
    <3>1. CASE Hits(lines) = {}
      <4>1. ~file.group /\ Apart(lines) = FALSE
        BY <1>2, <3>1 DEF Apart
      <4> QED
        BY <4>1
    <3>2. CASE Hits(lines) # {}
      <4>1. Apart(lines) <=> start > h + a + 1
        BY <3>2, ApartIs
      <4>2. file.group = TRUE /\ file.end = h + a
        BY <1>2, <3>2
      <4>3. fresh /\ file.group <=> start > h + a + 1
        <5> HIDE DEF start, a, h
        <5> QED
          BY <4>2
      <4>4. Apart(lines) \in BOOLEAN
        BY DEF Apart
      <4> HIDE DEF start, fresh
      <4> QED
        BY <4>1, <4>3, <4>4
    <3> QED
      BY <3>1, <3>2
  <2>4. /\ context \in Seq(Unit) /\ Len(context) = n - f
        /\ \A k \in 1..Len(context) : context[k] = <<file.path, f + k - 1, FALSE>>
    <3> DEFINE prior == Ascending(Before)
    <3>1. /\ prior \in Seq(Nat) /\ Len(prior) = n - f
          /\ \A k \in 1..(n - f) : prior[k] = f + k - 1
      BY <1>2, DaemonBefore
    <3> HIDE DEF prior, f
    <3>2. /\ Context(prior) \in Seq(Unit) /\ Len(Context(prior)) = Len(prior)
          /\ \A k \in 1..Len(prior) : Context(prior)[k] = <<file.path, prior[k], FALSE>>
      BY <3>1, ContextIs
    <3> QED
      BY <3>1, <3>2 DEF prior
  <2> HIDE DEF context
  <2>5. Render(file.path, more) = Render(file.path, lines) \o Shown(line).units
    BY <1>1, <1>5, <2>1, <2>3, <2>4, HitRendered, ZenonT(60)
  <2>6. Hits(more) # {} /\ LastHit(more) = n /\ ShownTo(more) = n
    BY <1>1, <1>5, HitAdded
  <2>7. e = n + a
    <3>1. CASE ~file.group
      BY <3>1
    <3>2. CASE file.group
      <4>1. file.end = h + a /\ h \in Int /\ h < n
        <5>1. h \in 0..(Len(lines) - 1)
          BY <1>1, <1>2, <3>2, LastHitIs
        <5> QED
          BY <1>1, <1>2, <3>2, <5>1
      <4> QED
        BY <1>1, <4>1
    <3> QED
      BY <3>1, <3>2
  <2> HIDE DEF e
  <2> QED
    BY <1>4, <2>2, <2>5, <2>6, <2>7 DEF LineInv
<1>6. CASE line = "miss"
  <2> DEFINE shown == file.group /\ n <= file.end /\ n > file.emitted
             near == Hits(lines) # {} /\ n <= h + a
             m == IF shown THEN n ELSE file.emitted
  <2>1. /\ Shown(line).units = Opt(shown, <<file.path, n, FALSE>>)
        /\ Shown(line).file = Moved(file, kept, file.group, file.end, m)
    BY <1>6, ShownFile DEF kept
  <2>2. g.lines = more /\ g.previous = kept /\ g.group = file.group /\ g.end = file.end /\ g.emitted = m
    <3> HIDE DEF m
    <3>1. /\ file \in FileSet
          /\ g = [Moved(file, kept, file.group, file.end, m) EXCEPT !.lines = more]
      BY <1>1, <2>1
    <3> QED
      BY ONLY <3>1 DEF Moved, FileSet
  <2>3. shown = near
    <3>1. CASE Hits(lines) = {}
      BY <1>2, <3>1
    <3>2. CASE Hits(lines) # {}
      <4>1. file.group /\ file.end = h + a
        BY <1>2, <3>2
      <4>2. n > s
        BY <1>1, <3>2, ApartIs
      <4> QED
        BY <1>2, <3>2, <4>1, <4>2
    <3> QED
      BY <3>1, <3>2
  <2>4. Render(file.path, more) = Render(file.path, lines) \o Opt(near, <<file.path, Len(lines), FALSE>>)
    <3>1. near = (Hits(lines) # {} /\ Len(lines) <= LastHit(lines) + search.after)
      BY <1>1
    <3> HIDE DEF near
    <3> QED
      BY <1>1, <1>6, <3>1, MissRendered
  <2>5. /\ Hits(more) = Hits(lines) /\ LastHit(more) = h
        /\ ShownTo(more) = IF near THEN n ELSE s
    BY <1>1, <1>6, MissAdded
  <2>6. m = ShownTo(more)
    BY <1>2, <2>3, <2>5
  <2> HIDE DEF m, shown, near
  <2>7. Render(file.path, more) = Render(file.path, file.lines) \o Shown(line).units
    BY <1>1, <2>1, <2>3, <2>4
  <2> QED
    BY <1>2, <1>4, <2>2, <2>5, <2>6, <2>7 DEF LineInv
<1> QED
  BY <1>5, <1>6

-----------------------------------------------------------------------------
(* What has been read, and what is shown of it                             *)

LEMMA RenderedIs ==
  ASSUME SearchTypes, file # NoFile
  PROVE  /\ Rendered \in Seq(Unit)
         /\ search.mode = "content" => Rendered = Render(file.path, file.lines)
         /\ search.mode # "content" => Rendered = <<>>
<1>1. file.path \in Name /\ file.lines \in Text
  BY GrepFile
<1>2. Render(file.path, file.lines) \in Seq(Unit)
  BY <1>1, RenderIs
<1> QED
  BY <1>2 DEF Rendered

\* What the lines mean depends on the request alone.
LEMMA SameRequest ==
  ASSUME UNCHANGED search
  PROVE  /\ Roots' = Roots /\ Glob' = Glob
         /\ \A lines : Hits(lines)' = Hits(lines)
         /\ \A lines : LastHit(lines)' = LastHit(lines)
         /\ \A lines : ShownTo(lines)' = ShownTo(lines)
         /\ \A path, lines : Render(path, lines)' = Render(path, lines)
<1>1. Roots' = Roots /\ Glob' = Glob
  BY DEF Roots, Glob
<1>2. \A lines : Hits(lines)' = Hits(lines)
  BY DEF Hits
<1>3. \A lines : LastHit(lines)' = LastHit(lines)
  BY <1>2 DEF LastHit, Hits
<1>4. \A lines : ShownTo(lines)' = ShownTo(lines)
  BY DEF ShownTo, LastHit, Hits, Low
<1>6. \A path, lines : Render(path, lines)' = Render(path, lines)
  BY DEF Render, Slots, Visible, Gaps, Window, SlotUnit, Hits, Ascending, InOrder, Separator
<1> QED
  BY <1>1, <1>2, <1>3, <1>4, <1>6

\* Put, addLine: as long as nothing has been cut off,
\* the answer is what should be shown.
LEMMA WholeAnswer ==
  ASSUME SearchTypes, Roots # {}, ~truncated, NEW R \in Seq(Unit), out = want \o R,
         NEW units \in Seq(Unit), out' = out \o Cut(units), truncated' = (truncated \/ ~Fits(units)),
         want' = want \o (R \o units), UNCHANGED search
  PROVE  ShowsEveryMatch'
<1> DEFINE T == out \o units
<1>1. search.limit \in Nat /\ want \in Seq(Unit) /\ out \in Seq(Unit)
  BY Request DEF SearchTypes
<1>2. want' = T
  <2>1. (want \o R) \o units = want \o (R \o units)
    BY <1>1
  <2> QED
    BY <2>1
<1>3. T \in Seq(Unit) /\ Len(T) \in Nat
  <2>1. T \in Seq(Unit)
    BY <1>1
  <2> QED
    BY <2>1
<1>4. Fits(units) => out' = T /\ (search.limit > 0 => Len(T) <= search.limit)
  BY CutIs
<1>5. ~Fits(units) => out' = SubSeq(T, 1, search.limit) /\ search.limit > 0 /\ Len(T) > search.limit
  BY CutIs
<1>6. SubSeq(T, 1, Len(T)) = T
  BY <1>3
<1>7. truncated' = ~Fits(units)
  BY DEF SearchTypes
<1> HIDE DEF T
<1> DEFINE n == IF search.limit = 0 THEN Len(T) ELSE Low(search.limit, Len(T))
<1>8. CASE Fits(units)
  <2>1. n = Len(T) /\ ~(search.limit # 0 /\ Len(T) > search.limit)
    BY <1>1, <1>3, <1>4, <1>8 DEF Low
  <2>2. out' = SubSeq(T, 1, n) /\ truncated' = FALSE
    <3> HIDE DEF n
    <3> QED
      BY <1>4, <1>6, <1>7, <1>8, <2>1
  <2> QED
    BY <1>2, <2>1, <2>2 DEF ShowsEveryMatch, Low
<1>9. CASE ~Fits(units)
  <2>1. n = search.limit /\ search.limit # 0 /\ Len(T) > search.limit
    BY <1>1, <1>3, <1>5, <1>9 DEF Low
  <2>2. out' = SubSeq(T, 1, n) /\ truncated' = TRUE
    <3> HIDE DEF n
    <3> QED
      BY <1>5, <1>7, <1>9, <2>1
  <2> QED
    BY <1>2, <2>1, <2>2 DEF ShowsEveryMatch, Low
<1> QED
  BY <1>8, <1>9

\* A file is done with.
LEMMA ClosedAnswer ==
  ASSUME SearchTypes, file # NoFile, status = "running", ~truncated, out = want \o Rendered, NEW lines \in Text,
         NEW units \in Seq(Unit), FileOutput(file.path, lines) = Rendered \o units, Close(lines),
         out' = out \o Cut(units), truncated' = (truncated \/ ~Fits(units)),
         status' = IF Fits(units) THEN status ELSE "ok", UNCHANGED search
  PROVE  AnswerInv'
<1>1. Roots # {} /\ Rendered \in Seq(Unit)
  BY GrepFile, RenderedIs
<1>2. file' = NoFile /\ want' = want \o (Rendered \o units)
  BY DEF Close
<1> DEFINE R == Rendered
<1>3. R \in Seq(Unit) /\ out = want \o R /\ want' = want \o (R \o units)
  BY <1>1, <1>2
<1> HIDE DEF R
<1>4. ShowsEveryMatch'
  BY <1>1, <1>3, WholeAnswer
<1>5. status' = "running" => ~truncated'
  <2>1. CASE Fits(units)
    BY <2>1
  <2>2. CASE ~Fits(units)
    <3>1. status' = "ok"
      BY <2>2
    <3> QED
      BY <3>1
  <2> QED
    BY <2>1, <2>2
<1> QED
  BY <1>2, <1>4, <1>5 DEF AnswerInv

-----------------------------------------------------------------------------
\* The end of a file.
LEMMA EndFileAnswer ==
  ASSUME SearchTypes, AnswerInv, EndFile \/ InputLimit
  PROVE  AnswerInv'
<1>1. status = "running" /\ file # NoFile /\ UNCHANGED search
  BY DEF EndFile, InputLimit
<1>2. ~Glob /\ Roots # {} /\ file.lines \in Text /\ search.mode \in {"content", "files", "count", "multiline"}
  BY <1>1, GrepFile
<1>3. CASE missed'
  BY <1>3 DEF AnswerInv
<1>4. CASE ~missed'
  <2> DEFINE units == CASE search.mode = "count" -> Count(file.lines)
                        [] search.mode = "multiline" -> AllMatches(file.lines)
                        [] OTHER -> <<>>
  <2>1. Put(units) /\ Close(file.lines) /\ ~missed
    BY <1>4 DEF EndFile, InputLimit
  <2>2. ~truncated /\ out = want \o Rendered /\ (search.mode = "files" => Hits(file.lines) = {})
    BY <1>1, <1>2, <2>1 DEF AnswerInv
  <2>3. Count(file.lines) \in Seq(Unit) /\ AllMatches(file.lines) \in Seq(Unit)
    BY <1>1, <1>2, CountIs
  <2>4. Rendered \in Seq(Unit) /\ Render(file.path, file.lines) = Render(file.path, file.lines) \o <<>>
    <3>1. Render(file.path, file.lines) \in Seq(Unit)
      BY <1>1, <1>2, GrepFile, RenderIs
    <3> QED
      BY <1>1, <3>1, RenderedIs
  <2>5. units \in Seq(Unit) /\ FileOutput(file.path, file.lines) = Rendered \o units
    <3>1. CASE search.mode = "content"
      <4>1. units = <<>> /\ Rendered = Render(file.path, file.lines)
            /\ FileOutput(file.path, file.lines) = Render(file.path, file.lines)
        BY <1>1, <3>1, RenderedIs DEF FileOutput
      <4> HIDE DEF units
      <4> QED
        BY <2>4, <4>1
    <3>2. CASE search.mode = "files"
      <4>1. units = <<>> /\ Rendered = <<>>
        BY <1>1, <3>2, RenderedIs
      <4>2. ~(Cardinality(Hits(file.lines)) > 0)
        <5>1. Cardinality(Hits(file.lines)) = 0
          BY <2>2, <3>2, FS_EmptySet
        <5> QED
          BY <5>1
      <4>3. FileOutput(file.path, file.lines) = <<>>
        BY <3>2, <4>2 DEF FileOutput
      <4> HIDE DEF units
      <4> QED
        BY <4>1, <4>3
    <3>3. CASE search.mode = "count"
      <4>1. units = Count(file.lines) /\ Rendered = <<>> /\ Count(file.lines) = FileOutput(file.path, file.lines)
        BY <1>1, <1>2, <3>3, RenderedIs, CountIs
      <4> QED
        BY <2>3, <4>1
    <3>4. CASE search.mode = "multiline"
      <4>1. /\ units = AllMatches(file.lines) /\ Rendered = <<>>
            /\ AllMatches(file.lines) = FileOutput(file.path, file.lines)
        BY <1>1, <1>2, <3>4, RenderedIs, CountIs
      <4> QED
        BY <2>3, <4>1
    <3> QED
      BY <1>2, <3>1, <3>2, <3>3, <3>4
  <2> HIDE DEF units
  <2>6. /\ out' = out \o Cut(units) /\ truncated' = (truncated \/ ~Fits(units))
        /\ status' = IF Fits(units) THEN status ELSE "ok"
    BY <2>1 DEF Put
  <2> QED
    BY <1>1, <1>2, <2>1, <2>2, <2>5, <2>6, ClosedAnswer
<1> QED
  BY <1>3, <1>4

\* One line of a file whose lines are shown.
LEMMA LineGrows ==
  ASSUME SearchTypes, file # NoFile, LineInv(file), NEW line \in {"hit", "miss"},
         NEW more, more = Append(file.lines, line), NEW g, g = [Shown(line).file EXCEPT !.lines = more]
  PROVE  Render(file.path, more) = Render(file.path, file.lines) \o Shown(line).units /\ LineInv(g)
BY DaemonLine

LEMMA ContentLineAnswer ==
  ASSUME SearchTypes, AnswerInv, file # NoFile, status = "running", ~missed, UNCHANGED search,
         search.mode = "content", NEW line \in {"hit", "miss"}, ContentLine(line)
  PROVE  AnswerInv'
<1> DEFINE more == Append(file.lines, line)
           units == Shown(line).units
           g == [Shown(line).file EXCEPT !.lines = more]
<1>1. ~Glob /\ Roots # {} /\ file.lines \in Text /\ file.path \in Name /\ file \in FileSet
  BY GrepFile
<1>2. /\ ~truncated /\ out = want \o Rendered /\ LineInv(file)
      /\ \A k \in 1..Len(file.lines) : file.lines[k] # "long"
  BY <1>1 DEF AnswerInv
<1>3. more \in Text /\ Len(more) = Len(file.lines) + 1 /\ more[Len(file.lines) + 1] = line
      /\ \A k \in 1..Len(file.lines) : more[k] = file.lines[k]
  BY <1>1, LineAdded
<1>4. \A k \in 1..Len(more) : more[k] # "long"
  <2>1. Len(file.lines) \in Nat
    BY <1>1, TextIs
  <2> DEFINE n == Len(file.lines)
  <2> HIDE DEF more
  <2> SUFFICES ASSUME NEW k \in 1..Len(more) PROVE more[k] # "long"
    OBVIOUS
  <2>2. CASE k = n + 1
    BY <1>3, <2>2
  <2>3. CASE k # n + 1
    <3>1. k \in 1..n
      BY <1>3, <2>1, <2>3
    <3> QED
      BY <1>2, <1>3, <3>1
  <2> QED
    BY <2>2, <2>3
<1>5. Render(file.path, more) = Render(file.path, file.lines) \o units /\ LineInv(g)
  BY <1>2, LineGrows
<1>6. Rendered = Render(file.path, file.lines) /\ Rendered \in Seq(Unit)
  BY RenderedIs
<1>7. units \in Seq(Unit) /\ Shown(line).file \in FileSet /\ Shown(line).file.path = file.path
  BY ShownTypes
<1>8. g \in FileSet /\ g.path = file.path /\ g.lines = more /\ g # NoFile
  <2> DEFINE f == Shown(line).file
  <2> HIDE DEF f, more
  <2>1. f \in FileSet /\ f.path = file.path /\ more \in Text
    BY <1>3, <1>7 DEF f
  <2>2. g = [f EXCEPT !.lines = more]
    BY DEF f
  <2>3. g \in FileSet /\ g.path = f.path /\ g.lines = more
    BY ONLY <2>1, <2>2 DEF FileSet
  <2>4. g.path \in Paths /\ NoFile.path = None /\ None \notin Paths
    BY <2>3, PathShape DEF FileSet, NoFile
  <2>5. g # NoFile
    BY <2>4
  <2> QED
    BY <2>1, <2>3, <2>5
<1>9. out' = out \o Cut(units) /\ truncated' = (truncated \/ ~Fits(units))
  BY DEF ContentLine
<1>10. CASE Fits(units)
  <2>1. file' = g /\ UNCHANGED <<want, status>> /\ truncated' = FALSE
    BY <1>2, <1>9, <1>10 DEF ContentLine
  <2>2. out' = (want \o Rendered) \o units
    BY <1>1, <1>2, <1>7, <1>9, <1>10, CutIs
  <2>3. out' = want \o (Rendered \o units)
    <3>1. want \in Seq(Unit)
      BY DEF SearchTypes
    <3> DEFINE R == Rendered
    <3>2. R \in Seq(Unit) /\ units \in Seq(Unit) /\ out' = (want \o R) \o units
      BY <1>6, <1>7, <2>2
    <3> HIDE DEF R, units
    <3>3. out' = want \o (R \o units)
      BY ONLY <3>1, <3>2
    <3> QED
      BY <3>3 DEF R
  <2> HIDE DEF g, more, units
  <2>4. Rendered' = Render(file.path, more)
    <3>1. Rendered' = Render(file.path, file.lines)'
      BY DEF Rendered
    <3>2. file'.path = file.path /\ file'.lines = more
      BY <1>8, <2>1
    <3>3. Render(file.path, file.lines)' = Render(file'.path, file'.lines)
      BY SameRequest
    <3> QED
      BY <3>1, <3>2, <3>3
  <2>5. LineInv(file)'
    BY <1>5, <2>1, SameRequest DEF LineInv, Recent
  <2>6. out' = want' \o Rendered'
    BY <1>5, <1>6, <2>1, <2>3, <2>4
  <2>7. \A k \in 1..Len(file'.lines) : file'.lines[k] # "long"
    BY <1>4, <1>8, <2>1
  <2> QED
    BY <1>8, <2>1, <2>5, <2>6, <2>7 DEF AnswerInv
<1>11. CASE ~Fits(units)
  <2>1. Close(more) /\ status' = IF Fits(units) THEN status ELSE "ok"
    BY <1>11 DEF ContentLine
  <2>2. FileOutput(file.path, more) = Rendered \o units
    BY <1>5, <1>6 DEF FileOutput
  <2> HIDE DEF more, units
  <2> QED
    BY <1>2, <1>3, <1>7, <1>9, <2>1, <2>2, ClosedAnswer
<1> QED
  BY <1>10, <1>11

LEMMA ReadLineAnswer ==
  ASSUME SearchTypes, AnswerInv, NEW line \in {"hit", "miss", "long"}, ReadLine(line)
  PROVE  AnswerInv'
<1>1. file # NoFile /\ status = "running" /\ UNCHANGED search /\ missed' = (missed \/ line = "long")
  BY DEF ReadLine
<1>2. CASE missed'
  BY <1>2 DEF AnswerInv
<1>3. CASE ~missed'
  <2>1. ~missed /\ line \in {"hit", "miss"}
    BY <1>1, <1>3
  <2>2. ~Glob /\ Roots # {} /\ file.lines \in Text /\ file.path \in Name /\ file \in FileSet
    BY <1>1, GrepFile
  <2>3. /\ ~truncated /\ out = want \o Rendered /\ (search.mode = "files" => Hits(file.lines) = {})
        /\ \A k \in 1..Len(file.lines) : file.lines[k] # "long"
    BY <1>1, <2>1, <2>2 DEF AnswerInv
  <2> DEFINE more == Append(file.lines, line)
  <2>4. /\ more \in Text /\ Len(more) = Len(file.lines) + 1 /\ more[Len(file.lines) + 1] = line
        /\ \A k \in 1..Len(file.lines) : more[k] = file.lines[k]
        /\ Hits(more) = Hits(file.lines) \union (IF line = "hit" THEN {Len(file.lines)} ELSE {})
    BY <2>2, LineAdded
  <2>5. CASE search.mode = "content"
    <3>1. ContentLine(line)
      BY <2>5 DEF ReadLine
    <3> QED
      BY <1>1, <2>1, <2>5, <3>1, ContentLineAnswer
  <2>6. CASE search.mode = "files" /\ line = "hit"
    <3> DEFINE units == <<<<file.path, 0, TRUE>>>>
    <3>1. Put(units) /\ Close(more)
      BY <2>6 DEF ReadLine, FirstMatch
    <3>2. units \in Seq(Unit)
      <4> DEFINE b == TRUE
      <4>1. b \in BOOLEAN /\ 0 \in Int
        OBVIOUS
      <4> HIDE DEF b
      <4>2. <<<<file.path, 0, b>>>> \in Seq(Unit)
        BY <1>1, <4>1, SomeUnits
      <4> QED
        BY <4>2 DEF b
    <3>3. Cardinality(Hits(more)) > 0
      <4>1. IsFiniteSet(Hits(more)) /\ Hits(more) # {}
        BY <2>4, <2>6, HitsAre
      <4> QED
        BY <4>1, FS_EmptySet, FS_CardinalityType
    <3>4. FileOutput(file.path, more) = units
      BY <2>6, <3>3 DEF FileOutput
    <3>5. Rendered = <<>>
      BY <1>1, <2>6, RenderedIs
    <3> HIDE DEF units, more
    <3>6. FileOutput(file.path, more) = Rendered \o units
      BY <3>2, <3>4, <3>5
    <3>7. /\ out' = out \o Cut(units) /\ truncated' = (truncated \/ ~Fits(units))
          /\ status' = IF Fits(units) THEN status ELSE "ok"
      BY <3>1 DEF Put
    <3> QED
      BY <1>1, <2>3, <2>4, <3>1, <3>2, <3>6, <3>7, ClosedAnswer
  <2>7. CASE search.mode # "content" /\ ~(search.mode = "files" /\ line = "hit")
    <3>1. /\ file' = [file EXCEPT !.lines = Append(@, line)] /\ truncated' = (truncated \/ line = "long")
          /\ UNCHANGED <<out, status, want>>
      BY <2>7 DEF ReadLine, CountLine
    <3>2. file' \in FileSet /\ file'.lines = more /\ file'.path = file.path /\ file' # NoFile
      <4> HIDE DEF more
      <4>1. file' = [file EXCEPT !.lines = more]
        BY <3>1 DEF more
      <4>2. file' \in FileSet /\ file'.path = file.path /\ file'.lines = more
        BY ONLY <2>2, <2>4, <4>1 DEF FileSet
      <4>3. file'.path \in Paths /\ NoFile.path = None /\ None \notin Paths
        BY <4>2, PathShape DEF FileSet, NoFile
      <4>4. file' # NoFile
        BY <4>3
      <4> QED
        BY <4>2, <4>4
    <3>3. \A k \in 1..Len(more) : more[k] # "long"
      <4>1. Len(file.lines) \in Nat
        BY <2>2, TextIs
      <4> DEFINE n == Len(file.lines)
      <4> HIDE DEF more
      <4> SUFFICES ASSUME NEW k \in 1..Len(more) PROVE more[k] # "long"
        OBVIOUS
      <4>2. CASE k = n + 1
        BY <2>1, <2>4, <4>2
      <4>3. CASE k # n + 1
        <5>1. k \in 1..n
          BY <2>4, <4>1, <4>3
        <5> QED
          BY <2>3, <2>4, <5>1
      <4> QED
        BY <4>2, <4>3
    <3>4. search.mode = "files" => Hits(more) = {}
      BY <2>1, <2>3, <2>4, <2>7
    <3> HIDE DEF more
    <3>5. Rendered = <<>> /\ Rendered' = <<>>
      BY <1>1, <2>7 DEF Rendered
    <3>6. search'.mode = "files" => Hits(file.lines)' = {}
      BY <1>1, <3>2, <3>4 DEF Hits
    <3>7. out' = want' \o Rendered' /\ ~truncated'
      BY <2>1, <2>3, <3>1, <3>5
    <3>8. search'.mode # "content"
      BY <1>1, <2>7
    <3> QED
      BY <1>1, <3>1, <3>2, <3>3, <3>6, <3>7, <3>8 DEF AnswerInv
  <2> QED
    BY <2>5, <2>6, <2>7
<1> QED
  BY <1>2, <1>3

-----------------------------------------------------------------------------
\* Between two files.
LEMMA SameAnswer ==
  ASSUME AnswerInv, file = NoFile, UNCHANGED <<search, file, out, want, missed, truncated>>, status = "running"
  PROVE  AnswerInv'
<1>1. Roots' = Roots /\ Glob' = Glob
  BY SameRequest
<1>2. CASE ~Glob /\ Roots # {} /\ ~missed
  <2>1. ~truncated /\ ShowsEveryMatch
    BY <1>2 DEF AnswerInv
  <2>2. ShowsEveryMatch'
    BY <1>1, <2>1 DEF ShowsEveryMatch
  <2> QED
    BY <2>1, <2>2 DEF AnswerInv
<1>3. CASE ~(~Glob /\ Roots # {} /\ ~missed)
  BY <1>1, <1>3 DEF AnswerInv
<1> QED
  BY <1>2, <1>3

LEMMA QuietAnswer ==
  ASSUME SearchTypes, AnswerInv, Quiet
  PROVE  AnswerInv'
<1>1. /\ UNCHANGED <<search, file, out, want, missed, truncated>> /\ status = "running"
      /\ status' \in {"running", "ok", "canceled"}
  BY QuietIs DEF fileVars
<1>2. CASE file = NoFile
  BY <1>1, <1>2, SameAnswer
<1>3. CASE file # NoFile
  <2>1. status' \in {"running", "canceled"}
    BY <1>3 DEF Quiet, Finish, Cancel, Change
  <2>2. CASE ~Glob /\ Roots # {} /\ ~missed
    <3>1. /\ ~truncated /\ out = want \o Rendered
          /\ \A k \in 1..Len(file.lines) : file.lines[k] # "long"
          /\ search.mode = "files" => Hits(file.lines) = {}
          /\ search.mode = "content" => LineInv(file)
      BY <1>3, <2>2 DEF AnswerInv
    <3>2. Rendered' = Rendered
      BY <1>1 DEF Rendered, Render, Slots, Visible, Gaps, Window, SlotUnit, Hits, Ascending, InOrder, Separator
    <3>3. Hits(file.lines)' = Hits(file.lines) /\ (LineInv(file)' <=> LineInv(file))
      BY <1>1, SameRequest DEF LineInv, Recent, Hits
    <3>4. search'.mode = search.mode /\ file' = file /\ file' # NoFile
      BY <1>1, <1>3
    <3>5. out' = want' \o Rendered' /\ ~truncated'
      BY <1>1, <3>1, <3>2
    <3> QED
      BY <2>1, <3>1, <3>3, <3>4, <3>5 DEF AnswerInv
  <2>3. CASE ~(~Glob /\ Roots # {} /\ ~missed)
    BY <1>1, <2>3, SameRequest DEF AnswerInv
  <2> QED
    BY <2>2, <2>3
<1> QED
  BY <1>2, <1>3

\* A file in which nothing has been read.
LEMMA NothingRead ==
  ASSUME SearchTypes, Roots # {}, ~Glob, NEW path \in Name, NEW g, g = NewFile(path)
  PROVE  /\ Len(g.lines) = 0 /\ Hits(g.lines) = {} /\ Render(path, g.lines) = <<>>
         /\ g.path = path /\ LineInv(g)
<1>1. g.lines = <<>> /\ g.previous = <<>> /\ g.group = FALSE /\ g.emitted = -1 /\ g.path = path
  BY DEF NewFile
<1> DEFINE lines == g.lines
<1>2. lines \in Text /\ Len(lines) = 0
  BY <1>1 DEF Text
<1>3. Hits(lines) = {}
  BY <1>2, HitsAre
<1>4. search.before \in Nat /\ search.after \in Nat
  BY Request DEF SearchTypes
<1> HIDE DEF lines
<1>5. Slots(lines) = {}
  BY <1>3 DEF Slots, Visible, Gaps, Window
<1>6. Render(path, lines) = <<>>
  <2>1. Render(path, lines) \in Seq(Unit) /\ Len(Render(path, lines)) = Len(Ascending(Slots(lines)))
    BY <1>2, RenderIs
  <2>2. Len(Ascending(Slots(lines))) = 0
    <3>1. {} \in SUBSET Int /\ IsFiniteSet({}) /\ Cardinality({}) = 0
      BY FS_EmptySet
    <3>2. Len(Ascending({})) = 0
      BY <3>1, AscendingIs
    <3> QED
      BY <1>5, <3>2
  <2> DEFINE q == Render(path, lines)
  <2>3. q \in Seq(Unit) /\ Len(q) = 0
    BY <2>1, <2>2
  <2> HIDE DEF q
  <2>4. q = <<>>
    BY <2>3
  <2> QED
    BY <2>4 DEF q
<1>7. ShownTo(lines) = -1
  BY <1>2, <1>3 DEF ShownTo
<1>8. Low(0, search.before) = 0
  BY <1>4 DEF Low
<1>9. Recent(g, 0)
  <2>1. Len(g.previous) = 0
    BY <1>1
  <2> QED
    BY <2>1 DEF Recent
<1> QED
  BY <1>1, <1>2, <1>3, <1>6, <1>7, <1>8, <1>9 DEF LineInv, lines

LEMMA OpenAnswer ==
  ASSUME SearchTypes, AnswerInv, NEW r \in Roots, DaemonOpen(r)
  PROVE  AnswerInv'
<1> DEFINE path == walks[r].head
<1>1. /\ ~Glob /\ Roots # {} /\ UNCHANGED <<search, out, want>> /\ status = "running" /\ file = NoFile
      /\ path \in Paths /\ path \in Name
  <2>1. Take(r) /\ path \in Paths
    BY OpenStep
  <2> QED
    BY <2>1, TakenIs DEF DaemonOpen, fileVars, Take
<1>2. \/ status' = status /\ Searched(path)
      \/ UNCHANGED <<file, missed, truncated>>
      \/ missed'
  <2> HIDE DEF path
  <2> QED
    BY DEF DaemonOpen, Binary, TooLarge, Skip, path
<1>3. CASE missed'
  BY <1>3 DEF AnswerInv
<1>4. CASE UNCHANGED <<file, missed, truncated>>
  BY <1>1, <1>4, SameAnswer
<1>5. CASE ~missed' /\ status' = status /\ Searched(path)
  <2>1. file' = NewFile(path) /\ ~missed /\ truncated' = truncated /\ file' # NoFile
    BY <1>1, <1>5, NewFileIs DEF Searched
  <2>2. ~truncated /\ ShowsEveryMatch
    BY <1>1, <2>1 DEF AnswerInv
  <2>3. search.limit \in Nat /\ want \in Seq(Unit)
    BY Request DEF SearchTypes
  <2>4. out = want
    <3> DEFINE n == IF search.limit = 0 THEN Len(want) ELSE Low(search.limit, Len(want))
    <3>1. Len(want) \in Nat /\ SubSeq(want, 1, Len(want)) = want
      BY <2>3
    <3>2. out = SubSeq(want, 1, n) /\ ~(search.limit # 0 /\ Len(want) > search.limit)
      BY <1>1, <2>1, <2>2 DEF ShowsEveryMatch
    <3>3. n = Len(want)
      BY <2>3, <3>1, <3>2 DEF Low
    <3> HIDE DEF n
    <3> QED
      BY <3>1, <3>2, <3>3
  <2> DEFINE g == NewFile(path)
  <2>5. Len(g.lines) = 0 /\ Hits(g.lines) = {} /\ Render(path, g.lines) = <<>> /\ g.path = path /\ LineInv(g)
    BY <1>1, NothingRead
  <2> HIDE DEF path, g
  <2>6. file' = g
    BY <2>1 DEF g
  <2>7. Rendered' = <<>>
    <3>1. Render(file.path, file.lines)' = Render(file'.path, file'.lines)
      BY <1>1, SameRequest
    <3>2. Render(file.path, file.lines)' = <<>>
      BY <2>5, <2>6, <3>1
    <3> QED
      BY <3>2 DEF Rendered
  <2>8. out' = want' \o Rendered'
    BY <1>1, <2>3, <2>4, <2>7
  <2>9. Hits(file.lines)' = {} /\ LineInv(file)' /\ Len(file'.lines) = 0
    BY <1>1, <2>5, <2>6, SameRequest DEF LineInv, Recent, Hits
  <2> QED
    BY <1>1, <1>5, <2>1, <2>2, <2>8, <2>9 DEF AnswerInv
<1> QED
  BY <1>2, <1>3, <1>4, <1>5

LEMMA NextAnswer ==
  ASSUME SearchTypes, TreeInv, WalkInv, AnswerInv, Next
  PROVE  AnswerInv'
<1>1. CASE \E r \in Roots : WalkStep(r)
  <2>1. PICK r \in Roots : WalkStep(r)
    BY <1>1
  <2>2. UNCHANGED <<search, file, out, want, missed, truncated>>
    BY <2>1, WalkStepIs DEF fileVars
  <2>3. file = NoFile /\ status = "running"
    BY <2>1 DEF WalkStep, BeginRoot, ListDirectory, LeaveDirectory, DaemonEntry, AtEntry, Walking
  <2> QED
    BY <2>2, <2>3, SameAnswer
<1>2. CASE \E r \in Roots : DaemonGlob(r)
  <2>1. Glob /\ UNCHANGED search
    BY <1>2 DEF DaemonGlob, List
  <2>2. Glob'
    BY <2>1, SameRequest
  <2> QED
    BY <2>2 DEF AnswerInv
<1>3. CASE \E r \in Roots : DaemonOpen(r)
  BY <1>3, OpenAnswer
<1>4. CASE InFileStep
  BY <1>4, ReadLineAnswer, EndFileAnswer DEF InFileStep
<1>5. CASE Quiet
  BY <1>5, QuietAnswer
<1> QED
  BY <1>1, <1>2, <1>3, <1>4, <1>5, NextIs

LEMMA InitAnswer ==
  ASSUME Init
  PROVE  AnswerInv
<1>1. out = <<>> /\ want = <<>> /\ file = NoFile /\ truncated = FALSE /\ Len(want) = 0
  BY DEF Init
<1>2. search.limit \in Nat
  BY Request DEF Init
<1> DEFINE n == IF search.limit = 0 THEN Len(want) ELSE Low(search.limit, Len(want))
<1>3. n = 0 /\ ~(Len(want) > search.limit)
  BY <1>1, <1>2 DEF Low
<1>4. out = SubSeq(want, 1, n)
  <2> HIDE DEF n
  <2>1. SubSeq(want, 1, 0) = <<>>
    BY <1>1
  <2> QED
    BY <1>1, <1>3, <2>1
<1>5. ShowsEveryMatch
  BY <1>1, <1>3, <1>4 DEF ShowsEveryMatch
<1> QED
  BY <1>1, <1>5 DEF AnswerInv

\* The inductive invariant: how far the walks are, what they have still to come
\* to and in which order, what the child wrote, what the reader remembers.
THEOREM SearchInvariant == ProcessSpec => [](WalkingInv /\ AnswerInv)
<1>1. ProcessInit => AnswerInv
  BY InitAnswer DEF ProcessInit
<1>2. WalkingInv /\ AnswerInv /\ [ProcessNext]_allVars => AnswerInv'
  <2> SUFFICES ASSUME WalkingInv, AnswerInv, [ProcessNext]_allVars PROVE AnswerInv'
    OBVIOUS
  <2>1. CASE Next /\ UNCHANGED processVars
    BY <2>1, NextAnswer DEF WalkingInv
  <2>2. CASE ChildStep
    <3>1. UNCHANGED walkVars /\ pc # "walk"
      BY <2>2 DEF ChildStep, ChildWrites, ChildQuiet, ChildEnds, ReadUnit, ProbeMore, EndOfOutput, ContextEnds,
             PassSignal, KillAfter, ChildReaped, Stay, Reading
    <3>2. Roots' = {}
      BY <3>1 DEF WalkingInv, ChildInv, Roots, walkVars
    <3> QED
      BY <3>2 DEF AnswerInv
  <2>3. CASE UNCHANGED allVars
    <3>1. UNCHANGED <<search, file, out, want, missed, truncated, status>>
      BY <2>3 DEF allVars, vars, fileVars
    <3>2. /\ Roots' = Roots /\ Glob' = Glob /\ Rendered' = Rendered /\ (ShowsEveryMatch' <=> ShowsEveryMatch)
          /\ Hits(file.lines)' = Hits(file.lines) /\ (LineInv(file)' <=> LineInv(file))
      <4>1. Rendered' = Rendered
        BY <3>1 DEF Rendered, Render, Slots, Visible, Gaps, Window, SlotUnit, Hits, Ascending, InOrder, Separator
      <4>2. Hits(file.lines)' = Hits(file.lines) /\ (LineInv(file)' <=> LineInv(file))
        BY <3>1, SameRequest DEF LineInv, Recent, Hits
      <4>3. Roots' = Roots /\ Glob' = Glob /\ (ShowsEveryMatch' <=> ShowsEveryMatch)
        BY <3>1 DEF Roots, Glob, ShowsEveryMatch
      <4> QED
        BY <4>1, <4>2, <4>3
    <3> QED
      BY <3>1, <3>2 DEF AnswerInv
  <2> QED
    BY <2>1, <2>2, <2>3 DEF ProcessNext, ChildStep
<1> QED
  BY <1>1, <1>2, WalkingStays, PTL DEF ProcessSpec

\* ShowsEveryMatch, for every request and every text of the files: the reader
\* shows, one line at a time, what a search that has the whole file would show
\* (daemonCollectGrepContent).
THEOREM SearchShowsEveryMatch == ProcessSpec => []ShowsEveryMatch
<1>1. WalkingInv /\ AnswerInv => ShowsEveryMatch
  BY DEF AnswerInv, ShowsEveryMatch
<1> QED
  BY <1>1, SearchInvariant, PTL
=============================================================================
