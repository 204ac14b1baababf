------------------------------- MODULE Search -------------------------------
(***************************************************************************)
(* glob and grep without fd and rg (daemon_filesystem.go), in the daemon   *)
(* and in the helper that runs the same code without one.  Both walk the   *)
(* roots of a request through a tree that other programs change meanwhile, *)
(* read the files one line at a time, and stop at the limit of the answer. *)
(*                                                                         *)
(* A name is an integer, and -n is the hidden file ".n".                   *)
(***************************************************************************)
EXTENDS Integers, SequencesExt

CONSTANTS
  Paths,    \* relative paths, sequences of names; all but Dirs are leaves
  Dirs,     \* the paths that may be directories, <<>> the working directory
  Searches  \* requests: tree and parameters, and two bounds: the
            \* changes that other programs make and the lines that are read

VARIABLES
  search,     \* the request
  tree,       \* what each path names
  standing,   \* history: regular files that have been there all the time
  changes,    \* changes made so far
  walks,      \* for each root the state of its walk
  file,       \* the file being read, or NoFile
  linesLeft,  \* lines that may still be read
  out,        \* the answer: matches, lines of context, separators
  truncated,  \* the answer says that it is not complete
  status,     \* "running", "ok", "failed" or "canceled"
  opened,     \* history: files that were opened
  want,       \* history: what the files read so far should show
  missed      \* history: something could not be searched

ASSUME PathsAssumption ==
  /\ IsFiniteSet(Paths) /\ Paths \subseteq Seq(Int) \ {<<>>, <<-100>>}
  /\ \A p \in Paths : Front(p) \in Paths \union {<<>>}
  /\ <<>> \in Dirs /\ Dirs \subseteq Paths \union {<<>>}

ASSUME SearchesAssumption ==
  \A s \in Searches :
    /\ s.job \in {"glob", "grep"}
    /\ s.roots \in Seq(Paths \union {<<>>})
    /\ s.limit \in Nat /\ s.changes \in Nat /\ s.lines \in Nat
    \* What is below a directory that is not there is not there.
    /\ s.tree \in [Paths -> {"none", "file", "dir", "link"}]
    /\ \A p \in Paths : s.tree[p] = "dir" => p \in Dirs
    /\ \A p \in Paths :
         s.tree[p] # "none" /\ Front(p) # <<>> => s.tree[Front(p)] = "dir"
    \* Every glob has a limit (daemonNormalizeGlobLimit), and no pattern is empty.
    /\ s.job = "glob" => s.limit > 0
    /\ s.job = "glob" /\ s.roots # <<>> => s.pattern \subseteq Seq(Int) \ {<<>>}
    /\ s.job = "grep" /\ s.roots # <<>> =>
         /\ s.mode \in {"content", "files", "count", "multiline"}
         /\ s.before \in Nat /\ s.after \in Nat

treeVars == <<tree, standing, changes>>
fileVars == <<file, linesLeft, opened, want, missed>>
vars == <<search, treeVars, walks, fileVars, out, truncated, status>>

Git == -9
Star == 100   \* the segment "*"
DoubleStar == 101   \* the segment "**"
None == <<-100>>
NoFile == [path |-> None]
Kinds == {"none", "file", "dir", "link"}
Separator == <<None, -1, FALSE>>
Glob == search.job = "glob"
Roots == DOMAIN search.roots

Low(a, b) == IF a < b THEN a ELSE b
Smallest(S) == CHOOSE x \in S : \A y \in S : x <= y

\* The elements of S in the order of their keys, which are different.
InOrder(S, key) ==
  [k \in 1..Cardinality(S) |->
     CHOOSE x \in S : Cardinality({y \in S : key[y] < key[x]}) = k - 1]
Ascending(S) == InOrder(S, [x \in S |-> x])

-----------------------------------------------------------------------------
(* Names and paths                                                         *)

ShouldSkip(name) == name = Git \/ (~Glob /\ name < 0)

\* The path below a root; a root that is a file has its name.
Relative(root, path) ==
  IF root = path THEN <<Last(path)>> ELSE SubSeq(path, Len(root) + 1, Len(path))

SegmentMatches(segment, name) == segment \in {Star, DoubleStar, name}

Places(pattern, path) == (1..(Len(pattern) + 1)) \X (1..(Len(path) + 1))

\* Mutated matching: "**" stands for one name at least.
MatchSegmentsMore(pattern, path) ==
  LET match[at \in Places(pattern, path)] ==
        LET i == at[1]  j == at[2] IN
        IF i > Len(pattern) THEN j = Len(path) + 1
        ELSE IF pattern[i] = DoubleStar
        THEN i = Len(pattern) \/ \E next \in (j + 1)..(Len(path) + 1) : match[<<i + 1, next>>]
        ELSE j <= Len(path) /\ SegmentMatches(pattern[i], path[j]) /\ match[<<i + 1, j + 1>>]
  IN  match[<<1, 1>>]

DaemonMatchSegments(pattern, path) ==
  LET match[at \in Places(pattern, path)] ==
        LET i == at[1]  j == at[2] IN
        IF i > Len(pattern) THEN j = Len(path) + 1
        ELSE IF pattern[i] = DoubleStar
        THEN i = Len(pattern) \/ \E next \in j..(Len(path) + 1) : match[<<i + 1, next>>]
        ELSE j <= Len(path) /\ SegmentMatches(pattern[i], path[j]) /\ match[<<i + 1, j + 1>>]
  IN  match[<<1, 1>>]

DaemonMatches(pattern, path) ==
  IF Len(pattern) = 1 THEN SegmentMatches(pattern[1], Last(path))
  ELSE DaemonMatchSegments(pattern, path)

\* A pattern is the set of what its braces stand for.
Matches(path) ==
  \E alternative \in search.pattern : DaemonMatches(alternative, path)

-----------------------------------------------------------------------------
(* The tree                                                                *)

KindOf(path) == IF path = <<>> THEN "dir" ELSE tree[path]
Below(path) == {p \in Paths : p # path /\ IsPrefix(path, p)}

Entry(path) == [path |-> path, isDir |-> KindOf(path) = "dir"]

Entries(dir) ==
  {Entry(p) : p \in {q \in Paths : /\ Len(q) = Len(dir) + 1 /\ IsPrefix(dir, q)
                                   /\ tree[q] # "none" /\ ~ShouldSkip(Last(q))}}

\* filepath.WalkDir reads a directory whole, in the order of its names.
DaemonEntries(dir) == InOrder(Entries(dir), [e \in Entries(dir) |-> Last(e.path)])

-----------------------------------------------------------------------------
(* The answer                                                              *)

RoomForOneMore == search.limit - Len(out) + 1
Room == search.limit - Len(out)

\* addLine: what no longer fits is cut off, and ends
\* the search.
Fits(units) == search.limit = 0 \/ Len(units) <= Room
Cut(units) == IF Fits(units) THEN units ELSE SubSeq(units, 1, Room)
Put(units) ==
  /\ out' = out \o Cut(units)
  /\ truncated' = (truncated \/ ~Fits(units))
  /\ status' = IF Fits(units) THEN status ELSE "ok"

Fail == status' = "failed" /\ UNCHANGED <<search, treeVars, walks, fileVars, out, truncated>>

-----------------------------------------------------------------------------
(* What a file should show                                                 *)

Hits(lines) == {i \in 0..(Len(lines) - 1) : lines[i + 1] = "hit"}

\* The lines around each hit, windows that touch merged.
\* Line i is in slot 2 * i + 1; slot 2 * i has the separator before it, if any.
Window(lines, i) ==
  \E h \in Hits(lines) : h - search.before <= i /\ i <= h + search.after
Visible(lines) == {i \in 0..(Len(lines) - 1) : Window(lines, i)}
Gaps(lines) ==
  {i \in Visible(lines) : i - 1 \notin Visible(lines) /\ \E j \in Visible(lines) : j < i}
Slots(lines) == {2 * i + 1 : i \in Visible(lines)} \union {2 * i : i \in Gaps(lines)}
SlotUnit(path, lines, slot) ==
  IF slot % 2 = 0 THEN Separator
  ELSE <<path, (slot - 1) \div 2, (slot - 1) \div 2 \in Hits(lines)>>
Render(path, lines) ==
  LET slots == Ascending(Slots(lines))
  IN  [k \in DOMAIN slots |-> SlotUnit(path, lines, slots[k])]

FileOutput(path, lines) ==
  LET count == Cardinality(Hits(lines)) IN
  CASE search.mode = "content" -> Render(path, lines)
    [] search.mode = "files" /\ count > 0 -> <<<<path, 0, TRUE>>>>
    [] search.mode = "count" /\ count > 0 -> <<<<path, count, TRUE>>>>
    [] search.mode = "multiline" ->
         [k \in 1..count |-> <<path, Ascending(Hits(lines))[k], TRUE>>]
    [] OTHER -> <<>>

-----------------------------------------------------------------------------
(* The walk                                                                *)

NewWalk == [began |-> FALSE, stack |-> <<>>, head |-> None]
Frame(dir) == [dir |-> dir, todo |-> <<>>, more |-> TRUE]
Done(r) == walks[r].began /\ walks[r].stack = <<>> /\ walks[r].head = None

\* One root after the other.
Walking(r) ==
  /\ status = "running" /\ file = NoFile
  /\ walks[r].head = None /\ ~Done(r)
  /\ r = Smallest({s \in Roots : ~Done(s)})

Advance(r, walk) ==
  /\ walks' = [walks EXCEPT ![r] = walk]
  /\ UNCHANGED <<search, treeVars, fileVars, out, truncated, status>>

Top(r) == Last(walks[r].stack)
Replaced(r, frame) == [walks[r] EXCEPT !.stack = Front(@) \o <<frame>>]

BeginRoot(r) ==
  LET root == search.roots[r]
      begun == [walks[r] EXCEPT !.began = TRUE]
  IN /\ Walking(r) /\ ~walks[r].began
     /\ CASE KindOf(root) = "none" -> Fail
          [] KindOf(root) = "dir"  -> Advance(r, [begun EXCEPT !.stack = <<Frame(root)>>])
          [] KindOf(root) = "file" /\ ~ShouldSkip(Last(root)) ->
               Advance(r, [begun EXCEPT !.head = root])
          [] OTHER -> Advance(r, begun)

\* A directory that is gone by now, or is none any more, fails the walk.
ListDirectory(r) ==
  LET frame == Top(r) IN
  /\ Walking(r) /\ walks[r].stack # <<>>
  /\ frame.todo = <<>> /\ frame.more
  /\ IF KindOf(frame.dir) # "dir" THEN Fail
     ELSE Advance(r, Replaced(r,
            [frame EXCEPT !.todo = DaemonEntries(frame.dir), !.more = FALSE]))

LeaveDirectory(r) ==
  /\ Walking(r) /\ walks[r].stack # <<>>
  /\ Top(r).todo = <<>> /\ ~Top(r).more
  /\ Advance(r, [walks[r] EXCEPT !.stack = Front(@)])

EntryKind(r) == KindOf(Head(Top(r).todo).path)
Rest(r) == Replaced(r, [Top(r) EXCEPT !.todo = Tail(@)])
Into(r) == [Rest(r) EXCEPT !.stack = @ \o <<Frame(Head(Top(r).todo).path)>>]
Yield(r) == [Rest(r) EXCEPT !.head = Head(Top(r).todo).path]
AtEntry(r) == Walking(r) /\ walks[r].stack # <<>> /\ Top(r).todo # <<>>

\* What the directory said is no directory is looked at again.
DaemonEntry(r) ==
  /\ AtEntry(r)
  /\ IF Head(Top(r).todo).isDir THEN Advance(r, Into(r))
     ELSE CASE EntryKind(r) = "none" -> Fail
            [] EntryKind(r) = "file" -> Advance(r, Yield(r))
            [] OTHER -> Advance(r, Rest(r))

Take(r) ==
  /\ status = "running" /\ file = NoFile
  /\ walks[r].head # None /\ \A s \in Roots : s < r => Done(s)
  /\ walks' = [walks EXCEPT ![r].head = None]

List(path, wanted) ==
  /\ IF wanted THEN Put(<<<<path, 0, TRUE>>>>) ELSE UNCHANGED <<out, truncated, status>>
  /\ UNCHANGED <<search, treeVars, fileVars>>

DaemonGlob(r) ==
  LET path == walks[r].head IN
  /\ Glob /\ Take(r)
  /\ List(path, Matches(Relative(search.roots[r], path)))

NewFile(path) ==
  [path |-> path, lines |-> <<>>, previous |-> <<>>, group |-> FALSE,
   end |-> -1, emitted |-> -1]

Searched(path) == file' = NewFile(path) /\ UNCHANGED <<missed, truncated>>
Binary == UNCHANGED <<file, missed, truncated>>
TooLarge == truncated' = TRUE /\ missed' = TRUE /\ UNCHANGED file
Skip == UNCHANGED <<file, opened, missed, truncated, status>>

\* It is opened without following a link; a file that is gone fails the search.
DaemonOpen(r) ==
  LET path == walks[r].head IN
  /\ ~Glob /\ Take(r)
  /\ CASE tree[path] = "file" -> /\ opened' = opened \union {path} /\ UNCHANGED status
                                 /\ Searched(path) \/ Binary \/ TooLarge
       [] tree[path] = "dir"  -> Skip
       [] OTHER -> status' = "failed" /\ UNCHANGED <<file, opened, missed, truncated>>
  /\ UNCHANGED <<search, treeVars, out, linesLeft, want>>

-----------------------------------------------------------------------------
(* Reading a file                                                          *)

Index == Len(file.lines)
Context(indexes) == [k \in DOMAIN indexes |-> <<file.path, indexes[k], FALSE>>]
Kept(indexes) == SubSeq(indexes, Len(indexes) - Low(Len(indexes), search.before) + 1, Len(indexes))
Opt(condition, unit) == IF condition THEN <<unit>> ELSE <<>>

\* Mutated group: the context of the last match is shown once more.
HitAgain ==
  LET i == Index
      start == IF i < search.before THEN 0 ELSE i - search.before
      fresh == ~file.group \/ start > file.end + 1
      prior == Ascending({k \in Range(file.previous) : k >= start})
  IN  [units |-> Opt(fresh /\ file.group, Separator)
                   \o Context(prior) \o <<<<file.path, i, TRUE>>>>,
       file  |-> [file EXCEPT !.previous = Kept(@ \o <<i>>), !.group = TRUE, !.emitted = i,
                              !.end = IF i + search.after > @ \/ fresh
                                      THEN i + search.after ELSE @]]

\* daemonCollectGrepContent, for one line: the file after it and what it shows.
DaemonHit ==
  LET i == Index
      start == IF i < search.before THEN 0 ELSE i - search.before
      fresh == ~file.group \/ start > file.end + 1
      prior == Ascending({k \in Range(file.previous) : k >= start /\ k > file.emitted})
  IN  [units |-> Opt(fresh /\ file.group, Separator)
                   \o Context(prior) \o <<<<file.path, i, TRUE>>>>,
       file  |-> [file EXCEPT !.previous = Kept(@ \o <<i>>), !.group = TRUE, !.emitted = i,
                              !.end = IF i + search.after > @ \/ fresh
                                      THEN i + search.after ELSE @]]

DaemonMiss ==
  LET i == Index
      shown == file.group /\ i <= file.end /\ i > file.emitted
  IN  [units |-> Opt(shown, <<file.path, i, FALSE>>),
       file  |-> [file EXCEPT !.previous = Kept(@ \o <<i>>),
                              !.emitted = IF shown THEN i ELSE @]]

\* A line that is too long is not searched, nor shown around another.
DaemonLong == [units |-> <<>>, file |-> [file EXCEPT !.previous = <<>>]]

Shown(line) ==
  CASE line = "long" -> DaemonLong
    [] line = "hit"  -> DaemonHit
    [] line = "miss" -> DaemonMiss

Close(lines) ==
  /\ file' = NoFile
  /\ want' = want \o FileOutput(file.path, lines)

ContentLine(line) ==
  LET step == Shown(line)
      lines == Append(file.lines, line)
  IN /\ out' = out \o Cut(step.units)
     /\ truncated' = (truncated \/ ~Fits(step.units) \/ line = "long")
     /\ IF Fits(step.units)
        THEN file' = [step.file EXCEPT !.lines = lines] /\ UNCHANGED <<want, status>>
        ELSE Close(lines) /\ status' = "ok"

FirstMatch(line) == Put(<<<<file.path, 0, TRUE>>>>) /\ Close(Append(file.lines, line))

CountLine(line) ==
  /\ file' = [file EXCEPT !.lines = Append(@, line)]
  /\ truncated' = (truncated \/ line = "long")
  /\ UNCHANGED <<out, status, want>>

\* The next line: a match, none, or one that is too long to be searched.
ReadLine(line) ==
  /\ status = "running" /\ file # NoFile /\ linesLeft > 0
  /\ line = "long" => search.mode # "multiline"
  /\ linesLeft' = linesLeft - 1
  /\ missed' = (missed \/ line = "long")
  /\ UNCHANGED <<search, treeVars, walks, opened>>
  /\ CASE search.mode = "content" -> ContentLine(line)
       [] search.mode = "files" /\ line = "hit" -> FirstMatch(line)
       [] OTHER -> CountLine(line)

Count(lines) ==
  LET count == Cardinality(Hits(lines)) IN Opt(count > 0, <<file.path, count, TRUE>>)
AllMatches(lines) ==
  LET inOrder == Ascending(Hits(lines))
  IN  [k \in DOMAIN inOrder |-> <<file.path, inOrder[k], TRUE>>]

\* Counts, and the matches of a multiline search, are shown at the end.
EndFile ==
  /\ status = "running" /\ file # NoFile
  /\ Put(CASE search.mode = "count" -> Count(file.lines)
           [] search.mode = "multiline" -> AllMatches(file.lines)
           [] OTHER -> <<>>)
  /\ Close(file.lines)
  /\ UNCHANGED <<search, treeVars, walks, linesLeft, opened, missed>>

\* Nothing more is read in a file that grows past the input limit.
InputLimit ==
  LET counted == IF search.mode = "count" THEN Count(file.lines) ELSE <<>>
  IN /\ status = "running" /\ file # NoFile
     /\ out' = out \o Cut(counted)
     /\ status' = IF Fits(counted) THEN status ELSE "ok"
     /\ truncated' = TRUE /\ missed' = TRUE
     /\ Close(file.lines)
     /\ UNCHANGED <<search, treeVars, walks, linesLeft, opened>>

-----------------------------------------------------------------------------
(* The search                                                              *)

Finish ==
  /\ status = "running" /\ file = NoFile /\ Roots # {}
  /\ \A r \in Roots : Done(r)
  /\ status' = "ok"
  /\ UNCHANGED <<search, treeVars, walks, fileVars, out, truncated>>

Cancel ==
  /\ status = "running" /\ Roots # {}
  /\ status' = "canceled"
  /\ UNCHANGED <<search, treeVars, walks, fileVars, out, truncated>>

\* Another program creates, removes or replaces a file, a link or a directory.
Change(path, kind) ==
  /\ status = "running" /\ changes < search.changes
  /\ tree[path] # kind
  /\ kind = "dir" => path \in Dirs
  /\ kind # "none" => KindOf(Front(path)) = "dir"
  /\ changes' = changes + 1
  /\ tree' = [p \in Paths |-> IF p = path THEN kind
                              ELSE IF p \in Below(path) THEN "none" ELSE tree[p]]
  /\ standing' = standing \ ({path} \union Below(path))
  /\ UNCHANGED <<search, walks, fileVars, out, truncated, status>>

Init ==
  /\ search \in Searches
  /\ tree = search.tree
  /\ standing = {p \in Paths : tree[p] = "file"}
  /\ changes = 0
  /\ walks = [r \in Roots |-> NewWalk]
  /\ file = NoFile /\ linesLeft = search.lines
  /\ out = <<>> /\ truncated = FALSE /\ status = "running"
  /\ opened = {} /\ want = <<>> /\ missed = FALSE

Next ==
  \/ \E r \in Roots :
       \/ BeginRoot(r) \/ ListDirectory(r) \/ LeaveDirectory(r)
       \/ DaemonEntry(r) \/ DaemonGlob(r) \/ DaemonOpen(r)
  \/ \E line \in {"hit", "miss", "long"} : ReadLine(line)
  \/ EndFile \/ InputLimit
  \/ Finish \/ Cancel
  \/ \E path \in Paths, kind \in Kinds : Change(path, kind)

Spec == Init /\ [][Next]_vars

-----------------------------------------------------------------------------
(* Properties                                                              *)

\* The directories that a walk has entered, each below the one before.
Nested(r) ==
  \A k \in DOMAIN walks[r].stack :
    LET dir == walks[r].stack[k].dir
    IN  /\ dir \in Dirs
        /\ IF k = 1 THEN dir = search.roots[r]
           ELSE dir # <<>> /\ Front(dir) = walks[r].stack[k - 1].dir

\* The state is well formed, and an answer never has more than its limit.
TypeOK ==
  /\ search \in Searches
  /\ tree \in [Paths -> Kinds] /\ standing \subseteq Paths /\ opened \subseteq Paths
  /\ changes \in 0..search.changes /\ linesLeft \in 0..search.lines
  /\ \A r \in Roots : walks[r].head \in Paths \union {None} /\ Nested(r)
  /\ file.path \in Paths \union {None}
  /\ status \in {"running", "ok", "failed", "canceled"}
  /\ truncated \in BOOLEAN /\ missed \in BOOLEAN
  /\ search.limit > 0 /\ Roots # {} => Len(out) <= search.limit

\* Reading one line at a time, the search shows each match with its context
\* once, in groups that are separated exactly where lines are left out, and cut
\* at the limit: what a search that has the whole file would show
\* (daemonCollectGrepContent).
ShowsEveryMatch ==
  ~Glob /\ Roots # {} /\ file = NoFile /\ ~missed =>
    /\ out = SubSeq(want, 1, IF search.limit = 0 THEN Len(want) ELSE Low(search.limit, Len(want)))
    /\ truncated = (search.limit # 0 /\ Len(want) > search.limit)

\* What a pattern means: "**" stands for any number of names, another segment
\* for one; what segment i stands for ends where that of segment i + 1 begins.
Names(pattern, path) ==
  \E from \in [1..(Len(pattern) + 1) -> 1..(Len(path) + 1)] :
    /\ from[1] = 1 /\ from[Len(pattern) + 1] = Len(path) + 1
    /\ \A i \in DOMAIN pattern :
         IF pattern[i] = DoubleStar THEN from[i] <= from[i + 1]
         ELSE from[i + 1] = from[i] + 1 /\ SegmentMatches(pattern[i], path[from[i]])

Named(path) ==
  \E r \in Roots, alternative \in search.pattern :
    /\ IsPrefix(search.roots[r], path)
    /\ LET rel == Relative(search.roots[r], path)
       IN  Names(alternative, IF Len(alternative) = 1 THEN <<Last(rel)>> ELSE rel)

Sought ==
  {p \in standing : /\ \E r \in Roots : IsPrefix(search.roots[r], p)
                    /\ \A i \in DOMAIN p : ~ShouldSkip(p[i])}
Listed == {out[i][1] : i \in DOMAIN out}

\* A complete answer has every file that was there all the time, whatever
\* changes beside it while the directories are walked one after another, and
\* nothing that the pattern does not name; an answer from which something was
\* left unsearched says so (daemonGlobFilesFallback, daemonGrepFilesFallback).
HonestAnswer ==
  status = "ok" /\ Roots # {} =>
    /\ ~truncated /\ Glob => \A p \in Sought : Named(p) => p \in Listed
    /\ ~truncated /\ ~Glob => Sought \subseteq opened
    /\ missed => truncated
    /\ Glob => \A p \in Listed : Named(p)
=============================================================================
