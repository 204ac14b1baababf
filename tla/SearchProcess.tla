---------------------------- MODULE SearchProcess ----------------------------
(***************************************************************************)
(* glob and grep with fd and rg where they are installed: a child process  *)
(* writes the answer, which daemonRunProcessWithLimits reads up to the     *)
(* limit; then the child is stopped.                                       *)
(* A request without roots is made with a child, any other as in Search.   *)
(***************************************************************************)
EXTENDS Search

VARIABLES
  pc,      \* "walk" for a search without child, else what the reader does
  child,   \* "alive", "quiet" when it has closed its output, "dead"
  code,    \* its exit code, -1 after a signal
  wrote,   \* units it has written
  term,    \* SIGTERM has been sent to its group
  ctxDone, \* the context of the request has ended
  alien    \* history: somebody else has killed it

childVars == <<child, code, wrote>>
processVars == <<pc, childVars, term, ctxDone, alien>>
walkVars == <<search, treeVars, walks, fileVars>>
allVars == <<vars, processVars>>

\* fd is asked for one line more than the answer may have.
UnitLimit == IF Glob THEN search.limit + 1 ELSE search.limit
Read == Len(out)
AtLimit == UnitLimit > 0 /\ Read = UnitLimit
Reading == pc = "reading"
Stay(v) == UNCHANGED <<walkVars, v>>

-----------------------------------------------------------------------------
(* The child                                                               *)

ChildWrites ==
  /\ pc \notin {"walk", "answered"} /\ child = "alive" /\ wrote < search.lines
  /\ wrote' = wrote + 1
  /\ Stay(<<out, truncated, status, pc, child, code, term, ctxDone, alien>>)

ChildQuiet ==
  /\ pc \notin {"walk", "answered"} /\ child = "alive"
  /\ child' = "quiet"
  /\ Stay(<<out, truncated, status, pc, code, wrote, term, ctxDone, alien>>)

\* It ends by itself, by the SIGTERM of its reader, or killed by another.
ChildEnds(result, killed) ==
  /\ pc # "walk" /\ child # "dead"
  /\ killed => result = -1
  /\ result = -1 => killed \/ term
  /\ child' = "dead" /\ code' = result /\ alien' = (killed /\ ~term)
  /\ Stay(<<out, truncated, status, pc, wrote, term, ctxDone>>)

-----------------------------------------------------------------------------
(* The reader                                                              *)

ReadUnit ==
  /\ Reading /\ ~AtLimit /\ Read < wrote
  /\ out' = Append(out, <<None, Read, TRUE>>)
  /\ Stay(<<truncated, status, processVars>>)

\* One byte more than the limit: the child is to stop.
ProbeMoreAnyway ==
  /\ Reading /\ AtLimit
  /\ pc' = "stopping" /\ term' = TRUE
  /\ Stay(<<out, truncated, status, childVars, ctxDone, alien>>)
ProbeMore ==
  /\ Reading /\ AtLimit /\ Read < wrote
  /\ pc' = "stopping" /\ term' = TRUE
  /\ Stay(<<out, truncated, status, childVars, ctxDone, alien>>)

\* Only after the end of the output does the reader itself look at the context.
EndOfOutput ==
  /\ Reading /\ Read = wrote /\ child # "alive"
  /\ pc' = "waiting" /\ term' = (term \/ ctxDone)
  /\ Stay(<<out, truncated, status, childVars, ctxDone, alien>>)

ContextEnds ==
  /\ pc \notin {"walk", "answered"} /\ ~ctxDone
  /\ ctxDone' = TRUE
  /\ Stay(<<out, truncated, status, pc, childVars, term, alien>>)

\* The goroutine that passes the end of the context on to the group.
PassSignal ==
  /\ pc \notin {"walk", "answered"} /\ ctxDone /\ ~term
  /\ term' = TRUE
  /\ Stay(<<out, truncated, status, pc, childVars, ctxDone, alien>>)

\* Two seconds after SIGTERM.
KillAfter ==
  /\ pc = "stopping" \/ (pc = "waiting" /\ ctxDone /\ term)
  /\ child # "dead"
  /\ child' = "dead" /\ code' = -1
  /\ Stay(<<out, truncated, status, pc, wrote, term, ctxDone, alien>>)

Shorten(units) == SubSeq(units, 1, IF search.limit = 0 THEN Read ELSE Low(search.limit, Read))

\* cmd.Wait.  An answer that is full is given although the context has ended,
\* and the search fails for a code above 1 only.
ChildReaped ==
  /\ pc \in {"stopping", "waiting"} /\ child = "dead"
  /\ pc' = "answered"
  /\ out' = Shorten(out)
  /\ truncated' = (pc = "stopping" \/ Len(out') < Read)
  /\ status' = CASE pc = "stopping" -> "ok"
                 [] pc = "waiting" /\ ctxDone -> "canceled"
                 [] OTHER -> IF code > 1 THEN "failed" ELSE "ok"
  /\ Stay(<<childVars, term, ctxDone, alien>>)

-----------------------------------------------------------------------------

ProcessInit ==
  /\ Init
  /\ pc = (IF Roots = {} THEN "reading" ELSE "walk")
  /\ child = (IF Roots = {} THEN "alive" ELSE "dead")
  /\ code = 0 /\ wrote = 0
  /\ term = FALSE /\ ctxDone = FALSE /\ alien = FALSE

ProcessNext ==
  \/ Next /\ UNCHANGED processVars
  \/ ChildWrites \/ ChildQuiet
  \/ \E result \in {-1, 0, 1, 2}, killed \in BOOLEAN : ChildEnds(result, killed)
  \/ ReadUnit \/ ProbeMore \/ EndOfOutput
  \/ ContextEnds \/ PassSignal \/ KillAfter \/ ChildReaped

ProcessSpec == ProcessInit /\ [][ProcessNext]_allVars

\* An answer that comes from a child leaves no child behind, is what the child
\* wrote first, and says whether the child wrote more; one that was canceled is
\* given only when it is full.  The exit code of a child that another program
\* killed is excepted: it is -1, which is not above 1.
ProcessAnswer ==
  pc = "answered" =>
    /\ child = "dead"
    /\ \A i \in DOMAIN out : out[i] = <<None, i - 1, TRUE>>
    /\ status = "ok" /\ ~truncated => Read = wrote /\ ~ctxDone /\ (~alien => code \in {0, 1})
    /\ truncated => search.limit > 0 /\ Read = search.limit /\ wrote > Read
=============================================================================
