------------------------------ MODULE MCSearch ------------------------------
(* The trees and the requests that TLC searches.                           *)
EXTENDS SearchProcess

MCDirs == {<<>>, <<1>>}
MCPaths == {<<-1>>, <<1>>, <<2>>, <<1, -9>>, <<1, 1>>, <<1, 2>>}

Trees ==
  {t \in [MCPaths -> Kinds] :
     /\ t[<<-1>>] = "file" /\ t[<<2>>] \in {"file", "link"}
     /\ t[<<1, -9>>] = "file" /\ t[<<1>>] = "dir"
     /\ t[<<1, 1>>] = "file" /\ t[<<1, 2>>] # "dir"}

\* One file below the root and one beside it: the walk is short, the files long.
TwoFiles ==
  [p \in MCPaths |-> CASE p = <<1>> -> "dir" [] p \in {<<2>>, <<1, 1>>} -> "file" [] OTHER -> "none"]

Patterns ==
  {{<<Star>>}, {<<DoubleStar, 2>>}, {<<1, DoubleStar>>}, {<<1, Star>>, <<2>>}, {<<-1>>}}

Globs ==
  [job : {"glob"}, tree : Trees, pattern : Patterns,
   limit : {1, 2, 5}, roots : {<<<<>>>>, <<<<1>>, <<>>>>}, changes : {1}, lines : {0}]

\* The tree changes under a search that reads little,
Greps ==
  [job : {"grep"}, tree : Trees, roots : {<<<<>>>>},
   limit : {0, 1}, mode : {"files", "count"}, before : {0}, after : {0},
   changes : {1}, lines : {1}]

\* and stays as it is under one that reads more: lines that the context joins
\* and lines that it does not.
Lines ==
  [job : {"grep"}, tree : {TwoFiles}, roots : {<<<<>>>>},
   limit : {0, 1, 4}, mode : {"content"}, before : {0, 1, 2}, after : {0, 1, 2},
   changes : {0}, lines : {6}]
Others ==
  [job : {"grep"}, tree : {TwoFiles}, roots : {<<<<>>>>},
   limit : {0, 1, 2}, mode : {"files", "count", "multiline"}, before : {0}, after : {0},
   changes : {0}, lines : {4}]

\* No roots: fd and rg do the search.  Every glob has a limit.
Children ==
  [job : {"glob", "grep"}, tree : {TwoFiles}, roots : {<<>>}, limit : {0, 1, 2},
   mode : {"content"}, changes : {0}, lines : {4}]
Processes == {c \in Children : c.job = "glob" => c.limit > 0}

MCSearches == Globs \union Greps \union Lines \union Others \union Processes
=============================================================================
