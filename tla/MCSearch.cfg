CONSTANTS
  Paths <- MCPaths
  Dirs <- MCDirs
  Searches <- MCSearches
SPECIFICATION ProcessSpec
CHECK_DEADLOCK FALSE
INVARIANTS TypeOK ShowsEveryMatch HonestAnswer ProcessAnswer
