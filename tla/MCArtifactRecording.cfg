SPECIFICATION Spec
CONSTANTS
  c1 = c1
  c2 = c2
  unreadable = unreadable
  Names <- MCNames
  Root = "/"
  Home <- MCHome
  Dirs <- MCDirs
  Trees <- MCTrees
  Contents <- MCContents
  Unreadable = unreadable
  Calls <- MCCalls
  ArtifactBasePath <- MCArtifactBasePath
  MaxChanges = 1
INVARIANTS
  TypeOK
  RecordsExactly
  StaysPut
  MatchExact
\* A process that makes no more calls.
CHECK_DEADLOCK FALSE
