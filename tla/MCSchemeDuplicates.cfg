SPECIFICATION Spec
CONSTANTS
  c1 = c1
  c2 = c2
  unreadable = unreadable
  Names <- MCNames
  Root = "/"
  Home <- MCHome
  Dirs <- MCDirs
  Trees <- MCTrees
  Contents <- MCContents
  Unreadable = unreadable
  Calls <- SchemeCalls
  ArtifactBasePath <- MCArtifactBasePath
  MaxChanges = 0
INVARIANT NoNameTwice
CHECK_DEADLOCK FALSE
