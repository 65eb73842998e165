SPECIFICATION Spec
CONSTANTS
  Processes = {p1, p2}
  Paths <- MCPaths
  LinkFile <- MCLinkFile
  Keys <- MCKeys
  Keyids <- MCKeyids
  MissingKey = "none"
  DefaultGpgKey = "gpg"
  SigningKeyid <- MCSigningKeyid
  Subkeys <- MCSubkeys
  Payloads = {1, 2}
  Requests <- MCRequests
  StartFiles <- MCStartFiles
  Absent = absent
  Torn = torn
  None = none
  MaxRuns = 3
  MaxEdits = 1
INVARIANTS
  TypeOK
  ExitsTruthfully
  SignaturesKept
\* Processes that are not started again.
CHECK_DEADLOCK FALSE
