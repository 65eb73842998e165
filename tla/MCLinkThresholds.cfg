SPECIFICATION Spec
CONSTANTS
  k1 = k1
  s1 = s1
  k2 = k2
  k3 = k3
  r1 = r1
  r2 = r2
  Thresholds = {0, 1, 2}
  Keyids <- MCKeyids
  Short <- MCShort
  StepNames <- MCStepNames
  Payloads <- MCPayloads
  Layouts <- MCLayouts
  Files <- MCFiles
  Publications <- MCPublications
  MaxDumps = 2
INVARIANTS
  TypeOK
  OnlyAuthorizedLinks
  EnoughFunctionaries
  NobodyOverlooked
PROPERTIES
  PromiseKept
  Decides
\* Verification ends by returning or raising.
CHECK_DEADLOCK FALSE
