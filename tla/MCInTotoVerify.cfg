SPECIFICATION Spec
CONSTANTS
  owner = owner
  k1 = k1
  s1 = s1
  k2 = k2
  foo = foo
  h1 = h1
  h2 = h2
  none = none
  no_path = no_path
  Keyids <- MCKeyids
  Short <- MCShort
  StepNames <- MCStepNames
  Payloads <- MCPayloads
  Names <- MCNames
  Paths <- MCPaths
  Hashes <- MCHashes
  Prefixes <- MCPrefixes
  Strip <- MCStrip
  NoPath <- no_path
  Calls <- MCCalls
  Format <- MCFormat
  Commands <- MCCommands
  Project <- MCProject
  MaxTime = 1
INVARIANTS
  TypeOK
  OnlyTrustedCommands
  OwnRulesFirst
  ThresholdBacksReduced
  InspectionsReportCwd
  BasePathRestored
  EveryInspectionRan
PROPERTY
  Terminates
\* Verification ends by returning or raising.
CHECK_DEADLOCK FALSE
