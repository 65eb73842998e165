SPECIFICATION Spec
CONSTANTS
  foo = foo
  sub_foo = sub_foo
  h1 = h1
  h2 = h2
  none = none
  sub = sub
  no_path = no_path
  Paths <- MCPaths
  Hashes <- MCHashes
  Names <- MCNames
  Prefixes <- MCPrefixes
  Strip <- MCStrip
  NoPath <- no_path
  Inputs <- MCInputs
INVARIANTS
  TypeOK
  QueueIsUnsettled
  TraceIsTrue
  BlamesFirstObjection
  ChainOfCustody
PROPERTY
  VerdictSafety
\* Return and Raise end the run.
CHECK_DEADLOCK FALSE
