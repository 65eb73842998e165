SPECIFICATION Spec
CONSTANTS
  a = a
  b = b
  build = build
  foo = foo
  fooBar = fooBar
  Functionaries = {a, b}
  Steps = {foo, fooBar}
  Matches <- MCMatchesDotted
  Keyring <- MCKeyring
  MaxCalls = 3
  MaxCrashes = 1
  MaxVersion = 1
PROPERTY FinishesNamedStep
CHECK_DEADLOCK FALSE
