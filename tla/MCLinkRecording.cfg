SPECIFICATION Spec
CONSTANTS
  a = a
  b = b
  build = build
  foo = foo
  fooBar = fooBar
  Functionaries = {a, b}
  Steps = {build, foo}
  Matches <- MCMatches
  Keyring <- MCKeyring
  MaxCalls = 3
  MaxCrashes = 1
  MaxVersion = 1
INVARIANT TypeOK
PROPERTIES FinishesOwnStart RecordingNotLost
CHECK_DEADLOCK FALSE
