SPECIFICATION Spec
CONSTANTS
  EmptyWord = "empty"
  Names <- MCNames
  Keys <- MCKeys
  MissingKey = "none"
  Placeholders <- MCPlaceholders
  StartLayouts <- MCStartLayouts
  NewItems <- MCNewItems
  NewRules <- MCNewRules
  NewCommands <- MCNewCommands
  RuleStrings <- MCRuleStrings
  KeyLists <- MCKeyLists
  ParameterDicts <- MCParameterDicts
  Malformed = malformed
  None = none
  MaxEdits = 2
  MaxSignatures = 1
INVARIANT RemovesAllNamed
\* A process that makes no more calls.
CHECK_DEADLOCK FALSE
