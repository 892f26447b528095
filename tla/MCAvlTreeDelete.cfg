SPECIFICATION DeleteSpec
CONSTANTS
  KeyCount = 6
  NULL = NULL
  Key <- MCKey
INVARIANT DeleteKeepsOtherKeys
CHECK_DEADLOCK FALSE
