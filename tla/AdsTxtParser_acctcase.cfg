\* The case-insensitivity newParser claims, over the same contents.
CONSTANTS
  n1 = n1
  n2 = n2
  Names <- MCNames
  ValidNames <- MCValidNames
  MaxLines = 2
SPECIFICATION Spec
INVARIANT AccountTypeCaseInsensitive
CHECK_DEADLOCK FALSE
