\* Every content of up to two lines over two exchange names (one valid),
\* both account words in every casing, upper-case or not, 0-2 trailing dots.
CONSTANTS
  n1 = n1
  n2 = n2
  Names <- MCNames
  ValidNames <- MCValidNames
  MaxLines = 2
SPECIFICATION Spec
INVARIANT TypeOK ParsedMatchesReference CountsMatchReference
CHECK_DEADLOCK FALSE
