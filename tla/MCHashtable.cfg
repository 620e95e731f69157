SPECIFICATION Spec
CONSTANTS
  Upper = upper
  Small = small
  Number = {0}
  Text = {upper, small}
  Lower <- MCLower
  Crc <- MCCrc
  Value = {v1, v2}
  None = none
  Restyle = FALSE
  HashSize = 16
  Cap = 2
  MaxNodes = 3
  Copies = 2
  MaxCap = 11
INVARIANT TypeOK
INVARIANT Found
INVARIANT GrowsInTime
INVARIANT ForwardOnce
INVARIANT BackwardOnce
PROPERTY ImplementsMap
CHECK_DEADLOCK FALSE
SYMMETRY Values
