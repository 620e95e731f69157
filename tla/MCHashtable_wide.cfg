SPECIFICATION Spec
CONSTANTS
  Upper = upper
  Small = small
  Number = {2, 178}
  Text = {}
  Lower <- MCNoText
  Crc <- MCNoText
  Value = {v1}
  None = none
  Restyle = FALSE
  HashSize = 16
  Cap = 2
  MaxNodes = 3
  Copies = 2
  MaxCap = 11
INVARIANT Found
CHECK_DEADLOCK FALSE
