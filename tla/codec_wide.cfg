SPECIFICATION Spec
CONSTANTS
  Layouts <- MCWide
  Values <- MCValues
INVARIANT
  SignExtended
