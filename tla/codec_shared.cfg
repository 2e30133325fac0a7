SPECIFICATION Spec
CONSTANTS
  Layouts <- MCLayouts
  Values <- MCValues
INVARIANTS
  TypeOK
  ReadsBack
  InItsCells
PROPERTY
  StoresOneSignal
