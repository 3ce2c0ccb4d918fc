SPECIFICATION Spec
CONSTANTS
  g1 = g1
  g2 = g2
  a1 = a1
  a2 = a2
  b1 = b1
  Groups = {g1, g2}
  Ops = {a1, a2, b1}
  Owner <- MCOwner
  IdMod = 4
INVARIANTS
  TypeOK
  MapMatchesVectors
  ScanFindsCompleted
PROPERTIES
  ImplementsContract
  CompletionsReturned
