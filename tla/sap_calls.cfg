CONSTANTS
  Callers = {c1, c2}
  Docs = {d1, d2}
  MockDoc = mockdoc
  Used <- Called
  NoDoc = nodoc
SPECIFICATION Spec
SYMMETRY Symmetric
INVARIANTS
  TypeOK
  ToldIsTrue
PROPERTIES
  PromiseKept
