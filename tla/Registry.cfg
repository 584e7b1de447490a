SPECIFICATION Spec
CONSTANTS
  Radix = 3
  MethodNames = {m1, m2}
  EventNames = {e1, e2}
  MaxRegistrations = 9
  None = None
SYMMETRY NameSymmetry
INVARIANTS
  SchemaResolves
  AnswersRouted
  EventsResolve
PROPERTY
  IdsStayBound
