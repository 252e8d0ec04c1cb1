SPECIFICATION Spec
CONSTANTS
  Replicas = {r1, r2}
  Callers = {c1}
  Values = {a, b}
  None = None
  MaxVersion = 3
  MaxUid = 2
INVARIANT TypeOK
INVARIANT RevisionFaithful
PROPERTY CompareAndSet
 
PROPERTY OnlyLabelledUpdated
SYMMETRY Symmetry
CHECK_DEADLOCK FALSE
