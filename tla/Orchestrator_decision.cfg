CONSTANTS
  n1 = n1
  n2 = n2
  n3 = n3
  x = x
  y = y
  Unset = Unset
  Absent = Absent
  Names <- MCDecisionNames
  Impls <- MCImpls
  Inputs <- MCDecisionInputs
SPECIFICATION Spec
INVARIANTS SomeDecisionKept
