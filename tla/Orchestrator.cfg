CONSTANTS
  n1 = n1
  n2 = n2
  n3 = n3
  x = x
  y = y
  Unset = Unset
  Absent = Absent
  Names <- MCNames
  Impls <- MCImpls
  Inputs <- MCInputs
SPECIFICATION Spec
INVARIANTS TypeOK IndexesFresh ProtectedKept LaunchedAsLayered RemovalWorks
