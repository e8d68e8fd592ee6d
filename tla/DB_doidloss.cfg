\* The DB_doids bounds without crashes: a MongoDB call that fails or throws
\* takes a doid out of circulation.
CONSTANTS
  A = A
  B = B
  v1 = v1
  MinId = 1
  MaxId = 2
  Classes <- MCClasses
  Vals <- MCVals
  Faults = {"fail", "assert"}
  MaxOps = 5
  Crashes = FALSE
SPECIFICATION Spec
INVARIANT DoidsConserved
