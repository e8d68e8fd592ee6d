\* Two doids, two classes, one field value; every MongoDB call may fail or
\* throw and the process may restart between the commands of a handler.
CONSTANTS
  A = A
  B = B
  v1 = v1
  MinId = 1
  MaxId = 2
  Classes <- MCClasses
  Vals <- MCVals
  Faults = {"fail", "assert"}
  MaxOps = 5
  Crashes = TRUE
SPECIFICATION Spec
INVARIANT DoidsDistinct
