SPECIFICATION FairSpec
CONSTANTS
  N = 2
  Keys = {"a", "b", "c", "d"}
  Route <- Route2
  Work <- Work2
  Cap = 1
  None = None
INVARIANTS SafeToStop ShutdownResult
PROPERTY Quiesces
