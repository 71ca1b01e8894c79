SPECIFICATION FairSpec
CONSTANTS
  Programs <- Supported
  Vars = {"x", "y", "i", "j", "p", "q", "r"}
  Args = {"a", "b"}
  Starts <- Calls
  Cells <- AllCells
  Values = {0, 1}
INVARIANTS Preserved
PROPERTY Terminates
CHECK_DEADLOCK FALSE
