\* Process control and scheduling on the code's own sizes: six pids, three
\* terminals.  No descriptor beyond stdin and stdout is used.
CONSTANTS
  MAX_PROC = 6
  MAX_TM = 3
  N_FILES = 2
  FileTypes = {}
  Calls = {"execute", "halt", "exception"}
  EarlyCommands = FALSE
SPECIFICATION Spec
INVARIANTS
  RunningTask
  OnlyShellsRefuseHalt
  HaltReturnsToParent
  SuspendedHaveFrame
PROPERTIES
  TerminalsIsolated
  ImplementsJobStacks
