CONSTANTS
  Proc = {i, a, b}
  proc_init = i
  Spare = {}
  None = None
  Kinds = {{}, {"SVFORK"}, {"STHREAD"}}
  Calls = {"exec", "sigaction", "ptrace", "futex"}
  Plain = TRUE
SPECIFICATION FairSpec
INVARIANTS TypeOK NoLostWait
PROPERTIES ExitEnds VforkEnds
CHECK_DEADLOCK FALSE
