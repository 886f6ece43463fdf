CONSTANTS
  Proc = {i, a, b, c}
  proc_init = i
  Spare = {}
  None = None
  Kinds = {{}, {"SVFORK"}, {"STHREAD"}}
  Calls = {"exec", "kill"}
  Plain = TRUE
SPECIFICATION Spec
SYMMETRY Alike
INVARIANTS TreeSound SpacesSound VforkHeld
