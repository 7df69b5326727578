SPECIFICATION Spec
CONSTANTS
  Users = {"pipeline", "instruction-fetch", "branch-predictor"}
INVARIANTS
  IpcIsIndependent
