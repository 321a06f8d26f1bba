SPECIFICATION Spec
CONSTANTS
  Joints = {j1}
  Foreign = {f1}
  Interfaces = {"position", "velocity"}
  Targets = {0, 1}
  Bad = Bad
  None = None
  Managed = FALSE
  MaxKeys = 2
INVARIANTS RejectionEndsWithItsActivation
