SPECIFICATION Spec
CONSTANTS
  Names = {n1}
  Sources = {f1}
  NumMounts = 2
INVARIANTS
  Unmounts
