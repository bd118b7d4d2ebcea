\* Every journal and sync mode, two readers, checkpoints, a killed process and a loss of power.
CONSTANTS
  Readers = {"r1", "r2"}
  MaxCommits = 3
SPECIFICATION Spec
INVARIANTS
  KeptSurvives
  
