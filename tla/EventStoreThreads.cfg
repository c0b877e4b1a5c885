SPECIFICATION Spec
CONSTANTS
  Writers = {w1, w2}
  Events = {e1, e2, e3}
  ClockSteps = {1}
  NoTime = 0
  MaxBatch = 2
INVARIANTS
  CheckpointsAreTrue
