SPECIFICATION Spec
CONSTANTS
  Writers = {w1}
  Events = {e1, e2, e3, e4}
  ClockSteps = {1, 2}
  NoTime = 0
  MaxBatch = 3
INVARIANTS
  TypeOK
  ReplayMatchesLive
  CheckpointsAreTrue
  LogIsChronological
PROPERTIES
  ReplayIsAppendOnly
