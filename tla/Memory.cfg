SPECIFICATION Spec
CONSTANTS
  ThreadCount = 2
  Scopes <- MCScopes
  Foreground = {1}
  Owner = 1
  Maximum = 2
  MemoMaximum = 1
  Keys = {k1, k2}
  Weight <- MCWeight
  SourceBytes = 1
  WorkBytes = {2}
  LaneBytes = 1
  MaxLanes = 2
  TaskBytes = 1
  MaxNested = 2
INVARIANTS ChargesMatchLife
PROPERTIES RefusalNeedsOthers WaitersWake
