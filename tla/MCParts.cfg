SPECIFICATION Spec
CONSTANTS
  Requests = {r1, r2}
  MaxRequests = 2
  Window = 3
  Second = 2
  MaxDelay = 1
  Horizon = 8
  Selects <- MCSelects
  Final = 2
  MaxEdits = 1
  MaxLate = 1
  NotAsking = NotAsking
  NoData = NoData
  Points <- MCPoints
  Findings = {f1, f2}
  Unscored = Unscored
  Separations = {10, 30, 110, 130}
  Stereo = TRUE
  Letters = {"a", "b", "c"}
  NotAsked = NotAsked
  RequestTimes = {1, 320}
  Lease = 3000
  MinInterval = 10
  MaxRetries = 4
  Recordings = {a1, a2, a3}
  Playable = {a1, a2}
  Sources = {folder, rest}
  Deliverers = {d1, d2, d3}
  MaxDeliveries = 5
  MaxAborts = 2
INVARIANTS
  BurstBound
  StoppedIsComplete
  CapIsEarned
  LabelsOfOneStrategy
  QuotesAreCited
  MaskedAsWhatItIs
  StageFitsLease
  OneCallPerRecording
  AcceptedIsQueued
  AuditIsComplete
PROPERTIES
  RejectionIsFair
  NeverGoesBack
SYMMETRY Symmetry
CHECK_DEADLOCK FALSE
