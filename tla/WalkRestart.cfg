CONSTANTS
  Generator <- Walkers
  Length <- RealLength
  SlowGap = 85
  MediumGap = 17
  WalkDistance = 1024
  WalkStep = 8
  EventsPerPosition = 3
  TargetCounts = 5

SPECIFICATION Spec

PROPERTY WalkersRestart
