SPECIFICATION SeriesSpec
CONSTANTS
  Fields <- MCFields
  ResolutionWidth = 3
  Instants <- MCInstants
  GivenResolutions = {5}
  MaxLength = 3
INVARIANTS
  SeriesIsSound
  OverlapIsMeeting
  HullsNearlyCover
CHECK_DEADLOCK FALSE
