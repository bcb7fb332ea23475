SPECIFICATION FairSpec
CONSTANTS
  Scenarios <- MCScenarios
  MaxCrashes = 1
CHECK_DEADLOCK FALSE
INVARIANTS
  TypeOK
  StartsResolved
  ReceivedDespiteCrash
  PackagesFollowBuilding
  FollowUpsSurvive
  SearchCurrent
  SwayCounted
  CrossingKept
  CrossingGone
  OwnersCurrent
PROPERTIES
  OngoingKept
  ImplementsRegister
  EventuallySettled
