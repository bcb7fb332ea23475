SPECIFICATION Spec
CONSTANTS
  LotCount = 2
  BuildingTypes = {0, 3}
  Managed = {0}
  Policies = {prepaid}
  MaxLotEvents = 3
  MaxLotCrashes = 1
  Notices = {n1, n2}
  MaxSubmissions = 3
  MaxMailFailures = 1
  Claims = {c1, c2, c3}
  Interval = 2
  MaxTime = 4
  Pollers = {p1, p2}
INVARIANTS
  TypeOK
  TenancyShown
  MailedOnce
  NothingDropped
  PaidOncePerInterval
PROPERTIES
  OtherLotsUntouched
  ExpiredCleared
  MailArrives
  SettledKept
  SettledShown
CHECK_DEADLOCK FALSE
