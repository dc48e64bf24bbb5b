SPECIFICATION Spec
CONSTANTS
  ann = ann
  bob = bob
  mia = mia
  eve = eve
  acme = acme
  globex = globex
  room = room
  desk = desk
  s1 = s1
  p1 = p1
  p2 = p2
  p3 = p3
  None = None
  DayLength = 4
  OrgOf <- Owner
  InitialLimit <- MaxHours
  InitialResources <- Rows
  InitialRules <- Opening
  InitialBookings <- Stored
  SeedIds = {s1}
  Users = {ann, bob, mia, eve}
  Orgs = {acme, globex}
  Resources = {room, desk}
  Requests = {p1, p2, p3}
  Times = {1, 2, 3, 4, 5, 6, 7}
  Zones <- TwoZones
  MaxTime = 1
  Payloads <- ConfigurationRace
  RoleEdits <- Demotion
  InitialRole <- Roles2
SYMMETRY RequestSymmetry
INVARIANTS
  VersionCountsChanges
  ArchivedOnce
  ActsWithinRights
PROPERTIES
  IntervalsFitAtCommit
