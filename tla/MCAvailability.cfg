SPECIFICATION SearchSpec
CONSTANTS
  ann = ann
  mia = mia
  eve = eve
  acme = acme
  globex = globex
  room = room
  desk = desk
  s1 = s1
  p1 = p1
  p2 = p2
  q1 = q1
  q2 = q2
  None = None
  DayLength = 4
  SlotStep = 1
  Users = {ann, mia, eve}
  Orgs = {acme}
  Searches = {q1, q2}
  SeedIds = {s1}
  Zones <- AllZones
  Times = {1, 2, 3, 4}
  OrgOf <- AllAcme
  InitialRole <- Roles3
  InitialLimit <- Limit2
  InitialResources <- Rows
  InitialRules <- Opening
  InitialBookings <- Stored
  Requests = {p1, p2}
  Resources = {room, desk}
  Payloads <- Changing
  Queries <- Asked
  MaxTime = 1
  RoleEdits <- NoEdits
SYMMETRY SearchSymmetry
INVARIANTS
  CurrentEntriesAreExact
  StandingBookingsAreRespected
  OfferedSlotsCanBeBooked
