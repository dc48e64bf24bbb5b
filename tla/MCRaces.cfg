SPECIFICATION Spec
CONSTANTS
  ann = ann
  bob = bob
  mia = mia
  eve = eve
  acme = acme
  globex = globex
  room = room
  desk = desk
  s1 = s1
  p1 = p1
  p2 = p2
  p3 = p3
  None = None
  DayLength = 4
  OrgOf <- Owner
  InitialLimit <- MaxHours
  InitialResources <- Rows
  InitialRules <- Opening
  InitialBookings <- Stored
  SeedIds = {s1}
  Users = {ann, bob, mia}
  Orgs = {acme}
  Resources = {room}
  Requests = {p1, p2, p3}
  Times = {1, 2, 3, 5, 6}
  Zones <- OnlyUtc
  MaxTime = 0
  Payloads <- CalendarRace
  RoleEdits <- NoEdits
  InitialRole <- Roles1
SYMMETRY RequestSymmetry
INVARIANTS
  NoDoubleBooking
  AuditMatchesBookings
PROPERTIES
  HistoryIsKept
  ImplementsCalendar
