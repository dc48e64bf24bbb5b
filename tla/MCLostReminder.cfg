SPECIFICATION ReminderSpec
CONSTANTS
  ann = ann
  mia = mia
  acme = acme
  room = room
  desk = desk
  s1 = s1
  s2 = s2
  p1 = p1
  w1 = w1
  w2 = w2
  None = None
  DayLength = 4
  Users = {ann, mia}
  Orgs = {acme}
  Resources = {room, desk}
  Requests = {p1}
  SeedIds = {s1, s2}
  Zones <- OnlyUtc
  Times = {1, 2, 3, 5, 6}
  OrgOf <- AllAcme
  InitialRole <- Roles2
  InitialLimit <- Limit2
  InitialResources <- Rows
  InitialRules <- Opening
  InitialBookings <- Stored
  Payloads <- Changing
  RoleEdits <- NoEdits
  Workers = {w1}
  LeadTime = 1
  MaxTime = 1
  MaxRetries = 1
  MaxFaults = 1
INVARIANTS
  DeliveriesAreLogged
