SPECIFICATION FairSpec
CONSTANTS
  ann = ann
  mia = mia
  bob = bob
  eve = eve
  acme = acme
  globex = globex
  initech = initech
  room = room
  kAnn = kAnn
  kMia = kMia
  kBob = kBob
  kEve = kEve
  p1 = p1
  p2 = p2
  p3 = p3
  None = None
  Users = {ann, mia, bob, eve}
  Orgs = {acme, globex, initech}
  Names = {room}
  SeedKeys = {kAnn, kMia, kBob, kEve}
  InitialOrgs = {acme, globex}
  InitialMembers <- Stored4
  InitialResources <- NoResources
  Requests = {p1, p2, p3}
  Payloads <- Race
INVARIANTS
  CreatedOnce
  TypeOK
  JournalTellsMembership
PROPERTIES
  AdministratorRemains
  TenantsKeptApart
  EveryRequestEnds
