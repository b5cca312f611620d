SPECIFICATION HSpec
CONSTANTS
  u1 = u1
  u2 = u2
  light = light
  normal = normal
  unlimited = unlimited
  None = None
  Default = normal
  Unlimited = unlimited
  Users = {u1}
  Profiles = {normal, unlimited}
  MenuProfiles = {}
  Cap <- FreeCaps
  Window <- ShortWindow
  TTL = 1
  Legacy <- NoLegacy
  MaxNow = 3
INVARIANTS TypeOK CountersSound 
PROPERTY DeniedConsumesNothing
