SPECIFICATION QuotaSpec
CONSTANTS
  u1 = u1
  u2 = u2
  light = light
  normal = normal
  unlimited = unlimited
  None = None
  Default = normal
  Unlimited = unlimited
  Users = {u1}
  Profiles = {normal}
  MenuProfiles = {}
  Cap <- OneCap
  Window <- LongDay
  TTL = 2
  Legacy <- NoLegacy
  MaxNow = 6
INVARIANT DayQuotaKept
