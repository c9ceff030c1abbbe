SPECIFICATION Spec
CONSTANTS
  a = a
  b = b
  c = c
  Ips <- MCIps
  MaxIps = 2
  GcInterval = 2
  MaxLimit = 3
  MaxWindow = 3
SYMMETRY AnyOrder
INVARIANTS TypeOK MapBounded QuotaKept RetryAfterHonoured
