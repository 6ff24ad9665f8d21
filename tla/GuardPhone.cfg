CONSTANTS
  Requests = {r1, r3}
  Workers = {w1}
  Phones = {p1}
  Uuids = {u1}
  Fingerprints = {f1, f2, f3}
  Phone <- OnePhone
  Uuid <- ClickUuid
  Fp <- ClickFp
  NoKey = NoKey
  None = None
  MaxLapses = 1
  r1 = r1
  r2 = r2
  r3 = r3
  w1 = w1
  p1 = p1
  u1 = u1
  f1 = f1
  f2 = f2
  f3 = f3
SPECIFICATION FairSpec
INVARIANTS SingleWriter
PROPERTIES PhoneUnblocks
CHECK_DEADLOCK FALSE
