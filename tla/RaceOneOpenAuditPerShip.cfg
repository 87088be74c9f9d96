\* Two requests at a time.
SPECIFICATION SearchSpec
CONSTANTS
  Sessions = {s1, s2}
  Ships = {ship}
  Codes = {c1}
  Requests = {r1, r2}
  None = None
  MaxTrainings = 2
INVARIANT OneOpenAuditPerShip
