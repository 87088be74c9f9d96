\* Two requests at a time.
SPECIFICATION SearchSpec
CONSTANTS
  Sessions = {s1}
  Ships = {ship}
  Codes = {c1, c2}
  Requests = {r1, r2}
  None = None
  MaxTrainings = 2
PROPERTY ReportCoversMissing
