\* Three requests at a time on one audit with two locations.
SPECIFICATION SearchSpec
CONSTANTS
  Sessions = {s1}
  Ships = {ship}
  Codes = {c1, c2}
  Requests = {r1, r2, r3}
  None = None
  MaxTrainings = 3
SYMMETRY Symmetry
INVARIANTS
  HuntOnlyConfirmed
  ReportBacked
PROPERTIES
  FoundNeverReportedMissing
