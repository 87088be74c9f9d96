\* Every request may end unheard and lists may be full, so that a behaviour may stop.
SPECIFICATION MCSpec
CONSTANTS
  Editors = {e1, e2}
  Templates = {t1}
  Questions = {"q1"}
  Required = {"q1"}
  SeedForm <- ASeedForm
  MaxVersion = 2
  Stations = {s1, s2}
  Gates = {g1}
  CleanTypes = {c1}
  AircraftTypes = {}
  Fleet = {}
  Items = {i1, i2}
  Present = {s1, g1, c1, i1}
  Clerks = {k1}
  Filings = {f1}
  MaxReports = 1
  Limit = 2
  MaxRecords = 6
  Unread = Unread
  NoOccurrence = NoOccurrence
  Day = 3
  Hour = 1
  MaxDay = 1
  OldShifts <- MCOldShifts
  ServerDays <- MCServerDays
  Filers = {p1}
  Precision = 100
  Fraction = 300
  Forms <- MCForms
  Weights <- MCWeights
  Maps <- MCMaps
  Default <- MCDefault
  StationsShown = {s1, s2}
  Submissions <- MCSubmissions
  Days = {1, 2}
  GatesShown = {1}
  MaxAudits = 3
  Unfiltered = Unfiltered
  Sessions = {a1, a2}
  Ships = {ship, ship2}
  Codes = {l1, l2}
  Requests = {r1}
  None = None
  MaxTrainings = 2
SYMMETRY Symmetry
CHECK_DEADLOCK FALSE
INVARIANTS
  VersionNamesQuestions
  DatesTell
  AnsweredStays
  PagesMissNothing
  FiledInShift
  ScoreStands
  VerdictStands
  OffersWhatWasDrawn
  OverviewAgrees
  OverviewAddsUp
PROPERTIES
  ImplementsLifecycle
