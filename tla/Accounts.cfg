\* Every request may end unheard, so that a behaviour may stop.
SPECIFICATION MCSpec
CONSTANTS
  Callers = {c1, c2}
  SessionRows = {s1}
  MaxEmails = 2
  MaxTokens = 2
  MaxRecoveries = 2
  MaxPasswords = 2
  Handlers = {c1, c2}
  RoleRows = {role1, role2}
  Bases = {"SUP"}
  SeedBase = "SUP"
  Modules = {"CHAT", "ADMIN_DASHBOARD_MASTER_DATA"}
  DashboardModules = {"ADMIN_DASHBOARD_MASTER_DATA"}
  ElevatedModules = {"ADMIN_DASHBOARD_MASTER_DATA"}
  Forms <- SomeForms
  MaxSuffix = 2
  Stations = {st1, st2}
  Roles = {q1, q2}
  Sessions = {k1, k2}
  Requests = {r1}
  Closable = {st1, st2}
  Served <- AllServed
  None = None
SYMMETRY Symmetry
CHECK_DEADLOCK FALSE
INVARIANTS
  ResetEndsSessions
  SpentOnce
  SavedStands
  ShownIsEnforced
PROPERTIES
  ImplementsGrants
