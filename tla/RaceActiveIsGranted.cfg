\* Two requests at a time.
SPECIFICATION AccessSpec
CONSTANTS
  Stations = {s1, s2}
  Roles = {q1}
  Sessions = {k1}
  Requests = {r1, r2}
  Closable = {}
  Served <- AllServed
  Second = r2
  None = None
INVARIANT ActiveIsGranted
