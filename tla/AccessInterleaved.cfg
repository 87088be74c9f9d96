\* Two requests at a time, no station closes.
SPECIFICATION AccessSpec
CONSTANTS
  Stations = {s1, s2}
  Roles = {q1}
  Sessions = {k1}
  Requests = {r1, r2}
  Closable = {}
  Served <- DividedServed
  Second = r2
  None = None
PROPERTIES
  RequestsEnd
  DefaultConverges
