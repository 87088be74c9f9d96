\* A conversation of two with three requests at a time, of three with two; two users with
\* two sockets each.
SPECIFICATION MCSpec
CONSTANTS
  Users = {u1, u2, u3}
  Messages = {m1, m2}
  Requests = {r1, r2, r3}
  MaxTime = 5
  None = None
  People = {p1, p2}
  Tabs = {t1, t2}
SYMMETRY Symmetry
INVARIANTS
  ReadNotUnread
  ShownAsConnected
PROPERTIES
  StatusNeverBack
  ImplementsTimeline
CHECK_DEADLOCK FALSE
