--------------------------- MODULE StationGrants ---------------------------
(***************************************************************************)
(* What access control and the station service promise together: a user    *)
(* has a set of stations and one role at all of them, and a session works  *)
(* at a station the user has.                                              *)
(***************************************************************************)
CONSTANTS Stations, Roles, Sessions, None

VARIABLES
  granted,   \* stations the user has access to
  role,      \* the role of the user there, None without a station
  active     \* station each session works at, or None

grantVars == <<granted, role, active>>

GrantInit ==
  /\ granted = {}
  /\ role = None
  /\ active = [k \in Sessions |-> None]

Withdrawn(k) == active[k] \notin granted'

\* assignUserRole: one more station, and one role everywhere.
GiveRole(s, q) ==
  /\ granted' = granted \cup {s}
  /\ role' = q
  /\ UNCHANGED active

\* createUser, assignUserStations: these stations and no other, with the role
\* that was asked for or the one the user had.
Replace(list, q) ==
  /\ granted' = list
  /\ role' = IF list = {} THEN None ELSE q
  /\ active' = [k \in Sessions |-> IF Withdrawn(k) THEN None ELSE active[k]]

Work(k, s) ==
  /\ s \in granted
  /\ active' = [active EXCEPT ![k] = s]
  /\ UNCHANGED <<granted, role>>

Leave(k) ==
  /\ active' = [active EXCEPT ![k] = None]
  /\ UNCHANGED <<granted, role>>

GrantNext ==
  \/ \E s \in Stations, q \in Roles : GiveRole(s, q)
  \/ \E list \in SUBSET Stations, q \in Roles : Replace(list, q)
  \/ \E k \in Sessions : Leave(k) \/ \E s \in Stations : Work(k, s)

GrantSpec == GrantInit /\ [][GrantNext]_grantVars

=============================================================================
