-------------------------- MODULE MCStationAccess --------------------------
(***************************************************************************)
(* Instances of StationAccess for TLC.  There is no symmetry: the run      *)
(* checks liveness.                                                        *)
(***************************************************************************)
EXTENDS StationAccess

CONSTANT Second  \* one of the requests

Operations == {"createUser", "assignUserRole", "assignUserStations",
               "selectStation", "getActiveStation", "getMyStations"}

AllServed == [r \in Requests |-> Operations]

\* assignUserRole locks like assignUserStations, and the other two operations repair
\* the defaults as selectStation does: two of a kind are not needed.
DividedServed ==
  [r \in Requests |->
     IF r = Second THEN {"assignUserStations", "selectStation", "getActiveStation"}
     ELSE Operations \ {"getActiveStation"}]

=============================================================================
