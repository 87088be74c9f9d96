----------------------------- MODULE MCAccounts -----------------------------
(***************************************************************************)
(* Who a user is and what the user may do, for TLC: sessions and           *)
(* recoveries, the permissions of roles, and the stations of a user.  They *)
(* share no state, so a behaviour runs one of them and leaves the others   *)
(* as they began.                                                          *)
(*   sessions:    one session and two refresh tokens, two recoveries, two  *)
(*                addresses, two handlers at a time                        *)
(*   permissions: two administrators, two roles, one module of the app and *)
(*                one of the dashboard; a form withdraws everything, or    *)
(*                grants to write without reading                          *)
(*   stations:    two stations that close and open, one request at a time  *)
(***************************************************************************)
EXTENDS StationAccess, AuthSessions, RolePermissions, TLC

VARIABLE part

Form(read, write, edit) == [read |-> read, write |-> write, edit |-> edit, delete |-> FALSE]
SomeForms == {Form(FALSE, FALSE, FALSE), Form(FALSE, TRUE, FALSE)}

AllServed ==
  [r \in Requests |-> {"createUser", "assignUserRole", "assignUserStations",
                       "selectStation", "getActiveStation", "getMyStations"}]

MCInit ==
  /\ part \in {"sessions", "permissions", "stations"}
  /\ AuthInit /\ RolesInit /\ AccessInit

MCNext ==
  \/ part = "sessions" /\ AuthNext /\ UNCHANGED <<part, roleVars, accessVars>>
  \/ part = "permissions" /\ RolesNext /\ UNCHANGED <<part, authVars, accessVars>>
  \/ part = "stations" /\ AccessNext /\ UNCHANGED <<part, authVars, roleVars>>

MCSpec == MCInit /\ [][MCNext]_<<part, authVars, roleVars, accessVars>>

\* Handlers are interchangeable, those of sessions and of permissions at once, and so
\* are the rows of roles.
Symmetry == Permutations(Callers \cup Handlers) \cup Permutations(RoleRows)

=============================================================================
