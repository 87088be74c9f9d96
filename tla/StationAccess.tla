--------------------------- MODULE StationAccess ---------------------------
(***************************************************************************)
(* The station access of one user: the rows of user_station_access, which  *)
(* access control replaces and the station service repairs, and the active *)
(* station of the user's sessions (access-control.service.ts,              *)
(* stations.service.ts).                                                   *)
(*                                                                         *)
(* Requests run under READ COMMITTED.  An updateMany of a transaction      *)
(* finds its rows in a snapshot, then locks them one by one and checks its *)
(* WHERE clause again on each; what it writes is visible when the          *)
(* transaction commits.  Rows are never deleted.                           *)
(***************************************************************************)
EXTENDS FiniteSets, Naturals

CONSTANTS
  Stations,   \* stations
  Roles,      \* active roles
  Sessions,   \* sessions of the user
  Requests,   \* slots for requests in flight
  Closable,   \* stations that master data closes and opens again
  Served,     \* bound: operations that each request may be
  None        \* no row, no station, no request

ASSUME ClosableAssumption == Closable \subseteq Stations

VARIABLES
  access,     \* user_station_access of the user, by station
  holder,     \* request whose transaction has locked the row of a station
  open,       \* stations that are active
  active,     \* activeStationId of each session
  created,    \* the user exists
  req         \* requests in flight

accessVars == <<access, holder, open, active, created, req>>

Access == [role : Roles, isActive : BOOLEAN, isDefault : BOOLEAN]

\* A request: op and pc; the session of its caller; station, the one selected or the
\* actor's; stations and role to assign (None: keep it); pick, the station to become
\* the default; rows an updateMany has yet to lock.
Operation ==
  [op : {"createUser", "assignUserRole", "assignUserStations",
         "selectStation", "getActiveStation", "getMyStations"},
   pc : {"repair", "default", "snapshot", "lock", "read", "check", "write"},
   session : Sessions \cup {None}, station : Stations \cup {None},
   stations : SUBSET Stations, role : Roles \cup {None}, pick : Stations \cup {None},
   rows : SUBSET Stations]

ASSUME NoneAssumption == None \notin Stations \cup Requests \cup Roles \cup Access \cup Operation

Rows     == {s \in Stations : access[s] # None}
Granted  == {s \in Rows : access[s].isActive}
Usable   == Granted \cap open
Defaults == {s \in Rows : access[s].isDefault}

AccessInit ==
  /\ access = [s \in Stations |-> None]
  /\ holder = [s \in Stations |-> None]
  /\ open = Stations
  /\ active = [k \in Sessions |-> None]
  /\ created = FALSE
  /\ req = [r \in Requests |-> None]

Idle(r)     == req[r] = None
At(r, pc)   == ~Idle(r) /\ req[r].pc = pc
Goto(r, pc) == req' = [req EXCEPT ![r].pc = pc]
Held(r)     == {s \in Stations : holder[s] = r}

\* Mutant: what the transaction locked stays locked.
EndsLocked(r) == req' = [req EXCEPT ![r] = None] /\ UNCHANGED holder

\* A request ends and its transaction, if any, releases its rows.
Ends(r) ==
  /\ req' = [req EXCEPT ![r] = None]
  /\ holder' = [s \in Stations |-> IF holder[s] = r THEN None ELSE holder[s]]

Free(r, s) == holder[s] \in {None, r}

Begins(r, q) ==
  /\ Idle(r)
  /\ q.op \in Served[r]
  /\ req' = [req EXCEPT ![r] = q]
  /\ UNCHANGED <<access, holder, open, active, created>>

Blank == [op |-> "getMyStations", pc |-> "repair", session |-> None, station |-> None,
          stations |-> {}, role |-> None, pick |-> None, rows |-> {}]

(***************************************************************************)
(* ensureSingleDefaultAccess, which the operations of the station service  *)
(* begin with.                                                             *)
(***************************************************************************)
BeginSelect(r, k, s) ==
  /\ created
  /\ Begins(r, [Blank EXCEPT !.op = "selectStation", !.session = k, !.station = s])

BeginGetActive(r, k) ==
  /\ created
  /\ Begins(r, [Blank EXCEPT !.op = "getActiveStation", !.session = k])

BeginMyStations(r) == created /\ Begins(r, Blank)

\* What is left to do once there is nothing to repair.
Continue(r) ==
  IF req[r].op = "getMyStations" THEN Ends(r)
  ELSE /\ req' = [req EXCEPT ![r].pc = "read", ![r].pick = None]
       /\ UNCHANGED holder

\* Mutant: several defaults are left alone.
NeedsNoRepairIfAny == Usable = {} \/ Cardinality(Usable \cap Defaults) >= 1

\* The repair is one update, a transaction or nothing.
NeedsNoRepair == Usable = {} \/ Cardinality(Usable \cap Defaults) = 1

\* The rows come in the order isDefault, createdAt: a default one, else any.
Picks == IF Usable \cap Defaults # {} THEN Usable \cap Defaults ELSE Usable

RepairRead(r) ==
  /\ At(r, "repair")
  /\ \/ NeedsNoRepair /\ Continue(r)
     \/ /\ ~NeedsNoRepair
        /\ \E s \in Picks :
             req' = [req EXCEPT ![r].pick = s,
                                ![r].pc = IF Cardinality(Usable) = 1
                                            THEN "default" ELSE "snapshot"]
        /\ UNCHANGED holder
  /\ UNCHANGED <<access, open, active, created>>

\* One access: an update by key, whatever the row has become.
RepairOnly(r) ==
  /\ At(r, "default")
  /\ Free(r, req[r].pick)
  /\ access' = [access EXCEPT ![req[r].pick].isDefault = TRUE]
  /\ Continue(r)
  /\ UNCHANGED <<open, active, created>>

(***************************************************************************)
(* Transactions: an updateMany over the rows of the user, then the rest.   *)
(***************************************************************************)
\* WHERE of the updateMany: assignUserStations takes every row of the user,
\* the other two the active ones.
Where(r) == IF req[r].op = "assignUserStations" THEN Rows ELSE Granted

Snapshot(r) ==
  /\ At(r, "snapshot")
  /\ req' = [req EXCEPT ![r].rows = Where(r), ![r].pc = "lock"]
  /\ UNCHANGED <<access, holder, open, active, created>>

LockRow(r, s) ==
  /\ At(r, "lock")
  /\ s \in req[r].rows
  /\ holder[s] = None
  /\ holder' = [holder EXCEPT ![s] = IF s \in Where(r) THEN r ELSE None]
  /\ req' = [req EXCEPT ![r].rows = @ \ {s}]
  /\ UNCHANGED <<access, open, active, created>>

AllLocked(r) == At(r, "lock") /\ req[r].rows = {}

\* Rows the rest of the transaction writes by key.
Targets(r) ==
  CASE req[r].op = "assignUserStations" -> req[r].stations
    [] req[r].op = "assignUserRole"     -> {req[r].station}
    [] OTHER                            -> {req[r].pick}

RepairCommit(r) ==
  /\ AllLocked(r)
  /\ req[r].op \in {"selectStation", "getActiveStation", "getMyStations"}
  /\ \A s \in Targets(r) : Free(r, s)
  /\ access' = [s \in Stations |->
       IF s = req[r].pick THEN [access[s] EXCEPT !.isDefault = TRUE]
       ELSE IF s \in Held(r) THEN [access[s] EXCEPT !.isDefault = FALSE]
       ELSE access[s]]
  /\ holder' = [s \in Stations |-> IF holder[s] = r THEN None ELSE holder[s]]
  /\ req' = [req EXCEPT ![r] = IF @.op = "getMyStations" THEN None
                               ELSE [@ EXCEPT !.pc = "read", !.pick = None]]
  /\ UNCHANGED <<open, active, created>>

(***************************************************************************)
(* selectStation, getActiveStation after the repair.                       *)
(***************************************************************************)
MaySelect(s) == s \in Usable

SelectRead(r) ==
  /\ At(r, "read")
  /\ req[r].op = "selectStation"
  /\ MaySelect(req[r].station)
  /\ Goto(r, "write")
  /\ UNCHANGED <<access, holder, open, active, created>>

SelectWrite(r) ==
  /\ At(r, "write")
  /\ req[r].op = "selectStation"
  /\ active' = [active EXCEPT ![req[r].session] = req[r].station]
  /\ Ends(r)
  /\ UNCHANGED <<access, open, created>>

\* The session and its station, then the access to it.
GetRead(r) ==
  /\ At(r, "read")
  /\ req[r].op = "getActiveStation"
  /\ LET s == active[req[r].session] IN
       /\ s # None
       /\ req' = [req EXCEPT ![r].station = s,
                             ![r].pc = IF s \in open THEN "check" ELSE "write"]
  /\ UNCHANGED <<access, holder, open, active, created>>

GetCheck(r) ==
  /\ At(r, "check")
  /\ req[r].op = "getActiveStation"
  /\ req[r].station \notin Granted
  /\ Goto(r, "write")
  /\ UNCHANGED <<access, holder, open, active, created>>

GetClear(r) ==
  /\ At(r, "write")
  /\ req[r].op = "getActiveStation"
  /\ active' = [active EXCEPT ![req[r].session] = None]
  /\ Ends(r)
  /\ UNCHANGED <<access, open, created>>

(***************************************************************************)
(* createUser, assignUserRole, assignUserStations by somebody who works at *)
(* station s.                                                              *)
(***************************************************************************)
\* The default among the stations assigned: the one that was, else the
\* actor's, else the first.
DefaultOf(kept, s, list) ==
  IF kept # {} THEN kept ELSE IF s \in list THEN {s} ELSE list

\* Bound: a creation that begins when the user exists will be refused, and is left out.
BeginCreateUser(r, s, list, q) ==
  /\ ~created
  /\ list # {}
  /\ list \subseteq open
  /\ \E d \in DefaultOf({}, s, list) :
       Begins(r, [Blank EXCEPT !.op = "createUser", !.pc = "write", !.stations = list,
                               !.role = q, !.pick = d])

\* The user id is unique: a second creation fails.
CreateUser(r) ==
  /\ At(r, "write")
  /\ req[r].op = "createUser"
  /\ ~created
  /\ created' = TRUE
  /\ access' = [s \in Stations |->
       IF s \in req[r].stations
         THEN [role |-> req[r].role, isActive |-> TRUE, isDefault |-> s = req[r].pick]
         ELSE None]
  /\ Ends(r)
  /\ UNCHANGED <<open, active>>

BeginAssignRole(r, s, q) ==
  /\ created
  /\ Begins(r, [Blank EXCEPT !.op = "assignUserRole", !.pc = "snapshot", !.station = s,
                             !.role = q])

OtherStation(row, q) == [row EXCEPT !.role = q, !.isDefault = FALSE]

AssignRole(r) ==
  /\ AllLocked(r)
  /\ req[r].op = "assignUserRole"
  /\ \A s \in Targets(r) : Free(r, s)
  /\ access' = [s \in Stations |->
       IF s = req[r].station
         THEN [role |-> req[r].role, isActive |-> TRUE, isDefault |-> TRUE]
       ELSE IF s \in Held(r)
         THEN OtherStation(access[s], req[r].role)
       ELSE access[s]]
  /\ Ends(r)
  /\ UNCHANGED <<open, active, created>>

\* The role that was asked for, or that of the first access, a default one if
\* there is any; without stations no role is needed.
BeginAssignStations(r, s, list, requested) ==
  /\ created
  /\ \E q \in IF requested # None THEN {requested}
              ELSE IF Usable = {} THEN {None} ELSE {access[t].role : t \in Picks} :
     \E d \in IF list = {} THEN {None}
              ELSE DefaultOf(Usable \cap Defaults \cap list, s, list) :
       /\ list # {} => q # None
       /\ Begins(r, [Blank EXCEPT !.op = "assignUserStations", !.pc = "check",
                                  !.stations = list, !.role = q, !.pick = d])

AssignStationsCheck(r) ==
  /\ At(r, "check")
  /\ req[r].op = "assignUserStations"
  /\ req[r].stations \subseteq open
  /\ Goto(r, "snapshot")
  /\ UNCHANGED <<access, holder, open, active, created>>

WithdrawnRow(row) == [row EXCEPT !.isActive = FALSE, !.isDefault = FALSE]

\* Mutant: sessions keep the stations that were withdrawn.
SessionsAsBefore(list) == active
SessionsLeave(list) ==
  [k \in Sessions |-> IF active[k] \in list THEN active[k] ELSE None]

AssignStations(r) ==
  /\ AllLocked(r)
  /\ req[r].op = "assignUserStations"
  /\ \A s \in Targets(r) : Free(r, s)
  /\ access' = [s \in Stations |->
       IF s \in req[r].stations
         THEN [role |-> req[r].role, isActive |-> TRUE, isDefault |-> s = req[r].pick]
       ELSE IF s \in Held(r)
         THEN WithdrawnRow(access[s])
       ELSE access[s]]
  /\ active' = SessionsLeave(req[r].stations)
  /\ Ends(r)
  /\ UNCHANGED <<open, created>>

(***************************************************************************)
(* A station is closed or opened again (master data).                      *)
(***************************************************************************)
UpdateStation(s) ==
  /\ open' \in {open \cup {s}, open \ {s}}
  /\ UNCHANGED <<access, holder, active, created, req>>

(***************************************************************************)
(* A request ends early: it is refused, its server dies or its transaction *)
(* is rolled back.  The database rolls one back when requests wait for     *)
(* each other's rows.                                                      *)
(***************************************************************************)
Abandon(r) ==
  /\ ~Idle(r)
  /\ Ends(r)
  /\ UNCHANGED <<access, open, active, created>>

Needs(r) ==
  CASE AllLocked(r)     -> Targets(r)
    [] At(r, "lock")    -> req[r].rows
    [] At(r, "default") -> {req[r].pick}
    [] OTHER            -> {}

Deadlocked(r) ==
  \E D \in SUBSET Requests :
    /\ r \in D
    /\ \A q \in D : \E s \in Needs(q) : holder[s] \in D \ {q}

Victim(r) == Deadlocked(r) /\ Abandon(r)

Refused(r) ==
  \/ At(r, "read") /\ req[r].op = "selectStation" /\ ~MaySelect(req[r].station)
  \/ At(r, "read") /\ req[r].op = "getActiveStation" /\ active[req[r].session] = None
  \/ At(r, "check") /\ req[r].op = "getActiveStation" /\ req[r].station \in Granted
  \/ At(r, "check") /\ req[r].op = "assignUserStations" /\ ~(req[r].stations \subseteq open)
  \/ At(r, "write") /\ req[r].op = "createUser" /\ created

\* Answers without a write: an error, or the active station as it is.
Answer(r) == Refused(r) /\ Abandon(r)

Begin(r) ==
  \/ \E k \in Sessions, s \in Stations : BeginSelect(r, k, s)
  \/ \E k \in Sessions : BeginGetActive(r, k)
  \/ BeginMyStations(r)
  \/ \E s \in Stations, list \in SUBSET Stations, q \in Roles :
       BeginCreateUser(r, s, list, q)
  \/ \E s \in Stations, q \in Roles : BeginAssignRole(r, s, q)
  \/ \E s \in Stations, list \in SUBSET Stations, q \in Roles \cup {None} :
       BeginAssignStations(r, s, list, q)

Proceed(r) ==
  \/ RepairRead(r) \/ RepairOnly(r) \/ RepairCommit(r)
  \/ Snapshot(r) \/ \E s \in Stations : LockRow(r, s)
  \/ SelectRead(r) \/ SelectWrite(r)
  \/ GetRead(r) \/ GetCheck(r) \/ GetClear(r)
  \/ CreateUser(r) \/ AssignRole(r) \/ AssignStationsCheck(r) \/ AssignStations(r)
  \/ Answer(r)

Work(r) == Proceed(r) \/ Victim(r)

AccessNext ==
  \/ \E r \in Requests : Begin(r) \/ Work(r) \/ Abandon(r)
  \/ \E s \in Closable : UpdateStation(s)

\* A request that has begun goes on as long as its server lives; requests that
\* wait for a row are served in turn, and the database finds deadlocks.
AccessFairness == \A r \in Requests : SF_accessVars(Work(r))

AccessSpec == AccessInit /\ [][AccessNext]_accessVars /\ AccessFairness

(***************************************************************************)
(* Properties.                                                             *)
(***************************************************************************)

\* 'Station is not assigned to the authenticated user': a session works only
\* at a station the user has.
ActiveIsGranted == \A k \in Sessions : active[k] # None => active[k] \in Granted

\* assignUserRole and assignUserStations keep one role for all stations.
TheRole == IF Granted = {} THEN None ELSE access[CHOOSE s \in Granted : TRUE].role

Grants == INSTANCE StationGrants WITH granted <- Granted, role <- TheRole

\* The assignments and the station service implement StationGrants: a user has a
\* set of stations and one role, and a session works at a station of the set,
\* though stations close and open between the steps of a request.
ImplementsGrants == Grants!GrantSpec

\* Every request ends, though transactions wait for each other's rows.
RequestsEnd == \A r \in Requests : ~Idle(r) ~> Idle(r)

\* When assignments, closures, crashes and rollbacks are over, and the station service
\* goes on being called, the user ends up with one default among the stations
\* that can be used, whatever races have left behind.
StationCall(r) ==
  \/ BeginMyStations(r)
  \/ \E k \in Sessions : BeginGetActive(r, k) \/ \E s \in Stations : BeginSelect(r, k, s)

Calm == \E r \in Requests : StationCall(r) \/ Proceed(r)

OneUsableDefault == Usable # {} => Cardinality(Usable \cap Defaults) = 1

DefaultConverges ==
  /\ <>[][Calm]_accessVars
  /\ []<><<\E r \in Requests : StationCall(r)>>_accessVars
  => <>[]OneUsableDefault

=============================================================================
