------------------------- MODULE HiddenObjectAudit -------------------------
(***************************************************************************)
(* The hidden object audit service (hidden-object-audits.service.ts) over  *)
(* its two tables.  An audit session hides objects at locations of one     *)
(* aircraft: the locations are confirmed, the session is activated, the    *)
(* objects are searched for, and the session is closed.                    *)
(*                                                                         *)
(* Every HTTP request runs in a slot of Requests.  Its reads and its       *)
(* commit are separate steps, so requests interleave as transactions do    *)
(* under READ COMMITTED: a read sees the last commit, an UPDATE re-checks  *)
(* its WHERE clause when it takes the row lock, and a row lock is held     *)
(* until the commit.  An update by id has no status in its WHERE clause.   *)
(***************************************************************************)
EXTENDS Naturals, FiniteSets

CONSTANTS
  Sessions,   \* ids of audit sessions, a pool that CommitCreate draws from
  Ships,      \* (station, ship number) pairs
  Codes,      \* location codes the seat map of the aircraft offers
  Requests,   \* slots of HTTP requests in flight
  None        \* the value of a column or a field that is not set

ASSUME CodesAssumption == IsFiniteSet(Codes)
ASSUME NoneAssumption  == None \notin Sessions \union Ships \union Codes

VARIABLES
  session,    \* rows of hidden_object_audit_sessions
  location,   \* rows of hidden_object_audit_locations, by (session, code)
  request     \* what each request in flight has read and means to write

vars == <<session, location, request>>

(***************************************************************************)
(* Rows and requests.  A timestamp column is the boolean "it is set";      *)
(* setupCompletedAt is set exactly when activatedAt is.                    *)
(***************************************************************************)
NoRow == "NONE"

SessionStatuses  == {"SETUP", "ACTIVE", "CLOSED"}
LocationStatuses == {"ORANGE", "BLUE", "GREEN", "RED", "PURPLE"}
SetupOnly        == {"SETUP"}   \* mutant of OpenStatuses
OpenStatuses     == {"SETUP", "ACTIVE"}

SessionRow ==
  [status : SessionStatuses \union {NoRow}, ship : Ships \union {None},
   objectsToHide : Nat, activated : BOOLEAN, closed : BOOLEAN]

LocationRow ==
  [status : LocationStatuses \union {NoRow},
   confirmed : BOOLEAN, found : BOOLEAN]

NoSession ==
  [status |-> NoRow, ship |-> None, objectsToHide |-> 0,
   activated |-> FALSE, closed |-> FALSE]

NoLocation == [status |-> NoRow, confirmed |-> FALSE, found |-> FALSE]

\* A request is named by its handler and the last thing the handler did.
PCs == {"idle", "create.checked",
        "confirm.session", "confirm.location",
        "activate.session", "activate.locations", "activate.others",
        "found.session", "found.location",
        "close.session", "close.marked",
        "search.session", "search.locations", "search.marked"}

\* codes: the locations to hide (create) or those reported on (search);
\* found, extra: the finds reported at those locations and elsewhere (search);
\* locked: the location rows the transaction has updated but not committed.
Request ==
  [pc : PCs, ship : Ships \union {None}, session : Sessions \union {None},
   code : Codes \union {None}, codes : SUBSET Codes, found : SUBSET Codes,
   extra : SUBSET Codes, locked : SUBSET Codes]

Idle == [pc |-> "idle", ship |-> None, session |-> None, code |-> None,
         codes |-> {}, found |-> {}, extra |-> {}, locked |-> {}]

TypeOK ==
  /\ session \in [Sessions -> SessionRow]
  /\ location \in [Sessions -> [Codes -> LocationRow]]
  /\ request \in [Requests -> Request]

Init ==
  /\ session = [s \in Sessions |-> NoSession]
  /\ location = [s \in Sessions |-> [c \in Codes |-> NoLocation]]
  /\ request = [r \in Requests |-> Idle]

(***************************************************************************)
(* Queries.                                                                *)
(***************************************************************************)
StatusOf(s, c)    == location[s][c].status
Rows(s)           == {c \in Codes : StatusOf(s, c) # NoRow}
CodesIn(s, stats) == {c \in Codes : StatusOf(s, c) \in stats}

\* The locations the auditor chose when the session was created.
Designated(s) == CodesIn(s, LocationStatuses \ {"PURPLE"})

OpenSessionFor(ship) ==
  \E s \in Sessions : session[s].ship = ship /\ session[s].status \in OpenStatuses

OtherActive(s) ==
  \E t \in Sessions \ {s} :
    session[t].ship = session[s].ship /\ session[t].status = "ACTIVE"

LockedByOther(r, s, c) ==
  \E q \in Requests \ {r} : request[q].session = s /\ c \in request[q].locked

(***************************************************************************)
(* Steps of a request.                                                     *)
(***************************************************************************)
Begin(r, new) ==
  /\ request[r].pc = "idle"
  /\ request' = [request EXCEPT ![r] = new]
  /\ UNCHANGED <<session, location>>

Advance(r, from, to) ==
  /\ request[r].pc = from
  /\ request' = [request EXCEPT ![r].pc = to]
  /\ UNCHANGED <<session, location>>

Finish(r, from) ==
  /\ request[r].pc = from
  /\ request' = [request EXCEPT ![r] = Idle]

\* A rejected, failed, cancelled or timed-out request: the transaction, if
\* there is one, rolls back and its row locks are released.
Abandon(r) ==
  /\ request[r].pc # "idle"
  /\ request' = [request EXCEPT ![r] = Idle]
  /\ UNCHANGED <<session, location>>

(***************************************************************************)
(* POST /hidden-object-audits.  The check for an open session of the ship  *)
(* runs before the transaction that inserts the rows.  The chosen          *)
(* locations are a random pick or the requested codes: in both cases a     *)
(* non-empty set of candidates (a repeated code breaks the unique index    *)
(* and rolls the insert back).                                             *)
(***************************************************************************)
MayCreate(ship) == ~OpenSessionFor(ship)

BeginCreate(r) ==
  \E ship \in Ships, chosen \in (SUBSET Codes) \ {{}} :
    /\ MayCreate(ship)
    /\ Begin(r, [Idle EXCEPT !.pc = "create.checked", !.ship = ship,
                             !.codes = chosen])

NewSession(r) ==
  [NoSession EXCEPT !.status = "SETUP", !.ship = request[r].ship,
                    !.objectsToHide = Cardinality(request[r].codes)]

NewLocations(r) ==
  [c \in Codes |-> IF c \in request[r].codes
                     THEN [NoLocation EXCEPT !.status = "ORANGE"]
                     ELSE NoLocation]

CommitCreate(r) ==
  /\ Finish(r, "create.checked")
  /\ \E s \in Sessions :
       /\ session[s].status = NoRow
       /\ session' = [session EXCEPT ![s] = NewSession(r)]
       /\ location' = [location EXCEPT ![s] = NewLocations(r)]

(***************************************************************************)
(* POST :id/locations/:locationId/confirm.  The row is then updated by id: *)
(* whatever its status has become, it turns BLUE.                          *)
(***************************************************************************)
Confirmable == {"ORANGE", "BLUE"}

BeginConfirm(r) ==
  \E s \in Sessions, c \in Codes :
    /\ session[s].status = "SETUP"
    /\ StatusOf(s, c) # NoRow
    /\ Begin(r, [Idle EXCEPT !.pc = "confirm.session", !.session = s,
                             !.code = c])

ConfirmReadLocation(r) ==
  /\ Advance(r, "confirm.session", "confirm.location")
  /\ StatusOf(request[r].session, request[r].code) \in Confirmable

ConfirmCommit(r) ==
  LET s == request[r].session
      c == request[r].code
  IN  /\ Finish(r, "confirm.location")
      /\ ~LockedByOther(r, s, c)
      /\ location' = [location EXCEPT ![s][c].status = "BLUE",
                                      ![s][c].confirmed = TRUE]
      /\ UNCHANGED session

(***************************************************************************)
(* POST :id/activate.                                                      *)
(***************************************************************************)
BeginActivate(r) ==
  \E s \in Sessions :
    /\ session[s].status = "SETUP"
    /\ Begin(r, [Idle EXCEPT !.pc = "activate.session", !.session = s])

SomeRow(s) == Rows(s) # {}   \* mutant: the confirmations are not looked at
AllConfirmed(s) == Rows(s) # {} /\ Rows(s) = CodesIn(s, {"BLUE"})

ActivateReadLocations(r) ==
  /\ Advance(r, "activate.session", "activate.locations")
  /\ AllConfirmed(request[r].session)

ActivateReadOthers(r) ==
  /\ Advance(r, "activate.locations", "activate.others")
  /\ ~OtherActive(request[r].session)

ActivateCommit(r) ==
  LET s == request[r].session
  IN  /\ Finish(r, "activate.others")
      /\ session' = [session EXCEPT ![s].status = "ACTIVE",
                                    ![s].activated = TRUE]
      /\ UNCHANGED location

(***************************************************************************)
(* POST :id/locations/:locationId/found.  A GREEN location is left as it   *)
(* is (the request ends without a write); any other colour but BLUE is an  *)
(* error.  The update is by id.                                            *)
(***************************************************************************)
\* Mutant: only the GREEN and RED cases are handled.
FindableUnlessFinal == LocationStatuses \ {"GREEN", "RED"}
Findable == {"BLUE"}

BeginFound(r) ==
  \E s \in Sessions, c \in Codes :
    /\ session[s].status = "ACTIVE"
    /\ StatusOf(s, c) # NoRow
    /\ Begin(r, [Idle EXCEPT !.pc = "found.session", !.session = s,
                             !.code = c])

FoundReadLocation(r) ==
  /\ Advance(r, "found.session", "found.location")
  /\ StatusOf(request[r].session, request[r].code) \in Findable

FoundCommit(r) ==
  LET s == request[r].session
      c == request[r].code
  IN  /\ Finish(r, "found.location")
      /\ ~LockedByOther(r, s, c)
      /\ location' = [location EXCEPT ![s][c].status = "GREEN",
                                      ![s][c].found = TRUE]
      /\ UNCHANGED session

(***************************************************************************)
(* POST :id/close.  The updateMany locks the rows that are BLUE, waiting   *)
(* for other holders; RED and CLOSED become visible together.              *)
(***************************************************************************)
Missing(s) == CodesIn(s, {"BLUE"})

BeginClose(r) ==
  \E s \in Sessions :
    /\ session[s].status = "ACTIVE"
    /\ Begin(r, [Idle EXCEPT !.pc = "close.session", !.session = s])

CloseMarkMissing(r) ==
  LET s == request[r].session
  IN  /\ request[r].pc = "close.session"
      /\ \A c \in Missing(s) : ~LockedByOther(r, s, c)
      /\ request' = [request EXCEPT ![r].pc = "close.marked",
                                    ![r].locked = Missing(s)]
      /\ UNCHANGED <<session, location>>

Turned(s, codes, colour) ==
  [c \in Codes |-> IF c \in codes
                     THEN [location[s][c] EXCEPT !.status = colour]
                     ELSE location[s][c]]

CloseCommit(r) ==
  LET s == request[r].session
  IN  /\ Finish(r, "close.marked")
      /\ location' = [location EXCEPT ![s] = Turned(s, request[r].locked, "RED")]
      /\ session' = [session EXCEPT ![s].status = "CLOSED",
                                    ![s].closed = TRUE]

CreateSteps(r)   == BeginCreate(r) \/ CommitCreate(r)
ConfirmSteps(r)  == BeginConfirm(r) \/ ConfirmReadLocation(r) \/ ConfirmCommit(r)
ActivateSteps(r) ==
  \/ BeginActivate(r)      \/ ActivateReadLocations(r)
  \/ ActivateReadOthers(r) \/ ActivateCommit(r)
FoundSteps(r)    == BeginFound(r) \/ FoundReadLocation(r) \/ FoundCommit(r)
CloseSteps(r)    == BeginClose(r) \/ CloseMarkMissing(r) \/ CloseCommit(r)

Next ==
  \E r \in Requests :
    \/ CreateSteps(r) \/ ConfirmSteps(r) \/ ActivateSteps(r)
    \/ FoundSteps(r)  \/ CloseSteps(r)   \/ Abandon(r)

Spec == Init /\ [][Next]_vars

(***************************************************************************)
(* Safety under every interleaving.                                        *)
(***************************************************************************)

\* Once a session has been activated, every location its auditor designated
\* has been confirmed, and none is ORANGE: late confirmations and repeated
\* activations cannot put an unconfirmed object into the hunt.
HuntOnlyConfirmed ==
  \A s \in Sessions : session[s].activated =>
    \A c \in Designated(s) :
      StatusOf(s, c) # "ORANGE" /\ location[s][c].confirmed

\* A verdict has its evidence: a GREEN or RED location was confirmed hidden,
\* a GREEN or PURPLE one carries who found it and when, and none of the three
\* exists in a session that was never activated.
VerdictHasEvidence ==
  \A s \in Sessions, c \in Codes :
    /\ StatusOf(s, c) \in {"GREEN", "RED"} => location[s][c].confirmed
    /\ StatusOf(s, c) \in {"GREEN", "PURPLE"} => location[s][c].found
    /\ StatusOf(s, c) \in {"GREEN", "RED", "PURPLE"} => session[s].activated

\* The number of objects shown for a session is the number of locations its
\* auditor designated, whatever is found elsewhere or confirmed again.
CountMatchesPlan ==
  \A s \in Sessions : session[s].objectsToHide = Cardinality(Designated(s))

\* A location that is GREEN never becomes RED in one step: the closing update
\* waits for the row of a racing find and then skips it.
FoundNeverReportedMissing ==
  [][\A s \in Sessions, c \in Codes :
       StatusOf(s, c) = "GREEN" => StatusOf(s, c)' # "RED"]_vars

\* The hiding plan is fixed when the session is created: no location is added
\* to it or dropped from it, and an unexpected find stays an unexpected find.
PlanFixed ==
  [][\A s \in Sessions : session[s].status # NoRow =>
       /\ Designated(s)' = Designated(s)
       /\ CodesIn(s, {"PURPLE"}) \subseteq CodesIn(s, {"PURPLE"})']_vars

=============================================================================
