------------------------ MODULE CabinSecuritySearch ------------------------
(***************************************************************************)
(* Cabin security search trainings that are linked to a hidden object      *)
(* audit (cabin-security-search-trainings.service.ts), running beside the  *)
(* audit's own requests on the same rows.  Submitting a training credits   *)
(* the finds, records finds where nothing was hidden, reports the rest     *)
(* missing and closes the audit.                                           *)
(*                                                                         *)
(* A training that is linked to no audit touches none of this state and is *)
(* left out, and so are the texts, files and area rows a training stores.  *)
(***************************************************************************)
EXTENDS HiddenObjectAudit, Sequences

CONSTANT MaxTrainings   \* bound on the trainings accepted for one session
ASSUME MaxTrainingsAssumption == MaxTrainings \in Nat

VARIABLE trainings      \* trainings accepted for each session, oldest first

searchVars == <<session, location, request, trainings>>

Training == [found : SUBSET Codes, missing : SUBSET Codes, extra : SUBSET Codes]

SearchTypeOK == TypeOK /\ trainings \in [Sessions -> Seq(Training)]

SearchInit == Init /\ trainings = [s \in Sessions |-> <<>>]

(***************************************************************************)
(* POST /cabin-security-search-trainings.  The status of the audit is read *)
(* before the transaction and not again.                                   *)
(***************************************************************************)
Searchable == {"ACTIVE"}

BeginSearch(r) ==
  \E s \in Sessions :
    /\ session[s].status \in Searchable
    /\ Begin(r, [Idle EXCEPT !.pc = "search.session", !.session = s])
    /\ UNCHANGED trainings

\* The results must name exactly the BLUE locations, and there must be one.
\* An area that passed although it is not one of them is an unexpected find.
SearchReadHidden(r) ==
  LET hidden == Missing(request[r].session)
  IN  /\ request[r].pc = "search.session"
      /\ hidden # {}
      /\ \E found \in SUBSET hidden, extra \in SUBSET (Codes \ hidden) :
           request' = [request EXCEPT ![r].pc = "search.locations",
                                      ![r].codes = hidden,
                                      ![r].found = found,
                                      ![r].extra = extra]
      /\ UNCHANGED <<session, location, trainings>>

\* Both updateMany's: the finds must still be BLUE (the count check), and all
\* that is BLUE besides them is missing.
StillHidden(r) == request[r].found \subseteq Missing(request[r].session)

SearchMark(r) ==
  LET s == request[r].session
  IN  /\ request[r].pc = "search.locations"
      /\ StillHidden(r)
      /\ \A c \in Missing(s) \union request[r].found : ~LockedByOther(r, s, c)
      /\ request' = [request EXCEPT
                       ![r].pc = "search.marked",
                       ![r].locked = Missing(s) \union request[r].found]
      /\ UNCHANGED <<session, location, trainings>>

\* An unexpected find is a new row: (session, code) is unique, so a code that
\* has a row already, of any colour, fails the whole submission.
NoRowYet(r) ==
  \A c \in request[r].extra : StatusOf(request[r].session, c) = NoRow

Searched(r) ==
  LET s == request[r].session
  IN  [c \in Codes |->
         IF c \in request[r].found
           THEN [location[s][c] EXCEPT !.status = "GREEN", !.found = TRUE]
         ELSE IF c \in request[r].extra
           THEN [NoLocation EXCEPT !.status = "PURPLE", !.found = TRUE]
         ELSE Turned(s, request[r].locked, "RED")[c]]

SearchCommit(r) ==
  LET s == request[r].session
  IN  /\ Finish(r, "search.marked")
      /\ NoRowYet(r)
      /\ Len(trainings[s]) < MaxTrainings
      /\ location' = [location EXCEPT ![s] = Searched(r)]
      /\ session' = [session EXCEPT ![s].status = "CLOSED",
                                    ![s].closed = TRUE]
      /\ trainings' = [trainings EXCEPT ![s] =
           Append(@, [found   |-> request[r].found,
                      missing |-> request[r].codes \ request[r].found,
                      extra   |-> request[r].extra])]

SearchSteps(r) ==
  \/ BeginSearch(r) \/ SearchReadHidden(r) \/ SearchMark(r) \/ SearchCommit(r)

SearchNext ==
  \/ Next /\ UNCHANGED trainings
  \/ \E r \in Requests : SearchSteps(r)

SearchSpec == SearchInit /\ [][SearchNext]_searchVars

(***************************************************************************)
(* Safety under every interleaving, in addition to HiddenObjectAudit's.    *)
(***************************************************************************)

\* What a training reported stays on record in the audit: its unexpected finds
\* are the audit's PURPLE rows, each reported by one training only, and the
\* locations it credits or misses are designated ones, the credited with the
\* finder on the row.
ReportBacked ==
  \A s \in Sessions : \A i \in 1..Len(trainings[s]) :
    LET t == trainings[s][i]
    IN  /\ t.extra \subseteq CodesIn(s, {"PURPLE"})
        /\ t.found \union t.missing \subseteq Designated(s)
        /\ \A c \in t.found : location[s][c].found
        /\ \A j \in 1..Len(trainings[s]) :
             j # i => t.extra \intersect trainings[s][j].extra = {}

\* A training credits only locations that are hidden when it is accepted: one
\* that was found by another request, or reported missing by the closing of
\* the audit, is not credited again.
CreditOnlyHidden ==
  [][\A s \in Sessions :
       trainings'[s] # trainings[s] =>
         \A c \in trainings'[s][Len(trainings'[s])].found :
           StatusOf(s, c) = "BLUE"]_searchVars

(***************************************************************************)
(* Properties of the promised lifecycle.  They hold when one request at a  *)
(* time is served; interleaved requests break them.                        *)
(***************************************************************************)
Lifecycle ==
  INSTANCE AuditLifecycle WITH
    phase  <- [s \in Sessions |-> session[s].status],
    ship   <- [s \in Sessions |-> session[s].ship],
    colour <- [s \in Sessions |-> [c \in Codes |-> StatusOf(s, c)]]

\* The service implements the lifecycle.
ImplementsLifecycle == Lifecycle!Spec

\* "A setup / an active hidden object audit already exists for this ship
\* number": a ship has one open audit.
OneOpenAuditPerShip ==
  \A s, t \in Sessions :
    /\ session[s].status \in OpenStatuses
    /\ session[t].status \in OpenStatuses
    /\ session[s].ship = session[t].ship
    => s = t

\* "This location is already finalized": GREEN and RED are final.
FinalizedStays ==
  [][\A s \in Sessions, c \in Codes :
       StatusOf(s, c) \in {"GREEN", "RED"} => StatusOf(s, c)' = StatusOf(s, c)]_vars

\* "Every active hidden object location must be included in the cabin security
\* search results": a training reports missing what its closing turns RED, also
\* when a late confirmation hides a location again after the search read them.
ReportCoversMissing ==
  [][\A s \in Sessions :
       trainings'[s] # trainings[s] =>
         \A c \in Codes :
           StatusOf(s, c) = "BLUE" /\ StatusOf(s, c)' = "RED" =>
             c \in trainings'[s][Len(trainings'[s])].missing]_searchVars

=============================================================================
