--------------------- MODULE CabinSecuritySearchProofs ---------------------
(***************************************************************************)
(* Safety of CabinSecuritySearch, for any number of sessions, ships,       *)
(* locations and concurrent requests; and, when the requests are served    *)
(* one at a time, the lifecycle the service promises.                      *)
(***************************************************************************)
EXTENDS AuditOverview, FiniteSetTheorems, TLAPS

(***************************************************************************)
(* The inductive invariant.  RowsOK says what the tables may contain;      *)
(* Sound says, of a request in flight, which of the facts it has read can  *)
(* no longer be undone by anybody else: that is what its commit relies on. *)
(***************************************************************************)
RowOK(s, c) ==
  /\ session[s].status = NoRow => StatusOf(s, c) = NoRow
  /\ StatusOf(s, c) = NoRow => ~location[s][c].confirmed /\ ~location[s][c].found
  /\ session[s].activated => StatusOf(s, c) # "ORANGE"
  /\ StatusOf(s, c) \in {"BLUE", "GREEN", "RED"} => location[s][c].confirmed
  /\ StatusOf(s, c) \in {"GREEN", "PURPLE"} => location[s][c].found
  /\ StatusOf(s, c) \in {"GREEN", "RED", "PURPLE"} => session[s].activated

SessionOK(s) ==
  /\ session[s].status \in {"SETUP", NoRow} => ~session[s].activated
  /\ session[s].status \in {"ACTIVE", "CLOSED"} => session[s].activated

RowsOK ==
  /\ \A s \in Sessions : SessionOK(s)
  /\ \A s \in Sessions, c \in Codes : RowOK(s, c)

OnSession(q) == q.pc \notin {"idle", "create.checked"}
OnLocation(q) ==
  q.pc \in {"confirm.session", "confirm.location", "found.session", "found.location"}
Holding(q) == q.pc \in {"close.marked", "search.marked"}
Planned(s, c) == StatusOf(s, c) \notin {NoRow, "PURPLE"}

Sound(q) ==
  /\ OnSession(q) => q.session \in Sessions /\ session[q.session].status # NoRow
  /\ OnLocation(q) => q.code \in Codes /\ StatusOf(q.session, q.code) # NoRow
  /\ q.pc \in {"confirm.location", "found.location"} => Planned(q.session, q.code)
  /\ q.pc \in {"activate.locations", "activate.others"} =>
       \A c \in Codes : StatusOf(q.session, c) # "ORANGE"
  /\ q.pc \in {"found.session", "found.location", "close.session", "close.marked",
               "search.session", "search.locations", "search.marked"} =>
       session[q.session].activated
  /\ q.pc = "found.location" => location[q.session][q.code].confirmed
  /\ q.pc \in {"search.locations", "search.marked"} =>
       q.found \subseteq q.codes /\ \A c \in q.codes : Planned(q.session, c)
  /\ Holding(q) => \A c \in q.locked : StatusOf(q.session, c) = "BLUE"
  /\ q.pc = "search.marked" => q.found \subseteq q.locked
  /\ ~Holding(q) => q.locked = {}

LocksExclusive ==
  \A r, q \in Requests :
    r # q /\ request[r].session = request[q].session =>
      request[r].locked \intersect request[q].locked = {}

IInv ==
  /\ SearchTypeOK
  /\ RowsOK
  /\ CountMatchesPlan
  /\ \A r \in Requests : Sound(request[r])
  /\ LocksExclusive
  /\ ReportBacked


(***************************************************************************)
(* Facts about the tables that no step undoes.                             *)
(***************************************************************************)
Kept(s, c) ==
  /\ Planned(s, c) <=> Planned(s, c)'
  /\ StatusOf(s, c) = "PURPLE" => StatusOf(s, c)' = "PURPLE"
  /\ StatusOf(s, c)' = "ORANGE" => StatusOf(s, c) = "ORANGE"
  /\ location[s][c].confirmed => location'[s][c].confirmed
  /\ location[s][c].found => location'[s][c].found

Monotone ==
  \A s \in Sessions : session[s].status # NoRow =>
    /\ session'[s].status # NoRow
    /\ session[s].activated => session'[s].activated
    /\ session'[s].objectsToHide = session[s].objectsToHide
    /\ \A c \in Codes : Kept(s, c)

\* Two states that agree on which locations of a session are planned have the
\* same designated set.
LEMMA DesignatedKept ==
  ASSUME NEW s \in Sessions, SearchTypeOK, SearchTypeOK',
         \A c \in Codes : Planned(s, c) <=> Planned(s, c)'
  PROVE  Designated(s)' = Designated(s)
BY DEF Designated, CodesIn, Planned, StatusOf, SearchTypeOK, TypeOK,
       LocationRow, LocationStatuses, NoRow

\* A step that only changes what one request knows keeps the invariant when
\* what it now knows is sound and its row locks are its own.
LEMMA RequestStep ==
  ASSUME IInv, NEW r \in Requests, NEW new \in Request, Sound(new),
         \A q \in Requests \ {r} :
           request[q].session = new.session =>
             new.locked \intersect request[q].locked = {},
         request' = [request EXCEPT ![r] = new],
         UNCHANGED <<session, location, trainings>>
  PROVE  IInv'
<1>1. SearchTypeOK'
  BY DEF IInv, SearchTypeOK, TypeOK
<1>2. RowsOK' /\ CountMatchesPlan' /\ ReportBacked'
  BY DEF IInv, RowsOK, RowOK, SessionOK, CountMatchesPlan, ReportBacked,
         Designated, CodesIn, StatusOf
<1>3. \A q \in Requests : Sound(request[q])'
  BY ZenonT(40) DEF IInv, SearchTypeOK, TypeOK, Sound, OnSession, OnLocation, Holding,
         Planned, StatusOf
<1>4. LocksExclusive'
  BY DEF IInv, SearchTypeOK, TypeOK, LocksExclusive
<1> QED
  BY <1>1, <1>2, <1>3, <1>4 DEF IInv

\* A request slot that is free relies on nothing and holds no row.
LEMMA IdleSound == Idle \in Request /\ Sound(Idle) /\ Idle.locked = {}
BY NoneAssumption DEF Idle, Request, PCs, Sound, OnSession, OnLocation, Holding

\* A commit that undoes nothing and leaves alone the rows other requests hold
\* keeps the other requests sound.
LEMMA CommitKeepsRequests ==
  ASSUME IInv, Monotone, NEW r \in Requests,
         request' = [request EXCEPT ![r] = Idle],
         \A q \in Requests \ {r} : \A c \in request[q].locked :
           StatusOf(request[q].session, c)' = StatusOf(request[q].session, c)
  PROVE  (\A q \in Requests : Sound(request[q])') /\ LocksExclusive'
<1> USE DEF IInv
<1>1. request' \in [Requests -> Request] /\ request'[r] = Idle
  BY IdleSound DEF SearchTypeOK, TypeOK
<1>2. Sound(request[r])'
  BY <1>1 DEF Idle, Sound, OnSession, OnLocation, Holding
<1>3. ASSUME NEW q \in Requests \ {r} PROVE Sound(request[q])'
  <2>1. request'[q] = request[q] /\ request[q] \in Request /\ Sound(request[q])
    BY DEF SearchTypeOK, TypeOK
  <2>2. CASE OnSession(request[q])
    <3>1. /\ request[q].session \in Sessions
          /\ session[request[q].session].status # NoRow
      BY <2>1, <2>2 DEF Sound
    <3>2. /\ session'[request[q].session].status # NoRow
          /\ session[request[q].session].activated
               => session'[request[q].session].activated
          /\ \A c \in Codes : Kept(request[q].session, c)
      BY <3>1 DEF Monotone
    <3>3. PICK p \in Request : p = request[q]
      BY <2>1
    <3>4. /\ p.session \in Sessions
          /\ session[p.session].activated => session'[p.session].activated
          /\ session'[p.session].status # NoRow
          /\ \A c \in Codes : Kept(p.session, c)
          /\ Sound(p)
      BY <2>1, <3>1, <3>2, <3>3
    <3>5. p.codes \subseteq Codes /\ p.locked \subseteq Codes
      BY DEF Request
    <3>6. Holding(p) => \A c \in p.locked : StatusOf(p.session, c)' = "BLUE"
      BY <3>3, <3>4 DEF Sound
    <3>7. Sound(p)'
      BY <3>4, <3>5, <3>6 DEF Sound, OnSession, OnLocation, Holding, Planned, Kept, StatusOf, NoRow
    <3> QED
      BY <2>1, <3>3, <3>7
  <2>3. CASE ~OnSession(request[q])
    BY <2>1, <2>3 DEF Sound, OnSession, OnLocation, Holding
  <2> QED
    BY <2>2, <2>3
<1>4. LocksExclusive'
  BY <1>1, IdleSound DEF LocksExclusive, SearchTypeOK, TypeOK
<1> QED
  BY <1>2, <1>3, <1>4

\* Such a commit keeps the accepted trainings backed by the tables.
LEMMA CommitKeepsReports ==
  ASSUME IInv, Monotone, SearchTypeOK', NEW s \in Sessions,
         NEW t \in Training,
         t.extra \subseteq CodesIn(s, {"PURPLE"}),
         t.found \union t.missing \subseteq Designated(s),
         \A c \in t.found : location[s][c].found
  PROVE  /\ (t.extra \subseteq CodesIn(s, {"PURPLE"}))'
         /\ (t.found \union t.missing \subseteq Designated(s))'
         /\ (\A c \in t.found : location[s][c].found)'
<1>1. CASE session[s].status = NoRow
  <2>1. \A c \in Codes : StatusOf(s, c) = NoRow
    BY <1>1 DEF IInv, RowsOK, RowOK
  <2>2. t.extra = {} /\ t.found = {} /\ t.missing = {}
    BY <2>1 DEF Designated, CodesIn, NoRow, LocationStatuses
  <2> QED
    BY <2>2
<1>2. CASE session[s].status # NoRow
  <2>1. \A c \in Codes : Kept(s, c)
    BY <1>2 DEF Monotone
  <2>2. Designated(s)' = Designated(s)
    BY <2>1, DesignatedKept DEF IInv, Kept
  <2>3. (t.extra \subseteq CodesIn(s, {"PURPLE"}))'
    BY <2>1 DEF Kept, CodesIn
  <2>4. t.found \subseteq Codes
    BY DEF Training
  <2> QED
    BY <2>1, <2>2, <2>3, <2>4 DEF Kept
<1> QED
  BY <1>1, <1>2

\* A commit that undoes nothing and accepts no training keeps every accepted
\* training backed.
LEMMA SameTrainings ==
  ASSUME IInv, Monotone, SearchTypeOK', UNCHANGED trainings
  PROVE  ReportBacked'
<1> SUFFICES ASSUME NEW s \in Sessions, NEW i \in 1..Len(trainings[s])
    PROVE  /\ (trainings[s][i].extra \subseteq CodesIn(s, {"PURPLE"}))'
           /\ (trainings[s][i].found \union trainings[s][i].missing
                 \subseteq Designated(s))'
           /\ (\A c \in trainings[s][i].found : location[s][c].found)'
  BY DEF ReportBacked, IInv
<1>1. trainings[s][i] \in Training
  BY DEF IInv, SearchTypeOK
<1>2. /\ trainings[s][i].extra \subseteq CodesIn(s, {"PURPLE"})
      /\ trainings[s][i].found \union trainings[s][i].missing \subseteq Designated(s)
      /\ \A c \in trainings[s][i].found : location[s][c].found
  BY DEF IInv, ReportBacked
<1> QED
  BY <1>1, <1>2, CommitKeepsReports

(***************************************************************************)
(* The steps that change only what a request knows.                        *)
(***************************************************************************)

\* A handler that has only passed its first check, and a request that is given
\* up, keep the invariant: what the check read is sound.
LEMMA BeginKeeps ==
  ASSUME IInv, UNCHANGED trainings, NEW r \in Requests,
         \/ BeginCreate(r) \/ BeginConfirm(r) \/ BeginActivate(r)
         \/ BeginFound(r) \/ BeginClose(r) \/ BeginSearch(r) \/ Abandon(r)
  PROVE  IInv'
<1>1. PICK new \in Request :
        /\ Sound(new) /\ new.locked = {}
        /\ request' = [request EXCEPT ![r] = new]
        /\ UNCHANGED <<session, location>>
  <2> USE IdleSound DEF Begin
  <2>1. CASE BeginCreate(r)
    <3>1. PICK ship \in Ships, chosen \in (SUBSET Codes) \ {{}} :
            Begin(r, [Idle EXCEPT !.pc = "create.checked", !.ship = ship,
                                  !.codes = chosen])
      BY <2>1 DEF BeginCreate
    <3> QED
      BY <3>1, ZenonT(40) DEF Idle, Request, PCs, Sound, OnSession, OnLocation, Holding
  <2>2. CASE BeginConfirm(r)
    <3>1. PICK s \in Sessions, c \in Codes :
            /\ session[s].status = "SETUP"
            /\ StatusOf(s, c) # NoRow
            /\ Begin(r, [Idle EXCEPT !.pc = "confirm.session", !.session = s,
                                     !.code = c])
      BY <2>2 DEF BeginConfirm
    <3> QED
      BY <3>1 DEF Idle, Request, PCs, Sound, OnSession, OnLocation, Holding, NoRow
  <2>3. CASE BeginActivate(r)
    <3>1. PICK s \in Sessions :
            /\ session[s].status = "SETUP"
            /\ Begin(r, [Idle EXCEPT !.pc = "activate.session", !.session = s])
      BY <2>3 DEF BeginActivate
    <3> QED
      BY <3>1 DEF Idle, Request, PCs, Sound, OnSession, OnLocation, Holding, NoRow
  <2>4. CASE BeginFound(r)
    <3>1. PICK s \in Sessions, c \in Codes :
            /\ session[s].status = "ACTIVE"
            /\ StatusOf(s, c) # NoRow
            /\ Begin(r, [Idle EXCEPT !.pc = "found.session", !.session = s,
                                     !.code = c])
      BY <2>4 DEF BeginFound
    <3> QED
      BY <3>1 DEF Idle, Request, PCs, Sound, OnSession, OnLocation, Holding, NoRow,
                  IInv, RowsOK, SessionOK
  <2>5. CASE BeginClose(r)
    <3>1. PICK s \in Sessions :
            /\ session[s].status = "ACTIVE"
            /\ Begin(r, [Idle EXCEPT !.pc = "close.session", !.session = s])
      BY <2>5 DEF BeginClose
    <3> QED
      BY <3>1 DEF Idle, Request, PCs, Sound, OnSession, OnLocation, Holding, NoRow,
                  IInv, RowsOK, SessionOK
  <2>6. CASE BeginSearch(r)
    <3>1. PICK s \in Sessions :
            /\ session[s].status = "ACTIVE"
            /\ Begin(r, [Idle EXCEPT !.pc = "search.session", !.session = s])
      BY <2>6 DEF BeginSearch, Searchable
    <3> QED
      BY <3>1 DEF Idle, Request, PCs, Sound, OnSession, OnLocation, Holding, NoRow,
                  IInv, RowsOK, SessionOK
  <2>7. CASE Abandon(r)
    BY <2>7 DEF Abandon
  <2> QED
    BY <2>1, <2>2, <2>3, <2>4, <2>5, <2>6, <2>7
<1> QED
  BY <1>1, RequestStep

\* The later reads of a handler keep the invariant: what each one has seen is
\* something no other request can undo.
LEMMA ReadKeeps ==
  ASSUME IInv, UNCHANGED trainings, NEW r \in Requests,
         \/ ConfirmReadLocation(r) \/ ActivateReadLocations(r)
         \/ ActivateReadOthers(r) \/ FoundReadLocation(r)
         \/ SearchReadHidden(r)
  PROVE  IInv'
<1>1. request[r] \in Request /\ Sound(request[r])
  BY DEF IInv, SearchTypeOK, TypeOK
<1>2. PICK new \in Request :
        /\ Sound(new) /\ new.locked = {}
        /\ request' = [request EXCEPT ![r] = new]
        /\ UNCHANGED <<session, location>>
  <2>1. CASE ConfirmReadLocation(r)
    <3> DEFINE new == [request[r] EXCEPT !.pc = "confirm.location"]
    <3>1. new \in Request /\ Sound(new) /\ new.locked = {}
      BY <1>1, <2>1 DEF ConfirmReadLocation, Confirmable, Advance, Request, PCs,
         Sound, OnSession, OnLocation, Holding, Planned, NoRow
    <3>2. request' = [request EXCEPT ![r] = new] /\ UNCHANGED <<session, location>>
      BY <2>1 DEF ConfirmReadLocation, Advance
    <3> QED
      BY <3>1, <3>2
  <2>2. CASE ActivateReadLocations(r)
    <3> DEFINE new == [request[r] EXCEPT !.pc = "activate.locations"]
    <3>1. new \in Request /\ Sound(new) /\ new.locked = {}
      BY <1>1, <2>2 DEF ActivateReadLocations, AllConfirmed, Rows, CodesIn, Advance,
         Request, PCs, Sound, OnSession, OnLocation, Holding, NoRow
    <3>2. request' = [request EXCEPT ![r] = new] /\ UNCHANGED <<session, location>>
      BY <2>2 DEF ActivateReadLocations, Advance
    <3> QED
      BY <3>1, <3>2
  <2>3. CASE ActivateReadOthers(r)
    <3> DEFINE new == [request[r] EXCEPT !.pc = "activate.others"]
    <3>1. new \in Request /\ Sound(new) /\ new.locked = {}
      BY <1>1, <2>3 DEF ActivateReadOthers, Advance, Request, PCs,
         Sound, OnSession, OnLocation, Holding
    <3>2. request' = [request EXCEPT ![r] = new] /\ UNCHANGED <<session, location>>
      BY <2>3 DEF ActivateReadOthers, Advance
    <3> QED
      BY <3>1, <3>2
  <2>4. CASE FoundReadLocation(r)
    <3> DEFINE new == [request[r] EXCEPT !.pc = "found.location"]
    <3>1. new \in Request /\ Sound(new) /\ new.locked = {}
      BY <1>1, <2>4 DEF FoundReadLocation, Findable, Advance, Request, PCs,
         Sound, OnSession, OnLocation, Holding, Planned, NoRow, IInv, RowsOK, RowOK
    <3>2. request' = [request EXCEPT ![r] = new] /\ UNCHANGED <<session, location>>
      BY <2>4 DEF FoundReadLocation, Advance
    <3> QED
      BY <3>1, <3>2
  <2>5. CASE SearchReadHidden(r)
    <3> DEFINE hidden == Missing(request[r].session)
    <3>1. PICK found \in SUBSET hidden, extra \in SUBSET (Codes \ hidden) :
            /\ request[r].pc = "search.session"
            /\ UNCHANGED <<session, location>>
            /\ request' = [request EXCEPT ![r].pc = "search.locations",
                                          ![r].codes = hidden,
                                          ![r].found = found,
                                          ![r].extra = extra]
      BY <2>5 DEF SearchReadHidden
    <3>2. hidden \subseteq Codes /\ \A c \in hidden : Planned(request[r].session, c)
      BY DEF Missing, CodesIn, Planned, NoRow
    <3> HIDE DEF hidden
    <3> DEFINE new == [request[r] EXCEPT !.pc = "search.locations", !.codes = hidden,
                                         !.found = found, !.extra = extra]
    <3>3. new \in Request /\ Sound(new) /\ new.locked = {}
      BY <1>1, <3>1, <3>2 DEF Request, PCs, Sound, OnSession, OnLocation, Holding
    <3>4. request' = [request EXCEPT ![r] = new]
      BY <3>1
    <3> QED
      BY <3>1, <3>3, <3>4
  <2> QED
    BY <2>1, <2>2, <2>3, <2>4, <2>5
<1> QED
  BY <1>2, RequestStep

\* The closing updates lock rows nobody else holds, all of them BLUE.
LEMMA MarkKeeps ==
  ASSUME IInv, UNCHANGED trainings, NEW r \in Requests,
         CloseMarkMissing(r) \/ SearchMark(r)
  PROVE  IInv'
<1> DEFINE s == request[r].session
<1>1. request[r] \in Request /\ Sound(request[r])
  BY DEF IInv, SearchTypeOK, TypeOK
<1>2. /\ Missing(s) \subseteq Codes
      /\ \A c \in Missing(s) : StatusOf(s, c) = "BLUE"
  BY DEF Missing, CodesIn
<1>3. PICK new \in Request :
        /\ Sound(new) /\ new.locked = Missing(s) /\ new.session = s
        /\ request' = [request EXCEPT ![r] = new]
        /\ UNCHANGED <<session, location>>
        /\ \A c \in Missing(s) : ~LockedByOther(r, s, c)
  <2>1. CASE CloseMarkMissing(r)
    <3> DEFINE new == [request[r] EXCEPT !.pc = "close.marked", !.locked = Missing(s)]
    <3>1. new \in Request /\ Sound(new) /\ new.locked = Missing(s) /\ new.session = s
      BY <1>1, <1>2, <2>1 DEF CloseMarkMissing, Request, PCs, Sound, OnSession,
         OnLocation, Holding
    <3> QED
      BY <2>1, <3>1 DEF CloseMarkMissing
  <2>2. CASE SearchMark(r)
    <3>1. Missing(s) \union request[r].found = Missing(s)
      BY <2>2 DEF SearchMark, StillHidden
    <3> DEFINE new == [request[r] EXCEPT !.pc = "search.marked", !.locked = Missing(s)]
    <3>2. new \in Request /\ Sound(new) /\ new.locked = Missing(s) /\ new.session = s
      BY <1>1, <1>2, <2>2, <3>1 DEF SearchMark, StillHidden, Request, PCs, Sound,
         OnSession, OnLocation, Holding
    <3> QED
      BY <2>2, <3>1, <3>2 DEF SearchMark
  <2> QED
    BY <2>1, <2>2
<1>4. \A q \in Requests \ {r} :
        request[q].session = new.session => new.locked \intersect request[q].locked = {}
  BY <1>3 DEF LockedByOther
<1> QED
  BY <1>3, <1>4, RequestStep

(***************************************************************************)
(* The commits.                                                            *)
(***************************************************************************)

\* A commit that undoes nothing and leaves unused ids alone keeps the object
\* count of every session equal to the size of its plan.
LEMMA CountKept ==
  ASSUME IInv, Monotone, SearchTypeOK',
         \A s \in Sessions : session[s].status = NoRow =>
           session'[s] = session[s] /\ location'[s] = location[s]
  PROVE  CountMatchesPlan'
<1> SUFFICES ASSUME NEW s \in Sessions
    PROVE session'[s].objectsToHide = Cardinality(Designated(s)')
  BY DEF CountMatchesPlan
<1>1. \A c \in Codes : Planned(s, c) <=> Planned(s, c)'
  BY DEF Monotone, Kept, Planned, StatusOf
<1>2. Designated(s)' = Designated(s)
  BY <1>1, DesignatedKept DEF IInv
<1>3. session'[s].objectsToHide = session[s].objectsToHide
  BY DEF Monotone
<1> QED
  BY <1>2, <1>3 DEF IInv, CountMatchesPlan

\* The insert of an audit (create) keeps the invariant: the new session has as
\* many ORANGE rows as it says it hides, and no request refers to it yet.
LEMMA CreateKeeps ==
  ASSUME IInv, UNCHANGED trainings, NEW r \in Requests, CommitCreate(r)
  PROVE  IInv' /\ Monotone
<1> DEFINE chosen == request[r].codes
<1>1. PICK t \in Sessions :
        /\ session[t].status = NoRow
        /\ session' = [session EXCEPT ![t] = NewSession(r)]
        /\ location' = [location EXCEPT ![t] = NewLocations(r)]
  BY DEF CommitCreate
<1>2. request' = [request EXCEPT ![r] = Idle] /\ request[r].pc = "create.checked"
  BY DEF CommitCreate, Finish
<1>3. request[r] \in Request /\ chosen \subseteq Codes
  BY DEF IInv, SearchTypeOK, TypeOK, Request
<1>4. IsFiniteSet(chosen) /\ Cardinality(chosen) \in Nat
  BY <1>3, CodesAssumption, FS_Subset, FS_CardinalityType
<1>5. NewSession(r) \in SessionRow /\ NewLocations(r) \in [Codes -> LocationRow]
  BY <1>3, <1>4 DEF NewSession, NewLocations, NoSession, NoLocation, SessionRow,
     LocationRow, SessionStatuses, LocationStatuses, Request
<1>6. SearchTypeOK'
  BY <1>1, <1>2, <1>5, IdleSound DEF IInv, SearchTypeOK, TypeOK
<1>7. Monotone
  BY <1>1 DEF Monotone, Kept, Planned, StatusOf, IInv, SearchTypeOK, TypeOK
<1>8. RowsOK'
  BY <1>1 DEF IInv, SearchTypeOK, TypeOK, RowsOK, RowOK, SessionOK, StatusOf,
     NewSession, NewLocations, NoSession, NoLocation, NoRow
<1>9. CountMatchesPlan'
  <2> SUFFICES ASSUME NEW s \in Sessions
      PROVE session'[s].objectsToHide = Cardinality(Designated(s)')
    BY DEF CountMatchesPlan
  <2>1. CASE s = t
    <3>1. Designated(s)' = chosen
      BY <1>1, <1>3, <2>1 DEF Designated, CodesIn, StatusOf, NewLocations,
         NoLocation, NoRow, LocationStatuses, IInv, SearchTypeOK, TypeOK
    <3>2. session'[s].objectsToHide = Cardinality(chosen)
      BY <1>1, <2>1 DEF NewSession, NoSession, IInv, SearchTypeOK, TypeOK
    <3> QED
      BY <3>1, <3>2
  <2>2. CASE s # t
    <3>1. Designated(s)' = Designated(s)
      BY <1>1, <2>2 DEF Designated, CodesIn, StatusOf, IInv, SearchTypeOK, TypeOK
    <3>2. session'[s] = session[s]
      BY <1>1, <2>2 DEF IInv, SearchTypeOK, TypeOK
    <3> QED
      BY <3>1, <3>2 DEF IInv, CountMatchesPlan
  <2> QED
    BY <2>1, <2>2
<1>10. ASSUME NEW q \in Requests \ {r}, NEW c \in request[q].locked
       PROVE StatusOf(request[q].session, c)' = StatusOf(request[q].session, c)
  <2>1. request[q].session \in Sessions /\ session[request[q].session].status # NoRow
    BY <1>10 DEF IInv, Sound, Holding, OnSession
  <2> QED
    BY <1>1, <1>2, <2>1 DEF StatusOf, IInv, SearchTypeOK, TypeOK
<1>11. (\A q \in Requests : Sound(request[q])') /\ LocksExclusive'
  BY <1>2, <1>7, <1>10, CommitKeepsRequests
<1>12. ReportBacked'
  BY <1>6, <1>7, SameTrainings
<1> QED
  BY <1>6, <1>7, <1>8, <1>9, <1>11, <1>12 DEF IInv

\* The update that activates an audit keeps the invariant even when it comes
\* late: the locations it saw confirmed are not ORANGE again.
LEMMA ActivateKeeps ==
  ASSUME IInv, UNCHANGED trainings, NEW r \in Requests, ActivateCommit(r)
  PROVE  IInv' /\ Monotone
<1> DEFINE s == request[r].session
<1>1. /\ s \in Sessions /\ session[s].status # NoRow
      /\ \A c \in Codes : StatusOf(s, c) # "ORANGE"
  BY DEF ActivateCommit, Finish, IInv, Sound, OnSession
<1>2. /\ request' = [request EXCEPT ![r] = Idle]
      /\ session' = [session EXCEPT ![s].status = "ACTIVE", ![s].activated = TRUE]
      /\ UNCHANGED location
  BY DEF ActivateCommit, Finish
<1> HIDE DEF s
<1>3. SearchTypeOK'
  BY <1>1, <1>2, IdleSound, ZenonT(40) DEF IInv, SearchTypeOK, TypeOK, SessionRow, SessionStatuses
<1>4. Monotone
  BY <1>1, <1>2 DEF Monotone, Kept, Planned, StatusOf, IInv, SearchTypeOK, TypeOK,
     SessionRow, NoRow
<1>5. RowsOK'
  BY <1>1, <1>2 DEF IInv, SearchTypeOK, TypeOK, SessionRow, RowsOK, RowOK, SessionOK,
     StatusOf, NoRow
<1>6. CountMatchesPlan'
  BY <1>1, <1>2, <1>3, <1>4, CountKept DEF IInv, SearchTypeOK, TypeOK
<1>7. (\A q \in Requests : Sound(request[q])') /\ LocksExclusive'
  <2>1. \A q \in Requests \ {r} : \A c \in request[q].locked :
          StatusOf(request[q].session, c)' = StatusOf(request[q].session, c)
    BY <1>2 DEF StatusOf, IInv, SearchTypeOK, TypeOK
  <2> QED
    BY <1>2, <1>4, <2>1, CommitKeepsRequests
<1>8. ReportBacked'
  BY <1>3, <1>4, SameTrainings
<1> QED
  BY <1>3, <1>4, <1>5, <1>6, <1>7, <1>8 DEF IInv

\* confirmLocation and markFound update one row by its id.
LEMMA OneRowKeeps ==
  ASSUME IInv, UNCHANGED trainings, NEW r \in Requests,
         ConfirmCommit(r) \/ FoundCommit(r)
  PROVE  IInv' /\ Monotone
<1> DEFINE s == request[r].session
           c == request[r].code
<1>1. /\ s \in Sessions /\ session[s].status # NoRow
      /\ c \in Codes /\ Planned(s, c)
      /\ ~LockedByOther(r, s, c)
      /\ request' = [request EXCEPT ![r] = Idle]
      /\ UNCHANGED session
  BY DEF ConfirmCommit, FoundCommit, Finish, IInv, Sound, OnSession, OnLocation
<1>2. PICK row \in LocationRow :
        /\ location' = [location EXCEPT ![s][c] = row]
        /\ row.status \in {"BLUE", "GREEN"} /\ row.confirmed
        /\ location[s][c].found => row.found
        /\ row.status = "GREEN" => session[s].activated /\ row.found
  <2>1. location[s][c] \in LocationRow
    BY <1>1 DEF IInv, SearchTypeOK, TypeOK
  <2>2. CASE ConfirmCommit(r)
    <3> DEFINE row == [location[s][c] EXCEPT !.status = "BLUE", !.confirmed = TRUE]
    <3>1. row \in LocationRow /\ row.status = "BLUE" /\ row.confirmed
          /\ (location[s][c].found => row.found)
      BY <2>1 DEF LocationRow, LocationStatuses
    <3>2. location' = [location EXCEPT ![s][c] = row]
      BY <1>1, <2>1, <2>2 DEF ConfirmCommit, IInv, SearchTypeOK, TypeOK, LocationRow
    <3> QED
      BY <3>1, <3>2
  <2>3. CASE FoundCommit(r)
    <3> DEFINE row == [location[s][c] EXCEPT !.status = "GREEN", !.found = TRUE]
    <3>1. session[s].activated /\ location[s][c].confirmed
      BY <2>3 DEF FoundCommit, Finish, IInv, Sound
    <3>2. row \in LocationRow /\ row.status = "GREEN" /\ row.confirmed /\ row.found
      BY <2>1, <3>1 DEF LocationRow, LocationStatuses
    <3>3. location' = [location EXCEPT ![s][c] = row]
      BY <1>1, <2>1, <2>3 DEF FoundCommit, IInv, SearchTypeOK, TypeOK, LocationRow
    <3> QED
      BY <3>1, <3>2, <3>3
  <2> QED
    BY <2>2, <2>3
<1> HIDE DEF s, c
<1>3. SearchTypeOK'
  BY <1>1, <1>2, IdleSound DEF IInv, SearchTypeOK, TypeOK
<1>4. Monotone
  BY <1>1, <1>2 DEF Monotone, Kept, Planned, StatusOf, IInv, SearchTypeOK, TypeOK, NoRow
<1>5. RowsOK'
  BY <1>1, <1>2 DEF IInv, SearchTypeOK, TypeOK, RowsOK, RowOK, SessionOK, StatusOf, NoRow
<1>6. CountMatchesPlan'
  BY <1>1, <1>2, <1>3, <1>4, CountKept DEF IInv, SearchTypeOK, TypeOK
<1>7. \A q \in Requests \ {r} : \A d \in request[q].locked :
        StatusOf(request[q].session, d)' = StatusOf(request[q].session, d)
  BY <1>1, <1>2 DEF LockedByOther, StatusOf, IInv, SearchTypeOK, TypeOK, Request
<1>8. (\A q \in Requests : Sound(request[q])') /\ LocksExclusive'
  BY <1>1, <1>4, <1>7, CommitKeepsRequests
<1>9. ReportBacked'
  BY <1>3, <1>4, SameTrainings
<1> QED
  BY <1>3, <1>4, <1>5, <1>6, <1>8, <1>9 DEF IInv

\* close and the search change many rows: those they hold, all BLUE, and, for
\* a search, the codes of its unexpected finds, which had no row.
ClosedRow(r, c, row) ==
  LET s == request[r].session
      q == request[r]
  IN  \/ row = location[s][c] /\ c \notin q.locked
      \/ /\ c \in q.locked
         /\ row.status \in {"GREEN", "RED"} /\ row.confirmed
         /\ row.status = "GREEN" => c \in q.found /\ row.found
         /\ location[s][c].found => row.found
      \/ /\ c \in q.extra /\ c \notin q.locked
         /\ StatusOf(s, c) = NoRow
         /\ row.status = "PURPLE" /\ row.found

ClosedRows(r, rows) ==
  /\ location' = [location EXCEPT ![request[r].session] = rows]
  /\ \A c \in Codes : ClosedRow(r, c, rows[c])
  /\ SearchCommit(r) =>
       /\ \A c \in request[r].extra : rows[c].status = "PURPLE"
       /\ \A c \in request[r].found : rows[c].status = "GREEN" /\ rows[c].found

\* What close and the search training write, in one form: the rows they hold
\* get a verdict, codes without a row may become unexpected finds, and the
\* rest of the audit is as it was.
LEMMA ClosingRows ==
  ASSUME IInv, NEW r \in Requests, CloseCommit(r) \/ SearchCommit(r)
  PROVE  /\ request[r] \in Request /\ request[r].session \in Sessions
         /\ session[request[r].session].status # NoRow
         /\ session[request[r].session].activated
         /\ \A c \in request[r].locked :
              c \in Codes /\ StatusOf(request[r].session, c) = "BLUE"
         /\ request' = [request EXCEPT ![r] = Idle]
         /\ session' = [session EXCEPT ![request[r].session].status = "CLOSED",
                                       ![request[r].session].closed = TRUE]
         /\ \E rows \in [Codes -> LocationRow] : ClosedRows(r, rows)
<1> DEFINE s == request[r].session
           q == request[r]
<1>1. /\ q \in Request /\ s \in Sessions
      /\ session[s].status # NoRow /\ session[s].activated
      /\ \A c \in q.locked : StatusOf(s, c) = "BLUE"
      /\ SearchCommit(r) => q.found \subseteq q.locked
  BY DEF CloseCommit, SearchCommit, Finish, IInv, SearchTypeOK, TypeOK, Sound,
     OnSession, Holding
<1>2. \A c \in q.locked : c \in Codes /\ location[s][c].confirmed
  BY <1>1 DEF IInv, RowsOK, RowOK, Request
<1>3. location[s] \in [Codes -> LocationRow]
  BY <1>1 DEF IInv, SearchTypeOK, TypeOK
<1>4. /\ request' = [request EXCEPT ![r] = Idle]
      /\ session' = [session EXCEPT ![s].status = "CLOSED", ![s].closed = TRUE]
  BY DEF CloseCommit, SearchCommit, Finish
<1>5. CASE CloseCommit(r) /\ ~SearchCommit(r)
  <2> DEFINE rows == Turned(s, q.locked, "RED")
  <2>1. rows \in [Codes -> LocationRow]
    BY <1>3 DEF Turned, LocationRow, LocationStatuses
  <2>2. location' = [location EXCEPT ![s] = rows]
    BY <1>5 DEF CloseCommit
  <2>3. \A c \in Codes :
          \/ rows[c] = location[s][c] /\ c \notin q.locked
          \/ /\ c \in q.locked
             /\ rows[c].status = "RED" /\ rows[c].confirmed
             /\ location[s][c].found => rows[c].found
    BY <1>2, <1>3 DEF Turned, LocationRow
  <2> HIDE DEF rows
  <2>4. ClosedRows(r, rows)
    BY <1>5, <2>2, <2>3 DEF ClosedRows, ClosedRow
  <2> QED
    BY <1>1, <1>2, <1>4, <2>1, <2>4
<1>6. CASE SearchCommit(r)
  <2> DEFINE rows == Searched(r)
  <2>1. rows \in [Codes -> LocationRow]
    BY <1>3 DEF Searched, Turned, NoLocation, LocationRow, LocationStatuses, NoRow
  <2>2. location' = [location EXCEPT ![s] = rows]
    BY <1>6 DEF SearchCommit
  <2>3. \A c \in q.extra : StatusOf(s, c) = NoRow /\ c \notin q.locked /\ c \in Codes
    BY <1>1, <1>6 DEF SearchCommit, NoRowYet, NoRow, Request
  <2>4. \A c \in Codes :
          /\ c \in q.found =>
               rows[c] = [location[s][c] EXCEPT !.status = "GREEN", !.found = TRUE]
          /\ c \in q.extra /\ c \notin q.found =>
               rows[c] = [NoLocation EXCEPT !.status = "PURPLE", !.found = TRUE]
          /\ c \in q.locked /\ c \notin q.found /\ c \notin q.extra =>
               rows[c] = [location[s][c] EXCEPT !.status = "RED"]
          /\ c \notin q.locked /\ c \notin q.found /\ c \notin q.extra =>
               rows[c] = location[s][c]
    BY DEF Searched, Turned
  <2>5. \A c \in q.found : c \in q.locked /\ c \in Codes
    BY <1>1, <1>2, <1>6
  <2> HIDE DEF rows
  <2>6. \A c \in q.extra : rows[c].status = "PURPLE" /\ rows[c].found
    BY <2>3, <2>4, <2>5, ZenonT(40) DEF NoLocation
  <2>7. \A c \in q.found : rows[c].status = "GREEN" /\ rows[c].found
                           /\ rows[c].confirmed
    <3> SUFFICES ASSUME NEW c \in q.found
        PROVE rows[c].status = "GREEN" /\ rows[c].found /\ rows[c].confirmed
      OBVIOUS
    <3>1. rows[c] = [location[s][c] EXCEPT !.status = "GREEN", !.found = TRUE]
      BY <2>4, <2>5
    <3>2. location[s][c] \in LocationRow /\ location[s][c].confirmed
      BY <1>2, <1>3, <2>5
    <3> QED
      BY <3>1, <3>2 DEF LocationRow
  <2>8. \A c \in q.locked : c \notin q.found =>
          /\ rows[c].status = "RED" /\ rows[c].confirmed
          /\ location[s][c].found => rows[c].found
    <3> SUFFICES ASSUME NEW c \in q.locked, c \notin q.found
        PROVE /\ rows[c].status = "RED" /\ rows[c].confirmed
              /\ location[s][c].found => rows[c].found
      OBVIOUS
    <3>1. rows[c] = [location[s][c] EXCEPT !.status = "RED"]
      BY <1>2, <2>3, <2>4
    <3>2. location[s][c] \in LocationRow /\ location[s][c].confirmed
      BY <1>2, <1>3
    <3> QED
      BY <3>1, <3>2 DEF LocationRow
  <2>9. ASSUME NEW c \in Codes PROVE ClosedRow(r, c, rows[c])
    <3>1. CASE c \in q.locked /\ c \in q.found
      BY <3>1, <2>7 DEF ClosedRow
    <3>2. CASE c \in q.locked /\ c \notin q.found
      BY <3>2, <2>8 DEF ClosedRow
    <3>3. CASE c \notin q.locked /\ c \in q.extra
      BY <3>3, <2>3, <2>6 DEF ClosedRow
    <3>4. CASE c \notin q.locked /\ c \notin q.extra
      BY <3>4, <2>4, <2>5 DEF ClosedRow
    <3> QED
      BY <3>1, <3>2, <3>3, <3>4
  <2>10. ClosedRows(r, rows)
    BY <2>2, <2>6, <2>7, <2>9 DEF ClosedRows
  <2> QED
    BY <1>1, <1>2, <1>4, <2>1, <2>10
<1> QED
  BY <1>5, <1>6

\* Such a commit keeps every part of the invariant that is about the audit's
\* rows and about the other requests.
LEMMA ClosingKeepsTables ==
  ASSUME IInv, NEW r \in Requests, CloseCommit(r) \/ SearchCommit(r),
         trainings' \in [Sessions -> Seq(Training)]
  PROVE  /\ SearchTypeOK' /\ RowsOK' /\ CountMatchesPlan' /\ Monotone
         /\ (\A q \in Requests : Sound(request[q])') /\ LocksExclusive'
<1>0. PICK s \in Sessions, locked \in SUBSET Codes :
        s = request[r].session /\ locked = request[r].locked
  BY ClosingRows DEF Request
<1>1. /\ request[r] \in Request /\ s \in Sessions
      /\ session[s].status # NoRow /\ session[s].activated
      /\ \A c \in locked : c \in Codes /\ StatusOf(s, c) = "BLUE"
      /\ request' = [request EXCEPT ![r] = Idle]
      /\ session' = [session EXCEPT ![s].status = "CLOSED", ![s].closed = TRUE]
  BY <1>0, ClosingRows
<1>2. PICK rows \in [Codes -> LocationRow] : ClosedRows(r, rows)
  BY ClosingRows
<1>3. /\ location' = [location EXCEPT ![s] = rows]
      /\ \A c \in Codes :
           \/ rows[c] = location[s][c] /\ c \notin locked
           \/ /\ c \in locked
              /\ rows[c].status \in {"GREEN", "RED"} /\ rows[c].confirmed
              /\ rows[c].status = "GREEN" => rows[c].found
              /\ location[s][c].found => rows[c].found
           \/ /\ c \notin locked
              /\ StatusOf(s, c) = NoRow
              /\ rows[c].status = "PURPLE" /\ rows[c].found
  BY <1>0, <1>2 DEF ClosedRows, ClosedRow
<1>4. \A q \in Requests \ {r} :
        request[q].session = s => locked \intersect request[q].locked = {}
  BY <1>0 DEF IInv, LocksExclusive
<1>5. SearchTypeOK'
  <2>1. session' \in [Sessions -> SessionRow]
    BY <1>1, ZenonT(40) DEF IInv, SearchTypeOK, TypeOK, SessionRow, SessionStatuses
  <2>2. location' \in [Sessions -> [Codes -> LocationRow]]
    BY <1>2, <1>3 DEF IInv, SearchTypeOK, TypeOK
  <2>3. request' \in [Requests -> Request]
    BY <1>1, IdleSound DEF IInv, SearchTypeOK, TypeOK
  <2> QED
    BY <2>1, <2>2, <2>3 DEF SearchTypeOK, TypeOK
<1>6. ASSUME NEW c \in Codes
      PROVE  Kept(s, c) /\ RowOK(s, c)'
  <2>1. location'[s][c] = rows[c] /\ RowOK(s, c)
    BY <1>1, <1>3 DEF IInv, SearchTypeOK, TypeOK, RowsOK
  <2>2. c \in locked => StatusOf(s, c) = "BLUE"
    BY <1>1
  <2>3. session'[s].activated /\ session'[s].status = "CLOSED"
    BY <1>1 DEF IInv, SearchTypeOK, TypeOK, SessionRow
  <2> QED
    BY <1>1, <1>3, <2>1, <2>2, <2>3 DEF Kept, Planned, StatusOf, NoRow, RowOK
<1>7. ASSUME NEW t \in Sessions, t # s
      PROVE  session'[t] = session[t] /\ location'[t] = location[t]
  BY <1>1, <1>3, <1>7 DEF IInv, SearchTypeOK, TypeOK
<1>8. /\ session'[s].status = "CLOSED" /\ session'[s].activated
      /\ session'[s].objectsToHide = session[s].objectsToHide
  BY <1>1 DEF IInv, SearchTypeOK, TypeOK, SessionRow
<1>9. Monotone
  <2> SUFFICES ASSUME NEW t \in Sessions, session[t].status # NoRow
      PROVE /\ session'[t].status # NoRow
            /\ session[t].activated => session'[t].activated
            /\ session'[t].objectsToHide = session[t].objectsToHide
            /\ \A c \in Codes : Kept(t, c)
    BY DEF Monotone
  <2>1. CASE t = s
    BY <1>6, <1>8, <2>1 DEF NoRow
  <2>2. CASE t # s
    BY <1>7, <2>2 DEF Kept, Planned, StatusOf
  <2> QED
    BY <2>1, <2>2
<1>10. RowsOK'
  <2> SUFFICES ASSUME NEW t \in Sessions
      PROVE SessionOK(t)' /\ \A c \in Codes : RowOK(t, c)'
    BY DEF RowsOK
  <2>1. CASE t = s
    BY <1>6, <1>8, <2>1 DEF SessionOK, NoRow
  <2>2. CASE t # s
    BY <1>7, <2>2 DEF IInv, RowsOK, RowOK, SessionOK, StatusOf
  <2> QED
    BY <2>1, <2>2
<1>11. CountMatchesPlan'
  BY <1>1, <1>5, <1>7, <1>9, CountKept
<1>12. ASSUME NEW q \in Requests \ {r}, NEW c \in request[q].locked
       PROVE  StatusOf(request[q].session, c)' = StatusOf(request[q].session, c)
  <2>1. /\ request'[q] = request[q] /\ c \in Codes
        /\ request[q].session \in Sessions
        /\ StatusOf(request[q].session, c) = "BLUE"
    BY <1>1 DEF IInv, SearchTypeOK, TypeOK, Request, Sound, Holding, OnSession
  <2>2. CASE request[q].session = s
    <3>1. c \notin locked
      BY <1>4, <2>2
    <3>2. rows[c] = location[s][c]
      BY <1>3, <2>1, <2>2, <3>1 DEF NoRow
    <3> QED
      BY <1>1, <1>3, <2>1, <2>2, <3>2 DEF StatusOf, IInv, SearchTypeOK, TypeOK
  <2>3. CASE request[q].session # s
    BY <1>7, <2>1, <2>3 DEF StatusOf
  <2> QED
    BY <2>2, <2>3
<1>13. (\A q \in Requests : Sound(request[q])') /\ LocksExclusive'
  BY <1>1, <1>9, <1>12, CommitKeepsRequests
<1> QED
  BY <1>5, <1>9, <1>10, <1>11, <1>13

\* The commit of close keeps the invariant.
LEMMA CloseKeeps ==
  ASSUME IInv, UNCHANGED trainings, NEW r \in Requests, CloseCommit(r)
  PROVE  IInv' /\ Monotone
<1>1. trainings' \in [Sessions -> Seq(Training)]
  BY DEF IInv, SearchTypeOK
<1>2. /\ SearchTypeOK' /\ RowsOK' /\ CountMatchesPlan' /\ Monotone
      /\ (\A q \in Requests : Sound(request[q])') /\ LocksExclusive'
  BY <1>1, ClosingKeepsTables
<1>3. ReportBacked'
  BY <1>2, SameTrainings
<1> QED
  BY <1>2, <1>3 DEF IInv

\* The report of an accepted search is backed by the rows its commit writes,
\* and its unexpected finds had no row before, so no earlier report has them.
LEMMA SearchKeeps ==
  ASSUME IInv, NEW r \in Requests, SearchCommit(r)
  PROVE  IInv' /\ Monotone
<1>0. PICK s \in Sessions, q \in Request : s = request[r].session /\ q = request[r]
  BY ClosingRows
<1>1. PICK new \in Training :
        new = [found |-> q.found, missing |-> q.codes \ q.found, extra |-> q.extra]
  BY DEF Training, Request
<1>2. /\ trainings' = [trainings EXCEPT ![s] = Append(trainings[s], new)]
      /\ trainings[s] \in Seq(Training)
  BY <1>0, <1>1 DEF SearchCommit, IInv, SearchTypeOK
<1>3. trainings' \in [Sessions -> Seq(Training)]
  BY <1>1, <1>2 DEF IInv, SearchTypeOK
<1>4. /\ SearchTypeOK' /\ RowsOK' /\ CountMatchesPlan' /\ Monotone
      /\ (\A p \in Requests : Sound(request[p])') /\ LocksExclusive'
  BY <1>3, ClosingKeepsTables
<1>5. PICK rows \in [Codes -> LocationRow] : ClosedRows(r, rows)
  BY ClosingRows
<1>6. location'[s] = rows
  BY <1>0, <1>5 DEF ClosedRows, IInv, SearchTypeOK, TypeOK
<1>7. /\ new.extra \subseteq Codes
      /\ \A c \in new.extra : StatusOf(s, c) = NoRow
      /\ \A c \in new.extra : rows[c].status = "PURPLE"
      /\ \A c \in new.found : rows[c].found
  BY <1>0, <1>1, <1>5 DEF ClosedRows, SearchCommit, NoRowYet, Request
<1>8. \A c \in q.codes : c \in Codes /\ Planned(s, c)
  BY <1>0 DEF IInv, Sound, SearchCommit, Finish, Request
<1>9. new.found \subseteq q.codes /\ new.missing \subseteq q.codes
  BY <1>0, <1>1 DEF IInv, Sound, SearchCommit, Finish
<1>10. /\ (new.extra \subseteq CodesIn(s, {"PURPLE"}))'
       /\ (new.found \union new.missing \subseteq Designated(s))'
       /\ (\A c \in new.found : location[s][c].found)'
  <2>1. session[s].status # NoRow
    BY <1>0, ClosingRows
  <2>2. \A c \in q.codes : Planned(s, c)'
    BY <1>4, <1>8, <2>1 DEF Monotone, Kept
  <2>3. \A c \in q.codes : c \in Designated(s)'
    BY <1>4, <1>8, <2>2 DEF Planned, Designated, CodesIn, StatusOf, SearchTypeOK,
       TypeOK, LocationRow
  <2>4. (new.extra \subseteq CodesIn(s, {"PURPLE"}))'
    BY <1>6, <1>7 DEF CodesIn, StatusOf
  <2> QED
    BY <1>6, <1>7, <1>9, <2>3, <2>4
<1>11. ReportBacked'
  <2> DEFINE Backed(t, u) ==
        /\ u.extra \subseteq CodesIn(t, {"PURPLE"})
        /\ u.found \union u.missing \subseteq Designated(t)
        /\ \A c \in u.found : location[t][c].found
  <2>1. ASSUME NEW t \in Sessions, NEW i \in 1..Len(trainings[t])
        PROVE  Backed(t, trainings[t][i]) /\ Backed(t, trainings[t][i])'
               /\ trainings[t][i] \in Training
    <3>1. trainings[t][i] \in Training /\ Backed(t, trainings[t][i])
      BY DEF IInv, ReportBacked, SearchTypeOK
    <3>2. PICK u \in Training : u = trainings[t][i]
      BY <3>1
    <3>3. (u.extra \subseteq CodesIn(t, {"PURPLE"}))'
          /\ (u.found \union u.missing \subseteq Designated(t))'
          /\ (\A c \in u.found : location[t][c].found)'
      BY <1>4, <3>1, <3>2, CommitKeepsReports
    <3>4. trainings'[t][i] = u
      BY <1>1, <1>2, <3>2 DEF IInv, SearchTypeOK
    <3> QED
      BY <3>1, <3>3, <3>4
  <2>2. ASSUME NEW t \in Sessions, t # s
        PROVE  trainings'[t] = trainings[t]
    BY <1>2, <2>2 DEF IInv, SearchTypeOK
  <2>3. /\ Len(trainings'[s]) = Len(trainings[s]) + 1
        /\ trainings'[s][Len(trainings[s]) + 1] = new
        /\ \A i \in 1..Len(trainings[s]) : trainings'[s][i] = trainings[s][i]
        /\ Len(trainings[s]) \in Nat
    BY <1>1, <1>2 DEF IInv, SearchTypeOK
  <2>4. \A i \in 1..Len(trainings[s]) :
          trainings[s][i].extra \intersect new.extra = {}
    BY <1>7, <2>1 DEF CodesIn, NoRow
  <2>5. ASSUME NEW t \in Sessions, NEW i \in 1..Len(trainings'[t])
        PROVE  Backed(t, trainings[t][i])'
    <3>1. CASE t = s /\ i = Len(trainings[s]) + 1
      BY <1>10, <2>3, <3>1
    <3>2. CASE t = s /\ i # Len(trainings[s]) + 1
      BY <2>1, <2>3, <3>2, SMTT(30)
    <3>3. CASE t # s
      BY <2>1, <2>2, <3>3
    <3> QED
      BY <3>1, <3>2, <3>3
  <2>6. ASSUME NEW t \in Sessions, NEW i \in 1..Len(trainings'[t]),
               NEW j \in 1..Len(trainings'[t]), j # i
        PROVE  trainings'[t][i].extra \intersect trainings'[t][j].extra = {}
    <3>1. CASE t # s
      BY <2>2, <2>6, <3>1 DEF IInv, ReportBacked
    <3>2. CASE t = s /\ i # Len(trainings[s]) + 1 /\ j # Len(trainings[s]) + 1
      <4>1. i \in 1..Len(trainings[s]) /\ j \in 1..Len(trainings[s])
        BY <2>3, <3>2
      <4>2. trainings[s][i].extra \intersect trainings[s][j].extra = {}
        BY <2>6, <4>1 DEF IInv, ReportBacked
      <4> QED
        BY <2>3, <3>2, <4>1, <4>2
    <3>3. CASE t = s /\ i = Len(trainings[s]) + 1
      <4>1. j \in 1..Len(trainings[s]) /\ trainings'[s][i] = new
        BY <2>3, <2>6, <3>3
      <4>2. trainings'[s][j] = trainings[s][j]
        BY <2>3, <4>1
      <4> QED
        BY <2>4, <3>3, <4>1, <4>2
    <3>4. CASE t = s /\ j = Len(trainings[s]) + 1
      <4>1. i \in 1..Len(trainings[s]) /\ trainings'[s][j] = new
        BY <2>3, <2>6, <3>4
      <4>2. trainings'[s][i] = trainings[s][i]
        BY <2>3, <4>1
      <4> QED
        BY <2>4, <3>4, <4>1, <4>2
    <3> QED
      BY <3>1, <3>2, <3>3, <3>4
  <2> QED
    BY <2>5, <2>6 DEF ReportBacked
<1> QED
  BY <1>4, <1>11 DEF IInv

(***************************************************************************)
(* The theorems.                                                           *)
(***************************************************************************)

\* Empty tables and no request in flight satisfy the invariant.
LEMMA InitIInv == SearchInit => IInv
<1> SUFFICES ASSUME SearchInit PROVE IInv
  OBVIOUS
<1> USE DEF SearchInit, Init
<1>1. SearchTypeOK
  BY IdleSound DEF SearchTypeOK, TypeOK, NoSession, NoLocation, SessionRow, LocationRow
<1>2. RowsOK
  BY DEF RowsOK, RowOK, SessionOK, StatusOf, NoSession, NoLocation, NoRow
<1>3. CountMatchesPlan
  <2>1. \A s \in Sessions : Designated(s) = {}
    BY DEF Designated, CodesIn, StatusOf, NoLocation, NoRow, LocationStatuses
  <2> QED
    BY <2>1, FS_EmptySet DEF CountMatchesPlan, NoSession
<1>4. (\A r \in Requests : Sound(request[r])) /\ LocksExclusive
  BY IdleSound DEF LocksExclusive
<1>5. ReportBacked
  BY DEF ReportBacked
<1> QED
  BY <1>1, <1>2, <1>3, <1>4, <1>5 DEF IInv

\* Every step of every request keeps the invariant.
LEMMA StepIInv == IInv /\ [SearchNext]_searchVars => IInv'
<1> SUFFICES ASSUME IInv, [SearchNext]_searchVars PROVE IInv'
  OBVIOUS
<1>1. CASE UNCHANGED searchVars
  <2>1. (SearchTypeOK /\ RowsOK /\ CountMatchesPlan /\ ReportBacked)'
    BY <1>1 DEF searchVars, IInv, SearchTypeOK, TypeOK, RowsOK, RowOK, SessionOK,
       StatusOf, CountMatchesPlan, Designated, CodesIn, ReportBacked
  <2>2. ASSUME NEW r \in Requests PROVE Sound(request[r])'
    <3>1. Sound(request[r])
      BY DEF IInv
    <3> QED
      BY <1>1, <3>1 DEF searchVars, Sound, OnSession, OnLocation, Holding, Planned, StatusOf
  <2>3. LocksExclusive'
    BY <1>1 DEF searchVars, IInv, LocksExclusive
  <2> QED
    BY <2>1, <2>2, <2>3 DEF IInv
<1>2. ASSUME NEW r \in Requests, UNCHANGED trainings,
             \/ CreateSteps(r) \/ ConfirmSteps(r) \/ ActivateSteps(r)
             \/ FoundSteps(r)  \/ CloseSteps(r)   \/ Abandon(r)
      PROVE  IInv'
  BY <1>2, BeginKeeps, ReadKeeps, MarkKeeps, CreateKeeps, ActivateKeeps, OneRowKeeps,
     CloseKeeps
  DEF CreateSteps, ConfirmSteps, ActivateSteps, FoundSteps, CloseSteps
<1>3. ASSUME NEW r \in Requests, SearchSteps(r)
      PROVE  IInv'
  <2>1. CASE BeginSearch(r)
    BY <2>1, BeginKeeps DEF BeginSearch
  <2>2. CASE SearchReadHidden(r)
    BY <2>2, ReadKeeps DEF SearchReadHidden
  <2>3. CASE SearchMark(r)
    BY <2>3, MarkKeeps DEF SearchMark
  <2>4. CASE SearchCommit(r)
    BY <2>4, SearchKeeps
  <2> QED
    BY <1>3, <2>1, <2>2, <2>3, <2>4 DEF SearchSteps
<1> QED
  BY <1>1, <1>2, <1>3 DEF SearchNext, Next

\* The invariant holds in every reachable state, whatever the interleaving.
THEOREM Invariance == SearchSpec => []IInv
BY InitIInv, StepIInv, PTL DEF SearchSpec

\* Every row and every request in flight stays well formed.
THEOREM TypeCorrect == SearchSpec => []SearchTypeOK
<1>1. IInv => SearchTypeOK
  BY DEF IInv
<1> QED
  BY <1>1, Invariance, PTL

\* No object enters the hunt unconfirmed, however late a confirmation or a
\* second activation commits.
THEOREM HuntIsConfirmed == SearchSpec => []HuntOnlyConfirmed
<1>1. IInv => HuntOnlyConfirmed
  <2> SUFFICES ASSUME IInv, NEW s \in Sessions, session[s].activated,
                      NEW c \in Designated(s)
      PROVE StatusOf(s, c) # "ORANGE" /\ location[s][c].confirmed
    BY DEF HuntOnlyConfirmed
  <2>1. c \in Codes /\ RowOK(s, c)
    BY DEF Designated, CodesIn, IInv, RowsOK
  <2> QED
    BY <2>1 DEF Designated, CodesIn, RowOK, LocationStatuses
<1> QED
  BY <1>1, Invariance, PTL

\* Every verdict on a location has its confirmation, its finder and an
\* activated session behind it.
THEOREM VerdictsAreEvidenced == SearchSpec => []VerdictHasEvidence
<1>1. IInv => VerdictHasEvidence
  BY DEF IInv, RowsOK, RowOK, VerdictHasEvidence
<1> QED
  BY <1>1, Invariance, PTL

\* The object count of a session is the size of its hiding plan.
THEOREM CountIsPlan == SearchSpec => []CountMatchesPlan
<1>1. IInv => CountMatchesPlan
  BY DEF IInv
<1> QED
  BY <1>1, Invariance, PTL

\* The audit's rows bear out every accepted training.
THEOREM ReportsAreBacked == SearchSpec => []ReportBacked
<1>1. IInv => ReportBacked
  BY DEF IInv
<1> QED
  BY <1>1, Invariance, PTL

\* A step leaves the tables alone or is the commit of one request.
LEMMA StepCases ==
  ASSUME SearchNext
  PROVE  \/ UNCHANGED <<session, location, trainings>>
         \/ \E r \in Requests :
              /\ UNCHANGED trainings
              /\ \/ CommitCreate(r) \/ ConfirmCommit(r) \/ ActivateCommit(r)
                 \/ FoundCommit(r)  \/ CloseCommit(r)
         \/ \E r \in Requests : SearchCommit(r)
<1>1. ASSUME NEW r \in Requests, UNCHANGED trainings,
             \/ CreateSteps(r) \/ ConfirmSteps(r) \/ ActivateSteps(r)
             \/ FoundSteps(r)  \/ CloseSteps(r)   \/ Abandon(r)
      PROVE  \/ UNCHANGED <<session, location, trainings>>
             \/ \/ CommitCreate(r) \/ ConfirmCommit(r) \/ ActivateCommit(r)
                \/ FoundCommit(r)  \/ CloseCommit(r)
  BY <1>1
  DEF CreateSteps, ConfirmSteps, ActivateSteps, FoundSteps, CloseSteps, BeginCreate,
      BeginConfirm, ConfirmReadLocation, BeginActivate, ActivateReadLocations,
      ActivateReadOthers, BeginFound, FoundReadLocation, BeginClose,
      CloseMarkMissing, Abandon, Begin, Advance
<1>2. ASSUME NEW r \in Requests, SearchSteps(r)
      PROVE  UNCHANGED <<session, location, trainings>> \/ SearchCommit(r)
  BY <1>2 DEF SearchSteps, BeginSearch, SearchReadHidden, SearchMark, Begin
<1> QED
  BY <1>1, <1>2 DEF SearchNext, Next

\* No step undoes a fact that Monotone keeps.
LEMMA StepMonotone == IInv /\ [SearchNext]_searchVars => Monotone
<1> SUFFICES ASSUME IInv, [SearchNext]_searchVars PROVE Monotone
  OBVIOUS
<1>1. CASE UNCHANGED <<session, location, trainings>>
  BY <1>1 DEF Monotone, Kept, Planned, StatusOf
<1>2. CASE ~UNCHANGED <<session, location, trainings>>
  <2>1. SearchNext
    BY <1>2 DEF searchVars
  <2>2. PICK r \in Requests :
          \/ /\ UNCHANGED trainings
             /\ \/ CommitCreate(r) \/ ConfirmCommit(r) \/ ActivateCommit(r)
                \/ FoundCommit(r)  \/ CloseCommit(r)
          \/ SearchCommit(r)
    BY <1>2, <2>1, StepCases
  <2> QED
    BY <2>2, CreateKeeps, OneRowKeeps, ActivateKeeps, CloseKeeps, SearchKeeps
<1> QED
  BY <1>1, <1>2

\* A step does not report missing what is found: the closing updates write RED
\* only on rows they hold, and those are BLUE.
LEMMA StepFound ==
  ASSUME IInv, [SearchNext]_searchVars, NEW s \in Sessions, NEW c \in Codes,
         StatusOf(s, c) = "GREEN"
  PROVE  StatusOf(s, c)' # "RED"
<1>1. CASE UNCHANGED location
  BY <1>1 DEF StatusOf
<1>2. ASSUME NEW r \in Requests, CommitCreate(r)
      PROVE  StatusOf(s, c)' # "RED"
  <2>1. location' = [location EXCEPT ![s] = location'[s]]
        \/ location'[s] = location[s]
    BY <1>2 DEF CommitCreate, IInv, SearchTypeOK, TypeOK
  <2>2. session[s].status # NoRow
    BY DEF IInv, RowsOK, RowOK, NoRow
  <2>3. location'[s] = location[s]
    BY <1>2, <2>2 DEF CommitCreate, IInv, SearchTypeOK, TypeOK
  <2> QED
    BY <2>3 DEF StatusOf
<1>3. ASSUME NEW r \in Requests, ConfirmCommit(r) \/ FoundCommit(r)
      PROVE  StatusOf(s, c)' # "RED"
  <2>1. PICK t \in Sessions, d \in Codes :
          t = request[r].session /\ d = request[r].code
    BY <1>3 DEF ConfirmCommit, FoundCommit, Finish, IInv, Sound, OnSession, OnLocation
  <2>2. PICK row \in LocationRow :
          /\ location' = [location EXCEPT ![t][d] = row]
          /\ row.status \in {"BLUE", "GREEN"}
    <3>1. location[t][d] \in LocationRow
      BY DEF IInv, SearchTypeOK, TypeOK
    <3>2. CASE ConfirmCommit(r)
      <4> DEFINE row == [location[t][d] EXCEPT !.status = "BLUE", !.confirmed = TRUE]
      <4>1. row \in LocationRow /\ row.status = "BLUE"
        BY <3>1 DEF LocationRow, LocationStatuses
      <4>2. location' = [location EXCEPT ![t][d] = row]
        BY <2>1, <3>1, <3>2 DEF ConfirmCommit, IInv, SearchTypeOK, TypeOK, LocationRow
      <4> QED
        BY <4>1, <4>2
    <3>3. CASE FoundCommit(r)
      <4> DEFINE row == [location[t][d] EXCEPT !.status = "GREEN", !.found = TRUE]
      <4>1. row \in LocationRow /\ row.status = "GREEN"
        BY <3>1 DEF LocationRow, LocationStatuses
      <4>2. location' = [location EXCEPT ![t][d] = row]
        BY <2>1, <3>1, <3>3 DEF FoundCommit, IInv, SearchTypeOK, TypeOK, LocationRow
      <4> QED
        BY <4>1, <4>2
    <3> QED
      BY <1>3, <3>2, <3>3
  <2>3. location'[s][c] \in {row, location[s][c]}
    BY <2>2 DEF IInv, SearchTypeOK, TypeOK
  <2> QED
    BY <2>2, <2>3 DEF StatusOf
<1>4. ASSUME NEW r \in Requests, CloseCommit(r) \/ SearchCommit(r)
      PROVE  StatusOf(s, c)' # "RED"
  <2>1. PICK t \in Sessions, rows \in [Codes -> LocationRow] :
          /\ t = request[r].session
          /\ ClosedRows(r, rows)
          /\ \A d \in request[r].locked : StatusOf(t, d) = "BLUE"
    BY <1>4, ClosingRows
  <2>2. location' = [location EXCEPT ![t] = rows]
    BY <2>1 DEF ClosedRows
  <2>3. CASE s # t
    BY <2>2, <2>3 DEF StatusOf, IInv, SearchTypeOK, TypeOK
  <2>4. CASE s = t
    <3>1. c \notin request[r].locked
      BY <2>1, <2>4
    <3>2. rows[c] = location[s][c]
      BY <2>1, <2>4, <3>1 DEF ClosedRows, ClosedRow, NoRow
    <3> QED
      BY <2>2, <2>4, <3>2 DEF StatusOf, IInv, SearchTypeOK, TypeOK
  <2> QED
    BY <2>3, <2>4
<1>5. CASE ~UNCHANGED location
  <2>1. SearchNext
    BY <1>5 DEF searchVars
  <2>2. PICK r \in Requests :
          \/ CommitCreate(r) \/ ConfirmCommit(r) \/ ActivateCommit(r)
          \/ FoundCommit(r)  \/ CloseCommit(r)   \/ SearchCommit(r)
    BY <1>5, <2>1, StepCases
  <2>3. ~ActivateCommit(r)
    BY <1>5 DEF ActivateCommit
  <2> QED
    BY <1>2, <1>3, <1>4, <2>2, <2>3
<1> QED
  BY <1>1, <1>5

\* Only the commit of a search accepts a training, and what it credits are
\* rows it holds, all BLUE until it commits.
LEMMA StepCredit ==
  ASSUME IInv, [SearchNext]_searchVars, NEW s \in Sessions,
         trainings'[s] # trainings[s],
         NEW c \in trainings'[s][Len(trainings'[s])].found
  PROVE  StatusOf(s, c) = "BLUE"
<1>1. PICK r \in Requests : SearchCommit(r)
  BY StepCases DEF searchVars
<1>2. PICK t \in Sessions, q \in Request :
        /\ t = request[r].session /\ q = request[r]
        /\ \A d \in q.locked : StatusOf(t, d) = "BLUE"
  <2>1. /\ request[r] \in Request /\ request[r].session \in Sessions
        /\ \A d \in request[r].locked : StatusOf(request[r].session, d) = "BLUE"
    BY <1>1, ClosingRows
  <2> QED
    BY <2>1
<1>3. q.found \subseteq q.locked
  BY <1>1, <1>2 DEF SearchCommit, Finish, IInv, Sound
<1>4. PICK new \in Training :
        /\ new.found = q.found
        /\ trainings' = [trainings EXCEPT ![t] = Append(trainings[t], new)]
  <2> DEFINE new == [found |-> q.found, missing |-> q.codes \ q.found,
                     extra |-> q.extra]
  <2>1. new \in Training /\ new.found = q.found
    BY DEF Training, Request
  <2>2. trainings' = [trainings EXCEPT ![t] = Append(trainings[t], new)]
    BY <1>1, <1>2 DEF SearchCommit
  <2> QED
    BY <2>1, <2>2
<1>5. s = t /\ trainings[t] \in Seq(Training)
  BY <1>4 DEF IInv, SearchTypeOK
<1>6. trainings'[t] = Append(trainings[t], new)
  BY <1>4 DEF IInv, SearchTypeOK
<1>7. trainings'[t][Len(trainings'[t])] = new
  BY <1>5, <1>6
<1> QED
  BY <1>2, <1>3, <1>4, <1>5, <1>7

\* The hiding plan of a session never changes once it is created.
THEOREM PlanIsFixed == SearchSpec => PlanFixed
<1>1. IInv /\ IInv' /\ [SearchNext]_searchVars =>
        \A s \in Sessions : session[s].status # NoRow =>
          /\ Designated(s)' = Designated(s)
          /\ CodesIn(s, {"PURPLE"}) \subseteq CodesIn(s, {"PURPLE"})'
  <2> SUFFICES ASSUME IInv, IInv', [SearchNext]_searchVars, NEW s \in Sessions,
                      session[s].status # NoRow
      PROVE /\ Designated(s)' = Designated(s)
            /\ CodesIn(s, {"PURPLE"}) \subseteq CodesIn(s, {"PURPLE"})'
    OBVIOUS
  <2>1. \A c \in Codes : Kept(s, c)
    BY StepMonotone DEF Monotone
  <2>2. Designated(s)' = Designated(s)
    BY <2>1, DesignatedKept DEF IInv, Kept
  <2> QED
    BY <2>1, <2>2 DEF Kept, CodesIn
<1> QED
  BY <1>1, Invariance, PTL DEF SearchSpec, PlanFixed

\* A find is never turned into a missing object, not by a close or a search
\* that read the location before it was found.
THEOREM FoundIsNotMissing == SearchSpec => FoundNeverReportedMissing
<1>1. IInv /\ [SearchNext]_searchVars =>
        \A s \in Sessions, c \in Codes :
          StatusOf(s, c) = "GREEN" => StatusOf(s, c)' # "RED"
  BY StepFound
<1> QED
  BY <1>1, Invariance, PTL DEF SearchSpec, FoundNeverReportedMissing

\* A training credits only what is hidden at the moment it is accepted.
THEOREM CreditIsForHidden == SearchSpec => CreditOnlyHidden
<1>1. IInv /\ [SearchNext]_searchVars =>
        \A s \in Sessions :
          trainings'[s] # trainings[s] =>
            \A c \in trainings'[s][Len(trainings'[s])].found :
              StatusOf(s, c) = "BLUE"
  BY StepCredit
<1> QED
  BY <1>1, Invariance, PTL DEF SearchSpec, CreditOnlyHidden

(***************************************************************************)
(* One request at a time.  When no request runs beside another, what it    *)
(* has read is still so when it commits: UpToDate says what that is, in    *)
(* terms of the guards, where Sound kept only what nobody could undo.      *)
(* From it follow the promises that interleaved requests break.            *)
(***************************************************************************)
\* There is one slot for a request (the instance of Records.cfg).
OneAtATime == \A q, r \in Requests : q = r

\* Which colours a phase has; every audit has designated locations.
InPhase(s) ==
  /\ session[s].status = NoRow => session[s].ship = None
  /\ session[s].status # NoRow => Designated(s) # {}
  /\ \A c \in Codes :
       /\ session[s].status = "SETUP" => StatusOf(s, c) \in {NoRow, "ORANGE", "BLUE"}
       /\ session[s].status = "ACTIVE" => StatusOf(s, c) \in {NoRow, "BLUE", "GREEN"}
       /\ session[s].status = "CLOSED" => StatusOf(s, c) \in {NoRow, "GREEN", "RED", "PURPLE"}

\* What a request that nobody interrupts has read is still so.
UpToDate(q) ==
  /\ q.pc = "create.checked" => q.ship \in Ships /\ q.codes # {} /\ MayCreate(q.ship)
  /\ q.pc \in {"confirm.session", "confirm.location", "activate.session", "activate.locations",
               "activate.others"} => session[q.session].status = "SETUP"
  /\ q.pc = "confirm.location" => StatusOf(q.session, q.code) \in Confirmable
  /\ q.pc \in {"activate.locations", "activate.others"} => AllConfirmed(q.session)
  /\ q.pc \in {"found.session", "found.location", "close.session", "close.marked",
               "search.session", "search.locations", "search.marked"} =>
       session[q.session].status = "ACTIVE"
  /\ q.pc = "found.location" => StatusOf(q.session, q.code) = "BLUE"
  /\ q.pc = "close.marked" => q.locked = Missing(q.session)
  /\ q.pc \in {"search.locations", "search.marked"} =>
       q.codes = Missing(q.session) /\ q.extra \cap Missing(q.session) = {}
  /\ q.pc = "search.marked" => q.locked = Missing(q.session)

\* The inductive invariant of requests served one at a time.
AloneIInv ==
  /\ IInv
  /\ OneOpenAuditPerShip
  /\ \A s \in Sessions : InPhase(s)
  /\ \A r \in Requests : UpToDate(request[r])

\* Empty tables have no audit in any phase, and no request has read anything.
LEMMA AloneInitially == SearchInit => AloneIInv
<1> SUFFICES ASSUME SearchInit PROVE AloneIInv
  OBVIOUS
<1>1. \A s \in Sessions : session[s] = NoSession
  BY DEF SearchInit, Init
<1>2. OneOpenAuditPerShip /\ \A s \in Sessions : InPhase(s)
  BY <1>1 DEF OneOpenAuditPerShip, OpenStatuses, InPhase, NoSession, NoRow
<1>3. \A r \in Requests : request[r].pc = "idle"
  BY DEF SearchInit, Init, Idle
<1>4. \A r \in Requests : UpToDate(request[r])
  BY <1>3 DEF UpToDate
<1> QED
  BY <1>2, <1>4, InitIInv DEF AloneIInv

\* A step that changes only what the request knows.
LEMMA AloneLearns ==
  ASSUME OneAtATime, AloneIInv, IInv', NEW r \in Requests, NEW new, UpToDate(new),
         request' = [request EXCEPT ![r] = new], UNCHANGED <<session, location>>
  PROVE  AloneIInv'
<1>1. \A q \in Requests : request'[q] = new
  BY DEF OneAtATime, AloneIInv, IInv, SearchTypeOK, TypeOK
<1>2. OneOpenAuditPerShip' /\ (\A s \in Sessions : InPhase(s))'
  BY DEF AloneIInv, OneOpenAuditPerShip, InPhase, Designated, CodesIn, StatusOf
<1>3. UpToDate(new)'
  BY DEF UpToDate, MayCreate, OpenSessionFor, StatusOf, AllConfirmed, Rows, Missing, CodesIn
<1> QED
  BY <1>1, <1>2, <1>3 DEF AloneIInv

\* What the first check of a handler has read, or a request that is given up, is up to date.
LEMMA AloneBegins ==
  ASSUME NEW r \in Requests, AloneIInv,
         \/ BeginCreate(r) \/ BeginConfirm(r) \/ BeginActivate(r)
         \/ BeginFound(r) \/ BeginClose(r) \/ BeginSearch(r) \/ Abandon(r)
  PROVE  /\ \E new : UpToDate(new) /\ request' = [request EXCEPT ![r] = new]
         /\ UNCHANGED <<session, location>>
<1> USE DEF Begin, Idle, UpToDate
<1>1. CASE BeginCreate(r)
  <2>1. PICK ship \in Ships, chosen \in (SUBSET Codes) \ {{}} :
          /\ MayCreate(ship)
          /\ Begin(r, [Idle EXCEPT !.pc = "create.checked", !.ship = ship, !.codes = chosen])
    BY <1>1 DEF BeginCreate
  <2> DEFINE new == [Idle EXCEPT !.pc = "create.checked", !.ship = ship, !.codes = chosen]
  <2>2. new.pc = "create.checked" /\ new.ship = ship /\ new.codes = chosen
    OBVIOUS
  <2>3. request' = [request EXCEPT ![r] = new] /\ UNCHANGED <<session, location>>
    BY <2>1
  <2> HIDE DEF new
  <2>4. UpToDate(new)
    BY <2>1, <2>2
  <2> QED
    BY <2>3, <2>4
<1>2. CASE BeginConfirm(r)
  BY <1>2 DEF BeginConfirm
<1>3. CASE BeginActivate(r)
  BY <1>3 DEF BeginActivate
<1>4. CASE BeginFound(r)
  BY <1>4 DEF BeginFound
<1>5. CASE BeginClose(r)
  BY <1>5 DEF BeginClose
<1>6. CASE BeginSearch(r)
  BY <1>6 DEF BeginSearch, Searchable
<1>7. CASE Abandon(r)
  BY <1>7 DEF Abandon
<1> QED
  BY <1>1, <1>2, <1>3, <1>4, <1>5, <1>6, <1>7

\* And so is what each later read, and each update that is not yet committed, has seen.
LEMMA AloneReads ==
  ASSUME NEW r \in Requests, AloneIInv,
         \/ ConfirmReadLocation(r) \/ ActivateReadLocations(r) \/ ActivateReadOthers(r)
         \/ FoundReadLocation(r) \/ CloseMarkMissing(r) \/ SearchReadHidden(r) \/ SearchMark(r)
  PROVE  /\ \E new : UpToDate(new) /\ request' = [request EXCEPT ![r] = new]
         /\ UNCHANGED <<session, location>>
<1>0. request[r] \in Request /\ UpToDate(request[r])
  BY DEF AloneIInv, IInv, SearchTypeOK, TypeOK
<1> USE DEF Advance, Request, UpToDate
<1>1. CASE ConfirmReadLocation(r)
  BY <1>0, <1>1 DEF ConfirmReadLocation
<1>2. CASE ActivateReadLocations(r)
  BY <1>0, <1>2 DEF ActivateReadLocations
<1>3. CASE ActivateReadOthers(r)
  BY <1>0, <1>3 DEF ActivateReadOthers
<1>4. CASE FoundReadLocation(r)
  BY <1>0, <1>4 DEF FoundReadLocation, Findable
<1>5. CASE CloseMarkMissing(r)
  BY <1>0, <1>5 DEF CloseMarkMissing
<1>6. CASE SearchReadHidden(r)
  <2> HIDE DEF Advance, Request, UpToDate
  <2> DEFINE hidden == Missing(request[r].session)
  <2>1. PICK found, extra :
          /\ extra \subseteq Codes \ hidden
          /\ request[r].pc = "search.session"
          /\ UNCHANGED <<session, location>>
          /\ request' = [request EXCEPT ![r].pc = "search.locations",
                                       ![r].codes = hidden,
                                       ![r].found = found, ![r].extra = extra]
    BY <1>6 DEF SearchReadHidden
  <2>2. PICK codes : codes = hidden
    OBVIOUS
  <2> HIDE DEF hidden
  <2> DEFINE new == [request[r] EXCEPT !.pc = "search.locations", !.codes = codes,
                                       !.found = found, !.extra = extra]
  <2>3. request' = [request EXCEPT ![r] = new]
    BY <2>1, <2>2
  <2>4. /\ new.pc = "search.locations" /\ new.session = request[r].session
        /\ new.codes = codes /\ new.extra = extra
    BY <1>0 DEF Request
  <2> HIDE DEF new
  <2>5. UpToDate(new)
    BY <1>0, <2>1, <2>2, <2>4 DEF UpToDate, hidden
  <2> QED
    BY <2>1, <2>3, <2>5
<1>7. CASE SearchMark(r)
  <2> HIDE DEF Advance, Request, UpToDate
  <2>1. Missing(request[r].session) \union request[r].found = Missing(request[r].session)
    BY <1>7 DEF SearchMark, StillHidden
  <2>2. PICK locked : locked = Missing(request[r].session)
    OBVIOUS
  <2> DEFINE new == [request[r] EXCEPT !.pc = "search.marked", !.locked = locked]
  <2>3. /\ request' = [request EXCEPT ![r] = new] /\ UNCHANGED <<session, location>>
        /\ request[r].pc = "search.locations"
    BY <1>7, <2>1, <2>2 DEF SearchMark
  <2>4. /\ new.pc = "search.marked" /\ new.session = request[r].session /\ new.locked = locked
        /\ new.codes = request[r].codes /\ new.extra = request[r].extra
    BY <1>0 DEF Request
  <2> HIDE DEF new
  <2>5. UpToDate(new)
    BY <1>0, <2>2, <2>3, <2>4 DEF UpToDate
  <2> QED
    BY <2>3, <2>5
<1> QED
  BY <1>1, <1>2, <1>3, <1>4, <1>5, <1>6, <1>7

\* A commit of one audit: what becomes of the phases.
LEMMA OnePhase ==
  ASSUME SearchTypeOK, SearchTypeOK', NEW s \in Sessions,
         \A t \in Sessions \ {s} :
           session'[t] = session[t] /\ \A c \in Codes : StatusOf(t, c)' = StatusOf(t, c)
  PROVE  /\ [t \in Sessions |-> session'[t].status]
              = [[t \in Sessions |-> session[t].status] EXCEPT ![s] = session'[s].status]
         /\ [t \in Sessions |-> session'[t].ship]
              = [[t \in Sessions |-> session[t].ship] EXCEPT ![s] = session'[s].ship]
         /\ [t \in Sessions |-> [c \in Codes |-> StatusOf(t, c)']]
              = [[t \in Sessions |-> [c \in Codes |-> StatusOf(t, c)]] EXCEPT
                   ![s] = [c \in Codes |-> StatusOf(s, c)']]
         /\ (\A t \in Sessions : InPhase(t)) => \A t \in Sessions \ {s} : InPhase(t)'
<1>1. \A t \in Sessions \ {s} : InPhase(t) => InPhase(t)'
  BY DEF InPhase, Designated, CodesIn
<1> QED
  BY <1>1

\* The insert of an audit is Create: the check for an open audit still stands.
LEMMA CreateAlone ==
  ASSUME NEW r \in Requests, AloneIInv, IInv', CommitCreate(r)
  PROVE  /\ OneOpenAuditPerShip' /\ \A s \in Sessions : InPhase(s)'
         /\ Lifecycle!Next
<1>0. /\ SearchTypeOK /\ SearchTypeOK' /\ request[r] \in Request
      /\ request[r].ship \in Ships /\ request[r].codes # {} /\ request[r].codes \subseteq Codes
      /\ MayCreate(request[r].ship)
  BY DEF CommitCreate, Finish, AloneIInv, IInv, UpToDate, SearchTypeOK, TypeOK, Request
<1>1. PICK s \in Sessions :
        /\ session[s].status = NoRow
        /\ session' = [session EXCEPT ![s] = NewSession(r)]
        /\ location' = [location EXCEPT ![s] = NewLocations(r)]
  BY DEF CommitCreate
<1> PICK ship \in Ships, chosen \in (SUBSET Codes) \ {{}} :
      ship = request[r].ship /\ chosen = request[r].codes
  BY <1>0
<1>2. /\ session'[s].status = "SETUP" /\ session'[s].ship = ship
      /\ \A t \in Sessions \ {s} : session'[t] = session[t]
  BY <1>0, <1>1 DEF NewSession, NoSession, SearchTypeOK, TypeOK
<1>3. /\ \A c \in Codes : StatusOf(s, c)' = IF c \in chosen THEN "ORANGE" ELSE NoRow
      /\ \A t \in Sessions \ {s}, c \in Codes : StatusOf(t, c)' = StatusOf(t, c)
  BY <1>0, <1>1 DEF NewLocations, NoLocation, StatusOf, SearchTypeOK, TypeOK
<1>4. \A c \in Codes : StatusOf(s, c) = NoRow
  BY <1>1 DEF AloneIInv, IInv, RowsOK, RowOK
<1>5. \A t \in Sessions : session[t].ship = ship => session[t].status \notin OpenStatuses
  BY <1>0 DEF MayCreate, OpenSessionFor
<1>6. OneOpenAuditPerShip'
  BY <1>2, <1>5 DEF AloneIInv, OneOpenAuditPerShip
<1>7. InPhase(s)'
  <2>1. PICK c \in chosen : TRUE
    OBVIOUS
  <2>2. c \in Designated(s)'
    BY <1>3, <2>1 DEF Designated, CodesIn, LocationStatuses
  <2> QED
    BY <1>2, <1>3, <2>2 DEF InPhase, NoRow
<1>8. \A t \in Sessions : InPhase(t)'
  BY <1>0, <1>2, <1>3, <1>7, OnePhase DEF AloneIInv
<1>9. Lifecycle!Create(s)
  <2>1. /\ [t \in Sessions |-> session'[t].status]
              = [[t \in Sessions |-> session[t].status] EXCEPT ![s] = "SETUP"]
        /\ [t \in Sessions |-> session'[t].ship]
              = [[t \in Sessions |-> session[t].ship] EXCEPT ![s] = ship]
        /\ [t \in Sessions |-> [c \in Codes |-> StatusOf(t, c)']]
              = [[t \in Sessions |-> [c \in Codes |-> StatusOf(t, c)]] EXCEPT
                   ![s] = [c \in Codes |-> StatusOf(s, c)']]
    <3>1. \A t \in Sessions \ {s} :
            session'[t] = session[t] /\ \A c \in Codes : StatusOf(t, c)' = StatusOf(t, c)
      BY <1>2, <1>3
    <3> QED
      BY <1>0, <1>2, <3>1, OnePhase
  <2>2. [c \in Codes |-> StatusOf(s, c)'] = Lifecycle!Paint(s, chosen, "ORANGE")
    BY <1>3, <1>4 DEF Lifecycle!Paint
  <2>3. Lifecycle!OpenFor(ship) = {}
    BY <1>5 DEF Lifecycle!OpenFor, OpenStatuses
  <2>4. [t \in Sessions |-> session[t].status][s] = "NONE"
    BY <1>1 DEF NoRow
  <2> QED
    BY <2>1, <2>2, <2>3, <2>4, ZenonT(40) DEF Lifecycle!Create
<1> QED
  BY <1>6, <1>8, <1>9 DEF Lifecycle!Next

\* A commit that undoes nothing leaves every audit with its designated locations.
LEMMA StillDesignated ==
  ASSUME AloneIInv, SearchTypeOK', Monotone, NEW s \in Sessions, session[s].status # NoRow
  PROVE  Designated(s)' # {}
BY DesignatedKept DEF AloneIInv, IInv, InPhase, Monotone, Kept

\* A confirmation is Confirm or, of a location that is BLUE, nothing; a find is Find.
LEMMA OneRowAlone ==
  ASSUME NEW r \in Requests, AloneIInv, IInv', UNCHANGED trainings,
         ConfirmCommit(r) \/ FoundCommit(r)
  PROVE  /\ OneOpenAuditPerShip' /\ \A s \in Sessions : InPhase(s)'
         /\ Lifecycle!Next \/ UNCHANGED Lifecycle!vars
<1>0. /\ SearchTypeOK /\ SearchTypeOK' /\ request[r] \in Request
      /\ request[r].session \in Sessions /\ request[r].code \in Codes
  BY DEF ConfirmCommit, FoundCommit, Finish, AloneIInv, IInv, Sound, OnSession, OnLocation,
         SearchTypeOK, TypeOK
<1> PICK s \in Sessions, c \in Codes : s = request[r].session /\ c = request[r].code
  BY <1>0
<1>1. /\ ConfirmCommit(r) =>
           session[s].status = "SETUP" /\ StatusOf(s, c) \in {"ORANGE", "BLUE"}
      /\ FoundCommit(r) => session[s].status = "ACTIVE" /\ StatusOf(s, c) = "BLUE"
  BY DEF ConfirmCommit, FoundCommit, Finish, AloneIInv, UpToDate, Confirmable
<1>2. PICK col \in {"BLUE", "GREEN"} :
        /\ ConfirmCommit(r) => col = "BLUE"
        /\ FoundCommit(r) => col = "GREEN"
        /\ StatusOf(s, c)' = col
        /\ \A t \in Sessions, d \in Codes : t # s \/ d # c => StatusOf(t, d)' = StatusOf(t, d)
  <2>0. location[s][c] \in LocationRow
    BY <1>0 DEF SearchTypeOK, TypeOK
  <2>3. location \in [Sessions -> [Codes -> LocationRow]]
    BY <1>0 DEF SearchTypeOK, TypeOK
  <2>1. CASE ConfirmCommit(r)
    <3> DEFINE row == [location[s][c] EXCEPT !.status = "BLUE", !.confirmed = TRUE]
    <3>0. row.status = "BLUE" /\ location' = [location EXCEPT ![s][c] = row]
      BY <2>0, <2>1, <2>3 DEF ConfirmCommit, LocationRow
    <3> HIDE DEF row
    <3>1. /\ StatusOf(s, c)' = "BLUE"
          /\ \A t \in Sessions, d \in Codes : t # s \/ d # c => StatusOf(t, d)' = StatusOf(t, d)
      BY <1>0, <3>0 DEF StatusOf, SearchTypeOK, TypeOK
    <3>2. ~FoundCommit(r)
      BY <2>1 DEF ConfirmCommit, FoundCommit, Finish
    <3> QED
      BY <3>1, <3>2
  <2>2. CASE FoundCommit(r)
    <3> DEFINE row == [location[s][c] EXCEPT !.status = "GREEN", !.found = TRUE]
    <3>0. row.status = "GREEN" /\ location' = [location EXCEPT ![s][c] = row]
      BY <2>0, <2>2, <2>3 DEF FoundCommit, LocationRow
    <3> HIDE DEF row
    <3>1. /\ StatusOf(s, c)' = "GREEN"
          /\ \A t \in Sessions, d \in Codes : t # s \/ d # c => StatusOf(t, d)' = StatusOf(t, d)
      BY <1>0, <3>0 DEF StatusOf, SearchTypeOK, TypeOK
    <3>2. ~ConfirmCommit(r)
      BY <2>2 DEF ConfirmCommit, FoundCommit, Finish
    <3> QED
      BY <3>1, <3>2
  <2> QED
    BY <2>1, <2>2
<1>3. UNCHANGED session /\ Monotone
  BY OneRowKeeps DEF ConfirmCommit, FoundCommit, AloneIInv
<1>4. OneOpenAuditPerShip'
  BY <1>3 DEF AloneIInv, OneOpenAuditPerShip
<1>5. \A t \in Sessions : InPhase(t)'
  <2> SUFFICES ASSUME NEW t \in Sessions PROVE InPhase(t)'
    OBVIOUS
  <2>1. InPhase(t) /\ session'[t] = session[t]
    BY <1>3 DEF AloneIInv
  <2>2. session[t].status # NoRow => Designated(t)' # {}
    BY <1>0, <1>3, StillDesignated
  <2>3. ASSUME NEW d \in Codes
        PROVE  /\ session[t].status = "SETUP" => StatusOf(t, d)' \in {NoRow, "ORANGE", "BLUE"}
               /\ session[t].status = "ACTIVE" => StatusOf(t, d)' \in {NoRow, "BLUE", "GREEN"}
               /\ session[t].status = "CLOSED" =>
                    StatusOf(t, d)' \in {NoRow, "GREEN", "RED", "PURPLE"}
    BY <1>1, <1>2, <2>1 DEF InPhase
  <2> QED
    BY <2>1, <2>2, <2>3 DEF InPhase
<1>6. [t \in Sessions |-> [d \in Codes |-> StatusOf(t, d)']]
        = [[t \in Sessions |-> [d \in Codes |-> StatusOf(t, d)]] EXCEPT ![s][c] = col]
  <2>1. [d \in Codes |-> StatusOf(s, d)'] = [[d \in Codes |-> StatusOf(s, d)] EXCEPT ![c] = col]
    BY <1>2
  <2>2. [t \in Sessions |-> [d \in Codes |-> StatusOf(t, d)']]
          = [[t \in Sessions |-> [d \in Codes |-> StatusOf(t, d)]] EXCEPT
               ![s] = [d \in Codes |-> StatusOf(s, d)']]
    <3>1. \A t \in Sessions \ {s} :
            session'[t] = session[t] /\ \A d \in Codes : StatusOf(t, d)' = StatusOf(t, d)
      BY <1>2, <1>3
    <3> QED
      BY <1>0, <3>1, OnePhase
  <2> QED
    BY <2>1, <2>2
<1>7. CASE StatusOf(s, c) = col
  <2>1. \A t \in Sessions, d \in Codes : StatusOf(t, d)' = StatusOf(t, d)
    BY <1>2, <1>7
  <2> QED
    BY <1>3, <1>4, <1>5, <2>1 DEF Lifecycle!vars
<1>8. CASE ConfirmCommit(r) /\ StatusOf(s, c) = "ORANGE"
  <2>1. c \in Lifecycle!Coloured(s, "ORANGE")
    BY <1>8 DEF Lifecycle!Coloured
  <2>2. Lifecycle!Confirm(s)
    BY <1>1, <1>2, <1>3, <1>6, <1>8, <2>1 DEF Lifecycle!Confirm
  <2> QED
    BY <1>4, <1>5, <2>2 DEF Lifecycle!Next
<1>9. CASE FoundCommit(r)
  <2>1. c \in Lifecycle!Coloured(s, "BLUE")
    BY <1>1, <1>9 DEF Lifecycle!Coloured
  <2>2. Lifecycle!Find(s)
    BY <1>1, <1>2, <1>3, <1>6, <1>9, <2>1 DEF Lifecycle!Find
  <2> QED
    BY <1>4, <1>5, <2>2 DEF Lifecycle!Next
<1> QED
  BY <1>1, <1>2, <1>7, <1>8, <1>9

\* An activation finds every location confirmed.
LEMMA ActivateAlone ==
  ASSUME NEW r \in Requests, AloneIInv, IInv', ActivateCommit(r), UNCHANGED trainings
  PROVE  /\ OneOpenAuditPerShip' /\ \A s \in Sessions : InPhase(s)'
         /\ Lifecycle!Next
<1>0. /\ SearchTypeOK /\ SearchTypeOK' /\ request[r].session \in Sessions /\ Monotone
  BY ActivateKeeps DEF ActivateCommit, Finish, AloneIInv, IInv, Sound, OnSession
<1> PICK s \in Sessions : s = request[r].session
  BY <1>0
<1>1. session[s].status = "SETUP" /\ AllConfirmed(s)
  BY DEF ActivateCommit, Finish, AloneIInv, UpToDate
<1>2. \A c \in Codes : StatusOf(s, c) \in {NoRow, "BLUE"}
  BY <1>1 DEF AllConfirmed, Rows, CodesIn
<1>3. /\ session'[s].status = "ACTIVE" /\ session'[s].ship = session[s].ship
      /\ \A t \in Sessions \ {s} : session'[t] = session[t]
  BY <1>0 DEF ActivateCommit, SearchTypeOK, TypeOK, SessionRow
<1>4. \A t \in Sessions, c \in Codes : StatusOf(t, c)' = StatusOf(t, c)
  BY DEF ActivateCommit, StatusOf
<1>5. OneOpenAuditPerShip'
  BY <1>1, <1>3 DEF AloneIInv, OneOpenAuditPerShip, OpenStatuses
<1>6. InPhase(s)'
  BY <1>0, <1>1, <1>2, <1>3, <1>4, StillDesignated DEF InPhase, NoRow
<1>7. \A t \in Sessions : InPhase(t)'
  BY <1>0, <1>3, <1>4, <1>6, OnePhase DEF AloneIInv
<1>8. Lifecycle!Activate(s)
  <2>1. /\ [t \in Sessions |-> session'[t].status]
              = [[t \in Sessions |-> session[t].status] EXCEPT ![s] = "ACTIVE"]
        /\ \A t \in Sessions : session'[t].ship = session[t].ship
    BY <1>3
  <2>2. Lifecycle!Coloured(s, "ORANGE") = {}
    BY <1>2 DEF Lifecycle!Coloured, NoRow
  <2> QED
    BY <1>1, <1>4, <2>1, <2>2 DEF Lifecycle!Activate
<1> QED
  BY <1>5, <1>7, <1>8 DEF Lifecycle!Next

\* The finds turn GREEN, those elsewhere PURPLE, and what is still hidden RED.
Closes(s, found, extra) ==
  /\ \A c \in extra : StatusOf(s, c) = NoRow
  /\ \A c \in Codes : StatusOf(s, c)' =
       IF c \in found THEN "GREEN"
       ELSE IF c \in extra THEN "PURPLE"
       ELSE IF StatusOf(s, c) = "BLUE" THEN "RED"
       ELSE StatusOf(s, c)

\* What the closing of an audit, by hand or by a search, makes of its locations.
LEMMA CloseAlone ==
  ASSUME NEW r \in Requests, AloneIInv, IInv', CloseCommit(r) \/ SearchCommit(r),
         NEW s \in Sessions, s = request[r].session
  PROVE  /\ session[s].status = "ACTIVE"
         /\ SearchCommit(r) => request[r].codes = Missing(s)
         /\ \E found \in SUBSET Missing(s), extra \in SUBSET Codes :
              /\ SearchCommit(r) => found = request[r].found
              /\ Closes(s, found, extra)
<1>0. /\ SearchTypeOK /\ request[r] \in Request
      /\ location[s] \in [Codes -> LocationRow]
  BY DEF AloneIInv, IInv, SearchTypeOK, TypeOK
<1>1. /\ session[s].status = "ACTIVE" /\ request[r].locked = Missing(s)
      /\ SearchCommit(r) => request[r].codes = Missing(s)
      /\ SearchCommit(r) => request[r].found \subseteq Missing(s)
  <2>1. UpToDate(request[r]) /\ Sound(request[r])
    BY DEF AloneIInv, IInv
  <2>2. request[r].pc = "close.marked" \/ request[r].pc = "search.marked"
    BY DEF CloseCommit, SearchCommit, Finish
  <2>3. SearchCommit(r) => request[r].pc = "search.marked"
    BY DEF SearchCommit, Finish
  <2> QED
    BY <2>1, <2>2, <2>3 DEF Sound, UpToDate
<1>2. \A c \in Codes : StatusOf(s, c) = "BLUE" <=> c \in Missing(s)
  BY DEF Missing, CodesIn
<1>3. CASE CloseCommit(r)
  <2>1. \A c \in Codes : StatusOf(s, c)' = IF StatusOf(s, c) = "BLUE" THEN "RED" ELSE StatusOf(s, c)
    BY <1>0, <1>1, <1>2, <1>3 DEF CloseCommit, Turned, StatusOf, SearchTypeOK, TypeOK, LocationRow
  <2>2. ~SearchCommit(r)
    BY <1>3 DEF CloseCommit, SearchCommit, Finish
  <2>3. Closes(s, {}, {})
    BY <2>1 DEF Closes
  <2> QED
    BY <1>1, <2>2, <2>3
<1>4. CASE SearchCommit(r)
  <2>1. PICK found \in SUBSET Missing(s), extra \in SUBSET Codes, locked \in SUBSET Codes :
          found = request[r].found /\ extra = request[r].extra /\ locked = request[r].locked
    BY <1>0, <1>1, <1>4 DEF Request
  <2>2. \A c \in extra : StatusOf(s, c) = NoRow
    BY <1>4, <2>1 DEF SearchCommit, NoRowYet
  <2>3. \A c \in Codes : location'[s][c] =
          IF c \in found THEN [location[s][c] EXCEPT !.status = "GREEN", !.found = TRUE]
          ELSE IF c \in extra THEN [NoLocation EXCEPT !.status = "PURPLE", !.found = TRUE]
          ELSE IF c \in locked THEN [location[s][c] EXCEPT !.status = "RED"]
          ELSE location[s][c]
    BY <1>0, <1>4, <2>1 DEF SearchCommit, Searched, Turned, SearchTypeOK, TypeOK
  <2>4. ASSUME NEW c \in Codes
        PROVE  StatusOf(s, c)' =
                 IF c \in found THEN "GREEN" ELSE IF c \in extra THEN "PURPLE"
                 ELSE IF StatusOf(s, c) = "BLUE" THEN "RED" ELSE StatusOf(s, c)
    <3>1. location[s][c] \in LocationRow
      BY <1>0
    <3>2. c \in locked <=> StatusOf(s, c) = "BLUE"
      BY <1>1, <1>2, <2>1
    <3>3. /\ [location[s][c] EXCEPT !.status = "GREEN", !.found = TRUE].status = "GREEN"
          /\ [location[s][c] EXCEPT !.status = "RED"].status = "RED"
      BY <3>1 DEF LocationRow
    <3>4. [NoLocation EXCEPT !.status = "PURPLE", !.found = TRUE].status = "PURPLE"
      BY DEF NoLocation
    <3> QED
      BY <2>3, <3>2, <3>3, <3>4 DEF StatusOf
  <2>5. Closes(s, found, extra)
    BY <2>2, <2>4 DEF Closes
  <2> QED
    BY <1>1, <2>1, <2>5
<1> QED
  BY <1>3, <1>4

\* Both ways of closing an audit are Close.
LEMMA CloseIsClose ==
  ASSUME NEW r \in Requests, AloneIInv, IInv', CloseCommit(r) \/ SearchCommit(r)
  PROVE  /\ OneOpenAuditPerShip' /\ \A s \in Sessions : InPhase(s)'
         /\ Lifecycle!Next
<1>0. /\ SearchTypeOK /\ SearchTypeOK' /\ request[r].session \in Sessions
      /\ session' = [session EXCEPT ![request[r].session].status = "CLOSED",
                                    ![request[r].session].closed = TRUE]
  BY ClosingRows DEF AloneIInv, IInv
<1> PICK s \in Sessions : s = request[r].session
  BY <1>0
<1>1. session[s].status = "ACTIVE"
  BY CloseAlone
<1>2. PICK found \in SUBSET Missing(s), extra \in SUBSET Codes : Closes(s, found, extra)
  BY CloseAlone
<1>3. /\ session'[s].status = "CLOSED" /\ session'[s].ship = session[s].ship
      /\ \A t \in Sessions \ {s} : session'[t] = session[t]
  BY <1>0 DEF SearchTypeOK, TypeOK, SessionRow
<1>4. \A t \in Sessions \ {s} : location'[t] = location[t]
  BY <1>0 DEF CloseCommit, SearchCommit, SearchTypeOK, TypeOK
<1>5. \A t \in Sessions \ {s}, c \in Codes : StatusOf(t, c)' = StatusOf(t, c)
  BY <1>4 DEF StatusOf
<1>6. OneOpenAuditPerShip'
  BY <1>3 DEF AloneIInv, OneOpenAuditPerShip, OpenStatuses
<1>7. InPhase(s)'
  <2>1. \A c \in Codes : StatusOf(s, c)' \in {NoRow, "GREEN", "RED", "PURPLE"}
    BY <1>1, <1>2 DEF Closes, AloneIInv, InPhase
  <2>2. PICK c \in Codes : StatusOf(s, c) \in LocationStatuses \ {"PURPLE"}
    BY <1>1 DEF AloneIInv, InPhase, Designated, CodesIn, NoRow
  <2>3. StatusOf(s, c) \in {"BLUE", "GREEN"}
    BY <1>1, <2>2 DEF AloneIInv, InPhase, LocationStatuses, NoRow
  <2>4. StatusOf(s, c)' \in {"GREEN", "RED"}
    BY <1>2, <2>3 DEF Closes, NoRow
  <2>5. c \in Designated(s)'
    BY <2>4 DEF Designated, CodesIn, LocationStatuses
  <2> QED
    BY <1>3, <2>1, <2>5 DEF InPhase, NoRow
<1>8. \A t \in Sessions : InPhase(t)'
  BY <1>0, <1>3, <1>5, <1>7, OnePhase DEF AloneIInv
<1>9. Lifecycle!Close(s)
  <2>1. /\ [t \in Sessions |-> session'[t].status]
              = [[t \in Sessions |-> session[t].status] EXCEPT ![s] = "CLOSED"]
        /\ [t \in Sessions |-> session'[t].ship] = [t \in Sessions |-> session[t].ship]
    BY <1>3
  <2>2. found \in SUBSET Lifecycle!Coloured(s, "BLUE")
    BY <1>2 DEF Lifecycle!Coloured, Missing, CodesIn
  <2>3. extra \in SUBSET Lifecycle!Coloured(s, "NONE")
    BY <1>2 DEF Closes, Lifecycle!Coloured, NoRow
  <2>4. [t \in Sessions |-> [c \in Codes |-> StatusOf(t, c)']]
          = [[t \in Sessions |-> [c \in Codes |-> StatusOf(t, c)]] EXCEPT
               ![s] = [c \in Codes |-> StatusOf(s, c)']]
    <3>1. \A t \in Sessions \ {s} :
            session'[t] = session[t] /\ \A d \in Codes : StatusOf(t, d)' = StatusOf(t, d)
      BY <1>3, <1>5
    <3> QED
      BY <1>0, <3>1, OnePhase
  <2>5. [c \in Codes |-> StatusOf(s, c)']
          = [c \in Codes |->
               IF c \in found THEN "GREEN"
               ELSE IF c \in extra THEN "PURPLE"
               ELSE IF [t \in Sessions |-> [d \in Codes |-> StatusOf(t, d)]][s][c] = "BLUE"
                 THEN "RED"
               ELSE [t \in Sessions |-> [d \in Codes |-> StatusOf(t, d)]][s][c]]
    BY <1>2 DEF Closes
  <2> QED
    <3> DEFINE was == [t \in Sessions |-> [d \in Codes |-> StatusOf(t, d)]]
               becomes(f, e) ==
                 [c \in Codes |-> IF c \in f THEN "GREEN"
                                  ELSE IF c \in e THEN "PURPLE"
                                  ELSE IF was[s][c] = "BLUE" THEN "RED"
                                  ELSE was[s][c]]
    <3>1. [t \in Sessions |-> [c \in Codes |-> StatusOf(t, c)']]
            = [was EXCEPT ![s] = becomes(found, extra)]
      BY <2>4, <2>5
    <3>2. \E f \in SUBSET Lifecycle!Coloured(s, "BLUE"),
             e \in SUBSET Lifecycle!Coloured(s, "NONE") :
            [t \in Sessions |-> [c \in Codes |-> StatusOf(t, c)']]
              = [was EXCEPT ![s] = becomes(f, e)]
      <4> HIDE DEF was, becomes
      <4> QED
        BY <2>2, <2>3, <3>1
    <3>3. [t \in Sessions |-> session[t].status][s] = "ACTIVE"
      BY <1>1
    <3> QED
      BY <2>1, <3>2, <3>3, ZenonT(40) DEF Lifecycle!Close
<1> QED
  BY <1>6, <1>8, <1>9 DEF Lifecycle!Next

\* A step of a request that is served alone keeps what it has read up to date and is a
\* step of the lifecycle, or none.
LEMMA StepAlone ==
  ASSUME OneAtATime, AloneIInv, [SearchNext]_searchVars
  PROVE  AloneIInv' /\ (Lifecycle!Next \/ UNCHANGED Lifecycle!vars)
<1>0. IInv'
  BY StepIInv DEF AloneIInv
<1>1. CASE UNCHANGED searchVars
  <2>1. (\A s \in Sessions : InPhase(s))' /\ OneOpenAuditPerShip'
    BY <1>1 DEF searchVars, AloneIInv, OneOpenAuditPerShip, InPhase, Designated, CodesIn, StatusOf
  <2>2. (\A r \in Requests : UpToDate(request[r]))'
    BY <1>1 DEF searchVars, AloneIInv, UpToDate, MayCreate, OpenSessionFor, StatusOf,
                AllConfirmed, Rows, Missing, CodesIn
  <2> QED
    BY <1>0, <1>1, <2>1, <2>2 DEF AloneIInv, searchVars, Lifecycle!vars, StatusOf
<1>2. ASSUME NEW r \in Requests, NEW new, UpToDate(new),
             request' = [request EXCEPT ![r] = new], UNCHANGED <<session, location>>
      PROVE  AloneIInv' /\ (Lifecycle!Next \/ UNCHANGED Lifecycle!vars)
  <2>1. AloneIInv'
    BY <1>0, <1>2, AloneLearns
  <2> QED
    BY <1>2, <2>1 DEF Lifecycle!vars, StatusOf
<1>3. ASSUME NEW r \in Requests, request' = [request EXCEPT ![r] = Idle],
             OneOpenAuditPerShip', \A s \in Sessions : InPhase(s)'
      PROVE  AloneIInv'
  <2>1. \A q \in Requests : request'[q].pc = "idle"
    BY <1>3 DEF OneAtATime, AloneIInv, IInv, SearchTypeOK, TypeOK, Idle
  <2>2. (\A q \in Requests : UpToDate(request[q]))'
    BY <2>1 DEF UpToDate
  <2> QED
    BY <1>0, <1>3, <2>2 DEF AloneIInv
<1>4. ASSUME NEW r \in Requests,
             \/ BeginCreate(r) \/ BeginConfirm(r) \/ BeginActivate(r) \/ BeginFound(r)
             \/ BeginClose(r) \/ BeginSearch(r) \/ Abandon(r)
             \/ ConfirmReadLocation(r) \/ ActivateReadLocations(r) \/ ActivateReadOthers(r)
             \/ FoundReadLocation(r) \/ CloseMarkMissing(r) \/ SearchReadHidden(r) \/ SearchMark(r)
      PROVE  AloneIInv' /\ (Lifecycle!Next \/ UNCHANGED Lifecycle!vars)
  <2>1. PICK new : /\ UpToDate(new) /\ request' = [request EXCEPT ![r] = new]
                   /\ UNCHANGED <<session, location>>
    BY <1>4, AloneBegins, AloneReads
  <2> QED
    BY <1>2, <2>1
<1>5. ASSUME NEW r \in Requests, UNCHANGED trainings,
             \/ CommitCreate(r) \/ ConfirmCommit(r) \/ ActivateCommit(r)
             \/ FoundCommit(r) \/ CloseCommit(r)
      PROVE  AloneIInv' /\ (Lifecycle!Next \/ UNCHANGED Lifecycle!vars)
  <2>1. request' = [request EXCEPT ![r] = Idle]
    BY <1>5 DEF CommitCreate, ConfirmCommit, ActivateCommit, FoundCommit, CloseCommit, Finish
  <2>2. /\ OneOpenAuditPerShip' /\ \A s \in Sessions : InPhase(s)'
        /\ Lifecycle!Next \/ UNCHANGED Lifecycle!vars
    BY <1>0, <1>5, CreateAlone, OneRowAlone, ActivateAlone, CloseIsClose
  <2> QED
    BY <1>3, <2>1, <2>2
<1>6. ASSUME NEW r \in Requests, SearchCommit(r)
      PROVE  AloneIInv' /\ (Lifecycle!Next \/ UNCHANGED Lifecycle!vars)
  <2>1. request' = [request EXCEPT ![r] = Idle]
    BY <1>6 DEF SearchCommit, Finish
  <2>2. /\ OneOpenAuditPerShip' /\ \A s \in Sessions : InPhase(s)'
        /\ Lifecycle!Next
    BY <1>0, <1>6, CloseIsClose
  <2> QED
    BY <1>3, <2>1, <2>2
<1>7. CASE SearchNext
  <2>1. ASSUME NEW r \in Requests, UNCHANGED trainings,
               \/ CreateSteps(r) \/ ConfirmSteps(r) \/ ActivateSteps(r)
               \/ FoundSteps(r)  \/ CloseSteps(r)   \/ Abandon(r)
        PROVE  AloneIInv' /\ (Lifecycle!Next \/ UNCHANGED Lifecycle!vars)
    BY <1>4, <1>5, <2>1 DEF CreateSteps, ConfirmSteps, ActivateSteps, FoundSteps, CloseSteps
  <2>2. ASSUME NEW r \in Requests, SearchSteps(r)
        PROVE  AloneIInv' /\ (Lifecycle!Next \/ UNCHANGED Lifecycle!vars)
    BY <1>4, <1>6, <2>2 DEF SearchSteps
  <2> QED
    BY <1>7, <2>1, <2>2 DEF SearchNext, Next
<1> QED
  BY <1>1, <1>7

\* When requests are served one at a time, what each has read is up to date at its commit.
LEMMA AloneInvariance == ASSUME OneAtATime PROVE SearchSpec => []AloneIInv
<1>1. AloneIInv /\ [SearchNext]_searchVars => AloneIInv'
  BY StepAlone
<1> QED
  BY <1>1, AloneInitially, PTL DEF SearchSpec

\* Requests served one at a time implement the promised lifecycle: whatever the number of
\* audits, ships and locations, the steps of each handler together do what the operation
\* promises, and a request given up half way does nothing.
THEOREM SerialImplementsLifecycle ==
  ASSUME OneAtATime PROVE SearchSpec => ImplementsLifecycle
<1>1. SearchInit => Lifecycle!Init
  BY DEF SearchInit, Init, Lifecycle!Init, NoSession, NoLocation, NoRow, StatusOf
<1>2. AloneIInv /\ [SearchNext]_searchVars => [Lifecycle!Next]_Lifecycle!vars
  BY StepAlone
<1> QED
  BY <1>1, <1>2, AloneInvariance, PTL DEF SearchSpec, ImplementsLifecycle, Lifecycle!Spec

\* Requests served one at a time leave a ship with one open audit.
THEOREM SerialOneOpenAudit ==
  ASSUME OneAtATime PROVE SearchSpec => []OneOpenAuditPerShip
<1>1. AloneIInv => OneOpenAuditPerShip
  BY DEF AloneIInv
<1> QED
  BY <1>1, AloneInvariance, PTL

\* A step of the lifecycle changes no location that is GREEN or RED.
LEMMA StepFinalized ==
  ASSUME OneAtATime, AloneIInv, [SearchNext]_searchVars, NEW s \in Sessions, NEW c \in Codes,
         StatusOf(s, c) \in {"GREEN", "RED"}
  PROVE  StatusOf(s, c)' = StatusOf(s, c)
<1> DEFINE was == [t \in Sessions |-> [d \in Codes |-> StatusOf(t, d)]]
           now == [t \in Sessions |-> [d \in Codes |-> StatusOf(t, d)']]
<1>1. /\ was \in [Sessions -> [Codes -> {StatusOf(t, d) : t \in Sessions, d \in Codes}]]
      /\ was[s][c] = StatusOf(s, c) /\ now[s][c] = StatusOf(s, c)'
  OBVIOUS
<1>2. session[s].status # NoRow
  BY DEF AloneIInv, IInv, RowsOK, RowOK, NoRow
<1>3. CASE UNCHANGED Lifecycle!vars
  <2>1. now = was
    BY <1>3 DEF Lifecycle!vars
  <2> HIDE DEF now, was
  <2> QED
    BY <1>1, <2>1
<1>4. ASSUME NEW t \in Sessions,
             \/ Lifecycle!Create(t) \/ Lifecycle!Confirm(t) \/ Lifecycle!Activate(t)
             \/ Lifecycle!Find(t) \/ Lifecycle!Close(t)
      PROVE  now[s][c] = was[s][c]
  <2>1. CASE Lifecycle!Create(t)
    <3>1. t # s
      BY <1>2, <2>1 DEF Lifecycle!Create, NoRow
    <3>2. PICK new : now = [was EXCEPT ![t] = new]
      BY <2>1 DEF Lifecycle!Create
    <3> HIDE DEF now, was
    <3> QED
      BY <1>1, <3>1, <3>2
  <2>2. CASE Lifecycle!Confirm(t)
    <3>1. PICK d \in Codes : was[t][d] = "ORANGE" /\ now = [was EXCEPT ![t][d] = "BLUE"]
      BY <2>2 DEF Lifecycle!Confirm, Lifecycle!Coloured
    <3> HIDE DEF now, was
    <3>2. t # s \/ d # c
      BY <1>1, <3>1
    <3> QED
      BY <1>1, <3>1, <3>2
  <2>3. CASE Lifecycle!Activate(t)
    BY <2>3 DEF Lifecycle!Activate
  <2>4. CASE Lifecycle!Find(t)
    <3>1. PICK d \in Codes : was[t][d] = "BLUE" /\ now = [was EXCEPT ![t][d] = "GREEN"]
      BY <2>4 DEF Lifecycle!Find, Lifecycle!Coloured
    <3> HIDE DEF now, was
    <3> QED
      BY <1>1, <3>1
  <2>5. CASE Lifecycle!Close(t)
    <3>1. PICK found \in SUBSET Lifecycle!Coloured(t, "BLUE"),
               extra \in SUBSET Lifecycle!Coloured(t, "NONE") :
            now = [was EXCEPT ![t] = [d \in Codes |-> IF d \in found THEN "GREEN"
                                                       ELSE IF d \in extra THEN "PURPLE"
                                                       ELSE IF was[t][d] = "BLUE" THEN "RED"
                                                       ELSE was[t][d]]]
      BY <2>5 DEF Lifecycle!Close
    <3>2. /\ \A d \in found : was[t][d] = "BLUE"
          /\ \A d \in extra : was[t][d] = "NONE"
      BY DEF Lifecycle!Coloured
    <3> HIDE DEF now, was
    <3>3. CASE t = s
      <4>1. c \notin found /\ c \notin extra /\ was[s][c] # "BLUE"
        BY <1>1, <3>2, <3>3
      <4>2. now[s] = [d \in Codes |-> IF d \in found THEN "GREEN"
                                      ELSE IF d \in extra THEN "PURPLE"
                                      ELSE IF was[s][d] = "BLUE" THEN "RED"
                                      ELSE was[s][d]]
        BY <1>1, <3>1, <3>3
      <4> QED
        BY <4>1, <4>2
    <3>4. CASE t # s
      BY <1>1, <3>1, <3>4
    <3> QED
      BY <3>3, <3>4
  <2> QED
    BY <1>4, <2>1, <2>2, <2>3, <2>4, <2>5
<1> QED
  <2> HIDE DEF now, was
  <2> QED
    BY <1>1, <1>3, <1>4, StepAlone DEF Lifecycle!Next

\* Requests served one at a time never change a location that is finalized.
THEOREM SerialFinalizedStays ==
  ASSUME OneAtATime PROVE SearchSpec => FinalizedStays
<1>1. AloneIInv /\ [SearchNext]_searchVars =>
        \A s \in Sessions, c \in Codes :
          StatusOf(s, c) \in {"GREEN", "RED"} => StatusOf(s, c)' = StatusOf(s, c)
  BY StepFinalized
<1> QED
  BY <1>1, AloneInvariance, PTL DEF SearchSpec, FinalizedStays

\* A percentage, rounded, of fewer than 200 is full only when nothing is left out.
LEMMA FullPercent ==
  ASSUME NEW part \in Nat, NEW whole \in Nat \ {0}, part <= whole, whole < 200
  PROVE  Percent(part, whole) = 100 <=> part = whole
<1>1. \A a \in Nat, b \in Nat \ {0} : a \div b = 100 <=> 100 * b <= a /\ a < 101 * b
  BY Z3
<1> QED
  BY <1>1 DEF Percent

\* The dashboard's two counts agree, and a closed audit passes when its score is full.
LEMMA AddsUp ==
  ASSUME AloneIInv, Cardinality(Codes) < 200
  PROVE  OverviewAddsUp
<1> SUFFICES ASSUME NEW s \in Audits
    PROVE  /\ HiddenObjectScore(s).displayStatus = "FAIL" <=> HiddenObjectScore(s).status = "FAIL"
           /\ session[s].status = "CLOSED" =>
                (HiddenObjectScore(s).status = "PASS" <=> HiddenObjectScore(s).score = 100)
  BY DEF OverviewAddsUp, AttentionTotal, AttentionHiddenObject
<1>0. s \in Sessions /\ InPhase(s) /\ session[s].status \in {"SETUP", "ACTIVE", "CLOSED"}
  BY DEF Audits, AloneIInv, IInv, SearchTypeOK, TypeOK, SessionRow, SessionStatuses
<1> DEFINE green == CodesIn(s, {"GREEN"})
           red == CodesIn(s, {"RED"})
           settled == CodesIn(s, {"GREEN", "RED"})
           status == Verdict(Cardinality(red))
<1>1. HiddenObjectScore(s) =
        [score |-> IF Cardinality(settled) = 0 THEN 0
                   ELSE Percent(Cardinality(green), Cardinality(settled)),
         status |-> status,
         displayStatus |-> IF session[s].status = "CLOSED" THEN status ELSE session[s].status]
  <2> DEFINE rows == [c \in Codes |-> StatusOf(s, c)]
  <2>1. /\ {c \in DOMAIN rows : rows[c] = "GREEN"} = green
        /\ {c \in DOMAIN rows : rows[c] = "RED"} = red
        /\ Settled(rows) = settled
    BY DEF CodesIn, Settled
  <2> QED
    BY <2>1 DEF HiddenObjectScore, ScoreHiddenObject
<1>2. green \subseteq settled /\ red \subseteq settled /\ settled \subseteq Codes
  BY DEF CodesIn
<1>5. green = settled <=> red = {}
  BY DEF CodesIn
<1>6. session[s].status # "CLOSED" => red = {}
  BY <1>0 DEF InPhase, CodesIn, NoRow
<1>7. session[s].status = "CLOSED" => settled # {}
  BY <1>0 DEF InPhase, Designated, CodesIn, NoRow, LocationStatuses
<1>9. status \in {"PASS", "FAIL"}
  BY DEF Verdict
<1> HIDE DEF green, red, settled
<1>3. /\ IsFiniteSet(settled) /\ Cardinality(settled) <= Cardinality(Codes)
      /\ Cardinality(Codes) \in Nat
  BY <1>2, CodesAssumption, FS_Subset, FS_CardinalityType
<1>4. /\ IsFiniteSet(red) /\ IsFiniteSet(green)
      /\ Cardinality(green) <= Cardinality(settled)
      /\ Cardinality(green) = Cardinality(settled) <=> green = settled
  BY <1>2, <1>3, FS_Subset
<1>8. /\ Cardinality(red) \in Nat /\ Cardinality(settled) \in Nat /\ Cardinality(green) \in Nat
      /\ Cardinality(red) = 0 <=> red = {}
      /\ Cardinality(settled) = 0 <=> settled = {}
  BY <1>3, <1>4, FS_CardinalityType, FS_EmptySet
<1>11. status = "PASS" <=> red = {}
  BY <1>8 DEF Verdict
<1> HIDE DEF status
<1>10. session[s].status = "CLOSED" =>
         (Percent(Cardinality(green), Cardinality(settled)) = 100 <=> red = {})
  BY <1>3, <1>4, <1>5, <1>7, <1>8, FullPercent
<1> QED
  BY <1>0, <1>1, <1>6, <1>7, <1>8, <1>9, <1>10, <1>11

\* With requests served one at a time the dashboard counts the same audits both ways, and
\* a full score is a pass: below 200 locations, beyond which 99.5 percent rounds to 100.
THEOREM SerialOverview ==
  ASSUME OneAtATime, Cardinality(Codes) < 200
  PROVE  SearchSpec => []OverviewAddsUp
<1>1. AloneIInv => OverviewAddsUp
  BY AddsUp
<1> QED
  BY <1>1, AloneInvariance, PTL

=============================================================================
