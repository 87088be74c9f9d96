--------------------------- MODULE AdminDashboard ---------------------------
(***************************************************************************)
(* The dashboard of the active station: getOverview and getAuditRecords    *)
(* over the audits that have been filed.  Periods and gates are the two    *)
(* filters of a query; a hidden object audit has no gate.                  *)
(***************************************************************************)
EXTENDS DashboardScores, FiniteSets, FiniteSetsExt

CONSTANTS StationsShown,
          Submissions,  \* audits that may be filed
          Days, GatesShown,
          MaxAudits,    \* bound
          Unfiltered

\* An audit that may be filed.
Submission ==
  [station : StationsShown, auditType : AuditTypes, day : Days, gate : GatesShown, score : 0..100]

ASSUME DashboardAssumption ==
  /\ \A audit \in Submissions : audit \in Submission
  /\ Unfiltered \notin AuditTypes \cup Submissions

VARIABLE audits  \* the audits of all stations, in the order they were filed

-----------------------------------------------------------------------------
(* Queries, of the station that is active.  They return the places of the audits. *)

Periods == [from : Days \cup {Unfiltered}, to : Days \cup {Unfiltered}]

InPeriod(audit, period) ==
  /\ period.from # Unfiltered => audit.day >= period.from
  /\ period.to # Unfiltered => audit.day <= period.to

\* The audits of one kind that a period has.
Kind(station, type, period) ==
  {i \in DOMAIN audits : /\ audits[i].station = station /\ audits[i].auditType = type
                         /\ InPeriod(audits[i], period)}

All(station, period) == UNION {Kind(station, type, period) : type \in AuditTypes}

AtGate(audit, gate) == audit.auditType = "HIDDEN_OBJECT" \/ gate = Unfiltered \/ audit.gate = gate

\* The records of getAuditRecords, all pages together; Unfiltered: no filter.
Records(station, type, period, gate) ==
  {i \in IF type = Unfiltered THEN All(station, period) ELSE Kind(station, type, period) : AtGate(audits[i], gate)}

\* getAuditDetail of a record; Unfiltered: not found.
Detail(station, type, i) ==
  IF i \in DOMAIN audits /\ audits[i].station = station /\ audits[i].auditType = type THEN audits[i] ELSE Unfiltered

-----------------------------------------------------------------------------
(* The overview *)

ScoresOf(places) ==
  FlattenSeq([i \in DOMAIN audits |-> IF i \in places THEN <<audits[i].score>> ELSE <<>>])

Average(places) == AverageScore(ScoresOf(places))

ScoreOf(station, type, period) == Average(Kind(station, type, period))

\* Mutant: a kind without audits counts with its score of 100.
OverallOfKinds(station, period) ==
  AverageScore([i \in 1..4 |-> ScoreOf(station, SetToSeq(AuditTypes)[i], period)])

OverallScore(station, period) == Average(All(station, period))

\* Audits of each day and kind; a day without audits has no entry.
Trend(station, period) ==
  [day \in {audits[i].day : i \in All(station, period)} |->
     [type \in AuditTypes |-> Cardinality({i \in Kind(station, type, period) : audits[i].day = day})]]

-----------------------------------------------------------------------------
DashboardInit == audits = <<>>

AuditFiled ==
  /\ Len(audits) < MaxAudits
  /\ \E audit \in Submissions : audits' = Append(audits, audit)

DashboardNext == AuditFiled

DashboardSpec == DashboardInit /\ [][DashboardNext]_audits

-----------------------------------------------------------------------------
(* Properties *)

\* What the overview says of a period is borne out by the records that can be listed and
\* opened: the overall score lies among the scores of the kinds that have audits, the
\* trend counts the records, and each record opens at its station and at no other.
OverviewAgrees ==
  \A station \in {audits[i].station : i \in DOMAIN audits}, period \in Periods :
    LET present == {type \in AuditTypes : Kind(station, type, period) # {}}
        scores == {ScoreOf(station, type, period) : type \in present}
        trend == Trend(station, period)
    IN  /\ present # {} => /\ Min(scores) <= OverallScore(station, period)
                           /\ OverallScore(station, period) <= Max(scores)
        /\ \A type \in AuditTypes :
             Cardinality(Records(station, type, period, Unfiltered))
               = MapThenSumSet(LAMBDA day : trend[day][type], DOMAIN trend)
        /\ \A i \in Records(station, Unfiltered, period, Unfiltered), reader \in StationsShown :
             Detail(reader, audits[i].auditType, i) # Unfiltered <=> reader = station
=============================================================================
