------------------------------ MODULE MCRecords -----------------------------
(***************************************************************************)
(* What administrators maintain, what stations report and what is          *)
(* computed from it, for TLC.  The components share no state, so a         *)
(* behaviour runs one of them and leaves the others as they began.         *)
(*   forms:     one template and the form of the seed, two editors         *)
(*   reports:   one filing of one station, one clerk, a row of each kind   *)
(*              and one item that may come beside the one that is there    *)
(*   pages:     six records, two on a page                                 *)
(*   shifts:    no shift yet, a night over midnight, one that ends at it,  *)
(*              or a shift round the clock, on two days of three moments   *)
(*   scores:    three areas with two items at most in three groups, one of *)
(*              them known by its words; weights of 1/300 points and more  *)
(*   seats:     one section with two seats, a row of amenities before it   *)
(*              (lavatories, galleys, a closet as a label) and one behind  *)
(*   dashboard: three audits of two kinds, two stations and two days       *)
(*   audits:    two hidden object audits, two ships, two locations, and    *)
(*              the trainings that close them, one request at a time       *)
(***************************************************************************)
EXTENDS DynamicForms, StationReports, PagedLists, ShiftContext,
        CabinQualityScoring, SeatMaps, AdminDashboard, AuditOverview, TLC

VARIABLE part

recordVars ==
  <<part, formVars, reportVars, pageVars, shiftVars, scoreVars, seatVars, audits, searchVars>>

ASeedForm == [status |-> "PUBLISHED", questions |-> {"q1"}]

MCOldShifts ==
  { {}, {[code |-> "NIGHT", start |-> 2, end |-> 1, active |-> TRUE],
         [code |-> "MORNING", start |-> 1, end |-> 1, active |-> FALSE]},
    {[code |-> "NIGHT", start |-> 2, end |-> 0, active |-> TRUE]},
    {[code |-> "EVENING", start |-> 2, end |-> 2, active |-> TRUE]} }
MCServerDays == 0..1

Marks == {m \in [pass : 0..2, fail : 0..2, na : 0..1] : m.pass + m.fail + m.na \in 1..2}
Named == {[group |-> "lav", words |-> {}], [group |-> "", words |-> {"galley", "first"}],
          [group |-> "?", words |-> {"aisle"}]}
MCAreas == {[group |-> n.group, words |-> n.words, pass |-> m.pass, fail |-> m.fail, na |-> m.na] :
              n \in Named, m \in Marks}
MCForms == UNION {[1..n -> MCAreas] : n \in 0..3}
\* In units of 1/300 points: no weights given, a large one, and one so small that its
\* points round to 0.
MCWeights == {<<>>, [lav |-> 0, other |-> 30100], [lav |-> 1, other |-> 0]}

P(kind, zone, side) == [kind |-> kind, zone |-> zone, side |-> side]
MCAmenities ==
  [left : {Blank, P("LAV", "FWD", "L"), P("GALLEY", "MID", "")}, leftSvg : BOOLEAN,
   right : {Blank, P("LAV", "FWD", "R"), P("GALLEY", "AFT", "")}, rightSvg : BOOLEAN,
   label : {Blank, P("CLOSET", "", "")}]
Section(before, after, endRow) ==
  [name |-> "Main Cabin", startRow |-> 2, endRow |-> endRow, skipRows |-> {3},
   leftCols |-> <<"A">>, rightCols |-> <<"">>, before |-> before, after |-> after]
Aft == [left |-> P("GALLEY", "AFT", ""), leftSvg |-> TRUE, right |-> Blank, rightSvg |-> FALSE, label |-> Blank]
MCMaps == {[sections |-> <<Section(<<a>>, <<Aft>>, 3)>>] : a \in MCAmenities}
          \cup {[sections |-> <<Section(<<>>, <<Aft>>, 1)>>]}
MCDefault == [sections |-> <<Section(<<>>, <<Aft>>, 2)>>]

\* Scores of responses, of weighted areas and of hidden objects.
MCScores ==
  {ScoreResponses(passed, failed).score : passed \in 0..1, failed \in 0..1}
    \cup {ScoreCabinQuality([weighted |-> TRUE, score |-> 99, status |-> "FAIL"]).score}
    \cup {ScoreHiddenObject("CLOSED", rows).score : rows \in [1..2 -> {"GREEN", "RED", "PURPLE"}]}
MCSubmissions ==
  [station : StationsShown, auditType : {"CABIN_QUALITY", "HIDDEN_OBJECT"}, day : Days, gate : GatesShown, score : MCScores]

MCInit ==
  \E p \in {"forms", "reports", "pages", "shifts", "scores", "seats", "dashboard", "audits"} :
    /\ part = p
    /\ FormInit /\ ReportInit /\ PageInit /\ ShiftInit /\ ScoreInit /\ SeatInit
    /\ DashboardInit /\ SearchInit
    /\ p # "pages" => list = <<>>
    /\ p # "shifts" => shifts = {}

MCNext ==
  \/ /\ part = "forms" /\ FormNext
     /\ UNCHANGED <<part, reportVars, pageVars, shiftVars, scoreVars, seatVars, audits, searchVars>>
  \/ /\ part = "reports" /\ ReportNext
     /\ UNCHANGED <<part, formVars, pageVars, shiftVars, scoreVars, seatVars, audits, searchVars>>
  \/ /\ part = "pages" /\ PageNext
     /\ UNCHANGED <<part, formVars, reportVars, shiftVars, scoreVars, seatVars, audits, searchVars>>
  \/ /\ part = "shifts" /\ ShiftNext
     /\ UNCHANGED <<part, formVars, reportVars, pageVars, scoreVars, seatVars, audits, searchVars>>
  \/ /\ part = "scores" /\ ScoreNext
     /\ UNCHANGED <<part, formVars, reportVars, pageVars, shiftVars, seatVars, audits, searchVars>>
  \/ /\ part = "seats" /\ SeatNext
     /\ UNCHANGED <<part, formVars, reportVars, pageVars, shiftVars, scoreVars, audits, searchVars>>
  \/ /\ part = "dashboard" /\ DashboardNext
     /\ UNCHANGED <<part, formVars, reportVars, pageVars, shiftVars, scoreVars, seatVars, searchVars>>
  \/ /\ part = "audits" /\ SearchNext
     /\ UNCHANGED <<part, formVars, reportVars, pageVars, shiftVars, scoreVars, seatVars, audits>>

MCSpec == MCInit /\ [][MCNext]_recordVars

\* Editors are interchangeable.
Symmetry == Permutations(Editors)

=============================================================================
