--------------------------- MODULE StationReports ---------------------------
(***************************************************************************)
(* The reference rows that administrators maintain (modules/master-data)   *)
(* and the reports that auditors file against them: LAV observations,      *)
(* cabin quality audits, end of shift reports, one-on-ones and feedback.   *)
(* Requests read first and write later.  The database refuses a reference  *)
(* to a row that is gone and the deletion of a row that is referred to.    *)
(* The fleet and its aircraft types are rows like gates and stations; the  *)
(* audits that refer to them are not modelled here.  Nor is the checklist  *)
(* of the quality audits, which only the seed writes, nor who files a      *)
(* report and who reads it.                                                *)
(***************************************************************************)
EXTENDS Naturals, Sequences, FiniteSets, SequencesExt

CONSTANTS Stations, Gates, CleanTypes, AircraftTypes, Fleet,
          Items,        \* rows of lav_safety_checklist_items
          Present,      \* the rows that are there from the start
          Clerks,       \* requests that maintain reference rows
          Filings,      \* requests that file a report
          MaxReports    \* bound

ReferenceRows == Stations \cup Gates \cup CleanTypes \cup AircraftTypes \cup Fleet \cup Items

ASSUME ReportAssumption ==
  /\ Present \subseteq ReferenceRows
  /\ IsFiniteSet(Items)
  /\ MaxReports \in Nat

VARIABLES row,      \* reference rows; an id that was deleted never returns
          reports,  \* the reports, oldest first
          clerk,    \* what each request of a clerk is at
          filing    \* what each filing has read

reportVars == <<row, reports, clerk, filing>>

Nobody == "none"
Absent == [state |-> "absent", active |-> FALSE, parent |-> Nobody]
Gone == [Absent EXCEPT !.state = "gone"]
Free == [at |-> "free"]

Exists(id) == id \in ReferenceRows /\ row[id].state = "live"
Active(id) == Exists(id) /\ row[id].active

\* The model of a row that a row refers to.
Parents(id) ==
  CASE id \in Gates -> Stations
    [] id \in Fleet -> AircraftTypes
    [] OTHER        -> {Nobody}

\* No filing asks whether a station or a gate is active.
Flags(id) == IF id \in Stations \cup Gates THEN {TRUE} ELSE BOOLEAN

ParentExists(parent) == parent = Nobody \/ Exists(parent)

Answers(report) == ToSet(report.answers)
Uses(report) == {report.station, report.gate, report.cleanType} \cup Answers(report)

\* Mutant: a response is deleted with its item (onDelete: Cascade).
ReferredToUnlessAnswered(id) ==
  \/ \E other \in ReferenceRows : Exists(other) /\ row[other].parent = id
  \/ \E i \in DOMAIN reports : id \in {reports[i].station, reports[i].gate, reports[i].cleanType}

ReferredTo(id) ==
  \/ \E other \in ReferenceRows : Exists(other) /\ row[other].parent = id
  \/ \E i \in DOMAIN reports : id \in Uses(reports[i])

IsAnswered(id) == \E i \in DOMAIN reports : id \in Answers(reports[i])

ActiveItems == {i \in Items : Active(i)}

ReportInit ==
  /\ \E row0 \in [ReferenceRows -> {Absent} \cup [state : {"live"}, active : {TRUE}, parent : ReferenceRows \cup {Nobody}]] :
       /\ \A id \in ReferenceRows : IF id \in Present
            THEN row0[id].state = "live" /\ row0[id].parent \in Parents(id)
            ELSE row0[id] = Absent
       /\ \A id \in Present : row0[id].parent \in Present \cup {Nobody}
       /\ row = row0
  /\ reports = <<>>
  /\ clerk = [c \in Clerks |-> Free]
  /\ filing = [f \in Filings |-> Free]

-----------------------------------------------------------------------------
(* Reference rows *)

ClerkAt(c, step) == clerk[c].at = step
ClerkGoes(c, to) == clerk' = [clerk EXCEPT ![c] = to]

Writes(id, new) ==
  /\ row' = [row EXCEPT ![id] = new]
  /\ UNCHANGED <<reports, filing>>

BeginInsert(c) ==
  /\ ClerkAt(c, "free")
  /\ \E id \in ReferenceRows : \E active \in Flags(id), parent \in Parents(id) :
       /\ row[id] = Absent
       /\ ParentExists(parent)
       /\ ClerkGoes(c, [at |-> "insert", id |-> id, active |-> active, parent |-> parent])
  /\ UNCHANGED <<row, reports, filing>>

Insert(c) ==
  LET id == clerk[c].id IN
  /\ ClerkAt(c, "insert")
  /\ row[id] = Absent
  /\ ParentExists(clerk[c].parent)
  /\ Writes(id, [state |-> "live", active |-> clerk[c].active, parent |-> clerk[c].parent])
  /\ ClerkGoes(c, Free)

\* An update gives some of the fields; a gate may go to another station.
BeginUpdate(c) ==
  /\ ClerkAt(c, "free")
  /\ \E id \in ReferenceRows : \E active \in Flags(id), parent \in Parents(id) :
       /\ Exists(id)
       /\ ParentExists(parent)
       /\ ClerkGoes(c, [at |-> "update", id |-> id, active |-> active, parent |-> parent])
  /\ UNCHANGED <<row, reports, filing>>

Update(c) ==
  LET id == clerk[c].id IN
  /\ ClerkAt(c, "update")
  /\ Exists(id)
  /\ ParentExists(clerk[c].parent)
  /\ Writes(id, [state |-> "live", active |-> clerk[c].active, parent |-> clerk[c].parent])
  /\ ClerkGoes(c, Free)

\* An item that has been answered is only made inactive.
BeginDelete(c) ==
  /\ ClerkAt(c, "free")
  /\ \E id \in ReferenceRows :
       /\ Exists(id)
       /\ ClerkGoes(c, [at |-> IF IsAnswered(id) THEN "deactivate" ELSE "delete", id |-> id])
  /\ UNCHANGED <<row, reports, filing>>

Deactivate(c) ==
  LET id == clerk[c].id IN
  /\ ClerkAt(c, "deactivate")
  /\ Exists(id)
  /\ Writes(id, [row[id] EXCEPT !.active = FALSE])
  /\ ClerkGoes(c, Free)

Delete(c) ==
  LET id == clerk[c].id IN
  /\ ClerkAt(c, "delete")
  /\ Exists(id)
  /\ ~ReferredTo(id)
  /\ Writes(id, Gone)
  /\ ClerkGoes(c, Free)

\* Not found, in use, or refused by the database: the request ends unheard.
GiveUp(c) ==
  /\ ~ClerkAt(c, "free")
  /\ ClerkGoes(c, Free)
  /\ UNCHANGED <<row, reports, filing>>

\* The seed: what it knows is active again, except for stations and gates.
SeedRow ==
  /\ \E id \in Present \ (Stations \cup Gates) :
       /\ Exists(id)
       /\ Writes(id, [row[id] EXCEPT !.active = TRUE])
  /\ UNCHANGED clerk

-----------------------------------------------------------------------------
(* Reports *)

HasGate == {"lav", "quality"}
\* Of the rows here an end of shift report, a one-on-one and feedback name the station alone.
Kinds == HasGate \cup {"other"}

\* The responses to a checklist: as many as items, no item twice, no other item.
Accepts(answers, items) ==
  /\ Len(answers) = Cardinality(items)
  /\ Cardinality(ToSet(answers)) = Len(answers)
  /\ ToSet(answers) \subseteq items

\* A client may name an item twice; more answers than items are refused by their number.
Drafts ==
  [kind : Kinds, station : Stations, gate : Gates \cup {Nobody}, cleanType : CleanTypes \cup {Nobody},
   answers : SeqOf(Items, Cardinality(Items))]

\* What a form must satisfy in the rows as they are read.
Valid(form) ==
  /\ (form.gate # Nobody) = (form.kind \in HasGate)
  /\ form.kind \in HasGate => Exists(form.gate) /\ row[form.gate].parent = form.station
  /\ (form.cleanType # Nobody) = (form.kind = "quality")
  /\ form.kind = "quality" => Active(form.cleanType)
  /\ Accepts(form.answers, IF form.kind = "lav" THEN ActiveItems ELSE {})

\* The author has access to the active station, which therefore exists.
BeginFiling(f) ==
  /\ filing[f] = Free
  /\ \E form \in Drafts :
       /\ Exists(form.station)
       /\ Valid(form)
       /\ filing' = [filing EXCEPT ![f] = [at |-> "checked", form |-> form]]
  /\ UNCHANGED <<row, reports, clerk>>

\* One transaction; a row that has gone since fails its foreign key.
File(f) ==
  LET form == filing[f].form IN
  /\ filing[f] # Free
  /\ Len(reports) < MaxReports
  /\ \A id \in Uses(form) \ {Nobody} : Exists(id)
  /\ reports' = Append(reports, form)
  /\ filing' = [filing EXCEPT ![f] = Free]
  /\ UNCHANGED <<row, clerk>>

FailFiling(f) ==
  /\ filing[f] # Free
  /\ filing' = [filing EXCEPT ![f] = Free]
  /\ UNCHANGED <<row, reports, clerk>>

-----------------------------------------------------------------------------
ClerkStep(c) ==
  \/ BeginInsert(c) \/ Insert(c) \/ BeginUpdate(c) \/ Update(c)
  \/ BeginDelete(c) \/ Deactivate(c) \/ Delete(c) \/ GiveUp(c)

FilingStep(f) == BeginFiling(f) \/ File(f) \/ FailFiling(f)

ReportNext ==
  (\E c \in Clerks : ClerkStep(c)) \/ (\E f \in Filings : FilingStep(f)) \/ SeedRow

ReportSpec == ReportInit /\ [][ReportNext]_reportVars

-----------------------------------------------------------------------------
(* Properties *)

\* What a report refers to stays as long as the report does, inactive at most: the
\* count before a deletion may be outdated by a filing, the deletion then fails.
AnsweredStays == \A i \in DOMAIN reports : \A id \in Uses(reports[i]) \ {Nobody} : Exists(id)
=============================================================================
