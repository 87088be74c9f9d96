-------------------------- MODULE RecordsProofs -----------------------------
(***************************************************************************)
(* Safety of the filings and the items of StationReports, of the shifts of *)
(* ShiftContext, of the pages of PagedLists and of the templates of        *)
(* DynamicForms, for any values of their constants.                        *)
(***************************************************************************)
EXTENDS StationReports, ShiftContext, PagedLists, DynamicForms,
        FiniteSetTheorems, SequenceTheorems, TLAPS

RowType == [state : {"absent", "live", "gone"}, active : BOOLEAN, parent : ReferenceRows \cup {Nobody}]

ClerkType ==
  {Free} \cup [at : {"insert", "update"}, id : ReferenceRows, active : BOOLEAN, parent : ReferenceRows \cup {Nobody}]
         \cup [at : {"deactivate", "delete"}, id : ReferenceRows]

FilingType == {Free} \cup [at : {"checked"}, form : Drafts]

\* The type invariant of the reference rows, the reports and the requests.
ReportTypeOK ==
  /\ row \in [ReferenceRows -> RowType]
  /\ reports \in Seq(Drafts)
  /\ clerk \in [Clerks -> ClerkType]
  /\ filing \in [Filings -> FilingType]

\* The inductive invariant.
IInv == ReportTypeOK /\ AnsweredStays

\* Answers that are accepted are the whole checklist they are compared with: the service
\* compares their number, looks for one given twice and for a strange one, and never asks
\* whether every item is answered.
THEOREM AcceptedAnswersAll ==
  ASSUME NEW checklist \in SUBSET Items, NEW answers, Accepts(answers, checklist)
  PROVE  ToSet(answers) = checklist
<1>1. IsFiniteSet(checklist)
  BY ReportAssumption, FS_Subset
<1>2. ToSet(answers) \in SUBSET checklist /\ Cardinality(checklist) = Cardinality(ToSet(answers))
  BY DEF Accepts
<1> QED
  BY <1>1, <1>2, FS_Subset

\* The initial states satisfy the invariant.
LEMMA InitInvariant == ReportInit => IInv
<1> SUFFICES ASSUME ReportInit PROVE IInv
  OBVIOUS
<1>1. row \in [ReferenceRows -> RowType]
  <2> DEFINE Initially == [state : {"live"}, active : {TRUE}, parent : ReferenceRows \cup {Nobody}]
  <2>1. Absent \in RowType /\ Initially \subseteq RowType
    BY DEF RowType, Absent
  <2>2. row \in [ReferenceRows -> {Absent} \cup Initially]
    BY DEF ReportInit
  <2> HIDE DEF Initially
  <2> QED
    BY <2>1, <2>2
<1>2. reports = <<>> /\ clerk \in [Clerks -> ClerkType] /\ filing \in [Filings -> FilingType]
  BY DEF ReportInit, ClerkType, FilingType
<1> QED
  BY <1>1, <1>2 DEF IInv, ReportTypeOK, AnsweredStays

-----------------------------------------------------------------------------
(* Reference rows *)

\* A write that deletes no row a report refers to keeps the invariant.
LEMMA WritesKeepInvariant ==
  ASSUME IInv, NEW id \in ReferenceRows, NEW new \in RowType, Writes(id, new),
         clerk' \in [Clerks -> ClerkType],
         new.state = "live" \/ ~ReferredTo(id)
  PROVE  IInv'
<1>1. row' = [row EXCEPT ![id] = new] /\ UNCHANGED <<reports, filing>>
  BY DEF Writes
<1>2. row \in [ReferenceRows -> RowType] /\ reports \in Seq(Drafts)
  BY DEF IInv, ReportTypeOK
<1>3. row' \in [ReferenceRows -> RowType]
  BY <1>1, <1>2
<1>4. AnsweredStays'
  <2> SUFFICES ASSUME NEW i \in DOMAIN reports, NEW used \in Uses(reports[i]) \ {Nobody}
               PROVE  Exists(used)'
    BY <1>1 DEF AnsweredStays, Uses, Answers
  <2>1. Exists(used)
    BY DEF IInv, AnsweredStays
  <2>2. used = id => new.state = "live"
    BY DEF ReferredTo
  <2> QED
    BY <1>1, <1>2, <2>1, <2>2 DEF Exists
<1> QED
  BY <1>1, <1>2, <1>3, <1>4 DEF IInv, ReportTypeOK

\* A step of a clerk that writes no row.
LEMMA ClerksKeepInvariant ==
  ASSUME IInv, clerk' \in [Clerks -> ClerkType], UNCHANGED <<row, reports, filing>>
  PROVE  IInv'
<1>1. ReportTypeOK'
  BY DEF IInv, ReportTypeOK
<1>2. AnsweredStays'
  BY DEF IInv, AnsweredStays, Exists, Uses, Answers
<1> QED
  BY <1>1, <1>2 DEF IInv

LEMMA ClerkGoesTyped ==
  ASSUME IInv, NEW c \in Clerks, NEW to \in ClerkType, ClerkGoes(c, to)
  PROVE  clerk' \in [Clerks -> ClerkType]
  BY DEF IInv, ReportTypeOK, ClerkGoes

\* What a clerk is at says which row it is about to write.
LEMMA ClerkRows ==
  ASSUME IInv, NEW c \in Clerks
  PROVE  /\ ClerkAt(c, "insert") \/ ClerkAt(c, "update") =>
              /\ clerk[c].id \in ReferenceRows
              /\ [state |-> "live", active |-> clerk[c].active, parent |-> clerk[c].parent] \in RowType
         /\ ClerkAt(c, "deactivate") \/ ClerkAt(c, "delete") => clerk[c].id \in ReferenceRows
<1>1. clerk[c] \in ClerkType
  BY DEF IInv, ReportTypeOK
<1>2. clerk[c] = Free => ~ClerkAt(c, "insert") /\ ~ClerkAt(c, "update")
                         /\ ~ClerkAt(c, "deactivate") /\ ~ClerkAt(c, "delete")
  BY DEF Free, ClerkAt
<1> QED
  BY <1>1, <1>2 DEF ClerkType, ClerkAt, RowType

LEMMA ClerkKeeps ==
  ASSUME IInv, NEW c \in Clerks, ClerkStep(c)
  PROVE  IInv'
<1>0. row \in [ReferenceRows -> RowType] /\ Free \in ClerkType
  BY DEF IInv, ReportTypeOK, ClerkType
<1>1. CASE BeginInsert(c) \/ BeginUpdate(c)
  <2>1. \E to \in ClerkType : ClerkGoes(c, to)
    <3>1. PICK id \in ReferenceRows, active \in BOOLEAN, parent \in ReferenceRows \cup {Nobody}, at \in {"insert", "update"} :
            ClerkGoes(c, [at |-> at, id |-> id, active |-> active, parent |-> parent])
      BY <1>1 DEF BeginInsert, BeginUpdate, Flags, Parents, ReferenceRows
    <3> QED
      BY <3>1 DEF ClerkType
  <2> QED
    BY <1>1, <2>1, ClerkGoesTyped, ClerksKeepInvariant DEF BeginInsert, BeginUpdate
<1>2. CASE BeginDelete(c)
  <2>1. \E to \in ClerkType : ClerkGoes(c, to)
    BY <1>2 DEF BeginDelete, ClerkType
  <2> QED
    BY <1>2, <2>1, ClerkGoesTyped, ClerksKeepInvariant DEF BeginDelete
<1>3. CASE GiveUp(c)
  BY <1>0, <1>3, ClerkGoesTyped, ClerksKeepInvariant DEF GiveUp
<1>4. CASE Insert(c) \/ Update(c)
  <2> DEFINE new == [state |-> "live", active |-> clerk[c].active, parent |-> clerk[c].parent]
  <2>1. clerk[c].id \in ReferenceRows /\ new \in RowType
    BY <1>4, ClerkRows DEF Insert, Update
  <2>2. Writes(clerk[c].id, new) /\ ClerkGoes(c, Free)
    BY <1>4 DEF Insert, Update
  <2>3. new.state = "live"
    OBVIOUS
  <2> HIDE DEF new
  <2> QED
    BY <1>0, <2>1, <2>2, <2>3, ClerkGoesTyped, WritesKeepInvariant
<1>5. CASE Deactivate(c)
  <2> DEFINE new == [row[clerk[c].id] EXCEPT !.active = FALSE]
  <2>1. clerk[c].id \in ReferenceRows
    BY <1>5, ClerkRows DEF Deactivate
  <2>2. new \in RowType /\ new.state = "live"
    BY <1>0, <1>5, <2>1 DEF Deactivate, Exists, RowType
  <2>3. Writes(clerk[c].id, new) /\ ClerkGoes(c, Free)
    BY <1>5 DEF Deactivate
  <2> HIDE DEF new
  <2> QED
    BY <1>0, <2>1, <2>2, <2>3, ClerkGoesTyped, WritesKeepInvariant
<1>6. CASE Delete(c)
  <2>1. clerk[c].id \in ReferenceRows
    BY <1>6, ClerkRows DEF Delete
  <2>2. Gone \in RowType
    BY DEF Gone, Absent, RowType
  <2> QED
    BY <1>0, <1>6, <2>1, <2>2, ClerkGoesTyped, WritesKeepInvariant DEF Delete
<1> QED
  BY <1>1, <1>2, <1>3, <1>4, <1>5, <1>6 DEF ClerkStep

LEMMA SeedKeeps ==
  ASSUME IInv, SeedRow
  PROVE  IInv'
<1> PICK id \in Present \ (Stations \cup Gates) :
       Exists(id) /\ Writes(id, [row[id] EXCEPT !.active = TRUE])
  BY DEF SeedRow
<1> DEFINE new == [row[id] EXCEPT !.active = TRUE]
<1>1. row \in [ReferenceRows -> RowType] /\ id \in ReferenceRows
  BY DEF IInv, ReportTypeOK, Exists
<1>2. new \in RowType /\ new.state = "live"
  BY <1>1 DEF Exists, RowType
<1>3. clerk' \in [Clerks -> ClerkType]
  BY DEF SeedRow, IInv, ReportTypeOK
<1>4. Writes(id, new)
  OBVIOUS
<1> HIDE DEF new
<1> QED
  BY <1>1, <1>2, <1>3, <1>4, WritesKeepInvariant

-----------------------------------------------------------------------------
(* Reports *)

LEMMA FilingsKeepInvariant ==
  ASSUME IInv, NEW f \in Filings, NEW to \in FilingType, filing' = [filing EXCEPT ![f] = to],
         UNCHANGED <<row, clerk>>,
         reports' \in Seq(Drafts), AnsweredStays'
  PROVE  IInv'
<1>1. filing \in [Filings -> FilingType]
  BY DEF IInv, ReportTypeOK
<1>2. ReportTypeOK'
  BY <1>1 DEF IInv, ReportTypeOK
<1> QED
  BY <1>2 DEF IInv

LEMMA FilingKeeps ==
  ASSUME IInv, NEW f \in Filings, FilingStep(f)
  PROVE  IInv'
<1>0. ReportTypeOK /\ AnsweredStays /\ Free \in FilingType
  BY DEF IInv, FilingType
<1>1. CASE BeginFiling(f)
  <2> PICK form \in Drafts : filing' = [filing EXCEPT ![f] = [at |-> "checked", form |-> form]]
    BY <1>1 DEF BeginFiling
  <2>1. [at |-> "checked", form |-> form] \in FilingType
    BY DEF FilingType
  <2>2. UNCHANGED <<row, reports, clerk>>
    BY <1>1 DEF BeginFiling
  <2>3. reports' \in Seq(Drafts) /\ AnsweredStays'
    BY <1>0, <2>2 DEF ReportTypeOK, AnsweredStays, Exists, Uses, Answers
  <2> QED
    BY <2>1, <2>2, <2>3, FilingsKeepInvariant
<1>2. CASE File(f)
  <2> DEFINE form == filing[f].form
  <2>1. form \in Drafts
    BY <1>0, <1>2 DEF File, ReportTypeOK, FilingType
  <2>2. /\ reports' = Append(reports, form)
        /\ filing' = [filing EXCEPT ![f] = Free]
        /\ UNCHANGED <<row, clerk>>
        /\ \A id \in Uses(form) \ {Nobody} : Exists(id)
    BY <1>2 DEF File
  <2> HIDE DEF form
  <2>3. reports' \in Seq(Drafts)
    BY <1>0, <2>1, <2>2 DEF ReportTypeOK
  <2>4. AnsweredStays'
    <3> SUFFICES ASSUME NEW i \in DOMAIN reports' PROVE \A id \in Uses(reports'[i]) \ {Nobody} : Exists(id)'
      BY DEF AnsweredStays, Uses, Answers
    <3>1. reports'[i] = form \/ (i \in DOMAIN reports /\ reports'[i] = reports[i])
      BY <1>0, <2>1, <2>2 DEF ReportTypeOK
    <3> QED
      BY <1>0, <2>2, <3>1 DEF AnsweredStays, Exists
  <2> QED
    BY <1>0, <2>2, <2>3, <2>4, FilingsKeepInvariant
<1>3. CASE FailFiling(f)
  <2>1. filing' = [filing EXCEPT ![f] = Free] /\ UNCHANGED <<row, reports, clerk>>
    BY <1>3 DEF FailFiling
  <2>2. reports' \in Seq(Drafts) /\ AnsweredStays'
    BY <1>0, <2>1 DEF ReportTypeOK, AnsweredStays, Exists, Uses, Answers
  <2> QED
    BY <1>0, <2>1, <2>2, FilingsKeepInvariant
<1> QED
  BY <1>1, <1>2, <1>3 DEF FilingStep

-----------------------------------------------------------------------------
(* Every step keeps the invariant. *)

LEMMA StepKeepsInvariant ==
  ASSUME IInv, [ReportNext]_reportVars
  PROVE  IInv'
<1>1. CASE UNCHANGED reportVars
  BY <1>1, ClerksKeepInvariant DEF reportVars, IInv, ReportTypeOK
<1> QED
  BY <1>1, ClerkKeeps, FilingKeeps, SeedKeeps DEF ReportNext

\* The invariant holds of every behaviour.
THEOREM Invariance == ReportSpec => []IInv
<1>1. ReportInit => IInv
  BY InitInvariant
<1>2. IInv /\ [ReportNext]_reportVars => IInv'
  BY StepKeepsInvariant
<1> QED
  BY <1>1, <1>2, PTL DEF ReportSpec

\* Reference rows, reports and requests have their types.
THEOREM TypeCorrect == ReportSpec => []ReportTypeOK
<1>1. IInv => ReportTypeOK
  BY DEF IInv
<1> QED
  BY <1>1, Invariance, PTL

\* What a report refers to exists, whatever clerks delete.
THEOREM ReferencesStay == ReportSpec => []AnsweredStays
<1>1. IInv => AnsweredStays
  BY DEF IInv
<1> QED
  BY <1>1, Invariance, PTL

-----------------------------------------------------------------------------
(* ShiftContext. *)

\* A moment is a day and a minute of that day.
LEMMA DaysAndMinutes ==
  ASSUME NEW t \in Nat, NEW d \in Nat \ {0}
  PROVE  /\ t \div d \in Nat /\ t % d \in 0 .. d - 1
         /\ t = ((t \div d) * d) + (t % d)
<1>1. t \div d \in Nat /\ t % d \in 0 .. d - 1
  OBVIOUS
<1>2. t = ((t \div d) * d) + (t % d)
  BY SMTT(30)
<1> QED
  BY <1>1, <1>2

\* A shift that isWithinShift finds at a moment has an occurrence that covers it, on
\* the calendar day of the moment.
LEMMA FoundShiftCovers ==
  ASSUME now \in Nat, NEW shift \in ShiftRow, NEW minutes \in LocalMinutes,
         IsWithinShift(shift, minutes)
  PROVE  Covers(shift, Today, now)
<1> PICK midnight, m : midnight = Today * Day /\ m = now % Day
  OBVIOUS
<1>2. Day \in Nat \ {0} /\ Hour \in Nat /\ shift.start \in 0..Day /\ shift.end \in 0..Day
  BY ShiftAssumption DEF ShiftRow
<1>1. /\ midnight \in Nat /\ m \in Nat /\ m < Day /\ now = midnight + m
  <2>1. Today \in Nat /\ now = (Today * Day) + (now % Day) /\ now % Day \in 0 .. Day - 1
    <3>1. now \div Day \in Nat /\ now % Day \in 0 .. Day - 1
      BY <1>2, DaysAndMinutes
    <3>2. now = ((now \div Day) * Day) + (now % Day)
      BY <1>2, DaysAndMinutes
    <3> QED
      BY <3>1, <3>2 DEF Today
  <2>2. Today * Day \in Nat
    BY <1>2, <2>1
  <2> QED
    BY <1>2, <2>1, <2>2
<1>3. minutes = m \/ (minutes = m + Day /\ m < Hour)
  BY DEF LocalMinutes
<1>4. CASE shift.start = shift.end
  BY <1>1, <1>2, <1>4 DEF Covers
<1>5. CASE shift.start < shift.end
  BY <1>1, <1>2, <1>3, <1>5 DEF Covers, IsWithinShift
<1>6. CASE shift.start > shift.end
  BY <1>1, <1>2, <1>3, <1>6 DEF Covers, IsWithinShift
<1> QED
  BY <1>2, <1>4, <1>5, <1>6

(***************************************************************************)
(* The inductive invariant: what a filing has found, and has not yet filed *)
(* under, covers the moment at which it looked.                            *)
(***************************************************************************)
ShiftIInv ==
  /\ now \in Nat
  /\ shifts \subseteq ShiftRow
  /\ finding = [f \in Filers |-> finding[f]]
  /\ \A f \in Filers :
       finding[f] # Unsettled => Covers(finding[f].shift, finding[f].day, finding[f].at)
  /\ FiledInShift

\* The shifts of the seed have their times within the day.
LEMMA SeededShifts == \A code \in ShiftCodes : Seeded(code) \in ShiftRow
<1>1. PICK third \in Nat : third = Day \div 3
  BY ShiftAssumption
<1>2. Day = 3 * third
  BY <1>1, ShiftAssumption
<1> QED
  BY <1>1, <1>2 DEF Seeded, ShiftRow, ShiftCodes

\* What a filing finds covers the moment at which it looked.
LEMMA FindingKeeps ==
  ASSUME ShiftIInv, NEW f \in Filers, FindShift(f) \/ FindNoShift(f) \/ FindOccurrence(f)
  PROVE  ShiftIInv'
<1>1. CASE FindShift(f)
  <2> PICK minutes \in LocalMinutes : \E shift \in CurrentShifts(minutes) :
        finding' = [finding EXCEPT ![f] = [code |-> shift.code, day |-> Today, at |-> now, shift |-> shift]]
    BY <1>1 DEF FindShift
  <2> PICK shift \in CurrentShifts(minutes) :
        finding' = [finding EXCEPT ![f] = [code |-> shift.code, day |-> Today, at |-> now, shift |-> shift]]
    OBVIOUS
  <2>1. shift \in ShiftRow /\ IsWithinShift(shift, minutes)
    BY DEF CurrentShifts, Within, ShiftIInv
  <2>2. Covers(shift, Today, now)
    BY <2>1, FoundShiftCovers DEF ShiftIInv
  <2>3. /\ finding'[f].shift = shift /\ finding'[f].day = Today /\ finding'[f].at = now
        /\ \A other \in Filers \ {f} : finding'[other] = finding[other]
        /\ finding' = [other \in Filers |-> finding'[other]]
    BY DEF ShiftIInv
  <2>4. UNCHANGED <<now, shifts, filed>>
    BY <1>1 DEF FindShift
  <2> QED
    BY <2>2, <2>3, <2>4 DEF ShiftIInv, FiledInShift
<1>2. CASE FindNoShift(f)
  BY <1>2 DEF FindNoShift, ShiftIInv, FiledInShift, NoReport
<1>3. CASE FindOccurrence(f)
  <2>1. FiledInShift'
    BY <1>3 DEF FindOccurrence, ShiftIInv, FiledInShift
  <2>2. /\ finding'[f] = Unsettled /\ \A other \in Filers \ {f} : finding'[other] = finding[other]
        /\ finding' = [other \in Filers |-> finding'[other]]
        /\ UNCHANGED <<now, shifts>>
    BY <1>3 DEF FindOccurrence, ShiftIInv
  <2> QED
    BY <2>1, <2>2 DEF ShiftIInv
<1> QED
  BY <1>1, <1>2, <1>3

\* What filings have found, and the last report, are covered by their occurrences.
THEOREM ShiftInvariance == ShiftSpec => []ShiftIInv
<1>1. ShiftInit => ShiftIInv
  BY ShiftAssumption DEF ShiftInit, ShiftIInv, FiledInShift, NoReport, Unsettled
<1>2. ShiftIInv /\ [ShiftNext]_shiftVars => ShiftIInv'
  <2> SUFFICES ASSUME ShiftIInv, [ShiftNext]_shiftVars PROVE ShiftIInv'
    OBVIOUS
  <2>1. CASE Tick
    BY <2>1 DEF Tick, ShiftIInv, FiledInShift
  <2>2. ASSUME NEW code \in ShiftCodes, SeedShift(code) PROVE ShiftIInv'
    <3>1. shifts' \subseteq ShiftRow
      BY <2>2, SeededShifts DEF SeedShift, ShiftIInv
    <3> QED
      BY <2>2, <3>1 DEF SeedShift, ShiftIInv, FiledInShift
  <2>3. CASE UNCHANGED shiftVars
    BY <2>3 DEF shiftVars, ShiftIInv, FiledInShift
  <2> QED
    BY <2>1, <2>2, <2>3, FindingKeeps DEF ShiftNext
<1> QED
  BY <1>1, <1>2, PTL DEF ShiftSpec

\* resolveCurrentShiftOccurrenceId: a report belongs to an occurrence that covers its
\* moment, for any shifts of a day and whatever the seed writes in between.
THEOREM ReportsAreCovered == ShiftSpec => []FiledInShift
<1>1. ShiftIInv => FiledInShift
  BY DEF ShiftIInv
<1> QED
  BY <1>1, ShiftInvariance, PTL

-----------------------------------------------------------------------------
(* PagedLists. *)

\* A record the reader has yet to reach.
Ahead(k, position) == \E i \in DOMAIN list : i > position /\ list[i] = k

\* The type invariant of the list and the reader.
PageTypeOK ==
  /\ list \in Seq(Nat)
  /\ page \in Nat
  /\ items # Unread => items \in Seq(Nat)
  /\ total # Unread => total \in Nat
  /\ seen \in Seq(Nat)
  /\ grown \in BOOLEAN /\ raced \in BOOLEAN

\* Nothing known has slipped behind the reader.
StillToCome ==
  page # AllRead => \A k \in known :
    \/ k \in ToSet(seen)
    \/ items = Unread /\ Ahead(k, (page - 1) * Limit)
    \/ items # Unread /\ (k \in ToSet(items) \/ Ahead(k, page * Limit))

\* A count that makes this page the last leaves nothing behind it.
CountIsRight ==
  page # AllRead /\ total # Unread /\ ~raced =>
    /\ items = Unread => total = Len(list)
    /\ items # Unread /\ total <= page * Limit => known \subseteq ToSet(seen) \cup ToSet(items)

\* While nothing is filed the reader goes through the list from its beginning.
InOrder ==
  ~grown => /\ IsInjective(list)
            /\ Len(seen) <= Len(list) /\ \A i \in 1..Len(seen) : seen[i] = list[i]
            /\ page # AllRead => Len(seen) = Min({(page - 1) * Limit, Len(list)})
            /\ page # AllRead /\ items # Unread => items = PageOf(list)

(***************************************************************************)
(* The inductive invariant: what the reader has not seen is on the page    *)
(* or ahead of it, and the count says when there is nothing ahead.         *)
(***************************************************************************)
PageIInv ==
  /\ PageTypeOK /\ StillToCome /\ CountIsRight /\ InOrder
  /\ page = AllRead => items = Unread /\ (raced \/ known \subseteq ToSet(seen))

\* Min and Max are defined by a choice: what they choose of two integers.
LEMMA MinOfTwo ==
  ASSUME NEW a \in Int, NEW b \in Int
  PROVE  Min({a, b}) = IF a <= b THEN a ELSE b
<1>1. \E x \in {a, b} : \A y \in {a, b} : x <= y
  OBVIOUS
<1>2. Min({a, b}) \in {a, b} /\ \A y \in {a, b} : Min({a, b}) <= y
  BY <1>1, Zenon DEF Min
<1> QED
  BY <1>2

LEMMA MaxOfTwo ==
  ASSUME NEW a \in Int, NEW b \in Int
  PROVE  Max({a, b}) = IF a >= b THEN a ELSE b
<1>1. \E x \in {a, b} : \A y \in {a, b} : x >= y
  OBVIOUS
<1>2. Max({a, b}) \in {a, b} /\ \A y \in {a, b} : Max({a, b}) >= y
  BY <1>1, Zenon DEF Max
<1> QED
  BY <1>2

\* A page is the last when the records that were counted fit on the pages so far.
LEMMA LastPage ==
  ASSUME NEW count \in Nat, NEW p \in Nat \ {0}
  PROVE  /\ TotalPages(count) \in Nat
         /\ p >= TotalPages(count) => count <= p * Limit
<1> PICK limit \in Nat \ {0} : limit = Limit
  BY PageAssumption
<1> PICK pages : pages = (count + limit - 1) \div limit
  OBVIOUS
<1>1. pages \in Nat /\ count + limit - 1 < (pages + 1) * limit
  BY SMTT(30)
<1>2. TotalPages(count) = IF 1 >= pages THEN 1 ELSE pages
  BY <1>1, MaxOfTwo DEF TotalPages
<1>3. ASSUME p >= TotalPages(count) PROVE count <= p * limit
  <2>1. pages <= p
    BY <1>1, <1>2, <1>3
  <2>2. pages * limit <= p * limit
    BY <1>1, <2>1, SMTT(30)
  <2>3. (pages + 1) * limit = pages * limit + limit /\ p * limit \in Nat /\ pages * limit \in Nat
    BY <1>1
  <2> QED
    BY <1>1, <2>2, <2>3
<1> QED
  BY <1>1, <1>2, <1>3

\* A record that is inserted moves others down, never up.
LEMMA InsertMovesDown ==
  ASSUME NEW s \in Seq(Nat), NEW place \in 1 .. Len(s) + 1, NEW new \in Nat
  PROVE  /\ InsertAt(s, place, new) \in Seq(Nat)
         /\ \A i \in DOMAIN s : \E j \in DOMAIN InsertAt(s, place, new) :
              j >= i /\ InsertAt(s, place, new)[j] = s[i]
<1> DEFINE front == SubSeq(s, 1, place - 1)
           back == SubSeq(s, place, Len(s))
           grownList == front \o <<new>> \o back
<1>1. /\ Len(s) \in Nat /\ DOMAIN s = 1..Len(s) /\ \A i \in 1..Len(s) : s[i] \in Nat
  OBVIOUS
<1>2. /\ front \in Seq(Nat) /\ Len(front) = place - 1
      /\ \A i \in 1 .. place - 1 : front[i] = s[i]
  BY <1>1, SubSeqProperties
<1>3. /\ back \in Seq(Nat) /\ Len(back) = Len(s) - place + 1
      /\ \A i \in 1 .. Len(s) - place + 1 : back[i] = s[place + i - 1]
  <2>1. place \in Int /\ Len(s) \in Int /\ \A i \in place .. Len(s) : s[i] \in Nat
    BY <1>1
  <2>2. /\ back \in Seq(Nat)
        /\ Len(back) = IF place <= Len(s) THEN Len(s) - place + 1 ELSE 0
        /\ \A i \in 1 .. Len(s) - place + 1 : back[i] = s[place + i - 1]
    BY <2>1, SubSeqProperties
  <2>3. place <= Len(s) \/ Len(s) - place + 1 = 0
    BY <1>1
  <2> HIDE DEF back
  <2> QED
    BY <1>1, <2>2, <2>3
<1> HIDE DEF front, back
<1>4. /\ front \o <<new>> \in Seq(Nat) /\ Len(front \o <<new>>) = place
      /\ \A i \in 1 .. place - 1 : (front \o <<new>>)[i] = s[i]
  <2>1. <<new>> \in Seq(Nat) /\ Len(<<new>>) = 1
    OBVIOUS
  <2>2. /\ front \o <<new>> \in Seq(Nat)
        /\ Len(front \o <<new>>) = Len(front) + 1
        /\ \A i \in 1 .. Len(front) + 1 :
             (front \o <<new>>)[i] = IF i <= Len(front) THEN front[i] ELSE <<new>>[i - Len(front)]
    BY <1>2, <2>1, ConcatProperties
  <2> HIDE DEF grownList
  <2> QED
    BY <1>2, <2>2
<1>5. /\ grownList \in Seq(Nat) /\ Len(grownList) = Len(s) + 1 /\ DOMAIN grownList = 1 .. Len(s) + 1
      /\ \A i \in 1 .. place - 1 : grownList[i] = s[i]
      /\ \A i \in place .. Len(s) : grownList[i + 1] = s[i]
  <2> DEFINE upTo == front \o <<new>>
  <2>1. upTo \in Seq(Nat) /\ Len(upTo) = place /\ \A i \in 1 .. place - 1 : upTo[i] = s[i]
    BY <1>4
  <2>2. /\ grownList \in Seq(Nat)
        /\ Len(grownList) = Len(upTo) + Len(back)
        /\ \A i \in 1 .. Len(upTo) + Len(back) :
             grownList[i] = IF i <= Len(upTo) THEN upTo[i] ELSE back[i - Len(upTo)]
    <3>1. grownList = upTo \o back
      OBVIOUS
    <3> HIDE DEF upTo, grownList
    <3> QED
      BY <1>3, <2>1, <3>1, ConcatProperties
  <2> HIDE DEF upTo, grownList
  <2>3. Len(grownList) = Len(s) + 1 /\ DOMAIN grownList = 1 .. Len(s) + 1
    BY <1>1, <1>3, <2>1, <2>2
  <2>4. ASSUME NEW i \in 1 .. place - 1 PROVE grownList[i] = s[i]
    BY <1>1, <1>3, <2>1, <2>2, <2>4
  <2>5. ASSUME NEW i \in place .. Len(s) PROVE grownList[i + 1] = s[i]
    <3> PICK j, k : j = i + 1 /\ k = j - Len(upTo)
      OBVIOUS
    <3>1. j \in 1 .. Len(upTo) + Len(back) /\ ~(j <= Len(upTo))
      BY <1>1, <1>3, <2>1, <2>5
    <3>2. k \in 1 .. Len(s) - place + 1 /\ place + k - 1 = i
      BY <1>1, <2>1, <2>5
    <3>3. grownList[j] = back[k]
      BY <2>2, <3>1
    <3>4. back[k] = s[i]
      BY <1>3, <3>2
    <3> QED
      BY <3>3, <3>4
  <2> QED
    BY <2>2, <2>3, <2>4, <2>5
<1>6. InsertAt(s, place, new) = grownList
  BY DEF InsertAt, front, back
<1> HIDE DEF grownList
<1>7. ASSUME NEW i \in 1..Len(s)
      PROVE  \E j \in DOMAIN grownList : j >= i /\ grownList[j] = s[i]
  <2>1. CASE i < place
    <3>1. i \in 1 .. place - 1 /\ i \in 1 .. Len(s) + 1 /\ i >= i
      BY <1>1, <2>1
    <3>2. i \in DOMAIN grownList /\ grownList[i] = s[i]
      BY <1>5, <3>1
    <3> QED
      BY <3>1, <3>2
  <2>2. CASE i >= place
    <3>1. i \in place .. Len(s) /\ i + 1 \in 1 .. Len(s) + 1 /\ i + 1 >= i
      BY <1>1, <2>2
    <3>2. i + 1 \in DOMAIN grownList /\ grownList[i + 1] = s[i]
      BY <1>5, <3>1
    <3> QED
      BY <3>1, <3>2
  <2> QED
    BY <1>1, <2>1, <2>2
<1> QED
  BY <1>1, <1>5, <1>6, <1>7

\* The position a page begins after, and the one it ends at.
LEMMA PagePositions ==
  ASSUME PageTypeOK, page # AllRead
  PROVE  /\ (page - 1) * Limit \in Nat /\ page * Limit \in Nat /\ Len(list) \in Nat
         /\ page * Limit = (page - 1) * Limit + Limit /\ Limit \in Nat /\ Limit > 0
<1>1. page \in Nat /\ page > 0 /\ Limit \in Nat /\ Limit > 0 /\ list \in Seq(Nat)
  BY PageAssumption DEF PageTypeOK, AllRead
<1> PICK before \in Nat : page = before + 1
  <2>1. page - 1 \in Nat /\ page = (page - 1) + 1
    BY <1>1
  <2> QED
    BY <2>1
<1>2. before * Limit \in Nat /\ page * Limit = before * Limit + Limit /\ page - 1 = before
  BY <1>1
<1> QED
  BY <1>1, <1>2

\* A part of a list, by its positions.
LEMMA PartOfList ==
  ASSUME NEW s \in Seq(Nat), NEW from \in Nat, NEW to \in Nat, to <= Len(s)
  PROVE  /\ SubSeq(s, from + 1, to) \in Seq(Nat)
         /\ Len(SubSeq(s, from + 1, to)) = IF to <= from THEN 0 ELSE to - from
         /\ \A i \in 1 .. Len(SubSeq(s, from + 1, to)) : SubSeq(s, from + 1, to)[i] = s[from + i]
         /\ \A i \in from + 1 .. to : s[i] \in ToSet(SubSeq(s, from + 1, to))
<1> DEFINE part == SubSeq(s, from + 1, to)
<1>1. Len(s) \in Nat /\ \A i \in from + 1 .. to : s[i] \in Nat
  OBVIOUS
<1>2. /\ part \in Seq(Nat) /\ Len(part) = IF from + 1 <= to THEN to - (from + 1) + 1 ELSE 0
      /\ \A i \in 1 .. to - (from + 1) + 1 : part[i] = s[from + 1 + i - 1]
  <2>1. from + 1 \in Int /\ to \in Int
    OBVIOUS
  <2> QED
    BY <1>1, <2>1, SubSeqProperties, SMTT(30)
<1> HIDE DEF part
<1>3. /\ Len(part) = IF to <= from THEN 0 ELSE to - from
      /\ DOMAIN part = 1 .. Len(part)
  <2>1. Len(part) = (IF from + 1 <= to THEN to - (from + 1) + 1 ELSE 0) /\ part \in Seq(Nat)
    BY <1>2
  <2> QED
    BY <2>1
<1>4. ASSUME NEW i \in 1 .. Len(part) PROVE part[i] = s[from + i]
  <2>1. i \in 1 .. to - (from + 1) + 1 /\ from + 1 + i - 1 = from + i
    BY <1>3
  <2> QED
    BY <1>2, <2>1
<1>5. ASSUME NEW i \in from + 1 .. to PROVE s[i] \in ToSet(part)
  <2> PICK j : j = i - from
    OBVIOUS
  <2>1. j \in 1 .. Len(part) /\ from + j = i
    BY <1>3
  <2>2. part[j] = s[i]
    BY <1>4, <2>1
  <2>3. j \in DOMAIN part
    BY <1>3, <2>1
  <2> QED
    BY <2>2, <2>3 DEF ToSet
<1> QED
  BY <1>2, <1>3, <1>4, <1>5 DEF part

\* What a page has: the records between its positions, as many as there are.
PageHas(from, to, next) ==
  /\ from = (page - 1) * Limit /\ next = page * Limit /\ from < next
  /\ to = IF next <= Len(list) THEN next ELSE Len(list)
  /\ PageOf(list) \in Seq(Nat)
  /\ Len(PageOf(list)) = IF to <= from THEN 0 ELSE to - from
  /\ \A i \in 1 .. Len(PageOf(list)) : PageOf(list)[i] = list[from + i]
  /\ \A i \in from + 1 .. to : list[i] \in ToSet(PageOf(list))

\* The page of an unfinished read has such positions.
LEMMA PageIsPart ==
  ASSUME PageTypeOK, page # AllRead
  PROVE  \E from, to, next \in Nat : PageHas(from, to, next)
<1>1. PICK from, next \in Nat : from = (page - 1) * Limit /\ next = page * Limit /\ from < next
  BY PagePositions
<1>2. list \in Seq(Nat) /\ Len(list) \in Nat
  BY DEF PageTypeOK
<1>3. PICK to \in Nat : to = (IF next <= Len(list) THEN next ELSE Len(list)) /\ to = Min({next, Len(list)}) /\ to <= Len(list)
  BY <1>2, MinOfTwo
<1>4. PageOf(list) = SubSeq(list, from + 1, to)
  BY <1>1, <1>3 DEF PageOf
<1>5. /\ PageOf(list) \in Seq(Nat)
      /\ Len(PageOf(list)) = IF to <= from THEN 0 ELSE to - from
      /\ \A i \in 1 .. Len(PageOf(list)) : PageOf(list)[i] = list[from + i]
      /\ \A i \in from + 1 .. to : list[i] \in ToSet(PageOf(list))
  <2>1. /\ SubSeq(list, from + 1, to) \in Seq(Nat)
        /\ Len(SubSeq(list, from + 1, to)) = IF to <= from THEN 0 ELSE to - from
        /\ \A i \in 1 .. Len(SubSeq(list, from + 1, to)) : SubSeq(list, from + 1, to)[i] = list[from + i]
        /\ \A i \in from + 1 .. to : list[i] \in ToSet(SubSeq(list, from + 1, to))
    BY <1>2, <1>3, PartOfList
  <2> QED
    BY <2>1, <1>4
<1>6. PageHas(from, to, next)
  BY <1>1, <1>3, <1>5 DEF PageHas
<1> QED
  BY <1>6

-----------------------------------------------------------------------------
(* Every step keeps the invariant. *)

\* A record that is filed keeps the rest ahead of the reader.
LEMMA FileRecordKeeps ==
  ASSUME PageIInv, FileRecord
  PROVE  PageIInv'
<1>1. PageTypeOK /\ StillToCome /\ CountIsRight /\ (page = AllRead => items = Unread /\ (raced \/ known \subseteq ToSet(seen)))
  BY DEF PageIInv
<1>2. PICK place \in 1 .. Len(list) + 1 : list' = InsertAt(list, place, Len(list) + 1)
  BY DEF FileRecord
<1>3. /\ grown' = TRUE /\ raced' = (raced \/ (total # Unread /\ items = Unread))
      /\ UNCHANGED <<page, items, total, known, seen>>
  BY DEF FileRecord
<1>4. /\ list' \in Seq(Nat)
      /\ \A i \in DOMAIN list : \E j \in DOMAIN list' : j >= i /\ list'[j] = list[i]
  BY <1>1, <1>2, InsertMovesDown DEF PageTypeOK
<1>5. ASSUME NEW k, NEW position \in Nat, Ahead(k, position) PROVE Ahead(k, position)'
  BY <1>1, <1>4, <1>5 DEF Ahead, PageTypeOK
<1>6. PageTypeOK'
  BY <1>1, <1>3, <1>4 DEF PageTypeOK
<1>7. StillToCome'
  BY <1>1, <1>3, <1>5, PagePositions DEF StillToCome
<1>8. CountIsRight' /\ InOrder'
  BY <1>1, <1>3 DEF CountIsRight, InOrder
<1> QED
  BY <1>1, <1>3, <1>6, <1>7, <1>8 DEF PageIInv

\* What findMany returns is what was next, with or without the count.
LEMMA ReadItemsKeeps ==
  ASSUME PageIInv, page # AllRead, items = Unread, items' = PageOf(list),
         UNCHANGED total \/ total' = Len(list),
         UNCHANGED <<list, page, known, seen, grown, raced>>
  PROVE  PageIInv'
<1>1. PageTypeOK /\ StillToCome /\ CountIsRight /\ InOrder /\ list \in Seq(Nat) /\ Len(list) \in Nat
  BY DEF PageIInv, PageTypeOK
<1>2. PICK from, to, next \in Nat : PageHas(from, to, next)
  BY <1>1, PageIsPart
<1>3. from = (page - 1) * Limit /\ next = page * Limit /\ to = IF next <= Len(list) THEN next ELSE Len(list)
  BY <1>2 DEF PageHas
<1>4. items' \in Seq(Nat) /\ \A i \in from + 1 .. to : list[i] \in ToSet(items')
  BY <1>2 DEF PageHas
<1>5. PageTypeOK'
  BY <1>1, <1>4 DEF PageTypeOK
<1>6. ASSUME NEW k \in known PROVE k \in ToSet(seen) \/ k \in ToSet(items') \/ Ahead(k, next)
  <2>1. CASE Ahead(k, from)
    <3> PICK i \in DOMAIN list : i > from /\ list[i] = k
      BY <2>1 DEF Ahead
    <3>1. i \in 1 .. Len(list)
      BY <1>1
    <3>2. i \in from + 1 .. to \/ i > next
      BY <1>1, <1>3, <3>1
    <3> QED
      BY <1>4, <3>2 DEF Ahead
  <2> QED
    BY <1>1, <1>3, <2>1 DEF StillToCome
<1>7. StillToCome'
  <2>1. CASE items' = Unread
    BY <1>1, <2>1 DEF StillToCome, Ahead
  <2>2. CASE items' # Unread
    BY <1>3, <1>6, <2>2 DEF StillToCome, Ahead
  <2> QED
    BY <2>1, <2>2
<1>8. CountIsRight'
  <2> SUFFICES ASSUME ~raced, total' # Unread
               PROVE  /\ items' = Unread => total' = Len(list)
                      /\ items' # Unread /\ total' <= page * Limit => known \subseteq ToSet(seen) \cup ToSet(items')
    BY DEF CountIsRight
  <2>1. total' = Len(list)
    BY <1>1 DEF CountIsRight
  <2>2. ASSUME total' <= page * Limit, NEW k \in known PROVE k \in ToSet(seen) \cup ToSet(items')
    <3>1. ~Ahead(k, next)
      BY <1>1, <1>3, <2>1, <2>2 DEF Ahead
    <3> QED
      BY <1>6, <3>1
  <2> QED
    BY <2>1, <2>2
<1>9. InOrder'
  BY <1>1 DEF InOrder, PageOf
<1> QED
  BY <1>5, <1>7, <1>8, <1>9 DEF PageIInv

\* The count tells whether anything is behind this page.
LEMMA ReadTotalKeeps ==
  ASSUME PageIInv, ReadTotal
  PROVE  PageIInv'
<1>1. PageTypeOK /\ StillToCome /\ CountIsRight /\ InOrder /\ list \in Seq(Nat) /\ Len(list) \in Nat
  BY DEF PageIInv, PageTypeOK
<1>2. page # AllRead /\ total' = Len(list) /\ UNCHANGED <<list, page, items, known, seen, grown, raced>>
  BY DEF ReadTotal
<1>3. PageTypeOK' /\ StillToCome' /\ InOrder'
  BY <1>1, <1>2 DEF PageTypeOK, StillToCome, InOrder, Ahead, PageOf
<1>4. ASSUME Len(list) <= page * Limit, NEW k PROVE ~Ahead(k, page * Limit)
  <2> PICK next \in Nat : next = page * Limit
    BY <1>1, <1>2, PagePositions
  <2> QED
    BY <1>1, <1>4 DEF Ahead
<1>5. CountIsRight'
  BY <1>1, <1>2, <1>4 DEF CountIsRight, StillToCome
<1> QED
  BY <1>2, <1>3, <1>5 DEF PageIInv

\* What has been seen, with a page more.
LEMMA SeenTogether ==
  ASSUME NEW s \in Seq(Nat), NEW t \in Seq(Nat)
  PROVE  /\ s \o t \in Seq(Nat) /\ Len(s \o t) = Len(s) + Len(t)
         /\ \A i \in 1 .. Len(s) + Len(t) : (s \o t)[i] = IF i <= Len(s) THEN s[i] ELSE t[i - Len(s)]
         /\ ToSet(s) \cup ToSet(t) \subseteq ToSet(s \o t)
<1> PICK both : both = s \o t
  OBVIOUS
<1>1. /\ both \in Seq(Nat) /\ Len(both) = Len(s) + Len(t)
      /\ \A i \in 1 .. Len(s) + Len(t) : both[i] = IF i <= Len(s) THEN s[i] ELSE t[i - Len(s)]
  BY ConcatProperties
<1>2. Len(s) \in Nat /\ Len(t) \in Nat /\ DOMAIN s = 1 .. Len(s) /\ DOMAIN t = 1 .. Len(t)
      /\ DOMAIN both = 1 .. Len(s) + Len(t)
  BY <1>1
<1>3. ASSUME NEW i \in 1 .. Len(s) PROVE s[i] \in ToSet(both)
  <2>1. i \in 1 .. Len(s) + Len(t) /\ i <= Len(s)
    BY <1>2
  <2>2. both[i] = s[i] /\ i \in DOMAIN both
    BY <1>1, <1>2, <2>1
  <2> QED
    BY <2>2 DEF ToSet
<1>4. ASSUME NEW i \in 1 .. Len(t) PROVE t[i] \in ToSet(both)
  <2> PICK j : j = Len(s) + i
    OBVIOUS
  <2>1. j \in 1 .. Len(s) + Len(t) /\ ~(j <= Len(s)) /\ j - Len(s) = i
    BY <1>2
  <2>2. both[j] = t[i] /\ j \in DOMAIN both
    BY <1>1, <1>2, <2>1
  <2> QED
    BY <2>2 DEF ToSet
<1>5. ToSet(s) \cup ToSet(t) \subseteq ToSet(both)
  <2>1. ToSet(s) = {s[i] : i \in 1 .. Len(s)} /\ ToSet(t) = {t[i] : i \in 1 .. Len(t)}
    BY <1>2 DEF ToSet
  <2> QED
    BY <1>3, <1>4, <2>1
<1> QED
  BY <1>1, <1>5

\* While nothing is filed, a page continues what has been seen.
LEMMA SeenContinues ==
  ASSUME PageTypeOK, InOrder, page # AllRead, items # Unread, ~grown
  PROVE  /\ Len(seen \o items) = Min({page * Limit, Len(list)})
         /\ Len(seen \o items) <= Len(list)
         /\ \A i \in 1 .. Len(seen \o items) : (seen \o items)[i] = list[i]
<1>1. /\ items \in Seq(Nat) /\ seen \in Seq(Nat) /\ list \in Seq(Nat) /\ items = PageOf(list)
      /\ Len(seen) = Min({(page - 1) * Limit, Len(list)}) /\ \A i \in 1 .. Len(seen) : seen[i] = list[i]
      /\ Len(seen) \in Nat /\ Len(list) \in Nat
  <2>1. items \in Seq(Nat) /\ seen \in Seq(Nat) /\ list \in Seq(Nat)
    BY DEF PageTypeOK
  <2>2. /\ items = PageOf(list) /\ Len(seen) = Min({(page - 1) * Limit, Len(list)})
        /\ \A i \in 1 .. Len(seen) : seen[i] = list[i]
    BY Zenon DEF InOrder
  <2>3. Len(seen) \in Nat /\ Len(list) \in Nat
    BY <2>1
  <2> QED
    BY <2>1, <2>2, <2>3
<1>2. PICK from, to, next \in Nat : PageHas(from, to, next)
  BY PageIsPart
<1>3. /\ from = (page - 1) * Limit /\ next = page * Limit /\ from < next
      /\ to = IF next <= Len(list) THEN next ELSE Len(list)
  BY <1>2 DEF PageHas
<1>4. /\ Len(items) = IF to <= from THEN 0 ELSE to - from
      /\ \A i \in 1 .. Len(items) : items[i] = list[from + i]
  BY <1>1, <1>2 DEF PageHas
<1>5. Len(seen) = IF from <= Len(list) THEN from ELSE Len(list)
  <2>1. Min({from, Len(list)}) = IF from <= Len(list) THEN from ELSE Len(list)
    <3>1. from \in Int /\ Len(list) \in Int
      BY <1>1
    <3> QED
      BY <3>1, MinOfTwo
  <2>2. Len(seen) = Min({from, Len(list)})
    BY <1>1, <1>3
  <2> QED
    BY <2>1, <2>2
<1>6. /\ Len(seen \o items) = Len(seen) + Len(items)
      /\ \A i \in 1 .. Len(seen) + Len(items) :
           (seen \o items)[i] = IF i <= Len(seen) THEN seen[i] ELSE items[i - Len(seen)]
  BY <1>1, SeenTogether
<1>7. Len(seen \o items) = to /\ to <= Len(list)
  BY <1>1, <1>3, <1>4, <1>5, <1>6
<1>8. to = Min({page * Limit, Len(list)})
  <2>1. Min({next, Len(list)}) = IF next <= Len(list) THEN next ELSE Len(list)
    <3>1. next \in Int /\ Len(list) \in Int
      BY <1>1
    <3> QED
      BY <3>1, MinOfTwo
  <2> QED
    BY <1>3, <2>1
<1>9. ASSUME NEW i \in 1 .. to PROVE (seen \o items)[i] = list[i]
  <2>1. i \in 1 .. Len(seen) + Len(items)
    BY <1>6, <1>7
  <2>2. CASE i <= Len(seen)
    <3>1. i \in 1 .. Len(seen)
      BY <1>1, <2>2
    <3> QED
      BY <1>1, <1>6, <2>1, <2>2, <3>1
  <2>3. CASE ~(i <= Len(seen))
    <3> PICK j : j = i - Len(seen)
      OBVIOUS
    <3>1. j \in 1 .. Len(items) /\ from + j = i
      <4>1. from < next /\ to = (IF next <= Len(list) THEN next ELSE Len(list)) /\ Len(list) \in Nat
        BY <1>1, <1>3
      <4>2. from <= Len(list) /\ Len(seen) = from
        BY <1>5, <2>3, <4>1
      <4>3. to > from /\ Len(items) = to - from
        BY <1>4, <2>3, <4>1, <4>2
      <4> QED
        BY <2>3, <4>2, <4>3
    <3> QED
      BY <1>4, <1>6, <2>1, <2>3, <3>1
  <2> QED
    BY <2>2, <2>3
<1> QED
  BY <1>7, <1>8, <1>9

\* Turning the page, or stopping, loses nothing that is still ahead.
LEMMA TurnKeeps ==
  ASSUME PageIInv, Turn
  PROVE  PageIInv'
<1>1. PageTypeOK /\ StillToCome /\ CountIsRight /\ InOrder /\ page # AllRead /\ page \in Nat \ {0}
  BY DEF PageIInv, PageTypeOK, Turn, AllRead
<1>2. /\ items # Unread /\ total # Unread /\ seen' = seen \o items
      /\ page' = IF page < TotalPages(total) THEN page + 1 ELSE AllRead
      /\ items' = Unread /\ total' = Unread
      /\ UNCHANGED <<list, known, grown, raced>>
  BY DEF Turn
<1>3. items \in Seq(Nat) /\ seen \in Seq(Nat) /\ total \in Nat
  BY <1>1, <1>2 DEF PageTypeOK
<1>4. seen' \in Seq(Nat) /\ ToSet(seen) \cup ToSet(items) \subseteq ToSet(seen')
  BY <1>2, <1>3, SeenTogether
<1>5. PageTypeOK'
  BY <1>1, <1>2, <1>4 DEF PageTypeOK, AllRead
<1>6. page' # AllRead => page' - 1 = page
  BY <1>1, <1>2 DEF AllRead
<1>7. StillToCome'
  BY <1>1, <1>2, <1>4, <1>6 DEF StillToCome, Ahead
<1>8. CountIsRight'
  BY <1>2 DEF CountIsRight
<1>9. InOrder'
  BY <1>1, <1>2, <1>6, SeenContinues DEF InOrder
<1>10. page' = AllRead => raced' \/ known' \subseteq ToSet(seen')
  <2> SUFFICES ASSUME page' = AllRead, ~raced PROVE known \subseteq ToSet(seen')
    BY <1>2
  <2>1. page >= TotalPages(total)
    BY <1>1, <1>2, <1>3, LastPage DEF AllRead
  <2>2. total <= page * Limit
    BY <1>1, <1>3, <2>1, LastPage
  <2> QED
    BY <1>1, <1>2, <1>4, <2>2 DEF CountIsRight
<1> QED
  BY <1>2, <1>5, <1>7, <1>8, <1>9, <1>10 DEF PageIInv

\* What is still to come is ahead of the reader, at all times.
THEOREM PageInvariance == PageSpec => []PageIInv
<1>1. PageInit => PageIInv
  <2> SUFFICES ASSUME PageInit PROVE PageIInv
    OBVIOUS
  <2>1. PICK n \in 0 .. MaxRecords : list = [i \in 1 .. n |-> n + 1 - i]
    BY DEF PageInit
  <2>2. list \in Seq(Nat) /\ Len(list) = n /\ DOMAIN list = 1 .. n /\ n \in Nat
    BY <2>1, PageAssumption
  <2>3. IsInjective(list)
    BY <2>1, <2>2 DEF IsInjective
  <2>4. page = 1 /\ items = Unread /\ total = Unread /\ known = ToSet(list) /\ seen = <<>>
        /\ grown = FALSE /\ raced = FALSE
    BY DEF PageInit
  <2>5. (page - 1) * Limit = 0
    BY <2>4, PageAssumption
  <2>6. PageTypeOK /\ CountIsRight
    <3>1. seen \in Seq(Nat) /\ page \in Nat
      BY <2>4
    <3> QED
      BY <2>2, <2>4, <3>1 DEF PageTypeOK, CountIsRight
  <2>7. StillToCome
    BY <2>2, <2>4, <2>5 DEF StillToCome, Ahead, ToSet
  <2>8. InOrder
    BY <2>2, <2>3, <2>4, <2>5, MinOfTwo DEF InOrder
  <2> QED
    BY <2>4, <2>6, <2>7, <2>8 DEF PageIInv, AllRead
<1>2. PageIInv /\ [PageNext]_pageVars => PageIInv'
  <2> SUFFICES ASSUME PageIInv, [PageNext]_pageVars PROVE PageIInv'
    OBVIOUS
  <2>1. CASE ReadItems \/ ReadRecords
    BY <2>1, ReadItemsKeeps DEF ReadItems, ReadRecords
  <2>2. CASE UNCHANGED pageVars
    BY <2>2 DEF pageVars, PageIInv, PageTypeOK, StillToCome, CountIsRight, InOrder, Ahead, PageOf
  <2> QED
    BY <2>1, <2>2, FileRecordKeeps, ReadTotalKeeps, TurnKeeps DEF PageNext
<1> QED
  BY <1>1, <1>2, PTL DEF PageSpec

\* buildPaginatedResult and the lists: whoever pages to the end has seen what was there
\* at the beginning, for any page size and any number of records.
THEOREM PagesShowAll == PageSpec => []PagesMissNothing
<1>1. PageIInv => PagesMissNothing
  <2> SUFFICES ASSUME PageIInv, page = AllRead, ~grown PROVE IsInjective(seen)
    BY DEF PagesMissNothing, PageIInv
  <2>1. /\ IsInjective(list) /\ list \in Seq(Nat) /\ seen \in Seq(Nat) /\ Len(seen) <= Len(list)
        /\ \A i \in 1 .. Len(seen) : seen[i] = list[i]
    BY DEF PageIInv, PageTypeOK, InOrder
  <2>2. DOMAIN seen = 1 .. Len(seen) /\ DOMAIN list = 1 .. Len(list) /\ Len(seen) \in Nat /\ Len(list) \in Nat
    BY <2>1
  <2>3. 1 .. Len(seen) \subseteq 1 .. Len(list)
    BY <2>1, <2>2
  <2> QED
    BY <2>1, <2>2, <2>3 DEF IsInjective
<1> QED
  BY <1>1, PageInvariance, PTL

-----------------------------------------------------------------------------
(***************************************************************************)
(* Form templates.  The invariant says of each request what it knows of    *)
(* its template: an update that nothing has overlapped knows the row as it *)
(* is, and what has been found published keeps its date unless it was      *)
(* disturbed.  The version of a row is the last one that was named.        *)
(***************************************************************************)

Row ==
  [status : Statuses, questions : SUBSET Questions, version : Nat,
   published : BOOLEAN, archived : BOOLEAN]

\* The type invariant of the templates, the submissions and the histories.
FormTypeOK ==
  /\ template \in [Templates -> Row \cup {NoTemplate}]
  /\ submissions \subseteq [to : Templates, answers : SUBSET Questions]
  /\ editing = [e \in Editors \cup {Seed} |-> editing[e]]
  /\ named \in [Templates -> SUBSET (Nat \X SUBSET Questions)]
  /\ overlaps \subseteq Editors
  /\ disturbed \subseteq Templates

\* The date of publication is there, and stays while nothing disturbs the template.
Dated(t) == t \in Templates /\ Written(t) /\ (t \notin disturbed => template[t].published)

EditorKnows(e) ==
  /\ editing[e].at = "update" =>
       /\ editing[e].to \in Templates /\ Written(editing[e].to)
       /\ editing[e].status \in {"DRAFT", "PUBLISHED"}
       /\ editing[e].questions \in SUBSET Questions
       /\ editing[e].existing.version \in Nat
       /\ e \notin overlaps =>
            /\ editing[e].existing.version = template[editing[e].to].version
            /\ editing[e].existing.published = template[editing[e].to].published
  /\ editing[e].at = "submit" => Dated(editing[e].to) /\ editing[e].answers \in SUBSET Questions

SeedKnows ==
  /\ editing[Seed].at = "update" => editing[Seed].to \in Templates /\ Written(editing[Seed].to)
  /\ editing[Seed].at = "count" =>
       /\ editing[Seed].to \in Templates
       /\ SeedForm.status = "PUBLISHED" => Dated(editing[Seed].to)

\* Dates and status of one row.
RowTells(t) ==
  Written(t) => /\ template[t].status = "PUBLISHED" => template[t].published
                /\ template[t].archived <=> template[t].status = "ARCHIVED"

\* Versions grow, and each names one list of questions.
VersionsGrow(t) ==
  /\ ~Written(t) => named[t] = {}
  /\ t \notin disturbed =>
       /\ \A a \in named[t] : a[1] <= template[t].version
       /\ \A a, b \in named[t] : a[1] = b[1] => a[2] = b[2]
       /\ Written(t) => <<template[t].version, template[t].questions>> \in named[t]

FormIInv ==
  /\ FormTypeOK
  /\ \A e \in Editors : EditorKnows(e)
  /\ SeedKnows
  /\ \A t \in Templates : RowTells(t) /\ VersionsGrow(t)
  /\ \A s \in submissions : Dated(s.to)

LEMMA FormInitInvariant == FormInit => FormIInv
  BY DEF FormInit, FormIInv, FormTypeOK, EditorKnows, SeedKnows, RowTells, VersionsGrow,
         Written, Done, NoTemplate

LEMMA WrittenRow == FormTypeOK => \A t \in Templates : Written(t) => template[t] \in Row
  BY DEF FormTypeOK, Written

\* A request that goes on or ends, and writes no template.
LEMMA EditKeeps ==
  ASSUME FormIInv, NEW e \in Editors \cup {Seed}, NEW record, Edits(e, record),
         UNCHANGED <<template, named, disturbed>>,
         overlaps' \subseteq Editors, \A other \in Editors \ {e} : other \in overlaps' <=> other \in overlaps,
         e \in Editors => EditorKnows(e)', e = Seed => SeedKnows',
         \A s \in submissions' : s \in [to : Templates, answers : SUBSET Questions] /\ Dated(s.to)
  PROVE  FormIInv'
<1>1. editing'[e] = record /\ \A other \in Editors \cup {Seed} : other # e => editing'[other] = editing[other]
  BY DEF FormIInv, FormTypeOK, Edits
<1>2. FormTypeOK'
  BY DEF FormIInv, FormTypeOK, Edits
<1>3. \A other \in Editors : EditorKnows(other)'
  BY <1>1 DEF FormIInv, EditorKnows, Dated, Written
<1>4. SeedKnows'
  BY <1>1, FormAssumption DEF FormIInv, SeedKnows, Dated, Written
<1> QED
  BY <1>2, <1>3, <1>4 DEF FormIInv, RowTells, VersionsGrow, Dated, Written

LEMMA ReadForUpdateKeeps ==
  ASSUME FormIInv, NEW e \in Editors, ReadForUpdate(e)
  PROVE  FormIInv'
<1> PICK t \in Templates, asked \in Statuses, questions \in SUBSET Questions :
      /\ Written(t)
      /\ Edits(e, [at |-> "update", to |-> t, existing |-> Existing(t),
                   status |-> Normalized(asked), questions |-> questions])
  BY DEF ReadForUpdate
<1> DEFINE record == [at |-> "update", to |-> t, existing |-> Existing(t),
                      status |-> Normalized(asked), questions |-> questions]
<1>1. UNCHANGED <<template, submissions, named, overlaps, disturbed>>
  BY DEF ReadForUpdate
<1>2. /\ record.at = "update" /\ record.to = t
      /\ record.status \in {"DRAFT", "PUBLISHED"} /\ record.questions = questions
      /\ record.existing = Existing(t)
  BY DEF Normalized
<1>3. Existing(t).version = template[t].version /\ Existing(t).published = template[t].published
  BY DEF Existing
<1>4. template[t].version \in Nat
  BY WrittenRow DEF FormIInv, Row
<1>5. Edits(e, record)
  OBVIOUS
<1> HIDE DEF record
<1>6. editing'[e] = record
  BY <1>5 DEF Edits, FormIInv, FormTypeOK
<1>7. EditorKnows(e)'
  BY <1>1, <1>2, <1>3, <1>4, <1>6 DEF EditorKnows, Written
<1>8. overlaps' \subseteq Editors /\ \A s \in submissions' : s \in [to : Templates, answers : SUBSET Questions] /\ Dated(s.to)
  BY <1>1 DEF FormIInv, FormTypeOK
<1> QED
  BY <1>1, <1>5, <1>7, <1>8, EditKeeps, FormAssumption DEF Seed

LEMMA ReadForSubmissionKeeps ==
  ASSUME FormIInv, NEW e \in Editors, ReadForSubmission(e)
  PROVE  FormIInv'
<1> PICK t \in Templates, answers \in SUBSET Questions :
      /\ IsPublished(t)
      /\ Edits(e, [at |-> "submit", to |-> t, answers |-> answers])
  BY DEF ReadForSubmission
<1>1. UNCHANGED <<template, submissions, named, overlaps, disturbed>>
  BY DEF ReadForSubmission
<1>2. editing'[e] = [at |-> "submit", to |-> t, answers |-> answers]
  BY DEF Edits, FormIInv, FormTypeOK
<1>3. Dated(t)
  BY DEF Dated, IsPublished, FormIInv, RowTells
<1>4. EditorKnows(e)'
  BY <1>1, <1>2, <1>3 DEF EditorKnows, Dated, Written
<1>5. overlaps' \subseteq Editors /\ \A s \in submissions' : s \in [to : Templates, answers : SUBSET Questions] /\ Dated(s.to)
  BY <1>1 DEF FormIInv, FormTypeOK
<1> QED
  BY <1>1, <1>4, <1>5, EditKeeps, FormAssumption DEF Seed

LEMMA WriteSubmissionKeeps ==
  ASSUME FormIInv, NEW e \in Editors, WriteSubmission(e)
  PROVE  FormIInv'
<1>1. Edits(e, Done) /\ UNCHANGED <<template, named, overlaps, disturbed>>
  BY DEF WriteSubmission
<1>2. editing'[e] = Done
  BY <1>1 DEF Edits, FormIInv, FormTypeOK
<1>3. EditorKnows(e)'
  BY <1>2 DEF EditorKnows, Done
<1>4. ASSUME NEW s \in submissions' PROVE s \in [to : Templates, answers : SUBSET Questions] /\ Dated(s.to)
  <2>1. CASE s \in submissions
    BY <2>1 DEF FormIInv, FormTypeOK
  <2>2. CASE s = [to |-> editing[e].to, answers |-> editing[e].answers]
    BY <2>2 DEF WriteSubmission, FormIInv, EditorKnows, Dated
  <2> QED
    BY <2>1, <2>2 DEF WriteSubmission
<1>5. overlaps' \subseteq Editors
  BY <1>1 DEF FormIInv, FormTypeOK
<1> QED
  BY <1>1, <1>3, <1>4, <1>5, EditKeeps, FormAssumption DEF Seed

LEMMA DropKeeps ==
  ASSUME FormIInv, NEW e \in Editors \cup {Seed}, Drop(e)
  PROVE  FormIInv'
<1>1. Edits(e, Done) /\ UNCHANGED <<template, submissions, named, disturbed>> /\ overlaps' = overlaps \ {e}
  BY DEF Drop
<1>2. editing'[e] = Done
  BY <1>1 DEF Edits, FormIInv, FormTypeOK
<1>3. (e \in Editors => EditorKnows(e)') /\ (e = Seed => SeedKnows')
  BY <1>2 DEF EditorKnows, SeedKnows, Done
<1>4. \A s \in submissions' : s \in [to : Templates, answers : SUBSET Questions] /\ Dated(s.to)
  BY <1>1 DEF FormIInv, FormTypeOK
<1>5. overlaps' \subseteq Editors /\ \A other \in Editors \ {e} : other \in overlaps' <=> other \in overlaps
  BY <1>1 DEF FormIInv, FormTypeOK
<1> QED
  BY <1>1, <1>3, <1>4, <1>5, EditKeeps

LEMMA SeedFindsKeeps ==
  ASSUME FormIInv, SeedFinds
  PROVE  FormIInv'
<1> PICK t \in Templates : Edits(Seed, [at |-> IF Written(t) THEN "update" ELSE "create", to |-> t])
  BY DEF SeedFinds
<1>1. UNCHANGED <<template, submissions, named, overlaps, disturbed>>
  BY DEF SeedFinds
<1>2. editing'[Seed] = [at |-> IF Written(t) THEN "update" ELSE "create", to |-> t]
  BY DEF Edits, FormIInv, FormTypeOK
<1>3. SeedKnows'
  BY <1>1, <1>2 DEF SeedKnows, Written
<1>4. overlaps' \subseteq Editors /\ \A s \in submissions' : s \in [to : Templates, answers : SUBSET Questions] /\ Dated(s.to)
  BY <1>1 DEF FormIInv, FormTypeOK
<1> QED
  BY <1>1, <1>3, <1>4, EditKeeps, FormAssumption DEF Seed

LEMMA SeedSubmitsKeeps ==
  ASSUME FormIInv, SeedSubmits
  PROVE  FormIInv'
<1>1. Edits(Seed, Done) /\ UNCHANGED <<template, named, overlaps, disturbed>> /\ editing[Seed].at = "count"
  BY DEF SeedSubmits
<1>2. editing'[Seed] = Done
  BY <1>1 DEF Edits, FormIInv, FormTypeOK
<1>3. SeedKnows'
  BY <1>2 DEF SeedKnows, Done
<1>4. ASSUME NEW s \in submissions' PROVE s \in [to : Templates, answers : SUBSET Questions] /\ Dated(s.to)
  <2>1. CASE s \in submissions
    BY <2>1 DEF FormIInv, FormTypeOK
  <2>2. CASE s = [to |-> editing[Seed].to, answers |-> SeedForm.questions] /\ SeedForm.status = "PUBLISHED"
    BY <1>1, <2>2, FormAssumption DEF FormIInv, SeedKnows, Dated
  <2> QED
    BY <2>1, <2>2 DEF SeedSubmits
<1>5. overlaps' \subseteq Editors
  BY <1>1 DEF FormIInv, FormTypeOK
<1> QED
  BY <1>1, <1>3, <1>4, <1>5, EditKeeps, FormAssumption DEF Seed

\* A new template has nothing that refers to it.
LEMMA InsertKeeps ==
  ASSUME FormIInv, NEW t \in Templates, NEW status \in {"DRAFT", "PUBLISHED"},
         NEW questions \in SUBSET Questions, InsertForm(t, New(status, questions)),
         UNCHANGED <<submissions, overlaps, disturbed>>,
         \A e \in Editors : editing'[e] = editing[e],
         editing' = [e \in Editors \cup {Seed} |-> editing'[e]],
         SeedForm.status = "PUBLISHED" => status = "PUBLISHED" \/ editing'[Seed] = editing[Seed],
         editing'[Seed] = editing[Seed] \/ editing'[Seed] = [at |-> "count", to |-> t]
  PROVE  FormIInv'
<1> DEFINE entry == New(status, questions)
<1>1. /\ entry \in Row /\ entry.version = 1 /\ entry.questions = questions
      /\ entry.status = status /\ (entry.published <=> status = "PUBLISHED") /\ ~entry.archived
      /\ entry # NoTemplate
  BY DEF New, Row, Statuses, NoTemplate
<1>2. /\ ~Written(t)
      /\ template' = [template EXCEPT ![t] = entry]
      /\ named' = [named EXCEPT ![t] = {<<1, questions>>}]
  BY <1>1 DEF InsertForm
<1> HIDE DEF entry
<1>3. /\ template'[t] = entry /\ \A u \in Templates \ {t} : template'[u] = template[u]
      /\ named'[t] = {<<1, questions>>} /\ \A u \in Templates \ {t} : named'[u] = named[u]
  BY <1>2 DEF FormIInv, FormTypeOK
<1>4. Written(t)' /\ \A u \in Templates \ {t} : Written(u)' <=> Written(u)
  BY <1>1, <1>3 DEF Written
<1>5. FormTypeOK'
  BY <1>1, <1>2 DEF FormIInv, FormTypeOK
<1>6. \A e \in Editors : EditorKnows(e)'
  BY <1>2, <1>3, <1>4 DEF FormIInv, EditorKnows, Dated
<1>7. SeedKnows'
  BY <1>1, <1>2, <1>3, <1>4 DEF FormIInv, SeedKnows, Dated
<1>8. \A u \in Templates : RowTells(u)'
  BY <1>1, <1>3, <1>4 DEF FormIInv, RowTells
<1>9. VersionsGrow(t)'
  BY <1>1, <1>3, <1>4 DEF VersionsGrow
<1>10. \A u \in Templates \ {t} : VersionsGrow(u)'
  BY <1>3, <1>4 DEF FormIInv, VersionsGrow
<1>11. \A s \in submissions' : Dated(s.to)'
  BY <1>2, <1>3, <1>4 DEF FormIInv, Dated
<1> QED
  BY <1>5, <1>6, <1>7, <1>8, <1>9, <1>10, <1>11 DEF FormIInv

\* A template is written: by a request or the seed that ends, or by an archive.  What
\* is named keeps its questions, under a new version when they are others, unless the
\* template is disturbed.
LEMMA RewriteKeeps ==
  ASSUME FormIInv, NEW t \in Templates, Written(t), NEW entry \in Row,
         template' = [template EXCEPT ![t] = entry],
         entry.status = "PUBLISHED" => entry.published,
         entry.archived <=> entry.status = "ARCHIVED",
         named' \in [Templates -> SUBSET (Nat \X SUBSET Questions)],
         \A u \in Templates \ {t} : named'[u] = named[u],
         disturbed \subseteq disturbed', disturbed' \subseteq Templates,
         t \notin disturbed' =>
           /\ template[t].published => entry.published
           /\ \/ /\ entry.version = template[t].version /\ entry.questions = template[t].questions
                 /\ named'[t] = named[t]
              \/ /\ entry.version = template[t].version + 1
                 /\ named'[t] = named[t] \cup {<<entry.version, entry.questions>>},
         overlaps' \subseteq Editors,
         \A e \in Editors :
           \/ editing'[e] = Done
           \/ editing'[e] = editing[e] /\ (e \in overlaps \cup Readers(t) => e \in overlaps'),
         editing' = [e \in Editors \cup {Seed} |-> editing'[e]],
         \/ editing'[Seed] = editing[Seed]
         \/ /\ editing'[Seed] = [at |-> "count", to |-> t]
            /\ SeedForm.status = "PUBLISHED" => entry.published,
         UNCHANGED submissions
  PROVE  FormIInv'
<1>1. /\ template'[t] = entry /\ \A u \in Templates \ {t} : template'[u] = template[u]
      /\ entry # NoTemplate
  BY DEF FormIInv, FormTypeOK, Row, NoTemplate, Statuses
<1>2. \A u \in Templates : Written(u)' <=> Written(u)
  BY <1>1 DEF Written
<1>3. FormTypeOK'
  BY DEF FormIInv, FormTypeOK
<1>4. \A u : Dated(u) => Dated(u)'
  BY <1>1, <1>2 DEF Dated
<1>5. ASSUME NEW e \in Editors PROVE EditorKnows(e)'
  <2>1. CASE editing'[e] = Done
    BY <2>1 DEF EditorKnows, Done
  <2>2. CASE editing'[e] = editing[e] /\ (e \in overlaps \cup Readers(t) => e \in overlaps')
    <3>1. editing[e].at = "update" /\ editing[e].to = t => e \in overlaps'
      BY <2>2 DEF Readers
    <3>2. editing[e].at = "update" => EditorKnows(e)'
      BY <1>1, <1>2, <2>2, <3>1 DEF FormIInv, EditorKnows
    <3>3. editing[e].at = "submit" => EditorKnows(e)'
      BY <1>4, <2>2 DEF FormIInv, EditorKnows
    <3> QED
      BY <2>2, <3>2, <3>3 DEF EditorKnows
  <2> QED
    BY <2>1, <2>2
<1>6. SeedKnows'
  BY <1>1, <1>2, <1>4 DEF FormIInv, SeedKnows, Dated
<1>7. \A u \in Templates : RowTells(u)'
  BY <1>1, <1>2 DEF FormIInv, RowTells
<1>8. VersionsGrow(t)'
  <2> SUFFICES ASSUME t \notin disturbed'
               PROVE  /\ \A a \in named'[t] : a[1] <= entry.version
                      /\ \A a, b \in named'[t] : a[1] = b[1] => a[2] = b[2]
                      /\ <<entry.version, entry.questions>> \in named'[t]
    BY <1>1, <1>2 DEF VersionsGrow
  <2>1. template[t].version \in Nat /\ entry.version \in Nat
    BY WrittenRow DEF FormIInv, Row
  <2>2. /\ \A a \in named[t] : a[1] <= template[t].version
        /\ \A a, b \in named[t] : a[1] = b[1] => a[2] = b[2]
        /\ <<template[t].version, template[t].questions>> \in named[t]
    BY DEF FormIInv, VersionsGrow
  <2>3. named[t] \subseteq Nat \X SUBSET Questions
    BY DEF FormIInv, FormTypeOK
  <2>4. \A a \in named[t] : a[1] \in Nat
    BY <2>3
  <2>5. CASE named'[t] = named[t] /\ entry.version = template[t].version /\ entry.questions = template[t].questions
    BY <2>2, <2>5
  <2>6. CASE entry.version = template[t].version + 1 /\ named'[t] = named[t] \cup {<<entry.version, entry.questions>>}
    BY <2>1, <2>2, <2>4, <2>6
  <2> QED
    BY <2>5, <2>6
<1>9. \A u \in Templates \ {t} : VersionsGrow(u)'
  BY <1>1, <1>2, SMTT(30) DEF FormIInv, VersionsGrow
<1>10. \A s \in submissions' : Dated(s.to)'
  BY <1>4 DEF FormIInv
<1> QED
  BY <1>3, <1>5, <1>6, <1>7, <1>8, <1>9, <1>10 DEF FormIInv

LEMMA WriteUpdateKeeps ==
  ASSUME FormIInv, NEW e \in Editors, WriteUpdate(e)
  PROVE  FormIInv'
<1> PICK t \in Templates : t = editing[e].to
  BY DEF WriteUpdate, FormIInv, EditorKnows
<1> PICK published : published = (ShouldSetPublishedAt(e) \/ editing[e].existing.published)
  OBVIOUS
<1> PICK entry : entry = [status |-> editing[e].status, questions |-> editing[e].questions,
                      version |-> NextVersion(e), published |-> published, archived |-> FALSE]
  OBVIOUS
<1>0. EditorKnows(e) /\ FormTypeOK /\ editing[e].at = "update"
  BY DEF FormIInv, WriteUpdate
<1>1. published \in BOOLEAN
  OBVIOUS
<1>2. editing[e].existing.version + 1 \in Nat
  BY <1>0 DEF EditorKnows
<1>3. entry \in Row
  BY <1>0, <1>1, <1>2 DEF EditorKnows, Row, Statuses, NextVersion
<1>4. /\ Written(t)
      /\ template' = [template EXCEPT ![t] = entry]
      /\ named' = [named EXCEPT ![t] = named[t] \cup {<<entry.version, entry.questions>>}]
      /\ overlaps' = (overlaps \cup Readers(t)) \ {e}
      /\ disturbed' = disturbed \cup {u \in {t} : e \in overlaps}
      /\ editing' = [editing EXCEPT ![e] = Done]
      /\ UNCHANGED submissions
  BY <1>0 DEF WriteUpdate, Edits, EditorKnows
<1>5. entry.status = "PUBLISHED" => entry.published
  BY DEF ShouldSetPublishedAt
<1>6. entry.status # "ARCHIVED" /\ ~entry.archived
  BY <1>0 DEF EditorKnows
<1>7. ASSUME t \notin disturbed'
      PROVE  /\ template[t].published => entry.published
             /\ entry.version = template[t].version + 1
  BY <1>0, <1>4, <1>7 DEF EditorKnows, NextVersion
<1>8. /\ named' \in [Templates -> SUBSET (Nat \X SUBSET Questions)]
      /\ named'[t] = named[t] \cup {<<entry.version, entry.questions>>}
      /\ \A u \in Templates \ {t} : named'[u] = named[u]
  BY <1>0, <1>3, <1>4 DEF FormTypeOK, Row
<1>9. /\ overlaps' \subseteq Editors
      /\ disturbed \subseteq disturbed' /\ disturbed' \subseteq Templates
  BY <1>0, <1>4 DEF FormTypeOK, Readers
<1>10. /\ editing' = [other \in Editors \cup {Seed} |-> editing'[other]]
       /\ editing'[Seed] = editing[Seed]
       /\ \A other \in Editors : other # e => editing'[other] = editing[other]
       /\ editing'[e] = Done
  BY <1>0, <1>4, FormAssumption DEF FormTypeOK, Seed
<1>11. \A other \in Editors :
         \/ editing'[other] = Done
         \/ editing'[other] = editing[other] /\ (other \in overlaps \cup Readers(t) => other \in overlaps')
  BY <1>4, <1>10
<1>12. t \notin disturbed' =>
         /\ template[t].published => entry.published
         /\ \/ /\ entry.version = template[t].version /\ entry.questions = template[t].questions
               /\ named'[t] = named[t]
            \/ /\ entry.version = template[t].version + 1
               /\ named'[t] = named[t] \cup {<<entry.version, entry.questions>>}
  BY <1>7, <1>8
<1>13. template' = [template EXCEPT ![t] = entry] /\ Written(t) /\ UNCHANGED submissions
       /\ (entry.archived <=> entry.status = "ARCHIVED")
  BY <1>4, <1>6
<1>14. /\ named' \in [Templates -> SUBSET (Nat \X SUBSET Questions)]
       /\ \A u \in Templates \ {t} : named'[u] = named[u]
  BY <1>8
<1> QED
  BY <1>3, <1>5, <1>9, <1>10, <1>11, <1>12, <1>13, <1>14, RewriteKeeps

LEMMA SeedUpdatesKeeps ==
  ASSUME FormIInv, SeedUpdates
  PROVE  FormIInv'
<1> PICK t \in Templates : t = editing[Seed].to /\ Written(t)
  BY DEF SeedUpdates, FormIInv, SeedKnows
<1> PICK entry : entry = [New(SeedForm.status, SeedForm.questions) EXCEPT !.version = template[t].version]
  OBVIOUS
<1>0. FormTypeOK /\ template[t] \in Row
  BY WrittenRow DEF FormIInv
<1>1. /\ entry \in Row /\ entry.status = SeedForm.status /\ ~entry.archived
      /\ entry.published <=> SeedForm.status = "PUBLISHED"
  BY <1>0, FormAssumption DEF New, Row, Statuses
<1>2. /\ template' = [template EXCEPT ![t] = entry]
      /\ overlaps' = overlaps \cup Readers(t)
      /\ disturbed' = disturbed \cup {t}
      /\ editing' = [editing EXCEPT ![Seed] = [at |-> "count", to |-> t]]
      /\ UNCHANGED <<submissions, named>>
  BY DEF SeedUpdates, Edits
<1>3. overlaps' \subseteq Editors /\ disturbed' \subseteq Templates
      /\ named' \in [Templates -> SUBSET (Nat \X SUBSET Questions)]
  BY <1>0, <1>2 DEF FormTypeOK, Readers
<1>4. /\ editing' = [other \in Editors \cup {Seed} |-> editing'[other]]
      /\ editing'[Seed] = [at |-> "count", to |-> t]
      /\ \A other \in Editors : editing'[other] = editing[other]
  BY <1>0, <1>2, FormAssumption DEF FormTypeOK, Seed
<1>5. entry.status # "ARCHIVED" /\ t \in disturbed' /\ disturbed \subseteq disturbed'
      /\ \A e \in overlaps \cup Readers(t) : e \in overlaps'
  BY <1>1, <1>2, FormAssumption
<1> QED
  BY <1>1, <1>2, <1>3, <1>4, <1>5, RewriteKeeps

LEMMA ArchiveKeeps ==
  ASSUME FormIInv, ArchiveTemplate
  PROVE  FormIInv'
<1> PICK t \in Templates :
      /\ Written(t)
      /\ template' = [template EXCEPT ![t].status = "ARCHIVED", ![t].archived = TRUE]
      /\ overlaps' = overlaps \cup Readers(t)
  BY DEF ArchiveTemplate
<1> PICK entry : entry = [template[t] EXCEPT !.status = "ARCHIVED", !.archived = TRUE]
  OBVIOUS
<1>0. FormTypeOK /\ template[t] \in Row /\ UNCHANGED <<submissions, editing, named, disturbed>>
  BY WrittenRow DEF FormIInv, ArchiveTemplate
<1>1. /\ entry \in Row /\ entry.status = "ARCHIVED" /\ entry.archived
      /\ entry.published = template[t].published /\ entry.version = template[t].version
      /\ entry.questions = template[t].questions
  BY <1>0 DEF Row, Statuses
<1>2. template' = [template EXCEPT ![t] = entry]
  BY <1>0 DEF FormTypeOK
<1>3. overlaps' \subseteq Editors /\ disturbed' \subseteq Templates
      /\ named' \in [Templates -> SUBSET (Nat \X SUBSET Questions)]
      /\ editing' = [other \in Editors \cup {Seed} |-> editing'[other]]
  BY <1>0 DEF FormTypeOK, Readers
<1> QED
  BY <1>0, <1>1, <1>2, <1>3, RewriteKeeps

\* What requests know of templates, their dates and their versions, at all times.
THEOREM FormInvariance == FormSpec => []FormIInv
<1>1. FormIInv /\ [FormNext]_formVars => FormIInv'
  <2> SUFFICES ASSUME FormIInv, [FormNext]_formVars PROVE FormIInv'
    OBVIOUS
  <2>1. CASE UNCHANGED formVars
    BY <2>1 DEF formVars, FormIInv, FormTypeOK, EditorKnows, SeedKnows, RowTells, VersionsGrow,
                Dated, Written
  <2>2. ASSUME NEW e \in Editors, EditorStep(e) PROVE FormIInv'
    BY <2>2, ReadForUpdateKeeps, WriteUpdateKeeps, ReadForSubmissionKeeps, WriteSubmissionKeeps,
       DropKeeps DEF EditorStep
  <2>3. CASE CreateTemplate
    <3> PICK t \in Templates, asked \in Statuses, questions \in SUBSET Questions :
          InsertForm(t, New(Normalized(asked), questions))
      BY <2>3 DEF CreateTemplate
    <3>1. Normalized(asked) \in {"DRAFT", "PUBLISHED"}
      BY DEF Normalized
    <3>2. UNCHANGED <<submissions, editing, overlaps, disturbed>>
          /\ editing' = [e \in Editors \cup {Seed} |-> editing'[e]]
      BY <2>3 DEF CreateTemplate, FormIInv, FormTypeOK
    <3> QED
      BY <3>1, <3>2, InsertKeeps
  <2>4. CASE SeedCreates
    <3> PICK t \in Templates :
          /\ InsertForm(t, New(SeedForm.status, SeedForm.questions))
          /\ Edits(Seed, [at |-> "count", to |-> t])
      BY <2>4 DEF SeedCreates
    <3>1. /\ editing'[Seed] = [at |-> "count", to |-> t]
          /\ \A e \in Editors : editing'[e] = editing[e]
          /\ editing' = [e \in Editors \cup {Seed} |-> editing'[e]]
      BY FormAssumption DEF Edits, FormIInv, FormTypeOK, Seed
    <3>2. UNCHANGED <<submissions, overlaps, disturbed>>
      BY <2>4 DEF SeedCreates
    <3> QED
      BY <3>1, <3>2, InsertKeeps, FormAssumption
  <2> QED
    BY <2>1, <2>2, <2>3, <2>4, ArchiveKeeps, DropKeeps, SeedFindsKeeps, SeedUpdatesKeeps,
       SeedSubmitsKeeps DEF FormNext
<1> QED
  BY <1>1, FormInitInvariant, PTL DEF FormSpec

\* updateTemplate, archiveTemplate and the seed: whoever wrote a template last, its dates
\* agree with its status, and a form that has been answered keeps its date.
THEOREM DatesAlwaysTell == FormSpec => []DatesTell
<1>1. FormIInv => DatesTell
  BY DEF FormIInv, DatesTell, RowTells, Dated, IsListed
<1> QED
  BY <1>1, FormInvariance, PTL

\* updateTemplate: a version of a template names one list of questions, in whatever order
\* requests read and write, unless two updates overlapped or the seed wrote it.
THEOREM VersionsNameQuestions == FormSpec => []VersionNamesQuestions
<1>1. FormIInv => VersionNamesQuestions
  <2> SUFFICES ASSUME FormIInv, NEW t \in Templates \ disturbed,
                      NEW a \in named[t] \cup {<<template[t].version, template[t].questions>> :
                                                 u \in {v \in {t} : Written(v)}},
                      NEW b \in named[t] \cup {<<template[t].version, template[t].questions>> :
                                                 u \in {v \in {t} : Written(v)}},
                      a[1] = b[1]
               PROVE  a[2] = b[2]
    BY DEF VersionNamesQuestions
  <2>1. VersionsGrow(t)
    BY DEF FormIInv
  <2>2. a \in named[t] /\ b \in named[t]
    BY <2>1 DEF VersionsGrow
  <2> QED
    BY <2>1, <2>2 DEF VersionsGrow
<1> QED
  BY <1>1, FormInvariance, PTL
=============================================================================
