---------------------------- MODULE ShiftContext ----------------------------
(***************************************************************************)
(* The shift a report belongs to, at one station: shift-context.service.ts *)
(* finds the shift of the moment by the station's clock and then the       *)
(* occurrence of that shift on the calendar day.  Only the seed writes     *)
(* shifts and occurrences.                                                 *)
(*                                                                         *)
(* Time is the station's, counted from the midnight of day 0; a report     *)
(* whose form names an occurrence is filed under that one, whatever it is. *)
(***************************************************************************)
EXTENDS Integers, FiniteSets

CONSTANTS Day,         \* minutes of a day, 1440 in the code
          Hour,        \* minutes of an hour
          MaxDay,      \* bound
          OldShifts,   \* the tables of shifts that may be there before the seed
          ServerDays,  \* the server's date less the station's, some of -1..1
          Filers,
          NoOccurrence

ShiftCodes == {"MORNING", "EVENING", "NIGHT"}

ShiftRow == [code : ShiftCodes, start : 0..Day, end : 0..Day, active : BOOLEAN]

ASSUME ShiftAssumption ==
  /\ {Day, Hour} \subseteq Nat \ {0} /\ Day % 3 = 0 /\ MaxDay \in Nat
  /\ OldShifts \subseteq SUBSET ShiftRow
  /\ ServerDays \subseteq -1..1

VARIABLES now, shifts, occurrences,
          finding,  \* the shift and day each filing has found
          filed     \* the report that was filed last

shiftVars == <<now, shifts, occurrences, finding, filed>>

Unsettled == [code |-> NoOccurrence]

Today == now \div Day

-----------------------------------------------------------------------------
(* Shifts *)

\* The seed gives each shift a third of the day.
Seeded(code) ==
  LET index == CASE code = "MORNING" -> 0 [] code = "EVENING" -> 1 [] OTHER -> 2
  IN  [code |-> code, start |-> index * (Day \div 3), end |-> (index + 1) * (Day \div 3), active |-> TRUE]

SeedShift(code) ==
  /\ shifts' = {s \in shifts : s.code # code} \cup {Seeded(code)}
  /\ \E offset \in ServerDays : occurrences' = occurrences \cup {<<code, Today + offset>>}
  /\ UNCHANGED <<now, finding, filed>>

\* Mutant: a shift has its last minute in common with the next.
IsWithinShiftInclusive(shift, minutes) ==
  IF shift.start = shift.end THEN TRUE
  ELSE IF shift.start < shift.end THEN minutes >= shift.start /\ minutes <= shift.end
  ELSE minutes >= shift.start \/ minutes <= shift.end

IsWithinShift(shift, minutes) ==
  IF shift.start = shift.end THEN TRUE
  ELSE IF shift.start < shift.end THEN minutes >= shift.start /\ minutes < shift.end
  ELSE minutes >= shift.start \/ minutes < shift.end

\* hour12: false: some runtimes write the hour after midnight as 24.
LocalMinutes ==
  LET minutes == now % Day IN
  IF minutes < Hour THEN {minutes, minutes + Day} ELSE {minutes}

Within(minutes) == {s \in shifts : s.active /\ IsWithinShift(s, minutes)}

\* Of several shifts one that starts first.
CurrentShifts(minutes) == {s \in Within(minutes) : \A t \in Within(minutes) : s.start <= t.start}

-----------------------------------------------------------------------------
(* Filing a report *)

NoReport == [occurrence |-> NoOccurrence]

ShiftInit ==
  /\ now = 0
  /\ shifts \in OldShifts
  /\ \E days \in {{}, 0..MaxDay} : occurrences = {s.code : s \in shifts} \X days
  /\ finding = [f \in Filers |-> Unsettled]
  /\ filed = NoReport

Tick ==
  /\ now + 1 < (MaxDay + 1) * Day
  /\ now' = now + 1
  /\ UNCHANGED <<shifts, occurrences, finding, filed>>

FindShift(f) ==
  /\ finding[f] = Unsettled
  /\ \E minutes \in LocalMinutes : \E shift \in CurrentShifts(minutes) :
       finding' = [finding EXCEPT ![f] = [code |-> shift.code, day |-> Today, at |-> now, shift |-> shift]]
  /\ UNCHANGED <<now, shifts, occurrences, filed>>

\* No station, no shift, or none at the moment.
FindNoShift(f) ==
  /\ finding[f] = Unsettled
  /\ \E minutes \in LocalMinutes : Within(minutes) = {}
  /\ filed' = NoReport
  /\ UNCHANGED <<now, shifts, occurrences, finding>>

FindOccurrence(f) ==
  LET key == <<finding[f].code, finding[f].day>> IN
  /\ finding[f] # Unsettled
  /\ filed' = [occurrence |-> IF key \in occurrences THEN key ELSE NoOccurrence,
               at |-> finding[f].at, shift |-> finding[f].shift]
  /\ finding' = [finding EXCEPT ![f] = Unsettled]
  /\ UNCHANGED <<now, shifts, occurrences>>

ShiftNext ==
  \/ Tick
  \/ \E code \in ShiftCodes : SeedShift(code)
  \/ \E f \in Filers : FindShift(f) \/ FindNoShift(f) \/ FindOccurrence(f)

ShiftSpec == ShiftInit /\ [][ShiftNext]_shiftVars

-----------------------------------------------------------------------------
(* Properties *)

\* The occurrence of a shift on a day lasts at the moment; after the midnight of an
\* overnight shift it is the occurrence that begins the next evening, and where the hour
\* after midnight is 24 it may be over as well.
Covers(shift, day, moment) ==
  LET begin == day * Day + shift.start
      length == IF shift.end > shift.start THEN shift.end - shift.start ELSE shift.end + Day - shift.start
      During(time) == begin <= time /\ time < begin + length
  IN  \/ During(moment)
      \/ shift.end <= shift.start /\ During(moment + Day)
      \/ shift.end < shift.start /\ moment % Day \in shift.end .. (Hour - 1)

\* A report belongs to an occurrence that covers its moment.
FiledInShift ==
  filed.occurrence # NoOccurrence => Covers(filed.shift, filed.occurrence[2], filed.at)
=============================================================================
