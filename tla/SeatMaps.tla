------------------------------ MODULE SeatMaps ------------------------------
(***************************************************************************)
(* The seat map of an aircraft type: how an administrator's drawing is     *)
(* checked and saved, and which places to hide an object it offers to an   *)
(* audit and to a training.                                                *)
(*                                                                         *)
(* A place is [kind, zone, side], the three things the services read from  *)
(* its code: LAV MID L, Galley FWD, 12C, Closet.                           *)
(***************************************************************************)
EXTENDS Naturals, Sequences, SequencesExt

CONSTANTS Maps,    \* the drawings administrators submit
          Default  \* the seat map in the seed

Text == STRING
Place == [kind : Text, zone : Text, side : Text]
Amenity == [left : Place, leftSvg : BOOLEAN, right : Place, rightSvg : BOOLEAN, label : Place]
SeatSection ==
  [name : Text, startRow : Nat, endRow : Nat, skipRows : SUBSET Nat,
   leftCols : Seq(Text), rightCols : Seq(Text), before : Seq(Amenity), after : Seq(Amenity)]
SeatMap == [sections : Seq(SeatSection)]

ASSUME MapsAssumption == \A map \in Maps \cup {Default} : map \in SeatMap

PlaceKinds == {"SEAT", "GALLEY", "LAV", "JUMP_SEAT", "ZONE"}

Blank == [kind |-> "", zone |-> "", side |-> ""]

VARIABLES saved,   \* seatMapJson of the aircraft type
          drawn    \* the drawing that was submitted last

seatVars == <<saved, drawn>>

-----------------------------------------------------------------------------
(* Saving a drawing *)

Given(place) == place # Blank

AmenityValid(a) ==
  /\ a.leftSvg <=> Given(a.left)
  /\ a.rightSvg <=> Given(a.right)
  /\ a.leftSvg \/ a.rightSvg \/ Given(a.label)

SectionValid(s) ==
  /\ s.endRow >= s.startRow
  /\ \A a \in ToSet(s.before) \cup ToSet(s.after) : AmenityValid(a)

ValidMap(map) == \A s \in ToSet(map.sections) : SectionValid(s)

\* Mutant: a label is kept only where there is no icon.
NormalAmenityWithoutLabel(a) ==
  [a EXCEPT !.label = IF a.leftSvg \/ a.rightSvg THEN Blank ELSE @]

\* A side keeps its place only with its icon.
NormalAmenity(a) ==
  [a EXCEPT !.left  = IF a.leftSvg THEN @ ELSE Blank,
            !.right = IF a.rightSvg THEN @ ELSE Blank,
            !.leftSvg = @ /\ Given(a.left),
            !.rightSvg = @ /\ Given(a.right)]

Amenities(list) == [i \in DOMAIN list |-> NormalAmenity(list[i])]

Columns(list) == FlattenSeq([i \in DOMAIN list |-> IF list[i] = "" THEN <<>> ELSE <<list[i]>>])

Normal(map) ==
  [sections |-> [i \in DOMAIN map.sections |->
     LET s == map.sections[i] IN
     [s EXCEPT !.leftCols = Columns(@), !.rightCols = Columns(@),
               !.before = Amenities(@), !.after = Amenities(@)]]]

-----------------------------------------------------------------------------
(* The places a seat map offers *)

\* inferLocationType: a closet and whatever has no word of its own is a zone.
LocationType(place) == IF place.kind \in PlaceKinds THEN place.kind ELSE "ZONE"

\* Where a place is shown; elsewhere it is shown in its section.
AmenitySectionLabel(place, section) ==
  CASE place.kind = "GALLEY" ->
         (CASE place.zone = "AFT" -> "Rear Galley" [] place.zone = "FWD" -> "Front Galley" [] OTHER -> "Galley")
    [] place.kind = "LAV" ->
         (CASE place.zone = "AFT" -> "Aft Lav" [] place.zone = "MID" -> "Mid Lav"
            [] place.zone = "FWD" -> "Forward Lav" [] OTHER -> "Lav")
    [] OTHER -> section

OfPlace(place, section) ==
  IF Given(place)
  THEN <<[place |-> place, type |-> LocationType(place), section |-> AmenitySectionLabel(place, section)]>>
  ELSE <<>>

OfAmenity(a, section) == OfPlace(a.left, section) \o OfPlace(a.right, section) \o OfPlace(a.label, section)

Seat(row, column) == [kind |-> "SEAT", zone |-> row, side |-> column]

OfRow(s, row) ==
  LET columns == Columns(s.leftCols \o s.rightCols)
  IN  [i \in DOMAIN columns |->
         [place |-> Seat(ToString(row), columns[i]), type |-> "SEAT", section |-> s.name]]

SeatRows(s) ==
  FlattenSeq([row \in 1 .. s.endRow |->
                IF row < s.startRow \/ row \in s.skipRows THEN <<>> ELSE OfRow(s, row)])

OfAmenities(list, section) == FlattenSeq([i \in DOMAIN list |-> OfAmenity(list[i], section)])

OfSection(s) == OfAmenities(s.before, s.name) \o SeatRows(s) \o OfAmenities(s.after, s.name)

\* Of several candidates of one place the first is kept.
Push(candidates, candidate) ==
  IF \E c \in ToSet(candidates) : c.place = candidate.place THEN candidates
  ELSE Append(candidates, candidate)

Deduplicated(candidates) == FoldLeft(Push, <<>>, candidates)

Candidates(map) ==
  Deduplicated(FlattenSeq([i \in DOMAIN map.sections |-> OfSection(map.sections[i])]))

Places(candidates) == {c.place : c \in ToSet(candidates)}

-----------------------------------------------------------------------------
SeatInit == saved = Default /\ drawn = Default

SaveSeatMap(map) ==
  /\ ValidMap(map)
  /\ saved' = Normal(map) /\ drawn' = map

\* The seed brings the default back, as it is.
SeedSeatMap == saved' = Default /\ drawn' = Default

SeatNext == (\E map \in Maps : SaveSeatMap(map)) \/ SeedSeatMap

SeatSpec == SeatInit /\ [][SeatNext]_seatVars

-----------------------------------------------------------------------------
(* Properties *)

\* An audit can hide an object wherever the drawing that was submitted last shows a
\* place, and nowhere else: checking and normalising lose no place and invent none.
OffersWhatWasDrawn ==
  saved # drawn => Places(Candidates(saved)) = Places(Candidates(drawn))
=============================================================================
