------------------------ MODULE CabinQualityScoring ------------------------
(***************************************************************************)
(* How a cabin quality audit is scored when it is filed, and how its       *)
(* detail, its list and the dashboard sum up what was stored.              *)
(*                                                                         *)
(* Weights are whole numbers of 1/Fraction points, points of 1/Precision   *)
(* points, percentages of 1/100 percent.  Products are exact where the     *)
(* code multiplies binary fractions, which can differ where a value lies   *)
(* on the half or a weight has more than fifteen digits.                   *)
(***************************************************************************)
EXTENDS Naturals, Integers, Sequences, FiniteSets, SequencesExt, FiniteSetsExt

CONSTANTS Precision,  \* 10^4 in the code
          Fraction,   \* a common denominator of the weights, which need not be whole
          Weights,    \* the snapshots of weights a form may carry
          Forms       \* sequences of areas a form may carry

Groups == {"lav", "galley", "main_cabin", "first_class", "comfort", "other"}

DefaultWeights ==
  [lav |-> 25, galley |-> 20, main_cabin |-> 18, first_class |-> 15, comfort |-> 12, other |-> 10]

\* An area of a form: the group it names, the words in its name, and how many of its
\* items pass, fail and do not apply.
Area == [group : STRING, words : SUBSET STRING, pass : Nat, fail : Nat, na : Nat]

ASSUME ScoringAssumption ==
  /\ Precision \in Nat \ {0}
  /\ Fraction \in Nat \ {0}
  /\ \A areas \in Forms : areas \in Seq(Area)
  /\ \A w \in Weights : DOMAIN w \subseteq Groups /\ \A g \in DOMAIN w : w[g] \in Nat

VARIABLES form,   \* what was filed: the areas and the weights
          stored  \* detailedResultsJson

scoreVars == <<form, stored>>

NoForm == [areas |-> <<>>, weights |-> <<>>]

\* Math.round(n / d): halves go up.
Round(n, d) == (2 * n + d) \div (2 * d)

Total(points) == FoldLeft(LAMBDA sum, p : sum + p, 0, points)

-----------------------------------------------------------------------------
(* Scoring the areas *)

NormalWeights(weights) ==
  [g \in Groups |-> IF g \in DOMAIN weights THEN weights[g] ELSE DefaultWeights[g] * Fraction]

\* The words that tell a group, the first that match count.
Rules == << <<{"lav", "restroom", "toilet"}, "lav">>, <<{"galley"}, "galley">>,
            <<{"first", "business"}, "first_class">>, <<{"comfort"}, "comfort">>,
            <<{"main cabin"}, "main_cabin">> >>

\* A group that the form names goes before the words.
GroupOf(area) ==
  LET rule == SelectInSeq(Rules, LAMBDA r : r[1] \cap area.words # {}) IN
  IF area.group \in Groups THEN area.group
  ELSE IF rule = 0 THEN "other" ELSE Rules[rule][2]

\* Mutant: items that do not apply count as well.
AllItems(area) == area.pass + area.fail + area.na

ApplicableItems(area) == area.pass + area.fail
Applies(area) == ApplicableItems(area) > 0

\* Mutant: areas without an applicable item share the weight of their group too.
AreasOfGroup(areas, group) == Cardinality({i \in DOMAIN areas : GroupOf(areas[i]) = group})

ApplicableAreas(areas, group) ==
  Cardinality({i \in DOMAIN areas : GroupOf(areas[i]) = group /\ Applies(areas[i])})

AreaStatus(area) ==
  CASE area.fail > 0 -> "fail" [] area.fail = 0 /\ area.pass > 0 -> "pass" [] OTHER -> "na"

ScoredArea(area, areas, weights) ==
  LET group == GroupOf(area)
      count == Fraction * ApplicableAreas(areas, group)
      weight == NormalWeights(weights)[group] * Precision
  IN  [group |-> group, weight |-> weight, status |-> AreaStatus(area),
       earned |-> IF Applies(area) THEN Round(weight * area.pass, count * ApplicableItems(area)) ELSE 0,
       possible |-> IF Applies(area) THEN Round(weight, count) ELSE 0]

Scored(areas, weights) == [i \in DOMAIN areas |-> ScoredArea(areas[i], areas, weights)]

-----------------------------------------------------------------------------
(* Summing up *)

Summary(scored) ==
  LET earned == Total([i \in DOMAIN scored |-> scored[i].earned])
      possible == Total([i \in DOMAIN scored |-> scored[i].possible])
      percent == IF possible = 0 THEN 0 ELSE Round(earned * 10000, possible)
      failed == {i \in DOMAIN scored : scored[i].status = "fail"}
  IN  [percent |-> percent, score |-> Round(percent, 100),
       status |-> IF failed = {} THEN "PASS" ELSE "FAIL",
       applicable |-> Cardinality({i \in DOMAIN scored : scored[i].possible > 0}),
       failed |-> Cardinality(failed)]

NoSummary == [status |-> "none"]

\* Nothing was stored for a form without areas.
StoredSummary == IF stored = <<>> THEN NoSummary ELSE Summary(stored)

-----------------------------------------------------------------------------
ScoreInit == form = NoForm /\ stored = <<>>

\* An audit is filed once and never changed.
FileAudit ==
  /\ form = NoForm
  /\ \E areas \in Forms, weights \in Weights :
       /\ form' = [areas |-> areas, weights |-> weights]
       /\ stored' = Scored(areas, weights)

ScoreNext == FileAudit

ScoreSpec == ScoreInit /\ [][ScoreNext]_scoreVars

-----------------------------------------------------------------------------
(* Properties *)

\* The score by groups: each group that was inspected has its whole weight, and its
\* areas count the same.  In units that make every division exact.
Unit == 12

GroupShare(group) ==
  LET areas == SelectSeq(form.areas, LAMBDA area : GroupOf(area) = group /\ Applies(area))
  IN  Total([i \in DOMAIN areas |-> (Unit \div (Len(areas) * ApplicableItems(areas[i]))) * areas[i].pass])

Inspected == {GroupOf(area) : area \in {a \in ToSet(form.areas) : Applies(a)}}

ByGroups == MapThenSumSet(LAMBDA g : NormalWeights(form.weights)[g] * GroupShare(g), Inspected)
Possible == MapThenSumSet(LAMBDA g : NormalWeights(form.weights)[g] * Unit, Inspected)

\* The summary of what was stored is the average by groups, but for the rounding of each
\* area's points; a form in which everything passed has the full score, unless its weights
\* are so small that the points of every area round to none.
ScoreStands ==
  LET error == ((Len(form.areas) * Unit * Fraction) \div Precision) + 1 IN
  stored # <<>> /\ Possible > 0 =>
    /\ StoredSummary.score * Possible <= 100 * (ByGroups + error) + Possible
    /\ StoredSummary.score * Possible + Possible + 100 * error >= 100 * ByGroups
    /\ ByGroups = Possible /\ StoredSummary.applicable > 0 => StoredSummary.score = 100

\* An audit fails when an item failed.  Only then may it miss the full score, however the
\* points of its areas were rounded, and never is a score above it; an audit in which
\* nothing counts scores nothing.
VerdictStands ==
  stored # <<>> =>
    /\ StoredSummary.status = "FAIL" <=> \E area \in ToSet(form.areas) : area.fail > 0
    /\ StoredSummary.score \in 0..100
    /\ StoredSummary.status = "PASS" => StoredSummary.score = IF StoredSummary.applicable = 0 THEN 0 ELSE 100
=============================================================================
