--------------------------- MODULE DashboardScores ---------------------------
(***************************************************************************)
(* Scores and verdicts of the four kinds of audit, as the administrators'  *)
(* dashboard computes them from the rows: percentages, rounded half up.    *)
(***************************************************************************)
EXTENDS Naturals, FiniteSets, Sequences, SequencesExt

AuditTypes == {"CABIN_QUALITY", "CABIN_SECURITY", "HIDDEN_OBJECT", "LAV_SAFETY"}

Percent(part, whole) == (200 * part + whole) \div (2 * whole)

Verdict(failed) == IF failed > 0 THEN "FAIL" ELSE "PASS"

\* Responses that pass and fail; the others do not apply.
ScoreResponses(passed, failed) ==
  [score |-> IF passed + failed = 0 THEN 100 ELSE Percent(passed, passed + failed),
   status |-> Verdict(failed)]

\* A cabin quality audit has the score that its areas were given when it was filed.
ScoreCabinQuality(audit) ==
  IF audit.weighted THEN [score |-> audit.score, status |-> audit.status]
  ELSE ScoreResponses(audit.passed, audit.failed)

\* Mutant: finds where nothing was hidden count as hidden objects.
SettledAndPurple(rows) == {c \in DOMAIN rows : rows[c] \in {"GREEN", "RED", "PURPLE"}}

Settled(rows) == {c \in DOMAIN rows : rows[c] \in {"GREEN", "RED"}}

\* Colours of the locations of a hidden object audit that is SETUP, ACTIVE or CLOSED.
ScoreHiddenObject(phase, rows) ==
  LET found == Cardinality({c \in DOMAIN rows : rows[c] = "GREEN"})
      total == Cardinality(Settled(rows))
      status == Verdict(Cardinality({c \in DOMAIN rows : rows[c] = "RED"}))
  IN  [score |-> IF total = 0 THEN 0 ELSE Percent(found, total),
       status |-> status,
       displayStatus |-> IF phase = "CLOSED" THEN status ELSE phase]

AverageScore(scores) ==
  LET sum == FoldLeft(LAMBDA a, b : a + b, 0, scores)
  IN  IF scores = <<>> THEN 100 ELSE (2 * sum + Len(scores)) \div (2 * Len(scores))
=============================================================================
