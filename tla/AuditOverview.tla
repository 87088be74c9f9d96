---------------------------- MODULE AuditOverview ----------------------------
(***************************************************************************)
(* What the dashboard shows of the hidden object audits while the requests *)
(* of CabinSecuritySearch run: getOverview counts those that need          *)
(* attention twice, among all its records and by themselves.               *)
(***************************************************************************)
EXTENDS CabinSecuritySearch, DashboardScores

Audits == {s \in Sessions : session[s].status # NoRow}

HiddenObjectScore(s) ==
  ScoreHiddenObject(session[s].status, [c \in Codes |-> StatusOf(s, c)])

\* Of the records, by what is displayed; of the audits of this kind, by the verdict.
AttentionTotal == {s \in Audits : HiddenObjectScore(s).displayStatus = "FAIL"}
AttentionHiddenObject == {s \in Audits : HiddenObjectScore(s).status = "FAIL"}

\* Both counts agree, though one looks at the phase of an audit and the other does not,
\* and an audit that is closed passes when, and only when, its score is full (which takes
\* fewer than 200 objects: the percentage is rounded).
OverviewAddsUp ==
  /\ AttentionTotal = AttentionHiddenObject
  /\ \A s \in Audits : session[s].status = "CLOSED" =>
       (HiddenObjectScore(s).status = "PASS" <=> HiddenObjectScore(s).score = 100)
=============================================================================
