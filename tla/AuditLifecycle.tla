--------------------------- MODULE AuditLifecycle ---------------------------
(***************************************************************************)
(* What the hidden object audit promises, each operation taking effect in  *)
(* one step: a ship has at most one open audit, an audit moves from SETUP  *)
(* to ACTIVE to CLOSED and never back, locations change only in the phase  *)
(* that owns them, and a closed audit never changes again.                 *)
(***************************************************************************)
EXTENDS Naturals

CONSTANTS Sessions, Ships, Codes, None

VARIABLES
  phase,    \* the phase of each audit, "NONE" before it is created
  ship,     \* the ship each audit is about
  colour    \* the colour of each location, "NONE" where there is none

vars == <<phase, ship, colour>>

Init ==
  /\ phase = [s \in Sessions |-> "NONE"]
  /\ ship = [s \in Sessions |-> None]
  /\ colour = [s \in Sessions |-> [c \in Codes |-> "NONE"]]

OpenFor(sh) == {s \in Sessions : ship[s] = sh /\ phase[s] \in {"SETUP", "ACTIVE"}}
Coloured(s, col) == {c \in Codes : colour[s][c] = col}

Paint(s, codes, col) == [c \in Codes |-> IF c \in codes THEN col ELSE colour[s][c]]

Create(s) ==
  /\ phase[s] = "NONE"
  /\ phase' = [phase EXCEPT ![s] = "SETUP"]
  /\ \E sh \in Ships :
       /\ OpenFor(sh) = {}
       /\ ship' = [ship EXCEPT ![s] = sh]
  /\ \E chosen \in (SUBSET Codes) \ {{}} :
       colour' = [colour EXCEPT ![s] = Paint(s, chosen, "ORANGE")]

Confirm(s) ==
  /\ phase[s] = "SETUP"
  /\ \E c \in Coloured(s, "ORANGE") :
       colour' = [colour EXCEPT ![s][c] = "BLUE"]
  /\ UNCHANGED <<phase, ship>>

Activate(s) ==
  /\ phase[s] = "SETUP"
  /\ Coloured(s, "ORANGE") = {}
  /\ phase' = [phase EXCEPT ![s] = "ACTIVE"]
  /\ UNCHANGED <<ship, colour>>

Find(s) ==
  /\ phase[s] = "ACTIVE"
  /\ \E c \in Coloured(s, "BLUE") :
       colour' = [colour EXCEPT ![s][c] = "GREEN"]
  /\ UNCHANGED <<phase, ship>>

\* Closing, by hand (nothing is found in the same step) or by the results of
\* a security search: what is still hidden is missing, and finds elsewhere
\* are recorded.
Close(s) ==
  /\ phase[s] = "ACTIVE"
  /\ phase' = [phase EXCEPT ![s] = "CLOSED"]
  /\ \E found \in SUBSET Coloured(s, "BLUE"), extra \in SUBSET Coloured(s, "NONE") :
       colour' = [colour EXCEPT ![s] =
                    [c \in Codes |-> IF c \in found THEN "GREEN"
                                     ELSE IF c \in extra THEN "PURPLE"
                                     ELSE IF @[c] = "BLUE" THEN "RED"
                                     ELSE @[c]]]
  /\ UNCHANGED ship

Next ==
  \E s \in Sessions :
    Create(s) \/ Confirm(s) \/ Activate(s) \/ Find(s) \/ Close(s)

Spec == Init /\ [][Next]_vars

=============================================================================
