--------------------------- MODULE MCFlightsCache ---------------------------
(***************************************************************************)
(* Instances of FlightsCache for TLC.  There is no symmetry: the run       *)
(* checks liveness.                                                        *)
(***************************************************************************)
EXTENDS FlightsCache

=============================================================================
