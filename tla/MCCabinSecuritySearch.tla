----------------------- MODULE MCCabinSecuritySearch -----------------------
(***************************************************************************)
(* Instances of CabinSecuritySearch for TLC.                               *)
(***************************************************************************)
EXTENDS CabinSecuritySearch, TLC

\* Sessions, codes and request slots are interchangeable.
Symmetry ==
  Permutations(Sessions) \union Permutations(Codes) \union Permutations(Requests)

=============================================================================
