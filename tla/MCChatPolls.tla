----------------------------- MODULE MCChatPolls ----------------------------
(***************************************************************************)
(* Instances of ChatPolls for TLC.  There is no symmetry: the run checks   *)
(* liveness.                                                               *)
(***************************************************************************)
EXTENDS ChatPolls

=============================================================================
