------------------------ MODULE MCEmailNotifications ------------------------
(***************************************************************************)
(* Instances of EmailNotifications for TLC.  Two mails let a crash take a  *)
(* call and a job at once.  There is no symmetry: the run checks liveness. *)
(***************************************************************************)
EXTENDS EmailNotifications

=============================================================================
