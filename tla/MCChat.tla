------------------------------- MODULE MCChat -------------------------------
(***************************************************************************)
(* The messages of a conversation and who is online, for TLC.  They share  *)
(* no state, so a behaviour runs one of them and leaves the other as it    *)
(* began: a conversation of two with three requests at a time, one of      *)
(* three with two requests at a time, or the sockets.                      *)
(***************************************************************************)
EXTENDS ChatMessages, ChatPresence, TLC

VARIABLE part

MCInit == part \in {"pair", "group", "presence"} /\ ChatInit /\ PresenceInit

Bounded ==
  \/ part = "pair" /\ Cardinality(members') <= 2
  \/ /\ part = "group" /\ Cardinality(members') \in {0, 3}
     /\ Cardinality(InFlight') <= 2 /\ clock' < MaxTime

MCNext ==
  \/ ChatNext /\ Bounded /\ UNCHANGED <<part, presenceVars>>
  \/ part = "presence" /\ PresenceNext /\ UNCHANGED <<part, chatVars>>

MCSpec == MCInit /\ [][MCNext]_<<part, chatVars, presenceVars>>

\* Users, messages and requests are interchangeable.
Symmetry == Permutations(Users) \cup Permutations(Messages) \cup Permutations(Requests)

=============================================================================
