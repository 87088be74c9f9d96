---------------------------- MODULE ChatTimeline ----------------------------
(***************************************************************************)
(* What a conversation promises: a message is unread by every participant  *)
(* but its sender until the participant reads, and the conversation shows  *)
(* its last message.                                                       *)
(***************************************************************************)
EXTENDS Naturals

CONSTANTS Users, Messages, None

VARIABLES
  members,   \* participants
  posted,    \* messages of the conversation
  latest,    \* the last one, or None
  unread     \* number of messages each participant has not read

timelineVars == <<members, posted, latest, unread>>

TimelineInit ==
  /\ members = {}
  /\ posted = {}
  /\ latest = None
  /\ unread = [u \in Users |-> 0]

Open(group) ==
  /\ members = {}
  /\ group # {}
  /\ members' = group
  /\ UNCHANGED <<posted, latest, unread>>

Post(u, m) ==
  /\ u \in members
  /\ m \notin posted
  /\ posted' = posted \cup {m}
  /\ latest' = m
  /\ unread' = [v \in Users |-> 
       IF v \in members \ {u} THEN unread[v] + 1 ELSE unread[v]]
  /\ UNCHANGED members

\* Reading a message reads all there is.
Read(u) ==
  /\ posted # {}
  /\ unread' = [unread EXCEPT ![u] = 0]
  /\ UNCHANGED <<members, posted, latest>>

TimelineNext ==
  \/ \E group \in SUBSET Users : Open(group)
  \/ \E u \in Users : Read(u) \/ \E m \in Messages : Post(u, m)

TimelineSpec == TimelineInit /\ [][TimelineNext]_timelineVars

=============================================================================
