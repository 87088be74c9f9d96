---------------------------- MODULE ChatPresence ----------------------------
(***************************************************************************)
(* Who is online: the handshake and the end of the sockets of the chat     *)
(* gateway (chat.gateway.ts) and the set of online users it keeps in       *)
(* memory (chat-realtime.service.ts).  handleConnection awaits the token   *)
(* and the session before it announces the user; the socket may close at   *)
(* any time, and handleDisconnect runs some time later.                    *)
(***************************************************************************)
EXTENDS FiniteSets

CONSTANTS
  People,      \* users of the chat
  Tabs        \* bound: sockets a user opens, each connects once

VARIABLES
  online,     \* onlineUsers
  hand,       \* handleConnection of each socket
  link,       \* the socket: not there, live, closing or closed
  data,       \* sockets with client.data.userId
  shadowed,   \* history: users marked offline while another socket was live,
              \* and not announced since
  crossed     \* history: users announced by a socket that was gone, and not
              \* marked offline since

presenceVars == <<online, hand, link, data, shadowed, crossed>>

Sockets == People \X Tabs

\* The user whose token the socket presents.
Owner(s) == s[1]

PresenceInit ==
  /\ online = {}
  /\ hand = [s \in Sockets |-> "none"]
  /\ link = [s \in Sockets |-> "none"]
  /\ data = {}
  /\ shadowed = {}
  /\ crossed = {}

\* Sockets of u that are connected and known to be the user's.
Present(u) == {s \in data : Owner(s) = u /\ link[s] = "live"}

\* Such sockets, and those whose end has not been handled yet.
Known(u) == {s \in data : Owner(s) = u /\ link[s] # "closed"}

Connect(s) ==
  /\ link[s] = "none"
  /\ link' = [link EXCEPT ![s] = "live"]
  /\ hand' = [hand EXCEPT ![s] = "token"]
  /\ UNCHANGED <<online, data, shadowed, crossed>>

TokenVerified(s) ==
  /\ hand[s] = "token"
  /\ hand' = [hand EXCEPT ![s] = "session"]
  /\ UNCHANGED <<online, link, data, shadowed, crossed>>

Announced(s) == online \cup {Owner(s)}

\* The session is there: markUserOnline, whatever the socket has become.
SessionRead(s) ==
  /\ hand[s] = "session"
  /\ hand' = [hand EXCEPT ![s] = "done"]
  /\ data' = data \cup {s}
  /\ online' = Announced(s)
  /\ shadowed' = shadowed \ {Owner(s)}
  /\ crossed' = IF link[s] = "closed" THEN crossed \cup {Owner(s)} ELSE crossed
  /\ UNCHANGED link

\* No token, or no session that is valid: client.disconnect(true).
Refuse(s) ==
  /\ hand[s] \in {"token", "session"}
  /\ hand' = [hand EXCEPT ![s] = "done"]
  /\ link' = [link EXCEPT ![s] = IF @ = "live" THEN "closing" ELSE @]
  /\ UNCHANGED <<online, data, shadowed, crossed>>

Close(s) ==
  /\ link[s] = "live"
  /\ link' = [link EXCEPT ![s] = "closing"]
  /\ UNCHANGED <<online, hand, data, shadowed, crossed>>

\* Mutant: any socket that closes takes its user offline.
OfflineAlways(s) == online \ {Owner(s)}
MarkOffline(s) == IF s \in data THEN online \ {Owner(s)} ELSE online

HandleDisconnect(s) ==
  /\ link[s] = "closing"
  /\ link' = [link EXCEPT ![s] = "closed"]
  /\ online' = MarkOffline(s)
  /\ shadowed' = IF s \in data /\ Present(Owner(s)) # {}
                   THEN shadowed \cup {Owner(s)} ELSE shadowed
  /\ crossed' = IF s \in data THEN crossed \ {Owner(s)} ELSE crossed
  /\ UNCHANGED <<hand, data>>

\* The server restarts: its memory and its sockets are gone.
Restart ==
  /\ online' = {}
  /\ hand' = [s \in Sockets |-> IF hand[s] = "none" THEN "none" ELSE "done"]
  /\ link' = [s \in Sockets |-> IF link[s] = "none" THEN "none" ELSE "closed"]
  /\ data' = {}
  /\ shadowed' = {}
  /\ crossed' = {}

Handle(s) == TokenVerified(s) \/ SessionRead(s) \/ Refuse(s) \/ HandleDisconnect(s)

PresenceNext == Restart \/ \E s \in Sockets : Connect(s) \/ Close(s) \/ Handle(s)

PresenceSpec == PresenceInit /\ [][PresenceNext]_presenceVars

(***************************************************************************)
(* Properties.                                                             *)
(***************************************************************************)

\* A user with a connected socket is shown offline only after another socket of
\* the user was closed: the set does not count the sockets.
ShownOffline == \A u \in People : Present(u) # {} /\ u \notin online => u \in shadowed

\* A user without a socket is shown online only when a socket had gone before
\* handleConnection came to its end.
ShownOnline == \A u \in People : u \in online /\ Known(u) = {} => u \in crossed

\* Presence errs in these two ways and in no other.
ShownAsConnected == ShownOffline /\ ShownOnline
=============================================================================
