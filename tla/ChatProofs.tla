----------------------------- MODULE ChatProofs -----------------------------
(***************************************************************************)
(* Safety of ChatMessages and ChatPresence, for any participants, sockets, *)
(* messages and requests at a time.                                        *)
(***************************************************************************)
EXTENDS ChatMessages, ChatPresence, FiniteSetTheorems, TLAPS

(***************************************************************************)
(* Presence.  The inductive invariant is ShownAsConnected itself and that  *)
(* a socket whose user is known has been connected.                        *)
(***************************************************************************)

\* The type invariant of the sockets and the set of online users.
PresenceTypeOK ==
  /\ online \subseteq People
  /\ hand \in [Sockets -> {"none", "token", "session", "done"}]
  /\ link \in [Sockets -> {"none", "live", "closing", "closed"}]
  /\ data \subseteq Sockets
  /\ shadowed \subseteq People
  /\ crossed \subseteq People

Begun == \A s \in Sockets : link[s] = "none" => hand[s] = "none" /\ s \notin data

PresenceIInv == PresenceTypeOK /\ Begun /\ ShownAsConnected

LEMMA OwnersArePeople == \A s \in Sockets : Owner(s) \in People
  BY DEF Sockets, Owner

\* A step of one socket keeps the invariant.
LEMMA SocketStepKeeps ==
  ASSUME PresenceIInv, NEW s \in Sockets, Connect(s) \/ Close(s) \/ Handle(s)
  PROVE  PresenceIInv'
<1>0. PresenceTypeOK /\ Begun /\ Owner(s) \in People
  BY OwnersArePeople DEF PresenceIInv
<1>1. CASE Connect(s)
  <2>1. PresenceTypeOK' /\ Begun'
    BY <1>0, <1>1 DEF Connect, PresenceTypeOK, Begun
  <2>2. \A u \in People : Present(u)' = Present(u) /\ Known(u) \subseteq Known(u)'
    BY <1>0, <1>1 DEF Connect, PresenceTypeOK, Begun, Present, Known
  <2> QED
    BY <1>1, <2>1, <2>2 DEF Connect, PresenceIInv, ShownAsConnected, ShownOffline, ShownOnline
<1>2. CASE Close(s)
  <2>1. PresenceTypeOK' /\ Begun'
    BY <1>0, <1>2 DEF Close, PresenceTypeOK, Begun
  <2>2. \A u \in People : Present(u)' \subseteq Present(u) /\ Known(u)' = Known(u)
    BY <1>0, <1>2 DEF Close, PresenceTypeOK, Present, Known
  <2> QED
    BY <1>2, <2>1, <2>2 DEF Close, PresenceIInv, ShownAsConnected, ShownOffline, ShownOnline
<1>3. CASE TokenVerified(s)
  <2>1. PresenceTypeOK' /\ Begun'
    BY <1>0, <1>3 DEF TokenVerified, PresenceTypeOK, Begun
  <2> QED
    BY <1>3, <2>1 DEF TokenVerified, PresenceIInv, ShownAsConnected, ShownOffline, ShownOnline, Present, Known
<1>4. CASE Refuse(s)
  <2>1. PresenceTypeOK' /\ Begun'
    BY <1>0, <1>4 DEF Refuse, PresenceTypeOK, Begun
  <2>2. \A u \in People : Present(u)' \subseteq Present(u) /\ Known(u)' = Known(u)
    BY <1>0, <1>4 DEF Refuse, PresenceTypeOK, Present, Known
  <2> QED
    BY <1>4, <2>1, <2>2 DEF Refuse, PresenceIInv, ShownAsConnected, ShownOffline, ShownOnline
<1>5. CASE SessionRead(s)
  <2>1. PresenceTypeOK' /\ Begun'
    BY <1>0, <1>5 DEF SessionRead, Announced, PresenceTypeOK, Begun
  <2>2. ASSUME NEW u \in People, u # Owner(s)
        PROVE  Present(u)' = Present(u) /\ Known(u)' = Known(u)
    BY <1>5, <2>2 DEF SessionRead, Present, Known
  <2>3. link[s] # "closed" => s \in Known(Owner(s))'
    BY <1>5 DEF SessionRead, Known
  <2> QED
    BY <1>5, <2>1, <2>2, <2>3 DEF SessionRead, Announced, PresenceIInv, ShownAsConnected, ShownOffline, ShownOnline
<1>6. CASE HandleDisconnect(s)
  <2>1. PresenceTypeOK' /\ Begun'
    BY <1>0, <1>6 DEF HandleDisconnect, MarkOffline, PresenceTypeOK, Begun
  <2>2. \A u \in People : Present(u)' = Present(u)
    BY <1>0, <1>6 DEF HandleDisconnect, PresenceTypeOK, Present
  <2>3. ASSUME NEW u \in People, s \notin data \/ u # Owner(s)
        PROVE  Known(u)' = Known(u)
    BY <1>0, <1>6, <2>3 DEF HandleDisconnect, PresenceTypeOK, Known
  <2>4. ShownOffline'
    BY <1>6, <2>2 DEF HandleDisconnect, MarkOffline, PresenceIInv, ShownAsConnected, ShownOffline
  <2>5. ShownOnline'
    BY <1>6, <2>3 DEF HandleDisconnect, MarkOffline, PresenceIInv, ShownAsConnected, ShownOnline
  <2> QED
    BY <2>1, <2>4, <2>5 DEF PresenceIInv, ShownAsConnected
<1> QED
  BY <1>1, <1>2, <1>3, <1>4, <1>5, <1>6 DEF Handle

\* Presence errs only in its two ways, and its state is well formed, at all times.
THEOREM PresenceInvariance == PresenceSpec => []PresenceIInv
<1>1. PresenceInit => PresenceIInv
  BY DEF PresenceInit, PresenceIInv, PresenceTypeOK, Begun, ShownAsConnected, ShownOffline, ShownOnline, Present, Known
<1>2. PresenceIInv /\ [PresenceNext]_presenceVars => PresenceIInv'
  <2> SUFFICES ASSUME PresenceIInv, [PresenceNext]_presenceVars
               PROVE  PresenceIInv'
    OBVIOUS
  <2>1. CASE Restart
    BY <2>1 DEF Restart, PresenceIInv, PresenceTypeOK, Begun, ShownAsConnected, ShownOffline, ShownOnline, Present, Known
  <2>2. CASE \E s \in Sockets : Connect(s) \/ Close(s) \/ Handle(s)
    BY <2>2, SocketStepKeeps
  <2>3. CASE UNCHANGED presenceVars
    BY <2>3 DEF presenceVars, PresenceIInv, PresenceTypeOK, Begun, ShownAsConnected, ShownOffline, ShownOnline, Present, Known
  <2> QED
    BY <2>1, <2>2, <2>3 DEF PresenceNext
<1> QED
  BY <1>1, <1>2, PTL DEF PresenceSpec

\* A user is shown offline with a connected socket only after another of the user's
\* sockets was closed, and online without a socket only when a handshake outlived its
\* socket: the promise of markUserOnline and markUserOffline, for any users and sockets.
THEOREM PresenceIsShown == PresenceSpec => []ShownAsConnected
<1>1. PresenceIInv => ShownAsConnected
  BY DEF PresenceIInv
<1> QED
  BY <1>1, PresenceInvariance, PTL

-----------------------------------------------------------------------------
(***************************************************************************)
(* Messages.  The invariant says of each request what it has taken and     *)
(* checked (Sound), that its timestamp is nobody else's (Distinct), and    *)
(* that what a participant has read is no younger than the furthest of     *)
(* the participant's marks (ReadBefore).                                   *)
(***************************************************************************)

\* The type invariant of the conversation and its requests.
ChatTypeOK ==
  /\ members \subseteq Users
  /\ clock \in Nat
  /\ message \in [Messages -> Row \cup {None}]
  /\ receipt \in [Messages -> [Users -> Receipt \cup {None}]]
  /\ last \in Messages \cup {None}
  /\ mark \in [Users -> Mark \cup {None}]
  /\ req \in [Requests -> Request \cup {None}]
  /\ furthest \in [Users -> Nat]
  /\ reordered \in BOOLEAN

Sound(r) ==
  ~Idle(r) =>
    /\ req[r].at <= clock
    /\ req[r].op = "createDirect" => req[r].pc = "create" /\ req[r].with \in Users
    /\ req[r].op = "sendMessage" =>
         /\ req[r].pc \in {"stamp", "insert", "update"}
         /\ req[r].user \in members
         /\ req[r].pc # "stamp" => req[r].at # 0
    /\ req[r].op \in {"markDelivered", "markRead"} => req[r].message \in Posted
    /\ req[r].op = "markRead" =>
         /\ req[r].pc \in {"stamp", "write"}
         /\ req[r].pc = "write" => message[req[r].message].at < req[r].at

Distinct(r) ==
  ~Idle(r) /\ req[r].at # 0 =>
    /\ \A m \in Posted : message[m].at # req[r].at
    /\ \A u \in Users : mark[u] # None => mark[u].at # req[r].at
    /\ \A q \in Requests \ {r} : ~Idle(q) => req[q].at # req[r].at

Stamped ==
  /\ \A m \in Posted : message[m].at <= clock /\ message[m].sender \in members
  /\ \A u \in Users : mark[u] # None => mark[u].at <= clock /\ mark[u].at <= furthest[u]

ReadBefore ==
  \A u \in Users, m \in Posted :
    receipt[m][u] # None /\ receipt[m][u].read => mark[u] # None /\ message[m].at <= furthest[u]

ChatIInv ==
  /\ ChatTypeOK
  /\ \A r \in Requests : Sound(r)
  /\ \A r \in Requests : Distinct(r)
  /\ Stamped
  /\ ReadBefore

LEMMA ChatInitInvariant == ChatInit => ChatIInv
<1> SUFFICES ASSUME ChatInit PROVE ChatIInv
  OBVIOUS
<1>1. Posted = {} /\ (\A r \in Requests : Idle(r)) /\ (\A u \in Users : mark[u] = None)
  BY DEF ChatInit, Posted, Idle
<1>2. ChatTypeOK
  BY DEF ChatInit, ChatTypeOK
<1> QED
  BY <1>1, <1>2 DEF ChatIInv, Sound, Distinct, Stamped, ReadBefore

\* A request that is ended, or gives no timestamp, leaves the others as they are.
LEMMA RequestChangeKeeps ==
  ASSUME ChatIInv, NEW r \in Requests, NEW q \in Request \cup {None},
         req' = [req EXCEPT ![r] = q],
         UNCHANGED <<members, clock, message, receipt, last, mark, furthest, reordered>>,
         Sound(r)', q = None \/ q.at = 0 \/ (~Idle(r) /\ q.at = req[r].at)
  PROVE  ChatIInv'
<1>1. /\ req'[r] = q
      /\ \A p \in Requests \ {r} : req'[p] = req[p]
      /\ req' \in [Requests -> Request \cup {None}]
  BY DEF ChatIInv, ChatTypeOK
<1>2. ChatTypeOK' /\ Stamped' /\ ReadBefore'
  BY <1>1 DEF ChatIInv, ChatTypeOK, Stamped, ReadBefore, Posted
<1>3. \A p \in Requests : Sound(p)'
  BY <1>1 DEF ChatIInv, Sound, Idle, Posted
<1>4. \A p \in Requests : Distinct(p)'
  BY <1>1 DEF ChatIInv, Distinct, Idle, Posted
<1> QED
  BY <1>2, <1>3, <1>4 DEF ChatIInv

LEMMA EndKeeps ==
  ASSUME ChatIInv, NEW r \in Requests, Ends(r),
         UNCHANGED <<members, clock, message, receipt, last, mark, furthest, reordered>>
  PROVE  ChatIInv'
<1>1. Sound(r)'
  BY DEF Ends, Sound, Idle, ChatIInv, ChatTypeOK
<1> QED
  BY <1>1, RequestChangeKeeps DEF Ends

LEMMA BeginKeeps ==
  ASSUME ChatIInv, NEW r \in Requests, Begin(r)
  PROVE  ChatIInv'
<1>0. ChatTypeOK
  BY DEF ChatIInv
<1>1. ASSUME NEW q \in Request, Begins(r, q), q.at = 0,
             q.op = "createDirect" => q.pc = "create" /\ q.with \in Users,
             q.op = "sendMessage" => q.pc = "stamp" /\ q.user \in members,
             q.op \in {"markDelivered", "markRead"} => q.message \in Posted,
             q.op = "markRead" => q.pc = "stamp"
      PROVE  ChatIInv'
  <2>1. req' = [req EXCEPT ![r] = q] /\ req'[r] = q
    BY <1>0, <1>1 DEF Begins, ChatTypeOK
  <2>2. UNCHANGED <<members, clock, message, receipt, last, mark, furthest, reordered>>
    BY <1>1 DEF Begins
  <2>3. Sound(r)'
    BY <1>0, <1>1, <2>1, <2>2 DEF Sound, Idle, Posted, ChatTypeOK
  <2> QED
    BY <1>1, <2>1, <2>2, <2>3, RequestChangeKeeps
<1>2. ASSUME NEW u \in Users, BeginSend(r, u) PROVE ChatIInv'
  <2>1. Blank("sendMessage", "stamp", u) \in Request
    BY DEF Blank, Request
  <2> QED
    BY <1>1, <1>2, <2>1 DEF BeginSend, Blank
<1>3. ASSUME NEW u \in Users, NEW v \in Users, BeginDirect(r, u, v) PROVE ChatIInv'
  <2> DEFINE q == [Blank("createDirect", "create", u) EXCEPT !.with = v]
  <2>1. q \in Request /\ q.op = "createDirect" /\ q.pc = "create" /\ q.with = v /\ q.at = 0
    BY DEF Blank, Request
  <2>2. Begins(r, q)
    BY <1>3 DEF BeginDirect
  <2> HIDE DEF q
  <2> QED
    BY <1>1, <2>1, <2>2
<1>4. ASSUME NEW u \in Users, NEW m \in Messages, NEW op \in {"markDelivered", "markRead"},
             BeginMark(r, op, u, m)
      PROVE  ChatIInv'
  <2> DEFINE q == [Blank(op, IF op = "markRead" THEN "stamp" ELSE "write", u) EXCEPT !.message = m]
  <2>1. /\ q \in Request /\ q.op = op /\ q.message = m /\ q.at = 0
        /\ op = "markRead" => q.pc = "stamp"
    BY DEF Blank, Request
  <2>2. Begins(r, q) /\ m \in Posted
    BY <1>4 DEF BeginMark
  <2> HIDE DEF q
  <2> QED
    BY <1>1, <2>1, <2>2
<1> QED
  BY <1>2, <1>3, <1>4 DEF Begin

\* A timestamp is younger than all that were taken.
LEMMA StampKeeps ==
  ASSUME ChatIInv, NEW r \in Requests, SendStamp(r) \/ ReadStamp(r)
  PROVE  ChatIInv'
<1>0. ChatTypeOK /\ Stamped /\ \A q \in Requests : Sound(q) /\ Distinct(q)
  BY DEF ChatIInv
<1>1. /\ ~Idle(r) /\ req[r] \in Request
      /\ clock' = clock + 1
      /\ UNCHANGED <<members, message, receipt, last, mark, furthest, reordered>>
  BY <1>0 DEF SendStamp, ReadStamp, Stamps, ChatTypeOK, Idle
<1>2. /\ req'[r] \in Request
      /\ req'[r].at = clock + 1
      /\ req'[r].op = req[r].op /\ req'[r].user = req[r].user /\ req'[r].message = req[r].message
      /\ \/ req[r].op = "sendMessage" /\ req'[r].pc = "insert"
         \/ req[r].op = "markRead" /\ req'[r].pc = "write"
  BY <1>0, <1>1, SMTT(30) DEF SendStamp, ReadStamp, Stamps, ChatTypeOK, Request
<1>3. \A q \in Requests \ {r} : req'[q] = req[q]
  BY <1>0 DEF SendStamp, ReadStamp, Stamps, ChatTypeOK
<1>4. ChatTypeOK'
  <2>1. req' \in [Requests -> Request \cup {None}]
    BY <1>0, <1>2 DEF SendStamp, ReadStamp, Stamps, ChatTypeOK
  <2> QED
    BY <1>0, <1>1, <2>1 DEF ChatTypeOK
<1>5. \A q \in Requests : Sound(q)'
  <2>1. Sound(r)'
    <3>1. req[r].op = "markRead" => message[req[r].message].at <= clock
      BY <1>0, <1>1 DEF Sound, Stamped
    <3>2. req[r].op = "markRead" => message[req[r].message].at \in Nat
      BY <1>0, <1>1 DEF Sound, Posted, ChatTypeOK, Row
    <3> QED
      BY <1>0, <1>1, <1>2, <3>1, <3>2 DEF Sound, Idle, Posted, ChatTypeOK
  <2>2. \A q \in Requests \ {r} : req[q] # None => req[q].at \in Nat
    BY <1>0 DEF ChatTypeOK, Request
  <2> QED
    BY <1>0, <1>1, <1>3, <2>1, <2>2 DEF Sound, Idle, Posted, ChatTypeOK
<1>6. \A q \in Requests : Distinct(q)'
  <2>1. \A q \in Requests : ~Idle(q) => req[q].at \in Nat /\ req[q].at <= clock
    BY <1>0 DEF ChatTypeOK, Request, Idle, Sound
  <2>2. \A m \in Posted : message[m].at \in Nat
    BY <1>0 DEF ChatTypeOK, Row, Posted
  <2>3. \A u \in Users : mark[u] # None => mark[u].at \in Nat
    BY <1>0 DEF ChatTypeOK, Mark
  <2>4. clock \in Nat
    BY <1>0 DEF ChatTypeOK
  <2> QED
    BY <1>0, <1>1, <1>2, <1>3, <2>1, <2>2, <2>3, <2>4 DEF Distinct, Stamped, Idle, Posted
<1>7. Stamped' /\ ReadBefore'
  <2>1. \A m \in Posted : message[m].at \in Nat
    BY <1>0 DEF ChatTypeOK, Row, Posted
  <2>2. \A u \in Users : mark[u] # None => mark[u].at \in Nat
    BY <1>0 DEF ChatTypeOK, Mark
  <2> QED
    BY <1>0, <1>1, <2>1, <2>2 DEF ChatIInv, Stamped, ReadBefore, Posted, ChatTypeOK
<1> QED
  BY <1>4, <1>5, <1>6, <1>7 DEF ChatIInv

\* The conversation is created once, before anything refers to its participants.
LEMMA CreationKeeps ==
  ASSUME ChatIInv, members = {}, members' \in SUBSET Users,
         UNCHANGED <<clock, message, receipt, last, mark, req, furthest, reordered>>
  PROVE  ChatIInv'
  BY DEF ChatIInv, ChatTypeOK, Sound, Distinct, Stamped, ReadBefore, Idle, Posted

LEMMA SendCommitKeeps ==
  ASSUME ChatIInv, NEW r \in Requests, NEW m \in Messages, SendCommit(r, m)
  PROVE  ChatIInv'
<1> DEFINE row == [sender |-> req[r].user, at |-> req[r].at]
<1> DEFINE rows == [u \in Users |->
                     IF u \in Recipients(req[r].user) THEN [delivered |-> FALSE, read |-> FALSE] ELSE None]
<1>0. ChatTypeOK /\ Stamped /\ ReadBefore /\ \A q \in Requests : Sound(q) /\ Distinct(q)
  BY DEF ChatIInv
<1>1. /\ m \notin Posted
      /\ message' = [message EXCEPT ![m] = row]
      /\ receipt' = [receipt EXCEPT ![m] = rows]
      /\ req' = [req EXCEPT ![r] = None]
      /\ last' = m
      /\ UNCHANGED <<members, clock, mark, furthest>>
      /\ reordered' = (reordered \/ Younger(req[r].at))
  BY DEF SendCommit, Ends
<1>2. /\ req[r] \in Request /\ ~Idle(r)
      /\ req[r].at <= clock /\ req[r].at # 0 /\ req[r].user \in members
  BY <1>0 DEF SendCommit, Doing, At, Idle, ChatTypeOK, Sound
<1>3. row \in Row /\ row # None
  BY <1>2, NoneAssumption DEF Row, Request
<1>4. rows \in [Users -> Receipt \cup {None}]
      /\ \A u \in Users : rows[u] # None => ~rows[u].read
  BY DEF Receipt
<1> HIDE DEF rows
<1>5. ChatTypeOK'
  <2>1. message' \in [Messages -> Row \cup {None}]
    BY <1>0, <1>1, <1>3 DEF ChatTypeOK
  <2>2. receipt' \in [Messages -> [Users -> Receipt \cup {None}]]
    BY <1>0, <1>1, <1>4 DEF ChatTypeOK
  <2>3. req' \in [Requests -> Request \cup {None}]
    BY <1>0, <1>1 DEF ChatTypeOK
  <2>4. reordered' \in BOOLEAN
    BY <1>0, <1>1 DEF ChatTypeOK, Younger
  <2> QED
    BY <1>0, <1>1, <2>1, <2>2, <2>3, <2>4 DEF ChatTypeOK
<1>6. /\ Posted' = Posted \cup {m}
      /\ message'[m] = row /\ \A n \in Posted : message'[n] = message[n]
      /\ receipt'[m] = rows /\ \A n \in Posted : receipt'[n] = receipt[n]
      /\ Idle(r)' /\ \A q \in Requests \ {r} : req'[q] = req[q]
  BY <1>0, <1>1, <1>3 DEF Posted, ChatTypeOK, Idle
<1>7. \A q \in Requests : Sound(q)'
  BY <1>0, <1>1, <1>6 DEF Sound, Idle
<1>8. \A q \in Requests : Distinct(q)'
  BY <1>0, <1>1, <1>2, <1>6 DEF Distinct, Idle
<1>9. Stamped' /\ ReadBefore'
  BY <1>0, <1>1, <1>2, <1>4, <1>6 DEF Stamped, ReadBefore
<1> QED
  BY <1>5, <1>7, <1>8, <1>9 DEF ChatIInv

\* What a mark does to the receipts of one message and one recipient.
LEMMA ReceiptChange ==
  ASSUME ChatTypeOK, NEW m \in Messages, NEW u \in Users, NEW e \in Receipt,
         receipt' = [receipt EXCEPT ![m][u] = e]
  PROVE  /\ receipt' \in [Messages -> [Users -> Receipt \cup {None}]]
         /\ receipt'[m][u] = e
         /\ \A n \in Messages, v \in Users : n # m \/ v # u => receipt'[n][v] = receipt[n][v]
  BY DEF ChatTypeOK

LEMMA MarkDeliveredKeeps ==
  ASSUME ChatIInv, NEW r \in Requests, MarkDelivered(r)
  PROVE  ChatIInv'
<1> DEFINE m == req[r].message
<1> DEFINE u == req[r].user
<1> DEFINE e == [receipt[m][u] EXCEPT !.delivered = TRUE]
<1>0. ChatTypeOK /\ Stamped /\ ReadBefore /\ \A q \in Requests : Sound(q) /\ Distinct(q)
  BY DEF ChatIInv
<1>1. m \in Posted /\ u \in Users /\ m \in Messages
  BY <1>0 DEF MarkDelivered, Doing, At, Idle, ChatTypeOK, Sound, Request, Posted
<1>2. receipt[m][u] \in Receipt
  BY <1>0, <1>1 DEF MarkDelivered, ChatTypeOK
<1>3. e \in Receipt /\ e.read = receipt[m][u].read
  BY <1>2 DEF Receipt
<1>4. /\ receipt' = [receipt EXCEPT ![m][u] = e]
      /\ req' = [req EXCEPT ![r] = None]
      /\ UNCHANGED <<members, clock, message, last, mark, furthest, reordered>>
  BY DEF MarkDelivered, Delivered, Ends
<1> HIDE DEF e, m, u
<1>5. /\ receipt' \in [Messages -> [Users -> Receipt \cup {None}]]
      /\ receipt'[m][u] = e
      /\ \A n \in Messages, v \in Users : n # m \/ v # u => receipt'[n][v] = receipt[n][v]
  <2>1. m \in Messages /\ u \in Users /\ e \in Receipt /\ receipt' = [receipt EXCEPT ![m][u] = e]
    BY <1>1, <1>3, <1>4
  <2> QED
    BY <1>0, <2>1, ReceiptChange, ZenonT(40)
<1>6. ChatTypeOK'
  BY <1>0, <1>4, <1>5 DEF ChatTypeOK
<1>7. Idle(r)' /\ \A q \in Requests \ {r} : req'[q] = req[q]
  BY <1>0, <1>4 DEF Idle, ChatTypeOK
<1>8. \A q \in Requests : Sound(q)' /\ Distinct(q)'
  BY <1>0, <1>4, <1>7 DEF Sound, Distinct, Idle, Posted
<1>9. Stamped' /\ ReadBefore'
  <2>1. receipt[m][u] # None
    BY <1>2, NoneAssumption
  <2> QED
    BY <1>0, <1>1, <1>3, <1>4, <1>5, <2>1 DEF Stamped, ReadBefore, Posted
<1> QED
  BY <1>6, <1>8, <1>9 DEF ChatIInv

LEMMA MarkReadKeeps ==
  ASSUME ChatIInv, NEW r \in Requests, MarkRead(r)
  PROVE  ChatIInv'
<1> DEFINE m == req[r].message
<1> DEFINE u == req[r].user
<1> DEFINE t == req[r].at
<1> DEFINE e == [delivered |-> TRUE, read |-> TRUE]
<1> DEFINE new == [message |-> m, at |-> t]
<1>0. ChatTypeOK /\ Stamped /\ ReadBefore /\ \A q \in Requests : Sound(q) /\ Distinct(q)
  BY DEF ChatIInv
<1>1. /\ m \in Posted /\ u \in Users /\ m \in Messages /\ t \in Nat
      /\ t <= clock /\ message[m].at < t /\ message[m].at \in Nat
  BY <1>0 DEF MarkRead, Doing, At, Idle, ChatTypeOK, Sound, Request, Posted, Row
<1>2. e \in Receipt /\ new \in Mark /\ new # None
  BY <1>1, NoneAssumption DEF Receipt, Mark
<1>3. /\ receipt' = [receipt EXCEPT ![m][u] = e]
      /\ mark' = [mark EXCEPT ![u] = new]
      /\ furthest' = [furthest EXCEPT ![u] = IF t > furthest[u] THEN t ELSE furthest[u]]
      /\ req' = [req EXCEPT ![r] = None]
      /\ UNCHANGED <<members, clock, message, last>>
      /\ reordered' = (reordered \/ Younger(t))
  BY DEF MarkRead, Marked, Ends
<1>4. new.at = t /\ ~Idle(r) /\ t # 0
  BY <1>1 DEF MarkRead, Doing, At
<1> HIDE DEF e, m, u, t, new
<1>5. /\ receipt' \in [Messages -> [Users -> Receipt \cup {None}]]
      /\ \A n \in Messages, v \in Users : n # m \/ v # u => receipt'[n][v] = receipt[n][v]
  BY <1>0, <1>1, <1>2, <1>3, ReceiptChange, ZenonT(40)
<1>6. /\ mark'[u] = new /\ \A v \in Users \ {u} : mark'[v] = mark[v]
      /\ furthest'[u] \in Nat /\ furthest'[u] >= t /\ furthest'[u] >= furthest[u]
      /\ \A v \in Users \ {u} : furthest'[v] = furthest[v]
  BY <1>0, <1>1, <1>3 DEF ChatTypeOK
<1>7. ChatTypeOK'
  <2>1. mark' \in [Users -> Mark \cup {None}]
    BY <1>0, <1>2, <1>3 DEF ChatTypeOK
  <2>2. furthest' \in [Users -> Nat]
    BY <1>0, <1>1, <1>3 DEF ChatTypeOK
  <2>3. req' \in [Requests -> Request \cup {None}] /\ reordered' \in BOOLEAN
    BY <1>0, <1>3 DEF ChatTypeOK, Younger
  <2> QED
    BY <1>0, <1>3, <1>5, <2>1, <2>2, <2>3 DEF ChatTypeOK
<1>8. Idle(r)' /\ \A q \in Requests \ {r} : req'[q] = req[q]
  BY <1>0, <1>3 DEF Idle, ChatTypeOK
<1>9. \A q \in Requests : Sound(q)' /\ Distinct(q)'
  BY <1>0, <1>3, <1>4, <1>6, <1>8 DEF Sound, Distinct, Idle, Posted, t
<1>10. Stamped'
  BY <1>0, <1>1, <1>3, <1>4, <1>6 DEF Stamped, Posted
<1>11. ReadBefore'
  <2> SUFFICES ASSUME NEW v \in Users, NEW n \in Posted, receipt'[n][v] # None, receipt'[n][v].read
               PROVE  mark'[v] # None /\ message[n].at <= furthest'[v]
    BY <1>3 DEF ReadBefore, Posted
  <2>0. n \in Messages /\ message[n].at \in Nat /\ furthest[v] \in Nat
    BY <1>0 DEF Posted, ChatTypeOK, Row
  <2>1. CASE n = m /\ v = u
    BY <1>1, <1>2, <1>6, <2>1
  <2>2. CASE n # m \/ v # u
    BY <1>0, <1>2, <1>5, <1>6, <2>0, <2>2 DEF ReadBefore
  <2> QED
    BY <2>1, <2>2
<1> QED
  BY <1>7, <1>9, <1>10, <1>11 DEF ChatIInv

LEMMA SendInsertKeeps ==
  ASSUME ChatIInv, NEW r \in Requests, SendInsert(r)
  PROVE  ChatIInv'
<1> DEFINE q == [req[r] EXCEPT !.pc = "update"]
<1>0. ChatTypeOK /\ Sound(r)
  BY DEF ChatIInv
<1>1. req[r] \in Request /\ ~Idle(r) /\ req[r].op = "sendMessage" /\ req[r].pc = "insert"
  BY <1>0 DEF SendInsert, Doing, At, Idle, ChatTypeOK
<1>2. /\ q \in Request /\ q.at = req[r].at /\ q.pc = "update"
      /\ q.op = req[r].op /\ q.user = req[r].user
  BY <1>1 DEF Request
<1>3. /\ req' = [req EXCEPT ![r] = q]
      /\ UNCHANGED <<members, clock, message, receipt, last, mark, furthest, reordered>>
  BY DEF SendInsert
<1> HIDE DEF q
<1>4. req'[r] = q
  BY <1>0, <1>3 DEF ChatTypeOK
<1>5. Sound(r)'
  BY <1>0, <1>1, <1>2, <1>3, <1>4 DEF Sound, Idle
<1> QED
  BY <1>1, <1>2, <1>3, <1>5, RequestChangeKeeps

\* Timestamps are distinct, and what is read is marked, at all times.
THEOREM ChatInvariance == ChatSpec => []ChatIInv
<1>1. ChatIInv /\ [ChatNext]_chatVars => ChatIInv'
  <2> SUFFICES ASSUME ChatIInv, [ChatNext]_chatVars PROVE ChatIInv'
    OBVIOUS
  <2>1. ASSUME NEW u \in Users, NEW others \in SUBSET Users, CreateGroup(u, others) PROVE ChatIInv'
    BY <2>1, CreationKeeps DEF CreateGroup
  <2> SUFFICES ASSUME NEW r \in Requests, Begin(r) \/ Proceed(r) \/ Abandon(r) PROVE ChatIInv'
    <3>1. CASE UNCHANGED chatVars
      BY <3>1 DEF chatVars, ChatIInv, ChatTypeOK, Sound, Distinct, Stamped, ReadBefore, Idle, Posted
    <3> QED
      BY <2>1, <3>1 DEF ChatNext
  <2>2. CASE CreateDirect(r)
    <3> DEFINE q == req[r]
    <3>1. q.user \in Users /\ q.with \in Users
      BY <2>2 DEF CreateDirect, Doing, At, Idle, ChatIInv, ChatTypeOK, Sound, Request
    <3>2. members = {} /\ members' \in SUBSET Users /\ Ends(r)
          /\ UNCHANGED <<clock, message, receipt, last, mark, furthest, reordered>>
      BY <2>2, <3>1 DEF CreateDirect
    <3>3. ChatTypeOK' /\ req'[r] = None /\ \A p \in Requests \ {r} : req'[p] = req[p]
      BY <3>2 DEF Ends, ChatIInv, ChatTypeOK
    <3>4. \A p \in Requests : Sound(p)' /\ Distinct(p)'
      BY <3>2, <3>3 DEF ChatIInv, Sound, Distinct, Idle, Posted
    <3> QED
      BY <3>2, <3>3, <3>4 DEF ChatIInv, Stamped, ReadBefore, Posted
  <2>3. CASE Begin(r)
    BY <2>3, BeginKeeps
  <2>4. CASE SendStamp(r) \/ ReadStamp(r)
    BY <2>4, StampKeeps
  <2>5. CASE SendInsert(r)
    BY <2>5, SendInsertKeeps
  <2>6. CASE \E m \in Messages : SendCommit(r, m)
    BY <2>6, SendCommitKeeps
  <2>7. CASE MarkDelivered(r)
    BY <2>7, MarkDeliveredKeeps
  <2>8. CASE MarkRead(r)
    BY <2>8, MarkReadKeeps
  <2>9. CASE Abandon(r)
    BY <2>9, EndKeeps DEF Abandon
  <2> QED
    BY <2>2, <2>3, <2>4, <2>5, <2>6, <2>7, <2>8, <2>9 DEF Proceed
<1> QED
  BY <1>1, ChatInitInvariant, PTL DEF ChatSpec

\* The conversation, its receipts and the requests stay well formed.
THEOREM ChatTypeCorrect == ChatSpec => []ChatTypeOK
<1>1. ChatIInv => ChatTypeOK
  BY DEF ChatIInv
<1> QED
  BY <1>1, ChatInvariance, PTL

\* markRead and listConversations: what a participant has read is counted as unread only
\* while a mark stands that has overtaken a younger one.
THEOREM ReadStaysRead == ChatSpec => []ReadNotUnread
<1>1. ChatIInv => ReadNotUnread
  <2> SUFFICES ASSUME ChatIInv, NEW u \in Users, NEW m \in Posted,
                      receipt[m][u] # None, receipt[m][u].read, m \in Unread(u)
               PROVE  Overtaken(u)
    BY DEF ReadNotUnread
  <2>1. mark[u] # None /\ message[m].at <= furthest[u] /\ message[m].at > mark[u].at
    BY DEF ChatIInv, ReadBefore, Unread
  <2>2. message[m].at \in Nat /\ mark[u].at \in Nat /\ furthest[u] \in Nat
    BY <2>1 DEF ChatIInv, ChatTypeOK, Row, Mark, Posted
  <2> QED
    BY <2>1, <2>2 DEF Overtaken
<1> QED
  BY <1>1, ChatInvariance, PTL

-----------------------------------------------------------------------------
(***************************************************************************)
(* The status of a message.                                                *)
(***************************************************************************)

\* Receipts of m that are kept, and lose no mark, give a status no lower.
LEMMA UpgradeRaises ==
  ASSUME NEW m \in Messages,
         \A u \in Users :
           /\ receipt'[m][u] = None <=> receipt[m][u] = None
           /\ receipt[m][u] # None =>
                /\ receipt[m][u].read => receipt'[m][u].read
                /\ receipt[m][u].delivered => receipt'[m][u].delivered
  PROVE  Status(m)' >= Status(m)
<1>1. Receipts(m) = {} <=> Receipts(m)' = {}
  BY DEF Receipts
<1>2. (\A e \in Receipts(m) : e.read) => (\A e \in Receipts(m)' : e.read)
  BY DEF Receipts
<1>3. (\A e \in Receipts(m) : e.delivered) => (\A e \in Receipts(m)' : e.delivered)
  BY DEF Receipts
<1> QED
  BY <1>1, <1>2, <1>3 DEF Status

LEMMA StatusStep ==
  ASSUME ChatTypeOK, [ChatNext]_chatVars, NEW m \in Posted
  PROVE  Status(m)' >= Status(m)
<1>0. m \in Messages
  BY DEF Posted
<1>1. CASE UNCHANGED receipt
  BY <1>0, <1>1, UpgradeRaises
<1>2. ASSUME NEW r \in Requests, NEW n \in Messages, SendCommit(r, n)
      PROVE  Status(m)' >= Status(m)
  <2>1. receipt'[m] = receipt[m]
    BY <1>0, <1>2 DEF SendCommit, ChatTypeOK
  <2> QED
    BY <1>0, <2>1, UpgradeRaises
<1>3. ASSUME NEW r \in Requests, NEW e \in Receipt,
             req[r] \in Request, req[r].message \in Messages,
             receipt' = [receipt EXCEPT ![req[r].message][req[r].user] = e],
             receipt[req[r].message][req[r].user] # None,
             receipt[req[r].message][req[r].user].read => e.read,
             e.delivered
      PROVE  Status(m)' >= Status(m)
  <2> DEFINE n == req[r].message
  <2> DEFINE u == req[r].user
  <2>1. n \in Messages /\ u \in Users
    BY <1>3 DEF Request
  <2>2. e # None
    BY NoneAssumption
  <2>3. receipt[n][u] # None /\ (receipt[n][u].read => e.read)
    BY <1>3
  <2>4. receipt' = [receipt EXCEPT ![n][u] = e]
    BY <1>3
  <2> HIDE DEF n, u
  <2>5. /\ receipt'[n][u] = e
        /\ \A k \in Messages, v \in Users : k # n \/ v # u => receipt'[k][v] = receipt[k][v]
    BY <2>1, <2>4, ReceiptChange, ZenonT(40)
  <2>6. \A v \in Users :
          /\ receipt'[m][v] = None <=> receipt[m][v] = None
          /\ receipt[m][v] # None =>
               /\ receipt[m][v].read => receipt'[m][v].read
               /\ receipt[m][v].delivered => receipt'[m][v].delivered
    BY <1>0, <1>3, <2>2, <2>3, <2>5
  <2> QED
    BY <1>0, <2>6, UpgradeRaises
<1>4. ASSUME NEW r \in Requests, MarkDelivered(r) \/ MarkRead(r), receipt' # receipt
      PROVE  Status(m)' >= Status(m)
  <2> DEFINE n == req[r].message
  <2> DEFINE u == req[r].user
  <2>1. req[r] \in Request /\ ~Idle(r) /\ u \in Users
    BY <1>4 DEF MarkDelivered, MarkRead, Doing, At, Idle, ChatTypeOK, Request
  <2>2. CASE n \notin Messages
    BY <1>4, <2>2 DEF MarkDelivered, MarkRead, ChatTypeOK
  <2>3. CASE n \in Messages /\ MarkDelivered(r)
    <3>1. receipt[n][u] \in Receipt
      BY <2>1, <2>3 DEF MarkDelivered, ChatTypeOK
    <3>2. /\ Delivered(receipt[n][u]) \in Receipt
          /\ Delivered(receipt[n][u]).read = receipt[n][u].read
          /\ Delivered(receipt[n][u]).delivered
      BY <3>1 DEF Delivered, Receipt
    <3>3. receipt' = [receipt EXCEPT ![n][u] = Delivered(receipt[n][u])] /\ receipt[n][u] # None
      BY <2>3 DEF MarkDelivered, Delivered
    <3> QED
      BY <1>3, <2>1, <2>3, <3>2, <3>3
  <2>4. CASE n \in Messages /\ MarkRead(r)
    <3>1. [delivered |-> TRUE, read |-> TRUE] \in Receipt
      BY DEF Receipt
    <3>2. /\ receipt' = [receipt EXCEPT ![n][u] = [delivered |-> TRUE, read |-> TRUE]]
          /\ receipt[n][u] # None
      BY <2>4 DEF MarkRead
    <3> QED
      BY <1>3, <2>1, <2>4, <3>1, <3>2
  <2> QED
    BY <1>4, <2>2, <2>3, <2>4
<1>5. CASE UNCHANGED chatVars
  BY <1>1, <1>5 DEF chatVars
<1>6. ASSUME NEW r \in Requests, Begin(r) PROVE UNCHANGED receipt
  BY <1>6 DEF Begin, BeginSend, BeginDirect, BeginMark, Begins
<1>7. ASSUME NEW r \in Requests, Abandon(r) \/ CreateDirect(r) \/ SendStamp(r) \/ SendInsert(r) \/ ReadStamp(r)
      PROVE  UNCHANGED receipt
  BY <1>7 DEF Abandon, CreateDirect, SendStamp, SendInsert, ReadStamp, Stamps
<1>8. ASSUME NEW u \in Users, NEW others \in SUBSET Users, CreateGroup(u, others)
      PROVE  UNCHANGED receipt
  BY <1>8 DEF CreateGroup
<1> QED
  BY <1>1, <1>2, <1>4, <1>5, <1>6, <1>7, <1>8 DEF ChatNext, Proceed

\* resolveMessageReceiptStatus: whatever order the recipients' marks come in, the status
\* of a message goes from sent to delivered to read and never back.
THEOREM StatusOnlyRises == ChatSpec => StatusNeverBack
<1>1. ChatTypeOK /\ [ChatNext]_chatVars => [\A m \in Posted : Status(m)' >= Status(m)]_chatVars
  BY StatusStep
<1> QED
  BY <1>1, ChatTypeCorrect, PTL DEF ChatSpec, StatusNeverBack

-----------------------------------------------------------------------------
(***************************************************************************)
(* The timeline.  While timestamps and commits agree, the stamp of a send  *)
(* is younger than every mark, and the stamp of a read no older than any   *)
(* message: counting by timestamps is counting by message.                 *)
(***************************************************************************)

LEMMA UnreadIsFinite ==
  ASSUME NEW u \in Users
  PROVE  IsFiniteSet(Unread(u))
  BY MessagesAssumption, FS_Subset DEF Unread, Posted

\* What no participant has posted, nobody has to read.
LEMMA NothingPosted ==
  ASSUME ChatIInv, members = {}
  PROVE  Posted = {} /\ \A u \in Users : Cardinality(Unread(u)) = 0
  BY FS_EmptySet DEF ChatIInv, Stamped, Unread

LEMMA OpenStep ==
  ASSUME ChatIInv, members = {}, members' \in SUBSET Users, members' # {},
         UNCHANGED <<message, last, mark>>
  PROVE  Timeline!TimelineNext
<1>1. Posted = {} /\ Posted' = {}
  BY NothingPosted DEF Posted
<1>2. \A u \in Users : Unread(u)' = Unread(u)
  BY <1>1 DEF Unread
<1>3. \A u \in Users : Cardinality(Unread(u)) = 0 /\ Cardinality(Unread(u)') = 0
  BY <1>2, NothingPosted
<1>4. Timeline!Open(members')
  BY <1>1, <1>3 DEF Timeline!Open
<1> QED
  BY <1>4 DEF Timeline!TimelineNext

LEMMA PostStep ==
  ASSUME ChatIInv, NEW r \in Requests, NEW m \in Messages, SendCommit(r, m), ~reordered'
  PROVE  \E w \in Users : Timeline!Post(w, m)
<1>0. ChatTypeOK /\ Sound(r) /\ Distinct(r) /\ req[r] \in Request /\ ~Idle(r)
  BY DEF ChatIInv, SendCommit, Doing, At, Idle, ChatTypeOK
<1> PICK w \in Users, t \in Nat : w = req[r].user /\ t = req[r].at
  BY <1>0 DEF Request
<1>1. /\ t # 0 /\ w \in members
      /\ m \notin Posted
      /\ message' = [message EXCEPT ![m] = [sender |-> w, at |-> t]]
      /\ last' = m
      /\ UNCHANGED <<members, mark>>
      /\ ~Younger(t)
  BY <1>0 DEF SendCommit, Doing, At, Sound
<1>2. ASSUME NEW u \in Users, mark[u] # None PROVE t > mark[u].at
  <2>1. mark[u].at \in Nat
    BY <1>0, <1>2 DEF ChatTypeOK, Mark
  <2>2. mark[u].at # t
    BY <1>0, <1>1, <1>2 DEF Distinct
  <2> QED
    BY <1>1, <1>2, <2>1, <2>2 DEF Younger
<1>3. [sender |-> w, at |-> t] # None
  BY NoneAssumption DEF Row
<1>4. /\ Posted' = Posted \cup {m}
      /\ message'[m].sender = w /\ message'[m].at = t
      /\ \A n \in Posted : message'[n] = message[n]
  BY <1>0, <1>1, <1>3 DEF Posted, ChatTypeOK
<1>5. ASSUME NEW u \in Users \ {w} PROVE Unread(u)' = Unread(u) \cup {m}
  BY <1>1, <1>2, <1>4 DEF Unread
<1>6. Unread(w)' = Unread(w)
  BY <1>1, <1>4 DEF Unread
<1>7. ASSUME NEW u \in Users \ {w} PROVE Cardinality(Unread(u)') = Cardinality(Unread(u)) + 1
  <2>1. m \notin Unread(u)
    BY <1>1 DEF Unread
  <2>2. Cardinality(Unread(u) \cup {m}) = Cardinality(Unread(u)) + 1
    BY <2>1, UnreadIsFinite, FS_AddElement
  <2> QED
    BY <1>5, <2>2
<1>8. [u \in Users |-> IF u \in members' THEN Cardinality(Unread(u)') ELSE 0]
        = [v \in Users |->
            IF v \in members \ {w}
            THEN [u \in Users |-> IF u \in members THEN Cardinality(Unread(u)) ELSE 0][v] + 1
            ELSE [u \in Users |-> IF u \in members THEN Cardinality(Unread(u)) ELSE 0][v]]
  BY <1>1, <1>6, <1>7
<1>9. Timeline!Post(w, m)
  BY <1>1, <1>4, <1>8 DEF Timeline!Post
<1> QED
  BY <1>9

LEMMA ReadStep ==
  ASSUME ChatIInv, NEW r \in Requests, MarkRead(r), ~reordered'
  PROVE  \E w \in Users : Timeline!Read(w)
<1>0. ChatTypeOK /\ Sound(r) /\ req[r] \in Request /\ ~Idle(r)
  BY DEF ChatIInv, MarkRead, Doing, At, Idle, ChatTypeOK
<1> PICK w \in Users, t \in Nat : w = req[r].user /\ t = req[r].at
  BY <1>0 DEF Request
<1> PICK new : new = [message |-> req[r].message, at |-> t]
  OBVIOUS
<1>1. /\ req[r].message \in Posted
      /\ mark' = [mark EXCEPT ![w] = new]
      /\ UNCHANGED <<members, message, last>>
      /\ ~Younger(t)
  BY <1>0 DEF MarkRead, Marked, Doing, At, Sound
<1>2. \A m \in Posted : message[m].at \in Nat /\ message[m].at <= t
  BY <1>0, <1>1 DEF Younger, Posted, ChatTypeOK, Row
<1>3. new # None /\ new.at = t
  BY <1>1, NoneAssumption DEF Mark, Posted
<1>4. mark'[w] = new /\ \A u \in Users \ {w} : mark'[u] = mark[u]
  BY <1>0, <1>1 DEF ChatTypeOK
<1>5. Posted' = Posted /\ \A u \in Users \ {w} : Unread(u)' = Unread(u)
  BY <1>1, <1>4 DEF Unread, Posted
<1>6. Unread(w)' = {}
  BY <1>1, <1>2, <1>3, <1>4, <1>5 DEF Unread
<1>7. Cardinality(Unread(w)') = 0
  BY <1>6, FS_EmptySet
<1>8. [u \in Users |-> IF u \in members' THEN Cardinality(Unread(u)') ELSE 0]
        = [[u \in Users |-> IF u \in members THEN Cardinality(Unread(u)) ELSE 0] EXCEPT ![w] = 0]
  BY <1>1, <1>5, <1>7
<1>9. Timeline!Read(w)
  BY <1>1, <1>5, <1>8 DEF Timeline!Read
<1> QED
  BY <1>9

LEMMA TimelineStep ==
  ASSUME ChatIInv, [ChatNext]_chatVars
  PROVE  [reordered' \/ Timeline!TimelineNext]_(Timeline!timelineVars)
<1>1. ASSUME UNCHANGED <<members, message, last, mark>>
      PROVE  UNCHANGED Timeline!timelineVars
  <2>1. Posted' = Posted /\ \A u \in Users : Unread(u)' = Unread(u)
    BY <1>1 DEF Unread, Posted
  <2>2. [u \in Users |-> IF u \in members' THEN Cardinality(Unread(u)') ELSE 0]
          = [u \in Users |-> IF u \in members THEN Cardinality(Unread(u)) ELSE 0]
    BY <1>1, <2>1
  <2> QED
    BY <1>1, <2>1, <2>2 DEF Timeline!timelineVars
<1>2. ASSUME NEW u \in Users, NEW others \in SUBSET Users, CreateGroup(u, others)
      PROVE  Timeline!TimelineNext
  BY <1>2, OpenStep DEF CreateGroup
<1>3. ASSUME NEW r \in Requests, CreateDirect(r)
      PROVE  Timeline!TimelineNext
  <2>1. req[r].user \in Users /\ req[r].with \in Users
    BY <1>3 DEF CreateDirect, Doing, At, Idle, ChatIInv, ChatTypeOK, Sound, Request
  <2> QED
    BY <1>3, <2>1, OpenStep DEF CreateDirect
<1>4. ASSUME NEW r \in Requests, NEW m \in Messages, SendCommit(r, m), ~reordered'
      PROVE  Timeline!TimelineNext
  BY <1>4, PostStep DEF Timeline!TimelineNext
<1>5. ASSUME NEW r \in Requests, MarkRead(r), ~reordered'
      PROVE  Timeline!TimelineNext
  BY <1>5, ReadStep DEF Timeline!TimelineNext
<1>6. ASSUME NEW r \in Requests,
             Begin(r) \/ Abandon(r) \/ SendStamp(r) \/ SendInsert(r) \/ ReadStamp(r) \/ MarkDelivered(r)
      PROVE  UNCHANGED <<members, message, last, mark>>
  <2>1. CASE Begin(r)
    BY <2>1 DEF Begin, BeginSend, BeginDirect, BeginMark, Begins
  <2>2. CASE Abandon(r) \/ SendStamp(r) \/ SendInsert(r) \/ ReadStamp(r) \/ MarkDelivered(r)
    BY <2>2 DEF Abandon, SendStamp, SendInsert, ReadStamp, Stamps, MarkDelivered
  <2> QED
    BY <1>6, <2>1, <2>2
<1>7. CASE UNCHANGED chatVars
  BY <1>1, <1>7 DEF chatVars
<1> QED
  BY <1>1, <1>2, <1>3, <1>4, <1>5, <1>6, <1>7 DEF ChatNext, Proceed

\* sendMessage, markRead and listConversations implement the promise of a conversation,
\* of any participants and messages, while commits follow the timestamps.
THEOREM ChatImplementsTimeline == ChatSpec => ImplementsTimeline
<1>1. ChatInit => Timeline!TimelineInit
  <2> SUFFICES ASSUME ChatInit PROVE Timeline!TimelineInit
    OBVIOUS
  <2>1. Posted = {} /\ members = {} /\ last = None
    BY DEF ChatInit, Posted
  <2>2. [u \in Users |-> IF u \in members THEN Cardinality(Unread(u)) ELSE 0] = [u \in Users |-> 0]
    BY <2>1
  <2> QED
    BY <2>1, <2>2 DEF Timeline!TimelineInit
<1>2. ChatIInv /\ [ChatNext]_chatVars
        => [reordered' \/ Timeline!TimelineNext]_(Timeline!timelineVars)
  BY TimelineStep
<1> QED
  BY <1>1, <1>2, ChatInvariance, PTL DEF ChatSpec, ImplementsTimeline

=============================================================================
