---------------------------- MODULE ChatMessages ----------------------------
(***************************************************************************)
(* One conversation (chat.service.ts): its creation, its messages, the     *)
(* receipts of their recipients and what each participant has read.        *)
(*                                                                         *)
(* Timestamps are taken before the statement that stores them, from a      *)
(* clock that moves on with every timestamp.  Transactions run under READ  *)
(* COMMITTED.  The insert of a message holds a share of the conversation's *)
(* row (its foreign key) until the transaction ends, and the update of     *)
(* lastMessageId, a unique key, waits for the shares of the others: two    *)
(* sends that have both inserted wait for each other, and the database     *)
(* fails one of them.                                                      *)
(***************************************************************************)
EXTENDS FiniteSets, Naturals

CONSTANTS
  Users,      \* users of the chat
  Messages,   \* bound: ids of messages
  Requests,   \* slots for requests in flight
  MaxTime,    \* bound: timestamps taken
  None        \* no message, no mark, no request

ASSUME TimeAssumption == MaxTime \in Nat
ASSUME MessagesAssumption == IsFiniteSet(Messages)

Row == [sender : Users, at : Nat]
Receipt == [delivered : BOOLEAN, read : BOOLEAN]
Mark == [message : Messages, at : Nat]

\* A request, what it is at, and the timestamp it has taken (0 before).
Request ==
  [op : {"createDirect", "sendMessage", "markDelivered", "markRead"},
   pc : {"create", "stamp", "insert", "update", "write"},
   user : Users, with : Users \cup {None}, message : Messages \cup {None}, at : Nat]

ASSUME NoneAssumption == None \notin Row \cup Receipt \cup Mark \cup Request

VARIABLES
  members,    \* participants, {} before the conversation is created
  clock,
  message,    \* chat_messages, committed
  receipt,    \* chat_message_receipts of each message
  last,       \* lastMessageId of the conversation
  mark,       \* lastReadMessageId and lastReadAt of each participant
  req,        \* requests in flight
  furthest,   \* history: the youngest timestamp each participant marked with
  reordered   \* history: sends and reads have committed against their timestamps

chatVars == <<members, clock, message, receipt, last, mark, req, furthest, reordered>>

ChatInit ==
  /\ members = {}
  /\ clock = 0
  /\ message = [m \in Messages |-> None]
  /\ receipt = [m \in Messages |-> [u \in Users |-> None]]
  /\ last = None
  /\ mark = [u \in Users |-> None]
  /\ req = [r \in Requests |-> None]
  /\ furthest = [u \in Users |-> 0]
  /\ reordered = FALSE

Idle(r)     == req[r] = None
At(r, pc)   == ~Idle(r) /\ req[r].pc = pc
Doing(r, op, pc) == At(r, pc) /\ req[r].op = op
Posted      == {m \in Messages : message[m] # None}
InFlight    == {r \in Requests : ~Idle(r)}

Ends(r) == req' = [req EXCEPT ![r] = None]

Begins(r, q) ==
  /\ Idle(r)
  /\ clock + Cardinality({other \in InFlight : At(other, "stamp")}) < MaxTime
  /\ req' = [req EXCEPT ![r] = q]
  /\ UNCHANGED <<members, clock, message, receipt, last, mark, furthest, reordered>>

Blank(op, pc, u) ==
  [op |-> op, pc |-> pc, user |-> u, with |-> None, message |-> None, at |-> 0]

Stamps(r, pc) ==
  /\ At(r, "stamp")
  /\ clock' = clock + 1
  /\ req' = [req EXCEPT ![r].at = clock', ![r].pc = pc]
  /\ UNCHANGED <<members, message, receipt, last, mark, furthest, reordered>>

(***************************************************************************)
(* Creation: the group at once; the direct one after a look for the pair,  *)
(* whose key is unique.                                                    *)
(***************************************************************************)
CreateGroup(u, others) ==
  /\ members = {}
  /\ members' = {u} \cup others
  /\ UNCHANGED <<clock, message, receipt, last, mark, req, furthest, reordered>>

BeginDirect(r, u, v) ==
  /\ u # v
  /\ members = {}
  /\ Begins(r, [Blank("createDirect", "create", u) EXCEPT !.with = v])

CreateDirect(r) ==
  /\ Doing(r, "createDirect", "create")
  /\ members = {}
  /\ members' = {req[r].user, req[r].with}
  /\ Ends(r)
  /\ UNCHANGED <<clock, message, receipt, last, mark, furthest, reordered>>

(***************************************************************************)
(* sendMessage: createdAt, the message, then its receipts and lastMessage. *)
(***************************************************************************)
BeginSend(r, u) ==
  /\ u \in members
  /\ Cardinality(Posted) + Cardinality({q \in InFlight : req[q].op = "sendMessage"})
       < Cardinality(Messages)
  /\ Begins(r, Blank("sendMessage", "stamp", u))

SendStamp(r) == ~Idle(r) /\ req[r].op = "sendMessage" /\ Stamps(r, "insert")

SendInsert(r) ==
  /\ Doing(r, "sendMessage", "insert")
  /\ req' = [req EXCEPT ![r].pc = "update"]
  /\ UNCHANGED <<members, clock, message, receipt, last, mark, furthest, reordered>>

\* A message or a mark with a younger timestamp has been committed.
Younger(t) ==
  \/ \E m \in Posted : message[m].at > t
  \/ \E u \in Users : mark[u] # None /\ mark[u].at > t

\* Others whose share of the conversation's row the update waits for.
Sharers(r) == {q \in Requests \ {r} : Doing(q, "sendMessage", "update")}

Recipients(u) == members \ {u}

SendCommit(r, m) ==
  /\ Doing(r, "sendMessage", "update")
  /\ Sharers(r) = {}
  /\ m \notin Posted
  /\ message' = [message EXCEPT ![m] = [sender |-> req[r].user, at |-> req[r].at]]
  /\ receipt' = [receipt EXCEPT ![m] = [u \in Users |->
       IF u \in Recipients(req[r].user) THEN [delivered |-> FALSE, read |-> FALSE]
       ELSE None]]
  /\ last' = m
  /\ reordered' = (reordered \/ Younger(req[r].at))
  /\ Ends(r)
  /\ UNCHANGED <<members, clock, mark, furthest>>

(***************************************************************************)
(* markDelivered, markRead of a message that was found.                    *)
(***************************************************************************)
BeginMark(r, op, u, m) ==
  /\ m \in Posted
  /\ u \in members
  /\ Begins(r, [Blank(op, IF op = "markRead" THEN "stamp" ELSE "write", u)
                EXCEPT !.message = m])

\* Mutant: the receipt is written anew.
DeliveredAnew(row) == [delivered |-> TRUE, read |-> FALSE]
Delivered(row) == [row EXCEPT !.delivered = TRUE]

MarkDelivered(r) ==
  /\ Doing(r, "markDelivered", "write")
  /\ receipt[req[r].message][req[r].user] # None
  /\ receipt' = [receipt EXCEPT ![req[r].message][req[r].user] = Delivered(@)]
  /\ Ends(r)
  /\ UNCHANGED <<members, clock, message, last, mark, furthest, reordered>>

ReadStamp(r) == ~Idle(r) /\ req[r].op = "markRead" /\ Stamps(r, "write")

Marked(old, m, t) == [message |-> m, at |-> t]

MarkRead(r) ==
  LET u == req[r].user  m == req[r].message  t == req[r].at IN
  /\ Doing(r, "markRead", "write")
  /\ receipt[m][u] # None
  /\ receipt' = [receipt EXCEPT ![m][u] = [delivered |-> TRUE, read |-> TRUE]]
  /\ mark' = [mark EXCEPT ![u] = Marked(@, m, t)]
  /\ furthest' = [furthest EXCEPT ![u] = IF t > @ THEN t ELSE @]
  /\ reordered' = (reordered \/ Younger(t))
  /\ Ends(r)
  /\ UNCHANGED <<members, clock, message, last>>

\* A request is rolled back: an error (no receipt, as for the sender's own message;
\* the pair exists), a crash, or two sends that wait for each other.
Abandon(r) ==
  /\ ~Idle(r)
  /\ Ends(r)
  /\ UNCHANGED <<members, clock, message, receipt, last, mark, furthest, reordered>>

Begin(r) ==
  \E u \in Users :
    \/ BeginSend(r, u)
    \/ \E v \in Users : BeginDirect(r, u, v)
    \/ \E m \in Messages, op \in {"markDelivered", "markRead"} : BeginMark(r, op, u, m)

Proceed(r) ==
  \/ CreateDirect(r) \/ SendStamp(r) \/ SendInsert(r)
  \/ \E m \in Messages : SendCommit(r, m)
  \/ MarkDelivered(r) \/ ReadStamp(r) \/ MarkRead(r)

ChatNext ==
  \/ \E u \in Users, others \in SUBSET Users : CreateGroup(u, others)
  \/ \E r \in Requests : Begin(r) \/ Proceed(r) \/ Abandon(r)

ChatSpec == ChatInit /\ [][ChatNext]_chatVars

(***************************************************************************)
(* What listConversations computes.                                        *)
(***************************************************************************)
\* Mutant: the user's own messages count.
UnreadOfAll(u) == {m \in Posted : mark[u] = None \/ message[m].at > mark[u].at}

\* Mutant: what is younger than the message read last counts, not than its reading.
UnreadAfterMarked(u) ==
  {m \in Posted : message[m].sender # u
                  /\ (mark[u] = None \/ message[m].at > message[mark[u].message].at)}

Unread(u) ==
  {m \in Posted : message[m].sender # u
                  /\ (mark[u] = None \/ message[m].at > mark[u].at)}

Receipts(m) == {receipt[m][u] : u \in {v \in Users : receipt[m][v] # None}}

\* resolveMessageReceiptStatus: 0 for sent, 1 for delivered, 2 for read.
Status(m) ==
  IF Receipts(m) = {} THEN 0
  ELSE IF \A e \in Receipts(m) : e.read THEN 2
  ELSE IF \A e \in Receipts(m) : e.delivered THEN 1
  ELSE 0

(***************************************************************************)
(* Properties.                                                             *)
(***************************************************************************)

\* The status the sender sees of a message never goes back, in whatever order
\* the recipients' marks come in.
StatusNeverBack == [][\A m \in Posted : Status(m)' >= Status(m)]_chatVars

\* The mark of a participant is older than one it has replaced.
Overtaken(u) == mark[u] # None /\ mark[u].at < furthest[u]

\* A message that a participant has read is not counted as unread, unless an older
\* mark of the same participant has overtaken a younger one and still stands.
ReadNotUnread ==
  \A u \in Users, m \in Posted :
    receipt[m][u] # None /\ receipt[m][u].read => m \notin Unread(u) \/ Overtaken(u)

Timeline == INSTANCE ChatTimeline WITH
  posted <- Posted,
  latest <- last,
  unread <- [u \in Users |-> IF u \in members THEN Cardinality(Unread(u)) ELSE 0]

\* Counting by timestamps implements counting by message, as long as sends and
\* reads commit in the order of their timestamps.
ImplementsTimeline ==
  Timeline!TimelineInit /\ [][reordered' \/ Timeline!TimelineNext]_(Timeline!timelineVars)

=============================================================================
