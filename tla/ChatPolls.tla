----------------------------- MODULE ChatPolls -----------------------------
(***************************************************************************)
(* The votes of one poll (votePoll of chat.service.ts).  A vote is one     *)
(* transaction under READ COMMITTED: in a poll with a single answer it     *)
(* deletes the voter's votes, then it upserts the options of the request   *)
(* one by one.  The delete finds its rows in a snapshot, locks them one    *)
(* after the other and passes over a row that somebody has deleted in the  *)
(* meantime; an upsert waits for a transaction that has inserted, updated  *)
(* or deleted the same row.                                                *)
(***************************************************************************)
EXTENDS FiniteSets, Naturals

CONSTANTS
  Voters,     \* participants of the conversation
  Options,    \* options of the poll
  Requests,   \* slots for votes in flight
  None        \* no request

ASSUME OptionsAssumption == IsFiniteSet(Options)

Vote == Voters \X Options

Request ==
  [pc : {"delete", "remove", "upsert"}, voter : Voters, options : SUBSET Options,
   rows : SUBSET Vote, gone : SUBSET Vote, put : SUBSET Vote, alone : BOOLEAN]

ASSUME NoneAssumption == None \notin Request

VARIABLES
  single,     \* the poll allows a single answer
  votes,      \* chat_poll_votes, committed: pairs of a voter and an option
  req,        \* requests in flight: what each asks for and the rows it has yet to
              \* lock, has deleted and has put; alone: no vote of its voter was beside it
  latest,     \* history: options of the voter's last vote that committed
  raced       \* history: voters whose last vote had others of theirs beside it

pollVars == <<single, votes, req, latest, raced>>

PollInit ==
  /\ single \in BOOLEAN
  /\ votes = {}
  /\ req = [r \in Requests |-> None]
  /\ latest = [v \in Voters |-> {}]
  /\ raced = {}

Idle(r)   == req[r] = None
At(r, pc) == ~Idle(r) /\ req[r].pc = pc
Of(v)     == {b \in votes : b[1] = v}
Ballot(r) == {req[r].voter} \X req[r].options

\* Rows a transaction keeps from the others until it ends.
Locked(r)    == IF Idle(r) THEN {} ELSE req[r].gone \cup req[r].put
Free(r, row) == \A q \in Requests \ {r} : row \notin Locked(q)

Starts(r, v, list, pc) ==
  LET beside == {q \in Requests : ~Idle(q) /\ req[q].voter = v} IN
  req' = [q \in Requests |->
    IF q = r THEN [pc |-> pc, voter |-> v, options |-> list, rows |-> {}, gone |-> {},
                   put |-> {}, alone |-> beside = {}]
    ELSE IF q \in beside THEN [req[q] EXCEPT !.alone = FALSE]
    ELSE req[q]]

\* Mutant: several answers pass.
AcceptsAll(list) == list # {}
Accepts(list) == list # {} /\ (single => Cardinality(list) = 1)

BeginVote(r, v, list) ==
  /\ Idle(r)
  /\ Accepts(list)
  /\ Starts(r, v, list, IF single THEN "delete" ELSE "upsert")
  /\ UNCHANGED <<single, votes, latest, raced>>

DeleteVotes(r) ==
  /\ At(r, "delete")
  /\ req' = [req EXCEPT ![r].rows = Of(req[r].voter), ![r].pc = "remove"]
  /\ UNCHANGED <<single, votes, latest, raced>>

DeleteRow(r, row) ==
  /\ At(r, "remove")
  /\ row \in req[r].rows
  /\ Free(r, row)
  /\ req' = [req EXCEPT ![r].rows = @ \ {row}, ![r].gone = @ \cup {row}]
  /\ UNCHANGED <<single, votes, latest, raced>>

Deleted(r) ==
  /\ At(r, "remove")
  /\ req[r].rows = {}
  /\ req' = [req EXCEPT ![r].pc = "upsert"]
  /\ UNCHANGED <<single, votes, latest, raced>>

Upsert(r, row) ==
  /\ At(r, "upsert")
  /\ row \in Ballot(r) \ req[r].put
  /\ Free(r, row)
  /\ req' = [req EXCEPT ![r].put = @ \cup {row}]
  /\ UNCHANGED <<single, votes, latest, raced>>

\* Mutant: the votes are deleted after the new ones are written.
ResultDeletedLast(r) == (votes \cup req[r].put) \ req[r].gone
Result(r) == (votes \ req[r].gone) \cup req[r].put

\* Mutant: the transaction stays open.
EndsNever(r) == req' = [req EXCEPT ![r].pc = "done"]

\* Who waited for a row that is deleted now passes over it.
Ends(r) ==
  req' = [q \in Requests |->
    IF q = r \/ Idle(q) THEN None ELSE [req[q] EXCEPT !.rows = @ \ req[r].gone]]

Commit(r) ==
  /\ At(r, "upsert")
  /\ Ballot(r) = req[r].put
  /\ votes' = Result(r)
  /\ latest' = [latest EXCEPT ![req[r].voter] = req[r].options]
  /\ raced' = IF req[r].alone THEN raced \ {req[r].voter} ELSE raced \cup {req[r].voter}
  /\ Ends(r)
  /\ UNCHANGED single

\* The transaction rolls back: its server dies, or it waits for a transaction
\* that waits for it and the database chooses it as the victim.
Abandon(r) ==
  /\ ~Idle(r)
  /\ req' = [req EXCEPT ![r] = None]
  /\ UNCHANGED <<single, votes, latest, raced>>

Needs(r) ==
  CASE At(r, "remove") -> req[r].rows
    [] At(r, "upsert") -> Ballot(r) \ req[r].put
    [] OTHER           -> {}

Deadlocked(r) ==
  \E D \in SUBSET Requests :
    /\ r \in D
    /\ \A q \in D : Needs(q) \cap UNION {Locked(p) : p \in D \ {q}} # {}

Victim(r) == Deadlocked(r) /\ Abandon(r)

Proceed(r) ==
  \/ DeleteVotes(r) \/ Deleted(r) \/ Commit(r)
  \/ \E row \in Vote : DeleteRow(r, row) \/ Upsert(r, row)

Next ==
  \E r \in Requests :
    \/ \E v \in Voters, list \in SUBSET Options : BeginVote(r, v, list)
    \/ Proceed(r) \/ Victim(r) \/ Abandon(r)

\* A vote goes on while its server lives; row locks are granted in turn.
PollFairness == \A r \in Requests : SF_pollVars(Proceed(r) \/ Victim(r))

PollSpec == PollInit /\ [][Next]_pollVars /\ PollFairness

(***************************************************************************)
(* Properties.                                                             *)
(***************************************************************************)

\* 'This poll allows only one answer per participant', which votePoll says of one
\* request, holds of the votes that are counted, unless the voter's last vote had
\* another one beside it: the next vote that is alone makes it true again.
OneAnswer == single => \A v \in Voters \ raced : Cardinality(Of(v)) <= 1

\* What a voter answered last is counted until the voter answers again, though
\* other votes of the voter delete and write the same rows meanwhile.
LatestStands == \A v \in Voters : {v} \X latest[v] \subseteq votes

\* Every vote ends, though votes wait for each other's rows.
VotesEnd == \A r \in Requests : ~Idle(r) ~> Idle(r)

=============================================================================
