-------------------------- MODULE ChatPollsProofs --------------------------
(***************************************************************************)
(* Safety of ChatPolls, for any voters, options and votes at a time.       *)
(*                                                                         *)
(* What a vote keeps from the others are rows of its own voter, so that a  *)
(* commit changes nobody else's votes.  A vote that has had no other of    *)
(* its voter beside it has deleted all that the voter had: what it finds   *)
(* in its snapshot and what it still has to lock are the voter's votes     *)
(* until it commits.                                                       *)
(***************************************************************************)
EXTENDS ChatPolls, FiniteSetTheorems, TLAPS

\* The type invariant of the votes and the requests.
PollTypeOK ==
  /\ single \in BOOLEAN
  /\ votes \subseteq Vote
  /\ req \in [Requests -> Request \cup {None}]
  /\ latest \in [Voters -> SUBSET Options]
  /\ raced \subseteq Voters

\* A request touches rows of its voter, and puts votes it asks for.
Own(r) ==
  ~Idle(r) =>
    /\ \A b \in req[r].rows \cup req[r].gone : b[1] = req[r].voter
    /\ req[r].put \subseteq Ballot(r)
    /\ single => Cardinality(req[r].options) = 1

\* A request that is alone has the voter's votes in hand.
Alone(r) ==
  ~Idle(r) /\ req[r].alone =>
    /\ \A q \in Requests \ {r} : ~Idle(q) => req[q].voter # req[r].voter
    /\ req[r].pc = "delete" => req[r].gone = {}
    /\ req[r].pc = "remove" => Of(req[r].voter) = req[r].rows \cup req[r].gone
    /\ req[r].pc = "upsert" /\ single => Of(req[r].voter) = req[r].gone

PollIInv ==
  /\ PollTypeOK
  /\ \A r \in Requests : Own(r) /\ Alone(r)
  /\ LatestStands
  /\ OneAnswer

LEMMA PollInitInvariant == PollInit => PollIInv
<1> SUFFICES ASSUME PollInit PROVE PollIInv
  OBVIOUS
<1>1. PollTypeOK /\ LatestStands
  BY DEF PollInit, PollTypeOK, LatestStands
<1>2. \A r \in Requests : Own(r) /\ Alone(r)
  BY DEF PollInit, Own, Alone, Idle
<1>3. \A v \in Voters : Of(v) = {}
  BY DEF PollInit, Of
<1>4. OneAnswer
  BY <1>3, FS_EmptySet DEF OneAnswer
<1> QED
  BY <1>1, <1>2, <1>4 DEF PollIInv

LEMMA BeginVoteKeeps ==
  ASSUME PollIInv, NEW r \in Requests, NEW v \in Voters, NEW list \in SUBSET Options,
         BeginVote(r, v, list)
  PROVE  PollIInv'
<1> DEFINE beside == {q \in Requests : ~Idle(q) /\ req[q].voter = v}
<1>0. PollTypeOK /\ \A q \in Requests : Own(q) /\ Alone(q)
  BY DEF PollIInv
<1>1. /\ Idle(r) /\ UNCHANGED <<single, votes, latest, raced>>
      /\ single => Cardinality(list) = 1
  BY DEF BeginVote, Accepts
<1>2. req' = [q \in Requests |->
        IF q = r THEN [pc |-> IF single THEN "delete" ELSE "upsert", voter |-> v,
                       options |-> list, rows |-> {}, gone |-> {}, put |-> {},
                       alone |-> beside = {}]
        ELSE IF q \in beside THEN [req[q] EXCEPT !.alone = FALSE]
        ELSE req[q]]
  BY DEF BeginVote, Starts
<1>3. \A q \in Requests : ~Idle(q) => req[q] \in Request
  BY <1>0 DEF PollTypeOK, Idle
<1>4. /\ req'[r] \in Request /\ ~Idle(r)'
      /\ req'[r].pc = IF single THEN "delete" ELSE "upsert"
      /\ req'[r].voter = v /\ req'[r].options = list
      /\ req'[r].rows = {} /\ req'[r].gone = {} /\ req'[r].put = {}
      /\ req'[r].alone => beside = {}
  <2> DEFINE fresh(alone) == [pc |-> IF single THEN "delete" ELSE "upsert", voter |-> v,
                              options |-> list, rows |-> {}, gone |-> {}, put |-> {},
                              alone |-> alone]
  <2>1. req'[r] = fresh(beside = {})
    BY <1>2
  <2>2. \A alone \in BOOLEAN : fresh(alone) \in Request /\ fresh(alone).alone = alone
    BY DEF Request
  <2>3. fresh(beside = {}) \in Request /\ fresh(beside = {}).alone = (beside = {})
    <3> HIDE DEF fresh, beside
    <3> QED
      BY <2>2, Zenon
  <2>4. req'[r] # None
    BY <2>1, <2>3, NoneAssumption
  <2>5. req'[r].alone => beside = {}
    <3> HIDE DEF fresh, beside
    <3> QED
      BY <2>1, <2>3, Zenon
  <2>6. req'[r] \in Request /\ ~Idle(r)'
    <3> HIDE DEF fresh, beside
    <3> QED
      BY <2>1, <2>3, <2>4 DEF Idle
  <2>7. req'[r].pc = (IF single THEN "delete" ELSE "upsert") /\ req'[r].voter = v /\ req'[r].options = list
        /\ req'[r].rows = {} /\ req'[r].gone = {} /\ req'[r].put = {}
    <3> HIDE DEF beside
    <3> QED
      BY <2>1
  <2> QED
    BY <2>5, <2>6, <2>7
<1>5. ASSUME NEW q \in Requests \ {r}
      PROVE  /\ Idle(q)' <=> Idle(q)
             /\ Idle(q) => req'[q] = req[q]
             /\ ~Idle(q) =>
                  /\ req'[q] \in Request
                  /\ req'[q].pc = req[q].pc
                  /\ req'[q].voter = req[q].voter
                  /\ req'[q].options = req[q].options
                  /\ req'[q].rows = req[q].rows
                  /\ req'[q].gone = req[q].gone
                  /\ req'[q].put = req[q].put
                  /\ req'[q].alone => req[q].alone /\ req[q].voter # v
  <2>1. CASE q \in beside
    <3>1. req'[q] = [req[q] EXCEPT !.alone = FALSE] /\ req[q] \in Request /\ ~Idle(q)
      BY <1>2, <1>3, <1>5, <2>1
    <3> QED
      BY <3>1, NoneAssumption DEF Request, Idle
  <2>2. CASE q \notin beside
    <3>1. req'[q] = req[q] /\ (~Idle(q) => req[q].voter # v)
      BY <1>2, <1>5, <2>2
    <3> QED
      BY <1>3, <3>1 DEF Idle
  <2> QED
    BY <2>1, <2>2
<1> HIDE DEF beside
<1>6. PollTypeOK'
  <2>1. \A q \in Requests : req'[q] \in Request \cup {None}
    BY <1>4, <1>5 DEF Idle
  <2>2. req' \in [Requests -> Request \cup {None}]
    BY <1>2, <2>1
  <2> QED
    BY <1>0, <1>1, <2>2 DEF PollTypeOK
<1>7. \A q \in Requests : Own(q)'
  BY <1>0, <1>1, <1>4, <1>5 DEF Own, Ballot
<1>8. Alone(r)'
  <2>1. \A q \in Requests \ {r} : beside = {} /\ ~Idle(q)' => req'[q].voter # v
    BY <1>5 DEF beside
  <2> QED
    BY <1>1, <1>4, <2>1 DEF Alone, Own
<1>9. ASSUME NEW q \in Requests \ {r} PROVE Alone(q)'
  BY <1>0, <1>1, <1>4, <1>5, <1>9 DEF Alone, Of
<1> QED
  BY <1>1, <1>6, <1>7, <1>8, <1>9 DEF PollIInv, LatestStands, OneAnswer, Of

\* A request that goes on changes itself only.
LEMMA RequestChangeKeeps ==
  ASSUME PollIInv, NEW r \in Requests, NEW q \in Request \cup {None},
         req' = [req EXCEPT ![r] = q],
         UNCHANGED <<single, votes, latest, raced>>,
         Own(r)', Alone(r)',
         q # None => ~Idle(r) /\ q.voter = req[r].voter
  PROVE  PollIInv'
<1>1. req'[r] = q /\ \A p \in Requests \ {r} : req'[p] = req[p]
  BY DEF PollIInv, PollTypeOK
<1>2. PollTypeOK'
  BY DEF PollIInv, PollTypeOK
<1>3. \A p \in Requests : Own(p)'
  BY <1>1 DEF PollIInv, Own, Ballot, Idle
<1>4. \A p \in Requests : Alone(p)'
  BY <1>1 DEF PollIInv, Alone, Of, Idle
<1> QED
  BY <1>2, <1>3, <1>4 DEF PollIInv, LatestStands, OneAnswer, Of

LEMMA AbandonKeeps ==
  ASSUME PollIInv, NEW r \in Requests, Abandon(r)
  PROVE  PollIInv'
<1>1. req'[r] = None
  BY DEF Abandon, PollIInv, PollTypeOK
<1>2. Own(r)' /\ Alone(r)'
  BY <1>1 DEF Own, Alone, Idle
<1> QED
  BY <1>1, <1>2, RequestChangeKeeps DEF Abandon

LEMMA DeleteVotesKeeps ==
  ASSUME PollIInv, NEW r \in Requests, DeleteVotes(r)
  PROVE  PollIInv'
<1> DEFINE q == [req[r] EXCEPT !.rows = Of(req[r].voter), !.pc = "remove"]
<1>0. PollTypeOK /\ Own(r) /\ Alone(r) /\ req[r] \in Request /\ req[r].pc = "delete" /\ ~Idle(r)
  BY DEF PollIInv, PollTypeOK, DeleteVotes, At, Idle
<1>1. /\ req' = [req EXCEPT ![r] = q]
      /\ UNCHANGED <<single, votes, latest, raced>>
  BY DEF DeleteVotes
<1>2. /\ q \in Request /\ q.pc = "remove" /\ q.voter = req[r].voter
      /\ q.options = req[r].options /\ q.rows = Of(req[r].voter)
      /\ q.gone = req[r].gone /\ q.put = req[r].put /\ q.alone = req[r].alone
  <2>1. Of(req[r].voter) \in SUBSET Vote
    BY <1>0 DEF Of, PollTypeOK
  <2> HIDE DEF Of
  <2> QED
    BY <1>0, <2>1 DEF Request
<1> HIDE DEF q
<1>3. req'[r] = q /\ \A p \in Requests \ {r} : req'[p] = req[p]
  BY <1>0, <1>1 DEF PollTypeOK
<1>4. Own(r)'
  BY <1>0, <1>1, <1>2, <1>3 DEF Own, Ballot, Of
<1>5. Alone(r)'
  BY <1>0, <1>1, <1>2, <1>3 DEF Alone, Of, Idle
<1> QED
  BY <1>0, <1>1, <1>2, <1>4, <1>5, RequestChangeKeeps

LEMMA DeleteRowKeeps ==
  ASSUME PollIInv, NEW r \in Requests, NEW row \in Vote, DeleteRow(r, row)
  PROVE  PollIInv'
<1> DEFINE q == [req[r] EXCEPT !.rows = req[r].rows \ {row}, !.gone = req[r].gone \cup {row}]
<1>0. /\ PollTypeOK /\ Own(r) /\ Alone(r) /\ req[r] \in Request /\ req[r].pc = "remove" /\ ~Idle(r)
      /\ row \in req[r].rows
  BY DEF PollIInv, PollTypeOK, DeleteRow, At, Idle
<1>1. /\ req' = [req EXCEPT ![r] = q]
      /\ UNCHANGED <<single, votes, latest, raced>>
  BY <1>0 DEF DeleteRow, Request, PollTypeOK
<1>2. /\ q \in Request /\ q.pc = "remove" /\ q.voter = req[r].voter
      /\ q.options = req[r].options /\ q.rows = req[r].rows \ {row}
      /\ q.gone = req[r].gone \cup {row} /\ q.put = req[r].put /\ q.alone = req[r].alone
  BY <1>0 DEF Request
<1> HIDE DEF q
<1>3. req'[r] = q /\ \A p \in Requests \ {r} : req'[p] = req[p]
  BY <1>0, <1>1 DEF PollTypeOK
<1>4. Own(r)'
  BY <1>0, <1>1, <1>2, <1>3 DEF Own, Ballot
<1>5. Alone(r)'
  BY <1>0, <1>1, <1>2, <1>3 DEF Alone, Of, Idle
<1> QED
  BY <1>0, <1>1, <1>2, <1>4, <1>5, RequestChangeKeeps

LEMMA DeletedKeeps ==
  ASSUME PollIInv, NEW r \in Requests, Deleted(r)
  PROVE  PollIInv'
<1> DEFINE q == [req[r] EXCEPT !.pc = "upsert"]
<1>0. /\ PollTypeOK /\ Own(r) /\ Alone(r) /\ req[r] \in Request /\ req[r].pc = "remove" /\ ~Idle(r)
      /\ req[r].rows = {}
  BY DEF PollIInv, PollTypeOK, Deleted, At, Idle
<1>1. /\ req' = [req EXCEPT ![r] = q]
      /\ UNCHANGED <<single, votes, latest, raced>>
  BY DEF Deleted
<1>2. /\ q \in Request /\ q.pc = "upsert" /\ q.voter = req[r].voter
      /\ q.options = req[r].options /\ q.rows = {}
      /\ q.gone = req[r].gone /\ q.put = req[r].put /\ q.alone = req[r].alone
  BY <1>0 DEF Request
<1> HIDE DEF q
<1>3. req'[r] = q /\ \A p \in Requests \ {r} : req'[p] = req[p]
  BY <1>0, <1>1 DEF PollTypeOK
<1>4. Own(r)'
  BY <1>0, <1>1, <1>2, <1>3 DEF Own, Ballot
<1>5. Alone(r)'
  BY <1>0, <1>1, <1>2, <1>3 DEF Alone, Of, Idle
<1> QED
  BY <1>0, <1>1, <1>2, <1>4, <1>5, RequestChangeKeeps

LEMMA UpsertKeeps ==
  ASSUME PollIInv, NEW r \in Requests, NEW row \in Vote, Upsert(r, row)
  PROVE  PollIInv'
<1> DEFINE q == [req[r] EXCEPT !.put = req[r].put \cup {row}]
<1>0. /\ PollTypeOK /\ Own(r) /\ Alone(r) /\ req[r] \in Request /\ req[r].pc = "upsert" /\ ~Idle(r)
      /\ row \in Ballot(r)
  BY DEF PollIInv, PollTypeOK, Upsert, At, Idle
<1>1. /\ req' = [req EXCEPT ![r] = q]
      /\ UNCHANGED <<single, votes, latest, raced>>
  BY <1>0 DEF Upsert, Request, PollTypeOK
<1>2. /\ q \in Request /\ q.pc = "upsert" /\ q.voter = req[r].voter
      /\ q.options = req[r].options /\ q.rows = req[r].rows
      /\ q.gone = req[r].gone /\ q.put = req[r].put \cup {row} /\ q.alone = req[r].alone
  BY <1>0 DEF Request
<1> HIDE DEF q
<1>3. req'[r] = q /\ \A p \in Requests \ {r} : req'[p] = req[p]
  BY <1>0, <1>1 DEF PollTypeOK
<1>4. Own(r)'
  BY <1>0, <1>1, <1>2, <1>3 DEF Own, Ballot
<1>5. Alone(r)'
  BY <1>0, <1>1, <1>2, <1>3 DEF Alone, Of, Idle
<1> QED
  BY <1>0, <1>1, <1>2, <1>4, <1>5, RequestChangeKeeps

\* A commit changes the votes of its voter, and counts what the voter has answered.
LEMMA CommitKeeps ==
  ASSUME PollIInv, NEW r \in Requests, Commit(r)
  PROVE  PollIInv'
<1>0. /\ PollTypeOK /\ LatestStands /\ OneAnswer
      /\ \A q \in Requests : Own(q) /\ Alone(q)
      /\ req[r] \in Request /\ req[r].pc = "upsert" /\ ~Idle(r)
      /\ req[r].put = Ballot(r)
  BY DEF PollIInv, PollTypeOK, Commit, At, Idle
<1> PICK w \in Voters, list \in SUBSET Options, gone \in SUBSET Vote :
      w = req[r].voter /\ list = req[r].options /\ gone = req[r].gone
  BY <1>0 DEF Request
<1>1. /\ votes' = (votes \ gone) \cup ({w} \X list)
      /\ latest' = [latest EXCEPT ![w] = list]
      /\ raced' = IF req[r].alone THEN raced \ {w} ELSE raced \cup {w}
      /\ req' = [q \in Requests |->
                  IF q = r \/ Idle(q) THEN None ELSE [req[q] EXCEPT !.rows = req[q].rows \ gone]]
      /\ single' = single
  BY <1>0 DEF Commit, Result, Ends, Ballot
<1>2. \A b \in gone : b[1] = w
  BY <1>0 DEF Own
<1>3. /\ \A v \in Voters \ {w} : Of(v)' = Of(v)
      /\ Of(w)' = (Of(w) \ gone) \cup ({w} \X list)
  BY <1>1, <1>2 DEF Of
<1>4. Idle(r)' /\ req'[r] = None
  BY <1>1 DEF Idle
<1>5. ASSUME NEW q \in Requests \ {r}
      PROVE  /\ Idle(q)' <=> Idle(q)
             /\ Idle(q) => req'[q] = None
             /\ ~Idle(q) =>
                  /\ req'[q] \in Request
                  /\ req'[q].pc = req[q].pc
                  /\ req'[q].voter = req[q].voter
                  /\ req'[q].options = req[q].options
                  /\ req'[q].rows = req[q].rows \ gone
                  /\ req'[q].gone = req[q].gone
                  /\ req'[q].put = req[q].put
                  /\ req'[q].alone = req[q].alone
  <2>1. CASE Idle(q)
    BY <1>1, <1>5, <2>1 DEF Idle
  <2>2. CASE ~Idle(q)
    <3>1. req[q] \in Request
      BY <1>0, <1>5, <2>2 DEF PollTypeOK, Idle
    <3>2. req'[q] = [req[q] EXCEPT !.rows = req[q].rows \ gone]
      BY <1>1, <1>5, <2>2
    <3>3. req'[q] \in Request /\ req'[q] # None
      BY <3>1, <3>2, NoneAssumption DEF Request
    <3> QED
      BY <2>2, <3>1, <3>2, <3>3 DEF Request, Idle
  <2> QED
    BY <2>1, <2>2
<1>6. PollTypeOK'
  <2>1. \A q \in Requests : req'[q] \in Request \cup {None}
    BY <1>4, <1>5
  <2>2. req' \in [Requests -> Request \cup {None}]
    BY <1>1, <2>1
  <2>3. raced' \subseteq Voters
    BY <1>0, <1>1 DEF PollTypeOK
  <2> QED
    BY <1>0, <1>1, <2>2, <2>3 DEF PollTypeOK, Vote
<1>7. \A q \in Requests : Own(q)'
  BY <1>0, <1>1, <1>4, <1>5, ZenonT(40) DEF Own, Ballot
<1>8. ASSUME NEW q \in Requests PROVE Alone(q)'
  <2> SUFFICES ASSUME q # r, ~Idle(q), req[q].alone PROVE Alone(q)'
    BY <1>4, <1>5 DEF Alone
  <2> PICK x \in Voters \ {w} : x = req[q].voter
    BY <1>0 DEF Alone, PollTypeOK, Request, Idle
  <2>1. req[q].rows \ gone = req[q].rows
    BY <1>0, <1>2 DEF Own
  <2>2. {b \in votes' : b[1] = x} = {b \in votes : b[1] = x}
    BY <1>3 DEF Of
  <2>3. req'[q].voter = x /\ req'[q].rows = req[q].rows
    BY <1>5, <2>1
  <2>4. \A p \in Requests \ {q} : ~Idle(p)' => req'[p].voter # x
    BY <1>0, <1>4, <1>5 DEF Alone
  <2>5. /\ req[q].pc = "delete" => req[q].gone = {}
        /\ req[q].pc = "remove" => {b \in votes : b[1] = x} = req[q].rows \cup req[q].gone
        /\ req[q].pc = "upsert" /\ single => {b \in votes : b[1] = x} = req[q].gone
    BY <1>0 DEF Alone, Of
  <2>6. req'[q].pc = req[q].pc /\ req'[q].gone = req[q].gone /\ single' = single
    BY <1>1, <1>5
  <2> QED
    BY <2>2, <2>3, <2>4, <2>5, <2>6 DEF Alone, Of
<1>9. LatestStands'
  BY <1>0, <1>1, <1>2 DEF LatestStands, PollTypeOK
<1>10. OneAnswer'
  <2> SUFFICES ASSUME single, NEW v \in Voters, v \notin raced'
               PROVE  Cardinality(Of(v)') <= 1
    BY <1>1 DEF OneAnswer
  <2>1. CASE v # w
    BY <1>0, <1>1, <1>3, <2>1 DEF OneAnswer
  <2>2. CASE v = w
    <3>1. Of(w)' = {w} \X list
      BY <1>0, <1>1, <1>3, <2>2 DEF Alone
    <3>2. IsFiniteSet(list) /\ Cardinality(list) = 1
      BY <1>0, OptionsAssumption, FS_Subset DEF Own
    <3>3. Cardinality({w} \X list) = 1
      <4>1. IsFiniteSet({w}) /\ Cardinality({w}) = 1
        BY FS_Singleton
      <4>2. Cardinality({w} \X list) = Cardinality({w}) * Cardinality(list)
        BY <3>2, <4>1, FS_Product
      <4> QED
        BY <3>2, <4>1, <4>2
    <3> QED
      BY <2>2, <3>1, <3>3
  <2> QED
    BY <2>1, <2>2
<1> QED
  BY <1>6, <1>7, <1>8, <1>9, <1>10 DEF PollIInv

\* What the votes in flight hold of their voters' votes, at all times.
THEOREM PollInvariance == PollSpec => []PollIInv
<1>1. PollIInv /\ [Next]_pollVars => PollIInv'
  <2> SUFFICES ASSUME PollIInv, [Next]_pollVars PROVE PollIInv'
    OBVIOUS
  <2>1. CASE UNCHANGED pollVars
    BY <2>1 DEF pollVars, PollIInv, PollTypeOK, Own, Alone, LatestStands, OneAnswer, Of, Ballot, Idle
  <2>2. ASSUME NEW r \in Requests, Proceed(r) PROVE PollIInv'
    BY <2>2, DeleteVotesKeeps, DeleteRowKeeps, DeletedKeeps, UpsertKeeps, CommitKeeps DEF Proceed
  <2>3. ASSUME NEW r \in Requests, Victim(r) \/ Abandon(r) PROVE PollIInv'
    BY <2>3, AbandonKeeps DEF Victim
  <2> QED
    BY <2>1, <2>2, <2>3, BeginVoteKeeps DEF Next
<1> QED
  BY <1>1, PollInitInvariant, PTL DEF PollSpec

\* votePoll: in a poll with a single answer, a voter whose last vote had no other vote of
\* the voter beside it has one answer at most.
THEOREM OneAnswerEach == PollSpec => []OneAnswer
<1>1. PollIInv => OneAnswer
  BY DEF PollIInv
<1> QED
  BY <1>1, PollInvariance, PTL

\* votePoll: the options of the vote a voter committed last are counted, whatever else of
\* the voter deletes and writes beside it.
THEOREM LastVoteStands == PollSpec => []LatestStands
<1>1. PollIInv => LatestStands
  BY DEF PollIInv
<1> QED
  BY <1>1, PollInvariance, PTL

=============================================================================
