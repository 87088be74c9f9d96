--------------------------- MODULE AccountsProofs ---------------------------
(***************************************************************************)
(* Who a user is, where the user works and what the user may do there:     *)
(* safety of AuthSessions, for any number of handlers, sessions, tokens,   *)
(* recoveries, addresses and passwords, of StationAccess, for any number   *)
(* of stations, roles and sessions, and of RolePermissions, for any        *)
(* requests, roles and modules.                                            *)
(***************************************************************************)
EXTENDS AuthSessions, StationAccess, RolePermissions, FiniteSetTheorems, TLAPS

SessionStates == {"none", "live", "revoked"}
RecoveryStates == {"none", "SENT", "EXPIRED", "COMPLETED"}
Steps == {"idle", "touch", "open", "rotate", "admitted", "create", "complete",
          "reset", "sweep", "finish", "commit"}

SessionType == [state : SessionStates, token : Nat, opened : Nat]
RecoveryType == [status : RecoveryStates, type : RecoveryTypes \cup {"none"}, email : Nat,
                 firstReset : Nat, reused : BOOLEAN]
CallType == [at : Steps, session : SessionRows \cup {"none"}, token : Nat, password : Nat,
             email : Nat, type : RecoveryTypes \cup {"none"}, recovery : Nat, again : BOOLEAN,
             ended : SUBSET SessionRows]

\* The type invariant of the tables of modules/auth and of its handlers.
AuthTypeOK ==
  /\ password \in Nat /\ email \in Nat /\ reseeded \in BOOLEAN /\ tokens \in Nat /\ swept \in Nat
  /\ session \in [SessionRows -> SessionType]
  /\ rotated \in SUBSET (1..tokens)
  /\ recovery \in [Recoveries -> RecoveryType]
  /\ resetTokens \in SUBSET [recovery : Recoveries, email : Nat]
  /\ call \in [Callers -> CallType]

(***************************************************************************)
(* The inductive invariant.  A token is held by one session at most and by *)
(* none once it has been exchanged; a handler that is about to rotate has  *)
(* a token that no other session holds; one that resets the password read  *)
(* a password that is older than any its recovery has set, and, once it    *)
(* has ended the sessions, all that live and were open then are among its. *)
(***************************************************************************)
TokensHeldOnce ==
  /\ \A s \in SessionRows : session[s].token <= tokens /\ session[s].token \notin rotated
  /\ \A s, t \in SessionRows :
       session[s].token # 0 /\ session[s].token = session[t].token => s = t

Rotating(r) ==
  CallAt(r, "rotate") =>
    /\ call[r].session \in SessionRows
    /\ call[r].token \in 1..tokens
    /\ ~call[r].again
    /\ \A s \in SessionRows : session[s].token = call[r].token => s = call[r].session

Resetting(r) == call[r].at \in {"reset", "sweep", "finish", "commit"}

Presenting(r) ==
  /\ CallAt(r, "admitted") => call[r].session \in SessionRows
  /\ CallAt(r, "complete") => call[r].recovery \in Recoveries
  /\ Resetting(r) =>
       /\ call[r].recovery \in Recoveries
       /\ call[r].password <= password
       /\ LET first == recovery[call[r].recovery].firstReset
          IN first # 0 => call[r].password < first

\* A reset that has ended the sessions, before it commits.
Sweeping(r) ==
  call[r].at \in {"finish", "commit"} =>
    /\ call[r].token <= tokens
    /\ \A s \in SessionRows :
         Live(s) /\ session[s].opened <= call[r].token => s \in call[r].ended

\* A recovery that has set the password is consumed.
Consumed == \A q \in Recoveries : recovery[q].firstReset # 0 => recovery[q].status = "COMPLETED"

OpenedBefore == swept <= tokens /\ \A s \in SessionRows : session[s].opened <= tokens

IInv ==
  /\ AuthTypeOK
  /\ TokensHeldOnce
  /\ \A r \in Callers : Rotating(r)
  /\ \A r \in Callers : Presenting(r)
  /\ \A r \in Callers : Sweeping(r)
  /\ Consumed
  /\ ResetOnce
  /\ OpenedBefore
  /\ ResetEndsSessions

\* The initial states satisfy the invariant.
LEMMA InitInvariant == AuthInit => IInv
<1> SUFFICES ASSUME AuthInit PROVE IInv
  OBVIOUS
<1>1. AuthTypeOK
  BY DEF AuthInit, AuthTypeOK, NoSession, NoRecovery, NoCall, SessionType, RecoveryType, CallType,
         SessionStates, RecoveryStates, Steps
<1>2. \A r \in Callers : Rotating(r) /\ Presenting(r) /\ Sweeping(r)
  BY DEF AuthInit, Rotating, Presenting, Sweeping, Resetting, Live, CallAt, NoCall
<1>3. TokensHeldOnce /\ OpenedBefore /\ ResetEndsSessions
  BY DEF AuthInit, TokensHeldOnce, OpenedBefore, ResetEndsSessions, NoSession, Live
<1>4. Consumed /\ ResetOnce
  BY DEF AuthInit, Consumed, ResetOnce, NoRecovery
<1> QED
  BY <1>1, <1>2, <1>3, <1>4 DEF IInv

\* What a step of one handler must show of the others: they keep what they have.
LEMMA CallsStay ==
  ASSUME IInv, NEW r \in Callers, NEW record \in CallType, Becomes(r, record)
  PROVE  /\ call' \in [Callers -> CallType]
         /\ call'[r] = record
         /\ \A q \in Callers \ {r} : call'[q] = call[q]
  BY DEF IInv, AuthTypeOK, Becomes

\* The handler that ends, whatever it was at.
LEMMA EndedIsSound ==
  ASSUME IInv, NEW r \in Callers, CallEnds(r)
  PROVE  /\ call' \in [Callers -> CallType]
         /\ call'[r] = NoCall
         /\ \A q \in Callers \ {r} : call'[q] = call[q]
         /\ Rotating(r)'
         /\ Presenting(r)'
         /\ Sweeping(r)'
<1>1. NoCall \in CallType
  BY DEF NoCall, CallType, Steps
<1>2. /\ call' \in [Callers -> CallType]
      /\ call'[r] = NoCall
      /\ \A q \in Callers \ {r} : call'[q] = call[q]
  BY <1>1, CallsStay DEF CallEnds
<1>3. Rotating(r)' /\ Presenting(r)' /\ Sweeping(r)'
  BY <1>2 DEF Rotating, Presenting, Sweeping, Resetting, Live, CallAt, NoCall
<1> QED
  BY <1>2, <1>3

-----------------------------------------------------------------------------
(* The invariant, by groups: what reads only, and what writes each table. *)

\* Steps that write nothing but the record of their handler.
LEMMA ReadsKeepInvariant ==
  ASSUME IInv, NEW r \in Callers, NEW record \in CallType, Becomes(r, record),
         UNCHANGED <<password, email, reseeded, session, tokens, swept, rotated, recovery>>,
         resetTokens' \in SUBSET [recovery : Recoveries, email : Nat],
         Rotating(r)', Presenting(r)', Sweeping(r)'
  PROVE  IInv'
<1>1. AuthTypeOK'
  BY CallsStay DEF IInv, AuthTypeOK
<1>2. \A q \in Callers : Rotating(q)' /\ Presenting(q)' /\ Sweeping(q)'
  <2> TAKE q \in Callers
  <2>1. CASE q = r
    BY <2>1
  <2>2. CASE q # r
    BY <2>2, CallsStay DEF IInv, Rotating, Presenting, Sweeping, Resetting, Live, CallAt
  <2> QED
    BY <2>1, <2>2
<1>3. TokensHeldOnce' /\ OpenedBefore' /\ ResetEndsSessions' /\ Consumed' /\ ResetOnce'
  BY DEF IInv, TokensHeldOnce, OpenedBefore, ResetEndsSessions, Consumed, ResetOnce, Live
<1> QED
  BY <1>1, <1>2, <1>3 DEF IInv

\* The statements of the reset: what they write shows at the commit.  Its handler keeps
\* what it presented, and the second one takes all sessions that live.
LEMMA ResetStatementsKeep ==
  ASSUME IInv, NEW r \in Callers, ConfirmPassword(r) \/ ConfirmSweep(r) \/ ConfirmFinish(r)
  PROVE  IInv'
<1> DEFINE record == CASE call[r].at = "reset"  -> [call[r] EXCEPT !.at = "sweep"]
                       [] call[r].at = "sweep"  -> [call[r] EXCEPT !.at = "finish",
                                                      !.ended = EndedByReset, !.token = tokens]
                       [] call[r].at = "finish" -> [call[r] EXCEPT !.at = "commit"]
<1>0. /\ AuthTypeOK /\ Presenting(r) /\ Sweeping(r)
      /\ call[r] \in CallType /\ EndedByReset \in SUBSET SessionRows /\ tokens \in Nat
  BY DEF IInv, AuthTypeOK, EndedByReset
<1>1. /\ call[r].at \in {"reset", "sweep", "finish"}
      /\ Becomes(r, record)
      /\ UNCHANGED <<password, email, reseeded, session, tokens, swept, rotated, recovery, resetTokens>>
  BY DEF ConfirmPassword, ConfirmSweep, ConfirmFinish, CallAt
<1>2. record \in CallType
  BY <1>0, <1>1 DEF CallType, Steps
<1>3. /\ record.recovery = call[r].recovery /\ record.password = call[r].password
      /\ call[r].at = "reset" => record.at = "sweep"
      /\ call[r].at = "sweep" =>
           record.at = "finish" /\ record.ended = EndedByReset /\ record.token = tokens
      /\ call[r].at = "finish" =>
           record.at = "commit" /\ record.ended = call[r].ended /\ record.token = call[r].token
  BY <1>0, <1>1 DEF CallType
<1> HIDE DEF record
<1>4. call'[r] = record
  BY <1>1, <1>2, CallsStay
<1>5. Rotating(r)'
  BY <1>1, <1>3, <1>4 DEF Rotating, CallAt
<1>6. Presenting(r)'
  BY <1>0, <1>1, <1>3, <1>4 DEF Presenting, Resetting, CallAt
<1>7. Sweeping(r)'
  <2>1. CASE call[r].at = "sweep"
    BY <1>0, <1>1, <1>3, <1>4, <2>1 DEF Sweeping, EndedByReset, Live
  <2>2. CASE call[r].at # "sweep"
    BY <1>0, <1>1, <1>3, <1>4, <2>2 DEF Sweeping, Live
  <2> QED
    BY <2>1, <2>2
<1> QED
  BY <1>0, <1>1, <1>2, <1>5, <1>6, <1>7, ReadsKeepInvariant DEF AuthTypeOK

LEMMA ReadsKeep ==
  ASSUME IInv, NEW r \in Callers,
         \/ LoginRead(r) \/ LoginTouch(r)
         \/ \E t \in 1..tokens : RefreshRead(r, t)
         \/ \E s \in SessionRows : Admit(r, s)
         \/ \E e \in Emails : UidVerify(r, e)
         \/ \E t \in resetTokens : ConfirmRead(r, t)
         \/ CallFails(r)
  PROVE  IInv'
<1> USE DEF CallType, Steps, NoCall
<1>0. AuthTypeOK
  BY DEF IInv
<1>1. CASE LoginRead(r)
  <2> DEFINE record == [NoCall EXCEPT !.at = "touch"]
  <2>1. record \in CallType /\ Becomes(r, record)
    BY <1>1 DEF LoginRead
  <2>2. Rotating(r)' /\ Presenting(r)' /\ Sweeping(r)'
    BY <2>1, CallsStay DEF Rotating, Presenting, Sweeping, Resetting, Live, CallAt
  <2> QED
    BY <1>0, <1>1, <2>1, <2>2, ReadsKeepInvariant DEF LoginRead, AuthTypeOK
<1>2. CASE \E t \in 1..tokens : RefreshRead(r, t)
  <2> PICK t \in 1..tokens : RefreshRead(r, t)
    BY <1>2
  <2> PICK s \in SessionRows :
         /\ session[s].token = t
         /\ Live(s)
         /\ Becomes(r, [NoCall EXCEPT !.at = "rotate", !.session = s, !.token = t,
                                       !.again = t \in rotated])
    BY DEF RefreshRead
  <2> DEFINE record == [NoCall EXCEPT !.at = "rotate", !.session = s, !.token = t,
                                       !.again = t \in rotated]
  <2> HIDE DEF record
  <2>1. t \in Nat /\ t # 0
    BY <1>0 DEF AuthTypeOK
  <2>2. record \in CallType /\ Becomes(r, record)
    <3>1. (t \in rotated) \in BOOLEAN
      OBVIOUS
    <3> QED
      BY <2>1, <3>1 DEF record
  <2>3. t \notin rotated /\ \A u \in SessionRows : session[u].token = t => u = s
    BY <2>1 DEF IInv, TokensHeldOnce
  <2>4. UNCHANGED <<password, email, reseeded, session, tokens, swept, rotated, recovery, resetTokens>>
    BY DEF RefreshRead
  <2>5. call'[r] = record
    BY <2>2, CallsStay
  <2>6. Rotating(r)' /\ Presenting(r)' /\ Sweeping(r)'
    <3>1. /\ call'[r].at = "rotate" /\ call'[r].session = s /\ call'[r].token = t
          /\ ~call'[r].again
      BY <2>3, <2>5 DEF record
    <3>2. Rotating(r)'
      BY <1>0, <2>1, <2>3, <2>4, <3>1 DEF Rotating, CallAt, AuthTypeOK
    <3> QED
      BY <3>1, <3>2 DEF Presenting, Sweeping, Resetting, CallAt
  <2> QED
    BY <1>0, <2>2, <2>4, <2>6, ReadsKeepInvariant DEF AuthTypeOK
<1>3. CASE \E s \in SessionRows : Admit(r, s)
  <2> PICK s \in SessionRows : Admit(r, s)
    BY <1>3
  <2> DEFINE record == [NoCall EXCEPT !.at = "admitted", !.session = s]
  <2> HIDE DEF record
  <2>1. record \in CallType /\ Becomes(r, record)
    BY DEF Admit, record
  <2>2. call'[r] = record
    BY <2>1, CallsStay
  <2>3. Rotating(r)' /\ Presenting(r)' /\ Sweeping(r)'
    BY <2>2 DEF record, Rotating, Presenting, Sweeping, Resetting, Live, CallAt
  <2>4. UNCHANGED <<password, email, reseeded, session, tokens, swept, rotated, recovery, resetTokens>>
    BY DEF Admit
  <2> QED
    BY <1>0, <2>1, <2>3, <2>4, ReadsKeepInvariant DEF AuthTypeOK
<1>4. CASE \E e \in Emails : UidVerify(r, e)
  <2> PICK e \in Emails : UidVerify(r, e)
    BY <1>4
  <2> PICK q \in Recoveries : Becomes(r, [NoCall EXCEPT !.at = "complete", !.recovery = q])
    BY DEF UidVerify
  <2> DEFINE record == [NoCall EXCEPT !.at = "complete", !.recovery = q]
  <2> HIDE DEF record
  <2>1. record \in CallType /\ Becomes(r, record)
    <3>1. q \in Nat
      BY AuthAssumption DEF Recoveries
    <3>2. record \in CallType
      BY <3>1 DEF record
    <3> QED
      BY <3>2 DEF record
  <2>2. call'[r] = record
    BY <2>1, CallsStay
  <2>3. Rotating(r)' /\ Presenting(r)' /\ Sweeping(r)'
    BY <2>2 DEF record, Rotating, Presenting, Sweeping, Resetting, Live, CallAt
  <2>4. UNCHANGED <<password, email, reseeded, session, tokens, swept, rotated, recovery, resetTokens>>
    BY DEF UidVerify
  <2> QED
    BY <1>0, <2>1, <2>3, <2>4, ReadsKeepInvariant DEF AuthTypeOK
<1>5. CASE \E t \in resetTokens : ConfirmRead(r, t)
  <2> PICK t \in resetTokens : ConfirmRead(r, t)
    BY <1>5
  <2> DEFINE record == [NoCall EXCEPT !.at = "reset", !.recovery = t.recovery, !.password = password]
  <2> HIDE DEF record
  <2>1. t.recovery \in Recoveries
    BY <1>0 DEF AuthTypeOK
  <2>2. record \in CallType /\ Becomes(r, record)
    <3>1. t.recovery \in Nat /\ password \in Nat
      BY <1>0, <2>1, AuthAssumption DEF Recoveries, AuthTypeOK
    <3>2. record \in CallType
      BY <3>1 DEF record
    <3> QED
      BY <3>2 DEF record, ConfirmRead
  <2>3. call'[r] = record
    BY <2>2, CallsStay
  <2>4. recovery[t.recovery].firstReset = 0
    BY <2>1 DEF ConfirmRead, Confirmable, IInv, Consumed
  <2>5. Rotating(r)' /\ Sweeping(r)'
    BY <2>3 DEF record, Rotating, Sweeping, Live, CallAt
  <2>6. UNCHANGED <<password, email, reseeded, session, tokens, swept, rotated, recovery, resetTokens>>
    BY DEF ConfirmRead
  <2>7. Presenting(r)'
    <3>1. call'[r].at = "reset" /\ call'[r].recovery = t.recovery /\ call'[r].password = password
      BY <2>3 DEF record
    <3> QED
      BY <1>0, <2>1, <2>4, <2>6, <3>1 DEF Presenting, Resetting, CallAt, AuthTypeOK, Recoveries
  <2> QED
    BY <1>0, <2>2, <2>5, <2>7, <2>6, ReadsKeepInvariant DEF AuthTypeOK
<1>6. CASE CallFails(r)
  <2>1. NoCall \in CallType /\ Becomes(r, NoCall)
    BY <1>6 DEF CallFails, CallEnds
  <2> QED
    BY <1>0, <1>6, <2>1, EndedIsSound, ReadsKeepInvariant DEF CallFails, AuthTypeOK
<1>7. CASE LoginTouch(r)
  <2> DEFINE record == [NoCall EXCEPT !.at = "open"]
  <2>1. record \in CallType /\ Becomes(r, record)
    BY <1>7 DEF LoginTouch
  <2>2. Rotating(r)' /\ Presenting(r)' /\ Sweeping(r)'
    BY <2>1, CallsStay DEF Rotating, Presenting, Sweeping, Resetting, Live, CallAt
  <2> QED
    BY <1>0, <1>7, <2>1, <2>2, ReadsKeepInvariant DEF LoginTouch, AuthTypeOK
<1> QED
  BY <1>1, <1>2, <1>3, <1>4, <1>5, <1>6, <1>7

\* Steps that end their handler and write neither passwords nor recoveries: it is
\* enough to show what became of the sessions and their tokens.
LEMMA SessionsKeepInvariant ==
  ASSUME IInv, NEW r \in Callers, CallEnds(r),
         UNCHANGED <<password, reseeded, swept, recovery, resetTokens>>,
         email' \in Nat, tokens' \in Nat, tokens <= tokens',
         session' \in [SessionRows -> SessionType], rotated' \in SUBSET (1..tokens'),
         TokensHeldOnce', OpenedBefore', ResetEndsSessions',
         \A q \in Callers \ {r} : Rotating(q)' /\ Sweeping(q)'
  PROVE  IInv'
<1>1. AuthTypeOK'
  BY EndedIsSound DEF IInv, AuthTypeOK
<1>2. \A q \in Callers : Rotating(q)' /\ Sweeping(q)'
  BY EndedIsSound
<1>3. \A q \in Callers : Presenting(q)'
  <2> TAKE q \in Callers
  <2>1. CASE q = r
    BY <2>1, EndedIsSound
  <2>2. CASE q # r
    BY <2>2, EndedIsSound DEF IInv, Presenting, Resetting, CallAt
  <2> QED
    BY <2>1, <2>2
<1>4. Consumed' /\ ResetOnce'
  BY DEF IInv, Consumed, ResetOnce
<1> QED
  BY <1>1, <1>2, <1>3, <1>4 DEF IInv

LEMMA LoginKeeps ==
  ASSUME IInv, NEW r \in Callers, LoginOpen(r)
  PROVE  IInv'
<1> PICK s \in SessionRows : session[s] = NoSession /\ session' = [session EXCEPT ![s] = NewSession]
  BY DEF LoginOpen
<1>0. AuthTypeOK /\ TokensHeldOnce /\ OpenedBefore /\ ResetEndsSessions
  BY DEF IInv
<1>1. /\ CallEnds(r) /\ tokens' = tokens + 1
      /\ UNCHANGED <<password, email, reseeded, swept, rotated, recovery, resetTokens>>
  BY DEF LoginOpen
<1>3. NewSession \in SessionType
  BY <1>0 DEF AuthTypeOK, NewSession, SessionType, SessionStates
<1>4. session' \in [SessionRows -> SessionType]
  BY <1>0, <1>3 DEF AuthTypeOK
<1>5. /\ session'[s].token = tokens + 1 /\ session'[s].opened = tokens + 1
      /\ \A t \in SessionRows \ {s} : session'[t] = session[t]
  BY <1>0 DEF AuthTypeOK, NewSession
<1>6. \A t \in SessionRows : session[t].token \in Nat /\ session[t].token <= tokens
  BY <1>0 DEF AuthTypeOK, TokensHeldOnce, SessionType
<1>7. TokensHeldOnce'
  BY <1>0, <1>1, <1>5, <1>6 DEF AuthTypeOK, TokensHeldOnce
<1>8. OpenedBefore' /\ ResetEndsSessions'
  BY <1>0, <1>1, <1>5 DEF AuthTypeOK, SessionType, OpenedBefore, ResetEndsSessions, Live
<1>9. \A q \in Callers \ {r} : Rotating(q)' /\ Sweeping(q)'
  <2> TAKE q \in Callers \ {r}
  <2>1. /\ call'[q] = call[q] /\ call[q].token \in Nat
        /\ Rotating(q) /\ Sweeping(q)
    BY <1>0, <1>1, EndedIsSound DEF IInv, AuthTypeOK, CallType
  <2>2. Rotating(q)'
    BY <1>0, <1>1, <1>5, <1>6, <2>1 DEF AuthTypeOK, Rotating, CallAt
  <2>3. call[q].token <= tokens =>
          \A t \in SessionRows :
            Live(t)' /\ session'[t].opened <= call[q].token =>
              Live(t) /\ session[t].opened <= call[q].token
    BY <1>0, <1>1, <1>5, <2>1 DEF AuthTypeOK, Live
  <2>4. Sweeping(q)'
    BY <1>0, <1>1, <2>1, <2>3 DEF AuthTypeOK, Sweeping
  <2> QED
    BY <2>2, <2>4
<1> QED
  BY <1>0, <1>1, <1>4, <1>7, <1>8, <1>9, SessionsKeepInvariant DEF AuthTypeOK

LEMMA RotationKeeps ==
  ASSUME IInv, NEW r \in Callers, RefreshRotate(r)
  PROVE  IInv'
<1> DEFINE s == call[r].session
<1>0. AuthTypeOK /\ TokensHeldOnce /\ OpenedBefore /\ ResetEndsSessions
  BY DEF IInv
<1>1. /\ CallEnds(r) /\ tokens' = tokens + 1
      /\ rotated' = rotated \cup {call[r].token}
      /\ UNCHANGED <<password, email, reseeded, swept, recovery, resetTokens>>
  BY DEF RefreshRotate
<1>2. /\ s \in SessionRows
      /\ call[r].token \in 1..tokens
      /\ \A t \in SessionRows : session[t].token = call[r].token => t = s
  BY DEF IInv, Rotating, RefreshRotate
<1>3. session' = [session EXCEPT ![s] = [session[s] EXCEPT !.token = tokens + 1]]
  BY DEF RefreshRotate, Rotated
<1> HIDE DEF s
<1>4. session' \in [SessionRows -> SessionType]
  BY <1>0, <1>2, <1>3 DEF AuthTypeOK, SessionType
<1>5. /\ session'[s].token = tokens + 1
      /\ session'[s].opened = session[s].opened
      /\ session'[s].state = session[s].state
      /\ \A t \in SessionRows \ {s} : session'[t] = session[t]
  BY <1>0, <1>2, <1>3 DEF AuthTypeOK, SessionType
<1>6. \A t \in SessionRows : session[t].token \in Nat /\ session[t].token <= tokens
  BY <1>0 DEF AuthTypeOK, TokensHeldOnce, SessionType
<1>7. TokensHeldOnce'
  BY <1>0, <1>1, <1>2, <1>5, <1>6 DEF AuthTypeOK, TokensHeldOnce
<1>8. OpenedBefore' /\ ResetEndsSessions'
  BY <1>0, <1>1, <1>5 DEF AuthTypeOK, SessionType, OpenedBefore, ResetEndsSessions, Live
<1>9. \A q \in Callers \ {r} : Rotating(q)' /\ Sweeping(q)'
  <2> TAKE q \in Callers \ {r}
  <2>1. /\ call'[q] = call[q] /\ call[q].token \in Nat
        /\ Rotating(q) /\ Sweeping(q)
    BY <1>0, <1>1, EndedIsSound DEF IInv, AuthTypeOK, CallType
  <2>2. Rotating(q)'
    BY <1>0, <1>1, <1>5, <1>6, <2>1 DEF AuthTypeOK, Rotating, CallAt
  <2>3. \A t \in SessionRows :
          Live(t)' /\ session'[t].opened <= call[q].token =>
            Live(t) /\ session[t].opened <= call[q].token
    BY <1>0, <1>1, <1>5, <2>1 DEF AuthTypeOK, Live
  <2>4. Sweeping(q)'
    BY <1>0, <1>1, <2>1, <2>3 DEF AuthTypeOK, Sweeping
  <2> QED
    BY <2>2, <2>4
<1>10. rotated' \in SUBSET (1..tokens')
  <2>1. \A t \in rotated' : t \in 1..tokens + 1
    BY <1>0, <1>1, <1>2 DEF AuthTypeOK
  <2> QED
    BY <1>1, <2>1
<1> QED
  BY <1>0, <1>1, <1>4, <1>7, <1>8, <1>9, <1>10, SessionsKeepInvariant DEF AuthTypeOK

LEMMA LogoutKeeps ==
  ASSUME IInv, NEW r \in Callers, Logout(r)
  PROVE  IInv'
<1>0. AuthTypeOK /\ TokensHeldOnce /\ OpenedBefore /\ ResetEndsSessions
  BY DEF IInv
<1>1. CallEnds(r) /\ UNCHANGED <<password, email, reseeded, tokens, swept, rotated, recovery, resetTokens>>
  BY DEF Logout
<1> PICK ended : Revoke(ended)
  BY DEF Logout
<1>2. \A s \in SessionRows : session'[s] \in {session[s], [session[s] EXCEPT !.state = "revoked"]}
  BY DEF Revoke
<1>3. session' \in [SessionRows -> SessionType]
  BY <1>0 DEF Revoke, AuthTypeOK, SessionType, SessionStates
<1>4. \A s \in SessionRows :
        /\ session'[s].token = session[s].token
        /\ session'[s].opened = session[s].opened
        /\ session'[s].state = "live" => session[s].state = "live"
  BY <1>0, <1>2 DEF AuthTypeOK, SessionType
<1>5. TokensHeldOnce' /\ OpenedBefore' /\ ResetEndsSessions'
  BY <1>0, <1>1, <1>4 DEF TokensHeldOnce, OpenedBefore, ResetEndsSessions, Live
<1>6. \A q \in Callers \ {r} : Rotating(q)' /\ Sweeping(q)'
  BY <1>1, <1>4, EndedIsSound DEF IInv, Rotating, Sweeping, Live, CallAt
<1> QED
  BY <1>0, <1>1, <1>3, <1>5, <1>6, SessionsKeepInvariant DEF AuthTypeOK

LEMMA ProfileKeeps ==
  ASSUME IInv, NEW r \in Callers, UpdateMyProfile(r)
  PROVE  IInv'
<1>0. AuthTypeOK /\ TokensHeldOnce /\ OpenedBefore /\ ResetEndsSessions
  BY DEF IInv
<1>1. /\ CallEnds(r) /\ email' = email + 1
      /\ UNCHANGED <<password, reseeded, session, tokens, swept, rotated, recovery, resetTokens>>
  BY DEF UpdateMyProfile
<1>2. TokensHeldOnce' /\ OpenedBefore' /\ ResetEndsSessions'
  BY <1>0, <1>1 DEF TokensHeldOnce, OpenedBefore, ResetEndsSessions, Live
<1>3. \A q \in Callers \ {r} : Rotating(q)' /\ Sweeping(q)'
  BY <1>1, EndedIsSound DEF IInv, Rotating, Sweeping, Live, CallAt
<1> QED
  BY <1>0, <1>1, <1>2, <1>3, SessionsKeepInvariant DEF AuthTypeOK

\* Steps that write recoveries: none that has set the password is opened again.
LEMMA RecoveriesKeepInvariant ==
  ASSUME IInv, NEW r \in Callers,
         UNCHANGED <<password, email, reseeded, session, tokens, swept, rotated, resetTokens>>,
         call' \in [Callers -> CallType], \A q \in Callers \ {r} : call'[q] = call[q],
         Rotating(r)', Presenting(r)', Sweeping(r)',
         recovery' \in [Recoveries -> RecoveryType],
         \A q \in Recoveries : recovery'[q].firstReset \in {0, recovery[q].firstReset},
         Consumed', ResetOnce'
  PROVE  IInv'
<1>1. AuthTypeOK'
  BY DEF IInv, AuthTypeOK
<1>2. \A q \in Callers : Rotating(q)' /\ Presenting(q)' /\ Sweeping(q)'
  <2> TAKE q \in Callers
  <2>1. CASE q = r
    BY <2>1
  <2>2. CASE q # r
    <3>1. Rotating(q) /\ Presenting(q) /\ Sweeping(q) /\ call'[q] = call[q]
      BY <2>2 DEF IInv
    <3>2. Rotating(q)'
      BY <3>1 DEF Rotating, CallAt
    <3>3. Presenting(q)' /\ Sweeping(q)'
      BY <3>1 DEF Presenting, Sweeping, Live, Resetting, CallAt
    <3> QED
      BY <3>2, <3>3
  <2> QED
    BY <2>1, <2>2
<1>3. TokensHeldOnce' /\ OpenedBefore' /\ ResetEndsSessions'
  BY DEF IInv, TokensHeldOnce, OpenedBefore, ResetEndsSessions, Live
<1> QED
  BY <1>1, <1>2, <1>3 DEF IInv

LEMMA ForgotExpireKeeps ==
  ASSUME IInv, NEW r \in Callers, NEW type \in RecoveryTypes, ForgotExpire(r, type)
  PROVE  IInv'
<1> DEFINE record == [NoCall EXCEPT !.at = "create", !.email = email, !.type = type]
<1> HIDE DEF record
<1>0. AuthTypeOK /\ Consumed /\ ResetOnce
  BY DEF IInv
<1>1. UNCHANGED <<password, email, reseeded, session, tokens, swept, rotated, resetTokens>>
  BY DEF ForgotExpire
<1>2. record \in CallType
  BY <1>0 DEF record, NoCall, CallType, Steps, AuthTypeOK
<1>3. Becomes(r, record)
  BY DEF ForgotExpire, record
<1>4. /\ call' \in [Callers -> CallType]
      /\ call'[r] = record
      /\ \A q \in Callers \ {r} : call'[q] = call[q]
  BY <1>2, <1>3, CallsStay
<1>5. Rotating(r)' /\ Presenting(r)' /\ Sweeping(r)'
  BY <1>4 DEF record, NoCall, Rotating, Presenting, Sweeping, Resetting, Live, CallAt
<1>6. recovery' = [q \in Recoveries |->
        IF q \in Outstanding(email, type)
        THEN [recovery[q] EXCEPT !.status = "EXPIRED"] ELSE recovery[q]]
  BY DEF ForgotExpire
<1>7. recovery' \in [Recoveries -> RecoveryType]
  BY <1>0, <1>6 DEF AuthTypeOK, RecoveryType, RecoveryStates
<1>8. \A q \in Recoveries :
        /\ recovery'[q].firstReset = recovery[q].firstReset
        /\ recovery'[q].reused = recovery[q].reused
        /\ recovery'[q].status = recovery[q].status \/ recovery[q].status = "SENT"
  BY <1>0, <1>6 DEF AuthTypeOK, RecoveryType, Outstanding
<1>9. Consumed' /\ ResetOnce'
  BY <1>0, <1>8 DEF Consumed, ResetOnce
<1> QED
  BY <1>1, <1>4, <1>5, <1>7, <1>8, <1>9, RecoveriesKeepInvariant

LEMMA ForgotCreateKeeps ==
  ASSUME IInv, NEW r \in Callers, ForgotCreate(r)
  PROVE  IInv'
<1> DEFINE new == [NoRecovery EXCEPT !.status = "SENT", !.email = call[r].email, !.type = call[r].type]
<1> HIDE DEF new
<1>0. AuthTypeOK /\ Consumed /\ ResetOnce
  BY DEF IInv
<1>1. /\ CallEnds(r)
      /\ UNCHANGED <<password, email, reseeded, session, tokens, swept, rotated, resetTokens>>
  BY DEF ForgotCreate
<1>2. recovery' = [recovery EXCEPT ![Requested + 1] = new]
  BY DEF ForgotCreate, new
<1>3. new \in RecoveryType /\ new.firstReset = 0 /\ ~new.reused
  BY <1>0 DEF new, NoRecovery, RecoveryType, RecoveryStates, AuthTypeOK, CallType
<1>4. recovery' \in [Recoveries -> RecoveryType]
  BY <1>0, <1>2, <1>3 DEF AuthTypeOK
<1>5. \A q \in Recoveries : recovery'[q] = recovery[q] \/ recovery'[q] = new
  BY <1>0, <1>2 DEF AuthTypeOK
<1>6. Consumed' /\ ResetOnce'
  BY <1>0, <1>3, <1>5 DEF Consumed, ResetOnce
<1> QED
  BY <1>1, <1>3, <1>4, <1>5, <1>6, EndedIsSound, RecoveriesKeepInvariant

LEMMA UidCompleteKeeps ==
  ASSUME IInv, NEW r \in Callers, UidComplete(r)
  PROVE  IInv'
<1> DEFINE done == call[r].recovery
<1>0. AuthTypeOK /\ Consumed /\ ResetOnce
  BY DEF IInv
<1>1. /\ CallEnds(r)
      /\ UNCHANGED <<password, email, reseeded, session, tokens, swept, rotated, resetTokens>>
  BY DEF UidComplete
<1>2. done \in Recoveries
  BY DEF UidComplete, IInv, Presenting
<1>3. recovery' = [recovery EXCEPT ![done].status = "COMPLETED"]
  BY DEF UidComplete
<1> HIDE DEF done
<1>4. recovery' \in [Recoveries -> RecoveryType]
  BY <1>0, <1>2, <1>3 DEF AuthTypeOK, RecoveryType, RecoveryStates
<1>5. \A q \in Recoveries :
        /\ recovery'[q].firstReset = recovery[q].firstReset
        /\ recovery'[q].reused = recovery[q].reused
        /\ recovery'[q].status \in {recovery[q].status, "COMPLETED"}
  BY <1>0, <1>2, <1>3 DEF AuthTypeOK, RecoveryType
<1>6. Consumed' /\ ResetOnce'
  BY <1>0, <1>5 DEF Consumed, ResetOnce
<1> QED
  BY <1>1, <1>4, <1>5, <1>6, EndedIsSound, RecoveriesKeepInvariant

\* The reset: all sessions end, and the handlers that checked the same recovery, or read
\* the password for another, have read one that is older than the new.
LEMMA ResetKeeps ==
  ASSUME IInv, NEW r \in Callers, ConfirmCommit(r)
  PROVE  IInv'
<1> DEFINE used == call[r].recovery
<1> DEFINE first == recovery[used].firstReset
<1> DEFINE row == Completed(recovery[used], call[r].password)
<1>0. AuthTypeOK /\ TokensHeldOnce /\ OpenedBefore /\ Consumed /\ ResetOnce
  BY DEF IInv
<1>1. /\ CallEnds(r) /\ password' = password + 1
      /\ Revoke(call[r].ended) /\ swept' = call[r].token
      /\ UNCHANGED <<email, reseeded, tokens, rotated, resetTokens>>
  BY DEF ConfirmCommit
<1>2. /\ used \in Recoveries
      /\ call[r].password \in Nat
      /\ first # 0 => call[r].password < first
  BY <1>0 DEF ConfirmCommit, IInv, Presenting, Resetting, CallAt, AuthTypeOK, CallType
<1>3. recovery' = [recovery EXCEPT ![used] = row]
  BY DEF ConfirmCommit
<1>4. /\ recovery[used] \in RecoveryType
      /\ first \in Nat
      /\ recovery[used].reused = FALSE
  BY <1>0, <1>2 DEF AuthTypeOK, RecoveryType, ResetOnce
<1>5. /\ recovery[used].firstReset \in Nat
      /\ recovery[used].reused = FALSE
      /\ ~(recovery[used].firstReset # 0 /\ call[r].password >= recovery[used].firstReset)
      /\ password + 1 \in Nat
  BY <1>0, <1>2, <1>4 DEF AuthTypeOK
<1>6. /\ row \in RecoveryType
      /\ row.status = "COMPLETED"
      /\ ~row.reused
      /\ row.firstReset \in {first, password + 1}
      /\ first # 0 => row.firstReset = first
  BY <1>4, <1>5 DEF Completed, RecoveryType, RecoveryStates
<1> HIDE DEF row, first, used
<1>7. /\ recovery' \in [Recoveries -> RecoveryType]
      /\ recovery'[used] = row
      /\ \A q \in Recoveries \ {used} : recovery'[q] = recovery[q]
  BY <1>0, <1>2, <1>3, <1>6 DEF AuthTypeOK
<1>8. Consumed' /\ ResetOnce'
  BY <1>0, <1>6, <1>7 DEF Consumed, ResetOnce
<1>9. \A s \in SessionRows : session'[s] \in {session[s], [session[s] EXCEPT !.state = "revoked"]}
  BY <1>1 DEF Revoke
<1>10. \A s \in SessionRows :
        /\ session'[s].token = session[s].token
        /\ session'[s].opened = session[s].opened
        /\ session'[s].state = "live" => session[s].state = "live" /\ s \notin call[r].ended
  BY <1>0, <1>1 DEF AuthTypeOK, SessionType, Revoke
<1>14. /\ call[r].token \in Nat /\ call[r].token <= tokens
       /\ \A s \in SessionRows :
            Live(s) /\ session[s].opened <= call[r].token => s \in call[r].ended
  BY <1>0 DEF ConfirmCommit, IInv, Sweeping, Live, CallAt, AuthTypeOK, CallType
<1>11. AuthTypeOK'
  <2>1. session' \in [SessionRows -> SessionType]
    BY <1>0, <1>1 DEF Revoke, AuthTypeOK, SessionType, SessionStates
  <2> QED
    BY <1>0, <1>1, <1>7, <1>14, <2>1, EndedIsSound DEF AuthTypeOK
<1>12. TokensHeldOnce' /\ OpenedBefore' /\ ResetEndsSessions'
  <2>1. \A s \in SessionRows : session[s].opened \in Nat
    BY <1>0 DEF AuthTypeOK, SessionType
  <2> QED
    BY <1>0, <1>1, <1>10, <1>14, <2>1 DEF AuthTypeOK, TokensHeldOnce, OpenedBefore, ResetEndsSessions, Live
<1>13. \A q \in Callers : Rotating(q)' /\ Presenting(q)' /\ Sweeping(q)'
  <2> TAKE q \in Callers
  <2>1. CASE q = r
    BY <1>1, <2>1, EndedIsSound
  <2>2. CASE q # r
    <3>1. call'[q] = call[q] /\ Rotating(q) /\ Presenting(q) /\ Sweeping(q)
      BY <1>1, <2>2, EndedIsSound DEF IInv
    <3>2. Rotating(q)'
      BY <1>1, <1>10, <3>1 DEF Rotating, CallAt
    <3>3. call[q].password \in Nat
      BY <1>0 DEF AuthTypeOK, CallType
    <3>4. Presenting(q)'
      BY <1>0, <1>1, <1>4, <1>6, <1>7, <3>1, <3>3 DEF Presenting, Resetting, CallAt, AuthTypeOK, first
    <3>5. Sweeping(q)'
      BY <1>1, <1>10, <3>1 DEF Sweeping, Live
    <3> QED
      BY <3>2, <3>4, <3>5
  <2> QED
    BY <2>1, <2>2
<1> QED
  BY <1>8, <1>11, <1>12, <1>13 DEF IInv

\* A code that is accepted hands out a reset token, and nothing else changes.
LEMMA PasswordVerifyKeeps ==
  ASSUME IInv, NEW e \in Emails, PasswordVerify(e)
  PROVE  IInv'
<1>0. AuthTypeOK
  BY DEF IInv
<1>1. UNCHANGED <<password, email, reseeded, session, tokens, swept, rotated, recovery, call>>
  BY DEF PasswordVerify
<1>2. resetTokens' \in SUBSET [recovery : Recoveries, email : Nat]
  BY <1>0 DEF PasswordVerify, AuthTypeOK
<1>3. AuthTypeOK'
  BY <1>0, <1>1, <1>2 DEF AuthTypeOK
<1>4. (\A r \in Callers : Rotating(r) /\ Presenting(r) /\ Sweeping(r))'
  BY <1>1 DEF IInv, Rotating, Presenting, Sweeping, Resetting, Live, CallAt
<1>5. TokensHeldOnce' /\ OpenedBefore' /\ ResetEndsSessions' /\ Consumed' /\ ResetOnce'
  BY <1>1 DEF IInv, TokensHeldOnce, OpenedBefore, ResetEndsSessions, Consumed, ResetOnce, Live
<1> QED
  BY <1>3, <1>4, <1>5 DEF IInv

\* The seed sets a password and ends no session.
LEMMA SeedKeeps ==
  ASSUME IInv, SeedUsers
  PROVE  IInv'
<1>0. AuthTypeOK /\ TokensHeldOnce /\ OpenedBefore /\ Consumed /\ ResetOnce
  BY DEF IInv
<1>1. /\ password' = password + 1 /\ reseeded' = TRUE /\ email' = 1
      /\ UNCHANGED <<session, tokens, swept, rotated, recovery, resetTokens, call>>
  BY DEF SeedUsers
<1>2. AuthTypeOK'
  BY <1>0, <1>1 DEF AuthTypeOK
<1>4. TokensHeldOnce' /\ OpenedBefore' /\ ResetEndsSessions' /\ Consumed' /\ ResetOnce'
  BY <1>0, <1>1 DEF IInv, TokensHeldOnce, OpenedBefore, ResetEndsSessions, Consumed, ResetOnce, Live
<1>5. (\A r \in Callers : Rotating(r) /\ Sweeping(r))'
  BY <1>1 DEF IInv, Rotating, Sweeping, Live, CallAt
<1>6. (\A r \in Callers : Presenting(r))'
  <2>1. \A r \in Callers : call[r].password \in Nat
    BY <1>0 DEF AuthTypeOK, CallType
  <2> QED
    BY <1>0, <1>1, <2>1 DEF IInv, Presenting, Resetting, CallAt, AuthTypeOK
<1> QED
  BY <1>2, <1>4, <1>5, <1>6 DEF IInv

-----------------------------------------------------------------------------
(* Every step keeps the invariant. *)

LEMMA StepKeepsInvariant ==
  ASSUME IInv, [AuthNext]_authVars
  PROVE  IInv'
<1>1. CASE \E r \in Callers : Step(r)
  <2> PICK r \in Callers : Step(r)
    BY <1>1
  <2>1. CASE LoginOpen(r)
    BY <2>1, LoginKeeps
  <2>2. CASE RefreshRotate(r)
    BY <2>2, RotationKeeps
  <2>3. CASE Logout(r)
    BY <2>3, LogoutKeeps
  <2>4. CASE UpdateMyProfile(r)
    BY <2>4, ProfileKeeps
  <2>5. CASE ForgotCreate(r)
    BY <2>5, ForgotCreateKeeps
  <2>6. CASE UidComplete(r)
    BY <2>6, UidCompleteKeeps
  <2>7. CASE ConfirmCommit(r)
    BY <2>7, ResetKeeps
  <2>8. CASE \E type \in RecoveryTypes : ForgotExpire(r, type)
    BY <2>8, ForgotExpireKeeps
  <2>9. CASE ConfirmPassword(r) \/ ConfirmSweep(r) \/ ConfirmFinish(r)
    BY <2>9, ResetStatementsKeep
  <2> QED
    BY <2>1, <2>2, <2>3, <2>4, <2>5, <2>6, <2>7, <2>8, <2>9, ReadsKeep DEF Step
<1>2. CASE \E e \in Emails : PasswordVerify(e)
  BY <1>2, PasswordVerifyKeeps
<1>3. CASE SeedUsers
  BY <1>3, SeedKeeps
<1>4. CASE UNCHANGED authVars
  <2>1. AuthTypeOK' /\ TokensHeldOnce' /\ OpenedBefore' /\ ResetEndsSessions' /\ Consumed' /\ ResetOnce'
    BY <1>4 DEF IInv, authVars, AuthTypeOK, TokensHeldOnce, OpenedBefore, ResetEndsSessions,
                Consumed, ResetOnce, Live
  <2>2. (\A r \in Callers : Rotating(r) /\ Presenting(r) /\ Sweeping(r))'
    BY <1>4 DEF IInv, authVars, Rotating, Presenting, Sweeping, Resetting, Live, CallAt
  <2> QED
    BY <2>1, <2>2 DEF IInv
<1> QED
  BY <1>1, <1>2, <1>3, <1>4 DEF AuthNext

\* The invariant holds of every behaviour.
THEOREM Invariance == AuthSpec => []IInv
<1>1. AuthInit => IInv
  BY InitInvariant
<1>2. IInv /\ [AuthNext]_authVars => IInv'
  BY StepKeepsInvariant
<1> QED
  BY <1>1, <1>2, PTL DEF AuthSpec

\* The tables and handlers of modules/auth have their types.
THEOREM TypeCorrect == AuthSpec => []AuthTypeOK
<1>1. IInv => AuthTypeOK
  BY DEF IInv
<1> QED
  BY <1>1, Invariance, PTL

\* A reset of the password leaves no session that was open when it ended the sessions.
THEOREM SessionsEnd == AuthSpec => []ResetEndsSessions
<1>1. IInv => ResetEndsSessions
  BY DEF IInv
<1> QED
  BY <1>1, Invariance, PTL

\* A refresh that is admitted with a token had read it before any other exchanged it, and
\* a recovery that was checked after its first use sets no password.
THEOREM TokensAreSpentOnce == AuthSpec => []SpentOnce
<1>1. IInv => SpentOnce
  BY DEF IInv, Rotating, SpentOnce
<1> QED
  BY <1>1, Invariance, PTL

-----------------------------------------------------------------------------
(***************************************************************************)
(* StationAccess: what holds however the requests interleave.  An update   *)
(* by key writes a row that exists only because rows are never deleted,    *)
(* which AccessIInv turns into the facts each request in flight has        *)
(* (Grounded).                                                             *)
(***************************************************************************)

\* The type invariant of the rows, the sessions and the requests.
AccessTypeOK ==
  /\ access \in [Stations -> Access \cup {None}]
  /\ holder \in [Stations -> Requests \cup {None}]
  /\ open \subseteq Stations
  /\ active \in [Sessions -> Stations \cup {None}]
  /\ created \in BOOLEAN
  /\ req \in [Requests -> Operation \cup {None}]

\* What an operation in flight is about, and the row it means to make the default, exist.
Grounded(q) ==
  /\ q.op # "createUser" => created
  /\ q.op = "createUser" => q.pc = "write" /\ q.stations # {} /\ q.role \in Roles
  /\ q.op = "assignUserRole" =>
       q.pc \in {"snapshot", "lock"} /\ q.station \in Stations /\ q.role \in Roles
  /\ q.op = "assignUserStations" =>
       /\ q.pc \in {"check", "snapshot", "lock"}
       /\ q.stations # {} => q.role \in Roles
  /\ q.op \in {"selectStation", "getActiveStation", "getMyStations"} =>
       (q.pc \in {"default", "snapshot", "lock"} => q.pick \in Rows)
  /\ q.op \in {"selectStation", "getActiveStation"} => q.session \in Sessions
  /\ q.op = "selectStation" => q.pc # "check" /\ q.station \in Stations
  /\ q.op = "getMyStations" => q.pc \in {"repair", "default", "snapshot", "lock"}

\* Only a transaction that is taking its rows holds any, and rows that exist.
LocksInTransaction ==
  \A s \in Stations : holder[s] # None => At(holder[s], "lock") /\ s \in Rows

AccessIInv ==
  /\ AccessTypeOK
  /\ ~created => Rows = {} /\ \A k \in Sessions : active[k] = None
  /\ created => Roles # {}
  /\ \A r \in Requests : ~Idle(r) => Grounded(req[r])
  /\ LocksInTransaction

\* A step of one request keeps what the others rely on when it deletes no row.
LEMMA OthersStay ==
  ASSUME AccessIInv, AccessTypeOK', NEW r \in Requests, NEW new \in Operation \cup {None},
         req' = [req EXCEPT ![r] = new], new # None => Grounded(new)',
         Rows \subseteq Rows', created => created',
         ~created' => Rows' = {} /\ \A k \in Sessions : active'[k] = None,
         created' => Roles # {},
         \A s \in Stations :
           /\ holder'[s] \in {None, holder[s], r}
           /\ holder'[s] = r => new # None /\ new.pc = "lock" /\ s \in Rows'
  PROVE  AccessIInv'
<1>1. ASSUME NEW q \in Requests, req'[q] # None
      PROVE  Grounded(req[q])'
  <2>1. CASE q = r
    BY <1>1, <2>1 DEF AccessIInv, AccessTypeOK
  <2>2. CASE q # r
    <3>1. req'[q] = req[q] /\ Grounded(req[q])
      BY <1>1, <2>2 DEF AccessIInv, AccessTypeOK, Idle
    <3> QED
      BY <3>1 DEF Grounded
  <2> QED
    BY <2>1, <2>2
<1>2. LocksInTransaction'
  <2> SUFFICES ASSUME NEW s \in Stations, holder'[s] # None
      PROVE At(holder[s], "lock")' /\ s \in Rows'
    BY DEF LocksInTransaction
  <2>1. CASE holder'[s] = r
    BY <2>1 DEF AccessIInv, AccessTypeOK, At, Idle
  <2>2. CASE holder'[s] # r
    <3>1. /\ holder'[s] = holder[s] /\ holder[s] \in Requests
          /\ At(holder[s], "lock") /\ s \in Rows
      BY <2>2 DEF AccessIInv, AccessTypeOK, LocksInTransaction
    <3>2. req'[holder[s]] = req[holder[s]]
      BY <2>2, <3>1 DEF AccessIInv, AccessTypeOK
    <3> QED
      BY <3>1, <3>2 DEF At, Idle
  <2> QED
    BY <2>1, <2>2
<1> QED
  BY <1>1, <1>2 DEF AccessIInv, Idle

\* A step that changes only what one request knows, or ends it.
LEMMA Learns ==
  ASSUME AccessIInv, NEW r \in Requests, NEW new \in Operation \cup {None},
         req' = [req EXCEPT ![r] = new], new # None => Grounded(new),
         UNCHANGED <<access, open, active, created>>,
         \/ /\ UNCHANGED holder
            /\ (new # None /\ new.pc = "lock") \/ ~At(r, "lock")
         \/ holder' = [s \in Stations |-> IF holder[s] = r THEN None ELSE holder[s]]
  PROVE  AccessIInv'
<1>1. AccessTypeOK'
  BY DEF AccessIInv, AccessTypeOK
<1>2. new # None => Grounded(new)'
  BY DEF Grounded, Rows
<1>3. ASSUME NEW s \in Stations
      PROVE  /\ holder'[s] \in {None, holder[s], r}
             /\ holder'[s] = r => new # None /\ new.pc = "lock" /\ s \in Rows'
  BY NoneAssumption DEF AccessIInv, AccessTypeOK, LocksInTransaction, Rows
<1>4. Rows' = Rows
  BY DEF Rows
<1> QED
  BY <1>1, <1>2, <1>3, <1>4, OthersStay DEF AccessIInv

\* The first read of a handler keeps the invariant.
LEMMA AccessBegins ==
  ASSUME AccessIInv, NEW r \in Requests, Begin(r)
  PROVE  AccessIInv'
<1> USE NoneAssumption
<1>0. /\ Blank \in Operation /\ Blank.op = "getMyStations" /\ Blank.pc = "repair"
      /\ Granted \subseteq Rows /\ Usable \subseteq Rows /\ Rows \subseteq Stations
      /\ \A s \in Rows : access[s] \in Access
  BY DEF Blank, Operation, Granted, Usable, Rows, AccessIInv, AccessTypeOK
<1>1. PICK new \in Operation :
        /\ Begins(r, new)
        /\ Grounded(new)
  <2>1. CASE \E k \in Sessions, s \in Stations : BeginSelect(r, k, s)
    <3>1. PICK k \in Sessions, s \in Stations : BeginSelect(r, k, s)
      BY <2>1
    <3> DEFINE new == [Blank EXCEPT !.op = "selectStation", !.session = k, !.station = s]
    <3>2. new \in Operation /\ Grounded(new)
      BY <3>1 DEF BeginSelect, Blank, Operation, Grounded
    <3> QED
      BY <3>1, <3>2 DEF BeginSelect
  <2>2. CASE \E k \in Sessions : BeginGetActive(r, k)
    <3>1. PICK k \in Sessions : BeginGetActive(r, k)
      BY <2>2
    <3> DEFINE new == [Blank EXCEPT !.op = "getActiveStation", !.session = k]
    <3>2. new \in Operation /\ Grounded(new)
      BY <3>1 DEF BeginGetActive, Blank, Operation, Grounded
    <3> QED
      BY <3>1, <3>2 DEF BeginGetActive
  <2>3. CASE BeginMyStations(r)
    BY <1>0, <2>3 DEF BeginMyStations, Grounded
  <2>4. CASE \E s \in Stations, list \in SUBSET Stations, q \in Roles : BeginCreateUser(r, s, list, q)
    <3>1. PICK s \in Stations, list \in SUBSET Stations, q \in Roles : BeginCreateUser(r, s, list, q)
      BY <2>4
    <3>2. PICK d \in DefaultOf({}, s, list) :
            Begins(r, [Blank EXCEPT !.op = "createUser", !.pc = "write", !.stations = list,
                                    !.role = q, !.pick = d])
      BY <3>1 DEF BeginCreateUser
    <3>3. d \in Stations
      BY DEF DefaultOf
    <3> DEFINE new == [Blank EXCEPT !.op = "createUser", !.pc = "write", !.stations = list,
                                    !.role = q, !.pick = d]
    <3>4. new \in Operation /\ Grounded(new)
      BY <3>1, <3>3 DEF BeginCreateUser, Blank, Operation, Grounded
    <3> QED
      BY <3>2, <3>4
  <2>5. CASE \E s \in Stations, q \in Roles : BeginAssignRole(r, s, q)
    <3>1. PICK s \in Stations, q \in Roles : BeginAssignRole(r, s, q)
      BY <2>5
    <3> DEFINE new == [Blank EXCEPT !.op = "assignUserRole", !.pc = "snapshot", !.station = s,
                                    !.role = q]
    <3>2. new \in Operation /\ Grounded(new)
      BY <3>1 DEF BeginAssignRole, Blank, Operation, Grounded
    <3> QED
      BY <3>1, <3>2 DEF BeginAssignRole
  <2>6. CASE \E s \in Stations, list \in SUBSET Stations, q \in Roles \cup {None} :
               BeginAssignStations(r, s, list, q)
    <3>1. PICK s \in Stations, list \in SUBSET Stations, requested \in Roles \cup {None} :
            BeginAssignStations(r, s, list, requested)
      BY <2>6
    <3>2. PICK q \in IF requested # None THEN {requested}
                     ELSE IF Usable = {} THEN {None} ELSE {access[t].role : t \in Picks},
               d \in IF list = {} THEN {None}
                     ELSE DefaultOf(Usable \cap Defaults \cap list, s, list) :
            /\ list # {} => q # None
            /\ Begins(r, [Blank EXCEPT !.op = "assignUserStations", !.pc = "check",
                                       !.stations = list, !.role = q, !.pick = d])
      BY <3>1, Zenon DEF BeginAssignStations
    <3>3. Picks \subseteq Rows
      BY <1>0 DEF Picks
    <3>4. q \in Roles \cup {None}
      BY <1>0, <3>3 DEF Access
    <3>5. d \in Stations \cup {None}
      BY <1>0 DEF DefaultOf
    <3> DEFINE new == [Blank EXCEPT !.op = "assignUserStations", !.pc = "check",
                                    !.stations = list, !.role = q, !.pick = d]
    <3>6. new \in Operation /\ Grounded(new)
      BY <3>1, <3>2, <3>4, <3>5 DEF BeginAssignStations, Blank, Operation, Grounded
    <3> QED
      BY <3>2, <3>6
  <2> QED
    BY <2>1, <2>2, <2>3, <2>4, <2>5, <2>6 DEF Begin
<1>2. ~At(r, "lock")
  BY <1>1 DEF Begins, At
<1> QED
  BY <1>1, <1>2, Learns DEF Begins

\* So do its later reads, and its end.
LEMMA AccessReads ==
  ASSUME AccessIInv, NEW r \in Requests,
         \/ RepairRead(r) \/ Snapshot(r) \/ SelectRead(r) \/ GetRead(r) \/ GetCheck(r)
         \/ AssignStationsCheck(r) \/ Abandon(r)
  PROVE  AccessIInv'
<1> USE NoneAssumption
<1>1. /\ req[r] \in Operation /\ Grounded(req[r])
      /\ Granted \subseteq Rows /\ Usable \subseteq Rows /\ Rows \subseteq Stations
  BY DEF RepairRead, Snapshot, SelectRead, GetRead, GetCheck, AssignStationsCheck, Abandon, At,
         Idle, AccessIInv, AccessTypeOK, Granted, Usable, Rows
<1>2. CASE Ends(r) /\ UNCHANGED <<access, open, active, created>>
  BY <1>2, Learns DEF Ends
<1>3. ASSUME NEW new \in Operation, req' = [req EXCEPT ![r] = new], Grounded(new), UNCHANGED holder,
             UNCHANGED <<access, open, active, created>>, new.pc = "lock" \/ ~At(r, "lock")
      PROVE  AccessIInv'
  BY <1>3, Learns
<1>4. CASE RepairRead(r)
  <2>1. req[r].op \in {"selectStation", "getActiveStation", "getMyStations"}
    BY <1>1, <1>4 DEF RepairRead, At, Grounded, Operation
  <2>2. CASE Continue(r) /\ req[r].op # "getMyStations"
    <3> DEFINE new == [req[r] EXCEPT !.pc = "read", !.pick = None]
    <3>1. new \in Operation /\ Grounded(new)
      BY <1>1, <2>1, <2>2 DEF Operation, Grounded
    <3>2. req' = [req EXCEPT ![r] = new]
      BY <1>1, <2>2 DEF Continue, Operation, AccessIInv, AccessTypeOK
    <3> QED
      BY <1>3, <1>4, <2>2, <3>1, <3>2 DEF RepairRead, Continue, At
  <2>3. CASE Continue(r) /\ req[r].op = "getMyStations"
    BY <1>2, <1>4, <2>3 DEF RepairRead, Continue
  <2>4. CASE ~Continue(r)
    <3>1. PICK s \in Picks, pc \in {"default", "snapshot"} :
            req' = [req EXCEPT ![r].pick = s, ![r].pc = pc] /\ UNCHANGED holder
      BY <1>4, <2>4 DEF RepairRead
    <3>2. s \in Rows
      BY <1>1 DEF Picks
    <3> DEFINE new == [req[r] EXCEPT !.pick = s, !.pc = pc]
    <3>3. new \in Operation /\ new.op = req[r].op /\ new.pc = pc /\ new.pick = s
          /\ new.session = req[r].session /\ new.station = req[r].station
      BY <1>1, <3>1, <3>2 DEF Operation
    <3>4. Grounded(new)
      BY <1>1, <2>1, <3>2, <3>3 DEF Grounded
    <3>5. req' = [req EXCEPT ![r] = new]
      BY <1>1, <3>1 DEF AccessIInv, AccessTypeOK
    <3> HIDE DEF new
    <3> QED
      BY <1>3, <1>4, <3>1, <3>3, <3>4, <3>5 DEF RepairRead, At
  <2> QED
    BY <2>2, <2>3, <2>4
<1>5. CASE Snapshot(r)
  <2>1. PICK kept \in SUBSET Stations : kept = Where(r)
    BY <1>1 DEF Where
  <2> DEFINE new == [req[r] EXCEPT !.rows = kept, !.pc = "lock"]
  <2>2. new \in Operation /\ Grounded(new) /\ new.pc = "lock"
    BY <1>1, <1>5 DEF Snapshot, At, Operation, Grounded
  <2> QED
    BY <1>3, <1>5, <2>1, <2>2 DEF Snapshot
<1>6. CASE SelectRead(r)
  <2> DEFINE new == [req[r] EXCEPT !.pc = "write"]
  <2>1. new \in Operation /\ Grounded(new)
    BY <1>1, <1>6 DEF SelectRead, Operation, Grounded
  <2> QED
    BY <1>3, <1>6, <2>1 DEF SelectRead, Goto, At
<1>7. CASE GetRead(r)
  <2>1. PICK s \in Stations, pc \in {"check", "write"} :
          req' = [req EXCEPT ![r].station = s, ![r].pc = pc]
    <3>1. active[req[r].session] \in Stations \cup {None}
      BY <1>1, <1>7 DEF GetRead, Grounded, AccessIInv, AccessTypeOK
    <3> QED
      BY <1>7, <3>1 DEF GetRead
  <2> DEFINE new == [req[r] EXCEPT !.station = s, !.pc = pc]
  <2>2. new \in Operation /\ new.op = req[r].op /\ new.pc = pc /\ new.session = req[r].session
    BY <1>1 DEF Operation
  <2>3. Grounded(new)
    BY <1>1, <1>7, <2>2 DEF GetRead, Grounded
  <2>4. req' = [req EXCEPT ![r] = new]
    BY <1>1, <2>1 DEF AccessIInv, AccessTypeOK
  <2> HIDE DEF new
  <2> QED
    BY <1>3, <1>7, <2>2, <2>3, <2>4 DEF GetRead, At
<1>8. CASE GetCheck(r)
  <2> DEFINE new == [req[r] EXCEPT !.pc = "write"]
  <2>1. new \in Operation /\ Grounded(new)
    BY <1>1, <1>8 DEF GetCheck, Operation, Grounded
  <2> QED
    BY <1>3, <1>8, <2>1 DEF GetCheck, Goto, At
<1>9. CASE AssignStationsCheck(r)
  <2> DEFINE new == [req[r] EXCEPT !.pc = "snapshot"]
  <2>1. new \in Operation /\ Grounded(new)
    BY <1>1, <1>9 DEF AssignStationsCheck, Operation, Grounded
  <2> QED
    BY <1>3, <1>9, <2>1 DEF AssignStationsCheck, Goto, At
<1>10. CASE Abandon(r)
  BY <1>2, <1>10 DEF Abandon
<1> QED
  BY <1>4, <1>5, <1>6, <1>7, <1>8, <1>9, <1>10

\* An updateMany locks rows that exist.
LEMMA LockKeeps ==
  ASSUME AccessIInv, NEW r \in Requests, NEW s \in Stations, LockRow(r, s)
  PROVE  AccessIInv'
<1> USE NoneAssumption
<1>1. req[r] \in Operation /\ Grounded(req[r]) /\ req[r].pc = "lock" /\ Where(r) \subseteq Rows
  BY DEF LockRow, At, Idle, AccessIInv, AccessTypeOK, Where, Granted
<1>2. PICK kept \in SUBSET Stations : kept = req[r].rows \ {s}
  BY <1>1 DEF Operation
<1>3. PICK new \in Operation :
        Grounded(new) /\ new.pc = "lock" /\ req' = [req EXCEPT ![r] = new]
  <2> DEFINE new == [req[r] EXCEPT !.rows = kept]
  <2>1. new \in Operation /\ Grounded(new) /\ new.pc = "lock" /\ req' = [req EXCEPT ![r] = new]
    BY <1>1, <1>2 DEF LockRow, Operation, Grounded
  <2> QED
    BY <2>1
<1>4. UNCHANGED <<access, open, active, created>> /\ Rows' = Rows
  BY DEF LockRow, Rows
<1>5. Grounded(new)'
  BY <1>3, <1>4 DEF Grounded
<1>6. holder' \in [Stations -> Requests \cup {None}]
  BY DEF LockRow, AccessIInv, AccessTypeOK
<1>7. AccessTypeOK'
  BY <1>3, <1>4, <1>6 DEF AccessIInv, AccessTypeOK
<1>8. ASSUME NEW t \in Stations
      PROVE  /\ holder'[t] \in {None, holder[t], r}
             /\ holder'[t] = r => t \in Rows
  BY <1>1 DEF LockRow, AccessIInv, AccessTypeOK, LocksInTransaction
<1> QED
  BY <1>3, <1>4, <1>5, <1>7, <1>8, OthersStay DEF AccessIInv

\* What a commit writes: the tables stay well formed and no row is deleted.
Released(r) == holder' = [s \in Stations |-> IF holder[s] = r THEN None ELSE holder[s]]

LEMMA CommitKeeps ==
  ASSUME AccessIInv, NEW r \in Requests, NEW new \in Operation \cup {None},
         req' = [req EXCEPT ![r] = new], new # None => Grounded(new)',
         access' \in [Stations -> Access \cup {None}], Rows \subseteq Rows',
         active' \in [Sessions -> Stations \cup {None}],
         UNCHANGED open, created' = TRUE, Roles # {},
         Released(r) \/ (UNCHANGED holder /\ ~At(r, "lock"))
  PROVE  AccessIInv'
<1> USE NoneAssumption
<1>1. holder' \in [Stations -> Requests \cup {None}]
  BY DEF Released, AccessIInv, AccessTypeOK
<1>2. AccessTypeOK'
  BY <1>1 DEF AccessIInv, AccessTypeOK
<1>3. ASSUME NEW s \in Stations
      PROVE  holder'[s] \in {None, holder[s], r} /\ holder'[s] # r
  BY DEF Released, AccessIInv, AccessTypeOK, LocksInTransaction
<1> QED
  BY <1>2, <1>3, OthersStay

\* The repair of the defaults changes no grant and no role.
SameGrants ==
  /\ Rows' = Rows /\ Granted' = Granted
  /\ \A s \in Rows : access'[s].role = access[s].role

LEMMA RepairKeeps ==
  ASSUME AccessIInv, NEW r \in Requests, RepairOnly(r) \/ RepairCommit(r)
  PROVE  AccessIInv' /\ SameGrants /\ UNCHANGED <<active, created>>
<1> USE NoneAssumption
<1>1. /\ req[r] \in Operation /\ Grounded(req[r])
      /\ req[r].op \in {"selectStation", "getActiveStation", "getMyStations"}
      /\ req[r].pc \in {"default", "lock"}
  BY DEF RepairOnly, RepairCommit, AllLocked, At, Idle, AccessIInv, AccessTypeOK, Grounded, Operation
<1>2. created /\ Roles # {} /\ req[r].pick \in Rows
  BY <1>1 DEF Grounded, AccessIInv
<1>3. \A s \in Held(r) : s \in Rows
  BY DEF Held, AccessIInv, LocksInTransaction
<1>4. \A s \in Stations : s \in Rows <=> access[s] \in Access
  BY DEF Rows, AccessIInv, AccessTypeOK
<1>5. /\ access' \in [Stations -> Access \cup {None}]
      /\ \A s \in Stations : s \in Rows <=> access'[s] \in Access
      /\ \A s \in Rows : access'[s].role = access[s].role
                         /\ access'[s].isActive = access[s].isActive
  <2>1. CASE RepairOnly(r)
    <3>1. PICK p \in Rows : p = req[r].pick
      BY <1>2
    <3>2. access[p] \in Access /\ p \in Stations
      BY <1>4 DEF Rows
    <3>3. access' = [access EXCEPT ![p] = [access[p] EXCEPT !.isDefault = TRUE]]
      BY <2>1, <3>1 DEF RepairOnly
    <3>4. [access[p] EXCEPT !.isDefault = TRUE] \in Access
      BY <3>2 DEF Access
    <3>5. /\ [access[p] EXCEPT !.isDefault = TRUE].role = access[p].role
          /\ [access[p] EXCEPT !.isDefault = TRUE].isActive = access[p].isActive
      BY <3>2 DEF Access
    <3> QED
      BY <1>4, <3>2, <3>3, <3>4, <3>5 DEF AccessIInv, AccessTypeOK, Rows
  <2>2. CASE RepairCommit(r)
    <3>1. access' = [s \in Stations |->
            IF s = req[r].pick THEN [access[s] EXCEPT !.isDefault = TRUE]
            ELSE IF s \in Held(r) THEN [access[s] EXCEPT !.isDefault = FALSE]
            ELSE access[s]]
      BY <2>2 DEF RepairCommit
    <3>2. ASSUME NEW s \in Rows, NEW b \in BOOLEAN
          PROVE  /\ [access[s] EXCEPT !.isDefault = b] \in Access
                 /\ [access[s] EXCEPT !.isDefault = b].role = access[s].role
                 /\ [access[s] EXCEPT !.isDefault = b].isActive = access[s].isActive
      BY <1>4 DEF Access, Rows
    <3>3. ASSUME NEW s \in Rows
          PROVE  /\ access'[s] \in Access
                 /\ access'[s].role = access[s].role
                 /\ access'[s].isActive = access[s].isActive
      BY <1>4, <3>1, <3>2 DEF Rows
    <3>4. ASSUME NEW s \in Stations, s \notin Rows
          PROVE  access'[s] = None
      BY <1>2, <1>3, <3>1, <3>4 DEF Rows
    <3> QED
      BY <3>1, <3>3, <3>4 DEF Rows
  <2> QED
    BY <2>1, <2>2
<1>6. Rows' = Rows
  BY <1>5 DEF Rows
<1>7. SameGrants
  BY <1>5, <1>6 DEF SameGrants, Granted, Rows
<1>8. PICK new \in Operation \cup {None} :
        req' = [req EXCEPT ![r] = new] /\ (new # None => Grounded(new) /\ new.pc # "lock")
  <2>1. CASE req[r].op = "getMyStations"
    BY <2>1 DEF RepairOnly, RepairCommit, Continue, Ends
  <2>2. CASE req[r].op # "getMyStations"
    <3> DEFINE new == [req[r] EXCEPT !.pc = "read", !.pick = None]
    <3>1. new \in Operation /\ Grounded(new) /\ new.pc # "lock"
      BY <1>1, <2>2 DEF Operation, Grounded
    <3>2. req' = [req EXCEPT ![r] = new]
      BY <2>2 DEF RepairOnly, RepairCommit, Continue
    <3> QED
      BY <3>1, <3>2
  <2> QED
    BY <2>1, <2>2
<1>9. new # None => Grounded(new)'
  BY <1>2, <1>6, <1>8 DEF Grounded, RepairOnly, RepairCommit
<1>10. Released(r) \/ (UNCHANGED holder /\ ~At(r, "lock"))
  BY DEF RepairOnly, RepairCommit, Continue, Ends, Released, At
<1>11. UNCHANGED <<active, open, created>>
  BY DEF RepairOnly, RepairCommit
<1>12. active' \in [Sessions -> Stations \cup {None}]
  BY <1>11 DEF AccessIInv, AccessTypeOK
<1> QED
  BY <1>2, <1>5, <1>6, <1>7, <1>8, <1>9, <1>10, <1>11, <1>12, CommitKeeps

\* selectStation and getActiveStation end with a write to the session.
LEMMA SessionWritesKeep ==
  ASSUME AccessIInv, NEW r \in Requests, SelectWrite(r) \/ GetClear(r)
  PROVE  AccessIInv'
<1> USE NoneAssumption
<1>1. req[r] \in Operation /\ Grounded(req[r]) /\ req[r].pc = "write"
  BY DEF SelectWrite, GetClear, At, Idle, AccessIInv, AccessTypeOK
<1>2. created /\ Roles # {} /\ req[r].session \in Sessions
  BY <1>1 DEF SelectWrite, GetClear, Grounded, AccessIInv
<1>3. active' \in [Sessions -> Stations \cup {None}]
  BY <1>1, <1>2 DEF SelectWrite, GetClear, Grounded, AccessIInv, AccessTypeOK
<1>4. /\ access' \in [Stations -> Access \cup {None}] /\ Rows' = Rows
      /\ UNCHANGED open /\ created' = TRUE
      /\ req' = [req EXCEPT ![r] = None] /\ Released(r)
  BY <1>2 DEF SelectWrite, GetClear, Ends, Released, Rows, AccessIInv, AccessTypeOK
<1> QED
  BY <1>2, <1>3, <1>4, CommitKeeps

\* What the three operations of access control leave behind.
LEMMA AssignmentsKeep ==
  ASSUME AccessIInv, NEW r \in Requests, CreateUser(r) \/ AssignRole(r) \/ AssignStations(r)
  PROVE  AccessIInv'
<1> USE NoneAssumption
<1>1. req[r] \in Operation /\ Grounded(req[r])
  BY DEF CreateUser, AssignRole, AssignStations, AllLocked, At, Idle, AccessIInv, AccessTypeOK
<1>2. \A s \in Rows : s \in Stations /\ access[s] \in Access
  BY DEF Rows, AccessIInv, AccessTypeOK
<1>3. Held(r) \subseteq Rows
  BY DEF Held, AccessIInv, LocksInTransaction
<1>4. /\ req' = [req EXCEPT ![r] = None] /\ Released(r)
      /\ UNCHANGED open
      /\ created' = TRUE
  BY <1>1 DEF CreateUser, AssignRole, AssignStations, Ends, Released, Grounded, AccessIInv
<1>5. /\ access' \in [Stations -> Access \cup {None}] /\ Rows \subseteq Rows'
      /\ active' \in [Sessions -> Stations \cup {None}]
      /\ Roles # {}
  <2>1. CASE CreateUser(r)
    <3>1. Rows = {} /\ req[r].role \in Roles /\ UNCHANGED active
      BY <1>1, <2>1 DEF CreateUser, Grounded, AccessIInv
    <3>2. ASSUME NEW s \in Stations
          PROVE  [role |-> req[r].role, isActive |-> TRUE, isDefault |-> s = req[r].pick] \in Access
      BY <3>1 DEF Access
    <3> QED
      BY <2>1, <3>1, <3>2 DEF CreateUser, AccessIInv, AccessTypeOK
  <2>2. CASE AssignRole(r)
    <3>1. created /\ req[r].role \in Roles /\ UNCHANGED active
      BY <1>1, <2>2 DEF AssignRole, Grounded
    <3>2. [role |-> req[r].role, isActive |-> TRUE, isDefault |-> TRUE] \in Access
      BY <3>1 DEF Access
    <3>3. ASSUME NEW s \in Rows
          PROVE  OtherStation(access[s], req[r].role) \in Access
      BY <1>2, <3>1 DEF OtherStation, Access
    <3>4. \A s \in Stations : access'[s] \in Access \cup {None} /\ (s \in Rows => access'[s] \in Access)
      BY <1>2, <1>3, <2>2, <3>2, <3>3 DEF AssignRole, AccessIInv, AccessTypeOK
    <3> QED
      BY <2>2, <3>1, <3>4 DEF AssignRole, AccessIInv, AccessTypeOK, Rows
  <2>3. CASE AssignStations(r)
    <3>1. created /\ (req[r].stations # {} => req[r].role \in Roles)
      BY <1>1, <2>3 DEF AssignStations, Grounded
    <3>2. ASSUME NEW s \in req[r].stations
          PROVE  [role |-> req[r].role, isActive |-> TRUE, isDefault |-> s = req[r].pick] \in Access
      BY <3>1 DEF Access
    <3>3. ASSUME NEW s \in Rows
          PROVE  WithdrawnRow(access[s]) \in Access
      BY <1>2 DEF WithdrawnRow, Access
    <3>4. \A s \in Stations : access'[s] \in Access \cup {None} /\ (s \in Rows => access'[s] \in Access)
      BY <1>2, <1>3, <2>3, <3>2, <3>3 DEF AssignStations, AccessIInv, AccessTypeOK
    <3>5. active' \in [Sessions -> Stations \cup {None}]
      BY <2>3 DEF AssignStations, SessionsLeave, AccessIInv, AccessTypeOK
    <3>6. Roles # {}
      BY <3>1 DEF AccessIInv
    <3> QED
      BY <2>3, <3>4, <3>5, <3>6 DEF AssignStations, AccessIInv, AccessTypeOK, Rows
  <2> QED
    BY <2>1, <2>2, <2>3
<1> QED
  BY <1>4, <1>5, CommitKeeps

\* Closing a station touches no access.
LEMMA UpdateStationKeeps ==
  ASSUME AccessIInv, NEW s \in Closable, UpdateStation(s)
  PROVE  AccessIInv' /\ SameGrants /\ UNCHANGED <<active, req, holder>>
<1> USE ClosableAssumption
<1>1. UNCHANGED <<access, holder, active, created, req>> /\ open' \subseteq Stations
  BY DEF UpdateStation, AccessIInv, AccessTypeOK
<1> QED
  BY <1>1 DEF AccessIInv, AccessTypeOK, Rows, Granted, Idle, Grounded, LocksInTransaction, At, SameGrants

\* The steps of a request, by what they do to the accesses and to the sessions.
Reads(r) ==
  \/ Begin(r) \/ Snapshot(r) \/ \E s \in Stations : LockRow(r, s)
  \/ RepairRead(r) \/ SelectRead(r) \/ GetRead(r) \/ GetCheck(r)
  \/ AssignStationsCheck(r) \/ Abandon(r)

Repairs(r) == RepairOnly(r) \/ RepairCommit(r)

Assigns(r) == CreateUser(r) \/ AssignRole(r) \/ AssignStations(r)

LEMMA AccessSteps ==
  ASSUME NEW r \in Requests, Begin(r) \/ Work(r) \/ Abandon(r)
  PROVE  Reads(r) \/ Repairs(r) \/ SelectWrite(r) \/ GetClear(r) \/ Assigns(r)
BY DEF Work, Proceed, Victim, Answer, Reads, Repairs, Assigns

LEMMA AccessBegin == AccessInit => AccessIInv
BY NoneAssumption DEF AccessInit, AccessIInv, AccessTypeOK, Rows, LocksInTransaction, Idle

LEMMA AccessStep == AccessIInv /\ [AccessNext]_accessVars => AccessIInv'
<1> SUFFICES ASSUME AccessIInv, [AccessNext]_accessVars PROVE AccessIInv'
  OBVIOUS
<1>1. ASSUME NEW r \in Requests, Begin(r) \/ Work(r) \/ Abandon(r)
      PROVE  AccessIInv'
  BY <1>1, AccessSteps, AccessBegins, AccessReads, LockKeeps, RepairKeeps, SessionWritesKeep,
     AssignmentsKeep DEF Reads, Repairs, Assigns
<1>2. CASE UNCHANGED accessVars
  BY <1>2 DEF accessVars, AccessIInv, AccessTypeOK, Rows, Idle, Grounded, LocksInTransaction, At
<1> QED
  BY <1>1, <1>2, UpdateStationKeeps DEF AccessNext

\* The tables stay well formed, and only a transaction that is taking its rows holds any.
THEOREM AccessInvariance == AccessSpec => []AccessIInv
BY AccessBegin, AccessStep, PTL DEF AccessSpec

(***************************************************************************)
(* One request at a time: the services implement StationGrants, though     *)
(* stations close and open between the steps of the request.               *)
(***************************************************************************)
OneRequest == \A q, r \in Requests : q = r

\* All stations of the user have one role.
OneRole == \A s, t \in Granted : access[s].role = access[t].role

\* What the request in flight has checked still holds, and it locks every row that its
\* assignment has to change.
StillTrue(r) ==
  /\ At(r, "write") /\ req[r].op = "selectStation" => req[r].station \in Granted
  /\ At(r, "lock") /\ req[r].op \in {"assignUserRole", "assignUserStations"} =>
       Where(r) \subseteq Held(r) \cup req[r].rows

GrantsIInv == OneRole /\ ActiveIsGranted /\ \A r \in Requests : StillTrue(r)

\* The role of the user is the one at any of the stations.
LEMMA RoleAnywhere ==
  ASSUME OneRole, NEW s \in Granted
  PROVE  TheRole = access[s].role
<1>1. (CHOOSE t \in Granted : TRUE) \in Granted
  OBVIOUS
<1> QED
  BY <1>1 DEF TheRole, OneRole

LEMMA RoleAnywhereNext ==
  ASSUME OneRole', NEW s \in Granted'
  PROVE  TheRole' = access'[s].role
<1>1. (CHOOSE t \in Granted' : TRUE) \in Granted'
  OBVIOUS
<1> QED
  BY <1>1 DEF TheRole, OneRole

\* Where no grant and no role changes, the user has the role as before.
LEMMA NothingGranted ==
  ASSUME SameGrants, OneRole
  PROVE  OneRole' /\ UNCHANGED <<Granted, TheRole>>
<1>1. Granted \subseteq Rows
  BY DEF Granted
<1>2. OneRole'
  BY <1>1 DEF SameGrants, OneRole
<1>3. TheRole' = TheRole
  <2>1. CASE Granted = {}
    BY <2>1 DEF TheRole, SameGrants
  <2>2. CASE Granted # {}
    <3>1. PICK s : s \in Granted
      BY <2>2
    <3>2. s \in Granted' /\ access'[s].role = access[s].role
      BY <1>1, <3>1 DEF SameGrants
    <3> QED
      BY <1>2, <3>1, <3>2, RoleAnywhere, RoleAnywhereNext
  <2> QED
    BY <2>1, <2>2
<1> QED
  BY <1>2, <1>3 DEF SameGrants

LEMMA ReadsAlone ==
  ASSUME OneRequest, AccessIInv, AccessIInv', GrantsIInv, NEW r \in Requests, Reads(r)
  PROVE  GrantsIInv' /\ UNCHANGED <<Granted, TheRole, active>>
<1> USE NoneAssumption
<1>1. UNCHANGED <<access, active>>
  BY DEF Reads, Begin, BeginSelect, BeginGetActive, BeginMyStations, BeginCreateUser, BeginAssignRole,
         BeginAssignStations, Begins, Snapshot, LockRow, RepairRead, SelectRead, GetRead, GetCheck,
         AssignStationsCheck, Abandon
<1>2. UNCHANGED <<Granted, Rows>> /\ SameGrants
  BY <1>1 DEF Granted, Rows, SameGrants
<1>3. StillTrue(r)'
  <2>1. CASE Begin(r)
    <3> DEFINE Starts(q) == Begins(r, q) /\ q.pc # "lock" /\ (q.op = "selectStation" => q.pc # "write")
    <3>1. \E q : Starts(q)
      <4>1. ASSUME NEW k \in Sessions, NEW s \in Stations, BeginSelect(r, k, s)
            PROVE  Starts([Blank EXCEPT !.op = "selectStation", !.session = k, !.station = s])
        BY <4>1 DEF BeginSelect, Blank
      <4>2. ASSUME NEW k \in Sessions, BeginGetActive(r, k)
            PROVE  Starts([Blank EXCEPT !.op = "getActiveStation", !.session = k])
        BY <4>2 DEF BeginGetActive, Blank
      <4>3. ASSUME BeginMyStations(r)
            PROVE  Starts(Blank)
        BY <4>3 DEF BeginMyStations, Blank
      <4>4. ASSUME NEW s \in Stations, NEW list \in SUBSET Stations, NEW role \in Roles,
                   BeginCreateUser(r, s, list, role)
            PROVE  \E q : Starts(q)
        <5>1. PICK d : Begins(r, [Blank EXCEPT !.op = "createUser", !.pc = "write", !.stations = list,
                                              !.role = role, !.pick = d])
          BY <4>4, Zenon DEF BeginCreateUser
        <5>2. Starts([Blank EXCEPT !.op = "createUser", !.pc = "write", !.stations = list,
                                   !.role = role, !.pick = d])
          BY <5>1 DEF Blank
        <5> QED
          BY <5>2
      <4>5. ASSUME NEW s \in Stations, NEW role \in Roles, BeginAssignRole(r, s, role)
            PROVE  Starts([Blank EXCEPT !.op = "assignUserRole", !.pc = "snapshot", !.station = s,
                                        !.role = role])
        BY <4>5 DEF BeginAssignRole, Blank
      <4>6. ASSUME NEW s \in Stations, NEW list \in SUBSET Stations, NEW requested \in Roles \cup {None},
                   BeginAssignStations(r, s, list, requested)
            PROVE  \E q : Starts(q)
        <5>1. PICK role, d : Begins(r, [Blank EXCEPT !.op = "assignUserStations", !.pc = "check",
                                                    !.stations = list, !.role = role, !.pick = d])
          BY <4>6, Zenon DEF BeginAssignStations
        <5>2. Starts([Blank EXCEPT !.op = "assignUserStations", !.pc = "check",
                                   !.stations = list, !.role = role, !.pick = d])
          BY <5>1 DEF Blank
        <5> QED
          BY <5>2
      <4> HIDE DEF Starts
      <4> QED
        BY <2>1, <4>1, <4>2, <4>3, <4>4, <4>5, <4>6 DEF Begin
    <3>3. PICK q : Starts(q)
      BY <3>1
    <3>2. req'[r] = q
      BY <3>3 DEF Begins, AccessIInv, AccessTypeOK
    <3> QED
      BY <3>2, <3>3 DEF StillTrue, At
  <2>2. CASE Snapshot(r)
    <3>1. req'[r].op = req[r].op /\ req'[r].pc = "lock" /\ req'[r].rows = Where(r)
      BY <2>2 DEF Snapshot, At, Idle, AccessIInv, AccessTypeOK, Operation
    <3>2. Where(r)' = Where(r)
      BY <1>2, <3>1 DEF Where
    <3> QED
      BY <3>1, <3>2 DEF StillTrue, At
  <2>3. ASSUME NEW s \in Stations, LockRow(r, s)
        PROVE  StillTrue(r)'
    <3>1. /\ req[r] \in Operation /\ At(r, "lock")
          /\ req'[r].op = req[r].op /\ req'[r].pc = "lock" /\ req'[r].rows = req[r].rows \ {s}
      BY <2>3 DEF LockRow, At, Idle, AccessIInv, AccessTypeOK, Operation
    <3>2. Where(r)' = Where(r)
      BY <1>2, <3>1 DEF Where
    <3>3. \A t \in Stations : t \in Held(r) \/ (t = s /\ t \in Where(r)) => t \in Held(r)'
      BY <2>3 DEF LockRow, Held, AccessIInv, AccessTypeOK
    <3>4. Where(r) \subseteq Stations
      BY DEF Where, Granted, Rows
    <3> QED
      BY <3>1, <3>2, <3>3, <3>4 DEF StillTrue, GrantsIInv, At
  <2>4. CASE SelectRead(r)
    <3>1. req'[r].op = "selectStation" /\ req'[r].pc = "write" /\ req'[r].station = req[r].station
      BY <2>4 DEF SelectRead, Goto, At, Idle, AccessIInv, AccessTypeOK, Operation
    <3>2. req[r].station \in Granted
      BY <2>4 DEF SelectRead, MaySelect, Usable
    <3> QED
      BY <1>2, <3>1, <3>2 DEF StillTrue, At
  <2>5. CASE RepairRead(r) \/ GetRead(r) \/ GetCheck(r) \/ AssignStationsCheck(r)
    <3>1. req[r] \in Operation /\ Grounded(req[r])
      BY <2>5 DEF RepairRead, GetRead, GetCheck, AssignStationsCheck, At, Idle, AccessIInv, AccessTypeOK
    <3>2. CASE Ends(r)
      BY <3>2 DEF Ends, StillTrue, At, Idle, AccessIInv, AccessTypeOK
    <3>3. CASE RepairRead(r) /\ ~Ends(r)
      <4>1. req[r].op \in {"selectStation", "getActiveStation", "getMyStations"}
        BY <3>1, <3>3 DEF RepairRead, At, Grounded, Operation
      <4>2. req'[r] \in Operation /\ req'[r].op = req[r].op /\ req'[r].pc \in {"read", "default", "snapshot"}
        <5>1. CASE Continue(r)
          BY <3>1, <3>3, <5>1 DEF Continue, AccessIInv, AccessTypeOK, Operation
        <5>2. ASSUME NEW s \in Picks, NEW pc \in {"default", "snapshot"},
                     req' = [req EXCEPT ![r].pick = s, ![r].pc = pc]
              PROVE  req'[r] \in Operation /\ req'[r].op = req[r].op /\ req'[r].pc = pc
          <6>1. s \in Stations
            BY DEF Picks, Usable, Granted, Rows
          <6> QED
            BY <3>1, <5>2, <6>1 DEF AccessIInv, AccessTypeOK, Operation
        <5> QED
          BY <3>3, <5>1, <5>2 DEF RepairRead
      <4> QED
        BY <4>1, <4>2 DEF StillTrue, At
    <3>4. CASE GetRead(r) \/ GetCheck(r)
      <4>1. req[r].op = "getActiveStation" /\ req'[r].op = req[r].op
        BY <3>1, <3>4 DEF GetRead, GetCheck, Goto, AccessIInv, AccessTypeOK, Operation
      <4> QED
        BY <4>1 DEF StillTrue, At
    <3>5. CASE AssignStationsCheck(r)
      <4>1. req[r].op = "assignUserStations" /\ req'[r].op = req[r].op /\ req'[r].pc = "snapshot"
        BY <3>1, <3>5 DEF AssignStationsCheck, Goto, AccessIInv, AccessTypeOK, Operation
      <4> QED
        BY <4>1 DEF StillTrue, At
    <3> QED
      BY <2>5, <3>2, <3>3, <3>4, <3>5
  <2>6. CASE Abandon(r)
    BY <2>6 DEF Abandon, Ends, StillTrue, At, Idle, AccessIInv, AccessTypeOK
  <2> QED
    BY <2>1, <2>2, <2>3, <2>4, <2>5, <2>6 DEF Reads
<1>4. \A q \in Requests : StillTrue(q)'
  BY <1>3 DEF OneRequest
<1>5. ActiveIsGranted'
  BY <1>1, <1>2 DEF GrantsIInv, ActiveIsGranted
<1> QED
  BY <1>1, <1>2, <1>4, <1>5, NothingGranted DEF GrantsIInv

\* A request that has ended or is about to read relies on nothing.
LEMMA NothingKnown ==
  ASSUME OneRequest, NEW r \in Requests, req'[r] = None \/ req'[r].pc = "read"
  PROVE  \A q \in Requests : StillTrue(q)'
BY DEF OneRequest, StillTrue, At, Idle

LEMMA RepairsAlone ==
  ASSUME OneRequest, AccessIInv, AccessIInv', GrantsIInv, NEW r \in Requests, Repairs(r)
  PROVE  GrantsIInv' /\ UNCHANGED <<Granted, TheRole, active>>
<1> USE NoneAssumption
<1>1. SameGrants /\ UNCHANGED active
  BY RepairKeeps DEF Repairs
<1>2. req'[r] = None \/ req'[r].pc = "read"
  <2>1. req[r] \in Operation
    BY DEF Repairs, RepairOnly, RepairCommit, AllLocked, At, Idle, AccessIInv, AccessTypeOK
  <2>2. CASE RepairOnly(r)
    BY <2>1, <2>2 DEF RepairOnly, Continue, Ends, AccessIInv, AccessTypeOK, Operation
  <2>3. CASE RepairCommit(r)
    BY <2>1, <2>3 DEF RepairCommit, AccessIInv, AccessTypeOK, Operation
  <2> QED
    BY <2>2, <2>3 DEF Repairs
<1>3. ActiveIsGranted'
  BY <1>1 DEF GrantsIInv, ActiveIsGranted, SameGrants
<1> QED
  BY <1>1, <1>2, <1>3, NothingKnown, NothingGranted DEF GrantsIInv

\* What a session writes is a station of the user, or none.
LEMMA SessionWritesAlone ==
  ASSUME OneRequest, AccessIInv, GrantsIInv, NEW r \in Requests, SelectWrite(r) \/ GetClear(r)
  PROVE  /\ GrantsIInv'
         /\ UNCHANGED <<Granted, TheRole>>
         /\ \E k \in Sessions, s \in Granted \cup {None} : active' = [active EXCEPT ![k] = s]
<1> USE NoneAssumption
<1>1. /\ req[r] \in Operation /\ req[r].session \in Sessions
      /\ req'[r] = None /\ UNCHANGED access
  BY DEF SelectWrite, GetClear, Ends, At, Idle, AccessIInv, AccessTypeOK, Grounded
<1>2. SameGrants
  BY <1>1 DEF SameGrants, Granted, Rows
<1>3. PICK k \in Sessions, s \in Granted \cup {None} : active' = [active EXCEPT ![k] = s]
  <2>1. CASE SelectWrite(r)
    <3>1. req[r].station \in Granted
      BY <2>1 DEF SelectWrite, GrantsIInv, StillTrue
    <3> QED
      BY <1>1, <2>1, <3>1 DEF SelectWrite
  <2>2. CASE GetClear(r)
    BY <1>1, <2>2 DEF GetClear
  <2> QED
    BY <2>1, <2>2
<1>4. ActiveIsGranted'
  BY <1>2, <1>3 DEF ActiveIsGranted, GrantsIInv, SameGrants, AccessIInv, AccessTypeOK
<1> QED
  BY <1>1, <1>2, <1>3, <1>4, NothingKnown, NothingGranted DEF GrantsIInv

\* assignUserRole has locked every station of the user when it commits.
LEMMA AssignRoleAlone ==
  ASSUME OneRequest, AccessIInv, GrantsIInv, NEW r \in Requests, AssignRole(r)
  PROVE  /\ GrantsIInv' /\ UNCHANGED active
         /\ \E s \in Stations, q \in Roles : Granted' = Granted \cup {s} /\ TheRole' = q
<1> USE NoneAssumption
<1>1. /\ req[r] \in Operation /\ req[r].station \in Stations /\ req[r].role \in Roles
      /\ req'[r] = None /\ UNCHANGED active
  BY DEF AssignRole, AllLocked, Ends, At, Idle, AccessIInv, AccessTypeOK, Grounded
<1>2. Granted \subseteq Held(r)
  BY DEF AssignRole, AllLocked, GrantsIInv, StillTrue, Where
<1>3. Held(r) \subseteq Rows /\ \A s \in Rows : s \in Stations /\ access[s] \in Access
  BY DEF Held, Rows, AccessIInv, AccessTypeOK, LocksInTransaction
<1> DEFINE row == [role |-> req[r].role, isActive |-> TRUE, isDefault |-> TRUE]
<1>4. row \in Access /\ row.isActive /\ row.role = req[r].role
  BY <1>1 DEF Access
<1>5. ASSUME NEW s \in Rows
      PROVE  /\ OtherStation(access[s], req[r].role) \in Access
             /\ OtherStation(access[s], req[r].role).isActive = access[s].isActive
             /\ OtherStation(access[s], req[r].role).role = req[r].role
  BY <1>1, <1>3 DEF OtherStation, Access
<1> HIDE DEF row
<1>6. ASSUME NEW s \in Stations
      PROVE  access'[s] = IF s = req[r].station THEN row
                          ELSE IF s \in Held(r) THEN OtherStation(access[s], req[r].role)
                          ELSE access[s]
  BY DEF AssignRole, row
<1>7. Granted' = Granted \cup {req[r].station}
  BY <1>1, <1>2, <1>3, <1>4, <1>5, <1>6 DEF Granted, Rows
<1>8. \A s \in Granted' : access'[s].role = req[r].role
  BY <1>1, <1>2, <1>3, <1>4, <1>5, <1>6, <1>7
<1>9. OneRole'
  BY <1>8 DEF OneRole
<1>10. PICK q \in Roles : q = req[r].role
  BY <1>1
<1>11. TheRole' = q
  BY <1>7, <1>8, <1>9, <1>10, RoleAnywhereNext
<1>12. ActiveIsGranted'
  BY <1>1, <1>7 DEF ActiveIsGranted, GrantsIInv
<1> QED
  BY <1>1, <1>7, <1>9, <1>10, <1>11, <1>12, NothingKnown DEF GrantsIInv

\* createUser and assignUserStations leave the stations of their list, and no session
\* at another one.
LEMMA ReplaceAlone ==
  ASSUME OneRequest, AccessIInv, GrantsIInv, NEW r \in Requests, CreateUser(r) \/ AssignStations(r)
  PROVE  /\ GrantsIInv'
         /\ \E list \in SUBSET Stations, q \in Roles :
              /\ Granted' = list
              /\ TheRole' = IF list = {} THEN None ELSE q
              /\ active' = [k \in Sessions |-> IF active[k] \in list THEN active[k] ELSE None]
<1> USE NoneAssumption
<1>1. /\ req[r] \in Operation /\ req[r].stations \subseteq Stations
      /\ req[r].stations # {} => req[r].role \in Roles
      /\ req'[r] = None
  BY DEF CreateUser, AssignStations, AllLocked, Ends, At, Idle, AccessIInv, AccessTypeOK, Grounded,
         Operation
<1>2. PICK list \in SUBSET Stations : list = req[r].stations
  BY <1>1
<1>3. ASSUME NEW s \in Stations
      PROVE  /\ s \in list => /\ access'[s] # None /\ access'[s].isActive
                              /\ access'[s].role = req[r].role
             /\ s \notin list => access'[s] = None \/ ~access'[s].isActive
  <2>1. ASSUME s \in list,
               access'[s] = [role |-> req[r].role, isActive |-> TRUE, isDefault |-> s = req[r].pick]
        PROVE  access'[s] # None /\ access'[s].isActive /\ access'[s].role = req[r].role
    <3> DEFINE row == [role |-> req[r].role, isActive |-> TRUE, isDefault |-> s = req[r].pick]
    <3>1. row.isActive /\ row.role = req[r].role
      OBVIOUS
    <3>2. row \in Access
      BY <1>1, <1>2, <2>1 DEF Access
    <3> HIDE DEF row
    <3>3. access'[s] = row
      BY <2>1 DEF row
    <3> QED
      BY <3>1, <3>2, <3>3
  <2>2. CASE CreateUser(r)
    BY <1>2, <2>1, <2>2 DEF CreateUser
  <2>3. CASE AssignStations(r)
    <3>1. Rows \subseteq Held(r)
      BY <2>3 DEF AssignStations, AllLocked, GrantsIInv, StillTrue, Where
    <3>2. CASE s \in list
      BY <1>2, <2>1, <2>3, <3>2 DEF AssignStations
    <3>3. CASE s \notin list /\ s \in Rows
      <4>1. access'[s] = WithdrawnRow(access[s]) /\ access[s] \in Access
        BY <1>2, <2>3, <3>1, <3>3 DEF AssignStations, Rows, AccessIInv, AccessTypeOK
      <4>2. ~WithdrawnRow(access[s]).isActive
        BY <4>1 DEF WithdrawnRow, Access
      <4> QED
        BY <3>3, <4>1, <4>2
    <3>4. CASE s \notin list /\ s \notin Rows
      <4>1. s \notin Held(r) /\ access[s] = None
        BY <3>4 DEF Held, Rows, AccessIInv, LocksInTransaction
      <4> QED
        BY <1>2, <2>3, <3>4, <4>1 DEF AssignStations
    <3> QED
      BY <3>2, <3>3, <3>4
  <2> QED
    BY <2>2, <2>3
<1>4. Granted' = list
  BY <1>3 DEF Granted, Rows
<1>5. OneRole'
  BY <1>3, <1>4 DEF OneRole
<1>6. PICK q \in Roles : list # {} => q = req[r].role
  <2>1. Roles # {}
    <3>1. created'
      BY DEF CreateUser, AssignStations, AllLocked, At, Idle, AccessIInv, AccessTypeOK, Grounded
    <3> QED
      BY <1>1, <3>1, AssignmentsKeep DEF AccessIInv
  <2> QED
    BY <1>1, <1>2, <2>1
<1>7. TheRole' = IF list = {} THEN None ELSE q
  <2>1. CASE list = {}
    BY <1>4, <2>1 DEF TheRole
  <2>2. CASE list # {}
    BY <1>3, <1>4, <1>5, <1>6, <2>2, RoleAnywhereNext
  <2> QED
    BY <2>1, <2>2
<1>8. active' = [k \in Sessions |-> IF active[k] \in list THEN active[k] ELSE None]
  <2>1. CASE CreateUser(r)
    <3>1. UNCHANGED active /\ \A k \in Sessions : active[k] = None
      BY <2>1 DEF CreateUser, AccessIInv
    <3> QED
      BY <3>1 DEF AccessIInv, AccessTypeOK
  <2>2. CASE AssignStations(r)
    BY <1>2, <2>2 DEF AssignStations, SessionsLeave
  <2> QED
    BY <2>1, <2>2
<1>9. ActiveIsGranted'
  BY <1>4, <1>8 DEF ActiveIsGranted
<1> QED
  BY <1>1, <1>4, <1>5, <1>6, <1>7, <1>8, <1>9, NothingKnown DEF GrantsIInv

\* Each step is one of StationGrants, or changes nothing that it speaks of.
LEMMA GrantsStep ==
  ASSUME OneRequest, AccessIInv, AccessIInv', GrantsIInv, [AccessNext]_accessVars
  PROVE  GrantsIInv' /\ [Grants!GrantNext]_Grants!grantVars
<1>1. ASSUME NEW r \in Requests, Reads(r) \/ Repairs(r)
      PROVE  GrantsIInv' /\ UNCHANGED Grants!grantVars
  BY <1>1, ReadsAlone, RepairsAlone DEF Grants!grantVars
<1>2. ASSUME NEW r \in Requests, SelectWrite(r) \/ GetClear(r)
      PROVE  GrantsIInv' /\ Grants!GrantNext
  <2>1. PICK k \in Sessions, s \in Granted \cup {None} : active' = [active EXCEPT ![k] = s]
    BY <1>2, SessionWritesAlone
  <2>2. GrantsIInv' /\ UNCHANGED <<Granted, TheRole>>
    BY <1>2, SessionWritesAlone
  <2>3. CASE s = None
    <3>1. Grants!Leave(k)
      BY <2>1, <2>2, <2>3 DEF Grants!Leave
    <3> QED
      BY <2>2, <3>1 DEF Grants!GrantNext
  <2>4. CASE s \in Granted
    <3>1. Grants!Work(k, s) /\ s \in Stations
      BY <2>1, <2>2, <2>4 DEF Grants!Work, Granted, Rows
    <3> QED
      BY <2>2, <3>1 DEF Grants!GrantNext
  <2> QED
    BY <2>3, <2>4
<1>3. ASSUME NEW r \in Requests, AssignRole(r)
      PROVE  GrantsIInv' /\ Grants!GrantNext
  <2>1. PICK s \in Stations, q \in Roles : Granted' = Granted \cup {s} /\ TheRole' = q
    BY <1>3, AssignRoleAlone
  <2>2. Grants!GiveRole(s, q)
    BY <1>3, <2>1, AssignRoleAlone DEF Grants!GiveRole
  <2> QED
    BY <1>3, <2>2, AssignRoleAlone DEF Grants!GrantNext
<1>4. ASSUME NEW r \in Requests, CreateUser(r) \/ AssignStations(r)
      PROVE  GrantsIInv' /\ Grants!GrantNext
  <2>1. PICK list \in SUBSET Stations, q \in Roles :
          /\ Granted' = list
          /\ TheRole' = IF list = {} THEN None ELSE q
          /\ active' = [k \in Sessions |-> IF active[k] \in list THEN active[k] ELSE None]
    BY <1>4, ReplaceAlone
  <2>2. Grants!Replace(list, q)
    BY <2>1 DEF Grants!Replace, Grants!Withdrawn
  <2> QED
    BY <1>4, <2>2, ReplaceAlone DEF Grants!GrantNext
<1>5. ASSUME NEW s \in Closable, UpdateStation(s)
      PROVE  GrantsIInv' /\ UNCHANGED Grants!grantVars
  <2>1. SameGrants /\ UNCHANGED <<active, req, holder>>
    BY <1>5, UpdateStationKeeps
  <2>2. ActiveIsGranted' /\ \A r \in Requests : StillTrue(r)'
    BY <2>1 DEF GrantsIInv, ActiveIsGranted, StillTrue, At, Idle, Where, Held, SameGrants
  <2> QED
    BY <2>1, <2>2, NothingGranted DEF GrantsIInv, Grants!grantVars
<1>6. CASE UNCHANGED accessVars
  <2>1. SameGrants /\ UNCHANGED <<active, req, holder>>
    BY <1>6 DEF accessVars, SameGrants, Granted, Rows
  <2>2. ActiveIsGranted' /\ \A r \in Requests : StillTrue(r)'
    BY <2>1 DEF GrantsIInv, ActiveIsGranted, StillTrue, At, Idle, Where, Held, SameGrants
  <2> QED
    BY <2>1, <2>2, NothingGranted DEF GrantsIInv, Grants!grantVars
<1> QED
  BY <1>1, <1>2, <1>3, <1>4, <1>5, <1>6, AccessSteps DEF AccessNext, Assigns

LEMMA GrantsInvariance == ASSUME OneRequest PROVE AccessSpec => []GrantsIInv
<1>1. AccessInit => GrantsIInv
  BY DEF AccessInit, GrantsIInv, OneRole, ActiveIsGranted, StillTrue, At, Idle, Granted, Rows
<1>2. AccessIInv /\ AccessIInv' /\ GrantsIInv /\ [AccessNext]_accessVars => GrantsIInv'
  BY GrantsStep
<1> QED
  BY <1>1, <1>2, AccessInvariance, PTL DEF AccessSpec

\* Served one at a time, the requests implement StationGrants (access-control.service.ts,
\* stations.service.ts): one role at all stations, and sessions at stations of the user.
THEOREM SerialImplementsGrants ==
  ASSUME OneRequest PROVE AccessSpec => ImplementsGrants
<1>1. AccessInit => Grants!GrantInit
  BY DEF AccessInit, Grants!GrantInit, TheRole, Granted, Rows
<1>2. AccessIInv /\ AccessIInv' /\ GrantsIInv /\ [AccessNext]_accessVars
        => [Grants!GrantNext]_Grants!grantVars
  BY GrantsStep
<1> QED
  BY <1>1, <1>2, AccessInvariance, GrantsInvariance, PTL DEF AccessSpec, ImplementsGrants, Grants!GrantSpec

\* A session works only at a station of the user when requests are served one at a time;
\* race_active_is_granted shows that a selection and a withdrawal beside it break this.
THEOREM SerialActiveIsGranted ==
  ASSUME OneRequest PROVE AccessSpec => []ActiveIsGranted
<1>1. GrantsIInv => ActiveIsGranted
  BY DEF GrantsIInv
<1> QED
  BY <1>1, GrantsInvariance, PTL

-----------------------------------------------------------------------------
(***************************************************************************)
(* Roles.  A transaction that saves a form keeps each row it has written   *)
(* from the others (Exclusive), and has written it as its form says        *)
(* (WritesItsForm).  What others see of a row that was saved is the row of *)
(* the form that was saved last (SeenAsSaved).                             *)
(***************************************************************************)

Saving(r) == Reached(r, "upsert")

\* The row of a module, for one role, is locked by the transaction of r.
Holds(r, role, m) == Saving(r) /\ request[r].role = role /\ m \in DOMAIN request[r].old

\* The rows of role_module_access: flags, or what stands for no row.
AccessRow == SUBSET (AccessFlags \cup NoRow)

\* A form that is being saved, and the rows that are kept meanwhile.
KeptRows == UNION {[some -> AccessRow] : some \in SUBSET Modules}

Transaction ==
  [at : {"upsert"}, role : RoleRows, todo : Seq(Modules), form : [Modules -> Forms],
   old : KeptRows]

\* The type invariant of what a transaction needs; codes play no part in it.
RolesTypeOK ==
  /\ rows \in [RoleRows -> [Modules -> AccessRow]]
  /\ saved \in [RoleRows -> [Modules -> Forms \cup {NoForm}]]
  /\ request = [r \in Handlers |-> request[r]]
  /\ \A r \in Handlers : Saving(r) => request[r] \in Transaction

Exclusive ==
  \A r, q \in Handlers, role \in RoleRows, m \in Modules :
    Holds(r, role, m) /\ Holds(q, role, m) => r = q

WritesItsForm ==
  \A r \in Handlers, role \in RoleRows, m \in Modules :
    Holds(r, role, m) => rows[role][m] = RowOf(request[r].form[m])

\* What is kept of a row while its transaction is open, and the row itself otherwise.
SeenAsSaved ==
  \A role \in RoleRows, m \in Modules : saved[role][m] # NoForm =>
    /\ \A r \in Handlers : Holds(r, role, m) => request[r].old[m] = RowOf(saved[role][m])
    /\ (\A r \in Handlers : ~Holds(r, role, m)) => rows[role][m] = RowOf(saved[role][m])

RolesIInv == RolesTypeOK /\ Exclusive /\ WritesItsForm /\ SeenAsSaved

\* A permission form never makes the row that stands for none.
LEMMA FormsMakeRows == \A form : RowOf(form) # NoRow
  BY DEF RowOf, NoRow

LEMMA RowsOfAccess ==
  /\ NoRow \in AccessRow
  /\ \A form : RowOf(form) \in AccessRow
  /\ \A m : DefaultRow(m) \in AccessRow
  /\ \A before : SeedAccess(before) \in AccessRow
  BY DEF AccessRow, AccessFlags, NoRow, RowOf, DefaultRow, SeedAccess

LEMMA Restores ==
  ASSUME NEW old \in KeptRows, NEW now \in [Modules -> AccessRow]
  PROVE  Restored(old, now) \in [Modules -> AccessRow]
  BY DEF KeptRows, Restored

LEMMA LockedRows ==
  ASSUME NEW role, NEW m
  PROVE  m \in Locked(role) <=> \E r \in Handlers : Holds(r, role, m)
  BY DEF Locked, Holds, Saving

LEMMA RolesInitInvariant == RolesInit => RolesIInv
<1> SUFFICES ASSUME RolesInit PROVE RolesIInv
  OBVIOUS
<1>1. \A r \in Handlers : ~Saving(r)
  BY DEF RolesInit, Saving, Reached, Unoccupied
<1> QED
  BY <1>1, RowsOfAccess DEF RolesInit, RolesIInv, RolesTypeOK, Exclusive, WritesItsForm, SeenAsSaved, Holds

\* A handler that neither opens nor closes a transaction, nor holds a row.
LEMMA HandlerKeeps ==
  ASSUME RolesIInv, NEW r \in Handlers, NEW record, MovesTo(r, record), ~Saving(r),
         record.at = "upsert" => record \in Transaction /\ DOMAIN record.old = {},
         UNCHANGED <<rows, saved>>
  PROVE  RolesIInv'
<1>1. request'[r] = record /\ \A q \in Handlers \ {r} : request'[q] = request[q]
  BY DEF RolesIInv, RolesTypeOK, MovesTo
<1>2. \A q \in Handlers, role \in RoleRows, m \in Modules : Holds(q, role, m)' <=> Holds(q, role, m)
  BY <1>1 DEF Holds, Saving, Reached
<1>3. RolesTypeOK'
  BY <1>1 DEF RolesIInv, RolesTypeOK, MovesTo, Saving, Reached
<1>4. \A q \in Handlers, role \in RoleRows, m \in Modules : Holds(q, role, m) => request'[q] = request[q]
  BY <1>1 DEF Holds
<1> QED
  BY <1>2, <1>3, <1>4 DEF RolesIInv, Exclusive, WritesItsForm, SeenAsSaved

\* Orders of a permission form list modules.
LEMMA OrdersAreSequences ==
  ASSUME IsFiniteSet(Modules)
  PROVE  Orders \subseteq Seq(Modules)
<1> SUFFICES ASSUME NEW chosen \in SUBSET Modules, NEW order \in SetToSeqs(chosen)
             PROVE  order \in Seq(Modules)
  BY DEF Orders
<1>1. Cardinality(chosen) \in Nat
  BY FS_Subset, FS_CardinalityType
<1>2. order \in [1..Cardinality(chosen) -> chosen]
  BY DEF SetToSeqs
<1> QED
  BY <1>1, <1>2

LEMMA BeginSaveKeeps ==
  ASSUME RolesIInv, NEW r \in Handlers, BeginSave(r)
  PROVE  RolesIInv'
<1> PICK role \in RoleRows, order \in Orders, form \in [Modules -> Forms] :
      MovesTo(r, [at |-> "upsert", role |-> role, todo |-> order, form |-> form,
                  old |-> [m \in {} |-> NoRow]])
  BY DEF BeginSave
<1> PICK record : record = [at |-> "upsert", role |-> role, todo |-> order, form |-> form,
                            old |-> [m \in {} |-> NoRow]]
  OBVIOUS
<1>1. order \in Seq(Modules)
  BY OrdersAreSequences, RoleAssumption
<1>2. record \in Transaction /\ DOMAIN record.old = {}
  <2>1. [m \in {} |-> NoRow] \in [{} -> AccessRow] /\ {} \in SUBSET Modules
    OBVIOUS
  <2>2. [m \in {} |-> NoRow] \in KeptRows
    BY <2>1 DEF KeptRows
  <2> QED
    BY <1>1, <2>2 DEF Transaction
<1>3. ~Saving(r) /\ UNCHANGED <<rows, saved>>
  BY DEF BeginSave, Reached, Saving
<1> QED
  BY <1>2, <1>3, HandlerKeeps

\* A transaction goes on by one row: others still see what the row was.
LEMMA WriteKeeps ==
  ASSUME RolesIInv, NEW r \in Handlers, Saving(r),
         NEW role \in RoleRows, role = request[r].role,
         NEW m \in Modules, m \notin Locked(role),
         NEW record \in Transaction, request' = [request EXCEPT ![r] = record],
         record.role = role, record.form = request[r].form,
         DOMAIN record.old = DOMAIN request[r].old \cup {m},
         record.old[m] = rows[role][m],
         \A n \in DOMAIN request[r].old : record.old[n] = request[r].old[n],
         rows' = [rows EXCEPT ![role][m] = RowOf(record.form[m])],
         UNCHANGED saved
  PROVE  RolesIInv'
<1>0. RolesTypeOK /\ Exclusive /\ WritesItsForm /\ SeenAsSaved
  BY DEF RolesIInv
<1>3. \A q \in Handlers : ~Holds(q, role, m)
  BY LockedRows
<1>5. /\ record.old[m] = rows[role][m]
      /\ DOMAIN record.old = DOMAIN request[r].old \cup {m}
      /\ \A n \in DOMAIN request[r].old : record.old[n] = request[r].old[n]
  OBVIOUS
<1>6. record.at = "upsert" /\ record.role = role /\ record.form = request[r].form
  BY DEF Transaction
<1>7. request'[r] = record /\ \A q \in Handlers \ {r} : request'[q] = request[q]
  BY <1>0, <1>3 DEF RolesTypeOK
<1>8. /\ rows'[role][m] = RowOf(record.form[m])
      /\ \A other \in RoleRows, n \in Modules : other # role \/ n # m => rows'[other][n] = rows[other][n]
  BY <1>0, <1>3 DEF RolesTypeOK
<1>9. RolesTypeOK'
  <2>1. rows' \in [RoleRows -> [Modules -> AccessRow]]
    BY <1>0, <1>3, RowsOfAccess DEF RolesTypeOK
  <2>2. request' = [q \in Handlers |-> request'[q]]
    BY <1>0, <1>3 DEF RolesTypeOK
  <2>3. \A q \in Handlers : Saving(q)' => request'[q] \in Transaction
    BY <1>0, <1>6, <1>7 DEF RolesTypeOK, Saving, Reached
  <2> QED
    BY <1>0, <1>3, <2>1, <2>2, <2>3 DEF RolesTypeOK
<1>10. \A other \in RoleRows, n \in Modules :
         /\ Holds(r, other, n) <=> other = role /\ n \in DOMAIN request[r].old
         /\ Holds(r, other, n)' <=> other = role /\ n \in DOMAIN record.old
  BY <1>0, <1>6, <1>7 DEF Holds, Saving, Reached
<1>11. \A q \in Handlers \ {r}, other \in RoleRows, n \in Modules :
         Holds(q, other, n)' <=> Holds(q, other, n)
  BY <1>7 DEF Holds, Saving, Reached
<1>12. \A other \in RoleRows, n \in Modules : other # role \/ n # m =>
         \A q \in Handlers : Holds(q, other, n)' <=> Holds(q, other, n)
  <2> SUFFICES ASSUME NEW other \in RoleRows, NEW n \in Modules, other # role \/ n # m
               PROVE  Holds(r, other, n)' <=> Holds(r, other, n)
    BY <1>11
  <2>1. n # m => (n \in DOMAIN record.old <=> n \in DOMAIN request[r].old)
    BY <1>5
  <2> QED
    BY <1>10, <2>1
<1>13. Exclusive'
  BY <1>0, <1>3, <1>11, <1>12 DEF Exclusive
<1>14. WritesItsForm'
  <2> SUFFICES ASSUME NEW q \in Handlers, NEW other \in RoleRows, NEW n \in Modules, Holds(q, other, n)'
               PROVE  rows'[other][n] = RowOf(request'[q].form[n])
    BY DEF WritesItsForm
  <2>1. CASE other = role /\ n = m
    BY <1>3, <1>6, <1>7, <1>8, <1>11, <2>1
  <2>2. CASE other # role \/ n # m
    <3>1. rows[other][n] = RowOf(request[q].form[n])
      BY <1>0, <1>12, <2>2 DEF WritesItsForm
    <3>2. request'[q].form = request[q].form
      BY <1>6, <1>7
    <3> QED
      BY <1>8, <2>2, <3>1, <3>2
  <2> QED
    BY <2>1, <2>2
<1>15. SeenAsSaved'
  <2> SUFFICES ASSUME NEW other \in RoleRows, NEW n \in Modules, saved[other][n] # NoForm
               PROVE  /\ \A q \in Handlers : Holds(q, other, n)' => request'[q].old[n] = RowOf(saved[other][n])
                      /\ (\A q \in Handlers : ~Holds(q, other, n)') => rows'[other][n] = RowOf(saved[other][n])
    <3>1. saved' = saved
      BY <1>3
    <3> QED
      BY <3>1 DEF SeenAsSaved
  <2>0. /\ \A q \in Handlers : Holds(q, other, n) => request[q].old[n] = RowOf(saved[other][n])
        /\ (\A q \in Handlers : ~Holds(q, other, n)) => rows[other][n] = RowOf(saved[other][n])
    BY <1>0 DEF SeenAsSaved
  <2>1. CASE other = role /\ n = m
    <3>1. Holds(r, role, m)' /\ request'[r].old[m] = rows[role][m]
      BY <1>5, <1>6, <1>7, <1>10
    <3>2. \A q \in Handlers : Holds(q, role, m)' => q = r
      BY <1>3, <1>11
    <3> QED
      BY <1>3, <2>0, <2>1, <3>1, <3>2
  <2>2. CASE other # role \/ n # m
    <3>1. ASSUME NEW q \in Handlers, Holds(q, other, n) PROVE request'[q].old[n] = request[q].old[n]
      <4>1. CASE q = r
        <5>1. n \in DOMAIN request[r].old
          BY <1>10, <3>1, <4>1
        <5>2. request'[r].old = record.old
          BY <1>6, <1>7
        <5> QED
          BY <1>5, <4>1, <5>1, <5>2
      <4>2. CASE q # r
        BY <1>7, <4>2
      <4> QED
        BY <4>1, <4>2
    <3> QED
      BY <1>8, <1>12, <2>0, <2>2, <3>1
  <2> QED
    BY <2>1, <2>2
<1> QED
  BY <1>9, <1>13, <1>14, <1>15 DEF RolesIInv

LEMMA UpsertKeeps ==
  ASSUME RolesIInv, NEW r \in Handlers, Upsert(r)
  PROVE  RolesIInv'
<1>0. RolesTypeOK /\ Saving(r) /\ request[r] \in Transaction /\ request[r].todo # <<>>
  BY DEF RolesIInv, RolesTypeOK, Upsert, Saving
<1> DEFINE role == request[r].role
<1> DEFINE m == Head(request[r].todo)
<1> DEFINE old == Keeping(request[r].old, m, rows[role][m])
<1> DEFINE record == [request[r] EXCEPT !.todo = Tail(request[r].todo), !.old = old]
<1>1. role \in RoleRows /\ request[r].old \in KeptRows /\ request[r].todo \in Seq(Modules)
  BY <1>0 DEF Transaction
<1>2. m \in Modules /\ Tail(request[r].todo) \in Seq(Modules)
  BY <1>0, <1>1
<1>3. /\ m \notin Locked(role)
      /\ rows' = [rows EXCEPT ![role][m] = RowOf(request[r].form[m])]
      /\ request' = [request EXCEPT ![r] = record]
      /\ UNCHANGED saved
  BY DEF Upsert, MovesTo
<1>4. m \notin DOMAIN request[r].old
  BY <1>0, <1>1, <1>2, <1>3, LockedRows DEF Holds
<1>5. rows[role][m] \in AccessRow
  BY <1>0, <1>1, <1>2 DEF RolesTypeOK
<1>6. /\ old \in KeptRows
      /\ DOMAIN old = DOMAIN request[r].old \cup {m}
      /\ old[m] = rows[role][m]
      /\ \A n \in DOMAIN request[r].old : old[n] = request[r].old[n]
  <2> HIDE DEF m, role
  <2>1. DOMAIN request[r].old \in SUBSET Modules /\ \A n \in DOMAIN request[r].old : request[r].old[n] \in AccessRow
    BY <1>1 DEF KeptRows
  <2>2. old \in [DOMAIN request[r].old \cup {m} -> AccessRow]
    BY <1>5, <2>1 DEF Keeping
  <2>3. DOMAIN request[r].old \cup {m} \in SUBSET Modules
    BY <1>2, <2>1
  <2>4. old \in KeptRows
    BY <2>2, <2>3 DEF KeptRows
  <2> QED
    BY <1>4, <2>4 DEF Keeping
<1> HIDE DEF old
<1>7. /\ record \in Transaction
      /\ record.role = role /\ record.form = request[r].form /\ record.old = old
  BY <1>0, <1>2, <1>6 DEF Transaction
<1> QED
  <2> HIDE DEF record, m, role
  <2> QED
    BY <1>0, <1>1, <1>2, <1>3, <1>6, <1>7, WriteKeeps DEF role

\* A transaction commits: its rows are what others see, and its form is saved.
LEMMA CommitSaveKeeps ==
  ASSUME RolesIInv, NEW r \in Handlers, CommitSave(r)
  PROVE  RolesIInv'
<1>0. RolesTypeOK /\ Exclusive /\ WritesItsForm /\ SeenAsSaved /\ Saving(r) /\ request[r] \in Transaction
  BY DEF RolesIInv, RolesTypeOK, CommitSave, Saving
<1> PICK role \in RoleRows, form \in [Modules -> Forms] :
      role = request[r].role /\ form = request[r].form
  BY <1>0 DEF Transaction
<1> PICK old : old = request[r].old
  OBVIOUS
<1>1. /\ saved' = [saved EXCEPT ![role] =
            [m \in Modules |-> IF m \in DOMAIN old THEN form[m] ELSE saved[role][m]]]
      /\ request' = [request EXCEPT ![r] = Unoccupied]
      /\ UNCHANGED rows
  BY DEF CommitSave, Finishes, MovesTo
<1>2. \A other \in RoleRows, m \in Modules :
        saved'[other][m] = IF other = role /\ m \in DOMAIN old THEN form[m] ELSE saved[other][m]
  BY <1>0, <1>1 DEF RolesTypeOK
<1>3. request'[r] = Unoccupied /\ \A q \in Handlers \ {r} : request'[q] = request[q]
  BY <1>0, <1>1 DEF RolesTypeOK
<1>4. \A other \in RoleRows, m \in Modules : ~Holds(r, other, m)'
  BY <1>3 DEF Holds, Saving, Reached, Unoccupied
<1>5. \A q \in Handlers \ {r}, other \in RoleRows, m \in Modules :
        Holds(q, other, m)' <=> Holds(q, other, m)
  BY <1>3 DEF Holds, Saving, Reached
<1>6. \A other \in RoleRows, m \in Modules :
        Holds(r, other, m) <=> other = role /\ m \in DOMAIN old
  BY <1>0 DEF Holds
<1>7. RolesTypeOK'
  BY <1>0, <1>1, <1>2, <1>3 DEF RolesTypeOK, Saving, Reached, Unoccupied
<1>8. Exclusive'
  BY <1>0, <1>4, <1>5 DEF Exclusive
<1>9. WritesItsForm'
  BY <1>0, <1>1, <1>3, <1>4, <1>5 DEF WritesItsForm
<1>10. SeenAsSaved'
  <2> SUFFICES ASSUME NEW other \in RoleRows, NEW m \in Modules, saved'[other][m] # NoForm
               PROVE  /\ \A q \in Handlers : Holds(q, other, m)' => request'[q].old[m] = RowOf(saved'[other][m])
                      /\ (\A q \in Handlers : ~Holds(q, other, m)') => rows[other][m] = RowOf(saved'[other][m])
    BY <1>1 DEF SeenAsSaved
  <2>1. CASE Holds(r, other, m)
    <3>1. \A q \in Handlers : ~Holds(q, other, m)'
      BY <1>0, <1>4, <1>5, <2>1 DEF Exclusive
    <3>2. rows[other][m] = RowOf(saved'[other][m])
      BY <1>0, <1>2, <1>6, <2>1 DEF WritesItsForm
    <3> QED
      BY <3>1, <3>2
  <2>2. CASE ~Holds(r, other, m)
    BY <1>0, <1>2, <1>3, <1>4, <1>5, <1>6, <2>2 DEF SeenAsSaved
  <2> QED
    BY <2>1, <2>2
<1> QED
  BY <1>7, <1>8, <1>9, <1>10 DEF RolesIInv

\* A handler that fails gives back what it kept.
LEMMA HandlerFailsKeeps ==
  ASSUME RolesIInv, NEW r \in Handlers, HandlerFails(r)
  PROVE  RolesIInv'
<1>0. RolesTypeOK /\ Exclusive /\ WritesItsForm /\ SeenAsSaved
  BY DEF RolesIInv
<1>1. request' = [request EXCEPT ![r] = Unoccupied] /\ UNCHANGED saved
  BY DEF HandlerFails, Finishes, MovesTo
<1>2. request'[r] = Unoccupied /\ \A q \in Handlers \ {r} : request'[q] = request[q]
  BY <1>0, <1>1 DEF RolesTypeOK
<1>3. \A other \in RoleRows, m \in Modules : ~Holds(r, other, m)'
  BY <1>2 DEF Holds, Saving, Reached, Unoccupied
<1>4. \A q \in Handlers \ {r}, other \in RoleRows, m \in Modules :
        Holds(q, other, m)' <=> Holds(q, other, m)
  BY <1>2 DEF Holds, Saving, Reached
<1>5. rows' \in [RoleRows -> [Modules -> AccessRow]]
      /\ \A other \in RoleRows, m \in Modules :
           rows'[other][m] = IF Holds(r, other, m) THEN request[r].old[m] ELSE rows[other][m]
  <2>1. CASE ~Saving(r)
    <3>1. rows' = rows
      BY <2>1 DEF HandlerFails, Saving
    <3>2. \A other \in RoleRows, m \in Modules : ~Holds(r, other, m)
      BY <2>1 DEF Holds
    <3> QED
      BY <1>0, <3>1, <3>2 DEF RolesTypeOK
  <2>2. CASE Saving(r)
    <3> PICK role \in RoleRows, old \in KeptRows : role = request[r].role /\ old = request[r].old
      BY <1>0, <2>2 DEF RolesTypeOK, Transaction
    <3> PICK back : back = Restored(old, rows[role])
      OBVIOUS
    <3>1. rows' = [rows EXCEPT ![role] = back]
      BY <2>2 DEF HandlerFails, Saving
    <3>2. back \in [Modules -> AccessRow]
      BY <1>0, Restores DEF RolesTypeOK
    <3>3. \A m \in Modules : back[m] = IF m \in DOMAIN old THEN old[m] ELSE rows[role][m]
      BY DEF Restored
    <3>4. \A other \in RoleRows, m \in Modules : Holds(r, other, m) <=> other = role /\ m \in DOMAIN old
      BY <2>2 DEF Holds
    <3>5. rows'[role] = back /\ \A other \in RoleRows \ {role} : rows'[other] = rows[other]
      BY <1>0, <3>1 DEF RolesTypeOK
    <3>6. rows' \in [RoleRows -> [Modules -> AccessRow]]
      BY <1>0, <3>1, <3>2 DEF RolesTypeOK
    <3> QED
      BY <3>3, <3>4, <3>5, <3>6
  <2> QED
    BY <2>1, <2>2
<1>6. RolesTypeOK'
  <2>1. request' = [q \in Handlers |-> request'[q]]
    BY <1>0, <1>1 DEF RolesTypeOK
  <2>2. \A q \in Handlers : Saving(q)' => request'[q] \in Transaction
    BY <1>0, <1>2 DEF RolesTypeOK, Saving, Reached, Unoccupied
  <2> QED
    BY <1>0, <1>1, <1>5, <2>1, <2>2 DEF RolesTypeOK
<1>7. Exclusive'
  BY <1>0, <1>3, <1>4 DEF Exclusive
<1>8. WritesItsForm'
  <2> SUFFICES ASSUME NEW q \in Handlers, NEW other \in RoleRows, NEW m \in Modules, Holds(q, other, m)'
               PROVE  rows'[other][m] = RowOf(request'[q].form[m])
    BY DEF WritesItsForm
  <2>1. q # r /\ Holds(q, other, m) /\ request'[q] = request[q]
    BY <1>2, <1>3, <1>4
  <2>2. ~Holds(r, other, m) /\ rows[other][m] = RowOf(request[q].form[m])
    BY <1>0, <2>1 DEF Exclusive, WritesItsForm
  <2> QED
    BY <1>5, <2>1, <2>2
<1>9. SeenAsSaved'
  <2> SUFFICES ASSUME NEW other \in RoleRows, NEW m \in Modules, saved[other][m] # NoForm
               PROVE  /\ \A q \in Handlers : Holds(q, other, m)' => request'[q].old[m] = RowOf(saved[other][m])
                      /\ (\A q \in Handlers : ~Holds(q, other, m)') => rows'[other][m] = RowOf(saved[other][m])
    BY <1>1 DEF SeenAsSaved
  <2>0. /\ \A q \in Handlers : Holds(q, other, m) => request[q].old[m] = RowOf(saved[other][m])
        /\ (\A q \in Handlers : ~Holds(q, other, m)) => rows[other][m] = RowOf(saved[other][m])
    BY <1>0 DEF SeenAsSaved
  <2>1. \A q \in Handlers : Holds(q, other, m)' => q # r /\ Holds(q, other, m) /\ request'[q] = request[q]
    BY <1>2, <1>3, <1>4
  <2>2. CASE Holds(r, other, m)
    BY <1>5, <2>0, <2>1, <2>2
  <2>3. CASE ~Holds(r, other, m)
    BY <1>4, <1>5, <2>0, <2>1, <2>3
  <2> QED
    BY <2>2, <2>3
<1> QED
  BY <1>6, <1>7, <1>8, <1>9 DEF RolesIInv

\* The start-up and the seed write a row that nobody has locked, as it is or with no
\* form to stand for it.
LEMMA RowWriteKeeps ==
  ASSUME RolesIInv, NEW role \in RoleRows, NEW m \in Modules, m \notin Locked(role), NEW row \in AccessRow,
         rows' = [rows EXCEPT ![role][m] = row],
         UNCHANGED request,
         \/ saved' = saved /\ (saved[role][m] # NoForm => row = rows[role][m])
         \/ saved' = [saved EXCEPT ![role][m] = NoForm]
  PROVE  RolesIInv'
<1>0. RolesTypeOK /\ Exclusive /\ WritesItsForm /\ SeenAsSaved
  BY DEF RolesIInv
<1>1. \A q \in Handlers : ~Holds(q, role, m)
  BY LockedRows
<1>2. \A q \in Handlers, other \in RoleRows, n \in Modules : Holds(q, other, n)' <=> Holds(q, other, n)
  BY DEF Holds, Saving, Reached
<1>3. /\ rows'[role][m] = row
      /\ \A other \in RoleRows, n \in Modules : other # role \/ n # m => rows'[other][n] = rows[other][n]
  BY <1>0 DEF RolesTypeOK
<1>4. /\ \A other \in RoleRows, n \in Modules : other # role \/ n # m => saved'[other][n] = saved[other][n]
      /\ saved'[role][m] # NoForm => saved' = saved /\ row = rows[role][m]
      /\ saved'[role][m] \in Forms \cup {NoForm}
  BY <1>0 DEF RolesTypeOK
<1>5. RolesTypeOK'
  <2>1. saved' = [o \in RoleRows |-> [n \in Modules |-> saved'[o][n]]]
        /\ rows' \in [RoleRows -> [Modules -> AccessRow]]
    BY <1>0 DEF RolesTypeOK
  <2> QED
    BY <1>0, <1>4, <2>1 DEF RolesTypeOK, Saving, Reached
<1>6. Exclusive' /\ WritesItsForm'
  BY <1>0, <1>1, <1>2, <1>3 DEF Exclusive, WritesItsForm
<1>7. SeenAsSaved'
  BY <1>0, <1>1, <1>2, <1>3, <1>4 DEF SeenAsSaved
<1> QED
  BY <1>5, <1>6, <1>7 DEF RolesIInv

\* Transactions keep their rows apart, and saved forms are seen, at all times.
THEOREM RolesInvariance == RolesSpec => []RolesIInv
<1>1. RolesIInv /\ [RolesNext]_roleVars => RolesIInv'
  <2> SUFFICES ASSUME RolesIInv, [RolesNext]_roleVars PROVE RolesIInv'
    OBVIOUS
  <2>1. CASE UNCHANGED <<rows, request, saved>>
    BY <2>1 DEF RolesIInv, RolesTypeOK, Exclusive, WritesItsForm, SeenAsSaved, Holds, Saving, Reached
  <2>2. ASSUME NEW r \in Handlers, NEW record, MovesTo(r, record), record.at # "upsert", ~Saving(r),
               UNCHANGED <<rows, saved>>
        PROVE  RolesIInv'
    BY <2>2, HandlerKeeps
  <2>3. ASSUME NEW r \in Handlers, BeginCreate(r) \/ BeginRename(r) \/ ResolveCode(r) PROVE RolesIInv'
    <3>1. ~Saving(r) /\ UNCHANGED <<rows, saved>>
      BY <2>3 DEF BeginCreate, BeginRename, ResolveCode, Saving, Reached
    <3>2. CASE BeginCreate(r) \/ BeginRename(r)
      BY <2>2, <3>1, <3>2 DEF BeginCreate, BeginRename
    <3>3. CASE ResolveCode(r)
      <4> PICK next, tried : next = [request[r] EXCEPT !.at = "write"]
                             /\ tried = [request[r] EXCEPT !.suffix = request[r].suffix + 1]
        OBVIOUS
      <4>1. MovesTo(r, next) \/ MovesTo(r, tried)
        BY <3>3 DEF ResolveCode
      <4>2. next.at # "upsert" /\ tried.at # "upsert"
        BY <3>3 DEF ResolveCode, Reached
      <4> QED
        BY <2>2, <3>1, <4>1, <4>2
    <3> QED
      BY <2>3, <3>2, <3>3
  <2>4. ASSUME NEW r \in Handlers, WriteRole(r) \/ RefuseRole(r) PROVE RolesIInv'
    <3>1. MovesTo(r, Unoccupied) /\ ~Saving(r) /\ UNCHANGED <<rows, saved>> /\ Unoccupied.at # "upsert"
      BY <2>4 DEF WriteRole, RefuseRole, Finishes, Saving, Reached, Unoccupied
    <3> QED
      BY <2>2, <3>1
  <2>5. ASSUME NEW r \in Handlers, HandlerStep(r) PROVE RolesIInv'
    BY <2>3, <2>4, <2>5, BeginSaveKeeps, UpsertKeeps, CommitSaveKeeps, HandlerFailsKeeps DEF HandlerStep
  <2>6. CASE StartUp
    <3> PICK role \in RoleRows, m \in DashboardModules :
          m \notin Locked(role) /\ rows' = [rows EXCEPT ![role][m] = Default(role, m)]
      BY <2>6 DEF StartUp
    <3>1. UNCHANGED <<request, saved>> /\ m \in Modules
      BY <2>6, RoleAssumption DEF StartUp
    <3>3. Default(role, m) \in AccessRow
      BY <3>1, RowsOfAccess DEF Default, RolesIInv, RolesTypeOK
    <3>2. saved[role][m] # NoForm => Default(role, m) = rows[role][m]
      BY <3>1, LockedRows, FormsMakeRows DEF RolesIInv, SeenAsSaved, Default
    <3> QED
      BY <3>1, <3>2, <3>3, RowWriteKeeps
  <2>7. CASE SeedPermission
    <3> PICK role \in RoleRows, m \in Modules \ DashboardModules :
          /\ m \notin Locked(role) /\ rows' = [rows EXCEPT ![role][m] = SeedAccess(rows[role][m])]
          /\ saved' = [saved EXCEPT ![role][m] = NoForm]
      BY <2>7 DEF SeedPermission, RolesIInv, RolesTypeOK
    <3> QED
      BY <2>7, RowWriteKeeps, RowsOfAccess DEF SeedPermission
  <2>8. CASE SeedRole
    BY <2>1, <2>8 DEF SeedRole
  <2> QED
    BY <2>1, <2>5, <2>6, <2>7, <2>8 DEF RolesNext, roleVars
<1> QED
  BY <1>1, RolesInitInvariant, PTL DEF RolesSpec

\* The guard reads of a row that a form made what the form says.
LEMMA FormDecides ==
  ASSUME NEW form \in Forms
  PROVE  /\ IsAllowed(RowOf(form), "read") <=> form.read
         /\ IsAllowed(RowOf(form), "write") <=> form.write
         /\ IsAllowed(RowOf(form), "edit") <=> form.edit \/ form.write
         /\ IsAllowed(RowOf(form), "delete") <=> form.delete \/ form.write
<1> DEFINE own == {flag \in {"read", "write", "edit", "delete"} : form[flag]}
           older == (IF form.read THEN {"list", "view"} ELSE {})
                      \cup (IF form.write THEN {"create"} ELSE {})
<1>1. /\ "read" \in own <=> form.read
      /\ "write" \in own <=> form.write
      /\ "edit" \in own <=> form.edit
      /\ "delete" \in own <=> form.delete
  OBVIOUS
<1>2. "list" \notin own /\ "view" \notin own /\ "create" \notin own
  OBVIOUS
<1>3. /\ "list" \in older <=> form.read
      /\ "view" \in older <=> form.read
      /\ "create" \in older <=> form.write
  OBVIOUS
<1>4. "read" \notin older /\ "write" \notin older /\ "edit" \notin older /\ "delete" \notin older
  OBVIOUS
<1>5. \A flag : flag \in RowOf(form) <=> flag \in own \/ flag \in older
  BY DEF RowOf
<1> HIDE DEF own, older
<1>6. IsAllowed(RowOf(form), "read") <=> form.read
  <2>1. Allowing("read") = {"read", "list", "view"}
    BY DEF Allowing
  <2> QED
    BY <2>1, <1>1, <1>2, <1>3, <1>4, <1>5 DEF IsAllowed
<1>7. IsAllowed(RowOf(form), "write") <=> form.write
  <2>1. Allowing("write") = {"write", "create"}
    BY DEF Allowing
  <2> QED
    BY <2>1, <1>1, <1>2, <1>3, <1>4, <1>5 DEF IsAllowed
<1>8. IsAllowed(RowOf(form), "edit") <=> form.edit \/ form.write
  <2>1. Allowing("edit") = {"edit", "create"}
    BY DEF Allowing
  <2> QED
    BY <2>1, <1>1, <1>2, <1>3, <1>4, <1>5 DEF IsAllowed
<1>9. IsAllowed(RowOf(form), "delete") <=> form.delete \/ form.write
  <2>1. Allowing("delete") = {"delete", "create"}
    BY DEF Allowing
  <2> QED
    BY <2>1, <1>1, <1>2, <1>3, <1>4, <1>5 DEF IsAllowed
<1> QED
  BY <1>6, <1>7, <1>8, <1>9

\* What readers see of a row is what its transaction keeps, or the row.
LEMMA SeenRow ==
  ASSUME RolesIInv, NEW role \in RoleRows, NEW m \in Modules
  PROVE  \/ \E r \in Handlers : Holds(r, role, m) /\ Committed(role, m) = request[r].old[m]
         \/ (\A r \in Handlers : ~Holds(r, role, m)) /\ Committed(role, m) = rows[role][m]
<1> DEFINE holders == {r \in Handlers : Holds(r, role, m)}
<1>1. holders = {r \in Handlers : /\ Reached(r, "upsert") /\ request[r].role = role
                                  /\ m \in DOMAIN request[r].old}
  BY DEF Holds, Saving
<1>2. Committed(role, m) = IF holders = {} THEN rows[role][m]
                           ELSE request[CHOOSE r \in holders : TRUE].old[m]
  <2> HIDE DEF holders
  <2> QED
    BY <1>1 DEF Committed
<1>3. CASE holders = {}
  BY <1>2, <1>3
<1>4. CASE holders # {}
  <2>1. (CHOOSE r \in holders : TRUE) \in holders
    BY <1>4
  <2> QED
    BY <1>2, <1>4, <2>1
<1> QED
  BY <1>3, <1>4

\* updateRolePermissions, the guard, the start-up and the seed: once a form is saved the
\* guard decides by it as a whole, whatever transactions run beside it, fail or die.
THEOREM SavedAlwaysStands == RolesSpec => []SavedStands
<1>1. RolesIInv => SavedStands
  <2> SUFFICES ASSUME RolesIInv, NEW role \in RoleRows, NEW m \in Modules,
                      saved[role][m] # NoForm
               PROVE  /\ IsAllowed(Committed(role, m), "read") = saved[role][m].read
                      /\ IsAllowed(Committed(role, m), "write") = saved[role][m].write
                      /\ IsAllowed(Committed(role, m), "edit") = (saved[role][m].edit \/ saved[role][m].write)
                      /\ IsAllowed(Committed(role, m), "delete") = (saved[role][m].delete \/ saved[role][m].write)
    BY DEF SavedStands
  <2> PICK form : form = saved[role][m]
    OBVIOUS
  <2>1. form \in Forms
    BY DEF RolesIInv, RolesTypeOK
  <2>2. Committed(role, m) = RowOf(form)
    BY SeenRow DEF RolesIInv, SeenAsSaved
  <2>3. /\ form.read \in BOOLEAN /\ form.write \in BOOLEAN
        /\ form.edit \in BOOLEAN /\ form.delete \in BOOLEAN
    BY <2>1, RoleAssumption
  <2>4. /\ IsAllowed(RowOf(form), "read") <=> form.read
        /\ IsAllowed(RowOf(form), "write") <=> form.write
        /\ IsAllowed(RowOf(form), "edit") <=> form.edit \/ form.write
        /\ IsAllowed(RowOf(form), "delete") <=> form.delete \/ form.write
    BY <2>1, FormDecides
  <2>5. \A action \in Actions : IsAllowed(RowOf(form), action) \in BOOLEAN
    BY DEF IsAllowed
  <2> QED
    BY <2>2, <2>3, <2>4, <2>5, Zenon DEF Actions
<1> QED
  BY <1>1, RolesInvariance, PTL

\* getRolePermissions, mapRoleSummary and the guard agree on every row there can be,
\* whoever wrote it.
THEOREM ShownAlwaysEnforced == RolesSpec => []ShownIsEnforced
<1>1. ShownIsEnforced
  BY DEF ShownIsEnforced, Shown, Counted, IsAllowed, Allowing, Actions, AccessFlags
<1> QED
  BY <1>1, PTL
=============================================================================
