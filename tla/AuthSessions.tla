---------------------------- MODULE AuthSessions ----------------------------
(***************************************************************************)
(* Sessions and the recovery of an account (modules/auth), for one user:   *)
(* log in, refresh, log out, change the address of the profile, and the    *)
(* two recoveries of a forgotten password and of a forgotten user id.      *)
(* Every statement of the database is a step of its own, and a check and   *)
(* the write it allows are separate statements nearly everywhere.  The one *)
(* transaction, the reset of the password, is READ COMMITTED: its caller   *)
(* keeps what it has written, which shows when it commits, and who writes  *)
(* a row that it has written waits for that.                               *)
(*                                                                         *)
(* Expiry needs no action: a token or code that has expired is refused,    *)
(* and the behaviours in which nobody presents it again are these.  A      *)
(* wrong password or code only leaves a counter and a log behind.          *)
(***************************************************************************)
EXTENDS Naturals, FiniteSets

CONSTANTS Callers,       \* the handlers that may run at a time
          SessionRows,   \* rows of auth_sessions
          MaxTokens,      \* bound: refresh tokens issued
          MaxRecoveries,  \* bound: recovery requests
          MaxEmails,      \* bound: addresses the user has one after the other
          MaxPasswords    \* bound: changes of the password

ASSUME AuthAssumption ==
  /\ MaxTokens \in Nat
  /\ MaxRecoveries \in Nat
  /\ MaxEmails \in Nat \ {0}
  /\ MaxPasswords \in Nat

VARIABLES password,     \* how often it was changed: the number of the current one
          email,        \* the number of the user's address
          reseeded,     \* whether the seed has run since (bound: once)
          session,      \* rows of auth_sessions
          tokens,       \* refresh tokens issued so far, 1..tokens
          swept,        \* history: `tokens` when the last reset ended the sessions
          rotated,      \* tokens that a finished refresh has replaced
          recovery,     \* rows of account_recovery_requests, in the order of createdAt
          resetTokens,  \* signed reset tokens handed out
          call          \* what each handler is at and has read

authVars == <<password, email, reseeded, session, tokens, swept, rotated, recovery, resetTokens, call>>

Recoveries == 1..MaxRecoveries
Emails == 1..MaxEmails
RecoveryTypes == {"PASSWORD_RESET", "UID_RECOVERY"}

\* `opened`, the first token of the session, `firstReset` and `reused` are history.
NoSession == [state |-> "none", token |-> 0, opened |-> 0]

NoRecovery == [status |-> "none", type |-> "none", email |-> 0,
               firstReset |-> 0, reused |-> FALSE]

NoCall == [at |-> "idle", session |-> "none", token |-> 0, password |-> 0,
           email |-> 0, type |-> "none", recovery |-> 0, again |-> FALSE, ended |-> {}]

CallAt(r, step) == call[r].at = step
Becomes(r, record) == call' = [call EXCEPT ![r] = record]
CallEnds(r) == Becomes(r, NoCall)

Live(s) == session[s].state = "live"
Requested == Cardinality({q \in Recoveries : recovery[q].status # "none"})

AuthInit ==
  /\ password = 0
  /\ email = 1
  /\ reseeded = FALSE
  /\ session = [s \in SessionRows |-> NoSession]
  /\ tokens = 0
  /\ swept = 0
  /\ rotated = {}
  /\ recovery = [q \in Recoveries |-> NoRecovery]
  /\ resetTokens = {}
  /\ call = [r \in Callers |-> NoCall]

-----------------------------------------------------------------------------
(* The rows that a reset in flight has written and not yet committed. *)

\* Past user.update, past authSession.updateMany, past accountRecoveryRequest.update.
UserHeld(r) == call[r].at \in {"sweep", "finish", "commit"}
UserFree == \A r \in Callers : ~UserHeld(r)
HeldSessions == UNION {call[r].ended : r \in Callers}
HeldRecoveries == {call[r].recovery : r \in {c \in Callers : CallAt(c, "commit")}}

-----------------------------------------------------------------------------
(* Log in: the password is verified against the row read first, the user's row is  *)
(* written, and the session inserted.  The insert only shares the key of the user, *)
(* so that it does not wait for a reset.                                           *)

LoginRead(r) ==
  /\ CallAt(r, "idle")
  /\ Becomes(r, [NoCall EXCEPT !.at = "touch"])
  /\ UNCHANGED <<password, email, reseeded, session, tokens, swept, rotated, recovery, resetTokens>>

LoginTouch(r) ==
  /\ CallAt(r, "touch")
  /\ UserFree
  /\ Becomes(r, [NoCall EXCEPT !.at = "open"])
  /\ UNCHANGED <<password, email, reseeded, session, tokens, swept, rotated, recovery, resetTokens>>

NewSession == [state |-> "live", token |-> tokens + 1, opened |-> tokens + 1]

LoginOpen(r) ==
  /\ CallAt(r, "open")
  /\ tokens < MaxTokens
  /\ \E s \in SessionRows :
       /\ session[s] = NoSession
       /\ session' = [session EXCEPT ![s] = NewSession]
  /\ tokens' = tokens + 1
  /\ CallEnds(r)
  /\ UNCHANGED <<password, email, reseeded, swept, rotated, recovery, resetTokens>>

-----------------------------------------------------------------------------
(* Refresh: the session is read by the hash of the token, and rotated by id. *)

RefreshRead(r, t) ==
  /\ CallAt(r, "idle")
  /\ \E s \in SessionRows :
       /\ session[s].token = t
       /\ Live(s)
       /\ Becomes(r, [NoCall EXCEPT !.at = "rotate", !.session = s, !.token = t,
                                     !.again = t \in rotated])
  /\ UNCHANGED <<password, email, reseeded, session, tokens, swept, rotated, recovery, resetTokens>>

\* Mutant: the token of the session is kept.
NotRotated(s) == session[s]

Rotated(s) == [session[s] EXCEPT !.token = tokens + 1]

RefreshRotate(r) ==
  /\ CallAt(r, "rotate")
  /\ call[r].session \notin HeldSessions
  /\ tokens < MaxTokens
  /\ tokens' = tokens + 1
  /\ session' = [session EXCEPT ![call[r].session] = Rotated(call[r].session)]
  /\ rotated' = rotated \cup {call[r].token}
  /\ CallEnds(r)
  /\ UNCHANGED <<password, email, reseeded, swept, recovery, resetTokens>>

-----------------------------------------------------------------------------
(* Requests with an access token: the strategy admits a live session. *)

Admit(r, s) ==
  /\ CallAt(r, "idle")
  /\ Live(s)
  /\ Becomes(r, [NoCall EXCEPT !.at = "admitted", !.session = s])
  /\ UNCHANGED <<password, email, reseeded, session, tokens, swept, rotated, recovery, resetTokens>>

Revoke(ended) ==
  session' = [s \in SessionRows |->
    IF s \in ended THEN [session[s] EXCEPT !.state = "revoked"] ELSE session[s]]

HoldersOf(t) == {s \in SessionRows : Live(s) /\ session[s].token = t}

\* With a refresh token, the session that holds it is ended, else the caller's own.
Logout(r) ==
  /\ CallAt(r, "admitted")
  /\ \E ended \in {HoldersOf(t) : t \in 1..tokens} \cup {{call[r].session}} :
       /\ ended \cap HeldSessions = {}
       /\ Revoke(ended)
  /\ CallEnds(r)
  /\ UNCHANGED <<password, email, reseeded, tokens, swept, rotated, recovery, resetTokens>>

UpdateMyProfile(r) ==
  /\ CallAt(r, "admitted")
  /\ UserFree
  /\ email < MaxEmails
  /\ email' = email + 1
  /\ CallEnds(r)
  /\ UNCHANGED <<password, reseeded, session, tokens, swept, rotated, recovery, resetTokens>>

-----------------------------------------------------------------------------
(* Ask for a code: the outstanding requests of the address that was read expire, *)
(* then the new one is inserted.  (A change of the address between the read and  *)
(* the expiry has the same effect as one after it.)                              *)

Outstanding(e, type) ==
  {q \in Recoveries : recovery[q].email = e /\ recovery[q].type = type /\ recovery[q].status = "SENT"}

ForgotExpire(r, type) ==
  /\ CallAt(r, "idle")
  /\ Outstanding(email, type) \cap HeldRecoveries = {}
  /\ recovery' = [q \in Recoveries |->
       IF q \in Outstanding(email, type)
       THEN [recovery[q] EXCEPT !.status = "EXPIRED"] ELSE recovery[q]]
  /\ Becomes(r, [NoCall EXCEPT !.at = "create", !.email = email, !.type = type])
  /\ UNCHANGED <<password, email, reseeded, session, tokens, swept, rotated, resetTokens>>

ForgotCreate(r) ==
  /\ CallAt(r, "create")
  /\ Requested < MaxRecoveries
  /\ recovery' = [recovery EXCEPT ![Requested + 1] =
       [NoRecovery EXCEPT !.status = "SENT", !.email = call[r].email, !.type = call[r].type]]
  /\ CallEnds(r)
  /\ UNCHANGED <<password, email, reseeded, session, tokens, swept, rotated, resetTokens>>

-----------------------------------------------------------------------------
(* Present a code: the latest request that is not consumed must be SENT. *)

Unconsumed(e, type) ==
  {q \in Recoveries : /\ recovery[q].email = e /\ recovery[q].type = type
                      /\ recovery[q].status \in {"SENT", "EXPIRED"}}

Accepts(e, type, q) ==
  /\ q \in Unconsumed(e, type)
  /\ \A other \in Unconsumed(e, type) : other <= q
  /\ recovery[q].status = "SENT"

PasswordVerify(e) ==
  /\ \E q \in Recoveries :
       /\ Accepts(e, "PASSWORD_RESET", q)
       /\ resetTokens' = resetTokens \cup {[recovery |-> q, email |-> email]}
  /\ UNCHANGED <<password, email, reseeded, session, tokens, swept, rotated, recovery, call>>

UidVerify(r, e) ==
  /\ CallAt(r, "idle")
  /\ \E q \in Recoveries :
       /\ Accepts(e, "UID_RECOVERY", q)
       /\ Becomes(r, [NoCall EXCEPT !.at = "complete", !.recovery = q])
  /\ UNCHANGED <<password, email, reseeded, session, tokens, swept, rotated, recovery, resetTokens>>

UidComplete(r) ==
  /\ CallAt(r, "complete")
  /\ recovery' = [recovery EXCEPT ![call[r].recovery].status = "COMPLETED"]
  /\ CallEnds(r)
  /\ UNCHANGED <<password, email, reseeded, session, tokens, swept, rotated, resetTokens>>

-----------------------------------------------------------------------------
(* Reset the password: the request is checked, the password hashed, and one     *)
(* transaction writes it, ends the sessions and completes the request, in three *)
(* statements.                                                                  *)

\* Mutant: a completed request is accepted again.
ConfirmableAgain(t) == t.email = email

Confirmable(t) == recovery[t.recovery].status # "COMPLETED" /\ t.email = email

ConfirmRead(r, t) ==
  /\ CallAt(r, "idle")
  /\ Confirmable(t)
  /\ Becomes(r, [NoCall EXCEPT !.at = "reset", !.recovery = t.recovery, !.password = password])
  /\ UNCHANGED <<password, email, reseeded, session, tokens, swept, rotated, recovery, resetTokens>>

\* Mutant: the sessions are left alone.
NoneEnded == {}

EndedByReset == {s \in SessionRows : Live(s)}

\* The recovery, completed by a handler that read the password when it checked it.
Completed(row, read) ==
  [row EXCEPT !.status = "COMPLETED",
              !.firstReset = IF row.firstReset = 0 THEN password + 1 ELSE row.firstReset,
              !.reused = row.reused \/ (row.firstReset # 0 /\ read >= row.firstReset)]

ConfirmPassword(r) ==
  /\ CallAt(r, "reset")
  /\ UserFree
  /\ password < MaxPasswords
  /\ Becomes(r, [call[r] EXCEPT !.at = "sweep"])
  /\ UNCHANGED <<password, email, reseeded, session, tokens, swept, rotated, recovery, resetTokens>>

\* It ends the sessions there are (`token`, the tokens issued by now, is history).
ConfirmSweep(r) ==
  /\ CallAt(r, "sweep")
  /\ Becomes(r, [call[r] EXCEPT !.at = "finish", !.ended = EndedByReset, !.token = tokens])
  /\ UNCHANGED <<password, email, reseeded, session, tokens, swept, rotated, recovery, resetTokens>>

ConfirmFinish(r) ==
  /\ CallAt(r, "finish")
  /\ Becomes(r, [call[r] EXCEPT !.at = "commit"])
  /\ UNCHANGED <<password, email, reseeded, session, tokens, swept, rotated, recovery, resetTokens>>

ConfirmCommit(r) ==
  LET q == call[r].recovery IN
  /\ CallAt(r, "commit")
  /\ password' = password + 1
  /\ Revoke(call[r].ended)
  /\ swept' = call[r].token
  /\ recovery' = [recovery EXCEPT ![q] = Completed(recovery[q], call[r].password)]
  /\ CallEnds(r)
  /\ UNCHANGED <<email, reseeded, tokens, rotated, resetTokens>>

\* The seed writes the password and the first address of the users it upserts, and
\* leaves their sessions.
SeedUsers ==
  /\ ~reseeded
  /\ UserFree
  /\ password < MaxPasswords
  /\ password' = password + 1
  /\ reseeded' = TRUE
  /\ email' = 1
  /\ UNCHANGED <<session, tokens, swept, rotated, recovery, resetTokens, call>>

\* A handler fails or its process dies between two statements; what a transaction has
\* written is rolled back.
CallFails(r) ==
  /\ ~CallAt(r, "idle")
  /\ CallEnds(r)
  /\ UNCHANGED <<password, email, reseeded, session, tokens, swept, rotated, recovery, resetTokens>>

-----------------------------------------------------------------------------
Step(r) ==
  \/ LoginRead(r) \/ LoginTouch(r) \/ LoginOpen(r)
  \/ RefreshRotate(r)
  \/ Logout(r) \/ UpdateMyProfile(r)
  \/ ForgotCreate(r)
  \/ UidComplete(r) \/ CallFails(r)
  \/ ConfirmPassword(r) \/ ConfirmSweep(r) \/ ConfirmFinish(r) \/ ConfirmCommit(r)
  \/ \E t \in 1..tokens : RefreshRead(r, t)
  \/ \E s \in SessionRows : Admit(r, s)
  \/ \E type \in RecoveryTypes : ForgotExpire(r, type)
  \/ \E e \in Emails : UidVerify(r, e)
  \/ \E t \in resetTokens : ConfirmRead(r, t)

AuthNext ==
  \/ \E r \in Callers : Step(r)
  \/ \E e \in Emails : PasswordVerify(e)
  \/ SeedUsers

AuthSpec == AuthInit /\ [][AuthNext]_authVars

-----------------------------------------------------------------------------
(* Properties *)

\* A reset of the password that has committed leaves no session that was open when it
\* ended the sessions, whoever refreshes, logs in or out meanwhile.  What it leaves is
\* the session of a login that inserted it later, which may have verified the old
\* password: before the commit, while that password is still the current one, or after
\* it, having read it before.
ResetEndsSessions == \A s \in SessionRows : Live(s) => session[s].opened > swept

\* One recovery sets the password once.
ResetOnce == \A q \in Recoveries : ~recovery[q].reused

\* What is good for one use is used once.  A refresh token buys one new pair: a refresh
\* that is admitted with a token which another one has already exchanged had read it
\* before that one's write.  And a second confirmation of a recovery succeeds only when it
\* was checked before the first one committed.
SpentOnce ==
  /\ \A r \in Callers : CallAt(r, "rotate") => ~call[r].again
  /\ ResetOnce
=============================================================================
