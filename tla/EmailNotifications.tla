------------------------- MODULE EmailNotifications -------------------------
(***************************************************************************)
(* Email notifications (notifications.service.ts, notifications.processor  *)
(* .ts): a row of email_notifications, then a job of the mail queue whose  *)
(* worker hands the mail to the provider, or, when queueing fails, a send  *)
(* from the request itself.                                                *)
(*                                                                         *)
(* The queue (BullMQ) and the provider are external.  The queue returns a  *)
(* job whose process threw until its attempts are used up, and a job whose *)
(* worker died as long as it has not stalled too often.                    *)
(***************************************************************************)
EXTENDS Naturals

CONSTANTS
  Mails,         \* notifications, each requested once
  MaxStalls,     \* stalls the queue forgives a job (BullMQ: maxStalledCount)
  MaxCrashes,    \* bounds on the faults of a behaviour: processes that die,
  MaxDbErrors,   \*   updates of a row that fail,
  MaxLostAcks    \*   jobs that are queued while the caller sees an error

ASSUME MaxStallsAssumption == MaxStalls \in Nat
ASSUME FaultBoundsAssumption ==
  MaxCrashes \in Nat /\ MaxDbErrors \in Nat /\ MaxLostAcks \in Nat

VARIABLES
  row,        \* status of the notification row
  caller,     \* what the call of queueAndSendEmail is doing
  direct,     \* sendEmailNow, called by the request
  worker,     \* sendEmailNow, called by the worker
  job,        \* state of the job in the queue
  attempts,   \* attempts of the job that threw
  stalls,     \* attempts of the job whose worker died
  delivered,  \* mails the provider accepted
  crashes, dbErrors, lostAcks   \* faults so far

queue  == <<job, attempts, stalls>>
faults == <<crashes, dbErrors, lostAcks>>
vars   == <<row, caller, direct, worker, queue, delivered, faults>>

Attempts == 3

Rows        == {"NONE", "PENDING", "SENT", "FAILED"}
CallerPCs   == {"none", "created", "direct", "returned", "threw", "died"}
SenderPCs   == {"idle", "sending", "accepted", "refused", "recorded"}
JobStates   == {"none", "waiting", "active", "completed", "failed"}

TypeOK ==
  /\ row \in [Mails -> Rows]
  /\ caller \in [Mails -> CallerPCs]
  /\ direct \in [Mails -> SenderPCs]
  /\ worker \in [Mails -> SenderPCs]
  /\ job \in [Mails -> JobStates]
  /\ attempts \in [Mails -> 0..Attempts]
  /\ stalls \in [Mails -> 0..MaxStalls]
  /\ delivered \in [Mails -> Nat]
  /\ crashes \in 0..MaxCrashes
  /\ dbErrors \in 0..MaxDbErrors
  /\ lostAcks \in 0..MaxLostAcks

Init ==
  /\ row = [m \in Mails |-> "NONE"]
  /\ caller = [m \in Mails |-> "none"]
  /\ direct = [m \in Mails |-> "idle"]
  /\ worker = [m \in Mails |-> "idle"]
  /\ job = [m \in Mails |-> "none"]
  /\ attempts = [m \in Mails |-> 0]
  /\ stalls = [m \in Mails |-> 0]
  /\ delivered = [m \in Mails |-> 0]
  /\ crashes = 0 /\ dbErrors = 0 /\ lostAcks = 0

(***************************************************************************)
(* queueAndSendEmail.                                                      *)
(***************************************************************************)
Create(m) ==
  /\ caller[m] = "none"
  /\ row' = [row EXCEPT ![m] = "PENDING"]
  /\ caller' = [caller EXCEPT ![m] = "created"]
  /\ UNCHANGED <<direct, worker, queue, delivered, faults>>

\* Mutant: the mail is sent directly although it was queued.
EnqueueAndSend(m) ==
  /\ caller[m] = "created"
  /\ job' = [job EXCEPT ![m] = "waiting"]
  /\ caller' = [caller EXCEPT ![m] = "direct"]
  /\ direct' = [direct EXCEPT ![m] = "sending"]
  /\ UNCHANGED <<row, worker, attempts, stalls, delivered, faults>>

Enqueue(m) ==
  /\ caller[m] = "created"
  /\ job' = [job EXCEPT ![m] = "waiting"]
  /\ caller' = [caller EXCEPT ![m] = "returned"]
  /\ UNCHANGED <<row, direct, worker, attempts, stalls, delivered, faults>>

\* Mutant: the error of the queue is logged and that is all.
FallBackForgotten(m) ==
  /\ caller[m] = "created"
  /\ caller' = [caller EXCEPT ![m] = "returned"]
  /\ UNCHANGED <<row, direct, worker, queue, delivered, faults>>

\* The queue is not available, or it took the job and the answer was lost.
FallBack(m) ==
  /\ caller[m] = "created"
  /\ \/ UNCHANGED <<job, lostAcks>>
     \/ /\ lostAcks < MaxLostAcks
        /\ lostAcks' = lostAcks + 1
        /\ job' = [job EXCEPT ![m] = "waiting"]
  /\ caller' = [caller EXCEPT ![m] = "direct"]
  /\ direct' = [direct EXCEPT ![m] = "sending"]
  /\ UNCHANGED <<row, worker, attempts, stalls, delivered, crashes, dbErrors>>

Return(m) ==
  /\ direct[m] = "recorded"
  /\ direct' = [direct EXCEPT ![m] = "idle"]
  /\ caller' = [caller EXCEPT ![m] = "returned"]
  /\ UNCHANGED <<row, worker, queue, delivered, faults>>

(***************************************************************************)
(* The worker.                                                             *)
(***************************************************************************)
Take(m) ==
  /\ job[m] = "waiting"
  /\ job' = [job EXCEPT ![m] = "active"]
  /\ worker' = [worker EXCEPT ![m] = "sending"]
  /\ UNCHANGED <<row, caller, direct, attempts, stalls, delivered, faults>>

Complete(m) ==
  /\ worker[m] = "recorded"
  /\ worker' = [worker EXCEPT ![m] = "idle"]
  /\ job' = [job EXCEPT ![m] = "completed"]
  /\ UNCHANGED <<row, caller, direct, attempts, stalls, delivered, faults>>

(***************************************************************************)
(* sendEmailNow.  Its catch also catches the failure to record SENT; only  *)
(* the failure to record FAILED gets out of it.  An error of the provider  *)
(* may come after the mail was accepted.                                   *)
(***************************************************************************)
HandOver(sender, m) ==
  /\ sender[m] = "sending"
  /\ \/ /\ sender' = [sender EXCEPT ![m] = "accepted"]
        /\ delivered' = [delivered EXCEPT ![m] = @ + 1]
     \/ /\ sender' = [sender EXCEPT ![m] = "refused"]
        /\ \/ UNCHANGED delivered
           \/ delivered' = [delivered EXCEPT ![m] = @ + 1]
  /\ UNCHANGED <<row, caller, queue, faults>>

\* Mutant: the row says SENT whatever the provider answered.
RecordAlwaysSent(sender, m) ==
  /\ sender[m] \in {"accepted", "refused"}
  /\ row' = [row EXCEPT ![m] = "SENT"]
  /\ sender' = [sender EXCEPT ![m] = "recorded"]
  /\ UNCHANGED <<caller, queue, delivered, faults>>

Record(sender, m) ==
  /\ \/ sender[m] = "accepted" /\ row' = [row EXCEPT ![m] = "SENT"]
     \/ sender[m] = "refused"  /\ row' = [row EXCEPT ![m] = "FAILED"]
  /\ sender' = [sender EXCEPT ![m] = "recorded"]
  /\ UNCHANGED <<caller, queue, delivered, faults>>

RecordSentFails(sender, m) ==
  /\ sender[m] = "accepted"
  /\ dbErrors < MaxDbErrors
  /\ dbErrors' = dbErrors + 1
  /\ sender' = [sender EXCEPT ![m] = "refused"]
  /\ UNCHANGED <<row, caller, queue, delivered, crashes, lostAcks>>

\* Mutant: the queue gives up one attempt early.
RetryableOnce(m) == attempts[m] + 2 < Attempts
Retryable(m) == attempts[m] + 1 < Attempts

DirectThrows(m) ==
  /\ direct[m] = "refused"
  /\ dbErrors < MaxDbErrors
  /\ dbErrors' = dbErrors + 1
  /\ direct' = [direct EXCEPT ![m] = "idle"]
  /\ caller' = [caller EXCEPT ![m] = "threw"]
  /\ UNCHANGED <<row, worker, queue, delivered, crashes, lostAcks>>

WorkerThrows(m) ==
  /\ worker[m] = "refused"
  /\ dbErrors < MaxDbErrors
  /\ dbErrors' = dbErrors + 1
  /\ worker' = [worker EXCEPT ![m] = "idle"]
  /\ attempts' = [attempts EXCEPT ![m] = @ + 1]
  /\ job' = [job EXCEPT ![m] = IF Retryable(m) THEN "waiting" ELSE "failed"]
  /\ UNCHANGED <<row, caller, direct, stalls, delivered, crashes, lostAcks>>

(***************************************************************************)
(* A server process dies with the calls and the jobs it was running.  The  *)
(* lock of such a job expires and the queue counts a stall.                *)
(***************************************************************************)
Running(m) == caller[m] \in {"created", "direct"}

Crash ==
  \E calls \in SUBSET {m \in Mails : Running(m)},
     jobs \in SUBSET {m \in Mails : job[m] = "active"} :
    /\ calls # {} \/ jobs # {}
    /\ crashes < MaxCrashes
    /\ crashes' = crashes + 1
    /\ caller' = [m \in Mails |-> IF m \in calls THEN "died" ELSE caller[m]]
    /\ direct' = [m \in Mails |-> IF m \in calls THEN "idle" ELSE direct[m]]
    /\ worker' = [m \in Mails |-> IF m \in jobs THEN "idle" ELSE worker[m]]
    /\ job' = [m \in Mails |->
                 IF m \notin jobs THEN job[m]
                 ELSE IF stalls[m] < MaxStalls THEN "waiting" ELSE "failed"]
    /\ stalls' = [m \in Mails |->
                    IF m \in jobs /\ stalls[m] < MaxStalls
                      THEN stalls[m] + 1 ELSE stalls[m]]
    /\ UNCHANGED <<row, attempts, delivered, dbErrors, lostAcks>>

CallSteps(m) ==
  \/ Enqueue(m) \/ FallBack(m) \/ Return(m)
  \/ (HandOver(direct, m) \/ Record(direct, m)) /\ UNCHANGED worker

JobSteps(m) ==
  \/ Take(m) \/ Complete(m)
  \/ (HandOver(worker, m) \/ Record(worker, m)) /\ UNCHANGED direct

Faults(m) ==
  \/ RecordSentFails(direct, m) /\ UNCHANGED worker
  \/ RecordSentFails(worker, m) /\ UNCHANGED direct
  \/ DirectThrows(m) \/ WorkerThrows(m)

Next ==
  \/ \E m \in Mails : Create(m) \/ CallSteps(m) \/ JobSteps(m) \/ Faults(m)
  \/ Crash

\* A request that has begun goes on, and a worker takes the jobs that wait and
\* works on them, unless their process dies.  Nobody has to request a mail.
Fairness ==
  \A m \in Mails : WF_vars(CallSteps(m)) /\ WF_vars(JobSteps(m))

Spec == Init /\ [][Next]_vars /\ Fairness

(***************************************************************************)
(* Properties.                                                             *)
(***************************************************************************)

\* A row says SENT only when the provider accepted the mail, however many
\* senders the mail had.
SentWasAccepted == \A m \in Mails : row[m] = "SENT" => delivered[m] > 0

\* Each copy of a mail beyond the first takes a fault: a process that died, an
\* update that failed, or a job queued although queueing seemed to fail.
CopiesNeedFaults ==
  \A m \in Mails : delivered[m] <= 1 + crashes + dbErrors + lostAcks

\* When the call has returned and the row is still PENDING, the queue has the
\* job and will run it, unless more went wrong than the queue forgives.
ReturnedIsCovered ==
  \A m \in Mails :
    caller[m] = "returned" /\ row[m] = "PENDING" =>
      \/ job[m] \in {"waiting", "active"}
      \/ dbErrors >= Attempts
      \/ crashes > MaxStalls

\* A mail whose call has returned is eventually reported SENT or FAILED, as
\* long as faults stay within what the queue forgives.
ReturnedIsSettled ==
  \A m \in Mails : caller[m] = "returned" ~> row[m] \in {"SENT", "FAILED"}

=============================================================================
