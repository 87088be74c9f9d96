---------------------- MODULE EmailNotificationsProofs ----------------------
(***************************************************************************)
(* Safety of EmailNotifications, for any number of mails and any bounds on *)
(* the faults.                                                             *)
(***************************************************************************)
EXTENDS EmailNotifications, TLAPS

(***************************************************************************)
(* The inductive invariant, one mail at a time.  Due counts the copies that *)
(* may still reach the provider without another fault: a fault adds at most *)
(* one of them, and handing one over moves it from Due to delivered.        *)
(***************************************************************************)
Faulty == crashes + dbErrors + lostAcks

DueByCall(m)   == IF caller[m] \in {"none", "created"} THEN 1 ELSE 0
DueDirectly(m) == IF direct[m] = "sending" THEN 1 ELSE 0
DueByJob(m)    == IF job[m] = "waiting" \/ worker[m] = "sending" THEN 1 ELSE 0
Due(m)         == DueByCall(m) + DueDirectly(m) + DueByJob(m)

\* The call, the senders and the job of a mail agree on who is at work.
InStep(m) ==
  /\ caller[m] = "none" <=> row[m] = "NONE"
  /\ caller[m] \in {"none", "created"} => job[m] = "none"
  /\ direct[m] # "idle" <=> caller[m] = "direct"
  /\ worker[m] # "idle" <=> job[m] = "active"

\* What the row and the outcome of a send say about the provider.
Truthful(m) ==
  /\ row[m] = "SENT" => delivered[m] > 0
  /\ direct[m] = "accepted" => delivered[m] > 0
  /\ worker[m] = "accepted" => delivered[m] > 0

\* A mail that is not settled has somebody who will settle it.
Covered(m) ==
  /\ direct[m] = "recorded" => row[m] # "PENDING"
  /\ worker[m] = "recorded" => row[m] # "PENDING"
  /\ job[m] = "completed" => row[m] # "PENDING"
  /\ caller[m] = "returned" => row[m] # "PENDING" \/ job[m] # "none"
  /\ job[m] = "failed" => dbErrors >= Attempts \/ crashes > MaxStalls

\* The queue counts a part of the faults.
Counted(m) ==
  /\ attempts[m] <= dbErrors
  /\ stalls[m] <= crashes
  /\ delivered[m] + Due(m) <= 1 + Faulty
  /\ job[m] # "failed" => attempts[m] < Attempts

MailOK(m) == InStep(m) /\ Truthful(m) /\ Covered(m) /\ Counted(m)

IInv == TypeOK /\ \A m \in Mails : MailOK(m)

Same(m) ==
  /\ row'[m] = row[m]           /\ caller'[m] = caller[m]
  /\ direct'[m] = direct[m]     /\ worker'[m] = worker[m]
  /\ job'[m] = job[m]           /\ attempts'[m] = attempts[m]
  /\ stalls'[m] = stalls[m]     /\ delivered'[m] = delivered[m]

FaultsGrow == crashes' >= crashes /\ dbErrors' >= dbErrors /\ lostAcks' >= lostAcks

\* Sums of three numbers grow with them.
LEMMA SumsGrow ==
  ASSUME NEW x \in Nat, NEW y \in Nat, NEW z \in Nat,
         NEW u \in Nat, NEW v \in Nat, NEW w \in Nat, u >= x, v >= y, w >= z
  PROVE  x + y + z \in Nat /\ u + v + w \in Nat /\ u + v + w >= x + y + z
OBVIOUS

\* A mail that a step does not touch stays as it should be: faults only grow.
LEMMA Untouched ==
  ASSUME IInv, TypeOK', NEW m \in Mails, Same(m), FaultsGrow
  PROVE  MailOK(m)'
<1> USE DEF IInv, TypeOK, MailOK, Same
<1>1. InStep(m)' /\ Truthful(m)'
  BY DEF InStep, Truthful
<1>2. Covered(m)'
  <2>1. /\ dbErrors >= Attempts => dbErrors' >= Attempts
        /\ crashes > MaxStalls => crashes' > MaxStalls
    BY FaultBoundsAssumption, MaxStallsAssumption DEF FaultsGrow, Attempts
  <2> QED
    BY <2>1 DEF Covered
<1>3. Counted(m)'
  <2>1. Due(m)' = Due(m) /\ Due(m) \in Nat
    BY DEF Due, DueByCall, DueDirectly, DueByJob
  <2>2. Faulty \in Nat /\ Faulty' \in Nat /\ Faulty' >= Faulty
    <3>1. /\ crashes \in Nat /\ dbErrors \in Nat /\ lostAcks \in Nat
          /\ crashes' \in Nat /\ dbErrors' \in Nat /\ lostAcks' \in Nat
      BY FaultBoundsAssumption
    <3> HIDE DEF IInv, TypeOK, MailOK, Same
    <3> QED
      BY <3>1, SumsGrow DEF Faulty, FaultsGrow
  <2>3. delivered'[m] + Due(m)' <= 1 + Faulty'
    BY <2>1, <2>2 DEF Counted
  <2>4. attempts'[m] <= dbErrors' /\ stalls'[m] <= crashes'
    BY FaultBoundsAssumption, MaxStallsAssumption DEF Counted, Attempts, FaultsGrow
  <2> QED
    BY <2>3, <2>4 DEF Counted
<1> QED
  BY <1>1, <1>2, <1>3

\* Requesting a mail and queueing it.
LEMMA CallKeeps ==
  ASSUME IInv, NEW m \in Mails, Create(m) \/ Enqueue(m) \/ FallBack(m) \/ Return(m)
  PROVE  IInv'
<1>0. /\ dbErrors \in Nat /\ crashes \in Nat /\ lostAcks \in Nat
      /\ UNCHANGED <<crashes, dbErrors>> /\ lostAcks' \in {lostAcks, lostAcks + 1}
      /\ UNCHANGED <<worker, attempts, stalls, delivered>>
  BY FaultBoundsAssumption DEF IInv, TypeOK, Create, Enqueue, FallBack, Return, queue,
     faults
<1>1. TypeOK'
  BY FaultBoundsAssumption DEF IInv, TypeOK, Create, Enqueue, FallBack, Return, queue,
     faults, Rows, CallerPCs, SenderPCs, JobStates
<1>2. ASSUME NEW n \in Mails \ {m} PROVE MailOK(n)'
  <2>1. Same(n) /\ FaultsGrow
    BY <1>0 DEF IInv, TypeOK, Same, FaultsGrow, Create, Enqueue, FallBack,
       Return, queue, faults
  <2> QED
    BY <1>1, <2>1, Untouched
<1>3. MailOK(m)'
  <2>0. MailOK(m)
    BY DEF IInv
  <2>1. InStep(m)' /\ Truthful(m)'
    BY <2>0 DEF MailOK, InStep, Truthful, IInv, TypeOK, Create, Enqueue, FallBack, Return, queue,
       faults
  <2>2. Covered(m)'
    BY <2>0 DEF MailOK, Covered, InStep, IInv, TypeOK, Create, Enqueue, FallBack, Return,
       queue, faults
  <2>3. Counted(m)'
    <3>1. Due(m)' + lostAcks <= Due(m) + lostAcks'
      <4> USE <1>0, <2>0
          DEF MailOK, InStep, Due, DueByCall, DueDirectly, DueByJob, IInv, TypeOK
      <4>1. CASE Create(m)
        BY <4>1 DEF Create, queue, faults
      <4>2. CASE Enqueue(m)
        BY <4>2 DEF Enqueue, queue, faults
      <4>3. CASE FallBack(m)
        <5>1. /\ caller[m] = "created" /\ direct[m] = "idle"
              /\ job[m] = "none" /\ worker[m] = "idle"
          BY <4>3 DEF FallBack, SenderPCs
        <5>2. /\ caller'[m] = "direct" /\ direct'[m] = "sending"
              /\ worker'[m] = "idle"
              /\ \/ job'[m] = "none" /\ lostAcks' = lostAcks
                 \/ job'[m] = "waiting" /\ lostAcks' = lostAcks + 1
          BY <4>3, <5>1 DEF FallBack
        <5> HIDE DEF MailOK, InStep, IInv, TypeOK
        <5> QED
          BY <5>1, <5>2
      <4>4. CASE Return(m)
        BY <4>4 DEF Return, queue, faults
      <4> QED
        BY <4>1, <4>2, <4>3, <4>4
    <3>2. Due(m) \in Nat /\ Due(m)' \in Nat /\ delivered[m] \in Nat
      BY DEF Due, DueByCall, DueDirectly, DueByJob, IInv, TypeOK
    <3>3. delivered'[m] + Due(m)' <= 1 + Faulty'
      BY <1>0, <2>0, <3>1, <3>2 DEF MailOK, Counted, Faulty
    <3>4. attempts'[m] < Attempts \/ job'[m] = "failed"
      BY <1>0, <2>0 DEF MailOK, Counted, InStep, IInv, TypeOK, Create, Enqueue,
         FallBack, Return, queue
    <3> QED
      BY <1>0, <2>0, <3>3, <3>4 DEF MailOK, Counted
  <2> QED
    BY <2>1, <2>2, <2>3 DEF MailOK
<1> QED
  BY <1>1, <1>2, <1>3 DEF IInv

\* A step that concerns one mail keeps the invariant when it keeps that mail's.
LEMMA OneMail ==
  ASSUME IInv, TypeOK', NEW m \in Mails, MailOK(m)', FaultsGrow,
         \A n \in Mails \ {m} : Same(n)
  PROVE  IInv'
BY Untouched DEF IInv

\* The copies of a mail stay within its faults when each copy that is handed
\* over was due, and each copy that becomes due again takes a fault.
LEMMA CopiesCounted ==
  ASSUME IInv, TypeOK', NEW m \in Mails,
         NEW f \in 0..1, crashes' + dbErrors' + lostAcks' = Faulty + f,
         NEW d \in 0..1, delivered'[m] = delivered[m] + d,
         Due(m)' + d <= Due(m) + f
  PROVE  delivered'[m] + Due(m)' <= 1 + Faulty'
<1>1. PICK x \in Nat, y \in Nat, z \in Nat, u \in Nat :
        x = delivered[m] /\ y = Due(m) /\ z = Faulty /\ u = Due(m)'
  <2>1. Faulty \in Nat
    <3>1. crashes \in Nat /\ dbErrors \in Nat /\ lostAcks \in Nat
      BY FaultBoundsAssumption DEF IInv, TypeOK
    <3> QED
      BY <3>1, SumsGrow DEF Faulty
  <2>2. Due(m) \in Nat /\ Due(m)' \in Nat
    BY DEF Due, DueByCall, DueDirectly, DueByJob
  <2>3. delivered[m] \in Nat
    BY DEF IInv, TypeOK
  <2> QED
    BY <2>1, <2>2, <2>3
<1>2. x + y <= 1 + z
  BY <1>1 DEF IInv, MailOK, Counted
<1>3. u + d <= y + f
  BY <1>1
<1>4. x + d + u <= 1 + z + f
  BY <1>2, <1>3
<1>5. Faulty' = z + f
  BY <1>1 DEF Faulty
<1> QED
  BY <1>1, <1>4, <1>5

\* The queue gives a job to the worker and takes note that it is done.
LEMMA JobKeeps ==
  ASSUME IInv, NEW m \in Mails, Take(m) \/ Complete(m)
  PROVE  IInv'
<1>0. /\ UNCHANGED <<row, caller, direct, attempts, stalls, delivered>>
      /\ UNCHANGED <<crashes, dbErrors, lostAcks>>
  BY DEF Take, Complete, faults
<1>1. TypeOK'
  BY <1>0 DEF IInv, TypeOK, Take, Complete, SenderPCs, JobStates
<1>2. FaultsGrow
  BY <1>0, FaultBoundsAssumption DEF FaultsGrow, IInv, TypeOK
<1>3. \A n \in Mails \ {m} : Same(n)
  BY <1>0 DEF Same, Take, Complete, IInv, TypeOK
<1>4. MailOK(m)'
  <2>0. MailOK(m)
    BY DEF IInv
  <2>1. \/ /\ job[m] = "waiting" /\ job'[m] = "active"
           /\ worker[m] = "idle" /\ worker'[m] = "sending"
        \/ /\ job[m] = "active" /\ job'[m] = "completed"
           /\ worker[m] = "recorded" /\ worker'[m] = "idle"
    BY <2>0 DEF Take, Complete, IInv, TypeOK, MailOK, InStep, SenderPCs
  <2>2. InStep(m)' /\ Truthful(m)' /\ Covered(m)'
    BY <1>0, <2>0, <2>1 DEF MailOK, InStep, Truthful, Covered
  <2>3. Due(m)' <= Due(m)
    BY <1>0, <2>1 DEF Due, DueByCall, DueDirectly, DueByJob
  <2>4. delivered'[m] + Due(m)' <= 1 + Faulty'
    <3>1. crashes' + dbErrors' + lostAcks' = Faulty + 0
      <4>1. Faulty \in Nat
        <5>1. crashes \in Nat /\ dbErrors \in Nat /\ lostAcks \in Nat
          BY FaultBoundsAssumption DEF IInv, TypeOK
        <5> QED
          BY <5>1, SumsGrow DEF Faulty
      <4> QED
        BY <1>0, <4>1 DEF Faulty
    <3>2. delivered'[m] = delivered[m] + 0
      BY <1>0 DEF IInv, TypeOK
    <3>3. Due(m)' + 0 <= Due(m) + 0
      BY <2>3 DEF Due, DueByCall, DueDirectly, DueByJob
    <3> QED
      BY <1>1, <3>1, <3>2, <3>3, CopiesCounted
  <2> QED
    BY <1>0, <2>0, <2>1, <2>2, <2>4 DEF MailOK, Counted
<1> QED
  BY <1>1, <1>2, <1>3, <1>4, OneMail

\* Every fault of a step counts once.
LEMMA FaultyStep ==
  ASSUME IInv, NEW f \in 0..1,
         \/ crashes' = crashes + f /\ UNCHANGED <<dbErrors, lostAcks>>
         \/ dbErrors' = dbErrors + f /\ UNCHANGED <<crashes, lostAcks>>
  PROVE  crashes' + dbErrors' + lostAcks' = Faulty + f /\ FaultsGrow
<1>1. PICK x \in Nat, y \in Nat, z \in Nat :
        x = crashes /\ y = dbErrors /\ z = lostAcks
  BY FaultBoundsAssumption DEF IInv, TypeOK
<1> QED
  BY <1>1 DEF Faulty, FaultsGrow

\* A request that sends the mail itself.
LEMMA DirectKeeps ==
  ASSUME IInv, NEW m \in Mails,
         \/ (HandOver(direct, m) \/ Record(direct, m)) /\ UNCHANGED worker
         \/ RecordSentFails(direct, m) /\ UNCHANGED worker
         \/ DirectThrows(m)
  PROVE  IInv'
<1>0. /\ UNCHANGED <<worker, job, attempts, stalls, crashes, lostAcks>>
      /\ dbErrors' \in 0..MaxDbErrors
      /\ \A n \in Mails \ {m} : Same(n)
  <2>1. UNCHANGED <<worker, job, attempts, stalls, crashes, lostAcks>>
    BY DEF HandOver, Record, RecordSentFails, DirectThrows, queue, faults
  <2>2. dbErrors' \in 0..MaxDbErrors
    BY FaultBoundsAssumption DEF IInv, TypeOK, HandOver, Record, RecordSentFails,
       DirectThrows, faults
  <2>3. \A n \in Mails \ {m} : Same(n)
    BY <2>1 DEF IInv, TypeOK, Same, HandOver, Record, RecordSentFails, DirectThrows
  <2> QED
    BY <2>1, <2>2, <2>3
<1>1. TypeOK'
  <2>1. row' \in [Mails -> Rows]
    BY DEF IInv, TypeOK, HandOver, Record, RecordSentFails, DirectThrows, Rows
  <2>2. caller' \in [Mails -> CallerPCs] /\ direct' \in [Mails -> SenderPCs]
    BY DEF IInv, TypeOK, HandOver, Record, RecordSentFails, DirectThrows, CallerPCs,
       SenderPCs
  <2>3. delivered' \in [Mails -> Nat]
    BY DEF IInv, TypeOK, HandOver, Record, RecordSentFails, DirectThrows
  <2> QED
    BY <1>0, <2>1, <2>2, <2>3 DEF IInv, TypeOK
<1>2. MailOK(m)
  BY DEF IInv
<1>3. PICK f \in 0..1, d \in 0..1 :
        /\ dbErrors' = dbErrors + f
        /\ delivered'[m] = delivered[m] + d
        /\ \/ /\ direct[m] = "sending" /\ f = 0
              /\ UNCHANGED <<row, caller>>
              /\ \/ direct'[m] = "accepted" /\ d = 1
                 \/ direct'[m] = "refused"
           \/ /\ direct[m] = "accepted" /\ direct'[m] = "recorded"
              /\ row'[m] = "SENT" /\ d = 0 /\ f = 0 /\ UNCHANGED caller
           \/ /\ direct[m] = "refused" /\ direct'[m] = "recorded"
              /\ row'[m] = "FAILED" /\ d = 0 /\ f = 0 /\ UNCHANGED caller
           \/ /\ direct[m] = "accepted" /\ direct'[m] = "refused"
              /\ d = 0 /\ f = 1 /\ UNCHANGED <<row, caller>>
           \/ /\ direct[m] = "refused" /\ direct'[m] = "idle"
              /\ caller'[m] = "threw" /\ d = 0 /\ f = 1 /\ UNCHANGED row
  <2>0. /\ direct \in [Mails -> SenderPCs] /\ delivered \in [Mails -> Nat]
        /\ row \in [Mails -> Rows] /\ caller \in [Mails -> CallerPCs]
        /\ dbErrors \in Nat
    BY FaultBoundsAssumption DEF IInv, TypeOK
  <2>1. CASE HandOver(direct, m)
    <3>1. CASE delivered'[m] = delivered[m] + 1
      BY <2>0, <2>1, <3>1 DEF HandOver, faults
    <3>2. CASE delivered'[m] = delivered[m] + 0 /\ direct'[m] = "refused"
      BY <2>0, <2>1, <3>2 DEF HandOver, faults
    <3> QED
      BY <2>0, <2>1, <3>1, <3>2 DEF HandOver
  <2>2. CASE Record(direct, m)
    BY <2>0, <2>2 DEF Record, faults
  <2>3. CASE RecordSentFails(direct, m)
    BY <2>0, <2>3 DEF RecordSentFails
  <2>4. CASE DirectThrows(m)
    BY <2>0, <2>4 DEF DirectThrows
  <2> QED
    BY <2>1, <2>2, <2>3, <2>4
<1>4. crashes' + dbErrors' + lostAcks' = Faulty + f /\ FaultsGrow
  BY <1>0, <1>3, FaultyStep
<1>5. MailOK(m)'
  <2>0. /\ caller[m] = "direct"
        /\ delivered[m] \in Nat /\ dbErrors \in Nat /\ attempts[m] \in Nat
    BY <1>2, <1>3, FaultBoundsAssumption, MaxStallsAssumption
       DEF MailOK, InStep, IInv, TypeOK, Attempts
  <2>1. InStep(m)'
    BY <1>0, <1>2, <1>3, <2>0 DEF MailOK, InStep
  <2>2. Truthful(m)'
    BY <1>0, <1>2, <1>3, <2>0 DEF MailOK, Truthful
  <2>3. Covered(m)'
    BY <1>0, <1>2, <1>3, <2>0 DEF MailOK, Covered, Attempts
  <2>4. Due(m)' + d <= Due(m) + f
    BY <1>0, <1>3, <2>0 DEF Due, DueByCall, DueDirectly, DueByJob
  <2>5. delivered'[m] + Due(m)' <= 1 + Faulty'
    BY <1>1, <1>3, <1>4, <2>4, CopiesCounted
  <2>6. Counted(m)'
    BY <1>0, <1>2, <1>3, <2>0, <2>5 DEF MailOK, Counted, Attempts
  <2> QED
    BY <2>1, <2>2, <2>3, <2>6 DEF MailOK
<1> QED
  BY <1>0, <1>1, <1>4, <1>5, OneMail


\* The worker sends the mail of its job.
LEMMA WorkerKeeps ==
  ASSUME IInv, NEW m \in Mails,
         \/ (HandOver(worker, m) \/ Record(worker, m)) /\ UNCHANGED direct
         \/ RecordSentFails(worker, m) /\ UNCHANGED direct
         \/ WorkerThrows(m)
  PROVE  IInv'
<1>0. /\ UNCHANGED <<caller, direct, stalls, crashes, lostAcks>>
      /\ dbErrors' \in 0..MaxDbErrors
      /\ \A n \in Mails \ {m} : Same(n)
  <2>1. UNCHANGED <<caller, direct, stalls, crashes, lostAcks>>
    BY DEF HandOver, Record, RecordSentFails, WorkerThrows, queue, faults
  <2>2. dbErrors' \in 0..MaxDbErrors
    BY FaultBoundsAssumption DEF IInv, TypeOK, HandOver, Record, RecordSentFails,
       WorkerThrows, faults
  <2>3. \A n \in Mails \ {m} : Same(n)
    BY <2>1 DEF IInv, TypeOK, Same, HandOver, Record, RecordSentFails, WorkerThrows, queue
  <2> QED
    BY <2>1, <2>2, <2>3
<1>2. MailOK(m)
  BY DEF IInv
<1>3. PICK f \in 0..1, d \in 0..1 :
        /\ dbErrors' = dbErrors + f
        /\ delivered'[m] = delivered[m] + d
        /\ \/ /\ worker[m] = "sending" /\ f = 0
              /\ UNCHANGED <<row, job, attempts>>
              /\ \/ worker'[m] = "accepted" /\ d = 1
                 \/ worker'[m] = "refused"
           \/ /\ worker[m] = "accepted" /\ worker'[m] = "recorded"
              /\ row'[m] = "SENT" /\ d = 0 /\ f = 0 /\ UNCHANGED <<job, attempts>>
           \/ /\ worker[m] = "refused" /\ worker'[m] = "recorded"
              /\ row'[m] = "FAILED" /\ d = 0 /\ f = 0 /\ UNCHANGED <<job, attempts>>
           \/ /\ worker[m] = "accepted" /\ worker'[m] = "refused"
              /\ d = 0 /\ f = 1 /\ UNCHANGED <<row, job, attempts>>
           \/ /\ worker[m] = "refused" /\ worker'[m] = "idle"
              /\ d = 0 /\ f = 1 /\ UNCHANGED row
              /\ attempts'[m] = attempts[m] + 1
              /\ \/ attempts[m] + 1 < Attempts /\ job'[m] = "waiting"
                 \/ attempts[m] + 1 >= Attempts /\ job'[m] = "failed"
  <2>0. /\ worker \in [Mails -> SenderPCs] /\ delivered \in [Mails -> Nat]
        /\ row \in [Mails -> Rows] /\ job \in [Mails -> JobStates]
        /\ attempts \in [Mails -> 0..Attempts] /\ dbErrors \in Nat
    BY FaultBoundsAssumption DEF IInv, TypeOK
  <2>1. CASE HandOver(worker, m)
    <3>1. CASE delivered'[m] = delivered[m] + 1
      BY <2>0, <2>1, <3>1 DEF HandOver, faults, queue
    <3>2. CASE delivered'[m] = delivered[m] + 0 /\ worker'[m] = "refused"
      BY <2>0, <2>1, <3>2 DEF HandOver, faults, queue
    <3> QED
      BY <2>0, <2>1, <3>1, <3>2 DEF HandOver
  <2>2. CASE Record(worker, m)
    BY <2>0, <2>2 DEF Record, faults, queue
  <2>3. CASE RecordSentFails(worker, m)
    BY <2>0, <2>3 DEF RecordSentFails, queue
  <2>4. CASE WorkerThrows(m)
    BY <2>0, <2>4 DEF WorkerThrows, Retryable, Attempts
  <2> QED
    BY <2>1, <2>2, <2>3, <2>4
<1>1. TypeOK'
  <2>1. row' \in [Mails -> Rows]
    BY DEF IInv, TypeOK, HandOver, Record, RecordSentFails, WorkerThrows, Rows
  <2>2. job' \in [Mails -> JobStates] /\ worker' \in [Mails -> SenderPCs]
    BY DEF IInv, TypeOK, HandOver, Record, RecordSentFails, WorkerThrows, JobStates,
       SenderPCs, queue
  <2>3. delivered' \in [Mails -> Nat]
    BY DEF IInv, TypeOK, HandOver, Record, RecordSentFails, WorkerThrows
  <2>4. attempts' \in [Mails -> 0..Attempts]
    <3>1. CASE WorkerThrows(m)
      <4>1. job[m] = "active"
        BY <1>2, <3>1 DEF MailOK, InStep, WorkerThrows
      <4>2. attempts[m] \in 0..Attempts /\ attempts[m] < Attempts
        BY <1>2, <4>1 DEF MailOK, Counted, IInv, TypeOK
      <4> QED
        BY <3>1, <4>2 DEF WorkerThrows, IInv, TypeOK, Attempts
    <3> QED
      BY <3>1 DEF IInv, TypeOK, HandOver, Record, RecordSentFails, queue
  <2> QED
    BY <1>0, <2>1, <2>2, <2>3, <2>4 DEF IInv, TypeOK
<1>4. crashes' + dbErrors' + lostAcks' = Faulty + f /\ FaultsGrow
  BY <1>0, <1>3, FaultyStep
<1>5. MailOK(m)'
  <2>0. /\ job[m] = "active" /\ caller[m] # "none" /\ row[m] # "NONE"
        /\ caller[m] # "created"
        /\ delivered[m] \in Nat /\ dbErrors \in Nat /\ attempts[m] \in Nat
    BY <1>2, <1>3, FaultBoundsAssumption DEF MailOK, InStep, IInv, TypeOK, Attempts
  <2>1. InStep(m)'
    BY <1>0, <1>2, <1>3, <2>0 DEF MailOK, InStep
  <2>2. Truthful(m)'
    BY <1>0, <1>2, <1>3, <2>0 DEF MailOK, Truthful
  <2>3. attempts'[m] <= dbErrors' /\ (job'[m] # "failed" => attempts'[m] < Attempts)
    BY <1>0, <1>2, <1>3, <2>0 DEF MailOK, Counted, Attempts
  <2>4. Covered(m)'
    BY <1>0, <1>2, <1>3, <2>0, <2>3 DEF MailOK, Covered, Counted, Attempts
  <2>5. Due(m)' + d <= Due(m) + f
    BY <1>0, <1>3, <2>0 DEF Due, DueByCall, DueDirectly, DueByJob
  <2>6. delivered'[m] + Due(m)' <= 1 + Faulty'
    BY <1>1, <1>3, <1>4, <2>5, CopiesCounted
  <2>7. Counted(m)'
    BY <1>0, <1>2, <2>3, <2>6 DEF MailOK, Counted
  <2> QED
    BY <2>1, <2>2, <2>4, <2>7 DEF MailOK
<1> QED
  BY <1>0, <1>1, <1>4, <1>5, OneMail

\* A process dies with any of the calls and jobs in progress.
LEMMA CrashKeeps ==
  ASSUME IInv, Crash
  PROVE  IInv'
<1>1. PICK calls \in SUBSET {m \in Mails : Running(m)},
           jobs \in SUBSET {m \in Mails : job[m] = "active"} :
        /\ crashes < MaxCrashes
        /\ crashes' = crashes + 1
        /\ caller' = [m \in Mails |-> IF m \in calls THEN "died" ELSE caller[m]]
        /\ direct' = [m \in Mails |-> IF m \in calls THEN "idle" ELSE direct[m]]
        /\ worker' = [m \in Mails |-> IF m \in jobs THEN "idle" ELSE worker[m]]
        /\ job' = [m \in Mails |->
                     IF m \notin jobs THEN job[m]
                     ELSE IF stalls[m] < MaxStalls THEN "waiting" ELSE "failed"]
        /\ stalls' = [m \in Mails |->
                        IF m \in jobs /\ stalls[m] < MaxStalls
                          THEN stalls[m] + 1 ELSE stalls[m]]
        /\ UNCHANGED <<row, attempts, delivered, dbErrors, lostAcks>>
  BY DEF Crash
<1>2. TypeOK'
  <2>1. crashes' \in 0..MaxCrashes
    BY <1>1, FaultBoundsAssumption DEF IInv, TypeOK
  <2>2. /\ caller' \in [Mails -> CallerPCs] /\ direct' \in [Mails -> SenderPCs]
        /\ worker' \in [Mails -> SenderPCs] /\ job' \in [Mails -> JobStates]
    BY <1>1 DEF IInv, TypeOK, CallerPCs, SenderPCs, JobStates
  <2>3. stalls' \in [Mails -> 0..MaxStalls]
    BY <1>1, MaxStallsAssumption DEF IInv, TypeOK
  <2> QED
    BY <1>1, <2>1, <2>2, <2>3 DEF IInv, TypeOK
<1>3. crashes' + dbErrors' + lostAcks' = Faulty + 1 /\ FaultsGrow
  BY <1>1, FaultyStep
<1>4. ASSUME NEW m \in Mails PROVE MailOK(m)'
  <2>0. /\ MailOK(m) /\ delivered[m] \in Nat /\ crashes \in Nat /\ stalls[m] \in 0..MaxStalls
        /\ delivered'[m] = delivered[m] + 0
    BY <1>1, FaultBoundsAssumption DEF IInv, TypeOK
  <2>1. /\ caller'[m] = IF m \in calls THEN "died" ELSE caller[m]
        /\ direct'[m] = IF m \in calls THEN "idle" ELSE direct[m]
        /\ m \in calls => caller[m] \in {"created", "direct"}
    BY <1>1 DEF Running
  <2>2. /\ worker'[m] = IF m \in jobs THEN "idle" ELSE worker[m]
        /\ m \in jobs => job[m] = "active"
        /\ \/ m \notin jobs /\ job'[m] = job[m] /\ stalls'[m] = stalls[m]
           \/ /\ m \in jobs /\ stalls[m] < MaxStalls /\ job'[m] = "waiting"
              /\ stalls'[m] = stalls[m] + 1
           \/ /\ m \in jobs /\ ~(stalls[m] < MaxStalls) /\ job'[m] = "failed"
              /\ stalls'[m] = stalls[m]
    BY <1>1
  <2>3. InStep(m)'
    BY <1>1, <2>0, <2>1, <2>2 DEF MailOK, InStep
  <2>4. Truthful(m)'
    BY <1>1, <2>0, <2>1, <2>2 DEF MailOK, Truthful
  <2>5. /\ stalls'[m] <= crashes'
        /\ m \in jobs /\ ~(stalls[m] < MaxStalls) => crashes' > MaxStalls
        /\ crashes > MaxStalls => crashes' > MaxStalls
    BY <1>1, <2>0, <2>2, MaxStallsAssumption DEF MailOK, Counted
  <2>6. Covered(m)'
    BY <1>1, <2>0, <2>1, <2>2, <2>5 DEF MailOK, Covered
  <2>7. Due(m)' + 0 <= Due(m) + 1
    BY <1>1, <2>1, <2>2 DEF Due, DueByCall, DueDirectly, DueByJob
  <2>8. delivered'[m] + Due(m)' <= 1 + Faulty'
    BY <1>2, <1>3, <2>0, <2>7, CopiesCounted
  <2>9. Counted(m)'
    BY <1>1, <2>0, <2>2, <2>5, <2>8 DEF MailOK, Counted
  <2> QED
    BY <2>3, <2>4, <2>6, <2>9 DEF MailOK
<1> QED
  BY <1>2, <1>4 DEF IInv

\* Before the first request no mail is due twice.
LEMMA InitHolds == Init => IInv
<1> SUFFICES ASSUME Init PROVE IInv
  OBVIOUS
<1>1. TypeOK
  BY FaultBoundsAssumption, MaxStallsAssumption
     DEF Init, TypeOK, Rows, CallerPCs, SenderPCs, JobStates, Attempts
<1>2. ASSUME NEW m \in Mails PROVE MailOK(m)
  BY DEF Init, MailOK, InStep, Truthful, Covered, Counted, Due, DueByCall,
     DueDirectly, DueByJob, Faulty, Attempts
<1> QED
  BY <1>1, <1>2 DEF IInv

\* Every step keeps the invariant.
LEMMA StepHolds == IInv /\ [Next]_vars => IInv'
<1> SUFFICES ASSUME IInv, [Next]_vars PROVE IInv'
  OBVIOUS
<1>1. CASE Crash
  BY <1>1, CrashKeeps
<1>2. ASSUME NEW m \in Mails, Create(m) \/ CallSteps(m) \/ JobSteps(m) \/ Faults(m)
      PROVE IInv'
  BY <1>2, CallKeeps, JobKeeps, DirectKeeps, WorkerKeeps DEF CallSteps, JobSteps, Faults
<1>3. CASE UNCHANGED vars
  <2>1. /\ UNCHANGED <<row, caller, direct, worker, job, attempts, stalls>>
        /\ UNCHANGED <<delivered, crashes, dbErrors, lostAcks>>
    BY <1>3 DEF vars, queue, faults
  <2>2. TypeOK'
    BY <2>1 DEF IInv, TypeOK
  <2>3. \A m \in Mails : Same(m)
    BY <2>1 DEF Same
  <2>4. FaultsGrow
    BY <2>1, FaultBoundsAssumption DEF FaultsGrow, IInv, TypeOK
  <2> QED
    BY <2>2, <2>3, <2>4, Untouched DEF IInv
<1> QED
  BY <1>1, <1>2, <1>3 DEF Next

\* The inductive invariant holds in every reachable state.
THEOREM Invariance == Spec => []IInv
BY InitHolds, StepHolds, PTL DEF Spec

\* Rows, calls, jobs and counters keep their types.
THEOREM TypeCorrect == Spec => []TypeOK
<1>1. IInv => TypeOK
  BY DEF IInv
<1> QED
  BY <1>1, Invariance, PTL

\* sendEmailNow writes SENT only for a mail the provider accepted.
THEOREM SentIsTruthful == Spec => []SentWasAccepted
<1>1. IInv => SentWasAccepted
  BY DEF IInv, MailOK, Truthful, SentWasAccepted
<1> QED
  BY <1>1, Invariance, PTL

\* A request, its direct send and the worker together hand over one copy of a
\* mail, and one more for each fault.
THEOREM CopiesAreFaults == Spec => []CopiesNeedFaults
<1>1. ASSUME IInv PROVE CopiesNeedFaults
  <2> SUFFICES ASSUME NEW m \in Mails
               PROVE delivered[m] <= 1 + crashes + dbErrors + lostAcks
    BY DEF CopiesNeedFaults
  <2>1. PICK x \in Nat, y \in Nat, z \in Nat, u \in Nat, v \in Nat :
          x = crashes /\ y = dbErrors /\ z = lostAcks /\ u = delivered[m] /\ v = Due(m)
    <3>1. crashes \in Nat /\ dbErrors \in Nat /\ lostAcks \in Nat /\ delivered[m] \in Nat
      BY <1>1, FaultBoundsAssumption DEF IInv, TypeOK
    <3>2. Due(m) \in Nat
      BY DEF Due, DueByCall, DueDirectly, DueByJob
    <3> QED
      BY <3>1, <3>2
  <2>2. u + v <= 1 + (x + y + z)
    BY <1>1, <2>1 DEF IInv, MailOK, Counted, Faulty
  <2> QED
    BY <2>1, <2>2
<1> QED
  BY <1>1, Invariance, PTL

\* A PENDING row whose call has returned has a job that will run, unless more
\* went wrong than the queue forgives.
THEOREM PendingIsCovered == Spec => []ReturnedIsCovered
<1>1. ASSUME IInv PROVE ReturnedIsCovered
  <2> SUFFICES ASSUME NEW m \in Mails, caller[m] = "returned", row[m] = "PENDING"
               PROVE \/ job[m] \in {"waiting", "active"}
                     \/ dbErrors >= Attempts
                     \/ crashes > MaxStalls
    BY DEF ReturnedIsCovered
  <2>1. job[m] \in JobStates /\ MailOK(m)
    BY <1>1 DEF IInv, TypeOK
  <2> QED
    BY <2>1 DEF MailOK, Covered, JobStates
<1> QED
  BY <1>1, Invariance, PTL

=============================================================================
