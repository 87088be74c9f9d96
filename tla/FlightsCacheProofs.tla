------------------------- MODULE FlightsCacheProofs -------------------------
(***************************************************************************)
(* Safety of FlightsCache, for any number of requests and any time to live *)
(* of the entries.                                                         *)
(***************************************************************************)
EXTENDS FlightsCache, TLAPS

(***************************************************************************)
(* The inductive invariant.  Fetches are numbered in the order they begin, *)
(* so that the last one finished is a lower bound of what memory holds and *)
(* of what Redis holds unless a write failed; a fetch in flight is younger *)
(* than any that was finished.                                             *)
(***************************************************************************)
\* What a request has learnt and what it has yet to answer with.
Sound(r) ==
  ~Idle(r) =>
    /\ req[r].since <= finished
    /\ req[r].pc \in {"redis", "memory"} => ~req[r].force
    /\ req[r].pc = "load" => req[r].force
    /\ req[r].pc \in {"store", "done"} => req[r].payload = fetches
    /\ req[r].pc = "answer" =>
         /\ req[r].force => req[r].payload > req[r].since
         /\ req[r].payload >= req[r].since \/ req[r].excused

\* Redis is written only where it is used, after memory.
Written ==
  /\ ~useRedis => redis = None /\ ~lost
  /\ \A r \in Requests :
       /\ At(r, "store") => useRedis
       /\ At(r, "store") \/ At(r, "done") =>
            (memory # None => memory.payload = fetches)
       /\ At(r, "done") /\ redis # None => lost \/ redis.payload = fetches

Recent ==
  /\ finished <= fetches
  /\ flying # None => finished < fetches
  /\ memory # None => memory.payload >= finished
  /\ redis # None => lost \/ redis.payload >= finished

\* Memory keeps what the server stored until it has expired.
Kept ==
  IF stored = -1 THEN memory = None
  ELSE IF memory = None THEN now >= stored + Ttl
  ELSE memory.expires = stored + Ttl

IInv ==
  /\ FlightsTypeOK
  /\ OneFetch
  /\ \A r \in Requests : Sound(r)
  /\ Written
  /\ Recent
  /\ Kept

\* The initial states satisfy the invariant.
LEMMA InitInvariant == FlightsInit => IInv
<1> SUFFICES ASSUME FlightsInit PROVE IInv
  OBVIOUS
<1>1. \A r \in Requests : Idle(r)
  BY DEF FlightsInit, Idle
<1>2. FlightsTypeOK
  BY DEF FlightsInit, FlightsTypeOK
<1>3. OneFetch
  BY <1>1 DEF FlightsInit, OneFetch, Fetching, Joined, At
<1>4. (\A r \in Requests : Sound(r)) /\ Written
  BY <1>1 DEF Sound, Written, At, FlightsInit
<1>5. Recent /\ Kept
  BY DEF FlightsInit, Recent, Kept
<1> QED
  BY <1>2, <1>3, <1>4, <1>5 DEF IInv

\* A new request is a request.
LEMMA BlankRequest ==
  ASSUME NEW force \in BOOLEAN, NEW n \in Nat
  PROVE  [pc |-> FirstStep(force), force |-> force, since |-> n, payload |-> 0,
          excused |-> FALSE] \in Request
BY DEF Request, FirstStep

\* Every step keeps the types.
LEMMA StepTypes ==
  ASSUME FlightsTypeOK, [Next]_flightVars
  PROVE  FlightsTypeOK'
<1> USE DEF FlightsTypeOK
<1>1. ASSUME NEW r \in Requests, NEW force \in BOOLEAN, Begin(r, force)
      PROVE FlightsTypeOK'
  BY <1>1, BlankRequest DEF Begin
<1>2. ASSUME NEW r \in Requests,
             RedisHit(r) \/ RedisMiss(r) \/ MemoryHit(r) \/ Answer(r)
      PROVE FlightsTypeOK'
  BY <1>2 DEF RedisHit, RedisMiss, MemoryHit, Answer, Fresh, At, Idle, Request, Entry
<1>3. ASSUME NEW r \in Requests, MemoryMiss(r) \/ LoadForced(r)
      PROVE FlightsTypeOK'
  BY <1>3 DEF MemoryMiss, LoadForced, Load, At, Idle, Request
<1>4. ASSUME NEW r \in Requests, ProviderAnswers(r)
      PROVE FlightsTypeOK'
  BY <1>4, BoundsAssumption DEF ProviderAnswers, Remembered, At, Idle, Request, Entry
<1>5. ASSUME NEW r \in Requests, ProviderFails(r)
      PROVE FlightsTypeOK'
  BY <1>5 DEF ProviderFails, Failed, At, Idle, Request
<1>6. ASSUME NEW r \in Requests, RedisStore(r) \/ RedisStoreFails(r)
      PROVE FlightsTypeOK'
  <2>1. req[r] \in Request /\ req' = [req EXCEPT ![r].pc = "done"]
    BY <1>6 DEF RedisStore, RedisStoreFails, At, Idle
  <2>2. req' \in [Requests -> Request \cup {None}]
    BY <2>1 DEF Request
  <2>3. Stored(r) \in Entry
    BY <2>1, BoundsAssumption DEF Stored, Request, Entry
  <2> QED
    BY <1>6, <2>2, <2>3 DEF RedisStore, RedisStoreFails
<1>7. ASSUME NEW r \in Requests, Settle(r)
      PROVE FlightsTypeOK'
  BY <1>7, ZenonT(40) DEF Settle, Joined, At, Idle, Request
<1>8. CASE Tick \/ Crash
  BY <1>8 DEF Tick, Crash
<1>9. CASE UNCHANGED flightVars
  BY <1>9 DEF flightVars
<1> QED
  BY <1>1, <1>2, <1>3, <1>4, <1>5, <1>6, <1>7, <1>8, <1>9 DEF Next, Proceed

\* A step that only moves one request, neither into nor out of a fetch.
LEMMA RequestStep ==
  ASSUME IInv, FlightsTypeOK', NEW r \in Requests, r \notin Fetching, r \notin Joined,
         NEW new \in Request \cup {None}, req' = [req EXCEPT ![r] = new],
         new # None => new.pc \in {"redis", "memory", "load", "answer"},
         Sound(r)',
         UNCHANGED <<useRedis, now, memory, redis, fetches, flying, finished, lost, stored>>
  PROVE  IInv'
<1>1. \A q \in Requests : q # r => req'[q] = req[q]
  BY DEF IInv, FlightsTypeOK
<1>2. req'[r] = new
  BY DEF IInv, FlightsTypeOK
<1>3. Fetching' = Fetching /\ Joined' = Joined
  BY <1>1, <1>2 DEF Fetching, Joined, At, Idle
<1>4. OneFetch'
  BY <1>3 DEF IInv, OneFetch
<1>5. \A q \in Requests : Sound(q)'
  BY <1>1 DEF IInv, Sound, Idle
<1>6. Written'
  BY <1>1, <1>2 DEF IInv, Written, At, Idle
<1>7. Recent' /\ Kept'
  BY DEF IInv, Recent, Kept
<1> QED
  BY <1>4, <1>5, <1>6, <1>7 DEF IInv

\* A request begins.
LEMMA BeginStep ==
  ASSUME IInv, FlightsTypeOK', NEW r \in Requests, NEW force \in BOOLEAN, Begin(r, force)
  PROVE  IInv'
<1> DEFINE new == [pc |-> FirstStep(force), force |-> force, since |-> finished,
                   payload |-> 0, excused |-> FALSE]
<1>1. new \in Request
  BY BlankRequest DEF IInv, FlightsTypeOK
<1>2. req' = [req EXCEPT ![r] = new] /\ req'[r] = new
  BY DEF Begin, IInv, FlightsTypeOK
<1>3. r \notin Fetching /\ r \notin Joined
  BY DEF Begin, Fetching, Joined, At, Idle
<1>4. /\ new.pc \in {"redis", "memory", "load"}
      /\ new.pc \in {"redis", "memory"} => ~new.force
      /\ new.pc = "load" => new.force
  BY DEF FirstStep
<1>5. Sound(r)'
  BY <1>2, <1>4 DEF Begin, Sound, Idle, IInv, FlightsTypeOK
<1> HIDE DEF new
<1> QED
  BY <1>1, <1>2, <1>3, <1>4, <1>5, RequestStep DEF Begin

\* The caches answer, or Redis does not; a request ends.
LEMMA CacheStep ==
  ASSUME IInv, FlightsTypeOK', NEW r \in Requests,
         RedisHit(r) \/ RedisMiss(r) \/ MemoryHit(r) \/ Answer(r)
  PROVE  IInv'
<1> DEFINE new == req'[r]
<1>1. new \in Request \cup {None} /\ req' = [req EXCEPT ![r] = new]
  BY DEF RedisHit, RedisMiss, MemoryHit, Answer, IInv, FlightsTypeOK
<1>2. req[r] \in Request /\ req[r] # None /\ Sound(r)
  BY DEF RedisHit, RedisMiss, MemoryHit, Answer, At, Idle, IInv, FlightsTypeOK
<1>3. r \notin Fetching /\ r \notin Joined
  BY DEF RedisHit, RedisMiss, MemoryHit, Answer, Fetching, Joined, At
<1>4. Sound(r)' /\ (new # None => new.pc \in {"memory", "answer"})
  <2>1. CASE RedisHit(r)
    <3>1. redis.payload \in Nat /\ (lost \/ redis.payload >= finished)
      BY <2>1 DEF RedisHit, Fresh, IInv, FlightsTypeOK, Recent, Entry
    <3>2. new = [req[r] EXCEPT !.pc = "answer", !.payload = redis.payload, !.excused = lost]
      BY <2>1 DEF RedisHit, IInv, FlightsTypeOK
    <3>3. ~req[r].force /\ req[r].since <= finished
      BY <2>1, <1>2 DEF RedisHit, Sound, At, Idle
    <3> QED
      BY <2>1, <1>2, <3>1, <3>2, <3>3 DEF Sound, RedisHit, Request, IInv, FlightsTypeOK
  <2>2. CASE RedisMiss(r)
    BY <2>2, <1>2 DEF RedisMiss, Sound, At, Idle, Request, IInv, FlightsTypeOK
  <2>3. CASE MemoryHit(r)
    <3>1. memory.payload \in Nat /\ memory.payload >= finished
      BY <2>3 DEF MemoryHit, Fresh, IInv, FlightsTypeOK, Recent, Entry
    <3>2. new = [req[r] EXCEPT !.pc = "answer", !.payload = memory.payload]
      BY <2>3 DEF MemoryHit, IInv, FlightsTypeOK
    <3>3. ~req[r].force /\ req[r].since <= finished
      BY <2>3, <1>2 DEF MemoryHit, Sound, At, Idle
    <3> QED
      BY <2>3, <1>2, <3>1, <3>2, <3>3 DEF Sound, MemoryHit, Request, IInv, FlightsTypeOK
  <2>4. CASE Answer(r)
    BY <2>4 DEF Answer, Sound, Idle, IInv, FlightsTypeOK
  <2> QED
    BY <2>1, <2>2, <2>3, <2>4
<1>5. UNCHANGED <<useRedis, now, memory, redis, fetches, flying, finished, lost, stored>>
  BY DEF RedisHit, RedisMiss, MemoryHit, Answer
<1> HIDE DEF new
<1> QED
  BY <1>1, <1>3, <1>4, <1>5, RequestStep

\* A request joins the fetch there is, or becomes one; memory keeps its entry
\* or loses one that has expired.
LEMMA LoadStep ==
  ASSUME IInv, FlightsTypeOK', NEW r \in Requests, MemoryMiss(r) \/ LoadForced(r)
  PROVE  IInv'
<1>1. /\ req[r] \in Request /\ ~Idle(r) /\ Sound(r) /\ req[r].pc \in {"memory", "load"}
      /\ UNCHANGED <<useRedis, now, redis, finished, lost, stored>>
  BY DEF MemoryMiss, LoadForced, At, Idle, IInv, FlightsTypeOK
<1>2. memory' = memory \/ (memory' = None /\ ~Fresh(memory))
  BY DEF MemoryMiss, LoadForced
<1>3. PICK pc \in {"join", "provider"} :
        /\ req' = [req EXCEPT ![r].pc = pc]
        /\ pc = "join" => flying # None /\ UNCHANGED <<flying, fetches>>
        /\ pc = "provider" => flying = None /\ flying' = r /\ fetches' = fetches + 1
  BY DEF MemoryMiss, LoadForced, Load
<1>4. /\ \A q \in Requests : q # r => req'[q] = req[q]
      /\ req'[r] = [req[r] EXCEPT !.pc = pc] /\ req'[r] # None
      /\ \A q \in Requests : Idle(q)' <=> Idle(q)
  BY <1>1, <1>3, NoneAssumption DEF IInv, FlightsTypeOK, Idle, Request
<1>5. Fetching' = (IF pc = "provider" THEN Fetching \cup {r} ELSE Fetching)
  BY <1>1, <1>4 DEF Fetching, At, Request
<1>6. OneFetch'
  <2>1. Joined' \subseteq Joined \cup (IF pc = "join" THEN {r} ELSE {})
    BY <1>1, <1>4 DEF Joined, At, Request
  <2> QED
    BY <1>3, <1>5, <2>1, NoneAssumption DEF IInv, OneFetch
<1>7. ASSUME NEW q \in Requests PROVE Sound(q)'
  <2>1. CASE q = r
    BY <2>1, <1>1, <1>4 DEF Sound, Request, Idle
  <2>2. CASE q # r /\ pc = "join"
    BY <2>2, <1>1, <1>3, <1>4 DEF IInv, Sound, Idle
  <2>3. CASE q # r /\ pc = "provider"
    <3>1. q \notin Fetching
      BY <2>3, <1>3 DEF IInv, OneFetch
    <3> QED
      BY <2>3, <3>1, <1>1, <1>4 DEF IInv, Sound, Idle, Fetching, At
  <2> QED
    BY <2>1, <2>2, <2>3
<1>8. Written'
  <2>1. ASSUME NEW q \in Requests, (At(q, "store") \/ At(q, "done"))'
        PROVE  q # r /\ req'[q] = req[q] /\ (At(q, "store") \/ At(q, "done")) /\ pc = "join"
    <3>1. q # r /\ req'[q] = req[q]
      BY <2>1, <1>1, <1>4 DEF At, Request
    <3>2. q \in Fetching
      BY <2>1, <3>1 DEF Fetching, At, Idle
    <3> QED
      BY <2>1, <3>1, <3>2, <1>3 DEF At, Idle, IInv, OneFetch
  <2>2. \A q \in Requests : /\ At(q, "done")' => At(q, "done")
                           /\ At(q, "store")' => At(q, "store")
    BY <2>1 DEF At, Idle
  <2>3. ASSUME NEW q \in Requests
        PROVE  /\ At(q, "store")' => useRedis'
               /\ (At(q, "store") \/ At(q, "done"))' /\ memory' # None =>
                    memory'.payload = fetches'
    BY <2>1, <2>2, <1>1, <1>2, <1>3 DEF IInv, Written
  <2>4. ASSUME NEW q \in Requests, At(q, "done")', redis' # None
        PROVE  lost' \/ redis'.payload = fetches'
    <3>1. At(q, "done") /\ pc = "join"
      BY <2>1, <2>2, <2>4 DEF At, Idle
    <3>2. redis' = redis /\ lost' = lost /\ fetches' = fetches
      BY <3>1, <1>1, <1>3
    <3>3. redis # None => lost \/ redis.payload = fetches
      BY <3>1 DEF IInv, Written
    <3> QED
      BY <2>4, <3>2, <3>3
  <2> QED
    BY <2>3, <2>4, <1>1 DEF IInv, Written
<1>9. Recent'
  BY <1>1, <1>2, <1>3 DEF IInv, Recent, FlightsTypeOK
<1>10. Kept'
  <2>1. CASE memory' = memory
    BY <2>1, <1>1 DEF IInv, Kept
  <2>2. CASE memory' = None /\ ~Fresh(memory) /\ memory # None
    <3>1. memory.expires \in Nat /\ memory.expires <= now
      BY <2>2 DEF Fresh, IInv, FlightsTypeOK, Entry
    <3> QED
      BY <2>2, <3>1, <1>1 DEF IInv, Kept
  <2> QED
    BY <2>1, <2>2, <1>2
<1> QED
  BY <1>6, <1>7, <1>8, <1>9, <1>10 DEF IInv

\* The fetch r is the only one, and r is not idle.
LEMMA TheFetch ==
  ASSUME IInv, NEW r \in Requests, r \in Fetching
  PROVE  /\ flying = r /\ finished < fetches
         /\ req[r] \in Request /\ req[r] # None /\ ~Idle(r) /\ Sound(r)
         /\ \A q \in Requests : q # r => q \notin Fetching
BY NoneAssumption DEF IInv, OneFetch, Recent, Fetching, At, Idle, FlightsTypeOK

\* The provider answers.
LEMMA ProviderStep ==
  ASSUME IInv, FlightsTypeOK', NEW r \in Requests, ProviderAnswers(r)
  PROVE  IInv'
<1>0. r \in Fetching /\ UNCHANGED <<useRedis, now, redis, fetches, flying, finished, lost>>
  BY DEF ProviderAnswers, Fetching
<1>1. /\ flying = r /\ finished < fetches
      /\ req[r] \in Request /\ req[r] # None /\ ~Idle(r) /\ Sound(r)
      /\ \A q \in Requests : q # r => q \notin Fetching
  BY <1>0, TheFetch
<1> DEFINE pc == IF useRedis THEN "store" ELSE "done"
<1>2. /\ \A q \in Requests : q # r => req'[q] = req[q]
      /\ req'[r] = [req[r] EXCEPT !.payload = fetches, !.pc = pc] /\ req'[r] # None
  <2>1. req' = [req EXCEPT ![r] = [req[r] EXCEPT !.payload = fetches, !.pc = pc]]
    BY <1>1 DEF ProviderAnswers, IInv, FlightsTypeOK
  <2>2. req'[r] = [req[r] EXCEPT !.payload = fetches, !.pc = pc]
    BY <2>1 DEF IInv, FlightsTypeOK
  <2>3. fetches \in Nat /\ pc \in {"store", "done"}
    BY DEF IInv, FlightsTypeOK
  <2>4. req'[r] \in Request
    BY <1>1, <2>2, <2>3 DEF Request
  <2> HIDE DEF pc
  <2> QED
    BY <2>1, <2>2, <2>4, NoneAssumption DEF IInv, FlightsTypeOK
<1>3. memory' = [payload |-> fetches, expires |-> now + Ttl] /\ memory' # None /\ stored' = now
  <2>1. [payload |-> fetches, expires |-> now + Ttl] \in Entry
    BY BoundsAssumption DEF Entry, IInv, FlightsTypeOK
  <2> QED
    BY <2>1, NoneAssumption DEF ProviderAnswers, Remembered
<1>4. Fetching' = Fetching /\ Joined' = Joined
  <2>1. ASSUME NEW q \in Requests
        PROVE (q \in Fetching' <=> q \in Fetching) /\ (q \in Joined' <=> q \in Joined)
    <3>1. CASE q = r
      <4>1. req[r].pc = "provider" /\ req'[r].pc \in {"store", "done"}
        BY <1>1, <1>2, ZenonT(40) DEF ProviderAnswers, At, Request
      <4> QED
        BY <3>1, <4>1, <1>1, <1>2 DEF Fetching, Joined, At, Idle
    <3>2. CASE q # r
      BY <3>2, <1>2 DEF Fetching, Joined, At, Idle
    <3> QED
      BY <3>1, <3>2
  <2> QED
    BY <2>1 DEF Fetching, Joined
<1>5. OneFetch'
  BY <1>0, <1>4 DEF IInv, OneFetch
<1>6. ASSUME NEW q \in Requests PROVE Sound(q)'
  <2>1. CASE q # r
    BY <2>1, <1>0, <1>2 DEF IInv, Sound, Idle
  <2>2. CASE q = r
    <3>1. req'[r].since = req[r].since /\ req'[r].payload = fetches /\ req'[r].pc = pc
      BY <1>1, <1>2 DEF Request
    <3>2. req[r].since <= finished
      BY <1>1 DEF Sound
    <3> QED
      BY <2>2, <3>1, <3>2, <1>0 DEF Sound
  <2> QED
    BY <2>1, <2>2
<1>7. Written'
  <2>1. ASSUME NEW q \in Requests, At(q, "done")' PROVE q = r /\ ~useRedis
    BY <2>1, <1>1, <1>2 DEF At, Idle, Fetching, Request
  <2>2. ASSUME NEW q \in Requests, At(q, "store")' PROVE q = r /\ useRedis
    BY <2>2, <1>1, <1>2 DEF At, Idle, Fetching, Request
  <2>3. memory'.payload = fetches
    BY <1>3
  <2> QED
    BY <2>1, <2>2, <2>3, <1>0 DEF IInv, Written
<1>8. Recent'
  BY <1>0, <1>3 DEF IInv, Recent, FlightsTypeOK
<1>9. Kept'
  <2>1. memory'.expires = now + Ttl /\ now \in Nat
    BY <1>3 DEF IInv, FlightsTypeOK
  <2> QED
    BY <1>0, <1>3, <2>1 DEF Kept
<1> QED
  BY <1>5, <1>6, <1>7, <1>8, <1>9 DEF IInv


\* The provider fails: the fetch and all who wait for it are over.
LEMMA FailStep ==
  ASSUME IInv, FlightsTypeOK', NEW r \in Requests, ProviderFails(r)
  PROVE  IInv'
<1>0. r \in Fetching /\ UNCHANGED <<useRedis, now, memory, redis, fetches, finished, lost, stored>>
  BY DEF ProviderFails, Fetching
<1>1. flying = r /\ \A q \in Requests : q # r => q \notin Fetching
  BY <1>0, TheFetch
<1>2. ASSUME NEW q \in Requests
      PROVE  IF q = r \/ q \in Joined THEN req'[q] = None ELSE req'[q] = req[q]
  BY DEF ProviderFails, IInv, FlightsTypeOK
<1>3. flying' = None
  BY <1>1 DEF ProviderFails, Failed
<1>4. Fetching' = {} /\ Joined' = {}
  BY <1>1, <1>2 DEF Fetching, Joined, At, Idle
<1>5. OneFetch'
  BY <1>3, <1>4 DEF OneFetch
<1>6. \A q \in Requests : Sound(q)'
  BY <1>0, <1>2 DEF IInv, Sound, Idle
<1>7. Written'
  <2>1. \A q \in Requests : ~At(q, "store")' /\ ~At(q, "done")'
    BY <1>4 DEF Fetching
  <2> QED
    BY <2>1, <1>0 DEF IInv, Written
<1>8. Recent' /\ Kept'
  BY <1>0, <1>3 DEF IInv, Recent, Kept
<1> QED
  BY <1>5, <1>6, <1>7, <1>8 DEF IInv

\* Redis takes the entry, or does not.
LEMMA StoreStep ==
  ASSUME IInv, FlightsTypeOK', NEW r \in Requests, RedisStore(r) \/ RedisStoreFails(r)
  PROVE  IInv'
<1>0. /\ r \in Fetching /\ req[r].pc = "store"
      /\ UNCHANGED <<useRedis, now, memory, fetches, flying, finished, stored>>
      /\ lost' \/ (redis' = Stored(r) /\ ~lost')
      /\ req' = [req EXCEPT ![r] = [req[r] EXCEPT !.pc = "done"]]
  BY DEF RedisStore, RedisStoreFails, Fetching, At
<1>1. /\ flying = r /\ finished < fetches
      /\ req[r] \in Request /\ req[r] # None /\ ~Idle(r) /\ Sound(r)
      /\ \A q \in Requests : q # r => q \notin Fetching
  BY <1>0, TheFetch
<1>2. /\ \A q \in Requests : q # r => req'[q] = req[q]
      /\ req'[r] = [req[r] EXCEPT !.pc = "done"] /\ req'[r] # None
  <2>1. req'[r] = [req[r] EXCEPT !.pc = "done"]
    BY <1>0 DEF IInv, FlightsTypeOK
  <2>2. req'[r] \in Request
    BY <1>1, <2>1 DEF Request
  <2> QED
    BY <1>0, <2>1, <2>2, NoneAssumption DEF IInv, FlightsTypeOK
<1>3. /\ req'[r].pc = "done" /\ req'[r].since = req[r].since /\ req'[r].payload = fetches
      /\ req[r].since <= finished /\ req[r].payload = fetches
  BY <1>0, <1>1, <1>2 DEF Request, Sound
<1>4. Fetching' = Fetching /\ Joined' = Joined
  <2>1. ASSUME NEW q \in Requests
        PROVE (q \in Fetching' <=> q \in Fetching) /\ (q \in Joined' <=> q \in Joined)
    <3>1. CASE q = r
      BY <3>1, <1>0, <1>1, <1>2, <1>3 DEF Fetching, Joined, At, Idle
    <3>2. CASE q # r
      BY <3>2, <1>2 DEF Fetching, Joined, At, Idle
    <3> QED
      BY <3>1, <3>2
  <2> QED
    BY <2>1 DEF Fetching, Joined
<1>5. OneFetch'
  BY <1>0, <1>4 DEF IInv, OneFetch
<1>6. ASSUME NEW q \in Requests PROVE Sound(q)'
  BY <1>0, <1>2, <1>3 DEF IInv, Sound, Idle
<1>7. Stored(r) # None /\ Stored(r).payload = fetches
  <2>1. Stored(r) \in Entry
    BY <1>1, BoundsAssumption DEF Stored, Request, Entry, IInv, FlightsTypeOK
  <2> QED
    BY <2>1, <1>3, NoneAssumption DEF Stored
<1>8. Written'
  <2>1. useRedis \/ (redis' = redis /\ lost' = lost)
    <3>1. useRedis \/ ~At(r, "store")
      BY DEF IInv, Written
    <3> QED
      BY <3>1, <1>0, <1>1 DEF At
  <2>2. ASSUME NEW q \in Requests, At(q, "store")' \/ At(q, "done")' PROVE q = r
    BY <2>2, <1>4, <1>1 DEF Fetching
  <2>3. ~At(r, "store")' /\ (memory # None => memory.payload = fetches)
    BY <1>0, <1>1, <1>3 DEF At, IInv, Written
  <2>4. lost' \/ redis' = None \/ redis'.payload = fetches
    BY <1>0, <1>7
  <2>5. ~useRedis => redis' = None /\ ~lost'
    BY <2>1, <1>0, <1>1, <1>7 DEF IInv, Written
  <2> QED
    BY <2>2, <2>3, <2>4, <2>5, <1>0 DEF Written
<1>9. Recent'
  BY <1>0, <1>1, <1>7 DEF IInv, Recent, FlightsTypeOK
<1>10. Kept'
  BY <1>0 DEF IInv, Kept
<1> QED
  BY <1>5, <1>6, <1>8, <1>9, <1>10 DEF IInv

\* The fetch is over: who waits for it is answered with it.
LEMMA SettleStep ==
  ASSUME IInv, FlightsTypeOK', NEW r \in Requests, Settle(r)
  PROVE  IInv'
<1>0. /\ r \in Fetching /\ ~Idle(r) /\ req[r].pc = "done"
      /\ UNCHANGED <<useRedis, now, memory, redis, fetches, lost, stored>>
  BY DEF Settle, Fetching, At
<1>1. /\ flying = r /\ finished < fetches /\ req[r] \in Request /\ Sound(r)
      /\ \A q \in Requests : q # r => q \notin Fetching
  BY <1>0, TheFetch
<1>2. req[r].payload = fetches /\ finished' = fetches /\ flying' = None
  BY <1>0, <1>1 DEF Settle, Sound
<1>3. ASSUME NEW q \in Requests, q = r \/ q \in Joined
      PROVE  /\ req'[q] = [req[q] EXCEPT !.pc = "answer", !.payload = fetches]
             /\ req[q] \in Request /\ Sound(q) /\ ~Idle(q)
  BY <1>0, <1>1, <1>2, <1>3 DEF Settle, Joined, At, Idle, IInv, FlightsTypeOK
<1>4. ASSUME NEW q \in Requests, q # r, q \notin Joined
      PROVE  req'[q] = req[q]
  BY <1>4 DEF Settle
<1>5. ASSUME NEW q \in Requests, q = r \/ q \in Joined
      PROVE  req'[q].pc = "answer" /\ Sound(q)'
  <2>1. /\ req'[q].pc = "answer" /\ req'[q].payload = fetches
        /\ req'[q].since = req[q].since /\ req[q].since \in Nat /\ req[q].since <= finished
    BY <1>3, <1>5 DEF Request, Sound
  <2> QED
    BY <2>1, <1>0, <1>1, <1>2 DEF Sound, IInv, FlightsTypeOK
<1>6. Fetching' = {} /\ Joined' = {}
  <2>1. ASSUME NEW q \in Requests PROVE q \notin Fetching' /\ q \notin Joined'
    <3>1. CASE q = r \/ q \in Joined
      BY <3>1, <1>5 DEF Fetching, Joined, At
    <3>2. CASE q # r /\ q \notin Joined
      BY <3>2, <1>1, <1>4 DEF Fetching, Joined, At, Idle
    <3> QED
      BY <3>1, <3>2
  <2> QED
    BY <2>1 DEF Fetching, Joined
<1>7. OneFetch'
  BY <1>2, <1>6 DEF OneFetch
<1>8. ASSUME NEW q \in Requests PROVE Sound(q)'
  <2>1. CASE q = r \/ q \in Joined
    BY <2>1, <1>5
  <2>2. CASE q # r /\ q \notin Joined
    <3>1. ~Idle(q) => req[q].since \in Nat
      BY DEF Idle, Request, IInv, FlightsTypeOK
    <3> QED
      BY <2>2, <3>1, <1>0, <1>1, <1>2, <1>4 DEF IInv, FlightsTypeOK, Sound, Idle
  <2> QED
    BY <2>1, <2>2
<1>9. Written'
  <2>1. \A q \in Requests : ~At(q, "store")' /\ ~At(q, "done")'
    BY <1>6 DEF Fetching
  <2> QED
    BY <2>1, <1>0 DEF IInv, Written
<1>10. Recent' /\ Kept'
  <2>1. /\ memory # None => memory.payload = fetches
        /\ redis # None => lost \/ redis.payload = fetches
    BY <1>0, <1>1 DEF IInv, Written, At
  <2> QED
    BY <2>1, <1>0, <1>2 DEF IInv, Recent, Kept, FlightsTypeOK
<1> QED
  BY <1>7, <1>8, <1>9, <1>10 DEF IInv

\* Time passes; the server restarts.
LEMMA ServerStep ==
  ASSUME IInv, FlightsTypeOK', Tick \/ Crash
  PROVE  IInv'
<1>1. CASE Tick
  <2>1. Kept'
    BY <1>1, BoundsAssumption DEF Tick, IInv, Kept, FlightsTypeOK
  <2>2. OneFetch' /\ (\A r \in Requests : Sound(r)') /\ Written' /\ Recent'
    BY <1>1 DEF Tick, IInv, OneFetch, Fetching, Joined, Sound, Written, Recent, At, Idle
  <2> QED
    BY <2>1, <2>2 DEF IInv
<1>2. CASE Crash
  <2>1. \A r \in Requests : Idle(r)'
    BY <1>2 DEF Crash, Idle
  <2>2. OneFetch' /\ (\A r \in Requests : Sound(r)') /\ Written'
    BY <1>2, <2>1 DEF Crash, IInv, OneFetch, Fetching, Joined, Sound, Written, At
  <2>3. Recent' /\ Kept'
    BY <1>2 DEF Crash, IInv, Recent, Kept
  <2> QED
    BY <2>2, <2>3 DEF IInv
<1> QED
  BY <1>1, <1>2

\* Every step keeps the invariant.
LEMMA StepInvariant == IInv /\ [Next]_flightVars => IInv'
<1> SUFFICES ASSUME IInv, [Next]_flightVars PROVE IInv'
  OBVIOUS
<1>0. FlightsTypeOK'
  BY StepTypes DEF IInv
<1>1. CASE UNCHANGED flightVars
  BY <1>1, <1>0 DEF flightVars, IInv, OneFetch, Fetching, Joined, Sound, Written, Recent,
                    Kept, At, Idle
<1>2. ASSUME NEW r \in Requests, Proceed(r) PROVE IInv'
  BY <1>0, <1>2, CacheStep, LoadStep, ProviderStep, FailStep, StoreStep, SettleStep
     DEF Proceed
<1>3. ASSUME NEW r \in Requests, NEW force \in BOOLEAN, Begin(r, force) PROVE IInv'
  BY <1>0, <1>3, BeginStep
<1>4. CASE Tick \/ Crash
  BY <1>0, <1>4, ServerStep
<1> QED
  BY <1>1, <1>2, <1>3, <1>4 DEF Next

(***************************************************************************)
(* The theorems.                                                           *)
(***************************************************************************)

\* The invariant holds in every reachable state.
THEOREM Invariance == FlightsSpec => []IInv
BY InitInvariant, StepInvariant, PTL DEF FlightsSpec

\* The state of the flight caches and of the requests has its types.
THEOREM TypeCorrect == FlightsSpec => []FlightsTypeOK
<1>1. IInv => FlightsTypeOK
  BY DEF IInv
<1> QED
  BY <1>1, Invariance, PTL

\* inFlightRequests: at most one fetch at a time, and nobody waits for one that
\* is over.
THEOREM FetchesAreShared == FlightsSpec => []OneFetch
<1>1. IInv => OneFetch
  BY DEF IInv
<1> QED
  BY <1>1, Invariance, PTL

\* forceRefresh: the answer comes from a fetch that had not ended when it was asked
\* for.
THEOREM ForcedAnswersAreFresh == FlightsSpec => []ForcedIsFresh
<1>1. IInv => ForcedIsFresh
  BY DEF IInv, Sound, ForcedIsFresh, At
<1> QED
  BY <1>1, Invariance, PTL

\* Nobody is answered with flights older than those there were when he asked,
\* unless a write to Redis failed.
THEOREM AnswersNeverAge == FlightsSpec => []NeverOlder
<1>1. IInv => NeverOlder
  BY DEF IInv, Sound, NeverOlder, At
<1> QED
  BY <1>1, Invariance, PTL

\* No fetch that nobody has forced begins while the server's last one is fresh.
THEOREM FetchesAreSpaced == FlightsSpec => FetchesSpaced
<1> DEFINE Begins(r) == At(r, "provider")' /\ ~At(r, "provider") /\ ~req[r].force
           Due == stored = -1 \/ now >= stored + Ttl
<1>1. IInv /\ [Next]_flightVars => [\A r \in Requests : Begins(r) => Due]_flightVars
  <2> SUFFICES ASSUME IInv, Next, NEW r \in Requests, Begins(r) PROVE Due
    OBVIOUS
  <2>1. r \in Requests /\ req \in [Requests -> Request \cup {None}]
    BY DEF IInv, FlightsTypeOK
  <2>2. ASSUME NEW q \in Requests, NEW force \in BOOLEAN, Begin(q, force) PROVE FALSE
    BY <2>1, <2>2 DEF Begin, FirstStep, At, Idle
  <2>3. ASSUME NEW q \in Requests, RedisHit(q) \/ RedisMiss(q) \/ MemoryHit(q) \/ Answer(q)
        PROVE FALSE
    BY <2>1, <2>3 DEF RedisHit, RedisMiss, MemoryHit, Answer, At, Idle, Request
  <2>4. ASSUME NEW q \in Requests,
               ProviderAnswers(q) \/ RedisStore(q) \/ RedisStoreFails(q)
        PROVE FALSE
    BY <2>1, <2>4 DEF ProviderAnswers, RedisStore, RedisStoreFails, At, Idle, Request
  <2>5. ASSUME NEW q \in Requests, ProviderFails(q) \/ Settle(q) PROVE FALSE
    <3>1. CASE r = q \/ r \in Joined
      BY <2>1, <2>5, <3>1 DEF ProviderFails, Settle, Joined, At, Idle, Request
    <3>2. CASE r # q /\ r \notin Joined
      BY <2>1, <2>5, <3>2 DEF ProviderFails, Settle, At, Idle
    <3> QED
      BY <3>1, <3>2
  <2>6. ~Tick /\ ~Crash
    BY DEF Tick, Crash, At, Idle
  <2>7. ASSUME NEW q \in Requests, LoadForced(q) PROVE FALSE
    <3>1. CASE q = r
      BY <2>7, <3>1 DEF LoadForced, IInv, Sound, At
    <3>2. CASE q # r
      BY <2>1, <2>7, <3>2 DEF LoadForced, Load, At, Idle
    <3> QED
      BY <3>1, <3>2
  <2>8. PICK q \in Requests : MemoryMiss(q)
    BY <2>2, <2>3, <2>4, <2>5, <2>6, <2>7 DEF Next, Proceed
  <2>9. ~Fresh(memory)
    BY <2>8 DEF MemoryMiss
  <2> QED
    BY <2>9, BoundsAssumption DEF IInv, Kept, Fresh, FlightsTypeOK, Entry
<1> QED
  BY <1>1, Invariance, PTL DEF FlightsSpec, FetchesSpaced

=============================================================================
