---------------------------- MODULE FlightsCache ----------------------------
(***************************************************************************)
(* The active flights of one station (flights.service.ts): a cache in      *)
(* Redis, one in the memory of the server, and fetches from the provider   *)
(* that requests share.  Redis calls and the provider's answer are awaited *)
(* and may fail; between two awaits a request runs without interruption.   *)
(* Fetches are numbered; a payload is the number of its fetch.             *)
(***************************************************************************)
EXTENDS FiniteSets, Integers

CONSTANTS
  Requests,   \* slots for requests in flight
  Ttl,        \* time an entry stays in the caches
  MaxTime,    \* bound: time
  MaxFetches, \* bound: fetches
  None        \* no entry, no fetch, no request

ASSUME BoundsAssumption ==
  /\ Ttl \in Nat \ {0}
  /\ MaxTime \in Nat
  /\ MaxFetches \in Nat

VARIABLES
  useRedis,   \* redis.enabled
  now,
  memory,     \* memoryCache
  redis,      \* entry in Redis
  fetches,    \* fetches begun
  flying,     \* inFlightRequests: the request that fetches
  req,        \* requests in flight
  finished,   \* history: the last fetch that was finished
  lost,       \* history: the last write to Redis failed
  stored      \* history: when the server last wrote its memory

flightVars == <<useRedis, now, memory, redis, fetches, flying, req, finished, lost, stored>>

Entry == [payload : Nat, expires : Nat]

Request ==
  [pc : {"redis", "memory", "load", "join", "provider", "store", "done", "answer"},
   force : BOOLEAN,     \* forceRefresh
   since : Nat,         \* the last fetch finished when the request began
   payload : Nat,     \* what it answers with, 0 for nothing yet
   excused : BOOLEAN]   \* history: it read Redis after a write had failed

ASSUME NoneAssumption == None \notin Requests /\ None \notin Entry /\ None \notin Request

FlightsTypeOK ==
  /\ useRedis \in BOOLEAN
  /\ now \in Nat
  /\ memory \in Entry \cup {None}
  /\ redis \in Entry \cup {None}
  /\ fetches \in Nat
  /\ flying \in Requests \cup {None}
  /\ req \in [Requests -> Request \cup {None}]
  /\ finished \in Nat
  /\ lost \in BOOLEAN
  /\ stored \in Nat \cup {-1}

FlightsInit ==
  /\ useRedis \in BOOLEAN
  /\ now = 0
  /\ memory = None
  /\ redis = None
  /\ fetches = 0
  /\ flying = None
  /\ req = [r \in Requests |-> None]
  /\ finished = 0
  /\ lost = FALSE
  /\ stored = -1

Idle(r)    == req[r] = None
At(r, pc)  == ~Idle(r) /\ req[r].pc = pc
InFlight   == {r \in Requests : ~Idle(r)}
Fetching   == {r \in Requests : At(r, "provider") \/ At(r, "store") \/ At(r, "done")}
Joined     == {r \in Requests : At(r, "join")}
Fresh(e)   == e # None /\ e.expires > now

\* Mutant: forceRefresh is ignored where Redis is used.
FirstStepCached(force) ==
  IF useRedis THEN "redis" ELSE IF force THEN "load" ELSE "memory"
FirstStep(force) == IF force THEN "load" ELSE IF useRedis THEN "redis" ELSE "memory"

\* getActiveFlightsForStation.
Begin(r, force) ==
  /\ Idle(r)
  /\ fetches + Cardinality(InFlight) < MaxFetches
  /\ req' = [req EXCEPT ![r] =
       [pc |-> FirstStep(force), force |-> force, since |-> finished, payload |-> 0,
        excused |-> FALSE]]
  /\ UNCHANGED <<useRedis, now, memory, redis, fetches, flying, finished, lost, stored>>

\* getCachedFlights: Redis first, which drops its entry in time.
RedisHit(r) ==
  /\ At(r, "redis")
  /\ Fresh(redis)
  /\ req' = [req EXCEPT ![r].pc = "answer", ![r].payload = redis.payload,
                        ![r].excused = lost]
  /\ UNCHANGED <<useRedis, now, memory, redis, fetches, flying, finished, lost, stored>>

\* There is no entry, or the read fails.
RedisMiss(r) ==
  /\ At(r, "redis")
  /\ req' = [req EXCEPT ![r].pc = "memory"]
  /\ UNCHANGED <<useRedis, now, memory, redis, fetches, flying, finished, lost, stored>>

MemoryHit(r) ==
  /\ At(r, "memory")
  /\ Fresh(memory)
  /\ req' = [req EXCEPT ![r].pc = "answer", ![r].payload = memory.payload]
  /\ UNCHANGED <<useRedis, now, memory, redis, fetches, flying, finished, lost, stored>>

\* Mutant: no fetch is shared.
LoadAlone(r) ==
  /\ req' = [req EXCEPT ![r].pc = "provider"]
  /\ flying' = r
  /\ fetches' = fetches + 1

\* loadFreshFlights: wait for the fetch there is, or begin one.
Load(r) ==
  IF flying # None
    THEN /\ req' = [req EXCEPT ![r].pc = "join"]
         /\ UNCHANGED <<flying, fetches>>
    ELSE /\ req' = [req EXCEPT ![r].pc = "provider"]
         /\ flying' = r
         /\ fetches' = fetches + 1

\* No entry, or one that has expired and is deleted.
MemoryMiss(r) ==
  /\ At(r, "memory")
  /\ ~Fresh(memory)
  /\ memory' = None
  /\ Load(r)
  /\ UNCHANGED <<useRedis, now, redis, finished, lost, stored>>

LoadForced(r) ==
  /\ At(r, "load")
  /\ Load(r)
  /\ UNCHANGED <<useRedis, now, memory, redis, finished, lost, stored>>

\* Mutant: memory serves only without Redis.
RememberedWithoutRedis(f) ==
  IF useRedis THEN memory ELSE [payload |-> f, expires |-> now + Ttl]
Remembered(f) == [payload |-> f, expires |-> now + Ttl]

\* The provider answers: normalizeFlights, and setCachedFlights writes memory.
ProviderAnswers(r) ==
  /\ At(r, "provider")
  /\ req' = [req EXCEPT ![r].payload = fetches,
                        ![r].pc = IF useRedis THEN "store" ELSE "done"]
  /\ memory' = Remembered(fetches)
  /\ stored' = now
  /\ UNCHANGED <<useRedis, now, redis, fetches, flying, finished, lost>>

\* Mutant: a fetch that failed stays in flight.
FailedStays(r) == flying
Failed(r) == IF flying = r THEN None ELSE flying

\* An error, an invalid answer or a timeout: everybody who waits fails.
ProviderFails(r) ==
  /\ At(r, "provider")
  /\ req' = [q \in Requests |-> IF q = r \/ q \in Joined THEN None ELSE req[q]]
  /\ flying' = Failed(r)
  /\ UNCHANGED <<useRedis, now, memory, redis, fetches, finished, lost, stored>>

\* Mutant: Redis keeps the entry it has.
StoredIfAbsent(r) ==
  IF Fresh(redis) THEN redis ELSE [payload |-> req[r].payload, expires |-> now + Ttl]
Stored(r) == [payload |-> req[r].payload, expires |-> now + Ttl]

RedisStore(r) ==
  /\ At(r, "store")
  /\ redis' = Stored(r)
  /\ lost' = FALSE
  /\ req' = [req EXCEPT ![r].pc = "done"]
  /\ UNCHANGED <<useRedis, now, memory, fetches, flying, finished, stored>>

RedisStoreFails(r) ==
  /\ At(r, "store")
  /\ lost' = TRUE
  /\ req' = [req EXCEPT ![r].pc = "done"]
  /\ UNCHANGED <<useRedis, now, memory, redis, fetches, flying, finished, stored>>

\* The promise is settled: the fetch is over for all who wait.
Settle(r) ==
  /\ At(r, "done")
  /\ req' = [q \in Requests |->
       IF q = r \/ q \in Joined
         THEN [req[q] EXCEPT !.pc = "answer", !.payload = req[r].payload]
         ELSE req[q]]
  /\ flying' = IF flying = r THEN None ELSE flying
  /\ finished' = req[r].payload
  /\ UNCHANGED <<useRedis, now, memory, redis, fetches, lost, stored>>

Answer(r) ==
  /\ At(r, "answer")
  /\ req' = [req EXCEPT ![r] = None]
  /\ UNCHANGED <<useRedis, now, memory, redis, fetches, flying, finished, lost, stored>>

Tick ==
  /\ now < MaxTime
  /\ now' = now + 1
  /\ UNCHANGED <<useRedis, memory, redis, fetches, flying, req, finished, lost, stored>>

\* The server restarts with empty memory.
Crash ==
  /\ req' = [r \in Requests |-> None]
  /\ memory' = None
  /\ flying' = None
  /\ stored' = -1
  /\ UNCHANGED <<useRedis, now, redis, fetches, finished, lost>>

Proceed(r) ==
  \/ RedisHit(r) \/ RedisMiss(r) \/ MemoryHit(r) \/ MemoryMiss(r) \/ LoadForced(r)
  \/ ProviderAnswers(r) \/ ProviderFails(r)
  \/ RedisStore(r) \/ RedisStoreFails(r) \/ Settle(r) \/ Answer(r)

Next ==
  \/ \E r \in Requests : Proceed(r) \/ \E force \in BOOLEAN : Begin(r, force)
  \/ Tick \/ Crash

\* Every await ends: the provider's after its timeout, Redis's after one retry.
FlightsSpec == FlightsInit /\ [][Next]_flightVars /\ \A r \in Requests : WF_flightVars(Proceed(r))

(***************************************************************************)
(* Properties.                                                             *)
(***************************************************************************)

\* inFlightRequests: the provider is asked once at a time, and who waits waits for
\* a fetch that is still to end.
OneFetch ==
  /\ Fetching = (IF flying = None THEN {} ELSE {flying})
  /\ Joined # {} => flying # None

\* forceRefresh passes over the caches: its answer comes from a fetch that had not
\* ended when it was asked for.
ForcedIsFresh ==
  \A r \in Requests : At(r, "answer") /\ req[r].force => req[r].payload > req[r].since

\* Nobody is answered with older flights than were there when he asked, unless
\* Redis holds an older entry because the last write failed.
NeverOlder ==
  \A r \in Requests :
    At(r, "answer") => req[r].payload >= req[r].since \/ req[r].excused

\* 'reuse the backend cache for about 5 minutes instead of calling RapidAPI every
\* time', with Redis or without: no fetch that nobody has forced begins while the
\* server's last one is fresh.
FetchesSpaced ==
  [][\A r \in Requests :
       At(r, "provider")' /\ ~At(r, "provider") /\ ~req[r].force
         => stored = -1 \/ now >= stored + Ttl]_flightVars

\* Every request is answered or fails, also one that waits for another's fetch.
RequestsEnd == \A r \in Requests : ~Idle(r) ~> Idle(r)

=============================================================================
