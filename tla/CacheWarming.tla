---------------------------- MODULE CacheWarming ----------------------------
(***************************************************************************)
(* The cached list of examples (mx-portfolio-pilot-service): API processes *)
(* read it through two caches, the memory of the process and Redis, filled *)
(* on a miss (example.service.ts); the cache warmer writes the list of its *)
(* own build into Redis every minute and publishes a deletion, on which    *)
(* every process drops its copy (warmer.service.ts, pub.sub.listener).     *)
(*                                                                         *)
(* The list is a literal of the code, so it changes when a process is      *)
(* redeployed, and a rolling deployment has two lists alive at once. An    *)
(* API process serves requests before it listens to events, and misses     *)
(* what is published until then.                                           *)
(* Redis, its pub/sub and the CacheService of the SDK are external.        *)
(***************************************************************************)
EXTENDS Naturals

CONSTANTS
    Apis,       \* API processes, each with at most one request under way
    Warmer,     \* the cache warmer process
    MaxBuild,   \* bound on deployments
    MaxFaults,  \* bound on lost messages and failed writes
    NoValue     \* an empty cache

Processes == Apis \cup {Warmer}
Builds == 1..MaxBuild

ASSUME WarmingAssumption ==
    /\ Warmer \notin Apis
    /\ MaxBuild \in Nat \ {0}
    /\ MaxFaults \in Nat
    /\ NoValue \notin Nat

VARIABLES
    build,      \* the build each process runs, which is also its list
    remote,     \* the list in Redis, or NoValue
    local,      \* the list in the memory of each API process, or NoValue
    request,    \* the getOrSet under way in each API process
    warming,    \* the list the warmer is writing to Redis, or NoValue
    emitting,   \* a deleteCacheKeys event on its way to Redis
    listening,  \* API processes subscribed to events
    inbox,      \* API processes an event has yet to reach
    faults

vars == <<build, remote, local, request, warming, emitting, listening, inbox, faults>>

NoRequest == [pc |-> "idle", value |-> NoValue]

Init ==
    /\ build \in [Processes -> {1}]
    /\ remote = NoValue
    /\ local = [api \in Apis |-> NoValue]
    /\ request = [api \in Apis |-> NoRequest]
    /\ warming = NoValue
    /\ emitting = FALSE
    /\ listening = {}
    /\ inbox = {}
    /\ faults = 0

\* Mutant: the warmer has a copy of the list of its own, which nobody keeps up.
StaleList(process) == IF process = Warmer THEN 1 ELSE build[process]

\* The list as this build has it.
GetAllExamplesRaw(process) == build[process]

-----------------------------------------------------------------------------
(***************************************************************************)
(* getAllExamples: getOrSet looks in memory, then in Redis, then at the    *)
(* code, and fills what it found empty on the way back. A hit in memory    *)
(* changes nothing.                                                        *)
(***************************************************************************)
GetAllExamples(api) ==
    /\ request[api].pc = "idle"
    /\ local[api] = NoValue
    /\ request' = [request EXCEPT ![api].pc = "fetch"]
    /\ UNCHANGED <<build, remote, local, warming, emitting, listening, inbox, faults>>

\* Mutant: a hit in Redis written back.
FetchToWriteBack(api) ==
    /\ request[api].pc = "fetch"
    /\ request' = [request EXCEPT ![api] =
          [pc |-> "write",
           value |-> IF remote = NoValue THEN GetAllExamplesRaw(api) ELSE remote]]
    /\ UNCHANGED <<build, remote, local, warming, emitting, listening, inbox, faults>>

FetchRemote(api) ==
    /\ request[api].pc = "fetch"
    /\ \/ /\ remote # NoValue
          /\ request' = [request EXCEPT ![api] = [pc |-> "store", value |-> remote]]
       \/ /\ remote = NoValue
          /\ request' = [request EXCEPT ![api] =
                [pc |-> "write", value |-> GetAllExamplesRaw(api)]]
    /\ UNCHANGED <<build, remote, local, warming, emitting, listening, inbox, faults>>

WriteRemote(api) ==
    /\ request[api].pc = "write"
    /\ remote' = request[api].value
    /\ request' = [request EXCEPT ![api].pc = "store"]
    /\ UNCHANGED <<build, local, warming, emitting, listening, inbox, faults>>

StoreLocal(api) ==
    /\ request[api].pc = "store"
    /\ local' = [local EXCEPT ![api] = request[api].value]
    /\ request' = [request EXCEPT ![api] = NoRequest]
    /\ UNCHANGED <<build, remote, warming, emitting, listening, inbox, faults>>

-----------------------------------------------------------------------------
\* Mutant: the event forgotten.
SetWithoutEvent ==
    /\ warming = NoValue
    /\ warming' = GetAllExamplesRaw(Warmer)
    /\ UNCHANGED <<build, remote, local, request, emitting, listening, inbox, faults>>

\* The cron tick. The lock keeps a tick out while the one before is writing; the
\* write and the event start together, and nobody waits for the event.
HandleExampleInvalidations ==
    /\ warming = NoValue
    /\ warming' = GetAllExamplesRaw(Warmer)
    /\ emitting' = TRUE
    /\ UNCHANGED <<build, remote, local, request, listening, inbox, faults>>

SetKey ==
    /\ warming # NoValue
    /\ remote' = warming
    /\ warming' = NoValue
    /\ UNCHANGED <<build, local, request, emitting, listening, inbox, faults>>

\* The event goes to the processes that listen. To the ones that have not handled
\* the one before it adds nothing: both delete the same key.
EmitDeleteCacheKeys ==
    /\ emitting
    /\ emitting' = FALSE
    /\ inbox' = listening
    /\ UNCHANGED <<build, remote, local, request, warming, listening, faults>>

\* The last thing an API process does when it starts, and again when it has lost the
\* connection; nobody waits for it.
Subscribe(api) ==
    /\ api \notin listening
    /\ listening' = listening \cup {api}
    /\ UNCHANGED <<build, remote, local, request, warming, emitting, inbox, faults>>

DeleteCacheKey(api) ==
    /\ api \in inbox
    /\ local' = [local EXCEPT ![api] = NoValue]
    /\ inbox' = inbox \ {api}
    /\ UNCHANGED <<build, remote, request, warming, emitting, listening, faults>>

-----------------------------------------------------------------------------
\* The ttl runs out, here or in Redis.
ExpireLocal(api) ==
    /\ local[api] # NoValue
    /\ local' = [local EXCEPT ![api] = NoValue]
    /\ UNCHANGED <<build, remote, request, warming, emitting, listening, inbox, faults>>

ExpireRemote ==
    /\ remote # NoValue
    /\ remote' = NoValue
    /\ UNCHANGED <<build, local, request, warming, emitting, listening, inbox, faults>>

\* A process is stopped wherever it is and started again, on this build or a
\* newer one. Its memory is gone, and so is what it had under way.
Redeploy(process, next) ==
    /\ next >= build[process]
    /\ build' = [build EXCEPT ![process] = next]
    /\ IF process = Warmer
       THEN /\ warming' = NoValue
            /\ emitting' = FALSE
            /\ UNCHANGED <<local, request, listening, inbox>>
       ELSE /\ local' = [local EXCEPT ![process] = NoValue]
            /\ request' = [request EXCEPT ![process] = NoRequest]
            /\ listening' = listening \ {process}
            /\ inbox' = inbox \ {process}
            /\ UNCHANGED <<warming, emitting>>
    /\ UNCHANGED remote

\* Redis fails: the write of a refresh is refused, which the lock logs and ends,
\* an event is lost on the way to Redis, a subscription with the events it has yet to
\* bring, or a request ends in an error.
Fault ==
    /\ \/ warming # NoValue /\ warming' = NoValue
          /\ UNCHANGED <<emitting, listening, inbox, request>>
       \/ emitting /\ emitting' = FALSE
          /\ UNCHANGED <<warming, listening, inbox, request>>
       \/ \E api \in listening : /\ listening' = listening \ {api}
                                 /\ inbox' = inbox \ {api}
          /\ UNCHANGED <<warming, emitting, request>>
       \/ \E api \in Apis :
             /\ request[api].pc \in {"fetch", "write"}
             /\ request' = [request EXCEPT ![api] = NoRequest]
             /\ UNCHANGED <<warming, emitting, listening, inbox>>
    /\ UNCHANGED <<build, remote, local>>

Disturbance ==
    /\ faults < MaxFaults
    /\ faults' = faults + 1
    /\ \/ Fault
       \/ \E process \in Processes, next \in Builds : Redeploy(process, next)

Next ==
    \/ \E api \in Apis :
          \/ GetAllExamples(api) \/ FetchRemote(api) \/ WriteRemote(api)
          \/ StoreLocal(api) \/ Subscribe(api) \/ DeleteCacheKey(api) \/ ExpireLocal(api)
    \/ HandleExampleInvalidations \/ SetKey \/ EmitDeleteCacheKeys
    \/ ExpireRemote
    \/ Disturbance

\* The cron fires again and again, commands reach Redis and messages their
\* listeners. Nothing is assumed of requests or of the ttl.
Spec ==
    /\ Init /\ [][Next]_vars
    /\ WF_vars(HandleExampleInvalidations)
    /\ WF_vars(SetKey)
    /\ WF_vars(EmitDeleteCacheKeys)
    /\ \A api \in Apis : WF_vars(Subscribe(api)) /\ WF_vars(DeleteCacheKey(api))

-----------------------------------------------------------------------------
TypeOK ==
    /\ build \in [Processes -> Builds]
    /\ remote \in Builds \cup {NoValue}
    /\ local \in [Apis -> Builds \cup {NoValue}]
    /\ request \in [Apis -> [pc : {"write", "store"}, value : Builds]
                             \cup [pc : {"idle", "fetch"}, value : {NoValue}]]
    /\ warming \in Builds \cup {NoValue}
    /\ emitting \in BOOLEAN
    /\ inbox \subseteq listening /\ listening \subseteq Apis
    /\ faults \in 0..MaxFaults

Settled(newest) ==
    /\ \A process \in Processes : build[process] = newest
    /\ warming \in {newest, NoValue}

\* Once a deployment is through and Redis has the new list, no request that read
\* the old one, before or after it was replaced, brings it back into Redis.
RedisStaysInSync ==
    [][\A newest \in Builds :
          (Settled(newest) /\ remote = newest) => remote' \in {newest, NoValue}]_vars

\* A deployment that reaches every process reaches every cache, for good, whatever
\* requests, ttls and restarts do in the meantime. One refresh is not enough: it
\* writes and deletes at the same time (warmer.service.ts:26-29), and a process
\* that deletes first refills its memory with the old list.
CachesConverge ==
    \A newest \in Builds :
        (<>[]\A process \in Processes : build[process] = newest)
            => <>[](/\ remote \in {newest, NoValue}
                    /\ \A api \in Apis : local[api] \in {newest, NoValue})

-----------------------------------------------------------------------------
\* The lists somebody may still come upon: of running builds, in caches, under way.
ListsAbout ==
    ({build[process] : process \in Processes}
        \cup {local[api] : api \in Apis} \cup {request[api].value : api \in Apis}
        \cup {remote, warming}) \ {NoValue}

Served == INSTANCE ServedLists WITH Builds <- Builds, live <- ListsAbout

\* The caches implement ServedLists: no request, refresh, expiry or restart brings back a
\* list older than everything that is about.
ImplementsServedLists == Served!Spec
=============================================================================
