------------------------- MODULE CacheWarmingProofs -------------------------
(***************************************************************************)
(* For any number of API processes, deployments and failures: Redis keeps  *)
(* the newest list once a deployment is through, and the caches implement  *)
(* ServedLists, that is, they never bring back a list that has gone.       *)
(***************************************************************************)
EXTENDS CacheWarming, TLAPS

Requests == [pc : {"write", "store"}, value : Builds]
               \cup [pc : {"idle", "fetch"}, value : {NoValue}]

\* What a request is about to write is of the build that runs it: it does not outlive a
\* restart.
WritesOwnList == \A api \in Apis : request[api].pc = "write" => request[api].value = build[api]

Inv == TypeOK /\ WritesOwnList

LEMMA InitInv == Init => Inv
<1>1. 1 \in Builds /\ 0 \in 0..MaxFaults
  BY WarmingAssumption DEF Builds
<1>2. NoRequest \in Requests
  BY DEF NoRequest, Requests
<1>. QED BY <1>1, <1>2 DEF Init, Inv, TypeOK, WritesOwnList, NoRequest, Requests

-----------------------------------------------------------------------------
\* The steps of a request.
LEMMA RequestStep ==
    ASSUME Inv, NEW api \in Apis,
           GetAllExamples(api) \/ FetchRemote(api) \/ WriteRemote(api) \/ StoreLocal(api)
    PROVE  Inv'
<1>1. /\ request \in [Apis -> Requests] /\ api \in Processes /\ build[api] \in Builds
      /\ remote \in Builds \cup {NoValue}
  BY DEF Inv, TypeOK, Requests, Processes
<1>2. CASE GetAllExamples(api)
  <2>1. [request[api] EXCEPT !.pc = "fetch"] \in Requests
    BY <1>1, <1>2 DEF GetAllExamples, Requests
  <2>2. request' \in [Apis -> Requests]
    BY <1>1, <1>2, <2>1 DEF GetAllExamples
  <2>3. WritesOwnList'
    BY <1>1, <1>2 DEF Inv, WritesOwnList, GetAllExamples
  <2>. QED BY <1>2, <2>2, <2>3 DEF GetAllExamples, Inv, TypeOK, Requests
<1>3. CASE FetchRemote(api)
  <2>1. PICK r \in Requests : /\ request' = [request EXCEPT ![api] = r]
                              /\ r.pc = "write" => r.value = build[api]
    BY <1>1, <1>3 DEF FetchRemote, GetAllExamplesRaw, Requests
  <2>2. request' \in [Apis -> Requests] /\ WritesOwnList'
    BY <1>1, <1>3, <2>1 DEF Inv, WritesOwnList, FetchRemote
  <2>. QED BY <1>3, <2>2 DEF FetchRemote, Inv, TypeOK, Requests
<1>4. CASE WriteRemote(api)
  <2>1. request[api].value \in Builds /\ [request[api] EXCEPT !.pc = "store"] \in Requests
    BY <1>1, <1>4 DEF WriteRemote, Requests
  <2>2. request' \in [Apis -> Requests] /\ remote' \in Builds
    BY <1>1, <1>4, <2>1 DEF WriteRemote
  <2>3. WritesOwnList'
    BY <1>1, <1>4 DEF Inv, WritesOwnList, WriteRemote
  <2>. QED BY <1>4, <2>2, <2>3 DEF WriteRemote, Inv, TypeOK, Requests
<1>5. CASE StoreLocal(api)
  <2>1. request[api].value \in Builds
    BY <1>1, <1>5 DEF StoreLocal, Requests
  <2>2. request' \in [Apis -> Requests] /\ WritesOwnList'
    BY <1>1, <1>5 DEF Inv, WritesOwnList, StoreLocal, NoRequest, Requests
  <2>3. local' \in [Apis -> Builds \cup {NoValue}]
    BY <1>5, <2>1 DEF StoreLocal, Inv, TypeOK
  <2>. QED BY <1>5, <2>2, <2>3 DEF StoreLocal, Inv, TypeOK, Requests
<1>. QED BY <1>2, <1>3, <1>4, <1>5

\* The steps of the refresh, of its event and of the ttl.
LEMMA RefreshStep ==
    ASSUME Inv,
           \/ HandleExampleInvalidations \/ SetKey \/ EmitDeleteCacheKeys \/ ExpireRemote
           \/ \E api \in Apis : Subscribe(api) \/ DeleteCacheKey(api) \/ ExpireLocal(api)
    PROVE  Inv'
<1>1. build[Warmer] \in Builds
  BY DEF Inv, TypeOK, Processes
<1>2. UNCHANGED <<build, request, faults>>
  BY DEF HandleExampleInvalidations, SetKey, EmitDeleteCacheKeys, ExpireRemote, Subscribe,
         DeleteCacheKey, ExpireLocal
<1>3. WritesOwnList'
  BY <1>2 DEF Inv, WritesOwnList
<1>4. /\ remote' \in Builds \cup {NoValue} /\ warming' \in Builds \cup {NoValue}
      /\ emitting' \in BOOLEAN
  BY <1>1 DEF Inv, TypeOK, HandleExampleInvalidations, SetKey, EmitDeleteCacheKeys,
     ExpireRemote, Subscribe, DeleteCacheKey, ExpireLocal, GetAllExamplesRaw
<1>5. local' \in [Apis -> Builds \cup {NoValue}]
  BY DEF Inv, TypeOK, HandleExampleInvalidations, SetKey, EmitDeleteCacheKeys,
     ExpireRemote, Subscribe, DeleteCacheKey, ExpireLocal
<1>6. inbox' \subseteq listening' /\ listening' \subseteq Apis
  BY DEF Inv, TypeOK, HandleExampleInvalidations, SetKey, EmitDeleteCacheKeys,
     ExpireRemote, Subscribe, DeleteCacheKey, ExpireLocal
<1>. QED BY <1>2, <1>3, <1>4, <1>5, <1>6 DEF Inv, TypeOK

\* Restarts and failures.
LEMMA RedeployStep ==
    ASSUME Inv, NEW process \in Processes, NEW next \in Builds, Redeploy(process, next),
           faults' \in 0..MaxFaults
    PROVE  Inv'
<1>1. /\ build' \in [Processes -> Builds]
      /\ \A other \in Processes \ {process} : build'[other] = build[other]
  BY DEF Inv, TypeOK, Redeploy
<1>2. CASE process = Warmer
  <2>1. \A api \in Apis : build'[api] = build[api]
    BY <1>1, <1>2, WarmingAssumption DEF Processes
  <2>. QED BY <1>1, <1>2, <2>1 DEF Inv, TypeOK, WritesOwnList, Redeploy
<1>3. CASE process # Warmer
  <2>1. process \in Apis /\ NoRequest \in Requests
    BY <1>3 DEF Processes, NoRequest, Requests
  <2>2. request' = [request EXCEPT ![process] = NoRequest]
    BY <1>3 DEF Redeploy
  <2>3. request' \in [Apis -> Requests]
    BY <2>1, <2>2 DEF Inv, TypeOK, Requests
  <2>4. WritesOwnList'
    BY <1>1, <2>1, <2>2 DEF Inv, TypeOK, WritesOwnList, NoRequest, Processes
  <2>5. /\ local' \in [Apis -> Builds \cup {NoValue}]
        /\ inbox' \subseteq listening' /\ listening' \subseteq Apis
        /\ UNCHANGED <<warming, emitting, remote>>
    BY <1>3 DEF Inv, TypeOK, Redeploy
  <2>. QED BY <1>1, <2>3, <2>4, <2>5 DEF Inv, TypeOK, Requests
<1>. QED BY <1>2, <1>3

LEMMA FaultStep ==
    ASSUME Inv, Fault, faults' \in 0..MaxFaults
    PROVE  Inv'
<1>1. request' = request \/ \E api \in Apis : request' = [request EXCEPT ![api] = NoRequest]
  BY DEF Fault
<1>2. request' \in [Apis -> Requests] /\ WritesOwnList'
  BY <1>1 DEF Fault, Inv, TypeOK, WritesOwnList, NoRequest, Requests
<1>3. /\ warming' \in Builds \cup {NoValue} /\ emitting' \in BOOLEAN
      /\ inbox' \subseteq listening' /\ listening' \subseteq Apis
      /\ UNCHANGED <<build, remote, local>>
  BY DEF Fault, Inv, TypeOK
<1>. QED BY <1>2, <1>3 DEF Inv, TypeOK, Requests

LEMMA InvIsInductive == Inv /\ [Next]_vars => Inv'
<1>. SUFFICES ASSUME Inv, [Next]_vars PROVE Inv'
  OBVIOUS
<1>1. CASE Disturbance
  <2>1. faults' \in 0..MaxFaults
    BY <1>1, WarmingAssumption DEF Disturbance, Inv, TypeOK
  <2>. QED BY <1>1, <2>1, FaultStep, RedeployStep DEF Disturbance
<1>2. CASE UNCHANGED vars
  BY <1>2 DEF vars, Inv, TypeOK, WritesOwnList
<1>. QED BY <1>1, <1>2, RequestStep, RefreshStep DEF Next

\* The caches hold lists of some build, or nothing.
THEOREM CachesTypeCorrect == Spec => []TypeOK
<1>1. Inv => TypeOK
  BY DEF Inv
<1>. QED BY <1>1, InitInv, InvIsInductive, PTL DEF Spec

-----------------------------------------------------------------------------
\* Once a deployment is through and Redis has the new list (warmer.service.ts), only that
\* list is ever written there.
THEOREM RedisInSync == Spec => RedisStaysInSync
<1>1. ASSUME Inv, [Next]_vars, NEW newest \in Builds, Settled(newest), remote = newest
      PROVE  remote' \in {newest, NoValue}
  <2>1. \/ remote' = remote \/ ExpireRemote \/ SetKey
        \/ \E api \in Apis : WriteRemote(api)
    BY <1>1 DEF Next, vars, Disturbance, Fault, Redeploy, GetAllExamples, FetchRemote,
       StoreLocal, Subscribe, DeleteCacheKey, ExpireLocal, HandleExampleInvalidations,
       EmitDeleteCacheKeys
  <2>2. ASSUME NEW api \in Apis, WriteRemote(api)
        PROVE  remote' = newest
    BY <1>1, <2>2 DEF WriteRemote, Inv, WritesOwnList, Settled, Processes
  <2>. QED BY <1>1, <2>1, <2>2 DEF ExpireRemote, SetKey, Settled
<1>2. Inv /\ [Next]_vars =>
          [\A newest \in Builds :
              (Settled(newest) /\ remote = newest) => remote' \in {newest, NoValue}]_vars
  BY <1>1
<1>. QED BY <1>2, InitInv, InvIsInductive, PTL DEF Spec, RedisStaysInSync

-----------------------------------------------------------------------------
\* Every place a list can be in holds one that is about, or nothing.
LEMMA WhereListsAre ==
    ASSUME TypeOK
    PROVE  /\ \A process \in Processes : build[process] \in ListsAbout
           /\ \A api \in Apis : /\ local[api] \in ListsAbout \cup {NoValue}
                                /\ request[api].value \in ListsAbout \cup {NoValue}
           /\ remote \in ListsAbout \cup {NoValue}
           /\ warming \in ListsAbout \cup {NoValue}
           /\ ListsAbout \subseteq Builds /\ Warmer \in Processes
<1>1. NoValue \notin Builds
  BY WarmingAssumption DEF Builds
<1>. QED BY <1>1 DEF TypeOK, ListsAbout, Processes

LEMMA FromPlacesNext ==
    ASSUME NEW L,
           \A process \in Processes : build'[process] \in L,
           \A api \in Apis : /\ local'[api] \in L \cup {NoValue}
                             /\ request'[api].value \in L \cup {NoValue},
           remote' \in L \cup {NoValue}, warming' \in L \cup {NoValue}
    PROVE  ListsAbout' \subseteq L
BY DEF ListsAbout

\* Steps that deploy nothing bring up no list: one that is stored or written was in a
\* cache, in a request or in the code of a running process before.
LEMMA NoListComesUp ==
    ASSUME Inv, [Next]_vars, build' = build
    PROVE  ListsAbout' \subseteq ListsAbout
<1>. DEFINE L == ListsAbout
<1>1. /\ \A process \in Processes : build[process] \in L
      /\ \A api \in Apis : local[api] \in L \cup {NoValue} /\ request[api].value \in L \cup {NoValue}
      /\ remote \in L \cup {NoValue} /\ warming \in L \cup {NoValue}
      /\ Warmer \in Processes /\ \A api \in Apis : api \in Processes
      /\ request \in [Apis -> Requests] /\ local \in [Apis -> Builds \cup {NoValue}]
  BY WhereListsAre DEF Inv, TypeOK, Requests, Processes
<1>. HIDE DEF L
<1>2. \A process \in Processes : build'[process] \in L
  BY <1>1
<1>3. remote' \in L \cup {NoValue} /\ warming' \in L \cup {NoValue}
  BY <1>1 DEF Next, vars, Disturbance, Fault, Redeploy, GetAllExamples, FetchRemote,
     WriteRemote, StoreLocal, Subscribe, DeleteCacheKey, ExpireLocal, ExpireRemote, SetKey,
     HandleExampleInvalidations, EmitDeleteCacheKeys, GetAllExamplesRaw
<1>4. ASSUME NEW api \in Apis
      PROVE  local'[api] \in L \cup {NoValue}
  <2>1. \/ local' = local
        \/ \E other \in Apis : local' = [local EXCEPT ![other] = request[other].value]
        \/ \E other \in Apis : local' = [local EXCEPT ![other] = NoValue]
    BY DEF Next, vars, Disturbance, Fault, Redeploy, GetAllExamples, FetchRemote,
     WriteRemote, StoreLocal, Subscribe, DeleteCacheKey, ExpireLocal, ExpireRemote, SetKey,
     HandleExampleInvalidations, EmitDeleteCacheKeys, Processes
  <2>. QED BY <1>1, <1>4, <2>1
<1>5. ASSUME NEW api \in Apis
      PROVE  request'[api].value \in L \cup {NoValue}
  <2>1. \/ request' = request
        \/ \E other \in Apis, pc \in {"fetch", "store"} :
              request' = [request EXCEPT ![other].pc = pc]
        \/ \E other \in Apis, pc \in {"store", "write"} : \E value \in {remote, build[other]} :
              request' = [request EXCEPT ![other] = [pc |-> pc, value |-> value]]
        \/ \E other \in Apis : request' = [request EXCEPT ![other] = NoRequest]
    BY DEF Next, vars, Disturbance, Fault, Redeploy, GetAllExamples, FetchRemote,
     WriteRemote, StoreLocal, Subscribe, DeleteCacheKey, ExpireLocal, ExpireRemote, SetKey,
     HandleExampleInvalidations, EmitDeleteCacheKeys, GetAllExamplesRaw, Processes
  <2>2. ASSUME NEW other \in Apis, NEW pc \in {"fetch", "store"},
               request' = [request EXCEPT ![other].pc = pc]
        PROVE  request'[api].value = request[api].value
    BY <1>1, <2>2 DEF Requests
  <2>3. ASSUME NEW other \in Apis, NEW r, r.value \in L \cup {NoValue},
               request' = [request EXCEPT ![other] = r]
        PROVE  request'[api].value \in L \cup {NoValue}
    BY <1>1, <2>3
  <2>. QED BY <1>1, <2>1, <2>2, <2>3 DEF NoRequest
<1>. QED BY <1>2, <1>3, <1>4, <1>5, FromPlacesNext DEF L

\* A deployment brings up the list of its build, which is no older than the one before.
LEMMA DeploymentsBringUpTheirOwn ==
    ASSUME Inv, NEW process \in Processes, NEW next \in Builds, Redeploy(process, next)
    PROVE  ListsAbout' \subseteq ListsAbout \cup {next}
<1>. DEFINE L == ListsAbout \cup {next}
<1>1. /\ \A other \in Processes : build[other] \in L
      /\ \A api \in Apis : local[api] \in L \cup {NoValue} /\ request[api].value \in L \cup {NoValue}
      /\ remote \in L \cup {NoValue} /\ warming \in L \cup {NoValue}
      /\ request \in [Apis -> Requests] /\ local \in [Apis -> Builds \cup {NoValue}]
      /\ build \in [Processes -> Builds] /\ next \in L
  BY WhereListsAre DEF Inv, TypeOK, Requests
<1>. HIDE DEF L
<1>2. /\ \A other \in Processes : build'[other] \in L
      /\ remote' \in L \cup {NoValue} /\ warming' \in L \cup {NoValue}
      /\ \A api \in Apis : /\ local'[api] \in L \cup {NoValue}
                           /\ request'[api].value \in L \cup {NoValue}
  BY <1>1 DEF Redeploy, NoRequest
<1>. QED BY <1>2, FromPlacesNext DEF L

\* Every step of the caches is one of the lists they serve.
LEMMA TurnoverStep ==
    ASSUME Inv, [Next]_vars
    PROVE  Served!Turnover
<1>1. /\ build[Warmer] \in ListsAbout /\ build[Warmer] \in Builds
      /\ \A process \in Processes : build[process] \in ListsAbout
      /\ \A b \in Builds : b \in Nat
  BY WhereListsAre DEF Inv, TypeOK, Builds
<1>2. ListsAbout' # {}
  <2>1. TypeOK'
    BY InvIsInductive DEF Inv
  <2>2. build'[Warmer] \in Builds \ {NoValue} /\ Warmer \in Processes
    BY <2>1, WarmingAssumption DEF TypeOK, Builds, Processes
  <2>. QED BY <2>2 DEF ListsAbout
<1>3. CASE build' = build
  <2>1. ListsAbout' \subseteq ListsAbout /\ build[Warmer] <= build[Warmer]
    BY <1>1, <1>3, NoListComesUp
  <2>2. ListsAbout' \in (SUBSET (ListsAbout \cup {build[Warmer]})) \ {{}}
    BY <1>2, <2>1
  <2>3. \E present \in ListsAbout : present <= build[Warmer]
    BY <1>1, <2>1
  <2>. HIDE DEF ListsAbout
  <2>. QED BY <1>1, <2>2, <2>3 DEF Served!Turnover
<1>4. CASE \E process \in Processes, next \in Builds : Redeploy(process, next)
  <2>1. PICK process \in Processes, next \in Builds : Redeploy(process, next)
    BY <1>4
  <2>2. ListsAbout' \subseteq ListsAbout \cup {next} /\ build[process] <= next
    BY <2>1, DeploymentsBringUpTheirOwn DEF Redeploy
  <2>3. ListsAbout' \in (SUBSET (ListsAbout \cup {next})) \ {{}}
    BY <1>2, <2>2
  <2>4. \E present \in ListsAbout : present <= next
    BY <1>1, <2>2
  <2>. QED BY <2>3, <2>4 DEF Served!Turnover
<1>5. build' = build \/ \E process \in Processes, next \in Builds : Redeploy(process, next)
  BY DEF Next, vars, Disturbance, Fault, GetAllExamples, FetchRemote, WriteRemote, StoreLocal,
     Subscribe, DeleteCacheKey, ExpireLocal, ExpireRemote, SetKey,
     HandleExampleInvalidations, EmitDeleteCacheKeys
<1>. QED BY <1>3, <1>4, <1>5

\* The caches of example.service.ts and the cache warmer implement ServedLists, for any
\* number of processes, deployments and failures.
THEOREM CachesImplementServedLists == Spec => ImplementsServedLists
<1>1. Init => Served!Init
  BY WarmingAssumption DEF Init, Served!Init, ListsAbout, Processes, NoRequest
<1>2. Inv /\ [Next]_vars => [Served!Turnover]_ListsAbout
  BY TurnoverStep
<1>. QED BY <1>1, <1>2, InitInv, InvIsInductive, PTL
     DEF Spec, ImplementsServedLists, Served!Spec
=============================================================================
