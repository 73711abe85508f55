-------------------------- MODULE NriCache_proofs ---------------------------
(***************************************************************************)
(* CacheInv is an inductive invariant of NriCache, for any number of pods, *)
(* containers and permits, and with it no cached mapping is ever replaced. *)
(***************************************************************************)
EXTENDS NriCache, FiniteSetTheorems, TLAPS

-----------------------------------------------------------------------------
(* The invariant by what its parts speak of *)

ClusterTypes ==
  /\ pod \in [Pods -> {"absent", "live", "terminating", "gone"}]
  /\ sandbox \subseteq Pods
  /\ connected \in BOOLEAN
  /\ listing \subseteq SUBSET Pods
  /\ restarts \in 0..MaxRestarts

CacheTypes ==
  /\ cache \in Caches /\ file \in Caches
  /\ saves \subseteq Saves

CallTypes ==
  /\ flight \in [Pods -> Flights]
  /\ call \in [Pods -> [Containers -> {"none", "missed", "waiting", "started", "leaked", "refused"}]]
  /\ late \subseteq Pods \X Containers

PrewarmTypes ==
  /\ informer \in [Pods -> {"unknown", "added", "deleted"}]
  /\ prewarm \in [Pods -> {"none", "missed", "waiting"}]
  /\ permits \in 0..MaxConcurrent

LEMMA CacheInvParts ==
  CacheInv <=> /\ ClusterTypes /\ CacheTypes /\ CallTypes /\ PrewarmTypes
               /\ FetchesMiss /\ PermitsCounted /\ WaitersHaveAFlight
BY DEF CacheInv, NriCacheTypeOK, ClusterTypes, CacheTypes, CallTypes, PrewarmTypes

LEMMA CacheInvPartsNext ==
  ASSUME ClusterTypes', CacheTypes', CallTypes', PrewarmTypes',
         FetchesMiss', PermitsCounted', WaitersHaveAFlight'
  PROVE  CacheInv'
BY DEF CacheInv, NriCacheTypeOK, ClusterTypes, CacheTypes, CallTypes, PrewarmTypes

-----------------------------------------------------------------------------
(* Operators shared by several actions *)

\* An eviction takes mappings away and adds none.
LEMMA EvictTakesAway ==
  ASSUME CacheInv, NEW ps \in SUBSET Pods, Evict(ps), UNCHANGED file
  PROVE  /\ CacheTypes'
         /\ \A p \in Pods : cache'[p] \in {0, cache[p]}
<1> DEFINE stale == {p \in ps : cache[p] # 0}
           kept == [p \in Pods |-> IF p \in stale THEN 0 ELSE cache[p]]
<1>1. /\ cache' = kept
      /\ saves' \subseteq saves \cup {[by |-> "evict", snapshot |-> kept]}
  BY DEF Evict
<1>2. cache \in Caches /\ file \in Caches /\ saves \subseteq Saves
  BY DEF CacheInv, NriCacheTypeOK
<1>3. kept \in Caches /\ \A p \in Pods : kept[p] \in {0, cache[p]}
  BY <1>2 DEF Caches
<1>4. [by |-> "evict", snapshot |-> kept] \in Saves
  BY <1>3 DEF Saves
<1> HIDE DEF kept
<1> QED BY <1>1, <1>2, <1>3, <1>4 DEF CacheTypes

\* Where nothing is cached anew, no fetch is overtaken.
LEMMA MissesStay ==
  ASSUME FetchesMiss, CacheTypes',
         \A p \in Pods : cache'[p] \in {0, cache[p]},
         \A p \in Pods : flight'[p].step \in {"fetching", "reading"} =>
           flight[p].step \in {"fetching", "reading"}
  PROVE  FetchesMiss'
BY DEF FetchesMiss

\* A permit that is given back was taken: the count of them is that of the
\* goroutines that hold one.
LEMMA PermitGivenBack ==
  ASSUME PrewarmTypes, PermitsCounted, NEW p \in Pods, prewarm[p] # "none",
         prewarm' = [prewarm EXCEPT ![p] = "none"], permits' = permits - 1, UNCHANGED informer
  PROVE  PrewarmTypes' /\ PermitsCounted'
<1>1. p \in Prewarming /\ Prewarming' = Prewarming \ {p}
  BY DEF Prewarming, PrewarmTypes
<1>2. IsFiniteSet(Prewarming') /\ Cardinality(Prewarming') = Cardinality(Prewarming) - 1
  BY <1>1, FS_RemoveElement DEF PermitsCounted
<1>3. Cardinality(Prewarming') \in Nat
  BY <1>2, FS_CardinalityType
<1>4. permits' = Cardinality(Prewarming') /\ permits' \in 0..MaxConcurrent
  BY <1>2, <1>3, NriCacheAssumption DEF PermitsCounted, PrewarmTypes
<1> QED BY <1>1, <1>2, <1>4 DEF PermitsCounted, PrewarmTypes

\* The answer reaches everybody who waits for it.
LEMMA AnswerReachesAll ==
  ASSUME CacheInv, NEW p \in Pods, NEW answer \in {"started", "refused"}, Answer(p, answer),
         UNCHANGED informer
  PROVE  /\ CallTypes' /\ PrewarmTypes' /\ PermitsCounted' /\ WaitersHaveAFlight'
         /\ \A q \in Pods : q # p => flight'[q] = flight[q]
         /\ flight'[p].step = "none"
<1>1. CallTypes /\ PrewarmTypes /\ PermitsCounted /\ WaitersHaveAFlight
  BY CacheInvParts
<1>2. CallTypes'
  <2>1. flight' \in [Pods -> Flights]
    BY <1>1 DEF Answer, CallTypes, Flights, NoFlight, FlightSteps
  <2>2. call' \in [Pods -> [Containers -> {"none", "missed", "waiting", "started", "leaked", "refused"}]]
    BY <1>1 DEF Answer, CallTypes
  <2>3. late' \subseteq Pods \X Containers
    BY <1>1 DEF Answer, CallTypes
  <2> QED BY <2>1, <2>2, <2>3 DEF CallTypes
<1>3. /\ \A q \in Pods : q # p => flight'[q] = flight[q] /\ call'[q] = call[q] /\ prewarm'[q] = prewarm[q]
      /\ flight'[p] = NoFlight /\ prewarm'[p] # "waiting"
      /\ \A c \in Containers : call'[p][c] # "waiting"
  BY <1>1 DEF Answer, CallTypes, PrewarmTypes
<1>4. WaitersHaveAFlight'
  BY <1>1, <1>3 DEF WaitersHaveAFlight
<1>5. PrewarmTypes' /\ PermitsCounted'
  <2>1. CASE prewarm[p] = "waiting"
    BY <1>1, <2>1, PermitGivenBack DEF Answer
  <2>2. CASE prewarm[p] # "waiting"
    <3>1. UNCHANGED <<prewarm, permits>>
      BY <1>1, <2>2 DEF Answer, PrewarmTypes
    <3> QED BY <1>1, <3>1 DEF PrewarmTypes, PermitsCounted, Prewarming
  <2> QED BY <2>1, <2>2
<1> QED BY <1>2, <1>3, <1>4, <1>5 DEF NoFlight

\* Whoever joins a flight has one to wait for.
LEMMA JoinFlies ==
  ASSUME CacheInv, NEW p \in Pods, NEW by \in Containers \cup {"prewarm"}, NEW expired \in BOOLEAN,
         Join(p, by, expired)
  PROVE  /\ flight' \in [Pods -> Flights]
         /\ flight'[p].step # "none"
         /\ \A q \in Pods :
              \/ flight'[q].step = flight[q].step
              \/ q = p /\ flight'[q].step = "checking"
<1>1. flight \in [Pods -> Flights]
  BY DEF CacheInv, NriCacheTypeOK
<1>2. [step |-> "checking", by |-> by, late |-> expired] \in Flights
  BY DEF Flights, FlightSteps
<1> QED BY <1>1, <1>2 DEF Join

-----------------------------------------------------------------------------
(* The actions *)

\* A step that leaves the cache and the prewarmer alone, and lets neither a
\* fetch nor a wait begin, keeps the invariant.
LEMMA CallsStep ==
  ASSUME CacheInv, ClusterTypes', CallTypes',
         UNCHANGED <<informer, cache, prewarm, permits, saves, file>>,
         \A p \in Pods :
           \/ flight'[p].step = flight[p].step
           \/ flight[p].step = "fetching" /\ flight'[p].step = "reading",
         \A p \in Pods : \A c \in Containers : call'[p][c] = "waiting" => call[p][c] = "waiting"
  PROVE  CacheInv'
<1>1. /\ ClusterTypes /\ CacheTypes /\ CallTypes /\ PrewarmTypes
      /\ FetchesMiss /\ PermitsCounted /\ WaitersHaveAFlight
  BY CacheInvParts
<1>2. CacheTypes' /\ PrewarmTypes' /\ PermitsCounted'
  BY <1>1 DEF CacheTypes, PrewarmTypes, PermitsCounted, Prewarming
<1>3. FetchesMiss' /\ WaitersHaveAFlight'
  BY <1>1 DEF FetchesMiss, WaitersHaveAFlight
<1> QED BY <1>2, <1>3, CacheInvPartsNext

\* The pods, their sandboxes and the sweeper's listing.
LEMMA ClusterStep ==
  ASSUME CacheInv,
         \/ SweepList
         \/ \E p \in Pods : CreatePod(p) \/ TerminatePod(p) \/ DeletePod(p) \/ RunSandbox(p)
  PROVE  CacheInv'
<1>1. ClusterTypes /\ CallTypes
  BY CacheInvParts
<1>2. /\ UNCHANGED <<informer, cache, callVars, saves, file, restarts>>
      /\ ClusterTypes'
  BY <1>1 DEF CreatePod, TerminatePod, DeletePod, RunSandbox, SweepList, podVars, OnNode, ClusterTypes
<1>3. UNCHANGED <<flight, call, late, prewarm, permits>>
  BY <1>2 DEF callVars
<1>4. CallTypes'
  BY <1>1, <1>3 DEF CallTypes
<1> QED BY <1>2, <1>3, <1>4, CallsStep

\* A container that is created anew has yet to join a flight.
LEMMA ContainerStep ==
  ASSUME CacheInv, NEW p \in Pods, NEW c \in Containers,
         \/ CreateContainer(p, c) \/ ContainerExits(p, c) \/ ContainerdGivesUp(p, c)
         \/ FetchTimeout(p, c)
  PROVE  CacheInv'
<1>1. ClusterTypes /\ CallTypes
  BY CacheInvParts
<1>2. /\ UNCHANGED <<informer, cache, prewarm, permits, saves, file>>
      /\ UNCHANGED <<podVars, listing, restarts>>
  BY DEF CreateContainer, ContainerExits, ContainerdGivesUp, FetchTimeout
<1>3. ClusterTypes'
  BY <1>1, <1>2 DEF ClusterTypes, podVars
<1>4. \/ UNCHANGED flight
      \/ flight' = [flight EXCEPT ![p].late = TRUE]
  BY DEF CreateContainer, ContainerExits, ContainerdGivesUp, FetchTimeout
<1>5. flight' \in [Pods -> Flights] /\ \A q \in Pods : flight'[q].step = flight[q].step
  <2> DEFINE f == [flight[p] EXCEPT !.late = TRUE]
  <2>1. f \in Flights /\ f.step = flight[p].step
    BY <1>1 DEF CallTypes, Flights
  <2>2. UNCHANGED flight \/ flight' = [flight EXCEPT ![p] = f]
    BY <1>4
  <2> HIDE DEF f
  <2> QED BY <1>1, <2>1, <2>2 DEF CallTypes
<1>6. late' \subseteq Pods \X Containers
  BY <1>1 DEF CreateContainer, ContainerExits, ContainerdGivesUp, FetchTimeout, CallTypes
<1>7. \E s \in {"none", "started", "missed", "leaked"} :
        call' = [call EXCEPT ![p][c] = s] \/ UNCHANGED call
  BY DEF CreateContainer, ContainerExits, ContainerdGivesUp, FetchTimeout
<1>8. /\ call' \in [Pods -> [Containers -> {"none", "missed", "waiting", "started", "leaked", "refused"}]]
      /\ \A q \in Pods : \A d \in Containers : call'[q][d] = "waiting" => call[q][d] = "waiting"
  BY <1>1, <1>7 DEF CallTypes
<1>9. CallTypes'
  BY <1>5, <1>6, <1>8 DEF CallTypes
<1> QED BY <1>2, <1>3, <1>5, <1>8, <1>9, CallsStep

\* A lost sandbox or connection and a context that is done end waits at most,
\* and lets a fetch that goes on go on.
LEMMA ContextStep ==
  ASSUME CacheInv,
         \/ Disconnect
         \/ \E p \in Pods : LoseSandbox(p) \/ LeaderTimeout(p) \/ GetPodAndLogin(p)
  PROVE  CacheInv'
<1>1. ClusterTypes /\ CallTypes
  BY CacheInvParts
<1>2. /\ UNCHANGED <<informer, cache, prewarm, permits, saves, file>>
      /\ UNCHANGED <<pod, listing, restarts>>
      /\ sandbox' \subseteq sandbox /\ connected' \in BOOLEAN
  BY <1>1 DEF LoseSandbox, Disconnect, LeaderTimeout, GetPodAndLogin, podVars, ClusterTypes
<1>3. ClusterTypes'
  BY <1>1, <1>2 DEF ClusterTypes
<1>4. /\ flight' \in [Pods -> Flights]
      /\ \A q \in Pods : \/ flight'[q].step = flight[q].step
                         \/ flight[q].step = "fetching" /\ flight'[q].step = "reading"
  <2>1. CASE Disconnect
    <3>1. \A q \in Pods : [flight[q] EXCEPT !.late = TRUE] \in Flights
                          /\ [flight[q] EXCEPT !.late = TRUE].step = flight[q].step
      BY <1>1 DEF CallTypes, Flights
    <3> QED BY <1>1, <2>1, <3>1 DEF Disconnect, CallTypes
  <2>2. CASE \E p \in Pods : LeaderTimeout(p)
    <3> PICK p \in Pods : LeaderTimeout(p)
      BY <2>2
    <3> DEFINE f == [flight[p] EXCEPT !.late = TRUE]
    <3>1. f \in Flights /\ f.step = flight[p].step
      BY <1>1 DEF CallTypes, Flights
    <3>2. flight' = [flight EXCEPT ![p] = f]
      BY DEF LeaderTimeout
    <3> HIDE DEF f
    <3> QED BY <1>1, <3>1, <3>2 DEF CallTypes
  <2>3. CASE \E p \in Pods : GetPodAndLogin(p)
    <3> PICK p \in Pods : GetPodAndLogin(p)
      BY <2>3
    <3> DEFINE f == [flight[p] EXCEPT !.step = "reading"]
    <3>1. f \in Flights /\ f.step = "reading"
      BY <1>1 DEF CallTypes, Flights, FlightSteps
    <3>2. flight' = [flight EXCEPT ![p] = f] /\ flight[p].step = "fetching"
      BY DEF GetPodAndLogin
    <3> HIDE DEF f
    <3> QED BY <1>1, <3>1, <3>2 DEF CallTypes
  <2>4. CASE \E p \in Pods : LoseSandbox(p)
    BY <1>1, <2>4 DEF LoseSandbox, CallTypes
  <2> QED BY <2>1, <2>2, <2>3, <2>4
<1>5. /\ late' \subseteq Pods \X Containers
      /\ call' \in [Pods -> [Containers -> {"none", "missed", "waiting", "started", "leaked", "refused"}]]
      /\ \A q \in Pods : \A d \in Containers : call'[q][d] = "waiting" => call[q][d] = "waiting"
  <2>1. CASE Disconnect
    BY <1>1, <2>1 DEF Disconnect, CallTypes
  <2>2. CASE \E p \in Pods : LoseSandbox(p)
    BY <1>1, <2>2 DEF LoseSandbox, DropCalls, CallTypes
  <2>3. CASE UNCHANGED <<call, late>>
    BY <1>1, <2>3 DEF CallTypes
  <2> QED BY <2>1, <2>2, <2>3 DEF LeaderTimeout, GetPodAndLogin
<1>6. CallTypes'
  BY <1>4, <1>5 DEF CallTypes
<1> QED BY <1>2, <1>3, <1>4, <1>5, <1>6, CallsStep

\* A caller that joins a flight waits for one.
LEMMA JoinStep ==
  ASSUME CacheInv, NEW p \in Pods,
         PrewarmJoins(p) \/ \E c \in Containers : ContainerJoins(p, c)
  PROVE  CacheInv'
<1>1. /\ ClusterTypes /\ CacheTypes /\ CallTypes /\ PrewarmTypes
      /\ FetchesMiss /\ PermitsCounted /\ WaitersHaveAFlight
  BY CacheInvParts
<1>2. UNCHANGED <<podVars, informer, cache, late, permits, listing, saves, file, restarts>>
  BY DEF PrewarmJoins, ContainerJoins
<1>3. ClusterTypes' /\ CacheTypes'
  BY <1>1, <1>2 DEF ClusterTypes, CacheTypes, podVars
<1>4. /\ flight' \in [Pods -> Flights]
      /\ flight'[p].step # "none"
      /\ \A q \in Pods : \/ flight'[q].step = flight[q].step
                         \/ q = p /\ flight'[q].step = "checking"
  <2>1. PICK by \in Containers \cup {"prewarm"}, expired \in BOOLEAN : Join(p, by, expired)
    <3>1. CASE PrewarmJoins(p)
      BY <3>1 DEF PrewarmJoins
    <3>2. ASSUME NEW c \in Containers, ContainerJoins(p, c)
          PROVE  \E by \in Containers \cup {"prewarm"}, expired \in BOOLEAN : Join(p, by, expired)
      <4>1. Join(p, c, <<p, c>> \in late) /\ (<<p, c>> \in late) \in BOOLEAN
        BY <3>2 DEF ContainerJoins
      <4> QED BY <4>1
    <3> QED BY <3>1, <3>2
  <2> QED BY <2>1, JoinFlies
<1>5. FetchesMiss'
  BY <1>1, <1>2, <1>4 DEF FetchesMiss
<1>6. CASE PrewarmJoins(p)
  <2>1. /\ prewarm[p] = "missed" /\ prewarm' = [prewarm EXCEPT ![p] = "waiting"]
        /\ UNCHANGED call
    BY <1>6 DEF PrewarmJoins
  <2>2. Prewarming' = Prewarming
    BY <1>1, <2>1 DEF Prewarming, PrewarmTypes
  <2>3. PrewarmTypes' /\ PermitsCounted' /\ CallTypes'
    BY <1>1, <1>2, <1>4, <2>1, <2>2 DEF PrewarmTypes, PermitsCounted, CallTypes
  <2>4. WaitersHaveAFlight'
    BY <1>1, <1>4, <2>1 DEF WaitersHaveAFlight, PrewarmTypes
  <2> QED BY <1>3, <1>5, <2>3, <2>4, CacheInvPartsNext
<1>7. ASSUME NEW c \in Containers, ContainerJoins(p, c) PROVE CacheInv'
  <2>1. call' = [call EXCEPT ![p][c] = "waiting"] /\ UNCHANGED prewarm
    BY <1>7 DEF ContainerJoins
  <2>2. PrewarmTypes' /\ PermitsCounted'
    BY <1>1, <1>2, <2>1 DEF PrewarmTypes, PermitsCounted, Prewarming
  <2>3. CallTypes'
    BY <1>1, <1>2, <1>4, <2>1 DEF CallTypes
  <2>4. WaitersHaveAFlight'
    BY <1>1, <1>4, <2>1 DEF WaitersHaveAFlight, CallTypes
  <2> QED BY <1>3, <1>5, <2>2, <2>3, <2>4, CacheInvPartsNext
<1> QED BY <1>6, <1>7

\* A permit is taken for a goroutine of the prewarmer while there is one left.
LEMMA OnAddStep ==
  ASSUME CacheInv, NEW p \in Pods, OnAdd(p)
  PROVE  CacheInv'
<1>1. /\ ClusterTypes /\ CacheTypes /\ CallTypes /\ PrewarmTypes
      /\ FetchesMiss /\ PermitsCounted /\ WaitersHaveAFlight
  BY CacheInvParts
<1>2. /\ UNCHANGED <<podVars, cache, flight, call, late, listing, saves, file, restarts>>
      /\ informer' = [informer EXCEPT ![p] = "added"]
      /\ informer[p] = "unknown"
  BY DEF OnAdd
<1>3. ClusterTypes' /\ CacheTypes' /\ CallTypes' /\ FetchesMiss'
  BY <1>1, <1>2 DEF ClusterTypes, CacheTypes, CallTypes, FetchesMiss, podVars
<1>4. \/ prewarm' = [prewarm EXCEPT ![p] = "none"] /\ permits' = permits
      \/ /\ prewarm' = [prewarm EXCEPT ![p] = "missed"] /\ permits' = permits + 1
         /\ permits # MaxConcurrent
  BY DEF OnAdd
<1>5. WaitersHaveAFlight'
  BY <1>1, <1>2, <1>4 DEF WaitersHaveAFlight, PrewarmTypes
<1>6. p \notin Prewarming
  BY <1>1, <1>2 DEF PermitsCounted
<1>7. CASE prewarm' = [prewarm EXCEPT ![p] = "none"] /\ permits' = permits
  <2>1. Prewarming' = Prewarming
    BY <1>1, <1>6, <1>7 DEF Prewarming, PrewarmTypes
  <2>2. PrewarmTypes' /\ PermitsCounted'
    BY <1>1, <1>2, <1>7, <2>1 DEF PrewarmTypes, PermitsCounted
  <2> QED BY <1>3, <1>5, <2>2, CacheInvPartsNext
<1>8. CASE /\ prewarm' = [prewarm EXCEPT ![p] = "missed"] /\ permits' = permits + 1
           /\ permits # MaxConcurrent
  <2>1. Prewarming' = Prewarming \cup {p}
    BY <1>1, <1>8 DEF Prewarming, PrewarmTypes
  <2>2. /\ IsFiniteSet(Prewarming')
        /\ Cardinality(Prewarming') = Cardinality(Prewarming) + 1
    BY <1>1, <1>6, <2>1, FS_AddElement DEF PermitsCounted
  <2>3. permits' \in 0..MaxConcurrent
    BY <1>1, <1>8, NriCacheAssumption DEF PrewarmTypes
  <2>4. PrewarmTypes'
    BY <1>1, <1>2, <1>8, <2>3 DEF PrewarmTypes
  <2>5. PermitsCounted'
    BY <1>1, <1>2, <1>8, <2>1, <2>2 DEF PermitsCounted, PrewarmTypes
  <2> QED BY <1>3, <1>5, <2>4, <2>5, CacheInvPartsNext
<1> QED BY <1>4, <1>7, <1>8

\* Whoever evicts, be it with a stale listing, overtakes no fetch.
LEMMA EvictStep ==
  ASSUME CacheInv,
         \/ Synchronize \/ SweepEvict
         \/ \E p \in Pods : RemovePodSandbox(p) \/ OnDelete(p)
  PROVE  CacheInv'
<1>1. /\ ClusterTypes /\ CacheTypes /\ CallTypes /\ PrewarmTypes
      /\ FetchesMiss /\ PermitsCounted /\ WaitersHaveAFlight
  BY CacheInvParts
<1>2. PICK ps \in SUBSET Pods : Evict(ps)
  BY DEF Synchronize, SweepEvict, RemovePodSandbox, OnDelete
<1>3. /\ UNCHANGED <<pod, flight, prewarm, permits, file, restarts>>
      /\ sandbox' \subseteq sandbox /\ connected' \in BOOLEAN /\ listing' \subseteq listing
  BY <1>1 DEF Synchronize, SweepEvict, RemovePodSandbox, OnDelete, podVars, callVars, ClusterTypes
<1>4. CacheTypes' /\ \A p \in Pods : cache'[p] \in {0, cache[p]}
  BY <1>2, <1>3, EvictTakesAway
<1>5. ClusterTypes'
  BY <1>1, <1>3 DEF ClusterTypes
<1>6. FetchesMiss'
  BY <1>1, <1>3, <1>4, MissesStay
<1>7. /\ CallTypes'
      /\ \A p \in Pods : \A c \in Containers : call'[p][c] = "waiting" => call[p][c] = "waiting"
  <2>1. CASE UNCHANGED <<call, late>>
    BY <1>1, <1>3, <2>1 DEF CallTypes
  <2>2. CASE \E p \in Pods : DropCalls({p})
    BY <1>1, <1>3, <2>2 DEF CallTypes, DropCalls
  <2> QED BY <2>1, <2>2 DEF Synchronize, SweepEvict, RemovePodSandbox, OnDelete, callVars
<1>8. WaitersHaveAFlight'
  BY <1>1, <1>3, <1>7 DEF WaitersHaveAFlight
<1>9. \/ UNCHANGED informer
      \/ \E p \in Pods : informer' = [informer EXCEPT ![p] = "deleted"]
  BY DEF Synchronize, SweepEvict, RemovePodSandbox, OnDelete
<1>10. PrewarmTypes' /\ PermitsCounted'
  BY <1>1, <1>3, <1>9 DEF PrewarmTypes, PermitsCounted, Prewarming
<1> QED BY <1>4, <1>5, <1>6, <1>7, <1>8, <1>10, CacheInvPartsNext

\* An answer ends the flight.
LEMMA AnswerStep ==
  ASSUME CacheInv, NEW p \in Pods, NEW answer \in {"started", "refused"}, Answer(p, answer),
         UNCHANGED <<podVars, informer, cache, listing, saves, file, restarts>>
  PROVE  CacheInv'
<1>1. ClusterTypes /\ CacheTypes /\ FetchesMiss
  BY CacheInvParts
<1>2. ClusterTypes' /\ CacheTypes'
  BY <1>1 DEF ClusterTypes, CacheTypes, podVars
<1>3. /\ CallTypes' /\ PrewarmTypes' /\ PermitsCounted' /\ WaitersHaveAFlight'
      /\ \A q \in Pods : q # p => flight'[q] = flight[q]
      /\ flight'[p].step = "none"
  BY AnswerReachesAll
<1>4. FetchesMiss'
  BY <1>1, <1>3 DEF FetchesMiss
<1> QED BY <1>2, <1>3, <1>4, CacheInvPartsNext

\* The steps of a flight: a fetch begins on a miss, and what it caches is cached
\* before it is over.
LEMMA FlightStep ==
  ASSUME CacheInv, NEW p \in Pods,
         Recheck(p) \/ ReadCreds(p) \/ FetchFails(p) \/ FlightReturns(p)
  PROVE  CacheInv'
<1>1. /\ ClusterTypes /\ CacheTypes /\ CallTypes /\ PrewarmTypes
      /\ FetchesMiss /\ PermitsCounted /\ WaitersHaveAFlight
  BY CacheInvParts
<1>2. ASSUME NEW step \in {"fetching", "saving"}, flight[p].step # "none",
             flight' = [flight EXCEPT ![p].step = step]
      PROVE  /\ flight' \in [Pods -> Flights] /\ flight'[p].step = step
             /\ \A q \in Pods : q # p => flight'[q] = flight[q]
  <2> DEFINE f == [flight[p] EXCEPT !.step = step]
  <2>1. f \in Flights /\ f.step = step
    BY <1>1 DEF CallTypes, Flights, FlightSteps
  <2>2. flight' = [flight EXCEPT ![p] = f]
    BY <1>2
  <2> HIDE DEF f
  <2> QED BY <1>1, <2>1, <2>2 DEF CallTypes
<1>3. CASE Recheck(p) /\ cache[p] # 0
  BY <1>3, AnswerStep DEF Recheck
<1>4. CASE Recheck(p) /\ cache[p] = 0
  <2>1. /\ UNCHANGED <<podVars, informer, cache, listing, saves, file, restarts>>
        /\ UNCHANGED <<call, late, prewarm, permits>>
        /\ flight[p].step # "none" /\ flight' = [flight EXCEPT ![p].step = "fetching"]
    BY <1>4 DEF Recheck
  <2>2. /\ flight' \in [Pods -> Flights] /\ flight'[p].step = "fetching"
        /\ \A q \in Pods : q # p => flight'[q] = flight[q]
    BY <1>2, <2>1
  <2>3. ClusterTypes' /\ CacheTypes' /\ CallTypes' /\ PrewarmTypes' /\ PermitsCounted'
    BY <1>1, <2>1, <2>2 DEF ClusterTypes, CacheTypes, CallTypes, PrewarmTypes, PermitsCounted,
       Prewarming, podVars
  <2>4. FetchesMiss' /\ WaitersHaveAFlight'
    BY <1>1, <1>4, <2>1, <2>2 DEF FetchesMiss, WaitersHaveAFlight
  <2> QED BY <2>3, <2>4, CacheInvPartsNext
<1>5. CASE ReadCreds(p)
  <2> DEFINE cached == [cache EXCEPT ![p] = NextMapping(p)]
  <2>1. /\ UNCHANGED <<podVars, informer, call, late, prewarm, permits, listing, file, restarts>>
        /\ cache' = cached
        /\ saves' = saves \cup {[by |-> p, snapshot |-> cached]}
        /\ flight[p].step # "none" /\ flight' = [flight EXCEPT ![p].step = "saving"]
    BY <1>5 DEF ReadCreds
  <2>2. /\ flight' \in [Pods -> Flights] /\ flight'[p].step = "saving"
        /\ \A q \in Pods : q # p => flight'[q] = flight[q]
    BY <1>2, <2>1
  <2>3. NextMapping(p) \in Mappings
    BY DEF NextMapping, Mappings
  <2>4. cached \in Caches /\ \A q \in Pods : q # p => cached[q] = cache[q]
    BY <1>1, <2>1, <2>3 DEF CacheTypes, Caches
  <2> HIDE DEF cached
  <2>5. [by |-> p, snapshot |-> cached] \in Saves
    BY <2>4 DEF Saves
  <2>6. CacheTypes'
    BY <1>1, <2>1, <2>4, <2>5 DEF CacheTypes
  <2>7. ClusterTypes' /\ CallTypes' /\ PrewarmTypes' /\ PermitsCounted'
    BY <1>1, <2>1, <2>2 DEF ClusterTypes, CallTypes, PrewarmTypes, PermitsCounted, Prewarming,
       podVars
  <2>8. FetchesMiss' /\ WaitersHaveAFlight'
    BY <1>1, <2>1, <2>2, <2>4 DEF FetchesMiss, WaitersHaveAFlight
  <2> QED BY <2>6, <2>7, <2>8, CacheInvPartsNext
<1>6. CASE FetchFails(p) \/ FlightReturns(p)
  BY <1>6, AnswerStep DEF FetchFails, FlightReturns
<1> QED BY <1>3, <1>4, <1>5, <1>6

\* The cache file and the restart, which leaves no flight, wait or permit behind.
LEMMA FileStep ==
  ASSUME CacheInv, RestartPlugin \/ \E s \in saves : SaveLands(s) \/ SaveFails(s)
  PROVE  CacheInv'
<1>1. /\ ClusterTypes /\ CacheTypes /\ CallTypes /\ PrewarmTypes
      /\ FetchesMiss /\ PermitsCounted /\ WaitersHaveAFlight
  BY CacheInvParts
<1>2. NoMappings \in Caches
  BY DEF NoMappings, Caches
<1>3. ASSUME NEW s \in saves, SaveLands(s) \/ SaveFails(s) PROVE CacheInv'
  <2>1. /\ UNCHANGED <<podVars, informer, cache, callVars, listing, restarts>>
        /\ saves' = saves \ {s}
    BY <1>3 DEF SaveLands, SaveFails
  <2>2. file' \in {file, NoMappings} \cup {other.snapshot : other \in saves}
    BY <1>3 DEF SaveLands, SaveFails
  <2>3. file' \in Caches
    BY <1>1, <1>2, <2>2 DEF CacheTypes, Saves
  <2>4. CacheTypes' /\ ClusterTypes' /\ CallTypes' /\ PrewarmTypes'
    BY <1>1, <2>1, <2>3 DEF CacheTypes, ClusterTypes, CallTypes, PrewarmTypes, podVars, callVars
  <2>5. FetchesMiss' /\ PermitsCounted' /\ WaitersHaveAFlight'
    BY <1>1, <2>1 DEF FetchesMiss, PermitsCounted, Prewarming, WaitersHaveAFlight, callVars
  <2> QED BY <2>4, <2>5, CacheInvPartsNext
<1>4. CASE RestartPlugin
  <2>1. cache' \in Caches /\ UNCHANGED <<pod, sandbox, file>> /\ saves' = {} /\ listing' = {}
    BY <1>1, <1>2, <1>4 DEF RestartPlugin, CacheTypes
  <2>2. restarts' \in 0..MaxRestarts /\ connected' = FALSE
    BY <1>1, <1>4, NriCacheAssumption DEF RestartPlugin, ClusterTypes
  <2>3. ClusterTypes' /\ CacheTypes'
    BY <1>1, <2>1, <2>2 DEF ClusterTypes, CacheTypes
  <2>4. /\ flight' = [p \in Pods |-> NoFlight] /\ late' = {}
        /\ informer' = [p \in Pods |-> "unknown"]
        /\ prewarm' = [p \in Pods |-> "none"] /\ permits' = 0
    BY <1>4 DEF RestartPlugin
  <2>5. /\ call' \in [Pods -> [Containers -> {"none", "missed", "waiting", "started", "leaked", "refused"}]]
        /\ \A p \in Pods : \A c \in Containers : call'[p][c] # "waiting"
    BY <1>1, <1>4 DEF RestartPlugin, CallTypes
  <2>6. NoFlight \in Flights /\ NoFlight.step = "none"
    BY DEF NoFlight, Flights, FlightSteps
  <2>7. CallTypes' /\ FetchesMiss' /\ WaitersHaveAFlight'
    BY <2>4, <2>5, <2>6 DEF CallTypes, FetchesMiss, WaitersHaveAFlight
  <2>8. Prewarming' = {}
    BY <2>4 DEF Prewarming
  <2>9. PrewarmTypes' /\ PermitsCounted'
    BY <2>4, <2>8, FS_EmptySet, NriCacheAssumption DEF PrewarmTypes, PermitsCounted
  <2> QED BY <2>3, <2>7, <2>9, CacheInvPartsNext
<1> QED BY <1>3, <1>4

-----------------------------------------------------------------------------
(* The whole node *)

LEMMA InitCacheInv == Init => CacheInv
<1> SUFFICES ASSUME Init PROVE CacheInv
  OBVIOUS
<1> USE DEF Init
<1>1. NoFlight \in Flights /\ NoFlight.step = "none"
  BY DEF NoFlight, Flights, FlightSteps
<1>2. NoMappings \in Caches
  BY DEF NoMappings, Caches
<1>3. ClusterTypes /\ CacheTypes /\ CallTypes
  <2>1. ClusterTypes
    <3>1. 0 \in 0..MaxRestarts
      BY NriCacheAssumption
    <3> QED BY <3>1 DEF ClusterTypes
  <2>2. CacheTypes /\ CallTypes
    BY <1>1, <1>2 DEF CacheTypes, CallTypes
  <2> QED BY <2>1, <2>2
<1>4. FetchesMiss /\ WaitersHaveAFlight
  BY <1>1 DEF FetchesMiss, WaitersHaveAFlight
<1>5. Prewarming = {}
  BY DEF Prewarming
<1>6. PrewarmTypes /\ PermitsCounted
  BY <1>5, FS_EmptySet, NriCacheAssumption DEF PrewarmTypes, PermitsCounted
<1> QED BY <1>3, <1>4, <1>6, CacheInvParts

\* Every step of the node keeps the invariant.
LEMMA NextCacheInv == CacheInv /\ [Next]_vars => CacheInv'
<1> SUFFICES ASSUME CacheInv, [Next]_vars PROVE CacheInv'
  OBVIOUS
<1>1. ASSUME NEW p \in Pods, PodNext(p) PROVE CacheInv'
  BY <1>1, ClusterStep, ContextStep, JoinStep, OnAddStep, EvictStep, FlightStep DEF PodNext
<1>2. ASSUME NEW p \in Pods, NEW c \in Containers, ContainerNext(p, c) PROVE CacheInv'
  BY <1>2, ContainerStep, JoinStep DEF ContainerNext
<1>3. CASE Synchronize \/ SweepEvict
  BY <1>3, EvictStep
<1>4. CASE Disconnect \/ SweepList
  BY <1>4, ContextStep, ClusterStep
<1>5. CASE RestartPlugin \/ \E s \in saves : SaveLands(s) \/ SaveFails(s)
  BY <1>5, FileStep
<1>6. CASE UNCHANGED vars
  BY <1>6 DEF vars, podVars, callVars, CacheInv, NriCacheTypeOK, FetchesMiss, PermitsCounted,
     Prewarming, WaitersHaveAFlight
<1> QED BY <1>1, <1>2, <1>3, <1>4, <1>5, <1>6 DEF Next

\* In every state the node gets into, for any number of pods, containers and
\* permits: who waits waits for a flight that goes on, every permit of the
\* prewarmer's semaphore is held by a goroutine that gives it back, and a fetch
\* goes on only while nothing is cached for its pod.
THEOREM SpecCacheInv == Spec => []CacheInv
BY InitCacheInv, NextCacheInv, PTL DEF Spec

\* The fields of the plugin keep their types: the semaphore is never released
\* more often than acquired, nor acquired beyond cfg.NRI.Prewarmer.MaxConcurrent.
THEOREM SpecNriCacheTypeOK == Spec => []NriCacheTypeOK
<1>1. CacheInv => NriCacheTypeOK
  BY DEF CacheInv
<1> QED BY <1>1, SpecCacheInv, PTL

\* However many containers, prewarms and evictions race for one pod, and however
\* stale the listing of the sweeper, a mapping that is cached stays until it is
\* evicted: resolveMappingWithSource never puts a second set of credentials in
\* its place.
THEOREM SpecMappingNeverReplaced == Spec => MappingNeverReplaced
<1> DEFINE Kept == \A p \in Pods : cache[p] # 0 /\ restarts' = restarts => cache'[p] \in {0, cache[p]}
<1>1. CacheInv /\ Next => Kept
  <2> SUFFICES ASSUME CacheInv, Next PROVE Kept
    OBVIOUS
  <2>1. ASSUME NEW ps \in SUBSET Pods, Evict(ps) PROVE Kept
    BY <2>1 DEF Evict, CacheInv, NriCacheTypeOK, Caches
  <2>2. CASE Synchronize \/ SweepEvict \/ \E p \in Pods : RemovePodSandbox(p) \/ OnDelete(p)
    BY <2>1, <2>2 DEF Synchronize, SweepEvict, RemovePodSandbox, OnDelete
  <2>3. ASSUME NEW p \in Pods, ReadCreds(p) PROVE Kept
    BY <2>3 DEF ReadCreds, CacheInv, NriCacheTypeOK, Caches, FetchesMiss
  <2>4. CASE RestartPlugin
    BY <2>4 DEF RestartPlugin, CacheInv, NriCacheTypeOK
  <2>5. CASE UNCHANGED cache
    BY <2>5
  <2> QED
    BY <2>2, <2>3, <2>4, <2>5 DEF Next, PodNext, ContainerNext, CreatePod, TerminatePod,
       DeletePod, RunSandbox, LoseSandbox, OnAdd, PrewarmJoins, LeaderTimeout, Recheck,
       GetPodAndLogin, FetchFails, FlightReturns, CreateContainer, ContainerJoins,
       FetchTimeout, ContainerdGivesUp, ContainerExits, Disconnect, SweepList, SaveLands, SaveFails
<1>2. CacheInv /\ [Next]_vars => [Kept]_vars
  BY <1>1
<1> HIDE DEF Kept
<1>3. [][Kept]_vars => MappingNeverReplaced
  BY DEF Kept, MappingNeverReplaced
<1> QED BY <1>2, <1>3, SpecCacheInv, PTL DEF Spec
=============================================================================
