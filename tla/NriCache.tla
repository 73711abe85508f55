------------------------------ MODULE NriCache ------------------------------
(***************************************************************************)
(* The mapping cache of one node's NRI plugin and everything that reads or *)
(* changes it: CreateContainer with its singleflight, the prewarmer and    *)
(* its semaphore, RemovePodSandbox, Synchronize, the sweeper, the cache    *)
(* file and the restart of the plugin. A fetch is a flight that several    *)
(* callers may wait for; what it obtains from Vault is in NriIssuer.       *)
(***************************************************************************)
EXTENDS Integers, FiniteSets

CONSTANTS
  Pods,           \* pod UIDs scheduled to this node, all of them labelled
  Containers,     \* the container names of a pod
  Placeholders,   \* the pods whose env carries placeholders of a dbConfiguration
  MaxConcurrent,  \* cfg.NRI.Prewarmer.MaxConcurrent
  MaxSaves,       \* bound on the saveCache calls under way at once
  MaxRestarts     \* bound on the restarts of the plugin process

ASSUME NriCacheAssumption ==
  /\ Placeholders \subseteq Pods
  /\ "prewarm" \notin Containers
  /\ MaxConcurrent \in Nat \ {0}
  /\ MaxSaves \in Nat \ {0}
  /\ MaxRestarts \in Nat

VARIABLES
  pod,        \* pod[p]: p's state in the kube-apiserver
  sandbox,    \* the pods whose sandbox exists in containerd
  connected,  \* the plugin is registered with containerd
  informer,   \* informer[p]: what the prewarmer's informer has delivered of p
  cache,      \* cache[p]: which mapping is cached for p, 0 when none
  flight,     \* flight[p]: the singleflight call for p
  call,       \* call[p][c]: the CreateContainer call for container c of p
  late,       \* the CreateContainer calls whose FetchTimeout has expired
  prewarm,    \* prewarm[p]: the prewarmer's goroutine for p
  permits,    \* the permits taken from the prewarmer's semaphore
  listing,    \* the sweeper's pod listing ps as {ps}, {} when it is idle
  saves,      \* the saveCache calls under way, each with its snapshot
  file,       \* what the cache file holds
  restarts    \* how often the plugin process has restarted

podVars == <<pod, sandbox, connected>>
callVars == <<flight, call, late, prewarm, permits>>
vars == <<podVars, informer, cache, callVars, listing, saves, file, restarts>>

-----------------------------------------------------------------------------
(* Mappings, flights, saves *)

\* A mapping just obtained is told apart from the one that is cached, no more.
Mappings == 1..2

Caches == [Pods -> {0} \cup Mappings]

NextMapping(p) == IF cache[p] = 1 THEN 2 ELSE 1

NoMappings == [p \in Pods |-> 0]

\* "checking": the slot is taken, the cache is about to be looked at again;
\* "fetching": calls that end with the leader's context; "reading": the read
\* of the credentials, which is given no context; "saving": the mapping is
\* cached. "late": the context of the leader is done.
FlightSteps == {"none", "checking", "fetching", "reading", "saving"}

NoFlight == [step |-> "none", by |-> "prewarm", late |-> FALSE]

Flights == [step : FlightSteps, by : Containers \cup {"prewarm"}, late : BOOLEAN]

\* A save belongs to the flight of a pod or to an eviction.
Saves == [by : Pods \cup {"evict"}, snapshot : Caches]

OnNode == {p \in Pods : pod[p] \in {"live", "terminating"}}

\* snapshot() as of now, once the pods of a set are evicted, and its saveCache:
\* nothing is saved when none of them was cached.
Evict(evicted) ==
  LET stale == {p \in evicted : cache[p] # 0}
      kept == [p \in Pods |-> IF p \in stale THEN 0 ELSE cache[p]]
  IN /\ Cardinality(saves) < MaxSaves
     /\ cache' = kept
     /\ saves' = IF stale = {} THEN saves
                               ELSE saves \cup {[by |-> "evict", snapshot |-> kept]}

\* (variant) A prewarm that fails returns before it releases its permit.
AnswerKeepingPermit(p, answer) ==
  /\ flight' = [flight EXCEPT ![p] = NoFlight]
  /\ call' = [call EXCEPT ![p] =
                [c \in Containers |-> IF @[c] = "waiting" THEN answer ELSE @[c]]]
  /\ late' = {l \in late : l[1] # p \/ call[p][l[2]] # "waiting"}
  /\ prewarm' = [prewarm EXCEPT ![p] = IF @ = "waiting" THEN "none" ELSE @]
  /\ permits' = IF prewarm[p] = "waiting" /\ answer # "refused" THEN permits - 1 ELSE permits

\* (variant) Whoever leads the flight, a permit is given back.
AnswerAlwaysReleasing(p, answer) ==
  /\ flight' = [flight EXCEPT ![p] = NoFlight]
  /\ call' = [call EXCEPT ![p] =
                [c \in Containers |-> IF @[c] = "waiting" THEN answer ELSE @[c]]]
  /\ late' = {l \in late : l[1] # p \/ call[p][l[2]] # "waiting"}
  /\ prewarm' = [prewarm EXCEPT ![p] = IF @ = "waiting" THEN "none" ELSE @]
  /\ permits' = permits - 1

\* (variant) The callers that joined the flight are not told.
AnswerLeaderOnly(p, answer) ==
  /\ flight' = [flight EXCEPT ![p] = NoFlight]
  /\ call' = [call EXCEPT ![p] =
                [c \in Containers |-> IF @[c] = "waiting" /\ c = flight[p].by THEN answer ELSE @[c]]]
  /\ late' = {l \in late : l[1] # p \/ call[p][l[2]] # "waiting"}
  /\ prewarm' = [prewarm EXCEPT ![p] = IF @ = "waiting" THEN "none" ELSE @]
  /\ permits' = IF prewarm[p] = "waiting" THEN permits - 1 ELSE permits

\* Everybody who waits for the flight of p gets its answer. The prewarmer's
\* goroutine ends and gives its permit back.
Answer(p, answer) ==
  /\ flight' = [flight EXCEPT ![p] = NoFlight]
  /\ call' = [call EXCEPT ![p] =
                [c \in Containers |-> IF @[c] = "waiting" THEN answer ELSE @[c]]]
  /\ late' = {l \in late : l[1] # p \/ call[p][l[2]] # "waiting"}
  /\ prewarm' = [prewarm EXCEPT ![p] = IF @ = "waiting" THEN "none" ELSE @]
  /\ permits' = IF prewarm[p] = "waiting" THEN permits - 1 ELSE permits

-----------------------------------------------------------------------------
(* The cluster and containerd *)

CreatePod(p) ==
  /\ pod[p] = "absent"
  /\ pod' = [pod EXCEPT ![p] = "live"]
  /\ UNCHANGED <<sandbox, connected, informer, cache, callVars, listing, saves, file, restarts>>

\* The pod gets a deletion timestamp.
TerminatePod(p) ==
  /\ pod[p] = "live"
  /\ pod' = [pod EXCEPT ![p] = "terminating"]
  /\ UNCHANGED <<sandbox, connected, informer, cache, callVars, listing, saves, file, restarts>>

\* The pod leaves the kube-apiserver, at once when it is force-deleted.
DeletePod(p) ==
  /\ p \in OnNode
  /\ pod' = [pod EXCEPT ![p] = "gone"]
  /\ UNCHANGED <<sandbox, connected, informer, cache, callVars, listing, saves, file, restarts>>

RunSandbox(p) ==
  /\ pod[p] = "live"
  /\ p \notin sandbox
  /\ sandbox' = sandbox \cup {p}
  /\ UNCHANGED <<pod, connected, informer, cache, callVars, listing, saves, file, restarts>>

\* The calls of a pod's containers end with its sandbox.
DropCalls(ps) ==
  /\ call' = [p \in Pods |-> IF p \in ps THEN [c \in Containers |-> "none"] ELSE call[p]]
  /\ late' = {l \in late : l[1] \notin ps}

\* A sandbox goes without the plugin being told: a force-deleted pod, or one
\* removed while the plugin is not connected.
LoseSandbox(p) ==
  /\ p \in sandbox
  /\ pod[p] = "gone" \/ ~connected
  /\ sandbox' = sandbox \ {p}
  /\ DropCalls({p})
  /\ UNCHANGED <<pod, connected, informer, cache, flight, prewarm, permits, listing, saves, file, restarts>>

\* A container that ran, or was refused, will be created again by the kubelet.
ContainerExits(p, c) ==
  /\ call[p][c] \in {"started", "leaked", "refused"}
  /\ call' = [call EXCEPT ![p][c] = "none"]
  /\ UNCHANGED <<podVars, informer, cache, flight, late, prewarm, permits, listing, saves, file, restarts>>

\* containerd closes the connection: the requests under way, and the flights
\* they lead, lose their context.
Disconnect ==
  /\ connected
  /\ connected' = FALSE
  /\ flight' = [p \in Pods |-> IF flight[p].step # "none" /\ flight[p].by # "prewarm"
                                 THEN [flight[p] EXCEPT !.late = TRUE] ELSE flight[p]]
  /\ call' = [p \in Pods |-> [c \in Containers |->
                IF call[p][c] \in {"missed", "waiting"} THEN "none" ELSE call[p][c]]]
  /\ late' = {}
  /\ UNCHANGED <<pod, sandbox, informer, cache, prewarm, permits, listing, saves, file, restarts>>

\* The connection is back: containerd sends the sandboxes it has, and every
\* mapping of another pod is evicted.
Synchronize ==
  /\ ~connected
  /\ connected' = TRUE
  /\ Evict(Pods \ sandbox)
  /\ UNCHANGED <<pod, sandbox, informer, callVars, listing, file, restarts>>

-----------------------------------------------------------------------------
(* CreateContainer, RemovePodSandbox *)

\* The container's env carries placeholders: a cached mapping is substituted at
\* once, a miss leads to the singleflight.
CreateContainer(p, c) ==
  /\ connected
  /\ p \in sandbox \cap Placeholders
  /\ pod[p] = "live"
  /\ call[p][c] = "none"
  /\ call' = [call EXCEPT ![p][c] = IF cache[p] # 0 THEN "started" ELSE "missed"]
  /\ UNCHANGED <<podVars, informer, cache, flight, late, prewarm, permits, listing, saves, file, restarts>>

\* sf.Do: the first caller leads a flight of its own, the others wait for it.
Join(p, by, expired) ==
  flight' = IF flight[p].step = "none"
              THEN [flight EXCEPT ![p] = [step |-> "checking", by |-> by, late |-> expired]]
              ELSE flight

ContainerJoins(p, c) ==
  /\ call[p][c] = "missed"
  /\ Join(p, c, <<p, c>> \in late)
  /\ call' = [call EXCEPT ![p][c] = "waiting"]
  /\ UNCHANGED <<podVars, informer, cache, late, prewarm, permits, listing, saves, file, restarts>>

\* FetchTimeout after CreateContainer was entered. The flight it leads loses its
\* context; a flight it only joined does not notice.
FetchTimeout(p, c) ==
  /\ call[p][c] \in {"missed", "waiting"}
  /\ <<p, c>> \notin late
  /\ late' = late \cup {<<p, c>>}
  /\ flight' = IF flight[p].step # "none" /\ flight[p].by = c
                  THEN [flight EXCEPT ![p].late = TRUE] ELSE flight
  /\ UNCHANGED <<podVars, informer, cache, call, prewarm, permits, listing, saves, file, restarts>>

\* The plugin answers promptly only when the call under way ends with a context
\* that is done.
AnswersSoon(p) == flight[p].step = "fetching" /\ flight[p].late

\* containerd's plugin_request_timeout, which is longer than FetchTimeout: the
\* container starts with the env it came with.
ContainerdGivesUp(p, c) ==
  /\ call[p][c] = "waiting"
  /\ <<p, c>> \in late
  /\ flight[p].step \in {"fetching", "reading"}
  /\ ~AnswersSoon(p)
  /\ call' = [call EXCEPT ![p][c] = "leaked"]
  /\ late' = late \ {<<p, c>>}
  /\ UNCHANGED <<podVars, informer, cache, flight, prewarm, permits, listing, saves, file, restarts>>

RemovePodSandbox(p) ==
  /\ connected
  /\ p \in sandbox
  /\ sandbox' = sandbox \ {p}
  /\ DropCalls({p})
  /\ Evict({p})
  /\ UNCHANGED <<pod, connected, informer, flight, prewarm, permits, listing, file, restarts>>

-----------------------------------------------------------------------------
(* The prewarmer *)

\* The informer delivers p, as it is or as it was before it was marked for
\* deletion: nothing is fetched for a terminating pod or without a permit.
OnAdd(p) ==
  /\ informer[p] = "unknown"
  /\ p \in OnNode
  /\ informer' = [informer EXCEPT ![p] = "added"]
  /\ \E terminating \in {pod[p] = "terminating", FALSE} :
       LET skipped == terminating \/ permits = MaxConcurrent \/ cache[p] # 0
       IN /\ prewarm' = [prewarm EXCEPT ![p] = IF skipped THEN "none" ELSE "missed"]
          /\ permits' = IF skipped THEN permits ELSE permits + 1
  /\ UNCHANGED <<podVars, cache, flight, call, late, listing, saves, file, restarts>>

PrewarmJoins(p) ==
  /\ prewarm[p] = "missed"
  /\ Join(p, "prewarm", FALSE)
  /\ prewarm' = [prewarm EXCEPT ![p] = "waiting"]
  /\ UNCHANGED <<podVars, informer, cache, call, late, permits, listing, saves, file, restarts>>

\* The 30 s of a prewarm, or the FetchTimeout of a caller that is gone.
LeaderTimeout(p) ==
  /\ flight[p].step # "none"
  /\ flight[p].by \in Containers => call[p][flight[p].by] # "waiting"
  /\ ~flight[p].late
  /\ flight' = [flight EXCEPT ![p].late = TRUE]
  /\ UNCHANGED <<podVars, informer, cache, call, late, prewarm, permits, listing, saves, file, restarts>>

OnDelete(p) ==
  /\ informer[p] = "added"
  /\ pod[p] = "gone"
  /\ informer' = [informer EXCEPT ![p] = "deleted"]
  /\ Evict({p})
  /\ UNCHANGED <<podVars, callVars, listing, file, restarts>>

-----------------------------------------------------------------------------
(* The flight *)

\* (variant) The cache is not looked at again under the singleflight slot.
RecheckSkipped(p) ==
  /\ flight[p].step = "checking"
  /\ flight' = [flight EXCEPT ![p].step = "fetching"]
  /\ UNCHANGED <<podVars, informer, cache, call, late, prewarm, permits, listing, saves, file, restarts>>

\* A caller that was just ahead may have populated the cache.
Recheck(p) ==
  /\ flight[p].step = "checking"
  /\ IF cache[p] # 0
       THEN Answer(p, "started")
       ELSE /\ flight' = [flight EXCEPT ![p].step = "fetching"]
            /\ UNCHANGED <<call, late, prewarm, permits>>
  /\ UNCHANGED <<podVars, informer, cache, listing, saves, file, restarts>>

\* The calls of fetchAndBuildMapping up to the read of the credentials.
GetPodAndLogin(p) ==
  /\ flight[p].step = "fetching"
  /\ ~flight[p].late
  /\ p \in OnNode
  /\ flight' = [flight EXCEPT ![p].step = "reading"]
  /\ UNCHANGED <<podVars, informer, cache, call, late, prewarm, permits, listing, saves, file, restarts>>

\* The credentials are there, whatever became of the leader's context and of
\* the pod: the mapping is cached and saved.
ReadCreds(p) ==
  LET cached == [cache EXCEPT ![p] = NextMapping(p)]
  IN /\ flight[p].step = "reading"
     /\ p \in Placeholders
     /\ Cardinality(saves) < MaxSaves
     /\ cache' = cached
     /\ saves' = saves \cup {[by |-> p, snapshot |-> cached]}
     /\ flight' = [flight EXCEPT ![p].step = "saving"]
     /\ UNCHANGED <<podVars, informer, call, late, prewarm, permits, listing, file, restarts>>

\* Any call fails: the pod is not there or has no dbConfiguration, its UID is
\* another, Vault refuses, the context is done. Every waiting container is refused.
FetchFails(p) ==
  /\ flight[p].step \in {"fetching", "reading"}
  /\ Answer(p, "refused")
  /\ UNCHANGED <<podVars, informer, cache, listing, saves, file, restarts>>

FlightReturns(p) ==
  /\ flight[p].step = "saving"
  /\ \A s \in saves : s.by # p
  /\ Answer(p, "started")
  /\ UNCHANGED <<podVars, informer, cache, listing, saves, file, restarts>>

-----------------------------------------------------------------------------
(* The sweeper, the cache file, the restart *)

SweepList ==
  /\ listing = {}
  /\ listing' = {OnNode}
  /\ UNCHANGED <<podVars, informer, cache, callVars, saves, file, restarts>>

\* (variant) A listing without pods is taken for a failed one.
SweepEvictUnlessEmpty ==
  /\ listing # {}
  /\ listing' = {}
  /\ IF listing = {{}} THEN UNCHANGED <<cache, saves>> ELSE Evict(Pods \ UNION listing)
  /\ UNCHANGED <<podVars, informer, callVars, file, restarts>>

\* Whatever is cached and was not listed goes, the pods created since included.
SweepEvict ==
  /\ listing # {}
  /\ listing' = {}
  /\ Evict(Pods \ UNION listing)
  /\ UNCHANGED <<podVars, informer, callVars, file, restarts>>

\* saveCache renames its temporary file over the cache file. Saves that overlap
\* write the same temporary file: either content may be found, or neither.
SaveLands(s) ==
  /\ s \in saves
  /\ saves' = saves \ {s}
  /\ \/ file' = s.snapshot
     \/ \E other \in saves \ {s} : file' \in {other.snapshot, NoMappings}
  /\ UNCHANGED <<podVars, informer, cache, callVars, listing, restarts>>

\* A save that fails is logged.
SaveFails(s) ==
  /\ s \in saves
  /\ saves' = saves \ {s}
  /\ UNCHANGED <<podVars, informer, cache, callVars, listing, file, restarts>>

\* The process exits and starts again: loadCache finds the file, or another
\* tmpfs after a reboot of the node. Requests, flights and goroutines are gone.
RestartPlugin ==
  /\ restarts < MaxRestarts
  /\ restarts' = restarts + 1
  /\ cache' \in {file, NoMappings}
  /\ connected' = FALSE
  /\ informer' = [p \in Pods |-> "unknown"]
  /\ flight' = [p \in Pods |-> NoFlight]
  /\ call' = [p \in Pods |-> [c \in Containers |->
                IF call[p][c] \in {"missed", "waiting"} THEN "none" ELSE call[p][c]]]
  /\ late' = {}
  /\ prewarm' = [p \in Pods |-> "none"]
  /\ permits' = 0
  /\ listing' = {}
  /\ saves' = {}
  /\ UNCHANGED <<pod, sandbox, file>>

-----------------------------------------------------------------------------
(* The specification *)

Init ==
  /\ pod = [p \in Pods |-> "absent"]
  /\ sandbox = {}
  /\ connected = FALSE
  /\ informer = [p \in Pods |-> "unknown"]
  /\ cache = NoMappings
  /\ flight = [p \in Pods |-> NoFlight]
  /\ call = [p \in Pods |-> [c \in Containers |-> "none"]]
  /\ late = {}
  /\ prewarm = [p \in Pods |-> "none"]
  /\ permits = 0
  /\ listing = {}
  /\ saves = {}
  /\ file = NoMappings
  /\ restarts = 0

PodNext(p) ==
  \/ CreatePod(p) \/ TerminatePod(p) \/ DeletePod(p) \/ RunSandbox(p) \/ LoseSandbox(p)
  \/ RemovePodSandbox(p) \/ OnAdd(p) \/ OnDelete(p) \/ PrewarmJoins(p) \/ LeaderTimeout(p)
  \/ Recheck(p) \/ GetPodAndLogin(p) \/ ReadCreds(p) \/ FetchFails(p) \/ FlightReturns(p)

ContainerNext(p, c) ==
  \/ CreateContainer(p, c) \/ ContainerJoins(p, c) \/ FetchTimeout(p, c)
  \/ ContainerdGivesUp(p, c) \/ ContainerExits(p, c)

Next ==
  \/ \E p \in Pods : PodNext(p)
  \/ \E p \in Pods, c \in Containers : ContainerNext(p, c)
  \/ Disconnect \/ Synchronize \/ SweepList \/ SweepEvict \/ RestartPlugin
  \/ \E s \in saves : SaveLands(s) \/ SaveFails(s)

Spec == Init /\ [][Next]_vars

\* What runs goes on: the flight's own steps, whose calls all end, the informer,
\* the sweeper's ticker, the disk and the reconnection. A fetch that is tried
\* again and again succeeds in the end, and the kubelet keeps asking for a
\* container. Nothing says that a context expires or that a pod is deleted.
FlightEnds(p) == FetchFails(p) \/ ReadCreds(p)

Fairness ==
  /\ \A p \in Pods :
       /\ WF_vars(PrewarmJoins(p)) /\ WF_vars(Recheck(p)) /\ WF_vars(FlightReturns(p))
       /\ SF_vars(GetPodAndLogin(p)) /\ WF_vars(FlightEnds(p)) /\ SF_vars(ReadCreds(p))
       /\ \A c \in Containers :
            /\ WF_vars(CreateContainer(p, c) \/ ContainerJoins(p, c))
            /\ WF_vars(call[p][c] = "refused" /\ ContainerExits(p, c))
  /\ WF_vars(SweepList \/ SweepEvict) /\ WF_vars(Synchronize)
  /\ WF_vars(\E s \in saves : SaveLands(s) \/ SaveFails(s))

FairSpec == Spec /\ Fairness

-----------------------------------------------------------------------------
(* Properties *)

\* The variables hold what the plugin's fields can hold, and nothing outside a
\* flight waits for one.
NriCacheTypeOK ==
  /\ pod \in [Pods -> {"absent", "live", "terminating", "gone"}]
  /\ sandbox \subseteq Pods
  /\ connected \in BOOLEAN
  /\ informer \in [Pods -> {"unknown", "added", "deleted"}]
  /\ cache \in Caches /\ file \in Caches
  /\ flight \in [Pods -> Flights]
  /\ call \in [Pods -> [Containers -> {"none", "missed", "waiting", "started", "leaked", "refused"}]]
  /\ late \subseteq Pods \X Containers
  /\ prewarm \in [Pods -> {"none", "missed", "waiting"}]
  /\ permits \in 0..MaxConcurrent
  /\ listing \subseteq SUBSET Pods
  /\ saves \subseteq Saves
  /\ restarts \in 0..MaxRestarts

\* A fetch goes on only while there is nothing cached for its pod: the recheck
\* under the singleflight slot, and no other fetch for the pod since.
FetchesMiss == \A p \in Pods : flight[p].step \in {"fetching", "reading"} => cache[p] = 0

\* Every permit taken belongs to a goroutine of the prewarmer that will give it
\* back, one for a pod that the informer has delivered.
Prewarming == {p \in Pods : prewarm[p] # "none"}

PermitsCounted ==
  /\ IsFiniteSet(Prewarming)
  /\ permits = Cardinality(Prewarming)
  /\ \A p \in Pods : informer[p] = "unknown" => p \notin Prewarming

\* Nobody waits for a flight that has returned.
WaitersHaveAFlight ==
  \A p \in Pods : flight[p].step = "none" =>
    prewarm[p] # "waiting" /\ \A c \in Containers : call[p][c] # "waiting"

\* The inductive invariant of the cache, the semaphore and the singleflight:
\* whatever else goes on, an answer reaches everybody who waits for it and gives
\* back the permit that was taken (resolveMappingWithSource, onAdd).
CacheInv == NriCacheTypeOK /\ FetchesMiss /\ PermitsCounted /\ WaitersHaveAFlight

\* A mapping that is cached is never replaced by another one: containers of a
\* sandbox share one set of credentials, also when a prewarm and several
\* CreateContainer calls miss at the same time (resolveMappingWithSource).
MappingNeverReplaced ==
  [][\A p \in Pods : cache[p] # 0 /\ restarts' = restarts => cache'[p] \in {0, cache[p]}]_vars

\* The prewarmer's semaphore always has a permit again (sem.Release in the
\* goroutine of onAdd), whatever becomes of the fetches.
PermitsComeBack == []<>(permits < MaxConcurrent)

\* The mapping of a pod that left the cluster leaves the cache for good: also
\* when the fetch ends after the eviction, when RemovePodSandbox was missed, and
\* when a restart loads it from the file again (sweeper.go, persist.go).
DeadPodsEvicted == \A p \in Pods : (pod[p] = "gone") ~> [](cache[p] = 0)

\* A container that waits to be created starts in the end while its pod lives and
\* its sandbox stands, when the connection to containerd is not lost again and
\* again and not every context expires: a refusal, an eviction, a lost connection
\* or a restart only delay it.
ContainersStart ==
  <>[](connected /\ \A p \in Pods : ~flight[p].late) =>
    \A p \in Placeholders, c \in Containers :
      (pod[p] = "live" /\ p \in sandbox)
        ~> (call[p][c] \in {"started", "leaked"} \/ pod[p] # "live" \/ p \notin sandbox)

\* No container starts with its placeholders: FetchTimeout lets CreateContainer
\* fail before containerd gives up on it (plugin.go, CreateContainer).
NoPlaceholderLeaks == \A p \in Pods, c \in Containers : call[p][c] # "leaked"
=============================================================================
