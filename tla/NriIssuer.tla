----------------------------- MODULE NriIssuer -----------------------------
(***************************************************************************)
(* The NRI plugin as an issuer of credentials: resolveMapping's cache and  *)
(* singleflight, fetchAndBuildMapping call by call, the asynchronous write *)
(* of the KV bookkeeping entry, and the loss of it all when the plugin     *)
(* process exits. One plugin serves every pod.                             *)
(***************************************************************************)
EXTENDS Platform

CONSTANTS
  Injected,       \* the labelled pods whose containers carry placeholders
  UseProjectedSA  \* cfg.UseProjectedSA

ASSUME NriIssuerAssumption == Injected \subseteq Pods /\ UseProjectedSA \in BOOLEAN

VARIABLES
  fetch,    \* fetch[p]: the fetch in flight for p under p's singleflight key
  tries,    \* tries[p]: how many fetches were started for p
  cache,    \* cache[p]: the tokens behind p's cached mapping, {} when none
  using,    \* using[p]: the tokens behind the env of p's containers
  pending   \* the KeyInfos the StoreDataAsync goroutines have yet to write

issuerVars == <<fetch, tries, cache, using, pending>>

-----------------------------------------------------------------------------

NoFetch == [step |-> "none", db |-> 1]

\* "login": about to log in for dbConfig db; "creds": logged in, about to read
\* the database credentials; "merged": every dbConfig is done.
FetchSteps == {"none", "login", "creds", "merged"}

Fetches == [step : FetchSteps, db : DbConfs]

TokenOf(p, d) == [pod |-> p, db |-> d, try |-> tries[p]]

\* liveConns: the dbConfigs of the running fetch whose login succeeded.
LiveConns(p) ==
  {d \in DbConfs :
     \/ fetch[p].step = "merged"
     \/ fetch[p].step = "creds" /\ d <= fetch[p].db
     \/ fetch[p].step = "login" /\ d < fetch[p].db}

FetchTokens(p) == {TokenOf(p, d) : d \in LiveConns(p)}

-----------------------------------------------------------------------------
(* fetchAndBuildMapping under resolveMapping's singleflight *)

\* (variant) No singleflight: a fetch is started over the running one.
StartFetchUnguarded(p) ==
  /\ p \in Injected
  /\ pod[p] = "live"
  /\ tries[p] < MaxTries
  /\ tries' = [tries EXCEPT ![p] = @ + 1]
  /\ fetch' = [fetch EXCEPT ![p] = [step |-> "login", db |-> 1]]
  /\ UNCHANGED <<platformVars, cache, using, pending>>

\* Placeholders, a cache miss and no flight for p: GET the pod from the kube-apiserver and
\* check its UID against the sandbox's. A pod that is not there is an error.
StartFetch(p) ==
  /\ p \in Injected
  /\ cache[p] = {}
  /\ fetch[p].step = "none"
  /\ pod[p] = "live"
  /\ tries[p] < MaxTries
  /\ tries' = [tries EXCEPT ![p] = @ + 1]
  /\ fetch' = [fetch EXCEPT ![p] = [step |-> "login", db |-> 1]]
  /\ UNCHANGED <<platformVars, cache, using, pending>>

\* The token that will carry the lease comes to exist: the pod-token of Login
\* in projected mode, the orphan token of GetDbCredentials in legacy mode.
ObtainToken(p) ==
  /\ fetch[p].step = "login"
  /\ token' = [token EXCEPT ![TokenOf(p, fetch[p].db)] = "valid"]
  /\ fetch' = [fetch EXCEPT ![p] = [step |-> "creds", db |-> fetch[p].db]]
  /\ UNCHANGED <<pod, deadLease, kv, meta, faulted, tries, cache, using, pending>>

\* (variant) The loop runs past the last dbConfig.
GetDbCredentialsPastLast(p) ==
  /\ fetch[p].step = "creds"
  /\ pending' = pending \cup {NewKeyInfo(TokenOf(p, fetch[p].db))}
  /\ fetch' = [fetch EXCEPT ![p] = [step |-> "login", db |-> fetch[p].db + 1]]
  /\ UNCHANGED <<platformVars, tries, cache, using>>

\* The credentials are read and the bookkeeping write is fired and forgotten.
GetDbCredentials(p) ==
  /\ fetch[p].step = "creds"
  /\ pending' = pending \cup {NewKeyInfo(TokenOf(p, fetch[p].db))}
  /\ fetch' = [fetch EXCEPT ![p] =
                 IF fetch[p].db = NumDb
                   THEN [step |-> "merged", db |-> NumDb]
                   ELSE [step |-> "login", db |-> fetch[p].db + 1]]
  /\ UNCHANGED <<platformVars, tries, cache, using>>

\* (variant) A connector is noted for the cleanup once its credentials are read.
FailFetchCleansRead(p) ==
  LET read == {TokenOf(p, d) : d \in {c \in LiveConns(p) :
                                        fetch[p].step = "merged" \/ c < fetch[p].db}}
  IN /\ fetch[p].step # "none"
     /\ IF UseProjectedSA
          THEN token' = [t \in Tokens |-> IF t \in read THEN "revoked" ELSE token[t]]
          ELSE UNCHANGED token
     /\ fetch' = [fetch EXCEPT ![p] = NoFetch]
     /\ UNCHANGED <<pod, deadLease, kv, meta, faulted, tries, cache, using, pending>>

\* Any step of the fetch returns an error. In projected mode the deferred
\* cleanup revokes the pod-token of every connector that logged in; a revoke
\* that fails is only logged. In legacy mode there is no cleanup.
FailFetch(p) ==
  /\ fetch[p].step # "none"
  /\ IF UseProjectedSA
       THEN \E failed \in SUBSET FetchTokens(p) :
              /\ token' = [t \in Tokens |->
                             IF t \in FetchTokens(p) \ failed THEN "revoked" ELSE token[t]]
              /\ faulted' = faulted \cup failed
       ELSE UNCHANGED <<token, faulted>>
  /\ fetch' = [fetch EXCEPT ![p] = NoFetch]
  /\ UNCHANGED <<pod, deadLease, kv, meta, tries, cache, using, pending>>

\* (variant) The cleanup of the connectors may still run.
FinishFetchStillDirty(p) ==
  /\ fetch[p].step = "merged"
  /\ cache' = [cache EXCEPT ![p] = FetchTokens(p)]
  /\ UNCHANGED <<platformVars, fetch, tries, using, pending>>

\* The mapping enters the cache, whatever became of the pod meanwhile.
FinishFetch(p) ==
  /\ fetch[p].step = "merged"
  /\ cache' = [cache EXCEPT ![p] = FetchTokens(p)]
  /\ fetch' = [fetch EXCEPT ![p] = NoFetch]
  /\ UNCHANGED <<platformVars, tries, using, pending>>

-----------------------------------------------------------------------------
(* The rest of the plugin *)

\* CreateContainer substitutes the cached mapping into a container's env.
CreateContainer(p) ==
  /\ cache[p] # {}
  /\ using' = [using EXCEPT ![p] = @ \cup cache[p]]
  /\ UNCHANGED <<platformVars, fetch, tries, cache, pending>>

\* The sandbox is removed: with the pod, or to be recreated for the same pod.
RemovePodSandbox(p) ==
  /\ cache[p] # {} \/ using[p] # {}
  /\ cache' = [cache EXCEPT ![p] = {}]
  /\ using' = [using EXCEPT ![p] = {}]
  /\ UNCHANGED <<platformVars, fetch, tries, pending>>

\* The goroutine of StoreDataAsync for ki: the put succeeds, or it fails.
StoreLands(ki) ==
  /\ ki \in pending
  /\ pending' = pending \ {ki}
  /\ StoreData(ki)
  /\ UNCHANGED <<pod, token, deadLease, faulted, fetch, tries, cache, using>>

StoreIsLost(ki) ==
  /\ ki \in pending
  /\ pending' = pending \ {ki}
  /\ StoreDataFails(ki)
  /\ faulted' = faulted \cup {ki.token}
  /\ UNCHANGED <<pod, token, deadLease, fetch, tries, cache, using>>

\* The plugin process exits and starts again. Fetches and pending writes die
\* with it; the cache is reloaded from its file, which may lack a mapping that
\* was not saved yet, or all of them when the file was lost.
RestartPlugin ==
  /\ fetch' = [p \in Pods |-> NoFetch]
  /\ pending' = {}
  /\ \E saved \in SUBSET Pods :
       cache' = [p \in Pods |-> IF p \in saved THEN cache[p] ELSE {}]
  /\ faulted' = faulted \cup {ki.token : ki \in pending} \cup UNION {FetchTokens(p) : p \in Pods}
  /\ UNCHANGED <<pod, token, deadLease, kv, meta, tries, using>>

-----------------------------------------------------------------------------

IssuerTypeOK ==
  /\ fetch \in [Pods -> Fetches]
  /\ tries \in [Pods -> 0..MaxTries]
  /\ cache \in [Pods -> SUBSET Tokens]
  /\ using \in [Pods -> SUBSET Tokens]
  /\ pending \subseteq KeyInfo

IssuerInit ==
  /\ fetch = [p \in Pods |-> NoFetch]
  /\ tries = [p \in Pods |-> 0]
  /\ cache = [p \in Pods |-> {}]
  /\ using = [p \in Pods |-> {}]
  /\ pending = {}

IssuerNext ==
  \/ \E p \in Pods :
       \/ StartFetch(p) \/ ObtainToken(p) \/ GetDbCredentials(p)
       \/ FailFetch(p) \/ FinishFetch(p)
       \/ CreateContainer(p) \/ RemovePodSandbox(p)
  \/ \E ki \in pending : StoreLands(ki) \/ StoreIsLost(ki)
  \/ RestartPlugin
=============================================================================
