# vault-db-injector in TLA+

vault-db-injector gives pods dynamic database credentials from Vault. Four
kinds of process, built from one binary, share the work and share no memory:
what one of them has done, another only learns from the kube-apiserver or from
Vault. This directory models the life of a credential across them (who issues
it, who may use it, who renews it, who revokes it and deletes its bookkeeping
entry), the life of the processes themselves (election, login tokens,
reconnection, shutdown and restart), and what becomes of one pod from its
annotations to the env of its containers. TLC checks it on small instances, and
TLAPS proves the safety properties for every number of pods and processes and for
any annotations, two of them under a hypothesis that the table names; see "What
is proved".

## The system

| Part | State it keeps | Operations | Talks to |
|---|---|---|---|
| Admission webhook (`pkg/k8smutator`) | per admission: the connectors that logged in (`liveConns`) | `injectCredentialsIntoPod` with `authorizeDbAccess`, `fetchDbCredentials` and a deferred cleanup; with NRI, placeholders and uuids instead of credentials | apiserver (admission), Vault |
| Injector server (`pkg/injector`) | two HTTP servers, `errCh`, `stopChan` | start, failure and shutdown | kubelet, apiserver |
| Bookkeeping token cache (`pkg/vault`) | a token with its validity, a singleflight group | `Get` | Vault |
| NRI plugin (`pkg/nri`), one per node | mapping cache, its file, a singleflight group, the prewarmer's semaphore, a stub connection | `CreateContainer`, `RemovePodSandbox`, `Synchronize`, `resolveMapping`/`fetchAndBuildMapping`, sweeper, prewarmer, reconnection | containerd, apiserver, Vault |
| Renewer (`pkg/renewer`, `SyncAndCleanupTokens`) | the uuids of the last complete listing, the metric series | every `SyncTTLSecond`: list the KV entries, list the pods, one goroutine per entry that renews token and lease, purges a lost lease, or writes the entry back | Vault, apiserver |
| Revoker (`pkg/revoker`) | the open pod watch | on a Deleted event, and every five minutes in `safetyNetSync`: `HandlePodDeletionToken` = revoke the token, then delete the KV entry | Vault, apiserver |
| Vault client (`pkg/vault`) | login token | `Login`, `GetDbCredentials`, `StoreDataAsync`, `ListKeyInfo`, `DeleteData`, `RevokeOrphanToken`, `StartTokenRenewal` | Vault |
| Leader election, controller, main (`pkg/leadership`, `pkg/controller`) | leader or not, stop channel, an errgroup per mode | start and stop of the above | apiserver, kubelet |
| Annotation parser, placeholders (`pkg/k8s`, `pkg/placeholder`) | none | `GetPodDbConfig`, `Generate`, `Substitute` | |

Vault holds the shared state: the tokens, the leases that hang on them, and a KV
v2 mount with one entry (`KeyInfo`) per dbConfiguration of a pod, keyed by the
uuid the webhook stamped into the pod's annotation, or by the pod's UID. The KV
entries are the only way the renewer and the revoker find a token.

What is hard here, and what the properties are about:

- *Stale views.* The safety net lists the KV entries, then the pods, and then
  acts on one entry after the other; the renewer writes back entries it read
  minutes before; the sweeper evicts by a listing. Pods and entries come and go
  in between, and users edit annotations.
- *Detached work.* The KV write of a fetch is fired and forgotten; it may land
  after the pod, the token or the whole fetch is gone, or never. A leader's job
  runs in a goroutine nobody waits for.
- *Shared work.* Containers and the prewarmer join one fetch, under the context
  of whoever came first; saves of the cache share a temporary file.
- *Partial failure.* A fetch or an admission is a loop of calls over the
  dbConfigurations, with a deferred cleanup. `HandlePodDeletionToken` is two or
  three calls. A listing may be partial. Each call may fail, with its effect
  applied or not, and each process may exit between two.
- *Lost events.* A closed watch is re-opened without a resource version.
- *Two leaders.* A replica that lost its lease may still be inside a sweep.
- *Shutdown.* An errgroup returns when all its members do, and some never do.

`PROJECT.json` lists each such hazard at its line, with the property that would
catch it.

## Modules

Three groups, over different state:

**The life of a credential** (tokens, leases, KV entries, pods of a cluster)

| Module | Models |
|---|---|
| `Platform` | the kube-apiserver's pods and Vault's tokens, leases and KV mount, and the calls of `pkg/vault` and `pkg/k8s` that read or change them, each with its failing form |
| `NriIssuer` | `resolveMapping` and `fetchAndBuildMapping` call by call, `StoreDataAsync`, `CreateContainer`, `RemovePodSandbox`, the plugin's restart |
| `WebhookIssuer` | `injectCredentialsIntoPod` call by call without NRI, in both modes, its cleanup, `StoreDataAsync`, the injector's restart |
| `Renewer` | `RenewTokenJob`'s sync and the goroutines of `SyncAndCleanupTokens` |
| `Revoker` | both goroutines of `RevokeTokenJob` |
| `NriLifecycle` | `NriIssuer`, `Renewer`, `Revoker` over one platform, and the properties |
| `WebhookLifecycle` | `WebhookIssuer`, `Renewer`, `Revoker` over one platform, and the properties |
| `CredentialContract` | the abstract specification: issued, given, revoked, with no KV entry, leader, cache or listing in it |
| `NriContract` | the refinement mapping from `NriLifecycle` to `CredentialContract` |
| `AdmissionContract` | the abstract specification without NRI: reviewed, issued, admitted, doomed, revoked |
| `WebhookContract` | the refinement mapping from `WebhookLifecycle` to `AdmissionContract`, and `AdmissionInv` |
| `KeyInfoCopies` | what the copies of KV entries are worth that renewers and revokers work on: the parts of the inductive invariants that both modes share |
| `NriInvariants` | the inductive invariants of `NriLifecycle`, in named parts: `IInv` for what is revoked, `TInv` for what is kept track of |
| `KeyInfoCopies_proofs` | lemmas about the steps of a renewer and of a revoker, whoever issues the credentials |
| `NriLifecycle_proofs` | the proof of `IInv`, and of the theorems that rest on it alone |
| `NriContract_proofs` | the proof that `NriLifecycle` implements `CredentialContract` |
| `NriTracking_proofs` | the proof of `TInv` and `ValidTokensTracked` |
| `WebhookLifecycle_proofs` | the proof of `WInv`, the inductive invariant of `WebhookLifecycle`, of `OnlySweepsTakeLive`, of `AdmissionInv`, and that `WebhookLifecycle` implements `AdmissionContract` |
| `MCNri`, `MCWebhook` | the instances TLC checks |

**The life of the processes** (one mode at a time: `mode` is `cfg.Mode`)

| Module | Models |
|---|---|
| `Processes` | a process with its errgroup context, health check server and metrics server, under SIGTERM |
| `Leadership` | `RunLeaderElection`, the job it starts, and the job's login token with `StartTokenRenewal` |
| `RenewerSeries` | the per-pod metric series of the renewer over consecutive syncs |
| `StubLifecycle` | the NRI agent: `stubLifecycle.run`, `shutdown`, the sidecar and the errgroup of `runner.go` |
| `InjectorServer` | `RunInjector`'s AfterFunc and `StartWebhook`'s goroutines around `stopChan` |
| `BookkeepingTokenCache` | `Get` against the token's life in Vault, in steps of five minutes |
| `Controller` | their composition: what each `Run*` waits for, exit, panic, crash, and the kubelet that probes, kills and restarts |
| `Controller_proofs` | the proofs of its safety properties |

**One node, one pod**

| Module | Models |
|---|---|
| `NriCache` | the plugin's mapping cache with everything that reads or changes it: flights, timeouts, prewarmer, `Synchronize`, sweeper, cache file, restart |
| `NriCache_proofs` | the proof of `CacheInv` and `MappingNeverReplaced` |
| `AnnotationParser` | `GetPodDbConfig` as a loop over a map in any order, and what a parser with all annotations at hand would return |
| `PodInjection` | admission with NRI, fetch and substitution for one pod whose annotations may be edited meanwhile |
| `PodInjection_proofs` | the proof of `PInv` and what follows, with lemmas about the parser, sorting, flattening and merging |
| `MCPodInjection` | the annotations and Vault roles TLC checks it with |

How the state corresponds to the code, in the first group:

- `pod[p]` is a pod *incarnation*: UIDs are never reused, so a pod that is gone
  stays gone. `"admitting"` (webhook only) is a pod whose admission runs: no
  listing shows it.
- `token[t]`: `t` names the pod, the dbConfiguration and the fetch that obtained
  it. In projected mode it is the pod-token of `Login`, in legacy mode the
  orphan token; the database lease hangs on it either way. `deadLease` holds the
  tokens whose lease renewal Vault answers with "invalid lease" or "could not
  find role".
- `kv` holds the entries with data, `meta` the keys a LIST returns: `DeleteData`
  removes from the first, then from the second. `full` tells whether an entry
  has its pod and node names, which decides the renewer's write-back.
- `pending` holds the goroutines of `StoreDataAsync` that have not written yet.
- `faulted` is a history variable that no guard reads: the tokens a failed call
  or a process exit concerned. Properties that promise something "unless a call
  failed for this very token" refer to it, so that they stay strict for all
  others.
- `fetch[p]` and `adm[p]` are the program counters of the fetch and of the
  admission; the tokens they hold follow from them (`FetchTokens`, `LiveConns`).
  `cache[p]` stands for the cached mapping by the tokens behind it; `using[p]`
  for what was substituted into the environment of containers.
- `sync[r]`, `net[r]`, `watch[r]` are the local variables of the renewer's sync,
  the safety net and the watch loop of replica `r`: keys still to read, entries
  read, entries being handled.

In the second:

- `proc`, `term`, `gctx` are whether a process is up, whether main's context is
  done, and whether that of the errgroup is. `hc` and `metrics` are the two
  servers.
- `role`, `job`, `login` are where `RunLeaderElection` is, where the goroutine of
  `leaderFunc` is, and the token that goroutine works with. The renewer and the
  revoker run alike here.
- `attempt`, `current`, `stopped` are the loop counter of `stubLifecycle.run`, the
  stub `shutdown` would find, and the stubs `Stop` was called on.
- `tracked` and `series` are `RenewTokenJob`'s map of the last complete listing
  and the uuids on `/metrics`.

In the third:

- `flight[p]` is the singleflight call for `p`, with its leader and whether the
  leader's context is done; `call[p][c]` a `CreateContainer` call, `"leaked"` when
  containerd has given up on it and started the container as it came.
- `saves` holds the `saveCache` calls under way with their snapshots, `file` what
  a restart would load.
- A line of a container's env is its variable's name and the secrets in its
  value, in order. A value that an annotation lists is the sequence
  `strings.Split` gives, so one that is not set is `<<"">>`, as in the code.

A call of the code that may fail has a second action (`...Fails`). A failed
write, delete or revocation may have been applied. Reads and renewals that fail
change nothing. A LIST that fails is the sweep that did not take place.

Variants of an operation that no specification uses are marked `(variant)` and
sit before the operation: the way a plausible bug would look, kept to show that
the properties notice it (`PROJECT.json`, "mutants").

## What is checked

### The life of a credential

Safety, in NRI mode (`NriLifecycle`) and where applicable without
(`WebhookLifecycle`):

- `HeldCredentialsValid`: while a pod lives, nobody revokes a credential it was
  given or is being given, unless its lease is lost. Rests on the order of the
  two listings in `safetyNetSync`, on both keys (UID and annotation) being
  reported for a pod, and on tokens of different fetches not being mixed up.
- `RevokerSparesLivePods` (action property): no revoker step touches the token
  or the entry of a live pod.
- `ValidTokensTracked`: a valid token is always reachable, through a running
  fetch, a write under way or a KV entry, unless a call failed for it.
- `OnlySweepsTakeLive` (action property, without NRI): a live pod loses
  credentials that can still be renewed in one way only, a sweep of the safety
  net (which `webhook_admission_race` shows to happen). No failed, refused or
  abandoned admission takes another pod's, no watch event, no purge of a renewer.
- `AdmissionInv` (without NRI): the admission's loop goes past no dbConfiguration
  without a token for it, so that a pod that lives lacks none, and the cleanup of
  an admission that fails late revokes tokens that exist.
- `IInv`, `TInv`, `WInv`: the inductive invariants of the proofs.
- `KeepsContract`: `NriLifecycle` implements `CredentialContract`. A credential is
  issued once, for a pod that exists; a pod is only given its own, and usable
  ones while it lives; a revocation takes credentials that are of no use: the
  pod is gone, the lease is dead, or they were never handed over. The mapping
  takes what is cached or substituted for what is given (`NriContract!Given`).
  The contract says nothing of tracking or of what must happen in the end, which
  stay with the other properties.

- `KeepsAdmissionContract`: `WebhookLifecycle` implements `AdmissionContract`. The
  promise without NRI is the weaker one, because credentials exist before their
  pod: somebody may *decide* to revoke one of a pod that does not live (`Decide`),
  and carry that out (`Revoke`) when it does. All else is as strict: a pod comes
  to life only with a credential for each of its dbConfigurations, and no
  decision is ever taken against a pod that lives. The mapping takes for decided
  what a safety net has left to sweep (`WebhookContract!Doomed`), so the contract
  bounds `webhook_admission_race`: it takes a listing from before the pod lived,
  and no later one can harm it.

Liveness, under `FairSpec`:

- `GonePodsPurged`: a pod that is gone ends without a KV entry, for ever,
  although the renewer and late asynchronous writes may put one back.
- `GonePodsRevoked`: a token named by the entry of a dead pod is revoked in the
  end.

Fairness is assumed of the safety net only. Weak fairness of its ticker and of
its own steps is what a running goroutine gives. Strong fairness of the pod
listing, of reading a key, and of revoking and deleting the entry of a key says
that a call that is made at every sweep does not fail at every sweep, for the pods
that can have an entry (`Injected`, and without NRI those that are admitted).
Nothing is assumed of the watch, which may lose every event, of the renewer, or of
the issuers. The fairness is stated per key, with `KeyOf`; the liveness runs keep
one dbConfiguration per pod.

### The life of the processes

- `LoginNotRevoked`: a job never works with a login token its own process has
  revoked, when the renewal goroutine replaces the token nor when jobs overlap.
- `BookkeepingTokenUsable`: the token `Get` hands out is one Vault still accepts
  when the write uses it, although a login may be answered late.
- `LeaderComesBack`, `PluginComesBack`, `WebhookComesBack`: a leader with a
  running job, a plugin registered with containerd and a serving webhook are
  found again and again, whatever fails. None of the three is the work of one
  process: it takes the failing liveness probe, or the panic described below, the
  kubelet and the restart.
- `LoginRecovers`: a job whose login token died gets another one, or ends.
- `AgentEndsTheProcess`: once the agent's context is done, the process ends: no
  plugin stays connected with nobody to stop it.
- `ControllerInv`: what the proofs need beside the properties themselves.
- `SeriesFlushed`, `LiveSeriesStay`: the metric series of a pod that is gone leave
  `/metrics` for good once a complete listing has named it, with a revoker that
  deletes entries between two syncs and listings that are partial; those of a
  live pod are not taken away.

Fairness (`KubeletFairness`, `ProgressFairness`, `RetryFairness`): goroutines that
can go on do; the kubelet probes, kills and restarts; a lease whose holder is
gone expires; what restarted processes try again and again (to serve, to register
with containerd, to list) succeeds in the end. Of the election and of the login of
the job it is said only that one replica or another succeeds.
Nothing says that a process stops by itself, that a connection is lost or that a
metrics server fails, so a property that held only because `g.Wait` returns would
not pass. A process never changes its mode, so one fairness condition may name
steps of several modes: it says the same as one condition each.

### One node, one pod

- `MappingNeverReplaced` (action property): while a mapping is cached no other
  takes its place, also when the prewarmer and a container miss together: the
  second look at the cache under the singleflight slot is what it rests on.
- `CacheInv`: an answer reaches everybody who waits for it, and every permit of the
  semaphore is somebody's who will give it back.
- `PermitsComeBack`: the prewarmer's semaphore is never drained for good.
- `DeadPodsEvicted`: the mapping of a pod that left the cluster leaves the cache
  for ever, also when its fetch ends after the eviction or a restart loads it
  from a file that overlapping saves have written.
- `ContainersStart`: a container that waits starts in the end while its pod
  lives, when the connection is not lost again and again and not every context
  expires. Evictions by a stale listing or by `Synchronize`, refusals and
  restarts only delay it.
- `NriGivesWhatLegacyGives`: a container starts with the env the webhook would
  have written itself without NRI, whatever the order in which webhook and
  plugin each met the annotations, when these name each variable for one
  credential (`NamedOnce`).
- `NoPlaceholderStarts`: no substitution that leaves a placeholder lets a
  container start, also after the annotations were edited.
- `AdmittedMeansSubstitutable`: what the webhook let through the plugin does not
  refuse for good.
- `OwnUuidPerDb`: a KV entry is written under the uuid that was stamped for that
  dbConfiguration.
- `OnlyBoundRoles`: no container gets a credential of a role that does not bind
  its pod's service account, whatever the annotations have become.
- `PInv`: the inductive invariant of the proofs. Whatever the order of the
  iteration, the dbConfigurations built so far are those of the annotations met
  so far; and what the pod carries is what its annotations ask for, until they
  are edited.

Fairness of `NriCache`: the flight's own steps, the informer, the sweeper's
ticker, the disk, the reconnection; a fetch that is tried again and again
succeeds, and the kubelet keeps asking for a container that was refused. Nothing
says that a context expires or that a pod is deleted.

### The runs

| Run | Shows | Instance |
|---|---|---|
| `nri_two_dbs` | type correctness, tracking, the contract; the loop over dbConfigurations, keys that do not collide, sweeps by stale listings | 1 pod beside a resident one, 2 dbConfigurations, 1 fetch, revoker |
| `nri_two_leaders` | overlapping leaders never hit a live pod and lose nothing, whatever a renewer writes back or purges between them | 1 unstamped pod beside a resident one, 2 revokers (symmetric) whose watch may end the job, renewer |
| `nri_refetch` | the inductive invariants `IInv` and `TInv`, with a second fetch for the same key, whose token takes the entry over | 1 pod beside a resident one, 2 fetches, revoker |
| `nri_purge` | purge and revocation by the safety net alone, for a pod the watch cannot see, which it spares while it lives | 1 unstamped pod beside a resident one, renewer and revoker |
| `webhook_purge` | purge after failed, refused and timed-out admissions, with orphan tokens and login tokens; `WInv`, `OnlySweepsTakeLive`, the contract | 1 pod beside a resident one, legacy mode, renewer and revoker |
| `webhook_contract` | the loop over dbConfigurations with a failure at any of them: `AdmissionInv`, the contract | 1 pod beside a resident one, 2 dbConfigurations, projected mode, revoker |
| `nri_cache` | the mapping cache with all its writers, `CacheInv` | 1 pod, 1 container, 1 permit, 2 saves, 1 restart |
| `process` | every mode under the kubelet, `ControllerInv` | 2 replicas, one of them fragile; 2 waits to reconnect; 2 writers; 2 uuids |
| `pod_injection` | annotations to env, `PInv` | 17 sets of annotations, 1 to 2 databases, 3 roles |

The bounds: `MaxTries` caps the fetches for a pod (two suffice for one fetch to
overwrite or outlive another); `NumDb` the dbConfigurations (two suffice for one
to have succeeded when the next fails); one pod and one resident pod suffice for
a sweep to have something to handle, and for its pod listing to succeed while the
pod comes or goes between the two listings. Keys of different pods differ, so a
second dynamic pod would only repeat that; the theorems hold for any number.
`Residents` are pods that live from the start and are never deleted; without one,
`safetyNetSync` gives up when no pod is left (see below), so the liveness runs
have one. A renewer and revokers at work on one entry are in `nri_two_leaders` and
`nri_purge`, a second fetch beside a revoker in `nri_refetch`; a renewer beside a
second fetch is left to the theorems `SpecIInv` and `SpecTInv`.

In `nri_cache` a container and the prewarmer are the two callers that may share a
flight, two saves the least that overlap, and one restart loads what they left.
`Mappings` tells a mapping that was just obtained from the one that is cached, and
no more: what was evicted or saved before is not compared with it. With one pod
the semaphore is full only while that pod is prewarmed; two pods, where one is
skipped because of the other, are in the instance of `nri_placeholder_leak`, which
is not exhaustive.

In `process`, `Fragile` keeps failing listeners and expiring login tokens to one
replica, the other is what it hands over to; `Backoffs = 2` stands for the
code's five waits; `TokenTtl = 6` is the documented 30 minutes in steps of five.
`ConnectHonoursCtx` says that a stub whose context is done does not register any
more.

In `pod_injection` the annotations (`MCPodAnnotations`) are complete ones, of both
modes, with names swapped between fields and databases or given to two of them,
incomplete ones, unknown ones, and those of the v1 injector. `ReservedChars = FALSE` says that a password
holds no character that a URI must escape. `EditAnnotations` happens once.

The theorems below do not depend on any of these bounds. No run needs deadlock
checking switched off: a process can always restart, a pod be submitted again.

### Where the program differs from what it says

Each is a run that TLC finds violated, with the line it contradicts in
`PROJECT.json` under "findings":

- `webhook_admission_race`: the safety net takes a pod that is still being
  admitted for one that is gone.
- `nri_placeholder_leak`: the read of the credentials takes no context, and who
  joins a prewarm waits under that one's 30 seconds, so `FetchTimeout` does not
  keep `CreateContainer` within containerd's own timeout: the container starts
  with its placeholders.
- `uri_markers`: a URI template with the documented markers for user and password
  (`docs/developers/annotations.md:34`, also in `docs/developers/examples.md`) is
  refused by `url.Parse` at admission; nothing substitutes markers.

More show in the models without a run of their own, by checking the named
property on the named instance:

| Property | Instance | What happens |
|---|---|---|
| `GonePodsPurged` | `nri_purge` without residents | `GetAllPodAndNamespace` returns an error when no labelled pod is listed (`pod_utils.go:62`), and `safetyNetSync` returns on it: the entries of the last pods are never swept, although `docs/operators/components.md:68-70` says the sweep "catches pods that died while the watch was disconnected" |
| `GonePodsPurged` | `nri_purge` with `WatchRestarts = FALSE` | a closed watch that cannot be re-opened calls `cancel()` on the context of the safety net too (`revoker.go:133`), in a process that stays up, healthy and leader |
| `ValidTokensTracked` | `nri_refetch` | a second fetch for a pod writes over the KV entry of the first, whose token is then nobody's (`plugin.go:250`: "the existing renewer/revoker pipeline picks it up unchanged") |
| `ValidTokensTracked` | `nri_two_dbs` with `UseProjectedSA = FALSE` | the plugin's deferred cleanup does not run in legacy mode: an orphan token created before a failing credentials read stays |
| `ValidTokensTracked` | `webhook_purge` in projected mode | a connector whose login succeeded and whose bookkeeping login failed is not in `liveConns` (`k8smutator.go:340`), which "tracks every connector whose Login succeeded" (`:298`) |
| `LoginTokensReleased` | `webhook_purge` | in legacy mode a successful admission keeps its login token: the only revocation outside the error path is under `cfg.NRI.Enabled` (`k8smutator.go:377`), while the comment at `:116` gives it to the caller "on error or after use" |
| `NoDoubleClose` | `process` | AfterFunc, servers and supervisor all close `stopChan` (`controller.go:62`, `injector.go:162`, `:195`); the second close panics. A server that failed restarts the process thanks to that panic only: `RunInjector` itself does not return |
| `SeriesFlushed` without `u \in tracked` | `process` | an entry first seen in a partial listing is renewed (its series appear) but not tracked (`renewer.go:82`); deleted before the next complete listing, it leaves series nothing flushes, which `prom.go:293-296` means to prevent: "leaving them behind keeps expired vdbi_*_expiration values on /metrics forever" |
| `AgentEndsTheProcess` | `process` with `ConnectHonoursCtx = FALSE` | read literally, the comment that the stub's `Run` does not honour its context lets `shutdown` stop a stub while `run` registers the next, which nobody stops before the kubelet's kill |
| `NriGivesWhatLegacyGives` without its premise | `pod_injection` with `ReservedChars = TRUE` | `Substitute` puts a password into a URI as it is, `url.UserPassword` would escape it. Vault's default password policy has letters, digits and hyphens |
| `NriGivesWhatLegacyGives` without `NamedOnce` | `pod_injection` | two dbConfigurations name one variable: the plugin finds the placeholder of the first there and takes it for the second's (`plugin.go:383`), so the other variables of the first that hold this placeholder get the second's credential as well; without NRI they keep their own |

And some behaviour that no property speaks about:

- `DeleteData` that deletes the data and fails on the metadata leaves a key that
  every LIST returns and nothing reads again (`DeleteDataFails`).
- `docs/operators/components.md` says that the renewer no longer revokes or
  deletes; for an unrecoverable lease it does both (`PurgeRevoke`,
  `PurgeDelete`).
- The metrics server is a member of the errgroup of the renewer, the revoker and
  the plugin and is never shut down, so after SIGTERM, a lost election or an
  exhausted reconnection `g.Wait` does not return; what follows is the health
  check server's shutdown, a failing probe and the kubelet's kill. The comment in
  `runner.go` has the error propagate to main.
- `stubLifecycle.run` never resets `attempt`: the disconnects it counts are those of
  the process's life, not "times in a row" as its error says.
- A login token that is replaced just as the job revokes its old one stays valid
  (`Reconnect` after `JobStops`). The reconnection uses the ServiceAccount token
  that was read at the start.
- A bookkeeping token that is revoked in Vault is handed out until its 30 minutes
  are over.
- `Synchronize` evicts the mapping that was prewarmed for a pod whose sandbox is
  still to come, and the sweeper one of a pod created after its listing: each
  leads to a second fetch, with the effect described above for its first token.
- `saveCache` is called without `p.mu` and through one temporary file: of two calls
  that overlap, the older snapshot or a torn file may remain. The sweeper saves
  only when it has evicted, so a dead pod's mapping may stay in the file.
- A template with an opaque URI (`jdbc:...`) has no place for credentials: the
  variable is set without them with NRI and without.
- Where one variable is named for the user and for the password of a
  dbConfiguration, the webhook leaves the password in it and the plugin the user.
  `MCPodAnnotations` has no such pod.
- `strings.Split` in the webhook keeps the blanks that `splitCSV` in the plugin
  trims; an empty `env-key` gives a variable without a name, which the API server
  refuses after Vault has been asked.
- After an edit of the annotations the uuids are matched by position all the same,
  and dbConfigurations beyond them share the pod's UID as key.

## What is proved

Every theorem holds for all values of the constants that the modules'
assumptions allow (any number of pods, dbConfigurations, fetches, renewers,
revokers, containers, permits, replicas, uuids; any annotations and Vault roles),
and from these assumptions alone, except where a hypothesis is named.

| Theorem | Says | In |
|---|---|---|
| `SpecIInv`, `SpecTypeOK` | `Spec => []IInv`, `[]TypeOK` | `NriLifecycle_proofs` |
| `SpecHeldCredentialsValid` | `Spec => []HeldCredentialsValid` | `NriLifecycle_proofs` |
| `SpecRevokerSparesLivePods` | `Spec => RevokerSparesLivePods` | `NriLifecycle_proofs` |
| `SpecKeepsContract` | `Spec => KeepsContract`: the refinement | `NriContract_proofs` |
| `SpecTInv` | `UseProjectedSA /\ Spec => []TInv` | `NriTracking_proofs` |
| `SpecValidTokensTracked` | `UseProjectedSA /\ OneTokenPerKey /\ Spec => []ValidTokensTracked` | `NriTracking_proofs` |
| `SpecWInv`, `WebhookSpecTypeOK` | `Spec => []WInv`, `[]TypeOK`, in both modes | `WebhookLifecycle_proofs` |
| `SpecOnlySweepsTakeLive` | `Spec => OnlySweepsTakeLive` | `WebhookLifecycle_proofs` |
| `SpecAdmissionInv` | `Spec => []AdmissionInv` | `WebhookLifecycle_proofs` |
| `SpecKeepsAdmissionContract` | `Spec => KeepsAdmissionContract`: the refinement | `WebhookLifecycle_proofs` |
| `ControllerSpecTypeOK`, `SpecControllerInv` | `Spec => []TypeOK`, `[]ControllerInv` | `Controller_proofs` |
| `SpecLoginNotRevoked` | `Spec => []LoginNotRevoked` | `Controller_proofs` |
| `SpecBookkeepingTokenUsable` | `TokenOutlivesCache /\ Spec => []BookkeepingTokenUsable` | `Controller_proofs` |
| `SpecLiveSeriesStay` | `Spec => LiveSeriesStay` | `Controller_proofs` |
| `SpecCacheInv`, `SpecNriCacheTypeOK` | `Spec => []CacheInv`, `[]NriCacheTypeOK` | `NriCache_proofs` |
| `SpecMappingNeverReplaced` | `Spec => MappingNeverReplaced` | `NriCache_proofs` |
| `SpecPInv`, `PodSpecTypeOK` | `Spec => []PInv`, `[]TypeOK` | `PodInjection_proofs` |
| `SpecNoPlaceholderStarts`, `SpecOnlyBoundRoles`, `SpecOwnUuidPerDb`, `SpecAdmittedMeansSubstitutable` | `Spec => []` of each | `PodInjection_proofs` |
| `SpecNriGivesWhatLegacyGives` | `Spec => []NriGivesWhatLegacyGives` | `PodInjection_proofs` |

**What is revoked (NRI).** `HeldCredentialsValid` is not inductive: whether a
revocation is harmless is decided by copies that were taken long before. `IInv`
says what those copies are worth:

- a copy of a `KeyInfo` anywhere (KV entry, pending write, renewer, safety net,
  watch) sits under the key of its own token's pod, and that token exists
  (`StoresSound`, `SyncsSound`, `NetsSound`, `WatchesSound`);
- once the safety net has listed the pods, what it still handles belongs to pods
  that are gone. This is the step that needs the order of the listings: the
  entry existed before the pod listing, so its pod had been created, and a pod
  that was created and is not listed is gone, for good. The watch only handles
  pods that were reported deleted;
- a renewer goroutine that is about to revoke does so for a dead lease, or for a
  token revoked already;
- tokens of one pod are issued in the order of its fetches, and what the pod's
  containers and the cache hold is of an earlier fetch than the one that runs
  (`IssuedInOrder`, `HeldIssued`): so the cleanup of a failed fetch revokes
  nothing a container was given.

`NextIInv` goes through the steps process by process (`IssuerStep`,
`RenewerStep`, `RevokerStep`, `PodStep`, `LeaseDiesStep`), with one lemma per
action where an action disturbs more than one conjunct. What all steps of a
renewer or of a revoker have in common does not depend on who issues the
credentials: `RenewerActs` and `RevokerActs` of `KeyInfoCopies_proofs` serve both
modes. For `RevokerSparesLivePods` every revoker step is shown to touch only pods
that are gone (`RevokerTouches`).

**The contract.** Under `IInv` every action of `NriLifecycle` is one action of
`CredentialContract` or a stutter. A login issues; what ends a fetch well, or uses
the cache, gives; the cleanup of a failed fetch revokes what was never handed
over (`HeldIssued`), the renewer's purge what has a dead lease (`SyncsSound`), the
revoker what belongs to a pod that is gone (`NetsSound`, `WatchesSound`).
Everything that moves bookkeeping only (listings, reads, writes, deletions)
leaves the contract's variables alone.

**What is kept track of.** `ValidTokensTracked` rests on `TInv` beside `IInv`. The
hard part is a token whose entry leaves the KV store: whoever deletes an entry
has revoked the token it read there, or noted a failure (`PurgesRevoked`); but the
entry may have been written anew in between, with another token of the same key.
So a token that is not listed may have been `Replaced`, which is all that `TInv`
says in general. `OneTokenPerKey` excludes it: one fetch for each pod, and either
one dbConfiguration or pods that the webhook stamped, since without a stamp the
dbConfigurations of a pod share its UID as key. Both hypotheses are needed, as
the table above shows: in legacy mode nobody cleans up after a failed fetch, and
a second fetch writes over the entry of the first.

**Without NRI.** `WInv` is `IInv` with an admission in place of a fetch: tokens come
into being as the loop goes through its dbConfigurations (`IssuedByAdmission`),
and a pod lives only after all of it. It lacks what the webhook does not have:
the pods of a safety net's copies need not be gone, because a pod that is being
admitted is in no listing. `OnlySweepsTakeLive` is what remains of
`HeldCredentialsValid`: the cleanup of an admission revokes tokens of a pod that
never lived, a renewer purges dead leases, a watch handles pods that were
reported deleted, and so only a sweep is left.

That the webhook keeps `AdmissionContract` needs `AdmissionInv` beside `WInv`: `Admit`
asks that every credential of the pod is issued (`ObtainedIssued` at the last
dbConfiguration), and `Fail` that what the cleanup revokes exists, which in
projected mode is what `liveConns` and the tokens obtained have in common
(`CleanedAreObtained`). A renewer dooms nothing and revokes dead leases; of a
revoker's steps only the comparison of the listings adds to what is doomed
(`ListingDecides`, `DoomedShrinks`): an entry whose key no listed pod reports is,
being sound, of a pod that does not live. `AdmissionInv` is no part of `WInv`,
because only the refinement needs it; it is inductive relative to `WInv`
(`NextAdmissionInv`).

**The processes.** The variables of a component are changed by its own actions and
by `GoesDown`, so each conjunct is taken through the steps of its component, and
one lemma per component says that all others leave it alone. `LoginNotRevoked`
is inductive with `TypeOK`. `BookkeepingTokenUsable` needs `EntryWithinTtl`: the
cached token loses at most one step of its life to the login that obtained it,
and the refresh margin covers that. Its hypothesis `TokenOutlivesCache`
(`TokenTtl >= Validity`) is that the `token_ttl` of the Vault role is at least the
30 minutes for which a token is cached; the code's comment reckons with an hour.
`LiveSeriesStay` needs two facts of the sync: series belong to pods that were
seen (`SeriesOfPodsSeen`), and what the last complete listing remembers was
written, so that what is missing from the next was deleted
(`TrackedWereWritten`).

**The mapping cache.** That a mapping is never replaced follows from `FetchesMiss`: a
flight that has gone past its recheck works for a pod with nothing cached, since
there is one flight per pod and nobody else inserts. `PermitsCounted` counts the
permits by the prewarms that hold them, over a set whose finiteness is part of
the invariant, as the pods may be infinitely many. `WaitersHaveAFlight` says that
nobody waits for a flight that has returned.

**Annotations to env.** `ConfsBuilt` is a loop invariant of the parser over any
order: the dbConfigurations built so far are, as a set, those of the annotations
met so far, one per name. Sorting then makes the order of the iteration
disappear (`ParsedInOrder`): the webhook and the plugin, which each parse the
annotations in an order of their own, end with the same sequence, and so
positions (uuids) and placeholders match. On it rest `StampedAsAsked`, that the
env and the uuids are those the annotations ask for until a user edits them;
`MappingCovers`, that the plugin finds each placeholder of the webhook again; and
`LeftAfterSubstitution`, that none is left then. `OnlyBoundRoles` and
`NoPlaceholderStarts` also hold after an edit: the first because the plugin asks
for the role of what it reads (`CacheOfBoundRoles`), the second by the residual
check.

`NriGivesWhatLegacyGives` compares two ways to the same env. To substitute is to
apply a function to each line, and that commutes with `FlattenSeq`
(`FlattenMapped`), so it is enough to compare the lines of one dbConfiguration:
with placeholders substituted and with credentials they are the same, position
by position (`LinesAt`, `LineResolved`), if the mapping has for each placeholder
the credential of its own dbConfiguration and field. That is `RightCredential`.
A placeholder tells the plugin nothing but the variable it stands in, and here
the premise `NamedOnce` is needed: the variable's name must lead back to one
dbConfiguration and one field. The property is inductive beside `PInv`, whose
`StampedAsAsked` says that the cached mapping is the one the plugin computes from
the annotations.

The library's induction theorems take an operator, which the provers
cannot instantiate; that a finite set of dbConfigurations has an ascending
sequence (`OrderExists`) and that `FlattenSeq` returns lines of its sequences
(`FlattenLines`) are therefore proved by the least counterexample (`NatLeast`).

Only model-checked:

- All liveness: `GonePodsPurged`, `GonePodsRevoked`, `LeaderComesBack` and its
  like, `SeriesFlushed`, `AgentEndsTheProcess`, `PermitsComeBack`,
  `DeadPodsEvicted`, `ContainersStart`. Fairness needs `ENABLED`, which TLAPS does
  not handle.
- The runs with an expected violation, which are counterexamples.

## What is not modelled

- Time, but for the bookkeeping token cache. Tickers and timeouts are steps that
  may happen; TTLs, `token_max_ttl`, periods and the length of a lease are left
  out, so a pod's token that is not revoked counts as valid.
- Outages that hit several calls at once: strong fairness is assumed call by
  call.
- A label removed from a live pod, which the watch reports like a deletion.
- The `Login` of the NRI plugin in legacy mode, and the webhook's own tokens in
  NRI mode, where no credential hangs on them.
- Containers that containerd creates while the plugin is not registered: the
  plugin does not see them.
- `ModeAll`, which runs several `Run*` in one process, with one health check and
  one metrics server each on the same ports.
- `/healthz` and `/readyz`: Vault or the apiserver not answering them is a SIGTERM
  that may always come. `CanIGetRoles` compares names exactly, as the code does;
  in projected mode Vault's login decides instead.
- Parts without state or decisions of their own: the Kubernetes client and
  `TokenRequest` (wrappers whose failures are those of a fetch or an admission),
  the configuration (read once; what matters of it is a constant), the logger and
  Sentry, and the metrics that nothing but a dashboard reads.
- `NriIssuer` and `NriCache` model one plugin at two grains: in the first a fetch
  is its calls to Vault and the cache one step, in the second a fetch is one
  flight and the cache its writers. They are not composed.

## Plan

In this order:

1. `NriLifecycle` with `NriCache` in place of the one-step cache, on an instance
   small enough for both grains.
2. The admission's login tokens with NRI, and `ModeAll`.
3. A contract for what is kept track of, as the two contracts leave bookkeeping out.
