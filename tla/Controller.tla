----------------------------- MODULE Controller -----------------------------
(***************************************************************************)
(* The Run* methods of the controller and main: which members the errgroup *)
(* of a mode waits for, when the process exits, and the kubelet that       *)
(* probes, kills and restarts it. Composes the modules it extends.         *)
(***************************************************************************)
EXTENDS Leadership, StubLifecycle, InjectorServer, BookkeepingTokenCache, RenewerSeries

restVars == <<bookVars, seriesVars>>

vars == <<processVars, leaderVars, agentVars, injectorVars, restVars>>

-----------------------------------------------------------------------------
(* Start and end of a process *)

\* What main's g.Wait waits for. The metrics server is a member and is never
\* shut down; the servers of the injector are not members.
MembersReturned(r) ==
  /\ hc[r] = "stopped"
  /\ mode = "injector" => webhook = "returned"
  /\ mode \in {"elected", "nri"} => metrics[r] = "failed"
  /\ mode = "elected" => role[r] = "out"
  /\ mode = "nri" => run \in {"returned", "failed"} /\ sidecar = "returned"

\* A process that is down has no state but the lease it may still hold.
GoesDown(r) ==
  /\ proc' = [proc EXCEPT ![r] = "down"]
  /\ term' = [term EXCEPT ![r] = FALSE]
  /\ gctx' = [gctx EXCEPT ![r] = FALSE]
  /\ hc' = [hc EXCEPT ![r] = "stopped"]
  /\ metrics' = [metrics EXCEPT ![r] = "failed"]
  /\ role' = [role EXCEPT ![r] = "out"]
  /\ healthy' = [healthy EXCEPT ![r] = TRUE]
  /\ job' = [job EXCEPT ![r] = "none"]
  /\ login' = [login EXCEPT ![r] = NoLogin]
  /\ actx' = FALSE /\ run' = "none" /\ attempt' = 0 /\ current' = -1 /\ stopped' = {}
  /\ sidecar' = "waiting"
  /\ webhook' = "starting" /\ servers' = [s \in Servers |-> "none"] /\ supervisor' = "none"
  /\ afterFunc' = TRUE /\ stopClosed' = FALSE /\ panicked' = FALSE
  /\ UNCHANGED <<mode, lease, restVars>>

Start(r) ==
  /\ r \in Deployed
  /\ proc[r] = "down"
  /\ proc' = [proc EXCEPT ![r] = "up"]
  /\ hc' = [hc EXCEPT ![r] = "serving"]
  /\ metrics' = [metrics EXCEPT ![r] = "serving"]
  /\ role' = [role EXCEPT ![r] = IF mode = "elected" THEN "candidate" ELSE "out"]
  /\ run' = IF mode = "nri" THEN "building" ELSE "none"
  /\ UNCHANGED <<mode, term, gctx, lease, healthy, job, login, actx, attempt, current,
                 stopped, sidecar, injectorVars, restVars>>

\* Run* returns, and main with it.
Exit(r) ==
  /\ proc[r] = "up"
  /\ MembersReturned(r)
  /\ GoesDown(r)

\* close of a closed channel.
Panic ==
  /\ panicked
  /\ GoesDown(Main)

\* Any end that nobody asked for: out of memory, or a Fatalf of a job that finds
\* no ServiceAccount token or no Vault.
Crash(r) ==
  /\ proc[r] = "up"
  /\ GoesDown(r)

-----------------------------------------------------------------------------
(* The kubelet *)

\* /live of an elected process, /healthz of the others.
Alive(r) == hc[r] = "serving" /\ (mode = "elected" => healthy[r])

LivenessFails(r) == ~Alive(r) /\ Terminate(r)

\* SIGKILL, terminationGracePeriodSeconds after SIGTERM.
Kill(r) ==
  /\ proc[r] = "up" /\ term[r]
  /\ GoesDown(r)

-----------------------------------------------------------------------------
(* The specification *)

Init ==
  /\ ProcessesInit /\ LeadershipInit /\ AgentInit /\ InjectorInit /\ BookInit /\ SeriesInit

Next ==
  \/ ProcessesNext /\ UNCHANGED <<leaderVars, agentVars, injectorVars, restVars>>
  \/ mode = "elected" /\ LeadershipNext /\ UNCHANGED <<agentVars, injectorVars, restVars>>
  \/ AgentNext /\ UNCHANGED <<leaderVars, injectorVars, restVars>>
  \/ InjectorNext /\ UNCHANGED <<leaderVars, agentVars, restVars>>
  \/ mode = "steady" /\ BookNext
       /\ UNCHANGED <<processVars, leaderVars, agentVars, injectorVars, seriesVars>>
  \/ mode = "renewing" /\ SeriesNext
       /\ UNCHANGED <<processVars, leaderVars, agentVars, injectorVars, bookVars>>
  \/ \E r \in Replicas : Start(r) \/ Exit(r) \/ Crash(r) \/ Kill(r)
  \/ Panic

Spec == Init /\ [][Next]_vars

\* The steps of a component, the others standing still. A process never changes
\* its mode, so the fairness of steps of different modes is stated of their
\* disjunction.
KubeletStep(A) == A /\ UNCHANGED <<leaderVars, agentVars, injectorVars, restVars>>
ElectionStep(A) == mode = "elected" /\ A /\ UNCHANGED <<agentVars, injectorVars, restVars>>
AgentStep(A) == mode = "nri" /\ A /\ UNCHANGED <<leaderVars, injectorVars, restVars>>
InjectorStep(A) == mode = "injector" /\ A /\ UNCHANGED <<leaderVars, agentVars, restVars>>
SeriesStep(A) ==
  mode = "renewing" /\ A /\ UNCHANGED <<processVars, leaderVars, agentVars, injectorVars, bookVars>>

\* The kubelet probes, kills and restarts, and a lease whose holder is gone expires.
KubeletFairness ==
  /\ \A r \in Replicas : /\ WF_vars(Start(r) \/ Kill(r))
                         /\ WF_vars(KubeletStep(HealthCheckStops(r) \/ LivenessFails(r)))
  /\ WF_vars(ElectionStep((\A r \in lease : role[r] # "leader") /\ LeaseExpires))

\* Goroutines that can go on do. Nothing says that a process stops by itself.
ProgressFairness ==
  /\ \A r \in Replicas : WF_vars(ElectionStep((lease # {r} \/ gctx[r]) /\ StopLeading(r)))
  /\ \A r \in Fragile :
       WF_vars(ElectionStep(RevokeOld(r) \/ (login[r].held = "expired" /\ RenewSelfFails(r))))
  /\ WF_vars(AgentStep(Exhausted \/ BackOff \/ Reattempt \/ ReturnOnShutdown))
  /\ WF_vars(AgentStep(StopTakesEffect \/ (actx /\ ConnectRefused)))
  /\ WF_vars(AgentStep(AgentCtxDone))
  /\ WF_vars(AgentStep(Shutdown \/ ShutdownReturns))
  /\ WF_vars(AgentStep(AgentReturns))
  /\ WF_vars(InjectorStep(SupervisorCloses))
  /\ \A s \in Servers : WF_vars(InjectorStep(SendError(s) \/ ServerCloses(s)))
  /\ WF_vars(Panic)
  /\ WF_vars(SeriesStep(SyncGivesUpOnPods \/ SyncDone \/ \E u \in Uuids : RenewTokenAndLease(u)))

\* What is tried again and again (that some replica becomes leader, that the job of
\* some leader logs in, to serve, to connect to containerd, to list the entries or
\* the pods completely, to log in anew) succeeds in the end.
RetryFairness ==
  /\ SF_vars(\/ ElectionStep(\E r \in Replicas : StartLeading(r))
             \/ AgentStep(~actx /\ Build)
             \/ InjectorStep(StartWebhook)
             \/ SeriesStep(ListEntries(Entries, TRUE)))
  /\ SF_vars(\/ ElectionStep(\E r \in Replicas : role[r] = "leader" /\ JobLogsIn(r))
             \/ AgentStep(~actx /\ Connect))
  /\ \A u \in Uuids :
       SF_vars(\/ ElectionStep(\E r \in Fragile : Reconnect(r))
               \/ SeriesStep(u \in syncing.uuids /\ ListPods))

FairSpec == Spec /\ KubeletFairness /\ ProgressFairness /\ RetryFairness

-----------------------------------------------------------------------------
(* Properties *)

\* The variables hold what the goroutines' state can be.
TypeOK ==
  /\ ProcessesTypeOK /\ LeadershipTypeOK /\ AgentTypeOK /\ InjectorTypeOK
  /\ BookTypeOK /\ SeriesTypeOK

\* The renewals and revocations go on: a replica that stops leading never enters
\* the election again, and yet a leader with a running job is always found again
\* (leadership.go, stopLeading; /live).
LeaderComesBack ==
  []<>(mode = "elected" => \E r \in Replicas : role[r] = "leader" /\ job[r] = "running")

\* A job never works with a login token that its own process has revoked: neither
\* when the renewal goroutine replaces the token nor when an old job and a new
\* one overlap (StartTokenRenewal, RevokeSelfToken).
LoginNotRevoked ==
  \A r \in Replicas : job[r] = "running" => login[r].held # "revoked"

\* A job that runs while its login token is dead gets another one, however often
\* Vault refuses, or ends (StartTokenRenewal).
LoginRecovers ==
  \A r \in Replicas :
    (job[r] = "running" /\ login[r].held = "expired")
      ~> (job[r] # "running" \/ login[r].held = "valid")

\* The plugin registers with containerd again and again: exhausted reconnections
\* end in a restart although main never returns (stub_lifecycle.go, runner.go,
\* RunNRI).
PluginComesBack == []<>(mode = "nri" => run = "connected")

\* An agent whose errgroup is done, by SIGTERM or because one of its goroutines
\* failed, leaves no plugin connected beside it: the process ends (runner.go).
AgentEndsTheProcess == (mode = "nri" /\ actx) ~> (proc[Main] = "down")

\* The webhook is served again and again, whichever server of it fails.
WebhookComesBack == []<>(mode = "injector" => servers["webhook"] = "serving")

\* Vault still accepts the token that BookkeepingTokenCache.Get hands out when the
\* asynchronous write uses it, a login answered late included.
BookkeepingTokenUsable ==
  \A w \in Writers : writer[w].step = "writing" => writer[w].life > 0

\* The series of a pod that is gone leave /metrics for good once a complete listing
\* has named the pod's entry: the revoker may delete the entry between two syncs,
\* listings may be partial, and renewals end late (flushVanished).
SeriesFlushed ==
  \A u \in Uuids : (scheduled[u] = "gone" /\ u \in tracked) ~> [](u \notin series)

\* The series of a pod that lives stay as long as its entry: neither a partial
\* listing nor a sync whose pod listing is older than the pod takes them away.
LiveSeriesStay ==
  [][\A u \in series \ series' : scheduled[u] = "gone" \/ kvEntry'[u] = "deleted"]_vars

\* The wait of a reconnection is one of the schedule: after the last, run gives up
\* (stub_lifecycle.go, run).
BackoffsLeft == run = "backoff" => attempt < Backoffs

\* Of the login that is under way, no more than a step is lost of its token's ttl;
\* so where the role's ttl is no shorter than the cache's validity, the cached
\* token dies in Vault a step before the cache lets go of it, at the earliest: less
\* than the refresh margin (bookkeeping_cache.go, Get).
EntryWithinTtl ==
  /\ IF refresh.step = "login" THEN refresh.life \in {TokenTtl - 1, TokenTtl}
                               ELSE refresh.life = 0
  /\ TokenTtl >= Validity => entry.life >= entry.left - 1

\* What has a series, or a goroutine that will give it one, is of a pod that was
\* seen: the entry of a pod that is not there yet has none (SyncAndCleanupTokens).
SeriesOfPodsSeen ==
  \A u \in series \cup (IF syncing.step = "renewing" THEN syncing.uuids ELSE {}) :
    scheduled[u] # "absent"

\* What flushVanished remembers has been written, so that what it misses later has
\* been deleted (flushVanished).
TrackedWereWritten == \A u \in tracked : kvEntry[u] # "none"

\* What TypeOK, BookkeepingTokenUsable and LiveSeriesStay rest on in the stub, the
\* token cache and the sync (stub_lifecycle.go, bookkeeping_cache.go, renewer.go).
ControllerInv ==
  /\ BackoffsLeft
  /\ EntryWithinTtl
  /\ SeriesOfPodsSeen
  /\ TrackedWereWritten

\* stopChan is closed once: RunInjector returns when its context is done
\* (controller.go, RunInjector; injector.go, StartWebhook).
NoDoubleClose == ~panicked
=============================================================================
