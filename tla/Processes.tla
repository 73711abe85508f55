----------------------------- MODULE Processes ------------------------------
(***************************************************************************)
(* The processes of the binary under the kubelet: SIGTERM, the errgroup    *)
(* context of a Run* method, the health check and metrics servers, the     *)
(* liveness probe, the kill and the restart. What a Run* method runs       *)
(* beside them is in Leadership, StubLifecycle and InjectorServer.         *)
(***************************************************************************)
EXTENDS Integers, FiniteSets

CONSTANTS
  Replicas,  \* the replicas of a Deployment with leader election
  Main,      \* the replica that runs in the modes without one
  Fragile    \* the replicas whose listeners fail and that Vault does not answer: a bound

ASSUME ProcessesAssumption == Main \in Replicas /\ Fragile \subseteq Replicas

VARIABLES
  mode,     \* cfg.Mode: the renewer and the revoker, run alike, are "elected"
  proc,     \* proc[r]: whether the process of replica r is up
  term,     \* term[r]: it has received SIGTERM: main's ctx is done
  gctx,     \* gctx[r]: the context of its errgroup is done
  hc,       \* hc[r]: its health check server
  metrics   \* metrics[r]: its metrics server

processVars == <<mode, proc, term, gctx, hc, metrics>>

-----------------------------------------------------------------------------

\* Processes that do not stop: of a "steady" injector or plugin only the bookkeeping
\* token cache is looked at, of a "renewing" renewer only its metric series.
Modes == {"injector", "elected", "nri", "steady", "renewing"}

Deployed == CASE mode = "elected" -> Replicas
              [] mode \in {"steady", "renewing"} -> {}
              [] OTHER -> {Main}

\* (variant) The health check server is given main's context.
HealthCheckStopsOnSigterm(r) ==
  /\ proc[r] = "up" /\ hc[r] = "serving"
  /\ term[r]
  /\ hc' = [hc EXCEPT ![r] = "stopped"]
  /\ UNCHANGED <<mode, proc, term, gctx, metrics>>

\* hcService.Start returns once the context is done, and shuts its server down.
HealthCheckStops(r) ==
  /\ proc[r] = "up" /\ hc[r] = "serving"
  /\ gctx[r]
  /\ hc' = [hc EXCEPT ![r] = "stopped"]
  /\ UNCHANGED <<mode, proc, term, gctx, metrics>>

\* Its listener fails: Start returns nil, and nothing else is told.
HealthCheckFails(r) ==
  /\ r \in Fragile
  /\ proc[r] = "up" /\ hc[r] = "serving"
  /\ hc' = [hc EXCEPT ![r] = "stopped"]
  /\ UNCHANGED <<mode, proc, term, gctx, metrics>>

\* RunMetrics returns when its listener fails and never otherwise: nobody
\* shuts that server down.
MetricsFail(r) ==
  /\ r \in Fragile
  /\ proc[r] = "up" /\ metrics[r] = "serving"
  /\ metrics' = [metrics EXCEPT ![r] = "failed"]
  /\ UNCHANGED <<mode, proc, term, gctx, hc>>

\* SIGTERM: a rollout, a drained node, or a liveness probe that failed because
\* Vault or the kube-apiserver did not answer /healthz.
Terminate(r) ==
  /\ proc[r] = "up" /\ ~term[r]
  /\ term' = [term EXCEPT ![r] = TRUE]
  /\ gctx' = [gctx EXCEPT ![r] = TRUE]
  /\ UNCHANGED <<mode, proc, hc, metrics>>

ProcessesTypeOK ==
  /\ mode \in Modes
  /\ proc \in [Replicas -> {"up", "down"}]
  /\ term \in [Replicas -> BOOLEAN]
  /\ gctx \in [Replicas -> BOOLEAN]
  /\ hc \in [Replicas -> {"serving", "stopped"}]
  /\ metrics \in [Replicas -> {"serving", "failed"}]

ProcessesInit ==
  /\ mode \in Modes
  /\ proc = [r \in Replicas |-> "down"]
  /\ term = [r \in Replicas |-> FALSE]
  /\ gctx = [r \in Replicas |-> FALSE]
  /\ hc = [r \in Replicas |-> "stopped"]
  /\ metrics = [r \in Replicas |-> "failed"]

ProcessesNext ==
  \E r \in Replicas :
    HealthCheckStops(r) \/ HealthCheckFails(r) \/ MetricsFail(r) \/ Terminate(r)
=============================================================================
