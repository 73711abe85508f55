--------------------------- MODULE StubLifecycle ----------------------------
(***************************************************************************)
(* The NRI agent of a node: the stub with its bounded reconnection, the    *)
(* sidecar that stops it, and the errgroup both run in beside the sweeper  *)
(* and the prewarmer. The stubs are numbered by the attempt they serve.    *)
(***************************************************************************)
EXTENDS Processes

CONSTANTS
  Backoffs,           \* how many waits reconnectBackoff holds
  ConnectHonoursCtx   \* a stub whose context is done does not connect any more

ASSUME StubLifecycleAssumption == Backoffs \in Nat /\ ConnectHonoursCtx \in BOOLEAN

VARIABLES
  actx,     \* the agent's errgroup context is done
  run,      \* where stubLifecycle.run is
  attempt,  \* run's loop counter
  current,  \* the stub setCurrent was last called with, -1 before
  stopped,  \* the stubs shutdown has called Stop on
  sidecar   \* where the sidecar is: the stub it waits for, or not there yet

agentVars == <<actx, run, attempt, current, stopped, sidecar>>

-----------------------------------------------------------------------------

Stubs == 0..Backoffs

\* "building": the factory is to be called; "connecting" and "connected": inside
\* s.Run; "judging": s.Run has returned; "backoff": waiting to reconnect.
RunSteps == {"none", "building", "connecting", "connected", "judging", "backoff",
             "returned", "failed"}

AgentUp == mode = "nri" /\ proc[Main] = "up"

\* The factory succeeds, and the stub is made known to shutdown.
Build ==
  /\ AgentUp /\ run = "building"
  /\ current' = attempt
  /\ run' = "connecting"
  /\ UNCHANGED <<processVars, actx, attempt, stopped, sidecar>>

\* The factory fails: run returns an error.
BuildFails ==
  /\ AgentUp /\ run = "building"
  /\ run' = "failed"
  /\ actx' = TRUE
  /\ UNCHANGED <<processVars, attempt, current, stopped, sidecar>>

\* s.Run registers the plugin with containerd.
Connect ==
  /\ AgentUp /\ run = "connecting"
  /\ ~(ConnectHonoursCtx /\ actx)
  /\ run' = "connected"
  /\ UNCHANGED <<processVars, actx, attempt, current, stopped, sidecar>>

\* s.Run returns: it cannot register, containerd closes the connection, or the
\* stub is stopped.
RunReturns ==
  /\ AgentUp /\ run \in {"connecting", "connected"}
  /\ run' = "judging"
  /\ UNCHANGED <<processVars, actx, attempt, current, stopped, sidecar>>

StopTakesEffect == attempt \in stopped /\ RunReturns

ConnectRefused == run = "connecting" /\ RunReturns

\* Neither shutdown nor a wait is left: the error ends the agent's errgroup.
Exhausted ==
  /\ AgentUp /\ run = "judging"
  /\ ~actx
  /\ attempt = Backoffs
  /\ run' = "failed"
  /\ actx' = TRUE
  /\ UNCHANGED <<processVars, attempt, current, stopped, sidecar>>

\* (variant) The schedule is not bounded.
BackOffForEver ==
  /\ AgentUp /\ run = "judging"
  /\ ~actx
  /\ run' = "backoff"
  /\ UNCHANGED <<processVars, actx, attempt, current, stopped, sidecar>>

\* The old stub is stopped, and the next wait of the schedule begins.
BackOff ==
  /\ AgentUp /\ run = "judging"
  /\ ~actx
  /\ attempt < Backoffs
  /\ run' = "backoff"
  /\ UNCHANGED <<processVars, actx, attempt, current, stopped, sidecar>>

\* The wait is over. attempt is never reset, however long a connection lasted.
Reattempt ==
  /\ AgentUp /\ run = "backoff"
  /\ attempt' = attempt + 1
  /\ run' = "building"
  /\ UNCHANGED <<processVars, actx, current, stopped, sidecar>>

\* Shutdown was requested: a clean exit, whatever Run returned.
ReturnOnShutdown ==
  /\ AgentUp /\ run \in {"judging", "backoff"}
  /\ actx
  /\ run' = "returned"
  /\ UNCHANGED <<processVars, actx, attempt, current, stopped, sidecar>>

-----------------------------------------------------------------------------
(* The sidecar and the errgroup *)

\* The errgroup of RunNRI is done: SIGTERM. The other members return no error:
\* the sweeper and the prewarmer stop with the context.
AgentCtxDone ==
  /\ AgentUp /\ run # "none"
  /\ gctx[Main] /\ ~actx
  /\ actx' = TRUE
  /\ UNCHANGED <<processVars, run, attempt, current, stopped, sidecar>>

\* (variant) The sidecar watches the context the agent was given.
ShutdownOnOuterCtx ==
  /\ AgentUp /\ sidecar = "waiting"
  /\ gctx[Main]
  /\ sidecar' = "stopping"
  /\ stopped' = stopped \cup ({current} \cap Stubs)
  /\ UNCHANGED <<processVars, actx, run, attempt, current>>

\* shutdown stops the stub that is current now; run may be building the next one.
Shutdown ==
  /\ AgentUp /\ sidecar = "waiting"
  /\ actx
  /\ sidecar' = "stopping"
  /\ stopped' = stopped \cup ({current} \cap Stubs)
  /\ UNCHANGED <<processVars, actx, run, attempt, current>>

\* s.Wait returns when that stub no longer runs.
ShutdownReturns ==
  /\ AgentUp /\ sidecar = "stopping"
  /\ ~(run = "connected" /\ attempt \in stopped)
  /\ sidecar' = "returned"
  /\ UNCHANGED <<processVars, actx, run, attempt, current, stopped>>

\* g.Wait returns: nri.Run is over, and its error ends the errgroup of RunNRI.
AgentReturns ==
  /\ AgentUp /\ run \in {"returned", "failed"} /\ sidecar = "returned"
  /\ ~gctx[Main]
  /\ gctx' = [gctx EXCEPT ![Main] = TRUE]
  /\ UNCHANGED <<mode, proc, term, hc, metrics, agentVars>>

-----------------------------------------------------------------------------

AgentTypeOK ==
  /\ actx \in BOOLEAN
  /\ run \in RunSteps
  /\ attempt \in 0..Backoffs
  /\ current \in {-1} \cup Stubs
  /\ stopped \subseteq Stubs
  /\ sidecar \in {"waiting", "stopping", "returned"}

AgentInit ==
  /\ actx = FALSE
  /\ run = "none"
  /\ attempt = 0
  /\ current = -1
  /\ stopped = {}
  /\ sidecar = "waiting"

AgentNext ==
  \/ Build \/ BuildFails \/ Connect \/ RunReturns \/ Exhausted \/ BackOff \/ Reattempt
  \/ ReturnOnShutdown \/ AgentCtxDone \/ Shutdown \/ ShutdownReturns \/ AgentReturns
=============================================================================
