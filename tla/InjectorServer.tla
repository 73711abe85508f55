--------------------------- MODULE InjectorServer ---------------------------
(***************************************************************************)
(* The goroutines of the webhook injector: RunInjector's AfterFunc and     *)
(* StartWebhook with its two servers and their supervisor, all of which    *)
(* close stopChan. Closing it a second time panics.                        *)
(***************************************************************************)
EXTENDS Processes

VARIABLES
  webhook,     \* the errgroup member that runs StartWebhook
  servers,     \* servers[s]: the goroutine of the webhook or the metrics server
  supervisor,  \* the goroutine that selects on errCh and on the context
  afterFunc,   \* the AfterFunc of main's context has yet to run
  stopClosed,  \* stopChan is closed
  panicked     \* it was closed twice since the process last started

injectorVars == <<webhook, servers, supervisor, afterFunc, stopClosed, panicked>>

-----------------------------------------------------------------------------

Servers == {"webhook", "scrape"}

InjectorUp == mode = "injector" /\ proc[Main] = "up" /\ ~panicked

\* close(stopChan)
CloseStopChan ==
  /\ stopClosed' = TRUE
  /\ panicked' = stopClosed

\* main's context is done: the AfterFunc runs in a goroutine of its own.
RunAfterFunc ==
  /\ InjectorUp /\ term[Main] /\ afterFunc
  /\ afterFunc' = FALSE
  /\ CloseStopChan
  /\ UNCHANGED <<processVars, webhook, servers, supervisor>>

\* The certificate or the cluster's CA cannot be loaded: stopChan is closed and
\* the error ends the errgroup.
StartWebhookFails ==
  /\ InjectorUp /\ webhook = "starting"
  /\ webhook' = "returned"
  /\ gctx' = [gctx EXCEPT ![Main] = TRUE]
  /\ CloseStopChan
  /\ UNCHANGED <<mode, proc, term, hc, metrics, servers, supervisor, afterFunc>>

\* The goroutines are started; the member then waits for its context.
StartWebhook ==
  /\ InjectorUp /\ webhook = "starting"
  /\ webhook' = "started"
  /\ servers' = [s \in Servers |-> "serving"]
  /\ supervisor' = "selecting"
  /\ UNCHANGED <<processVars, afterFunc, stopClosed, panicked>>

\* A server cannot listen any more, or could not from the start.
ServerFails(s) ==
  /\ InjectorUp /\ servers[s] = "serving"
  /\ servers' = [servers EXCEPT ![s] = "sending"]
  /\ UNCHANGED <<processVars, webhook, supervisor, afterFunc, stopClosed, panicked>>

\* errCh has no buffer: the error is handed over while the supervisor selects.
SendError(s) ==
  /\ InjectorUp /\ servers[s] = "sending"
  /\ supervisor = "selecting"
  /\ servers' = [servers EXCEPT ![s] = "closing"]
  /\ supervisor' = "failed"
  /\ UNCHANGED <<processVars, webhook, afterFunc, stopClosed, panicked>>

ServerCloses(s) ==
  /\ InjectorUp /\ servers[s] = "closing"
  /\ servers' = [servers EXCEPT ![s] = "ended"]
  /\ CloseStopChan
  /\ UNCHANGED <<processVars, webhook, supervisor, afterFunc>>

\* (variant) The supervisor only logs the error it received.
SupervisorLogs ==
  /\ InjectorUp /\ supervisor \in {"failed", "shutdown"}
  /\ supervisor' = "ended"
  /\ UNCHANGED <<processVars, webhook, servers, afterFunc, stopClosed, panicked>>

\* The supervisor received an error, or has shut the webhook server down because
\* its context was done.
SupervisorCloses ==
  /\ InjectorUp /\ supervisor \in {"failed", "shutdown"}
  /\ supervisor' = "ended"
  /\ CloseStopChan
  /\ UNCHANGED <<processVars, webhook, servers, afterFunc>>

\* httpServer.Shutdown: ListenAndServeTLS returns ErrServerClosed, which is sent
\* like any error, to a channel nobody receives from any more.
SupervisorShutsDown ==
  /\ InjectorUp /\ supervisor = "selecting"
  /\ gctx[Main]
  /\ supervisor' = "shutdown"
  /\ servers' = [servers EXCEPT !["webhook"] = IF @ = "serving" THEN "sending" ELSE @]
  /\ UNCHANGED <<processVars, webhook, afterFunc, stopClosed, panicked>>

MemberReturns ==
  /\ InjectorUp /\ webhook = "started"
  /\ gctx[Main]
  /\ webhook' = "returned"
  /\ UNCHANGED <<processVars, servers, supervisor, afterFunc, stopClosed, panicked>>

-----------------------------------------------------------------------------

InjectorTypeOK ==
  /\ webhook \in {"starting", "started", "returned"}
  /\ servers \in [Servers -> {"none", "serving", "sending", "closing", "ended"}]
  /\ supervisor \in {"none", "selecting", "failed", "shutdown", "ended"}
  /\ afterFunc \in BOOLEAN /\ stopClosed \in BOOLEAN /\ panicked \in BOOLEAN

InjectorInit ==
  /\ webhook = "starting"
  /\ servers = [s \in Servers |-> "none"]
  /\ supervisor = "none"
  /\ afterFunc = TRUE
  /\ stopClosed = FALSE
  /\ panicked = FALSE

InjectorNext ==
  \/ RunAfterFunc \/ StartWebhookFails \/ StartWebhook \/ SupervisorCloses
  \/ SupervisorShutsDown \/ MemberReturns
  \/ \E s \in Servers : ServerFails(s) \/ SendError(s) \/ ServerCloses(s)
=============================================================================
