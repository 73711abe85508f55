----------------------------- MODULE Leadership -----------------------------
(***************************************************************************)
(* Leader election of the renewer and of the revoker, the job a leader     *)
(* starts in a goroutine that nobody waits for, and the Vault login token  *)
(* of that job with the goroutine that renews it.                          *)
(***************************************************************************)
EXTENDS Processes

VARIABLES
  lease,    \* the holder of the lease in the kube-apiserver, as a set
  role,     \* role[r]: where RunLeaderElection is
  healthy,  \* healthy[r]: what IsHealthy answers on /live
  job,      \* job[r]: the leaderFunc goroutine
  login     \* login[r]: the job's login token and the goroutine renewing it

leaderVars == <<lease, role, healthy, job, login>>

-----------------------------------------------------------------------------

TokenStates == {"none", "valid", "expired", "revoked"}

\* held: the token the job works with; renewal: where the goroutine that renews
\* it is, "revoking" while the token it has replaced is still to be revoked.
Logins == [held : TokenStates, renewal : {"none", "ticking", "reconnecting", "revoking"}]

NoLogin == [held |-> "none", renewal |-> "none"]

\* The context the job was given: done when the election ends.
JobCtxDone(r) == gctx[r] \/ role[r] = "out"

-----------------------------------------------------------------------------
(* The election *)

\* OnStartedLeading: the job is started and not waited for.
StartLeading(r) ==
  /\ proc[r] = "up" /\ ~gctx[r]
  /\ role[r] = "candidate"
  /\ lease = {}
  /\ lease' = {r}
  /\ role' = [role EXCEPT ![r] = "leader"]
  /\ job' = [job EXCEPT ![r] = "starting"]
  /\ UNCHANGED <<processVars, healthy, login>>

\* The lease runs out: its holder is down, cut off or stalled.
LeaseExpires ==
  /\ lease # {}
  /\ lease' = {}
  /\ UNCHANGED <<processVars, role, healthy, job, login>>

\* (variant) The process is not marked unhealthy.
StopLeadingSilently(r) ==
  /\ proc[r] = "up"
  /\ \/ role[r] = "leader"
     \/ role[r] = "candidate" /\ gctx[r]
  /\ role' = [role EXCEPT ![r] = "out"]
  /\ lease' = lease \ {r}
  /\ UNCHANGED <<processVars, healthy, job, login>>

\* RunOrDie returns: the lease could not be renewed, or the context is done, also
\* that of a replica that never led. The lease is released, liveness fails and
\* stopChan is closed; RunLeaderElection is not entered again.
StopLeading(r) ==
  /\ proc[r] = "up"
  /\ \/ role[r] = "leader"
     \/ role[r] = "candidate" /\ gctx[r]
  /\ role' = [role EXCEPT ![r] = "out"]
  /\ lease' = lease \ {r}
  /\ healthy' = [healthy EXCEPT ![r] = FALSE]
  /\ UNCHANGED <<processVars, job, login>>

-----------------------------------------------------------------------------
(* The job and its login token *)

\* ConnectAndRenew: a login, and the renewal goroutine is started.
JobLogsIn(r) ==
  /\ proc[r] = "up" /\ job[r] = "starting"
  /\ job' = [job EXCEPT ![r] = "running"]
  /\ login' = [login EXCEPT ![r] = [held |-> "valid", renewal |-> "ticking"]]
  /\ UNCHANGED <<processVars, lease, role, healthy>>

\* The renewer sees stopChan closed between two syncs, the revoker its context
\* done: the job revokes the token it holds, best effort, and ends.
JobStops(r) ==
  /\ proc[r] = "up" /\ job[r] = "running"
  /\ JobCtxDone(r)
  /\ job' = [job EXCEPT ![r] = "ended"]
  /\ \E ok \in BOOLEAN :
       login' = [login EXCEPT ![r].held = IF ok /\ @ = "valid" THEN "revoked" ELSE @]
  /\ UNCHANGED <<processVars, lease, role, healthy>>

\* Vault forgets a token that was not renewed in time.
LoginExpires(r) ==
  /\ r \in Fragile
  /\ login[r].held = "valid"
  /\ login' = [login EXCEPT ![r].held = "expired"]
  /\ UNCHANGED <<processVars, lease, role, healthy, job>>

\* A tick finds the token dead, or Vault does not answer.
RenewSelfFails(r) ==
  /\ r \in Fragile
  /\ proc[r] = "up" /\ login[r].renewal = "ticking"
  /\ login' = [login EXCEPT ![r].renewal = "reconnecting"]
  /\ UNCHANGED <<processVars, lease, role, healthy, job>>

\* ConnectToVault succeeds: the new token replaces the old one, on the connector
\* and on its client, also when the job has ended since it was asked for.
Reconnect(r) ==
  /\ proc[r] = "up" /\ login[r].renewal = "reconnecting"
  /\ login' = [login EXCEPT ![r] = [held |-> "valid", renewal |-> "revoking"]]
  /\ UNCHANGED <<processVars, lease, role, healthy, job>>

\* (variant) A failed reconnection ends the goroutine.
ReconnectFailsForGood(r) ==
  /\ proc[r] = "up" /\ login[r].renewal = "reconnecting"
  /\ login' = [login EXCEPT ![r].renewal = "none"]
  /\ UNCHANGED <<processVars, lease, role, healthy, job>>

\* It fails: the stale token is kept until the next tick.
ReconnectFails(r) ==
  /\ proc[r] = "up" /\ login[r].renewal = "reconnecting"
  /\ login' = [login EXCEPT ![r].renewal = "ticking"]
  /\ UNCHANGED <<processVars, lease, role, healthy, job>>

\* (variant) RevokeSelfWithContext on the connector's own client revokes the
\* token that client carries, whatever token it is told.
RevokeOldRevokesHeld(r) ==
  /\ proc[r] = "up" /\ login[r].renewal = "revoking"
  /\ login' = [login EXCEPT ![r] = [held |-> "revoked", renewal |-> "ticking"]]
  /\ UNCHANGED <<processVars, lease, role, healthy, job>>

\* RevokeSelfToken of the replaced token, on a client of its own; a failure is logged.
RevokeOld(r) ==
  /\ proc[r] = "up" /\ login[r].renewal = "revoking"
  /\ login' = [login EXCEPT ![r].renewal = "ticking"]
  /\ UNCHANGED <<processVars, lease, role, healthy, job>>

\* The renewal goroutine sees that its context is done.
RenewalStops(r) ==
  /\ proc[r] = "up" /\ login[r].renewal = "ticking"
  /\ JobCtxDone(r)
  /\ login' = [login EXCEPT ![r].renewal = "none"]
  /\ UNCHANGED <<processVars, lease, role, healthy, job>>

-----------------------------------------------------------------------------

LeadershipTypeOK ==
  /\ lease \in {{}} \cup {{r} : r \in Replicas}
  /\ role \in [Replicas -> {"candidate", "leader", "out"}]
  /\ healthy \in [Replicas -> BOOLEAN]
  /\ job \in [Replicas -> {"none", "starting", "running", "ended"}]
  /\ login \in [Replicas -> Logins]

LeadershipInit ==
  /\ lease = {}
  /\ role = [r \in Replicas |-> "out"]
  /\ healthy = [r \in Replicas |-> TRUE]
  /\ job = [r \in Replicas |-> "none"]
  /\ login = [r \in Replicas |-> NoLogin]

LeadershipNext ==
  \/ LeaseExpires
  \/ \E r \in Replicas :
       \/ StartLeading(r) \/ StopLeading(r) \/ JobLogsIn(r) \/ JobStops(r)
       \/ LoginExpires(r) \/ RenewSelfFails(r) \/ Reconnect(r) \/ ReconnectFails(r)
       \/ RevokeOld(r) \/ RenewalStops(r)
=============================================================================
