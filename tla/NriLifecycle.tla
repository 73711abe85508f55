---------------------------- MODULE NriLifecycle ----------------------------
(***************************************************************************)
(* The life of a database credential in NRI mode: the plugin issues it for *)
(* a pod that exists, the renewer keeps it alive, the revoker revokes it   *)
(* once the pod is gone. The processes share nothing but the kube-         *)
(* apiserver and Vault.                                                    *)
(***************************************************************************)
EXTENDS NriIssuer, Renewer, Revoker

vars == <<platformVars, issuerVars, renewerVars, revokerVars>>

-----------------------------------------------------------------------------

\* A pod is created with placeholders in its env: no credential exists yet.
CreatePod(p) ==
  /\ pod[p] = "absent"
  /\ pod' = [pod EXCEPT ![p] = "live"]
  /\ UNCHANGED <<token, deadLease, kv, meta, faulted, issuerVars, renewerVars, revokerVars>>

\* A pod leaves the kube-apiserver, which reports it to the open watches.
DeletePod(p) ==
  /\ pod[p] = "live" /\ p \notin Residents
  /\ pod' = [pod EXCEPT ![p] = "gone"]
  /\ ReportDeletion(p)
  /\ UNCHANGED <<token, deadLease, kv, meta, faulted, issuerVars, renewerVars, running, net>>

Init == PlatformInit /\ IssuerInit /\ RenewerInit /\ RevokerInit

Next ==
  \/ \E p \in Pods : CreatePod(p) \/ DeletePod(p)
  \/ \E t \in Tokens : LeaseDies(t) /\ UNCHANGED <<issuerVars, renewerVars, revokerVars>>
  \/ IssuerNext /\ UNCHANGED <<renewerVars, revokerVars>>
  \/ RenewerNext /\ UNCHANGED <<issuerVars, revokerVars>>
  \/ RevokerNext /\ UNCHANGED <<issuerVars, renewerVars>>

Spec == Init /\ [][Next]_vars

TypeOK == PlatformTypeOK /\ IssuerTypeOK /\ RenewerTypeOK /\ RevokerTypeOK

-----------------------------------------------------------------------------
(* Safety *)

\* The tokens p's containers hold, or are about to be given.
HeldTokens(p) == FetchTokens(p) \cup cache[p] \cup using[p]

\* As long as a pod lives, nobody revokes a credential it was given or is being
\* given: not the safety net, whose view of the KV entries and of the pods is
\* stale by the time it acts (revoker.go safetyNetSync), nor an old leader
\* beside a new one, nor the cleanup of a failed later fetch for the same pod
\* (nri/vault.go). The one exception is a lease that can no longer be renewed.
HeldCredentialsValid ==
  \A p \in Pods : pod[p] = "live" =>
    \A t \in HeldTokens(p) : t \in deadLease \/ token[t] = "valid"

\* A revoker step touches neither token nor KV entry of a live pod, even when
\* the pod was created, or its entry written, in the middle of a sweep.
RevokerSparesLivePods ==
  [][RevokerNext =>
       \A p \in Pods : pod[p] = "live" =>
         /\ \A t \in Tokens : t.pod = p => token'[t] = token[t]
         /\ \A ki \in kv : ki.token.pod = p => ki \in kv']_vars

\* A valid token is in the hands of a running fetch, of a write under way or of
\* a KV entry, so that the renewer and the revoker can manage it; only a token
\* a failed call or a process exit concerned may escape them (the trade-off
\* StoreDataAsync's comment accepts).
ValidTokensTracked ==
  \A t \in Tokens : token[t] = "valid" =>
    \/ t \in faulted
    \/ t \in FetchTokens(t.pod)
    \/ \E ki \in kv \cup pending : ki.token = t

-----------------------------------------------------------------------------
(* Liveness *)

\* The revoker's process keeps running its safety net, and a Vault or apiserver
\* call that is tried again and again succeeds in the end: what is tried for the
\* entries of injected pods, there being no others. Nothing is assumed of the
\* watch, of the renewers or of the plugin.
SafetyNetFairness ==
  \A r \in Revokers :
    LET Fair(A) == A /\ UNCHANGED <<issuerVars, renewerVars>>
    IN /\ WF_vars(Fair(NetTick(r)))
       /\ WF_vars(Fair(NetGivesUp(r)))
       /\ WF_vars(Fair(NetEnds(r)))
       /\ SF_vars(Fair(NetListPods(r)))
       /\ \A p \in Injected : \A d \in DbConfs : LET k == KeyOf(p, d) IN
            /\ SF_vars(Fair(NetRead(r, k)))
            /\ SF_vars(Fair(\E ki \in net[r].infos : ki.key = k /\ NetRevoke(r, ki)))
            /\ SF_vars(Fair(\E ki \in net[r].purging : ki.key = k /\ NetDelete(r, ki)))

FairSpec == Spec /\ SafetyNetFairness

\* The safety net catches every pod that died, also while the watch was
\* disconnected or the revoker was down: in the end there is no KV entry for
\* it, whatever late writes and write-backs of the renewer came in between.
GonePodsPurged ==
  \A p \in Pods : pod[p] = "gone" ~> [](\A ki \in kv : ki.token.pod # p)

\* ... and the token that an entry of a dead pod names is revoked, unless a call
\* for that very token failed (the renewer's best-effort purge).
GonePodsRevoked ==
  \A t \in Tokens :
    (pod[t.pod] = "gone" /\ \E ki \in kv : ki.token = t)
      ~> (token[t] = "revoked" \/ t \in faulted)
=============================================================================
