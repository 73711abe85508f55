-------------------------- MODULE WebhookLifecycle --------------------------
(***************************************************************************)
(* The life of a database credential without NRI: the webhook issues it    *)
(* while the pod is being admitted, so that it exists before its pod. The  *)
(* renewer and the revoker are those of the NRI mode.                      *)
(***************************************************************************)
EXTENDS WebhookIssuer, KeyInfoCopies

vars == <<platformVars, issuerVars, renewerVars, revokerVars>>

-----------------------------------------------------------------------------

\* A pod leaves the kube-apiserver, which reports it to the open watches.
DeletePod(p) ==
  /\ pod[p] = "live" /\ p \notin Residents
  /\ pod' = [pod EXCEPT ![p] = "gone"]
  /\ ReportDeletion(p)
  /\ UNCHANGED <<token, deadLease, kv, meta, faulted, issuerVars, renewerVars, running, net>>

Init == PlatformInit /\ IssuerInit /\ RenewerInit /\ RevokerInit

Next ==
  \/ \E p \in Pods : DeletePod(p)
  \/ \E t \in Tokens : LeaseDies(t) /\ UNCHANGED <<issuerVars, renewerVars, revokerVars>>
  \/ IssuerNext /\ UNCHANGED <<renewerVars, revokerVars>>
  \/ RenewerNext /\ UNCHANGED <<issuerVars, revokerVars>>
  \/ RevokerNext /\ UNCHANGED <<issuerVars, renewerVars>>

Spec == Init /\ [][Next]_vars

TypeOK == PlatformTypeOK /\ IssuerTypeOK /\ RenewerTypeOK /\ RevokerTypeOK

-----------------------------------------------------------------------------
(* Safety *)

\* The credentials in the PodSpec of a live pod are valid: the safety net only
\* revokes for a pod that is gone (the comment at its HandlePodDeletionToken).
HeldCredentialsValid ==
  \A t \in Tokens :
    pod[t.pod] = "live" /\ adm[t.pod].step = "over" /\ token[t] # "unissued"
      => t \in deadLease \/ token[t] = "valid"

\* A valid token is in the hands of a running admission, of a write under way
\* or of a KV entry; the cleanup of a failed admission covers every connector
\* whose login succeeded (the comment on liveConns).
ValidTokensTracked ==
  \A t \in Tokens : token[t] = "valid" =>
    \/ t \in faulted
    \/ adm[t.pod].step # "over"
    \/ \E ki \in kv \cup pending : ki.token = t

\* After an admission, whatever its outcome, the injector's own login tokens
\* are revoked (the comment on authorizeDbAccess).
LoginTokensReleased ==
  \A p \in Pods : adm[p].step = "over" /\ pending = {} =>
    \A d \in DbConfs : login[p][d] # "valid"

\* All the same, a sweep of the safety net is the only way for a live pod to lose
\* credentials whose lease can be renewed: neither the cleanup of an admission
\* that failed or was given up on, nor the renewer's purge, nor the watch, which
\* all revoke by what they read before, ever takes a token of a live pod.
OnlySweepsTakeLive ==
  [][\A t \in Tokens :
       pod[t.pod] = "live" /\ token[t] = "valid" /\ token'[t] = "revoked" /\ t \notin deadLease =>
         \E r \in Revokers :
           /\ net[r].phase = "sweeping"
           /\ \E ki \in net[r].infos \ net'[r].infos : ki.token = t]_vars

-----------------------------------------------------------------------------
(* The inductive invariant behind it *)

\* A pod that lives was admitted, or was there before the webhook.
LiveAreAdmitted == \A p \in Pods : pod[p] = "live" => adm[p].step \in {"none", "over"}

\* Tokens come into being one after the other, as the admission goes through the
\* dbConfigs; it reads credentials for a token it has obtained.
IssuedByAdmission ==
  /\ \A t \in Tokens : Issued(t) =>
       \/ adm[t.pod].step = "over"
       \/ adm[t.pod].step \in {"creds", "mutated"} /\ t.db <= adm[t.pod].db
       \/ adm[t.pod].step \in {"authorize", "orphan"} /\ t.db < adm[t.pod].db
  /\ \A p \in Pods : adm[p].step = "creds" => Issued(TokenOf(p, adm[p].db))

\* Entries, and those on their way, sit under the key of their token's pod.
StoresSound == \A ki \in kv \cup pending : Sound(ki)

\* Unlike in NRI mode, what the safety net sweeps need not be of a pod that is
\* gone: a pod that is being admitted is not listed either.
WInv ==
  /\ TypeOK
  /\ LiveAreAdmitted
  /\ IssuedByAdmission
  /\ StoresSound
  /\ SyncsSound
  /\ NetCopiesSound
  /\ WatchesSound

-----------------------------------------------------------------------------
(* Liveness *)

\* The revoker's process keeps running its safety net, and a Vault or apiserver
\* call that is tried again and again succeeds in the end: what is tried for the
\* entries of pods that are admitted, there being no others.
SafetyNetFairness ==
  \A r \in Revokers :
    LET Fair(A) == A /\ UNCHANGED <<issuerVars, renewerVars>>
    IN /\ WF_vars(Fair(NetTick(r)))
       /\ WF_vars(Fair(NetGivesUp(r)))
       /\ WF_vars(Fair(NetEnds(r)))
       /\ SF_vars(Fair(NetListPods(r)))
       /\ \A p \in Pods \ Residents : \A d \in DbConfs : LET k == KeyOf(p, d) IN
            /\ SF_vars(Fair(NetRead(r, k)))
            /\ SF_vars(Fair(\E ki \in net[r].infos : ki.key = k /\ NetRevoke(r, ki)))
            /\ SF_vars(Fair(\E ki \in net[r].purging : ki.key = k /\ NetDelete(r, ki)))

FairSpec == Spec /\ SafetyNetFairness

\* No KV entry outlives its pod for ever, be it deleted, refused after its
\* credentials were issued, or given up on by the kube-apiserver.
GonePodsPurged ==
  \A p \in Pods : pod[p] = "gone" ~> [](\A ki \in kv : ki.token.pod # p)
=============================================================================
