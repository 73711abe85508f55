---------------------------- MODULE NriInvariants ---------------------------
(***************************************************************************)
(* The inductive invariants behind the safety properties of NriLifecycle:  *)
(* IInv for what is revoked, TInv for what is kept track of.               *)
(***************************************************************************)
EXTENDS NriLifecycle, KeyInfoCopies

\* A fetch in flight is one of those counted, for a pod that existed and whose
\* mapping is not cached.
FetchesCounted ==
  \A p \in Pods : fetch[p].step # "none" =>
    tries[p] >= 1 /\ pod[p] # "absent" /\ cache[p] = {}

\* Tokens come into being one after the other: those of earlier fetches, and of
\* the dbConfigs the running fetch has logged in for.
IssuedInOrder ==
  \A t \in Tokens : Issued(t) =>
    /\ pod[t.pod] # "absent"
    /\ \/ t.try < tries[t.pod]
       \/ /\ t.try = tries[t.pod]
          /\ fetch[t.pod].step = "none" \/ t.db \in LiveConns(t.pod)

\* What a pod holds was issued for it, and by an earlier fetch than the one
\* that runs, unless it is that fetch's.
HeldIssued ==
  \A p \in Pods :
    /\ \A t \in FetchTokens(p) : Issued(t)
    /\ \A t \in cache[p] \cup using[p] :
         /\ t.pod = p /\ Issued(t)
         /\ fetch[p].step # "none" => t.try < tries[p]

\* Entries, and those on their way, sit under the key of their token's pod.
StoresSound == \A ki \in kv \cup pending : Sound(ki)

\* Once the pods are listed too, a safety net only handles pods that are gone.
NetsSound ==
  \A r \in Revokers :
    /\ \A ki \in net[r].infos : Sound(ki) /\ (net[r].phase = "sweeping" => Gone(ki))
    /\ \A ki \in net[r].purging : Sound(ki) /\ Gone(ki)

\* No admission is modelled in NRI mode.
NoAdmission == \A p \in Pods : pod[p] # "admitting"

\* Whoever holds a copy of a KeyInfo holds a sound one, whoever is about to
\* revoke works on a pod that is gone or a lease that is dead, and so the
\* credentials of live pods stay valid, whatever step comes next.
IInv ==
  /\ TypeOK
  /\ NoAdmission
  /\ FetchesCounted
  /\ IssuedInOrder
  /\ HeldIssued
  /\ StoresSound
  /\ SyncsSound
  /\ NetsSound
  /\ WatchesSound
  /\ HeldCredentialsValid

-----------------------------------------------------------------------------
(* Keeping track of the tokens *)

\* The fetch for t's pod has logged in for t and reads its credentials.
BeingRead(t) == fetch[t.pod].step = "creds" /\ t = TokenOf(t.pod, fetch[t.pod].db)

\* t has a KV entry, or one on its way.
Listed(t) == \E ki \in kv \cup pending : ki.token = t

\* Another token of the pod shares t's KV key: only one of them is in the entry.
Replaced(t) ==
  \E u \in Tokens : u # t /\ Issued(u) /\ KeyOf(u.pod, u.db) = KeyOf(t.pod, t.db)

\* Whatever was fetched how often, a valid token is listed for the renewer and
\* the revoker from the moment its credentials are read, unless a call for it
\* failed, a process exited in between, or StoreData wrote another token of the
\* same pod under the same key.
TokensTracked ==
  \A t \in Tokens : token[t] = "valid" =>
    t \in faulted \/ BeingRead(t) \/ Listed(t) \/ Replaced(t)

\* Whoever is about to delete an entry has revoked the token it read there; the
\* renewer's purge may have failed to.
PurgesRevoked ==
  /\ \A r \in Revokers : \A ki \in net[r].purging \cup watch[r].purging :
       token[ki.token] = "revoked"
  /\ \A r \in Renewers : \A j \in sync[r].jobs :
       j.step = "delete" => token[j.ki.token] = "revoked" \/ j.ki.token \in faulted

\* Credentials are fetched for pods with placeholders only.
FetchesInjected == \A p \in Pods : tries[p] # 0 => p \in Injected

\* In projected mode, where the cleanup of a failed fetch runs.
TInv == TokensTracked /\ PurgesRevoked /\ FetchesInjected
=============================================================================
