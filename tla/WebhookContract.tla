-------------------------- MODULE WebhookContract ---------------------------
(***************************************************************************)
(* Without NRI the contract is a weaker one: webhook, renewer and revoker  *)
(* together implement AdmissionContract.                                   *)
(***************************************************************************)
EXTENDS WebhookLifecycle

\* What a safety net has still to revoke, by the listings it compared.
Doomed ==
  {ki.token : ki \in UNION {net[r].infos : r \in {s \in Revokers : net[s].phase = "sweeping"}}}

Contract == INSTANCE AdmissionContract WITH
  Creds <- Tokens, cred <- token, dead <- deadLease, doomed <- Doomed

\* Every behaviour of the processes is one of the contract. A pod only comes to
\* life when each of its dbConfigurations has been issued a credential; from then
\* on neither a failed admission, nor a watch, nor a purge, nor a sweep that lists
\* the pods after it picks one of them: a sweep that takes them listed the pods
\* while this one was still being admitted.
KeepsAdmissionContract == Contract!Spec

-----------------------------------------------------------------------------
(* What the refinement needs beside WInv *)

\* The dbConfigurations of p that the loop is done with, or has a token for.
Obtained(p) ==
  {d \in DbConfs :
     \/ adm[p].step = "mutated"
     \/ adm[p].step = "creds" /\ d <= adm[p].db
     \/ adm[p].step \in {"none", "authorize", "orphan"} /\ d < adm[p].db}

\* A pod under review is known to the kube-apiserver, ...
ReviewedKnown == \A p \in Pods : adm[p].step # "none" => pod[p] # "absent"

\* ... only the legacy mode creates orphan tokens, ...
OrphansInLegacyMode == UseProjectedSA => \A p \in Pods : adm[p].step # "orphan"

\* ... and the loop skips no dbConfiguration: when it has gone past one, or is
\* through, the token of each is issued. So the cleanup of a failed admission
\* revokes what exists, and a pod that lives lacks nothing.
ObtainedIssued == \A p \in Pods : \A d \in Obtained(p) : Issued(TokenOf(p, d))

AdmissionInv == ReviewedKnown /\ OrphansInLegacyMode /\ ObtainedIssued
=============================================================================
