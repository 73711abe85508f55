---------------------------- MODULE NriContract -----------------------------
(***************************************************************************)
(* NRI mode keeps the contract: plugin, renewer and revoker together       *)
(* implement CredentialContract.                                           *)
(***************************************************************************)
EXTENDS NriInvariants

\* A pod holds what its containers use and what the plugin has cached for it.
\* What a fetch in flight has obtained is not handed over yet.
Given == [p \in Pods |-> cache[p] \cup using[p]]

Contract == INSTANCE CredentialContract WITH
  Creds <- Tokens, cred <- token, dead <- deadLease, given <- Given

\* Every behaviour of the processes, interleaved as they may be, is one of the
\* contract: whoever revokes (the revoker from stale listings, the renewer's
\* purge, the cleanup of a failed fetch) revokes what is of no use to a pod, and
\* the plugin hands a pod its own credentials only, while they can be used.
KeepsContract == Contract!Spec
=============================================================================
