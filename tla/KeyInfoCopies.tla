---------------------------- MODULE KeyInfoCopies ---------------------------
(***************************************************************************)
(* What the copies of KV entries are worth that the renewers and the       *)
(* revokers work on, minutes after they read them. Shared by the inductive *)
(* invariants of both modes, NRI and webhook.                              *)
(***************************************************************************)
EXTENDS Renewer, Revoker

Issued(t) == token[t] # "unissued"

\* A KeyInfo sits under the key of its token's pod, and its token exists.
Sound(ki) == ki.key = KeyOf(ki.token.pod, ki.token.db) /\ Issued(ki.token)

Gone(ki) == pod[ki.token.pod] = "gone"

\* The entries in Vault are sound, ...
EntriesSound == \A ki \in kv : Sound(ki)

\* ... so is what a renewer read, and what it is about to purge has lost its
\* lease or is revoked already, ...
SyncsSound ==
  \A r \in Renewers :
    /\ \A ki \in sync[r].infos : Sound(ki)
    /\ \A j \in sync[r].jobs :
         /\ Sound(j.ki)
         /\ j.step = "revoke" => j.ki.token \in deadLease \/ token[j.ki.token] = "revoked"

\* ... so is what a safety net read, ...
NetCopiesSound ==
  \A r \in Revokers : \A ki \in net[r].infos \cup net[r].purging : Sound(ki)

\* ... and what a watch handles, which is of pods that were reported deleted.
WatchesSound ==
  \A r \in Revokers :
    /\ \A p \in watch[r].events : pod[p] = "gone"
    /\ \A k \in watch[r].uuids : pod[k[1]] = "gone"
    /\ \A ki \in watch[r].found \cup watch[r].purging : Sound(ki) /\ Gone(ki)
=============================================================================
