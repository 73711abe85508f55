------------------------- MODULE CredentialContract -------------------------
(***************************************************************************)
(* What the injector promises about database credentials, without saying   *)
(* how: a credential is issued for a pod that exists, given to that pod    *)
(* and no other while it is valid, and revoked only when it is of no use   *)
(* to the pod any more. Nothing here knows of KV entries, leaders, caches  *)
(* or listings that grow stale.                                            *)
(***************************************************************************)
CONSTANTS
  Pods,
  Residents,  \* the pods that run from the start
  Creds       \* the credentials; c.pod is the pod that c is issued for

VARIABLES
  pod,    \* pod[p]: p's state in the kube-apiserver
  cred,   \* cred[c]: the state of the Vault token that carries c
  dead,   \* the credentials whose lease cannot be renewed any more
  given   \* given[p]: what p's containers hold, or the plugin holds for them

contractVars == <<pod, cred, dead, given>>

-----------------------------------------------------------------------------

Init ==
  /\ pod = [p \in Pods |-> IF p \in Residents THEN "live" ELSE "absent"]
  /\ cred = [c \in Creds |-> "unissued"]
  /\ dead = {}
  /\ given = [p \in Pods |-> {}]

Create(p) ==
  /\ pod[p] = "absent"
  /\ pod' = [pod EXCEPT ![p] = "live"]
  /\ UNCHANGED <<cred, dead, given>>

Delete(p) ==
  /\ pod[p] = "live" /\ p \notin Residents
  /\ pod' = [pod EXCEPT ![p] = "gone"]
  /\ UNCHANGED <<cred, dead, given>>

\* The pod may be gone by the time a credential is issued for it, never absent.
Issue(c) ==
  /\ cred[c] = "unissued" /\ pod[c.pod] # "absent"
  /\ cred' = [cred EXCEPT ![c] = "valid"]
  /\ UNCHANGED <<pod, dead, given>>

Usable(c) == cred[c] = "valid" \/ c \in dead

\* A pod is given its own credentials, and usable ones as long as it lives.
Give(p) ==
  /\ \E cs \in SUBSET {c \in Creds : c.pod = p /\ cred[c] # "unissued"} :
       /\ pod[p] = "live" => \A c \in cs : Usable(c)
       /\ given' = [given EXCEPT ![p] = @ \cup cs]
  /\ UNCHANGED <<pod, cred, dead>>

\* Sandboxes are removed, mappings are lost.
TakeBack ==
  /\ given' \in [Pods -> SUBSET UNION {given[p] : p \in Pods}]
  /\ \A p \in Pods : given'[p] \subseteq given[p]
  /\ UNCHANGED <<pod, cred, dead>>

LeaseDies(c) ==
  /\ cred[c] = "valid"
  /\ dead' = dead \cup {c}
  /\ UNCHANGED <<pod, cred, given>>

\* The pod is gone, the lease is dead, or the credential was never handed over.
Useless(c) == pod[c.pod] = "gone" \/ c \in dead \/ c \notin given[c.pod]

Revoke ==
  /\ \E cs \in SUBSET {c \in Creds : cred[c] = "valid" /\ Useless(c)} :
       cred' = [c \in Creds |-> IF c \in cs THEN "revoked" ELSE cred[c]]
  /\ UNCHANGED <<pod, dead, given>>

Next ==
  \/ \E p \in Pods : Create(p) \/ Delete(p) \/ Give(p)
  \/ \E c \in Creds : Issue(c) \/ LeaseDies(c)
  \/ TakeBack
  \/ Revoke

Spec == Init /\ [][Next]_contractVars
=============================================================================
