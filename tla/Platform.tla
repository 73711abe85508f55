------------------------------ MODULE Platform ------------------------------
(***************************************************************************)
(* The two services every component of vault-db-injector talks to, as far  *)
(* as the code can see them: the pods the kube-apiserver lists under the   *)
(* injector label, and Vault's tokens, leases and KV v2 bookkeeping mount, *)
(* with the calls of pkg/vault and pkg/k8s that read or change them.       *)
(***************************************************************************)
EXTENDS Integers

CONSTANTS
  Pods,       \* pod incarnations (a pod UID is never reused)
  Stamped,    \* the pods whose uuid annotation names one uuid per dbConfig
  Residents,  \* the pods that run from the start and are never deleted
  NumDb,      \* the number of dbConfigurations of a pod
  MaxTries    \* bound on the credential fetches made for one pod

ASSUME PlatformAssumption ==
  /\ Stamped \subseteq Pods
  /\ Residents \subseteq Pods
  /\ NumDb \in Nat \ {0}
  /\ MaxTries \in Nat \ {0}

VARIABLES
  pod,        \* pod[p]: p's state in the kube-apiserver
  token,      \* token[t]: the state of a Vault token
  deadLease,  \* the tokens whose database lease Vault can no longer renew
  kv,         \* the KV entries that hold data, at most one per key
  meta,       \* the keys a LIST of the KV metadata path returns
  faulted     \* history: the tokens a failed call or a process exit concerned

platformVars == <<pod, token, deadLease, kv, meta, faulted>>

-----------------------------------------------------------------------------
(* Identifiers and records *)

\* A pod's dbConfigurations, in the order GetPodDbConfig sorts them into.
DbConfs == 1..NumDb

\* A credential token is named by the fetch that obtained it.
Tokens == [pod : Pods, db : DbConfs, try : 1..MaxTries]

\* KV keys: <<p, d>> is the uuid stamped for the d-th dbConfig of p, and
\* <<p, 0>> is p's own UID.
Keys == Pods \X (0..NumDb)

\* (variant) Every dbConfig of a pod under the pod's UID: the last write wins.
KeyOfPodOnly(p, d) == <<p, 0>>

\* The key a fetch for dbConfig d of p uses: the stamped uuid, and the pod
\* UID for a pod without (enough) uuids in its annotation.
KeyOf(p, d) == IF p \in Stamped THEN <<p, d>> ELSE <<p, 0>>

\* What a KV entry holds. "full": the pod, node and service account names
\* are all set; a new entry lacks the first two.
KeyInfo == [key : Keys, token : Tokens, full : BOOLEAN]

NewKeyInfo(t) == [key |-> KeyOf(t.pod, t.db), token |-> t, full |-> FALSE]

-----------------------------------------------------------------------------
(* Reads *)

\* The uuids in the pod's uuid annotation.
AnnotatedUuids(p) == IF p \in Stamped THEN {<<p, d>> : d \in DbConfs} ELSE {}

\* (variant) The pod UID is left out.
PodUuidsAnnotatedOnly(p) == AnnotatedUuids(p)

\* The uuids GetAllPodAndNamespace reports for one pod.
PodUuids(p) == {<<p, 0>>} \cup AnnotatedUuids(p)

LivePods == {p \in Pods : pod[p] = "live"}

\* GetAllPodAndNamespace succeeds only when at least one pod is listed.
PodListOk == LivePods # {}

ListedUuids == UNION {PodUuids(p) : p \in LivePods}

\* The KeyInfo a read of key k returns, as a set: empty when k has no data.
GetKeyInfo(k) == {ki \in kv : ki.key = k}

-----------------------------------------------------------------------------
(* Vault calls. An X operator is a call that succeeded; XFails is one that  *)
(* returned an error, its effect applied or not.                            *)

StoreData(ki) ==
  /\ kv' = {e \in kv : e.key # ki.key} \cup {ki}
  /\ meta' = meta \cup {ki.key}

StoreDataFails(ki) ==
  \/ StoreData(ki)
  \/ UNCHANGED <<kv, meta>>

\* kv.Delete then kv.DeleteMetadata, both idempotent.
DeleteData(k) ==
  /\ kv' = {e \in kv : e.key # k}
  /\ meta' = meta \ {k}

\* An error of either call. Once the data is gone the key may stay listed.
DeleteDataFails(k) ==
  \/ UNCHANGED <<kv, meta>>
  \/ /\ kv' = {e \in kv : e.key # k}
     /\ meta' \in {meta, meta \ {k}}

\* Revoking a token that is already revoked is a success, too.
RevokeToken(t) == token' = [token EXCEPT ![t] = "revoked"]

RevokeTokenFails(t) ==
  \/ RevokeToken(t)
  \/ UNCHANGED token

-----------------------------------------------------------------------------

PlatformTypeOK ==
  /\ pod \in [Pods -> {"absent", "admitting", "live", "gone"}]
  /\ token \in [Tokens -> {"unissued", "valid", "revoked"}]
  /\ deadLease \subseteq Tokens
  /\ kv \subseteq KeyInfo
  /\ meta \subseteq Keys
  /\ faulted \subseteq Tokens

PlatformInit ==
  /\ pod = [p \in Pods |-> IF p \in Residents THEN "live" ELSE "absent"]
  /\ token = [t \in Tokens |-> "unissued"]
  /\ deadLease = {}
  /\ kv = {}
  /\ meta = {}
  /\ faulted = {}

\* Vault loses the lease, or its database role is deleted.
LeaseDies(t) ==
  /\ token[t] = "valid"
  /\ t \notin deadLease
  /\ deadLease' = deadLease \cup {t}
  /\ UNCHANGED <<pod, token, kv, meta, faulted>>
=============================================================================
