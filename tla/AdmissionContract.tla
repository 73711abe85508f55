------------------------- MODULE AdmissionContract --------------------------
(***************************************************************************)
(* What the injector promises about database credentials without NRI, when *)
(* they exist before their pod does: a pod starts to live with a           *)
(* credential for each of its dbConfigurations, and as long as it lives    *)
(* nobody decides to take one from it. This is weaker than                 *)
(* CredentialContract by what was decided while the pod was not there yet, *)
(* and is carried out when it is. Nothing here knows of KV entries,        *)
(* leaders, listings, or of how far an admission has come.                 *)
(***************************************************************************)
CONSTANTS
  Pods,
  Residents,  \* the pods that run from the start
  Creds       \* the credentials; c.pod is the pod that c is issued for

VARIABLES
  pod,    \* pod[p]: p's state in the kube-apiserver
  cred,   \* cred[c]: the state of the Vault token that carries c
  dead,   \* the credentials whose lease cannot be renewed any more
  doomed  \* the credentials somebody has decided to revoke and will

admissionVars == <<pod, cred, dead, doomed>>

Own(p) == {c \in Creds : c.pod = p}

-----------------------------------------------------------------------------

Init ==
  /\ pod = [p \in Pods |-> IF p \in Residents THEN "live" ELSE "absent"]
  /\ cred = [c \in Creds |-> "unissued"]
  /\ dead = {}
  /\ doomed = {}

Review(p) ==
  /\ pod[p] = "absent"
  /\ pod' = [pod EXCEPT ![p] = "admitting"]
  /\ UNCHANGED <<cred, dead, doomed>>

\* Once, for a pod that is reviewed, or was; never for one that lives.
Issue(c) ==
  /\ cred[c] = "unissued" /\ pod[c.pod] \in {"admitting", "gone"}
  /\ cred' = [cred EXCEPT ![c] = "valid"]
  /\ UNCHANGED <<pod, dead, doomed>>

Admit(p) ==
  /\ pod[p] = "admitting" /\ \A c \in Own(p) : cred[c] # "unissued"
  /\ pod' = [pod EXCEPT ![p] = "live"]
  /\ UNCHANGED <<cred, dead, doomed>>

\* Pods are refused, or their admissions given up.
Refuse ==
  /\ \E ps \in SUBSET {p \in Pods : pod[p] = "admitting"} :
       pod' = [p \in Pods |-> IF p \in ps THEN "gone" ELSE pod[p]]
  /\ UNCHANGED <<cred, dead, doomed>>

\* The admission of p itself fails: what was issued for p may be taken back, and
\* one credential may come too late for that.
Fail(p) ==
  /\ pod[p] \in {"admitting", "gone"}
  /\ pod' = [pod EXCEPT ![p] = "gone"]
  /\ \E back \in SUBSET {c \in Own(p) : cred[c] # "unissued"},
        late \in SUBSET {c \in Own(p) : cred[c] = "unissued"} :
       /\ \A c, d \in late : c = d
       /\ cred' = [c \in Creds |-> IF c \in back THEN "revoked"
                                   ELSE IF c \in late THEN "valid" ELSE cred[c]]
  /\ UNCHANGED <<dead, doomed>>

Delete(p) ==
  /\ pod[p] = "live" /\ p \notin Residents
  /\ pod' = [pod EXCEPT ![p] = "gone"]
  /\ UNCHANGED <<cred, dead, doomed>>

LeaseDies(c) ==
  /\ cred[c] = "valid"
  /\ dead' = dead \cup {c}
  /\ UNCHANGED <<pod, cred, doomed>>

\* Decisions are made about credentials of pods that do not live, or dropped.
Decide ==
  /\ \E cs \in SUBSET {c \in Creds : cred[c] # "unissued" /\ pod[c.pod] # "live"} :
       doomed' \in SUBSET (doomed \cup cs)
  /\ UNCHANGED <<pod, cred, dead>>

Takable(c) == pod[c.pod] = "gone" \/ c \in dead \/ c \in doomed

\* Decisions are carried out, and what is of no use is revoked.
Revoke ==
  /\ \E cs \in SUBSET {c \in Creds : cred[c] = "valid" /\ Takable(c)} :
       cred' = [c \in Creds |-> IF c \in cs THEN "revoked" ELSE cred[c]]
  /\ doomed' \in SUBSET doomed
  /\ UNCHANGED <<pod, dead>>

Next ==
  \/ \E p \in Pods : Review(p) \/ Admit(p) \/ Fail(p) \/ Delete(p)
  \/ \E c \in Creds : Issue(c) \/ LeaseDies(c)
  \/ Refuse
  \/ Decide
  \/ Revoke

Spec == Init /\ [][Next]_admissionVars
=============================================================================
