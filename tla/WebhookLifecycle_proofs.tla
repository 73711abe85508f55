----------------------- MODULE WebhookLifecycle_proofs -----------------------
(***************************************************************************)
(* WInv is an inductive invariant of WebhookLifecycle, in both modes, and  *)
(* with it: a sweep of the safety net is the only way for a live pod to    *)
(* lose credentials whose lease can be renewed; and webhook, renewers and  *)
(* revokers together implement AdmissionContract.                          *)
(***************************************************************************)
EXTENDS WebhookContract, KeyInfoCopies_proofs

\* The invariant has what the lemmas about renewers and revokers ask for.
LEMMA CopiesInOrder ==
  ASSUME WInv
  PROVE  PlatformTypeOK /\ RenewerTypeOK /\ EntriesSound /\ SyncsSound /\ RevokersInOrder
BY DEF WInv, TypeOK, StoresSound, EntriesSound, RevokersInOrder

\* A fetch of the webhook obtains a token, and names its entry, for a pod and one
\* of its dbConfigurations.
LEMMA TokenOfTyped ==
  ASSUME NEW p \in Pods, NEW d \in DbConfs
  PROVE  /\ TokenOf(p, d) \in Tokens
         /\ NewKeyInfo(TokenOf(p, d)) \in KeyInfo
         /\ NewKeyInfo(TokenOf(p, d)).token = TokenOf(p, d)
         /\ NewKeyInfo(TokenOf(p, d)).key = KeyOf(p, d)
<1>1. TokenOf(p, d) \in Tokens
  BY WebhookIssuerAssumption DEF TokenOf, Tokens
<1>2. KeyOf(p, d) \in Keys
  BY PlatformAssumption DEF KeyOf, Keys, DbConfs
<1> QED BY <1>1, <1>2 DEF NewKeyInfo, KeyInfo, TokenOf

\* A token is named by its pod and its dbConfiguration: there is one fetch.
LEMMA TokenNamed ==
  ASSUME NEW t \in Tokens
  PROVE  t = TokenOf(t.pod, t.db) /\ t.pod \in Pods /\ t.db \in DbConfs
BY WebhookIssuerAssumption DEF TokenOf, Tokens

-----------------------------------------------------------------------------
(* Steps of the webhook *)

\* The conjuncts of WInv about the webhook and the bookkeeping.
IssuerInv == LiveAreAdmitted /\ IssuedByAdmission /\ StoresSound

\* No step of the webhook takes a token from a pod that lives.
SparesLive == \A t \in Tokens : pod[t.pod] = "live" => token'[t] = token[t] \/ ~Issued(t)

\* The goal of each step of the webhook.
IssuerGoal == IssuerTypeOK' /\ PlatformTypeOK' /\ IssuerInv' /\ Monotone /\ SparesLive

\* The stores stay sound as long as the tokens stay issued.
LEMMA StoresFrame ==
  ASSUME WInv, Monotone, kv' \cup pending' \subseteq kv \cup pending
  PROVE  StoresSound'
<1>1. \A ki \in kv \cup pending : ki \in KeyInfo /\ Sound(ki)
  BY DEF WInv, TypeOK, PlatformTypeOK, IssuerTypeOK, StoresSound
<1> QED BY <1>1, KeyInfoFrame DEF StoresSound

\* The admission of a pod that the kube-apiserver does not know starts.
LEMMA ReviewPodStep ==
  ASSUME WInv, NEW p \in Pods, ReviewPod(p)
  PROVE  IssuerGoal
<1> USE DEF WInv, TypeOK
<1>1. /\ adm[p].step = "none" /\ pod[p] = "absent"
      /\ pod' = [pod EXCEPT ![p] = "admitting"]
      /\ adm' = [adm EXCEPT ![p].step = "authorize"]
      /\ UNCHANGED <<token, deadLease, kv, meta, faulted, login, pending>>
  BY DEF ReviewPod
<1>2. IssuerTypeOK' /\ PlatformTypeOK'
  BY <1>1 DEF PlatformTypeOK, IssuerTypeOK, AdmSteps
<1>3. Monotone /\ SparesLive
  BY <1>1 DEF PlatformTypeOK, Monotone, Issued, SparesLive
<1>4. LiveAreAdmitted'
  BY <1>1 DEF LiveAreAdmitted, PlatformTypeOK, IssuerTypeOK
<1>5. IssuedByAdmission'
  BY <1>1, TokenNamed DEF IssuedByAdmission, Issued, IssuerTypeOK, TokenOf
<1>6. StoresSound'
  BY <1>1, <1>3, StoresFrame
<1> QED BY <1>2, <1>3, <1>4, <1>5, <1>6 DEF IssuerInv, IssuerGoal

\* A token that is obtained, in projected mode by the login, in legacy mode as an
\* orphan, is a new one.
LEMMA ObtainStep ==
  ASSUME WInv, NEW p \in Pods, adm[p].step \in {"authorize", "orphan"},
         token' = [token EXCEPT ![TokenOf(p, adm[p].db)] = "valid"],
         adm' = [adm EXCEPT ![p].step = "creds"],
         login' \in [Pods -> [DbConfs -> {"none", "valid", "revoked"}]],
         UNCHANGED <<pod, deadLease, kv, meta, faulted, pending>>
  PROVE  IssuerGoal
<1> USE DEF WInv, TypeOK
<1> DEFINE tok == TokenOf(p, adm[p].db)
<1>1. adm[p].db \in DbConfs /\ adm \in [Pods -> [step : AdmSteps, db : DbConfs]]
  BY DEF IssuerTypeOK
<1>2. tok \in Tokens /\ tok.pod = p /\ tok.db = adm[p].db
  BY <1>1, TokenOfTyped DEF TokenOf
<1>3. /\ token'[tok] = "valid" /\ token' \in [Tokens -> {"unissued", "valid", "revoked"}]
      /\ \A t \in Tokens : t # tok => token'[t] = token[t]
  BY <1>2 DEF PlatformTypeOK
<1>4. /\ adm'[p].step = "creds" /\ adm'[p].db = adm[p].db
      /\ \A q \in Pods : q # p => adm'[q] = adm[q]
  BY <1>1
<1>5. ~Issued(tok)
  BY <1>1, <1>2 DEF IssuedByAdmission, DbConfs
<1> HIDE DEF tok
<1>6. Monotone /\ SparesLive
  BY <1>3, <1>5 DEF Monotone, Issued, SparesLive
<1>7. IssuerTypeOK' /\ PlatformTypeOK'
  BY <1>1, <1>3 DEF PlatformTypeOK, IssuerTypeOK, AdmSteps
<1>8. LiveAreAdmitted'
  BY <1>4 DEF LiveAreAdmitted
<1>9. IssuedByAdmission'
  <2>1. ASSUME NEW t \in Tokens, Issued(t)'
        PROVE  \/ adm'[t.pod].step = "over"
               \/ adm'[t.pod].step \in {"creds", "mutated"} /\ t.db <= adm'[t.pod].db
               \/ adm'[t.pod].step \in {"authorize", "orphan"} /\ t.db < adm'[t.pod].db
    <3>1. t.pod \in Pods /\ t.db \in Nat /\ adm[p].db \in Nat
      BY <1>1, TokenNamed DEF DbConfs
    <3>2. CASE t = tok
      BY <1>2, <1>4, <3>1, <3>2
    <3>3. CASE t # tok /\ t.pod = p
      BY <1>3, <1>4, <2>1, <3>1, <3>3 DEF IssuedByAdmission, Issued
    <3>4. CASE t # tok /\ t.pod # p
      BY <1>3, <1>4, <2>1, <3>1, <3>4 DEF IssuedByAdmission, Issued
    <3> QED BY <3>2, <3>3, <3>4
  <2>2. ASSUME NEW q \in Pods, adm'[q].step = "creds"
        PROVE  Issued(TokenOf(q, adm[q].db))'
    <3>1. CASE q = p
      BY <1>3, <1>4, <3>1 DEF Issued, tok
    <3>2. CASE q # p
      <4>1. adm[q].db \in DbConfs
        BY <1>1
      <4> QED BY <1>4, <1>6, <2>2, <3>2, <4>1, TokenOfTyped DEF IssuedByAdmission, Monotone, Issued
    <3> QED BY <3>1, <3>2
  <2> QED BY <2>1, <2>2 DEF IssuedByAdmission
<1>10. StoresSound'
  BY <1>6, StoresFrame
<1> QED BY <1>6, <1>7, <1>8, <1>9, <1>10 DEF IssuerInv, IssuerGoal

\* In legacy mode the login obtains the injector's own token, and no other.
LEMMA AuthorizeStep ==
  ASSUME WInv, NEW p \in Pods, Authorize(p)
  PROVE  IssuerGoal
<1> USE DEF WInv, TypeOK
<1>1. adm[p].db \in DbConfs /\ adm \in [Pods -> [step : AdmSteps, db : DbConfs]]
  BY DEF IssuerTypeOK
<1>2. CASE UseProjectedSA
  BY <1>2, ObtainStep DEF Authorize, TokensAfterLogin, LoginsAfterLogin, IssuerTypeOK
<1>3. CASE ~UseProjectedSA
  <2>1. /\ adm[p].step = "authorize" /\ adm' = [adm EXCEPT ![p].step = "orphan"]
        /\ login' = [login EXCEPT ![p][adm[p].db] = "valid"]
        /\ UNCHANGED <<pod, token, deadLease, kv, meta, faulted, pending>>
    BY <1>3 DEF Authorize, TokensAfterLogin, LoginsAfterLogin
  <2>2. /\ adm'[p].step = "orphan" /\ adm'[p].db = adm[p].db
        /\ \A q \in Pods : q # p => adm'[q] = adm[q]
    BY <1>1, <2>1
  <2>3. Monotone /\ SparesLive
    BY <2>1 DEF Monotone, Issued, SparesLive
  <2>4. IssuerTypeOK' /\ PlatformTypeOK'
    BY <1>1, <2>1 DEF PlatformTypeOK, IssuerTypeOK, AdmSteps
  <2>5. LiveAreAdmitted'
    BY <2>1, <2>2 DEF LiveAreAdmitted
  <2>6. IssuedByAdmission'
    BY <2>1, <2>2, TokenNamed DEF IssuedByAdmission, Issued, TokenOf
  <2>7. StoresSound'
    BY <2>1, <2>3, StoresFrame
  <2> QED BY <2>3, <2>4, <2>5, <2>6, <2>7 DEF IssuerInv, IssuerGoal
<1> QED BY <1>2, <1>3

\* The orphan token of legacy mode.
LEMMA CreateOrphanTokenStep ==
  ASSUME WInv, NEW p \in Pods, CreateOrphanToken(p)
  PROVE  IssuerGoal
BY ObtainStep DEF WInv, TypeOK, CreateOrphanToken, IssuerTypeOK

\* Credentials for a dbConfiguration send one KV write on its way, for a token
\* that exists, and the admission goes on with the next or is done.
LEMMA GetDbCredentialsStep ==
  ASSUME WInv, NEW p \in Pods, GetDbCredentials(p)
  PROVE  IssuerGoal
<1> USE DEF WInv, TypeOK
<1> DEFINE tok == TokenOf(p, adm[p].db)
<1>1. adm[p].db \in DbConfs /\ adm \in [Pods -> [step : AdmSteps, db : DbConfs]]
  BY DEF IssuerTypeOK
<1>2. /\ adm[p].step = "creds" /\ pending' = pending \cup {NewKeyInfo(tok)}
      /\ UNCHANGED <<pod, token, deadLease, kv, meta, faulted, login>>
      /\ adm'[p] = IF adm[p].db = NumDb THEN [step |-> "mutated", db |-> NumDb]
                   ELSE [step |-> "authorize", db |-> adm[p].db + 1]
      /\ \A q \in Pods : q # p => adm'[q] = adm[q]
  BY <1>1 DEF GetDbCredentials, platformVars
<1>3. NewKeyInfo(tok) \in KeyInfo /\ Sound(NewKeyInfo(tok))
  BY <1>1, <1>2, TokenOfTyped DEF Sound, IssuedByAdmission, TokenOf
<1> HIDE DEF tok
<1>4. Monotone /\ SparesLive
  BY <1>2 DEF Monotone, Issued, SparesLive
<1>5. IssuerTypeOK' /\ PlatformTypeOK'
  <2>1. adm[p].db # NumDb => adm[p].db + 1 \in DbConfs
    BY <1>1, PlatformAssumption DEF DbConfs
  <2>2. NumDb \in DbConfs
    BY PlatformAssumption DEF DbConfs
  <2>3. adm' \in [Pods -> [step : AdmSteps, db : DbConfs]]
    BY <1>1, <2>1, <2>2 DEF GetDbCredentials, AdmSteps
  <2> QED BY <1>2, <1>3, <2>3 DEF PlatformTypeOK, IssuerTypeOK
<1>6. LiveAreAdmitted'
  BY <1>2 DEF LiveAreAdmitted
<1>7. IssuedByAdmission'
  <2>1. \A t \in Tokens : t.pod \in Pods /\ t.db \in 1..NumDb
    BY TokenNamed DEF DbConfs
  <2>2. adm[p].db \in 1..NumDb /\ NumDb \in Nat
    BY <1>1, PlatformAssumption DEF DbConfs
  <2>3. \A t \in Tokens : t.pod = p /\ Issued(t) => t.db <= adm[p].db
    BY <1>2 DEF IssuedByAdmission
  <2> QED BY <1>2, <2>1, <2>2, <2>3 DEF IssuedByAdmission, Issued, TokenOf
<1>8. StoresSound'
  BY <1>2, <1>3 DEF StoresSound, Sound, Issued
<1> QED BY <1>4, <1>5, <1>6, <1>7, <1>8 DEF IssuerInv, IssuerGoal

\* An admission ends: whatever became of its tokens, they stay issued.
LEMMA EndAdmissionStep ==
  ASSUME WInv, NEW p \in Pods, NEW s \in {"live", "gone"}, EndAdmission(p, s),
         adm[p].step # "none",
         token' \in [Tokens -> {"unissued", "valid", "revoked"}],
         Monotone, SparesLive, faulted' \subseteq Tokens,
         login' \in [Pods -> [DbConfs -> {"none", "valid", "revoked"}]],
         pending' \subseteq pending, UNCHANGED <<deadLease, kv, meta>>,
         \A t \in Tokens : Issued(t)' => Issued(t) \/ t.pod = p
  PROVE  IssuerGoal
<1> USE DEF WInv, TypeOK
<1>1. adm \in [Pods -> [step : AdmSteps, db : DbConfs]]
  BY DEF IssuerTypeOK
<1>2. /\ adm'[p].step = "over" /\ \A q \in Pods : q # p => adm'[q] = adm[q]
      /\ \A q \in Pods : q # p => pod'[q] = pod[q]
      /\ pod' \in [Pods -> {"absent", "admitting", "live", "gone"}]
      /\ adm' \in [Pods -> [step : AdmSteps, db : DbConfs]]
  BY <1>1 DEF EndAdmission, PlatformTypeOK, AdmSteps
<1>3. IssuerTypeOK' /\ PlatformTypeOK'
  BY <1>2 DEF PlatformTypeOK, IssuerTypeOK
<1>4. LiveAreAdmitted'
  BY <1>2 DEF LiveAreAdmitted
<1>5. IssuedByAdmission'
  <2>1. \A q \in Pods : adm[q].db \in DbConfs
    BY <1>1
  <2> QED BY <1>2, <2>1, TokenNamed, TokenOfTyped DEF IssuedByAdmission, Monotone
<1>6. StoresSound'
  BY StoresFrame
<1> QED BY <1>3, <1>4, <1>5, <1>6 DEF IssuerInv, IssuerGoal

\* Ending an admission brings no pod back.
LEMMA EndedStayGone ==
  ASSUME PlatformTypeOK, NEW p \in Pods, NEW s, EndAdmission(p, s)
  PROVE  \A q \in Pods : pod[q] = "gone" => pod'[q] = "gone"
BY DEF PlatformTypeOK, EndAdmission

\* The cleanup of a failed admission revokes tokens of a pod that never lived.
LEMMA CleanupStep ==
  ASSUME WInv, NEW p \in Pods, adm[p].step \in {"authorize", "orphan", "creds", "mutated"},
         EndAdmission(p, "gone"), UNCHANGED <<deadLease, kv, meta>>,
         NEW tokens, NEW logins, Cleanup(p, tokens, logins),
         logins \in [Pods -> [DbConfs -> {"none", "valid", "revoked"}]],
         \/ tokens = token
         \/ /\ UseProjectedSA /\ adm[p].step = "authorize"
            /\ tokens = [token EXCEPT ![TokenOf(p, adm[p].db)] = "valid"]
  PROVE  IssuerGoal
<1> USE DEF WInv, TypeOK
<1>1. adm[p].db \in DbConfs /\ pod[p] # "live"
  BY DEF IssuerTypeOK, LiveAreAdmitted
<1>2. PICK failed \in SUBSET LiveConns(p) :
        LET revoked == LiveConns(p) \ failed
        IN /\ faulted' = faulted \cup {TokenOf(p, d) : d \in failed}
           /\ IF UseProjectedSA
                THEN /\ token' = [t \in Tokens |->
                           IF t.pod = p /\ t.db \in revoked THEN "revoked" ELSE tokens[t]]
                     /\ UNCHANGED <<login, pending>>
                ELSE /\ login' = [logins EXCEPT ![p] = [d \in DbConfs |->
                           IF d \in revoked THEN "revoked" ELSE @[d]]]
                     /\ pending' = {ki \in pending :
                           ki.token.pod # p \/ ki.token.db \notin revoked}
                     /\ UNCHANGED token
  BY DEF Cleanup
<1>3. LiveConns(p) \subseteq DbConfs
  BY DEF LiveConns
<1>4. faulted' \subseteq Tokens
  BY <1>2, <1>3, TokenOfTyped DEF PlatformTypeOK
<1>5. /\ login' \in [Pods -> [DbConfs -> {"none", "valid", "revoked"}]]
      /\ pending' \subseteq pending
  <2> DEFINE row == [d \in DbConfs |->
                       IF d \in LiveConns(p) \ failed THEN "revoked" ELSE logins[p][d]]
  <2>1. row \in [DbConfs -> {"none", "valid", "revoked"}]
    OBVIOUS
  <2>2. UNCHANGED login \/ login' = [logins EXCEPT ![p] = row]
    BY <1>2
  <2> HIDE DEF row
  <2> QED BY <1>2, <2>1, <2>2 DEF IssuerTypeOK
<1>6. /\ tokens \in [Tokens -> {"unissued", "valid", "revoked"}]
      /\ \A t \in Tokens : t.pod # p => tokens[t] = token[t]
      /\ \A t \in Tokens : tokens[t] = token[t] \/ ~Issued(t)
  <2>1. TokenOf(p, adm[p].db) \in Tokens /\ TokenOf(p, adm[p].db).pod = p
        /\ TokenOf(p, adm[p].db).db = adm[p].db
    BY <1>1, TokenOfTyped DEF TokenOf
  <2>2. CASE tokens = token
    BY <2>2 DEF PlatformTypeOK
  <2>3. CASE tokens = [token EXCEPT ![TokenOf(p, adm[p].db)] = "valid"] /\ adm[p].step = "authorize"
    <3>1. ~Issued(TokenOf(p, adm[p].db))
      BY <1>1, <2>1, <2>3 DEF IssuedByAdmission, DbConfs
    <3> QED BY <2>1, <2>3, <3>1 DEF PlatformTypeOK
  <2> QED BY <2>2, <2>3
<1>7. /\ token' \in [Tokens -> {"unissued", "valid", "revoked"}]
      /\ \A t \in Tokens : t.pod # p => token'[t] = token[t]
      /\ \A t \in Tokens : token'[t] = token[t] \/ token'[t] = "revoked" \/ ~Issued(t)
  BY <1>2, <1>6 DEF PlatformTypeOK
<1>8. Monotone
  BY <1>7, EndedStayGone DEF Monotone, Issued
<1>9. SparesLive
  BY <1>1, <1>7 DEF SparesLive
<1>10. \A t \in Tokens : Issued(t)' => Issued(t) \/ t.pod = p
  BY <1>7 DEF Issued
<1> QED BY <1>4, <1>5, <1>7, <1>8, <1>9, <1>10, EndAdmissionStep

\* An admission fails, before or after the login of its last connector.
LEMMA FailAdmissionStep ==
  ASSUME WInv, NEW p \in Pods, FailAdmission(p)
  PROVE  IssuerGoal
<1>1. /\ adm[p].step \in {"authorize", "orphan", "creds", "mutated"}
      /\ EndAdmission(p, "gone") /\ UNCHANGED <<deadLease, kv, meta>>
  BY DEF FailAdmission
<1>2. /\ login \in [Pods -> [DbConfs -> {"none", "valid", "revoked"}]]
      /\ LoginsAfterLogin(p) \in [Pods -> [DbConfs -> {"none", "valid", "revoked"}]]
  BY DEF WInv, TypeOK, IssuerTypeOK, LoginsAfterLogin
<1>3. CASE Cleanup(p, token, login)
  BY <1>1, <1>2, <1>3, CleanupStep
<1>4. CASE adm[p].step = "authorize" /\ Cleanup(p, TokensAfterLogin(p), LoginsAfterLogin(p))
  <2>1. \/ TokensAfterLogin(p) = token
        \/ /\ UseProjectedSA
           /\ TokensAfterLogin(p) = [token EXCEPT ![TokenOf(p, adm[p].db)] = "valid"]
    BY DEF TokensAfterLogin
  <2> QED BY <1>1, <1>2, <1>4, <2>1, CleanupStep
<1> QED BY <1>3, <1>4 DEF FailAdmission

\* The patch is returned, and the pod lives or is refused by a later step.
LEMMA RespondStep ==
  ASSUME WInv, NEW p \in Pods, Respond(p)
  PROVE  IssuerGoal
<1>1. PICK s \in {"live", "gone"} : EndAdmission(p, s)
  BY DEF Respond
<1>2. /\ adm[p].step = "mutated"
      /\ UNCHANGED <<token, deadLease, kv, meta, faulted, login, pending>>
  BY DEF Respond
<1>3. PlatformTypeOK /\ IssuerTypeOK
  BY DEF WInv, TypeOK
<1>4. Monotone /\ SparesLive
  BY <1>1, <1>2, <1>3, EndedStayGone DEF Monotone, SparesLive, Issued
<1> QED BY <1>1, <1>2, <1>3, <1>4, EndAdmissionStep DEF PlatformTypeOK, IssuerTypeOK, Issued

\* The kube-apiserver gives up on the webhook, which carries on.
LEMMA AdmissionTimesOutStep ==
  ASSUME WInv, NEW p \in Pods, AdmissionTimesOut(p)
  PROVE  IssuerGoal
<1> USE DEF WInv, TypeOK
<1>1. /\ pod[p] = "admitting" /\ pod' = [pod EXCEPT ![p] = "gone"]
      /\ UNCHANGED <<token, deadLease, kv, meta, faulted, adm, login, pending>>
  BY DEF AdmissionTimesOut
<1>2. Monotone /\ SparesLive
  BY <1>1 DEF Monotone, SparesLive, Issued, PlatformTypeOK
<1>3. IssuerTypeOK' /\ PlatformTypeOK'
  BY <1>1 DEF PlatformTypeOK, IssuerTypeOK
<1>4. LiveAreAdmitted' /\ IssuedByAdmission'
  BY <1>1 DEF LiveAreAdmitted, IssuedByAdmission, Issued, PlatformTypeOK
<1>5. StoresSound'
  BY <1>1, <1>2, StoresFrame
<1> QED BY <1>2, <1>3, <1>4, <1>5 DEF IssuerInv, IssuerGoal

\* A KV write that lands, or fails, writes what its KeyInfo says.
LEMMA StoreStep ==
  ASSUME WInv, NEW ki \in pending, StoreLands(ki) \/ StoreIsLost(ki)
  PROVE  IssuerGoal
<1> USE DEF WInv, TypeOK
<1>1. /\ UNCHANGED <<pod, token, deadLease, adm, login>>
      /\ pending' = pending \ {ki} /\ faulted' \subseteq faulted \cup {ki.token}
      /\ StoreData(ki) \/ UNCHANGED <<kv, meta>>
  BY DEF StoreLands, StoreIsLost, StoreDataFails
<1>2. ki \in KeyInfo /\ ki.key \in Keys /\ ki.token \in Tokens
  BY DEF IssuerTypeOK, KeyInfo
<1>3. kv' \cup pending' \subseteq kv \cup pending /\ meta' \subseteq meta \cup {ki.key}
  BY <1>1 DEF StoreData
<1>4. Monotone /\ SparesLive
  BY <1>1 DEF Monotone, SparesLive, Issued
<1>5. IssuerTypeOK' /\ PlatformTypeOK'
  BY <1>1, <1>2, <1>3 DEF PlatformTypeOK, IssuerTypeOK
<1>6. LiveAreAdmitted' /\ IssuedByAdmission'
  BY <1>1 DEF LiveAreAdmitted, IssuedByAdmission, Issued
<1>7. StoresSound'
  BY <1>3, <1>4, StoresFrame
<1> QED BY <1>4, <1>5, <1>6, <1>7 DEF IssuerInv, IssuerGoal

\* A restart cuts the admissions short and drops the writes under way.
LEMMA RestartInjectorStep ==
  ASSUME WInv, RestartInjector
  PROVE  IssuerGoal
<1> USE DEF WInv, TypeOK
<1> DEFINE cut == {p \in Pods : adm[p].step \notin {"none", "over"}}
<1>1. /\ adm' = [p \in Pods |-> IF p \in cut THEN [adm[p] EXCEPT !.step = "over"] ELSE adm[p]]
      /\ pod' = [p \in Pods |-> IF p \in cut THEN "gone" ELSE pod[p]]
      /\ pending' = {} /\ UNCHANGED <<token, deadLease, kv, meta, login>>
      /\ faulted' = faulted \cup {ki.token : ki \in pending}
                        \cup UNION {{TokenOf(p, d) : d \in LiveConns(p)} : p \in cut}
  BY DEF RestartInjector
<1>2. faulted' \subseteq Tokens
  <2>1. \A p \in Pods : LiveConns(p) \subseteq DbConfs
    BY DEF LiveConns
  <2>2. \A ki \in pending : ki.token \in Tokens
    BY DEF IssuerTypeOK, KeyInfo
  <2> QED BY <1>1, <2>1, <2>2, TokenOfTyped DEF PlatformTypeOK
<1>3. \A p \in Pods : \/ adm'[p].step = "over"
                      \/ adm'[p] = adm[p] /\ pod'[p] = pod[p] /\ adm[p].step \in {"none", "over"}
  BY <1>1 DEF IssuerTypeOK
<1>4. IssuerTypeOK' /\ PlatformTypeOK'
  BY <1>1, <1>2 DEF PlatformTypeOK, IssuerTypeOK, AdmSteps
<1>5. Monotone /\ SparesLive
  BY <1>1 DEF Monotone, SparesLive, Issued
<1>6. LiveAreAdmitted' /\ IssuedByAdmission'
  BY <1>1, <1>3, TokenNamed DEF LiveAreAdmitted, IssuedByAdmission, Issued, TokenOf
<1>7. StoresSound'
  BY <1>1, <1>5, StoresFrame
<1> QED BY <1>4, <1>5, <1>6, <1>7 DEF IssuerInv, IssuerGoal

\* Every step of the webhook, whatever the renewers and revokers hold.
LEMMA IssuerActs ==
  ASSUME WInv, IssuerNext
  PROVE  IssuerGoal
BY ReviewPodStep, AuthorizeStep, CreateOrphanTokenStep, GetDbCredentialsStep, FailAdmissionStep,
   RespondStep, AdmissionTimesOutStep, StoreStep, RestartInjectorStep DEF IssuerNext

-----------------------------------------------------------------------------
(* The whole system *)

\* The invariant holds before anything has happened.
LEMMA InitWInv == Init => WInv
<1> SUFFICES ASSUME Init PROVE WInv
  OBVIOUS
<1> USE DEF Init, PlatformInit, IssuerInit, RenewerInit, RevokerInit
<1>1. TypeOK
  <2>1. PlatformTypeOK
    BY DEF PlatformTypeOK
  <2>2. IssuerTypeOK
    BY PlatformAssumption DEF IssuerTypeOK, AdmSteps, DbConfs
  <2>3. RenewerTypeOK
    BY DEF RenewerTypeOK, Syncs, NoSync
  <2>4. RevokerTypeOK
    BY DEF RevokerTypeOK, Nets, NoNet, Watches, NewWatch
  <2> QED BY <2>1, <2>2, <2>3, <2>4 DEF TypeOK
<1>2. LiveAreAdmitted /\ IssuedByAdmission /\ StoresSound
  BY DEF LiveAreAdmitted, IssuedByAdmission, StoresSound, Issued
<1>3. SyncsSound /\ NetCopiesSound
  BY DEF SyncsSound, NoSync, NetCopiesSound, NoNet
<1>4. WatchesSound
  <2> SUFFICES ASSUME NEW r \in Revokers
      PROVE /\ watch[r].events = {} /\ watch[r].uuids = {}
            /\ watch[r].found = {} /\ watch[r].purging = {}
    BY DEF WatchesSound
  <2>1. PICK on \in BOOLEAN : watch[r] = NewWatch(on)
    OBVIOUS
  <2> QED BY <2>1 DEF NewWatch
<1> QED BY <1>1, <1>2, <1>3, <1>4 DEF WInv

\* Steps of the webhook disturb no copy: they take nothing back.
LEMMA IssuerStep ==
  ASSUME WInv, IssuerNext, UNCHANGED <<renewerVars, revokerVars>>
  PROVE  WInv'
<1>1. IssuerGoal
  BY IssuerActs
<1>2. SyncsSound' /\ NetCopiesSound' /\ WatchesSound'
  BY <1>1, CopiesFrame DEF WInv, TypeOK, IssuerGoal
<1>3. RenewerTypeOK' /\ RevokerTypeOK'
  BY DEF WInv, TypeOK, RenewerTypeOK, RevokerTypeOK, renewerVars, revokerVars
<1> QED BY <1>1, <1>2, <1>3 DEF WInv, TypeOK, IssuerGoal, IssuerInv

\* The webhook's conjuncts hold on when others revoke what was issued.
LEMMA OthersStep ==
  ASSUME WInv, Monotone, UNCHANGED issuerVars,
         \A p \in Pods : pod'[p] = "live" => pod[p] = "live",
         \A t \in Tokens : Issued(t)' => Issued(t),
         \A e \in kv' : e \in KeyInfo /\ Sound(e)
  PROVE  IssuerInv'
<1> USE DEF WInv, issuerVars
<1>1. LiveAreAdmitted'
  BY DEF LiveAreAdmitted
<1>2. IssuedByAdmission'
  <2>1. \A p \in Pods : TokenOf(p, adm[p].db) \in Tokens
    BY TokenOfTyped DEF TypeOK, IssuerTypeOK
  <2> QED BY <2>1, TokenNamed DEF IssuedByAdmission, Monotone
<1>3. StoresSound'
  <2>1. \A ki \in pending : ki \in KeyInfo /\ Sound(ki)
    BY DEF TypeOK, IssuerTypeOK, StoresSound
  <2> QED BY <2>1, KeyInfoFrame DEF StoresSound
<1> QED BY <1>1, <1>2, <1>3 DEF IssuerInv

\* Steps of a renewer.
LEMMA RenewerStep ==
  ASSUME WInv, RenewerNext, UNCHANGED <<issuerVars, revokerVars>>
  PROVE  WInv'
<1>1. RenewerEffect /\ RenewerTypeOK' /\ SyncsSound'
  BY CopiesInOrder, RenewerActs
<1>2. Monotone
  BY <1>1, RenewerMonotone
<1>3. IssuerInv'
  BY <1>1, <1>2, OthersStep DEF RenewerEffect, Issued
<1>4. TypeOK'
  BY <1>1 DEF RenewerEffect, WInv, TypeOK, PlatformTypeOK, IssuerTypeOK, RevokerTypeOK,
     issuerVars, revokerVars
<1>5. NetCopiesSound' /\ WatchesSound'
  BY <1>2, CopiesInOrder, NetsFrame, WatchesFrame DEF RevokersInOrder, RevokerTypeOK, revokerVars
<1> QED BY <1>1, <1>3, <1>4, <1>5 DEF WInv, IssuerInv

\* Steps of a revoker.
LEMMA RevokerStep ==
  ASSUME WInv, RevokerNext, UNCHANGED <<issuerVars, renewerVars>>
  PROVE  WInv'
<1>1. RevokerEffect /\ RevokersInOrder'
  BY CopiesInOrder, RevokerActs
<1>2. Monotone
  BY <1>1, RevokerMonotone
<1>3. \A e \in kv' : e \in KeyInfo /\ Sound(e)
  BY <1>1 DEF RevokerEffect, WInv, TypeOK, PlatformTypeOK, StoresSound
<1>4. IssuerInv'
  BY <1>1, <1>2, <1>3, OthersStep DEF RevokerEffect, Issued
<1>5. TypeOK'
  BY <1>1 DEF RevokerEffect, RevokersInOrder, WInv, TypeOK, PlatformTypeOK, IssuerTypeOK,
     RenewerTypeOK, issuerVars, renewerVars
<1>6. SyncsSound'
  BY <1>2, CopiesInOrder, SyncsFrame
<1> QED BY <1>1, <1>4, <1>5, <1>6 DEF WInv, IssuerInv, RevokersInOrder

\* A pod that goes, and is reported to the watches.
LEMMA DeletePodStep ==
  ASSUME WInv, NEW p \in Pods, DeletePod(p)
  PROVE  WInv'
<1> USE DEF WInv, TypeOK
<1>1. /\ pod[p] = "live" /\ pod' = [pod EXCEPT ![p] = "gone"] /\ ReportDeletion(p)
      /\ UNCHANGED <<token, deadLease, kv, meta, faulted, issuerVars, renewerVars, running, net>>
  BY DEF DeletePod
<1>2. Monotone
  BY <1>1 DEF Monotone, Issued, PlatformTypeOK
<1>3. /\ watch' \in [Revokers -> Watches]
      /\ \A r \in Revokers :
           /\ watch'[r].uuids = watch[r].uuids
           /\ watch'[r].found = watch[r].found /\ watch'[r].purging = watch[r].purging
           /\ \A q \in watch'[r].events : q \in watch[r].events \/ pod'[q] = "gone"
  <2>1. RevokerTypeOK /\ ReportDeletion(p)
    BY <1>1
  <2>2. pod'[p] = "gone"
    BY <1>1 DEF PlatformTypeOK
  <2> QED BY <2>1, <2>2, ReportReaches
<1>4. IssuerInv'
  BY <1>1, <1>2, OthersStep DEF Issued, PlatformTypeOK, StoresSound
<1>5. TypeOK'
  BY <1>1, <1>3 DEF PlatformTypeOK, IssuerTypeOK, RenewerTypeOK, RevokerTypeOK, issuerVars,
     renewerVars
<1>6. SyncsSound' /\ NetCopiesSound' /\ WatchesSound'
  BY <1>1, <1>2, <1>3, SyncsFrame, NetsFrame, WatchesFrame
<1> QED BY <1>4, <1>5, <1>6 DEF IssuerInv

\* A lease that dies.
LEMMA LeaseDiesStep ==
  ASSUME WInv, NEW t \in Tokens, LeaseDies(t), UNCHANGED <<issuerVars, renewerVars, revokerVars>>
  PROVE  WInv'
<1> USE DEF WInv, TypeOK
<1>1. /\ UNCHANGED <<pod, token, kv, meta, faulted>> /\ deadLease' = deadLease \cup {t}
  BY DEF LeaseDies
<1>2. Monotone
  BY <1>1 DEF Monotone, Issued
<1>3. IssuerInv'
  BY <1>1, <1>2, OthersStep DEF Issued, PlatformTypeOK, StoresSound
<1>4. TypeOK'
  BY <1>1 DEF PlatformTypeOK, IssuerTypeOK, RenewerTypeOK, RevokerTypeOK, issuerVars,
     renewerVars, revokerVars
<1>5. SyncsSound' /\ NetCopiesSound' /\ WatchesSound'
  BY <1>2, CopiesFrame
<1> QED BY <1>3, <1>4, <1>5 DEF IssuerInv

\* A step that changes nothing.
LEMMA StutterStep ==
  ASSUME WInv, UNCHANGED vars
  PROVE  WInv'
<1> USE DEF WInv, TypeOK, vars, platformVars
<1>1. Monotone
  BY DEF Monotone, Issued
<1>2. IssuerInv'
  BY <1>1, OthersStep DEF Issued, PlatformTypeOK, StoresSound
<1>3. TypeOK'
  BY DEF PlatformTypeOK, IssuerTypeOK, RenewerTypeOK, RevokerTypeOK, issuerVars, renewerVars,
     revokerVars
<1>4. SyncsSound' /\ NetCopiesSound' /\ WatchesSound'
  BY <1>1, CopiesFrame
<1> QED BY <1>2, <1>3, <1>4 DEF IssuerInv

\* The invariant holds whatever the pods, the webhook, the renewers and the
\* revokers do, in any order.
LEMMA NextWInv == WInv /\ [Next]_vars => WInv'
<1> SUFFICES ASSUME WInv, [Next]_vars PROVE WInv'
  OBVIOUS
<1>1. ASSUME NEW p \in Pods, DeletePod(p) PROVE WInv'
  BY <1>1, DeletePodStep
<1>2. ASSUME NEW t \in Tokens, LeaseDies(t), UNCHANGED <<issuerVars, renewerVars, revokerVars>>
      PROVE  WInv'
  BY <1>2, LeaseDiesStep
<1>3. CASE IssuerNext /\ UNCHANGED <<renewerVars, revokerVars>>
  BY <1>3, IssuerStep
<1>4. CASE RenewerNext /\ UNCHANGED <<issuerVars, revokerVars>>
  BY <1>4, RenewerStep
<1>5. CASE RevokerNext /\ UNCHANGED <<issuerVars, renewerVars>>
  BY <1>5, RevokerStep
<1>6. CASE UNCHANGED vars
  BY <1>6, StutterStep
<1> QED BY <1>1, <1>2, <1>3, <1>4, <1>5, <1>6 DEF Next

\* The inductive invariant holds in every state of the system, in both modes, for
\* any number of pods, dbConfigs and replicas.
THEOREM SpecWInv == Spec => []WInv
BY InitWInv, NextWInv, PTL DEF Spec

\* Every variable of the pods, Vault, the webhook, the renewers and the revokers
\* keeps its type.
THEOREM WebhookSpecTypeOK == Spec => []TypeOK
<1>1. WInv => TypeOK
  BY DEF WInv
<1> QED BY <1>1, SpecWInv, PTL

\* What a step that makes a valid token of a live pod a revoked one must be, when
\* the token's lease can be renewed.
LEMMA OnlySweepsStep ==
  ASSUME WInv, Next, NEW t \in Tokens, pod[t.pod] = "live", token[t] = "valid",
         token'[t] = "revoked", t \notin deadLease
  PROVE  Swept(t)
<1>1. t.pod \in Pods
  BY TokenNamed
<1>2. ASSUME NEW p \in Pods, DeletePod(p) PROVE FALSE
  BY <1>2 DEF DeletePod
<1>3. ASSUME NEW u \in Tokens, LeaseDies(u) PROVE FALSE
  BY <1>3 DEF LeaseDies
<1>4. CASE IssuerNext
  BY <1>4, IssuerActs DEF IssuerGoal, SparesLive, Issued
<1>5. CASE RenewerNext
  BY <1>5, CopiesInOrder, RenewerActs DEF RenewerEffect
<1>6. CASE RevokerNext
  BY <1>6, CopiesInOrder, RevokerActs DEF RevokerEffect
<1> QED BY <1>2, <1>3, <1>4, <1>5, <1>6 DEF Next

\* Whatever the number of pods and of replicas, and whichever calls fail: what the
\* cleanup of an admission, the renewer's purge and the watch revoke is never a
\* renewable credential of a live pod. The race of webhook and safety net is the
\* one exception.
THEOREM SpecOnlySweepsTakeLive == Spec => OnlySweepsTakeLive
<1>1. WInv /\ [Next]_vars =>
        [\A t \in Tokens :
           pod[t.pod] = "live" /\ token[t] = "valid" /\ token'[t] = "revoked" /\ t \notin deadLease =>
             \E r \in Revokers :
               /\ net[r].phase = "sweeping"
               /\ \E ki \in net[r].infos \ net'[r].infos : ki.token = t]_vars
  BY OnlySweepsStep DEF Swept
<1> QED BY <1>1, SpecWInv, PTL DEF Spec, OnlySweepsTakeLive

-----------------------------------------------------------------------------
(* How far an admission has come *)

\* No pod is forgotten by the kube-apiserver.
KnownStay == \A p \in Pods : pod[p] # "absent" => pod'[p] # "absent"

\* The admission of p goes on as AdmissionInv asks.
MovesOn(p) ==
  /\ pod'[p] # "absent" /\ (UseProjectedSA => adm'[p].step # "orphan")
  /\ \A d \in Obtained(p)' : token'[TokenOf(p, d)] # "unissued"

\* It is enough to look at the admissions that a step moves.
LEMMA AdmissionsMove ==
  ASSUME WInv, AdmissionInv, Monotone, KnownStay,
         \A p \in Pods : adm'[p] = adm[p] \/ MovesOn(p)
  PROVE  AdmissionInv'
<1>1. ReviewedKnown'
  BY DEF AdmissionInv, ReviewedKnown, KnownStay, MovesOn
<1>2. OrphansInLegacyMode'
  BY DEF AdmissionInv, OrphansInLegacyMode, MovesOn
<1>3. ASSUME NEW p \in Pods, NEW d \in Obtained(p)'
      PROVE  token'[TokenOf(p, d)] # "unissued"
  <2>1. CASE adm'[p] = adm[p]
    <3>1. d \in DbConfs /\ d \in Obtained(p)
      BY <2>1 DEF Obtained
    <3>2. Issued(TokenOf(p, d)) /\ TokenOf(p, d) \in Tokens
      BY <3>1, TokenOfTyped DEF AdmissionInv, ObtainedIssued
    <3> QED BY <3>2 DEF Monotone, Issued
  <2>2. CASE MovesOn(p)
    BY <2>2 DEF MovesOn
  <2> QED BY <2>1, <2>2
<1>4. ObtainedIssued'
  BY <1>3 DEF ObtainedIssued, Issued
<1> QED BY <1>1, <1>2, <1>4 DEF AdmissionInv

\* Where an admission stands, by its step.
LEMMA AdmissionKnown ==
  ASSUME WInv, AdmissionInv, NEW p \in Pods, adm[p].step \notin {"none", "over"}
  PROVE  /\ pod[p] \in {"admitting", "gone"}
         /\ adm[p] \in [step : AdmSteps, db : DbConfs]
         /\ TokenOf(p, adm[p].db) \in Tokens
<1>1. adm[p] \in [step : AdmSteps, db : DbConfs]
      /\ pod[p] \in {"absent", "admitting", "live", "gone"}
  BY DEF WInv, TypeOK, PlatformTypeOK, IssuerTypeOK
<1>2. pod[p] # "live" /\ pod[p] # "absent"
  BY DEF WInv, LiveAreAdmitted, AdmissionInv, ReviewedKnown
<1> QED BY <1>1, <1>2, TokenOfTyped

\* A token that is obtained is a new one.
LEMMA ObtainsNew ==
  ASSUME WInv, NEW p \in Pods, adm[p].step \in {"authorize", "orphan"}
  PROVE  token[TokenOf(p, adm[p].db)] = "unissued"
<1>1. adm[p].db \in DbConfs
  BY DEF WInv, TypeOK, IssuerTypeOK
<1> DEFINE tok == TokenOf(p, adm[p].db)
<1>2. tok \in Tokens /\ tok.pod = p /\ tok.db = adm[p].db
  BY <1>1, TokenOfTyped DEF TokenOf
<1> HIDE DEF tok
<1>3. ~Issued(tok)
  BY <1>1, <1>2 DEF WInv, IssuedByAdmission, DbConfs
<1> QED BY <1>3 DEF Issued, tok

\* A step of the webhook takes its admission to the next dbConfiguration only
\* with a token for this one.
LEMMA IssuerMoves ==
  ASSUME WInv, AdmissionInv, IssuerNext
  PROVE  KnownStay /\ \A p \in Pods : adm'[p] = adm[p] \/ MovesOn(p)
<1>1. /\ adm \in [Pods -> [step : AdmSteps, db : DbConfs]]
      /\ pod \in [Pods -> {"absent", "admitting", "live", "gone"}]
  BY DEF WInv, TypeOK, PlatformTypeOK, IssuerTypeOK
<1>2. IssuerGoal
  BY IssuerActs
<1>3. \A p \in Pods : \A d \in Obtained(p) : token'[TokenOf(p, d)] # "unissued"
  BY <1>2, TokenOfTyped DEF IssuerGoal, Monotone, Issued, AdmissionInv, ObtainedIssued, Obtained
<1>4. ASSUME NEW p \in Pods, ReviewPod(p)
      PROVE  KnownStay /\ \A q \in Pods : adm'[q] = adm[q] \/ MovesOn(q)
  <2>1. /\ adm[p].step = "none" /\ adm' = [adm EXCEPT ![p].step = "authorize"]
        /\ pod' = [pod EXCEPT ![p] = "admitting"]
    BY <1>4 DEF ReviewPod
  <2>2. /\ adm'[p].step = "authorize" /\ adm'[p].db = adm[p].db
        /\ \A q \in Pods : q # p => adm'[q] = adm[q]
    BY <1>1, <2>1
  <2>3. \A d \in Obtained(p)' : d \in Obtained(p)
    BY <2>1, <2>2 DEF Obtained
  <2>4. pod'[p] = "admitting" /\ KnownStay
    BY <1>1, <2>1 DEF KnownStay
  <2> QED BY <1>3, <2>2, <2>3, <2>4 DEF MovesOn
<1>5. ASSUME NEW p \in Pods, Authorize(p) \/ CreateOrphanToken(p)
      PROVE  KnownStay /\ \A q \in Pods : adm'[q] = adm[q] \/ MovesOn(q)
  <2>1. /\ UNCHANGED pod /\ adm[p].step \in {"authorize", "orphan"}
        /\ \/ /\ adm' = [adm EXCEPT ![p].step = "creds"]
              /\ token' = [token EXCEPT ![TokenOf(p, adm[p].db)] = "valid"]
           \/ ~UseProjectedSA /\ adm' = [adm EXCEPT ![p].step = "orphan"]
    BY <1>5 DEF Authorize, CreateOrphanToken, TokensAfterLogin
  <2>2. /\ adm'[p].step = "creds" \/ (adm'[p].step = "orphan" /\ ~UseProjectedSA)
        /\ adm'[p].db = adm[p].db
        /\ \A q \in Pods : q # p => adm'[q] = adm[q]
    BY <1>1, <2>1
  <2>3. pod[p] # "absent" /\ TokenOf(p, adm[p].db) \in Tokens /\ adm[p].db \in Nat
    BY <1>1, <2>1, AdmissionKnown DEF DbConfs
  <2>4. adm'[p].step = "creds" => token'[TokenOf(p, adm[p].db)] = "valid"
    BY <1>1, <2>1, <2>3 DEF WInv, TypeOK, PlatformTypeOK
  <2>5. ASSUME NEW d \in Obtained(p)'
        PROVE  d \in Obtained(p) \/ (d = adm[p].db /\ adm'[p].step = "creds")
    BY <2>1, <2>2, <2>3 DEF Obtained, DbConfs
  <2>6. MovesOn(p)
    BY <1>3, <2>1, <2>2, <2>3, <2>4, <2>5 DEF MovesOn
  <2> QED BY <2>1, <2>2, <2>6 DEF KnownStay
<1>6. ASSUME NEW p \in Pods, GetDbCredentials(p)
      PROVE  KnownStay /\ \A q \in Pods : adm'[q] = adm[q] \/ MovesOn(q)
  <2>1. /\ adm[p].step = "creds" /\ UNCHANGED pod
        /\ adm'[p] = IF adm[p].db = NumDb THEN [step |-> "mutated", db |-> NumDb]
                     ELSE [step |-> "authorize", db |-> adm[p].db + 1]
        /\ \A q \in Pods : q # p => adm'[q] = adm[q]
    BY <1>1, <1>6 DEF GetDbCredentials, platformVars
  <2>2. pod[p] # "absent"
    BY <2>1, AdmissionKnown
  <2>3. \A d \in Obtained(p)' : d \in Obtained(p)
    BY <1>1, <2>1 DEF Obtained, DbConfs
  <2>4. adm'[p].step # "orphan"
    BY <2>1
  <2> QED BY <1>3, <2>1, <2>2, <2>3, <2>4 DEF KnownStay, MovesOn
<1>7. ASSUME NEW p \in Pods, FailAdmission(p) \/ Respond(p)
      PROVE  KnownStay /\ \A q \in Pods : adm'[q] = adm[q] \/ MovesOn(q)
  <2>1. PICK s \in {"live", "gone"} : EndAdmission(p, s) /\ adm[p].step \notin {"none", "over"}
    BY <1>7 DEF FailAdmission, Respond
  <2>2. /\ adm'[p].step = "over" /\ \A q \in Pods : q # p => adm'[q] = adm[q]
        /\ KnownStay
    BY <1>1, <2>1 DEF EndAdmission, KnownStay
  <2>3. Obtained(p)' = {}
    BY <2>2 DEF Obtained
  <2>4. pod'[p] # "absent"
    BY <2>1, <2>2, AdmissionKnown DEF KnownStay
  <2> QED BY <2>2, <2>3, <2>4 DEF MovesOn
<1>8. ASSUME NEW p \in Pods, AdmissionTimesOut(p)
      PROVE  KnownStay /\ \A q \in Pods : adm'[q] = adm[q] \/ MovesOn(q)
  BY <1>1, <1>8 DEF AdmissionTimesOut, KnownStay
<1>9. ASSUME NEW ki \in pending, StoreLands(ki) \/ StoreIsLost(ki)
      PROVE  KnownStay /\ \A q \in Pods : adm'[q] = adm[q] \/ MovesOn(q)
  BY <1>9 DEF StoreLands, StoreIsLost, KnownStay
<1>10. ASSUME RestartInjector
       PROVE  KnownStay /\ \A q \in Pods : adm'[q] = adm[q] \/ MovesOn(q)
  <2>1. \A q \in Pods :
          \/ adm'[q] = adm[q] /\ pod'[q] = pod[q]
          \/ adm'[q].step = "over" /\ pod'[q] = "gone"
    BY <1>1, <1>10 DEF RestartInjector
  <2>2. \A q \in Pods : adm'[q].step = "over" => Obtained(q)' = {}
    BY DEF Obtained
  <2> QED BY <2>1, <2>2 DEF KnownStay, MovesOn
<1> QED BY <1>4, <1>5, <1>6, <1>7, <1>8, <1>9, <1>10 DEF IssuerNext

\* Nobody else moves an admission, or forgets a pod.
LEMMA OthersMoveNone ==
  ASSUME WInv, [Next]_vars, ~IssuerNext
  PROVE  KnownStay /\ UNCHANGED adm
<1>1. pod \in [Pods -> {"absent", "admitting", "live", "gone"}]
  BY DEF WInv, TypeOK, PlatformTypeOK
<1>2. ASSUME NEW p \in Pods, DeletePod(p) PROVE KnownStay /\ UNCHANGED adm
  BY <1>1, <1>2 DEF DeletePod, KnownStay, issuerVars
<1>3. CASE /\ UNCHANGED issuerVars
           /\ RenewerNext \/ RevokerNext \/ (\E t \in Tokens : LeaseDies(t)) \/ UNCHANGED vars
  <2>1. UNCHANGED pod
    BY <1>3, CopiesInOrder, RenewerActs, RevokerActs
    DEF RenewerEffect, RevokerEffect, LeaseDies, vars, platformVars
  <2> QED BY <1>3, <2>1 DEF KnownStay, issuerVars
<1> QED BY <1>2, <1>3 DEF Next, vars

\* The loop over the dbConfigurations skips none, whatever the others do.
LEMMA NextAdmissionInv == WInv /\ AdmissionInv /\ [Next]_vars => AdmissionInv'
<1> SUFFICES ASSUME WInv, AdmissionInv, [Next]_vars PROVE AdmissionInv'
  OBVIOUS
<1>1. Monotone
  <2>1. CASE IssuerNext
    BY <2>1, IssuerActs DEF IssuerGoal
  <2>2. CASE RenewerNext
    BY <2>2, CopiesInOrder, RenewerActs, RenewerMonotone
  <2>3. CASE RevokerNext
    BY <2>3, CopiesInOrder, RevokerActs, RevokerMonotone
  <2>4. CASE (\E p \in Pods : DeletePod(p)) \/ (\E t \in Tokens : LeaseDies(t)) \/ UNCHANGED vars
    BY <2>4 DEF DeletePod, LeaseDies, vars, platformVars, Monotone, Issued, WInv, TypeOK,
       PlatformTypeOK
  <2> QED BY <2>1, <2>2, <2>3, <2>4 DEF Next
<1>2. CASE IssuerNext
  BY <1>1, <1>2, IssuerMoves, AdmissionsMove
<1>3. CASE ~IssuerNext
  BY <1>1, <1>3, OthersMoveNone, AdmissionsMove
<1> QED BY <1>2, <1>3

\* Before the first admission there is nothing to ask for.
LEMMA InitAdmissionInv == Init => AdmissionInv
<1> SUFFICES ASSUME Init PROVE AdmissionInv
  OBVIOUS
<1>1. \A p \in Pods : adm[p].step = "none" /\ adm[p].db = 1
  BY DEF Init, IssuerInit
<1>2. ASSUME NEW p \in Pods, NEW d \in Obtained(p) PROVE FALSE
  <2>1. d \in 1..NumDb /\ adm[p].step = "none" /\ adm[p].db = 1
    BY <1>1 DEF Obtained, DbConfs
  <2>2. d < 1
    BY <2>1 DEF Obtained
  <2> QED BY <2>1, <2>2, PlatformAssumption
<1> QED BY <1>1, <1>2 DEF AdmissionInv, ReviewedKnown, OrphansInLegacyMode, ObtainedIssued

\* A pod under review stays known, and its loop leaves no dbConfiguration without a
\* token behind: for any number of pods and dbConfigurations, in both modes,
\* whichever calls fail and whoever else is at work.
THEOREM SpecAdmissionInv == Spec => []AdmissionInv
BY InitAdmissionInv, NextAdmissionInv, SpecWInv, PTL DEF Spec

-----------------------------------------------------------------------------
(* Steps that have one shape for the contract *)

\* What is doomed, before and after a step.
LEMMA DoomedMembers ==
  /\ \A t : t \in Doomed <=>
       \E r \in Revokers : net[r].phase = "sweeping" /\ \E ki \in net[r].infos : ki.token = t
  /\ \A t : t \in Doomed' <=>
       \E r \in Revokers : net'[r].phase = "sweeping" /\ \E ki \in net'[r].infos : ki.token = t
BY DEF Doomed

\* Only the safety nets decide.
LEMMA DoomedFrame ==
  ASSUME UNCHANGED net
  PROVE  Doomed' = Doomed
BY DEF Doomed

\* A step that refuses pods under review, or none, and touches no token.
LEMMA Refuses ==
  ASSUME UNCHANGED <<token, deadLease, net>>,
         pod' \in [Pods -> {"absent", "admitting", "live", "gone"}],
         \A p \in Pods : pod'[p] = pod[p] \/ (pod[p] = "admitting" /\ pod'[p] = "gone")
  PROVE  Contract!Refuse
<1> DEFINE ps == {p \in Pods : pod'[p] # pod[p]}
<1>1. ps \in SUBSET {p \in Pods : pod[p] = "admitting"}
  OBVIOUS
<1>2. pod' = [p \in Pods |-> IF p \in ps THEN "gone" ELSE pod[p]]
  OBVIOUS
<1> HIDE DEF ps
<1> QED BY <1>1, <1>2, DoomedFrame DEF Contract!Refuse

\* A step that revokes what may be taken, and decides nothing, is a Revoke.
LEMMA TakesTakable ==
  ASSUME UNCHANGED <<pod, deadLease>>, Doomed' \subseteq Doomed,
         token' \in [Tokens -> {"unissued", "valid", "revoked"}],
         \A t \in Tokens :
           \/ token'[t] = token[t]
           \/ token'[t] = "revoked" /\ token[t] = "valid" /\ Contract!Takable(t)
  PROVE  Contract!Revoke
<1> DEFINE cs == {t \in Tokens : token'[t] # token[t]}
<1>1. cs \in SUBSET {t \in Tokens : token[t] = "valid" /\ Contract!Takable(t)}
  OBVIOUS
<1>2. token' = [t \in Tokens |-> IF t \in cs THEN "revoked" ELSE token[t]]
  OBVIOUS
<1> HIDE DEF cs
<1> QED BY <1>1, <1>2 DEF Contract!Revoke

-----------------------------------------------------------------------------
(* Steps of the webhook *)

\* In projected mode the connectors that the cleanup covers are those whose
\* dbConfigurations have a token.
LEMMA CleanedAreObtained ==
  ASSUME WInv, AdmissionInv, NEW p \in Pods, UseProjectedSA,
         NEW t \in Tokens, t.pod = p, t.db \in LiveConns(p)
  PROVE  Issued(t)
<1>1. t = TokenOf(p, t.db) /\ t.db \in DbConfs
  BY TokenNamed
<1>2. adm[p].step # "orphan"
  BY DEF AdmissionInv, OrphansInLegacyMode
<1>3. t.db \in Obtained(p)
  BY <1>1, <1>2 DEF LiveConns, Obtained
<1> QED BY <1>1, <1>3 DEF AdmissionInv, ObtainedIssued

\* The cleanup of a failed admission takes back what was issued; a login whose
\* error came late leaves one token more.
LEMMA CleanupFails ==
  ASSUME WInv, AdmissionInv, NEW p \in Pods,
         adm[p].step \in {"authorize", "orphan", "creds", "mutated"},
         EndAdmission(p, "gone"), UNCHANGED <<deadLease, net>>,
         NEW tokens, NEW logins, Cleanup(p, tokens, logins),
         \/ tokens = token
         \/ /\ UseProjectedSA /\ adm[p].step = "authorize"
            /\ tokens = [token EXCEPT ![TokenOf(p, adm[p].db)] = "valid"]
  PROVE  Contract!Fail(p)
<1> DEFINE tok == TokenOf(p, adm[p].db)
<1>1. /\ pod[p] \in {"admitting", "gone"} /\ adm[p].db \in DbConfs
      /\ tok \in Tokens /\ tok.pod = p /\ tok.db = adm[p].db
      /\ token \in [Tokens -> {"unissued", "valid", "revoked"}]
      /\ pod \in [Pods -> {"absent", "admitting", "live", "gone"}]
  BY AdmissionKnown DEF TokenOf, WInv, TypeOK, PlatformTypeOK
<1>2. pod' = [pod EXCEPT ![p] = "gone"]
  BY <1>1 DEF EndAdmission
<1>3. PICK revoked \in SUBSET LiveConns(p) :
        IF UseProjectedSA
          THEN token' = [t \in Tokens |->
                 IF t.pod = p /\ t.db \in revoked THEN "revoked" ELSE tokens[t]]
          ELSE UNCHANGED token
  BY DEF Cleanup
<1> DEFINE back == IF UseProjectedSA THEN {t \in Tokens : t.pod = p /\ t.db \in revoked} ELSE {}
           late == IF tokens = token THEN {} ELSE {tok}
<1>4. back \in SUBSET {t \in Contract!Own(p) : token[t] # "unissued"}
  BY CleanedAreObtained DEF Contract!Own, Issued
<1>5. late \in SUBSET {t \in Contract!Own(p) : token[t] = "unissued"}
      /\ \A t, u \in late : t = u
  BY <1>1, ObtainsNew DEF Contract!Own
<1>6. token' = [t \in Tokens |-> IF t \in back THEN "revoked"
                                 ELSE IF t \in late THEN "valid" ELSE token[t]]
  <2>1. CASE tokens = token
    BY <1>1, <1>3, <2>1
  <2>2. CASE tokens # token
    <3>1. UseProjectedSA /\ \A t \in Tokens : tokens[t] = IF t \in late THEN "valid" ELSE token[t]
      BY <1>1, <2>2
    <3>2. \A t \in Tokens : t \in back <=> t.pod = p /\ t.db \in revoked
      BY <3>1
    <3> HIDE DEF back, late
    <3> QED BY <1>3, <3>1, <3>2
  <2> QED BY <2>1, <2>2
<1> HIDE DEF back, late
<1> QED BY <1>1, <1>2, <1>4, <1>5, <1>6, DoomedFrame DEF Contract!Fail

\* An admission that fails, wherever it stands, is a Fail.
LEMMA FailAdmissionFails ==
  ASSUME WInv, AdmissionInv, NEW p \in Pods, FailAdmission(p), UNCHANGED net
  PROVE  Contract!Fail(p)
<1>1. /\ adm[p].step \in {"authorize", "orphan", "creds", "mutated"}
      /\ EndAdmission(p, "gone") /\ UNCHANGED deadLease
  BY DEF FailAdmission
<1>2. CASE Cleanup(p, token, login)
  BY <1>1, <1>2, CleanupFails
<1>3. CASE adm[p].step = "authorize" /\ Cleanup(p, TokensAfterLogin(p), LoginsAfterLogin(p))
  <2>1. \/ TokensAfterLogin(p) = token
        \/ /\ UseProjectedSA
           /\ TokensAfterLogin(p) = [token EXCEPT ![TokenOf(p, adm[p].db)] = "valid"]
    BY DEF TokensAfterLogin
  <2> QED BY <1>1, <1>3, <2>1, CleanupFails
<1> QED BY <1>2, <1>3 DEF FailAdmission

\* A token is obtained for a pod that is reviewed, or was.
LEMMA ObtainIssues ==
  ASSUME WInv, AdmissionInv, NEW p \in Pods, adm[p].step \in {"authorize", "orphan"},
         token' = [token EXCEPT ![TokenOf(p, adm[p].db)] = "valid"],
         UNCHANGED <<pod, deadLease, net>>
  PROVE  \E t \in Tokens : Contract!Issue(t)
<1> DEFINE tok == TokenOf(p, adm[p].db)
<1>1. tok \in Tokens /\ tok.pod = p /\ pod[p] \in {"admitting", "gone"}
  BY AdmissionKnown DEF TokenOf
<1>2. token[tok] = "unissued"
  BY ObtainsNew
<1>3. token' = [token EXCEPT ![tok] = "valid"]
  OBVIOUS
<1> HIDE DEF tok
<1> QED BY <1>1, <1>2, <1>3, DoomedFrame DEF Contract!Issue

\* The pod that the patch is for lacks nothing.
LEMMA RespondAdmits ==
  ASSUME WInv, AdmissionInv, NEW p \in Pods, Respond(p), UNCHANGED net
  PROVE  Contract!Admit(p) \/ Contract!Refuse
<1>1. PICK s \in {"live", "gone"} : pod' = [pod EXCEPT ![p] = IF @ = "admitting" THEN s ELSE @]
  BY DEF Respond, EndAdmission
<1>2. /\ adm[p].step = "mutated" /\ UNCHANGED <<token, deadLease>>
      /\ pod \in [Pods -> {"absent", "admitting", "live", "gone"}]
  BY DEF Respond, WInv, TypeOK, PlatformTypeOK
<1>3. CASE s = "live" /\ pod[p] = "admitting"
  <2>1. \A t \in Contract!Own(p) : token[t] # "unissued"
    <3> TAKE t \in Contract!Own(p)
    <3>1. t \in Tokens /\ t = TokenOf(p, t.db) /\ t.db \in Obtained(p)
      BY <1>2, TokenNamed DEF Contract!Own, Obtained
    <3> QED BY <3>1 DEF AdmissionInv, ObtainedIssued, Issued
  <2> QED BY <1>1, <1>2, <1>3, <2>1, DoomedFrame DEF Contract!Admit
<1>4. CASE s = "gone" \/ pod[p] # "admitting"
  BY <1>1, <1>2, <1>4, Refuses
<1> QED BY <1>3, <1>4

\* Every step of the webhook is a step of the contract.
LEMMA IssuerRefines ==
  ASSUME WInv, AdmissionInv, IssuerNext, UNCHANGED net
  PROVE  Contract!Next \/ UNCHANGED Contract!admissionVars
<1>1. pod \in [Pods -> {"absent", "admitting", "live", "gone"}]
  BY DEF WInv, TypeOK, PlatformTypeOK
<1>2. ASSUME UNCHANGED <<pod, token, deadLease>>
      PROVE  UNCHANGED Contract!admissionVars
  BY <1>2, DoomedFrame DEF Contract!admissionVars
<1>3. ASSUME NEW p \in Pods, ReviewPod(p)
      PROVE  Contract!Review(p)
  BY <1>3, DoomedFrame DEF ReviewPod, Contract!Review
<1>4. ASSUME NEW p \in Pods, Authorize(p)
      PROVE  Contract!Next \/ UNCHANGED Contract!admissionVars
  <2>1. CASE UseProjectedSA
    BY <1>4, <2>1, ObtainIssues DEF Authorize, TokensAfterLogin, Contract!Next
  <2>2. CASE ~UseProjectedSA
    BY <1>2, <1>4, <2>2 DEF Authorize, TokensAfterLogin
  <2> QED BY <2>1, <2>2
<1>5. ASSUME NEW p \in Pods, CreateOrphanToken(p)
      PROVE  Contract!Next
  BY <1>5, ObtainIssues DEF CreateOrphanToken, Contract!Next
<1>6. ASSUME NEW p \in Pods, GetDbCredentials(p)
      PROVE  UNCHANGED Contract!admissionVars
  BY <1>2, <1>6 DEF GetDbCredentials, platformVars
<1>7. ASSUME NEW p \in Pods, AdmissionTimesOut(p)
      PROVE  Contract!Refuse
  BY <1>1, <1>7, Refuses DEF AdmissionTimesOut
<1>8. ASSUME NEW ki \in pending, StoreLands(ki) \/ StoreIsLost(ki)
      PROVE  UNCHANGED Contract!admissionVars
  BY <1>2, <1>8 DEF StoreLands, StoreIsLost
<1>9. ASSUME RestartInjector
      PROVE  Contract!Refuse
  <2>1. \A p \in Pods :
          \/ pod'[p] = pod[p]
          \/ pod'[p] = "gone" /\ adm[p].step \notin {"none", "over"}
    BY <1>9 DEF RestartInjector
  <2>2. \A p \in Pods : pod'[p] = pod[p] \/ (pod[p] = "admitting" /\ pod'[p] = "gone")
    BY <2>1, AdmissionKnown
  <2>3. /\ pod' \in [Pods -> {"absent", "admitting", "live", "gone"}]
        /\ UNCHANGED <<token, deadLease>>
    BY <1>1, <1>9 DEF RestartInjector
  <2> QED BY <2>2, <2>3, Refuses
<1> QED
  BY <1>3, <1>4, <1>5, <1>6, <1>7, <1>8, <1>9, FailAdmissionFails, RespondAdmits
  DEF IssuerNext, Contract!Next

-----------------------------------------------------------------------------
(* Steps of the others *)

\* A renewer decides nothing: it revokes what has lost its lease.
LEMMA RenewerRefines ==
  ASSUME WInv, RenewerNext, UNCHANGED net
  PROVE  Contract!Revoke
<1>1. RenewerEffect /\ token \in [Tokens -> {"unissued", "valid", "revoked"}]
  BY CopiesInOrder, RenewerActs DEF PlatformTypeOK
<1>2. \A t \in Tokens :
        \/ token'[t] = token[t]
        \/ token'[t] = "revoked" /\ token[t] = "valid" /\ Contract!Takable(t)
  BY <1>1 DEF RenewerEffect, Issued, Contract!Takable
<1> QED BY <1>1, <1>2, DoomedFrame, TakesTakable DEF RenewerEffect

\* The comparison of the listings dooms no credential of a pod that lives.
LEMMA ListingDecides ==
  ASSUME WInv, NEW r \in Revokers, NetListPods(r)
  PROVE  Contract!Decide
<1>1. net \in [Revokers -> Nets] /\ UNCHANGED <<pod, token, deadLease>>
  BY DEF NetListPods, WInv, TypeOK, RevokerTypeOK, platformVars
<1>2. /\ net'[r].infos = {ki \in net[r].infos : ki.key \notin ListedUuids}
      /\ \A q \in Revokers : q # r => net'[q] = net[q]
  BY <1>1 DEF NetListPods, Nets
<1>3. ASSUME NEW ki \in net'[r].infos
      PROVE  ki.token \in Tokens /\ token[ki.token] # "unissued" /\ pod[ki.token.pod] # "live"
  <2>1. ki \in KeyInfo /\ Sound(ki) /\ ki.key \notin ListedUuids
    BY <1>1, <1>2 DEF Nets, WInv, NetCopiesSound
  <2>2. ki.token \in Tokens /\ ki.token.pod \in Pods /\ ki.token.db \in DbConfs
    BY <2>1, TokenNamed DEF KeyInfo
  <2>3. ki.key \in PodUuids(ki.token.pod)
    BY <2>1, <2>2 DEF Sound, KeyOf, PodUuids, AnnotatedUuids
  <2>4. ki.token.pod \notin LivePods
    BY <2>1, <2>3 DEF ListedUuids
  <2> QED BY <2>1, <2>2, <2>4 DEF Sound, Issued, LivePods
<1> DEFINE cs == {t \in Tokens : token[t] # "unissued" /\ pod[t.pod] # "live"}
<1>4. ASSUME NEW t \in Doomed' PROVE t \in Doomed \cup cs
  <2>1. PICK q \in Revokers :
          net'[q].phase = "sweeping" /\ \E ki \in net'[q].infos : ki.token = t
    BY DoomedMembers
  <2>2. CASE q = r
    BY <1>3, <2>1, <2>2
  <2>3. CASE q # r
    BY <1>2, <2>1, <2>3, DoomedMembers
  <2> QED BY <2>2, <2>3
<1>5. Doomed' \in SUBSET (Doomed \cup cs)
  BY <1>4
<1> QED BY <1>1, <1>5 DEF Contract!Decide

\* Between two listings, what the safety nets have to do gets less.
LEMMA DoomedShrinks ==
  ASSUME WInv, NEW r \in Revokers, SafetyNetNext(r) \/ WatchNext(r) \/ RestartRevoker(r),
         ~NetListPods(r)
  PROVE  Doomed' \subseteq Doomed
<1>1. net \in [Revokers -> Nets]
  BY DEF WInv, TypeOK, RevokerTypeOK
<1>2. \A q \in Revokers : net'[q].phase = "sweeping" =>
        net[q].phase = "sweeping" /\ net'[q].infos \subseteq net[q].infos
  <2>1. CASE UNCHANGED net
    BY <2>1
  <2>2. CASE net' = [net EXCEPT ![r] = NoNet]
    BY <1>1, <2>2 DEF NoNet
  <2>3. CASE NetTick(r)
    BY <1>1, <2>3 DEF NetTick, Nets
  <2>4. CASE \E k \in net[r].toRead : NetRead(r, k) \/ NetReadFails(r, k)
    BY <1>1, <2>4 DEF NetRead, NetReadFails, Nets
  <2>5. CASE \E ki \in net[r].infos : NetRevoke(r, ki) \/ NetRevokeFails(r, ki)
    BY <1>1, <2>5 DEF NetRevoke, NetRevokeFails, Nets
  <2>6. CASE \E ki \in net[r].purging : NetDelete(r, ki) \/ NetDeleteFails(r, ki)
    BY <1>1, <2>6 DEF NetDelete, NetDeleteFails, Nets
  <2> QED
    BY <2>1, <2>2, <2>3, <2>4, <2>5, <2>6 DEF SafetyNetNext, NetGivesUp, NetEnds, WatchNext,
       WatchDeleted, WatchGet, WatchGetFails, WatchRevoke, WatchRevokeFails, WatchDelete,
       WatchReopens, WatchCancelsJob, RestartRevoker
<1> QED BY <1>2, DoomedMembers

\* A revoker decides when it compares its listings, and then carries that out.
LEMMA RevokerRefines ==
  ASSUME WInv, RevokerNext
  PROVE  Contract!Decide \/ Contract!Revoke
<1> PICK r \in Revokers : SafetyNetNext(r) \/ WatchNext(r) \/ RestartRevoker(r)
  BY DEF RevokerNext
<1>1. CASE NetListPods(r)
  BY <1>1, ListingDecides
<1>2. CASE ~NetListPods(r)
  <2>1. RevokerEffect /\ token \in [Tokens -> {"unissued", "valid", "revoked"}]
    BY CopiesInOrder, RevokerActs DEF PlatformTypeOK
  <2>2. \A t \in Tokens : Swept(t) => t \in Doomed
    BY DoomedMembers DEF Swept
  <2>3. \A t \in Tokens :
          \/ token'[t] = token[t]
          \/ token'[t] = "revoked" /\ token[t] = "valid" /\ Contract!Takable(t)
    BY <2>1, <2>2 DEF RevokerEffect, Issued, Contract!Takable
  <2> QED BY <1>2, <2>1, <2>3, DoomedShrinks, TakesTakable DEF RevokerEffect
<1> QED BY <1>1, <1>2

-----------------------------------------------------------------------------

\* The processes start where the contract does.
LEMMA InitRefines == Init => Contract!Init
<1> SUFFICES ASSUME Init PROVE Contract!Init
  OBVIOUS
<1>1. \A r \in Revokers : net[r].phase = "idle"
  BY DEF Init, RevokerInit, NoNet
<1>2. Doomed = {}
  BY <1>1, DoomedMembers
<1> QED BY <1>2 DEF Init, PlatformInit, Contract!Init

\* Every step of the system is one of the contract, or none.
LEMMA NextRefines ==
  WInv /\ AdmissionInv /\ [Next]_vars => [Contract!Next]_(Contract!admissionVars)
<1> SUFFICES ASSUME WInv, AdmissionInv, [Next]_vars
    PROVE Contract!Next \/ UNCHANGED Contract!admissionVars
  OBVIOUS
<1>1. ASSUME NEW p \in Pods, DeletePod(p) PROVE Contract!Next
  BY <1>1, DoomedFrame DEF DeletePod, Contract!Delete, Contract!Next
<1>2. ASSUME NEW t \in Tokens, LeaseDies(t), UNCHANGED revokerVars PROVE Contract!Next
  BY <1>2, DoomedFrame DEF LeaseDies, revokerVars, Contract!LeaseDies, Contract!Next
<1>3. CASE IssuerNext /\ UNCHANGED <<renewerVars, revokerVars>>
  BY <1>3, IssuerRefines DEF revokerVars
<1>4. CASE RenewerNext /\ UNCHANGED <<issuerVars, revokerVars>>
  BY <1>4, RenewerRefines DEF revokerVars, Contract!Next
<1>5. CASE RevokerNext
  BY <1>5, RevokerRefines DEF Contract!Next
<1>6. CASE UNCHANGED vars
  BY <1>6, DoomedFrame DEF vars, platformVars, revokerVars, Contract!admissionVars
<1> QED BY <1>1, <1>2, <1>3, <1>4, <1>5, <1>6 DEF Next

\* The webhook, any number of renewers and any number of revokers together keep
\* AdmissionContract: a pod only comes to life with a credential for each of its
\* dbConfigurations, and loses one only by a dead lease, or by a sweep whose safety
\* net listed the pods while this one did not live.
THEOREM SpecKeepsAdmissionContract == Spec => KeepsAdmissionContract
BY InitRefines, NextRefines, SpecWInv, SpecAdmissionInv, PTL
DEF Spec, KeepsAdmissionContract, Contract!Spec

=============================================================================
