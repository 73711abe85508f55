------------------------ MODULE NriLifecycle_proofs ------------------------
(***************************************************************************)
(* IInv is an inductive invariant of NriLifecycle, and with it: every      *)
(* variable keeps its type, the credentials of a live pod stay valid, and  *)
(* the revokers spare the pods that live.                                  *)
(***************************************************************************)
EXTENDS NriInvariants, KeyInfoCopies_proofs

-----------------------------------------------------------------------------
(* The copies of KV entries *)

\* The invariant has what the lemmas about renewers and revokers ask for.
LEMMA CopiesInOrder ==
  ASSUME IInv
  PROVE  PlatformTypeOK /\ RenewerTypeOK /\ EntriesSound /\ SyncsSound /\ RevokersInOrder
BY DEF IInv, TypeOK, StoresSound, EntriesSound, NetsSound, NetCopiesSound, RevokersInOrder

\* The copies of the revokers stay sound when others move.
LEMMA RevokersFrame ==
  ASSUME IInv, Monotone, UNCHANGED revokerVars
  PROVE  NetsSound' /\ WatchesSound'
<1> USE DEF revokerVars
<1>1. RevokersInOrder
  BY CopiesInOrder
<1>2. WatchesSound'
  BY <1>1, WatchesFrame DEF RevokersInOrder, RevokerTypeOK
<1>3. \A r \in Revokers : \A ki \in net[r].infos \cup net[r].purging : ki \in KeyInfo
  BY <1>1 DEF RevokersInOrder, RevokerTypeOK, Nets
<1>4. NetsSound'
  BY <1>3, KeyInfoFrame DEF IInv, NetsSound
<1> QED BY <1>2, <1>4

-----------------------------------------------------------------------------
(* Steps of the NRI plugin *)

\* The loop over the dbConfigs stays within them.
LEMMA NextDb ==
  ASSUME NEW d \in DbConfs, d # NumDb
  PROVE  d + 1 \in DbConfs
BY PlatformAssumption DEF DbConfs

\* The tokens of a fetch in flight are tokens.
LEMMA FetchTokensTyped ==
  ASSUME TypeOK, FetchesCounted, NEW p \in Pods
  PROVE  FetchTokens(p) \subseteq {t \in Tokens : t.pod = p /\ t.try = tries[p]}
<1> USE DEF TypeOK, IssuerTypeOK, FetchesCounted, FetchTokens, LiveConns, TokenOf, Tokens, DbConfs, Fetches, FetchSteps
<1>1. CASE fetch[p].step = "none"
  BY <1>1
<1>2. CASE fetch[p].step # "none"
  <2>1. tries[p] \in 1..MaxTries
    BY <1>2, PlatformAssumption
  <2> QED BY <2>1
<1> QED BY <1>1, <1>2

\* Every step of the NRI plugin keeps its own variables, the bookkeeping and
\* the tokens typed.
LEMMA IssuerType ==
  ASSUME TypeOK, FetchesCounted, IssuerNext, UNCHANGED <<renewerVars, revokerVars>>
  PROVE  TypeOK'
<1> USE PlatformAssumption DEF TypeOK, PlatformTypeOK, IssuerTypeOK, RenewerTypeOK,
        RevokerTypeOK, platformVars, issuerVars, renewerVars, revokerVars, Fetches, FetchSteps, NoFetch
<1>a. 1 \in DbConfs /\ NumDb \in DbConfs
  BY DEF DbConfs
<1>b. \A p \in Pods : FetchTokens(p) \subseteq Tokens
  BY FetchTokensTyped
<1>1. ASSUME NEW p \in Pods, StartFetch(p) PROVE TypeOK'
  BY <1>1, <1>a DEF StartFetch
<1>2. ASSUME NEW p \in Pods, ObtainToken(p) PROVE TypeOK'
  BY <1>2 DEF ObtainToken
<1>3. ASSUME NEW p \in Pods, GetDbCredentials(p) PROVE TypeOK'
  <2>1. tries[p] \in 1..MaxTries
    BY <1>3 DEF GetDbCredentials, FetchesCounted
  <2>2. TokenOf(p, fetch[p].db) \in Tokens
    BY <2>1 DEF TokenOf, Tokens
  <2>3. NewKeyInfo(TokenOf(p, fetch[p].db)) \in KeyInfo
    BY <2>2 DEF NewKeyInfo, KeyOf, KeyInfo, Keys, Tokens, DbConfs
  <2>4. fetch' \in [Pods -> Fetches]
    <3>1. fetch[p].db # NumDb => fetch[p].db + 1 \in DbConfs
      BY NextDb
    <3> QED BY <1>3, <1>a, <3>1 DEF GetDbCredentials
  <2> QED
    BY <1>3, <2>3, <2>4 DEF GetDbCredentials
<1>4. ASSUME NEW p \in Pods, FailFetch(p) PROVE TypeOK'
  BY <1>4, <1>a, <1>b DEF FailFetch
<1>5. ASSUME NEW p \in Pods, FinishFetch(p) PROVE TypeOK'
  BY <1>5, <1>a, <1>b DEF FinishFetch
<1>6. ASSUME NEW p \in Pods, CreateContainer(p) PROVE TypeOK'
  BY <1>6 DEF CreateContainer
<1>7. ASSUME NEW p \in Pods, RemovePodSandbox(p) PROVE TypeOK'
  BY <1>7 DEF RemovePodSandbox
<1>8. ASSUME NEW ki \in pending, StoreLands(ki) PROVE TypeOK'
  BY <1>8 DEF StoreLands, StoreData, KeyInfo
<1>9. ASSUME NEW ki \in pending, StoreIsLost(ki) PROVE TypeOK'
  BY <1>9 DEF StoreIsLost, StoreDataFails, StoreData, KeyInfo
<1>10. CASE RestartPlugin
  BY <1>10, <1>a, <1>b DEF RestartPlugin, KeyInfo
<1> QED
  BY <1>1, <1>2, <1>3, <1>4, <1>5, <1>6, <1>7, <1>8, <1>9, <1>10 DEF IssuerNext

\* A fetch that does not move has the same tokens.
LEMMA FetchFrame ==
  ASSUME NEW p \in Pods, fetch'[p] = fetch[p], tries'[p] = tries[p]
  PROVE  LiveConns(p)' = LiveConns(p) /\ FetchTokens(p)' = FetchTokens(p)
BY DEF LiveConns, FetchTokens, TokenOf

\* The conjuncts of IInv that only speak of the pods and of the plugin.
IssuerInv ==
  /\ NoAdmission /\ FetchesCounted /\ IssuedInOrder /\ HeldIssued
  /\ StoresSound /\ HeldCredentialsValid

\* A fetch that starts holds no token yet.
LEMMA StartFetchStep ==
  ASSUME IInv, NEW p \in Pods, StartFetch(p)
  PROVE  IssuerInv' /\ Monotone
<1> USE DEF IInv
<1>1. /\ UNCHANGED platformVars /\ UNCHANGED <<cache, using, pending>>
      /\ tries'[p] = tries[p] + 1 /\ tries[p] \in Nat
      /\ fetch'[p] = [step |-> "login", db |-> 1]
      /\ pod[p] = "live" /\ cache[p] = {} /\ fetch[p].step = "none"
      /\ \A q \in Pods : q # p => fetch'[q] = fetch[q] /\ tries'[q] = tries[q]
  BY DEF StartFetch, TypeOK, IssuerTypeOK
<1>2. LiveConns(p)' = {} /\ FetchTokens(p)' = {}
  BY <1>1 DEF LiveConns, FetchTokens, DbConfs
<1>3. \A q \in Pods : q # p =>
        LiveConns(q)' = LiveConns(q) /\ FetchTokens(q)' = FetchTokens(q)
  BY <1>1, FetchFrame
<1>4. Monotone /\ NoAdmission' /\ StoresSound'
  BY <1>1 DEF Monotone, NoAdmission, StoresSound, Sound, Issued, platformVars
<1>5. FetchesCounted'
  BY <1>1 DEF FetchesCounted, platformVars
<1>6. IssuedInOrder'
  <2> SUFFICES ASSUME NEW t \in Tokens, Issued(t)
      PROVE /\ pod[t.pod] # "absent"
            /\ \/ t.try < tries'[t.pod]
               \/ /\ t.try = tries'[t.pod]
                  /\ fetch'[t.pod].step = "none" \/ t.db \in LiveConns(t.pod)'
    BY <1>1 DEF IssuedInOrder, Issued, platformVars
  <2>1. t.pod \in Pods /\ t.try \in Nat
    BY DEF Tokens
  <2>2. CASE t.pod = p
    BY <1>1, <2>1, <2>2 DEF IssuedInOrder
  <2>3. CASE t.pod # p
    BY <1>1, <1>3, <2>1, <2>3 DEF IssuedInOrder
  <2> QED BY <2>2, <2>3
<1>7. HeldIssued'
  <2> SUFFICES ASSUME NEW q \in Pods
      PROVE /\ \A t \in FetchTokens(q)' : Issued(t)
            /\ \A t \in cache[q] \cup using[q] :
                 /\ t.pod = q /\ Issued(t)
                 /\ fetch'[q].step # "none" => t.try < tries'[q]
    BY <1>1 DEF HeldIssued, Issued, platformVars
  <2>1. CASE q = p
    <3>1. \A t \in using[p] : t.pod = p /\ Issued(t) /\ t \in Tokens /\ t.try \in Nat
      BY DEF HeldIssued, TypeOK, IssuerTypeOK, Tokens
    <3>2. \A t \in using[p] : t.try < tries[p] + 1
      BY <1>1, <3>1 DEF IssuedInOrder
    <3> QED BY <1>1, <1>2, <2>1, <3>1, <3>2
  <2>2. CASE q # p
    BY <1>1, <1>3, <2>2 DEF HeldIssued
  <2> QED BY <2>1, <2>2
<1>8. HeldCredentialsValid'
  BY <1>1, <1>2, <1>3 DEF HeldCredentialsValid, HeldTokens, platformVars
<1> QED BY <1>4, <1>5, <1>6, <1>7, <1>8 DEF IssuerInv

\* The token a login or an orphan-token creation returns is new: no other pod
\* holds it and no KV entry names it.
LEMMA ObtainTokenStep ==
  ASSUME IInv, NEW p \in Pods, ObtainToken(p)
  PROVE  IssuerInv' /\ Monotone
<1> USE DEF IInv
<1> DEFINE tok == TokenOf(p, fetch[p].db)
<1>1. /\ UNCHANGED <<pod, deadLease, kv, meta, faulted, tries, cache, using, pending>>
      /\ fetch[p].step = "login" /\ fetch[p].db \in DbConfs
      /\ fetch'[p] = [step |-> "creds", db |-> fetch[p].db]
      /\ \A q \in Pods : q # p => fetch'[q] = fetch[q]
  BY DEF ObtainToken, TypeOK, IssuerTypeOK, Fetches
<1>2. tries[p] \in 1..MaxTries /\ pod[p] # "absent"
  BY <1>1 DEF FetchesCounted, TypeOK, IssuerTypeOK
<1>3. tok \in Tokens /\ tok.pod = p /\ tok.try = tries[p] /\ tok.db = fetch[p].db
  BY <1>1, <1>2 DEF TokenOf, Tokens
<1>4. token'[tok] = "valid" /\ \A t \in Tokens : t # tok => token'[t] = token[t]
  BY <1>3 DEF ObtainToken, TypeOK, PlatformTypeOK
<1>5. \* The token is a new one: the fetch had not logged in for this dbConfig.
      ~Issued(tok)
  <2>1. tok.db \notin LiveConns(p)
    BY <1>1, <1>3 DEF LiveConns, DbConfs
  <2> QED BY <1>1, <1>2, <1>3, <2>1 DEF IssuedInOrder
<1>6. LiveConns(p)' = LiveConns(p) \cup {fetch[p].db}
  BY <1>1 DEF LiveConns, DbConfs
<1>7. FetchTokens(p)' = FetchTokens(p) \cup {tok}
  BY <1>1, <1>6 DEF FetchTokens, TokenOf
<1>8. \A q \in Pods : q # p =>
        LiveConns(q)' = LiveConns(q) /\ FetchTokens(q)' = FetchTokens(q)
  BY <1>1, FetchFrame
<1>9. Monotone
  BY <1>1, <1>4, <1>5 DEF Monotone, Issued
<1>10. NoAdmission' /\ FetchesCounted'
  BY <1>1, <1>2 DEF NoAdmission, FetchesCounted
<1>11. IssuedInOrder'
  <2> SUFFICES ASSUME NEW t \in Tokens, token'[t] # "unissued"
      PROVE /\ pod[t.pod] # "absent"
            /\ \/ t.try < tries[t.pod]
               \/ /\ t.try = tries[t.pod]
                  /\ fetch'[t.pod].step = "none" \/ t.db \in LiveConns(t.pod)'
    BY <1>1 DEF IssuedInOrder, Issued
  <2>1. CASE t = tok
    BY <1>2, <1>3, <1>6, <2>1
  <2>2. CASE t # tok /\ t.pod = p
    BY <1>1, <1>4, <1>6, <2>2 DEF IssuedInOrder, Issued
  <2>3. CASE t.pod # p
    <3>1. t.pod \in Pods
      BY DEF Tokens
    <3> QED BY <1>1, <1>3, <1>4, <1>8, <2>3, <3>1 DEF IssuedInOrder, Issued
  <2> QED BY <2>1, <2>2, <2>3
<1>12. HeldIssued'
  <2> SUFFICES ASSUME NEW q \in Pods
      PROVE /\ \A t \in FetchTokens(q)' : token'[t] # "unissued"
            /\ \A t \in cache[q] \cup using[q] :
                 /\ t.pod = q /\ token'[t] # "unissued"
                 /\ fetch'[q].step # "none" => t.try < tries[q]
    BY <1>1 DEF HeldIssued, Issued
  <2>1. \A t \in FetchTokens(q) \cup cache[q] \cup using[q] :
          t \in Tokens /\ Issued(t)
    BY FetchTokensTyped DEF HeldIssued, TypeOK, IssuerTypeOK
  <2>2. \A t \in FetchTokens(q) \cup cache[q] \cup using[q] : token'[t] # "unissued"
    BY <1>4, <2>1 DEF Issued
  <2>3. \A t \in FetchTokens(q)' : token'[t] # "unissued"
    BY <1>4, <1>7, <1>8, <2>2
  <2> QED BY <1>1, <2>2, <2>3 DEF HeldIssued
<1>13. StoresSound'
  BY <1>1, <1>9 DEF StoresSound, Sound, Monotone, Issued, TypeOK, PlatformTypeOK,
     IssuerTypeOK, KeyInfo
<1>14. HeldCredentialsValid'
  <2> SUFFICES ASSUME NEW q \in Pods, pod[q] = "live",
                      NEW t \in FetchTokens(q)' \cup cache[q] \cup using[q]
      PROVE t \in deadLease \/ token'[t] = "valid"
    BY <1>1 DEF HeldCredentialsValid, HeldTokens
  <2>1. CASE t = tok
    BY <1>4, <2>1
  <2>2. CASE t # tok
    <3>1. t \in FetchTokens(q) \cup cache[q] \cup using[q]
      BY <1>7, <1>8, <2>2
    <3>2. t \in Tokens
      BY <3>1, FetchTokensTyped DEF TypeOK, IssuerTypeOK
    <3> QED BY <1>4, <2>2, <3>1, <3>2 DEF HeldCredentialsValid, HeldTokens
  <2> QED BY <2>1, <2>2
<1> QED BY <1>9, <1>10, <1>11, <1>12, <1>13, <1>14 DEF IssuerInv

\* Credentials for a dbConfig send one KV write on its way, and either move to
\* the next dbConfig or stay in the store step.
LEMMA GetDbCredentialsStep ==
  ASSUME IInv, NEW p \in Pods, GetDbCredentials(p)
  PROVE  IssuerInv' /\ Monotone
<1> USE DEF IInv
<1> DEFINE tok == TokenOf(p, fetch[p].db)
<1>1. /\ UNCHANGED platformVars /\ UNCHANGED <<tries, cache, using>>
      /\ fetch[p].step = "creds" /\ fetch[p].db \in DbConfs
      /\ fetch'[p] = IF fetch[p].db = NumDb
                       THEN [step |-> "merged", db |-> NumDb]
                       ELSE [step |-> "login", db |-> fetch[p].db + 1]
      /\ pending' = pending \cup {NewKeyInfo(tok)}
      /\ \A q \in Pods : q # p => fetch'[q] = fetch[q]
  BY DEF GetDbCredentials, TypeOK, IssuerTypeOK, Fetches
<1>2. fetch'[p].step # "none" /\ fetch'[p].step \in {"login", "merged"}
  BY <1>1
<1>3. LiveConns(p)' = LiveConns(p)
  <2>1. \A d \in DbConfs : d <= fetch[p].db <=> (d < fetch[p].db + 1)
    BY <1>1 DEF DbConfs
  <2>2. \A d \in DbConfs : d <= NumDb
    BY PlatformAssumption DEF DbConfs
  <2>3. CASE fetch[p].db = NumDb
    BY <1>1, <2>2, <2>3 DEF LiveConns
  <2>4. CASE fetch[p].db # NumDb
    BY <1>1, <2>1, <2>4 DEF LiveConns
  <2> QED BY <2>3, <2>4
<1>4. \A q \in Pods :
        LiveConns(q)' = LiveConns(q) /\ FetchTokens(q)' = FetchTokens(q)
  <2>1. FetchTokens(p)' = FetchTokens(p)
    BY <1>1, <1>3 DEF FetchTokens, TokenOf
  <2> QED BY <1>1, <1>3, <2>1, FetchFrame
<1>5. tok \in FetchTokens(p) /\ tok.pod = p /\ tok.db = fetch[p].db
  BY <1>1 DEF FetchTokens, LiveConns, TokenOf, DbConfs
<1>6. Sound(NewKeyInfo(tok))
  BY <1>5 DEF Sound, NewKeyInfo, HeldIssued
<1>7. StoresSound'
  BY <1>1, <1>6 DEF StoresSound, Sound, Issued, platformVars
<1>8. Monotone /\ NoAdmission'
  BY <1>1 DEF Monotone, NoAdmission, Issued, platformVars
<1>9. FetchesCounted'
  BY <1>1 DEF FetchesCounted, platformVars
<1>10. IssuedInOrder'
  BY <1>1, <1>2, <1>4 DEF IssuedInOrder, Issued, Tokens, platformVars
<1>11. HeldIssued'
  BY <1>1, <1>4 DEF HeldIssued, Issued, platformVars
<1>12. HeldCredentialsValid'
  BY <1>1, <1>4 DEF HeldCredentialsValid, HeldTokens, platformVars
<1> QED BY <1>7, <1>8, <1>9, <1>10, <1>11, <1>12 DEF IssuerInv

\* The cleanup of a failed fetch revokes tokens of that fetch, which no
\* container was given.
LEMMA FailFetchStep ==
  ASSUME IInv, NEW p \in Pods, FailFetch(p)
  PROVE  IssuerInv' /\ Monotone
<1> USE DEF IInv
<1>1. /\ UNCHANGED <<pod, deadLease, kv, meta, tries, cache, using, pending>>
      /\ fetch[p].step # "none" /\ fetch'[p] = NoFetch
      /\ \A q \in Pods : q # p => fetch'[q] = fetch[q]
  BY DEF FailFetch, TypeOK, IssuerTypeOK
<1>2. \* Only tokens of the failed fetch are revoked.
      /\ \A t \in Tokens : t \notin FetchTokens(p) => token'[t] = token[t]
      /\ \A t \in Tokens : token'[t] = token[t] \/ token'[t] = "revoked"
  BY DEF FailFetch
<1>3. \A t \in FetchTokens(p) : t \in Tokens /\ t.pod = p /\ t.try = tries[p] /\ Issued(t)
  BY FetchTokensTyped DEF HeldIssued
<1>4. LiveConns(p)' = {} /\ FetchTokens(p)' = {}
  BY <1>1 DEF LiveConns, FetchTokens, NoFetch
<1>5. \A q \in Pods : q # p =>
        LiveConns(q)' = LiveConns(q) /\ FetchTokens(q)' = FetchTokens(q)
  BY <1>1, FetchFrame
<1>6. \A t \in Tokens : Issued(t) <=> token'[t] # "unissued"
  BY <1>2, <1>3 DEF Issued
<1>7. Monotone
  BY <1>1, <1>2, <1>6 DEF Monotone, Issued
<1>8. NoAdmission' /\ FetchesCounted'
  BY <1>1 DEF NoAdmission, FetchesCounted, NoFetch
<1>9. IssuedInOrder'
  <2> SUFFICES ASSUME NEW t \in Tokens, Issued(t)
      PROVE /\ pod[t.pod] # "absent"
            /\ \/ t.try < tries[t.pod]
               \/ /\ t.try = tries[t.pod]
                  /\ fetch'[t.pod].step = "none" \/ t.db \in LiveConns(t.pod)'
    BY <1>1, <1>6 DEF IssuedInOrder, Issued
  <2> QED BY <1>1, <1>5 DEF IssuedInOrder, NoFetch, Tokens
<1>10. HeldIssued'
  <2> SUFFICES ASSUME NEW q \in Pods
      PROVE /\ \A t \in FetchTokens(q)' : token'[t] # "unissued"
            /\ \A t \in cache[q] \cup using[q] :
                 /\ t.pod = q /\ token'[t] # "unissued"
                 /\ fetch'[q].step # "none" => t.try < tries[q]
    BY <1>1 DEF HeldIssued, Issued
  <2>1. \A t \in FetchTokens(q) \cup cache[q] \cup using[q] :
          t \in Tokens /\ Issued(t)
    BY FetchTokensTyped DEF HeldIssued, TypeOK, IssuerTypeOK
  <2> QED BY <1>1, <1>4, <1>5, <1>6, <2>1 DEF HeldIssued, NoFetch
<1>11. StoresSound'
  BY <1>1, <1>7 DEF StoresSound, Sound, Monotone, Issued, TypeOK, PlatformTypeOK,
     IssuerTypeOK, KeyInfo
<1>12. HeldCredentialsValid'
  <2> SUFFICES ASSUME NEW q \in Pods, pod[q] = "live",
                      NEW t \in FetchTokens(q)' \cup cache[q] \cup using[q]
      PROVE t \in deadLease \/ token'[t] = "valid"
    BY <1>1 DEF HeldCredentialsValid, HeldTokens
  <2>1. t \in FetchTokens(q) \cup cache[q] \cup using[q] /\ t \in Tokens
    BY <1>4, <1>5, FetchTokensTyped DEF TypeOK, IssuerTypeOK
  <2>2. \* A token of an earlier fetch is not one of the failed fetch.
        t \notin FetchTokens(p)
    <3>1. CASE q # p
      <4>1. t.pod = q
        BY <2>1, FetchTokensTyped DEF HeldIssued
      <4> QED BY <1>3, <3>1, <4>1
    <3>2. CASE q = p
      <4>1. t \in cache[p] \cup using[p]
        BY <1>4, <3>2
      <4>2. t.try < tries[p] /\ tries[p] \in Nat
        BY <1>1, <4>1 DEF HeldIssued, TypeOK, IssuerTypeOK
      <4> QED BY <1>3, <4>2
    <3> QED BY <3>1, <3>2
  <2> QED BY <1>2, <2>1, <2>2 DEF HeldCredentialsValid, HeldTokens
<1> QED BY <1>7, <1>8, <1>9, <1>10, <1>11, <1>12 DEF IssuerInv

\* The mapping a fetch leaves in the cache names the tokens it obtained.
LEMMA FinishFetchStep ==
  ASSUME IInv, NEW p \in Pods, FinishFetch(p)
  PROVE  IssuerInv' /\ Monotone
<1> USE DEF IInv
<1>1. /\ UNCHANGED platformVars /\ UNCHANGED <<tries, using, pending>>
      /\ fetch[p].step = "merged" /\ fetch'[p] = NoFetch
      /\ cache'[p] = FetchTokens(p)
      /\ \A q \in Pods : q # p => fetch'[q] = fetch[q] /\ cache'[q] = cache[q]
  BY DEF FinishFetch, TypeOK, IssuerTypeOK
<1>2. \A t \in FetchTokens(p) : t \in Tokens /\ t.pod = p /\ Issued(t)
  BY FetchTokensTyped DEF HeldIssued
<1>3. LiveConns(p)' = {} /\ FetchTokens(p)' = {}
  BY <1>1 DEF LiveConns, FetchTokens, NoFetch
<1>4. \A q \in Pods : q # p =>
        LiveConns(q)' = LiveConns(q) /\ FetchTokens(q)' = FetchTokens(q)
  BY <1>1, FetchFrame
<1>5. Monotone /\ NoAdmission' /\ StoresSound'
  BY <1>1 DEF Monotone, NoAdmission, StoresSound, Sound, Issued, platformVars
<1>6. FetchesCounted'
  BY <1>1 DEF FetchesCounted, NoFetch, platformVars
<1>7. IssuedInOrder'
  BY <1>1, <1>4 DEF IssuedInOrder, Issued, NoFetch, Tokens, platformVars
<1>8. HeldIssued'
  <2> SUFFICES ASSUME NEW q \in Pods
      PROVE /\ \A t \in FetchTokens(q)' : Issued(t)
            /\ \A t \in cache'[q] \cup using[q] :
                 /\ t.pod = q /\ Issued(t)
                 /\ fetch'[q].step # "none" => t.try < tries[q]
    BY <1>1 DEF HeldIssued, Issued, platformVars
  <2> QED BY <1>1, <1>2, <1>3, <1>4 DEF HeldIssued, NoFetch
<1>9. HeldCredentialsValid'
  BY <1>1, <1>3, <1>4 DEF HeldCredentialsValid, HeldTokens, platformVars
<1> QED BY <1>5, <1>6, <1>7, <1>8, <1>9 DEF IssuerInv

\* Neither a container nor a sandbox adds to what a pod holds.
LEMMA ContainerStep ==
  ASSUME IInv, NEW p \in Pods, CreateContainer(p) \/ RemovePodSandbox(p)
  PROVE  IssuerInv' /\ Monotone
<1> USE DEF IInv
<1>1. /\ UNCHANGED platformVars /\ UNCHANGED <<fetch, tries, pending>>
      /\ \A q \in Pods :
           /\ cache'[q] \cup using'[q] \subseteq cache[q] \cup using[q]
           /\ cache[q] = {} => cache'[q] = {}
  BY DEF CreateContainer, RemovePodSandbox, TypeOK, IssuerTypeOK
<1>2. \A q \in Pods :
        LiveConns(q)' = LiveConns(q) /\ FetchTokens(q)' = FetchTokens(q)
  BY <1>1, FetchFrame
<1>3. Monotone /\ NoAdmission' /\ StoresSound'
  BY <1>1 DEF Monotone, NoAdmission, StoresSound, Sound, Issued, platformVars
<1>4. FetchesCounted'
  BY <1>1 DEF FetchesCounted, platformVars
<1>5. IssuedInOrder'
  BY <1>1, <1>2 DEF IssuedInOrder, Issued, Tokens, platformVars
<1>6. HeldIssued'
  BY <1>1, <1>2 DEF HeldIssued, Issued, platformVars
<1>7. HeldCredentialsValid'
  BY <1>1, <1>2 DEF HeldCredentialsValid, HeldTokens, platformVars
<1> QED BY <1>3, <1>4, <1>5, <1>6, <1>7 DEF IssuerInv

\* A KV write that lands, or fails, writes what its KeyInfo says.
LEMMA StoreStep ==
  ASSUME IInv, NEW ki \in pending, StoreLands(ki) \/ StoreIsLost(ki)
  PROVE  IssuerInv' /\ Monotone
<1> USE DEF IInv
<1>1. /\ UNCHANGED <<pod, token, deadLease, fetch, tries, cache, using>>
      /\ kv' \cup pending' \subseteq kv \cup pending
  BY DEF StoreLands, StoreIsLost, StoreDataFails, StoreData
<1>2. \A q \in Pods :
        LiveConns(q)' = LiveConns(q) /\ FetchTokens(q)' = FetchTokens(q)
  BY <1>1, FetchFrame
<1>3. Monotone /\ NoAdmission' /\ StoresSound'
  BY <1>1 DEF Monotone, NoAdmission, StoresSound, Sound, Issued
<1>4. FetchesCounted'
  BY <1>1 DEF FetchesCounted
<1>5. IssuedInOrder'
  BY <1>1, <1>2 DEF IssuedInOrder, Issued, Tokens
<1>6. HeldIssued'
  BY <1>1, <1>2 DEF HeldIssued, Issued
<1>7. HeldCredentialsValid'
  BY <1>1, <1>2 DEF HeldCredentialsValid, HeldTokens
<1> QED BY <1>3, <1>4, <1>5, <1>6, <1>7 DEF IssuerInv

\* A restart drops the fetches and the cache; containers keep what they have.
LEMMA RestartPluginStep ==
  ASSUME IInv, RestartPlugin
  PROVE  IssuerInv' /\ Monotone
<1> USE DEF IInv
<1>1. /\ UNCHANGED <<pod, token, deadLease, kv, meta, tries, using>>
      /\ pending' = {}
      /\ \A q \in Pods : fetch'[q] = NoFetch /\ cache'[q] \subseteq cache[q]
  BY DEF RestartPlugin
<1>2. \A q \in Pods : LiveConns(q)' = {} /\ FetchTokens(q)' = {}
  BY <1>1 DEF LiveConns, FetchTokens, NoFetch
<1>3. Monotone /\ NoAdmission' /\ StoresSound'
  BY <1>1 DEF Monotone, NoAdmission, StoresSound, Sound, Issued
<1>4. FetchesCounted' /\ IssuedInOrder'
  BY <1>1 DEF FetchesCounted, IssuedInOrder, NoFetch, Issued, Tokens
<1>5. HeldIssued'
  BY <1>1, <1>2 DEF HeldIssued, Issued, NoFetch
<1>6. HeldCredentialsValid'
  BY <1>1, <1>2 DEF HeldCredentialsValid, HeldTokens
<1> QED BY <1>3, <1>4, <1>5, <1>6 DEF IssuerInv

\* Every step of the NRI plugin keeps the plugin's part of the invariant.
LEMMA IssuerStep ==
  ASSUME IInv, IssuerNext, UNCHANGED <<renewerVars, revokerVars>>
  PROVE  IInv'
<1>1. IssuerInv' /\ Monotone
  BY StartFetchStep, ObtainTokenStep, GetDbCredentialsStep, FailFetchStep, FinishFetchStep,
     ContainerStep, StoreStep, RestartPluginStep DEF IssuerNext
<1>2. TypeOK'
  BY IssuerType DEF IInv
<1>3. SyncsSound'
  BY <1>1, CopiesInOrder, SyncsFrame
<1>4. NetsSound' /\ WatchesSound'
  BY <1>1, RevokersFrame
<1> QED
  BY <1>1, <1>2, <1>3, <1>4 DEF IInv, IssuerInv

-----------------------------------------------------------------------------
(* Steps of the renewers *)

\* Whoever it is that revokes, it keeps the plugin's part of the invariant when
\* the token's lease is dead, the token is revoked already, or its pod is gone.
LEMMA PlatformStep ==
  ASSUME IInv, UNCHANGED issuerVars, UNCHANGED <<pod, deadLease>>,
         \A e \in kv' : e.token \in Tokens /\ Sound(e),
         \A t \in Tokens :
           \/ token'[t] = token[t]
           \/ /\ token'[t] = "revoked" /\ Issued(t)
              /\ t \in deadLease \/ token[t] = "revoked" \/ pod[t.pod] = "gone"
  PROVE  IssuerInv' /\ Monotone
<1> USE DEF IInv
<1>1. UNCHANGED <<fetch, tries, cache, using, pending>>
  BY DEF issuerVars
<1>2. \A q \in Pods :
        LiveConns(q)' = LiveConns(q) /\ FetchTokens(q)' = FetchTokens(q)
  BY <1>1, FetchFrame
<1>3. \A t \in Tokens : Issued(t) <=> token'[t] # "unissued"
  BY DEF Issued
<1>4. Monotone /\ NoAdmission' /\ FetchesCounted'
  BY <1>1, <1>3 DEF Monotone, NoAdmission, FetchesCounted, Issued
<1>5. StoresSound'
  <2>1. \A e \in pending : e.token \in Tokens
    BY DEF TypeOK, IssuerTypeOK, KeyInfo
  <2> QED BY <1>1, <1>3, <2>1 DEF StoresSound, Sound, Issued
<1>6. IssuedInOrder'
  BY <1>1, <1>2, <1>3 DEF IssuedInOrder, Issued, Tokens
<1>7. \A q \in Pods : \A t \in HeldTokens(q) : t \in Tokens /\ t.pod = q /\ Issued(t)
  BY FetchTokensTyped DEF HeldTokens, HeldIssued, TypeOK, IssuerTypeOK
<1>8. HeldIssued'
  BY <1>1, <1>2, <1>3, <1>7 DEF HeldIssued, HeldTokens, Issued
<1>9. HeldCredentialsValid'
  BY <1>1, <1>2, <1>7 DEF HeldCredentialsValid, HeldTokens
<1> QED BY <1>4, <1>5, <1>6, <1>8, <1>9 DEF IssuerInv

\* Every step of a renewer keeps the invariant.
LEMMA RenewerStep ==
  ASSUME IInv, RenewerNext, UNCHANGED <<issuerVars, revokerVars>>
  PROVE  IInv'
<1>1. RenewerEffect /\ RenewerTypeOK' /\ SyncsSound'
  BY CopiesInOrder, RenewerActs
<1>2. \A e \in kv' : e.token \in Tokens /\ Sound(e)
  BY <1>1 DEF RenewerEffect, KeyInfo
<1>3. IssuerInv' /\ Monotone
  BY <1>1, <1>2, PlatformStep DEF RenewerEffect
<1>4. TypeOK'
  BY <1>1 DEF RenewerEffect, IInv, TypeOK, PlatformTypeOK, IssuerTypeOK, RevokerTypeOK,
     issuerVars, revokerVars
<1>5. NetsSound' /\ WatchesSound'
  BY <1>3, RevokersFrame
<1> QED BY <1>1, <1>3, <1>4, <1>5 DEF IInv, IssuerInv

-----------------------------------------------------------------------------
(* Steps of the revokers *)

\* What the steps of a revoker do to the platform.
OnlyGoneTouched ==
  /\ UNCHANGED <<pod, deadLease, faulted>>
  /\ meta' \subseteq meta
  /\ kv' \subseteq kv
  /\ \A e \in kv \ kv' : Gone(e)
  /\ token' \in [Tokens -> {"unissued", "valid", "revoked"}]
  /\ \A t \in Tokens :
       \/ token'[t] = token[t]
       \/ token'[t] = "revoked" /\ Issued(t) /\ pod[t.pod] = "gone"

\* Every step of a revoker keeps its hands off the pods that are not gone: what
\* a safety net sweeps or purges is of a pod that is.
LEMMA RevokerTouches ==
  ASSUME IInv, RevokerNext
  PROVE  OnlyGoneTouched
<1>1. RevokerEffect
  BY CopiesInOrder, RevokerActs
<1>2. \A t \in Tokens : Swept(t) => pod[t.pod] = "gone"
  BY DEF IInv, NetsSound, Swept, Gone
<1>3. \A p : Purging(p) => pod[p] = "gone"
  BY DEF IInv, NetsSound, Purging, Gone
<1> QED BY <1>1, <1>2, <1>3 DEF RevokerEffect, OnlyGoneTouched, Gone

\* A pod that is not listed is gone, once a token of its own exists.
LEMMA UnlistedGone ==
  ASSUME IInv, NEW ki \in KeyInfo, Sound(ki), ki.key \notin ListedUuids
  PROVE  Gone(ki)
<1>1. ki.token \in Tokens /\ ki.token.pod \in Pods /\ ki.token.db \in DbConfs
  BY DEF KeyInfo, Tokens
<1>2. pod[ki.token.pod] # "absent" /\ pod[ki.token.pod] # "admitting"
  BY <1>1 DEF IInv, IssuedInOrder, NoAdmission, Sound
<1>3. ki.key \in PodUuids(ki.token.pod)
  BY <1>1 DEF Sound, KeyOf, PodUuids, AnnotatedUuids
<1>4. pod[ki.token.pod] # "live"
  BY <1>1, <1>3 DEF ListedUuids, LivePods
<1>5. pod[ki.token.pod] \in {"absent", "admitting", "live", "gone"}
  BY <1>1 DEF IInv, TypeOK, PlatformTypeOK
<1> QED BY <1>2, <1>4, <1>5 DEF Gone

\* The listings of the safety net: first the KV entries, then the pods. A pod
\* missing from the second but named in the first is gone, and so what a sweep
\* handles stays of pods that are gone.
LEMMA NetsSpare ==
  ASSUME IInv, RevokerNext, NEW q \in Revokers
  PROVE  /\ net'[q].phase = "sweeping" => \A ki \in net'[q].infos : Gone(ki)
         /\ \A ki \in net'[q].purging : Gone(ki)
<1> PICK r \in Revokers : SafetyNetNext(r) \/ WatchNext(r) \/ RestartRevoker(r)
  BY DEF RevokerNext
<1>1. /\ net \in [Revokers -> Nets]
      /\ \A ki \in net[q].infos :
           ki \in KeyInfo /\ Sound(ki) /\ (net[q].phase = "sweeping" => Gone(ki))
      /\ \A ki \in net[q].purging : Gone(ki)
  BY DEF IInv, TypeOK, RevokerTypeOK, NetsSound, Nets
<1>2. CASE net'[q] = net[q] \/ net'[q] = NoNet
  BY <1>1, <1>2 DEF NoNet
<1>3. CASE r = q /\ NetTick(r)
  BY <1>1, <1>3 DEF NetTick, Nets
<1>4. ASSUME r = q, NEW k \in net[q].toRead, NetRead(r, k) \/ NetReadFails(r, k)
      PROVE  /\ net'[q].phase = "sweeping" => \A ki \in net'[q].infos : Gone(ki)
             /\ \A ki \in net'[q].purging : Gone(ki)
  BY <1>1, <1>4 DEF NetRead, NetReadFails, Nets
<1>5. CASE r = q /\ NetListPods(r)
  BY <1>1, <1>5, UnlistedGone DEF NetListPods, Nets
<1>6. ASSUME r = q, NEW ki \in net[q].infos, NetRevoke(r, ki) \/ NetRevokeFails(r, ki)
      PROVE  /\ net'[q].phase = "sweeping" => \A e \in net'[q].infos : Gone(e)
             /\ \A e \in net'[q].purging : Gone(e)
  BY <1>1, <1>6 DEF NetRevoke, NetRevokeFails, Nets
<1>7. ASSUME r = q, NEW ki \in net[q].purging, NetDelete(r, ki) \/ NetDeleteFails(r, ki)
      PROVE  /\ net'[q].phase = "sweeping" => \A e \in net'[q].infos : Gone(e)
             /\ \A e \in net'[q].purging : Gone(e)
  BY <1>1, <1>7 DEF NetDelete, NetDeleteFails, Nets
<1>8. CASE WatchNext(r) \/ RestartRevoker(r)
  <2>1. UNCHANGED net \/ net' = [net EXCEPT ![r] = NoNet]
    BY <1>8 DEF WatchNext, WatchDeleted, WatchGet, WatchGetFails, WatchRevoke, WatchRevokeFails,
       WatchDelete, WatchReopens, WatchCancelsJob, RestartRevoker
  <2> QED BY <1>1, <1>2, <2>1
<1>9. CASE r = q /\ (NetGivesUp(r) \/ NetEnds(r))
  BY <1>1, <1>2, <1>9 DEF NetGivesUp, NetEnds
<1>10. CASE r # q /\ SafetyNetNext(r)
  <2>1. net'[q] = net[q]
    BY <1>1, <1>10 DEF SafetyNetNext, NetTick, NetListPods, NetGivesUp, NetEnds, NetRead,
       NetReadFails, NetRevoke, NetRevokeFails, NetDelete, NetDeleteFails
  <2> QED BY <1>2, <2>1
<1> QED
  BY <1>3, <1>4, <1>5, <1>6, <1>7, <1>8, <1>9, <1>10 DEF SafetyNetNext

\* Every step of a revoker keeps the invariant.
LEMMA RevokerStep ==
  ASSUME IInv, RevokerNext, UNCHANGED <<issuerVars, renewerVars>>
  PROVE  IInv'
<1>1. RevokersInOrder' /\ RevokerEffect
  BY CopiesInOrder, RevokerActs
<1>2. /\ UNCHANGED <<pod, deadLease, faulted>> /\ meta' \subseteq meta /\ kv' \subseteq kv
      /\ token' \in [Tokens -> {"unissued", "valid", "revoked"}]
      /\ \A t \in Tokens :
           \/ token'[t] = token[t]
           \/ token'[t] = "revoked" /\ Issued(t) /\ pod[t.pod] = "gone"
  BY RevokerTouches DEF OnlyGoneTouched
<1>3. \A e \in kv' : e.token \in Tokens /\ Sound(e)
  BY <1>2 DEF IInv, StoresSound, TypeOK, PlatformTypeOK, KeyInfo
<1>4. IssuerInv' /\ Monotone
  BY <1>2, <1>3, PlatformStep
<1>5. TypeOK'
  BY <1>1, <1>2 DEF IInv, TypeOK, PlatformTypeOK, IssuerTypeOK, RenewerTypeOK, RevokersInOrder,
     issuerVars, renewerVars
<1>6. SyncsSound'
  BY <1>4, CopiesInOrder, SyncsFrame
<1>7. NetsSound'
  <2>1. \A ki : Gone(ki)' <=> Gone(ki)
    BY <1>2 DEF Gone
  <2> QED BY <1>1, <2>1, NetsSpare DEF NetsSound, RevokersInOrder, NetCopiesSound
<1> QED BY <1>1, <1>4, <1>5, <1>6, <1>7 DEF IInv, IssuerInv, RevokersInOrder

-----------------------------------------------------------------------------
(* The whole system *)

\* The invariant holds before anything has happened.
LEMMA InitIInv == Init => IInv
<1> SUFFICES ASSUME Init PROVE IInv
  OBVIOUS
<1> USE DEF Init, PlatformInit, IssuerInit, RenewerInit, RevokerInit
<1>1. TypeOK
  <2>1. PlatformTypeOK
    BY DEF PlatformTypeOK
  <2>2. IssuerTypeOK
    BY PlatformAssumption DEF IssuerTypeOK, Fetches, FetchSteps, NoFetch, DbConfs
  <2>3. RenewerTypeOK
    BY DEF RenewerTypeOK, Syncs, NoSync
  <2>4. RevokerTypeOK
    BY DEF RevokerTypeOK, Nets, NoNet, Watches, NewWatch
  <2> QED BY <2>1, <2>2, <2>3, <2>4 DEF TypeOK
<1>2. \A p \in Pods : FetchTokens(p) = {}
  BY DEF FetchTokens, LiveConns, NoFetch
<1>3. NoAdmission /\ FetchesCounted /\ IssuedInOrder /\ StoresSound
  BY DEF NoAdmission, FetchesCounted, IssuedInOrder, StoresSound, NoFetch, Issued
<1>4. HeldIssued /\ HeldCredentialsValid
  BY <1>2 DEF HeldIssued, HeldCredentialsValid, HeldTokens
<1>5. SyncsSound
  BY DEF SyncsSound, NoSync
<1>6. NetsSound
  BY DEF NetsSound, NoNet
<1>7. WatchesSound
  <2> SUFFICES ASSUME NEW r \in Revokers
      PROVE /\ watch[r].events = {} /\ watch[r].uuids = {}
            /\ watch[r].found = {} /\ watch[r].purging = {}
    BY DEF WatchesSound
  <2>1. PICK on \in BOOLEAN : watch[r] = NewWatch(on)
    OBVIOUS
  <2> QED BY <2>1 DEF NewWatch
<1> QED BY <1>1, <1>3, <1>4, <1>5, <1>6, <1>7 DEF IInv

\* A pod that is created, or goes, invalidates no copy: a pod that was gone
\* stays gone.
LEMMA PodStep ==
  ASSUME IInv, NEW p \in Pods, CreatePod(p) \/ DeletePod(p)
  PROVE  IInv'
<1> USE DEF IInv
<1>1. /\ UNCHANGED <<token, deadLease, kv, meta, faulted, fetch, tries, cache, using, pending>>
      /\ UNCHANGED <<sync, running, net>>
      /\ pod' \in [Pods -> {"absent", "admitting", "live", "gone"}]
      /\ \A q \in Pods :
           \/ pod'[q] = pod[q]
           \/ pod[q] = "absent" /\ pod'[q] = "live"
           \/ pod[q] = "live" /\ pod'[q] = "gone"
  <2>1. /\ UNCHANGED <<token, deadLease, kv, meta, faulted, issuerVars, renewerVars>>
        /\ UNCHANGED <<running, net>>
        /\ \/ pod[p] = "absent" /\ pod' = [pod EXCEPT ![p] = "live"]
           \/ pod[p] = "live" /\ pod' = [pod EXCEPT ![p] = "gone"]
    BY DEF CreatePod, DeletePod, revokerVars
  <2>2. pod \in [Pods -> {"absent", "admitting", "live", "gone"}]
    BY DEF TypeOK, PlatformTypeOK
  <2>3. UNCHANGED <<fetch, tries, cache, using, pending, sync>>
    BY <2>1 DEF issuerVars, renewerVars
  <2> QED BY <2>1, <2>2, <2>3
<1>2. /\ watch' \in [Revokers -> Watches]
      /\ \A r \in Revokers :
           /\ watch'[r].uuids = watch[r].uuids
           /\ watch'[r].found = watch[r].found /\ watch'[r].purging = watch[r].purging
           /\ \A q \in watch'[r].events : q \in watch[r].events \/ pod'[q] = "gone"
  <2>1. CASE CreatePod(p)
    BY <2>1 DEF CreatePod, revokerVars, TypeOK, RevokerTypeOK
  <2>2. CASE DeletePod(p)
    <3>1. pod'[p] = "gone"
      BY <2>2 DEF DeletePod, TypeOK, PlatformTypeOK
    <3>2. ReportDeletion(p) /\ RevokerTypeOK
      BY <2>2 DEF DeletePod, TypeOK
    <3> QED BY <3>1, <3>2, ReportReaches
  <2> QED BY <2>1, <2>2
<1>3. \A q \in Pods :
        LiveConns(q)' = LiveConns(q) /\ FetchTokens(q)' = FetchTokens(q)
  BY <1>1, FetchFrame
<1>4. Monotone
  BY <1>1 DEF Monotone, Issued
<1>5. TypeOK'
  BY <1>1, <1>2 DEF TypeOK, PlatformTypeOK, IssuerTypeOK, RenewerTypeOK, RevokerTypeOK
<1>6. NoAdmission' /\ FetchesCounted' /\ StoresSound'
  BY <1>1 DEF NoAdmission, FetchesCounted, StoresSound, Sound, Issued
<1>7. IssuedInOrder'
  BY <1>1, <1>3 DEF IssuedInOrder, Issued, Tokens
<1>8. HeldIssued'
  BY <1>1, <1>3 DEF HeldIssued, Issued
<1>9. HeldCredentialsValid'
  <2> SUFFICES ASSUME NEW q \in Pods, pod'[q] = "live",
                      NEW t \in FetchTokens(q) \cup cache[q] \cup using[q]
      PROVE t \in deadLease \/ token[t] = "valid"
    BY <1>1, <1>3 DEF HeldCredentialsValid, HeldTokens
  <2>1. t \in Tokens /\ t.pod = q /\ Issued(t)
    BY FetchTokensTyped DEF HeldIssued, TypeOK, IssuerTypeOK
  <2>2. \* A pod that was absent holds no token.
        pod[q] # "absent"
    BY <2>1 DEF IssuedInOrder
  <2> QED BY <1>1, <2>2 DEF HeldCredentialsValid, HeldTokens
<1>10. SyncsSound'
  BY <1>1, <1>4, CopiesInOrder, SyncsFrame DEF renewerVars
<1>11. NetsSound'
  <2>1. \A r \in Revokers : \A ki \in net[r].infos \cup net[r].purging : ki \in KeyInfo
    BY DEF TypeOK, RevokerTypeOK, Nets
  <2> QED BY <1>1, <1>4, <2>1, KeyInfoFrame DEF NetsSound
<1>12. WatchesSound'
  BY <1>2, <1>4, WatchesFrame DEF TypeOK
<1> QED BY <1>5, <1>6, <1>7, <1>8, <1>9, <1>10, <1>11, <1>12

\* A lease that dies allows a renewer to revoke, and breaks nothing before.
LEMMA LeaseDiesStep ==
  ASSUME IInv, NEW t \in Tokens, LeaseDies(t), UNCHANGED <<issuerVars, renewerVars, revokerVars>>
  PROVE  IInv'
<1> USE DEF IInv
<1>1. /\ UNCHANGED <<pod, token, kv, meta, faulted, fetch, tries, cache, using, pending>>
      /\ deadLease' = deadLease \cup {t}
  BY DEF LeaseDies, issuerVars
<1>2. \A q \in Pods :
        LiveConns(q)' = LiveConns(q) /\ FetchTokens(q)' = FetchTokens(q)
  BY <1>1, FetchFrame
<1>3. Monotone
  BY <1>1 DEF Monotone, Issued
<1>4. TypeOK'
  BY <1>1 DEF TypeOK, PlatformTypeOK, IssuerTypeOK, RenewerTypeOK, RevokerTypeOK, renewerVars,
     revokerVars
<1>5. NoAdmission' /\ FetchesCounted' /\ StoresSound'
  BY <1>1 DEF NoAdmission, FetchesCounted, StoresSound, Sound, Issued
<1>6. IssuedInOrder'
  BY <1>1, <1>2 DEF IssuedInOrder, Issued, Tokens
<1>7. HeldIssued' /\ HeldCredentialsValid'
  BY <1>1, <1>2 DEF HeldIssued, Issued, HeldCredentialsValid, HeldTokens
<1>8. SyncsSound' /\ NetsSound' /\ WatchesSound'
  BY <1>3, CopiesInOrder, SyncsFrame, RevokersFrame
<1> QED BY <1>4, <1>5, <1>6, <1>7, <1>8

\* A step that changes nothing keeps the invariant.
LEMMA StutterStep ==
  ASSUME IInv, UNCHANGED vars
  PROVE  IInv'
<1> USE DEF IInv, vars, platformVars, issuerVars, renewerVars, revokerVars
<1>1. TypeOK'
  BY DEF TypeOK, PlatformTypeOK, IssuerTypeOK, RenewerTypeOK, RevokerTypeOK
<1>2. \A q \in Pods :
        LiveConns(q)' = LiveConns(q) /\ FetchTokens(q)' = FetchTokens(q)
  BY FetchFrame
<1>3. NoAdmission' /\ FetchesCounted' /\ StoresSound' /\ Monotone
  BY DEF NoAdmission, FetchesCounted, StoresSound, Sound, Issued, Monotone
<1>4. IssuedInOrder' /\ HeldIssued' /\ HeldCredentialsValid'
  BY <1>2 DEF IssuedInOrder, HeldIssued, Issued, HeldCredentialsValid, HeldTokens, Tokens
<1>5. SyncsSound' /\ NetsSound' /\ WatchesSound'
  BY <1>3, CopiesInOrder, SyncsFrame, RevokersFrame
<1> QED BY <1>1, <1>3, <1>4, <1>5

\* The invariant holds whatever the pods, the plugin, the renewers and the
\* revokers do, in any order.
LEMMA NextIInv == IInv /\ [Next]_vars => IInv'
<1> SUFFICES ASSUME IInv, [Next]_vars PROVE IInv'
  OBVIOUS
<1>1. ASSUME NEW p \in Pods, CreatePod(p) \/ DeletePod(p) PROVE IInv'
  BY <1>1, PodStep
<1>2. ASSUME NEW t \in Tokens, LeaseDies(t), UNCHANGED <<issuerVars, renewerVars, revokerVars>>
      PROVE  IInv'
  BY <1>2, LeaseDiesStep
<1>3. CASE IssuerNext /\ UNCHANGED <<renewerVars, revokerVars>>
  BY <1>3, IssuerStep
<1>4. CASE RenewerNext /\ UNCHANGED <<issuerVars, revokerVars>>
  BY <1>4, RenewerStep
<1>5. CASE RevokerNext /\ UNCHANGED <<issuerVars, renewerVars>>
  BY <1>5, RevokerStep
<1>6. CASE UNCHANGED vars
  BY <1>6, StutterStep
<1> QED BY <1>1, <1>2, <1>3, <1>4, <1>5, <1>6 DEF Next

\* The inductive invariant holds in every state of the system, for any number of
\* pods, dbConfigs, fetches and replicas.
THEOREM SpecIInv == Spec => []IInv
BY InitIInv, NextIInv, PTL DEF Spec

\* Every variable of the pods, Vault, the plugin, the renewers and the revokers
\* keeps its type.
THEOREM SpecTypeOK == Spec => []TypeOK
<1>1. IInv => TypeOK
  BY DEF IInv
<1> QED BY <1>1, SpecIInv, PTL

\* Whatever the number of pods, dbConfigurations, fetches and replicas, the
\* credentials of a live pod are revoked by nobody as long as their lease can
\* be renewed: not by fetchAndBuildMapping's cleanup, not by the renewer's
\* purge, not by safetyNetSync nor by the watch.
THEOREM SpecHeldCredentialsValid == Spec => []HeldCredentialsValid
<1>1. IInv => HeldCredentialsValid
  BY DEF IInv
<1> QED BY <1>1, SpecIInv, PTL

\* Whatever the number of pods and of replicas, no step of safetyNetSync or of
\* the watch revokes a token of a live pod or deletes its KV entry, however old
\* the listings it works from.
THEOREM SpecRevokerSparesLivePods == Spec => RevokerSparesLivePods
<1>1. IInv /\ RevokerNext =>
        \A p \in Pods : pod[p] = "live" =>
          /\ \A t \in Tokens : t.pod = p => token'[t] = token[t]
          /\ \A ki \in kv : ki.token.pod = p => ki \in kv'
  <2> SUFFICES ASSUME IInv, RevokerNext, NEW p \in Pods, pod[p] = "live"
      PROVE /\ \A t \in Tokens : t.pod = p => token'[t] = token[t]
            /\ \A ki \in kv : ki.token.pod = p => ki \in kv'
    OBVIOUS
  <2> QED BY RevokerTouches DEF OnlyGoneTouched, Gone
<1> QED BY <1>1, SpecIInv, PTL DEF RevokerSparesLivePods
=============================================================================
