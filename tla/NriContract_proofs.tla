------------------------ MODULE NriContract_proofs -------------------------
(***************************************************************************)
(* Every step of the plugin, the renewers and the revokers is a step of    *)
(* CredentialContract, or leaves alone what the contract speaks of. The    *)
(* inductive invariant of NriLifecycle tells why whoever revokes may.      *)
(***************************************************************************)
EXTENDS NriContract, NriLifecycle_proofs

-----------------------------------------------------------------------------
(* Steps that have one shape for the contract *)

\* A step that moves none of the contract's variables stutters.
LEMMA Stutters ==
  ASSUME UNCHANGED <<pod, token, deadLease>>,
         \A p \in Pods : cache'[p] \cup using'[p] = cache[p] \cup using[p]
  PROVE  UNCHANGED Contract!contractVars
<1>1. Given' = Given
  BY DEF Given
<1> QED BY <1>1 DEF Contract!contractVars

\* A step that at most revokes tokens of no use to their pods is a Revoke.
LEMMA Revokes ==
  ASSUME IInv, UNCHANGED <<pod, deadLease, cache, using>>,
         token' \in [Tokens -> {"unissued", "valid", "revoked"}],
         \A t \in Tokens :
           \/ token'[t] = token[t]
           \/ token'[t] = "revoked" /\ token[t] = "valid" /\ Contract!Useless(t)
  PROVE  Contract!Revoke
<1> DEFINE cs == {t \in Tokens : token'[t] # token[t]}
<1>1. cs \in SUBSET {t \in Tokens : token[t] = "valid" /\ Contract!Useless(t)}
  OBVIOUS
<1>2. token' = [t \in Tokens |-> IF t \in cs THEN "revoked" ELSE token[t]]
  OBVIOUS
<1>3. Given' = Given
  BY DEF Given
<1> HIDE DEF cs
<1> QED BY <1>1, <1>2, <1>3 DEF Contract!Revoke

\* A step that takes from what the pods hold, and does nothing else the
\* contract speaks of, is a TakeBack.
LEMMA TakesBack ==
  ASSUME UNCHANGED <<pod, token, deadLease>>,
         \A p \in Pods : cache'[p] \cup using'[p] \subseteq cache[p] \cup using[p]
  PROVE  Contract!TakeBack
<1>1. \A p \in Pods : Given'[p] \subseteq Given[p]
  BY DEF Given
<1>2. Given' \in [Pods -> SUBSET UNION {Given[p] : p \in Pods}]
  <2>1. Given' = [p \in Pods |-> Given'[p]]
    BY DEF Given
  <2>2. \A p \in Pods : Given'[p] \in SUBSET UNION {Given[q] : q \in Pods}
    BY <1>1
  <2> QED BY <2>1, <2>2
<1> QED BY <1>1, <1>2 DEF Contract!TakeBack

-----------------------------------------------------------------------------
(* Steps of the NRI plugin *)

\* What a fetch obtains is issued: the token is a new one.
LEMMA ObtainIssues ==
  ASSUME IInv, NEW p \in Pods, ObtainToken(p)
  PROVE  \E t \in Tokens : Contract!Issue(t)
<1> USE DEF IInv
<1> DEFINE tok == TokenOf(p, fetch[p].db)
<1>1. /\ UNCHANGED <<pod, deadLease, cache, using>>
      /\ fetch[p].step = "login" /\ fetch[p].db \in DbConfs
  BY DEF ObtainToken, TypeOK, IssuerTypeOK, Fetches
<1>2. tries[p] \in 1..MaxTries /\ pod[p] # "absent"
  BY <1>1 DEF FetchesCounted, TypeOK, IssuerTypeOK
<1>3. tok \in Tokens /\ tok.pod = p /\ tok.try = tries[p] /\ tok.db = fetch[p].db
  BY <1>1, <1>2 DEF TokenOf, Tokens
<1>4. token[tok] = "unissued"
  <2>1. tok.db \notin LiveConns(p)
    BY <1>1, <1>3 DEF LiveConns, DbConfs
  <2> QED BY <1>1, <1>2, <1>3, <2>1 DEF IssuedInOrder, Issued
<1>5. token' = [token EXCEPT ![tok] = "valid"] /\ Given' = Given
  BY <1>1 DEF ObtainToken, Given
<1> HIDE DEF tok
<1> QED BY <1>1, <1>2, <1>3, <1>4, <1>5 DEF Contract!Issue

\* The cleanup of a failed fetch revokes what no pod was given.
LEMMA FailRevokes ==
  ASSUME IInv, NEW p \in Pods, FailFetch(p)
  PROVE  Contract!Revoke
<1> USE DEF IInv
<1>1. /\ UNCHANGED <<pod, deadLease, cache, using>> /\ fetch[p].step # "none"
      /\ token' \in [Tokens -> {"unissued", "valid", "revoked"}]
      /\ \A t \in Tokens : token'[t] # token[t] => t \in FetchTokens(p) /\ token'[t] = "revoked"
  BY DEF FailFetch, TypeOK, PlatformTypeOK
<1>2. \A t \in FetchTokens(p) : t \in Tokens /\ t.pod = p /\ t.try = tries[p] /\ Issued(t)
  BY FetchTokensTyped DEF HeldIssued
<1>3. \A t \in FetchTokens(p) : t \notin Given[p]
  <2>1. \A t \in Given[p] : t.try < tries[p] /\ tries[p] \in Nat
    BY <1>1 DEF Given, HeldIssued, TypeOK, IssuerTypeOK
  <2> QED BY <1>2, <2>1
<1>4. \A t \in Tokens : token'[t] # token[t] => token[t] = "valid" /\ Contract!Useless(t)
  BY <1>1, <1>2, <1>3 DEF Contract!Useless, Issued, TypeOK, PlatformTypeOK
<1> QED BY <1>1, <1>4, Revokes

\* The mapping that enters the cache names the pod's own credentials, which can
\* be used as long as the pod lives.
LEMMA FinishGives ==
  ASSUME IInv, NEW p \in Pods, FinishFetch(p)
  PROVE  Contract!Give(p)
<1> USE DEF IInv
<1>1. /\ UNCHANGED <<pod, token, deadLease, using>>
      /\ cache[p] = {} /\ cache'[p] = FetchTokens(p)
      /\ \A q \in Pods : q # p => cache'[q] = cache[q]
  BY DEF FinishFetch, FetchesCounted, TypeOK, IssuerTypeOK, platformVars
<1>2. FetchTokens(p) \in SUBSET {t \in Tokens : t.pod = p /\ token[t] # "unissued"}
  BY FetchTokensTyped DEF HeldIssued, Issued
<1>3. pod[p] = "live" => \A t \in FetchTokens(p) : Contract!Usable(t)
  BY DEF HeldCredentialsValid, HeldTokens, Contract!Usable
<1>4. Given' = [Given EXCEPT ![p] = @ \cup FetchTokens(p)]
  BY <1>1 DEF Given
<1> QED BY <1>1, <1>2, <1>3, <1>4 DEF Contract!Give

\* Every step of the plugin is a step of the contract.
LEMMA IssuerRefines ==
  ASSUME IInv, IssuerNext
  PROVE  Contract!Next \/ UNCHANGED Contract!contractVars
<1>1. ASSUME NEW p \in Pods, StartFetch(p) \/ GetDbCredentials(p)
      PROVE  UNCHANGED Contract!contractVars
  BY <1>1, Stutters DEF StartFetch, GetDbCredentials, platformVars
<1>2. ASSUME NEW p \in Pods, CreateContainer(p)
      PROVE  UNCHANGED Contract!contractVars
  <2>1. \A q \in Pods : cache'[q] \cup using'[q] = cache[q] \cup using[q]
    BY <1>2 DEF CreateContainer, IInv, TypeOK, IssuerTypeOK
  <2> QED BY <1>2, <2>1, Stutters DEF CreateContainer, platformVars
<1>3. ASSUME NEW p \in Pods, RemovePodSandbox(p)
      PROVE  Contract!TakeBack
  <2>1. \A q \in Pods : cache'[q] \cup using'[q] \subseteq cache[q] \cup using[q]
    BY <1>3 DEF RemovePodSandbox, IInv, TypeOK, IssuerTypeOK
  <2> QED BY <1>3, <2>1, TakesBack DEF RemovePodSandbox, platformVars
<1>4. ASSUME NEW ki \in pending, StoreLands(ki) \/ StoreIsLost(ki)
      PROVE  UNCHANGED Contract!contractVars
  BY <1>4, Stutters DEF StoreLands, StoreIsLost
<1>5. ASSUME RestartPlugin
      PROVE  Contract!TakeBack
  BY <1>5, TakesBack DEF RestartPlugin
<1>6. ASSUME NEW p \in Pods, ObtainToken(p)
      PROVE  Contract!Next
  BY <1>6, ObtainIssues DEF Contract!Next
<1>7. ASSUME NEW p \in Pods, FailFetch(p)
      PROVE  Contract!Next
  BY <1>7, FailRevokes DEF Contract!Next
<1>8. ASSUME NEW p \in Pods, FinishFetch(p)
      PROVE  Contract!Next
  BY <1>8, FinishGives DEF Contract!Next
<1> QED
  BY <1>1, <1>2, <1>3, <1>4, <1>5, <1>6, <1>7, <1>8 DEF IssuerNext, Contract!Next

-----------------------------------------------------------------------------
(* Steps of the others *)

\* A renewer revokes a token in its purge only, after Vault told it that the
\* lease cannot be renewed.
LEMMA RenewerRefines ==
  ASSUME IInv, RenewerNext, UNCHANGED issuerVars
  PROVE  Contract!Next \/ UNCHANGED Contract!contractVars
<1> PICK r \in Renewers :
      \/ SyncTick(r) \/ SyncListPods(r) \/ SyncGivesUp(r) \/ SyncEnds(r) \/ RenewerStops(r)
      \/ \E k \in sync[r].toRead : SyncRead(r, k) \/ SyncReadFails(r, k)
      \/ \E j \in sync[r].jobs :
           \/ RenewToken(r, j) \/ RenewTokenFails(r, j)
           \/ RenewLease(r, j) \/ LeaseUnrecoverable(r, j) \/ RenewLeaseFails(r, j)
           \/ PurgeRevoke(r, j) \/ PurgeRevokeFails(r, j) \/ PurgeDelete(r, j)
           \/ StoreNames(r, j)
  BY DEF RenewerNext
<1>1. UNCHANGED <<cache, using>>
  BY DEF issuerVars
<1>2. ASSUME NEW j \in sync[r].jobs, PurgeRevoke(r, j) \/ PurgeRevokeFails(r, j)
      PROVE  Contract!Revoke
  <2> DEFINE tok == j.ki.token
  <2>1. /\ UNCHANGED <<pod, deadLease>>
        /\ RevokeToken(tok) \/ UNCHANGED token
        /\ j.step = "revoke"
    BY <1>2 DEF PurgeRevoke, PurgeRevokeFails, RevokeTokenFails, Running
  <2>2. tok \in Tokens /\ Issued(tok)
    BY CopiesInOrder, SyncJobs DEF Jobs, KeyInfo, Sound
  <2>3. tok \in deadLease \/ token[tok] = "revoked"
    BY <2>1, CopiesInOrder, SyncJobs
  <2>4. token \in [Tokens -> {"unissued", "valid", "revoked"}]
    BY DEF IInv, TypeOK, PlatformTypeOK
  <2> HIDE DEF tok
  <2>5. /\ token' \in [Tokens -> {"unissued", "valid", "revoked"}]
        /\ \A t \in Tokens : token'[t] = token[t] \/ (t = tok /\ token'[t] = "revoked")
    BY <2>1, <2>2, <2>4 DEF RevokeToken
  <2>6. \A t \in Tokens :
          \/ token'[t] = token[t]
          \/ token'[t] = "revoked" /\ token[t] = "valid" /\ Contract!Useless(t)
    BY <2>2, <2>3, <2>4, <2>5 DEF Contract!Useless, Issued
  <2> QED BY <1>1, <2>1, <2>5, <2>6, Revokes
<1>3. CASE UNCHANGED <<pod, token, deadLease>>
  BY <1>1, <1>3, Stutters
<1> QED
  BY <1>2, <1>3 DEF Contract!Next, SyncTick, SyncListPods, SyncGivesUp, SyncEnds, RenewerStops,
     SyncRead, SyncReadFails, RenewToken, RenewTokenFails, RenewLease, LeaseUnrecoverable,
     RenewLeaseFails, PurgeDelete, StoreNames, platformVars

\* A revoker revokes what pods that are gone left behind.
LEMMA RevokerRefines ==
  ASSUME IInv, RevokerNext, UNCHANGED issuerVars
  PROVE  Contract!Next
<1>1. OnlyGoneTouched /\ UNCHANGED <<cache, using>>
  BY RevokerTouches DEF issuerVars
<1>2. \A t \in Tokens :
        \/ token'[t] = token[t]
        \/ token'[t] = "revoked" /\ token[t] = "valid" /\ Contract!Useless(t)
  BY <1>1 DEF OnlyGoneTouched, Contract!Useless, Issued, IInv, TypeOK, PlatformTypeOK
<1>3. Contract!Revoke
  BY <1>1, <1>2, Revokes DEF OnlyGoneTouched
<1> QED BY <1>3 DEF Contract!Next

\* Pods come and go as the contract lets them, and so do leases.
LEMMA EnvironmentRefines ==
  ASSUME IInv, UNCHANGED issuerVars,
         \/ \E p \in Pods : CreatePod(p) \/ DeletePod(p)
         \/ \E t \in Tokens : LeaseDies(t)
  PROVE  Contract!Next
<1>1. Given' = Given
  BY DEF Given, issuerVars
<1>2. ASSUME NEW p \in Pods, CreatePod(p) PROVE Contract!Create(p)
  BY <1>1, <1>2 DEF CreatePod, Contract!Create
<1>3. ASSUME NEW p \in Pods, DeletePod(p) PROVE Contract!Delete(p)
  BY <1>1, <1>3 DEF DeletePod, Contract!Delete
<1>4. ASSUME NEW t \in Tokens, LeaseDies(t) PROVE Contract!LeaseDies(t)
  BY <1>1, <1>4 DEF LeaseDies, Contract!LeaseDies
<1> QED BY <1>2, <1>3, <1>4 DEF Contract!Next

-----------------------------------------------------------------------------

\* The processes start where the contract does.
LEMMA InitRefines == Init => Contract!Init
<1> SUFFICES ASSUME Init PROVE Contract!Init
  OBVIOUS
<1>1. Given = [p \in Pods |-> {}]
  BY DEF Init, IssuerInit, Given
<1> QED BY <1>1 DEF Init, PlatformInit, Contract!Init

\* Every step of the system is one of the contract, or none.
LEMMA NextRefines == IInv /\ [Next]_vars => [Contract!Next]_(Contract!contractVars)
<1> SUFFICES ASSUME IInv, [Next]_vars PROVE Contract!Next \/ UNCHANGED Contract!contractVars
  OBVIOUS
<1>1. CASE \/ \E p \in Pods : CreatePod(p) \/ DeletePod(p)
           \/ \E t \in Tokens : LeaseDies(t) /\ UNCHANGED <<issuerVars, renewerVars, revokerVars>>
  BY <1>1, EnvironmentRefines DEF CreatePod, DeletePod
<1>2. CASE IssuerNext /\ UNCHANGED <<renewerVars, revokerVars>>
  BY <1>2, IssuerRefines
<1>3. CASE RenewerNext /\ UNCHANGED <<issuerVars, revokerVars>>
  BY <1>3, RenewerRefines
<1>4. CASE RevokerNext /\ UNCHANGED <<issuerVars, renewerVars>>
  BY <1>4, RevokerRefines
<1>5. CASE UNCHANGED vars
  BY <1>5, Stutters DEF vars, platformVars, issuerVars
<1> QED BY <1>1, <1>2, <1>3, <1>4, <1>5 DEF Next

\* The plugin, any number of renewers and any number of revokers together keep
\* CredentialContract: a pod is given its own credentials only, and usable ones
\* as long as it lives, and the cleanup of fetchAndBuildMapping, the purge of
\* SyncAndCleanupTokens and HandlePodDeletionToken only revoke what is of no use
\* to a pod, whatever stale copy they work from.
THEOREM SpecKeepsContract == Spec => KeepsContract
BY InitRefines, NextRefines, SpecIInv, PTL DEF Spec, KeepsContract, Contract!Spec
=============================================================================
