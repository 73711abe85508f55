------------------------ MODULE NriTracking_proofs -------------------------
(***************************************************************************)
(* In projected mode no valid token escapes the renewer and the revoker    *)
(* but by a failure: TInv is inductive beside IInv. The heart of it is     *)
(* what becomes of the token of an entry that leaves the KV store.         *)
(***************************************************************************)
EXTENDS NriLifecycle_proofs

-----------------------------------------------------------------------------
(* Entries that leave the KV store *)

\* The token of an entry, written or under way, that a step does away with is
\* listed elsewhere, revoked, concerned by a failure, or replaced.
LossesExplained ==
  \A e \in kv \cup pending : e \notin kv' \cup pending' =>
    \/ token'[e.token] # "valid"
    \/ e.token \in faulted'
    \/ Listed(e.token)'
    \/ Replaced(e.token)'

\* Two entries under one key either name one token, or replace each other.
LEMMA SameKeyReplaces ==
  ASSUME NEW e \in KeyInfo, NEW i \in KeyInfo, Sound(e), Sound(i), e.key = i.key,
         e.token # i.token
  PROVE  Replaced(e.token)
<1>1. i.token \in Tokens /\ i.token # e.token /\ Issued(i.token)
  BY DEF KeyInfo, Sound
<1>2. KeyOf(i.token.pod, i.token.db) = KeyOf(e.token.pod, e.token.db)
  BY DEF Sound
<1> QED BY <1>1, <1>2 DEF Replaced

\* A token that was replaced stays so.
LEMMA ReplacedStays ==
  ASSUME Monotone, NEW t \in Tokens, Replaced(t)
  PROVE  Replaced(t)'
BY DEF Replaced, Monotone, KeyOf

\* The entries of the stores are KeyInfos that are sound.
LEMMA StoredSound ==
  ASSUME IInv, NEW e \in kv \cup pending
  PROVE  e \in KeyInfo /\ e.token \in Tokens /\ Sound(e)
BY DEF IInv, TypeOK, PlatformTypeOK, IssuerTypeOK, StoresSound, KeyInfo

\* StoreData explains what it overwrites: the entry of the same token, which is
\* written anew, or of another one of the same pod.
LEMMA StoreExplains ==
  ASSUME IInv, Monotone, NEW ki \in KeyInfo, Sound(ki), StoreData(ki),
         pending \ {ki} \subseteq pending'
  PROVE  LossesExplained
<1> SUFFICES ASSUME NEW e \in kv \cup pending, e \notin kv' \cup pending'
    PROVE  Listed(e.token)' \/ Replaced(e.token)'
  BY DEF LossesExplained
<1>1. ki \in kv' /\ e \in kv /\ e.key = ki.key
  BY DEF StoreData
<1>2. CASE e.token = ki.token
  BY <1>1, <1>2 DEF Listed
<1>3. CASE e.token # ki.token
  BY <1>1, <1>3, StoredSound, SameKeyReplaces, ReplacedStays
<1> QED BY <1>2, <1>3

\* DeleteData explains what it deletes, when the token that was read under the
\* key is revoked: a later entry under the key is another token's.
LEMMA DeleteExplains ==
  ASSUME IInv, Monotone, NEW ki \in KeyInfo, Sound(ki),
         DeleteData(ki.key) \/ DeleteDataFails(ki.key),
         token[ki.token] = "revoked" \/ ki.token \in faulted,
         UNCHANGED <<token, faulted, pending>>
  PROVE  LossesExplained
<1> SUFFICES ASSUME NEW e \in kv \cup pending, e \notin kv' \cup pending'
    PROVE  token[e.token] # "valid" \/ e.token \in faulted \/ Replaced(e.token)'
  BY DEF LossesExplained
<1>1. e \in kv /\ e.key = ki.key
  BY DEF DeleteData, DeleteDataFails
<1>2. CASE e.token = ki.token
  BY <1>2
<1>3. CASE e.token # ki.token
  BY <1>1, <1>3, StoredSound, SameKeyReplaces, ReplacedStays
<1> QED BY <1>2, <1>3

\* A step that explains its losses keeps track of the tokens, when whatever it
\* issues is being read next and whatever was being read is listed now, or
\* given up on.
LEMMA TrackedStep ==
  ASSUME IInv, TokensTracked, Monotone, LossesExplained,
         faulted \subseteq faulted',
         \A t \in Tokens : token'[t] = "valid" => token[t] = "valid" \/ BeingRead(t)',
         \A t \in Tokens : BeingRead(t) /\ token'[t] = "valid" =>
           BeingRead(t)' \/ Listed(t)' \/ t \in faulted'
  PROVE  TokensTracked'
<1> SUFFICES ASSUME NEW t \in Tokens, token'[t] = "valid"
    PROVE  t \in faulted' \/ BeingRead(t)' \/ Listed(t)' \/ Replaced(t)'
  BY DEF TokensTracked
<1>1. CASE BeingRead(t)'
  BY <1>1
<1>2. CASE token[t] = "valid" /\ Listed(t)
  <2>1. PICK e \in kv \cup pending : e.token = t
    BY <1>2 DEF Listed
  <2>2. CASE e \in kv' \cup pending'
    BY <2>1, <2>2 DEF Listed
  <2>3. CASE e \notin kv' \cup pending'
    BY <2>1, <2>3 DEF LossesExplained
  <2> QED BY <2>2, <2>3
<1>3. CASE token[t] = "valid" /\ ~Listed(t)
  BY <1>3, ReplacedStays DEF TokensTracked
<1> QED BY <1>1, <1>2, <1>3

-----------------------------------------------------------------------------
(* Steps of the NRI plugin *)

\* What a fetch reads stays what it reads while the fetch does not move.
LEMMA ReadingFrame ==
  ASSUME NEW p \in Pods, fetch'[p] = fetch[p], tries'[p] = tries[p]
  PROVE  \A t \in Tokens : t.pod = p => (BeingRead(t)' <=> BeingRead(t))
BY DEF BeingRead, TokenOf

\* The token being read is one of the fetch's.
LEMMA ReadingFetched ==
  ASSUME IInv, NEW t \in Tokens, BeingRead(t)
  PROVE  t \in FetchTokens(t.pod)
<1>1. t.pod \in Pods
  BY DEF Tokens
<1>2. fetch[t.pod].db \in DbConfs
  BY <1>1 DEF IInv, TypeOK, IssuerTypeOK, Fetches
<1>3. fetch[t.pod].db \in LiveConns(t.pod)
  BY <1>2 DEF BeingRead, LiveConns, DbConfs
<1> QED BY <1>3 DEF FetchTokens, BeingRead

\* Every step of the plugin keeps track of the tokens.
LEMMA IssuerTracks ==
  ASSUME IInv, TokensTracked, UseProjectedSA, IssuerNext, UNCHANGED <<renewerVars, revokerVars>>
  PROVE  TokensTracked'
<1> USE DEF IInv
<1>t. \A t \in Tokens : t.pod \in Pods
  BY DEF Tokens
<1>1. ASSUME NEW p \in Pods, StartFetch(p) PROVE TokensTracked'
  <2>1. /\ UNCHANGED platformVars /\ UNCHANGED pending /\ fetch[p].step = "none"
        /\ \A q \in Pods : q # p => fetch'[q] = fetch[q] /\ tries'[q] = tries[q]
    BY <1>1 DEF StartFetch, TypeOK, IssuerTypeOK
  <2>2. \A t \in Tokens : BeingRead(t) => BeingRead(t)'
    BY <1>t, <2>1, ReadingFrame DEF BeingRead
  <2> QED BY <1>1, <2>1, <2>2, StartFetchStep, TrackedStep DEF LossesExplained, platformVars
<1>2. ASSUME NEW p \in Pods, ObtainToken(p) PROVE TokensTracked'
  <2> DEFINE tok == TokenOf(p, fetch[p].db)
  <2>1. /\ UNCHANGED <<kv, faulted, tries, pending>> /\ fetch[p].step = "login"
        /\ fetch'[p] = [step |-> "creds", db |-> fetch[p].db]
        /\ \A q \in Pods : q # p => fetch'[q] = fetch[q]
        /\ \A t \in Tokens : t # tok => token'[t] = token[t]
    BY <1>2 DEF ObtainToken, TypeOK, IssuerTypeOK, PlatformTypeOK
  <2>2. \A t \in Tokens : BeingRead(t) => BeingRead(t)'
    BY <1>t, <2>1, ReadingFrame DEF BeingRead
  <2>3. \A t \in Tokens : t = tok => BeingRead(t)'
    BY <2>1 DEF BeingRead, TokenOf
  <2>4. LossesExplained
    BY <2>1 DEF LossesExplained
  <2>5. \A t \in Tokens : token'[t] = "valid" => token[t] = "valid" \/ BeingRead(t)'
    BY <2>1, <2>3
  <2> HIDE DEF tok
  <2> QED BY <1>2, <2>1, <2>2, <2>4, <2>5, ObtainTokenStep, TrackedStep
<1>3. ASSUME NEW p \in Pods, GetDbCredentials(p) PROVE TokensTracked'
  <2> DEFINE tok == TokenOf(p, fetch[p].db)
  <2>1. /\ UNCHANGED platformVars /\ UNCHANGED tries
        /\ pending' = pending \cup {NewKeyInfo(tok)}
        /\ \A q \in Pods : q # p => fetch'[q] = fetch[q]
    BY <1>3 DEF GetDbCredentials, TypeOK, IssuerTypeOK
  <2>2. \A t \in Tokens : BeingRead(t) => BeingRead(t)' \/ Listed(t)'
    <3> SUFFICES ASSUME NEW t \in Tokens, BeingRead(t) PROVE BeingRead(t)' \/ Listed(t)'
      OBVIOUS
    <3>1. CASE t.pod = p
      <4>1. t = tok
        BY <3>1 DEF BeingRead
      <4>2. NewKeyInfo(tok) \in pending' /\ NewKeyInfo(tok).token = tok
        BY <2>1 DEF NewKeyInfo
      <4> QED BY <4>1, <4>2 DEF Listed
    <3>2. CASE t.pod # p
      BY <1>t, <2>1, <3>2, ReadingFrame
    <3> QED BY <3>1, <3>2
  <2>3. LossesExplained
    BY <2>1 DEF LossesExplained, platformVars
  <2> QED BY <1>3, <2>1, <2>2, <2>3, GetDbCredentialsStep, TrackedStep DEF platformVars
<1>4. ASSUME NEW p \in Pods, FailFetch(p) PROVE TokensTracked'
  <2>1. PICK failed \in SUBSET FetchTokens(p) :
          /\ token' = [t \in Tokens |->
                         IF t \in FetchTokens(p) \ failed THEN "revoked" ELSE token[t]]
          /\ faulted' = faulted \cup failed
    BY <1>4 DEF FailFetch
  <2>2. /\ UNCHANGED <<kv, tries, pending>>
        /\ \A q \in Pods : q # p => fetch'[q] = fetch[q]
    BY <1>4 DEF FailFetch, TypeOK, IssuerTypeOK
  <2>3. \A t \in Tokens : BeingRead(t) /\ token'[t] = "valid" => BeingRead(t)' \/ t \in faulted'
    <3> SUFFICES ASSUME NEW t \in Tokens, BeingRead(t), token'[t] = "valid"
        PROVE BeingRead(t)' \/ t \in faulted'
      OBVIOUS
    <3>1. CASE t.pod = p
      <4>1. t \in FetchTokens(p)
        BY <3>1, ReadingFetched
      <4> QED BY <2>1, <4>1
    <3>2. CASE t.pod # p
      BY <1>t, <2>2, <3>2, ReadingFrame
    <3> QED BY <3>1, <3>2
  <2>4. LossesExplained
    BY <2>2 DEF LossesExplained
  <2>5. \A t \in Tokens : token'[t] = "valid" => token[t] = "valid"
    BY <2>1
  <2> QED BY <1>4, <2>1, <2>3, <2>4, <2>5, FailFetchStep, TrackedStep
<1>5. ASSUME NEW p \in Pods, FinishFetch(p) PROVE TokensTracked'
  <2>1. /\ UNCHANGED platformVars /\ UNCHANGED <<tries, pending>> /\ fetch[p].step = "merged"
        /\ \A q \in Pods : q # p => fetch'[q] = fetch[q]
    BY <1>5 DEF FinishFetch, TypeOK, IssuerTypeOK
  <2>2. \A t \in Tokens : BeingRead(t) => BeingRead(t)'
    BY <1>t, <2>1, ReadingFrame DEF BeingRead
  <2> QED BY <1>5, <2>1, <2>2, FinishFetchStep, TrackedStep DEF LossesExplained, platformVars
<1>6. ASSUME NEW p \in Pods, CreateContainer(p) \/ RemovePodSandbox(p) PROVE TokensTracked'
  <2>1. UNCHANGED platformVars /\ UNCHANGED <<fetch, tries, pending>>
    BY <1>6 DEF CreateContainer, RemovePodSandbox
  <2>2. \A t \in Tokens : BeingRead(t) => BeingRead(t)'
    BY <2>1 DEF BeingRead, TokenOf
  <2> QED BY <1>6, <2>1, <2>2, ContainerStep, TrackedStep DEF LossesExplained, platformVars
<1>7. ASSUME NEW ki \in pending, StoreLands(ki) \/ StoreIsLost(ki) PROVE TokensTracked'
  <2>1. /\ UNCHANGED <<token, fetch, tries>> /\ faulted \subseteq faulted'
        /\ pending' = pending \ {ki}
    BY <1>7 DEF StoreLands, StoreIsLost
  <2>2. \A t \in Tokens : BeingRead(t) => BeingRead(t)'
    BY <2>1 DEF BeingRead, TokenOf
  <2>3. Monotone
    BY <1>7, StoreStep
  <2>4. LossesExplained
    <3>1. CASE StoreData(ki)
      BY <2>1, <2>3, <3>1, StoredSound, StoreExplains
    <3>2. CASE UNCHANGED kv /\ ki.token \in faulted'
      BY <2>1, <3>2 DEF LossesExplained
    <3> QED BY <1>7, <3>1, <3>2 DEF StoreLands, StoreIsLost, StoreDataFails
  <2> QED BY <2>1, <2>2, <2>3, <2>4, TrackedStep
<1>8. CASE RestartPlugin
  <2>1. /\ UNCHANGED <<token, kv>>
        /\ faulted' = faulted \cup {ki.token : ki \in pending}
                              \cup UNION {FetchTokens(p) : p \in Pods}
    BY <1>8 DEF RestartPlugin
  <2>2. \A t \in Tokens : BeingRead(t) => t \in faulted'
    BY <1>t, <2>1, ReadingFetched
  <2>3. LossesExplained
    BY <2>1 DEF LossesExplained
  <2> QED BY <1>8, <2>1, <2>2, <2>3, RestartPluginStep, TrackedStep
<1> QED BY <1>1, <1>2, <1>3, <1>4, <1>5, <1>6, <1>7, <1>8 DEF IssuerNext

-----------------------------------------------------------------------------
(* Steps of the others *)

\* A purge that goes on has its token revoked still, and a purge that starts
\* with a token that is revoked, or whose revocation failed, is in order.
LEMMA PurgesStep ==
  ASSUME IInv, PurgesRevoked, Monotone, faulted \subseteq faulted',
         \A r \in Revokers : \A ki \in net'[r].purging \cup watch'[r].purging :
           ki \in net[r].purging \cup watch[r].purging \/ token'[ki.token] = "revoked",
         \A r \in Renewers : \A j \in sync'[r].jobs : j.step = "delete" =>
           j \in sync[r].jobs \/ token'[j.ki.token] = "revoked" \/ j.ki.token \in faulted'
  PROVE  PurgesRevoked'
<1>1. \A r \in Revokers : \A ki \in net[r].purging \cup watch[r].purging : ki.token \in Tokens
  BY CopiesInOrder, WatchParts DEF RevokersInOrder, NetCopiesOK, WatchOK, Nets, Watches, KeyInfo
<1>2. \A r \in Renewers : \A j \in sync[r].jobs : j.ki.token \in Tokens
  BY CopiesInOrder, SyncJobs DEF Jobs, KeyInfo
<1> QED BY <1>1, <1>2 DEF PurgesRevoked, Monotone

\* A step that leaves the plugin and the stores' entries alone, and issues
\* nothing, keeps track of the tokens.
LEMMA OthersTrack ==
  ASSUME IInv, TokensTracked, Monotone, LossesExplained, UNCHANGED issuerVars,
         faulted \subseteq faulted',
         \A t \in Tokens : token'[t] = "valid" => token[t] = "valid"
  PROVE  TokensTracked'
<1>1. \A t \in Tokens : BeingRead(t) => BeingRead(t)'
  BY DEF BeingRead, TokenOf, issuerVars
<1> QED BY <1>1, TrackedStep

\* The steps of a renewer: its purge revokes before it deletes, or notes that
\* it failed to, and its write-back replaces what it overwrites.
LEMMA RenewerTracks ==
  ASSUME IInv, TInv, RenewerNext, UNCHANGED <<issuerVars, revokerVars>>
  PROVE  TokensTracked' /\ PurgesRevoked'
<1> USE DEF TInv
<1> PICK r \in Renewers :
      \/ SyncTick(r) \/ SyncListPods(r) \/ SyncGivesUp(r) \/ SyncEnds(r) \/ RenewerStops(r)
      \/ \E k \in sync[r].toRead : SyncRead(r, k) \/ SyncReadFails(r, k)
      \/ \E j \in sync[r].jobs :
           \/ RenewToken(r, j) \/ RenewTokenFails(r, j)
           \/ RenewLease(r, j) \/ LeaseUnrecoverable(r, j) \/ RenewLeaseFails(r, j)
           \/ PurgeRevoke(r, j) \/ PurgeRevokeFails(r, j) \/ PurgeDelete(r, j)
           \/ StoreNames(r, j)
  BY DEF RenewerNext
<1>1. /\ sync \in [Renewers -> Syncs]
      /\ token \in [Tokens -> {"unissued", "valid", "revoked"}]
  BY DEF IInv, TypeOK, RenewerTypeOK, PlatformTypeOK
<1>2. UNCHANGED <<pending, net, watch>>
  BY DEF issuerVars, revokerVars
<1>3. \* It is enough to tell what becomes of the tokens, the entries and the jobs.
      ASSUME Monotone, LossesExplained, faulted \subseteq faulted',
             \A t \in Tokens : token'[t] = "valid" => token[t] = "valid",
             \A q \in Renewers : \A j \in sync'[q].jobs : j.step = "delete" =>
               j \in sync[q].jobs \/ token'[j.ki.token] = "revoked" \/ j.ki.token \in faulted'
      PROVE  TokensTracked' /\ PurgesRevoked'
  BY <1>2, <1>3, OthersTrack, PurgesStep
<1>4. ASSUME UNCHANGED <<pod, token, deadLease>> PROVE Monotone
  BY <1>4 DEF Monotone, Issued
<1>5. ASSUME UNCHANGED kv PROVE LossesExplained
  BY <1>2, <1>5 DEF LossesExplained
<1>6. \* A goroutine that ends, or goes on but not to its deletion.
      ASSUME NEW j \in sync[r].jobs, NEW step \in JobSteps \ {"delete"},
             End(r, j) \/ GoOn(r, j, step)
      PROVE  \A q \in Renewers : \A i \in sync'[q].jobs : i.step = "delete" => i \in sync[q].jobs
  <2>1. j \in Jobs
    BY CopiesInOrder, SyncJobs
  <2>2. [j EXCEPT !.step = step].step = step
    BY <2>1 DEF Jobs
  <2>3. /\ \A q \in Renewers : q # r => sync'[q].jobs = sync[q].jobs
        /\ sync'[r].jobs \subseteq sync[r].jobs \cup {[j EXCEPT !.step = step]}
    BY <1>1, <1>6 DEF End, GoOn, Syncs
  <2> QED BY <1>6, <2>2, <2>3
<1>7. CASE \/ SyncTick(r) \/ SyncListPods(r) \/ SyncGivesUp(r) \/ SyncEnds(r) \/ RenewerStops(r)
           \/ \E k \in sync[r].toRead : SyncRead(r, k) \/ SyncReadFails(r, k)
  <2>1. UNCHANGED platformVars
    BY <1>7 DEF SyncTick, SyncListPods, SyncGivesUp, SyncEnds, RenewerStops, SyncRead, SyncReadFails
  <2>2. \A q \in Renewers : \A i \in sync'[q].jobs : i.step = "delete" => i \in sync[q].jobs
    <3>1. CASE SyncListPods(r)
      BY <1>1, <3>1 DEF SyncListPods, Syncs
    <3>2. CASE SyncGivesUp(r) \/ SyncEnds(r) \/ RenewerStops(r)
      BY <1>1, <3>2 DEF SyncGivesUp, SyncEnds, RenewerStops, NoSync, Syncs
    <3>3. CASE \/ SyncTick(r)
               \/ \E k \in sync[r].toRead : SyncRead(r, k) \/ SyncReadFails(r, k)
      <4>1. sync[r] \in Syncs /\ \A q \in Renewers : q # r => sync'[q] = sync[q]
        BY <1>1, <3>3 DEF SyncTick, SyncRead, SyncReadFails
      <4>2. \A s : sync' = [sync EXCEPT ![r] = s] => sync'[r] = s
        BY <1>1
      <4>3. sync'[r].jobs = sync[r].jobs
        <5>1. ASSUME SyncTick(r) PROVE sync'[r].jobs = sync[r].jobs
          <6> DEFINE s == [sync[r] EXCEPT !.phase = "reading", !.toRead = meta]
          <6>1. sync' = [sync EXCEPT ![r] = s]
            BY <5>1 DEF SyncTick
          <6>2. s.jobs = sync[r].jobs
            BY <4>1 DEF Syncs
          <6> QED BY <4>2, <6>1, <6>2
        <5>2. ASSUME NEW k, SyncRead(r, k) PROVE sync'[r].jobs = sync[r].jobs
          <6> DEFINE s == [sync[r] EXCEPT !.toRead = @ \ {k}, !.infos = @ \cup GetKeyInfo(k)]
          <6>1. sync' = [sync EXCEPT ![r] = s]
            BY <5>2 DEF SyncRead
          <6>2. s.jobs = sync[r].jobs
            BY <4>1 DEF Syncs
          <6> QED BY <4>2, <6>1, <6>2
        <5>3. ASSUME NEW k, SyncReadFails(r, k) PROVE sync'[r].jobs = sync[r].jobs
          BY <4>1, <4>2, <5>3 DEF SyncReadFails, Syncs
        <5> QED BY <3>3, <5>1, <5>2, <5>3
      <4> QED BY <4>1, <4>3
    <3> QED BY <1>7, <3>1, <3>2, <3>3
  <2> QED BY <1>3, <1>4, <1>5, <2>1, <2>2 DEF platformVars
<1>8. ASSUME NEW j \in sync[r].jobs,
             \/ RenewToken(r, j) \/ RenewTokenFails(r, j)
             \/ RenewLease(r, j) \/ LeaseUnrecoverable(r, j) \/ RenewLeaseFails(r, j)
      PROVE  TokensTracked' /\ PurgesRevoked'
  <2>1. UNCHANGED platformVars /\ \E step \in JobSteps \ {"delete"} : End(r, j) \/ GoOn(r, j, step)
    BY <1>8 DEF RenewToken, RenewTokenFails, RenewLease, LeaseUnrecoverable, RenewLeaseFails, JobSteps
  <2> QED BY <1>3, <1>4, <1>5, <1>6, <2>1 DEF platformVars
<1>9. ASSUME NEW j \in sync[r].jobs, PurgeRevoke(r, j) \/ PurgeRevokeFails(r, j)
      PROVE  TokensTracked' /\ PurgesRevoked'
  <2> DEFINE tok == j.ki.token
             next == [j EXCEPT !.step = "delete"]
  <2>1. /\ GoOn(r, j, "delete") /\ UNCHANGED <<pod, deadLease, kv>>
        /\ \/ RevokeToken(tok) /\ faulted \subseteq faulted'
           \/ UNCHANGED token /\ faulted' = faulted \cup {tok}
    BY <1>9 DEF PurgeRevoke, PurgeRevokeFails, RevokeTokenFails
  <2>2. j \in Jobs /\ tok \in Tokens /\ Issued(tok)
    BY CopiesInOrder, SyncJobs DEF Jobs, KeyInfo, Sound
  <2>3. next.ki = j.ki
    BY <2>2 DEF Jobs
  <2>4. \A t \in Tokens : token'[t] = token[t] \/ (t = tok /\ token'[t] = "revoked")
    BY <1>1, <2>1, <2>2 DEF RevokeToken
  <2>5. token'[tok] = "revoked" \/ tok \in faulted'
    BY <1>1, <2>1, <2>2 DEF RevokeToken
  <2>6. Monotone
    BY <2>1, <2>2, <2>4 DEF Monotone, Issued
  <2>7. /\ \A q \in Renewers : q # r => sync'[q].jobs = sync[q].jobs
        /\ sync'[r].jobs \subseteq sync[r].jobs \cup {next}
    BY <1>1, <2>1 DEF GoOn, Syncs
  <2> HIDE DEF next
  <2>8. \A q \in Renewers : \A i \in sync'[q].jobs : i.step = "delete" =>
          i \in sync[q].jobs \/ token'[i.ki.token] = "revoked" \/ i.ki.token \in faulted'
    BY <2>3, <2>5, <2>7
  <2> QED BY <1>3, <1>5, <2>1, <2>4, <2>6, <2>8
<1>10. ASSUME NEW j \in sync[r].jobs, PurgeDelete(r, j)
       PROVE  TokensTracked' /\ PurgesRevoked'
  <2>1. /\ j.step = "delete" /\ End(r, j) /\ UNCHANGED <<pod, token, deadLease, faulted>>
        /\ DeleteData(j.ki.key) \/ DeleteDataFails(j.ki.key)
    BY <1>10 DEF PurgeDelete, Running
  <2>2. j.ki \in KeyInfo /\ Sound(j.ki)
    BY CopiesInOrder, SyncJobs DEF Jobs
  <2>3. token[j.ki.token] = "revoked" \/ j.ki.token \in faulted
    BY <2>1 DEF PurgesRevoked
  <2>4. LossesExplained
    BY <1>2, <1>4, <2>1, <2>2, <2>3, DeleteExplains
  <2>5. "store" \in JobSteps \ {"delete"}
    BY DEF JobSteps
  <2> QED BY <1>3, <1>4, <1>6, <2>1, <2>4, <2>5
<1>11. ASSUME NEW j \in sync[r].jobs, StoreNames(r, j)
       PROVE  TokensTracked' /\ PurgesRevoked'
  <2>1. PICK full \in BOOLEAN :
          /\ StoreData([j.ki EXCEPT !.full = full]) \/ StoreDataFails([j.ki EXCEPT !.full = full])
          /\ End(r, j)
          /\ UNCHANGED <<pod, token, deadLease, faulted>>
    BY <1>11 DEF StoreNames
  <2> DEFINE fullKiInfo == [j.ki EXCEPT !.full = full]
  <2>2. j.ki \in KeyInfo /\ Sound(j.ki)
    BY CopiesInOrder, SyncJobs DEF Jobs
  <2>3. fullKiInfo \in KeyInfo /\ Sound(fullKiInfo)
    BY <2>2 DEF KeyInfo, Sound
  <2>4. StoreData(fullKiInfo) \/ UNCHANGED kv
    BY <2>1 DEF StoreDataFails
  <2> HIDE DEF fullKiInfo
  <2>5. LossesExplained
    BY <1>2, <1>4, <1>5, <2>1, <2>3, <2>4, StoreExplains
  <2>6. "store" \in JobSteps \ {"delete"}
    BY DEF JobSteps
  <2> QED BY <1>3, <1>4, <1>6, <2>1, <2>5, <2>6
<1> QED BY <1>7, <1>8, <1>9, <1>10, <1>11

\* What the steps of a revoker do to a purge under way.
PurgesInOrder ==
  \A r \in Revokers : \A ki \in net'[r].purging \cup watch'[r].purging :
    ki \in net[r].purging \cup watch[r].purging \/ token'[ki.token] = "revoked"

\* A step of the safety net or of the watch deletes the entry of a token it has
\* revoked, and starts a deletion after it revoked the token.
LEMMA RevokerPurges ==
  ASSUME IInv, TInv, RevokerNext, UNCHANGED <<issuerVars, renewerVars>>
  PROVE  PurgesInOrder /\ LossesExplained
<1> USE DEF TInv
<1> PICK r \in Revokers : SafetyNetNext(r) \/ WatchNext(r) \/ RestartRevoker(r)
  BY DEF RevokerNext
<1>1. /\ net \in [Revokers -> Nets] /\ watch \in [Revokers -> Watches]
      /\ token \in [Tokens -> {"unissued", "valid", "revoked"}]
  BY DEF IInv, TypeOK, RevokerTypeOK, PlatformTypeOK
<1>2. \A ki \in net[r].infos \cup net[r].purging \cup watch[r].found \cup watch[r].purging :
        ki \in KeyInfo /\ ki.token \in Tokens /\ Sound(ki)
  BY CopiesInOrder, WatchParts DEF RevokersInOrder, NetCopiesOK, WatchOK, Nets, Watches, KeyInfo
<1>3. UNCHANGED pending /\ Monotone
  BY RevokerTouches DEF OnlyGoneTouched, Monotone, Issued, issuerVars
<1>4. /\ \A n : net' = [net EXCEPT ![r] = n] =>
           net'[r] = n /\ \A q \in Revokers : q # r => net'[q] = net[q]
      /\ \A w : watch' = [watch EXCEPT ![r] = w] =>
           watch'[r] = w /\ \A q \in Revokers : q # r => watch'[q] = watch[q]
  BY <1>1
<1>5. ASSUME net'[r].purging \subseteq net[r].purging, watch'[r].purging \subseteq watch[r].purging,
             \A q \in Revokers : q # r => net'[q] = net[q] /\ watch'[q] = watch[q]
      PROVE  PurgesInOrder
  BY <1>5 DEF PurgesInOrder
<1>6. ASSUME UNCHANGED kv PROVE LossesExplained
  BY <1>3, <1>6 DEF LossesExplained
<1>7. ASSUME NEW ki \in net[r].purging \cup watch[r].purging,
             DeleteData(ki.key) \/ DeleteDataFails(ki.key), UNCHANGED <<token, faulted>>
      PROVE  LossesExplained
  BY <1>2, <1>3, <1>7, DeleteExplains DEF PurgesRevoked
<1>8. ASSUME \/ NetTick(r) \/ NetListPods(r) \/ NetGivesUp(r) \/ NetEnds(r)
             \/ \E k \in net[r].toRead : NetRead(r, k) \/ NetReadFails(r, k)
             \/ \E ki \in net[r].infos : NetRevokeFails(r, ki)
      PROVE  PurgesInOrder /\ LossesExplained
  <2>1. UNCHANGED <<kv, watch>>
    BY <1>8 DEF NetTick, NetListPods, NetGivesUp, NetEnds, NetRead, NetReadFails, NetRevokeFails,
       platformVars
  <2>2. \/ NetTick(r) \/ NetListPods(r)
        \/ \E k : NetRead(r, k) \/ NetReadFails(r, k)
        \/ \E ki : NetRevokeFails(r, ki)
        \/ net' = [net EXCEPT ![r] = NoNet]
    BY <1>8 DEF NetGivesUp, NetEnds
  <2>3. net[r] \in Nets
    BY <1>1
  <2>4. \E n : net' = [net EXCEPT ![r] = n] /\ n.purging \subseteq net[r].purging
    <3>1. CASE NetTick(r)
      <4> DEFINE n == [net[r] EXCEPT !.phase = "reading", !.toRead = meta]
      <4>1. net' = [net EXCEPT ![r] = n] /\ n.purging = net[r].purging
        BY <2>3, <3>1 DEF NetTick, Nets
      <4> QED BY <4>1
    <3>2. CASE NetListPods(r)
      <4> DEFINE n == [net[r] EXCEPT !.phase = "sweeping",
                                     !.infos = {ki \in @ : ki.key \notin ListedUuids}]
      <4>1. net' = [net EXCEPT ![r] = n] /\ n.purging = net[r].purging
        BY <2>3, <3>2 DEF NetListPods, Nets
      <4> QED BY <4>1
    <3>3. ASSUME NEW k, NetRead(r, k)
          PROVE  \E n : net' = [net EXCEPT ![r] = n] /\ n.purging \subseteq net[r].purging
      <4> DEFINE n == [net[r] EXCEPT !.toRead = @ \ {k}, !.infos = @ \cup GetKeyInfo(k)]
      <4>1. net' = [net EXCEPT ![r] = n] /\ n.purging = net[r].purging
        BY <2>3, <3>3 DEF NetRead, Nets
      <4> QED BY <4>1
    <3>4. ASSUME NEW k, NetReadFails(r, k)
          PROVE  \E n : net' = [net EXCEPT ![r] = n] /\ n.purging \subseteq net[r].purging
      <4> DEFINE n == [net[r] EXCEPT !.toRead = @ \ {k}]
      <4>1. net' = [net EXCEPT ![r] = n] /\ n.purging = net[r].purging
        BY <2>3, <3>4 DEF NetReadFails, Nets
      <4> QED BY <4>1
    <3>5. ASSUME NEW ki, NetRevokeFails(r, ki)
          PROVE  \E n : net' = [net EXCEPT ![r] = n] /\ n.purging \subseteq net[r].purging
      <4> DEFINE n == [net[r] EXCEPT !.infos = @ \ {ki}]
      <4>1. net' = [net EXCEPT ![r] = n] /\ n.purging = net[r].purging
        BY <2>3, <3>5 DEF NetRevokeFails, Nets
      <4> QED BY <4>1
    <3>6. CASE net' = [net EXCEPT ![r] = NoNet]
      <4>1. NoNet.purging = {}
        BY DEF NoNet
      <4> QED BY <3>6, <4>1
    <3> QED BY <2>2, <3>1, <3>2, <3>3, <3>4, <3>5, <3>6
  <2> QED BY <1>4, <1>5, <1>6, <2>1, <2>4
<1>9. ASSUME NEW ki \in net[r].infos, NetRevoke(r, ki)
      PROVE  PurgesInOrder /\ LossesExplained
  <2> DEFINE n == [net[r] EXCEPT !.infos = @ \ {ki}, !.purging = {ki}]
  <2>1. net' = [net EXCEPT ![r] = n] /\ n.purging = {ki} /\ UNCHANGED <<kv, watch>>
    BY <1>1, <1>9 DEF NetRevoke, Nets
  <2>2. token'[ki.token] = "revoked"
    BY <1>1, <1>2, <1>9 DEF NetRevoke, RevokeToken
  <2> HIDE DEF n
  <2> QED BY <1>4, <1>6, <2>1, <2>2 DEF PurgesInOrder
<1>10. ASSUME NEW ki \in net[r].purging, NetDelete(r, ki) \/ NetDeleteFails(r, ki)
       PROVE  PurgesInOrder /\ LossesExplained
  <2> DEFINE n == [net[r] EXCEPT !.purging = {}]
  <2>1. net' = [net EXCEPT ![r] = n] /\ n.purging = {} /\ UNCHANGED <<token, faulted, watch>>
    BY <1>1, <1>10 DEF NetDelete, NetDeleteFails, Nets
  <2>2. DeleteData(ki.key) \/ DeleteDataFails(ki.key)
    BY <1>10 DEF NetDelete, NetDeleteFails
  <2> HIDE DEF n
  <2> QED BY <1>4, <1>5, <1>7, <2>1, <2>2
<1>11. ASSUME \/ \E p \in watch[r].events : WatchDeleted(r, p)
              \/ \E k \in watch[r].uuids : WatchGet(r, k) \/ WatchGetFails(r, k)
              \/ \E ki \in watch[r].found : WatchRevokeFails(r, ki)
              \/ WatchReopens(r) \/ WatchCancelsJob(r) \/ RestartRevoker(r)
       PROVE  PurgesInOrder /\ LossesExplained
  <2>1. UNCHANGED kv
    BY <1>11 DEF WatchDeleted, WatchGet, WatchGetFails, WatchRevokeFails, WatchReopens,
       WatchCancelsJob, RestartRevoker, platformVars
  <2>2. UNCHANGED net \/ net' = [net EXCEPT ![r] = NoNet]
    BY <1>11 DEF WatchDeleted, WatchGet, WatchGetFails, WatchRevokeFails, WatchReopens,
       WatchCancelsJob, RestartRevoker
  <2>3. watch[r] \in Watches
    BY <1>1
  <2>4. \E w : watch' = [watch EXCEPT ![r] = w] /\ w.purging \subseteq watch[r].purging
    <3>1. ASSUME NEW p, WatchDeleted(r, p)
          PROVE  \E w : watch' = [watch EXCEPT ![r] = w] /\ w.purging \subseteq watch[r].purging
      <4> DEFINE w == [watch[r] EXCEPT !.events = @ \ {p}, !.uuids = AnnotatedUuids(p)]
      <4>1. watch' = [watch EXCEPT ![r] = w] /\ w.purging = watch[r].purging
        BY <2>3, <3>1 DEF WatchDeleted, Watches
      <4> QED BY <4>1
    <3>2. ASSUME NEW k, WatchGet(r, k)
          PROVE  \E w : watch' = [watch EXCEPT ![r] = w] /\ w.purging \subseteq watch[r].purging
      <4> DEFINE w == [watch[r] EXCEPT !.uuids = @ \ {k}, !.found = GetKeyInfo(k)]
      <4>1. watch' = [watch EXCEPT ![r] = w] /\ w.purging = watch[r].purging
        BY <2>3, <3>2 DEF WatchGet, Watches
      <4> QED BY <4>1
    <3>3. ASSUME NEW k, WatchGetFails(r, k)
          PROVE  \E w : watch' = [watch EXCEPT ![r] = w] /\ w.purging \subseteq watch[r].purging
      <4> DEFINE w == [watch[r] EXCEPT !.uuids = @ \ {k}]
      <4>1. watch' = [watch EXCEPT ![r] = w] /\ w.purging = watch[r].purging
        BY <2>3, <3>3 DEF WatchGetFails, Watches
      <4> QED BY <4>1
    <3>4. ASSUME NEW ki, WatchRevokeFails(r, ki)
          PROVE  \E w : watch' = [watch EXCEPT ![r] = w] /\ w.purging \subseteq watch[r].purging
      <4> DEFINE w == [watch[r] EXCEPT !.found = {}]
      <4>1. watch' = [watch EXCEPT ![r] = w] /\ w.purging = watch[r].purging
        BY <2>3, <3>4 DEF WatchRevokeFails, Watches
      <4> QED BY <4>1
    <3>5. CASE WatchReopens(r) \/ WatchCancelsJob(r) \/ RestartRevoker(r)
      <4>1. \A on : NewWatch(on).purging = {}
        BY DEF NewWatch
      <4> QED BY <3>5, <4>1 DEF WatchReopens, WatchCancelsJob, RestartRevoker
    <3> QED BY <1>11, <3>1, <3>2, <3>3, <3>4, <3>5
  <2>5. /\ net'[r].purging \subseteq net[r].purging
        /\ \A q \in Revokers : q # r => net'[q] = net[q]
    BY <1>4, <2>2 DEF NoNet
  <2> QED BY <1>4, <1>5, <1>6, <2>1, <2>4, <2>5
<1>12. ASSUME NEW ki \in watch[r].found, WatchRevoke(r, ki)
       PROVE  PurgesInOrder /\ LossesExplained
  <2> DEFINE w == [watch[r] EXCEPT !.found = {}, !.purging = {ki}]
  <2>1. watch' = [watch EXCEPT ![r] = w] /\ w.purging = {ki} /\ UNCHANGED <<kv, net>>
    BY <1>1, <1>12 DEF WatchRevoke, Watches
  <2>2. token'[ki.token] = "revoked"
    BY <1>1, <1>2, <1>12 DEF WatchRevoke, RevokeToken
  <2> HIDE DEF w
  <2> QED BY <1>4, <1>6, <2>1, <2>2 DEF PurgesInOrder
<1>13. ASSUME NEW ki \in watch[r].purging, WatchDelete(r, ki)
       PROVE  PurgesInOrder /\ LossesExplained
  <2> DEFINE w == [watch[r] EXCEPT !.purging = {}]
  <2>1. watch' = [watch EXCEPT ![r] = w] /\ w.purging = {} /\ UNCHANGED <<token, faulted, net>>
    BY <1>1, <1>13 DEF WatchDelete, Watches
  <2>2. DeleteData(ki.key) \/ DeleteDataFails(ki.key)
    BY <1>13 DEF WatchDelete
  <2> HIDE DEF w
  <2> QED BY <1>4, <1>5, <1>7, <2>1, <2>2
<1> QED BY <1>8, <1>9, <1>10, <1>11, <1>12, <1>13 DEF SafetyNetNext, WatchNext

\* The steps of the revokers keep track of the tokens.
LEMMA RevokerTracks ==
  ASSUME IInv, TInv, RevokerNext, UNCHANGED <<issuerVars, renewerVars>>
  PROVE  TokensTracked' /\ PurgesRevoked'
<1>1. /\ UNCHANGED faulted /\ Monotone
      /\ \A t \in Tokens : token'[t] = "valid" => token[t] = "valid"
  BY RevokerTouches DEF OnlyGoneTouched, Monotone, Issued
<1>2. PurgesInOrder /\ LossesExplained
  BY RevokerPurges
<1>3. UNCHANGED sync
  BY DEF renewerVars
<1>4. TokensTracked'
  BY <1>1, <1>2, OthersTrack DEF TInv
<1>5. PurgesRevoked'
  BY <1>1, <1>2, <1>3, PurgesStep DEF PurgesInOrder, TInv
<1> QED BY <1>4, <1>5

\* Pods and leases that come and go concern no entry and no purge.
LEMMA EnvironmentTracks ==
  ASSUME IInv, TInv, UNCHANGED issuerVars,
         \/ \E p \in Pods : CreatePod(p) \/ DeletePod(p)
         \/ \E t \in Tokens : LeaseDies(t) /\ UNCHANGED <<issuerVars, renewerVars, revokerVars>>
         \/ UNCHANGED vars
  PROVE  TokensTracked' /\ PurgesRevoked'
<1>1. UNCHANGED <<token, kv, faulted, pending, sync, net>>
  BY DEF CreatePod, DeletePod, LeaseDies, vars, platformVars, issuerVars, renewerVars, revokerVars
<1>2. LossesExplained
  BY <1>1 DEF LossesExplained
<1>3. Monotone
  BY DEF Monotone, Issued, CreatePod, DeletePod, LeaseDies, vars, platformVars, IInv, TypeOK,
     PlatformTypeOK
<1>4. \A r \in Revokers : watch'[r].purging = watch[r].purging
  <2>1. CASE \E p \in Pods : DeletePod(p)
    <3>1. PICK p \in Pods : ReportDeletion(p)
      BY <2>1 DEF DeletePod
    <3>2. RevokerTypeOK
      BY DEF IInv, TypeOK
    <3> QED BY <3>1, <3>2, ReportReaches
  <2>2. CASE UNCHANGED watch
    BY <2>2
  <2> QED BY <2>1, <2>2 DEF CreatePod, vars, revokerVars
<1>5. TokensTracked'
  BY <1>1, <1>2, <1>3, OthersTrack DEF TInv
<1>6. PurgesRevoked'
  BY <1>1, <1>3, <1>4, PurgesStep DEF TInv
<1> QED BY <1>5, <1>6

\* Only a pod with placeholders is fetched for.
LEMMA InjectedStep ==
  ASSUME TypeOK, FetchesInjected, [Next]_vars
  PROVE  FetchesInjected'
<1>1. ASSUME NEW p \in Pods, StartFetch(p) PROVE FetchesInjected'
  BY <1>1 DEF StartFetch, FetchesInjected, TypeOK, IssuerTypeOK
<1>2. CASE UNCHANGED tries
  BY <1>2 DEF FetchesInjected
<1> QED
  BY <1>1, <1>2 DEF Next, vars, issuerVars, CreatePod, DeletePod, IssuerNext, ObtainToken,
     GetDbCredentials, FailFetch, FinishFetch, CreateContainer, RemovePodSandbox, StoreLands,
     StoreIsLost, RestartPlugin

-----------------------------------------------------------------------------

\* Nothing is issued or purged at first.
LEMMA InitTInv == Init => TInv
<1> SUFFICES ASSUME Init PROVE TInv
  OBVIOUS
<1>1. TokensTracked /\ FetchesInjected
  BY DEF Init, PlatformInit, IssuerInit, TokensTracked, FetchesInjected
<1>2. \A r \in Revokers : net[r].purging = {} /\ watch[r].purging = {}
  BY InitIInv, CopiesInOrder, WatchParts DEF RevokersInOrder, Init, RevokerInit, NoNet, NewWatch
<1>3. \A r \in Renewers : sync[r].jobs = {}
  BY DEF Init, RenewerInit, NoSync
<1> QED BY <1>1, <1>2, <1>3 DEF TInv, PurgesRevoked

\* Every step keeps track of the tokens.
LEMMA NextTInv ==
  ASSUME UseProjectedSA, IInv, TInv, [Next]_vars
  PROVE  TInv'
<1> USE DEF TInv
<1>1. FetchesInjected'
  BY InjectedStep DEF IInv
<1>2. CASE IssuerNext /\ UNCHANGED <<renewerVars, revokerVars>>
  <2>1. TokensTracked'
    BY <1>2, IssuerTracks
  <2>2. faulted \subseteq faulted' /\ Monotone /\ UNCHANGED <<sync, net, watch>>
    <3>1. faulted \subseteq faulted'
      BY <1>2 DEF IssuerNext, StartFetch, ObtainToken, GetDbCredentials, FailFetch, FinishFetch,
         CreateContainer, RemovePodSandbox, StoreLands, StoreIsLost, RestartPlugin, platformVars
    <3>2. Monotone
      BY <1>2, StartFetchStep, ObtainTokenStep, GetDbCredentialsStep, FailFetchStep,
         FinishFetchStep, ContainerStep, StoreStep, RestartPluginStep DEF IssuerNext
    <3> QED BY <1>2, <3>1, <3>2 DEF renewerVars, revokerVars
  <2>3. PurgesRevoked'
    BY <2>2, PurgesStep
  <2> QED BY <1>1, <2>1, <2>3
<1>3. CASE RenewerNext /\ UNCHANGED <<issuerVars, revokerVars>>
  BY <1>1, <1>3, RenewerTracks
<1>4. CASE RevokerNext /\ UNCHANGED <<issuerVars, renewerVars>>
  BY <1>1, <1>4, RevokerTracks
<1>5. CASE \/ \E p \in Pods : CreatePod(p) \/ DeletePod(p)
           \/ \E t \in Tokens : LeaseDies(t) /\ UNCHANGED <<issuerVars, renewerVars, revokerVars>>
           \/ UNCHANGED vars
  <2>1. UNCHANGED issuerVars
    BY <1>5 DEF CreatePod, DeletePod, vars
  <2> QED BY <1>1, <1>5, <2>1, EnvironmentTracks
<1> QED BY <1>2, <1>3, <1>4, <1>5 DEF Next

\* In projected mode (cfg.UseProjectedSA), whatever the number of pods,
\* dbConfigurations, fetches and replicas: a token that is valid, and that no
\* failed call and no process exit concerned, has a KV entry or one on its way
\* from the moment fetchAndBuildMapping has read its credentials, unless another
\* token of the same pod took the entry over. PurgesRevoked says why: the
\* renewer and the revoker delete an entry after they revoked its token only.
THEOREM SpecTInv == UseProjectedSA /\ Spec => []TInv
<1>1. CASE UseProjectedSA
  <2>1. IInv /\ TInv /\ [Next]_vars => TInv'
    BY <1>1, NextTInv
  <2> QED BY <2>1, InitTInv, SpecIInv, PTL DEF Spec
<1>2. CASE ~UseProjectedSA
  BY <1>2
<1> QED BY <1>1, <1>2

\* Every pod is fetched for once, and the dbConfigurations of one that is
\* injected have a uuid each, or there is one dbConfiguration only.
OneTokenPerKey == MaxTries = 1 /\ (NumDb = 1 \/ Injected \subseteq Stamped)

\* Where every token has a key of its own (KeyOf: StoreData's path), nothing
\* takes an entry over, and every valid token is in the hands of a running
\* fetch, of a write under way or of an entry, unless a failure concerned it:
\* for any number of pods, dbConfigurations, renewers and revokers.
THEOREM SpecValidTokensTracked ==
  UseProjectedSA /\ OneTokenPerKey /\ Spec => []ValidTokensTracked
<1>1. ASSUME OneTokenPerKey, IInv, TInv PROVE ValidTokensTracked
  <2> SUFFICES ASSUME NEW t \in Tokens, token[t] = "valid"
      PROVE t \in faulted \/ t \in FetchTokens(t.pod) \/ Listed(t)
    BY DEF ValidTokensTracked, Listed
  <2>1. \* No other token has t's key.
        ~Replaced(t)
    <3> SUFFICES ASSUME NEW u \in Tokens, u # t, Issued(u),
                        KeyOf(u.pod, u.db) = KeyOf(t.pod, t.db)
        PROVE FALSE
      BY DEF Replaced
    <3>1. /\ t.pod \in Pods /\ t.db \in DbConfs /\ t.try \in 1..MaxTries
          /\ u.pod \in Pods /\ u.db \in DbConfs /\ u.try \in 1..MaxTries
          /\ t = [pod |-> t.pod, db |-> t.db, try |-> t.try]
          /\ u = [pod |-> u.pod, db |-> u.db, try |-> u.try]
      BY DEF Tokens
    <3>2. u.pod = t.pod /\ u.try = t.try
      <4>1. u.pod = t.pod
        BY DEF KeyOf
      <4>2. \A n \in 1..1 : n = 1
        OBVIOUS
      <4> QED BY <1>1, <3>1, <4>1, <4>2 DEF OneTokenPerKey
    <3>3. CASE NumDb = 1
      BY <3>1, <3>2, <3>3 DEF DbConfs
    <3>4. CASE Injected \subseteq Stamped
      <4>1. tries[u.pod] # 0
        BY <1>1, <3>1 DEF IInv, IssuedInOrder, TypeOK, IssuerTypeOK
      <4>2. u.pod \in Stamped
        BY <1>1, <3>1, <3>4, <4>1 DEF TInv, FetchesInjected
      <4> QED BY <3>1, <3>2, <4>2 DEF KeyOf
    <3> QED BY <1>1, <3>3, <3>4 DEF OneTokenPerKey
  <2> QED BY <1>1, <2>1, ReadingFetched DEF TInv, TokensTracked
<1>2. CASE OneTokenPerKey
  <2>1. IInv /\ TInv => ValidTokensTracked
    BY <1>1, <1>2
  <2> QED BY <2>1, SpecIInv, SpecTInv, PTL
<1>3. CASE ~OneTokenPerKey
  BY <1>3
<1> QED BY <1>2, <1>3
=============================================================================
