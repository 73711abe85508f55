------------------------ MODULE KeyInfoCopies_proofs ------------------------
(***************************************************************************)
(* What a step of a renewer or of a revoker does, whoever issues the       *)
(* credentials: which tokens it revokes, which entries it deletes, and     *)
(* that its copies of KV entries stay sound. The proofs about the NRI mode *)
(* and about the webhook rest on these lemmas.                             *)
(***************************************************************************)
EXTENDS KeyInfoCopies, TLAPS

-----------------------------------------------------------------------------
(* When others move *)

\* A step never takes back that a token exists or is revoked, that a lease is
\* dead, or that a pod is gone.
Monotone ==
  /\ \A t \in Tokens : Issued(t) => Issued(t)'
  /\ \A t \in Tokens : token[t] = "revoked" => token'[t] = "revoked"
  /\ deadLease \subseteq deadLease'
  /\ \A p \in Pods : pod[p] = "gone" => pod'[p] = "gone"

\* What is known of one KeyInfo is known for good.
LEMMA KeyInfoFrame ==
  ASSUME Monotone, NEW ki \in KeyInfo
  PROVE  (Sound(ki) => Sound(ki)') /\ (Gone(ki) => Gone(ki)')
BY DEF Monotone, KeyInfo, Sound, Gone, Issued, Tokens

\* The copies of the renewers stay sound when others move.
LEMMA SyncsFrame ==
  ASSUME RenewerTypeOK, SyncsSound, Monotone, UNCHANGED renewerVars
  PROVE  SyncsSound'
BY DEF RenewerTypeOK, Syncs, Jobs, KeyInfo, SyncsSound, Monotone, renewerVars, Sound, Issued

\* The copies of the safety nets stay sound when others move.
LEMMA NetsFrame ==
  ASSUME RevokerTypeOK, NetCopiesSound, Monotone, UNCHANGED net
  PROVE  NetCopiesSound'
<1>1. \A r \in Revokers : \A ki \in net[r].infos \cup net[r].purging : ki \in KeyInfo
  BY DEF RevokerTypeOK, Nets
<1> QED BY <1>1, KeyInfoFrame DEF NetCopiesSound

\* The copies of the watches stay sound when others move, and when a pod that
\* is gone is reported.
LEMMA WatchesFrame ==
  ASSUME RevokerTypeOK, WatchesSound, Monotone,
         watch' \in [Revokers -> Watches],
         \A r \in Revokers :
           /\ watch'[r].uuids = watch[r].uuids
           /\ watch'[r].found = watch[r].found /\ watch'[r].purging = watch[r].purging
           /\ \A p \in watch'[r].events : p \in watch[r].events \/ pod'[p] = "gone"
  PROVE  WatchesSound'
<1> SUFFICES ASSUME NEW r \in Revokers
    PROVE /\ \A p \in watch'[r].events : pod'[p] = "gone"
          /\ \A k \in watch[r].uuids : pod'[k[1]] = "gone"
          /\ \A ki \in watch[r].found \cup watch[r].purging : Sound(ki)' /\ Gone(ki)'
  BY DEF WatchesSound
<1>1. watch[r] \in Watches /\ watch'[r] \in Watches
  BY DEF RevokerTypeOK
<1>2. \A p \in watch'[r].events : pod'[p] = "gone"
  BY <1>1 DEF WatchesSound, Watches, Monotone
<1>3. \A k \in watch[r].uuids : pod'[k[1]] = "gone"
  <2>1. \A k \in Keys : k[1] \in Pods
    BY DEF Keys
  <2> QED BY <1>1, <2>1 DEF WatchesSound, Watches, Monotone
<1>4. \A ki \in watch[r].found \cup watch[r].purging : Sound(ki)' /\ Gone(ki)'
  BY <1>1, KeyInfoFrame DEF WatchesSound, Watches
<1> QED BY <1>2, <1>3, <1>4

\* The copies of both stay sound when neither moves.
LEMMA CopiesFrame ==
  ASSUME RenewerTypeOK, RevokerTypeOK, SyncsSound, NetCopiesSound, WatchesSound,
         Monotone, UNCHANGED <<renewerVars, revokerVars>>
  PROVE  SyncsSound' /\ NetCopiesSound' /\ WatchesSound'
<1> USE DEF revokerVars
<1>1. SyncsSound'
  BY SyncsFrame
<1>2. NetCopiesSound'
  BY NetsFrame
<1>3. WatchesSound'
  BY WatchesFrame DEF RevokerTypeOK
<1> QED BY <1>1, <1>2, <1>3

-----------------------------------------------------------------------------
(* Steps of the renewers *)

\* What a step of a renewer does to the platform: what it revokes has a dead
\* lease, or is revoked already; what it writes back is sound.
RenewerEffect ==
  /\ UNCHANGED <<pod, deadLease>>
  /\ \A e \in kv' : e \in KeyInfo /\ Sound(e)
  /\ meta' \subseteq Keys /\ faulted' \subseteq Tokens
  /\ token' \in [Tokens -> {"unissued", "valid", "revoked"}]
  /\ \A t \in Tokens :
       \/ token'[t] = token[t]
       \/ /\ token'[t] = "revoked" /\ Issued(t)
          /\ t \in deadLease \/ token[t] = "revoked"

\* The state of renewer r, for a step of r.
SyncOK(s) ==
  /\ s \in Syncs
  /\ \A ki \in s.infos : Sound(ki)
  /\ \A j \in s.jobs :
       /\ Sound(j.ki)
       /\ j.step = "revoke" => j.ki.token \in deadLease \/ token[j.ki.token] = "revoked"

\* A renewer that does not run a pass works on no copy.
LEMMA NoSyncOK == SyncOK(NoSync)
BY DEF SyncOK, NoSync, Syncs

\* A step that takes nothing back and puts a renewer into a state in order keeps
\* the copies of the renewers sound.
LEMMA SyncActs ==
  ASSUME RenewerTypeOK, SyncsSound, Monotone, NEW r \in Renewers, NEW s, SyncOK(s),
         sync' = [sync EXCEPT ![r] = s]
  PROVE  RenewerTypeOK' /\ SyncsSound'
<1>1. RenewerTypeOK'
  BY DEF RenewerTypeOK, SyncOK
<1>2. SyncsSound'
  <2> SUFFICES ASSUME NEW q \in Renewers
      PROVE /\ \A ki \in sync'[q].infos : Sound(ki)'
            /\ \A j \in sync'[q].jobs :
                 /\ Sound(j.ki)'
                 /\ j.step = "revoke" =>
                      j.ki.token \in deadLease' \/ token'[j.ki.token] = "revoked"
    BY DEF SyncsSound
  <2>1. SyncOK(sync'[q])
    BY DEF SyncOK, SyncsSound, RenewerTypeOK
  <2>2. sync'[q].infos \subseteq KeyInfo
    BY <2>1 DEF SyncOK, Syncs
  <2>3. \A j \in sync'[q].jobs : j.ki \in KeyInfo /\ j.ki.token \in Tokens
    BY <2>1 DEF SyncOK, Syncs, Jobs, KeyInfo
  <2> QED BY <2>1, <2>2, <2>3, KeyInfoFrame DEF SyncOK, Monotone
<1> QED BY <1>1, <1>2

\* A renewer revokes no token that was not issued, and takes nothing back.
LEMMA RenewerMonotone ==
  ASSUME RenewerEffect
  PROVE  Monotone
BY DEF RenewerEffect, Monotone, Issued

\* A step that leaves the platform alone has no effect on it.
LEMMA RenewerIdle ==
  ASSUME PlatformTypeOK, EntriesSound, UNCHANGED platformVars
  PROVE  RenewerEffect
BY DEF RenewerEffect, PlatformTypeOK, EntriesSound, platformVars

\* What a renewer takes from the KV listing is sound.
LEMMA SyncListingStep ==
  ASSUME PlatformTypeOK, RenewerTypeOK, EntriesSound, SyncsSound, NEW r \in Renewers,
         \/ SyncTick(r) \/ SyncListPods(r) \/ SyncGivesUp(r) \/ SyncEnds(r) \/ RenewerStops(r)
         \/ \E k \in sync[r].toRead : SyncRead(r, k) \/ SyncReadFails(r, k)
  PROVE  RenewerEffect /\ RenewerTypeOK' /\ SyncsSound'
<1>1. /\ sync[r] \in Syncs
      /\ \A ki \in sync[r].infos : Sound(ki)
      /\ \A j \in sync[r].jobs :
           /\ Sound(j.ki)
           /\ j.step = "revoke" => j.ki.token \in deadLease \/ token[j.ki.token] = "revoked"
  BY DEF SyncsSound, RenewerTypeOK
<1>2. RenewerEffect
  BY RenewerIdle DEF SyncTick, SyncListPods, SyncGivesUp, SyncEnds, RenewerStops, SyncRead,
     SyncReadFails
<1>3. ASSUME NEW s, SyncOK(s), sync' = [sync EXCEPT ![r] = s]
      PROVE  RenewerEffect /\ RenewerTypeOK' /\ SyncsSound'
  BY <1>2, <1>3, RenewerMonotone, SyncActs
<1>4. CASE SyncTick(r)
  <2> DEFINE s == [sync[r] EXCEPT !.phase = "reading", !.toRead = meta]
  <2>1. s \in Syncs /\ s.infos = sync[r].infos /\ s.jobs = sync[r].jobs
    BY <1>1 DEF Syncs, PlatformTypeOK
  <2>2. sync' = [sync EXCEPT ![r] = s]
    BY <1>4 DEF SyncTick
  <2> HIDE DEF s
  <2>3. SyncOK(s)
    BY <1>1, <2>1 DEF SyncOK
  <2> QED BY <1>3, <2>2, <2>3
<1>5. ASSUME NEW k \in sync[r].toRead, SyncRead(r, k)
      PROVE  RenewerEffect /\ RenewerTypeOK' /\ SyncsSound'
  <2> DEFINE s == [sync[r] EXCEPT !.toRead = @ \ {k}, !.infos = @ \cup GetKeyInfo(k)]
  <2>1. GetKeyInfo(k) \subseteq KeyInfo /\ \A ki \in GetKeyInfo(k) : Sound(ki)
    BY DEF GetKeyInfo, EntriesSound, PlatformTypeOK
  <2>2. s \in Syncs /\ s.infos = sync[r].infos \cup GetKeyInfo(k) /\ s.jobs = sync[r].jobs
    BY <1>1, <2>1 DEF Syncs
  <2>3. sync' = [sync EXCEPT ![r] = s]
    BY <1>5 DEF SyncRead
  <2> HIDE DEF s
  <2>4. SyncOK(s)
    BY <1>1, <2>1, <2>2 DEF SyncOK
  <2> QED BY <1>3, <2>3, <2>4
<1>6. ASSUME NEW k \in sync[r].toRead, SyncReadFails(r, k)
      PROVE  RenewerEffect /\ RenewerTypeOK' /\ SyncsSound'
  <2> DEFINE s == [sync[r] EXCEPT !.toRead = @ \ {k}]
  <2>1. s \in Syncs /\ s.infos = sync[r].infos /\ s.jobs = sync[r].jobs
    BY <1>1 DEF Syncs
  <2>2. sync' = [sync EXCEPT ![r] = s]
    BY <1>6 DEF SyncReadFails
  <2> HIDE DEF s
  <2>3. SyncOK(s)
    BY <1>1, <2>1 DEF SyncOK
  <2> QED BY <1>3, <2>2, <2>3
<1>7. CASE SyncListPods(r)
  <2> DEFINE s == [phase |-> "syncing", toRead |-> {}, infos |-> {},
                   jobs |-> [ki : {i \in sync[r].infos : i.key \in ListedUuids},
                             step : {"renewToken"}]]
  <2>1. \A j \in s.jobs : j.ki \in sync[r].infos /\ j.step = "renewToken" /\ j \in Jobs
    BY <1>1 DEF Syncs, Jobs, JobSteps
  <2>2. SyncOK(s)
    BY <1>1, <2>1 DEF SyncOK, Syncs
  <2>3. sync' = [sync EXCEPT ![r] = s]
    BY <1>7 DEF SyncListPods
  <2> HIDE DEF s
  <2> QED BY <1>3, <2>2, <2>3
<1>8. CASE SyncGivesUp(r) \/ SyncEnds(r) \/ RenewerStops(r)
  BY <1>3, <1>8, NoSyncOK DEF SyncGivesUp, SyncEnds, RenewerStops
<1> QED BY <1>4, <1>5, <1>6, <1>7, <1>8

\* The goroutine of one entry goes on or ends.
LEMMA SyncJobs ==
  ASSUME RenewerTypeOK, SyncsSound, NEW r \in Renewers, NEW j \in sync[r].jobs
  PROVE  /\ j \in Jobs /\ Sound(j.ki)
         /\ j.step = "revoke" => j.ki.token \in deadLease \/ token[j.ki.token] = "revoked"
         /\ SyncOK([sync[r] EXCEPT !.jobs = @ \ {j}])
         /\ \A step \in JobSteps :
              (step = "revoke" => j.ki.token \in deadLease \/ token[j.ki.token] = "revoked") =>
                SyncOK([sync[r] EXCEPT !.jobs = (@ \ {j}) \cup {[j EXCEPT !.step = step]}])
<1>1. /\ sync[r] \in Syncs
      /\ \A ki \in sync[r].infos : Sound(ki)
      /\ \A i \in sync[r].jobs :
           /\ Sound(i.ki)
           /\ i.step = "revoke" => i.ki.token \in deadLease \/ token[i.ki.token] = "revoked"
  BY DEF SyncsSound, RenewerTypeOK
<1>2. j \in Jobs
  BY <1>1 DEF Syncs
<1>3. SyncOK([sync[r] EXCEPT !.jobs = @ \ {j}])
  <2> DEFINE s == [sync[r] EXCEPT !.jobs = @ \ {j}]
  <2>1. s \in Syncs /\ s.infos = sync[r].infos /\ s.jobs = sync[r].jobs \ {j}
    BY <1>1 DEF Syncs
  <2> HIDE DEF s
  <2>2. SyncOK(s)
    BY <1>1, <2>1 DEF SyncOK
  <2> QED BY <2>2 DEF s
<1>4. ASSUME NEW step \in JobSteps,
             step = "revoke" => j.ki.token \in deadLease \/ token[j.ki.token] = "revoked"
      PROVE  SyncOK([sync[r] EXCEPT !.jobs = (@ \ {j}) \cup {[j EXCEPT !.step = step]}])
  <2> DEFINE i == [j EXCEPT !.step = step]
             s == [sync[r] EXCEPT !.jobs = (@ \ {j}) \cup {i}]
  <2>1. i \in Jobs /\ i.ki = j.ki /\ i.step = step
    BY <1>2 DEF Jobs
  <2> HIDE DEF i
  <2>2. s \in Syncs /\ s.infos = sync[r].infos /\ s.jobs = (sync[r].jobs \ {j}) \cup {i}
    BY <1>1, <2>1 DEF Syncs
  <2> HIDE DEF s
  <2>3. SyncOK(s)
    BY <1>1, <1>4, <2>1, <2>2 DEF SyncOK
  <2> QED BY <2>3 DEF s, i
<1> QED BY <1>1, <1>2, <1>3, <1>4

\* A renewal, a purge of a lost lease and a write-back, call by call: the only
\* tokens revoked are those whose lease is dead.
LEMMA SyncJobStep ==
  ASSUME PlatformTypeOK, RenewerTypeOK, EntriesSound, SyncsSound,
         NEW r \in Renewers, NEW j \in sync[r].jobs,
         \/ RenewToken(r, j) \/ RenewTokenFails(r, j)
         \/ RenewLease(r, j) \/ LeaseUnrecoverable(r, j) \/ RenewLeaseFails(r, j)
         \/ PurgeRevoke(r, j) \/ PurgeRevokeFails(r, j) \/ PurgeDelete(r, j)
         \/ StoreNames(r, j)
  PROVE  RenewerEffect /\ RenewerTypeOK' /\ SyncsSound'
<1> DEFINE ended == [sync[r] EXCEPT !.jobs = @ \ {j}]
           next(step) == [sync[r] EXCEPT !.jobs = (@ \ {j}) \cup {[j EXCEPT !.step = step]}]
<1>1. j.ki \in KeyInfo /\ j.ki.token \in Tokens /\ j.ki.key \in Keys /\ Sound(j.ki)
  BY SyncJobs DEF Jobs, KeyInfo
<1>2. /\ \A e \in kv : e \in KeyInfo /\ Sound(e)
      /\ meta \subseteq Keys /\ faulted \subseteq Tokens
      /\ token \in [Tokens -> {"unissued", "valid", "revoked"}]
  BY DEF EntriesSound, PlatformTypeOK
<1>3. ASSUME RenewerEffect, NEW step \in JobSteps,
             step = "revoke" => j.ki.token \in deadLease \/ token[j.ki.token] = "revoked",
             End(r, j) \/ GoOn(r, j, step)
      PROVE  RenewerEffect /\ RenewerTypeOK' /\ SyncsSound'
  <2>1. SyncOK(ended) /\ SyncOK(next(step))
    BY <1>3, SyncJobs
  <2>2. sync' = [sync EXCEPT ![r] = ended] \/ sync' = [sync EXCEPT ![r] = next(step)]
    BY <1>3 DEF End, GoOn
  <2> HIDE DEF ended, next
  <2> QED BY <1>3, <2>1, <2>2, RenewerMonotone, SyncActs
<1>4. "renewLease" \in JobSteps /\ "revoke" \in JobSteps /\ "delete" \in JobSteps /\ "store" \in JobSteps
  BY DEF JobSteps
<1>5. CASE RenewToken(r, j) \/ RenewTokenFails(r, j)
  <2>1. RenewerEffect
    BY <1>5, RenewerIdle DEF RenewToken, RenewTokenFails
  <2> QED BY <1>3, <1>4, <1>5, <2>1 DEF RenewToken, RenewTokenFails
<1>6. CASE RenewLease(r, j) \/ RenewLeaseFails(r, j)
  <2>1. RenewerEffect
    BY <1>6, RenewerIdle DEF RenewLease, RenewLeaseFails
  <2> QED BY <1>3, <1>4, <1>6, <2>1 DEF RenewLease, RenewLeaseFails
<1>7. CASE LeaseUnrecoverable(r, j)
  <2>1. RenewerEffect
    BY <1>7, RenewerIdle DEF LeaseUnrecoverable
  <2> QED BY <1>3, <1>4, <1>7, <2>1 DEF LeaseUnrecoverable
<1>8. CASE PurgeRevoke(r, j) \/ PurgeRevokeFails(r, j)
  <2>1. /\ GoOn(r, j, "delete")
        /\ UNCHANGED <<pod, deadLease, kv, meta>> /\ faulted' \subseteq Tokens
        /\ RevokeToken(j.ki.token) \/ UNCHANGED token
    BY <1>1, <1>2, <1>8 DEF PurgeRevoke, PurgeRevokeFails, RevokeTokenFails
  <2>2. j.ki.token \in deadLease \/ token[j.ki.token] = "revoked"
    BY <1>8, SyncJobs DEF PurgeRevoke, PurgeRevokeFails, Running
  <2>3. /\ token' \in [Tokens -> {"unissued", "valid", "revoked"}]
        /\ \A t \in Tokens : token'[t] = token[t] \/ (t = j.ki.token /\ token'[t] = "revoked")
    BY <1>1, <1>2, <2>1 DEF RevokeToken
  <2>4. RenewerEffect
    BY <1>1, <1>2, <2>1, <2>2, <2>3 DEF RenewerEffect, Sound
  <2> QED BY <1>3, <1>4, <2>1, <2>4
<1>9. CASE PurgeDelete(r, j)
  <2>1. /\ End(r, j) /\ UNCHANGED <<pod, token, deadLease, faulted>>
        /\ kv' \subseteq kv /\ meta' \subseteq meta
    BY <1>9 DEF PurgeDelete, DeleteData, DeleteDataFails
  <2>2. RenewerEffect
    BY <1>2, <2>1 DEF RenewerEffect
  <2> QED BY <1>3, <1>4, <2>1, <2>2
<1>10. CASE StoreNames(r, j)
  <2> PICK full \in BOOLEAN :
        /\ StoreData([j.ki EXCEPT !.full = full]) \/ StoreDataFails([j.ki EXCEPT !.full = full])
        /\ End(r, j)
        /\ UNCHANGED <<pod, token, deadLease, faulted>>
    BY <1>10 DEF StoreNames
  <2> DEFINE fullKiInfo == [j.ki EXCEPT !.full = full]
  <2>1. fullKiInfo \in KeyInfo /\ Sound(fullKiInfo) /\ fullKiInfo.key \in Keys
    BY <1>1 DEF KeyInfo, Sound
  <2>2. StoreData(fullKiInfo) \/ UNCHANGED <<kv, meta>>
    BY DEF StoreDataFails
  <2>3. meta' \subseteq Keys /\ \A e \in kv' : e \in KeyInfo /\ Sound(e)
    BY <1>2, <2>1, <2>2 DEF StoreData
  <2>4. RenewerEffect
    BY <1>2, <2>3 DEF RenewerEffect
  <2> QED BY <1>3, <1>4, <2>4
<1> QED BY <1>5, <1>6, <1>7, <1>8, <1>9, <1>10

\* Every step of a renewer, whatever the others did since it read its copies.
LEMMA RenewerActs ==
  ASSUME PlatformTypeOK, RenewerTypeOK, EntriesSound, SyncsSound, RenewerNext
  PROVE  RenewerEffect /\ RenewerTypeOK' /\ SyncsSound'
BY SyncListingStep, SyncJobStep DEF RenewerNext

-----------------------------------------------------------------------------
(* Steps of the revokers *)

\* A safety net that sweeps takes t from what is left to handle.
Swept(t) ==
  \E r \in Revokers :
    /\ net[r].phase = "sweeping"
    /\ \E ki \in net[r].infos \ net'[r].infos : ki.token = t

\* A safety net is about to delete the entry of a pod.
Purging(p) == \E r \in Revokers : \E ki \in net[r].purging : ki.token.pod = p

\* What a step of a revoker does to the platform: it revokes and deletes for pods
\* that are gone, unless it is the safety net that does.
RevokerEffect ==
  /\ UNCHANGED <<pod, deadLease, faulted>>
  /\ meta' \subseteq meta /\ kv' \subseteq kv
  /\ \A e \in kv \ kv' : Gone(e) \/ Purging(e.token.pod)
  /\ token' \in [Tokens -> {"unissued", "valid", "revoked"}]
  /\ \A t \in Tokens :
       \/ token'[t] = token[t]
       \/ /\ token'[t] = "revoked" /\ Issued(t)
          /\ pod[t.pod] = "gone" \/ Swept(t)

\* The revokers are typed and work on sound copies.
RevokersInOrder == RevokerTypeOK /\ NetCopiesSound /\ WatchesSound

\* The state of r's safety net, and of its watch, for a step of r.
NetCopiesOK(n) == n \in Nets /\ \A ki \in n.infos \cup n.purging : Sound(ki)

WatchOK(w) ==
  /\ w \in Watches
  /\ \A p \in w.events : pod[p] = "gone"
  /\ \A k \in w.uuids : pod[k[1]] = "gone"
  /\ \A ki \in w.found \cup w.purging : Sound(ki) /\ Gone(ki)

\* The parts of a revoker's state are in order.
LEMMA WatchParts ==
  ASSUME RevokerTypeOK, NetCopiesSound, WatchesSound, NEW r \in Revokers
  PROVE  /\ NetCopiesOK(net[r]) /\ WatchOK(watch[r])
         /\ net = [net EXCEPT ![r] = net[r]] /\ watch = [watch EXCEPT ![r] = watch[r]]
         /\ NetCopiesOK(NoNet) /\ \A on \in BOOLEAN : WatchOK(NewWatch(on))
BY DEF RevokerTypeOK, NetCopiesSound, WatchesSound, NetCopiesOK, WatchOK, Nets, Watches,
   NoNet, NewWatch

\* The report of a deletion adds one event to the open watches, and touches
\* nothing of what they handle.
LEMMA ReportReaches ==
  ASSUME RevokerTypeOK, NEW p \in Pods, ReportDeletion(p)
  PROVE  /\ watch' \in [Revokers -> Watches]
         /\ \A r \in Revokers :
              /\ watch'[r].uuids = watch[r].uuids
              /\ watch'[r].found = watch[r].found /\ watch'[r].purging = watch[r].purging
              /\ watch'[r].events \subseteq watch[r].events \cup {p}
<1> DEFINE told(w) == [w EXCEPT !.events = @ \cup {p}]
<1>1. ASSUME NEW w \in Watches
      PROVE  /\ told(w) \in Watches
             /\ told(w).uuids = w.uuids /\ told(w).found = w.found
             /\ told(w).purging = w.purging /\ told(w).events = w.events \cup {p}
  BY DEF Watches
<1>2. watch' = [r \in Revokers |-> IF watch[r].on THEN told(watch[r]) ELSE watch[r]]
  BY DEF ReportDeletion
<1>3. \A r \in Revokers : watch[r] \in Watches
  BY DEF RevokerTypeOK
<1> HIDE DEF told
<1>4. \A r \in Revokers : watch'[r] = told(watch[r]) \/ watch'[r] = watch[r]
  BY <1>2
<1>5. watch' \in [Revokers -> Watches]
  BY <1>1, <1>2, <1>3
<1> QED BY <1>1, <1>3, <1>4, <1>5

\* A step that leaves the platform alone has no effect on it.
LEMMA RevokerIdle ==
  ASSUME PlatformTypeOK, UNCHANGED platformVars
  PROVE  RevokerEffect
BY DEF RevokerEffect, PlatformTypeOK, platformVars

\* HandlePodDeletionToken, call by call: the revocation ...
LEMMA RevokeEffect ==
  ASSUME PlatformTypeOK, NEW ki \in KeyInfo, Sound(ki), Gone(ki) \/ Swept(ki.token),
         RevokeToken(ki.token) \/ RevokeTokenFails(ki.token),
         UNCHANGED <<pod, deadLease, kv, meta, faulted>>
  PROVE  RevokerEffect
BY DEF RevokerEffect, RevokeTokenFails, RevokeToken, PlatformTypeOK, KeyInfo, Sound, Gone

\* ... and the deletion of the KV entry: the keys of two pods differ, so that the
\* entries under one key are one pod's.
LEMMA DeleteEffect ==
  ASSUME PlatformTypeOK, EntriesSound, NEW ki \in KeyInfo, Sound(ki),
         Gone(ki) \/ Purging(ki.token.pod),
         DeleteData(ki.key) \/ DeleteDataFails(ki.key),
         UNCHANGED <<pod, token, deadLease, faulted>>
  PROVE  RevokerEffect
<1>1. kv' \subseteq kv /\ meta' \subseteq meta /\ \A e \in kv \ kv' : e.key = ki.key
  BY DEF DeleteData, DeleteDataFails
<1>2. \A e \in kv : e.key = ki.key => e.token.pod = ki.token.pod
  <2>1. \A e \in kv : e.key = KeyOf(e.token.pod, e.token.db)
    BY DEF EntriesSound, Sound
  <2>2. \A p, q, d, e : KeyOf(p, d) = KeyOf(q, e) => p = q
    BY DEF KeyOf
  <2> QED BY <2>1, <2>2 DEF Sound
<1> QED BY <1>1, <1>2 DEF RevokerEffect, Gone, PlatformTypeOK

\* A revoker takes nothing back.
LEMMA RevokerMonotone ==
  ASSUME RevokerEffect
  PROVE  Monotone
BY DEF RevokerEffect, Monotone, Issued

\* The copies stay sound when a revoker moves into a state in order.
LEMMA RevokerMoves ==
  ASSUME RevokersInOrder, RevokerEffect, running' \in [Revokers -> BOOLEAN],
         NEW r \in Revokers, NEW n, NetCopiesOK(n), net' = [net EXCEPT ![r] = n],
         NEW w, WatchOK(w), watch' = [watch EXCEPT ![r] = w]
  PROVE  RevokersInOrder'
<1> USE DEF RevokersInOrder
<1>1. Monotone
  BY RevokerMonotone
<1>2. RevokerTypeOK'
  BY DEF RevokerTypeOK, NetCopiesOK, WatchOK
<1>3. NetCopiesSound'
  <2> SUFFICES ASSUME NEW q \in Revokers
      PROVE \A ki \in net'[q].infos \cup net'[q].purging : Sound(ki)'
    BY DEF NetCopiesSound
  <2>1. NetCopiesOK(net'[q])
    BY WatchParts DEF RevokerTypeOK
  <2> QED BY <1>1, <2>1, KeyInfoFrame DEF NetCopiesOK, Nets
<1>4. WatchesSound'
  <2> SUFFICES ASSUME NEW q \in Revokers
      PROVE /\ \A p \in watch'[q].events : pod'[p] = "gone"
            /\ \A k \in watch'[q].uuids : pod'[k[1]] = "gone"
            /\ \A ki \in watch'[q].found \cup watch'[q].purging : Sound(ki)' /\ Gone(ki)'
    BY DEF WatchesSound
  <2>1. WatchOK(watch'[q])
    BY WatchParts DEF RevokerTypeOK
  <2> QED BY <1>1, <2>1, KeyInfoFrame DEF WatchOK, Watches, RevokerEffect
<1> QED BY <1>2, <1>3, <1>4

\* The KeyInfo of an entry is sound, and tells the pod by its key.
LEMMA EntryUnderKey ==
  ASSUME PlatformTypeOK, EntriesSound, NEW k \in Keys, NEW ki \in GetKeyInfo(k)
  PROVE  ki \in KeyInfo /\ Sound(ki) /\ ki.token.pod = k[1]
<1>1. ki \in KeyInfo /\ Sound(ki) /\ ki.key = k
  BY DEF GetKeyInfo, EntriesSound, PlatformTypeOK
<1>2. \A p, d : KeyOf(p, d)[1] = p
  BY DEF KeyOf
<1> QED BY <1>1, <1>2 DEF Sound

\* The safety net: its listings, then HandlePodDeletionToken for what is left.
LEMMA SafetyNetStep ==
  ASSUME PlatformTypeOK, EntriesSound, RevokersInOrder, NEW r \in Revokers, SafetyNetNext(r)
  PROVE  RevokerEffect /\ RevokersInOrder'
<1>1. NetCopiesOK(net[r]) /\ net[r] \in Nets /\ running \in [Revokers -> BOOLEAN]
  BY WatchParts DEF RevokersInOrder, NetCopiesOK, RevokerTypeOK
<1>2. ASSUME RevokerEffect, UNCHANGED <<running, watch>>,
             NEW n, n \in Nets, \A ki \in n.infos \cup n.purging : Sound(ki),
             net' = [net EXCEPT ![r] = n]
      PROVE  RevokerEffect /\ RevokersInOrder'
  BY <1>1, <1>2, WatchParts, RevokerMoves DEF RevokersInOrder, NetCopiesOK
<1>3. CASE NetTick(r)
  <2> DEFINE n == [net[r] EXCEPT !.phase = "reading", !.toRead = meta]
  <2>1. n \in Nets /\ n.infos = net[r].infos /\ n.purging = net[r].purging
    BY <1>1 DEF Nets, PlatformTypeOK
  <2>2. net' = [net EXCEPT ![r] = n] /\ UNCHANGED <<platformVars, running, watch>>
    BY <1>3 DEF NetTick
  <2> HIDE DEF n
  <2> QED BY <1>1, <1>2, <2>1, <2>2, RevokerIdle DEF NetCopiesOK
<1>4. ASSUME NEW k \in net[r].toRead, NetRead(r, k)
      PROVE  RevokerEffect /\ RevokersInOrder'
  <2> DEFINE n == [net[r] EXCEPT !.toRead = @ \ {k}, !.infos = @ \cup GetKeyInfo(k)]
  <2>1. \A ki \in GetKeyInfo(k) : ki \in KeyInfo /\ Sound(ki)
    BY <1>1, EntryUnderKey DEF Nets
  <2>2. n \in Nets /\ n.infos = net[r].infos \cup GetKeyInfo(k) /\ n.purging = net[r].purging
    BY <1>1, <2>1 DEF Nets
  <2>3. net' = [net EXCEPT ![r] = n] /\ UNCHANGED <<platformVars, running, watch>>
    BY <1>4 DEF NetRead
  <2> HIDE DEF n
  <2> QED BY <1>1, <1>2, <2>1, <2>2, <2>3, RevokerIdle DEF NetCopiesOK
<1>5. ASSUME NEW k \in net[r].toRead, NetReadFails(r, k)
      PROVE  RevokerEffect /\ RevokersInOrder'
  <2> DEFINE n == [net[r] EXCEPT !.toRead = @ \ {k}]
  <2>1. n \in Nets /\ n.infos = net[r].infos /\ n.purging = net[r].purging
    BY <1>1 DEF Nets
  <2>2. net' = [net EXCEPT ![r] = n] /\ UNCHANGED <<platformVars, running, watch>>
    BY <1>5 DEF NetReadFails
  <2> HIDE DEF n
  <2> QED BY <1>1, <1>2, <2>1, <2>2, RevokerIdle DEF NetCopiesOK
<1>6. CASE NetListPods(r)
  <2> DEFINE n == [net[r] EXCEPT !.phase = "sweeping",
                                 !.infos = {ki \in @ : ki.key \notin ListedUuids}]
  <2>1. n \in Nets /\ n.infos \subseteq net[r].infos /\ n.purging = net[r].purging
    BY <1>1 DEF Nets
  <2>2. net' = [net EXCEPT ![r] = n] /\ UNCHANGED <<platformVars, running, watch>>
    BY <1>6 DEF NetListPods
  <2> HIDE DEF n
  <2> QED BY <1>1, <1>2, <2>1, <2>2, RevokerIdle DEF NetCopiesOK
<1>7. CASE NetGivesUp(r) \/ NetEnds(r)
  <2>1. net' = [net EXCEPT ![r] = NoNet] /\ UNCHANGED <<platformVars, running, watch>>
    BY <1>7 DEF NetGivesUp, NetEnds
  <2> QED BY <1>2, <2>1, RevokerIdle, WatchParts DEF RevokersInOrder, NetCopiesOK
<1>8. ASSUME NEW ki \in net[r].infos, NetRevoke(r, ki) \/ NetRevokeFails(r, ki)
      PROVE  RevokerEffect /\ RevokersInOrder'
  <2>1. ki \in KeyInfo /\ Sound(ki)
    BY <1>1 DEF Nets, NetCopiesOK
  <2> DEFINE n(s) == [net[r] EXCEPT !.infos = @ \ {ki}, !.purging = s]
  <2>2. /\ \A s \in {{ki}, net[r].purging} :
             n(s) \in Nets /\ n(s).infos = net[r].infos \ {ki} /\ n(s).purging = s
        /\ [net[r] EXCEPT !.infos = @ \ {ki}] = n(net[r].purging)
    BY <1>1, <2>1 DEF Nets
  <2>3. /\ \E s \in {{ki}, net[r].purging} : net' = [net EXCEPT ![r] = n(s)]
        /\ net[r].phase = "sweeping"
        /\ RevokeToken(ki.token) \/ RevokeTokenFails(ki.token)
        /\ UNCHANGED <<pod, deadLease, kv, meta, faulted, running, watch>>
    BY <1>8, <2>2 DEF NetRevoke, NetRevokeFails
  <2> HIDE DEF n
  <2>4. PICK s \in {{ki}, net[r].purging} : net' = [net EXCEPT ![r] = n(s)]
    BY <2>3
  <2>5. Swept(ki.token)
    BY <2>2, <2>3, <2>4 DEF Swept, RevokersInOrder, RevokerTypeOK
  <2>6. RevokerEffect
    BY <2>1, <2>3, <2>5, RevokeEffect
  <2> QED BY <1>1, <1>2, <2>1, <2>2, <2>3, <2>4, <2>6 DEF NetCopiesOK
<1>9. ASSUME NEW ki \in net[r].purging, NetDelete(r, ki) \/ NetDeleteFails(r, ki)
      PROVE  RevokerEffect /\ RevokersInOrder'
  <2>1. ki \in KeyInfo /\ Sound(ki) /\ Purging(ki.token.pod)
    BY <1>1 DEF Nets, NetCopiesOK, Purging
  <2> DEFINE n == [net[r] EXCEPT !.purging = {}]
  <2>2. n \in Nets /\ n.infos = net[r].infos /\ n.purging = {}
    BY <1>1 DEF Nets
  <2>3. /\ net' = [net EXCEPT ![r] = n]
        /\ DeleteData(ki.key) \/ DeleteDataFails(ki.key)
        /\ UNCHANGED <<pod, token, deadLease, faulted, running, watch>>
    BY <1>9 DEF NetDelete, NetDeleteFails
  <2> HIDE DEF n
  <2>4. RevokerEffect
    BY <2>1, <2>3, DeleteEffect
  <2> QED BY <1>1, <1>2, <2>2, <2>3, <2>4 DEF NetCopiesOK
<1> QED
  BY <1>3, <1>4, <1>5, <1>6, <1>7, <1>8, <1>9 DEF SafetyNetNext

\* The watch, and the restart of the revoker's process: a Deleted event is only
\* sent for a pod that is gone.
LEMMA WatchStep ==
  ASSUME PlatformTypeOK, EntriesSound, RevokersInOrder, NEW r \in Revokers,
         WatchNext(r) \/ RestartRevoker(r)
  PROVE  RevokerEffect /\ RevokersInOrder'
<1>1. /\ watch[r] \in Watches
      /\ \A p \in watch[r].events : pod[p] = "gone"
      /\ \A k \in watch[r].uuids : pod[k[1]] = "gone"
      /\ \A ki \in watch[r].found \cup watch[r].purging : Sound(ki) /\ Gone(ki)
  BY WatchParts DEF RevokersInOrder, WatchOK
<1>2. ASSUME RevokerEffect, UNCHANGED <<running, net>>,
             NEW w, WatchOK(w), watch' = [watch EXCEPT ![r] = w]
      PROVE  RevokerEffect /\ RevokersInOrder'
  <2>1. running' \in [Revokers -> BOOLEAN]
    BY <1>2 DEF RevokersInOrder, RevokerTypeOK
  <2> QED BY <1>2, <2>1, WatchParts, RevokerMoves DEF RevokersInOrder
<1>3. ASSUME NEW p \in watch[r].events, WatchDeleted(r, p)
      PROVE  RevokerEffect /\ RevokersInOrder'
  <2> DEFINE w == [watch[r] EXCEPT !.events = @ \ {p}, !.uuids = AnnotatedUuids(p)]
  <2>1. p \in Pods /\ pod[p] = "gone"
    BY <1>1 DEF Watches
  <2>2. AnnotatedUuids(p) \subseteq Keys /\ \A k \in AnnotatedUuids(p) : k[1] = p
    BY <2>1, PlatformAssumption DEF AnnotatedUuids, Keys, DbConfs
  <2>3. /\ w \in Watches /\ w.events = watch[r].events \ {p} /\ w.uuids = AnnotatedUuids(p)
        /\ w.found = watch[r].found /\ w.purging = watch[r].purging
    BY <1>1, <2>2 DEF Watches
  <2>4. watch' = [watch EXCEPT ![r] = w] /\ UNCHANGED <<platformVars, running, net>>
    BY <1>3 DEF WatchDeleted
  <2> HIDE DEF w
  <2>5. WatchOK(w)
    BY <1>1, <2>1, <2>2, <2>3 DEF WatchOK
  <2> QED BY <1>2, <2>4, <2>5, RevokerIdle
<1>4. ASSUME NEW k \in watch[r].uuids, WatchGet(r, k)
      PROVE  RevokerEffect /\ RevokersInOrder'
  <2> DEFINE w == [watch[r] EXCEPT !.uuids = @ \ {k}, !.found = GetKeyInfo(k)]
  <2>1. k \in Keys /\ pod[k[1]] = "gone"
    BY <1>1 DEF Watches
  <2>2. \A ki \in GetKeyInfo(k) : ki \in KeyInfo /\ Sound(ki) /\ Gone(ki)
    BY <2>1, EntryUnderKey DEF Gone
  <2>3. /\ w \in Watches /\ w.events = watch[r].events /\ w.uuids = watch[r].uuids \ {k}
        /\ w.found = GetKeyInfo(k) /\ w.purging = watch[r].purging
    BY <1>1, <2>2 DEF Watches
  <2>4. watch' = [watch EXCEPT ![r] = w] /\ UNCHANGED <<platformVars, running, net>>
    BY <1>4 DEF WatchGet
  <2> HIDE DEF w
  <2>5. WatchOK(w)
    BY <1>1, <2>2, <2>3 DEF WatchOK
  <2> QED BY <1>2, <2>4, <2>5, RevokerIdle
<1>5. ASSUME NEW k \in watch[r].uuids, WatchGetFails(r, k)
      PROVE  RevokerEffect /\ RevokersInOrder'
  <2> DEFINE w == [watch[r] EXCEPT !.uuids = @ \ {k}]
  <2>1. /\ w \in Watches /\ w.events = watch[r].events /\ w.uuids = watch[r].uuids \ {k}
        /\ w.found = watch[r].found /\ w.purging = watch[r].purging
    BY <1>1 DEF Watches
  <2>2. watch' = [watch EXCEPT ![r] = w] /\ UNCHANGED <<platformVars, running, net>>
    BY <1>5 DEF WatchGetFails
  <2> HIDE DEF w
  <2>3. WatchOK(w)
    BY <1>1, <2>1 DEF WatchOK
  <2> QED BY <1>2, <2>2, <2>3, RevokerIdle
<1>6. ASSUME NEW ki \in watch[r].found, WatchRevoke(r, ki) \/ WatchRevokeFails(r, ki)
      PROVE  RevokerEffect /\ RevokersInOrder'
  <2>1. ki \in KeyInfo /\ Sound(ki) /\ Gone(ki)
    BY <1>1 DEF Watches
  <2> DEFINE w(s) == [watch[r] EXCEPT !.found = {}, !.purging = s]
             v == [watch[r] EXCEPT !.found = {}]
  <2>2. /\ w({ki}) \in Watches /\ w({ki}).events = watch[r].events
        /\ w({ki}).uuids = watch[r].uuids /\ w({ki}).found = {} /\ w({ki}).purging = {ki}
    BY <1>1, <2>1 DEF Watches
  <2>3. /\ v \in Watches /\ v.events = watch[r].events /\ v.uuids = watch[r].uuids
        /\ v.found = {} /\ v.purging = watch[r].purging
    BY <1>1 DEF Watches
  <2>4. WatchRevoke(r, ki) => watch' = [watch EXCEPT ![r] = w({ki})] /\ UNCHANGED <<running, net>>
    BY DEF WatchRevoke
  <2>5. WatchRevokeFails(r, ki) => watch' = [watch EXCEPT ![r] = v] /\ UNCHANGED <<running, net>>
    BY DEF WatchRevokeFails
  <2> HIDE DEF w, v
  <2>6. WatchOK(w({ki})) /\ WatchOK(v)
    BY <1>1, <2>1, <2>2, <2>3 DEF WatchOK
  <2>7. RevokerEffect
    BY <1>6, <2>1, RevokeEffect DEF WatchRevoke, WatchRevokeFails
  <2> QED BY <1>2, <1>6, <2>4, <2>5, <2>6, <2>7
<1>7. ASSUME NEW ki \in watch[r].purging, WatchDelete(r, ki)
      PROVE  RevokerEffect /\ RevokersInOrder'
  <2> DEFINE w == [watch[r] EXCEPT !.purging = {}]
  <2>1. /\ w \in Watches /\ w.events = watch[r].events /\ w.uuids = watch[r].uuids
        /\ w.found = watch[r].found /\ w.purging = {}
    BY <1>1 DEF Watches
  <2>2. watch' = [watch EXCEPT ![r] = w] /\ UNCHANGED <<running, net>>
    BY <1>7 DEF WatchDelete
  <2> HIDE DEF w
  <2>3. WatchOK(w)
    BY <1>1, <2>1 DEF WatchOK
  <2>4. ki \in KeyInfo /\ Sound(ki) /\ Gone(ki)
    BY <1>1 DEF Watches
  <2>5. RevokerEffect
    BY <1>7, <2>4, DeleteEffect DEF WatchDelete
  <2> QED BY <1>2, <2>2, <2>3, <2>5
<1>8. CASE WatchReopens(r)
  <2>1. watch' = [watch EXCEPT ![r] = NewWatch(TRUE)] /\ UNCHANGED <<platformVars, running, net>>
    BY <1>8 DEF WatchReopens
  <2> QED BY <1>2, <2>1, RevokerIdle, WatchParts DEF RevokersInOrder
<1>9. CASE WatchCancelsJob(r) \/ RestartRevoker(r)
  <2>1. /\ UNCHANGED platformVars /\ net' = [net EXCEPT ![r] = NoNet]
        /\ running' = [running EXCEPT ![r] = FALSE] \/ running' = [running EXCEPT ![r] = TRUE]
        /\ \E on \in BOOLEAN : watch' = [watch EXCEPT ![r] = NewWatch(on)]
    BY <1>9 DEF WatchCancelsJob, RestartRevoker
  <2>2. running' \in [Revokers -> BOOLEAN]
    BY <2>1 DEF RevokersInOrder, RevokerTypeOK
  <2>3. PICK on \in BOOLEAN : watch' = [watch EXCEPT ![r] = NewWatch(on)]
    BY <2>1
  <2> DEFINE w == NewWatch(on)
  <2>4. WatchOK(w) /\ NetCopiesOK(NoNet)
    BY WatchParts DEF RevokersInOrder
  <2>5. watch' = [watch EXCEPT ![r] = w]
    BY <2>3
  <2> HIDE DEF w
  <2> QED BY <2>1, <2>2, <2>4, <2>5, RevokerIdle, RevokerMoves
<1> QED BY <1>3, <1>4, <1>5, <1>6, <1>7, <1>8, <1>9 DEF WatchNext

\* Every step of a revoker, whatever the others did since it read its copies.
LEMMA RevokerActs ==
  ASSUME PlatformTypeOK, EntriesSound, RevokersInOrder, RevokerNext
  PROVE  RevokerEffect /\ RevokersInOrder'
BY SafetyNetStep, WatchStep DEF RevokerNext
=============================================================================
