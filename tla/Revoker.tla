------------------------------ MODULE Revoker ------------------------------
(***************************************************************************)
(* The revoker (RevokeTokenJob): the safety-net goroutine that compares    *)
(* the KV entries with the pods every five minutes, and the watch          *)
(* goroutine that handles pod deletions as they are reported. Both end in  *)
(* HandlePodDeletionToken. Several revokers are replicas of which an old   *)
(* leader may still be at work when the next one starts.                   *)
(***************************************************************************)
EXTENDS Platform

CONSTANTS
  Revokers,
  WatchRestarts  \* whether re-opening a closed pod watch always succeeds

ASSUME RevokerAssumption == WatchRestarts \in BOOLEAN

VARIABLES
  running,  \* running[r]: RevokeTokenJob of r has not been cancelled
  net,      \* net[r]: the state of r's safety-net goroutine
  watch     \* watch[r]: the state of r's watch goroutine

revokerVars == <<running, net, watch>>

-----------------------------------------------------------------------------

\* "reading": ListKeyInfo has the keys and reads them one by one; "sweeping":
\* the pods are listed too, infos holds the KeyInfos still to handle and
\* purging the one whose token is revoked and whose entry is deleted next.
Nets == [phase : {"idle", "reading", "sweeping"}, toRead : SUBSET Keys,
         infos : SUBSET KeyInfo, purging : SUBSET KeyInfo]

NoNet == [phase |-> "idle", toRead |-> {}, infos |-> {}, purging |-> {}]

\* events: the deletions reported and not received yet; uuids: those of the
\* pod being handled; found, purging: the KeyInfo about to be revoked, deleted.
Watches == [on : BOOLEAN, events : SUBSET Pods, uuids : SUBSET Keys,
            found : SUBSET KeyInfo, purging : SUBSET KeyInfo]

NewWatch(on) ==
  [on |-> on, events |-> {}, uuids |-> {}, found |-> {}, purging |-> {}]

\* The select loop of r's watch goroutine is waiting.
WatchWaits(r) ==
  /\ watch[r].on
  /\ watch[r].uuids = {} /\ watch[r].found = {} /\ watch[r].purging = {}

-----------------------------------------------------------------------------
(* safetyNetSync *)

\* The ticker fires; the keys are listed. A LIST that fails ends the sync.
NetTick(r) ==
  /\ running[r] /\ net[r].phase = "idle"
  /\ net' = [net EXCEPT ![r].phase = "reading", ![r].toRead = meta]
  /\ UNCHANGED <<platformVars, running, watch>>

NetRead(r, k) ==
  /\ net[r].phase = "reading" /\ k \in net[r].toRead
  /\ net' = [net EXCEPT ![r].toRead = @ \ {k}, ![r].infos = @ \cup GetKeyInfo(k)]
  /\ UNCHANGED <<platformVars, running, watch>>

\* The listing is partial, and used all the same.
NetReadFails(r, k) ==
  /\ net[r].phase = "reading" /\ k \in net[r].toRead
  /\ net' = [net EXCEPT ![r].toRead = @ \ {k}]
  /\ UNCHANGED <<platformVars, running, watch>>

\* (variant) Entries without names are taken for foreign ones.
NetListPodsNamedOnly(r) ==
  /\ net[r].phase = "reading" /\ net[r].toRead = {} /\ net[r].infos # {}
  /\ PodListOk
  /\ net' = [net EXCEPT ![r].phase = "sweeping",
                        ![r].infos = {ki \in @ : ki.full /\ ki.key \notin ListedUuids}]
  /\ UNCHANGED <<platformVars, running, watch>>

\* GetAllPodAndNamespace; only the entries without a listed pod remain.
NetListPods(r) ==
  /\ net[r].phase = "reading" /\ net[r].toRead = {} /\ net[r].infos # {}
  /\ PodListOk
  /\ net' = [net EXCEPT ![r].phase = "sweeping",
                        ![r].infos = {ki \in @ : ki.key \notin ListedUuids}]
  /\ UNCHANGED <<platformVars, running, watch>>

\* (variant) A pod listing that failed counts as one without pods.
NetSweepsUnlisted(r) ==
  /\ net[r].phase = "reading" /\ net[r].toRead = {}
  /\ net' = [net EXCEPT ![r].phase = "sweeping"]
  /\ UNCHANGED <<platformVars, running, watch>>

\* Nothing was listed, or the pods could not be: wait for the next tick.
NetGivesUp(r) ==
  /\ net[r].phase = "reading" /\ net[r].toRead = {}
  /\ net' = [net EXCEPT ![r] = NoNet]
  /\ UNCHANGED <<platformVars, running, watch>>

\* (variant) A token that is revoked already is an error.
NetRevokeOnce(r, ki) ==
  /\ ki \in net[r].infos /\ net[r].phase = "sweeping" /\ net[r].purging = {}
  /\ token[ki.token] = "valid"
  /\ RevokeToken(ki.token)
  /\ net' = [net EXCEPT ![r].infos = @ \ {ki}, ![r].purging = {ki}]
  /\ UNCHANGED <<pod, deadLease, kv, meta, faulted, running, watch>>

\* HandlePodDeletionToken: revoke, and on success delete the entry.
NetRevoke(r, ki) ==
  /\ ki \in net[r].infos /\ net[r].phase = "sweeping" /\ net[r].purging = {}
  /\ RevokeToken(ki.token)
  /\ net' = [net EXCEPT ![r].infos = @ \ {ki}, ![r].purging = {ki}]
  /\ UNCHANGED <<pod, deadLease, kv, meta, faulted, running, watch>>

\* (variant) The entry is deleted although the revocation failed.
NetRevokeIgnored(r, ki) ==
  /\ ki \in net[r].infos /\ net[r].phase = "sweeping" /\ net[r].purging = {}
  /\ RevokeTokenFails(ki.token)
  /\ net' = [net EXCEPT ![r].infos = @ \ {ki}, ![r].purging = {ki}]
  /\ UNCHANGED <<pod, deadLease, kv, meta, faulted, running, watch>>

NetRevokeFails(r, ki) ==
  /\ ki \in net[r].infos /\ net[r].phase = "sweeping" /\ net[r].purging = {}
  /\ RevokeTokenFails(ki.token)
  /\ net' = [net EXCEPT ![r].infos = @ \ {ki}]
  /\ UNCHANGED <<pod, deadLease, kv, meta, faulted, running, watch>>

NetDelete(r, ki) ==
  /\ ki \in net[r].purging
  /\ DeleteData(ki.key)
  /\ net' = [net EXCEPT ![r].purging = {}]
  /\ UNCHANGED <<pod, token, deadLease, faulted, running, watch>>

NetDeleteFails(r, ki) ==
  /\ ki \in net[r].purging
  /\ DeleteDataFails(ki.key)
  /\ net' = [net EXCEPT ![r].purging = {}]
  /\ UNCHANGED <<pod, token, deadLease, faulted, running, watch>>

NetEnds(r) ==
  /\ net[r].phase = "sweeping" /\ net[r].infos = {} /\ net[r].purging = {}
  /\ net' = [net EXCEPT ![r] = NoNet]
  /\ UNCHANGED <<platformVars, running, watch>>

-----------------------------------------------------------------------------
(* The watch goroutine *)

\* What the kube-apiserver reports to the open watches when p is deleted.
ReportDeletion(p) ==
  watch' = [r \in Revokers |->
              IF watch[r].on THEN [watch[r] EXCEPT !.events = @ \cup {p}] ELSE watch[r]]

\* A Deleted event is received: the uuids of the annotation are handled.
WatchDeleted(r, p) ==
  /\ WatchWaits(r) /\ p \in watch[r].events
  /\ watch' = [watch EXCEPT ![r].events = @ \ {p}, ![r].uuids = AnnotatedUuids(p)]
  /\ UNCHANGED <<platformVars, running, net>>

\* GetKeyInfo for the next uuid: found, or there is no data and it is skipped.
WatchGet(r, k) ==
  /\ k \in watch[r].uuids /\ watch[r].found = {} /\ watch[r].purging = {}
  /\ watch' = [watch EXCEPT ![r].uuids = @ \ {k}, ![r].found = GetKeyInfo(k)]
  /\ UNCHANGED <<platformVars, running, net>>

WatchGetFails(r, k) ==
  /\ k \in watch[r].uuids /\ watch[r].found = {} /\ watch[r].purging = {}
  /\ watch' = [watch EXCEPT ![r].uuids = @ \ {k}]
  /\ UNCHANGED <<platformVars, running, net>>

WatchRevoke(r, ki) ==
  /\ ki \in watch[r].found
  /\ RevokeToken(ki.token)
  /\ watch' = [watch EXCEPT ![r].found = {}, ![r].purging = {ki}]
  /\ UNCHANGED <<pod, deadLease, kv, meta, faulted, running, net>>

WatchRevokeFails(r, ki) ==
  /\ ki \in watch[r].found
  /\ RevokeTokenFails(ki.token)
  /\ watch' = [watch EXCEPT ![r].found = {}]
  /\ UNCHANGED <<pod, deadLease, kv, meta, faulted, running, net>>

WatchDelete(r, ki) ==
  /\ ki \in watch[r].purging
  /\ DeleteData(ki.key) \/ DeleteDataFails(ki.key)
  /\ watch' = [watch EXCEPT ![r].purging = {}]
  /\ UNCHANGED <<pod, token, deadLease, faulted, running, net>>

\* The watch channel closes and a new watch is opened, without a resource
\* version: deletions not received yet are never reported again.
WatchReopens(r) ==
  /\ WatchWaits(r)
  /\ watch' = [watch EXCEPT ![r] = NewWatch(TRUE)]
  /\ UNCHANGED <<platformVars, running, net>>

\* The new watch cannot be opened: the context of the whole job is cancelled.
WatchCancelsJob(r) ==
  /\ ~WatchRestarts
  /\ WatchWaits(r)
  /\ running' = [running EXCEPT ![r] = FALSE]
  /\ net' = [net EXCEPT ![r] = NoNet]
  /\ watch' = [watch EXCEPT ![r] = NewWatch(FALSE)]
  /\ UNCHANGED platformVars

\* The process exits, or stops leading and is restarted by its liveness probe,
\* and a new leader starts the job; its first watch may fail, which ends the
\* watch goroutine alone.
RestartRevoker(r) ==
  /\ running' = [running EXCEPT ![r] = TRUE]
  /\ net' = [net EXCEPT ![r] = NoNet]
  /\ \E on \in BOOLEAN : watch' = [watch EXCEPT ![r] = NewWatch(on)]
  /\ UNCHANGED platformVars

-----------------------------------------------------------------------------

RevokerTypeOK ==
  /\ running \in [Revokers -> BOOLEAN]
  /\ net \in [Revokers -> Nets]
  /\ watch \in [Revokers -> Watches]

RevokerInit ==
  /\ running = [r \in Revokers |-> TRUE]
  /\ net = [r \in Revokers |-> NoNet]
  /\ watch \in [Revokers -> {NewWatch(on) : on \in BOOLEAN}]

SafetyNetNext(r) ==
  \/ NetTick(r) \/ NetListPods(r) \/ NetGivesUp(r) \/ NetEnds(r)
  \/ \E k \in net[r].toRead : NetRead(r, k) \/ NetReadFails(r, k)
  \/ \E ki \in net[r].infos : NetRevoke(r, ki) \/ NetRevokeFails(r, ki)
  \/ \E ki \in net[r].purging : NetDelete(r, ki) \/ NetDeleteFails(r, ki)

WatchNext(r) ==
  \/ \E p \in watch[r].events : WatchDeleted(r, p)
  \/ \E k \in watch[r].uuids : WatchGet(r, k) \/ WatchGetFails(r, k)
  \/ \E ki \in watch[r].found : WatchRevoke(r, ki) \/ WatchRevokeFails(r, ki)
  \/ \E ki \in watch[r].purging : WatchDelete(r, ki)
  \/ WatchReopens(r) \/ WatchCancelsJob(r)

RevokerNext ==
  \E r \in Revokers : SafetyNetNext(r) \/ WatchNext(r) \/ RestartRevoker(r)
=============================================================================
