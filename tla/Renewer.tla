------------------------------ MODULE Renewer ------------------------------
(***************************************************************************)
(* The renewer's synchronization (RenewTokenJob and SyncAndCleanupTokens): *)
(* list the KV entries, list the pods, then one goroutine per entry that   *)
(* renews, purges or rewrites it. Several renewers are replicas of which   *)
(* an old leader may still be inside a sync when the next one starts.      *)
(***************************************************************************)
EXTENDS Platform

CONSTANT Renewers

VARIABLE sync  \* sync[r]: the sync renewer r is in

renewerVars == <<sync>>

-----------------------------------------------------------------------------

\* What the goroutine of one KeyInfo does next.
JobSteps == {"renewToken", "renewLease", "revoke", "delete", "store"}

Jobs == [ki : KeyInfo, step : JobSteps]

\* "reading": ListKeyInfo has the keys and reads them one by one;
\* "syncing": the goroutines of SyncAndCleanupTokens run.
Syncs == [phase : {"idle", "reading", "syncing"},
          toRead : SUBSET Keys, infos : SUBSET KeyInfo, jobs : SUBSET Jobs]

NoSync == [phase |-> "idle", toRead |-> {}, infos |-> {}, jobs |-> {}]

\* Goroutine j of r goes on with the next step, or ends.
GoOn(r, j, step) ==
  sync' = [sync EXCEPT ![r].jobs = (@ \ {j}) \cup {[j EXCEPT !.step = step]}]

End(r, j) == sync' = [sync EXCEPT ![r].jobs = @ \ {j}]

Running(r, j, step) == j \in sync[r].jobs /\ j.step = step

-----------------------------------------------------------------------------
(* RenewTokenJob: a tick, and ListKeyInfo *)

\* The ticker fires; the keys are listed. A LIST that fails ends the sync.
SyncTick(r) ==
  /\ sync[r].phase = "idle"
  /\ sync' = [sync EXCEPT ![r].phase = "reading", ![r].toRead = meta]
  /\ UNCHANGED platformVars

\* The read of one key: its KeyInfo, or nothing when it has no data (any more).
SyncRead(r, k) ==
  /\ sync[r].phase = "reading" /\ k \in sync[r].toRead
  /\ sync' = [sync EXCEPT ![r].toRead = @ \ {k}, ![r].infos = @ \cup GetKeyInfo(k)]
  /\ UNCHANGED platformVars

\* The read fails: the listing is partial, and used all the same.
SyncReadFails(r, k) ==
  /\ sync[r].phase = "reading" /\ k \in sync[r].toRead
  /\ sync' = [sync EXCEPT ![r].toRead = @ \ {k}]
  /\ UNCHANGED platformVars

\* GetAllPodAndNamespace; entries without a listed pod need no Vault call.
SyncListPods(r) ==
  /\ sync[r].phase = "reading" /\ sync[r].toRead = {} /\ sync[r].infos # {}
  /\ PodListOk
  /\ sync' = [sync EXCEPT
       ![r] = [phase |-> "syncing", toRead |-> {}, infos |-> {},
               jobs |-> [ki : {i \in sync[r].infos : i.key \in ListedUuids},
                         step : {"renewToken"}]]]
  /\ UNCHANGED platformVars

\* Nothing was listed, or the pods could not be: the sync is over.
SyncGivesUp(r) ==
  /\ sync[r].phase = "reading" /\ sync[r].toRead = {}
  /\ sync' = [sync EXCEPT ![r] = NoSync]
  /\ UNCHANGED platformVars

\* wg.Wait returns.
SyncEnds(r) ==
  /\ sync[r].phase = "syncing" /\ sync[r].jobs = {}
  /\ sync' = [sync EXCEPT ![r] = NoSync]
  /\ UNCHANGED platformVars

\* The process exits or stops leading; a sync under way is not resumed.
RenewerStops(r) ==
  /\ sync[r].phase # "idle"
  /\ sync' = [sync EXCEPT ![r] = NoSync]
  /\ UNCHANGED platformVars

-----------------------------------------------------------------------------
(* SyncAndCleanupTokens: the goroutine of one entry whose pod was listed *)

\* A token Vault no longer knows is not an error.
RenewToken(r, j) ==
  /\ Running(r, j, "renewToken")
  /\ GoOn(r, j, "renewLease")
  /\ UNCHANGED platformVars

RenewTokenFails(r, j) ==
  /\ Running(r, j, "renewToken")
  /\ End(r, j)
  /\ UNCHANGED platformVars

\* The lease is renewed, or Vault answers that there is no such lease, which is
\* not an error. An entry without names gets them, with the KeyInfo of the sync.
RenewLease(r, j) ==
  /\ Running(r, j, "renewLease")
  /\ j.ki.token \notin deadLease \/ token[j.ki.token] = "revoked"
  /\ IF j.ki.full THEN End(r, j) ELSE GoOn(r, j, "store")
  /\ UNCHANGED platformVars

\* (variant) Any error of the lease renewal leads to a purge.
LeaseErrorPurges(r, j) ==
  /\ Running(r, j, "renewLease")
  /\ GoOn(r, j, "revoke")
  /\ UNCHANGED platformVars

\* HTTP 400 "invalid lease" or "could not find role": unrecoverable.
LeaseUnrecoverable(r, j) ==
  /\ Running(r, j, "renewLease")
  /\ j.ki.token \in deadLease \/ token[j.ki.token] = "revoked"
  /\ GoOn(r, j, "revoke")
  /\ UNCHANGED platformVars

RenewLeaseFails(r, j) ==
  /\ Running(r, j, "renewLease")
  /\ End(r, j)
  /\ UNCHANGED platformVars

\* The purge: revoke, best effort, then delete the entry.
PurgeRevoke(r, j) ==
  /\ Running(r, j, "revoke")
  /\ RevokeToken(j.ki.token)
  /\ GoOn(r, j, "delete")
  /\ UNCHANGED <<pod, deadLease, kv, meta, faulted>>

PurgeRevokeFails(r, j) ==
  /\ Running(r, j, "revoke")
  /\ RevokeTokenFails(j.ki.token)
  /\ faulted' = faulted \cup {j.ki.token}
  /\ GoOn(r, j, "delete")
  /\ UNCHANGED <<pod, deadLease, kv, meta>>

PurgeDelete(r, j) ==
  /\ Running(r, j, "delete")
  /\ DeleteData(j.ki.key) \/ DeleteDataFails(j.ki.key)
  /\ End(r, j)
  /\ UNCHANGED <<pod, token, deadLease, faulted>>

\* The entry is rewritten with the names the pod listing gave: all of them, or
\* not yet the node's. An error is only logged.
StoreNames(r, j) ==
  \E full \in BOOLEAN :
    LET fullKiInfo == [j.ki EXCEPT !.full = full]
    IN /\ Running(r, j, "store")
       /\ StoreData(fullKiInfo) \/ StoreDataFails(fullKiInfo)
       /\ End(r, j)
       /\ UNCHANGED <<pod, token, deadLease, faulted>>

-----------------------------------------------------------------------------

RenewerTypeOK == sync \in [Renewers -> Syncs]

RenewerInit == sync = [r \in Renewers |-> NoSync]

RenewerNext ==
  \E r \in Renewers :
    \/ SyncTick(r) \/ SyncListPods(r) \/ SyncGivesUp(r) \/ SyncEnds(r) \/ RenewerStops(r)
    \/ \E k \in sync[r].toRead : SyncRead(r, k) \/ SyncReadFails(r, k)
    \/ \E j \in sync[r].jobs :
         \/ RenewToken(r, j) \/ RenewTokenFails(r, j)
         \/ RenewLease(r, j) \/ LeaseUnrecoverable(r, j) \/ RenewLeaseFails(r, j)
         \/ PurgeRevoke(r, j) \/ PurgeRevokeFails(r, j) \/ PurgeDelete(r, j)
         \/ StoreNames(r, j)
=============================================================================
