--------------------------- MODULE RenewerSeries ----------------------------
(***************************************************************************)
(* The metric series that the renewer's process exports per uuid, and what *)
(* takes them away again: the comparison of consecutive KV listings, the   *)
(* sync that misses the pod, and the purge of a dead lease. How a sync and *)
(* the revoker work in detail is in Renewer and Revoker.                   *)
(***************************************************************************)
EXTENDS FiniteSets

CONSTANT Uuids  \* the dbConfigurations of pods, one KV entry each

VARIABLES
  scheduled,  \* scheduled[u]: u's pod in the kube-apiserver
  kvEntry,    \* kvEntry[u]: its KV entry, "revoked" once the token it names is
  tracked,    \* the uuids of the last complete listing
  syncing,    \* the KeyInfos of the sync under way, or the goroutines it started
  series      \* the uuids with a series on /metrics

seriesVars == <<scheduled, kvEntry, tracked, syncing, series>>

-----------------------------------------------------------------------------
(* Pods, fetches and the revoker *)

\* A pod appears, or is gone.
PodComesAndGoes(u) ==
  /\ \/ scheduled[u] = "absent" /\ scheduled' = [scheduled EXCEPT ![u] = "live"]
     \/ scheduled[u] = "live" /\ scheduled' = [scheduled EXCEPT ![u] = "gone"]
  /\ UNCHANGED <<kvEntry, tracked, syncing, series>>

\* The write of an admission, of a fetch, however late, or the write-back of a sync.
EntryWritten(u) ==
  /\ kvEntry[u] \in {"none", "deleted"}
  /\ kvEntry' = [kvEntry EXCEPT ![u] = "stored"]
  /\ UNCHANGED <<scheduled, tracked, syncing, series>>

\* The revoker's HandlePodDeletionToken, in another process: this one's series
\* stay as they are.
RevokerHandles(u) ==
  /\ scheduled[u] # "live"
  /\ \/ kvEntry[u] = "stored" /\ kvEntry' = [kvEntry EXCEPT ![u] = "revoked"]
     \/ kvEntry[u] = "revoked" /\ kvEntry' = [kvEntry EXCEPT ![u] = "deleted"]
  /\ UNCHANGED <<scheduled, tracked, syncing, series>>

-----------------------------------------------------------------------------
(* The sync *)

Entries == {u \in Uuids : kvEntry[u] \in {"stored", "revoked"}}

Idle == [step |-> "idle", uuids |-> {}]

\* (variant) A partial listing is flushed and tracked like a complete one.
FlushVanishedAlways(infos, complete) ==
  /\ tracked' = infos
  /\ series' = series \ (tracked \ infos)

\* (variant) A partial listing is tracked.
TrackPartial(infos, complete) ==
  /\ tracked' = infos
  /\ series' = IF complete THEN series \ (tracked \ infos) ELSE series

\* flushVanished, which only a complete listing is given to.
FlushVanished(infos, complete) ==
  IF complete THEN /\ tracked' = infos
                   /\ series' = series \ (tracked \ infos)
              ELSE UNCHANGED <<tracked, series>>

\* ListKeyInfo with the KeyInfos it could read, and an error for the others or
\* for the LIST itself. Nothing read is the end of the sync.
ListEntries(infos, complete) ==
  /\ syncing.step = "idle"
  /\ complete => infos = Entries
  /\ FlushVanished(infos, complete)
  /\ syncing' = IF infos = {} THEN Idle ELSE [step |-> "listed", uuids |-> infos]
  /\ UNCHANGED <<scheduled, kvEntry>>

\* The pods are listed: one that is missing has its series flushed, the others
\* are renewed, each in a goroutine of its own.
ListPods ==
  /\ syncing.step = "listed"
  /\ LET live == {u \in syncing.uuids : scheduled[u] = "live"}
     IN  /\ syncing' = [step |-> "renewing", uuids |-> live]
         /\ series' = series \ (syncing.uuids \ live)
  /\ UNCHANGED <<scheduled, kvEntry, tracked>>

\* The listing fails, or the token TTL of the configuration is not valid.
SyncGivesUpOnPods ==
  /\ syncing.step = "listed"
  /\ syncing' = Idle
  /\ UNCHANGED <<scheduled, kvEntry, tracked, series>>

GoroutineEnds(u) ==
  /\ syncing.step = "renewing" /\ u \in syncing.uuids
  /\ syncing' = [syncing EXCEPT !.uuids = @ \ {u}]

\* RenewToken, RenewLease: a success or an error is counted under the uuid. A
\* token that was revoked meanwhile is "not found", and so is its lease: neither.
RenewTokenAndLease(u) ==
  /\ GoroutineEnds(u)
  /\ series' \in IF kvEntry[u] = "stored" THEN {series \cup {u}} ELSE {series \cup {u}, series}
  /\ UNCHANGED <<scheduled, kvEntry, tracked>>

\* The lease cannot be renewed any more: the entry is purged, and the series with
\* it once the entry could be deleted.
PurgeLease(u) ==
  /\ kvEntry[u] = "stored"
  /\ GoroutineEnds(u)
  /\ \/ kvEntry' = [kvEntry EXCEPT ![u] = "deleted"] /\ series' = series \ {u}
     \/ /\ \E left \in {"stored", "revoked"} : kvEntry' = [kvEntry EXCEPT ![u] = left]
        /\ series' = series \cup {u}
  /\ UNCHANGED <<scheduled, tracked>>

\* wg.Wait returns.
SyncDone ==
  /\ syncing.step = "renewing" /\ syncing.uuids = {}
  /\ syncing' = Idle
  /\ UNCHANGED <<scheduled, kvEntry, tracked, series>>

-----------------------------------------------------------------------------

SeriesTypeOK ==
  /\ scheduled \in [Uuids -> {"absent", "live", "gone"}]
  /\ kvEntry \in [Uuids -> {"none", "stored", "revoked", "deleted"}]
  /\ tracked \subseteq Uuids /\ series \subseteq Uuids
  /\ syncing \in [step : {"idle", "listed", "renewing"}, uuids : SUBSET Uuids]

SeriesInit ==
  /\ scheduled = [u \in Uuids |-> "absent"]
  /\ kvEntry = [u \in Uuids |-> "none"]
  /\ tracked = {} /\ series = {}
  /\ syncing = Idle

SeriesNext ==
  \/ \E u \in Uuids : \/ PodComesAndGoes(u) \/ EntryWritten(u) \/ RevokerHandles(u)
                      \/ RenewTokenAndLease(u) \/ PurgeLease(u)
  \/ \E infos \in SUBSET Entries, complete \in BOOLEAN : ListEntries(infos, complete)
  \/ ListPods \/ SyncGivesUpOnPods \/ SyncDone
=============================================================================
