--------------------------- MODULE WebhookIssuer ---------------------------
(***************************************************************************)
(* The mutating webhook as an issuer of credentials (cfg.NRI.Enabled is    *)
(* false): injectCredentialsIntoPod call by call, for a pod that the       *)
(* kube-apiserver does not know yet, and the asynchronous write of the KV  *)
(* bookkeeping entry. Each dbConfig gets a fresh uuid, which the mutated   *)
(* pod carries in its annotation.                                          *)
(***************************************************************************)
EXTENDS Platform

CONSTANT UseProjectedSA  \* cfg.UseProjectedSA

ASSUME WebhookIssuerAssumption ==
  UseProjectedSA \in BOOLEAN /\ Stamped = Pods /\ MaxTries = 1

VARIABLES
  adm,      \* adm[p]: the admission of p
  login,    \* login[p][d]: the injector's own login token for dbConfig d of p
            \* (legacy mode), used for the KV write too
  pending   \* the KeyInfos the StoreDataAsync goroutines have yet to write

issuerVars == <<adm, login, pending>>

-----------------------------------------------------------------------------

\* "authorize", "orphan", "creds": about to run authorizeDbAccess, to create
\* the orphan token, to read the credentials for dbConfig db; "mutated": every
\* dbConfig is done; "over": the response was sent.
AdmSteps == {"none", "authorize", "orphan", "creds", "mutated", "over"}

TokenOf(p, d) == [pod |-> p, db |-> d, try |-> 1]

\* liveConns: the dbConfigs whose authorizeDbAccess returned without error.
LiveConns(p) ==
  {d \in DbConfs :
     \/ adm[p].step = "mutated"
     \/ adm[p].step \in {"orphan", "creds"} /\ d <= adm[p].db
     \/ adm[p].step = "authorize" /\ d < adm[p].db}

-----------------------------------------------------------------------------

ReviewPod(p) ==
  /\ adm[p].step = "none" /\ pod[p] = "absent"
  /\ pod' = [pod EXCEPT ![p] = "admitting"]
  /\ adm' = [adm EXCEPT ![p].step = "authorize"]
  /\ UNCHANGED <<token, deadLease, kv, meta, faulted, login, pending>>

\* The Login of authorizeDbAccess: in projected mode its token is the one the
\* credentials will hang on, in legacy mode it is the injector's own.
TokensAfterLogin(p) ==
  IF UseProjectedSA THEN [token EXCEPT ![TokenOf(p, adm[p].db)] = "valid"] ELSE token

LoginsAfterLogin(p) ==
  IF UseProjectedSA THEN login ELSE [login EXCEPT ![p][adm[p].db] = "valid"]

Authorize(p) ==
  /\ adm[p].step = "authorize"
  /\ token' = TokensAfterLogin(p)
  /\ login' = LoginsAfterLogin(p)
  /\ adm' = [adm EXCEPT ![p].step = IF UseProjectedSA THEN "creds" ELSE "orphan"]
  /\ UNCHANGED <<pod, deadLease, kv, meta, faulted, pending>>

\* GetDbCredentials, first half (legacy only).
CreateOrphanToken(p) ==
  /\ adm[p].step = "orphan"
  /\ token' = [token EXCEPT ![TokenOf(p, adm[p].db)] = "valid"]
  /\ adm' = [adm EXCEPT ![p].step = "creds"]
  /\ UNCHANGED <<pod, deadLease, kv, meta, faulted, login, pending>>

\* (variant) The loop is left after the first dbConfig.
GetDbCredentialsFirstOnly(p) ==
  /\ adm[p].step = "creds"
  /\ pending' = pending \cup {NewKeyInfo(TokenOf(p, adm[p].db))}
  /\ adm' = [adm EXCEPT ![p].step = "mutated"]
  /\ UNCHANGED <<platformVars, login>>

\* Second half: the credentials are read and the KV write is fired.
GetDbCredentials(p) ==
  /\ adm[p].step = "creds"
  /\ pending' = pending \cup {NewKeyInfo(TokenOf(p, adm[p].db))}
  /\ adm' = [adm EXCEPT ![p] =
               IF @.db = NumDb THEN [@ EXCEPT !.step = "mutated"]
                               ELSE [step |-> "authorize", db |-> @.db + 1]]
  /\ UNCHANGED <<platformVars, login>>

\* The deferred cleanup of a failed admission: the pod-tokens are revoked in
\* projected mode, the injector's login tokens in legacy mode, and with these
\* the KV writes still under way; a revoke that fails is only logged.
Cleanup(p, tokens, logins) ==
  \E failed \in SUBSET LiveConns(p) :
    LET revoked == LiveConns(p) \ failed
    IN /\ faulted' = faulted \cup {TokenOf(p, d) : d \in failed}
       /\ IF UseProjectedSA
            THEN /\ token' = [t \in Tokens |->
                       IF t.pod = p /\ t.db \in revoked THEN "revoked" ELSE tokens[t]]
                 /\ UNCHANGED <<login, pending>>
            ELSE /\ login' = [logins EXCEPT ![p] = [d \in DbConfs |->
                       IF d \in revoked THEN "revoked" ELSE @[d]]]
                 /\ pending' = {ki \in pending :
                       ki.token.pod # p \/ ki.token.db \notin revoked}
                 /\ UNCHANGED token

\* The admission of p ends; the kube-apiserver, unless it stopped waiting
\* before, makes the pod's state s.
EndAdmission(p, s) ==
  /\ adm' = [adm EXCEPT ![p].step = "over"]
  /\ pod' = [pod EXCEPT ![p] = IF @ = "admitting" THEN s ELSE @]

\* A step returns an error and the pod is refused. When it is authorizeDbAccess,
\* its Login may have succeeded: that connector is not in liveConns. When it is
\* applyEnvToContainers, the KV write of the dbConfig is on its way already.
FailAdmission(p) ==
  /\ adm[p].step \in {"authorize", "orphan", "creds", "mutated"}
  /\ \/ Cleanup(p, token, login)
     \/ /\ adm[p].step = "authorize"
        /\ Cleanup(p, TokensAfterLogin(p), LoginsAfterLogin(p))
  /\ EndAdmission(p, "gone")
  /\ UNCHANGED <<deadLease, kv, meta>>

\* (variant) The deferred cleanup does not ask for the outcome.
RespondCleansUp(p) ==
  /\ adm[p].step = "mutated"
  /\ Cleanup(p, token, login)
  /\ \E s \in {"live", "gone"} : EndAdmission(p, s)
  /\ UNCHANGED <<deadLease, kv, meta>>

\* The patch is returned. The kube-apiserver creates the pod, or a later
\* admission step refuses it.
Respond(p) ==
  /\ adm[p].step = "mutated"
  /\ \E s \in {"live", "gone"} : EndAdmission(p, s)
  /\ UNCHANGED <<token, deadLease, kv, meta, faulted, login, pending>>

\* The kube-apiserver gives up on the webhook, which carries on.
AdmissionTimesOut(p) ==
  /\ pod[p] = "admitting"
  /\ pod' = [pod EXCEPT ![p] = "gone"]
  /\ UNCHANGED <<token, deadLease, kv, meta, faulted, adm, login, pending>>

StoreLands(ki) ==
  /\ ki \in pending
  /\ pending' = pending \ {ki}
  /\ StoreData(ki)
  /\ UNCHANGED <<pod, token, deadLease, faulted, adm, login>>

StoreIsLost(ki) ==
  /\ ki \in pending
  /\ pending' = pending \ {ki}
  /\ StoreDataFails(ki)
  /\ faulted' = faulted \cup {ki.token}
  /\ UNCHANGED <<pod, token, deadLease, adm, login>>

\* The injector process exits: admissions under way fail without a cleanup.
RestartInjector ==
  LET cut == {p \in Pods : adm[p].step \notin {"none", "over"}}
  IN /\ adm' = [p \in Pods |-> IF p \in cut THEN [adm[p] EXCEPT !.step = "over"] ELSE adm[p]]
     /\ pod' = [p \in Pods |-> IF p \in cut THEN "gone" ELSE pod[p]]
     /\ pending' = {}
     /\ faulted' = faulted \cup {ki.token : ki \in pending}
                          \cup UNION {{TokenOf(p, d) : d \in LiveConns(p)} : p \in cut}
     /\ UNCHANGED <<token, deadLease, kv, meta, login>>

-----------------------------------------------------------------------------

IssuerTypeOK ==
  /\ adm \in [Pods -> [step : AdmSteps, db : DbConfs]]
  /\ login \in [Pods -> [DbConfs -> {"none", "valid", "revoked"}]]
  /\ pending \subseteq KeyInfo

IssuerInit ==
  /\ adm = [p \in Pods |-> [step |-> "none", db |-> 1]]
  /\ login = [p \in Pods |-> [d \in DbConfs |-> "none"]]
  /\ pending = {}

IssuerNext ==
  \/ \E p \in Pods :
       \/ ReviewPod(p) \/ Authorize(p) \/ CreateOrphanToken(p) \/ GetDbCredentials(p)
       \/ FailAdmission(p) \/ Respond(p) \/ AdmissionTimesOut(p)
  \/ \E ki \in pending : StoreLands(ki) \/ StoreIsLost(ki)
  \/ RestartInjector
=============================================================================
