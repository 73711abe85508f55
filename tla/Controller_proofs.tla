--------------------------- MODULE Controller_proofs ---------------------------
(***************************************************************************)
(* Proofs about Controller: the types, the login token of a job, the       *)
(* bookkeeping token a write uses, and the metric series of live pods, for *)
(* any number of replicas, backoffs, writers and uuids and any token ttl.  *)
(* A component's variables are changed by its own actions and by           *)
(* GoesDown alone, gctx by those of the agent and the injector besides: so *)
(* each conjunct of the invariant is taken through the steps of its own    *)
(* component, and the steps of the others leave what it reads alone.       *)
(***************************************************************************)
EXTENDS Controller, TLAPS

\* The parts of the invariant that TypeOK does not hold by itself without, those
\* about the schedule of the stub included.
CInv == TypeOK /\ ControllerInv /\ LoginNotRevoked

LEMMA MainIsReplica == Main \in Replicas
BY ProcessesAssumption

-----------------------------------------------------------------------------
(* Processes *)

\* A process that goes down leaves well-typed variables (controller.go, main.go).
LEMMA ProcessesTypeKeptDown ==
  ASSUME ProcessesTypeOK, NEW r \in Replicas, GoesDown(r)
  PROVE  ProcessesTypeOK'
BY DEF ProcessesTypeOK, GoesDown

\* Every step leaves the state of the processes well typed (controller.go, main.go).
LEMMA ProcessesTypeKept ==
  ASSUME ProcessesTypeOK, Next
  PROVE  ProcessesTypeOK'
<1>1. CASE ProcessesNext
  <2> PICK r \in Replicas : HealthCheckStops(r) \/ HealthCheckFails(r) \/ MetricsFail(r) \/ Terminate(r)
    BY <1>1 DEF ProcessesNext
  <2> QED
    BY DEF ProcessesTypeOK, HealthCheckStops, HealthCheckFails, MetricsFail, Terminate
<1>2. CASE LeadershipNext
  BY <1>2 DEF LeadershipNext, ProcessesTypeOK, processVars, LeaseExpires, StartLeading, StopLeading,
     JobLogsIn, JobStops, LoginExpires, RenewSelfFails, Reconnect, ReconnectFails, RevokeOld,
     RenewalStops
<1>3. CASE AgentNext
  BY <1>3, MainIsReplica DEF AgentNext, ProcessesTypeOK, processVars, Build, BuildFails, Connect,
     RunReturns, Exhausted, BackOff, Reattempt, ReturnOnShutdown, AgentCtxDone, Shutdown,
     ShutdownReturns, AgentReturns
<1>4. CASE InjectorNext
  BY <1>4, MainIsReplica DEF InjectorNext, ProcessesTypeOK, processVars, RunAfterFunc,
     StartWebhookFails, StartWebhook, SupervisorCloses, SupervisorShutsDown, MemberReturns,
     ServerFails, SendError, ServerCloses
<1>5. CASE UNCHANGED processVars
  BY <1>5 DEF processVars, ProcessesTypeOK
<1>6. ASSUME NEW r \in Replicas, Start(r) PROVE ProcessesTypeOK'
  BY <1>6 DEF Start, ProcessesTypeOK
<1>7. ASSUME NEW r \in Replicas, GoesDown(r) PROVE ProcessesTypeOK'
  BY <1>7, ProcessesTypeKeptDown
<1> QED
  BY <1>1, <1>2, <1>3, <1>4, <1>5, <1>6, <1>7, MainIsReplica DEF Next, Exit, Crash, Kill, Panic

-----------------------------------------------------------------------------
(* Leadership *)

\* A step of the election, of a job or of the renewal of its token leaves the
\* variables well typed (leadership.go, StartTokenRenewal).
LEMMA LeadershipTypeKeptWithin ==
  ASSUME LeadershipTypeOK, LeadershipNext
  PROVE  LeadershipTypeOK'
<1>1. CASE LeaseExpires
  BY <1>1 DEF LeaseExpires, LeadershipTypeOK
<1> SUFFICES ASSUME NEW r \in Replicas,
                    \/ StartLeading(r) \/ StopLeading(r) \/ JobLogsIn(r) \/ JobStops(r)
                    \/ LoginExpires(r) \/ RenewSelfFails(r) \/ Reconnect(r) \/ ReconnectFails(r)
                    \/ RevokeOld(r) \/ RenewalStops(r)
             PROVE  LeadershipTypeOK'
  BY <1>1 DEF LeadershipNext
<1>0. login[r] \in Logins
  BY DEF LeadershipTypeOK
<1>2. CASE StartLeading(r)
  BY <1>2 DEF StartLeading, LeadershipTypeOK
<1>3. CASE StopLeading(r)
  <2>1. lease \ {r} \in {{}} \cup {{q} : q \in Replicas}
    <3>1. CASE lease = {}
      BY <3>1
    <3>2. CASE lease # {}
      <4> PICK q \in Replicas : lease = {q}
        BY <3>2 DEF LeadershipTypeOK
      <4> QED
        BY Zenon
    <3> QED
      BY <3>1, <3>2
  <2> QED
    BY <1>3, <2>1 DEF StopLeading, LeadershipTypeOK
<1>4. ASSUME NEW l \in Logins, login' = [login EXCEPT ![r] = l],
             job' \in [Replicas -> {"none", "starting", "running", "ended"}],
             UNCHANGED <<lease, role, healthy>>
      PROVE  LeadershipTypeOK'
  BY <1>4 DEF LeadershipTypeOK
<1>5. CASE JobLogsIn(r)
  <2>1. [held |-> "valid", renewal |-> "ticking"] \in Logins
    BY DEF Logins, TokenStates
  <2> QED
    BY <1>5, <2>1, <1>4 DEF JobLogsIn, LeadershipTypeOK
<1>6. CASE JobStops(r)
  <2> PICK ok \in BOOLEAN :
         login' = [login EXCEPT ![r].held = IF ok /\ @ = "valid" THEN "revoked" ELSE @]
    BY <1>6 DEF JobStops
  <2> DEFINE l == [login[r] EXCEPT !.held = IF ok /\ @ = "valid" THEN "revoked" ELSE @]
  <2>1. l \in Logins
    BY <1>0 DEF Logins, TokenStates
  <2>2. login' = [login EXCEPT ![r] = l]
    BY DEF LeadershipTypeOK
  <2> HIDE DEF l
  <2> QED
    BY <1>6, <2>1, <2>2, <1>4 DEF JobStops, LeadershipTypeOK
<1>7. CASE LoginExpires(r)
  <2> DEFINE l == [login[r] EXCEPT !.held = "expired"]
  <2>1. l \in Logins
    BY <1>0 DEF Logins, TokenStates
  <2>2. login' = [login EXCEPT ![r] = l]
    BY <1>7 DEF LoginExpires, LeadershipTypeOK
  <2> HIDE DEF l
  <2> QED
    BY <1>7, <2>1, <2>2, <1>4 DEF LoginExpires, LeadershipTypeOK
<1>8. CASE Reconnect(r)
  <2>1. [held |-> "valid", renewal |-> "revoking"] \in Logins
    BY DEF Logins, TokenStates
  <2> QED
    BY <1>8, <2>1, <1>4 DEF Reconnect, LeadershipTypeOK
<1>9. ASSUME NEW s \in {"none", "ticking", "reconnecting", "revoking"},
             login' = [login EXCEPT ![r].renewal = s], UNCHANGED <<lease, role, healthy, job>>
      PROVE  LeadershipTypeOK'
  <2> DEFINE l == [login[r] EXCEPT !.renewal = s]
  <2>1. l \in Logins
    BY <1>0 DEF Logins, TokenStates
  <2>2. login' = [login EXCEPT ![r] = l]
    BY <1>9 DEF LeadershipTypeOK
  <2> HIDE DEF l
  <2> QED
    BY <1>9, <2>1, <2>2, <1>4 DEF LeadershipTypeOK
<1>10. CASE RenewSelfFails(r)
  BY <1>9, <1>10 DEF RenewSelfFails
<1>11. CASE ReconnectFails(r)
  BY <1>9, <1>11 DEF ReconnectFails
<1>12. CASE RevokeOld(r)
  BY <1>9, <1>12 DEF RevokeOld
<1>13. CASE RenewalStops(r)
  BY <1>9, <1>13 DEF RenewalStops
<1> QED
  BY <1>2, <1>3, <1>5, <1>6, <1>7, <1>8, <1>10, <1>11, <1>12, <1>13

\* Every step leaves the election, the jobs and their tokens well typed
\* (leadership.go, controller.go).
LEMMA LeadershipTypeKept ==
  ASSUME LeadershipTypeOK, Next
  PROVE  LeadershipTypeOK'
<1>1. CASE LeadershipNext
  BY <1>1, LeadershipTypeKeptWithin
<1>2. CASE UNCHANGED leaderVars
  BY <1>2 DEF leaderVars, LeadershipTypeOK
<1>3. ASSUME NEW r \in Replicas, Start(r) PROVE LeadershipTypeOK'
  BY <1>3 DEF Start, LeadershipTypeOK
<1>4. ASSUME NEW r \in Replicas, GoesDown(r) PROVE LeadershipTypeOK'
  <2>1. NoLogin \in Logins
    BY DEF NoLogin, Logins, TokenStates
  <2> QED
    BY <1>4, <2>1 DEF GoesDown, LeadershipTypeOK
<1> QED
  BY <1>1, <1>2, <1>3, <1>4, MainIsReplica DEF Next, Exit, Crash, Kill, Panic

\* A job that runs holds a token its process has not revoked: only the job itself
\* revokes the token it holds, and it ends with that (JobStops; RevokeSelfToken).
LEMMA LoginNotRevokedKept ==
  ASSUME LeadershipTypeOK, LoginNotRevoked, Next
  PROVE  LoginNotRevoked'
<1>1. CASE LeadershipNext
  <2>1. CASE LeaseExpires
    BY <1>1, <2>1 DEF LeaseExpires, LoginNotRevoked
  <2> SUFFICES ASSUME NEW r \in Replicas,
                      \/ StartLeading(r) \/ StopLeading(r) \/ JobLogsIn(r) \/ JobStops(r)
                      \/ LoginExpires(r) \/ RenewSelfFails(r) \/ Reconnect(r) \/ ReconnectFails(r)
                      \/ RevokeOld(r) \/ RenewalStops(r),
                      NEW q \in Replicas, job'[q] = "running"
               PROVE  login'[q].held # "revoked"
    BY <1>1, <2>1 DEF LeadershipNext, LoginNotRevoked
  <2>2. login[q] \in Logins /\ login \in [Replicas -> Logins] /\ login[r] \in Logins
    BY DEF LeadershipTypeOK
  <2>3. CASE q # r
    <3>1. login'[q] = login[q]
      BY <2>2, <2>3 DEF StartLeading, StopLeading, JobLogsIn, JobStops, LoginExpires,
         RenewSelfFails, Reconnect, ReconnectFails, RevokeOld, RenewalStops
    <3>2. job'[q] = job[q]
      BY <2>3 DEF LeadershipTypeOK, StartLeading, StopLeading, JobLogsIn, JobStops, LoginExpires,
         RenewSelfFails, Reconnect, ReconnectFails, RevokeOld, RenewalStops
    <3> QED
      BY <3>1, <3>2 DEF LoginNotRevoked
  <2>4. CASE q = r
    <3>1. CASE StartLeading(r) \/ JobStops(r)
      BY <3>1, <2>4 DEF StartLeading, JobStops, LeadershipTypeOK
    <3>2. CASE JobLogsIn(r) \/ Reconnect(r) \/ LoginExpires(r)
      BY <3>2, <2>2, <2>4 DEF JobLogsIn, Reconnect, LoginExpires, Logins
    <3>3. CASE \/ StopLeading(r) \/ RenewSelfFails(r) \/ ReconnectFails(r)
               \/ RevokeOld(r) \/ RenewalStops(r)
      <4>1. login'[r].held = login[r].held
        BY <3>3, <2>2 DEF StopLeading, RenewSelfFails, ReconnectFails, RevokeOld, RenewalStops, Logins
      <4>2. job' = job
        BY <3>3 DEF StopLeading, RenewSelfFails, ReconnectFails, RevokeOld, RenewalStops
      <4> QED
        BY <4>1, <4>2, <2>4 DEF LoginNotRevoked
    <3> QED
      BY <3>1, <3>2, <3>3
  <2> QED
    BY <2>3, <2>4
<1>2. CASE UNCHANGED leaderVars
  BY <1>2 DEF leaderVars, LoginNotRevoked
<1>3. ASSUME NEW r \in Replicas, Start(r) PROVE LoginNotRevoked'
  BY <1>3 DEF Start, LoginNotRevoked
<1>4. ASSUME NEW r \in Replicas, GoesDown(r) PROVE LoginNotRevoked'
  BY <1>4 DEF GoesDown, LoginNotRevoked, LeadershipTypeOK, NoLogin
<1> QED
  BY <1>1, <1>2, <1>3, <1>4, MainIsReplica DEF Next, Exit, Crash, Kill, Panic

-----------------------------------------------------------------------------
(* The NRI agent *)

\* The steps of the agent leave its variables well typed, attempt included: no
\* wait begins after the last of the schedule (stub_lifecycle.go, run).
LEMMA AgentTypeKeptWithin ==
  ASSUME AgentTypeOK, BackoffsLeft, AgentNext
  PROVE  AgentTypeOK' /\ BackoffsLeft'
<1>0. Backoffs \in Nat
  BY StubLifecycleAssumption
<1>1. attempt \in 0..Backoffs /\ run \in RunSteps
  BY DEF AgentTypeOK
<1>2. CASE Build
  BY <1>0, <1>2 DEF Build, AgentTypeOK, BackoffsLeft, Stubs, RunSteps
<1>3. CASE BackOff
  BY <1>0, <1>1, <1>3 DEF BackOff, AgentTypeOK, BackoffsLeft, RunSteps
<1>4. CASE Reattempt
  <2>1. attempt + 1 \in 0..Backoffs
    BY <1>0, <1>1, <1>4 DEF Reattempt, BackoffsLeft
  <2> QED
    BY <1>4, <2>1 DEF Reattempt, AgentTypeOK, BackoffsLeft, RunSteps
<1>5. CASE Shutdown
  BY <1>5 DEF Shutdown, AgentTypeOK, BackoffsLeft
<1>6. CASE BuildFails \/ Connect \/ RunReturns \/ Exhausted \/ ReturnOnShutdown
  BY <1>6 DEF BuildFails, Connect, RunReturns, Exhausted, ReturnOnShutdown, AgentTypeOK,
     BackoffsLeft, RunSteps
<1>7. CASE AgentCtxDone \/ ShutdownReturns \/ AgentReturns
  BY <1>7 DEF AgentCtxDone, ShutdownReturns, AgentReturns, agentVars, AgentTypeOK, BackoffsLeft
<1> QED
  BY <1>2, <1>3, <1>4, <1>5, <1>6, <1>7 DEF AgentNext

\* Every step leaves the state of the stub and of the sidecar well typed
\* (stub_lifecycle.go, runner.go).
LEMMA AgentTypeKept ==
  ASSUME AgentTypeOK, BackoffsLeft, Next
  PROVE  AgentTypeOK' /\ BackoffsLeft'
<1>1. CASE AgentNext
  BY <1>1, AgentTypeKeptWithin
<1>2. CASE UNCHANGED agentVars
  BY <1>2 DEF agentVars, AgentTypeOK, BackoffsLeft
<1>3. ASSUME NEW r \in Replicas, Start(r) PROVE AgentTypeOK' /\ BackoffsLeft'
  BY <1>3 DEF Start, AgentTypeOK, BackoffsLeft, RunSteps
<1>4. ASSUME NEW r \in Replicas, GoesDown(r) PROVE AgentTypeOK' /\ BackoffsLeft'
  <2>1. 0 \in 0..Backoffs
    BY StubLifecycleAssumption
  <2> QED
    BY <1>4, <2>1 DEF GoesDown, AgentTypeOK, BackoffsLeft, RunSteps
<1> QED
  BY <1>1, <1>2, <1>3, <1>4, MainIsReplica DEF Next, Exit, Crash, Kill, Panic

-----------------------------------------------------------------------------
(* The injector's servers *)

\* Every step leaves the servers, their supervisor and stopChan well typed
\* (injector.go, controller.go).
LEMMA InjectorTypeKept ==
  ASSUME InjectorTypeOK, Next
  PROVE  InjectorTypeOK'
<1>1. CASE InjectorNext
  <2>1. CASE RunAfterFunc \/ StartWebhookFails \/ SupervisorCloses
    BY <2>1 DEF RunAfterFunc, StartWebhookFails, SupervisorCloses, CloseStopChan, InjectorTypeOK
  <2>2. CASE StartWebhook \/ MemberReturns
    BY <2>2 DEF StartWebhook, MemberReturns, InjectorTypeOK
  <2>3. CASE SupervisorShutsDown
    BY <2>3 DEF SupervisorShutsDown, InjectorTypeOK, Servers
  <2>4. ASSUME NEW s \in Servers, ServerFails(s) \/ SendError(s) \/ ServerCloses(s)
        PROVE  InjectorTypeOK'
    BY <2>4 DEF ServerFails, SendError, ServerCloses, CloseStopChan, InjectorTypeOK
  <2> QED
    BY <1>1, <2>1, <2>2, <2>3, <2>4 DEF InjectorNext
<1>2. CASE UNCHANGED injectorVars
  BY <1>2 DEF injectorVars, InjectorTypeOK
<1>3. ASSUME NEW r \in Replicas, GoesDown(r) PROVE InjectorTypeOK'
  BY <1>3 DEF GoesDown, InjectorTypeOK
<1> QED
  BY <1>1, <1>2, <1>3, MainIsReplica DEF Next, Start, Exit, Crash, Kill, Panic

-----------------------------------------------------------------------------
(* The bookkeeping token cache *)

\* What the steps of the cache read of its constants.
LEMMA TimesFacts ==
  /\ TokenTtl \in Nat /\ TokenTtl > 0
  /\ Times = 0..(6 + TokenTtl)
  /\ 0 \in Times /\ 6 \in Times /\ TokenTtl \in Times /\ TokenTtl - 1 \in Times
  /\ \A n \in Times : Older(n) \in Times
<1>1. TokenTtl \in Nat /\ TokenTtl > 0
  BY BookkeepingTokenCacheAssumption
<1> QED
  BY <1>1 DEF Times, Validity, Older

BookInv == BookTypeOK /\ EntryWithinTtl

\* Sharing a well-typed answer leaves the flight and its callers well typed
\* (bookkeeping_cache.go, Get).
LEMMA ShareKeepsTypes ==
  ASSUME BookTypeOK, NEW answer \in [step : {"idle", "writing"}, life : Times], Share(answer)
  PROVE  /\ refresh' = [step |-> "none", life |-> 0]
         /\ refresh' \in [step : {"none", "checking", "login"}, life : Times]
         /\ writer' \in [Writers -> [step : {"idle", "waiting", "writing"}, life : Times]]
<1>1. 0 \in Times
  BY TimesFacts
<1>2. \A w \in Writers : writer[w] \in [step : {"idle", "waiting", "writing"}, life : Times]
  BY DEF BookTypeOK
<1> QED
  BY <1>1, <1>2 DEF Share

\* A step of the cache leaves it well typed, and the cached token dies no more than
\* a step before the cache lets go of it, if a login's ttl is no shorter than the
\* cache's validity (bookkeeping_cache.go).
LEMMA BookInvKeptWithin ==
  ASSUME BookInv, BookNext
  PROVE  BookInv'
<1>0. /\ entry \in Tokens /\ entry.left \in Times /\ entry.life \in Times
      /\ refresh \in [step : {"none", "checking", "login"}, life : Times]
      /\ writer \in [Writers -> [step : {"idle", "waiting", "writing"}, life : Times]]
  BY DEF BookInv, BookTypeOK, Tokens
<1>00. BookTypeOK /\ EntryWithinTtl
  BY DEF BookInv
<1>1. ASSUME entry' = entry, refresh' = [step |-> "none", life |-> 0]
      PROVE  EntryWithinTtl'
  BY <1>1, <1>00 DEF EntryWithinTtl
<1>2. CASE Refresh
  <2>1. CASE Fresh
    <3>1. [step |-> "writing", life |-> entry.life] \in [step : {"idle", "writing"}, life : Times]
      BY <1>0
    <3> QED
      BY <1>2, <2>1, <3>1, <1>00, <1>0, <1>1, ShareKeepsTypes DEF Refresh, BookInv, BookTypeOK
  <2>2. CASE ~Fresh
    <3>1. refresh' = [step |-> "login", life |-> TokenTtl] /\ UNCHANGED <<entry, writer>>
      BY <1>2, <2>2 DEF Refresh
    <3> QED
      BY <3>1, <1>0, <1>00, TimesFacts DEF BookInv, BookTypeOK, EntryWithinTtl
  <2> QED
    BY <2>1, <2>2
<1>3. CASE LoginFails
  <2>1. [step |-> "idle", life |-> 0] \in [step : {"idle", "writing"}, life : Times]
    BY TimesFacts
  <2> QED
    BY <1>3, <2>1, <1>00, <1>0, <1>1, ShareKeepsTypes DEF LoginFails, BookInv, BookTypeOK
<1>4. CASE LoginAnswers
  <2>1. [step |-> "writing", life |-> refresh.life] \in [step : {"idle", "writing"}, life : Times]
    BY <1>0
  <2>2. refresh.life \in {TokenTtl - 1, TokenTtl}
    BY <1>4, <1>00 DEF LoginAnswers, EntryWithinTtl
  <2>3. entry' = [left |-> 6, life |-> refresh.life] /\ entry' \in Tokens
    BY <1>0, <1>4, TimesFacts DEF LoginAnswers, Tokens, Validity
  <2>4. TokenTtl >= Validity => entry'.life >= entry'.left - 1
    BY <2>2, <2>3, TimesFacts DEF Validity
  <2> QED
    BY <1>4, <2>1, <2>3, <2>4, <1>00, ShareKeepsTypes
    DEF LoginAnswers, BookInv, BookTypeOK, EntryWithinTtl
<1>5. CASE Tick
  <2>1. entry' = [left |-> Older(entry.left), life |-> Older(entry.life)] /\ entry' \in Tokens
    BY <1>0, <1>5, TimesFacts DEF Tick, Tokens
  <2>2. refresh' = [step |-> refresh.step, life |-> Older(refresh.life)]
    BY <1>0, <1>5 DEF Tick
  <2>3. refresh' \in [step : {"none", "checking", "login"}, life : Times]
    BY <1>0, <2>2, TimesFacts
  <2>4. IF refresh'.step = "login" THEN refresh'.life \in {TokenTtl - 1, TokenTtl}
                                   ELSE refresh'.life = 0
    <3>1. CASE refresh.step = "login"
      <4>1. refresh.life \in {0, TokenTtl} /\ refresh.life \in {TokenTtl - 1, TokenTtl}
        BY <1>5, <1>00, <3>1 DEF Tick, EntryWithinTtl
      <4> QED
        BY <2>2, <3>1, <4>1, TimesFacts DEF Older
    <3>2. CASE refresh.step # "login"
      BY <2>2, <3>2, <1>00 DEF EntryWithinTtl, Older
    <3> QED
      BY <3>1, <3>2
  <2>5. TokenTtl >= Validity => entry'.life >= entry'.left - 1
    BY <1>0, <1>00, <2>1, TimesFacts DEF EntryWithinTtl, Older
  <2>6. writer' = writer
    BY <1>5 DEF Tick
  <2> QED
    BY <1>0, <2>1, <2>3, <2>4, <2>5, <2>6 DEF BookInv, BookTypeOK, EntryWithinTtl
<1>6. ASSUME NEW w \in Writers, Get(w) PROVE BookInv'
  <2>1. entry' = entry
    BY <1>6 DEF Get
  <2>2. writer' \in [Writers -> [step : {"idle", "waiting", "writing"}, life : Times]]
    BY <1>0, <1>6, TimesFacts DEF Get
  <2>3. \/ refresh' = refresh
        \/ refresh.step = "none" /\ refresh' = [step |-> "checking", life |-> 0]
    BY <1>6 DEF Get
  <2> QED
    BY <1>0, <1>00, <2>1, <2>2, <2>3, TimesFacts DEF BookInv, BookTypeOK, EntryWithinTtl
<1>7. ASSUME NEW w \in Writers, WriteDone(w) PROVE BookInv'
  <2>1. writer' \in [Writers -> [step : {"idle", "waiting", "writing"}, life : Times]]
    BY <1>0, <1>7, TimesFacts DEF WriteDone
  <2> QED
    BY <1>7, <1>00, <2>1 DEF WriteDone, BookInv, BookTypeOK, EntryWithinTtl
<1> QED
  BY <1>2, <1>3, <1>4, <1>5, <1>6, <1>7 DEF BookNext

\* Every step keeps the invariant of the cache (bookkeeping_cache.go).
LEMMA BookInvKept ==
  ASSUME BookInv, Next
  PROVE  BookInv'
<1>1. CASE BookNext
  BY <1>1, BookInvKeptWithin
<1>2. CASE UNCHANGED bookVars
  BY <1>2 DEF bookVars, BookInv, BookTypeOK, EntryWithinTtl
<1> QED
  BY <1>1, <1>2 DEF Next, Start, Exit, Crash, Kill, Panic, GoesDown, restVars

\* The role's ttl in Vault is no shorter than the 30 minutes the cache takes its
\* tokens for valid. With a step less the token of a slow login is dead when
\* a caller may still be given it (bookkeeping_cache.go).
TokenOutlivesCache == TokenTtl >= Validity

\* With such a ttl, what Get or the flight hands out is accepted at that time, and
\* no time passes before the write is done (bookkeeping_cache.go, Get).
LEMMA UsableKept ==
  ASSUME TokenOutlivesCache, BookInv, BookkeepingTokenUsable, Next
  PROVE  BookkeepingTokenUsable'
<1>0. /\ entry \in Tokens /\ entry.left \in Times /\ entry.life \in Times
      /\ refresh.life \in Times
      /\ writer \in [Writers -> [step : {"idle", "waiting", "writing"}, life : Times]]
  BY DEF BookInv, BookTypeOK, Tokens
<1>1. Fresh => entry.life > 0
  BY <1>0, TimesFacts DEF Fresh, Margin, BookInv, EntryWithinTtl, TokenOutlivesCache
<1>2. refresh.step = "login" => refresh.life > 0
  BY TimesFacts DEF BookInv, EntryWithinTtl, TokenOutlivesCache, Validity
<1>3. ASSUME NEW answer, Share(answer), answer.step = "writing" => answer.life > 0
      PROVE  BookkeepingTokenUsable'
  BY <1>3, <1>0 DEF Share, BookkeepingTokenUsable
<1>4. CASE Refresh
  BY <1>4, <1>1, <1>3, <1>0 DEF Refresh, BookkeepingTokenUsable
<1>5. CASE LoginFails
  BY <1>5, <1>3 DEF LoginFails
<1>6. CASE LoginAnswers
  BY <1>6, <1>2, <1>3 DEF LoginAnswers
<1>7. CASE Tick
  BY <1>7 DEF Tick, BookkeepingTokenUsable
<1>8. ASSUME NEW w \in Writers, Get(w) PROVE BookkeepingTokenUsable'
  BY <1>8, <1>0, <1>1 DEF Get, BookkeepingTokenUsable
<1>9. ASSUME NEW w \in Writers, WriteDone(w) PROVE BookkeepingTokenUsable'
  BY <1>9, <1>0 DEF WriteDone, BookkeepingTokenUsable
<1>10. CASE UNCHANGED bookVars
  BY <1>10 DEF bookVars, BookkeepingTokenUsable
<1> QED
  BY <1>4, <1>5, <1>6, <1>7, <1>8, <1>9, <1>10
  DEF Next, BookNext, Start, Exit, Crash, Kill, Panic, GoesDown, restVars

-----------------------------------------------------------------------------
(* The metric series of the renewer *)

SeriesInv == SeriesTypeOK /\ SeriesOfPodsSeen /\ TrackedWereWritten

\* A pod that was seen is never unseen, whatever becomes of it (RenewerSeries).
LEMMA SeenStaysSeen ==
  ASSUME SeriesTypeOK, SeriesNext, NEW u \in Uuids, scheduled[u] # "absent"
  PROVE  scheduled'[u] # "absent"
BY DEF SeriesTypeOK, SeriesNext, PodComesAndGoes, EntryWritten, RevokerHandles, RenewTokenAndLease,
   PurgeLease, ListEntries, ListPods, SyncGivesUpOnPods, SyncDone

\* A key that was written is deleted at most: it never was not written (KV version 2).
LEMMA WrittenStaysWritten ==
  ASSUME SeriesTypeOK, SeriesNext, NEW u \in Uuids, kvEntry[u] # "none"
  PROVE  kvEntry'[u] # "none"
<1>1. kvEntry \in [Uuids -> {"none", "stored", "revoked", "deleted"}]
  BY DEF SeriesTypeOK
<1>2. ASSUME NEW v \in Uuids, EntryWritten(v) \/ RevokerHandles(v) PROVE kvEntry'[u] # "none"
  BY <1>1, <1>2 DEF EntryWritten, RevokerHandles
<1>3. ASSUME NEW v \in Uuids, PurgeLease(v) PROVE kvEntry'[u] # "none"
  BY <1>1, <1>3 DEF PurgeLease
<1>4. CASE UNCHANGED kvEntry
  BY <1>4
<1> QED
  BY <1>2, <1>3, <1>4 DEF SeriesNext, PodComesAndGoes, RenewTokenAndLease, ListEntries, ListPods,
     SyncGivesUpOnPods, SyncDone

\* A step of a sync, of the revoker or of a pod keeps the invariant of the series
\* (renewer.go, SyncAndCleanupTokens).
LEMMA SeriesInvKeptWithin ==
  ASSUME SeriesInv, SeriesNext
  PROVE  SeriesInv'
<1>0. SeriesTypeOK /\ SeriesOfPodsSeen /\ TrackedWereWritten
  BY DEF SeriesInv
<1>1. /\ scheduled \in [Uuids -> {"absent", "live", "gone"}]
      /\ kvEntry \in [Uuids -> {"none", "stored", "revoked", "deleted"}]
      /\ tracked \subseteq Uuids /\ series \subseteq Uuids /\ syncing.uuids \subseteq Uuids
      /\ syncing \in [step : {"idle", "listed", "renewing"}, uuids : SUBSET Uuids]
  BY <1>0 DEF SeriesTypeOK
<1>2. ASSUME NEW R \in SUBSET Uuids, NEW T \in SUBSET Uuids,
             \A u \in R : scheduled[u] # "absent", \A u \in T : kvEntry[u] # "none",
             series' \subseteq R, tracked' \subseteq T,
             syncing'.step = "renewing" => syncing'.uuids \subseteq R
      PROVE  SeriesOfPodsSeen' /\ TrackedWereWritten'
  <2>1. ASSUME NEW u \in R PROVE scheduled'[u] # "absent"
    BY <1>0, <1>2, <2>1, SeenStaysSeen
  <2>2. ASSUME NEW u \in T PROVE kvEntry'[u] # "none"
    BY <1>0, <1>2, <2>2, WrittenStaysWritten
  <2> QED
    BY <1>2, <2>1, <2>2 DEF SeriesOfPodsSeen, TrackedWereWritten
<1> DEFINE R == {u \in Uuids : scheduled[u] # "absent"}
           T == {u \in Uuids : kvEntry[u] # "none"}
<1>3. /\ series \subseteq R /\ tracked \subseteq T
      /\ syncing.step = "renewing" => syncing.uuids \subseteq R
  BY <1>0, <1>1 DEF SeriesOfPodsSeen, TrackedWereWritten
<1>4. ASSUME series' \subseteq R, tracked' \subseteq T,
             syncing'.step = "renewing" => syncing'.uuids \subseteq R
      PROVE  SeriesOfPodsSeen' /\ TrackedWereWritten'
  BY <1>4, <1>2
<1>5. ASSUME NEW u \in Uuids, PodComesAndGoes(u) \/ EntryWritten(u) \/ RevokerHandles(u)
      PROVE  SeriesInv'
  BY <1>5, <1>0, <1>1, <1>3, <1>4 DEF PodComesAndGoes, EntryWritten, RevokerHandles, SeriesInv,
     SeriesTypeOK
<1>6. ASSUME NEW u \in Uuids, GoroutineEnds(u)
      PROVE  /\ u \in R
             /\ syncing' \in [step : {"idle", "listed", "renewing"}, uuids : SUBSET Uuids]
             /\ syncing'.uuids \subseteq R
  BY <1>6, <1>1, <1>3 DEF GoroutineEnds
<1>7. ASSUME NEW u \in Uuids, RenewTokenAndLease(u) PROVE SeriesInv'
  <2>1. u \in R /\ syncing'.uuids \subseteq R
        /\ syncing' \in [step : {"idle", "listed", "renewing"}, uuids : SUBSET Uuids]
    BY <1>6, <1>7 DEF RenewTokenAndLease
  <2>2. series' \subseteq series \cup {u} /\ UNCHANGED <<scheduled, kvEntry, tracked>>
    BY <1>7 DEF RenewTokenAndLease
  <2> QED
    BY <2>1, <2>2, <1>0, <1>1, <1>3, <1>4 DEF SeriesInv, SeriesTypeOK
<1>8. ASSUME NEW u \in Uuids, PurgeLease(u) PROVE SeriesInv'
  <2>1. u \in R /\ syncing'.uuids \subseteq R
        /\ syncing' \in [step : {"idle", "listed", "renewing"}, uuids : SUBSET Uuids]
    BY <1>6, <1>8 DEF PurgeLease
  <2>2. series' \subseteq series \cup {u} /\ UNCHANGED <<scheduled, tracked>>
    BY <1>8 DEF PurgeLease
  <2>3. kvEntry' \in [Uuids -> {"none", "stored", "revoked", "deleted"}]
    BY <1>1, <1>8 DEF PurgeLease
  <2> QED
    BY <2>1, <2>2, <2>3, <1>0, <1>1, <1>3, <1>4 DEF SeriesInv, SeriesTypeOK
<1>9. ASSUME NEW infos \in SUBSET Entries, NEW complete \in BOOLEAN, ListEntries(infos, complete)
      PROVE  SeriesInv'
  <2>1. infos \subseteq T
    BY DEF Entries
  <2>2. series' \subseteq series /\ (tracked' = infos \/ tracked' = tracked)
    BY <1>9 DEF ListEntries, FlushVanished
  <2>3. /\ syncing' \in [step : {"idle", "listed", "renewing"}, uuids : SUBSET Uuids]
        /\ syncing'.step # "renewing"
        /\ UNCHANGED <<scheduled, kvEntry>>
    BY <1>9, <2>1 DEF ListEntries, Idle
  <2> QED
    BY <2>1, <2>2, <2>3, <1>0, <1>1, <1>3, <1>4 DEF SeriesInv, SeriesTypeOK
<1>10. CASE ListPods
  <2>1. PICK live : /\ live = {u \in syncing.uuids : scheduled[u] = "live"}
                    /\ syncing' = [step |-> "renewing", uuids |-> live]
                    /\ series' = series \ (syncing.uuids \ live)
    BY <1>10 DEF ListPods
  <2>2. live \subseteq R
    BY <1>1, <2>1
  <2> QED
    BY <1>10, <2>1, <2>2, <1>0, <1>1, <1>3, <1>4 DEF ListPods, SeriesInv, SeriesTypeOK
<1>11. CASE SyncGivesUpOnPods \/ SyncDone
  BY <1>11, <1>0, <1>1, <1>3, <1>4 DEF SyncGivesUpOnPods, SyncDone, Idle, SeriesInv, SeriesTypeOK
<1> QED
  BY <1>5, <1>7, <1>8, <1>9, <1>10, <1>11 DEF SeriesNext

\* Every step keeps the invariant of the series (RenewerSeries).
LEMMA SeriesInvKept ==
  ASSUME SeriesInv, Next
  PROVE  SeriesInv'
<1>1. CASE SeriesNext
  BY <1>1, SeriesInvKeptWithin
<1>2. CASE UNCHANGED seriesVars
  BY <1>2 DEF seriesVars, SeriesInv, SeriesTypeOK, SeriesOfPodsSeen, TrackedWereWritten
<1> QED
  BY <1>1, <1>2 DEF Next, Start, Exit, Crash, Kill, Panic, GoesDown, restVars

\* A step takes the series of a uuid away for one of two reasons only: the pod is
\* gone, or the entry is deleted. What a pod listing misses has a series only if
\* its pod was seen; what an entry listing misses was written (flushVanished).
LEMMA SeriesLeaveForAReason ==
  ASSUME SeriesInv, Next, NEW u \in series \ series'
  PROVE  scheduled[u] = "gone" \/ kvEntry'[u] = "deleted"
<1>1. /\ scheduled \in [Uuids -> {"absent", "live", "gone"}]
      /\ kvEntry \in [Uuids -> {"none", "stored", "revoked", "deleted"}]
      /\ u \in Uuids
  BY DEF SeriesInv, SeriesTypeOK
<1>2. CASE \E v \in Uuids : PodComesAndGoes(v) \/ EntryWritten(v) \/ RevokerHandles(v)
  BY <1>2 DEF PodComesAndGoes, EntryWritten, RevokerHandles
<1>3. CASE \E v \in Uuids : RenewTokenAndLease(v)
  BY <1>3 DEF RenewTokenAndLease
<1>4. CASE \E v \in Uuids : PurgeLease(v)
  BY <1>4, <1>1 DEF PurgeLease
<1>5. CASE \E infos \in SUBSET Entries, complete \in BOOLEAN : ListEntries(infos, complete)
  <2> PICK infos \in SUBSET Entries, complete \in BOOLEAN : ListEntries(infos, complete)
    BY <1>5
  <2>1. u \in tracked /\ u \notin infos /\ infos = Entries
    BY DEF ListEntries, FlushVanished
  <2>2. kvEntry[u] # "none" /\ kvEntry' = kvEntry
    BY <2>1 DEF SeriesInv, TrackedWereWritten, ListEntries
  <2> QED
    BY <1>1, <2>1, <2>2 DEF Entries
<1>6. CASE ListPods
  <2>1. scheduled[u] # "live"
    BY <1>6 DEF ListPods
  <2>2. scheduled[u] # "absent"
    BY DEF SeriesInv, SeriesOfPodsSeen
  <2> QED
    BY <1>1, <2>1, <2>2
<1>7. CASE SyncGivesUpOnPods \/ SyncDone \/ UNCHANGED seriesVars
  BY <1>7 DEF SyncGivesUpOnPods, SyncDone, seriesVars
<1> QED
  BY <1>2, <1>3, <1>4, <1>5, <1>6, <1>7
  DEF Next, SeriesNext, Start, Exit, Crash, Kill, Panic, GoesDown, restVars

-----------------------------------------------------------------------------
(* The theorems *)

LEMMA InitEstablishesCInv == Init => CInv
<1> SUFFICES ASSUME Init PROVE CInv
  OBVIOUS
<1>1. ProcessesTypeOK
  BY DEF Init, ProcessesInit, ProcessesTypeOK
<1>2. LeadershipTypeOK /\ LoginNotRevoked
  BY DEF Init, LeadershipInit, LeadershipTypeOK, LoginNotRevoked, NoLogin, Logins, TokenStates
<1>3. AgentTypeOK /\ BackoffsLeft
  <2>1. 0 \in 0..Backoffs
    BY StubLifecycleAssumption
  <2> QED
    BY <2>1 DEF Init, AgentInit, AgentTypeOK, BackoffsLeft, RunSteps
<1>4. InjectorTypeOK
  BY DEF Init, InjectorInit, InjectorTypeOK
<1>5. BookTypeOK /\ EntryWithinTtl
  BY TimesFacts DEF Init, BookInit, BookTypeOK, EntryWithinTtl, NoToken, Tokens
<1>6. SeriesTypeOK /\ SeriesOfPodsSeen /\ TrackedWereWritten
  BY DEF Init, SeriesInit, SeriesTypeOK, SeriesOfPodsSeen, TrackedWereWritten, Idle
<1> QED
  BY <1>1, <1>2, <1>3, <1>4, <1>5, <1>6 DEF CInv, TypeOK, ControllerInv

LEMMA StutterKeepsCInv ==
  ASSUME CInv, UNCHANGED vars
  PROVE  CInv'
<1>1. UNCHANGED <<processVars, leaderVars, agentVars, injectorVars, bookVars, seriesVars>>
  BY DEF vars, restVars
<1>2. ProcessesTypeOK' /\ LeadershipTypeOK' /\ LoginNotRevoked'
  BY <1>1 DEF CInv, TypeOK, ProcessesTypeOK, LeadershipTypeOK, LoginNotRevoked, processVars, leaderVars
<1>3. AgentTypeOK' /\ BackoffsLeft' /\ InjectorTypeOK'
  BY <1>1 DEF CInv, TypeOK, ControllerInv, AgentTypeOK, BackoffsLeft, InjectorTypeOK, agentVars,
     injectorVars
<1>4. BookTypeOK' /\ EntryWithinTtl'
  BY <1>1 DEF CInv, TypeOK, ControllerInv, BookTypeOK, EntryWithinTtl, bookVars
<1>5. SeriesTypeOK' /\ SeriesOfPodsSeen' /\ TrackedWereWritten'
  BY <1>1 DEF CInv, TypeOK, ControllerInv, SeriesTypeOK, SeriesOfPodsSeen, TrackedWereWritten,
     seriesVars
<1> QED
  BY <1>2, <1>3, <1>4, <1>5 DEF CInv, TypeOK, ControllerInv

\* The invariant is inductive: each component keeps its part (controller.go).
LEMMA CInvKept ==
  ASSUME CInv, [Next]_vars
  PROVE  CInv'
<1>1. CASE UNCHANGED vars
  BY <1>1, StutterKeepsCInv
<1>2. CASE Next
  <2>1. ProcessesTypeOK' /\ LeadershipTypeOK' /\ LoginNotRevoked'
    BY <1>2, ProcessesTypeKept, LeadershipTypeKept, LoginNotRevokedKept DEF CInv, TypeOK
  <2>2. AgentTypeOK' /\ BackoffsLeft' /\ InjectorTypeOK'
    BY <1>2, AgentTypeKept, InjectorTypeKept DEF CInv, TypeOK, ControllerInv
  <2>3. BookTypeOK' /\ EntryWithinTtl'
    BY <1>2, BookInvKept DEF CInv, TypeOK, ControllerInv, BookInv
  <2>4. SeriesTypeOK' /\ SeriesOfPodsSeen' /\ TrackedWereWritten'
    BY <1>2, SeriesInvKept DEF CInv, TypeOK, ControllerInv, SeriesInv
  <2> QED
    BY <2>1, <2>2, <2>3, <2>4 DEF CInv, TypeOK, ControllerInv
<1> QED
  BY <1>1, <1>2

\* The invariant holds of every run of the specification (controller.go).
LEMMA SpecCInv == Spec => []CInv
BY InitEstablishesCInv, CInvKept, PTL DEF Spec

\* The variables of the processes, the election, the stub, the injector's servers,
\* the token cache and the series keep their types (controller.go).
THEOREM ControllerSpecTypeOK == Spec => []TypeOK
<1>1. CInv => TypeOK
  BY DEF CInv
<1> QED
  BY <1>1, SpecCInv, PTL

\* What the other theorems rest on holds of every run: no wait after the last
\* backoff, the life of the cached token, series of pods that were seen, tracked
\* entries that were written (stub_lifecycle.go, bookkeeping_cache.go, renewer.go).
THEOREM SpecControllerInv == Spec => []ControllerInv
<1>1. CInv => ControllerInv
  BY DEF CInv
<1> QED
  BY <1>1, SpecCInv, PTL

\* A job never works with a login token its own process has revoked
\* (StartTokenRenewal, RevokeSelfToken).
THEOREM SpecLoginNotRevoked == Spec => []LoginNotRevoked
<1>1. CInv => LoginNotRevoked
  BY DEF CInv
<1> QED
  BY <1>1, SpecCInv, PTL

\* With a ttl of 30 minutes or more, every write of KV bookkeeping has a token that
\* Vault still accepts (bookkeeping_cache.go, Get).
THEOREM SpecBookkeepingTokenUsable == TokenOutlivesCache /\ Spec => []BookkeepingTokenUsable
<1> SUFFICES ASSUME TokenOutlivesCache PROVE Spec => []BookkeepingTokenUsable
  OBVIOUS
<1>1. Init => BookkeepingTokenUsable
  BY DEF Init, BookInit, BookkeepingTokenUsable
<1>2. CInv /\ BookkeepingTokenUsable /\ [Next]_vars => BookkeepingTokenUsable'
  <2>1. CInv => BookInv
    BY DEF CInv, TypeOK, ControllerInv, BookInv
  <2>2. CASE UNCHANGED vars
    BY <2>2 DEF vars, restVars, bookVars, BookkeepingTokenUsable
  <2> QED
    BY <2>1, <2>2, UsableKept
<1> QED
  BY <1>1, <1>2, SpecCInv, PTL DEF Spec

\* No step takes the series of a live pod away while its entry is there
\* (flushVanished, SyncAndCleanupTokens).
THEOREM SpecLiveSeriesStay == Spec => LiveSeriesStay
<1>1. CInv /\ [Next]_vars
        => [\A u \in series \ series' : scheduled[u] = "gone" \/ kvEntry'[u] = "deleted"]_vars
  <2>1. CInv => SeriesInv
    BY DEF CInv, TypeOK, ControllerInv, SeriesInv
  <2> QED
    BY <2>1, SeriesLeaveForAReason
<1> QED
  BY <1>1, SpecCInv, PTL DEF Spec, LiveSeriesStay
================================================================================
