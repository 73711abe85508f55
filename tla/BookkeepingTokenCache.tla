----------------------- MODULE BookkeepingTokenCache ------------------------
(***************************************************************************)
(* The cache of the injector's own Vault token for KV bookkeeping, for one *)
(* kubeRole: its validity, its early refresh under a singleflight, and the *)
(* writers that use what Get returned. Time passes in steps of 5 minutes.  *)
(***************************************************************************)
EXTENDS Integers

CONSTANTS
  TokenTtl,  \* token_ttl of the role in Vault, in steps
  Writers    \* the admissions or fetches that need a bookkeeping token

ASSUME BookkeepingTokenCacheAssumption == TokenTtl \in Nat \ {0}

VARIABLES
  entry,   \* the cached token: until the cache lets go of it, until Vault does
  refresh, \* the singleflight call
  writer   \* writer[w]: where w is, and how long Vault accepts its token

bookVars == <<entry, refresh, writer>>

-----------------------------------------------------------------------------

Validity == 6  \* 30 minutes
Margin == 1    \* 5 minutes

Times == 0..(Validity + TokenTtl)

\* left: until expiresAt; life: until the token dies in Vault.
Tokens == [left : Times, life : Times]

NoToken == [left |-> 0, life |-> 0]

\* (variant) A cached token is used until it expires.
FreshToTheEnd == entry.left > 0

\* time.Until(e.expiresAt) > 5*time.Minute
Fresh == entry.left > Margin

\* Get: the fast path, or the slow path whose flight the first caller starts.
Get(w) ==
  /\ writer[w].step = "idle"
  /\ IF Fresh
       THEN /\ writer' = [writer EXCEPT ![w] = [step |-> "writing", life |-> entry.life]]
            /\ UNCHANGED refresh
       ELSE /\ writer' = [writer EXCEPT ![w] = [step |-> "waiting", life |-> 0]]
            /\ refresh' = IF refresh.step = "none" THEN [step |-> "checking", life |-> 0]
                                                   ELSE refresh
  /\ UNCHANGED entry

\* What the flight returned, a token or an error, goes to everybody who waits for it.
Share(answer) ==
  /\ refresh' = [step |-> "none", life |-> 0]
  /\ writer' = [w \in Writers |-> IF writer[w].step = "waiting" THEN answer ELSE writer[w]]

\* The entry is looked at again; a login issues a token.
Refresh ==
  /\ refresh.step = "checking"
  /\ IF Fresh
       THEN Share([step |-> "writing", life |-> entry.life])
       ELSE /\ refresh' = [step |-> "login", life |-> TokenTtl]
            /\ UNCHANGED writer
  /\ UNCHANGED entry

LoginFails ==
  /\ refresh.step \in {"checking", "login"}
  /\ Share([step |-> "idle", life |-> 0])
  /\ UNCHANGED entry

\* LoginAsInjectorSA answers: expiresAt counts from the answer.
LoginAnswers ==
  /\ refresh.step = "login"
  /\ entry' = [left |-> Validity, life |-> refresh.life]
  /\ Share([step |-> "writing", life |-> refresh.life])

\* The StoreDataAsync of w is done with its token.
WriteDone(w) ==
  /\ writer[w].step = "writing"
  /\ writer' = [writer EXCEPT ![w] = [step |-> "idle", life |-> 0]]
  /\ UNCHANGED <<entry, refresh>>

Older(n) == IF n > 0 THEN n - 1 ELSE n

\* Five minutes pass. A login is answered and a write done in less: of the two,
\* only a login may see the end of a step.
Tick ==
  /\ refresh.life \in {0, TokenTtl}
  /\ entry' = [left |-> Older(entry.left), life |-> Older(entry.life)]
  /\ refresh' = [refresh EXCEPT !.life = Older(@)]
  /\ \A w \in Writers : writer[w].step # "writing"
  /\ UNCHANGED writer

-----------------------------------------------------------------------------

BookTypeOK ==
  /\ entry \in Tokens
  /\ refresh \in [step : {"none", "checking", "login"}, life : Times]
  /\ writer \in [Writers -> [step : {"idle", "waiting", "writing"}, life : Times]]

BookInit ==
  /\ entry = NoToken
  /\ refresh = [step |-> "none", life |-> 0]
  /\ writer = [w \in Writers |-> [step |-> "idle", life |-> 0]]

BookNext ==
  \/ Refresh \/ LoginFails \/ LoginAnswers \/ Tick
  \/ \E w \in Writers : Get(w) \/ WriteDone(w)
=============================================================================
