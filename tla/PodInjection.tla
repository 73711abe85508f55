---------------------------- MODULE PodInjection ----------------------------
(***************************************************************************)
(* What becomes of one pod with NRI: the webhook writes placeholders and   *)
(* uuids into it at admission, and at each CreateContainer the plugin      *)
(* reads the annotations again, fetches credentials and substitutes them.  *)
(* The calls to Vault and their failures in detail are in NriIssuer.       *)
(***************************************************************************)
EXTENDS AnnotationParser, Functions

CONSTANTS
  PodAnnotations,  \* the sets of annotations that users write
  VaultRoles,      \* VaultRoles[r]: what Vault's auth role r binds, and its policies
  ServiceAccount,  \* of the pod
  Namespace,       \* of the pod
  ReservedChars    \* whether passwords hold characters that a URI must escape

\* The annotations are a map from their keys to their values.
ASSUME PodInjectionAssumption ==
  /\ ReservedChars \in BOOLEAN
  /\ \A as \in PodAnnotations :
       /\ as \subseteq [db : Nat, type : STRING, value : Seq(STRING)]
       /\ \A e, f \in as : e.db = f.db /\ e.type = f.type => e = f

VARIABLES
  stage,      \* where the pod is
  env,        \* the lines that the webhook appended to the containers' env
  uuids,      \* the uuid annotation
  edited,     \* a user has changed the other annotations since the admission
  cache,      \* the plugin's mapping for the pod, empty when there is none
  kept,       \* <<db, uuid>>: the KV entries its fetches wrote
  outcome,    \* how the last admission or CreateContainer ended
  container   \* the env lines the last container started with

podVars == <<stage, env, uuids, edited, cache, kept, outcome, container>>
vars == <<parserVars, podVars>>

-----------------------------------------------------------------------------
(* Env lines *)

\* generatePlaceholders: a fresh one for each dbConfiguration and field.
Placeholder(i, field) == [kind |-> "placeholder", of |-> i, field |-> field, role |-> Unset]

Credential(conf, field) ==
  [kind |-> "credential", of |-> conf.db, field |-> field, role |-> conf.role]

\* What url.UserPassword makes of it; a placeholder has no reserved character.
Escaped(s) ==
  IF ReservedChars /\ s.kind = "credential" /\ s.field = "password"
    THEN [s EXCEPT !.kind = "escaped"] ELSE s

Line(name, uri, secrets) == [name |-> name, uri |-> uri, secrets |-> secrets]

Classic(conf) == conf.mode \in {Unset, <<"classic">>}

\* applyClassic, applyURI. An opaque URI ("jdbc:...") has no place for a user.
LinesOf(conf, user, password) ==
  IF Classic(conf)
    THEN [k \in DOMAIN conf.user |-> Line(conf.user[k], FALSE, <<user>>)]
         \o [k \in DOMAIN conf.password |-> Line(conf.password[k], FALSE, <<password>>)]
    ELSE LET secrets == IF conf.template = <<"opaque">> THEN <<>>
                        ELSE <<Escaped(user), Escaped(password)>>
         IN  [k \in DOMAIN conf.uri |-> Line(conf.uri[k], TRUE, secrets)]

PlaceholderEnv(cs) ==
  FlattenSeq([i \in DOMAIN cs |->
    LinesOf(cs[i], Placeholder(i, "username"), Placeholder(i, "password"))])

\* What the webhook writes without NRI.
CredentialEnv(cs) ==
  FlattenSeq([i \in DOMAIN cs |->
    LinesOf(cs[i], Credential(cs[i], "username"), Credential(cs[i], "password"))])

SecretsIn(lines) == UNION {Range(lines[k].secrets) : k \in DOMAIN lines}

Placeholders(lines) == {s \in SecretsIn(lines) : s.kind = "placeholder"}

-----------------------------------------------------------------------------
(* The admission *)

\* (variant) The bound service accounts are not looked at.
CanIGetRolesByPolicy(role) == role \in DOMAIN VaultRoles /\ role \in VaultRoles[role].policies

CanIGetRoles(role) ==
  /\ role \in DOMAIN VaultRoles
  /\ role \in VaultRoles[role].policies
  /\ ServiceAccount \in VaultRoles[role].serviceAccounts
  /\ Namespace \in VaultRoles[role].namespaces

\* (variant) The webhook leaves the authorization to the plugin.
AcceptedUnauthorized(conf) ==
  /\ conf.role # Unset
  /\ Classic(conf) \/ (conf.mode = <<"uri">> /\ conf.template # <<"markers">>)

\* checkConfiguration, authorizeDbAccess, and applyEnvToContainers, which knows
\* two modes and lets url.Parse judge the template of a URI: braces in the place
\* of user and password are refused there.
Accepted(conf) ==
  /\ conf.role # Unset
  /\ CanIGetRoles(conf.role[1])
  /\ Classic(conf) \/ (conf.mode = <<"uri">> /\ conf.template # <<"markers">>)

\* The API server refuses an env variable without a name.
Named(lines) == \A k \in DOMAIN lines : lines[k].name # ""

\* A pod is submitted, the first one or another after one was denied.
Submit ==
  /\ stage \in {"none", "denied"}
  /\ \E as \in PodAnnotations : StartParsing(as)
  /\ stage' = "admission"
  /\ outcome' = "none"
  /\ UNCHANGED <<env, uuids, edited, cache, kept, container>>

Parse ==
  /\ stage \in {"admission", "creating"}
  /\ ParseOne
  /\ UNCHANGED podVars

\* The pod of a v1 injector goes through unchanged.
IgnoreV1Pod ==
  /\ stage = "admission" /\ MeetsV1Annotation
  /\ stage' = "admitted"
  /\ ParserDone /\ UNCHANGED <<env, uuids, edited, cache, kept, outcome, container>>

\* (variant) One uuid is generated for the pod.
AdmitOneUuid ==
  /\ stage = "admission" /\ todo = {}
  /\ LET cs == ByName(confs)
     IN  /\ cs # <<>>
         /\ \A i \in DOMAIN cs : Accepted(cs[i])
         /\ Named(PlaceholderEnv(cs))
         /\ env' = PlaceholderEnv(cs)
         /\ uuids' = [i \in DOMAIN cs |-> 1]
  /\ stage' = "admitted"
  /\ ParserDone /\ UNCHANGED <<edited, cache, kept, outcome, container>>

\* injectCredentialsIntoPod: the placeholders, and a uuid per dbConfiguration.
Admit ==
  /\ stage = "admission" /\ todo = {}
  /\ LET cs == ByName(confs)
     IN  /\ cs # <<>>
         /\ \A i \in DOMAIN cs : Accepted(cs[i])
         /\ Named(PlaceholderEnv(cs))
         /\ env' = PlaceholderEnv(cs)
         /\ uuids' = [i \in DOMAIN cs |-> i]
  /\ stage' = "admitted"
  /\ ParserDone /\ UNCHANGED <<edited, cache, kept, outcome, container>>

\* It is not what the webhook or the API server accepts.
Deny ==
  /\ stage = "admission" /\ todo = {}
  /\ LET cs == ByName(confs)
     IN  \/ cs = <<>>
         \/ \E i \in DOMAIN cs : ~Accepted(cs[i])
         \/ ~Named(PlaceholderEnv(cs))
  /\ stage' = "denied"
  /\ outcome' = "refused"
  /\ ParserDone /\ UNCHANGED <<env, uuids, edited, cache, kept, container>>

\* Vault or the TokenRequest API fails.
AdmissionFails ==
  /\ stage = "admission" /\ todo = {}
  /\ stage' = "denied"
  /\ outcome' = "failed"
  /\ ParserDone /\ UNCHANGED <<env, uuids, edited, cache, kept, container>>

-----------------------------------------------------------------------------
(* The plugin *)

\* A pod that the webhook did not stamp, and a dbConfiguration beyond the stamps,
\* are recorded under the pod's own UID.
PodUid == 0

UuidOf(i) == IF i \in DOMAIN uuids THEN uuids[i] ELSE PodUid

\* (variant) The variable's name does not count.
FieldsInAnyLine(line, conf) ==
  [s \in {s \in Range(line.secrets) : s.kind = "placeholder"} |-> s.field]

\* extractPlaceholdersFromEnv, for one line: which field its placeholders stand for.
FieldsIn(line, conf) ==
  IF Classic(conf)
    THEN LET ofUser == line.name \in Range(conf.user)
             bare == ~line.uri /\ (ofUser \/ line.name \in Range(conf.password))
         IN  [s \in {s \in Range(line.secrets) : bare} |->
               IF ofUser THEN "username" ELSE "password"]
    ELSE LET found == conf.mode = <<"uri">> /\ line.uri /\ line.name \in Range(conf.uri)
         IN  [s \in {s \in Range(line.secrets) : found} |->
               IF s = line.secrets[1] THEN "username" ELSE "password"]

\* Later lines, and later dbConfigurations, win.
Merged(maps) ==
  [s \in UNION {DOMAIN maps[i] : i \in DOMAIN maps} |->
    maps[Max({i \in DOMAIN maps : s \in DOMAIN maps[i]})][s]]

\* buildMappingFromPodEnv
MappingOf(conf) ==
  LET fields == Merged([k \in DOMAIN env |-> FieldsIn(env[k], conf)])
  IN  [s \in DOMAIN fields |-> Credential(conf, fields[s])]

Mapping(cs) == Merged([i \in DOMAIN cs |-> MappingOf(cs[i])])

Substitute(lines, mapping) ==
  [k \in DOMAIN lines |->
    [lines[k] EXCEPT !.secrets =
      [j \in DOMAIN @ |-> IF @[j] \in DOMAIN mapping THEN mapping[@[j]] ELSE @[j]]]]

\* An env without placeholders is left alone, a cached mapping is used, and else
\* the pod's annotations are read.
CreateContainer ==
  /\ stage = "admitted"
  /\ IF Placeholders(env) = {}
       THEN /\ outcome' = "started" /\ container' = env
            /\ UNCHANGED <<parserVars, stage>>
     ELSE IF DOMAIN cache # {}
       THEN /\ stage' = "resolved"
            /\ UNCHANGED <<parserVars, outcome, container>>
       ELSE /\ StartParsing(annotations)
            /\ stage' = "creating"
            /\ UNCHANGED <<outcome, container>>
  /\ UNCHANGED <<env, uuids, edited, cache, kept>>

\* fetchAndBuildMapping succeeds: every dbConfiguration gets its credentials, and
\* at least one placeholder has a value.
Fetch ==
  /\ stage = "creating" /\ todo = {}
  /\ LET cs == ByName(confs)
     IN  /\ \A i \in DOMAIN cs : cs[i].role # Unset /\ CanIGetRoles(cs[i].role[1])
         /\ DOMAIN Mapping(cs) # {}
         /\ cache' = Mapping(cs)
         /\ kept' = kept \cup {<<cs[i].db, UuidOf(i)>> : i \in DOMAIN cs}
  /\ stage' = "resolved"
  /\ ParserDone /\ UNCHANGED <<env, uuids, edited, outcome, container>>

Refuse ==
  /\ stage' = "admitted"
  /\ outcome' = "refused"
  /\ ParserDone /\ UNCHANGED <<env, uuids, edited, cache, kept, container>>

\* The annotations give no mapping.
FetchRefused ==
  /\ stage = "creating"
  /\ \/ MeetsV1Annotation
     \/ /\ todo = {}
        /\ LET cs == ByName(confs)
           IN  \/ \E i \in DOMAIN cs : cs[i].role = Unset \/ ~CanIGetRoles(cs[i].role[1])
               \/ DOMAIN Mapping(cs) = {}
  /\ Refuse

\* A call to Vault or to the kube-apiserver fails.
FetchFails ==
  /\ stage = "creating"
  /\ stage' = "admitted"
  /\ outcome' = "failed"
  /\ ParserDone /\ UNCHANGED <<env, uuids, edited, cache, kept, container>>

\* (variant) What the substitution has left is not looked at.
StartIfChanged ==
  /\ stage = "resolved"
  /\ Substitute(env, cache) # env
  /\ container' = Substitute(env, cache)
  /\ stage' = "admitted"
  /\ outcome' = "started"
  /\ UNCHANGED <<parserVars, env, uuids, edited, cache, kept>>

\* Some line has changed, and none holds a placeholder any more.
StartContainer ==
  /\ stage = "resolved"
  /\ Substitute(env, cache) # env
  /\ Placeholders(Substitute(env, cache)) = {}
  /\ container' = Substitute(env, cache)
  /\ stage' = "admitted"
  /\ outcome' = "started"
  /\ UNCHANGED <<parserVars, env, uuids, edited, cache, kept>>

\* "no env line changed", or a residual placeholder.
SubstitutionRefused ==
  /\ stage = "resolved"
  /\ Substitute(env, cache) = env \/ Placeholders(Substitute(env, cache)) # {}
  /\ Refuse

-----------------------------------------------------------------------------
(* Users and restarts *)

\* The sandbox is recreated, or the plugin restarted without its file.
LoseCache ==
  /\ stage = "admitted" /\ DOMAIN cache # {}
  /\ cache' = <<>>
  /\ UNCHANGED <<parserVars, stage, env, uuids, edited, kept, outcome, container>>

\* The annotations of a pod can be changed while it lives; once is enough.
EditAnnotations ==
  /\ stage = "admitted" /\ ~edited
  /\ annotations' \in PodAnnotations \ {annotations}
  /\ edited' = TRUE
  /\ UNCHANGED <<todo, confs, stage, env, uuids, cache, kept, outcome, container>>

Init ==
  /\ annotations = {} /\ todo = {} /\ confs = <<>>
  /\ stage = "none"
  /\ env = <<>> /\ uuids = <<>> /\ container = <<>>
  /\ edited = FALSE
  /\ cache = <<>> /\ kept = {}
  /\ outcome = "none"

Next ==
  \/ Submit \/ Parse \/ IgnoreV1Pod \/ Admit \/ Deny \/ AdmissionFails
  \/ CreateContainer \/ Fetch \/ FetchRefused \/ FetchFails
  \/ StartContainer \/ SubstitutionRefused
  \/ LoseCache \/ EditAnnotations

Spec == Init /\ [][Next]_vars

-----------------------------------------------------------------------------
(* Properties *)

Values == {e.value : e \in UNION PodAnnotations} \cup {Unset}

\* Of env variables.
Names == UNION {Range(v) : v \in Values}

DbConfigurations == [db : Nat, role : Values, mode : Values, user : Values,
                     password : Values, uri : Values, template : Values]

Secrets == [kind : {"placeholder", "credential", "escaped"}, of : Nat,
            field : {"username", "password"}, role : Values]

EnvLines == [name : Names, uri : BOOLEAN, secrets : Seq(Secrets)]

\* The variables hold what the parser, the webhook and the plugin put into them.
TypeOK ==
  /\ annotations \in PodAnnotations \cup {{}} /\ todo \subseteq annotations
  /\ \A i \in DOMAIN confs : \E e \in annotations : e.db = confs[i].db
  /\ stage \in {"none", "admission", "denied", "admitted", "creating", "resolved"}
  /\ outcome \in {"none", "refused", "failed", "started"} /\ edited \in BOOLEAN
  /\ SecretsIn(env) \subseteq Secrets /\ SecretsIn(container) \subseteq Secrets
  /\ \A s \in DOMAIN cache : s \in SecretsIn(env) /\ cache[s] \in Secrets
  /\ \A i \in DOMAIN uuids : uuids[i] = i
  /\ \A k \in kept : k[2] = PodUid \/ k[2] \in Range(uuids)

\* The dbConfigurations name each variable for one credential only.
Variables(conf) ==
  IF Classic(conf) THEN Range(conf.user) \cup Range(conf.password) ELSE Range(conf.uri)

NamedOnce(cs) ==
  \A i \in DOMAIN cs :
    /\ \A j \in DOMAIN cs \ {i} : Variables(cs[i]) \cap Variables(cs[j]) = {}
    /\ Classic(cs[i]) => Range(cs[i].user) \cap Range(cs[i].password) = {}

\* The container starts with the env that the webhook would have written itself
\* without NRI, each credential in the variables of its own dbConfiguration,
\* whatever the order in which either process met the annotations. Passwords
\* that a URI must escape are the exception (Substitute does not escape them), and
\* variables named twice, where the last dbConfiguration takes the placeholders of
\* the first for its own.
NriGivesWhatLegacyGives ==
  LET cs == ConfsOf(annotations)
  IN  (outcome = "started" /\ ~edited /\ uuids # <<>> /\ ~ReservedChars /\ NamedOnce(cs))
        => container = CredentialEnv(cs)

\* No container starts with a placeholder, also when the annotations no longer
\* name the variables they named at the admission (CreateContainer).
NoPlaceholderStarts == outcome = "started" => Placeholders(container) = {}

\* What the webhook let through, the plugin does not refuse: kubelet's retries of
\* a container end when Vault answers (checkConfigurationLite, splitCSV, the
\* residual check).
AdmittedMeansSubstitutable ==
  (stage \in {"admitted", "creating", "resolved"} /\ ~edited) => outcome # "refused"

\* The KV entry of a dbConfiguration is the one under the uuid the webhook stamped
\* for it, so no two share one (fetchAndBuildMapping).
OwnUuidPerDb ==
  ~edited => \A k \in kept :
    \E i \in DOMAIN uuids : k = <<ConfsOf(annotations)[i].db, uuids[i]>>

\* A container never gets a credential of a role that does not bind its pod's
\* service account, whatever its annotations have become since.
OnlyBoundRoles ==
  \A s \in SecretsIn(container) :
    s.kind # "placeholder" => ServiceAccount \in VaultRoles[s.role[1]].serviceAccounts

\* docs/developers/annotations.md: in a URI template "`{{user}}` and `{{password}}`
\* are substituted by the webhook". A pod with such a template, complete and with
\* a role that it may use, is not refused for what its annotations say.
MarkersAreSubstituted ==
  LET Complete(conf) == /\ conf.mode = <<"uri">> /\ conf.uri # Unset
                        /\ conf.role # Unset /\ CanIGetRoles(conf.role[1])
      cs == ConfsOf(annotations)
  IN  (stage = "denied" /\ outcome = "refused" /\ cs # <<>>)
        => \E i \in DOMAIN cs : cs[i].template # <<"markers">> \/ ~Complete(cs[i])

-----------------------------------------------------------------------------
(* The inductive invariant behind them *)

\* Whatever the order of the iteration, the dbConfigurations built so far are those
\* of the annotations that it has met, one for each database.
ConfsBuilt ==
  LET met == annotations \ todo
  IN  /\ confs \in Seq(DbConfigurations)
      /\ \A i, j \in DOMAIN confs : confs[i].db = confs[j].db => i = j
      /\ Range(confs) = ConfsMet(annotations, met)
      /\ \A e \in met : e.type # "revoke-ttl"

\* The parser works for one admission or one CreateContainer.
ParserIdle == stage \notin {"admission", "creating"} => todo = {} /\ confs = <<>>

\* The webhook starts from a pod without anything of its own.
AdmittedAfresh ==
  stage \in {"none", "denied", "admission"} =>
    env = <<>> /\ uuids = <<>> /\ cache = <<>> /\ kept = {} /\ ~edited /\ container = <<>>

\* What the webhook has stamped is what its annotations ask for, and what the plugin
\* has cached is what it finds in them, as long as they are what the webhook saw.
StampedAsAsked ==
  (stage \in {"admitted", "creating", "resolved"} /\ ~edited /\ uuids # <<>>) =>
    LET cs == ConfsOf(annotations)
    IN  /\ cs \in Seq(DbConfigurations)
        /\ env = PlaceholderEnv(cs) /\ uuids = [i \in DOMAIN cs |-> i]
        /\ \A i \in DOMAIN cs : Accepted(cs[i])
        /\ \A e \in annotations : e.type # "revoke-ttl"
        /\ Named(env)
        /\ DOMAIN cache # {} => cache = Mapping(cs)

\* The plugin has something to do, and something to do it with.
PluginAtWork ==
  /\ stage \in {"creating", "resolved"} => Placeholders(env) # {}
  /\ stage = "resolved" => DOMAIN cache # {}

\* The webhook writes placeholders only, the plugin keeps credentials of roles
\* only that bind the pod's service account.
EnvOfPlaceholders ==
  /\ env \in Seq(EnvLines)
  /\ \A s \in SecretsIn(env) : s.kind = "placeholder"
  /\ uuids = <<>> => env = <<>>

CacheOfBoundRoles ==
  \A s \in DOMAIN cache :
    /\ cache[s].kind = "credential"
    /\ ServiceAccount \in VaultRoles[cache[s].role[1]].serviceAccounts

PInv ==
  /\ TypeOK
  /\ stage \in {"admission", "creating"} => ConfsBuilt
  /\ ParserIdle
  /\ stage = "admission" => outcome = "none"
  /\ AdmittedAfresh
  /\ StampedAsAsked
  /\ PluginAtWork
  /\ EnvOfPlaceholders
  /\ CacheOfBoundRoles
  /\ NoPlaceholderStarts
  /\ OnlyBoundRoles
  /\ OwnUuidPerDb
  /\ AdmittedMeansSubstitutable
=============================================================================
