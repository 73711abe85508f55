-------------------------- MODULE AnnotationParser --------------------------
(***************************************************************************)
(* GetPodDbConfig, which the webhook and the NRI plugin each run on the    *)
(* annotations of a pod: one dbConfiguration per database name, built in   *)
(* the order in which Go happens to iterate over the map, then sorted.     *)
(***************************************************************************)
EXTENDS Integers, FiniteSets, Sequences, SequencesExt

VARIABLES
  annotations,  \* the db-creds-injector.numberly.io/ annotations of the pod
  todo,         \* those that the iteration under way has not reached
  confs         \* the dbConfigurations built so far

parserVars == <<annotations, todo, confs>>

-----------------------------------------------------------------------------

\* An annotation <db>.<type>. Databases are numbered in the order of their names;
\* an annotation whose key names no database has db = PodWide. A value is the
\* list that splitting it at the commas gives: one that is not set is <<"">>.
PodWide == 0

Unset == <<"">>

\* The fields of a dbConfiguration, named for the annotation types that set them
\* ("env-key-dbuser", "env-key-dbpassword" and "env-key-uri" are shortened).
Fields == {"role", "mode", "user", "password", "uri", "template"}

\* The value of an annotation, or Unset. Modes are given in lower case.
ValueIn(as, db, type) ==
  IF \E e \in as : e.db = db /\ e.type = type
    THEN (CHOOSE e \in as : e.db = db /\ e.type = type).value
    ELSE Unset

NewConf(db) ==
  [db |-> db, role |-> ValueIn(annotations, PodWide, "role"), mode |-> Unset,
   user |-> Unset, password |-> Unset, uri |-> Unset, template |-> Unset]

\* The dbConfiguration of the name is found or created, and its field set; a
\* type that is not handled creates it all the same.
WithAnnotation(cs, e) ==
  LET found == IF \E i \in DOMAIN cs : cs[i].db = e.db THEN cs ELSE Append(cs, NewConf(e.db))
  IN  [i \in DOMAIN found |-> IF found[i].db = e.db /\ e.type \in Fields
                                THEN [found[i] EXCEPT ![e.type] = e.value]
                                ELSE found[i]]

\* (variant) The configurations stay in the order of the iteration.
AsIterated(cs) == cs

\* A set of dbConfigurations, of different databases, in the order of their names.
InOrder(S) ==
  CHOOSE s \in [1..Cardinality(S) -> S] : \A i, j \in DOMAIN s : i < j => s[i].db < s[j].db

\* sort.Slice on DbName.
ByName(cs) == InOrder(Range(cs))

StartParsing(as) ==
  /\ annotations' = as
  /\ todo' = as
  /\ confs' = <<>>

\* One round of the loop; any annotation that is left may come next.
ParseOne ==
  \E e \in todo :
    /\ e.type # "revoke-ttl"
    /\ todo' = todo \ {e}
    /\ confs' = IF e.db = PodWide THEN confs ELSE WithAnnotation(confs, e)
    /\ UNCHANGED annotations

\* The caller is done with what the parser returned.
ParserDone ==
  /\ todo' = {} /\ confs' = <<>>
  /\ UNCHANGED annotations

\* ErrV1AnnotationDetected
MeetsV1Annotation == \E e \in todo : e.type = "revoke-ttl"

\* What a parser that had all annotations at hand would return; the dbConfiguration
\* of db when it has met those in met.
ConfOf(as, met, db) ==
  [db |-> db, mode |-> ValueIn(met, db, "mode"), user |-> ValueIn(met, db, "user"),
   password |-> ValueIn(met, db, "password"), uri |-> ValueIn(met, db, "uri"),
   template |-> ValueIn(met, db, "template"),
   role |-> IF \E e \in met : e.db = db /\ e.type = "role"
              THEN ValueIn(met, db, "role") ELSE ValueIn(as, PodWide, "role")]

ConfsMet(as, met) == {ConfOf(as, met, db) : db \in {e.db : e \in met} \ {PodWide}}

ConfsOf(as) == InOrder(ConfsMet(as, as))
=============================================================================
