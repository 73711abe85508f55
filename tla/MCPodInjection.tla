--------------------------- MODULE MCPodInjection ---------------------------
(***************************************************************************)
(* Annotations and Vault roles for TLC: one or two databases, complete,    *)
(* incomplete and odd ones, and those an edit may turn them into.          *)
(***************************************************************************)
EXTENDS PodInjection

Annotation(db, type, value) == [db |-> db, type |-> type, value |-> value]

Keys(db, role, user, password) ==
  {Annotation(db, "role", <<role>>), Annotation(db, "user", user),
   Annotation(db, "password", password)}

Uri(db, role, uri, template) ==
  {Annotation(db, "role", <<role>>), Annotation(db, "mode", <<"uri">>),
   Annotation(db, "uri", uri), Annotation(db, "template", <<template>>)}

MCVaultRoles ==
  ("reader" :> [policies |-> {"reader"}, serviceAccounts |-> {"app"}, namespaces |-> {"ns"}]) @@
  ("writer" :> [policies |-> {"writer"}, serviceAccounts |-> {"app", "job"}, namespaces |-> {"ns"}]) @@
  ("admin" :> [policies |-> {"admin"}, serviceAccounts |-> {"job"}, namespaces |-> {"ns"}])

MCPodAnnotations ==
  LET one == Keys(1, "reader", <<"U1", "V1">>, <<"P1">>)
      two == Keys(2, "writer", <<"U2">>, <<"P2">>)
  IN  { one, two, one \cup two,
        \* one of each mode, and a third database
        one \cup Uri(2, "writer", <<"D2">>, "authority"),
        two \cup Keys(3, "reader", <<"U3">>, <<"P3">>),
        \* a variable of both databases
        one \cup Keys(2, "writer", <<"U1">>, <<"P2">>),
        \* the variables of user and password swapped, and given to the other database
        Keys(1, "reader", <<"P1">>, <<"U1", "V1">>),
        Keys(1, "writer", <<"U2">>, <<"P2">>),
        \* a role that does not bind the service account, none, and one for all
        Keys(1, "admin", <<"U1", "V1">>, <<"P1">>),
        {Annotation(1, "user", <<"U1">>), Annotation(1, "password", <<"P1">>)},
        {Annotation(PodWide, "role", <<"reader">>), Annotation(1, "user", <<"U1">>),
         Annotation(1, "password", <<"P1">>), Annotation(1, "ttl", <<"1h">>)},
        \* templates that cannot take a user, and a mode that is not known
        Uri(1, "reader", <<"U1">>, "opaque"), Uri(1, "reader", <<"U1">>, "markers"),
        Keys(1, "reader", <<"U1">>, <<"P1">>) \cup {Annotation(1, "mode", <<"file">>)},
        \* variables left out, and the pods of the v1 injector
        {Annotation(1, "role", <<"reader">>), Annotation(1, "user", <<"U1">>)},
        one \cup {Annotation(PodWide, "revoke-ttl", <<"1h">>)}, {} }
=============================================================================
