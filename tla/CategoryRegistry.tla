--------------------------- MODULE CategoryRegistry ---------------------------
(***************************************************************************)
(* The skiptokens of one category's rows in sync_entity, as pages assign   *)
(* them (opentk-db::sync_writer).                                          *)
(***************************************************************************)
EXTENDS Naturals

CONSTANTS
  Ids,         \* the source_ids of the category, numbered in their order
  MaxToken     \* bound: the last skiptoken

VARIABLES
  registry,    \* registry[i]: sync_entity.latest_skiptoken, 0: no row
  last         \* sync_category.latest_skiptoken

RegistryInit ==
  /\ registry = [i \in Ids |-> 0]
  /\ last = 0

(* The rows that a page gives its token: those that it writes, be theirs   *)
(* higher (upsert_sync_entity), and those that its relations lead to and   *)
(* whose is lower (upsert_relation_target: GREATEST).                      *)
Given(written, touched, token) == written \cup {i \in touched : registry[i] < token}

Assign(given, token) == registry' = [i \in Ids |-> IF i \in given THEN token ELSE registry[i]]

(* A page of the category, its relations within the category included.     *)
StorePage(written, touched, token) ==
  /\ token > last
  /\ Assign(Given(written, touched, token), token)
  /\ last' = token

(* A page of another category.                                             *)
Touch(touched, token) ==
  /\ Assign(Given({}, touched, token), token)
  /\ UNCHANGED last

RegistryNext ==
  \E touched \in SUBSET Ids, token \in 1 .. MaxToken :
    \/ \E written \in (SUBSET Ids) \ {{}} : StorePage(written, touched, token)
    \/ Touch(touched, token)

RegistrySpec == RegistryInit /\ [][RegistryNext]_<<registry, last>>
=============================================================================
