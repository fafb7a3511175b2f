--------------------------- MODULE CategoryCursor ---------------------------
(***************************************************************************)
(* What the synchronisation of one or more SyncFeed categories promises,   *)
(* with no word about workers, transactions or crashes.  Upstream appends  *)
(* entries to a category's feed; the database holds a cursor into that     *)
(* feed and, per entity, the last entry stored for it.  The promise of     *)
(* docs/storage-model.md ("cursor moves after relational writes commit")   *)
(* and docs/architecture.md (resume from the cursor) is that the two move  *)
(* together: whatever the cursor says, the rows are the last-write-wins    *)
(* image of exactly the entries before it.                                 *)
(***************************************************************************)
EXTENDS Naturals

CONSTANTS
  Categories,   \* the configured SyncFeed categories
  Entities,     \* entity ids that entries can be about
  MaxFeed       \* bound: entries upstream ever publishes in a category

VARIABLES
  feed,         \* feed[c][i]: the entity entry i of category c is about
  published,    \* published[c]: how many entries upstream has published
  cursor,       \* cursor[c]: how many entries the durable cursor is past
  rows          \* rows[c][e]: the entry the row of e was written from, 0: none

vars == <<feed, published, cursor, rows>>

(* Rows r hold, for every entity, the last of the first q entries of f.    *)
Reflects(f, r, q) ==
  \A e \in Entities :
    /\ r[e] \in 0 .. q
    /\ r[e] # 0 => f[r[e]] = e
    /\ \A j \in 1 .. q : r[e] < j => f[j] # e

Init ==
  /\ feed \in [Categories -> [1 .. MaxFeed -> Entities]]
  /\ published = [c \in Categories |-> 0]
  /\ cursor = [c \in Categories |-> 0]
  /\ rows = [c \in Categories |-> [e \in Entities |-> 0]]

Publish(c) ==
  /\ published[c] < MaxFeed
  /\ published' = [published EXCEPT ![c] = @ + 1]
  /\ UNCHANGED <<feed, cursor, rows>>

(* Rows and cursor change in one step, forwards, over published entries.   *)
Advance(c) ==
  \E q \in 1 .. published[c] : \E r \in [Entities -> 0 .. MaxFeed] :
    /\ cursor[c] < q
    /\ Reflects(feed[c], r, q)
    /\ cursor' = [cursor EXCEPT ![c] = q]
    /\ rows' = [rows EXCEPT ![c] = r]
    /\ UNCHANGED <<feed, published>>

Next == \E c \in Categories : Publish(c) \/ Advance(c)

Spec == Init /\ [][Next]_vars
=============================================================================
