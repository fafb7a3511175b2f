--------------------------- MODULE SyncWriterProofs ---------------------------
(***************************************************************************)
(* Theorems about SyncWriter for any writers, keys, pages and skiptokens.  *)
(***************************************************************************)
EXTENDS SyncWriter, Induction

USE WritersAssumption, KeysAssumption, PagesAssumption, MaxTokenAssumption

LEMMA AbsentType == Absent \in Row /\ Absent.sk = 0 /\ Absent.row = 0 /\ Absent.links = {}
                    /\ ~Absent.deleted
  BY DEF Absent, Abstract!Absent, Abstract!Registered, Row, Tokens

(* The upsert of a relation target: typed, never older, nothing else.      *)
LEMMA TouchRow ==
  ASSUME NEW r \in Row, NEW t \in Tokens
  PROVE  /\ Touch(r, t) \in Row
         /\ Touch(r, t).sk \in Nat /\ t <= Touch(r, t).sk /\ r.sk <= Touch(r, t).sk
         /\ r.sk # 0 => /\ Touch(r, t).deleted = r.deleted
                        /\ Touch(r, t).row = r.row /\ Touch(r, t).links = r.links
         /\ r.sk = 0 => /\ ~Touch(r, t).deleted
                        /\ Touch(r, t).row = 0 /\ Touch(r, t).links = {}
<1>1. CASE r.sk = 0
  <2>1. Touch(r, t) = [sk |-> t, deleted |-> FALSE, row |-> 0, links |-> {}]
    BY <1>1 DEF Touch, Marked
  <2>. QED  BY <1>1, <2>1 DEF Row, Tokens
<1>2. CASE r.sk # 0
  <2>1. Touch(r, t) = [sk |-> IF r.sk < t THEN t ELSE r.sk, deleted |-> r.deleted,
                       row |-> r.row, links |-> r.links]
    BY <1>2 DEF Touch, Row
  <2>. QED  BY <1>2, <2>1 DEF Row, Tokens
<1>. QED  BY <1>1, <1>2

LEMMA MarkedRow ==
  ASSUME NEW t \in Tokens, NEW b \in BOOLEAN
  PROVE  Marked(t, b) \in Row
  BY DEF Marked, Row, Tokens

LEMMA FilledRow ==
  ASSUME NEW r \in Row, NEW t \in Tokens, NEW ks \in SUBSET Keys
  PROVE  Filled(r, t, ks) \in Row
  BY DEF Filled, Row, Tokens

(* A writer at an entity of its page is at a typed one.                    *)
LEMMA EntityTyped ==
  ASSUME TypeOK, NEW w \in Writers, pc[w] # "idle"
  PROVE  /\ page[w] \in Seq(Entity) /\ page[w] # <<>>
         /\ at[w] <= Len(page[w]) =>
              /\ Current(w) \in Entity
              /\ Current(w).key \in Keys /\ Current(w).deleted \in BOOLEAN
              /\ Current(w).targets \in Seq(Keys)
              /\ Current(w).key \in KeysOf(page[w])
              /\ Targets(Current(w)) \in SUBSET Keys
              /\ Targets(Current(w)) \subseteq KeysOf(page[w])
<1>1. page[w] \in Pages[w]  BY DEF TypeOK, Placed
<1>2. page[w] \in Seq(Entity) /\ page[w] # <<>>  BY <1>1
<1>3. ASSUME at[w] <= Len(page[w])
      PROVE  /\ Current(w) \in Entity
             /\ at[w] \in DOMAIN page[w]
  BY <1>2, <1>3 DEF Current, TypeOK
<1>. QED
  BY <1>2, <1>3 DEF Current, Entity, KeysOf, Targets

LEMMA ReadTyped ==
  ASSUME TypeOK, NEW w \in Writers, NEW k \in Keys
  PROVE  Read(w, k) \in Row
  BY DEF Read, TypeOK

LEMMA WriteTyped ==
  ASSUME TypeOK, NEW w \in Writers, NEW k \in Keys, NEW r \in Row, Write(w, k, r)
  PROVE  dirty' \in [Writers -> SUBSET Keys] /\ view' \in [Writers -> [Keys -> Row]]
  BY DEF Write, TypeOK

LEMMA TypeInit == Init => TypeOK
<1> SUFFICES ASSUME Init PROVE TypeOK
  OBVIOUS
<1>1. NoView \in [Keys -> Row]  BY AbsentType DEF NoView
<1>2. 0 \in Tokens  BY DEF Tokens
<1>. QED  BY <1>1, <1>2, AbsentType DEF Init, TypeOK, Placed

(* What w does leaves the place of the others alone.                       *)
LEMMA PlacedOther ==
  ASSUME TypeOK, NEW v \in Writers,
         pc'[v] = pc[v], page'[v] = page[v], at'[v] = at[v], to'[v] = to[v]
  PROVE  Placed(v)'
  BY DEF TypeOK, Placed, Current

(* The end of a transaction.                                               *)
LEMMA EndTyped ==
  ASSUME TypeOK, NEW w \in Writers, End(w),
         db' \in [Keys -> Row], cursor' \in [Writers -> Tokens]
  PROVE  TypeOK'
<1>1. NoView \in [Keys -> Row]  BY AbsentType DEF NoView
<1>2. 0 \in Tokens  BY DEF Tokens
<1>3. /\ pc' = [pc EXCEPT ![w] = "idle"]
      /\ page' = [page EXCEPT ![w] = <<>>]
      /\ token' = [token EXCEPT ![w] = 0]
      /\ held' = [held EXCEPT ![w] = {}]
      /\ at' = [at EXCEPT ![w] = 1]
      /\ to' = [to EXCEPT ![w] = 1]
      /\ dirty' = [dirty EXCEPT ![w] = {}]
      /\ view' = [view EXCEPT ![w] = NoView]
  BY DEF End
<1>4. /\ pc' \in [Writers -> {"idle", "lock", "entity", "targets"}]
      /\ page' \in [Writers -> Seq(Entity)]
      /\ token' \in [Writers -> Tokens]
      /\ held' \in [Writers -> SUBSET Keys]
      /\ at' \in [Writers -> Nat \ {0}]
      /\ to' \in [Writers -> Nat \ {0}]
      /\ dirty' \in [Writers -> SUBSET Keys]
      /\ view' \in [Writers -> [Keys -> Row]]
  BY <1>1, <1>2, <1>3 DEF TypeOK
<1>5. ASSUME NEW v \in Writers PROVE Placed(v)'
  <2>1. CASE v = w  BY <1>3, <2>1 DEF TypeOK, Placed
  <2>2. CASE v # w  BY <1>3, <2>2, PlacedOther DEF TypeOK
  <2>. QED  BY <2>1, <2>2
<1>. QED
  BY <1>4, <1>5 DEF TypeOK

(* Types are preserved by every action.                                    *)
LEMMA TypeStep == ASSUME TypeOK, [Next]_vars PROVE TypeOK'
<1>1. ASSUME NEW w \in Writers, Begin(w) PROVE TypeOK'
  <2>1. PICK p \in Pages[w], t \in cursor[w] + 1 .. MaxToken :
          /\ page' = [page EXCEPT ![w] = p]
          /\ token' = [token EXCEPT ![w] = t]
    BY <1>1 DEF Begin
  <2>2. p \in Seq(Entity) /\ t \in Tokens  BY DEF TypeOK, Tokens
  <2>3. /\ pc' = [pc EXCEPT ![w] = "lock"] /\ at[w] <= 1
        /\ UNCHANGED <<db, cursor, held, at, to, dirty, view>>
    BY <1>1 DEF Begin, TypeOK, Placed
  <2>4. ASSUME NEW v \in Writers PROVE Placed(v)'
    <3>1. CASE v = w  BY <2>1, <2>2, <2>3, <3>1 DEF TypeOK, Placed
    <3>2. CASE v # w  BY <2>1, <2>3, <3>2, PlacedOther DEF TypeOK
    <3>. QED  BY <3>1, <3>2
  <2>. QED  BY <2>1, <2>2, <2>3, <2>4 DEF TypeOK
<1>2. ASSUME NEW w \in Writers, AcquireLock(w) PROVE TypeOK'
  <2>1. ASSUME NEW v \in Writers PROVE Placed(v)'
    BY <1>2, PlacedOther DEF AcquireLock
  <2>. QED  BY <1>2, <2>1 DEF AcquireLock, TypeOK
<1>3. ASSUME NEW w \in Writers, Locked(w) PROVE TypeOK'
  <2>1. ASSUME NEW v \in Writers PROVE Placed(v)'
    <3>1. CASE v = w  BY <1>3, <3>1 DEF Locked, txVars, TypeOK, Placed
    <3>2. CASE v # w  BY <1>3, <3>2, PlacedOther DEF Locked, txVars, TypeOK
    <3>. QED  BY <3>1, <3>2
  <2>. QED  BY <1>3, <2>1 DEF Locked, txVars, TypeOK
<1>4. ASSUME NEW w \in Writers, UpsertEntity(w) PROVE TypeOK'
  <2>. DEFINE e == Current(w)
  <2>1. /\ pc[w] = "entity" /\ at[w] <= Len(page[w])
        /\ Write(w, e.key, Marked(token[w], e.deleted))
        /\ UNCHANGED <<db, cursor, page, token, held>>
        /\ \/ /\ at' = [at EXCEPT ![w] = @ + 1] /\ UNCHANGED <<pc, to>>
           \/ /\ pc' = [pc EXCEPT ![w] = "targets"] /\ to' = [to EXCEPT ![w] = 1]
              /\ UNCHANGED at
    BY <1>4 DEF UpsertEntity
  <2>2. e.key \in Keys /\ e.deleted \in BOOLEAN /\ e.targets \in Seq(Keys)
    BY <2>1, EntityTyped
  <2>3. Marked(token[w], e.deleted) \in Row  BY <2>2, MarkedRow DEF TypeOK
  <2>4. dirty' \in [Writers -> SUBSET Keys] /\ view' \in [Writers -> [Keys -> Row]]
    BY <2>1, <2>2, <2>3, WriteTyped
  <2>5. ASSUME NEW v \in Writers PROVE Placed(v)'
    <3>1. CASE v = w
      <4>1. page[w] \in Pages[w]  BY <2>1 DEF TypeOK, Placed
      <4>2. Len(page[w]) \in Nat /\ at[w] \in Nat  BY <2>1, EntityTyped DEF TypeOK
      <4>3. Len(e.targets) \in Nat  BY <2>2
      <4>. QED  BY <2>1, <3>1, <4>1, <4>2, <4>3 DEF TypeOK, Placed, Current
    <3>2. CASE v # w  BY <2>1, <3>2, PlacedOther DEF TypeOK
    <3>. QED  BY <3>1, <3>2
  <2>6. /\ at' \in [Writers -> Nat \ {0}] /\ to' \in [Writers -> Nat \ {0}]
        /\ pc' \in [Writers -> {"idle", "lock", "entity", "targets"}]
    <3>1. CASE at' = [at EXCEPT ![w] = @ + 1] /\ UNCHANGED <<pc, to>>
      BY <3>1 DEF TypeOK
    <3>2. CASE /\ pc' = [pc EXCEPT ![w] = "targets"] /\ to' = [to EXCEPT ![w] = 1]
               /\ UNCHANGED at
      BY <3>2 DEF TypeOK
    <3>. QED  BY <2>1, <3>1, <3>2
  <2>. QED  BY <2>1, <2>4, <2>5, <2>6 DEF TypeOK
<1>5. ASSUME NEW w \in Writers, UpsertTarget(w) PROVE TypeOK'
  <2>. DEFINE e == Current(w)
              k == e.targets[to[w]]
  <2>1. /\ pc[w] = "targets" /\ to[w] <= Len(e.targets)
        /\ Write(w, k, Touch(Read(w, k), token[w]))
        /\ to' = [to EXCEPT ![w] = @ + 1]
        /\ UNCHANGED <<db, cursor, pc, page, token, held, at>>
    BY <1>5 DEF UpsertTarget
  <2>2. e.targets \in Seq(Keys) /\ k \in Keys
    <3>1. at[w] <= Len(page[w]) /\ to[w] \in Nat \ {0}
      BY <2>1 DEF TypeOK, Placed
    <3>. QED  BY <2>1, <3>1, EntityTyped
  <2>3. Touch(Read(w, k), token[w]) \in Row  BY <2>2, ReadTyped, TouchRow DEF TypeOK
  <2>4. dirty' \in [Writers -> SUBSET Keys] /\ view' \in [Writers -> [Keys -> Row]]
    BY <2>1, <2>2, <2>3, WriteTyped
  <2>5. ASSUME NEW v \in Writers PROVE Placed(v)'
    <3>1. CASE v = w
      <4>1. Len(e.targets) \in Nat /\ to[w] \in Nat  BY <2>2 DEF TypeOK
      <4>. QED  BY <2>1, <3>1, <4>1 DEF TypeOK, Placed, Current
    <3>2. CASE v # w  BY <2>1, <3>2, PlacedOther DEF TypeOK
    <3>. QED  BY <3>1, <3>2
  <2>6. to' \in [Writers -> Nat \ {0}]  BY <2>1 DEF TypeOK
  <2>. QED  BY <2>1, <2>4, <2>5, <2>6 DEF TypeOK
<1>6. ASSUME NEW w \in Writers, InsertRows(w) PROVE TypeOK'
  <2>. DEFINE e == Current(w)
              r == Filled(Read(w, e.key), token[w], Targets(e))
  <2>1. /\ pc[w] = "targets" /\ Write(w, e.key, r)
        /\ at' = [at EXCEPT ![w] = @ + 1] /\ pc' = [pc EXCEPT ![w] = "entity"]
        /\ UNCHANGED <<db, cursor, page, token, held, to>>
    BY <1>6 DEF InsertRows
  <2>2. at[w] <= Len(page[w])  BY <2>1 DEF TypeOK, Placed
  <2>3. e.key \in Keys /\ Targets(e) \in SUBSET Keys  BY <2>1, <2>2, EntityTyped
  <2>4. r \in Row  BY <2>3, ReadTyped, FilledRow DEF TypeOK
  <2>5. dirty' \in [Writers -> SUBSET Keys] /\ view' \in [Writers -> [Keys -> Row]]
    BY <2>1, <2>3, <2>4, WriteTyped
  <2>6. ASSUME NEW v \in Writers PROVE Placed(v)'
    <3>1. CASE v = w
      <4>1. page[w] \in Pages[w] /\ Len(page[w]) \in Nat /\ at[w] \in Nat
        BY <2>1, EntityTyped DEF TypeOK, Placed
      <4>. QED  BY <2>1, <2>2, <3>1, <4>1 DEF TypeOK, Placed
    <3>2. CASE v # w  BY <2>1, <3>2, PlacedOther DEF TypeOK
    <3>. QED  BY <3>1, <3>2
  <2>7. at' \in [Writers -> Nat \ {0}]  BY <2>1 DEF TypeOK
  <2>8. pc' \in [Writers -> {"idle", "lock", "entity", "targets"}]  BY <2>1 DEF TypeOK
  <2>. QED  BY <2>1, <2>5, <2>6, <2>7, <2>8 DEF TypeOK
<1>7. ASSUME NEW w \in Writers, Commit(w) PROVE TypeOK'
  <2>1. db' = [k \in Keys |-> Read(w, k)] /\ cursor' = [cursor EXCEPT ![w] = token[w]] /\ End(w)
    BY <1>7 DEF Commit
  <2>2. db' \in [Keys -> Row]  BY <2>1, ReadTyped
  <2>3. cursor' \in [Writers -> Tokens]  BY <2>1 DEF TypeOK
  <2>. QED  BY <2>1, <2>2, <2>3, EndTyped
<1>8. ASSUME NEW w \in Writers, Rollback(w) PROVE TypeOK'
  BY <1>8, EndTyped DEF Rollback, TypeOK
<1>9. CASE UNCHANGED vars
  <2>1. ASSUME NEW v \in Writers PROVE Placed(v)'  BY <1>9, PlacedOther DEF vars
  <2>. QED  BY <1>9, <2>1 DEF vars, TypeOK
<1>. QED
  BY <1>1, <1>2, <1>3, <1>4, <1>5, <1>6, <1>7, <1>8, <1>9 DEF Next, Statement

(* Every reachable state is typed, and every writer is inside its page     *)
(* (the loops of write_sync_page).                                         *)
THEOREM TypeCorrect == Spec => []TypeOK
  BY TypeInit, TypeStep, PTL DEF Spec

-------------------------------------------------------------------------------
(* Locks.                                                                  *)

LEMMA KeysTyped ==
  ASSUME NEW p \in Seq(Entity)
  PROVE  KeysOf(p) \subseteq Keys
<1>1. ASSUME NEW i \in DOMAIN p
      PROVE  p[i].key \in Keys /\ Targets(p[i]) \subseteq Keys
  <2>1. p[i] \in Entity  OBVIOUS
  <2>. QED  BY <2>1 DEF Entity, Targets
<1>. QED  BY <1>1 DEF KeysOf

(* What w does leaves the locks of the others alone.                       *)
LEMMA LocksOther ==
  ASSUME NEW v \in Writers, LocksOf(v),
         pc'[v] = pc[v], page'[v] = page[v], held'[v] = held[v], dirty'[v] = dirty[v]
  PROVE  LocksOf(v)'
  BY DEF LocksOf

(* A statement that takes no lock keeps the locks exclusive.               *)
LEMMA LocksKept ==
  ASSUME LocksOrdered, NEW w \in Writers, LocksOf(w)', UNCHANGED held,
         \A v \in Writers \ {w} : /\ pc'[v] = pc[v] /\ page'[v] = page[v]
                                  /\ dirty'[v] = dirty[v]
  PROVE  LocksOrdered'
<1>1. ASSUME NEW v \in Writers PROVE LocksOf(v)'
  BY LocksOther DEF LocksOrdered
<1>. QED  BY <1>1 DEF LocksOrdered

LEMMA LocksEnd ==
  ASSUME TypeOK, LocksOrdered, NEW w \in Writers, End(w)
  PROVE  LocksOrdered'
<1>1. /\ pc'[w] = "idle" /\ held'[w] = {} /\ dirty'[w] = {}
      /\ \A v \in Writers \ {w} : /\ pc'[v] = pc[v] /\ page'[v] = page[v]
                                   /\ held'[v] = held[v] /\ dirty'[v] = dirty[v]
  BY DEF End, TypeOK
<1>2. LocksOf(w)'  BY <1>1 DEF LocksOf
<1>3. ASSUME NEW v \in Writers PROVE LocksOf(v)'
  BY <1>1, <1>2, LocksOther DEF LocksOrdered
<1>. QED  BY <1>1, <1>3 DEF LocksOrdered

(* A row is written under its advisory lock.                               *)
LEMMA LocksWrite ==
  ASSUME TypeOK, LocksOrdered, NEW w \in Writers, NEW k \in KeysOf(page[w]), NEW r,
         pc[w] \in {"entity", "targets"}, Write(w, k, r),
         pc'[w] \in {"entity", "targets"}, UNCHANGED <<page, held>>,
         \A v \in Writers \ {w} : pc'[v] = pc[v]
  PROVE  LocksOrdered'
<1>1. /\ dirty'[w] = dirty[w] \cup {k}
      /\ \A v \in Writers \ {w} : dirty'[v] = dirty[v]
  BY DEF Write, TypeOK
<1>2. KeysOf(page[w]) \subseteq held[w]  BY DEF LocksOrdered, LocksOf
<1>3. dirty[w] \subseteq held[w]  BY DEF LocksOrdered, LocksOf
<1>4. LocksOf(w)'  BY <1>1, <1>2, <1>3 DEF LocksOf
<1>. QED  BY <1>1, <1>4, LocksKept

LEMMA LocksInit == Init => LocksOrdered
  BY DEF Init, LocksOrdered, LocksOf

LEMMA LocksStep == ASSUME TypeOK, LocksOrdered, [Next]_vars PROVE LocksOrdered'
<1>1. ASSUME NEW w \in Writers, Begin(w) PROVE LocksOrdered'
  <2>1. /\ pc[w] = "idle" /\ pc' = [pc EXCEPT ![w] = "lock"]
        /\ \E p \in Pages[w] : page' = [page EXCEPT ![w] = p]
        /\ UNCHANGED <<held, dirty>>
    BY <1>1 DEF Begin
  <2>2. pc'[w] = "lock" /\ \A v \in Writers \ {w} : pc'[v] = pc[v] /\ page'[v] = page[v]
    BY <2>1 DEF TypeOK
  <2>3. LocksOf(w)'  BY <2>1, <2>2 DEF LocksOrdered, LocksOf
  <2>. QED  BY <2>1, <2>2, <2>3, LocksKept
<1>2. ASSUME NEW w \in Writers, AcquireLock(w) PROVE LocksOrdered'
  <2>1. PICK k \in Keys : /\ NextLock(w, k)
                          /\ \A v \in Writers : k \notin held[v]
                          /\ held' = [held EXCEPT ![w] = @ \cup {k}]
    BY <1>2 DEF AcquireLock
  <2>2. pc[w] = "lock" /\ UNCHANGED <<pc, page, dirty>>  BY <1>2 DEF AcquireLock
  <2>3. /\ held'[w] = held[w] \cup {k}
        /\ \A v \in Writers \ {w} : held'[v] = held[v]
    BY <2>1 DEF TypeOK
  <2>4. ASSUME NEW h \in held'[w], NEW j \in KeysOf(page[w]) \ held'[w] PROVE h < j
    <3>1. page[w] \in Seq(Entity)  BY DEF TypeOK
    <3>2. j \in Nat /\ k \in Nat  BY <3>1, KeysTyped
    <3>3. j # k /\ j \in KeysOf(page[w]) \ held[w]  BY <2>3
    <3>4. k < j  BY <2>1, <3>2, <3>3 DEF NextLock
    <3>5. CASE h = k  BY <3>4, <3>5
    <3>6. CASE h \in held[w]  BY <2>2, <3>3, <3>6 DEF LocksOrdered, LocksOf
    <3>. QED  BY <2>3, <3>5, <3>6
  <2>5. dirty[w] = {}  BY <2>2 DEF LocksOrdered, LocksOf
  <2>6. LocksOf(w)'  BY <2>2, <2>4, <2>5 DEF LocksOf
  <2>7. ASSUME NEW v \in Writers PROVE LocksOf(v)'
    BY <2>2, <2>3, <2>6, LocksOther DEF LocksOrdered
  <2>8. ASSUME NEW u \in Writers, NEW v \in Writers \ {u}
        PROVE  held'[u] \cap held'[v] = {}
    BY <2>1, <2>3 DEF LocksOrdered
  <2>. QED  BY <2>7, <2>8 DEF LocksOrdered
<1>3. ASSUME NEW w \in Writers, Locked(w) PROVE LocksOrdered'
  <2>1. /\ pc[w] = "lock" /\ KeysOf(page[w]) \subseteq held[w]
        /\ pc' = [pc EXCEPT ![w] = "entity"] /\ UNCHANGED <<page, held, dirty>>
    BY <1>3 DEF Locked, txVars
  <2>2. pc'[w] = "entity" /\ \A v \in Writers \ {w} : pc'[v] = pc[v]
    BY <2>1 DEF TypeOK
  <2>3. LocksOf(w)'  BY <2>1, <2>2 DEF LocksOrdered, LocksOf
  <2>. QED  BY <2>1, <2>2, <2>3, LocksKept
<1>4. ASSUME NEW w \in Writers, UpsertEntity(w) PROVE LocksOrdered'
  <2>1. /\ pc[w] = "entity" /\ at[w] <= Len(page[w])
        /\ Write(w, Current(w).key, Marked(token[w], Current(w).deleted))
        /\ UNCHANGED <<page, held>>
        /\ pc' = pc \/ pc' = [pc EXCEPT ![w] = "targets"]
    BY <1>4 DEF UpsertEntity
  <2>2. /\ pc'[w] \in {"entity", "targets"}
        /\ \A v \in Writers \ {w} : pc'[v] = pc[v]
    BY <2>1 DEF TypeOK
  <2>3. Current(w).key \in KeysOf(page[w])  BY <2>1, EntityTyped
  <2>. QED  BY <2>1, <2>2, <2>3, LocksWrite
<1>5. ASSUME NEW w \in Writers, UpsertTarget(w) PROVE LocksOrdered'
  <2>. DEFINE k == Current(w).targets[to[w]]
  <2>1. /\ pc[w] = "targets" /\ to[w] <= Len(Current(w).targets)
        /\ Write(w, k, Touch(Read(w, k), token[w]))
        /\ UNCHANGED <<pc, page, held>>
    BY <1>5 DEF UpsertTarget
  <2>2. at[w] <= Len(page[w]) /\ to[w] \in Nat \ {0}
    BY <2>1 DEF TypeOK, Placed
  <2>3. k \in KeysOf(page[w])
    <3>1. /\ Current(w).targets \in Seq(Keys)
          /\ Targets(Current(w)) \subseteq KeysOf(page[w])
      BY <2>1, <2>2, EntityTyped
    <3>. QED  BY <2>1, <2>2, <3>1 DEF Targets
  <2>. QED  BY <2>1, <2>3, LocksWrite
<1>6. ASSUME NEW w \in Writers, InsertRows(w) PROVE LocksOrdered'
  <2>1. /\ pc[w] = "targets" /\ pc' = [pc EXCEPT ![w] = "entity"]
        /\ \E r : Write(w, Current(w).key, r)
        /\ UNCHANGED <<page, held>>
    BY <1>6 DEF InsertRows
  <2>2. pc'[w] = "entity" /\ \A v \in Writers \ {w} : pc'[v] = pc[v]
    BY <2>1 DEF TypeOK
  <2>3. at[w] <= Len(page[w])  BY <2>1 DEF TypeOK, Placed
  <2>4. Current(w).key \in KeysOf(page[w])  BY <2>1, <2>3, EntityTyped
  <2>. QED  BY <2>1, <2>2, <2>4, LocksWrite
<1>7. ASSUME NEW w \in Writers, Commit(w) PROVE LocksOrdered'
  BY <1>7, LocksEnd DEF Commit
<1>8. ASSUME NEW w \in Writers, Rollback(w) PROVE LocksOrdered'
  BY <1>8, LocksEnd DEF Rollback
<1>9. CASE UNCHANGED vars
  BY <1>9, LocksOther DEF vars, LocksOrdered
<1>. QED
  BY <1>1, <1>2, <1>3, <1>4, <1>5, <1>6, <1>7, <1>8, <1>9 DEF Next, Statement

(* Every row is written under an advisory lock that no other transaction   *)
(* has, and the locks are taken in ascending order                         *)
(* (collect_sync_entity_keys, acquire_sync_entity_locks).                  *)
THEOREM LockDiscipline == Spec => []LocksOrdered
<1>1. TypeOK /\ LocksOrdered /\ [Next]_vars => TypeOK' /\ LocksOrdered'
  BY TypeStep, LocksStep
<1>. QED  BY TypeInit, LocksInit, <1>1, PTL DEF Spec

(* A transaction waits only while it takes its locks: rows are never       *)
(* waited for.                                                             *)
LEMMA WaitsInLockOnly ==
  ASSUME TypeOK, LocksOrdered, NEW w \in Writers, NEW v \in Writers, WaitsFor(w, v)
  PROVE  pc[w] = "lock" /\ \E k \in held[v] : NextLock(w, k)
<1>1. w # v  BY DEF WaitsFor
<1>2. dirty[v] \cap held[w] = {}  BY <1>1 DEF LocksOrdered, LocksOf
<1>3. CASE pc[w] = "entity" /\ at[w] <= Len(page[w]) /\ Current(w).key \in dirty[v]
  <2>1. Current(w).key \in KeysOf(page[w])  BY <1>3, EntityTyped
  <2>2. KeysOf(page[w]) \subseteq held[w]  BY <1>3 DEF LocksOrdered, LocksOf
  <2>. QED  BY <1>2, <1>3, <2>1, <2>2
<1>4. CASE /\ pc[w] = "targets" /\ to[w] <= Len(Current(w).targets)
           /\ Current(w).targets[to[w]] \in dirty[v]
  <2>1. at[w] <= Len(page[w]) /\ to[w] \in Nat \ {0}  BY <1>4 DEF TypeOK, Placed
  <2>2. /\ Current(w).targets \in Seq(Keys)
        /\ Targets(Current(w)) \subseteq KeysOf(page[w])
    BY <1>4, <2>1, EntityTyped
  <2>3. Current(w).targets[to[w]] \in Targets(Current(w))
    BY <1>4, <2>1, <2>2 DEF Targets
  <2>4. KeysOf(page[w]) \subseteq held[w]  BY <1>4 DEF LocksOrdered, LocksOf
  <2>. QED  BY <1>2, <1>4, <2>2, <2>3, <2>4
<1>. QED  BY <1>3, <1>4 DEF WaitsFor

(* The keys waited for ascend along a chain of waiting transactions.       *)
LEMMA WaitsAscend ==
  ASSUME TypeOK, LocksOrdered, NEW w \in Writers, NEW v \in Writers,
         NEW i \in held[v], NextLock(w, i),
         pc[v] = "lock", NEW j, NextLock(v, j)
  PROVE  i \in Nat /\ j \in Nat /\ i < j
<1>1. page[v] \in Seq(Entity) /\ held[v] \subseteq Keys  BY DEF TypeOK
<1>2. j \in KeysOf(page[v]) \ held[v]  BY DEF NextLock
<1>3. i < j  BY <1>2 DEF LocksOrdered, LocksOf
<1>. QED  BY <1>1, <1>2, <1>3, KeysTyped

LEMMA OneNextLock ==
  ASSUME TypeOK, NEW w \in Writers, NEW i, NextLock(w, i), NEW j, NextLock(w, j)
  PROVE  i = j
<1>1. page[w] \in Seq(Entity)  BY DEF TypeOK
<1>2. i \in Nat /\ j \in Nat  BY <1>1, KeysTyped DEF NextLock
<1>3. i <= j /\ j <= i  BY DEF NextLock
<1>. QED  BY <1>2, <1>3

LEMMA OrderedLocksDoNotCycle == ASSUME TypeOK, LocksOrdered PROVE NoWaitCycle
<1> SUFFICES ASSUME NEW S \in SUBSET Writers, S # {},
                    \A w \in S : \E v \in S : WaitsFor(w, v)
             PROVE  FALSE
  BY DEF NoWaitCycle
<1>. DEFINE Wants(w) == CHOOSE k : NextLock(w, k)
            Above(w) == {v \in S : Wants(v) > Wants(w)}
            T == {Above(w) : w \in S}
<1>1. ASSUME NEW w \in S
      PROVE  pc[w] = "lock" /\ NextLock(w, Wants(w))
  <2>1. PICK v \in S : WaitsFor(w, v)  OBVIOUS
  <2>2. pc[w] = "lock" /\ \E k : NextLock(w, k)  BY <2>1, WaitsInLockOnly
  <2>. QED  BY <2>2
<1>2. ASSUME NEW w \in S
      PROVE  \E v \in S : /\ Wants(w) \in Nat /\ Wants(v) \in Nat
                          /\ Wants(w) < Wants(v)
  <2>1. PICK v \in S : WaitsFor(w, v)  OBVIOUS
  <2>2. PICK k \in held[v] : NextLock(w, k)  BY <2>1, WaitsInLockOnly
  <2>3. k = Wants(w)  BY <1>1, <2>2, OneNextLock
  <2>. QED  BY <1>1, <2>2, <2>3, WaitsAscend
<1>3. IsFiniteSet(S)  BY FS_Subset
<1>4. IsWellFoundedOn(StrictSubsetOrdering(S), SUBSET S)
  BY <1>3, FS_StrictSubsetOrderingWellFounded, FS_FiniteSubsetsOfFinite
<1>5. T \subseteq SUBSET S /\ T # {}
  <2>1. \A w \in S : Above(w) \in SUBSET S  OBVIOUS
  <2>. HIDE DEF Above
  <2>. QED  BY <2>1
<1>6. PICK x \in T : \A y \in T : ~(<<y, x>> \in StrictSubsetOrdering(S))
  <2>. HIDE DEF T
  <2>. QED  BY <1>4, <1>5, WFMin
<1>7. PICK w \in S : x = Above(w)  BY <1>6
<1>8. PICK v \in S : Wants(w) \in Nat /\ Wants(v) \in Nat /\ Wants(w) < Wants(v)
  BY <1>2
<1>9. ASSUME NEW u \in S PROVE Wants(u) \in Nat  BY <1>2
<1>10. Above(v) \subseteq Above(w) /\ v \in Above(w) /\ v \notin Above(v)
  <2>1. ASSUME NEW u \in S, Wants(u) > Wants(v) PROVE Wants(u) > Wants(w)
    BY <1>8, <1>9, <2>1
  <2>2. Wants(v) > Wants(w) /\ ~(Wants(v) > Wants(v))  BY <1>8
  <2>. HIDE DEF Wants
  <2>. QED  BY <2>1, <2>2
<1>11. <<Above(v), Above(w)>> \in StrictSubsetOrdering(S)
  <2>1. Above(v) \in SUBSET S /\ Above(w) \in SUBSET S  OBVIOUS
  <2>. HIDE DEF Above
  <2>. QED  BY <1>10, <2>1 DEF StrictSubsetOrdering
<1>. QED  BY ZenonT(60), <1>6, <1>7, <1>11

(* No deadlock among the page transactions, however many writers there are *)
(* and whatever pages they are given (acquire_sync_entity_locks).          *)
THEOREM NoDeadlock == Spec => []NoWaitCycle
<1>1. TypeOK /\ LocksOrdered => NoWaitCycle  BY OrderedLocksDoNotCycle
<1>. QED  BY TypeCorrect, LockDiscipline, <1>1, PTL

-------------------------------------------------------------------------------
(* Rows.                                                                   *)

StoreInv == StoreConsistent /\ ViewsConsistent

LEMMA MarkedFits ==
  ASSUME NEW t \in Tokens, t # 0, NEW b \in BOOLEAN
  PROVE  Fits(Marked(t, b)) /\ Marked(t, b).sk # 0 /\ Marked(t, b).links = {}
  BY DEF Fits, Marked

LEMMA TouchFits ==
  ASSUME NEW r \in Row, Fits(r), NEW t \in Tokens, t # 0
  PROVE  /\ Fits(Touch(r, t)) /\ Touch(r, t).sk # 0
         /\ Touch(r, t).links = r.links
         /\ ~r.deleted /\ r.row = 0 => ~Touch(r, t).deleted /\ Touch(r, t).row = 0
         /\ t <= Touch(r, t).sk
<1>1. r.sk \in Nat /\ t \in Nat /\ r.row \in Nat  BY DEF Row, Tokens
<1>2. CASE r.sk = 0
  <2>1. r.row = 0  BY <1>1, <1>2 DEF Fits
  <2>2. r.links = {}  BY <2>1 DEF Fits
  <2>3. Touch(r, t) = Marked(t, FALSE)  BY <1>2 DEF Touch
  <2>4. Fits(Touch(r, t))  BY <2>3, MarkedFits
  <2>5. Touch(r, t) = [sk |-> t, deleted |-> FALSE, row |-> 0, links |-> {}]
    BY <2>3 DEF Marked
  <2>. QED  BY <1>1, <2>1, <2>2, <2>4, <2>5
<1>3. CASE r.sk # 0
  <2>1. /\ Touch(r, t).deleted = r.deleted /\ Touch(r, t).row = r.row
        /\ Touch(r, t).links = r.links
        /\ t <= Touch(r, t).sk /\ r.sk <= Touch(r, t).sk /\ Touch(r, t).sk \in Nat
    BY <1>3, TouchRow
  <2>2. Touch(r, t).sk # 0  BY <1>1, <1>3, <2>1
  <2>3. Fits(Touch(r, t))  BY <1>1, <2>1, <2>2 DEF Fits
  <2>. QED  BY <2>1, <2>2, <2>3
<1>. QED  BY <1>2, <1>3

LEMMA FilledFits ==
  ASSUME NEW r \in Row, NEW t \in Tokens, t # 0, NEW ks \in SUBSET Keys,
         ~r.deleted, t <= r.sk
  PROVE  /\ Fits(Filled(r, t, ks)) /\ Filled(r, t, ks).links = ks
         /\ Filled(r, t, ks).sk = r.sk /\ r.sk # 0
<1>1. t \in Nat /\ r.sk \in Nat  BY DEF Row, Tokens
<1>. QED  BY <1>1 DEF Fits, Filled

(* A write changes what its own transaction reads, and only that key.      *)
LEMMA WriteReads ==
  ASSUME TypeOK, NEW w \in Writers, NEW k \in Keys, NEW r, Write(w, k, r), UNCHANGED db
  PROVE  /\ Read(w, k)' = r /\ view'[w][k] = r
         /\ dirty'[w] = dirty[w] \cup {k}
         /\ \A j \in Keys \ {k} : Read(w, j)' = Read(w, j) /\ view'[w][j] = view[w][j]
         /\ \A v \in Writers \ {w} : dirty'[v] = dirty[v] /\ view'[v] = view[v]
  BY DEF Write, Read, TypeOK

(* What v does to its own rows is not seen by others until it commits.     *)
LEMMA ViewOther ==
  ASSUME TypeOK, NEW v \in Writers, ViewConsistent(v), UNCHANGED db,
         pc'[v] = pc[v], page'[v] = page[v], token'[v] = token[v],
         at'[v] = at[v], to'[v] = to[v], dirty'[v] = dirty[v], view'[v] = view[v]
  PROVE  ViewConsistent(v)'
  BY DEF ViewConsistent, Read, Current

(* Writing one fitting row, with relations to registered keys, keeps all   *)
(* rows fitting.                                                           *)
LEMMA WriteFits ==
  ASSUME TypeOK, NEW w \in Writers, NEW k \in Keys, NEW r \in Row, Write(w, k, r),
         UNCHANGED db, Fits(r), r.sk # 0, ViewConsistent(w),
         \A j \in r.links : j = k \/ Read(w, j).sk # 0
  PROVE  /\ \A i \in Keys : /\ Fits(Read(w, i)')
                           /\ \A j \in Read(w, i)'.links : Read(w, j)'.sk # 0
         /\ \A i \in dirty'[w] : view'[w][i].sk # 0
         /\ \A i \in Keys : Read(w, i).sk # 0 => Read(w, i)'.sk # 0
<1>1. /\ Read(w, k)' = r /\ view'[w][k] = r
      /\ dirty'[w] = dirty[w] \cup {k}
      /\ \A j \in Keys \ {k} : Read(w, j)' = Read(w, j) /\ view'[w][j] = view[w][j]
  BY WriteReads
<1>2. \A i \in Keys : Read(w, i) \in Row  BY ReadTyped
<1>3. \A i \in Keys : Read(w, i).links \subseteq Keys  BY <1>2 DEF Row
<1>4. r.links \subseteq Keys  BY DEF Row
<1>5. dirty[w] \subseteq Keys  BY DEF TypeOK
<1>6. \A i \in Keys : Read(w, i).sk # 0 => Read(w, i)'.sk # 0  BY <1>1
<1>7. ASSUME NEW i \in Keys
      PROVE  Fits(Read(w, i)')
  BY <1>1 DEF ViewConsistent
<1>8. ASSUME NEW i \in Keys, NEW j \in Read(w, i)'.links
      PROVE  Read(w, j)'.sk # 0
  <2>1. CASE i = k
    <3>1. j \in r.links /\ j \in Keys  BY <1>1, <1>4, <1>8, <2>1
    <3>. QED  BY <1>1, <1>6, <3>1
  <2>2. CASE i # k
    <3>1. j \in Read(w, i).links /\ j \in Keys  BY <1>1, <1>3, <1>8, <2>2
    <3>2. Read(w, j).sk # 0  BY <3>1 DEF ViewConsistent
    <3>. QED  BY <1>6, <3>1, <3>2
  <2>. QED  BY <2>1, <2>2
<1>9. ASSUME NEW i \in dirty'[w] PROVE view'[w][i].sk # 0
  <2>1. CASE i = k  BY <1>1, <2>1
  <2>2. CASE i # k
    <3>1. i \in dirty[w] /\ i \in Keys  BY <1>1, <1>5, <1>9, <2>2
    <3>. QED  BY <1>1, <2>2, <3>1 DEF ViewConsistent
  <2>. QED  BY <2>1, <2>2
<1>. QED  BY <1>6, <1>7, <1>8, <1>9

LEMMA ViewEnd ==
  ASSUME TypeOK, NEW w \in Writers, End(w), StoreConsistent'
  PROVE  ViewConsistent(w)'
<1>1. pc'[w] = "idle" /\ dirty'[w] = {}  BY DEF End, TypeOK
<1>2. \A k : Read(w, k)' = db'[k]  BY <1>1 DEF Read
<1>. QED  BY <1>1, <1>2 DEF ViewConsistent, StoreConsistent

LEMMA StoreInit == Init => StoreInv
<1> SUFFICES ASSUME Init PROVE StoreInv
  OBVIOUS
<1>1. \A k \in Keys : db[k] = Absent  BY DEF Init
<1>2. StoreConsistent  BY <1>1, AbsentType DEF StoreConsistent, Fits
<1>3. ASSUME NEW w \in Writers PROVE ViewConsistent(w)
  <2>1. pc[w] = "idle" /\ dirty[w] = {}  BY DEF Init
  <2>2. \A k : Read(w, k) = db[k]  BY <2>1 DEF Read
  <2>. QED  BY <1>2, <2>1, <2>2 DEF ViewConsistent, StoreConsistent
<1>. QED  BY <1>2, <1>3 DEF StoreInv, ViewsConsistent

(* A statement of w, seen by the other transactions.                       *)
LEMMA StoreOwn ==
  ASSUME TypeOK, StoreInv, NEW w \in Writers, ViewConsistent(w)', UNCHANGED db,
         \A v \in Writers \ {w} :
           /\ pc'[v] = pc[v] /\ page'[v] = page[v] /\ token'[v] = token[v]
           /\ at'[v] = at[v] /\ to'[v] = to[v]
           /\ dirty'[v] = dirty[v] /\ view'[v] = view[v]
  PROVE  StoreInv'
<1>1. ASSUME NEW v \in Writers PROVE ViewConsistent(v)'
  <2>1. CASE v = w  BY <2>1
  <2>2. CASE v # w  BY <2>2, ViewOther DEF StoreInv, ViewsConsistent
  <2>. QED  BY <2>1, <2>2
<1>2. StoreConsistent'  BY DEF StoreInv, StoreConsistent
<1>. QED  BY <1>1, <1>2 DEF StoreInv, ViewsConsistent

LEMMA StoreCommit ==
  ASSUME TypeOK, LocksOrdered, StoreInv, NEW w \in Writers, Commit(w)
  PROVE  StoreInv'
<1>1. db' = [k \in Keys |-> Read(w, k)] /\ End(w)  BY DEF Commit
<1>2. \A k \in Keys : db'[k] = Read(w, k)  BY <1>1
<1>3. \A v \in Writers, k \in Keys : Read(v, k).links \subseteq Keys
  BY ReadTyped DEF Row
<1>4. StoreConsistent'
  <2>1. ViewConsistent(w)  BY DEF StoreInv, ViewsConsistent
  <2>. QED  BY <1>2, <1>3, <2>1 DEF ViewConsistent, StoreConsistent
<1>5. ASSUME NEW k \in Keys, db[k].sk # 0 PROVE db'[k].sk # 0
  BY <1>2, <1>5 DEF Read, StoreInv, ViewsConsistent, ViewConsistent
<1>6. ASSUME NEW v \in Writers, v # w PROVE ViewConsistent(v)'
  <2>1. /\ pc'[v] = pc[v] /\ page'[v] = page[v] /\ token'[v] = token[v]
        /\ at'[v] = at[v] /\ to'[v] = to[v]
        /\ dirty'[v] = dirty[v] /\ view'[v] = view[v]
    BY <1>1, <1>6 DEF End, TypeOK
  <2>2. ViewConsistent(v)  BY DEF StoreInv, ViewsConsistent
  <2>3. \A k \in dirty[v] : Read(v, k)' = Read(v, k) /\ Read(v, k) = view[v][k]
    BY <2>1 DEF Read
  <2>4. \A k \in Keys \ dirty[v] : Read(v, k)' = db'[k] /\ Read(v, k) = db[k]
    BY <2>1 DEF Read
  <2>5. \A k \in Keys : Read(v, k).sk # 0 => Read(v, k)'.sk # 0
    BY <1>5, <2>3, <2>4
  <2>6. \A k \in Keys : db'[k].sk # 0 => Read(v, k)'.sk # 0
    BY <2>2, <2>3, <2>4 DEF ViewConsistent
  <2>7. ASSUME NEW k \in Keys
        PROVE  Fits(Read(v, k)')
    BY <1>4, <2>2, <2>3, <2>4 DEF ViewConsistent, StoreConsistent
  <2>8. ASSUME NEW k \in Keys, NEW j \in Read(v, k)'.links
        PROVE  Read(v, j)'.sk # 0
    <3>1. CASE k \in dirty[v]
      <4>1. j \in Read(v, k).links /\ j \in Keys  BY <1>3, <2>3, <2>8, <3>1
      <4>. QED  BY <2>2, <2>5, <4>1 DEF ViewConsistent
    <3>2. CASE k \notin dirty[v]
      <4>1. j \in db'[k].links /\ j \in Keys  BY <1>2, <1>3, <2>4, <2>8, <3>2
      <4>2. db'[j].sk # 0  BY <1>4, <4>1 DEF StoreConsistent
      <4>. QED  BY <2>6, <4>1, <4>2
    <3>. QED  BY <3>1, <3>2
  <2>9. Current(v)' = Current(v)  BY <2>1 DEF Current
  <2>10. ASSUME pc[v] = "targets", NEW i \in 1 .. to[v] - 1
         PROVE  Read(v, Current(v).targets[i])'.sk # 0
    <3>1. at[v] <= Len(page[v]) /\ to[v] \in Nat \ {0} /\ to[v] <= Len(Current(v).targets) + 1
      BY <2>10 DEF TypeOK, Placed
    <3>2. Current(v).targets \in Seq(Keys)  BY <2>10, <3>1, EntityTyped
    <3>3. i \in 1 .. Len(Current(v).targets)  BY <3>1, <3>2
    <3>4. Current(v).targets[i] \in Keys  BY <3>2, <3>3
    <3>5. Read(v, Current(v).targets[i]).sk # 0  BY <2>2, <2>10 DEF ViewConsistent
    <3>. QED  BY <2>5, <2>9, <3>4, <3>5 DEF Read
  <2>. QED  BY <2>1, <2>2, <2>7, <2>8, <2>9, <2>10 DEF ViewConsistent
<1>. QED  BY <1>4, <1>6, ViewEnd, <1>1 DEF StoreInv, ViewsConsistent

LEMMA StoreRollback ==
  ASSUME TypeOK, StoreInv, NEW w \in Writers, Rollback(w)
  PROVE  StoreInv'
<1>1. End(w) /\ UNCHANGED db  BY DEF Rollback
<1>2. StoreConsistent'  BY <1>1 DEF StoreInv, StoreConsistent
<1>3. \A v \in Writers \ {w} :
        /\ pc'[v] = pc[v] /\ page'[v] = page[v] /\ token'[v] = token[v]
        /\ at'[v] = at[v] /\ to'[v] = to[v]
        /\ dirty'[v] = dirty[v] /\ view'[v] = view[v]
  BY <1>1 DEF End, TypeOK
<1>. QED  BY <1>1, <1>2, <1>3, ViewEnd, StoreOwn

LEMMA StoreUpsertEntity ==
  ASSUME TypeOK, StoreInv, NEW w \in Writers, UpsertEntity(w)
  PROVE  StoreInv'
<1>. DEFINE e == Current(w)
<1>1. /\ pc[w] = "entity" /\ at[w] <= Len(page[w])
      /\ Write(w, e.key, Marked(token[w], e.deleted))
      /\ UNCHANGED <<db, cursor, page, token, held>>
      /\ \/ /\ e.deleted /\ at' = [at EXCEPT ![w] = @ + 1] /\ UNCHANGED <<pc, to>>
         \/ /\ ~e.deleted /\ pc' = [pc EXCEPT ![w] = "targets"]
            /\ to' = [to EXCEPT ![w] = 1] /\ UNCHANGED at
  BY DEF UpsertEntity
<1>2. ViewConsistent(w)  BY DEF StoreInv, ViewsConsistent
<1>3. token[w] \in Tokens /\ token[w] \in Nat /\ token[w] # 0
  BY <1>1, <1>2 DEF ViewConsistent, TypeOK, Tokens
<1>4. PICK k \in Keys, r \in Row :
        /\ k = e.key /\ Write(w, k, r) /\ Fits(r) /\ r.sk # 0 /\ r.links = {}
        /\ ~e.deleted => ~r.deleted /\ r.row = 0 /\ token[w] <= r.sk
  <2>1. e.key \in Keys /\ e.deleted \in BOOLEAN  BY <1>1, EntityTyped
  <2>2. /\ Marked(token[w], e.deleted) \in Row
        /\ Fits(Marked(token[w], e.deleted)) /\ Marked(token[w], e.deleted).sk # 0
        /\ Marked(token[w], e.deleted).links = {}
    BY <1>3, <2>1, MarkedRow, MarkedFits
  <2>3. ~e.deleted => /\ ~Marked(token[w], e.deleted).deleted
                      /\ Marked(token[w], e.deleted).row = 0
                      /\ token[w] <= Marked(token[w], e.deleted).sk
    BY <1>3 DEF Marked
  <2>. QED  BY <1>1, <2>1, <2>2, <2>3
<1>5. /\ \A i \in Keys : /\ Fits(Read(w, i)')
                        /\ \A j \in Read(w, i)'.links : Read(w, j)'.sk # 0
      /\ \A i \in dirty'[w] : view'[w][i].sk # 0
  BY <1>1, <1>2, <1>4, WriteFits
<1>6. /\ view'[w][k] = r /\ dirty'[w] = dirty[w] \cup {k}
      /\ \A v \in Writers \ {w} : dirty'[v] = dirty[v] /\ view'[v] = view[v]
  BY <1>1, <1>4, WriteReads
<1>7. \A v \in Writers \ {w} : pc'[v] = pc[v] /\ at'[v] = at[v] /\ to'[v] = to[v]
  BY <1>1 DEF TypeOK
<1>8. ViewConsistent(w)'
  <2>1. CASE e.deleted /\ at' = [at EXCEPT ![w] = @ + 1] /\ UNCHANGED <<pc, to>>
    BY <1>1, <1>3, <1>5, <2>1 DEF ViewConsistent
  <2>2. CASE /\ ~e.deleted /\ pc' = [pc EXCEPT ![w] = "targets"]
             /\ to' = [to EXCEPT ![w] = 1] /\ UNCHANGED at
    <3>1. to'[w] = 1 /\ Current(w)'.key = k  BY <1>1, <1>4, <2>2 DEF TypeOK, Current
    <3>2. ~r.deleted /\ r.row = 0 /\ token[w] <= r.sk  BY <1>4, <2>2
    <3>3. token'[w] = token[w]  BY <1>1
    <3>. QED  BY <1>3, <1>5, <1>6, <3>1, <3>2, <3>3 DEF ViewConsistent
  <2>. QED  BY <1>1, <2>1, <2>2
<1>. QED  BY <1>1, <1>6, <1>7, <1>8, StoreOwn

LEMMA StoreUpsertTarget ==
  ASSUME TypeOK, StoreInv, NEW w \in Writers, UpsertTarget(w)
  PROVE  StoreInv'
<1>. DEFINE e == Current(w)
<1>1. /\ pc[w] = "targets" /\ to[w] <= Len(e.targets)
      /\ Write(w, e.targets[to[w]], Touch(Read(w, e.targets[to[w]]), token[w]))
      /\ to' = [to EXCEPT ![w] = @ + 1]
      /\ UNCHANGED <<db, cursor, pc, page, token, held, at>>
  BY DEF UpsertTarget
<1>2. at[w] <= Len(page[w]) /\ to[w] \in Nat \ {0}  BY <1>1 DEF TypeOK, Placed
<1>3. e.key \in Keys /\ e.targets \in Seq(Keys)  BY <1>1, <1>2, EntityTyped
<1>4. ViewConsistent(w)  BY DEF StoreInv, ViewsConsistent
<1>5. token[w] \in Tokens /\ token[w] # 0  BY <1>1, <1>4 DEF ViewConsistent, TypeOK
<1>6. PICK k \in Keys, o \in Row, r \in Row :
        /\ k = e.targets[to[w]] /\ o = Read(w, k) /\ r = Touch(o, token[w]) /\ Fits(o)
  <2>1. e.targets[to[w]] \in Keys  BY <1>1, <1>2, <1>3
  <2>2. /\ Read(w, e.targets[to[w]]) \in Row
        /\ Fits(Read(w, e.targets[to[w]]))
    BY <1>4, <2>1, ReadTyped DEF ViewConsistent
  <2>. QED  BY <1>5, <2>1, <2>2, TouchRow
<1>7. /\ Write(w, k, r) /\ Fits(r) /\ r.sk # 0 /\ r.links = o.links /\ token[w] <= r.sk
      /\ ~o.deleted /\ o.row = 0 => ~r.deleted /\ r.row = 0
  BY <1>1, <1>5, <1>6, TouchFits
<1>8. \A j \in r.links : Read(w, j).sk # 0  BY <1>4, <1>6, <1>7 DEF ViewConsistent
<1>9. /\ \A i \in Keys : /\ Fits(Read(w, i)')
                        /\ \A j \in Read(w, i)'.links : Read(w, j)'.sk # 0
      /\ \A i \in dirty'[w] : view'[w][i].sk # 0
      /\ \A i \in Keys : Read(w, i).sk # 0 => Read(w, i)'.sk # 0
  BY <1>1, <1>4, <1>7, <1>8, WriteFits
<1>10. /\ Read(w, k)' = r /\ view'[w][k] = r /\ dirty'[w] = dirty[w] \cup {k}
       /\ \A j \in Keys \ {k} : view'[w][j] = view[w][j]
       /\ \A v \in Writers \ {w} : dirty'[v] = dirty[v] /\ view'[v] = view[v]
  BY <1>1, <1>7, WriteReads
<1>11. to'[w] = to[w] + 1 /\ \A v \in Writers \ {w} : to'[v] = to[v]
  BY <1>1 DEF TypeOK
<1>12. Current(w)' = e  BY <1>1 DEF Current
<1>13. /\ e.key \in dirty'[w] /\ ~view'[w][e.key].deleted /\ view'[w][e.key].row = 0
       /\ token[w] <= view'[w][e.key].sk
  <2>1. /\ e.key \in dirty[w] /\ ~view[w][e.key].deleted /\ view[w][e.key].row = 0
        /\ token[w] <= view[w][e.key].sk
    BY <1>1, <1>4 DEF ViewConsistent
  <2>2. CASE k = e.key
    <3>1. o = view[w][e.key]  BY <1>6, <2>1, <2>2 DEF Read
    <3>. QED  BY <1>7, <1>10, <2>1, <2>2, <3>1
  <2>3. CASE k # e.key  BY <1>3, <1>10, <2>1, <2>3
  <2>. QED  BY <2>2, <2>3
<1>14. ASSUME NEW i \in 1 .. to[w]
       PROVE  \A t : t = e.targets[i] => Read(w, t)'.sk # 0
  <2>1. e.targets[i] \in Keys  BY <1>1, <1>2, <1>3
  <2>2. CASE i = to[w]  BY <1>6, <1>7, <1>10, <2>2
  <2>3. CASE i # to[w]
    <3>1. i \in 1 .. to[w] - 1  BY <1>2, <2>3
    <3>2. Read(w, e.targets[i]).sk # 0  BY <1>1, <1>4, <3>1 DEF ViewConsistent
    <3>. QED  BY <1>9, <2>1, <3>2
  <2>. QED  BY <2>2, <2>3
<1>15. ViewConsistent(w)'
  <2>1. pc'[w] = pc[w] /\ token'[w] = token[w]  BY <1>1
  <2>2. ASSUME NEW i \in 1 .. to'[w] - 1
        PROVE  Read(w, Current(w).targets[i])'.sk # 0
    <3>1. i \in 1 .. to[w]  BY <1>2, <1>11
    <3>. QED  BY <1>12, <1>14, <3>1
  <2>. HIDE DEF e
  <2>. QED  BY <1>5, <1>9, <1>12, <1>13, <2>1, <2>2 DEF ViewConsistent
<1>. QED  BY <1>1, <1>10, <1>11, <1>15, StoreOwn

LEMMA StoreInsertRows ==
  ASSUME TypeOK, StoreInv, NEW w \in Writers, InsertRows(w)
  PROVE  StoreInv'
<1>. DEFINE e == Current(w)
<1>1. /\ pc[w] = "targets" /\ to[w] > Len(e.targets)
      /\ Write(w, e.key, Filled(Read(w, e.key), token[w], Targets(e)))
      /\ at' = [at EXCEPT ![w] = @ + 1] /\ pc' = [pc EXCEPT ![w] = "entity"]
      /\ UNCHANGED <<db, cursor, page, token, held, to>>
  BY DEF InsertRows
<1>2. at[w] <= Len(page[w]) /\ to[w] \in Nat \ {0}  BY <1>1 DEF TypeOK, Placed
<1>3. e.key \in Keys /\ e.targets \in Seq(Keys) /\ Targets(e) \in SUBSET Keys
  BY <1>1, <1>2, EntityTyped
<1>4. ViewConsistent(w)  BY DEF StoreInv, ViewsConsistent
<1>5. token[w] \in Tokens /\ token[w] # 0  BY <1>1, <1>4 DEF ViewConsistent, TypeOK
<1>6. PICK k \in Keys, o \in Row, r \in Row :
        /\ k = e.key /\ o = Read(w, k) /\ r = Filled(o, token[w], Targets(e))
  <2>1. Read(w, e.key) \in Row  BY <1>3, ReadTyped
  <2>. QED  BY <1>3, <1>5, <2>1, FilledRow
<1>7. ~o.deleted /\ token[w] <= o.sk
  <2>1. /\ k \in dirty[w] /\ ~view[w][k].deleted /\ token[w] <= view[w][k].sk
    BY <1>1, <1>4, <1>6 DEF ViewConsistent
  <2>. QED  BY <1>6, <2>1 DEF Read
<1>8. Write(w, k, r) /\ Fits(r) /\ r.links = Targets(e) /\ r.sk = o.sk /\ r.sk # 0
  BY <1>1, <1>3, <1>5, <1>6, <1>7, FilledFits
<1>9. ASSUME NEW j \in r.links PROVE Read(w, j).sk # 0
  <2>1. PICK i \in DOMAIN e.targets : j = e.targets[i]  BY <1>8 DEF Targets
  <2>2. i \in 1 .. to[w] - 1  BY <1>1, <1>2, <1>3
  <2>. QED  BY <1>1, <1>4, <2>1, <2>2 DEF ViewConsistent
<1>10. /\ \A i \in Keys : /\ Fits(Read(w, i)')
                         /\ \A j \in Read(w, i)'.links : Read(w, j)'.sk # 0
       /\ \A i \in dirty'[w] : view'[w][i].sk # 0
  BY <1>1, <1>4, <1>8, <1>9, WriteFits
<1>11. \A v \in Writers \ {w} : dirty'[v] = dirty[v] /\ view'[v] = view[v]
  BY <1>1, <1>8, WriteReads
<1>12. /\ pc'[w] = "entity" /\ token'[w] = token[w]
       /\ \A v \in Writers \ {w} : pc'[v] = pc[v] /\ at'[v] = at[v]
  BY <1>1 DEF TypeOK
<1>13. ViewConsistent(w)'  BY <1>5, <1>10, <1>12 DEF ViewConsistent
<1>. QED  BY <1>1, <1>11, <1>12, <1>13, StoreOwn

LEMMA StoreStep ==
  ASSUME TypeOK, LocksOrdered, StoreInv, [Next]_vars
  PROVE  StoreInv'
<1>1. ASSUME NEW w \in Writers, Begin(w) PROVE StoreInv'
  <2>1. PICK t \in cursor[w] + 1 .. MaxToken : token' = [token EXCEPT ![w] = t]
    BY <1>1 DEF Begin
  <2>2. /\ pc' = [pc EXCEPT ![w] = "lock"] /\ \E p \in Pages[w] : page' = [page EXCEPT ![w] = p]
        /\ UNCHANGED <<db, cursor, held, at, to, dirty, view>>
    BY <1>1 DEF Begin
  <2>3. /\ pc'[w] = "lock" /\ token'[w] # 0
        /\ \A v \in Writers \ {w} : pc'[v] = pc[v] /\ token'[v] = token[v] /\ page'[v] = page[v]
    BY <2>1, <2>2 DEF TypeOK, Tokens
  <2>4. ViewConsistent(w)  BY DEF StoreInv, ViewsConsistent
  <2>5. ViewConsistent(w)'  BY <2>2, <2>3, <2>4 DEF ViewConsistent, Read
  <2>. QED  BY <2>2, <2>3, <2>5, StoreOwn
<1>2. ASSUME NEW w \in Writers, AcquireLock(w) PROVE StoreInv'
  <2>1. UNCHANGED <<db, cursor, pc, page, token, at, to, dirty, view>>
    BY <1>2 DEF AcquireLock
  <2>2. ViewConsistent(w)'  BY <2>1, ViewOther DEF StoreInv, ViewsConsistent
  <2>. QED  BY <2>1, <2>2, StoreOwn
<1>3. ASSUME NEW w \in Writers, Locked(w) PROVE StoreInv'
  <2>1. /\ pc[w] = "lock" /\ pc' = [pc EXCEPT ![w] = "entity"]
        /\ UNCHANGED <<db, page, token, at, to, dirty, view>>
    BY <1>3 DEF Locked, txVars
  <2>2. pc'[w] = "entity" /\ \A v \in Writers \ {w} : pc'[v] = pc[v]
    BY <2>1 DEF TypeOK
  <2>3. ViewConsistent(w)  BY DEF StoreInv, ViewsConsistent
  <2>4. ViewConsistent(w)'  BY <2>1, <2>2, <2>3 DEF ViewConsistent, Read
  <2>. QED  BY <2>1, <2>2, <2>4, StoreOwn
<1>4. CASE UNCHANGED vars
  <2>1. ASSUME NEW v \in Writers PROVE ViewConsistent(v)'
    BY <1>4, ViewOther DEF vars, StoreInv, ViewsConsistent
  <2>. QED  BY <1>4, <2>1 DEF vars, StoreInv, StoreConsistent, ViewsConsistent
<1>. QED
  BY <1>1, <1>2, <1>3, <1>4, StoreUpsertEntity, StoreUpsertTarget, StoreInsertRows,
     StoreCommit, StoreRollback DEF Next, Statement

(* What is committed always fits together: no relation to an unknown       *)
(* entity, no rows of a deleted one, no registry entry older than its      *)
(* entity row, whatever transactions interleave or are rolled back         *)
(* (write_sync_page).                                                      *)
THEOREM StoreCorrect == Spec => []StoreConsistent
<1>1. Init => TypeOK /\ LocksOrdered /\ StoreInv
  BY TypeInit, LocksInit, StoreInit
<1>2. TypeOK /\ LocksOrdered /\ StoreInv /\ [Next]_vars
        => TypeOK' /\ LocksOrdered' /\ StoreInv'
  BY TypeStep, LocksStep, StoreStep
<1>3. StoreInv => StoreConsistent  BY DEF StoreInv
<1>. QED  BY <1>1, <1>2, <1>3, PTL DEF Spec

(* The same of what a transaction reads half way through its page.         *)
THEOREM ViewsCorrect == Spec => []ViewsConsistent
<1>1. Init => TypeOK /\ LocksOrdered /\ StoreInv
  BY TypeInit, LocksInit, StoreInit
<1>2. TypeOK /\ LocksOrdered /\ StoreInv /\ [Next]_vars
        => TypeOK' /\ LocksOrdered' /\ StoreInv'
  BY TypeStep, LocksStep, StoreStep
<1>3. StoreInv => ViewsConsistent  BY DEF StoreInv
<1>. QED  BY <1>1, <1>2, <1>3, PTL DEF Spec

-------------------------------------------------------------------------------
(* SyncWriter implements PageStore.                                        *)

(* The rows of a key, which the entities before e have left as r, once the *)
(* transaction has marked e and the first n of its targets.                *)
HalfStored(e, t, n, r, k) ==
  LET own == IF k = e.key THEN Abstract!Registered(t, FALSE) ELSE r
  IN IF k \in {e.targets[i] : i \in 1 .. n} THEN Abstract!Touched(own, t) ELSE own

(* What a transaction reads is its page applied to the committed store up  *)
(* to the statement it is at, whatever else is committed meanwhile.        *)
StageOf(w) == Abstract!Stages(db, page[w], token[w])[at[w] - 1]

InStep(w) ==
  /\ pc[w] # "idle" => cursor[w] < token[w]
  /\ pc[w] \in {"idle", "lock"} => at[w] = 1
  /\ pc[w] = "entity" => \A k \in Keys : Read(w, k) = StageOf(w)[k]
  /\ pc[w] = "targets" =>
       /\ ~Current(w).deleted
       /\ \A k \in Keys :
            Read(w, k) = HalfStored(Current(w), token[w], to[w] - 1, StageOf(w)[k], k)

AllInStep == \A w \in Writers : InStep(w)

(* Touching is registering or GREATEST, as in the code.                    *)
LEMMA TouchIsTouched ==
  ASSUME NEW r, NEW t
  PROVE  Abstract!Touched(r, t) = Touch(r, t)
  BY DEF Abstract!Touched, Abstract!Registered, Touch, Marked

LEMMA TouchTwice ==
  ASSUME NEW r \in Row, NEW t \in Tokens, t # 0
  PROVE  Touch(Touch(r, t), t) = Touch(r, t)
<1>1. CASE r.sk = 0
  <2>. DEFINE once == Touch(r, t)
  <2>1. once = [sk |-> t, deleted |-> FALSE, row |-> 0, links |-> {}]
    BY <1>1 DEF Touch, Marked
  <2>2. once.sk # 0 /\ ~(once.sk < t)  BY <2>1 DEF Tokens
  <2>. HIDE DEF once
  <2>3. Touch(once, t) = [once EXCEPT !.sk = once.sk]  BY <2>2 DEF Touch
  <2>4. [once EXCEPT !.sk = once.sk] = once  BY <2>1
  <2>5. Touch(once, t) = once  BY <2>3, <2>4
  <2>. QED  BY <2>5 DEF once
<1>2. CASE r.sk # 0
  <2>. DEFINE once == Touch(r, t)
  <2>1. once = [sk |-> IF r.sk < t THEN t ELSE r.sk, deleted |-> r.deleted,
                row |-> r.row, links |-> r.links]
    BY <1>2 DEF Touch, Row
  <2>2. once.sk # 0 /\ ~(once.sk < t)  BY <1>2, <2>1 DEF Row, Tokens
  <2>. HIDE DEF once
  <2>3. Touch(once, t) = [once EXCEPT !.sk = once.sk]  BY <2>2 DEF Touch
  <2>4. [once EXCEPT !.sk = once.sk] = once  BY <2>1
  <2>5. Touch(once, t) = once  BY <2>3, <2>4
  <2>. QED  BY <2>5 DEF once
<1>. QED  BY <1>1, <1>2

LEMMA StoredRowType ==
  ASSUME NEW e \in Entity, NEW k \in Keys, NEW r \in Row, NEW t \in Tokens
  PROVE  Abstract!StoredRow(r, k, e, t) \in Row
<1>. DEFINE own == IF k = e.key THEN Abstract!Registered(t, e.deleted) ELSE r
            known == IF ~e.deleted /\ k \in Abstract!ToSet(e.targets)
                     THEN Abstract!Touched(own, t) ELSE own
<1>1. Abstract!Registered(t, e.deleted) \in Row
  BY DEF Abstract!Registered, Row, Tokens, Entity
<1>2. own \in Row  BY <1>1
<1>. HIDE DEF own
<1>3. known \in Row  BY <1>2, TouchRow, TouchIsTouched
<1>4. Abstract!ToSet(e.targets) \in SUBSET Keys  BY DEF Abstract!ToSet, Entity
<1>5. [sk |-> known.sk, deleted |-> known.deleted, row |-> t,
       links |-> Abstract!ToSet(e.targets)] \in Row
  <2>. HIDE DEF known
  <2>. QED  BY <1>3, <1>4 DEF Row
<1>6. Abstract!StoredRow(r, k, e, t) =
        IF k = e.key /\ ~e.deleted
        THEN [sk |-> known.sk, deleted |-> known.deleted, row |-> t,
              links |-> Abstract!ToSet(e.targets)]
        ELSE known
  BY DEF Abstract!StoredRow, own
<1>. HIDE DEF known
<1>. QED  BY <1>3, <1>5, <1>6

(* An entity leaves the rows of other keys than its own and its targets.   *)
LEMMA StoredRowElsewhere ==
  ASSUME NEW e \in Entity, NEW k \in Keys, NEW r, NEW t,
         k # e.key, k \notin Targets(e)
  PROVE  Abstract!StoredRow(r, k, e, t) = r
  BY DEF Abstract!StoredRow, Abstract!ToSet, Targets

LEMMA StagesType ==
  ASSUME NEW d \in [Keys -> Row], NEW p \in Seq(Entity), NEW t \in Tokens
  PROVE  /\ Abstract!Stages(d, p, t) \in [0 .. Len(p) -> [Keys -> Row]]
         /\ Abstract!Stages(d, p, t)[0] = d
         /\ \A n \in 1 .. Len(p) :
              Abstract!Stages(d, p, t)[n] = Abstract!Stored(Abstract!Stages(d, p, t)[n - 1], p[n], t)
<1>. DEFINE X == [Keys -> Row]
            turn == [n \in 1 .. Len(p) |-> [x \in X |-> Abstract!Stored(x, p[n], t)]]
            Loop(f) == f = [n \in 0 .. Len(p) |->
                              IF n = 0 THEN d ELSE Abstract!Stored(f[n - 1], p[n], t)]
<1>1. ASSUME NEW n \in 1 .. Len(p), NEW x \in X PROVE Abstract!Stored(x, p[n], t) \in X
  <2>1. p[n] \in Entity  OBVIOUS
  <2>. QED  BY <2>1, StoredRowType DEF Abstract!Stored
<1>2. turn \in [1 .. Len(p) -> [X -> X]]  BY <1>1
<1>3. PICK f \in [0 .. Len(p) -> X] :
        f[0] = d /\ \A n \in 1 .. Len(p) : f[n] = turn[n][f[n - 1]]
  <2>. HIDE DEF X, turn
  <2>1. d \in X /\ Len(p) \in Nat  BY DEF X
  <2>2. \E f \in [0 .. Len(p) -> X] : IsLoop(f, Len(p), d, turn)
    BY <1>2, <2>1, LoopValues
  <2>. QED  BY <2>2 DEF IsLoop
<1>4. \A n \in 1 .. Len(p) : f[n - 1] \in X /\ f[n] = Abstract!Stored(f[n - 1], p[n], t)
  <2> SUFFICES ASSUME NEW n \in 1 .. Len(p)
               PROVE  f[n - 1] \in X /\ f[n] = Abstract!Stored(f[n - 1], p[n], t)
    OBVIOUS
  <2>1. f[n - 1] \in X  BY <1>3
  <2>. QED  BY <1>3, <2>1
<1>5. Loop(f)
  <2>1. f = [n \in 0 .. Len(p) |-> f[n]]  BY <1>3
  <2>2. ASSUME NEW n \in 0 .. Len(p)
        PROVE  f[n] = IF n = 0 THEN d ELSE Abstract!Stored(f[n - 1], p[n], t)
    BY <1>3, <1>4
  <2>. QED  BY <2>1, <2>2
<1>6. Abstract!Stages(d, p, t) = CHOOSE g : Loop(g)  BY DEF Abstract!Stages
<1>. DEFINE g == Abstract!Stages(d, p, t)
<1>7. Loop(g)  BY <1>5, <1>6
<1>8. g[0] = d /\ \A n \in 1 .. Len(p) : g[n] = Abstract!Stored(g[n - 1], p[n], t)  BY <1>7
<1>9. g \in [0 .. Len(p) -> X]
  <2>. DEFINE S == {n \in Nat : n \in 0 .. Len(p) => g[n] \in X}
  <2>. HIDE DEF g
  <2>1. 0 \in S  BY <1>8
  <2>2. ASSUME NEW n \in Nat, n \in S PROVE n + 1 \in S
    <3>1. SUFFICES ASSUME n + 1 \in 0 .. Len(p) PROVE g[n + 1] \in X  OBVIOUS
    <3>2. n + 1 \in 1 .. Len(p) /\ n + 1 - 1 = n /\ g[n] \in X  BY <2>2, <3>1
    <3>3. g[n + 1] = Abstract!Stored(g[n], p[n + 1], t)  BY <1>8, <3>2
    <3>. QED  BY <1>1, <3>2, <3>3
  <2>. HIDE DEF S
  <2>3. Nat \subseteq S  BY <2>1, <2>2, NatSetInduction
  <2>4. \A n \in 0 .. Len(p) : g[n] \in X  BY <2>3 DEF S
  <2>5. g = [n \in 0 .. Len(p) |-> g[n]]  BY <1>7
  <2>. HIDE DEF X
  <2>. QED  BY <2>4, <2>5
<1>. QED  BY <1>8, <1>9

LEMMA StagesStep ==
  ASSUME NEW d \in [Keys -> Row], NEW p \in Seq(Entity), NEW t \in Tokens,
         NEW n \in 1 .. Len(p), NEW k \in Keys
  PROVE  Abstract!Stages(d, p, t)[n][k] =
           Abstract!StoredRow(Abstract!Stages(d, p, t)[n - 1][k], k, p[n], t)
<1>1. Abstract!Stages(d, p, t)[n] = Abstract!Stored(Abstract!Stages(d, p, t)[n - 1], p[n], t)
  BY StagesType
<1>. QED  BY <1>1 DEF Abstract!Stored

(* The stages of one key depend on the committed rows of that key alone,   *)
LEMMA StagesLocal ==
  ASSUME NEW d \in [Keys -> Row], NEW c \in [Keys -> Row], NEW p \in Seq(Entity),
         NEW t \in Tokens, NEW k \in Keys, d[k] = c[k], NEW n \in 0 .. Len(p)
  PROVE  Abstract!Stages(d, p, t)[n][k] = Abstract!Stages(c, p, t)[n][k]
<1>. DEFINE f == Abstract!Stages(d, p, t)
            g == Abstract!Stages(c, p, t)
            S == {m \in Nat : m \in 0 .. Len(p) => f[m][k] = g[m][k]}
<1>1. f[0] = d /\ g[0] = c  BY StagesType
<1>2. \A m \in 1 .. Len(p) : /\ f[m][k] = Abstract!StoredRow(f[m - 1][k], k, p[m], t)
                             /\ g[m][k] = Abstract!StoredRow(g[m - 1][k], k, p[m], t)
  BY StagesStep
<1>. HIDE DEF f, g
<1>3. 0 \in S  BY <1>1
<1>4. ASSUME NEW m \in Nat, m \in S PROVE m + 1 \in S
  <2>1. SUFFICES ASSUME m + 1 \in 0 .. Len(p) PROVE f[m + 1][k] = g[m + 1][k]  OBVIOUS
  <2>2. m + 1 \in 1 .. Len(p) /\ m + 1 - 1 = m /\ f[m][k] = g[m][k]  BY <1>4, <2>1
  <2>3. /\ f[m + 1][k] = Abstract!StoredRow(f[m][k], k, p[m + 1], t)
        /\ g[m + 1][k] = Abstract!StoredRow(g[m][k], k, p[m + 1], t)
    BY <1>2, <2>2
  <2>. QED  BY <2>2, <2>3
<1>. HIDE DEF S
<1>5. n \in S  BY <1>3, <1>4, NatSetInduction
<1>. QED  BY <1>5 DEF S, f, g

(* and a page leaves the rows of keys it does not name.                    *)
LEMMA StagesElsewhere ==
  ASSUME NEW d \in [Keys -> Row], NEW p \in Seq(Entity), NEW t \in Tokens,
         NEW k \in Keys, k \notin KeysOf(p), NEW n \in 0 .. Len(p)
  PROVE  Abstract!Stages(d, p, t)[n][k] = d[k]
<1>. DEFINE f == Abstract!Stages(d, p, t)
            S == {m \in Nat : m \in 0 .. Len(p) => f[m][k] = d[k]}
<1>1. f[0] = d  BY StagesType
<1>2. ASSUME NEW m \in 1 .. Len(p) PROVE f[m][k] = f[m - 1][k]
  <2>1. p[m] \in Entity /\ k # p[m].key /\ k \notin Targets(p[m])  BY DEF KeysOf
  <2>2. f[m][k] = Abstract!StoredRow(f[m - 1][k], k, p[m], t)  BY StagesStep
  <2>. HIDE DEF f
  <2>. QED  BY <2>1, <2>2, StoredRowElsewhere
<1>. HIDE DEF f
<1>3. 0 \in S  BY <1>1
<1>4. ASSUME NEW m \in Nat, m \in S PROVE m + 1 \in S
  <2>1. SUFFICES ASSUME m + 1 \in 0 .. Len(p) PROVE f[m + 1][k] = d[k]  OBVIOUS
  <2>2. m + 1 \in 1 .. Len(p) /\ m + 1 - 1 = m /\ f[m][k] = d[k]  BY <1>4, <2>1
  <2>. QED  BY <1>2, <2>2
<1>. HIDE DEF S
<1>5. n \in S  BY <1>3, <1>4, NatSetInduction
<1>. QED  BY <1>5 DEF S, f

(* A half stored entity leaves the rows of other keys than its own and its *)
(* targets, and is stored further one statement at a time.                 *)
LEMMA HalfElsewhere ==
  ASSUME NEW e \in Entity, NEW t, NEW n \in 0 .. Len(e.targets), NEW r, NEW k,
         k # e.key, k \notin Targets(e)
  PROVE  HalfStored(e, t, n, r, k) = r
<1>1. e.targets \in Seq(Keys)  BY DEF Entity
<1>2. \A i \in 1 .. n : i \in DOMAIN e.targets  BY <1>1
<1>3. k \notin {e.targets[i] : i \in 1 .. n}  BY <1>2 DEF Targets
<1>. QED  BY <1>3 DEF HalfStored

LEMMA HalfTouched ==
  ASSUME NEW e \in Entity, NEW t \in Tokens, t # 0, NEW r \in Row, NEW k \in Keys,
         NEW n \in Nat, n + 1 <= Len(e.targets)
  PROVE  HalfStored(e, t, n + 1, r, k) =
           IF k = e.targets[n + 1] THEN Touch(HalfStored(e, t, n, r, k), t)
                                   ELSE HalfStored(e, t, n, r, k)
<1>. DEFINE own == IF k = e.key THEN Abstract!Registered(t, FALSE) ELSE r
            upto(m) == {e.targets[i] : i \in 1 .. m}
<1>1. own \in Row
  <2>1. Abstract!Registered(t, FALSE) \in Row  BY DEF Abstract!Registered, Row, Tokens
  <2>. QED  BY <2>1
<1>2. upto(n + 1) = upto(n) \cup {e.targets[n + 1]}
  <2>1. 1 .. n + 1 = 1 .. n \cup {n + 1}  OBVIOUS
  <2>. QED  BY <2>1
<1>3. \A m : HalfStored(e, t, m, r, k) = IF k \in upto(m) THEN Touch(own, t) ELSE own
  BY TouchIsTouched DEF HalfStored
<1>4. Touch(Touch(own, t), t) = Touch(own, t)
  <2>. HIDE DEF own
  <2>. QED  BY <1>1, TouchTwice
<1>. HIDE DEF own, upto
<1>. QED  BY <1>2, <1>3, <1>4

LEMMA HalfFilled ==
  ASSUME NEW e \in Entity, ~e.deleted, NEW t, NEW r, NEW k
  PROVE  Abstract!StoredRow(r, k, e, t) =
           IF k = e.key THEN Filled(HalfStored(e, t, Len(e.targets), r, k), t, Targets(e))
                        ELSE HalfStored(e, t, Len(e.targets), r, k)
<1>1. e.deleted = FALSE /\ e.targets \in Seq(Keys)  BY DEF Entity
<1>2. {e.targets[i] : i \in 1 .. Len(e.targets)} = Targets(e)  BY <1>1 DEF Targets
<1>3. Abstract!ToSet(e.targets) = Targets(e)  BY DEF Abstract!ToSet, Targets
<1>. DEFINE half == HalfStored(e, t, Len(e.targets), r, k)
<1>4. Abstract!StoredRow(r, k, e, t) =
        IF k = e.key THEN [sk |-> half.sk, deleted |-> half.deleted, row |-> t,
                           links |-> Targets(e)]
                     ELSE half
  BY <1>1, <1>2, <1>3 DEF Abstract!StoredRow, HalfStored
<1>. HIDE DEF half
<1>. QED  BY <1>4 DEF Filled, half

(* The writer whose own state stays, and whose locked rows stay committed  *)
(* as they are, stays in step.                                             *)
LEMMA InStepOther ==
  ASSUME TypeOK, LocksOrdered, NEW w \in Writers, InStep(w),
         pc'[w] = pc[w], page'[w] = page[w], token'[w] = token[w],
         at'[w] = at[w], to'[w] = to[w], dirty'[w] = dirty[w], view'[w] = view[w],
         cursor'[w] = cursor[w], db' \in [Keys -> Row],
         \A k \in held[w] : db'[k] = db[k]
  PROVE  InStep(w)'
<1>. DEFINE old == Abstract!Stages(db, page[w], token[w])
            new == Abstract!Stages(db', page[w], token[w])
<1>1. StageOf(w)' = new[at[w] - 1]  BY DEF StageOf
<1>2. Current(w)' = Current(w)  BY DEF Current
<1>3. page[w] \in Seq(Entity) /\ token[w] \in Tokens /\ db \in [Keys -> Row]
  BY DEF TypeOK
<1>4. at[w] - 1 \in 0 .. Len(page[w])  BY <1>3 DEF TypeOK, Placed
<1>5. ASSUME NEW k \in Keys, db'[k] = db[k] PROVE new[at[w] - 1][k] = old[at[w] - 1][k]
  <2>1. \A n \in 0 .. Len(page[w]) : new[n][k] = old[n][k]  BY <1>3, <1>5, StagesLocal
  <2>. HIDE DEF new, old
  <2>. QED  BY <1>4, <2>1
<1>6. ASSUME pc[w] \in {"entity", "targets"}, NEW k \in Keys, k \notin held[w]
      PROVE  /\ k \notin dirty[w] /\ k \notin KeysOf(page[w])
             /\ new[at[w] - 1][k] = db'[k] /\ Read(w, k)' = db'[k]
  <2>1. k \notin dirty[w] /\ k \notin KeysOf(page[w])
    BY <1>6 DEF LocksOrdered, LocksOf
  <2>2. Read(w, k)' = db'[k]  BY <2>1 DEF Read
  <2>3. new[at[w] - 1][k] = db'[k]  BY <1>3, <1>4, <2>1, StagesElsewhere
  <2>. HIDE DEF new
  <2>. QED  BY <2>1, <2>2, <2>3
<1>7. ASSUME NEW k \in Keys, k \in held[w] PROVE Read(w, k)' = Read(w, k)
  BY <1>7 DEF Read
<1>8. StageOf(w) = old[at[w] - 1]  BY DEF StageOf
<1>. DEFINE half(r, k) == HalfStored(Current(w), token[w], to[w] - 1, r, k)
<1>. HIDE DEF old, new
<1>9. ASSUME pc[w] = "entity", NEW k \in Keys PROVE Read(w, k)' = StageOf(w)'[k]
  <2>1. CASE k \in held[w]  BY <1>1, <1>5, <1>7, <1>8, <1>9, <2>1 DEF InStep
  <2>2. CASE k \notin held[w]  BY <1>1, <1>6, <1>9, <2>2
  <2>. QED  BY <2>1, <2>2
<1>10. ASSUME pc[w] = "targets", NEW k \in Keys
       PROVE  Read(w, k)' = half(new[at[w] - 1][k], k)
  <2>1. CASE k \in held[w]  BY <1>5, <1>7, <1>8, <1>10, <2>1 DEF InStep
  <2>2. CASE k \notin held[w]
    <3>1. at[w] <= Len(page[w]) /\ to[w] - 1 \in 0 .. Len(Current(w).targets)
      BY <1>10 DEF TypeOK, Placed
    <3>2. /\ Current(w) \in Entity
          /\ Current(w).key \in KeysOf(page[w]) /\ Targets(Current(w)) \subseteq KeysOf(page[w])
      BY <1>10, <3>1, EntityTyped
    <3>3. half(new[at[w] - 1][k], k) = new[at[w] - 1][k]
      BY <1>6, <1>10, <2>2, <3>1, <3>2, HalfElsewhere
    <3>. QED  BY <1>6, <1>10, <2>2, <3>3
  <2>. QED  BY <2>1, <2>2
<1>. QED  BY <1>1, <1>2, <1>9, <1>10 DEF InStep

LEMMA InStepOwn ==
  ASSUME TypeOK, LocksOrdered, AllInStep, NEW w \in Writers, InStep(w)',
         UNCHANGED <<db, cursor>>,
         \A v \in Writers \ {w} :
           /\ pc'[v] = pc[v] /\ page'[v] = page[v] /\ token'[v] = token[v]
           /\ at'[v] = at[v] /\ to'[v] = to[v]
           /\ dirty'[v] = dirty[v] /\ view'[v] = view[v]
  PROVE  AllInStep'
<1>1. ASSUME NEW v \in Writers \ {w} PROVE InStep(v)'
  BY InStepOther DEF AllInStep, TypeOK
<1>. QED  BY <1>1 DEF AllInStep

LEMMA InStepInit == Init => AllInStep
  BY DEF Init, AllInStep, InStep

(* The stage behind the entity w is at.                                    *)
LEMMA StageTyped ==
  ASSUME TypeOK, NEW w \in Writers
  PROVE  /\ page[w] \in Seq(Entity) /\ token[w] \in Tokens /\ db \in [Keys -> Row]
         /\ at[w] \in Nat \ {0} /\ at[w] - 1 \in 0 .. Len(page[w])
         /\ StageOf(w) \in [Keys -> Row]
<1>1. page[w] \in Seq(Entity) /\ token[w] \in Tokens /\ db \in [Keys -> Row]
  BY DEF TypeOK
<1>2. at[w] \in Nat \ {0} /\ at[w] - 1 \in 0 .. Len(page[w])  BY <1>1 DEF TypeOK, Placed
<1>. QED  BY <1>1, <1>2, StagesType DEF StageOf

LEMMA StageBehind ==
  ASSUME TypeOK, NEW w \in Writers, at[w] <= Len(page[w]), NEW k \in Keys
  PROVE  Abstract!Stages(db, page[w], token[w])[at[w]][k] =
           Abstract!StoredRow(StageOf(w)[k], k, Current(w), token[w])
<1>1. at[w] \in 1 .. Len(page[w])  BY StageTyped
<1>. QED  BY <1>1, StageTyped, StagesStep DEF StageOf, Current

LEMMA InStepUpsertEntity ==
  ASSUME TypeOK, LocksOrdered, StoreInv, AllInStep, NEW w \in Writers, UpsertEntity(w)
  PROVE  AllInStep'
<1>. DEFINE e == Current(w)
<1>1. /\ pc[w] = "entity" /\ at[w] <= Len(page[w])
      /\ Write(w, e.key, Marked(token[w], e.deleted))
      /\ UNCHANGED <<db, cursor, page, token, held>>
      /\ \/ /\ e.deleted /\ at' = [at EXCEPT ![w] = @ + 1] /\ UNCHANGED <<pc, to>>
         \/ /\ ~e.deleted /\ pc' = [pc EXCEPT ![w] = "targets"]
            /\ to' = [to EXCEPT ![w] = 1] /\ UNCHANGED at
  BY DEF UpsertEntity
<1>2. PICK k, r : k \in Keys /\ k = e.key /\ r = Marked(token[w], e.deleted) /\ Write(w, k, r)
  BY <1>1, EntityTyped
<1>3. /\ Read(w, k)' = r
      /\ \A j \in Keys \ {k} : Read(w, j)' = Read(w, j)
      /\ \A v \in Writers \ {w} : dirty'[v] = dirty[v] /\ view'[v] = view[v]
  <2>1. UNCHANGED db  BY <1>1
  <2>. QED  BY <1>2, <2>1, WriteReads
<1>4. \A v \in Writers \ {w} : pc'[v] = pc[v] /\ at'[v] = at[v] /\ to'[v] = to[v]
  BY <1>1 DEF TypeOK
<1>5. \A j \in Keys : Read(w, j) = StageOf(w)[j]  BY <1>1 DEF AllInStep, InStep
<1>6. cursor[w] < token[w]  BY <1>1 DEF AllInStep, InStep
<1>7. CASE e.deleted /\ at' = [at EXCEPT ![w] = @ + 1] /\ UNCHANGED <<pc, to>>
  <2>1. at'[w] = at[w] + 1 /\ at[w] \in Nat /\ pc'[w] = "entity"  BY <1>1, <1>7 DEF TypeOK
  <2>2. StageOf(w)' = Abstract!Stages(db, page[w], token[w])[at[w]]
    <3>1. at[w] + 1 - 1 = at[w]  BY <2>1
    <3>. QED  BY <1>1, <2>1, <3>1 DEF StageOf
  <2>3. ASSUME NEW j \in Keys PROVE Read(w, j)' = StageOf(w)'[j]
    <3>1. StageOf(w)'[j] = Abstract!StoredRow(StageOf(w)[j], j, e, token[w])
      BY <1>1, <2>2, StageBehind
    <3>2. CASE j = k
      <4>1. Abstract!StoredRow(StageOf(w)[j], j, e, token[w]) = r
        BY <1>2, <1>7, <3>2 DEF Abstract!StoredRow, Abstract!Registered, Marked
      <4>. QED  BY <1>3, <3>1, <3>2, <4>1
    <3>3. CASE j # k
      <4>1. Abstract!StoredRow(StageOf(w)[j], j, e, token[w]) = StageOf(w)[j]
        BY <1>2, <1>7, <3>3 DEF Abstract!StoredRow
      <4>. QED  BY <1>3, <1>5, <3>1, <3>3, <4>1
    <3>. QED  BY <3>2, <3>3
  <2>4. InStep(w)'  BY <1>1, <1>6, <2>1, <2>3 DEF InStep
  <2>. QED  BY <1>1, <1>3, <1>4, <2>4, InStepOwn
<1>8. CASE /\ ~e.deleted /\ pc' = [pc EXCEPT ![w] = "targets"]
           /\ to' = [to EXCEPT ![w] = 1] /\ UNCHANGED at
  <2>1. pc'[w] = "targets" /\ to'[w] = 1  BY <1>1, <1>8 DEF TypeOK
  <2>2. StageOf(w)' = StageOf(w) /\ Current(w)' = e  BY <1>1, <1>8 DEF StageOf, Current
  <2>3. ASSUME NEW j \in Keys PROVE Read(w, j)' = HalfStored(e, token[w], 0, StageOf(w)[j], j)
    <3>1. {e.targets[i] : i \in 1 .. 0} = {}  OBVIOUS
    <3>2. HalfStored(e, token[w], 0, StageOf(w)[j], j) =
            IF j = k THEN Abstract!Registered(token[w], FALSE) ELSE StageOf(w)[j]
      BY <1>2, <3>1 DEF HalfStored
    <3>3. Abstract!Registered(token[w], FALSE) = r
      <4>1. e.deleted = FALSE  BY <1>1, <1>8, EntityTyped
      <4>. QED  BY <1>2, <4>1 DEF Abstract!Registered, Marked
    <3>. QED  BY <1>3, <1>5, <3>2, <3>3
  <2>4. InStep(w)'  BY <1>1, <1>6, <1>8, <2>1, <2>2, <2>3 DEF InStep
  <2>. QED  BY <1>1, <1>3, <1>4, <2>4, InStepOwn
<1>. QED  BY <1>1, <1>7, <1>8

LEMMA InStepUpsertTarget ==
  ASSUME TypeOK, LocksOrdered, StoreInv, AllInStep, NEW w \in Writers, UpsertTarget(w)
  PROVE  AllInStep'
<1>. DEFINE e == Current(w)
            half(n, j) == HalfStored(e, token[w], n, StageOf(w)[j], j)
<1>1. /\ pc[w] = "targets" /\ to[w] <= Len(e.targets)
      /\ Write(w, e.targets[to[w]], Touch(Read(w, e.targets[to[w]]), token[w]))
      /\ to' = [to EXCEPT ![w] = @ + 1]
      /\ UNCHANGED <<db, cursor, pc, page, token, held, at>>
  BY DEF UpsertTarget
<1>2. at[w] <= Len(page[w]) /\ to[w] \in Nat \ {0}  BY <1>1 DEF TypeOK, Placed
<1>3. e \in Entity /\ e.targets \in Seq(Keys)  BY <1>1, <1>2, EntityTyped
<1>4. token[w] \in Tokens /\ token[w] # 0
  BY <1>1 DEF StoreInv, ViewsConsistent, ViewConsistent, TypeOK
<1>5. /\ cursor[w] < token[w] /\ ~e.deleted
      /\ \A j \in Keys : Read(w, j) = half(to[w] - 1, j)
  BY <1>1 DEF AllInStep, InStep
<1>6. PICK k, r : k \in Keys /\
        k = e.targets[to[w]] /\ r = Touch(Read(w, k), token[w]) /\ Write(w, k, r)
  <2>1. e.targets[to[w]] \in Keys  BY <1>1, <1>2, <1>3
  <2>. QED  BY <1>1, <2>1
<1>7. /\ Read(w, k)' = r
      /\ \A j \in Keys \ {k} : Read(w, j)' = Read(w, j)
      /\ \A v \in Writers \ {w} : dirty'[v] = dirty[v] /\ view'[v] = view[v]
  <2>1. UNCHANGED db  BY <1>1
  <2>. QED  BY <1>6, <2>1, WriteReads
<1>8. to'[w] = to[w] + 1 /\ \A v \in Writers \ {w} : to'[v] = to[v]  BY <1>1 DEF TypeOK
<1>9. StageOf(w)' = StageOf(w) /\ Current(w)' = e  BY <1>1 DEF StageOf, Current
<1>10. ASSUME NEW j \in Keys PROVE Read(w, j)' = half(to[w], j)
  <2>1. to[w] - 1 \in Nat /\ to[w] - 1 + 1 = to[w]  BY <1>2
  <2>2. StageOf(w)[j] \in Row  BY StageTyped
  <2>3. \A n \in Nat : n + 1 <= Len(e.targets) =>
          half(n + 1, j) = IF j = e.targets[n + 1] THEN Touch(half(n, j), token[w]) ELSE half(n, j)
    BY <1>3, <1>4, <2>2, HalfTouched
  <2>. HIDE DEF half
  <2>4. half(to[w], j) = IF j = k THEN Touch(half(to[w] - 1, j), token[w]) ELSE half(to[w] - 1, j)
    BY <1>1, <1>6, <2>1, <2>3
  <2>5. CASE j = k  BY <1>5, <1>6, <1>7, <2>4, <2>5
  <2>6. CASE j # k  BY <1>5, <1>7, <2>4, <2>6
  <2>. QED  BY <2>5, <2>6
<1>11. to'[w] - 1 = to[w]  BY <1>2, <1>8
<1>12. InStep(w)'  BY <1>1, <1>5, <1>9, <1>10, <1>11 DEF InStep
<1>. QED  BY <1>1, <1>7, <1>8, <1>12, InStepOwn

LEMMA InStepInsertRows ==
  ASSUME TypeOK, LocksOrdered, StoreInv, AllInStep, NEW w \in Writers, InsertRows(w)
  PROVE  AllInStep'
<1>. DEFINE e == Current(w)
            half(j) == HalfStored(e, token[w], Len(e.targets), StageOf(w)[j], j)
<1>1. /\ pc[w] = "targets" /\ to[w] > Len(e.targets)
      /\ Write(w, e.key, Filled(Read(w, e.key), token[w], Targets(e)))
      /\ at' = [at EXCEPT ![w] = @ + 1] /\ pc' = [pc EXCEPT ![w] = "entity"]
      /\ UNCHANGED <<db, cursor, page, token, held, to>>
  BY DEF InsertRows
<1>2. at[w] <= Len(page[w]) /\ at[w] \in Nat /\ to[w] <= Len(e.targets) + 1 /\ to[w] \in Nat
  BY <1>1 DEF TypeOK, Placed
<1>3. e \in Entity /\ e.key \in Keys /\ e.targets \in Seq(Keys)  BY <1>1, <1>2, EntityTyped
<1>4. /\ cursor[w] < token[w] /\ ~e.deleted
      /\ \A j \in Keys : Read(w, j) = half(j)
  <2>1. to[w] - 1 = Len(e.targets)  BY <1>1, <1>2, <1>3
  <2>. QED  BY <1>1, <2>1 DEF AllInStep, InStep
<1>5. PICK k, r : k \in Keys /\
        k = e.key /\ r = Filled(Read(w, k), token[w], Targets(e)) /\ Write(w, k, r)
  BY <1>1, <1>3
<1>6. /\ Read(w, k)' = r
      /\ \A j \in Keys \ {k} : Read(w, j)' = Read(w, j)
      /\ \A v \in Writers \ {w} : dirty'[v] = dirty[v] /\ view'[v] = view[v]
  <2>1. UNCHANGED db  BY <1>1
  <2>. QED  BY <1>5, <2>1, WriteReads
<1>7. /\ at'[w] = at[w] + 1 /\ pc'[w] = "entity"
      /\ \A v \in Writers \ {w} : at'[v] = at[v] /\ pc'[v] = pc[v]
  BY <1>1 DEF TypeOK
<1>8. StageOf(w)' = Abstract!Stages(db, page[w], token[w])[at[w]]
  <2>1. at'[w] - 1 = at[w]  BY <1>2, <1>7
  <2>. QED  BY <1>1, <2>1 DEF StageOf
<1>9. ASSUME NEW j \in Keys PROVE Read(w, j)' = StageOf(w)'[j]
  <2>1. StageOf(w)'[j] = Abstract!StoredRow(StageOf(w)[j], j, e, token[w])
    BY <1>2, <1>8, StageBehind
  <2>2. StageOf(w)'[j] = IF j = e.key THEN Filled(half(j), token[w], Targets(e)) ELSE half(j)
    BY <1>3, <1>4, <2>1, HalfFilled
  <2>. HIDE DEF half
  <2>3. CASE j = k  BY <1>4, <1>5, <1>6, <2>2, <2>3
  <2>4. CASE j # k  BY <1>4, <1>5, <1>6, <2>2, <2>4
  <2>. QED  BY <2>3, <2>4
<1>10. InStep(w)'  BY <1>1, <1>4, <1>7, <1>9 DEF InStep
<1>. QED  BY <1>1, <1>6, <1>7, <1>10, InStepOwn

LEMMA InStepEnd ==
  ASSUME TypeOK, NEW w \in Writers, End(w)
  PROVE  InStep(w)'
  BY DEF End, InStep, TypeOK

(* The rows a commit changes are locked by its own transaction.            *)
LEMMA InStepCommit ==
  ASSUME TypeOK, LocksOrdered, AllInStep, NEW w \in Writers, Commit(w)
  PROVE  AllInStep'
<1>1. /\ db' = [k \in Keys |-> Read(w, k)] /\ End(w)
      /\ cursor' = [cursor EXCEPT ![w] = token[w]]
  BY DEF Commit
<1>2. db' \in [Keys -> Row]  BY <1>1, ReadTyped
<1>3. ASSUME NEW v \in Writers \ {w} PROVE InStep(v)'
  <2>1. /\ pc'[v] = pc[v] /\ page'[v] = page[v] /\ token'[v] = token[v]
        /\ at'[v] = at[v] /\ to'[v] = to[v]
        /\ dirty'[v] = dirty[v] /\ view'[v] = view[v]
    BY <1>1 DEF End, TypeOK
  <2>2. cursor'[v] = cursor[v]  BY <1>1 DEF TypeOK
  <2>3. ASSUME NEW k \in held[v] PROVE db'[k] = db[k]
    <3>1. k \in Keys /\ k \notin dirty[w]  BY DEF LocksOrdered, LocksOf, TypeOK
    <3>. QED  BY <1>1, <3>1 DEF Read
  <2>. QED  BY <1>2, <2>1, <2>2, <2>3, InStepOther DEF AllInStep
<1>4. InStep(w)'  BY <1>1, InStepEnd
<1>. QED  BY <1>3, <1>4 DEF AllInStep

LEMMA InStepStep ==
  ASSUME TypeOK, LocksOrdered, StoreInv, AllInStep, [Next]_vars
  PROVE  AllInStep'
<1>1. ASSUME NEW w \in Writers, Begin(w) PROVE AllInStep'
  <2>1. PICK t \in cursor[w] + 1 .. MaxToken : token' = [token EXCEPT ![w] = t]
    BY <1>1 DEF Begin
  <2>2. /\ pc[w] = "idle" /\ pc' = [pc EXCEPT ![w] = "lock"]
        /\ \E p \in Pages[w] : page' = [page EXCEPT ![w] = p]
        /\ UNCHANGED <<db, cursor, held, at, to, dirty, view>>
    BY <1>1 DEF Begin
  <2>3. /\ pc'[w] = "lock" /\ token'[w] = t
        /\ \A v \in Writers \ {w} : pc'[v] = pc[v] /\ token'[v] = token[v] /\ page'[v] = page[v]
    BY <2>1, <2>2 DEF TypeOK
  <2>4. cursor'[w] < token'[w]  BY <2>2, <2>3 DEF TypeOK, Tokens
  <2>5. at[w] = 1  BY <2>2 DEF AllInStep, InStep
  <2>6. InStep(w)'  BY <2>2, <2>3, <2>4, <2>5 DEF InStep
  <2>. QED  BY <2>2, <2>3, <2>6, InStepOwn
<1>2. ASSUME NEW w \in Writers, AcquireLock(w) PROVE AllInStep'
  <2>1. pc[w] = "lock" /\ UNCHANGED <<db, cursor, pc, page, token, at, to, dirty, view>>
    BY <1>2 DEF AcquireLock
  <2>2. InStep(w)'  BY <2>1 DEF AllInStep, InStep
  <2>. QED  BY <2>1, <2>2, InStepOwn
<1>3. ASSUME NEW w \in Writers, Locked(w) PROVE AllInStep'
  <2>1. /\ pc[w] = "lock" /\ pc' = [pc EXCEPT ![w] = "entity"]
        /\ UNCHANGED <<db, cursor, page, token, at, to, dirty, view>>
    BY <1>3 DEF Locked, txVars
  <2>2. pc'[w] = "entity" /\ \A v \in Writers \ {w} : pc'[v] = pc[v]
    BY <2>1 DEF TypeOK
  <2>3. at[w] = 1 /\ cursor[w] < token[w]  BY <2>1 DEF AllInStep, InStep
  <2>4. dirty[w] = {}  BY <2>1 DEF LocksOrdered, LocksOf
  <2>5. StageOf(w)' = db
    <3>1. StageOf(w)' = Abstract!Stages(db, page[w], token[w])[0]  BY <2>1, <2>3 DEF StageOf
    <3>. QED  BY <3>1, StageTyped, StagesType
  <2>6. \A k \in Keys : Read(w, k)' = db[k]  BY <2>1, <2>4 DEF Read
  <2>7. InStep(w)'  BY <2>1, <2>2, <2>3, <2>5, <2>6 DEF InStep
  <2>. QED  BY <2>1, <2>2, <2>7, InStepOwn
<1>4. ASSUME NEW w \in Writers, Rollback(w) PROVE AllInStep'
  <2>1. End(w) /\ UNCHANGED <<db, cursor>>  BY <1>4 DEF Rollback
  <2>2. \A v \in Writers \ {w} :
          /\ pc'[v] = pc[v] /\ page'[v] = page[v] /\ token'[v] = token[v]
          /\ at'[v] = at[v] /\ to'[v] = to[v]
          /\ dirty'[v] = dirty[v] /\ view'[v] = view[v]
    BY <2>1 DEF End, TypeOK
  <2>. QED  BY <2>1, <2>2, InStepEnd, InStepOwn
<1>5. CASE UNCHANGED vars
  <2>1. ASSUME NEW v \in Writers PROVE InStep(v)'
    BY <1>5, InStepOther DEF vars, AllInStep, TypeOK
  <2>. QED  BY <2>1 DEF AllInStep
<1>. QED
  BY <1>1, <1>2, <1>3, <1>4, <1>5, InStepUpsertEntity, InStepUpsertTarget,
     InStepInsertRows, InStepCommit DEF Next, Statement

(* A commit is the whole page, applied in one step.                        *)
LEMMA CommitAppliesPage ==
  ASSUME TypeOK, AllInStep, NEW w \in Writers, Commit(w)
  PROVE  Abstract!ApplyPage(w)
<1>1. /\ pc[w] = "entity" /\ at[w] > Len(page[w])
      /\ db' = [k \in Keys |-> Read(w, k)]
      /\ cursor' = [cursor EXCEPT ![w] = token[w]]
  BY DEF Commit
<1>2. page[w] \in Pages[w] /\ page[w] \in Seq(Entity) /\ at[w] - 1 = Len(page[w])
  BY <1>1 DEF TypeOK, Placed
<1>3. token[w] \in cursor[w] + 1 .. MaxToken
  <2>1. token[w] \in 0 .. MaxToken /\ cursor[w] \in 0 .. MaxToken  BY DEF TypeOK, Tokens
  <2>2. cursor[w] < token[w]  BY <1>1 DEF AllInStep, InStep
  <2>. QED  BY <2>1, <2>2
<1>4. db' = Abstract!Applied(db, page[w], token[w])
  <2>1. StageOf(w) = Abstract!Applied(db, page[w], token[w])
    BY <1>2 DEF StageOf, Abstract!Applied
  <2>2. \A k \in Keys : Read(w, k) = StageOf(w)[k]  BY <1>1 DEF AllInStep, InStep
  <2>3. StageOf(w) = [k \in Keys |-> StageOf(w)[k]]  BY StageTyped
  <2>. QED  BY <1>1, <2>1, <2>2, <2>3
<1>. QED  BY <1>1, <1>2, <1>3, <1>4 DEF Abstract!ApplyPage

LEMMA PageStoreStep ==
  ASSUME TypeOK, AllInStep, [Next]_vars
  PROVE  [Abstract!Next]_(Abstract!vars)
<1>1. ASSUME NEW w \in Writers, Commit(w) PROVE Abstract!Next
  BY <1>1, CommitAppliesPage DEF Abstract!Next
<1>2. ASSUME NEW w \in Writers,
             Begin(w) \/ AcquireLock(w) \/ Locked(w) \/ UpsertEntity(w) \/ UpsertTarget(w)
               \/ InsertRows(w) \/ Rollback(w)
      PROVE  UNCHANGED <<db, cursor>>
  BY <1>2 DEF Begin, AcquireLock, Locked, UpsertEntity, UpsertTarget, InsertRows, Rollback
<1>3. CASE UNCHANGED vars  BY <1>3 DEF vars, Abstract!vars
<1>. QED  BY <1>1, <1>2, <1>3 DEF Next, Statement, Abstract!vars

(* Concurrent transactions, rolled back or committed, have the effect of   *)
(* pages applied one at a time in the order of their commits: no half page *)
(* and no lost update on a shared relation target (write_sync_page).       *)
THEOREM PagesAreAtomic == Spec => RefinesPageStore
<1>1. Init => TypeOK /\ LocksOrdered /\ StoreInv /\ AllInStep
  BY TypeInit, LocksInit, StoreInit, InStepInit
<1>2. TypeOK /\ LocksOrdered /\ StoreInv /\ AllInStep /\ [Next]_vars
        => TypeOK' /\ LocksOrdered' /\ StoreInv' /\ AllInStep'
  BY TypeStep, LocksStep, StoreStep, InStepStep
<1>3. Init => Abstract!Init  BY DEF Init, Absent, Abstract!Init
<1>4. TypeOK /\ AllInStep /\ [Next]_vars => [Abstract!Next]_(Abstract!vars)
  BY PageStoreStep
<1>. QED  BY <1>1, <1>2, <1>3, <1>4, PTL DEF Spec, RefinesPageStore, Abstract!Spec

-------------------------------------------------------------------------------
(* SyncWriter implements CategoryStore, for each category.                 *)

(* As a reader of the category sees it: an entity's row is the page's,     *)
(* with its token, and a relation's target is raised to that.              *)
Brought(t, deleted) == [sk |-> t, deleted |-> deleted, body |-> IF deleted THEN 0 ELSE 1]
Raised(r, t) ==
  [sk |-> IF r.sk < t THEN t ELSE r.sk, deleted |-> r.deleted, body |-> r.body]

(* What is not registered is not deleted and has no rows.                  *)
Sound(r) == r.sk = 0 => ~r.deleted /\ r.row = 0

LEMMA SeenTouched ==
  ASSUME NEW r \in Row, Sound(r), NEW t \in Tokens
  PROVE  Seen(Touch(r, t)) = Raised(Seen(r), t)
<1>1. CASE r.sk = 0
  <2>1. r.deleted = FALSE /\ r.row = 0 /\ (t = 0 \/ 0 < t)  BY <1>1 DEF Sound, Row, Tokens
  <2>2. Touch(r, t) = [sk |-> t, deleted |-> FALSE, row |-> 0, links |-> {}]
    BY <1>1 DEF Touch, Marked
  <2>3. Seen(r) = [sk |-> 0, deleted |-> FALSE, body |-> 0]  BY <1>1, <2>1 DEF Seen
  <2>4. Raised([sk |-> 0, deleted |-> FALSE, body |-> 0], t) =
          [sk |-> t, deleted |-> FALSE, body |-> 0]
    BY <2>1 DEF Raised, Tokens
  <2>. QED  BY <2>2, <2>3, <2>4 DEF Seen
<1>2. CASE r.sk # 0
  <2>. DEFINE sk == IF r.sk < t THEN t ELSE r.sk
  <2>1. Touch(r, t) = [sk |-> sk, deleted |-> r.deleted, row |-> r.row, links |-> r.links]
    BY <1>2 DEF Touch, Row
  <2>2. Raised(Seen(r), t) = [sk |-> sk, deleted |-> r.deleted,
                              body |-> IF r.row = 0 THEN 0 ELSE 1]
    BY DEF Seen, Raised
  <2>. HIDE DEF sk
  <2>. QED  BY <2>1, <2>2 DEF Seen
<1>. QED  BY <1>1, <1>2

(* One entity of a page, as a reader sees the rows of key k.               *)
LEMMA SeenStored ==
  ASSUME NEW e \in Entity, NEW k \in Keys, NEW r \in Row, Sound(r), NEW t \in Tokens, t # 0
  PROVE  /\ Sound(Abstract!StoredRow(r, k, e, t))
         /\ Seen(Abstract!StoredRow(r, k, e, t)) =
              IF k = e.key THEN Brought(t, e.deleted)
              ELSE IF ~e.deleted /\ k \in Targets(e) THEN Raised(Seen(r), t)
              ELSE Seen(r)
<1>1. Abstract!ToSet(e.targets) = Targets(e)  BY DEF Abstract!ToSet, Targets
<1>2. CASE k = e.key
  <2>. DEFINE own == Abstract!Registered(t, e.deleted)
  <2>1. own = [sk |-> t, deleted |-> e.deleted, row |-> 0, links |-> {}]
    BY DEF Abstract!Registered
  <2>2. Abstract!Touched(own, t) = own
    <3>. HIDE DEF own
    <3>1. own.sk = t /\ ~(t < t)  BY <2>1 DEF Tokens
    <3>2. [own EXCEPT !.sk = own.sk] = own  BY <2>1
    <3>. QED  BY <3>1, <3>2 DEF Abstract!Touched
  <2>3. Abstract!StoredRow(r, k, e, t) =
          IF ~e.deleted THEN [sk |-> t, deleted |-> e.deleted, row |-> t, links |-> Targets(e)]
                        ELSE own
    <3>. HIDE DEF own
    <3>1. own.sk = t /\ own.deleted = e.deleted  BY <2>1
    <3>. QED  BY <1>1, <1>2, <2>2, <3>1 DEF Abstract!StoredRow, own
  <2>. HIDE DEF own
  <2>4. e.deleted \in BOOLEAN  BY DEF Entity
  <2>. QED  BY <1>2, <2>1, <2>3, <2>4 DEF Sound, Seen, Brought
<1>3. CASE k # e.key
  <2>1. Abstract!StoredRow(r, k, e, t) =
          IF ~e.deleted /\ k \in Targets(e) THEN Touch(r, t) ELSE r
    BY <1>1, <1>3, TouchIsTouched DEF Abstract!StoredRow
  <2>2. Sound(Touch(r, t))
    <3>. DEFINE touched == Touch(r, t)
    <3>1. t <= touched.sk /\ touched.sk \in Nat /\ t \in Nat  BY TouchRow DEF Tokens
    <3>. HIDE DEF touched
    <3>2. touched.sk # 0  BY <3>1
    <3>. QED  BY <3>2 DEF Sound, touched
  <2>. QED  BY <1>3, <2>1, <2>2, SeenTouched
<1>. QED  BY <1>2, <1>3

(* What the first n entities of a page write, and what their relations     *)
(* lead to.                                                                *)
WrittenKeys(p, n) == {p[i].key : i \in 1 .. n}
TouchedKeys(p, n) == UNION {Targets(p[i]) : i \in {j \in 1 .. n : ~p[j].deleted}}

(* All that they change of a row, whatever their order, and however often  *)
(* it comes among them.                                                    *)
SeenAfter(r, k, p, n, t, deleted) ==
  IF k \in WrittenKeys(p, n) THEN Brought(t, deleted)
  ELSE IF k \in TouchedKeys(p, n) THEN Raised(r, t)
  ELSE r

LEMMA SeenTyped ==
  ASSUME NEW r \in Row
  PROVE  /\ Seen(r) \in [sk : Tokens, deleted : BOOLEAN, body : {0, 1}]
         /\ Seen(r).sk = r.sk /\ Seen(r).deleted = r.deleted
  BY DEF Seen, Row

LEMMA RaisedTwice ==
  ASSUME NEW r, r.sk \in Nat, NEW t \in Nat, NEW b
  PROVE  /\ Raised(Raised(r, t), t) = Raised(r, t)
         /\ Raised(Brought(t, b), t) = Brought(t, b)
         /\ Raised(r, t).deleted = r.deleted
         /\ Brought(t, b).deleted = b
  BY DEF Raised, Brought

LEMMA KeysOfOneMore ==
  ASSUME NEW p \in Seq(Entity), NEW m \in Nat
  PROVE  /\ WrittenKeys(p, 0) = {} /\ TouchedKeys(p, 0) = {}
         /\ WrittenKeys(p, m + 1) = WrittenKeys(p, m) \cup {p[m + 1].key}
         /\ TouchedKeys(p, m + 1) =
              TouchedKeys(p, m) \cup IF p[m + 1].deleted THEN {} ELSE Targets(p[m + 1])
<1>1. 1 .. m + 1 = 1 .. m \cup {m + 1} /\ 1 .. 0 = {}  OBVIOUS
<1>2. {j \in 1 .. m + 1 : ~p[j].deleted} =
        {j \in 1 .. m : ~p[j].deleted} \cup IF p[m + 1].deleted THEN {} ELSE {m + 1}
  BY <1>1
<1>. QED  BY <1>1, <1>2 DEF WrittenKeys, TouchedKeys

LEMMA SeenStages ==
  ASSUME NEW d \in [Keys -> Row], NEW k \in Keys, Sound(d[k]),
         NEW p \in Seq(Entity), NEW t \in Tokens, t # 0, NEW n \in 0 .. Len(p)
  PROVE  LET r == Abstract!Stages(d, p, t)[n][k]
         IN Seen(r) = SeenAfter(Seen(d[k]), k, p, n, t, r.deleted)
<1>. DEFINE f == Abstract!Stages(d, p, t)
            was == Seen(d[k])
            After(m) == /\ Sound(f[m][k])
                        /\ Seen(f[m][k]) = SeenAfter(was, k, p, m, t, f[m][k].deleted)
            S == {m \in Nat : m \in 0 .. Len(p) => After(m)}
<1>1. f[0] = d /\ \A m \in 0 .. Len(p) : f[m][k] \in Row  BY StagesType
<1>2. \A m \in 1 .. Len(p) : f[m][k] = Abstract!StoredRow(f[m - 1][k], k, p[m], t)
  BY StagesStep
<1>3. was.sk \in Nat /\ t \in Nat  BY SeenTyped DEF Tokens
<1>. HIDE DEF f, was
<1>4. 0 \in S  BY <1>1, KeysOfOneMore DEF SeenAfter, was
<1>5. ASSUME NEW m \in Nat, m \in S PROVE m + 1 \in S
  <2>1. SUFFICES ASSUME m + 1 \in 0 .. Len(p) PROVE After(m + 1)  OBVIOUS
  <2>. DEFINE r == f[m][k]
              q == f[m + 1][k]
              e == p[m + 1]
  <2>2. m + 1 \in 1 .. Len(p) /\ m + 1 - 1 = m /\ m \in 0 .. Len(p) /\ After(m) /\ e \in Entity
    BY <1>5, <2>1
  <2>3. r \in Row /\ q \in Row /\ q = Abstract!StoredRow(r, k, e, t)
    BY <1>1, <1>2, <2>1, <2>2
  <2>4. Sound(r) /\ Seen(r) = SeenAfter(was, k, p, m, t, r.deleted)  BY <2>2
  <2>. HIDE DEF r, q, e
  <2>5. /\ Sound(q)
        /\ Seen(q) = IF k = e.key THEN Brought(t, e.deleted)
                     ELSE IF ~e.deleted /\ k \in Targets(e) THEN Raised(Seen(r), t)
                     ELSE Seen(r)
    BY <2>2, <2>3, <2>4, SeenStored
  <2>6. Seen(q).deleted = q.deleted /\ Seen(r).deleted = r.deleted  BY <2>3, SeenTyped
  <2>7. /\ k \in WrittenKeys(p, m + 1) <=> k \in WrittenKeys(p, m) \/ k = e.key
        /\ k \in TouchedKeys(p, m + 1) <=>
             k \in TouchedKeys(p, m) \/ (~e.deleted /\ k \in Targets(e))
    <3>1. /\ WrittenKeys(p, m + 1) = WrittenKeys(p, m) \cup {e.key}
          /\ TouchedKeys(p, m + 1) =
               TouchedKeys(p, m) \cup IF e.deleted THEN {} ELSE Targets(e)
      BY KeysOfOneMore DEF e
    <3>. QED  BY <3>1
  <2>8. CASE k = e.key
    <3>1. Seen(q) = Brought(t, e.deleted) /\ q.deleted = e.deleted
      BY <1>3, <2>5, <2>6, <2>8, RaisedTwice
    <3>. QED  BY <2>5, <2>7, <2>8, <3>1 DEF SeenAfter, q
  <2>9. CASE k # e.key /\ ~e.deleted /\ k \in Targets(e)
    <3>1. Seen(q) = Raised(Seen(r), t)  BY <2>5, <2>9
    <3>2. Seen(r).sk \in Nat  BY <2>3, SeenTyped DEF Tokens
    <3>3. q.deleted = r.deleted
      <4>1. Raised(Seen(r), t).deleted = Seen(r).deleted  BY DEF Raised
      <4>. QED  BY <2>6, <3>1, <4>1
    <3>4. Raised(Seen(r), t) = SeenAfter(was, k, p, m + 1, t, r.deleted)
      <4>1. /\ Raised(Raised(was, t), t) = Raised(was, t)
            /\ Raised(Brought(t, r.deleted), t) = Brought(t, r.deleted)
        BY <1>3, RaisedTwice
      <4>2. CASE k \in WrittenKeys(p, m)  BY <2>4, <2>7, <4>1, <4>2 DEF SeenAfter
      <4>3. CASE k \notin WrittenKeys(p, m)  BY <2>4, <2>7, <2>9, <4>1, <4>3 DEF SeenAfter
      <4>. QED  BY <4>2, <4>3
    <3>. QED  BY <2>5, <3>1, <3>3, <3>4 DEF q
  <2>10. CASE k # e.key /\ ~(~e.deleted /\ k \in Targets(e))
    <3>1. Seen(q) = Seen(r) /\ q.deleted = r.deleted  BY <2>5, <2>6, <2>10
    <3>. QED  BY <2>4, <2>5, <2>7, <2>10, <3>1 DEF SeenAfter, q
  <2>. QED  BY <2>8, <2>9, <2>10
<1>. HIDE DEF S
<1>6. n \in S  BY <1>4, <1>5, NatSetInduction
<1>. QED  BY <1>6 DEF S, f, was

(* A page is for every category a page of its own or one of another's.     *)
(* (Titles are no part of the writer's rows.)                              *)
LEMMA CategoryPage ==
  ASSUME TypeOK, StoreInv, NEW w \in Writers, Abstract!ApplyPage(w), NEW c \in Writers
  PROVE  Store(c)!CategoryNext
<1>1. PICK p \in Pages[w], t \in cursor[w] + 1 .. MaxToken :
        /\ db' = Abstract!Applied(db, p, t)
        /\ cursor' = [cursor EXCEPT ![w] = t]
  BY DEF Abstract!ApplyPage
<1>2. /\ p \in Seq(Entity) /\ p # <<>> /\ Len(p) \in Nat
      /\ cursor[w] \in Tokens /\ t \in Tokens /\ t # 0 /\ t \in 1 .. MaxToken /\ cursor[w] < t
  BY DEF TypeOK, Tokens
<1>. DEFINE own == KeysIn(c)
            was == [k \in own |-> Seen(db[k])]
            now == [k \in own |-> Seen(db'[k])]
            written == own \cap WrittenKeys(p, Len(p))
            touched == own \cap TouchedKeys(p, Len(p))
            deleted == {k \in written : db'[k].deleted}
<1>3. own \subseteq Keys  BY DEF KeysIn
<1>4. ASSUME NEW k \in own
      PROVE  now[k] = IF k \in written THEN Brought(t, k \in deleted)
                      ELSE IF k \in touched THEN Raised(was[k], t)
                      ELSE was[k]
  <2>1. k \in Keys /\ db \in [Keys -> Row] /\ Len(p) \in 0 .. Len(p)
    BY <1>2, <1>3, <1>4 DEF TypeOK
  <2>2. Sound(db[k])
    <3>1. Fits(db[k])  BY <2>1 DEF StoreInv, StoreConsistent
    <3>2. db[k].sk = 0 => ~db[k].deleted  BY <3>1 DEF Fits
    <3>3. db[k].sk = 0 => db[k].row = 0  BY <2>1, <3>1 DEF Fits, Row, Tokens
    <3>. QED  BY <3>2, <3>3 DEF Sound
  <2>3. db' = Abstract!Stages(db, p, t)[Len(p)]  BY <1>1 DEF Abstract!Applied
  <2>4. Seen(db'[k]) = SeenAfter(Seen(db[k]), k, p, Len(p), t, db'[k].deleted)
    BY <1>2, <2>1, <2>2, <2>3, SeenStages
  <2>5. db'[k].deleted \in BOOLEAN
    <3>1. Abstract!Stages(db, p, t) \in [0 .. Len(p) -> [Keys -> Row]]
      BY <1>2, <2>1, StagesType
    <3>2. db'[k] \in Row  BY <2>1, <2>3, <3>1
    <3>. QED  BY <3>2 DEF Row
  <2>. QED  BY <1>4, <2>4, <2>5 DEF SeenAfter
<1>5. \A k \in own : Store(c)!Raised(was[k], t) = Raised(was[k], t)
  <2> SUFFICES ASSUME NEW k \in own PROVE Store(c)!Raised(was[k], t) = Raised(was[k], t)
    OBVIOUS
  <2>1. was[k] \in [sk : Tokens, deleted : BOOLEAN, body : {0, 1}]
    BY <1>3, SeenTyped DEF TypeOK
  <2>. HIDE DEF was, own
  <2>. QED  BY <2>1 DEF Store!Raised, Raised
<1>6. \A b : Store(c)!Brought(t, b) = Brought(t, b)  BY DEF Store!Brought, Brought
<1>7. CASE c = w
  <2>1. written # {}
    <3>1. 1 \in 1 .. Len(p) /\ 1 \in DOMAIN p /\ p[1] \in Entity  BY <1>2
    <3>2. p[1].key \in Keys /\ Category[p[1].key] = w
      BY <3>1, CategoryAssumption DEF Entity
    <3>. QED  BY <1>7, <3>1, <3>2 DEF KeysIn, WrittenKeys
  <2>2. Store(c)!WritePage(written, deleted, touched, {}, t)
    <3>1. t > cursor[c] /\ cursor'[c] = t  BY <1>1, <1>2, <1>7 DEF TypeOK, Tokens
    <3>2. now = [k \in own |-> IF k \in written THEN Store(c)!Brought(t, k \in deleted)
                               ELSE IF k \in touched THEN Store(c)!Raised(was[k], t)
                               ELSE was[k]]
      BY <1>4, <1>5, <1>6
    <3>. HIDE DEF written, deleted, touched
    <3>. QED  BY <3>1, <3>2 DEF Store!WritePage, Store!AsRead
  <2>. QED  BY <1>2, <2>1, <2>2 DEF Store!CategoryNext
<1>8. CASE c # w
  <2>1. written = {}
    <3>1. \A i \in 1 .. Len(p) : Category[p[i].key] = w  BY <1>2, CategoryAssumption
    <3>. QED  BY <1>8, <3>1 DEF KeysIn, WrittenKeys
  <2>2. Store(c)!WriteElsewhere(touched, {}, t)
    <3>1. cursor'[c] = cursor[c]  BY <1>1, <1>8 DEF TypeOK
    <3>2. now = [k \in own |-> IF k \in touched THEN Store(c)!Raised(was[k], t) ELSE was[k]]
      BY <1>4, <1>5, <2>1
    <3>. HIDE DEF written, deleted, touched
    <3>. QED  BY <3>1, <3>2 DEF Store!WriteElsewhere, Store!AsRead
  <2>. QED  BY <1>2, <2>2 DEF Store!CategoryNext
<1>. QED  BY <1>7, <1>8

LEMMA CategoryStoreStep ==
  ASSUME TypeOK, StoreInv, AllInStep, [Next]_vars
  PROVE  [CategoriesStep]_<<db, cursor>>
<1>1. [Abstract!Next]_(Abstract!vars)  BY PageStoreStep
<1>2. CASE UNCHANGED Abstract!vars  BY <1>2 DEF Abstract!vars
<1>3. ASSUME NEW w \in Writers, Abstract!ApplyPage(w), NEW c \in Writers
      PROVE  Store(c)!CategoryStep
  BY <1>3, CategoryPage DEF Store!CategoryStep
<1>. QED  BY <1>1, <1>2, <1>3 DEF Abstract!Next, CategoriesStep

LEMMA CategoryStoreInit ==
  ASSUME Init, NEW c \in Writers
  PROVE  Store(c)!CategoryInit
<1>1. Seen(Absent) = Store(c)!NoRow
  BY DEF Seen, Absent, Abstract!Absent, Abstract!Registered, Store!NoRow
<1>2. \A k \in KeysIn(c) : db[k] = Absent  BY DEF Init, KeysIn
<1>. QED  BY <1>1, <1>2 DEF Init, Store!CategoryInit

(* To the readers of a category, concurrent transactions statement by      *)
(* statement, rolled back or committed, are pages that change its rows in  *)
(* one step each, as CategoryStore says: what the change feed and the      *)
(* search reconciler assume of the writers (write_sync_page).              *)
THEOREM ReadersSeePages == Spec => RefinesCategoryStore
<1>1. Init => TypeOK /\ LocksOrdered /\ StoreInv /\ AllInStep
  BY TypeInit, LocksInit, StoreInit, InStepInit
<1>2. TypeOK /\ LocksOrdered /\ StoreInv /\ AllInStep /\ [Next]_vars
        => TypeOK' /\ LocksOrdered' /\ StoreInv' /\ AllInStep'
  BY TypeStep, LocksStep, StoreStep, InStepStep
<1>3. Init => CategoriesInit  BY CategoryStoreInit DEF CategoriesInit
<1>4. TypeOK /\ StoreInv /\ AllInStep /\ [Next]_vars => [CategoriesStep]_<<db, cursor>>
  BY CategoryStoreStep
<1>. QED  BY <1>1, <1>2, <1>3, <1>4, PTL DEF Spec, RefinesCategoryStore
===============================================================================
