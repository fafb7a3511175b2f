------------------------ MODULE SearchReconcilerProofs ------------------------
(***************************************************************************)
(* What a completed pass has made exact, for every number of entities and  *)
(* tokens, every batch size and every history of commits and failures.     *)
(***************************************************************************)
EXTENDS SearchReconciler, FiniteSetTheorems, WellFoundedInduction, TLAPS

-------------------------------------------------------------------------------
(* Least and greatest elements.                                            *)

LEMMA LeastExists ==
  ASSUME NEW S \in SUBSET Nat, S # {}
  PROVE  \E m \in S : \A n \in S : m <= n
<1> DEFINE R == OpToRel(<, Nat)
<1>1. IsWellFoundedOn(R, Nat)  BY NatLessThanWellFounded
<1>2. PICK m \in S : \A n \in S : ~(<<n, m>> \in R)
  <2> HIDE DEF R
  <2>. QED  BY <1>1, WFMin
<1>3. ASSUME NEW n \in S PROVE m <= n
  <2>1. n \in Nat /\ m \in Nat  OBVIOUS
  <2>2. n < m => <<n, m>> \in R  BY <2>1 DEF OpToRel
  <2> HIDE DEF R
  <2>. QED  BY <1>2, <2>1, <2>2
<1>. QED  BY <1>3

LEMMA GreatestExists ==
  ASSUME NEW bound \in Nat, NEW S \in SUBSET (0 .. bound), S # {}
  PROVE  \E m \in S : \A n \in S : n <= m
<1> DEFINE D == {bound - n : n \in S}
<1>1. D \subseteq Nat /\ D # {}
  <2>1. \A n \in S : bound - n \in Nat  OBVIOUS
  <2>. QED  BY <2>1
<1>2. PICK d \in D : \A e \in D : d <= e  BY <1>1, LeastExists
<1>3. PICK m \in S : d = bound - m  OBVIOUS
<1>4. ASSUME NEW n \in S PROVE n <= m
  <2>1. bound - m <= bound - n  BY <1>2, <1>3
  <2>. QED  BY <2>1
<1>. QED  BY <1>4

LEMMA KeysCounted ==
  ASSUME NEW ks \in SUBSET Keys
  PROVE  IsFiniteSet(ks) /\ Cardinality(ks) \in Nat
BY KeysAssumption, FS_Subset, FS_CardinalityType

-------------------------------------------------------------------------------
(* The rows of a category, as its readers see them change.                 *)

(* What is stored for one key.                                             *)
StoreRow == [sk : Tokens, deleted : BOOLEAN, body : {0} \cup Contents]

(* A relation changes at most the token of a row.                          *)
LEMMA RaisedRow ==
  ASSUME NEW r \in StoreRow, NEW t \in Tokens, t > 0
  PROVE  /\ Raised(r, t) \in {r, [r EXCEPT !.sk = t]}
         /\ Raised(r, t) \in StoreRow
         /\ Raised(r, t).deleted = r.deleted /\ Raised(r, t).body = r.body
         /\ Raised(r, t).sk = IF r.sk < t THEN t ELSE r.sk
         /\ Raised(r, t) = r \/ Raised(r, t).sk = t
BY DEF Raised, StoreRow

LEMMA BroughtRow ==
  ASSUME NEW t \in Tokens, NEW deleted \in BOOLEAN
  PROVE  /\ Brought(t, deleted) \in StoreRow
         /\ Brought(t, deleted).sk = t
         /\ Brought(t, deleted).deleted \/ Brought(t, deleted).body # 0
BY DEF Brought, StoreRow, Contents

(* Other words leave the token, and whether there is a row.                *)
LEMMA RewordedRow ==
  ASSUME NEW r \in StoreRow
  PROVE  /\ Reworded(r) \in StoreRow
         /\ Reworded(r).sk = r.sk /\ Reworded(r).deleted = r.deleted
         /\ Reworded(r).body = 0 <=> r.body = 0
BY DEF Reworded, StoreRow, Contents

LEMMA ReadRow ==
  ASSUME NEW r \in StoreRow, NEW reworded \in BOOLEAN
  PROVE  /\ AsRead(r, reworded) \in StoreRow
         /\ AsRead(r, reworded).sk = r.sk /\ AsRead(r, reworded).deleted = r.deleted
         /\ AsRead(r, reworded).body = 0 <=> r.body = 0
BY RewordedRow DEF AsRead

CategoryRows == store \in [Keys -> StoreRow] /\ feed \in Tokens

(* A page of the category: the rows it brings, and those whose token its   *)
(* relations raise, have its token afterwards.                             *)
LEMMA PageWrites ==
  ASSUME CategoryRows, NEW written \in SUBSET Keys, NEW deleted \in SUBSET written,
         NEW touched \in SUBSET Keys, NEW reworded \in SUBSET Keys, NEW t \in 1 .. MaxToken,
         WritePage(written, deleted, touched, reworded, t)
  PROVE  /\ CategoryRows' /\ feed' = t
         /\ \A k \in Keys :
              /\ store'[k].sk = IF k \in written \/ (k \in touched /\ store[k].sk < t)
                                THEN t ELSE store[k].sk
              /\ \/ k \in written /\ (store'[k].deleted \/ store'[k].body # 0)
                 \/ /\ store'[k].deleted = store[k].deleted
                    /\ store'[k].body = 0 <=> store[k].body = 0
<1>1. t \in Tokens /\ t > 0  BY BoundsAssumption DEF Tokens
<1>2. feed' = t /\ store' = [k \in Keys |-> store'[k]]  BY DEF WritePage
<1>3. ASSUME NEW k \in Keys
      PROVE  /\ store'[k] \in StoreRow
             /\ store'[k].sk = IF k \in written \/ (k \in touched /\ store[k].sk < t)
                               THEN t ELSE store[k].sk
             /\ \/ k \in written /\ (store'[k].deleted \/ store'[k].body # 0)
                \/ /\ store'[k].deleted = store[k].deleted
                   /\ store'[k].body = 0 <=> store[k].body = 0
  <2>. DEFINE other == k \in reworded
              gone == k \in deleted
  <2>1. store[k] \in StoreRow /\ other \in BOOLEAN /\ gone \in BOOLEAN  BY DEF CategoryRows
  <2>2. CASE k \in written
    <3>1. store'[k] = AsRead(Brought(t, gone), other)  BY <2>2 DEF WritePage
    <3> HIDE DEF gone, other
    <3>2. /\ Brought(t, gone) \in StoreRow /\ Brought(t, gone).sk = t
          /\ Brought(t, gone).deleted \/ Brought(t, gone).body # 0
      BY <1>1, <2>1, BroughtRow
    <3>3. /\ store'[k] \in StoreRow /\ store'[k].sk = t
          /\ store'[k].deleted \/ store'[k].body # 0
      BY <2>1, <3>1, <3>2, ReadRow
    <3>. QED  BY <2>2, <3>3
  <2>3. CASE k \notin written /\ k \in touched
    <3>1. store'[k] = AsRead(Raised(store[k], t), other)  BY <2>3 DEF WritePage
    <3> HIDE DEF gone, other
    <3>2. /\ Raised(store[k], t) \in StoreRow
          /\ Raised(store[k], t).deleted = store[k].deleted
          /\ Raised(store[k], t).body = store[k].body
          /\ Raised(store[k], t).sk = IF store[k].sk < t THEN t ELSE store[k].sk
      BY <1>1, <2>1, RaisedRow
    <3>. QED  BY <2>1, <2>3, <3>1, <3>2, ReadRow
  <2>4. CASE k \notin written /\ k \notin touched
    <3>1. store'[k] = AsRead(store[k], other)  BY <2>4 DEF WritePage
    <3> HIDE DEF gone, other
    <3>. QED  BY <2>1, <2>4, <3>1, ReadRow
  <2>. QED  BY <2>2, <2>3, <2>4
<1>4. store' \in [Keys -> StoreRow]  BY <1>2, <1>3
<1>. QED  BY <1>1, <1>2, <1>3, <1>4 DEF CategoryRows

(* ... and a page of another category.                                     *)
LEMMA RelationWrites ==
  ASSUME CategoryRows, NEW touched \in SUBSET Keys, NEW reworded \in SUBSET Keys,
         NEW t \in 1 .. MaxToken, WriteElsewhere(touched, reworded, t)
  PROVE  /\ CategoryRows' /\ UNCHANGED feed
         /\ \A k \in Keys :
              /\ store'[k].sk = IF k \in touched /\ store[k].sk < t THEN t ELSE store[k].sk
              /\ store'[k].deleted = store[k].deleted
              /\ store'[k].body = 0 <=> store[k].body = 0
<1>1. t \in Tokens /\ t > 0  BY BoundsAssumption DEF Tokens
<1>2. UNCHANGED feed /\ store' = [k \in Keys |-> store'[k]]  BY DEF WriteElsewhere
<1>3. ASSUME NEW k \in Keys
      PROVE  /\ store'[k] \in StoreRow
             /\ store'[k].sk = IF k \in touched /\ store[k].sk < t THEN t ELSE store[k].sk
             /\ store'[k].deleted = store[k].deleted
             /\ store'[k].body = 0 <=> store[k].body = 0
  <2>. DEFINE other == k \in reworded
  <2>1. store[k] \in StoreRow /\ other \in BOOLEAN  BY DEF CategoryRows
  <2>2. CASE k \in touched
    <3>1. store'[k] = AsRead(Raised(store[k], t), other)  BY <2>2 DEF WriteElsewhere
    <3> HIDE DEF other
    <3>2. /\ Raised(store[k], t) \in StoreRow
          /\ Raised(store[k], t).deleted = store[k].deleted
          /\ Raised(store[k], t).body = store[k].body
          /\ Raised(store[k], t).sk = IF store[k].sk < t THEN t ELSE store[k].sk
      BY <1>1, <2>1, RaisedRow
    <3>. QED  BY <2>1, <2>2, <3>1, <3>2, ReadRow
  <2>3. CASE k \notin touched
    <3>1. store'[k] = AsRead(store[k], other)  BY <2>3 DEF WriteElsewhere
    <3> HIDE DEF other
    <3>. QED  BY <2>1, <2>3, <3>1, ReadRow
  <2>. QED  BY <2>2, <2>3
<1>4. store' \in [Keys -> StoreRow]  BY <1>2, <1>3
<1>. QED  BY <1>2, <1>3, <1>4 DEF CategoryRows

LEMMA RegistryStep ==
  ASSUME CategoryRows, [CategoryNext]_<<store, feed>>
  PROVE  CategoryRows' /\ [Registry!RegistryNext]_<<[k \in Keys |-> store[k].sk], feed>>
<1>1. ASSUME NEW written \in (SUBSET Keys) \ {{}}, NEW deleted \in SUBSET written,
             NEW touched \in SUBSET Keys, NEW reworded \in SUBSET Keys,
             NEW t \in 1 .. MaxToken, WritePage(written, deleted, touched, reworded, t)
      PROVE  CategoryRows' /\ Registry!StorePage(written, touched, t)
  <2>1. /\ CategoryRows' /\ feed' = t /\ t > feed
        /\ \A k \in Keys :
             store'[k].sk = IF k \in written \/ (k \in touched /\ store[k].sk < t)
                            THEN t ELSE store[k].sk
    <3>1. t > feed  BY <1>1 DEF WritePage
    <3>2. CategoryRows /\ written \in SUBSET Keys  OBVIOUS
    <3>3. /\ CategoryRows' /\ feed' = t
          /\ \A k \in Keys :
               store'[k].sk = IF k \in written \/ (k \in touched /\ store[k].sk < t)
                              THEN t ELSE store[k].sk
      <4>1. PICK d \in SUBSET written, n \in SUBSET Keys : WritePage(written, d, touched, n, t)
        BY <1>1
      <4>2. t \in 1 .. MaxToken /\ touched \in SUBSET Keys  OBVIOUS
      <4>3. /\ CategoryRows' /\ feed' = t
            /\ \A k \in Keys :
                 /\ store'[k].sk = IF k \in written \/ (k \in touched /\ store[k].sk < t)
                                   THEN t ELSE store[k].sk
                 /\ \/ k \in written /\ (store'[k].deleted \/ store'[k].body # 0)
                    \/ /\ store'[k].deleted = store[k].deleted
                       /\ store'[k].body = 0 <=> store[k].body = 0
        BY ONLY <3>2, <4>1, <4>2, PageWrites
      <4>. QED  BY <4>3
    <3>. QED  BY <3>1, <3>3
  <2>. QED  BY <2>1 DEF Registry!StorePage, Registry!Assign, Registry!Given
<1>2. ASSUME NEW touched \in SUBSET Keys, NEW reworded \in SUBSET Keys,
             NEW t \in 1 .. MaxToken, WriteElsewhere(touched, reworded, t)
      PROVE  CategoryRows' /\ Registry!Touch(touched, t)
  <2>1. /\ CategoryRows' /\ UNCHANGED feed
        /\ \A k \in Keys :
             store'[k].sk = IF k \in touched /\ store[k].sk < t THEN t ELSE store[k].sk
    BY <1>2, RelationWrites
  <2>. QED  BY <2>1 DEF Registry!Touch, Registry!Assign, Registry!Given
<1>3. CASE UNCHANGED <<store, feed>>  BY <1>3 DEF CategoryRows
<1>. QED  BY <1>1, <1>2, <1>3 DEF CategoryNext, Registry!RegistryNext

(* A client of GET /changes follows what every reader of the category sees:*)
(* the tokens alone change as ChangeFeed has them change (upsert_sync_     *)
(* entity, upsert_relation_target), whatever else is in the rows.          *)
THEOREM TokensAreTheRegistry == CategorySpec => Registry!RegistrySpec
<1>1. CategoryInit => CategoryRows /\ Registry!RegistryInit
  BY BoundsAssumption DEF CategoryInit, CategoryRows, StoreRow, NoRow, Tokens, Registry!RegistryInit
<1>2. CategoryRows /\ [CategoryNext]_<<store, feed>> =>
        CategoryRows' /\ [Registry!RegistryNext]_<<[k \in Keys |-> store[k].sk], feed>>
  BY RegistryStep
<1>. QED  BY <1>1, <1>2, PTL DEF CategorySpec, Registry!RegistrySpec

-------------------------------------------------------------------------------
(* Types.                                                                  *)

(* The binary search stays within the tokens.                              *)
SearchBounds ==
  /\ \A k \in Keys : store[k].body # 0 => store[k].sk > 0
  /\ pc \in {"searchStore", "searchIndex"} => best <= low
  /\ pc \notin {"searchStore", "searchIndex"} => low = 0 /\ best = 0
  /\ pc = "searchIndex" => low <= high /\ (Mid = 0 => pg = 0)

Types == TypeOK /\ SearchBounds

(* A row that no page has brought: some page refers to it.                 *)
Unborn(k) == ~store[k].deleted /\ store[k].body = 0

(* It has no document, and gets none.                                      *)
NeverIndexed ==
  \A k \in Keys : Unborn(k) =>
    /\ index[k] = NoDoc
    /\ \A o \in late \cup ops \cup scratch : o.key = k => o.body = 0

LEMMA MidBetween ==
  ASSUME Types, low <= high
  PROVE  Mid \in Nat /\ low <= Mid /\ Mid <= high
<1>1. low \in Nat /\ high \in Nat  BY BoundsAssumption DEF Types, TypeOK, Tokens
<1>. QED  BY <1>1 DEF Mid

(* Nothing has token 0.                                                    *)
LEMMA CountsAtZero ==
  ASSUME Types
  PROVE  StoreCount(0) = 0 /\ IndexCount(0) = 0
<1>1. {k \in Keys : Live(k) /\ store[k].sk <= 0} = {}
  BY BoundsAssumption DEF Live, Types, TypeOK, SearchBounds, Tokens
<1>2. {k \in Keys : index[k].sk \in 1 .. 0} = {}  OBVIOUS
<1>. QED  BY <1>1, <1>2, FS_EmptySet DEF StoreCount, IndexCount

LEMMA CountsTyped ==
  ASSUME NEW b
  PROVE  StoreCount(b) \in Nat /\ IndexCount(b) \in Nat
BY KeysCounted DEF StoreCount, IndexCount

LEMMA HighestTyped ==
  ASSUME Types
  PROVE  LET highest == Max({0} \cup {index[k].sk : k \in Keys})
         IN /\ highest \in Tokens
            /\ \A k \in Keys : index[k].sk <= highest
            /\ highest = 0 \/ \E k \in Keys : highest = index[k].sk
<1> DEFINE S == {0} \cup {index[k].sk : k \in Keys}
<1>1. S \in SUBSET (0 .. MaxToken)
  BY BoundsAssumption DEF Types, TypeOK, Tokens
<1>2. \E m \in S : \A n \in S : n <= m
  <2> HIDE DEF S
  <2>1. S # {}  BY DEF S
  <2>. QED  BY <1>1, <2>1, BoundsAssumption, GreatestExists
<1>3. \E m \in S : \A n \in S : m >= n
  <2> HIDE DEF S
  <2>. QED  BY <1>1, <1>2, BoundsAssumption
<1>4. Max(S) \in S /\ \A n \in S : Max(S) >= n
  <2> HIDE DEF S
  <2>. QED  BY <1>3 DEF Max
<1>5. ASSUME NEW k \in Keys PROVE index[k].sk <= Max(S)
  <2>1. index[k].sk \in S  OBVIOUS
  <2> HIDE DEF S
  <2>. QED  BY <1>1, <1>4, <2>1, BoundsAssumption
<1>6. Max(S) \in Tokens
  <2> HIDE DEF S
  <2>. QED  BY <1>1, <1>4 DEF Tokens
<1>7. Max(S) = 0 \/ \E k \in Keys : Max(S) = index[k].sk
  <2> DEFINE max == Max(S)
  <2>1. max \in S  BY <1>4
  <2> HIDE DEF max
  <2>2. max = 0 \/ \E k \in Keys : max = index[k].sk  BY <2>1
  <2>. QED  BY <2>2 DEF max
<1>. QED  BY <1>5, <1>6, <1>7

(* There is a window when there are rows, and it is not empty.             *)
LEMMA NextBoundaryTyped ==
  ASSUME Types, NEW a \in Tokens, RowsAfter(a) # {}
  PROVE  /\ NextBoundary(a) \in Tokens /\ a < NextBoundary(a)
         /\ \E k \in Keys : NextBoundary(a) = store[k].sk
<1> DEFINE Rows == RowsAfter(a)
           Sks == {store[k].sk : k \in Rows}
           Below(t) == {k \in Rows : store[k].sk < t}
           UpTo(t) == {k \in Rows : store[k].sk <= t}
           Small == {t \in Sks : Cardinality(Below(t)) < BatchSize}
<1>0. MaxToken \in Nat /\ BatchSize \in Nat /\ BatchSize > 0
  BY BoundsAssumption, BatchSizeAssumption
<1>1. Rows \subseteq Keys /\ \A k \in Rows : store[k].sk \in 0 .. MaxToken /\ store[k].sk > a
  BY DEF RowsAfter, Types, TypeOK, Tokens
<1>2. Sks \in SUBSET (0 .. MaxToken) /\ Sks \in SUBSET Nat /\ Sks # {} /\ \A t \in Sks : t > a
  <2>1. \A k \in Rows : store[k].sk \in 0 .. MaxToken /\ store[k].sk \in Nat /\ store[k].sk > a
    BY <1>0, <1>1
  <2>2. \E k \in Rows : TRUE  OBVIOUS
  <2> HIDE DEF Rows
  <2>. QED  BY <2>1, <2>2
<1>3. \A k \in Rows : store[k].sk \in Sks  OBVIOUS
<1>4. \A t : IsFiniteSet(Below(t)) /\ Cardinality(Below(t)) \in Nat /\ Cardinality(UpTo(t)) \in Nat
  <2> SUFFICES ASSUME NEW t
               PROVE  IsFiniteSet(Below(t)) /\ Cardinality(Below(t)) \in Nat /\ Cardinality(UpTo(t)) \in Nat
    OBVIOUS
  <2>1. Below(t) \in SUBSET Keys /\ UpTo(t) \in SUBSET Keys  BY <1>1
  <2> HIDE DEF Below, UpTo
  <2>. QED  BY <2>1, KeysCounted
<1>5. Small # {}
  <2>1. PICK m \in Sks : \A n \in Sks : m <= n
    <3> HIDE DEF Sks
    <3>. QED  BY <1>2, LeastExists
  <2>2. ASSUME NEW k \in Rows PROVE ~(store[k].sk < m)
    <3>1. m \in Nat /\ store[k].sk \in Nat /\ m <= store[k].sk  BY <1>2, <1>3, <2>1
    <3>. QED  BY <3>1
  <2>3. Below(m) = {}  BY <2>2
  <2>4. Cardinality(Below(m)) = 0  BY <2>3, FS_EmptySet
  <2>. QED  BY <2>4, <1>0
<1>6. PICK t \in Small : \A n \in Small : n <= t
  <2>1. Small \in SUBSET (0 .. MaxToken)  BY <1>2
  <2> HIDE DEF Small
  <2>. QED  BY <1>0, <1>5, <2>1, GreatestExists
<1>7. t \in Sks /\ t \in Nat /\ Cardinality(Below(t)) < BatchSize  BY <1>2
<1>8. Cardinality(UpTo(t)) >= BatchSize \/ \A k \in Rows : store[k].sk <= t
  <2> SUFFICES ASSUME ~(Cardinality(UpTo(t)) >= BatchSize), NEW k \in Rows, ~(store[k].sk <= t)
               PROVE  FALSE
    OBVIOUS
  <2> DEFINE Above == {n \in Sks : n > t}
  <2>1. store[k].sk \in Above
    <3>1. store[k].sk \in Sks /\ store[k].sk \in Nat  BY <1>2, <1>3
    <3> HIDE DEF Sks
    <3>. QED  BY <3>1, <1>7
  <2>2. Above \in SUBSET Nat /\ Above \in SUBSET Sks
    <3> HIDE DEF Sks
    <3>. QED  BY <1>2
  <2>3. PICK u \in Above : \A n \in Above : u <= n
    <3> HIDE DEF Above
    <3>. QED  BY <2>1, <2>2, LeastExists
  <2>4. u \in Nat /\ u > t /\ u \in Sks
    <3> HIDE DEF Sks
    <3>. QED  BY <2>2, <2>3
  <2>5. ASSUME NEW j \in Rows PROVE store[j].sk < u <=> store[j].sk <= t
    <3>1. store[j].sk \in Nat /\ store[j].sk \in Sks  BY <1>2, <1>3
    <3>2. store[j].sk > t => u <= store[j].sk
      <4> HIDE DEF Sks
      <4>. QED  BY <2>3, <3>1
    <3>. QED  BY <1>7, <2>4, <3>1, <3>2
  <2>6. Below(u) = UpTo(t)
    <3> HIDE DEF Rows
    <3>. QED  BY <2>5
  <2>7. Cardinality(Below(u)) < BatchSize
    <3> HIDE DEF Below, UpTo
    <3>. QED  BY <1>0, <1>4, <2>6
  <2>8. u \in Small
    <3> HIDE DEF Below, Sks
    <3>. QED  BY <2>4, <2>7
  <2>9. u <= t
    <3> HIDE DEF Small
    <3>. QED  BY <1>6, <2>8
  <2>. QED  BY <1>7, <2>4, <2>9
<1>9. NextBoundary(a) \in Sks
  BY <1>7, <1>8 DEF NextBoundary
<1>10. \E k \in Keys : NextBoundary(a) = store[k].sk
  <2> DEFINE next == NextBoundary(a)
  <2>1. next \in Sks  BY <1>9
  <2> HIDE DEF next
  <2>2. \E k \in Keys : next = store[k].sk  BY <1>1, <2>1
  <2>. QED  BY <2>2 DEF next
<1>. QED
  <2> HIDE DEF Sks
  <2>. QED  BY <1>2, <1>9, <1>10 DEF Tokens

LEMMA TypesInit == Init => Types /\ NeverIndexed
BY BoundsAssumption DEF Init, CategoryInit, Types, TypeOK, SearchBounds, NeverIndexed, NoRow,
                        NoDoc, Tokens

LEMMA AppliedTyped ==
  ASSUME Types, NEW os \in SUBSET Op
  PROVE  Applied(os) \in [Keys -> [sk : Tokens, body : {0} \cup Contents]]
<1> SUFFICES ASSUME NEW k \in Keys
             PROVE  Applied(os)[k] \in [sk : Tokens, body : {0} \cup Contents]
  BY DEF Applied
<1>1. CASE \E o \in os : o.key = k
  <2> DEFINE o == CHOOSE o \in os : o.key = k
  <2>1. o \in os /\ o \in Op  BY <1>1
  <2>2. Applied(os)[k] = IF o.body = 0 THEN NoDoc ELSE [sk |-> o.sk, body |-> o.body]
    BY <1>1 DEF Applied
  <2> HIDE DEF o
  <2>. QED  BY <2>1, <2>2, BoundsAssumption DEF Op, NoDoc, Tokens
<1>2. CASE ~\E o \in os : o.key = k
  <2>1. Applied(os)[k] = index[k]  BY <1>2 DEF Applied
  <2>. QED  BY <2>1 DEF Types, TypeOK
<1>. QED  BY <1>1, <1>2

LEMMA DeletesTyped ==
  ASSUME NEW ks \in SUBSET Keys
  PROVE  Deletes(ks) \subseteq Op /\ \A o \in Deletes(ks) : o.body = 0
BY BoundsAssumption DEF Deletes, Op, Tokens

(* What there is a row for has a token.                                    *)
LEMMA PageRows ==
  ASSUME Types, StorePage
  PROVE  /\ store' \in [Keys -> StoreRow] /\ feed' \in Tokens /\ feed < feed'
         /\ \A k \in Keys :
              /\ store'[k].body # 0 => store'[k].sk > 0
              /\ \/ store'[k].deleted \/ store'[k].body # 0
                 \/ /\ store'[k].deleted = store[k].deleted
                    /\ store'[k].body = 0 <=> store[k].body = 0
<1>1. CategoryRows  BY DEF Types, TypeOK, CategoryRows, StoreRow
<1>2. PICK ks \in SUBSET Keys, t \in feed + 1 .. MaxToken :
        \E d \in SUBSET ks, touched \in SUBSET Keys, reworded \in SUBSET Keys :
          WritePage(ks, d, touched, reworded, t)
  BY DEF StorePage
<1>3. t \in 1 .. MaxToken /\ feed < t /\ feed \in Nat /\ t \in Nat
  BY <1>1, BoundsAssumption DEF CategoryRows, Tokens
<1>4. PICK d \in SUBSET ks, touched \in SUBSET Keys, reworded \in SUBSET Keys :
        WritePage(ks, d, touched, reworded, t)
  BY <1>2
<1>5. /\ CategoryRows' /\ feed' = t
      /\ \A k \in Keys :
           /\ store'[k].sk = IF k \in ks \/ (k \in touched /\ store[k].sk < t)
                             THEN t ELSE store[k].sk
           /\ \/ k \in ks /\ (store'[k].deleted \/ store'[k].body # 0)
              \/ /\ store'[k].deleted = store[k].deleted
                 /\ store'[k].body = 0 <=> store[k].body = 0
  <2>1. t \in 1 .. MaxToken  BY <1>3
  <2>. QED  BY ONLY <1>1, <2>1, <1>4, PageWrites
<1>6. ASSUME NEW k \in Keys, store'[k].body # 0 PROVE store'[k].sk > 0
  BY <1>3, <1>5, <1>6 DEF Types, SearchBounds
<1>. QED  BY <1>3, <1>5, <1>6 DEF CategoryRows

LEMMA RelationRows ==
  ASSUME Types, StoreRelation
  PROVE  /\ store' \in [Keys -> StoreRow] /\ UNCHANGED feed
         /\ \A k \in Keys :
              /\ store'[k].body # 0 => store'[k].sk > 0
              /\ store'[k].deleted = store[k].deleted
              /\ store'[k].body = 0 <=> store[k].body = 0
<1>1. CategoryRows  BY DEF Types, TypeOK, CategoryRows, StoreRow
<1>2. PICK ks \in SUBSET Keys, reworded \in SUBSET Keys, t \in 1 .. MaxToken :
        WriteElsewhere(ks, reworded, t)
  BY DEF StoreRelation
<1>3. /\ CategoryRows' /\ UNCHANGED feed
      /\ \A k \in Keys :
           /\ store'[k].sk = IF k \in ks /\ store[k].sk < t THEN t ELSE store[k].sk
           /\ store'[k].deleted = store[k].deleted
           /\ store'[k].body = 0 <=> store[k].body = 0
  BY ONLY <1>1, <1>2, RelationWrites
<1>4. ASSUME NEW k \in Keys, store'[k].body # 0 PROVE store'[k].sk > 0
  BY <1>2, <1>3, <1>4, BoundsAssumption DEF Types, SearchBounds
<1>. QED  BY <1>3, <1>4 DEF CategoryRows

(* What document_assets stores is other words, too.                        *)
LEMMA ContentRows ==
  ASSUME Types, StoreContent
  PROVE  /\ store' \in [Keys -> StoreRow] /\ UNCHANGED feed
         /\ \A k \in Keys :
              /\ store'[k].body # 0 => store'[k].sk > 0
              /\ store'[k].deleted = store[k].deleted
              /\ store'[k].body = 0 <=> store[k].body = 0
<1>1. store \in [Keys -> StoreRow]  BY DEF Types, TypeOK, StoreRow
<1>2. PICK i \in Keys : store' = [store EXCEPT ![i] = Reworded(@)]
  BY DEF StoreContent
<1>3. ASSUME NEW k \in Keys
      PROVE  /\ store'[k] \in StoreRow
             /\ store'[k].sk = store[k].sk /\ store'[k].deleted = store[k].deleted
             /\ store'[k].body = 0 <=> store[k].body = 0
  <2>1. store'[k] = IF k = i THEN Reworded(store[i]) ELSE store[k]  BY <1>1, <1>2
  <2>2. store[k] \in StoreRow  BY <1>1
  <2>. QED  BY <2>1, <2>2, RewordedRow
<1>4. store' \in [Keys -> StoreRow]
  <2>1. store' = [k \in Keys |-> store'[k]]  BY <1>1, <1>2
  <2>. QED  BY <1>3, <2>1
<1>5. ASSUME NEW k \in Keys, store'[k].body # 0 PROVE store'[k].sk > 0
  BY <1>3, <1>5 DEF Types, SearchBounds
<1>. QED  BY <1>3, <1>4, <1>5 DEF StoreContent

LEMMA TypesStore ==
  ASSUME Types, Store
  PROVE  Types'
<1> USE DEF Types, TypeOK, envVars, localVars
<1>1. /\ store' \in [Keys -> [sk : Tokens, deleted : BOOLEAN, body : {0} \cup Contents]]
      /\ feed' \in Tokens /\ events' \in 0 .. MaxEvents
      /\ \A k \in Keys : store'[k].body # 0 => store'[k].sk > 0
      /\ quiet' \in BOOLEAN /\ orderly' \in BOOLEAN
      /\ UNCHANGED <<index, late, scratch, pc, localVars>>
  <2>1. store' \in [Keys -> StoreRow] /\ feed' \in Tokens
        /\ \A k \in Keys : store'[k].body # 0 => store'[k].sk > 0
    BY PageRows, RelationRows, ContentRows DEF Store
  <2>2. events' \in 0 .. MaxEvents
    BY BoundsAssumption DEF Store, StorePage, StoreRelation, StoreContent, Event
  <2>3. quiet' \in BOOLEAN /\ orderly' \in BOOLEAN
        /\ UNCHANGED <<index, late, scratch, pc, localVars>>
    BY DEF Store, StorePage, StoreRelation, StoreContent
  <2>. QED  BY <2>1, <2>2, <2>3 DEF StoreRow
<1>2. TypeOK'  BY <1>1
<1>3. SearchBounds'  BY <1>1 DEF SearchBounds, Mid
<1>. QED  BY <1>2, <1>3

LEMMA TypesReset ==
  ASSUME Types, Reset, UNCHANGED <<store, feed, index, scratch, quiet>>,
         late' \subseteq Op, events' \in 0 .. MaxEvents, orderly' \in BOOLEAN
  PROVE  Types'
<1>1. TypeOK'  BY BoundsAssumption DEF Types, TypeOK, Reset, Tokens
<1>2. SearchBounds'  BY DEF Types, SearchBounds, Reset
<1>. QED  BY <1>1, <1>2 DEF Types

LEMMA TypesCall ==
  ASSUME Types, Call
  PROVE  Types'
<1> USE BoundsAssumption DEF Types, TypeOK, envVars, localVars
<1>1. CASE HighestSkiptoken
  <2>1. high' \in Tokens  BY <1>1, HighestTyped DEF HighestSkiptoken
  <2>. QED  BY <1>1, <2>1 DEF HighestSkiptoken, SearchBounds
<1>2. CASE CountStorePrefix
  <2>1. pg' \in Nat  BY <1>2, CountsTyped DEF CountStorePrefix
  <2>. QED  BY <1>2, <2>1 DEF CountStorePrefix, SearchBounds
<1>3. CASE CountIndexPrefix
  BY <1>3 DEF CountIndexPrefix, SearchBounds, Tokens
<1>4. CASE SearchStore
  <2>1. pg' = StoreCount(Mid) /\ pg' \in Nat /\ (Mid = 0 => pg' = 0)
    BY <1>4, CountsTyped, CountsAtZero DEF SearchStore
  <2>2. UNCHANGED <<low, high, best, store>> /\ pc' = "searchIndex" /\ low <= high /\ best <= low
    BY <1>4 DEF SearchStore, SearchBounds
  <2>3. SearchBounds'  BY <2>1, <2>2 DEF SearchBounds, Mid
  <2>4. best <= high  BY <2>2 DEF Tokens
  <2>5. TypeOK'  BY <1>4, <2>1, <2>4 DEF SearchStore
  <2>. QED  BY <2>3, <2>5
<1>5. CASE SearchIndex
  <2>1. low \in Nat /\ high \in Tokens /\ low <= high /\ best <= low  BY <1>5 DEF SearchIndex, SearchBounds
  <2>2. Mid \in Nat /\ low <= Mid /\ Mid <= high
    <3>1. Types  OBVIOUS
    <3>. QED  BY <2>1, <3>1, MidBetween
  <2>3. CASE pg = IndexCount(Mid) /\ best' = Mid /\ low' = Mid + 1 /\ UNCHANGED high
    <3>1. best' \in Tokens /\ low' \in 0 .. MaxToken + 1 /\ best' <= low'  BY <2>1, <2>2, <2>3 DEF Tokens
    <3>. QED  BY <1>5, <2>3, <3>1 DEF SearchIndex, SearchBounds
  <2>4. CASE pg # IndexCount(Mid) /\ high' = Mid - 1 /\ UNCHANGED <<best, low>>
    <3>1. Mid # 0  BY <1>5, <2>4, CountsAtZero DEF SearchIndex, SearchBounds
    <3>2. high' \in Tokens
      <4>1. PICK m \in Nat : m # 0 /\ m <= high /\ high' = m - 1  BY <2>2, <2>4, <3>1
      <4>. QED  BY <2>1, <4>1 DEF Tokens
    <3>. QED  BY <1>5, <2>1, <2>4, <3>2 DEF SearchIndex, SearchBounds
  <2>. QED  BY <1>5, <2>3, <2>4 DEF SearchIndex
<1>6. CASE SearchEnds
  BY <1>6 DEF SearchEnds, SearchBounds, Tokens
<1>7. CASE ExpectedIds
  BY <1>7 DEF ExpectedIds, SearchBounds, RowsAfter
<1>8. CASE IndexedIds
  BY <1>8 DEF IndexedIds, SearchBounds
<1>9. CASE DeleteExtra
  <2>1. index' \in [Keys -> [sk : Tokens, body : {0} \cup Contents]]
    BY <1>9, AppliedTyped, DeletesTyped DEF DeleteExtra
  <2>. QED  BY <1>9, <2>1 DEF DeleteExtra, SearchBounds
<1>10. CASE NextWindow
  <2>1. target' \in Tokens  BY <1>10, NextBoundaryTyped DEF NextWindow
  <2>. QED  BY <1>10, <2>1 DEF NextWindow, SearchBounds
<1>11. CASE ReplaceScratch
  BY <1>11 DEF ReplaceScratch, SearchBounds
<1>12. CASE Project
  <2>1. Windowed({k \in RowsAfter(current) : store[k].sk <= target})
          \subseteq [key : Keys, sk : Tokens, deleted : BOOLEAN]
    BY DEF Windowed, RowsAfter
  <2>. QED  BY <1>12, <2>1 DEF Project, SearchBounds
<1>13. CASE Details
  <2> DEFINE found == {r \in rows : r.deleted \/ store[r.key].body # 0}
             new == {[key |-> r.key, sk |-> r.sk,
                      body |-> IF r.deleted THEN 0 ELSE store[r.key].body] : r \in found}
  <2>1. new \subseteq Op
    <3>1. ASSUME NEW r \in rows
          PROVE  [key |-> r.key, sk |-> r.sk, body |-> IF r.deleted THEN 0 ELSE store[r.key].body] \in Op
      BY DEF Op
    <3>. QED  BY ZenonT(60), <3>1
  <2>2. scratch' = scratch \cup new /\ ops' = scratch'  BY <1>13 DEF Details
  <2>3. scratch' \subseteq Op /\ ops' \subseteq Op  BY <2>1, <2>2
  <2>. QED  BY <1>13, <2>3 DEF Details, SearchBounds
<1>14. CASE ApplyOp
  <2>1. PICK o \in ops : index' = Applied({o}) /\ ops' = ops \ {o}  BY <1>14 DEF ApplyOp
  <2>2. index' \in [Keys -> [sk : Tokens, body : {0} \cup Contents]]
    BY <2>1, AppliedTyped
  <2>. QED  BY <1>14, <2>1, <2>2 DEF ApplyOp, SearchBounds
<1>15. CASE WindowEnds
  BY <1>15 DEF WindowEnds, SearchBounds, Tokens
<1>16. CASE CountStoreTotal
  <2>1. pg' \in Nat  BY <1>16, CountsTyped DEF CountStoreTotal
  <2>. QED  BY <1>16, <2>1 DEF CountStoreTotal, SearchBounds, Tokens
<1>17. CASE CountIndexTotal
  BY <1>17 DEF CountIndexTotal, SearchBounds, Tokens
<1>18. CASE Report
  BY <1>18, TypesReset DEF Report
<1>. QED
  BY <1>1, <1>2, <1>3, <1>4, <1>5, <1>6, <1>7, <1>8, <1>9, <1>10, <1>11, <1>12, <1>13, <1>14,
     <1>15, <1>16, <1>17, <1>18 DEF Call

LEMMA TypesFail ==
  ASSUME Types, Fail
  PROVE  Types'
<1>1. late' \subseteq Op
  BY DeletesTyped DEF Fail, Types, TypeOK
<1>2. events' \in 0 .. MaxEvents  BY BoundsAssumption DEF Fail, Event, Types, TypeOK
<1>3. orderly' \in BOOLEAN  BY DEF Fail, Types, TypeOK
<1>. QED  BY <1>1, <1>2, <1>3, TypesReset DEF Fail

LEMMA TypesStep == Types /\ [Next]_vars => Types'
<1> SUFFICES ASSUME Types, [Next]_vars PROVE Types'  OBVIOUS
<1>1. CASE LateTask
  <2>1. index' \in [Keys -> [sk : Tokens, body : {0} \cup Contents]]
    BY <1>1, AppliedTyped DEF LateTask, Types, TypeOK
  <2>2. TypeOK'  BY <1>1, <2>1 DEF LateTask, Types, TypeOK, envVars, localVars
  <2>3. SearchBounds'  BY <1>1 DEF LateTask, Types, SearchBounds, envVars, localVars, Mid
  <2>. QED  BY <2>2, <2>3 DEF Types
<1>2. CASE Begin
  BY <1>2 DEF Begin, Types, TypeOK, SearchBounds, envVars, localVars
<1>3. CASE UNCHANGED vars
  BY <1>3 DEF vars, Types, TypeOK, SearchBounds, Mid
<1>. QED  BY <1>1, <1>2, <1>3, TypesStore, TypesCall, TypesFail DEF Next

(* Every variable has its type; the search never leaves the tokens.        *)
THEOREM TypeCorrect == Spec => []TypeOK
<1>1. Types => TypeOK  BY DEF Types
<1>2. Init => Types  BY TypesInit
<1>. QED  BY <1>1, <1>2, TypesStep, PTL DEF Spec

-------------------------------------------------------------------------------
(* What a pass has made of the index so far.                               *)

(* A document above the verified prefix has a row above it.                *)
Clean(b) == \A k \in Keys : index[k].sk > b => store[k].sk > b

InWindow(k) == store[k].sk > current /\ store[k].sk <= target

(* The operation the mapper makes of a row that is its own last word.      *)
OpOf(k) == [key |-> k, sk |-> store[k].sk,
            body |-> IF store[k].deleted THEN 0 ELSE store[k].body]

(* The operations left are those of the window, and what has none left of  *)
(* the window is exact.                                                    *)
Pending ==
  /\ \A o \in ops : \E k \in Keys : InWindow(k) /\ ~Unborn(k) /\ o = OpOf(k)
  /\ \A k \in Keys : InWindow(k) => Current(k) \/ OpOf(k) \in ops

Windows == {"window", "clear", "project", "details", "apply"}

Progress ==
  /\ pc \in {"countStore", "countIndex"} => \A k \in Keys : index[k].sk <= high
  /\ pc \in {"expected", "extra", "delete"} => current = boundary
  /\ pc = "extra" => ids = {k \in RowsAfter(boundary) : Live(k)}
  /\ pc = "delete" => \A k \in Keys : index[k].sk > boundary => k \in ids \/ store[k].sk > boundary
  /\ pc \in Windows =>
       /\ boundary <= current
       /\ Clean(boundary)
       /\ \A k \in Keys : store[k].sk > boundary /\ store[k].sk <= current => Current(k)
  /\ pc \in Windows \ {"window"} => current < target
  /\ pc = "details" => rows = Windowed({k \in RowsAfter(current) : store[k].sk <= target})
  /\ pc = "apply" => Pending
  /\ pc \in {"total", "completed"} =>
       \A k \in Keys : store[k].sk > boundary \/ index[k].sk > boundary => Current(k)

SuffixInv ==
  /\ Types
  /\ NeverIndexed
  /\ pc \in {"project", "details"} => scratch = {}
  /\ quiet => Progress


LEMMA AppliedAt ==
  ASSUME NEW os, NEW k \in Keys
  PROVE  \/ (~\E o \in os : o.key = k) /\ Applied(os)[k] = index[k]
         \/ \E o \in os : /\ o.key = k
                          /\ Applied(os)[k] = IF o.body = 0 THEN NoDoc ELSE [sk |-> o.sk, body |-> o.body]
<1>1. CASE \E o \in os : o.key = k
  <2> DEFINE o == CHOOSE o \in os : o.key = k
  <2>1. o \in os /\ o.key = k  BY <1>1
  <2>2. Applied(os)[k] = IF o.body = 0 THEN NoDoc ELSE [sk |-> o.sk, body |-> o.body]
    BY <1>1 DEF Applied
  <2> HIDE DEF o
  <2>. QED  BY <2>1, <2>2
<1>2. CASE ~\E o \in os : o.key = k
  BY <1>2 DEF Applied
<1>. QED  BY <1>1, <1>2

LEMMA AppliedOne ==
  ASSUME NEW o, NEW k \in Keys
  PROVE  Applied({o})[k] = IF o.key = k
                             THEN IF o.body = 0 THEN NoDoc ELSE [sk |-> o.sk, body |-> o.body]
                             ELSE index[k]
<1> DEFINE os == {o}
<1>1. \A p : p \in os <=> p = o  OBVIOUS
<1> HIDE DEF os
<1>2. CASE (~\E p \in os : p.key = k) /\ Applied(os)[k] = index[k]
  <2>1. o.key # k  BY <1>1, <1>2
  <2>. QED  BY <1>2, <2>1 DEF os
<1>3. CASE \E p \in os : /\ p.key = k
                         /\ Applied(os)[k] = IF p.body = 0 THEN NoDoc ELSE [sk |-> p.sk, body |-> p.body]
  <2>1. /\ o.key = k
        /\ Applied(os)[k] = IF o.body = 0 THEN NoDoc ELSE [sk |-> o.sk, body |-> o.body]
    BY <1>1, <1>3
  <2>. QED  BY <2>1 DEF os
<1>. QED
  <2>1. \/ (~\E p \in os : p.key = k) /\ Applied(os)[k] = index[k]
        \/ \E p \in os : /\ p.key = k
                          /\ Applied(os)[k] = IF p.body = 0 THEN NoDoc ELSE [sk |-> p.sk, body |-> p.body]
    BY AppliedAt
  <2>. QED  BY <1>2, <1>3, <2>1

(* The writers of the store touch nothing else, and a row once brought     *)
(* stays brought.                                                          *)
LEMMA StoreStep ==
  ASSUME Types, Store
  PROVE  /\ UNCHANGED <<index, late, scratch, pc, localVars>>
         /\ quiet' = FALSE
         /\ \A k \in Keys : Unborn(k)' => Unborn(k)
<1>1. UNCHANGED <<index, late, scratch, pc, localVars>> /\ quiet' = FALSE
  BY DEF Store, StorePage, StoreRelation, StoreContent
<1>2. ASSUME NEW k \in Keys, Unborn(k)' PROVE Unborn(k)
  <2>1. \/ store'[k].deleted \/ store'[k].body # 0
        \/ store'[k].deleted = store[k].deleted /\ (store'[k].body = 0 <=> store[k].body = 0)
    BY PageRows, RelationRows, ContentRows DEF Store
  <2>. QED  BY <1>2, <2>1 DEF Unborn
<1>. QED  BY <1>1, <1>2

(* What a set of operations without a document for it makes of such a row. *)
LEMMA AppliedNever ==
  ASSUME NEW os, NEW k \in Keys, index[k] = NoDoc, \A o \in os : o.key = k => o.body = 0
  PROVE  Applied(os)[k] = NoDoc
<1>1. CASE Applied(os)[k] = index[k]  BY <1>1
<1>2. CASE \E o \in os : /\ o.key = k
                         /\ Applied(os)[k] = IF o.body = 0 THEN NoDoc ELSE [sk |-> o.sk, body |-> o.body]
  BY <1>2
<1>. QED  BY <1>1, <1>2, AppliedAt

LEMMA NeverIndexedCall ==
  ASSUME Types, NeverIndexed, Call
  PROVE  NeverIndexed'
<1> SUFFICES ASSUME NEW k \in Keys, Unborn(k)'
             PROVE  index'[k] = NoDoc /\ \A o \in late' \cup ops' \cup scratch' : o.key = k => o.body = 0
  BY DEF NeverIndexed
<1>0. UNCHANGED <<store, late>>
  BY DEF Call, HighestSkiptoken, CountStorePrefix, CountIndexPrefix, SearchStore, SearchIndex,
         SearchEnds, ExpectedIds, IndexedIds, DeleteExtra, NextWindow, ReplaceScratch, Project,
         Details, ApplyOp, WindowEnds, CountStoreTotal, CountIndexTotal, Report, Reset, envVars,
         localVars
<1>1. Unborn(k)  BY <1>0 DEF Unborn
<1>2. index[k] = NoDoc /\ \A o \in late \cup ops \cup scratch : o.key = k => o.body = 0
  BY <1>1 DEF NeverIndexed
<1>3. CASE DeleteExtra
  <2>1. \A o \in Deletes(ids) : o.body = 0  BY DEF Deletes
  <2>2. index'[k] = NoDoc  BY <1>2, <1>3, <2>1, AppliedNever DEF DeleteExtra
  <2>3. UNCHANGED <<ops, scratch>>  BY <1>3 DEF DeleteExtra
  <2>. QED  BY <1>0, <1>2, <2>2, <2>3
<1>4. CASE Details
  <2> DEFINE new == {[key |-> r.key, sk |-> r.sk,
                      body |-> IF r.deleted THEN 0 ELSE store[r.key].body] :
                        r \in {r \in rows : r.deleted \/ store[r.key].body # 0}}
  <2>1. scratch' = scratch \cup new /\ ops' = scratch' /\ UNCHANGED index  BY <1>4 DEF Details
  <2>2. ASSUME NEW o \in new, o.key = k PROVE o.body = 0
    BY <1>1, <2>2 DEF Unborn
  <2> HIDE DEF new
  <2>. QED  BY <1>0, <1>2, <2>1, <2>2
<1>5. CASE ApplyOp
  <2>1. PICK o \in ops : index' = Applied({o}) /\ ops' = ops \ {o}  BY <1>5 DEF ApplyOp
  <2>2. index'[k] = NoDoc  BY <1>2, <2>1, AppliedNever
  <2>3. UNCHANGED scratch  BY <1>5 DEF ApplyOp
  <2>. QED  BY <1>0, <1>2, <2>1, <2>2, <2>3
<1>6. CASE ~DeleteExtra /\ ~Details /\ ~ApplyOp
  <2>1. index' = index /\ ops' \subseteq ops /\ scratch' \subseteq scratch
    BY <1>6
    DEF Call, HighestSkiptoken, CountStorePrefix, CountIndexPrefix, SearchStore, SearchIndex,
        SearchEnds, ExpectedIds, IndexedIds, NextWindow, ReplaceScratch, Project, WindowEnds,
        CountStoreTotal, CountIndexTotal, Report, Reset, localVars
  <2>. QED  BY <1>0, <1>2, <2>1
<1>. QED  BY <1>3, <1>4, <1>5, <1>6

LEMMA NeverIndexedStep == Types /\ NeverIndexed /\ [Next]_vars => NeverIndexed'
<1> SUFFICES ASSUME Types, NeverIndexed, [Next]_vars PROVE NeverIndexed'  OBVIOUS
<1>1. CASE Store
  BY <1>1, StoreStep DEF NeverIndexed, localVars
<1>2. CASE LateTask
  <2>1. index' = Applied(late) /\ late' = {} /\ UNCHANGED <<store, ops, scratch>>
    BY <1>2 DEF LateTask, envVars, localVars
  <2>2. ASSUME NEW k \in Keys, Unborn(k)
        PROVE  index'[k] = NoDoc /\ \A o \in late' \cup ops' \cup scratch' : o.key = k => o.body = 0
    <3>1. index[k] = NoDoc /\ \A o \in late \cup ops \cup scratch : o.key = k => o.body = 0
      BY <2>2 DEF NeverIndexed
    <3>. QED  BY <2>1, <3>1, AppliedNever
  <2>. QED  BY <2>1, <2>2 DEF NeverIndexed, Unborn
<1>3. CASE Fail
  <2>1. \A o \in late' : o \in late \cup ops \/ o.body = 0
    <3>1. CASE late' = late  BY <3>1
    <3>2. CASE late' = Deletes(ids)  BY <3>2 DEF Deletes
    <3>3. CASE \E o \in ops : late' = {o}  BY <3>3
    <3>. QED  BY <1>3, <3>1, <3>2, <3>3 DEF Fail
  <2>2. UNCHANGED <<store, index, scratch>> /\ ops' = {}  BY <1>3 DEF Fail, Reset
  <2>3. ASSUME NEW k \in Keys, Unborn(k)'
        PROVE  index'[k] = NoDoc /\ \A o \in late' \cup ops' \cup scratch' : o.key = k => o.body = 0
    <3>1. Unborn(k)  BY <2>2, <2>3 DEF Unborn
    <3>2. index[k] = NoDoc /\ \A o \in late \cup ops \cup scratch : o.key = k => o.body = 0
      BY <3>1 DEF NeverIndexed
    <3>. QED  BY <2>1, <2>2, <3>2
  <2>. QED  BY <2>3 DEF NeverIndexed
<1>4. CASE Begin \/ UNCHANGED vars
  BY <1>4 DEF Begin, vars, envVars, localVars, NeverIndexed, Unborn
<1>. QED  BY <1>1, <1>2, <1>3, <1>4, NeverIndexedCall DEF Next

-------------------------------------------------------------------------------
(* One call of a pass over a store that is at rest.                        *)

LEMMA NumbersTyped ==
  ASSUME Types
  PROVE  /\ \A k \in Keys : store[k].sk \in Nat /\ index[k].sk \in Nat /\ store[k].deleted \in BOOLEAN
         /\ {high, boundary, current, target} \subseteq Nat
BY BoundsAssumption DEF Types, TypeOK, Tokens

(* What no call changes.                                                   *)
LEMMA CallKeeps ==
  ASSUME Call
  PROVE  UNCHANGED store /\ (quiet' = quiet \/ HighestSkiptoken)
BY DEF Call, CountStorePrefix, CountIndexPrefix, SearchStore, SearchIndex, HighestSkiptoken,
       SearchEnds, ExpectedIds, IndexedIds, DeleteExtra, NextWindow, ReplaceScratch, Project,
       Details, ApplyOp, WindowEnds, CountStoreTotal, CountIndexTotal, Report, envVars

(* Until the first window.                                                 *)
LEMMA ProgressPrefix ==
  ASSUME Types, Progress, UNCHANGED store,
         \/ CountStorePrefix \/ CountIndexPrefix \/ SearchStore \/ SearchIndex \/ SearchEnds
         \/ ExpectedIds \/ IndexedIds \/ DeleteExtra
  PROVE  Progress'
<1> USE NumbersTyped DEF Windows
<1>1. CASE CountStorePrefix
  BY <1>1 DEF CountStorePrefix, Progress
<1>2. CASE CountIndexPrefix
  BY <1>2 DEF CountIndexPrefix, Progress, Clean
<1>3. CASE SearchStore \/ SearchIndex
  BY <1>3 DEF SearchStore, SearchIndex, Progress
<1>4. CASE SearchEnds
  BY <1>4 DEF SearchEnds, Progress
<1>5. CASE ExpectedIds
  BY <1>5 DEF ExpectedIds, Progress, RowsAfter, Live
<1>6. CASE IndexedIds
  <2>1. ids = {k \in RowsAfter(boundary) : Live(k)} /\ current = boundary
    BY <1>6 DEF IndexedIds, Progress
  <2>2. \A k \in Keys : index[k].sk > boundary => k \in ids' \/ store[k].sk > boundary
    BY <1>6, <2>1 DEF IndexedIds, RowsAfter
  <2>3. UNCHANGED <<index, boundary, current>> /\ pc' = IF ids' = {} THEN "window" ELSE "delete"
    BY <1>6 DEF IndexedIds
  <2>. QED  BY <2>1, <2>2, <2>3 DEF Progress, Clean
<1>7. CASE DeleteExtra
  <2>1. index' = Applied(Deletes(ids)) /\ UNCHANGED <<boundary, current>> /\ pc' = "window"
    BY <1>7 DEF DeleteExtra
  <2>2. /\ \A k \in Keys : index[k].sk > boundary => k \in ids \/ store[k].sk > boundary
        /\ current = boundary
    BY <1>7 DEF DeleteExtra, Progress
  <2>3. ASSUME NEW k \in Keys, index'[k].sk > boundary
        PROVE  store[k].sk > boundary
    <3>1. k \notin ids /\ index'[k] = index[k]
      <4>1. \/ (~\E o \in Deletes(ids) : o.key = k) /\ index'[k] = index[k]
            \/ index'[k] = NoDoc
        <5>1. \/ (~\E o \in Deletes(ids) : o.key = k) /\ Applied(Deletes(ids))[k] = index[k]
              \/ \E o \in Deletes(ids) :
                   /\ o.key = k
                   /\ Applied(Deletes(ids))[k] = IF o.body = 0 THEN NoDoc ELSE [sk |-> o.sk, body |-> o.body]
          BY AppliedAt
        <5>2. \A o \in Deletes(ids) : o.body = 0  BY DEF Deletes
        <5>. QED  BY <2>1, <5>1, <5>2, Zenon
      <4>2. index'[k] # NoDoc  BY <2>3 DEF NoDoc
      <4>3. k \in ids => \E o \in Deletes(ids) : o.key = k
        <5>1. k \in ids => [key |-> k, sk |-> 0, body |-> 0] \in Deletes(ids)  BY DEF Deletes
        <5>. QED  BY <5>1
      <4>. QED  BY <4>1, <4>2, <4>3
    <3>. QED  BY <2>2, <2>3, <3>1
  <2>. QED  BY <2>1, <2>2, <2>3 DEF Progress, Clean
<1>. QED  BY <1>1, <1>2, <1>3, <1>4, <1>5, <1>6, <1>7

(* The windows, up to the rows and the operations of one.                  *)
LEMMA ProgressWindow ==
  ASSUME Types, NeverIndexed, pc \in {"project", "details"} => scratch = {},
         Progress, UNCHANGED store,
         NextWindow \/ ReplaceScratch \/ Project \/ Details
  PROVE  Progress'
<1> USE NumbersTyped DEF Windows
<1>0. /\ UNCHANGED <<index, boundary, current>>
      /\ pc \in Windows
  BY DEF NextWindow, ReplaceScratch, Project, Details, localVars
<1>1. /\ boundary' <= current'
      /\ Clean(boundary)'
      /\ \A k \in Keys : store'[k].sk > boundary' /\ store'[k].sk <= current' => Current(k)'
  BY <1>0 DEF Progress, Clean, Current, Live
<1>2. CASE NextWindow
  <2>1. current < target' /\ pc' = "clear"
    <3>1. current \in Tokens  BY DEF Types, TypeOK
    <3>. QED  BY <1>2, <3>1, NextBoundaryTyped DEF NextWindow
  <2>. QED  BY <1>0, <1>1, <2>1 DEF Progress
<1>3. CASE ReplaceScratch
  <2>1. current < target /\ UNCHANGED target /\ pc' = "project"
    BY <1>3 DEF ReplaceScratch, Progress, localVars
  <2>. QED  BY <1>0, <1>1, <2>1 DEF Progress
<1>4. CASE Project
  <2>1. /\ current < target /\ UNCHANGED target /\ pc' = "details"
        /\ rows' = Windowed({k \in RowsAfter(current) : store[k].sk <= target})
    BY <1>4 DEF Project, Progress
  <2>2. rows' = Windowed({k \in RowsAfter(current) : store[k].sk <= target})'
    BY <1>0, <2>1 DEF Windowed, RowsAfter
  <2>. QED  BY <1>0, <1>1, <2>1, <2>2 DEF Progress
<1>5. CASE Details
  <2> DEFINE W == {k \in RowsAfter(current) : store[k].sk <= target}
             found == {r \in rows : r.deleted \/ store[r.key].body # 0}
             new == {[key |-> r.key, sk |-> r.sk,
                      body |-> IF r.deleted THEN 0 ELSE store[r.key].body] : r \in found}
             RowOf(k) == [key |-> k, sk |-> store[k].sk, deleted |-> store[k].deleted]
  <2>1. /\ current < target /\ UNCHANGED target /\ pc' = "apply"
        /\ rows = Windowed(W) /\ scratch = {}
    BY <1>5 DEF Details, Progress
  <2>2. ops' = new  BY <1>5, <2>1 DEF Details
  <2>3. \A k \in Keys : InWindow(k) <=> k \in W  BY DEF InWindow, RowsAfter
  <2>4. rows = {RowOf(k) : k \in W}  BY <2>1 DEF Windowed
  <2>5. ASSUME NEW o \in new
        PROVE  \E k \in Keys : InWindow(k) /\ ~Unborn(k) /\ o = OpOf(k)
    <3>1. PICK r \in found : o = [key |-> r.key, sk |-> r.sk,
                                  body |-> IF r.deleted THEN 0 ELSE store[r.key].body]
      OBVIOUS
    <3>2. PICK k \in W : r = RowOf(k)  BY <2>4
    <3>3. k \in Keys /\ InWindow(k)  BY <2>3 DEF RowsAfter
    <3>4. ~Unborn(k)  BY <3>2 DEF Unborn
    <3>5. o = OpOf(k)  BY <3>1, <3>2 DEF OpOf
    <3>. QED  BY <3>3, <3>4, <3>5
  <2>6. ASSUME NEW k \in Keys, InWindow(k)
        PROVE  Current(k) \/ OpOf(k) \in new
    <3>1. CASE Unborn(k)
      BY <3>1 DEF NeverIndexed, Unborn, Current, Live
    <3>2. CASE ~Unborn(k)
      <4>1. RowOf(k) \in rows  BY <2>3, <2>4, <2>6
      <4>2. RowOf(k) \in found  BY <3>2, <4>1 DEF Unborn
      <4>3. OpOf(k) = [key |-> RowOf(k).key, sk |-> RowOf(k).sk,
                       body |-> IF RowOf(k).deleted THEN 0 ELSE store[RowOf(k).key].body]
        BY DEF OpOf
      <4> HIDE DEF found, RowOf
      <4>. QED  BY <4>2, <4>3
    <3>. QED  BY <3>1, <3>2
  <2> HIDE DEF new
  <2>7. Pending'
    BY <1>0, <2>1, <2>2, <2>5, <2>6 DEF Pending, InWindow, Unborn, OpOf, Current, Live
  <2>. QED  BY <1>0, <1>1, <2>1, <2>7 DEF Progress
<1>. QED  BY <1>2, <1>3, <1>4, <1>5

(* One operation makes its key exact and touches no other.                 *)
LEMMA ProgressApply ==
  ASSUME Types, Progress, UNCHANGED store, ApplyOp
  PROVE  Progress'
<1> USE NumbersTyped DEF Windows
<1>1. PICK o \in ops : index' = Applied({o}) /\ ops' = ops \ {o}  BY DEF ApplyOp
<1>2. /\ UNCHANGED <<boundary, current, target, pc>> /\ pc = "apply"
      /\ boundary <= current /\ current < target /\ Pending /\ Clean(boundary)
      /\ \A k \in Keys : store[k].sk > boundary /\ store[k].sk <= current => Current(k)
  BY DEF ApplyOp, Progress
<1>3. PICK i \in Keys : InWindow(i) /\ ~Unborn(i) /\ o = OpOf(i)  BY <1>1, <1>2 DEF Pending
<1>4. o.key = i  BY <1>3 DEF OpOf
<1>5. ASSUME NEW j \in Keys \ {i} PROVE index'[j] = index[j]
  <2>1. Applied({o})[j] = index[j]  BY <1>4, AppliedOne
  <2>. QED  BY <1>1, <2>1
<1>6. Current(i)'
  <2>1. index'[i] = IF o.body = 0 THEN NoDoc ELSE [sk |-> o.sk, body |-> o.body]
    BY <1>1, <1>4, AppliedOne
  <2>2. o.sk = store[i].sk /\ o.body = IF store[i].deleted THEN 0 ELSE store[i].body
    BY <1>3 DEF OpOf
  <2>. QED  BY <1>3, <2>1, <2>2 DEF Current, Live, Unborn
<1>7. \A j \in Keys \ {i} : Current(j)' <=> Current(j)  BY <1>5 DEF Current, Live
<1>8. store[i].sk > current  BY <1>3 DEF InWindow
<1>9. Clean(boundary)'  BY <1>2, <1>5, <1>8 DEF Clean
<1>10. \A k \in Keys : store'[k].sk > boundary' /\ store'[k].sk <= current' => Current(k)'
  BY <1>2, <1>7, <1>8
<1>11. Pending'
  <2>1. ASSUME NEW p \in ops'
        PROVE  \E k \in Keys : InWindow(k)' /\ ~Unborn(k)' /\ p = OpOf(k)'
    BY <1>1, <1>2 DEF Pending, InWindow, Unborn, OpOf
  <2>2. ASSUME NEW j \in Keys, InWindow(j)'
        PROVE  Current(j)' \/ OpOf(j)' \in ops'
    <3>1. CASE j = i  BY <3>1, <1>6
    <3>2. CASE j # i
      <4>1. Current(j) \/ OpOf(j) \in ops  BY <1>2, <2>2 DEF Pending, InWindow
      <4>2. OpOf(j).key = j /\ OpOf(j)' = OpOf(j)  BY DEF OpOf
      <4>. QED  BY <1>1, <1>4, <1>7, <3>2, <4>1, <4>2
    <3>. QED  BY <3>1, <3>2
  <2>. QED  BY <2>1, <2>2 DEF Pending
<1>. QED  BY <1>2, <1>9, <1>10, <1>11 DEF Progress

(* The end of a window, and of the last one.                               *)
LEMMA ProgressEnd ==
  ASSUME Types, Progress, UNCHANGED store, WindowEnds \/ CountStoreTotal \/ CountIndexTotal \/ Report
  PROVE  Progress'
<1> USE NumbersTyped DEF Windows
<1>1. CASE WindowEnds
  <2>1. /\ boundary <= current /\ current < target /\ Pending /\ Clean(boundary) /\ ops = {}
        /\ \A k \in Keys : store[k].sk > boundary /\ store[k].sk <= current => Current(k)
    BY <1>1 DEF WindowEnds, Progress
  <2>2. ASSUME NEW k \in Keys, store[k].sk > boundary, store[k].sk <= target
        PROVE  Current(k)
    <3>1. CASE store[k].sk <= current  BY <2>1, <2>2, <3>1
    <3>2. CASE ~(store[k].sk <= current)
      <4>1. InWindow(k)  BY <2>2, <3>2 DEF InWindow
      <4>. QED  BY <2>1, <4>1 DEF Pending
    <3>. QED  BY <3>1, <3>2
  <2>3. current' = target /\ pc' = "window" /\ UNCHANGED <<index, boundary>>
    BY <1>1 DEF WindowEnds
  <2>4. boundary' <= current'  BY <2>1, <2>3
  <2>5. \A k \in Keys : store'[k].sk > boundary' /\ store'[k].sk <= current' => Current(k)'
    BY <2>2, <2>3 DEF Current, Live
  <2>6. Clean(boundary)'  BY <2>1, <2>3 DEF Clean
  <2>. QED  BY <2>3, <2>4, <2>5, <2>6 DEF Progress
<1>2. CASE CountStoreTotal
  <2>1. /\ Clean(boundary) /\ RowsAfter(current) = {}
        /\ \A k \in Keys : store[k].sk > boundary /\ store[k].sk <= current => Current(k)
    BY <1>2 DEF CountStoreTotal, Progress
  <2>2. \A k \in Keys : store[k].sk <= current  BY <2>1 DEF RowsAfter
  <2>3. \A k \in Keys : store[k].sk > boundary \/ index[k].sk > boundary => Current(k)
    BY <2>1, <2>2 DEF Clean
  <2>4. pc' = "total" /\ UNCHANGED <<index, boundary>>  BY <1>2 DEF CountStoreTotal
  <2>5. \A k \in Keys : store'[k].sk > boundary' \/ index'[k].sk > boundary' => Current(k)'
    BY <2>3, <2>4 DEF Current, Live
  <2>. QED  BY <2>4, <2>5 DEF Progress
<1>3. CASE CountIndexTotal
  <2>1. \A k \in Keys : store[k].sk > boundary \/ index[k].sk > boundary => Current(k)
    BY <1>3 DEF CountIndexTotal, Progress
  <2>2. UNCHANGED index /\ ((pc' = "completed" /\ UNCHANGED boundary) \/ pc' = "highest")
    BY <1>3 DEF CountIndexTotal
  <2>3. pc' = "completed" =>
          \A k \in Keys : store'[k].sk > boundary' \/ index'[k].sk > boundary' => Current(k)'
    BY <2>1, <2>2 DEF Current, Live
  <2>. QED  BY <2>2, <2>3 DEF Progress
<1>4. CASE Report
  BY <1>4 DEF Report, Reset, Progress
<1>. QED  BY <1>1, <1>2, <1>3, <1>4

LEMMA ProgressCall ==
  ASSUME Types, NeverIndexed, pc \in {"project", "details"} => scratch = {}, quiet => Progress,
         Call, quiet'
  PROVE  Progress'
<1>1. CASE HighestSkiptoken
  <2>1. /\ high' = Max({0} \cup {index[k].sk : k \in Keys})
        /\ pc' = "countStore" /\ UNCHANGED index
    BY <1>1 DEF HighestSkiptoken
  <2>2. \A k \in Keys : index[k].sk <= high'  BY <2>1, HighestTyped
  <2>. QED  BY <2>1, <2>2 DEF Progress, Windows
<1>2. CASE ~HighestSkiptoken
  <2>1. Progress /\ UNCHANGED store  BY <1>2, CallKeeps
  <2>. QED
    BY <1>2, <2>1, ProgressPrefix, ProgressWindow, ProgressApply, ProgressEnd DEF Call
<1>. QED  BY <1>1, <1>2

(* The scratch rows of a window are its own.                               *)
LEMMA ScratchStep ==
  ASSUME Types, pc \in {"project", "details"} => scratch = {}, [Next]_vars
  PROVE  pc' \in {"project", "details"} => scratch' = {}
<1>1. CASE Store \/ LateTask \/ Begin \/ Fail \/ UNCHANGED vars
  BY <1>1, StoreStep DEF LateTask, Begin, Fail, Reset, vars, envVars, localVars
<1>2. CASE Call
  BY <1>2 DEF Call, CountStorePrefix, CountIndexPrefix, SearchStore, SearchIndex, HighestSkiptoken,
       SearchEnds, ExpectedIds, IndexedIds, DeleteExtra, NextWindow, ReplaceScratch, Project,
       Details, ApplyOp, WindowEnds, CountStoreTotal, CountIndexTotal, Report, Reset, envVars,
       localVars
<1>. QED  BY <1>1, <1>2 DEF Next

LEMMA SuffixStep == SuffixInv /\ [Next]_vars => SuffixInv'
<1> SUFFICES ASSUME SuffixInv, [Next]_vars PROVE SuffixInv'  OBVIOUS
<1>0. Types /\ NeverIndexed /\ (pc \in {"project", "details"} => scratch = {}) /\ (quiet => Progress)
  BY DEF SuffixInv
<1>1. Types' /\ NeverIndexed'  BY <1>0, TypesStep, NeverIndexedStep
<1>2. pc' \in {"project", "details"} => scratch' = {}  BY <1>0, ScratchStep
<1>3. quiet' => Progress'
  <2>1. CASE Store \/ LateTask
    BY <1>0, <2>1, StoreStep DEF LateTask
  <2>2. CASE Begin \/ Fail
    BY <2>2 DEF Begin, Fail, Reset, Progress, Windows
  <2>3. CASE Call
    BY <1>0, <2>3, ProgressCall
  <2>4. CASE UNCHANGED vars
    BY <1>0, <2>4
    DEF vars, Progress, Windows, Clean, Current, Live, Pending, InWindow, OpOf, Unborn, Windowed,
        RowsAfter
  <2>. QED  BY <2>1, <2>2, <2>3, <2>4 DEF Next
<1>. QED  BY <1>1, <1>2, <1>3 DEF SuffixInv

(* A completed pass over a store that did not change meanwhile has made    *)
(* everything above the verified prefix exact, whatever failed before,     *)
(* whatever the batch size and however rows tie at the window boundaries   *)
(* (reconcile_category).                                                   *)
THEOREM SuffixCorrect == Spec => []SuffixExact
<1>1. Init => SuffixInv
  BY TypesInit DEF Init, SuffixInv, Progress, Windows
<1>2. SuffixInv => SuffixExact
  BY DEF SuffixInv, Progress, SuffixExact
<1>. QED  BY <1>1, <1>2, SuffixStep, PTL DEF Spec

-------------------------------------------------------------------------------
(* Why counting does not err as long as tokens tell versions apart: at any *)
(* time a live row without its document has a higher token than every      *)
(* document of the index.                                                  *)

Missing(k) == Live(k) /\ ~Current(k)

(* Locals are empty outside their scope.                                   *)
Scopes ==
  /\ ops # {} => pc = "apply"
  /\ rows # {} => pc = "details"
  /\ ids # {} => pc \in {"extra", "delete"}
  /\ pc = "apply" => ops \subseteq scratch
  /\ \A o, p \in ops : o.key = p.key => o = p
  /\ \A r, q \in rows : r.key = q.key => r = q

(* The token of an operation tells the version of the row it is for.       *)
Version(o) ==
  /\ 0 < o.sk /\ o.sk <= store[o.key].sk
  /\ o.sk = store[o.key].sk => o = OpOf(o.key)
  /\ index[o.key].sk <= o.sk

(* Or it deletes a document that is not its row's.                         *)
Safe(o) ==
  \/ Version(o)
  \/ o.sk = 0 /\ o.body = 0 /\ (Live(o.key) => index[o.key].sk < store[o.key].sk)

(* The document of k, if any, is of an earlier version or right.           *)
Sound(k) ==
  \/ index[k] = NoDoc
  \/ 0 < index[k].sk /\ index[k].sk < store[k].sk
  \/ Live(k) /\ Current(k)

Versions ==
  /\ \A k \in Keys : store[k].sk <= feed
  /\ \A k \in Keys : Sound(k)
  /\ \A o \in ops : Version(o)
  /\ \A r \in rows : /\ 0 < r.sk /\ r.sk <= store[r.key].sk
                     /\ r.sk = store[r.key].sk => r.deleted = store[r.key].deleted
                     /\ index[r.key].sk <= r.sk
  /\ \A o \in late : Safe(o)
  /\ \A o \in late : /\ \A p \in ops : o.key = p.key => o.sk <= p.sk
                     /\ \A r \in rows : o.key = r.key => o.sk <= r.sk
  /\ high <= feed /\ best <= feed /\ boundary <= feed /\ current <= feed /\ target <= feed

Above(b) == \A j \in Keys : Missing(j) => store[j].sk > b

Frontier ==
  /\ \A j \in Keys : Missing(j) =>
       \A i \in Keys :
         \/ index[i].sk < store[j].sk
         \/ /\ index[i].sk = store[j].sk
            /\ OpOf(j) \in ops
            /\ \E o \in scratch : o.key = i /\ o.sk = store[j].sk
  /\ \A j \in Keys : Missing(j) => \A o \in late : o.sk < store[j].sk \/ o = OpOf(j)

(* No document or operation in flight has the row's present version.       *)
Fresh(k) ==
  /\ index[k].sk < store[k].sk
  /\ \A o \in late : o.key = k => o.sk < store[k].sk

Passing ==
  /\ pc \in {"countStore", "countIndex", "searchStore", "searchIndex"} => Above(high) /\ Above(best)
  /\ pc = "extra" => \A k \in Keys : Live(k) /\ store[k].sk > boundary => k \in ids \/ Fresh(k)
  /\ pc = "delete" => \A k \in ids : Live(k) => Fresh(k)
  /\ pc \in {"expected", "extra", "delete"} \cup Windows => Above(current)
  /\ pc = "details" =>
       /\ \A r \in rows : r.sk <= target
       /\ \A j \in Keys : Missing(j) /\ store[j].sk <= target =>
            [key |-> j, sk |-> store[j].sk, deleted |-> store[j].deleted] \in rows
  /\ pc = "apply" =>
       /\ \A o \in ops : o.sk <= target
       /\ \A j \in Keys : Missing(j) /\ store[j].sk <= target => OpOf(j) \in ops

PrefixExact(b) == \A k \in Keys : store[k].sk <= b => Current(k)

Verified ==
  /\ pc = "countIndex" => pg = StoreCount(high)
  /\ pc = "searchIndex" => pg = StoreCount(Mid)
  /\ pc \in {"searchStore", "searchIndex"} => PrefixExact(best)
  /\ pc \in {"expected", "extra", "delete", "total", "completed"} \cup Windows => PrefixExact(boundary)
  /\ pc = "delete" => \A k \in ids : index[k].sk > boundary

Orderly == Versions /\ Frontier /\ Passing

ExactInv ==
  /\ SuffixInv
  /\ Scopes
  /\ orderly => Orderly
  /\ orderly /\ quiet => Verified

-------------------------------------------------------------------------------
(* Documents, operations and counts.                                       *)

LEMMA ExactNumbers ==
  ASSUME Types
  PROVE  /\ \A k \in Keys : /\ store[k].sk \in Nat /\ store[k].deleted \in BOOLEAN
                            /\ index[k].sk \in Nat
                            /\ store[k].body # 0 => store[k].sk > 0
                            /\ Live(k) => store[k].sk > 0
         /\ feed \in Nat /\ high \in Nat /\ best \in Nat /\ boundary \in Nat
         /\ current \in Nat /\ target \in Nat
         /\ \A o \in late \cup ops \cup scratch : o.key \in Keys /\ o.sk \in Nat
         /\ \A r \in rows : r.key \in Keys /\ r.sk \in Nat /\ r.deleted \in BOOLEAN
BY BoundsAssumption DEF Types, TypeOK, SearchBounds, Tokens, Op, Live

(* A document is at most of its row's version.                             *)
LEMMA SoundBelow ==
  ASSUME Types, NEW k \in Keys, Sound(k)
  PROVE  /\ index[k].sk <= store[k].sk
         /\ Missing(k) => index[k].sk < store[k].sk
         /\ Live(k) /\ index[k].sk < store[k].sk => Missing(k)
         /\ Live(k) /\ index[k].sk = store[k].sk => Current(k)
BY ExactNumbers DEF Sound, Missing, Current, NoDoc

(* An operation that may still run makes no right document wrong, and      *)
(* leaves behind a document of its own version or none.                    *)
LEMMA SafeApplied ==
  ASSUME Types, NEW os \in SUBSET Op, \A o \in os : Safe(o), NEW k \in Keys, Sound(k)
  PROVE  /\ \/ Applied(os)[k] = NoDoc
            \/ 0 < Applied(os)[k].sk /\ Applied(os)[k].sk < store[k].sk
            \/ Live(k) /\ Applied(os)[k] = [sk |-> store[k].sk, body |-> store[k].body]
         /\ Live(k) /\ Current(k) => Applied(os)[k] = index[k]
         /\ \/ (~\E o \in os : o.key = k) /\ Applied(os)[k] = index[k]
            \/ \E o \in os : /\ o.key = k
                             /\ \/ o.body = 0 /\ Applied(os)[k] = NoDoc
                                \/ o.body # 0 /\ Applied(os)[k] = [sk |-> o.sk, body |-> o.body]
<1>1. CASE (~\E o \in os : o.key = k) /\ Applied(os)[k] = index[k]
  <2>1. Applied(os)[k] = index[k] /\ ~\E o \in os : o.key = k  BY <1>1
  <2>2. \/ index[k] = NoDoc
        \/ 0 < index[k].sk /\ index[k].sk < store[k].sk
        \/ Live(k) /\ index[k] = [sk |-> store[k].sk, body |-> store[k].body]
    BY DEF Sound, Current
  <2>. QED  BY <2>1, <2>2
<1>2. CASE \E o \in os : /\ o.key = k
                         /\ Applied(os)[k] = IF o.body = 0 THEN NoDoc ELSE [sk |-> o.sk, body |-> o.body]
  <2>1. PICK o \in os : /\ o.key = k
                        /\ Applied(os)[k] = IF o.body = 0 THEN NoDoc ELSE [sk |-> o.sk, body |-> o.body]
    BY <1>2
  <2>2. o.sk \in Nat /\ Safe(o) /\ store[k].sk \in Nat /\ index[k].sk \in Nat
    BY ExactNumbers, BoundsAssumption DEF Op, Tokens
  <2>3. Live(k) /\ Current(k) => index[k].sk = store[k].sk
    BY DEF Current
  <2>4. CASE Version(o) /\ o.sk = store[k].sk
    <3>1. o.sk = store[k].sk /\ 0 < o.sk /\ o.body = IF store[k].deleted THEN 0 ELSE store[k].body
      BY <2>1, <2>4 DEF Version, OpOf
    <3>2. CASE o.body = 0
      <4>1. ~Live(k)  BY <3>1, <3>2 DEF Live
      <4>. QED  BY <2>1, <3>2, <4>1
    <3>3. CASE o.body # 0
      <4>1. Live(k) /\ o.body = store[k].body  BY <3>1, <3>3, ExactNumbers DEF Live
      <4>2. Applied(os)[k] = [sk |-> store[k].sk, body |-> store[k].body]
        BY <2>1, <3>1, <3>3, <4>1
      <4>3. Live(k) /\ Current(k) => index[k] = [sk |-> store[k].sk, body |-> store[k].body]
        BY DEF Current
      <4>. QED  BY <2>1, <3>3, <4>1, <4>2, <4>3
    <3>. QED  BY <3>2, <3>3
  <2>5. CASE Version(o) /\ o.sk # store[k].sk
    <3>1. 0 < o.sk /\ o.sk < store[k].sk /\ index[k].sk <= o.sk
      BY <2>1, <2>2, <2>5 DEF Version
    <3>2. ~(Live(k) /\ Current(k))  BY <2>2, <2>3, <3>1
    <3>. QED  BY <2>1, <3>1, <3>2
  <2>6. CASE ~Version(o)
    <3>1. o.body = 0 /\ (Live(k) => index[k].sk < store[k].sk)
      BY <2>1, <2>2, <2>6 DEF Safe
    <3>2. ~(Live(k) /\ Current(k))  BY <2>2, <2>3, <3>1
    <3>. QED  BY <2>1, <3>1, <3>2
  <2>. QED  BY <2>4, <2>5, <2>6
<1>. QED  BY <1>1, <1>2, AppliedAt

(* Where every live row has its document, equal counts leave no other.     *)
LEMMA CountExact ==
  ASSUME Types, \A k \in Keys : Sound(k), NEW b \in Nat, Above(b), StoreCount(b) = IndexCount(b)
  PROVE  PrefixExact(b)
<1> DEFINE S == {k \in Keys : Live(k) /\ store[k].sk <= b}
           I == {k \in Keys : index[k].sk \in 1 .. b}
<1>1. S \subseteq I
  <2> SUFFICES ASSUME NEW k \in Keys, Live(k), store[k].sk <= b
               PROVE  index[k].sk \in 1 .. b
    OBVIOUS
  <2>1. ~Missing(k)  BY ExactNumbers DEF Above
  <2>2. index[k].sk = store[k].sk  BY <2>1 DEF Missing, Current
  <2>. QED  BY <2>2, ExactNumbers
<1>2. IsFiniteSet(I)
  <2>1. I \in SUBSET Keys  OBVIOUS
  <2> HIDE DEF I
  <2>. QED  BY <2>1, KeysCounted
<1>3. Cardinality(S) = Cardinality(I)  BY DEF StoreCount, IndexCount
<1>4. S = I
  <2> HIDE DEF S, I
  <2>. QED  BY <1>1, <1>2, <1>3, FS_Subset
<1>5. ASSUME NEW k \in Keys, store[k].sk <= b
      PROVE  Current(k)
  <2>1. k \in S <=> k \in I  BY <1>4
  <2>2. CASE Live(k)
    <3>1. ~Missing(k)  BY <1>5, <2>2, ExactNumbers DEF Above
    <3>. QED  BY <2>2, <3>1 DEF Missing
  <2>3. CASE ~Live(k)
    <3>1. ~(index[k].sk \in 1 .. b)  BY <2>1, <2>3, <1>5
    <3>2. index[k].sk <= store[k].sk  BY SoundBelow
    <3>3. index[k].sk = 0  BY <1>5, <3>1, <3>2, ExactNumbers
    <3>4. index[k] = NoDoc  BY <2>3, <3>3 DEF Sound
    <3>. QED  BY <2>3, <3>4 DEF Current
  <2>. QED  BY <2>2, <2>3
<1>. QED  BY <1>5 DEF PrefixExact

LEMMA PrefixZero ==
  ASSUME Types, \A k \in Keys : Sound(k)
  PROVE  PrefixExact(0) /\ Above(0)
<1>1. ASSUME NEW k \in Keys, store[k].sk <= 0
      PROVE  Current(k)
  <2>1. ~Live(k) /\ index[k].sk = 0  BY <1>1, SoundBelow, ExactNumbers
  <2>2. index[k] = NoDoc  BY <2>1 DEF Sound
  <2>. QED  BY <2>1, <2>2 DEF Current
<1>. QED  BY <1>1, ExactNumbers DEF PrefixExact, Above, Missing

LEMMA AboveLess ==
  ASSUME Types, NEW b \in Nat, NEW c \in Nat, c <= b, Above(b)
  PROVE  Above(c)
BY ExactNumbers DEF Above

-------------------------------------------------------------------------------
(* Commits, late tasks and failures.                                       *)

(* Where nothing else changed, a new version has a token above all that    *)
(* anything knows of.                                                      *)
LEMMA OrderlyPage ==
  ASSUME Types, Types', Orderly, StorePage, orderly'
  PROVE  Orderly'
<1>1. /\ feed' \in Nat /\ feed \in Nat /\ feed < feed'
      /\ \A k \in Keys : store'[k] = store[k] \/ store'[k].sk = feed'
      /\ UNCHANGED <<index, late, scratch, pc, low, high, best, pg, boundary, current, target,
                     ids, rows, ops>>
  <2>1. feed' \in Tokens /\ feed < feed'  BY PageRows
  <2>2. \A k \in Keys : store'[k] = store[k] \/ store'[k].sk = feed'  BY DEF StorePage
  <2>3. UNCHANGED <<index, late, scratch, pc, localVars>>  BY DEF StorePage
  <2>. QED  BY <2>1, <2>2, <2>3, ExactNumbers, BoundsAssumption DEF localVars, Tokens
<1>2. Versions /\ Frontier /\ Passing  BY DEF Orderly
<1>3. ASSUME NEW k \in Keys
      PROVE  /\ store[k].sk <= feed /\ index[k].sk <= feed
             /\ store[k].sk \in Nat /\ index[k].sk \in Nat
             /\ Sound(k)
  BY <1>1, <1>2, SoundBelow, ExactNumbers DEF Versions
<1>4. ASSUME NEW k \in Keys, store'[k] # store[k]
      PROVE  store'[k].sk > feed /\ store'[k].sk \in Nat
  BY <1>1, <1>4
<1>5. ASSUME NEW k \in Keys, store'[k] = store[k]
      PROVE  /\ Live(k)' <=> Live(k)
             /\ Current(k)' <=> Current(k)
             /\ Missing(k)' <=> Missing(k)
             /\ OpOf(k)' = OpOf(k)
  BY <1>1, <1>5 DEF Live, Current, Missing, OpOf
<1>6. \A k \in Keys : Sound(k)'
  <2>1. ASSUME NEW k \in Keys, store'[k] = store[k] PROVE Sound(k)'
    BY <1>1, <1>3, <1>5, <2>1 DEF Sound
  <2>2. ASSUME NEW k \in Keys, store'[k] # store[k] PROVE Sound(k)'
    <3>1. index[k] = NoDoc \/ 0 < index[k].sk
      <4>1. Live(k) /\ Current(k) => index[k].sk = store[k].sk /\ store[k].sk > 0
        BY ExactNumbers DEF Current
      <4>2. \/ index[k] = NoDoc
            \/ 0 < index[k].sk /\ index[k].sk < store[k].sk
            \/ Live(k) /\ Current(k)
        BY <1>3 DEF Sound
      <4>. QED  BY <4>1, <4>2
    <3>2. index[k].sk < store'[k].sk  BY <1>1, <1>3, <1>4, <2>2
    <3>. QED  BY <1>1, <3>1, <3>2 DEF Sound, NoDoc
  <2>. QED  BY <2>1, <2>2
<1>7. ASSUME NEW o, o.key \in Keys, o.sk \in Nat, Version(o)
      PROVE  Version(o)' /\ o.sk <= feed
  <2>1. 0 < o.sk /\ o.sk <= store[o.key].sk /\ index[o.key].sk <= o.sk /\ o.sk <= feed
    BY <1>1, <1>3, <1>7 DEF Version
  <2>2. CASE store'[o.key] = store[o.key]
    BY <1>1, <1>5, <1>7, <2>1, <2>2 DEF Version
  <2>3. CASE store'[o.key] # store[o.key]
    <3>1. o.sk < store'[o.key].sk  BY <1>1, <1>4, <1>7, <2>1, <2>3
    <3>. QED  BY <1>1, <1>7, <2>1, <3>1 DEF Version
  <2>. QED  BY <2>2, <2>3
<1>8. ASSUME NEW o \in late
      PROVE  Safe(o)' /\ o.sk <= feed
  <2>1. o.key \in Keys /\ o.sk \in Nat /\ Safe(o)  BY <1>2, ExactNumbers DEF Versions
  <2>2. CASE Version(o)  BY <1>7, <2>1, <2>2 DEF Safe
  <2>3. CASE ~Version(o)
    <3>1. o.sk = 0 /\ o.body = 0 /\ (Live(o.key) => index[o.key].sk < store[o.key].sk)
      BY <2>1, <2>3 DEF Safe
    <3>2. Live(o.key)' => index'[o.key].sk < store'[o.key].sk
      BY <1>1, <1>3, <1>4, <1>5, <2>1, <3>1
    <3>. QED  BY <1>1, <3>1, <3>2 DEF Safe
  <2>. QED  BY <2>2, <2>3
<1>9. ASSUME NEW r \in rows
      PROVE  /\ 0 < r.sk /\ r.sk <= store'[r.key].sk
             /\ r.sk = store'[r.key].sk => r.deleted = store'[r.key].deleted
             /\ index'[r.key].sk <= r.sk
  <2>1. /\ r.key \in Keys /\ r.sk \in Nat
        /\ 0 < r.sk /\ r.sk <= store[r.key].sk
        /\ r.sk = store[r.key].sk => r.deleted = store[r.key].deleted
        /\ index[r.key].sk <= r.sk
    BY <1>2, ExactNumbers DEF Versions
  <2>. QED  BY <1>1, <1>3, <1>4, <2>1
<1>10. Versions'
  <2>1. \A k \in Keys : store'[k].sk <= feed'  BY <1>1, <1>3
  <2>2. \A o \in ops : Version(o)'  BY <1>2, <1>7, ExactNumbers DEF Versions
  <2>3. /\ \A o \in late : /\ \A p \in ops : o.key = p.key => o.sk <= p.sk
                           /\ \A r \in rows : o.key = r.key => o.sk <= r.sk
        /\ high <= feed /\ best <= feed /\ boundary <= feed /\ current <= feed /\ target <= feed
    BY <1>2 DEF Versions
  <2>4. high <= feed' /\ best <= feed' /\ boundary <= feed' /\ current <= feed' /\ target <= feed'
    BY <1>1, <2>3, ExactNumbers
  <2>. QED  BY <1>1, <1>6, <1>8, <1>9, <2>1, <2>2, <2>3, <2>4 DEF Versions
<1>11. Frontier'
  <2>1. ASSUME NEW j \in Keys, Missing(j)', NEW i \in Keys
        PROVE  \/ index'[i].sk < store'[j].sk
               \/ /\ index'[i].sk = store'[j].sk
                  /\ OpOf(j)' \in ops'
                  /\ \E o \in scratch' : o.key = i /\ o.sk = store'[j].sk
    <3>1. CASE store'[j] = store[j]
      <4>1. Missing(j) /\ OpOf(j)' = OpOf(j)  BY <1>5, <2>1, <3>1
      <4>2. \/ index[i].sk < store[j].sk
            \/ /\ index[i].sk = store[j].sk
               /\ OpOf(j) \in ops
               /\ \E o \in scratch : o.key = i /\ o.sk = store[j].sk
        BY <1>2, <4>1 DEF Frontier
      <4>. QED  BY <1>1, <3>1, <4>1, <4>2
    <3>2. CASE store'[j] # store[j]
      BY <1>1, <1>3, <1>4, <3>2
    <3>. QED  BY <3>1, <3>2
  <2>2. ASSUME NEW j \in Keys, Missing(j)', NEW o \in late
        PROVE  o.sk < store'[j].sk \/ o = OpOf(j)'
    <3>1. CASE store'[j] = store[j]
      <4>1. Missing(j) /\ OpOf(j)' = OpOf(j)  BY <1>5, <2>2, <3>1
      <4>. QED  BY <1>2, <3>1, <4>1 DEF Frontier
    <3>2. CASE store'[j] # store[j]
      BY <1>1, <1>4, <1>8, <3>2, ExactNumbers
    <3>. QED  BY <3>1, <3>2
  <2>. QED  BY <1>1, <2>1, <2>2 DEF Frontier
<1>12. Passing'
  <2>1. ASSUME NEW b \in Nat, b <= feed, Above(b) PROVE Above(b)'
    <3>1. ASSUME NEW j \in Keys, Missing(j)' PROVE store'[j].sk > b
      <4>1. CASE store'[j] = store[j]  BY <1>5, <2>1, <3>1, <4>1 DEF Above
      <4>2. CASE store'[j] # store[j]  BY <1>1, <1>4, <2>1, <4>2
      <4>. QED  BY <4>1, <4>2
    <3>. QED  BY <3>1 DEF Above
  <2>2. high <= feed /\ best <= feed /\ current <= feed /\ target <= feed /\ boundary <= feed
        /\ high \in Nat /\ best \in Nat /\ current \in Nat /\ target \in Nat /\ boundary \in Nat
    BY <1>2, ExactNumbers DEF Versions
  <2>3. pc \in {"countStore", "countIndex", "searchStore", "searchIndex"} => Above(high)' /\ Above(best)'
    <3>1. ASSUME pc \in {"countStore", "countIndex", "searchStore", "searchIndex"}
          PROVE  Above(high) /\ Above(best)
      BY <1>2, <3>1 DEF Passing
    <3>2. Above(high) => \A j \in Keys : Missing(j)' => store'[j].sk > high
      BY <2>1, <2>2 DEF Above
    <3>3. Above(best) => \A j \in Keys : Missing(j)' => store'[j].sk > best
      BY <2>1, <2>2 DEF Above
    <3>. QED  BY <1>1, <3>1, <3>2, <3>3 DEF Above
  <2>4. pc \in {"expected", "extra", "delete"} \cup Windows => Above(current)'
    <3>1. pc \in {"expected", "extra", "delete"} \cup Windows => Above(current)
      BY <1>2 DEF Passing
    <3>2. Above(current) => \A j \in Keys : Missing(j)' => store'[j].sk > current
      BY <2>1, <2>2 DEF Above
    <3>. QED  BY <1>1, <3>1, <3>2 DEF Above
  <2>5. ASSUME NEW k \in Keys, store'[k] # store[k] PROVE Fresh(k)'
    <3>1. index'[k].sk < store'[k].sk  BY <1>1, <1>3, <1>4, <2>5
    <3>2. \A o \in late' : o.sk < store'[k].sk  BY <1>1, <1>4, <1>8, <2>5, ExactNumbers
    <3>. QED  BY <3>1, <3>2 DEF Fresh
  <2>6. ASSUME NEW k \in Keys, store'[k] = store[k], Fresh(k) PROVE Fresh(k)'
    BY <1>1, <2>6 DEF Fresh
  <2>7. pc = "extra" => \A k \in Keys : Live(k)' /\ store'[k].sk > boundary => k \in ids \/ Fresh(k)'
    <3>1. pc = "extra" => \A k \in Keys : Live(k) /\ store[k].sk > boundary => k \in ids \/ Fresh(k)
      BY <1>2 DEF Passing
    <3>. QED  BY <1>5, <2>5, <2>6, <3>1
  <2>8. pc = "delete" => \A k \in ids : Live(k)' => Fresh(k)'
    <3>1. pc = "delete" => \A k \in ids : Live(k) => Fresh(k)
      BY <1>2 DEF Passing
    <3>2. ids \subseteq Keys  BY DEF Types, TypeOK
    <3>. QED  BY <1>5, <2>5, <2>6, <3>1, <3>2
  <2>9. ASSUME NEW j \in Keys, Missing(j)', store'[j].sk <= target
        PROVE  store'[j] = store[j] /\ Missing(j)
    BY <1>1, <1>4, <1>5, <2>2, <2>9
  <2>10. pc = "details" =>
           /\ \A r \in rows : r.sk <= target
           /\ \A j \in Keys : Missing(j)' /\ store'[j].sk <= target =>
                [key |-> j, sk |-> store'[j].sk, deleted |-> store'[j].deleted] \in rows
    BY <1>2, <2>9 DEF Passing
  <2>11. pc = "apply" =>
           /\ \A o \in ops : o.sk <= target
           /\ \A j \in Keys : Missing(j)' /\ store'[j].sk <= target => OpOf(j)' \in ops
    BY <1>2, <1>5, <2>9 DEF Passing
  <2>. QED  BY <1>1, <2>3, <2>4, <2>7, <2>8, <2>10, <2>11 DEF Passing, Windows
<1>. QED  BY <1>10, <1>11, <1>12 DEF Orderly

(* A task that runs late takes nothing right away.                         *)
LEMMA OrderlyLate ==
  ASSUME Types, Types', Orderly, LateTask
  PROVE  Orderly'
<1>1. /\ index' = Applied(late) /\ late' = {}
      /\ UNCHANGED <<store, feed, scratch, pc, low, high, best, pg, boundary, current, target,
                     ids, rows, ops>>
  BY DEF LateTask, envVars, localVars
<1>2. Versions /\ Frontier /\ Passing /\ late \in SUBSET Op /\ \A o \in late : Safe(o)
  BY DEF Orderly, Types, TypeOK, Versions
<1>3. ASSUME NEW k \in Keys
      PROVE  /\ \/ index'[k] = NoDoc
                \/ 0 < index'[k].sk /\ index'[k].sk < store[k].sk
                \/ Live(k) /\ index'[k] = [sk |-> store[k].sk, body |-> store[k].body]
             /\ Live(k) /\ Current(k) => index'[k] = index[k]
             /\ \/ (~\E o \in late : o.key = k) /\ index'[k] = index[k]
                \/ \E o \in late : /\ o.key = k
                                   /\ \/ o.body = 0 /\ index'[k] = NoDoc
                                      \/ o.body # 0 /\ index'[k] = [sk |-> o.sk, body |-> o.body]
  <2>1. Sound(k)  BY <1>2 DEF Versions
  <2> DEFINE os == late
  <2>2. os \in SUBSET Op /\ (\A o \in os : Safe(o)) /\ index' = Applied(os)  BY <1>1, <1>2
  <2> HIDE DEF os
  <2>3. /\ \/ Applied(os)[k] = NoDoc
           \/ 0 < Applied(os)[k].sk /\ Applied(os)[k].sk < store[k].sk
           \/ Live(k) /\ Applied(os)[k] = [sk |-> store[k].sk, body |-> store[k].body]
        /\ Live(k) /\ Current(k) => Applied(os)[k] = index[k]
        /\ \/ (~\E o \in os : o.key = k) /\ Applied(os)[k] = index[k]
           \/ \E o \in os : /\ o.key = k
                            /\ \/ o.body = 0 /\ Applied(os)[k] = NoDoc
                               \/ o.body # 0 /\ Applied(os)[k] = [sk |-> o.sk, body |-> o.body]
    BY <2>1, <2>2, SafeApplied
  <2>. QED  BY <2>2, <2>3 DEF os
<1>4. \A k \in Keys : (Live(k)' <=> Live(k)) /\ OpOf(k)' = OpOf(k)  BY <1>1 DEF Live, OpOf
<1>5. ASSUME NEW k \in Keys PROVE Sound(k)'
  <2>1. Current(k)' <=> index'[k] = IF Live(k) THEN [sk |-> store[k].sk, body |-> store[k].body] ELSE NoDoc
    BY <1>1, <1>4 DEF Current
  <2>. QED  BY <1>1, <1>3, <1>4, <2>1 DEF Sound, NoDoc
<1>6. ASSUME NEW k \in Keys, Missing(k)' PROVE Missing(k)
  <2>1. Live(k) /\ ~Current(k)'  BY <1>4, <1>6 DEF Missing
  <2>2. ASSUME Current(k) PROVE FALSE
    <3>1. index'[k] = index[k]  BY <1>3, <2>1, <2>2
    <3>. QED  BY <1>1, <1>4, <2>1, <2>2, <3>1 DEF Current
  <2>. QED  BY <2>1, <2>2 DEF Missing
(* What has become of the document of k, by tokens.                        *)
<1>7. ASSUME NEW k \in Keys
      PROVE  \/ index'[k] = NoDoc
             \/ index'[k] = index[k]
             \/ \E o \in late : o.key = k /\ o.body # 0 /\ index'[k] = [sk |-> o.sk, body |-> o.body]
  BY <1>3
<1>8. ASSUME NEW k \in Keys, NEW n \in Nat, index[k].sk <= n, \A o \in late : o.key = k => o.sk <= n
      PROVE  index'[k].sk <= n
  <2>1. CASE index'[k] = NoDoc
    <3>1. index'[k].sk = 0  BY <2>1 DEF NoDoc
    <3>. QED  BY <3>1
  <2>2. CASE index'[k] = index[k]  BY <1>8, <2>2
  <2>3. CASE \E o \in late : o.key = k /\ o.body # 0 /\ index'[k] = [sk |-> o.sk, body |-> o.body]
    <3>1. PICK o \in late : o.key = k /\ index'[k] = [sk |-> o.sk, body |-> o.body]  BY <2>3
    <3>2. index'[k].sk = o.sk  BY <3>1
    <3>. QED  BY <1>8, <3>1, <3>2
  <2>. QED  BY <1>7, <2>1, <2>2, <2>3
<1>9. Versions'
  <2>1. ASSUME NEW o \in ops PROVE Version(o)'
    <3>1. o.key \in Keys /\ o.sk \in Nat /\ Version(o) /\ \A p \in late : p.key = o.key => p.sk <= o.sk
      BY <1>2, ExactNumbers DEF Versions
    <3>2. index'[o.key].sk <= o.sk  BY <1>8, <3>1 DEF Version
    <3>3. OpOf(o.key)' = OpOf(o.key)  BY <1>4, <3>1
    <3>. QED  BY <1>1, <3>1, <3>2, <3>3 DEF Version
  <2>2. ASSUME NEW r \in rows
        PROVE  /\ 0 < r.sk /\ r.sk <= store'[r.key].sk
               /\ r.sk = store'[r.key].sk => r.deleted = store'[r.key].deleted
               /\ index'[r.key].sk <= r.sk
    <3>1. /\ r.key \in Keys /\ r.sk \in Nat
          /\ 0 < r.sk /\ r.sk <= store[r.key].sk
          /\ r.sk = store[r.key].sk => r.deleted = store[r.key].deleted
          /\ index[r.key].sk <= r.sk
          /\ \A p \in late : p.key = r.key => p.sk <= r.sk
      BY <1>2, ExactNumbers DEF Versions
    <3>2. index'[r.key].sk <= r.sk  BY <1>8, <3>1
    <3>. QED  BY <1>1, <3>1, <3>2
  <2>. QED  BY <1>1, <1>2, <1>5, <2>1, <2>2 DEF Versions
<1>10. Frontier'
  <2>1. ASSUME NEW j \in Keys, Missing(j)', NEW i \in Keys
        PROVE  \/ index'[i].sk < store'[j].sk
               \/ /\ index'[i].sk = store'[j].sk
                  /\ OpOf(j)' \in ops'
                  /\ \E o \in scratch' : o.key = i /\ o.sk = store'[j].sk
    <3>1. Missing(j) /\ OpOf(j)' = OpOf(j) /\ store[j].sk > 0  BY <1>4, <1>6, <2>1, ExactNumbers DEF Missing
    <3>2. CASE index'[i] = NoDoc
      BY <1>1, <3>1, <3>2 DEF NoDoc
    <3>3. CASE index'[i] = index[i]
      <4>1. \/ index[i].sk < store[j].sk
            \/ /\ index[i].sk = store[j].sk
               /\ OpOf(j) \in ops
               /\ \E o \in scratch : o.key = i /\ o.sk = store[j].sk
        BY <1>2, <3>1 DEF Frontier
      <4>. QED  BY <1>1, <3>1, <3>3, <4>1
    <3>4. CASE \E o \in late : o.key = i /\ o.body # 0 /\ index'[i] = [sk |-> o.sk, body |-> o.body]
      <4>1. PICK o \in late : o.key = i /\ o.body # 0 /\ index'[i] = [sk |-> o.sk, body |-> o.body]
        BY <3>4
      <4>2. o.sk < store[j].sk \/ o = OpOf(j)  BY <1>2, <3>1 DEF Frontier
      <4>3. CASE o.sk < store[j].sk  BY <1>1, <4>1, <4>3
      <4>4. CASE o = OpOf(j)
        <5>1. i = j /\ index'[j] = [sk |-> store[j].sk, body |-> store[j].body]
          BY <3>1, <4>1, <4>4 DEF OpOf, Missing, Live
        <5>2. Current(j)'  BY <1>1, <1>4, <3>1, <5>1 DEF Current, Missing
        <5>. QED  BY <2>1, <5>2 DEF Missing
      <4>. QED  BY <4>2, <4>3, <4>4
    <3>. QED  BY <1>7, <3>2, <3>3, <3>4
  <2>. QED  BY <1>1, <2>1 DEF Frontier
<1>11. Passing'
  <2>1. ASSUME NEW b, Above(b) PROVE \A j \in Keys : Missing(j)' => store'[j].sk > b
    BY <1>1, <1>6, <2>1 DEF Above
  <2>2. pc \in {"countStore", "countIndex", "searchStore", "searchIndex"} => Above(high)' /\ Above(best)'
    BY <1>1, <1>2, <2>1 DEF Passing, Above
  <2>3. pc \in {"expected", "extra", "delete"} \cup Windows => Above(current)'
    BY <1>1, <1>2, <2>1 DEF Passing, Above
  <2>4. ASSUME NEW k \in Keys, Fresh(k), Live(k) PROVE Fresh(k)'
    <3>1. index[k].sk < store[k].sk /\ store[k].sk > 0 /\ \A o \in late : o.key = k => o.sk < store[k].sk
      BY <2>4, ExactNumbers DEF Fresh
    <3>2. index'[k].sk < store[k].sk
      <4>1. CASE index'[k] = NoDoc
        <5>1. index'[k].sk = 0  BY <4>1 DEF NoDoc
        <5>. QED  BY <3>1, <5>1
      <4>2. CASE index'[k] = index[k]  BY <3>1, <4>2
      <4>3. CASE \E o \in late : o.key = k /\ o.body # 0 /\ index'[k] = [sk |-> o.sk, body |-> o.body]
        <5>1. PICK o \in late : o.key = k /\ index'[k] = [sk |-> o.sk, body |-> o.body]  BY <4>3
        <5>2. index'[k].sk = o.sk  BY <5>1
        <5>. QED  BY <3>1, <5>1, <5>2
      <4>. QED  BY <1>7, <4>1, <4>2, <4>3
    <3>. QED  BY <1>1, <3>2 DEF Fresh
  <2>5. pc = "extra" => \A k \in Keys : Live(k)' /\ store'[k].sk > boundary => k \in ids \/ Fresh(k)'
    BY <1>1, <1>2, <1>4, <2>4 DEF Passing
  <2>6. pc = "delete" => \A k \in ids : Live(k)' => Fresh(k)'
    <3>1. ids \subseteq Keys  BY DEF Types, TypeOK
    <3>. QED  BY <1>2, <1>4, <2>4, <3>1 DEF Passing
  <2>7. pc = "details" =>
           /\ \A r \in rows : r.sk <= target
           /\ \A j \in Keys : Missing(j)' /\ store'[j].sk <= target =>
                [key |-> j, sk |-> store'[j].sk, deleted |-> store'[j].deleted] \in rows
    BY <1>1, <1>2, <1>6 DEF Passing
  <2>8. pc = "apply" =>
           /\ \A o \in ops : o.sk <= target
           /\ \A j \in Keys : Missing(j)' /\ store'[j].sk <= target => OpOf(j)' \in ops
    BY <1>1, <1>2, <1>4, <1>6 DEF Passing
  <2>. QED  BY <1>1, <2>2, <2>3, <2>5, <2>6, <2>7, <2>8 DEF Passing, Windows
<1>. QED  BY <1>9, <1>10, <1>11 DEF Orderly

(* A pass that stops leaves at most what it was about to send, and unless  *)
(* two rows of its window tie, all that is missing comes after that.       *)
LEMMA OrderlyFail ==
  ASSUME Types, Types', Scopes, orderly => Orderly, Fail, orderly'
  PROVE  Orderly'
<1>1. /\ UNCHANGED <<store, feed, index, scratch>>
      /\ pc' = "idle" /\ high' = 0 /\ best' = 0 /\ boundary' = 0 /\ current' = 0 /\ target' = 0
      /\ ids' = {} /\ rows' = {} /\ ops' = {}
      /\ orderly /\ (pc = "apply" => ~Tied)
  BY DEF Fail, Reset
<1>2. Versions /\ Frontier /\ Passing  BY <1>1 DEF Orderly
<1>3. \A k \in Keys : /\ Live(k)' <=> Live(k)
                      /\ Current(k)' <=> Current(k)
                      /\ Missing(k)' <=> Missing(k)
                      /\ Sound(k)' <=> Sound(k)
                      /\ OpOf(k)' = OpOf(k)
  BY <1>1 DEF Live, Current, Missing, Sound, OpOf
<1>4. \/ late' = late
      \/ pc = "delete" /\ late' = Deletes(ids)
      \/ pc = "apply" /\ \E o \in ops : NextOp(o) /\ late' = {o}
  BY DEF Fail
<1>5. ASSUME NEW o, o.key \in Keys
      PROVE  Version(o)' <=> Version(o)
  BY <1>1, <1>3, <1>5 DEF Version
<1>6. ASSUME NEW o \in late' PROVE Safe(o)'
  <2>1. CASE late' = late
    <3>1. Safe(o) /\ o.key \in Keys  BY <1>2, <2>1, ExactNumbers DEF Versions
    <3>. QED  BY <1>1, <1>3, <1>5, <3>1 DEF Safe
  <2>2. CASE pc = "delete" /\ late' = Deletes(ids)
    <3>1. o.key \in ids /\ o.sk = 0 /\ o.body = 0 /\ o.key \in Keys
      BY <2>2 DEF Deletes, Types, TypeOK
    <3>2. Live(o.key) => index[o.key].sk < store[o.key].sk
      BY <1>2, <2>2, <3>1 DEF Passing, Fresh
    <3>. QED  BY <1>1, <1>3, <3>1, <3>2 DEF Safe
  <2>3. CASE pc = "apply" /\ \E p \in ops : NextOp(p) /\ late' = {p}
    <3>1. o \in ops  BY <2>3
    <3>2. Version(o) /\ o.key \in Keys  BY <1>2, <3>1, ExactNumbers DEF Versions
    <3>. QED  BY <1>5, <3>2 DEF Safe
  <2>. QED  BY <1>4, <2>1, <2>2, <2>3
<1>7. Versions'
  <2>1. \A k \in Keys : store'[k].sk <= feed' /\ Sound(k)'  BY <1>1, <1>2, <1>3 DEF Versions
  <2>2. 0 <= feed'  BY <1>1, ExactNumbers
  <2>. QED  BY <1>1, <1>6, <2>1, <2>2 DEF Versions
(* What is missing after a tie is still to be uploaded, and then: Tied.    *)
<1>8. ASSUME NEW j \in Keys, Missing(j), NEW i \in Keys
      PROVE  index[i].sk < store[j].sk
  <2> SUFFICES ASSUME ~(index[i].sk < store[j].sk) PROVE FALSE  OBVIOUS
  <2>1. /\ index[i].sk = store[j].sk
        /\ OpOf(j) \in ops
        /\ \E o \in scratch : o.key = i /\ o.sk = store[j].sk
    BY <1>2, <1>8 DEF Frontier
  <2>2. PICK o \in scratch : o.key = i /\ o.sk = store[j].sk  BY <2>1
  <2>3. pc = "apply" /\ OpOf(j) \in scratch  BY <2>1 DEF Scopes
  <2>4. i # j
    <3>1. Sound(j)  BY <1>2 DEF Versions
    <3>2. index[j].sk < store[j].sk  BY <1>8, <3>1, SoundBelow
    <3>. QED  BY <2>1, <3>2, ExactNumbers
  <2>5. OpOf(j).key = j /\ OpOf(j).sk = store[j].sk  BY DEF OpOf
  <2>6. Tied  BY <2>2, <2>3, <2>4, <2>5 DEF Tied
  <2>. QED  BY <1>1, <2>3, <2>6
<1>9. ASSUME NEW j \in Keys, Missing(j), NEW o \in late'
      PROVE  o.sk < store[j].sk \/ o = OpOf(j)
  <2>1. CASE late' = late  BY <1>2, <1>9, <2>1 DEF Frontier
  <2>2. CASE pc = "delete" /\ late' = Deletes(ids)
    <3>1. o.sk = 0  BY <2>2 DEF Deletes
    <3>. QED  BY <1>9, <3>1, ExactNumbers DEF Missing
  <2>3. CASE pc = "apply" /\ \E p \in ops : NextOp(p) /\ late' = {p}
    <3>1. o \in ops /\ NextOp(o) /\ o.sk \in Nat  BY <2>3, ExactNumbers
    <3>2. CASE store[j].sk <= target /\ o # OpOf(j)
      <4>1. OpOf(j) \in ops  BY <1>2, <1>9, <2>3, <3>2 DEF Passing
      <4>2. Before(o, OpOf(j))  BY <3>1, <3>2, <4>1 DEF NextOp
      <4>3. OpOf(j).body # 0 /\ OpOf(j).sk = store[j].sk  BY <1>9 DEF OpOf, Missing, Live
      <4>4. o.sk < store[j].sk \/ o.sk = store[j].sk  BY <4>2, <4>3 DEF Before
      <4>5. o.sk # store[j].sk
        <5>1. o \in scratch /\ OpOf(j) \in scratch  BY <2>3, <3>1, <4>1 DEF Scopes
        <5>2. ~Tied  BY <1>1, <2>3
        <5>. QED  BY <3>2, <4>3, <5>1, <5>2 DEF Tied
      <4>. QED  BY <4>4, <4>5
    <3>3. CASE ~(store[j].sk <= target)
      <4>1. o.sk <= target  BY <1>2, <2>3, <3>1 DEF Passing
      <4>. QED  BY <3>1, <3>3, <4>1, ExactNumbers
    <3>. QED  BY <3>2, <3>3
  <2>. QED  BY <1>4, <2>1, <2>2, <2>3
<1>10. Frontier'
  BY <1>1, <1>3, <1>8, <1>9 DEF Frontier
<1>11. Passing'  BY <1>1 DEF Passing, Windows
<1>. QED  BY <1>7, <1>10, <1>11 DEF Orderly

-------------------------------------------------------------------------------
(* The calls of a pass.                                                    *)

(* What holds of the store alone, or of the index alone, stays.            *)
LEMMA KeptBy ==
  ASSUME UNCHANGED <<store, index>>, NEW k \in Keys
  PROVE  /\ Live(k)' <=> Live(k)
         /\ Current(k)' <=> Current(k)
         /\ Missing(k)' <=> Missing(k)
         /\ Sound(k)' <=> Sound(k)
         /\ OpOf(k)' = OpOf(k)
BY DEF Live, Current, Missing, Sound, OpOf

LEMMA VersionKept ==
  ASSUME UNCHANGED <<store, index>>, NEW o, o.key \in Keys
  PROVE  /\ Version(o)' <=> Version(o)
         /\ Safe(o)' <=> Safe(o)
BY KeptBy DEF Version, Safe

(* The counts and the search.                                              *)
LEMMA OrderlyPrefix ==
  ASSUME Types, Types', Scopes, Orderly,
         \/ HighestSkiptoken \/ CountStorePrefix \/ CountIndexPrefix \/ SearchStore \/ SearchIndex
         \/ SearchEnds \/ ExpectedIds \/ IndexedIds
  PROVE  Orderly'
<1>1. /\ UNCHANGED <<store, feed, index, late, scratch, rows, ops, target>>
      /\ ops = {} /\ rows = {}
      /\ pc \notin {"details", "apply"} /\ pc' \notin {"details", "apply"}
  BY DEF HighestSkiptoken, CountStorePrefix, CountIndexPrefix, SearchStore, SearchIndex,
         SearchEnds, ExpectedIds, IndexedIds, envVars, Scopes
<1>2. Versions /\ Frontier /\ Passing  BY DEF Orderly
<1>3. \A k \in Keys : /\ Live(k)' <=> Live(k)
                      /\ Missing(k)' <=> Missing(k)
                      /\ Sound(k)' <=> Sound(k)
                      /\ OpOf(k)' = OpOf(k)
  BY <1>1, KeptBy
<1>4. ASSUME NEW k \in Keys
      PROVE  Sound(k) /\ store[k].sk <= feed /\ index[k].sk <= feed
  <2>1. Sound(k) /\ store[k].sk <= feed  BY <1>2 DEF Versions
  <2>. QED  BY <2>1, SoundBelow, ExactNumbers
<1>5. high <= feed /\ best <= feed /\ boundary <= feed /\ current <= feed /\ target <= feed
  BY <1>2 DEF Versions
<1>6. ASSUME high' <= feed, best' <= feed, boundary' <= feed, current' <= feed
      PROVE  Versions'
  <2>1. \A k \in Keys : store'[k].sk <= feed' /\ Sound(k)'  BY <1>1, <1>3, <1>4
  <2>2. \A o \in late' : Safe(o)'
    <3>1. ASSUME NEW o \in late PROVE Safe(o)'
      <4>1. o.key \in Keys /\ Safe(o)  BY <1>2, ExactNumbers DEF Versions
      <4>. QED  BY <1>1, <4>1, VersionKept
    <3>. QED  BY <1>1, <3>1
  <2>. QED  BY <1>1, <1>5, <1>6, <2>1, <2>2 DEF Versions
<1>7. Frontier'  BY <1>1, <1>2, <1>3 DEF Frontier
<1>8. \A b : Above(b) => \A j \in Keys : Missing(j)' => store'[j].sk > b
  BY <1>1, <1>3 DEF Above
<1>9. CASE HighestSkiptoken
  <2>1. /\ high' = Max({0} \cup {index[k].sk : k \in Keys})
        /\ UNCHANGED <<best, boundary, current>> /\ pc = "highest" /\ pc' = "countStore"
    BY <1>9 DEF HighestSkiptoken
  <2>2. high' = 0 \/ \E k \in Keys : high' = index[k].sk  BY <2>1, HighestTyped
  <2>3. high' <= feed  BY <1>4, <2>2, ExactNumbers
  <2>4. best = 0  BY <2>1 DEF Types, SearchBounds
  <2>5. ASSUME NEW j \in Keys, Missing(j) PROVE store[j].sk > high' /\ store[j].sk > best
    <3>1. \A i \in Keys : index[i].sk < store[j].sk  BY <1>1, <1>2, <2>5 DEF Frontier
    <3>2. store[j].sk > 0  BY <2>5, ExactNumbers DEF Missing
    <3>. QED  BY <2>2, <2>4, <3>1, <3>2, ExactNumbers
  <2>6. Passing'  BY <1>1, <1>3, <2>1, <2>5 DEF Passing, Above, Windows
  <2>. QED  BY <1>5, <1>6, <1>7, <2>1, <2>3, <2>6 DEF Orderly
<1>10. CASE CountStorePrefix \/ SearchStore
  <2>1. UNCHANGED <<high, best, boundary, current>> /\ pc' \in {"countIndex", "searchIndex"}
        /\ Above(high) /\ Above(best)
    BY <1>2, <1>10 DEF CountStorePrefix, SearchStore, Passing
  <2>2. Passing'
    <3>1. Above(high)' /\ Above(best)'  BY <1>8, <2>1 DEF Above
    <3>. QED  BY <2>1, <3>1 DEF Passing, Windows
  <2>. QED  BY <1>5, <1>6, <1>7, <2>1, <2>2 DEF Orderly
<1>11. CASE CountIndexPrefix
  <2>1. /\ Above(high) /\ Above(best)
        /\ UNCHANGED best
        /\ \/ boundary' = high /\ current' = high /\ high' = 0 /\ pc' = "window"
           \/ pc' = "searchStore" /\ UNCHANGED <<high, boundary, current>>
    BY <1>2, <1>11 DEF CountIndexPrefix, Passing
  <2>2. high' <= feed /\ best' <= feed /\ boundary' <= feed /\ current' <= feed
    BY <1>5, <2>1, ExactNumbers
  <2>3. Passing'
    <3>1. pc' = "window" => Above(current)'  BY <1>8, <2>1 DEF Above
    <3>2. pc' = "searchStore" => Above(high)' /\ Above(best)'  BY <1>8, <2>1 DEF Above
    <3>. QED  BY <2>1, <3>1, <3>2 DEF Passing, Windows
  <2>. QED  BY <1>6, <1>7, <2>2, <2>3 DEF Orderly
<1>12. CASE SearchIndex
  <2>1. /\ Above(high) /\ Above(best) /\ low <= high
        /\ \/ best' = Mid /\ UNCHANGED high
           \/ high' = Mid - 1 /\ UNCHANGED best
        /\ UNCHANGED <<boundary, current>> /\ pc' = "searchStore"
    BY <1>2, <1>12 DEF SearchIndex, Passing, Types, SearchBounds
  <2>2. Mid \in Nat /\ Mid <= high /\ high \in Nat /\ high' \in Nat /\ best' \in Nat
    <3>1. Mid \in Nat /\ Mid <= high  BY <2>1, MidBetween
    <3>2. high' \in Nat /\ best' \in Nat  BY BoundsAssumption DEF Types, TypeOK, Tokens
    <3>. QED  BY <3>1, <3>2, ExactNumbers
  <2>3. (best' <= high \/ best' = best) /\ high' <= high
    <3> DEFINE m == Mid
    <3>1. /\ m \in Nat /\ m <= high
          /\ \/ best' = m /\ high' = high
             \/ high' = m - 1 /\ best' = best
      BY <2>1, <2>2
    <3> HIDE DEF m
    <3>. QED  BY <2>2, <3>1
  <2>4. high' <= feed /\ best' <= feed  BY <1>5, <2>2, <2>3, ExactNumbers
  <2>5. Above(high') /\ Above(best')
    <3>1. Above(high')  BY <2>1, <2>2, <2>3, AboveLess
    <3>2. CASE best' <= high  BY <2>1, <2>2, <3>2, AboveLess
    <3>3. CASE best' = best  BY <2>1, <2>2, <3>3, ExactNumbers DEF Above
    <3>. QED  BY <2>3, <3>1, <3>2, <3>3
  <2>6. Passing'
    <3>1. Above(high)' /\ Above(best)'  BY <1>8, <2>5 DEF Above
    <3>. QED  BY <2>1, <3>1 DEF Passing, Windows
  <2>. QED  BY <1>5, <1>6, <1>7, <2>1, <2>4, <2>6 DEF Orderly
<1>13. CASE SearchEnds
  <2>1. /\ Above(best)
        /\ boundary' = best /\ current' = best /\ high' = 0 /\ best' = 0 /\ pc' = "expected"
    BY <1>2, <1>13 DEF SearchEnds, Passing
  <2>2. high' <= feed /\ best' <= feed /\ boundary' <= feed /\ current' <= feed
    BY <1>5, <2>1, ExactNumbers
  <2>3. Passing'
    <3>1. Above(current)'  BY <1>8, <2>1 DEF Above
    <3>. QED  BY <2>1, <3>1 DEF Passing, Windows
  <2>. QED  BY <1>6, <1>7, <2>2, <2>3 DEF Orderly
<1>14. CASE ExpectedIds
  <2>1. /\ Above(current)
        /\ ids' = {k \in RowsAfter(boundary) : Live(k)}
        /\ UNCHANGED <<high, best, boundary, current>> /\ pc' = "extra"
    BY <1>2, <1>14 DEF ExpectedIds, Passing
  <2>2. Passing'
    <3>1. Above(current)'  BY <1>8, <2>1 DEF Above
    <3>2. \A k \in Keys : Live(k)' /\ store'[k].sk > boundary' => k \in ids'
      BY <1>1, <1>3, <2>1 DEF RowsAfter
    <3>. QED  BY <2>1, <3>1, <3>2 DEF Passing, Windows
  <2>. QED  BY <1>5, <1>6, <1>7, <2>1, <2>2 DEF Orderly
<1>15. CASE IndexedIds
  <2>1. /\ Above(current)
        /\ \A k \in Keys : Live(k) /\ store[k].sk > boundary => k \in ids \/ Fresh(k)
        /\ ids' = {k \in Keys : index[k].sk > boundary} \ ids
        /\ UNCHANGED <<high, best, boundary, current>> /\ pc' \in {"window", "delete"}
    BY <1>2, <1>15 DEF IndexedIds, Passing
  <2>2. ASSUME NEW k \in ids', Live(k) PROVE Fresh(k)
    <3>1. k \in Keys /\ index[k].sk > boundary /\ k \notin ids  BY <2>1, <2>2
    <3>2. store[k].sk > boundary
      <4>1. index[k].sk <= store[k].sk  BY <1>4, <3>1, SoundBelow
      <4>. QED  BY <3>1, <4>1, ExactNumbers
    <3>. QED  BY <2>1, <2>2, <3>1, <3>2
  <2>3. Passing'
    <3>1. Above(current)'  BY <1>8, <2>1 DEF Above
    <3>2. \A k \in ids' : Live(k)' => Fresh(k)'  BY <1>1, <1>3, <2>1, <2>2 DEF Fresh
    <3>. QED  BY <2>1, <3>1, <3>2 DEF Passing, Windows
  <2>. QED  BY <1>5, <1>6, <1>7, <2>1, <2>3 DEF Orderly
<1>. QED  BY <1>9, <1>10, <1>11, <1>12, <1>13, <1>14, <1>15

(* Deleting what has no row takes nothing right away.                      *)
LEMMA OrderlyDelete ==
  ASSUME Types, Types', Scopes, Orderly, DeleteExtra
  PROVE  /\ Orderly'
         /\ \A k \in Keys \ ids : index'[k] = index[k]
<1>1. /\ UNCHANGED <<store, feed, late, scratch, high, best, boundary, current, target, rows, ops>>
      /\ index' = Applied(Deletes(ids)) /\ ids' = {} /\ late = {}
      /\ ops = {} /\ rows = {}
      /\ pc = "delete" /\ pc' = "window"
  BY DEF DeleteExtra, envVars, Scopes
<1>2. /\ Versions /\ Frontier /\ Above(current)
      /\ \A k \in ids : Live(k) => index[k].sk < store[k].sk
      /\ ids \subseteq Keys
  BY <1>1 DEF Orderly, Passing, Fresh, Types, TypeOK
<1> DEFINE os == Deletes(ids)
<1>3. /\ os \in SUBSET Op
      /\ \A o \in os : o.key \in ids /\ o.sk = 0 /\ o.body = 0
      /\ \A o \in os : Safe(o)
  <2>1. os \in SUBSET Op  BY <1>2, DeletesTyped
  <2>2. \A o \in os : o.key \in ids /\ o.sk = 0 /\ o.body = 0  BY DEF Deletes
  <2> HIDE DEF os
  <2>. QED  BY <1>2, <2>1, <2>2 DEF Safe
<1>4. index' = Applied(os)  BY <1>1
<1> HIDE DEF os
<1>5. ASSUME NEW k \in Keys
      PROVE  /\ Sound(k) /\ Sound(k)'
             /\ index'[k] = index[k] \/ (k \in ids /\ index'[k] = NoDoc)
             /\ Missing(k)' => Missing(k)
             /\ Live(k)' <=> Live(k)
  <2>1. Sound(k)  BY <1>2 DEF Versions
  <2>2. /\ \/ Applied(os)[k] = NoDoc
           \/ 0 < Applied(os)[k].sk /\ Applied(os)[k].sk < store[k].sk
           \/ Live(k) /\ Applied(os)[k] = [sk |-> store[k].sk, body |-> store[k].body]
        /\ Live(k) /\ Current(k) => Applied(os)[k] = index[k]
        /\ \/ (~\E o \in os : o.key = k) /\ Applied(os)[k] = index[k]
           \/ \E o \in os : /\ o.key = k
                            /\ \/ o.body = 0 /\ Applied(os)[k] = NoDoc
                               \/ o.body # 0 /\ Applied(os)[k] = [sk |-> o.sk, body |-> o.body]
    BY <1>3, <2>1, SafeApplied
  <2>3. Live(k)' <=> Live(k)  BY <1>1 DEF Live
  <2>4. Current(k)' <=> index'[k] = IF Live(k) THEN [sk |-> store[k].sk, body |-> store[k].body] ELSE NoDoc
    BY <1>1, <2>3 DEF Current
  <2>5. Sound(k)'  BY <1>1, <1>4, <2>2, <2>3, <2>4 DEF Sound, NoDoc
  <2>6. index'[k] = index[k] \/ (k \in ids /\ index'[k] = NoDoc)
    BY <1>3, <1>4, <2>2
  <2>7. Missing(k)' => Missing(k)
    <3>1. Live(k) /\ Current(k) => Current(k)'  BY <1>4, <2>2, <2>4 DEF Current
    <3>. QED  BY <2>3, <3>1 DEF Missing
  <2>. QED  BY <2>1, <2>3, <2>5, <2>6, <2>7
<1>6. Versions'  BY <1>1, <1>2, <1>5 DEF Versions
<1>7. Frontier'
  <2>1. ASSUME NEW j \in Keys, Missing(j)', NEW i \in Keys
        PROVE  index'[i].sk < store'[j].sk
    <3>1. index[i].sk < store[j].sk /\ store[j].sk > 0
      BY <1>1, <1>2, <1>5, <2>1, ExactNumbers DEF Frontier, Missing
    <3>. QED  BY <1>1, <1>5, <3>1 DEF NoDoc
  <2>. QED  BY <1>1, <2>1 DEF Frontier
<1>8. Passing'
  <2>1. Above(current)'  BY <1>1, <1>2, <1>5 DEF Above
  <2>. QED  BY <1>1, <2>1 DEF Passing
<1>9. \A k \in Keys \ ids : index'[k] = index[k]  BY <1>5
<1>. QED  BY <1>6, <1>7, <1>8, <1>9 DEF Orderly

(* From window to window.                                                  *)
LEMMA OrderlyWindow ==
  ASSUME Types, Types', Scopes, Orderly, pc \in {"project", "details"} => scratch = {},
         \/ NextWindow \/ ReplaceScratch \/ Project \/ Details \/ WindowEnds
         \/ CountStoreTotal \/ CountIndexTotal \/ Report
  PROVE  Orderly'
<1>1. UNCHANGED <<store, feed, index, late>>
  BY DEF NextWindow, ReplaceScratch, Project, Details, WindowEnds, CountStoreTotal,
         CountIndexTotal, Report, envVars
<1>2. Versions /\ Frontier /\ Passing  BY DEF Orderly
<1>3. \A k \in Keys : /\ Live(k)' <=> Live(k)
                      /\ Missing(k)' <=> Missing(k)
                      /\ Sound(k)' <=> Sound(k)
                      /\ OpOf(k)' = OpOf(k)
  BY <1>1, KeptBy
<1>4. \A k \in Keys : Sound(k) /\ store[k].sk <= feed  BY <1>2 DEF Versions
<1>5. high <= feed /\ best <= feed /\ boundary <= feed /\ current <= feed /\ target <= feed
  BY <1>2 DEF Versions
<1>6. (\A k \in Keys : store'[k].sk <= feed' /\ Sound(k)') /\ \A o \in late' : Safe(o)'
  <2>1. ASSUME NEW o \in late PROVE Safe(o)'
    <3>1. o.key \in Keys /\ Safe(o)  BY <1>2, ExactNumbers DEF Versions
    <3>. QED  BY <1>1, <3>1, VersionKept
  <2>. QED  BY <1>1, <1>3, <1>4, <2>1
<1>7. \A b : Above(b) => \A j \in Keys : Missing(j)' => store'[j].sk > b
  BY <1>1, <1>3 DEF Above
(* Without an upload under way, no document is as high as what is missing. *)
<1>8. ops = {} => Frontier'  BY <1>1, <1>2, <1>3 DEF Frontier
<1>9. CASE NextWindow
  <2>1. /\ UNCHANGED <<high, best, boundary, current, rows, ops>>
        /\ ops = {} /\ rows = {} /\ Above(current) /\ pc' = "clear"
        /\ \E k \in Keys : target' = store[k].sk
    <3>1. current \in Tokens  BY DEF Types, TypeOK
    <3>2. \E k \in Keys : target' = store[k].sk  BY <1>9, <3>1, NextBoundaryTyped DEF NextWindow
    <3>. QED  BY <1>2, <1>9, <3>2 DEF NextWindow, Scopes, Passing, Windows
  <2>2. target' <= feed  BY <1>4, <2>1
  <2>3. Versions'  BY <1>1, <1>5, <1>6, <2>1, <2>2 DEF Versions
  <2>4. Passing'
    <3>1. Above(current)'  BY <1>7, <2>1 DEF Above
    <3>. QED  BY <2>1, <3>1 DEF Passing
  <2>. QED  BY <1>8, <2>1, <2>3, <2>4 DEF Orderly
<1>10. CASE ReplaceScratch
  <2>1. /\ UNCHANGED <<high, best, boundary, current, target, rows, ops>>
        /\ ops = {} /\ rows = {} /\ Above(current) /\ pc' = "project"
    BY <1>2, <1>10 DEF ReplaceScratch, localVars, Scopes, Passing, Windows
  <2>2. Versions'  BY <1>1, <1>5, <1>6, <2>1 DEF Versions
  <2>3. Passing'
    <3>1. Above(current)'  BY <1>7, <2>1 DEF Above
    <3>. QED  BY <2>1, <3>1 DEF Passing
  <2>. QED  BY <1>8, <2>1, <2>2, <2>3 DEF Orderly
<1>11. CASE Project
  <2>1. /\ UNCHANGED <<high, best, boundary, current, target, ops>>
        /\ ops = {} /\ Above(current) /\ pc' = "details"
        /\ rows' = Windowed({k \in RowsAfter(current) : store[k].sk <= target})
    BY <1>2, <1>11 DEF Project, Scopes, Passing, Windows
  <2>2. ASSUME NEW r \in rows'
        PROVE  \E k \in Keys : /\ r = [key |-> k, sk |-> store[k].sk, deleted |-> store[k].deleted]
                               /\ store[k].sk > current /\ store[k].sk <= target
    BY <2>1, <2>2 DEF Windowed, RowsAfter
  <2>3. ASSUME NEW r \in rows'
        PROVE  /\ 0 < r.sk /\ r.sk <= store'[r.key].sk
               /\ r.sk = store'[r.key].sk => r.deleted = store'[r.key].deleted
               /\ index'[r.key].sk <= r.sk
               /\ \A o \in late : o.key = r.key => o.sk <= r.sk
               /\ r.sk <= target
    <3>1. PICK k \in Keys : /\ r = [key |-> k, sk |-> store[k].sk, deleted |-> store[k].deleted]
                            /\ store[k].sk > current /\ store[k].sk <= target
      BY <2>2
    <3>2. index[k].sk <= store[k].sk  BY <1>4, SoundBelow
    <3>3. ASSUME NEW o \in late, o.key = k PROVE o.sk <= store[k].sk
      <4>1. Safe(o)  BY <1>2 DEF Versions
      <4>. QED  BY <3>3, <4>1, ExactNumbers DEF Safe, Version
    <3>4. r.key = k /\ r.sk = store[k].sk /\ r.deleted = store[k].deleted  BY <3>1
    <3>5. store[k].sk > 0  BY <3>1, ExactNumbers
    <3>. QED  BY <1>1, <3>1, <3>2, <3>3, <3>4, <3>5, ExactNumbers
  <2>4. Versions'  BY <1>1, <1>5, <1>6, <2>1, <2>3 DEF Versions
  <2>5. ASSUME NEW j \in Keys, Missing(j)', store'[j].sk <= target
        PROVE  [key |-> j, sk |-> store'[j].sk, deleted |-> store'[j].deleted] \in rows'
    <3>1. store[j].sk > current  BY <1>3, <2>1, <2>5 DEF Above
    <3>2. j \in RowsAfter(current) /\ store[j].sk <= target  BY <1>1, <2>5, <3>1 DEF RowsAfter
    <3>. QED  BY <1>1, <2>1, <3>2 DEF Windowed
  <2>6. Passing'
    <3>1. Above(current)'  BY <1>7, <2>1 DEF Above
    <3>. QED  BY <2>1, <2>3, <2>5, <3>1 DEF Passing
  <2>. QED  BY <1>8, <2>1, <2>4, <2>6 DEF Orderly
<1>12. CASE Details
  <2> DEFINE found == {r \in rows : r.deleted \/ store[r.key].body # 0}
             new == {[key |-> r.key, sk |-> r.sk,
                      body |-> IF r.deleted THEN 0 ELSE store[r.key].body] : r \in found}
  <2>1. /\ UNCHANGED <<high, best, boundary, current, target>>
        /\ ops = {} /\ Above(current) /\ pc = "details" /\ pc' = "apply"
        /\ rows' = {} /\ scratch = {}
    BY <1>2, <1>12 DEF Details, Scopes, Passing, Windows
  <2>2. ops' = new  BY <1>12, <2>1 DEF Details
  <2>3. ASSUME NEW o \in new
        PROVE  /\ Version(o)' /\ o.sk <= target
               /\ \A p \in late : p.key = o.key => p.sk <= o.sk
    <3>1. PICK r \in found : o = [key |-> r.key, sk |-> r.sk,
                                  body |-> IF r.deleted THEN 0 ELSE store[r.key].body]
      OBVIOUS
    <3>2. /\ r \in rows /\ r.key \in Keys /\ r.sk \in Nat
          /\ 0 < r.sk /\ r.sk <= store[r.key].sk
          /\ r.sk = store[r.key].sk => r.deleted = store[r.key].deleted
          /\ index[r.key].sk <= r.sk
          /\ \A p \in late : p.key = r.key => p.sk <= r.sk
          /\ r.sk <= target
      BY <1>2, <2>1, ExactNumbers DEF Versions, Passing
    <3>3. o.key = r.key /\ o.sk = r.sk  BY <3>1
    <3>4. o.sk = store[r.key].sk => o = OpOf(r.key)  BY <3>1, <3>2, <3>3 DEF OpOf
    <3>5. Version(o)  BY <3>2, <3>3, <3>4 DEF Version
    <3>6. Version(o)'  BY <1>1, <3>2, <3>3, <3>5, VersionKept
    <3>. QED  BY <3>2, <3>3, <3>6
  <2>4. ASSUME NEW j \in Keys, Missing(j), store[j].sk <= target
        PROVE  OpOf(j) \in new
    <3> DEFINE r == [key |-> j, sk |-> store[j].sk, deleted |-> store[j].deleted]
    <3>1. r \in rows  BY <1>2, <2>1, <2>4 DEF Passing
    <3>2. r \in found  BY <2>4, <3>1 DEF Missing, Live
    <3>3. OpOf(j) = [key |-> r.key, sk |-> r.sk, body |-> IF r.deleted THEN 0 ELSE store[r.key].body]
      BY DEF OpOf
    <3> HIDE DEF r, found
    <3>. QED  BY <3>2, <3>3
  <2> HIDE DEF new
  <2>5. Versions'
    BY <1>1, <1>5, <1>6, <2>1, <2>2, <2>3 DEF Versions
  <2>6. Frontier'  BY <1>1, <1>2, <1>3, <2>1 DEF Frontier
  <2>7. Passing'
    <3>1. Above(current)'  BY <1>7, <2>1 DEF Above
    <3>2. \A j \in Keys : Missing(j)' /\ store'[j].sk <= target' => OpOf(j)' \in ops'
      BY <1>1, <1>3, <2>1, <2>2, <2>4
    <3>3. \A o \in ops' : o.sk <= target'  BY <2>1, <2>2, <2>3
    <3>. QED  BY <2>1, <3>1, <3>2, <3>3 DEF Passing
  <2>. QED  BY <2>5, <2>6, <2>7 DEF Orderly
<1>13. CASE WindowEnds
  <2>1. /\ UNCHANGED <<high, best, boundary, rows, ops>>
        /\ ops = {} /\ rows = {} /\ pc = "apply" /\ pc' = "window"
        /\ current' = target /\ target' = 0
    BY <1>13 DEF WindowEnds, Scopes
  <2>2. Above(target)
    BY <1>2, <2>1, ExactNumbers DEF Passing, Above
  <2>3. Versions'
    <3>1. 0 <= feed  BY ExactNumbers
    <3>. QED  BY <1>1, <1>5, <1>6, <2>1, <3>1 DEF Versions
  <2>4. Passing'
    <3>1. Above(current)'  BY <1>7, <2>1, <2>2 DEF Above
    <3>. QED  BY <2>1, <3>1 DEF Passing
  <2>. QED  BY <1>8, <2>1, <2>3, <2>4 DEF Orderly
<1>14. CASE CountStoreTotal \/ CountIndexTotal \/ Report
  <2>1. /\ ops = {} /\ rows = {} /\ ops' = {} /\ rows' = {}
        /\ pc' \in {"total", "completed", "highest", "idle"}
        /\ high' \in {high, 0} /\ best' \in {best, 0} /\ boundary' \in {boundary, 0}
        /\ current' \in {current, 0} /\ target' \in {target, 0}
    BY <1>14 DEF CountStoreTotal, CountIndexTotal, Report, Reset, Scopes
  <2>2. /\ high' <= feed /\ best' <= feed /\ boundary' <= feed /\ current' <= feed
        /\ target' <= feed
    BY <1>5, <2>1, ExactNumbers
  <2>3. Versions'  BY <1>1, <1>6, <2>1, <2>2 DEF Versions
  <2>4. Passing'  BY <2>1 DEF Passing, Windows
  <2>. QED  BY <1>8, <2>1, <2>3, <2>4 DEF Orderly
<1>. QED  BY <1>9, <1>10, <1>11, <1>12, <1>13, <1>14

(* The next operation in the order of upload has a token no higher than    *)
(* any row still missing; while rows tie, the others are yet to come.      *)
LEMMA OrderlyApply ==
  ASSUME Types, Types', Scopes, Orderly, ApplyOp
  PROVE  Orderly'
<1>1. PICK o \in ops : NextOp(o) /\ index' = Applied({o}) /\ ops' = ops \ {o}
  BY DEF ApplyOp
<1>2. /\ UNCHANGED <<store, feed, late, scratch, pc, high, best, boundary, current, target, rows>>
      /\ late = {} /\ pc = "apply" /\ rows = {} /\ ops \subseteq scratch
      /\ \A p, q \in ops : p.key = q.key => p = q
  BY DEF ApplyOp, envVars, Scopes
<1>3. Versions /\ Frontier /\ Passing  BY DEF Orderly
<1>4. o \in Op /\ o.key \in Keys /\ o.sk \in Nat /\ Version(o) /\ o.sk <= target
  BY <1>2, <1>3, ExactNumbers DEF Types, TypeOK, Versions, Passing
<1>5. ASSUME NEW k \in Keys
      PROVE  /\ Sound(k) /\ Sound(k)'
             /\ Missing(k)' => Missing(k)
             /\ Live(k)' <=> Live(k)
             /\ k # o.key => index'[k] = index[k]
             /\ OpOf(k)' = OpOf(k)
  <2> DEFINE os == {o}
  <2>1. os \in SUBSET Op /\ \A p \in os : p = o /\ Safe(p)  BY <1>4 DEF Safe
  <2>2. index' = Applied(os)  BY <1>1
  <2> HIDE DEF os
  <2>3. Sound(k)  BY <1>3 DEF Versions
  <2>4. /\ \/ Applied(os)[k] = NoDoc
           \/ 0 < Applied(os)[k].sk /\ Applied(os)[k].sk < store[k].sk
           \/ Live(k) /\ Applied(os)[k] = [sk |-> store[k].sk, body |-> store[k].body]
        /\ Live(k) /\ Current(k) => Applied(os)[k] = index[k]
        /\ \/ (~\E p \in os : p.key = k) /\ Applied(os)[k] = index[k]
           \/ \E p \in os : /\ p.key = k
                            /\ \/ p.body = 0 /\ Applied(os)[k] = NoDoc
                               \/ p.body # 0 /\ Applied(os)[k] = [sk |-> p.sk, body |-> p.body]
    BY <2>1, <2>3, SafeApplied
  <2>5. (Live(k)' <=> Live(k)) /\ OpOf(k)' = OpOf(k)  BY <1>2 DEF Live, OpOf
  <2>6. Current(k)' <=> index'[k] = IF Live(k) THEN [sk |-> store[k].sk, body |-> store[k].body] ELSE NoDoc
    BY <1>2, <2>5 DEF Current
  <2>7. Sound(k)'  BY <1>2, <2>2, <2>4, <2>5, <2>6 DEF Sound, NoDoc
  <2>8. Missing(k)' => Missing(k)
    <3>1. Live(k) /\ Current(k) => Current(k)'  BY <2>2, <2>4, <2>6 DEF Current
    <3>. QED  BY <2>5, <3>1 DEF Missing
  <2>9. k # o.key => index'[k] = index[k]  BY <2>1, <2>2, <2>4
  <2>. QED  BY <2>3, <2>5, <2>7, <2>8, <2>9
<1>6. index'[o.key] = IF o.body = 0 THEN NoDoc ELSE [sk |-> o.sk, body |-> o.body]
  BY <1>1, <1>4, AppliedOne
(* What is still missing is not what was uploaded.                         *)
<1>7. ASSUME NEW j \in Keys, Missing(j)'
      PROVE  Missing(j) /\ store[j].sk > 0 /\ o # OpOf(j)
  <2>1. Missing(j) /\ Live(j)  BY <1>5, <1>7 DEF Missing
  <2>2. ASSUME o = OpOf(j) PROVE FALSE
    <3>1. o.key = j /\ o.sk = store[j].sk /\ o.body = store[j].body /\ o.body # 0
      BY <2>1, <2>2 DEF OpOf, Live
    <3>2. index'[j] = [sk |-> store[j].sk, body |-> store[j].body]  BY <1>6, <3>1
    <3>3. Current(j)'  BY <1>2, <1>5, <2>1, <3>2 DEF Current
    <3>. QED  BY <1>7, <3>3 DEF Missing
  <2>. QED  BY <2>1, <2>2, ExactNumbers
<1>8. Versions'
  <2>1. ASSUME NEW p \in ops' PROVE Version(p)'
    <3>1. p \in ops /\ p # o /\ p.key \in Keys /\ Version(p)  BY <1>1, <1>3, ExactNumbers DEF Versions
    <3>2. p.key # o.key  BY <1>1, <1>2, <3>1
    <3>3. index'[p.key] = index[p.key] /\ OpOf(p.key)' = OpOf(p.key)  BY <1>5, <3>1, <3>2
    <3>. QED  BY <1>2, <3>1, <3>3 DEF Version
  <2>. QED  BY <1>2, <1>3, <1>5, <2>1 DEF Versions
<1>9. ASSUME NEW j \in Keys, Missing(j)', NEW i \in Keys
      PROVE  \/ index'[i].sk < store[j].sk
             \/ /\ index'[i].sk = store[j].sk
                /\ OpOf(j) \in ops'
                /\ \E p \in scratch : p.key = i /\ p.sk = store[j].sk
  <2>1. Missing(j) /\ store[j].sk > 0 /\ o # OpOf(j) /\ store[j].sk \in Nat
    BY <1>7, <1>9, ExactNumbers
  <2>2. CASE i # o.key
    <3>1. index'[i] = index[i]  BY <1>5, <2>2
    <3>2. \/ index[i].sk < store[j].sk
          \/ /\ index[i].sk = store[j].sk
             /\ OpOf(j) \in ops
             /\ \E p \in scratch : p.key = i /\ p.sk = store[j].sk
      BY <1>3, <2>1 DEF Frontier
    <3>. QED  BY <1>1, <2>1, <3>1, <3>2
  <2>3. CASE i = o.key /\ o.body = 0
    <3>1. index'[i].sk = 0  BY <1>6, <2>3 DEF NoDoc
    <3>. QED  BY <2>1, <3>1
  <2>4. CASE i = o.key /\ o.body # 0
    <3>1. index'[i].sk = o.sk  BY <1>6, <2>4
    <3>2. CASE store[j].sk <= target
      <4>1. OpOf(j) \in ops  BY <1>2, <1>3, <2>1, <3>2 DEF Passing
      <4>2. Before(o, OpOf(j))  BY <1>1, <2>1, <4>1 DEF NextOp
      <4>3. OpOf(j).body # 0 /\ OpOf(j).sk = store[j].sk  BY <2>1 DEF OpOf, Missing, Live
      <4>4. o.sk < store[j].sk \/ o.sk = store[j].sk  BY <4>2, <4>3 DEF Before
      <4>5. OpOf(j) \in ops' /\ o \in scratch  BY <1>1, <1>2, <2>1, <4>1
      <4>. QED  BY <2>4, <3>1, <4>4, <4>5
    <3>3. CASE ~(store[j].sk <= target)
      <4>1. o.sk < store[j].sk  BY <1>4, <2>1, <3>3, ExactNumbers
      <4>. QED  BY <3>1, <4>1
    <3>. QED  BY <3>2, <3>3
  <2>. QED  BY <2>2, <2>3, <2>4
<1>10. Frontier'
  <2>1. \A j \in Keys : OpOf(j)' = OpOf(j)  BY <1>5
  <2>. QED  BY <1>2, <1>9, <2>1 DEF Frontier
<1>11. Passing'
  <2>1. Above(current)'  BY <1>2, <1>3, <1>5 DEF Passing, Above, Windows
  <2>2. ASSUME NEW j \in Keys, Missing(j)', store[j].sk <= target
        PROVE  OpOf(j)' \in ops'
    <3>1. OpOf(j) \in ops /\ o # OpOf(j)  BY <1>2, <1>3, <1>7, <2>2 DEF Passing
    <3>. QED  BY <1>1, <1>5, <3>1
  <2>3. \A p \in ops' : p.sk <= target  BY <1>1, <1>2, <1>3 DEF Passing
  <2>. QED  BY <1>2, <2>1, <2>2, <2>3 DEF Passing
<1>. QED  BY <1>8, <1>10, <1>11 DEF Orderly

-------------------------------------------------------------------------------
(* Together.                                                               *)

LEMMA ScopesStep ==
  ASSUME Types, Scopes, pc \in {"project", "details"} => scratch = {}, [Next]_vars
  PROVE  Scopes'
<1>1. CASE Store
  BY <1>1, StoreStep DEF Scopes, localVars
<1>2. CASE LateTask \/ Begin \/ UNCHANGED vars
  BY <1>2 DEF LateTask, Begin, vars, envVars, localVars, Scopes
<1>3. CASE Fail
  BY <1>3 DEF Fail, Reset, Scopes
<1>4. CASE Project
  <2>1. /\ rows' = Windowed({k \in RowsAfter(current) : store[k].sk <= target})
        /\ pc' = "details" /\ ops' = {} /\ ids' = {}
    BY <1>4 DEF Project, Scopes
  <2>2. \A r, q \in rows' : r.key = q.key => r = q  BY <2>1 DEF Windowed
  <2>. QED  BY <2>1, <2>2 DEF Scopes
<1>5. CASE Details
  <2> DEFINE found == {r \in rows : r.deleted \/ store[r.key].body # 0}
             new == {[key |-> r.key, sk |-> r.sk,
                      body |-> IF r.deleted THEN 0 ELSE store[r.key].body] : r \in found}
  <2>1. /\ ops' = new /\ scratch' = new
        /\ pc' = "apply" /\ rows' = {} /\ ids' = {}
    BY <1>5 DEF Details, Scopes
  <2>2. ASSUME NEW o \in new, NEW p \in new, o.key = p.key PROVE o = p
    <3>1. PICK r \in found : o = [key |-> r.key, sk |-> r.sk,
                                  body |-> IF r.deleted THEN 0 ELSE store[r.key].body]
      OBVIOUS
    <3>2. PICK q \in found : p = [key |-> q.key, sk |-> q.sk,
                                  body |-> IF q.deleted THEN 0 ELSE store[q.key].body]
      OBVIOUS
    <3>3. r = q  BY <2>2, <3>1, <3>2 DEF Scopes
    <3>. QED  BY <3>1, <3>2, <3>3
  <2> HIDE DEF new
  <2>. QED  BY <2>1, <2>2 DEF Scopes
<1>6. CASE ApplyOp
  <2>1. /\ \E o \in ops : ops' = ops \ {o}
        /\ UNCHANGED <<scratch, pc, ids, rows>> /\ pc = "apply"
    BY <1>6 DEF ApplyOp
  <2>. QED  BY <2>1 DEF Scopes
<1>7. CASE \/ HighestSkiptoken \/ CountStorePrefix \/ CountIndexPrefix \/ SearchStore \/ SearchIndex
           \/ SearchEnds \/ ExpectedIds \/ IndexedIds \/ DeleteExtra
  BY <1>7 DEF HighestSkiptoken, CountStorePrefix, CountIndexPrefix, SearchStore, SearchIndex,
       SearchEnds, ExpectedIds, IndexedIds, DeleteExtra, Scopes
<1>8. CASE \/ NextWindow \/ ReplaceScratch \/ WindowEnds \/ CountStoreTotal \/ CountIndexTotal \/ Report
  BY <1>8 DEF NextWindow, ReplaceScratch, WindowEnds, CountStoreTotal, CountIndexTotal, Report, Reset,
       localVars, Scopes
<1>. QED  BY <1>1, <1>2, <1>3, <1>4, <1>5, <1>6, <1>7, <1>8 DEF Next, Call

(* Over a store at rest, equal counts verify a prefix, and nothing that    *)
(* the pass does then touches it.                                          *)
LEMMA VerifiedCall ==
  ASSUME Types, Types', Scopes, Orderly, Call, quiet', quiet => Verified /\ Progress
  PROVE  Verified'
<1>0. \A k \in Keys : Sound(k)  BY DEF Orderly, Versions
<1>1. CASE HighestSkiptoken
  BY <1>1 DEF HighestSkiptoken, Verified, Windows
<1>2. CASE ~HighestSkiptoken
  <2>1. Verified /\ Progress /\ UNCHANGED store  BY <1>2, CallKeeps
  <2>2. ASSUME UNCHANGED index, NEW b, PrefixExact(b)
        PROVE  \A k \in Keys : store'[k].sk <= b => Current(k)'
    BY <2>1, <2>2, KeptBy DEF PrefixExact
  <2>3. ASSUME NEW b PROVE StoreCount(b) = Cardinality({k \in Keys : Live(k)' /\ store'[k].sk <= b})
    BY <2>1 DEF StoreCount, Live
  <2>4. CASE CountStorePrefix
    <3>1. pc' = "countIndex" /\ pg' = StoreCount(high) /\ UNCHANGED high
      BY <2>4 DEF CountStorePrefix
    <3>2. StoreCount(high)' = StoreCount(high)  BY <2>3, <3>1 DEF StoreCount
    <3>. QED  BY <3>1, <3>2 DEF Verified, Windows
  <2>5. CASE CountIndexPrefix
    <3>1. pc = "countIndex" /\ UNCHANGED <<index, best>>
          /\ \/ pg = IndexCount(high) /\ boundary' = high /\ pc' = "window"
             \/ pc' = "searchStore"
      BY <2>5 DEF CountIndexPrefix
    <3>2. pg = StoreCount(high) /\ Above(high) /\ best = 0 /\ high \in Nat
      BY <2>1, <3>1, ExactNumbers DEF Verified, Orderly, Passing, Types, SearchBounds
    <3>3. CASE pc' = "window"
      <4>1. StoreCount(high) = IndexCount(high) /\ boundary' = high  BY <3>1, <3>2, <3>3
      <4>2. PrefixExact(high)  BY <1>0, <3>2, <4>1, CountExact
      <4>3. PrefixExact(boundary)'  BY <2>2, <3>1, <4>1, <4>2 DEF PrefixExact
      <4>. QED  BY <3>3, <4>3 DEF Verified, Windows
    <3>4. CASE pc' = "searchStore"
      <4>1. PrefixExact(best)  BY <1>0, <3>2, PrefixZero
      <4>2. PrefixExact(best)'  BY <2>2, <3>1, <4>1 DEF PrefixExact
      <4>. QED  BY <3>4, <4>2 DEF Verified, Windows
    <3>. QED  BY <3>1, <3>3, <3>4
  <2>6. CASE SearchStore
    <3>1. pc' = "searchIndex" /\ pc = "searchStore" /\ pg' = StoreCount(Mid)
          /\ UNCHANGED <<index, low, high, best>>
      BY <2>6 DEF SearchStore
    <3>2. Mid' = Mid  BY <3>1 DEF Mid
    <3>3. StoreCount(Mid)' = StoreCount(Mid)  BY <2>3, <3>2 DEF StoreCount
    <3>4. PrefixExact(best)'  BY <2>1, <2>2, <3>1 DEF Verified, PrefixExact
    <3>. QED  BY <3>1, <3>3, <3>4 DEF Verified, Windows
  <2>7. CASE SearchIndex
    <3>1. /\ pc = "searchIndex" /\ pc' = "searchStore" /\ UNCHANGED index
          /\ \/ pg = IndexCount(Mid) /\ best' = Mid
             \/ UNCHANGED best
      BY <2>7 DEF SearchIndex
    <3>2. pg = StoreCount(Mid) /\ PrefixExact(best) /\ Above(high) /\ low <= high
      BY <2>1, <3>1 DEF Verified, Orderly, Passing, Types, SearchBounds
    <3>3. CASE pg = IndexCount(Mid) /\ best' = Mid
      <4>1. Mid \in Nat /\ Mid <= high /\ high \in Nat  BY <3>2, MidBetween, ExactNumbers
      <4>2. Above(Mid)  BY <3>2, <4>1, AboveLess
      <4>3. PrefixExact(Mid)  BY <1>0, <3>2, <3>3, <4>1, <4>2, CountExact
      <4>4. PrefixExact(best)'  BY <2>2, <3>1, <3>3, <4>3 DEF PrefixExact
      <4>. QED  BY <3>1, <4>4 DEF Verified, Windows
    <3>4. CASE UNCHANGED best
      <4>1. PrefixExact(best)'  BY <2>2, <3>1, <3>2, <3>4 DEF PrefixExact
      <4>. QED  BY <3>1, <4>1 DEF Verified, Windows
    <3>. QED  BY <3>1, <3>3, <3>4
  <2>8. CASE SearchEnds
    <3>1. pc = "searchStore" /\ pc' = "expected" /\ boundary' = best /\ UNCHANGED index
      BY <2>8 DEF SearchEnds
    <3>2. PrefixExact(best)  BY <2>1, <3>1 DEF Verified
    <3>3. PrefixExact(boundary)'  BY <2>2, <3>1, <3>2 DEF PrefixExact
    <3>. QED  BY <3>1, <3>3 DEF Verified
  <2>9. CASE DeleteExtra
    <3>1. /\ PrefixExact(boundary) /\ UNCHANGED boundary /\ pc' = "window"
          /\ \A k \in ids : index[k].sk > boundary
      BY <2>1, <2>9 DEF DeleteExtra, Verified
    <3>2. \A k \in Keys \ ids : index'[k] = index[k]  BY <2>9, OrderlyDelete
    <3>3. ASSUME NEW k \in Keys, store[k].sk <= boundary
          PROVE  Current(k)'
      <4>1. index[k].sk <= store[k].sk  BY <1>0, SoundBelow
      <4>2. k \notin ids  BY <3>1, <3>3, <4>1, ExactNumbers
      <4>3. index'[k] = index[k] /\ Current(k)  BY <3>1, <3>2, <3>3, <4>2 DEF PrefixExact
      <4>. QED  BY <2>1, <4>3 DEF Current, Live
    <3>4. PrefixExact(boundary)'  BY <2>1, <3>1, <3>3 DEF PrefixExact
    <3>. QED  BY <3>1, <3>4 DEF Verified
  <2>10. CASE ApplyOp
    <3>1. /\ PrefixExact(boundary) /\ UNCHANGED <<boundary, pc>> /\ pc = "apply"
          /\ Pending /\ boundary <= current
      BY <2>1, <2>10 DEF ApplyOp, Verified, Progress, Windows
    <3>2. PICK o \in ops : index' = Applied({o})  BY <2>10 DEF ApplyOp
    <3>3. PICK i \in Keys : InWindow(i) /\ o = OpOf(i)  BY <3>1, <3>2 DEF Pending
    <3>4. ASSUME NEW k \in Keys, store[k].sk <= boundary
          PROVE  Current(k)'
      <4>1. k # i  BY <3>1, <3>3, <3>4, ExactNumbers DEF InWindow
      <4>2. o.key = i  BY <3>3 DEF OpOf
      <4>3. Applied({o})[k] = index[k]  BY <4>1, <4>2, AppliedOne
      <4>4. index'[k] = index[k] /\ Current(k)  BY <3>1, <3>2, <3>4, <4>3 DEF PrefixExact
      <4>. QED  BY <2>1, <4>4 DEF Current, Live
    <3>5. PrefixExact(boundary)'  BY <2>1, <3>1, <3>4 DEF PrefixExact
    <3>. QED  BY <3>1, <3>5 DEF Verified
  <2>11. CASE \/ ExpectedIds \/ IndexedIds \/ NextWindow \/ ReplaceScratch \/ Project \/ Details
              \/ WindowEnds \/ CountStoreTotal
    <3>1. /\ PrefixExact(boundary) /\ UNCHANGED <<index, boundary>>
          /\ pc' \in {"extra", "delete", "total"} \cup Windows
      BY <2>1, <2>11
      DEF ExpectedIds, IndexedIds, NextWindow, ReplaceScratch, Project, Details, WindowEnds,
          CountStoreTotal, Verified, Windows, localVars
    <3>2. pc' = "delete" => \A k \in ids' : index'[k].sk > boundary'
      BY <2>11
      DEF ExpectedIds, IndexedIds, NextWindow, ReplaceScratch, Project, Details, WindowEnds,
          CountStoreTotal
    <3>3. PrefixExact(boundary)'  BY <2>2, <3>1 DEF PrefixExact
    <3>. QED  BY <3>1, <3>2, <3>3 DEF Verified, Windows
  <2>12. CASE CountIndexTotal
    <3>1. /\ PrefixExact(boundary) /\ UNCHANGED index
          /\ \/ pc' = "completed" /\ UNCHANGED boundary
             \/ pc' = "highest"
      BY <2>1, <2>12 DEF CountIndexTotal, Verified
    <3>2. pc' = "completed" => PrefixExact(boundary)'  BY <2>2, <3>1 DEF PrefixExact
    <3>. QED  BY <3>1, <3>2 DEF Verified, Windows
  <2>13. CASE Report
    BY <2>13 DEF Report, Reset, Verified, Windows
  <2>. QED
    BY <1>2, <2>4, <2>5, <2>6, <2>7, <2>8, <2>9, <2>10, <2>11, <2>12, <2>13 DEF Call
<1>. QED  BY <1>1, <1>2

LEMMA OrderlyStep ==
  ASSUME Types, Types', Scopes, pc \in {"project", "details"} => scratch = {},
         orderly => Orderly, [Next]_vars, orderly'
  PROVE  Orderly'
<1>1. CASE StorePage
  <2>1. orderly  BY <1>1 DEF StorePage
  <2>. QED  BY <1>1, <2>1, OrderlyPage
<1>2. CASE StoreRelation \/ StoreContent
  BY <1>2 DEF StoreRelation, StoreContent
<1>3. CASE LateTask
  BY <1>3, OrderlyLate DEF LateTask, envVars
<1>4. CASE Fail
  BY <1>4, OrderlyFail
<1>5. CASE Call
  <2>1. orderly
    BY <1>5 DEF Call, CountStorePrefix, CountIndexPrefix, SearchStore, SearchIndex, HighestSkiptoken,
       SearchEnds, ExpectedIds, IndexedIds, DeleteExtra, NextWindow, ReplaceScratch, Project,
       Details, ApplyOp, WindowEnds, CountStoreTotal, CountIndexTotal, Report, envVars
  <2>. QED
    BY <1>5, <2>1, OrderlyPrefix, OrderlyDelete, OrderlyWindow, OrderlyApply DEF Call
<1>6. CASE Begin \/ UNCHANGED vars
  <2>1. /\ UNCHANGED <<store, feed, index, late, scratch, high, best, boundary, current, target,
                       ids, rows, ops>>
        /\ orderly
        /\ \/ pc = "idle" /\ pc' = "highest"
           \/ UNCHANGED pc
    BY <1>6 DEF Begin, vars, envVars, localVars
  <2>2. Versions /\ Frontier /\ Passing  BY <2>1 DEF Orderly
  <2>3. Versions'
    BY <2>1, <2>2 DEF Versions, Version, Safe, Sound, OpOf, Live, Current
  <2>4. Frontier'
    BY <2>1, <2>2 DEF Frontier, Missing, OpOf, Live, Current
  <2>5. Passing'
    BY <2>1, <2>2 DEF Passing, Above, Missing, OpOf, Live, Current, Fresh, Windows
  <2>. QED  BY <2>3, <2>4, <2>5 DEF Orderly
<1>. QED  BY <1>1, <1>2, <1>3, <1>4, <1>5, <1>6 DEF Next, Store

LEMMA ExactStep == ExactInv /\ [Next]_vars => ExactInv'
<1> SUFFICES ASSUME ExactInv, [Next]_vars PROVE ExactInv'  OBVIOUS
<1>1. /\ SuffixInv /\ Types /\ Scopes /\ (orderly => Orderly)
      /\ (pc \in {"project", "details"} => scratch = {})
      /\ (quiet => Progress) /\ (orderly /\ quiet => Verified)
  BY DEF ExactInv, SuffixInv
<1>2. SuffixInv' /\ Types'  BY <1>1, SuffixStep, TypesStep
<1>3. Scopes'  BY <1>1, ScopesStep
<1>4. orderly' => Orderly'  BY <1>1, <1>2, OrderlyStep
<1>5. orderly' /\ quiet' => Verified'
  <2> SUFFICES ASSUME orderly', quiet' PROVE Verified'  OBVIOUS
  <2>1. CASE Store \/ LateTask
    BY <1>1, <2>1, StoreStep DEF LateTask
  <2>2. CASE Begin \/ Fail
    BY <2>2 DEF Begin, Fail, Reset, Verified, Windows
  <2>3. CASE Call
    <3>1. orderly
      BY <2>3 DEF Call, CountStorePrefix, CountIndexPrefix, SearchStore, SearchIndex, HighestSkiptoken,
         SearchEnds, ExpectedIds, IndexedIds, DeleteExtra, NextWindow, ReplaceScratch, Project,
         Details, ApplyOp, WindowEnds, CountStoreTotal, CountIndexTotal, Report, envVars
    <3>. QED  BY <1>1, <1>2, <2>3, <3>1, VerifiedCall
  <2>4. CASE UNCHANGED vars
    BY <1>1, <2>4 DEF vars, Verified, PrefixExact, Current, Live, StoreCount, Mid, Windows
  <2>. QED  BY <2>1, <2>2, <2>3, <2>4 DEF Next
<1>. QED  BY <1>2, <1>3, <1>4, <1>5 DEF ExactInv

LEMMA ExactInit == Init => ExactInv
<1> SUFFICES ASSUME Init PROVE ExactInv  OBVIOUS
<1>1. SuffixInv
  BY TypesInit DEF Init, SuffixInv, Progress, Windows
<1>2. Scopes  BY DEF Init, Scopes
<1>3. \A k \in Keys : store[k] = NoRow /\ index[k] = NoDoc  BY DEF Init, CategoryInit
<1>3a. NoRow.body = 0 /\ NoRow.sk = 0  BY DEF NoRow
<1>4. \A k \in Keys : ~Live(k) /\ Sound(k) /\ store[k].sk = 0  BY <1>3, <1>3a DEF Live, Sound
<1>5. Versions  BY <1>4 DEF Init, CategoryInit, Versions
<1>6. Frontier /\ Passing  BY <1>4 DEF Init, Frontier, Passing, Missing, Windows
<1>7. Verified  BY DEF Init, Verified, Windows
<1>. QED  BY <1>1, <1>2, <1>5, <1>6, <1>7 DEF ExactInv, Orderly

(* If whatever changed in what is read of a row, the titles of what it     *)
(* refers to included, gave this row a new token of the category's own     *)
(* feed, and no upload of a window with ties was cut short, a completed    *)
(* pass over a store at rest leaves the whole index exact: counting does   *)
(* not err (find_verified_prefix, reconcile_category).                     *)
THEOREM ExactCorrect == Spec => []ExactIfOrderly
<1>1. ExactInv => ExactIfOrderly
  <2> SUFFICES ASSUME ExactInv, pc = "completed", quiet, orderly, NEW k \in Keys
               PROVE  Current(k)
    BY DEF ExactIfOrderly
  <2>1. /\ \A j \in Keys : store[j].sk > boundary \/ index[j].sk > boundary => Current(j)
        /\ PrefixExact(boundary) /\ Types
    BY DEF ExactInv, SuffixInv, Progress, Verified
  <2>2. CASE store[k].sk > boundary  BY <2>1, <2>2
  <2>3. CASE ~(store[k].sk > boundary)  BY <2>1, <2>3, ExactNumbers DEF PrefixExact
  <2>. QED  BY <2>2, <2>3
<1>. QED  BY <1>1, ExactInit, ExactStep, PTL DEF Spec
=============================================================================
