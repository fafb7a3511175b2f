------------------------- MODULE SyncFeedClientProofs -------------------------
(***************************************************************************)
(* Theorems about SyncFeedClient for any callers, permits, retries and     *)
(* delays.                                                                 *)
(***************************************************************************)
EXTENDS SyncFeedClient, FiniteSetTheorems, TLAPS

USE CallersAssumption, MaxRequestsAssumption, MaxRetriesAssumption, DelaysAssumption

(* What RetriesExact rests on: requests are sent once for each attempt, an *)
(* attempt that is followed by a rest is not the last, and only a call     *)
(* that is over has given up.                                              *)
Counted ==
  \A w \in Callers :
    /\ pc[w] \in {"acquire", "pace", "sleep"} => sent[w] = attempt[w] - 1
    /\ pc[w] \in {"request", "record", "body", "rest"} => sent[w] = attempt[w]
    /\ pc[w] = "rest" => attempt[w] <= MaxRetries
    /\ pc[w] = "out" => attempt[w] = 1
    /\ result[w] # "none" => pc[w] = "out"

IInv == TypeOK /\ PermitsInUse /\ PacedAfterTooMany /\ Counted /\ RetriesExact

LEMMA PacedType ==
  ASSUME pacing \in Nat, pacing <= MaxDelay, NEW s
  PROVE  /\ Paced(s) \in Nat /\ Paced(s) <= MaxDelay
         /\ s = "too_many" => Paced(s) >= Least(InitialDelay, MaxDelay)
         /\ s \notin {"too_many", "success"} => Paced(s) = pacing
<1>1. Slower \in Nat /\ Slower <= MaxDelay /\ Slower >= Least(InitialDelay, MaxDelay)
  BY DEF Slower, Least, Most
<1>2. pacing \div 2 \in Nat /\ pacing \div 2 <= pacing
  OBVIOUS
<1>. QED  BY <1>1, <1>2 DEF Paced

LEMMA PermitsFinite ==
  ASSUME permits \subseteq Callers
  PROVE  /\ IsFiniteSet(permits) /\ Cardinality(permits) \in Nat
         /\ \A w : /\ Cardinality(permits \ {w}) \in Nat
                   /\ Cardinality(permits \ {w}) <= Cardinality(permits)
         /\ \A w \in Callers : Cardinality(permits \cup {w}) <= Cardinality(permits) + 1
<1>1. IsFiniteSet(permits)  BY FS_Subset
<1>2. Cardinality(permits) \in Nat  BY <1>1, FS_CardinalityType
<1>3. ASSUME NEW w
      PROVE  /\ Cardinality(permits \ {w}) \in Nat
             /\ Cardinality(permits \ {w}) <= Cardinality(permits)
             /\ Cardinality(permits \cup {w}) <= Cardinality(permits) + 1
  <2>1. IsFiniteSet(permits \ {w}) /\ Cardinality(permits \ {w}) \in Nat
    BY <1>1, FS_RemoveElement, FS_CardinalityType
  <2>2. Cardinality(permits \ {w}) <= Cardinality(permits)
    BY <1>1, <1>2, FS_RemoveElement
  <2>3. Cardinality(permits \cup {w}) <= Cardinality(permits) + 1
    <3>1. Cardinality(permits \cup {w}) = IF w \in permits THEN Cardinality(permits)
                                           ELSE Cardinality(permits) + 1
      BY <1>1, FS_AddElement
    <3>. QED  BY <1>2, <3>1
  <2>. QED  BY <2>1, <2>2, <2>3
<1>. QED  BY <1>1, <1>2, <1>3

LEMMA FewerPermits ==
  ASSUME permits \subseteq Callers, Cardinality(permits) <= MaxRequests, NEW w \in Callers
  PROVE  Cardinality(permits \ {w}) <= MaxRequests
<1>1. Cardinality(permits) \in Nat /\ Cardinality(permits \ {w}) \in Nat
      /\ Cardinality(permits \ {w}) <= Cardinality(permits)
  BY PermitsFinite
<1>. QED  BY <1>1

(* A call that ends keeps all of it but the pacing.                        *)
LEMMA ReturnKeeps ==
  ASSUME IInv, NEW w \in Callers, NEW r \in {"gave_up", "ended"}, Return(w, r),
         r = "gave_up" => sent[w] = MaxRetries + 1,
         pacing' \in Nat, answer' \in [Callers -> Statuses \cup {"none"}],
         limited' \in BOOLEAN, sent' = sent
  PROVE  (TypeOK /\ PermitsInUse /\ Counted /\ RetriesExact)'
<1>. USE DEF IInv, Return
<1>1. TypeOK'
  <2>1. permits' \subseteq Callers /\ sent' \in [Callers -> Nat]
    BY DEF TypeOK
  <2>2. pc' \in [Callers -> PCs]  BY DEF TypeOK, PCs
  <2>3. attempt' \in [Callers -> 1 .. MaxRetries + 1]
    <3>1. 1 \in 1 .. MaxRetries + 1  OBVIOUS
    <3>. QED  BY <3>1 DEF TypeOK
  <2>4. rest' \in [Callers -> Nat] /\ result' \in [Callers -> Results]
    BY DEF TypeOK, Results
  <2>. QED  BY <2>1, <2>2, <2>3, <2>4 DEF TypeOK
<1>2. PermitsInUse'
  <2>1. permits' = {v \in Callers : pc'[v] \in Attempting}
    BY DEF TypeOK, PermitsInUse, Attempting
  <2>2. Cardinality(permits') <= MaxRequests
    BY FewerPermits DEF TypeOK, PermitsInUse
  <2>. QED  BY <2>1, <2>2 DEF PermitsInUse
<1>3. Counted'
  BY DEF Counted, TypeOK
<1>4. RetriesExact'
  BY DEF RetriesExact, TypeOK
<1>. QED  BY <1>1, <1>2, <1>3, <1>4

LEMMA AttemptFailsKeeps ==
  ASSUME IInv, NEW w \in Callers, AttemptFails(w), pc[w] \in {"request", "record"},
         pacing' \in Nat, answer' \in [Callers -> Statuses \cup {"none"}],
         limited' \in BOOLEAN, sent' = sent
  PROVE  (TypeOK /\ PermitsInUse /\ Counted /\ RetriesExact)'
<1>1. CASE attempt[w] > MaxRetries /\ Return(w, "gave_up")
  <2>1. sent[w] = MaxRetries + 1  BY <1>1 DEF IInv, Counted, TypeOK
  <2>. QED  BY <1>1, <2>1, ReturnKeeps
<1>2. CASE /\ attempt[w] <= MaxRetries
           /\ pc' = [pc EXCEPT ![w] = "rest"]
           /\ permits' = permits \ {w}
           /\ UNCHANGED <<attempt, rest, result>>
  <2>1. TypeOK'
    BY <1>2 DEF IInv, TypeOK, PCs
  <2>2. PermitsInUse'
    <3>1. permits' = {v \in Callers : pc'[v] \in Attempting}
      BY <1>2 DEF IInv, TypeOK, PermitsInUse, Attempting
    <3>2. Cardinality(permits') <= MaxRequests
      BY <1>2, FewerPermits DEF IInv, TypeOK, PermitsInUse
    <3>. QED  BY <3>1, <3>2 DEF PermitsInUse
  <2>3. Counted' /\ RetriesExact'
    BY <1>2 DEF IInv, Counted, RetriesExact, TypeOK
  <2>. QED  BY <2>1, <2>2, <2>3
<1>. QED  BY <1>1, <1>2 DEF AttemptFails

LEMMA InitKeeps == Init => IInv
<1>1. Cardinality({}) = 0  BY FS_EmptySet
<1>. SUFFICES ASSUME Init PROVE IInv
  OBVIOUS
<1>2. TypeOK
  <2>1. permits \subseteq Callers /\ pacing \in Nat /\ limited \in BOOLEAN  BY DEF Init
  <2>2. pc \in [Callers -> PCs]  BY DEF Init, PCs
  <2>3. attempt \in [Callers -> 1 .. MaxRetries + 1]
    <3>1. 1 \in 1 .. MaxRetries + 1  OBVIOUS
    <3>. QED  BY <3>1 DEF Init
  <2>4. rest \in [Callers -> Nat] /\ sent \in [Callers -> Nat]  BY DEF Init
  <2>5. result \in [Callers -> Results]  BY DEF Init, Results
  <2>6. answer \in [Callers -> Statuses \cup {"none"}]  BY DEF Init
  <2>. QED  BY <2>1, <2>2, <2>3, <2>4, <2>5, <2>6 DEF TypeOK
<1>3. PermitsInUse
  <2>1. {w \in Callers : pc[w] \in Attempting} = {}  BY DEF Init, Attempting
  <2>. QED  BY <1>1, <2>1 DEF Init, PermitsInUse
<1>4. PacedAfterTooMany /\ Counted /\ RetriesExact
  BY DEF Init, PacedAfterTooMany, Counted, RetriesExact
<1>. QED  BY <1>2, <1>3, <1>4 DEF IInv

LEMMA NextKeeps == IInv /\ [Next]_vars => IInv'
<1>. SUFFICES ASSUME IInv, [Next]_vars PROVE IInv'
  OBVIOUS
<1>. USE DEF IInv
<1>1. ASSUME NEW w \in Callers, Call(w) PROVE IInv'
  <2>. USE <1>1 DEF Call, Goto
  <2>1. TypeOK'  BY DEF TypeOK, PCs, Results
  <2>2. PermitsInUse'  BY DEF TypeOK, PermitsInUse, Attempting
  <2>3. PacedAfterTooMany'  BY DEF PacedAfterTooMany
  <2>4. Counted'  BY DEF Counted, TypeOK
  <2>5. RetriesExact'  BY DEF RetriesExact, TypeOK
  <2>. QED  BY <2>1, <2>2, <2>3, <2>4, <2>5
<1>2. ASSUME NEW w \in Callers, Acquire(w) PROVE IInv'
  <2>. USE <1>2 DEF Acquire, Goto
  <2>1. TypeOK'  BY DEF TypeOK, PCs
  <2>2. PermitsInUse'
    <3>1. permits' = {v \in Callers : pc'[v] \in Attempting}
      BY DEF TypeOK, PermitsInUse, Attempting
    <3>2. Cardinality(permits') <= MaxRequests
      <4>1. permits \subseteq Callers /\ Cardinality(permits) < MaxRequests
            /\ permits' = permits \cup {w}
        BY DEF TypeOK
      <4>2. Cardinality(permits') <= Cardinality(permits) + 1
            /\ Cardinality(permits') \in Nat
        <5>1. IsFiniteSet(permits) /\ IsFiniteSet(permits')
          BY <4>1, FS_Subset
        <5>2. Cardinality(permits) \in Nat /\ Cardinality(permits') \in Nat
          BY <5>1, FS_CardinalityType
        <5>. QED  BY <4>1, <5>2, PermitsFinite
      <4>. QED  BY <4>1, <4>2, PermitsFinite
    <3>. QED  BY <3>1, <3>2 DEF PermitsInUse
  <2>3. PacedAfterTooMany'  BY DEF PacedAfterTooMany
  <2>4. Counted' /\ RetriesExact'  BY DEF Counted, RetriesExact, TypeOK
  <2>. QED  BY <2>1, <2>2, <2>3, <2>4
<1>3. ASSUME NEW w \in Callers, Send(w) PROVE IInv'
  <2>. USE <1>3 DEF Send, Goto
  <2>1. TypeOK'  BY DEF TypeOK, PCs
  <2>2. PermitsInUse'  BY DEF TypeOK, PermitsInUse, Attempting
  <2>3. PacedAfterTooMany'  BY DEF PacedAfterTooMany
  <2>4. Counted'  BY DEF Counted, TypeOK
  <2>5. RetriesExact'  BY DEF Counted, RetriesExact, TypeOK
  <2>. QED  BY <2>1, <2>2, <2>3, <2>4, <2>5
<1>4. ASSUME NEW w \in Callers, Answer(w) PROVE IInv'
  <2>. USE <1>4 DEF Answer, Goto
  <2>1. TypeOK'  BY DEF TypeOK, PCs
  <2>2. PermitsInUse'  BY DEF TypeOK, PermitsInUse, Attempting
  <2>3. PacedAfterTooMany'  BY DEF PacedAfterTooMany
  <2>4. Counted' /\ RetriesExact'  BY DEF Counted, RetriesExact, TypeOK
  <2>. QED  BY <2>1, <2>2, <2>3, <2>4
<1>5. ASSUME NEW w \in Callers, SendFails(w) PROVE IInv'
  <2>1. pc[w] = "request" /\ sent' = sent /\ pacing' \in Nat /\ limited' \in BOOLEAN
        /\ answer' \in [Callers -> Statuses \cup {"none"}]
    BY <1>5 DEF SendFails, TypeOK
  <2>2. (TypeOK /\ PermitsInUse /\ Counted /\ RetriesExact)'
    BY <1>5, <2>1, AttemptFailsKeeps, ReturnKeeps DEF SendFails
  <2>3. PacedAfterTooMany'  BY <1>5 DEF SendFails, PacedAfterTooMany
  <2>. QED  BY <2>2, <2>3
<1>6. ASSUME NEW w \in Callers, Record(w) PROVE IInv'
  <2>1. pc[w] = "record" /\ sent' = sent /\ limited' \in BOOLEAN
        /\ answer' \in [Callers -> Statuses \cup {"none"}]
    BY <1>6 DEF Record, TypeOK
  <2>2. PacedAfterTooMany' /\ pacing' \in Nat
    BY <1>6, PacedType DEF Record, TypeOK, PacedAfterTooMany
  <2>3. CASE /\ pc' = [pc EXCEPT ![w] = "body"]
             /\ UNCHANGED <<permits, attempt, rest, result>>
    <3>1. TypeOK'  BY <2>1, <2>2, <2>3 DEF TypeOK, PCs
    <3>2. PermitsInUse'  BY <2>1, <2>3 DEF TypeOK, PermitsInUse, Attempting
    <3>3. Counted' /\ RetriesExact'  BY <2>1, <2>3 DEF Counted, RetriesExact, TypeOK
    <3>. QED  BY <2>2, <3>1, <3>2, <3>3
  <2>4. CASE AttemptFails(w)
    BY <2>1, <2>2, <2>4, AttemptFailsKeeps
  <2>5. CASE Return(w, "ended")
    BY <2>1, <2>2, <2>5, ReturnKeeps
  <2>. QED  BY <1>6, <2>3, <2>4, <2>5 DEF Record
<1>7. ASSUME NEW w \in Callers, Body(w) \/ Drop(w) PROVE IInv'
  <2>1. Return(w, "ended") /\ sent' = sent /\ pacing' = pacing /\ limited' = limited
        /\ answer' \in [Callers -> Statuses \cup {"none"}]
    BY <1>7 DEF Body, Drop, TypeOK
  <2>2. PacedAfterTooMany'  BY <2>1 DEF PacedAfterTooMany
  <2>3. pacing' \in Nat /\ limited' \in BOOLEAN  BY <2>1 DEF TypeOK
  <2>. QED  BY <2>1, <2>2, <2>3, ReturnKeeps
<1>8. ASSUME NEW w \in Callers, RestEnds(w) PROVE IInv'
  <2>. USE <1>8 DEF RestEnds, Goto
  <2>1. TypeOK'
    <3>1. Least(2 * rest[w], MaxDelay) \in Nat  BY DEF TypeOK, Least
    <3>2. attempt[w] + 1 \in 1 .. MaxRetries + 1  BY DEF TypeOK, Counted
    <3>. QED  BY <3>1, <3>2 DEF TypeOK, PCs
  <2>2. PermitsInUse'  BY DEF TypeOK, PermitsInUse, Attempting
  <2>3. PacedAfterTooMany'  BY DEF PacedAfterTooMany
  <2>4. Counted' /\ RetriesExact'  BY DEF Counted, RetriesExact, TypeOK
  <2>. QED  BY <2>1, <2>2, <2>3, <2>4
<1>9. CASE UNCHANGED vars
  BY <1>9 DEF vars, TypeOK, PermitsInUse, PacedAfterTooMany, Counted, RetriesExact
<1>. QED
  BY <1>1, <1>2, <1>3, <1>4, <1>5, <1>6, <1>7, <1>8, <1>9 DEF Next, Step

LEMMA Inductive == Spec => []IInv
  BY InitKeeps, NextKeeps, PTL DEF Spec

(* The types of the client's state.                                        *)
THEOREM TypeCorrect == Spec => []TypeOK
<1>1. IInv => TypeOK  BY DEF IInv
<1>. QED  BY Inductive, <1>1, PTL

(* However many workers share the client, no more than MaxRequests of them *)
(* are in an attempt, and whatever ends an attempt gives its permit back.  *)
THEOREM PermitsCorrect == Spec => []PermitsInUse
<1>1. IInv => PermitsInUse  BY DEF IInv
<1>. QED  BY Inductive, <1>1, PTL

(* From a 429 to the next success the shared pace stays at the initial     *)
(* delay or above, and it never exceeds the maximum.                       *)
THEOREM PacingCorrect == Spec => []PacedAfterTooMany
<1>1. IInv => PacedAfterTooMany  BY DEF IInv
<1>. QED  BY Inductive, <1>1, PTL

(* No call sends more than MaxRetries + 1 requests, and one that gives up  *)
(* has sent just as many.                                                  *)
THEOREM RetriesCorrect == Spec => []RetriesExact
<1>1. IInv => RetriesExact  BY DEF IInv
<1>. QED  BY Inductive, <1>1, PTL
===============================================================================
