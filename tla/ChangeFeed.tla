------------------------------ MODULE ChangeFeed ------------------------------
(***************************************************************************)
(* opentk-db::read_model, list_changes, and opentk-api, GET /changes: a    *)
(* client that follows one category's changes by skiptoken while pages     *)
(* assign them (CategoryRegistry).                                         *)
(***************************************************************************)
EXTENDS CategoryRegistry, FiniteSets

CONSTANT
  Limit        \* the limit the client asks for

ASSUME IdsAssumption == Ids \subseteq Nat /\ IsFiniteSet(Ids)
ASSUME LimitAssumption == Limit \in Nat \ {0}
ASSUME MaxTokenAssumption == MaxToken \in Nat

VARIABLES
  wrote,       \* wrote[i]: the page of the category i was last written by
  position,    \* the client's `after`, 0: it has not begun
  known,       \* known[i]: wrote[i] when the client was last given i
  cuts,        \* history: the positions at which an answer was cut off
  behind       \* history: got a token the client's position had passed

clientVars == <<position, known, cuts>>
feedVars == <<registry, wrote, last, position, known, cuts, behind>>

FeedInit ==
  /\ RegistryInit
  /\ wrote = [i \in Ids |-> 0]
  /\ position = 0
  /\ known = [i \in Ids |-> 0]
  /\ cuts = {}
  /\ behind = {}

(* Rows that get a token: the client, who goes on from its position, will  *)
(* come to them or has passed it.                                          *)
Pass(given, token) ==
  behind' = IF token > position THEN behind \ given ELSE behind \cup given

WritePage(written, touched, token) ==
  /\ StorePage(written, touched, token)
  /\ wrote' = [i \in Ids |-> IF i \in written THEN token ELSE wrote[i]]
  /\ Pass(Given(written, touched, token), token)
  /\ UNCHANGED clientVars

WriteElsewhere(touched, token) ==
  /\ Touch(touched, token)
  /\ Pass(Given({}, touched, token), token)
  /\ UNCHANGED <<wrote, clientVars>>

-------------------------------------------------------------------------------
(* WHERE latest_skiptoken > after ORDER BY latest_skiptoken, source_id     *)
After(p) == {i \in Ids : registry[i] > p}

(* Mutant: in the order of the rows' identity.                             *)
PrecedesById(i, j) == i < j

Precedes(i, j) == registry[i] < registry[j] \/ (registry[i] = registry[j] /\ i < j)

(* The first n of them: LIMIT n.                                           *)
First(n, p) == {i \in After(p) : Cardinality({j \in After(p) : Precedes(j, i)}) < n}

Items == First(Limit, position)
HasMore == First(Limit + 1, position) # Items

IsLast(i, items) == i \in items /\ \A j \in items : ~Precedes(i, j)

(* The client goes on from next_skiptoken or, where there is none, from    *)
(* the last item it was given; without items it stays.                     *)
Poll ==
  /\ \E i \in Ids : IsLast(i, Items) /\ position' = registry[i]
  /\ known' = [i \in Ids |-> IF i \in Items THEN wrote[i] ELSE known[i]]
  /\ cuts' = IF HasMore THEN cuts \cup {position'} ELSE cuts
  /\ behind' = behind \ Items
  /\ UNCHANGED <<registry, wrote, last>>

FeedNext ==
  \/ \E touched \in SUBSET Ids, token \in 1 .. MaxToken :
       \/ \E written \in (SUBSET Ids) \ {{}} : WritePage(written, touched, token)
       \/ WriteElsewhere(touched, token)
  \/ Poll

FeedSpec == FeedInit /\ [][FeedNext]_feedVars

-------------------------------------------------------------------------------
(* Types: positions and tokens; an answer is cut off only after an item,   *)
(* so never at position 0.                                                 *)
FeedTypeOK ==
  /\ registry \in [Ids -> 0 .. MaxToken]
  /\ wrote \in [Ids -> 0 .. MaxToken]
  /\ last \in 0 .. MaxToken
  /\ position \in 0 .. MaxToken
  /\ known \in [Ids -> 0 .. MaxToken]
  /\ cuts \subseteq 1 .. MaxToken
  /\ behind \subseteq Ids

Missed(i) == registry[i] <= position /\ known[i] # wrote[i]

(* "Change endpoints expose skiptoken so clients can resume"               *)
(* (docs/architecture.md): whatever was written with a token up to the     *)
(* client's position, the client has been given.                           *)
ResumeMissesNothing == \A i \in Ids : ~Missed(i)

(* A client loses changes in two ways only: it shares its token with rows  *)
(* of an answer that was cut off there, or its page, or a relation, wrote  *)
(* a token that the client, taken ahead by relations of other categories,  *)
(* had passed.                                                             *)
MissedOnlyTiesAndLate ==
  \A i \in Ids : Missed(i) => registry[i] \in cuts \/ i \in behind
=============================================================================
