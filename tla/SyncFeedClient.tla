---------------------------- MODULE SyncFeedClient ----------------------------
(***************************************************************************)
(* opentk-sync::syncfeed, SyncFeedClient: fetch_page for the category      *)
(* workers that share one client.  An attempt holds a permit of the shared *)
(* semaphore, waits for the shared pacing delay, sends a GET and records   *)
(* the status of its answer; between two attempts the caller rests without *)
(* a permit.  A caller may be dropped at any await (a worker is aborted, a *)
(* shutdown wins the select! around the fetch).  SyncFeed is external.     *)
(***************************************************************************)
EXTENDS Naturals, FiniteSets

CONSTANTS
  Callers,        \* the category workers
  MaxRequests,    \* max_concurrent_requests
  MaxRetries,     \* max_retries
  InitialDelay,   \* initial_retry_delay
  MaxDelay        \* max_retry_delay

ASSUME CallersAssumption == IsFiniteSet(Callers)
ASSUME MaxRequestsAssumption == MaxRequests \in Nat \ {0}   \* NonZeroUsize
ASSUME MaxRetriesAssumption == MaxRetries \in Nat
ASSUME DelaysAssumption == InitialDelay \in Nat /\ MaxDelay \in Nat

VARIABLES
  permits,        \* who holds a permit of the semaphore
  pacing,         \* AdaptiveLimiterState.pacing_delay
  pc,             \* where a caller is in fetch_page
  attempt, rest,  \* fetch_page_with_retries: attempt, delay
  answer,         \* the status, not yet recorded
  sent,           \* history: requests sent in this call
  result,         \* history: how the caller's last call ended
  limited         \* history: a 429 was recorded and no success since

vars == <<permits, pacing, pc, attempt, rest, answer, sent, result, limited>>

Statuses == {"success", "too_many", "server_error", "refused"}
Retryable == {"too_many", "server_error"}          \* should_retry_status
Results == {"none", "gave_up", "ended"}

Least(a, b) == IF a < b THEN a ELSE b
Most(a, b) == IF a < b THEN b ELSE a

Init ==
  /\ permits = {}
  /\ pacing = 0
  /\ pc = [w \in Callers |-> "out"]
  /\ attempt = [w \in Callers |-> 1]
  /\ rest = [w \in Callers |-> InitialDelay]
  /\ answer = [w \in Callers |-> "none"]
  /\ sent = [w \in Callers |-> 0]
  /\ result = [w \in Callers |-> "none"]
  /\ limited = FALSE

-------------------------------------------------------------------------------
Goto(w, from, to) == pc[w] = from /\ pc' = [pc EXCEPT ![w] = to]

(* The call ends, with a permit it holds and its local variables.          *)
Return(w, r) ==
  /\ pc' = [pc EXCEPT ![w] = "out"]
  /\ permits' = permits \ {w}
  /\ result' = [result EXCEPT ![w] = r]
  /\ attempt' = [attempt EXCEPT ![w] = 1]
  /\ rest' = [rest EXCEPT ![w] = InitialDelay]

Call(w) ==
  /\ Goto(w, "out", "acquire")
  /\ sent' = [sent EXCEPT ![w] = 0]
  /\ result' = [result EXCEPT ![w] = "none"]
  /\ UNCHANGED <<permits, pacing, attempt, rest, answer, limited>>

(* semaphore.acquire                                                       *)
Acquire(w) ==
  /\ Goto(w, "acquire", "pace")
  /\ Cardinality(permits) < MaxRequests
  /\ permits' = permits \cup {w}
  /\ UNCHANGED <<pacing, attempt, rest, answer, sent, result, limited>>

(* current_pacing_delay; the sleep, if there is one, and the GET.  The     *)
(* delay may change while the caller sleeps.                               *)
Send(w) ==
  /\ \/ pacing = 0 /\ Goto(w, "pace", "request")
     \/ pacing # 0 /\ Goto(w, "pace", "sleep")
     \/ Goto(w, "sleep", "request")
  /\ sent' = IF pc'[w] = "request" THEN [sent EXCEPT ![w] = @ + 1] ELSE sent
  /\ UNCHANGED <<permits, pacing, attempt, rest, answer, result, limited>>

Answer(w) ==
  /\ Goto(w, "request", "record")
  /\ \E s \in Statuses : answer' = [answer EXCEPT ![w] = s]
  /\ UNCHANGED <<permits, pacing, attempt, rest, sent, result, limited>>

(* Mutants of AttemptFails: the permit is held through the rest; one       *)
(* attempt too few; one too many.                                          *)
AttemptFailsKeepingPermit(w) ==
  \/ /\ attempt[w] > MaxRetries
     /\ Return(w, "gave_up")
  \/ /\ attempt[w] <= MaxRetries
     /\ pc' = [pc EXCEPT ![w] = "rest"]
     /\ UNCHANGED <<permits, attempt, rest, result>>
AttemptFailsTooEarly(w) ==
  \/ /\ attempt[w] >= MaxRetries
     /\ Return(w, "gave_up")
  \/ /\ attempt[w] < MaxRetries
     /\ pc' = [pc EXCEPT ![w] = "rest"]
     /\ permits' = permits \ {w}
     /\ UNCHANGED <<attempt, rest, result>>
AttemptFailsTooLate(w) ==
  \/ /\ attempt[w] > MaxRetries + 1
     /\ Return(w, "gave_up")
  \/ /\ attempt[w] <= MaxRetries + 1
     /\ pc' = [pc EXCEPT ![w] = "rest"]
     /\ permits' = permits \ {w}
     /\ UNCHANGED <<attempt, rest, result>>

(* An attempt that may be repeated is over.                                *)
AttemptFails(w) ==
  \/ /\ attempt[w] > MaxRetries
     /\ Return(w, "gave_up")
  \/ /\ attempt[w] <= MaxRetries
     /\ pc' = [pc EXCEPT ![w] = "rest"]
     /\ permits' = permits \ {w}
     /\ UNCHANGED <<attempt, rest, result>>

(* record_limiter_observation                                              *)
Slower == Least(Most(pacing + InitialDelay, InitialDelay), MaxDelay)

(* Mutant: whatever is not a 429 makes the pace quicker.                   *)
PacedAnyStatus(s) == IF s = "too_many" THEN Slower ELSE pacing \div 2

Paced(s) ==
  CASE s = "too_many" -> Slower
    [] s = "success" -> pacing \div 2
    [] OTHER -> pacing

Record(w) ==
  /\ pc[w] = "record"
  /\ pacing' = Paced(answer[w])
  /\ limited' = IF answer[w] = "too_many" THEN TRUE
                ELSE limited /\ answer[w] # "success"
  /\ \/ /\ answer[w] = "success"
        /\ pc' = [pc EXCEPT ![w] = "body"]
        /\ UNCHANGED <<permits, attempt, rest, result>>
     \/ answer[w] \in Retryable /\ AttemptFails(w)
     \/ answer[w] = "refused" /\ Return(w, "ended")
  /\ answer' = [answer EXCEPT ![w] = "none"]
  /\ UNCHANGED sent

(* send() times out, or the connection fails.                              *)
SendFails(w) ==
  /\ pc[w] = "request"
  /\ AttemptFails(w) \/ Return(w, "ended")
  /\ UNCHANGED <<pacing, answer, sent, limited>>

(* text(), parse_page: a page or an error, never another attempt.          *)
Body(w) ==
  /\ pc[w] = "body"
  /\ Return(w, "ended")
  /\ UNCHANGED <<pacing, answer, sent, limited>>

RestEnds(w) ==
  /\ Goto(w, "rest", "acquire")
  /\ rest' = [rest EXCEPT ![w] = Least(2 * @, MaxDelay)]
  /\ attempt' = [attempt EXCEPT ![w] = @ + 1]
  /\ UNCHANGED <<permits, pacing, answer, sent, result, limited>>

(* The future of the call is dropped.                                      *)
Drop(w) ==
  /\ pc[w] # "out"
  /\ Return(w, "ended")
  /\ answer' = [answer EXCEPT ![w] = "none"]
  /\ UNCHANGED <<pacing, sent, limited>>

Step(w) == Send(w) \/ Answer(w) \/ SendFails(w) \/ Record(w) \/ Body(w) \/ RestEnds(w)

Next == \E w \in Callers : Call(w) \/ Acquire(w) \/ Step(w) \/ Drop(w)

Spec == Init /\ [][Next]_vars

(* Timers fire and requests have a timeout; the semaphore serves its       *)
(* waiters in the order of their coming, so none waits while permits keep  *)
(* coming free.                                                            *)
Fairness == \A w \in Callers : WF_vars(Step(w)) /\ SF_vars(Acquire(w))
FairSpec == Spec /\ Fairness

-------------------------------------------------------------------------------
PCs == {"out", "acquire", "pace", "sleep", "request", "record", "body", "rest"}
Attempting == {"pace", "sleep", "request", "record", "body"}

TypeOK ==
  /\ permits \subseteq Callers
  /\ pacing \in Nat
  /\ pc \in [Callers -> PCs]
  /\ attempt \in [Callers -> 1 .. MaxRetries + 1]
  /\ rest \in [Callers -> Nat]
  /\ answer \in [Callers -> Statuses \cup {"none"}]
  /\ sent \in [Callers -> Nat]
  /\ result \in [Callers -> Results]
  /\ limited \in BOOLEAN

(* docs/syncfeed-client.md: "parallel category workers still respect the   *)
(* configured maximum".  At most MaxRequests requests are under way, and   *)
(* permits are held by attempts under way and by nothing else: none leaks  *)
(* when a caller rests, fails or is dropped.                               *)
PermitsInUse ==
  /\ permits = {w \in Callers : pc[w] \in Attempting}
  /\ Cardinality(permits) <= MaxRequests

(* "429 observations increase delay up to the configured maximum retry     *)
(* delay, and successful responses reduce it": after a 429 and until a     *)
(* success, whatever other answers come in whatever order, requests are    *)
(* paced, and never by more than the maximum.                              *)
PacedAfterTooMany ==
  /\ pacing <= MaxDelay
  /\ limited => pacing >= Least(InitialDelay, MaxDelay)

(* Statuses and timeouts share one count of attempts: a call that gives up *)
(* has sent exactly max_retries + 1 requests, and no call sends more.      *)
RetriesExact ==
  \A w \in Callers :
    /\ sent[w] <= MaxRetries + 1
    /\ result[w] = "gave_up" => sent[w] = MaxRetries + 1

(* Every call comes to an end, however busy the client is and whatever     *)
(* SyncFeed answers.                                                       *)
CallsEnd == \A w \in Callers : pc[w] # "out" ~> pc[w] = "out"
===============================================================================
