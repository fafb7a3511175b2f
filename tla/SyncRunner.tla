------------------------------ MODULE SyncRunner ------------------------------
(***************************************************************************)
(* opentk-sync::runner, CompleteSyncRunner: one worker task per category   *)
(* (run_category) under a JoinSet, a main task (run_once_with_shutdown,    *)
(* run_until_shutdown), the shutdown token, and the durable store behind   *)
(* them (opentk-db::sync_state and the transaction of sync_writer).  The   *)
(* SyncFeed and PostgreSQL are external: they may fail while `faulty`.     *)
(*                                                                         *)
(* A cursor is a position in the category's feed; the page at position p   *)
(* holds entries p+1 .. PageEnd(c, p) and links to PageEnd(c, p); it is    *)
(* empty, with a resume link to p, when nothing lies beyond p.             *)
(***************************************************************************)
EXTENDS Naturals, FiniteSets

CONSTANTS
  Categories,    \* the configured categories, one worker each
  Entities,      \* entity ids that entries can be about
  MaxFeed,       \* bound: entries upstream ever publishes in a category
  PageSize,      \* entries upstream puts on a page
  MaxAttempts,   \* TRANSIENT_FETCH_RECOVERY_MAX_ATTEMPTS
  Launches       \* ways the process is started: [mode, token] records

Modes == {"until_caught_up", "continuous"}
Phases == {"fetch", "parse", "write", "mark_caught_up"}

(* Why a worker fails.  The first four are recorded in ingest_error; a     *)
(* transient fetch error is recorded and, in continuous mode, retried.     *)
Recorded == {"fetch", "transient", "parse", "write", "mark_caught_up"}
Unrecorded == {"store", "bad_cursor", "missing_next", "missing_resume"}
PhaseOf(r) == IF r = "transient" THEN "fetch" ELSE r

ASSUME PageSizeAssumption == PageSize \in Nat \ {0}
ASSUME MaxFeedAssumption == MaxFeed \in Nat
ASSUME MaxAttemptsAssumption == MaxAttempts \in Nat \ {0}
ASSUME LaunchesAssumption == Launches \subseteq [mode : Modes, token : BOOLEAN]

VARIABLES
  (* upstream *)
  feed, published,
  faulty,        \* TRUE while services fail, the process crashes, entries appear
  (* PostgreSQL: sync_category, the entity rows, the newest ingest_error   *)
  cursor, rows,
  state,         \* sync_category.state
  openError,     \* phase of the last ingest_error newer than last_fetch_at
  orphan,        \* a COMMIT sent by a worker that is no longer there
  (* the process *)
  proc, launch,
  flag,          \* ShutdownToken.requested
  mainWoken,     \* the main task's Notified has fired
  (* its workers *)
  pc, local, page, attempts, tx, woken, reason

feedVars == <<feed, published>>
dbVars == <<cursor, rows, state, openError, orphan>>
procVars == <<proc, launch, flag, mainWoken>>
workerVars == <<pc, local, page, attempts, tx, woken, reason>>
vars == <<feed, published, faulty, cursor, rows, state, openError, orphan,
          proc, launch, flag, mainWoken,
          pc, local, page, attempts, tx, woken, reason>>

NoImage == [e \in Entities |-> 0]
NoTx == [at |-> 0, image |-> NoImage]
NoPage == [from |-> 0, to |-> 0]
NoOrphan == [from |-> 0, to |-> 0, image |-> NoImage, fresh |-> FALSE]
Pending(c) == orphan[c].to > 0

PageEnd(c, p) ==
  IF p + PageSize < published[c] THEN p + PageSize ELSE published[c]

Empty(c) == page[c].from = page[c].to
PageEntities(c, from, to) == {feed[c][i] : i \in from + 1 .. to}

Init ==
  /\ feed \in [Categories -> [1 .. MaxFeed -> Entities]]
  /\ published = [c \in Categories |-> 0]
  /\ faulty = TRUE
  /\ cursor = [c \in Categories |-> 0]
  /\ rows = [c \in Categories |-> NoImage]
  /\ state = [c \in Categories |-> "not_started"]
  /\ openError = [c \in Categories |-> "none"]
  /\ orphan = [c \in Categories |-> NoOrphan]
  /\ proc = "down"
  /\ launch \in Launches
  /\ flag = FALSE
  /\ mainWoken = FALSE
  /\ pc = [c \in Categories |-> "off"]
  /\ local = [c \in Categories |-> 0]
  /\ page = [c \in Categories |-> NoPage]
  /\ attempts = [c \in Categories |-> 1]
  /\ tx = [c \in Categories |-> NoTx]
  /\ woken = [c \in Categories |-> FALSE]
  /\ reason = [c \in Categories |-> "none"]

-------------------------------------------------------------------------------
(* run_category: steps of the worker of category c.                        *)

Goto(c, from, to) == pc[c] = from /\ pc' = [pc EXCEPT ![c] = to]

(* The error is propagated with `?` and nothing is recorded.               *)
FailUnrecorded(c, why) ==
  /\ reason' = [reason EXCEPT ![c] = why]
  /\ pc' = [pc EXCEPT ![c] = "failed"]

FailRecording(c, why) ==
  /\ reason' = [reason EXCEPT ![c] = why]
  /\ pc' = [pc EXCEPT ![c] = "record"]

(* Mutant: any stored caught_up state ends the worker, whatever the mode.  *)
LoadCursorAnyMode(c) ==
  /\ IF state[c] = "caught_up"
       THEN Goto(c, "load", "done") /\ UNCHANGED local
       ELSE Goto(c, "load", "top") /\ local' = [local EXCEPT ![c] = cursor[c]]
  /\ UNCHANGED <<feedVars, faulty, dbVars, procVars, page, attempts, tx, woken, reason>>

(* load_category_cursor and start_cursor.  An UntilCaughtUp worker whose   *)
(* category is stored as caught up returns at once.                        *)
LoadCursor(c) ==
  /\ IF launch.mode = "until_caught_up" /\ state[c] = "caught_up"
       THEN Goto(c, "load", "done") /\ UNCHANGED local
       ELSE Goto(c, "load", "top") /\ local' = [local EXCEPT ![c] = cursor[c]]
  /\ UNCHANGED <<feedVars, faulty, dbVars, procVars, page, attempts, tx, woken, reason>>

(* The read fails, or the stored cursor, if there is one to go on from,    *)
(* makes no URL for the client.                                            *)
LoadFails(c) ==
  /\ faulty
  /\ pc[c] = "load"
  /\ \/ FailUnrecorded(c, "store")
     \/ /\ state[c] # "not_started"
        /\ ~(launch.mode = "until_caught_up" /\ state[c] = "caught_up")
        /\ FailUnrecorded(c, "bad_cursor")
  /\ UNCHANGED <<feedVars, faulty, dbVars, procVars, local, page, attempts, tx, woken>>

(* Mutant: the loop head relies on the notification alone.                 *)
CheckShutdownNot(c) ==
  /\ Goto(c, "top", "arm")
  /\ UNCHANGED <<feedVars, faulty, dbVars, procVars, local, page, attempts, tx, woken, reason>>

(* The loop head: return if shutdown is requested.                         *)
CheckShutdown(c) ==
  /\ IF flag THEN Goto(c, "top", "done") ELSE Goto(c, "top", "arm")
  /\ UNCHANGED <<feedVars, faulty, dbVars, procVars, local, page, attempts, tx, woken, reason>>

(* The select! creates its Notified only now: a request made since the     *)
(* check at the loop head has notified nobody.                             *)
ArmFetch(c) ==
  /\ Goto(c, "arm", "fetch")
  /\ attempts' = [attempts EXCEPT ![c] = 1]
  /\ woken' = [woken EXCEPT ![c] = FALSE]
  /\ UNCHANGED <<feedVars, faulty, dbVars, procVars, local, page, tx, reason>>

FetchInterrupted(c) ==
  /\ woken[c]
  /\ Goto(c, "fetch", "done")
  /\ UNCHANGED <<feedVars, faulty, dbVars, procVars, local, page, attempts, tx, woken, reason>>

FetchPage(c) ==
  /\ Goto(c, "fetch", "page")
  /\ page' = [page EXCEPT ![c] = [from |-> local[c], to |-> PageEnd(c, local[c])]]
  /\ attempts' = [attempts EXCEPT ![c] = 1]
  /\ UNCHANGED <<feedVars, faulty, dbVars, procVars, local, tx, woken, reason>>

(* Mutant: one attempt too many.                                           *)
FetchTransientOffByOne(c) ==
  /\ faulty
  /\ pc[c] = "fetch"
  /\ IF attempts[c] <= MaxAttempts
       THEN attempts' = [attempts EXCEPT ![c] = @ + 1] /\ UNCHANGED <<pc, reason>>
       ELSE FailRecording(c, "transient") /\ UNCHANGED attempts
  /\ UNCHANGED <<feedVars, faulty, dbVars, procVars, local, page, tx, woken>>

(* fetch_page_with_transient_recovery: Timeout and HttpTransport errors    *)
(* are retried up to MaxAttempts times inside the same select!.            *)
FetchTransient(c) ==
  /\ faulty
  /\ pc[c] = "fetch"
  /\ IF attempts[c] < MaxAttempts
       THEN attempts' = [attempts EXCEPT ![c] = @ + 1] /\ UNCHANGED <<pc, reason>>
       ELSE FailRecording(c, "transient") /\ UNCHANGED attempts
  /\ UNCHANGED <<feedVars, faulty, dbVars, procVars, local, page, tx, woken>>

FetchFails(c) ==
  /\ faulty
  /\ pc[c] = "fetch"
  /\ FailRecording(c, "fetch")
  /\ UNCHANGED <<feedVars, faulty, dbVars, procVars, local, page, attempts, tx, woken>>

(* handle_empty_page, with `resume` present: one upsert of sync_category.  *)
(* It waits for a transaction that holds the category's row.               *)
SetCaughtUp(c) ==
  /\ ~Pending(c)
  /\ cursor' = [cursor EXCEPT ![c] = page[c].to]
  /\ state' = [state EXCEPT ![c] = "caught_up"]
  /\ openError' = [openError EXCEPT ![c] = "none"]
  /\ UNCHANGED <<rows, orphan>>

MarkCaughtUp(c) ==
  /\ Empty(c)
  /\ Goto(c, "page", IF launch.mode = "continuous" THEN "idle" ELSE "done")
  /\ SetCaughtUp(c)
  /\ local' = [local EXCEPT ![c] = page[c].to]
  /\ page' = [page EXCEPT ![c] = NoPage]
  /\ UNCHANGED <<feedVars, faulty, procVars, attempts, tx, woken, reason>>

MarkFails(c) ==
  /\ faulty
  /\ pc[c] = "page"
  /\ Empty(c)
  /\ \/ UNCHANGED dbVars
     \/ SetCaughtUp(c)             \* applied, its acknowledgement lost
  /\ FailRecording(c, "mark_caught_up")
  /\ UNCHANGED <<feedVars, faulty, procVars, local, page, attempts, tx, woken>>

MissingResume(c) ==
  /\ faulty
  /\ pc[c] = "page"
  /\ Empty(c)
  /\ FailUnrecorded(c, "missing_resume")
  /\ UNCHANGED <<feedVars, faulty, dbVars, procVars, local, page, attempts, tx, woken>>

(* The sleep after an empty page ends, by time or by notification: either  *)
(* way the loop head decides.                                              *)
IdleEnds(c) ==
  /\ Goto(c, "idle", "top")
  /\ UNCHANGED <<feedVars, faulty, dbVars, procVars, local, page, attempts, tx, woken, reason>>

(* next_cursor or latest_skiptoken finds no usable next link.              *)
MissingNext(c) ==
  /\ faulty
  /\ pc[c] = "page"
  /\ ~Empty(c)
  /\ FailUnrecorded(c, "missing_next")
  /\ UNCHANGED <<feedVars, faulty, dbVars, procVars, local, page, attempts, tx, woken>>

ParseFails(c) ==
  /\ faulty
  /\ pc[c] = "page"
  /\ ~Empty(c)
  /\ FailRecording(c, "parse")
  /\ UNCHANGED <<feedVars, faulty, dbVars, procVars, local, page, attempts, tx, woken>>

(* Mutant: a shutdown request also leaves a page that has been fetched.    *)
ParseEntitiesUnlessShutdown(c) ==
  /\ ~Empty(c)
  /\ Goto(c, "page", IF flag THEN "done" ELSE "lock")
  /\ UNCHANGED <<feedVars, faulty, dbVars, procVars, local, page, attempts, tx, woken, reason>>

ParseEntities(c) ==
  /\ ~Empty(c)
  /\ Goto(c, "page", "lock")
  /\ UNCHANGED <<feedVars, faulty, dbVars, procVars, local, page, attempts, tx, woken, reason>>

(* write_sync_page opens its transaction once the advisory locks of all    *)
(* the page's entities are free.                                           *)
BeginWrite(c) ==
  /\ PageEntities(c, page[c].from, page[c].to)
       \cap PageEntities(c, orphan[c].from, orphan[c].to) = {}
  /\ Goto(c, "lock", "write")
  /\ tx' = [tx EXCEPT ![c] = [at |-> page[c].from, image |-> NoImage]]
  /\ UNCHANGED <<feedVars, faulty, dbVars, procVars, local, page, attempts, woken, reason>>

(* One turn of the loop over page.entities.                                *)
WriteEntity(c) ==
  /\ pc[c] = "write"
  /\ tx[c].at < page[c].to
  /\ LET i == tx[c].at + 1 IN
       tx' = [tx EXCEPT ![c] =
                [at |-> i, image |-> [tx[c].image EXCEPT ![feed[c][i]] = i]]]
  /\ UNCHANGED <<feedVars, faulty, dbVars, procVars,
                 pc, local, page, attempts, woken, reason>>

(* A type mismatch, a missing value, a rejected statement: rolled back.    *)
WriteFails(c) ==
  /\ faulty
  /\ pc[c] \in {"lock", "write"}
  /\ FailRecording(c, "write")
  /\ tx' = [tx EXCEPT ![c] = NoTx]
  /\ UNCHANGED <<feedVars, faulty, dbVars, procVars, local, page, attempts, woken>>

(* Mutants: a page committed half written; no row lock on sync_category;   *)
(* the loop's cursor moved on before the write has committed.              *)
SendCommitEarly(c) ==
  /\ ~Pending(c)
  /\ Goto(c, "write", "commit")
  /\ UNCHANGED <<feedVars, faulty, dbVars, procVars, local, page, attempts, tx, woken, reason>>

SendCommitUnlocked(c) ==
  /\ tx[c].at = page[c].to
  /\ Goto(c, "write", "commit")
  /\ UNCHANGED <<feedVars, faulty, dbVars, procVars, local, page, attempts, tx, woken, reason>>

SendCommitAdvancing(c) ==
  /\ tx[c].at = page[c].to
  /\ ~Pending(c)
  /\ Goto(c, "write", "commit")
  /\ local' = [local EXCEPT ![c] = page[c].to]
  /\ UNCHANGED <<feedVars, faulty, dbVars, procVars, page, attempts, tx, woken, reason>>

(* The upsert of sync_category, which waits for the row's lock, and the    *)
(* COMMIT behind it.                                                       *)
SendCommit(c) ==
  /\ tx[c].at = page[c].to
  /\ ~Pending(c)
  /\ Goto(c, "write", "commit")
  /\ UNCHANGED <<feedVars, faulty, dbVars, procVars, local, page, attempts, tx, woken, reason>>

(* What COMMIT does in the database.  last_fetch_at is the time the write  *)
(* began, so it supersedes the errors recorded before that (fresh).        *)
Commit(c, to, image, fresh) ==
  /\ cursor' = [cursor EXCEPT ![c] = to]
  /\ rows' = [rows EXCEPT ![c] =
                [e \in Entities |-> IF image[e] # 0 THEN image[e] ELSE rows[c][e]]]
  /\ state' = [state EXCEPT ![c] = "running"]
  /\ openError' = [openError EXCEPT ![c] = IF fresh THEN "none" ELSE @]

CommitAcked(c) ==
  /\ Goto(c, "commit", "top")
  /\ Commit(c, page[c].to, tx[c].image, TRUE)
  /\ local' = [local EXCEPT ![c] = page[c].to]
  /\ page' = [page EXCEPT ![c] = NoPage]
  /\ tx' = [tx EXCEPT ![c] = NoTx]
  /\ UNCHANGED <<feedVars, faulty, procVars, orphan, attempts, woken, reason>>

OrphanOf(c) ==
  [from |-> page[c].from, to |-> page[c].to, image |-> tx[c].image, fresh |-> TRUE]

(* Mutant: the cursor is not part of the page's transaction.               *)
CommitFailsCursorOutside(c) ==
  /\ faulty
  /\ pc[c] = "commit"
  /\ cursor' = [cursor EXCEPT ![c] = page[c].to]
  /\ FailRecording(c, "write")
  /\ tx' = [tx EXCEPT ![c] = NoTx]
  /\ UNCHANGED <<feedVars, faulty, rows, state, openError, orphan, procVars,
                 local, page, attempts, woken>>

(* The connection fails: the transaction was rolled back, or its COMMIT is *)
(* still on its way and nobody waits for the answer.                       *)
CommitFails(c) ==
  /\ faulty
  /\ pc[c] = "commit"
  /\ \/ UNCHANGED orphan
     \/ orphan' = [orphan EXCEPT ![c] = OrphanOf(c)]
  /\ FailRecording(c, "write")
  /\ tx' = [tx EXCEPT ![c] = NoTx]
  /\ UNCHANGED <<feedVars, faulty, cursor, rows, state, openError, procVars,
                 local, page, attempts, woken>>

(* Mutant: the time compared with an error is that of the COMMIT.          *)
RecordErrorSuperseded(c) ==
  /\ pc[c] = "record"
  /\ openError' = [openError EXCEPT ![c] = PhaseOf(reason[c])]
  /\ IF launch.mode = "continuous" /\ reason[c] = "transient"
       THEN /\ pc' = [pc EXCEPT ![c] = "rest"]
            /\ reason' = [reason EXCEPT ![c] = "none"]
       ELSE /\ pc' = [pc EXCEPT ![c] = "failed"]
            /\ UNCHANGED reason
  /\ UNCHANGED <<feedVars, faulty, cursor, rows, state, orphan, procVars,
                 local, page, attempts, tx, woken>>

(* record_error: a row in ingest_error; then the error is returned, except *)
(* that a continuous worker rests and retries a transient fetch error.     *)
RecordError(c) ==
  /\ pc[c] = "record"
  /\ openError' = [openError EXCEPT ![c] = PhaseOf(reason[c])]
  /\ orphan' = [orphan EXCEPT ![c].fresh = FALSE]
  /\ IF launch.mode = "continuous" /\ reason[c] = "transient"
       THEN /\ pc' = [pc EXCEPT ![c] = "rest"]
            /\ reason' = [reason EXCEPT ![c] = "none"]
       ELSE /\ pc' = [pc EXCEPT ![c] = "failed"]
            /\ UNCHANGED reason
  /\ UNCHANGED <<feedVars, faulty, cursor, rows, state, procVars,
                 local, page, attempts, tx, woken>>

RecordFails(c) ==
  /\ faulty
  /\ pc[c] = "record"
  /\ FailUnrecorded(c, "store")
  /\ UNCHANGED <<feedVars, faulty, dbVars, procVars, local, page, attempts, tx, woken>>

ArmPause(c) ==
  /\ Goto(c, "rest", "pause")
  /\ woken' = [woken EXCEPT ![c] = FALSE]
  /\ UNCHANGED <<feedVars, faulty, dbVars, procVars, local, page, attempts, tx, reason>>

PauseEnds(c) ==
  /\ Goto(c, "pause", "top")
  /\ UNCHANGED <<feedVars, faulty, dbVars, procVars, local, page, attempts, tx, woken, reason>>

PauseInterrupted(c) ==
  /\ woken[c]
  /\ Goto(c, "pause", "done")
  /\ UNCHANGED <<feedVars, faulty, dbVars, procVars, local, page, attempts, tx, woken, reason>>

Worker(c) ==
  \/ LoadCursor(c) \/ LoadFails(c) \/ CheckShutdown(c) \/ ArmFetch(c)
  \/ FetchInterrupted(c) \/ FetchPage(c) \/ FetchTransient(c) \/ FetchFails(c)
  \/ MarkCaughtUp(c) \/ MarkFails(c) \/ MissingResume(c) \/ IdleEnds(c)
  \/ MissingNext(c) \/ ParseFails(c) \/ ParseEntities(c)
  \/ BeginWrite(c) \/ WriteEntity(c) \/ WriteFails(c)
  \/ SendCommit(c) \/ CommitAcked(c) \/ CommitFails(c)
  \/ RecordError(c) \/ RecordFails(c)
  \/ ArmPause(c) \/ PauseEnds(c) \/ PauseInterrupted(c)

-------------------------------------------------------------------------------
(* The main task and the process.                                          *)

(* Mutant: entities are written outside a transaction, so that an aborted  *)
(* worker leaves the first ones of its page behind.                        *)
StopWorkersUntransacted ==
  /\ rows' = [c \in Categories |-> [e \in Entities |->
                IF tx[c].image[e] # 0 THEN tx[c].image[e] ELSE rows[c][e]]]
  /\ orphan' = [c \in Categories |-> IF pc[c] = "commit" THEN OrphanOf(c) ELSE orphan[c]]
  /\ pc' = [c \in Categories |-> "off"]
  /\ tx' = [c \in Categories |-> NoTx]
  /\ reason' = [c \in Categories |-> IF pc[c] = "failed" THEN reason[c] ELSE "none"]
  /\ local' = [c \in Categories |-> 0]
  /\ page' = [c \in Categories |-> NoPage]
  /\ attempts' = [c \in Categories |-> 1]
  /\ woken' = [c \in Categories |-> FALSE]
  /\ UNCHANGED <<feedVars, faulty, cursor, state, openError>>

(* The workers are gone; a COMMIT that was under way may still arrive.     *)
(* Only workers that failed leave a reason behind.                         *)
StopWorkers ==
  /\ orphan' = [c \in Categories |-> IF pc[c] = "commit" THEN OrphanOf(c) ELSE orphan[c]]
  /\ pc' = [c \in Categories |-> "off"]
  /\ tx' = [c \in Categories |-> NoTx]
  /\ reason' = [c \in Categories |-> IF pc[c] = "failed" THEN reason[c] ELSE "none"]
  /\ local' = [c \in Categories |-> 0]
  /\ page' = [c \in Categories |-> NoPage]
  /\ attempts' = [c \in Categories |-> 1]
  /\ woken' = [c \in Categories |-> FALSE]
  /\ UNCHANGED <<feedVars, faulty, cursor, rows, state, openError>>

SpawnWorkers ==
  /\ pc' = [c \in Categories |-> "load"]
  /\ reason' = [c \in Categories |-> "none"]
  /\ UNCHANGED <<feedVars, faulty, dbVars, local, page, attempts, tx, woken>>

Start ==
  /\ proc = "down"
  /\ proc' = "up"
  /\ launch' \in Launches
  /\ flag' = FALSE
  /\ mainWoken' = FALSE
  /\ SpawnWorkers

(* join_next yields the first failed worker: `??` returns its error and    *)
(* the dropped JoinSet aborts the others wherever they are.                *)
JoinError ==
  /\ proc = "up"
  /\ \E c \in Categories : pc[c] = "failed"
  /\ proc' = "down"
  /\ StopWorkers
  /\ UNCHANGED <<launch, flag, mainWoken>>

(* Every worker has returned a report.                                     *)
CycleEnds ==
  /\ proc = "up"
  /\ \A c \in Categories : pc[c] = "done"
  /\ proc' = IF launch.token THEN "check" ELSE "down"
  /\ StopWorkers
  /\ UNCHANGED <<launch, flag, mainWoken>>

(* run_until_shutdown between two cycles: the check, the select!, the      *)
(* next cycle.                                                             *)
CheckCycle ==
  /\ proc = "check"
  /\ proc' = IF flag THEN "down" ELSE "arm"
  /\ UNCHANGED <<feedVars, faulty, dbVars, launch, flag, mainWoken, workerVars>>

ArmCycle ==
  /\ proc = "arm"
  /\ proc' = "pause"
  /\ UNCHANGED <<feedVars, faulty, dbVars, launch, flag, mainWoken, workerVars>>

CycleInterrupted ==
  /\ proc = "pause"
  /\ mainWoken
  /\ proc' = "down"
  /\ UNCHANGED <<feedVars, faulty, dbVars, launch, flag, mainWoken, workerVars>>

NextCycle ==
  /\ proc = "pause"
  /\ proc' = "up"
  /\ SpawnWorkers
  /\ UNCHANGED <<launch, flag, mainWoken>>

MainTask ==
  JoinError \/ CycleEnds \/ CheckCycle \/ ArmCycle \/ CycleInterrupted \/ NextCycle

-------------------------------------------------------------------------------
(* The environment.                                                        *)

(* ShutdownToken::request: store, then notify_waiters, which reaches only  *)
(* those that wait at this moment.                                         *)
RequestShutdown ==
  /\ faulty
  /\ proc # "down"
  /\ launch.token
  /\ ~flag
  /\ flag' = TRUE
  /\ woken' = [c \in Categories |-> pc[c] \in {"fetch", "pause"}]
  /\ mainWoken' = (proc = "pause")
  /\ UNCHANGED <<feedVars, faulty, dbVars, proc, launch,
                 pc, local, page, attempts, tx, reason>>

Crash ==
  /\ faulty
  /\ proc # "down"
  /\ proc' = "down"
  /\ StopWorkers
  /\ UNCHANGED <<launch, flag, mainWoken>>

(* The COMMIT without an owner arrives, or turns out to be lost.           *)
OrphanCommits(c) ==
  /\ Pending(c)
  /\ Commit(c, orphan[c].to, orphan[c].image, orphan[c].fresh)
  /\ orphan' = [orphan EXCEPT ![c] = NoOrphan]
  /\ UNCHANGED <<feedVars, faulty, procVars, workerVars>>

OrphanRollsBack(c) ==
  /\ Pending(c)
  /\ orphan' = [orphan EXCEPT ![c] = NoOrphan]
  /\ UNCHANGED <<feedVars, faulty, cursor, rows, state, openError, procVars, workerVars>>

Publish(c) ==
  /\ faulty
  /\ published[c] < MaxFeed
  /\ published' = [published EXCEPT ![c] = @ + 1]
  /\ UNCHANGED <<feed, faulty, dbVars, procVars, workerVars>>

(* From here on services answer, nobody stops the process, and the feed is *)
(* quiet: the premise of the liveness properties.                          *)
Stabilise ==
  /\ faulty
  /\ faulty' = FALSE
  /\ UNCHANGED <<feedVars, dbVars, procVars, workerVars>>

Next ==
  \/ \E c \in Categories :
       Worker(c) \/ OrphanCommits(c) \/ OrphanRollsBack(c) \/ Publish(c)
  \/ MainTask \/ Start \/ RequestShutdown \/ Crash \/ Stabilise

Spec == Init /\ [][Next]_vars

(* Every await of a worker returns (requests and reconnects time out), the *)
(* database resolves a pending COMMIT, and the service manager starts the  *)
(* process again (restart: unless-stopped in docker-compose.yml).          *)
Fairness ==
  /\ \A c \in Categories :
       WF_vars(Worker(c)) /\ WF_vars(OrphanCommits(c) \/ OrphanRollsBack(c))
  /\ WF_vars(MainTask)
  /\ WF_vars(Start)

FairSpec == Spec /\ Fairness

-------------------------------------------------------------------------------
(* Types.                                                                  *)

PCs == {"off", "load", "top", "arm", "fetch", "page", "lock", "write", "commit",
        "idle", "record", "rest", "pause", "done", "failed"}
Position == 0 .. MaxFeed
Image == [Entities -> Position]

(* Type correctness of the runner, its store and the feed.                 *)
TypeOK ==
  /\ feed \in [Categories -> [1 .. MaxFeed -> Entities]]
  /\ published \in [Categories -> Position]
  /\ faulty \in BOOLEAN
  /\ cursor \in [Categories -> Position]
  /\ rows \in [Categories -> Image]
  /\ state \in [Categories -> {"not_started", "running", "caught_up"}]
  /\ openError \in [Categories -> Phases \cup {"none"}]
  /\ orphan \in [Categories -> [from : Position, to : Position, image : Image, fresh : BOOLEAN]]
  /\ proc \in {"down", "up", "check", "arm", "pause"}
  /\ launch \in Launches
  /\ flag \in BOOLEAN
  /\ mainWoken \in BOOLEAN
  /\ pc \in [Categories -> PCs]
  /\ local \in [Categories -> Position]
  /\ page \in [Categories -> [from : Position, to : Position]]
  /\ attempts \in [Categories -> 1 .. MaxAttempts]
  /\ tx \in [Categories -> [at : Position, image : Image]]
  /\ woken \in [Categories -> BOOLEAN]
  /\ reason \in [Categories -> Recorded \cup Unrecorded \cup {"none"}]
  /\ \A c \in Categories : pc[c] = "record" => reason[c] \in Recorded

-------------------------------------------------------------------------------
(* Safety.                                                                 *)

Abstract == INSTANCE CategoryCursor WITH
  Categories <- Categories, Entities <- Entities, MaxFeed <- MaxFeed,
  feed <- feed, published <- published, cursor <- cursor, rows <- rows

(* Whatever workers, crashes, aborted tasks and late COMMITs do, the rows  *)
(* and the cursor behave as one object that only moves forward.  Aimed at  *)
(* "before the storage write commits, no cursor advances ... after the     *)
(* storage write commits, restart loads the advanced next_url"             *)
(* (docs/syncfeed-client.md).                                              *)
RefinesCategoryCursor == Abstract!Spec

(* The rows are the last-write-wins image of the entries before the        *)
(* durable cursor: no entry skipped, none applied from beyond it.          *)
RowsMatchCursor ==
  \A c \in Categories :
    /\ cursor[c] <= published[c]
    /\ Abstract!Reflects(feed[c], rows[c], cursor[c])

(* Image im is what writing the entries from + 1 .. to of f leaves behind. *)
IsImage(f, im, from, to) ==
  \A e \in Entities :
    /\ im[e] = 0 => \A j \in 1 .. to : from < j => f[j] # e
    /\ im[e] # 0 => /\ from < im[e] /\ im[e] <= to
                    /\ f[im[e]] = e
                    /\ \A j \in 1 .. to : im[e] < j => f[j] # e

(* Program points at which run_category holds a cursor it will fetch or    *)
(* has fetched, and those at which it holds a page.                        *)
HasPage(c) == pc[c] \in {"page", "lock", "write", "commit"}
HasCursor(c) ==
  HasPage(c) \/ pc[c] \in {"top", "arm", "fetch", "idle", "record", "rest", "pause"}

(* An open transaction holds exactly the entries written so far, and the   *)
(* one being committed the whole page: a page is stored in full or not at  *)
(* all, with the last entry about an entity winning.                       *)
TransactionHoldsPage ==
  \A c \in Categories :
    /\ pc[c] \in {"write", "commit"} =>
         /\ page[c].from <= tx[c].at /\ tx[c].at <= page[c].to
         /\ IsImage(feed[c], tx[c].image, page[c].from, tx[c].at)
    /\ pc[c] = "commit" => tx[c].at = page[c].to

(* A worker's own cursor never runs ahead of the durable one (a restart    *)
(* would skip what lies between), and the durable one, which a COMMIT of a *)
(* dead worker may have moved since, is never further than the page the    *)
(* worker is about to write: writing it cannot move the cursor back.       *)
WorkerInStep ==
  \A c \in Categories :
    /\ HasCursor(c) => local[c] <= cursor[c] /\ cursor[c] <= local[c] + PageSize
    /\ HasPage(c) => /\ page[c].from = local[c]
                     /\ cursor[c] <= page[c].to /\ page[c].to <= published[c]
                     /\ page[c].to <= local[c] + PageSize

(* A COMMIT without an owner holds a whole page that extends the durable   *)
(* cursor or leaves it, no COMMIT competes with it, and whoever has        *)
(* fetched since has seen all it holds.                                    *)
OrphanInStep ==
  \A c \in Categories : Pending(c) =>
    /\ orphan[c].from <= cursor[c] /\ cursor[c] <= orphan[c].to
    /\ orphan[c].to <= published[c] /\ orphan[c].to <= orphan[c].from + PageSize
    /\ IsImage(feed[c], orphan[c].image, orphan[c].from, orphan[c].to)
    /\ pc[c] # "commit"
    /\ HasCursor(c) => orphan[c].from <= local[c]
    /\ HasPage(c) => orphan[c].to <= page[c].to

(* Both hold, whatever COMMITs arrive late: no restart skips an entry and  *)
(* no page, its worker alive or gone, moves the durable cursor back.       *)
InStep == WorkerInStep /\ OrphanInStep

(* The inductive invariant behind the properties above.               *)
IInv == TypeOK /\ RowsMatchCursor /\ TransactionHoldsPage /\ WorkerInStep /\ OrphanInStep

(* An error that was recorded stays the category's reported state (status  *)
(* shows Error) until the process is started again, even when the failed   *)
(* page's COMMIT arrives after all: sync_state::is_superseded_error.       *)
RecordedFailureVisible ==
  \A c \in Categories :
    reason[c] \in Recorded /\ pc[c] \in {"failed", "off"}
      => openError[c] = PhaseOf(reason[c])

(* A graceful stop never drops a page that has been fetched: the worker    *)
(* leaves the write path only through a commit or through an error         *)
(* (docs/operations.md, Graceful Shutdown).                                *)
ShutdownKeepsFetchedPage ==
  [][\A c \in Categories :
       HasPage(c) /\ pc'[c] \in {"done", "top"} => cursor'[c] >= page[c].to]_vars

-------------------------------------------------------------------------------
(* What the documentation says and the code does not do.                   *)

(* runner.rs:270-272: "The runner records durable errors before returning  *)
(* whenever the storage boundary is available."                            *)
FailuresAreDurable ==
  \A c \in Categories :
    pc[c] = "failed" /\ reason[c] # "store" => openError[c] # "none"

(* docs/operations.md:47: "The runner does not abort an active SyncFeed    *)
(* page.", runner.rs:316: "finishing any active sync cycle first".         *)
ActivePageNotAborted ==
  [][\A c \in Categories : pc[c] = "fetch" => pc'[c] # "done"]_vars

-------------------------------------------------------------------------------
(* Liveness, under FairSpec.                                               *)

(* A shutdown request ends the process, although notify_waiters may reach  *)
(* nobody and although services keep failing.                              *)
ShutdownTerminates == flag ~> proc = "down"

(* Once services answer and the feed is quiet, a process that is kept      *)
(* running in continuous mode catches up every category, whatever failures *)
(* and crashes came before.                                                *)
EventuallyCaughtUp ==
  ~faulty ~> \A c \in Categories : cursor[c] = published[c] /\ state[c] = "caught_up"
===============================================================================
