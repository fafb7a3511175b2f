--------------------------- MODULE SyncRunnerProofs ---------------------------
(***************************************************************************)
(* Theorems about SyncRunner for every number of categories, entities,     *)
(* feed lengths, page sizes and retries.                                   *)
(***************************************************************************)
EXTENDS SyncRunner, TLAPS

USE PageSizeAssumption, MaxFeedAssumption, MaxAttemptsAssumption, LaunchesAssumption

(* PageEnd stays within the feed and within one page of its start.         *)
LEMMA PageEndBounds ==
  ASSUME TypeOK, NEW c \in Categories, NEW p \in Position
  PROVE  /\ PageEnd(c, p) \in Position
         /\ PageEnd(c, p) <= published[c]
         /\ PageEnd(c, p) <= p + PageSize
         /\ \A k \in Position : k <= published[c] /\ k <= p + PageSize => k <= PageEnd(c, p)
  BY DEF PageEnd, TypeOK, Position

OrphanType == [from : Position, to : Position, image : Image, fresh : BOOLEAN]

(* The empty values are typed.                                             *)
LEMMA EmptyTypes ==
  /\ 0 \in Position
  /\ NoImage \in Image
  /\ NoTx \in [at : Position, image : Image]
  /\ NoPage \in [from : Position, to : Position]
  /\ NoOrphan \in OrphanType
<1>1. 0 \in Position  BY DEF Position
<1>2. NoImage \in Image  BY <1>1 DEF NoImage, Image
<1>3. NoTx \in [at : Position, image : Image]  BY <1>1, <1>2 DEF NoTx
<1>4. NoPage \in [from : Position, to : Position]  BY <1>1 DEF NoPage
<1>5. NoOrphan \in OrphanType  BY <1>1, <1>2 DEF NoOrphan, OrphanType
<1>. QED  BY <1>1, <1>2, <1>3, <1>4, <1>5

LEMMA TypeInit == Init => TypeOK
<1> SUFFICES ASSUME Init PROVE TypeOK
  OBVIOUS
<1>1. /\ published \in [Categories -> Position]
      /\ cursor \in [Categories -> Position]
      /\ rows \in [Categories -> Image]
      /\ local \in [Categories -> Position]
      /\ page \in [Categories -> [from : Position, to : Position]]
      /\ tx \in [Categories -> [at : Position, image : Image]]
  BY EmptyTypes DEF Init
<1>2. orphan \in [Categories -> OrphanType]
  BY EmptyTypes DEF Init
<1>3. /\ attempts \in [Categories -> 1 .. MaxAttempts]
      /\ pc \in [Categories -> PCs]
      /\ reason \in [Categories -> Recorded \cup Unrecorded \cup {"none"}]
      /\ woken \in [Categories -> BOOLEAN]
      /\ state \in [Categories -> {"not_started", "running", "caught_up"}]
      /\ openError \in [Categories -> Phases \cup {"none"}]
  BY DEF Init, PCs
<1>. QED
  BY <1>1, <1>2, <1>3 DEF Init, TypeOK, OrphanType

(* A COMMIT of typed values leaves the database typed.                     *)
LEMMA CommitTypes ==
  ASSUME TypeOK, NEW c \in Categories, NEW to \in Position, NEW image \in Image,
         NEW fresh \in BOOLEAN, Commit(c, to, image, fresh)
  PROVE  /\ cursor' \in [Categories -> Position]
         /\ rows' \in [Categories -> Image]
         /\ state' \in [Categories -> {"not_started", "running", "caught_up"}]
         /\ openError' \in [Categories -> Phases \cup {"none"}]
<1>1. [e \in Entities |-> IF image[e] # 0 THEN image[e] ELSE rows[c][e]] \in Image
  BY DEF TypeOK, Image
<1>2. cursor' \in [Categories -> Position]  BY DEF Commit, TypeOK
<1>3. rows' \in [Categories -> Image]  BY <1>1 DEF Commit, TypeOK
<1>4. state' \in [Categories -> {"not_started", "running", "caught_up"}]
  BY DEF Commit, TypeOK
<1>5. openError' \in [Categories -> Phases \cup {"none"}]
  BY DEF Commit, TypeOK
<1>. QED  BY <1>2, <1>3, <1>4, <1>5

LEMMA TypeWorker ==
  ASSUME TypeOK, NEW c \in Categories, Worker(c)
  PROVE  TypeOK'
<1> USE DEF TypeOK, PCs, Goto, FailRecording, FailUnrecorded, Recorded, Unrecorded, Phases,
            feedVars, dbVars, procVars
<1>1. CASE LoadCursor(c)
  <2>1. CASE launch.mode = "until_caught_up" /\ state[c] = "caught_up"
    BY <1>1, <2>1 DEF LoadCursor
  <2>2. CASE ~(launch.mode = "until_caught_up" /\ state[c] = "caught_up")
    <3>1. pc[c] = "load" /\ pc' = [pc EXCEPT ![c] = "top"]
      BY <1>1, <2>2 DEF LoadCursor
    <3>2. local' = [local EXCEPT ![c] = cursor[c]]
      BY <1>1, <2>2 DEF LoadCursor
    <3>3. local' \in [Categories -> Position] /\ pc' \in [Categories -> PCs]
      BY <3>1, <3>2
    <3>. QED  BY <1>1, <3>3 DEF LoadCursor
  <2>. QED  BY <2>1, <2>2
<1>2. CASE LoadFails(c)
  <2>1. PICK why \in {"store", "bad_cursor"} : FailUnrecorded(c, why)  BY <1>2 DEF LoadFails
  <2>. QED  BY <1>2, <2>1 DEF LoadFails
<1>3. CASE CheckShutdown(c)
  <2>1. CASE flag  BY <1>3, <2>1 DEF CheckShutdown
  <2>2. CASE ~flag  BY <1>3, <2>2 DEF CheckShutdown
  <2>. QED  BY <2>1, <2>2
<1>4. CASE ArmFetch(c)  BY <1>4 DEF ArmFetch
<1>5. CASE FetchInterrupted(c)  BY <1>5 DEF FetchInterrupted
<1>6. CASE FetchPage(c)
  <2>1. PageEnd(c, local[c]) \in Position  BY PageEndBounds
  <2>. QED  BY <1>6, <2>1 DEF FetchPage
<1>7. CASE FetchTransient(c)
  <2>1. CASE attempts[c] < MaxAttempts
    <3>1. attempts[c] + 1 \in 1 .. MaxAttempts  BY <2>1
    <3>. QED  BY ZenonT(60), <1>7, <2>1, <3>1 DEF FetchTransient
  <2>2. CASE ~(attempts[c] < MaxAttempts)  BY ZenonT(60), <1>7, <2>2 DEF FetchTransient
  <2>. QED  BY <2>1, <2>2
<1>8. CASE FetchFails(c)  BY <1>8 DEF FetchFails
<1>9. CASE MarkCaughtUp(c)
  <2>1. /\ cursor' = [cursor EXCEPT ![c] = page[c].to]
        /\ local' = [local EXCEPT ![c] = page[c].to]
        /\ page' = [page EXCEPT ![c] = NoPage]
        /\ state' = [state EXCEPT ![c] = "caught_up"]
        /\ openError' = [openError EXCEPT ![c] = "none"]
        /\ pc' \in {[pc EXCEPT ![c] = "idle"], [pc EXCEPT ![c] = "done"]}
        /\ UNCHANGED <<feed, published, faulty, rows, orphan, proc, launch, flag, mainWoken,
                       attempts, tx, woken, reason>>
    BY <1>9 DEF MarkCaughtUp, SetCaughtUp
  <2>2. page' \in [Categories -> [from : Position, to : Position]]
    BY <2>1, EmptyTypes
  <2>3. cursor' \in [Categories -> Position] /\ local' \in [Categories -> Position]
    BY <2>1
  <2>4. /\ pc' \in [Categories -> PCs]
        /\ \A d \in Categories : pc'[d] = "record" => pc[d] = "record"
    BY <2>1
  <2>. QED  BY <2>1, <2>2, <2>3, <2>4
<1>10. CASE MarkFails(c)
  <2>1. CASE UNCHANGED dbVars  BY <1>10, <2>1 DEF MarkFails
  <2>2. CASE SetCaughtUp(c)  BY <1>10, <2>2 DEF MarkFails, SetCaughtUp
  <2>. QED  BY <1>10, <2>1, <2>2 DEF MarkFails
<1>11. CASE MissingResume(c)  BY <1>11 DEF MissingResume
<1>12. CASE IdleEnds(c)  BY <1>12 DEF IdleEnds
<1>13. CASE MissingNext(c)  BY <1>13 DEF MissingNext
<1>14. CASE ParseFails(c)  BY <1>14 DEF ParseFails
<1>15. CASE ParseEntities(c)  BY <1>15 DEF ParseEntities
<1>16. CASE BeginWrite(c)
  <2>1. tx' \in [Categories -> [at : Position, image : Image]]
    BY <1>16, EmptyTypes DEF BeginWrite
  <2>. QED  BY <1>16, <2>1 DEF BeginWrite
<1>17. CASE WriteEntity(c)
  <2>1. tx[c].at + 1 \in Position  BY <1>17 DEF WriteEntity, Position
  <2>2. [tx[c].image EXCEPT ![feed[c][tx[c].at + 1]] = tx[c].at + 1] \in Image
    BY <2>1 DEF Image
  <2>3. tx' \in [Categories -> [at : Position, image : Image]]
    BY <1>17, <2>1, <2>2 DEF WriteEntity
  <2>. QED  BY <1>17, <2>3 DEF WriteEntity
<1>18. CASE WriteFails(c)
  <2>1. tx' \in [Categories -> [at : Position, image : Image]]
    BY <1>18, EmptyTypes DEF WriteFails
  <2>. QED  BY <1>18, <2>1 DEF WriteFails
<1>19. CASE SendCommit(c)  BY <1>19 DEF SendCommit
<1>20. CASE CommitAcked(c)
  <2>1. Commit(c, page[c].to, tx[c].image, TRUE)  BY <1>20 DEF CommitAcked
  <2>2. /\ cursor' \in [Categories -> Position]
        /\ rows' \in [Categories -> Image]
        /\ state' \in [Categories -> {"not_started", "running", "caught_up"}]
        /\ openError' \in [Categories -> Phases \cup {"none"}]
    BY <2>1, CommitTypes
  <2>3. /\ tx' \in [Categories -> [at : Position, image : Image]]
        /\ page' \in [Categories -> [from : Position, to : Position]]
        /\ local' \in [Categories -> Position]
    BY <1>20, EmptyTypes DEF CommitAcked
  <2>4. /\ pc' = [pc EXCEPT ![c] = "top"]
        /\ UNCHANGED <<feed, published, faulty, orphan, proc, launch, flag, mainWoken,
                       attempts, woken, reason>>
    BY <1>20 DEF CommitAcked
  <2>5. pc' \in [Categories -> PCs] /\ \A d \in Categories : pc'[d] = "record" => pc[d] = "record"
    BY <2>4
  <2>. QED  BY <2>2, <2>3, <2>4, <2>5
<1>21. CASE CommitFails(c)
  <2>1. orphan' \in [Categories -> OrphanType]
    <3>1. OrphanOf(c) \in OrphanType  BY DEF OrphanOf, OrphanType
    <3>2. CASE UNCHANGED orphan  BY <3>2 DEF OrphanType
    <3>3. CASE orphan' = [orphan EXCEPT ![c] = OrphanOf(c)]
      BY <3>1, <3>3 DEF OrphanType
    <3>. QED  BY <1>21, <3>2, <3>3 DEF CommitFails
  <2>2. tx' \in [Categories -> [at : Position, image : Image]]
    BY <1>21, EmptyTypes DEF CommitFails
  <2>. QED  BY <1>21, <2>1, <2>2 DEF CommitFails, OrphanType
<1>22. CASE RecordError(c)
  <2>1. openError' \in [Categories -> Phases \cup {"none"}]
    BY <1>22 DEF RecordError, PhaseOf
  <2>2. orphan' \in [Categories -> OrphanType]
    <3>0. orphan[c] \in OrphanType  BY DEF OrphanType
    <3>1. [orphan[c] EXCEPT !.fresh = FALSE] \in OrphanType
      BY ONLY <3>0, FALSE \in BOOLEAN DEF OrphanType
    <3>2. orphan' = [orphan EXCEPT ![c] = [orphan[c] EXCEPT !.fresh = FALSE]]
      BY <1>22 DEF RecordError
    <3>. QED  BY <3>1, <3>2 DEF OrphanType
  <2>3. pc' \in [Categories -> PCs] /\ reason' \in [Categories -> Recorded \cup Unrecorded \cup {"none"}]
    <3>1. CASE launch.mode = "continuous" /\ reason[c] = "transient"
      BY <1>22, <3>1 DEF RecordError
    <3>2. CASE ~(launch.mode = "continuous" /\ reason[c] = "transient")
      BY <1>22, <3>2 DEF RecordError
    <3>. QED  BY <3>1, <3>2
  <2>4. pc'[c] # "record"  BY <1>22 DEF RecordError
  <2>5. \A d \in Categories \ {c} : pc'[d] = pc[d] /\ reason'[d] = reason[d]
    BY <1>22 DEF RecordError
  <2>6. \A d \in Categories : pc'[d] = "record" => reason'[d] \in Recorded
    BY <2>4, <2>5
  <2>7. UNCHANGED <<feed, published, faulty, cursor, rows, state, proc, launch, flag, mainWoken,
                    local, page, attempts, tx, woken>>
    BY <1>22 DEF RecordError
  <2>. QED  BY <2>1, <2>2, <2>3, <2>6, <2>7 DEF OrphanType
<1>23. CASE RecordFails(c)  BY <1>23 DEF RecordFails
<1>24. CASE ArmPause(c)  BY <1>24 DEF ArmPause
<1>25. CASE PauseEnds(c)  BY <1>25 DEF PauseEnds
<1>26. CASE PauseInterrupted(c)  BY <1>26 DEF PauseInterrupted
<1>. QED
  BY <1>1, <1>2, <1>3, <1>4, <1>5, <1>6, <1>7, <1>8, <1>9, <1>10, <1>11, <1>12, <1>13, <1>14,
     <1>15, <1>16, <1>17, <1>18, <1>19, <1>20, <1>21, <1>22, <1>23, <1>24, <1>25, <1>26
  DEF Worker

LEMMA TypeStep == TypeOK /\ [Next]_vars => TypeOK'
<1> SUFFICES ASSUME TypeOK, [Next]_vars PROVE TypeOK'
  OBVIOUS
<1> USE DEF feedVars, dbVars, procVars, workerVars
<1>1. ASSUME NEW c \in Categories, Worker(c) PROVE TypeOK'  BY <1>1, TypeWorker
<1>2. ASSUME NEW c \in Categories, OrphanCommits(c) PROVE TypeOK'
  <2>1. orphan[c] \in OrphanType  BY DEF TypeOK, OrphanType
  <2>2. Commit(c, orphan[c].to, orphan[c].image, orphan[c].fresh)
    BY <1>2 DEF OrphanCommits
  <2>3. /\ cursor' \in [Categories -> Position]
        /\ rows' \in [Categories -> Image]
        /\ state' \in [Categories -> {"not_started", "running", "caught_up"}]
        /\ openError' \in [Categories -> Phases \cup {"none"}]
    BY <2>1, <2>2, CommitTypes DEF OrphanType
  <2>4. orphan' \in [Categories -> OrphanType]
    BY <1>2, EmptyTypes DEF OrphanCommits, TypeOK, OrphanType
  <2>. QED  BY <1>2, <2>3, <2>4 DEF OrphanCommits, TypeOK, OrphanType
<1>3. ASSUME NEW c \in Categories, OrphanRollsBack(c) PROVE TypeOK'
  <2>1. orphan' \in [Categories -> OrphanType]
    BY <1>3, EmptyTypes DEF OrphanRollsBack, TypeOK, OrphanType
  <2>. QED  BY <1>3, <2>1 DEF OrphanRollsBack, TypeOK, OrphanType
<1>4. ASSUME NEW c \in Categories, Publish(c) PROVE TypeOK'
  <2>1. published[c] + 1 \in Position  BY <1>4 DEF Publish, TypeOK, Position
  <2>. QED  BY <1>4, <2>1 DEF Publish, TypeOK
<1>5. ASSUME StopWorkers, proc' \in {"down", "check"}, UNCHANGED <<launch, flag, mainWoken>>
      PROVE  TypeOK'
  BY <1>5 DEF StopWorkers, OrphanOf, NoTx, NoPage, NoImage, TypeOK, PCs, Image, Position
<1>6. ASSUME SpawnWorkers, proc' = "up", launch' \in Launches, flag' \in BOOLEAN,
             mainWoken' \in BOOLEAN
      PROVE  TypeOK'
  BY <1>6 DEF SpawnWorkers, TypeOK, PCs
<1>7. CASE MainTask
  <2>1. CASE JoinError  BY <2>1, <1>5 DEF JoinError
  <2>2. CASE CycleEnds  BY <2>2, <1>5 DEF CycleEnds
  <2>3. CASE CheckCycle  BY <2>3 DEF CheckCycle, TypeOK
  <2>4. CASE ArmCycle  BY <2>4 DEF ArmCycle, TypeOK
  <2>5. CASE CycleInterrupted  BY <2>5 DEF CycleInterrupted, TypeOK
  <2>6. CASE NextCycle  BY <2>6, <1>6 DEF NextCycle, TypeOK
  <2>. QED  BY <1>7, <2>1, <2>2, <2>3, <2>4, <2>5, <2>6 DEF MainTask
<1>8. CASE Start  BY <1>8, <1>6 DEF Start
<1>9. CASE RequestShutdown  BY <1>9 DEF RequestShutdown, TypeOK
<1>10. CASE Crash  BY <1>10, <1>5 DEF Crash
<1>11. CASE Stabilise  BY <1>11 DEF Stabilise, TypeOK
<1>12. CASE UNCHANGED vars  BY <1>12 DEF vars, TypeOK
<1>. QED
  BY <1>1, <1>2, <1>3, <1>4, <1>7, <1>8, <1>9, <1>10, <1>11, <1>12 DEF Next

(* Every reachable state of the runner, the store and the feed is typed.   *)
THEOREM TypeCorrect == Spec => []TypeOK
  BY TypeInit, TypeStep, PTL DEF Spec

-------------------------------------------------------------------------------
(* The invariant IInv, category by category.                               *)

CursorInv(c) ==
  /\ cursor[c] <= published[c]
  /\ Abstract!Reflects(feed[c], rows[c], cursor[c])

TxInv(c) ==
  /\ pc[c] \in {"write", "commit"} =>
       /\ page[c].from <= tx[c].at /\ tx[c].at <= page[c].to
       /\ IsImage(feed[c], tx[c].image, page[c].from, tx[c].at)
  /\ pc[c] = "commit" => tx[c].at = page[c].to

StepInv(c) ==
  /\ HasCursor(c) => local[c] <= cursor[c] /\ cursor[c] <= local[c] + PageSize
  /\ HasPage(c) => /\ page[c].from = local[c]
                   /\ cursor[c] <= page[c].to /\ page[c].to <= published[c]
                   /\ page[c].to <= local[c] + PageSize

OrphanInv(c) == Pending(c) =>
  /\ orphan[c].from <= cursor[c] /\ cursor[c] <= orphan[c].to
  /\ orphan[c].to <= published[c] /\ orphan[c].to <= orphan[c].from + PageSize
  /\ IsImage(feed[c], orphan[c].image, orphan[c].from, orphan[c].to)
  /\ pc[c] # "commit"
  /\ HasCursor(c) => orphan[c].from <= local[c]
  /\ HasPage(c) => orphan[c].to <= page[c].to

CatInv(c) == CursorInv(c) /\ TxInv(c) /\ StepInv(c) /\ OrphanInv(c)

LEMMA Split == IInv <=> TypeOK /\ \A c \in Categories : CatInv(c)
  BY DEF IInv, RowsMatchCursor, TransactionHoldsPage, WorkerInStep, OrphanInStep,
         CatInv, CursorInv, TxInv, StepInv, OrphanInv

(* What the conjuncts of CatInv say of one category's typed values.        *)
LEMMA Typed ==
  ASSUME TypeOK, NEW c \in Categories
  PROVE  /\ feed[c] \in [1 .. MaxFeed -> Entities]
         /\ published[c] \in Position /\ cursor[c] \in Position /\ local[c] \in Position
         /\ rows[c] \in Image
         /\ page[c] \in [from : Position, to : Position]
         /\ tx[c] \in [at : Position, image : Image]
         /\ orphan[c] \in OrphanType
  BY DEF TypeOK, OrphanType

(* Writing entry at + 1 extends the image of the entries before it.        *)
LEMMA ImageExtends ==
  ASSUME NEW f \in [1 .. MaxFeed -> Entities], NEW im \in Image,
         NEW from \in Position, NEW at \in Position, from <= at, at + 1 <= MaxFeed,
         IsImage(f, im, from, at)
  PROVE  IsImage(f, [im EXCEPT ![f[at + 1]] = at + 1], from, at + 1)
<1> DEFINE n == at + 1
           im2 == [im EXCEPT ![f[n]] = n]
<1>1. n \in 1 .. MaxFeed /\ f[n] \in Entities  BY DEF Position
<1>2. ASSUME NEW e \in Entities
      PROVE  /\ im2[e] = 0 => \A j \in 1 .. n : from < j => f[j] # e
             /\ im2[e] # 0 => /\ from < im2[e] /\ im2[e] <= n
                              /\ f[im2[e]] = e
                              /\ \A j \in 1 .. n : im2[e] < j => f[j] # e
  <2>1. CASE e = f[n]
    <3>1. im2[e] = n  BY <2>1 DEF Image
    <3>. QED  BY <3>1, <2>1 DEF Position
  <2>2. CASE e # f[n]
    <3>1. im2[e] = im[e] /\ im[e] \in Nat  BY <2>2 DEF Image, Position
    <3>2. \A j \in 1 .. n : j \in 1 .. at \/ j = n  BY DEF Position
    <3>3. /\ im[e] = 0 => \A j \in 1 .. at : from < j => f[j] # e
          /\ im[e] # 0 => /\ from < im[e] /\ im[e] <= at
                          /\ f[im[e]] = e
                          /\ \A j \in 1 .. at : im[e] < j => f[j] # e
      BY DEF IsImage
    <3>. QED  BY <3>1, <3>2, <3>3, <2>2 DEF Position
  <2>. QED  BY <2>1, <2>2
<1>. QED  BY <1>2 DEF IsImage

(* Nothing has been written when the transaction begins.                   *)
LEMMA ImageStarts ==
  ASSUME NEW f \in [1 .. MaxFeed -> Entities], NEW from \in Position
  PROVE  IsImage(f, NoImage, from, from)
  BY DEF IsImage, NoImage, Position

(* Merging the image of the entries from + 1 .. to into rows that reflect  *)
(* the first k entries, k between from and to, reflects the first to.      *)
LEMMA MergeReflects ==
  ASSUME NEW f \in [1 .. MaxFeed -> Entities], NEW r \in Image, NEW im \in Image,
         NEW from \in Position, NEW k \in Position, NEW to \in Position,
         from <= k, k <= to,
         Abstract!Reflects(f, r, k), IsImage(f, im, from, to),
         NEW m, \A e \in Entities : m[e] = IF im[e] # 0 THEN im[e] ELSE r[e]
  PROVE  Abstract!Reflects(f, m, to)
<1>1. ASSUME NEW e \in Entities
      PROVE  /\ m[e] \in 0 .. to
             /\ m[e] # 0 => f[m[e]] = e
             /\ \A j \in 1 .. to : m[e] < j => f[j] # e
  <2>1. im[e] \in Nat /\ r[e] \in Nat  BY DEF Image, Position
  <2>2. /\ r[e] \in 0 .. k
        /\ r[e] # 0 => f[r[e]] = e
        /\ \A j \in 1 .. k : r[e] < j => f[j] # e
    BY DEF Abstract!Reflects
  <2>3. /\ im[e] = 0 => \A j \in 1 .. to : from < j => f[j] # e
        /\ im[e] # 0 => /\ from < im[e] /\ im[e] <= to
                        /\ f[im[e]] = e
                        /\ \A j \in 1 .. to : im[e] < j => f[j] # e
    BY DEF IsImage
  <2>4. CASE im[e] # 0
    <3>1. m[e] = im[e]  BY <2>4
    <3>. QED  BY <3>1, <2>1, <2>3, <2>4 DEF Position
  <2>5. CASE im[e] = 0
    <3>1. m[e] = r[e]  BY <2>5
    <3>2. \A j \in 1 .. to : j \in 1 .. k \/ from < j  BY DEF Position
    <3>3. \A j \in 1 .. to : r[e] < j => f[j] # e  BY <3>2, <2>2, <2>3, <2>5
    <3>4. r[e] \in 0 .. to  BY <2>2 DEF Position
    <3>. QED  BY <3>1, <3>3, <3>4, <2>2
  <2>. QED  BY <2>4, <2>5
<1>. QED  BY <1>1 DEF Abstract!Reflects

(* A step that leaves the store, the worker's cursor and its page alone    *)
(* keeps the category's invariant, unless the worker takes up a cursor, a  *)
(* page or a transaction.  Upstream may publish meanwhile.                 *)
LEMMA Inert ==
  ASSUME TypeOK, TypeOK', NEW d \in Categories, CatInv(d),
         feed'[d] = feed[d], published[d] <= published'[d],
         cursor'[d] = cursor[d], rows'[d] = rows[d],
         orphan'[d].to = 0 \/ /\ orphan'[d].from = orphan[d].from
                              /\ orphan'[d].to = orphan[d].to
                              /\ orphan'[d].image = orphan[d].image,
         local'[d] = local[d] \/ ~HasCursor(d)',
         page'[d] = page[d] \/ ~HasPage(d)',
         HasCursor(d)' => HasCursor(d),
         HasPage(d)' => HasPage(d),
         pc'[d] \in {"write", "commit"} => pc'[d] = pc[d] /\ tx'[d] = tx[d]
  PROVE  CatInv(d)'
<1> USE DEF CatInv
<1>0. /\ published[d] \in Nat /\ published'[d] \in Nat
      /\ cursor[d] \in Nat /\ local[d] \in Nat
      /\ page[d].from \in Nat /\ page[d].to \in Nat
      /\ orphan[d].to \in Nat
  <2>1. published' \in [Categories -> Position]  BY DEF TypeOK
  <2>2. published'[d] \in Nat  BY <2>1 DEF Position
  <2>. QED  BY <2>2, Typed DEF Position, OrphanType
<1>1. CursorInv(d)'
  BY <1>0 DEF CursorInv, Abstract!Reflects
<1>2. TxInv(d)'
  <2>1. CASE pc'[d] \in {"write", "commit"}
    BY <2>1 DEF TxInv, IsImage, HasPage
  <2>2. CASE pc'[d] \notin {"write", "commit"}
    BY <2>2 DEF TxInv
  <2>. QED  BY <2>1, <2>2
<1>3. StepInv(d)'
  <2>1. CASE HasPage(d)'
    <3>1. HasCursor(d)'  BY <2>1 DEF HasCursor
    <3>2. HasCursor(d) /\ HasPage(d)  BY <2>1, <3>1
    <3>. QED  BY <1>0, <2>1, <3>1, <3>2 DEF StepInv
  <2>2. CASE ~HasPage(d)' /\ HasCursor(d)'
    BY <1>0, <2>2 DEF StepInv
  <2>3. CASE ~HasPage(d)' /\ ~HasCursor(d)'
    BY <2>3 DEF StepInv
  <2>. QED  BY <2>1, <2>2, <2>3
<1>4. OrphanInv(d)'
  <2>1. CASE orphan'[d].to = 0  BY <2>1 DEF OrphanInv, Pending
  <2>2. CASE /\ orphan'[d].from = orphan[d].from
             /\ orphan'[d].to = orphan[d].to
             /\ orphan'[d].image = orphan[d].image
    <3>0. SUFFICES ASSUME Pending(d)' PROVE OrphanInv(d)'
      BY DEF OrphanInv
    <3>1. Pending(d)  BY <2>2, <3>0 DEF Pending
    <3>2. /\ orphan'[d].from <= cursor'[d] /\ cursor'[d] <= orphan'[d].to
          /\ orphan'[d].to <= published'[d] /\ orphan'[d].to <= orphan'[d].from + PageSize
          /\ pc'[d] # "commit"
      BY <1>0, <2>2, <3>1 DEF OrphanInv
    <3>3. IsImage(feed[d], orphan[d].image, orphan[d].from, orphan[d].to)'
      BY <2>2, <3>1 DEF OrphanInv, IsImage
    <3>4. HasCursor(d)' => orphan'[d].from <= local'[d]
      BY <2>2, <3>1 DEF OrphanInv
    <3>5. HasPage(d)' => orphan'[d].to <= page'[d].to
      BY <2>2, <3>1 DEF OrphanInv
    <3>. QED  BY <3>2, <3>3, <3>4, <3>5 DEF OrphanInv
  <2>. QED  BY <2>1, <2>2
<1>. QED  BY <1>1, <1>2, <1>3, <1>4

(* A worker touches nothing of the other categories.                       *)
LEMMA WorkerFrame ==
  ASSUME TypeOK, NEW c \in Categories, NEW d \in Categories, d # c, Worker(c)
  PROVE  /\ feed' = feed /\ published' = published
         /\ cursor'[d] = cursor[d] /\ rows'[d] = rows[d] /\ orphan'[d] = orphan[d]
         /\ pc'[d] = pc[d] /\ local'[d] = local[d] /\ page'[d] = page[d] /\ tx'[d] = tx[d]
<1> USE DEF TypeOK, Goto, FailRecording, FailUnrecorded, feedVars, dbVars, procVars
<1>1. CASE LoadCursor(c) \/ LoadFails(c) \/ CheckShutdown(c) \/ ArmFetch(c)
  BY <1>1 DEF LoadCursor, LoadFails, CheckShutdown, ArmFetch
<1>2. CASE FetchInterrupted(c) \/ FetchPage(c) \/ FetchTransient(c) \/ FetchFails(c)
  BY <1>2 DEF FetchInterrupted, FetchPage, FetchTransient, FetchFails
<1>3. CASE MarkCaughtUp(c) \/ MarkFails(c) \/ MissingResume(c) \/ IdleEnds(c)
  BY <1>3 DEF MarkCaughtUp, MarkFails, MissingResume, IdleEnds, SetCaughtUp
<1>4. CASE MissingNext(c) \/ ParseFails(c) \/ ParseEntities(c)
  BY <1>4 DEF MissingNext, ParseFails, ParseEntities
<1>5. CASE BeginWrite(c) \/ WriteEntity(c) \/ WriteFails(c)
  BY <1>5 DEF BeginWrite, WriteEntity, WriteFails
<1>6. CASE SendCommit(c) \/ CommitAcked(c) \/ CommitFails(c)
  BY <1>6 DEF SendCommit, CommitAcked, CommitFails, Commit
<1>7. CASE RecordError(c) \/ RecordFails(c)
  BY <1>7 DEF RecordError, RecordFails
<1>8. CASE ArmPause(c) \/ PauseEnds(c) \/ PauseInterrupted(c)
  BY <1>8 DEF ArmPause, PauseEnds, PauseInterrupted
<1>. QED  BY <1>1, <1>2, <1>3, <1>4, <1>5, <1>6, <1>7, <1>8 DEF Worker

(* The steps of a worker that neither load, fetch nor write.               *)
QuietStep(c) ==
  \/ LoadFails(c) \/ CheckShutdown(c) \/ ArmFetch(c) \/ FetchInterrupted(c)
  \/ FetchTransient(c) \/ FetchFails(c) \/ MissingResume(c) \/ IdleEnds(c)
  \/ MissingNext(c) \/ ParseFails(c) \/ ParseEntities(c) \/ WriteFails(c)
  \/ RecordError(c) \/ RecordFails(c) \/ ArmPause(c) \/ PauseEnds(c) \/ PauseInterrupted(c)

LEMMA QuietFrame ==
  ASSUME TypeOK, NEW c \in Categories, QuietStep(c)
  PROVE  /\ feed' = feed /\ published' = published /\ cursor' = cursor /\ rows' = rows
         /\ local' = local /\ page' = page
         /\ orphan'[c].from = orphan[c].from /\ orphan'[c].to = orphan[c].to
         /\ orphan'[c].image = orphan[c].image
         /\ HasCursor(c)' => HasCursor(c)
         /\ HasPage(c)' => HasPage(c)
         /\ pc'[c] \in {"write", "commit"} => pc'[c] = pc[c] /\ tx'[c] = tx[c]
<1> USE DEF TypeOK, Goto, FailRecording, FailUnrecorded, feedVars, dbVars, procVars,
            HasCursor, HasPage
<1>1. CASE LoadFails(c) \/ CheckShutdown(c) \/ ArmFetch(c) \/ FetchInterrupted(c)
  BY <1>1 DEF LoadFails, CheckShutdown, ArmFetch, FetchInterrupted
<1>2. CASE FetchTransient(c)  BY <1>2 DEF FetchTransient
<1>3. CASE FetchFails(c) \/ MissingResume(c) \/ IdleEnds(c) \/ MissingNext(c)
  BY <1>3 DEF FetchFails, MissingResume, IdleEnds, MissingNext
<1>4. CASE ParseFails(c) \/ ParseEntities(c) \/ WriteFails(c)
  BY <1>4 DEF ParseFails, ParseEntities, WriteFails
<1>5. CASE RecordError(c)
  <2>1. orphan' = [orphan EXCEPT ![c] = [orphan[c] EXCEPT !.fresh = FALSE]]
    BY <1>5 DEF RecordError
  <2>2. orphan[c] \in OrphanType  BY DEF OrphanType
  <2>3. DEFINE o == [orphan[c] EXCEPT !.fresh = FALSE]
  <2>4. o.from = orphan[c].from /\ o.to = orphan[c].to /\ o.image = orphan[c].image
    BY ONLY <2>2 DEF OrphanType
  <2>5. orphan'[c] = o  BY <2>1
  <2>6. pc' = [pc EXCEPT ![c] = "rest"] \/ pc' = [pc EXCEPT ![c] = "failed"]
    BY <1>5 DEF RecordError
  <2>7. pc[c] = "record"  BY <1>5 DEF RecordError
  <2>8. UNCHANGED <<feed, published, cursor, rows, local, page, tx>>
    BY <1>5 DEF RecordError
  <2>. QED  BY <2>4, <2>5, <2>6, <2>7, <2>8
<1>6. CASE RecordFails(c)  BY <1>6 DEF RecordFails
<1>7. CASE ArmPause(c) \/ PauseEnds(c) \/ PauseInterrupted(c)
  BY <1>7 DEF ArmPause, PauseEnds, PauseInterrupted
<1>. QED  BY <1>1, <1>2, <1>3, <1>4, <1>5, <1>6, <1>7 DEF QuietStep

(* A cursor taken from the store is in step with it.                       *)
LEMMA LoadInv ==
  ASSUME TypeOK, TypeOK', NEW c \in Categories, CatInv(c), LoadCursor(c)
  PROVE  CatInv(c)'
<1> USE DEF LoadCursor, Goto, feedVars, dbVars
<1>1. CASE pc'[c] = "done"
  BY <1>1, Inert, Typed DEF HasCursor, HasPage, Position
<1>2. CASE pc'[c] # "done"
  <2>1. /\ pc[c] = "load" /\ pc' = [pc EXCEPT ![c] = "top"]
        /\ local' = [local EXCEPT ![c] = cursor[c]]
    BY <1>2 DEF TypeOK
  <2>2. pc'[c] = "top" /\ local'[c] = cursor[c]  BY <2>1 DEF TypeOK
  <2>3. cursor[c] \in Nat  BY Typed DEF Position
  <2>4. CursorInv(c)'  BY DEF CatInv, CursorInv, Abstract!Reflects
  <2>5. TxInv(c)'  BY <2>2 DEF TxInv
  <2>6. StepInv(c)'  BY <2>2, <2>3 DEF StepInv, HasPage, HasCursor
  <2>7. OrphanInv(c)'
    BY <2>2 DEF CatInv, OrphanInv, Pending, HasPage, HasCursor, IsImage
  <2>. QED  BY <2>4, <2>5, <2>6, <2>7 DEF CatInv
<1>. QED  BY <1>1, <1>2

(* A page fetched now reaches beyond the cursor and any pending COMMIT.    *)
LEMMA FetchInv ==
  ASSUME TypeOK, TypeOK', NEW c \in Categories, CatInv(c), FetchPage(c)
  PROVE  CatInv(c)'
<1> USE DEF FetchPage, Goto, feedVars, dbVars
<1> DEFINE end == PageEnd(c, local[c])
<1>1. /\ end \in Position /\ end <= published[c] /\ end <= local[c] + PageSize
      /\ \A k \in Position : k <= published[c] /\ k <= local[c] + PageSize => k <= end
  BY PageEndBounds, Typed
<1>2. pc[c] = "fetch" /\ pc'[c] = "page"  BY DEF TypeOK
<1>3. page'[c] = [from |-> local[c], to |-> end]  BY DEF TypeOK
<1>4. CursorInv(c)'  BY DEF CatInv, CursorInv, Abstract!Reflects
<1>5. TxInv(c)'  BY <1>2 DEF TxInv
<1>6. local[c] <= cursor[c] /\ cursor[c] <= local[c] + PageSize /\ cursor[c] <= published[c]
  BY <1>2 DEF CatInv, StepInv, CursorInv, HasCursor
<1>7. cursor[c] <= end  BY <1>1, <1>6, Typed
<1>8. StepInv(c)'  BY <1>1, <1>2, <1>3, <1>6, <1>7 DEF StepInv
<1>9. ASSUME Pending(c) PROVE orphan[c].to <= end
  <2>1. /\ orphan[c].to <= published[c] /\ orphan[c].to <= orphan[c].from + PageSize
        /\ orphan[c].from <= local[c]
    BY <1>2, <1>9 DEF CatInv, OrphanInv, HasCursor
  <2>2. orphan[c].to \in Position /\ orphan[c].from \in Position /\ local[c] \in Position
    BY Typed DEF OrphanType
  <2>3. orphan[c].to <= local[c] + PageSize  BY <2>1, <2>2 DEF Position
  <2>. QED  BY <1>1, <2>1, <2>2, <2>3
<1>10. OrphanInv(c)'
  BY <1>2, <1>3, <1>9 DEF CatInv, OrphanInv, Pending, HasPage, HasCursor, IsImage
<1>. QED  BY <1>4, <1>5, <1>8, <1>10 DEF CatInv

(* An empty page ends where the durable cursor is: storing it as the       *)
(* cursor of a caught-up category moves nothing.                           *)
LEMMA MarkKeepsCursor ==
  ASSUME TypeOK, NEW c \in Categories, CatInv(c), pc[c] = "page", Empty(c), SetCaughtUp(c)
  PROVE  cursor' = cursor /\ rows' = rows /\ orphan' = orphan /\ page[c].to = local[c]
<1>1. page[c].from = local[c] /\ cursor[c] <= page[c].to /\ local[c] <= cursor[c]
  BY DEF CatInv, StepInv, HasPage, HasCursor
<1>2. page[c].to = page[c].from  BY DEF Empty
<1>3. cursor[c] = page[c].to  BY <1>1, <1>2, Typed DEF Position
<1>. QED  BY <1>1, <1>2, <1>3 DEF SetCaughtUp, TypeOK

LEMMA MarkInv ==
  ASSUME TypeOK, TypeOK', NEW c \in Categories, CatInv(c), MarkCaughtUp(c) \/ MarkFails(c)
  PROVE  CatInv(c)'
<1>1. CASE MarkCaughtUp(c)
  <2>1. pc[c] = "page" /\ Empty(c) /\ SetCaughtUp(c)
    BY <1>1 DEF MarkCaughtUp, Goto
  <2>2. cursor' = cursor /\ rows' = rows /\ orphan' = orphan /\ page[c].to = local[c]
    BY <2>1, MarkKeepsCursor
  <2>3. pc'[c] \in {"idle", "done"} /\ local'[c] = local[c] /\ UNCHANGED feedVars
    BY <1>1, <2>2 DEF MarkCaughtUp, Goto, TypeOK
  <2>. QED  BY <2>1, <2>2, <2>3, Inert, Typed DEF HasCursor, HasPage, feedVars, Position
<1>2. CASE MarkFails(c)
  <2>1. pc[c] = "page" /\ Empty(c)  BY <1>2 DEF MarkFails
  <2>2. cursor' = cursor /\ rows' = rows /\ orphan' = orphan
    BY <1>2, <2>1, MarkKeepsCursor DEF MarkFails, dbVars
  <2>3. pc'[c] = "record" /\ UNCHANGED <<feedVars, local, page>>
    BY <1>2 DEF MarkFails, FailRecording, TypeOK
  <2>. QED  BY <2>1, <2>2, <2>3, Inert, Typed DEF HasCursor, HasPage, feedVars, Position
<1>. QED  BY <1>1, <1>2

(* The page's transaction: begun, written entry by entry, sent to commit.  *)
LEMMA WriteInv ==
  ASSUME TypeOK, TypeOK', NEW c \in Categories, CatInv(c),
         BeginWrite(c) \/ WriteEntity(c) \/ SendCommit(c)
  PROVE  CatInv(c)'
<1> USE DEF CatInv, feedVars, dbVars
<1>1. /\ UNCHANGED <<feed, published, cursor, rows, orphan, local, page>>
      /\ HasPage(c) /\ HasCursor(c) /\ HasPage(c)' /\ HasCursor(c)'
  BY DEF BeginWrite, WriteEntity, SendCommit, Goto, HasPage, HasCursor, TypeOK
<1>2. CursorInv(c)'  BY <1>1 DEF CursorInv, Abstract!Reflects
<1>3. StepInv(c)'  BY <1>1 DEF StepInv
<1>4. page[c].from = local[c] /\ page[c].to <= published[c] /\ page[c].from <= page[c].to
  BY <1>1, Typed DEF StepInv, Position
<1>5. TxInv(c)'
  <2>1. CASE BeginWrite(c)
    <3>1. pc'[c] = "write" /\ tx'[c] = [at |-> page[c].from, image |-> NoImage]
      BY <2>1 DEF BeginWrite, Goto, TypeOK
    <3>2. IsImage(feed[c], NoImage, page[c].from, page[c].from)
      BY ImageStarts, Typed
    <3>. QED  BY <1>1, <1>4, <3>1, <3>2, Typed DEF TxInv, IsImage, Position
  <2>2. CASE WriteEntity(c)
    <3> DEFINE i == tx[c].at + 1
    <3>1. /\ pc[c] = "write" /\ pc'[c] = "write" /\ tx[c].at < page[c].to
          /\ tx'[c] = [at |-> i, image |-> [tx[c].image EXCEPT ![feed[c][i]] = i]]
      BY <2>2 DEF WriteEntity, TypeOK
    <3>2. page[c].from <= tx[c].at /\ IsImage(feed[c], tx[c].image, page[c].from, tx[c].at)
      BY <3>1 DEF TxInv
    <3>3. /\ tx[c].at \in Position /\ page[c].from \in Position /\ i <= MaxFeed
          /\ page[c].from <= i /\ i <= page[c].to
      BY <3>1, <3>2, Typed DEF Position
    <3>4. IsImage(feed[c], tx'[c].image, page[c].from, i)
      BY SMTT(30), <3>1, <3>2, <3>3, ImageExtends, Typed
    <3>. QED  BY SMTT(30), <1>1, <3>1, <3>3, <3>4 DEF TxInv, IsImage
  <2>3. CASE SendCommit(c)
    <3>1. /\ pc[c] = "write" /\ pc'[c] = "commit" /\ tx' = tx /\ tx[c].at = page[c].to
      BY <2>3 DEF SendCommit, Goto, TypeOK
    <3>. QED  BY <1>1, <3>1 DEF TxInv, IsImage
  <2>. QED  BY <2>1, <2>2, <2>3
<1>6. pc'[c] = "commit" => ~Pending(c)
  BY DEF BeginWrite, WriteEntity, SendCommit, Goto, TypeOK
<1>7. OrphanInv(c)'
  <2>1. SUFFICES ASSUME Pending(c)' PROVE OrphanInv(c)'  BY DEF OrphanInv
  <2>2. Pending(c)  BY <1>1, <2>1 DEF Pending
  <2>. QED  BY <1>1, <1>6, <2>2 DEF OrphanInv, IsImage
<1>. QED  BY <1>2, <1>3, <1>5, <1>7

(* A whole page committed on top of rows in step with the cursor.          *)
LEMMA CommitKeepsCursorInv ==
  ASSUME TypeOK, TypeOK', NEW c \in Categories, CursorInv(c),
         NEW from \in Position, NEW to \in Position, NEW image \in Image, NEW fresh \in BOOLEAN,
         from <= cursor[c], cursor[c] <= to, to <= published[c],
         IsImage(feed[c], image, from, to),
         Commit(c, to, image, fresh), UNCHANGED feedVars
  PROVE  CursorInv(c)' /\ cursor'[c] = to
<1>1. cursor'[c] = to  BY DEF Commit, TypeOK
<1>2. \A e \in Entities : rows'[c][e] = IF image[e] # 0 THEN image[e] ELSE rows[c][e]
  BY DEF Commit, TypeOK
<1>3. Abstract!Reflects(feed[c], rows'[c], to)
  <2>1. feed[c] \in [1 .. MaxFeed -> Entities] /\ rows[c] \in Image /\ cursor[c] \in Position
    BY Typed
  <2>2. Abstract!Reflects(feed[c], rows[c], cursor[c])  BY DEF CursorInv
  <2>. QED  BY <1>2, <2>1, <2>2, MergeReflects
<1>4. Abstract!Reflects(feed[c], rows[c], cursor[c])'
  BY <1>1, <1>3 DEF feedVars, Abstract!Reflects
<1>. QED  BY <1>1, <1>4 DEF CursorInv, feedVars

(* What a worker about to commit holds.                                    *)
LEMMA Committing ==
  ASSUME TypeOK, NEW c \in Categories, CatInv(c), pc[c] = "commit"
  PROVE  /\ ~Pending(c)
         /\ page[c].from = local[c]
         /\ local[c] <= cursor[c] /\ cursor[c] <= page[c].to
         /\ page[c].to <= published[c] /\ page[c].to <= local[c] + PageSize
         /\ IsImage(feed[c], tx[c].image, page[c].from, page[c].to)
  BY DEF CatInv, TxInv, StepInv, OrphanInv, HasPage, HasCursor

LEMMA CommitAckedInv ==
  ASSUME TypeOK, TypeOK', NEW c \in Categories, CatInv(c), CommitAcked(c)
  PROVE  CatInv(c)'
<1>1. /\ pc[c] = "commit" /\ pc'[c] = "top" /\ local'[c] = page[c].to
      /\ orphan' = orphan /\ UNCHANGED feedVars
      /\ Commit(c, page[c].to, tx[c].image, TRUE)
  BY ZenonT(60) DEF CommitAcked, Goto, TypeOK
<1>2. CursorInv(c)' /\ cursor'[c] = page[c].to
  BY ZenonT(60), <1>1, Committing, CommitKeepsCursorInv, Typed DEF CatInv
<1>3. TxInv(c)'  BY <1>1 DEF TxInv
<1>4. StepInv(c)'  BY <1>1, <1>2, Typed DEF StepInv, HasPage, HasCursor, Position
<1>5. OrphanInv(c)'  BY <1>1, Committing DEF OrphanInv, Pending
<1>. QED  BY <1>2, <1>3, <1>4, <1>5 DEF CatInv

(* A COMMIT left without its owner holds what the worker held.             *)
LEMMA OrphanedInv ==
  ASSUME TypeOK, TypeOK', NEW c \in Categories, CatInv(c), pc[c] = "commit",
         orphan'[c] = OrphanOf(c),
         feed' = feed, published' = published, cursor' = cursor, rows' = rows,
         pc'[c] = "off" \/ (pc'[c] = "record" /\ local' = local)
  PROVE  CatInv(c)'
<1>1. CursorInv(c)'  BY DEF CatInv, CursorInv, Abstract!Reflects
<1>2. TxInv(c)'  BY DEF TxInv
<1>3. StepInv(c)'
  BY Committing DEF CatInv, StepInv, HasPage, HasCursor
<1>4. /\ orphan'[c].from = page[c].from /\ orphan'[c].to = page[c].to
      /\ orphan'[c].image = tx[c].image
  BY DEF OrphanOf
<1>5. IsImage(feed[c], orphan[c].image, orphan[c].from, orphan[c].to)'
  BY <1>4, Committing DEF IsImage
<1>6. HasCursor(c)' => local'[c] = local[c]  BY DEF HasCursor, HasPage
<1>7. ~HasPage(c)' /\ pc'[c] # "commit"  BY DEF HasPage
<1>8. orphan'[c].from <= local[c]  BY <1>4, Committing, Typed DEF Position
<1>9. /\ orphan'[c].from <= cursor[c] /\ cursor[c] <= orphan'[c].to
      /\ orphan'[c].to <= published[c] /\ orphan'[c].to <= orphan'[c].from + PageSize
  BY <1>4, Committing
<1>10. OrphanInv(c)'  BY <1>5, <1>6, <1>7, <1>8, <1>9 DEF OrphanInv
<1>. QED  BY <1>1, <1>2, <1>3, <1>10 DEF CatInv

LEMMA CommitFailsInv ==
  ASSUME TypeOK, TypeOK', NEW c \in Categories, CatInv(c), CommitFails(c)
  PROVE  CatInv(c)'
<1>1. /\ pc[c] = "commit" /\ pc'[c] = "record"
      /\ UNCHANGED <<feed, published, cursor, rows, local, page>>
  BY DEF CommitFails, FailRecording, feedVars, TypeOK
<1>2. CASE orphan' = orphan
  BY <1>1, <1>2, Inert, Typed DEF HasCursor, HasPage, Position
<1>3. CASE orphan' = [orphan EXCEPT ![c] = OrphanOf(c)]
  <2>1. orphan'[c] = OrphanOf(c)  BY <1>3 DEF TypeOK
  <2>. QED  BY <1>1, <2>1, OrphanedInv
<1>. QED  BY <1>2, <1>3 DEF CommitFails

LEMMA WorkerInv ==
  ASSUME TypeOK, TypeOK', NEW c \in Categories, NEW d \in Categories, CatInv(d), Worker(c)
  PROVE  CatInv(d)'
<1>1. CASE d # c
  <2>1. /\ feed' = feed /\ published' = published
        /\ cursor'[d] = cursor[d] /\ rows'[d] = rows[d] /\ orphan'[d] = orphan[d]
        /\ pc'[d] = pc[d] /\ local'[d] = local[d] /\ page'[d] = page[d] /\ tx'[d] = tx[d]
    BY <1>1, WorkerFrame
  <2>. QED  BY SMTT(30), <2>1, Inert, Typed DEF HasCursor, HasPage, Position
<1>2. CASE d = c
  <2>1. CASE QuietStep(c)
    BY <1>2, <2>1, QuietFrame, Inert, Typed DEF Position
  <2>2. CASE LoadCursor(c)  BY <1>2, <2>2, LoadInv
  <2>3. CASE FetchPage(c)  BY <1>2, <2>3, FetchInv
  <2>4. CASE MarkCaughtUp(c) \/ MarkFails(c)  BY <1>2, <2>4, MarkInv
  <2>5. CASE BeginWrite(c) \/ WriteEntity(c) \/ SendCommit(c)  BY <1>2, <2>5, WriteInv
  <2>6. CASE CommitAcked(c)  BY <1>2, <2>6, CommitAckedInv
  <2>7. CASE CommitFails(c)  BY <1>2, <2>7, CommitFailsInv
  <2>. QED  BY <2>1, <2>2, <2>3, <2>4, <2>5, <2>6, <2>7 DEF Worker, QuietStep
<1>. QED  BY <1>1, <1>2

(* Workers that are aborted wherever they stand.                           *)
LEMMA StopInv ==
  ASSUME TypeOK, TypeOK', NEW c \in Categories, CatInv(c), StopWorkers
  PROVE  CatInv(c)'
<1>1. /\ UNCHANGED <<feed, published, cursor, rows>> /\ pc'[c] = "off"
      /\ orphan'[c] = IF pc[c] = "commit" THEN OrphanOf(c) ELSE orphan[c]
  BY DEF StopWorkers, feedVars
<1>2. CASE pc[c] = "commit"
  <2>1. orphan'[c] = OrphanOf(c)  BY <1>1, <1>2
  <2>. QED  BY <1>1, <1>2, <2>1, OrphanedInv
<1>3. CASE pc[c] # "commit"
  BY <1>1, <1>3, Inert, Typed DEF HasCursor, HasPage, Position
<1>. QED  BY <1>2, <1>3

LEMMA SpawnInv ==
  ASSUME TypeOK, TypeOK', NEW d \in Categories, CatInv(d), SpawnWorkers
  PROVE  CatInv(d)'
<1>1. /\ UNCHANGED <<feed, published, cursor, rows, orphan, local, page, tx>>
      /\ pc'[d] = "load"
  BY DEF SpawnWorkers, feedVars, dbVars
<1>. QED  BY <1>1, Inert, Typed DEF HasCursor, HasPage, Position

(* A COMMIT that arrives after its owner has gone.                         *)
LEMMA OrphanCommitsInv ==
  ASSUME TypeOK, TypeOK', NEW c \in Categories, CatInv(c), OrphanCommits(c)
  PROVE  CatInv(c)'
<1> USE DEF CatInv
<1>1. /\ Pending(c) /\ ~Pending(c)'
      /\ Commit(c, orphan[c].to, orphan[c].image, orphan[c].fresh)
      /\ UNCHANGED <<feedVars, workerVars>>
  BY DEF OrphanCommits, Pending, NoOrphan, TypeOK
<1>2. /\ orphan[c].from <= cursor[c] /\ cursor[c] <= orphan[c].to
      /\ orphan[c].to <= published[c] /\ orphan[c].to <= orphan[c].from + PageSize
      /\ IsImage(feed[c], orphan[c].image, orphan[c].from, orphan[c].to)
      /\ HasCursor(c) => orphan[c].from <= local[c]
      /\ HasPage(c) => orphan[c].to <= page[c].to
  BY <1>1 DEF OrphanInv
<1>3. CursorInv(c)' /\ cursor'[c] = orphan[c].to
  BY <1>1, <1>2, CommitKeepsCursorInv, Typed DEF OrphanType
<1>4. TxInv(c)'  BY <1>1 DEF TxInv, IsImage, feedVars, workerVars
<1>5. UNCHANGED <<HasCursor(c), HasPage(c), local, page, published>>
  BY <1>1 DEF HasCursor, HasPage, feedVars, workerVars
<1>6. StepInv(c)'
  BY <1>2, <1>3, <1>5, Typed DEF StepInv, OrphanType, Position
<1>7. OrphanInv(c)'  BY <1>1 DEF OrphanInv
<1>. QED  BY <1>3, <1>4, <1>6, <1>7

LEMMA IInvInit == Init => IInv
<1> SUFFICES ASSUME Init, TypeOK, NEW c \in Categories PROVE CatInv(c)
  BY TypeInit, Split
<1>1. CursorInv(c)
  BY DEF Init, NoImage, CursorInv, Abstract!Reflects
<1>. QED
  BY <1>1 DEF Init, CatInv, TxInv, StepInv, OrphanInv, Pending, NoOrphan, HasCursor, HasPage

LEMMA IInvStep == IInv /\ [Next]_vars => IInv'
<1> SUFFICES ASSUME IInv, [Next]_vars PROVE IInv'
  OBVIOUS
<1>1. TypeOK /\ TypeOK'  BY TypeStep DEF IInv
<1>2. SUFFICES ASSUME NEW d \in Categories PROVE CatInv(d)'
  BY <1>1 DEF IInv, RowsMatchCursor, TransactionHoldsPage, WorkerInStep, OrphanInStep,
              CatInv, CursorInv, TxInv, StepInv, OrphanInv
<1>3. CatInv(d)  BY Split
<1> USE <1>1, <1>3 DEF feedVars, dbVars, workerVars
<1>4. ASSUME UNCHANGED <<feedVars, dbVars, pc, local, page, tx>> PROVE CatInv(d)'
  BY <1>4, Inert, Typed DEF HasCursor, HasPage, Position
<1>5. ASSUME NEW c \in Categories, Worker(c) PROVE CatInv(d)'
  BY <1>5, WorkerInv
<1>6. ASSUME NEW c \in Categories, OrphanCommits(c) PROVE CatInv(d)'
  <2>1. CASE d = c  BY <1>6, <2>1, OrphanCommitsInv
  <2>2. CASE d # c
    <3>1. /\ UNCHANGED <<feed, published, pc, local, page, tx>>
          /\ cursor'[d] = cursor[d] /\ rows'[d] = rows[d] /\ orphan'[d] = orphan[d]
      BY <1>6, <2>2 DEF OrphanCommits, Commit, TypeOK
    <3>. QED  BY SMTT(30), <3>1, Inert, Typed DEF HasCursor, HasPage, Position
  <2>. QED  BY <2>1, <2>2
<1>7. ASSUME NEW c \in Categories, OrphanRollsBack(c) PROVE CatInv(d)'
  <2>1. /\ UNCHANGED <<feed, published, cursor, rows, pc, local, page, tx>>
        /\ orphan'[d] = orphan[d] \/ orphan'[d].to = 0
    BY <1>7 DEF OrphanRollsBack, NoOrphan, TypeOK
  <2>. QED  BY SMTT(30), <2>1, Inert, Typed DEF HasCursor, HasPage, Position
<1>8. ASSUME NEW c \in Categories, Publish(c) PROVE CatInv(d)'
  <2>1. /\ UNCHANGED <<feed, cursor, rows, orphan, pc, local, page, tx>>
        /\ published' = [published EXCEPT ![c] = @ + 1]
    BY <1>8 DEF Publish
  <2>2. published[d] <= published'[d]
    <3>1. published'[d] = published[d] \/ published'[d] = published[d] + 1
      BY <2>1 DEF TypeOK
    <3>2. published[d] \in Nat  BY Typed DEF Position
    <3>. QED  BY <3>1, <3>2
  <2>. QED  BY <2>1, <2>2, Inert, Typed DEF HasCursor, HasPage, Position
<1>9. CASE MainTask
  <2>1. CASE JoinError \/ CycleEnds  BY <2>1, StopInv DEF JoinError, CycleEnds
  <2>2. CASE CheckCycle \/ ArmCycle \/ CycleInterrupted
    BY <2>2, <1>4 DEF CheckCycle, ArmCycle, CycleInterrupted
  <2>3. CASE NextCycle  BY <2>3, SpawnInv DEF NextCycle
  <2>. QED  BY <1>9, <2>1, <2>2, <2>3 DEF MainTask
<1>10. CASE Start  BY <1>10, SpawnInv DEF Start
<1>11. CASE Crash  BY <1>11, StopInv DEF Crash
<1>12. CASE RequestShutdown  BY <1>12, <1>4 DEF RequestShutdown
<1>13. CASE Stabilise  BY <1>13, <1>4 DEF Stabilise
<1>14. CASE UNCHANGED vars  BY <1>14, <1>4 DEF vars
<1>. QED
  BY <1>5, <1>6, <1>7, <1>8, <1>9, <1>10, <1>11, <1>12, <1>13, <1>14 DEF Next

(* IInv is an inductive invariant of the runner.                           *)
THEOREM Invariant == Spec => []IInv
  BY IInvInit, IInvStep, PTL DEF Spec

(* No entry is skipped and none is applied from beyond the durable cursor, *)
(* whatever crashes, aborts and late COMMITs happen (run_category and      *)
(* write_page).                                                            *)
THEOREM CursorCorrect == Spec => []RowsMatchCursor
<1>1. IInv => RowsMatchCursor  BY DEF IInv
<1>. QED  BY <1>1, Invariant, PTL

(* A page is committed in full or not at all.                              *)
THEOREM PagesWhole == Spec => []TransactionHoldsPage
<1>1. IInv => TransactionHoldsPage  BY DEF IInv
<1>. QED  BY <1>1, Invariant, PTL

(* A worker never runs ahead of the durable cursor, writing its page never *)
(* moves the durable cursor back, and a COMMIT whose worker is gone stays  *)
(* compatible with its successor.                                          *)
THEOREM ActorsInStep == Spec => []InStep
<1>1. IInv => InStep  BY DEF IInv, InStep
<1>. QED  BY <1>1, Invariant, PTL

-------------------------------------------------------------------------------
(* The runner implements CategoryCursor.                                   *)

(* There is one image of the first q entries only.                         *)
LEMMA ReflectsUnique ==
  ASSUME NEW f \in [1 .. MaxFeed -> Entities], NEW r \in Image, NEW s \in Image,
         NEW q \in Position, Abstract!Reflects(f, r, q), Abstract!Reflects(f, s, q)
  PROVE  r = s
<1>1. ASSUME NEW e \in Entities PROVE r[e] = s[e]
  <2>1. /\ r[e] \in 0 .. q /\ s[e] \in 0 .. q
        /\ r[e] # 0 => f[r[e]] = e
        /\ s[e] # 0 => f[s[e]] = e
        /\ \A j \in 1 .. q : r[e] < j => f[j] # e
        /\ \A j \in 1 .. q : s[e] < j => f[j] # e
    BY DEF Abstract!Reflects
  <2>2. q \in Nat  BY DEF Position
  <2>3. ~(r[e] < s[e])  BY <2>1, <2>2
  <2>4. ~(s[e] < r[e])  BY <2>1, <2>2
  <2>. QED  BY <2>1, <2>2, <2>3, <2>4
<1>. QED  BY <1>1 DEF Image

(* A COMMIT advances rows and cursor together, or repeats what is stored.  *)
LEMMA CommitAdvances ==
  ASSUME TypeOK, TypeOK', NEW c \in Categories, CursorInv(c),
         NEW from \in Position, NEW to \in Position, NEW image \in Image, NEW fresh \in BOOLEAN,
         from <= cursor[c], cursor[c] <= to, to <= published[c],
         IsImage(feed[c], image, from, to),
         Commit(c, to, image, fresh), UNCHANGED feedVars
  PROVE  Abstract!Advance(c) \/ UNCHANGED Abstract!vars
<1> DEFINE r == [e \in Entities |-> IF image[e] # 0 THEN image[e] ELSE rows[c][e]]
<1>1. cursor' = [cursor EXCEPT ![c] = to] /\ rows' = [rows EXCEPT ![c] = r]
  BY DEF Commit
<1>2. r \in Image  BY Typed DEF Image
<1>3. Abstract!Reflects(feed[c], r, to)
  <2>1. \A e \in Entities : r[e] = IF image[e] # 0 THEN image[e] ELSE rows[c][e]
    OBVIOUS
  <2> HIDE DEF r
  <2>. QED  BY ZenonT(60), <2>1, MergeReflects, Typed DEF CursorInv
<1> HIDE DEF r
<1>4. CASE cursor[c] < to
  <2>1. to \in 1 .. published[c]  BY <1>4, Typed DEF Position
  <2>2. r \in [Entities -> 0 .. MaxFeed]  BY <1>2 DEF Image, Position
  <2>. QED  BY <1>1, <1>3, <1>4, <2>1, <2>2 DEF Abstract!Advance, feedVars
<1>5. CASE ~(cursor[c] < to)
  <2>1. cursor[c] = to  BY <1>5, Typed DEF Position
  <2>2. r = rows[c]  BY <1>2, <1>3, <2>1, ReflectsUnique, Typed DEF CursorInv
  <2>3. cursor' = cursor /\ rows' = rows  BY <1>1, <2>1, <2>2 DEF TypeOK
  <2>. QED  BY <2>3 DEF Abstract!vars, feedVars
<1>. QED  BY <1>4, <1>5

LEMMA RefinesInit == Init => Abstract!Init
  BY DEF Init, Abstract!Init, NoImage

LEMMA WorkerRefines ==
  ASSUME IInv, TypeOK', NEW c \in Categories, Worker(c)
  PROVE  Abstract!Advance(c) \/ UNCHANGED Abstract!vars
<1>1. TypeOK /\ CatInv(c)  BY Split
<1>2. CASE QuietStep(c)  BY <1>1, <1>2, QuietFrame DEF Abstract!vars
<1>3. CASE LoadCursor(c) \/ FetchPage(c)
  BY <1>3 DEF LoadCursor, FetchPage, Abstract!vars, feedVars, dbVars
<1>4. CASE MarkCaughtUp(c)
  <2>1. pc[c] = "page" /\ Empty(c) /\ SetCaughtUp(c) /\ UNCHANGED feedVars
    BY <1>4 DEF MarkCaughtUp, Goto
  <2>. QED  BY <1>1, <2>1, MarkKeepsCursor DEF Abstract!vars, feedVars
<1>5. CASE MarkFails(c)
  <2>1. /\ pc[c] = "page" /\ Empty(c) /\ UNCHANGED feedVars
        /\ UNCHANGED dbVars \/ SetCaughtUp(c)
    BY <1>5 DEF MarkFails
  <2>. QED  BY <1>1, <2>1, MarkKeepsCursor DEF Abstract!vars, feedVars, dbVars
<1>6. CASE BeginWrite(c) \/ WriteEntity(c) \/ SendCommit(c)
  BY <1>6 DEF BeginWrite, WriteEntity, SendCommit, Abstract!vars, feedVars, dbVars
<1>7. CASE CommitAcked(c)
  <2>1. /\ pc[c] = "commit" /\ UNCHANGED feedVars
        /\ Commit(c, page[c].to, tx[c].image, TRUE)
    BY <1>7 DEF CommitAcked, Goto
  <2>. QED  BY <1>1, <2>1, Committing, CommitAdvances, Typed DEF CatInv
<1>8. CASE CommitFails(c)
  BY <1>8 DEF CommitFails, Abstract!vars, feedVars
<1>. QED
  BY <1>2, <1>3, <1>4, <1>5, <1>6, <1>7, <1>8 DEF Worker, QuietStep

LEMMA RefinesStep == IInv /\ TypeOK' /\ [Next]_vars => [Abstract!Next]_(Abstract!vars)
<1> SUFFICES ASSUME IInv, TypeOK', [Next]_vars
             PROVE  Abstract!Next \/ UNCHANGED Abstract!vars
  OBVIOUS
<1> USE DEF feedVars, dbVars
<1>1. ASSUME NEW c \in Categories, Worker(c)
      PROVE  Abstract!Next \/ UNCHANGED Abstract!vars
  BY <1>1, WorkerRefines DEF Abstract!Next
<1>2. ASSUME NEW c \in Categories, OrphanCommits(c)
      PROVE  Abstract!Next \/ UNCHANGED Abstract!vars
  <2>1. TypeOK /\ CursorInv(c) /\ OrphanInv(c)  BY Split DEF CatInv
  <2>2. /\ Pending(c) /\ UNCHANGED feedVars
        /\ Commit(c, orphan[c].to, orphan[c].image, orphan[c].fresh)
    BY <1>2 DEF OrphanCommits
  <2>3. Abstract!Advance(c) \/ UNCHANGED Abstract!vars
    BY <2>1, <2>2, CommitAdvances, Typed DEF OrphanInv, OrphanType
  <2>. QED  BY <2>3 DEF Abstract!Next
<1>3. ASSUME NEW c \in Categories, OrphanRollsBack(c) PROVE UNCHANGED Abstract!vars
  BY <1>3 DEF OrphanRollsBack, Abstract!vars
<1>4. ASSUME NEW c \in Categories, Publish(c) PROVE Abstract!Next
  BY <1>4 DEF Publish, Abstract!Publish, Abstract!Next
<1>5. CASE MainTask \/ Crash
  BY <1>5 DEF MainTask, JoinError, CycleEnds, CheckCycle, ArmCycle, CycleInterrupted,
              NextCycle, Crash, StopWorkers, SpawnWorkers, Abstract!vars
<1>6. CASE Start \/ RequestShutdown \/ Stabilise
  BY <1>6 DEF Start, SpawnWorkers, RequestShutdown, Stabilise, Abstract!vars
<1>7. CASE UNCHANGED vars  BY <1>7 DEF vars, Abstract!vars
<1>. QED  BY <1>1, <1>2, <1>3, <1>4, <1>5, <1>6, <1>7 DEF Next

(* The runner, its store and every failure together behave as feeds whose  *)
(* rows and cursor advance in one step, forwards.                          *)
THEOREM Refinement == Spec => RefinesCategoryCursor
<1>1. IInv => TypeOK  BY DEF IInv
<1>. QED
  BY <1>1, RefinesInit, RefinesStep, Invariant, PTL DEF Spec, RefinesCategoryCursor, Abstract!Spec

-------------------------------------------------------------------------------
(* Recorded failures.                                                      *)

(* Category c reports the failure it recorded, and no late COMMIT of its   *)
(* worker can supersede it any more.                                       *)
Reported(c) ==
  reason[c] \in Recorded /\ pc[c] \in {"failed", "off"}
    => openError[c] = PhaseOf(reason[c]) /\ orphan[c].fresh = FALSE

(* What record_error leaves behind is what Reported asks for.              *)
LEMMA RecordReports ==
  ASSUME TypeOK, NEW c \in Categories, RecordError(c)
  PROVE  /\ reason'[c] = reason[c] \/ reason'[c] = "none"
         /\ openError'[c] = PhaseOf(reason[c]) /\ orphan'[c].fresh = FALSE
<1>1. /\ orphan' = [orphan EXCEPT ![c] = [orphan[c] EXCEPT !.fresh = FALSE]]
      /\ openError' = [openError EXCEPT ![c] = PhaseOf(reason[c])]
  BY DEF RecordError
<1>2. orphan[c] \in OrphanType  BY DEF TypeOK, OrphanType
<1>3. DEFINE o == [orphan[c] EXCEPT !.fresh = FALSE]
<1>4. o.fresh = FALSE  BY ONLY <1>2 DEF OrphanType
<1>5. orphan'[c] = o  BY <1>1 DEF TypeOK
<1>6. openError'[c] = PhaseOf(reason[c])  BY <1>1 DEF TypeOK
<1>7. reason'[c] = reason[c] \/ reason'[c] = "none"  BY DEF RecordError, TypeOK
<1>. QED  BY <1>4, <1>5, <1>6, <1>7

(* Every other step of the worker leaves it running, or returned with no   *)
(* recorded error.                                                         *)
LEMMA OthersUnreported ==
  ASSUME TypeOK, NEW c \in Categories, Worker(c), ~RecordError(c)
  PROVE  reason'[c] \notin Recorded \/ pc'[c] \notin {"failed", "off"}
<1> USE DEF TypeOK, Goto, FailRecording, FailUnrecorded, Recorded, Unrecorded
<1>1. CASE LoadCursor(c) \/ LoadFails(c) \/ CheckShutdown(c) \/ ArmFetch(c)
  BY <1>1 DEF LoadCursor, LoadFails, CheckShutdown, ArmFetch
<1>2. CASE FetchInterrupted(c) \/ FetchPage(c) \/ FetchTransient(c) \/ FetchFails(c)
  BY <1>2 DEF FetchInterrupted, FetchPage, FetchTransient, FetchFails
<1>3. CASE MarkCaughtUp(c) \/ MarkFails(c) \/ MissingResume(c) \/ IdleEnds(c)
  BY <1>3 DEF MarkCaughtUp, MarkFails, MissingResume, IdleEnds
<1>4. CASE MissingNext(c) \/ ParseFails(c) \/ ParseEntities(c)
  BY <1>4 DEF MissingNext, ParseFails, ParseEntities
<1>5. CASE BeginWrite(c) \/ WriteEntity(c) \/ WriteFails(c)
  BY <1>5 DEF BeginWrite, WriteEntity, WriteFails
<1>6. CASE SendCommit(c) \/ CommitAcked(c) \/ CommitFails(c)
  BY <1>6 DEF SendCommit, CommitAcked, CommitFails
<1>7. CASE RecordFails(c)  BY <1>7 DEF RecordFails
<1>8. CASE ArmPause(c) \/ PauseEnds(c) \/ PauseInterrupted(c)
  BY <1>8 DEF ArmPause, PauseEnds, PauseInterrupted
<1>. QED  BY <1>1, <1>2, <1>3, <1>4, <1>5, <1>6, <1>7, <1>8 DEF Worker

(* A worker reports nothing about the other categories.                    *)
LEMMA ReportFrame ==
  ASSUME TypeOK, NEW c \in Categories, NEW d \in Categories, d # c, Worker(c)
  PROVE  reason'[d] = reason[d] /\ openError'[d] = openError[d]
<1> USE DEF TypeOK, Goto, FailRecording, FailUnrecorded, dbVars
<1>1. CASE LoadCursor(c) \/ LoadFails(c) \/ CheckShutdown(c) \/ ArmFetch(c)
  BY <1>1 DEF LoadCursor, LoadFails, CheckShutdown, ArmFetch
<1>2. CASE FetchInterrupted(c) \/ FetchPage(c) \/ FetchTransient(c) \/ FetchFails(c)
  BY <1>2 DEF FetchInterrupted, FetchPage, FetchTransient, FetchFails
<1>3. CASE MarkCaughtUp(c) \/ MarkFails(c) \/ MissingResume(c) \/ IdleEnds(c)
  BY <1>3 DEF MarkCaughtUp, MarkFails, MissingResume, IdleEnds, SetCaughtUp
<1>4. CASE MissingNext(c) \/ ParseFails(c) \/ ParseEntities(c)
  BY <1>4 DEF MissingNext, ParseFails, ParseEntities
<1>5. CASE BeginWrite(c) \/ WriteEntity(c) \/ WriteFails(c)
  BY <1>5 DEF BeginWrite, WriteEntity, WriteFails
<1>6. CASE SendCommit(c) \/ CommitAcked(c) \/ CommitFails(c)
  BY <1>6 DEF SendCommit, CommitAcked, CommitFails, Commit
<1>7. CASE RecordError(c) \/ RecordFails(c)
  BY <1>7 DEF RecordError, RecordFails
<1>8. CASE ArmPause(c) \/ PauseEnds(c) \/ PauseInterrupted(c)
  BY <1>8 DEF ArmPause, PauseEnds, PauseInterrupted
<1>. QED  BY <1>1, <1>2, <1>3, <1>4, <1>5, <1>6, <1>7, <1>8 DEF Worker

LEMMA ReportedInit ==
  ASSUME Init, NEW c \in Categories  PROVE Reported(c)
BY DEF Init, Reported, Recorded

(* Only a failed worker leaves its reason to the stopped process, and it   *)
(* has no COMMIT under way.                                                *)
LEMMA ReportedStop ==
  ASSUME TypeOK, NEW c \in Categories, Reported(c), StopWorkers
  PROVE  Reported(c)'
<1>1. CASE pc[c] = "failed"
  <2>1. reason'[c] = reason[c] /\ openError' = openError /\ orphan'[c] = orphan[c]
    BY <1>1 DEF StopWorkers
  <2>. QED  BY <1>1, <2>1 DEF Reported
<1>2. CASE pc[c] # "failed"
  BY <1>2 DEF StopWorkers, Reported, Recorded
<1>. QED  BY <1>1, <1>2

LEMMA ReportedStep ==
  ASSUME TypeOK, NEW d \in Categories, Reported(d), [Next]_vars
  PROVE  Reported(d)'
<1> USE DEF feedVars, dbVars, workerVars
<1>1. ASSUME UNCHANGED <<openError, orphan, pc, reason>> PROVE Reported(d)'
  BY <1>1 DEF Reported
<1>2. ASSUME NEW c \in Categories, Worker(c) PROVE Reported(d)'
  <2>1. CASE d # c
    <3>1. /\ reason'[d] = reason[d] /\ openError'[d] = openError[d]
          /\ pc'[d] = pc[d] /\ orphan'[d] = orphan[d]
      BY <1>2, <2>1, ReportFrame, WorkerFrame
    <3>. QED  BY <3>1 DEF Reported
  <2>2. CASE d = c /\ RecordError(c)
    <3>1. \/ reason'[d] = "none"
          \/ openError'[d] = PhaseOf(reason'[d]) /\ orphan'[d].fresh = FALSE
      BY <2>2, RecordReports
    <3>. QED  BY <3>1 DEF Reported, Recorded
  <2>3. CASE d = c /\ ~RecordError(c)
    BY <1>2, <2>3, OthersUnreported DEF Reported
  <2>. QED  BY <2>1, <2>2, <2>3
<1>3. ASSUME NEW c \in Categories, OrphanCommits(c) PROVE Reported(d)'
  <2>1. UNCHANGED <<pc, reason>>  BY <1>3 DEF OrphanCommits
  <2>2. CASE d = c
    <3>1. orphan'[d].fresh = FALSE
      BY <1>3, <2>2 DEF OrphanCommits, NoOrphan, TypeOK
    <3>2. orphan[d].fresh = FALSE => openError'[d] = openError[d]
      BY <1>3, <2>2 DEF OrphanCommits, Commit, TypeOK
    <3>. QED  BY <2>1, <3>1, <3>2 DEF Reported
  <2>3. CASE d # c
    <3>1. openError'[d] = openError[d] /\ orphan'[d] = orphan[d]
      BY <1>3, <2>3 DEF OrphanCommits, Commit, TypeOK
    <3>. QED  BY <2>1, <3>1 DEF Reported
  <2>. QED  BY <2>2, <2>3
<1>4. ASSUME NEW c \in Categories, OrphanRollsBack(c) PROVE Reported(d)'
  <2>1. UNCHANGED <<openError, pc, reason>>  BY <1>4 DEF OrphanRollsBack
  <2>2. orphan'[d] = orphan[d] \/ orphan'[d].fresh = FALSE
    BY <1>4 DEF OrphanRollsBack, NoOrphan, TypeOK
  <2>. QED  BY <2>1, <2>2 DEF Reported
<1>5. ASSUME NEW c \in Categories, Publish(c) PROVE Reported(d)'
  BY <1>5, <1>1 DEF Publish
<1>6. CASE MainTask
  <2>1. CASE JoinError \/ CycleEnds  BY <2>1, ReportedStop DEF JoinError, CycleEnds
  <2>2. CASE CheckCycle \/ ArmCycle \/ CycleInterrupted
    BY <2>2, <1>1 DEF CheckCycle, ArmCycle, CycleInterrupted
  <2>3. CASE NextCycle
    BY <2>3 DEF NextCycle, SpawnWorkers, Reported, Recorded
  <2>. QED  BY <1>6, <2>1, <2>2, <2>3 DEF MainTask
<1>7. CASE Start  BY <1>7 DEF Start, SpawnWorkers, Reported, Recorded
<1>8. CASE Crash  BY <1>8, ReportedStop DEF Crash
<1>9. CASE RequestShutdown  BY <1>9, <1>1 DEF RequestShutdown
<1>10. CASE Stabilise  BY <1>10, <1>1 DEF Stabilise
<1>11. CASE UNCHANGED vars  BY <1>11, <1>1 DEF vars
<1>. QED
  BY <1>2, <1>3, <1>4, <1>5, <1>6, <1>7, <1>8, <1>9, <1>10, <1>11 DEF Next

(* An error written to ingest_error stays the category's reported state    *)
(* until the process starts again, even when the COMMIT of the failed page *)
(* arrives after all (record_error, sync_state::is_superseded_error).      *)
THEOREM FailuresVisible == Spec => []RecordedFailureVisible
<1> DEFINE Inv == TypeOK /\ \A c \in Categories : Reported(c)
<1>1. Init => Inv  BY TypeInit, ReportedInit
<1>2. Inv /\ [Next]_vars => Inv'
  <2> SUFFICES ASSUME Inv, [Next]_vars PROVE Inv'  OBVIOUS
  <2>1. TypeOK'  BY TypeStep
  <2>2. ASSUME NEW c \in Categories PROVE Reported(c)'  BY ReportedStep
  <2>. QED  BY <2>1, <2>2
<1>3. Inv => RecordedFailureVisible  BY DEF RecordedFailureVisible, Reported
<1>. QED  BY <1>1, <1>2, <1>3, PTL DEF Spec

-------------------------------------------------------------------------------
(* The ways out of a fetched page.                                         *)

(* Whoever goes on from a page that has been fetched has just stored its   *)
(* end as the cursor.                                                      *)
LEMMA LeavesPageStored ==
  ASSUME TypeOK, NEW c \in Categories, Worker(c), HasPage(c), pc'[c] \in {"done", "top"}
  PROVE  cursor'[c] = page[c].to
<1> USE DEF Goto, FailRecording, FailUnrecorded, HasPage, TypeOK
<1>1. CASE LoadCursor(c) \/ LoadFails(c) \/ CheckShutdown(c) \/ ArmFetch(c)
  BY <1>1 DEF LoadCursor, LoadFails, CheckShutdown, ArmFetch
<1>2. CASE FetchInterrupted(c) \/ FetchPage(c) \/ FetchTransient(c) \/ FetchFails(c)
  BY <1>2 DEF FetchInterrupted, FetchPage, FetchTransient, FetchFails
<1>3. CASE MarkCaughtUp(c)  BY <1>3 DEF MarkCaughtUp, SetCaughtUp
<1>4. CASE MarkFails(c) \/ MissingResume(c) \/ IdleEnds(c)
  BY <1>4 DEF MarkFails, MissingResume, IdleEnds
<1>5. CASE MissingNext(c) \/ ParseFails(c) \/ ParseEntities(c)
  BY <1>5 DEF MissingNext, ParseFails, ParseEntities
<1>6. CASE BeginWrite(c) \/ WriteEntity(c) \/ WriteFails(c)
  BY <1>6 DEF BeginWrite, WriteEntity, WriteFails
<1>7. CASE CommitAcked(c)  BY <1>7 DEF CommitAcked, Commit
<1>8. CASE SendCommit(c) \/ CommitFails(c)  BY <1>8 DEF SendCommit, CommitFails
<1>9. CASE RecordError(c) \/ RecordFails(c)  BY <1>9 DEF RecordError, RecordFails
<1>10. CASE ArmPause(c) \/ PauseEnds(c) \/ PauseInterrupted(c)
  BY <1>10 DEF ArmPause, PauseEnds, PauseInterrupted
<1>. QED
  BY <1>1, <1>2, <1>3, <1>4, <1>5, <1>6, <1>7, <1>8, <1>9, <1>10 DEF Worker

LEMMA KeepsFetchedPage ==
  ASSUME TypeOK, [Next]_vars, NEW c \in Categories, HasPage(c), pc'[c] \in {"done", "top"}
  PROVE  cursor'[c] >= page[c].to
<1>1. pc[c] \notin {"done", "top", "off", "load"}  BY DEF HasPage
<1>2. CASE Worker(c)
  <2>1. cursor'[c] = page[c].to  BY <1>2, LeavesPageStored
  <2>2. page[c].to \in Nat  BY Typed DEF Position
  <2>. QED  BY <2>1, <2>2
<1>3. ASSUME NEW d \in Categories, d # c, Worker(d) PROVE FALSE
  <2>1. pc'[c] = pc[c]  BY <1>3, WorkerFrame
  <2>. QED  BY <1>1, <2>1
<1>4. ASSUME NEW d \in Categories, OrphanCommits(d) \/ OrphanRollsBack(d) \/ Publish(d)
      PROVE  FALSE
  BY <1>1, <1>4 DEF OrphanCommits, OrphanRollsBack, Publish, workerVars
<1>5. CASE JoinError \/ CycleEnds \/ Crash
  BY <1>1, <1>5 DEF JoinError, CycleEnds, Crash, StopWorkers
<1>6. CASE NextCycle \/ Start  BY <1>1, <1>6 DEF NextCycle, Start, SpawnWorkers
<1>7. CASE CheckCycle \/ ArmCycle \/ CycleInterrupted \/ RequestShutdown \/ Stabilise
  BY <1>1, <1>7 DEF CheckCycle, ArmCycle, CycleInterrupted, RequestShutdown, Stabilise, workerVars
<1>8. CASE UNCHANGED vars  BY <1>1, <1>8 DEF vars, workerVars
<1>. QED  BY <1>2, <1>3, <1>4, <1>5, <1>6, <1>7, <1>8 DEF Next, MainTask

(* A page that has been fetched is left behind stored, or with an error: a *)
(* shutdown request never makes its worker return before the commit        *)
(* (run_category).                                                         *)
THEOREM ShutdownKeepsPages == Spec => ShutdownKeepsFetchedPage
<1>1. TypeOK /\ [Next]_vars
        => [\A c \in Categories :
              HasPage(c) /\ pc'[c] \in {"done", "top"} => cursor'[c] >= page[c].to]_vars
  BY KeepsFetchedPage
<1>. QED  BY TypeCorrect, <1>1, PTL DEF Spec, ShutdownKeepsFetchedPage
===============================================================================
