------------------------- MODULE DocumentAssetsProofs -------------------------
(***************************************************************************)
(* Contents belong to the asset their document has, nothing is recorded    *)
(* twice and batches are atomic, for every set of documents, callers,      *)
(* answers and pages.                                                      *)
(***************************************************************************)
EXTENDS DocumentAssets, FiniteSetTheorems, TLAPS, Induction

-------------------------------------------------------------------------------
(* Types.                                                                  *)

Fetches == {FetchOne(run, alternative) : run \in Runs, alternative \in AlternativeRuns}

Extracts ==
  {Extract(fetch.source, time, fixture) : fetch \in Fetches, time \in Times, fixture \in Fixtures}

FetchReport == [document : Documents, id : 0 .. MaxId, at : Times, report : Fetches]
ExtractReport == [document : Documents, id : 1 .. MaxId, content : Extracts]

Stages == {"idle", "fetched", "asset", "content", "recorded", "known", "extracted", "extraction"}
FetchStages == {"fetched", "asset", "content", "recorded", "known"}
ExtractStages == {"extracted", "extraction"}

ReportTypes(c) ==
  /\ pc[c] \in FetchStages => reports[c] \in Seq(FetchReport)
  /\ pc[c] \in ExtractStages => reports[c] \in Seq(ExtractReport)
  /\ pc[c] = "idle" => reports[c] = <<>>

(* What a transaction has written, and where it is.                        *)
CallTypes(c) ==
  /\ ~InTransaction(c) => at[c] = 1
  /\ pc[c] = "content" =>
       at[c] \in DOMAIN reports[c] /\ newAsset[c][Current(c).document] # NoAsset
  /\ \A x \in newContent[c] :
       x.id \in 1 .. MaxId /\ x.asset \in 1 .. MaxId /\ x.document \in Documents

Types ==
  /\ TypeOK
  /\ DOMAIN at = Callers /\ DOMAIN reports = Callers
  /\ DOMAIN newAsset = Callers /\ DOMAIN newContent = Callers
  /\ \A c \in Callers : ReportTypes(c) /\ CallTypes(c)

(* A report has one of the four statuses.                                  *)
LEMMA FetchStatus ==
  ASSUME NEW fetch \in Fetches
  PROVE  fetch.status \in Statuses
<1>1. PICK run, alternative : fetch = FetchOne(run, alternative)  BY DEF Fetches
<1>2. FetchAlternative(FetchBytes(alternative)).status \in Statuses
  BY DEF FetchAlternative, Fetched, Unfetched, Statuses
<1>. QED
  BY <1>1, <1>2 DEF FetchOne, Fetched, Unfetched, Statuses

(* What is stored of an extraction has an output: a failure without one is *)
(* known by its message, and the CHECK refuses an empty one.               *)
LEMMA ExtractOutput ==
  ASSUME NEW x \in Extracts, BodyCheck(x)
  PROVE  x.output # Null
<1>1. PICK source, time, fixture : x = Extract(source, time, fixture)  BY DEF Extracts
<1>2. ASSUME NEW output, NEW error, error # "none"
      PROVE  StorageOutputHash(output, error) # Null
  BY <1>2 DEF StorageOutputHash, Hash, Null
<1> DEFINE error == ExtractionError(source, fixture)
<1>3. CASE error # "none"
  BY <1>1, <1>2, <1>3 DEF Extract
<1>4. CASE error = "none"
  <2>1. x.body  BY <1>1, <1>4 DEF Extract, BodyCheck
  <2>. QED  BY <2>1, <1>1, <1>4 DEF Extract, StorageOutputHash
<1>. QED  BY <1>3, <1>4

LEMMA OfficialOutput ==
  ASSUME NEW report, NEW time
  PROVE  OfficialContent(report, time).output # Null
BY DEF OfficialContent, Hash, Null

-------------------------------------------------------------------------------
LEMMA TypesInit == Init => Types
<1> SUFFICES ASSUME Init PROVE Types  OBVIOUS
<1>1. TypeOK
  BY MaxIdAssumption DEF Init, TypeOK, NoPage, InTransaction
<1>2. ASSUME NEW c \in Callers PROVE ReportTypes(c) /\ CallTypes(c)
  BY DEF Init, ReportTypes, CallTypes, FetchStages, ExtractStages
<1>. QED  BY <1>1, <1>2 DEF Init, Types

LEMMA SeqElement ==
  ASSUME NEW S, NEW s \in Seq(S)
  PROVE  /\ Len(s) \in Nat /\ DOMAIN s = 1 .. Len(s)
         /\ \A i \in DOMAIN s : s[i] \in S
OBVIOUS

(* A page is a sequence of documents to delete or to write.                *)
LEMMA PageTyped ==
  ASSUME NEW p \in Pages \cup {NoPage}
  PROVE  /\ Len(p) \in Nat /\ DOMAIN p = 1 .. Len(p)
         /\ \A i \in DOMAIN p : p[i].document \in Documents
<1>1. NoPage \in Seq([document : Documents, deleted : BOOLEAN])  BY DEF NoPage
<1>2. p \in Seq([document : Documents, deleted : BOOLEAN])  BY <1>1, PagesAssumption
<1>3. \A i \in DOMAIN p : p[i] \in [document : Documents, deleted : BOOLEAN]
  BY <1>2, SeqElement
<1>. QED  BY <1>2, <1>3, SeqElement

LEMMA TypesPage == Types /\ PageStep => Types'
<1> SUFFICES ASSUME Types, PageStep PROVE Types'  OBVIOUS
<1> USE DEF Types, TypeOK
<1>1. /\ UNCHANGED callVars /\ ids' = ids
      /\ present' \in SUBSET Documents
      /\ asset' \in [Documents -> AssetRow \cup {NoAsset}]
      /\ content' \subseteq content
      /\ page' \in Pages \cup {NoPage} /\ next' \in 1 .. Len(page') + 1
  <2>1. CASE BeginPage
    <3>1. page' \in Pages /\ Len(page') \in Nat  BY <2>1, PageTyped DEF BeginPage
    <3>. QED  BY <2>1, <3>1 DEF BeginPage, storeVars
  <2>2. CASE WriteDocument
    <3>1. next \in 1 .. Len(page) /\ Len(page) \in Nat  BY <2>2, PageTyped DEF WriteDocument
    <3>. QED  BY <2>2, <3>1 DEF WriteDocument, storeVars
  <2>3. CASE CommitPage
    <3>1. {page[i].document : i \in {k \in DOMAIN page : ~page[k].deleted}} \subseteq Documents
      BY PageTyped
    <3>. QED  BY <2>3, <3>1 DEF CommitPage, NoPage
  <2>4. CASE FailPage
    BY <2>4 DEF FailPage, NoPage, storeVars
  <2>. QED  BY <2>1, <2>2, <2>3, <2>4 DEF PageStep
<1>2. ASSUME NEW c \in Callers PROVE ReportTypes(c)' /\ CallTypes(c)'
  BY <1>1 DEF callVars, ReportTypes, CallTypes, Current, InTransaction
<1>. QED  BY <1>1, <1>2 DEF callVars, InTransaction

-------------------------------------------------------------------------------
(* A step of one caller leaves the others and the page alone.              *)
Frame(c) ==
  /\ present' = present /\ page' = page /\ next' = next
  /\ pc' \in [Callers -> Stages]
  /\ DOMAIN at' = Callers /\ DOMAIN reports' = Callers
  /\ DOMAIN newAsset' = Callers /\ DOMAIN newContent' = Callers
  /\ \A e \in Callers \ {c} :
       /\ pc'[e] = pc[e] /\ reports'[e] = reports[e] /\ at'[e] = at[e]
       /\ newAsset'[e] = newAsset[e] /\ newContent'[e] = newContent[e]

LEMMA CallFrame ==
  ASSUME Types, NEW c \in Callers, Call(c)
  PROVE  Frame(c)
<1> USE DEF Types, TypeOK, Frame, Stages, storeVars, pageVars, callVars
<1>1. CASE FetchMany(c)  BY <1>1 DEF FetchMany
<1>2. CASE Begin(c, "fetched", "asset")  BY <1>2 DEF Begin
<1>3. CASE UpsertAsset(c)  BY <1>3 DEF UpsertAsset
<1>4. CASE InsertContent(c)
  <2>1. /\ pc' = [pc EXCEPT ![c] = "asset"] /\ at' = [at EXCEPT ![c] = @ + 1]
        /\ \E v : newContent' = [newContent EXCEPT ![c] = v]
        /\ UNCHANGED <<present, pageVars, reports, newAsset>>
    BY <1>4 DEF InsertContent, Insert
  <2>. QED  BY <2>1
<1>5. CASE CommitFetches(c)  BY <1>5 DEF CommitFetches, End
<1>6. CASE Lookup(c)  BY <1>6 DEF Lookup
<1>7. CASE ExtractAll(c)
  <2>1. /\ pc' = [pc EXCEPT ![c] = "extracted"] /\ \E v : reports' = [reports EXCEPT ![c] = v]
        /\ UNCHANGED <<present, pageVars, at, newAsset, newContent>>
    BY <1>7 DEF ExtractAll
  <2>. QED  BY <2>1
<1>8. CASE Begin(c, "extracted", "extraction")  BY <1>8 DEF Begin
<1>9. CASE InsertExtraction(c)
  <2>1. /\ at' = [at EXCEPT ![c] = @ + 1] /\ \E v : newContent' = [newContent EXCEPT ![c] = v]
        /\ UNCHANGED <<present, pageVars, pc, reports, newAsset>>
    BY <1>9 DEF InsertExtraction, Insert
  <2>. QED  BY <2>1
<1>10. CASE CommitExtractions(c)
  <2>1. /\ \E v : pc' = [pc EXCEPT ![c] = v] /\ v \in Stages
        /\ \/ reports' = reports
           \/ \E v : reports' = [reports EXCEPT ![c] = v]
    BY <1>10 DEF CommitExtractions
  <2>2. End(c)  BY <1>10 DEF CommitExtractions
  <2>. QED  BY <2>1, <2>2 DEF End
<1>11. CASE Fail(c)  BY <1>11 DEF Fail, End
<1>. QED
  BY <1>1, <1>2, <1>3, <1>4, <1>5, <1>6, <1>7, <1>8, <1>9, <1>10, <1>11 DEF Call

(* The row an insertion leaves: it keeps the id of a row with its key, its *)
(* own or a committed one, and no other transaction has a row with it.     *)
LEMMA InsertResult ==
  ASSUME Types, NEW c \in Callers, NEW document, NEW assetId, NEW value,
         value.output # Null, Insert(c, Row(document, assetId, value))
  PROVE  \E row :
           /\ newContent' = [newContent EXCEPT ![c] =
                               {y \in newContent[c] : Key(y) # Key(row)} \cup {row}]
           /\ row.asset = assetId /\ row.document = document
           /\ row.id \in 1 .. MaxId
           /\ ids' \in 0 .. MaxId /\ ids <= ids'
           /\ \A other \in Callers \ {c} : \A y \in newContent[other] : Key(y) # Key(row)
           /\ \A y \in newContent[c] \cup content :
                Key(y) = Key(row) =>
                  \E z \in newContent[c] \cup content : Key(z) = Key(row) /\ z.id = row.id
<1> DEFINE x == Row(document, assetId, value)
           row == Upserted(c, x)
           seen == {y \in newContent[c] : Conflicts(x, y)} \cup {y \in content : Conflicts(x, y)}
<1>1. /\ x.asset = assetId /\ x.document = document /\ x.output # Null
      /\ row.asset = assetId /\ row.document = document
      /\ row.source = x.source /\ row.output = x.output
      /\ row.id = IF seen = {} THEN ids + 1 ELSE (CHOOSE y \in seen : TRUE).id
  BY DEF Row, Upserted
<1>2. Key(x) = Key(row)  BY <1>1 DEF Key
<1>3. ASSUME NEW y PROVE Conflicts(x, y) <=> Key(y) = Key(row)
  BY <1>1, <1>2 DEF Conflicts
<1>4. seen # {} =>
        \E z \in newContent[c] \cup content : Key(z) = Key(row) /\ z.id = row.id
  <2> SUFFICES ASSUME seen # {}
               PROVE  \E z \in newContent[c] \cup content : Key(z) = Key(row) /\ z.id = row.id
    OBVIOUS
  <2>1. (CHOOSE y \in seen : TRUE) \in seen  OBVIOUS
  <2>. QED  BY <2>1, <1>1, <1>3
<1>5. row.id \in Int
  <2>1. \A z \in newContent[c] \cup content : z.id \in 1 .. MaxId
    BY DEF Types, TypeOK, CallTypes
  <2>2. CASE seen = {}  BY <2>2, <1>1, MaxIdAssumption DEF Types, TypeOK
  <2>3. CASE seen # {}  BY <2>1, <2>3, <1>4, MaxIdAssumption
  <2>. QED  BY <2>2, <2>3
<1>6. row.id >= 1
  <2>1. \A z \in newContent[c] \cup content : z.id \in 1 .. MaxId
    BY DEF Types, TypeOK, CallTypes
  <2>2. CASE seen = {}  BY <2>2, <1>1, MaxIdAssumption DEF Types, TypeOK
  <2>3. CASE seen # {}  BY <2>1, <2>3, <1>4, MaxIdAssumption
  <2>. QED  BY <2>2, <2>3
<1>7. /\ row.id <= MaxId
      /\ ids' = IF row.id > ids THEN row.id ELSE ids
      /\ newContent' = [newContent EXCEPT ![c] = {y \in newContent[c] : ~Conflicts(x, y)} \cup {row}]
      /\ \A other \in Callers \ {c} : \A y \in newContent[other] : ~Conflicts(x, y)
  BY DEF Insert
<1>8. {y \in newContent[c] : ~Conflicts(x, y)} = {y \in newContent[c] : Key(y) # Key(row)}
  BY <1>3
<1>9. ids' \in 0 .. MaxId /\ ids <= ids'
  BY <1>5, <1>6, <1>7, MaxIdAssumption DEF Types, TypeOK
<1>10. row.id \in 1 .. MaxId  BY <1>5, <1>6, <1>7, MaxIdAssumption
<1>11. \A y \in newContent[c] \cup content : Key(y) = Key(row) => seen # {}
  BY <1>3
<1> HIDE DEF row, x, seen
<1>. QED  BY <1>1, <1>3, <1>4, <1>7, <1>8, <1>9, <1>10, <1>11

-------------------------------------------------------------------------------
(* What types ask of one caller.                                           *)
OwnTypes(c) ==
  /\ at[c] \in 1 .. Len(reports[c]) + 1
  /\ newAsset[c] \in [Documents -> AssetRow \cup {NoAsset}]
  /\ ~InTransaction(c) => newContent[c] = {}
  /\ ReportTypes(c)
  /\ CallTypes(c)

SharedTypes ==
  /\ asset \in [Documents -> AssetRow \cup {NoAsset}]
  /\ \A x \in content : x.id \in 1 .. MaxId /\ x.asset \in 1 .. MaxId /\ x.document \in Documents
  /\ ids \in 0 .. MaxId

LEMMA TypesFramed ==
  ASSUME Types, NEW c \in Callers, Frame(c), OwnTypes(c)', SharedTypes'
  PROVE  Types'
<1>1. ASSUME NEW e \in Callers, e # c PROVE OwnTypes(e)'
  BY <1>1 DEF Frame, Types, TypeOK, OwnTypes, ReportTypes, CallTypes, Current, InTransaction
<1>2. \A e \in Callers : OwnTypes(e)'  BY <1>1
<1>3. page' \in Pages \cup {NoPage} /\ next' \in 1 .. Len(page') + 1 /\ present' \subseteq Documents
  BY DEF Frame, Types, TypeOK
<1>. QED  BY <1>2, <1>3 DEF Frame, Types, TypeOK, OwnTypes, SharedTypes, Stages

(* The report a statement is about.                                        *)
LEMMA CurrentFetch ==
  ASSUME Types, NEW c \in Callers, pc[c] \in FetchStages
  PROVE  /\ Len(reports[c]) \in Nat /\ DOMAIN reports[c] = 1 .. Len(reports[c])
         /\ \A i \in DOMAIN reports[c] :
              /\ reports[c][i].document \in Documents
              /\ reports[c][i].report \in Fetches /\ reports[c][i].at \in Times
              /\ reports[c][i].id \in 0 .. MaxId
<1>1. reports[c] \in Seq(FetchReport)  BY DEF Types, ReportTypes
<1>2. \A i \in DOMAIN reports[c] : reports[c][i] \in FetchReport  BY <1>1, SeqElement
<1>. QED  BY <1>1, <1>2, SeqElement DEF FetchReport

LEMMA CurrentExtract ==
  ASSUME Types, NEW c \in Callers, pc[c] \in ExtractStages
  PROVE  /\ Len(reports[c]) \in Nat /\ DOMAIN reports[c] = 1 .. Len(reports[c])
         /\ \A i \in DOMAIN reports[c] :
              /\ reports[c][i].document \in Documents
              /\ reports[c][i].content \in Extracts
              /\ reports[c][i].id \in 1 .. MaxId
<1>1. reports[c] \in Seq(ExtractReport)  BY DEF Types, ReportTypes
<1>2. \A i \in DOMAIN reports[c] : reports[c][i] \in ExtractReport  BY <1>1, SeqElement
<1>. QED  BY <1>1, <1>2, SeqElement DEF ExtractReport

LEMMA SeqOfReports ==
  ASSUME NEW n \in Nat, NEW S, NEW f, f = [i \in 1 .. n |-> f[i]], \A i \in 1 .. n : f[i] \in S
  PROVE  f \in Seq(S)
OBVIOUS

LEMMA TypesFetchMany ==
  ASSUME Types, NEW c \in Callers, FetchMany(c)
  PROVE  OwnTypes(c)' /\ SharedTypes'
<1> DEFINE Results(r) == [DOMAIN r -> [run : Runs, alternative : AlternativeRuns, at : Times]]
<1>1. PICK r \in Requests[c] : \E result \in Results(r) :
        reports'[c] = [i \in DOMAIN r |->
              [document |-> r[i], id |-> 0, at |-> result[i].at,
               report |-> FetchOne(result[i].run, result[i].alternative)]]
  BY DEF FetchMany, Types
<1>2. PICK result \in Results(r) :
        reports'[c] = [i \in DOMAIN r |->
              [document |-> r[i], id |-> 0, at |-> result[i].at,
               report |-> FetchOne(result[i].run, result[i].alternative)]]
  BY <1>1
<1>3. Len(r) \in Nat /\ DOMAIN r = 1 .. Len(r) /\ \A i \in DOMAIN r : r[i] \in Documents
  BY RequestsAssumption, SeqElement
<1>4. ASSUME NEW i \in 1 .. Len(r) PROVE reports'[c][i] \in FetchReport
  <2>1. result[i] \in [run : Runs, alternative : AlternativeRuns, at : Times]  BY <1>3
  <2>2. FetchOne(result[i].run, result[i].alternative) \in Fetches  BY <2>1 DEF Fetches
  <2>. QED  BY <1>2, <1>3, <2>1, <2>2, MaxIdAssumption DEF FetchReport
<1>5. reports'[c] \in Seq(FetchReport)
  <2>1. reports'[c] = [i \in 1 .. Len(r) |-> reports'[c][i]]  BY <1>2, <1>3
  <2>. QED  BY <2>1, <1>3, <1>4, SeqOfReports
<1>6. Len(reports'[c]) \in Nat  BY <1>5
<1>7. pc'[c] = "fetched" /\ at'[c] = 1 /\ newContent'[c] = {} /\ pc[c] = "idle"
      /\ newAsset'[c] = newAsset[c]
  BY DEF FetchMany, Types, TypeOK, CallTypes, InTransaction
<1>8. OwnTypes(c)'
  BY <1>5, <1>6, <1>7
     DEF OwnTypes, ReportTypes, CallTypes, FetchStages, ExtractStages, InTransaction, Types, TypeOK
<1>. QED  BY <1>8 DEF FetchMany, storeVars, SharedTypes, Types, TypeOK

LEMMA TypesBegin ==
  ASSUME Types, NEW c \in Callers, NEW from, NEW to, Begin(c, from, to),
         <<from, to>> \in {<<"fetched", "asset">>, <<"extracted", "extraction">>}
  PROVE  OwnTypes(c)' /\ SharedTypes'
<1>1. Len(reports[c]) \in Nat
  BY CurrentFetch, CurrentExtract DEF Begin, FetchStages, ExtractStages
<1>2. OwnTypes(c)'
  BY <1>1
     DEF Begin, OwnTypes, ReportTypes, CallTypes, FetchStages, ExtractStages, InTransaction,
         Types, TypeOK
<1>. QED  BY <1>2 DEF Begin, storeVars, SharedTypes, Types, TypeOK

LEMMA TypesUpsertAsset ==
  ASSUME Types, NEW c \in Callers, UpsertAsset(c)
  PROVE  OwnTypes(c)' /\ SharedTypes'
<1> DEFINE r == Current(c)
           seen == AssetSeen(c, r.document)
           id == IF seen = NoAsset THEN ids + 1 ELSE seen.id
           row == [id |-> id, status |-> r.report.status, at |-> r.at]
<1>1. at[c] \in DOMAIN reports[c] /\ pc[c] = "asset"  BY DEF UpsertAsset
<1>2. /\ Len(reports[c]) \in Nat /\ DOMAIN reports[c] = 1 .. Len(reports[c])
      /\ r.document \in Documents /\ r.report \in Fetches /\ r.at \in Times
  BY <1>1, CurrentFetch DEF FetchStages, Current
<1>3. /\ newAsset[c] \in [Documents -> AssetRow \cup {NoAsset}]
      /\ asset \in [Documents -> AssetRow \cup {NoAsset}]
  BY DEF Types, TypeOK
<1>4. seen \in AssetRow \cup {NoAsset}  BY <1>2, <1>3 DEF AssetSeen
<1>5. id \in 1 .. MaxId
  <2>1. id <= MaxId  BY DEF UpsertAsset
  <2>2. CASE seen = NoAsset  BY <2>1, <2>2, MaxIdAssumption DEF Types, TypeOK
  <2>3. CASE seen # NoAsset  BY <2>3, <1>4 DEF AssetRow
  <2>. QED  BY <2>2, <2>3
<1>6. row \in AssetRow  BY <1>2, <1>5, FetchStatus DEF AssetRow
<1>7. /\ newAsset' = [newAsset EXCEPT ![c][r.document] = row]
      /\ ids' = IF seen = NoAsset THEN id ELSE ids
      /\ reports' = reports /\ newContent' = newContent /\ asset' = asset /\ content' = content
  BY DEF UpsertAsset, storeVars
<1>8. \/ pc' = [pc EXCEPT ![c] = "content"] /\ at' = at
      \/ at' = [at EXCEPT ![c] = @ + 1] /\ pc' = pc
  BY DEF UpsertAsset
<1>9. ids' \in 0 .. MaxId
  BY <1>5, <1>7, MaxIdAssumption DEF Types, TypeOK
<1>10. newAsset'[c] = [newAsset[c] EXCEPT ![r.document] = row]
  BY <1>7 DEF Types
<1> HIDE DEF row, id, seen
<1>11. newAsset'[c] \in [Documents -> AssetRow \cup {NoAsset}] /\ newAsset'[c][r.document] # NoAsset
  BY <1>2, <1>3, <1>6, <1>10, NoAssetAssumption
<1>12. at'[c] \in 1 .. Len(reports'[c]) + 1
  BY <1>1, <1>2, <1>7, <1>8 DEF Types, TypeOK
<1>13. ReportTypes(c)'
  BY <1>1, <1>7, <1>8 DEF ReportTypes, FetchStages, ExtractStages, Types, TypeOK
<1>14. CallTypes(c)'
  BY <1>1, <1>7, <1>8, <1>11 DEF CallTypes, InTransaction, Current, Types, TypeOK
<1>15. InTransaction(c)'
  BY <1>1, <1>8 DEF InTransaction, Types, TypeOK
<1>16. OwnTypes(c)'  BY <1>11, <1>12, <1>13, <1>14, <1>15 DEF OwnTypes
<1>. QED  BY <1>7, <1>9, <1>16 DEF SharedTypes, Types, TypeOK

LEMMA TypesInsertContent ==
  ASSUME Types, NEW c \in Callers, InsertContent(c)
  PROVE  OwnTypes(c)' /\ SharedTypes'
<1> DEFINE r == Current(c)
<1>1. pc[c] = "content" /\ at[c] \in DOMAIN reports[c] /\ newAsset[c][r.document] # NoAsset
  BY DEF InsertContent, Types, CallTypes
<1>2. Len(reports[c]) \in Nat /\ DOMAIN reports[c] = 1 .. Len(reports[c]) /\ r.document \in Documents
  BY <1>1, CurrentFetch DEF FetchStages, Current
<1>3. newAsset[c][r.document].id \in 1 .. MaxId
  BY <1>1, <1>2 DEF Types, TypeOK, AssetRow
<1>4. PICK row :
        /\ newContent' = [newContent EXCEPT ![c] =
                            {y \in newContent[c] : Key(y) # Key(row)} \cup {row}]
        /\ row.asset = newAsset[c][r.document].id /\ row.document = r.document
        /\ row.id \in 1 .. MaxId
        /\ ids' \in 0 .. MaxId
  BY InsertResult, OfficialOutput DEF InsertContent
<1>5. /\ pc' = [pc EXCEPT ![c] = "asset"] /\ at' = [at EXCEPT ![c] = @ + 1]
      /\ reports' = reports /\ newAsset' = newAsset /\ asset' = asset /\ content' = content
  BY DEF InsertContent, storeVars
<1>6. \A x \in newContent'[c] :
        x.id \in 1 .. MaxId /\ x.asset \in 1 .. MaxId /\ x.document \in Documents
  BY <1>2, <1>3, <1>4 DEF Types, CallTypes
<1>7. pc'[c] = "asset" /\ at'[c] \in 1 .. Len(reports'[c]) + 1
  BY <1>1, <1>2, <1>5 DEF Types, TypeOK
<1>8. OwnTypes(c)'
  BY <1>1, <1>5, <1>6, <1>7
     DEF OwnTypes, ReportTypes, CallTypes, FetchStages, ExtractStages, InTransaction, Types, TypeOK
<1>. QED  BY <1>4, <1>5, <1>8 DEF SharedTypes, Types, TypeOK

LEMMA TypesInsertExtraction ==
  ASSUME Types, NEW c \in Callers, InsertExtraction(c)
  PROVE  OwnTypes(c)' /\ SharedTypes'
<1> DEFINE r == Current(c)
<1>1. pc[c] = "extraction" /\ at[c] \in DOMAIN reports[c] /\ BodyCheck(r.content)
  BY DEF InsertExtraction
<1>2. /\ Len(reports[c]) \in Nat /\ DOMAIN reports[c] = 1 .. Len(reports[c])
      /\ r.document \in Documents /\ r.id \in 1 .. MaxId /\ r.content \in Extracts
  BY <1>1, CurrentExtract DEF ExtractStages, Current
<1>3. PICK row :
        /\ newContent' = [newContent EXCEPT ![c] =
                            {y \in newContent[c] : Key(y) # Key(row)} \cup {row}]
        /\ row.asset = r.id /\ row.document = r.document
        /\ row.id \in 1 .. MaxId
        /\ ids' \in 0 .. MaxId
  BY <1>1, <1>2, InsertResult, ExtractOutput DEF InsertExtraction
<1>4. /\ pc' = pc /\ at' = [at EXCEPT ![c] = @ + 1]
      /\ reports' = reports /\ newAsset' = newAsset /\ asset' = asset /\ content' = content
  BY DEF InsertExtraction, storeVars
<1>5. \A x \in newContent'[c] :
        x.id \in 1 .. MaxId /\ x.asset \in 1 .. MaxId /\ x.document \in Documents
  BY <1>2, <1>3 DEF Types, CallTypes
<1>6. at'[c] \in 1 .. Len(reports'[c]) + 1
  BY <1>1, <1>2, <1>4 DEF Types, TypeOK
<1>7. OwnTypes(c)'
  BY <1>1, <1>4, <1>5, <1>6
     DEF OwnTypes, ReportTypes, CallTypes, FetchStages, ExtractStages, InTransaction, Types, TypeOK
<1>. QED  BY <1>3, <1>4, <1>7 DEF SharedTypes, Types, TypeOK

LEMMA TypesPublish ==
  ASSUME Types, NEW c \in Callers, Publish(c), ids' = ids
  PROVE  SharedTypes'
<1>1. \A d \in Documents : AssetSeen(c, d) \in AssetRow \cup {NoAsset}
  BY DEF AssetSeen, Types, TypeOK
<1>2. asset' \in [Documents -> AssetRow \cup {NoAsset}]  BY <1>1 DEF Publish
<1>3. content' \subseteq newContent[c] \cup content  BY DEF Publish
<1>. QED  BY <1>2, <1>3 DEF SharedTypes, Types, TypeOK, CallTypes

(* The end of a transaction, and what the caller goes on with.             *)
LEMMA TypesEnd ==
  ASSUME Types, NEW c \in Callers, End(c),
         pc'[c] \in {"idle", "fetched", "recorded", "extracted"},
         ReportTypes(c)', Len(reports'[c]) \in Nat
  PROVE  OwnTypes(c)'
<1>1. /\ at'[c] = 1 /\ newContent'[c] = {}
      /\ newAsset'[c] = [d \in Documents |-> NoAsset]
  BY DEF End, Types
<1>. QED  BY <1>1 DEF OwnTypes, CallTypes, InTransaction

LEMMA TypesCommit ==
  ASSUME Types, NEW c \in Callers, CommitFetches(c) \/ CommitExtractions(c)
  PROVE  OwnTypes(c)' /\ SharedTypes'
<1>1. SharedTypes'
  BY TypesPublish DEF CommitFetches, CommitExtractions, End
<1>2. CASE CommitFetches(c)
  <2>1. pc[c] = "asset" /\ pc'[c] \in {"recorded", "fetched"} /\ reports' = reports
    BY <1>2 DEF CommitFetches, Types, TypeOK
  <2>2. ReportTypes(c)' /\ Len(reports'[c]) \in Nat
    BY <2>1, CurrentFetch DEF ReportTypes, FetchStages, ExtractStages, Types
  <2>. QED  BY <1>1, <1>2, <2>1, <2>2, TypesEnd DEF CommitFetches
<1>3. CASE CommitExtractions(c)
  <2>1. CASE pc' = [pc EXCEPT ![c] = "extracted"] /\ reports' = reports
    <3>1. pc[c] = "extraction" /\ pc'[c] = "extracted"
      BY <1>3, <2>1 DEF CommitExtractions, Types, TypeOK
    <3>2. ReportTypes(c)' /\ Len(reports'[c]) \in Nat
      BY <2>1, <3>1, CurrentExtract DEF ReportTypes, FetchStages, ExtractStages, Types
    <3>. QED  BY <1>1, <1>3, <3>1, <3>2, TypesEnd DEF CommitExtractions
  <2>2. CASE pc' = [pc EXCEPT ![c] = "idle"] /\ reports' = [reports EXCEPT ![c] = <<>>]
    <3>1. pc'[c] = "idle" /\ reports'[c] = <<>>  BY <2>2 DEF Types, TypeOK
    <3>2. ReportTypes(c)' /\ Len(reports'[c]) \in Nat
      BY <3>1 DEF ReportTypes, FetchStages, ExtractStages
    <3>. QED  BY <1>1, <1>3, <3>1, <3>2, TypesEnd DEF CommitExtractions
  <2>. QED  BY <1>3, <2>1, <2>2 DEF CommitExtractions
<1>. QED  BY <1>2, <1>3

LEMMA TypesFail ==
  ASSUME Types, NEW c \in Callers, Fail(c)
  PROVE  OwnTypes(c)' /\ SharedTypes'
<1>1. pc'[c] = "idle" /\ reports'[c] = <<>>  BY DEF Fail, Types, TypeOK
<1>2. ReportTypes(c)' /\ Len(reports'[c]) \in Nat
  BY <1>1 DEF ReportTypes, FetchStages, ExtractStages
<1>. QED  BY <1>1, <1>2, TypesEnd DEF Fail, End, SharedTypes, Types, TypeOK

(* A caller that has looked up or extracted outside of a transaction.      *)
LEMMA TypesOutside ==
  ASSUME Types, NEW c \in Callers, ~InTransaction(c), ~InTransaction(c)',
         at' = at, newAsset' = newAsset, newContent' = newContent,
         asset' = asset, content' = content, ids' = ids,
         ReportTypes(c)', Len(reports'[c]) \in Nat
  PROVE  OwnTypes(c)' /\ SharedTypes'
<1>1. at'[c] = 1 /\ newContent'[c] = {}  BY DEF Types, TypeOK, CallTypes
<1>2. OwnTypes(c)'  BY <1>1 DEF OwnTypes, CallTypes, InTransaction, Types, TypeOK
<1>. QED  BY <1>2 DEF SharedTypes, Types, TypeOK

LEMMA TypesLookup ==
  ASSUME Types, NEW c \in Callers, Lookup(c)
  PROVE  OwnTypes(c)' /\ SharedTypes'
<1>1. /\ pc[c] = "recorded" /\ UNCHANGED <<asset, content, ids, at, newAsset, newContent>>
      /\ ~InTransaction(c)
  BY DEF Lookup, storeVars, InTransaction
<1>2. CASE /\ reports' = [reports EXCEPT ![c] =
                [i \in DOMAIN reports[c] |->
                   [reports[c][i] EXCEPT !.id = AssetId(reports[c][i].document)]]]
           /\ pc' = [pc EXCEPT ![c] = "known"]
  <2>1. reports[c] \in Seq(FetchReport)
    BY <1>1 DEF Types, ReportTypes, FetchStages
  <2>2. ASSUME NEW i \in 1 .. Len(reports[c])
        PROVE  [reports[c][i] EXCEPT !.id = AssetId(reports[c][i].document)] \in FetchReport
    <3>1. reports[c][i] \in FetchReport  BY <2>1, SeqElement
    <3>2. AssetId(reports[c][i].document) \in 0 .. MaxId
      BY <3>1, MaxIdAssumption DEF AssetId, FetchReport, AssetRow, Types, TypeOK
    <3>. QED  BY <3>1, <3>2 DEF FetchReport
  <2>3. reports'[c] \in Seq(FetchReport)
    <3>1. Len(reports[c]) \in Nat /\ DOMAIN reports[c] = 1 .. Len(reports[c])  BY <2>1, SeqElement
    <3>2. reports'[c] = [i \in 1 .. Len(reports[c]) |->
                          [reports[c][i] EXCEPT !.id = AssetId(reports[c][i].document)]]
      BY <1>2, <3>1 DEF Types
    <3>3. ASSUME NEW i \in 1 .. Len(reports[c]) PROVE reports'[c][i] \in FetchReport
      BY <2>2, <3>2
    <3>4. reports'[c] = [i \in 1 .. Len(reports[c]) |-> reports'[c][i]]  BY <3>2
    <3>. QED  BY <3>1, <3>3, <3>4, SeqOfReports
  <2>4. pc'[c] = "known"  BY <1>2 DEF Types, TypeOK
  <2>5. Len(reports'[c]) \in Nat /\ ReportTypes(c)' /\ ~InTransaction(c)'
    BY <2>3, <2>4 DEF ReportTypes, FetchStages, ExtractStages, InTransaction
  <2>. QED  BY <1>1, <2>5, TypesOutside
<1>3. CASE /\ reports' = [reports EXCEPT ![c] = <<>>]
           /\ pc' = [pc EXCEPT ![c] = "idle"]
  <2>1. pc'[c] = "idle" /\ reports'[c] = <<>>  BY <1>3 DEF Types, TypeOK
  <2>2. Len(reports'[c]) \in Nat /\ ReportTypes(c)' /\ ~InTransaction(c)'
    BY <2>1 DEF ReportTypes, FetchStages, ExtractStages, InTransaction
  <2>. QED  BY <1>1, <2>2, TypesOutside
<1>. QED  BY <1>2, <1>3 DEF Lookup

(* The reports of an extraction, in terms of those fetched.                *)
LEMMA ExtractResult ==
  ASSUME Types, NEW c \in Callers, ExtractAll(c)
  PROVE  /\ reports'[c] = [i \in 1 .. Cardinality(Extractable(c)) |-> reports'[c][i]]
         /\ \A i \in DOMAIN reports'[c] : \E k \in Extractable(c) : \E fixture \in Fixtures :
              reports'[c][i] =
                [document |-> reports[c][k].document, id |-> reports[c][k].id,
                 content |-> Extract(reports[c][k].report.source, reports[c][k].at, fixture)]
<1> DEFINE n == Cardinality(Extractable(c))
           Found(fixture, order) ==
             [i \in DOMAIN order |->
               [document |-> reports[c][order[i]].document, id |-> reports[c][order[i]].id,
                content |-> Extract(reports[c][order[i]].report.source,
                                    reports[c][order[i]].at, fixture)]]
<1>1. PICK fixture \in Fixtures : \E order \in [1 .. n -> Extractable(c)] :
        reports'[c] = Found(fixture, order)
  BY DEF ExtractAll, Types
<1>2. PICK order \in [1 .. n -> Extractable(c)] : reports'[c] = Found(fixture, order)
  BY <1>1
<1>. QED  BY <1>2

LEMMA TypesExtractAll ==
  ASSUME Types, NEW c \in Callers, ExtractAll(c)
  PROVE  OwnTypes(c)' /\ SharedTypes'
<1> DEFINE n == Cardinality(Extractable(c))
<1>1. /\ pc[c] = "known" /\ UNCHANGED <<asset, content, ids, at, newAsset, newContent>>
      /\ ~InTransaction(c) /\ pc'[c] = "extracted"
  BY DEF ExtractAll, storeVars, InTransaction, Types, TypeOK
<1>2. n \in Nat
  <2>1. Extractable(c) \subseteq 1 .. Len(reports[c]) /\ Len(reports[c]) \in Nat
    BY <1>1, CurrentFetch DEF Extractable, FetchStages
  <2>2. IsFiniteSet(1 .. Len(reports[c]))  BY <2>1, FS_Interval
  <2>3. IsFiniteSet(Extractable(c))  BY <2>1, <2>2, FS_Subset
  <2>. QED  BY <2>3, FS_CardinalityType
<1>3. reports'[c] = [i \in 1 .. n |-> reports'[c][i]]  BY ExtractResult
<1>4. ASSUME NEW i \in 1 .. n PROVE reports'[c][i] \in ExtractReport
  <2>1. PICK k \in Extractable(c) : \E fixture \in Fixtures :
          reports'[c][i] =
            [document |-> reports[c][k].document, id |-> reports[c][k].id,
             content |-> Extract(reports[c][k].report.source, reports[c][k].at, fixture)]
    BY <1>3, ExtractResult
  <2> DEFINE r == reports[c][k]
  <2>2. k \in DOMAIN reports[c] /\ r.id # 0  BY DEF Extractable
  <2>3. r.document \in Documents /\ r.id \in 1 .. MaxId /\ r.report \in Fetches /\ r.at \in Times
    BY <1>1, <2>2, CurrentFetch, MaxIdAssumption DEF FetchStages
  <2>4. \A fixture \in Fixtures : Extract(r.report.source, r.at, fixture) \in Extracts
    BY <2>3 DEF Extracts
  <2>. QED  BY <2>1, <2>3, <2>4 DEF ExtractReport
<1>5. reports'[c] \in Seq(ExtractReport)  BY <1>2, <1>3, <1>4, SeqOfReports
<1>6. Len(reports'[c]) \in Nat /\ ReportTypes(c)' /\ ~InTransaction(c)'
  BY <1>1, <1>5 DEF ReportTypes, FetchStages, ExtractStages, InTransaction
<1>. QED  BY <1>1, <1>6, TypesOutside

LEMMA TypesCall ==
  ASSUME Types, NEW c \in Callers, Call(c)
  PROVE  Types'
<1>1. OwnTypes(c)' /\ SharedTypes'
  BY TypesFetchMany, TypesBegin, TypesUpsertAsset, TypesInsertContent, TypesInsertExtraction,
     TypesCommit, TypesFail, TypesLookup, TypesExtractAll DEF Call
<1>. QED  BY <1>1, CallFrame, TypesFramed

LEMMA TypesStutter == Types /\ UNCHANGED vars => Types'
BY DEF vars, storeVars, pageVars, callVars, Types, TypeOK, ReportTypes, CallTypes, Current,
       InTransaction

(* Every value has its type.                                               *)
THEOREM TypeCorrect == Spec => []TypeOK
<1>1. Types /\ [Next]_vars => Types'
  BY TypesPage, TypesCall, TypesStutter DEF Next
<1>2. Types => TypeOK  BY DEF Types
<1>. QED  BY <1>1, <1>2, TypesInit, PTL DEF Spec

-------------------------------------------------------------------------------
(* Which asset belongs to which document.                                  *)

(* An id is known to be that of document d's asset: by the committed row,  *)
(* by one that a transaction has written, or by a caller that looked it up *)
(* before, whatever has become of the row since.                           *)
Claims(id, d) ==
  \/ asset[d] # NoAsset /\ asset[d].id = id
  \/ \E c \in Callers : newAsset[c][d] # NoAsset /\ newAsset[c][d].id = id
  \/ \E c \in Callers : \E i \in DOMAIN reports[c] :
       /\ pc[c] \in {"known", "extracted", "extraction"}
       /\ reports[c][i].document = d /\ reports[c][i].id = id /\ id # 0

(* An identity value is never used for the assets of two documents.        *)
Owned ==
  \A d \in Documents : \A id \in 1 .. MaxId :
    Claims(id, d) => id <= ids /\ \A e \in Documents : Claims(id, e) => d = e

(* The documents a transaction has written to stay.                        *)
LockedStay ==
  \A c \in Callers : \A d \in Locked(c) : d \in present /\ d \notin Rewritten

(* Who writes an asset has its row for itself and keeps its id.            *)
AssetsHeld ==
  \A c \in Callers : \A d \in Documents : newAsset[c][d] # NoAsset =>
    /\ d \in Locked(c)
    /\ asset[d] # NoAsset => asset[d].id = newAsset[c][d].id
    /\ \A other \in Callers \ {c} : newAsset[other][d] = NoAsset

(* What a transaction would leave is right as well.                        *)
ContentsHeld ==
  \A c \in Callers : \A x \in newContent[c] :
    /\ x.document \in Locked(c)
    /\ AssetSeen(c, x.document) # NoAsset
    /\ AssetSeen(c, x.document).id = x.asset

(* Rows with one key are one row, within and across transactions.          *)
Unique ==
  /\ \A x, y \in content : Key(x) = Key(y) => x.id = y.id
  /\ \A c \in Callers : \A x \in newContent[c] :
       /\ \A y \in newContent[c] \cup content : Key(x) = Key(y) => x.id = y.id
       /\ \A other \in Callers \ {c} : \A y \in newContent[other] : Key(x) # Key(y)

IInv ==
  /\ Types
  /\ Owned
  /\ LockedStay
  /\ AssetsHeld
  /\ ContentsHeld
  /\ ContentMatchesAsset
  /\ Unique

LEMMA InitInv == Init => IInv
<1> SUFFICES ASSUME Init PROVE IInv  OBVIOUS
<1>1. Types  BY TypesInit
<1>2. Owned  BY DEF Init, Owned, Claims
<1>3. LockedStay  BY DEF Init, LockedStay, Locked, InTransaction
<1>4. AssetsHeld /\ ContentsHeld /\ ContentMatchesAsset /\ Unique
  BY DEF Init, AssetsHeld, ContentsHeld, ContentMatchesAsset, Unique
<1>. QED  BY <1>1, <1>2, <1>3, <1>4 DEF IInv

-------------------------------------------------------------------------------
(* Pages.  They take rows away from documents that nobody has locked.      *)

LEMMA PageEffect ==
  ASSUME IInv, PageStep
  PROVE  /\ UNCHANGED callVars /\ ids' = ids
         /\ \A d \in Documents : asset'[d] = asset[d] \/ (d \in Rewritten /\ asset'[d] = NoAsset)
         /\ \A x \in content' :
              /\ x \in content /\ x.document \in present'
              /\ asset'[x.document] = asset[x.document]
         /\ \A d \in present : d \notin Rewritten => d \in present'
         /\ \A d \in Rewritten' : d \in Rewritten \/ \A c \in Callers : d \notin Locked(c)
<1>1. /\ page \in Pages \cup {NoPage}
      /\ \A x \in content : x.document \in Documents /\ x.document \in present
  BY DEF IInv, Types, TypeOK, ContentMatchesAsset
<1>2. DOMAIN page = 1 .. Len(page) /\ Len(page) \in Nat  BY <1>1, PageTyped
<1>3. CASE BeginPage
  <2>1. Rewritten' = {}
    BY <1>3, PageTyped DEF BeginPage, Rewritten
  <2>. QED  BY <1>1, <1>3, <2>1 DEF BeginPage, storeVars
<1>4. CASE WriteDocument
  <2>1. \A d \in Rewritten' : d \in Rewritten \/ d = page[next].document
    BY <1>2, <1>4 DEF WriteDocument, Rewritten
  <2>. QED  BY <1>1, <1>4, <2>1 DEF WriteDocument, storeVars
<1>5. CASE CommitPage
  <2>1. Rewritten' = {}  BY <1>5 DEF CommitPage, Rewritten, NoPage
  <2>. QED  BY <1>1, <1>5, <2>1 DEF CommitPage
<1>6. CASE FailPage
  <2>1. Rewritten' = {}  BY <1>6 DEF FailPage, Rewritten, NoPage
  <2>. QED  BY <1>1, <1>6, <2>1 DEF FailPage, storeVars
<1>. QED  BY <1>3, <1>4, <1>5, <1>6 DEF PageStep

LEMMA OwnedByClaims ==
  ASSUME Types, Types', Owned, ids <= ids',
         \A d \in Documents : \A id \in 1 .. MaxId : Claims(id, d)' => Claims(id, d)
  PROVE  Owned'
<1>1. ids \in Int /\ ids' \in Int /\ MaxId \in Int  BY MaxIdAssumption DEF Types, TypeOK
<1> HIDE DEF Claims
<1>. QED  BY <1>1 DEF Owned

LEMMA LockedTyped ==
  ASSUME Types, NEW c \in Callers
  PROVE  Locked(c) \subseteq Documents
<1>1. CASE InTransaction(c)
  <2>1. pc[c] \in FetchStages \/ pc[c] \in ExtractStages
    BY <1>1 DEF InTransaction, FetchStages, ExtractStages
  <2>2. \A i \in DOMAIN reports[c] : reports[c][i].document \in Documents
    BY <2>1, CurrentFetch, CurrentExtract
  <2>. QED  BY <2>2 DEF Locked
<1>2. CASE ~InTransaction(c)  BY <1>2 DEF Locked
<1>. QED  BY <1>1, <1>2

LEMMA InvPage ==
  ASSUME IInv, PageStep
  PROVE  IInv'
<1>1. Types'  BY TypesPage DEF IInv
<1>2. \A c \in Callers : Locked(c)' = Locked(c)
  BY PageEffect DEF callVars, Locked, InTransaction
<1>3. \A c \in Callers : Locked(c) \subseteq Documents  BY LockedTyped DEF IInv
<1>4. Owned'
  <2>1. ASSUME NEW d \in Documents, NEW id \in 1 .. MaxId, Claims(id, d)' PROVE Claims(id, d)
    BY <2>1, PageEffect DEF Claims, callVars
  <2>2. ids <= ids'  BY PageEffect DEF IInv, Types, TypeOK
  <2>. QED  BY <1>1, <2>1, <2>2, OwnedByClaims DEF IInv
<1>5. LockedStay'
  BY <1>2, PageEffect DEF IInv, LockedStay
<1>6. \A c \in Callers : \A d \in Locked(c) : asset'[d] = asset[d]
  BY <1>3, PageEffect DEF IInv, LockedStay
<1>7. AssetsHeld'
  BY <1>2, <1>6, PageEffect DEF IInv, AssetsHeld, callVars
<1>8. ContentsHeld'
  BY <1>2, <1>6, PageEffect DEF IInv, ContentsHeld, AssetSeen, callVars
<1>9. ContentMatchesAsset'
  BY PageEffect DEF IInv, ContentMatchesAsset, AssetId
<1>10. Unique'
  BY PageEffect DEF IInv, Unique, Key, callVars
<1>. QED  BY <1>1, <1>4, <1>5, <1>7, <1>8, <1>9, <1>10 DEF IInv

-------------------------------------------------------------------------------
(* Callers.                                                                *)

LEMMA OthersLocked ==
  ASSUME NEW c \in Callers, Frame(c)
  PROVE  Rewritten' = Rewritten /\ \A e \in Callers \ {c} : Locked(e)' = Locked(e)
<1>1. Rewritten' = Rewritten  BY DEF Frame, Rewritten
<1>2. ASSUME NEW e \in Callers \ {c} PROVE Locked(e)' = Locked(e)
  <2>1. pc'[e] = pc[e] /\ reports'[e] = reports[e] /\ at'[e] = at[e]  BY DEF Frame
  <2>. QED  BY <2>1 DEF Locked, InTransaction
<1>. QED  BY <1>1, <1>2

(* A transaction that has not begun has locked and written nothing.        *)
LEMMA OutsideHoldsNothing ==
  ASSUME IInv, NEW c \in Callers, ~InTransaction(c)
  PROVE  newContent[c] = {} /\ \A d \in Documents : newAsset[c][d] = NoAsset
<1>1. Locked(c) = {}  BY DEF Locked
<1>. QED  BY <1>1 DEF IInv, Types, TypeOK, AssetsHeld

LEMMA NothingLocked ==
  ASSUME Types, NEW c \in Callers, at[c] = 1, pc[c] # "content"
  PROVE  Locked(c) = {}
<1>1. CASE InTransaction(c)
  <2>1. DOMAIN reports[c] = 1 .. Len(reports[c]) /\ Len(reports[c]) \in Nat
    BY <1>1, CurrentFetch, CurrentExtract DEF InTransaction, FetchStages, ExtractStages
  <2>. QED  BY <1>1, <2>1 DEF Locked
<1>2. CASE ~InTransaction(c)  BY <1>2 DEF Locked
<1>. QED  BY <1>1, <1>2

(* What is left to show of a step that writes nothing.                     *)
LEMMA InvQuiet ==
  ASSUME IInv, Types', NEW c \in Callers, Frame(c), ids' = ids,
         asset' = asset, content' = content,
         at'[c] = 1, pc'[c] # "content",
         newContent'[c] = {}, \A d \in Documents : newAsset'[c][d] = NoAsset,
         \A d \in Documents : \A id \in 1 .. MaxId : Claims(id, d)' => Claims(id, d)
  PROVE  IInv'
<1>1. Locked(c)' = {}
  <2>1. CASE InTransaction(c)'
    <3>1. (DOMAIN reports[c] = 1 .. Len(reports[c]) /\ Len(reports[c]) \in Nat)'
      <4>1. pc'[c] \in FetchStages \/ pc'[c] \in ExtractStages
        BY <2>1 DEF InTransaction, FetchStages, ExtractStages
      <4>2. reports'[c] \in Seq(FetchReport) \/ reports'[c] \in Seq(ExtractReport)
        BY <4>1 DEF Types, ReportTypes
      <4>. QED  BY <4>2, SeqElement
    <3>. QED  BY <2>1, <3>1 DEF Locked
  <2>2. CASE ~InTransaction(c)'  BY <2>2 DEF Locked
  <2>. QED  BY <2>1, <2>2
<1>2. Owned'
  <2>1. ids <= ids'  BY DEF IInv, Types, TypeOK
  <2>. QED  BY <2>1, OwnedByClaims DEF IInv
<1>3. LockedStay'
  BY <1>1, OthersLocked DEF IInv, LockedStay, Frame
<1>4. AssetsHeld'
  <2>1. ASSUME NEW e \in Callers, NEW d \in Documents, newAsset'[e][d] # NoAsset
        PROVE  /\ d \in Locked(e)'
               /\ asset'[d] # NoAsset => asset'[d].id = newAsset'[e][d].id
               /\ \A other \in Callers \ {e} : newAsset'[other][d] = NoAsset
    <3>1. e # c /\ newAsset'[e] = newAsset[e]  BY <2>1 DEF Frame
    <3>. QED  BY <2>1, <3>1, OthersLocked DEF IInv, AssetsHeld, Frame
  <2>. QED  BY <2>1 DEF AssetsHeld
<1>5. ContentsHeld'
  BY OthersLocked DEF IInv, ContentsHeld, AssetSeen, Frame
<1>6. ContentMatchesAsset'  BY DEF IInv, ContentMatchesAsset, AssetId, Frame
<1>7. Unique'  BY DEF IInv, Unique, Key, Frame
<1>. QED  BY <1>2, <1>3, <1>4, <1>5, <1>6, <1>7 DEF IInv

LEMMA InvOutside ==
  ASSUME IInv, NEW c \in Callers,
         \/ FetchMany(c) \/ Begin(c, "fetched", "asset") \/ Lookup(c) \/ ExtractAll(c)
         \/ Begin(c, "extracted", "extraction")
  PROVE  IInv'
<1>1. Frame(c) /\ Types'  BY CallFrame, TypesCall DEF Call, IInv
<1>2. /\ ~InTransaction(c) /\ UNCHANGED <<asset, content, ids, newAsset, newContent>>
      /\ pc'[c] # "content"
  BY DEF FetchMany, Begin, Lookup, ExtractAll, InTransaction, storeVars, IInv, Types, TypeOK
<1>3. at[c] = 1 /\ at'[c] = 1
  BY <1>2 DEF IInv, Types, CallTypes, FetchMany, Begin, Lookup, ExtractAll
<1>4. ASSUME NEW d \in Documents, NEW id \in 1 .. MaxId, Claims(id, d)'
      PROVE  Claims(id, d)
  <2>1. CASE \E e \in Callers \ {c} : \E i \in DOMAIN reports'[e] :
               /\ pc'[e] \in {"known", "extracted", "extraction"}
               /\ reports'[e][i].document = d /\ reports'[e][i].id = id /\ id # 0
    BY <1>1, <2>1 DEF Claims, Frame
  <2>2. CASE \E i \in DOMAIN reports'[c] :
               /\ pc'[c] \in {"known", "extracted", "extraction"}
               /\ reports'[c][i].document = d /\ reports'[c][i].id = id /\ id # 0
    <3> PICK i \in DOMAIN reports'[c] :
               /\ pc'[c] \in {"known", "extracted", "extraction"}
               /\ reports'[c][i].document = d /\ reports'[c][i].id = id /\ id # 0
      BY <2>2
    <3>1. CASE FetchMany(c) \/ Begin(c, "fetched", "asset")
      BY <2>2, <3>1 DEF FetchMany, Begin, IInv, Types, TypeOK
    <3>2. CASE Begin(c, "extracted", "extraction")
      BY <2>2, <3>2 DEF Begin, Claims
    <3>3. CASE Lookup(c)
      <4>1. /\ DOMAIN reports'[c] = DOMAIN reports[c] /\ pc[c] = "recorded"
            /\ reports'[c][i] = [reports[c][i] EXCEPT !.id = AssetId(reports[c][i].document)]
        <5>1. pc'[c] # "idle" /\ pc[c] = "recorded"  BY <3>3 DEF Lookup
        <5>2. reports' = [reports EXCEPT ![c] =
                           [k \in DOMAIN reports[c] |->
                             [reports[c][k] EXCEPT !.id = AssetId(reports[c][k].document)]]]
          BY <3>3, <5>1 DEF Lookup, IInv, Types, TypeOK
        <5>3. reports'[c] = [k \in DOMAIN reports[c] |->
                              [reports[c][k] EXCEPT !.id = AssetId(reports[c][k].document)]]
          BY <5>2 DEF IInv, Types
        <5>. QED  BY <5>1, <5>3
      <4>2. reports[c][i] \in FetchReport
        BY <4>1, SeqElement DEF IInv, Types, ReportTypes, FetchStages
      <4>3. reports'[c][i].document = reports[c][i].document
            /\ reports'[c][i].id = AssetId(reports[c][i].document)
        BY <4>1, <4>2 DEF FetchReport
      <4>. QED  BY <4>3 DEF AssetId, Claims
    <3>4. CASE ExtractAll(c)
      <4>1. \E k \in DOMAIN reports[c] : reports[c][k].document = d /\ reports[c][k].id = id
        <5>1. PICK k \in Extractable(c) : \E fixture \in Fixtures :
                reports'[c][i] =
                  [document |-> reports[c][k].document, id |-> reports[c][k].id,
                   content |-> Extract(reports[c][k].report.source, reports[c][k].at, fixture)]
          BY <3>4, ExtractResult DEF IInv
        <5>2. reports'[c][i].document = reports[c][k].document /\ reports'[c][i].id = reports[c][k].id
          BY <5>1
        <5>. QED  BY <5>2 DEF Extractable
      <4>2. pc[c] = "known"  BY <3>4 DEF ExtractAll
      <4>. QED  BY <4>1, <4>2, <2>2 DEF Claims
    <3>. QED  BY <3>1, <3>2, <3>3, <3>4
  <2>. QED  BY <1>2, <1>4, <2>1, <2>2 DEF Claims
<1>. QED  BY <1>1, <1>2, <1>3, <1>4, OutsideHoldsNothing, InvQuiet

LEMMA InvFail ==
  ASSUME IInv, NEW c \in Callers, Fail(c)
  PROVE  IInv'
<1>1. Frame(c) /\ Types'  BY CallFrame, TypesCall DEF Call, IInv
<1>2. /\ pc'[c] = "idle" /\ at'[c] = 1 /\ newContent'[c] = {}
      /\ newAsset'[c] = [d \in Documents |-> NoAsset]
      /\ asset' = asset /\ content' = content /\ ids' = ids
  BY DEF Fail, End, IInv, Types, TypeOK
<1>3. ASSUME NEW d \in Documents, NEW id \in 1 .. MaxId, Claims(id, d)'
      PROVE  Claims(id, d)
  BY <1>1, <1>2, <1>3 DEF Claims, Frame
<1>. QED  BY <1>1, <1>2, <1>3, InvQuiet

LEMMA InvUpsertAsset ==
  ASSUME IInv, NEW c \in Callers, UpsertAsset(c)
  PROVE  IInv'
<1> DEFINE r == Current(c)
           doc == r.document
           seen == AssetSeen(c, doc)
           id == IF seen = NoAsset THEN ids + 1 ELSE seen.id
           row == [id |-> id, status |-> r.report.status, at |-> r.at]
<1>1. Frame(c) /\ Types' /\ Types  BY CallFrame, TypesCall DEF Call, IInv
<1>2. /\ pc[c] = "asset" /\ at[c] \in DOMAIN reports[c] /\ RowFree(c, doc) /\ doc \in present
      /\ id <= MaxId /\ ids' = (IF seen = NoAsset THEN id ELSE ids)
      /\ newAsset' = [newAsset EXCEPT ![c][doc] = row]
      /\ reports' = reports /\ newContent' = newContent /\ asset' = asset /\ content' = content
  BY DEF UpsertAsset, storeVars
<1>3. \/ pc' = [pc EXCEPT ![c] = "content"] /\ at' = at
      \/ at' = [at EXCEPT ![c] = @ + 1] /\ pc' = pc
  BY DEF UpsertAsset
<1>4. DOMAIN reports[c] = 1 .. Len(reports[c]) /\ Len(reports[c]) \in Nat /\ doc \in Documents
  BY <1>1, <1>2, CurrentFetch DEF FetchStages, Current
<1>5. at[c] \in Nat /\ ids \in Nat /\ MaxId \in Nat
  BY <1>2, <1>4, MaxIdAssumption DEF IInv, Types, TypeOK
<1>6. Locked(c)' = Locked(c) \cup {doc}
  <2>1. Locked(c) = {reports[c][i].document : i \in {k \in DOMAIN reports[c] : k < at[c]}}
    BY <1>2 DEF Locked, InTransaction
  <2>2. Locked(c)' =
          {reports[c][i].document : i \in {k \in DOMAIN reports[c] : k < at[c] \/ k = at[c]}}
    <3>1. CASE pc' = [pc EXCEPT ![c] = "content"] /\ at' = at
      BY <1>2, <3>1 DEF Locked, InTransaction, IInv, Types, TypeOK
    <3>2. CASE at' = [at EXCEPT ![c] = @ + 1] /\ pc' = pc
      <4>1. \A k \in DOMAIN reports[c] : k < at[c] + 1 <=> (k < at[c] \/ k = at[c])
        BY <1>4, <1>5
      <4>2. pc'[c] = "asset" /\ at'[c] = at[c] + 1  BY <1>2, <3>2 DEF IInv, Types
      <4>. QED  BY <1>2, <4>1, <4>2 DEF Locked, InTransaction
    <3>. QED  BY <1>3, <3>1, <3>2
  <2>. QED  BY <1>2, <2>1, <2>2 DEF Current
<1>7. /\ newAsset'[c][doc] = row
      /\ \A d \in Documents \ {doc} : newAsset'[c][d] = newAsset[c][d]
      /\ \A e \in Callers \ {c} : newAsset'[e] = newAsset[e] /\ newAsset[e][doc] = NoAsset
      /\ row \in AssetRow /\ row # NoAsset
  <2>1. newAsset'[c] = [newAsset[c] EXCEPT ![doc] = row]  BY <1>1, <1>2 DEF Types
  <2>2. newAsset[c] \in [Documents -> AssetRow \cup {NoAsset}]  BY <1>1 DEF Types, TypeOK
  <2>3. newAsset'[c][doc] = row /\ \A d \in Documents \ {doc} : newAsset'[c][d] = newAsset[c][d]
    BY <1>4, <2>1, <2>2
  <2>4. /\ r.report \in Fetches /\ r.at \in Times
        /\ seen \in AssetRow \cup {NoAsset}
    <3>1. r.report \in Fetches /\ r.at \in Times
      BY <1>1, <1>2, CurrentFetch DEF FetchStages, Current
    <3>2. asset[doc] \in AssetRow \cup {NoAsset}  BY <1>1, <1>4 DEF Types, TypeOK
    <3>. QED  BY <1>4, <2>2, <3>1, <3>2 DEF AssetSeen
  <2>5. id \in 1 .. MaxId  BY <1>2, <1>5, <2>4 DEF AssetRow
  <2>6. row \in AssetRow  BY <2>4, <2>5, FetchStatus DEF AssetRow
  <2>. QED  BY <1>2, <2>3, <2>6, NoAssetAssumption DEF RowFree, Frame, Types
<1>8. seen # NoAsset => Claims(row.id, doc)
  BY <1>4 DEF AssetSeen, Claims
<1>9. ASSUME NEW d \in Documents, NEW n \in 1 .. MaxId, Claims(n, d)'
      PROVE  Claims(n, d) \/ (d = doc /\ n = row.id)
  <2>1. CASE asset'[d] # NoAsset /\ asset'[d].id = n  BY <1>2, <2>1 DEF Claims
  <2>2. CASE \E e \in Callers : newAsset'[e][d] # NoAsset /\ newAsset'[e][d].id = n
    BY <1>4, <1>7, <2>2 DEF Claims
  <2>3. CASE \E e \in Callers : \E i \in DOMAIN reports'[e] :
               /\ pc'[e] \in {"known", "extracted", "extraction"}
               /\ reports'[e][i].document = d /\ reports'[e][i].id = n /\ n # 0
    <3>1. pc'[c] \in {"asset", "content"}  BY <1>1, <1>2, <1>3 DEF Types, TypeOK
    <3>. QED  BY <1>1, <2>3, <3>1 DEF Claims, Frame
  <2>. QED  BY <1>9, <2>1, <2>2, <2>3 DEF Claims
<1> HIDE DEF seen, row
<1>10. Owned'
  <2>1. CASE seen # NoAsset
    <3>1. ids' = ids  BY <1>2, <2>1
    <3>. QED  BY <1>1, <1>5, <1>8, <1>9, <2>1, <3>1, OwnedByClaims DEF IInv
  <2>2. CASE seen = NoAsset
    <3>1. row.id = ids + 1 /\ ids' = ids + 1  BY <1>2, <2>2 DEF row
    <3>2. \A d \in Documents : \A n \in 1 .. MaxId : Claims(n, d) => n <= ids
      BY DEF IInv, Owned
    <3>3. ASSUME NEW d \in Documents, NEW n \in 1 .. MaxId, Claims(n, d)'
          PROVE  n <= ids' /\ \A e \in Documents : Claims(n, e)' => d = e
      <4>1. CASE n = ids + 1
        <5>1. ~Claims(n, d)  BY <1>5, <3>2, <4>1
        <5>2. \A e \in Documents : Claims(n, e)' => e = doc
          BY <1>5, <1>9, <3>2, <4>1
        <5>. QED  BY <1>5, <3>1, <3>3, <4>1, <5>2
      <4>2. CASE n # ids + 1
        <5>1. \A e \in Documents : Claims(n, e)' => Claims(n, e)
          BY <1>9, <3>1, <4>2
        <5>2. Claims(n, d) /\ n <= ids  BY <3>2, <3>3, <5>1
        <5>3. \A e \in Documents : Claims(n, e) => d = e  BY <5>2 DEF IInv, Owned
        <5>. QED  BY <1>5, <3>1, <5>1, <5>2, <5>3
      <4>. QED  BY <4>1, <4>2
    <3>. QED  BY <3>3 DEF Owned
  <2>. QED  BY <2>1, <2>2
<1>11. LockedStay'
  BY <1>1, <1>2, <1>6, OthersLocked DEF IInv, LockedStay, Frame, RowFree
<1>12. ASSUME asset[doc] # NoAsset PROVE seen # NoAsset /\ asset[doc].id = seen.id
  BY <1>4, <1>12 DEF seen, AssetSeen, IInv, AssetsHeld
<1>13. seen # NoAsset => row.id = seen.id  BY DEF row
<1>14. AssetsHeld'
  <2>1. ASSUME NEW e \in Callers, NEW d \in Documents, newAsset'[e][d] # NoAsset
        PROVE  /\ d \in Locked(e)'
               /\ asset'[d] # NoAsset => asset'[d].id = newAsset'[e][d].id
               /\ \A other \in Callers \ {e} : newAsset'[other][d] = NoAsset
    <3>1. CASE e = c /\ d = doc
      BY <1>2, <1>6, <1>7, <1>12, <1>13, <3>1
    <3>2. CASE e = c /\ d # doc
      <4>1. newAsset[c][d] # NoAsset /\ newAsset'[c][d] = newAsset[c][d]  BY <1>7, <2>1, <3>2
      <4>. QED  BY <1>2, <1>6, <1>7, <3>2, <4>1 DEF IInv, AssetsHeld
    <3>3. CASE e # c
      <4>1. newAsset[e][d] # NoAsset /\ newAsset'[e] = newAsset[e] /\ d # doc  BY <1>7, <2>1, <3>3
      <4>. QED  BY <1>1, <1>2, <1>7, <3>3, <4>1, OthersLocked DEF IInv, AssetsHeld
    <3>. QED  BY <3>1, <3>2, <3>3
  <2>. QED  BY <2>1 DEF AssetsHeld
<1>15. ContentsHeld'
  <2>1. ASSUME NEW e \in Callers, NEW x \in newContent'[e]
        PROVE  /\ x.document \in Locked(e)'
               /\ AssetSeen(e, x.document)' # NoAsset
               /\ AssetSeen(e, x.document)'.id = x.asset
    <3>1. /\ x \in newContent[e] /\ x.document \in Documents
          /\ x.document \in Locked(e)
          /\ AssetSeen(e, x.document) # NoAsset /\ AssetSeen(e, x.document).id = x.asset
      BY <1>2 DEF IInv, ContentsHeld, Types, CallTypes
    <3>2. CASE e = c /\ x.document = doc
      BY <1>6, <1>7, <1>13, <3>1, <3>2 DEF seen, AssetSeen
    <3>3. CASE e = c /\ x.document # doc
      BY <1>2, <1>6, <1>7, <3>1, <3>3 DEF AssetSeen
    <3>4. CASE e # c
      BY <1>1, <1>2, <1>7, <3>1, <3>4, OthersLocked DEF AssetSeen
    <3>. QED  BY <3>2, <3>3, <3>4
  <2>. QED  BY <2>1 DEF ContentsHeld
<1>16. ContentMatchesAsset'
  BY <1>1, <1>2 DEF IInv, ContentMatchesAsset, AssetId, Frame
<1>17. Unique'
  BY <1>2 DEF IInv, Unique, Key
<1>. QED  BY <1>1, <1>10, <1>11, <1>14, <1>15, <1>16, <1>17 DEF IInv

(* An inserted row that belongs to the asset of its document.              *)
LEMMA InvInsert ==
  ASSUME IInv, NEW c \in Callers, Frame(c), Types', NEW doc \in Documents, NEW row,
         UNCHANGED <<reports, newAsset, asset, content>>, ids <= ids',
         newContent' = [newContent EXCEPT ![c] =
                         {y \in newContent[c] : Key(y) # Key(row)} \cup {row}],
         \A other \in Callers \ {c} : \A y \in newContent[other] : Key(y) # Key(row),
         \A y \in newContent[c] \cup content :
           Key(y) = Key(row) =>
             \E z \in newContent[c] \cup content : Key(z) = Key(row) /\ z.id = row.id,
         pc'[c] \in {"known", "extracted", "extraction"} => pc'[c] = pc[c],
         Locked(c)' = Locked(c) \cup {doc}, doc \in present, doc \notin Rewritten,
         row.document = doc, AssetSeen(c, doc) # NoAsset, AssetSeen(c, doc).id = row.asset
  PROVE  IInv'
<1>1. /\ newContent'[c] = {y \in newContent[c] : Key(y) # Key(row)} \cup {row}
      /\ \A e \in Callers \ {c} : newContent'[e] = newContent[e]
  BY DEF IInv, Types
<1>2. Owned'
  <2>1. ASSUME NEW d \in Documents, NEW id \in 1 .. MaxId, Claims(id, d)' PROVE Claims(id, d)
    BY <2>1 DEF Claims, Frame
  <2>. QED  BY <2>1, OwnedByClaims DEF IInv
<1>3. LockedStay'  BY OthersLocked DEF IInv, LockedStay, Frame
<1>4. AssetsHeld'  BY OthersLocked DEF IInv, AssetsHeld
<1>5. ContentsHeld'
  <2>1. ASSUME NEW e \in Callers, NEW x \in newContent'[e]
        PROVE  /\ x.document \in Locked(e)'
               /\ AssetSeen(e, x.document)' # NoAsset
               /\ AssetSeen(e, x.document)'.id = x.asset
    <3>1. CASE x \in newContent[e]
      BY <3>1, OthersLocked DEF IInv, ContentsHeld, AssetSeen
    <3>2. CASE e = c /\ x = row
      BY <3>2 DEF AssetSeen
    <3>. QED  BY <1>1, <2>1, <3>1, <3>2
  <2>. QED  BY <2>1 DEF ContentsHeld
<1>6. ContentMatchesAsset'  BY DEF IInv, ContentMatchesAsset, AssetId, Frame
<1>7. Unique'
  <2>1. \A y \in newContent[c] \cup content : Key(y) = Key(row) => y.id = row.id
    <3> SUFFICES ASSUME NEW y \in newContent[c] \cup content, Key(y) = Key(row)
                 PROVE  y.id = row.id
      OBVIOUS
    <3>1. PICK z \in newContent[c] \cup content : Key(z) = Key(row) /\ z.id = row.id
      OBVIOUS
    <3>2. Key(y) = Key(z)  BY <3>1
    <3>. QED  BY <3>1, <3>2 DEF IInv, Unique
  <2>2. \A x, y \in content : Key(x) = Key(y) => x.id = y.id  BY DEF IInv, Unique
  <2>3. ASSUME NEW x \in newContent'[c], NEW y \in newContent'[c] \cup content, Key(x) = Key(y)
        PROVE  x.id = y.id
    <3>1. CASE x = row  BY <1>1, <2>1, <2>3, <3>1
    <3>2. CASE x # row /\ y = row  BY <1>1, <2>3, <3>2
    <3>3. CASE x # row /\ y # row
      <4>1. x \in newContent[c] /\ y \in newContent[c] \cup content  BY <1>1, <3>3
      <4>. QED  BY <2>3, <4>1 DEF IInv, Unique
    <3>. QED  BY <3>1, <3>2, <3>3
  <2>4. ASSUME NEW x \in newContent'[c], NEW e \in Callers \ {c}, NEW y \in newContent'[e]
        PROVE  Key(x) # Key(y)
    <3>1. y \in newContent[e]  BY <1>1
    <3>2. CASE x = row  BY <3>1, <3>2
    <3>3. CASE x # row
      <4>1. x \in newContent[c]  BY <1>1, <3>3
      <4>. QED  BY <3>1, <4>1 DEF IInv, Unique
    <3>. QED  BY <3>2, <3>3
  <2>5. ASSUME NEW e \in Callers \ {c}, NEW x \in newContent'[e]
        PROVE  /\ \A y \in newContent'[e] \cup content : Key(x) = Key(y) => x.id = y.id
               /\ \A other \in Callers \ {e} : \A y \in newContent'[other] : Key(x) # Key(y)
    <3>1. x \in newContent[e] /\ newContent'[e] = newContent[e]  BY <1>1
    <3>2. ASSUME NEW other \in Callers \ {e}, NEW y \in newContent'[other] PROVE Key(x) # Key(y)
      <4>1. CASE other = c  BY <2>4, <4>1
      <4>2. CASE other # c  BY <1>1, <3>1, <4>2 DEF IInv, Unique
      <4>. QED  BY <4>1, <4>2
    <3>. QED  BY <3>1, <3>2 DEF IInv, Unique
  <2> HIDE DEF Key
  <2>. QED  BY <2>2, <2>3, <2>4, <2>5 DEF Unique, Key
<1>. QED  BY <1>2, <1>3, <1>4, <1>5, <1>6, <1>7 DEF IInv

LEMMA InvInsertContent ==
  ASSUME IInv, NEW c \in Callers, InsertContent(c)
  PROVE  IInv'
<1> DEFINE r == Current(c)
           doc == r.document
<1>1. Frame(c) /\ Types' /\ Types  BY CallFrame, TypesCall DEF Call, IInv
<1>2. pc[c] = "content" /\ at[c] \in DOMAIN reports[c] /\ newAsset[c][doc] # NoAsset
  BY DEF InsertContent, IInv, Types, CallTypes
<1>3. DOMAIN reports[c] = 1 .. Len(reports[c]) /\ Len(reports[c]) \in Nat /\ doc \in Documents
  BY <1>1, <1>2, CurrentFetch DEF FetchStages, Current
<1>4. /\ pc' = [pc EXCEPT ![c] = "asset"] /\ at' = [at EXCEPT ![c] = @ + 1]
      /\ UNCHANGED <<reports, newAsset, asset, content>>
  BY DEF InsertContent, storeVars
<1>5. PICK row :
        /\ newContent' = [newContent EXCEPT ![c] =
                            {y \in newContent[c] : Key(y) # Key(row)} \cup {row}]
        /\ row.asset = newAsset[c][doc].id /\ row.document = doc
        /\ ids <= ids'
        /\ \A other \in Callers \ {c} : \A y \in newContent[other] : Key(y) # Key(row)
        /\ \A y \in newContent[c] \cup content :
             Key(y) = Key(row) =>
               \E z \in newContent[c] \cup content : Key(z) = Key(row) /\ z.id = row.id
  BY <1>1, InsertResult, OfficialOutput DEF InsertContent
<1>6. pc'[c] = "asset" /\ at'[c] = at[c] + 1  BY <1>1, <1>4 DEF Types, TypeOK
<1>7. doc \in Locked(c) /\ Locked(c)' = Locked(c) \cup {doc}
  <2>1. Locked(c) =
          {reports[c][i].document : i \in {k \in DOMAIN reports[c] : k < at[c] \/ k = at[c]}}
    BY <1>2 DEF Locked, InTransaction
  <2>2. \A k \in DOMAIN reports[c] : k < at[c] + 1 <=> (k < at[c] \/ k = at[c])
    BY <1>2, <1>3
  <2>3. Locked(c)' = Locked(c)  BY <1>4, <1>6, <2>1, <2>2 DEF Locked, InTransaction
  <2>. QED  BY <1>2, <2>1, <2>3 DEF Current
<1>8. doc \in present /\ doc \notin Rewritten  BY <1>7 DEF IInv, LockedStay
<1>9. AssetSeen(c, doc) = newAsset[c][doc]  BY <1>2 DEF AssetSeen
<1>. QED
  BY <1>1, <1>2, <1>3, <1>4, <1>5, <1>6, <1>7, <1>8, <1>9, InvInsert

(* The asset that the foreign key finds is that of the document: its id is *)
(* known to belong to it since the caller looked it up.                    *)
LEMMA ExtractedAsset ==
  ASSUME IInv, NEW c \in Callers, InsertExtraction(c)
  PROVE  asset[Current(c).document] # NoAsset /\ asset[Current(c).document].id = Current(c).id
<1> DEFINE r == Current(c)
           doc == r.document
<1>1. pc[c] = "extraction" /\ at[c] \in DOMAIN reports[c]  BY DEF InsertExtraction
<1>2. doc \in Documents /\ r.id \in 1 .. MaxId
  BY <1>1, CurrentExtract DEF IInv, ExtractStages, Current
<1>3. PICK d \in Documents : AssetId(d) = r.id  BY DEF InsertExtraction
<1>4. asset[d] # NoAsset /\ asset[d].id = r.id  BY <1>2, <1>3 DEF AssetId
<1>5. Claims(r.id, d)  BY <1>4 DEF Claims
<1>6. Claims(r.id, doc)
  <2>1. at[c] \in DOMAIN reports[c] /\ reports[c][at[c]].document = doc /\ reports[c][at[c]].id = r.id
    BY <1>1 DEF Current
  <2>2. pc[c] \in {"known", "extracted", "extraction"} /\ r.id # 0  BY <1>1, <1>2
  <2> HIDE DEF r, doc
  <2>. QED  BY <2>1, <2>2 DEF Claims
<1>7. d = doc  BY <1>2, <1>5, <1>6 DEF IInv, Owned
<1>. QED  BY <1>4, <1>7

LEMMA InvInsertExtraction ==
  ASSUME IInv, NEW c \in Callers, InsertExtraction(c)
  PROVE  IInv'
<1> DEFINE r == Current(c)
           doc == r.document
<1>1. Frame(c) /\ Types' /\ Types  BY CallFrame, TypesCall DEF Call, IInv
<1>2. /\ pc[c] = "extraction" /\ at[c] \in DOMAIN reports[c] /\ BodyCheck(r.content)
      /\ doc \in present /\ doc \notin Rewritten
      /\ pc' = pc /\ at' = [at EXCEPT ![c] = @ + 1]
      /\ UNCHANGED <<reports, newAsset, asset, content>>
  BY DEF InsertExtraction, storeVars
<1>3. /\ DOMAIN reports[c] = 1 .. Len(reports[c]) /\ Len(reports[c]) \in Nat
      /\ doc \in Documents /\ r.id \in 1 .. MaxId /\ r.content \in Extracts
  BY <1>1, <1>2, CurrentExtract DEF ExtractStages, Current
<1>4. PICK row :
        /\ newContent' = [newContent EXCEPT ![c] =
                            {y \in newContent[c] : Key(y) # Key(row)} \cup {row}]
        /\ row.asset = r.id /\ row.document = doc
        /\ ids <= ids'
        /\ \A other \in Callers \ {c} : \A y \in newContent[other] : Key(y) # Key(row)
        /\ \A y \in newContent[c] \cup content :
             Key(y) = Key(row) =>
               \E z \in newContent[c] \cup content : Key(z) = Key(row) /\ z.id = row.id
  BY <1>1, <1>2, <1>3, InsertResult, ExtractOutput DEF InsertExtraction
<1>5. Locked(c)' = Locked(c) \cup {doc}
  <2>1. Locked(c) = {reports[c][i].document : i \in {k \in DOMAIN reports[c] : k < at[c]}}
    BY <1>2 DEF Locked, InTransaction
  <2>2. \A k \in DOMAIN reports[c] : k < at[c] + 1 <=> (k < at[c] \/ k = at[c])
    BY <1>2, <1>3
  <2>3. at'[c] = at[c] + 1  BY <1>1, <1>2 DEF Types
  <2>4. Locked(c)' =
          {reports[c][i].document : i \in {k \in DOMAIN reports[c] : k < at[c] \/ k = at[c]}}
    BY <1>2, <2>2, <2>3 DEF Locked, InTransaction
  <2>. QED  BY <1>2, <2>1, <2>4 DEF Current
<1>6. asset[doc] # NoAsset /\ asset[doc].id = r.id  BY ExtractedAsset
<1>7. AssetSeen(c, doc) # NoAsset /\ AssetSeen(c, doc).id = r.id
  BY <1>3, <1>6 DEF AssetSeen, IInv, AssetsHeld
<1>. QED
  BY <1>1, <1>2, <1>3, <1>4, <1>5, <1>7, InvInsert

LEMMA InvCommit ==
  ASSUME IInv, NEW c \in Callers, CommitFetches(c) \/ CommitExtractions(c)
  PROVE  IInv'
<1>1. Frame(c) /\ Types' /\ Types  BY CallFrame, TypesCall DEF Call, IInv
<1>2. /\ \A d \in Documents : asset'[d] = AssetSeen(c, d)
      /\ content' = newContent[c] \cup {x \in content : \A y \in newContent[c] : x.id # y.id}
      /\ newContent'[c] = {} /\ at'[c] = 1 /\ ids' = ids
      /\ \A d \in Documents : newAsset'[c][d] = NoAsset
      /\ pc'[c] \in {"recorded", "fetched", "extracted", "idle"}
  BY DEF CommitFetches, CommitExtractions, Publish, End, IInv, Types, TypeOK
<1>3. pc'[c] = "extracted" => pc[c] = "extraction" /\ reports' = reports
  BY DEF CommitFetches, CommitExtractions, IInv, Types, TypeOK
<1>4. Locked(c)' = {}  BY <1>2 DEF Locked, InTransaction
<1>5. Owned'
  <2>1. ASSUME NEW d \in Documents, NEW id \in 1 .. MaxId, Claims(id, d)' PROVE Claims(id, d)
    <3>1. CASE asset'[d] # NoAsset /\ asset'[d].id = id
      BY <1>2, <3>1 DEF Claims, AssetSeen
    <3>2. CASE \E e \in Callers : newAsset'[e][d] # NoAsset /\ newAsset'[e][d].id = id
      BY <1>1, <1>2, <3>2 DEF Claims, Frame
    <3>3. CASE \E e \in Callers : \E i \in DOMAIN reports'[e] :
                 /\ pc'[e] \in {"known", "extracted", "extraction"}
                 /\ reports'[e][i].document = d /\ reports'[e][i].id = id /\ id # 0
      BY <1>1, <1>2, <1>3, <3>3 DEF Claims, Frame
    <3>. QED  BY <2>1, <3>1, <3>2, <3>3 DEF Claims
  <2>2. ids <= ids'  BY <1>2 DEF IInv, Types, TypeOK
  <2>. QED  BY <1>1, <2>1, <2>2, OwnedByClaims DEF IInv
<1>6. LockedStay'
  BY <1>1, <1>4, OthersLocked DEF IInv, LockedStay, Frame
<1>7. \A d \in Documents : asset[d] # NoAsset => asset'[d] # NoAsset /\ asset'[d].id = asset[d].id
  BY <1>2 DEF AssetSeen, IInv, AssetsHeld
<1>8. AssetsHeld'
  <2>1. ASSUME NEW e \in Callers, NEW d \in Documents, newAsset'[e][d] # NoAsset
        PROVE  /\ d \in Locked(e)'
               /\ asset'[d] # NoAsset => asset'[d].id = newAsset'[e][d].id
               /\ \A other \in Callers \ {e} : newAsset'[other][d] = NoAsset
    <3>1. e # c /\ newAsset'[e] = newAsset[e]  BY <1>1, <1>2, <2>1 DEF Frame
    <3>2. newAsset[c][d] = NoAsset  BY <2>1, <3>1 DEF IInv, AssetsHeld
    <3>3. asset'[d] = asset[d]  BY <1>2, <3>2 DEF AssetSeen
    <3>. QED  BY <1>1, <1>2, <2>1, <3>1, <3>3, OthersLocked DEF IInv, AssetsHeld, Frame
  <2>. QED  BY <2>1 DEF AssetsHeld
<1>9. ContentsHeld'
  <2>1. ASSUME NEW e \in Callers, NEW x \in newContent'[e]
        PROVE  /\ x.document \in Locked(e)'
               /\ AssetSeen(e, x.document)' # NoAsset
               /\ AssetSeen(e, x.document)'.id = x.asset
    <3>1. e # c /\ x \in newContent[e] /\ newAsset'[e] = newAsset[e] /\ x.document \in Documents
      BY <1>1, <1>2 DEF Frame, Types, CallTypes
    <3>2. /\ x.document \in Locked(e) /\ AssetSeen(e, x.document) # NoAsset
          /\ AssetSeen(e, x.document).id = x.asset
      BY <3>1 DEF IInv, ContentsHeld
    <3>3. Locked(e)' = Locked(e)  BY <1>1, <3>1, OthersLocked
    <3>. QED  BY <1>7, <3>1, <3>2, <3>3 DEF AssetSeen
  <2>. QED  BY <2>1 DEF ContentsHeld
<1>10. ContentMatchesAsset'
  <2>1. ASSUME NEW x \in content' PROVE x.document \in present /\ AssetId(x.document)' = x.asset
    <3>1. CASE x \in newContent[c]
      <4>1. x.document \in Documents /\ x.document \in Locked(c)
            /\ AssetSeen(c, x.document) # NoAsset /\ AssetSeen(c, x.document).id = x.asset
        BY <3>1 DEF IInv, ContentsHeld, Types, CallTypes
      <4>. QED  BY <1>2, <4>1 DEF AssetId, IInv, LockedStay
    <3>2. CASE x \in content
      <4>1. x.document \in Documents /\ x.document \in present /\ x.asset \in 1 .. MaxId
            /\ AssetId(x.document) = x.asset
        BY <3>2 DEF IInv, ContentMatchesAsset, Types, TypeOK
      <4>2. asset[x.document] # NoAsset /\ asset[x.document].id = x.asset
        BY <4>1 DEF AssetId
      <4>. QED  BY <1>7, <4>1, <4>2 DEF AssetId
    <3>. QED  BY <1>2, <3>1, <3>2
  <2>. QED  BY <1>1, <2>1 DEF ContentMatchesAsset, Frame
<1>11. Unique'
  <2>1. ASSUME NEW x \in content', NEW y \in content', Key(x) = Key(y) PROVE x.id = y.id
    <3>1. x \in newContent[c] \cup content /\ y \in newContent[c] \cup content  BY <1>2
    <3>. QED  BY <2>1, <3>1 DEF IInv, Unique
  <2>2. ASSUME NEW e \in Callers, NEW x \in newContent'[e]
        PROVE  /\ \A y \in newContent'[e] \cup content' : Key(x) = Key(y) => x.id = y.id
               /\ \A other \in Callers \ {e} : \A y \in newContent'[other] : Key(x) # Key(y)
    <3>1. e # c /\ x \in newContent[e] /\ newContent'[e] = newContent[e]
      BY <1>1, <1>2 DEF Frame
    <3>2. \A y \in newContent[c] : Key(x) # Key(y)  BY <3>1 DEF IInv, Unique
    <3>3. \A y \in content' : Key(x) = Key(y) => y \in content  BY <1>2, <3>2
    <3>. QED  BY <1>1, <1>2, <3>1, <3>3 DEF IInv, Unique, Frame
  <2>. QED  BY <2>1, <2>2 DEF Unique, Key
<1>. QED  BY <1>1, <1>5, <1>6, <1>8, <1>9, <1>10, <1>11 DEF IInv

LEMMA InvStutter == IInv /\ UNCHANGED vars => IInv'
<1> SUFFICES ASSUME IInv, UNCHANGED vars PROVE IInv'  OBVIOUS
<1>1. Types'  BY TypesStutter DEF IInv
<1>2. UNCHANGED <<present, asset, content, ids, page, next, pc, reports, at, newAsset, newContent>>
  BY DEF vars, storeVars, pageVars, callVars
<1>3. Owned'  BY <1>2 DEF IInv, Owned, Claims
<1>4. LockedStay' /\ AssetsHeld' /\ ContentsHeld'
  BY <1>2 DEF IInv, LockedStay, AssetsHeld, ContentsHeld, Locked, Rewritten, InTransaction, AssetSeen
<1>5. ContentMatchesAsset' /\ Unique'
  BY <1>2 DEF IInv, ContentMatchesAsset, AssetId, Unique, Key
<1>. QED  BY <1>1, <1>3, <1>4, <1>5 DEF IInv

-------------------------------------------------------------------------------
LEMMA InductiveInvariant == Spec => []IInv
<1>1. IInv /\ [Next]_vars => IInv'
  BY InvPage, InvOutside, InvUpsertAsset, InvInsertContent, InvInsertExtraction, InvCommit,
     InvFail, InvStutter DEF Next, Call
<1>. QED  BY <1>1, InitInv, PTL DEF Spec

(* Each content row belongs to the asset its document has now, although no *)
(* foreign key says so and the asset was looked up outside of the          *)
(* transaction.                                                            *)
THEOREM ContentsBelong == Spec => []ContentMatchesAsset
<1>1. IInv => ContentMatchesAsset  BY DEF IInv
<1>. QED  BY <1>1, InductiveInvariant, PTL

(* However often a batch is recorded, and by how many callers at once: one *)
(* source and one output of an asset are one row.                          *)
THEOREM NothingTwice == Spec => []RecordedOnce
<1>1. IInv => RecordedOnce
  BY DEF IInv, Unique, RecordedOnce, Key
<1>. QED  BY <1>1, InductiveInvariant, PTL
-------------------------------------------------------------------------------
(* Batches are atomic.  What the abstract store makes of a batch is        *)
(* compared with what a transaction has written, not with what others      *)
(* commit meanwhile: a report changes a document in the same way whatever  *)
(* it was before.                                                          *)

DocumentOf(A, C) == [present : BOOLEAN, asset : A \cup {NoAsset}, contents : SUBSET C]
ReportOf(A, C) == [document : Documents, asset : A \cup {NoAsset}, contents : SUBSET C]

LEMMA UpdatedType ==
  ASSUME NEW A, NEW C, NEW doc \in DocumentOf(A, C), NEW r \in ReportOf(A, C)
  PROVE  Abstract!Updated(doc, r) \in DocumentOf(A, C)
BY DEF Abstract!Updated, DocumentOf, ReportOf

(* Two reports, one after the other, are an update with what they make of  *)
(* nothing.                                                                *)
LEMMA UpdatedTwice ==
  ASSUME NEW A, NEW C, NEW doc \in DocumentOf(A, C), NEW u \in DocumentOf(A, C),
         NEW r \in ReportOf(A, C)
  PROVE  Abstract!Updated(Abstract!Updated(doc, u), r) = Abstract!Updated(doc, Abstract!Updated(u, r))
<1> DEFINE once == Abstract!Updated(doc, u)
           both == Abstract!Updated(u, r)
           left == Abstract!Updated(once, r)
           right == Abstract!Updated(doc, both)
<1>1. once.contents = {x \in doc.contents : \A y \in u.contents : ~Abstract!Conflicting(x, y)} \cup u.contents
  BY DEF Abstract!Updated
<1>2. both.contents = {x \in u.contents : \A y \in r.contents : ~Abstract!Conflicting(x, y)} \cup r.contents
  BY DEF Abstract!Updated
<1>3. left.contents = {x \in once.contents : \A y \in r.contents : ~Abstract!Conflicting(x, y)} \cup r.contents
  BY DEF Abstract!Updated
<1>4. right.contents = {x \in doc.contents : \A y \in both.contents : ~Abstract!Conflicting(x, y)} \cup both.contents
  BY DEF Abstract!Updated
<1>5. ASSUME NEW x, NEW y, NEW z, Abstract!Conflicting(x, y), Abstract!Conflicting(y, z)
      PROVE  Abstract!Conflicting(x, z)
  BY <1>5 DEF Abstract!Conflicting
<1>6. left.contents = right.contents
  <2>1. ASSUME NEW x \in left.contents PROVE x \in right.contents
    <3>1. CASE x \in r.contents  BY <1>2, <1>4, <3>1
    <3>2. CASE x \in once.contents /\ \A y \in r.contents : ~Abstract!Conflicting(x, y)
      <4>1. CASE x \in u.contents  BY <1>2, <1>4, <3>2, <4>1
      <4>2. CASE x \in doc.contents /\ \A y \in u.contents : ~Abstract!Conflicting(x, y)
        <5>1. \A y \in both.contents : ~Abstract!Conflicting(x, y)  BY <1>2, <3>2, <4>2
        <5>. QED  BY <1>4, <4>2, <5>1
      <4>. QED  BY <1>1, <3>2, <4>1, <4>2
    <3>. QED  BY <1>3, <2>1, <3>1, <3>2
  <2>2. ASSUME NEW x \in right.contents PROVE x \in left.contents
    <3>1. CASE x \in both.contents  BY <1>1, <1>2, <1>3, <3>1
    <3>2. CASE x \in doc.contents /\ \A y \in both.contents : ~Abstract!Conflicting(x, y)
      <4>1. \A y \in r.contents : ~Abstract!Conflicting(x, y)  BY <1>2, <3>2
      <4>2. ASSUME NEW y \in u.contents PROVE ~Abstract!Conflicting(x, y)
        <5>1. CASE y \in both.contents  BY <3>2, <5>1
        <5>2. CASE y \notin both.contents
          <6>1. PICK z \in r.contents : Abstract!Conflicting(y, z)  BY <1>2, <5>2
          <6>. QED  BY <1>5, <4>1, <6>1
        <5>. QED  BY <5>1, <5>2
      <4>. QED  BY <1>1, <1>3, <3>2, <4>1, <4>2
    <3>. QED  BY <1>4, <2>2, <3>1, <3>2
  <2> HIDE DEF left, right
  <2>. QED  BY <2>1, <2>2
<1>7. left.asset = right.asset  BY DEF Abstract!Updated
<1>8. left.present = right.present  BY DEF Abstract!Updated
<1>9. /\ left = [present |-> left.present, asset |-> left.asset, contents |-> left.contents]
      /\ right = [present |-> right.present, asset |-> right.asset, contents |-> right.contents]
  BY DEF Abstract!Updated
<1> HIDE DEF left, right
<1>10. left = right  BY <1>6, <1>7, <1>8, <1>9
<1>. QED  BY <1>10 DEF left, right

LEMMA RecordedType ==
  ASSUME NEW A, NEW C, NEW ds \in [Documents -> DocumentOf(A, C)], NEW r \in ReportOf(A, C)
  PROVE  Abstract!Recorded(ds, r) \in [Documents -> DocumentOf(A, C)]
BY UpdatedType DEF Abstract!Recorded

LEMMA AfterType ==
  ASSUME NEW A, NEW C, NEW ds \in [Documents -> DocumentOf(A, C)],
         NEW b \in Seq(ReportOf(A, C))
  PROVE  /\ Abstract!After(ds, b) \in [0 .. Len(b) -> [Documents -> DocumentOf(A, C)]]
         /\ Abstract!After(ds, b)[0] = ds
         /\ \A n \in 1 .. Len(b) :
              Abstract!After(ds, b)[n] = Abstract!Recorded(Abstract!After(ds, b)[n - 1], b[n])
<1>. DEFINE X == [Documents -> DocumentOf(A, C)]
            turn == [n \in 1 .. Len(b) |-> [x \in X |-> Abstract!Recorded(x, b[n])]]
            Loop(f) == f = [n \in 0 .. Len(b) |->
                              IF n = 0 THEN ds ELSE Abstract!Recorded(f[n - 1], b[n])]
<1>1. ASSUME NEW n \in 1 .. Len(b), NEW x \in X PROVE Abstract!Recorded(x, b[n]) \in X
  <2>1. b[n] \in ReportOf(A, C)  OBVIOUS
  <2>. QED  BY <2>1, RecordedType
<1>2. turn \in [1 .. Len(b) -> [X -> X]]  BY <1>1
<1>3. PICK f \in [0 .. Len(b) -> X] :
        f[0] = ds /\ \A n \in 1 .. Len(b) : f[n] = turn[n][f[n - 1]]
  <2>. HIDE DEF X, turn
  <2>1. ds \in X /\ Len(b) \in Nat  BY DEF X
  <2>2. \E f \in [0 .. Len(b) -> X] : IsLoop(f, Len(b), ds, turn)
    BY <1>2, <2>1, LoopValues
  <2>. QED  BY <2>2 DEF IsLoop
<1>4. ASSUME NEW n \in 1 .. Len(b)
      PROVE  f[n - 1] \in X /\ f[n] = Abstract!Recorded(f[n - 1], b[n])
  <2>1. n - 1 \in 0 .. Len(b)  OBVIOUS
  <2>2. f[n - 1] \in X
    <3>. HIDE DEF X
    <3>. QED  BY <1>3, <2>1
  <2>. QED  BY <1>3, <2>2
<1>5. Loop(f)
  <2>1. f = [n \in 0 .. Len(b) |-> f[n]]  BY <1>3
  <2>2. ASSUME NEW n \in 0 .. Len(b)
        PROVE  f[n] = IF n = 0 THEN ds ELSE Abstract!Recorded(f[n - 1], b[n])
    BY <1>3, <1>4
  <2>. QED  BY <2>1, <2>2
<1>6. Abstract!After(ds, b) = CHOOSE g : Loop(g)  BY DEF Abstract!After
<1>. DEFINE g == Abstract!After(ds, b)
<1>7. Loop(g)  BY <1>5, <1>6
<1>8. g[0] = ds /\ \A n \in 1 .. Len(b) : g[n] = Abstract!Recorded(g[n - 1], b[n])  BY <1>7
<1>9. g \in [0 .. Len(b) -> X]
  <2>. DEFINE S == {n \in Nat : n \in 0 .. Len(b) => g[n] \in X}
  <2>. HIDE DEF g
  <2>1. 0 \in S  BY <1>8
  <2>2. ASSUME NEW n \in Nat, n \in S PROVE n + 1 \in S
    <3>1. SUFFICES ASSUME n + 1 \in 0 .. Len(b) PROVE g[n + 1] \in X  OBVIOUS
    <3>2. n + 1 \in 1 .. Len(b) /\ n + 1 - 1 = n /\ g[n] \in X  BY <2>2, <3>1
    <3>3. g[n + 1] = Abstract!Recorded(g[n], b[n + 1])  BY <1>8, <3>2
    <3>4. b[n + 1] \in ReportOf(A, C)  BY <3>2
    <3>. QED  BY <3>2, <3>3, <3>4, RecordedType
  <2>. HIDE DEF S
  <2>3. Nat \subseteq S  BY <2>1, <2>2, NatSetInduction
  <2>4. \A n \in 0 .. Len(b) : g[n] \in X  BY <2>3 DEF S
  <2>5. g = [n \in 0 .. Len(b) |-> g[n]]
    <3>1. g = [n \in 0 .. Len(b) |-> IF n = 0 THEN ds ELSE Abstract!Recorded(g[n - 1], b[n])]
      BY <1>7
    <3>. QED  BY <3>1
  <2>. HIDE DEF X
  <2>. QED  BY <2>4, <2>5
<1>. QED  BY <1>8, <1>9

(* What c's transaction has written, as the abstract store shows it.       *)
Own(c) ==
  [d \in Documents |->
     [present |-> FALSE, asset |-> AssetValue(newAsset[c][d]),
      contents |-> {ContentValue(x) : x \in {y \in newContent[c] : y.document = d}}]]

(* What c's batch makes of nothing, report by report.                      *)
Nothing == [d \in Documents |-> Abstract!Missing]
Done(c) == Abstract!After(Nothing, Batch(c))

LEMMA NothingType ==
  ASSUME NEW A, NEW C
  PROVE  Nothing \in [Documents -> DocumentOf(A, C)]
BY DEF Nothing, Abstract!Missing, DocumentOf

(* A batch makes of any documents what it makes of nothing, put over them. *)
LEMMA AfterNothing ==
  ASSUME NEW A, NEW C, NEW ds \in [Documents -> DocumentOf(A, C)],
         NEW b \in Seq(ReportOf(A, C)), NEW m \in 0 .. Len(b)
  PROVE  Abstract!After(ds, b)[m] =
           [d \in Documents |-> Abstract!Updated(ds[d], Abstract!After(Nothing, b)[m][d])]
<1> DEFINE f == Abstract!After(ds, b)
           g == Abstract!After(Nothing, b)
           Over(n) == [d \in Documents |-> Abstract!Updated(ds[d], g[n][d])]
           S == {n \in Nat : n \in 0 .. Len(b) => f[n] = Over(n)}
<1>1. /\ f \in [0 .. Len(b) -> [Documents -> DocumentOf(A, C)]] /\ f[0] = ds
      /\ \A n \in 1 .. Len(b) : f[n] = Abstract!Recorded(f[n - 1], b[n])
  BY AfterType
<1>2. /\ g \in [0 .. Len(b) -> [Documents -> DocumentOf(A, C)]] /\ g[0] = Nothing
      /\ \A n \in 1 .. Len(b) : g[n] = Abstract!Recorded(g[n - 1], b[n])
  BY NothingType, AfterType
<1> HIDE DEF f, g
<1>3. 0 \in S
  <2>1. ASSUME NEW d \in Documents PROVE Abstract!Updated(ds[d], g[0][d]) = ds[d]
    <3>1. g[0][d] = Abstract!Missing /\ ds[d] \in DocumentOf(A, C)  BY <1>2 DEF Nothing
    <3>. QED  BY <3>1 DEF Abstract!Updated, Abstract!Missing, DocumentOf
  <2>2. Over(0) = [d \in Documents |-> ds[d]]  BY <2>1
  <2>. QED  BY <1>1, <2>2
<1>4. ASSUME NEW n \in Nat, n \in S PROVE n + 1 \in S
  <2>1. SUFFICES ASSUME n + 1 \in 0 .. Len(b) PROVE f[n + 1] = Over(n + 1)  OBVIOUS
  <2>2. n + 1 \in 1 .. Len(b) /\ n + 1 - 1 = n /\ n \in 0 .. Len(b)  BY <2>1
  <2>3. /\ f[n + 1] = Abstract!Recorded(f[n], b[n + 1])
        /\ g[n + 1] = Abstract!Recorded(g[n], b[n + 1])
    BY <1>1, <1>2, <2>2
  <2>4. PICK r \in ReportOf(A, C) : r = b[n + 1]  BY <2>2
  <2>5. PICK u \in [Documents -> DocumentOf(A, C)] : u = g[n]  BY <1>2, <2>2
  <2>6. f[n] = [d \in Documents |-> Abstract!Updated(ds[d], u[d])]  BY <1>4, <2>2, <2>5
  <2>7. ASSUME NEW d \in Documents
        PROVE  Abstract!Recorded(f[n], r)[d] = Abstract!Updated(ds[d], Abstract!Recorded(u, r)[d])
    <3>1. ds[d] \in DocumentOf(A, C) /\ u[d] \in DocumentOf(A, C)  OBVIOUS
    <3>2. f[n][d] = Abstract!Updated(ds[d], u[d])  BY <2>6
    <3>3. CASE d = r.document
      <4>1. Abstract!Recorded(f[n], r)[d] = Abstract!Updated(f[n][d], r)
        BY <3>3 DEF Abstract!Recorded
      <4>2. Abstract!Recorded(u, r)[d] = Abstract!Updated(u[d], r)
        BY <3>3 DEF Abstract!Recorded
      <4>. QED  BY <3>1, <3>2, <4>1, <4>2, UpdatedTwice
    <3>4. CASE d # r.document
      BY <3>2, <3>4 DEF Abstract!Recorded
    <3>. QED  BY <3>3, <3>4
  <2>8. f[n + 1] = [d \in Documents |-> Abstract!Recorded(f[n], r)[d]]
    BY <2>3, <2>4 DEF Abstract!Recorded
  <2>. QED  BY <2>3, <2>4, <2>5, <2>7, <2>8
<1>. HIDE DEF S
<1>5. m \in S  BY <1>3, <1>4, NatSetInduction
<1>. QED  BY <1>5 DEF S, f, g
-------------------------------------------------------------------------------
(* What a transaction writes.                                              *)

AssetValues == [status : Statuses, at : Times]
Values == Extracts \cup {OfficialContent(fetch, time) : fetch \in Fetches, time \in Times}

(* A transaction has written what the reports before its statement make of *)
(* nothing, and the asset of the current one before its content.           *)
Written(c) ==
  /\ pc[c] \in {"asset", "extraction"} => Own(c) = Done(c)[at[c] - 1]
  /\ pc[c] = "extraction" => \A d \in Documents : newAsset[c][d] = NoAsset
  /\ pc[c] = "content" =>
       /\ RecordsContent(Current(c).report)
       /\ Own(c) = Abstract!Recorded(Done(c)[at[c] - 1],
                     [document |-> Batch(c)[at[c]].document, asset |-> Batch(c)[at[c]].asset,
                      contents |-> {}])

(* The content rows, committed or not, and their identity values.          *)
Rows == content \cup UNION {newContent[c] : c \in Callers}

RowIds ==
  /\ \A x \in Rows : x.id <= ids
  /\ \A x, y \in Rows : x.id = y.id => Key(x) = Key(y)

StoreInv ==
  /\ IInv
  /\ RowIds
  /\ \A c \in Callers : Written(c)

(* A value is a record of what ContentValue takes of a row.                *)
LEMMA ValueFields ==
  ASSUME NEW x \in Values
  PROVE  ContentValue(x) = x
<1>1. CASE x \in Extracts
  <2>1. PICK source, time, fixture : x = Extract(source, time, fixture)  BY <1>1 DEF Extracts
  <2>. QED  BY <2>1 DEF Extract, ContentValue
<1>2. CASE \E fetch \in Fetches, time \in Times : x = OfficialContent(fetch, time)
  BY <1>2 DEF OfficialContent, ContentValue
<1>. QED  BY <1>1, <1>2 DEF Values

LEMMA FetchBatch ==
  ASSUME Types, NEW c \in Callers, pc[c] \in {"asset", "content"}
  PROVE  /\ Len(Batch(c)) = Len(reports[c])
         /\ Batch(c) \in Seq(ReportOf(AssetValues, Values))
         /\ \A i \in 1 .. Len(reports[c]) :
              /\ Batch(c)[i].document = reports[c][i].document
              /\ Batch(c)[i].asset =
                   [status |-> reports[c][i].report.status, at |-> reports[c][i].at]
              /\ Batch(c)[i].asset # NoAsset
              /\ Batch(c)[i].contents =
                   IF RecordsContent(reports[c][i].report)
                   THEN {OfficialContent(reports[c][i].report, reports[c][i].at)} ELSE {}
<1> DEFINE N == Len(reports[c])
<1>1. /\ N \in Nat /\ DOMAIN reports[c] = 1 .. N
      /\ \A i \in 1 .. N :
           /\ reports[c][i].document \in Documents
           /\ reports[c][i].report \in Fetches /\ reports[c][i].at \in Times
  BY CurrentFetch DEF FetchStages
<1> DEFINE b == [i \in 1 .. N |->
            [document |-> reports[c][i].document,
             asset |-> [status |-> reports[c][i].report.status, at |-> reports[c][i].at],
             contents |-> IF RecordsContent(reports[c][i].report)
                          THEN {OfficialContent(reports[c][i].report, reports[c][i].at)} ELSE {}]]
<1>2. Batch(c) = b  BY <1>1 DEF Batch
<1>3. ASSUME NEW i \in 1 .. N PROVE b[i] \in ReportOf(AssetValues, Values)
  <2>1. reports[c][i].report.status \in Statuses  BY <1>1, FetchStatus
  <2>2. OfficialContent(reports[c][i].report, reports[c][i].at) \in Values
    BY <1>1 DEF Values
  <2>. HIDE DEF Values
  <2>. QED  BY <1>1, <2>1, <2>2 DEF AssetValues, ReportOf
<1>4. \A i \in 1 .. N :
        [status |-> reports[c][i].report.status, at |-> reports[c][i].at] # NoAsset
  BY <1>1, FetchStatus, NoAssetAssumption
<1>5. b \in Seq(ReportOf(AssetValues, Values)) /\ Len(b) = N
  <2>. HIDE DEF Values, ReportOf
  <2>1. b \in [1 .. N -> ReportOf(AssetValues, Values)]  BY <1>3
  <2>. HIDE DEF b
  <2>. QED  BY <1>1, <2>1
<1>. QED  BY <1>2, <1>4, <1>5

LEMMA ExtractBatch ==
  ASSUME Types, NEW c \in Callers, pc[c] = "extraction"
  PROVE  /\ Len(Batch(c)) = Len(reports[c])
         /\ Batch(c) \in Seq(ReportOf(AssetValues, Values))
         /\ \A i \in 1 .. Len(reports[c]) :
              Batch(c)[i] = [document |-> reports[c][i].document, asset |-> NoAsset,
                             contents |-> {reports[c][i].content}]
<1> DEFINE N == Len(reports[c])
<1>1. /\ N \in Nat /\ DOMAIN reports[c] = 1 .. N
      /\ \A i \in 1 .. N :
           /\ reports[c][i].document \in Documents
           /\ reports[c][i].content \in Extracts
  BY CurrentExtract DEF ExtractStages
<1> DEFINE b == [i \in 1 .. N |->
            [document |-> reports[c][i].document, asset |-> NoAsset,
             contents |-> {reports[c][i].content}]]
<1>2. Batch(c) = b  BY <1>1 DEF Batch
<1>3. ASSUME NEW i \in 1 .. N PROVE b[i] \in ReportOf(AssetValues, Values)
  BY <1>1 DEF Values, ReportOf
<1>4. b \in Seq(ReportOf(AssetValues, Values)) /\ Len(b) = N
  <2>. HIDE DEF Values, ReportOf
  <2>1. b \in [1 .. N -> ReportOf(AssetValues, Values)]  BY <1>3
  <2>. HIDE DEF b
  <2>. QED  BY <1>1, <2>1
<1>. QED  BY <1>2, <1>4

(* Each report's turn in what a batch makes of nothing.                    *)
LEMMA DoneStep ==
  ASSUME Types, NEW c \in Callers, InTransaction(c)
  PROVE  /\ Batch(c) \in Seq(ReportOf(AssetValues, Values))
         /\ Len(Batch(c)) = Len(reports[c]) /\ Len(reports[c]) \in Nat
         /\ Done(c)[0] = Nothing
         /\ Done(c) \in [0 .. Len(reports[c]) -> [Documents -> DocumentOf(AssetValues, Values)]]
         /\ \A n \in 1 .. Len(reports[c]) :
              Done(c)[n] = Abstract!Recorded(Done(c)[n - 1], Batch(c)[n])
<1>1. /\ Batch(c) \in Seq(ReportOf(AssetValues, Values))
      /\ Len(Batch(c)) = Len(reports[c])
  BY FetchBatch, ExtractBatch DEF InTransaction
<1>2. Nothing \in [Documents -> DocumentOf(AssetValues, Values)]  BY NothingType
<1>3. Len(reports[c]) \in Nat  BY <1>1
<1>. QED  BY <1>1, <1>2, <1>3, AfterType DEF Done

-------------------------------------------------------------------------------
LEMMA StoreInvInit == Init => StoreInv
<1> SUFFICES ASSUME Init PROVE StoreInv  OBVIOUS
<1>1. IInv  BY InitInv
<1>2. Rows = {}  BY DEF Init, Rows
<1>3. \A c \in Callers : Written(c)  BY DEF Init, Written
<1>. QED  BY <1>1, <1>2, <1>3 DEF StoreInv, RowIds

(* A transaction whose caller does nothing has written what it had.        *)
LEMMA WrittenKept ==
  ASSUME NEW c \in Callers, Written(c), pc'[c] = pc[c], reports'[c] = reports[c],
         at'[c] = at[c], newAsset'[c] = newAsset[c], newContent'[c] = newContent[c]
  PROVE  Written(c)'
<1>1. Batch(c)' = Batch(c)  BY DEF Batch
<1>2. Own(c)' = Own(c)  BY DEF Own
<1>3. Done(c)' = Done(c)  BY <1>1 DEF Done, Nothing
<1>. QED  BY <1>1, <1>2, <1>3 DEF Written, Current

LEMMA WrittenAt ==
  ASSUME NEW c \in Callers, NEW k, pc'[c] \in {"asset", "extraction"}, Done(c)' = Done(c),
         at'[c] - 1 = k, Own(c)' = Done(c)[k],
         pc'[c] = "extraction" => \A d \in Documents : newAsset'[c][d] = NoAsset
  PROVE  Written(c)'
<1>. DEFINE f == Done(c)
            m == at'[c] - 1
<1>1. f' = f /\ m = k  OBVIOUS
<1>. HIDE DEF f, m
<1>2. f'[m] = f[k]  BY <1>1
<1>3. Done(c)'[at'[c] - 1] = Done(c)[k]  BY <1>2 DEF f, m
<1>. QED  BY <1>3 DEF Written

LEMMA WrittenByOthers ==
  ASSUME StoreInv, NEW c \in Callers, Frame(c), Written(c)'
  PROVE  \A e \in Callers : Written(e)'
<1>1. ASSUME NEW e \in Callers \ {c} PROVE Written(e)'
  <2>1. /\ pc'[e] = pc[e] /\ reports'[e] = reports[e] /\ at'[e] = at[e]
        /\ newAsset'[e] = newAsset[e] /\ newContent'[e] = newContent[e]
    BY DEF Frame
  <2>. QED  BY <2>1, WrittenKept DEF StoreInv
<1>. QED  BY <1>1

LEMMA FewerRows ==
  ASSUME StoreInv, IInv', Rows' \subseteq Rows, ids' = ids
  PROVE  RowIds'
<1>. QED  BY DEF StoreInv, RowIds, Key

LEMMA StorePage ==
  ASSUME StoreInv, PageStep
  PROVE  StoreInv'
<1>1. IInv'  BY InvPage DEF StoreInv
<1>2. UNCHANGED callVars /\ ids' = ids /\ content' \subseteq content
  BY PageEffect DEF StoreInv
<1>3. RowIds'
  <2>1. Rows' \subseteq Rows  BY <1>2 DEF Rows, callVars
  <2>. QED  BY <1>1, <1>2, <2>1, FewerRows
<1>4. \A c \in Callers : Written(c)'
  BY <1>2, WrittenKept DEF callVars, StoreInv
<1>. QED  BY <1>1, <1>3, <1>4 DEF StoreInv

(* A statement that has written nothing: Own is nothing.                   *)
LEMMA OwnNothing ==
  ASSUME NEW c \in Callers, newContent[c] = {}, \A d \in Documents : newAsset[c][d] = NoAsset
  PROVE  Own(c) = Nothing
BY DEF Own, Nothing, Abstract!Missing, AssetValue

LEMMA StoreOutside ==
  ASSUME StoreInv, NEW c \in Callers,
         \/ FetchMany(c) \/ Begin(c, "fetched", "asset") \/ Lookup(c) \/ ExtractAll(c)
         \/ Begin(c, "extracted", "extraction")
  PROVE  StoreInv'
<1>1. IInv /\ IInv' /\ Types' /\ Frame(c)
  BY InvOutside, CallFrame DEF StoreInv, IInv, Call
<1>2. /\ ~InTransaction(c) /\ UNCHANGED <<content, ids, newAsset, newContent>>
  BY DEF FetchMany, Begin, Lookup, ExtractAll, InTransaction, storeVars
<1>3. RowIds'
  <2>1. Rows' = Rows  BY <1>2 DEF Rows
  <2>. QED  BY <1>1, <1>2, <2>1, FewerRows
<1>4. Written(c)'
  <2>1. CASE Begin(c, "fetched", "asset") \/ Begin(c, "extracted", "extraction")
    <3>1. at'[c] = 1 /\ pc'[c] \in {"asset", "extraction"}
      BY <2>1 DEF Begin, StoreInv, IInv, Types, TypeOK
    <3>2. newContent'[c] = {} /\ \A d \in Documents : newAsset'[c][d] = NoAsset
      BY <1>1, <1>2, OutsideHoldsNothing
    <3>3. Own(c)' = Nothing
      <4>1. Own(c) = Nothing  BY <1>2, <3>2, OwnNothing
      <4>2. Own(c)' = Own(c)  BY <1>2 DEF Own
      <4>. QED  BY <4>1, <4>2
    <3>4. Done(c)'[0] = Nothing
      <4>1. InTransaction(c)'  BY <3>1 DEF InTransaction
      <4>2. (Types /\ InTransaction(c) => Done(c)[0] = Nothing)'  BY DoneStep, PTL
      <4>. QED  BY <1>1, <4>1, <4>2 DEF Nothing
    <3>. QED  BY <3>1, <3>2, <3>3, <3>4 DEF Written
  <2>2. CASE FetchMany(c) \/ Lookup(c) \/ ExtractAll(c)
    <3>1. pc'[c] \notin {"asset", "extraction", "content"}
      BY <2>2 DEF FetchMany, Lookup, ExtractAll, StoreInv, IInv, Types, TypeOK
    <3>. QED  BY <3>1 DEF Written
  <2>. QED  BY <2>1, <2>2
<1>. QED  BY <1>1, <1>3, <1>4, WrittenByOthers DEF StoreInv
LEMMA StoreUpsertAsset ==
  ASSUME StoreInv, NEW c \in Callers, UpsertAsset(c)
  PROVE  StoreInv'
<1> DEFINE r == Current(c)
           doc == r.document
           seen == AssetSeen(c, doc)
           id == IF seen = NoAsset THEN ids + 1 ELSE seen.id
           row == [id |-> id, status |-> r.report.status, at |-> r.at]
           value == [status |-> r.report.status, at |-> r.at]
           half == [document |-> doc, asset |-> value, contents |-> {}]
<1>1. IInv /\ IInv' /\ Types /\ Types' /\ Frame(c)
  BY InvUpsertAsset, CallFrame DEF StoreInv, IInv, Call
<1>2. /\ pc[c] = "asset" /\ at[c] \in DOMAIN reports[c] /\ id <= MaxId
      /\ ids' = (IF seen = NoAsset THEN id ELSE ids)
      /\ newAsset' = [newAsset EXCEPT ![c][doc] = row]
      /\ reports' = reports /\ newContent' = newContent /\ content' = content
      /\ IF RecordsContent(r.report)
         THEN pc' = [pc EXCEPT ![c] = "content"] /\ at' = at
         ELSE at' = [at EXCEPT ![c] = @ + 1] /\ pc' = pc
  BY DEF UpsertAsset, storeVars
<1>3. /\ DOMAIN reports[c] = 1 .. Len(reports[c]) /\ Len(reports[c]) \in Nat
      /\ doc \in Documents /\ r.report \in Fetches /\ r.at \in Times
  BY <1>1, <1>2, CurrentFetch DEF FetchStages, Current
<1>4. ids \in Nat /\ MaxId \in Nat /\ ids <= MaxId /\ at[c] \in Nat
  BY <1>1, <1>2, <1>3, MaxIdAssumption DEF Types, TypeOK
<1>5. RowIds'
  <2>1. Rows' = Rows  BY <1>2 DEF Rows
  <2>2. ids' \in Nat /\ ids <= ids'
    <3>1. CASE seen = NoAsset  BY <1>2, <1>4, <3>1
    <3>2. CASE seen # NoAsset  BY <1>2, <1>4, <3>2
    <3>. QED  BY <3>1, <3>2
  <2>3. \A x \in Rows : x.id \in Nat
    BY <1>1 DEF Rows, Types, TypeOK, CallTypes
  <2>4. \A x \in Rows : x.id <= ids'  BY <1>4, <2>2, <2>3 DEF StoreInv, RowIds
  <2>. QED  BY <2>1, <2>4 DEF StoreInv, RowIds, Key
<1>6. Own(c)' = Abstract!Recorded(Own(c), half)
  <2>1. newAsset[c] \in [Documents -> AssetRow \cup {NoAsset}]  BY <1>1 DEF Types, TypeOK
  <2>2. newAsset'[c] = [newAsset[c] EXCEPT ![doc] = row]  BY <1>1, <1>2 DEF Types
  <2>3. newAsset'[c][doc] = row /\ \A d \in Documents \ {doc} : newAsset'[c][d] = newAsset[c][d]
    BY <1>3, <2>1, <2>2
  <2>4. newContent'[c] = newContent[c]  BY <1>2
  <2>5. value # NoAsset  BY <1>3, FetchStatus, NoAssetAssumption
  <2>6. row # NoAsset
    <3>1. row \in AssetRow
      <4>1. newAsset'[c][doc] \in AssetRow \cup {NoAsset}  BY <1>1, <1>3 DEF Types, TypeOK
      <4>2. id \in 1 .. MaxId
        <5>1. seen \in AssetRow \cup {NoAsset}
          BY <1>1, <1>3, <2>1 DEF AssetSeen, Types, TypeOK
        <5>2. CASE seen = NoAsset  BY <1>2, <1>4, <5>2
        <5>3. CASE seen # NoAsset  BY <5>1, <5>3 DEF AssetRow
        <5>. QED  BY <5>2, <5>3
      <4>. HIDE DEF id
      <4>. QED  BY <1>3, <4>2, FetchStatus DEF AssetRow
    <3>. QED  BY <3>1, NoAssetAssumption
  <2>7. AssetValue(row) = value  BY <2>6 DEF AssetValue
  <2>. HIDE DEF row, value, doc
  <2>8. ASSUME NEW d \in Documents
        PROVE  Own(c)'[d] = Abstract!Recorded(Own(c), half)[d]
    <3>1. CASE d = doc
      BY <2>3, <2>4, <2>5, <2>7, <3>1 DEF Own, Abstract!Recorded, Abstract!Updated
    <3>2. CASE d # doc
      BY <2>3, <2>4, <3>2 DEF Own, Abstract!Recorded
    <3>. QED  BY <3>1, <3>2
  <2>9. /\ Own(c)' = [d \in Documents |-> Own(c)'[d]]
        /\ Abstract!Recorded(Own(c), half) = [d \in Documents |-> Abstract!Recorded(Own(c), half)[d]]
    BY DEF Own, Abstract!Recorded
  <2>. QED  BY <2>8, <2>9
<1>7. Own(c) = Done(c)[at[c] - 1]  BY <1>2 DEF StoreInv, Written
<1>8. /\ Batch(c)[at[c]].document = doc /\ Batch(c)[at[c]].asset = value
      /\ Batch(c)[at[c]].contents =
           IF RecordsContent(r.report) THEN {OfficialContent(r.report, r.at)} ELSE {}
  <2>1. at[c] \in 1 .. Len(reports[c])  BY <1>2, <1>3
  <2>. QED  BY <1>1, <1>2, <2>1, FetchBatch DEF Current
<1>9. Batch(c)' = Batch(c) /\ Done(c)' = Done(c)
  <2>1. pc'[c] \in {"asset", "content"}  BY <1>1, <1>2 DEF Types, TypeOK
  <2>2. Batch(c)' = Batch(c)  BY <1>2, <2>1 DEF Batch
  <2>. QED  BY <2>2 DEF Done, Nothing
<1>10. Written(c)'
  <2>1. CASE RecordsContent(r.report)
    <3>1. pc'[c] = "content" /\ at'[c] = at[c]  BY <1>1, <1>2, <2>1 DEF Types, TypeOK
    <3>2. half = [document |-> Batch(c)[at[c]].document, asset |-> Batch(c)[at[c]].asset,
                  contents |-> {}]
      BY <1>8
    <3>. HIDE DEF half
    <3>3. Own(c)' = Abstract!Recorded(Done(c)[at[c] - 1], half)  BY <1>6, <1>7
    <3>4. Current(c)' = Current(c)  BY <1>2, <3>1 DEF Current
    <3>. QED  BY <1>9, <2>1, <3>1, <3>2, <3>3, <3>4 DEF Written
  <2>2. CASE ~RecordsContent(r.report)
    <3>1. pc'[c] = "asset" /\ at'[c] = at[c] + 1  BY <1>1, <1>2, <2>2 DEF Types, TypeOK
    <3>2. Done(c)[at[c]] = Abstract!Recorded(Done(c)[at[c] - 1], Batch(c)[at[c]])
      BY <1>1, <1>2, <1>3, DoneStep DEF InTransaction
    <3>3. Abstract!Recorded(Own(c), Batch(c)[at[c]]) = Abstract!Recorded(Own(c), half)
      BY <1>8, <2>2 DEF Abstract!Recorded, Abstract!Updated
    <3>. HIDE DEF half
    <3>4. Own(c)' = Done(c)[at[c]]  BY <1>6, <1>7, <3>2, <3>3
    <3>5. at'[c] - 1 = at[c]  BY <1>4, <3>1
    <3>. QED  BY <1>9, <3>1, <3>4, <3>5, WrittenAt
  <2>. QED  BY <2>1, <2>2
<1>. QED  BY <1>1, <1>5, <1>10, WrittenByOthers DEF StoreInv

-------------------------------------------------------------------------------
(* The row that is inserted.                                               *)
InsertedAs(c, doc, assetId, value, row) ==
  /\ newContent' = [newContent EXCEPT ![c] =
                      {y \in newContent[c] : Key(y) # Key(row)} \cup {row}]
  /\ row.document = doc /\ row.asset = assetId /\ ContentValue(row) = value
  /\ row.source = value.source /\ row.output = value.output
  /\ ids' \in Nat /\ ids <= ids' /\ row.id <= ids'
  /\ \A z \in Rows : z.id = row.id => Key(z) = Key(row)

LEMMA InsertedRow ==
  ASSUME StoreInv, NEW c \in Callers, NEW doc \in Documents, NEW assetId, NEW value \in Values,
         value.output # Null, Insert(c, Row(doc, assetId, value))
  PROVE  \E row : InsertedAs(c, doc, assetId, value, row)
<1> DEFINE x == Row(doc, assetId, value)
           row == Upserted(c, x)
           seen == {y \in newContent[c] : Conflicts(x, y)} \cup {y \in content : Conflicts(x, y)}
<1>1. /\ x.document = doc /\ x.asset = assetId
      /\ x.source = value.source /\ x.output = value.output
      /\ row = [x EXCEPT !.id = IF seen = {} THEN ids + 1 ELSE (CHOOSE y \in seen : TRUE).id]
  BY DEF Row, Upserted
<1>2. /\ row.document = doc /\ row.asset = assetId
      /\ row.source = value.source /\ row.output = value.output
      /\ row.id = IF seen = {} THEN ids + 1 ELSE (CHOOSE y \in seen : TRUE).id
  BY <1>1 DEF Row
<1>3. ContentValue(row) = value
  <2>1. ContentValue(row) = ContentValue(value)  BY <1>1 DEF Row, ContentValue
  <2>. QED  BY <2>1, ValueFields
<1>4. Key(x) = Key(row)  BY <1>1, <1>2 DEF Key
<1>5. ASSUME NEW y PROVE Conflicts(x, y) <=> Key(y) = Key(row)
  BY <1>1, <1>4 DEF Conflicts
<1>6. /\ ids' = IF row.id > ids THEN row.id ELSE ids
      /\ newContent' = [newContent EXCEPT ![c] = {y \in newContent[c] : ~Conflicts(x, y)} \cup {row}]
  BY DEF Insert
<1>7. {y \in newContent[c] : ~Conflicts(x, y)} = {y \in newContent[c] : Key(y) # Key(row)}
  BY <1>5
<1>8. ids \in Nat /\ \A z \in Rows : z.id \in Nat /\ z.id <= ids
  BY MaxIdAssumption DEF StoreInv, RowIds, IInv, Types, TypeOK, CallTypes, Rows
<1>9. CASE seen = {}
  <2>1. row.id = ids + 1 /\ ids' = ids + 1  BY <1>2, <1>6, <1>8, <1>9
  <2>2. \A z \in Rows : z.id # row.id  BY <1>8, <2>1
  <2>3. ids' \in Nat /\ ids <= ids' /\ row.id <= ids'  BY <1>8, <2>1
  <2>. HIDE DEF row, x, seen
  <2>4. InsertedAs(c, doc, assetId, value, row)
    BY <1>2, <1>3, <1>6, <1>7, <2>2, <2>3 DEF InsertedAs
  <2>. QED  BY <2>4
<1>10. CASE seen # {}
  <2>1. PICK z \in seen : row.id = z.id  BY <1>2, <1>10
  <2>2. z \in Rows /\ Key(z) = Key(row)  BY <1>5 DEF Rows
  <2>3. row.id \in Nat /\ row.id <= ids /\ ids' = ids  BY <1>6, <1>8, <2>1, <2>2
  <2>4. \A y \in Rows : y.id = row.id => Key(y) = Key(row)
    BY <2>1, <2>2 DEF StoreInv, RowIds
  <2>5. ids' \in Nat /\ ids <= ids' /\ row.id <= ids'  BY <1>8, <2>3
  <2>. HIDE DEF row, x, seen
  <2>6. InsertedAs(c, doc, assetId, value, row)
    BY <1>2, <1>3, <1>6, <1>7, <2>4, <2>5 DEF InsertedAs
  <2>. QED  BY <2>6
<1>. QED  BY <1>9, <1>10

(* What c sees of an asset belongs to one document.                        *)
LEMMA SeenOnce ==
  ASSUME IInv, NEW c \in Callers, NEW d \in Documents, NEW e \in Documents,
         AssetSeen(c, d) # NoAsset, AssetSeen(c, e) # NoAsset,
         AssetSeen(c, d).id = AssetSeen(c, e).id
  PROVE  d = e
<1> DEFINE id == AssetSeen(c, d).id
<1>1. Claims(id, d) /\ Claims(id, e)  BY DEF AssetSeen, Claims
<1>2. id \in 1 .. MaxId
  BY DEF IInv, Types, TypeOK, AssetSeen, AssetRow
<1>. HIDE DEF id
<1>. QED  BY <1>1, <1>2 DEF IInv, Owned

LEMMA UpdatedByContent ==
  ASSUME NEW a, NEW s, NEW d, NEW v
  PROVE  Abstract!Updated([present |-> FALSE, asset |-> a, contents |-> s],
                          [document |-> d, asset |-> NoAsset, contents |-> {v}])
           = [present |-> FALSE, asset |-> a,
              contents |-> {x \in s : ~Abstract!Conflicting(x, v)} \cup {v}]
<1>1. {x \in s : \A y \in {v} : ~Abstract!Conflicting(x, y)} = {x \in s : ~Abstract!Conflicting(x, v)}
  OBVIOUS
<1>. QED  BY <1>1 DEF Abstract!Updated

LEMMA StoreInsert ==
  ASSUME StoreInv, NEW c \in Callers, NEW doc \in Documents, NEW assetId, NEW value \in Values,
         value.output # Null, Insert(c, Row(doc, assetId, value)),
         IInv', Frame(c), UNCHANGED <<newAsset, content>>,
         AssetSeen(c, doc) # NoAsset, AssetSeen(c, doc).id = assetId
  PROVE  /\ RowIds'
         /\ Own(c)' = Abstract!Recorded(Own(c),
                        [document |-> doc, asset |-> NoAsset, contents |-> {value}])
<1>1. PICK row :
        /\ newContent' = [newContent EXCEPT ![c] =
                            {y \in newContent[c] : Key(y) # Key(row)} \cup {row}]
        /\ row.document = doc /\ row.asset = assetId /\ ContentValue(row) = value
        /\ row.source = value.source /\ row.output = value.output
        /\ ids' \in Nat /\ ids <= ids' /\ row.id <= ids'
        /\ \A z \in Rows : z.id = row.id => Key(z) = Key(row)
  BY InsertedRow DEF InsertedAs
<1>2. newContent'[c] = {y \in newContent[c] : Key(y) # Key(row)} \cup {row}
  BY <1>1 DEF StoreInv, IInv, Types
<1>3. RowIds'
  <2>1. \A x \in Rows' : x \in Rows \/ x = row
    <3>1. \A e \in Callers \ {c} : newContent'[e] = newContent[e]  BY DEF Frame
    <3>. QED  BY <1>2, <3>1 DEF Rows
  <2>2. ids \in Nat /\ \A z \in Rows : z.id \in Nat /\ z.id <= ids
    BY MaxIdAssumption DEF StoreInv, RowIds, IInv, Types, TypeOK, CallTypes, Rows
  <2>3. \A x \in Rows' : x.id <= ids'
    <3>1. \A z \in Rows : z.id <= ids'  BY <1>1, <2>2
    <3>. QED  BY <1>1, <2>1, <3>1
  <2>4. ASSUME NEW x \in Rows', NEW y \in Rows', x.id = y.id PROVE Key(x) = Key(y)
    BY <1>1, <2>1, <2>4 DEF StoreInv, RowIds
  <2>5. \A x, y \in Rows' : x.id = y.id => Key(x)' = Key(y)'
    BY <2>4 DEF Key
  <2>. QED  BY <2>3, <2>5 DEF RowIds
<1>4. ASSUME NEW y \in newContent[c]
      PROVE  Key(y) = Key(row) <=>
               y.document = doc /\ y.source = value.source /\ y.output = value.output
  <2>1. /\ y.document \in Documents /\ AssetSeen(c, y.document) # NoAsset
        /\ AssetSeen(c, y.document).id = y.asset
    BY DEF StoreInv, IInv, ContentsHeld, Types, CallTypes
  <2>2. y.document = doc <=> y.asset = assetId
    <3>1. ASSUME y.document = doc PROVE y.asset = assetId  BY <2>1, <3>1
    <3>2. ASSUME y.asset = assetId PROVE y.document = doc
      <4>1. PICK d \in Documents : d = y.document  BY <2>1
      <4>2. AssetSeen(c, d) # NoAsset /\ AssetSeen(c, d).id = AssetSeen(c, doc).id
        BY <2>1, <3>2, <4>1
      <4>. QED  BY <4>1, <4>2, SeenOnce DEF StoreInv
    <3>. QED  BY <3>1, <3>2
  <2>. QED  BY <1>1, <2>2 DEF Key
<1> DEFINE report == [document |-> doc, asset |-> NoAsset, contents |-> {value}]
           own(d) == {ContentValue(x) : x \in {y \in newContent[c] : y.document = d}}
           own2(d) == {ContentValue(x) : x \in {y \in newContent'[c] : y.document = d}}
<1>5. own2(doc) = {v \in own(doc) : ~Abstract!Conflicting(v, value)} \cup {value}
  <2>1. ASSUME NEW v \in own2(doc)
        PROVE  v \in {w \in own(doc) : ~Abstract!Conflicting(w, value)} \cup {value}
    <3>1. PICK x \in newContent'[c] : x.document = doc /\ v = ContentValue(x)  OBVIOUS
    <3>2. CASE x = row  BY <1>1, <3>1, <3>2
    <3>3. CASE x # row
      <4>1. x \in newContent[c] /\ Key(x) # Key(row)  BY <1>2, <3>3
      <4>2. ~(x.source = value.source /\ x.output = value.output)  BY <1>4, <3>1, <4>1
      <4>3. ~Abstract!Conflicting(ContentValue(x), value)
        BY <4>2 DEF Abstract!Conflicting, ContentValue
      <4>. QED  BY <3>1, <4>1, <4>3
    <3>. QED  BY <3>2, <3>3
  <2>2. value \in own2(doc)
    <3>1. row \in newContent'[c]  BY <1>2
    <3>. QED  BY <1>1, <3>1
  <2>3. ASSUME NEW v \in own(doc), ~Abstract!Conflicting(v, value) PROVE v \in own2(doc)
    <3>1. PICK x \in newContent[c] : x.document = doc /\ v = ContentValue(x)  OBVIOUS
    <3>2. ~(x.source = value.source /\ x.output = value.output)
      BY <2>3, <3>1 DEF Abstract!Conflicting, ContentValue
    <3>3. Key(x) # Key(row)  BY <1>4, <3>1, <3>2
    <3>4. x \in newContent'[c]  BY <1>2, <3>3
    <3>. QED  BY <3>1, <3>4
  <2>. HIDE DEF own, own2
  <2>. QED  BY <2>1, <2>2, <2>3
<1>6. ASSUME NEW d \in Documents, d # doc PROVE own2(d) = own(d)
  <2>1. {y \in newContent'[c] : y.document = d} = {y \in newContent[c] : y.document = d}
    BY <1>1, <1>2, <1>4, <1>6
  <2>. QED  BY <2>1
<1>7. /\ \A d \in Documents : Own(c)[d] =
           [present |-> FALSE, asset |-> AssetValue(newAsset[c][d]), contents |-> own(d)]
      /\ Own(c)' = [d \in Documents |->
           [present |-> FALSE, asset |-> AssetValue(newAsset[c][d]), contents |-> own2(d)]]
  BY DEF Own, AssetValue, ContentValue
<1>. HIDE DEF own, own2
<1>8. ASSUME NEW d \in Documents
      PROVE  Abstract!Recorded(Own(c), report)[d] =
               [present |-> FALSE, asset |-> AssetValue(newAsset[c][d]), contents |-> own2(d)]
  <2>1. CASE d = doc
    <3>1. Abstract!Recorded(Own(c), report)[d] = Abstract!Updated(Own(c)[d], report)
      BY <2>1 DEF Abstract!Recorded
    <3>2. Own(c)[d] = [present |-> FALSE, asset |-> AssetValue(newAsset[c][d]), contents |-> own(d)]
      BY <1>7
    <3>3. Abstract!Updated(Own(c)[d], report) =
            [present |-> FALSE, asset |-> AssetValue(newAsset[c][d]),
             contents |-> {v \in own(d) : ~Abstract!Conflicting(v, value)} \cup {value}]
      BY <3>2, UpdatedByContent
    <3>. HIDE DEF report
    <3>. QED  BY <1>5, <2>1, <3>1, <3>3
  <2>2. CASE d # doc  BY <1>6, <1>7, <2>2 DEF Abstract!Recorded
  <2>. QED  BY <2>1, <2>2
<1>9. Abstract!Recorded(Own(c), report)
        = [d \in Documents |-> Abstract!Recorded(Own(c), report)[d]]
  BY DEF Abstract!Recorded
<1>. HIDE DEF report
<1>10. Own(c)' = Abstract!Recorded(Own(c), report)  BY <1>7, <1>8, <1>9
<1>. QED  BY <1>3, <1>10 DEF report
LEMMA StoreInsertContent ==
  ASSUME StoreInv, NEW c \in Callers, InsertContent(c)
  PROVE  StoreInv'
<1> DEFINE r == Current(c)
           doc == r.document
           value == OfficialContent(r.report, r.at)
           written == [document |-> doc, asset |-> NoAsset, contents |-> {value}]
           half == [document |-> doc, asset |-> Batch(c)[at[c]].asset, contents |-> {}]
<1>1. IInv /\ IInv' /\ Types /\ Types' /\ Frame(c)
  BY InvInsertContent, CallFrame DEF StoreInv, IInv, Call
<1>2. pc[c] = "content" /\ at[c] \in DOMAIN reports[c] /\ newAsset[c][doc] # NoAsset
  BY <1>1 DEF InsertContent, Types, CallTypes
<1>3. /\ DOMAIN reports[c] = 1 .. Len(reports[c]) /\ Len(reports[c]) \in Nat
      /\ doc \in Documents /\ r.report \in Fetches /\ r.at \in Times
  BY <1>1, <1>2, CurrentFetch DEF FetchStages, Current
<1>4. /\ pc' = [pc EXCEPT ![c] = "asset"] /\ at' = [at EXCEPT ![c] = @ + 1]
      /\ UNCHANGED <<reports, newAsset, asset, content>>
      /\ Insert(c, Row(doc, newAsset[c][doc].id, value))
  BY DEF InsertContent, storeVars
<1>5. value \in Values /\ value.output # Null  BY <1>3, OfficialOutput DEF Values
<1>6. AssetSeen(c, doc) # NoAsset /\ AssetSeen(c, doc).id = newAsset[c][doc].id
  BY <1>2 DEF AssetSeen
<1>7. RowIds' /\ Own(c)' = Abstract!Recorded(Own(c), written)
  <2>. HIDE DEF value, doc
  <2>. QED  BY <1>1, <1>3, <1>4, <1>5, <1>6, StoreInsert
<1>8. at[c] \in 1 .. Len(reports[c]) /\ at[c] \in Nat  BY <1>2, <1>3
<1>9. /\ Batch(c)[at[c]].document = doc /\ Batch(c)[at[c]].asset # NoAsset
      /\ Batch(c)[at[c]].contents = {value}
      /\ Batch(c) \in Seq(ReportOf(AssetValues, Values)) /\ Len(Batch(c)) = Len(reports[c])
  <2>1. RecordsContent(r.report)  BY <1>2 DEF StoreInv, Written
  <2>. QED  BY <1>1, <1>2, <1>8, <2>1, FetchBatch DEF Current
<1>10. /\ Done(c)[at[c]] = Abstract!Recorded(Done(c)[at[c] - 1], Batch(c)[at[c]])
       /\ Done(c)[at[c] - 1] \in [Documents -> DocumentOf(AssetValues, Values)]
  <2>1. InTransaction(c) /\ at[c] - 1 \in 0 .. Len(reports[c])  BY <1>2, <1>8 DEF InTransaction
  <2>. QED  BY <1>1, <1>8, <2>1, DoneStep
<1>11. Own(c) = Abstract!Recorded(Done(c)[at[c] - 1], half)
  BY <1>2, <1>9 DEF StoreInv, Written
<1>12. Own(c)' = Done(c)[at[c]]
  <2>1. PICK b : b = Batch(c)[at[c]]  OBVIOUS
  <2>2. PICK ds : ds = Done(c)[at[c] - 1]  OBVIOUS
  <2>3. b.document = doc /\ b.asset # NoAsset /\ b.contents = {value}  BY <1>9, <2>1
  <2>4. \A d \in Documents : Abstract!Recorded(Abstract!Recorded(ds, half), written)[d]
                               = Abstract!Recorded(ds, b)[d]
    <3>1. SUFFICES ASSUME NEW d \in Documents, d = doc
                   PROVE  Abstract!Updated(Abstract!Updated(ds[d], half), written)
                            = Abstract!Updated(ds[d], b)
      BY <2>1, <2>3 DEF Abstract!Recorded
    <3>2. PICK u : u = ds[d]  OBVIOUS
    <3>3. half.contents = {} /\ half.asset = b.asset /\ written.asset = NoAsset
          /\ written.contents = {value}
      BY <2>1
    <3>. HIDE DEF half, written
    <3>. QED  BY <2>3, <3>2, <3>3 DEF Abstract!Updated
  <2>. HIDE DEF half, written
  <2>5. Abstract!Recorded(Abstract!Recorded(ds, half), written) = Abstract!Recorded(ds, b)
    BY <2>4 DEF Abstract!Recorded
  <2>. QED  BY <1>7, <1>10, <1>11, <2>1, <2>2, <2>5
<1>13. Written(c)'
  <2>1. pc'[c] = "asset" /\ at'[c] = at[c] + 1  BY <1>1, <1>4 DEF Types, TypeOK
  <2>2. Done(c)' = Done(c)
    <3>1. Batch(c)' = Batch(c)  BY <1>2, <1>4, <2>1 DEF Batch
    <3>. QED  BY <3>1 DEF Done, Nothing
  <2>3. at'[c] - 1 = at[c]  BY <1>8, <2>1
  <2>. QED  BY <1>12, <2>1, <2>2, <2>3, WrittenAt
<1>. QED  BY <1>1, <1>7, <1>13, WrittenByOthers DEF StoreInv

LEMMA StoreInsertExtraction ==
  ASSUME StoreInv, NEW c \in Callers, InsertExtraction(c)
  PROVE  StoreInv'
<1> DEFINE r == Current(c)
           doc == r.document
           value == r.content
           written == [document |-> doc, asset |-> NoAsset, contents |-> {value}]
<1>1. IInv /\ IInv' /\ Types /\ Types' /\ Frame(c)
  BY InvInsertExtraction, CallFrame DEF StoreInv, IInv, Call
<1>2. /\ pc[c] = "extraction" /\ at[c] \in DOMAIN reports[c] /\ BodyCheck(value)
      /\ pc' = pc /\ at' = [at EXCEPT ![c] = @ + 1]
      /\ UNCHANGED <<reports, newAsset, asset, content>>
      /\ Insert(c, Row(doc, r.id, value))
  BY DEF InsertExtraction, storeVars
<1>3. /\ DOMAIN reports[c] = 1 .. Len(reports[c]) /\ Len(reports[c]) \in Nat
      /\ doc \in Documents /\ r.id \in 1 .. MaxId /\ value \in Extracts
  BY <1>1, <1>2, CurrentExtract DEF ExtractStages, Current
<1>4. value \in Values /\ value.output # Null  BY <1>2, <1>3, ExtractOutput DEF Values
<1>5. asset[doc] # NoAsset /\ asset[doc].id = r.id
  BY ExtractedAsset DEF StoreInv
<1>6. AssetSeen(c, doc) # NoAsset /\ AssetSeen(c, doc).id = r.id
  BY <1>1, <1>3, <1>5 DEF AssetSeen, IInv, AssetsHeld
<1>7. RowIds' /\ Own(c)' = Abstract!Recorded(Own(c), written)
  <2>. HIDE DEF value, doc
  <2>. QED  BY <1>1, <1>2, <1>3, <1>4, <1>6, StoreInsert
<1>8. at[c] \in 1 .. Len(reports[c]) /\ at[c] \in Nat  BY <1>2, <1>3
<1>9. Batch(c)[at[c]] = written  BY <1>1, <1>2, <1>8, ExtractBatch DEF Current
<1>10. Done(c)[at[c]] = Abstract!Recorded(Done(c)[at[c] - 1], Batch(c)[at[c]])
  BY <1>1, <1>2, <1>8, DoneStep DEF InTransaction
<1>11. Own(c)' = Done(c)[at[c]]
  <2>1. Own(c) = Done(c)[at[c] - 1]  BY <1>2 DEF StoreInv, Written
  <2>. HIDE DEF written
  <2>. QED  BY <1>7, <1>9, <1>10, <2>1
<1>12. Written(c)'
  <2>1. pc'[c] = "extraction" /\ at'[c] - 1 = at[c]  BY <1>1, <1>2, <1>8 DEF Types
  <2>2. Done(c)' = Done(c)
    <3>1. Batch(c)' = Batch(c)  BY <1>2 DEF Batch
    <3>. QED  BY <3>1 DEF Done, Nothing
  <2>3. \A d \in Documents : newAsset'[c][d] = NoAsset  BY <1>2 DEF StoreInv, Written
  <2>. QED  BY <1>11, <2>1, <2>2, <2>3, WrittenAt
<1>. QED  BY <1>1, <1>7, <1>12, WrittenByOthers DEF StoreInv

LEMMA StoreEnd ==
  ASSUME StoreInv, NEW c \in Callers, Fail(c) \/ CommitFetches(c) \/ CommitExtractions(c)
  PROVE  StoreInv'
<1>1. IInv /\ IInv' /\ Types /\ Frame(c)
  BY InvFail, InvCommit, CallFrame DEF StoreInv, IInv, Call
<1>2. /\ content' \subseteq newContent[c] \cup content /\ ids' = ids
      /\ newContent'[c] = {}
      /\ pc'[c] \notin {"asset", "content", "extraction"}
  BY <1>1 DEF Fail, CommitFetches, CommitExtractions, Publish, End, Types, TypeOK
<1>3. Rows' \subseteq Rows
  <2>1. \A e \in Callers \ {c} : newContent'[e] = newContent[e]  BY <1>1 DEF Frame
  <2>. QED  BY <1>2, <2>1 DEF Rows
<1>4. RowIds'  BY <1>1, <1>2, <1>3, FewerRows
<1>5. Written(c)'  BY <1>2 DEF Written
<1>. QED  BY <1>1, <1>4, <1>5, WrittenByOthers DEF StoreInv

LEMMA StoreStutter == StoreInv /\ UNCHANGED vars => StoreInv'
<1> SUFFICES ASSUME StoreInv, UNCHANGED vars PROVE StoreInv'  OBVIOUS
<1>1. IInv'  BY InvStutter DEF StoreInv
<1>2. UNCHANGED <<content, ids, pc, reports, at, newAsset, newContent>>
  BY DEF vars, storeVars, callVars
<1>3. Rows' = Rows  BY <1>2 DEF Rows
<1>4. RowIds'  BY <1>1, <1>2, <1>3, FewerRows
<1>5. \A c \in Callers : Written(c)'  BY <1>2, WrittenKept DEF StoreInv
<1>. QED  BY <1>1, <1>4, <1>5 DEF StoreInv

LEMMA StoreNext == StoreInv /\ [Next]_vars => StoreInv'
BY StorePage, StoreOutside, StoreUpsertAsset, StoreInsertContent, StoreInsertExtraction,
   StoreEnd, StoreStutter DEF Next, Call

LEMMA StoreInvariant == Spec => []StoreInv
BY StoreInvInit, StoreNext, PTL DEF Spec
-------------------------------------------------------------------------------
(* A COMMIT puts what the transaction has written over what is there.      *)

LEMMA ReplacedRows ==
  ASSUME StoreInv, NEW c \in Callers, NEW x \in content
  PROVE  (\E y \in newContent[c] : x.id = y.id)
           <=> \E y \in newContent[c] : /\ y.document = x.document
                                       /\ y.source = x.source /\ y.output = x.output
<1>1. PICK d \in Documents : d = x.document  BY DEF StoreInv, IInv, Types, TypeOK
<1>2. asset[d] # NoAsset /\ asset[d].id = x.asset
  BY <1>1 DEF StoreInv, IInv, ContentMatchesAsset, AssetId, Types, TypeOK
<1>3. AssetSeen(c, d) # NoAsset /\ AssetSeen(c, d).id = x.asset
  BY <1>2 DEF StoreInv, IInv, AssetsHeld, AssetSeen
<1>4. ASSUME NEW y \in newContent[c]
      PROVE  /\ y \in Rows /\ x \in Rows /\ y.document \in Documents
             /\ AssetSeen(c, y.document) # NoAsset /\ AssetSeen(c, y.document).id = y.asset
  BY DEF Rows, StoreInv, IInv, ContentsHeld, Types, CallTypes
<1>5. ASSUME NEW y \in newContent[c], x.id = y.id
      PROVE  y.document = x.document /\ y.source = x.source /\ y.output = x.output
  <2>1. Key(x) = Key(y)  BY <1>4, <1>5 DEF StoreInv, RowIds
  <2>2. y.asset = x.asset /\ y.source = x.source /\ y.output = x.output  BY <2>1 DEF Key
  <2>3. PICK e \in Documents : e = y.document  BY <1>4
  <2>4. AssetSeen(c, e) # NoAsset /\ AssetSeen(c, e).id = AssetSeen(c, d).id
    BY <1>3, <1>4, <2>2, <2>3
  <2>5. d = e  BY <1>3, <2>4, SeenOnce DEF StoreInv
  <2>. QED  BY <1>1, <2>2, <2>3, <2>5
<1>6. ASSUME NEW y \in newContent[c],
             y.document = x.document, y.source = x.source, y.output = x.output
      PROVE  x.id = y.id
  <2>1. y.asset = x.asset  BY <1>1, <1>3, <1>4, <1>6
  <2>2. Key(x) = Key(y)  BY <1>6, <2>1 DEF Key
  <2>. QED  BY <2>2 DEF StoreInv, IInv, Unique
<1>. QED  BY <1>5, <1>6

LEMMA CommitDocs ==
  ASSUME StoreInv, NEW c \in Callers, CommitFetches(c) \/ CommitExtractions(c)
  PROVE  Docs' = [d \in Documents |-> Abstract!Updated(Docs[d], Own(c)[d])]
<1>1. /\ asset' = [d \in Documents |-> AssetSeen(c, d)]
      /\ content' = newContent[c] \cup {x \in content : \A y \in newContent[c] : x.id # y.id}
      /\ present' = present
  BY DEF CommitFetches, CommitExtractions, Publish, End
<1> DEFINE old(d) == {ContentValue(x) : x \in {y \in content : y.document = d}}
           own(d) == {ContentValue(x) : x \in {y \in newContent[c] : y.document = d}}
           new(d) == {ContentValue(x) : x \in {y \in content' : y.document = d}}
<1>2. ASSUME NEW d \in Documents
      PROVE  new(d) = {v \in old(d) : \A w \in own(d) : ~Abstract!Conflicting(v, w)} \cup own(d)
  <2>1. ASSUME NEW x \in content, x.document = d
        PROVE  (\A y \in newContent[c] : x.id # y.id)
                 <=> \A w \in own(d) : ~Abstract!Conflicting(ContentValue(x), w)
    <3>1. ASSUME NEW y \in newContent[c], x.id = y.id
          PROVE  \E w \in own(d) : Abstract!Conflicting(ContentValue(x), w)
      <4>1. PICK z \in newContent[c] : /\ z.document = x.document
                                      /\ z.source = x.source /\ z.output = x.output
        BY <3>1, ReplacedRows
      <4>2. ContentValue(z) \in own(d)  BY <2>1, <4>1
      <4>3. Abstract!Conflicting(ContentValue(x), ContentValue(z))
        BY <4>1 DEF Abstract!Conflicting, ContentValue
      <4>. QED  BY <4>2, <4>3
    <3>2. ASSUME NEW w \in own(d), Abstract!Conflicting(ContentValue(x), w)
          PROVE  \E y \in newContent[c] : x.id = y.id
      <4>1. PICK z \in newContent[c] : z.document = d /\ w = ContentValue(z)  OBVIOUS
      <4>2. z.source = x.source /\ z.output = x.output
        BY <3>2, <4>1 DEF Abstract!Conflicting, ContentValue
      <4>. QED  BY <2>1, <4>1, <4>2, ReplacedRows
    <3>. HIDE DEF own
    <3>. QED  BY <3>1, <3>2
  <2>2. ASSUME NEW v \in new(d)
        PROVE  v \in {u \in old(d) : \A w \in own(d) : ~Abstract!Conflicting(u, w)} \cup own(d)
    <3>1. PICK x \in content' : x.document = d /\ v = ContentValue(x)  OBVIOUS
    <3>2. CASE x \in newContent[c]  BY <3>1, <3>2
    <3>3. CASE x \in content /\ \A y \in newContent[c] : x.id # y.id
      <4>1. v \in old(d)  BY <3>1, <3>3
      <4>2. \A w \in own(d) : ~Abstract!Conflicting(v, w)  BY <2>1, <3>1, <3>3
      <4>. HIDE DEF old, own
      <4>. QED  BY <4>1, <4>2
    <3>. QED  BY <1>1, <3>1, <3>2, <3>3
  <2>3. own(d) \subseteq new(d)  BY <1>1
  <2>4. ASSUME NEW v \in old(d), \A w \in own(d) : ~Abstract!Conflicting(v, w)
        PROVE  v \in new(d)
    <3>1. PICK x \in content : x.document = d /\ v = ContentValue(x)  OBVIOUS
    <3>2. \A y \in newContent[c] : x.id # y.id
      <4>. HIDE DEF own
      <4>. QED  BY <2>1, <2>4, <3>1
    <3>3. x \in content'  BY <1>1, <3>2
    <3>. QED  BY <3>1, <3>3
  <2>. HIDE DEF old, own, new
  <2>. QED  BY <2>2, <2>3, <2>4
<1>3. ASSUME NEW d \in Documents
      PROVE  AssetValue(AssetSeen(c, d)) =
               IF AssetValue(newAsset[c][d]) = NoAsset THEN AssetValue(asset[d])
                                                       ELSE AssetValue(newAsset[c][d])
  <2>1. newAsset[c][d] \in AssetRow \cup {NoAsset}  BY DEF StoreInv, IInv, Types, TypeOK
  <2>2. CASE newAsset[c][d] = NoAsset  BY <2>2 DEF AssetSeen, AssetValue
  <2>3. CASE newAsset[c][d] # NoAsset
    <3>1. AssetValue(newAsset[c][d]) # NoAsset
      <4>1. PICK row \in AssetRow : row = newAsset[c][d] /\ row # NoAsset  BY <2>1, <2>3
      <4>2. AssetValue(row) \in [status : Statuses, at : Times]
        BY <4>1 DEF AssetValue, AssetRow
      <4>. QED  BY <4>1, <4>2, NoAssetAssumption
    <3>. QED  BY <2>3, <3>1 DEF AssetSeen
  <2>. QED  BY <2>2, <2>3
<1>4. /\ \A d \in Documents :
           Docs[d] = [present |-> d \in present, asset |-> AssetValue(asset[d]), contents |-> old(d)]
      /\ \A d \in Documents :
           Own(c)[d] = [present |-> FALSE, asset |-> AssetValue(newAsset[c][d]), contents |-> own(d)]
      /\ Docs' = [d \in Documents |->
           [present |-> d \in present, asset |-> AssetValue(AssetSeen(c, d)), contents |-> new(d)]]
  <2>1. \A d \in Documents : AssetValue(asset[d])' = AssetValue(AssetSeen(c, d))
    BY <1>1 DEF AssetValue
  <2>2. Docs' = [d \in Documents |->
           [present |-> d \in present, asset |-> AssetValue(asset[d])', contents |-> new(d)]]
    BY <1>1 DEF Docs, ContentValue
  <2>. QED  BY <2>1, <2>2 DEF Docs, Own
<1>. HIDE DEF old, own, new
<1>5. ASSUME NEW d \in Documents
      PROVE  Abstract!Updated(Docs[d], Own(c)[d]) =
               [present |-> d \in present, asset |-> AssetValue(AssetSeen(c, d)), contents |-> new(d)]
  <2> DEFINE p == d \in present
             a == AssetValue(asset[d])
             b == AssetValue(newAsset[c][d])
  <2>1. Abstract!Updated(Docs[d], Own(c)[d]) =
          Abstract!Updated([present |-> p, asset |-> a, contents |-> old(d)],
                           [present |-> FALSE, asset |-> b, contents |-> own(d)])
    BY <1>4
  <2>2. @ = [present |-> p, asset |-> IF b = NoAsset THEN a ELSE b,
             contents |-> {x \in old(d) : \A y \in own(d) : ~Abstract!Conflicting(x, y)} \cup own(d)]
    <3>. HIDE DEF p, a, b
    <3>. QED  BY DEF Abstract!Updated
  <2>. QED  BY <1>2, <1>3, <2>1, <2>2
<1>. QED  BY <1>4, <1>5
-------------------------------------------------------------------------------
(* Steps of the abstract store.                                            *)

LEMMA DocsType ==
  ASSUME IInv, NEW C, \A x \in content : ContentValue(x) \in C
  PROVE  Docs \in [Documents -> DocumentOf(AssetValues, C)]
<1>1. ASSUME NEW d \in Documents PROVE AssetValue(asset[d]) \in AssetValues \cup {NoAsset}
  <2>1. asset[d] \in AssetRow \cup {NoAsset}  BY DEF IInv, Types, TypeOK
  <2>. QED  BY <2>1 DEF AssetValue, AssetRow, AssetValues
<1>2. ASSUME NEW d \in Documents
      PROVE  {ContentValue(x) : x \in {y \in content : y.document = d}} \in SUBSET C
  OBVIOUS
<1>. HIDE DEF AssetValues
<1>. QED  BY <1>1, <1>2 DEF Docs, DocumentOf

(* What a report adds to a document may be replaced, but not taken away.   *)
LEMMA NothingLost ==
  ASSUME NEW A, NEW C, NEW b \in Seq(ReportOf(A, C)), NEW i \in 1 .. Len(b),
         b[i].contents # {}
  PROVE  Abstract!After(Nothing, b)[Len(b)][b[i].document].contents # {}
<1> DEFINE g == Abstract!After(Nothing, b)
           S == {n \in Nat : n \in i .. Len(b) => g[n][b[i].document].contents # {}}
<1>1. \A n \in 1 .. Len(b) : g[n] = Abstract!Recorded(g[n - 1], b[n])
  <2>1. Nothing \in [Documents -> DocumentOf(A, C)]  BY NothingType
  <2>. QED  BY <2>1, AfterType
<1>2. PICK d \in Documents : d = b[i].document
  <2>1. b[i] \in ReportOf(A, C)  OBVIOUS
  <2>. QED  BY <2>1 DEF ReportOf
<1>. HIDE DEF g
<1>3. ASSUME NEW n \in 1 .. Len(b), n = i \/ g[n - 1][d].contents # {}
      PROVE  g[n][d].contents # {}
  <2>1. PICK r : r = b[n]  OBVIOUS
  <2>2. PICK u : u = g[n - 1][d]  OBVIOUS
  <2>3. g[n][d] = IF d = r.document THEN Abstract!Updated(u, r) ELSE u
    BY <1>1, <2>1, <2>2 DEF Abstract!Recorded
  <2>4. Abstract!Updated(u, r).contents =
          {x \in u.contents : \A y \in r.contents : ~Abstract!Conflicting(x, y)} \cup r.contents
    BY DEF Abstract!Updated
  <2>5. CASE n = i  BY <1>2, <2>1, <2>3, <2>4, <2>5
  <2>6. CASE u.contents # {}  BY <2>3, <2>4, <2>6
  <2>. QED  BY <1>3, <2>2, <2>5, <2>6
<1>4. 0 \in S  OBVIOUS
<1>5. ASSUME NEW n \in Nat, n \in S PROVE n + 1 \in S
  <2>1. SUFFICES ASSUME n + 1 \in i .. Len(b) PROVE g[n + 1][d].contents # {}  BY <1>2
  <2>2. n + 1 \in 1 .. Len(b) /\ n + 1 - 1 = n /\ (n + 1 = i \/ n \in i .. Len(b))  BY <2>1
  <2>3. n + 1 = i \/ g[n][d].contents # {}  BY <1>2, <1>5, <2>2
  <2>4. PICK m \in 1 .. Len(b) : m = n + 1 /\ m - 1 = n  BY <2>2
  <2>. QED  BY <1>3, <2>3, <2>4
<1>. HIDE DEF S
<1>6. Len(b) \in S /\ Len(b) \in i .. Len(b)  BY <1>4, <1>5, NatSetInduction
<1>. QED  BY <1>6 DEF S, g

(* A batch that commits is recorded, if it is not empty.                   *)
LEMMA CommitRecords ==
  ASSUME StoreInv, NEW c \in Callers, CommitFetches(c) \/ CommitExtractions(c)
  PROVE  /\ Docs' = Abstract!After(Docs, Batch(c))[Len(Batch(c))]
         /\ \A i \in DOMAIN Batch(c) : Abstract!Recordable(Docs, Batch(c)[i])
         /\ Batch(c) = <<>> => Docs' = Docs
<1>1. IInv /\ Types  BY DEF StoreInv, IInv
<1>2. /\ pc[c] \in {"asset", "extraction"} /\ InTransaction(c)
      /\ at[c] \notin DOMAIN reports[c]
  BY DEF CommitFetches, CommitExtractions, InTransaction
<1>3. /\ Batch(c) \in Seq(ReportOf(AssetValues, Values))
      /\ Len(Batch(c)) = Len(reports[c]) /\ Len(reports[c]) \in Nat
      /\ DOMAIN reports[c] = 1 .. Len(reports[c])
  <2>1. DOMAIN reports[c] = 1 .. Len(reports[c])
    BY <1>1, <1>2, CurrentFetch, CurrentExtract DEF FetchStages, ExtractStages
  <2>. QED  BY <1>1, <1>2, <2>1, DoneStep
<1>4. at[c] - 1 = Len(reports[c]) /\ at[c] = Len(reports[c]) + 1
  BY <1>1, <1>2, <1>3 DEF Types, TypeOK
<1>5. Own(c) = Abstract!After(Nothing, Batch(c))[Len(Batch(c))]
  BY <1>2, <1>3, <1>4 DEF StoreInv, Written, Done
<1> DEFINE C == Values \cup {ContentValue(x) : x \in content}
           b == Batch(c)
<1>6. Docs \in [Documents -> DocumentOf(AssetValues, C)]
  <2>1. \A x \in content : ContentValue(x) \in C  OBVIOUS
  <2>. HIDE DEF C
  <2>. QED  BY <1>1, <2>1, DocsType
<1>7. b \in Seq(ReportOf(AssetValues, C)) /\ Len(b) \in Nat /\ DOMAIN b = 1 .. Len(b)
  <2>1. ReportOf(AssetValues, Values) \subseteq ReportOf(AssetValues, C)  BY DEF ReportOf
  <2>2. \A i \in DOMAIN b : b[i] \in ReportOf(AssetValues, Values)  BY <1>3, SeqElement
  <2>. HIDE DEF C, ReportOf
  <2>. QED  BY <1>3, <2>1, <2>2
<1>. HIDE DEF b, C
<1>8. Abstract!After(Docs, b)[Len(b)] =
        [d \in Documents |-> Abstract!Updated(Docs[d], Abstract!After(Nothing, b)[Len(b)][d])]
  <2>1. Len(b) \in 0 .. Len(b)  BY <1>7
  <2>. QED  BY <1>6, <1>7, <2>1, AfterNothing
<1>9. Docs' = Abstract!After(Docs, b)[Len(b)]
  BY <1>5, <1>8, CommitDocs DEF b
<1>10. ASSUME NEW i \in DOMAIN b PROVE Abstract!Recordable(Docs, b[i])
  <2>1. i \in 1 .. Len(reports[c])  BY <1>3, <1>7 DEF b
  <2>2. PICK d \in Documents : d = reports[c][i].document /\ b[i].document = d
    <3>1. CASE pc[c] = "asset"
      <4>1. reports[c][i].document \in Documents
        BY <1>1, <1>3, <2>1, <3>1, CurrentFetch DEF FetchStages
      <4>2. b[i].document = reports[c][i].document  BY <1>1, <2>1, <3>1, FetchBatch DEF b
      <4>. QED  BY <4>1, <4>2
    <3>2. CASE pc[c] = "extraction"
      <4>1. reports[c][i].document \in Documents
        BY <1>1, <1>3, <2>1, <3>2, CurrentExtract DEF ExtractStages
      <4>2. b[i] = [document |-> reports[c][i].document, asset |-> NoAsset,
                    contents |-> {reports[c][i].content}]
        BY <1>1, <2>1, <3>2, ExtractBatch DEF b
      <4>. QED  BY <4>1, <4>2
    <3>. QED  BY <1>2, <3>1, <3>2
  <2>3. d \in Locked(c)
    <3>1. i < at[c] /\ i \in DOMAIN reports[c]  BY <1>3, <1>4, <2>1
    <3>. QED  BY <1>2, <2>2, <3>1 DEF Locked
  <2>4. d \in present  BY <1>1, <2>3 DEF IInv, LockedStay
  <2>5. Docs[d].present  BY <2>4 DEF Docs
  <2>6. CASE pc[c] = "asset"
    <3>1. b[i].asset # NoAsset  BY <1>1, <2>1, <2>6, FetchBatch DEF b
    <3>. QED  BY <2>2, <2>5, <3>1 DEF Abstract!Recordable
  <2>7. CASE pc[c] = "extraction"
    <3>1. b[i].contents # {}
      <4>1. b[i] = [document |-> reports[c][i].document, asset |-> NoAsset,
                    contents |-> {reports[c][i].content}]
        BY <1>1, <2>1, <2>7, ExtractBatch DEF b
      <4>. QED  BY <4>1
    <3>2. Own(c)[d].contents # {}
      BY <1>3, <1>5, <1>7, <2>1, <2>2, <3>1, NothingLost DEF b
    <3>3. PICK x \in newContent[c] : x.document = d  BY <3>2 DEF Own
    <3>4. AssetSeen(c, d) # NoAsset  BY <1>1, <3>3 DEF IInv, ContentsHeld
    <3>5. newAsset[c][d] = NoAsset
      BY <2>7 DEF StoreInv, Written
    <3>6. asset[d] # NoAsset  BY <3>4, <3>5 DEF AssetSeen
    <3>7. AssetValue(asset[d]) \in [status : Statuses, at : Times]
      <4>1. PICK row \in AssetRow : row = asset[d] /\ row # NoAsset
        BY <1>1, <3>6 DEF IInv, Types, TypeOK
      <4>. QED  BY <4>1 DEF AssetValue, AssetRow
    <3>8. Docs[d].asset # NoAsset  BY <3>7, NoAssetAssumption DEF Docs
    <3>. QED  BY <2>2, <2>5, <3>8 DEF Abstract!Recordable
  <2>. QED  BY <1>2, <2>6, <2>7
<1>11. ASSUME Batch(c) = <<>> PROVE Docs' = Docs
  <2>1. Len(b) = 0  BY <1>11 DEF b
  <2>2. Abstract!After(Docs, b)[0] = Docs  BY <1>6, <1>7, AfterType
  <2>. QED  BY <1>9, <2>1, <2>2
<1>. QED  BY <1>9, <1>10, <1>11 DEF b

LEMMA PageWrites ==
  ASSUME StoreInv, PageStep
  PROVE  \A d \in Documents : Docs'[d] \in {Docs[d], Abstract!Missing, Abstract!Fresh}
<1>1. ASSUME NEW d \in Documents, (d \in present') = (d \in present), asset'[d] = asset[d],
             {y \in content' : y.document = d} = {y \in content : y.document = d}
      PROVE  Docs'[d] = Docs[d]
  BY <1>1 DEF Docs, AssetValue, ContentValue
<1>2. CASE BeginPage \/ WriteDocument \/ FailPage
  BY <1>1, <1>2 DEF BeginPage, WriteDocument, FailPage, storeVars
<1>3. CASE CommitPage
  <2> SUFFICES ASSUME NEW d \in Documents
               PROVE  Docs'[d] \in {Docs[d], Abstract!Missing, Abstract!Fresh}
    OBVIOUS
  <2>1. Len(page) \in Nat /\ DOMAIN page = 1 .. Len(page) /\ next \in 1 .. Len(page) + 1
    BY PageTyped DEF StoreInv, IInv, Types, TypeOK
  <2>2. \A i \in DOMAIN page : page[i].document \in Rewritten
    BY <1>3, <2>1 DEF CommitPage, Rewritten
  <2>3. /\ present' = (present \ Rewritten)
                        \cup {page[i].document : i \in {k \in DOMAIN page : ~page[k].deleted}}
        /\ asset'[d] = (IF d \in Rewritten THEN NoAsset ELSE asset[d])
        /\ content' = {x \in content : x.document \notin Rewritten}
    BY <1>3 DEF CommitPage
  <2>4. CASE d \in Rewritten
    <3>1. asset'[d] = NoAsset /\ {y \in content' : y.document = d} = {}  BY <2>3, <2>4
    <3>2. Docs'[d] = [present |-> d \in present', asset |-> NoAsset, contents |-> {}]
      <4>1. Docs'[d] = [present |-> d \in present', asset |-> AssetValue(asset[d])',
                        contents |-> {ContentValue(x) : x \in {y \in content' : y.document = d}}]
        BY DEF Docs, ContentValue
      <4>2. AssetValue(asset[d])' = NoAsset  BY <3>1 DEF AssetValue
      <4>. QED  BY <3>1, <4>1, <4>2
    <3>3. CASE d \in present'
      <4>1. (d \in present') = TRUE  BY <3>3
      <4>2. Docs'[d] = [present |-> TRUE, asset |-> NoAsset, contents |-> {}]  BY <3>2, <4>1
      <4>. QED  BY <4>2 DEF Abstract!Fresh
    <3>4. CASE d \notin present'
      <4>1. (d \in present') = FALSE  BY <3>4
      <4>2. Docs'[d] = [present |-> FALSE, asset |-> NoAsset, contents |-> {}]  BY <3>2, <4>1
      <4>. QED  BY <4>2 DEF Abstract!Missing
    <3>. QED  BY <3>3, <3>4
  <2>5. CASE d \notin Rewritten
    <3>1. (d \in present') = (d \in present)  BY <2>2, <2>3, <2>5
    <3>2. {y \in content' : y.document = d} = {y \in content : y.document = d}  BY <2>3, <2>5
    <3>. QED  BY <1>1, <2>3, <2>5, <3>1, <3>2
  <2>. QED  BY <2>4, <2>5
<1>. QED  BY <1>2, <1>3 DEF PageStep

(* Every step is one of the abstract store, or none.                       *)
LEMMA StepRecords ==
  ASSUME StoreInv, StoreInv', [Next]_vars
  PROVE  [Abstract!Next]_(Abstract!vars)
<1> DEFINE batches == [c \in Callers |-> Batch(c)]
<1>1. CASE PageStep
  <2>1. batches' = batches
    <3>1. \A c \in Callers : Batch(c)' = Batch(c)
      BY <1>1, PageEffect DEF callVars, Batch, StoreInv
    <3>. QED  BY <3>1
  <2>2. Abstract!WritePage  BY <1>1, <2>1, PageWrites DEF Abstract!WritePage
  <2>. QED  BY <2>2 DEF Abstract!Next
<1>2. ASSUME NEW c \in Callers, Call(c)
      PROVE  [Abstract!Next]_(Abstract!vars)
  <2>1. Frame(c) /\ Types /\ Types'  BY <1>2, CallFrame DEF StoreInv, IInv
  <2>2. \A e \in Callers \ {c} : Batch(e)' = Batch(e)
    BY <2>1 DEF Frame, Batch
  <2>3. /\ DOMAIN batches' = Callers /\ \A e \in Callers \ {c} : batches'[e] = batches[e]
        /\ batches[c] = Batch(c) /\ batches'[c] = Batch(c)'
    BY <2>2
  <2>4. ASSUME Batch(c)' = Batch(c) PROVE batches' = batches  BY <2>2, <2>4
  <2>5. ASSUME UNCHANGED <<present, asset, content>> PROVE Docs' = Docs
    BY <2>5 DEF Docs, AssetValue, ContentValue
  <2>6. CASE FetchMany(c) \/ Lookup(c) \/ ExtractAll(c)
    <3>1. Batch(c)' = Batch(c)
      BY <2>1, <2>6 DEF FetchMany, Lookup, ExtractAll, Batch, Types, TypeOK
    <3>2. UNCHANGED <<present, asset, content>>
      BY <2>6 DEF FetchMany, Lookup, ExtractAll, storeVars
    <3>. QED  BY <2>4, <2>5, <3>1, <3>2 DEF Abstract!vars
  <2>7. CASE Begin(c, "fetched", "asset") \/ Begin(c, "extracted", "extraction")
    <3>1. Batch(c) = <<>>  BY <2>7 DEF Begin, Batch
    <3>2. UNCHANGED <<present, asset, content>>  BY <2>7 DEF Begin, storeVars
    <3>3. Abstract!Submit(c)  BY <2>3, <2>5, <3>1, <3>2 DEF Abstract!Submit
    <3>. QED  BY <3>3 DEF Abstract!Next
  <2>8. CASE UpsertAsset(c) \/ InsertContent(c) \/ InsertExtraction(c)
    <3>1. Batch(c)' = Batch(c)
      <4>1. reports' = reports
        BY <2>8 DEF UpsertAsset, InsertContent, InsertExtraction
      <4>2. pc \in [Callers -> {"idle", "fetched", "asset", "content", "recorded", "known",
                                "extracted", "extraction"}]
        BY <2>1 DEF Types, TypeOK
      <4>3. CASE UpsertAsset(c)
        <5>1. pc[c] = "asset" /\ pc'[c] \in {"asset", "content"}
          BY <4>2, <4>3 DEF UpsertAsset
        <5>. QED  BY <4>1, <5>1 DEF Batch
      <4>4. CASE InsertContent(c)
        <5>1. pc[c] = "content" /\ pc'[c] = "asset"  BY <4>2, <4>4 DEF InsertContent
        <5>. QED  BY <4>1, <5>1 DEF Batch
      <4>5. CASE InsertExtraction(c)
        <5>1. pc[c] = "extraction" /\ pc'[c] = "extraction"  BY <4>5 DEF InsertExtraction
        <5>. QED  BY <4>1, <5>1 DEF Batch
      <4>. QED  BY <2>8, <4>3, <4>4, <4>5
    <3>2. UNCHANGED <<present, asset, content>>
      BY <2>8 DEF UpsertAsset, InsertContent, InsertExtraction, storeVars
    <3>. QED  BY <2>4, <2>5, <3>1, <3>2 DEF Abstract!vars
  <2>9. ASSUME pc'[c] \notin {"asset", "content", "extraction"}
        PROVE  Batch(c)' = <<>> /\ batches' = [batches EXCEPT ![c] = <<>>]
    <3>1. Batch(c)' = <<>>  BY <2>9 DEF Batch
    <3>. QED  BY <2>2, <3>1
  <2>10. CASE Fail(c)
    <3>1. pc'[c] = "idle" /\ UNCHANGED <<present, asset, content>>
      BY <2>1, <2>10 DEF Fail, End, Types, TypeOK
    <3>2. Batch(c)' = <<>> /\ batches' = [batches EXCEPT ![c] = <<>>] /\ Docs' = Docs
      BY <2>5, <2>9, <3>1
    <3>3. CASE Batch(c) = <<>>
      <4>1. batches' = batches  BY <2>4, <3>2, <3>3
      <4>. QED  BY <3>2, <4>1 DEF Abstract!vars
    <3>4. CASE Batch(c) # <<>>
      <4>1. Abstract!Refuse(c)  BY <3>2, <3>4 DEF Abstract!Refuse
      <4>. QED  BY <4>1 DEF Abstract!Next
    <3>. QED  BY <3>3, <3>4
  <2>11. CASE CommitFetches(c) \/ CommitExtractions(c)
    <3>1. pc'[c] \in {"recorded", "fetched", "extracted", "idle"}
      BY <2>1, <2>11 DEF CommitFetches, CommitExtractions, Types, TypeOK
    <3>2. Batch(c)' = <<>> /\ batches' = [batches EXCEPT ![c] = <<>>]
      BY <2>9, <3>1
    <3>3. CASE Batch(c) = <<>>
      <4>1. batches' = batches  BY <2>4, <3>2, <3>3
      <4>2. Docs' = Docs  BY <2>11, <3>3, CommitRecords
      <4>. QED  BY <4>1, <4>2 DEF Abstract!vars
    <3>4. CASE Batch(c) # <<>>
      <4>1. Abstract!Record(c)  BY <2>11, <3>2, <3>4, CommitRecords DEF Abstract!Record
      <4>. QED  BY <4>1 DEF Abstract!Next
    <3>. QED  BY <3>3, <3>4
  <2>. QED  BY <1>2, <2>6, <2>7, <2>8, <2>10, <2>11 DEF Call
<1>3. CASE UNCHANGED vars
  <2>1. \A c \in Callers : Batch(c)' = Batch(c)
    BY <1>3 DEF vars, callVars, Batch
  <2>2. Docs' = Docs  BY <1>3 DEF vars, storeVars, Docs, AssetValue, ContentValue
  <2>. QED  BY <2>1, <2>2 DEF Abstract!vars
<1>. QED  BY <1>1, <1>2, <1>3 DEF Next

(* A batch is recorded whole or not at all, and as if alone, whatever      *)
(* pages and other batches do between its statements                       *)
(* (record_document_asset_fetches, record_document_content_extractions).   *)
THEOREM BatchesAreAtomic == Spec => RefinesDocumentStore
<1>1. Init => Abstract!Init
  <2> SUFFICES ASSUME Init PROVE Abstract!Init  OBVIOUS
  <2>1. Docs = [d \in Documents |-> Abstract!Missing]
    <3>1. ASSUME NEW d \in Documents
          PROVE  /\ (d \in present) = FALSE /\ AssetValue(asset[d]) = NoAsset
                 /\ {ContentValue(x) : x \in {y \in content : y.document = d}} = {}
      BY DEF Init, AssetValue
    <3>. QED  BY <3>1 DEF Docs, Abstract!Missing
  <2>2. \A c \in Callers : Batch(c) = <<>>  BY DEF Init, Batch
  <2>. QED  BY <2>1, <2>2 DEF Abstract!Init
<1>2. StoreInv /\ StoreInv' /\ [Next]_vars => [Abstract!Next]_(Abstract!vars)  BY StepRecords
<1>. QED
  BY <1>1, <1>2, StoreInvariant, PTL DEF Spec, RefinesDocumentStore, Abstract!Spec

-------------------------------------------------------------------------------
(* Readers.  Both sort by the same order, and rows differ in their ids.    *)

RowsTyped == \A x \in Rows : x.official \in BOOLEAN /\ x.rank \in Nat /\ x.at \in Nat

(* An id is one row's, in what is committed and in what a transaction has  *)
(* written to replace it.                                                  *)
OneRowPerId ==
  /\ \A x, y \in content : x.id = y.id => x = y
  /\ \A c \in Callers : \A x, y \in newContent[c] : x.id = y.id => x = y

ReadInv == StoreInv /\ RowsTyped /\ OneRowPerId

(* What a source is worth as evidence is known of every source.            *)
LEMMA FetchSource ==
  ASSUME NEW fetch \in Fetches
  PROVE  fetch.source.official \in BOOLEAN /\ fetch.source.rank \in Nat
<1>1. PICK run, alternative : fetch = FetchOne(run, alternative)  BY DEF Fetches
<1>2. ASSUME NEW status
      PROVE  /\ Unfetched(status).source.official \in BOOLEAN
             /\ Unfetched(status).source.rank \in Nat
  BY DEF Unfetched, NoSource
<1>3. ASSUME NEW answer, NEW official \in BOOLEAN, NEW rank \in Nat
      PROVE  /\ Fetched(answer, official, rank).source.official \in BOOLEAN
             /\ Fetched(answer, official, rank).source.rank \in Nat
  BY DEF Fetched
<1>4. PICK best : best = FetchAlternative(FetchBytes(alternative))  OBVIOUS
<1>5. best.source.official \in BOOLEAN /\ best.source.rank \in Nat
  <2>1. best \in {Fetched(FetchBytes(alternative), TRUE, 0), Unfetched("failed")}
    BY <1>4 DEF FetchAlternative
  <2>. QED  BY <1>2, <1>3, <2>1
<1>6. PICK answer : answer = FetchBytes(run)  OBVIOUS
<1>7. \/ fetch \in {Unfetched("not_found"), Unfetched("failed"),
                    Unfetched("unsupported_content_type")}
      \/ fetch \in {Fetched(answer, TRUE, 0), best}
      \/ fetch = Fetched(answer, OfficialKind(answer.type), 10)
  BY <1>1, <1>4, <1>6 DEF FetchOne
<1>8. OfficialKind(answer.type) \in BOOLEAN
  <2>1. OfficialKind(answer.type) = (answer.type \in {"text", "html"})  BY DEF OfficialKind
  <2>2. (answer.type \in {"text", "html"}) = TRUE \/ (answer.type \in {"text", "html"}) = FALSE
    OBVIOUS
  <2>. QED  BY <2>1, <2>2
<1>9. CASE fetch \in {Unfetched("not_found"), Unfetched("failed"),
                      Unfetched("unsupported_content_type")}
  BY <1>2, <1>9
<1>10. CASE fetch \in {Fetched(answer, TRUE, 0), best}
  BY <1>3, <1>5, <1>10
<1>11. CASE fetch = Fetched(answer, OfficialKind(answer.type), 10)
  BY <1>3, <1>8, <1>11
<1>. QED  BY <1>7, <1>9, <1>10, <1>11

LEMMA ValueTyped ==
  ASSUME NEW v \in Values
  PROVE  v.official \in BOOLEAN /\ v.rank \in Nat /\ v.at \in Nat
<1>1. CASE v \in Extracts
  <2>1. PICK fetch \in Fetches, time \in Times, fixture \in Fixtures :
          v = Extract(fetch.source, time, fixture)
    BY <1>1 DEF Extracts
  <2>2. PICK source : source = fetch.source  OBVIOUS
  <2>3. v.official = source.official /\ v.rank = source.rank /\ v.at = time
    BY <2>1, <2>2 DEF Extract
  <2>. QED  BY <2>2, <2>3, FetchSource, TimesAssumption
<1>2. CASE \E fetch \in Fetches, time \in Times : v = OfficialContent(fetch, time)
  <2>1. PICK fetch \in Fetches, time \in Times : v = OfficialContent(fetch, time)  BY <1>2
  <2>2. v.official = TRUE /\ v.rank = fetch.source.rank /\ v.at = time
    BY <2>1 DEF OfficialContent
  <2>. QED  BY <2>2, FetchSource, TimesAssumption
<1>. QED  BY <1>1, <1>2 DEF Values

(* A statement writes one row, with an id of its own or that of the row it *)
(* replaces.                                                               *)
LEMMA ReadInsert ==
  ASSUME ReadInv, NEW c \in Callers, NEW doc \in Documents, NEW assetId, NEW value \in Values,
         value.output # Null, Insert(c, Row(doc, assetId, value)), Frame(c), content' = content
  PROVE  RowsTyped' /\ OneRowPerId'
<1>1. PICK row : InsertedAs(c, doc, assetId, value, row)
  BY InsertedRow DEF ReadInv
<1>2. newContent'[c] = {y \in newContent[c] : Key(y) # Key(row)} \cup {row}
  BY <1>1 DEF InsertedAs, ReadInv, StoreInv, IInv, Types
<1>3. \A e \in Callers \ {c} : newContent'[e] = newContent[e]  BY DEF Frame
<1>4. row.official \in BOOLEAN /\ row.rank \in Nat /\ row.at \in Nat
  <2>1. row.official = value.official /\ row.rank = value.rank /\ row.at = value.at
    BY <1>1 DEF InsertedAs, ContentValue
  <2>. QED  BY <2>1, ValueTyped
<1>5. RowsTyped'
  <2>1. \A x \in Rows' : x \in Rows \/ x = row  BY <1>2, <1>3 DEF Rows
  <2>. QED  BY <1>4, <2>1 DEF ReadInv, RowsTyped
<1>6. ASSUME NEW x \in newContent'[c], NEW y \in newContent'[c], x.id = y.id PROVE x = y
  <2>1. \A z \in newContent[c] : Key(z) # Key(row) => z.id # row.id
    BY <1>1 DEF InsertedAs, Rows
  <2>2. \A u, v \in newContent[c] : u.id = v.id => u = v  BY DEF ReadInv, OneRowPerId
  <2>. QED  BY <1>2, <1>6, <2>1, <2>2
<1>. QED  BY <1>3, <1>5, <1>6 DEF ReadInv, OneRowPerId

LEMMA ReadOther ==
  ASSUME ReadInv, [Next]_vars, \A c \in Callers : ~InsertContent(c) /\ ~InsertExtraction(c)
  PROVE  RowsTyped' /\ OneRowPerId'
<1>1. ASSUME content' \subseteq content, newContent' = newContent
      PROVE  RowsTyped' /\ OneRowPerId'
  <2>1. Rows' \subseteq Rows  BY <1>1 DEF Rows
  <2>. QED  BY <1>1, <2>1 DEF ReadInv, RowsTyped, OneRowPerId
<1>2. CASE PageStep
  BY <1>1, <1>2, PageEffect DEF callVars, ReadInv, StoreInv
<1>3. CASE UNCHANGED vars
  BY <1>1, <1>3 DEF vars, storeVars, callVars
<1>4. ASSUME NEW c \in Callers, Fail(c) \/ CommitFetches(c) \/ CommitExtractions(c)
      PROVE  RowsTyped' /\ OneRowPerId'
  <2>1. newContent' = [newContent EXCEPT ![c] = {}] /\ DOMAIN newContent = Callers
    BY <1>4 DEF Fail, CommitFetches, CommitExtractions, End, ReadInv, StoreInv, IInv, Types
  <2>2. \/ content' = content
        \/ content' = newContent[c] \cup {x \in content : \A y \in newContent[c] : x.id # y.id}
    BY <1>4 DEF Fail, CommitFetches, CommitExtractions, Publish
  <2>3. Rows' \subseteq Rows  BY <2>1, <2>2 DEF Rows
  <2>4. \A x, y \in content' : x.id = y.id => x = y
    BY <2>2 DEF ReadInv, OneRowPerId
  <2>. QED  BY <2>1, <2>3, <2>4 DEF ReadInv, RowsTyped, OneRowPerId
<1>5. ASSUME NEW c \in Callers,
             \/ FetchMany(c) \/ Begin(c, "fetched", "asset") \/ UpsertAsset(c) \/ Lookup(c)
             \/ ExtractAll(c) \/ Begin(c, "extracted", "extraction")
      PROVE  RowsTyped' /\ OneRowPerId'
  BY <1>1, <1>5 DEF FetchMany, Begin, UpsertAsset, Lookup, ExtractAll, storeVars
<1>. QED  BY <1>2, <1>3, <1>4, <1>5 DEF Next, Call

LEMMA ReadNext == ReadInv /\ [Next]_vars => ReadInv'
<1> SUFFICES ASSUME ReadInv, [Next]_vars PROVE ReadInv'  OBVIOUS
<1>1. StoreInv /\ StoreInv'  BY StoreNext DEF ReadInv
<1>2. ASSUME NEW c \in Callers, InsertContent(c) PROVE RowsTyped' /\ OneRowPerId'
  <2> DEFINE r == Current(c)
             doc == r.document
             value == OfficialContent(r.report, r.at)
  <2>1. Types /\ Frame(c)  BY <1>1, <1>2, CallFrame DEF StoreInv, IInv, Call
  <2>2. pc[c] = "content" /\ at[c] \in DOMAIN reports[c]
    BY <1>2, <2>1 DEF InsertContent, Types, CallTypes
  <2>3. doc \in Documents /\ r.report \in Fetches /\ r.at \in Times
    BY <2>1, <2>2, CurrentFetch DEF FetchStages, Current
  <2>4. content' = content /\ Insert(c, Row(doc, newAsset[c][doc].id, value))
    BY <1>2 DEF InsertContent, storeVars
  <2>5. value \in Values /\ value.output # Null  BY <2>3, OfficialOutput DEF Values
  <2>. HIDE DEF value, doc
  <2>. QED  BY <2>1, <2>3, <2>4, <2>5, ReadInsert
<1>3. ASSUME NEW c \in Callers, InsertExtraction(c) PROVE RowsTyped' /\ OneRowPerId'
  <2> DEFINE r == Current(c)
             doc == r.document
             value == r.content
  <2>1. Types /\ Frame(c)  BY <1>1, <1>3, CallFrame DEF StoreInv, IInv, Call
  <2>2. /\ pc[c] = "extraction" /\ at[c] \in DOMAIN reports[c] /\ BodyCheck(value)
        /\ content' = content /\ Insert(c, Row(doc, r.id, value))
    BY <1>3 DEF InsertExtraction, storeVars
  <2>3. doc \in Documents /\ value \in Extracts
    BY <2>1, <2>2, CurrentExtract DEF ExtractStages, Current
  <2>4. value \in Values /\ value.output # Null  BY <2>2, <2>3, ExtractOutput DEF Values
  <2>. HIDE DEF value, doc
  <2>. QED  BY <2>1, <2>2, <2>3, <2>4, ReadInsert
<1>. QED  BY <1>1, <1>2, <1>3, ReadOther DEF ReadInv

LEMMA ReadInvariant == Spec => []ReadInv
<1>1. Init => ReadInv
  <2> SUFFICES ASSUME Init PROVE ReadInv  OBVIOUS
  <2>1. Rows = {}  BY DEF Init, Rows
  <2>. QED  BY <2>1, StoreInvInit DEF Init, ReadInv, RowsTyped, OneRowPerId
<1>. QED  BY <1>1, ReadNext, PTL DEF Spec

(* ORDER BY is a total order of the contents, and both queries have the    *)
(* same.                                                                   *)
LEMMA SameOrder ==
  ASSUME ReadInv, NEW x \in content, NEW y \in content
  PROVE  /\ SearchPrefers(x, y) <=> ApiPrefers(x, y)
         /\ ~ApiPrefers(x, x)
         /\ x # y => ApiPrefers(x, y) \/ ApiPrefers(y, x)
         /\ \A z \in content : ApiPrefers(x, y) /\ ApiPrefers(y, z) => ApiPrefers(x, z)
<1>1. \A z \in content : /\ z.official \in BOOLEAN /\ z.rank \in Nat /\ z.at \in Nat
                         /\ z.id \in Nat
  BY DEF ReadInv, RowsTyped, Rows, StoreInv, IInv, Types, TypeOK
<1>2. x # y => x.id # y.id  BY DEF ReadInv, OneRowPerId
<1>3. SearchPrefers(x, y) <=> ApiPrefers(x, y)  BY <1>1 DEF SearchPrefers, ApiPrefers
<1>4. ~ApiPrefers(x, x)  BY <1>1 DEF ApiPrefers
<1>5. x # y => ApiPrefers(x, y) \/ ApiPrefers(y, x)  BY <1>1, <1>2 DEF ApiPrefers
<1>6. ASSUME NEW z \in content, ApiPrefers(x, y), ApiPrefers(y, z) PROVE ApiPrefers(x, z)
  BY <1>1, <1>6 DEF ApiPrefers
<1>. QED  BY <1>3, <1>4, <1>5, <1>6

LEMMA ContentFinite ==
  ASSUME ReadInv
  PROVE  IsFiniteSet(content)
<1> DEFINE f == [x \in content |-> x.id]
<1>1. f \in Injection(content, 1 .. MaxId)
  <2>1. \A x \in content : x.id \in 1 .. MaxId  BY DEF ReadInv, StoreInv, IInv, Types, TypeOK
  <2>2. \A x, y \in content : x.id = y.id => x = y  BY DEF ReadInv, OneRowPerId
  <2>. QED  BY <2>1, <2>2 DEF Injection, IsInjective
<1>2. IsFiniteSet(1 .. MaxId)  BY MaxIdAssumption, FS_Interval
<1>. HIDE DEF f
<1>. QED  BY <1>1, <1>2, FS_Injection

(* What the search index holds of a document is what the API serves, and   *)
(* one row (search_projection's DISTINCT ON, read_model's LIMIT 1),        *)
(* whatever callers and pages do.                                          *)
THEOREM SameContentServed == Spec => []ServedAlike
<1>1. ReadInv => ServedAlike
  <2> SUFFICES ASSUME ReadInv, NEW d \in Documents
               PROVE  /\ SearchContent(d) = ApiContent(d)
                      /\ Cardinality(ApiContent(d)) = IF ContentsOf(d) = {} THEN 0 ELSE 1
    BY DEF ServedAlike
  <2> DEFINE S == ContentsOf(d)
             R == {p \in content \X content : ApiPrefers(p[1], p[2])}
  <2>1. S \subseteq content /\ \A x \in S : d \in present
    BY DEF ContentsOf, ReadInv, StoreInv, IInv, ContentMatchesAsset
  <2>2. \A x, y \in S : SearchPrefers(x, y) <=> ApiPrefers(x, y)  BY <2>1, SameOrder
  <2>3. /\ SearchContent(d) = {x \in S : \A y \in S \ {x} : ApiPrefers(x, y)}
        /\ ApiContent(d) = {x \in S : \A y \in S \ {x} : ApiPrefers(x, y)}
    BY <2>1, <2>2 DEF SearchContent, ApiContent
  <2>4. CASE S = {}
    <3>1. ApiContent(d) = {}  BY <2>3, <2>4
    <3>. QED  BY <2>3, <2>4, <3>1, FS_EmptySet
  <2>5. CASE S # {}
    <3>1. IsFiniteSet(content)  BY ContentFinite
    <3>2. \A x, y \in content : <<x, y>> \in R <=> ApiPrefers(x, y)  OBVIOUS
    <3>3. IsOrder(R, content)
      <4>. HIDE DEF R
      <4>. QED  BY <3>2, SameOrder DEF IsOrder
    <3>4. PICK x \in S : \A y \in S \ {x} : <<x, y>> \in R
      <4>. HIDE DEF R, S
      <4>. QED  BY <2>1, <2>5, <3>1, <3>3, LeastInOrder
    <3>5. ASSUME NEW z \in S, \A y \in S \ {z} : ApiPrefers(z, y) PROVE z = x
      <4>1. ASSUME z # x PROVE FALSE
        <5>1. ApiPrefers(z, x) /\ ApiPrefers(x, z)  BY <2>1, <3>2, <3>4, <3>5, <4>1
        <5>. QED  BY <2>1, <5>1, SameOrder
      <4>. QED  BY <4>1
    <3>6. \A y \in S \ {x} : ApiPrefers(x, y)  BY <2>1, <3>2, <3>4
    <3>7. ApiContent(d) = {x}
      <4>. HIDE DEF S
      <4>. QED  BY <2>3, <3>5, <3>6
    <3>. QED  BY <2>3, <2>5, <3>7, FS_Singleton
  <2>. QED  BY <2>4, <2>5
<1>. QED  BY <1>1, ReadInvariant, PTL
=============================================================================
