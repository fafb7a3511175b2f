----------------------------- MODULE DocumentFetch -----------------------------
(***************************************************************************)
(* opentk-sync::document_asset and document_content: what becomes of the   *)
(* answers a server gives for a document's asset.  fetch_one turns them    *)
(* into a report, the extractor turns a fetched report into content.  Both *)
(* are functions; DocumentAssets runs them against the store.              *)
(*                                                                         *)
(* A body is a model value.  As bytes it may be unreadable for a kind; as  *)
(* text it reads TextOf[body] once white space is normalised, "" if no     *)
(* visible text is left.  A hash is the sequence of strings hashed: equal  *)
(* hashes are hashes of equal input.                                       *)
(***************************************************************************)
EXTENDS Naturals, Sequences, FiniteSetsExt

CONSTANTS
  MaxRetries,  \* DocumentAssetFetchConfig::max_retries
  Bodies,      \* the bodies servers answer with
  Readable,    \* Readable[kind]: the bodies that parse as that kind
  TextOf       \* TextOf[body]: its normalised text

Kinds == {"text", "html", "pdf", "docx"}

Answer ==
  [status : {"error", "ok", "gone", "busy", "refused"},
   lengths : BOOLEAN,          \* header, body and expected length agree
   type : Kinds \cup {"other"},
   expected : BOOLEAN,         \* the type is the requested one, if one was
   body : Bodies,
   links : BOOLEAN]            \* the HTML names an official alternative

Attempts == 1 .. MaxRetries + 1

Statuses == {"fetched", "not_found", "unsupported_content_type", "failed"}

OfficialKind(kind) == kind \in {"text", "html"}

(* Status 429 and 5xx ("busy") and transport errors are tried again; the   *)
(* last attempt's answer stands, whatever it is.                           *)
FetchBytes(run) ==
  LET final == {i \in Attempts : run[i].status \notin {"busy", "error"}}
  IN run[Min(final \cup {MaxRetries + 1})]

NoSource == [kind |-> "none", official |-> FALSE, rank |-> 0, body |-> "none"]

Unfetched(status) == [status |-> status, source |-> NoSource]

Fetched(answer, official, rank) ==
  [status |-> "fetched",
   source |-> [kind |-> answer.type, official |-> official, rank |-> rank,
               body |-> answer.body]]

(* fetch_best_official_alternative: the first one discovered is fetched,   *)
(* and its failure is the failure of the whole report.                     *)
FetchAlternative(answer) ==
  IF answer.status = "ok" /\ answer.type # "other"
  THEN Fetched(answer, TRUE, 0)
  ELSE Unfetched("failed")

FetchOne(run, alternative) ==
  LET answer == FetchBytes(run) IN
  IF answer.status = "gone" THEN Unfetched("not_found")
  ELSE IF \/ answer.status \in {"error", "busy", "refused"}
          \/ ~(answer.lengths /\ answer.expected) THEN Unfetched("failed")
  ELSE IF answer.type = "other" THEN Unfetched("unsupported_content_type")
  ELSE IF answer.type = "text" THEN Fetched(answer, TRUE, 0)
  ELSE IF answer.type = "html" /\ answer.links
       THEN FetchAlternative(FetchBytes(alternative))
  ELSE Fetched(answer, OfficialKind(answer.type), 10)

-------------------------------------------------------------------------------
(* A hash of nothing.                                                      *)
Null == <<>>
Hash(strings) == strings
SourceHash(body) == Hash(<<body>>)

(* should_record_content: the official body is content as it is.           *)
RecordsContent(report) ==
  /\ report.status = "fetched"
  /\ report.source.official
  /\ OfficialKind(report.source.kind)

(* insert_content: the body as text or as HTML, decoded lossily.           *)
OfficialContent(report, at) ==
  [source |-> SourceHash(report.source.body), output |-> Hash(<<report.source.body>>),
   official |-> TRUE, rank |-> report.source.rank, status |-> "extracted",
   validation |-> "unverified", body |-> TRUE, error |-> FALSE, at |-> at]

(* extract_raw_content: the strings extracted, text before HTML.           *)
Extracted(kind, body) ==
  LET text == IF TextOf[body] = "" THEN <<>> ELSE <<TextOf[body]>>
  IN IF kind = "html" THEN text \o <<body>> ELSE text

(* Mutant: nothing stands in for the hash of a failed extraction.          *)
StorageOutputHashOfOutput(output, error) == output

(* storage_output_hash: a failure is known by the hash of its message.     *)
StorageOutputHash(output, error) ==
  IF output = Null /\ error # "none" THEN Hash(<<error>>) ELSE output

ExtractionError(source, fixture) ==
  IF source.body \notin Readable[source.kind] THEN "unreadable"
  ELSE IF fixture = "mismatch" THEN "fixture mismatch" ELSE "none"

ExtractionStatus(error, strings) ==
  IF error # "none" THEN "failed" ELSE IF strings = <<>> THEN "empty" ELSE "extracted"

ValidationStatus(error, fixture) ==
  IF error # "none" THEN "invalid"
  ELSE IF fixture = "match" THEN "valid" ELSE "unverified"

(* DocumentContentExtractor::extract with a fixture that is absent,        *)
(* matches or does not match the body, and storage_output_hash.            *)
Extract(source, at, fixture) ==
  LET strings == Extracted(source.kind, source.body)
      error == ExtractionError(source, fixture)
      output == IF error = "unreadable" \/ strings = <<>> THEN Null ELSE Hash(strings)
  IN [source |-> SourceHash(source.body),
      output |-> StorageOutputHash(output, error),
      official |-> source.official, rank |-> source.rank,
      status |-> ExtractionStatus(error, strings),
      validation |-> ValidationStatus(error, fixture),
      body |-> output # Null, error |-> error # "none", at |-> at]

(* CHECK document_content_extracted_body_check.                            *)
BodyCheck(content) ==
  \/ content.status = "failed" /\ content.error
  \/ content.status # "failed" /\ content.body
=============================================================================
