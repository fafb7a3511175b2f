----------------------------- MODULE DocumentStore -----------------------------
(***************************************************************************)
(* What storing the assets and the content of documents promises: a batch  *)
(* of reports is recorded whole or not at all, as if nothing else were     *)
(* being written, for documents that are there; a page that writes a       *)
(* document takes the assets and contents of its old version with it.      *)
(***************************************************************************)
EXTENDS Naturals, Sequences

CONSTANTS
  Documents,   \* source_ids of category Document
  Callers,     \* the calls of record_document_asset_fetches and
               \* record_document_content_extractions under way
  NoAsset      \* no document_asset row

VARIABLES
  docs,        \* docs[d]: is there a row, its asset, its contents
  batch        \* batch[c]: the reports c was called with, <<>>: none

vars == <<docs, batch>>

Missing == [present |-> FALSE, asset |-> NoAsset, contents |-> {}]
Fresh == [present |-> TRUE, asset |-> NoAsset, contents |-> {}]

(* UNIQUE (document_asset_id, source_hash, output_hash)                    *)
Conflicting(x, y) == x.source = y.source /\ x.output = y.output

(* What a report makes of its document: an asset with the content found    *)
(* with it, or the content extracted from an asset that is there.          *)
Updated(doc, r) ==
  [present |-> doc.present,
   asset |-> IF r.asset = NoAsset THEN doc.asset ELSE r.asset,
   contents |-> {x \in doc.contents : \A y \in r.contents : ~Conflicting(x, y)} \cup r.contents]

Recordable(ds, r) ==
  /\ ds[r.document].present
  /\ r.asset = NoAsset => ds[r.document].asset # NoAsset

Recorded(ds, r) ==
  [d \in Documents |-> IF d = r.document THEN Updated(ds[d], r) ELSE ds[d]]

(* The documents after each of the reports.                                *)
After(ds, reports) ==
  LET after[n \in 0 .. Len(reports)] ==
        IF n = 0 THEN ds ELSE Recorded(after[n - 1], reports[n])
  IN after

Init ==
  /\ docs = [d \in Documents |-> Missing]
  /\ batch = [c \in Callers |-> <<>>]

WritePage ==
  /\ \A d \in Documents : docs'[d] \in {docs[d], Missing, Fresh}
  /\ UNCHANGED batch

Submit(c) ==
  /\ batch[c] = <<>>
  /\ \A other \in Callers \ {c} : batch'[other] = batch[other]
  /\ DOMAIN batch' = Callers
  /\ UNCHANGED docs

Record(c) ==
  /\ batch[c] # <<>>
  /\ \A i \in DOMAIN batch[c] : Recordable(docs, batch[c][i])
  /\ docs' = After(docs, batch[c])[Len(batch[c])]
  /\ batch' = [batch EXCEPT ![c] = <<>>]

Refuse(c) ==
  /\ batch[c] # <<>>
  /\ batch' = [batch EXCEPT ![c] = <<>>]
  /\ UNCHANGED docs

Next == WritePage \/ \E c \in Callers : Submit(c) \/ Record(c) \/ Refuse(c)

Spec == Init /\ [][Next]_vars
=============================================================================
