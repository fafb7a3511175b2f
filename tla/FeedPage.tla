-------------------------------- MODULE FeedPage --------------------------------
(***************************************************************************)
(* opentk-sync::syncfeed, what is done with the body of an answer, and     *)
(* opentk-sync::runner, the cursor: a page is parsed whole or rejected,    *)
(* and every link the runner may follow, now or after a restart, is        *)
(* checked to stay in the feed and the category it came from.              *)
(*                                                                         *)
(* A URL is a record of its origin, its path and its query, a sequence of  *)
(* key-value pairs; a link is resolved against the request's URL already.  *)
(* A document is what its XML says: an element that is not there is        *)
(* Absent, and of several of one name the first counts.                    *)
(***************************************************************************)
EXTENDS Integers, Sequences, SequencesExt

CONSTANTS
  Base,        \* the configured base_url: [origin, path, query]
  ContentMode, \* its content mode
  Lower,       \* Lower[c]: c in ASCII lower case
  Numeric,     \* the skiptokens that parse as i64
  Number,      \* Number[t]: the number such a skiptoken is
  Absent       \* None

ASSUME NumberAssumption == \A t \in Numeric : Number[t] \in Int

SYNCFEED_PATH == "syncfeed"

CategoriesMatch(actual, expected) == Lower[actual] = Lower[expected]

(* query_pairs().find gives the first pair of a key, collecting the last.  *)
Pairs(url, key) == SelectSeq(url.query, LAMBDA p : p[1] = key)
FirstValue(url, key) == IF Pairs(url, key) = <<>> THEN Absent ELSE Pairs(url, key)[1][2]
LastValue(url, key) ==
  IF Pairs(url, key) = <<>> THEN Absent ELSE Last(Pairs(url, key))[2]

(* validate_cursor_url, a skiptoken being required.                        *)
ValidCursorUrl(category, url) ==
  /\ url.origin = Base.origin
  /\ url.path = SYNCFEED_PATH
  /\ LastValue(url, "category") # Absent
  /\ CategoriesMatch(LastValue(url, "category"), category)
  /\ LastValue(url, "skiptoken") # Absent
  /\ LastValue(url, "content") \in {Absent, ContentMode}

FirstPage(category) ==
  [Base EXCEPT !.path = SYNCFEED_PATH,
               !.query = <<<<"category", category>>, <<"content", ContentMode>>>>]

(* start_cursor: the stored URL is checked like a link.                    *)
StartCursor(category, stored) ==
  IF stored = Absent THEN FirstPage(category)
  ELSE IF ValidCursorUrl(category, stored) THEN stored ELSE Absent

(* skiptoken_from_url                                                      *)
SkiptokenFromUrl(url) ==
  IF FirstValue(url, "skiptoken") \in Numeric
  THEN Number[FirstValue(url, "skiptoken")] ELSE Absent

-------------------------------------------------------------------------------
(* parse_entry: id, category, updated and next have to be there.           *)

(* Mutant: where an entry goes on is followed unchecked.                   *)
ParsesEntryUnchecked(category, entry) ==
  /\ entry.id # Absent /\ entry.updated # Absent
  /\ entry.category # Absent /\ CategoriesMatch(entry.category, category)
  /\ entry.next # Absent

ParsesEntry(category, entry) ==
  /\ entry.id # Absent /\ entry.updated # Absent
  /\ entry.category # Absent /\ CategoriesMatch(entry.category, category)
  /\ entry.next # Absent /\ ValidCursorUrl(category, entry.next)

(* parse_link_cursor for the links of the feed itself.                     *)
ParsesLink(category, link) == link # Absent => ValidCursorUrl(category, link)

(* parse_page rejects the page for one entry or link it cannot accept.     *)
ParsesPage(category, document) ==
  /\ document.feed
  /\ \A i \in DOMAIN document.entries : ParsesEntry(category, document.entries[i])
  /\ ParsesLink(category, document.next)
  /\ ParsesLink(category, document.resume)

(* The last entry's next comes before the feed's.                          *)
NextRequest(document) ==
  IF document.entries # <<>> THEN Last(document.entries).next ELSE document.next

(* next_cursor, latest_skiptoken: the URL has to have a numeric token.     *)
NextCursor(document) ==
  LET next == NextRequest(document) IN
  IF next = Absent THEN Absent
  ELSE IF SkiptokenFromUrl(next) = Absent THEN Absent ELSE next
=============================================================================
