------------------------------- MODULE MCDatabase -------------------------------
(* What the database holds, in four machines on one set of tables: start   *)
(* up (SchemaBootstrap), ingest (Ingest), the change feed (ChangeFeed) and *)
(* the assets of documents (DocumentAssets).  They share no state, so that *)
(* a behaviour runs one of them, chosen at its beginning, and the states   *)
(* add up.                                                                 *)
EXTENDS DocumentAssets, ChangeFeed, SchemaBootstrap, Ingest, OfficialSchema

VARIABLE machine

-------------------------------------------------------------------------------
(* Four of the official types, with some of their fields.                  *)
Keep(e, names) == [e EXCEPT !.fields = SelectSeq(@, LAMBDA f : f.name \in names)]

MCEntityTypes ==
  <<Keep(DOCUMENT, {"documentNummer", "titel", "zaak"}),
    Keep(RESERVERING, {"nummer", "zaal"}),
    Keep(TOEZEGGING, {"kamerbriefNakoming"}),
    Keep(ZAAL, {"naam", "sysCode"})>>

MCSqlName ==
  [Document |-> "document", Reservering |-> "reservering", Toezegging |-> "toezegging",
   Zaal |-> "zaal", documentNummer |-> "document_nummer", titel |-> "titel", zaak |-> "zaak",
   nummer |-> "nummer", zaal |-> "zaal", kamerbriefNakoming |-> "kamerbrief_nakoming",
   naam |-> "naam", sysCode |-> "sys_code", contentType |-> "content_type",
   contentLength |-> "content_length"]

(* normalize and upper_camel, of these names.                              *)
MCNormal ==
  [Document |-> "document", document |-> "document", Reservering |-> "reservering",
   reservering |-> "reservering", Toezegging |-> "toezegging", toezegging |-> "toezegging",
   Zaal |-> "zaal", zaal |-> "zaal", zaak |-> "zaak"]
MCUpperCamel == [zaak |-> "Zaak", zaal |-> "Zaal"]

-------------------------------------------------------------------------------
(* Two processes that start twice, on an empty database, a complete one,   *)
(* one without the newest table, one without the indexes of documents, one *)
(* with a column too many and one with a constraint too many.              *)
CONSTANTS sync, reconciler

Full == [tables |-> ToSet(Tables), indexes |-> {<<i, i.columns>> : i \in ToSet(Indexes)}]
Doc == EntityTable(EntityTypes[1])
WithDoc(live) == [Full EXCEPT !.tables = (@ \ {Doc}) \cup {live}]
MCFound ==
  {Nowhere, Full,
   [tables |-> Full.tables \ {DocumentContentTable},
    indexes |-> {x \in Full.indexes : x[1].table # DocumentContentTable.name}],
   [Full EXCEPT !.indexes = {x \in @ : x[1].table # Doc.name}],
   WithDoc([Doc EXCEPT !.columns = @ @@ NullableColumns("text", {"soort"})]),
   WithDoc([Doc EXCEPT !.uniques = {<<"document_nummer">>}])}

-------------------------------------------------------------------------------
(* Answers of the feed.                                                    *)
MCBase == [origin |-> "tk", path |-> "", query |-> <<>>]
MCLower == [Document |-> "document", Reservering |-> "reservering",
            Toezegging |-> "toezegging", Zaal |-> "zaal", ZAAL |-> "zaal"]
MCNumeric == {"1", "2", "3"}
MCNumber == [n \in MCNumeric |-> CASE n = "1" -> 1 [] n = "2" -> 2 [] n = "3" -> 3]

UrlOf(origin, c, tokens) ==
  [origin |-> origin, path |-> SYNCFEED_PATH,
   query |-> <<<<"category", c>>>> \o [i \in DOMAIN tokens |-> <<"skiptoken", tokens[i]>>]]
Url(c, token) == UrlOf("tk", c, <<token>>)

Xml(root, attributes, children) ==
  [root |-> root, attributes |-> attributes, children |-> children]
Live(id) == [id |-> id, verwijderd |-> "false", bijgewerkt |-> "t1"]
Gone(id) == [id |-> id, verwijderd |-> "1", bijgewerkt |-> "t1"]
Sized(id, length) ==
  Live(id) @@ [contentType |-> "application/pdf", contentLength |-> length]
Child(name, nil, ref, text) ==
  [name |-> name, nil |-> nil, ref |-> ref, updated |-> NoValue, text |-> text]
Text(name, text) == Child(name, FALSE, NoValue, text)
Ref(name, id) == Child(name, FALSE, id, "")
Nil(name) == Child(name, TRUE, NoValue, "")

Entry(c, next_, xml) ==
  [id |-> "entry", updated |-> "t1", category |-> c, next |-> next_, content |-> xml,
   enclosure |-> IF c = "Document" THEN "x" ELSE NoValue]
Answered(entries, next_, resume) ==
  [feed |-> TRUE, entries |-> entries, next |-> next_, resume |-> resume]
(* One page of payloads, its cursor at token.                              *)
PageOf(c, token, xmls) ==
  Answered([i \in DOMAIN xmls |-> Entry(c, Url(c, token), xmls[i])], Absent, Absent)
CaughtUpAt(c, token) == Answered(<<>>, Absent, Url(c, token))

MCFeeds ==
  [Document |->
     {PageOf("Document", "1",
        <<Xml("document", Sized("u1", "1"), <<Text("documentNummer", "n1"), Ref("zaak", "z1"),
                                             Nil("titel"), Ref("zaak", "z2")>>)>>),
      PageOf("Document", "2",
        <<Xml("document", Live("u1"), <<Text("titel", ""), Ref("zaak", "z2")>>),
          Xml("document", Live("u2"), <<Text("titel", "n1")>>),
          Xml("document", Gone("u2"), <<Text("unknown", "x")>>)>>),
      PageOf("Document", "3", <<Xml("document", Sized("u2", "big"), <<>>)>>),
      PageOf("Document", "3", <<Xml("document", Live("u1"), <<Nil("zaak")>>)>>)},
   Reservering |->
     {PageOf("Reservering", "1",
        <<Xml("reservering", Live("u1"), <<Nil("nummer"), Ref("zaal", "z1")>>),
          Xml("reservering", Live("u2"), <<Text("nummer", "n1"), Ref("zaal", "z1")>>)>>),
      PageOf("Reservering", "2",
        <<Xml("reservering", Live("u1"), <<Ref("zaal", "z2")>>)>>),
      PageOf("Reservering", "2",
        <<Xml("reservering", Live("u1"), <<Ref("zaal", "z1"), Ref("zaal", "z2")>>)>>)},
   Toezegging |->
     {PageOf("Toezegging", "1",
        <<Xml("toezegging", Live("u1"), <<Text("kamerbriefNakoming", "n1"),
            Nil("kamerbriefNakoming"), Text("kamerbriefNakoming", "")>>)>>),
      PageOf("Toezegging", "2",
        <<Xml("toezegging", Live("u1"), <<Text("kamerbriefNakoming", "n2")>>)>>),
      CaughtUpAt("Toezegging", "x")},
   Zaal |->
     {PageOf("Zaal", "2",
        <<Xml("zaal", Live("z1"), <<Text("naam", "n1"), Text("sysCode", "1")>>),
          Xml("zaal", Sized("z2", "big"), <<Text("naam", "n2")>>),
          Xml("zaal", Live("u1"), <<Nil("sysCode")>>)>>),
      PageOf("Zaal", "3", <<Xml("zaal", Gone("z1"), <<>>)>>),
      PageOf("Zaal", "3", <<Xml("zaal", Live("z1"), <<Text("sysCode", "")>>)>>),
      Answered(<<Entry("ZAAL", UrlOf("elsewhere", "Zaal", <<"3">>),
                       Xml("zaal", Live("z2"), <<>>))>>, Absent, Absent),
      Answered(<<Entry("ZAAL", UrlOf("tk", "Zaal", <<"x", "3">>),
                       Xml("zaal", Live("z2"), <<>>))>>, Absent, Absent),
      Answered(<<>>, Absent, Absent)}]

MCReads ==
  [i32 |-> {"1"}, i64 |-> {"1", "big"}, date |-> {}, datetime |-> {"t1"},
   uuid |-> {"u1", "u2", "z1", "z2"}]
MCRank ==
  [v \in {"", "1", "big", "n1", "n2", "t1", "u1", "u2", "x", "z1", "z2", "true", "false"} |->
     CASE v = "" -> 0 [] v = "n1" -> 1 [] v = "n2" -> 2 [] v = "u1" -> 3 [] v = "u2" -> 4
       [] v = "z1" -> 5 [] v = "z2" -> 6 [] v = "t1" -> 7 [] OTHER -> 8]

-------------------------------------------------------------------------------
(* Three entities, their changes read two at a time.                       *)
MCIds == 1 .. 3

(* Two callers: one with a batch of both documents, one with a single      *)
(* document; pages that write or delete one or both of them.               *)
CONSTANTS c1, c2

MCDocuments == {"d1", "d2"}
MCRequests == [c \in {c1, c2} |-> IF c = c1 THEN {<<"d1", "d2">>} ELSE {<<"d2">>}]
MCBodies == {"padded", "blank", "broken"}
MCReadable == [kind \in Kinds |-> {"padded", "blank"}]
MCTextOf == [b \in MCBodies |-> IF b = "padded" THEN "text" ELSE ""]

Reply(status, type, body, links) ==
  [status |-> status, lengths |-> TRUE, type |-> type, expected |-> TRUE,
   body |-> body, links |-> links]
Busy == Reply("busy", "other", "blank", FALSE)
MCRuns == {<<Busy, Reply("ok", "html", "padded", TRUE)>>,
           <<Reply("ok", "pdf", "broken", FALSE), Busy>>,
           <<Reply("ok", "pdf", "blank", FALSE), Busy>>}
MCAlternativeRuns == {<<Reply("ok", "text", "padded", FALSE), Busy>>}
MCPages == {<<[document |-> "d1", deleted |-> FALSE], [document |-> "d2", deleted |-> FALSE]>>,
            <<[document |-> "d2", deleted |-> FALSE], [document |-> "d1", deleted |-> TRUE]>>}

-------------------------------------------------------------------------------
DatabaseInit ==
  /\ machine \in {"start", "ingest", "changes", "assets"}
  /\ BootInit /\ IngestInit /\ FeedInit /\ Init

DatabaseNext ==
  /\ \/ /\ machine = "start" /\ BootNext
        /\ UNCHANGED <<ingestVars, feedVars, vars>>
     \/ /\ machine = "ingest" /\ IngestNext
        /\ UNCHANGED <<bootVars, feedVars, vars>>
     \/ /\ machine = "changes" /\ FeedNext
        /\ UNCHANGED <<bootVars, ingestVars, vars>>
     \/ /\ machine = "assets" /\ Next
        /\ UNCHANGED <<bootVars, ingestVars, feedVars>>
  /\ UNCHANGED machine

databaseVars == <<machine, bootVars, ingestVars, feedVars, vars>>

DatabaseSpec == DatabaseInit /\ [][DatabaseNext]_databaseVars
=============================================================================
