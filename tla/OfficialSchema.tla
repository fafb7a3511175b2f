---------------------------- MODULE OfficialSchema ----------------------------
(***************************************************************************)
(* opentk-core::official_schema: the 35 official entity types as they are  *)
(* generated from the official XSD files, with all their fields.           *)
(***************************************************************************)
EXTENDS Naturals, Sequences

(* All 305 fields have min_occurs 0; max_occurs is 1 or Unbounded.         *)
Field(kind, many, nillable, name, type) ==
  [kind |-> kind, many |-> many, nillable |-> nillable, name |-> name,
   type |-> type, min |-> 0]

OneAttribute(name, type) == Field("attribute", FALSE, FALSE, name, type)
NillableOneAttribute(name, type) == Field("attribute", FALSE, TRUE, name, type)
NillableManyAttribute(name, type) == Field("attribute", TRUE, TRUE, name, type)
OneRelation(name, type) == Field("relation", FALSE, FALSE, name, type)
ManyRelation(name, type) == Field("relation", TRUE, FALSE, name, type)
NillableOneRelation(name, type) == Field("relation", FALSE, TRUE, name, type)
NillableManyRelation(name, type) == Field("relation", TRUE, TRUE, name, type)

BaseAttribute(name, type, required) ==
  [name |-> name, type |-> type, required |-> required]

ENTITEIT_TYPE_ATTRIBUTES ==
  <<BaseAttribute("id", "idType", TRUE),
    BaseAttribute("verwijderd", "xs:boolean", TRUE),
    BaseAttribute("bijgewerkt", "xs:dateTime", TRUE)>>

DOWNLOAD_ENTITEIT_TYPE_ATTRIBUTES ==
  ENTITEIT_TYPE_ATTRIBUTES
  \o <<BaseAttribute("contentType", "xs:string", FALSE),
       BaseAttribute("contentLength", "xs:int", FALSE)>>

(* base is downloadEntiteitType or entiteitType.                           *)
EntityType(category, element, download, fields) ==
  [category |-> category, element |-> element, rustName |-> category,
   download |-> download, fields |-> fields,
   attributes |-> IF download THEN DOWNLOAD_ENTITEIT_TYPE_ATTRIBUTES
                  ELSE ENTITEIT_TYPE_ATTRIBUTES]

ACTIVITEIT_FIELDS ==
  <<OneRelation("voortouwcommissie", "referentieLiteral"),
    ManyRelation("voortgezetVanuit", "referentieLiteral"),
    ManyRelation("vervangenVanuit", "referentieLiteral"),
    NillableOneAttribute("soort", "tokenType"), NillableOneAttribute("nummer", "stringType"),
    NillableOneAttribute("onderwerp", "stringType"),
    NillableOneAttribute("datumSoort", "tokenType"),
    NillableOneAttribute("datum", "xs:dateTime"),
    NillableOneAttribute("aanvangstijd", "xs:dateTime"),
    NillableOneAttribute("eindtijd", "xs:dateTime"),
    NillableOneAttribute("locatie", "stringType"), OneAttribute("besloten", "booleanType"),
    OneAttribute("status", "stringType"),
    NillableOneAttribute("vergaderjaar", "vergaderjaarType"),
    OneAttribute("kamer", "stringType"), NillableOneAttribute("noot", "stringType"),
    NillableOneAttribute("vrsNummer", ""), NillableOneAttribute("sidVoortouw", "tokenType"),
    NillableOneAttribute("voortouwnaam", "tokenType"),
    NillableOneAttribute("voortouwafkorting", "tokenType"),
    NillableOneAttribute("voortouwkortenaam", "tokenType"),
    NillableOneAttribute("aanvraagdatum", "xs:dateTime"),
    NillableOneAttribute("datumVerzoekEersteVerlenging", "xs:dateTime"),
    NillableOneAttribute("datumMededelingEersteVerlenging", "xs:dateTime"),
    NillableOneAttribute("datumVerzoekTweedeVerlenging", "xs:dateTime"),
    NillableOneAttribute("datumMededelingTweedeVerlenging", "xs:dateTime"),
    NillableOneAttribute("vervaldatum", "xs:dateTime")>>

ACTIVITEIT == EntityType("Activiteit", "activiteit", FALSE, ACTIVITEIT_FIELDS)

ACTIVITEITACTOR_FIELDS ==
  <<OneRelation("activiteit", "referentieLiteral"), OneRelation("persoon", "referentieLiteral"),
    OneRelation("fractie", "referentieLiteral"), OneRelation("commissie", "referentieLiteral"),
    NillableOneAttribute("actorNaam", "tokenType"),
    NillableOneAttribute("actorFractie", "tokenType"),
    NillableOneAttribute("relatie", "tokenType"),
    NillableOneAttribute("volgorde", "xs:unsignedInt"),
    NillableOneAttribute("functie", "tokenType"),
    NillableOneAttribute("spreektijd", "tokenType"),
    NillableOneAttribute("sidActor", "tokenType")>>

ACTIVITEITACTOR == EntityType("ActiviteitActor", "activiteitActor", FALSE, ACTIVITEITACTOR_FIELDS)

AGENDAPUNT_FIELDS ==
  <<OneRelation("activiteit", "referentieLiteral"), NillableOneAttribute("nummer", "tokenType"),
    NillableOneAttribute("onderwerp", "stringType"),
    NillableOneAttribute("aanvangstijd", "dateTimeType"),
    NillableOneAttribute("eindtijd", "dateTimeType"),
    NillableOneAttribute("volgorde", "unsignedIntType"),
    NillableOneAttribute("rubriek", "stringType"), NillableOneAttribute("noot", "stringType"),
    NillableOneAttribute("status", "tokenType")>>

AGENDAPUNT == EntityType("Agendapunt", "agendapunt", FALSE, AGENDAPUNT_FIELDS)

BESLUIT_FIELDS ==
  <<OneRelation("agendapunt", "referentieLiteral"), ManyRelation("zaak", "referentieLiteral"),
    NillableOneAttribute("stemmingsSoort", "tokenType"),
    NillableOneAttribute("besluitSoort", "tokenType"),
    NillableOneAttribute("besluitTekst", "stringType"),
    NillableOneAttribute("opmerking", "stringType"), NillableOneAttribute("status", "tokenType"),
    NillableOneAttribute("agendapuntZaakBesluitVolgorde", "intType")>>

BESLUIT == EntityType("Besluit", "besluit", FALSE, BESLUIT_FIELDS)

COMMISSIE_FIELDS ==
  <<OneAttribute("nummer", "tokenType"), NillableOneAttribute("soort", "tokenType"),
    NillableOneAttribute("afkorting", "tokenType"), NillableOneAttribute("naamNl", "tokenType"),
    NillableOneAttribute("naamEn", "tokenType"), NillableOneAttribute("naamWebNl", "tokenType"),
    NillableOneAttribute("naamWebEn", "tokenType"),
    NillableOneAttribute("inhoudsopgave", "tokenType"),
    NillableOneAttribute("datumActief", "dateType"),
    NillableOneAttribute("datumInactief", "dateType")>>

COMMISSIE == EntityType("Commissie", "commissie", FALSE, COMMISSIE_FIELDS)

COMMISSIECONTACTINFORMATIE_FIELDS ==
  <<OneRelation("commissie", "referentieLiteral"), NillableOneAttribute("soort", "tokenType"),
    NillableOneAttribute("waarde", "tokenType"), NillableOneAttribute("gewicht", "intType")>>

COMMISSIECONTACTINFORMATIE == EntityType("CommissieContactinformatie", "commissieContactinformatie", FALSE, COMMISSIECONTACTINFORMATIE_FIELDS)

COMMISSIEZETEL_FIELDS ==
  <<OneRelation("commissie", "referentieLiteral"), NillableOneAttribute("gewicht", "intType")>>

COMMISSIEZETEL == EntityType("CommissieZetel", "commissieZetel", FALSE, COMMISSIEZETEL_FIELDS)

COMMISSIEZETELVASTPERSOON_FIELDS ==
  <<OneRelation("commissieZetel", "referentieLiteral"),
    NillableOneRelation("persoon", "referentieLiteral"),
    NillableOneAttribute("functie", "tokenType"), NillableOneAttribute("van", "dateType"),
    NillableOneAttribute("totEnMet", "dateType")>>

COMMISSIEZETELVASTPERSOON == EntityType("CommissieZetelVastPersoon", "commissieZetelVastPersoon", FALSE, COMMISSIEZETELVASTPERSOON_FIELDS)

COMMISSIEZETELVASTVACATURE_FIELDS ==
  <<OneRelation("commissieZetel", "referentieLiteral"),
    NillableOneRelation("fractie", "referentieLiteral"),
    NillableOneAttribute("functie", "tokenType"), NillableOneAttribute("van", "dateType"),
    NillableOneAttribute("totEnMet", "dateType")>>

COMMISSIEZETELVASTVACATURE == EntityType("CommissieZetelVastVacature", "commissieZetelVastVacature", FALSE, COMMISSIEZETELVASTVACATURE_FIELDS)

COMMISSIEZETELVERVANGERPERSOON_FIELDS ==
  <<OneRelation("commissieZetel", "referentieLiteral"),
    NillableOneRelation("persoon", "referentieLiteral"),
    NillableOneAttribute("functie", "tokenType"), NillableOneAttribute("van", "dateType"),
    NillableOneAttribute("totEnMet", "dateType")>>

COMMISSIEZETELVERVANGERPERSOON == EntityType("CommissieZetelVervangerPersoon", "commissieZetelVervangerPersoon", FALSE, COMMISSIEZETELVERVANGERPERSOON_FIELDS)

COMMISSIEZETELVERVANGERVACATURE_FIELDS ==
  <<OneRelation("commissieZetel", "referentieLiteral"),
    NillableOneRelation("fractie", "referentieLiteral"),
    NillableOneAttribute("functie", "tokenType"), NillableOneAttribute("van", "dateType"),
    NillableOneAttribute("totEnMet", "dateType")>>

COMMISSIEZETELVERVANGERVACATURE == EntityType("CommissieZetelVervangerVacature", "commissieZetelVervangerVacature", FALSE, COMMISSIEZETELVERVANGERVACATURE_FIELDS)

DOCUMENT_FIELDS ==
  <<NillableOneRelation("huidigeDocumentVersie", "referentieLiteral"),
    ManyRelation("bronDocument", "referentieLiteral"),
    ManyRelation("activiteit", "referentieLiteral"),
    ManyRelation("agendapunt", "referentieLiteral"), ManyRelation("zaak", "referentieLiteral"),
    OneRelation("kamerstukdossier", "referentieLiteral"),
    NillableOneAttribute("soort", "tokenType"), OneAttribute("documentNummer", "tokenType"),
    NillableOneAttribute("titel", "tokenType"), OneAttribute("onderwerp", "tokenType"),
    OneAttribute("datum", "xs:dateTime"), OneAttribute("volgnummer", "intType"),
    OneAttribute("vergaderjaar", "vergaderjaarType"), OneAttribute("kamer", "intType"),
    NillableOneAttribute("citeertitel", "tokenType"), NillableOneAttribute("alias", "tokenType"),
    NillableOneAttribute("datumRegistratie", "xs:dateTime"),
    NillableOneAttribute("datumOntvangst", "xs:dateTime"),
    NillableOneAttribute("aanhangselnummer", "tokenType"),
    NillableOneAttribute("kenmerkAfzender", "tokenType"),
    OneAttribute("organisatie", "tokenType")>>

DOCUMENT == EntityType("Document", "document", TRUE, DOCUMENT_FIELDS)

DOCUMENTACTOR_FIELDS ==
  <<OneRelation("document", "referentieLiteral"), OneRelation("persoon", "referentieLiteral"),
    OneRelation("fractie", "referentieLiteral"), OneRelation("commissie", "referentieLiteral"),
    NillableOneAttribute("actorNaam", "tokenType"),
    NillableOneAttribute("actorFractie", "tokenType"),
    NillableOneAttribute("functie", "tokenType"), NillableOneAttribute("relatie", "tokenType"),
    NillableOneAttribute("sidActor", "tokenType")>>

DOCUMENTACTOR == EntityType("DocumentActor", "documentActor", FALSE, DOCUMENTACTOR_FIELDS)

DOCUMENTVERSIE_FIELDS ==
  <<OneRelation("document", "referentieLiteral"), NillableOneAttribute("status", "tokenType"),
    NillableOneAttribute("versienummer", "unsignedIntType"),
    NillableOneAttribute("bestandsgrootte", "unsignedIntType"),
    NillableOneAttribute("extensie", "tokenType"), NillableOneAttribute("datum", "dateTimeType"),
    NillableOneAttribute("externeidentifier", "tokenType")>>

DOCUMENTVERSIE == EntityType("DocumentVersie", "documentVersie", FALSE, DOCUMENTVERSIE_FIELDS)

FRACTIE_FIELDS ==
  <<OneAttribute("nummer", "tokenType"), NillableOneAttribute("afkorting", "tokenType"),
    NillableOneAttribute("naamNl", "tokenType"), NillableOneAttribute("naamEn", "tokenType"),
    NillableOneAttribute("aantalZetels", "unsignedIntType"),
    NillableOneAttribute("aantalStemmen", "unsignedIntType"),
    NillableOneAttribute("datumActief", "dateType"),
    NillableOneAttribute("datumInactief", "dateType")>>

FRACTIE == EntityType("Fractie", "fractie", TRUE, FRACTIE_FIELDS)

FRACTIEZETEL_FIELDS ==
  <<OneRelation("fractie", "referentieLiteral"), NillableOneAttribute("gewicht", "intType")>>

FRACTIEZETEL == EntityType("FractieZetel", "fractieZetel", FALSE, FRACTIEZETEL_FIELDS)

FRACTIEZETELPERSOON_FIELDS ==
  <<OneRelation("fractieZetel", "referentieLiteral"),
    OneRelation("persoon", "referentieLiteral"), NillableOneAttribute("functie", "tokenType"),
    NillableOneAttribute("van", "dateType"), NillableOneAttribute("totEnMet", "dateType")>>

FRACTIEZETELPERSOON == EntityType("FractieZetelPersoon", "fractieZetelPersoon", FALSE, FRACTIEZETELPERSOON_FIELDS)

FRACTIEZETELVACATURE_FIELDS ==
  <<OneRelation("fractieZetel", "referentieLiteral"),
    NillableOneAttribute("functie", "tokenType"), NillableOneAttribute("van", "dateType"),
    NillableOneAttribute("totEnMet", "dateType")>>

FRACTIEZETELVACATURE == EntityType("FractieZetelVacature", "fractieZetelVacature", FALSE, FRACTIEZETELVACATURE_FIELDS)

KAMERSTUKDOSSIER_FIELDS ==
  <<NillableOneAttribute("titel", "stringType"),
    NillableOneAttribute("citeertitel", "stringType"),
    NillableOneAttribute("alias", "stringType"), OneAttribute("nummer", "xs:unsignedInt"),
    NillableOneAttribute("toevoeging", "xs:string"), OneAttribute("hoogsteVolgnummer", "xs:int"),
    NillableOneAttribute("afgesloten", "booleanType"),
    NillableOneAttribute("kamer", "stringType")>>

KAMERSTUKDOSSIER == EntityType("Kamerstukdossier", "kamerstukdossier", FALSE, KAMERSTUKDOSSIER_FIELDS)

PERSOON_FIELDS ==
  <<OneAttribute("nummer", "tokenType"), NillableOneAttribute("titels", "tokenType"),
    NillableOneAttribute("initialen", "tokenType"),
    NillableOneAttribute("tussenvoegsel", "tokenType"),
    NillableOneAttribute("achternaam", "tokenType"),
    NillableOneAttribute("voornamen", "tokenType"),
    NillableOneAttribute("roepnaam", "tokenType"), NillableOneAttribute("geslacht", ""),
    NillableOneAttribute("functie", "tokenType"),
    NillableOneAttribute("geboortedatum", "dateType"),
    NillableOneAttribute("geboorteplaats", "tokenType"),
    NillableOneAttribute("geboorteland", "tokenType"),
    NillableOneAttribute("overlijdensdatum", "dateType"),
    NillableOneAttribute("overlijdensplaats", "tokenType"),
    NillableOneAttribute("woonplaats", "tokenType"), NillableOneAttribute("land", "tokenType"),
    NillableOneAttribute("fractielabel", "tokenType")>>

PERSOON == EntityType("Persoon", "persoon", TRUE, PERSOON_FIELDS)

PERSOONCONTACTINFORMATIE_FIELDS ==
  <<OneRelation("persoon", "referentieLiteral"), NillableOneAttribute("soort", "tokenType"),
    NillableOneAttribute("waarde", "tokenType"), NillableOneAttribute("gewicht", "intType")>>

PERSOONCONTACTINFORMATIE == EntityType("PersoonContactinformatie", "persoonContactinformatie", FALSE, PERSOONCONTACTINFORMATIE_FIELDS)

PERSOONGESCHENK_FIELDS ==
  <<OneRelation("persoon", "referentieLiteral"),
    NillableOneAttribute("omschrijving", "tokenType"), NillableOneAttribute("datum", "dateType"),
    NillableOneAttribute("gewicht", "intType")>>

PERSOONGESCHENK == EntityType("PersoonGeschenk", "persoonGeschenk", FALSE, PERSOONGESCHENK_FIELDS)

PERSOONLOOPBAAN_FIELDS ==
  <<OneRelation("persoon", "referentieLiteral"), NillableOneAttribute("functie", "tokenType"),
    NillableOneAttribute("werkgever", "tokenType"),
    NillableOneAttribute("omschrijvingNl", "tokenType"),
    NillableOneAttribute("omschrijvingEn", "tokenType"),
    NillableOneAttribute("plaats", "tokenType"), NillableOneAttribute("van", "datumType"),
    NillableOneAttribute("totEnMet", "datumType"), NillableOneAttribute("gewicht", "intType")>>

PERSOONLOOPBAAN == EntityType("PersoonLoopbaan", "persoonLoopbaan", FALSE, PERSOONLOOPBAAN_FIELDS)

PERSOONNEVENFUNCTIE_FIELDS ==
  <<OneRelation("persoon", "referentieLiteral"),
    NillableOneAttribute("omschrijving", "tokenType"),
    NillableOneAttribute("isActief", "booleanType"), NillableOneAttribute("periode", ""),
    NillableOneAttribute("vergoeding", ""), NillableOneAttribute("gewicht", "intType")>>

PERSOONNEVENFUNCTIE == EntityType("PersoonNevenfunctie", "persoonNevenfunctie", FALSE, PERSOONNEVENFUNCTIE_FIELDS)

PERSOONNEVENFUNCTIEINKOMSTEN_FIELDS ==
  <<OneRelation("persoonNevenfunctie", "referentieLiteral"),
    NillableOneAttribute("jaar", "tokenType"), NillableOneAttribute("bedragSoort", "tokenType"),
    NillableOneAttribute("bedragVoorvoegsel", "tokenType"),
    NillableOneAttribute("bedragValuta", "tokenType"),
    NillableOneAttribute("bedrag", "xs:decimal"),
    NillableOneAttribute("bedragAchtervoegsel", "tokenType"),
    NillableOneAttribute("frequentie", "tokenType"),
    NillableOneAttribute("frequentieBeschrijving", "tokenType"),
    NillableOneAttribute("opmerking", "tokenType")>>

PERSOONNEVENFUNCTIEINKOMSTEN == EntityType("PersoonNevenfunctieInkomsten", "persoonNevenfunctieInkomsten", FALSE, PERSOONNEVENFUNCTIEINKOMSTEN_FIELDS)

PERSOONONDERWIJS_FIELDS ==
  <<OneRelation("persoon", "referentieLiteral"),
    NillableOneAttribute("opleidingNl", "tokenType"),
    NillableOneAttribute("opleidingEn", "tokenType"),
    NillableOneAttribute("instelling", "tokenType"), NillableOneAttribute("plaats", "tokenType"),
    NillableOneAttribute("van", "datumType"), NillableOneAttribute("totEnMet", "datumType"),
    NillableOneAttribute("gewicht", "intType")>>

PERSOONONDERWIJS == EntityType("PersoonOnderwijs", "persoonOnderwijs", FALSE, PERSOONONDERWIJS_FIELDS)

PERSOONREIS_FIELDS ==
  <<OneRelation("persoon", "referentieLiteral"), NillableOneAttribute("doel", "tokenType"),
    NillableOneAttribute("bestemming", "tokenType"), NillableOneAttribute("van", "datumType"),
    NillableOneAttribute("totEnMet", "datumType"),
    NillableOneAttribute("betaaldDoor", "tokenType"), NillableOneAttribute("gewicht", "intType")>>

PERSOONREIS == EntityType("PersoonReis", "persoonReis", FALSE, PERSOONREIS_FIELDS)

RESERVERING_FIELDS ==
  <<ManyRelation("activiteit", "referentieLiteral"), OneRelation("zaal", "referentieLiteral"),
    NillableOneAttribute("nummer", "tokenType"), NillableOneAttribute("statusCode", "tokenType"),
    NillableOneAttribute("statusNaam", "tokenType"),
    NillableOneAttribute("activiteitNummer", "tokenType")>>

RESERVERING == EntityType("Reservering", "reservering", FALSE, RESERVERING_FIELDS)

STEMMING_FIELDS ==
  <<OneRelation("besluit", "referentieLiteral"), OneRelation("persoon", "referentieType"),
    OneRelation("fractie", "referentieType"), NillableOneAttribute("soort", "tokenType"),
    NillableOneAttribute("fractieGrootte", "unsignedIntType"),
    NillableOneAttribute("actorNaam", "tokenType"),
    NillableOneAttribute("actorFractie", "tokenType"),
    NillableOneAttribute("vergissing", "booleanType"),
    NillableOneAttribute("sidActorLid", "tokenType"),
    NillableOneAttribute("sidActorFractie", "tokenType")>>

STEMMING == EntityType("Stemming", "stemming", FALSE, STEMMING_FIELDS)

TOEZEGGING_FIELDS ==
  <<NillableOneRelation("toegezegdAanFractie", "referentieLiteral"),
    NillableOneRelation("toegezegdAanPersoon", "referentieLiteral"),
    ManyRelation("isHerhalingVan", "referentieBijgewerktLiteral"),
    ManyRelation("isAanvullingOp", "referentieBijgewerktLiteral"),
    ManyRelation("isWijzigingVan", "referentieBijgewerktLiteral"),
    NillableOneAttribute("aanmaakdatum", "dateTimeType"),
    NillableOneAttribute("nummer", "tokenType"), OneRelation("activiteit", "referentieLiteral"),
    NillableOneAttribute("activiteitNummer", "stringType"),
    NillableOneAttribute("naam", "stringType"), NillableOneAttribute("achternaam", "stringType"),
    NillableOneAttribute("initialen", "stringType"),
    NillableOneAttribute("tussenvoegsel", "stringType"),
    NillableOneAttribute("voornaam", "stringType"),
    NillableOneAttribute("achtervoegsel", "stringType"),
    NillableOneAttribute("titulatuur", "stringType"),
    NillableOneAttribute("functie", "stringType"),
    NillableOneAttribute("status", "toezeggingstatus"),
    NillableOneAttribute("datumNakoming", "dateTimeType"),
    NillableManyAttribute("kamerbriefNakoming", "stringType"),
    NillableOneAttribute("ministerie", "stringType"),
    NillableOneAttribute("tekst", "stringType"),
    NillableManyRelation("toegezegdAan", "referentieLiteral")>>

TOEZEGGING == EntityType("Toezegging", "toezegging", FALSE, TOEZEGGING_FIELDS)

VERGADERING_FIELDS ==
  <<NillableOneAttribute("soort", "tokenType"), NillableOneAttribute("titel", "tokenType"),
    NillableOneAttribute("zaal", "tokenType"),
    NillableOneAttribute("vergaderjaar", "vergaderjaar"),
    NillableOneAttribute("vergaderingNummer", "xs:unsignedInt"),
    NillableOneAttribute("datum", "xs:dateTime"),
    NillableOneAttribute("aanvangstijd", "xs:dateTime"),
    NillableOneAttribute("sluiting", "xs:dateTime"), NillableOneAttribute("kamer", "tokenType")>>

VERGADERING == EntityType("Vergadering", "vergadering", FALSE, VERGADERING_FIELDS)

VERSLAG_FIELDS ==
  <<OneRelation("vergadering", "referentieLiteral"), NillableOneAttribute("soort", "tokenType"),
    NillableOneAttribute("status", "tokenType")>>

VERSLAG == EntityType("Verslag", "verslag", TRUE, VERSLAG_FIELDS)

ZAAK_FIELDS ==
  <<OneRelation("kamerstukdossier", "referentieLiteral"),
    ManyRelation("activiteit", "referentieLiteral"),
    ManyRelation("agendapunt", "referentieLiteral"),
    ManyRelation("gerelateerdVanuit", "referentieLiteral"),
    ManyRelation("vervangenVanuit", "referentieLiteral"), OneAttribute("nummer", "tokenType"),
    NillableOneAttribute("soort", "tokenType"), OneAttribute("onderwerp", "stringType"),
    OneAttribute("gestartOp", "dateTimeType"), NillableOneAttribute("organisatie", "stringType"),
    NillableOneAttribute("titel", "stringType"),
    NillableOneAttribute("citeertitel", "stringType"),
    NillableOneAttribute("alias", "stringType"),
    NillableOneAttribute("grondslagvoorhang", "stringType"),
    NillableOneAttribute("termijn", "dateTimeType"),
    OneAttribute("vergaderjaar", "vergaderjaarType"),
    NillableOneAttribute("volgnummer", "intType"), NillableOneAttribute("status", "stringType"),
    NillableOneAttribute("huidigeBehandelstatus", "stringType"),
    NillableOneAttribute("afgedaan", "booleanType"),
    NillableOneAttribute("grootProject", "booleanType"),
    NillableOneAttribute("kabinetsappreciatie", "stringType")>>

ZAAK == EntityType("Zaak", "zaak", FALSE, ZAAK_FIELDS)

ZAAKACTOR_FIELDS ==
  <<OneRelation("zaak", "referentieLiteral"), OneRelation("persoon", "referentieLiteral"),
    OneRelation("fractie", "referentieLiteral"), OneRelation("commissie", "referentieLiteral"),
    NillableOneAttribute("actorNaam", "tokenType"),
    NillableOneAttribute("actorFractie", "tokenType"),
    NillableOneAttribute("actorAfkorting", "tokenType"),
    NillableOneAttribute("functie", "tokenType"), NillableOneAttribute("relatie", "tokenType"),
    NillableOneAttribute("sidActor", "tokenType")>>

ZAAKACTOR == EntityType("ZaakActor", "zaakActor", FALSE, ZAAKACTOR_FIELDS)

ZAAL_FIELDS ==
  <<OneAttribute("naam", "tokenType"), NillableOneAttribute("sysCode", "intType")>>

ZAAL == EntityType("Zaal", "zaal", FALSE, ZAAL_FIELDS)

ENTITY_TYPES ==
  <<ACTIVITEIT, ACTIVITEITACTOR, AGENDAPUNT, BESLUIT, COMMISSIE, COMMISSIECONTACTINFORMATIE,
    COMMISSIEZETEL, COMMISSIEZETELVASTPERSOON, COMMISSIEZETELVASTVACATURE,
    COMMISSIEZETELVERVANGERPERSOON, COMMISSIEZETELVERVANGERVACATURE, DOCUMENT, DOCUMENTACTOR,
    DOCUMENTVERSIE, FRACTIE, FRACTIEZETEL, FRACTIEZETELPERSOON, FRACTIEZETELVACATURE,
    KAMERSTUKDOSSIER, PERSOON, PERSOONCONTACTINFORMATIE, PERSOONGESCHENK, PERSOONLOOPBAAN,
    PERSOONNEVENFUNCTIE, PERSOONNEVENFUNCTIEINKOMSTEN, PERSOONONDERWIJS, PERSOONREIS,
    RESERVERING, STEMMING, TOEZEGGING, VERGADERING, VERSLAG, ZAAK, ZAAKACTOR, ZAAL>>
=============================================================================
