------------------------------ MODULE EntityPayload ------------------------------
(***************************************************************************)
(* opentk-sync::payload: which XML payloads are accepted for a category,   *)
(* and the entity parsed from one.  A payload is a record of its root's    *)
(* name, the root's attributes and the sequence of its child elements;     *)
(* values are the members of a small set, told apart by what they parse    *)
(* as.                                                                     *)
(***************************************************************************)
EXTENDS EntitySchema, FiniteSets

CONSTANTS
  Reads,       \* Reads[d]: the values that parse as d
  Normal,      \* Normal[n]: normalize(n)
  UpperCamel,  \* UpperCamel[n]: n with its first letter in upper case
  NoValue      \* an attribute that is not there; NULL

(* A category, an XML element and a Rust name is of one entity type.       *)
ASSUME EntitiesAssumption ==
  \A d, e \in ToSet(EntityTypes) :
    {d.category, d.element, d.rustName} \cap {e.category, e.element, e.rustName} # {} => d = e

ASSUME NoValueAssumption ==
  NoValue \notin {"true", "false"} \cup Reads["datetime"] \cup Reads["uuid"]

Datatypes == {"i32", "i64", "date", "datetime", "uuid"}
TrueValues == {"true", "True", "1"}
FalseValues == {"false", "False", "0"}

(* entity_named: by category, XML element or Rust name.                    *)
EntitiesNamed(name) ==
  {e \in ToSet(EntityTypes) : name \in {e.category, e.element, e.rustName}}

FieldsNamed(e, name) == {f \in ToSet(e.fields) : f.name = name}
FieldNamed(e, name) == CHOOSE f \in FieldsNamed(e, name) : TRUE

Datatype(xsdType) ==
  CASE xsdType \in {"xs:boolean", "booleanType"} -> "bool"
    [] xsdType \in {"xs:int", "xs:unsignedInt", "intType"} -> "i32"
    [] xsdType = "xs:long" -> "i64"
    [] xsdType = "xs:date" -> "date"
    [] xsdType = "xs:dateTime" -> "datetime"
    [] OTHER -> "text"

(* parse_value, parse_bool; any text is text, the empty one too.           *)
ParsesAs(datatype, value) ==
  CASE datatype = "text" -> TRUE
    [] datatype = "bool" -> value \in TrueValues \cup FalseValues
    [] OTHER -> value \in Reads[datatype]

(* A boolean has six spellings and one value.                              *)
ParsedValue(datatype, value) ==
  [as |-> datatype,
   of |-> IF datatype # "bool" THEN value
          ELSE IF value \in TrueValues THEN "true" ELSE "false"]

Optional(datatype, value) == value = NoValue \/ ParsesAs(datatype, value)

(* attributes: what the element does not have is NoValue.                  *)
Attribute(attributes, name) ==
  IF name \in DOMAIN attributes THEN attributes[name] ELSE NoValue

AcceptsBaseAttributes(e, attributes) ==
  /\ Attribute(attributes, "id") \in Reads["uuid"]
  /\ Attribute(attributes, "verwijderd") \in TrueValues \cup FalseValues
  /\ Attribute(attributes, "bijgewerkt") \in Reads["datetime"]
  /\ Optional("i64", Attribute(attributes, "contentLength"))
  /\ \A a \in ToSet(e.attributes) : a.required => a.name \in DOMAIN attributes

(* next_ordinal: a nil element has its number too.                         *)
Ordinal(children, i) == Cardinality({k \in 1 .. i : children[k].name = children[i].name})

AcceptsRelation(f, child) ==
  \/ /\ child.ref \in Reads["uuid"]
     /\ Optional("datetime", child.updated)
  \/ child.ref = NoValue /\ f.nillable

(* parse_child, parse_empty_child.                                         *)
AcceptsChild(f, child) ==
  CASE child.nil -> f.nillable
    [] ~child.nil /\ f.kind = "attribute" -> ParsesAs(Datatype(f.type), child.text)
    [] ~child.nil /\ f.kind = "relation" -> AcceptsRelation(f, child)

AcceptsChildren(e, children) ==
  /\ \A i \in DOMAIN children :
       \E f \in FieldsNamed(e, children[i].name) :
         /\ ~f.many => Ordinal(children, i) = 1
         /\ AcceptsChild(f, children[i])
  /\ \A f \in ToSet(e.fields) :
       f.min > 0 => \E i \in DOMAIN children : children[i].name = f.name

IsDeleted(xml) == Attribute(xml.attributes, "verwijderd") \in TrueValues

(* parse_entity_xml: the body of a deleted entity is skipped unread.       *)
AcceptsEntity(category, xml) ==
  \E e \in EntitiesNamed(category) :
    /\ xml.root = e.element
    /\ AcceptsBaseAttributes(e, xml.attributes)
    /\ IsDeleted(xml) \/ AcceptsChildren(e, xml.children)

-------------------------------------------------------------------------------
(* infer_target_category: the first entity type of that name, or no        *)
(* entity type at all.                                                     *)
InferTargetCategory(name) ==
  LET matches == SelectSeq(EntityTypes,
        LAMBDA e : Normal[name] \in {Normal[e.category], Normal[e.element]})
  IN IF matches = <<>> THEN UpperCamel[name] ELSE Head(matches).category

(* The positions of children that leave a value.                           *)
Kept(e, xml, kind) ==
  {i \in DOMAIN xml.children :
     /\ ~IsDeleted(xml)
     /\ FieldNamed(e, xml.children[i].name).kind = kind
     /\ ~xml.children[i].nil
     /\ kind = "relation" => xml.children[i].ref # NoValue}

ParsedScalar(e, children, i) ==
  [name |-> children[i].name, ordinal |-> Ordinal(children, i),
   value |-> ParsedValue(Datatype(FieldNamed(e, children[i].name).type), children[i].text)]

ParsedRelation(children, i) ==
  [name |-> children[i].name, ordinal |-> Ordinal(children, i),
   category |-> InferTargetCategory(children[i].name), id |-> children[i].ref]

(* parse_entry_payload of an accepted payload.  Name and ordinal tell the  *)
(* scalars, and the relations, apart; nothing asks for their order.        *)
ParsedEntity(category, xml, enclosure) ==
  LET e == CHOOSE x \in EntitiesNamed(category) : TRUE
  IN [category |-> e.category,
      id |-> xml.attributes["id"],
      deleted |-> IsDeleted(xml),
      updated |-> xml.attributes["bijgewerkt"],
      contentType |-> Attribute(xml.attributes, "contentType"),
      contentLength |-> Attribute(xml.attributes, "contentLength"),
      scalars |-> {ParsedScalar(e, xml.children, i) : i \in Kept(e, xml, "attribute")},
      relations |-> {ParsedRelation(xml.children, i) : i \in Kept(e, xml, "relation")},
      enclosure |-> enclosure]
=============================================================================
