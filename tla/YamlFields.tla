----------------------------- MODULE YamlFields -----------------------------
(***************************************************************************)
(* YamlConverter (yaml/yaml.cc): a YAML document becomes a field.  One     *)
(* converter collects what it meets: visiting a map sets its name, width   *)
(* and flags, visiting the map's subfields adds to its fields, and Convert *)
(* decides at the end what was meant.  Each item of a sequence gets a      *)
(* converter of its own.                                                   *)
(***************************************************************************)
EXTENDS Naturals, Sequences, SequencesExt

CONSTANTS
  Document,  \* the documents converted, as yaml-cpp has parsed them
  NoName,    \* the empty name
  Absent     \* a key that is not there

(* A node is a null, a scalar, a sequence of nodes (`items`) or a map,     *)
(* each with its `type`.  A map has its keys, and `marked`: whether "field" *)
(* or "record" is one of them.                                             *)

VARIABLES
  doc,    \* YamlConverter::root_, Absent before
  field   \* what Convert returned, Absent before

yamlVars == <<doc, field>>

-----------------------------------------------------------------------------
(* The members of a converter, and whether an error was returned.          *)
Blank ==
  [name |-> NoName, width |-> 0, vector |-> FALSE, reverse |-> FALSE, fields |-> << >>, ok |-> TRUE]
Failed(conv) == [conv EXCEPT !.ok = FALSE]

(* Mutant of ForItem: what the map around the sequence said is kept.       *)
ForItemShared(conv) == [conv EXCEPT !.fields = << >>]

(* The converter that is made for an item of a sequence.                   *)
ForItem(conv) == Blank

Set(old, new) == IF new = Absent THEN old ELSE new

(* Unique removes duplicates from a copy, and returns what it was given:   *)
(* the constructor of Record, which throws if there were any, never does.  *)
Unique(names) == names
RecordThrows(fields) ==
  Len(Unique([k \in DOMAIN fields |-> fields[k].name])) # Len(fields)

(* The end of Convert.  A vector may be of width 0.                        *)
Typed(conv, type) ==
  [ok |-> TRUE, field |-> [name |-> conv.name, type |-> type, reverse |-> conv.reverse]]
Made(conv) ==
  IF conv.fields # << >>
    THEN IF RecordThrows(conv.fields) THEN [ok |-> FALSE]
                                      ELSE Typed(conv, [is |-> "record", fields |-> conv.fields])
  ELSE IF conv.width > 1 \/ conv.vector THEN Typed(conv, [is |-> "vector", width |-> conv.width])
  ELSE IF conv.width > 0 THEN Typed(conv, [is |-> "bit"])
  ELSE [ok |-> FALSE]

(* Visit adds what it finds to a converter; Convert visits and decides.    *)
RECURSIVE Visit(_, _)
Convert(conv, node) == LET seen == Visit(conv, node) IN IF seen.ok THEN Made(seen) ELSE [ok |-> FALSE]

VisitItem(conv, item) ==
  IF ~ conv.ok THEN conv
  ELSE IF item.type # "map" \/ ~ item.marked THEN Failed(conv)
  ELSE LET made == Convert(ForItem(conv), item)
       IN  IF made.ok THEN [conv EXCEPT !.fields = Append(@, made.field)] ELSE Failed(conv)

VisitMap(conv, node) ==
  LET seen == [conv EXCEPT !.name = node.name, !.width = Set(@, node.width),
                           !.vector = Set(@, node.vector), !.reverse = Set(@, node.reverse)]
  IN  IF node.name = Absent THEN Failed(conv)
      ELSE IF node.fields = Absent THEN (IF node.width = Absent THEN Failed(seen) ELSE seen)
      ELSE IF seen.width > 0 THEN Failed(seen)
      ELSE Visit(seen, node.fields)

Visit(conv, node) ==
  CASE node.type = "sequence" -> FoldLeft(VisitItem, conv, node.items)
    [] node.type = "map"      -> VisitMap(conv, node)
    [] OTHER                  -> Failed(conv)

YamlInit == doc = Absent /\ field = Absent

(* The constructor and Convert, once.                                      *)
ConvertDocument(document) ==
  /\ doc' = document
  /\ field' = Convert(Blank, document)

YamlNext == doc = Absent /\ \E document \in Document : ConvertDocument(document)

-----------------------------------------------------------------------------
(* A field has a name and either a width, or subfields in a sequence that  *)
(* is not empty; a record may say that its width is 0.                     *)
RECURSIVE Proper(_)
ProperItems(node) ==
  /\ node.type = "sequence" /\ node.items # << >>
  /\ \A i \in DOMAIN node.items :
       node.items[i].type = "map" /\ node.items[i].marked /\ Proper(node.items[i])
Proper(node) ==
  /\ node.name # Absent
  /\ IF node.fields = Absent THEN node.width \notin {Absent, 0}
                             ELSE node.width \in {Absent, 0} /\ ProperItems(node.fields)

(* What a proper document means, read from the document alone.             *)
RECURSIVE Meaning(_)
MeaningOfAll(items) == [i \in DOMAIN items |-> Meaning(items[i])]
Meaning(node) ==
  [name |-> node.name, reverse |-> node.reverse = TRUE,
   type |-> IF node.fields # Absent THEN [is |-> "record", fields |-> MeaningOfAll(node.fields.items)]
            ELSE IF node.width = 1 /\ node.vector # TRUE THEN [is |-> "bit"]
            ELSE [is |-> "vector", width |-> node.width]]

(* What the converter lets pass: subfields given as a map, which is then   *)
(* taken for the field itself, and a vector with neither width nor fields. *)
RECURSIVE Lenient(_)
Lenient(node) ==
  CASE node.type = "sequence" -> \E i \in DOMAIN node.items : Lenient(node.items[i])
    [] node.type = "map" -> \/ node.vector = TRUE /\ node.width \in {Absent, 0}
                            \/ node.fields # Absent /\ (node.fields.type = "map" \/ Lenient(node.fields))
    [] OTHER -> FALSE

(* Two subfields of one field have the same name.                          *)
RECURSIVE Clashes(_)
Clashes(node) ==
  CASE node.type = "sequence" ->
         \/ \E i, j \in DOMAIN node.items :
              /\ i # j /\ node.items[i].type = "map" /\ node.items[j].type = "map"
              /\ node.items[i].name = node.items[j].name
         \/ \E i \in DOMAIN node.items : Clashes(node.items[i])
    [] node.type = "map" -> node.fields # Absent /\ Clashes(node.fields)
    [] OTHER -> FALSE

(* A document is converted exactly if it describes a field, and into that  *)
(* field: nothing that one map says gets into the field of another,        *)
(* although a converter collects what it visits and goes on with it.       *)
YamlMeansField ==
  field # Absent /\ ~ Lenient(doc) /\ ~ Clashes(doc) =>
    CASE doc.type = "map" ->
           IF Proper(doc) THEN field.ok /\ field.field = Meaning(doc) ELSE ~ field.ok
      [] doc.type = "sequence" /\ ProperItems(doc) ->
           field.ok /\ field.field = [name |-> NoName, reverse |-> FALSE,
                         type |-> [is |-> "record", fields |-> MeaningOfAll(doc.items)]]
      [] OTHER -> ~ field.ok

RECURSIVE NamesUnique(_)
NamesUnique(type) ==
  type.is = "record" =>
    /\ \A i, j \in DOMAIN type.fields : i # j => type.fields[i].name # type.fields[j].name
    /\ \A i \in DOMAIN type.fields : NamesUnique(type.fields[i].type)

(* What the constructor of Record says of itself: field names must be      *)
(* unique.  It counts the names that are left when duplicates are removed, *)
(* but Unique returns the names it was given, so no record is refused.     *)
RecordNamesUnique == field # Absent => (field.ok => NamesUnique(field.field.type))
=============================================================================
