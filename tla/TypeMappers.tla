----------------------------- MODULE TypeMappers -----------------------------
(***************************************************************************)
(* The mappers types keep (type.cc, stream.cc).  A type lists its mappers  *)
(* to other types; a mapper has the parts of both types as they were when  *)
(* it was made and a matrix over these (MappingMatrix has what is in it).  *)
(* Adding a mapper adds its inverse to the other type, unless that can be  *)
(* converted back already, and setting the element type of a stream takes  *)
(* away the mappers between it and others.  Connect asks the source for a  *)
(* mapper (edge.cc:85), the back ends ask the destination.                 *)
(*                                                                         *)
(* Left out: names, widths (vectors of any width are equal), the control   *)
(* fields all streams have, mappers from a type to itself, and types that  *)
(* generate mappers, of which this library has none.                       *)
(***************************************************************************)
EXTENDS Naturals, FiniteSets, SequencesExt

CONSTANTS
  Type,         \* the types the client makes
  Stream,       \* those among them with an element type
  Copies,       \* the types made by copying, in the order they are made
  InitId,       \* Type::id of the types of the client
  InitFields,   \* their fields; a stream ends with its elements
  ElementTypes, \* those that become elements of streams and new fields
  Maps,         \* what can be in a matrix
  MaxStored,    \* bound on the number of mappers in all lists
  HabitSets     \* the habits a client may have

AllHabits == {"equal", "replace", "nested", "grow", "remove"}
Ids       == {"bit", "vector", "record"}
AnyType   == Type \cup ToSet(Copies)

ASSUME TypeMappersAssumption ==
  /\ IsFiniteSet(Type) /\ Copies \in Seq(ToSet(Copies)) /\ IsInjective(Copies)
  /\ Type \cap ToSet(Copies) = {} /\ Stream \cup ElementTypes \subseteq Type
  /\ InitId \in [Type -> Ids]
  /\ \A t \in Type : InitFields[t] \in Seq([type : Type, reverse : BOOLEAN])
  /\ \E depth \in [Type -> 0..Cardinality(Type)] :   \* no type is inside itself
       \A t \in Type : \A k \in DOMAIN InitFields[t] : depth[InitFields[t][k].type] < depth[t]
  /\ \A s \in Stream : InitId[s] = "record" /\ InitFields[s] # << >>
  /\ MaxStored \in Nat
  /\ HabitSets \subseteq SUBSET AllHabits

VARIABLES
  types,    \* id, fields and mappers of every type; id "none" when not made
  habits    \* what this client does beside the ordinary

mapperVars == <<types, habits>>

NotMade == [id |-> "none", fields |-> << >>, mappers |-> << >>]

TypesInit ==
  /\ types = [t \in AnyType |->
       IF t \in Type THEN [id |-> InitId[t], fields |-> InitFields[t], mappers |-> << >>]
       ELSE NotMade]
  /\ habits \in HabitSets

Made == {t \in AnyType : types[t].id # "none"}

-----------------------------------------------------------------------------
(* The parts of type t: itself and, in order, those of its fields, each    *)
(* with whether it goes against the direction of t.                        *)
Flatten(ts, t) ==
  LET flat[u \in AnyType] == [inv \in BOOLEAN |->
        <<[type |-> u, reverse |-> inv]>> \o
        FlattenSeq([k \in DOMAIN ts[u].fields |->
          flat[ts[u].fields[k].type][inv # ts[u].fields[k].reverse]])]
  IN  flat[t][FALSE]

PartsOf(ts, t) == {part.type : part \in ToSet(Flatten(ts, t))}

IsEqual(ts, t, u) ==
  LET equal[v \in AnyType] == [w \in AnyType |->
        /\ ts[v].id = ts[w].id
        /\ v = w \/ ts[v].id # "record" \/
             /\ Len(ts[v].fields) = Len(ts[w].fields)
             /\ \A k \in DOMAIN ts[v].fields :
                  /\ ts[v].fields[k].reverse = ts[w].fields[k].reverse
                  /\ equal[ts[v].fields[k].type][ts[w].fields[k].type]]
  IN  equal[t][u]

IsGeneric(ts, t) == \E u \in PartsOf(ts, t) : ts[u].id = "vector"

-----------------------------------------------------------------------------
Matrix(ts, t, u, map) ==
  [map |-> map, transposed |-> FALSE,
   height |-> Len(Flatten(ts, t)), width |-> Len(Flatten(ts, u))]
Transpose(m) ==
  [map |-> m.map, transposed |-> ~ m.transposed, height |-> m.width, width |-> m.height]

Mapper(ts, t, u, matrix) ==
  [a |-> t, b |-> u, flat_a |-> Flatten(ts, t), flat_b |-> Flatten(ts, u), matrix |-> matrix]

(* Mutant of InverseMapper: the matrix is taken as it is.                  *)
InverseMapperAsIs(ts, m) == Mapper(ts, m.b, m.a, m.matrix)

InverseMapper(ts, m) == Mapper(ts, m.b, m.a, Transpose(m.matrix))

(* GetMapper, as far as it finds one: in the list, or an implicit one.     *)
Stored(ts, t, u) == \E m \in ToSet(ts[t].mappers) : m.b = u
CanConvert(ts, t, u) == Stored(ts, t, u) \/ t = u \/ IsEqual(ts, t, u)

(* RemoveMappersTo: the iterator goes on behind the entry that moved into  *)
(* the place of the one erased.                                            *)
Visit(seen, m, u) ==
  IF m.b = u /\ ~ seen.skip THEN [kept |-> seen.kept, skip |-> TRUE]
  ELSE [kept |-> Append(seen.kept, m), skip |-> FALSE]
Without(mappers, u) ==
  LET seen[k \in 0..Len(mappers)] ==
        IF k = 0 THEN [kept |-> << >>, skip |-> FALSE] ELSE Visit(seen[k - 1], mappers[k], u)
  IN  seen[Len(mappers)].kept

RemoveMappersTo(ts, t, u) == [ts EXCEPT ![t].mappers = Without(@, u)]

(* Mutants of AddMapper: the present mapper stays; the inverse is added    *)
(* when the other type can be converted.                                   *)
AddMapperOnTop(ts, m) ==
  LET added == [ts EXCEPT ![m.a].mappers = Append(@, m)]
  IN  IF CanConvert(added, m.b, m.a) THEN added
      ELSE [added EXCEPT ![m.b].mappers = Append(@, InverseMapper(added, m))]
AddMapperOneWay(ts, m) ==
  [RemoveMappersTo(ts, m.a, m.b) EXCEPT ![m.a].mappers = Append(@, m)]

AddMapper(ts, m) ==
  LET added == [RemoveMappersTo(ts, m.a, m.b) EXCEPT ![m.a].mappers = Append(@, m)]
  IN  IF CanConvert(added, m.b, m.a) THEN added
      ELSE [added EXCEPT ![m.b].mappers = Append(@, InverseMapper(added, m))]

(* Whether n more mappers are within the bound, which is lower by one for  *)
(* a client that leaves mappers without an inverse.                        *)
RoomFor(n) ==
  n + MapThenSumSet(LAMBDA t : Len(types[t].mappers), AnyType)
    <= MaxStored - (IF "remove" \in habits THEN 1 ELSE 0)

-----------------------------------------------------------------------------
(* The ordinary client adds a mapper where there is none, between types    *)
(* that are not equal.                                                     *)
UserAddMapper(t, u, map) ==
  /\ t # u /\ RoomFor(2)
  /\ "equal" \in habits \/ ~ IsEqual(types, t, u)
  /\ "replace" \in habits \/ ~ Stored(types, t, u)
  /\ types' = AddMapper(types, Mapper(types, t, u, Matrix(types, t, u, map)))

(* A mapper that is not from t is refused after the one in its place was   *)
(* removed.                                                                *)
UserAddWrongMapper(t, u) ==
  /\ "remove" \in habits
  /\ types' = RemoveMappersTo(types, t, u)

UserRemoveMappers(t, u) ==
  /\ "remove" \in habits
  /\ types' = RemoveMappersTo(types, t, u)

(* Mutant of SetElementType: other types keep their mappers to the stream. *)
SetElementTypeHere(ts, s, t) ==
  [ts EXCEPT ![s].mappers = << >>, ![s].fields[Len(ts[s].fields)].type = t]

SetElementType(ts, s, t) ==
  LET others[k \in 0..Len(ts[s].mappers)] ==
        IF k = 0 THEN ts ELSE RemoveMappersTo(others[k - 1], ts[s].mappers[k].b, s)
  IN  [others[Len(ts[s].mappers)] EXCEPT
         ![s].mappers = << >>, ![s].fields[Len(ts[s].fields)].type = t]

(* Whether t is a part of another type some mapper is about.               *)
Nested(t) ==
  \E u \in Made : \E m \in ToSet(types[u].mappers) :
    \E v \in {u, m.b} \ {t} : t \in PartsOf(types, v)

UserSetElementType(s, t) ==
  /\ s \notin PartsOf(types, t)
  /\ "nested" \in habits \/ ~ Nested(s)
  /\ types' = SetElementType(types, s, t)

(* Record::AddField leaves mappers alone.  The client does it once, and    *)
(* not to a stream, whose last field would not be its elements any more.   *)
UserAddField(r, t) ==
  /\ "grow" \in habits
  /\ types[r].id = "record" /\ r \in Type \ Stream /\ r \notin PartsOf(types, t)
  /\ \A q \in Type : Len(types[q].fields) = Len(InitFields[q])
  /\ types' = [types EXCEPT ![r].fields = Append(@, [type |-> t, reverse |-> FALSE])]

(* Copies are made of generic types and the generic types of their fields, *)
(* innermost first.                                                        *)
CopyOrder(ts, t) ==
  LET order[u \in AnyType] ==
        FlattenSeq([k \in DOMAIN ts[u].fields |->
          IF IsGeneric(ts, ts[u].fields[k].type) THEN order[ts[u].fields[k].type] ELSE << >>])
        \o <<u>>
  IN  order[t]

(* Mutant of CopyMapper: the matrix is set when the mapper was added.      *)
CopyMapperLate(ts, c, m) ==
  LET added == AddMapper(ts, Mapper(ts, c, m.b, Matrix(ts, c, m.b, "none")))
  IN  [added EXCEPT ![c].mappers[Len(added[c].mappers)].matrix = m.matrix]

CopyMapper(ts, c, m) == AddMapper(ts, Mapper(ts, c, m.b, m.matrix))

(* One type u is copied to copy[u], with those in its fields copied before *)
CopyOne(ts, u, copy) ==
  LET fields == [k \in DOMAIN ts[u].fields |->
                   IF IsGeneric(ts, ts[u].fields[k].type)
                     THEN [ts[u].fields[k] EXCEPT !.type = copy[@]] ELSE ts[u].fields[k]]
      made   == [ts EXCEPT ![copy[u]] = [id |-> ts[u].id, fields |-> fields, mappers |-> << >>]]
      mapped[k \in 0..Len(ts[u].mappers)] ==
        IF k = 0 THEN made ELSE CopyMapper(mapped[k - 1], copy[u], ts[u].mappers[k])
  IN  mapped[Len(ts[u].mappers)]

CopyAll(ts, order, copy) ==
  LET copied[k \in 0..Len(order)] ==
        IF k = 0 THEN ts ELSE CopyOne(copied[k - 1], order[k], copy)
  IN  copied[Len(order)]

UserCopy(t) ==
  LET order == CopyOrder(types, t)
      used  == Cardinality(Made \ Type)
      copy  == [u \in ToSet(order) |-> Copies[used + CHOOSE k \in DOMAIN order : order[k] = u]]
      stored(u) == Len(types[u].mappers)
  IN  /\ IsGeneric(types, t)
      /\ order \in Seq(AnyType)   \* no type is inside itself, where the code would not end
      /\ used + Len(order) <= Len(Copies)
      /\ Len(order) = Cardinality(ToSet(order))
      /\ RoomFor(2 * FoldLeft(LAMBDA n, u : n + stored(u), 0, order))
      /\ "equal" \in habits \/ \A u \in ToSet(order) : \A m \in ToSet(types[u].mappers) :
           ~ IsEqual(types, u, m.b)
      /\ types' = CopyAll(types, order, copy)

TypesNext ==
  /\ \/ \E t, u \in Made, map \in Maps : UserAddMapper(t, u, map)
     \/ \E t, u \in Made : UserAddWrongMapper(t, u)
     \/ \E t, u \in Made : UserRemoveMappers(t, u)
     \/ \E s \in Stream, t \in ElementTypes : UserSetElementType(s, t)
     \/ \E r \in Made, t \in ElementTypes : UserAddField(r, t)
     \/ \E t \in Made : UserCopy(t)
  /\ UNCHANGED habits

TypesSpec == TypesInit /\ [][TypesNext]_mapperVars

-----------------------------------------------------------------------------
(* There is at most one mapper to each type in a list, whatever the client *)
(* does: GetMapper has no choice, and RemoveMappersTo, which passes over   *)
(* the entry behind one it erased, misses none.                            *)
OneMapperPerTarget ==
  \A t \in Made : \A j, k \in DOMAIN types[t].mappers :
    types[t].mappers[j].b = types[t].mappers[k].b => j = k

(* A type that can be converted to another can be converted from it, so    *)
(* that back ends, which look from the destination (architecture.cc:192),  *)
(* find a mapper for all that Connect let pass (edge.cc:85).  Replacing    *)
(* mappers and changing types inside others does not break this; mapping   *)
(* equal types, removing a mapper or having one refused does.              *)
ConvertsBothWays ==
  habits \cap {"equal", "remove"} = {} =>
    \A t, u \in Made : CanConvert(types, t, u) = CanConvert(types, u, t)

(* Mappers are about the parts their types have now: changing the elements *)
(* of a stream leaves none behind, on either side (stream.cc:24), if the   *)
(* stream is not inside another type.                                      *)
MappersFit ==
  habits \subseteq {"replace"} =>
    \A t \in Made : \A m \in ToSet(types[t].mappers) :
      /\ m.flat_a = Flatten(types, t) /\ m.flat_b = Flatten(types, m.b)
      /\ m.matrix.height = Len(m.flat_a) /\ m.matrix.width = Len(m.flat_b)

(* Mappers of the two directions do the same, also for copies.  A mapper   *)
(* that replaces another leaves the old inverse (type.cc:103).             *)
DirectionsAgree ==
  habits \subseteq {"nested", "grow"} =>
    \A t \in Made : \A m \in ToSet(types[t].mappers) : \A n \in ToSet(types[m.b].mappers) :
      n.b = t => n.matrix = Transpose(m.matrix)
=============================================================================
