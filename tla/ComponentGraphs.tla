-------------------------- MODULE ComponentGraphs ---------------------------
(***************************************************************************)
(* Graphs and the objects they own (graph.cc, object.cc): adding objects   *)
(* to components and instances and removing them again, and instantiating  *)
(* a component, which copies its interface onto the new instance and       *)
(* rebinds what the copies refer to (node.cc, array.cc).                   *)
(*                                                                         *)
(* The references of an object are the nodes Graph::Add insists on: the    *)
(* generics of its type and the size of an array, through expressions.     *)
(* Literals and expressions are let through by Add and left out here.      *)
(* Instances are made by Instantiate only and never destroyed.             *)
(***************************************************************************)
EXTENDS Naturals, Sequences, FiniteSets, SequencesExt

CONSTANTS
  Component, Instance,
  Object,     \* the objects the client makes
  Kind,       \* "port", "parameter", "signal" or an array of ports or signals
  Name,
  Refs,       \* the parameters an object refers to
  Size,       \* the one among them that is the size of the array
  None        \* no graph, no size, a literal in place of a parameter

Graph == Component \cup Instance
Obj   == Object \cup (Instance \X Object)      \* <<i, o>> is the copy of o on i

Interface == {"port", "parameter", "port_array"}
Arrays    == {"port_array", "signal_array"}

Original(x) == IF x \in Object THEN x ELSE x[2]
KindOf(x)   == Kind[Original(x)]
NameOf(x)   == Name[Original(x)]

ASSUME GraphsAssumption ==
  /\ Component \cap Instance = {}
  /\ IsFiniteSet(Object)
  /\ Object \cap (Instance \X Object) = {}
  /\ Kind \in [Object -> Interface \cup Arrays \cup {"signal"}]
  /\ Refs \in [Object -> SUBSET {o \in Object : Kind[o] = "parameter"}]
  /\ \A o \in Object : Kind[o] = "parameter" => Refs[o] = {}
  /\ Size \in [Object -> Object \cup {None}]
  /\ \A o \in Object : Size[o] # None => Size[o] \in Refs[o] /\ Kind[o] \in Arrays
  /\ None \notin Graph \cup Obj

VARIABLES
  objects,   \* Graph::objects_ of every graph
  parent,    \* Object::parent_
  refs,      \* what an object refers to
  marked,    \* the components with was_instantiated
  of,        \* the component an instance is of, None before it is made
  mapped     \* the nodes inst_to_comp of some component has a value for

graphVars == <<objects, parent, refs, marked, of, mapped>>

GraphsInit ==
  /\ objects = [g \in Graph |-> << >>]
  /\ parent = [x \in Obj |-> None]
  /\ refs = [x \in Obj |-> IF x \in Object THEN Refs[x] ELSE {}]
  /\ marked = {}
  /\ of = [i \in Instance |-> None]
  /\ mapped = {}

-----------------------------------------------------------------------------
Has(objs, name) == \E k \in DOMAIN objs : NameOf(objs[k]) = name
On(g, x)        == x \in ToSet(objects[g])
Made(g)         == g \in Instance => of[g] # None
Exists(x)       == x \in Object \/ parent[x] # None

(* Mutant of Mutable: only ports are protected.                            *)
MutablePortsOnly(g, x) == g \in marked => KindOf(x) # "port"

(* ThrowErrorIfInstantiated.                                               *)
Mutable(g, x) == g \in marked => KindOf(x) \notin Interface

(* Mutants of AddObject: the parent is not checked, or set to the object.  *)
AddObjectAnyParent(g, x) ==
  /\ Made(g) /\ Exists(x)
  /\ g \in Component => Mutable(g, x)
  /\ ~ Has(objects[g], NameOf(x))
  /\ \A r \in refs[x] : parent[r] = g
  /\ objects' = [objects EXCEPT ![g] = Append(@, x)]
  /\ parent' = [parent EXCEPT ![x] = g]
  /\ UNCHANGED <<refs, marked, of, mapped>>
AddObjectOwnParent(g, x) ==
  /\ Made(g) /\ Exists(x)
  /\ ~ Has(objects[g], NameOf(x))
  /\ objects' = [objects EXCEPT ![g] = Append(@, x)]
  /\ parent' = [parent EXCEPT ![x] = x]
  /\ UNCHANGED <<refs, marked, of, mapped>>

(* Graph::Add of an object that is not there yet, Component::Add and       *)
(* Instance::Add with the checks they put before it.  An instance refuses  *)
(* signals, though not signal arrays.                                      *)
AddObject(g, x) ==
  /\ Made(g) /\ Exists(x)
  /\ g \in Component => Mutable(g, x)
  /\ g \in Instance => KindOf(x) # "signal"
  /\ ~ Has(objects[g], NameOf(x))
  /\ parent[x] \in {None, g}
  /\ \A r \in refs[x] : parent[r] = g
  /\ objects' = [objects EXCEPT ![g] = Append(@, x)]
  /\ parent' = [parent EXCEPT ![x] = g]
  /\ UNCHANGED <<refs, marked, of, mapped>>

(* The parent of a removed object stays what it was.                       *)
RemoveObject(g, x) ==
  /\ Mutable(g, x)
  /\ \E k \in DOMAIN objects[g] :
       objects[g][k] = x /\ objects' = [objects EXCEPT ![g] = RemoveAt(@, k)]
  /\ UNCHANGED <<parent, refs, marked, of, mapped>>

-----------------------------------------------------------------------------
(* The constructor of an instance builds its list of objects and the map   *)
(* comp_to_inst one copy at a time; "ok" turns FALSE when a copy throws.   *)
Blank ==
  [objs |-> << >>, map |-> [o \in Object |-> None], refs |-> [o \in Object |-> {}], ok |-> TRUE]

Push(i, st, o, to) ==
  [objs |-> Append(st.objs, <<i, o>>),
   map  |-> [st.map EXCEPT ![o] = <<i, o>>],
   refs |-> [st.refs EXCEPT ![o] = to],
   ok   |-> st.ok /\ ~ Has(st.objs, Name[o])]

(* One generic: what the map says, else the node with that name on the     *)
(* instance, else a copy.                                                  *)
Rebind(i, st, r) ==
  IF st.map[r] # None THEN st
  ELSE IF Has(st.objs, Name[r])
    THEN LET x == st.objs[CHOOSE k \in DOMAIN st.objs : NameOf(st.objs[k]) = Name[r]]
         IN  [st EXCEPT !.map[r] = x, !.ok = @ /\ KindOf(x) \notin Arrays]
    ELSE Push(i, st, r, {})

ImplicitlyRebindNodes(i, st, nodes) ==
  LET bound[k \in 0..Len(nodes)] ==
        IF k = 0 THEN st ELSE Rebind(i, bound[k - 1], nodes[k])
  IN  bound[Len(nodes)]

(* Mutant of CopyOnto: the copy keeps the type of the original.            *)
CopyOntoUnbound(i, st, o) == Push(i, st, o, refs[o])

(* Node::CopyOnto, and NodeArray::CopyOnto, which wants the size in the    *)
(* map already.  References in the end are what the map says they are.     *)
CopyOnto(i, st, o) ==
  LET sized == [st EXCEPT !.ok = @ /\ (Size[o] # None => st.map[Size[o]] # None)]
      bound == ImplicitlyRebindNodes(i, sized, SetToSeq(refs[o]))
  IN  Push(i, bound, o, {bound.map[r] : r \in refs[o]})

(* One loop of the constructor, over the objects of one kind.              *)
CopyKind(i, st, objs, kind) ==
  LET copied[k \in 0..Len(objs)] ==
        IF k = 0 THEN st
        ELSE IF KindOf(objs[k]) = kind THEN CopyOnto(i, copied[k - 1], objs[k])
        ELSE copied[k - 1]
  IN  copied[Len(objs)]

CopyInterface(i, objs) ==
  CopyKind(i, CopyKind(i, CopyKind(i, Blank, objs, "parameter"), objs, "port"), objs, "port_array")

(* GetAll<T>.                                                              *)
OfKind(g, k) ==
  LET objs == objects[g]
      taken[n \in 0..Len(objs)] ==
        IF n = 0 THEN << >>
        ELSE IF KindOf(objs[n]) = k THEN Append(taken[n - 1], objs[n]) ELSE taken[n - 1]
  IN  taken[Len(objs)]

(* Mutant of Parameters: only those that are still on a component.         *)
ParametersListed(objs) ==
  {x \in ToSet(objs) : KindOf(x) = "parameter" /\ \E c \in Component : On(c, x[2])}

Parameters(objs) == {x \in ToSet(objs) : KindOf(x) = "parameter"}

(* The component is marked first, whatever happens then.  All parameters   *)
(* of the new instance get their default in inst_to_comp, those that       *)
(* rebinding brought along as well.                                        *)
Instantiate(c, i) ==
  LET st == CopyInterface(i, objects[c]) IN
  /\ of[i] = None
  /\ \A x \in ToSet(objects[c]) : x \in Object
  /\ st.ok
  /\ marked' = marked \cup {c}
  /\ of' = [of EXCEPT ![i] = c]
  /\ objects' = [objects EXCEPT ![i] = st.objs]
  /\ parent' = [x \in Obj |-> IF x \in ToSet(st.objs) THEN i ELSE parent[x]]
  /\ refs' = [x \in Obj |-> IF x \in ToSet(st.objs) THEN st.refs[x[2]] ELSE refs[x]]
  /\ mapped' = mapped \cup Parameters(st.objs)

InstantiateThrows(c, i) ==
  /\ of[i] = None
  /\ \A x \in ToSet(objects[c]) : x \in Object
  /\ ~ CopyInterface(i, objects[c]).ok
  /\ marked' = marked \cup {c}
  /\ UNCHANGED <<objects, parent, refs, of, mapped>>

GraphsNext ==
  \/ \E g \in Graph, x \in Obj : AddObject(g, x)
  \/ \E g \in Graph, x \in Obj : RemoveObject(g, x)
  \/ \E c \in Component, i \in Instance : Instantiate(c, i)
  \/ \E c \in Component, i \in Instance : InstantiateThrows(c, i)

GraphsSpec == GraphsInit /\ [][GraphsNext]_graphVars

-----------------------------------------------------------------------------
GraphsTypeOK ==
  /\ objects \in [Graph -> Seq(Obj)]
  /\ parent \in [Obj -> Graph \cup {None}]
  /\ refs \in [Obj -> SUBSET Obj]
  /\ marked \subseteq Component
  /\ of \in [Instance -> Component \cup {None}]
  /\ mapped \subseteq Obj

(* An object knows the graph that owns it, so it is on one graph at most,  *)
(* and names tell the objects of a graph apart: lookups by name            *)
(* (Graph::Get, implicit rebinding) have one answer.                       *)
OwnedOnce ==
  \A g \in Graph : \A k, l \in DOMAIN objects[g] :
    /\ parent[objects[g][k]] = g
    /\ NameOf(objects[g][k]) = NameOf(objects[g][l]) => k = l

(* "Mutating port or parameter nodes ... after instantiation is not        *)
(* allowed" (graph.cc:355), so that every instance has a copy of each      *)
(* port, parameter and port array its component has: it lacks none when it *)
(* is made, and later only those the client takes off the instance itself. *)
Lacks(i) ==
  IF of[i] = None THEN {}
  ELSE {o \in ToSet(objects[of[i]]) : KindOf(o) \in Interface /\ ~ On(i, <<i, o>>)}
InterfaceKept ==
  [][\A i \in Instance :
       \A o \in Lacks(i)' \ Lacks(i) : RemoveObject(i, <<i, o>>)]_graphVars

(* What an object of an instance refers to is on that instance, however    *)
(* its component was put together: never a node of the component, which    *)
(* has no meaning where the instance is.                                   *)
InstanceRefsLocal ==
  \A i \in Instance : \A x \in ToSet(objects[i]) : \A r \in refs[x] : parent[r] = i

(* When the parent copies a port of an instance for a signal, "we will     *)
(* know what value to use" (graph.cc:311): every parameter a copy refers   *)
(* to is in inst_to_comp, also those that were no longer on the component. *)
ReferencesAreMapped ==
  \A i \in Instance : \A x \in ToSet(objects[i]) \ Object : \A r \in refs[x] :
    KindOf(r) = "parameter" => r \in mapped
=============================================================================
