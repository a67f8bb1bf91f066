---------------------------- MODULE Declarations ----------------------------
(***************************************************************************)
(* The declaration of a component as VHDL (vhdl/declaration.cc), and the   *)
(* names on the left hand sides of the maps of its instances               *)
(* (Inst::Generate in vhdl/instantiation.cc).  The two are written from    *)
(* different graphs, the component and a copy of its interface, so they    *)
(* agree if the graphs do.  A line is the object it declares, the number   *)
(* of the flattened part of its type, and whether it ends in a separator;  *)
(* part 0 is a separator on a line of its own.                             *)
(***************************************************************************)
EXTENDS ComponentGraphs

CONSTANT Parts   \* the physical parts of the type of an object, see FilterForVHDL

ASSUME PartsAssumption == Parts \in [Object -> Nat]

(* Decl::Generate for one object: a parameter always has its line.         *)
Lines(x) ==
  [k \in 1..(IF KindOf(x) = "parameter" THEN 1 ELSE Parts[Original(x)]) |->
     [of |-> x, part |-> k, sep |-> FALSE]]

(* A block followed by a separator: on each of its lines, or, if it has no *)
(* lines, on a new one.  Separating puts it on all lines but the last.     *)
Terminated(block, x) ==
  IF block = << >> THEN <<[of |-> x, part |-> 0, sep |-> TRUE]>>
  ELSE [k \in DOMAIN block |-> [block[k] EXCEPT !.sep = TRUE]]
Separated(block) ==
  [k \in DOMAIN block |-> [block[k] EXCEPT !.sep = @ \/ k < Len(block)]]

(* Mutant of DeclarationList: what follows is not looked at.               *)
DeclarationListAlone(objs, follows) ==
  FlattenSeq([k \in DOMAIN objs |->
    IF objs[k] # Last(objs) THEN Terminated(Lines(objs[k]), objs[k])
                            ELSE Separated(Lines(objs[k]))])

(* The loop over the objects of one kind: the block of an object is        *)
(* separated, not terminated, when it is the last one and nothing follows. *)
DeclarationList(objs, follows) ==
  FlattenSeq([k \in DOMAIN objs |->
    IF objs[k] # Last(objs) \/ follows THEN Terminated(Lines(objs[k]), objs[k])
                                       ELSE Separated(Lines(objs[k]))])

(* Mutant of DeclaredPorts: only ports that are in no array.               *)
DeclaredPortsPlain(c) == DeclarationList(OfKind(c, "port"), FALSE)

(* Ports are followed by port arrays, parameters by nothing.               *)
DeclaredPorts(c) ==
  DeclarationList(OfKind(c, "port"), OfKind(c, "port_array") # << >>)
    \o DeclarationList(OfKind(c, "port_array"), FALSE)
DeclaredGenerics(c) == DeclarationList(OfKind(c, "parameter"), FALSE)

PortsOf(g) == OfKind(g, "port") \o OfKind(g, "port_array")

(* The lines of the maps of an instance when all its ports are connected.  *)
PortMapLines(i)    == Separated(FlattenSeq([k \in DOMAIN PortsOf(i) |-> Lines(PortsOf(i)[k])]))
GenericMapLines(i) ==
  Separated(FlattenSeq([k \in DOMAIN OfKind(i, "parameter") |-> Lines(OfKind(i, "parameter")[k])]))

-----------------------------------------------------------------------------
WellSeparated(lines) ==
  \A k \in DOMAIN lines : lines[k].part # 0 /\ (lines[k].sep <=> k < Len(lines))

(* The lists of a declaration are lists in VHDL, whatever was added to the *)
(* component and removed: one separator between two declarations and none  *)
(* after the last.  Only ports without physical parts break this.          *)
DeclarationsSeparated ==
  \A c \in Component :
    /\ WellSeparated(DeclaredGenerics(c))
    /\ (\A x \in ToSet(PortsOf(c)) : Parts[Original(x)] > 0) => WellSeparated(DeclaredPorts(c))

Formal(line)     == [name |-> NameOf(line.of), kind |-> KindOf(line.of), part |-> line.part]
Formals(lines)   == {Formal(l) : l \in ToSet(lines)}
LeftAlone(i)     == ToSet(objects[i]) \cap Object = {}
Selfcontained(c) == \A x \in ToSet(objects[c]) : refs[x] \subseteq ToSet(objects[c])

(* Nothing is mapped on an instance that its component does not declare,   *)
(* at any time after it was made, unless the client put objects on the     *)
(* instance or its component refers to parameters it lost.                 *)
MapsWhatIsDeclared ==
  \A i \in Instance : of[i] # None /\ LeftAlone(i) /\ Selfcontained(of[i]) =>
    /\ Formals(PortMapLines(i))    \subseteq Formals(DeclaredPorts(of[i]))
    /\ Formals(GenericMapLines(i)) \subseteq Formals(DeclaredGenerics(of[i]))
=============================================================================
