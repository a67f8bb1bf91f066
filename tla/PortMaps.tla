------------------------------- MODULE PortMaps -------------------------------
(***************************************************************************)
(* What the mapping pairs of two connected nodes become in VHDL: one line  *)
(* for each part of A and of B in a pair, an assignment (architecture.cc)  *)
(* or an association in a port map (instantiation.cc), with the slices of  *)
(* the two signals it is about.  Nodes may be elements of arrays, which    *)
(* VHDL has as one long vector.  Element i of A connects to element to[i]  *)
(* of B, or to the i-th of some plain nodes.  When all that is connected   *)
(* to a port array is in one other array, there are lines for element 0    *)
(* only, which are about the whole arrays.  Left out are names, records,   *)
(* which give no line, and the vectors forced by metadata; widths are      *)
(* numbers (Expressions is about the rest).                                *)
(***************************************************************************)
EXTENDS MappingMatrix

CONSTANTS
  Types,      \* what parts can be: records of kind "bit" or "vector" and width
  Elements    \* number of elements in an array

ASSUME PortMapsAssumption ==
  /\ \A t \in Types : t.kind \in {"bit", "vector"} /\ t.width \in Nat \ {0}
  /\ \A t \in Types : t.kind = "bit" => t.width = 1
  /\ Elements \in Nat \ {0}

VARIABLES
  typeA, typeB,     \* the types of the parts
  arrayA, arrayB,   \* whether the node is an element of an array
  to,               \* the elements of B that those of A connect to
  backEnd           \* what the lines are for

nodes == <<typeA, typeB, arrayA, arrayB, to, backEnd>>
portMapVars == <<matrix, nodes>>

ElementsOfArray == 0..(Elements - 1)
InOrder == [i \in ElementsOfArray |-> i]

PortMapsInit ==
  /\ matrix = Empty
  /\ typeA \in [FlatA -> Types] /\ typeB \in [FlatB -> Types]
  /\ arrayA \in BOOLEAN /\ arrayB \in BOOLEAN
  /\ to \in Permutations(ElementsOfArray) /\ (~ arrayB => to = InOrder)
  /\ backEnd \in {"assignment", "association", "whole"}
  /\ backEnd = "whole" => arrayA /\ arrayB

PortMapsNext == \E y \in FlatA, x \in FlatB : Add(y, x) /\ UNCHANGED nodes

PortMapsSpec == PortMapsInit /\ [][PortMapsNext]_portMapVars

-----------------------------------------------------------------------------
TotalWidth(parts, type) == FoldSeq(LAMBDA c, w : w + type[c].width, 0, parts)
WidthBefore(parts, k, type) == TotalWidth(SubSeq(parts, 1, k - 1), type)

(* Elements that get lines of their own.                                   *)
Element == IF backEnd # "whole" /\ (arrayA \/ arrayB) THEN ElementsOfArray ELSE {0}

(* An assignment between a bit and a vector indexes the vector.            *)
Indexed(t, u) == backEnd = "assignment" /\ t.kind = "vector" /\ u.kind = "bit"

(* The bits from which to which a line is about on one side.  The part is  *)
(* of type t; at the other end is a part of type u.                        *)
Slice(t, u, offset, sliced, isArray) ==
  IF sliced \/ (isArray /\ backEnd # "whole") \/ Indexed(t, u)
    THEN IF t.kind = "bit" \/ Indexed(t, u) THEN <<offset, offset>>
                                            ELSE <<offset, offset + u.width - 1>>
    ELSE <<0, (IF backEnd = "whole" THEN Elements ELSE 1) * t.width - 1>>

(* Mutant of OffsetA: the offset of the element is in units of a part.     *)
OffsetAFirst(p, ka, kb, i) ==
  (IF arrayA THEN i ELSE 0) * typeB[p.b[1]].width + WidthBefore(p.b, kb, typeB)

(* Offsets of a line, for part number ka of A, kb of B and element i.  On  *)
(* either side they count the widths of the other.                         *)
OffsetA(p, ka, kb, i) ==
  (IF arrayA THEN i ELSE 0) * TotalWidth(p.b, typeB) + WidthBefore(p.b, kb, typeB)
OffsetB(p, ka, kb, i) ==
  (IF arrayB THEN to[i] ELSE 0) * TotalWidth(p.a, typeA) + WidthBefore(p.a, ka, typeA)

Line(p, ka, kb, i) ==
  LET ta == typeA[p.a[ka]]
      tb == typeB[p.b[kb]]
  IN  [a |-> p.a[ka], b |-> p.b[kb],
       onA |-> Slice(ta, tb, OffsetA(p, ka, kb, i), Len(p.b) > 1, arrayA),
       onB |-> Slice(tb, ta, OffsetB(p, ka, kb, i), Len(p.a) > 1, arrayB)]

Lines(p, i) == {Line(p, ka, kb, i) : ka \in DOMAIN p.a, kb \in DOMAIN p.b}

-----------------------------------------------------------------------------
(* What a pair promises: the bits of its parts of A, one part after the    *)
(* other, meet those of its parts of B, for every element.  A bit is named *)
(* by its part and its place in the vector of VHDL.                        *)
BitAt(parts, type, isArray, i, k) ==
  LET n == CHOOSE m \in DOMAIN parts :
             WidthBefore(parts, m, type) <= k /\ k < WidthBefore(parts, m + 1, type)
  IN  <<parts[n], (IF isArray THEN i ELSE 0) * type[parts[n]].width
                    + k - WidthBefore(parts, n, type)>>
Concatenation(p, i) ==
  {<<BitAt(p.a, typeA, arrayA, j, k), BitAt(p.b, typeB, arrayB, to[j], k)>> :
     j \in IF backEnd = "whole" THEN ElementsOfArray ELSE {i},
     k \in 0..(TotalWidth(p.a, typeA) - 1)}

(* What the lines do.  Lines about unequal numbers of bits are no VHDL.    *)
WellFormed(l) == l.onA[2] - l.onA[1] = l.onB[2] - l.onB[1]
BitsOf(l) == {<< <<l.a, l.onA[1] + k>>, <<l.b, l.onB[1] + k>> >> : k \in 0..(l.onA[2] - l.onA[1])}

Balanced(p) == TotalWidth(p.a, typeA) = TotalWidth(p.b, typeB)

LinesConcatenate(p) ==
  \A i \in Element :
    /\ \A l \in Lines(p, i) : WellFormed(l)
    /\ UNION {BitsOf(l) : l \in Lines(p, i)} = Concatenation(p, i)

(* "In hardware FlatType b0 and b1 are concatenated onto a" (flattype.h):  *)
(* the lines of a pair connect the bits of both sides in order.  Where     *)
(* elements of arrays are concerned this is so for one part on either      *)
(* side, or one part on both when the arrays are connected as a whole,     *)
(* which has to be in order.                                               *)
PairsConcatenate ==
  \A p \in UniqueMappingPairs(matrix) :
    /\ Balanced(p)
    /\ arrayA => Len(p.a) = 1
    /\ arrayB => Len(p.b) = 1
    /\ backEnd = "whole" => to = InOrder
    => LinesConcatenate(p)
=============================================================================
