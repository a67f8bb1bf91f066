---------------------------- MODULE MappingMatrix ----------------------------
(***************************************************************************)
(* The matrix of a TypeMapper (flattype.h): which parts of flattened type  *)
(* A connect to which parts of flattened type B, and in what order parts   *)
(* are concatenated.  Zero is no connection; Add gives a place the next    *)
(* number of its row and column.  The back ends work from mapping pairs    *)
(* (GetUniqueMappingPairs), which have one part on at least one side.      *)
(***************************************************************************)
EXTENDS Integers, FiniteSets, FiniteSetsExt, Sequences, SequencesExt

CONSTANTS
  FlatA, FlatB,   \* the indices of the parts of A and B
  MaxOrder        \* bound on the numbers in the matrix

ASSUME MatrixAssumption ==
  FlatA \subseteq Nat /\ FlatB \subseteq Nat /\ MaxOrder \in Nat

VARIABLE matrix

Empty == [c \in FlatA \X FlatB |-> 0]

(* Mutant of NextOrder: rows are not looked at.                            *)
NextOrderColumn(m, y, x) == 1 + Max({m[<<r, x>>] : r \in FlatA})

NextOrder(m, y, x) == 1 + Max({m[<<r, x>>] : r \in FlatA} \cup {m[<<y, c>>] : c \in FlatB})

SetNext(m, y, x) == [m EXCEPT ![<<y, x>>] = NextOrder(m, y, x)]

(* The places of a row or column that are not zero, by their number.       *)
MappingRow(m, y) ==
  SetToSortSeq({x \in FlatB : m[<<y, x>>] > 0}, LAMBDA c, d : m[<<y, c>>] <= m[<<y, d>>])
MappingColumn(m, x) ==
  SetToSortSeq({y \in FlatA : m[<<y, x>>] > 0}, LAMBDA c, d : m[<<c, x>>] <= m[<<d, x>>])

Pair(a, b) == [a |-> a, b |-> b]

OneToOne(m) ==
  {Pair(<<y>>, MappingRow(m, y)) : y \in {z \in FlatA :
     /\ Len(MappingRow(m, z)) = 1
     /\ Len(MappingColumn(m, MappingRow(m, z)[1])) = 1}}
ManyOnA(m) ==
  {Pair(<<y>>, MappingRow(m, y)) : y \in {z \in FlatA : Len(MappingRow(m, z)) > 1}}
ManyOnB(m) ==
  {Pair(MappingColumn(m, x), <<x>>) : x \in {z \in FlatB : Len(MappingColumn(m, z)) > 1}}

(* Mutant of UniqueMappingPairs: every row makes a pair.                   *)
PairsOfRows(m) == {Pair(<<y>>, MappingRow(m, y)) : y \in FlatA} \cup ManyOnB(m)

UniqueMappingPairs(m) == OneToOne(m) \cup ManyOnA(m) \cup ManyOnB(m)

-----------------------------------------------------------------------------
Add(y, x) ==
  /\ NextOrder(matrix, y, x) <= MaxOrder
  /\ matrix' = SetNext(matrix, y, x)

(* No row or column has a number twice, whatever is added in what order,   *)
(* also twice in one place: sorting by number (which need not be stable)   *)
(* has one result, the order in which parts are concatenated.              *)
OrderIsDecided ==
  \A c, d \in FlatA \X FlatB :
    matrix[c] > 0 /\ matrix[c] = matrix[d] /\ c # d => c[1] # d[1] /\ c[2] # d[2]

(* A part that meets several others is not met by several in its turn.     *)
Star(m) ==
  \A y \in FlatA, x \in FlatB :
    m[<<y, x>>] > 0 => Len(MappingRow(m, y)) = 1 \/ Len(MappingColumn(m, x)) = 1

(* Every connection of a matrix without many-to-many parts is in one       *)
(* mapping pair: nothing is left unassigned and nothing assigned twice.    *)
PairsPartition ==
  Star(matrix) =>
    \A y \in FlatA, x \in FlatB :
      Cardinality({p \in UniqueMappingPairs(matrix) :
                     y \in ToSet(p.a) /\ x \in ToSet(p.b)})
        = IF matrix[<<y, x>>] > 0 THEN 1 ELSE 0
=============================================================================
