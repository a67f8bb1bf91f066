------------------------------ MODULE TypesProofs ------------------------------
(***************************************************************************)
(* What types promise for any number of parts, types and mappers: the      *)
(* numbers in a mapping matrix decide the order of parts; a type has one   *)
(* mapper to each other type at most; and, for ordinary clients, types     *)
(* convert both ways, mappers fit the types they are between, and the two  *)
(* directions agree.                                                       *)
(*                                                                         *)
(* Flatten, IsEqual and CopyOrder go down into the types of the fields.    *)
(* That such functions exist, and what they are, is proved along the depth *)
(* of types (RankRecursion), which is there as no type is inside itself;   *)
(* every step a client takes keeps that. The loops over mappers and over   *)
(* types to copy are sequences of states of which the last is the result.  *)
(* That such a sequence exists at all has to be shown for each of them     *)
(* (the steps 1 to 6), as a lemma cannot take an operator.                 *)
(***************************************************************************)
EXTENDS PortMaps, TypeMappers, Induction, SequenceTheorems

(* What Add keeps: numbers within the bound, none twice in a row or column.*)
OrdersInv == matrix \in [FlatA \X FlatB -> 0..MaxOrder] /\ OrderIsDecided

(* The number that is next is larger than all in its row and column.       *)
LEMMA NextOrderFacts ==
  ASSUME OrdersInv, NEW y \in FlatA, NEW x \in FlatB
  PROVE  /\ NextOrder(matrix, y, x) \in Nat
         /\ \A r \in FlatA : matrix[<<r, x>>] < NextOrder(matrix, y, x)
         /\ \A c \in FlatB : matrix[<<y, c>>] < NextOrder(matrix, y, x)
<1> DEFINE S == {matrix[<<r, x>>] : r \in FlatA} \cup {matrix[<<y, c>>] : c \in FlatB}
<1>1. MaxOrder \in Nat /\ \A r \in FlatA, c \in FlatB : matrix[<<r, c>>] \in 0..MaxOrder
  BY MatrixAssumption DEF OrdersInv
<1>2. S # {} /\ \A n \in S : n \in Nat /\ n <= MaxOrder
  <2>1. matrix[<<y, x>>] \in S
    OBVIOUS
  <2>2. \A r \in FlatA : matrix[<<r, x>>] \in Nat /\ matrix[<<r, x>>] <= MaxOrder
    BY <1>1
  <2>3. \A c \in FlatB : matrix[<<y, c>>] \in Nat /\ matrix[<<y, c>>] <= MaxOrder
    BY <1>1
  <2> QED
    BY <2>1, <2>2, <2>3
<1>3. NextOrder(matrix, y, x) = 1 + Max(S)
  BY DEF NextOrder
<1>4. \A r \in FlatA : matrix[<<r, x>>] \in S
  OBVIOUS
<1>5. \A c \in FlatB : matrix[<<y, c>>] \in S
  OBVIOUS
<1> HIDE DEF S
<1>6. Max(S) \in S /\ \A n \in S : Max(S) >= n
  BY <1>1, <1>2, MaxFacts
<1>7. Max(S) \in Nat
  BY <1>2, <1>6
<1>8. \A n \in S : n < 1 + Max(S)
  BY <1>2, <1>6, <1>7
<1>9. 1 + Max(S) \in Nat
  BY <1>7
<1> QED
  BY <1>3, <1>4, <1>5, <1>8, <1>9

(* Adding a connection: whatever is in its row and column is smaller.      *)
LEMMA AddDecides ==
  ASSUME OrdersInv, NEW y \in FlatA, NEW x \in FlatB, Add(y, x)
  PROVE  OrdersInv'
<1> DEFINE at == <<y, x>>
           n == NextOrder(matrix, y, x)
<1>1. at \in FlatA \X FlatB
  OBVIOUS
<1>2. /\ matrix' = [matrix EXCEPT ![at] = n]
      /\ n <= MaxOrder
  BY DEF Add, SetNext
<1>3. /\ n \in Nat
      /\ \A r \in FlatA : matrix[<<r, x>>] < n
      /\ \A c \in FlatB : matrix[<<y, c>>] < n
  BY NextOrderFacts
<1> HIDE DEF n
<1>4. MaxOrder \in Nat /\ matrix \in [FlatA \X FlatB -> 0..MaxOrder]
  BY MatrixAssumption DEF OrdersInv
<1> HIDE DEF at
<1>5. n \in 0..MaxOrder
  BY <1>2, <1>3, <1>4
<1>6. /\ matrix' \in [FlatA \X FlatB -> 0..MaxOrder]
      /\ matrix'[at] = n
      /\ \A c \in FlatA \X FlatB : c # at => matrix'[c] = matrix[c]
  BY <1>1, <1>2, <1>4, <1>5
<1>7. ASSUME NEW c \in FlatA \X FlatB, c[1] = y \/ c[2] = x PROVE matrix[c] < n
  BY <1>3, <1>7
<1>8. ASSUME NEW c \in FlatA \X FlatB, NEW d \in FlatA \X FlatB,
             matrix'[c] > 0, matrix'[c] = matrix'[d], c # d
      PROVE  c[1] # d[1] /\ c[2] # d[2]
  <2>1. at[1] = y /\ at[2] = x
    BY DEF at
  <2>2. \A e \in FlatA \X FlatB : matrix[e] \in Nat
    BY <1>4
  <2>3. CASE c = at
    <3>1. matrix[d] = n
      BY <1>6, <1>8, <2>3
    <3>2. ~ (matrix[d] < n)
      BY <1>3, <3>1
    <3> QED
      BY <1>7, <2>1, <2>3, <3>2
  <2>4. CASE d = at
    <3>1. matrix[c] = n
      BY <1>6, <1>8, <2>4
    <3>2. ~ (matrix[c] < n)
      BY <1>3, <3>1
    <3> QED
      BY <1>7, <2>1, <2>4, <3>2
  <2>5. CASE c # at /\ d # at
    <3>1. matrix[c] > 0 /\ matrix[c] = matrix[d]
      BY <1>6, <1>8, <2>5
    <3> QED
      BY <1>8, <3>1 DEF OrdersInv, OrderIsDecided
  <2> QED
    BY <2>3, <2>4, <2>5
<1> QED
  BY <1>6, <1>8 DEF OrdersInv, OrderIsDecided

(* Parts are concatenated in one order, whatever was added in what order   *)
(* (TypeMappingMatrix::SetNext, GetUniqueMappingPairs).                    *)
THEOREM OrdersDecided == PortMapsSpec => []OrderIsDecided
<1>1. PortMapsInit => OrdersInv
  BY MatrixAssumption DEF PortMapsInit, Empty, OrdersInv, OrderIsDecided
<1>2. OrdersInv /\ [PortMapsNext]_portMapVars => OrdersInv'
  <2> SUFFICES ASSUME OrdersInv, [PortMapsNext]_portMapVars PROVE OrdersInv'
    OBVIOUS
  <2>1. CASE PortMapsNext
    BY <2>1, AddDecides DEF PortMapsNext
  <2>2. CASE UNCHANGED portMapVars
    BY <2>2 DEF portMapVars, OrdersInv, OrderIsDecided
  <2> QED
    BY <2>1, <2>2
<1>3. OrdersInv => OrderIsDecided
  BY DEF OrdersInv
<1> QED
  BY <1>1, <1>2, <1>3, PTL DEF PortMapsSpec

-----------------------------------------------------------------------------
(* What types are made of. A field has a type and a direction.             *)
Field == [type : AnyType, reverse : BOOLEAN]

(* The types are such that nothing is inside itself.                       *)
Depths(ts, B, depth) ==
  /\ B \in Nat /\ depth \in [AnyType -> 0..B]
  /\ \A u \in AnyType :
       /\ ts[u].fields \in Seq(Field)
       /\ \A k \in 1..Len(ts[u].fields) : depth[ts[u].fields[k].type] < depth[u]

(* The function of Flatten, for all types and directions.                  *)
FlatBody(ts, flat) == [u \in AnyType |-> [inv \in BOOLEAN |->
        <<[type |-> u, reverse |-> inv]>> \o
        FlattenSeq([k \in DOMAIN ts[u].fields |->
          flat[ts[u].fields[k].type][inv # ts[u].fields[k].reverse]])]]
FlatOf(ts) == CHOOSE flat : flat = FlatBody(ts, flat)

(* What the fields of a type are flattened to.                             *)
FieldFlats(ts, flat, u, inv) ==
  [k \in 1..Len(ts[u].fields) |-> flat[ts[u].fields[k].type][inv # ts[u].fields[k].reverse]]

(* What the function of Flatten makes of a type, from what it has for the  *)
(* types of its fields.                                                    *)
LEMMA FlatStep ==
  ASSUME NEW ts, NEW flat \in [AnyType -> [BOOLEAN -> Seq(Field)]], NEW u \in AnyType,
         ts[u].fields \in Seq(Field)
  PROVE  /\ \A inv \in BOOLEAN :
              /\ FieldFlats(ts, flat, u, inv) \in Seq(Seq(Field))
              /\ Len(FieldFlats(ts, flat, u, inv)) = Len(ts[u].fields)
              /\ FlatBody(ts, flat)[u][inv] =
                   <<[type |-> u, reverse |-> inv]>> \o FlattenSeq(FieldFlats(ts, flat, u, inv))
         /\ FlatBody(ts, flat)[u] \in [BOOLEAN -> Seq(Field)]
<1> DEFINE fs == ts[u].fields
           n == Len(fs)
           one(inv) == <<[type |-> u, reverse |-> inv]>>
           ss(inv) == FieldFlats(ts, flat, u, inv)
<1>1. n \in Nat /\ DOMAIN fs = 1..n /\ \A k \in 1..n : fs[k] \in Field /\ fs[k].type \in AnyType /\ fs[k].reverse \in BOOLEAN
  <2>1. n \in Nat /\ DOMAIN fs = 1..n /\ \A k \in 1..n : fs[k] \in Field
    BY LenProperties, ElementOfSeq
  <2>2. \A x \in Field : x.type \in AnyType /\ x.reverse \in BOOLEAN
    BY DEF Field
  <2> QED
    BY <2>1, <2>2
<1>2. ASSUME NEW inv \in BOOLEAN PROVE ss(inv) \in Seq(Seq(Field)) /\ Len(ss(inv)) = n
  <2>1. \A k \in 1..n : flat[fs[k].type][inv # fs[k].reverse] \in Seq(Field)
    BY <1>1
  <2>2. ss(inv) = [k \in 1..n |-> flat[fs[k].type][inv # fs[k].reverse]]
    BY DEF FieldFlats
  <2> HIDE DEF ss, n
  <2> DEFINE x(k) == flat[fs[k].type][inv # fs[k].reverse]
  <2>3. \A k \in 1..n : x(k) \in Seq(Field)
    BY <2>1
  <2> HIDE DEF x
  <2>4. [k \in 1..n |-> x(k)] \in Seq(Seq(Field)) /\ Len([k \in 1..n |-> x(k)]) = n
    BY <1>1, <2>3
  <2> QED
    BY <2>2, <2>4 DEF x
<1>3. \A inv \in BOOLEAN : one(inv) \in Seq(Field)
  <2>1. \A inv \in BOOLEAN : [type |-> u, reverse |-> inv] \in Field
    BY DEF Field
  <2> QED
    BY <2>1
<1>4. ASSUME NEW inv \in BOOLEAN
      PROVE  FlatBody(ts, flat)[u][inv] = one(inv) \o FlattenSeq(ss(inv)) /\ one(inv) \o FlattenSeq(ss(inv)) \in Seq(Field)
  <2>1. ss(inv) = [k \in DOMAIN fs |-> flat[fs[k].type][inv # fs[k].reverse]]
    BY <1>1 DEF FieldFlats
  <2>2. FlattenSeq(ss(inv)) \in Seq(Field)
    <3> DEFINE q == ss(inv)
    <3>1. q \in Seq(Seq(Field)) /\ Len(q) = Len(q)
      BY <1>2
    <3> HIDE DEF q
    <3>2. FlattenSeq(q) \in Seq(Field)
      BY <3>1, FlattenFacts
    <3> QED
      BY <3>2 DEF q
  <2>3. FlatBody(ts, flat)[u][inv] = one(inv) \o FlattenSeq([k \in DOMAIN fs |-> flat[fs[k].type][inv # fs[k].reverse]])
    BY DEF FlatBody
  <2> HIDE DEF ss, one
  <2>4. one(inv) \o FlattenSeq(ss(inv)) \in Seq(Field)
    BY <1>3, <2>2, ConcatFacts
  <2> QED
    BY <2>1, <2>3, <2>4
<1>5. FlatBody(ts, flat)[u] \in [BOOLEAN -> Seq(Field)]
  <2>1. FlatBody(ts, flat)[u] = [inv \in BOOLEAN |->
          <<[type |-> u, reverse |-> inv]>> \o
          FlattenSeq([k \in DOMAIN ts[u].fields |-> flat[ts[u].fields[k].type][inv # ts[u].fields[k].reverse]])]
    BY DEF FlatBody
  <2> DEFINE y(inv) == <<[type |-> u, reverse |-> inv]>> \o
          FlattenSeq([k \in DOMAIN ts[u].fields |-> flat[ts[u].fields[k].type][inv # ts[u].fields[k].reverse]])
  <2>2. FlatBody(ts, flat)[u] = [inv \in BOOLEAN |-> y(inv)]
    BY <2>1
  <2> HIDE DEF y
  <2>3. \A inv \in BOOLEAN : y(inv) \in Seq(Field)
    BY <1>4, <2>2
  <2> QED
    BY <2>2, <2>3
<1> QED
  BY <1>2, <1>4, <1>5

(* Two functions have the same for the fields of a type.                   *)
SameBelow(ts, u, f, g) ==
  \A k \in 1..Len(ts[u].fields) : f[ts[u].fields[k].type] = g[ts[u].fields[k].type]

(* It looks at the types of the fields only.                               *)
LEMMA FlatLocal ==
  ASSUME NEW ts, NEW f, NEW g, NEW u, u \in AnyType,
         ts[u].fields \in Seq(Field), SameBelow(ts, u, f, g)
  PROVE  FlatBody(ts, f)[u] = FlatBody(ts, g)[u]
<1> DEFINE x(h, inv) == [k \in DOMAIN ts[u].fields |->
                          h[ts[u].fields[k].type][inv # ts[u].fields[k].reverse]]
           one(inv) == <<[type |-> u, reverse |-> inv]>>
<1>1. DOMAIN ts[u].fields = 1..Len(ts[u].fields)
  BY LenProperties
<1>2. \A inv \in BOOLEAN : x(f, inv) = x(g, inv)
  BY <1>1 DEF SameBelow
<1>3. \A h : FlatBody(ts, h)[u] = [inv \in BOOLEAN |-> one(inv) \o FlattenSeq(x(h, inv))]
  BY DEF FlatBody
<1> HIDE DEF x, one
<1>4. \A inv \in BOOLEAN : one(inv) \o FlattenSeq(x(f, inv)) = one(inv) \o FlattenSeq(x(g, inv))
  BY <1>2
<1> QED
  BY <1>3, <1>4

(* So it exists: the depth of a type is a rank to define it along.         *)
LEMMA FlatExists ==
  ASSUME NEW ts, NEW B, NEW depth, Depths(ts, B, depth)
  PROVE  /\ FlatOf(ts) = FlatBody(ts, FlatOf(ts))
         /\ FlatOf(ts) \in [AnyType -> [BOOLEAN -> Seq(Field)]]
<1> DEFINE V == [BOOLEAN -> Seq(Field)]
           S == [AnyType -> V]
           F == [f \in S |-> FlatBody(ts, f)]
           flat == FlatOf(ts)
<1>1. /\ B \in Nat /\ depth \in [AnyType -> 0..B]
      /\ \A u \in AnyType :
           /\ ts[u].fields \in Seq(Field)
           /\ \A k \in 1..Len(ts[u].fields) : depth[ts[u].fields[k].type] < depth[u]
                                              /\ ts[u].fields[k].type \in AnyType
  <2>1. \A u \in AnyType : ts[u].fields \in Seq(Field)
    BY DEF Depths
  <2>2. \A u \in AnyType : \A k \in 1..Len(ts[u].fields) : ts[u].fields[k] \in Field
    BY <2>1, ElementOfSeq
  <2>3. \A x \in Field : x.type \in AnyType
    BY DEF Field
  <2> QED
    BY <2>1, <2>2, <2>3 DEF Depths
<1>2. \A f \in S : \A u \in AnyType : FlatBody(ts, f)[u] \in V
  BY <1>1, FlatStep
<1>3. \A f : FlatBody(ts, f) = [u \in AnyType |-> FlatBody(ts, f)[u]]
  BY DEF FlatBody
<1> HIDE DEF V
<1>4. \A f \in S : FlatBody(ts, f) \in S
  BY <1>2, <1>3
<1>5. F \in [S -> S] /\ \A f \in S : F[f] = FlatBody(ts, f)
  BY <1>4
<1>6. V # {}
  <2>1. [inv \in BOOLEAN |-> << >>] \in V
    BY EmptySeq DEF V
  <2> QED
    BY <2>1
<1>7. \A f, g \in S : \A u \in AnyType :
        (\A x \in AnyType : depth[x] < depth[u] => f[x] = g[x]) => FlatBody(ts, f)[u] = FlatBody(ts, g)[u]
  <2> SUFFICES ASSUME NEW f \in S, NEW g \in S, NEW u \in AnyType,
                      \A x \in AnyType : depth[x] < depth[u] => f[x] = g[x]
               PROVE  FlatBody(ts, f)[u] = FlatBody(ts, g)[u]
    OBVIOUS
  <2>1. SameBelow(ts, u, f, g)
    BY <1>1 DEF SameBelow
  <2>2. ts[u].fields \in Seq(Field)
    BY <1>1
  <2> QED
    BY <2>1, <2>2, FlatLocal
<1>8. \E h \in S : F[h] = h
  <2>1. \A f, g \in S : \A u \in AnyType :
          (\A x \in AnyType : depth[x] < depth[u] => f[x] = g[x]) => F[f][u] = F[g][u]
    BY <1>5, <1>7
  <2>2. F \in [[AnyType -> V] -> [AnyType -> V]]
    BY <1>5
  <2>3. B \in Nat /\ depth \in [AnyType -> 0..B]
    BY <1>1
  <2> HIDE DEF F
  <2>4. \A f, g \in [AnyType -> V] : \A u \in AnyType :
          (\A x \in AnyType : depth[x] < depth[u] => f[x] = g[x]) => F[f][u] = F[g][u]
    BY <2>1
  <2>5. \E h \in [AnyType -> V] : F[h] = h
    <3>1. LooksBelow(F, AnyType, V, B, depth)
      BY <1>6, <2>2, <2>3, <2>4 DEF LooksBelow
    <3> QED
      BY ONLY <3>1, RankRecursion
  <2> QED
    BY <2>5
<1>9. flat = FlatBody(ts, flat)
  <2>1. \E h : h = FlatBody(ts, h)
    BY <1>5, <1>8
  <2> QED
    BY <2>1 DEF FlatOf
<1> HIDE DEF flat, F
<1>10. flat \in S
  <2>1. PICK h \in S : h = FlatBody(ts, h)
    BY <1>5, <1>8
  <2> DEFINE Good == {u \in AnyType : flat[u] = h[u]}
  <2>2. ASSUME NEW u \in AnyType, \A x \in AnyType : depth[x] < depth[u] => x \in Good
        PROVE  u \in Good
    <3> DEFINE e == [x \in AnyType |-> IF x \in Good THEN flat[x] ELSE h[x]]
    <3>1. e = h
      BY <2>1
    <3>2. \A k \in 1..Len(ts[u].fields) : flat[ts[u].fields[k].type] = h[ts[u].fields[k].type]
      BY <1>1, <2>2
    <3>3. FlatBody(ts, flat)[u] = FlatBody(ts, h)[u]
      <4>1. ts[u].fields \in Seq(Field) /\ SameBelow(ts, u, flat, h)
        BY <1>1, <3>2 DEF SameBelow
      <4> QED
        BY <4>1, FlatLocal
    <3> QED
      BY <1>9, <2>1, <3>3
  <2> HIDE DEF Good
  <2>3. depth \in [AnyType -> Nat]
    BY <1>1
  <2>4. \A u \in AnyType : u \in Good
    BY <2>2, <2>3, RankInduction
  <2>5. flat = [u \in AnyType |-> flat[u]]
    BY <1>3, <1>9
  <2> QED
    BY <2>1, <2>4, <2>5 DEF Good
<1> QED
  BY <1>9, <1>10 DEF flat, V

(* Flatten is that function, taken in the direction of the type.           *)
LEMMA FlattenIsFlat ==
  ASSUME NEW ts, NEW t
  PROVE  Flatten(ts, t) = FlatOf(ts)[t][FALSE]
BY DEF Flatten, FlatOf, FlatBody

Founded(ts) == \E B, depth : Depths(ts, B, depth)

(* The fields of a type.                                                   *)
LEMMA FieldFacts ==
  ASSUME NEW ts, Founded(ts), NEW u \in AnyType
  PROVE  /\ ts[u].fields \in Seq(Field) /\ Len(ts[u].fields) \in Nat
         /\ DOMAIN ts[u].fields = 1..Len(ts[u].fields)
         /\ \A k \in 1..Len(ts[u].fields) :
              ts[u].fields[k] \in Field /\ ts[u].fields[k].type \in AnyType
              /\ ts[u].fields[k].reverse \in BOOLEAN
<1>1. ts[u].fields \in Seq(Field)
  BY DEF Founded, Depths
<1>2. \A x \in Field : x.type \in AnyType /\ x.reverse \in BOOLEAN
  BY DEF Field
<1>3. /\ Len(ts[u].fields) \in Nat /\ DOMAIN ts[u].fields = 1..Len(ts[u].fields)
      /\ \A k \in 1..Len(ts[u].fields) : ts[u].fields[k] \in Field
  BY <1>1, LenProperties, ElementOfSeq
<1> QED
  BY <1>1, <1>2, <1>3

(* Induction over types from the inside out.                               *)
LEMMA TypeInduction ==
  ASSUME NEW ts, Founded(ts), NEW Good,
         \A u \in AnyType :
           (\A k \in 1..Len(ts[u].fields) : ts[u].fields[k].type \in Good) => u \in Good
  PROVE  \A u \in AnyType : u \in Good
<1>1. PICK B, depth : Depths(ts, B, depth)
  BY DEF Founded
<1>2. depth \in [AnyType -> Nat]
  BY <1>1 DEF Depths
<1>3. \A u \in AnyType : (\A x \in AnyType : depth[x] < depth[u] => x \in Good) => u \in Good
  <2> SUFFICES ASSUME NEW u \in AnyType, \A x \in AnyType : depth[x] < depth[u] => x \in Good
               PROVE  u \in Good
    OBVIOUS
  <2>1. \A k \in 1..Len(ts[u].fields) : ts[u].fields[k].type \in AnyType
    BY FieldFacts
  <2>2. \A k \in 1..Len(ts[u].fields) : depth[ts[u].fields[k].type] < depth[u]
    BY <1>1 DEF Depths
  <2> QED
    BY <2>1, <2>2
<1> QED
  BY <1>2, <1>3, RankInduction

(* Flattening a type puts it before what its fields are flattened to.      *)
Unfolds(ts, u, inv) ==
  LET ss == FieldFlats(ts, FlatOf(ts), u, inv)
  IN  /\ ss \in Seq(Seq(Field)) /\ Len(ss) = Len(ts[u].fields)
      /\ \A k \in 1..Len(ts[u].fields) :
           ss[k] = FlatOf(ts)[ts[u].fields[k].type][inv # ts[u].fields[k].reverse]
      /\ FlatOf(ts)[u][inv] = <<[type |-> u, reverse |-> inv]>> \o FlattenSeq(ss)
      /\ FlatOf(ts)[u][inv] \in Seq(Field)

(* The parts of any type, in terms of those of its fields.                 *)
LEMMA FlatUnfolds ==
  ASSUME NEW ts, Founded(ts), NEW u \in AnyType, NEW inv \in BOOLEAN
  PROVE  Unfolds(ts, u, inv)
<1>1. PICK B, depth : Depths(ts, B, depth)
  BY DEF Founded
<1> DEFINE flat == FlatOf(ts)
<1>2. flat = FlatBody(ts, flat) /\ flat \in [AnyType -> [BOOLEAN -> Seq(Field)]]
  BY <1>1, FlatExists
<1>3. ts[u].fields \in Seq(Field)
  BY FieldFacts
<1>4. \A k \in 1..Len(ts[u].fields) : FieldFlats(ts, flat, u, inv)[k] =
        flat[ts[u].fields[k].type][inv # ts[u].fields[k].reverse]
  BY DEF FieldFlats
<1> HIDE DEF flat
<1>5. /\ FieldFlats(ts, flat, u, inv) \in Seq(Seq(Field))
      /\ Len(FieldFlats(ts, flat, u, inv)) = Len(ts[u].fields)
      /\ FlatBody(ts, flat)[u][inv] =
           <<[type |-> u, reverse |-> inv]>> \o FlattenSeq(FieldFlats(ts, flat, u, inv))
  BY <1>2, <1>3, FlatStep
<1>6. flat[u][inv] \in Seq(Field)
  BY <1>2
<1>7. flat[u][inv] = <<[type |-> u, reverse |-> inv]>> \o FlattenSeq(FieldFlats(ts, flat, u, inv))
  BY <1>2, <1>5
<1> QED
  BY <1>4, <1>5, <1>6, <1>7 DEF flat, Unfolds

(* The types in a list of parts.                                           *)
TypesIn(parts) == {p.type : p \in Listed(parts)}

(* The same for the types of the parts.                                    *)
LEMMA TypesInFlat ==
  ASSUME NEW ts, Founded(ts), NEW u \in AnyType, NEW inv \in BOOLEAN
  PROVE  TypesIn(FlatOf(ts)[u][inv]) =
           {u} \cup UNION {TypesIn(FlatOf(ts)[ts[u].fields[k].type][inv # ts[u].fields[k].reverse]) :
                             k \in 1..Len(ts[u].fields)}
<1> DEFINE ss == FieldFlats(ts, FlatOf(ts), u, inv)
           n == Len(ts[u].fields)
           one == <<[type |-> u, reverse |-> inv]>>
           x(k) == FlatOf(ts)[ts[u].fields[k].type][inv # ts[u].fields[k].reverse]
<1>1. /\ ss \in Seq(Seq(Field)) /\ Len(ss) = n
      /\ \A k \in 1..n : ss[k] = x(k)
      /\ FlatOf(ts)[u][inv] = one \o FlattenSeq(ss)
  <2>1. Unfolds(ts, u, inv)
    BY FlatUnfolds
  <2> QED
    BY <2>1 DEF Unfolds
<1>2. [type |-> u, reverse |-> inv] \in Field
  BY DEF Field
<1>3. one \in Seq(Field) /\ Listed(one) = {[type |-> u, reverse |-> inv]}
  BY <1>2 DEF Listed
<1> HIDE DEF ss, one, x, n
<1>4. FlattenSeq(ss) \in Seq(Field) /\ Listed(FlattenSeq(ss)) = AllListed(ss, n)
  BY <1>1, FlattenFacts
<1>5. Listed(FlatOf(ts)[u][inv]) = {[type |-> u, reverse |-> inv]} \cup AllListed(ss, n)
  BY <1>1, <1>3, <1>4, ConcatFacts
<1>6. AllListed(ss, n) = UNION {Listed(x(k)) : k \in 1..n}
  BY <1>1 DEF AllListed
<1>7. TypesIn(FlatOf(ts)[u][inv]) = {u} \cup {p.type : p \in AllListed(ss, n)}
  <2> DEFINE e == [type |-> u, reverse |-> inv]
             L == AllListed(ss, n)
             K == Listed(FlatOf(ts)[u][inv])
  <2>1. e.type = u
    OBVIOUS
  <2>2. K = {e} \cup L
    BY <1>5
  <2> HIDE DEF e, L, K
  <2>3. {p.type : p \in K} = {u} \cup {p.type : p \in L}
    BY <2>1, <2>2
  <2> QED
    BY <2>3 DEF TypesIn, K, L
<1>8. {p.type : p \in AllListed(ss, n)} = UNION {TypesIn(x(k)) : k \in 1..n}
  BY <1>6 DEF TypesIn
<1> QED
  BY <1>7, <1>8 DEF x, n

(* The direction does not matter to them.                                  *)
LEMMA TypesInEither ==
  ASSUME NEW ts, Founded(ts)
  PROVE  \A u \in AnyType : TypesIn(FlatOf(ts)[u][TRUE]) = TypesIn(FlatOf(ts)[u][FALSE])
<1> DEFINE Good == {u \in AnyType : TypesIn(FlatOf(ts)[u][TRUE]) = TypesIn(FlatOf(ts)[u][FALSE])}
<1>1. ASSUME NEW u \in AnyType,
             \A k \in 1..Len(ts[u].fields) : ts[u].fields[k].type \in Good
      PROVE  u \in Good
  <2> DEFINE x(k, inv) == TypesIn(FlatOf(ts)[ts[u].fields[k].type][inv # ts[u].fields[k].reverse])
  <2>1. \A inv \in BOOLEAN : TypesIn(FlatOf(ts)[u][inv]) =
          {u} \cup UNION {x(k, inv) : k \in 1..Len(ts[u].fields)}
    BY TypesInFlat
  <2>2. ASSUME NEW k \in 1..Len(ts[u].fields) PROVE x(k, TRUE) = x(k, FALSE)
    <3>1. ts[u].fields[k].reverse \in BOOLEAN
      BY FieldFacts
    <3>2. TypesIn(FlatOf(ts)[ts[u].fields[k].type][TRUE]) = TypesIn(FlatOf(ts)[ts[u].fields[k].type][FALSE])
      BY <1>1
    <3>3. CASE ts[u].fields[k].reverse
      <4>1. (TRUE # ts[u].fields[k].reverse) = FALSE /\ (FALSE # ts[u].fields[k].reverse) = TRUE
        BY <3>1, <3>3
      <4> QED
        BY <3>2, <4>1
    <3>4. CASE ~ ts[u].fields[k].reverse
      <4>1. (TRUE # ts[u].fields[k].reverse) = TRUE /\ (FALSE # ts[u].fields[k].reverse) = FALSE
        BY <3>1, <3>4
      <4> QED
        BY <3>2, <4>1
    <3> QED
      BY <3>3, <3>4
  <2> HIDE DEF x
  <2> QED
    BY <2>1, <2>2
<1> HIDE DEF Good
<1>2. \A u \in AnyType : u \in Good
  BY <1>1, TypeInduction
<1> QED
  BY <1>2 DEF Good

(* The parts of a type are the type and the parts of its fields.           *)
LEMMA PartsUnfold ==
  ASSUME NEW ts, Founded(ts), NEW u \in AnyType
  PROVE  PartsOf(ts, u) = {u} \cup UNION {PartsOf(ts, ts[u].fields[k].type) : k \in 1..Len(ts[u].fields)}
<1>1. ASSUME NEW v \in AnyType PROVE PartsOf(ts, v) = TypesIn(FlatOf(ts)[v][FALSE])
  <2>1. Flatten(ts, v) = FlatOf(ts)[v][FALSE]
    BY FlattenIsFlat
  <2>2. FlatOf(ts)[v][FALSE] \in Seq(Field)
    BY FlatUnfolds DEF Unfolds
  <2>3. DOMAIN FlatOf(ts)[v][FALSE] = 1..Len(FlatOf(ts)[v][FALSE])
    BY <2>2, LenProperties
  <2> QED
    BY <2>1, <2>3 DEF PartsOf, TypesIn, Listed, ToSet
<1> DEFINE x(k) == TypesIn(FlatOf(ts)[ts[u].fields[k].type][FALSE # ts[u].fields[k].reverse])
           y(k) == PartsOf(ts, ts[u].fields[k].type)
<1>2. TypesIn(FlatOf(ts)[u][FALSE]) = {u} \cup UNION {x(k) : k \in 1..Len(ts[u].fields)}
  BY TypesInFlat
<1>3. ASSUME NEW k \in 1..Len(ts[u].fields) PROVE x(k) = y(k)
  <2>1. ts[u].fields[k].type \in AnyType /\ ts[u].fields[k].reverse \in BOOLEAN
    BY FieldFacts
  <2> DEFINE v == ts[u].fields[k].type
             r == ts[u].fields[k].reverse
  <2> HIDE DEF v, r
  <2>2. x(k) = TypesIn(FlatOf(ts)[v][FALSE # r])
    BY DEF v, r
  <2>3. v \in AnyType /\ r \in BOOLEAN
    BY <2>1 DEF v, r
  <2>4. TypesIn(FlatOf(ts)[v][TRUE]) = TypesIn(FlatOf(ts)[v][FALSE])
    BY <2>3, TypesInEither
  <2>5. PartsOf(ts, v) = TypesIn(FlatOf(ts)[v][FALSE])
    BY <1>1, <2>3
  <2>6. TypesIn(FlatOf(ts)[v][FALSE # r]) = TypesIn(FlatOf(ts)[v][FALSE])
    <3>1. CASE r
      <4>1. (FALSE # r) = TRUE
        BY <2>3, <3>1
      <4> QED
        BY <2>4, <4>1
    <3>2. CASE ~ r
      <4>1. (FALSE # r) = FALSE
        BY <2>3, <3>2
      <4> QED
        BY <4>1
    <3> QED
      BY <3>1, <3>2
  <2> QED
    BY <2>2, <2>5, <2>6 DEF v
<1> HIDE DEF x, y
<1>4. PartsOf(ts, u) = {u} \cup UNION {y(k) : k \in 1..Len(ts[u].fields)}
  BY <1>1, <1>2, <1>3
<1> QED
  BY <1>4 DEF y

(* The fields of types in C are in C.                                      *)
ClosedIn(ts, C) ==
  C \subseteq AnyType /\ \A u \in C : \A k \in 1..Len(ts[u].fields) : ts[u].fields[k].type \in C

(* The types in C are the same, but for their mappers.                     *)
AlikeIn(ts, us, C) == \A u \in C : us[u].id = ts[u].id /\ us[u].fields = ts[u].fields

(* A set of types that has the types of all their fields has all parts.    *)
LEMMA PartsWithin ==
  ASSUME NEW ts, Founded(ts), NEW C, ClosedIn(ts, C)
  PROVE  \A u \in C : PartsOf(ts, u) \subseteq C
<1> DEFINE Good == {u \in AnyType : u \in C => PartsOf(ts, u) \subseteq C}
<1>1. ASSUME NEW u \in AnyType,
             \A k \in 1..Len(ts[u].fields) : ts[u].fields[k].type \in Good
      PROVE  u \in Good
  <2> SUFFICES ASSUME u \in C PROVE PartsOf(ts, u) \subseteq C
    OBVIOUS
  <2>1. \A k \in 1..Len(ts[u].fields) : ts[u].fields[k].type \in C
    BY DEF ClosedIn
  <2>2. \A k \in 1..Len(ts[u].fields) : PartsOf(ts, ts[u].fields[k].type) \subseteq C
    BY <1>1, <2>1
  <2>3. PartsOf(ts, u) = {u} \cup UNION {PartsOf(ts, ts[u].fields[k].type) : k \in 1..Len(ts[u].fields)}
    BY PartsUnfold
  <2> QED
    BY <2>2, <2>3
<1> HIDE DEF Good
<1>2. \A u \in AnyType : u \in Good
  BY <1>1, TypeInduction
<1> QED
  BY <1>2 DEF Good, ClosedIn

(* Flattening depends on nothing outside a type.                           *)
LEMMA FlatAlike ==
  ASSUME NEW ts, Founded(ts), NEW us, Founded(us), NEW C, ClosedIn(ts, C), AlikeIn(ts, us, C)
  PROVE  \A u \in C : FlatOf(us)[u] = FlatOf(ts)[u]
<1> DEFINE Good == {u \in AnyType : u \in C => FlatOf(us)[u] = FlatOf(ts)[u]}
<1>1. ASSUME NEW u \in AnyType,
             \A k \in 1..Len(ts[u].fields) : ts[u].fields[k].type \in Good
      PROVE  u \in Good
  <2> SUFFICES ASSUME u \in C PROVE FlatOf(us)[u] = FlatOf(ts)[u]
    OBVIOUS
  <2>1. \A k \in 1..Len(ts[u].fields) : ts[u].fields[k].type \in C
    BY DEF ClosedIn
  <2>2. \A k \in 1..Len(ts[u].fields) : FlatOf(us)[ts[u].fields[k].type] = FlatOf(ts)[ts[u].fields[k].type]
    BY <1>1, <2>1
  <2>3. us[u].fields = ts[u].fields
    BY DEF AlikeIn
  <2>4. SameBelow(ts, u, FlatOf(us), FlatOf(ts)) /\ ts[u].fields \in Seq(Field)
    BY <2>2, FieldFacts DEF SameBelow
  <2>5. FlatBody(ts, FlatOf(us))[u] = FlatBody(ts, FlatOf(ts))[u]
    BY <2>4, FlatLocal
  <2>6. FlatBody(us, FlatOf(us))[u] = FlatBody(ts, FlatOf(us))[u]
    <3> HIDE DEF Good
    <3> QED
      BY <2>3 DEF FlatBody
  <2>7. FlatOf(us) = FlatBody(us, FlatOf(us)) /\ FlatOf(ts) = FlatBody(ts, FlatOf(ts))
    BY FlatExists DEF Founded
  <2> QED
    BY <2>5, <2>6, <2>7
<1> HIDE DEF Good
<1>2. \A u \in AnyType : u \in Good
  BY <1>1, TypeInduction
<1> QED
  BY <1>2 DEF Good, ClosedIn

(* Types that are alike in such a set have the same parts.                 *)
LEMMA FlattenAlike ==
  ASSUME NEW ts, Founded(ts), NEW us, Founded(us), NEW C, ClosedIn(ts, C), AlikeIn(ts, us, C),
         NEW u \in C
  PROVE  /\ Flatten(us, u) = Flatten(ts, u) /\ PartsOf(us, u) = PartsOf(ts, u)
         /\ IsGeneric(us, u) <=> IsGeneric(ts, u)
<1>1. Flatten(us, u) = Flatten(ts, u)
  BY FlatAlike, FlattenIsFlat
<1>2. PartsOf(us, u) = PartsOf(ts, u)
  BY <1>1 DEF PartsOf
<1>3. PartsOf(ts, u) \subseteq C
  BY PartsWithin
<1>4. IsGeneric(us, u) <=> IsGeneric(ts, u)
  BY <1>2, <1>3 DEF IsGeneric, AlikeIn
<1> QED
  BY <1>1, <1>2, <1>4

-----------------------------------------------------------------------------
(* The function of IsEqual.                                                *)
EqualBody(ts, equal) == [v \in AnyType |-> [w \in AnyType |->
        /\ ts[v].id = ts[w].id
        /\ v = w \/ ts[v].id # "record" \/
             /\ Len(ts[v].fields) = Len(ts[w].fields)
             /\ \A k \in DOMAIN ts[v].fields :
                  /\ ts[v].fields[k].reverse = ts[w].fields[k].reverse
                  /\ equal[ts[v].fields[k].type][ts[w].fields[k].type]]]
EqualOf(ts) == CHOOSE equal : equal = EqualBody(ts, equal)

(* IsEqual is that function.                                               *)
LEMMA EqualIsOf ==
  ASSUME NEW ts, NEW t, NEW u
  PROVE  IsEqual(ts, t, u) <=> EqualOf(ts)[t][u]
BY DEF IsEqual, EqualOf, EqualBody

(* It looks at the types of the fields only.                               *)
LEMMA EqualLocal ==
  ASSUME NEW ts, NEW f, NEW g, NEW v, v \in AnyType, ts[v].fields \in Seq(Field), SameBelow(ts, v, f, g)
  PROVE  EqualBody(ts, f)[v] = EqualBody(ts, g)[v]
<1> DEFINE x(h, w) == \A k \in DOMAIN ts[v].fields :
                        /\ ts[v].fields[k].reverse = ts[w].fields[k].reverse
                        /\ h[ts[v].fields[k].type][ts[w].fields[k].type]
<1>1. DOMAIN ts[v].fields = 1..Len(ts[v].fields)
  BY LenProperties
<1>2. \A w \in AnyType : x(f, w) = x(g, w)
  BY <1>1 DEF SameBelow
<1>3. \A h : EqualBody(ts, h)[v] = [w \in AnyType |->
         /\ ts[v].id = ts[w].id
         /\ v = w \/ ts[v].id # "record" \/ (Len(ts[v].fields) = Len(ts[w].fields) /\ x(h, w))]
  BY DEF EqualBody
<1> DEFINE y(h, w) == /\ ts[v].id = ts[w].id
                      /\ v = w \/ ts[v].id # "record" \/ (Len(ts[v].fields) = Len(ts[w].fields) /\ x(h, w))
<1> HIDE DEF x
<1>4. \A w \in AnyType : y(f, w) = y(g, w)
  BY <1>2
<1>5. \A h : EqualBody(ts, h)[v] = [w \in AnyType |-> y(h, w)]
  BY <1>3
<1> HIDE DEF y
<1> QED
  BY <1>4, <1>5

(* So it exists, as Flatten does.                                          *)
LEMMA EqualExists ==
  ASSUME NEW ts, Founded(ts)
  PROVE  /\ EqualOf(ts) = EqualBody(ts, EqualOf(ts))
<1> DEFINE V == [AnyType -> BOOLEAN]
           S == [AnyType -> V]
           F == [f \in S |-> EqualBody(ts, f)]
<1>1. PICK B, depth : Depths(ts, B, depth)
  BY DEF Founded
<1>2. \A f : EqualBody(ts, f) \in S
  <2> SUFFICES ASSUME NEW f PROVE EqualBody(ts, f) \in S
    OBVIOUS
  <2> DEFINE x(v, w) == 
        /\ ts[v].id = ts[w].id
        /\ v = w \/ ts[v].id # "record" \/
             /\ Len(ts[v].fields) = Len(ts[w].fields)
             /\ \A k \in DOMAIN ts[v].fields :
                  /\ ts[v].fields[k].reverse = ts[w].fields[k].reverse
                  /\ f[ts[v].fields[k].type][ts[w].fields[k].type]
  <2>1. \A v, w : x(v, w) \in BOOLEAN
    OBVIOUS
  <2>2. EqualBody(ts, f) = [v \in AnyType |-> [w \in AnyType |-> x(v, w)]]
    BY DEF EqualBody
  <2> HIDE DEF x
  <2> QED
    BY <2>1, <2>2
<1>3. V # {}
  <2>1. [w \in AnyType |-> TRUE] \in V
    OBVIOUS
  <2> QED
    BY <2>1
<1> HIDE DEF V
<1>4. F \in [S -> S] /\ \A f \in S : F[f] = EqualBody(ts, f)
  BY <1>2
<1>5. \A f, g \in S : \A u \in AnyType :
        (\A x \in AnyType : depth[x] < depth[u] => f[x] = g[x]) => F[f][u] = F[g][u]
  <2> SUFFICES ASSUME NEW f \in S, NEW g \in S, NEW u \in AnyType,
                      \A x \in AnyType : depth[x] < depth[u] => f[x] = g[x]
               PROVE  EqualBody(ts, f)[u] = EqualBody(ts, g)[u]
    BY <1>4
  <2>1. \A k \in 1..Len(ts[u].fields) : ts[u].fields[k].type \in AnyType
    BY FieldFacts
  <2>2. \A k \in 1..Len(ts[u].fields) : depth[ts[u].fields[k].type] < depth[u]
    BY <1>1 DEF Depths
  <2>3. SameBelow(ts, u, f, g)
    BY <2>1, <2>2 DEF SameBelow
  <2> QED
    BY <2>3, FieldFacts, EqualLocal
<1>6. B \in Nat /\ depth \in [AnyType -> 0..B]
  BY <1>1 DEF Depths
<1>7. LooksBelow(F, AnyType, V, B, depth)
  <2> HIDE DEF F
  <2> QED
    BY <1>3, <1>4, <1>5, <1>6 DEF LooksBelow
<1>8. \E h \in S : F[h] = h
  <2> HIDE DEF F
  <2>1. \E h \in [AnyType -> V] : F[h] = h
    BY ONLY <1>7, RankRecursion
  <2> QED
    BY <2>1
<1>9. \E h : h = EqualBody(ts, h)
  BY <1>4, <1>8
<1> QED
  BY <1>9 DEF EqualOf

(* What IsEqual says, without its function.                                *)
LEMMA EqualUnfolds ==
  ASSUME NEW ts, Founded(ts), NEW v \in AnyType, NEW w \in AnyType
  PROVE  IsEqual(ts, v, w) <=>
           /\ ts[v].id = ts[w].id
           /\ v = w \/ ts[v].id # "record" \/
                /\ Len(ts[v].fields) = Len(ts[w].fields)
                /\ \A k \in 1..Len(ts[v].fields) :
                     /\ ts[v].fields[k].reverse = ts[w].fields[k].reverse
                     /\ IsEqual(ts, ts[v].fields[k].type, ts[w].fields[k].type)
<1> DEFINE equal == EqualOf(ts)
<1>1. equal = EqualBody(ts, equal)
  BY EqualExists
<1> HIDE DEF equal
<1>2. equal[v][w] = 
        /\ ts[v].id = ts[w].id
        /\ v = w \/ ts[v].id # "record" \/
             /\ Len(ts[v].fields) = Len(ts[w].fields)
             /\ \A k \in DOMAIN ts[v].fields :
                  /\ ts[v].fields[k].reverse = ts[w].fields[k].reverse
                  /\ equal[ts[v].fields[k].type][ts[w].fields[k].type]
  <2> DEFINE x(y, z) == 
             /\ Len(ts[y].fields) = Len(ts[z].fields)
             /\ \A k \in DOMAIN ts[y].fields :
                  /\ ts[y].fields[k].reverse = ts[z].fields[k].reverse
                  /\ equal[ts[y].fields[k].type][ts[z].fields[k].type]
             i(y) == ts[y].id
  <2>1. EqualBody(ts, equal) = [y \in AnyType |-> [z \in AnyType |->
           i(y) = i(z) /\ (y = z \/ i(y) # "record" \/ x(y, z))]]
    BY DEF EqualBody
  <2> HIDE DEF x, i
  <2>2. EqualBody(ts, equal)[v][w] = (i(v) = i(w) /\ (v = w \/ i(v) # "record" \/ x(v, w)))
    BY <2>1
  <2>3. equal[v][w] = (i(v) = i(w) /\ (v = w \/ i(v) # "record" \/ x(v, w)))
    BY <1>1, <2>2
  <2> QED
    BY <2>3 DEF x, i
<1>3. \A y, z : IsEqual(ts, y, z) <=> equal[y][z]
  BY EqualIsOf DEF equal
<1>4. DOMAIN ts[v].fields = 1..Len(ts[v].fields)
  BY FieldFacts
<1> QED
  BY <1>2, <1>3, <1>4

(* Types are equal both ways: the comparison of two types visits them      *)
(* together, from either side.                                             *)
LEMMA EqualSymmetric ==
  ASSUME NEW ts, Founded(ts)
  PROVE  \A v, w \in AnyType : IsEqual(ts, v, w) => IsEqual(ts, w, v)
<1> DEFINE Good == {v \in AnyType : \A w \in AnyType : IsEqual(ts, v, w) => IsEqual(ts, w, v)}
<1>1. ASSUME NEW v \in AnyType,
             \A k \in 1..Len(ts[v].fields) : ts[v].fields[k].type \in Good
      PROVE  v \in Good
  <2> SUFFICES ASSUME NEW w \in AnyType, IsEqual(ts, v, w) PROVE IsEqual(ts, w, v)
    OBVIOUS
  <2>1. /\ ts[v].id = ts[w].id
        /\ v = w \/ ts[v].id # "record" \/
             /\ Len(ts[v].fields) = Len(ts[w].fields)
             /\ \A k \in 1..Len(ts[v].fields) :
                  /\ ts[v].fields[k].reverse = ts[w].fields[k].reverse
                  /\ IsEqual(ts, ts[v].fields[k].type, ts[w].fields[k].type)
    BY EqualUnfolds
  <2>2. CASE v = w \/ ts[v].id # "record"
    <3>1. w = v \/ ts[w].id # "record"
      BY <2>1, <2>2
    <3> QED
      BY <2>1, <3>1, EqualUnfolds
  <2>3. CASE ~ (v = w \/ ts[v].id # "record")
    <3>1. /\ Len(ts[v].fields) = Len(ts[w].fields)
          /\ \A k \in 1..Len(ts[v].fields) :
                  /\ ts[v].fields[k].reverse = ts[w].fields[k].reverse
                  /\ IsEqual(ts, ts[v].fields[k].type, ts[w].fields[k].type)
      BY <2>1, <2>3
    <3>2. \A k \in 1..Len(ts[w].fields) : ts[w].fields[k].type \in AnyType
      BY FieldFacts
    <3>3. \A k \in 1..Len(ts[w].fields) :
                  /\ ts[w].fields[k].reverse = ts[v].fields[k].reverse
                  /\ IsEqual(ts, ts[w].fields[k].type, ts[v].fields[k].type)
      BY <1>1, <3>1, <3>2
    <3> QED
      BY <2>1, <3>1, <3>3, EqualUnfolds
  <2> QED
    BY <2>2, <2>3
<1> HIDE DEF Good
<1>2. \A v \in AnyType : v \in Good
  BY <1>1, TypeInduction
<1> QED
  BY <1>2 DEF Good

(* Two types that are equal to a third are equal.                          *)
LEMMA EqualTransitive ==
  ASSUME NEW ts, Founded(ts)
  PROVE  \A v, w, x \in AnyType : IsEqual(ts, v, w) /\ IsEqual(ts, w, x) => IsEqual(ts, v, x)
<1> DEFINE Good == {v \in AnyType : \A w, x \in AnyType :
                      IsEqual(ts, v, w) /\ IsEqual(ts, w, x) => IsEqual(ts, v, x)}
<1>1. ASSUME NEW v \in AnyType,
             \A k \in 1..Len(ts[v].fields) : ts[v].fields[k].type \in Good
      PROVE  v \in Good
  <2> SUFFICES ASSUME NEW w \in AnyType, NEW x \in AnyType, IsEqual(ts, v, w), IsEqual(ts, w, x)
               PROVE IsEqual(ts, v, x)
    OBVIOUS
  <2>1. /\ ts[v].id = ts[w].id
        /\ v = w \/ ts[v].id # "record" \/
             /\ Len(ts[v].fields) = Len(ts[w].fields)
             /\ \A k \in 1..Len(ts[v].fields) :
                  /\ ts[v].fields[k].reverse = ts[w].fields[k].reverse
                  /\ IsEqual(ts, ts[v].fields[k].type, ts[w].fields[k].type)
    BY EqualUnfolds
  <2>2. /\ ts[w].id = ts[x].id
        /\ w = x \/ ts[w].id # "record" \/
             /\ Len(ts[w].fields) = Len(ts[x].fields)
             /\ \A k \in 1..Len(ts[w].fields) :
                  /\ ts[w].fields[k].reverse = ts[x].fields[k].reverse
                  /\ IsEqual(ts, ts[w].fields[k].type, ts[x].fields[k].type)
    BY EqualUnfolds
  <2>3. CASE v = w
    BY <2>3
  <2>4. CASE w = x
    BY <2>4
  <2>5. CASE ts[v].id # "record"
    <3>1. ts[v].id = ts[x].id
      BY <2>1, <2>2
    <3> QED
      BY <2>5, <3>1, EqualUnfolds
  <2>6. CASE v # w /\ w # x /\ ts[v].id = "record"
    <3>1. ts[v].id = ts[x].id /\ ts[w].id = "record"
      BY <2>1, <2>2, <2>6
    <3>2. /\ Len(ts[v].fields) = Len(ts[w].fields) /\ Len(ts[w].fields) = Len(ts[x].fields)
          /\ \A k \in 1..Len(ts[v].fields) :
               /\ ts[v].fields[k].reverse = ts[w].fields[k].reverse
               /\ ts[w].fields[k].reverse = ts[x].fields[k].reverse
               /\ IsEqual(ts, ts[v].fields[k].type, ts[w].fields[k].type)
               /\ IsEqual(ts, ts[w].fields[k].type, ts[x].fields[k].type)
      BY <2>1, <2>2, <2>6, <3>1
    <3>3. \A k \in 1..Len(ts[w].fields) : ts[w].fields[k].type \in AnyType
      BY FieldFacts
    <3>4. \A k \in 1..Len(ts[x].fields) : ts[x].fields[k].type \in AnyType
      BY FieldFacts
    <3>5. Len(ts[v].fields) = Len(ts[x].fields) /\ \A k \in 1..Len(ts[v].fields) :
                  /\ ts[v].fields[k].reverse = ts[x].fields[k].reverse
                  /\ IsEqual(ts, ts[v].fields[k].type, ts[x].fields[k].type)
      BY <1>1, <3>2, <3>3, <3>4
    <3> QED
      BY <3>1, <3>5, EqualUnfolds
  <2> QED
    BY <2>3, <2>4, <2>5, <2>6
<1> HIDE DEF Good
<1>2. \A v \in AnyType : v \in Good
  BY <1>1, TypeInduction
<1> QED
  BY <1>2 DEF Good

(* Whether types are equal depends on nothing outside of them.             *)
LEMMA EqualAlike ==
  ASSUME NEW ts, Founded(ts), NEW us, Founded(us), NEW C, ClosedIn(ts, C), AlikeIn(ts, us, C)
  PROVE  \A v, w \in C : IsEqual(us, v, w) <=> IsEqual(ts, v, w)
<1> DEFINE Good == {v \in AnyType : v \in C => \A w \in C : IsEqual(us, v, w) <=> IsEqual(ts, v, w)}
<1>1. ASSUME NEW v \in AnyType,
             \A k \in 1..Len(ts[v].fields) : ts[v].fields[k].type \in Good
      PROVE  v \in Good
  <2> SUFFICES ASSUME v \in C, NEW w \in C PROVE IsEqual(us, v, w) <=> IsEqual(ts, v, w)
    OBVIOUS
  <2>1. us[v].id = ts[v].id /\ us[w].id = ts[w].id /\ us[v].fields = ts[v].fields /\ us[w].fields = ts[w].fields
    BY DEF AlikeIn
  <2>2. w \in AnyType
    BY DEF ClosedIn
  <2> DEFINE n == Len(ts[v].fields)
             x(k) == IsEqual(ts, ts[v].fields[k].type, ts[w].fields[k].type)
             y(k) == IsEqual(us, ts[v].fields[k].type, ts[w].fields[k].type)
             r(k) == ts[v].fields[k].reverse = ts[w].fields[k].reverse
             e == ts[v].id = ts[w].id
             o == v = w \/ ts[v].id # "record"
             l == Len(ts[v].fields) = Len(ts[w].fields)
  <2>3. l => \A k \in 1..n : x(k) <=> y(k)
    <3>1. \A k \in 1..n : ts[v].fields[k].type \in C /\ ts[v].fields[k].type \in Good
      BY <1>1 DEF ClosedIn
    <3>2. \A k \in 1..Len(ts[w].fields) : ts[w].fields[k].type \in C
      BY DEF ClosedIn
    <3> QED
      BY <3>1, <3>2
  <2>4. IsEqual(ts, v, w) <=> e /\ (o \/ (l /\ \A k \in 1..n : r(k) /\ x(k)))
    BY <2>2, EqualUnfolds
  <2>5. IsEqual(us, v, w) <=> e /\ (o \/ (l /\ \A k \in 1..n : r(k) /\ y(k)))
    <3>1. IsEqual(us, v, w) <=>
           /\ us[v].id = us[w].id
           /\ v = w \/ us[v].id # "record" \/
                /\ Len(us[v].fields) = Len(us[w].fields)
                /\ \A k \in 1..Len(us[v].fields) :
                     /\ us[v].fields[k].reverse = us[w].fields[k].reverse
                     /\ IsEqual(us, us[v].fields[k].type, us[w].fields[k].type)
      BY <2>2, EqualUnfolds
    <3> QED
      BY <2>1, <3>1
  <2> HIDE DEF n, x, y, r, e, o, l
  <2> QED
    BY <2>3, <2>4, <2>5
<1> HIDE DEF Good
<1>2. \A v \in AnyType : v \in Good
  BY <1>1, TypeInduction
<1> QED
  BY <1>2 DEF Good, ClosedIn

(* The types in D have copies, of which the fields are those of the type   *)
(* or copies of them.                                                      *)
CopiesOf(ts, D, copy) ==
  /\ D \subseteq AnyType /\ copy \in [D -> AnyType]
  /\ \A u \in D :
       /\ ts[copy[u]].id = ts[u].id
       /\ Len(ts[copy[u]].fields) = Len(ts[u].fields)
       /\ \A k \in 1..Len(ts[u].fields) :
            /\ ts[copy[u]].fields[k].reverse = ts[u].fields[k].reverse
            /\ \/ ts[copy[u]].fields[k].type = ts[u].fields[k].type
               \/ /\ ts[u].fields[k].type \in D
                  /\ ts[copy[u]].fields[k].type = copy[ts[u].fields[k].type]

(* A type is equal to its copy, and has as many parts.                     *)
LEMMA CopiesEqual ==
  ASSUME NEW ts, Founded(ts), NEW D, NEW copy, CopiesOf(ts, D, copy)
  PROVE  \A u \in D : IsEqual(ts, u, copy[u])
<1> DEFINE Good == {u \in AnyType : u \in D => IsEqual(ts, u, copy[u])}
<1>1. ASSUME NEW u \in AnyType,
             \A k \in 1..Len(ts[u].fields) : ts[u].fields[k].type \in Good
      PROVE  u \in Good
  <2> SUFFICES ASSUME u \in D PROVE IsEqual(ts, u, copy[u])
    OBVIOUS
  <2> DEFINE c == copy[u]
  <2>1. /\ c \in AnyType /\ ts[c].id = ts[u].id
        /\ Len(ts[c].fields) = Len(ts[u].fields)
        /\ \A k \in 1..Len(ts[u].fields) :
            /\ ts[c].fields[k].reverse = ts[u].fields[k].reverse
            /\ \/ ts[c].fields[k].type = ts[u].fields[k].type
               \/ /\ ts[u].fields[k].type \in D
                  /\ ts[c].fields[k].type = copy[ts[u].fields[k].type]
    BY DEF CopiesOf
  <2> HIDE DEF c
  <2>2. ASSUME NEW k \in 1..Len(ts[u].fields)
        PROVE  IsEqual(ts, ts[u].fields[k].type, ts[c].fields[k].type)
    <3>1. CASE ts[c].fields[k].type = ts[u].fields[k].type
      <4>1. ts[u].fields[k].type \in AnyType
        BY FieldFacts
      <4>2. \A x \in AnyType : IsEqual(ts, x, x)
        BY EqualUnfolds
      <4> QED
        BY <3>1, <4>1, <4>2
    <3>2. CASE ts[u].fields[k].type \in D /\ ts[c].fields[k].type = copy[ts[u].fields[k].type]
      BY <1>1, <3>2
    <3> QED
      BY <2>1, <3>1, <3>2
  <2>3. IsEqual(ts, u, c)
    BY <2>1, <2>2, EqualUnfolds
  <2> QED
    BY <2>3 DEF c
<1> HIDE DEF Good
<1>2. \A u \in AnyType : u \in Good
  BY <1>1, TypeInduction
<1> QED
  BY <1>2 DEF Good, CopiesOf

(* Copies have as many parts as the type.                                  *)
LEMMA CopiesFlat ==
  ASSUME NEW ts, Founded(ts), NEW D, NEW copy, CopiesOf(ts, D, copy)
  PROVE  \A u \in D : Len(Flatten(ts, copy[u])) = Len(Flatten(ts, u))
<1> DEFINE L(u, inv) == Len(FlatOf(ts)[u][inv])
           Good == {u \in AnyType : u \in D => \A inv \in BOOLEAN : L(copy[u], inv) = L(u, inv)}
<1>1. ASSUME NEW u \in AnyType,
             \A k \in 1..Len(ts[u].fields) : ts[u].fields[k].type \in Good
      PROVE  u \in Good
  <2> SUFFICES ASSUME u \in D, NEW inv \in BOOLEAN PROVE L(copy[u], inv) = L(u, inv)
    OBVIOUS
  <2> DEFINE c == copy[u]
             n == Len(ts[u].fields)
             ss == FieldFlats(ts, FlatOf(ts), u, inv)
             tt == FieldFlats(ts, FlatOf(ts), c, inv)
  <2>1. /\ c \in AnyType
        /\ Len(ts[c].fields) = n
        /\ \A k \in 1..n :
            /\ ts[c].fields[k].reverse = ts[u].fields[k].reverse
            /\ \/ ts[c].fields[k].type = ts[u].fields[k].type
               \/ /\ ts[u].fields[k].type \in D
                  /\ ts[c].fields[k].type = copy[ts[u].fields[k].type]
    BY DEF CopiesOf
  <2> HIDE DEF c
  <2>2. /\ ss \in Seq(Seq(Field)) /\ Len(ss) = n
        /\ \A k \in 1..n : ss[k] = FlatOf(ts)[ts[u].fields[k].type][inv # ts[u].fields[k].reverse]
        /\ FlatOf(ts)[u][inv] = <<[type |-> u, reverse |-> inv]>> \o FlattenSeq(ss)
    <3>1. Unfolds(ts, u, inv)
      BY FlatUnfolds
    <3> QED
      BY <3>1 DEF Unfolds
  <2>3. /\ tt \in Seq(Seq(Field)) /\ Len(tt) = n
        /\ \A k \in 1..n : tt[k] = FlatOf(ts)[ts[c].fields[k].type][inv # ts[u].fields[k].reverse]
        /\ FlatOf(ts)[c][inv] = <<[type |-> c, reverse |-> inv]>> \o FlattenSeq(tt)
    <3>1. /\ tt \in Seq(Seq(Field)) /\ Len(tt) = Len(ts[c].fields)
          /\ \A k \in 1..Len(ts[c].fields) :
               tt[k] = FlatOf(ts)[ts[c].fields[k].type][inv # ts[c].fields[k].reverse]
          /\ FlatOf(ts)[c][inv] = <<[type |-> c, reverse |-> inv]>> \o FlattenSeq(tt)
      <4>1. Unfolds(ts, c, inv)
        BY <2>1, FlatUnfolds
      <4> QED
        BY <4>1 DEF Unfolds
    <3> HIDE DEF tt
    <3> QED
      BY <2>1, <3>1
  <2>4. ASSUME NEW k \in 1..n PROVE Len(ss[k]) = Len(tt[k])
    <3> DEFINE i == inv # ts[u].fields[k].reverse
               f == ts[u].fields[k].type
    <3>1. i \in BOOLEAN
      OBVIOUS
    <3>2. ss[k] = FlatOf(ts)[f][i] /\ tt[k] = FlatOf(ts)[ts[c].fields[k].type][i]
      <4>1. k \in 1..n
        OBVIOUS
      <4> HIDE DEF ss, tt, n
      <4> QED
        BY <2>2, <2>3, <4>1
    <3>3. f \in Good
      BY <1>1
    <3> HIDE DEF i, ss, tt
    <3>4. f \in D => Len(FlatOf(ts)[copy[f]][i]) = Len(FlatOf(ts)[f][i])
      BY <3>1, <3>3
    <3> QED
      BY <2>1, <3>2, <3>4
  <2> HIDE DEF ss, tt, n
  <2>5. Len(FlattenSeq(ss)) = Len(FlattenSeq(tt))
    BY <2>2, <2>3, <2>4, FlattenLength
  <2>6. FlattenSeq(ss) \in Seq(Field) /\ FlattenSeq(tt) \in Seq(Field)
    BY <2>2, <2>3, FlattenFacts
  <2>7. ASSUME NEW x \in AnyType
        PROVE <<[type |-> x, reverse |-> inv]>> \in Seq(Field) /\ Len(<<[type |-> x, reverse |-> inv]>>) = 1
    <3>1. [type |-> x, reverse |-> inv] \in Field
      BY DEF Field
    <3> QED
      BY <3>1
  <2>8. \A x \in AnyType : \A s \in Seq(Field) : Len(<<[type |-> x, reverse |-> inv]>> \o s) = 1 + Len(s)
    <3> SUFFICES ASSUME NEW x \in AnyType, NEW s \in Seq(Field)
                 PROVE  Len(<<[type |-> x, reverse |-> inv]>> \o s) = 1 + Len(s)
      OBVIOUS
    <3> DEFINE one == <<[type |-> x, reverse |-> inv]>>
    <3>1. one \in Seq(Field) /\ Len(one) = 1
      BY <2>7
    <3> HIDE DEF one
    <3>2. Len(one \o s) = Len(one) + Len(s)
      BY <3>1, ConcatFacts
    <3>3. Len(one \o s) = 1 + Len(s)
      BY <3>1, <3>2
    <3> QED
      BY <3>3 DEF one
  <2>9. L(c, inv) = 1 + Len(FlattenSeq(tt)) /\ L(u, inv) = 1 + Len(FlattenSeq(ss))
    BY <2>1, <2>2, <2>3, <2>6, <2>8
  <2> HIDE DEF L
  <2>10. L(c, inv) = L(u, inv)
    BY <2>5, <2>9
  <2> QED
    BY <2>10 DEF c
<1> HIDE DEF Good
<1>2. \A u \in AnyType : u \in Good
  BY <1>1, TypeInduction
<1>3. ASSUME NEW u \in D PROVE Len(FlatOf(ts)[copy[u]][FALSE]) = Len(FlatOf(ts)[u][FALSE])
  <2>1. u \in AnyType
    BY DEF CopiesOf
  <2> QED
    BY <1>2, <2>1 DEF Good
<1> HIDE DEF L
<1> QED
  BY <1>3, FlattenIsFlat

(* What CopyOrder concatenates for the fields of a type.                   *)
FieldOrders(ts, order, u) ==
  [k \in DOMAIN ts[u].fields |->
     IF IsGeneric(ts, ts[u].fields[k].type) THEN order[ts[u].fields[k].type] ELSE << >>]

(* The function of CopyOrder.                                              *)
OrderBody(ts, order) == [u \in AnyType |-> FlattenSeq(FieldOrders(ts, order, u)) \o <<u>>]
OrderOf(ts) == CHOOSE order : order = OrderBody(ts, order)

(* CopyOrder is that function.                                             *)
LEMMA CopyOrderIsOf ==
  ASSUME NEW ts, NEW t
  PROVE  CopyOrder(ts, t) = OrderOf(ts)[t]
BY DEF CopyOrder, OrderOf, OrderBody, FieldOrders

(* What the fields of a type add to the order are types.                   *)
LEMMA FieldOrdersFacts ==
  ASSUME NEW ts, Founded(ts), NEW f, NEW u \in AnyType, f \in [AnyType -> Seq(AnyType)]
  PROVE  /\ FieldOrders(ts, f, u) \in Seq(Seq(AnyType))
         /\ Len(FieldOrders(ts, f, u)) = Len(ts[u].fields)
         /\ FlattenSeq(FieldOrders(ts, f, u)) \in Seq(AnyType)
<1> DEFINE x(k) == IF IsGeneric(ts, ts[u].fields[k].type) THEN f[ts[u].fields[k].type] ELSE << >>
           n == Len(ts[u].fields)
           ss == [k \in 1..n |-> x(k)]
<1>1. n \in Nat /\ DOMAIN ts[u].fields = 1..n /\ \A k \in 1..n : ts[u].fields[k].type \in AnyType
  BY FieldFacts
<1>2. \A k \in 1..n : x(k) \in Seq(AnyType)
  BY <1>1, EmptySeq
<1> HIDE DEF x
<1>3. ss \in Seq(Seq(AnyType)) /\ Len(ss) = n
  BY <1>1, <1>2
<1>4. FieldOrders(ts, f, u) = ss
  BY <1>1 DEF FieldOrders, x
<1> HIDE DEF ss
<1>5. FlattenSeq(ss) \in Seq(AnyType)
  BY <1>3, FlattenFacts
<1> QED
  BY <1>3, <1>4, <1>5

(* The function looks at the types of the fields only.                     *)
LEMMA OrderLocal ==
  ASSUME NEW ts, NEW f, NEW g, NEW u, u \in AnyType, ts[u].fields \in Seq(Field), SameBelow(ts, u, f, g)
  PROVE  OrderBody(ts, f)[u] = OrderBody(ts, g)[u]
<1>1. DOMAIN ts[u].fields = 1..Len(ts[u].fields)
  BY LenProperties
<1>2. FieldOrders(ts, f, u) = FieldOrders(ts, g, u)
  BY <1>1 DEF FieldOrders, SameBelow
<1>3. \A h : OrderBody(ts, h)[u] = FlattenSeq(FieldOrders(ts, h, u)) \o <<u>>
  BY DEF OrderBody
<1> QED
  BY <1>2, <1>3

(* So it exists, as Flatten does.                                          *)
LEMMA OrderExists ==
  ASSUME NEW ts, Founded(ts)
  PROVE  OrderOf(ts) = OrderBody(ts, OrderOf(ts)) /\ OrderOf(ts) \in [AnyType -> Seq(AnyType)]
<1> DEFINE V == Seq(AnyType)
           S == [AnyType -> V]
           F == [f \in S |-> OrderBody(ts, f)]
           order == OrderOf(ts)
<1>1. PICK B, depth : Depths(ts, B, depth)
  BY DEF Founded
<1>2. \A f \in S : OrderBody(ts, f) \in S
  <2> SUFFICES ASSUME NEW f \in S PROVE OrderBody(ts, f) \in S
    OBVIOUS
  <2>1. \A u \in AnyType : FlattenSeq(FieldOrders(ts, f, u)) \in Seq(AnyType)
    BY FieldOrdersFacts
  <2>2. \A u \in AnyType : FlattenSeq(FieldOrders(ts, f, u)) \o <<u>> \in Seq(AnyType)
    BY <2>1
  <2> QED
    BY <2>2 DEF OrderBody
<1>3. V # {}
  BY EmptySeq
<1> HIDE DEF V
<1>4. F \in [S -> S] /\ \A f \in S : F[f] = OrderBody(ts, f)
  BY <1>2
<1>5. \A f, g : \A u \in AnyType :
        (\A x \in AnyType : depth[x] < depth[u] => f[x] = g[x]) => OrderBody(ts, f)[u] = OrderBody(ts, g)[u]
  <2> SUFFICES ASSUME NEW f, NEW g, NEW u \in AnyType,
                      \A x \in AnyType : depth[x] < depth[u] => f[x] = g[x]
               PROVE  OrderBody(ts, f)[u] = OrderBody(ts, g)[u]
    OBVIOUS
  <2>1. \A k \in 1..Len(ts[u].fields) : ts[u].fields[k].type \in AnyType
    BY FieldFacts
  <2>2. \A k \in 1..Len(ts[u].fields) : depth[ts[u].fields[k].type] < depth[u]
    BY <1>1 DEF Depths
  <2>3. SameBelow(ts, u, f, g)
    BY <2>1, <2>2 DEF SameBelow
  <2> QED
    BY <2>3, FieldFacts, OrderLocal
<1>6. B \in Nat /\ depth \in [AnyType -> 0..B]
  BY <1>1 DEF Depths
<1>7. LooksBelow(F, AnyType, V, B, depth)
  <2> HIDE DEF F
  <2> QED
    BY <1>3, <1>4, <1>5, <1>6 DEF LooksBelow
<1>8. \E h \in S : F[h] = h
  <2> HIDE DEF F
  <2>1. \E h \in [AnyType -> V] : F[h] = h
    BY ONLY <1>7, RankRecursion
  <2> QED
    BY <2>1
<1>9. order = OrderBody(ts, order)
  <2>1. \E h : h = OrderBody(ts, h)
    BY <1>4, <1>8
  <2> QED
    BY <2>1 DEF OrderOf
<1> HIDE DEF order, F
<1>10. order \in S
  <2>1. PICK h \in S : h = OrderBody(ts, h)
    BY <1>4, <1>8
  <2> DEFINE Good == {u \in AnyType : order[u] = h[u]}
  <2>2. ASSUME NEW u \in AnyType, \A x \in AnyType : depth[x] < depth[u] => x \in Good
        PROVE  u \in Good
    <3>1. OrderBody(ts, order)[u] = OrderBody(ts, h)[u]
      BY <1>5, <2>2
    <3> QED
      BY <1>9, <2>1, <3>1
  <2> HIDE DEF Good
  <2>3. depth \in [AnyType -> Nat]
    BY <1>6
  <2>4. \A u \in AnyType : u \in Good
    BY <2>2, <2>3, RankInduction
  <2>5. order = [u \in AnyType |-> order[u]]
    BY <1>9 DEF OrderBody
  <2> QED
    BY <2>1, <2>4, <2>5 DEF Good
<1> QED
  BY <1>9, <1>10 DEF order, V

(* The types of fields of which there will be a copy.                      *)
GenericFields(ts, u) ==
  {v \in {ts[u].fields[k].type : k \in 1..Len(ts[u].fields)} : IsGeneric(ts, v)}

(* Whatever is copied with a type comes before it.                         *)
Ordered(ts, q) ==
  /\ q \in Seq(AnyType)
  /\ \A i \in 1..Len(q) : \A v \in GenericFields(ts, q[i]) : \E j \in 1..(i - 1) : q[j] = v

(* Orders in which fields come first can be put one behind the other.      *)
LEMMA OrderedConcat ==
  ASSUME NEW ts, NEW a, Ordered(ts, a), NEW b, Ordered(ts, b)
  PROVE  Ordered(ts, a \o b)
<1>1. a \in Seq(AnyType) /\ b \in Seq(AnyType)
  BY DEF Ordered
<1> DEFINE c == a \o b
           m == Len(a)
           n == Len(b)
<1>2. /\ c \in Seq(AnyType) /\ Len(c) = m + n /\ m \in Nat /\ n \in Nat
      /\ \A k \in 1..m : c[k] = a[k]
      /\ \A k \in 1..n : c[m + k] = b[k]
  BY <1>1, ConcatFacts
<1> HIDE DEF c, m, n
<1>3. ASSUME NEW i \in 1..(m + n), NEW v \in GenericFields(ts, c[i])
      PROVE  \E j \in 1..(i - 1) : c[j] = v
  <2>1. CASE i <= m
    <3>1. i \in 1..m /\ c[i] = a[i]
      BY <1>2, <2>1
    <3>2. PICK j \in 1..(i - 1) : a[j] = v
      BY <3>1 DEF Ordered, m
    <3>3. j \in 1..m
      BY <1>2, <2>1
    <3> QED
      BY <1>2, <3>2, <3>3
  <2>2. CASE ~ (i <= m)
    <3> DEFINE l == i - m
    <3>1. l \in 1..n /\ m + l = i
      BY <1>2, <2>2
    <3> HIDE DEF l
    <3>2. c[i] = b[l]
      BY <1>2, <3>1
    <3>3. PICK j \in 1..(l - 1) : b[j] = v
      BY <3>1, <3>2 DEF Ordered, n
    <3>4. j \in 1..n /\ m + j \in 1..(i - 1)
      BY <1>2, <3>1
    <3>5. c[m + j] = v
      BY <1>2, <3>3, <3>4
    <3> QED
      BY <3>4, <3>5
  <2> QED
    BY <2>1, <2>2
<1>4. Ordered(ts, c)
  BY <1>2, <1>3 DEF Ordered
<1> QED
  BY <1>4 DEF c

(* Nothing is in order.                                                    *)
LEMMA OrderedEmpty ==
  ASSUME NEW ts
  PROVE  Ordered(ts, << >>)
<1>1. << >> \in Seq(AnyType) /\ Len(<< >>) = 0 /\ 1..0 = {}
  BY EmptySeq
<1> QED
  BY <1>1 DEF Ordered

(* So can any number of them.                                              *)
LEMMA OrderedFlatten ==
  ASSUME NEW ts, NEW ss \in Seq(Seq(AnyType)), \A k \in 1..Len(ss) : Ordered(ts, ss[k])
  PROVE  Ordered(ts, FlattenSeq(ss))
<1> DEFINE n == Len(ss)
<1>1. n \in Nat /\ \A k \in 1..n : Ordered(ts, ss[k])
  BY LenProperties
<1> HIDE DEF n
<1>2. PICK g : Flattening(g, AnyType, ss, n)
  BY FlattenSteps DEF n
<1> DEFINE T == {k \in Nat : k <= n => Ordered(ts, g[k])}
<1>3. 0 \in T
  BY <1>2, OrderedEmpty DEF Flattening
<1>4. ASSUME NEW k \in Nat, k \in T PROVE k + 1 \in T
  <2> SUFFICES ASSUME k + 1 <= n PROVE Ordered(ts, g[k + 1])
    OBVIOUS
  <2>1. k + 1 \in 1..n /\ (k + 1) - 1 = k /\ k <= n
    BY <1>1
  <2>2. g[k + 1] = g[k] \o ss[k + 1]
    BY <1>2, <2>1 DEF Flattening
  <2> QED
    BY <1>1, <1>4, <2>1, <2>2, OrderedConcat
<1> HIDE DEF T
<1>5. n \in T
  BY <1>1, <1>3, <1>4, EveryNatural
<1> QED
  BY <1>1, <1>2, <1>5 DEF T, Flattening

(* The order of a type: it is the last, and its fields come before it.     *)
LEMMA OrderFacts ==
  ASSUME NEW ts, Founded(ts)
  PROVE  \A u \in AnyType :
           /\ Ordered(ts, CopyOrder(ts, u))
           /\ u \in Listed(CopyOrder(ts, u))
           /\ Listed(CopyOrder(ts, u)) \subseteq PartsOf(ts, u)
<1> DEFINE order == OrderOf(ts)
           Good == {u \in AnyType : /\ Ordered(ts, order[u])
                                    /\ u \in Listed(order[u])
                                    /\ Listed(order[u]) \subseteq PartsOf(ts, u)}
<1>1. order = OrderBody(ts, order) /\ order \in [AnyType -> Seq(AnyType)]
  BY OrderExists
<1> HIDE DEF order
<1>2. ASSUME NEW u \in AnyType,
             \A k \in 1..Len(ts[u].fields) : ts[u].fields[k].type \in Good
      PROVE  u \in Good
  <2> DEFINE ss == FieldOrders(ts, order, u)
             n == Len(ts[u].fields)
             a == FlattenSeq(ss)
             f(k) == ts[u].fields[k].type
  <2>1. order[u] = a \o <<u>>
    BY <1>1 DEF OrderBody
  <2>2. ss \in Seq(Seq(AnyType)) /\ Len(ss) = n /\ a \in Seq(AnyType)
    BY <1>1, FieldOrdersFacts
  <2>3. \A k \in 1..n : ss[k] = IF IsGeneric(ts, f(k)) THEN order[f(k)] ELSE << >>
    <3>1. DOMAIN ts[u].fields = 1..n
      BY FieldFacts
    <3> QED
      BY <3>1 DEF FieldOrders
  <2>4. \A k \in 1..n : f(k) \in Good
    BY <1>2
  <2>5. Listed(a) = AllListed(ss, n)
    BY <2>2, FlattenFacts
  <2> HIDE DEF ss
  <2>6. \A k \in 1..n : Ordered(ts, ss[k])
    BY <2>3, <2>4, OrderedEmpty
  <2>7. Ordered(ts, a)
    BY <2>2, <2>6, OrderedFlatten
  <2> HIDE DEF a
  <2> DEFINE c == a \o <<u>>
             m == Len(a)
  <2>8. /\ c \in Seq(AnyType) /\ Len(c) = m + 1 /\ m \in Nat
        /\ \A k \in 1..m : c[k] = a[k]
        /\ c[m + 1] = u
        /\ Listed(c) = Listed(a) \cup {u}
    <3> DEFINE one == <<u>>
    <3>1. one \in Seq(AnyType) /\ Len(one) = 1 /\ one[1] = u /\ 1 \in 1..1
      OBVIOUS
    <3>2. Listed(one) = {u}
      BY <3>1 DEF Listed
    <3> HIDE DEF one
    <3>3. /\ a \o one \in Seq(AnyType) /\ Len(a \o one) = Len(a) + Len(one) /\ Len(a) \in Nat
          /\ \A k \in 1..Len(a) : (a \o one)[k] = a[k]
          /\ \A k \in 1..Len(one) : (a \o one)[Len(a) + k] = one[k]
          /\ Listed(a \o one) = Listed(a) \cup Listed(one)
      <4>1. a \in Seq(AnyType) /\ one \in Seq(AnyType)
        BY <2>2, <3>1
      <4> QED
        BY ONLY <4>1, ConcatFacts
    <3>4. c = a \o one
      BY DEF one
    <3> HIDE DEF c
    <3> QED
      BY <3>1, <3>2, <3>3, <3>4
  <2> HIDE DEF c, m
  <2>9. GenericFields(ts, u) \subseteq Listed(a)
    <3> SUFFICES ASSUME NEW v \in GenericFields(ts, u) PROVE v \in Listed(a)
      OBVIOUS
    <3>1. PICK k \in 1..n : v = f(k) /\ IsGeneric(ts, v)
      BY DEF GenericFields
    <3>2. v \in Listed(ss[k])
      <4>1. ss[k] = order[f(k)] /\ f(k) \in Good
        <5> HIDE DEF f, n, Good
        <5> QED
          BY <2>3, <2>4, <3>1
      <4> QED
        BY <3>1, <4>1
    <3> QED
      BY <2>5, <3>2 DEF AllListed
  <2>10. ASSUME NEW i \in 1..(m + 1), NEW v \in GenericFields(ts, c[i])
         PROVE  \E j \in 1..(i - 1) : c[j] = v
    <3>1. CASE i \in 1..m
      <4>1. c[i] = a[i]
        BY <2>8, <3>1
      <4>2. PICK j \in 1..(i - 1) : a[j] = v
        BY <2>7, <3>1, <4>1 DEF Ordered, m
      <4>3. j \in 1..m
        BY <2>8, <3>1
      <4> QED
        BY <2>8, <4>2, <4>3
    <3>2. CASE i = m + 1
      <4>1. v \in Listed(a)
        BY <2>8, <2>9, <3>2
      <4>2. PICK j \in 1..m : a[j] = v
        BY <4>1 DEF Listed, m
      <4>3. j \in 1..(i - 1)
        BY <2>8, <3>2
      <4> QED
        BY <2>8, <4>2, <4>3
    <3> QED
      BY <2>8, <3>1, <3>2
  <2>11. Ordered(ts, c)
    BY <2>8, <2>10 DEF Ordered
  <2>12. Listed(a) \subseteq PartsOf(ts, u)
    <3>1. PartsOf(ts, u) = {u} \cup UNION {PartsOf(ts, f(k)) : k \in 1..n}
      BY PartsUnfold
    <3> HIDE DEF f
    <3>2. Listed(<< >>) = {}
      BY EmptySeq DEF Listed
    <3>3. ASSUME NEW k \in 1..n PROVE Listed(ss[k]) \subseteq PartsOf(ts, f(k))
      BY <2>3, <2>4, <3>2
    <3> QED
      BY <2>5, <3>1, <3>3 DEF AllListed
  <2>13. u \in PartsOf(ts, u)
    BY PartsUnfold
  <2>14. Ordered(ts, c) /\ u \in Listed(c) /\ Listed(c) \subseteq PartsOf(ts, u)
    BY <2>8, <2>11, <2>12, <2>13
  <2> QED
    BY <2>1, <2>14 DEF c
<1> HIDE DEF Good
<1>3. \A u \in AnyType : u \in Good
  BY <1>2, TypeInduction
<1> QED
  BY <1>3, CopyOrderIsOf DEF Good, order

--------------------------------------------------------------------------------
(* A sequence of anything.                                                 *)
IsList(ms) == \E S : ms \in Seq(S)

(* A list of mappers with one mapper to each type.                         *)
OneEach(ms) ==
  /\ IsList(ms)
  /\ \A j, k \in 1..Len(ms) : ms[j].b = ms[k].b => j = k

(* Sequences have a length and their elements.                             *)
LEMMA ListFacts ==
  ASSUME NEW ms, IsList(ms)
  PROVE  Len(ms) \in Nat /\ DOMAIN ms = 1..Len(ms) /\ ms \in Seq({ms[k] : k \in 1..Len(ms)})
<1>1. PICK S : ms \in Seq(S)
  BY DEF IsList
<1>2. Len(ms) \in Nat /\ DOMAIN ms = 1..Len(ms) /\ ms = [k \in 1..Len(ms) |-> ms[k]]
  BY <1>1
<1> DEFINE n == Len(ms)
           R == {ms[k] : k \in 1..n}
<1>3. ms \in [1..n -> R]
  BY <1>2
<1> HIDE DEF R
<1>4. ms \in Seq(R)
  BY <1>2, <1>3
<1> QED
  BY <1>2, <1>4 DEF R

(* Appending anything to a sequence.                                       *)
LEMMA AppendList ==
  ASSUME NEW ms, IsList(ms), NEW x
  PROVE  /\ IsList(Append(ms, x))
         /\ Len(Append(ms, x)) = Len(ms) + 1
         /\ \A k \in 1..Len(ms) : Append(ms, x)[k] = ms[k]
         /\ Append(ms, x)[Len(ms) + 1] = x
<1>1. PICK S : ms \in Seq(S)
  BY DEF IsList
<1> DEFINE T == S \cup {x}
<1>2. ms \in Seq(T) /\ x \in T
  BY <1>1, SeqMonotonic
<1> HIDE DEF T
<1>3. /\ Append(ms, x) \in Seq(T)
      /\ Len(Append(ms, x)) = Len(ms) + 1
      /\ Append(ms, x)[Len(ms) + 1] = x
      /\ \A k \in 1..Len(ms) : Append(ms, x)[k] = ms[k]
  BY <1>2
<1> QED
  BY <1>3 DEF IsList

(* Append adds its element to what is in a list.                           *)
LEMMA AppendListed ==
  ASSUME NEW ms, IsList(ms), NEW x
  PROVE  Listed(Append(ms, x)) = Listed(ms) \cup {x}
<1>1. PICK S : ms \in Seq(S)
  BY DEF IsList
<1> DEFINE T == S \cup {x}
<1>2. ms \in Seq(T) /\ x \in T
  BY <1>1, SeqMonotonic
<1> HIDE DEF T
<1> QED
  BY <1>2, AppendFacts

(* A mapper to a type the list has no mapper to may be appended.           *)
LEMMA AppendOneEach ==
  ASSUME NEW ms, OneEach(ms), NEW x, \A k \in 1..Len(ms) : ms[k].b # x.b
  PROVE  OneEach(Append(ms, x))
<1> DEFINE t == Append(ms, x)
           n == Len(ms)
<1>1. /\ IsList(t) /\ Len(t) = n + 1
      /\ \A k \in 1..n : t[k] = ms[k]
      /\ t[n + 1] = x
      /\ n \in Nat
  BY AppendList, ListFacts DEF OneEach
<1>2. \A j, k \in 1..n : ms[j].b = ms[k].b => j = k
  BY DEF OneEach
<1>3. \A k \in 1..n : ms[k].b # x.b
  OBVIOUS
<1> HIDE DEF t, n
<1>4. ASSUME NEW j \in 1..(n + 1), NEW k \in 1..(n + 1), t[j].b = t[k].b PROVE j = k
  <2>1. (j \in 1..n \/ j = n + 1) /\ (k \in 1..n \/ k = n + 1)
    BY <1>1
  <2> QED
    BY <1>1, <1>2, <1>3, <1>4, <2>1
<1> QED
  BY <1>1, <1>4 DEF OneEach, t

(* What RemoveMappersTo has kept of the first k entries.                   *)
Kept(st, ms, k, u) ==
  /\ OneEach(st.kept)
  /\ \A j \in 1..Len(st.kept) :
       st.kept[j].b # u /\ \E l \in 1..k : st.kept[j] = ms[l]
  /\ \A l \in 1..k : ms[l].b # u => ms[l] \in Listed(st.kept)
  /\ st.skip => k \in 1..Len(ms) /\ ms[k].b = u

(* One entry: the one behind an entry that was erased is not looked at, but*)
(* it cannot be to the same type.                                          *)
LEMMA VisitKeeps ==
  ASSUME NEW ms, OneEach(ms), NEW u, NEW k \in 1..Len(ms), NEW st, Kept(st, ms, k - 1, u)
  PROVE  Kept(Visit(st, ms[k], u), ms, k, u)
<1>1. Len(ms) \in Nat /\ k \in Nat
  BY ListFacts DEF OneEach
<1>2. CASE ms[k].b = u /\ ~ st.skip
  <2> DEFINE t == Visit(st, ms[k], u)
  <2>1. t.kept = st.kept /\ t.skip
    BY <1>2 DEF Visit
  <2>2. \A l \in 1..(k - 1) : l \in 1..k
    BY <1>1
  <2>3. \A l \in 1..k : l \in 1..(k - 1) \/ l = k
    BY <1>1
  <2> HIDE DEF t
  <2>4. Kept(t, ms, k, u)
    BY <1>2, <2>1, <2>2, <2>3 DEF Kept
  <2> QED
    BY <2>4 DEF t
<1>3. CASE ~ (ms[k].b = u /\ ~ st.skip)
  <2> DEFINE t == Visit(st, ms[k], u)
  <2>1. t.kept = Append(st.kept, ms[k]) /\ ~ t.skip
    BY <1>3 DEF Visit
  <2> HIDE DEF t
  <2>2. ms[k].b # u
    <3>1. SUFFICES ASSUME st.skip PROVE ms[k].b # u
      BY <1>3
    <3>2. k - 1 \in 1..Len(ms) /\ ms[k - 1].b = u /\ k - 1 # k
      BY <1>1, <3>1 DEF Kept
    <3> QED
      BY <3>2 DEF OneEach
  <2>3. \A j \in 1..Len(st.kept) : st.kept[j].b # ms[k].b
    <3>1. ASSUME NEW j \in 1..Len(st.kept), st.kept[j].b = ms[k].b PROVE FALSE
      <4>1. PICK l \in 1..(k - 1) : st.kept[j] = ms[l]
        BY DEF Kept
      <4>2. l \in 1..Len(ms) /\ l # k
        BY <1>1, <4>1
      <4> QED
        BY <3>1, <4>1, <4>2 DEF OneEach
    <3> QED
      BY <3>1
  <2>4. OneEach(st.kept) /\ IsList(st.kept)
    BY DEF Kept, OneEach
  <2>5. OneEach(t.kept)
    BY <2>1, <2>3, <2>4, AppendOneEach
  <2>6. /\ Len(t.kept) = Len(st.kept) + 1
        /\ \A j \in 1..Len(st.kept) : t.kept[j] = st.kept[j]
        /\ t.kept[Len(st.kept) + 1] = ms[k]
        /\ Len(st.kept) \in Nat
    BY <2>1, <2>4, AppendList, ListFacts
  <2>7. ASSUME NEW j \in 1..Len(t.kept)
        PROVE  t.kept[j].b # u /\ \E l \in 1..k : t.kept[j] = ms[l]
    <3>1. j \in 1..Len(st.kept) \/ j = Len(st.kept) + 1
      BY <2>6
    <3>2. CASE j \in 1..Len(st.kept)
      <4>1. st.kept[j].b # u /\ \E l \in 1..(k - 1) : st.kept[j] = ms[l]
        BY <3>2 DEF Kept
      <4>2. \A l \in 1..(k - 1) : l \in 1..k
        BY <1>1
      <4> QED
        BY <2>6, <3>2, <4>1, <4>2
    <3>3. CASE j = Len(st.kept) + 1
      <4>1. k \in 1..k
        BY <1>1
      <4> QED
        BY <2>2, <2>6, <3>3, <4>1
    <3> QED
      BY <3>1, <3>2, <3>3
  <2>8. ASSUME NEW l \in 1..k, ms[l].b # u PROVE ms[l] \in Listed(t.kept)
    <3>1. CASE l = k
      <4>1. Len(st.kept) + 1 \in 1..Len(t.kept)
        BY <2>6
      <4> QED
        BY <2>6, <3>1, <4>1 DEF Listed
    <3>2. CASE l # k
      <4>1. l \in 1..(k - 1)
        BY <1>1, <3>2
      <4>2. PICK j \in 1..Len(st.kept) : st.kept[j] = ms[l]
        BY <2>8, <4>1 DEF Kept, Listed
      <4>3. j \in 1..Len(t.kept)
        BY <2>6
      <4>4. t.kept[j] = ms[l]
        BY <2>6, <4>2
      <4> QED
        BY <4>3, <4>4 DEF Listed
    <3> QED
      BY <3>1, <3>2
  <2>9. Kept(t, ms, k, u)
    BY <2>1, <2>5, <2>7, <2>8 DEF Kept
  <2> QED
    BY <2>9 DEF t
<1> QED
  BY <1>2, <1>3

(* The list of a type that was just made.                                  *)
LEMMA EmptyOneEach == OneEach(<< >>) /\ Len(<< >>) = 0 /\ 1..0 = {}
<1>1. << >> \in Seq({}) /\ Len(<< >>) = 0
  BY EmptySeq
<1>2. 1..0 = {}
  OBVIOUS
<1> QED
  BY <1>1, <1>2 DEF OneEach, IsList

(* Removing keeps one mapper to each type and leaves none to this one.     *)
LEMMA WithoutFacts ==
  ASSUME NEW ms, OneEach(ms), NEW u
  PROVE  /\ OneEach(Without(ms, u))
         /\ \A j \in 1..Len(Without(ms, u)) : Without(ms, u)[j].b # u
         /\ Listed(Without(ms, u)) = {x \in Listed(ms) : x.b # u}
<1> DEFINE m == Len(ms)
           first == [kept |-> << >>, skip |-> FALSE]
           Is(f, n) == f = [k \in 0..n |-> IF k = 0 THEN first ELSE Visit(f[k - 1], ms[k], u)]
           seen == CHOOSE f : Is(f, m)
           T == {n \in Nat : \E f : Is(f, n)}
<1>1. m \in Nat
  BY ListFacts DEF OneEach
<1>2. 0 \in T
  <2> DEFINE f == [k \in 0..0 |-> first]
  <2>1. Is(f, 0)
    OBVIOUS
  <2> QED
    BY <2>1
<1>3. ASSUME NEW n \in Nat, n \in T PROVE n + 1 \in T
  <2>1. PICK f : Is(f, n)
    BY <1>3
  <2> DEFINE x == Visit(f[n], ms[n + 1], u)
             g == [k \in 0..(n + 1) |-> IF k = n + 1 THEN x ELSE f[k]]
  <2> HIDE DEF x
  <2>2. g[n + 1] = x /\ \A k \in 0..n : g[k] = f[k]
    OBVIOUS
  <2>3. ASSUME NEW k \in 0..(n + 1)
        PROVE  g[k] = IF k = 0 THEN first ELSE Visit(g[k - 1], ms[k], u)
    <3> HIDE DEF first, g
    <3>1. CASE k = n + 1
      <4>1. k - 1 = n /\ k # 0 /\ n \in 0..n
        BY <3>1
      <4> QED
        BY <2>2, <3>1, <4>1 DEF x
    <3>2. CASE k # n + 1 /\ k # 0
      <4>1. k \in 0..n /\ k - 1 \in 0..n
        BY <3>2
      <4>2. f[k] = Visit(f[k - 1], ms[k], u)
        BY <2>1, <3>2, <4>1
      <4> QED
        BY <2>2, <3>2, <4>1, <4>2
    <3>3. CASE k # n + 1 /\ k = 0
      <4>1. k \in 0..n
        BY <3>3
      <4>2. f[k] = first
        BY <2>1, <3>3, <4>1
      <4> QED
        BY <2>2, <3>3, <4>1, <4>2
    <3> QED
      BY <3>1, <3>2, <3>3
  <2>4. g = [k \in 0..(n + 1) |-> g[k]]
    OBVIOUS
  <2> HIDE DEF g, first
  <2>5. Is(g, n + 1)
    BY <2>3, <2>4
  <2> QED
    BY <2>5
<1> HIDE DEF T
<1>4. m \in T
  BY <1>1, <1>2, <1>3, EveryNatural
<1>5. Is(seen, m)
  BY <1>4 DEF T
<1>6. Without(ms, u) = seen[m].kept
  BY DEF Without
<1> HIDE DEF seen
<1>7. seen[0] = first /\ \A k \in 1..m : seen[k] = Visit(seen[k - 1], ms[k], u)
  <2> HIDE DEF first, m
  <2>1. \A k \in 0..m : seen[k] = IF k = 0 THEN first ELSE Visit(seen[k - 1], ms[k], u)
    BY <1>5
  <2>2. 0 \in 0..m /\ \A k \in 1..m : k \in 0..m /\ k # 0
    BY <1>1
  <2> QED
    BY <2>1, <2>2
<1> DEFINE G == {k \in Nat : k <= m => Kept(seen[k], ms, k, u)}
<1>8. 0 \in G
  <2>1. Kept(first, ms, 0, u)
    BY EmptyOneEach DEF Kept
  <2> HIDE DEF first
  <2> QED
    BY <1>7, <2>1
<1>9. ASSUME NEW k \in Nat, k \in G PROVE k + 1 \in G
  <2> SUFFICES ASSUME k + 1 <= m PROVE Kept(seen[k + 1], ms, k + 1, u)
    OBVIOUS
  <2>1. k + 1 \in 1..m /\ (k + 1) - 1 = k
    BY <1>1
  <2>2. Kept(seen[k], ms, k, u)
    BY <1>1, <1>9
  <2>3. seen[k + 1] = Visit(seen[k], ms[k + 1], u)
    BY <1>7, <2>1
  <2>4. Kept(Visit(seen[k], ms[k + 1], u), ms, k + 1, u)
    BY <2>1, <2>2, VisitKeeps
  <2> QED
    BY <2>3, <2>4
<1> HIDE DEF G
<1>10. \A k \in Nat : k \in G
  BY <1>8, <1>9, EveryNatural
<1>11. Kept(seen[m], ms, m, u)
  BY <1>1, <1>10 DEF G
<1>12. Listed(seen[m].kept) = {x \in Listed(ms) : x.b # u}
  <2>1. \A x \in Listed(seen[m].kept) : x \in Listed(ms) /\ x.b # u
    BY <1>11 DEF Kept, Listed
  <2>2. \A x \in Listed(ms) : x.b # u => x \in Listed(seen[m].kept)
    <3> SUFFICES ASSUME NEW x \in Listed(ms), x.b # u PROVE x \in Listed(seen[m].kept)
      OBVIOUS
    <3>1. PICK l \in 1..m : x = ms[l]
      BY DEF Listed
    <3> QED
      BY <1>11, <3>1 DEF Kept
  <2> QED
    BY <2>1, <2>2
<1> QED
  BY <1>6, <1>11, <1>12 DEF Kept

(* The invariant: the lists of all types have one mapper to each type.     *)
MapperLists(ts) ==
  /\ ts = [t \in AnyType |-> [id |-> ts[t].id, fields |-> ts[t].fields, mappers |-> ts[t].mappers]]
  /\ \A t \in AnyType : OneEach(ts[t].mappers)

(* The mappers of a type.                                                  *)
MappersOf(ts, t) == Listed(ts[t].mappers)

(* The types with another list of mappers for one of them.                 *)
Listing(ts, t, ms) == [ts EXCEPT ![t].mappers = ms]

(* Another list with one mapper to each type keeps it.                     *)
LEMMA SetMappers ==
  ASSUME NEW ts, MapperLists(ts), NEW t, NEW ms, t \in AnyType => OneEach(ms)
  PROVE  /\ MapperLists(Listing(ts, t, ms))
         /\ \A u \in AnyType :
              Listing(ts, t, ms)[u].mappers = IF u = t THEN ms ELSE ts[u].mappers
         /\ AlikeIn(ts, Listing(ts, t, ms), AnyType)
<1> DEFINE r == [ts EXCEPT ![t].mappers = ms]
<1>1. ASSUME NEW u \in AnyType
      PROVE  /\ r[u].mappers = IF u = t THEN ms ELSE ts[u].mappers
             /\ r[u] = [id |-> r[u].id, fields |-> r[u].fields, mappers |-> r[u].mappers]
             /\ r[u].id = ts[u].id /\ r[u].fields = ts[u].fields
  <2>1. ts[u] = [id |-> ts[u].id, fields |-> ts[u].fields, mappers |-> ts[u].mappers]
    BY DEF MapperLists
  <2>2. u \in DOMAIN ts
    BY DEF MapperLists
  <2>3. CASE u = t
    <3>1. r[u] = [ts[u] EXCEPT !.mappers = ms]
      BY <2>2, <2>3
    <3> HIDE DEF r
    <3>2. r[u] = [id |-> ts[u].id, fields |-> ts[u].fields, mappers |-> ms]
      BY <2>1, <3>1
    <3> QED
      BY <2>3, <3>2
  <2>4. CASE u # t
    <3>1. r[u] = ts[u]
      BY <2>2, <2>4
    <3> HIDE DEF r
    <3> QED
      BY <2>1, <2>4, <3>1
  <2> QED
    BY <2>3, <2>4
<1>2. r = [u \in AnyType |-> r[u]]
  BY DEF MapperLists
<1> HIDE DEF r
<1>3. MapperLists(r)
  <2>1. \A u \in AnyType : OneEach(r[u].mappers)
    BY <1>1 DEF MapperLists
  <2>2. \A u \in AnyType :
          r[u] = [id |-> r[u].id, fields |-> r[u].fields, mappers |-> r[u].mappers]
    BY <1>1
  <2>3. r = [u \in AnyType |-> [id |-> r[u].id, fields |-> r[u].fields, mappers |-> r[u].mappers]]
    BY <1>2, <2>2
  <2> QED
    BY <2>1, <2>3 DEF MapperLists
<1>4. \A u \in AnyType : r[u].mappers = IF u = t THEN ms ELSE ts[u].mappers
  BY <1>1
<1>5. AlikeIn(ts, r, AnyType)
  BY <1>1 DEF AlikeIn
<1>6. Listing(ts, t, ms) = r
  BY DEF Listing, r
<1> QED
  BY <1>3, <1>4, <1>5, <1>6

(* RemoveMappersTo keeps it, and removes what it should.                   *)
LEMMA RemoveKeepsLists ==
  ASSUME NEW ts, MapperLists(ts), NEW t, NEW u
  PROVE  /\ MapperLists(RemoveMappersTo(ts, t, u))
         /\ t \in AnyType => \A k \in 1..Len(RemoveMappersTo(ts, t, u)[t].mappers) :
              RemoveMappersTo(ts, t, u)[t].mappers[k].b # u
         /\ AlikeIn(ts, RemoveMappersTo(ts, t, u), AnyType)
         /\ \A v \in AnyType : MappersOf(RemoveMappersTo(ts, t, u), v) =
              {m \in MappersOf(ts, v) : v = t => m.b # u}
<1> DEFINE ms == Without(ts[t].mappers, u)
<1>0. t \in AnyType => Listed(ms) = {m \in MappersOf(ts, t) : m.b # u}
  BY WithoutFacts DEF MapperLists, MappersOf
<1>1. t \in AnyType => OneEach(ms) /\ \A k \in 1..Len(ms) : ms[k].b # u
  BY WithoutFacts DEF MapperLists
<1>2. RemoveMappersTo(ts, t, u) = Listing(ts, t, ms)
  BY DEF RemoveMappersTo, Listing
<1> HIDE DEF ms
<1>3. /\ MapperLists(Listing(ts, t, ms))
      /\ \A v \in AnyType : Listing(ts, t, ms)[v].mappers = IF v = t THEN ms ELSE ts[v].mappers
      /\ AlikeIn(ts, Listing(ts, t, ms), AnyType)
  BY <1>1, SetMappers
<1>4. ASSUME NEW v \in AnyType
      PROVE  MappersOf(Listing(ts, t, ms), v) = {m \in MappersOf(ts, v) : v = t => m.b # u}
  <2>1. CASE v = t
    <3>1. MappersOf(Listing(ts, t, ms), v) = Listed(ms)
      BY <1>3, <2>1 DEF MappersOf
    <3>2. Listed(ms) = {m \in MappersOf(ts, t) : m.b # u}
      BY ONLY <1>0, <2>1, v \in AnyType
    <3> QED
      BY <2>1, <3>1, <3>2
  <2>2. CASE v # t
    <3>1. MappersOf(Listing(ts, t, ms), v) = MappersOf(ts, v)
      BY <1>3, <2>2 DEF MappersOf
    <3> QED
      BY <2>2, <3>1
  <2> QED
    BY <2>1, <2>2
<1> QED
  BY <1>1, <1>2, <1>3, <1>4

(* Appending keeps it if there is no mapper to that type.                  *)
Appended(ts, us, t, m) ==
  /\ MapperLists(us) /\ AlikeIn(ts, us, AnyType)
  /\ \A v \in AnyType : MappersOf(us, v) = MappersOf(ts, v) \cup {x \in {m} : v = t}

(* Appending a mapper to a type that had none to the same target.          *)
LEMMA AppendKeepsLists ==
  ASSUME NEW ts, MapperLists(ts), NEW t, NEW m,
         t \in AnyType => \A k \in 1..Len(ts[t].mappers) : ts[t].mappers[k].b # m.b
  PROVE  Appended(ts, [ts EXCEPT ![t].mappers = Append(@, m)], t, m)
<1> DEFINE ms == Append(ts[t].mappers, m)
<1>1. t \in AnyType => OneEach(ms) /\ Listed(ms) = MappersOf(ts, t) \cup {m}
  BY AppendOneEach, AppendListed DEF MapperLists, OneEach, MappersOf
<1>2. [ts EXCEPT ![t].mappers = Append(@, m)] = Listing(ts, t, ms)
  BY DEF Listing
<1> HIDE DEF ms
<1>3. /\ MapperLists(Listing(ts, t, ms)) /\ AlikeIn(ts, Listing(ts, t, ms), AnyType)
      /\ \A v \in AnyType : Listing(ts, t, ms)[v].mappers = IF v = t THEN ms ELSE ts[v].mappers
  BY <1>1, SetMappers
<1>4. ASSUME NEW v \in AnyType
      PROVE  MappersOf(Listing(ts, t, ms), v) = MappersOf(ts, v) \cup {x \in {m} : v = t}
  <2>1. CASE v = t
    <3>1. MappersOf(Listing(ts, t, ms), v) = Listed(ms)
      BY <1>3, <2>1 DEF MappersOf
    <3> QED
      BY <1>1, <2>1, <3>1
  <2>2. CASE v # t
    <3>1. MappersOf(Listing(ts, t, ms), v) = MappersOf(ts, v)
      BY <1>3, <2>2 DEF MappersOf
    <3> QED
      BY <2>2, <3>1
  <2> QED
    BY <2>1, <2>2
<1> QED
  BY <1>2, <1>3, <1>4 DEF Appended

(* AddMapper keeps it: the mapper replaces the one there was, and its      *)
(* inverse is only added where GetMapper finds none.                       *)
LEMMA AddKeepsLists ==
  ASSUME NEW ts, MapperLists(ts), NEW m
  PROVE  MapperLists(AddMapper(ts, m))
<1> DEFINE removed == RemoveMappersTo(ts, m.a, m.b)
           added == [removed EXCEPT ![m.a].mappers = Append(@, m)]
           inv == InverseMapper(added, m)
           both == [added EXCEPT ![m.b].mappers = Append(@, inv)]
<1>1. AddMapper(ts, m) = IF CanConvert(added, m.b, m.a) THEN added ELSE both
  BY DEF AddMapper
<1>2. MapperLists(removed)
  BY RemoveKeepsLists
<1>3. m.a \in AnyType => \A k \in 1..Len(removed[m.a].mappers) : removed[m.a].mappers[k].b # m.b
  BY RemoveKeepsLists
<1> HIDE DEF removed
<1>4. MapperLists(added)
  BY <1>2, <1>3, AppendKeepsLists DEF Appended
<1> HIDE DEF added
<1>5. inv.b = m.a
  BY DEF InverseMapper, Mapper
<1> HIDE DEF inv
<1>6. ASSUME ~ CanConvert(added, m.b, m.a) PROVE MapperLists(both)
  <2>1. ASSUME m.b \in AnyType, NEW k \in 1..Len(added[m.b].mappers)
        PROVE  added[m.b].mappers[k].b # inv.b
    <3>1. OneEach(added[m.b].mappers)
      BY <1>4, <2>1 DEF MapperLists
    <3>2. DOMAIN added[m.b].mappers = 1..Len(added[m.b].mappers)
      BY <3>1, ListFacts DEF OneEach
    <3>3. added[m.b].mappers[k] \in ToSet(added[m.b].mappers)
      BY <3>2, <2>1 DEF ToSet
    <3>4. \A n \in ToSet(added[m.b].mappers) : n.b # m.a
      BY <1>6 DEF CanConvert, Stored
    <3> QED
      BY <1>5, <3>3, <3>4
  <2> QED
    BY <1>4, <2>1, AppendKeepsLists DEF Appended
<1> HIDE DEF both
<1> QED
  BY <1>1, <1>4, <1>6

(* The lists SetElementType makes one after the other, up to the result.   *)
SetElementRun(g, ts, s, t) ==
  /\ g[0] = ts
  /\ \A k \in 1..Len(ts[s].mappers) : g[k] = RemoveMappersTo(g[k - 1], ts[s].mappers[k].b, s)
  /\ SetElementType(ts, s, t) =
       [g[Len(ts[s].mappers)] EXCEPT ![s].mappers = << >>, ![s].fields[Len(ts[s].fields)].type = t]

(* The states of the loop in SetElementType exist.                         *)
LEMMA SetElementSteps ==
  ASSUME NEW ts, NEW s, NEW t, Len(ts[s].mappers) \in Nat
  PROVE  \E g : SetElementRun(g, ts, s, t)
<1> DEFINE m == Len(ts[s].mappers)
           first == ts
           Is(f, n) == f = [k \in 0..n |-> IF k = 0 THEN first ELSE RemoveMappersTo(f[k - 1], ts[s].mappers[k].b, s)]
           others == CHOOSE f : Is(f, m)
           T == {n \in Nat : \E f : Is(f, n)}
<1>1. m \in Nat
  OBVIOUS
<1>2. 0 \in T
  <2> DEFINE f == [k \in 0..0 |-> first]
  <2>1. Is(f, 0)
    OBVIOUS
  <2> QED
    BY <2>1
<1>3. ASSUME NEW n \in Nat, n \in T PROVE n + 1 \in T
  <2>1. PICK f : Is(f, n)
    BY <1>3
  <2> DEFINE x == RemoveMappersTo(f[n], ts[s].mappers[n + 1].b, s)
             g == [k \in 0..(n + 1) |-> IF k = n + 1 THEN x ELSE f[k]]
  <2> HIDE DEF x
  <2>2. g[n + 1] = x /\ \A k \in 0..n : g[k] = f[k]
    OBVIOUS
  <2>3. ASSUME NEW k \in 0..(n + 1)
        PROVE  g[k] = IF k = 0 THEN first ELSE RemoveMappersTo(g[k - 1], ts[s].mappers[k].b, s)
    <3> HIDE DEF first, g
    <3>1. CASE k = n + 1
      <4>1. k - 1 = n /\ k # 0 /\ n \in 0..n
        BY <3>1
      <4> QED
        BY <2>2, <3>1, <4>1 DEF x
    <3>2. CASE k # n + 1 /\ k # 0
      <4>1. k \in 0..n /\ k - 1 \in 0..n
        BY <3>2
      <4>2. f[k] = RemoveMappersTo(f[k - 1], ts[s].mappers[k].b, s)
        BY <2>1, <3>2, <4>1
      <4> QED
        BY <2>2, <3>2, <4>1, <4>2
    <3>3. CASE k # n + 1 /\ k = 0
      <4>1. k \in 0..n
        BY <3>3
      <4>2. f[k] = first
        BY <2>1, <3>3, <4>1
      <4> QED
        BY <2>2, <3>3, <4>1, <4>2
    <3> QED
      BY <3>1, <3>2, <3>3
  <2>4. g = [k \in 0..(n + 1) |-> g[k]]
    OBVIOUS
  <2> HIDE DEF g, first
  <2>5. Is(g, n + 1)
    <3> DEFINE h == [k \in 0..(n + 1) |-> IF k = 0 THEN first ELSE RemoveMappersTo(g[k - 1], ts[s].mappers[k].b, s)]
    <3>1. \A k \in 0..(n + 1) : h[k] = g[k]
      BY <2>3
    <3>2. h = [k \in 0..(n + 1) |-> h[k]]
      OBVIOUS
    <3>3. h = g
      <4> HIDE DEF h
      <4> QED
        BY ONLY <2>4, <3>1, <3>2
    <3> QED
      BY <3>3
  <2> HIDE DEF Is
  <2> QED
    BY <2>5
<1> HIDE DEF T
<1>4. m \in T
  BY <1>1, <1>2, <1>3, EveryNatural
<1>5. Is(others, m)
  <2> HIDE DEF Is
  <2>1. \E f : Is(f, m)
    BY <1>4 DEF T
  <2> QED
    BY <2>1
<1>6. SetElementType(ts, s, t) =
        [others[m] EXCEPT ![s].mappers = << >>, ![s].fields[Len(ts[s].fields)].type = t]
  BY DEF SetElementType
<1> HIDE DEF others
<1>7. others[0] = first /\ \A k \in 1..m : others[k] = RemoveMappersTo(others[k - 1], ts[s].mappers[k].b, s)
  <2> HIDE DEF first, m
  <2>1. \A k \in 0..m : others[k] = IF k = 0 THEN first ELSE RemoveMappersTo(others[k - 1], ts[s].mappers[k].b, s)
    BY <1>5
  <2>2. 0 \in 0..m /\ \A k \in 1..m : k \in 0..m /\ k # 0
    BY <1>1
  <2> QED
    BY <2>1, <2>2
<1>8. SetElementRun(others, ts, s, t)
  BY <1>6, <1>7 DEF SetElementRun
<1> QED
  BY <1>8

(* What is left of the mappers when those to s of the first k types s has  *)
(* mappers to are removed.                                                 *)
LeftOf(ts, us, s, k) ==
  /\ MapperLists(us) /\ AlikeIn(ts, us, AnyType)
  /\ \A v \in AnyType : \A x :
       x \in MappersOf(us, v) <=>
         /\ x \in MappersOf(ts, v)
         /\ ~ (x.b = s /\ \E l \in 1..k : ts[s].mappers[l].b = v)

(* Setting the elements of a stream removes mappers, and all of its own.   *)
LEMMA SetElementEffect ==
  ASSUME NEW ts, MapperLists(ts), NEW s, s \in AnyType, NEW t
  PROVE  LET us == SetElementType(ts, s, t)
         IN  /\ MapperLists(us)
             /\ \A v \in AnyType :
                  /\ us[v].id = ts[v].id
                  /\ us[v].fields = IF v = s THEN [ts[s].fields EXCEPT ![Len(ts[s].fields)].type = t]
                                    ELSE ts[v].fields
                  /\ \A x : x \in MappersOf(us, v) <=>
                       /\ x \in MappersOf(ts, v) /\ v # s
                       /\ ~ (x.b = s /\ \E y \in MappersOf(ts, s) : y.b = v)
<1> DEFINE m == Len(ts[s].mappers)
<1>1. m \in Nat
  BY ListFacts DEF MapperLists, OneEach
<1>0. PICK others : SetElementRun(others, ts, s, t)
  BY <1>1, SetElementSteps
<1>2. /\ others[0] = ts
      /\ \A k \in 1..m : others[k] = RemoveMappersTo(others[k - 1], ts[s].mappers[k].b, s)
      /\ SetElementType(ts, s, t) =
           [others[m] EXCEPT ![s].mappers = << >>, ![s].fields[Len(ts[s].fields)].type = t]
  BY <1>0 DEF SetElementRun
<1> HIDE DEF m
<1> DEFINE G == {k \in Nat : k <= m => LeftOf(ts, others[k], s, k)}
<1>8. 0 \in G
  <2>1. LeftOf(ts, ts, s, 0)
    BY DEF LeftOf, AlikeIn
  <2> QED
    BY <1>2, <2>1
<1>9. ASSUME NEW k \in Nat, k \in G PROVE k + 1 \in G
  <2> SUFFICES ASSUME k + 1 <= m PROVE LeftOf(ts, others[k + 1], s, k + 1)
    OBVIOUS
  <2>1. k + 1 \in 1..m /\ (k + 1) - 1 = k
    BY <1>1
  <2> DEFINE us == others[k]
             b == ts[s].mappers[k + 1].b
             ws == RemoveMappersTo(us, b, s)
  <2>2. LeftOf(ts, us, s, k)
    BY <1>1, <1>9
  <2>3. others[k + 1] = ws
    BY <1>2, <2>1
  <2> HIDE DEF us
  <2>4. /\ MapperLists(ws) /\ AlikeIn(us, ws, AnyType)
        /\ \A v \in AnyType : MappersOf(ws, v) = {x \in MappersOf(us, v) : v = b => x.b # s}
    BY <2>2, RemoveKeepsLists DEF LeftOf
  <2> HIDE DEF ws
  <2>5. AlikeIn(ts, ws, AnyType)
    BY <2>2, <2>4 DEF LeftOf, AlikeIn
  <2>6. ASSUME NEW v \in AnyType, NEW x
        PROVE  x \in MappersOf(ws, v) <=>
                 /\ x \in MappersOf(ts, v)
                 /\ ~ (x.b = s /\ \E l \in 1..(k + 1) : ts[s].mappers[l].b = v)
    <3>1. x \in MappersOf(ws, v) <=> x \in MappersOf(us, v) /\ (v = b => x.b # s)
      BY <2>4
    <3>2. x \in MappersOf(us, v) <=>
            /\ x \in MappersOf(ts, v)
            /\ ~ (x.b = s /\ \E l \in 1..k : ts[s].mappers[l].b = v)
      BY <2>2 DEF LeftOf
    <3>3. (\E l \in 1..(k + 1) : ts[s].mappers[l].b = v)
             <=> (\E l \in 1..k : ts[s].mappers[l].b = v) \/ b = v
      <4>1. \A l : l \in 1..(k + 1) <=> l \in 1..k \/ l = k + 1
        OBVIOUS
      <4> QED
        BY <4>1
    <3> HIDE DEF b
    <3> QED
      BY <3>1, <3>2, <3>3
  <2>7. LeftOf(ts, ws, s, k + 1)
    BY <2>4, <2>5, <2>6 DEF LeftOf
  <2> QED
    BY <2>3, <2>7
<1> HIDE DEF G
<1>10. \A k \in Nat : k \in G
  BY <1>8, <1>9, EveryNatural
<1>11. LeftOf(ts, others[m], s, m)
  BY <1>1, <1>10 DEF G
<1> DEFINE old == others[m]
           new == [old EXCEPT ![s].mappers = << >>, ![s].fields[Len(ts[s].fields)].type = t]
<1> HIDE DEF old
<1>12. old = [u \in AnyType |-> [id |-> old[u].id, fields |-> old[u].fields, mappers |-> old[u].mappers]]
  BY <1>11 DEF LeftOf, MapperLists, old
<1>13. ASSUME NEW u \in AnyType
       PROVE  /\ new[u] = [id |-> new[u].id, fields |-> new[u].fields, mappers |-> new[u].mappers]
              /\ OneEach(new[u].mappers)
              /\ new[u].id = ts[u].id
              /\ new[u].fields = IF u = s THEN [ts[s].fields EXCEPT ![Len(ts[s].fields)].type = t]
                                 ELSE ts[u].fields
              /\ new[u].mappers = IF u = s THEN << >> ELSE old[u].mappers
  <2>1. old[u] = [id |-> old[u].id, fields |-> old[u].fields, mappers |-> old[u].mappers]
        /\ u \in DOMAIN old
    BY <1>12
  <2>2. OneEach(old[u].mappers) /\ old[u].id = ts[u].id /\ old[u].fields = ts[u].fields
    BY <1>11 DEF LeftOf, AlikeIn, MapperLists, old
  <2>3. CASE u = s
    <3>1. new[u] = [old[u] EXCEPT !.mappers = << >>, !.fields[Len(ts[s].fields)].type = t]
      BY <2>1, <2>3
    <3> HIDE DEF new
    <3>2. new[u] = [id |-> old[u].id, mappers |-> << >>, fields |->
                     [old[u].fields EXCEPT ![Len(ts[s].fields)].type = t]]
      BY <2>1, <3>1
    <3>3. /\ new[u].id = old[u].id /\ new[u].mappers = << >>
          /\ new[u].fields = [old[u].fields EXCEPT ![Len(ts[s].fields)].type = t]
          /\ new[u] = [id |-> new[u].id, fields |-> new[u].fields, mappers |-> new[u].mappers]
      BY <3>2
    <3>4. old[u].fields = ts[s].fields /\ OneEach(new[u].mappers)
      BY <2>2, <2>3, <3>3, EmptyOneEach
    <3> QED
      BY <2>2, <2>3, <3>3, <3>4
  <2>4. CASE u # s
    <3>1. new[u] = old[u]
      BY <2>1, <2>4
    <3> HIDE DEF new
    <3> QED
      BY <2>1, <2>2, <2>4, <3>1
  <2> QED
    BY <2>3, <2>4
<1>14. new = [u \in AnyType |-> new[u]]
  BY <1>12
<1>15. SetElementType(ts, s, t) = new
  BY <1>2 DEF old, m
<1> HIDE DEF new
<1>16. new = [u \in AnyType |-> [id |-> new[u].id, fields |-> new[u].fields, mappers |-> new[u].mappers]]
  BY <1>13, <1>14
<1>17. MapperLists(new)
  BY <1>13, <1>16 DEF MapperLists
<1>18. ASSUME NEW v \in AnyType, NEW x
       PROVE  x \in MappersOf(new, v) <=>
                /\ x \in MappersOf(ts, v) /\ v # s
                /\ ~ (x.b = s /\ \E y \in MappersOf(ts, s) : y.b = v)
  <2>1. CASE v = s
    <3>1. new[v].mappers = << >>
      BY <1>13, <2>1
    <3> QED
      BY <2>1, <3>1, EmptyOneEach DEF MappersOf, Listed
  <2>2. CASE v # s
    <3>1. MappersOf(new, v) = MappersOf(old, v)
      BY <1>13, <2>2 DEF MappersOf
    <3>2. x \in MappersOf(old, v) <=>
            /\ x \in MappersOf(ts, v)
            /\ ~ (x.b = s /\ \E l \in 1..m : ts[s].mappers[l].b = v)
      BY <1>11 DEF LeftOf, old
    <3>3. (\E y \in MappersOf(ts, s) : y.b = v) <=> \E l \in 1..m : ts[s].mappers[l].b = v
      BY DEF MappersOf, Listed, m
    <3> QED
      BY <2>2, <3>1, <3>2, <3>3
  <2> QED
    BY <2>1, <2>2
<1> QED
  BY <1>13, <1>15, <1>17, <1>18

(* The copy of type u, without mappers yet.                                *)
CopyFields(ts, u, copy) ==
  [k \in DOMAIN ts[u].fields |->
     IF IsGeneric(ts, ts[u].fields[k].type)
       THEN [ts[u].fields[k] EXCEPT !.type = copy[@]] ELSE ts[u].fields[k]]
CopyMade(ts, u, copy) ==
  [ts EXCEPT ![copy[u]] = [id |-> ts[u].id, fields |-> CopyFields(ts, u, copy), mappers |-> << >>]]

(* The types with more and more of the mappers of the copy.                *)
CopyOneRun(g, ts, u, copy) ==
  /\ g[0] = CopyMade(ts, u, copy)
  /\ \A k \in 1..Len(ts[u].mappers) : g[k] = CopyMapper(g[k - 1], copy[u], ts[u].mappers[k])
  /\ CopyOne(ts, u, copy) = g[Len(ts[u].mappers)]

(* The states of the loop over the mappers of one type exist.              *)
LEMMA CopyOneSteps ==
  ASSUME NEW ts, NEW u, NEW copy, Len(ts[u].mappers) \in Nat
  PROVE  \E g : CopyOneRun(g, ts, u, copy)
<1> DEFINE m == Len(ts[u].mappers)
           first == CopyMade(ts, u, copy)
           Is(f, n) == f = [k \in 0..n |-> IF k = 0 THEN first ELSE CopyMapper(f[k - 1], copy[u], ts[u].mappers[k])]
           mapped == CHOOSE f : Is(f, m)
           T == {n \in Nat : \E f : Is(f, n)}
<1>1. m \in Nat
  OBVIOUS
<1>2. 0 \in T
  <2> DEFINE f == [k \in 0..0 |-> first]
  <2>1. Is(f, 0)
    OBVIOUS
  <2> QED
    BY <2>1
<1>3. ASSUME NEW n \in Nat, n \in T PROVE n + 1 \in T
  <2>1. PICK f : Is(f, n)
    BY <1>3
  <2> DEFINE x == CopyMapper(f[n], copy[u], ts[u].mappers[n + 1])
             g == [k \in 0..(n + 1) |-> IF k = n + 1 THEN x ELSE f[k]]
  <2> HIDE DEF x
  <2>2. g[n + 1] = x /\ \A k \in 0..n : g[k] = f[k]
    OBVIOUS
  <2>3. ASSUME NEW k \in 0..(n + 1)
        PROVE  g[k] = IF k = 0 THEN first ELSE CopyMapper(g[k - 1], copy[u], ts[u].mappers[k])
    <3> HIDE DEF first, g
    <3>1. CASE k = n + 1
      <4>1. k - 1 = n /\ k # 0 /\ n \in 0..n
        BY <3>1
      <4> QED
        BY <2>2, <3>1, <4>1 DEF x
    <3>2. CASE k # n + 1 /\ k # 0
      <4>1. k \in 0..n /\ k - 1 \in 0..n
        BY <3>2
      <4>2. f[k] = CopyMapper(f[k - 1], copy[u], ts[u].mappers[k])
        BY <2>1, <3>2, <4>1
      <4> QED
        BY <2>2, <3>2, <4>1, <4>2
    <3>3. CASE k # n + 1 /\ k = 0
      <4>1. k \in 0..n
        BY <3>3
      <4>2. f[k] = first
        BY <2>1, <3>3, <4>1
      <4> QED
        BY <2>2, <3>3, <4>1, <4>2
    <3> QED
      BY <3>1, <3>2, <3>3
  <2>4. g = [k \in 0..(n + 1) |-> g[k]]
    OBVIOUS
  <2> HIDE DEF g, first
  <2>5. Is(g, n + 1)
    <3> DEFINE h == [k \in 0..(n + 1) |-> IF k = 0 THEN first ELSE CopyMapper(g[k - 1], copy[u], ts[u].mappers[k])]
    <3>1. \A k \in 0..(n + 1) : h[k] = g[k]
      BY <2>3
    <3>2. h = [k \in 0..(n + 1) |-> h[k]]
      OBVIOUS
    <3>3. h = g
      <4> HIDE DEF h
      <4> QED
        BY ONLY <2>4, <3>1, <3>2
    <3> QED
      BY <3>3
  <2> HIDE DEF Is
  <2> QED
    BY <2>5
<1> HIDE DEF T
<1>4. m \in T
  BY <1>1, <1>2, <1>3, EveryNatural
<1>5. Is(mapped, m)
  <2> HIDE DEF Is
  <2>1. \E f : Is(f, m)
    BY <1>4 DEF T
  <2> QED
    BY <2>1
<1>6. CopyOne(ts, u, copy) = mapped[m]
  BY DEF CopyOne, CopyMade, CopyFields
<1> HIDE DEF mapped
<1>7. mapped[0] = first /\ \A k \in 1..m : mapped[k] = CopyMapper(mapped[k - 1], copy[u], ts[u].mappers[k])
  <2> HIDE DEF first, m
  <2>1. \A k \in 0..m : mapped[k] = IF k = 0 THEN first ELSE CopyMapper(mapped[k - 1], copy[u], ts[u].mappers[k])
    BY <1>5
  <2>2. 0 \in 0..m /\ \A k \in 1..m : k \in 0..m /\ k # 0
    BY <1>1
  <2> QED
    BY <2>1, <2>2
<1>8. CopyOneRun(mapped, ts, u, copy)
  BY <1>6, <1>7 DEF CopyOneRun
<1> QED
  BY <1>8

(* A copy starts with an empty list and gets the mappers one by one.       *)
LEMMA CopyOneKeepsLists ==
  ASSUME NEW ts, MapperLists(ts), NEW u \in AnyType, NEW copy
  PROVE  MapperLists(CopyOne(ts, u, copy))
<1> DEFINE fields == CopyFields(ts, u, copy)
           fresh == [id |-> ts[u].id, fields |-> fields, mappers |-> << >>]
           made == CopyMade(ts, u, copy)
<1>0. MapperLists(made)
  <2> HIDE DEF fields
  <2>1. fresh = [id |-> fresh.id, fields |-> fresh.fields, mappers |-> fresh.mappers]
        /\ OneEach(fresh.mappers)
    BY EmptyOneEach
  <2> HIDE DEF fresh
  <2>2. ASSUME NEW v \in AnyType
        PROVE  /\ made[v] = [id |-> made[v].id, fields |-> made[v].fields, mappers |-> made[v].mappers]
               /\ OneEach(made[v].mappers)
    <3>1. v \in DOMAIN ts /\ OneEach(ts[v].mappers)
          /\ ts[v] = [id |-> ts[v].id, fields |-> ts[v].fields, mappers |-> ts[v].mappers]
      BY DEF MapperLists
    <3>2. made[v] = fresh \/ made[v] = ts[v]
      BY <3>1 DEF CopyMade, fresh, fields
    <3> HIDE DEF made
    <3> QED
      BY <2>1, <3>1, <3>2
  <2>3. made = [v \in AnyType |-> made[v]]
    BY DEF MapperLists, CopyMade
  <2> HIDE DEF made
  <2>4. made = [v \in AnyType |-> [id |-> made[v].id, fields |-> made[v].fields, mappers |-> made[v].mappers]]
    BY <2>2, <2>3
  <2> QED
    BY <2>2, <2>4 DEF MapperLists
<1> HIDE DEF made
<1> DEFINE m == Len(ts[u].mappers)
           first == made
<1>1. m \in Nat
  BY ListFacts DEF MapperLists, OneEach
<1>3. PICK mapped : CopyOneRun(mapped, ts, u, copy)
  BY <1>1, CopyOneSteps
<1>2. /\ mapped[0] = first
      /\ \A k \in 1..m : mapped[k] = CopyMapper(mapped[k - 1], copy[u], ts[u].mappers[k])
      /\ CopyOne(ts, u, copy) = mapped[m]
  BY <1>3 DEF CopyOneRun, made
<1> HIDE DEF m
<1> DEFINE G == {k \in Nat : k <= m => MapperLists(mapped[k])}
<1>8. 0 \in G
  <2>1. MapperLists(first)
    BY <1>0
  <2> HIDE DEF first
  <2> QED
    BY <1>2, <2>1
<1>9. ASSUME NEW k \in Nat, k \in G PROVE k + 1 \in G
  <2> SUFFICES ASSUME k + 1 <= m PROVE MapperLists(mapped[k + 1])
    OBVIOUS
  <2>1. k + 1 \in 1..m /\ (k + 1) - 1 = k
    BY <1>1
  <2>2. MapperLists(mapped[k])
    BY <1>1, <1>9
  <2>3. mapped[k + 1] = CopyMapper(mapped[k], copy[u], ts[u].mappers[k + 1])
    BY <1>2, <2>1
  <2>4. MapperLists(CopyMapper(mapped[k], copy[u], ts[u].mappers[k + 1]))
    BY <2>2, AddKeepsLists DEF CopyMapper
  <2> QED
    BY <2>3, <2>4
<1> HIDE DEF G
<1>10. \A k \in Nat : k \in G
  BY <1>8, <1>9, EveryNatural
<1>11. MapperLists(mapped[m])
  BY <1>1, <1>10 DEF G
<1> QED
  BY <1>2, <1>11

(* The types with more and more copies.                                    *)
CopyAllRun(g, ts, order, copy) ==
  /\ g[0] = ts
  /\ \A k \in 1..Len(order) : g[k] = CopyOne(g[k - 1], order[k], copy)
  /\ CopyAll(ts, order, copy) = g[Len(order)]

(* The states of the loop over the types to copy exist.                    *)
LEMMA CopyAllSteps ==
  ASSUME NEW ts, NEW order, NEW copy, Len(order) \in Nat
  PROVE  \E g : CopyAllRun(g, ts, order, copy)
<1> DEFINE m == Len(order)
           first == ts
           Is(f, n) == f = [k \in 0..n |-> IF k = 0 THEN first ELSE CopyOne(f[k - 1], order[k], copy)]
           copied == CHOOSE f : Is(f, m)
           T == {n \in Nat : \E f : Is(f, n)}
<1>1. m \in Nat
  OBVIOUS
<1>2. 0 \in T
  <2> DEFINE f == [k \in 0..0 |-> first]
  <2>1. Is(f, 0)
    OBVIOUS
  <2> QED
    BY <2>1
<1>3. ASSUME NEW n \in Nat, n \in T PROVE n + 1 \in T
  <2>1. PICK f : Is(f, n)
    BY <1>3
  <2> DEFINE x == CopyOne(f[n], order[n + 1], copy)
             g == [k \in 0..(n + 1) |-> IF k = n + 1 THEN x ELSE f[k]]
  <2> HIDE DEF x
  <2>2. g[n + 1] = x /\ \A k \in 0..n : g[k] = f[k]
    OBVIOUS
  <2>3. ASSUME NEW k \in 0..(n + 1)
        PROVE  g[k] = IF k = 0 THEN first ELSE CopyOne(g[k - 1], order[k], copy)
    <3> HIDE DEF first, g
    <3>1. CASE k = n + 1
      <4>1. k - 1 = n /\ k # 0 /\ n \in 0..n
        BY <3>1
      <4> QED
        BY <2>2, <3>1, <4>1 DEF x
    <3>2. CASE k # n + 1 /\ k # 0
      <4>1. k \in 0..n /\ k - 1 \in 0..n
        BY <3>2
      <4>2. f[k] = CopyOne(f[k - 1], order[k], copy)
        BY <2>1, <3>2, <4>1
      <4> QED
        BY <2>2, <3>2, <4>1, <4>2
    <3>3. CASE k # n + 1 /\ k = 0
      <4>1. k \in 0..n
        BY <3>3
      <4>2. f[k] = first
        BY <2>1, <3>3, <4>1
      <4> QED
        BY <2>2, <3>3, <4>1, <4>2
    <3> QED
      BY <3>1, <3>2, <3>3
  <2>4. g = [k \in 0..(n + 1) |-> g[k]]
    OBVIOUS
  <2> HIDE DEF g, first
  <2>5. Is(g, n + 1)
    <3> DEFINE h == [k \in 0..(n + 1) |-> IF k = 0 THEN first ELSE CopyOne(g[k - 1], order[k], copy)]
    <3>1. \A k \in 0..(n + 1) : h[k] = g[k]
      BY <2>3
    <3>2. h = [k \in 0..(n + 1) |-> h[k]]
      OBVIOUS
    <3>3. h = g
      <4> HIDE DEF h
      <4> QED
        BY ONLY <2>4, <3>1, <3>2
    <3> QED
      BY <3>3
  <2> HIDE DEF Is
  <2> QED
    BY <2>5
<1> HIDE DEF T
<1>4. m \in T
  BY <1>1, <1>2, <1>3, EveryNatural
<1>5. Is(copied, m)
  <2> HIDE DEF Is
  <2>1. \E f : Is(f, m)
    BY <1>4 DEF T
  <2> QED
    BY <2>1
<1>6. CopyAll(ts, order, copy) = copied[m]
  BY DEF CopyAll
<1> HIDE DEF copied
<1>7. copied[0] = first /\ \A k \in 1..m : copied[k] = CopyOne(copied[k - 1], order[k], copy)
  <2> HIDE DEF first, m
  <2>1. \A k \in 0..m : copied[k] = IF k = 0 THEN first ELSE CopyOne(copied[k - 1], order[k], copy)
    BY <1>5
  <2>2. 0 \in 0..m /\ \A k \in 1..m : k \in 0..m /\ k # 0
    BY <1>1
  <2> QED
    BY <2>1, <2>2
<1>8. CopyAllRun(copied, ts, order, copy)
  BY <1>6, <1>7 DEF CopyAllRun
<1> QED
  BY <1>8

(* So do the copies of all types of one copy operation.                    *)
LEMMA CopyAllKeepsLists ==
  ASSUME NEW ts, MapperLists(ts), NEW order, order \in Seq(AnyType), NEW copy
  PROVE  MapperLists(CopyAll(ts, order, copy))
<1> DEFINE m == Len(order)
           first == ts
<1>1. m \in Nat
  BY LenProperties
<1>0. PICK copied : CopyAllRun(copied, ts, order, copy)
  BY <1>1, CopyAllSteps
<1>2. /\ copied[0] = first
      /\ \A k \in 1..m : copied[k] = CopyOne(copied[k - 1], order[k], copy)
      /\ CopyAll(ts, order, copy) = copied[m]
  BY <1>0 DEF CopyAllRun
<1> HIDE DEF m
<1> DEFINE G == {k \in Nat : k <= m => MapperLists(copied[k])}
<1>8. 0 \in G
  <2>1. MapperLists(first)
    OBVIOUS
  <2> HIDE DEF first
  <2> QED
    BY <1>2, <2>1
<1>9. ASSUME NEW k \in Nat, k \in G PROVE k + 1 \in G
  <2> SUFFICES ASSUME k + 1 <= m PROVE MapperLists(copied[k + 1])
    OBVIOUS
  <2>1. k + 1 \in 1..m /\ (k + 1) - 1 = k
    BY <1>1
  <2>2. MapperLists(copied[k])
    BY <1>1, <1>9
  <2>3. copied[k + 1] = CopyOne(copied[k], order[k + 1], copy)
    BY <1>2, <2>1
  <2>4. MapperLists(CopyOne(copied[k], order[k + 1], copy))
    BY <2>1, <2>2, CopyOneKeepsLists, ElementOfSeq DEF m
  <2> QED
    BY <2>3, <2>4
<1> HIDE DEF G
<1>10. \A k \in Nat : k \in G
  BY <1>8, <1>9, EveryNatural
<1>11. MapperLists(copied[m])
  BY <1>1, <1>10 DEF G
<1> QED
  BY <1>2, <1>11

(* No type has mappers to begin with.                                      *)
LEMMA TypesStart == TypesInit => MapperLists(types)
<1> SUFFICES ASSUME TypesInit PROVE MapperLists(types)
  OBVIOUS
<1>1. types = [t \in AnyType |-> types[t]]
  BY DEF TypesInit
<1>2. ASSUME NEW t \in AnyType
      PROVE  /\ types[t] = [id |-> types[t].id, fields |-> types[t].fields, mappers |-> types[t].mappers]
             /\ types[t].mappers = << >>
  <2>1. CASE t \in Type
    BY <2>1 DEF TypesInit
  <2>2. CASE t \notin Type
    BY <2>2 DEF TypesInit, NotMade
  <2> QED
    BY <2>1, <2>2
<1>3. types = [t \in AnyType |->
         [id |-> types[t].id, fields |-> types[t].fields, mappers |-> types[t].mappers]]
  BY <1>1, <1>2
<1> QED
  BY <1>2, <1>3, EmptyOneEach DEF MapperLists

(* Adding a field touches no list.                                         *)
LEMMA AddFieldKeepsLists ==
  ASSUME MapperLists(types), NEW r, NEW t, UserAddField(r, t)
  PROVE  MapperLists(types')
<1> DEFINE part == [type |-> t, reverse |-> FALSE]
           new == [types EXCEPT ![r].fields = Append(@, part)]
<1>1. types' = new
  BY DEF UserAddField
<1>2. ASSUME NEW u \in AnyType
      PROVE  /\ new[u] = [id |-> new[u].id, fields |-> new[u].fields, mappers |-> new[u].mappers]
             /\ new[u].mappers = types[u].mappers
  <2>1. /\ types[u] = [id |-> types[u].id, fields |-> types[u].fields, mappers |-> types[u].mappers]
        /\ u \in DOMAIN types
    BY DEF MapperLists
  <2> HIDE DEF part
  <2>2. CASE u = r
    <3>1. new[u] = [types[u] EXCEPT !.fields = Append(@, part)]
      BY <2>1, <2>2
    <3> HIDE DEF new
    <3> QED
      BY <2>1, <3>1
  <2>3. CASE u # r
    <3>1. new[u] = types[u]
      BY <2>1, <2>3
    <3> HIDE DEF new
    <3> QED
      BY <2>1, <3>1
  <2> QED
    BY <2>2, <2>3
<1>3. new = [u \in AnyType |-> new[u]]
  BY DEF MapperLists
<1> HIDE DEF new
<1>4. new = [u \in AnyType |-> [id |-> new[u].id, fields |-> new[u].fields, mappers |-> new[u].mappers]]
  BY <1>2, <1>3
<1> QED
  BY <1>1, <1>2, <1>4 DEF MapperLists

(* Every operation keeps it.                                               *)
LEMMA TypesNextKeepsLists ==
  ASSUME MapperLists(types), [TypesNext]_mapperVars
  PROVE  MapperLists(types')
<1>1. CASE \E t, u \in Made, map \in Maps : UserAddMapper(t, u, map)
  BY <1>1, AddKeepsLists DEF UserAddMapper
<1>2. CASE \E t, u \in Made : UserAddWrongMapper(t, u)
  BY <1>2, RemoveKeepsLists DEF UserAddWrongMapper
<1>3. CASE \E t, u \in Made : UserRemoveMappers(t, u)
  BY <1>3, RemoveKeepsLists DEF UserRemoveMappers
<1>4. CASE \E s \in Stream, t \in ElementTypes : UserSetElementType(s, t)
  <2>1. \A s \in Stream : s \in AnyType
    BY TypeMappersAssumption DEF AnyType
  <2> QED
    <3>1. \A s, t : s \in AnyType => MapperLists(SetElementType(types, s, t))
      BY SetElementEffect
    <3> QED
      BY <1>4, <2>1, <3>1 DEF UserSetElementType
<1>5. CASE \E r \in Made, t \in ElementTypes : UserAddField(r, t)
  BY <1>5, AddFieldKeepsLists
<1>6. CASE \E t \in Made : UserCopy(t)
  BY <1>6, CopyAllKeepsLists DEF UserCopy
<1>7. CASE UNCHANGED mapperVars
  BY <1>7 DEF mapperVars
<1> QED
  BY <1>1, <1>2, <1>3, <1>4, <1>5, <1>6, <1>7 DEF TypesNext

(* GetMapper never has a choice, whatever the client does (AddMapper,      *)
(* RemoveMappersTo, SetElementType and Copy in type.cc and stream.cc).     *)
THEOREM MappersAreOnePerTarget == TypesSpec => []OneMapperPerTarget
<1>1. MapperLists(types) => OneMapperPerTarget
  <2> SUFFICES ASSUME MapperLists(types), NEW t \in Made,
                      NEW j \in DOMAIN types[t].mappers, NEW k \in DOMAIN types[t].mappers,
                      types[t].mappers[j].b = types[t].mappers[k].b
               PROVE  j = k
    BY DEF OneMapperPerTarget
  <2>1. OneEach(types[t].mappers)
    BY DEF MapperLists, Made
  <2>2. DOMAIN types[t].mappers = 1..Len(types[t].mappers)
    BY <2>1, ListFacts DEF OneEach
  <2> QED
    BY <2>1, <2>2 DEF OneEach
<1>2. MapperLists(types) /\ [TypesNext]_mapperVars => MapperLists(types)'
  BY TypesNextKeepsLists
<1> QED
  BY <1>1, <1>2, TypesStart, PTL DEF TypesSpec

-----------------------------------------------------------------------------
(* What AddMapper does, in types where nothing is inside itself: lists of  *)
(* mappers are now taken as the sets of what is in them.                   *)

(* Types with the same fields are founded as well.                         *)
LEMMA FoundedAlike ==
  ASSUME NEW ts, Founded(ts), NEW us, AlikeIn(ts, us, AnyType)
  PROVE  Founded(us)
<1>1. PICK B, depth : Depths(ts, B, depth)
  BY DEF Founded
<1>2. \A u \in AnyType : us[u].fields = ts[u].fields
  BY DEF AlikeIn
<1>3. Depths(us, B, depth)
  BY <1>1, <1>2 DEF Depths
<1> QED
  BY <1>3 DEF Founded

(* The types of fields are types.                                          *)
LEMMA AllClosed ==
  ASSUME NEW ts, Founded(ts)
  PROVE  ClosedIn(ts, AnyType)
BY FieldFacts DEF ClosedIn

(* Stored speaks of the same mappers.                                      *)
LEMMA StoredMappers ==
  ASSUME NEW ts, MapperLists(ts), NEW t \in AnyType
  PROVE  ToSet(ts[t].mappers) = MappersOf(ts, t)
<1>1. OneEach(ts[t].mappers)
  BY DEF MapperLists
<1>2. DOMAIN ts[t].mappers = 1..Len(ts[t].mappers)
  BY <1>1, ListFacts DEF OneEach
<1> QED
  BY <1>2 DEF ToSet, MappersOf, Listed

(* What AddMapper changes.                                                 *)
Adds(ts, us, m) ==
  /\ MapperLists(us) /\ AlikeIn(ts, us, AnyType)
  /\ \A v \in AnyType : \A x :
       x \in MappersOf(us, v) <=>
         \/ x \in MappersOf(ts, v) /\ ~ (v = m.a /\ x.b = m.b)
         \/ v = m.a /\ x = m
         \/ v = m.b /\ x = InverseMapper(ts, m) /\ \A y \in MappersOf(ts, v) : y.b # m.a

(* Adding a mapper between types that are not equal: it is there, and its  *)
(* inverse, if there was no mapper back.                                   *)
LEMMA AddEffect ==
  ASSUME NEW ts, MapperLists(ts), Founded(ts), NEW m, m.a \in AnyType, m.b \in AnyType,
         m.a # m.b, ~ IsEqual(ts, m.b, m.a)
  PROVE  Adds(ts, AddMapper(ts, m), m)
<1> DEFINE removed == RemoveMappersTo(ts, m.a, m.b)
           added == [removed EXCEPT ![m.a].mappers = Append(@, m)]
           inv == InverseMapper(added, m)
           both == [added EXCEPT ![m.b].mappers = Append(@, inv)]
           us == AddMapper(ts, m)
<1>1. us = IF CanConvert(added, m.b, m.a) THEN added ELSE both
  BY DEF AddMapper
<1>2. /\ MapperLists(removed) /\ AlikeIn(ts, removed, AnyType)
      /\ \A v \in AnyType : MappersOf(removed, v) = {x \in MappersOf(ts, v) : v = m.a => x.b # m.b}
      /\ \A k \in 1..Len(removed[m.a].mappers) : removed[m.a].mappers[k].b # m.b
  BY RemoveKeepsLists
<1>3. MapperLists(us)
  BY AddKeepsLists
<1> HIDE DEF removed, us
<1>4. /\ MapperLists(added) /\ AlikeIn(removed, added, AnyType)
      /\ \A v \in AnyType : MappersOf(added, v) = MappersOf(removed, v) \cup {x \in {m} : v = m.a}
  <2>1. Appended(removed, added, m.a, m)
    BY <1>2, AppendKeepsLists
  <2> QED
    BY <2>1 DEF Appended
<1> HIDE DEF added
<1>5. AlikeIn(ts, added, AnyType)
  BY <1>2, <1>4 DEF AlikeIn
<1>6. Founded(added) /\ ClosedIn(ts, AnyType)
  BY <1>5, FoundedAlike, AllClosed
<1>7. ~ IsEqual(added, m.b, m.a)
  BY <1>5, <1>6, EqualAlike
<1>8. inv = InverseMapper(ts, m)
  <2>1. \A u \in AnyType : Flatten(added, u) = Flatten(ts, u)
    BY <1>5, <1>6, FlattenAlike
  <2> QED
    BY <2>1 DEF InverseMapper, Mapper
<1>9. inv.b = m.a
  BY DEF InverseMapper, Mapper
<1> HIDE DEF inv
<1>10. CanConvert(added, m.b, m.a) <=> \E y \in MappersOf(ts, m.b) : y.b = m.a
  <2>1. CanConvert(added, m.b, m.a) <=> Stored(added, m.b, m.a)
    BY <1>7 DEF CanConvert
  <2>2. Stored(added, m.b, m.a) <=> \E y \in MappersOf(added, m.b) : y.b = m.a
    BY <1>4, StoredMappers DEF Stored
  <2>3. \A y : y \in MappersOf(added, m.b) <=> y \in MappersOf(ts, m.b)
    BY <1>2, <1>4
  <2> QED
    BY <2>1, <2>2, <2>3
<1>11. ASSUME NEW v \in AnyType, NEW x
       PROVE  x \in MappersOf(added, v) <=>
                \/ x \in MappersOf(ts, v) /\ ~ (v = m.a /\ x.b = m.b)
                \/ v = m.a /\ x = m
  <2>1. x \in MappersOf(added, v) <=> x \in MappersOf(removed, v) \/ (x = m /\ v = m.a)
    BY <1>4
  <2>2. x \in MappersOf(removed, v) <=> x \in MappersOf(ts, v) /\ (v = m.a => x.b # m.b)
    BY <1>2
  <2> QED
    BY <2>1, <2>2
<1>12. CASE CanConvert(added, m.b, m.a)
  <2>1. us = added
    BY <1>1, <1>12
  <2>2. ~ \A y \in MappersOf(ts, m.b) : y.b # m.a
    BY <1>10, <1>12
  <2> QED
    BY <1>3, <1>5, <1>11, <2>1, <2>2 DEF Adds, us
<1>13. CASE ~ CanConvert(added, m.b, m.a)
  <2>1. us = both
    BY <1>1, <1>13
  <2>2. \A y \in MappersOf(ts, m.b) : y.b # m.a
    BY <1>10, <1>13
  <2>3. \A k \in 1..Len(added[m.b].mappers) : added[m.b].mappers[k].b # inv.b
    <3>1. \A y \in MappersOf(added, m.b) : y.b # m.a
      BY <1>2, <1>4, <2>2
    <3> QED
      BY <1>9, <3>1 DEF MappersOf, Listed
  <2>4. /\ AlikeIn(added, both, AnyType)
        /\ \A v \in AnyType : MappersOf(both, v) = MappersOf(added, v) \cup {x \in {inv} : v = m.b}
    <3>1. Appended(added, both, m.b, inv)
      BY <1>4, <2>3, AppendKeepsLists
    <3> QED
      BY <3>1 DEF Appended
  <2> HIDE DEF both
  <2>5. AlikeIn(ts, us, AnyType)
    BY <1>5, <2>1, <2>4 DEF AlikeIn
  <2>6. ASSUME NEW v \in AnyType, NEW x
        PROVE  x \in MappersOf(us, v) <=>
                 \/ x \in MappersOf(ts, v) /\ ~ (v = m.a /\ x.b = m.b)
                 \/ v = m.a /\ x = m
                 \/ v = m.b /\ x = InverseMapper(ts, m) /\ \A y \in MappersOf(ts, v) : y.b # m.a
    <3>1. x \in MappersOf(us, v) <=> x \in MappersOf(added, v) \/ (x = inv /\ v = m.b)
      BY <2>1, <2>4
    <3> QED
      BY <1>8, <1>11, <2>2, <3>1
  <2> QED
    BY <1>3, <2>5, <2>6 DEF Adds, us
<1> QED
  BY <1>12, <1>13

-----------------------------------------------------------------------------
(* What adding a mapper keeps. The clients that matter here are ordinary   *)
(* ones: they map types that are not equal and take no mapper away.        *)

IsMatrix(x) ==
  /\ x = [map |-> x.map, transposed |-> x.transposed, height |-> x.height, width |-> x.width]
  /\ x.transposed \in BOOLEAN

(* Mappers are between two different types in C.                           *)
Between(ts, C) ==
  \A t \in AnyType : \A x \in MappersOf(ts, t) :
    t \in C /\ x.b \in C /\ x.b # t /\ IsMatrix(x.matrix)

(* Where there is a mapper, there is one back.                             *)
Mutual(ts) ==
  \A t \in AnyType : \A x \in MappersOf(ts, t) : \E y \in MappersOf(ts, x.b) : y.b = t

(* The one back does the same.                                             *)
Opposed(ts) ==
  \A t \in AnyType : \A x \in MappersOf(ts, t) : \A y \in MappersOf(ts, x.b) :
    y.b = t => y.matrix = Transpose(x.matrix)

(* The mapper x of type t is about the parts of the types in ref.          *)
Fits(ref, t, x) ==
  /\ x.flat_a = Flatten(ref, t) /\ x.flat_b = Flatten(ref, x.b)
  /\ x.matrix.height = Len(x.flat_a) /\ x.matrix.width = Len(x.flat_b)

AllFit(ref, ts) == \A t \in AnyType : \A x \in MappersOf(ts, t) : Fits(ref, t, x)

(* The inverse of a mapper goes back, with the matrix transposed;          *)
(* transposing it again gives the matrix of the mapper.                    *)
LEMMA InverseFacts ==
  ASSUME NEW ts, NEW m
  PROVE  LET inv == InverseMapper(ts, m)
         IN  /\ inv.b = m.a /\ inv.matrix = Transpose(m.matrix)
             /\ inv.flat_a = Flatten(ts, m.b) /\ inv.flat_b = Flatten(ts, m.a)
             /\ inv.matrix.height = m.matrix.width /\ inv.matrix.width = m.matrix.height
             /\ IsMatrix(m.matrix) => /\ IsMatrix(inv.matrix)
                                      /\ m.matrix = Transpose(inv.matrix)
<1> DEFINE inv == InverseMapper(ts, m)
           x == Transpose(m.matrix)
<1>1. inv = [a |-> m.b, b |-> m.a, flat_a |-> Flatten(ts, m.b), flat_b |-> Flatten(ts, m.a), matrix |-> x]
  BY DEF InverseMapper, Mapper
<1>2. x = [map |-> m.matrix.map, transposed |-> ~ m.matrix.transposed,
           height |-> m.matrix.width, width |-> m.matrix.height]
  BY DEF Transpose
<1>3. IsMatrix(m.matrix) => IsMatrix(x) /\ m.matrix = Transpose(x)
  <2> SUFFICES ASSUME IsMatrix(m.matrix) PROVE IsMatrix(x) /\ m.matrix = Transpose(x)
    OBVIOUS
  <2>1. m.matrix.transposed \in BOOLEAN
    BY DEF IsMatrix
  <2>2. (~ ~ m.matrix.transposed) = m.matrix.transposed
    BY <2>1
  <2>3. x.map = m.matrix.map /\ x.transposed = (~ m.matrix.transposed)
        /\ x.height = m.matrix.width /\ x.width = m.matrix.height
    BY <1>2
  <2>4. IsMatrix(x)
    BY <1>2, <2>1, <2>3 DEF IsMatrix
  <2>5. Transpose(x) = [map |-> x.map, transposed |-> ~ x.transposed, height |-> x.width, width |-> x.height]
    BY DEF Transpose
  <2>6. (~ x.transposed) = m.matrix.transposed
    BY <2>1, <2>3
  <2> HIDE DEF x
  <2>7. Transpose(x) = [map |-> m.matrix.map, transposed |-> m.matrix.transposed,
                        height |-> m.matrix.height, width |-> m.matrix.width]
    BY <2>3, <2>5, <2>6
  <2> QED
    BY <2>4, <2>7 DEF IsMatrix
<1> HIDE DEF inv, x
<1>4. /\ inv.b = m.a /\ inv.matrix = x
      /\ inv.flat_a = Flatten(ts, m.b) /\ inv.flat_b = Flatten(ts, m.a)
  BY <1>1
<1>5. x.height = m.matrix.width /\ x.width = m.matrix.height
  BY <1>2
<1> QED
  BY <1>3, <1>4, <1>5 DEF inv, x

(* The mapper that is added and its inverse are between types in C, too.   *)
LEMMA AddBetween ==
  ASSUME NEW ts, NEW us, NEW m, NEW C, Adds(ts, us, m), Between(ts, C),
         m.a \in C, m.b \in C, m.a # m.b, IsMatrix(m.matrix)
  PROVE  Between(us, C)
<1> DEFINE inv == InverseMapper(ts, m)
<1>1. inv.b = m.a /\ IsMatrix(inv.matrix)
  BY InverseFacts
<1> HIDE DEF inv
<1>2. ASSUME NEW v \in AnyType, NEW x \in MappersOf(us, v)
      PROVE  v \in C /\ x.b \in C /\ x.b # v /\ IsMatrix(x.matrix)
  <2>1. x \in MappersOf(ts, v) \/ (v = m.a /\ x = m) \/ (v = m.b /\ x = inv)
    BY DEF Adds, inv
  <2> QED
    BY <1>1, <2>1 DEF Between
<1> QED
  BY <1>2 DEF Between

(* There is a mapper back from the one that is added, too: either it was   *)
(* there, or it is added with it.                                          *)
LEMMA AddMutual ==
  ASSUME NEW ts, NEW us, NEW m, NEW C, C \subseteq AnyType, Adds(ts, us, m), Between(ts, C),
         m.a \in C, m.b \in C, m.a # m.b, Mutual(ts)
  PROVE  Mutual(us)
<1> DEFINE inv == InverseMapper(ts, m)
<1>1. inv.b = m.a
  BY InverseFacts
<1>2. \A v \in AnyType : \A x :
       x \in MappersOf(us, v) <=>
         \/ x \in MappersOf(ts, v) /\ ~ (v = m.a /\ x.b = m.b)
         \/ v = m.a /\ x = m
         \/ v = m.b /\ x = inv /\ \A y \in MappersOf(ts, v) : y.b # m.a
  BY DEF Adds
<1> HIDE DEF inv
<1>3. m \in MappersOf(us, m.a)
  BY <1>2
<1>4. ASSUME NEW v \in AnyType, NEW x \in MappersOf(us, v)
      PROVE  \E y \in MappersOf(us, x.b) : y.b = v
  <2>1. CASE v = m.a /\ x = m
    <3>1. CASE \E y \in MappersOf(ts, m.b) : y.b = m.a
      <4>1. PICK y \in MappersOf(ts, m.b) : y.b = m.a
        BY <3>1
      <4>2. y \in MappersOf(us, m.b)
        BY <1>2, <4>1
      <4> QED
        BY <2>1, <4>1, <4>2
    <3>2. CASE ~ \E y \in MappersOf(ts, m.b) : y.b = m.a
      <4>1. inv \in MappersOf(us, m.b)
        BY <1>2, <3>2
      <4> QED
        BY <1>1, <2>1, <4>1
    <3> QED
      BY <3>1, <3>2
  <2>2. CASE v = m.b /\ x = inv
    BY <1>1, <1>3, <2>2
  <2>3. CASE x \in MappersOf(ts, v) /\ ~ (v = m.a /\ x.b = m.b)
    <3>1. PICK y \in MappersOf(ts, x.b) : y.b = v
      BY <2>3 DEF Mutual
    <3>2. x.b \in AnyType
      BY <2>3 DEF Between
    <3>3. CASE x.b = m.a /\ v = m.b
      BY <1>3, <3>3
    <3>4. CASE ~ (x.b = m.a /\ v = m.b)
      <4>1. y \in MappersOf(us, x.b)
        BY <1>2, <3>1, <3>2, <3>4
      <4> QED
        BY <3>1, <4>1
    <3> QED
      BY <3>3, <3>4
  <2> QED
    BY <1>2, <2>1, <2>2, <2>3
<1> QED
  BY <1>4 DEF Mutual

(* It does the same if there was no mapper between the two types before.   *)
(* When one is replaced, the old inverse stays (type.cc:103).              *)
LEMMA AddOpposed ==
  ASSUME NEW ts, NEW us, NEW m, NEW C, C \subseteq AnyType, Adds(ts, us, m), Between(ts, C),
         m.a \in C, m.b \in C, m.a # m.b, IsMatrix(m.matrix), Opposed(ts),
         \A x \in MappersOf(ts, m.a) : x.b # m.b,
         \A x \in MappersOf(ts, m.b) : x.b # m.a
  PROVE  Opposed(us)
<1> DEFINE inv == InverseMapper(ts, m)
<1>1. inv.b = m.a /\ inv.matrix = Transpose(m.matrix) /\ m.matrix = Transpose(inv.matrix)
  BY InverseFacts
<1>2. \A v \in AnyType : \A x : x \in MappersOf(us, v) =>
        x \in MappersOf(ts, v) \/ (v = m.a /\ x = m) \/ (v = m.b /\ x = inv)
  BY DEF Adds
<1> HIDE DEF inv
<1>3. ASSUME NEW v \in AnyType, NEW x \in MappersOf(us, v), NEW y \in MappersOf(us, x.b), y.b = v
      PROVE  y.matrix = Transpose(x.matrix)
  <2>1. x \in MappersOf(ts, v) \/ (v = m.a /\ x = m) \/ (v = m.b /\ x = inv)
    BY <1>2
  <2>2. x.b \in AnyType
    BY <1>1, <2>1 DEF Between
  <2>3. y \in MappersOf(ts, x.b) \/ (x.b = m.a /\ y = m) \/ (x.b = m.b /\ y = inv)
    BY <1>2, <2>2
  <2>4. CASE x \in MappersOf(ts, v)
    <3>1. y \in MappersOf(ts, x.b)
      BY <1>1, <1>3, <2>3, <2>4
    <3> QED
      BY <1>3, <2>4, <3>1 DEF Opposed
  <2>5. CASE v = m.a /\ x = m
    <3>1. y = inv
      BY <1>3, <2>3, <2>5
    <3> QED
      BY <1>1, <2>5, <3>1
  <2>6. CASE v = m.b /\ x = inv
    <3>1. y = m
      BY <1>1, <1>3, <2>3, <2>6
    <3> QED
      BY <1>1, <2>6, <3>1
  <2> QED
    BY <2>1, <2>4, <2>5, <2>6
<1> QED
  BY <1>3 DEF Opposed

(* Both are about the parts of the types as they are.                      *)
LEMMA AddFits ==
  ASSUME NEW ts, NEW us, NEW m, NEW ref, Adds(ts, us, m), AllFit(ref, ts), Fits(ref, m.a, m),
         Flatten(ts, m.a) = Flatten(ref, m.a), Flatten(ts, m.b) = Flatten(ref, m.b)
  PROVE  AllFit(ref, us)
<1> DEFINE inv == InverseMapper(ts, m)
<1>1. /\ inv.b = m.a
      /\ inv.flat_a = Flatten(ts, m.b) /\ inv.flat_b = Flatten(ts, m.a)
      /\ inv.matrix.height = m.matrix.width /\ inv.matrix.width = m.matrix.height
  BY InverseFacts
<1>2. \A v \in AnyType : \A x : x \in MappersOf(us, v) =>
        x \in MappersOf(ts, v) \/ (v = m.a /\ x = m) \/ (v = m.b /\ x = inv)
  BY DEF Adds
<1> HIDE DEF inv
<1>3. Fits(ref, m.b, inv)
  BY <1>1 DEF Fits
<1> QED
  BY <1>2, <1>3 DEF AllFit

(* What holds of the mappers of types in C, the latter two of them only    *)
(* for some clients.                                                       *)
Sound(ref, ts, C, strict, fit) ==
  /\ Between(ts, C) /\ Mutual(ts)
  /\ strict => Opposed(ts)
  /\ fit => AllFit(ref, ts)

(* There is no mapper between the two types of m.                          *)
Fresh(ts, m) ==
  /\ \A x \in MappersOf(ts, m.a) : x.b # m.b
  /\ \A x \in MappersOf(ts, m.b) : x.b # m.a

(* All of this for a mapper between types that are not equal in ref, where *)
(* the types are, or will be, as ref says.                                 *)
LEMMA AddSound ==
  ASSUME NEW ref, Founded(ref), NEW C, ClosedIn(ref, C),
         NEW ts, MapperLists(ts), Founded(ts), AlikeIn(ref, ts, C),
         NEW strict, NEW fit, Sound(ref, ts, C, strict, fit),
         NEW m, m.a \in C, m.b \in C, m.a # m.b, IsMatrix(m.matrix),
         ~ IsEqual(ref, m.b, m.a),
         fit => Fits(ref, m.a, m),
         strict => Fresh(ts, m)
  PROVE  LET us == AddMapper(ts, m)
         IN  /\ Adds(ts, us, m) /\ Founded(us) /\ AlikeIn(ref, us, C)
             /\ Sound(ref, us, C, strict, fit)
<1> DEFINE us == AddMapper(ts, m)
<1>1. C \subseteq AnyType /\ m.a \in AnyType /\ m.b \in AnyType
  BY DEF ClosedIn
<1>2. ~ IsEqual(ts, m.b, m.a)
  BY EqualAlike
<1>3. Adds(ts, us, m)
  BY <1>1, <1>2, AddEffect
<1> HIDE DEF us
<1>4. AlikeIn(ts, us, AnyType)
  BY <1>3 DEF Adds
<1>5. Founded(us)
  BY <1>4, FoundedAlike
<1>6. AlikeIn(ref, us, C)
  BY <1>1, <1>4 DEF AlikeIn
<1>7. Between(ts, C) /\ Mutual(ts)
  BY DEF Sound
<1>8. Between(us, C)
  BY <1>3, <1>7, AddBetween
<1>9. Mutual(us)
  BY <1>1, <1>3, <1>7, AddMutual
<1>10. strict => Opposed(us)
  <2> SUFFICES ASSUME strict PROVE Opposed(us)
    OBVIOUS
  <2>1. Opposed(ts) /\ Fresh(ts, m)
    BY DEF Sound
  <2>2. /\ \A x \in MappersOf(ts, m.a) : x.b # m.b
        /\ \A x \in MappersOf(ts, m.b) : x.b # m.a
    BY <2>1 DEF Fresh
  <2> QED
    BY <1>1, <1>3, <1>7, <2>1, <2>2, AddOpposed
<1>11. fit => AllFit(ref, us)
  <2> SUFFICES ASSUME fit PROVE AllFit(ref, us)
    OBVIOUS
  <2>1. AllFit(ref, ts) /\ Fits(ref, m.a, m)
    BY DEF Sound
  <2>2. Flatten(ts, m.a) = Flatten(ref, m.a) /\ Flatten(ts, m.b) = Flatten(ref, m.b)
    BY FlattenAlike
  <2> QED
    BY <1>3, <2>1, <2>2, AddFits
<1>12. Sound(ref, us, C, strict, fit)
  BY <1>8, <1>9, <1>10, <1>11 DEF Sound
<1> QED
  BY <1>3, <1>5, <1>6, <1>12 DEF us

(* The clients the three properties are about.                             *)
Ordinary == habits \cap {"equal", "remove"} = {}
Strict   == habits \subseteq {"nested", "grow"}
Exact    == habits \subseteq {"replace"}

(* The types that are made are the client's and the first of the copies;   *)
(* the others are empty.                                                   *)
MadeFirst ==
  /\ Type \subseteq Made
  /\ \E n \in 0..Len(Copies) : Made \ Type = {Copies[k] : k \in 1..n}
  /\ \A u \in AnyType \ Made : types[u].id = "none" /\ types[u].fields = << >>

(* What holds of the types themselves, and of types and mappers together:  *)
(* the inductive invariant.                                                *)
Structure == MapperLists(types) /\ Founded(types) /\ ClosedIn(types, Made) /\ MadeFirst
TypesInv == Ordinary => Structure /\ Sound(types, types, Made, Strict, Exact)

(* Adding a mapper (Type::AddMapper) keeps the invariant.                  *)
LEMMA AddMapperSound ==
  ASSUME TypesInv, NEW t \in Made, NEW u \in Made, NEW map \in Maps, UserAddMapper(t, u, map), habits' = habits
  PROVE  TypesInv'
<1> SUFFICES ASSUME Ordinary PROVE (Structure /\ Sound(types, types, Made, Strict, Exact))'
  BY DEF TypesInv, Ordinary
<1> DEFINE m == Mapper(types, t, u, Matrix(types, t, u, map))
<1>1. /\ MapperLists(types) /\ Founded(types) /\ ClosedIn(types, Made) /\ MadeFirst
      /\ Sound(types, types, Made, Strict, Exact)
  BY DEF TypesInv, Structure
<1>2. t # u /\ ~ IsEqual(types, t, u) /\ ("replace" \in habits \/ ~ Stored(types, t, u)) /\ types' = AddMapper(types, m)
  BY DEF UserAddMapper, Ordinary
<1>3. m.a = t /\ m.b = u /\ m.matrix = Matrix(types, t, u, map)
      /\ m.flat_a = Flatten(types, t) /\ m.flat_b = Flatten(types, u)
  BY DEF Mapper
<1> HIDE DEF m
<1>4. IsMatrix(m.matrix) /\ Fits(types, m.a, m)
  BY <1>3 DEF Fits, IsMatrix, Matrix
<1>5. t \in AnyType /\ u \in AnyType
  BY DEF Made
<1>6. ~ IsEqual(types, m.b, m.a)
  BY <1>1, <1>2, <1>3, <1>5, EqualSymmetric
<1>7. Strict => Fresh(types, m)
  <2> SUFFICES ASSUME Strict PROVE Fresh(types, m)
    OBVIOUS
  <2>1. \A x \in MappersOf(types, t) : x.b # u
    BY <1>1, <1>2, <1>5, StoredMappers DEF Stored, Strict
  <2>2. \A x \in MappersOf(types, u) : x.b # t
    BY <1>1, <1>5, <2>1 DEF Sound, Mutual
  <2> QED
    BY <1>3, <2>1, <2>2 DEF Fresh
<1>8. AlikeIn(types, types, Made)
  BY DEF AlikeIn
<1>9. /\ Adds(types, types', m) /\ Founded(types') /\ AlikeIn(types, types', Made)
      /\ Sound(types, types', Made, Strict, Exact)
  <2>1. m.a \in Made /\ m.b \in Made /\ m.a # m.b
    BY <1>2, <1>3
  <2> HIDE DEF Strict, Exact, Made
  <2> QED
    BY <1>1, <1>2, <1>4, <1>6, <1>7, <1>8, <2>1, AddSound
<1>10. MapperLists(types') /\ AlikeIn(types, types', AnyType)
  BY <1>9 DEF Adds
<1>11. Made' = Made
  BY <1>10 DEF Made, AlikeIn
<1>12. ClosedIn(types', Made)
  BY <1>1, <1>9 DEF ClosedIn, AlikeIn
<1>13. MadeFirst'
  BY <1>1, <1>10, <1>11 DEF MadeFirst, AlikeIn
<1>14. Exact => AllFit(types', types')
  <2> SUFFICES ASSUME Exact PROVE AllFit(types', types')
    OBVIOUS
  <2>1. AllFit(types, types')
    BY <1>9 DEF Sound
  <2>2. \A v \in AnyType : Flatten(types', v) = Flatten(types, v)
    BY <1>1, <1>9, <1>10, AllClosed, FlattenAlike
  <2>3. \A v \in AnyType : \A x \in MappersOf(types', v) : x.b \in AnyType
    BY <1>9 DEF Sound, Between, Made
  <2> QED
    BY <2>1, <2>2, <2>3 DEF AllFit, Fits
<1>15. Sound(types', types', Made, Strict, Exact)
  BY <1>9, <1>14 DEF Sound
<1>16. (Strict <=> Strict') /\ (Exact <=> Exact')
  BY DEF Strict, Exact
<1>17. Sound(types, types, Made, Strict, Exact)'
  BY <1>11, <1>15, <1>16 DEF Sound
<1> QED
  BY <1>9, <1>10, <1>11, <1>12, <1>13, <1>17 DEF Structure

-----------------------------------------------------------------------------
(* Setting the element type of a stream and adding a field: the type gets  *)
(* one new field, of a type it is no part of.                              *)

(* The fields of s are those it had, or of type t.                         *)
FieldsFrom(ts, us, s, t) ==
  /\ us[s].fields \in Seq(Field)
  /\ \A u \in AnyType \ {s} : us[u].fields = ts[u].fields
  /\ \A k \in 1..Len(us[s].fields) :
       \/ us[s].fields[k].type = t
       \/ \E j \in 1..Len(ts[s].fields) : us[s].fields[k].type = ts[s].fields[j].type

(* Nothing is inside itself then: the types with s in them get a greater   *)
(* depth than all others had.                                              *)
LEMMA NewFieldFounded ==
  ASSUME NEW ts, Founded(ts), NEW us, NEW s \in AnyType, NEW t \in AnyType,
         s \notin PartsOf(ts, t), FieldsFrom(ts, us, s, t)
  PROVE  Founded(us)
<1>1. PICK B, depth : Depths(ts, B, depth)
  BY DEF Founded
<1> DEFINE P == {u \in AnyType : s \in PartsOf(ts, u)}
           deeper == [u \in AnyType |-> IF u \in P THEN depth[u] + B + 1 ELSE depth[u]]
<1>2. B \in Nat /\ \A u \in AnyType : depth[u] \in 0..B
  BY <1>1 DEF Depths
<1>3. \A u \in AnyType : deeper[u] \in 0..(2 * B + 1)
  BY <1>2
<1>4. deeper \in [AnyType -> 0..(2 * B + 1)]
  BY <1>3
<1>5. s \in P /\ t \notin P
  <2>1. s \in PartsOf(ts, s)
    BY PartsUnfold
  <2> QED
    BY <2>1
<1>6. ASSUME NEW u \in AnyType, NEW k \in 1..Len(ts[u].fields)
      PROVE  /\ ts[u].fields[k].type \in AnyType /\ depth[ts[u].fields[k].type] < depth[u]
             /\ ts[u].fields[k].type \in P => u \in P
  <2>1. ts[u].fields[k].type \in AnyType
    BY FieldFacts
  <2>2. depth[ts[u].fields[k].type] < depth[u]
    BY <1>1 DEF Depths
  <2>3. PartsOf(ts, ts[u].fields[k].type) \subseteq PartsOf(ts, u)
    BY PartsUnfold
  <2> QED
    BY <2>1, <2>2, <2>3
<1> HIDE DEF P
<1>7. \A u \in AnyType : deeper[u] = IF u \in P THEN depth[u] + B + 1 ELSE depth[u]
  OBVIOUS
<1> HIDE DEF deeper
<1>8. ASSUME NEW u \in AnyType, NEW k \in 1..Len(us[u].fields)
      PROVE  deeper[us[u].fields[k].type] < deeper[u]
  <2> DEFINE v == us[u].fields[k].type
  <2>1. CASE v = t /\ u = s
    BY <1>2, <1>5, <1>7, <2>1
  <2>2. CASE \E j \in 1..Len(ts[u].fields) : v = ts[u].fields[j].type
    <3>1. v \in AnyType /\ depth[v] < depth[u] /\ (v \in P => u \in P)
      BY <1>6, <2>2
    <3> HIDE DEF v
    <3>2. depth[v] \in 0..B /\ depth[u] \in 0..B
      BY <1>2, <3>1
    <3>3. deeper[v] = (IF v \in P THEN depth[v] + B + 1 ELSE depth[v])
          /\ deeper[u] = (IF u \in P THEN depth[u] + B + 1 ELSE depth[u])
      BY <1>7, <3>1
    <3>4. deeper[v] < deeper[u]
      BY <1>2, <3>1, <3>2, <3>3
    <3> QED
      BY <3>4 DEF v
  <2> QED
    BY <2>1, <2>2 DEF FieldsFrom
<1>9. \A u \in AnyType : us[u].fields \in Seq(Field)
  BY FieldFacts DEF FieldsFrom
<1>10. 2 * B + 1 \in Nat
  BY <1>2
<1>11. Depths(us, 2 * B + 1, deeper)
  BY <1>4, <1>8, <1>9, <1>10 DEF Depths
<1> QED
  BY <1>11 DEF Founded

(* A new field does not change which types there are.                      *)
LEMMA NewFieldStructure ==
  ASSUME Structure, NEW s \in Made, NEW t \in Made, s \notin PartsOf(types, t),
         MapperLists(types'), FieldsFrom(types, types', s, t),
         \A u \in AnyType : types'[u].id = types[u].id
  PROVE  Structure' /\ Made' = Made
<1>1. s \in AnyType /\ t \in AnyType
  BY DEF Made
<1>2. Founded(types')
  BY <1>1, NewFieldFounded DEF Structure
<1>3. Made' = Made
  BY DEF Made
<1>4. ClosedIn(types', Made)
  <2>1. ClosedIn(types, Made)
    BY DEF Structure
  <2> HIDE DEF Made
  <2> QED
    BY <2>1 DEF ClosedIn, FieldsFrom
<1>5. MadeFirst'
  <2>1. MadeFirst
    BY DEF Structure
  <2>2. \A u \in AnyType \ Made : types'[u].fields = types[u].fields
    BY DEF FieldsFrom
  <2> QED
    BY <1>3, <2>1, <2>2 DEF MadeFirst
<1> QED
  BY <1>2, <1>3, <1>4, <1>5 DEF Structure

(* Adding a field (Record::AddField) keeps the invariant.                  *)
LEMMA AddFieldSound ==
  ASSUME TypesInv, NEW r \in Made, NEW t \in ElementTypes, UserAddField(r, t), habits' = habits
  PROVE  TypesInv'
<1> SUFFICES ASSUME Ordinary PROVE (Structure /\ Sound(types, types, Made, Strict, Exact))'
  BY DEF TypesInv, Ordinary
<1>1. Structure /\ MapperLists(types) /\ Founded(types) /\ MadeFirst
      /\ Sound(types, types, Made, Strict, Exact)
  BY DEF TypesInv, Structure
<1>2. /\ "grow" \in habits /\ r \notin PartsOf(types, t)
      /\ types' = [types EXCEPT ![r].fields = Append(@, [type |-> t, reverse |-> FALSE])]
  BY DEF UserAddField
<1>3. t \in Made /\ t \in AnyType /\ r \in AnyType
  BY <1>1, TypeMappersAssumption DEF MadeFirst, Made
<1>4. MapperLists(types')
  BY <1>1, AddFieldKeepsLists
<1> DEFINE f == [type |-> t, reverse |-> FALSE]
<1>5. f \in Field /\ f.type = t
  BY <1>3 DEF Field
<1> HIDE DEF f
<1>6. types = [v \in AnyType |-> [id |-> types[v].id, fields |-> types[v].fields, mappers |-> types[v].mappers]]
  BY <1>1 DEF MapperLists
<1>7. /\ \A u \in AnyType : types'[u].id = types[u].id /\ types'[u].mappers = types[u].mappers
      /\ \A u \in AnyType \ {r} : types'[u].fields = types[u].fields
      /\ types'[r].fields = Append(types[r].fields, f)
  BY <1>2, <1>3, <1>6 DEF f
<1>8. FieldsFrom(types, types', r, t)
  <2>1. types[r].fields \in Seq(Field)
    BY <1>1, <1>3, FieldFacts
  <2>2. /\ types'[r].fields \in Seq(Field) /\ Len(types'[r].fields) = Len(types[r].fields) + 1
        /\ Len(types[r].fields) \in Nat
        /\ \A k \in 1..Len(types[r].fields) : types'[r].fields[k] = types[r].fields[k]
        /\ types'[r].fields[Len(types[r].fields) + 1] = f
    BY <1>5, <1>7, <2>1
  <2>3. \A k \in 1..Len(types'[r].fields) :
          k \in 1..Len(types[r].fields) \/ k = Len(types[r].fields) + 1
    BY <2>2
  <2> QED
    BY <1>5, <1>7, <2>2, <2>3 DEF FieldsFrom
<1>9. Structure' /\ Made' = Made
  BY <1>1, <1>2, <1>3, <1>4, <1>7, <1>8, NewFieldStructure
<1>10. \A u \in AnyType : MappersOf(types', u) = MappersOf(types, u)
  BY <1>7 DEF MappersOf
<1>11. \A u \in AnyType : \A x \in MappersOf(types, u) : x.b \in AnyType
  BY <1>1 DEF Sound, Between, Made
<1>12. Between(types', Made) /\ Mutual(types') /\ (Strict => Opposed(types'))
  BY <1>1, <1>10, <1>11 DEF Sound, Between, Mutual, Opposed
<1>13. ~ Exact /\ habits' = habits
  BY <1>2 DEF Exact
<1> QED
  BY <1>9, <1>12, <1>13 DEF Sound, Strict, Exact

(* A change to s does not change the parts of types s is no part of.       *)
LEMMA OthersStay ==
  ASSUME NEW ts, Founded(ts), NEW us, Founded(us), NEW s,
         \A u \in AnyType \ {s} : us[u].id = ts[u].id /\ us[u].fields = ts[u].fields
  PROVE  \A u \in AnyType : s \notin PartsOf(ts, u) => Flatten(us, u) = Flatten(ts, u)
<1> DEFINE C == {u \in AnyType : s \notin PartsOf(ts, u)}
<1>1. \A u \in C : \A k \in 1..Len(ts[u].fields) : ts[u].fields[k].type \in C
  <2> SUFFICES ASSUME NEW u \in C, NEW k \in 1..Len(ts[u].fields) PROVE ts[u].fields[k].type \in C
    OBVIOUS
  <2>1. PartsOf(ts, ts[u].fields[k].type) \subseteq PartsOf(ts, u)
    BY PartsUnfold
  <2>2. ts[u].fields[k].type \in AnyType
    BY FieldFacts
  <2> QED
    BY <2>1, <2>2
<1>2. ClosedIn(ts, C)
  BY <1>1 DEF ClosedIn
<1>3. \A u \in C : u # s
  <2> SUFFICES ASSUME s \in C PROVE FALSE
    OBVIOUS
  <2>1. s \in PartsOf(ts, s)
    BY PartsUnfold
  <2> QED
    BY <2>1
<1>4. AlikeIn(ts, us, C)
  BY <1>3 DEF AlikeIn
<1>5. ASSUME NEW u \in AnyType, s \notin PartsOf(ts, u) PROVE Flatten(us, u) = Flatten(ts, u)
  <2>1. u \in C
    BY <1>5
  <2> HIDE DEF C
  <2> QED
    BY <1>2, <1>4, <2>1, FlattenAlike
<1> QED
  BY <1>5

(* Setting the element type (Stream::SetElementType) keeps it: as there is *)
(* a mapper back for each mapper to s, the types s has mappers to are all  *)
(* those that have mappers to s, and none is left.                         *)
LEMMA SetElementSound ==
  ASSUME TypesInv, NEW s \in Stream, NEW t \in ElementTypes, UserSetElementType(s, t), habits' = habits
  PROVE  TypesInv'
<1> SUFFICES ASSUME Ordinary PROVE (Structure /\ Sound(types, types, Made, Strict, Exact))'
  BY DEF TypesInv, Ordinary
<1>1. Structure /\ MapperLists(types) /\ Founded(types) /\ MadeFirst
      /\ Sound(types, types, Made, Strict, Exact)
  BY DEF TypesInv, Structure
<1>2. /\ s \notin PartsOf(types, t) /\ ("nested" \in habits \/ ~ Nested(s))
      /\ types' = SetElementType(types, s, t)
  BY DEF UserSetElementType
<1>3. s \in Made /\ t \in Made /\ s \in AnyType /\ t \in AnyType
  BY <1>1, TypeMappersAssumption DEF MadeFirst, Made
<1>4. /\ MapperLists(types')
      /\ \A v \in AnyType :
           /\ types'[v].id = types[v].id
           /\ types'[v].fields = IF v = s THEN [types[s].fields EXCEPT ![Len(types[s].fields)].type = t]
                                 ELSE types[v].fields
           /\ \A x : x \in MappersOf(types', v) <=>
                /\ x \in MappersOf(types, v) /\ v # s
                /\ ~ (x.b = s /\ \E y \in MappersOf(types, s) : y.b = v)
  BY <1>1, <1>2, <1>3, SetElementEffect
<1>5. FieldsFrom(types, types', s, t)
  <2> DEFINE fs == types[s].fields
             n == Len(types[s].fields)
  <2>1. fs \in Seq(Field) /\ n \in Nat /\ DOMAIN fs = 1..n
        /\ \A k \in 1..n : fs[k] \in Field
    BY <1>1, <1>3, FieldFacts
  <2>2. types'[s].fields = [fs EXCEPT ![n].type = t]
    BY <1>3, <1>4
  <2> HIDE DEF fs
  <2>3. \A k \in 1..n : types'[s].fields[k] = IF k = n THEN [fs[k] EXCEPT !.type = t] ELSE fs[k]
    BY <2>1, <2>2
  <2>4. \A k \in 1..n : [fs[k] EXCEPT !.type = t] \in Field /\ [fs[k] EXCEPT !.type = t].type = t
    BY <1>3, <2>1 DEF Field
  <2>5. DOMAIN types'[s].fields = 1..n /\ types'[s].fields = [k \in 1..n |-> types'[s].fields[k]]
    BY <2>1, <2>2
  <2>6. \A k \in 1..n : types'[s].fields[k] \in Field /\ (types'[s].fields[k].type = t \/ types'[s].fields[k] = fs[k])
    BY <2>1, <2>3, <2>4
  <2>7. types'[s].fields \in Seq(Field) /\ Len(types'[s].fields) = n
    BY <2>1, <2>5, <2>6
  <2> QED
    BY <1>4, <2>6, <2>7 DEF FieldsFrom, fs
<1>6. Structure' /\ Made' = Made
  BY <1>1, <1>2, <1>3, <1>4, <1>5, NewFieldStructure
<1>7. \A v \in AnyType : \A x \in MappersOf(types, v) :
        v \in Made /\ x.b \in Made /\ x.b \in AnyType /\ x.b # v /\ IsMatrix(x.matrix)
  BY <1>1 DEF Sound, Between, Made
<1>8. \A v \in AnyType : \A x :
        x \in MappersOf(types', v) <=> x \in MappersOf(types, v) /\ v # s /\ x.b # s
  <2>1. \A v \in AnyType : \A x \in MappersOf(types, v) :
          x.b = s => \E y \in MappersOf(types, s) : y.b = v
    BY <1>1 DEF Sound, Mutual
  <2> QED
    BY <1>4, <2>1
<1>9. Between(types', Made)
  BY <1>7, <1>8 DEF Between
<1>10. Mutual(types')
  <2> SUFFICES ASSUME NEW v \in AnyType, NEW x \in MappersOf(types', v)
               PROVE  \E y \in MappersOf(types', x.b) : y.b = v
    BY DEF Mutual
  <2>1. x \in MappersOf(types, v) /\ v # s /\ x.b # s
    BY <1>8
  <2>2. PICK y \in MappersOf(types, x.b) : y.b = v
    BY <1>1, <2>1 DEF Sound, Mutual
  <2> QED
    BY <1>7, <1>8, <2>1, <2>2
<1>11. Strict => Opposed(types')
  <2> SUFFICES ASSUME Strict, NEW v \in AnyType, NEW x \in MappersOf(types', v),
                      NEW y \in MappersOf(types', x.b), y.b = v
               PROVE  y.matrix = Transpose(x.matrix)
    BY DEF Opposed
  <2>1. x \in MappersOf(types, v) /\ y \in MappersOf(types, x.b)
    BY <1>7, <1>8
  <2> QED
    BY <1>1, <2>1 DEF Sound, Opposed
<1>12. Exact => AllFit(types', types')
  <2> SUFFICES ASSUME Exact, NEW v \in AnyType, NEW x \in MappersOf(types', v)
               PROVE  Fits(types', v, x)
    BY DEF AllFit
  <2>1. x \in MappersOf(types, v) /\ v # s /\ x.b # s /\ v \in Made /\ x.b \in AnyType
    BY <1>7, <1>8
  <2>2. Fits(types, v, x)
    BY <1>1, <2>1 DEF Sound, AllFit
  <2>3. ~ Nested(s)
    BY <1>2 DEF Exact
  <2>4. x \in ToSet(types[v].mappers)
    BY <1>1, <2>1, StoredMappers
  <2>5. s \notin PartsOf(types, v) /\ s \notin PartsOf(types, x.b)
    BY <2>1, <2>3, <2>4 DEF Nested
  <2>6. Flatten(types', v) = Flatten(types, v) /\ Flatten(types', x.b) = Flatten(types, x.b)
    <3>1. Founded(types')
      BY <1>6 DEF Structure
    <3>2. \A u \in AnyType \ {s} : types'[u].id = types[u].id /\ types'[u].fields = types[u].fields
      BY <1>4
    <3> QED
      BY <1>1, <2>1, <2>5, <3>1, <3>2, OthersStay
  <2> QED
    BY <2>2, <2>6 DEF Fits
<1>13. habits' = habits
  OBVIOUS
<1> QED
  BY <1>6, <1>9, <1>10, <1>11, <1>12, <1>13 DEF Sound, Strict, Exact

-----------------------------------------------------------------------------
(* Copies. All the types one copy operation makes are described at once,   *)
(* as they are in the end, and each step of the loops is a state on the    *)
(* way there: the types copied so far are as in the end, the others are    *)
(* not made yet.                                                           *)

(* Only c is new in us: it has the id of u, the fields and no mappers.     *)
OneMade(ts, us, u, c, fields) ==
  /\ us[c].id = ts[u].id /\ us[c].fields = fields /\ MappersOf(us, c) = {}
  /\ \A v \in AnyType \ {c} :
       /\ us[v].id = ts[v].id /\ us[v].fields = ts[v].fields
       /\ MappersOf(us, v) = MappersOf(ts, v)
  /\ MapperLists(us)

(* Making the copy of u changes that copy only.                            *)
LEMMA CopyMadeFacts ==
  ASSUME NEW ts, MapperLists(ts), NEW u, NEW copy, NEW c, c = copy[u], c \in AnyType
  PROVE  OneMade(ts, CopyMade(ts, u, copy), u, c, CopyFields(ts, u, copy))
<1> DEFINE fields == CopyFields(ts, u, copy)
           fresh == [id |-> ts[u].id, fields |-> fields, mappers |-> << >>]
           us == CopyMade(ts, u, copy)
<1>1. us = [ts EXCEPT ![c] = fresh]
  BY DEF CopyMade
<1> HIDE DEF us, fields
<1>2. /\ fresh = [id |-> fresh.id, fields |-> fresh.fields, mappers |-> fresh.mappers]
      /\ fresh.id = ts[u].id /\ fresh.fields = fields /\ fresh.mappers = << >>
  OBVIOUS
<1> HIDE DEF fresh
<1>3. DOMAIN ts = AnyType
  BY DEF MapperLists
<1>4. us[c] = fresh /\ \A v \in AnyType \ {c} : us[v] = ts[v]
  BY <1>1, <1>3
<1>5. us = [v \in AnyType |-> us[v]]
  BY <1>1, <1>3
<1>6. ASSUME NEW v \in AnyType
      PROVE  us[v] = [id |-> us[v].id, fields |-> us[v].fields, mappers |-> us[v].mappers]
             /\ OneEach(us[v].mappers)
  <2>1. OneEach(ts[v].mappers)
        /\ ts[v] = [id |-> ts[v].id, fields |-> ts[v].fields, mappers |-> ts[v].mappers]
    BY DEF MapperLists
  <2>2. CASE v = c
    BY <1>2, <1>4, <2>2, EmptyOneEach
  <2>3. CASE v # c
    BY <1>4, <2>1, <2>3
  <2> QED
    BY <2>2, <2>3
<1>7. MapperLists(us)
  <2>1. us = [v \in AnyType |-> [id |-> us[v].id, fields |-> us[v].fields, mappers |-> us[v].mappers]]
    BY <1>5, <1>6
  <2> QED
    BY <1>6, <2>1 DEF MapperLists
<1>8. MappersOf(us, c) = {}
  BY <1>2, <1>4, EmptyOneEach DEF MappersOf, Listed
<1>9. \A v \in AnyType \ {c} : MappersOf(us, v) = MappersOf(ts, v)
  BY <1>4 DEF MappersOf
<1>10. us[c].id = ts[u].id /\ us[c].fields = CopyFields(ts, u, copy)
  BY <1>2, <1>4 DEF fields
<1> QED
  BY <1>4, <1>7, <1>8, <1>9, <1>10 DEF us, OneMade

(* What the fields of a copy are.                                          *)
LEMMA CopyFieldsFacts ==
  ASSUME NEW ts, Founded(ts), NEW u \in AnyType, NEW copy,
         \A v \in GenericFields(ts, u) : copy[v] \in AnyType
  PROVE  LET fs == CopyFields(ts, u, copy)
         IN  /\ fs \in Seq(Field) /\ Len(fs) = Len(ts[u].fields)
             /\ \A k \in 1..Len(ts[u].fields) :
                  /\ fs[k].reverse = ts[u].fields[k].reverse
                  /\ \/ fs[k].type = ts[u].fields[k].type /\ ~ IsGeneric(ts, ts[u].fields[k].type)
                     \/ /\ ts[u].fields[k].type \in GenericFields(ts, u)
                        /\ fs[k].type = copy[ts[u].fields[k].type]
<1> DEFINE old == ts[u].fields
           n == Len(old)
           New(k) == IF IsGeneric(ts, old[k].type) THEN [old[k] EXCEPT !.type = copy[@]] ELSE old[k]
           fs == CopyFields(ts, u, copy)
<1>1. /\ n \in Nat /\ DOMAIN old = 1..n
      /\ \A k \in 1..n : old[k] \in Field /\ old[k].type \in AnyType /\ old[k].reverse \in BOOLEAN
  BY FieldFacts
<1>2. fs = [k \in 1..n |-> New(k)]
  BY <1>1 DEF CopyFields
<1>3. \A k \in 1..n : IsGeneric(ts, old[k].type) => old[k].type \in GenericFields(ts, u)
  BY DEF GenericFields
<1> HIDE DEF fs, old
<1>4. ASSUME NEW k \in 1..n
      PROVE  /\ New(k) \in Field /\ New(k).reverse = old[k].reverse
             /\ \/ New(k).type = old[k].type /\ ~ IsGeneric(ts, old[k].type)
                \/ old[k].type \in GenericFields(ts, u) /\ New(k).type = copy[old[k].type]
  <2>1. CASE IsGeneric(ts, old[k].type)
    <3>1. New(k) = [old[k] EXCEPT !.type = copy[old[k].type]]
      BY <2>1
    <3>2. old[k].type \in GenericFields(ts, u) /\ copy[old[k].type] \in AnyType
      BY <1>3, <2>1
    <3> HIDE DEF New
    <3> QED
      BY <1>1, <3>1, <3>2 DEF Field
  <2>2. CASE ~ IsGeneric(ts, old[k].type)
    BY <1>1, <2>2
  <2> QED
    BY <2>1, <2>2
<1> HIDE DEF New
<1>5. fs \in Seq(Field) /\ Len(fs) = n /\ \A k \in 1..n : fs[k] = New(k)
  BY <1>1, <1>2, <1>4
<1> QED
  BY <1>4, <1>5 DEF fs, old

(* Copies are made of the same fields in types that are alike in M.        *)
LEMMA CopyFieldsAlike ==
  ASSUME NEW ts, Founded(ts), NEW us, Founded(us), NEW M, ClosedIn(ts, M), AlikeIn(ts, us, M),
         NEW u \in M, NEW copy
  PROVE  CopyFields(us, u, copy) = CopyFields(ts, u, copy)
<1>1. u \in AnyType /\ us[u].fields = ts[u].fields
  BY DEF ClosedIn, AlikeIn
<1>2. DOMAIN ts[u].fields = 1..Len(ts[u].fields)
  BY <1>1, FieldFacts
<1>3. \A k \in DOMAIN ts[u].fields : IsGeneric(us, ts[u].fields[k].type) <=> IsGeneric(ts, ts[u].fields[k].type)
  BY <1>2, FlattenAlike DEF ClosedIn
<1> QED
  BY <1>1, <1>3 DEF CopyFields

(* The types in M are copied to others by copy, those in q in that order.  *)
Copying(ts, M, q, copy) ==
  /\ ClosedIn(ts, M)
  /\ \A v \in AnyType \ M : ts[v].fields = << >>
  /\ Ordered(ts, q) /\ Len(q) \in Nat /\ Listed(q) \subseteq M
  /\ \A i, j \in 1..Len(q) : q[i] = q[j] => i = j
  /\ copy \in [Listed(q) -> AnyType \ M]
  /\ \A v, w \in Listed(q) : copy[v] = copy[w] => v = w

CopiesUpTo(q, copy, k) == {copy[q[i]] : i \in 1..k}

(* The types, mappers aside, when all of them are copied.                  *)
Copied(ts, q, copy) ==
  [v \in AnyType |->
     IF v \in CopiesUpTo(q, copy, Len(q))
       THEN LET u == CHOOSE u \in Listed(q) : copy[u] = v
            IN  [id |-> ts[u].id, fields |-> CopyFields(ts, u, copy), mappers |-> << >>]
       ELSE ts[v]]

(* What Copied says of copies and of other types.                          *)
LEMMA CopiedFacts ==
  ASSUME NEW ts, NEW M, NEW q, NEW copy, Copying(ts, M, q, copy)
  PROVE  LET fin == Copied(ts, q, copy)
         IN  /\ \A u \in Listed(q) : fin[copy[u]].id = ts[u].id /\ fin[copy[u]].fields = CopyFields(ts, u, copy)
             /\ \A v \in AnyType \ CopiesUpTo(q, copy, Len(q)) : fin[v] = ts[v]
             /\ CopiesUpTo(q, copy, Len(q)) = {copy[u] : u \in Listed(q)}
             /\ CopiesUpTo(q, copy, Len(q)) \cap M = {}
<1> DEFINE fin == Copied(ts, q, copy)
           S == CopiesUpTo(q, copy, Len(q))
<1>1. S = {copy[u] : u \in Listed(q)}
  BY DEF CopiesUpTo, Listed
<1>2. ASSUME NEW u \in Listed(q)
      PROVE  fin[copy[u]].id = ts[u].id /\ fin[copy[u]].fields = CopyFields(ts, u, copy)
  <2> DEFINE v == copy[u]
             w == CHOOSE w \in Listed(q) : copy[w] = v
  <2>1. w = u
    BY DEF Copying
  <2>2. v \in AnyType /\ v \in S
    BY <1>1 DEF Copying
  <2>3. fin[v] = [id |-> ts[w].id, fields |-> CopyFields(ts, w, copy), mappers |-> << >>]
    BY <2>2 DEF Copied
  <2> HIDE DEF w, v
  <2>4. fin[v].id = ts[w].id /\ fin[v].fields = CopyFields(ts, w, copy)
    BY <2>3
  <2> QED
    BY <2>1, <2>4 DEF v
<1>3. \A v \in AnyType \ S : fin[v] = ts[v]
  BY DEF Copied
<1>4. S \cap M = {}
  BY <1>1 DEF Copying
<1> QED
  BY <1>1, <1>2, <1>3, <1>4

(* Nothing is inside itself then, a copy is as deep as what it is a copy   *)
(* of, and it is equal to it.                                              *)
LEMMA CopiedFounded ==
  ASSUME NEW ts, Founded(ts), NEW M, NEW q, NEW copy, Copying(ts, M, q, copy)
  PROVE  /\ Founded(Copied(ts, q, copy))
         /\ CopiesOf(Copied(ts, q, copy), Listed(q), copy)
         /\ \A u \in Listed(q) : \A v \in GenericFields(ts, u) : v \in Listed(q)
<1> DEFINE fin == Copied(ts, q, copy)
           S == CopiesUpTo(q, copy, Len(q))
<1>1. /\ \A u \in Listed(q) : fin[copy[u]].id = ts[u].id /\ fin[copy[u]].fields = CopyFields(ts, u, copy)
      /\ \A v \in AnyType \ S : fin[v] = ts[v]
      /\ S = {copy[u] : u \in Listed(q)} /\ S \cap M = {}
  BY CopiedFacts
<1> HIDE DEF fin, S
<1>2. \A u \in Listed(q) : u \in M /\ u \in AnyType /\ copy[u] \in AnyType /\ copy[u] \notin M
  BY DEF Copying, ClosedIn
<1>3. \A u \in Listed(q) : \A v \in GenericFields(ts, u) : v \in Listed(q)
  <2> SUFFICES ASSUME NEW i \in 1..Len(q), NEW v \in GenericFields(ts, q[i]) PROVE v \in Listed(q)
    BY DEF Listed
  <2>1. PICK j \in 1..(i - 1) : q[j] = v
    BY DEF Copying, Ordered
  <2>2. j \in 1..Len(q)
    BY DEF Copying
  <2> QED
    BY <2>1, <2>2 DEF Listed
<1>4. ASSUME NEW u \in Listed(q)
      PROVE  /\ CopyFields(ts, u, copy) \in Seq(Field) /\ Len(CopyFields(ts, u, copy)) = Len(ts[u].fields)
             /\ \A k \in 1..Len(ts[u].fields) :
                  /\ CopyFields(ts, u, copy)[k].reverse = ts[u].fields[k].reverse
                  /\ \/ CopyFields(ts, u, copy)[k].type = ts[u].fields[k].type
                     \/ /\ ts[u].fields[k].type \in Listed(q)
                        /\ CopyFields(ts, u, copy)[k].type = copy[ts[u].fields[k].type]
  <2>1. \A v \in GenericFields(ts, u) : v \in Listed(q) /\ copy[v] \in AnyType
    BY <1>2, <1>3
  <2>2. u \in AnyType
    BY <1>2
  <2> QED
    BY <2>1, <2>2, CopyFieldsFacts
<1>5. CopiesOf(fin, Listed(q), copy)
  <2>1. \A u \in Listed(q) : fin[u] = ts[u]
    BY <1>1, <1>2
  <2>2. copy \in [Listed(q) -> AnyType] /\ Listed(q) \subseteq AnyType
    BY <1>2 DEF Copying
  <2>3. ASSUME NEW u \in Listed(q)
        PROVE  /\ fin[copy[u]].id = fin[u].id
               /\ Len(fin[copy[u]].fields) = Len(fin[u].fields)
               /\ \A k \in 1..Len(fin[u].fields) :
                    /\ fin[copy[u]].fields[k].reverse = fin[u].fields[k].reverse
                    /\ \/ fin[copy[u]].fields[k].type = fin[u].fields[k].type
                       \/ /\ fin[u].fields[k].type \in Listed(q)
                          /\ fin[copy[u]].fields[k].type = copy[fin[u].fields[k].type]
    <3>1. fin[u] = ts[u] /\ fin[copy[u]].id = ts[u].id /\ fin[copy[u]].fields = CopyFields(ts, u, copy)
      BY <1>1, <2>1
    <3> QED
      BY <1>4, <3>1
  <2> QED
    BY <2>2, <2>3 DEF CopiesOf
<1>6. Founded(fin)
  <2>1. PICK B, depth : Depths(ts, B, depth)
    BY DEF Founded
  <2> DEFINE From(v) == CHOOSE u \in Listed(q) : copy[u] = v
             deeper == [v \in AnyType |-> IF v \in S THEN depth[From(v)] ELSE depth[v]]
  <2>2. \A u \in Listed(q) : From(copy[u]) = u
    BY DEF Copying
  <2> HIDE DEF From
  <2>3. B \in Nat /\ \A v \in AnyType : depth[v] \in 0..B
    BY <2>1 DEF Depths
  <2>4. \A u \in Listed(q) : deeper[copy[u]] = depth[u]
    BY <1>1, <1>2, <2>2
  <2>5. \A v \in AnyType \ S : deeper[v] = depth[v]
    OBVIOUS
  <2>7. deeper = [v \in AnyType |-> deeper[v]]
    OBVIOUS
  <2> HIDE DEF deeper
  <2>6. ASSUME NEW v \in AnyType PROVE deeper[v] \in 0..B
    <3>1. CASE v \in S
      <4>1. PICK u \in Listed(q) : v = copy[u]
        BY <1>1, <3>1
      <4>2. u \in AnyType
        BY <1>2
      <4> QED
        BY <2>3, <2>4, <4>1, <4>2
    <3>2. CASE v \notin S
      BY <2>3, <2>5, <3>2
    <3> QED
      BY <3>1, <3>2
  <2>8. deeper \in [AnyType -> 0..B]
    BY <2>6, <2>7
  <2>9. \A u \in AnyType : \A k \in 1..Len(ts[u].fields) : depth[ts[u].fields[k].type] < depth[u]
    BY <2>1 DEF Depths
  <2>10. \A u \in M : \A k \in 1..Len(ts[u].fields) : ts[u].fields[k].type \in M /\ ts[u].fields[k].type \in AnyType \ S
    BY <1>1 DEF Copying, ClosedIn
  <2>11. ASSUME NEW v \in AnyType
         PROVE  /\ fin[v].fields \in Seq(Field)
                /\ \A k \in 1..Len(fin[v].fields) : deeper[fin[v].fields[k].type] < deeper[v]
    <3>1. CASE v \in S
      <4>1. PICK u \in Listed(q) : v = copy[u]
        BY <1>1, <3>1
      <4>2. fin[v].fields = CopyFields(ts, u, copy) /\ deeper[v] = depth[u]
        BY <1>1, <2>4, <4>1
      <4>3. fin[v].fields \in Seq(Field) /\ Len(fin[v].fields) = Len(ts[u].fields)
        BY <1>4, <4>2
      <4>4. ASSUME NEW k \in 1..Len(ts[u].fields)
            PROVE  deeper[fin[v].fields[k].type] < deeper[v]
        <5>1. u \in M /\ u \in AnyType /\ depth[ts[u].fields[k].type] < depth[u]
          BY <1>2, <2>9
        <5>2. \/ fin[v].fields[k].type = ts[u].fields[k].type
              \/ /\ ts[u].fields[k].type \in Listed(q)
                 /\ fin[v].fields[k].type = copy[ts[u].fields[k].type]
          BY <1>4, <4>2
        <5>3. deeper[fin[v].fields[k].type] = depth[ts[u].fields[k].type]
          BY <2>4, <2>5, <2>10, <5>1, <5>2
        <5> QED
          BY <4>2, <5>1, <5>3
      <4> QED
        BY <4>3, <4>4
    <3>2. CASE v \notin S
      <4>1. fin[v] = ts[v] /\ ts[v].fields \in Seq(Field) /\ deeper[v] = depth[v]
        BY <1>1, <2>5, <3>2, FieldFacts
      <4>2. CASE v \in M
        BY <2>5, <2>9, <2>10, <4>1, <4>2
      <4>3. CASE v \notin M
        <5>1. ts[v].fields = << >>
          BY <4>3 DEF Copying
        <5>2. 1..Len(fin[v].fields) = {}
          BY <4>1, <5>1, EmptyOneEach
        <5> QED
          BY <4>1, <5>2
      <4> QED
        BY <4>2, <4>3
    <3> QED
      BY <3>1, <3>2
  <2>12. Depths(fin, B, deeper)
    BY <2>3, <2>8, <2>11 DEF Depths
  <2> QED
    BY <2>12 DEF Founded
<1> QED
  BY <1>3, <1>5, <1>6 DEF fin

(* Only the types in C are made, and they are alike in fin.                *)
MadeOf(fin, us, C) ==
  /\ AlikeIn(fin, us, C)
  /\ \A v \in AnyType \ C : us[v].id = "none" /\ us[v].fields = << >>

(* Types on the way to fin are founded if fin is.                          *)
LEMMA MadeOfFounded ==
  ASSUME NEW fin, Founded(fin), NEW us, NEW C, C \subseteq AnyType, MadeOf(fin, us, C)
  PROVE  Founded(us)
<1>1. PICK B, depth : Depths(fin, B, depth)
  BY DEF Founded
<1>2. ASSUME NEW v \in AnyType
      PROVE  /\ us[v].fields \in Seq(Field)
             /\ \A k \in 1..Len(us[v].fields) : depth[us[v].fields[k].type] < depth[v]
  <2>1. CASE v \in C
    BY <1>1, <2>1 DEF Depths, MadeOf, AlikeIn
  <2>2. CASE v \notin C
    <3>1. us[v].fields = << >>
      BY <2>2 DEF MadeOf
    <3>2. << >> \in Seq(Field)
      OBVIOUS
    <3>3. 1..Len(us[v].fields) = {}
      BY <3>1, EmptyOneEach
    <3> QED
      BY <3>1, <3>2, <3>3
  <2> QED
    BY <2>1, <2>2
<1>3. Depths(us, B, depth)
  BY <1>1, <1>2 DEF Depths
<1> QED
  BY <1>3 DEF Founded

(* The types while those in D are copied, when fin is what they will be.   *)
CopyState(fin, D, C, us, strict, fit) ==
  /\ MapperLists(us) /\ MadeOf(fin, us, C) /\ Sound(fin, us, C, strict, fit)
  /\ \A v \in D : \A x \in MappersOf(us, v) : ~ IsEqual(fin, v, x.b)

(* There are mappers between c and the targets of the first j in ms only.  *)
Reached(us, c, ms, j) ==
  /\ \A x \in MappersOf(us, c) : \E l \in 1..j : x.b = ms[l].b
  /\ \A v \in AnyType : \A x \in MappersOf(us, v) : x.b = c => \E l \in 1..j : v = ms[l].b

(* Copying one mapper of u to the copy c.                                  *)
LEMMA CopyMapperSound ==
  ASSUME NEW fin, Founded(fin), NEW C, ClosedIn(fin, C),
         NEW D, D \subseteq C, NEW u \in D, NEW c \in C, c \notin D, IsEqual(fin, u, c),
         Len(Flatten(fin, c)) = Len(Flatten(fin, u)),
         NEW ms, OneEach(ms), NEW j \in 1..Len(ms), ms[j].b \in C, ms[j].b # c, IsMatrix(ms[j].matrix),
         ~ IsEqual(fin, u, ms[j].b),
         NEW strict, NEW fit, fit => Fits(fin, u, ms[j]),
         NEW us, CopyState(fin, D, C, us, strict, fit), Reached(us, c, ms, j - 1)
  PROVE  /\ CopyState(fin, D, C, CopyMapper(us, c, ms[j]), strict, fit)
         /\ Reached(CopyMapper(us, c, ms[j]), c, ms, j)
<1> DEFINE m == Mapper(us, c, ms[j].b, ms[j].matrix)
           new == CopyMapper(us, c, ms[j])
<1>1. new = AddMapper(us, m)
  BY DEF CopyMapper
<1>2. /\ m.a = c /\ m.b = ms[j].b /\ m.matrix = ms[j].matrix
      /\ m.flat_a = Flatten(us, c) /\ m.flat_b = Flatten(us, ms[j].b)
  BY DEF Mapper
<1> HIDE DEF m, new
<1>3. C \subseteq AnyType /\ c \in AnyType /\ u \in AnyType /\ ms[j].b \in AnyType
  BY DEF ClosedIn
<1>4. /\ MapperLists(us) /\ MadeOf(fin, us, C) /\ AlikeIn(fin, us, C) /\ Sound(fin, us, C, strict, fit)
      /\ \A v \in D : \A x \in MappersOf(us, v) : ~ IsEqual(fin, v, x.b)
  BY DEF CopyState, MadeOf
<1>5. Founded(us)
  BY <1>3, <1>4, MadeOfFounded
<1>6. ~ IsEqual(fin, m.b, m.a)
  BY <1>2, <1>3, EqualSymmetric, EqualTransitive
<1>7. fit => Fits(fin, m.a, m)
  <2> SUFFICES ASSUME fit PROVE Fits(fin, m.a, m)
    OBVIOUS
  <2>1. Fits(fin, u, ms[j])
    OBVIOUS
  <2>2. Flatten(us, c) = Flatten(fin, c) /\ Flatten(us, ms[j].b) = Flatten(fin, ms[j].b)
    BY <1>4, <1>5, FlattenAlike
  <2> QED
    BY <1>2, <2>1, <2>2 DEF Fits
<1>8. Fresh(us, m)
  <2>1. \A l \in 1..(j - 1) : ms[l].b # ms[j].b
    <3> SUFFICES ASSUME NEW l \in 1..(j - 1), ms[l].b = ms[j].b PROVE FALSE
      OBVIOUS
    <3>1. Len(ms) \in Nat
      BY ListFacts DEF OneEach
    <3>2. l \in 1..Len(ms) /\ l # j
      BY <3>1
    <3> QED
      BY <3>2 DEF OneEach
  <2>2. \A x \in MappersOf(us, c) : x.b # ms[j].b
    BY <2>1 DEF Reached
  <2>3. \A x \in MappersOf(us, ms[j].b) : x.b # c
    BY <1>3, <2>1 DEF Reached
  <2> QED
    BY <1>2, <2>2, <2>3 DEF Fresh
<1>9. /\ Adds(us, new, m) /\ AlikeIn(fin, new, C) /\ Sound(fin, new, C, strict, fit)
  <2>1. m.a \in C /\ m.b \in C /\ m.a # m.b /\ IsMatrix(m.matrix)
    BY <1>2
  <2> QED
    BY <1>1, <1>4, <1>5, <1>6, <1>7, <1>8, <2>1, AddSound
<1>10. MapperLists(new) /\ AlikeIn(us, new, AnyType)
  BY <1>9 DEF Adds
<1>11. MadeOf(fin, new, C)
  BY <1>4, <1>9, <1>10 DEF MadeOf, AlikeIn
<1> DEFINE inv == InverseMapper(us, m)
<1>12. inv.b = c
  BY <1>2, InverseFacts
<1>13. \A v \in AnyType : \A x \in MappersOf(new, v) :
         x \in MappersOf(us, v) \/ (v = c /\ x = m) \/ (v = ms[j].b /\ x = inv)
  BY <1>2, <1>9 DEF Adds
<1> HIDE DEF inv
<1>14. ASSUME NEW v \in D, NEW x \in MappersOf(new, v) PROVE ~ IsEqual(fin, v, x.b)
  <2>1. v \in AnyType /\ v # c
    BY <1>3
  <2>2. CASE x \in MappersOf(us, v)
    BY <1>4, <2>2
  <2>3. CASE v = ms[j].b /\ x = inv
    BY <1>2, <1>6, <1>12, <2>3
  <2> QED
    BY <1>13, <2>1, <2>2, <2>3
<1>15. CopyState(fin, D, C, new, strict, fit)
  BY <1>9, <1>10, <1>11, <1>14 DEF CopyState
<1>16. j \in 1..j /\ 1..(j - 1) \subseteq 1..j
  OBVIOUS
<1>17. ASSUME NEW x \in MappersOf(new, c) PROVE \E l \in 1..j : x.b = ms[l].b
  <2>1. x \in MappersOf(us, c) \/ x = m
    BY <1>3, <1>13
  <2>2. CASE x = m
    BY <1>2, <1>16, <2>2
  <2>3. CASE x \in MappersOf(us, c)
    BY <1>16, <2>3 DEF Reached
  <2> QED
    BY <2>1, <2>2, <2>3
<1>18. ASSUME NEW v \in AnyType, NEW x \in MappersOf(new, v), x.b = c PROVE \E l \in 1..j : v = ms[l].b
  <2>1. CASE x \in MappersOf(us, v)
    BY <1>16, <1>18, <2>1 DEF Reached
  <2>2. CASE v = ms[j].b
    BY <1>16, <2>2
  <2>3. CASE v = c /\ x = m
    BY <1>2, <1>18, <2>3
  <2> QED
    BY <1>13, <2>1, <2>2, <2>3
<1>19. Reached(new, c, ms, j)
  BY <1>17, <1>18 DEF Reached
<1> QED
  BY <1>15, <1>19 DEF new

(* Copying one type, when it is to have the fields fin says.               *)
LEMMA CopyOneSound ==
  ASSUME NEW fin, Founded(fin), NEW C, ClosedIn(fin, C), NEW D, D \subseteq C,
         NEW copy, CopiesOf(fin, D, copy), NEW u \in D, NEW c, c = copy[u], c \in AnyType \ C,
         ClosedIn(fin, C \cup {c}),
         NEW strict, NEW fit, NEW us, CopyState(fin, D, C, us, strict, fit),
         fin[c].fields = CopyFields(us, u, copy)
  PROVE  CopyState(fin, D, C \cup {c}, CopyOne(us, u, copy), strict, fit)
<1> DEFINE C2 == C \cup {c}
           ms == us[u].mappers
           m == Len(ms)
           made == CopyMade(us, u, copy)
           State(g) == CopyState(fin, D, C2, g, strict, fit)
<1>1. /\ MapperLists(us) /\ MadeOf(fin, us, C) /\ AlikeIn(fin, us, C) /\ Sound(fin, us, C, strict, fit)
      /\ \A v \in D : \A x \in MappersOf(us, v) : ~ IsEqual(fin, v, x.b)
  BY DEF CopyState, MadeOf
<1>2. /\ Between(us, C) /\ Mutual(us) /\ (strict => Opposed(us)) /\ (fit => AllFit(fin, us))
      /\ \A v \in AnyType : \A x \in MappersOf(us, v) : v \in C /\ x.b \in C /\ x.b \in AnyType /\ x.b # v /\ IsMatrix(x.matrix)
  BY <1>1 DEF Sound, Between, ClosedIn
<1>3. u \in C /\ u \in AnyType /\ c \in AnyType /\ c \notin C /\ c \notin D /\ C2 \subseteq AnyType
  BY DEF ClosedIn
<1>4. OneEach(ms) /\ m \in Nat
  BY <1>1, <1>3, ListFacts DEF MapperLists, OneEach
<1>5. /\ made[c].id = us[u].id /\ made[c].fields = CopyFields(us, u, copy) /\ MappersOf(made, c) = {}
      /\ \A v \in AnyType \ {c} :
           /\ made[v].id = us[v].id /\ made[v].fields = us[v].fields
           /\ MappersOf(made, v) = MappersOf(us, v)
      /\ MapperLists(made)
  <2>1. MapperLists(us) /\ c = copy[u] /\ c \in AnyType
    BY <1>1, <1>3
  <2>2. OneMade(us, made, u, c, CopyFields(us, u, copy))
    BY ONLY <2>1, CopyMadeFacts
  <2> HIDE DEF made
  <2> QED
    BY <2>2 DEF OneMade
<1> HIDE DEF made
<1>6. State(made) /\ Reached(made, c, ms, 0)
  <2>1. \A v \in AnyType : MappersOf(made, v) = MappersOf(us, v)
    <3>1. MappersOf(us, c) = {}
      BY <1>2, <1>3
    <3> QED
      BY <1>5, <3>1
  <2>2. AlikeIn(fin, made, C2)
    <3>1. fin[c].id = fin[u].id
      BY DEF CopiesOf
    <3>2. us[u].id = fin[u].id
      BY <1>1, <1>3 DEF AlikeIn
    <3>3. made[c].id = fin[c].id /\ made[c].fields = fin[c].fields
      BY <1>5, <3>1, <3>2
    <3>4. \A v \in C : v \in AnyType \ {c}
      BY <1>3
    <3> QED
      BY <1>1, <1>5, <3>3, <3>4 DEF AlikeIn
  <2>3. MadeOf(fin, made, C2)
    BY <1>1, <1>5, <2>2 DEF MadeOf
  <2>4. Between(made, C2)
    BY <1>2, <2>1 DEF Between
  <2>5. Mutual(made) /\ (strict => Opposed(made)) /\ (fit => AllFit(fin, made))
    BY <1>2, <2>1 DEF Mutual, Opposed, AllFit
  <2>6. \A v \in D : \A x \in MappersOf(made, v) : ~ IsEqual(fin, v, x.b)
    <3>1. D \subseteq AnyType
      BY <1>3
    <3> QED
      BY <1>1, <2>1, <3>1
  <2>7. Reached(made, c, ms, 0)
    <3>1. \A v \in AnyType : \A x \in MappersOf(made, v) : v # c /\ x.b # c
      BY <1>2, <1>3, <2>1
    <3> QED
      BY <1>3, <3>1 DEF Reached
  <2> QED
    BY <1>5, <2>3, <2>4, <2>5, <2>6, <2>7 DEF CopyState, Sound
<1>7. IsEqual(fin, u, c) /\ Len(Flatten(fin, c)) = Len(Flatten(fin, u))
  BY CopiesEqual, CopiesFlat
<1>8. ASSUME NEW j \in 1..m
      PROVE  /\ ms[j].b \in C2 /\ ms[j].b # c /\ IsMatrix(ms[j].matrix) /\ ~ IsEqual(fin, u, ms[j].b)
             /\ fit => Fits(fin, u, ms[j])
  <2>1. ms[j] \in MappersOf(us, u)
    BY DEF MappersOf, Listed
  <2> HIDE DEF ms
  <2> QED
    BY <1>1, <1>2, <1>3, <2>1 DEF AllFit
<1>9. PICK g : CopyOneRun(g, us, u, copy)
  BY <1>4, CopyOneSteps
<1>10. /\ g[0] = made /\ CopyOne(us, u, copy) = g[m]
       /\ \A j \in 1..m : g[j] = CopyMapper(g[j - 1], c, ms[j])
  BY <1>9 DEF CopyOneRun, made
<1> HIDE DEF ms, m
<1> DEFINE G == {j \in Nat : j <= m => State(g[j]) /\ Reached(g[j], c, ms, j)}
<1>11. 0 \in G
  BY <1>6, <1>10
<1>12. ASSUME NEW j \in Nat, j \in G PROVE j + 1 \in G
  <2> SUFFICES ASSUME j + 1 <= m PROVE State(g[j + 1]) /\ Reached(g[j + 1], c, ms, j + 1)
    OBVIOUS
  <2>1. j + 1 \in 1..m /\ (j + 1) - 1 = j /\ j <= m
    BY <1>4
  <2>2. State(g[j]) /\ Reached(g[j], c, ms, (j + 1) - 1)
    BY <1>12, <2>1
  <2>3. g[j + 1] = CopyMapper(g[j], c, ms[j + 1])
    BY <1>10, <2>1
  <2>4. c \in C2 /\ D \subseteq C2
    OBVIOUS
  <2>5. j + 1 \in 1..Len(ms)
    BY <2>1 DEF m
  <2>6. ClosedIn(fin, C2)
    OBVIOUS
  <2> HIDE DEF C2, G
  <2>7. /\ ms[j + 1].b \in C2 /\ ms[j + 1].b # c /\ IsMatrix(ms[j + 1].matrix)
        /\ ~ IsEqual(fin, u, ms[j + 1].b) /\ (fit => Fits(fin, u, ms[j + 1]))
    BY <1>8, <2>1
  <2>8. /\ State(CopyMapper(g[j], c, ms[j + 1]))
        /\ Reached(CopyMapper(g[j], c, ms[j + 1]), c, ms, j + 1)
    BY <1>3, <1>4, <1>7, <2>2, <2>4, <2>5, <2>6, <2>7, CopyMapperSound
  <2> QED
    BY <2>3, <2>8
<1> HIDE DEF G
<1>13. \A j \in Nat : j \in G
  BY <1>11, <1>12, EveryNatural
<1>14. State(g[m])
  <2> HIDE DEF State
  <2>1. m \in G
    BY <1>4, <1>13
  <2> QED
    BY <1>4, <2>1 DEF G
<1> QED
  BY <1>10, <1>14

(* The fields of the first k copies are types that are made, or copies     *)
(* before them: the order has fields first.                                *)
LEMMA CopiedClosed ==
  ASSUME NEW ts, Founded(ts), NEW M, NEW q, NEW copy, Copying(ts, M, q, copy), NEW k \in 0..Len(q)
  PROVE  ClosedIn(Copied(ts, q, copy), M \cup CopiesUpTo(q, copy, k))
<1> DEFINE fin == Copied(ts, q, copy)
           S == CopiesUpTo(q, copy, Len(q))
           C == M \cup CopiesUpTo(q, copy, k)
<1>1. /\ \A u \in Listed(q) : fin[copy[u]].fields = CopyFields(ts, u, copy)
      /\ \A v \in AnyType \ S : fin[v] = ts[v]
      /\ S = {copy[u] : u \in Listed(q)} /\ S \cap M = {}
  BY CopiedFacts
<1>2. \A u \in Listed(q) : \A v \in GenericFields(ts, u) : v \in Listed(q)
  BY CopiedFounded
<1> HIDE DEF fin, S
<1>3. M \subseteq AnyType /\ \A u \in M : \A j \in 1..Len(ts[u].fields) : ts[u].fields[j].type \in M
  BY DEF Copying, ClosedIn
<1>4. \A u \in Listed(q) : u \in M /\ copy[u] \in AnyType
  BY DEF Copying
<1>5. \A i \in 1..Len(q) : q[i] \in Listed(q)
  BY DEF Listed
<1>6. Len(q) \in Nat
  BY DEF Copying
<1>7. ASSUME NEW v \in M, NEW j \in 1..Len(fin[v].fields) PROVE fin[v].fields[j].type \in C
  BY <1>1, <1>3
<1>8. ASSUME NEW i \in 1..k, NEW j \in 1..Len(fin[copy[q[i]]].fields)
      PROVE  fin[copy[q[i]]].fields[j].type \in C
  <2> DEFINE u == q[i]
  <2>1. i \in 1..Len(q) /\ u \in Listed(q) /\ u \in M /\ u \in AnyType
    BY <1>3, <1>4, <1>5, <1>6
  <2>2. \A v \in GenericFields(ts, u) : copy[v] \in CopiesUpTo(q, copy, k)
    <3> SUFFICES ASSUME NEW v \in GenericFields(ts, u) PROVE copy[v] \in CopiesUpTo(q, copy, k)
      OBVIOUS
    <3>1. PICK l \in 1..(i - 1) : q[l] = v
      BY <2>1 DEF Copying, Ordered
    <3>2. l \in 1..k
      BY <1>6
    <3> QED
      BY <3>1, <3>2 DEF CopiesUpTo
  <2> HIDE DEF u
  <2>3. \A v \in GenericFields(ts, u) : copy[v] \in AnyType
    BY <1>2, <1>4, <2>1
  <2>4. /\ Len(CopyFields(ts, u, copy)) = Len(ts[u].fields)
        /\ \A l \in 1..Len(ts[u].fields) :
             \/ CopyFields(ts, u, copy)[l].type = ts[u].fields[l].type
             \/ /\ ts[u].fields[l].type \in GenericFields(ts, u)
                /\ CopyFields(ts, u, copy)[l].type = copy[ts[u].fields[l].type]
    BY <2>1, <2>3, CopyFieldsFacts
  <2>5. fin[copy[u]].fields = CopyFields(ts, u, copy)
    BY <1>1, <2>1
  <2>6. j \in 1..Len(ts[u].fields)
    BY <2>4, <2>5 DEF u
  <2>7. fin[copy[u]].fields[j].type \in C
    BY <1>3, <2>1, <2>2, <2>4, <2>5, <2>6
  <2> QED
    BY <2>7 DEF u
<1>9. C \subseteq AnyType
  <2>1. \A i \in 1..k : i \in 1..Len(q)
    BY <1>6
  <2> QED
    BY <1>3, <1>4, <1>5, <2>1 DEF CopiesUpTo
<1>10. \A u \in C : u \in M \/ \E i \in 1..k : u = copy[q[i]]
  BY DEF CopiesUpTo
<1> HIDE DEF C
<1>11. ClosedIn(fin, C)
  BY <1>7, <1>8, <1>9, <1>10 DEF ClosedIn
<1> QED
  BY <1>11 DEF fin, C

(* Copying all types in the order, one after the other.                    *)
LEMMA CopyAllSound ==
  ASSUME NEW ts, Founded(ts), NEW M, NEW q, NEW copy, Copying(ts, M, q, copy),
         NEW strict, NEW fit, CopyState(Copied(ts, q, copy), Listed(q), M, ts, strict, fit)
  PROVE  CopyState(Copied(ts, q, copy), Listed(q), M \cup CopiesUpTo(q, copy, Len(q)),
                   CopyAll(ts, q, copy), strict, fit)
<1> DEFINE fin == Copied(ts, q, copy)
           D == Listed(q)
           n == Len(q)
           C(k) == M \cup CopiesUpTo(q, copy, k)
           State(g, k) == CopyState(fin, D, C(k), g, strict, fit)
<1>1. n \in Nat
  BY DEF Copying
<1>2. Founded(fin) /\ CopiesOf(fin, D, copy)
  BY CopiedFounded
<1>3. \A k \in 0..n : ClosedIn(fin, C(k))
  BY CopiedClosed
<1>4. /\ \A u \in D : fin[copy[u]].fields = CopyFields(ts, u, copy)
      /\ \A v \in M : fin[v] = ts[v]
  <2>1. M \subseteq AnyType
    BY DEF Copying, ClosedIn
  <2> QED
    BY <2>1, CopiedFacts
<1> HIDE DEF fin
<1>5. D \subseteq M /\ ClosedIn(ts, M)
  BY DEF Copying
<1>6. PICK g : CopyAllRun(g, ts, q, copy)
  BY <1>1, CopyAllSteps
<1>7. /\ g[0] = ts /\ CopyAll(ts, q, copy) = g[n]
      /\ \A k \in 1..n : g[k] = CopyOne(g[k - 1], q[k], copy)
  BY <1>6 DEF CopyAllRun
<1>8. C(0) = M
  BY DEF CopiesUpTo
<1> DEFINE G == {k \in Nat : k <= n => State(g[k], k)}
<1>9. 0 \in G
  BY <1>7, <1>8 DEF fin
<1>10. ASSUME NEW k \in Nat, k \in G PROVE k + 1 \in G
  <2> SUFFICES ASSUME k + 1 <= n PROVE State(g[k + 1], k + 1)
    OBVIOUS
  <2> DEFINE u == q[k + 1]
             c == copy[u]
             us == g[k]
             Ck == C(k)
  <2>1. k + 1 \in 1..n /\ (k + 1) - 1 = k /\ k <= n /\ k \in 0..n /\ k + 1 \in 0..n
    BY <1>1
  <2>2. CopyState(fin, D, Ck, us, strict, fit)
    BY <1>10, <2>1
  <2>3. u \in D
    BY <2>1 DEF Listed
  <2>4. c \in AnyType \ Ck
    <3>1. c \in AnyType \ M
      BY <2>3 DEF Copying
    <3>2. ASSUME NEW i \in 1..k, c = copy[q[i]] PROVE FALSE
      <4>1. i \in 1..n /\ i # k + 1 /\ q[i] \in D
        BY <2>1 DEF Listed
      <4>2. q[i] = u
        BY <2>3, <3>2, <4>1 DEF Copying
      <4> QED
        BY <2>1, <4>1, <4>2 DEF Copying
    <3> QED
      BY <3>1, <3>2 DEF CopiesUpTo
  <2>5. C(k + 1) = Ck \cup {c}
    <3>1. \A i : i \in 1..(k + 1) <=> i \in 1..k \/ i = k + 1
      BY <2>1
    <3> QED
      BY <3>1 DEF CopiesUpTo
  <2>6. ClosedIn(fin, Ck) /\ ClosedIn(fin, Ck \cup {c})
    <3>1. ClosedIn(fin, C(k)) /\ ClosedIn(fin, C(k + 1))
      BY <1>3, <2>1
    <3> QED
      BY <2>5, <3>1
  <2>7. g[k + 1] = CopyOne(us, u, copy)
    BY <1>7, <2>1
  <2>8. M \subseteq Ck /\ D \subseteq Ck
    BY <1>5
  <2> HIDE DEF u, c, us, Ck, C, G, D, n
  <2>9. c = copy[u]
    BY DEF c
  <2>10. fin[c].fields = CopyFields(us, u, copy)
    <3>1. MadeOf(fin, us, Ck) /\ Ck \subseteq AnyType
      BY <2>2, <2>6 DEF CopyState, ClosedIn
    <3>2. Founded(us)
      BY <1>2, <3>1, MadeOfFounded
    <3>3. AlikeIn(ts, us, M)
      BY <1>4, <2>8, <3>1 DEF MadeOf, AlikeIn
    <3>4. u \in M
      BY <1>5, <2>3
    <3>5. CopyFields(us, u, copy) = CopyFields(ts, u, copy)
      BY <1>5, <3>2, <3>3, <3>4, CopyFieldsAlike
    <3> QED
      BY <1>4, <2>3, <2>9, <3>5
  <2>11. CopyState(fin, D, Ck \cup {c}, CopyOne(us, u, copy), strict, fit)
    BY ONLY <1>2, <2>2, <2>3, <2>4, <2>6, <2>8, <2>9, <2>10, CopyOneSound
  <2> QED
    BY <2>5, <2>7, <2>11
<1> HIDE DEF G
<1>11. \A k \in Nat : k \in G
  BY <1>9, <1>10, EveryNatural
<1>12. State(g[n], n)
  <2> HIDE DEF State, n
  <2>1. n \in G
    BY <1>1, <1>11
  <2> QED
    BY <1>1, <2>1 DEF G
<1> QED
  BY <1>7, <1>12 DEF fin

(* What is in a sequence, said in two ways.                                *)
LEMMA SetOfSequence ==
  ASSUME NEW S, NEW q \in Seq(S)
  PROVE  Len(q) \in Nat /\ DOMAIN q = 1..Len(q) /\ ToSet(q) = Listed(q)
<1>1. Len(q) \in Nat /\ DOMAIN q = 1..Len(q)
  OBVIOUS
<1> QED
  BY <1>1 DEF ToSet, Listed

(* In a sequence that is as long as the set of its elements is large, none *)
(* is there twice.                                                         *)
LEMMA AllDifferent ==
  ASSUME NEW S, NEW q \in Seq(S), Len(q) = Cardinality(Listed(q))
  PROVE  \A i, j \in 1..Len(q) : q[i] = q[j] => i = j
<1> DEFINE n == Len(q)
           T == Listed(q)
<1>1. n \in Nat /\ DOMAIN q = 1..n
  OBVIOUS
<1>2. q \in Surjection(1..n, T)
  <2>1. \A k \in 1..n : q[k] \in T
    BY DEF Listed
  <2>2. q = [k \in 1..n |-> q[k]]
    BY <1>1
  <2>3. \A x \in T : \E k \in 1..n : q[k] = x
    BY DEF Listed
  <2> HIDE DEF T, n
  <2> QED
    BY <2>1, <2>2, <2>3 DEF Surjection
<1>3. IsFiniteSet(1..n) /\ Cardinality(1..n) = n
  BY <1>1, FS_Interval
<1>4. q \in Injection(1..n, T)
  <2> HIDE DEF T
  <2>1. Cardinality(T) = Cardinality(1..n)
    BY <1>3 DEF T
  <2> QED
    BY <1>2, <1>3, <2>1, FS_Surjection
<1> QED
  BY <1>1, <1>4 DEF Injection, IsInjective

(* The first n copies are n types, none of them made by the client.        *)
LEMMA FirstCopies ==
  ASSUME NEW n \in 0..Len(Copies)
  PROVE  /\ n \in Nat /\ Len(Copies) \in Nat
         /\ Cardinality({Copies[k] : k \in 1..n}) = n
         /\ \A i, j \in 1..Len(Copies) : Copies[i] = Copies[j] => i = j
         /\ \A i \in 1..Len(Copies) : Copies[i] \in AnyType \ Type
<1>1. Copies \in Seq(ToSet(Copies)) /\ IsInjective(Copies) /\ Type \cap ToSet(Copies) = {}
  BY TypeMappersAssumption
<1>2. Len(Copies) \in Nat /\ DOMAIN Copies = 1..Len(Copies)
  BY <1>1
<1>3. \A i, j \in 1..Len(Copies) : Copies[i] = Copies[j] => i = j
  BY <1>1, <1>2 DEF IsInjective
<1>4. \A i \in 1..Len(Copies) : Copies[i] \in AnyType \ Type
  BY <1>1, <1>2 DEF ToSet, AnyType
<1>5. n \in Nat /\ \A i \in 1..n : i \in 1..Len(Copies)
  BY <1>2
<1> DEFINE S == {Copies[k] : k \in 1..n}
           f == [k \in 1..n |-> Copies[k]]
<1>6. f \in [1..n -> S] /\ DOMAIN f = 1..n
  OBVIOUS
<1>7. IsInjective(f)
  BY <1>3, <1>5 DEF IsInjective
<1>8. \A x \in S : \E k \in 1..n : f[k] = x
  OBVIOUS
<1>9. f \in Bijection(1..n, S)
  <2> HIDE DEF f, S
  <2> QED
    BY <1>6, <1>7, <1>8 DEF Bijection, Injection, Surjection
<1>10. Cardinality(S) = n
  <2> HIDE DEF f, S
  <2>1. ExistsBijection(1..n, S)
    BY <1>9 DEF ExistsBijection
  <2> QED
    BY <1>5, <2>1, FS_CountingElements
<1> QED
  BY <1>2, <1>3, <1>4, <1>5, <1>10

(* Copying a type (Type::Copy, with those in its fields) keeps the         *)
(* invariant: the order CopyOrder gives has fields first and each type     *)
(* once, and the copies are the next unused ones.                          *)
LEMMA CopySound ==
  ASSUME TypesInv, NEW t \in Made, UserCopy(t), habits' = habits
  PROVE  TypesInv'
<1> SUFFICES ASSUME Ordinary PROVE (Structure /\ Sound(types, types, Made, Strict, Exact))'
  BY DEF TypesInv, Ordinary
<1> DEFINE q == CopyOrder(types, t)
           N == Len(q)
           used == Cardinality(Made \ Type)
           copy == [u \in ToSet(q) |-> Copies[used + CHOOSE k \in DOMAIN q : q[k] = u]]
           fin == Copied(types, q, copy)
           D == Listed(q)
           M2 == Made \cup CopiesUpTo(q, copy, N)
<1>1. Structure /\ MapperLists(types) /\ Founded(types) /\ MadeFirst /\ ClosedIn(types, Made)
      /\ Sound(types, types, Made, Strict, Exact)
  BY DEF TypesInv, Structure
<1>2. /\ q \in Seq(AnyType) /\ used + N <= Len(Copies) /\ N = Cardinality(ToSet(q))
      /\ types' = CopyAll(types, q, copy)
      /\ \A u \in ToSet(q) : \A m \in ToSet(types[u].mappers) : ~ IsEqual(types, u, m.b)
  BY DEF UserCopy, Ordinary
<1>3. Ordered(types, q) /\ D \subseteq PartsOf(types, t) /\ t \in AnyType
  BY <1>1, OrderFacts DEF Made
<1>4. D \subseteq Made
  BY <1>1, <1>3, PartsWithin
<1> HIDE DEF q, copy
<1>5. N \in Nat /\ DOMAIN q = 1..N /\ ToSet(q) = D
  BY <1>2, SetOfSequence
<1>6. \A i, j \in 1..N : q[i] = q[j] => i = j
  BY <1>2, <1>5, AllDifferent
<1>7. PICK n \in 0..Len(Copies) : Made \ Type = {Copies[k] : k \in 1..n}
  BY <1>1 DEF MadeFirst
<1>8. /\ n \in Nat /\ Len(Copies) \in Nat /\ used = n
      /\ \A i, j \in 1..Len(Copies) : Copies[i] = Copies[j] => i = j
      /\ \A i \in 1..Len(Copies) : Copies[i] \in AnyType \ Type
  BY <1>7, FirstCopies
<1>9. /\ copy = [u \in D |-> copy[u]]
      /\ \A i \in 1..N : copy[q[i]] = Copies[n + i]
  <2>1. \A i \in 1..N : (CHOOSE k \in DOMAIN q : q[k] = q[i]) = i
    BY <1>5, <1>6
  <2>2. \A i \in 1..N : q[i] \in D
    BY DEF Listed
  <2>3. copy = [u \in D |-> Copies[n + CHOOSE k \in DOMAIN q : q[k] = u]]
    BY <1>5, <1>8 DEF copy
  <2> HIDE DEF D
  <2> QED
    BY <2>1, <2>2, <2>3
<1>10. \A i \in 1..N : n + i \in 1..Len(Copies) /\ n + i \notin 1..n
  BY <1>2, <1>5, <1>8
<1> HIDE DEF used
<1>11. \A i \in 1..N : Copies[n + i] \in AnyType \ Made
  <2> SUFFICES ASSUME NEW i \in 1..N, Copies[n + i] \in Made PROVE FALSE
    BY <1>8, <1>10
  <2>1. Copies[n + i] \in Made \ Type
    BY <1>8, <1>10
  <2>2. PICK k \in 1..n : Copies[n + i] = Copies[k]
    BY <1>7, <2>1
  <2>3. k \in 1..Len(Copies)
    BY <1>8, <1>7
  <2> QED
    BY <1>8, <1>10, <2>2, <2>3
<1>12. \A u \in D : \E i \in 1..N : u = q[i]
  BY DEF Listed
<1>13. Copying(types, Made, q, copy)
  <2>1. copy \in [D -> AnyType \ Made]
    <3>1. \A u \in D : copy[u] \in AnyType \ Made
      BY <1>9, <1>11, <1>12
    <3> HIDE DEF D
    <3> QED
      BY <1>9, <3>1
  <2>2. \A v, w \in D : copy[v] = copy[w] => v = w
    <3> SUFFICES ASSUME NEW v \in D, NEW w \in D, copy[v] = copy[w] PROVE v = w
      OBVIOUS
    <3>1. PICK i \in 1..N : v = q[i]
      BY <1>12
    <3>2. PICK j \in 1..N : w = q[j]
      BY <1>12
    <3>3. Copies[n + i] = Copies[n + j]
      BY <1>9, <3>1, <3>2
    <3>4. n + i = n + j
      BY <1>8, <1>10, <3>3
    <3>5. i = j
      BY <1>8, <3>4
    <3> QED
      BY <3>1, <3>2, <3>5
  <2>3. \A v \in AnyType \ Made : types[v].fields = << >>
    BY <1>1 DEF MadeFirst
  <2> HIDE DEF Made
  <2> QED
    BY <1>1, <1>3, <1>4, <1>5, <1>6, <2>1, <2>2, <2>3 DEF Copying
<1>14. Founded(fin) /\ CopiesOf(fin, D, copy)
  BY <1>1, <1>13, CopiedFounded
<1>15. \A v \in Made : fin[v] = types[v]
  <2>1. \A v \in Made : v \in AnyType
    BY DEF Made
  <2> HIDE DEF Made
  <2> QED
    BY <1>13, <2>1, CopiedFacts
<1>16. 0 \in 0..N /\ N \in 0..N
  BY <1>5
<1>17. ClosedIn(fin, M2)
  BY <1>1, <1>13, <1>16, CopiedClosed
<1> HIDE DEF fin
<1>18. AlikeIn(types, fin, Made) /\ AlikeIn(fin, types, Made) /\ Made \subseteq AnyType
  BY <1>15 DEF AlikeIn, Made
<1>19. CopyState(fin, D, Made, types, Strict, Exact)
  <2>1. MadeOf(fin, types, Made)
    BY <1>1, <1>18 DEF MadeOf, MadeFirst
  <2>2. \A v \in Made : Flatten(fin, v) = Flatten(types, v)
    BY <1>1, <1>14, <1>18, FlattenAlike
  <2>3. \A v, w \in Made : IsEqual(fin, v, w) <=> IsEqual(types, v, w)
    BY <1>1, <1>14, <1>18, EqualAlike
  <2>4. \A v \in AnyType : \A x \in MappersOf(types, v) : v \in Made /\ x.b \in Made
    BY <1>1 DEF Sound, Between
  <2> HIDE DEF Made
  <2>5. Exact => AllFit(fin, types)
    BY <1>1, <2>2, <2>4 DEF Sound, AllFit, Fits
  <2>6. \A v \in D : \A x \in MappersOf(types, v) : ~ IsEqual(fin, v, x.b)
    <3> SUFFICES ASSUME NEW v \in D, NEW x \in MappersOf(types, v) PROVE ~ IsEqual(fin, v, x.b)
      OBVIOUS
    <3>1. v \in Made /\ v \in AnyType
      BY <1>4, <1>18
    <3>2. x \in ToSet(types[v].mappers)
      BY <1>1, <3>1, StoredMappers
    <3>3. ~ IsEqual(types, v, x.b)
      BY <1>2, <1>5, <3>2
    <3> QED
      BY <2>3, <2>4, <3>1, <3>3
  <2> QED
    BY <1>1, <2>1, <2>5, <2>6 DEF CopyState, Sound
<1>20. CopyState(fin, D, M2, types', Strict, Exact)
  BY <1>1, <1>2, <1>13, <1>19, CopyAllSound DEF fin
<1>21. /\ MapperLists(types') /\ MadeOf(fin, types', M2) /\ AlikeIn(fin, types', M2)
       /\ Sound(fin, types', M2, Strict, Exact) /\ M2 \subseteq AnyType
  BY <1>17, <1>20 DEF CopyState, MadeOf, ClosedIn
<1>22. Founded(types')
  BY <1>14, <1>21, MadeOfFounded
<1>23. \A v \in M2 : fin[v].id # "none"
  <2>1. \A v \in Made : fin[v].id # "none"
    BY <1>15 DEF Made
  <2>2. \A i \in 1..N : fin[copy[q[i]]].id # "none"
    <3> SUFFICES ASSUME NEW i \in 1..N PROVE fin[copy[q[i]]].id # "none"
      OBVIOUS
    <3>1. q[i] \in D
      BY DEF Listed
    <3>2. fin[copy[q[i]]].id = fin[q[i]].id
      BY <1>14, <3>1 DEF CopiesOf
    <3> QED
      BY <1>4, <2>1, <3>1, <3>2
  <2> QED
    BY <2>1, <2>2 DEF CopiesUpTo
<1>24. Made' = M2
  <2>1. \A v \in AnyType : types'[v].id # "none" <=> v \in M2
    BY <1>21, <1>23 DEF MadeOf, AlikeIn
  <2> HIDE DEF M2
  <2>2. Made' = {v \in AnyType : types'[v].id # "none"}
    BY DEF Made
  <2> QED
    BY <1>21, <2>1, <2>2
<1>25. MadeFirst'
  <2>1. Type \subseteq M2
    BY <1>1 DEF MadeFirst
  <2>2. \A v \in AnyType \ M2 : types'[v].id = "none" /\ types'[v].fields = << >>
    BY <1>21 DEF MadeOf
  <2>3. M2 \ Type = {Copies[k] : k \in 1..(n + N)}
    <3>1. ASSUME NEW v PROVE v \in M2 \ Type <=> \E k \in 1..(n + N) : v = Copies[k]
      <4>1. v \in Made \ Type <=> \E k \in 1..n : v = Copies[k]
        BY <1>7
      <4>2. v \in CopiesUpTo(q, copy, N) <=> \E i \in 1..N : v = Copies[n + i]
        BY <1>9 DEF CopiesUpTo
      <4>3. \A i \in 1..N : Copies[n + i] \notin Type
        BY <1>8, <1>10
      <4>4. v \in M2 \ Type <=> v \in Made \ Type \/ v \in CopiesUpTo(q, copy, N)
        BY <4>2, <4>3
      <4>5. (\E k \in 1..(n + N) : v = Copies[k]) <=>
              (\E k \in 1..n : v = Copies[k]) \/ (\E i \in 1..N : v = Copies[n + i])
        <5>1. \A k \in 1..(n + N) : k \in 1..n \/ (k - n \in 1..N /\ n + (k - n) = k)
          BY <1>5, <1>8
        <5>2. \A k \in 1..n : k \in 1..(n + N)
          BY <1>5, <1>8
        <5>3. \A i \in 1..N : n + i \in 1..(n + N)
          BY <1>5, <1>8
        <5> QED
          BY <5>1, <5>2, <5>3
      <4> QED
        BY <4>1, <4>2, <4>4, <4>5
    <3> QED
      BY <3>1
  <2>4. n + N \in 0..Len(Copies)
    BY <1>2, <1>5, <1>8
  <2> HIDE DEF M2
  <2> QED
    BY <1>24, <2>1, <2>2, <2>3, <2>4 DEF MadeFirst
<1>26. ClosedIn(types', M2)
  BY <1>17, <1>21 DEF ClosedIn, AlikeIn
<1>27. Sound(types', types', M2, Strict, Exact)
  <2>1. \A v \in M2 : Flatten(types', v) = Flatten(fin, v)
    BY <1>14, <1>17, <1>21, <1>22, FlattenAlike
  <2>2. \A v \in AnyType : \A x \in MappersOf(types', v) : v \in M2 /\ x.b \in M2
    BY <1>21 DEF Sound, Between
  <2> HIDE DEF M2
  <2>3. Exact => AllFit(types', types')
    BY <1>21, <2>1, <2>2 DEF Sound, AllFit, Fits
  <2> QED
    BY <1>21, <2>3 DEF Sound
<1>28. (Strict <=> Strict') /\ (Exact <=> Exact')
  BY DEF Strict, Exact
<1> HIDE DEF M2
<1>29. Sound(types, types, Made, Strict, Exact)'
  BY <1>24, <1>27, <1>28 DEF Sound
<1> QED
  BY <1>21, <1>22, <1>24, <1>25, <1>26, <1>29 DEF Structure

-----------------------------------------------------------------------------
(* The invariant, and what follows from it.                                *)

(* Types have no mappers to begin with, and none is inside itself.         *)
LEMMA TypesStartSound == TypesInit => TypesInv
<1> SUFFICES ASSUME TypesInit PROVE Structure /\ Sound(types, types, Made, Strict, Exact)
  BY DEF TypesInv
<1>1. ASSUME NEW u \in Type
      PROVE  types[u].id = InitId[u] /\ types[u].fields = InitFields[u] /\ types[u].mappers = << >>
  BY DEF TypesInit, AnyType
<1>2. ASSUME NEW u \in AnyType \ Type
      PROVE  types[u].id = "none" /\ types[u].fields = << >> /\ types[u].mappers = << >>
  BY DEF TypesInit, NotMade
<1>3. Made = Type
  <2>1. \A u \in Type : u \in AnyType /\ types[u].id # "none"
    BY <1>1, TypeMappersAssumption DEF AnyType, Ids
  <2> QED
    BY <1>2, <2>1 DEF Made
<1>4. PICK d \in [Type -> 0..Cardinality(Type)] :
        \A u \in Type : \A k \in DOMAIN InitFields[u] : d[InitFields[u][k].type] < d[u]
  BY TypeMappersAssumption
<1>5. \A u \in Type : InitFields[u] \in Seq([type : Type, reverse : BOOLEAN])
  BY TypeMappersAssumption
<1>6. \A u \in Type : \A k \in 1..Len(InitFields[u]) :
        k \in DOMAIN InitFields[u] /\ InitFields[u][k].type \in Type
  <2> SUFFICES ASSUME NEW u \in Type, NEW k \in 1..Len(InitFields[u])
               PROVE  k \in DOMAIN InitFields[u] /\ InitFields[u][k].type \in Type
    OBVIOUS
  <2> DEFINE F == [type : Type, reverse : BOOLEAN]
  <2>1. InitFields[u] \in Seq(F)
    BY <1>5
  <2> HIDE DEF F
  <2>2. k \in DOMAIN InitFields[u] /\ InitFields[u][k] \in F
    BY <2>1
  <2> QED
    BY <2>2 DEF F
<1>7. Cardinality(Type) \in Nat
  BY TypeMappersAssumption, FS_CardinalityType
<1> DEFINE B == Cardinality(Type)
           depth == [u \in AnyType |-> IF u \in Type THEN d[u] ELSE 0]
<1>8. Type \subseteq AnyType
  BY DEF AnyType
<1>9. Founded(types)
  <2>1. depth \in [AnyType -> 0..B]
    BY <1>4, <1>7
  <2>2. \A u \in Type : depth[u] = d[u]
    BY <1>8
  <2> HIDE DEF depth, B
  <2>3. \A u \in Type : types[u].fields \in Seq(Field)
    <3>1. [type : Type, reverse : BOOLEAN] \subseteq Field
      BY <1>8 DEF Field
    <3>2. \A R, S : R \subseteq S => Seq(R) \subseteq Seq(S)
      OBVIOUS
    <3> QED
      BY <1>1, <1>5, <3>1, <3>2
  <2>4. ASSUME NEW u \in AnyType
        PROVE  /\ types[u].fields \in Seq(Field)
               /\ \A k \in 1..Len(types[u].fields) : depth[types[u].fields[k].type] < depth[u]
    <3>1. CASE u \in Type
      BY <1>1, <1>4, <1>6, <2>2, <2>3, <3>1
    <3>2. CASE u \notin Type
      <4>1. types[u].fields = << >> /\ 1..Len(types[u].fields) = {}
        BY <1>2, <3>2, EmptyOneEach
      <4> QED
        BY <4>1
    <3> QED
      BY <3>1, <3>2
  <2>5. Depths(types, B, depth)
    BY <1>7, <2>1, <2>4 DEF Depths, B
  <2> QED
    BY <2>5 DEF Founded
<1>10. ClosedIn(types, Made)
  BY <1>1, <1>3, <1>6, <1>8 DEF ClosedIn
<1>11. MadeFirst
  <2>1. Copies \in Seq(ToSet(Copies))
    BY TypeMappersAssumption
  <2>2. Len(Copies) \in Nat
    BY <2>1
  <2>3. 0 \in 0..Len(Copies) /\ Made \ Type = {Copies[k] : k \in 1..0}
    BY <1>3, <2>2
  <2> QED
    BY <1>2, <1>3, <2>3 DEF MadeFirst
<1>12. \A u \in AnyType : MappersOf(types, u) = {}
  <2>1. \A u \in AnyType : types[u].mappers = << >>
    BY <1>1, <1>2
  <2> QED
    BY <2>1, EmptyOneEach DEF MappersOf, Listed
<1>13. Sound(types, types, Made, Strict, Exact)
  BY <1>12 DEF Sound, Between, Mutual, Opposed, AllFit
<1> QED
  BY <1>9, <1>10, <1>11, <1>13, TypesStart DEF Structure

(* Every step of a client keeps the invariant.                             *)
LEMMA TypesNextSound ==
  ASSUME TypesInv, [TypesNext]_mapperVars
  PROVE  TypesInv'
<1>1. CASE UNCHANGED mapperVars
  BY <1>1 DEF mapperVars, TypesInv, Ordinary, Structure, Made, MadeFirst, Strict, Exact
<1> SUFFICES ASSUME TypesNext PROVE TypesInv'
  BY <1>1
<1>2. habits' = habits
  BY DEF TypesNext
<1>3. CASE \E t, u \in Made, map \in Maps : UserAddMapper(t, u, map)
  BY <1>2, <1>3, AddMapperSound
<1>4. CASE \E t, u \in Made : UserAddWrongMapper(t, u)
  BY <1>2, <1>4 DEF UserAddWrongMapper, TypesInv, Ordinary
<1>5. CASE \E t, u \in Made : UserRemoveMappers(t, u)
  BY <1>2, <1>5 DEF UserRemoveMappers, TypesInv, Ordinary
<1>6. CASE \E s \in Stream, t \in ElementTypes : UserSetElementType(s, t)
  BY <1>2, <1>6, SetElementSound
<1>7. CASE \E r \in Made, t \in ElementTypes : UserAddField(r, t)
  BY <1>2, <1>7, AddFieldSound
<1>8. CASE \E t \in Made : UserCopy(t)
  BY <1>2, <1>8, CopySound
<1> QED
  BY <1>3, <1>4, <1>5, <1>6, <1>7, <1>8 DEF TypesNext

(* What holds of types and their mappers in every state, for ordinary      *)
(* clients.                                                                *)
THEOREM TypesAreSound == TypesSpec => []TypesInv
<1>1. TypesInv /\ [TypesNext]_mapperVars => TypesInv'
  BY TypesNextSound
<1> QED
  BY <1>1, TypesStartSound, PTL DEF TypesSpec

(* A type that can be converted to another can be converted from it, so    *)
(* that the mapper the back ends ask the destination for is there when     *)
(* Connect found one from the source (edge.cc:85, architecture.cc:192): a  *)
(* mapper in a list has one back, and types are equal both ways.           *)
THEOREM ConversionsGoBothWays == TypesSpec => []ConvertsBothWays
<1>1. TypesInv => ConvertsBothWays
  <2> SUFFICES ASSUME TypesInv, Ordinary PROVE \A t, u \in Made : CanConvert(types, t, u) => CanConvert(types, u, t)
    BY DEF ConvertsBothWays, CanConvert, Ordinary
  <2> SUFFICES ASSUME NEW t \in Made, NEW u \in Made, CanConvert(types, t, u) PROVE CanConvert(types, u, t)
    OBVIOUS
  <2>1. MapperLists(types) /\ Founded(types) /\ Mutual(types)
    BY DEF TypesInv, Structure, Sound
  <2>2. t \in AnyType /\ u \in AnyType
    BY DEF Made
  <2>3. CASE Stored(types, t, u)
    <3>1. PICK x \in MappersOf(types, t) : x.b = u
      BY <2>1, <2>2, <2>3, StoredMappers DEF Stored
    <3>2. \E y \in MappersOf(types, u) : y.b = t
      BY <2>1, <2>2, <3>1 DEF Mutual
    <3>3. Stored(types, u, t)
      BY <2>1, <2>2, <3>2, StoredMappers DEF Stored
    <3> QED
      BY <3>3 DEF CanConvert
  <2>4. CASE t = u \/ IsEqual(types, t, u)
    BY <2>1, <2>2, <2>4, EqualSymmetric DEF CanConvert
  <2> QED
    BY <2>3, <2>4 DEF CanConvert
<1> QED
  BY <1>1, TypesAreSound, PTL

(* Mappers are about the parts their types have now, and their matrices    *)
(* have a row and a column for each (stream.cc:24).                        *)
THEOREM MappersFitTypes == TypesSpec => []MappersFit
<1>1. TypesInv => MappersFit
  <2> SUFFICES ASSUME TypesInv, Exact, NEW t \in Made, NEW m \in ToSet(types[t].mappers)
               PROVE  /\ m.flat_a = Flatten(types, t) /\ m.flat_b = Flatten(types, m.b)
                      /\ m.matrix.height = Len(m.flat_a) /\ m.matrix.width = Len(m.flat_b)
    BY DEF MappersFit, Exact
  <2>1. Ordinary
    BY DEF Ordinary, Exact
  <2>2. MapperLists(types) /\ AllFit(types, types) /\ t \in AnyType
    BY <2>1 DEF TypesInv, Structure, Sound, Made
  <2>3. Fits(types, t, m)
    BY <2>2, StoredMappers DEF AllFit
  <2> QED
    BY <2>3 DEF Fits
<1> QED
  BY <1>1, TypesAreSound, PTL

(* Mappers of the two directions do the same, also between copies          *)
(* (AddMapper and InverseMapper in type.cc).                               *)
THEOREM InversesAgree == TypesSpec => []DirectionsAgree
<1>1. TypesInv => DirectionsAgree
  <2> SUFFICES ASSUME TypesInv, Strict, NEW t \in Made, NEW m \in ToSet(types[t].mappers),
                      NEW n \in ToSet(types[m.b].mappers), n.b = t
               PROVE  n.matrix = Transpose(m.matrix)
    BY DEF DirectionsAgree, Strict
  <2>1. Ordinary
    BY DEF Ordinary, Strict
  <2>2. MapperLists(types) /\ Opposed(types) /\ Between(types, Made) /\ t \in AnyType
    BY <2>1 DEF TypesInv, Structure, Sound, Made
  <2>3. m \in MappersOf(types, t)
    BY <2>2, StoredMappers
  <2>4. m.b \in AnyType
    BY <2>2, <2>3 DEF Between, Made
  <2>5. n \in MappersOf(types, m.b)
    BY <2>2, <2>4, StoredMappers
  <2> QED
    BY <2>2, <2>3, <2>5 DEF Opposed
<1> QED
  BY <1>1, TypesAreSound, PTL
=============================================================================
