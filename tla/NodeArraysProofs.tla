-------------------------- MODULE NodeArraysProofs --------------------------
(***************************************************************************)
(* Proofs about node arrays, for any number of arrays and parameters.      *)
(*                                                                         *)
(* No parameter is ever the size of two arrays, for a client with any      *)
(* habits.  SizeHasOneUser alone is not inductive: SetSize decides by      *)
(* node_array_parent, so that has to name the array of every parameter in  *)
(* use.  The converse does not hold (a parameter keeps naming an array it  *)
(* no longer sizes) and is not needed.                                     *)
(*                                                                         *)
(* For the ordinary client, the size of an array is the number of its      *)
(* elements.  TraceEnd and OnTrace are defined by recursion along the      *)
(* values of parameters; as long as these do not go in a circle they       *)
(* satisfy the equations one expects (TraceFacts), and connecting a        *)
(* parameter moves exactly the traces that pass it (Redirect).  With that, *)
(* Append increments the literal of one array and of no other, since the   *)
(* traces of different arrays do not meet.                                 *)
(***************************************************************************)
EXTENDS NodeArrays, Induction

(* The parameter an array has for its size names that array.               *)
UserNamesArray == \A a \in AnyArray : size[a] \in Parameter => user[size[a]] = a

SizeInv ==
  /\ size = [a \in AnyArray |-> size[a]]
  /\ user \in [Parameter -> AnyArray \cup {None}]
  /\ UserNamesArray

(* Giving an array a size node it may use keeps the parameters apart.      *)
LEMMA UseKeepsSizeInv ==
  ASSUME SizeInv, NEW a \in AnyArray, NEW v, MayUse(a, v),
         size' = [size EXCEPT ![a] = v], user' = Use(a, v)
  PROVE  SizeInv'
<1>1. size' = [x \in AnyArray |-> size'[x]]
  BY DEF SizeInv
<1>2. user' \in [Parameter -> AnyArray \cup {None}]
  BY DEF SizeInv, Use
<1>3. None \notin AnyArray
  BY ArraysAssumption DEF AnyArray
<1>4. ASSUME NEW x \in AnyArray, size'[x] \in Parameter PROVE user'[size'[x]] = x
  <2>1. CASE x = a
    BY <1>4, <2>1 DEF SizeInv, Use
  <2>2. CASE x # a
    <3>1. size'[x] = size[x] /\ user[size[x]] = x
      BY <1>4, <2>2 DEF SizeInv, UserNamesArray
    <3>2. v \in Parameter => v # size[x]
      BY <1>3, <2>2, <3>1 DEF MayUse
    <3> QED
      BY <1>4, <3>1, <3>2 DEF Use, SizeInv
  <2> QED
    BY <2>1, <2>2
<1> QED
  BY <1>1, <1>2, <1>4 DEF SizeInv, UserNamesArray

(* Copied arrays start with the parameters of their instance.              *)
LEMMA SizeInvInit == ArraysInit => SizeInv
<1> SUFFICES ASSUME ArraysInit PROVE SizeInv
  OBVIOUS
<1>1. \A a \in Array : a \in AnyArray
  BY DEF AnyArray
<1>2. size = [a \in AnyArray |-> size[a]]
  BY DEF ArraysInit
<1>3. user \in [Parameter -> AnyArray \cup {None}]
  BY <1>1 DEF ArraysInit
<1>4. None \notin Parameter
  BY ArraysAssumption DEF Value
<1>5. ASSUME NEW x \in AnyArray, size[x] \in Parameter PROVE user[size[x]] = x
  <2>1. x \in Array /\ size[x] = InitSize[x]
    BY <1>4, <1>5 DEF ArraysInit
  <2>2. \A a \in Array : InitSize[a] = InitSize[x] => a = x
    BY <1>5, <2>1, ArraysAssumption
  <2>3. user[size[x]] = CHOOSE a \in Array : InitSize[a] = InitSize[x]
    BY <1>5, <2>1 DEF ArraysInit
  <2> QED
    BY <2>1, <2>2, <2>3
<1> QED
  BY <1>2, <1>3, <1>5 DEF SizeInv, UserNamesArray

(* Every way of giving an array a size node asks node_array_parent first.  *)
LEMMA SizeInvStep == SizeInv /\ [ArraysNext]_arrayVars => SizeInv'
<1> SUFFICES ASSUME SizeInv, [ArraysNext]_arrayVars PROVE SizeInv'
  OBVIOUS
<1>1. ASSUME UNCHANGED <<size, user>> PROVE SizeInv'
  BY <1>1 DEF SizeInv, UserNamesArray
<1>2. ASSUME NEW p \in Parameter, NEW v \in Value, SetValue(p, v) PROVE SizeInv'
  BY <1>1, <1>2 DEF SetValue
<1>3. ASSUME NEW a \in Array, NEW v \in Value, SetSize(a, v) PROVE SizeInv'
  <2>1. a \in AnyArray
    BY DEF AnyArray
  <2> QED
    BY <1>3, <2>1, UseKeepsSizeInv DEF SetSize
<1>4. ASSUME NEW a \in Array, AppendOnly(a) \/ AppendThrows(a) PROVE SizeInv'
  BY <1>1, <1>4 DEF AppendOnly, AppendThrows
<1>5. ASSUME NEW a \in Array, AppendToValue(a) PROVE SizeInv'
  <2> DEFINE v == [size[a] EXCEPT !.n = @ + 1]
  <2>1. a \in AnyArray
    BY DEF AnyArray
  <2>2. size[a] \in Literal \cup Expression /\ size[a].n < MaxValue /\ MaxValue \in Nat
    BY <1>5, ArraysAssumption DEF AppendToValue
  <2>3. v \in Literal \cup Expression
    BY <2>2 DEF Literal, Expression
  <2>4. size' = [size EXCEPT ![a] = v] /\ user' = user
    BY <1>5 DEF AppendToValue
  <2>5. v \in Value /\ v \notin Parameter
    BY <2>3, ArraysAssumption DEF Value
  <2>6. MayUse(a, v) /\ user' = Use(a, v)
    BY <2>4, <2>5 DEF MayUse, Use
  <2> QED
    BY <2>1, <2>4, <2>5, <2>6, UseKeepsSizeInv
<1>6. ASSUME NEW a \in Array, AppendToParameter(a) PROVE SizeInv'
  <2>1. a \in AnyArray
    BY DEF AnyArray
  <2>2. size' = [size EXCEPT ![a] = size[a]]
    BY <1>6, <2>1 DEF AppendToParameter, SizeInv
  <2> QED
    BY <1>6, <2>1, <2>2, UseKeepsSizeInv DEF AppendToParameter
<1>7. ASSUME NEW a \in Array, NEW s \in SigArray, AttachSignalArray(a, s) PROVE SizeInv'
  <2>1. s \in AnyArray
    BY DEF AnyArray
  <2> QED
    BY <1>7, <2>1, UseKeepsSizeInv DEF AttachSignalArray
<1>8. ASSUME NEW p \in Parameter, NEW r \in Parameter, Replace(p, r) PROVE SizeInv'
  <2>1. CASE user[p] # None /\ MayUse(user[p], r)
    <3>1. user[p] \in AnyArray
      BY <2>1 DEF SizeInv
    <3>2. size' = [size EXCEPT ![user[p]] = r] /\ user' = Use(user[p], r)
      BY <1>8, <2>1 DEF Replace
    <3> QED
      BY <2>1, <3>1, <3>2, UseKeepsSizeInv
  <2>2. CASE ~ (user[p] # None /\ MayUse(user[p], r))
    BY <1>1, <1>8, <2>2 DEF Replace
  <2> QED
    BY <2>1, <2>2
<1>9. CASE UNCHANGED arrayVars
  BY <1>1, <1>9 DEF arrayVars
<1>10. ASSUME NEW a \in Array, NEW s \in SigArray, AttachThrows(a, s) PROVE SizeInv'
  <2> DEFINE v == ReboundSize(a)
  <2>1. size' = size /\ MayUse(s, v) /\ user' = Use(s, v) /\ s \in AnyArray
    BY <1>10 DEF AttachThrows, AnyArray
  <2> HIDE DEF v
  <2>2. user' \in [Parameter -> AnyArray \cup {None}]
    BY <2>1 DEF SizeInv, Use
  <2>3. ASSUME NEW x \in AnyArray, size[x] \in Parameter PROVE user'[size[x]] = x
    <3>1. user[size[x]] = x /\ x # None
      BY <2>3, ArraysAssumption DEF SizeInv, UserNamesArray, AnyArray
    <3> QED
      BY <2>1, <2>3, <3>1 DEF MayUse, Use, SizeInv
  <2> QED
    BY <2>1, <2>2, <2>3 DEF SizeInv, UserNamesArray
<1> QED
  BY <1>2, <1>3, <1>4, <1>5, <1>6, <1>7, <1>8, <1>9, <1>10 DEF ArraysNext

(* "NodeArray size can only be used by a single NodeArray" (array.cc:66)   *)
(* is true of every reachable state and not only of the calls that check.  *)
THEOREM SizesAreNotShared == ArraysSpec => []SizeHasOneUser
<1>1. SizeInv => SizeHasOneUser
  BY DEF SizeInv, UserNamesArray, SizeHasOneUser
<1> QED
  BY <1>1, SizeInvInit, SizeInvStep, PTL DEF ArraysSpec

-----------------------------------------------------------------------------
(* Hops, TraceEnd and OnTrace for parameters with values D, so that the    *)
(* values before and after a step can be compared.                         *)
HopsIn(D, v) ==
  LET hop[k \in 0..Cardinality(Parameter)] ==
        IF k = 0 THEN v
        ELSE LET u == hop[k - 1] IN IF u \in Parameter THEN D[u] ELSE u
  IN  hop
EndIn(D, v) == HopsIn(D, v)[Cardinality(Parameter)]
OnIn(D, v) == {HopsIn(D, v)[k] : k \in 0..Cardinality(Parameter)} \cap Parameter

(* After N hops every parameter there is has been passed.                  *)
N == Cardinality(Parameter)
Hop(D, u) == IF u \in Parameter THEN D[u] ELSE u
(* No parameters are each other's values in a circle: out of any set of    *)
(* them the value of one leads.                                            *)
NoCircle(D) == \A X \in SUBSET Parameter : X # {} => \E p \in X : D[p] \notin X

(* What the assumption says of values.                                     *)
LEMMA ValueFacts == /\ N \in Nat /\ IsFiniteSet(Parameter) /\ Parameter \subseteq Value
                    /\ \A u \in Value : u \notin Parameter => u \in Literal \cup Expression
                    /\ \A u \in Literal \cup Expression : u \notin Parameter /\ u \in Value
<1>1. IsFiniteSet(Parameter)
  BY ArraysAssumption
<1>2. N \in Nat
  BY <1>1, FS_CardinalityType DEF N
<1> QED
  BY <1>1, <1>2, ArraysAssumption DEF Value

(* The recursive definition of Hops defines a function.                    *)
LEMMA HopsFacts ==
  ASSUME NEW D \in [Parameter -> Value], NEW v \in Value
  PROVE  /\ HopsIn(D, v) \in [0..N -> Value]
         /\ HopsIn(D, v)[0] = v
         /\ \A k \in 1..N : HopsIn(D, v)[k] = Hop(D, HopsIn(D, v)[k - 1])
<1> DEFINE Is(f) == f = [k \in 0..N |-> IF k = 0 THEN v
                           ELSE LET u == f[k - 1] IN IF u \in Parameter THEN D[u] ELSE u]
           b == CHOOSE f : Is(f)
           F == [k \in 1..N |-> [u \in Value |-> Hop(D, u)]]
<1>1. N \in Nat
  BY ValueFacts
<1>2. F \in [1..N -> [Value -> Value]]
  BY DEF Hop
<1>3. PICK f \in [0..N -> Value] : f = [k \in 0..N |-> IF k = 0 THEN v ELSE F[k][f[k - 1]]]
  <2> HIDE DEF F
  <2>1. \E f \in [0..N -> Value] : Iterated(f, N, v, F)
    BY <1>1, <1>2, Iterates
  <2> QED
    BY <2>1 DEF Iterated
<1>4. ASSUME NEW k \in 0..N
      PROVE  f[k] = IF k = 0 THEN v
                    ELSE LET u == f[k - 1] IN IF u \in Parameter THEN D[u] ELSE u
  <2>1. f[k] = IF k = 0 THEN v ELSE F[k][f[k - 1]]
    BY <1>3
  <2>2. k # 0 => f[k - 1] \in Value /\ k \in 1..N
    <3>1. k # 0 => k - 1 \in 0..N /\ k \in 1..N
      BY <1>1
    <3> QED
      BY <3>1
  <2>3. k # 0 => F[k][f[k - 1]] = Hop(D, f[k - 1])
    BY <2>2
  <2> HIDE DEF F
  <2>4. CASE k = 0
    BY <2>1, <2>4
  <2>5. CASE k # 0
    <3>1. f[k] = Hop(D, f[k - 1])
      BY <2>1, <2>3, <2>5
    <3> QED
      BY <2>5, <3>1 DEF Hop
  <2> QED
    BY <2>4, <2>5
<1>5. Is(f)
  BY <1>3, <1>4
<1>6. Is(b)
  BY <1>5
<1>7. HopsIn(D, v) = b
  BY DEF HopsIn, N
<1> HIDE DEF b
<1>8. b = [k \in 0..N |-> b[k]]
  BY <1>6
<1>9. ASSUME NEW k \in 0..N
      PROVE  b[k] = IF k = 0 THEN v ELSE Hop(D, b[k - 1])
  <2>1. b[k] = IF k = 0 THEN v
               ELSE LET u == b[k - 1] IN IF u \in Parameter THEN D[u] ELSE u
    BY <1>6
  <2> QED
    BY <2>1 DEF Hop
<1> HIDE DEF Is
<1>10. \A k \in Nat : k \in {j \in Nat : j <= N => b[j] \in Value}
  <2> DEFINE S == {j \in Nat : j <= N => b[j] \in Value}
  <2>1. 0 \in S
    BY <1>1, <1>9
  <2>2. ASSUME NEW k \in Nat, k \in S PROVE k + 1 \in S
    <3> SUFFICES ASSUME k + 1 <= N PROVE b[k + 1] \in Value
      OBVIOUS
    <3>1. b[k] \in Value /\ k + 1 \in 0..N /\ k + 1 # 0 /\ (k + 1) - 1 = k
      BY <1>1, <2>2
    <3>2. b[k + 1] = Hop(D, b[k])
      BY <1>9, <3>1
    <3> QED
      BY <3>1, <3>2 DEF Hop
  <2> HIDE DEF S
  <2>3. \A k \in Nat : k \in S
    BY <2>1, <2>2, EveryNatural
  <2> QED
    BY <2>3 DEF S
<1>11. b \in [0..N -> Value]
  BY <1>1, <1>8, <1>10
<1>12. b[0] = v /\ \A k \in 1..N : b[k] = Hop(D, b[k - 1])
  BY <1>1, <1>9
<1> QED
  BY <1>7, <1>11, <1>12

(* Looking from a parameter, or one hop less far from what drives it.      *)
LEMMA HopsShift ==
  ASSUME NEW D \in [Parameter -> Value], NEW p \in Parameter
  PROVE  \A k \in Nat : k + 1 <= N => HopsIn(D, p)[k + 1] = HopsIn(D, D[p])[k]
<1> DEFINE f == HopsIn(D, p)
           g == HopsIn(D, D[p])
           S == {k \in Nat : k + 1 <= N => f[k + 1] = g[k]}
<1>1. N \in Nat /\ p \in Value /\ D[p] \in Value
  BY ValueFacts
<1>2. f[0] = p /\ \A k \in 1..N : f[k] = Hop(D, f[k - 1])
  BY <1>1, HopsFacts
<1>3. g[0] = D[p] /\ \A k \in 1..N : g[k] = Hop(D, g[k - 1])
  BY <1>1, HopsFacts
<1> HIDE DEF f, g
<1>4. 0 \in S
  <2> SUFFICES ASSUME 1 <= N PROVE f[1] = g[0]
    OBVIOUS
  <2>1. f[1] = Hop(D, f[1 - 1])
    BY <1>1, <1>2
  <2> QED
    BY <1>2, <1>3, <2>1 DEF Hop
<1>5. ASSUME NEW k \in Nat, k \in S PROVE k + 1 \in S
  <2> SUFFICES ASSUME k + 1 + 1 <= N PROVE f[k + 1 + 1] = g[k + 1]
    OBVIOUS
  <2>1. f[k + 1] = g[k] /\ k + 1 \in 1..N /\ k + 1 + 1 \in 1..N
    BY <1>1, <1>5
  <2>2. f[k + 1 + 1] = Hop(D, f[k + 1]) /\ g[k + 1] = Hop(D, g[k])
    BY <1>2, <1>3, <2>1
  <2> QED
    BY <2>1, <2>2
<1> HIDE DEF S
<1>6. \A k \in Nat : k \in S
  BY <1>4, <1>5, EveryNatural
<1> QED
  BY <1>6 DEF S, f, g

(* Without circles all parameters are behind after as many hops.           *)
LEMMA HopsLeave ==
  ASSUME NEW D \in [Parameter -> Value], NoCircle(D), NEW p \in Parameter
  PROVE  HopsIn(D, p)[N] \notin Parameter
<1> DEFINE Bad(k) == {q \in Parameter : HopsIn(D, q)[k] \in Parameter}
<1>1. N \in Nat
  BY ValueFacts
<1>2. ASSUME NEW k \in Nat, k + 1 <= N
      PROVE  /\ Bad(k + 1) \subseteq Bad(k)
             /\ \A q \in Bad(k + 1) : D[q] \in Bad(k)
  <2> SUFFICES ASSUME NEW q \in Bad(k + 1) PROVE q \in Bad(k) /\ D[q] \in Bad(k)
    OBVIOUS
  <2>1. q \in Parameter /\ q \in Value /\ D[q] \in Value /\ HopsIn(D, q)[k + 1] \in Parameter
    BY ValueFacts
  <2>2. k + 1 \in 1..N /\ (k + 1) - 1 = k
    BY <1>1, <1>2
  <2>3. HopsIn(D, q)[k + 1] = Hop(D, HopsIn(D, q)[k])
    BY <2>1, <2>2, HopsFacts
  <2>4. q \in Bad(k)
    BY <2>1, <2>3 DEF Hop
  <2>5. HopsIn(D, q)[k + 1] = HopsIn(D, D[q])[k]
    BY <1>2, <2>1, HopsShift
  <2>6. D[q] \in Parameter
    <3>1. HopsIn(D, q)[0] = q /\ HopsIn(D, q)[1] = Hop(D, HopsIn(D, q)[0])
      <4>1. 1 \in 1..N /\ 1 - 1 = 0
        BY <1>1, <1>2
      <4> QED
        BY <2>1, <4>1, HopsFacts
    <3>2. HopsIn(D, q)[1] = D[q]
      BY <2>1, <3>1 DEF Hop
    <3> DEFINE f == HopsIn(D, q)
               S == {j \in Nat : j + 1 <= N /\ D[q] \notin Parameter => f[j + 1] = D[q]}
    <3>3. \A j \in 1..N : f[j] = Hop(D, f[j - 1])
      BY <2>1, HopsFacts
    <3> HIDE DEF f
    <3>4. 0 \in S
      BY <3>2 DEF f
    <3>5. ASSUME NEW j \in Nat, j \in S PROVE j + 1 \in S
      <4>1. j + 1 + 1 <= N => f[j + 1 + 1] = Hop(D, f[j + 1])
        <5> SUFFICES ASSUME j + 1 + 1 <= N PROVE f[j + 1 + 1] = Hop(D, f[j + 1])
          OBVIOUS
        <5>1. j + 1 + 1 \in 1..N /\ (j + 1 + 1) - 1 = j + 1
          BY <1>1
        <5> QED
          BY <3>3, <5>1
      <4>2. j + 1 + 1 <= N => j + 1 <= N
        BY <1>1
      <4> QED
        BY <3>5, <4>1, <4>2 DEF Hop
    <3> HIDE DEF S
    <3>6. \A j \in Nat : j \in S
      BY <3>4, <3>5, EveryNatural
    <3>7. D[q] \notin Parameter => f[k + 1] = D[q]
      BY <1>2, <3>6 DEF S
    <3> QED
      BY <2>1, <3>7 DEF f
  <2> QED
    BY <2>1, <2>4, <2>5, <2>6
<1>3. \A k \in Nat : k \in {j \in Nat : j <= N => Cardinality(Bad(j)) <= N - j}
  <2> DEFINE S == {j \in Nat : j <= N => Cardinality(Bad(j)) <= N - j}
  <2>1. 0 \in S
    <3>1. Bad(0) \in SUBSET Parameter
      OBVIOUS
    <3> HIDE DEF Bad
    <3>2. Cardinality(Bad(0)) <= N
      BY <3>1, ValueFacts, FS_Subset DEF N
    <3> QED
      BY <1>1, <3>2
  <2>2. ASSUME NEW k \in Nat, k \in S PROVE k + 1 \in S
    <3> SUFFICES ASSUME k + 1 <= N PROVE Cardinality(Bad(k + 1)) <= N - (k + 1)
      OBVIOUS
    <3>1. /\ Bad(k + 1) \subseteq Bad(k) /\ Bad(k) \subseteq Parameter
          /\ \A q \in Bad(k + 1) : D[q] \in Bad(k)
      BY <1>2
    <3>2. IsFiniteSet(Bad(k)) /\ IsFiniteSet(Bad(k + 1))
      BY <3>1, ValueFacts, FS_Subset
    <3>3. Cardinality(Bad(k)) <= N - k
      BY <1>1, <2>2
    <3> HIDE DEF Bad
    <3>4. CASE Bad(k + 1) = {}
      <4>1. Cardinality(Bad(k + 1)) = 0
        BY <3>4, FS_EmptySet
      <4> QED
        BY <1>1, <4>1
    <3>5. CASE Bad(k + 1) # {}
      <4>1. PICK s \in Bad(k + 1) : D[s] \notin Bad(k + 1)
        BY <3>1, <3>5 DEF NoCircle
      <4>2. Bad(k + 1) # Bad(k)
        BY <3>1, <4>1
      <4>3. Cardinality(Bad(k + 1)) \in Nat /\ Cardinality(Bad(k)) \in Nat
        BY <3>2, FS_CardinalityType
      <4>4. /\ Cardinality(Bad(k + 1)) <= Cardinality(Bad(k))
            /\ Cardinality(Bad(k + 1)) # Cardinality(Bad(k))
        BY <3>1, <3>2, <4>2, FS_Subset
      <4> QED
        BY <1>1, <3>3, <4>3, <4>4
    <3> QED
      BY <3>4, <3>5
  <2> HIDE DEF S
  <2>3. \A k \in Nat : k \in S
    BY <2>1, <2>2, EveryNatural
  <2> QED
    BY <2>3 DEF S
<1>4. Bad(N) = {}
  <2>1. IsFiniteSet(Bad(N))
    BY ValueFacts, FS_Subset
  <2>2. Cardinality(Bad(N)) <= N - N
    BY <1>1, <1>3
  <2> HIDE DEF Bad
  <2>3. Cardinality(Bad(N)) = 0
    BY <1>1, <2>1, <2>2, FS_CardinalityType
  <2> QED
    BY <2>1, <2>3, FS_EmptySet
<1> QED
  BY <1>4

(* What follows from that: a trace is a parameter and the trace of its     *)
(* value, it ends at a literal or an expression, and holds all parameters  *)
(* on the way.                                                             *)
LEMMA TraceFacts ==
  ASSUME NEW D \in [Parameter -> Value], NoCircle(D)
  PROVE  /\ \A v \in Value : v \notin Parameter => EndIn(D, v) = v /\ OnIn(D, v) = {}
         /\ \A p \in Parameter : /\ EndIn(D, p) = EndIn(D, D[p])
                                 /\ OnIn(D, p) = {p} \cup OnIn(D, D[p])
         /\ \A v \in Value : EndIn(D, v) \in Literal \cup Expression
         /\ \A v \in Value : \A q \in OnIn(D, v) : D[q] \in Parameter => D[q] \in OnIn(D, v)
<1>1. N \in Nat /\ IsFiniteSet(Parameter)
  BY ValueFacts
<1>2. ASSUME NEW v \in Value, v \notin Parameter PROVE EndIn(D, v) = v /\ OnIn(D, v) = {}
  <2> DEFINE f == HopsIn(D, v)
             S == {k \in Nat : k <= N => f[k] = v}
  <2>1. f[0] = v /\ \A k \in 1..N : f[k] = Hop(D, f[k - 1])
    BY HopsFacts
  <2> HIDE DEF f
  <2>2. 0 \in S
    BY <2>1
  <2>3. ASSUME NEW k \in Nat, k \in S PROVE k + 1 \in S
    <3> SUFFICES ASSUME k + 1 <= N PROVE f[k + 1] = v
      OBVIOUS
    <3>1. k + 1 \in 1..N /\ (k + 1) - 1 = k /\ f[k] = v
      BY <1>1, <2>3
    <3>2. f[k + 1] = Hop(D, f[k])
      BY <2>1, <3>1
    <3> QED
      BY <1>2, <3>1, <3>2 DEF Hop
  <2> HIDE DEF S
  <2>4. \A k \in Nat : k \in S
    BY <2>2, <2>3, EveryNatural
  <2>5. \A k \in 0..N : f[k] = v
    BY <1>1, <2>4 DEF S
  <2> QED
    BY <1>1, <1>2, <2>5 DEF EndIn, OnIn, N, f
<1>3. ASSUME NEW p \in Parameter
      PROVE  EndIn(D, p) = EndIn(D, D[p]) /\ OnIn(D, p) = {p} \cup OnIn(D, D[p])
  <2> DEFINE f == HopsIn(D, p)
             g == HopsIn(D, D[p])
  <2>1. p \in Value /\ D[p] \in Value
    BY ValueFacts
  <2>2. /\ EndIn(D, p) = f[N] /\ OnIn(D, p) = {f[k] : k \in 0..N} \cap Parameter
        /\ EndIn(D, D[p]) = g[N] /\ OnIn(D, D[p]) = {g[k] : k \in 0..N} \cap Parameter
    BY DEF EndIn, OnIn, N
  <2>3. f[0] = p /\ \A k \in 1..N : g[k] = Hop(D, g[k - 1])
    BY <2>1, HopsFacts
  <2>4. \A k \in Nat : k + 1 <= N => f[k + 1] = g[k]
    BY HopsShift
  <2>5. f[N] \notin Parameter
    BY HopsLeave
  <2> HIDE DEF f, g
  <2>6. N # 0
    BY <1>1, FS_EmptySet DEF N
  <2>7. N \in 1..N /\ N - 1 \in Nat /\ (N - 1) + 1 = N
    BY <1>1, <2>6
  <2>8. f[N] = g[N - 1] /\ g[N] = Hop(D, g[N - 1])
    BY <2>3, <2>4, <2>7
  <2>9. g[N] = f[N]
    BY <2>5, <2>8 DEF Hop
  <2>10. ASSUME NEW k \in 0..N, f[k] \in Parameter PROVE f[k] = p \/ \E j \in 0..N : f[k] = g[j]
    <3>1. k # 0 => k - 1 \in 0..N /\ k - 1 \in Nat /\ (k - 1) + 1 = k /\ k <= N
      BY <1>1
    <3> QED
      BY <2>3, <2>4, <3>1
  <2>11. ASSUME NEW k \in 0..N, g[k] \in Parameter PROVE \E j \in 0..N : g[k] = f[j]
    <3>1. k # N => k \in Nat /\ k + 1 <= N /\ k + 1 \in 0..N
      BY <1>1
    <3> QED
      BY <2>4, <2>5, <2>9, <2>11, <3>1
  <2>12. 0 \in 0..N
    BY <1>1
  <2> QED
    BY <2>2, <2>3, <2>9, <2>10, <2>11, <2>12
<1>4. ASSUME NEW v \in Value PROVE EndIn(D, v) \in Literal \cup Expression
  <2>1. CASE v \in Parameter
    <3>1. HopsIn(D, v) \in [0..N -> Value] /\ N \in 0..N
      BY <1>1, HopsFacts
    <3>2. HopsIn(D, v)[N] \notin Parameter
      BY <2>1, HopsLeave
    <3>3. EndIn(D, v) \in Value /\ EndIn(D, v) \notin Parameter
      BY <3>1, <3>2 DEF EndIn, N
    <3> QED
      BY <3>3, ValueFacts
  <2>2. CASE v \notin Parameter
    BY <1>2, <2>2, ValueFacts
  <2> QED
    BY <2>1, <2>2
<1>5. ASSUME NEW v \in Value, NEW q \in OnIn(D, v), D[q] \in Parameter PROVE D[q] \in OnIn(D, v)
  <2> DEFINE f == HopsIn(D, v)
  <2>1. f[0] = v /\ \A k \in 1..N : f[k] = Hop(D, f[k - 1])
    BY HopsFacts
  <2>2. OnIn(D, v) = {f[k] : k \in 0..N} \cap Parameter
    BY DEF OnIn, N
  <2>3. f[N] \notin Parameter
    <3>1. f[N] = EndIn(D, v)
      BY DEF EndIn, N
    <3> QED
      BY <1>4, <3>1, ValueFacts
  <2> HIDE DEF f
  <2>4. PICK k \in 0..N : q = f[k] /\ q \in Parameter
    BY <2>2
  <2>5. k + 1 \in 1..N /\ k + 1 \in 0..N /\ (k + 1) - 1 = k
    <3>1. k # N
      BY <2>3, <2>4
    <3> QED
      BY <1>1, <3>1
  <2>6. f[k + 1] = D[q]
    BY <2>1, <2>4, <2>5 DEF Hop
  <2> QED
    BY <1>5, <2>2, <2>5, <2>6
<1> QED
  BY <1>2, <1>3, <1>4, <1>5

(* Traces are made of parameters.                                          *)
LEMMA OnIsParameter ==
  ASSUME NEW D, NEW v, NEW q \in OnIn(D, v)
  PROVE  q \in Parameter
BY DEF OnIn

(* Where a trace passes a parameter it ends where that parameter's ends.   *)
LEMMA EndsMeet ==
  ASSUME NEW D \in [Parameter -> Value], NoCircle(D), NEW v \in Value, NEW p \in OnIn(D, v)
  PROVE  EndIn(D, v) = EndIn(D, p)
<1> DEFINE X == {u \in Parameter : p \in OnIn(D, u) /\ EndIn(D, u) # EndIn(D, p)}
<1>1. X = {}
  <2> SUFFICES ASSUME X # {} PROVE FALSE
    OBVIOUS
  <2>1. PICK u \in X : D[u] \notin X
    BY DEF NoCircle
  <2>2. EndIn(D, u) = EndIn(D, D[u]) /\ OnIn(D, u) = {u} \cup OnIn(D, D[u])
    BY TraceFacts
  <2>3. p # u
    OBVIOUS
  <2>4. p \in OnIn(D, D[u])
    BY <2>2, <2>3
  <2>5. D[u] \in Parameter
    BY <2>4, TraceFacts
  <2> QED
    BY <2>1, <2>2, <2>4, <2>5
<1>2. v \in Parameter
  BY TraceFacts
<1> QED
  BY <1>1, <1>2

(* Some parameter on the trace of a parameter is the last.                 *)
LEMMA LastExists ==
  ASSUME NEW D \in [Parameter -> Value], NoCircle(D), NEW p \in Parameter
  PROVE  \E q \in OnIn(D, p) : D[q] \notin Parameter
<1> DEFINE X == {u \in Parameter : \A q \in OnIn(D, u) : D[q] \in Parameter}
<1>1. X = {}
  <2> SUFFICES ASSUME X # {} PROVE FALSE
    OBVIOUS
  <2>1. PICK u \in X : D[u] \notin X
    BY DEF NoCircle
  <2>2. OnIn(D, u) = {u} \cup OnIn(D, D[u])
    BY TraceFacts
  <2>3. D[u] \in Parameter
    BY <2>2
  <2> QED
    BY <2>1, <2>2, <2>3
<1> QED
  BY <1>1

(* The traces of E are those of D where p was connected to w.              *)
Redirected(D, p, w, E) ==
  /\ E \in [Parameter -> Value] /\ NoCircle(E)
  /\ \A v \in Value : EndIn(E, v) = IF p \in OnIn(D, v) THEN EndIn(D, w) ELSE EndIn(D, v)
  /\ \A v \in Value : OnIn(E, v) \subseteq OnIn(D, v) \cup OnIn(D, w)
  /\ \A v \in Value : p \notin OnIn(D, v) => OnIn(E, v) = OnIn(D, v)

(* What connecting parameter p to w does to all traces, when p is not on   *)
(* that of w.                                                              *)
LEMMA Redirect ==
  ASSUME NEW D \in [Parameter -> Value], NoCircle(D), NEW p \in Parameter, NEW w \in Value,
         p \notin OnIn(D, w), NEW E, E = [D EXCEPT ![p] = w]
  PROVE  Redirected(D, p, w, E)
<1>1. E \in [Parameter -> Value] /\ E[p] = w /\ \A q \in Parameter : q # p => E[q] = D[q]
  OBVIOUS
<1>2. NoCircle(E)
  <2> SUFFICES ASSUME NEW X \in SUBSET Parameter, X # {}, \A q \in X : E[q] \in X PROVE FALSE
    BY DEF NoCircle
  <2>1. p \in X
    BY <1>1 DEF NoCircle
  <2>2. w \in X /\ w \in OnIn(D, w)
    BY <1>1, <2>1, TraceFacts
  <2> DEFINE Y == X \cap OnIn(D, w)
  <2>3. Y # {} /\ Y \in SUBSET Parameter
    BY <2>2
  <2>4. PICK q \in Y : D[q] \notin Y
    BY <2>3 DEF NoCircle
  <2>5. D[q] = E[q] /\ E[q] \in X
    BY <1>1, <2>4
  <2>6. D[q] \in OnIn(D, w)
    BY <2>4, <2>5, TraceFacts
  <2> QED
    BY <2>4, <2>5, <2>6
<1> DEFINE End(v) == IF p \in OnIn(D, v) THEN EndIn(D, w) ELSE EndIn(D, v)
           Good(v) == /\ EndIn(E, v) = End(v)
                      /\ OnIn(E, v) \subseteq OnIn(D, v) \cup OnIn(D, w)
                      /\ p \notin OnIn(D, v) => OnIn(E, v) = OnIn(D, v)
           X == {u \in Parameter : ~ Good(u)}
<1>3. ASSUME NEW v \in Value, v \notin Parameter PROVE Good(v)
  <2>1. EndIn(E, v) = v /\ OnIn(E, v) = {}
    BY <1>1, <1>2, <1>3, TraceFacts
  <2>2. EndIn(D, v) = v /\ OnIn(D, v) = {}
    BY <1>3, TraceFacts
  <2> QED
    BY <2>1, <2>2
<1>4. X = {}
  <2> SUFFICES ASSUME X # {} PROVE FALSE
    OBVIOUS
  <2>1. PICK q \in X : E[q] \notin X
    BY <1>2 DEF NoCircle
  <2>2. E[q] \in Value /\ q \in Parameter
    BY <1>1
  <2>3. Good(E[q])
    BY <1>3, <2>1, <2>2
  <2>4. EndIn(E, q) = EndIn(E, E[q]) /\ OnIn(E, q) = {q} \cup OnIn(E, E[q])
    BY <1>1, <1>2, <2>2, TraceFacts
  <2>5. EndIn(D, q) = EndIn(D, D[q]) /\ OnIn(D, q) = {q} \cup OnIn(D, D[q])
    BY <2>2, TraceFacts
  <2> HIDE DEF X
  <2>6. CASE q = p
    BY <1>1, <2>3, <2>4, <2>5, <2>6, <2>1 DEF X
  <2>7. CASE q # p
    <3>1. E[q] = D[q]
      BY <1>1, <2>2, <2>7
    <3> QED
      BY <2>3, <2>4, <2>5, <2>7, <2>1, <3>1 DEF X
  <2> QED
    BY <2>6, <2>7
<1>5. \A v \in Value : Good(v)
  BY <1>3, <1>4
<1> HIDE DEF X
<1> QED
  BY <1>1, <1>2, <1>5 DEF Redirected

-----------------------------------------------------------------------------
(* Copied arrays are of their type.                                        *)
LEMMA ArraysTypeInit == ArraysInit => ArraysTypeOK
<1> SUFFICES ASSUME ArraysInit PROVE ArraysTypeOK
  OBVIOUS
<1>1. Lit(0) \in Value /\ MaxValue \in Nat /\ InstParam \subseteq Parameter
  BY ArraysAssumption DEF Lit, Literal, Value
<1>2. size \in [AnyArray -> Value \cup {None}]
  BY <1>1, ArraysAssumption DEF ArraysInit, AnyArray, Value
<1>3. count \in [AnyArray -> 0..MaxValue]
  BY <1>1 DEF ArraysInit
<1>4. user \in [Parameter -> AnyArray \cup {None}]
  BY SizeInvInit DEF SizeInv
<1> QED
  BY <1>1, <1>2, <1>3, <1>4 DEF ArraysInit, ArraysTypeOK

(* Connecting a parameter to a value.                                      *)
LEMMA ConnectedType ==
  ASSUME ArraysTypeOK, NEW p, NEW v \in Value, Connected(p, v)
  PROVE  (value' \in [Parameter -> Value \cup {None}]) /\ (rebind' \in [InstParam -> Value])
         /\ (sunk' \subseteq Parameter)
BY DEF ArraysTypeOK, Connected

(* SetSize names an array.                                                 *)
LEMMA UseType ==
  ASSUME ArraysTypeOK, NEW a \in AnyArray, NEW v
  PROVE  Use(a, v) \in [Parameter -> AnyArray \cup {None}]
BY DEF ArraysTypeOK, Use

(* Append counts up to the bound.                                          *)
LEMMA AppendType ==
  ASSUME ArraysTypeOK, NEW a \in Array, AppendNode(a)
  PROVE  count' \in [AnyArray -> 0..MaxValue]
<1>1. count[a] \in 0..MaxValue /\ MaxValue \in Nat
  BY ArraysAssumption DEF ArraysTypeOK, AnyArray
<1>2. count[a] + 1 \in 0..MaxValue
  BY <1>1 DEF AppendNode
<1> QED
  BY <1>2 DEF ArraysTypeOK, AppendNode

(* One more: an incremented literal or expression.                         *)
LEMMA NextValue ==
  ASSUME NEW v \in Literal \cup Expression, v.n < MaxValue
  PROVE  /\ [v EXCEPT !.n = @ + 1] \in Literal \cup Expression
         /\ [v EXCEPT !.n = @ + 1] \in Value
         /\ [v EXCEPT !.n = @ + 1].n = v.n + 1
         /\ [v EXCEPT !.n = @ + 1] \in Literal => v \in Literal
<1>1. MaxValue \in Nat /\ v.n \in 0..MaxValue
  BY ArraysAssumption DEF Literal, Expression
<1>2. v.n + 1 \in 0..MaxValue
  BY <1>1
<1>3. [v EXCEPT !.n = @ + 1] \in Literal \cup Expression
  BY <1>2 DEF Literal, Expression
<1>4. [v EXCEPT !.n = @ + 1].n = v.n + 1 /\ [v EXCEPT !.n = @ + 1].kind = v.kind
  BY DEF Literal, Expression
<1>5. [v EXCEPT !.n = @ + 1] \in Literal => v \in Literal
  BY <1>4 DEF Literal, Expression
<1> QED
  BY <1>3, <1>4, <1>5, ValueFacts

(* Replace moves values between parameters, and leaves None behind.        *)
LEMMA ReplaceType ==
  ASSUME ArraysTypeOK, NEW p \in Parameter, NEW r \in Parameter, Replace(p, r)
  PROVE  ArraysTypeOK'
<1> DEFINE arr == user[p]
           resized == arr # None /\ MayUse(arr, r)
           moved == [value EXCEPT ![r] = IF value[p] = None THEN @ ELSE value[p],
                                  ![p] = IF p \in sunk THEN r ELSE None]
<1>1. r \in Value /\ Parameter \subseteq Value
  BY ValueFacts
<1>2. moved \in [Parameter -> Value \cup {None}]
  BY <1>1 DEF ArraysTypeOK
<1>3. /\ value' = moved
      /\ rebind' = [q \in InstParam |-> IF moved[q] = None THEN rebind[q]
                                       ELSE IF q \in {p, r} THEN moved[q] ELSE rebind[q]]
      /\ sunk' = IF p \in sunk THEN (sunk \ {p}) \cup {r} ELSE sunk
      /\ size' = IF resized THEN [size EXCEPT ![arr] = r] ELSE size
      /\ user' = IF resized THEN Use(arr, r) ELSE user
      /\ UNCHANGED <<count, source>>
  BY DEF Replace
<1>4. arr \in AnyArray \cup {None}
  BY DEF ArraysTypeOK
<1> HIDE DEF moved, arr
<1>5. rebind' \in [InstParam -> Value]
  <2>1. InstParam \subseteq Parameter
    BY ArraysAssumption
  <2> QED
    BY <1>2, <1>3, <2>1 DEF ArraysTypeOK
<1>6. size' \in [AnyArray -> Value \cup {None}]
  BY <1>1, <1>3, <1>4 DEF ArraysTypeOK
<1>7. user' \in [Parameter -> AnyArray \cup {None}]
  <2>1. resized => Use(arr, r) \in [Parameter -> AnyArray \cup {None}]
    BY <1>4, UseType
  <2> QED
    BY <1>3, <2>1 DEF ArraysTypeOK
<1>8. sunk' \subseteq Parameter
  BY <1>3 DEF ArraysTypeOK
<1> QED
  BY <1>2, <1>3, <1>5, <1>6, <1>7, <1>8 DEF ArraysTypeOK

(* Every step keeps every variable in its type.                            *)
LEMMA ArraysTypeStep == ArraysTypeOK /\ [ArraysNext]_arrayVars => ArraysTypeOK'
<1> SUFFICES ASSUME ArraysTypeOK, [ArraysNext]_arrayVars PROVE ArraysTypeOK'
  OBVIOUS
<1>1. \A a \in Array : a \in AnyArray
  BY DEF AnyArray
<1>2. ASSUME NEW p \in Parameter, NEW v \in Value, SetValue(p, v) PROVE ArraysTypeOK'
  BY <1>2, ConnectedType DEF SetValue, ArraysTypeOK
<1>3. ASSUME NEW a \in Array, NEW v \in Value, SetSize(a, v) PROVE ArraysTypeOK'
  BY <1>1, <1>3, UseType DEF SetSize, ArraysTypeOK
<1>4. ASSUME NEW a \in Array, AppendOnly(a) \/ AppendThrows(a) PROVE ArraysTypeOK'
  BY <1>4, AppendType DEF AppendOnly, AppendThrows, ArraysTypeOK
<1>5. ASSUME NEW a \in Array, AppendToValue(a) PROVE ArraysTypeOK'
  <2>1. count' \in [AnyArray -> 0..MaxValue]
    BY <1>5, AppendType DEF AppendToValue
  <2>2. [size[a] EXCEPT !.n = @ + 1] \in Value
    BY <1>5, NextValue DEF AppendToValue
  <2>3. size' = [size EXCEPT ![a] = [size[a] EXCEPT !.n = @ + 1]]
    BY <1>5 DEF AppendToValue
  <2> QED
    BY <1>5, <2>1, <2>2, <2>3 DEF AppendToValue, ArraysTypeOK
<1>6. ASSUME NEW a \in Array, AppendToParameter(a) PROVE ArraysTypeOK'
  <2> DEFINE w == Lit(TraceEnd(size[a]).n + 1)
  <2>1. count' \in [AnyArray -> 0..MaxValue]
    BY <1>6, AppendType DEF AppendToParameter
  <2>2. w \in Value
    <3>1. TraceEnd(size[a]).n \in 0..MaxValue /\ TraceEnd(size[a]).n < MaxValue /\ MaxValue \in Nat
      BY <1>6, ArraysAssumption DEF AppendToParameter, Literal
    <3>2. TraceEnd(size[a]).n + 1 \in 0..MaxValue
      BY <3>1
    <3> QED
      BY <3>2 DEF Lit, Literal, Value
  <2>3. Connected(LastParam(size[a]), w)
    BY <1>6 DEF AppendToParameter
  <2> HIDE DEF w
  <2>4. (value' \in [Parameter -> Value \cup {None}]) /\ (rebind' \in [InstParam -> Value])
        /\ (sunk' \subseteq Parameter)
    BY <2>2, <2>3, ConnectedType
  <2>5. user' \in [Parameter -> AnyArray \cup {None}]
    BY <1>1, <1>6, UseType DEF AppendToParameter
  <2> QED
    BY <1>6, <2>1, <2>4, <2>5 DEF AppendToParameter, ArraysTypeOK
<1>7. ASSUME NEW a \in Array, NEW s \in SigArray, AttachSignalArray(a, s) PROVE ArraysTypeOK'
  <2>1. s \in AnyArray /\ a \in AnyArray
    BY DEF AnyArray
  <2>2. ReboundSize(a) \in Value \cup {None}
    BY <2>1 DEF ReboundSize, ArraysTypeOK
  <2>3. user' \in [Parameter -> AnyArray \cup {None}]
    BY <1>7, <2>1, UseType DEF AttachSignalArray
  <2> QED
    BY <1>7, <2>1, <2>2, <2>3 DEF AttachSignalArray, ArraysTypeOK
<1>8. ASSUME NEW p \in Parameter, NEW r \in Parameter, Replace(p, r) PROVE ArraysTypeOK'
  BY <1>8, ReplaceType
<1>9. CASE UNCHANGED arrayVars
  BY <1>9 DEF arrayVars, ArraysTypeOK
<1>10. ASSUME NEW a \in Array, NEW s \in SigArray, AttachThrows(a, s) PROVE ArraysTypeOK'
  <2>1. s \in AnyArray
    BY DEF AnyArray
  <2> QED
    BY <1>10, <2>1, UseType DEF AttachThrows, ArraysTypeOK
<1> QED
  BY <1>2, <1>3, <1>4, <1>5, <1>6, <1>7, <1>8, <1>9, <1>10 DEF ArraysNext

(* Every reachable state of arrays and parameters (array.cc, parameter.cc) *)
(* has its type, for a client with any habits.                             *)
THEOREM ArraysTypeSafety == ArraysSpec => []ArraysTypeOK
  BY ArraysTypeInit, ArraysTypeStep, PTL DEF ArraysSpec

-----------------------------------------------------------------------------
(* A signal array is about the elements of the array it was made for.      *)
Owner(x) == IF x \in SigArray THEN source[x] ELSE x

(* Traces do not go in circles, and arrays that are not about the same     *)
(* elements do not depend on the same parameter.                           *)
TracesApart ==
  \A x, y \in AnyArray :
    size[x] # None /\ size[y] # None /\ Owner(x) # Owner(y)
      => OnTrace(size[x]) \cap OnTrace(size[y]) = {}

(* With that, and with inst_to_comp knowing the value of every parameter   *)
(* on an instance, the count is inductive.                                 *)
CountInv ==
  /\ value \in [Parameter -> Value]
  /\ NoCircle(value)
  /\ \A p \in InstParam : rebind[p] = value[p]
  /\ TracesApart
  /\ SizeIsNumNodes

(* Traces and their ends, by the values of parameters.                     *)
LEMMA TraceIs ==
  \A v : TraceEnd(v) = EndIn(value, v) /\ OnTrace(v) = OnIn(value, v)
BY DEF TraceEnd, EndIn, OnTrace, OnIn, Hops, HopsIn

(* The same after a step.                                                  *)
LEMMA TraceIsNext ==
  /\ \A x : TraceEnd(size[x])' = EndIn(value', size'[x]) /\ OnTrace(size[x])' = OnIn(value', size'[x])
BY DEF TraceEnd, EndIn, OnTrace, OnIn, Hops, HopsIn

(* The parts of the invariant about traces, before and after a step.       *)
ApartIn(D, sz, own) ==
  \A x, y \in AnyArray :
    sz[x] # None /\ sz[y] # None /\ own[x] # own[y] => OnIn(D, sz[x]) \cap OnIn(D, sz[y]) = {}
CountsIn(D, sz, cnt) ==
  \A x \in AnyArray : sz[x] # None /\ EndIn(D, sz[x]) \in Literal => EndIn(D, sz[x]).n = cnt[x]

(* The invariant, by the values of parameters.                             *)
LEMMA CountInvIs ==
  CountInv <=> /\ value \in [Parameter -> Value] /\ NoCircle(value)
               /\ \A p \in InstParam : rebind[p] = value[p]
               /\ ApartIn(value, size, [x \in AnyArray |-> Owner(x)])
               /\ CountsIn(value, size, count)
<1>1. TracesApart <=> ApartIn(value, size, [x \in AnyArray |-> Owner(x)])
  BY TraceIs DEF TracesApart, ApartIn
<1>2. SizeIsNumNodes <=> CountsIn(value, size, count)
  BY TraceIs DEF SizeIsNumNodes, CountsIn
<1> QED
  BY <1>1, <1>2 DEF CountInv

(* The same after a step.                                                  *)
LEMMA CountInvNext ==
  CountInv' <=> /\ value' \in [Parameter -> Value] /\ NoCircle(value')
                /\ \A p \in InstParam : rebind'[p] = value'[p]
                /\ ApartIn(value', size', [x \in AnyArray |-> Owner(x)'])
                /\ CountsIn(value', size', count')
<1>1. TracesApart' <=> ApartIn(value', size', [x \in AnyArray |-> Owner(x)'])
  <2>1. TracesApart' <=> \A x, y \in AnyArray :
            size'[x] # None /\ size'[y] # None /\ Owner(x)' # Owner(y)'
              => OnTrace(size[x])' \cap OnTrace(size[y])' = {}
    BY DEF TracesApart
  <2> QED
    BY <2>1, TraceIsNext DEF ApartIn
<1>2. SizeIsNumNodes' <=> CountsIn(value', size', count')
  <2>1. SizeIsNumNodes' <=> \A a \in AnyArray : size'[a] # None =>
            (TraceEnd(size[a])' \in Literal => TraceEnd(size[a])'.n = count'[a])
    BY DEF SizeIsNumNodes
  <2> QED
    BY <2>1, TraceIsNext DEF CountsIn
<1> QED
  BY <1>1, <1>2 DEF CountInv

(* Every parameter starts as zero and every array without elements.        *)
LEMMA CountInit == ArraysInit => CountInv
<1> SUFFICES ASSUME ArraysInit PROVE CountInv
  OBVIOUS
<1>1. /\ Lit(0) \in Value /\ Lit(0) \notin Parameter /\ InstParam \subseteq Parameter
      /\ Lit(0).n = 0 /\ Array \cap SigArray = {} /\ None \notin Value
  <2>1. MaxValue \in Nat /\ InstParam \subseteq Parameter /\ Array \cap SigArray = {}
        /\ None \notin Value
    BY ArraysAssumption
  <2>2. Lit(0) \in Literal
    BY <2>1 DEF Lit, Literal
  <2> QED
    BY <2>1, <2>2, ValueFacts DEF Lit
<1>2. value \in [Parameter -> Value] /\ \A p \in Parameter : value[p] = Lit(0)
  BY <1>1 DEF ArraysInit
<1>3. NoCircle(value)
  BY <1>1, <1>2 DEF NoCircle
<1>4. \A p \in InstParam : rebind[p] = value[p]
  BY <1>1, <1>2 DEF ArraysInit
<1>5. /\ EndIn(value, Lit(0)) = Lit(0) /\ OnIn(value, Lit(0)) = {}
      /\ \A p \in Parameter : EndIn(value, p) = Lit(0) /\ OnIn(value, p) = {p}
  <2>1. EndIn(value, Lit(0)) = Lit(0) /\ OnIn(value, Lit(0)) = {}
    BY <1>1, <1>2, <1>3, TraceFacts
  <2>2. ASSUME NEW p \in Parameter PROVE EndIn(value, p) = Lit(0) /\ OnIn(value, p) = {p}
    <3>1. EndIn(value, p) = EndIn(value, value[p]) /\ OnIn(value, p) = {p} \cup OnIn(value, value[p])
      BY <1>2, <1>3, TraceFacts
    <3> QED
      BY <1>2, <2>1, <3>1
  <2> QED
    BY <2>1, <2>2
<1>6. ASSUME NEW x \in AnyArray, size[x] # None
      PROVE  x \in Array /\ size[x] = InitSize[x] /\ InitSize[x] \in Parameter \cup {Lit(0)}
  BY <1>1, <1>6, ArraysAssumption DEF ArraysInit, AnyArray
<1>7. ApartIn(value, size, [x \in AnyArray |-> Owner(x)])
  <2> SUFFICES ASSUME NEW x \in AnyArray, NEW y \in AnyArray, size[x] # None, size[y] # None,
                      Owner(x) # Owner(y)
               PROVE  OnIn(value, size[x]) \cap OnIn(value, size[y]) = {}
    BY DEF ApartIn
  <2>1. x # y
    OBVIOUS
  <2>2. /\ x \in Array /\ size[x] = InitSize[x] /\ InitSize[x] \in Parameter \cup {Lit(0)}
        /\ y \in Array /\ size[y] = InitSize[y] /\ InitSize[y] \in Parameter \cup {Lit(0)}
    BY <1>6
  <2>3. InitSize[x] \in Parameter => InitSize[x] # InitSize[y]
    BY <2>1, <2>2, ArraysAssumption
  <2> QED
    BY <1>5, <2>2, <2>3
<1>8. CountsIn(value, size, count)
  <2> SUFFICES ASSUME NEW x \in AnyArray, size[x] # None
               PROVE  EndIn(value, size[x]).n = count[x]
    BY DEF CountsIn
  <2>1. EndIn(value, size[x]) = Lit(0)
    BY <1>5, <1>6
  <2>2. count[x] = 0
    BY DEF ArraysInit
  <2> QED
    BY <1>1, <2>1, <2>2
<1> QED
  BY <1>2, <1>3, <1>4, <1>7, <1>8, CountInvIs

(* The ordinary client connects a parameter to another value that ends     *)
(* alike.                                                                  *)
LEMMA CountSetValue ==
  ASSUME Habits = {}, ArraysTypeOK, CountInv, NEW p \in Parameter, NEW v \in Value, SetValue(p, v)
  PROVE  CountInv'
<1>1. /\ value \in [Parameter -> Value] /\ NoCircle(value)
      /\ \A q \in InstParam : rebind[q] = value[q]
      /\ ApartIn(value, size, [x \in AnyArray |-> Owner(x)])
      /\ CountsIn(value, size, count)
  BY CountInvIs
<1>2. /\ value' = [value EXCEPT ![p] = v]
      /\ rebind' = IF p \in InstParam THEN [rebind EXCEPT ![p] = v] ELSE rebind
      /\ size' = size /\ count' = count /\ source' = source
  BY DEF SetValue, Connected
<1>3. /\ EndIn(value, v) = EndIn(value, p)
      /\ \A a \in AnyArray : p \in OnIn(value, size[a])
                             \/ OnIn(value, size[a]) \cap OnIn(value, v) = {}
      /\ p \notin OnIn(value, v)
  BY TraceIs DEF SetValue, Ordinary
<1> DEFINE E == value'
<1>4. /\ E \in [Parameter -> Value] /\ NoCircle(E)
      /\ \A u \in Value : EndIn(E, u) = IF p \in OnIn(value, u) THEN EndIn(value, v) ELSE EndIn(value, u)
      /\ \A u \in Value : OnIn(E, u) \subseteq OnIn(value, u) \cup OnIn(value, v)
      /\ \A u \in Value : p \notin OnIn(value, u) => OnIn(E, u) = OnIn(value, u)
  <2>1. PICK F : F = [value EXCEPT ![p] = v]
    OBVIOUS
  <2>2. Redirected(value, p, v, F)
    <3>1. value \in [Parameter -> Value] /\ NoCircle(value) /\ p \notin OnIn(value, v)
      BY <1>1, <1>3
    <3> QED
      BY ONLY p \in Parameter, v \in Value, <2>1, <3>1, Redirect
  <2>3. E = F
    BY <1>2, <2>1
  <2> HIDE DEF E
  <2> QED
    BY <2>2, <2>3 DEF Redirected
<1> HIDE DEF E
<1>5. \A u \in Value : EndIn(E, u) = EndIn(value, u)
  <2> SUFFICES ASSUME NEW u \in Value, p \in OnIn(value, u) PROVE EndIn(E, u) = EndIn(value, u)
    BY <1>4
  <2>1. EndIn(value, u) = EndIn(value, p)
    BY <1>1, EndsMeet
  <2> QED
    BY <1>3, <1>4, <2>1
<1>6. \A q \in InstParam : rebind'[q] = value'[q]
  <2>1. InstParam \subseteq Parameter /\ rebind \in [InstParam -> Value]
    BY ArraysAssumption DEF ArraysTypeOK
  <2> QED
    BY <1>1, <1>2, <2>1
<1>7. \A x \in AnyArray : size[x] # None => size[x] \in Value
  BY DEF ArraysTypeOK
<1>8. CountsIn(E, size, count)
  BY <1>1, <1>5, <1>7 DEF CountsIn
<1>9. ApartIn(E, size, [x \in AnyArray |-> Owner(x)])
  <2> SUFFICES ASSUME NEW x \in AnyArray, NEW y \in AnyArray, size[x] # None, size[y] # None,
                      Owner(x) # Owner(y)
               PROVE  OnIn(E, size[x]) \cap OnIn(E, size[y]) = {}
    BY DEF ApartIn
  <2>1. OnIn(value, size[x]) \cap OnIn(value, size[y]) = {}
    BY <1>1 DEF ApartIn
  <2>2. size[x] \in Value /\ size[y] \in Value
    BY <1>7
  <2>3. /\ p \notin OnIn(value, size[x]) => OnIn(E, size[x]) = OnIn(value, size[x])
                                            /\ OnIn(value, size[x]) \cap OnIn(value, v) = {}
        /\ p \notin OnIn(value, size[y]) => OnIn(E, size[y]) = OnIn(value, size[y])
                                            /\ OnIn(value, size[y]) \cap OnIn(value, v) = {}
        /\ OnIn(E, size[x]) \subseteq OnIn(value, size[x]) \cup OnIn(value, v)
        /\ OnIn(E, size[y]) \subseteq OnIn(value, size[y]) \cup OnIn(value, v)
    BY <1>3, <1>4, <2>2
  <2> QED
    BY <2>1, <2>3
<1>10. \A x \in AnyArray : Owner(x)' = Owner(x)
  BY <1>2 DEF Owner
<1>11. ApartIn(value', size', [x \in AnyArray |-> Owner(x)']) /\ CountsIn(value', size', count')
  BY <1>2, <1>8, <1>9, <1>10 DEF E
<1> QED
  BY <1>4, <1>6, <1>11, CountInvNext DEF E

(* No other array is about the elements of one that may be appended to.    *)
LEMMA AppendedAlone ==
  ASSUME Habits = {}, NEW a \in Array, Appendable(a), NEW y \in AnyArray, y # a
  PROVE  Owner(a) = a /\ Owner(y) # a
BY ArraysAssumption DEF Appendable, Owner, AnyArray

(* An array sized by a literal or an expression gets the next one.         *)
LEMMA CountAppendToValue ==
  ASSUME Habits = {}, ArraysTypeOK, CountInv, NEW a \in Array, AppendToValue(a)
  PROVE  CountInv'
<1>1. /\ value \in [Parameter -> Value] /\ NoCircle(value)
      /\ \A q \in InstParam : rebind[q] = value[q]
      /\ ApartIn(value, size, [x \in AnyArray |-> Owner(x)])
      /\ CountsIn(value, size, count)
  BY CountInvIs
<1> DEFINE w == [size[a] EXCEPT !.n = @ + 1]
<1>2. /\ size' = [size EXCEPT ![a] = w] /\ count' = [count EXCEPT ![a] = count[a] + 1]
      /\ value' = value /\ rebind' = rebind /\ source' = source
      /\ size[a] \in Literal \cup Expression /\ size[a].n < MaxValue
  BY DEF AppendToValue, AppendNode
<1>3. w \in Value /\ w \in Literal \cup Expression /\ w.n = size[a].n + 1
      /\ (w \in Literal => size[a] \in Literal)
  BY <1>2, NextValue
<1> HIDE DEF w
<1>4. /\ EndIn(value, w) = w /\ OnIn(value, w) = {}
      /\ EndIn(value, size[a]) = size[a]
  BY <1>1, <1>2, <1>3, ValueFacts, TraceFacts
<1>5. a \in AnyArray /\ size[a] # None
  BY <1>2, ValueFacts, ArraysAssumption DEF AnyArray
<1>6. \A x \in AnyArray : size'[x] = IF x = a THEN w ELSE size[x]
  BY <1>2 DEF ArraysTypeOK
<1>7. CountsIn(value, size', count')
  <2> SUFFICES ASSUME NEW x \in AnyArray, size'[x] # None, EndIn(value, size'[x]) \in Literal
               PROVE  EndIn(value, size'[x]).n = count'[x]
    BY DEF CountsIn
  <2>1. CASE x = a
    <3>1. count'[a] = count[a] + 1
      BY <1>2, <1>5 DEF ArraysTypeOK
    <3>2. size[a] \in Literal => size[a].n = count[a]
      BY <1>1, <1>4, <1>5 DEF CountsIn
    <3> QED
      BY <1>3, <1>4, <1>6, <2>1, <3>1, <3>2
  <2>2. CASE x # a
    <3>1. count'[x] = count[x] /\ size'[x] = size[x]
      BY <1>2, <1>6, <2>2 DEF ArraysTypeOK
    <3> QED
      BY <1>1, <3>1 DEF CountsIn
  <2> QED
    BY <2>1, <2>2
<1>8. \A x \in AnyArray : Owner(x)' = Owner(x)
  BY <1>2 DEF Owner
<1>9. ApartIn(value, size', [x \in AnyArray |-> Owner(x)'])
  BY <1>1, <1>4, <1>6, <1>8 DEF ApartIn
<1> QED
  BY <1>1, <1>2, <1>7, <1>9, CountInvNext

(* The literal at the end of the trace is incremented for the array that   *)
(* gets an element; no other array sees it.                                *)
LEMMA CountAppendToParameter ==
  ASSUME Habits = {}, ArraysTypeOK, CountInv, NEW a \in Array, AppendToParameter(a)
  PROVE  CountInv'
<1>1. /\ value \in [Parameter -> Value] /\ NoCircle(value)
      /\ \A q \in InstParam : rebind[q] = value[q]
      /\ ApartIn(value, size, [x \in AnyArray |-> Owner(x)])
      /\ CountsIn(value, size, count)
  BY CountInvIs
<1> DEFINE p == LastParam(size[a])
           w == Lit(EndIn(value, size[a]).n + 1)
<1>2. /\ Connected(p, w) /\ count' = [count EXCEPT ![a] = count[a] + 1]
      /\ size' = size /\ source' = source
      /\ size[a] \in Parameter /\ EndIn(value, size[a]) \in Literal
      /\ EndIn(value, size[a]).n < MaxValue
  BY TraceIs DEF AppendToParameter, AppendNode
<1>3. w \in Literal /\ w.n = EndIn(value, size[a]).n + 1
  <2>1. EndIn(value, size[a]).n \in 0..MaxValue /\ MaxValue \in Nat
    BY <1>2, ArraysAssumption DEF Literal
  <2>2. EndIn(value, size[a]).n + 1 \in 0..MaxValue
    BY <1>2, <2>1
  <2> QED
    BY <2>2 DEF Lit, Literal
<1>4. p \in OnIn(value, size[a]) /\ p \in Parameter
  <2>1. \E q \in OnIn(value, size[a]) : value[q] \notin Parameter
    BY <1>1, <1>2, LastExists
  <2>2. p \in OnTrace(size[a])
    BY <2>1, TraceIs DEF LastParam
  <2> QED
    BY <2>2, TraceIs, OnIsParameter
<1> HIDE DEF p, w
<1>5. w \in Value /\ w \notin Parameter /\ EndIn(value, w) = w /\ OnIn(value, w) = {}
  BY <1>1, <1>3, ValueFacts, TraceFacts
<1>6. /\ value' = [value EXCEPT ![p] = w]
      /\ rebind' = IF p \in InstParam THEN [rebind EXCEPT ![p] = w] ELSE rebind
  BY <1>2 DEF Connected
<1> DEFINE E == value'
<1>7. /\ E \in [Parameter -> Value] /\ NoCircle(E)
      /\ \A u \in Value : EndIn(E, u) = IF p \in OnIn(value, u) THEN w ELSE EndIn(value, u)
      /\ \A u \in Value : OnIn(E, u) \subseteq OnIn(value, u)
  <2>1. p \notin OnIn(value, w)
    BY <1>5
  <2>2. PICK F : F = [value EXCEPT ![p] = w]
    OBVIOUS
  <2>3. Redirected(value, p, w, F)
    <3>1. /\ value \in [Parameter -> Value] /\ NoCircle(value)
          /\ p \in Parameter /\ w \in Value
      BY <1>1, <1>4, <1>5
    <3> QED
      BY ONLY <2>1, <2>2, <3>1, Redirect
  <2>4. E = F
    BY <1>6, <2>2
  <2> HIDE DEF E
  <2> QED
    BY <1>5, <2>3, <2>4 DEF Redirected
<1> HIDE DEF E
<1>8. \A q \in InstParam : rebind'[q] = value'[q]
  <2>1. InstParam \subseteq Parameter /\ rebind \in [InstParam -> Value]
    BY ArraysAssumption DEF ArraysTypeOK
  <2> QED
    BY <1>1, <1>6, <2>1
<1>9. a \in AnyArray /\ size[a] # None /\ \A x \in AnyArray : size[x] # None => size[x] \in Value
  BY <1>2, ValueFacts, ArraysAssumption DEF AnyArray, ArraysTypeOK
<1>10. \A x \in AnyArray : size[x] # None /\ x # a => p \notin OnIn(value, size[x])
  <2> SUFFICES ASSUME NEW x \in AnyArray, size[x] # None, x # a PROVE p \notin OnIn(value, size[x])
    OBVIOUS
  <2>1. Owner(a) = a /\ Owner(x) # a
    BY AppendedAlone DEF AppendToParameter
  <2>2. OnIn(value, size[x]) \cap OnIn(value, size[a]) = {}
    BY <1>1, <1>9, <2>1 DEF ApartIn
  <2> QED
    BY <1>4, <2>2
<1>11. CountsIn(E, size, count')
  <2> SUFFICES ASSUME NEW x \in AnyArray, size[x] # None, EndIn(E, size[x]) \in Literal
               PROVE  EndIn(E, size[x]).n = count'[x]
    BY DEF CountsIn
  <2>1. size[x] \in Value /\ size[a] \in Value
    BY <1>9
  <2>2. CASE x = a
    <3>1. EndIn(E, size[a]) = w
      BY <1>4, <1>7, <2>1
    <3>2. count'[a] = count[a] + 1
      BY <1>2, <1>9 DEF ArraysTypeOK
    <3>3. EndIn(value, size[a]).n = count[a]
      BY <1>1, <1>2, <1>9 DEF CountsIn
    <3> QED
      BY <1>3, <2>2, <3>1, <3>2, <3>3
  <2>3. CASE x # a
    <3>1. EndIn(E, size[x]) = EndIn(value, size[x])
      BY <1>7, <1>10, <2>1, <2>3
    <3>2. count'[x] = count[x]
      BY <1>2, <2>3 DEF ArraysTypeOK
    <3> QED
      BY <1>1, <3>1, <3>2 DEF CountsIn
  <2> QED
    BY <2>2, <2>3
<1>12. \A x \in AnyArray : Owner(x)' = Owner(x)
  BY <1>2 DEF Owner
<1>13. ApartIn(E, size, [x \in AnyArray |-> Owner(x)])
  <2> SUFFICES ASSUME NEW x \in AnyArray, NEW y \in AnyArray, size[x] # None, size[y] # None,
                      Owner(x) # Owner(y)
               PROVE  OnIn(E, size[x]) \cap OnIn(E, size[y]) = {}
    BY DEF ApartIn
  <2>1. OnIn(value, size[x]) \cap OnIn(value, size[y]) = {}
    BY <1>1 DEF ApartIn
  <2>2. OnIn(E, size[x]) \subseteq OnIn(value, size[x]) /\ OnIn(E, size[y]) \subseteq OnIn(value, size[y])
    BY <1>7, <1>9
  <2> QED
    BY <2>1, <2>2
<1>14. ApartIn(value', size', [x \in AnyArray |-> Owner(x)']) /\ CountsIn(value', size', count')
  BY <1>2, <1>11, <1>12, <1>13 DEF E
<1> QED
  BY <1>7, <1>8, <1>14, CountInvNext DEF E

(* An Append that throws leaves the element in, with a size that is an     *)
(* expression.                                                             *)
LEMMA CountAppendThrows ==
  ASSUME Habits = {}, ArraysTypeOK, CountInv, NEW a \in Array, AppendThrows(a)
  PROVE  CountInv'
<1>1. /\ value \in [Parameter -> Value] /\ NoCircle(value)
      /\ \A q \in InstParam : rebind[q] = value[q]
      /\ ApartIn(value, size, [x \in AnyArray |-> Owner(x)])
      /\ CountsIn(value, size, count)
  BY CountInvIs
<1>2. /\ count' = [count EXCEPT ![a] = count[a] + 1]
      /\ UNCHANGED <<size, value, rebind, source>>
      /\ EndIn(value, size[a]) \notin Literal
  BY TraceIs DEF AppendThrows, AppendNode
<1>3. \A x \in AnyArray : x # a => count'[x] = count[x]
  BY <1>2 DEF ArraysTypeOK
<1>4. CountsIn(value, size, count')
  BY <1>1, <1>2, <1>3 DEF CountsIn
<1>5. \A x \in AnyArray : Owner(x)' = Owner(x)
  BY <1>2 DEF Owner
<1>6. ApartIn(value', size', [x \in AnyArray |-> Owner(x)'])
  BY <1>1, <1>2, <1>5
<1> QED
  BY <1>1, <1>2, <1>4, <1>6, CountInvNext

(* A signal array gets a part of the trace of the array it is made for.    *)
LEMMA CountAttach ==
  ASSUME Habits = {}, ArraysTypeOK, CountInv, NEW a \in Array, NEW s \in SigArray,
         AttachSignalArray(a, s)
  PROVE  CountInv'
<1>1. /\ value \in [Parameter -> Value] /\ NoCircle(value)
      /\ \A q \in InstParam : rebind[q] = value[q]
      /\ ApartIn(value, size, [x \in AnyArray |-> Owner(x)])
      /\ CountsIn(value, size, count)
  BY CountInvIs
<1> DEFINE w == ReboundSize(a)
<1>2. /\ source[s] = None /\ source' = [source EXCEPT ![s] = a]
      /\ size' = [size EXCEPT ![s] = w]
      /\ count' = [count EXCEPT ![s] = count[a]]
      /\ UNCHANGED <<value, rebind>>
  BY DEF AttachSignalArray
<1>3. a \in AnyArray /\ s \in AnyArray /\ a \notin SigArray /\ a # s /\ a # None
  BY ArraysAssumption DEF AnyArray
<1>4. size[a] # None /\ w # None => /\ EndIn(value, w) = EndIn(value, size[a])
                                    /\ OnIn(value, w) \subseteq OnIn(value, size[a])
  <2>1. CASE size[a] \in InstParam
    <3>1. w = value[size[a]] /\ size[a] \in Parameter
      BY <1>1, <2>1, ArraysAssumption DEF ReboundSize
    <3>2. /\ EndIn(value, size[a]) = EndIn(value, value[size[a]])
          /\ OnIn(value, size[a]) = {size[a]} \cup OnIn(value, value[size[a]])
      BY <1>1, <3>1, TraceFacts
    <3> QED
      BY <3>1, <3>2
  <2>2. CASE size[a] \notin InstParam
    BY <2>2 DEF ReboundSize
  <2> QED
    BY <2>1, <2>2
<1>5. w # None => size[a] # None
  <2>1. None \notin InstParam
    BY ArraysAssumption DEF Value
  <2> QED
    BY <2>1 DEF ReboundSize
<1> HIDE DEF w
<1>6. /\ \A x \in AnyArray : size'[x] = IF x = s THEN w ELSE size[x]
      /\ \A x \in AnyArray : count'[x] = IF x = s THEN count[a] ELSE count[x]
      /\ \A x \in AnyArray : Owner(x)' = IF x = s THEN a ELSE Owner(x)
      /\ Owner(a) = a
  BY <1>2, <1>3 DEF ArraysTypeOK, Owner
<1>7. CountsIn(value, size', count')
  <2> SUFFICES ASSUME NEW x \in AnyArray, size'[x] # None, EndIn(value, size'[x]) \in Literal
               PROVE  EndIn(value, size'[x]).n = count'[x]
    BY DEF CountsIn
  <2>1. CASE x = s
    <3>1. EndIn(value, w) = EndIn(value, size[a]) /\ size[a] # None
      BY <1>4, <1>5, <1>6, <2>1
    <3> QED
      BY <1>1, <1>3, <1>6, <2>1, <3>1 DEF CountsIn
  <2>2. CASE x # s
    BY <1>1, <1>6, <2>2 DEF CountsIn
  <2> QED
    BY <2>1, <2>2
<1>8. ApartIn(value, size', [x \in AnyArray |-> Owner(x)'])
  <2> SUFFICES ASSUME NEW x \in AnyArray, NEW y \in AnyArray, size'[x] # None, size'[y] # None,
                      Owner(x)' # Owner(y)'
               PROVE  OnIn(value, size'[x]) \cap OnIn(value, size'[y]) = {}
    BY DEF ApartIn
(* The trace of s is part of that of a, so s stands for a.                 *)
  <2> DEFINE X == IF x = s THEN a ELSE x
             Y == IF y = s THEN a ELSE y
  <2>1. /\ OnIn(value, size'[x]) \subseteq OnIn(value, size[X])
        /\ size[X] # None /\ Owner(X) = Owner(x)' /\ X \in AnyArray
    BY <1>3, <1>4, <1>5, <1>6
  <2>2. /\ OnIn(value, size'[y]) \subseteq OnIn(value, size[Y])
        /\ size[Y] # None /\ Owner(Y) = Owner(y)' /\ Y \in AnyArray
    BY <1>3, <1>4, <1>5, <1>6
  <2> HIDE DEF X, Y
  <2>3. OnIn(value, size[X]) \cap OnIn(value, size[Y]) = {}
    BY <1>1, <2>1, <2>2 DEF ApartIn
  <2> QED
    BY <2>1, <2>2, <2>3
<1> QED
  BY <1>1, <1>2, <1>7, <1>8, CountInvNext

(* Every step of the ordinary client keeps the count.                      *)
LEMMA CountStep ==
  ASSUME Habits = {}
  PROVE  ArraysTypeOK /\ CountInv /\ [ArraysNext]_arrayVars => CountInv'
<1> SUFFICES ASSUME ArraysTypeOK, CountInv, [ArraysNext]_arrayVars PROVE CountInv'
  OBVIOUS
<1>1. ASSUME NEW p \in Parameter, NEW v \in Value, SetValue(p, v) PROVE CountInv'
  BY <1>1, CountSetValue
<1>2. \A a \in Array, v \in Value : ~ SetSize(a, v)
  BY DEF SetSize
<1>3. \A a \in Array : ~ AppendOnly(a)
  BY DEF AppendOnly
<1>4. ASSUME NEW a \in Array, AppendToValue(a) PROVE CountInv'
  BY <1>4, CountAppendToValue
<1>5. ASSUME NEW a \in Array, AppendToParameter(a) PROVE CountInv'
  BY <1>5, CountAppendToParameter
<1>6. ASSUME NEW a \in Array, AppendThrows(a) PROVE CountInv'
  BY <1>6, CountAppendThrows
<1>7. ASSUME NEW a \in Array, NEW s \in SigArray, AttachSignalArray(a, s) PROVE CountInv'
  BY <1>7, CountAttach
<1>8. \A p, r \in Parameter : ~ Replace(p, r)
  BY DEF Replace
<1>9. CASE UNCHANGED arrayVars \/ \E a \in Array, s \in SigArray : AttachThrows(a, s)
  <2>1. UNCHANGED <<value, rebind, size, count, source>>
    BY <1>9 DEF arrayVars, AttachThrows
  <2>2. \A x \in AnyArray : Owner(x)' = Owner(x)
    BY <2>1 DEF Owner
  <2>3. /\ value \in [Parameter -> Value] /\ NoCircle(value)
        /\ \A q \in InstParam : rebind[q] = value[q]
        /\ ApartIn(value, size, [x \in AnyArray |-> Owner(x)])
        /\ CountsIn(value, size, count)
    BY CountInvIs
  <2> QED
    BY <2>1, <2>2, <2>3, CountInvNext
<1> QED
  BY <1>1, <1>2, <1>3, <1>4, <1>5, <1>6, <1>7, <1>8, <1>9 DEF ArraysNext

(* Following the values of parameters "until an expression or literal is   *)
(* encountered" (parameter.h:39) comes to one, for the ordinary client,    *)
(* which connects no parameter to one that depends on it.                  *)
THEOREM TracesHaveEnds ==
  ASSUME Habits = {}
  PROVE  ArraysSpec => []TracesEnd
<1>1. CountInv => TracesEnd
  BY TraceIs, TraceFacts, ValueFacts DEF CountInv, TracesEnd
<1> QED
  BY <1>1, CountInit, CountStep, ArraysTypeInit, ArraysTypeStep, PTL DEF ArraysSpec

(* The size node of an array, its own or that of the signal array made for *)
(* it, stands for the number of elements, whatever was appended and        *)
(* connected (array.h:93), for the ordinary client.                        *)
THEOREM SizesCountNodes ==
  ASSUME Habits = {}
  PROVE  ArraysSpec => []SizeIsNumNodes
<1>1. CountInv => SizeIsNumNodes
  BY DEF CountInv
<1> QED
  BY <1>1, CountInit, CountStep, ArraysTypeInit, ArraysTypeStep, PTL DEF ArraysSpec
=============================================================================
