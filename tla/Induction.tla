------------------------------ MODULE Induction ------------------------------
(***************************************************************************)
(* Induction over the natural numbers, from the library's facts about      *)
(* finite sets: n is represented by the interval 0..n, and the finite      *)
(* subsets of a set are well-founded.  From it, sequences that are made by *)
(* repeating a step, and what is in a sequence that was put together.      *)
(***************************************************************************)
EXTENDS SequencesExt, SequenceTheorems, FiniteSetTheorems, TLAPS

(* A set of naturals that is not empty has a least element.                *)
LEMMA LeastNatural ==
  ASSUME NEW T \in SUBSET Nat, T # {}
  PROVE  \E m \in T : \A n \in T : m <= n
<1> DEFINE Below == {0..n : n \in T}
<1>1. IsWellFoundedOn(StrictSubsetOrdering(Nat), FiniteSubsetsOf(Nat))
  BY FS_StrictSubsetOrderingWellFounded
<1>2. Below \subseteq FiniteSubsetsOf(Nat)
  <2>1. \A n \in T : 0..n \subseteq Nat /\ IsFiniteSet(0..n)
    BY FS_Interval
  <2> QED
    BY <2>1 DEF FiniteSubsetsOf
<1>3. \E x \in Below : \A y \in Below : <<y, x>> \notin StrictSubsetOrdering(Nat)
  <2>1. Below # {}
    OBVIOUS
  <2> HIDE DEF Below
  <2> QED
    BY <1>1, <1>2, <2>1, WFMin
<1>4. PICK m \in T : \A n \in T : <<0..n, 0..m>> \notin StrictSubsetOrdering(Nat)
  BY <1>3
<1>5. ASSUME NEW n \in T, n < m PROVE FALSE
  <2>1. 0..n \subseteq 0..m /\ 0..n # 0..m /\ 0..n \in SUBSET Nat /\ 0..m \in SUBSET Nat
    BY <1>5
  <2> QED
    BY <1>4, <2>1 DEF StrictSubsetOrdering
<1> QED
  BY <1>5

(* A set with 0 and the successor of each of its elements has all naturals. *)
LEMMA EveryNatural ==
  ASSUME NEW S, 0 \in S, \A n \in Nat : n \in S => n + 1 \in S
  PROVE  \A n \in Nat : n \in S
<1> DEFINE T == Nat \ S
<1> SUFFICES ASSUME T # {} PROVE FALSE
  OBVIOUS
<1>1. PICK m \in T : \A n \in T : m <= n
  BY LeastNatural
<1>2. m # 0 /\ m - 1 \in Nat
  BY <1>1
<1>3. m - 1 \in S
  BY <1>1, <1>2
<1>4. (m - 1) + 1 \in S
  BY <1>2, <1>3
<1> QED
  BY <1>1, <1>4

(* f starts at x0, and each step applies F's function of that step.        *)
Iterated(f, m, x0, F) ==
  f = [k \in 0..m |-> IF k = 0 THEN x0 ELSE F[k][f[k - 1]]]

(* A sequence given by its first element and by what each step makes of    *)
(* the element before exists, up to any length.                            *)
LEMMA Iterates ==
  ASSUME NEW S, NEW x0 \in S, NEW m \in Nat, NEW F \in [1..m -> [S -> S]]
  PROVE  \E f \in [0..m -> S] : Iterated(f, m, x0, F)
<1> DEFINE Built(k, f) == /\ f \in [0..k -> S] /\ f[0] = x0
                          /\ \A j \in 1..k : f[j] = F[j][f[j - 1]]
           T == {k \in Nat : k <= m => \E f : Built(k, f)}
<1>1. 0 \in T
  <2> DEFINE f == [j \in 0..0 |-> x0]
  <2>1. Built(0, f)
    OBVIOUS
  <2> QED
    BY <2>1
<1>2. ASSUME NEW k \in Nat, k \in T PROVE k + 1 \in T
  <2> SUFFICES ASSUME k + 1 <= m PROVE \E f : Built(k + 1, f)
    OBVIOUS
  <2>1. PICK f : Built(k, f)
    BY <1>2
  <2>2. f[k] \in S /\ k + 1 \in 1..m
    BY <2>1
  <2> DEFINE x == F[k + 1][f[k]]
             g == [j \in 0..(k + 1) |-> IF j = k + 1 THEN x ELSE f[j]]
  <2>3. x \in S
    BY <2>2
  <2> HIDE DEF x
  <2>4. \A j \in 0..k : g[j] = f[j] /\ f[j] \in S
    BY <2>1
  <2>5. g[k + 1] = x /\ g[k] = f[k]
    BY <2>4
  <2>6. g \in [0..(k + 1) -> S]
    <3>1. \A j \in 0..(k + 1) : j = k + 1 \/ j \in 0..k
      OBVIOUS
    <3>2. \A j \in 0..(k + 1) : (IF j = k + 1 THEN x ELSE f[j]) \in S
      BY <2>3, <2>4, <3>1
    <3> QED
      BY <3>2
  <2>7. ASSUME NEW j \in 1..(k + 1) PROVE g[j] = F[j][g[j - 1]]
    <3>1. CASE j = k + 1
      <4>1. j - 1 = k
        BY <3>1
      <4>2. g[j] = x /\ g[j - 1] = f[k]
        BY <3>1, <2>5, <4>1
      <4>3. x = F[j][f[k]]
        BY <3>1 DEF x
      <4> HIDE DEF g
      <4> QED
        BY <4>2, <4>3
    <3>2. CASE j # k + 1
      <4>1. j \in 1..k /\ j - 1 \in 0..k /\ j \in 0..k
        BY <3>2
      <4>2. f[j] = F[j][f[j - 1]]
        BY <2>1, <4>1
      <4> QED
        BY <2>4, <4>1, <4>2
    <3> QED
      BY <3>1, <3>2
  <2>8. g[0] = x0
    BY <2>1, <2>4
  <2> HIDE DEF g
  <2>9. Built(k + 1, g)
    BY <2>6, <2>7, <2>8
  <2> QED
    BY <2>9
<1> HIDE DEF T
<1>3. \A k \in Nat : k \in T
  BY <1>1, <1>2, EveryNatural
<1>4. PICK f : Built(m, f)
  BY <1>3 DEF T
<1>5. ASSUME NEW k \in 0..m PROVE f[k] = IF k = 0 THEN x0 ELSE F[k][f[k - 1]]
  <2>1. k # 0 => k \in 1..m
    OBVIOUS
  <2> QED
    BY <1>4, <2>1
<1>6. f = [k \in 0..m |-> f[k]] /\ f \in [0..m -> S]
  BY <1>4
<1> QED
  BY <1>5, <1>6 DEF Iterated

(* A sequence stays in a set it starts in and no step leaves.              *)
LEMMA StaysIn ==
  ASSUME NEW S, NEW m \in Nat, NEW f, f = [k \in 0..m |-> f[k]],
         f[0] \in S, \A k \in 1..m : f[k - 1] \in S => f[k] \in S
  PROVE  f \in [0..m -> S]
<1> DEFINE T == {k \in Nat : k <= m => f[k] \in S}
<1>1. 0 \in T
  OBVIOUS
<1>2. ASSUME NEW k \in Nat, k \in T PROVE k + 1 \in T
  <2> SUFFICES ASSUME k + 1 <= m PROVE f[k + 1] \in S
    OBVIOUS
  <2>1. f[k] \in S /\ k + 1 \in 1..m /\ (k + 1) - 1 = k
    BY <1>2
  <2> QED
    BY <2>1
<1> HIDE DEF T
<1>3. \A k \in Nat : k \in T
  BY <1>1, <1>2, EveryNatural
<1>4. \A k \in 0..m : f[k] \in S
  BY <1>3 DEF T
<1> QED
  BY <1>4

(* Max of numbers that are bounded is the largest of them.                 *)
LEMMA MaxFacts ==
  ASSUME NEW b \in Nat, NEW S, S # {}, \A n \in S : n \in Nat /\ n <= b
  PROVE  Max(S) \in S /\ \A y \in S : Max(S) >= y
<1> DEFINE T == {n \in Nat : b - n \in S}
<1>1. T \in SUBSET Nat /\ T # {}
  <2>1. PICK s \in S : TRUE
    OBVIOUS
  <2>2. s \in Nat /\ b - s \in Nat /\ b - (b - s) = s
    BY <2>1
  <2>3. b - s \in T
    BY <2>1, <2>2
  <2> QED
    BY <2>3
<1>2. PICK m \in T : \A n \in T : m <= n
  <2> HIDE DEF T
  <2> QED
    BY <1>1, LeastNatural
<1>3. b - m \in S /\ m \in Nat
  BY <1>2
<1>4. \A y \in S : b - m >= y
  <2>1. ASSUME NEW y \in S PROVE b - m >= y
    <3>1. y \in Nat /\ b - y \in Nat /\ b - (b - y) = y
      OBVIOUS
    <3>2. b - y \in T
      BY <3>1
    <3>3. m <= b - y
      BY <1>2, <3>2
    <3> QED
      BY <1>3, <3>1, <3>3
  <2> QED
    BY <2>1
<1> QED
  BY <1>3, <1>4 DEF Max

-----------------------------------------------------------------------------
(* The elements of a sequence.                                             *)
Listed(s) == {s[k] : k \in 1..Len(s)}

(* SetToSeq lists every element of a finite set.                           *)
LEMMA ListOfSet ==
  ASSUME NEW S, IsFiniteSet(S)
  PROVE  /\ SetToSeq(S) \in Seq(S)
         /\ \A x \in S : \E k \in 1..Len(SetToSeq(S)) : SetToSeq(S)[k] = x
<1> DEFINE n == Cardinality(S)
           s == SetToSeq(S)
<1>1. n \in Nat /\ ExistsBijection(1..n, S)
  BY FS_CardinalityType, FS_NatBijection, FS_CountingElements
<1>2. \E f \in [1..n -> S] : IsInjective(f)
  BY <1>1 DEF ExistsBijection, Bijection, Injection, IsInjective
<1>3. s \in [1..n -> S] /\ IsInjective(s)
  BY <1>2 DEF SetToSeq
<1> HIDE DEF s
<1>4. s \in Injection(1..n, S)
  BY <1>3 DEF Injection, IsInjective
<1>5. IsFiniteSet(1..n) /\ Cardinality(1..n) = n
  BY <1>1, FS_Interval
<1>6. s \in Surjection(1..n, S)
  BY <1>4, <1>5, FS_Injection
<1>7. s \in Seq(S) /\ Len(s) = n
  BY <1>1, <1>3
<1>8. \A x \in S : \E k \in 1..n : s[k] = x
  BY <1>6 DEF Surjection
<1> QED
  BY <1>7, <1>8 DEF s

(* Append adds one element to those that are listed.                       *)
LEMMA AppendFacts ==
  ASSUME NEW S, NEW s \in Seq(S), NEW x \in S
  PROVE  /\ Append(s, x) \in Seq(S)
         /\ Len(Append(s, x)) = Len(s) + 1
         /\ \A k \in 1..Len(s) : Append(s, x)[k] = s[k]
         /\ Append(s, x)[Len(s) + 1] = x
         /\ Len(s) \in Nat
         /\ Listed(Append(s, x)) = Listed(s) \cup {x}
<1>1. /\ Append(s, x) \in Seq(S)
      /\ Len(Append(s, x)) = Len(s) + 1
      /\ Len(s) \in Nat
  OBVIOUS
<1>2. \A k \in 1..Len(s) : Append(s, x)[k] = s[k]
  OBVIOUS
<1>3. Append(s, x)[Len(s) + 1] = x
  OBVIOUS
<1>4. Listed(Append(s, x)) = Listed(s) \cup {x}
  <2> DEFINE t == Append(s, x)
             n == Len(s)
  <2>1. Len(t) = n + 1 /\ n \in Nat /\ t[n + 1] = x /\ \A k \in 1..n : t[k] = s[k]
    BY <1>1, <1>2, <1>3
  <2> HIDE DEF t, n
  <2>2. ASSUME NEW k \in 1..(n + 1) PROVE t[k] \in {s[j] : j \in 1..n} \cup {x}
    BY <2>1
  <2>3. ASSUME NEW k \in 1..n PROVE s[k] \in {t[j] : j \in 1..(n + 1)}
    BY <2>1
  <2>4. x \in {t[j] : j \in 1..(n + 1)}
    BY <2>1
  <2> QED
    BY <2>1, <2>2, <2>3, <2>4 DEF Listed, t, n
<1> QED
  BY <1>1, <1>2, <1>3, <1>4

(* Concatenating lists all that was listed.                                *)
LEMMA ConcatFacts ==
  ASSUME NEW S, NEW a \in Seq(S), NEW b \in Seq(S)
  PROVE  /\ a \o b \in Seq(S) /\ Len(a \o b) = Len(a) + Len(b)
         /\ Len(a) \in Nat /\ Len(b) \in Nat
         /\ \A k \in 1..Len(a) : (a \o b)[k] = a[k]
         /\ \A k \in 1..Len(b) : (a \o b)[Len(a) + k] = b[k]
         /\ Listed(a \o b) = Listed(a) \cup Listed(b)
<1> DEFINE c == a \o b
<1>1. /\ c \in Seq(S) /\ Len(c) = Len(a) + Len(b)
      /\ \A k \in 1..(Len(a) + Len(b)) : c[k] = IF k <= Len(a) THEN a[k] ELSE b[k - Len(a)]
  BY ConcatProperties
<1>2. Len(a) \in Nat /\ Len(b) \in Nat
  BY LenProperties
<1> HIDE DEF c
<1>3. \A k \in 1..Len(a) : k \in 1..Len(c) /\ c[k] = a[k]
  BY <1>1, <1>2
<1>4. ASSUME NEW k \in 1..Len(b) PROVE Len(a) + k \in 1..Len(c) /\ c[Len(a) + k] = b[k]
  <2>1. Len(a) + k \in 1..Len(c) /\ ~ (Len(a) + k <= Len(a)) /\ (Len(a) + k) - Len(a) = k
    BY <1>1, <1>2
  <2> QED
    BY <1>1, <2>1
<1>5. ASSUME NEW k \in 1..Len(c) PROVE c[k] \in Listed(a) \cup Listed(b)
  <2>1. CASE k <= Len(a)
    BY <1>1, <1>2, <2>1 DEF Listed
  <2>2. CASE ~ (k <= Len(a))
    <3>1. k - Len(a) \in 1..Len(b) /\ c[k] = b[k - Len(a)]
      BY <1>1, <1>2, <2>2
    <3> QED
      BY <3>1 DEF Listed
  <2> QED
    BY <2>1, <2>2
<1>6. Listed(c) \subseteq Listed(a) \cup Listed(b)
  BY <1>5 DEF Listed
<1>7. Listed(a) \cup Listed(b) \subseteq Listed(c)
  BY <1>3, <1>4 DEF Listed
<1> QED
  BY <1>1, <1>2, <1>3, <1>4, <1>6, <1>7 DEF c

(* What the first m of some sequences list.                                *)
AllListed(ss, m) == UNION {Listed(ss[k]) : k \in 1..m}

(* FlattenSeq appends the sequences one after the other.                   *)
Flattening(g, S, ss, n) ==
  /\ g \in [0..n -> Seq(S)]
  /\ g[0] = << >> /\ FlattenSeq(ss) = g[n]
  /\ \A k \in 1..n : g[k] = g[k - 1] \o ss[k]
  /\ \A k \in 0..n : Listed(g[k]) = AllListed(ss, k)

LEMMA FlattenSteps ==
  ASSUME NEW S, NEW ss \in Seq(Seq(S)), NEW n, n = Len(ss)
  PROVE  \E g : Flattening(g, S, ss, n)
<1> DEFINE U(k) == AllListed(ss, k)
           Is(f) == f = [k \in 1..Len(ss) |-> IF k = 1 THEN ss[k] ELSE f[k - 1] \o ss[k]]
           b == CHOOSE f : Is(f)
           F == [k \in 1..n |-> [s \in Seq(S) |-> s \o ss[k]]]
<1>1. n \in Nat /\ Len(ss) = n /\ \A k \in 1..n : ss[k] \in Seq(S)
  BY LenProperties, ElementOfSeq
<1>2. << >> \in Seq(S) /\ Len(<< >>) = 0 /\ Listed(<< >>) = {} /\ U(0) = {}
  BY EmptySeq DEF Listed, AllListed
<1>3. F \in [1..n -> [Seq(S) -> Seq(S)]]
  <2>1. \A k \in 1..n : \A s \in Seq(S) : s \o ss[k] \in Seq(S)
    BY ConcatFacts
  <2> QED
    BY <2>1
<1>4. PICK g \in [0..n -> Seq(S)] : g = [k \in 0..n |-> IF k = 0 THEN << >> ELSE F[k][g[k - 1]]]
  <2> HIDE DEF F
  <2>1. \E g \in [0..n -> Seq(S)] : Iterated(g, n, << >>, F)
    BY <1>1, <1>2, <1>3, Iterates
  <2> QED
    BY <2>1 DEF Iterated
<1>5. g[0] = << >> /\ \A k \in 1..n : g[k - 1] \in Seq(S) /\ g[k] \in Seq(S) /\ g[k] = g[k - 1] \o ss[k]
  <2>1. g[0] = << >>
    BY <1>4
  <2>2. ASSUME NEW k \in 1..n PROVE g[k - 1] \in Seq(S) /\ g[k] \in Seq(S) /\ g[k] = g[k - 1] \o ss[k]
    <3>1. k \in 0..n /\ k # 0 /\ k - 1 \in 0..n
      OBVIOUS
    <3>2. g[k] = F[k][g[k - 1]] /\ g[k - 1] \in Seq(S) /\ g[k] \in Seq(S)
      <4> HIDE DEF F
      <4> QED
        BY <1>4, <3>1
    <3>3. F[k][g[k - 1]] = g[k - 1] \o ss[k]
      BY <3>2
    <3> QED
      BY <3>2, <3>3
  <2> QED
    BY <2>1, <2>2
<1> HIDE DEF F
<1>6. n # 0 => FlattenSeq(ss) = b[n]
  BY <1>1 DEF FlattenSeq
<1>7. Is([k \in 1..n |-> g[k]])
  <2> DEFINE h == [k \in 1..n |-> g[k]]
  <2>1. ASSUME NEW k \in 1..n PROVE h[k] = IF k = 1 THEN ss[k] ELSE h[k - 1] \o ss[k]
    <3>1. CASE k = 1
      <4>1. 1 \in 1..n /\ 1 - 1 = 0 /\ ss[1] \in Seq(S)
        BY <3>1
      <4>2. g[1] = g[1 - 1] \o ss[1] /\ g[0] = << >>
        BY <1>5, <4>1
      <4>3. << >> \o ss[1] = ss[1]
        BY <4>1, ConcatEmptySeq
      <4> QED
        BY <3>1, <4>1, <4>2, <4>3
    <3>2. CASE k # 1
      <4>1. k - 1 \in 1..n
        BY <3>2
      <4> QED
        BY <1>5, <3>2, <4>1
    <3> QED
      BY <3>1, <3>2
  <2> QED
    BY <1>1, <2>1
<1>8. Is(b)
  BY <1>7
<1>9. \A k \in 1..n : b[k] = IF k = 1 THEN ss[k] ELSE b[k - 1] \o ss[k]
  <2> HIDE DEF b
  <2> QED
    BY <1>1, <1>8
<1> HIDE DEF b, Is
<1>10. \A k \in Nat : k \in {j \in Nat : j <= n => Listed(g[j]) = U(j) /\ (j # 0 => b[j] = g[j])}
  <2> DEFINE T == {j \in Nat : j <= n => Listed(g[j]) = U(j) /\ (j # 0 => b[j] = g[j])}
  <2>1. 0 \in T
    BY <1>2, <1>5
  <2>2. ASSUME NEW k \in Nat, k \in T PROVE k + 1 \in T
    <3> SUFFICES ASSUME k + 1 <= n PROVE Listed(g[k + 1]) = U(k + 1) /\ b[k + 1] = g[k + 1]
      OBVIOUS
    <3>1. Listed(g[k]) = U(k) /\ (k # 0 => b[k] = g[k]) /\ k + 1 \in 1..n /\ (k + 1) - 1 = k
      BY <2>2
    <3>2. g[k] \in Seq(S) /\ g[k + 1] = g[k] \o ss[k + 1] /\ ss[k + 1] \in Seq(S)
      BY <1>1, <1>5, <3>1
    <3>3. Listed(g[k + 1]) = Listed(g[k]) \cup Listed(ss[k + 1])
      BY <3>2, ConcatFacts
    <3>4. U(k + 1) = U(k) \cup Listed(ss[k + 1])
      <4>1. 1..(k + 1) = (1..k) \cup {k + 1}
        OBVIOUS
      <4> QED
        BY <4>1 DEF AllListed
    <3>5. b[k + 1] = g[k + 1]
      <4>1. CASE k = 0
        <5>1. 1 \in 1..n /\ g[0 + 1] = g[0] \o ss[0 + 1] /\ 0 + 1 = 1
          BY <1>1, <3>1, <3>2, <4>1
        <5>2. b[1] = ss[1] /\ g[1] = << >> \o ss[1]
          BY <1>5, <1>9, <5>1
        <5>3. << >> \o ss[1] = ss[1]
          BY <3>2, <4>1, ConcatEmptySeq
        <5> QED
          BY <4>1, <5>1, <5>2, <5>3
      <4>2. CASE k # 0
        <5>1. k + 1 # 1
          BY <4>2
        <5>2. b[k + 1] = b[(k + 1) - 1] \o ss[k + 1]
          BY <1>9, <3>1, <5>1
        <5> QED
          BY <3>1, <3>2, <4>2, <5>2
      <4> QED
        BY <4>1, <4>2
    <3> HIDE DEF U
    <3> QED
      BY <3>1, <3>3, <3>4, <3>5
  <2> HIDE DEF T
  <2>3. \A k \in Nat : k \in T
    BY <2>1, <2>2, EveryNatural
  <2> QED
    BY <2>3 DEF T
<1>11. FlattenSeq(ss) = g[n]
  <2>1. CASE n = 0
    <3>1. ss = << >> /\ FlattenSeq(ss) = ss
      BY <2>1, EmptySeq DEF FlattenSeq
    <3> QED
      BY <1>5, <2>1, <3>1
  <2>2. CASE n # 0
    <3>1. n \in Nat /\ n <= n
      BY <1>1
    <3> QED
      BY <1>6, <1>10, <2>2, <3>1
  <2> QED
    BY <2>1, <2>2
<1>12. \A k \in 0..n : Listed(g[k]) = U(k)
  <2> SUFFICES ASSUME NEW k \in 0..n PROVE Listed(g[k]) = U(k)
    OBVIOUS
  <2>1. k \in Nat /\ k <= n
    BY <1>1
  <2> QED
    BY <1>10, <2>1
<1> QED
  BY <1>5, <1>11, <1>12 DEF Flattening

(* FlattenSeq lists what its sequences list, and ends in the last of them. *)
LEMMA FlattenFacts ==
  ASSUME NEW S, NEW ss \in Seq(Seq(S)), NEW n, n = Len(ss)
  PROVE  /\ FlattenSeq(ss) \in Seq(S)
         /\ Listed(FlattenSeq(ss)) = AllListed(ss, n)
         /\ n # 0 => \E front \in Seq(S) :
              /\ FlattenSeq(ss) = front \o ss[n]
              /\ Listed(front) = AllListed(ss, n - 1)
<1>1. n \in Nat /\ n \in 0..n /\ (n # 0 => n \in 1..n /\ n - 1 \in 0..n)
  BY LenProperties
<1>2. PICK g : Flattening(g, S, ss, n)
  BY FlattenSteps
<1>3. FlattenSeq(ss) \in Seq(S) /\ Listed(FlattenSeq(ss)) = AllListed(ss, n)
  BY <1>1, <1>2 DEF Flattening
<1>4. ASSUME n # 0
      PROVE  \E front \in Seq(S) : FlattenSeq(ss) = front \o ss[n] /\ Listed(front) = AllListed(ss, n - 1)
  <2>1. g[n - 1] \in Seq(S) /\ g[n] = g[n - 1] \o ss[n] /\ Listed(g[n - 1]) = AllListed(ss, n - 1)
    BY <1>1, <1>2, <1>4 DEF Flattening
  <2> QED
    BY <1>2, <2>1 DEF Flattening
<1> QED
  BY <1>3, <1>4

(* The length of what FlattenSeq makes is decided by the lengths.          *)
LEMMA FlattenLength ==
  ASSUME NEW S, NEW ss \in Seq(Seq(S)), NEW tt \in Seq(Seq(S)), Len(ss) = Len(tt),
         \A k \in 1..Len(ss) : Len(ss[k]) = Len(tt[k])
  PROVE  Len(FlattenSeq(ss)) = Len(FlattenSeq(tt))
<1> DEFINE n == Len(ss)
<1>1. n \in Nat /\ Len(tt) = n
  BY LenProperties
<1>2. \A k \in 1..n : ss[k] \in Seq(S) /\ tt[k] \in Seq(S) /\ Len(ss[k]) = Len(tt[k])
  BY <1>1, ElementOfSeq
<1> HIDE DEF n
<1>3. PICK g : Flattening(g, S, ss, n)
  BY FlattenSteps DEF n
<1>4. PICK h : Flattening(h, S, tt, n)
  BY <1>1, FlattenSteps
<1> DEFINE T == {k \in Nat : k <= n => Len(g[k]) = Len(h[k])}
<1>5. 0 \in T
  BY <1>3, <1>4 DEF Flattening
<1>6. ASSUME NEW k \in Nat, k \in T PROVE k + 1 \in T
  <2> SUFFICES ASSUME k + 1 <= n PROVE Len(g[k + 1]) = Len(h[k + 1])
    OBVIOUS
  <2>1. k + 1 \in 1..n /\ (k + 1) - 1 = k /\ k \in 0..n /\ k <= n
    BY <1>1
  <2>2. g[k + 1] = g[k] \o ss[k + 1] /\ h[k + 1] = h[k] \o tt[k + 1] /\ g[k] \in Seq(S) /\ h[k] \in Seq(S)
    BY <1>3, <1>4, <2>1 DEF Flattening
  <2>3. Len(g[k]) = Len(h[k]) /\ Len(ss[k + 1]) = Len(tt[k + 1])
    BY <1>2, <1>6, <2>1
  <2>4. ss[k + 1] \in Seq(S) /\ tt[k + 1] \in Seq(S)
    BY <1>2, <2>1
  <2>5. Len(g[k + 1]) = Len(g[k]) + Len(ss[k + 1]) /\ Len(h[k + 1]) = Len(h[k]) + Len(tt[k + 1])
    BY <2>2, <2>4, ConcatFacts
  <2> QED
    BY <2>3, <2>5
<1> HIDE DEF T
<1>7. n \in T
  BY <1>1, <1>5, <1>6, EveryNatural
<1> QED
  BY <1>1, <1>3, <1>4, <1>7 DEF T, Flattening

-----------------------------------------------------------------------------
(* Induction over the elements of a set by a rank.                         *)
LEMMA RankInduction ==
  ASSUME NEW A, NEW rank \in [A -> Nat], NEW Good,
         \A a \in A : (\A x \in A : rank[x] < rank[a] => x \in Good) => a \in Good
  PROVE  \A a \in A : a \in Good
<1> DEFINE K == {n \in Nat : \A a \in A : rank[a] < n => a \in Good}
<1>1. 0 \in K
  OBVIOUS
<1>2. ASSUME NEW n \in Nat, n \in K PROVE n + 1 \in K
  <2> SUFFICES ASSUME NEW a \in A, rank[a] < n + 1 PROVE a \in Good
    OBVIOUS
  <2>1. \A x \in A : rank[x] < rank[a] => rank[x] < n
    OBVIOUS
  <2> QED
    BY <1>2, <2>1
<1> HIDE DEF K
<1>3. \A n \in Nat : n \in K
  BY <1>1, <1>2, EveryNatural
<1>4. ASSUME NEW a \in A PROVE a \in Good
  <2>1. rank[a] + 1 \in Nat /\ rank[a] < rank[a] + 1
    OBVIOUS
  <2> QED
    BY <1>3, <2>1 DEF K
<1> QED
  BY <1>4

(* F makes functions of functions, whose value at an element depends on    *)
(* those at elements of lower rank.                                        *)
LooksBelow(F, A, V, B, rank) ==
  /\ V # {} /\ B \in Nat /\ rank \in [A -> 0..B] /\ F \in [[A -> V] -> [A -> V]]
  /\ \A f, g \in [A -> V] : \A a \in A :
       (\A x \in A : rank[x] < rank[a] => f[x] = g[x]) => F[f][a] = F[g][a]

(* Such an F has a fixed point, the function it defines by recursion.      *)
LEMMA RankRecursion ==
  ASSUME NEW F, NEW A, NEW V, NEW B, NEW rank, LooksBelow(F, A, V, B, rank)
  PROVE  \E h \in [A -> V] : F[h] = h
<1>0. B \in Nat /\ rank \in [A -> 0..B] /\ F \in [[A -> V] -> [A -> V]] /\ V # {}
  BY DEF LooksBelow
<1> DEFINE S == [A -> V]
           Fs == [k \in 1..(B + 2) |-> F]
<1>1. PICK v \in V : TRUE
  BY <1>0
<1> DEFINE x0 == [a \in A |-> v]
<1>2. x0 \in S
  OBVIOUS
<1>3. Fs \in [1..(B + 2) -> [S -> S]] /\ B + 2 \in Nat
  BY <1>0
<1> HIDE DEF x0
<1>4. PICK g \in [0..(B + 2) -> S] : Iterated(g, B + 2, x0, Fs)
  <2> HIDE DEF S, Fs
  <2> QED
    BY <1>2, <1>3, Iterates
<1>5. \A k \in 0..(B + 1) : g[k + 1] = F[g[k]] /\ g[k] \in S /\ g[k + 1] \in S
  <2> SUFFICES ASSUME NEW k \in 0..(B + 1) PROVE g[k + 1] = F[g[k]] /\ g[k] \in S /\ g[k + 1] \in S
    OBVIOUS
  <2>1. k + 1 \in 1..(B + 2) /\ k + 1 \in 0..(B + 2) /\ k \in 0..(B + 2) /\ (k + 1) - 1 = k /\ k + 1 # 0
    BY <1>0
  <2>2. g[k + 1] = Fs[k + 1][g[(k + 1) - 1]]
    <3> HIDE DEF Fs, S
    <3> QED
      BY <1>4, <2>1 DEF Iterated
  <2>3. Fs[k + 1] = F
    BY <2>1
  <2> HIDE DEF Fs, S
  <2> QED
    BY <2>1, <2>2, <2>3, <1>4
<1> DEFINE K == {k \in Nat : k <= B + 1 => \A a \in A : rank[a] < k => g[k + 1][a] = g[k][a]}
<1>6. 0 \in K
  BY <1>0
<1>7. ASSUME NEW k \in Nat, k \in K PROVE k + 1 \in K
  <2> SUFFICES ASSUME k + 1 <= B + 1, NEW a \in A, rank[a] < k + 1
               PROVE  g[(k + 1) + 1][a] = g[k + 1][a]
    OBVIOUS
  <2>1. k \in 0..(B + 1) /\ k + 1 \in 0..(B + 1) /\ k <= B + 1
    BY <1>0
  <2>2. g[(k + 1) + 1] = F[g[k + 1]] /\ g[k + 1] = F[g[k]] /\ g[k] \in S /\ g[k + 1] \in S
    BY <1>5, <2>1
  <2>3. \A x \in A : rank[x] < rank[a] => g[k + 1][x] = g[k][x]
    <3>1. \A x \in A : rank[x] < rank[a] => rank[x] < k
      BY <1>0
    <3> QED
      BY <1>7, <2>1, <3>1
  <2>4. F[g[k + 1]][a] = F[g[k]][a]
    BY <2>2, <2>3 DEF LooksBelow
  <2> QED
    BY <2>2, <2>4
<1> HIDE DEF K
<1>8. B + 1 \in K
  BY <1>0, <1>6, <1>7, EveryNatural
<1>9. g[(B + 1) + 1] = F[g[B + 1]] /\ g[B + 1] \in S /\ g[(B + 1) + 1] \in S
  <2>1. B + 1 \in 0..(B + 1)
    BY <1>0
  <2> QED
    BY <1>5, <2>1
<1>10. \A a \in A : g[(B + 1) + 1][a] = g[B + 1][a]
  <2>1. \A a \in A : rank[a] < B + 1
    BY <1>0
  <2> QED
    BY <1>8, <2>1 DEF K
<1> DEFINE h == g[B + 1]
           i == g[(B + 1) + 1]
<1> HIDE DEF h, i
<1>11. h \in S /\ i \in S /\ (\A a \in A : i[a] = h[a]) /\ i = F[h]
  BY <1>9, <1>10 DEF h, i
<1>12. i = h
  BY <1>11
<1> QED
  BY <1>11, <1>12
==============================================================================
