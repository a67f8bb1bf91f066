------------------------ MODULE ComponentGraphsProofs ------------------------
(***************************************************************************)
(* What ComponentGraphs keeps for every set of components, instances and   *)
(* objects, whatever they are called and refer to.  Instantiating is three *)
(* loops over a state that only grows: Sound is what holds of that state,  *)
(* Up that nothing is lost from it, and each of the operators from Push to *)
(* CopyInterface is shown to lead up.  The invariant of the graphs then    *)
(* needs no more than where the copies end.  What is written of the graphs *)
(* is a matter of lists: the lines of a declaration are those of the       *)
(* objects it is about (DeclarationFacts).                                 *)
(***************************************************************************)
EXTENDS Declarations, Induction, SequenceTheorems

(* Where every step of a sequence leads up, its last element is above all. *)
LEMMA IteratesGrow ==
  ASSUME NEW S, NEW R, NEW m \in Nat, NEW f \in [0..m -> S],
         \A x \in S : <<x, x>> \in R,
         \A x, y, z \in S : <<x, y>> \in R /\ <<y, z>> \in R => <<x, z>> \in R,
         \A k \in 1..m : <<f[k - 1], f[k]>> \in R
  PROVE  \A j \in 0..m : <<f[j], f[m]>> \in R
<1> DEFINE T == {n \in Nat : n <= m => <<f[m - n], f[m]>> \in R}
<1>1. 0 \in T
  BY m - 0 = m
<1>2. ASSUME NEW n \in Nat, n \in T PROVE n + 1 \in T
  <2> SUFFICES ASSUME n + 1 <= m PROVE <<f[m - (n + 1)], f[m]>> \in R
    OBVIOUS
  <2>1. /\ m - n \in 1..m /\ m - n \in 0..m /\ m - (n + 1) \in 0..m /\ m \in 0..m
        /\ (m - n) - 1 = m - (n + 1)
    OBVIOUS
  <2>2. <<f[m - n], f[m]>> \in R
    BY <1>2
  <2>3. <<f[m - (n + 1)], f[m - n]>> \in R
    BY <2>1
  <2>4. f[m - (n + 1)] \in S /\ f[m - n] \in S /\ f[m] \in S
    BY <2>1
  <2> QED
    BY <2>2, <2>3, <2>4
<1> HIDE DEF T
<1>3. \A n \in Nat : n \in T
  BY <1>1, <1>2, EveryNatural
<1>4. ASSUME NEW j \in 0..m PROVE <<f[j], f[m]>> \in R
  <2>1. m - j \in T /\ m - j <= m /\ m - (m - j) = j
    BY <1>3
  <2> QED
    BY <2>1 DEF T
<1> QED
  BY <1>4

(* What is left when one element of a sequence is removed.                 *)
LEMMA RemoveFacts ==
  ASSUME NEW S, NEW s \in Seq(S), NEW k \in 1..Len(s)
  PROVE  /\ RemoveAt(s, k) \in Seq(S)
         /\ Len(RemoveAt(s, k)) = Len(s) - 1
         /\ \A n \in 1..(Len(s) - 1) : RemoveAt(s, k)[n] = IF n < k THEN s[n] ELSE s[n + 1]
<1> DEFINE a == SubSeq(s, 1, k - 1)
           b == SubSeq(s, k + 1, Len(s))
<1>1. Len(s) \in Nat /\ k \in Nat /\ k >= 1 /\ k <= Len(s) /\ \A n \in 1..Len(s) : s[n] \in S
  BY LenProperties, ElementOfSeq
<1>2. /\ a \in Seq(S) /\ Len(a) = k - 1
      /\ \A n \in 1..(k - 1) : a[n] = s[n]
  <2>1. \A n \in 1..(k - 1) : s[n] \in S
    BY <1>1
  <2>2. /\ a \in Seq(S)
        /\ Len(a) = IF 1 <= k - 1 THEN (k - 1) - 1 + 1 ELSE 0
        /\ \A n \in 1..((k - 1) - 1 + 1) : a[n] = s[1 + n - 1]
    <3>1. 1 \in Int /\ k - 1 \in Int
      BY <1>1
    <3> QED
      BY <2>1, <3>1, SubSeqProperties
  <2> HIDE DEF a
  <2>3. Len(a) = k - 1
    BY <1>1, <2>2
  <2>4. ASSUME NEW n \in 1..(k - 1) PROVE a[n] = s[n]
    <3>1. n \in 1..((k - 1) - 1 + 1) /\ 1 + n - 1 = n
      BY <1>1
    <3> QED
      BY <2>2, <3>1
  <2> QED
    BY <2>2, <2>3, <2>4
<1>3. /\ b \in Seq(S) /\ Len(b) = Len(s) - k
      /\ \A n \in 1..(Len(s) - k) : b[n] = s[k + n]
  <2>1. \A n \in (k + 1)..Len(s) : s[n] \in S
    BY <1>1
  <2>2. /\ b \in Seq(S)
        /\ Len(b) = IF k + 1 <= Len(s) THEN Len(s) - (k + 1) + 1 ELSE 0
        /\ \A n \in 1..(Len(s) - (k + 1) + 1) : b[n] = s[(k + 1) + n - 1]
    <3>1. k + 1 \in Int /\ Len(s) \in Int
      BY <1>1
    <3> QED
      BY <2>1, <3>1, SubSeqProperties
  <2> HIDE DEF b
  <2>3. Len(b) = Len(s) - k
    BY <1>1, <2>2
  <2>4. ASSUME NEW n \in 1..(Len(s) - k) PROVE b[n] = s[k + n]
    <3>1. n \in 1..(Len(s) - (k + 1) + 1) /\ (k + 1) + n - 1 = k + n
      BY <1>1
    <3> QED
      BY <2>2, <3>1
  <2> QED
    BY <2>2, <2>3, <2>4
<1>4. RemoveAt(s, k) = a \o b
  BY DEF RemoveAt
<1> HIDE DEF a, b
<1>5. /\ a \o b \in Seq(S) /\ Len(a \o b) = Len(a) + Len(b)
      /\ \A n \in 1..(Len(a) + Len(b)) : (a \o b)[n] = IF n <= Len(a) THEN a[n] ELSE b[n - Len(a)]
  BY <1>2, <1>3, ConcatProperties
<1>6. ASSUME NEW n \in 1..(Len(s) - 1)
      PROVE  (a \o b)[n] = IF n < k THEN s[n] ELSE s[n + 1]
  <2>1. n \in 1..(Len(a) + Len(b))
    BY <1>1, <1>2, <1>3
  <2>2. (a \o b)[n] = IF n <= Len(a) THEN a[n] ELSE b[n - Len(a)]
    BY <1>5, <2>1
  <2>3. CASE n < k
    <3>1. n \in 1..(k - 1) /\ n <= Len(a)
      BY <1>1, <1>2, <2>3
    <3> QED
      BY <1>2, <2>2, <2>3, <3>1
  <2>4. CASE ~ (n < k)
    <3>1. ~ (n <= Len(a)) /\ n - Len(a) \in 1..(Len(s) - k) /\ k + (n - Len(a)) = n + 1
      BY <1>1, <1>2, <2>4
    <3> QED
      BY <1>3, <2>2, <2>4, <3>1
  <2> QED
    BY <2>3, <2>4
<1> QED
  BY <1>1, <1>2, <1>3, <1>4, <1>5, <1>6

-----------------------------------------------------------------------------
(* Copies of the objects J on instance i, and what the constructor of an   *)
(* instance is at work on.                                                 *)
Copies(i, J) == {i} \X J
State(i, J) ==
  [objs : Seq(Copies(i, J)), map : [Object -> Copies(i, J) \cup {None}],
   refs : [Object -> SUBSET Copies(i, J)], ok : BOOLEAN]

NamesApart(objs) ==
  \A k, l \in 1..Len(objs) : NameOf(objs[k]) = NameOf(objs[l]) => k = l

(* The map and the references of copies lead to copies that are there.     *)
Sound(i, J) ==
  {st \in State(i, J) :
     /\ \A o \in Object : st.map[o] # None => st.map[o] \in Listed(st.objs)
     /\ \A o \in Object : st.refs[o] \subseteq Listed(st.objs)
     /\ st.ok => NamesApart(st.objs)}

(* Copies that are listed stay, and so do entries of the map.              *)
Up(i, J) ==
  {p \in Sound(i, J) \X Sound(i, J) :
     /\ Listed(p[1].objs) \subseteq Listed(p[2].objs)
     /\ \A o \in Object : p[1].map[o] # None => p[2].map[o] # None}

(* Up is reflexive and transitive, and what it says.                       *)
LEMMA UpFacts ==
  ASSUME NEW i, NEW J
  PROVE  /\ \A s \in Sound(i, J) : <<s, s>> \in Up(i, J)
         /\ \A s, t, u \in Sound(i, J) : <<s, t>> \in Up(i, J) /\ <<t, u>> \in Up(i, J) => <<s, u>> \in Up(i, J)
         /\ \A s, t : <<s, t>> \in Up(i, J) =>
              /\ s \in Sound(i, J) /\ t \in Sound(i, J)
              /\ Listed(s.objs) \subseteq Listed(t.objs)
              /\ \A o \in Object : s.map[o] # None => t.map[o] # None
         /\ \A s, t \in Sound(i, J) :
              /\ Listed(s.objs) \subseteq Listed(t.objs)
              /\ \A o \in Object : s.map[o] # None => t.map[o] # None
              => <<s, t>> \in Up(i, J)
BY DEF Up

(* What a sound state is made of, one fact at a time.                      *)
LEMMA SoundFacts ==
  ASSUME NEW i, NEW J, NEW st \in Sound(i, J)
  PROVE  /\ st.objs \in Seq(Copies(i, J)) /\ Len(st.objs) \in Nat
         /\ \A k \in 1..Len(st.objs) : st.objs[k] \in Copies(i, J)
         /\ DOMAIN st.objs = 1..Len(st.objs) /\ ToSet(st.objs) = Listed(st.objs)
         /\ st.map \in [Object -> Copies(i, J) \cup {None}]
         /\ st.refs \in [Object -> SUBSET Copies(i, J)]
         /\ st.ok \in BOOLEAN
         /\ \A o \in Object : st.map[o] # None => st.map[o] \in Listed(st.objs)
         /\ \A o \in Object : st.refs[o] \subseteq Listed(st.objs)
         /\ st.ok => NamesApart(st.objs)
         /\ Listed(st.objs) \subseteq Copies(i, J)
<1>1. st \in State(i, J)
  BY DEF Sound
<1>2. st.objs \in Seq(Copies(i, J))
  BY <1>1 DEF State
<1>3. /\ Len(st.objs) \in Nat /\ DOMAIN st.objs = 1..Len(st.objs)
      /\ \A k \in 1..Len(st.objs) : st.objs[k] \in Copies(i, J)
  BY <1>2, LenProperties, ElementOfSeq
<1>4. ToSet(st.objs) = Listed(st.objs)
  BY <1>3 DEF ToSet, Listed
<1>5. Listed(st.objs) \subseteq Copies(i, J)
  BY <1>3 DEF Listed
<1> QED
  BY <1>1, <1>2, <1>3, <1>4, <1>5 DEF Sound, State

(* A copy has the name and the kind of its original.                       *)
LEMMA CopyNames ==
  ASSUME NEW i, i \in Instance, NEW o \in Object
  PROVE  /\ \A J : o \in J => <<i, o>> \in Copies(i, J)
         /\ <<i, o>> \in Obj /\ <<i, o>> \notin Object
         /\ NameOf(<<i, o>>) = Name[o] /\ KindOf(<<i, o>>) = Kind[o]
         /\ <<i, o>> # None
<1>1. <<i, o>> \in Instance \X Object
  OBVIOUS
<1>2. <<i, o>> \notin Object
  BY <1>1, GraphsAssumption
<1>3. <<i, o>>[2] = o
  OBVIOUS
<1> QED
  BY <1>1, <1>2, <1>3, GraphsAssumption DEF Copies, Obj, NameOf, KindOf, Original

(* Listing a copy that refers to listed copies leads up.                   *)
LEMMA PushSound ==
  ASSUME NEW i \in Instance, NEW J \in SUBSET Object, NEW st \in Sound(i, J), NEW o \in J,
         NEW to, to \subseteq Listed(st.objs)
  PROVE  /\ <<st, Push(i, st, o, to)>> \in Up(i, J)
         /\ <<i, o>> \in Listed(Push(i, st, o, to).objs)
         /\ Push(i, st, o, to).map[o] # None
<1> DEFINE t == Push(i, st, o, to)
           c == <<i, o>>
<1>1. c \in Copies(i, J) /\ NameOf(c) = Name[o] /\ c # None
  BY CopyNames
<1>2. /\ t.objs = Append(st.objs, c)
      /\ t.map = [st.map EXCEPT ![o] = c]
      /\ t.refs = [st.refs EXCEPT ![o] = to]
      /\ t.ok = (st.ok /\ ~ Has(st.objs, Name[o]))
      /\ t = [objs |-> t.objs, map |-> t.map, refs |-> t.refs, ok |-> t.ok]
  BY DEF Push
<1>3. /\ st.objs \in Seq(Copies(i, J))
      /\ DOMAIN st.objs = 1..Len(st.objs)
      /\ st.map \in [Object -> Copies(i, J) \cup {None}]
      /\ st.refs \in [Object -> SUBSET Copies(i, J)]
      /\ st.ok \in BOOLEAN
      /\ \A x \in Object : st.map[x] # None => st.map[x] \in Listed(st.objs)
      /\ \A x \in Object : st.refs[x] \subseteq Listed(st.objs)
      /\ st.ok => NamesApart(st.objs)
      /\ Listed(st.objs) \subseteq Copies(i, J)
  BY SoundFacts
<1> HIDE DEF t, c
<1>4. /\ t.objs \in Seq(Copies(i, J)) /\ Len(t.objs) = Len(st.objs) + 1
      /\ \A k \in 1..Len(st.objs) : t.objs[k] = st.objs[k]
      /\ t.objs[Len(st.objs) + 1] = c
      /\ Len(st.objs) \in Nat
      /\ Listed(t.objs) = Listed(st.objs) \cup {c}
  <2>1. /\ Append(st.objs, c) \in Seq(Copies(i, J))
        /\ Len(Append(st.objs, c)) = Len(st.objs) + 1
        /\ \A k \in 1..Len(st.objs) : Append(st.objs, c)[k] = st.objs[k]
        /\ Append(st.objs, c)[Len(st.objs) + 1] = c
        /\ Len(st.objs) \in Nat
        /\ Listed(Append(st.objs, c)) = Listed(st.objs) \cup {c}
    BY <1>1, <1>3, AppendFacts
  <2> QED
    BY <1>2, <2>1
<1>5. t.map \in [Object -> Copies(i, J) \cup {None}] /\ t.refs \in [Object -> SUBSET Copies(i, J)]
  <2>1. to \in SUBSET Copies(i, J)
    BY <1>3
  <2> QED
    BY <1>1, <1>2, <1>3, <2>1
<1>6. /\ \A x \in Object : t.map[x] = IF x = o THEN c ELSE st.map[x]
      /\ \A x \in Object : t.refs[x] = IF x = o THEN to ELSE st.refs[x]
  BY <1>2, <1>3
<1>7. t.ok \in BOOLEAN /\ (t.ok => NamesApart(t.objs))
  <2>1. t.ok \in BOOLEAN
    BY <1>2, <1>3
  <2>2. ASSUME t.ok, NEW k \in 1..Len(t.objs), NEW l \in 1..Len(t.objs),
               NameOf(t.objs[k]) = NameOf(t.objs[l])
        PROVE  k = l
    <3>1. NamesApart(st.objs) /\ \A n \in 1..Len(st.objs) : NameOf(st.objs[n]) # Name[o]
      BY <1>2, <1>3, <2>2 DEF Has
    <3>2. /\ k \in 1..Len(st.objs) \/ k = Len(st.objs) + 1
          /\ l \in 1..Len(st.objs) \/ l = Len(st.objs) + 1
      BY <1>4
    <3> QED
      BY <1>1, <1>4, <2>2, <3>1, <3>2 DEF NamesApart
  <2> QED
    BY <2>1, <2>2 DEF NamesApart
<1>8. t \in Sound(i, J)
  <2>1. t \in State(i, J)
    BY <1>2, <1>4, <1>5, <1>7 DEF State
  <2>2. \A x \in Object : t.map[x] # None => t.map[x] \in Listed(t.objs)
    BY <1>3, <1>4, <1>6
  <2>3. \A x \in Object : t.refs[x] \subseteq Listed(t.objs)
    BY <1>3, <1>4, <1>6
  <2> QED
    BY <1>7, <2>1, <2>2, <2>3 DEF Sound
<1>9. <<st, t>> \in Up(i, J)
  <2>1. \A x \in Object : st.map[x] # None => t.map[x] # None
    BY <1>1, <1>6
  <2> QED
    BY <1>4, <1>8, <2>1, UpFacts
<1> QED
  BY <1>1, <1>4, <1>6, <1>9 DEF t, c

(* Rebinding one generic leads up and leaves a value in the map.           *)
LEMMA RebindSound ==
  ASSUME NEW i \in Instance, NEW J \in SUBSET Object, NEW st \in Sound(i, J), NEW r \in J
  PROVE  <<st, Rebind(i, st, r)>> \in Up(i, J) /\ Rebind(i, st, r).map[r] # None
<1>1. CASE st.map[r] # None
  BY <1>1, UpFacts DEF Rebind
<1>2. CASE st.map[r] = None /\ Has(st.objs, Name[r])
  <2> DEFINE x == st.objs[CHOOSE k \in DOMAIN st.objs : NameOf(st.objs[k]) = Name[r]]
             t == Rebind(i, st, r)
  <2>1. /\ DOMAIN st.objs = 1..Len(st.objs)
        /\ st.objs \in Seq(Copies(i, J))
        /\ st.map \in [Object -> Copies(i, J) \cup {None}]
        /\ st.refs \in [Object -> SUBSET Copies(i, J)]
        /\ st.ok \in BOOLEAN
        /\ \A o \in Object : st.map[o] # None => st.map[o] \in Listed(st.objs)
        /\ \A o \in Object : st.refs[o] \subseteq Listed(st.objs)
        /\ st.ok => NamesApart(st.objs)
        /\ Listed(st.objs) \subseteq Copies(i, J)
    BY SoundFacts
  <2>2. x \in Listed(st.objs)
    BY <1>2, <2>1 DEF Has, Listed
  <2>3. x \in Copies(i, J) /\ x # None
    BY <2>1, <2>2, GraphsAssumption DEF Copies, Obj
  <2>4. t = [st EXCEPT !.map[r] = x, !.ok = @ /\ KindOf(x) \notin Arrays]
    BY <1>2 DEF Rebind
  <2> HIDE DEF x
  <2>5. st \in State(i, J)
    BY DEF Sound
  <2>6. /\ t.objs = st.objs /\ t.refs = st.refs
        /\ t.map = [st.map EXCEPT ![r] = x]
        /\ t.ok = (st.ok /\ KindOf(x) \notin Arrays)
        /\ t = [objs |-> t.objs, map |-> t.map, refs |-> t.refs, ok |-> t.ok]
    BY <2>4, <2>5 DEF State
  <2> HIDE DEF t
  <2>7. t.map \in [Object -> Copies(i, J) \cup {None}]
    BY <2>1, <2>3, <2>6
  <2>8. \A o \in Object : t.map[o] = IF o = r THEN x ELSE st.map[o]
    BY <2>1, <2>6
  <2>9. t \in State(i, J)
    <3>1. t.ok \in BOOLEAN
      BY <2>1, <2>6
    <3> QED
      BY <2>1, <2>6, <2>7, <3>1 DEF State
  <2>10. t \in Sound(i, J)
    <3>1. \A o \in Object : t.map[o] # None => t.map[o] \in Listed(t.objs)
      BY <2>1, <2>2, <2>6, <2>8
    <3>2. t.ok => NamesApart(t.objs)
      BY <2>1, <2>6
    <3> QED
      BY <2>1, <2>6, <2>9, <3>1, <3>2 DEF Sound
  <2>11. <<st, t>> \in Up(i, J)
    BY <2>3, <2>6, <2>8, <2>10, UpFacts
  <2> QED
    BY <2>3, <2>8, <2>11 DEF t
<1>3. CASE st.map[r] = None /\ ~ Has(st.objs, Name[r])
  <2>1. Rebind(i, st, r) = Push(i, st, r, {})
    BY <1>3 DEF Rebind
  <2>2. <<st, Push(i, st, r, {})>> \in Up(i, J) /\ Push(i, st, r, {}).map[r] # None
    <3>1. {} \subseteq Listed(st.objs)
      OBVIOUS
    <3> QED
      BY <3>1, PushSound
  <2> QED
    BY <2>1, <2>2
<1> QED
  BY <1>1, <1>2, <1>3

(* So does rebinding any number of them, none losing its value.            *)
LEMMA RebindAllSound ==
  ASSUME NEW i \in Instance, NEW J \in SUBSET Object, NEW st \in Sound(i, J), NEW nodes \in Seq(J)
  PROVE  /\ <<st, ImplicitlyRebindNodes(i, st, nodes)>> \in Up(i, J)
         /\ \A k \in 1..Len(nodes) : ImplicitlyRebindNodes(i, st, nodes).map[nodes[k]] # None
<1> DEFINE m == Len(nodes)
           Is(f) == f = [k \in 0..Len(nodes) |-> IF k = 0 THEN st ELSE Rebind(i, f[k - 1], nodes[k])]
           b == CHOOSE f : Is(f)
           F == [k \in 1..m |-> [s \in Sound(i, J) |-> Rebind(i, s, nodes[k])]]
<1>1. m \in Nat /\ \A k \in 1..m : nodes[k] \in J /\ nodes[k] \in Object
  BY LenProperties, ElementOfSeq
<1>2. F \in [1..m -> [Sound(i, J) -> Sound(i, J)]]
  <2>1. \A k \in 1..m : \A s \in Sound(i, J) : Rebind(i, s, nodes[k]) \in Sound(i, J)
    BY <1>1, RebindSound, UpFacts
  <2> QED
    BY <2>1
<1>3. PICK f \in [0..m -> Sound(i, J)] : f = [k \in 0..m |-> IF k = 0 THEN st ELSE F[k][f[k - 1]]]
  <2> HIDE DEF F, m
  <2>1. \E f \in [0..m -> Sound(i, J)] : Iterated(f, m, st, F)
    BY <1>1, <1>2, Iterates
  <2> QED
    BY <2>1 DEF Iterated
<1>4. ASSUME NEW k \in 0..m
      PROVE  f[k] = IF k = 0 THEN st ELSE Rebind(i, f[k - 1], nodes[k])
  <2>1. f[k] = IF k = 0 THEN st ELSE F[k][f[k - 1]]
    BY <1>3
  <2>2. k # 0 => k - 1 \in 0..m /\ k \in 1..m
    BY <1>1
  <2>3. k # 0 => f[k - 1] \in Sound(i, J)
    BY <2>2
  <2>4. k # 0 => F[k][f[k - 1]] = Rebind(i, f[k - 1], nodes[k])
    BY <2>2, <2>3
  <2> HIDE DEF F
  <2>5. CASE k = 0
    BY <2>1, <2>5
  <2>6. CASE k # 0
    BY <2>1, <2>4, <2>6
  <2> QED
    BY <2>5, <2>6
<1>5. Is(f)
  BY <1>3, <1>4
<1>6. Is(b)
  BY <1>5
<1>7. ImplicitlyRebindNodes(i, st, nodes) = b[m]
  BY DEF ImplicitlyRebindNodes
<1> HIDE DEF b, F
<1>8. \A k \in 0..m : b[k] = IF k = 0 THEN st ELSE Rebind(i, b[k - 1], nodes[k])
  BY <1>6
<1>9. b = [k \in 0..m |-> b[k]]
  BY <1>6
<1> HIDE DEF m, Is
<1>10. b[0] = st /\ 0 \in 0..m /\ m \in 0..m
  BY <1>1, <1>8
<1>11. b \in [0..m -> Sound(i, J)]
  <2>1. ASSUME NEW k \in 1..m, b[k - 1] \in Sound(i, J) PROVE b[k] \in Sound(i, J)
    <3>1. k \in 0..m /\ k # 0 /\ nodes[k] \in J
      BY <1>1
    <3>2. b[k] = Rebind(i, b[k - 1], nodes[k])
      BY <1>8, <3>1
    <3> QED
      BY <2>1, <3>1, <3>2, RebindSound, UpFacts
  <2>2. b[0] \in Sound(i, J) /\ \A k \in 1..m : b[k - 1] \in Sound(i, J) => b[k] \in Sound(i, J)
    BY <1>10, <2>1
  <2> QED
    BY ONLY <1>1, <1>9, <2>2, StaysIn
<1>12. ASSUME NEW k \in 1..m
       PROVE  <<b[k - 1], b[k]>> \in Up(i, J) /\ b[k].map[nodes[k]] # None
  <2>1. k \in 0..m /\ k # 0 /\ k - 1 \in 0..m
    BY <1>1
  <2>2. b[k] = Rebind(i, b[k - 1], nodes[k]) /\ b[k - 1] \in Sound(i, J)
    BY <1>8, <1>11, <2>1
  <2>3. nodes[k] \in J
    BY <1>1
  <2> QED
    BY <2>2, <2>3, RebindSound
<1>13. \A j \in 0..m : <<b[j], b[m]>> \in Up(i, J)
  <2>1. /\ \A x \in Sound(i, J) : <<x, x>> \in Up(i, J)
        /\ \A x, y, z \in Sound(i, J) : <<x, y>> \in Up(i, J) /\ <<y, z>> \in Up(i, J) => <<x, z>> \in Up(i, J)
    BY UpFacts
  <2>2. \A k \in 1..m : <<b[k - 1], b[k]>> \in Up(i, J)
    BY <1>12
  <2> QED
    BY ONLY <1>1, <1>11, <2>1, <2>2, IteratesGrow
<1>14. <<st, b[m]>> \in Up(i, J)
  BY <1>10, <1>13
<1>15. ASSUME NEW k \in 1..m PROVE b[m].map[nodes[k]] # None
  <2>1. k \in 0..m /\ nodes[k] \in Object
    BY <1>1
  <2>2. b[k].map[nodes[k]] # None
    BY <1>12
  <2>3. <<b[k], b[m]>> \in Up(i, J)
    BY <1>13, <2>1
  <2> QED
    BY <2>1, <2>2, <2>3, UpFacts
<1> QED
  BY <1>7, <1>14, <1>15 DEF m

(* A copy is listed, and what it refers to was listed before it.           *)
LEMMA CopyOntoSound ==
  ASSUME NEW i \in Instance, NEW J \in SUBSET Object, NEW st \in Sound(i, J), NEW o \in J, refs[o] \in SUBSET J
  PROVE  /\ <<st, CopyOnto(i, st, o)>> \in Up(i, J)
         /\ <<i, o>> \in Listed(CopyOnto(i, st, o).objs)
<1> DEFINE sized == [st EXCEPT !.ok = @ /\ (Size[o] # None => st.map[Size[o]] # None)]
           nodes == SetToSeq(refs[o])
           bound == ImplicitlyRebindNodes(i, sized, nodes)
           to == {bound.map[r] : r \in refs[o]}
<1>1. CopyOnto(i, st, o) = Push(i, bound, o, to)
  BY DEF CopyOnto
<1>2. IsFiniteSet(refs[o])
  BY GraphsAssumption, FS_Subset
<1>3. /\ nodes \in Seq(refs[o])
      /\ \A x \in refs[o] : \E k \in 1..Len(nodes) : nodes[k] = x
  BY <1>2, ListOfSet
<1>4. nodes \in Seq(J)
  BY <1>3, SeqMonotonic
<1>5. sized \in Sound(i, J) /\ <<st, sized>> \in Up(i, J)
  <2>1. st \in State(i, J)
    BY DEF Sound
  <2>2. /\ sized.objs = st.objs /\ sized.map = st.map /\ sized.refs = st.refs
        /\ sized.ok = (st.ok /\ (Size[o] # None => st.map[Size[o]] # None))
        /\ sized \in State(i, J)
    BY <2>1 DEF State
  <2> HIDE DEF sized
  <2>3. sized \in Sound(i, J)
    BY <2>2 DEF Sound
  <2> QED
    BY <2>2, <2>3, UpFacts
<1> HIDE DEF sized, nodes
<1>6. <<sized, bound>> \in Up(i, J) /\ \A k \in 1..Len(nodes) : bound.map[nodes[k]] # None
  BY <1>4, <1>5, RebindAllSound
<1> HIDE DEF bound
<1>7. bound \in Sound(i, J)
  BY <1>6, UpFacts
<1>8. to \subseteq Listed(bound.objs)
  <2>1. \A r \in refs[o] : bound.map[r] # None /\ r \in Object
    BY <1>3, <1>6
  <2>2. \A r \in Object : bound.map[r] # None => bound.map[r] \in Listed(bound.objs)
    BY <1>7, SoundFacts
  <2> QED
    BY <2>1, <2>2
<1> HIDE DEF to
<1>9. /\ <<bound, Push(i, bound, o, to)>> \in Up(i, J)
      /\ <<i, o>> \in Listed(Push(i, bound, o, to).objs)
  BY <1>7, <1>8, PushSound
<1>10. <<st, Push(i, bound, o, to)>> \in Up(i, J)
  BY <1>5, <1>6, <1>9, UpFacts
<1> QED
  BY <1>1, <1>9, <1>10

(* One loop of the constructor copies all objects of its kind.             *)
LEMMA CopyKindSound ==
  ASSUME NEW i \in Instance, NEW J \in SUBSET Object, NEW st \in Sound(i, J),
         NEW objs \in Seq(Object), NEW kind,
         \A k \in 1..Len(objs) : KindOf(objs[k]) = kind => objs[k] \in J /\ refs[objs[k]] \in SUBSET J
  PROVE  /\ <<st, CopyKind(i, st, objs, kind)>> \in Up(i, J)
         /\ \A k \in 1..Len(objs) :
              KindOf(objs[k]) = kind => <<i, objs[k]>> \in Listed(CopyKind(i, st, objs, kind).objs)
<1> DEFINE Step(s, x) == IF KindOf(x) = kind THEN CopyOnto(i, s, x) ELSE s
           m == Len(objs)
           Is(f) == f = [k \in 0..Len(objs) |-> IF k = 0 THEN st ELSE Step(f[k - 1], objs[k])]
           b == CHOOSE f : Is(f)
           F == [k \in 1..m |-> [s \in Sound(i, J) |-> Step(s, objs[k])]]
<1>0. \A s \in Sound(i, J), k \in 1..m :
        /\ <<s, Step(s, objs[k])>> \in Up(i, J)
        /\ KindOf(objs[k]) = kind => <<i, objs[k]>> \in Listed(Step(s, objs[k]).objs)
  <2>1. \A k \in 1..m : KindOf(objs[k]) = kind => objs[k] \in J /\ refs[objs[k]] \in SUBSET J
    OBVIOUS
  <2> QED
    BY <2>1, CopyOntoSound, UpFacts
<1>1. m \in Nat /\ \A k \in 1..m : objs[k] \in Object
  BY LenProperties, ElementOfSeq
<1>2. F \in [1..m -> [Sound(i, J) -> Sound(i, J)]]
  <2>1. \A k \in 1..m : \A s \in Sound(i, J) : Step(s, objs[k]) \in Sound(i, J)
    BY <1>1, <1>0, UpFacts
  <2> QED
    BY <2>1
<1>3. PICK f \in [0..m -> Sound(i, J)] : f = [k \in 0..m |-> IF k = 0 THEN st ELSE F[k][f[k - 1]]]
  <2> HIDE DEF F, m
  <2>1. \E f \in [0..m -> Sound(i, J)] : Iterated(f, m, st, F)
    BY <1>1, <1>2, Iterates
  <2> QED
    BY <2>1 DEF Iterated
<1>4. ASSUME NEW k \in 0..m
      PROVE  f[k] = IF k = 0 THEN st ELSE Step(f[k - 1], objs[k])
  <2>1. f[k] = IF k = 0 THEN st ELSE F[k][f[k - 1]]
    BY <1>3
  <2>2. k # 0 => k - 1 \in 0..m /\ k \in 1..m
    BY <1>1
  <2>3. k # 0 => f[k - 1] \in Sound(i, J)
    BY <2>2
  <2>4. k # 0 => F[k][f[k - 1]] = Step(f[k - 1], objs[k])
    BY <2>2, <2>3
  <2> HIDE DEF F
  <2>5. CASE k = 0
    BY <2>1, <2>5
  <2>6. CASE k # 0
    BY <2>1, <2>4, <2>6
  <2> QED
    BY <2>5, <2>6
<1>5. Is(f)
  BY <1>3, <1>4
<1>6. Is(b)
  BY <1>5
<1>7. CopyKind(i, st, objs, kind) = b[m]
  BY DEF CopyKind
<1> HIDE DEF b, F, Step
<1>8. \A k \in 0..m : b[k] = IF k = 0 THEN st ELSE Step(b[k - 1], objs[k])
  BY <1>6
<1>9. b = [k \in 0..m |-> b[k]]
  BY <1>6
<1> HIDE DEF m, Is
<1>10. b[0] = st /\ 0 \in 0..m /\ m \in 0..m
  BY <1>1, <1>8
<1>11. b \in [0..m -> Sound(i, J)]
  <2>1. ASSUME NEW k \in 1..m, b[k - 1] \in Sound(i, J) PROVE b[k] \in Sound(i, J)
    <3>1. k \in 0..m /\ k # 0 /\ objs[k] \in Object
      BY <1>1
    <3>2. b[k] = Step(b[k - 1], objs[k])
      BY <1>8, <3>1
    <3> QED
      BY <2>1, <3>1, <3>2, <1>0, UpFacts
  <2>2. b[0] \in Sound(i, J) /\ \A k \in 1..m : b[k - 1] \in Sound(i, J) => b[k] \in Sound(i, J)
    BY <1>10, <2>1
  <2> QED
    BY ONLY <1>1, <1>9, <2>2, StaysIn
<1>12. ASSUME NEW k \in 1..m
       PROVE  <<b[k - 1], b[k]>> \in Up(i, J) /\ (KindOf(objs[k]) = kind => <<i, objs[k]>> \in Listed(b[k].objs))
  <2>1. k \in 0..m /\ k # 0 /\ k - 1 \in 0..m
    BY <1>1
  <2>2. b[k] = Step(b[k - 1], objs[k]) /\ b[k - 1] \in Sound(i, J)
    BY <1>8, <1>11, <2>1
  <2>3. objs[k] \in Object
    BY <1>1
  <2> QED
    BY <2>2, <2>3, <1>0
<1>13. \A j \in 0..m : <<b[j], b[m]>> \in Up(i, J)
  <2>1. /\ \A x \in Sound(i, J) : <<x, x>> \in Up(i, J)
        /\ \A x, y, z \in Sound(i, J) : <<x, y>> \in Up(i, J) /\ <<y, z>> \in Up(i, J) => <<x, z>> \in Up(i, J)
    BY UpFacts
  <2>2. \A k \in 1..m : <<b[k - 1], b[k]>> \in Up(i, J)
    BY <1>12
  <2> QED
    BY ONLY <1>1, <1>11, <2>1, <2>2, IteratesGrow
<1>14. <<st, b[m]>> \in Up(i, J)
  BY <1>10, <1>13
<1>15. ASSUME NEW k \in 1..m PROVE (KindOf(objs[k]) = kind => <<i, objs[k]>> \in Listed(b[m].objs))
  <2>1. k \in 0..m /\ objs[k] \in Object
    BY <1>1
  <2>2. (KindOf(objs[k]) = kind => <<i, objs[k]>> \in Listed(b[k].objs))
    BY <1>12
  <2>3. <<b[k], b[m]>> \in Up(i, J)
    BY <1>13, <2>1
  <2> QED
    BY <2>1, <2>2, <2>3, UpFacts
<1> QED
  BY <1>7, <1>14, <1>15 DEF m

(* The constructor of an instance copies the interface.                    *)
LEMMA CopyInterfaceSound ==
  ASSUME NEW i \in Instance, NEW J \in SUBSET Object, NEW objs \in Seq(Object),
         \A k \in 1..Len(objs) :
           KindOf(objs[k]) \in Interface => objs[k] \in J /\ refs[objs[k]] \in SUBSET J
  PROVE  /\ CopyInterface(i, objs) \in Sound(i, J)
         /\ \A k \in 1..Len(objs) :
              KindOf(objs[k]) \in Interface => <<i, objs[k]>> \in Listed(CopyInterface(i, objs).objs)
<1> DEFINE a == CopyKind(i, Blank, objs, "parameter")
           b == CopyKind(i, a, objs, "port")
           c == CopyKind(i, b, objs, "port_array")
<1>1. Blank \in Sound(i, J)
  <2>1. Blank \in State(i, J)
    BY EmptySeq DEF Blank, State
  <2>2. Len(Blank.objs) = 0 /\ \A o \in Object : Blank.map[o] = None /\ Blank.refs[o] = {}
    BY DEF Blank
  <2> QED
    BY <2>1, <2>2 DEF Sound, NamesApart
<1> HIDE DEF a, b, c
<1>0. \A kind \in {"parameter", "port", "port_array"} : \A k \in 1..Len(objs) :
        KindOf(objs[k]) = kind => objs[k] \in J /\ refs[objs[k]] \in SUBSET J
  BY DEF Interface
<1>2. /\ <<Blank, a>> \in Up(i, J)
      /\ \A k \in 1..Len(objs) : KindOf(objs[k]) = "parameter" => <<i, objs[k]>> \in Listed(a.objs)
  BY <1>0, <1>1, CopyKindSound DEF a
<1>3. a \in Sound(i, J)
  BY <1>2, UpFacts
<1>4. /\ <<a, b>> \in Up(i, J)
      /\ \A k \in 1..Len(objs) : KindOf(objs[k]) = "port" => <<i, objs[k]>> \in Listed(b.objs)
  BY <1>0, <1>3, CopyKindSound DEF b
<1>5. b \in Sound(i, J)
  BY <1>4, UpFacts
<1>6. /\ <<b, c>> \in Up(i, J)
      /\ \A k \in 1..Len(objs) : KindOf(objs[k]) = "port_array" => <<i, objs[k]>> \in Listed(c.objs)
  BY <1>0, <1>5, CopyKindSound DEF c
<1>7. c \in Sound(i, J) /\ Listed(a.objs) \subseteq Listed(b.objs) /\ Listed(b.objs) \subseteq Listed(c.objs)
  BY <1>4, <1>6, UpFacts
<1>8. \A k \in 1..Len(objs) : KindOf(objs[k]) \in Interface => <<i, objs[k]>> \in Listed(c.objs)
  BY <1>2, <1>4, <1>6, <1>7 DEF Interface
<1>9. CopyInterface(i, objs) = c
  BY DEF CopyInterface, a, b, c
<1> QED
  BY <1>7, <1>8, <1>9

-----------------------------------------------------------------------------
(* Objects keep their references, copies belong to their instance or to no *)
(* graph, nothing is on an instance before it is made, and a component with*)
(* an instance is marked.                                                  *)
Owner ==
  /\ \A o \in Object : refs[o] = Refs[o]
  /\ \A i \in Instance, o \in Object : parent[<<i, o>>] \in {None, i}
  /\ \A i \in Instance : of[i] = None =>
       objects[i] = << >> /\ \A o \in Object : parent[<<i, o>>] = None
  /\ \A i \in Instance : of[i] # None => of[i] \in marked
(* The parts of the invariant that the properties state, over indices; the *)
(* references of a copy are mapped from when it is made, listed or not.    *)
OnOwner ==
  \A g \in Graph : \A k \in 1..Len(objects[g]) : parent[objects[g][k]] = g
NamesOnce == \A g \in Graph : NamesApart(objects[g])
RefsLocal ==
  \A i \in Instance : \A k \in 1..Len(objects[i]) : \A r \in refs[objects[i][k]] : parent[r] = i
RefsMapped ==
  \A i \in Instance, o \in Object : parent[<<i, o>>] # None =>
    \A r \in refs[<<i, o>>] : KindOf(r) = "parameter" => r \in mapped

(* What an instance of c has copies of: the interface of c, and the        *)
(* parameters this refers to, which need not be on c.                      *)
Copied(c) ==
  {o \in Object : \E k \in 1..Len(objects[c]) :
     KindOf(objects[c][k]) \in Interface /\ (o = objects[c][k] \/ o \in Refs[objects[c][k]])}
OnlyCopied == \A i \in Instance, o \in Object : parent[<<i, o>>] # None => o \in Copied(of[i])

GraphsInv ==
  /\ GraphsTypeOK /\ Owner /\ OnOwner /\ NamesOnce
  /\ RefsLocal /\ RefsMapped /\ OnlyCopied

(* An object is one of the client's or a copy, never both.                 *)
LEMMA ObjKinds ==
  /\ \A x \in Obj : x \in Object \/ \E i \in Instance, o \in Object : x = <<i, o>>
  /\ \A i \in Instance, o \in Object : <<i, o>> \in Obj /\ <<i, o>> \notin Object
  /\ None \notin Obj /\ None \notin Graph
  /\ \A c \in Component : c \in Graph /\ c \notin Instance
  /\ \A i \in Instance : i \in Graph
<1>1. \A i \in Instance, o \in Object : <<i, o>> \in Obj /\ <<i, o>> \notin Object
  BY CopyNames
<1> QED
  BY <1>1, GraphsAssumption DEF Obj, Graph

(* The list of objects of a graph.                                         *)
LEMMA GraphObjects ==
  ASSUME GraphsTypeOK, NEW g \in Graph
  PROVE  /\ objects[g] \in Seq(Obj) /\ Len(objects[g]) \in Nat
         /\ DOMAIN objects[g] = 1..Len(objects[g])
         /\ \A k \in 1..Len(objects[g]) : objects[g][k] \in Obj
         /\ ToSet(objects[g]) = Listed(objects[g])
<1>1. objects[g] \in Seq(Obj)
  BY DEF GraphsTypeOK
<1>2. /\ Len(objects[g]) \in Nat /\ DOMAIN objects[g] = 1..Len(objects[g])
      /\ \A k \in 1..Len(objects[g]) : objects[g][k] \in Obj
  BY <1>1, LenProperties, ElementOfSeq
<1> QED
  BY <1>1, <1>2 DEF ToSet, Listed

(* No copy is ever on a component: its parent is its instance.             *)
LEMMA OnComponent ==
  ASSUME GraphsInv, NEW c \in Component, NEW k \in 1..Len(objects[c])
  PROVE  objects[c][k] \in Object
<1>1. c \in Graph /\ c \notin Instance /\ c # None
  BY ObjKinds
<1>2. parent[objects[c][k]] = c /\ objects[c][k] \in Obj
  BY <1>1, GraphObjects DEF GraphsInv, OnOwner
<1> QED
  BY <1>1, <1>2, ObjKinds DEF GraphsInv, Owner

(* The invariant holds when nothing is on any graph.                       *)
LEMMA GraphsInvInit == GraphsInit => GraphsInv
<1> SUFFICES ASSUME GraphsInit PROVE GraphsInv
  OBVIOUS
<1>1. /\ \A g \in Graph : objects[g] = << >> /\ Len(objects[g]) = 0
      /\ \A x \in Obj : parent[x] = None
      /\ \A i \in Instance : of[i] = None
      /\ Component \cup Instance = Graph
  BY DEF GraphsInit, Graph
<1>2. GraphsTypeOK
  <2>1. objects \in [Graph -> Seq(Obj)]
    BY EmptySeq DEF GraphsInit
  <2>2. refs \in [Obj -> SUBSET Obj]
    BY GraphsAssumption DEF GraphsInit, Obj
  <2> QED
    BY <2>1, <2>2 DEF GraphsInit, GraphsTypeOK
<1>3. Owner
  <2>1. \A o \in Object : refs[o] = Refs[o]
    BY DEF GraphsInit, Obj
  <2> QED
    BY <1>1, <2>1, ObjKinds DEF Owner
<1>4. OnOwner /\ NamesOnce /\ RefsLocal
  <2>1. \A g \in Graph : 1..Len(objects[g]) = {}
    BY <1>1
  <2> QED
    BY <1>1, <2>1, ObjKinds DEF OnOwner, NamesOnce, NamesApart, RefsLocal
<1>5. RefsMapped /\ OnlyCopied
  BY <1>1, ObjKinds DEF RefsMapped, OnlyCopied
<1> QED
  BY <1>2, <1>3, <1>4, <1>5 DEF GraphsInv

(* Adding: the parent of an object that has one does not change, and an    *)
(* interface object joins a component without instances only.              *)
LEMMA AddKeeps ==
  ASSUME GraphsInv, NEW g \in Graph, NEW x \in Obj, AddObject(g, x)
  PROVE  GraphsInv'
<1> USE DEF GraphsInv
<1>1. /\ objects' = [objects EXCEPT ![g] = Append(@, x)]
      /\ parent' = [parent EXCEPT ![x] = g]
      /\ refs' = refs /\ marked' = marked /\ of' = of /\ mapped' = mapped
      /\ parent[x] \in {None, g} /\ Exists(x) /\ Made(g)
      /\ ~ Has(objects[g], NameOf(x))
      /\ \A r \in refs[x] : parent[r] = g
      /\ g \in Component => Mutable(g, x)
  BY DEF AddObject
<1>2. /\ \A y \in Obj : parent'[y] = IF y = x THEN g ELSE parent[y]
      /\ \A y \in Obj : parent[y] # None => parent'[y] = parent[y]
      /\ g # None /\ parent' \in [Obj -> Graph \cup {None}]
  BY <1>1, ObjKinds DEF GraphsTypeOK
<1>3. /\ \A h \in Graph : h # g => objects'[h] = objects[h]
      /\ objects'[g] \in Seq(Obj)
      /\ Len(objects'[g]) = Len(objects[g]) + 1
      /\ \A k \in 1..Len(objects[g]) : objects'[g][k] = objects[g][k]
      /\ objects'[g][Len(objects[g]) + 1] = x
      /\ Len(objects[g]) \in Nat
  <2>1. objects \in [Graph -> Seq(Obj)] /\ objects[g] \in Seq(Obj)
    BY DEF GraphsTypeOK
  <2>2. objects'[g] = Append(objects[g], x) /\ \A h \in Graph : h # g => objects'[h] = objects[h]
    BY <1>1, <2>1
  <2>3. /\ Append(objects[g], x) \in Seq(Obj)
        /\ Len(Append(objects[g], x)) = Len(objects[g]) + 1
        /\ \A k \in 1..Len(objects[g]) : Append(objects[g], x)[k] = objects[g][k]
        /\ Append(objects[g], x)[Len(objects[g]) + 1] = x
        /\ Len(objects[g]) \in Nat
    BY <2>1, AppendFacts
  <2> QED
    BY <2>2, <2>3
<1>4. \A k \in 1..Len(objects'[g]) : k \in 1..Len(objects[g]) \/ k = Len(objects[g]) + 1
  BY <1>3
<1>5. GraphsTypeOK'
  <2>1. objects' \in [Graph -> Seq(Obj)]
    BY <1>1, <1>3 DEF GraphsTypeOK
  <2> QED
    BY <1>1, <1>2, <2>1 DEF GraphsTypeOK
<1>6. \A i \in Instance, o \in Object : <<i, o>> = x => g = i /\ parent[x] = i
  BY <1>1, ObjKinds DEF Owner, Exists
<1>7. Owner'
  <2>1. ASSUME NEW i \in Instance, NEW o \in Object PROVE parent'[<<i, o>>] \in {None, i}
    <3>1. <<i, o>> \in Obj /\ parent[<<i, o>>] \in {None, i}
      BY ObjKinds DEF Owner
    <3> QED
      BY <1>2, <1>6, <3>1
  <2>2. ASSUME NEW i \in Instance, of[i] = None
        PROVE  objects'[i] = << >> /\ \A o \in Object : parent'[<<i, o>>] = None
    <3>1. i # g /\ i \in Graph
      BY <1>1, <2>2, ObjKinds DEF Made
    <3> QED
      BY <1>2, <1>3, <1>6, <2>2, <3>1, ObjKinds DEF Owner
  <2> QED
    BY <1>1, <2>1, <2>2 DEF Owner
<1>8. OnOwner'
  <2>1. ASSUME NEW h \in Graph, NEW k \in 1..Len(objects'[h]) PROVE parent'[objects'[h][k]] = h
    <3>1. CASE h # g
      <4>1. k \in 1..Len(objects[h]) /\ objects'[h][k] = objects[h][k]
        BY <1>3, <3>1
      <4>2. objects[h][k] \in Obj /\ parent[objects[h][k]] = h
        BY <4>1, GraphObjects DEF OnOwner
      <4> QED
        BY <1>2, <4>1, <4>2, ObjKinds
    <3>2. CASE h = g /\ k \in 1..Len(objects[g])
      <4>1. objects[g][k] \in Obj /\ parent[objects[g][k]] = g
        BY <3>2, GraphObjects DEF OnOwner
      <4> QED
        BY <1>2, <1>3, <3>2, <4>1
    <3>3. CASE h = g /\ k = Len(objects[g]) + 1
      BY <1>2, <1>3, <3>3
    <3> QED
      BY <1>4, <3>1, <3>2, <3>3
  <2> QED
    BY <2>1 DEF OnOwner
<1>9. NamesOnce'
  <2>1. ASSUME NEW h \in Graph, NEW k \in 1..Len(objects'[h]), NEW l \in 1..Len(objects'[h]),
               NameOf(objects'[h][k]) = NameOf(objects'[h][l])
        PROVE  k = l
    <3>1. CASE h # g
      BY <1>3, <2>1, <3>1 DEF NamesOnce, NamesApart
    <3>2. CASE h = g
      <4>1. \A n \in 1..Len(objects[g]) : NameOf(objects[g][n]) # NameOf(x)
        BY <1>1, GraphObjects DEF Has
      <4>2. /\ k \in 1..Len(objects[g]) \/ k = Len(objects[g]) + 1
            /\ l \in 1..Len(objects[g]) \/ l = Len(objects[g]) + 1
        BY <1>4, <3>2
      <4> QED
        BY <1>3, <2>1, <3>2, <4>1, <4>2 DEF NamesOnce, NamesApart
    <3> QED
      BY <3>1, <3>2
  <2> QED
    BY <2>1 DEF NamesOnce, NamesApart
<1>11. RefsLocal'
  <2>1. ASSUME NEW i \in Instance, NEW k \in 1..Len(objects'[i]), NEW r \in refs[objects'[i][k]]
        PROVE  parent'[r] = i
    <3>1. i \in Graph /\ i # None
      BY ObjKinds
    <3>2. /\ objects'[i][k] \in Obj
          /\ parent[r] = i
      <4>1. CASE i = g /\ k = Len(objects[g]) + 1
        BY <1>1, <1>3, <2>1, <4>1
      <4>2. CASE i = g /\ k \in 1..Len(objects[g])
        <5>1. objects'[i][k] = objects[i][k]
          BY <1>3, <4>2
        <5> QED
          BY <2>1, <3>1, <4>2, <5>1, GraphObjects DEF RefsLocal
      <4>3. CASE i # g
        <5>1. objects'[i] = objects[i]
          BY <1>3, <3>1, <4>3
        <5> QED
          BY <2>1, <3>1, <5>1, GraphObjects DEF RefsLocal
      <4> QED
        BY <1>4, <4>1, <4>2, <4>3
    <3>3. r \in Obj
      BY <2>1, <3>2 DEF GraphsTypeOK
    <3> QED
      BY <1>2, <3>1, <3>2, <3>3
  <2> QED
    BY <1>1, <2>1 DEF RefsLocal
<1>12. RefsMapped'
  BY <1>1, <1>2, <1>6, ObjKinds DEF RefsMapped
<1>13. OnlyCopied'
  <2>1. ASSUME NEW c \in Component PROVE Copied(c) \subseteq Copied(c)'
    <3>1. c \in Graph /\ Len(objects'[c]) \in Nat
      BY <1>3, ObjKinds, GraphObjects
    <3>2. \A k \in 1..Len(objects[c]) : k \in 1..Len(objects'[c]) /\ objects'[c][k] = objects[c][k]
      BY <1>3, <3>1
    <3> QED
      BY <3>2 DEF Copied
  <2>2. ASSUME NEW i \in Instance, NEW o \in Object, parent'[<<i, o>>] # None
        PROVE  o \in Copied(of[i])'
    <3>1. parent[<<i, o>>] # None
      BY <1>2, <1>6, <2>2, ObjKinds
    <3>2. of[i] \in Component /\ o \in Copied(of[i])
      BY <3>1 DEF OnlyCopied, Owner, GraphsTypeOK
    <3>3. PICK c \in Component : c = of[i] /\ c = of'[i]
      BY <1>1, <3>2
    <3>4. o \in Copied(c)'
      BY <2>1, <3>2, <3>3
    <3> QED
      BY <3>3, <3>4 DEF Copied
  <2> QED
    BY <2>2 DEF OnlyCopied
<1> QED
  BY <1>5, <1>7, <1>8, <1>9, <1>11, <1>12, <1>13

(* Removing: every entry was there before, at its index or the next one.   *)
LEMMA RemoveKeeps ==
  ASSUME GraphsInv, NEW g \in Graph, NEW x \in Obj, RemoveObject(g, x)
  PROVE  GraphsInv'
<1> USE DEF GraphsInv
<1>1. PICK n \in 1..Len(objects[g]) :
        objects[g][n] = x /\ objects' = [objects EXCEPT ![g] = RemoveAt(@, n)]
  BY GraphObjects DEF RemoveObject
<1>2. parent' = parent /\ refs' = refs /\ marked' = marked /\ of' = of /\ mapped' = mapped
  BY DEF RemoveObject
<1>14. Mutable(g, x)
  BY DEF RemoveObject
<1>3. /\ \A h \in Graph : h # g => objects'[h] = objects[h]
      /\ objects'[g] \in Seq(Obj)
      /\ Len(objects'[g]) = Len(objects[g]) - 1
      /\ \A k \in 1..(Len(objects[g]) - 1) :
           objects'[g][k] = IF k < n THEN objects[g][k] ELSE objects[g][k + 1]
      /\ Len(objects[g]) \in Nat
  <2>1. objects \in [Graph -> Seq(Obj)] /\ objects[g] \in Seq(Obj) /\ Len(objects[g]) \in Nat
    BY GraphObjects DEF GraphsTypeOK
  <2>2. objects'[g] = RemoveAt(objects[g], n) /\ \A h \in Graph : h # g => objects'[h] = objects[h]
    BY <1>1, <2>1
  <2>3. /\ RemoveAt(objects[g], n) \in Seq(Obj)
        /\ Len(RemoveAt(objects[g], n)) = Len(objects[g]) - 1
        /\ \A k \in 1..(Len(objects[g]) - 1) :
             RemoveAt(objects[g], n)[k] = IF k < n THEN objects[g][k] ELSE objects[g][k + 1]
    BY <2>1, RemoveFacts
  <2> QED
    BY <2>1, <2>2, <2>3
<1> DEFINE old(h, k) == IF h = g /\ k >= n THEN k + 1 ELSE k
<1>4. ASSUME NEW h \in Graph, NEW k \in 1..Len(objects'[h])
      PROVE  /\ old(h, k) \in 1..Len(objects[h])
             /\ objects'[h][k] = objects[h][old(h, k)]
  <2>1. CASE h # g
    BY <1>3, <2>1
  <2>2. CASE h = g
    <3>1. k \in 1..(Len(objects[g]) - 1)
      BY <1>3, <2>2
    <3>2. objects'[g][k] = IF k < n THEN objects[g][k] ELSE objects[g][k + 1]
      BY <1>3, <3>1
    <3> QED
      BY <1>3, <2>2, <3>1, <3>2
  <2> QED
    BY <2>1, <2>2
<1>5. \A h \in Graph : \A k, l \in 1..Len(objects'[h]) : old(h, k) = old(h, l) => k = l
  <2>1. \A h \in Graph : Len(objects'[h]) \in Nat
    BY <1>3, GraphObjects
  <2> QED
    BY <2>1
<1> HIDE DEF old
<1>6. GraphsTypeOK'
  <2>1. objects' \in [Graph -> Seq(Obj)]
    BY <1>1, <1>3 DEF GraphsTypeOK
  <2> QED
    BY <1>2, <2>1 DEF GraphsTypeOK
<1>7. Owner'
  <2>1. ASSUME NEW i \in Instance, of[i] = None PROVE objects'[i] = << >>
    <3>1. objects[i] = << >> /\ i \in Graph
      BY <2>1, ObjKinds DEF Owner
    <3>2. i # g
      BY <3>1
    <3> QED
      BY <1>3, <3>1, <3>2
  <2> QED
    BY <1>2, <2>1 DEF Owner
<1>8. OnOwner'
  <2>1. ASSUME NEW h \in Graph, NEW k \in 1..Len(objects'[h]) PROVE parent'[objects'[h][k]] = h
    <3>1. old(h, k) \in 1..Len(objects[h]) /\ objects'[h][k] = objects[h][old(h, k)]
      BY <1>4
    <3>2. parent[objects[h][old(h, k)]] = h
      BY <3>1 DEF OnOwner
    <3> QED
      BY <1>2, <3>1, <3>2
  <2> QED
    BY <2>1 DEF OnOwner
<1>9. NamesOnce'
  <2>1. ASSUME NEW h \in Graph, NEW k \in 1..Len(objects'[h]), NEW l \in 1..Len(objects'[h]),
               NameOf(objects'[h][k]) = NameOf(objects'[h][l])
        PROVE  k = l
    <3>1. /\ old(h, k) \in 1..Len(objects[h]) /\ objects'[h][k] = objects[h][old(h, k)]
          /\ old(h, l) \in 1..Len(objects[h]) /\ objects'[h][l] = objects[h][old(h, l)]
      BY <1>4
    <3>2. NamesApart(objects[h])
      BY DEF NamesOnce
    <3>3. old(h, k) = old(h, l)
      BY <2>1, <3>1, <3>2 DEF NamesApart
    <3> QED
      BY <1>5, <3>3
  <2> QED
    BY <2>1 DEF NamesOnce, NamesApart
<1>11. RefsLocal'
  <2>1. ASSUME NEW i \in Instance, NEW k \in 1..Len(objects'[i]), NEW r \in refs'[objects'[i][k]]
        PROVE  parent'[r] = i
    <3>1. i \in Graph
      BY ObjKinds
    <3>2. old(i, k) \in 1..Len(objects[i]) /\ objects'[i][k] = objects[i][old(i, k)]
      BY <1>4, <2>1, <3>1
    <3>3. r \in refs[objects[i][old(i, k)]]
      BY <1>2, <2>1, <3>2
    <3>4. parent[r] = i
      BY <3>2, <3>3 DEF RefsLocal
    <3> QED
      BY <1>2, <3>4
  <2> QED
    BY <2>1 DEF RefsLocal
<1>12. RefsMapped'
  BY <1>2 DEF RefsMapped
<1>13. OnlyCopied'
  <2>1. ASSUME NEW c \in marked PROVE Copied(c) \subseteq Copied(c)'
    <3>1. c \in Graph /\ c \in Component
      BY ObjKinds DEF GraphsTypeOK
    <3>2. ASSUME NEW k \in 1..Len(objects[c]), KindOf(objects[c][k]) \in Interface
          PROVE  \E l \in 1..Len(objects'[c]) : objects'[c][l] = objects[c][k]
      <4>1. CASE c # g
        BY <1>3, <3>1, <4>1
      <4>2. CASE c = g
        <5>1. k # n
          BY <1>1, <1>14, <3>2, <4>2 DEF Mutable
        <5>2. k \in Nat /\ n \in Nat /\ 1 <= k /\ k <= Len(objects[g]) /\ 1 <= n /\ n <= Len(objects[g])
          BY <1>3, <4>2
        <5>3. CASE k < n
          <6>1. k \in 1..(Len(objects[g]) - 1)
            BY <1>3, <5>2, <5>3
          <6> QED
            BY <1>3, <4>2, <5>3, <6>1
        <5>4. CASE k > n
          <6>1. k - 1 \in 1..(Len(objects[g]) - 1) /\ ~ (k - 1 < n) /\ (k - 1) + 1 = k
            BY <1>3, <5>2, <5>4
          <6>2. objects'[g][k - 1] = objects[g][(k - 1) + 1]
            BY <1>3, <6>1
          <6> QED
            BY <1>3, <4>2, <6>1, <6>2
        <5> QED
          BY <5>1, <5>2, <5>3, <5>4
      <4> QED
        BY <4>1, <4>2
    <3>3. ASSUME NEW o \in Object, NEW k \in 1..Len(objects[c]), KindOf(objects[c][k]) \in Interface,
                 o = objects[c][k] \/ o \in Refs[objects[c][k]]
          PROVE  o \in Copied(c)'
      <4>1. PICK l \in 1..Len(objects'[c]) : objects'[c][l] = objects[c][k]
        BY <3>2, <3>3
      <4> QED
        BY <3>3, <4>1 DEF Copied
    <3> QED
      BY <3>3 DEF Copied
  <2>2. ASSUME NEW i \in Instance, NEW o \in Object, parent'[<<i, o>>] # None
        PROVE  o \in Copied(of[i])'
    <3>1. of[i] \in marked /\ o \in Copied(of[i])
      BY <1>2, <2>2 DEF OnlyCopied, Owner
    <3>2. PICK c \in marked : c = of[i] /\ c = of'[i]
      BY <1>2, <3>1
    <3>3. o \in Copied(c)'
      BY <2>1, <3>1, <3>2
    <3> QED
      BY <3>2, <3>3 DEF Copied
  <2> QED
    BY <2>2 DEF OnlyCopied
<1> QED
  BY <1>6, <1>7, <1>8, <1>9, <1>11, <1>12, <1>13

(* Instantiating: the copies had no parent, and CopyInterfaceSound says    *)
(* what they refer to.                                                     *)
LEMMA InstantiateKeeps ==
  ASSUME GraphsInv, NEW c \in Component, NEW i \in Instance, Instantiate(c, i)
  PROVE  GraphsInv'
<1> USE DEF GraphsInv
<1> DEFINE st == CopyInterface(i, objects[c])
<1>1. /\ of[i] = None /\ st.ok
      /\ marked' = marked \cup {c}
      /\ of' = [of EXCEPT ![i] = c]
      /\ objects' = [objects EXCEPT ![i] = st.objs]
      /\ parent' = [x \in Obj |-> IF x \in ToSet(st.objs) THEN i ELSE parent[x]]
      /\ refs' = [x \in Obj |-> IF x \in ToSet(st.objs) THEN st.refs[x[2]] ELSE refs[x]]
      /\ mapped' = mapped \cup Parameters(st.objs)
  BY DEF Instantiate
<1>2. /\ c \in Graph /\ c # i /\ i \in Graph /\ i # None /\ c # None
      /\ \A h \in Graph : h # None
  BY ObjKinds
<1>3. objects[c] \in Seq(Object) /\ \A k \in 1..Len(objects[c]) : objects[c][k] \in Object
  <2>1. /\ Len(objects[c]) \in Nat /\ objects[c] \in Seq(Obj)
        /\ \A k \in 1..Len(objects[c]) : objects[c][k] \in Object
    BY <1>2, GraphObjects, OnComponent
  <2>2. objects[c] = [k \in 1..Len(objects[c]) |-> objects[c][k]]
    BY <2>1
  <2> QED
    BY <2>1, <2>2
<1> DEFINE J == Copied(c)
<1>4. /\ J \in SUBSET Object
      /\ \A k \in 1..Len(objects[c]) :
           KindOf(objects[c][k]) \in Interface => objects[c][k] \in J /\ refs[objects[c][k]] \in SUBSET J
  BY <1>3, GraphsAssumption DEF Owner, Copied
<1> HIDE DEF J
<1>5. /\ st \in Sound(i, J)
      /\ \A k \in 1..Len(objects[c]) :
           KindOf(objects[c][k]) \in Interface => <<i, objects[c][k]>> \in Listed(st.objs)
  BY <1>3, <1>4, CopyInterfaceSound
<1> HIDE DEF st
<1>6. /\ st.objs \in Seq(Copies(i, J)) /\ Len(st.objs) \in Nat
      /\ \A k \in 1..Len(st.objs) : st.objs[k] \in Copies(i, J)
      /\ ToSet(st.objs) = Listed(st.objs)
      /\ st.refs \in [Object -> SUBSET Copies(i, J)]
      /\ \A o \in Object : st.refs[o] \subseteq Listed(st.objs)
      /\ NamesApart(st.objs)
      /\ Listed(st.objs) \subseteq Copies(i, J)
  BY <1>1, <1>5, SoundFacts
<1>7. /\ \A x \in Copies(i, J) : x \in Obj /\ x \notin Object /\ \E o \in Object : x = <<i, o>>
      /\ \A x \in Copies(i, J) : parent[x] = None
  BY <1>1, <1>4, ObjKinds DEF Copies, Owner
<1>8. /\ \A x \in Obj : x \in Listed(st.objs) => parent'[x] = i
      /\ \A x \in Obj : x \notin Listed(st.objs) => parent'[x] = parent[x]
      /\ \A x \in Obj : parent[x] # None => parent'[x] = parent[x] /\ refs'[x] = refs[x]
      /\ \A x \in Object : refs'[x] = refs[x]
  BY <1>1, <1>6, <1>7 DEF Obj
<1>9. \A o \in Object : <<i, o>> \in Listed(st.objs) => refs'[<<i, o>>] \subseteq Listed(st.objs)
  BY <1>1, <1>6, ObjKinds
<1>10. objects'[i] = st.objs /\ \A h \in Graph : h # i => objects'[h] = objects[h]
  BY <1>1, <1>2 DEF GraphsTypeOK
<1>11. \A k \in 1..Len(st.objs) : st.objs[k] \in Listed(st.objs) /\ st.objs[k] \in Obj
  BY <1>6, <1>7 DEF Listed
<1>12. GraphsTypeOK'
  <2>1. objects' \in [Graph -> Seq(Obj)]
    <3>1. st.objs \in Seq(Obj)
      BY <1>6, <1>7, SeqMonotonic
    <3> QED
      BY <1>1, <3>1 DEF GraphsTypeOK
  <2>2. parent' \in [Obj -> Graph \cup {None}]
    BY <1>1, <1>2 DEF GraphsTypeOK
  <2>3. refs' \in [Obj -> SUBSET Obj]
    <3>1. ASSUME NEW x \in Obj PROVE refs'[x] \in SUBSET Obj
      <4>1. CASE x \in Listed(st.objs)
        BY <1>6, <1>7, <1>9, <4>1
      <4>2. CASE x \notin Listed(st.objs)
        BY <1>1, <1>6, <4>2 DEF GraphsTypeOK
      <4> QED
        BY <4>1, <4>2
    <3> QED
      BY <1>1, <3>1
  <2>4. mapped' \subseteq Obj
    BY <1>1, <1>6, <1>7 DEF Parameters, GraphsTypeOK
  <2>5. marked' \subseteq Component /\ of' \in [Instance -> Component \cup {None}]
    BY <1>1 DEF GraphsTypeOK
  <2> QED
    BY <2>1, <2>2, <2>3, <2>4, <2>5 DEF GraphsTypeOK
<1>13. \A j \in Instance : of'[j] = IF j = i THEN c ELSE of[j]
  BY <1>1 DEF GraphsTypeOK
<1>14. \A j \in Instance, o \in Object : <<j, o>> \in Listed(st.objs) => j = i
  BY <1>6 DEF Copies
<1>15. Owner'
  <2>1. \A o \in Object : refs'[o] = Refs[o]
    BY <1>8 DEF Owner
  <2>2. \A j \in Instance, o \in Object : parent'[<<j, o>>] \in {None, j}
    BY <1>8, <1>14, ObjKinds DEF Owner
  <2>3. ASSUME NEW j \in Instance, of'[j] = None
        PROVE  objects'[j] = << >> /\ \A o \in Object : parent'[<<j, o>>] = None
    <3>1. j # i /\ of[j] = None /\ j \in Graph
      BY <1>2, <1>13, <2>3, ObjKinds
    <3> QED
      BY <1>8, <1>10, <1>14, <3>1, ObjKinds DEF Owner
  <2>4. \A j \in Instance : of'[j] # None => of'[j] \in marked'
    BY <1>1, <1>13 DEF Owner
  <2> QED
    BY <2>1, <2>2, <2>3, <2>4 DEF Owner
<1>16. OnOwner'
  <2>1. ASSUME NEW h \in Graph, NEW k \in 1..Len(objects'[h]) PROVE parent'[objects'[h][k]] = h
    <3>1. CASE h = i
      BY <1>8, <1>10, <1>11, <3>1
    <3>2. CASE h # i
      <4>1. objects[h][k] \in Obj /\ parent[objects[h][k]] = h /\ objects'[h] = objects[h]
        BY <1>10, <3>2, GraphObjects DEF OnOwner
      <4> QED
        BY <1>2, <1>8, <4>1
    <3> QED
      BY <3>1, <3>2
  <2> QED
    BY <2>1 DEF OnOwner
<1>17. NamesOnce'
  BY <1>6, <1>10 DEF NamesOnce
<1>19. RefsLocal'
  <2>1. ASSUME NEW j \in Instance, NEW k \in 1..Len(objects'[j]), NEW r \in refs'[objects'[j][k]]
        PROVE  parent'[r] = j
    <3>1. CASE j = i
      <4>1. objects'[j][k] \in Listed(st.objs)
        BY <1>10, <1>11, <2>1, <3>1
      <4>2. r \in Listed(st.objs)
        BY <1>6, <1>7, <1>9, <2>1, <4>1
      <4> QED
        BY <1>6, <1>7, <1>8, <3>1, <4>2
    <3>2. CASE j # i
      <4>1. j \in Graph /\ objects'[j] = objects[j] /\ k \in 1..Len(objects[j])
        BY <1>10, <2>1, <3>2, ObjKinds
      <4>2. objects[j][k] \in Obj /\ parent[objects[j][k]] = j
        BY <4>1, GraphObjects DEF OnOwner
      <4>3. refs'[objects[j][k]] = refs[objects[j][k]]
        BY <1>2, <1>8, <4>1, <4>2
      <4>4. parent[r] = j /\ r \in Obj
        BY <2>1, <4>1, <4>2, <4>3 DEF RefsLocal, GraphsTypeOK
      <4> QED
        BY <1>2, <1>8, <4>1, <4>4
    <3> QED
      BY <3>1, <3>2
  <2> QED
    BY <2>1 DEF RefsLocal
<1>20. RefsMapped'
  <2>1. ASSUME NEW j \in Instance, NEW o \in Object, parent'[<<j, o>>] # None,
               NEW r \in refs'[<<j, o>>], KindOf(r) = "parameter"
        PROVE  r \in mapped'
    <3>1. CASE <<j, o>> \in Listed(st.objs)
      <4>1. r \in Listed(st.objs)
        BY <1>9, <1>14, <2>1, <3>1
      <4> QED
        BY <1>1, <1>6, <2>1, <4>1 DEF Parameters
    <3>2. CASE <<j, o>> \notin Listed(st.objs)
      <4>1. parent[<<j, o>>] # None /\ refs'[<<j, o>>] = refs[<<j, o>>]
        BY <1>8, <2>1, <3>2, ObjKinds
      <4> QED
        BY <1>1, <2>1, <4>1 DEF RefsMapped
    <3> QED
      BY <3>1, <3>2
  <2> QED
    BY <2>1 DEF RefsMapped
<1>21. OnlyCopied'
  <2>1. \A d \in Component : Copied(d)' = Copied(d)
    <3>1. \A d \in Component : objects'[d] = objects[d]
      BY <1>10, ObjKinds
    <3> QED
      BY <3>1 DEF Copied
  <2>2. ASSUME NEW j \in Instance, NEW o \in Object, parent'[<<j, o>>] # None
        PROVE  o \in Copied(of[j])'
    <3>1. CASE j = i
      <4>1. <<i, o>> \in Listed(st.objs)
        BY <1>1, <1>7, <1>8, <2>2, <3>1, ObjKinds DEF Owner
      <4>2. o \in J
        BY <1>6, <4>1 DEF Copies
      <4>3. o \in Copied(c)'
        BY <2>1, <4>2 DEF J
      <4> QED
        BY <1>13, <3>1, <4>3 DEF Copied
    <3>2. CASE j # i
      <4>1. parent[<<j, o>>] # None
        BY <1>8, <1>14, <2>2, <3>2, ObjKinds
      <4>2. of[j] \in Component /\ o \in Copied(of[j])
        BY <4>1 DEF OnlyCopied, Owner, GraphsTypeOK
      <4>3. PICK d \in Component : d = of[j] /\ d = of'[j]
        BY <1>13, <3>2, <4>2
      <4>4. o \in Copied(d)'
        BY <2>1, <4>2, <4>3
      <4> QED
        BY <4>3, <4>4 DEF Copied
    <3> QED
      BY <3>1, <3>2
  <2> QED
    BY <2>2 DEF OnlyCopied
<1> QED
  BY <1>12, <1>15, <1>16, <1>17, <1>19, <1>20, <1>21

(* A constructor that throws only leaves the mark.                         *)
LEMMA ThrowKeeps ==
  ASSUME GraphsInv, NEW c \in Component, NEW i \in Instance, InstantiateThrows(c, i)
  PROVE  GraphsInv'
<1>1. /\ marked' = marked \cup {c}
      /\ objects' = objects /\ parent' = parent /\ refs' = refs /\ of' = of /\ mapped' = mapped
  BY DEF InstantiateThrows
<1>2. GraphsTypeOK'
  BY <1>1 DEF GraphsInv, GraphsTypeOK
<1>3. Owner'
  BY <1>1 DEF GraphsInv, Owner
<1>4. OnOwner' /\ NamesOnce' /\ OnlyCopied'
  BY <1>1 DEF GraphsInv, OnOwner, NamesOnce, OnlyCopied, Copied
<1>5. RefsLocal' /\ RefsMapped'
  BY <1>1 DEF GraphsInv, RefsLocal, RefsMapped
<1> QED
  BY <1>2, <1>3, <1>4, <1>5 DEF GraphsInv

(* The invariant that the theorems below follow from holds in every   *)
(* reachable state.                                                        *)
THEOREM GraphsSound == GraphsSpec => []GraphsInv
<1>1. GraphsInv /\ [GraphsNext]_graphVars => GraphsInv'
  <2> SUFFICES ASSUME GraphsInv, [GraphsNext]_graphVars PROVE GraphsInv'
    OBVIOUS
  <2>1. CASE \E g \in Graph, x \in Obj : AddObject(g, x)
    BY <2>1, AddKeeps
  <2>2. CASE \E g \in Graph, x \in Obj : RemoveObject(g, x)
    BY <2>2, RemoveKeeps
  <2>3. CASE \E c \in Component, i \in Instance : Instantiate(c, i)
    BY <2>3, InstantiateKeeps
  <2>4. CASE \E c \in Component, i \in Instance : InstantiateThrows(c, i)
    BY <2>4, ThrowKeeps
  <2>5. CASE UNCHANGED graphVars
    BY <2>5 DEF graphVars, GraphsInv, GraphsTypeOK, Owner, OnOwner, NamesOnce,
                RefsLocal, RefsMapped, OnlyCopied, Copied
  <2> QED
    BY <2>1, <2>2, <2>3, <2>4, <2>5 DEF GraphsNext
<1> QED
  BY <1>1, GraphsInvInit, PTL DEF GraphsSpec

(* Every list, parent, reference and mapping stays in its type.            *)
THEOREM GraphsTypeSafety == GraphsSpec => []GraphsTypeOK
<1>1. GraphsInv => GraphsTypeOK
  BY DEF GraphsInv
<1> QED
  BY <1>1, GraphsSound, PTL

(* An object is on one graph at most, once, and its name is its own there  *)
(* (Graph::Add).                                                           *)
THEOREM ObjectsOwnedOnce == GraphsSpec => []OwnedOnce
<1>1. GraphsInv => OwnedOnce
  BY GraphObjects DEF GraphsInv, OnOwner, NamesOnce, NamesApart, OwnedOnce
<1> QED
  BY <1>1, GraphsSound, PTL

(* What a step does to the lists, as sets.                                 *)
LEMMA AddLists ==
  ASSUME GraphsInv, NEW g \in Graph, NEW x \in Obj, AddObject(g, x), NEW h \in Graph
  PROVE  Listed(objects[h]) \subseteq Listed(objects'[h])
         /\ Listed(objects'[h]) \subseteq Listed(objects[h]) \cup (IF h = g THEN {x} ELSE {})
<1>1. objects \in [Graph -> Seq(Obj)] /\ objects[g] \in Seq(Obj)
  BY DEF GraphsInv, GraphsTypeOK
<1>2. objects' = [objects EXCEPT ![g] = Append(@, x)]
  BY DEF AddObject
<1>3. objects'[h] = IF h = g THEN Append(objects[g], x) ELSE objects[h]
  BY <1>1, <1>2
<1>4. Listed(Append(objects[g], x)) = Listed(objects[g]) \cup {x}
  BY <1>1, AppendFacts
<1> QED
  BY <1>3, <1>4

LEMMA RemoveLists ==
  ASSUME GraphsInv, NEW g \in Graph, NEW x \in Obj, RemoveObject(g, x), NEW h \in Graph
  PROVE  Listed(objects'[h]) \subseteq Listed(objects[h])
         /\ \A y \in Listed(objects[h]) : y \in Listed(objects'[h]) \/ (h = g /\ y = x)
<1>1. PICK n \in 1..Len(objects[g]) :
        objects[g][n] = x /\ objects' = [objects EXCEPT ![g] = RemoveAt(@, n)]
  BY GraphObjects DEF RemoveObject, GraphsInv
<1>2. objects \in [Graph -> Seq(Obj)] /\ objects[g] \in Seq(Obj) /\ Len(objects[g]) \in Nat
  BY GraphObjects DEF GraphsInv, GraphsTypeOK
<1>3. objects'[h] = IF h = g THEN RemoveAt(objects[g], n) ELSE objects[h]
  BY <1>1, <1>2
<1> DEFINE s == objects[g]
           t == RemoveAt(s, n)
<1>4. /\ Len(t) = Len(s) - 1
      /\ \A k \in 1..(Len(s) - 1) : t[k] = IF k < n THEN s[k] ELSE s[k + 1]
  BY <1>2, RemoveFacts
<1>5. Len(s) \in Nat /\ s[n] = x /\ n \in 1..Len(s)
  BY <1>1, <1>2
<1> HIDE DEF s, t
<1>6. Listed(t) \subseteq Listed(s)
  <2>1. ASSUME NEW k \in 1..Len(t) PROVE \E l \in 1..Len(s) : t[k] = s[l]
    BY <1>4, <1>5, <2>1
  <2> QED
    BY <2>1 DEF Listed
<1>7. ASSUME NEW l \in 1..Len(s), s[l] # x PROVE \E k \in 1..Len(t) : t[k] = s[l]
  <2>1. CASE l < n
    BY <1>4, <1>5, <2>1
  <2>2. CASE l > n
    <3>1. l - 1 \in 1..(Len(s) - 1) /\ ~ (l - 1 < n) /\ (l - 1) + 1 = l
      BY <1>5, <2>2
    <3>2. t[l - 1] = s[l]
      BY <1>4, <3>1
    <3> QED
      BY <1>4, <3>1, <3>2
  <2> QED
    BY <1>5, <1>7, <2>1, <2>2
<1>8. \A y \in Listed(s) : y \in Listed(t) \/ y = x
  BY <1>7 DEF Listed
<1> QED
  BY <1>3, <1>6, <1>8 DEF s, t

(* A new instance has a copy of all its component has on its interface.    *)
LEMMA InstantiateLists ==
  ASSUME GraphsInv, NEW c \in Component, NEW i \in Instance, Instantiate(c, i)
  PROVE  /\ of' = [of EXCEPT ![i] = c]
         /\ \A h \in Graph : h # i => objects'[h] = objects[h]
         /\ \A o \in Listed(objects[c]) :
              KindOf(o) \in Interface => <<i, o>> \in Listed(objects'[i])
<1> USE DEF GraphsInv
<1> DEFINE J == Copied(c)
           st == CopyInterface(i, objects[c])
<1>1. of' = [of EXCEPT ![i] = c] /\ objects' = [objects EXCEPT ![i] = st.objs]
  BY DEF Instantiate
<1>2. objects'[i] = st.objs /\ \A h \in Graph : h # i => objects'[h] = objects[h]
  BY <1>1, ObjKinds DEF GraphsTypeOK
<1>3. objects[c] \in Seq(Object) /\ \A k \in 1..Len(objects[c]) : objects[c][k] \in Object
  <2>1. /\ Len(objects[c]) \in Nat /\ objects[c] \in Seq(Obj)
        /\ \A k \in 1..Len(objects[c]) : objects[c][k] \in Object
    BY ObjKinds, GraphObjects, OnComponent
  <2>2. objects[c] = [k \in 1..Len(objects[c]) |-> objects[c][k]]
    BY <2>1
  <2> QED
    BY <2>1, <2>2
<1>4. /\ J \in SUBSET Object
      /\ \A k \in 1..Len(objects[c]) :
           KindOf(objects[c][k]) \in Interface => objects[c][k] \in J /\ refs[objects[c][k]] \in SUBSET J
  BY <1>3, GraphsAssumption DEF Owner, Copied
<1> HIDE DEF J
<1>5. \A k \in 1..Len(objects[c]) :
        KindOf(objects[c][k]) \in Interface => <<i, objects[c][k]>> \in Listed(st.objs)
  BY <1>3, <1>4, CopyInterfaceSound
<1> QED
  BY <1>1, <1>2, <1>5 DEF Listed

(* The objects of a graph are those in its list.                           *)
LEMMA LacksListed ==
  ASSUME NEW objs \in [Graph -> Seq(Obj)], NEW i \in Instance, NEW c \in Component
  PROVE  ToSet(objs[c]) = Listed(objs[c]) /\ ToSet(objs[i]) = Listed(objs[i])
<1>1. c \in Graph /\ i \in Graph
  BY ObjKinds
<1>2. \A s \in Seq(Obj) : DOMAIN s = 1..Len(s)
  BY LenProperties
<1> QED
  BY <1>1, <1>2 DEF ToSet, Listed

LEMMA InterfaceStep ==
  ASSUME GraphsInv, GraphsInv', GraphsNext, NEW i \in Instance, NEW o,
         o \in Lacks(i)', o \notin Lacks(i)
  PROVE  RemoveObject(i, <<i, o>>)
<1> i \in Graph /\ GraphsTypeOK
  BY ObjKinds DEF GraphsInv
<1>1. of' \in [Instance -> Component \cup {None}] /\ objects' \in [Graph -> Seq(Obj)]
  BY DEF GraphsInv, GraphsTypeOK
<1>2. /\ of'[i] # None /\ o \in ToSet(objects'[of'[i]]) /\ KindOf(o) \in Interface
      /\ <<i, o>> \notin ToSet(objects'[i])
  BY DEF Lacks, On
<1>3. of'[i] \in Component /\ of'[i] \in Graph
  BY <1>1, <1>2, ObjKinds
<1>4. o \in Listed(objects'[of'[i]]) /\ <<i, o>> \notin Listed(objects'[i])
  BY <1>1, <1>2, <1>3, LacksListed
<1>5. of[i] # None /\ of[i] \in Component => o \notin Listed(objects[of[i]]) \/ <<i, o>> \in Listed(objects[i])
  <2> SUFFICES ASSUME of[i] # None, of[i] \in Component, o \in Listed(objects[of[i]]),
                      <<i, o>> \notin Listed(objects[i])
               PROVE  FALSE
    OBVIOUS
  <2>1. o \in ToSet(objects[of[i]]) /\ <<i, o>> \notin ToSet(objects[i])
    BY LacksListed DEF GraphsTypeOK
  <2> QED
    BY <1>2, <2>1 DEF Lacks, On
<1>6. ASSUME NEW g \in Graph, NEW x \in Obj, AddObject(g, x) PROVE FALSE
  <2>1. of'[i] = of[i] /\ of[i] \in marked /\ (g \in Component => Mutable(g, x))
    BY <1>2, <1>6 DEF AddObject, GraphsInv, Owner
  <2>2. o \in Listed(objects[of[i]]) \/ (of[i] = g /\ o = x)
    BY <1>3, <1>4, <1>6, <2>1, AddLists
  <2>3. o \in Listed(objects[of[i]])
    BY <1>2, <1>3, <2>1, <2>2 DEF Mutable
  <2>4. <<i, o>> \notin Listed(objects[i])
    BY <1>4, <1>6, AddLists
  <2> QED
    BY <1>2, <1>3, <1>5, <2>1, <2>3, <2>4
<1>7. ASSUME NEW g \in Graph, NEW x \in Obj, RemoveObject(g, x) PROVE RemoveObject(i, <<i, o>>)
  <2>1. of'[i] = of[i]
    BY <1>7 DEF RemoveObject
  <2>2. o \in Listed(objects[of[i]])
    BY <1>3, <1>4, <1>7, <2>1, RemoveLists
  <2>3. <<i, o>> \in Listed(objects[i])
    BY <1>2, <1>3, <1>5, <2>1, <2>2
  <2>4. g = i /\ x = <<i, o>>
    BY <1>4, <1>7, <2>3, RemoveLists
  <2> QED
    BY <1>7, <2>4
<1>8. ASSUME NEW c \in Component, NEW j \in Instance, Instantiate(c, j) PROVE FALSE
  <2>1. /\ of' = [of EXCEPT ![j] = c]
        /\ \A h \in Graph : h # j => objects'[h] = objects[h]
        /\ \A y \in Listed(objects[c]) : KindOf(y) \in Interface => <<j, y>> \in Listed(objects'[j])
    BY <1>8, InstantiateLists
  <2>2. of'[i] = IF i = j THEN c ELSE of[i]
    BY <2>1 DEF GraphsTypeOK
  <2>3. objects'[of'[i]] = objects[of'[i]]
    BY <1>3, <2>1, ObjKinds
  <2>4. CASE i = j
    BY <1>2, <1>4, <2>1, <2>2, <2>3, <2>4
  <2>5. CASE i # j
    BY <1>2, <1>3, <1>4, <1>5, <2>1, <2>2, <2>3, <2>5
  <2> QED
    BY <2>4, <2>5
<1>9. ASSUME NEW c \in Component, NEW j \in Instance, InstantiateThrows(c, j) PROVE FALSE
  <2>1. objects' = objects /\ of' = of
    BY <1>9 DEF InstantiateThrows
  <2> QED
    BY <1>2, <1>3, <1>4, <1>5, <2>1
<1> QED
  BY <1>6, <1>7, <1>8, <1>9 DEF GraphsNext

(* Each instance has a copy of all its component has on its interface from *)
(* when it is made on (ThrowErrorIfInstantiated), and no step makes it     *)
(* lack one but the removal of that copy from the instance.                *)
THEOREM InterfacesAreKept == GraphsSpec => InterfaceKept
<1>1. GraphsInv /\ GraphsInv' /\ [GraphsNext]_graphVars =>
        [\A i \in Instance : \A o \in Lacks(i)' \ Lacks(i) : RemoveObject(i, <<i, o>>)]_graphVars
  BY InterfaceStep
<1> QED
  BY <1>1, GraphsSound, PTL DEF GraphsSpec, InterfaceKept

(* What an object of an instance refers to is on that instance, never on   *)
(* the component it was copied from (ImplicitlyRebindNodes).               *)
THEOREM InstancesReferLocally == GraphsSpec => []InstanceRefsLocal
<1>1. GraphsInv => InstanceRefsLocal
  <2> SUFFICES ASSUME GraphsInv, NEW i \in Instance, NEW x \in ToSet(objects[i]), NEW r \in refs[x]
               PROVE  parent[r] = i
    BY DEF InstanceRefsLocal
  <2>1. ToSet(objects[i]) = Listed(objects[i])
    BY ObjKinds, GraphObjects DEF GraphsInv
  <2> QED
    BY <2>1 DEF GraphsInv, RefsLocal, Listed
<1> QED
  BY <1>1, GraphsSound, PTL

(* Every parameter that a copy refers to has a value in inst_to_comp, also *)
(* one that rebinding brought along.                                       *)
THEOREM ReferencesStayMapped == GraphsSpec => []ReferencesAreMapped
<1>1. GraphsInv => ReferencesAreMapped
  <2> SUFFICES ASSUME GraphsInv, NEW i \in Instance, NEW x \in ToSet(objects[i]) \ Object,
                      NEW r \in refs[x], KindOf(r) = "parameter"
               PROVE  r \in mapped
    BY DEF ReferencesAreMapped
  <2>1. i \in Graph /\ i # None
    BY ObjKinds
  <2>2. PICK k \in 1..Len(objects[i]) : objects[i][k] = x
    BY <2>1, GraphObjects DEF GraphsInv, Listed
  <2>3. x \in Obj /\ parent[x] = i
    BY <2>1, <2>2, GraphObjects DEF GraphsInv, OnOwner
  <2>4. PICK j \in Instance, o \in Object : x = <<j, o>>
    BY <2>3, ObjKinds
  <2> QED
    BY <2>1, <2>3, <2>4 DEF GraphsInv, RefsMapped
<1> QED
  BY <1>1, GraphsSound, PTL

(* No entry of a list is there twice, and one that is new does not change  *)
(* that.                                                                   *)
Distinct(s) == \A k, l \in 1..Len(s) : s[k] = s[l] => k = l

LEMMA AppendDistinct ==
  ASSUME NEW S, NEW s \in Seq(S), NEW x \in S, x \notin Listed(s), Distinct(s)
  PROVE  Distinct(Append(s, x))
<1> DEFINE t == Append(s, x)
<1>1. /\ Len(t) = Len(s) + 1 /\ Len(s) \in Nat
      /\ \A k \in 1..Len(s) : t[k] = s[k]
      /\ t[Len(s) + 1] = x
  BY AppendFacts
<1> HIDE DEF t
<1>2. \A k \in 1..Len(s) : t[k] # x
  BY <1>1 DEF Listed
<1>3. \A k \in 1..Len(t) : k \in 1..Len(s) \/ k = Len(s) + 1
  BY <1>1
<1>4. ASSUME NEW k \in 1..Len(t), NEW l \in 1..Len(t), t[k] = t[l] PROVE k = l
  <2>1. CASE k \in 1..Len(s) /\ l \in 1..Len(s)
    BY <1>1, <1>4, <2>1 DEF Distinct
  <2>2. CASE k = Len(s) + 1 \/ l = Len(s) + 1
    BY <1>1, <1>2, <1>3, <1>4, <2>2
  <2> QED
    BY <1>3, <2>1, <2>2
<1> QED
  BY <1>4 DEF Distinct, t

-----------------------------------------------------------------------------
(* GetAll<T> finds the objects of a kind that are on the graph.            *)
LEMMA OfKindFacts ==
  ASSUME NEW g, objects[g] \in Seq(Obj), NEW kind
  PROVE  /\ OfKind(g, kind) \in Seq(Obj)
         /\ Listed(OfKind(g, kind)) = {x \in Listed(objects[g]) : KindOf(x) = kind}
         /\ Distinct(objects[g]) => Distinct(OfKind(g, kind))
<1> DEFINE objs == objects[g]
           m == Len(objs)
           Step(s, x) == IF KindOf(x) = kind THEN Append(s, x) ELSE s
           Is(f) == f = [n \in 0..Len(objs) |-> IF n = 0 THEN << >>
                           ELSE IF KindOf(objs[n]) = kind THEN Append(f[n - 1], objs[n]) ELSE f[n - 1]]
           b == CHOOSE f : Is(f)
           F == [n \in 1..m |-> [s \in Seq(Obj) |-> Step(s, objs[n])]]
           Found(k) == {x \in {objs[n] : n \in 1..k} : KindOf(x) = kind}
<1>1. m \in Nat /\ \A n \in 1..m : objs[n] \in Obj
  BY LenProperties, ElementOfSeq
<1>2. << >> \in Seq(Obj) /\ Listed(<< >>) = {} /\ Distinct(<< >>)
  BY EmptySeq DEF Listed, Distinct
<1>3. \A s \in Seq(Obj), x \in Obj :
        /\ Step(s, x) \in Seq(Obj)
        /\ Listed(Step(s, x)) = Listed(s) \cup (IF KindOf(x) = kind THEN {x} ELSE {})
        /\ x \notin Listed(s) /\ Distinct(s) => Distinct(Step(s, x))
  BY AppendFacts, AppendDistinct
<1>4. F \in [1..m -> [Seq(Obj) -> Seq(Obj)]]
  <2>1. \A n \in 1..m : \A s \in Seq(Obj) : Step(s, objs[n]) \in Seq(Obj)
    BY <1>1, <1>3
  <2> QED
    BY <2>1
<1>5. PICK f \in [0..m -> Seq(Obj)] : f = [n \in 0..m |-> IF n = 0 THEN << >> ELSE F[n][f[n - 1]]]
  <2> HIDE DEF F, m
  <2>1. \E f \in [0..m -> Seq(Obj)] : Iterated(f, m, << >>, F)
    BY <1>1, <1>2, <1>4, Iterates
  <2> QED
    BY <2>1 DEF Iterated
<1>6. ASSUME NEW n \in 0..m PROVE f[n] = IF n = 0 THEN << >> ELSE Step(f[n - 1], objs[n])
  <2>1. f[n] = IF n = 0 THEN << >> ELSE F[n][f[n - 1]]
    BY <1>5
  <2>2. n # 0 => n - 1 \in 0..m /\ n \in 1..m
    BY <1>1
  <2>3. n # 0 => f[n - 1] \in Seq(Obj)
    BY <2>2
  <2>4. n # 0 => F[n][f[n - 1]] = Step(f[n - 1], objs[n])
    BY <2>2, <2>3
  <2> HIDE DEF F
  <2>5. CASE n = 0
    BY <2>1, <2>5
  <2>6. CASE n # 0
    BY <2>1, <2>4, <2>6
  <2> QED
    BY <2>5, <2>6
<1>7. Is(f)
  BY <1>5, <1>6
<1>8. Is(b)
  BY <1>7
<1>9. OfKind(g, kind) = b[m]
  BY DEF OfKind
<1> HIDE DEF b, F
<1>10. \A n \in 0..m : b[n] = IF n = 0 THEN << >> ELSE Step(b[n - 1], objs[n])
  BY <1>8
<1> HIDE DEF m, Is, Step, objs
<1> DEFINE Right(k) == /\ b[k] \in Seq(Obj) /\ Listed(b[k]) = Found(k)
                       /\ Distinct(objs) => Distinct(b[k])
<1>11. ASSUME NEW n \in Nat
       PROVE  n \in {k \in Nat : k <= m => Right(k)}
  <2> DEFINE T == {k \in Nat : k <= m => Right(k)}
  <2>1. 0 \in T
    <3>1. b[0] = << >>
      BY <1>1, <1>10
    <3>2. Found(0) = {}
      OBVIOUS
    <3> HIDE DEF Found
    <3> QED
      BY <1>2, <3>1, <3>2
  <2>2. ASSUME NEW k \in Nat, k \in T PROVE k + 1 \in T
    <3> SUFFICES ASSUME k + 1 <= m PROVE Right(k + 1)
      OBVIOUS
    <3>1. /\ Right(k)
          /\ k + 1 \in 0..m /\ k + 1 # 0 /\ (k + 1) - 1 = k /\ objs[k + 1] \in Obj
      BY <1>1, <2>2
    <3>2. b[k + 1] = Step(b[k], objs[k + 1])
      BY <1>10, <3>1
    <3>3. Found(k + 1) = Found(k) \cup (IF KindOf(objs[k + 1]) = kind THEN {objs[k + 1]} ELSE {})
      <4>1. 1..(k + 1) = (1..k) \cup {k + 1}
        OBVIOUS
      <4> QED
        BY <4>1
    <3>4. ASSUME Distinct(objs) PROVE objs[k + 1] \notin Found(k)
      <4>1. \A j \in 1..k : j \in 1..m /\ j # k + 1
        BY <1>1, <3>1
      <4>2. \A j \in 1..k : objs[j] # objs[k + 1]
        BY <1>1, <3>1, <3>4, <4>1 DEF Distinct, m
      <4> QED
        BY <4>2
    <3> HIDE DEF Found
    <3>5. b[k + 1] \in Seq(Obj) /\ Listed(b[k + 1]) = Found(k + 1)
      BY <1>3, <3>1, <3>2, <3>3
    <3>6. Distinct(objs) => Distinct(b[k + 1])
      BY <1>3, <3>1, <3>2, <3>4
    <3> QED
      BY <3>5, <3>6
  <2> HIDE DEF T
  <2>3. \A k \in Nat : k \in T
    BY <2>1, <2>2, EveryNatural
  <2> QED
    BY <2>3 DEF T
<1>12. Right(m)
  <2>1. m \in Nat /\ m <= m
    BY <1>1
  <2>2. m \in {k \in Nat : k <= m => Right(k)}
    BY <1>11, <2>1
  <2> HIDE DEF Right
  <2> QED
    BY <2>1, <2>2
<1> QED
  BY <1>9, <1>12 DEF Found, Listed, m, objs

Line == [of : Obj, part : Nat, sep : BOOLEAN]

(* How many lines an object is declared with.                              *)
Height(x) == IF KindOf(x) = "parameter" THEN 1 ELSE Parts[Original(x)]

(* An object is declared by its lines, numbered, without separators.       *)
LEMMA LinesFacts ==
  ASSUME NEW x \in Obj
  PROVE  /\ Height(x) \in Nat /\ Lines(x) \in Seq(Line) /\ Len(Lines(x)) = Height(x)
         /\ \A k \in 1..Height(x) : Lines(x)[k] = [of |-> x, part |-> k, sep |-> FALSE]
<1>1. Original(x) \in Object
  BY GraphsAssumption DEF Original, Obj
<1>2. Height(x) \in Nat
  BY <1>1, PartsAssumption DEF Height
<1>3. Lines(x) = [k \in 1..Height(x) |-> [of |-> x, part |-> k, sep |-> FALSE]]
  BY DEF Lines, Height
<1>4. \A k \in 1..Height(x) : [of |-> x, part |-> k, sep |-> FALSE] \in Line
  BY <1>2 DEF Line
<1> HIDE DEF Height
<1> QED
  BY <1>2, <1>3, <1>4

(* Separators change nothing else of a line.                               *)
LEMMA SeparatedFacts ==
  ASSUME NEW s \in Seq(Line)
  PROVE  /\ Separated(s) \in Seq(Line) /\ Len(Separated(s)) = Len(s) /\ Len(s) \in Nat
         /\ \A k \in 1..Len(s) :
              /\ Separated(s)[k].of = s[k].of /\ Separated(s)[k].part = s[k].part
              /\ (Separated(s)[k].sep <=> s[k].sep \/ k < Len(s))
<1>1. Len(s) \in Nat /\ DOMAIN s = 1..Len(s) /\ \A k \in 1..Len(s) : s[k] \in Line
  BY LenProperties, ElementOfSeq
<1>2. Separated(s) = [k \in 1..Len(s) |-> [s[k] EXCEPT !.sep = @ \/ k < Len(s)]]
  BY <1>1 DEF Separated
<1>3. ASSUME NEW k \in 1..Len(s)
      PROVE  LET l == [s[k] EXCEPT !.sep = @ \/ k < Len(s)]
             IN  /\ l \in Line /\ l.of = s[k].of /\ l.part = s[k].part
                 /\ l.sep <=> s[k].sep \/ k < Len(s)
  BY <1>1 DEF Line
<1>4. ASSUME NEW k \in 1..Len(s) PROVE Separated(s)[k] = [s[k] EXCEPT !.sep = @ \/ k < Len(s)]
  BY <1>2
<1>5. Separated(s) \in Seq(Line) /\ Len(Separated(s)) = Len(s)
  <2>1. Separated(s) \in [1..Len(s) -> Line]
    BY <1>2, <1>3
  <2> HIDE DEF Line
  <2> QED
    BY <1>1, <2>1
<1>6. ASSUME NEW k \in 1..Len(s)
      PROVE  /\ Separated(s)[k].of = s[k].of /\ Separated(s)[k].part = s[k].part
             /\ Separated(s)[k].sep <=> s[k].sep \/ k < Len(s)
  <2> DEFINE l == [s[k] EXCEPT !.sep = @ \/ k < Len(s)]
  <2>1. l.of = s[k].of /\ l.part = s[k].part /\ (l.sep <=> s[k].sep \/ k < Len(s))
    BY <1>3
  <2>2. Separated(s)[k] = l
    BY <1>4
  <2> HIDE DEF l
  <2> QED
    BY <2>1, <2>2
<1> QED
  BY <1>1, <1>5, <1>6

(* A block that has lines gets a separator on each of them.                *)
LEMMA TerminatedFacts ==
  ASSUME NEW s \in Seq(Line), NEW x \in Obj
  PROVE  /\ Terminated(s, x) \in Seq(Line)
         /\ Len(s) \in Nat
         /\ Len(s) # 0 =>
              /\ Len(Terminated(s, x)) = Len(s)
              /\ \A k \in 1..Len(s) :
                   /\ Terminated(s, x)[k].of = s[k].of /\ Terminated(s, x)[k].part = s[k].part
                   /\ Terminated(s, x)[k].sep
<1>1. Len(s) \in Nat /\ DOMAIN s = 1..Len(s) /\ \A k \in 1..Len(s) : s[k] \in Line
  BY LenProperties, ElementOfSeq
<1>2. CASE s = << >>
  <2>1. [of |-> x, part |-> 0, sep |-> TRUE] \in Line
    BY DEF Line
  <2>2. Terminated(s, x) = <<[of |-> x, part |-> 0, sep |-> TRUE]>>
    BY <1>2 DEF Terminated
  <2>3. Terminated(s, x) \in Seq(Line)
    BY <2>1, <2>2
  <2>4. Len(s) = 0
    BY <1>2, EmptySeq
  <2> QED
    BY <1>1, <2>3, <2>4
<1>3. CASE s # << >>
  <2>1. Terminated(s, x) = [k \in 1..Len(s) |-> [s[k] EXCEPT !.sep = TRUE]]
    BY <1>1, <1>3 DEF Terminated
  <2>2. ASSUME NEW k \in 1..Len(s)
        PROVE  LET l == [s[k] EXCEPT !.sep = TRUE]
               IN  l \in Line /\ l.of = s[k].of /\ l.part = s[k].part /\ l.sep
    BY <1>1 DEF Line
  <2>3. Terminated(s, x) \in Seq(Line) /\ Len(Terminated(s, x)) = Len(s)
    <3>1. Terminated(s, x) \in [1..Len(s) -> Line]
      BY <2>1, <2>2
    <3> QED
      BY <1>1, <3>1
  <2>4. ASSUME NEW k \in 1..Len(s) PROVE Terminated(s, x)[k] = [s[k] EXCEPT !.sep = TRUE]
    BY <2>1
  <2> QED
    BY <1>1, <2>2, <2>3, <2>4
<1> QED
  BY <1>2, <1>3

(* A list of declarations has all lines of the objects it is about, and a  *)
(* separator behind each but the last, which has one if more follows, for  *)
(* objects that are on the list once and have lines.                       *)
LEMMA DeclarationFacts ==
  ASSUME NEW objs \in Seq(Obj), NEW follows \in BOOLEAN
  PROVE  /\ DeclarationList(objs, follows) \in Seq(Line)
         /\ \A x \in Listed(objs) : \A k \in 1..Height(x) :
              \E l \in Listed(DeclarationList(objs, follows)) : l.of = x /\ l.part = k
         /\ objs = << >> => Len(DeclarationList(objs, follows)) = 0
         /\ Distinct(objs) /\ (\A x \in Listed(objs) : Height(x) # 0) =>
              \A k \in 1..Len(DeclarationList(objs, follows)) :
                /\ DeclarationList(objs, follows)[k].part # 0
                /\ DeclarationList(objs, follows)[k].sep <=>
                     follows \/ k < Len(DeclarationList(objs, follows))
<1> DEFINE n == Len(objs)
           more(k) == objs[k] # Last(objs) \/ follows
           block(k) == IF more(k) THEN Terminated(Lines(objs[k]), objs[k]) ELSE Separated(Lines(objs[k]))
           ss == [k \in 1..n |-> block(k)]
           d == DeclarationList(objs, follows)
<1>1. n \in Nat /\ DOMAIN objs = 1..n /\ \A k \in 1..n : objs[k] \in Obj /\ objs[k] \in Listed(objs)
  BY LenProperties, ElementOfSeq DEF Listed
<1>2. d = FlattenSeq(ss)
  BY <1>1 DEF DeclarationList
<1>3. ASSUME NEW k \in 1..n
      PROVE  /\ ss[k] = block(k) /\ block(k) \in Seq(Line)
             /\ Height(objs[k]) \in Nat
             /\ Height(objs[k]) # 0 =>
                  /\ Len(block(k)) = Height(objs[k])
                  /\ \A j \in 1..Height(objs[k]) :
                       /\ block(k)[j].of = objs[k] /\ block(k)[j].part = j
                       /\ block(k)[j].sep <=> more(k) \/ j < Height(objs[k])
  <2> DEFINE s == Lines(objs[k])
             h == Height(objs[k])
  <2>1. /\ h \in Nat /\ s \in Seq(Line) /\ Len(s) = h
        /\ \A j \in 1..h : s[j] = [of |-> objs[k], part |-> j, sep |-> FALSE]
    BY <1>1, LinesFacts
  <2> HIDE DEF s, h, more
  <2>2. ASSUME NEW j \in 1..h PROVE s[j].of = objs[k] /\ s[j].part = j /\ ~ s[j].sep
    <3>1. s[j] = [of |-> objs[k], part |-> j, sep |-> FALSE]
      BY <2>1
    <3> QED
      BY <3>1
  <2>3. CASE more(k)
    <3>1. block(k) = Terminated(s, objs[k])
      BY <2>3 DEF s
    <3>2. /\ Terminated(s, objs[k]) \in Seq(Line)
          /\ h # 0 => /\ Len(Terminated(s, objs[k])) = h
                      /\ \A j \in 1..h : /\ Terminated(s, objs[k])[j].of = s[j].of
                                         /\ Terminated(s, objs[k])[j].part = s[j].part
                                         /\ Terminated(s, objs[k])[j].sep
      BY <1>1, <2>1, TerminatedFacts
    <3> HIDE DEF block
    <3> QED
      BY <2>1, <2>2, <2>3, <3>1, <3>2 DEF h
  <2>4. CASE ~ more(k)
    <3>1. block(k) = Separated(s)
      BY <2>4 DEF s
    <3>2. /\ Separated(s) \in Seq(Line) /\ Len(Separated(s)) = h
          /\ \A j \in 1..h : /\ Separated(s)[j].of = s[j].of /\ Separated(s)[j].part = s[j].part
                             /\ Separated(s)[j].sep <=> s[j].sep \/ j < h
      BY <2>1, SeparatedFacts
    <3> HIDE DEF block
    <3> QED
      BY <2>1, <2>2, <2>4, <3>1, <3>2 DEF h
  <2> QED
    BY <2>3, <2>4
<1>4. ss \in Seq(Seq(Line)) /\ n = Len(ss)
  BY <1>1, <1>3
<1>5. /\ d \in Seq(Line)
      /\ Listed(d) = AllListed(ss, n)
      /\ n # 0 => \E front \in Seq(Line) :
           d = front \o ss[n] /\ Listed(front) = AllListed(ss, n - 1)
  <2> HIDE DEF ss, d, n, block
  <2> QED
    BY <1>2, <1>4, FlattenFacts
<1> HIDE DEF d, ss, block, more
<1>6. ASSUME NEW x \in Listed(objs), NEW k \in 1..Height(x)
      PROVE  \E l \in Listed(d) : l.of = x /\ l.part = k
  <2>1. PICK j \in 1..n : objs[j] = x
    BY DEF Listed
  <2>2. Height(objs[j]) # 0 /\ k \in 1..Height(objs[j])
    BY <1>3, <2>1
  <2>3. k \in 1..Len(ss[j]) /\ ss[j][k].of = x /\ ss[j][k].part = k
    BY <1>3, <2>1, <2>2
  <2>4. ss[j][k] \in Listed(ss[j])
    BY <2>3 DEF Listed
  <2>5. ss[j][k] \in Listed(d)
    BY <1>5, <2>4 DEF AllListed
  <2> QED
    BY <2>3, <2>5
<1>7. n = 0 => Len(d) = 0
  <2> SUFFICES ASSUME n = 0 PROVE Len(d) = 0
    OBVIOUS
  <2>1. Len(objs) = 0 /\ ss = << >>
    BY DEF n, ss
  <2>2. Len(ss) = 0
    BY <2>1, EmptySeq
  <2>3. d = << >>
    BY <1>2, <2>1, <2>2 DEF FlattenSeq
  <2> QED
    BY <2>3, EmptySeq
<1>8. ASSUME Distinct(objs), \A x \in Listed(objs) : Height(x) # 0
      PROVE  \A k \in 1..Len(d) : d[k].part # 0 /\ (d[k].sep <=> follows \/ k < Len(d))
  <2>1. Len(d) \in Nat
    BY <1>5, LenProperties
  <2>2. CASE n = 0
    BY <1>7, <2>2
  <2>4. \A k \in 1..n : more(k) <=> k < n \/ follows
    <3>1. \A k, l \in 1..n : objs[k] = objs[l] => k = l
      BY <1>8 DEF Distinct, n
    <3>2. Last(objs) = objs[n]
      BY DEF Last, n
    <3>3. ASSUME NEW k \in 1..n PROVE objs[k] # objs[n] <=> k < n
      <4>1. n \in 1..n
        BY <1>1
      <4> HIDE DEF n
      <4>2. objs[k] = objs[n] => k = n
        BY <3>1, <4>1
      <4>3. k <= n /\ k \in Nat /\ (k < n <=> k # n)
        BY <1>1
      <4> QED
        BY <4>2, <4>3
    <3> QED
      BY <3>2, <3>3 DEF more
  <2>3. CASE n # 0
    <3>1. PICK front \in Seq(Line) :
            d = front \o ss[n] /\ Listed(front) = AllListed(ss, n - 1)
      BY <1>5, <2>3
    <3> DEFINE m == Len(front)
               h == Height(objs[n])
    <3>2. /\ n \in 1..n /\ h \in Nat /\ h # 0 /\ ss[n] \in Seq(Line) /\ Len(ss[n]) = h
          /\ \A j \in 1..h : ss[n][j].part = j /\ (ss[n][j].sep <=> follows \/ j < h)
      BY <1>1, <1>3, <1>8, <2>3, <2>4
    <3>3. /\ Len(d) = m + h /\ m \in Nat
          /\ \A k \in 1..m : d[k] = front[k]
          /\ \A k \in 1..h : d[m + k] = ss[n][k]
      <4>1. ss[n] \in Seq(Line) /\ front \in Seq(Line) /\ Len(ss[n]) = h /\ d = front \o ss[n]
        BY <3>1, <3>2
      <4> HIDE DEF h
      <4>2. \A a, b \in Seq(Line) :
              /\ Len(a \o b) = Len(a) + Len(b) /\ Len(a) \in Nat
              /\ \A k \in 1..Len(a) : (a \o b)[k] = a[k]
              /\ \A k \in 1..Len(b) : (a \o b)[Len(a) + k] = b[k]
        BY ConcatFacts
      <4>3. /\ Len(d) = Len(front) + h /\ Len(front) \in Nat
            /\ \A k \in 1..Len(front) : d[k] = front[k]
            /\ \A k \in 1..h : d[Len(front) + k] = ss[n][k]
        BY <4>1, <4>2
      <4> QED
        BY <4>3
    <3>4. ASSUME NEW l \in Listed(front) PROVE l.part # 0 /\ l.sep
      <4>1. PICK k \in 1..(n - 1) : l \in Listed(ss[k])
        BY <3>1 DEF AllListed
      <4>2. k \in 1..n /\ k < n
        BY <1>1
      <4>3. Height(objs[k]) # 0
        BY <1>1, <1>8, <4>2
      <4>4. PICK j \in 1..Height(objs[k]) : l = ss[k][j]
        BY <1>3, <4>1, <4>2, <4>3 DEF Listed
      <4> QED
        BY <1>3, <2>4, <4>2, <4>3, <4>4
    <3> HIDE DEF m, h
    <3>5. ASSUME NEW k \in 1..Len(d) PROVE d[k].part # 0 /\ (d[k].sep <=> follows \/ k < Len(d))
      <4>1. CASE k <= m
        <5>1. k \in 1..m /\ front[k] \in Listed(front)
          BY <3>3, <4>1 DEF Listed, m
        <5> QED
          BY <3>2, <3>3, <3>4, <5>1
      <4>2. CASE ~ (k <= m)
        <5>1. k - m \in 1..h /\ m + (k - m) = k /\ (k - m < h <=> k < Len(d))
          BY <3>2, <3>3, <4>2
        <5>2. d[k] = ss[n][k - m]
          BY <3>3, <5>1
        <5> QED
          BY <3>2, <5>1, <5>2
      <4> QED
        BY <4>1, <4>2
    <3> QED
      BY <3>5
  <2> QED
    BY <2>2, <2>3
<1>9. objs = << >> => n = 0
  BY EmptySeq DEF n
<1> QED
  BY <1>5, <1>6, <1>7, <1>8, <1>9 DEF d

(* A list that nothing follows ends without a separator.                   *)
LEMMA LastListFacts ==
  ASSUME NEW objs \in Seq(Obj)
  PROVE  /\ DeclarationList(objs, FALSE) \in Seq(Line)
         /\ \A x \in Listed(objs) : \A k \in 1..Height(x) :
              \E l \in Listed(DeclarationList(objs, FALSE)) : l.of = x /\ l.part = k
         /\ objs = << >> => Len(DeclarationList(objs, FALSE)) = 0
         /\ Distinct(objs) /\ (\A x \in Listed(objs) : Height(x) # 0) =>
              \A k \in 1..Len(DeclarationList(objs, FALSE)) :
                /\ DeclarationList(objs, FALSE)[k].part # 0
                /\ DeclarationList(objs, FALSE)[k].sep <=> k < Len(DeclarationList(objs, FALSE))
<1> DEFINE none == FALSE
           d == DeclarationList(objs, none)
<1>1. none \in BOOLEAN /\ ~ none
  OBVIOUS
<1> HIDE DEF none
<1>2. /\ d \in Seq(Line)
      /\ \A x \in Listed(objs) : \A k \in 1..Height(x) : \E l \in Listed(d) : l.of = x /\ l.part = k
      /\ objs = << >> => Len(d) = 0
      /\ Distinct(objs) /\ (\A x \in Listed(objs) : Height(x) # 0) =>
           \A k \in 1..Len(d) : d[k].part # 0 /\ (d[k].sep <=> none \/ k < Len(d))
  BY <1>1, DeclarationFacts
<1> HIDE DEF d
<1>3. Distinct(objs) /\ (\A x \in Listed(objs) : Height(x) # 0) =>
        \A k \in 1..Len(d) : d[k].part # 0 /\ (d[k].sep <=> k < Len(d))
  BY <1>1, <1>2
<1>4. /\ d \in Seq(Line)
      /\ \A x \in Listed(objs) : \A k \in 1..Height(x) : \E l \in Listed(d) : l.of = x /\ l.part = k
      /\ objs = << >> => Len(d) = 0
  BY <1>2
<1> QED
  BY <1>3, <1>4 DEF d, none

(* The lines of a map are those of the objects it is about.                *)
LEMMA MapFacts ==
  ASSUME NEW objs \in Seq(Obj), NEW l,
         l \in ToSet(Separated(FlattenSeq([k \in DOMAIN objs |-> Lines(objs[k])])))
  PROVE  \E x \in Listed(objs) : \E k \in 1..Height(x) : l.of = x /\ l.part = k
<1> DEFINE n == Len(objs)
           ss == [k \in 1..n |-> Lines(objs[k])]
           f == FlattenSeq(ss)
<1>1. n \in Nat /\ DOMAIN objs = 1..n /\ \A k \in 1..n : objs[k] \in Obj /\ objs[k] \in Listed(objs)
  BY LenProperties, ElementOfSeq DEF Listed
<1>2. ASSUME NEW k \in 1..n
      PROVE  /\ ss[k] = Lines(objs[k]) /\ ss[k] \in Seq(Line) /\ Len(ss[k]) = Height(objs[k])
             /\ \A j \in 1..Height(objs[k]) : ss[k][j].of = objs[k] /\ ss[k][j].part = j
  <2> DEFINE s == Lines(objs[k])
  <2>1. /\ s \in Seq(Line) /\ Len(s) = Height(objs[k])
        /\ \A j \in 1..Height(objs[k]) : s[j] = [of |-> objs[k], part |-> j, sep |-> FALSE]
    BY <1>1, LinesFacts
  <2>2. ss[k] = s
    OBVIOUS
  <2> HIDE DEF s, ss
  <2>3. ASSUME NEW j \in 1..Height(objs[k]) PROVE s[j].of = objs[k] /\ s[j].part = j
    <3>1. s[j] = [of |-> objs[k], part |-> j, sep |-> FALSE]
      BY <2>1
    <3> QED
      BY <3>1
  <2> QED
    BY <2>1, <2>2, <2>3 DEF s
<1>3. ss \in Seq(Seq(Line)) /\ n = Len(ss)
  BY <1>1, <1>2
<1>4. l \in ToSet(Separated(f))
  BY <1>1
<1>5. f \in Seq(Line) /\ Listed(f) = AllListed(ss, n)
  <2> HIDE DEF ss, n
  <2> QED
    BY <1>3, FlattenFacts
<1> HIDE DEF f, ss
<1>6. PICK k \in 1..Len(f) : l.of = f[k].of /\ l.part = f[k].part
  <2>1. /\ Separated(f) \in Seq(Line) /\ Len(Separated(f)) = Len(f)
        /\ \A k \in 1..Len(f) : Separated(f)[k].of = f[k].of /\ Separated(f)[k].part = f[k].part
    BY <1>5, SeparatedFacts
  <2>2. DOMAIN Separated(f) = 1..Len(f)
    BY <2>1, LenProperties
  <2> QED
    BY <1>4, <2>1, <2>2 DEF ToSet
<1>7. PICK j \in 1..n : f[k] \in Listed(ss[j])
  BY <1>5 DEF Listed, AllListed
<1>8. PICK q \in 1..Height(objs[j]) : f[k] = ss[j][q]
  BY <1>2, <1>7 DEF Listed
<1> QED
  BY <1>1, <1>2, <1>6, <1>8

-----------------------------------------------------------------------------
(* The ports of a graph are those of the two kinds; an object with a name  *)
(* of its own is on each list once.                                        *)
LEMMA PortsOfFacts ==
  ASSUME GraphsTypeOK, NEW g \in Graph
  PROVE  /\ PortsOf(g) \in Seq(Obj) /\ OfKind(g, "parameter") \in Seq(Obj)
         /\ OfKind(g, "port") \in Seq(Obj) /\ OfKind(g, "port_array") \in Seq(Obj)
         /\ Listed(PortsOf(g)) = Listed(OfKind(g, "port")) \cup Listed(OfKind(g, "port_array"))
         /\ Listed(PortsOf(g)) = {x \in Listed(objects[g]) : KindOf(x) \in {"port", "port_array"}}
         /\ Listed(OfKind(g, "parameter")) = {x \in Listed(objects[g]) : KindOf(x) = "parameter"}
         /\ NamesApart(objects[g]) =>
              \A kind \in {"port", "port_array", "parameter"} : Distinct(OfKind(g, kind))
<1>1. objects[g] \in Seq(Obj)
  BY DEF GraphsTypeOK
<1> DEFINE a == OfKind(g, "port")
           b == OfKind(g, "port_array")
<1>2. /\ a \in Seq(Obj) /\ Listed(a) = {x \in Listed(objects[g]) : KindOf(x) = "port"}
      /\ b \in Seq(Obj) /\ Listed(b) = {x \in Listed(objects[g]) : KindOf(x) = "port_array"}
      /\ OfKind(g, "parameter") \in Seq(Obj)
      /\ Listed(OfKind(g, "parameter")) = {x \in Listed(objects[g]) : KindOf(x) = "parameter"}
  BY <1>1, OfKindFacts
<1>3. NamesApart(objects[g]) => Distinct(objects[g])
  BY DEF NamesApart, Distinct
<1>4. Distinct(objects[g]) => \A kind \in {"port", "port_array", "parameter"} : Distinct(OfKind(g, kind))
  BY <1>1, OfKindFacts
<1>5. a \o b \in Seq(Obj) /\ Listed(a \o b) = Listed(a) \cup Listed(b)
  BY <1>2, ConcatFacts
<1>6. PortsOf(g) = a \o b
  BY DEF PortsOf
<1> HIDE DEF a, b
<1>7. Listed(PortsOf(g)) = {x \in Listed(objects[g]) : KindOf(x) \in {"port", "port_array"}}
  BY <1>2, <1>5, <1>6
<1> QED
  BY <1>2, <1>3, <1>4, <1>5, <1>6, <1>7 DEF a, b

(* The declaration of the ports is a list: the part for plain ports ends   *)
(* in a separator just when the part for arrays has lines.                 *)
LEMMA PortsDeclared ==
  ASSUME GraphsTypeOK, NEW g \in Graph
  PROVE  /\ DeclaredPorts(g) \in Seq(Line)
         /\ \A x \in Listed(PortsOf(g)) : \A k \in 1..Height(x) :
              \E l \in Listed(DeclaredPorts(g)) : l.of = x /\ l.part = k
         /\ NamesApart(objects[g]) /\ (\A x \in Listed(PortsOf(g)) : Height(x) # 0) =>
              WellSeparated(DeclaredPorts(g))
<1> DEFINE ps == OfKind(g, "port")
           as == OfKind(g, "port_array")
           more == as # << >>
           a == DeclarationList(ps, more)
           b == DeclarationList(as, FALSE)
           d == DeclaredPorts(g)
<1>1. /\ ps \in Seq(Obj) /\ as \in Seq(Obj) /\ Listed(PortsOf(g)) = Listed(ps) \cup Listed(as)
      /\ NamesApart(objects[g]) => Distinct(ps) /\ Distinct(as)
  BY PortsOfFacts
<1>2. d = a \o b
  BY DEF DeclaredPorts
<1>8. more \in BOOLEAN /\ (more <=> as # << >>)
  OBVIOUS
<1> HIDE DEF ps, as, d, more
<1>3. /\ a \in Seq(Line)
      /\ \A x \in Listed(ps) : \A k \in 1..Height(x) : \E l \in Listed(a) : l.of = x /\ l.part = k
      /\ Distinct(ps) /\ (\A x \in Listed(ps) : Height(x) # 0) =>
           \A k \in 1..Len(a) : a[k].part # 0 /\ (a[k].sep <=> more \/ k < Len(a))
  BY <1>1, <1>8, DeclarationFacts
<1>4. /\ b \in Seq(Line)
      /\ \A x \in Listed(as) : \A k \in 1..Height(x) : \E l \in Listed(b) : l.of = x /\ l.part = k
      /\ as = << >> => Len(b) = 0
      /\ Distinct(as) /\ (\A x \in Listed(as) : Height(x) # 0) =>
           \A k \in 1..Len(b) : b[k].part # 0 /\ (b[k].sep <=> k < Len(b))
  BY <1>1, LastListFacts
<1> HIDE DEF a, b
<1>5. /\ d \in Seq(Line) /\ Len(d) = Len(a) + Len(b) /\ Len(a) \in Nat /\ Len(b) \in Nat
      /\ \A k \in 1..Len(a) : d[k] = a[k]
      /\ \A k \in 1..Len(b) : d[Len(a) + k] = b[k]
      /\ Listed(d) = Listed(a) \cup Listed(b)
  BY <1>2, <1>3, <1>4, ConcatFacts
<1>6. \A x \in Listed(PortsOf(g)) : \A k \in 1..Height(x) : \E l \in Listed(d) : l.of = x /\ l.part = k
  <2> SUFFICES ASSUME NEW x \in Listed(PortsOf(g)), NEW k \in 1..Height(x)
               PROVE  \E l \in Listed(d) : l.of = x /\ l.part = k
    OBVIOUS
  <2>1. CASE x \in Listed(ps)
    BY <1>3, <1>5, <2>1
  <2>2. CASE x \in Listed(as)
    <3>1. PICK l \in Listed(b) : l.of = x /\ l.part = k
      BY <1>4, <2>2
    <3> QED
      BY <1>5, <3>1
  <2> QED
    BY <1>1, <2>1, <2>2
<1>7. ASSUME NamesApart(objects[g]), \A x \in Listed(PortsOf(g)) : Height(x) # 0
      PROVE  WellSeparated(d)
  <2>1. as # << >> <=> Len(b) # 0
    <3>1. ASSUME as # << >> PROVE Len(b) # 0
      <4>1. 1 \in 1..Len(as)
        <5>2. as \in Seq(Obj)
          BY <1>1
        <5>3. \A s \in Seq(Obj) : s # << >> => Len(s) \in Nat \ {0}
          BY EmptySeq
        <5>1. Len(as) \in Nat /\ Len(as) # 0
          BY <3>1, <5>2, <5>3
        <5> DEFINE m == Len(as)
        <5>4. m \in Nat /\ m # 0
          BY <5>1
        <5> HIDE DEF m
        <5>5. 1 \in 1..m
          BY <5>4
        <5> QED
          BY <5>5 DEF m
      <4> DEFINE x == as[1]
      <4>5. x \in Listed(as) /\ x \in Obj
        BY <1>1, <4>1, ElementOfSeq DEF Listed
      <4> HIDE DEF x
      <4>2. x \in Obj /\ Height(x) # 0
        BY <1>1, <1>7, <4>5
      <4>3. 1 \in 1..Height(x)
        BY <4>2, LinesFacts
      <4>4. Listed(b) # {}
        BY <1>4, <4>3, <4>5
      <4> QED
        BY <1>5, <4>4 DEF Listed
    <3> QED
      BY <1>4, <3>1
  <2>2. /\ \A k \in 1..Len(a) : a[k].part # 0 /\ (a[k].sep <=> as # << >> \/ k < Len(a))
        /\ \A k \in 1..Len(b) : b[k].part # 0 /\ (b[k].sep <=> k < Len(b))
    BY <1>1, <1>3, <1>4, <1>7, <1>8
  <2>3. ASSUME NEW k \in 1..Len(d) PROVE d[k].part # 0 /\ (d[k].sep <=> k < Len(d))
    <3>1. CASE k \in 1..Len(a)
      <4>1. d[k] = a[k] /\ (k < Len(d) <=> Len(b) # 0 \/ k < Len(a))
        BY <1>5, <3>1
      <4> QED
        BY <2>1, <2>2, <3>1, <4>1
    <3>2. CASE k \notin 1..Len(a)
      <4> DEFINE j == k - Len(a)
      <4>1. j \in 1..Len(b) /\ Len(a) + j = k /\ (k < Len(d) <=> j < Len(b))
        BY <1>5, <3>2
      <4>2. d[k] = b[j]
        BY <1>5, <4>1
      <4> HIDE DEF j
      <4> QED
        BY <2>2, <4>1, <4>2
    <3> QED
      BY <3>1, <3>2
  <2>4. DOMAIN d = 1..Len(d)
    BY <1>5, LenProperties
  <2> QED
    BY <2>3, <2>4 DEF WellSeparated
<1> QED
  BY <1>5, <1>6, <1>7 DEF d

(* What the map of an instance names for some of its objects, a            *)
(* declaration of objects that include their originals has.                *)
LEMMA FormalsFacts ==
  ASSUME NEW mine \in Seq(Obj), NEW theirs \in Seq(Obj), NEW ds \in Seq(Line),
         \A y \in Listed(theirs) : \A k \in 1..Height(y) : \E l \in Listed(ds) : l.of = y /\ l.part = k,
         \A x \in Listed(mine) : \E y \in Listed(theirs) : Original(y) = Original(x)
  PROVE  Formals(Separated(FlattenSeq([k \in DOMAIN mine |-> Lines(mine[k])]))) \subseteq Formals(ds)
<1> DEFINE ms == Separated(FlattenSeq([k \in DOMAIN mine |-> Lines(mine[k])]))
<1>1. ASSUME NEW l \in ToSet(ms) PROVE \E d \in ToSet(ds) : Formal(d) = Formal(l)
  <2>1. PICK x \in Listed(mine) : \E k \in 1..Height(x) : l.of = x /\ l.part = k
    BY MapFacts
  <2>2. PICK k \in 1..Height(x) : l.of = x /\ l.part = k
    BY <2>1
  <2>3. PICK y \in Listed(theirs) : Original(y) = Original(x)
    BY <2>1
  <2>4. Height(y) = Height(x)
    BY <2>3 DEF Height, KindOf
  <2>5. PICK d \in Listed(ds) : d.of = y /\ d.part = k
    BY <2>2, <2>3, <2>4
  <2>6. d \in ToSet(ds)
    BY <2>5, LenProperties DEF Listed, ToSet
  <2>7. Formal(d) = Formal(l)
    BY <2>2, <2>3, <2>5 DEF Formal, NameOf, KindOf
  <2> QED
    BY <2>6, <2>7
<1> QED
  BY <1>1 DEF Formals

(* Declarations are lists in VHDL: separators between the lines and none   *)
(* behind the last (Decl::Generate for ports and generics), unless a port  *)
(* has no physical part.  The loops ask whether an object is the last, so  *)
(* this rests on no object being on a graph twice.                         *)
THEOREM ListsAreSeparated == GraphsSpec => []DeclarationsSeparated
<1>1. GraphsInv => DeclarationsSeparated
  <2> SUFFICES ASSUME GraphsInv, NEW c \in Component
               PROVE  /\ WellSeparated(DeclaredGenerics(c))
                      /\ (\A x \in ToSet(PortsOf(c)) : Parts[Original(x)] > 0) => WellSeparated(DeclaredPorts(c))
    BY DEF DeclarationsSeparated
  <2>1. c \in Graph /\ GraphsTypeOK /\ NamesApart(objects[c])
    BY ObjKinds DEF GraphsInv, NamesOnce
  <2> DEFINE ps == OfKind(c, "parameter")
             d == DeclaredGenerics(c)
  <2>2. /\ PortsOf(c) \in Seq(Obj) /\ ps \in Seq(Obj) /\ Distinct(ps)
        /\ Listed(PortsOf(c)) = {x \in Listed(objects[c]) : KindOf(x) \in {"port", "port_array"}}
        /\ Listed(ps) = {x \in Listed(objects[c]) : KindOf(x) = "parameter"}
    BY <2>1, PortsOfFacts
  <2>3. d = DeclarationList(ps, FALSE)
    BY DEF DeclaredGenerics
  <2> HIDE DEF ps, d
  <2>4. \A x \in Listed(ps) : Height(x) # 0
    BY <2>2 DEF Height
  <2>8. /\ d \in Seq(Line)
        /\ Distinct(ps) /\ (\A x \in Listed(ps) : Height(x) # 0) =>
             \A k \in 1..Len(d) : d[k].part # 0 /\ (d[k].sep <=> k < Len(d))
    <3>1. ps \in Seq(Obj)
      BY <2>2
    <3> QED
      BY <2>3, <3>1, LastListFacts
  <2>5. d \in Seq(Line) /\ \A k \in 1..Len(d) : d[k].part # 0 /\ (d[k].sep <=> k < Len(d))
    BY <2>2, <2>4, <2>8
  <2>6. WellSeparated(d)
    BY <2>5, LenProperties DEF WellSeparated
  <2>7. ASSUME \A x \in ToSet(PortsOf(c)) : Parts[Original(x)] > 0
        PROVE  WellSeparated(DeclaredPorts(c))
    <3>1. ToSet(PortsOf(c)) = Listed(PortsOf(c))
      BY <2>2, LenProperties DEF ToSet, Listed
    <3>2. \A x \in Listed(PortsOf(c)) : Height(x) # 0
      BY <2>2, <2>7, <3>1 DEF Height
    <3> QED
      BY <2>1, <3>2, PortsDeclared
  <2> QED
    BY <2>6, <2>7 DEF d
<1> QED
  BY <1>1, GraphsSound, PTL

(* What is on an instance is a copy of what is on its component, if the    *)
(* component has all it refers to and the client added nothing.            *)
LEMMA OriginalsDeclared ==
  ASSUME GraphsInv, NEW i \in Instance, of[i] # None, LeftAlone(i), Selfcontained(of[i]),
         NEW x \in Listed(objects[i])
  PROVE  \E y \in Listed(objects[of[i]]) : Original(y) = Original(x)
<1> USE DEF GraphsInv
<1> DEFINE c == of[i]
<1>1. c \in Component /\ c \in Graph /\ i \in Graph /\ i # None
  BY ObjKinds DEF GraphsTypeOK
<1>2. ToSet(objects[i]) = Listed(objects[i]) /\ ToSet(objects[c]) = Listed(objects[c])
  BY <1>1, GraphObjects
<1> HIDE DEF c
<1>3. x \in Obj /\ x \notin Object /\ parent[x] = i
  BY <1>1, <1>2, GraphObjects DEF Listed, OnOwner, LeftAlone
<1>4. PICK o \in Object : x = <<i, o>>
  BY <1>1, <1>3, ObjKinds DEF Owner
<1>5. o \in Copied(c)
  BY <1>1, <1>3, <1>4 DEF OnlyCopied, c
<1>6. PICK k \in 1..Len(objects[c]) : o = objects[c][k] \/ o \in Refs[objects[c][k]]
  BY <1>5 DEF Copied
<1>7. objects[c][k] \in Object /\ objects[c][k] \in Listed(objects[c])
  BY <1>1, <1>6, OnComponent DEF Listed
<1>8. o \in Listed(objects[c])
  BY <1>2, <1>6, <1>7 DEF Owner, Selfcontained, c
<1>9. Original(o) = o /\ Original(x) = o
  BY <1>3, <1>4 DEF Original
<1> QED
  BY <1>8, <1>9 DEF c

(* Port maps and generic maps of an instance name what its component       *)
(* declares (Inst::Generate and Decl::Generate), at any time after it was  *)
(* made.                                                                   *)
THEOREM MapsNameDeclared == GraphsSpec => []MapsWhatIsDeclared
<1>1. GraphsInv => MapsWhatIsDeclared
  <2> SUFFICES ASSUME GraphsInv, NEW i \in Instance, of[i] # None, LeftAlone(i), Selfcontained(of[i])
               PROVE  /\ Formals(PortMapLines(i))    \subseteq Formals(DeclaredPorts(of[i]))
                      /\ Formals(GenericMapLines(i)) \subseteq Formals(DeclaredGenerics(of[i]))
    BY DEF MapsWhatIsDeclared
  <2> DEFINE c == of[i]
  <2>1. c \in Graph /\ i \in Graph /\ GraphsTypeOK
    BY ObjKinds DEF GraphsInv, GraphsTypeOK
  <2>2. ASSUME NEW x \in Listed(objects[i])
        PROVE  \E y \in Listed(objects[c]) : Original(y) = Original(x)
    BY OriginalsDeclared
  <2> HIDE DEF c
  <2>3. \A g \in {c, i} :
          /\ PortsOf(g) \in Seq(Obj) /\ OfKind(g, "parameter") \in Seq(Obj)
          /\ Listed(PortsOf(g)) = {x \in Listed(objects[g]) : KindOf(x) \in {"port", "port_array"}}
          /\ Listed(OfKind(g, "parameter")) = {x \in Listed(objects[g]) : KindOf(x) = "parameter"}
    BY <2>1, PortsOfFacts
  <2>4. \A x \in Listed(PortsOf(i)) : \E y \in Listed(PortsOf(c)) : Original(y) = Original(x)
    BY <2>2, <2>3 DEF KindOf
  <2>5. \A x \in Listed(OfKind(i, "parameter")) :
          \E y \in Listed(OfKind(c, "parameter")) : Original(y) = Original(x)
    BY <2>2, <2>3 DEF KindOf
  <2>6. Formals(PortMapLines(i)) \subseteq Formals(DeclaredPorts(c))
    BY <2>1, <2>3, <2>4, FormalsFacts, PortsDeclared DEF PortMapLines
  <2>7. Formals(GenericMapLines(i)) \subseteq Formals(DeclaredGenerics(c))
    <3> DEFINE theirs == OfKind(c, "parameter")
               ds == DeclarationList(theirs, FALSE)
    <3>1. theirs \in Seq(Obj)
      BY <2>3
    <3>2. /\ ds \in Seq(Line)
          /\ \A x \in Listed(theirs) : \A k \in 1..Height(x) : \E l \in Listed(ds) : l.of = x /\ l.part = k
      <4> HIDE DEF theirs
      <4> QED
        BY <3>1, DeclarationFacts
    <3> HIDE DEF ds
    <3>3. Formals(GenericMapLines(i)) \subseteq Formals(ds)
      BY <2>3, <2>5, <3>2, FormalsFacts DEF GenericMapLines
    <3> QED
      BY <3>3 DEF ds, DeclaredGenerics
  <2> QED
    BY <2>6, <2>7 DEF c
<1> QED
  BY <1>1, GraphsSound, PTL
=============================================================================
