-------------------------- MODULE GenerationProofs ---------------------------
(***************************************************************************)
(* Proofs about signal insertion and generation for any design.            *)
(*                                                                         *)
(* A step of the walk is first reduced to what it does to the edges        *)
(* (Changes: one edge off, a few on, in whatever order) and to the walk (a *)
(* turn); from there the invariants are shown by turns.  SigInv is         *)
(* inductive by itself.  Told and Routed, with which every port that is    *)
(* done leads to its signal only, also need that the client connects no    *)
(* node twice: a node that is connected again keeps its old edge among the *)
(* outputs of the old source.                                              *)
(*                                                                         *)
(* That inserting signals implements the netlist: origins are defined by   *)
(* recursion through the signals; the proofs replace the recursion by      *)
(* labels that agree along every driver, which are the origins as long as  *)
(* no signals drive each other in a circle (OriginIsUnique).  Each step    *)
(* then only has to say how it moves drivers and labels.                   *)
(***************************************************************************)
EXTENDS Generation, EdgesProofs, Induction

NewEdges == [id : EdgeId, src : Node, dst : Node]

Sound(s) == s \in Store /\ EndsAgree(s) /\ UniqueIds(s) /\ Backed(s)

(* t is s without the edge e and with the edges es.                        *)
Moves(s, e, es, t) ==
  /\ \A n \in Node : t.outputs[n] = (s.outputs[n] \ {e}) \cup {a \in es : a.src = n}
  /\ \A n \in NormalNode : \A a \in es : a.dst = n => t.input[n] = a
  /\ \A n \in Node : (n \in NormalNode => \A a \in es : a.dst # n) =>
                       t.input[n] = IF s.input[n] = e THEN NoEdge ELSE s.input[n]

(* A connection adds one edge and decides the input of its destination.    *)
LEMMA LinkMoves ==
  ASSUME NEW s \in Store, NEW dst \in Node, NEW src \in Node, FreshIds(s) # {}
  PROVE  /\ NewEdge(s, dst, src) \in NewEdges
         /\ Moves(s, NoEdge, {NewEdge(s, dst, src)}, Link(s, dst, src))
<1> DEFINE e == NewEdge(s, dst, src)
           t == Link(s, dst, src)
<1>1. /\ t.outputs = [s.outputs EXCEPT ![src] = s.outputs[src] \cup {e}]
      /\ t.input = IF dst \in NormalNode THEN [s.input EXCEPT ![dst] = e] ELSE s.input
  BY LinkEffect
<1>2. e.src = src /\ e.dst = dst /\ e \in NewEdges
  <2>1. (CHOOSE i \in FreshIds(s) : TRUE) \in EdgeId
    BY DEF FreshIds
  <2> QED
    BY <2>1 DEF NewEdge, NewEdges
<1> HIDE DEF e, t
<1>3. ASSUME NEW n \in Node
      PROVE  t.outputs[n] = (s.outputs[n] \ {NoEdge}) \cup {a \in {e} : a.src = n}
  <2>1. NoEdge \notin s.outputs[n]
    BY StoreAssumption DEF Store
  <2>2. n \in DOMAIN s.outputs
    BY DEF Store
  <2> QED
    BY <1>1, <1>2, <2>1, <2>2
<1>4. ASSUME NEW n \in NormalNode, n = dst PROVE t.input[n] = e
  BY <1>1, <1>4 DEF Store, NormalNode
<1>5. ASSUME NEW n \in Node, n \in NormalNode => dst # n PROVE t.input[n] = s.input[n]
  BY <1>1, <1>5 DEF Store
<1>6. Moves(s, NoEdge, {e}, t)
  BY <1>2, <1>3, <1>4, <1>5 DEF Moves
<1> QED
  BY <1>2, <1>6 DEF e, t

(* Taking an edge off both its ends takes it off the whole store, in       *)
(* either order, and leaves everything else: no third node holds it.       *)
LEMMA UnlinkMoves ==
  ASSUME NEW s \in Store, EndsAgree(s), NEW e \in Edge, e.src # e.dst,
         NEW first, NEW second, {first, second} = {e.src, e.dst}
  PROVE  Moves(s, e, {}, Unlink(s, e, first, second))
<1> DEFINE t == RemoveEdge(s, first, e)
           u == RemoveEdge(t, second, e)
<1>1. first \in Node /\ second \in Node /\ first # second
  BY DEF Edge
<1>2. /\ t \in Store
      /\ t.outputs = IF e \in s.outputs[first] THEN [s.outputs EXCEPT ![first] = s.outputs[first] \ {e}]
                                               ELSE s.outputs
      /\ t.input = IF e \notin s.outputs[first] /\ first \in NormalNode /\ s.input[first] = e
                     THEN [s.input EXCEPT ![first] = NoEdge] ELSE s.input
  BY <1>1, RemoveEffect
<1> HIDE DEF t
<1>3. /\ u.outputs = IF e \in t.outputs[second] THEN [t.outputs EXCEPT ![second] = t.outputs[second] \ {e}]
                                                ELSE t.outputs
      /\ u.input = IF e \notin t.outputs[second] /\ second \in NormalNode /\ t.input[second] = e
                     THEN [t.input EXCEPT ![second] = NoEdge] ELSE t.input
  <2>1. t \in Store /\ second \in Node
    BY <1>1, <1>2
  <2> QED
    BY <2>1, RemoveEffect
<1> HIDE DEF u
<1>4. ASSUME NEW n \in Node, e \in s.outputs[n] PROVE n = e.src
  BY <1>4 DEF EndsAgree
<1>5. ASSUME NEW n \in Node, s.input[n] = e PROVE n = e.dst /\ n \in NormalNode
  BY <1>5, StoreAssumption DEF EndsAgree, Driven
<1>6. ASSUME NEW n \in Node PROVE u.outputs[n] = s.outputs[n] \ {e}
  <2>1. t.outputs[n] = IF n = first THEN s.outputs[n] \ {e} ELSE s.outputs[n]
    BY <1>1, <1>2 DEF Store
  <2>2. u.outputs[n] = IF n = second THEN t.outputs[n] \ {e} ELSE t.outputs[n]
    BY <1>1, <1>2, <1>3 DEF Store
  <2>3. n \notin {first, second} => e \notin s.outputs[n]
    BY <1>4
  <2>4. n \in {first, second} => n = e.src \/ e \notin s.outputs[n]
    BY <1>4
  <2> QED
    BY <2>1, <2>2, <2>3, <2>4
<1>7. ASSUME NEW n \in Node PROVE u.input[n] = IF s.input[n] = e THEN NoEdge ELSE s.input[n]
  BY <1>1, <1>2, <1>3, <1>4, <1>5 DEF Store
<1>8. u = Unlink(s, e, first, second)
  BY DEF t, u, Unlink
<1> QED
  BY <1>6, <1>7, <1>8 DEF Moves

(* The edges of two changes, no two of them into one node.                 *)
LEMMA MovesThenLinks ==
  ASSUME NEW s \in Store, NEW t \in Store, NEW u, NEW e, NEW es, NEW fs,
         Moves(s, e, es, t), Moves(t, NoEdge, fs, u),
         \A a \in es, b \in fs : a.dst # b.dst
  PROVE  Moves(s, e, es \cup fs, u)
<1>1. ASSUME NEW n \in Node
      PROVE  u.outputs[n] = (s.outputs[n] \ {e}) \cup {a \in es \cup fs : a.src = n}
  <2>1. t.outputs[n] = (s.outputs[n] \ {e}) \cup {a \in es : a.src = n}
    BY DEF Moves
  <2>2. u.outputs[n] = (t.outputs[n] \ {NoEdge}) \cup {a \in fs : a.src = n}
    BY DEF Moves
  <2>3. NoEdge \notin t.outputs[n]
    BY StoreAssumption DEF Store
  <2> QED
    BY <2>1, <2>2, <2>3
<1>2. ASSUME NEW n \in NormalNode, NEW a \in es \cup fs, a.dst = n PROVE u.input[n] = a
  <2>1. n \in Node
    BY DEF NormalNode
  <2>2. CASE a \in fs
    BY <1>2, <2>2 DEF Moves
  <2>3. CASE a \in es
    <3>1. t.input[n] = a
      BY <1>2, <2>3 DEF Moves
    <3>2. u.input[n] = t.input[n]
      BY <1>2, <2>1, <2>3 DEF Moves
    <3> QED
      BY <3>1, <3>2
  <2> QED
    BY <2>2, <2>3
<1>3. ASSUME NEW n \in Node, n \in NormalNode => \A a \in es \cup fs : a.dst # n
      PROVE  u.input[n] = IF s.input[n] = e THEN NoEdge ELSE s.input[n]
  <2>1. t.input[n] = IF s.input[n] = e THEN NoEdge ELSE s.input[n]
    BY <1>3 DEF Moves
  <2>2. u.input[n] = t.input[n]
    BY <1>3 DEF Moves
  <2> QED
    BY <2>1, <2>2
<1> QED
  BY <1>1, <1>2, <1>3 DEF Moves

(* What was connected before an edge is taken off stays.                   *)
LEMMA LinksThenUnlink ==
  ASSUME NEW s \in Store, NEW t \in Store, NEW u, NEW e \in Edge, NEW es,
         Moves(s, NoEdge, es, t), Moves(t, e, {}, u), e \notin es
  PROVE  Moves(s, e, es, u)
<1>1. ASSUME NEW n \in Node
      PROVE  u.outputs[n] = (s.outputs[n] \ {e}) \cup {a \in es : a.src = n}
  <2>1. t.outputs[n] = (s.outputs[n] \ {NoEdge}) \cup {a \in es : a.src = n}
    BY DEF Moves
  <2>2. u.outputs[n] = t.outputs[n] \ {e}
    BY DEF Moves
  <2>3. NoEdge \notin s.outputs[n]
    BY StoreAssumption DEF Store
  <2> QED
    BY <2>1, <2>2, <2>3
<1>2. ASSUME NEW n \in Node PROVE u.input[n] = IF t.input[n] = e THEN NoEdge ELSE t.input[n]
  BY DEF Moves
<1>3. ASSUME NEW n \in NormalNode, NEW a \in es, a.dst = n PROVE u.input[n] = a
  <2>1. t.input[n] = a /\ a # e
    BY <1>3 DEF Moves
  <2> QED
    BY <1>2, <2>1 DEF NormalNode
<1>4. ASSUME NEW n \in Node, n \in NormalNode => \A a \in es : a.dst # n
      PROVE  u.input[n] = IF s.input[n] = e THEN NoEdge ELSE s.input[n]
  <2>1. t.input[n] = s.input[n]
    BY <1>4 DEF Moves
  <2> QED
    BY <1>2, <2>1
<1> QED
  BY <1>1, <1>3, <1>4 DEF Moves

(* Taking an edge off both its ends keeps the ends of all others agreed.   *)
LEMMA UnlinkIsSound ==
  ASSUME NEW s, Sound(s), NEW e \in Edge, e.src # e.dst,
         NEW first, NEW second, {first, second} = {e.src, e.dst}
  PROVE  Sound(Unlink(s, e, first, second))
<1> DEFINE t == Unlink(s, e, first, second)
<1>1. first \in Node /\ second \in Node /\ s \in Store
  BY DEF Edge, Sound
<1>2. t \in Store /\ EndsAgree(t) /\ UniqueIds(t)
  BY <1>1, UnlinkShrinks, ShrinkKeepsConsistency DEF Sound
<1>3. Moves(s, e, {}, t)
  BY UnlinkMoves DEF Sound
<1> HIDE DEF t
<1>4. ASSUME NEW n \in Node, Driven(t, n) PROVE t.input[n] \in t.outputs[t.input[n].src]
  <2>1. t.input[n] = IF s.input[n] = e THEN NoEdge ELSE s.input[n]
    BY <1>3 DEF Moves
  <2>2. t.input[n] = s.input[n] /\ s.input[n] # e /\ Driven(s, n)
    BY <1>4, <2>1 DEF Driven
  <2>3. s.input[n].src \in Node /\ s.input[n] \in s.outputs[s.input[n].src]
    BY <1>1, <2>2 DEF Sound, Backed, Store, Edge, Driven
  <2>4. t.outputs[s.input[n].src] = s.outputs[s.input[n].src] \ {e}
    BY <1>3, <2>3 DEF Moves
  <2> QED
    BY <2>2, <2>3, <2>4
<1> QED
  BY <1>2, <1>4 DEF Sound, Backed, t

(* So does a connection.                                                   *)
LEMMA LinkIsSound ==
  ASSUME NEW s, Sound(s), NEW dst \in Node, NEW src \in Node, FreshIds(s) # {}
  PROVE  Sound(Link(s, dst, src))
BY LinkEffect, LinkKeepsConsistency, LinkKeepsBacked DEF Sound
-----------------------------------------------------------------------------
(* t is a sound store that differs from s by what some calls of Connect,   *)
(* and taking off the edge e, amount to.                                   *)
Changes(s, e, made, t) ==
  /\ Sound(t)
  /\ \E es \in SUBSET NewEdges :
       Moves(s, e, es, t) /\ made = {<<a.dst, a.src>> : a \in es}

(* At most two calls, with different destinations.                         *)
CallList(c) ==
  \/ c = << >>
  \/ \E x \in Node \X Node : c = <<x>>
  \/ \E x, y \in Node \X Node : c = <<x, y>> /\ x[1] # y[1]

LinkAll(s, c) == LinkNth(LinkNth(s, c, 1), c, 2)

(* One call of Connect as a change.                                        *)
LEMMA LinkChanges ==
  ASSUME NEW s, Sound(s), NEW dst \in Node, NEW src \in Node, FreshIds(s) # {}
  PROVE  Changes(s, NoEdge, {<<dst, src>>}, Link(s, dst, src))
<1> DEFINE a == NewEdge(s, dst, src)
<1>1. a \in NewEdges /\ Moves(s, NoEdge, {a}, Link(s, dst, src))
  BY LinkMoves DEF Sound
<1>2. a.dst = dst /\ a.src = src
  BY DEF NewEdge
<1> HIDE DEF a
<1>3. {<<dst, src>>} = {<<b.dst, b.src>> : b \in {a}}
  BY <1>2
<1>4. Sound(Link(s, dst, src))
  BY LinkIsSound
<1>5. {a} \in SUBSET NewEdges
  BY <1>1
<1> QED
  BY <1>1, <1>3, <1>4, <1>5 DEF Changes

(* No call at all as a change.                                             *)
LEMMA NothingChanges ==
  ASSUME NEW s, Sound(s) PROVE Changes(s, NoEdge, {}, s)
<1>1. \A n \in Node : NoEdge \notin s.outputs[n]
  BY StoreAssumption DEF Sound, Store
<1>2. Moves(s, NoEdge, {}, s)
  BY <1>1 DEF Moves
<1>3. {} \in SUBSET NewEdges /\ {} = {<<b.dst, b.src>> : b \in {}}
  OBVIOUS
<1> QED
  BY <1>2, <1>3 DEF Changes

(* A connection takes one identity.                                        *)
LEMMA LinkTakesOneId ==
  ASSUME NEW s, Sound(s), NEW dst \in Node, NEW src \in Node, Cardinality(FreshIds(s)) >= 2
  PROVE  FreshIds(s) # {} /\ FreshIds(Link(s, dst, src)) # {}
<1> DEFINE a == NewEdge(s, dst, src)
           t == Link(s, dst, src)
<1>1. FreshIds(s) # {}
  BY FS_EmptySet
<1>2. \A x : FreshIds(s) # {x}
  BY FS_Singleton
<1>3. Moves(s, NoEdge, {a}, t)
  BY <1>1, LinkMoves DEF Sound
<1> HIDE DEF a, t
<1>4. Held(t) \subseteq Held(s) \cup {a}
  <2>1. \A n \in Node : t.outputs[n] \subseteq s.outputs[n] \cup {a}
    BY <1>3 DEF Moves
  <2>2. (UNION {t.outputs[n] : n \in Node}) \subseteq (UNION {s.outputs[n] : n \in Node}) \cup {a}
    BY <2>1
  <2>3. ASSUME NEW n \in Node PROVE t.input[n] \in {NoEdge, a, s.input[n]}
    <3>1. CASE n \in NormalNode /\ a.dst = n
      BY <1>3, <3>1 DEF Moves
    <3>2. CASE ~ (n \in NormalNode /\ a.dst = n)
      <4>1. n \in NormalNode => \A b \in {a} : b.dst # n
        BY <3>2
      <4>2. t.input[n] = IF s.input[n] = NoEdge THEN NoEdge ELSE s.input[n]
        BY <1>3, <4>1 DEF Moves
      <4> QED
        BY <4>2
    <3> QED
      BY <3>1, <3>2
  <2>4. Inputs(t) \subseteq Inputs(s) \cup {a}
    BY <2>3 DEF Inputs
  <2> QED
    BY <2>2, <2>4 DEF Held
<1>5. PICK i \in FreshIds(s) : i # a.id
  BY <1>1, <1>2
<1>6. i \in EdgeId /\ \A f \in Held(s) : f.id # i
  BY <1>5 DEF FreshIds
<1>7. \A f \in Held(t) : f.id # i
  BY <1>4, <1>5, <1>6
<1>8. i \in FreshIds(t)
  BY <1>6, <1>7 DEF FreshIds
<1> QED
  BY <1>1, <1>8 DEF t

(* The calls of a list, one after the other, as one change.                *)
LEMMA LinksChange ==
  ASSUME NEW s, Sound(s), NEW c, CallList(c), Cardinality(FreshIds(s)) >= Len(c)
  PROVE  Changes(s, NoEdge, Range(c), LinkAll(s, c))
<1>1. CASE c = << >>
  <2>1. LinkAll(s, c) = s /\ Range(c) = {}
    BY <1>1 DEF LinkAll, LinkNth, Range
  <2> QED
    BY <2>1, NothingChanges
<1>2. ASSUME NEW x \in Node \X Node, c = <<x>>
      PROVE  Changes(s, NoEdge, Range(c), LinkAll(s, c))
  <2>1. DOMAIN c = {1} /\ c[1] = x /\ Len(c) = 1
    BY <1>2
  <2>2. LinkAll(s, c) = Link(s, x[1], x[2])
    BY <2>1 DEF LinkAll, LinkNth
  <2>3. Range(c) = {<<x[1], x[2]>>}
    BY <2>1 DEF Range
  <2>4. FreshIds(s) # {}
    BY <2>1, FS_EmptySet
  <2> QED
    BY <2>2, <2>3, <2>4, LinkChanges
<1>3. ASSUME NEW x \in Node \X Node, NEW y \in Node \X Node, c = <<x, y>>, x[1] # y[1]
      PROVE  Changes(s, NoEdge, Range(c), LinkAll(s, c))
  <2> DEFINE t == Link(s, x[1], x[2])
             u == Link(t, y[1], y[2])
  <2>1. DOMAIN c = {1, 2} /\ c[1] = x /\ c[2] = y /\ Len(c) = 2
    BY <1>3
  <2>2. LinkAll(s, c) = u
    BY <2>1 DEF LinkAll, LinkNth
  <2>3. FreshIds(s) # {} /\ FreshIds(t) # {}
    BY <2>1, LinkTakesOneId
  <2>4. Changes(s, NoEdge, {<<x[1], x[2]>>}, t)
    BY <2>3, LinkChanges
  <2>5. Sound(t)
    BY <2>4 DEF Changes
  <2>6. Changes(t, NoEdge, {<<y[1], y[2]>>}, u)
    BY <2>3, <2>5, LinkChanges
  <2> HIDE DEF t, u
  <2>7. PICK es \in SUBSET NewEdges :
          Moves(s, NoEdge, es, t) /\ {<<x[1], x[2]>>} = {<<a.dst, a.src>> : a \in es}
    BY <2>4 DEF Changes
  <2>8. PICK fs \in SUBSET NewEdges :
          Moves(t, NoEdge, fs, u) /\ {<<y[1], y[2]>>} = {<<a.dst, a.src>> : a \in fs}
    BY <2>6 DEF Changes
  <2>9. \A a \in es, b \in fs : a.dst # b.dst
    <3>1. \A a \in es : <<a.dst, a.src>> = <<x[1], x[2]>>
      BY <2>7
    <3>2. \A b \in fs : <<b.dst, b.src>> = <<y[1], y[2]>>
      BY <2>8
    <3> QED
      BY <1>3, <3>1, <3>2
  <2>10. Moves(s, NoEdge, es \cup fs, u)
    BY <2>5, <2>7, <2>8, <2>9, MovesThenLinks DEF Sound
  <2>11. Range(c) = {x, y} /\ x = <<x[1], x[2]>> /\ y = <<y[1], y[2]>>
    BY <2>1 DEF Range
  <2>12. Range(c) = {<<a.dst, a.src>> : a \in es \cup fs}
    BY <2>7, <2>8, <2>11
  <2>13. es \cup fs \in SUBSET NewEdges
    OBVIOUS
  <2> QED
    BY <2>2, <2>6, <2>10, <2>12, <2>13 DEF Changes
<1> QED
  BY <1>1, <1>2, <1>3 DEF CallList

(* What one turn of a loop does to the edges, in either order.             *)
LEMMA RerouteChanges ==
  ASSUME Sound(store), NEW e \in Edge, e.src # e.dst, NEW other, {walk.node, other} = {e.src, e.dst},
         NEW c, CallList(c), <<e.dst, e.src>> \notin Range(c), Reroute(e, other, c)
  PROVE  Changes(store, e, Range(c), store')
<1> DEFINE Off(s) == Unlink(s, e, walk.node, other)
<1>1. CASE walk.node \in Element
  <2> DEFINE t == LinkAll(store, c)
  <2>1. Cardinality(FreshIds(store)) >= Len(c) /\ store' = Off(t)
    BY <1>1 DEF Reroute, LinkAll
  <2>2. Changes(store, NoEdge, Range(c), t)
    BY <2>1, LinksChange
  <2> HIDE DEF t
  <2>3. PICK es \in SUBSET NewEdges :
          Moves(store, NoEdge, es, t) /\ Range(c) = {<<a.dst, a.src>> : a \in es}
    BY <2>2 DEF Changes
  <2>4. Sound(t)
    BY <2>2 DEF Changes
  <2>5. Moves(t, e, {}, Off(t)) /\ Sound(Off(t))
    BY <2>4, UnlinkMoves, UnlinkIsSound DEF Sound
  <2>6. e \notin es
    BY <2>3
  <2> HIDE DEF Off
  <2>7. Moves(store, e, es, Off(t))
    BY <2>3, <2>4, <2>5, <2>6, LinksThenUnlink DEF Sound
  <2> QED
    BY <2>1, <2>3, <2>5, <2>7 DEF Changes
<1>2. CASE walk.node \notin Element
  <2> DEFINE t == Off(store)
  <2>1. Cardinality(FreshIds(t)) >= Len(c) /\ store' = LinkAll(t, c)
    BY <1>2 DEF Reroute, LinkAll
  <2>2. Moves(store, e, {}, t) /\ Sound(t)
    BY UnlinkMoves, UnlinkIsSound DEF Sound
  <2> HIDE DEF t
  <2>3. Changes(t, NoEdge, Range(c), store')
    BY <2>1, <2>2, LinksChange
  <2>4. PICK es \in SUBSET NewEdges :
          Moves(t, NoEdge, es, store') /\ Range(c) = {<<a.dst, a.src>> : a \in es}
    BY <2>3 DEF Changes
  <2>5. Moves(store, e, {} \cup es, store')
    BY <2>2, <2>4, MovesThenLinks DEF Sound
  <2>6. {} \cup es = es
    OBVIOUS
  <2> QED
    BY <2>3, <2>4, <2>5, <2>6 DEF Changes
<1> QED
  BY <1>1, <1>2
-----------------------------------------------------------------------------
(* Edges go with the directions of the ports they join.                    *)
Facing == \A n \in Node : \A e \in store.outputs[n] : DirectionsAllow(dir, e.dst, e.src)

(* No edge leads to or from x.                                             *)
NoEdgeAt(x) == \A n \in Node : \A e \in store.outputs[n] : e.src # x /\ e.dst # x

(* The signal the k-th walk makes for p is not made yet, or not connected. *)
Unconnected(p, k) ==
  \/ k > walks
  \/ k = walks /\ walk # Idle /\ p \in walk.ports
  \/ /\ k = walks /\ walk # Idle /\ walk.phase # "next" /\ p = walk.node
     /\ ~ walk.sank /\ ~ walk.sourced
Fresh == \A p \in Resolvable, k \in 1..MaxWalks : Unconnected(p, k) => NoEdgeAt(NewSignal[<<p, k>>])

(* What the loops over the edges of a port know.                           *)
WalkOK ==
  walk # Idle =>
    /\ walks \in 1..MaxWalks
    /\ walk.node \in Resolvable
    /\ walk.phase # "next" => walk.node \notin walk.ports /\ walk.sig = NewSignal[<<walk.node, walks>>]
    /\ walk.sank => dir[walk.node] = "out"
    /\ walk.sourced => dir[walk.node] = "in"
    /\ walk.phase = "sinks" =>
         ~ walk.sourced /\ \A e \in walk.todo : e \in store.outputs[walk.node] /\ e.dst # walk.sig
    /\ walk.phase = "sources" =>
         /\ \A e \in walk.todo : e = store.input[walk.node] /\ e # NoEdge /\ ~ walk.sourced
         /\ walk.sourced /\ walk.node \in Element => ~ Driven(store, walk.node)

SigInv == Sound(store) /\ Facing /\ Fresh /\ WalkOK

Told ==
  \A n \in Node : \A e \in store.outputs[n] :
    e.dst \in NormalNode \ Signals => store.input[e.dst] = e

(* Every edge at p leads to x.                                             *)
LeadsTo(p, x) == \A e \in EdgesAt(p) : OtherEnd(e, p) = x

Routed ==
  walk # Idle =>
    /\ \A p \in Resolvable \ walk.ports :
         walk.phase = "next" \/ p # walk.node => LeadsTo(p, NewSignal[<<p, walks>>])
    /\ walk.phase = "sinks" =>
         \A e \in store.outputs[walk.node] : e \in walk.todo \/ e.dst = walk.sig
    /\ walk.phase = "sources" =>
         /\ \A e \in store.outputs[walk.node] : e.dst = walk.sig
         /\ Driven(store, walk.node) => store.input[walk.node] \in walk.todo
                                        \/ store.input[walk.node].src = walk.sig
-----------------------------------------------------------------------------
(* Signals are nodes of their own on the component, and no two ports or    *)
(* walks share one.                                                        *)
LEMMA SignalFacts ==
  /\ \A s \in Signals : s \in Node /\ Kind[s] = "signal" /\ OnComponent(s) /\ s \in NormalNode /\ s \notin Port
  /\ \A p \in Resolvable : p \in Node /\ p \in Port /\ p \in NormalNode /\ OnInstance(p) /\ p \notin Signals
  /\ \A p \in Resolvable, k \in 1..MaxWalks : NewSignal[<<p, k>>] \in Signals
  /\ \A p, q \in Resolvable, j, k \in 1..MaxWalks :
       NewSignal[<<p, j>>] = NewSignal[<<q, k>>] => p = q /\ j = k
<1>1. \A x \in Resolvable \X (1..MaxWalks) :
        NewSignal[x] \in Node /\ Kind[NewSignal[x]] = "signal" /\ OnComponent(NewSignal[x])
  BY SignalizeAssumption
<1>2. \A p \in Resolvable, k \in 1..MaxWalks :
        /\ <<p, k>> \in Resolvable \X (1..MaxWalks)
        /\ <<p, k>> \in DOMAIN NewSignal
        /\ NewSignal[<<p, k>>] = NewSignal[<<p, k>>]
  BY SignalizeAssumption
<1>3. \A s \in Signals : s \in Node /\ Kind[s] = "signal" /\ OnComponent(s) /\ s \in NormalNode /\ s \notin Port
  BY <1>1 DEF Signals, NormalNode, Port
<1>4. \A p \in Resolvable : p \in Node /\ p \in Port /\ p \in NormalNode /\ OnInstance(p)
  BY DEF Resolvable, InstancePort, Port, NormalNode
<1>5. \A p \in Resolvable, k \in 1..MaxWalks : NewSignal[<<p, k>>] \in Signals
  BY <1>2 DEF Signals
<1>6. \A p, q \in Resolvable, j, k \in 1..MaxWalks :
       NewSignal[<<p, j>>] = NewSignal[<<q, k>>] => p = q /\ j = k
  <2> SUFFICES ASSUME NEW p \in Resolvable, NEW q \in Resolvable, NEW j \in 1..MaxWalks, NEW k \in 1..MaxWalks,
                      NewSignal[<<p, j>>] = NewSignal[<<q, k>>]
               PROVE  p = q /\ j = k
    OBVIOUS
  <2>1. <<p, j>> = <<q, k>>
    BY <1>2, SignalizeAssumption
  <2> QED
    BY <2>1
<1> QED
  BY <1>3, <1>4, <1>5, <1>6

(* What a change leaves at a node.                                         *)
LEMMA ChangesOutputs ==
  ASSUME NEW s, NEW e, NEW made, NEW t, Changes(s, e, made, t), NEW n \in Node
  PROVE  /\ \A a \in t.outputs[n] : \/ a \in s.outputs[n] /\ a # e
                                    \/ <<a.dst, a.src>> \in made /\ a \in NewEdges
         /\ \A a \in s.outputs[n] : a # e => a \in t.outputs[n]
<1>1. PICK es \in SUBSET NewEdges : Moves(s, e, es, t) /\ made = {<<a.dst, a.src>> : a \in es}
  BY DEF Changes
<1>2. t.outputs[n] = (s.outputs[n] \ {e}) \cup {a \in es : a.src = n}
  BY <1>1 DEF Moves
<1> QED
  BY <1>1, <1>2

(* The input of a node after a change is the connection made to it, or     *)
(* what it had.                                                            *)
LEMMA ChangesInput ==
  ASSUME NEW s, NEW e, NEW made, NEW t, Changes(s, e, made, t), NEW n \in Node
  PROVE  /\ \A x \in made : x[1] = n /\ n \in NormalNode =>
              /\ t.input[n] \in NewEdges /\ t.input[n] # NoEdge
              /\ t.input[n].src = x[2] /\ t.input[n].dst = n
         /\ (n \in NormalNode => \A x \in made : x[1] # n) =>
              t.input[n] = IF s.input[n] = e THEN NoEdge ELSE s.input[n]
<1>1. PICK es \in SUBSET NewEdges : Moves(s, e, es, t) /\ made = {<<a.dst, a.src>> : a \in es}
  BY DEF Changes
<1>2. ASSUME NEW x \in made, x[1] = n, n \in NormalNode
      PROVE  /\ t.input[n] \in NewEdges /\ t.input[n] # NoEdge
             /\ t.input[n].src = x[2] /\ t.input[n].dst = n
  <2>1. PICK a \in es : x = <<a.dst, a.src>>
    BY <1>1, <1>2
  <2>4. a.dst = n /\ a.src = x[2]
    BY <1>2, <2>1
  <2>2. t.input[n] = a
    BY <1>1, <1>2, <2>4 DEF Moves
  <2>3. a \in NewEdges /\ a # NoEdge /\ a \in es
    <3>1. NewEdges \subseteq Edge
      BY DEF NewEdges, Edge
    <3> QED
      BY <3>1, StoreAssumption
  <2> QED
    BY <2>2, <2>3, <2>4
<1>3. ASSUME n \in NormalNode => \A x \in made : x[1] # n
      PROVE  t.input[n] = IF s.input[n] = e THEN NoEdge ELSE s.input[n]
  <2>1. \A a \in es : <<a.dst, a.src>> \in made /\ <<a.dst, a.src>>[1] = a.dst
    BY <1>1
  <2>2. n \in NormalNode => \A a \in es : a.dst # n
    BY <1>3, <2>1
  <2> QED
    BY <1>1, <2>2 DEF Moves
<1> QED
  BY <1>2, <1>3

(* Driver of a node after a change.                                        *)
LEMMA ChangesDriver ==
  ASSUME NEW s, NEW e, NEW made, NEW t, Changes(s, e, made, t), NEW n \in Node
  PROVE  /\ \A x \in made : x[1] = n /\ n \in NormalNode => DriverOf(t, n) = x[2]
         /\ (n \in NormalNode => \A x \in made : x[1] # n) /\ s.input[n] # e =>
              DriverOf(t, n) = DriverOf(s, n)
BY ChangesInput DEF DriverOf, Driven
-----------------------------------------------------------------------------
SinkMade(e) == IF walk.node \in Element THEN {<<e.dst, walk.sig>>}
                                        ELSE {<<e.dst, walk.sig>>, <<walk.sig, walk.node>>}
SourceMade(e) == IF walk.node \in Element THEN {<<walk.sig, e.src>>}
                                          ELSE {<<walk.sig, e.src>>, <<walk.node, walk.sig>>}
CloseMade ==
  {x \in {<<walk.sig, walk.node>>, <<walk.node, walk.sig>>} :
     /\ walk.node \in Element
     /\ x = <<walk.sig, walk.node>> => walk.sank
     /\ x = <<walk.node, walk.sig>> => walk.sourced}

Turn(e, made) ==
  /\ Changes(store, e, made, store')
  /\ \A x \in made : DirectionsAllow(dir, x[1], x[2])
  /\ rebind' \in [Node -> Node \cup {NoNode}]
  /\ dir' = dir /\ walks' = walks

(* A turn of the loop over the sinks of a port, and of the loop over its   *)
(* sources, in a state of the walk that is known.                          *)
SinkTurn(e) ==
  /\ walk # Idle /\ walk.phase = "sinks" /\ e \in walk.todo /\ e \in store.outputs[walk.node]
  /\ e \in Edge /\ e.src = walk.node /\ e.dst # walk.node /\ e.dst # walk.sig
  /\ dir[walk.node] = "out"
  /\ Turn(e, SinkMade(e))
  /\ walk' = [walk EXCEPT !.todo = @ \ {e}, !.sank = TRUE]
  /\ calls' = calls

SourceTurn(e) ==
  /\ walk # Idle /\ walk.phase = "sources" /\ walk.todo = {e}
  /\ e = store.input[walk.node] /\ e \in store.outputs[e.src]
  /\ e \in Edge /\ e.dst = walk.node /\ e.src # walk.node /\ e.src # walk.sig
  /\ dir[walk.node] = "in" /\ ~ walk.sank /\ ~ walk.sourced
  /\ Turn(e, SourceMade(e))
  /\ walk' = [walk EXCEPT !.todo = {}, !.sourced = TRUE]
  /\ calls' = calls

(* The node and the signal of a walk that is past its first step.          *)
LEMMA WalkNodes ==
  ASSUME SigTypeOK, SigInv, walk # Idle, walk.phase # "next"
  PROVE  /\ walk \in Walk /\ walk.node \in Resolvable /\ walk.sig = NewSignal[<<walk.node, walks>>]
         /\ walks \in 1..MaxWalks /\ walk.node \in Node /\ walk.node \in Port /\ OnInstance(walk.node)
         /\ walk.node \in NormalNode /\ walk.node \notin Signals
         /\ walk.sig \in Signals /\ walk.sig \in Node /\ walk.sig \in NormalNode /\ walk.sig \notin Port
         /\ walk.sig # walk.node
         /\ dir \in [Port -> Dirs]
<1>1. walk \in Walk /\ walk.node \in Resolvable /\ walk.sig = NewSignal[<<walk.node, walks>>]
      /\ walks \in 1..MaxWalks /\ dir \in [Port -> Dirs]
  BY DEF SigInv, WalkOK, SigTypeOK, TypeOK
<1>2. walk.sig \in Signals
  BY <1>1, SignalFacts
<1> QED
  BY <1>1, <1>2, SignalFacts

(* No edge joins an instance port to itself, and one that has sinks is     *)
(* read, one that has a source driven.                                     *)
LEMMA InstancePortFaces ==
  ASSUME dir \in [Port -> Dirs], NEW p \in Port, OnInstance(p), NEW q
  PROVE  /\ DirectionsAllow(dir, q, p) => dir[p] = "out" /\ q # p
         /\ DirectionsAllow(dir, p, q) => dir[p] = "in" /\ q # p
BY DEF DirectionsAllow, MayDrive, MayRead, Dirs

(* The calls of a list keep the type of inst_to_comp.                      *)
LEMMA RememberAllType ==
  ASSUME NEW r \in [Node -> Node \cup {NoNode}], NEW c, CallList(c)
  PROVE  RememberAll(r, c) \in [Node -> Node \cup {NoNode}]
<1>1. \A i \in DOMAIN c : c[i][2] \in Node
  BY DEF CallList
<1>2. ASSUME NEW q \in [Node -> Node \cup {NoNode}], NEW i
      PROVE  RememberNth(q, c, i) \in [Node -> Node \cup {NoNode}]
  BY <1>1 DEF RememberNth, Remember
<1> QED
  BY <1>2 DEF RememberAll

(* AttachSink is a turn of the loop over sinks: the edge is one of the     *)
(* port, whose direction says that the port is read.                       *)
LEMMA SinkTurns ==
  ASSUME SigTypeOK, SigInv, AttachSink
  PROVE  \E e \in walk.todo : SinkTurn(e)
<1>1. walk # Idle /\ walk.phase = "sinks"
  BY DEF AttachSink, In
<1>2. PICK e \in walk.todo : /\ Reroute(e, e.dst, SinkCalls(e))
                             /\ walk' = [walk EXCEPT !.todo = @ \ {e}, !.sank = TRUE]
  BY DEF AttachSink
<1>3. e \in store.outputs[walk.node] /\ e.dst # walk.sig /\ e \in Edge
  BY <1>1, WalkNodes DEF SigInv, WalkOK, Walk
<1>4. e.src = walk.node /\ e.dst \in Node
  BY <1>1, <1>3, WalkNodes DEF SigInv, Sound, EndsAgree, Edge
<1>5. DirectionsAllow(dir, e.dst, e.src)
  BY <1>1, <1>3, WalkNodes DEF SigInv, Facing
<1>6. dir[walk.node] = "out" /\ e.dst # walk.node
  BY <1>1, <1>4, <1>5, WalkNodes, InstancePortFaces
<1>7. CallList(SinkCalls(e)) /\ Range(SinkCalls(e)) = SinkMade(e)
  <2>1. <<e.dst, walk.sig>> \in Node \X Node /\ <<walk.sig, walk.node>> \in Node \X Node
    BY <1>1, <1>4, WalkNodes
  <2>2. CASE walk.node \in Element
    <3>1. SinkCalls(e) = << <<e.dst, walk.sig>> >>
      BY <2>2 DEF SinkCalls
    <3> QED
      BY <2>1, <2>2, <3>1 DEF CallList, Range, SinkMade
  <2>3. CASE walk.node \notin Element
    <3>1. SinkCalls(e) = << <<e.dst, walk.sig>>, <<walk.sig, walk.node>> >>
      BY <2>3 DEF SinkCalls
    <3>2. Range(SinkCalls(e)) = SinkMade(e)
      BY <2>3, <3>1 DEF Range, SinkMade
    <3> QED
      BY <1>3, <2>1, <3>1, <3>2 DEF CallList
  <2> QED
    BY <2>2, <2>3
<1>8. <<e.dst, e.src>> \notin SinkMade(e)
  BY <1>1, <1>3, <1>4, WalkNodes DEF SinkMade
<1>9. Changes(store, e, SinkMade(e), store')
  BY <1>2, <1>3, <1>4, <1>6, <1>7, <1>8, RerouteChanges DEF SigInv
<1>10. \A x \in SinkMade(e) : DirectionsAllow(dir, x[1], x[2])
  BY <1>2, <1>7 DEF Reroute, CallsAllowed, Allowed, Range
<1>11. dir' = dir /\ walks' = walks /\ calls' = calls
  BY <1>2 DEF Reroute
<1>12. rebind' \in [Node -> Node \cup {NoNode}]
  <2>1. rebind' = RememberAll(rebind, SinkCalls(e)) /\ rebind \in [Node -> Node \cup {NoNode}]
    BY <1>2 DEF Reroute, SigTypeOK, TypeOK
  <2> QED
    BY <1>7, <2>1, RememberAllType
<1> QED
  BY <1>12, <1>1, <1>2, <1>3, <1>4, <1>6, <1>9, <1>10, <1>11 DEF SinkTurn, Turn

(* AttachSource is a turn of the loop over sources, and there is only one: *)
(* the port was driven by the edge and its signal is not connected yet.    *)
LEMMA SourceTurns ==
  ASSUME SigTypeOK, SigInv, AttachSource
  PROVE  \E e \in walk.todo : SourceTurn(e)
<1>1. walk # Idle /\ walk.phase = "sources"
  BY DEF AttachSource, In
<1>2. PICK e \in walk.todo : /\ Reroute(e, e.src, SourceCalls(e))
                             /\ walk' = [walk EXCEPT !.todo = @ \ {e}, !.sourced = TRUE]
  BY DEF AttachSource
<1>3. e = store.input[walk.node] /\ e # NoEdge /\ ~ walk.sourced /\ e \in Edge
      /\ \A f \in walk.todo : f = e
  BY <1>1, WalkNodes DEF SigInv, WalkOK, Walk
<1>4. e.dst = walk.node /\ e.src \in Node /\ e \in store.outputs[e.src]
  BY <1>1, <1>3, WalkNodes DEF SigInv, Sound, EndsAgree, Backed, Driven, Edge
<1>5. DirectionsAllow(dir, e.dst, e.src)
  BY <1>4 DEF SigInv, Facing
<1>6. dir[walk.node] = "in" /\ e.src # walk.node
  BY <1>1, <1>4, <1>5, WalkNodes, InstancePortFaces
<1>7. ~ walk.sank
  BY <1>1, <1>6 DEF SigInv, WalkOK
<1>8. e.src # walk.sig
  <2>1. Unconnected(walk.node, walks)
    BY <1>1, <1>3, <1>7 DEF Unconnected
  <2>2. NoEdgeAt(walk.sig)
    BY <1>1, <2>1, WalkNodes DEF SigInv, Fresh
  <2> QED
    BY <1>4, <2>2 DEF NoEdgeAt
<1>9. CallList(SourceCalls(e)) /\ Range(SourceCalls(e)) = SourceMade(e)
  <2>1. <<walk.sig, e.src>> \in Node \X Node /\ <<walk.node, walk.sig>> \in Node \X Node
        /\ walk.sig # walk.node
    BY <1>1, <1>4, WalkNodes
  <2>2. CASE walk.node \in Element
    <3>1. SourceCalls(e) = << <<walk.sig, e.src>> >>
      BY <2>2 DEF SourceCalls
    <3> QED
      BY <2>1, <2>2, <3>1 DEF CallList, Range, SourceMade
  <2>3. CASE walk.node \notin Element
    <3>1. SourceCalls(e) = << <<walk.sig, e.src>>, <<walk.node, walk.sig>> >>
      BY <2>3 DEF SourceCalls
    <3>2. Range(SourceCalls(e)) = SourceMade(e)
      BY <2>3, <3>1 DEF Range, SourceMade
    <3> QED
      BY <2>1, <3>1, <3>2 DEF CallList
  <2> QED
    BY <2>2, <2>3
<1>10. <<e.dst, e.src>> \notin SourceMade(e)
  BY <1>1, <1>4, <1>8, WalkNodes DEF SourceMade
<1>11. Changes(store, e, SourceMade(e), store')
  <2>1. {walk.node, e.src} = {e.src, e.dst}
    BY <1>4
  <2> QED
    BY <1>2, <1>3, <1>4, <1>6, <1>9, <1>10, <2>1, RerouteChanges DEF SigInv
<1>12. \A x \in SourceMade(e) : DirectionsAllow(dir, x[1], x[2])
  BY <1>2, <1>9 DEF Reroute, CallsAllowed, Allowed, Range
<1>13. dir' = dir /\ walks' = walks /\ calls' = calls
  BY <1>2 DEF Reroute
<1>14. walk.todo = {e} /\ walk.todo \ {e} = {}
  BY <1>2, <1>3
<1>15. rebind' \in [Node -> Node \cup {NoNode}]
  <2>1. rebind' = RememberAll(rebind, SourceCalls(e)) /\ rebind \in [Node -> Node \cup {NoNode}]
    BY <1>2 DEF Reroute, SigTypeOK, TypeOK
  <2> QED
    BY <1>9, <2>1, RememberAllType
<1> QED
  BY <1>15, <1>1, <1>2, <1>3, <1>4, <1>6, <1>7, <1>8, <1>11, <1>12, <1>13, <1>14 DEF SourceTurn, Turn

(* The connections made for an array element after both loops.             *)
CloseTurn ==
  /\ walk # Idle /\ walk.phase = "sources" /\ walk.todo = {}
  /\ Turn(NoEdge, CloseMade)
  /\ walk' = [walk EXCEPT !.phase = "next"]
  /\ calls' = calls

(* PortDone makes what the loops left to be made.                          *)
LEMMA CloseTurns ==
  ASSUME SigTypeOK, SigInv, PortDone
  PROVE  CloseTurn
<1>1. walk # Idle /\ walk.phase = "sources" /\ walk.todo = {}
  BY DEF PortDone, In
<1> DEFINE c == IF walk.node \in Element THEN CloseCalls ELSE << >>
<1>2. /\ CallsAllowed(c) /\ Cardinality(FreshIds(store)) >= Len(c)
      /\ store' = LinkAll(store, c) /\ rebind' = RememberAll(rebind, c)
      /\ walk' = [walk EXCEPT !.phase = "next"]
      /\ dir' = dir /\ walks' = walks /\ calls' = calls
  BY DEF PortDone, LinkAll
<1>3. ~ (walk.sank /\ walk.sourced)
  BY <1>1, WalkNodes DEF SigInv, WalkOK
<1>4. walk.sank \in BOOLEAN /\ walk.sourced \in BOOLEAN
  BY <1>1, WalkNodes DEF Walk
<1>5. /\ << >> \o << >> = << >>
      /\ \A x : << x >> \o << >> = << x >> /\ << >> \o << x >> = << x >>
  OBVIOUS
<1>6. CallList(c) /\ Range(c) = CloseMade
  <2>1. <<walk.sig, walk.node>> \in Node \X Node /\ <<walk.node, walk.sig>> \in Node \X Node
        /\ walk.sig # walk.node
    BY <1>1, WalkNodes
  <2>2. CASE walk.node \notin Element \/ (~ walk.sank /\ ~ walk.sourced)
    <3>1. c = << >>
      BY <1>5, <2>2 DEF CloseCalls
    <3> QED
      BY <2>2, <3>1 DEF CallList, Range, CloseMade
  <2>3. CASE walk.node \in Element /\ walk.sank
    <3>1. c = << <<walk.sig, walk.node>> >>
      BY <1>3, <1>4, <1>5, <2>3 DEF CloseCalls
    <3>2. CloseMade = {<<walk.sig, walk.node>>}
      BY <1>3, <2>1, <2>3 DEF CloseMade
    <3> QED
      BY <2>1, <3>1, <3>2 DEF CallList, Range
  <2>4. CASE walk.node \in Element /\ walk.sourced
    <3>1. c = << <<walk.node, walk.sig>> >>
      BY <1>3, <1>4, <1>5, <2>4 DEF CloseCalls
    <3>2. CloseMade = {<<walk.node, walk.sig>>}
      BY <1>3, <2>1, <2>4 DEF CloseMade
    <3> QED
      BY <2>1, <3>1, <3>2 DEF CallList, Range
  <2> QED
    BY <2>2, <2>3, <2>4
<1> HIDE DEF c
<1>7. Changes(store, NoEdge, CloseMade, store')
  BY <1>2, <1>6, LinksChange DEF SigInv
<1>8. \A x \in CloseMade : DirectionsAllow(dir, x[1], x[2])
  BY <1>2, <1>6 DEF CallsAllowed, Allowed, Range
<1>9. rebind' \in [Node -> Node \cup {NoNode}]
  BY <1>2, <1>6, RememberAllType DEF SigTypeOK, TypeOK
<1> QED
  BY <1>1, <1>2, <1>7, <1>8, <1>9 DEF CloseTurn, Turn

ClientTurn(dst, src) ==
  /\ walk = Idle /\ walk' = Idle
  /\ Reconnect \/ ~ Driven(store, dst)
  /\ Turn(NoEdge, {<<dst, src>>})
  /\ calls < MaxCalls /\ calls' = calls + 1

(* There is a number of types and sizes that depend on more.               *)
LEMMA BoundIsFinite == Cardinality(Bound) \in Nat
<1>1. /\ IsFiniteSet(InstancePort) /\ IsFiniteSet(ResolvableArray)
      /\ Resolvable \ Element \in SUBSET InstancePort
  BY SignalizeAssumption DEF Resolvable
<1>2. IsFiniteSet(Resolvable \ Element)
  BY <1>1, FS_Subset
<1>3. IsFiniteSet(Item)
  BY <1>1, <1>2, FS_Union DEF Item
<1>4. Bound \in SUBSET Item
  BY DEF Bound
<1>5. IsFiniteSet(Bound)
  BY <1>3, <1>4, FS_Subset
<1> QED
  BY <1>5, FS_CardinalityType

(* A call of the client makes one connection outside of any walk.          *)
LEMMA ClientTurns ==
  ASSUME SigTypeOK, SigInv, NEW dst \in Wires, NEW src \in Wires, UserConnect(dst, src)
  PROVE  ClientTurn(dst, src)
<1>1. dst \in Node /\ src \in Node
  BY DEF Wires
<1>2. FreshIds(store) # {} /\ store' = Link(store, dst, src) /\ dir' = dir
      /\ DirectionsAllow(dir, dst, src) /\ rebind' = Remember(rebind, dst, src)
  BY DEF UserConnect, ConnectNodes, Allowed
<1>3. Changes(store, NoEdge, {<<dst, src>>}, store')
  BY <1>1, <1>2, LinkChanges DEF SigInv
<1>4. rebind' \in [Node -> Node \cup {NoNode}]
  BY <1>1, <1>2 DEF Remember, SigTypeOK, TypeOK
<1>5. \A x \in {<<dst, src>>} : DirectionsAllow(dir, x[1], x[2])
  BY <1>2
<1>6. calls < MaxCalls
  BY BoundIsFinite, SignalizeAssumption DEF UserConnect, SigTypeOK
<1> QED
  BY <1>2, <1>3, <1>4, <1>5, <1>6 DEF ClientTurn, Turn, UserConnect

(* The end of a walk, with or without an exception; a signal array that is *)
(* made; and what the client does to types and sizes, which no edge sees.  *)
Stops     == In("next") /\ walk' = Idle /\ walks' = walks
MakesList ==
  /\ In("next") /\ walks' = walks
  /\ \E A \in SUBSET ResolvableArray : walk' = [walk EXCEPT !.arrays = A]
Rests     == walk' = walk /\ walks' = walks

(* Steps that leave the edges alone.                                       *)
QuietStep ==
  /\ store' = store /\ dir' = dir /\ rebind' = rebind /\ calls' = calls
  /\ \/ BeginWalk \/ (\E p \in Resolvable : Attach(p)) \/ SinksDone
     \/ Stops \/ MakesList \/ Rests

(* The record of a walk that begins an array.                              *)
LEMMA MadeList ==
  ASSUME SigTypeOK, MakesList
  PROVE  /\ walk' \in Walk /\ walk' # Idle /\ walk # Idle /\ walk.phase = "next" /\ walks' = walks
         /\ walk'.ports = walk.ports /\ walk'.phase = walk.phase /\ walk'.node = walk.node
         /\ walk'.sig = walk.sig /\ walk'.todo = walk.todo /\ walk'.sank = walk.sank
         /\ walk'.sourced = walk.sourced
<1>1. walk # Idle /\ walk.phase = "next" /\ walks' = walks /\ walk \in Walk
  BY DEF MakesList, In, SigTypeOK
<1>2. PICK A \in SUBSET ResolvableArray : walk' = [walk EXCEPT !.arrays = A]
  BY DEF MakesList
<1>3. walk' \in Walk
  BY <1>1, <1>2 DEF Walk
<1> QED
  BY <1>1, <1>2, <1>3, SignalizeAssumption DEF Walk

(* Every step is one of five kinds.                                        *)
LEMMA SigSteps ==
  ASSUME SigTypeOK, SigInv, [SigNext]_sigVars
  PROVE  \/ \E dst, src \in Wires : ClientTurn(dst, src)
         \/ \E e \in walk.todo : SinkTurn(e)
         \/ \E e \in walk.todo : SourceTurn(e)
         \/ CloseTurn
         \/ QuietStep
<1>1. CASE \E dst, src \in Wires : UserConnect(dst, src)
  BY <1>1, ClientTurns
<1>2. CASE AttachSink
  BY <1>2, SinkTurns
<1>3. CASE AttachSource
  BY <1>3, SourceTurns
<1>4. CASE PortDone
  BY <1>4, CloseTurns
<1>5. CASE BeginWalk
  BY <1>5 DEF QuietStep, BeginWalk
<1>6. CASE \E p \in Resolvable : Attach(p)
  BY <1>6 DEF QuietStep, Attach
<1>7. CASE SinksDone
  BY <1>7 DEF QuietStep, SinksDone
<1>8. CASE WalkDone \/ WalkThrows
  BY <1>8 DEF QuietStep, Stops, WalkDone, WalkThrows, PortNext, ArrayNext
<1>9. CASE UNCHANGED sigVars \/ \E x \in Item, b \in Binding : UserBinds(x, b)
  BY <1>9 DEF QuietStep, Rests, UserBinds, sigVars
<1>10. ASSUME NEW a \in ResolvableArray, AttachArray(a) PROVE QuietStep
  <2>1. walk.arrays \ {a} \in SUBSET ResolvableArray
    BY <1>10 DEF AttachArray, ArrayNext, In, SigTypeOK, Walk
  <2>2. MakesList
    BY <1>10, <2>1 DEF AttachArray, ArrayNext, MakesList
  <2> QED
    BY <1>10, <2>2 DEF QuietStep, AttachArray
<1> QED
  BY <1>1, <1>2, <1>3, <1>4, <1>5, <1>6, <1>7, <1>8, <1>9, <1>10 DEF SigNext, RerouteStep
-----------------------------------------------------------------------------
(* A new design is sound: its only edges are those from defaults to        *)
(* parameters.                                                             *)
LEMMA SigInitInv == SigInit => SigTypeOK /\ SigInv
<1> SUFFICES ASSUME SigInit PROVE SigTypeOK /\ SigInv
  OBVIOUS
<1>1. Init /\ walks = 0 /\ calls = 0 /\ walk = Idle
  BY DEF SigInit
<1>2. TypeOK /\ HeldConsistently /\ InputBacked
  BY <1>1, TypeInit, StoreInit
<1>3. SigTypeOK
  <2>1. bound = [x \in Item |-> "own"] /\ user = InUse
    BY DEF SigInit
  <2>2. bound \in [Item -> Binding]
    BY <2>1 DEF Binding
  <2>3. user \in [Generic -> SUBSET Use]
    <3>1. Array \X {0} \subseteq Use
      BY SignalizeAssumption DEF Use
    <3>2. InUse \in [Generic -> SUBSET (Array \X {0})]
      BY SignalizeAssumption
    <3> QED
      BY <2>1, <3>1, <3>2
  <2> QED
    BY <1>1, <1>2, <2>2, <2>3, SignalizeAssumption DEF SigTypeOK
<1>4. Sound(store)
  BY <1>2 DEF Sound, TypeOK, HeldConsistently, InputBacked
<1>5. \A n \in Node : \A e \in store.outputs[n] : \E p \in Parameter : e = DefaultEdge(p)
  BY <1>1 DEF Init
<1>6. Facing
  BY <1>5, DefaultEdgesAreEdges, EdgesAssumption
     DEF Facing, DirectionsAllow, MayDrive, MayRead, Parameter, Port, Literal
<1>7. Fresh
  BY <1>5, DefaultEdgesAreEdges, EdgesAssumption, SignalFacts
     DEF Fresh, NoEdgeAt, Parameter, Literal
<1>8. WalkOK
  BY <1>1 DEF WalkOK
<1> QED
  BY <1>3, <1>4, <1>6, <1>7, <1>8 DEF SigInv

(* The record of a walk after a turn.                                      *)
LEMMA TurnedWalk ==
  ASSUME SigTypeOK, SigInv
  PROVE  /\ \A e : SinkTurn(e) =>
              /\ walk' \in Walk /\ walk' # Idle /\ walk'.ports = walk.ports /\ walk'.phase = walk.phase
              /\ walk'.node = walk.node /\ walk'.sig = walk.sig /\ walk'.todo = walk.todo \ {e}
              /\ walk'.sank /\ walk'.sourced = walk.sourced
         /\ \A e : SourceTurn(e) =>
              /\ walk' \in Walk /\ walk' # Idle /\ walk'.ports = walk.ports /\ walk'.phase = walk.phase
              /\ walk'.node = walk.node /\ walk'.sig = walk.sig /\ walk'.todo = {}
              /\ walk'.sank = walk.sank /\ walk'.sourced
         /\ CloseTurn =>
              /\ walk' \in Walk /\ walk' # Idle /\ walk'.ports = walk.ports /\ walk'.phase = "next"
              /\ walk'.node = walk.node /\ walk'.sig = walk.sig /\ walk'.todo = {}
              /\ walk'.sank = walk.sank /\ walk'.sourced = walk.sourced
<1>1. ASSUME walk' \in Walk PROVE walk' # Idle
  BY <1>1, SignalizeAssumption
<1>2. ASSUME NEW e, SinkTurn(e)
      PROVE  /\ walk' \in Walk /\ walk'.ports = walk.ports /\ walk'.phase = walk.phase
             /\ walk'.node = walk.node /\ walk'.sig = walk.sig /\ walk'.todo = walk.todo \ {e}
             /\ walk'.sank /\ walk'.sourced = walk.sourced
  BY <1>2, WalkNodes DEF SinkTurn, Walk
<1>3. ASSUME NEW e, SourceTurn(e)
      PROVE  /\ walk' \in Walk /\ walk'.ports = walk.ports /\ walk'.phase = walk.phase
             /\ walk'.node = walk.node /\ walk'.sig = walk.sig /\ walk'.todo = {}
             /\ walk'.sank = walk.sank /\ walk'.sourced
  BY <1>3, WalkNodes DEF SourceTurn, Walk
<1>4. ASSUME CloseTurn
      PROVE  /\ walk' \in Walk /\ walk'.ports = walk.ports /\ walk'.phase = "next"
             /\ walk'.node = walk.node /\ walk'.sig = walk.sig /\ walk'.todo = {}
             /\ walk'.sank = walk.sank /\ walk'.sourced = walk.sourced
  BY <1>4, WalkNodes DEF CloseTurn, Walk, Phases
<1> QED
  BY <1>1, <1>2, <1>3, <1>4

(* The types of what the edges and the walk are made of.                   *)
WalkTypeOK ==
  TypeOK /\ walks \in 0..MaxWalks /\ calls \in 0..MaxCalls /\ walk \in Walk \cup {Idle}

(* What types and sizes refer to, and who uses the parameters: only the    *)
(* client and the making of a signal array touch them.                     *)
LEMMA BoundStep ==
  ASSUME SigTypeOK, SigInv, [SigNext]_sigVars
  PROVE  (bound \in [Item -> Binding])' /\ (user \in [Generic -> SUBSET Use])'
<1>0. bound \in [Item -> Binding] /\ user \in [Generic -> SUBSET Use]
  BY DEF SigTypeOK
<1>1. ASSUME NEW x \in Item, NEW b \in Binding, UserBinds(x, b)
      PROVE  bound' \in [Item -> Binding] /\ user' = user
  BY <1>0, <1>1 DEF UserBinds
<1>2. ASSUME NEW a \in ResolvableArray, AttachArray(a)
      PROVE  bound' = bound /\ user' \in [Generic -> SUBSET Use]
  <2>1. walks \in 0..MaxWalks /\ a \in Array
    BY SignalizeAssumption DEF SigTypeOK
  <2>2. {<<a, walks>>} \in SUBSET Use
    BY <2>1 DEF Use
  <2> QED
    BY <1>0, <1>2, <2>2 DEF AttachArray
<1>3. ASSUME NEW e, NEW other, NEW c, Reroute(e, other, c) PROVE bound' = bound /\ user' = user
  BY <1>3 DEF Reroute
<1>4. CASE AttachSink \/ AttachSource
  BY <1>0, <1>3, <1>4 DEF AttachSink, AttachSource
<1>5. CASE PortDone \/ SinksDone \/ BeginWalk \/ WalkDone \/ WalkThrows \/ UNCHANGED sigVars
  BY <1>0, <1>5 DEF PortDone, SinksDone, BeginWalk, WalkDone, WalkThrows, sigVars
<1>6. CASE (\E p \in Resolvable : Attach(p)) \/ (\E dst, src \in Wires : UserConnect(dst, src))
  BY <1>0, <1>6 DEF Attach, UserConnect
<1> QED
  BY <1>0, <1>1, <1>2, <1>4, <1>5, <1>6 DEF SigNext, RerouteStep

(* Every step keeps the edges and the walk what they are.                  *)
LEMMA WalkTypeStep ==
  ASSUME SigTypeOK, SigInv, [SigNext]_sigVars
  PROVE  WalkTypeOK'
<1>1. ASSUME NEW e, NEW made, Turn(e, made) PROVE TypeOK' /\ walks' \in 0..MaxWalks
  BY <1>1 DEF Turn, Changes, Sound, SigTypeOK, TypeOK
<1>2. ASSUME NEW dst \in Wires, NEW src \in Wires, ClientTurn(dst, src) PROVE WalkTypeOK'
  <2>1. calls' \in 0..MaxCalls
    BY <1>2, SignalizeAssumption DEF ClientTurn, SigTypeOK, WalkTypeOK
  <2>2. walk' = Idle /\ Turn(NoEdge, {<<dst, src>>})
    BY <1>2 DEF ClientTurn
  <2> QED
    BY <1>1, <2>1, <2>2 DEF SigTypeOK, WalkTypeOK
<1>3. ASSUME NEW e \in walk.todo, SinkTurn(e) PROVE WalkTypeOK'
  BY <1>1, <1>3, TurnedWalk DEF SinkTurn, SigTypeOK, WalkTypeOK
<1>4. ASSUME NEW e \in walk.todo, SourceTurn(e) PROVE WalkTypeOK'
  BY <1>1, <1>4, TurnedWalk DEF SourceTurn, SigTypeOK, WalkTypeOK
<1>5. CASE CloseTurn
  BY <1>1, <1>5, TurnedWalk DEF CloseTurn, SigTypeOK, WalkTypeOK
<1>6. CASE QuietStep
  <2>1. TypeOK' /\ calls' \in 0..MaxCalls
    BY <1>6 DEF QuietStep, SigTypeOK, TypeOK
  <2>2. CASE BeginWalk
    <3>1. PICK n \in Resolvable :
            walk' = [ports |-> Resolvable, arrays |-> ResolvableArray, phase |-> "next",
                     node |-> n, sig |-> n, todo |-> {}, sank |-> FALSE, sourced |-> FALSE]
      BY <2>2 DEF BeginWalk
    <3>2. n \in Node
      BY SignalFacts
    <3>3. walk' \in Walk
      BY <3>1, <3>2 DEF Walk, Phases
    <3>4. walks' \in 0..MaxWalks
      BY <2>2, SignalizeAssumption DEF BeginWalk, SigTypeOK, WalkTypeOK
    <3> QED
      BY <2>1, <3>3, <3>4 DEF SigTypeOK, WalkTypeOK
  <2>3. ASSUME NEW p \in Resolvable, Attach(p) PROVE WalkTypeOK'
    <3>1. walk \in Walk /\ walks \in 1..MaxWalks
      BY <2>3 DEF Attach, PortNext, In, SigTypeOK, SigInv, WalkOK
    <3>2. NewSignal[<<p, walks>>] \in Node /\ p \in Node
      BY <3>1, SignalFacts
    <3>3. Sinks(store, p) \subseteq Edge
      BY <3>2 DEF Sinks, SigInv, Sound, Store
    <3>4. walk' \in Walk /\ walks' = walks
      BY <2>3, <3>1, <3>2, <3>3 DEF Attach, Walk, Phases
    <3> QED
      BY <2>1, <3>4 DEF SigTypeOK, WalkTypeOK
  <2>4. CASE SinksDone
    <3>1. walk \in Walk /\ walk.node \in Node
      BY <2>4 DEF SinksDone, In, SigTypeOK, Walk
    <3>2. Sources(store, walk.node) \subseteq Edge
      BY <3>1 DEF Sources, SigInv, Sound, Store
    <3>3. walk' \in Walk /\ walks' = walks
      BY <2>4, <3>1, <3>2 DEF SinksDone, Walk, Phases
    <3> QED
      BY <2>1, <3>3 DEF SigTypeOK, WalkTypeOK
  <2>5. CASE Stops \/ Rests
    BY <2>1, <2>5 DEF Stops, Rests, SigTypeOK, WalkTypeOK
  <2>6. CASE MakesList
    BY <2>1, <2>6, MadeList DEF SigTypeOK, WalkTypeOK
  <2> QED
    BY <1>6, <2>2, <2>3, <2>4, <2>5, <2>6 DEF QuietStep
<1> QED
  BY <1>2, <1>3, <1>4, <1>5, <1>6, SigSteps

(* Every step keeps the types.                                             *)
LEMMA SigTypeStep == SigTypeOK /\ SigInv /\ [SigNext]_sigVars => SigTypeOK'
BY WalkTypeStep, BoundStep DEF SigTypeOK, WalkTypeOK
-----------------------------------------------------------------------------
(* Connections that the directions allow keep all edges along them.        *)
LEMMA TurnFaces ==
  ASSUME Facing, NEW e, NEW made, Turn(e, made) PROVE Facing'
<1>1. ASSUME NEW n \in Node, NEW a \in store'.outputs[n] PROVE DirectionsAllow(dir', a.dst, a.src)
  <2>1. a \in store.outputs[n] \/ <<a.dst, a.src>> \in made
    BY ChangesOutputs DEF Turn
  <2>2. CASE a \in store.outputs[n]
    BY <2>2 DEF Facing, Turn
  <2>3. CASE <<a.dst, a.src>> \in made
    <3>1. DirectionsAllow(dir, <<a.dst, a.src>>[1], <<a.dst, a.src>>[2])
      BY <2>3 DEF Turn
    <3> QED
      BY <3>1 DEF Turn
  <2> QED
    BY <2>1, <2>2, <2>3
<1> QED
  BY <1>1 DEF Facing

(* A node keeps out of the edges unless it is connected.                   *)
LEMMA TurnLeavesAlone ==
  ASSUME NEW x, NoEdgeAt(x), NEW e, NEW made, Turn(e, made), \A y \in made : y[1] # x /\ y[2] # x
  PROVE  NoEdgeAt(x)'
<1>1. ASSUME NEW n \in Node, NEW a \in store'.outputs[n] PROVE a.src # x /\ a.dst # x
  <2>1. a \in store.outputs[n] \/ <<a.dst, a.src>> \in made
    BY ChangesOutputs DEF Turn
  <2>2. CASE <<a.dst, a.src>> \in made
    <3>1. <<a.dst, a.src>>[1] # x /\ <<a.dst, a.src>>[2] # x
      BY <2>2
    <3> QED
      BY <3>1
  <2> QED
    BY <2>1, <2>2 DEF NoEdgeAt
<1> QED
  BY <1>1 DEF NoEdgeAt

(* What the connections of a turn of a loop can join.                      *)
LEMMA MadeEnds ==
  ASSUME SigTypeOK, SigInv
  PROVE  /\ \A e : SinkTurn(e) => \A y \in SinkMade(e) : {y[1], y[2]} \subseteq {walk.node, walk.sig, e.dst}
         /\ \A e : SourceTurn(e) => \A y \in SourceMade(e) : {y[1], y[2]} \subseteq {walk.node, walk.sig, e.src}
         /\ \A y \in CloseMade : {y[1], y[2]} \subseteq {walk.node, walk.sig}
BY DEF SinkMade, SourceMade, CloseMade

(* A signal that is not connected yet stays out of all edges.              *)
LEMMA FreshStep == SigTypeOK /\ SigInv /\ [SigNext]_sigVars => Fresh'
<1> SUFFICES ASSUME SigTypeOK, SigInv, [SigNext]_sigVars,
                    NEW p \in Resolvable, NEW k \in 1..MaxWalks, Unconnected(p, k)',
                    NEW x, x = NewSignal[<<p, k>>]
             PROVE  NoEdgeAt(x)'
  BY DEF Fresh
<1>1. x \in Signals /\ x \notin Wires
  BY SignalFacts DEF Wires
<1>2. Unconnected(p, k) => NoEdgeAt(x)
  BY DEF SigInv, Fresh
<1>3. walk # Idle /\ walk.phase # "next" /\ ~ (p = walk.node /\ k = walks) => x # walk.sig /\ x # walk.node
  BY WalkNodes, SignalFacts
<1>4. ASSUME NEW dst \in Wires, NEW src \in Wires, ClientTurn(dst, src) PROVE NoEdgeAt(x)'
  <2>1. Unconnected(p, k)
    BY <1>4 DEF ClientTurn, Turn, Unconnected
  <2> QED
    BY <1>1, <1>2, <1>4, <2>1, TurnLeavesAlone DEF ClientTurn
<1>5. ASSUME NEW e \in walk.todo, SinkTurn(e) PROVE NoEdgeAt(x)'
  <2>1. /\ walk' # Idle /\ walk'.ports = walk.ports /\ walk'.phase = walk.phase /\ walk'.node = walk.node
        /\ walk'.sank /\ walks' = walks
    BY <1>5, TurnedWalk DEF SinkTurn, Turn
  <2>2. Unconnected(p, k) /\ ~ (p = walk.node /\ k = walks)
    BY <1>5, <2>1 DEF Unconnected, SinkTurn, SigInv, WalkOK
  <2>3. x # walk.sig /\ x # walk.node
    BY <1>3, <1>5, <2>2 DEF SinkTurn
  <2>4. x # e.dst
    BY <1>2, <1>5, <2>2, WalkNodes DEF NoEdgeAt, SinkTurn
  <2>5. \A y \in SinkMade(e) : y[1] # x /\ y[2] # x
    BY <1>5, <2>3, <2>4, MadeEnds
  <2> QED
    BY <1>2, <1>5, <2>2, <2>5, TurnLeavesAlone DEF SinkTurn
<1>6. ASSUME NEW e \in walk.todo, SourceTurn(e) PROVE NoEdgeAt(x)'
  <2>1. /\ walk' # Idle /\ walk'.ports = walk.ports /\ walk'.phase = walk.phase /\ walk'.node = walk.node
        /\ walk'.sourced /\ walks' = walks
    BY <1>6, TurnedWalk DEF SourceTurn, Turn
  <2>2. Unconnected(p, k) /\ ~ (p = walk.node /\ k = walks)
    BY <1>6, <2>1 DEF Unconnected, SourceTurn, SigInv, WalkOK
  <2>3. x # walk.sig /\ x # walk.node
    BY <1>3, <1>6, <2>2 DEF SourceTurn
  <2>4. x # e.src
    <3>1. e.src \in Node
      BY <1>6 DEF SourceTurn, Edge
    <3> QED
      BY <1>2, <1>6, <2>2, <3>1 DEF NoEdgeAt, SourceTurn
  <2>5. \A y \in SourceMade(e) : y[1] # x /\ y[2] # x
    BY <1>6, <2>3, <2>4, MadeEnds
  <2> QED
    BY <1>2, <1>6, <2>2, <2>5, TurnLeavesAlone DEF SourceTurn
<1>7. CASE CloseTurn
  <2>1. /\ walk' # Idle /\ walk'.ports = walk.ports /\ walk'.phase = "next" /\ walks' = walks
    BY <1>7, TurnedWalk DEF CloseTurn, Turn
  <2>2. Unconnected(p, k) /\ ~ (p = walk.node /\ k = walks)
    BY <1>7, <2>1 DEF Unconnected, CloseTurn, SigInv, WalkOK
  <2>3. x # walk.sig /\ x # walk.node
    BY <1>3, <1>7, <2>2 DEF CloseTurn
  <2>4. \A y \in CloseMade : y[1] # x /\ y[2] # x
    BY <2>3, MadeEnds
  <2> QED
    BY <1>2, <1>7, <2>2, <2>4, TurnLeavesAlone DEF CloseTurn
<1>8. CASE QuietStep
  <2>1. Unconnected(p, k)
    <3>1. CASE BeginWalk
      BY <1>8, <3>1 DEF BeginWalk, Unconnected, SigTypeOK
    <3>2. ASSUME NEW q \in Resolvable, Attach(q) PROVE Unconnected(p, k)
      BY <3>2 DEF Attach, PortNext, In, Unconnected
    <3>3. CASE SinksDone
      <4>1. walk \in Walk
        BY <3>3 DEF SinksDone, In, SigTypeOK
      <4> QED
        BY <3>3, <4>1 DEF SinksDone, In, Unconnected, Walk
    <3>4. CASE Stops
      BY <3>4 DEF Stops, Unconnected
    <3>5. CASE Rests
      BY <3>5 DEF Rests, Unconnected
    <3>6. CASE MakesList
      BY <3>6, MadeList DEF Unconnected
    <3> QED
      BY <1>8, <3>1, <3>2, <3>3, <3>4, <3>5, <3>6 DEF QuietStep
  <2> QED
    BY <1>2, <1>8, <2>1 DEF QuietStep, NoEdgeAt
<1> QED
  BY <1>4, <1>5, <1>6, <1>7, <1>8, SigSteps
-----------------------------------------------------------------------------
(* Every step keeps what the loops know of the port at hand.               *)
LEMMA WalkStep == SigTypeOK /\ SigInv /\ [SigNext]_sigVars => WalkOK'
<1> SUFFICES ASSUME SigTypeOK, SigInv, [SigNext]_sigVars PROVE WalkOK'
  OBVIOUS
<1>1. ASSUME NEW dst \in Wires, NEW src \in Wires, ClientTurn(dst, src) PROVE WalkOK'
  BY <1>1 DEF ClientTurn, WalkOK
<1>2. ASSUME NEW e \in walk.todo, SinkTurn(e) PROVE WalkOK'
  <2>1. \A f \in walk.todo \ {e} : f \in store'.outputs[walk.node] /\ f.dst # walk.sig
    <3>1. walk # Idle /\ walk.phase = "sinks" /\ walk.node \in Node /\ Changes(store, e, SinkMade(e), store')
      BY <1>2, WalkNodes DEF SinkTurn, Turn
    <3>2. \A f \in walk.todo : f \in store.outputs[walk.node] /\ f.dst # walk.sig
      BY <3>1 DEF SigInv, WalkOK
    <3> QED
      BY <3>1, <3>2, ChangesOutputs
  <2>2. /\ walks' \in 1..MaxWalks /\ dir' = dir /\ dir[walk.node] = "out" /\ ~ walk.sourced
        /\ walk.node \in Resolvable /\ walk.node \notin walk.ports /\ walk.sig = NewSignal[<<walk.node, walks>>]
        /\ walks' = walks /\ walk.phase = "sinks"
    BY <1>2, WalkNodes DEF SinkTurn, Turn, SigInv, WalkOK
  <2> QED
    BY <1>2, <2>1, <2>2, TurnedWalk DEF WalkOK
<1>3. ASSUME NEW e \in walk.todo, SourceTurn(e) PROVE WalkOK'
  <2>1. /\ walks' \in 1..MaxWalks /\ dir' = dir /\ dir[walk.node] = "in" /\ ~ walk.sank
        /\ walk.node \in Resolvable /\ walk.node \notin walk.ports /\ walk.sig = NewSignal[<<walk.node, walks>>]
        /\ walks' = walks /\ walk.phase = "sources"
    BY <1>3, WalkNodes DEF SourceTurn, Turn, SigInv, WalkOK
  <2>2. ASSUME walk.node \in Element PROVE ~ Driven(store', walk.node)
    <3>1. Changes(store, e, SourceMade(e), store') /\ e = store.input[walk.node]
      BY <1>3 DEF SourceTurn, Turn
    <3>2. \A x \in SourceMade(e) : x[1] # walk.node
      BY <1>3, <2>2, WalkNodes DEF SourceTurn, SourceMade
    <3>3. store'.input[walk.node] = NoEdge
      BY <1>3, <3>1, <3>2, WalkNodes, ChangesInput DEF SourceTurn
    <3> QED
      BY <3>3 DEF Driven
  <2> QED
    BY <1>3, <2>1, <2>2, TurnedWalk DEF WalkOK
<1>4. CASE CloseTurn
  <2>1. /\ walks' \in 1..MaxWalks /\ dir' = dir /\ walk.node \in Resolvable
        /\ (walk.sank => dir[walk.node] = "out") /\ (walk.sourced => dir[walk.node] = "in")
    BY <1>4, WalkNodes DEF CloseTurn, Turn, SigInv, WalkOK
  <2> QED
    BY <1>4, <2>1, TurnedWalk DEF WalkOK
<1>5. CASE QuietStep
  <2>1. CASE BeginWalk
    <3>1. PICK n \in Resolvable :
            walk' = [ports |-> Resolvable, arrays |-> ResolvableArray, phase |-> "next",
                     node |-> n, sig |-> n, todo |-> {}, sank |-> FALSE, sourced |-> FALSE]
      BY <2>1 DEF BeginWalk
    <3>2. walks' \in 1..MaxWalks
      BY <2>1, SignalizeAssumption DEF BeginWalk, SigTypeOK
    <3> QED
      BY <3>1, <3>2 DEF WalkOK
  <2>2. ASSUME NEW p \in Resolvable, Attach(p) PROVE WalkOK'
    <3>1. walk # Idle /\ p \in walk.ports /\ walks \in 1..MaxWalks
      BY <2>2 DEF Attach, PortNext, In, SigInv, WalkOK
    <3>2. /\ walk'.ports = walk.ports \ {p} /\ walk'.phase = "sinks" /\ walk'.node = p
          /\ walk'.sig = NewSignal[<<p, walks>>] /\ walk'.todo = Sinks(store, p)
          /\ ~ walk'.sank /\ ~ walk'.sourced /\ store' = store /\ walks' = walks /\ dir' = dir
      BY <2>2 DEF Attach
    <3>3. NoEdgeAt(NewSignal[<<p, walks>>])
      BY <3>1 DEF SigInv, Fresh, Unconnected
    <3>4. \A e \in store.outputs[p] : e.dst # NewSignal[<<p, walks>>]
      BY <3>3, SignalFacts DEF NoEdgeAt
    <3> QED
      BY <3>1, <3>2, <3>4 DEF WalkOK, Sinks
  <2>3. CASE SinksDone
    <3>1. walk # Idle /\ walk.phase = "sinks" /\ walk \in Walk
      BY <2>3 DEF SinksDone, In, SigTypeOK
    <3>2. /\ walk'.ports = walk.ports /\ walk'.phase = "sources" /\ walk'.node = walk.node
          /\ walk'.sig = walk.sig /\ walk'.todo = Sources(store, walk.node)
          /\ walk'.sank = walk.sank /\ walk'.sourced = walk.sourced
          /\ store' = store /\ walks' = walks /\ dir' = dir
      BY <2>3, <3>1 DEF SinksDone, Walk
    <3>3. ~ walk.sourced
      BY <3>1 DEF SigInv, WalkOK
    <3> QED
      BY <3>1, <3>2, <3>3 DEF SigInv, WalkOK, Sources
  <2>4. CASE Stops
    BY <2>4 DEF Stops, WalkOK
  <2>5. CASE Rests
    BY <1>5, <2>5 DEF QuietStep, Rests, SigInv, WalkOK
  <2>6. CASE MakesList
    BY <1>5, <2>6, MadeList DEF QuietStep, SigInv, WalkOK
  <2> QED
    BY <1>5, <2>1, <2>2, <2>3, <2>4, <2>5, <2>6 DEF QuietStep
<1> QED
  BY <1>1, <1>2, <1>3, <1>4, <1>5, SigSteps

(* Every step keeps the invariant.                                         *)
LEMMA SigInvStep == SigTypeOK /\ SigInv /\ [SigNext]_sigVars => SigInv'
<1> SUFFICES ASSUME SigTypeOK, SigInv, [SigNext]_sigVars PROVE SigInv'
  OBVIOUS
<1>1. ASSUME NEW e, NEW made, Turn(e, made) PROVE Sound(store') /\ Facing'
  BY <1>1, TurnFaces DEF Turn, Changes, SigInv
<1>2. ASSUME QuietStep PROVE Sound(store') /\ Facing'
  BY <1>2 DEF QuietStep, SigInv, Facing
<1>3. Sound(store') /\ Facing'
  BY <1>1, <1>2, SigSteps DEF ClientTurn, SinkTurn, SourceTurn, CloseTurn
<1> QED
  BY <1>3, FreshStep, WalkStep DEF SigInv

(* Inserting signals keeps the types, and the edges sound.                 *)
LEMMA SigInvariant == SigSpec => [](SigTypeOK /\ SigInv)
BY SigInitInv, SigTypeStep, SigInvStep, PTL DEF SigSpec
-----------------------------------------------------------------------------
(* Parameters are told about the edges they are born with.                 *)
LEMMA ToldInit == SigInit => Told
<1> SUFFICES ASSUME SigInit PROVE Told
  OBVIOUS
<1>1. Init
  BY DEF SigInit
<1>2. \A n \in Node : \A e \in store.outputs[n] : \E p \in Parameter : e = DefaultEdge(p)
  BY <1>1 DEF Init
<1>3. \A p \in Parameter : store.input[p] = DefaultEdge(p)
  BY <1>1 DEF Init, Parameter
<1> QED
  BY <1>2, <1>3, DefaultEdgesAreEdges DEF Told

(* A node is told about the edges that reach it as long as the edge it     *)
(* had is taken off, or it had none, when it is given another.             *)
LEMMA TurnTells ==
  ASSUME SigTypeOK, SigInv, Told, NEW e, NEW made, Turn(e, made),
         \A x, y \in made : x[1] = y[1] => x = y,
         \A x \in made : x[1] \in NormalNode \ Signals => store.input[x[1]] \in {NoEdge, e}
  PROVE  Told'
<1> SUFFICES ASSUME NEW n \in Node, NEW a \in store'.outputs[n], a.dst \in NormalNode \ Signals
             PROVE  store'.input[a.dst] = a
  BY DEF Told
<1>1. Changes(store, e, made, store') /\ a.dst \in Node
  BY DEF Turn, NormalNode
<1>2. PICK es \in SUBSET NewEdges : Moves(store, e, es, store') /\ made = {<<b.dst, b.src>> : b \in es}
  BY <1>1 DEF Changes
<1>3. a \in es \/ (a \in store.outputs[n] /\ a # e)
  BY <1>2 DEF Moves
<1>4. CASE a \in es
  BY <1>2, <1>4 DEF Moves
<1>5. CASE a \in store.outputs[n] /\ a # e /\ a \notin es
  <2>1. store.input[a.dst] = a
    BY <1>5 DEF Told
  <2>2. a # NoEdge
    BY <1>5, StoreAssumption DEF SigInv, Sound, Store
  <2>3. \A x \in made : x[1] # a.dst
    BY <1>5, <2>1, <2>2
  <2> QED
    BY <1>1, <1>5, <2>1, <2>3, ChangesInput
<1> QED
  BY <1>3, <1>4, <1>5

(* As long as the client connects no node twice, every node is told about  *)
(* each edge that reaches it: the loops take the old edge off a node       *)
(* before, or after, they give it another, but they never leave two.       *)
LEMMA ToldStep ==
  ASSUME Reconnect = FALSE
  PROVE  SigTypeOK /\ SigInv /\ Told /\ [SigNext]_sigVars => Told'
<1> SUFFICES ASSUME SigTypeOK, SigInv, Told, [SigNext]_sigVars PROVE Told'
  OBVIOUS
<1>1. ASSUME NEW dst \in Wires, NEW src \in Wires, ClientTurn(dst, src) PROVE Told'
  <2>1. store.input[dst] = NoEdge /\ Turn(NoEdge, {<<dst, src>>})
    BY <1>1 DEF ClientTurn, Driven
  <2> QED
    BY <2>1, TurnTells
<1>2. ASSUME NEW e \in walk.todo, SinkTurn(e) PROVE Told'
  <2>1. /\ e \in store.outputs[walk.node] /\ walk.node \in Node /\ Turn(e, SinkMade(e))
        /\ walk.sig \in Signals /\ e.dst # walk.sig
    BY <1>2, WalkNodes DEF SinkTurn
  <2>2. e.dst \in NormalNode \ Signals => store.input[e.dst] = e
    BY <2>1 DEF Told
  <2> QED
    BY <2>1, <2>2, TurnTells DEF SinkMade
<1>3. ASSUME NEW e \in walk.todo, SourceTurn(e) PROVE Told'
  <2>1. e = store.input[walk.node] /\ Turn(e, SourceMade(e)) /\ walk.sig \in Signals /\ walk.sig # walk.node
    BY <1>3, WalkNodes DEF SourceTurn
  <2> QED
    BY <2>1, TurnTells DEF SourceMade
<1>4. CASE CloseTurn
  <2>1. Turn(NoEdge, CloseMade) /\ walk.sig \in Signals /\ walk.sig # walk.node
    BY <1>4, WalkNodes DEF CloseTurn
  <2>2. walk.sourced /\ walk.node \in Element => store.input[walk.node] = NoEdge
    BY <1>4 DEF CloseTurn, SigInv, WalkOK, Driven
  <2> QED
    BY <2>1, <2>2, TurnTells DEF CloseMade
<1>5. CASE QuietStep
  BY <1>5 DEF QuietStep, Told
<1> QED
  BY <1>1, <1>2, <1>3, <1>4, <1>5, SigSteps
-----------------------------------------------------------------------------
(* A port that is not connected keeps leading where it did.                *)
LEMMA TurnKeepsPort ==
  ASSUME NEW p \in Node, NEW x, LeadsTo(p, x), NEW e, NEW made, Turn(e, made),
         \A y \in made : y[1] # p /\ y[2] # p
  PROVE  LeadsTo(p, x)'
<1>1. Changes(store, e, made, store') /\ Sound(store')
  BY DEF Turn, Changes
<1>2. ASSUME NEW a \in store'.outputs[p] PROVE a \in store.outputs[p]
  <2>1. a.src = p
    BY <1>1 DEF Sound, EndsAgree
  <2>2. <<a.dst, a.src>> \in made => <<a.dst, a.src>>[2] # p
    OBVIOUS
  <2> QED
    BY <1>1, <2>1, <2>2, ChangesOutputs
<1>3. store'.input[p] \in {store.input[p], NoEdge}
  BY <1>1, ChangesInput
<1>4. EdgesAt(p)' \subseteq EdgesAt(p)
  BY <1>2, <1>3 DEF EdgesAt, Sinks, Sources
<1> QED
  BY <1>4 DEF LeadsTo

(* What the port at hand sources after a turn it sourced before, or its    *)
(* signal reads it.                                                        *)
LEMMA TurnedNode ==
  ASSUME SigTypeOK, SigInv, walk # Idle, walk.phase # "next", NEW e, NEW made, Turn(e, made),
         \A y \in made : y[2] = walk.node => y[1] = walk.sig
  PROVE  \A a \in store'.outputs[walk.node] :
           (a \in store.outputs[walk.node] /\ a # e) \/ a.dst = walk.sig
<1>1. Changes(store, e, made, store') /\ Sound(store') /\ walk.node \in Node
  BY WalkNodes DEF Turn, Changes
<1>2. ASSUME NEW a \in store'.outputs[walk.node], <<a.dst, a.src>> \in made PROVE a.dst = walk.sig
  <2>1. a.src = walk.node
    BY <1>1 DEF Sound, EndsAgree
  <2>2. <<a.dst, a.src>>[2] = walk.node => <<a.dst, a.src>>[1] = walk.sig
    BY <1>2
  <2> QED
    BY <2>1, <2>2
<1> QED
  BY <1>1, <1>2, ChangesOutputs

(* A port that is done stays done while another is worked on.              *)
LEMMA DoneStay ==
  ASSUME SigTypeOK, SigInv, Told, Routed, walk # Idle, walk.phase # "next",
         NEW p \in Resolvable \ walk.ports, p # walk.node,
         NEW e, NEW made, Turn(e, made), NEW other,
         \A y \in made : {y[1], y[2]} \subseteq {walk.node, walk.sig, other},
         other # p
  PROVE  LeadsTo(p, NewSignal[<<p, walks>>])'
<1>1. LeadsTo(p, NewSignal[<<p, walks>>]) /\ p \in Node /\ walk.sig # p
  BY WalkNodes, SignalFacts DEF Routed
<1>2. \A y \in made : y[1] # p /\ y[2] # p
  BY <1>1
<1>3. PICK x : x = NewSignal[<<p, walks>>]
  OBVIOUS
<1>4. LeadsTo(p, x)'
  BY <1>1, <1>2, <1>3, TurnKeepsPort
<1>5. walks' = walks
  BY DEF Turn
<1> QED
  BY <1>3, <1>4, <1>5 DEF LeadsTo

(* No edge of the port at hand ends at a port that is done.                *)
LEMMA DoneApart ==
  ASSUME SigTypeOK, SigInv, Told, Routed, walk # Idle, walk.phase # "next",
         NEW p \in Resolvable \ walk.ports, p # walk.node
  PROVE  /\ \A e \in store.outputs[walk.node] : e.dst # p
         /\ \A e : e = store.input[walk.node] /\ e # NoEdge => e.src # p
<1>1. LeadsTo(p, NewSignal[<<p, walks>>]) /\ p \in Node /\ NewSignal[<<p, walks>>] \in Signals
      /\ p \in NormalNode \ Signals
  BY WalkNodes, SignalFacts DEF Routed
<1>2. walk.node \in Node /\ walk.node \notin Signals
  BY WalkNodes
<1>3. ASSUME NEW e \in store.outputs[walk.node], e.dst = p PROVE FALSE
  <2>1. e.src = walk.node /\ store.input[p] = e /\ e # NoEdge
    BY <1>1, <1>2, <1>3, StoreAssumption DEF Told, SigInv, Sound, EndsAgree, Store
  <2>2. e \in EdgesAt(p) /\ OtherEnd(e, p) = walk.node
    BY <2>1 DEF EdgesAt, Sources, OtherEnd
  <2> QED
    BY <1>1, <1>2, <2>2 DEF LeadsTo
<1>4. ASSUME NEW e, e = store.input[walk.node], e # NoEdge, e.src = p PROVE FALSE
  <2>1. e.dst = walk.node /\ e \in store.outputs[p]
    BY <1>2, <1>4 DEF SigInv, Sound, EndsAgree, Backed, Driven
  <2>2. e \in EdgesAt(p) /\ OtherEnd(e, p) = walk.node
    BY <1>4, <2>1 DEF EdgesAt, Sinks, OtherEnd
  <2> QED
    BY <1>1, <1>2, <2>2 DEF LeadsTo
<1> QED
  BY <1>3, <1>4

(* Every step leaves the ports that are done with their signals.           *)
LEMMA RoutedStep == SigTypeOK /\ SigInv /\ Told /\ Routed /\ [SigNext]_sigVars => Routed'
<1> SUFFICES ASSUME SigTypeOK, SigInv, Told, Routed, [SigNext]_sigVars PROVE Routed'
  OBVIOUS
<1>1. ASSUME NEW dst \in Wires, NEW src \in Wires, ClientTurn(dst, src) PROVE Routed'
  BY <1>1 DEF ClientTurn, Routed
<1>2. ASSUME NEW e \in walk.todo, SinkTurn(e) PROVE Routed'
  <2>1. walk # Idle /\ walk.phase = "sinks" /\ walk.sig # walk.node /\ Turn(e, SinkMade(e))
        /\ e.dst # walk.node /\ e \in store.outputs[walk.node]
    BY <1>2, WalkNodes DEF SinkTurn
  <2>2. ASSUME NEW p \in Resolvable \ walk.ports, p # walk.node PROVE LeadsTo(p, NewSignal[<<p, walks>>])'
    <3>1. e.dst # p
      BY <2>1, <2>2, DoneApart
    <3>2. \A y \in SinkMade(e) : {y[1], y[2]} \subseteq {walk.node, walk.sig, e.dst}
      BY <1>2, MadeEnds
    <3> QED
      BY <2>1, <2>2, <3>1, <3>2, DoneStay
  <2>3. \A a \in store'.outputs[walk.node] : a \in walk.todo \ {e} \/ a.dst = walk.sig
    <3>1. \A y \in SinkMade(e) : y[2] = walk.node => y[1] = walk.sig
      BY <2>1 DEF SinkMade
    <3> QED
      BY <2>1, <3>1, TurnedNode DEF Routed
  <2> QED
    BY <1>2, <2>1, <2>2, <2>3, TurnedWalk DEF Routed
<1>3. ASSUME NEW e \in walk.todo, SourceTurn(e) PROVE Routed'
  <2>1. walk # Idle /\ walk.phase = "sources" /\ walk.sig # walk.node /\ Turn(e, SourceMade(e))
        /\ e.src # walk.node /\ e = store.input[walk.node] /\ e \in Edge /\ walk.node \in NormalNode
        /\ walk.node \in Node
    BY <1>3, WalkNodes DEF SourceTurn
  <2>2. ASSUME NEW p \in Resolvable \ walk.ports, p # walk.node PROVE LeadsTo(p, NewSignal[<<p, walks>>])'
    <3>1. e.src # p
      <4>1. e # NoEdge
        BY <2>1, StoreAssumption
      <4> QED
        BY <2>1, <2>2, <4>1, DoneApart
    <3>2. \A y \in SourceMade(e) : {y[1], y[2]} \subseteq {walk.node, walk.sig, e.src}
      BY <1>3, MadeEnds
    <3>3. walk # Idle /\ walk.phase # "next" /\ Turn(e, SourceMade(e))
      BY <2>1
    <3> QED
      BY <2>2, <3>1, <3>2, <3>3, DoneStay
  <2>3. \A a \in store'.outputs[walk.node] : a.dst = walk.sig
    <3>1. \A y \in SourceMade(e) : y[2] = walk.node => y[1] = walk.sig
      BY <2>1 DEF SourceMade
    <3> QED
      BY <2>1, <3>1, TurnedNode DEF Routed
  <2>4. Driven(store', walk.node) => store'.input[walk.node].src = walk.sig
    <3>1. Changes(store, e, SourceMade(e), store')
      BY <2>1 DEF Turn
    <3>2. CASE walk.node \in Element
      <4>1. \A x \in SourceMade(e) : x[1] # walk.node
        BY <2>1, <3>2 DEF SourceMade
      <4> QED
        BY <2>1, <3>1, <4>1, ChangesInput DEF Driven
    <3>3. CASE walk.node \notin Element
      <4>1. <<walk.node, walk.sig>> \in SourceMade(e)
        BY <3>3 DEF SourceMade
      <4> QED
        BY <2>1, <3>1, <4>1, ChangesInput
    <3> QED
      BY <3>2, <3>3
  <2> QED
    BY <1>3, <2>1, <2>2, <2>3, <2>4, TurnedWalk DEF Routed
<1>4. CASE CloseTurn
  <2>1. walk # Idle /\ walk.phase = "sources" /\ walk.sig # walk.node /\ Turn(NoEdge, CloseMade)
        /\ walk.todo = {} /\ walk.node \in NormalNode /\ walk.node \in Node
        /\ walk.sig = NewSignal[<<walk.node, walks>>] /\ walks' = walks
    BY <1>4, WalkNodes DEF CloseTurn, Turn
  <2>2. ASSUME NEW p \in Resolvable \ walk.ports, p # walk.node PROVE LeadsTo(p, NewSignal[<<p, walks>>])'
    <3>1. \A y \in CloseMade : {y[1], y[2]} \subseteq {walk.node, walk.sig, walk.node}
      BY MadeEnds
    <3> QED
      BY <2>1, <2>2, <3>1, DoneStay
  <2>3. \A a \in store'.outputs[walk.node] : a.dst = walk.sig
    <3>1. \A y \in CloseMade : y[2] = walk.node => y[1] = walk.sig
      BY <2>1 DEF CloseMade
    <3> QED
      BY <2>1, <3>1, TurnedNode DEF Routed
  <2>4. Driven(store', walk.node) => store'.input[walk.node].src = walk.sig
    <3>1. Changes(store, NoEdge, CloseMade, store')
      BY <2>1 DEF Turn
    <3>2. CASE <<walk.node, walk.sig>> \in CloseMade
      BY <2>1, <3>1, <3>2, ChangesInput
    <3>3. CASE <<walk.node, walk.sig>> \notin CloseMade
      <4>1. \A x \in CloseMade : x[1] # walk.node
        BY <2>1, <3>3 DEF CloseMade
      <4>2. store'.input[walk.node] = store.input[walk.node]
        BY <2>1, <3>1, <4>1, ChangesInput
      <4> QED
        BY <2>1, <4>2 DEF Driven, Routed
    <3> QED
      BY <3>2, <3>3
  <2>5. ASSUME NEW p, p = walk.node PROVE LeadsTo(p, NewSignal[<<p, walks>>])'
    <3>1. Sound(store') /\ p \in Node
      BY <2>1, <2>5 DEF Turn, Changes
    <3>2. \A a \in store'.outputs[p] : a.src = p
      BY <3>1 DEF Sound, EndsAgree
    <3>3. \A a \in EdgesAt(p)' : OtherEnd(a, p) = walk.sig
      BY <2>1, <2>3, <2>4, <2>5, <3>2 DEF EdgesAt, Sinks, Sources, Driven, OtherEnd
    <3> QED
      BY <2>1, <2>5, <3>3 DEF LeadsTo, OtherEnd
  <2> QED
    BY <1>4, <2>1, <2>2, <2>5, TurnedWalk DEF Routed
<1>5. CASE QuietStep
  <2>0. store' = store
    BY <1>5 DEF QuietStep
  <2>1. CASE BeginWalk
    BY <2>1 DEF BeginWalk, Routed
  <2>2. ASSUME NEW q \in Resolvable, Attach(q) PROVE Routed'
    <3>1. walk # Idle /\ q \in walk.ports /\ walk.phase = "next"
      BY <2>2 DEF Attach, PortNext, In
    <3>2. /\ walk'.ports = walk.ports \ {q} /\ walk'.phase = "sinks" /\ walk'.node = q
          /\ walk'.todo = store.outputs[q] /\ walks' = walks
      BY <2>2 DEF Attach, Sinks
    <3>3. ASSUME NEW p \in Resolvable \ walk.ports PROVE LeadsTo(p, NewSignal[<<p, walks>>])'
      BY <2>0, <3>1, <3>2 DEF Routed, LeadsTo, EdgesAt
    <3> QED
      BY <2>0, <3>2, <3>3 DEF Routed
  <2>3. CASE SinksDone
    <3>1. walk # Idle /\ walk.phase = "sinks" /\ walk \in Walk /\ walk.todo = {}
      BY <2>3 DEF SinksDone, In, SigTypeOK
    <3>2. /\ walk'.ports = walk.ports /\ walk'.phase = "sources" /\ walk'.node = walk.node
          /\ walk'.sig = walk.sig /\ walk'.todo = Sources(store, walk.node) /\ walks' = walks
      BY <2>3, <3>1 DEF SinksDone, Walk
    <3>3. ASSUME NEW p \in Resolvable \ walk.ports, p # walk.node PROVE LeadsTo(p, NewSignal[<<p, walks>>])'
      BY <2>0, <3>1, <3>2, <3>3 DEF Routed, LeadsTo, EdgesAt
    <3> QED
      BY <2>0, <3>1, <3>2, <3>3 DEF Routed, Sources, Driven
  <2>4. CASE Stops
    BY <2>4 DEF Stops, Routed
  <2>5. CASE Rests
    BY <2>0, <2>5 DEF Rests, Routed, LeadsTo, EdgesAt
  <2>6. CASE MakesList
    BY <2>0, <2>6, MadeList DEF Routed, LeadsTo, EdgesAt
  <2> QED
    BY <1>5, <2>1, <2>2, <2>3, <2>4, <2>5, <2>6 DEF QuietStep
<1> QED
  BY <1>1, <1>2, <1>3, <1>4, <1>5, SigSteps

(* After a walk all edges at an instance port lead to one signal           *)
(* (SignalizePorts, resolve.cc), for any design, any number of walks and   *)
(* any order of the loops, as long as the client connects no node twice:   *)
(* for every port that is done the signal is the one this walk made for    *)
(* it.                                                                     *)
THEOREM SignalsSeparatePorts ==
  ASSUME Reconnect = FALSE
  PROVE  SigSpec => OneSignalPerPort
<1>1. SigInit => Told /\ Routed
  BY ToldInit DEF SigInit, Routed
<1>2. SigInv /\ Routed =>
        (WalkDone => \A p \in Resolvable : \E s \in Signals : \A e \in EdgesAt(p) : OtherEnd(e, p) = s)
  <2> SUFFICES ASSUME SigInv, Routed, WalkDone, NEW p \in Resolvable
               PROVE  \E s \in Signals : \A e \in EdgesAt(p) : OtherEnd(e, p) = s
    OBVIOUS
  <2>1. walk # Idle /\ walk.phase = "next" /\ walk.ports = {}
    BY DEF WalkDone, In
  <2>2. NewSignal[<<p, walks>>] \in Signals
    BY <2>1, SignalFacts DEF SigInv, WalkOK
  <2>3. LeadsTo(p, NewSignal[<<p, walks>>])
    BY <2>1 DEF Routed
  <2> QED
    BY <2>2, <2>3 DEF LeadsTo
<1>3. SigTypeOK /\ SigInv /\ Told /\ [SigNext]_sigVars => Told'
  BY ToldStep
<1> QED
  BY <1>1, <1>2, <1>3, RoutedStep, SigInvariant, PTL DEF SigSpec, OneSignalPerPort

-----------------------------------------------------------------------------
MaybeNode == Node \cup {NoNode}

(* f is what OriginIn's recursion builds, up to m hops.                    *)
Follows(D, m, f) ==
  f = [x \in MaybeNode \X (0..m) |->
         IF x[1] \notin Signals THEN x[1]
         ELSE IF x[2] = 0 THEN NoNode ELSE f[<<D[x[1]], x[2] - 1>>]]

(* OriginIn's recursive definition defines a function, for any number of   *)
(* hops.                                                                   *)
LEMMA FollowsExists ==
  ASSUME NEW D \in [Node -> MaybeNode], NEW m \in Nat, Signals \subseteq Node
  PROVE  \E f : Follows(D, m, f)
<1> DEFINE S == {k \in Nat : \E f : Follows(D, k, f)}
<1>1. 0 \in S
  <2> DEFINE f == [x \in MaybeNode \X (0..0) |-> IF x[1] \notin Signals THEN x[1] ELSE NoNode]
  <2>1. Follows(D, 0, f)
    BY DEF Follows
  <2> QED
    BY <2>1
<1>2. ASSUME NEW k \in Nat, k \in S PROVE k + 1 \in S
  <2>1. PICK f : Follows(D, k, f)
    BY <1>2
  <2> DEFINE g == [x \in MaybeNode \X (0..(k + 1)) |->
                     IF x[1] \notin Signals THEN x[1]
                     ELSE IF x[2] = 0 THEN NoNode ELSE f[<<D[x[1]], x[2] - 1>>]]
             h == [x \in MaybeNode \X (0..(k + 1)) |->
                     IF x[1] \notin Signals THEN x[1]
                     ELSE IF x[2] = 0 THEN NoNode ELSE g[<<D[x[1]], x[2] - 1>>]]
  <2>2. ASSUME NEW d \in MaybeNode, NEW j \in 0..k PROVE g[<<d, j>>] = f[<<d, j>>]
    <3>1. j \in 0..(k + 1)
      OBVIOUS
    <3>2. g[<<d, j>>] = IF d \notin Signals THEN d ELSE IF j = 0 THEN NoNode ELSE f[<<D[d], j - 1>>]
      BY <3>1
    <3>3. f[<<d, j>>] = IF d \notin Signals THEN d ELSE IF j = 0 THEN NoNode ELSE f[<<D[d], j - 1>>]
      BY <2>1 DEF Follows
    <3> QED
      BY <3>2, <3>3
  <2>3. ASSUME NEW d \in Signals, NEW j \in 0..(k + 1), j # 0
        PROVE  g[<<D[d], j - 1>>] = f[<<D[d], j - 1>>]
    <3>1. D[d] \in MaybeNode /\ j - 1 \in 0..k
      BY <2>3
    <3> QED
      BY <2>2, <3>1
  <2>4. ASSUME NEW x \in MaybeNode \X (0..(k + 1)) PROVE g[x] = h[x]
    <3>1. x[1] \in MaybeNode /\ x[2] \in 0..(k + 1)
      OBVIOUS
    <3>2. g[x] = IF x[1] \notin Signals THEN x[1]
                 ELSE IF x[2] = 0 THEN NoNode ELSE f[<<D[x[1]], x[2] - 1>>]
      OBVIOUS
    <3>3. h[x] = IF x[1] \notin Signals THEN x[1]
                 ELSE IF x[2] = 0 THEN NoNode ELSE g[<<D[x[1]], x[2] - 1>>]
      OBVIOUS
    <3> HIDE DEF g, h
    <3> QED
      BY <2>3, <3>1, <3>2, <3>3
  <2>5. g = h
    <3>1. DOMAIN g = MaybeNode \X (0..(k + 1)) /\ g = [x \in DOMAIN g |-> g[x]]
      OBVIOUS
    <3>2. h = [x \in MaybeNode \X (0..(k + 1)) |-> h[x]]
      OBVIOUS
    <3> HIDE DEF g, h
    <3> QED
      BY <2>4, <3>1, <3>2
  <2>6. Follows(D, k + 1, g)
    BY <2>5 DEF Follows
  <2> HIDE DEF g, h
  <2> QED
    BY <2>6
<1> HIDE DEF S
<1>3. m \in S
  BY <1>1, <1>2, EveryNatural
<1> QED
  BY <1>3 DEF S

(* No cycle among the signals: some driver leads out of any set of them.   *)
Acyclic(D) == \A X \in SUBSET Signals : X # {} => \E s \in X : D[s] \notin X

(* What a node stands for, given labels for the signals.                   *)
Through(L, x) == IF x \in Signals THEN L[x] ELSE x

(* Where no signals drive each other in a circle, labels that agree along  *)
(* every signal's driver are the origins.                                  *)
LEMMA OriginIsUnique ==
  ASSUME NEW D \in [Node -> MaybeNode], NEW L, Signals \subseteq Node, IsFiniteSet(Signals),
         Acyclic(D), \A s \in Signals : L[s] = Through(L, D[s]),
         NEW n \in Node
  PROVE  OriginIn(D, n) = Through(L, D[n])
<1> DEFINE C == Cardinality(Signals)
           Is(f) == f = [x \in MaybeNode \X (0..C) |->
                           IF x[1] \notin Signals THEN x[1]
                           ELSE IF x[2] = 0 THEN NoNode ELSE f[<<D[x[1]], x[2] - 1>>]]
           b == CHOOSE f : Is(f)
<1>1. C \in Nat
  BY FS_CardinalityType
<1>2. Is(b)
  <2>1. \E f : Is(f)
    BY <1>1, FollowsExists DEF Follows
  <2> QED
    BY <2>1
<1>3. OriginIn(D, n) = b[<<D[n], C>>]
  BY DEF OriginIn, MaybeNode
<1>4. ASSUME NEW d \in MaybeNode, NEW k \in 0..C
      PROVE  b[<<d, k>>] = IF d \notin Signals THEN d
                           ELSE IF k = 0 THEN NoNode ELSE b[<<D[d], k - 1>>]
  <2> HIDE DEF b, C
  <2>1. b = [x \in MaybeNode \X (0..C) |->
               IF x[1] \notin Signals THEN x[1]
               ELSE IF x[2] = 0 THEN NoNode ELSE b[<<D[x[1]], x[2] - 1>>]]
    BY <1>2
  <2> QED
    BY <2>1
<1> HIDE DEF b, C
<1> DEFINE Bad(k) == {s \in Signals : b[<<s, k>>] # L[s]}
<1>5. ASSUME NEW k \in Nat, k + 1 <= C, NEW s \in Bad(k + 1) PROVE D[s] \in Bad(k)
  <2>1. k \in 0..C /\ k + 1 \in 0..C /\ k + 1 # 0 /\ (k + 1) - 1 = k
    BY <1>1, <1>5
  <2>2. D[s] \in MaybeNode /\ s \in Signals /\ s \in MaybeNode
    BY DEF MaybeNode
  <2>3. b[<<s, k + 1>>] = b[<<D[s], k>>]
    BY <1>4, <2>1, <2>2
  <2>4. D[s] \notin Signals => b[<<D[s], k>>] = D[s]
    BY <1>4, <2>1, <2>2
  <2> QED
    BY <2>2, <2>3, <2>4 DEF Through
(* Nothing becomes wrong by looking further.                               *)
<1>6. \A k \in Nat : k + 1 <= C => Bad(k + 1) \subseteq Bad(k)
  <2> DEFINE S == {k \in Nat : k + 1 <= C => Bad(k + 1) \subseteq Bad(k)}
  <2>1. 0 \in S
    <3> SUFFICES ASSUME 0 + 1 <= C, NEW s \in Bad(0 + 1) PROVE s \in Bad(0)
      OBVIOUS
    <3>1. D[s] \in Bad(0) /\ s \in Signals
      BY <1>5
    <3>2. \A d \in Signals : b[<<d, 0>>] = NoNode
      <4>1. 0 \in 0..C /\ Signals \subseteq MaybeNode
        BY <1>1 DEF MaybeNode
      <4> QED
        BY <1>4, <4>1
    <3> QED
      BY <3>1, <3>2 DEF Through
  <2>2. ASSUME NEW k \in Nat, k \in S PROVE k + 1 \in S
    <3> SUFFICES ASSUME k + 1 + 1 <= C, NEW s \in Bad(k + 1 + 1) PROVE s \in Bad(k + 1)
      OBVIOUS
    <3>1. D[s] \in Bad(k + 1) /\ s \in Signals
      BY <1>5
    <3>2. D[s] \in Bad(k)
      BY <1>1, <2>2, <3>1
    <3>3. b[<<s, k + 1>>] = b[<<D[s], k>>]
      <4>1. k + 1 \in 0..C /\ k + 1 # 0 /\ (k + 1) - 1 = k /\ s \in MaybeNode
        BY <1>1, <3>1 DEF MaybeNode
      <4> QED
        BY <1>4, <3>1, <4>1
    <3> QED
      BY <3>1, <3>2, <3>3 DEF Through
  <2> HIDE DEF S
  <2>3. \A k \in Nat : k \in S
    BY <2>1, <2>2, EveryNatural
  <2> QED
    BY <2>3 DEF S
(* As long as something is wrong, one hop more puts some of it right.      *)
<1>7. \A k \in Nat : k <= C => Cardinality(Bad(k)) <= C - k
  <2> DEFINE S == {k \in Nat : k <= C => Cardinality(Bad(k)) <= C - k}
  <2>1. 0 \in S
    <3>1. Bad(0) \in SUBSET Signals
      OBVIOUS
    <3> HIDE DEF Bad
    <3>2. Cardinality(Bad(0)) <= C
      BY <3>1, FS_Subset DEF C
    <3> QED
      BY <1>1, <3>2
  <2>2. ASSUME NEW k \in Nat, k \in S PROVE k + 1 \in S
    <3> SUFFICES ASSUME k + 1 <= C PROVE Cardinality(Bad(k + 1)) <= C - (k + 1)
      OBVIOUS
    <3>1. Bad(k + 1) \subseteq Bad(k) /\ Bad(k) \subseteq Signals
      BY <1>6
    <3>2. IsFiniteSet(Bad(k)) /\ IsFiniteSet(Bad(k + 1))
      BY <3>1, FS_Subset
    <3>3. Cardinality(Bad(k)) <= C - k
      BY <1>1, <2>2
    <3>4. CASE Bad(k + 1) = {}
      <4>1. Cardinality(Bad(k + 1)) = 0
        BY <3>4, FS_EmptySet
      <4> HIDE DEF Bad
      <4> QED
        BY <1>1, <4>1
    <3>5. CASE Bad(k + 1) # {}
      <4>1. PICK s \in Bad(k + 1) : D[s] \notin Bad(k + 1)
        BY <3>5 DEF Acyclic
      <4>2. D[s] \in Bad(k)
        BY <1>5
      <4>3. Bad(k + 1) # Bad(k)
        BY <4>1, <4>2
      <4> HIDE DEF Bad
      <4>4. Cardinality(Bad(k + 1)) \in Nat /\ Cardinality(Bad(k)) \in Nat
        BY <3>2, FS_CardinalityType
      <4>5. /\ Cardinality(Bad(k + 1)) <= Cardinality(Bad(k))
            /\ Cardinality(Bad(k + 1)) # Cardinality(Bad(k))
        BY <3>1, <3>2, <4>3, FS_Subset
      <4> QED
        BY <1>1, <3>3, <4>4, <4>5
    <3> QED
      BY <3>4, <3>5
  <2> HIDE DEF S
  <2>3. \A k \in Nat : k \in S
    BY <2>1, <2>2, EveryNatural
  <2> QED
    BY <2>3 DEF S
<1>8. Bad(C) = {}
  <2>1. IsFiniteSet(Bad(C))
    BY FS_Subset
  <2> HIDE DEF Bad
  <2>2. Cardinality(Bad(C)) <= 0 /\ Cardinality(Bad(C)) \in Nat
    BY <1>1, <1>7, <2>1, FS_CardinalityType
  <2> QED
    BY <2>1, <2>2, FS_EmptySet
<1>9. D[n] \in MaybeNode /\ C \in 0..C
  BY <1>1
<1>10. CASE D[n] \in Signals
  BY <1>3, <1>8, <1>10 DEF Through
<1>11. CASE D[n] \notin Signals
  BY <1>3, <1>4, <1>9, <1>11 DEF Through
<1> QED
  BY <1>10, <1>11
-----------------------------------------------------------------------------
(* There are finitely many signals.                                        *)
LEMMA SignalsAreFinite == Signals \subseteq Node /\ IsFiniteSet(Signals)
<1>1. Signals \subseteq Node
  BY SignalFacts
<1>2. IsFiniteSet(Resolvable) /\ IsFiniteSet(1..MaxWalks)
  <2>1. Resolvable \in SUBSET InstancePort /\ IsFiniteSet(InstancePort) /\ MaxWalks \in Nat
    BY SignalizeAssumption DEF Resolvable
  <2> QED
    BY <2>1, FS_Subset, FS_Interval
<1>3. IsFiniteSet(Resolvable \X (1..MaxWalks))
  BY <1>2, FS_Product
<1>4. NewSignal \in Surjection(Resolvable \X (1..MaxWalks), Signals)
  <2>1. DOMAIN NewSignal = Resolvable \X (1..MaxWalks) /\ NewSignal = [x \in DOMAIN NewSignal |-> NewSignal[x]]
    BY SignalizeAssumption
  <2> QED
    BY <2>1 DEF Surjection, Signals
<1> QED
  BY <1>1, <1>3, <1>4, FS_Surjection DEF ExistsSurjection

(* Labels that agree along the drivers of all nodes.                       *)
Labels(L, D) == \A n \in Node : L[n] = Through(L, D[n])

(* So they are for every node, once labels agree along the drivers of all  *)
(* nodes.                                                                  *)
LEMMA OriginsAreLabels ==
  ASSUME NEW D \in [Node -> MaybeNode], NEW L, Acyclic(D), Labels(L, D)
  PROVE  \A n \in Node : OriginIn(D, n) = L[n]
<1>1. ASSUME NEW n \in Node PROVE OriginIn(D, n) = Through(L, D[n])
  <2>1. \A s \in Signals : L[s] = Through(L, D[s])
    BY SignalsAreFinite DEF Labels
  <2> QED
    BY <2>1, SignalsAreFinite, OriginIsUnique
<1> QED
  BY <1>1 DEF Labels

(* The client drives one of its own nodes.                                 *)
LEMMA ClientLabels ==
  ASSUME NEW D \in [Node -> MaybeNode], Acyclic(D), NEW L \in [Node -> MaybeNode], Labels(L, D),
         NEW dst \in Wires, NEW src \in Wires
  PROVE  /\ Acyclic([D EXCEPT ![dst] = src])
         /\ Labels([L EXCEPT ![dst] = src], [D EXCEPT ![dst] = src])
         /\ \A x : x # dst => Through([L EXCEPT ![dst] = src], x) = Through(L, x)
<1> DEFINE D1 == [D EXCEPT ![dst] = src]
           L1 == [L EXCEPT ![dst] = src]
<1>1. dst \in Node /\ src \in Node /\ dst \notin Signals /\ src \notin Signals /\ Signals \subseteq Node
  BY SignalsAreFinite DEF Wires
<1>2. \A n \in Node : n # dst => D1[n] = D[n] /\ L1[n] = L[n]
  OBVIOUS
<1>3. D1[dst] = src /\ L1[dst] = src
  BY <1>1
<1> HIDE DEF D1, L1
<1>4. \A x : Through(L1, x) = Through(L, x)
  BY <1>1, <1>2 DEF Through
<1>5. Labels(L1, D1)
  BY <1>1, <1>2, <1>3, <1>4 DEF Labels, Through
<1>6. Acyclic(D1)
  BY <1>1, <1>2 DEF Acyclic
<1> QED
  BY <1>4, <1>5, <1>6 DEF D1, L1

(* A node is driven through sig from now on, and sig by the node that      *)
(* drove it.                                                               *)
LEMMA SinkLabels ==
  ASSUME NEW D \in [Node -> MaybeNode], Acyclic(D), NEW L \in [Node -> MaybeNode], Labels(L, D),
         NEW sig \in Signals, NEW node \in Node \ Signals, NEW dst \in Node, dst # sig,
         dst \in NormalNode => L[dst] = node,
         D[sig] = node \/ \A n \in Node : D[n] # sig,
         NEW D1, \A n \in Node : D1[n] = IF n = dst /\ n \in NormalNode THEN sig
                                           ELSE IF n = sig THEN node ELSE D[n]
  PROVE  Acyclic(D1) /\ Labels([L EXCEPT ![sig] = node], D1)
<1> DEFINE L1 == [L EXCEPT ![sig] = node]
<1>1. Signals \subseteq Node
  BY SignalsAreFinite
<1>2. L1[sig] = node /\ \A n \in Node : n # sig => L1[n] = L[n]
  BY <1>1
<1> HIDE DEF L1
<1>3. D[sig] = node => L[sig] = node
  BY <1>1 DEF Labels, Through
<1>4. \A n \in Node : Through(L1, D[n]) = Through(L, D[n])
  BY <1>1, <1>2, <1>3 DEF Through
<1>5. ASSUME NEW n \in Node PROVE L1[n] = Through(L1, D1[n])
  <2>1. CASE n = dst /\ n \in NormalNode
    BY <1>2, <2>1 DEF Through
  <2>2. CASE n = sig
    BY <1>2, <2>2 DEF Through
  <2>3. CASE n # sig /\ ~ (n = dst /\ n \in NormalNode)
    BY <1>2, <1>4, <2>3 DEF Labels
  <2> QED
    BY <2>1, <2>2, <2>3
<1>6. ASSUME NEW X \in SUBSET Signals, X # {} PROVE \E s \in X : D1[s] \notin X
  <2>1. CASE sig \in X
    BY <1>1, <2>1
  <2>2. CASE sig \notin X /\ dst \in X
    BY <1>1, <2>2, SignalFacts
  <2>3. CASE sig \notin X /\ dst \notin X
    <3>1. PICK s \in X : D[s] \notin X
      BY <1>6 DEF Acyclic
    <3> QED
      BY <1>1, <2>3, <3>1
  <2> QED
    BY <2>1, <2>2, <2>3
<1> QED
  BY <1>5, <1>6 DEF Acyclic, Labels, L1

(* A node is driven through a new signal by what drove it.                 *)
LEMMA SourceLabels ==
  ASSUME NEW D \in [Node -> MaybeNode], Acyclic(D), NEW L \in [Node -> MaybeNode], Labels(L, D),
         NEW sig \in Signals, NEW node \in Node \ Signals, NEW src \in Node, src # sig,
         D[node] = src, \A n \in Node : D[n] # sig,
         NEW D1, \A n \in Node : D1[n] = IF n = sig THEN src ELSE IF n = node THEN sig ELSE D[n]
  PROVE  Acyclic(D1) /\ Labels([L EXCEPT ![sig] = Through(L, src)], D1)
<1> DEFINE L1 == [L EXCEPT ![sig] = Through(L, src)]
<1>1. Signals \subseteq Node
  BY SignalsAreFinite
<1>2. L1[sig] = Through(L, src) /\ \A n \in Node : n # sig => L1[n] = L[n]
  BY <1>1
<1> HIDE DEF L1
<1>3. \A x : x # sig => Through(L1, x) = Through(L, x)
  BY <1>1, <1>2 DEF Through
<1>4. ASSUME NEW n \in Node PROVE L1[n] = Through(L1, D1[n])
  <2>1. CASE n = sig
    BY <1>2, <1>3, <2>1
  <2>2. CASE n = node
    BY <1>2, <2>2 DEF Labels, Through
  <2>3. CASE n # sig /\ n # node
    BY <1>2, <1>3, <2>3 DEF Labels
  <2> QED
    BY <2>1, <2>2, <2>3
<1>5. ASSUME NEW X \in SUBSET Signals, X # {} PROVE \E s \in X : D1[s] \notin X
  <2>1. CASE X \subseteq {sig}
    BY <1>1, <1>5, <2>1
  <2>2. CASE ~ (X \subseteq {sig})
    <3>1. PICK s \in X \ {sig} : D[s] \notin X \ {sig}
      <4>1. X \ {sig} \in SUBSET Signals /\ X \ {sig} # {}
        BY <2>2
      <4> QED
        BY <4>1 DEF Acyclic
    <3>2. D1[s] = D[s] /\ D[s] # sig
      BY <1>1, <3>1
    <3> QED
      BY <3>1, <3>2
  <2> QED
    BY <2>1, <2>2
<1> QED
  BY <1>4, <1>5 DEF Acyclic, Labels, L1
-----------------------------------------------------------------------------
Origins == [n \in Node |-> Origin(n)]

(* Origins agree along drivers and along all edges, and while the sinks of *)
(* a port are taken over, its signal is driven by it.                      *)
EdgesAgree == \A n \in Node : \A e \in store.outputs[n] :
                e.dst \in NormalNode => Origins[e.dst] = Through(Origins, e.src)
Settled ==
  /\ Acyclic(DriverMap) /\ Labels(Origins, DriverMap) /\ Origins \in [Node -> MaybeNode]
  /\ EdgesAgree
  /\ walk # Idle /\ walk.phase = "sinks" /\ walk.sank => DriverToBe(walk.sig) = walk.node

(* Everything is driven by a node or not at all.                           *)
LEMMA DriverMapType == SigTypeOK /\ SigInv => DriverMap \in [Node -> MaybeNode]
<1> SUFFICES ASSUME SigTypeOK, SigInv, NEW n \in Node PROVE DriverToBe(n) \in MaybeNode
  BY DEF DriverMap
<1>1. DriverOf(store, n) \in MaybeNode
  BY DEF SigInv, Sound, Store, DriverOf, Driven, Edge, MaybeNode
<1>2. Closing => walk.node \in MaybeNode /\ walk.sig \in MaybeNode
  <2>1. Closing => walk # Idle /\ walk.phase # "next"
    BY DEF Closing
  <2> QED
    BY <2>1, WalkNodes DEF MaybeNode
<1> QED
  BY <1>1, <1>2 DEF DriverToBe

(* What the step leaves to be shown once it is known how it labels nodes.  *)
LEMMA Relabelled ==
  ASSUME DriverMap' \in [Node -> MaybeNode], NEW L \in [Node -> MaybeNode],
         Acyclic(DriverMap'), Labels(L, DriverMap')
  PROVE  Origins' = L
<1>1. \A n \in Node : OriginIn(DriverMap', n) = L[n]
  BY OriginsAreLabels
<1>2. Origins' = [n \in Node |-> OriginIn(DriverMap', n)]
  BY DEF Origins, Origin
<1> QED
  BY <1>1, <1>2

(* Which drivers a step moves.                                             *)
LEMMA ClientDrivers ==
  ASSUME SigTypeOK, SigInv, NEW dst \in Wires, NEW src \in Wires, ClientTurn(dst, src)
  PROVE  DriverMap' = IF dst \in NormalNode THEN [DriverMap EXCEPT ![dst] = src] ELSE DriverMap
<1>1. walk = Idle /\ walk' = Idle /\ Changes(store, NoEdge, {<<dst, src>>}, store') /\ dst \in Node
  BY DEF ClientTurn, Turn, Wires
<1>2. ASSUME NEW n \in Node
      PROVE  DriverToBe(n)' = IF n = dst /\ n \in NormalNode THEN src ELSE DriverToBe(n)
  <2>1. DriverToBe(n) = DriverOf(store, n) /\ DriverToBe(n)' = DriverOf(store', n)
    BY <1>1 DEF DriverToBe, Closing
  <2>2. CASE n = dst /\ n \in NormalNode
    <3> DEFINE x == <<dst, src>>
    <3>1. x \in {<<dst, src>>} /\ x[1] = n /\ x[2] = src
      BY <2>2
    <3> HIDE DEF x
    <3>2. DriverOf(store', n) = x[2]
      BY <1>1, <2>2, <3>1, ChangesDriver
    <3> QED
      BY <2>1, <2>2, <3>1, <3>2
  <2>3. CASE ~ (n = dst /\ n \in NormalNode)
    <3>0. n \in NormalNode => \A x \in {<<dst, src>>} : x[1] # n
      BY <2>3
    <3>1. store'.input[n] = store.input[n]
      BY <1>1, <3>0, ChangesInput
    <3> QED
      BY <2>1, <2>3, <3>1 DEF DriverOf, Driven
  <2> QED
    BY <2>2, <2>3
<1> QED
  BY <1>1, <1>2 DEF DriverMap

(* A sink is driven by the signal, and the signal by the port.             *)
LEMMA SinkDrivers ==
  ASSUME SigTypeOK, SigInv, NEW e, SinkTurn(e)
  PROVE  DriverMap' = [n \in Node |-> IF n = e.dst /\ n \in NormalNode THEN walk.sig
                                      ELSE IF n = walk.sig THEN walk.node ELSE DriverMap[n]]
<1>1. /\ walk # Idle /\ walk.phase = "sinks" /\ Changes(store, e, SinkMade(e), store')
      /\ e.dst # walk.sig /\ e.dst # walk.node /\ e # NoEdge
  BY StoreAssumption DEF SinkTurn, Turn
<1>2. /\ walk.node \in NormalNode /\ walk.sig \in NormalNode /\ walk.sig \in Node /\ walk.sig # walk.node
      /\ ~ walk.sourced
  BY <1>1, WalkNodes DEF SigInv, WalkOK
<1>3. /\ walk' # Idle /\ walk'.phase = "sinks" /\ walk'.node = walk.node /\ walk'.sig = walk.sig
      /\ walk'.sank /\ ~ walk'.sourced
  BY <1>1, <1>2, TurnedWalk
<1>4. ASSUME NEW n \in Node
      PROVE  DriverToBe(n)' = IF n = e.dst /\ n \in NormalNode THEN walk.sig
                              ELSE IF n = walk.sig THEN walk.node ELSE DriverToBe(n)
  <2>1. CASE n = e.dst /\ n \in NormalNode
    <3>1. <<e.dst, walk.sig>> \in SinkMade(e)
      BY DEF SinkMade
    <3>2. DriverOf(store', n) = walk.sig
      BY <1>1, <2>1, <3>1, ChangesDriver
    <3> QED
      BY <1>1, <1>3, <2>1, <3>2 DEF DriverToBe
  <2>2. CASE n = walk.sig /\ walk.node \in Element
    BY <1>1, <1>3, <2>2 DEF DriverToBe, Closing
  <2>3. CASE n = walk.sig /\ walk.node \notin Element
    <3>1. <<walk.sig, walk.node>> \in SinkMade(e)
      BY <2>3 DEF SinkMade
    <3>2. DriverOf(store', n) = walk.node
      BY <1>1, <1>2, <2>3, <3>1, ChangesDriver
    <3> QED
      BY <1>1, <1>3, <2>3, <3>2 DEF DriverToBe, Closing
  <2>4. CASE n # walk.sig /\ ~ (n = e.dst /\ n \in NormalNode)
    <3>1. n \in NormalNode => \A x \in SinkMade(e) : x[1] # n
      BY <2>4 DEF SinkMade
    <3>2. store.input[n] # e
      BY <1>1, <2>4 DEF SigInv, Sound, EndsAgree, Driven
    <3>3. DriverOf(store', n) = DriverOf(store, n)
      BY <1>1, <3>1, <3>2, ChangesDriver
    <3> QED
      BY <1>2, <1>3, <2>4, <3>3 DEF DriverToBe
  <2> QED
    BY <1>1, <2>1, <2>2, <2>3, <2>4
<1> QED
  BY <1>4 DEF DriverMap

(* The signal is driven by the source, and the port by the signal.         *)
LEMMA SourceDrivers ==
  ASSUME SigTypeOK, SigInv, NEW e, SourceTurn(e)
  PROVE  /\ DriverMap' = [n \in Node |-> IF n = walk.sig THEN e.src
                                         ELSE IF n = walk.node THEN walk.sig ELSE DriverMap[n]]
         /\ DriverMap[walk.node] = e.src
<1>1. /\ walk # Idle /\ walk.phase = "sources" /\ Changes(store, e, SourceMade(e), store')
      /\ e = store.input[walk.node] /\ e.dst = walk.node /\ e # NoEdge /\ ~ walk.sank /\ ~ walk.sourced
  BY StoreAssumption DEF SourceTurn, Turn
<1>2. /\ walk.node \in NormalNode /\ walk.sig \in NormalNode /\ walk.sig \in Node /\ walk.sig # walk.node
      /\ walk.node \in Node
  BY <1>1, WalkNodes
<1>3. /\ walk' # Idle /\ walk'.phase = "sources" /\ walk'.node = walk.node /\ walk'.sig = walk.sig
      /\ ~ walk'.sank /\ walk'.sourced
  BY <1>1, TurnedWalk
<1>4. ASSUME NEW n \in Node
      PROVE  DriverToBe(n)' = IF n = walk.sig THEN e.src
                              ELSE IF n = walk.node THEN walk.sig ELSE DriverToBe(n)
  <2>1. CASE n = walk.sig
    <3>1. <<walk.sig, e.src>> \in SourceMade(e)
      BY DEF SourceMade
    <3>2. DriverOf(store', n) = e.src
      BY <1>1, <1>2, <2>1, <3>1, ChangesDriver
    <3> QED
      BY <1>2, <1>3, <2>1, <3>2 DEF DriverToBe
  <2>2. CASE n = walk.node /\ walk.node \in Element
    BY <1>2, <1>3, <2>2 DEF DriverToBe, Closing
  <2>3. CASE n = walk.node /\ walk.node \notin Element
    <3>1. <<walk.node, walk.sig>> \in SourceMade(e)
      BY <2>3 DEF SourceMade
    <3>2. DriverOf(store', n) = walk.sig
      BY <1>1, <1>2, <2>3, <3>1, ChangesDriver
    <3> QED
      BY <1>2, <1>3, <2>3, <3>2 DEF DriverToBe, Closing
  <2>4. CASE n # walk.sig /\ n # walk.node
    <3>1. n \in NormalNode => \A x \in SourceMade(e) : x[1] # n
      BY <2>4 DEF SourceMade
    <3>2. store.input[n] # e
      BY <1>1, <2>4 DEF SigInv, Sound, EndsAgree, Driven
    <3>3. DriverOf(store', n) = DriverOf(store, n)
      BY <1>1, <3>1, <3>2, ChangesDriver
    <3> QED
      BY <1>1, <1>3, <2>4, <3>3 DEF DriverToBe
  <2> QED
    BY <1>2, <2>1, <2>2, <2>3, <2>4
<1>5. DriverToBe(walk.node) = e.src
  BY <1>1 DEF DriverToBe, DriverOf, Driven
<1> QED
  BY <1>2, <1>4, <1>5 DEF DriverMap

(* The connections to the elements of an array are counted before they are *)
(* made.                                                                   *)
LEMMA CloseDrivers ==
  ASSUME SigTypeOK, SigInv, CloseTurn
  PROVE  DriverMap' = DriverMap
<1>1. walk # Idle /\ walk.phase = "sources" /\ Changes(store, NoEdge, CloseMade, store')
  BY DEF CloseTurn, Turn
<1>2. /\ walk.node \in NormalNode /\ walk.sig \in NormalNode /\ walk.sig \in Node /\ walk.sig # walk.node
      /\ walk.node \in Node /\ walk.sank \in BOOLEAN /\ walk.sourced \in BOOLEAN
  BY <1>1, WalkNodes DEF Walk
<1>3. walk' # Idle /\ walk'.phase = "next"
  BY TurnedWalk
<1>4. ASSUME NEW n \in Node PROVE DriverToBe(n)' = DriverToBe(n)
  <2>1. DriverToBe(n)' = DriverOf(store', n)
    BY <1>3 DEF DriverToBe, Closing
  <2>2. CASE n = walk.sig /\ walk.node \in Element /\ walk.sank
    <3>1. <<walk.sig, walk.node>> \in CloseMade
      BY <1>2, <2>2 DEF CloseMade
    <3>2. DriverOf(store', n) = walk.node
      BY <1>1, <1>2, <2>2, <3>1, ChangesDriver
    <3> QED
      BY <1>1, <2>1, <2>2, <3>2 DEF DriverToBe, Closing
  <2>3. CASE n = walk.node /\ walk.node \in Element /\ walk.sourced
    <3>1. <<walk.node, walk.sig>> \in CloseMade
      BY <1>2, <2>3 DEF CloseMade
    <3>2. DriverOf(store', n) = walk.sig
      BY <1>1, <1>2, <2>3, <3>1, ChangesDriver
    <3> QED
      BY <1>1, <1>2, <2>1, <2>3, <3>2 DEF DriverToBe, Closing
  <2>4. CASE /\ ~ (n = walk.sig /\ walk.node \in Element /\ walk.sank)
             /\ ~ (n = walk.node /\ walk.node \in Element /\ walk.sourced)
    <3>1. \A x \in CloseMade : x[1] # n
      BY <1>2, <2>4 DEF CloseMade
    <3>2. store'.input[n] = store.input[n]
      BY <1>1, <3>1, ChangesInput
    <3> QED
      BY <2>1, <2>4, <3>2 DEF DriverToBe, Closing, DriverOf, Driven
  <2> QED
    BY <2>2, <2>3, <2>4
<1> QED
  BY <1>4 DEF DriverMap

(* The other steps move none.                                              *)
LEMMA QuietDrivers ==
  ASSUME SigTypeOK, SigInv, QuietStep
  PROVE  DriverMap' = DriverMap
<1>1. store' = store
  BY DEF QuietStep
<1>2. ASSUME NEW n \in Node PROVE DriverToBe(n)' = DriverToBe(n)
  <2>0. DriverOf(store', n) = DriverOf(store, n)
    BY <1>1
  <2>1. CASE BeginWalk
    <3>1. ~ Closing /\ ~ Closing'
      BY <2>1 DEF BeginWalk, Closing
    <3> QED
      BY <2>0, <3>1 DEF DriverToBe
  <2>2. ASSUME NEW p \in Resolvable, Attach(p) PROVE DriverToBe(n)' = DriverToBe(n)
    <3>1. ~ Closing /\ ~ walk'.sank /\ ~ walk'.sourced
      BY <2>2 DEF Attach, PortNext, In, Closing
    <3> QED
      BY <2>0, <3>1 DEF DriverToBe
  <2>3. CASE SinksDone
    <3>1. walk # Idle /\ walk.phase = "sinks" /\ walk \in Walk
      BY <2>3 DEF SinksDone, In, SigTypeOK
    <3>2. /\ walk' \in Walk /\ walk'.phase = "sources" /\ walk'.node = walk.node
          /\ walk'.sig = walk.sig /\ walk'.sank = walk.sank /\ walk'.sourced = walk.sourced
      <4>1. Sources(store, walk.node) \subseteq Edge
        BY <3>1 DEF Sources, SigInv, Sound, Store, Walk
      <4> QED
        BY <2>3, <3>1, <4>1 DEF SinksDone, Walk, Phases
    <3>3. walk' # Idle
      BY <3>2, SignalizeAssumption
    <3> QED
      BY <2>0, <3>1, <3>2, <3>3 DEF DriverToBe, Closing
  <2>4. CASE Stops
    <3>1. ~ Closing /\ ~ Closing'
      BY <2>4 DEF Stops, In, Closing
    <3> QED
      BY <2>0, <3>1 DEF DriverToBe
  <2>5. CASE Rests
    BY <2>0, <2>5 DEF Rests, DriverToBe, Closing
  <2>6. CASE MakesList
    <3>1. ~ Closing /\ ~ Closing'
      BY <2>6, MadeList DEF Closing
    <3> QED
      BY <2>0, <3>1 DEF DriverToBe
  <2> QED
    BY <2>1, <2>2, <2>3, <2>4, <2>5, <2>6 DEF QuietStep
<1> QED
  BY <1>2 DEF DriverMap
-----------------------------------------------------------------------------
(* In a new design only parameters are driven, by their defaults.          *)
LEMMA SettledInit ==
  ASSUME SigInit
  PROVE  Settled /\ Origins \in [Node -> (Wires \cup {NoNode})]
<1>1. Init /\ walk = Idle
  BY DEF SigInit
<1>2. SigTypeOK /\ SigInv
  BY SigInitInv
<1>3. DriverMap \in [Node -> MaybeNode]
  BY <1>2, DriverMapType
<1> DEFINE L == [n \in Node |-> IF n \in Parameter THEN Default[n] ELSE NoNode]
<1>4. ASSUME NEW n \in Node PROVE DriverMap[n] = L[n]
  <2>1. DriverMap[n] = DriverOf(store, n)
    BY <1>1 DEF DriverMap, DriverToBe, Closing
  <2>2. store.input[n] = IF n \in Parameter THEN DefaultEdge(n) ELSE NoEdge
    BY <1>1 DEF Init
  <2>3. n \in Parameter => DefaultEdge(n) \in Edge /\ DefaultEdge(n) # NoEdge
    BY DefaultEdgesAreEdges
  <2>4. n \in Parameter => DefaultEdge(n).src = Default[n]
    BY DEF DefaultEdge
  <2> QED
    BY <2>1, <2>2, <2>3, <2>4 DEF DriverOf, Driven
<1>5. \A n \in Node : L[n] \in Wires \cup {NoNode} /\ L[n] \notin Signals
  <2>1. \A p \in Parameter : Default[p] \in Literal
    BY EdgesAssumption
  <2>2. \A l \in Literal : l \in Node /\ l \notin Signals
    BY SignalFacts DEF Literal
  <2>3. NoNode \notin Signals
    BY SignalFacts, EdgesAssumption
  <2> QED
    BY <2>1, <2>2, <2>3 DEF Wires
<1>6. L \in [Node -> MaybeNode] /\ L \in [Node -> (Wires \cup {NoNode})]
  BY <1>5 DEF Wires, MaybeNode
<1>7. Acyclic(DriverMap)
  <2>1. \A s \in Signals : DriverMap[s] = NoNode /\ s # NoNode
    BY <1>4, SignalFacts, EdgesAssumption DEF Parameter
  <2> QED
    BY <2>1 DEF Acyclic
<1>8. Labels(L, DriverMap)
  BY <1>4, <1>5 DEF Labels, Through
<1>9. Origins = L
  <2> HIDE DEF L
  <2>1. \A n \in Node : OriginIn(DriverMap, n) = L[n]
    BY <1>3, <1>6, <1>7, <1>8, OriginsAreLabels
  <2> QED
    BY <1>6, <2>1 DEF Origins, Origin
<1>10. EdgesAgree
  <2> SUFFICES ASSUME NEW n \in Node, NEW e \in store.outputs[n], e.dst \in NormalNode
               PROVE  Origins[e.dst] = Through(Origins, e.src)
    BY DEF EdgesAgree
  <2>1. PICK p \in Parameter : e = DefaultEdge(p)
    BY <1>1 DEF Init
  <2>2. e.dst = p /\ e.src = Default[p] /\ p \in Node
    BY <2>1 DEF DefaultEdge, Parameter
  <2>3. L[p] = Default[p]
    BY <2>2
  <2> QED
    BY <1>5, <1>9, <2>2, <2>3 DEF Through
<1> HIDE DEF L
<1> QED
  BY <1>1, <1>6, <1>7, <1>8, <1>9, <1>10 DEF Settled

(* A signal that is not connected yet drives nothing.                      *)
LEMMA FreshDrivesNothing ==
  ASSUME SigTypeOK, SigInv, walk # Idle, walk.phase # "next", ~ walk.sank, ~ walk.sourced
  PROVE  NoEdgeAt(walk.sig) /\ \A n \in Node : DriverMap[n] # walk.sig
<1>1. NoEdgeAt(walk.sig) /\ walk.sig \in Node
  <2>1. Unconnected(walk.node, walks)
    BY DEF Unconnected
  <2> QED
    BY <2>1, WalkNodes DEF SigInv, Fresh
<1>2. ASSUME NEW n \in Node PROVE DriverOf(store, n) # walk.sig
  <2>1. CASE Driven(store, n)
    <3>1. store.input[n] \in store.outputs[store.input[n].src] /\ store.input[n].src \in Node
      BY <2>1 DEF SigInv, Sound, Backed, Store, Edge, Driven
    <3> QED
      BY <1>1, <2>1, <3>1 DEF NoEdgeAt, DriverOf
  <2>2. CASE ~ Driven(store, n)
    BY <1>1, <2>2, EdgesAssumption DEF DriverOf
  <2> QED
    BY <2>1, <2>2
<1> QED
  BY <1>1, <1>2 DEF DriverMap, DriverToBe

(* Edges agree after a turn if the old ones do, and what was made does.    *)
LEMMA TurnAgrees ==
  ASSUME NEW e, NEW made, Turn(e, made), NEW L, Origins' = L,
         \A n \in Node : \A a \in store.outputs[n] :
           a # e /\ a.dst \in NormalNode => L[a.dst] = Through(L, a.src),
         \A x \in made : x[1] \in NormalNode => L[x[1]] = Through(L, x[2])
  PROVE  EdgesAgree'
<1> SUFFICES ASSUME NEW n \in Node, NEW a \in store'.outputs[n], a.dst \in NormalNode
             PROVE  L[a.dst] = Through(L, a.src)
  BY DEF EdgesAgree, Through
<1>1. \/ a \in store.outputs[n] /\ a # e
      \/ <<a.dst, a.src>> \in made
  BY ChangesOutputs DEF Turn
<1>2. CASE <<a.dst, a.src>> \in made
  <2>1. <<a.dst, a.src>>[1] \in NormalNode => L[<<a.dst, a.src>>[1]] = Through(L, <<a.dst, a.src>>[2])
    BY <1>2
  <2> QED
    BY <2>1
<1> QED
  BY <1>1, <1>2

(* A connection by the client gives its destination the source for an      *)
(* origin, and changes no other.                                           *)
LEMMA ClientSettles ==
  ASSUME Reconnect = FALSE, SigTypeOK, SigInv, Told, Settled,
         NEW dst \in Wires, NEW src \in Wires, ClientTurn(dst, src)
  PROVE  Settled' /\ Origins' = IF dst \in NormalNode THEN [Origins EXCEPT ![dst] = src] ELSE Origins
<1> DEFINE L == IF dst \in NormalNode THEN [Origins EXCEPT ![dst] = src] ELSE Origins
<1>1. dst \in Node /\ src \in Node /\ dst \notin Signals /\ src \notin Signals
  BY DEF Wires
<1>2. L \in [Node -> MaybeNode]
  BY <1>1 DEF Settled, MaybeNode
<1>3. DriverMap' = IF dst \in NormalNode THEN [DriverMap EXCEPT ![dst] = src] ELSE DriverMap
  BY ClientDrivers
<1>4. DriverMap \in [Node -> MaybeNode] /\ DriverMap' \in [Node -> MaybeNode]
  <2>1. DriverMap \in [Node -> MaybeNode]
    BY DriverMapType
  <2> QED
    BY <1>1, <1>3, <2>1 DEF MaybeNode
<1>5. Acyclic(DriverMap') /\ Labels(L, DriverMap')
  <2>1. Acyclic(DriverMap) /\ Labels(Origins, DriverMap) /\ Origins \in [Node -> MaybeNode]
    BY DEF Settled
  <2>2. CASE dst \in NormalNode
    <3>1. /\ Acyclic([DriverMap EXCEPT ![dst] = src])
          /\ Labels([Origins EXCEPT ![dst] = src], [DriverMap EXCEPT ![dst] = src])
      BY <1>4, <2>1, ClientLabels
    <3> QED
      BY <1>3, <2>2, <3>1
  <2>3. CASE dst \notin NormalNode
    BY <1>3, <2>1, <2>3
  <2> QED
    BY <2>2, <2>3
<1>6. \A n \in Node : L[n] = IF n = dst /\ n \in NormalNode THEN src ELSE Origins[n]
  BY <1>1 DEF Settled
<1>7. \A x : Through(L, x) = Through(Origins, x)
  <2>1. \A x \in Signals : x \in Node /\ x # dst
    BY <1>1, SignalFacts
  <2> QED
    BY <1>6, <2>1 DEF Through
<1> HIDE DEF L
<1>8. Origins' = L
  BY <1>2, <1>4, <1>5, Relabelled
<1>9. EdgesAgree'
  <2>1. Turn(NoEdge, {<<dst, src>>}) /\ store.input[dst] = NoEdge
    BY DEF ClientTurn, Driven
  <2>2. ASSUME NEW n \in Node, NEW a \in store.outputs[n], a.dst \in NormalNode
        PROVE  L[a.dst] = Through(L, a.src)
    <3>1. Origins[a.dst] = Through(Origins, a.src) /\ a.dst \in Node
      BY <2>2 DEF Settled, EdgesAgree, NormalNode
    <3>2. a.dst # dst
      <4>1. a # NoEdge
        BY StoreAssumption DEF SigInv, Sound, Store
      <4> QED
        BY <1>1, <2>1, <2>2, <4>1 DEF Told
    <3> QED
      BY <1>6, <1>7, <3>1, <3>2
  <2>3. \A x \in {<<dst, src>>} : x[1] \in NormalNode => L[x[1]] = Through(L, x[2])
    BY <1>1, <1>6 DEF Through
  <2> QED
    BY <1>8, <2>1, <2>2, <2>3, TurnAgrees
<1>10. walk' = Idle
  BY DEF ClientTurn
<1> QED
  BY <1>2, <1>5, <1>8, <1>9, <1>10 DEF Settled, L

(* Moving a sink to the signal changes the origin of that signal at most:  *)
(* what the edge led to has the port for an origin, and keeps it through   *)
(* the signal.                                                             *)
LEMMA SinkSettles ==
  ASSUME SigTypeOK, SigInv, Settled, NEW e, SinkTurn(e)
  PROVE  Settled' /\ Origins' = [Origins EXCEPT ![walk.sig] = walk.node]
<1> DEFINE L == [Origins EXCEPT ![walk.sig] = walk.node]
<1>1. /\ walk # Idle /\ walk.phase = "sinks" /\ e \in store.outputs[walk.node] /\ Turn(e, SinkMade(e))
      /\ e.dst # walk.sig /\ e.dst # walk.node /\ e.src = walk.node /\ e.dst \in Node
  BY DEF SinkTurn, Edge
<1>2. /\ walk.sig \in Signals /\ walk.node \in Node /\ walk.node \notin Signals /\ walk.sig \in Node
      /\ ~ walk.sourced
  BY <1>1, WalkNodes DEF SigInv, WalkOK
<1>3. /\ Origins \in [Node -> MaybeNode] /\ Labels(Origins, DriverMap) /\ Acyclic(DriverMap) /\ EdgesAgree
  BY DEF Settled
<1>4. L \in [Node -> MaybeNode] /\ L[walk.sig] = walk.node /\ \A n \in Node \ {walk.sig} : L[n] = Origins[n]
  BY <1>2, <1>3 DEF MaybeNode
<1> HIDE DEF L
<1>5. e.dst \in NormalNode => Origins[e.dst] = walk.node
  BY <1>1, <1>2, <1>3 DEF EdgesAgree, Through
<1>6. DriverMap \in [Node -> MaybeNode]
  BY DriverMapType
<1>7. walk.sank => DriverMap[walk.sig] = walk.node /\ Origins[walk.sig] = walk.node
  <2>1. walk.sank => DriverMap[walk.sig] = walk.node
    BY <1>1, <1>2 DEF Settled, DriverMap
  <2> QED
    BY <1>2, <1>3, <2>1 DEF Labels, Through
<1>8. ~ walk.sank => NoEdgeAt(walk.sig) /\ \A n \in Node : DriverMap[n] # walk.sig
  BY <1>1, <1>2, FreshDrivesNothing
<1>9. DriverMap' = [n \in Node |-> IF n = e.dst /\ n \in NormalNode THEN walk.sig
                                   ELSE IF n = walk.sig THEN walk.node ELSE DriverMap[n]]
  BY SinkDrivers
<1>10. Acyclic(DriverMap') /\ Labels(L, DriverMap')
  <2>1. DriverMap[walk.sig] = walk.node \/ \A n \in Node : DriverMap[n] # walk.sig
    BY <1>7, <1>8
  <2>2. PICK D1 : D1 = DriverMap'
    OBVIOUS
  <2>3. Acyclic(D1) /\ Labels(L, D1)
    <3>1. walk.node \in Node \ Signals /\ (e.dst \in NormalNode => Origins[e.dst] = walk.node)
          /\ e.dst # walk.sig
      BY <1>1, <1>2, <1>5
    <3>3. e.dst \in Node
      BY <1>1
    <3>2. \A n \in Node : D1[n] = IF n = e.dst /\ n \in NormalNode THEN walk.sig
                                 ELSE IF n = walk.sig THEN walk.node ELSE DriverMap[n]
      BY <1>9, <2>2
    <3> QED
      BY ONLY <1>2, <1>3, <1>6, <2>1, <3>1, <3>2, <3>3, SinkLabels DEF L
  <2> QED
    BY <2>2, <2>3
<1>11. Origins' = L
  <2>1. DriverMap' \in [Node -> MaybeNode]
    BY <1>2, <1>6, <1>9 DEF MaybeNode
  <2> QED
    BY <1>4, <1>10, <2>1, Relabelled
<1>12. EdgesAgree'
  <2>1. ASSUME NEW n \in Node, NEW a \in store.outputs[n], a.dst \in NormalNode
        PROVE  L[a.dst] = Through(L, a.src)
    <3>1. Origins[a.dst] = Through(Origins, a.src) /\ a.dst \in Node
      BY <1>3, <2>1 DEF EdgesAgree, NormalNode
    <3>2. CASE walk.sank
      <4>1. \A n1 \in Node : L[n1] = Origins[n1]
        BY <1>4, <1>7, <3>2
      <4> QED
        BY <3>1, <4>1, SignalFacts DEF Through
    <3>3. CASE ~ walk.sank
      <4>1. a.dst # walk.sig /\ a.src # walk.sig
        BY <1>8, <2>1, <3>3 DEF NoEdgeAt
      <4> QED
        BY <1>4, <3>1, <4>1, SignalFacts DEF Through
    <3> QED
      BY <3>2, <3>3
  <2>2. \A x \in SinkMade(e) : x[1] \in NormalNode => L[x[1]] = Through(L, x[2])
    <3>1. ASSUME e.dst \in NormalNode PROVE L[e.dst] = Through(L, walk.sig)
      BY <1>1, <1>2, <1>4, <1>5, <3>1 DEF Through
    <3>2. L[walk.sig] = Through(L, walk.node)
      BY <1>2, <1>4 DEF Through
    <3> QED
      BY <3>1, <3>2 DEF SinkMade
  <2> QED
    BY <1>1, <1>11, <2>1, <2>2, TurnAgrees
<1>13. walk'.sig = walk.sig /\ walk'.node = walk.node
  BY TurnedWalk
<1>14. (DriverToBe(walk.sig) = walk.node)'
  <2>1. DriverMap'[walk'.sig] = walk'.node /\ walk'.sig \in Node
    BY <1>1, <1>2, <1>9, <1>13
  <2> QED
    BY <2>1 DEF DriverMap
<1> QED
  BY <1>4, <1>10, <1>11, <1>12, <1>14 DEF Settled, L

(* Moving the source of a port changes the origin of its signal, which     *)
(* nothing follows yet.                                                    *)
LEMMA SourceSettles ==
  ASSUME SigTypeOK, SigInv, Settled, NEW e, SourceTurn(e)
  PROVE  Settled' /\ Origins' = [Origins EXCEPT ![walk.sig] = Through(Origins, e.src)]
<1> DEFINE L == [Origins EXCEPT ![walk.sig] = Through(Origins, e.src)]
<1>1. /\ walk # Idle /\ walk.phase = "sources" /\ Turn(e, SourceMade(e)) /\ ~ walk.sank /\ ~ walk.sourced
      /\ e.src # walk.sig /\ e.src \in Node
  BY DEF SourceTurn, Edge
<1>2. walk.sig \in Signals /\ walk.node \in Node /\ walk.node \notin Signals /\ walk.sig \in Node
  BY <1>1, WalkNodes
<1>3. /\ Origins \in [Node -> MaybeNode] /\ Labels(Origins, DriverMap) /\ Acyclic(DriverMap) /\ EdgesAgree
  BY DEF Settled
<1>4. /\ L \in [Node -> MaybeNode] /\ L[walk.sig] = Through(Origins, e.src)
      /\ \A n \in Node \ {walk.sig} : L[n] = Origins[n]
  <2>1. Through(Origins, e.src) \in MaybeNode
    BY <1>1, <1>3 DEF Through, MaybeNode
  <2> QED
    BY <1>2, <1>3, <2>1
<1> HIDE DEF L
<1>5. NoEdgeAt(walk.sig) /\ \A n \in Node : DriverMap[n] # walk.sig
  BY <1>1, FreshDrivesNothing
<1>6. DriverMap \in [Node -> MaybeNode]
  BY DriverMapType
<1>7. /\ DriverMap' = [n \in Node |-> IF n = walk.sig THEN e.src
                                      ELSE IF n = walk.node THEN walk.sig ELSE DriverMap[n]]
      /\ DriverMap[walk.node] = e.src
  BY SourceDrivers
<1>8. Acyclic(DriverMap') /\ Labels(L, DriverMap')
  <2>1. walk.node \in Node \ Signals
    BY <1>2
  <2>2. PICK D1 : D1 = DriverMap'
    OBVIOUS
  <2>3. Acyclic(D1) /\ Labels(L, D1)
    <3>1. DriverMap[walk.node] = e.src /\ \A n \in Node : DriverMap[n] # walk.sig
      BY <1>5, <1>7
    <3>2. \A n \in Node : D1[n] = IF n = walk.sig THEN e.src
                                 ELSE IF n = walk.node THEN walk.sig ELSE DriverMap[n]
      BY <1>7, <2>2
    <3>3. e.src \in Node /\ e.src # walk.sig
      BY <1>1
    <3> QED
      BY ONLY <1>2, <1>3, <1>6, <2>1, <3>1, <3>2, <3>3, SourceLabels DEF L
  <2> QED
    BY <2>2, <2>3
<1>9. Origins' = L
  <2>1. DriverMap' \in [Node -> MaybeNode]
    BY <1>1, <1>2, <1>6, <1>7 DEF MaybeNode
  <2> QED
    BY <1>4, <1>8, <2>1, Relabelled
<1>10. \A x : x # walk.sig => Through(L, x) = Through(Origins, x)
  BY <1>4, SignalFacts DEF Through
<1>11. EdgesAgree'
  <2>1. ASSUME NEW n \in Node, NEW a \in store.outputs[n], a.dst \in NormalNode
        PROVE  L[a.dst] = Through(L, a.src)
    <3>1. Origins[a.dst] = Through(Origins, a.src) /\ a.dst \in Node
      BY <1>3, <2>1 DEF EdgesAgree, NormalNode
    <3>2. a.dst # walk.sig /\ a.src # walk.sig
      BY <1>5, <2>1 DEF NoEdgeAt
    <3> QED
      BY <1>4, <1>10, <3>1, <3>2
  <2>2. \A x \in SourceMade(e) : x[1] \in NormalNode => L[x[1]] = Through(L, x[2])
    <3>1. L[walk.sig] = Through(L, e.src)
      BY <1>1, <1>4, <1>10
    <3>2. L[walk.node] = Through(L, walk.sig)
      <4>1. Origins[walk.node] = Through(Origins, e.src)
        BY <1>2, <1>3, <1>7 DEF Labels
      <4> QED
        BY <1>2, <1>4, <4>1 DEF Through
    <3> QED
      BY <3>1, <3>2 DEF SourceMade
  <2> QED
    BY <1>1, <1>9, <2>1, <2>2, TurnAgrees
<1>12. walk'.phase = "sources"
  BY <1>1, TurnedWalk
<1> QED
  BY <1>4, <1>8, <1>9, <1>11, <1>12 DEF Settled, L

(* Origins only depend on what drives what.                                *)
LEMMA OriginsStay == DriverMap' = DriverMap => Origins' = Origins
BY DEF Origins, Origin

(* The connections after the loops change no origin.                       *)
LEMMA CloseSettles ==
  ASSUME SigTypeOK, SigInv, Settled, CloseTurn
  PROVE  Settled' /\ Origins' = Origins
<1>1. walk # Idle /\ walk.phase = "sources" /\ Turn(NoEdge, CloseMade)
  BY DEF CloseTurn
<1>2. DriverMap' = DriverMap /\ Origins' = Origins
  BY CloseDrivers, OriginsStay
<1>3. \A x \in CloseMade : x[1] \in NormalNode => Origins[x[1]] = Through(Origins, x[2])
  <2>1. walk.sig \in Node /\ walk.node \in Node /\ walk.sig # walk.node
    BY <1>1, WalkNodes
  <2>2. ASSUME NEW x \in CloseMade PROVE x[1] \in Node /\ DriverMap[x[1]] = x[2]
    <3>1. CASE x = <<walk.sig, walk.node>>
      <4>1. walk.sank /\ Closing
        BY <1>1, <3>1 DEF CloseMade, Closing
      <4> QED
        BY <2>1, <3>1, <4>1 DEF DriverMap, DriverToBe
    <3>2. CASE x = <<walk.node, walk.sig>>
      <4>1. walk.sourced /\ Closing
        BY <1>1, <2>1, <3>2 DEF CloseMade, Closing
      <4> QED
        BY <2>1, <3>2, <4>1 DEF DriverMap, DriverToBe
    <3> QED
      BY <3>1, <3>2 DEF CloseMade
  <2> QED
    BY <2>2 DEF Settled, Labels
<1>4. EdgesAgree'
  BY <1>1, <1>2, <1>3, TurnAgrees DEF Settled, EdgesAgree
<1>5. walk'.phase = "next"
  BY TurnedWalk
<1> QED
  BY <1>2, <1>4, <1>5 DEF Settled

(* Nor do the steps that leave the edges alone.                            *)
LEMMA QuietSettles ==
  ASSUME SigTypeOK, SigInv, Settled, QuietStep
  PROVE  Settled' /\ Origins' = Origins
<1>1. DriverMap' = DriverMap /\ Origins' = Origins /\ store' = store
  BY QuietDrivers, OriginsStay DEF QuietStep
<1>2. EdgesAgree'
  BY <1>1 DEF Settled, EdgesAgree, Through
<1>3. (walk # Idle /\ walk.phase = "sinks" /\ walk.sank => DriverToBe(walk.sig) = walk.node)'
  <2>1. CASE BeginWalk
    BY <2>1 DEF BeginWalk
  <2>2. ASSUME NEW p \in Resolvable, Attach(p) PROVE ~ walk'.sank
    BY <2>2 DEF Attach
  <2>3. CASE SinksDone
    <3>1. walk \in Walk
      BY <2>3 DEF SinksDone, In, SigTypeOK
    <3> QED
      BY <2>3, <3>1 DEF SinksDone, Walk
  <2>4. CASE Stops
    BY <2>4 DEF Stops
  <2>5. CASE Rests
    BY <1>1, <2>5 DEF Rests, Settled, DriverToBe, Closing
  <2>6. CASE MakesList
    BY <2>6, MadeList
  <2> QED
    BY <2>1, <2>2, <2>3, <2>4, <2>5, <2>6 DEF QuietStep
<1> QED
  BY <1>1, <1>2, <1>3 DEF Settled

(* What each step does to the origins of the client's nodes.               *)
LEMMA SettledStep ==
  ASSUME Reconnect = FALSE
  PROVE  SigTypeOK /\ SigInv /\ Told /\ Settled /\ [SigNext]_sigVars =>
           Settled' /\ [Net!NetNext]_(Net!netVars)
<1> SUFFICES ASSUME SigTypeOK, SigInv, Told, Settled, [SigNext]_sigVars
             PROVE  Settled' /\ [Net!NetNext]_(Net!netVars)
  OBVIOUS
<1> DEFINE driver == [n \in Wires |-> Origin(n)]
<1>2. driver = [n \in Wires |-> Origins[n]] /\ driver' = [n \in Wires |-> Origins'[n]]
  BY DEF Wires, Origins
<1>3. ASSUME NEW dst \in Wires, NEW src \in Wires, ClientTurn(dst, src)
      PROVE  Settled' /\ Net!NetNext
  <2>1. Settled' /\ Origins' = IF dst \in NormalNode THEN [Origins EXCEPT ![dst] = src] ELSE Origins
    BY <1>3, ClientSettles
  <2>2. calls' = calls + 1
    BY <1>3 DEF ClientTurn
  <2>3. driver' = IF dst \in Wires \cap NormalNode THEN [driver EXCEPT ![dst] = src] ELSE driver
    <3>1. Origins \in [Node -> MaybeNode] /\ Wires \subseteq Node
      BY DEF Settled, Wires
    <3> HIDE DEF driver
    <3> QED
      BY <1>2, <2>1, <3>1
  <2>4. Net!Drive(dst, src)
    BY <2>2, <2>3 DEF Net!Drive
  <2> QED
    BY <2>1, <2>4 DEF Net!NetNext
<1>4. ASSUME Settled', calls' = calls,
             Origins' = Origins \/ \E x : Origins' = [Origins EXCEPT ![walk.sig] = x] /\ walk.sig \in Signals
      PROVE  Settled' /\ UNCHANGED Net!netVars
  <2>1. \A n \in Wires : Origins'[n] = Origins[n]
    BY <1>4 DEF Wires, Settled
  <2> QED
    BY <1>2, <1>4, <2>1 DEF Net!netVars
<1>5. ASSUME NEW e \in walk.todo, SinkTurn(e) PROVE Settled' /\ UNCHANGED Net!netVars
  <2>1. walk.sig \in Signals /\ calls' = calls
    BY <1>5, WalkNodes DEF SinkTurn
  <2>2. Settled' /\ Origins' = [Origins EXCEPT ![walk.sig] = walk.node]
    BY <1>5, SinkSettles
  <2> QED
    BY <1>4, <2>1, <2>2
<1>6. ASSUME NEW e \in walk.todo, SourceTurn(e) PROVE Settled' /\ UNCHANGED Net!netVars
  <2>1. walk.sig \in Signals /\ calls' = calls
    BY <1>6, WalkNodes DEF SourceTurn
  <2>2. Settled' /\ Origins' = [Origins EXCEPT ![walk.sig] = Through(Origins, e.src)]
    BY <1>6, SourceSettles
  <2> QED
    BY <1>4, <2>1, <2>2
<1>7. CASE CloseTurn
  BY <1>4, <1>7, CloseSettles DEF CloseTurn
<1>8. CASE QuietStep
  BY <1>4, <1>8, QuietSettles DEF QuietStep
<1> QED
  BY <1>3, <1>5, <1>6, <1>7, <1>8, SigSteps

(* Signal insertion implements the netlist: what drives the client's       *)
(* nodes, looking through signals, only changes by what the client         *)
(* connects and as it says (resolve.cc, edge.h:116). This holds between    *)
(* any two edges of a walk, for any design and any number of walks, as     *)
(* long as the client connects no node twice.                              *)
THEOREM SignalsKeepNetlist ==
  ASSUME Reconnect = FALSE
  PROVE  SigSpec => KeepsNetlist
<1>1. SigInit => Told /\ Settled
  BY ToldInit, SettledInit
<1>2. SigInit => Net!NetInit
  <2> SUFFICES ASSUME SigInit PROVE Net!NetInit
    OBVIOUS
  <2>1. Origins \in [Node -> (Wires \cup {NoNode})] /\ calls = 0
    BY SettledInit DEF SigInit
  <2>2. [n \in Wires |-> Origin(n)] \in [Wires -> Wires \cup {NoNode}]
    BY <2>1 DEF Origins, Wires
  <2> QED
    BY <2>1, <2>2 DEF Net!NetInit
<1>3. SigTypeOK /\ SigInv /\ Told /\ [SigNext]_sigVars => Told'
  BY ToldStep
<1>4. SigTypeOK /\ SigInv /\ Told /\ Settled /\ [SigNext]_sigVars =>
           Settled' /\ [Net!NetNext]_(Net!netVars)
  BY SettledStep
<1> QED
  BY <1>1, <1>2, <1>3, <1>4, SigInvariant, PTL DEF SigSpec, KeepsNetlist, Net!NetSpec
-----------------------------------------------------------------------------
(* What Generate does to the edges is a walk.                              *)
LEMMA StepIsSigStep == [GenNext]_genVars => [SigNext]_sigVars
BY DEF GenNext, GenerateStep, StopsWithoutText, WriteText, SigNext, genVars, sigVars

(* So is every behaviour of it.                                            *)
LEMMA GenIsSig == GenSpec => SigSpec
<1>1. GenInit => SigInit
  BY DEF GenInit
<1> QED
  BY <1>1, StepIsSigStep, PTL DEF GenSpec, SigSpec

(* Design::Generate leaves every instance port with one signal of its own. *)
THEOREM GeneratedSeparate ==
  ASSUME Reconnect = FALSE
  PROVE  GenSpec => OneSignalPerPort
BY GenIsSig, SignalsSeparatePorts, PTL

(* Design::Generate never changes what drives what, however often it is    *)
(* called.                                                                 *)
THEOREM GeneratedKeep ==
  ASSUME Reconnect = FALSE
  PROVE  GenSpec => KeepsNetlist
BY GenIsSig, SignalsKeepNetlist, PTL
-----------------------------------------------------------------------------
(* Only the edges parameters are born with have no identity of EdgeId.     *)
Named == \A n \in Node : \A e \in store.outputs[n] :
           e.id \in EdgeId \/ (e.src \in Literal /\ e.dst \in Parameter)

(* At first there are only edges parameters are born with.                 *)
LEMMA NamedInit == SigInit => Named
<1> SUFFICES ASSUME Init, NEW n \in Node, NEW e \in store.outputs[n]
             PROVE  e.src \in Literal /\ e.dst \in Parameter
  BY DEF SigInit, Named
<1>1. PICK p \in Parameter : e = DefaultEdge(p)
  BY DEF Init
<1> QED
  BY <1>1, EdgesAssumption DEF DefaultEdge

(* Connect gives every new edge an identity.                               *)
LEMMA NamedStep == SigTypeOK /\ SigInv /\ Named /\ [SigNext]_sigVars => Named'
<1> SUFFICES ASSUME SigTypeOK, SigInv, Named, [SigNext]_sigVars PROVE Named'
  OBVIOUS
<1>1. ASSUME NEW e, NEW made, Turn(e, made) PROVE Named'
  <2>1. \A n \in Node : \A a \in store'.outputs[n] : a \in store.outputs[n] \/ a \in NewEdges
    BY <1>1, ChangesOutputs DEF Turn
  <2> QED
    BY <2>1 DEF Named, NewEdges
<1>2. QuietStep => Named'
  BY DEF QuietStep, Named
<1> QED
  BY <1>1, <1>2, SigSteps DEF ClientTurn, SinkTurn, SourceTurn, CloseTurn

(* The edges at a port or a signal were all made by Connect.               *)
LEMMA PortEdges ==
  ASSUME SigTypeOK, SigInv, Named, NEW p \in Port \cup Signal, NEW e \in EdgesAt(p)
  PROVE  e.id \in EdgeId /\ e.src \in Node /\ e.dst \in Node /\ OtherEnd(e, p) \in Node
<1>1. p \in Node /\ p \notin Literal /\ p \notin Parameter
  BY DEF Port, Signal, Literal, Parameter
<1>2. CASE e \in store.outputs[p]
  BY <1>1, <1>2 DEF SigInv, Sound, EndsAgree, Store, Edge, Named, OtherEnd
<1>3. CASE e = store.input[p] /\ e # NoEdge
  <2>1. e \in Edge /\ e.dst = p /\ e \in store.outputs[e.src]
    BY <1>1, <1>3 DEF SigInv, Sound, EndsAgree, Backed, Driven, Store
  <2> QED
    BY <1>1, <2>1 DEF Edge, Named, OtherEnd
<1> QED
  BY <1>2, <1>3 DEF EdgesAt, Sinks, Sources

(* Every statement that is written is about an edge and two nodes of the   *)
(* design.                                                                 *)
LEMMA TextType ==
  ASSUME SigTypeOK, SigInv, Named
  PROVE  PortMaps \cup Assignments \subseteq Statement
<1>1. ASSUME NEW p \in Port, NEW e \in Connections(p)
      PROVE  e \in EdgesAt(p) /\ e.id \in EdgeId /\ OtherEnd(e, p) \in Node
  <2>1. e \in EdgesAt(p)
    BY <1>1 DEF Connections, EdgesAt
  <2> QED
    BY <2>1, PortEdges
<1>2. ASSUME NEW p \in Node, NEW q \in Node, NEW e, e.id \in EdgeId PROVE Associate(p, q, e) \in Statement
  BY <1>2 DEF Associate, Statement
<1>3. ASSUME NEW p \in Port PROVE PortMap(p) \subseteq Statement
  <2>1. p \in Node
    BY DEF Port
  <2> QED
    BY <1>1, <1>2, <1>3, <2>1 DEF PortMap
<1>4. \A a \in Array : Range(Elements[a]) \subseteq Port /\ \A i \in DOMAIN Elements[a] : Elements[a][i] \in Port
  BY SignalizeAssumption DEF Range
<1>5. Member \subseteq Node
  <2>1. Element \subseteq Port
    BY <1>4 DEF Element
  <2> QED
    <3>1. \A x \in (Element \cap Resolvable) \X (1..MaxWalks) : NewSignal[x] \in Node
      BY SignalizeAssumption
    <3> QED
      BY <2>1, <3>1 DEF Member, Port
<1>6. ASSUME NEW a \in InstanceArray PROVE PortArrayMap(a) \subseteq Statement
  <2>1. a \in Array /\ Elements[a] # << >> /\ Elements[a] \in Seq(Port)
    BY SignalizeAssumption DEF InstanceArray
  <2>2. Elements[a][1] \in Port
    BY <2>1
  <2>3. WholeMap(a) \subseteq Statement
    <3> DEFINE first == Elements[a][1]
    <3> SUFFICES ASSUME NEW e \in Connections(first), NEW i \in DOMAIN Elements[a],
                        NEW r \in Opposite(OtherEnd(e, first), i)
                 PROVE  Associate(Elements[a][i], r, e) \in Statement
      BY DEF WholeMap
    <3>1. e.id \in EdgeId /\ OtherEnd(e, first) \in Node
      BY <1>1, <2>2
    <3>2. r \in Node
      BY <1>5, <3>1 DEF Opposite
    <3>3. Elements[a][i] \in Node
      BY <1>4, <2>1 DEF Port
    <3> QED
      BY <1>2, <3>1, <3>2, <3>3
  <2>4. \A p \in Range(Elements[a]) : PortMap(p) \subseteq Statement
    BY <1>3, <1>4, <2>1
  <2> QED
    BY <2>3, <2>4 DEF PortArrayMap
<1>7. Assignments \subseteq Statement
  <2> SUFFICES ASSUME NEW n \in AssignedPort \cup AssignedSignal
               PROVE  [dst |-> n, src |-> store.input[n].src, edge |-> store.input[n].id] \in Statement
    BY DEF Assignments
  <2>1. n \in Port \cup Signal /\ Driven(store, n)
    BY DEF AssignedPort, AssignedSignal, ComponentPort
  <2>2. store.input[n] \in EdgesAt(n) /\ n \in Node
    BY <2>1 DEF EdgesAt, Sources, Driven, Port, Signal
  <2> QED
    <3>1. store.input[n].id \in EdgeId /\ store.input[n].src \in Node
      BY <2>1, <2>2, PortEdges
    <3> QED
      BY <2>2, <3>1 DEF Statement
<1>8. \A p \in InstancePort : p \in Port
  BY DEF InstancePort
<1>9. ASSUME NEW x \in PortMaps PROVE x \in Statement
  <2>1. \/ x \in UNION {PortMap(p) : p \in InstancePort \ Element}
        \/ x \in UNION {PortArrayMap(a) : a \in InstanceArray}
    BY DEF PortMaps
  <2>2. CASE x \in UNION {PortMap(p) : p \in InstancePort \ Element}
    <3>1. PICK p \in InstancePort \ Element : x \in PortMap(p)
      BY <2>2
    <3> QED
      BY <1>3, <1>8, <3>1
  <2>3. CASE x \in UNION {PortArrayMap(a) : a \in InstanceArray}
    <3>1. PICK a \in InstanceArray : x \in PortArrayMap(a)
      BY <2>3
    <3> QED
      BY <1>6, <3>1
  <2> QED
    BY <2>1, <2>2, <2>3
<1> QED
  BY <1>7, <1>9

(* Design::Generate keeps the types of the edges and of the walk, and      *)
(* writes statements about edges and nodes that exist, also for arrays     *)
(* that are connected as a whole by one line.                              *)
THEOREM GenTypeSafety == GenSpec => []GenTypeOK
<1>1. GenInit => Named /\ text \in Text
  BY NamedInit DEF GenInit, NoText, Text
<1>2. SigTypeOK /\ SigInv /\ Named /\ text \in Text /\ [GenNext]_genVars => Named' /\ (text \in Text)'
  <2> SUFFICES ASSUME SigTypeOK, SigInv, Named, text \in Text, [GenNext]_genVars
               PROVE  Named' /\ text' \in Text
    OBVIOUS
  <2>1. Named'
    BY StepIsSigStep, NamedStep
  <2>2. CASE WriteText
    <3>1. PortMaps \cup Assignments \subseteq Statement
      BY TextType
    <3> QED
      BY <2>1, <2>2, <3>1 DEF WriteText, Text
  <2>3. CASE text' = text \/ text' = NoText \/ StopsWithoutText
    BY <2>1, <2>3 DEF Text, NoText, StopsWithoutText
  <2> QED
    BY <2>1, <2>2, <2>3 DEF GenNext, GenerateStep, genVars
<1> QED
  BY <1>1, <1>2, GenIsSig, SigInvariant, PTL DEF GenSpec, GenTypeOK
=============================================================================
