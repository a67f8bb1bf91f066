-------------------------- MODULE EdgeEditsProofs ---------------------------
(***************************************************************************)
(* Proofs about editing for any design: however Replace and Reverse are    *)
(* mixed with connecting nodes, and wherever a Replace is broken off by a  *)
(* Connect that throws, edges stay with their ends, and a Replace that     *)
(* gets to its sinks has moved the driver of the node.                     *)
(***************************************************************************)
EXTENDS EdgeEdits, EdgesProofs

(* What a visit does: the edge is unlinked, and if the connection is       *)
(* allowed another one is made.                                            *)
LEMMA VisitShape ==
  ASSUME NEW e, NEW first, NEW dst, NEW src, Visit(e, first, dst, src)
  PROVE  LET t == Unlink(store, e, first, job.node)
         IN  /\ \/ store' = t /\ job' = Idle
                \/ FreshIds(t) # {} /\ store' = Link(t, dst, src) /\ job' = [job EXCEPT !.todo = @ \ {e}]
             /\ rebind' \in {rebind, Remember(rebind, dst, src)}
             /\ dir' = dir
<1>1. CASE Allowed(dir, dst, src)
  BY <1>1 DEF Visit
<1>2. CASE ~ Allowed(dir, dst, src)
  BY <1>2 DEF Visit
<1> QED
  BY <1>1, <1>2

(* A visit in the loop over the sources, and one in the loop over the      *)
(* sinks, are about nodes.                                                 *)
VisitSource == InLoop("sources") /\ \E e \in job.todo : Visit(e, e.src, job.repl, e.src)
VisitSink   == InLoop("sinks")   /\ \E e \in job.todo : Visit(e, e.src, e.src, job.repl)

(* The steps of an edit: those of Connect, and those that are about job.   *)
LEMMA EditSteps ==
  ASSUME EditNext
  PROVE  \/ job = Idle /\ job' = Idle /\ Next
         \/ \E n, r \in Node : BeginReplace(n, r)
         \/ VisitSource \/ VisitSink
         \/ SourcesDone \/ SinksDone
         \/ \E p \in Port : Reverse(p)
  BY DEF EditNext, Client, ReplaceSource, ReplaceSink, VisitSource, VisitSink

LEMMA VisitKeepsType ==
  ASSUME EditTypeOK, job # Idle, NEW e \in job.todo, NEW dst \in Node, NEW src \in Node,
         Visit(e, e.src, dst, src)
  PROVE  EditTypeOK'
<1> DEFINE t == Unlink(store, e, e.src, job.node)
<1>1. job \in Job /\ e \in Edge /\ e.src \in Node /\ job.node \in Node
  BY DEF EditTypeOK, Job, Edge
<1>2. t \in Store
  BY <1>1, UnlinkShrinks DEF EditTypeOK, TypeOK
<1>3. \/ store' = t /\ job' = Idle
      \/ FreshIds(t) # {} /\ store' = Link(t, dst, src) /\ job' = [job EXCEPT !.todo = job.todo \ {e}]
  BY VisitShape
<1> HIDE DEF t
<1>4. FreshIds(t) # {} => Link(t, dst, src) \in Store
  BY <1>2, LinkEffect
<1>5. job' \in Job \cup {Idle}
  BY <1>1, <1>3 DEF Job
<1>6. dir' \in [Port -> Dirs] /\ rebind' \in [Node -> Node \cup {NoNode}]
  BY VisitShape DEF EditTypeOK, TypeOK, Remember
<1> QED
  BY <1>2, <1>3, <1>4, <1>5, <1>6 DEF EditTypeOK, TypeOK

(* The containers of edges and the state of a Replace keep their types.    *)
THEOREM EditTypeSafety == EditSpec => []EditTypeOK
<1>1. EditInit => EditTypeOK
  BY TypeInit DEF EditInit, EditTypeOK
<1>2. EditTypeOK /\ [EditNext]_editVars => EditTypeOK'
  <2> SUFFICES ASSUME EditTypeOK, [EditNext]_editVars PROVE EditTypeOK'
    OBVIOUS
  <2>1. CASE job = Idle /\ job' = Idle /\ Next
    BY <2>1, TypeStep DEF EditTypeOK
  <2>2. ASSUME NEW n \in Node, NEW r \in Node, BeginReplace(n, r) PROVE EditTypeOK'
    <3>1. Sources(store, n) \subseteq Edge /\ DriverOf(store, n) \in Node \cup {NoNode}
      BY DEF EditTypeOK, TypeOK, Store, Sources, DriverOf, Driven, Edge
    <3>2. job' \in Job
      BY <2>2, <3>1 DEF BeginReplace, Job
    <3> QED
      BY <2>2, <3>2 DEF BeginReplace, EditTypeOK, TypeOK, vars
  <2>3. CASE VisitSource
    <3>1. PICK e \in job.todo : Visit(e, e.src, job.repl, e.src)
      BY <2>3 DEF VisitSource
    <3>2. job # Idle /\ job.repl \in Node /\ e.src \in Node
      BY <2>3 DEF VisitSource, InLoop, EditTypeOK, Job, Edge
    <3> QED
      BY <3>1, <3>2, VisitKeepsType
  <2>4. CASE VisitSink
    <3>1. PICK e \in job.todo : Visit(e, e.src, e.src, job.repl)
      BY <2>4 DEF VisitSink
    <3>2. job # Idle /\ job.repl \in Node /\ e.src \in Node
      BY <2>4 DEF VisitSink, InLoop, EditTypeOK, Job, Edge
    <3> QED
      BY <3>1, <3>2, VisitKeepsType
  <2>5. CASE SourcesDone
    <3>1. job \in Job /\ Sinks(store, job.node) \subseteq Edge
      BY <2>5 DEF SourcesDone, InLoop, EditTypeOK, TypeOK, Job, Store, Sinks
    <3>2. job' \in Job
      BY <2>5, <3>1 DEF SourcesDone, Job
    <3> QED
      BY <2>5, <3>2 DEF SourcesDone, EditTypeOK, TypeOK, vars
  <2>6. CASE SinksDone
    BY <2>6 DEF SinksDone, EditTypeOK, TypeOK, vars
  <2>7. ASSUME NEW p \in Port, Reverse(p) PROVE EditTypeOK'
    <3>1. store' \in Store
      BY <2>7 DEF Reverse, EditTypeOK, TypeOK, Store
    <3>2. dir' \in [Port -> Dirs]
      BY <2>7 DEF Reverse, EditTypeOK, TypeOK, Dirs
    <3> QED
      BY <2>7, <3>1, <3>2 DEF Reverse, EditTypeOK, TypeOK
  <2>8. CASE UNCHANGED editVars
    BY <2>8 DEF EditTypeOK, TypeOK, editVars
  <2> QED
    BY <2>1, <2>2, <2>3, <2>4, <2>5, <2>6, <2>7, <2>8, EditSteps
<1> QED
  BY <1>1, <1>2, PTL DEF EditSpec
-----------------------------------------------------------------------------
LEMMA VisitKeepsConsistency ==
  ASSUME EditTypeOK, HeldConsistently, job # Idle,
         NEW e \in job.todo, NEW dst \in Node, NEW src \in Node, Visit(e, e.src, dst, src)
  PROVE  HeldConsistently'
<1> DEFINE t == Unlink(store, e, e.src, job.node)
<1>1. store \in Store /\ e.src \in Node /\ job.node \in Node
  BY DEF EditTypeOK, TypeOK, Job, Edge
<1>2. t \in Store /\ EndsAgree(t) /\ UniqueIds(t)
  BY <1>1, UnlinkShrinks, ShrinkKeepsConsistency DEF HeldConsistently
<1>3. store' = t \/ (FreshIds(t) # {} /\ store' = Link(t, dst, src))
  BY VisitShape
<1> HIDE DEF t
<1>4. EndsAgree(store') /\ UniqueIds(store')
  BY <1>2, <1>3, LinkKeepsConsistency
<1> QED
  BY <1>4 DEF HeldConsistently

(* A port turned around gives up its edges and nobody else's.              *)
LEMMA ReverseShrinks ==
  ASSUME EditTypeOK, NEW p \in Port, Reverse(p)
  PROVE  store' \in Store /\ Shrinks(store, store')
<1>1. store' \in Store
  BY DEF Reverse, EditTypeOK, TypeOK, Store
<1>2. \A n \in Node : store'.outputs[n] \subseteq store.outputs[n]
  BY DEF Reverse, EditTypeOK, TypeOK, Store
<1>3. \A n \in Node : store'.input[n] \in {store.input[n], NoEdge}
  BY DEF Reverse, EditTypeOK, TypeOK, Store
<1> QED
  BY <1>1, <1>2, <1>3 DEF Shrinks

LEMMA EditKeepsConsistency == EditTypeOK /\ HeldConsistently /\ [EditNext]_editVars => HeldConsistently'
<1> SUFFICES ASSUME EditTypeOK, HeldConsistently, [EditNext]_editVars PROVE HeldConsistently'
  OBVIOUS
<1>1. ASSUME UNCHANGED store PROVE HeldConsistently'
  BY <1>1 DEF HeldConsistently
<1>2. CASE Next
  BY <1>2, ConsistencyStep DEF EditTypeOK
<1>3. CASE VisitSource
  <2>1. PICK e \in job.todo : Visit(e, e.src, job.repl, e.src)
    BY <1>3 DEF VisitSource
  <2>2. job # Idle /\ job.repl \in Node /\ e.src \in Node
    BY <1>3 DEF VisitSource, InLoop, EditTypeOK, Job, Edge
  <2> QED
    BY <2>1, <2>2, VisitKeepsConsistency
<1>4. CASE VisitSink
  <2>1. PICK e \in job.todo : Visit(e, e.src, e.src, job.repl)
    BY <1>4 DEF VisitSink
  <2>2. job # Idle /\ job.repl \in Node /\ e.src \in Node
    BY <1>4 DEF VisitSink, InLoop, EditTypeOK, Job, Edge
  <2> QED
    BY <2>1, <2>2, VisitKeepsConsistency
<1>5. ASSUME NEW p \in Port, Reverse(p) PROVE HeldConsistently'
  BY <1>5, ReverseShrinks, ShrinkKeepsConsistency DEF HeldConsistently, EditTypeOK, TypeOK
<1>6. (\E n, r \in Node : BeginReplace(n, r)) \/ SourcesDone \/ SinksDone \/ UNCHANGED editVars
        => UNCHANGED store
  BY DEF BeginReplace, SourcesDone, SinksDone, vars, editVars
<1> QED
  BY <1>1, <1>2, <1>3, <1>4, <1>5, <1>6, EditSteps

(* Editing leaves no node with an edge that is not its own, and no two     *)
(* edges that could be taken for each other, also after a Replace that     *)
(* threw half way.                                                         *)
THEOREM EditsStayConsistent == EditSpec => []HeldConsistently
<1>1. EditInit => HeldConsistently
  BY StoreInit DEF EditInit
<1> QED
  BY <1>1, EditKeepsConsistency, EditTypeSafety, PTL DEF EditSpec
-----------------------------------------------------------------------------
(* What the loops of Replace know: the node and its replacement differ,    *)
(* the source to visit is the input of the node and the one remembered,    *)
(* the sinks to visit are edges of the node, and once no source is left    *)
(* the node has no driver, or later the replacement, which has its driver. *)
Moved == job.from # NoNode /\ job.repl \in NormalNode => DriverOf(store, job.repl) = job.from

ReplaceInv ==
  job # Idle =>
    /\ job.node # job.repl
    /\ job.phase = "sources" =>
         /\ \A e \in job.todo : e = store.input[job.node] /\ (job.from # NoNode => e.src = job.from)
         /\ job.todo = {} => Moved /\ ~ Driven(store, job.node)
    /\ job.phase = "sinks" =>
         /\ \A e \in job.todo : e.src = job.node
         /\ DriverOf(store, job.node) \in {NoNode, job.repl}
         /\ Moved

(* Removing an edge takes no input but that edge, from the node at hand,   *)
(* and takes it there unless it was among the outputs.                     *)
LEMMA RemoveTakesOnly ==
  ASSUME NEW s \in Store, NEW n \in Node, NEW e, NEW m \in Node
  PROVE  /\ RemoveEdge(s, n, e) \in Store
         /\ \/ RemoveEdge(s, n, e).input[m] = s.input[m]
            \/ m = n /\ s.input[m] = e /\ RemoveEdge(s, n, e).input[m] = NoEdge
         /\ e \notin s.outputs[n] /\ n \in NormalNode /\ s.input[n] = e
              => RemoveEdge(s, n, e).input[n] = NoEdge
<1> DEFINE t == RemoveEdge(s, n, e)
<1>1. /\ t \in Store
      /\ t.outputs = IF e \in s.outputs[n] THEN [s.outputs EXCEPT ![n] = s.outputs[n] \ {e}]
                                           ELSE s.outputs
      /\ t.input = IF e \notin s.outputs[n] /\ n \in NormalNode /\ s.input[n] = e
                     THEN [s.input EXCEPT ![n] = NoEdge] ELSE s.input
  BY RemoveEffect
<1>2. s.input \in [Node -> Edge \cup {NoEdge}]
  BY DEF Store
<1> HIDE DEF t
<1>3. \/ t.input[m] = s.input[m]
      \/ m = n /\ s.input[m] = e /\ t.input[m] = NoEdge
  BY <1>1, <1>2
<1>4. e \notin s.outputs[n] /\ n \in NormalNode /\ s.input[n] = e => t.input[n] = NoEdge
  BY <1>1, <1>2
<1> QED
  BY <1>1, <1>3, <1>4 DEF t

(* Unlinking takes no input but the edge at hand, and that from its ends.  *)
LEMMA UnlinkTakesOnly ==
  ASSUME NEW s \in Store, NEW first \in Node, NEW second \in Node, NEW e, NEW m \in Node
  PROVE  \/ Unlink(s, e, first, second).input[m] = s.input[m]
         \/ /\ m \in {first, second} /\ s.input[m] = e
            /\ Unlink(s, e, first, second).input[m] = NoEdge
<1> DEFINE t == RemoveEdge(s, first, e)
           u == RemoveEdge(t, second, e)
<1>1. /\ t \in Store
      /\ \/ t.input[m] = s.input[m]
         \/ m = first /\ s.input[m] = e /\ t.input[m] = NoEdge
  BY RemoveTakesOnly
<1> HIDE DEF t
<1>2. \/ u.input[m] = t.input[m]
      \/ m = second /\ t.input[m] = e /\ u.input[m] = NoEdge
  BY <1>1, RemoveTakesOnly
<1>3. u = Unlink(s, e, first, second)
  BY DEF Unlink, t
<1> QED
  BY <1>1, <1>2, <1>3

(* Unlinking the input of a node leaves it without one, also when it       *)
(* drives itself.                                                          *)
LEMMA UnlinkTakesInput ==
  ASSUME NEW s \in Store, EndsAgree(s), NEW n \in Node, Driven(s, n)
  PROVE  ~ Driven(Unlink(s, s.input[n], s.input[n].src, n), n)
<1> DEFINE e == s.input[n]
           t == RemoveEdge(s, e.src, e)
           u == RemoveEdge(t, n, e)
<1>1. n \in NormalNode /\ e \in Edge /\ e.src \in Node
  BY DEF EndsAgree, Driven, Store, Edge
<1>2. t \in Store /\ e \notin t.outputs[n] /\ t.input[n] \in {e, NoEdge}
  <2>1. CASE e.src = n
    <3>1. /\ t \in Store
          /\ t.outputs = IF e \in s.outputs[n] THEN [s.outputs EXCEPT ![n] = s.outputs[n] \ {e}] ELSE s.outputs
      BY <1>1, <2>1, RemoveEffect
    <3>2. e \notin t.outputs[n]
      BY <3>1 DEF Store
    <3>3. t.input[n] \in {e, NoEdge}
      BY <1>1, <2>1, RemoveShrinks DEF Shrinks
    <3> QED
      BY <3>1, <3>2, <3>3
  <2>2. CASE e.src # n
    <3>1. e \notin s.outputs[n]
      BY <2>2 DEF EndsAgree
    <3>2. t \in Store /\ t.outputs[n] \subseteq s.outputs[n] /\ t.input[n] \in {e, NoEdge}
      BY <1>1, RemoveShrinks DEF Shrinks
    <3> QED
      BY <3>1, <3>2
  <2> QED
    BY <2>1, <2>2
<1> HIDE DEF t
<1>3. u.input[n] = NoEdge
  <2>1. u.input[n] = t.input[n] \/ u.input[n] = NoEdge
    BY <1>2, RemoveTakesOnly
  <2>2. t.input[n] = e => u.input[n] = NoEdge
    BY <1>1, <1>2, RemoveTakesOnly
  <2> QED
    BY <1>2, <2>1, <2>2
<1>4. u = Unlink(s, e, e.src, n)
  BY DEF Unlink, t
<1> QED
  BY <1>3, <1>4 DEF Driven

(* Moving an edge of n so that r drives n leaves the driver of r alone.    *)
LEMMA MovedSinkKeepsDriver ==
  ASSUME NEW s \in Store, NEW n \in Node, NEW r \in Node, r # n, NEW e,
         FreshIds(Unlink(s, e, n, n)) # {}
  PROVE  DriverOf(Link(Unlink(s, e, n, n), n, r), r) = DriverOf(s, r)
<1> DEFINE t == RemoveEdge(s, n, e)
           u == RemoveEdge(t, n, e)
<1>1. t \in Store /\ t.input[r] = s.input[r]
  BY RemoveShrinks, RemoveLeavesOthers
<1> HIDE DEF t
<1>2. u \in Store /\ u.input[r] = t.input[r]
  BY <1>1, RemoveShrinks, RemoveLeavesOthers
<1>3. u = Unlink(s, e, n, n)
  BY DEF u, t, Unlink
<1> HIDE DEF u
<1>4. DriverOf(Link(u, n, r), r) = DriverOf(u, r)
  BY <1>2, <1>3, LinkDrives
<1> QED
  BY <1>1, <1>2, <1>3, <1>4 DEF DriverOf, Driven

LEMMA ReplaceInvStep ==
  EditTypeOK /\ HeldConsistently /\ ReplaceInv /\ [EditNext]_editVars => ReplaceInv'
<1> SUFFICES ASSUME EditTypeOK, HeldConsistently, ReplaceInv, [EditNext]_editVars PROVE ReplaceInv'
  OBVIOUS
<1> store \in Store /\ job \in Job \cup {Idle}
  BY DEF EditTypeOK, TypeOK
<1>1. CASE job' = Idle
  BY <1>1 DEF ReplaceInv
<1>2. ASSUME NEW n \in Node, NEW r \in Node, BeginReplace(n, r) PROVE ReplaceInv'
  <2>1. /\ job'.node = n /\ job'.repl = r /\ n # r /\ job'.phase = "sources"
        /\ job'.todo = Sources(store, n) /\ job'.from = DriverOf(store, n)
    BY <1>2 DEF BeginReplace
  <2>2. Sources(store, n) = {} => DriverOf(store, n) = NoNode /\ ~ Driven(store, n)
    BY DEF Sources, DriverOf, Driven
  <2>3. \A e \in Sources(store, n) :
          e = store.input[n] /\ (DriverOf(store, n) # NoNode => e.src = DriverOf(store, n))
    BY DEF Sources, DriverOf, Driven
  <2>4. store' = store
    BY <1>2 DEF BeginReplace, vars
  <2> QED
    BY <2>1, <2>2, <2>3, <2>4 DEF ReplaceInv, Moved
<1>3. CASE VisitSource /\ job' # Idle
  <2>1. PICK e \in job.todo : Visit(e, e.src, job.repl, e.src)
    BY <1>3 DEF VisitSource
  <2> DEFINE t == Unlink(store, e, e.src, job.node)
  <2>2. job # Idle /\ job.phase = "sources" /\ job \in Job /\ e.src \in Node
    BY <1>3 DEF VisitSource, InLoop, Job, Edge
  <2>3. FreshIds(t) # {} /\ store' = Link(t, job.repl, e.src) /\ job' = [job EXCEPT !.todo = job.todo \ {e}]
    BY <1>3, <2>1, VisitShape
  <2>4. t \in Store /\ ~ Driven(t, job.node)
    <3>1. e = store.input[job.node] /\ job.node \in Node
      BY <2>1, <2>2 DEF ReplaceInv, Job
    <3>2. Driven(store, job.node)
      BY <2>1, <2>2, <3>1, StoreAssumption DEF Driven, Job
    <3> QED
      BY <2>2, <3>1, <3>2, UnlinkShrinks, UnlinkTakesInput DEF HeldConsistently
  <2> HIDE DEF t
  <2>7. ~ Driven(store', job.node)
    BY <2>2, <2>3, <2>4, LinkDrives DEF Job, ReplaceInv
  <2>8. job'.todo = {}
    BY <2>1, <2>2, <2>3 DEF ReplaceInv, Job
  <2>5. job.repl \in NormalNode => DriverOf(store', job.repl) = e.src
    BY <2>2, <2>3, <2>4, LinkDrives DEF Job
  <2>6. /\ job'.node = job.node /\ job'.repl = job.repl /\ job'.from = job.from
        /\ job'.phase = "sources" /\ job'.todo \subseteq job.todo
    BY <2>2, <2>3 DEF Job
  <2> QED
    BY <2>1, <2>2, <2>5, <2>6, <2>7, <2>8 DEF ReplaceInv, Moved
<1>4. CASE VisitSink /\ job' # Idle
  <2>1. PICK e \in job.todo : Visit(e, e.src, e.src, job.repl)
    BY <1>4 DEF VisitSink
  <2>2. job # Idle /\ job.phase = "sinks" /\ job \in Job /\ e.src = job.node
    BY <1>4 DEF VisitSink, InLoop, ReplaceInv
  <2> DEFINE t == Unlink(store, e, job.node, job.node)
  <2>3. job.node \in Node /\ job.repl \in Node /\ job.repl # job.node /\ Moved
    BY <2>2 DEF Job, ReplaceInv
  <2>4. FreshIds(t) # {} /\ store' = Link(t, job.node, job.repl) /\ job' = [job EXCEPT !.todo = job.todo \ {e}]
    BY <1>4, <2>1, <2>2, VisitShape
  <2>5. DriverOf(store', job.repl) = DriverOf(store, job.repl)
    BY <2>3, <2>4, MovedSinkKeepsDriver
  <2>6. /\ job'.node = job.node /\ job'.repl = job.repl /\ job'.from = job.from
        /\ job'.phase = "sinks" /\ job'.todo \subseteq job.todo
    BY <2>2, <2>4 DEF Job
  <2>7. t \in Store /\ t.input[job.node] \in {store.input[job.node], NoEdge}
    BY <2>3, UnlinkShrinks DEF Shrinks
  <2>8. DriverOf(store', job.node) \in {NoNode, job.repl}
    <3> HIDE DEF t
    <3>1. DriverOf(t, job.node) \in {NoNode, job.repl}
      BY <2>2, <2>7 DEF ReplaceInv, DriverOf, Driven
    <3> QED
      BY <2>3, <2>4, <2>7, <3>1, LinkDrives
  <2> QED
    BY <2>2, <2>3, <2>5, <2>6, <2>8 DEF ReplaceInv, Moved
<1>5. CASE SourcesDone
  <2>1. /\ job # Idle /\ job.phase = "sources" /\ job.todo = {} /\ job \in Job
        /\ job' = [job EXCEPT !.phase = "sinks", !.todo = Sinks(store, job.node)] /\ store' = store
    BY <1>5 DEF SourcesDone, InLoop, vars
  <2>2. \A e \in Sinks(store, job.node) : e.src = job.node
    BY <2>1 DEF HeldConsistently, EndsAgree, Sinks, Job
  <2>3. /\ job'.node = job.node /\ job'.repl = job.repl /\ job'.from = job.from
        /\ job'.phase = "sinks" /\ job'.todo = Sinks(store, job.node)
    BY <2>1 DEF Job
  <2>4. DriverOf(store, job.node) = NoNode
    BY <2>1 DEF ReplaceInv, DriverOf
  <2> QED
    BY <2>1, <2>2, <2>3, <2>4 DEF ReplaceInv, Moved
<1>6. CASE UNCHANGED editVars
  BY <1>6 DEF ReplaceInv, Moved, editVars
<1>7. SinksDone \/ (\E p \in Port : Reverse(p)) => job' = Idle
  BY DEF SinksDone, Reverse
<1> QED
  BY <1>1, <1>2, <1>3, <1>4, <1>5, <1>6, <1>7, EditSteps

(* A Replace that gets past the sources of the node has given its driver   *)
(* to the replacement, and nothing it does to the sinks takes it away.     *)
THEOREM ReplaceMovesDriver == EditSpec => []ReplaceMovesInput
<1>1. EditInit => ReplaceInv
  BY DEF EditInit, ReplaceInv
<1>2. ReplaceInv => ReplaceMovesInput
  BY DEF ReplaceInv, Moved, ReplaceMovesInput, InLoop
<1> QED
  BY <1>1, <1>2, ReplaceInvStep, EditTypeSafety, EditsStayConsistent, PTL DEF EditSpec
-----------------------------------------------------------------------------
(* A visit takes the input of no node but the destination of its edge, and *)
(* the connection it makes takes none.                                     *)
LEMMA VisitTakes ==
  ASSUME EditTypeOK, EndsAgree(store), job # Idle, NEW e \in job.todo, NEW dst \in Node,
         NEW src \in Node, Visit(e, e.src, dst, src), NEW n \in Node, LosesDriver(n)
  PROVE  store.input[n] = e /\ e.dst = n /\ n \in {e.src, job.node}
<1> DEFINE t == Unlink(store, e, e.src, job.node)
<1>1. store \in Store /\ e.src \in Node /\ job.node \in Node
  BY DEF EditTypeOK, TypeOK, Job, Edge
<1>2. t \in Store
  BY <1>1, UnlinkShrinks
<1>3. \/ t.input[n] = store.input[n]
      \/ n \in {e.src, job.node} /\ store.input[n] = e
  BY <1>1, UnlinkTakesOnly
<1>4. store' = t \/ (FreshIds(t) # {} /\ store' = Link(t, dst, src))
  BY VisitShape
<1> HIDE DEF t
<1>5. ~ Driven(t, n)
  BY <1>2, <1>4, LinkDrives DEF LosesDriver
<1>6. n \in {e.src, job.node} /\ store.input[n] = e
  BY <1>3, <1>5 DEF LosesDriver, Driven
<1> QED
  BY <1>6 DEF LosesDriver, EndsAgree

LEMMA DriversHandedOnStep ==
  ASSUME EditTypeOK, HeldConsistently, ReplaceInv, EditNext, NEW n \in Node, LosesDriver(n)
  PROVE  HandedOn(n) \/ (n \in Port /\ Reverse(n))
<1> store \in Store /\ job \in Job \cup {Idle} /\ EndsAgree(store)
  BY DEF EditTypeOK, TypeOK, HeldConsistently
<1>1. store' # store
  BY DEF LosesDriver
<1>2. CASE Next
  <2>2. PICK dst \in Node, src \in Node :
          ConnectNodes(dst, src) \/ ConnectThrowsLate(dst, src) \/ SetValue(dst, src)
    BY <1>2 DEF Next
  <2>3. FreshIds(store) # {} /\ store' = Link(store, dst, src)
    BY <1>1, <2>2, StepShape
  <2> QED
    BY <2>3, LinkDrives DEF LosesDriver
<1>3. CASE VisitSource
  <2>1. PICK e \in job.todo : Visit(e, e.src, job.repl, e.src)
    BY <1>3 DEF VisitSource
  <2>2. /\ InLoop("sources") /\ job # Idle /\ job \in Job /\ job.phase = "sources"
        /\ e.src \in Node /\ job.repl \in Node /\ job.node \in Node /\ job.repl # job.node
    BY <1>3 DEF VisitSource, InLoop, Job, Edge, ReplaceInv
  <2>3. store.input[n] = e /\ e.dst = n
    BY <2>1, <2>2, VisitTakes
  <2>4. e = store.input[job.node] /\ e # NoEdge
    BY <2>1, <2>2, StoreAssumption DEF ReplaceInv, Job
  <2>5. job.node = n
    BY <2>2, <2>3, <2>4 DEF EndsAgree, Driven
  <2>6. DriverOf(store, n) = e.src
    BY <2>3, <2>4 DEF DriverOf, Driven
  <2>7. job' # Idle /\ job.repl \in NormalNode => DriverOf(store', job.repl) = e.src
    <3> DEFINE t == Unlink(store, e, e.src, job.node)
    <3>1. t \in Store
      BY <2>2, UnlinkShrinks
    <3>2. job' # Idle => FreshIds(t) # {} /\ store' = Link(t, job.repl, e.src)
      BY <2>1, VisitShape
    <3> HIDE DEF t
    <3> QED
      BY <2>2, <3>1, <3>2, LinkDrives
  <2> QED
    BY <2>2, <2>5, <2>6, <2>7 DEF HandedOn
<1>4. CASE VisitSink
  <2>1. PICK e \in job.todo : Visit(e, e.src, e.src, job.repl)
    BY <1>4 DEF VisitSink
  <2>2. /\ job # Idle /\ job \in Job /\ job.phase = "sinks" /\ e.src = job.node
        /\ job.repl \in Node /\ job.node \in Node /\ job.repl # job.node
    BY <1>4, <2>1 DEF VisitSink, InLoop, Job, ReplaceInv
  <2>3. store.input[n] = e /\ n = job.node
    BY <2>1, <2>2, VisitTakes
  <2>4. DriverOf(store, job.node) = job.node
    BY <2>2, <2>3 DEF DriverOf, LosesDriver
  <2> QED
    BY <2>2, <2>4, EdgesAssumption DEF ReplaceInv
<1>5. ASSUME NEW p \in Port, Reverse(p) PROVE n \in Port /\ Reverse(n)
  <2>1. n # p => store'.input[n] = store.input[n]
    BY <1>5 DEF Reverse, Store
  <2> QED
    BY <1>5, <2>1 DEF LosesDriver, Driven
<1>6. (\E m, r \in Node : BeginReplace(m, r)) \/ SourcesDone \/ SinksDone => store' = store
  BY DEF BeginReplace, SourcesDone, SinksDone, vars
<1> QED
  BY <1>1, <1>2, <1>3, <1>4, <1>5, <1>6, EditSteps

(* A node that is driven, such as a parameter with its value, loses its    *)
(* driver to no edit of another node.  When it is replaced itself, the     *)
(* driver goes to the replacement before anything else happens, unless the *)
(* replacement refuses it.                                                 *)
THEOREM DriversHandedOn == EditSpec => DriversAreHandedOn
<1>1. EditInit => ReplaceInv
  BY DEF EditInit, ReplaceInv
<1>2. EditTypeOK /\ HeldConsistently /\ ReplaceInv /\ [EditNext]_editVars =>
        [\A n \in Node : LosesDriver(n) => HandedOn(n) \/ (n \in Port /\ Reverse(n))]_editVars
  BY DriversHandedOnStep
<1> QED
  BY <1>1, <1>2, ReplaceInvStep, EditTypeSafety, EditsStayConsistent, PTL DEF EditSpec, DriversAreHandedOn
=============================================================================
