------------------------------ MODULE EdgeEdits ------------------------------
(***************************************************************************)
(* The two operations that take edges away again from nodes that are in    *)
(* use: Node::Replace (node.cc) and Port::Reverse (port.cc), next to       *)
(* Connect.  Replace is a loop over the edges of the node, one step per    *)
(* edge, and any Connect in it may throw and leave the loop where it is.   *)
(***************************************************************************)
EXTENDS Edges

CONSTANT Idle   \* no Replace is running

VARIABLE job    \* the running Replace: what for, and the edges still to visit

editVars == <<store, dir, rebind, job>>

Job == [node : Node, repl : Node, from : Node \cup {NoNode},
        phase : {"sources", "sinks"}, todo : SUBSET Edge]

ASSUME IdleAssumption == Idle \notin Job

EditInit == Init /\ job = Idle

(* "from" remembers what drove the node when Replace was called.           *)
BeginReplace(n, r) ==
  /\ job = Idle /\ n # r
  /\ job' = [node |-> n, repl |-> r, from |-> DriverOf(store, n),
             phase |-> "sources", todo |-> Sources(store, n)]
  /\ UNCHANGED vars

(* Take e off its two ends, the first one named first, then Connect(dst,   *)
(* src).  When that throws, Replace ends there, with e already gone.       *)
Visit(e, first, dst, src) ==
  LET unlinked == Unlink(store, e, first, job.node)
  IN  IF Allowed(dir, dst, src)
        THEN /\ FreshIds(unlinked) # {}
             /\ store' = Link(unlinked, dst, src)
             /\ rebind' = Remember(rebind, dst, src)
             /\ job' = [job EXCEPT !.todo = @ \ {e}]
             /\ UNCHANGED dir
        ELSE /\ store' = unlinked
             /\ rebind' = IF TypesMap(dst, src) /\ GraphsAllow(dst, src)
                            THEN Remember(rebind, dst, src) ELSE rebind
             /\ job' = Idle
             /\ UNCHANGED dir

InLoop(phase) == job # Idle /\ job.phase = phase

(* Mutant of ReplaceSource: source and destination swapped.                *)
ReplaceSourceSwapped ==
  /\ InLoop("sources")
  /\ \E e \in job.todo : Visit(e, e.src, e.src, job.repl)

ReplaceSource ==
  /\ InLoop("sources")
  /\ \E e \in job.todo : Visit(e, e.src, job.repl, e.src)

SourcesDone ==
  /\ InLoop("sources") /\ job.todo = {}
  /\ job' = [job EXCEPT !.phase = "sinks", !.todo = Sinks(store, job.node)]
  /\ UNCHANGED vars

(* Mutant of ReplaceSink: the edge is taken off its destination, which is  *)
(* then to be connected to the replacement.                                *)
ReplaceSinkDestination ==
  /\ InLoop("sinks")
  /\ \E e \in job.todo : Visit(e, e.dst, e.dst, job.repl)

(* The loop takes e->src() for the destination of e, so it connects the    *)
(* replaced node itself to its replacement.                                *)
ReplaceSink ==
  /\ InLoop("sinks")
  /\ \E e \in job.todo : Visit(e, e.src, e.src, job.repl)

SinksDone ==
  /\ InLoop("sinks") /\ job.todo = {}
  /\ job' = Idle
  /\ UNCHANGED vars

(* Port::Reverse empties the port's own lists and turns it around.         *)
Reverse(p) ==
  /\ job = Idle
  /\ store' = [outputs |-> [store.outputs EXCEPT ![p] = {}],
               input   |-> [store.input EXCEPT ![p] = NoEdge]]
  /\ dir' = [dir EXCEPT ![p] = IF @ = "in" THEN "out" ELSE "in"]
  /\ UNCHANGED <<rebind, job>>

Client == job = Idle /\ Next /\ UNCHANGED job

EditNext ==
  \/ Client
  \/ \E n, r \in Node : BeginReplace(n, r)
  \/ ReplaceSource
  \/ ReplaceSink
  \/ SourcesDone
  \/ SinksDone
  \/ \E p \in Port : Reverse(p)

EditSpec == EditInit /\ [][EditNext]_editVars

-----------------------------------------------------------------------------
EditTypeOK == TypeOK /\ job \in Job \cup {Idle}

(* Whatever drove the replaced node drives the replacement once the loop   *)
(* over the sources is over, and the loop over the sinks keeps it so.      *)
ReplaceMovesInput ==
  InLoop("sinks") /\ job.from # NoNode /\ job.repl \in NormalNode
    => DriverOf(store, job.repl) = job.from

(* Nobody loses its driver to somebody else's edit.  A node is left        *)
(* without one only when it is turned around or replaced itself, and then, *)
(* unless that Connect throws, its driver has gone to the replacement.     *)
(* For a parameter this is about its value (Parameter::value), which the   *)
(* loop over the sinks, with the ends of edges mixed up, never takes.      *)
LosesDriver(n) == Driven(store, n) /\ ~ Driven(store', n)
HandedOn(n) ==
  /\ InLoop("sources") /\ job.node = n
  /\ \/ job' = Idle
     \/ job.repl \notin NormalNode
     \/ DriverOf(store', job.repl) = DriverOf(store, n)
DriversAreHandedOn ==
  [][\A n \in Node : LosesDriver(n) => HandedOn(n) \/ (n \in Port /\ Reverse(n))]_editVars

=============================================================================
