---------------------------- MODULE Expressions ----------------------------
(***************************************************************************)
(* Expressions over parameters and integer literals (expression.cc), the   *)
(* pool their literals come from (pool.h), and ToString, which minimizes   *)
(* an expression before it prints it.  Minimizing makes new expressions,   *)
(* and making an expression puts it on the graph of its operands, so       *)
(* printing changes graphs.                                                *)
(*                                                                         *)
(* Expressions do not change once made, and so a node is a tree: a name, a *)
(* literal with the generation of the pool it came from, or an operator,   *)
(* two nodes and a graph.  Trees are equal when the code compares equal    *)
(* pointers: Minimize returns the node itself unless something in it       *)
(* differs.  A division of literals by zero ends the program.              *)
(***************************************************************************)
EXTENDS Integers, Sequences, SequencesExt

CONSTANTS
  Param,       \* parameters; a node of any other kind would do as well
  Graph,
  Literals,    \* integers the client writes down
  NoGraph,
  MaxMade, MaxPrints, MaxClears     \* bounds on what the client does

VARIABLES
  home,        \* the graph of each parameter
  epoch,       \* how often the pool was cleared
  held,        \* expressions the client made, in order
  objects,     \* the expressions on each graph, in the order they were added
  prints       \* calls of ToString so far

exprVars == <<home, epoch, held, objects, prints>>

ASSUME ExpressionsAssumption ==
  /\ NoGraph \notin Graph
  /\ Literals \subseteq Int
  /\ MaxMade \in Nat /\ MaxPrints \in Nat /\ MaxClears \in Nat

Op == {"ADD", "SUB", "MUL", "DIV"}

Par(p)  == [kind |-> "param", name |-> p]
intl(i) == [kind |-> "int", value |-> i, pool |-> epoch]

IsExpression(n) == n.kind = "expr"
IsInt(n)        == n.kind = "int"

ParentOf(n) ==
  IF IsExpression(n) THEN n.on ELSE IF IsInt(n) THEN NoGraph ELSE home[n.name]

(* AppendReferences, as far as parameters go.                              *)
RECURSIVE ParamsOf(_)
ParamsOf(n) ==
  IF IsExpression(n) THEN ParamsOf(n.lhs) \cup ParamsOf(n.rhs)
  ELSE IF IsInt(n) THEN {} ELSE {n.name}

-----------------------------------------------------------------------------
(* Integer division of C++ rounds to zero.                                 *)
Abs(x) == IF x < 0 THEN -x ELSE x
Compute(op, x, y) ==
  CASE op = "ADD" -> x + y
    [] op = "SUB" -> x - y
    [] op = "MUL" -> x * y
    [] op = "DIV" -> LET d == Abs(x) \div Abs(y) IN IF (x < 0) = (y < 0) THEN d ELSE -d

(* The expression with these operands, and whether it cannot be made: the  *)
(* operands are on two graphs, or Graph::Add of the graph refuses it.      *)
Build(op, l, r) ==
  [kind |-> "expr", op |-> op, lhs |-> l, rhs |-> r,
   on |-> IF ParentOf(l) # NoGraph THEN ParentOf(l) ELSE ParentOf(r)]

(* Mutant of Refused: only the operands themselves are looked at.          *)
RefusedClashing(e) == NoGraph \notin {ParentOf(e.lhs), ParentOf(e.rhs)}
                      /\ ParentOf(e.lhs) # ParentOf(e.rhs)

Refused(e) ==
  \/ NoGraph \notin {ParentOf(e.lhs), ParentOf(e.rhs)} /\ ParentOf(e.lhs) # ParentOf(e.rhs)
  \/ e.on # NoGraph /\ \E p \in ParamsOf(e) : home[p] # e.on

(* Mutant of Eliminate: zero minus x is taken for x.                       *)
EliminateZeroMinus(e) ==
  IF e.op \in {"ADD", "SUB"} /\ e.lhs = intl(0) THEN e.rhs ELSE e

(* EliminateZeroOne compares with the literals of the pool as it is now.   *)
Eliminate(e) ==
  CASE e.op = "ADD" /\ e.lhs = intl(0) -> e.rhs
    [] e.op \in {"ADD", "SUB"} /\ e.rhs = intl(0) -> e.lhs
    [] e.op = "MUL" /\ intl(0) \in {e.lhs, e.rhs} -> intl(0)
    [] e.op = "MUL" /\ e.lhs = intl(1) -> e.rhs
    [] e.op = "DIV" /\ e.lhs = intl(0) /\ e.rhs # intl(0) -> intl(0)
    [] e.op \in {"MUL", "DIV"} /\ e.rhs = intl(1) -> e.lhs
    [] OTHER -> e

DividesByZero(n) == n.op = "DIV" /\ n.rhs = intl(0)
Mergeable(n)     == IsExpression(n) /\ IsInt(n.lhs) /\ IsInt(n.rhs)

(* What Minimize returns: a node, the expressions made on the way, and how *)
(* it ended: "ok", with an exception, or dividing literals by zero.        *)
Result(node, new, end) == [node |-> node, new |-> new, end |-> end]

(* Mutant of Simplify: a rebuilt expression is not looked at again.        *)
SimplifyUnchanged(e, new) ==
  IF new = << >> THEN Result(Eliminate(e), new, "ok") ELSE Result(e, new, "ok")

Simplify(e, new) ==
  LET m == Eliminate(e)
  IN  IF DividesByZero(e) THEN Result(e, new, "throws")
      ELSE IF ~ Mergeable(m) THEN Result(m, new, "ok")
      ELSE IF m.op = "DIV" /\ m.rhs.value = 0 THEN Result(m, new, "crashes")
      ELSE Result(intl(Compute(m.op, m.lhs.value, m.rhs.value)), new, "ok")

(* Operands first; when one of them changed a new expression is made.      *)
RECURSIVE Minimize(_)
Minimize(n) ==
  IF ~ IsExpression(n) THEN Result(n, << >>, "ok")
  ELSE LET l == Minimize(n.lhs)
           r == Minimize(n.rhs)
           e == Build(n.op, l.node, r.node)
       IN  CASE l.end # "ok" -> l
             [] l.end = "ok" /\ r.end # "ok" -> Result(n, l.new \o r.new, r.end)
             [] l.end = "ok" /\ r.end = "ok" ->
                  IF l.node = n.lhs /\ r.node = n.rhs THEN Simplify(n, << >>)
                  ELSE IF Refused(e) THEN Result(n, l.new \o r.new, "throws")
                  ELSE Simplify(e, l.new \o r.new \o <<e>>)

Sign(op) == [kind |-> "sign", op |-> op]

(* ToString: the tokens printed and the expressions made on the way.       *)
RECURSIVE TextOf(_)
TextOf(n) ==
  LET m == Minimize(n)
  IN  IF m.end # "ok" \/ ~ IsExpression(m.node)
        THEN [text |-> <<m.node>>, new |-> m.new, end |-> m.end]
        ELSE LET l == TextOf(m.node.lhs)
                 r == TextOf(m.node.rhs)
             IN  [text |-> l.text \o <<Sign(m.node.op)>> \o r.text,
                  new  |-> m.new \o l.new \o r.new,
                  end  |-> IF l.end = "ok" THEN r.end ELSE l.end]

-----------------------------------------------------------------------------
ExprInit ==
  /\ home = [p \in Param |-> NoGraph]
  /\ epoch = 0
  /\ held = << >>
  /\ objects = [g \in Graph |-> << >>]
  /\ prints = 0

OnGraph(new, g) == SelectSeq(new, LAMBDA e : e.on = g)

AddTo(new) == objects' = [g \in Graph |-> objects[g] \o OnGraph(new, g)]

Operands == {Par(p) : p \in Param} \cup {intl(i) : i \in Literals} \cup ToSet(held)

(* Graph::Add of a parameter.                                              *)
AddParam(p, g) ==
  /\ home[p] = NoGraph
  /\ home' = [home EXCEPT ![p] = g]
  /\ UNCHANGED <<epoch, held, objects, prints>>

(* The operators + - * / for two nodes.  With a number on the right they   *)
(* make the literal first, or compute with it when the left is a literal.  *)
Make(op, l, r) ==
  LET e == Build(op, l, r)
  IN  /\ Len(held) < MaxMade
      /\ ~ Refused(e)
      /\ held' = Append(held, e)
      /\ AddTo(<<e>>)
      /\ UNCHANGED <<home, epoch, prints>>

PrintText(n) ==
  LET r == TextOf(n)
  IN  /\ prints < MaxPrints
      /\ r.end # "crashes"
      /\ AddTo(r.new)
      /\ prints' = prints + 1
      /\ UNCHANGED <<home, epoch, held>>

(* NodePool::Clear; literals in expressions live on.                       *)
Clear ==
  /\ epoch < MaxClears
  /\ epoch' = epoch + 1
  /\ UNCHANGED <<home, held, objects, prints>>

ExprNext ==
  \/ \E p \in Param, g \in Graph : AddParam(p, g)
  \/ \E op \in Op : \E l, r \in Operands : Make(op, l, r)
  \/ \E n \in ToSet(held) : PrintText(n)
  \/ Clear

ExprSpec == ExprInit /\ [][ExprNext]_exprVars

-----------------------------------------------------------------------------
(* What a node is worth: a set of one number, or of none when something is *)
(* divided by zero.                                                        *)
RECURSIVE Worth(_, _)
Worth(n, val) ==
  CASE n.kind = "param" -> {val[n.name]}
    [] n.kind = "int"   -> {n.value}
    [] OTHER -> {Compute(n.op, x, y) : x \in Worth(n.lhs, val),
                   y \in {z \in Worth(n.rhs, val) : n.op # "DIV" \/ z # 0}}

Valuations == [Param -> {-3, 0, 1, 2}]

(* Minimize keeps the worth of an expression for all values of parameters, *)
(* and refuses or ends the program only where no values give it any worth, *)
(* or where its parameters are on different graphs.                    *)
MeaningKept ==
  \A n \in ToSet(held) : LET m == Minimize(n) IN
    CASE m.end = "ok" -> \A v \in Valuations : Worth(n, v) \subseteq Worth(m.node, v)
      [] OTHER -> \/ \A v \in Valuations : Worth(n, v) = {}
                  \/ \E p, q \in ParamsOf(n) : home[p] # home[q]

(* What Minimize returns it leaves alone: printing it again makes nothing  *)
(* and so adds nothing to a graph.                                         *)
MinimalIsStable ==
  \A n \in ToSet(held) : LET m == Minimize(n) IN
    m.end = "ok" => Minimize(m.node) = Result(m.node, << >>, "ok")

(* Expressions on a graph, also those made while printing, are about       *)
(* parameters of that graph: "Can only generate expressions between nodes  *)
(* on same parent" (expression.cc:62).                                     *)
ExpressionsLocal ==
  \A g \in Graph : \A e \in ToSet(objects[g]) : \A p \in ParamsOf(e) : home[p] = g

(* The text, read with the precedence of VHDL, means what the expression   *)
(* means: "Minimize the expression and convert it to a human-readable      *)
(* string" (expression.h:50), which the declarations of VHDL are made of.  *)
Signs(t, ops) == {k \in DOMAIN t : t[k].kind = "sign" /\ t[k].op \in ops}
RECURSIVE Read(_, _)
Read(t, val) ==
  LET sums   == Signs(t, {"ADD", "SUB"})
      signs  == IF sums # {} THEN sums ELSE Signs(t, Op)
      k      == CHOOSE x \in signs : \A y \in signs : y <= x
      Side(u) == Read(u, val)
  IN  IF signs = {} THEN Worth(t[1], val)
      ELSE {Compute(t[k].op, x, y) : x \in Side(SubSeq(t, 1, k - 1)),
              y \in {z \in Side(SubSeq(t, k + 1, Len(t))) : t[k].op # "DIV" \/ z # 0}}
TextMeansExpression ==
  \A n \in ToSet(held) : LET r == TextOf(n) IN
    r.end = "ok" => \A v \in Valuations : Worth(n, v) \subseteq Read(r.text, v)
=============================================================================
