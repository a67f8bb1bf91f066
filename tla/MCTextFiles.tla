----------------------------- MODULE MCTextFiles ----------------------------
(***************************************************************************)
(* What the library reads and writes as text, side by side: output         *)
(* generators, a template, a YAML converter and expressions.  They share   *)
(* no state, so one of them runs while the others have done nothing yet.   *)
(*                                                                         *)
(* Outputs: two components with edges, one of them at a literal, and a     *)
(* third that has the name of the first and no edges.  Templates: keys of  *)
(* one and two characters, on one line and on several, and two keys on one *)
(* line.  YAML: a map or sequence of maps, with all their keys there or    *)
(* not, and within them up to two maps, or what is no sequence.            *)
(* Expressions: over two parameters, which end up on one graph or two, and *)
(* the literals 0 and 1; other numbers arise by merging.                   *)
(***************************************************************************)
EXTENDS Outputs, Templates, YamlFields, Expressions, TLC

CONSTANTS compA, compB, compC, edge1, edge2, edge3, litEdge, keyK, keyKK, symX, symY,
          parP, parQ, graphG, graphH

Swap == Permutations(Graph)

MCFileName  == [comp \in {compA, compB, compC} |-> IF comp = compB THEN "b" ELSE "a"]
MCNodeEdges == [comp \in {compA, compB, compC} |->
  CASE comp = compA -> <<{edge1}, {edge1, edge2, litEdge}, {edge2, litEdge}>>
    [] comp = compB -> <<{edge3}, {edge3}>>
    [] comp = compC -> <<{}>>]

MCKeyLen   == [key \in {keyK, keyKK} |-> IF key = keyK THEN 1 ELSE 2]
MCLoadable == {<< <<symX>>, <<keyK>>, <<symY, keyKK, symX>>, <<keyK, symX>> >>,
               << <<keyKK>>, <<symX, keyK>>, << >>, <<symX, symX, keyKK>> >>,
               << <<keyK, keyKK>>, <<keyKK>> >>}
MCValue    == {<< >>, <<symX>>, <<symY, symY, symY, symY, symY, symY, symY>>}

Maps(names, marks, widths, flags, subs) ==
  [type : {"map"}, marked : marks, name : names, width : widths,
   vector : flags, reverse : {Absent, TRUE}, fields : subs]
Other(n)  == [type |-> n]
Inner     == Maps({symX}, {TRUE}, {Absent, 0, 1}, {Absent}, {Absent}) \cup
             Maps({symY}, {TRUE}, {2}, {Absent, TRUE}, {Absent}) \cup
             Maps({Absent, symX}, {FALSE}, {1}, {Absent}, {Absent})
AsNode(s) == {[type |-> "sequence", items |-> i] : i \in s}
InnerSeq  == AsNode({<< >>} \cup {<<i>> : i \in Inner \cup {Other("scalar")}} \cup (Inner \X Inner))
Outer     == Maps({Absent, symY}, {TRUE, FALSE}, {Absent, 0, 1}, {Absent, FALSE, TRUE},
                  {Absent, Other("null")} \cup Inner \cup InnerSeq)
Plain     == Maps({symX}, {TRUE}, {1}, {Absent}, {Absent})
MCDocument ==
  Outer \cup {Other("null"), Other("scalar")} \cup AsNode({<< >>} \cup {<<o>> : o \in Outer} \cup
  {<<o, p>> : o \in {n \in Outer : n.marked}, p \in Plain})

-----------------------------------------------------------------------------
NoOutput   == outputs = << >> /\ job.gen = NoFile /\ \A n \in Names : file[n] = NoFile
NoTemplate == loaded = << >>
NoYaml     == doc = Absent
NoExpr     == home = [x \in Param |-> NoGraph] /\ held = << >> /\ epoch = 0

FilesInit == OutInit /\ TemplateInit /\ YamlInit /\ ExprInit
FilesNext ==
  \/ NoTemplate /\ NoYaml /\ NoExpr /\ OutNext /\ UNCHANGED <<templateVars, yamlVars, exprVars>>
  \/ NoOutput /\ NoYaml /\ NoExpr /\ TemplateNext /\ UNCHANGED <<outVars, yamlVars, exprVars>>
  \/ NoOutput /\ NoTemplate /\ NoExpr /\ YamlNext /\ UNCHANGED <<outVars, templateVars, exprVars>>
  \/ NoOutput /\ NoTemplate /\ NoYaml /\ ExprNext /\ UNCHANGED <<outVars, templateVars, yamlVars>>
FilesSpec == FilesInit /\ [][FilesNext]_<<outVars, templateVars, yamlVars, exprVars>>
=============================================================================
