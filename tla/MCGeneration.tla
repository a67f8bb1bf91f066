---------------------------- MODULE MCGeneration ----------------------------
(***************************************************************************)
(* A component top with an input, an output, an input and an output port   *)
(* array, and a child instance inst with an input, an output, an output    *)
(* array, an input array of one and an input array marked not to get       *)
(* signals.  The input of inst has a type with a mapper from the type of   *)
(* top_in, but not one back.                                               *)
(***************************************************************************)
EXTENDS Generation

CONSTANTS top, inst, top_in, top_out, ti1, ti2, to1, to2,
          inst_in, inst_out, ao1, ao2, ai1, no1, no2,
          g,           \* a parameter of top
          ClientNode   \* the client's nodes this run uses

OnInst  == {inst_in, inst_out, ao1, ao2, ai1, no1, no2} \cap ClientNode
Outputs == {top_out, to1, to2, inst_out, ao1, ao2}

MCNoInsert   == {no1, no2} \cap ClientNode
MCSignals    == (OnInst \ MCNoInsert) \X (1..MaxWalks)
MCNewSignal  == [x \in MCSignals |-> x]
MCNode       == ClientNode \cup MCSignals
MCKind       == [n \in MCNode |-> IF n \in MCSignals THEN "signal" ELSE "port"]
MCParent     == [n \in MCNode |-> IF n \in OnInst THEN inst ELSE top]
MCOwner      == [i \in {inst} |-> top]
MCDefault    == [p \in {} |-> p]
MCInitDir    == [p \in ClientNode |-> IF p \in Outputs THEN "out" ELSE "in"]
TypeOf(n)    == IF n \in MCSignals THEN n[1] ELSE n
MCMappable   == {x \in MCNode \X MCNode : <<TypeOf(x[1]), TypeOf(x[2])>> # <<inst_in, top_in>>}
MCElements   == [a \in {"ti", "to", "ao", "ai", "no"} |->
  SelectSeq(CASE a = "ti" -> <<ti1, ti2>> [] a = "to" -> <<to1, to2>> [] a = "ao" -> <<ao1, ao2>>
              [] a = "ai" -> <<ai1>> [] a = "no" -> <<no1, no2>>,
            LAMBDA p : p \in ClientNode)]
MCItem       == ((OnInst \ MCNoInsert) \ {ao1, ao2, ai1}) \cup {"ao", "ai"}
MCBindings   == [x \in MCItem |-> {"own"} \cup
  (CASE x = "ai" -> {g, "literal"} [] x = inst_in -> {"foreign"}
     [] OTHER -> {})]
MCInUse      == [x \in {g} |-> {}]
=============================================================================
