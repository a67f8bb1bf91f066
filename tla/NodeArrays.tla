----------------------------- MODULE NodeArrays -----------------------------
(***************************************************************************)
(* Node arrays (array.cc) and their size nodes.  An array holds a list of  *)
(* element nodes and, apart from it, a node that stands for their number:  *)
(* a literal, an expression or a parameter.  A parameter is incremented by *)
(* following its value to a literal and reconnecting the last parameter on *)
(* the way (parameter.cc), which other arrays may have on their way too.   *)
(* Generating VHDL makes a signal array for a port array, whose size node  *)
(* comes from the map of the component (edge.cc).                          *)
(***************************************************************************)
EXTENDS Naturals, FiniteSets

CONSTANTS
  Array,       \* the port arrays of the instances of one component
  SigArray,    \* the signal arrays that can be made
  Parameter,
  InstParam,   \* those on the instances, the others are on the component
  InitSize,    \* the size node a copied array has: its parameter or zero
  None,        \* no node, no array
  MaxValue,    \* bound on literals and on what is added to an expression
  Habits       \* what this client does beside the ordinary

AllHabits == {"share", "resize", "late", "cycle", "replace"}

Literal    == [kind : {"literal"}, n : 0..MaxValue]
Expression == [kind : {"expression"}, n : 0..MaxValue]   \* some node + n
Value      == Parameter \cup Literal \cup Expression

Lit(k) == [kind |-> "literal", n |-> k]

ASSUME ArraysAssumption ==
  /\ Array \cap SigArray = {}
  /\ IsFiniteSet(Parameter) /\ InstParam \subseteq Parameter
  /\ Parameter \cap (Literal \cup Expression) = {}
  /\ InitSize \in [Array -> InstParam \cup {Lit(0)}]
  /\ \A a, b \in Array : InitSize[a] \in Parameter /\ InitSize[a] = InitSize[b] => a = b
  /\ None \notin Value \cup Array \cup SigArray
  /\ MaxValue \in Nat
  /\ Habits \subseteq AllHabits

VARIABLES
  size,     \* NodeArray::size_, None for a signal array not made yet
  count,    \* the number of elements in nodes_
  value,    \* what drives a parameter, None when its input was taken away
  user,     \* Parameter::node_array_parent
  rebind,   \* inst_to_comp of the parameters on instances
  sunk,     \* the parameters with edges among their outputs_
  source    \* the port array a signal array was made for

arrayVars == <<size, count, value, user, rebind, sunk, source>>

AnyArray == Array \cup SigArray

-----------------------------------------------------------------------------
(* Parameter::TraceValue from v: the node after k hops.  The recursion of  *)
(* the code does not end on a circle; Cardinality(Parameter) hops tell.    *)
Hops(v) ==
  LET hop[k \in 0..Cardinality(Parameter)] ==
        IF k = 0 THEN v
        ELSE LET u == hop[k - 1] IN IF u \in Parameter THEN value[u] ELSE u
  IN  hop
TraceEnd(v)  == Hops(v)[Cardinality(Parameter)]
OnTrace(v)   == {Hops(v)[k] : k \in 0..Cardinality(Parameter)} \cap Parameter
LastParam(v) == CHOOSE p \in OnTrace(v) : value[p] \notin Parameter

(* Mutant of Connected: the map is not written.                            *)
ConnectedUnmapped(p, v) ==
  /\ value' = [value EXCEPT ![p] = v]
  /\ rebind' = rebind
  /\ sunk' = IF v \in Parameter THEN sunk \cup {v} ELSE sunk

(* Connect(p, v) lets no parameter of an instance drive one of the         *)
(* component, and writes the map when p is on an instance.                 *)
MayConnect(p, v) == v \in InstParam => p \in InstParam
Connected(p, v) ==
  /\ value' = [value EXCEPT ![p] = v]
  /\ rebind' = IF p \in InstParam THEN [rebind EXCEPT ![p] = v] ELSE rebind
  /\ sunk' = IF v \in Parameter THEN sunk \cup {v} ELSE sunk

ArraysInit ==
  /\ size = [a \in AnyArray |-> IF a \in Array THEN InitSize[a] ELSE None]
  /\ count = [a \in AnyArray |-> 0]
  /\ value = [p \in Parameter |-> Lit(0)]
  /\ user = [p \in Parameter |->
       IF \E a \in Array : InitSize[a] = p THEN CHOOSE a \in Array : InitSize[a] = p ELSE None]
  /\ rebind = [p \in InstParam |-> Lit(0)]
  /\ sunk = {}
  /\ source = [s \in SigArray |-> None]

-----------------------------------------------------------------------------
(* The ordinary client connects a size when that does not change it, to a  *)
(* parameter no other array depends on, nor a signal array it forgot.      *)
Ordinary(p, v) ==
  /\ "resize" \in Habits \/ TraceEnd(v) = TraceEnd(p)
  /\ "share" \in Habits \/ \A a \in AnyArray :
       p \in OnTrace(size[a]) \/ OnTrace(size[a]) \cap OnTrace(v) = {}
  /\ "cycle" \in Habits \/ p \notin OnTrace(v)

SetValue(p, v) ==
  /\ MayConnect(p, v) /\ Ordinary(p, v)
  /\ Connected(p, v)
  /\ UNCHANGED <<size, count, user, source>>

(* Mutants of MayUse and Use.                                              *)
MayUseAny(a, v) == TRUE
UseSelf(a, v)   == IF v \in Parameter THEN [user EXCEPT ![v] = v] ELSE user

(* SetSize refuses a parameter that parametrizes another array.            *)
MayUse(a, v) == v \in Parameter => user[v] \in {None, a}
Use(a, v)    == IF v \in Parameter THEN [user EXCEPT ![v] = a] ELSE user

SetSize(a, v) ==
  /\ "resize" \in Habits
  /\ MayUse(a, v)
  /\ size' = [size EXCEPT ![a] = v]
  /\ user' = Use(a, v)
  /\ UNCHANGED <<count, value, rebind, sunk, source>>

(* Append without increment, or a fortiori before it: the element is in.   *)
AppendNode(a) == count[a] < MaxValue /\ count' = [count EXCEPT ![a] = @ + 1]

Appendable(a) == "late" \in Habits \/ \A s \in SigArray : source[s] # a

AppendOnly(a) ==
  /\ "resize" \in Habits
  /\ AppendNode(a)
  /\ UNCHANGED <<size, value, user, rebind, sunk, source>>

(* IncrementNode on a literal or an expression makes a new size node.      *)
AppendToValue(a) ==
  /\ Appendable(a) /\ AppendNode(a)
  /\ size[a] \in Literal \cup Expression
  /\ size[a].n < MaxValue
  /\ size' = [size EXCEPT ![a].n = @ + 1]
  /\ UNCHANGED <<value, user, rebind, sunk, source>>

(* Mutant of AppendToParameter: the last parameter is sourced from the     *)
(* size node instead of the incremented literal.                           *)
AppendToParameterItself(a) ==
  /\ Appendable(a) /\ AppendNode(a)
  /\ size[a] \in Parameter
  /\ TraceEnd(size[a]) \in Literal
  /\ Connected(LastParam(size[a]), size[a])
  /\ UNCHANGED <<size, user, source>>

(* On a parameter it reconnects the last one, and SetSize sees the same    *)
(* size node again.                                                        *)
AppendToParameter(a) ==
  /\ Appendable(a) /\ AppendNode(a)
  /\ size[a] \in Parameter
  /\ TraceEnd(size[a]) \in Literal
  /\ TraceEnd(size[a]).n < MaxValue
  /\ MayUse(a, size[a])
  /\ Connected(LastParam(size[a]), Lit(TraceEnd(size[a]).n + 1))
  /\ user' = Use(a, size[a])
  /\ UNCHANGED <<size, source>>

(* When the trace ends in anything else, Append throws with the element    *)
(* already in the array.                                                   *)
AppendThrows(a) ==
  /\ Appendable(a) /\ AppendNode(a)
  /\ size[a] \in Parameter
  /\ TraceEnd(size[a]) \notin Literal \cup Parameter
  /\ UNCHANGED <<size, value, user, rebind, sunk, source>>

(* The size node of the signal array for a: what the map has for a         *)
(* parameter of the instance; one of the component stands for itself.  A   *)
(* literal is never in the map, and looking it up throws.                  *)
ReboundSize(a) == IF size[a] \in InstParam THEN rebind[size[a]] ELSE size[a]

AttachSignalArray(a, s) ==
  /\ source[s] = None
  /\ size[a] \notin Literal /\ ReboundSize(a) \notin InstParam
  /\ MayUse(s, ReboundSize(a))
  /\ source' = [source EXCEPT ![s] = a]
  /\ size' = [size EXCEPT ![s] = ReboundSize(a)]
  /\ user' = Use(s, ReboundSize(a))
  /\ count' = [count EXCEPT ![s] = count[a]]
  /\ UNCHANGED <<value, rebind, sunk>>

(* A parameter of an instance is not on the component, and Graph::Add      *)
(* throws.  The array is deleted, but stays noted as the parameter's user, *)
(* and the next array may be made at its address.                          *)
AttachThrows(a, s) ==
  /\ source[s] = None
  /\ ReboundSize(a) \in InstParam
  /\ MayUse(s, ReboundSize(a))
  /\ user' = Use(s, ReboundSize(a))
  /\ UNCHANGED <<size, count, value, rebind, sunk, source>>

(* Node::Replace(r) on a parameter p: the value moves to r, a parameter    *)
(* that drove anything ends up driven by r itself, and the array p says it *)
(* parametrizes gets r for its size, unless r parametrizes another one and *)
(* SetSize throws, too late.  With an array that is deleted the behaviour  *)
(* is undefined, and the client is taken not to go there.                  *)
Replace(p, r) ==
  LET arr     == user[p]
      resized == arr # None /\ MayUse(arr, r)
      moved   == [value EXCEPT ![r] = IF value[p] = None THEN @ ELSE value[p],
                               ![p] = IF p \in sunk THEN r ELSE None]
  IN  /\ "replace" \in Habits /\ p # r
      /\ arr \in SigArray => source[arr] # None
      /\ MayConnect(r, value[p])
      /\ p \in sunk => MayConnect(p, r)
      /\ value' = moved
      /\ rebind' = [q \in InstParam |-> IF moved[q] = None THEN rebind[q]
                                       ELSE IF q \in {p, r} THEN moved[q] ELSE rebind[q]]
      /\ sunk' = IF p \in sunk THEN (sunk \ {p}) \cup {r} ELSE sunk
      /\ size' = IF resized THEN [size EXCEPT ![arr] = r] ELSE size
      /\ user' = IF resized THEN Use(arr, r) ELSE user
      /\ UNCHANGED <<count, source>>

ArraysNext ==
  \/ \E p \in Parameter, v \in Value : SetValue(p, v)
  \/ \E a \in Array, v \in Value : SetSize(a, v)
  \/ \E a \in Array : AppendOnly(a)
  \/ \E a \in Array : AppendToValue(a)
  \/ \E a \in Array : AppendToParameter(a)
  \/ \E a \in Array : AppendThrows(a)
  \/ \E a \in Array, s \in SigArray : AttachSignalArray(a, s)
  \/ \E a \in Array, s \in SigArray : AttachThrows(a, s)
  \/ \E p, r \in Parameter : Replace(p, r)

ArraysSpec == ArraysInit /\ [][ArraysNext]_arrayVars

-----------------------------------------------------------------------------
ArraysTypeOK ==
  /\ size \in [AnyArray -> Value \cup {None}]
  /\ count \in [AnyArray -> 0..MaxValue]
  /\ value \in [Parameter -> Value \cup {None}]
  /\ user \in [Parameter -> AnyArray \cup {None}]
  /\ rebind \in [InstParam -> Value]
  /\ sunk \subseteq Parameter
  /\ source \in [SigArray -> Array \cup {None}]

(* "NodeArray size can only be used by a single NodeArray" (array.cc:66):  *)
(* whatever resizes, copies of sizes for signal arrays and replacements    *)
(* there were, no parameter is the size of two arrays.                     *)
SizeHasOneUser ==
  \A a, b \in AnyArray : size[a] \in Parameter /\ size[a] = size[b] => a = b

(* The size of an array stands for the number of its elements, "the number *)
(* of concatenated edges" (array.h:93): an Append increments it in step,   *)
(* wherever the literal at the end of the trace is.                        *)
SizeIsNumNodes ==
  \A a \in AnyArray : size[a] # None =>
    LET end == TraceEnd(size[a]) IN end \in Literal => end.n = count[a]

(* Following the value of a parameter ends at an expression or a literal   *)
(* (parameter.h:39); on a circle TraceValue recurses until the stack ends. *)
TracesEnd == \A p \in Parameter : TraceEnd(p) \in Literal \cup Expression
=============================================================================
