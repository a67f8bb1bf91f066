------------------------------- MODULE MCTypes -------------------------------
(***************************************************************************)
(* Two machines about types, side by side: the mappers that types keep,    *)
(* and the port map made from the matrix of one mapper.  They share no     *)
(* state, so one of them runs while the other has done nothing yet.        *)
(*                                                                         *)
(* Mappers: a bit, a vector, a stream of each and a record of a stream and *)
(* a bit, the other way round: streams can get equal and the record can    *)
(* change through the stream in it.  There are two copies, enough for a    *)
(* stream with its elements.  Port maps: two parts on either side, each a  *)
(* bit or a vector of up to three bits, which is enough to concatenate     *)
(* parts of different widths.                                              *)
(***************************************************************************)
EXTENDS PortMaps, TypeMappers

CONSTANTS b, v, s, t, r

Bit     == [kind |-> "bit", width |-> 1]
MCTypes == {Bit} \cup [kind : {"vector"}, width : 1..3]

MCId == [x \in {b, v, s, t, r} |->
           CASE x = b -> "bit" [] x = v -> "vector" [] OTHER -> "record"]
Part(x, back) == [type |-> x, reverse |-> back]
MCFields == [x \in {b, v, s, t, r} |->
  CASE x = s -> <<Part(b, FALSE)>>
    [] x = t -> <<Part(v, FALSE)>>
    [] x = r -> <<Part(s, FALSE), Part(b, TRUE)>>
    [] OTHER -> << >>]
MCCopies == <<"copy1", "copy2">>
MCHabitSets == {{}, {"equal"}, {"replace"}, {"nested"}, {"grow"}, {"remove"}}

-----------------------------------------------------------------------------
(* The nodes of the port map while the types are at work.                  *)
PlainBits ==
  /\ typeA = [c \in FlatA |-> Bit] /\ typeB = [c \in FlatB |-> Bit]
  /\ ~ arrayA /\ ~ arrayB /\ backEnd = "assignment"

NoMappers ==
  Made = Type /\ \A x \in Type : types[x].mappers = << >> /\ types[x].fields = InitFields[x]

MapsInit == PortMapsInit /\ TypesInit /\ (PlainBits \/ habits = {})
MapsNext ==
  \/ NoMappers /\ habits = {} /\ PortMapsNext /\ UNCHANGED mapperVars
  \/ PlainBits /\ matrix = Empty /\ TypesNext /\ UNCHANGED portMapVars
MapsSpec == MapsInit /\ [][MapsNext]_<<portMapVars, mapperVars>>
=============================================================================
