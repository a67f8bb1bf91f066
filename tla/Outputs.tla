------------------------------- MODULE Outputs -------------------------------
(***************************************************************************)
(* Output generators (output.cc): a list of components, each written to a  *)
(* file named after it, by the VHDL (vhdl/vhdl.cc) and the DOT             *)
(* (dot/dot.cc) back end, which get the same list here.  Users edit the    *)
(* VHDL at any time, also while a generator is at work: they are other     *)
(* processes, so looking for a file, copying it and writing it are steps   *)
(* of their own.  Nothing else takes an interest in the DOT files, each of *)
(* which is one step.                                                      *)
(***************************************************************************)
EXTENDS Naturals, Sequences, FiniteSets, SequencesExt

CONSTANTS
  Comp,         \* the components
  FileName,     \* the name of each
  Edge,         \* all edges
  NodeEdges,    \* for each component, the edges at each of its nodes
  HiddenEdge,   \* edges with a literal at an end, or from a parameter if the style hides these
  NoComp,       \* a null component
  NoFile,       \* no text, no generator at work
  MaxOutputs,   \* bound on the outputs
  MaxEdits      \* bound on edits by users

Names  == {FileName[c] : c \in Comp}
Texts  == Comp \cup (1..MaxEdits)   \* what was generated, or the number of an edit
Output == [comp : Comp \cup {NoComp}, backup : BOOLEAN]

ASSUME OutputsAssumption ==
  /\ NodeEdges \in [Comp -> Seq({es \in SUBSET Edge : IsFiniteSet(es)})]
  /\ HiddenEdge \subseteq Edge
  /\ NoComp \notin Comp /\ NoFile \notin Texts /\ NoFile \notin {"vhdl", "dot"}
  /\ MaxOutputs \in Nat /\ MaxEdits \in Nat

VARIABLES
  outputs,  \* OutputGenerator::outputs_
  file,     \* <name>.gen.vhd
  bak,      \* <name>.gen.vhd.bak
  edit,     \* the last edit of a file, 0 if there was none
  place,    \* where that edit is to be found: in the "file", in the "backup" or "nowhere"
  graph,    \* <name>.dot: the edges drawn, in order
  drawn,    \* Grapher::drawn_edges
  job,      \* the generator at work and the number of its next output
  phase     \* what VHDL's Generate does next to that file: "check", "copy" or "write"

outVars == <<outputs, file, bak, edit, place, graph, drawn, job, phase>>

(* The constructor takes any outputs.                                      *)
OutInit ==
  /\ outputs \in {<< >>} \cup {<<o>> : o \in Output}
  /\ file  = [n \in Names |-> NoFile]
  /\ bak   = [n \in Names |-> NoFile]
  /\ edit  = [n \in Names |-> 0]
  /\ place = [n \in Names |-> "file"]
  /\ graph = [n \in Names |-> << >>]
  /\ drawn = << >>
  /\ job = [gen |-> NoFile, at |-> 0] /\ phase = "check"

-----------------------------------------------------------------------------
(* AddOutput throws for a null component.                                  *)
AddOutput(o) ==
  /\ job.gen = NoFile /\ Len(outputs) < MaxOutputs
  /\ o.comp # NoComp
  /\ outputs' = Append(outputs, o)
  /\ UNCHANGED <<file, bak, edit, place, graph, drawn, job, phase>>

Current(gen)   == job.gen = gen /\ job.at <= Len(outputs)
NextOutput     == [job EXCEPT !.at = @ + 1]
Done           == [gen |-> NoFile, at |-> 0]
CurrentFile    == FileName[outputs[job.at].comp]
AboutToWrite(n) == Current("vhdl") /\ phase = "write" /\ n = CurrentFile

(* A user saves a file.  What is saved just before the file is written,    *)
(* when it is too late for a copy, is nowhere after that.                  *)
UserEdits(n) ==
  LET k == 1 + Max({edit[m] : m \in Names})
  IN  /\ k <= MaxEdits
      /\ file' = [file EXCEPT ![n] = k]
      /\ edit' = [edit EXCEPT ![n] = k]
      /\ place' = [place EXCEPT ![n] = IF AboutToWrite(n) THEN "nowhere" ELSE "file"]
      /\ UNCHANGED <<outputs, bak, graph, drawn, job, phase>>

(* Each Generate has a Grapher of its own.                                 *)
BeginGenerate(gen) ==
  /\ job.gen = NoFile
  /\ job' = [gen |-> gen, at |-> 1]
  /\ drawn' = << >>
  /\ UNCHANGED <<outputs, file, bak, edit, place, graph, phase>>

EndGenerate ==
  /\ job.gen # NoFile /\ job.at > Len(outputs)
  /\ job' = Done
  /\ UNCHANGED <<outputs, file, bak, edit, place, graph, drawn, phase>>

(* A null component is logged as an error, which throws, and designs throw *)
(* as their text is made, before the file is looked at: the outputs after  *)
(* it are not written.                                                     *)
WriteVhdlThrows ==
  /\ Current("vhdl") /\ phase = "check"
  /\ job' = Done
  /\ UNCHANGED <<outputs, file, bak, edit, place, graph, drawn, phase>>

(* Is there a file, and is a backup asked for?                             *)
CheckVhdl ==
  /\ Current("vhdl") /\ phase = "check" /\ outputs[job.at].comp # NoComp
  /\ phase' = IF file[CurrentFile] # NoFile /\ outputs[job.at].backup THEN "copy" ELSE "write"
  /\ UNCHANGED <<outputs, file, bak, edit, place, graph, drawn, job>>

(* Mutant of Backup: an earlier copy is not written over.                  *)
BackupOnce(n) == IF bak[n] = NoFile THEN [bak EXCEPT ![n] = file[n]] ELSE bak

(* What the file has now goes over any earlier copy.                       *)
Backup(n) == [bak EXCEPT ![n] = file[n]]

CopyVhdl ==
  LET n == CurrentFile
  IN  /\ Current("vhdl") /\ phase = "copy"
      /\ bak' = Backup(n)
      /\ place' = [place EXCEPT ![n] = IF @ = "file" THEN "file" ELSE "nowhere"]
      /\ phase' = "write"
      /\ UNCHANGED <<outputs, file, edit, graph, drawn, job>>

(* The file is truncated and written.                                      *)
WriteVhdl ==
  LET o == outputs[job.at]
      n == CurrentFile
  IN  /\ Current("vhdl") /\ phase = "write"
      /\ file' = [file EXCEPT ![n] = o.comp]
      /\ place' = [place EXCEPT ![n] =
                     IF @ # "file" THEN @ ELSE IF o.backup THEN "backup" ELSE "nowhere"]
      /\ job' = NextOutput /\ phase' = "check"
      /\ UNCHANGED <<outputs, bak, edit, graph, drawn>>

-----------------------------------------------------------------------------
(* GetAllEdges: the edges at every node of a component and its children,   *)
(* so that most come twice.                                                *)
AllEdges(c) == FlattenSeq([k \in DOMAIN NodeEdges[c] |-> SetToSeq(NodeEdges[c][k])])

(* Mutant of Draw: edges are not remembered while a file is written.       *)
DrawAgain(st, e) ==
  IF Contains(st.drawn, e) \/ e \in HiddenEdge THEN st ELSE [st EXCEPT !.shown = Append(@, e)]

(* One round of the loop of GenEdges: an edge this Grapher has not drawn   *)
(* yet, in any file, is remembered, and shown if it is to be seen.         *)
Draw(st, e) ==
  IF Contains(st.drawn, e) THEN st
  ELSE [drawn |-> Append(st.drawn, e),
        shown |-> IF e \in HiddenEdge THEN st.shown ELSE Append(st.shown, e)]

GenEdges(c) ==
  LET es == AllEdges(c)
      st[k \in 0..Len(es)] ==
        IF k = 0 THEN [drawn |-> drawn, shown |-> << >>] ELSE Draw(st[k - 1], es[k])
  IN  st[Len(es)]

WriteDot ==
  LET c == outputs[job.at].comp
  IN  /\ Current("dot") /\ c # NoComp
      /\ graph' = [graph EXCEPT ![FileName[c]] = GenEdges(c).shown]
      /\ drawn' = GenEdges(c).drawn
      /\ job' = NextOutput
      /\ UNCHANGED <<outputs, file, bak, edit, place, phase>>

SkipDot ==
  /\ Current("dot") /\ outputs[job.at].comp = NoComp
  /\ job' = NextOutput
  /\ UNCHANGED <<outputs, file, bak, edit, place, graph, drawn, phase>>

OutNext ==
  \/ \E o \in Output : AddOutput(o)
  \/ \E n \in Names : UserEdits(n)
  \/ \E gen \in {"vhdl", "dot"} : BeginGenerate(gen)
  \/ EndGenerate
  \/ WriteVhdlThrows
  \/ CheckVhdl
  \/ CopyVhdl
  \/ WriteVhdl
  \/ WriteDot
  \/ SkipDot

OutSpec == OutInit /\ [][OutNext]_outVars

-----------------------------------------------------------------------------
(* What a user made of a generated file is in the file until it is written *)
(* again, and then, if a backup was asked for, in the backup until there   *)
(* is another: whichever outputs share the file, and even if a user saves  *)
(* it while Generate is at work.  One thing Generate does not protect is   *)
(* what is saved between its look at the file, or the copy, and the write. *)
EditsSurviveOneWrite ==
  \A n \in Names : edit[n] # 0 =>
    /\ place[n] = "file"   => file[n] = edit[n]
    /\ place[n] = "backup" => bak[n] = edit[n]

(* The DOT file of a component shows every edge of it exactly once when    *)
(* Generate returns, although edges are found from both of their ends and  *)
(* the list of those that were drawn is kept from file to file.  Only      *)
(* components with a name and edges of their own: a second file of one has *)
(* no edges, and Connect does not refuse an edge from a node of one        *)
(* component to an instance on another, which is in one of the files.      *)
OtherOutputs(k) == {c \in {outputs[l].comp : l \in DOMAIN outputs \ {k}} : c # NoComp}
OwnName(k)  == \A c \in OtherOutputs(k) : FileName[c] # FileName[outputs[k].comp]
OwnEdges(k) == \A c \in OtherOutputs(k) :
                 ToSet(AllEdges(c)) \cap ToSet(AllEdges(outputs[k].comp)) \subseteq HiddenEdge
DotFilesComplete ==
  job.gen = "dot" => \A k \in 1..job.at - 1 :
    outputs[k].comp # NoComp /\ OwnName(k) /\ OwnEdges(k) =>
      LET g == graph[FileName[outputs[k].comp]]
      IN  /\ IsInjective(g)
          /\ ToSet(g) = ToSet(AllEdges(outputs[k].comp)) \ HiddenEdge
=============================================================================
