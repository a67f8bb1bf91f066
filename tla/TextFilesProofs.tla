---------------------------- MODULE TextFilesProofs ----------------------------
(***************************************************************************)
(* What the library writes as text, for any number of components, edges,   *)
(* users, outputs and texts: the edits of a user survive one write, the    *)
(* DOT file of a component shows all of its edges, and a template has the  *)
(* values of its keys.                                                     *)
(***************************************************************************)
EXTENDS Outputs, Templates, Induction

-----------------------------------------------------------------------------
(* What users and the VHDL back end do to files.                           *)
FilesTypeOK ==
  /\ file \in [Names -> Texts \cup {NoFile}]
  /\ bak \in [Names -> Texts \cup {NoFile}]
  /\ edit \in [Names -> 0..MaxEdits]
  /\ place \in [Names -> {"file", "backup", "nowhere"}]
  /\ phase \in {"check", "copy", "write"}
  /\ outputs \in Seq(Output)
  /\ job \in [gen : {NoFile, "vhdl", "dot"}, at : Nat]
  /\ job.gen # NoFile => job.at # 0

(* An edit is where it is to be found.  Between copy and write it is in    *)
(* the file and in the backup, which takes over when the file is written.  *)
EditKept ==
  \A n \in Names : edit[n] # 0 =>
    /\ place[n] = "file"   => file[n] = edit[n]
    /\ place[n] = "backup" => bak[n] = edit[n]
    /\ AboutToWrite(n) /\ outputs[job.at].backup /\ place[n] = "file" => bak[n] = edit[n]

(* A file is copied or written for an output with a component.             *)
AtWork == phase # "check" => Current("vhdl") /\ outputs[job.at].comp # NoComp

FilesInv == FilesTypeOK /\ EditKept /\ AtWork

LEMMA FilesInitially == OutInit => FilesInv
<1> SUFFICES ASSUME OutInit PROVE FilesInv
  OBVIOUS
<1>1. outputs \in Seq(Output)
  <2>1. CASE outputs = << >>
    BY <2>1, EmptySeq
  <2>2. CASE \E o \in Output : outputs = <<o>>
    BY <2>2
  <2> QED
    BY <2>1, <2>2 DEF OutInit
<1>2. MaxEdits \in Nat
  BY OutputsAssumption
<1> QED
  BY <1>1, <1>2 DEF OutInit, FilesInv, FilesTypeOK, EditKept, AtWork, AboutToWrite

LEMMA UserEditsKeeps ==
  ASSUME FilesInv, NEW n \in Names, UserEdits(n)
  PROVE  FilesInv'
<1> DEFINE S == {edit[m] : m \in Names}
           k == 1 + Max(S)
<1>1. MaxEdits \in Nat /\ NoFile \notin Texts
  BY OutputsAssumption
<1>2. Max(S) \in S
  <2>1. edit \in [Names -> 0..MaxEdits]
    BY DEF FilesInv, FilesTypeOK
  <2>2. \A m \in Names : edit[m] \in Nat /\ edit[m] <= MaxEdits
    BY <1>1, <2>1
  <2>3. S # {} /\ \A m \in S : m \in Nat /\ m <= MaxEdits
    <3>1. edit[n] \in S
      OBVIOUS
    <3>2. ASSUME NEW m \in S PROVE m \in Nat /\ m <= MaxEdits
      <4>1. PICK v \in Names : m = edit[v]
        OBVIOUS
      <4> QED
        BY <2>2, <4>1
    <3> HIDE DEF S
    <3> QED
      BY <3>1, <3>2
  <2> HIDE DEF S
  <2> QED
    BY <1>1, <2>3, MaxFacts
<1>3. k \in 1..MaxEdits
  <2>1. Max(S) \in Nat
    <3>1. PICK m \in Names : Max(S) = edit[m]
      BY <1>2
    <3> QED
      BY <1>1, <3>1 DEF FilesInv, FilesTypeOK
  <2>2. k <= MaxEdits
    BY DEF UserEdits
  <2> QED
    BY <1>1, <2>1, <2>2
<1>4. /\ file' = [file EXCEPT ![n] = k] /\ edit' = [edit EXCEPT ![n] = k]
      /\ place' = [place EXCEPT ![n] = IF AboutToWrite(n) THEN "nowhere" ELSE "file"]
      /\ bak' = bak /\ outputs' = outputs /\ job' = job /\ phase' = phase
  BY DEF UserEdits
<1> HIDE DEF k, S
<1>5. FilesTypeOK'
  BY <1>1, <1>3, <1>4 DEF FilesInv, FilesTypeOK, Texts
<1>7. \A m : AboutToWrite(m)' <=> AboutToWrite(m)
  BY <1>4 DEF AboutToWrite, Current, CurrentFile
<1>6. EditKept'
  <2> SUFFICES ASSUME NEW m \in Names, edit'[m] # 0
               PROVE  /\ place'[m] = "file" => file'[m] = edit'[m]
                      /\ place'[m] = "backup" => bak'[m] = edit'[m]
                      /\ AboutToWrite(m)' /\ outputs'[job'.at].backup /\ place'[m] = "file" =>
                           bak'[m] = edit'[m]
    BY DEF EditKept
  <2>1. CASE m = n
    BY <1>1, <1>4, <1>7, <2>1 DEF FilesInv, FilesTypeOK
  <2>2. CASE m # n
    BY <1>4, <1>7, <2>2 DEF FilesInv, FilesTypeOK, EditKept
  <2> QED
    BY <2>1, <2>2
<1>8. AtWork'
  BY <1>4 DEF FilesInv, AtWork, Current
<1> QED
  BY <1>5, <1>6, <1>8 DEF FilesInv

(* The output that is worked on, and the file of it.                       *)
LEMMA CurrentFacts ==
  ASSUME FilesInv, Current("vhdl"), outputs[job.at].comp # NoComp
  PROVE  /\ outputs[job.at] \in Output /\ outputs[job.at].backup \in BOOLEAN
         /\ CurrentFile \in Names /\ outputs[job.at].comp \in Texts
         /\ job.gen = "vhdl" /\ job.at \in Nat /\ NoFile \notin Texts
<1>1. NoFile \notin {"vhdl", "dot"} /\ NoFile \notin Texts
  BY OutputsAssumption
<1>2. job.at \in Nat /\ job.at \in 1..Len(outputs) /\ job.gen = "vhdl"
  BY <1>1 DEF FilesInv, FilesTypeOK, Current
<1>3. outputs[job.at] \in Output
  BY <1>2, ElementOfSeq DEF FilesInv, FilesTypeOK
<1> QED
  BY <1>1, <1>2, <1>3 DEF Output, Names, Texts, CurrentFile

LEMMA CheckVhdlKeeps ==
  ASSUME FilesInv, CheckVhdl
  PROVE  FilesInv'
<1> DEFINE n == CurrentFile
           o == outputs[job.at]
<1>1. n \in Names /\ o.backup \in BOOLEAN /\ NoFile \notin Texts /\ MaxEdits \in Nat
  BY CurrentFacts, OutputsAssumption DEF CheckVhdl
<1>2. /\ phase = "check" /\ phase' = IF file[n] # NoFile /\ o.backup THEN "copy" ELSE "write"
      /\ UNCHANGED <<outputs, file, bak, edit, place, job>>
  BY DEF CheckVhdl
<1>3. ASSUME NEW m, AboutToWrite(m)' PROVE m = n /\ ~ (file[n] # NoFile /\ o.backup)
  BY <1>2, <1>3 DEF AboutToWrite, Current, CurrentFile
<1> HIDE DEF n, o
<1>4. FilesTypeOK'
  BY <1>2 DEF FilesInv, FilesTypeOK
<1>5. EditKept'
  <2> SUFFICES ASSUME NEW m \in Names, edit'[m] # 0
               PROVE  /\ place'[m] = "file" => file'[m] = edit'[m]
                      /\ place'[m] = "backup" => bak'[m] = edit'[m]
                      /\ AboutToWrite(m)' /\ outputs'[job'.at].backup /\ place'[m] = "file" =>
                           bak'[m] = edit'[m]
    BY DEF EditKept
  <2>1. edit[m] \in Texts /\ (place[m] = "file" => file[m] = edit[m])
        /\ (place[m] = "backup" => bak[m] = edit[m])
    BY <1>1, <1>2 DEF FilesInv, FilesTypeOK, EditKept, Texts
  <2>2. ~ (AboutToWrite(m)' /\ outputs'[job'.at].backup /\ place'[m] = "file")
    <3> SUFFICES ASSUME AboutToWrite(m)', o.backup, place[m] = "file" PROVE FALSE
      BY <1>2 DEF o
    <3>1. m = n /\ file[n] = NoFile
      BY <1>3
    <3> QED
      BY <1>1, <2>1, <3>1
  <2> QED
    BY <1>2, <2>1, <2>2
<1>6. AtWork'
  BY <1>2 DEF CheckVhdl, AtWork, Current
<1> QED
  BY <1>4, <1>5, <1>6 DEF FilesInv

LEMMA CopyVhdlKeeps ==
  ASSUME FilesInv, CopyVhdl
  PROVE  FilesInv'
<1> DEFINE n == CurrentFile
<1>1. n \in Names
  BY CurrentFacts DEF CopyVhdl, FilesInv, AtWork
<1>2. /\ bak' = [bak EXCEPT ![n] = file[n]]
      /\ place' = [place EXCEPT ![n] = IF @ = "file" THEN "file" ELSE "nowhere"]
      /\ phase' = "write" /\ UNCHANGED <<outputs, file, edit, job>>
  BY DEF CopyVhdl, Backup
<1>3. ASSUME NEW m, AboutToWrite(m)' PROVE m = n
  BY <1>2, <1>3 DEF AboutToWrite, Current, CurrentFile
<1> HIDE DEF n
<1>4. FilesTypeOK'
  <2>1. file[n] \in Texts \cup {NoFile}
    BY <1>1 DEF FilesInv, FilesTypeOK
  <2>2. bak' \in [Names -> Texts \cup {NoFile}] /\ place' \in [Names -> {"file", "backup", "nowhere"}]
    BY <1>1, <1>2, <2>1 DEF FilesInv, FilesTypeOK
  <2> QED
    BY <1>2, <2>2 DEF FilesInv, FilesTypeOK
<1>5. EditKept'
  <2> SUFFICES ASSUME NEW m \in Names, edit'[m] # 0
               PROVE  /\ place'[m] = "file" => file'[m] = edit'[m]
                      /\ place'[m] = "backup" => bak'[m] = edit'[m]
                      /\ AboutToWrite(m)' /\ outputs'[job'.at].backup /\ place'[m] = "file" =>
                           bak'[m] = edit'[m]
    BY DEF EditKept
  <2>1. CASE m = n
    BY <1>1, <1>2, <2>1 DEF FilesInv, FilesTypeOK, EditKept
  <2>2. CASE m # n
    BY <1>2, <1>3, <2>2 DEF FilesInv, FilesTypeOK, EditKept
  <2> QED
    BY <2>1, <2>2
<1>6. AtWork'
  BY <1>2 DEF CopyVhdl, FilesInv, AtWork, Current
<1> QED
  BY <1>4, <1>5, <1>6 DEF FilesInv

LEMMA WriteVhdlKeeps ==
  ASSUME FilesInv, WriteVhdl
  PROVE  FilesInv'
<1> DEFINE o == outputs[job.at]
           n == CurrentFile
<1>1. n \in Names /\ o.backup \in BOOLEAN /\ o.comp \in Texts /\ job.at \in Nat
  BY CurrentFacts DEF WriteVhdl, FilesInv, AtWork
<1>2. /\ file' = [file EXCEPT ![n] = o.comp]
      /\ place' = [place EXCEPT ![n] =
                     IF @ # "file" THEN @ ELSE IF o.backup THEN "backup" ELSE "nowhere"]
      /\ job' = [job EXCEPT !.at = @ + 1] /\ phase' = "check"
      /\ UNCHANGED <<outputs, bak, edit>>
      /\ AboutToWrite(n)
  BY DEF WriteVhdl, NextOutput, AboutToWrite
<1>3. \A m : ~ AboutToWrite(m)'
  BY <1>2 DEF AboutToWrite
<1>4. \A m \in Names : edit[m] # 0 => (AboutToWrite(m) /\ o.backup /\ place[m] = "file" => bak[m] = edit[m])
  BY DEF FilesInv, EditKept
<1> HIDE DEF o, n
<1>5. FilesTypeOK'
  <2>1. file' \in [Names -> Texts \cup {NoFile}] /\ place' \in [Names -> {"file", "backup", "nowhere"}]
    BY <1>1, <1>2 DEF FilesInv, FilesTypeOK
  <2>2. job' \in [gen : {NoFile, "vhdl", "dot"}, at : Nat] /\ job'.at # 0
    <3>1. job \in [gen : {NoFile, "vhdl", "dot"}, at : Nat] /\ job.at + 1 \in Nat /\ job.at + 1 # 0
      BY <1>1 DEF FilesInv, FilesTypeOK
    <3>2. job' = [job EXCEPT !.at = @ + 1]
      BY <1>2
    <3> QED
      BY <3>1, <3>2
  <2> QED
    BY <1>2, <2>1, <2>2 DEF FilesInv, FilesTypeOK
<1>6. EditKept'
  <2> SUFFICES ASSUME NEW m \in Names, edit'[m] # 0
               PROVE  /\ place'[m] = "file" => file'[m] = edit'[m]
                      /\ place'[m] = "backup" => bak'[m] = edit'[m]
    BY <1>3 DEF EditKept
  <2>1. CASE m = n
    <3>5. place'[n] = IF place[n] # "file" THEN place[n] ELSE IF o.backup THEN "backup" ELSE "nowhere"
      BY <1>1, <1>2 DEF FilesInv, FilesTypeOK
    <3>1. place'[n] # "file" /\ (place'[n] = "backup" => place[n] = "backup" \/ (place[n] = "file" /\ o.backup))
      <4>1. CASE place[n] # "file"
        BY <3>5, <4>1
      <4>2. CASE place[n] = "file" /\ o.backup
        BY <3>5, <4>2
      <4>3. CASE place[n] = "file" /\ ~ o.backup
        <5>1. place'[n] = "nowhere"
          BY <3>5, <4>3
        <5> QED
          BY <5>1
      <4> QED
        BY <4>1, <4>2, <4>3
    <3>2. place[n] = "backup" => bak[n] = edit[n]
      BY <1>1, <1>2, <2>1 DEF FilesInv, EditKept
    <3>3. AboutToWrite(n) /\ bak' = bak /\ edit' = edit /\ edit[n] # 0
      BY <1>2, <2>1
    <3>4. place'[n] = "backup" => bak[n] = edit[n]
      BY <1>1, <1>4, <3>1, <3>2, <3>3
    <3> QED
      BY <2>1, <3>1, <3>3, <3>4
  <2>2. CASE m # n
    BY <1>2, <2>2 DEF FilesInv, FilesTypeOK, EditKept
  <2> QED
    BY <2>1, <2>2
<1>7. AtWork'
  BY <1>2 DEF AtWork
<1> QED
  BY <1>5, <1>6, <1>7 DEF FilesInv

(* Steps that touch no file, with no file about to be written.             *)
LEMMA QuietKeeps ==
  ASSUME FilesInv, UNCHANGED <<file, bak, edit, place>>, phase' = "check",
         outputs' \in Seq(Output), job' \in [gen : {NoFile, "vhdl", "dot"}, at : Nat],
         job'.gen # NoFile => job'.at # 0
  PROVE  FilesInv'
<1>1. \A m : ~ AboutToWrite(m)'
  BY DEF AboutToWrite
<1>2. FilesTypeOK' /\ AtWork'
  BY DEF FilesInv, FilesTypeOK, AtWork
<1>3. EditKept'
  BY <1>1 DEF FilesInv, EditKept
<1> QED
  BY <1>2, <1>3 DEF FilesInv

LEMMA FilesStep ==
  ASSUME FilesInv, [OutNext]_outVars
  PROVE  FilesInv'
<1>1. /\ NoFile \notin {"vhdl", "dot"}
      /\ job \in [gen : {NoFile, "vhdl", "dot"}, at : Nat] /\ (job.gen # NoFile => job.at # 0)
      /\ outputs \in Seq(Output) /\ Len(outputs) \in Nat
      /\ phase # "check" => job.gen = "vhdl" /\ job.at <= Len(outputs)
  BY OutputsAssumption, LenProperties DEF FilesInv, FilesTypeOK, AtWork, Current
<1>2. ASSUME NEW o \in Output, AddOutput(o) PROVE FilesInv'
  <2>1. Append(outputs, o) \in Seq(Output)
    BY <1>1, AppendFacts
  <2> QED
    BY <1>1, <1>2, <2>1, QuietKeeps DEF AddOutput
<1>3. ASSUME NEW n \in Names, UserEdits(n) PROVE FilesInv'
  BY <1>3, UserEditsKeeps
<1>4. ASSUME NEW gen \in {"vhdl", "dot"}, BeginGenerate(gen) PROVE FilesInv'
  BY <1>1, <1>4, QuietKeeps DEF BeginGenerate
<1>5. ASSUME EndGenerate PROVE FilesInv'
  BY <1>1, <1>5, QuietKeeps DEF EndGenerate, Done
<1>6. ASSUME CheckVhdl \/ CopyVhdl \/ WriteVhdl PROVE FilesInv'
  BY <1>6, CheckVhdlKeeps, CopyVhdlKeeps, WriteVhdlKeeps
<1>7. ASSUME WriteVhdlThrows PROVE FilesInv'
  BY <1>1, <1>7, QuietKeeps DEF WriteVhdlThrows, Done
<1>8. ASSUME WriteDot \/ SkipDot PROVE FilesInv'
  BY <1>1, <1>8, QuietKeeps DEF WriteDot, SkipDot, NextOutput, Current
<1>9. ASSUME UNCHANGED outVars PROVE FilesInv'
  BY <1>9 DEF outVars, FilesInv, FilesTypeOK, EditKept, AtWork, AboutToWrite, Current, CurrentFile
<1> QED
  BY <1>2, <1>3, <1>4, <1>5, <1>6, <1>7, <1>8, <1>9 DEF OutNext

LEMMA FilesInvariant == OutSpec => []FilesInv
<1>1. OutInit => FilesInv
  BY FilesInitially
<1>2. FilesInv /\ [OutNext]_outVars => FilesInv'
  BY FilesStep
<1> QED
  BY <1>1, <1>2, PTL DEF OutSpec

(* What a user saved is in the file until the next write and, with a       *)
(* backup asked for, in the backup from then to the next copy: for any     *)
(* components that share names, any outputs, and users who save at any     *)
(* step of VHDLOutputGenerator::Generate, but for what they save when the  *)
(* copy is made and the write is not.  It rests on the copy being made of  *)
(* the file as it is then, and on nothing else writing a backup.           *)
THEOREM EditsSurvive == OutSpec => []EditsSurviveOneWrite
<1>1. FilesInv => EditsSurviveOneWrite
  BY DEF FilesInv, EditKept, EditsSurviveOneWrite
<1> QED
  BY <1>1, FilesInvariant, PTL

-----------------------------------------------------------------------------
(* What is listed at each node of a component.                             *)
LEMMA AllEdgesFacts ==
  ASSUME NEW c \in Comp
  PROVE  AllEdges(c) \in Seq(Edge)
<1> DEFINE ss == [k \in DOMAIN NodeEdges[c] |-> SetToSeq(NodeEdges[c][k])]
<1>1. /\ NodeEdges[c] \in Seq({es \in SUBSET Edge : IsFiniteSet(es)})
      /\ Len(NodeEdges[c]) \in Nat /\ DOMAIN NodeEdges[c] = 1..Len(NodeEdges[c])
  BY OutputsAssumption, LenProperties
<1>2. \A k \in 1..Len(NodeEdges[c]) : SetToSeq(NodeEdges[c][k]) \in Seq(Edge)
  <2> SUFFICES ASSUME NEW k \in 1..Len(NodeEdges[c]) PROVE SetToSeq(NodeEdges[c][k]) \in Seq(Edge)
    OBVIOUS
  <2>1. NodeEdges[c][k] \in SUBSET Edge /\ IsFiniteSet(NodeEdges[c][k])
    BY <1>1, ElementOfSeq
  <2>2. SetToSeq(NodeEdges[c][k]) \in Seq(NodeEdges[c][k])
    BY <2>1, ListOfSet
  <2> QED
    BY <2>1, <2>2, SeqMonotonic
<1>3. ss \in Seq(Seq(Edge))
  <2>1. ss = [k \in 1..Len(NodeEdges[c]) |-> SetToSeq(NodeEdges[c][k])]
    BY <1>1
  <2> QED
    BY <1>1, <1>2, <2>1
<1> HIDE DEF ss
<1>4. FlattenSeq(ss) \in Seq(Edge)
  BY <1>3, FlattenFacts
<1> QED
  BY <1>4 DEF AllEdges, ss

(* The names of the library and those of the lemmas for what is listed.    *)
LEMMA ListedIsToSet ==
  ASSUME NEW S, NEW s \in Seq(S)
  PROVE  ToSet(s) = Listed(s)
BY LenProperties DEF ToSet, Listed

(* What the loop of GenEdges keeps: edges are remembered once they are     *)
(* seen, and those it has shown are the ones that were not seen before.    *)
Drawing(st, seen, es, k) ==
  /\ st \in [drawn : Seq(Edge), shown : Seq(Edge)]
  /\ Listed(st.drawn) = seen \cup {es[j] : j \in 1..k}
  /\ Listed(st.shown) = {es[j] : j \in 1..k} \ (seen \cup HiddenEdge)
  /\ IsInjective(st.shown)

LEMMA DrawKeeps ==
  ASSUME NEW st, NEW seen, NEW es \in Seq(Edge), NEW k \in Nat, k + 1 \in 1..Len(es),
         Drawing(st, seen, es, k)
  PROVE  Drawing(Draw(st, es[k + 1]), seen, es, k + 1)
<1> DEFINE e == es[k + 1]
           before == {es[j] : j \in 1..k}
<1>1. /\ st \in [drawn : Seq(Edge), shown : Seq(Edge)]
      /\ Listed(st.drawn) = seen \cup before
      /\ Listed(st.shown) = before \ (seen \cup HiddenEdge)
      /\ IsInjective(st.shown)
  BY DEF Drawing
<1>2. e \in Edge /\ {es[j] : j \in 1..(k + 1)} = before \cup {e}
  <2>1. 1..(k + 1) = (1..k) \cup {k + 1}
    OBVIOUS
  <2> QED
    BY <2>1, ElementOfSeq
<1>3. Contains(st.drawn, e) <=> e \in Listed(st.drawn)
  BY <1>1 DEF Contains, Listed
<1> HIDE DEF e, before
<1>4. CASE e \in Listed(st.drawn)
  <2>1. Draw(st, e) = st
    BY <1>3, <1>4 DEF Draw
  <2>2. seen \cup (before \cup {e}) = seen \cup before
    BY <1>1, <1>4
  <2>3. (before \cup {e}) \ (seen \cup HiddenEdge) = before \ (seen \cup HiddenEdge)
    BY <1>1, <1>4
  <2>4. Drawing(st, seen, es, k + 1)
    BY <1>1, <1>2, <2>2, <2>3 DEF Drawing
  <2> QED
    BY <2>1, <2>4 DEF e
<1>5. CASE e \notin Listed(st.drawn)
  <2> DEFINE shown == IF e \in HiddenEdge THEN st.shown ELSE Append(st.shown, e)
  <2>1. Draw(st, e) = [drawn |-> Append(st.drawn, e), shown |-> shown]
    BY <1>3, <1>5 DEF Draw
  <2>2. Append(st.drawn, e) \in Seq(Edge) /\ Listed(Append(st.drawn, e)) = seen \cup (before \cup {e})
    BY <1>1, <1>2, AppendFacts
  <2>3. /\ shown \in Seq(Edge) /\ IsInjective(shown)
        /\ Listed(shown) = (before \cup {e}) \ (seen \cup HiddenEdge)
    <3>1. CASE e \in HiddenEdge
      BY <1>1, <3>1
    <3>2. CASE e \notin HiddenEdge
      <4>1. e \notin Listed(st.shown) /\ shown = Append(st.shown, e)
        BY <1>1, <1>5, <3>2
      <4>2. /\ shown \in Seq(Edge) /\ Listed(shown) = Listed(st.shown) \cup {e}
            /\ Len(shown) = Len(st.shown) + 1 /\ Len(st.shown) \in Nat
            /\ \A j \in 1..Len(st.shown) : shown[j] = st.shown[j]
            /\ shown[Len(st.shown) + 1] = e
        BY <1>1, <1>2, <4>1, AppendFacts
      <4> HIDE DEF shown
      <4>3. \A j \in 1..Len(st.shown) : st.shown[j] # e
        BY <4>1 DEF Listed
      <4>4. \A i, j \in 1..Len(st.shown) : st.shown[i] = st.shown[j] => i = j
        BY <1>1 DEF IsInjective
      <4>5. DOMAIN shown = 1..(Len(st.shown) + 1)
        BY <4>2, LenProperties
      <4>6. ASSUME NEW i \in DOMAIN shown, NEW j \in DOMAIN shown, shown[i] = shown[j] PROVE i = j
        <5> DEFINE n == Len(st.shown)
        <5>1. n \in Nat /\ i \in 1..(n + 1) /\ j \in 1..(n + 1)
          BY <4>2, <4>5
        <5>2. \A l \in 1..n : shown[l] = st.shown[l] /\ shown[l] # e
          BY <4>2, <4>3
        <5>3. shown[n + 1] = e
          BY <4>2
        <5> HIDE DEF n
        <5>4. (i \in 1..n \/ i = n + 1) /\ (j \in 1..n \/ j = n + 1)
          BY <5>1
        <5>5. CASE i \in 1..n /\ j \in 1..n
          BY <4>4, <4>6, <5>2, <5>5 DEF n
        <5>6. CASE ~ (i \in 1..n /\ j \in 1..n)
          BY <4>6, <5>2, <5>3, <5>4, <5>6
        <5> QED
          BY <5>5, <5>6
      <4>7. IsInjective(shown)
        BY <4>6 DEF IsInjective
      <4>8. Listed(shown) = (before \cup {e}) \ (seen \cup HiddenEdge)
        BY <1>1, <1>5, <3>2, <4>2
      <4> QED
        BY <4>2, <4>7, <4>8
    <3> QED
      BY <3>1, <3>2
  <2> HIDE DEF shown
  <2>4. Drawing(Draw(st, e), seen, es, k + 1)
    <3> DEFINE next == Draw(st, e)
    <3>1. /\ next \in [drawn : Seq(Edge), shown : Seq(Edge)]
          /\ next.drawn = Append(st.drawn, e) /\ next.shown = shown
      BY <2>1, <2>2, <2>3
    <3> HIDE DEF next
    <3>2. Drawing(next, seen, es, k + 1)
      BY <1>2, <2>2, <2>3, <3>1 DEF Drawing
    <3> QED
      BY <3>2 DEF next
  <2> QED
    BY <2>4 DEF e
<1> QED
  BY <1>4, <1>5

(* GenEdges remembers all edges of a component and shows what is new.      *)
LEMMA GenEdgesFacts ==
  ASSUME NEW c \in Comp, drawn \in Seq(Edge)
  PROVE  /\ GenEdges(c).drawn \in Seq(Edge) /\ GenEdges(c).shown \in Seq(Edge)
         /\ Listed(GenEdges(c).drawn) = Listed(drawn) \cup Listed(AllEdges(c))
         /\ Listed(GenEdges(c).shown) = Listed(AllEdges(c)) \ (Listed(drawn) \cup HiddenEdge)
         /\ IsInjective(GenEdges(c).shown)
<1> DEFINE es == AllEdges(c)
           m == Len(es)
           St == [drawn : Seq(Edge), shown : Seq(Edge)]
           x0 == [drawn |-> drawn, shown |-> << >>]
           Is(f) == f = [k \in 0..Len(es) |-> IF k = 0 THEN [drawn |-> drawn, shown |-> << >>]
                                                        ELSE Draw(f[k - 1], es[k])]
           b == CHOOSE f : Is(f)
           F == [k \in 1..m |-> [s \in St |-> Draw(s, es[k])]]
<1>1. es \in Seq(Edge) /\ m \in Nat /\ \A k \in 1..m : es[k] \in Edge
  BY AllEdgesFacts, LenProperties, ElementOfSeq
<1>2. x0 \in St /\ Listed(<< >>) = {}
  BY EmptySeq DEF Listed
<1>3. ASSUME NEW s \in St, NEW e \in Edge PROVE Draw(s, e) \in St
  <2>1. Append(s.drawn, e) \in Seq(Edge) /\ Append(s.shown, e) \in Seq(Edge)
    BY AppendFacts
  <2> QED
    BY <2>1 DEF Draw
<1>4. F \in [1..m -> [St -> St]]
  <2>1. \A k \in 1..m : \A s \in St : Draw(s, es[k]) \in St
    BY <1>1, <1>3
  <2> HIDE DEF St
  <2> QED
    BY <2>1
<1>5. PICK f \in [0..m -> St] : f = [k \in 0..m |-> IF k = 0 THEN x0 ELSE F[k][f[k - 1]]]
  <2> HIDE DEF F, m, St, x0
  <2>1. \E f \in [0..m -> St] : Iterated(f, m, x0, F)
    BY <1>1, <1>2, <1>4, Iterates
  <2> QED
    BY <2>1 DEF Iterated
<1>6. ASSUME NEW k \in 0..m PROVE f[k] = IF k = 0 THEN x0 ELSE Draw(f[k - 1], es[k])
  <2> HIDE DEF St, x0
  <2>1. f[k] = IF k = 0 THEN x0 ELSE F[k][f[k - 1]]
    BY <1>5
  <2>2. k # 0 => k - 1 \in 0..m /\ k \in 1..m
    BY <1>1
  <2>3. k # 0 => f[k - 1] \in St
    BY <2>2
  <2>4. k # 0 => F[k][f[k - 1]] = Draw(f[k - 1], es[k])
    BY <2>2, <2>3
  <2> HIDE DEF F
  <2> QED
    BY <2>1, <2>4
<1>7. Is(f)
  <2> HIDE DEF F, St
  <2>1. f = [k \in 0..m |-> f[k]]
    BY <1>5
  <2> QED
    BY <1>6, <2>1
<1>8. Is(b)
  BY <1>7
<1>9. GenEdges(c) = b[m]
  BY DEF GenEdges
<1> HIDE DEF b, F
<1>10. b[0] = x0 /\ \A k \in 1..m : b[k] = Draw(b[k - 1], es[k])
  BY <1>1, <1>8
<1> HIDE DEF Is
<1>11. Drawing(b[0], Listed(drawn), es, 0)
  <2>1. {es[j] : j \in 1..0} = {}
    OBVIOUS
  <2>2. IsInjective(<< >>)
    BY DEF IsInjective
  <2>3. x0.drawn = drawn /\ x0.shown = << >>
    OBVIOUS
  <2> HIDE DEF x0, es, m
  <2> QED
    BY <1>2, <1>10, <2>1, <2>2, <2>3 DEF Drawing
<1> DEFINE T == {k \in Nat : k <= m => Drawing(b[k], Listed(drawn), es, k)}
<1>12. 0 \in T
  BY <1>11
<1>13. ASSUME NEW k \in Nat, k \in T PROVE k + 1 \in T
  <2> SUFFICES ASSUME k + 1 <= m PROVE Drawing(b[k + 1], Listed(drawn), es, k + 1)
    OBVIOUS
  <2>1. Drawing(b[k], Listed(drawn), es, k) /\ k + 1 \in 1..m /\ (k + 1) - 1 = k
    BY <1>1, <1>13
  <2>2. b[k + 1] = Draw(b[k], es[k + 1])
    BY <1>10, <2>1
  <2> HIDE DEF es
  <2> QED
    BY <1>1, <2>1, <2>2, DrawKeeps
<1> HIDE DEF T
<1>14. m \in T
  BY <1>1, <1>12, <1>13, EveryNatural
<1>15. Drawing(b[m], Listed(drawn), es, m)
  <2>1. m <= m
    BY <1>1
  <2> QED
    BY <1>14, <2>1 DEF T
<1>16. {es[j] : j \in 1..m} = Listed(es)
  BY DEF Listed
<1> HIDE DEF es, m
<1>17. /\ b[m].drawn \in Seq(Edge) /\ b[m].shown \in Seq(Edge)
       /\ Listed(b[m].drawn) = Listed(drawn) \cup Listed(es)
       /\ Listed(b[m].shown) = Listed(es) \ (Listed(drawn) \cup HiddenEdge)
       /\ IsInjective(b[m].shown)
  BY <1>15, <1>16 DEF Drawing
<1> QED
  BY <1>9, <1>17 DEF es

(* What was drawn is an edge of a component this Generate has put out.     *)
DrawnFound ==
  job.gen = "dot" => \A e \in Listed(drawn) : \E k \in 1..job.at - 1 :
    k \in 1..Len(outputs) /\ outputs[k].comp # NoComp /\ e \in Listed(AllEdges(outputs[k].comp))

DotInv ==
  /\ FilesTypeOK
  /\ graph \in [Names -> Seq(Edge)]
  /\ drawn \in Seq(Edge)
  /\ job.gen = "dot" => job.at <= Len(outputs) + 1
  /\ DrawnFound
  /\ DotFilesComplete

LEMMA WriteDotKeeps ==
  ASSUME DotInv, FilesTypeOK', WriteDot
  PROVE  DotInv'
<1> DEFINE at == job.at
           c == outputs[at].comp
           n == FileName[c]
           g == GenEdges(c)
<1>1. /\ job.gen = "dot" /\ at <= Len(outputs) /\ c # NoComp
      /\ graph' = [graph EXCEPT ![n] = g.shown] /\ drawn' = g.drawn
      /\ job' = [job EXCEPT !.at = @ + 1] /\ outputs' = outputs
  BY DEF WriteDot, Current, NextOutput
<1>2. at \in Nat \ {0} /\ at \in 1..Len(outputs) /\ Len(outputs) \in Nat
  <2>1. NoFile \notin {"vhdl", "dot"}
    BY OutputsAssumption
  <2>2. Len(outputs) \in Nat
    BY LenProperties DEF DotInv, FilesTypeOK
  <2> QED
    BY <1>1, <2>1, <2>2 DEF DotInv, FilesTypeOK
<1>3. \A k \in 1..Len(outputs) : outputs[k].comp # NoComp =>
        /\ outputs[k].comp \in Comp /\ AllEdges(outputs[k].comp) \in Seq(Edge)
        /\ ToSet(AllEdges(outputs[k].comp)) = Listed(AllEdges(outputs[k].comp))
  <2> SUFFICES ASSUME NEW k \in 1..Len(outputs), outputs[k].comp # NoComp
               PROVE  /\ outputs[k].comp \in Comp /\ AllEdges(outputs[k].comp) \in Seq(Edge)
                      /\ ToSet(AllEdges(outputs[k].comp)) = Listed(AllEdges(outputs[k].comp))
    OBVIOUS
  <2>1. outputs[k] \in Output
    BY ElementOfSeq DEF DotInv, FilesTypeOK
  <2>2. outputs[k].comp \in Comp
    BY <2>1 DEF Output
  <2>3. AllEdges(outputs[k].comp) \in Seq(Edge)
    BY <2>2, AllEdgesFacts
  <2>4. ToSet(AllEdges(outputs[k].comp)) = Listed(AllEdges(outputs[k].comp))
    BY <2>3, ListedIsToSet
  <2> QED
    BY <2>2, <2>3, <2>4
<1>4. c \in Comp /\ n \in Names /\ ToSet(AllEdges(c)) = Listed(AllEdges(c))
  BY <1>1, <1>2, <1>3 DEF Names
<1>5. /\ g.drawn \in Seq(Edge) /\ g.shown \in Seq(Edge)
      /\ Listed(g.drawn) = Listed(drawn) \cup Listed(AllEdges(c))
      /\ Listed(g.shown) = Listed(AllEdges(c)) \ (Listed(drawn) \cup HiddenEdge)
      /\ IsInjective(g.shown)
  BY <1>4, GenEdgesFacts DEF DotInv
<1>6. ToSet(g.shown) = Listed(g.shown)
  BY <1>5, ListedIsToSet
<1>7. DOMAIN outputs = 1..Len(outputs)
  BY LenProperties DEF DotInv, FilesTypeOK
<1> HIDE DEF g, n
<1>8. /\ job'.at = at + 1 /\ job'.gen = "dot"
      /\ \A k \in 1..job'.at - 1 : k \in 1..at - 1 \/ k = at
      /\ \A k \in 1..at - 1 : k \in 1..job'.at - 1
      /\ at \in 1..job'.at - 1
  <2>1. job' = [gen |-> job.gen, at |-> at + 1]
    BY <1>1 DEF DotInv, FilesTypeOK
  <2>2. job'.at = at + 1 /\ job'.gen = "dot"
    BY <1>1, <2>1
  <2> HIDE DEF at
  <2> QED
    BY <1>2, <2>2
<1> HIDE DEF at
<1>9. DrawnFound'
  <2> SUFFICES ASSUME NEW e \in Listed(drawn')
               PROVE  \E k \in 1..job'.at - 1 :
                        /\ k \in 1..Len(outputs) /\ outputs[k].comp # NoComp
                        /\ e \in Listed(AllEdges(outputs[k].comp))
    BY <1>1 DEF DrawnFound
  <2>1. CASE e \in Listed(drawn)
    BY <1>1, <1>8, <2>1 DEF DotInv, DrawnFound, at
  <2>2. CASE e \in Listed(AllEdges(c))
    BY <1>1, <1>2, <1>8, <2>2
  <2> QED
    BY <1>1, <1>5, <2>1, <2>2
<1>10. DotFilesComplete'
  <2> SUFFICES ASSUME NEW k \in 1..job'.at - 1, outputs[k].comp # NoComp, OwnName(k)', OwnEdges(k)'
               PROVE  /\ IsInjective(graph'[FileName[outputs[k].comp]])
                      /\ ToSet(graph'[FileName[outputs[k].comp]]) =
                         ToSet(AllEdges(outputs[k].comp)) \ HiddenEdge
    BY <1>1 DEF DotFilesComplete
  <2>1. OwnName(k) /\ OwnEdges(k)
    BY <1>1 DEF OwnName, OwnEdges, OtherOutputs
  <2>2. CASE k \in 1..at - 1
    <3>1. /\ IsInjective(graph[FileName[outputs[k].comp]])
          /\ ToSet(graph[FileName[outputs[k].comp]]) = ToSet(AllEdges(outputs[k].comp)) \ HiddenEdge
      BY <1>1, <2>1, <2>2 DEF DotInv, DotFilesComplete, at
    <3>2. at # k /\ k \in 1..Len(outputs)
      BY <1>2, <2>2
    <3>3. c \in OtherOutputs(k)
      BY <1>1, <1>2, <1>7, <3>2 DEF OtherOutputs
    <3>4. FileName[outputs[k].comp] # n
      BY <2>1, <3>3 DEF OwnName, n
    <3>5. FileName[outputs[k].comp] \in Names
      BY <1>3, <3>2 DEF Names
    <3>6. graph'[FileName[outputs[k].comp]] = graph[FileName[outputs[k].comp]]
      BY <1>1, <1>4, <3>4, <3>5 DEF DotInv
    <3> QED
      BY <3>1, <3>6
  <2>3. CASE k = at
    <3>1. ASSUME NEW e \in Listed(drawn), e \in Listed(AllEdges(c)) PROVE e \in HiddenEdge
      <4>1. PICK l \in 1..at - 1 : /\ l \in 1..Len(outputs) /\ outputs[l].comp # NoComp
                                   /\ e \in Listed(AllEdges(outputs[l].comp))
        BY <1>1 DEF DotInv, DrawnFound, at
      <4>2. l # k /\ outputs[l].comp \in OtherOutputs(k)
        BY <1>2, <1>7, <2>3, <4>1 DEF OtherOutputs
      <4>3. ToSet(AllEdges(outputs[l].comp)) \cap ToSet(AllEdges(c)) \subseteq HiddenEdge
        BY <2>1, <2>3, <4>2 DEF OwnEdges
      <4> QED
        BY <1>3, <1>4, <3>1, <4>1, <4>3
    <3>2. Listed(g.shown) = Listed(AllEdges(c)) \ HiddenEdge
      BY <1>5, <3>1
    <3>3. graph'[n] = g.shown
      BY <1>1, <1>4 DEF DotInv
    <3> QED
      BY <1>4, <1>5, <1>6, <2>3, <3>2, <3>3 DEF n
  <2> QED
    BY <1>8, <2>2, <2>3
<1>11. graph' \in [Names -> Seq(Edge)] /\ drawn' \in Seq(Edge)
  BY <1>1, <1>4, <1>5 DEF DotInv
<1>12. job'.at <= Len(outputs') + 1
  BY <1>1, <1>2, <1>8 DEF at
<1> QED
  BY <1>9, <1>10, <1>11, <1>12 DEF DotInv

LEMMA SkipDotKeeps ==
  ASSUME DotInv, FilesTypeOK', SkipDot
  PROVE  DotInv'
<1> DEFINE at == job.at
<1>1. /\ job.gen = "dot" /\ at <= Len(outputs) /\ outputs[at].comp = NoComp
      /\ job' = [job EXCEPT !.at = @ + 1]
      /\ graph' = graph /\ drawn' = drawn /\ outputs' = outputs
  BY DEF SkipDot, Current, NextOutput
<1>2. at \in Nat \ {0} /\ Len(outputs) \in Nat
  <2>1. NoFile \notin {"vhdl", "dot"}
    BY OutputsAssumption
  <2>2. Len(outputs) \in Nat
    BY LenProperties DEF DotInv, FilesTypeOK
  <2> QED
    BY <1>1, <2>1, <2>2 DEF DotInv, FilesTypeOK
<1>3. job'.at = at + 1 /\ job'.gen = "dot"
  <2>1. job' = [gen |-> job.gen, at |-> at + 1]
    BY <1>1 DEF DotInv, FilesTypeOK
  <2> QED
    BY <1>1, <2>1
<1> HIDE DEF at
<1>4. /\ \A k \in 1..job'.at - 1 : k \in 1..at - 1 \/ k = at
      /\ \A k \in 1..at - 1 : k \in 1..job'.at - 1
  BY <1>2, <1>3
<1>5. DrawnFound'
  <2> SUFFICES ASSUME NEW e \in Listed(drawn)
               PROVE  \E k \in 1..job'.at - 1 :
                        /\ k \in 1..Len(outputs) /\ outputs[k].comp # NoComp
                        /\ e \in Listed(AllEdges(outputs[k].comp))
    BY <1>1 DEF DrawnFound
  <2> QED
    BY <1>1, <1>4 DEF DotInv, DrawnFound, at
<1>6. DotFilesComplete'
  <2> SUFFICES ASSUME NEW k \in 1..job'.at - 1, outputs[k].comp # NoComp, OwnName(k)', OwnEdges(k)'
               PROVE  /\ IsInjective(graph[FileName[outputs[k].comp]])
                      /\ ToSet(graph[FileName[outputs[k].comp]]) =
                         ToSet(AllEdges(outputs[k].comp)) \ HiddenEdge
    BY <1>1 DEF DotFilesComplete
  <2>1. OwnName(k) /\ OwnEdges(k)
    BY <1>1 DEF OwnName, OwnEdges, OtherOutputs
  <2>2. k \in 1..at - 1
    BY <1>1, <1>4
  <2> QED
    BY <1>1, <2>1, <2>2 DEF DotInv, DotFilesComplete, at
<1>7. job'.at <= Len(outputs') + 1
  BY <1>1, <1>2, <1>3 DEF at
<1> QED
  BY <1>1, <1>5, <1>6, <1>7 DEF DotInv

(* A step that leaves the DOT files and the outputs as they are.           *)
LEMMA OtherStepKeeps ==
  ASSUME DotInv, FilesTypeOK', UNCHANGED <<outputs, graph, drawn>>, UNCHANGED job \/ job'.gen # "dot"
  PROVE  DotInv'
<1>1. graph' \in [Names -> Seq(Edge)] /\ drawn' \in Seq(Edge)
  BY DEF DotInv
<1>2. CASE job'.gen # "dot"
  BY <1>1, <1>2 DEF DotInv, DrawnFound, DotFilesComplete
<1>3. CASE UNCHANGED job
  <2>1. \A k : (OwnName(k)' <=> OwnName(k)) /\ (OwnEdges(k)' <=> OwnEdges(k))
    BY DEF OwnName, OwnEdges, OtherOutputs
  <2>2. DotFilesComplete'
    BY <1>3, <2>1 DEF DotInv, DotFilesComplete
  <2>3. DrawnFound'
    BY <1>3 DEF DotInv, DrawnFound
  <2> QED
    BY <1>1, <1>3, <2>2, <2>3 DEF DotInv
<1> QED
  BY <1>2, <1>3

LEMMA DotStep ==
  ASSUME DotInv, FilesTypeOK', [OutNext]_outVars
  PROVE  DotInv'
<1>1. NoFile \notin {"vhdl", "dot"}
  BY OutputsAssumption
<1>2. ASSUME NEW o \in Output, AddOutput(o) PROVE DotInv'
  <2>1. job' = job /\ job.gen = NoFile /\ graph' = graph /\ drawn' = drawn
    BY <1>2 DEF AddOutput
  <2> QED
    BY <1>1, <2>1 DEF DotInv, DrawnFound, DotFilesComplete
<1>3. ASSUME NEW n \in Names, UserEdits(n) PROVE DotInv'
  BY <1>3, OtherStepKeeps DEF UserEdits
<1>4. ASSUME NEW gen \in {"vhdl", "dot"}, BeginGenerate(gen) PROVE DotInv'
  <2>1. /\ job' = [gen |-> gen, at |-> 1] /\ drawn' = << >>
        /\ outputs' = outputs /\ graph' = graph
    BY <1>4 DEF BeginGenerate
  <2>2. job'.at = 1 /\ 1..job'.at - 1 = {} /\ Len(outputs) \in Nat
    BY <2>1, LenProperties DEF DotInv, FilesTypeOK
  <2>3. << >> \in Seq(Edge) /\ Listed(<< >>) = {}
    BY EmptySeq DEF Listed
  <2>4. DrawnFound' /\ DotFilesComplete'
    BY <2>1, <2>2, <2>3 DEF DrawnFound, DotFilesComplete
  <2> QED
    BY <2>1, <2>2, <2>3, <2>4 DEF DotInv
<1>5. ASSUME EndGenerate PROVE DotInv'
  <2>1. job' = [gen |-> NoFile, at |-> 0] /\ UNCHANGED <<outputs, graph, drawn>>
    BY <1>5 DEF EndGenerate, Done
  <2>2. job'.gen # "dot"
    BY <1>1, <2>1
  <2> QED
    BY <2>1, <2>2, OtherStepKeeps
<1>6. ASSUME WriteVhdl PROVE DotInv'
  <2>1. job.gen = "vhdl" /\ job' = [job EXCEPT !.at = @ + 1]
    BY <1>6 DEF WriteVhdl, Current, NextOutput
  <2>2. job'.gen # "dot"
    BY <2>1 DEF DotInv, FilesTypeOK
  <2> QED
    BY <1>6, <2>2, OtherStepKeeps DEF WriteVhdl
<1>7. ASSUME WriteVhdlThrows PROVE DotInv'
  <2>1. job' = [gen |-> NoFile, at |-> 0] /\ UNCHANGED <<outputs, graph, drawn>>
    BY <1>7 DEF WriteVhdlThrows, Done
  <2>2. job'.gen # "dot"
    BY <1>1, <2>1
  <2> QED
    BY <2>1, <2>2, OtherStepKeeps
<1>8. ASSUME WriteDot PROVE DotInv'
  BY <1>8, WriteDotKeeps
<1>9. ASSUME SkipDot PROVE DotInv'
  BY <1>9, SkipDotKeeps
<1>10. ASSUME UNCHANGED outVars PROVE DotInv'
  BY <1>10, OtherStepKeeps DEF outVars
<1>11. ASSUME CheckVhdl \/ CopyVhdl PROVE DotInv'
  BY <1>11, OtherStepKeeps DEF CheckVhdl, CopyVhdl
<1> QED
  BY <1>2, <1>3, <1>4, <1>5, <1>6, <1>7, <1>8, <1>9, <1>10, <1>11 DEF OutNext

(* While DOTOutputGenerator::Generate runs, and so when it returns, the    *)
(* file of each component put out so far shows all its edges once, for any *)
(* number of components with any edges, hidden or shared, at any nodes.    *)
THEOREM DotFilesShowAll == OutSpec => []DotFilesComplete
<1>1. OutInit => DotInv
  <2> SUFFICES ASSUME OutInit PROVE DotInv
    OBVIOUS
  <2>1. FilesTypeOK
    BY FilesInitially DEF FilesInv
  <2>2. NoFile \notin {"vhdl", "dot"}
    BY OutputsAssumption
  <2>3. << >> \in Seq(Edge)
    BY EmptySeq
  <2>4. job.gen # "dot" /\ graph \in [Names -> Seq(Edge)] /\ drawn \in Seq(Edge)
    BY <2>2, <2>3 DEF OutInit
  <2> QED
    BY <2>1, <2>4 DEF DotInv, DrawnFound, DotFilesComplete
<1>2. DotInv /\ FilesInv' /\ [OutNext]_outVars => DotInv'
  BY DotStep DEF FilesInv
<1>3. DotInv => DotFilesComplete
  BY DEF DotInv
<1> QED
  BY <1>1, <1>2, <1>3, FilesInvariant, PTL DEF OutSpec

-----------------------------------------------------------------------------
(* Templates.                                                              *)

(* A line with its i-th item written as P, and every other as it is.       *)
Around(line, i, P) ==
  [j \in 1..(Len(line) - 1 + Len(P)) |->
     IF j < i THEN line[j] ELSE IF j < i + Len(P) THEN P[j - i + 1] ELSE line[j - Len(P) + 1]]

LEMMA AroundType ==
  ASSUME NEW S, NEW T, NEW line \in Seq(T), NEW i \in 1..Len(line), NEW P \in Seq(S),
         \A j \in 1..Len(line) : j # i => line[j] \in S
  PROVE  Around(line, i, P) \in Seq(S) /\ Len(Around(line, i, P)) = Len(line) - 1 + Len(P)
<1> DEFINE n == Len(line)
           w == Len(P)
           x(j) == IF j < i THEN line[j] ELSE IF j < i + w THEN P[j - i + 1] ELSE line[j - w + 1]
<1>1. n \in Nat /\ w \in Nat /\ i \in 1..n /\ n - 1 + w \in Nat /\ \A q \in 1..w : P[q] \in S
  BY LenProperties, ElementOfSeq
<1>2. ASSUME NEW j \in 1..(n - 1 + w) PROVE x(j) \in S
  <2>1. CASE j < i
    <3>1. j \in 1..n /\ j # i
      BY <1>1, <2>1
    <3> HIDE DEF n, w
    <3> QED
      BY <2>1, <3>1 DEF n
  <2>2. CASE ~ (j < i) /\ j < i + w
    <3>1. j - i + 1 \in 1..w
      BY <1>1, <2>2
    <3> HIDE DEF n, w
    <3> QED
      BY <1>1, <2>2, <3>1
  <2>3. CASE ~ (j < i) /\ ~ (j < i + w)
    <3>1. j - w + 1 \in 1..n /\ j - w + 1 # i
      BY <1>1, <2>3
    <3> HIDE DEF n, w
    <3> QED
      BY <2>3, <3>1 DEF n
  <2> QED
    BY <2>1, <2>2, <2>3
<1>3. Around(line, i, P) = [j \in 1..(n - 1 + w) |-> x(j)]
  BY DEF Around
<1> DEFINE m == n - 1 + w
           r == [j \in 1..m |-> x(j)]
<1>4. m \in Nat /\ m = Len(line) - 1 + Len(P) /\ Around(line, i, P) = r
  BY <1>1, <1>3
<1>5. \A j \in 1..m : x(j) \in S
  BY <1>2
<1> HIDE DEF m, x
<1>6. r \in Seq(S) /\ Len(r) = m
  BY <1>4, <1>5
<1> QED
  BY <1>4, <1>6

(* One item of a line is written out, the others are symbols.              *)
LEMMA FlattenAround ==
  ASSUME NEW S, NEW T, NEW line \in Seq(T), NEW i \in 1..Len(line), NEW ss \in Seq(Seq(S)),
         Len(ss) = Len(line), \A j \in 1..Len(line) : j # i => ss[j] = <<line[j]>> /\ line[j] \in S
  PROVE  FlattenSeq(ss) = Around(line, i, ss[i])
<1> DEFINE n == Len(line)
           P == ss[i]
           w == Len(P)
           x(j) == IF j < i THEN line[j] ELSE IF j < i + w THEN P[j - i + 1] ELSE line[j - w + 1]
           upto(k) == IF k < i THEN k ELSE k - 1 + w
<1>1. n \in Nat /\ i \in 1..n /\ P \in Seq(S) /\ w \in Nat /\ \A j \in 1..n : ss[j] \in Seq(S)
  <2>1. \A j \in 1..Len(ss) : ss[j] \in Seq(S)
    BY ElementOfSeq
  <2> QED
    BY <2>1, LenProperties
<1>2. PICK g : Flattening(g, S, ss, n)
  BY FlattenSteps
<1>3. ASSUME NEW k \in Nat, k + 1 <= n
      PROVE  /\ Len(g[k + 1]) = Len(g[k]) + Len(ss[k + 1])
             /\ \A j \in 1..Len(g[k]) : g[k + 1][j] = g[k][j]
             /\ \A j \in 1..Len(ss[k + 1]) : g[k + 1][Len(g[k]) + j] = ss[k + 1][j]
  <2> DEFINE a == g[k]
             b == ss[k + 1]
  <2>1. k \in 0..n /\ k + 1 \in 1..n /\ (k + 1) - 1 = k
    BY <1>1, <1>3
  <2>2. a \in Seq(S) /\ b \in Seq(S) /\ g[k + 1] = a \o b
    <3> HIDE DEF n
    <3> QED
      BY <1>1, <1>2, <2>1 DEF Flattening
  <2> HIDE DEF a, b, n
  <2>3. /\ Len(a \o b) = Len(a) + Len(b)
        /\ \A j \in 1..Len(a) : (a \o b)[j] = a[j]
        /\ \A j \in 1..Len(b) : (a \o b)[Len(a) + j] = b[j]
    BY <2>2, ConcatFacts
  <2> QED
    BY <2>2, <2>3 DEF a, b
<1> DEFINE C(k) == Len(g[k]) = upto(k) /\ \A j \in 1..upto(k) : g[k][j] = x(j)
           K == {k \in Nat : k <= n => C(k)}
<1> HIDE DEF n, w, P
<1>4. 0 \in K
  <2>1. g[0] = << >> /\ upto(0) = 0 /\ Len(g[0]) = 0
    BY <1>1, <1>2, EmptySeq DEF Flattening
  <2> HIDE DEF upto, x
  <2>2. Len(g[0]) = upto(0) /\ 1..upto(0) = {}
    BY <2>1
  <2>3. C(0)
    BY <2>2
  <2> HIDE DEF C
  <2> QED
    BY <2>3
<1>5. ASSUME NEW k \in Nat, k \in K PROVE k + 1 \in K
  <2> SUFFICES ASSUME k + 1 <= n PROVE C(k + 1)
    OBVIOUS
  <2>1. /\ C(k) /\ k + 1 \in 1..n /\ (k + 1) - 1 = k
        /\ Len(g[k + 1]) = Len(g[k]) + Len(ss[k + 1])
        /\ \A j \in 1..Len(g[k]) : g[k + 1][j] = g[k][j]
        /\ \A j \in 1..Len(ss[k + 1]) : g[k + 1][Len(g[k]) + j] = ss[k + 1][j]
    <3> HIDE DEF C
    <3>1. k + 1 \in 1..n /\ (k + 1) - 1 = k /\ k <= n
      BY <1>1
    <3>2. C(k)
      BY <1>5, <3>1
    <3> QED
      BY <1>3, <3>1, <3>2
  <2>2. upto(k) \in Nat
    BY <1>1
  <2>3. CASE k + 1 # i
    <3>1. ss[k + 1] = <<line[k + 1]>>
      BY <2>1, <2>3 DEF n
    <3>2. Len(ss[k + 1]) = 1 /\ ss[k + 1][1] = line[k + 1]
      BY <3>1
    <3>3. upto(k + 1) = upto(k) + 1 /\ x(upto(k) + 1) = line[k + 1]
      <4>1. CASE k + 1 < i
        BY <1>1, <4>1
      <4>2. CASE k + 1 > i
        <5>1. upto(k) = k - 1 + w /\ upto(k + 1) = k + w
          BY <1>1, <4>2
        <5>2. ~ (k + w < i) /\ ~ (k + w < i + w) /\ (k + w) - w + 1 = k + 1 /\ k - 1 + w + 1 = k + w
          BY <1>1, <4>2
        <5> QED
          BY <5>1, <5>2
      <4> QED
        BY <1>1, <2>3, <4>1, <4>2
    <3> HIDE DEF upto, x
    <3>4. Len(g[k + 1]) = upto(k + 1) /\ g[k + 1][upto(k) + 1] = line[k + 1]
      BY <2>1, <3>2, <3>3
    <3>5. ASSUME NEW j \in 1..upto(k + 1) PROVE g[k + 1][j] = x(j)
      <4>1. j \in 1..upto(k) \/ j = upto(k) + 1
        BY <2>2, <3>3
      <4> QED
        BY <2>1, <3>3, <3>4, <4>1
    <3> QED
      BY <3>4, <3>5
  <2>4. CASE k + 1 = i
    <3>1. upto(k) = k /\ upto(k + 1) = k + w /\ ss[k + 1] = P
      BY <1>1, <2>4 DEF P
    <3>2. Len(g[k + 1]) = k + w /\ \A j \in 1..w : g[k + 1][k + j] = P[j]
      BY <2>1, <3>1 DEF w
    <3>3. ASSUME NEW j \in 1..(k + w) PROVE g[k + 1][j] = x(j)
      <4>1. CASE j <= k
        <5>1. j \in 1..upto(k)
          BY <3>1, <4>1
        <5> HIDE DEF upto, x
        <5> QED
          BY <2>1, <3>1, <5>1
      <4>2. CASE ~ (j <= k)
        <5>1. j - k \in 1..w /\ k + (j - k) = j /\ j - i + 1 = j - k /\ ~ (j < i) /\ j < i + w
          BY <1>1, <2>4, <4>2
        <5>2. x(j) = P[j - k]
          BY <5>1
        <5> HIDE DEF x
        <5> QED
          BY <3>2, <5>1, <5>2
      <4> QED
        BY <4>1, <4>2
    <3> HIDE DEF upto, x
    <3> QED
      BY <3>1, <3>2, <3>3
  <2> QED
    BY <2>3, <2>4
<1> HIDE DEF K
<1>6. n \in K
  BY <1>1, <1>4, <1>5, EveryNatural
<1>7. C(n) /\ upto(n) = n - 1 + w
  BY <1>1, <1>6 DEF K
<1>8. g[n] \in Seq(S) /\ FlattenSeq(ss) = g[n]
  BY <1>1, <1>2 DEF Flattening
<1>9. g[n] = [j \in 1..(n - 1 + w) |-> x(j)]
  <2>1. DOMAIN g[n] = 1..(n - 1 + w) /\ g[n] = [j \in DOMAIN g[n] |-> g[n][j]]
    BY <1>7, <1>8, LenProperties
  <2> HIDE DEF upto, x
  <2> QED
    BY <1>7, <2>1
<1> QED
  BY <1>8, <1>9 DEF Around, n, w, P

(* What three sequences in a row have where.                               *)
Spliced(S, a, b, c) ==
  /\ a \o b \o c \in Seq(S)
  /\ Len(a \o b \o c) = Len(a) + Len(b) + Len(c)
  /\ \A j \in 1..Len(a) : (a \o b \o c)[j] = a[j]
  /\ \A j \in 1..Len(b) : (a \o b \o c)[Len(a) + j] = b[j]
  /\ \A j \in 1..Len(c) : (a \o b \o c)[Len(a) + Len(b) + j] = c[j]

LEMMA SpliceFacts ==
  ASSUME NEW S, NEW a \in Seq(S), NEW b \in Seq(S), NEW c \in Seq(S)
  PROVE  Spliced(S, a, b, c)
<1> DEFINE f == a \o b
           r == f \o c
<1>1. /\ f \in Seq(S) /\ Len(f) = Len(a) + Len(b) /\ Len(a) \in Nat /\ Len(b) \in Nat
      /\ \A j \in 1..Len(a) : f[j] = a[j]
      /\ \A j \in 1..Len(b) : f[Len(a) + j] = b[j]
  BY ConcatFacts
<1> HIDE DEF f
<1>2. /\ r \in Seq(S) /\ Len(r) = Len(f) + Len(c)
      /\ \A j \in 1..Len(f) : r[j] = f[j]
      /\ \A j \in 1..Len(c) : r[Len(f) + j] = c[j]
  <2>1. f \in Seq(S)
    BY <1>1
  <2> QED
    BY <2>1, ConcatFacts
<1> HIDE DEF r
<1>3. /\ r \in Seq(S) /\ Len(r) = Len(a) + Len(b) + Len(c)
      /\ \A j \in 1..Len(a) : r[j] = a[j]
      /\ \A j \in 1..Len(b) : r[Len(a) + j] = b[j]
      /\ \A j \in 1..Len(c) : r[Len(a) + Len(b) + j] = c[j]
  <2>1. \A j \in 1..Len(a) : j \in 1..Len(f)
    BY <1>1
  <2>2. \A j \in 1..Len(b) : Len(a) + j \in 1..Len(f)
    BY <1>1
  <2> QED
    BY <1>1, <1>2, <2>1, <2>2
<1> QED
  BY <1>3 DEF f, r, Spliced

(* t with w instead of n elements from i on.                               *)
CutOut(t, i, n, w) == SubSeq(t, 1, i - 1) \o w \o SubSeq(t, i + n, Len(t))

(* Cutting out what an item was written as leaves the others.              *)
LEMMA CutAround ==
  ASSUME NEW S, NEW T, NEW line \in Seq(T), NEW i \in 1..Len(line), NEW P \in Seq(S), NEW w \in Seq(S),
         \A j \in 1..Len(line) : j # i => line[j] \in S, NEW t, t = Around(line, i, P)
  PROVE  CutOut(t, i, Len(P), w) = Around(line, i, w)
<1> DEFINE n == Len(line)
           p == Len(P)
           m == Len(w)
           a == SubSeq(t, 1, i - 1)
           c == SubSeq(t, i + p, Len(t))
           y(j) == IF j < i THEN line[j] ELSE IF j < i + p THEN P[j - i + 1] ELSE line[j - p + 1]
           x(j) == IF j < i THEN line[j] ELSE IF j < i + m THEN w[j - i + 1] ELSE line[j - m + 1]
<1>1. n \in Nat /\ p \in Nat /\ m \in Nat /\ i \in 1..n
  BY LenProperties
<1>2. t \in Seq(S) /\ Len(t) = n - 1 + p
  BY AroundType
<1>3. \A j \in 1..(n - 1 + p) : t[j] \in S /\ t[j] = y(j)
  <2>1. \A j \in 1..Len(t) : t[j] \in S
    BY <1>2, ElementOfSeq
  <2>2. t = [j \in 1..(n - 1 + p) |-> y(j)]
    BY DEF Around
  <2> HIDE DEF y, n, p
  <2>3. \A j \in 1..(n - 1 + p) : t[j] = y(j)
    BY <2>2
  <2> QED
    BY <1>2, <2>1, <2>3
<1>4. a \in Seq(S) /\ Len(a) = i - 1 /\ \A j \in 1..(i - 1) : a[j] = line[j]
  <2>1. \A j \in 1..(i - 1) : j \in 1..(n - 1 + p) /\ y(j) = line[j]
    BY <1>1
  <2> HIDE DEF y, n, p
  <2>2. \A j \in 1..(i - 1) : t[j] \in S /\ t[j] = line[j]
    BY <1>3, <2>1
  <2>3. 1 \in Int /\ i - 1 \in Int
    BY <1>1
  <2>4. /\ SubSeq(t, 1, i - 1) \in Seq(S)
        /\ Len(SubSeq(t, 1, i - 1)) = IF 1 <= i - 1 THEN (i - 1) - 1 + 1 ELSE 0
        /\ \A j \in 1..((i - 1) - 1 + 1) : SubSeq(t, 1, i - 1)[j] = t[1 + j - 1]
    BY <2>2, <2>3, SubSeqProperties
  <2>5. \A j \in 1..(i - 1) : j \in 1..((i - 1) - 1 + 1) /\ 1 + j - 1 = j
    BY <1>1
  <2>6. (IF 1 <= i - 1 THEN (i - 1) - 1 + 1 ELSE 0) = i - 1
    BY <1>1
  <2> HIDE DEF a
  <2>7. /\ a \in Seq(S) /\ Len(a) = i - 1
        /\ \A j \in 1..((i - 1) - 1 + 1) : a[j] = t[1 + j - 1]
    BY <2>4, <2>6 DEF a
  <2> QED
    BY <2>2, <2>5, <2>7
<1>5. c \in Seq(S) /\ Len(c) = n - i /\ \A j \in 1..(n - i) : c[j] = line[i + j]
  <2> DEFINE l == i + p
             h == n - 1 + p
  <2>1. l \in Int /\ h \in Int /\ \A j \in l..h : j \in 1..(n - 1 + p)
    BY <1>1
  <2>2. \A j \in l..h : t[j] \in S
    BY <1>3, <2>1
  <2> HIDE DEF l, h, y, n
  <2>3. /\ SubSeq(t, l, h) \in Seq(S)
        /\ Len(SubSeq(t, l, h)) = IF l <= h THEN h - l + 1 ELSE 0
        /\ \A j \in 1..(h - l + 1) : SubSeq(t, l, h)[j] = t[l + j - 1]
    BY <2>1, <2>2, SubSeqProperties
  <2>4. c = SubSeq(t, l, h)
    BY <1>2 DEF l, h
  <2> HIDE DEF c, p
  <2>5. (IF l <= h THEN h - l + 1 ELSE 0) = n - i /\ h - l + 1 = n - i
    BY <1>1 DEF l, h
  <2>6. \A j \in 1..(n - i) : l + j - 1 \in 1..(n - 1 + p) /\ y(l + j - 1) = line[i + j]
    <3> SUFFICES ASSUME NEW j \in 1..(n - i)
                 PROVE  l + j - 1 \in 1..(n - 1 + p) /\ y(l + j - 1) = line[i + j]
      OBVIOUS
    <3>1. /\ l + j - 1 \in 1..(n - 1 + p) /\ ~ (l + j - 1 < i) /\ ~ (l + j - 1 < i + p)
          /\ (l + j - 1) - p + 1 = i + j
      BY <1>1 DEF l
    <3> QED
      BY <3>1 DEF y
  <2>7. \A j \in 1..(n - i) : t[l + j - 1] = line[i + j]
    BY <1>3, <2>6
  <2> QED
    BY <2>3, <2>4, <2>5, <2>7
<1> HIDE DEF a, c, y
<1> DEFINE r == a \o w \o c
<1>6. a \in Seq(S) /\ w \in Seq(S) /\ c \in Seq(S)
  BY <1>4, <1>5
<1>7. /\ r \in Seq(S) /\ Len(r) = n - 1 + m
      /\ \A j \in 1..(i - 1) : r[j] = line[j]
      /\ \A j \in 1..m : r[i - 1 + j] = w[j]
      /\ \A j \in 1..(n - i) : r[i - 1 + m + j] = line[i + j]
  <2>1. /\ r \in Seq(S) /\ Len(r) = Len(a) + Len(w) + Len(c)
        /\ \A j \in 1..Len(a) : r[j] = a[j]
        /\ \A j \in 1..Len(w) : r[Len(a) + j] = w[j]
        /\ \A j \in 1..Len(c) : r[Len(a) + Len(w) + j] = c[j]
    <3>1. Spliced(S, a, w, c)
      <4> HIDE DEF r
      <4> QED
        BY <1>6, SpliceFacts
    <3> QED
      BY <3>1 DEF Spliced
  <2>2. (i - 1) + m + (n - i) = n - 1 + m
    BY <1>1
  <2> HIDE DEF n, m, r
  <2> QED
    BY <1>4, <1>5, <2>1, <2>2 DEF m
<1>8. ASSUME NEW j \in 1..(n - 1 + m) PROVE r[j] = x(j)
  <2>1. CASE j < i
    <3>1. j \in 1..(i - 1)
      BY <1>1, <2>1
    <3> HIDE DEF n, m, r
    <3> QED
      BY <1>7, <2>1, <3>1
  <2>2. CASE ~ (j < i) /\ j < i + m
    <3>1. j - i + 1 \in 1..m /\ i - 1 + (j - i + 1) = j
      BY <1>1, <2>2
    <3> HIDE DEF n, m, r
    <3>2. r[i - 1 + (j - i + 1)] = w[j - i + 1]
      BY <1>7, <3>1
    <3> QED
      BY <2>2, <3>1, <3>2
  <2>3. CASE ~ (j < i) /\ ~ (j < i + m)
    <3> DEFINE q == j - (i - 1 + m)
    <3>1. q \in 1..(n - i) /\ i - 1 + m + q = j /\ i + q = j - m + 1
      BY <1>1, <2>3
    <3> HIDE DEF n, m, r, q
    <3>2. r[i - 1 + m + q] = line[i + q]
      BY <1>7, <3>1
    <3> QED
      BY <2>3, <3>1, <3>2
  <2> QED
    BY <2>1, <2>2, <2>3
<1>9. r = [j \in 1..(n - 1 + m) |-> x(j)]
  <2>1. DOMAIN r = 1..(n - 1 + m) /\ r = [j \in DOMAIN r |-> r[j]]
    BY <1>7, LenProperties
  <2> HIDE DEF r, n, m, x
  <2> QED
    BY <1>8, <2>1
<1> QED
  BY <1>9 DEF Around, CutOut, a, c

-----------------------------------------------------------------------------
(* Items of a line, and what texts consist of.                             *)
Item == Key \cup Symbol
Char == Symbol \cup (Key \X Nat)

(* A line has one key at most.                                             *)
OneKey(line) ==
  \A i, j \in 1..Len(line) : line[i] \in Key /\ line[j] \in Key => i = j

LEMMA OneKeyLines ==
  ASSUME loaded \in Seq(Seq(Item)), OnePerLine, NEW l \in 1..Len(loaded)
  PROVE  loaded[l] \in Seq(Item) /\ OneKey(loaded[l])
<1> DEFINE line == loaded[l]
           K == {i \in DOMAIN line : line[i] \in Key}
<1>1. line \in Seq(Item) /\ DOMAIN line = 1..Len(line) /\ Len(line) \in Nat /\ l \in DOMAIN loaded
  BY ElementOfSeq, LenProperties
<1>2. Cardinality(K) <= 1
  BY <1>1 DEF OnePerLine
<1>3. IsFiniteSet(K) /\ Cardinality(K) \in Nat
  <2>1. IsFiniteSet(1..Len(line)) /\ K \subseteq 1..Len(line)
    BY <1>1, FS_Interval
  <2> HIDE DEF K
  <2> QED
    BY <2>1, FS_Subset, FS_CardinalityType
<1>4. ASSUME NEW i \in 1..Len(line), NEW j \in 1..Len(line), line[i] \in Key, line[j] \in Key, i # j
      PROVE  FALSE
  <2>1. i \in K /\ j \in K
    BY <1>1, <1>4
  <2>2. IsFiniteSet({i}) /\ Cardinality({i}) = 1 /\ j \notin {i}
    BY <1>4, FS_Singleton
  <2> DEFINE two == {i} \cup {j}
  <2>3. Cardinality(two) = 2 /\ two \subseteq K
    <3>1. Cardinality({i} \cup {j}) = Cardinality({i}) + 1
      BY <2>2, FS_AddElement
    <3>2. two \subseteq K
      BY <2>1
    <3>3. Cardinality(two) = 2
      <4> DEFINE c == Cardinality({i})
                 d == Cardinality(two)
      <4>1. c = 1 /\ d = c + 1
        BY <2>2, <3>1
      <4> HIDE DEF c, d
      <4>2. d = 2
        BY <4>1
      <4> QED
        BY <4>2 DEF d
    <3> QED
      BY <3>2, <3>3
  <2> HIDE DEF K
  <2> HIDE DEF two
  <2>4. Cardinality(two) <= Cardinality(K)
    BY <1>3, <2>3, FS_Subset
  <2> QED
    BY <1>2, <1>3, <2>3, <2>4
<1> QED
  BY <1>1, <1>4 DEF OneKey

LEMMA PlaceholderFacts ==
  ASSUME NEW k \in Key
  PROVE  /\ Placeholder(k) \in Seq(Char) /\ Len(Placeholder(k)) = Width(k)
         /\ Width(k) \in Nat /\ Width(k) > 1
         /\ \A i \in 1..Width(k) : Placeholder(k)[i] = <<k, i>>
<1>1. Width(k) \in Nat /\ Width(k) > 1
  BY TemplatesAssumption DEF Width
<1>2. \A i \in 1..Width(k) : <<k, i>> \in Char
  BY <1>1 DEF Char
<1> QED
  BY <1>1, <1>2 DEF Placeholder

(* A line with what f says for keys.                                       *)
Out(line, f) ==
  FlattenSeq([i \in DOMAIN line |-> IF line[i] \in Key THEN f[line[i]] ELSE <<line[i]>>])

LEMMA OutFacts ==
  ASSUME NEW line \in Seq(Item), OneKey(line), NEW f \in [Key -> Seq(Char)]
  PROVE  /\ \A i \in 1..Len(line) : line[i] \in Key => Out(line, f) = Around(line, i, f[line[i]])
         /\ (\A i \in 1..Len(line) : line[i] \notin Key) => Out(line, f) = line
<1> DEFINE n == Len(line)
           ss == [i \in DOMAIN line |-> IF line[i] \in Key THEN f[line[i]] ELSE <<line[i]>>]
<1>1. n \in Nat /\ DOMAIN line = 1..n /\ \A i \in 1..n : line[i] \in Item
  BY LenProperties, ElementOfSeq
<1>2. \A i \in 1..n : line[i] \notin Key => line[i] \in Char /\ <<line[i]>> \in Seq(Char)
  BY <1>1 DEF Item, Char
<1>3. ss \in Seq(Seq(Char)) /\ Len(ss) = n
  <2>1. \A i \in 1..n : (IF line[i] \in Key THEN f[line[i]] ELSE <<line[i]>>) \in Seq(Char)
    BY <1>1, <1>2
  <2>2. ss = [i \in 1..n |-> IF line[i] \in Key THEN f[line[i]] ELSE <<line[i]>>]
    BY <1>1
  <2> HIDE DEF n, ss
  <2> QED
    BY <1>1, <2>1, <2>2
<1>4. \A i \in 1..n : ss[i] = IF line[i] \in Key THEN f[line[i]] ELSE <<line[i]>>
  BY <1>1
<1>5. Out(line, f) = FlattenSeq(ss)
  BY DEF Out
<1> HIDE DEF ss
<1>6. ASSUME NEW i \in 1..n, line[i] \in Key PROVE Out(line, f) = Around(line, i, f[line[i]])
  <2>1. \A j \in 1..n : j # i => ss[j] = <<line[j]>> /\ line[j] \in Char
    BY <1>2, <1>4, <1>6 DEF OneKey
  <2>2. FlattenSeq(ss) = Around(line, i, ss[i])
    BY <1>3, <2>1, FlattenAround
  <2> QED
    BY <1>4, <1>5, <1>6, <2>2
<1>7. ASSUME \A i \in 1..n : line[i] \notin Key PROVE Out(line, f) = line
  <2>1. CASE n = 0
    <3>1. line = << >> /\ ss = << >>
      BY <1>3, <2>1, EmptySeq
    <3> QED
      BY <1>5, <3>1, EmptySeq DEF FlattenSeq
  <2>2. CASE n # 0
    <3>1. 1 \in 1..n
      BY <1>1, <2>2
    <3>2. \A j \in 1..n : ss[j] = <<line[j]>> /\ line[j] \in Char
      BY <1>2, <1>4, <1>7
    <3>3. FlattenSeq(ss) = Around(line, 1, ss[1]) /\ ss[1] = <<line[1]>>
      <4>1. \A i \in 1..n : FlattenSeq(ss) = Around(line, i, ss[i])
        BY <1>3, <3>2, FlattenAround
      <4> QED
        BY <3>1, <3>2, <4>1
    <3>4. Around(line, 1, <<line[1]>>) = line
      <4> DEFINE P == <<line[1]>>
      <4>1. Len(P) = 1 /\ P[1] = line[1] /\ n - 1 + 1 = n
        BY <1>1
      <4> HIDE DEF P
      <4>2. \A j \in 1..n : (IF j < 1 THEN line[j] ELSE IF j < 1 + 1 THEN P[j - 1 + 1] ELSE line[j - 1 + 1]) = line[j]
        <5> SUFFICES ASSUME NEW j \in 1..n
                     PROVE (IF j < 1 THEN line[j] ELSE IF j < 1 + 1 THEN P[j - 1 + 1] ELSE line[j - 1 + 1]) = line[j]
          OBVIOUS
        <5>1. ~ (j < 1) /\ j - 1 + 1 = j /\ (j < 1 + 1 => j = 1)
          BY <1>1
        <5> QED
          BY <4>1, <5>1
      <4>3. line = [j \in 1..n |-> line[j]]
        BY <1>1, LenProperties
      <4>4. Around(line, 1, P) = [j \in 1..n |-> IF j < 1 THEN line[j] ELSE IF j < 1 + 1 THEN P[j - 1 + 1] ELSE line[j - 1 + 1]]
        BY <4>1 DEF Around
      <4> QED
        BY <4>2, <4>3, <4>4 DEF P
    <3> QED
      BY <1>5, <3>3, <3>4
  <2> QED
    BY <2>1, <2>2
<1> QED
  BY <1>6, <1>7

(* Keys that are not replaced are written as their placeholders.           *)
Unreplaced == [k \in Key |-> Placeholder(k)]

LEMMA SpellFacts ==
  ASSUME NEW line \in Seq(Item), OneKey(line)
  PROVE  /\ Spell(line) = Out(line, Unreplaced) /\ Unreplaced \in [Key -> Seq(Char)]
         /\ \A i \in 1..Len(line) : line[i] \in Key => Spell(line) = Around(line, i, Placeholder(line[i]))
         /\ (\A i \in 1..Len(line) : line[i] \notin Key) => Spell(line) = line
         /\ \A i \in 1..Len(line) : line[i] \notin Key => line[i] \in Symbol
<1>1. Unreplaced \in [Key -> Seq(Char)]
  BY PlaceholderFacts DEF Unreplaced
<1>2. Spell(line) = Out(line, Unreplaced)
  BY DEF Spell, Out, Unreplaced
<1>3. \A k \in Key : Unreplaced[k] = Placeholder(k)
  BY DEF Unreplaced
<1>4. \A i \in 1..Len(line) : line[i] \in Item
  BY ElementOfSeq
<1>5. \A i \in 1..Len(line) : line[i] \notin Key => line[i] \in Symbol
  BY <1>4 DEF Item
<1> QED
  BY <1>1, <1>2, <1>3, <1>5, OutFacts

(* A placeholder stands in the spelling of a line where its key is.        *)
LEMMA StandsFacts ==
  ASSUME NEW line \in Seq(Item), OneKey(line), NEW text, NEW l, text[l] = Spell(line),
         NEW k \in Key, NEW s \in 1..Len(text[l])
  PROVE  StandsAt(text, k, l, s) <=> s \in 1..Len(line) /\ line[s] = k
<1> DEFINE n == Len(line)
           t == Spell(line)
<1>1. n \in Nat
  BY LenProperties
<1>2. Width(k) \in Nat /\ Width(k) > 1 /\ \A i \in 1..Width(k) : Placeholder(k)[i] = <<k, i>>
  BY PlaceholderFacts
<1>3. StandsAt(text, k, l, s) <=> /\ s + Width(k) - 1 <= Len(t)
                                  /\ \A i \in 1..Width(k) : t[s + i - 1] = Placeholder(k)[i]
  BY DEF StandsAt
<1>4. s \in Nat /\ s + 1 - 1 = s /\ 1 \in 1..Width(k) /\ s \in 1..Len(t)
  BY <1>2
<1>5. StandsAt(text, k, l, s) => t[s] = <<k, 1>>
  BY <1>2, <1>3, <1>4
<1>6. \A i \in 1..n : line[i] \notin Key => line[i] \in Symbol /\ line[i] # <<k, 1>>
  <2>1. \A i \in 1..n : line[i] \notin Key => line[i] \in Symbol
    BY SpellFacts
  <2>2. <<k, 1>> \notin Symbol
    BY TemplatesAssumption
  <2> QED
    BY <2>1, <2>2
<1>7. CASE \A i \in 1..n : line[i] \notin Key
  <2>1. t = line
    BY <1>7, SpellFacts
  <2> HIDE DEF t
  <2>2. s \in 1..n /\ line[s] # k /\ t[s] # <<k, 1>>
    BY <1>4, <1>6, <1>7, <2>1
  <2> QED
    BY <1>5, <2>2
<1>8. ASSUME NEW i \in 1..n, line[i] \in Key PROVE StandsAt(text, k, l, s) <=> s \in 1..n /\ line[s] = k
  <2> DEFINE h == line[i]
             P == Placeholder(h)
             w == Len(P)
             y(j) == IF j < i THEN line[j] ELSE IF j < i + w THEN P[j - i + 1] ELSE line[j - w + 1]
  <2>1. w \in Nat /\ w > 1 /\ w = Width(h) /\ \A j \in 1..w : P[j] = <<h, j>>
    BY <1>8, PlaceholderFacts
  <2>2. t = Around(line, i, P)
    BY <1>8, SpellFacts
  <2>3. t = [j \in 1..(n - 1 + w) |-> y(j)]
    BY <2>2 DEF Around
  <2>4. n - 1 + w \in Nat
    BY <1>1, <2>1
  <2>5. Len(t) = n - 1 + w /\ \A j \in 1..(n - 1 + w) : t[j] = y(j)
    <3> DEFINE m == n - 1 + w
    <3>1. m \in Nat /\ t = [j \in 1..m |-> y(j)]
      BY <2>3, <2>4
    <3> HIDE DEF m, t, y
    <3>2. Len(t) = m /\ \A j \in 1..m : t[j] = y(j)
      BY <3>1
    <3> QED
      BY <3>2 DEF m
  <2>6. \A j \in 1..n : j # i => line[j] \notin Key
    BY <1>8 DEF OneKey
  <2> HIDE DEF t, h, P, w
  <2>7. ASSUME StandsAt(text, k, l, s) PROVE s = i /\ h = k
    <3>1. y(s) = <<k, 1>>
      BY <1>4, <1>5, <2>5, <2>7
    <3>2. CASE s < i
      <4>1. s \in 1..n /\ s # i /\ y(s) = line[s]
        BY <1>1, <1>4, <3>2
      <4> QED
        BY <1>6, <2>6, <3>1, <4>1
    <3>3. CASE ~ (s < i) /\ s < i + w
      <4>1. s - i + 1 \in 1..w /\ y(s) = P[s - i + 1]
        BY <1>1, <1>4, <2>1, <3>3
      <4>2. <<h, s - i + 1>> = <<k, 1>>
        BY <2>1, <3>1, <4>1
      <4>3. h = k /\ s - i + 1 = 1
        BY <4>2
      <4> QED
        BY <1>4, <4>3
    <3>4. CASE ~ (s < i) /\ ~ (s < i + w)
      <4>1. s - w + 1 \in 1..n /\ s - w + 1 # i /\ y(s) = line[s - w + 1]
        BY <1>1, <1>4, <2>1, <2>5, <3>4
      <4> QED
        BY <1>6, <2>6, <3>1, <4>1
    <3> QED
      BY <3>2, <3>3, <3>4
  <2>8. ASSUME s \in 1..n, line[s] = k PROVE s = i /\ h = k
    BY <2>6, <2>8 DEF h
  <2>9. ASSUME s = i, h = k PROVE StandsAt(text, k, l, s)
    <3>1. s + Width(k) - 1 <= Len(t)
      BY <1>1, <2>1, <2>5, <2>9
    <3>2. ASSUME NEW j \in 1..Width(k) PROVE t[s + j - 1] = Placeholder(k)[j]
      <4>1. j \in 1..w /\ s + j - 1 \in 1..(n - 1 + w)
        BY <1>1, <2>1, <2>9
      <4>2. ~ (s + j - 1 < i) /\ s + j - 1 < i + w /\ (s + j - 1) - i + 1 = j
        BY <1>1, <2>1, <2>9, <4>1
      <4>3. t[s + j - 1] = y(s + j - 1)
        BY <2>5, <4>1
      <4>4. y(s + j - 1) = P[j]
        BY <4>2
      <4> HIDE DEF y
      <4> QED
        BY <2>9, <4>3, <4>4 DEF P
    <3> QED
      BY <1>3, <3>1, <3>2
  <2> QED
    BY <1>8, <2>7, <2>8, <2>9 DEF h
<1> QED
  BY <1>7, <1>8

-----------------------------------------------------------------------------
(* Where a text has keys.                                                  *)
Place == Nat \X Nat

(* PlacesOn finds the one place of a key on a line, if it is there.        *)
LEMMA PlacesOnFacts ==
  ASSUME NEW line \in Seq(Item), OneKey(line), NEW text, NEW l \in Nat, text[l] = Spell(line),
         NEW k \in Key
  PROVE  /\ \A i \in 1..Len(line) : line[i] = k => PlacesOn(text, k, l) = << <<l, i>> >>
         /\ (\A i \in 1..Len(line) : line[i] # k) => PlacesOn(text, k, l) = << >>
<1> DEFINE t == Spell(line)
           m == Len(t)
           n == Len(line)
           found == PlacesOn(text, k, l)
           Q == Seq(Place)
           F == [s \in 1..m |-> [q \in Q |-> IF StandsAt(text, k, l, s) THEN Append(q, <<l, s>>) ELSE q]]
           Is(f) == f = [s \in 0..m |-> IF s = 0 THEN << >>
                          ELSE IF StandsAt(text, k, l, s) THEN Append(f[s - 1], <<l, s>>) ELSE f[s - 1]]
           b == CHOOSE f : Is(f)
<1>1. t \in Seq(Char) /\ m \in Nat /\ n \in Nat /\ n <= m
  <2>1. \A i \in 1..n : line[i] \notin Key => line[i] \in Char
    BY SpellFacts DEF Char
  <2>2. n \in Nat /\ line = [i \in 1..n |-> line[i]]
    BY LenProperties
  <2>3. CASE \A i \in 1..n : line[i] \notin Key
    <3>1. t = line
      BY <2>3, SpellFacts
    <3>2. line \in Seq(Char)
      <4>1. \A i \in 1..n : line[i] \in Char
        BY <2>1, <2>3
      <4> HIDE DEF n
      <4>2. [i \in 1..n |-> line[i]] \in Seq(Char)
        BY <2>2, <4>1
      <4> QED
        BY <2>2, <4>2
    <3> QED
      BY <2>2, <3>1, <3>2
  <2>4. ASSUME NEW i \in 1..n, line[i] \in Key PROVE t \in Seq(Char) /\ m \in Nat /\ n <= m
    <3> DEFINE P == Placeholder(line[i])
    <3>1. P \in Seq(Char) /\ Len(P) \in Nat /\ Len(P) > 1
      BY <2>4, PlaceholderFacts
    <3>2. t = Around(line, i, P)
      BY <2>4, SpellFacts
    <3>3. \A j \in 1..n : j # i => line[j] \in Char
      BY <2>1, <2>4 DEF OneKey
    <3> HIDE DEF P, t
    <3>4. t \in Seq(Char) /\ m = n - 1 + Len(P)
      BY <3>1, <3>2, <3>3, AroundType
    <3> QED
      BY <2>2, <3>1, <3>4
  <2> QED
    BY <2>2, <2>3, <2>4
<1>2. << >> \in Q
  BY EmptySeq
<1>3. F \in [1..m -> [Q -> Q]]
  <2>1. ASSUME NEW s \in 1..m, NEW q \in Q
        PROVE  (IF StandsAt(text, k, l, s) THEN Append(q, <<l, s>>) ELSE q) \in Q
    <3>1. <<l, s>> \in Place
      BY <1>1 DEF Place
    <3>2. Append(q, <<l, s>>) \in Q
      BY <3>1, AppendFacts
    <3> QED
      BY <3>2
  <2> QED
    BY <2>1
<1>4. \E f : Is(f)
  <2>1. PICK f \in [0..m -> Q] : Iterated(f, m, << >>, F)
    <3> HIDE DEF F, Q, m
    <3> QED
      BY <1>1, <1>2, <1>3, Iterates
  <2>2. ASSUME NEW s \in 0..m, s # 0
        PROVE  F[s][f[s - 1]] = IF StandsAt(text, k, l, s) THEN Append(f[s - 1], <<l, s>>) ELSE f[s - 1]
    <3>1. s \in 1..m /\ s - 1 \in 0..m
      BY <1>1, <2>2
    <3>2. f[s - 1] \in Q
      BY <2>1, <3>1
    <3> HIDE DEF Q, m
    <3> QED
      BY <3>1, <3>2
  <2>3. Is(f)
    <3> HIDE DEF F, Q, m
    <3> QED
      BY <2>1, <2>2 DEF Iterated
  <2> QED
    BY <2>3
<1>5. Is(b)
  <2> HIDE DEF Is
  <2> QED
    BY <1>4
<1>6. found = b[m]
  BY DEF PlacesOn
<1>7. /\ b[0] = << >>
      /\ \A s \in 1..m : b[s] = IF StandsAt(text, k, l, s) THEN Append(b[s - 1], <<l, s>>) ELSE b[s - 1]
  <2> HIDE DEF b, m
  <2>1. \A s \in 0..m : b[s] = IF s = 0 THEN << >>
                          ELSE IF StandsAt(text, k, l, s) THEN Append(b[s - 1], <<l, s>>) ELSE b[s - 1]
    BY <1>5
  <2>2. m \in Nat
    BY <1>1
  <2>3. 0 \in 0..m /\ \A s \in 1..m : s \in 0..m /\ s # 0
    BY <2>2
  <2> QED
    BY <2>1, <2>3
<1>8. \A s \in 1..m : StandsAt(text, k, l, s) <=> s \in 1..n /\ line[s] = k
  BY StandsFacts
<1> HIDE DEF b, F, found, m, n, t, Is, Q
<1>9. ASSUME NEW i \in 1..n, line[i] = k PROVE found = << <<l, i>> >>
  <2> DEFINE K == {s \in Nat : s <= m => b[s] = IF s < i THEN << >> ELSE << <<l, i>> >>}
  <2>1. 0 \in K
    BY <1>7
  <2>2. ASSUME NEW s \in Nat, s \in K PROVE s + 1 \in K
    <3> SUFFICES ASSUME s + 1 <= m PROVE b[s + 1] = IF s + 1 < i THEN << >> ELSE << <<l, i>> >>
      OBVIOUS
    <3>1. s + 1 \in 1..m /\ (s + 1) - 1 = s /\ s <= m
      BY <1>1
    <3>2. StandsAt(text, k, l, s + 1) <=> s + 1 = i
      BY <1>8, <1>9, <3>1 DEF OneKey, n
    <3>3. b[s + 1] = IF s + 1 = i THEN Append(b[s], <<l, s + 1>>) ELSE b[s]
      BY <1>7, <3>1, <3>2
    <3>4. b[s] = IF s < i THEN << >> ELSE << <<l, i>> >>
      BY <2>2, <3>1
    <3>5. CASE s + 1 = i
      <4>1. b[s] = << >> /\ b[s + 1] = Append(b[s], <<l, i>>)
        BY <3>3, <3>4, <3>5
      <4>2. ~ (s + 1 < i)
        BY <3>5
      <4> QED
        BY <4>1, <4>2
    <3>6. CASE s + 1 # i
      <4>1. s < i <=> s + 1 < i
        BY <3>6
      <4> QED
        BY <3>3, <3>4, <3>6, <4>1
    <3> QED
      BY <3>5, <3>6
  <2> HIDE DEF K
  <2>3. m \in K
    BY <1>1, <2>1, <2>2, EveryNatural
  <2>4. ~ (m < i)
    BY <1>1
  <2> QED
    BY <1>1, <1>6, <2>3, <2>4 DEF K
<1>10. ASSUME \A i \in 1..n : line[i] # k PROVE found = << >>
  <2> DEFINE K == {s \in Nat : s <= m => b[s] = << >>}
  <2>1. 0 \in K
    BY <1>7
  <2>2. ASSUME NEW s \in Nat, s \in K PROVE s + 1 \in K
    <3> SUFFICES ASSUME s + 1 <= m PROVE b[s + 1] = << >>
      OBVIOUS
    <3>1. s + 1 \in 1..m /\ (s + 1) - 1 = s /\ s <= m
      BY <1>1
    <3>2. ~ StandsAt(text, k, l, s + 1)
      BY <1>8, <1>10, <3>1
    <3> QED
      BY <1>7, <2>2, <3>1, <3>2
  <2> HIDE DEF K
  <2>3. m \in K
    BY <1>1, <2>1, <2>2, EveryNatural
  <2> QED
    BY <1>1, <1>6, <2>3 DEF K
<1> QED
  BY <1>9, <1>10 DEF found, n

(* A text with one key at most on a line, and how it is read.              *)
Simple(text) == text \in Seq(Seq(Item)) /\ \A l \in 1..Len(text) : OneKey(text[l])
Spelled(text) == [l \in DOMAIN text |-> Spell(text[l])]

(* q lists where a text has the key k, every line once at most.            *)
Located(q, text, k) ==
  /\ q \in Seq(Place)
  /\ \A j \in 1..Len(q) : /\ q[j][1] \in 1..Len(text)
                          /\ q[j][2] \in 1..Len(text[q[j][1]])
                          /\ text[q[j][1]][q[j][2]] = k
  /\ \A l \in 1..Len(text) : \A i \in 1..Len(text[l]) :
       text[l][i] = k => \E j \in 1..Len(q) : q[j] = <<l, i>>
  /\ \A j1, j2 \in 1..Len(q) : q[j1][1] = q[j2][1] => j1 = j2

(* What Analyze finds on a line.                                           *)
LEMMA OnLineFacts ==
  ASSUME NEW text, Simple(text), NEW k \in Key, NEW l \in 1..Len(text),
         NEW q, q = PlacesOn(Spelled(text), k, l)
  PROVE  /\ q \in Seq(Place) /\ Len(q) <= 1
         /\ \A p \in Listed(q) : /\ p \in Place /\ p[1] = l /\ p[2] \in 1..Len(text[l])
                                 /\ text[l][p[2]] = k
         /\ \A i \in 1..Len(text[l]) : text[l][i] = k => <<l, i>> \in Listed(q)
<1> DEFINE line == text[l]
<1>1. line \in Seq(Item) /\ OneKey(line) /\ l \in Nat /\ DOMAIN text = 1..Len(text)
  BY ElementOfSeq, LenProperties DEF Simple
<1>2. Spelled(text)[l] = Spell(line)
  BY <1>1 DEF Spelled
<1> HIDE DEF line
<1>3. /\ \A i \in 1..Len(line) : line[i] = k => q = << <<l, i>> >>
      /\ (\A i \in 1..Len(line) : line[i] # k) => q = << >>
  BY <1>1, <1>2, PlacesOnFacts
<1>4. CASE \A i \in 1..Len(line) : line[i] # k
  <2>1. q = << >> /\ q \in Seq(Place) /\ Len(q) = 0
    BY <1>3, <1>4, EmptySeq
  <2>2. Listed(q) = {}
    BY <2>1 DEF Listed
  <2> QED
    BY <1>4, <2>1, <2>2 DEF line
<1>5. ASSUME NEW i \in 1..Len(line), line[i] = k
      PROVE  /\ q \in Seq(Place) /\ Len(q) <= 1
             /\ \A p \in Listed(q) : p \in Place /\ p[1] = l /\ p[2] \in 1..Len(line) /\ line[p[2]] = k
             /\ \A j \in 1..Len(line) : line[j] = k => <<l, j>> \in Listed(q)
  <2> DEFINE x == <<l, i>>
  <2>1. q = <<x>> /\ x \in Place
    BY <1>1, <1>3, <1>5, LenProperties DEF Place
  <2>2. x[1] = l /\ x[2] = i
    OBVIOUS
  <2>3. \A j \in 1..Len(line) : line[j] = k => <<l, j>> = x
    BY <1>1, <1>5 DEF OneKey
  <2> HIDE DEF x
  <2>4. q \in Seq(Place) /\ Len(q) = 1 /\ q[1] = x
    BY <2>1
  <2>5. Listed(q) = {x}
    BY <2>4 DEF Listed
  <2> QED
    BY <1>5, <2>1, <2>2, <2>3, <2>4, <2>5
<1> QED
  BY <1>4, <1>5 DEF line

LEMMA PlacesFacts ==
  ASSUME NEW text, Simple(text), NEW k \in Key
  PROVE  Located(Analyze(Spelled(text))[k], text, k)
<1> DEFINE n == Len(text)
           ss == [l \in DOMAIN Spelled(text) |-> PlacesOn(Spelled(text), k, l)]
           P(l, p) == /\ p \in Place /\ p[1] = l /\ p[2] \in 1..Len(text[l])
                      /\ text[l][p[2]] = k
<1>1. text \in Seq(Seq(Item)) /\ n \in Nat /\ DOMAIN text = 1..n
  BY LenProperties DEF Simple
<1>2. DOMAIN Spelled(text) = 1..n
  BY <1>1 DEF Spelled
<1>3. \A l \in 1..n : /\ ss[l] \in Seq(Place) /\ Len(ss[l]) <= 1
                      /\ \A p \in Listed(ss[l]) : P(l, p)
                      /\ \A i \in 1..Len(text[l]) : text[l][i] = k => <<l, i>> \in Listed(ss[l])
  <2> SUFFICES ASSUME NEW l \in 1..n
               PROVE  /\ ss[l] \in Seq(Place) /\ Len(ss[l]) <= 1
                      /\ \A p \in Listed(ss[l]) : P(l, p)
                      /\ \A i \in 1..Len(text[l]) : text[l][i] = k => <<l, i>> \in Listed(ss[l])
    OBVIOUS
  <2>1. ss[l] = PlacesOn(Spelled(text), k, l)
    BY <1>2
  <2> HIDE DEF ss
  <2> QED
    BY <2>1, OnLineFacts
<1>4. ss \in Seq(Seq(Place)) /\ Len(ss) = n
  <2>1. ss = [l \in 1..n |-> ss[l]]
    BY <1>2
  <2> HIDE DEF ss, n
  <2>2. \A l \in 1..n : ss[l] \in Seq(Place)
    BY <1>3
  <2>3. [l \in 1..n |-> ss[l]] \in Seq(Seq(Place)) /\ Len([l \in 1..n |-> ss[l]]) = n
    BY <1>1, <2>2
  <2> QED
    BY <2>1, <2>3
<1>5. Analyze(Spelled(text))[k] = FlattenSeq(ss)
  BY DEF Analyze
<1> HIDE DEF ss
<1>6. PICK g : Flattening(g, Place, ss, n)
  BY <1>4, FlattenSteps
<1> HIDE DEF n, P
<1>7. \A j \in 0..n : g[j] \in Seq(Place) /\ \A p \in Listed(g[j]) : \E l \in 1..j : l \in 1..n /\ p \in Listed(ss[l])
  BY <1>1, <1>6 DEF Flattening, AllListed
<1> DEFINE Once(q) == \A j1, j2 \in 1..Len(q) : q[j1][1] = q[j2][1] => j1 = j2
           K == {j \in Nat : j <= n => Once(g[j])}
<1>8. 0 \in K
  <2>1. g[0] = << >> /\ Len(g[0]) = 0
    BY <1>6, EmptySeq DEF Flattening
  <2>2. 1..Len(g[0]) = {}
    BY <2>1
  <2> QED
    BY <2>2
<1>9. ASSUME NEW j \in Nat, j \in K PROVE j + 1 \in K
  <2> SUFFICES ASSUME j + 1 <= n PROVE Once(g[j + 1])
    OBVIOUS
  <2>1. j + 1 \in 1..n /\ (j + 1) - 1 = j /\ j <= n /\ j \in 0..n
    BY <1>1
  <2> DEFINE a == g[j]
             b == ss[j + 1]
             c == a \o b
  <2>2. g[j + 1] = c /\ a \in Seq(Place) /\ b \in Seq(Place) /\ Once(a) /\ Len(b) <= 1
    BY <1>3, <1>6, <1>7, <1>9, <2>1 DEF Flattening
  <2>3. \A p \in Listed(a) : \E l \in 1..j : p[1] = l
    <3> SUFFICES ASSUME NEW p \in Listed(a) PROVE \E l \in 1..j : p[1] = l
      OBVIOUS
    <3>1. PICK l \in 1..j : l \in 1..n /\ p \in Listed(ss[l])
      BY <1>7, <2>1
    <3>2. P(l, p)
      BY <1>3, <3>1
    <3> QED
      BY <3>2 DEF P
  <2>4. \A p \in Listed(b) : p[1] = j + 1
    BY <1>3, <2>1 DEF P
  <2> HIDE DEF a, b, c
  <2>5. /\ Len(c) = Len(a) + Len(b) /\ Len(a) \in Nat /\ Len(b) \in Nat
        /\ \A i \in 1..Len(a) : c[i] = a[i]
        /\ \A i \in 1..Len(b) : c[Len(a) + i] = b[i]
    BY <2>2, ConcatFacts DEF c
  <2>6. \A i \in 1..Len(a) : c[i] = a[i] /\ c[i][1] # j + 1
    <3>1. \A i \in 1..Len(a) : a[i] \in Listed(a)
      BY DEF Listed
    <3> QED
      BY <2>3, <2>5, <3>1
  <2>7. \A i \in 1..Len(c) : i \in 1..Len(a) \/ (i = Len(a) + 1 /\ c[i][1] = j + 1)
    <3> SUFFICES ASSUME NEW i \in 1..Len(c), i \notin 1..Len(a)
                 PROVE  i = Len(a) + 1 /\ c[i][1] = j + 1
      OBVIOUS
    <3>1. i = Len(a) + 1 /\ 1 \in 1..Len(b)
      BY <2>2, <2>5
    <3>2. c[i] = b[1] /\ b[1] \in Listed(b)
      BY <2>5, <3>1 DEF Listed
    <3> QED
      BY <2>4, <3>1, <3>2
  <2>8. Once(c)
    <3> SUFFICES ASSUME NEW j1 \in 1..Len(c), NEW j2 \in 1..Len(c), c[j1][1] = c[j2][1]
                 PROVE  j1 = j2
      OBVIOUS
    <3>1. CASE j1 \in 1..Len(a) /\ j2 \in 1..Len(a)
      <4>1. a[j1][1] = a[j2][1]
        BY <2>6, <3>1
      <4> QED
        BY <2>2, <3>1, <4>1
    <3>2. CASE j1 \notin 1..Len(a)
      BY <2>6, <2>7, <3>2
    <3>3. CASE j2 \notin 1..Len(a)
      BY <2>6, <2>7, <3>3
    <3> QED
      BY <3>1, <3>2, <3>3
  <2> QED
    BY <2>2, <2>8
<1> HIDE DEF K
<1>10. n \in K
  BY <1>1, <1>8, <1>9, EveryNatural
<1> DEFINE q == FlattenSeq(ss)
<1>11. q = g[n] /\ q \in Seq(Place) /\ Once(q)
  BY <1>1, <1>6, <1>7, <1>10 DEF K, Flattening
<1>12. Listed(q) = AllListed(ss, n)
  BY <1>1, <1>6 DEF Flattening
<1> HIDE DEF q, Once
<1>13. \A j \in 1..Len(q) : /\ q[j][1] \in 1..n
                            /\ q[j][2] \in 1..Len(text[q[j][1]])
                            /\ text[q[j][1]][q[j][2]] = k
  <2> SUFFICES ASSUME NEW j \in 1..Len(q)
               PROVE  /\ q[j][1] \in 1..n
                      /\ q[j][2] \in 1..Len(text[q[j][1]])
                      /\ text[q[j][1]][q[j][2]] = k
    OBVIOUS
  <2>1. q[j] \in Listed(q)
    BY DEF Listed
  <2>2. PICK l \in 1..n : q[j] \in Listed(ss[l])
    BY <1>12, <2>1 DEF AllListed
  <2>3. P(l, q[j])
    BY <1>3, <2>2
  <2> QED
    BY <2>3 DEF P
<1>14. \A l \in 1..n : \A i \in 1..Len(text[l]) :
         text[l][i] = k => \E j \in 1..Len(q) : q[j] = <<l, i>>
  <2> SUFFICES ASSUME NEW l \in 1..n, NEW i \in 1..Len(text[l]), text[l][i] = k
               PROVE  \E j \in 1..Len(q) : q[j] = <<l, i>>
    OBVIOUS
  <2>1. <<l, i>> \in Listed(ss[l])
    BY <1>3
  <2>2. <<l, i>> \in Listed(q)
    BY <1>12, <2>1 DEF AllListed
  <2> QED
    BY <2>2 DEF Listed
<1> QED
  BY <1>5, <1>11, <1>13, <1>14 DEF Located, q, n, Once

-----------------------------------------------------------------------------
(* What is written for keys when f says what they were replaced by.        *)
Written(f) == [k \in Key |-> IF f[k] # NoValue THEN f[k] ELSE Placeholder(k)]

(* Cutting out a placeholder.                                              *)
LEMMA CutFacts ==
  ASSUME NEW k \in Key, NEW w \in Seq(Char), NEW line \in Seq(Item), OneKey(line),
         NEW i \in 1..Len(line), line[i] = k, NEW t, t = Around(line, i, Placeholder(k))
  PROVE  /\ Cut(t, i, k, w) = Around(line, i, w)
         /\ ~ (i > Len(t) + 1)
<1> DEFINE P == Placeholder(k)
<1>1. P \in Seq(Char) /\ Len(P) = Width(k) /\ Width(k) \in Nat /\ Width(k) > 1
  BY PlaceholderFacts
<1>2. \A x \in 1..Len(line) : x # i => line[x] \in Char
  <2>1. \A x \in 1..Len(line) : line[x] \in Item
    BY ElementOfSeq
  <2>2. \A x \in 1..Len(line) : x # i => line[x] \notin Key
    BY DEF OneKey
  <2> QED
    BY <2>1, <2>2 DEF Item, Char
<1> HIDE DEF P
<1>3. t = Around(line, i, P)
  BY DEF P
<1>4. Len(t) = Len(line) - 1 + Len(P) /\ Len(line) \in Nat
  <2>1. Len(Around(line, i, P)) = Len(line) - 1 + Len(P)
    BY <1>1, <1>2, AroundType
  <2> QED
    BY <1>3, <2>1, LenProperties
<1>5. CutOut(t, i, Len(P), w) = Around(line, i, w)
  BY <1>1, <1>2, <1>3, CutAround
<1>6. Cut(t, i, k, w) = CutOut(t, i, Len(P), w)
  <2>1. Len(P) = Width(k)
    BY <1>1
  <2> QED
    BY <2>1 DEF Cut, CutOut
<1>7. ~ (i > Len(t) + 1)
  BY <1>1, <1>4
<1> QED
  BY <1>5, <1>6, <1>7

(* A text with what f says for keys.                                       *)
LinesOf(text, f) == [l \in DOMAIN text |-> Out(text[l], f)]

(* The text after the loop over the places of a key.                       *)
LEMMA LoopFacts ==
  ASSUME NEW text, Simple(text), NEW k \in Key, NEW w \in Seq(Char),
         NEW f \in [Key -> Seq(Char)], f[k] = Placeholder(k),
         NEW h \in [Key -> Seq(Char)], h[k] = w, \A x \in Key : x # k => h[x] = f[x],
         lines = LinesOf(text, f), Located(places[k], text, k)
  PROVE  CutAll(k, w) = [text |-> LinesOf(text, h), ok |-> TRUE]
<1> DEFINE n == Len(text)
           q == places[k]
           m == Len(q)
           old(l) == Out(text[l], f)
           new(l) == Out(text[l], h)
           done(j) == {q[i][1] : i \in 1..j}
           after(j) == [text |-> [l \in 1..n |-> IF l \in done(j) THEN new(l) ELSE old(l)], ok |-> TRUE]
           Is(b) == b = [j \in 0..m |-> IF j = 0 THEN [text |-> lines, ok |-> TRUE]
                                        ELSE CutAt(b[j - 1], q[j], k, w)]
           st == CHOOSE b : Is(b)
<1>1. /\ n \in Nat /\ DOMAIN text = 1..n /\ q \in Seq(Place) /\ m \in Nat
      /\ h \in [Key -> Seq(Char)] /\ h[k] = w
      /\ \A x \in Key : x # k => h[x] = f[x]
      /\ \A l \in 1..n : text[l] \in Seq(Item) /\ OneKey(text[l])
  <2>1. n \in Nat /\ DOMAIN text = 1..n /\ \A l \in 1..n : text[l] \in Seq(Item) /\ OneKey(text[l])
    BY LenProperties, ElementOfSeq DEF Simple
  <2>2. q \in Seq(Place) /\ m \in Nat
    BY LenProperties DEF Located
  <2> HIDE DEF q, n, m
  <2> QED
    BY <2>1, <2>2
<1>2. ASSUME NEW j \in 1..m
      PROVE  /\ q[j][1] \in 1..n /\ q[j][1] \notin done(j - 1)
             /\ CutAt(after(j - 1), q[j], k, w) = after(j)
  <2> DEFINE l == q[j][1]
             i == q[j][2]
             line == text[l]
             P == Placeholder(k)
             t == old(l)
  <2>1. l \in 1..n /\ i \in 1..Len(line) /\ line[i] = k
    BY DEF Located
  <2>2. l \notin done(j - 1)
    <3>1. ASSUME NEW x \in 1..(j - 1), q[x][1] = l PROVE FALSE
      <4>1. x \in 1..m /\ x # j
        BY <1>1
      <4> QED
        BY <3>1, <4>1 DEF Located
    <3> QED
      BY <3>1
  <2>3. done(j) = done(j - 1) \cup {l}
    <3>1. 1..j = (1..(j - 1)) \cup {j}
      BY <1>1
    <3> HIDE DEF q
    <3> QED
      BY <3>1
  <2>4. line \in Seq(Item) /\ OneKey(line)
    BY <1>1, <2>1
  <2>5. t = Around(line, i, P) /\ new(l) = Around(line, i, w)
    <3> HIDE DEF l, i, line
    <3>1. Out(line, f) = Around(line, i, f[line[i]]) /\ Out(line, h) = Around(line, i, h[line[i]])
      BY <1>1, <2>1, <2>4, OutFacts
    <3> QED
      BY <1>1, <2>1, <3>1 DEF line
  <2> HIDE DEF l, i, line, P
  <2>10. Cut(t, i, k, w) = new(l) /\ ~ (i > Len(t) + 1)
    <3> HIDE DEF t
    <3>1. t = Around(line, i, Placeholder(k))
      BY <2>5 DEF P
    <3>2. Cut(t, i, k, w) = Around(line, i, w) /\ ~ (i > Len(t) + 1)
      BY <2>1, <2>4, <3>1, CutFacts
    <3> QED
      BY <2>5, <3>2
  <2>11. after(j - 1).text[l] = t /\ after(j - 1).ok
    BY <2>1, <2>2 DEF l
  <2> DEFINE a == after(j - 1)
  <2>12. CutAt(a, q[j], k, w) = [text |-> [a.text EXCEPT ![l] = Cut(@, i, k, w)], ok |-> TRUE]
    <3>1. a.ok /\ ~ (i > Len(a.text[l]) + 1)
      BY <2>10, <2>11
    <3> HIDE DEF a, q
    <3> QED
      BY <3>1 DEF CutAt, l, i
  <2>13. [a.text EXCEPT ![l] = Cut(@, i, k, w)] = [a.text EXCEPT ![l] = Cut(t, i, k, w)]
    BY <2>11
  <2>14. [a.text EXCEPT ![l] = new(l)] = [x \in 1..n |-> IF x \in done(j) THEN new(x) ELSE old(x)]
    <3>1. a.text = [x \in 1..n |-> IF x \in done(j - 1) THEN new(x) ELSE old(x)]
      OBVIOUS
    <3> HIDE DEF a, t, done, new, old, n
    <3>2. [a.text EXCEPT ![l] = new(l)] =
            [x \in 1..n |-> IF x = l THEN new(l) ELSE IF x \in done(j - 1) THEN new(x) ELSE old(x)]
      BY <3>1
    <3>3. \A x \in 1..n : (IF x = l THEN new(l) ELSE IF x \in done(j - 1) THEN new(x) ELSE old(x)) =
                          (IF x \in done(j) THEN new(x) ELSE old(x))
      BY <2>3
    <3> QED
      BY <3>2, <3>3
  <2> HIDE DEF a, done, new, old, n
  <2>15. CutAt(a, q[j], k, w) = [text |-> [x \in 1..n |-> IF x \in done(j) THEN new(x) ELSE old(x)], ok |-> TRUE]
    BY <2>10, <2>12, <2>13, <2>14
  <2> QED
    BY <2>1, <2>2, <2>15 DEF a, l
<1>3. after(0) = [text |-> lines, ok |-> TRUE]
  <2>1. done(0) = {}
    OBVIOUS
  <2>2. lines = [l \in 1..n |-> old(l)]
    BY <1>1 DEF LinesOf
  <2> HIDE DEF n, old, new, done
  <2> QED
    BY <2>1, <2>2
<1>4. CutAll(k, w) = st[m]
  BY DEF CutAll
<1> HIDE DEF after, q, m
<1>5. Is([j \in 0..m |-> after(j)])
  <2> DEFINE b == [j \in 0..m |-> after(j)]
  <2>1. ASSUME NEW j \in 0..m
        PROVE  b[j] = IF j = 0 THEN [text |-> lines, ok |-> TRUE] ELSE CutAt(b[j - 1], q[j], k, w)
    <3>1. CASE j = 0
      BY <1>3, <3>1
    <3>2. CASE j # 0
      <4>1. j \in 1..m /\ j - 1 \in 0..m
        BY <1>1, <3>2
      <4> QED
        BY <1>2, <3>2, <4>1
    <3> QED
      BY <3>1, <3>2
  <2> QED
    BY <2>1
<1>6. Is(st)
  <2> HIDE DEF Is
  <2> QED
    BY <1>5
<1>7. /\ st[0] = [text |-> lines, ok |-> TRUE]
      /\ \A j \in 1..m : st[j] = CutAt(st[j - 1], q[j], k, w)
  <2> HIDE DEF st
  <2>1. \A j \in 0..m : st[j] = IF j = 0 THEN [text |-> lines, ok |-> TRUE] ELSE CutAt(st[j - 1], q[j], k, w)
    BY <1>6
  <2>2. 0 \in 0..m /\ \A j \in 1..m : j \in 0..m /\ j # 0
    BY <1>1
  <2> QED
    BY <2>1, <2>2
<1> HIDE DEF st, Is
<1>8. st[m] = after(m)
  <2> DEFINE K == {j \in Nat : j <= m => st[j] = after(j)}
  <2>1. 0 \in K
    BY <1>3, <1>7
  <2>2. ASSUME NEW j \in Nat, j \in K PROVE j + 1 \in K
    <3> SUFFICES ASSUME j + 1 <= m PROVE st[j + 1] = after(j + 1)
      OBVIOUS
    <3>1. j + 1 \in 1..m /\ (j + 1) - 1 = j /\ j <= m
      BY <1>1
    <3>2. st[j] = after(j)
      BY <2>2, <3>1
    <3>3. st[j + 1] = CutAt(st[(j + 1) - 1], q[j + 1], k, w)
      BY <1>7, <3>1
    <3>4. CutAt(after((j + 1) - 1), q[j + 1], k, w) = after(j + 1)
      BY <1>2, <3>1
    <3> QED
      BY <3>1, <3>2, <3>3, <3>4
  <2> HIDE DEF K
  <2>3. m \in K
    BY <1>1, <2>1, <2>2, EveryNatural
  <2> QED
    BY <1>1, <2>3 DEF K
<1>9. ASSUME NEW l \in 1..n PROVE (IF l \in done(m) THEN new(l) ELSE old(l)) = new(l)
  <2>1. CASE l \in done(m)
    BY <2>1
  <2>2. CASE l \notin done(m)
    <3> DEFINE line == text[l]
    <3>1. line \in Seq(Item) /\ OneKey(line)
      BY <1>1
    <3>2. \A i \in 1..Len(line) : line[i] # k
      <4>1. ASSUME NEW i \in 1..Len(line), line[i] = k PROVE FALSE
        <5>1. PICK j \in 1..m : q[j] = <<l, i>>
          BY <4>1 DEF Located, q, m
        <5>2. q[j][1] = l
          BY <5>1
        <5> QED
          BY <2>2, <5>2
      <4> QED
        BY <4>1
    <3> HIDE DEF line
    <3>3. Out(line, f) = Out(line, h)
      <4>1. ASSUME NEW i \in 1..Len(line), line[i] \in Key PROVE Out(line, f) = Out(line, h)
        <5>1. Out(line, f) = Around(line, i, f[line[i]]) /\ Out(line, h) = Around(line, i, h[line[i]])
          BY <1>1, <3>1, <4>1, OutFacts
        <5>2. f[line[i]] = h[line[i]]
          BY <1>1, <3>2, <4>1
        <5> QED
          BY <5>1, <5>2
      <4>2. CASE \A i \in 1..Len(line) : line[i] \notin Key
        <5>1. Out(line, f) = line /\ Out(line, h) = line
          BY <1>1, <3>1, <4>2, OutFacts
        <5> QED
          BY <5>1
      <4> QED
        BY <4>1, <4>2
    <3> QED
      BY <2>2, <3>3 DEF line
  <2> QED
    BY <2>1, <2>2
<1>10. after(m) = [text |-> [l \in 1..n |-> new(l)], ok |-> TRUE]
  <2> HIDE DEF done, new, old, n
  <2> QED
    BY <1>9 DEF after
<1> QED
  BY <1>1, <1>4, <1>8, <1>10 DEF LinesOf

(* A line when v says what keys were replaced by.                          *)
Rendered(line, v) == FlattenSeq([i \in DOMAIN line |->
  IF line[i] \in Key /\ v[line[i]] # NoValue THEN v[line[i]]
  ELSE IF line[i] \in Key THEN Placeholder(line[i]) ELSE <<line[i]>>])

LEMMA RenderFacts ==
  ASSUME NEW v \in [Key -> Value \cup {NoValue}]
  PROVE  /\ Written(v) \in [Key -> Seq(Char)]
         /\ \A line : Rendered(line, v) = Out(line, Written(v))
         /\ v = [k \in Key |-> NoValue] => \A line : Rendered(line, v) = Spell(line)
<1>1. \A w \in Value : w \in Seq(Char)
  <2>1. Value \subseteq Seq(Symbol) /\ Symbol \subseteq Char
    BY TemplatesAssumption DEF Char
  <2>2. ASSUME NEW w \in Seq(Symbol) PROVE w \in Seq(Char)
    <3>1. w = [i \in 1..Len(w) |-> w[i]] /\ Len(w) \in Nat /\ \A i \in 1..Len(w) : w[i] \in Char
      BY <2>1, LenProperties, ElementOfSeq
    <3> DEFINE n == Len(w)
               u == [i \in 1..n |-> w[i]]
    <3> HIDE DEF n
    <3>2. n \in Nat /\ \A i \in 1..n : w[i] \in Char
      BY <3>1 DEF n
    <3>3. u \in Seq(Char)
      BY <3>2
    <3> QED
      BY <3>1, <3>3 DEF n
  <2> QED
    BY <2>1, <2>2
<1>2. Written(v) \in [Key -> Seq(Char)]
  <2>1. ASSUME NEW k \in Key PROVE (IF v[k] # NoValue THEN v[k] ELSE Placeholder(k)) \in Seq(Char)
    BY <1>1, PlaceholderFacts
  <2> QED
    BY <2>1 DEF Written
<1>3. ASSUME NEW line PROVE Rendered(line, v) = Out(line, Written(v))
  <2> DEFINE item(i) == IF line[i] \in Key /\ v[line[i]] # NoValue THEN v[line[i]]
                        ELSE IF line[i] \in Key THEN Placeholder(line[i]) ELSE <<line[i]>>
             told(i) == IF line[i] \in Key THEN Written(v)[line[i]] ELSE <<line[i]>>
  <2>1. \A i \in DOMAIN line : item(i) = told(i)
    BY DEF Written
  <2> HIDE DEF item, told
  <2>2. [i \in DOMAIN line |-> item(i)] = [i \in DOMAIN line |-> told(i)]
    BY <2>1
  <2> QED
    BY <2>2 DEF item, told, Rendered, Out
<1>4. ASSUME v = [k \in Key |-> NoValue], NEW line PROVE Rendered(line, v) = Spell(line)
  <2> DEFINE item(i) == IF line[i] \in Key /\ v[line[i]] # NoValue THEN v[line[i]]
                        ELSE IF line[i] \in Key THEN Placeholder(line[i]) ELSE <<line[i]>>
             told(i) == IF line[i] \in Key THEN Placeholder(line[i]) ELSE <<line[i]>>
  <2>1. \A i \in DOMAIN line : item(i) = told(i)
    BY <1>4
  <2> HIDE DEF item, told
  <2>2. [i \in DOMAIN line |-> item(i)] = [i \in DOMAIN line |-> told(i)]
    BY <2>1
  <2> QED
    BY <2>2 DEF item, told, Rendered, Spell
<1> QED
  BY <1>2, <1>3, <1>4

(* Nothing is replaced before a text is loaded, and the places are those   *)
(* of the text as it was loaded.                                           *)
TemplateInv ==
  /\ loaded \in Seq(Seq(Item))
  /\ given \in [Key -> Value \cup {NoValue}]
  /\ loaded = << >> => given = [k \in Key |-> NoValue]
  /\ loaded # << >> => places = Analyze(Spelled(loaded))
  /\ RendersValues

LEMMA TemplateInitial == TemplateInit => TemplateInv
<1> SUFFICES ASSUME TemplateInit PROVE TemplateInv
  OBVIOUS
<1>1. loaded \in Seq(Seq(Item)) /\ given \in [Key -> Value \cup {NoValue}]
  BY EmptySeq DEF TemplateInit
<1>2. lines = [l \in DOMAIN loaded |-> Render(loaded[l])]
  <2>1. DOMAIN loaded = {} /\ lines = << >>
    BY DEF TemplateInit
  <2>2. [l \in {} |-> Render(loaded[l])] = << >>
    OBVIOUS
  <2> QED
    BY <2>1, <2>2
<1> QED
  BY <1>1, <1>2 DEF TemplateInit, TemplateInv, RendersValues

LEMMA LoadKeeps ==
  ASSUME TemplateInv, NEW text \in Loadable, Load(text)
  PROVE  TemplateInv'
<1>1. text \in Seq(Seq(Item)) /\ loaded' = text
  BY TemplatesAssumption DEF Load, Item
<1>2. given' = given /\ given \in [Key -> Value \cup {NoValue}] /\ given = [k \in Key |-> NoValue]
  BY DEF Load, TemplateInv
<1>3. lines' = Spelled(text) /\ places' = Analyze(Spelled(text))
  BY DEF Load, Spelled
<1>4. \A line : Rendered(line, given) = Spell(line)
  BY <1>2, RenderFacts
<1>5. \A line : Render(line)' = Spell(line)
  <2>1. \A line : Render(line)' = Rendered(line, given)
    BY <1>2 DEF Render, Rendered
  <2> QED
    BY <1>4, <2>1
<1>7. RendersValues'
  <2>1. lines' = [l \in DOMAIN loaded |-> Render(loaded[l])]'
    BY <1>1, <1>3, <1>5 DEF Spelled
  <2> QED
    BY <2>1 DEF RendersValues
<1> QED
  BY <1>1, <1>2, <1>3, <1>7 DEF TemplateInv

LEMMA ReplaceKeeps ==
  ASSUME TemplateInv, NEW k \in Key, NEW w \in Value, Replace(k, w)
  PROVE  TemplateInv'
<1>1. /\ loaded' = loaded /\ places' = places /\ loaded # << >> /\ ~ again
      /\ given' = [given EXCEPT ![k] = w] /\ lines' = CutAll(k, w).text
      /\ again' = (given[k] # NoValue)
  BY DEF Replace
<1>2. /\ loaded \in Seq(Seq(Item)) /\ given \in [Key -> Value \cup {NoValue}]
      /\ places = Analyze(Spelled(loaded)) /\ RendersValues
  BY <1>1 DEF TemplateInv
<1>3. given' \in [Key -> Value \cup {NoValue}] /\ w # NoValue
  BY <1>1, <1>2, TemplatesAssumption
<1>4. ASSUME ~ again', OnePerLine' PROVE lines' = [l \in DOMAIN loaded |-> Render(loaded[l])]'
  <2>1. OnePerLine /\ given[k] = NoValue
    BY <1>1, <1>4 DEF OnePerLine
  <2>2. Simple(loaded)
    BY <1>2, <2>1, OneKeyLines DEF Simple
  <2> DEFINE f == Written(given)
             h == Written(given')
  <2>3. f \in [Key -> Seq(Char)] /\ f[k] = Placeholder(k)
    BY <1>2, <2>1, RenderFacts DEF Written
  <2>4. h \in [Key -> Seq(Char)] /\ h[k] = w /\ \A x \in Key : x # k => h[x] = f[x]
    <3>1. h \in [Key -> Seq(Char)]
      BY <1>3, RenderFacts
    <3>2. given'[k] = w /\ \A x \in Key : x # k => given'[x] = given[x]
      BY <1>1, <1>2
    <3> QED
      BY <1>3, <3>1, <3>2 DEF Written
  <2>5. w \in Seq(Char)
    <3> HIDE DEF h
    <3> QED
      BY <2>4
  <2>6. lines = LinesOf(loaded, f)
    <3>1. lines = [l \in DOMAIN loaded |-> Render(loaded[l])]
      BY <1>1, <1>2, <2>1 DEF RendersValues
    <3>2. \A line : Render(line) = Out(line, f)
      <4>1. \A line : Render(line) = Rendered(line, given)
        BY DEF Render, Rendered
      <4> QED
        BY <1>2, <4>1, RenderFacts
    <3> HIDE DEF f
    <3> QED
      BY <3>1, <3>2 DEF LinesOf
  <2>7. Located(places[k], loaded, k)
    BY <1>2, <2>2, PlacesFacts
  <2>8. CutAll(k, w) = [text |-> LinesOf(loaded, h), ok |-> TRUE]
    <3> HIDE DEF f, h
    <3> QED
      BY <2>2, <2>3, <2>4, <2>5, <2>6, <2>7, LoopFacts
  <2>9. lines' = [l \in DOMAIN loaded |-> Out(loaded[l], h)]
    <3> HIDE DEF f, h
    <3> QED
      BY <1>1, <2>4, <2>8 DEF LinesOf
  <2>10. \A line : Render(line)' = Out(line, h)
    <3>1. \A line : Render(line)' = Rendered(line, given')
      BY DEF Render, Rendered
    <3>2. \A line : Rendered(line, given') = Out(line, h)
      BY <1>3, RenderFacts
    <3> QED
      BY <3>1, <3>2
  <2> QED
    BY <1>1, <2>9, <2>10
<1>5. RendersValues'
  BY <1>4 DEF RendersValues
<1> QED
  BY <1>1, <1>2, <1>3, <1>5 DEF TemplateInv

(* The lines of a template are those that were loaded, with every key that *)
(* was replaced written as its value and every other as its placeholder,   *)
(* whatever the order of the replacements (Template::Analyze and           *)
(* Template::Replace).                                                     *)
THEOREM TemplatesRender == TemplateSpec => []RendersValues
<1>1. TemplateInit => TemplateInv
  BY TemplateInitial
<1>2. TemplateInv /\ [TemplateNext]_templateVars => TemplateInv'
  <2> SUFFICES ASSUME TemplateInv, [TemplateNext]_templateVars PROVE TemplateInv'
    OBVIOUS
  <2>1. CASE UNCHANGED templateVars
    BY <2>1 DEF templateVars, TemplateInv, RendersValues, OnePerLine, Render
  <2>2. CASE TemplateNext
    BY <2>2, LoadKeeps, ReplaceKeeps DEF TemplateNext
  <2> QED
    BY <2>1, <2>2
<1>3. TemplateInv => RendersValues
  BY DEF TemplateInv
<1> QED
  BY <1>1, <1>2, <1>3, PTL DEF TemplateSpec
=============================================================================
