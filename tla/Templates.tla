------------------------------ MODULE Templates ------------------------------
(***************************************************************************)
(* VHDL templates (vhdl/template.cc): the places of the ${key} in a text   *)
(* are looked up once, by Analyze, and Replace cuts the text at these      *)
(* places afterwards.  A line is a sequence of symbols: those of a         *)
(* placeholder are marked with their key and number, as it is only         *)
(* recognised whole, any other stands for itself.                          *)
(***************************************************************************)
EXTENDS Naturals, Sequences, FiniteSets, SequencesExt

CONSTANTS
  Key,       \* the keys
  Symbol,    \* what else is in a text
  KeyLen,    \* the length of each
  Loadable,  \* the texts that are loaded, as sequences of lines of items
  Value,     \* what keys are replaced by
  NoValue

ASSUME TemplatesAssumption ==
  /\ KeyLen \in [Key -> Nat \ {0}]
  /\ Symbol \cap (Key \X Nat) = {}
  /\ Loadable \subseteq Seq(Seq(Key \cup Symbol))
  /\ Value \subseteq Seq(Symbol) /\ NoValue \notin Value

(* "${", the key and "}".                                                  *)
Width(k)       == KeyLen[k] + 3
Placeholder(k) == [i \in 1..Width(k) |-> <<k, i>>]

(* An item of a line is a key, for its placeholder, or a symbol.           *)
Spell(line) == FlattenSeq([i \in DOMAIN line |->
                  IF line[i] \in Key THEN Placeholder(line[i]) ELSE <<line[i]>>])

VARIABLES
  lines,    \* Template::lines_
  places,   \* Template::replace_list_
  loaded,   \* the text that was loaded
  given,    \* what keys were replaced by
  again     \* whether a key was replaced a second time

templateVars == <<lines, places, loaded, given, again>>

TemplateInit ==
  /\ lines = << >> /\ loaded = << >>
  /\ places = [k \in Key |-> << >>]
  /\ given = [k \in Key |-> NoValue]
  /\ again = FALSE

-----------------------------------------------------------------------------
StandsAt(text, k, l, s) ==
  /\ s + Width(k) - 1 <= Len(text[l])
  /\ \A i \in 1..Width(k) : text[l][s + i - 1] = Placeholder(k)[i]

(* The matches of the regular expression on a line, from left to right.    *)
PlacesOn(text, k, l) ==
  LET found[s \in 0..Len(text[l])] ==
        IF s = 0 THEN << >>
        ELSE IF StandsAt(text, k, l, s) THEN Append(found[s - 1], <<l, s>>) ELSE found[s - 1]
  IN  found[Len(text[l])]

(* Analyze: line by line.                                                  *)
Analyze(text) == [k \in Key |-> FlattenSeq([l \in DOMAIN text |-> PlacesOn(text, k, l)])]

(* The constructor reads all lines and analyses them.                      *)
Load(text) ==
  /\ loaded = << >>
  /\ loaded' = text
  /\ lines' = [l \in DOMAIN text |-> Spell(text[l])]
  /\ places' = Analyze(lines')
  /\ UNCHANGED <<given, again>>

(* Mutant of Cut: the braces are counted, the dollar sign is not.          *)
CutShort(line, s, k, w) == SubSeq(line, 1, s - 1) \o w \o SubSeq(line, s + Width(k) - 1, Len(line))

(* std::string::replace at s of what was as long as the placeholder.       *)
Cut(line, s, k, w) == SubSeq(line, 1, s - 1) \o w \o SubSeq(line, s + Width(k), Len(line))

(* The loop over the places of a key; past the end of a line it throws,    *)
(* and what was replaced so far stays replaced.                            *)
CutAt(st, p, k, w) ==
  IF ~ st.ok \/ p[2] > Len(st.text[p[1]]) + 1 THEN [st EXCEPT !.ok = FALSE]
  ELSE [text |-> [st.text EXCEPT ![p[1]] = Cut(@, p[2], k, w)], ok |-> TRUE]

CutAll(k, w) ==
  LET st[n \in 0..Len(places[k])] ==
        IF n = 0 THEN [text |-> lines, ok |-> TRUE] ELSE CutAt(st[n - 1], places[k][n], k, w)
  IN  st[Len(places[k])]

Replace(k, w) ==
  /\ loaded # << >>
  /\ ~ again
  /\ lines' = CutAll(k, w).text
  /\ given' = [given EXCEPT ![k] = w]
  /\ again' = (given[k] # NoValue)
  /\ UNCHANGED <<places, loaded>>

TemplateNext ==
  \/ \E text \in Loadable : Load(text)
  \/ \E k \in Key, w \in Value : Replace(k, w)

TemplateSpec == TemplateInit /\ [][TemplateNext]_templateVars

-----------------------------------------------------------------------------
Render(line) == FlattenSeq([i \in DOMAIN line |->
  IF line[i] \in Key /\ given[line[i]] # NoValue THEN given[line[i]]
  ELSE IF line[i] \in Key THEN Placeholder(line[i]) ELSE <<line[i]>>])

(* The text has the value of each key replaced so far in place of all its  *)
(* placeholders, whatever the order, and nothing else has changed.  Only   *)
(* if there is one placeholder on a line and no key is replaced twice: the *)
(* places are not looked up again when a line has changed.                 *)
OnePerLine ==
  \A l \in DOMAIN loaded : Cardinality({i \in DOMAIN loaded[l] : loaded[l][i] \in Key}) <= 1
RendersValues ==
  ~ again /\ OnePerLine => lines = [l \in DOMAIN loaded |-> Render(loaded[l])]
=============================================================================
