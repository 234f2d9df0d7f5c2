----------------------------- MODULE Dockerfile -----------------------------
(***************************************************************************)
(* How the text of a Dockerfile is read (utils/dockerfile.py): where its   *)
(* instructions begin and end, which of them need BuildKit and which need  *)
(* a build context, against how Docker reads it.                           *)
(*                                                                         *)
(* A physical line is what the reading tells apart of it.  A Dockerfile is *)
(* written a line at a time, and every prefix is one.  All heredocs have   *)
(* one delimiter, the word of an "end" line.                               *)
(***************************************************************************)
EXTENDS Integers, Sequences, FiniteSets

CONSTANTS
  Line,        \* the physical lines that are written
  MaxLines     \* bound

\* Escape characters.  What a line says: nothing, a comment, the directive that makes the
\* backtick the escape character, an instruction or more of one, or the delimiter.
Escape == {"backslash", "backtick"}
Says == {"blank", "comment", "escape directive", "text", "end"}

\* ends: the escape character at its end, doubled or not; heredoc: it has "<<"; flag: of
\* BuildKit; copies: it is a COPY, from a stage or from the context.
PhysicalLine ==
  [says : Says, ends : Escape \cup {"none"}, doubled : BOOLEAN, heredoc : BOOLEAN,
   flag : BOOLEAN, copies : {"no", "stage", "context"}]

DockerfileAssumption == Line \subseteq PhysicalLine /\ MaxLines \in Nat

VARIABLE text

Least(S) == CHOOSE i \in S : \A j \in S : i <= j
IsComment(l) == l.says \in {"comment", "escape directive"}
Indices == 1 .. Len(text)

-----------------------------------------------------------------------------
(* Directives, which count as long as they lead the file.                  *)

Directives == {i \in Indices : \A j \in 1 .. i : text[j].says = "escape directive"}
EscapeCharacter == IF Directives # {} THEN "backtick" ELSE "backslash"

\* A merge hoists the directives, and reads the rest with what they said.
Body == {i \in Indices : i \notin Directives}

\* Mutant: the rest is read as if it had never had a directive.
EscapeOfBodyDefault == "backslash"
EscapeOfBody == EscapeCharacter

-----------------------------------------------------------------------------
(* Instructions: the physical lines joined into each, and its heredocs.    *)

Continues(i) == text[i].ends = EscapeOfBody /\ ~text[i].doubled

\* Comments after a continued line are passed over; then any line is part of it.
Next_(i) ==
  LET S == {j \in Indices : j > i /\ ~IsComment(text[j])} IN IF S = {} THEN 0 ELSE Least(S)

\* The lines of the instruction that begins at i.
Parts[i \in Indices] ==
  {i} \cup (IF Continues(i) /\ Next_(i) # 0 THEN Parts[Next_(i)] ELSE {})

\* Its last line: the file's, if that is where it is continued to.
Last(i) ==
  LET m == CHOOSE j \in Parts[i] : \A k \in Parts[i] : k <= j
  IN  IF Continues(m) THEN Len(text) ELSE m

Candidates(i) == Cardinality({j \in Parts[i] : text[j].heredoc})
Ends(after) == {j \in Indices : j > after /\ text[j].says = "end"}

\* Where it ends with the bodies of its heredocs, and how many there are: a candidate
\* whose delimiter never comes is none.
Absorbed(i) ==
  LET found == Cardinality(Ends(Last(i)))
      opened == IF Candidates(i) < found THEN Candidates(i) ELSE found
      end == IF opened = 0 THEN Last(i)
             ELSE CHOOSE j \in Ends(Last(i)) :
                    Cardinality({k \in Ends(Last(i)) : k <= j}) = opened
  IN  [end |-> end, heredocs |-> opened]

\* The instructions from line i on.
From[i \in Nat] ==
  IF i > Len(text) THEN {}
  ELSE IF i \notin Body \/ IsComment(text[i]) \/ text[i].says = "blank" THEN From[i + 1]
  ELSE LET a == Absorbed(i)
       IN  {[start |-> i, end |-> a.end, parts |-> {j \in Parts[i] : text[j].says # "blank"},
             heredocs |-> a.heredocs]} \cup From[a.end + 1]
LogicalLines == From[1]

\* What Kaniko refuses, and what is refused without a context.
BuildKitOnly == {l \in LogicalLines : l.heredocs > 0 \/ \E j \in l.parts : text[j].flag}
CopySources ==
  {l \in LogicalLines : l.heredocs = 0 /\ \E j \in l.parts : text[j].copies = "context"}

-----------------------------------------------------------------------------
(* How Docker reads it, a line at a time: between instructions, in one     *)
(* that goes on, or in the bodies of its heredocs.                         *)

Between == [in |-> "between", open |-> 0]
Reads(s, l, escape) ==
  CASE s.in = "body" ->
         IF l.says # "end" THEN s
         ELSE IF s.open = 1 THEN Between ELSE [s EXCEPT !.open = @ - 1]
    [] s.in # "body" /\ (IsComment(l) \/ l.says = "blank") -> s
    [] OTHER ->
         LET open == s.open + IF l.heredoc THEN 1 ELSE 0
         IN  [in |-> IF l.ends = escape /\ ~l.doubled THEN "instruction"
                     ELSE IF open > 0 THEN "body" ELSE "between",
              open |-> open]
DockerState[i \in Nat] ==
  IF i = 0 THEN Between ELSE Reads(DockerState[i - 1], text[i], EscapeCharacter)

Read(i) ==
  DockerState[i - 1].in # "body" /\ ~IsComment(text[i]) /\ text[i].says # "blank"
Begins(i) == Read(i) /\ DockerState[i - 1].in = "between"

\* Its instructions, each with its lines.
DockerParts(i) == {j \in Indices : j >= i /\ Read(j) /\ \A k \in i + 1 .. j : ~Begins(k)}
DockerInstructions == {DockerParts(i) : i \in {j \in Indices : Begins(j)}}

-----------------------------------------------------------------------------
Init == text = <<>>
Write == Len(text) < MaxLines /\ \E l \in Line : text' = Append(text, l)
Next == Write
Spec == Init /\ [][Next]_text

TypeOK == text \in Seq(Line) /\ Len(text) <= MaxLines

\* Texts whose heredocs end, and in which no instruction is continued by a blank line.
HeredocsEnd == DockerState[Len(text)].open = 0
BlankInside == \E i \in Indices : text[i].says = "blank" /\ DockerState[i - 1].in = "instruction"

Joined == {l.parts : l \in LogicalLines} = DockerInstructions

(* Instructions are what Docker takes for them: joined over comments, by   *)
(* the escape character of the file, and none from the body of a heredoc.  *)
(* So Kaniko is refused a file for what is in it, and one that copies from *)
(* a context is known for that (logical_lines, buildkit_only_features).    *)
ReadAsDocker ==
  HeredocsEnd /\ ~BlankInside =>
    /\ Joined
    /\ BuildKitOnly # {} <=>
         \E p \in DockerInstructions : \E i \in p : text[i].heredoc \/ text[i].flag
    /\ CopySources # {} <=>
         \E p \in DockerInstructions :
           (\A i \in p : ~text[i].heredoc) /\ \E i \in p : text[i].copies = "context"

(* "Blank lines and comments are dropped, including comments interleaved   *)
(* inside a continuation, as Docker's parser does" (utils/dockerfile.py):  *)
(* but a blank line inside one ends the instruction.                       *)
BlanksAsDocker == HeredocsEnd => Joined
=============================================================================
