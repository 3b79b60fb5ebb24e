---------------------------- MODULE HelmTemplate ----------------------------
(***************************************************************************)
(* renderTemplate (pkg/eip7870referencenodes/helm_chart_parser.go): which  *)
(* arguments of a Helm command template belong to the base command.  The   *)
(* template is read line by line with a stack of open blocks, and every    *)
(* line is classified by the substrings that it has.                       *)
(*                                                                         *)
(* A line is the markers before its text, the text, and the markers after  *)
(* it.  A marker is {{- if <block> }}, {{- else if <block> }}, {{- else }},*)
(* {{- end }} or {{- range }}.  A text is an argument: a flag, its value,  *)
(* whether it ends in an expression such as {{ .Values.httpPort }}, and    *)
(* whether it is of those that shouldSkipLine names.  Values are resolved, *)
(* and folded templates normalised, before.                                *)
(***************************************************************************)
EXTENDS Integers, FiniteSets, SequencesExt

NoText == [flag |-> "none"]
NoFlag == "text"                 \* the text does not start with "--"

Blocks == {"devnet", "nodePort", "fileLogging", "other"}
If(block) == [kind |-> "if", block |-> block]
ElseIf(block) == [kind |-> "elseif", block |-> block]
Else == [kind |-> "else"]
End == [kind |-> "end"]
ExtraArgs == [kind |-> "range"]

MarkerType == [kind : {"if", "elseif"}, block : Blocks] \union [kind : {"else", "end", "range"}]
TextType == [flag : STRING, value : STRING, expression : BOOLEAN, skipped : BOOLEAN]
LineType == [before : Seq(MarkerType), text : TextType \union {NoText}, after : Seq(MarkerType)]

Markers(line) == line.before \o line.after
OfKind(line, kinds) == {m \in ToSet(Markers(line)) : m.kind \in kinds}
Has(line, kind) == OfKind(line, {kind}) # {}

-----------------------------------------------------------------------------
(* The stack of open blocks.                                               *)

\* Devnets and file logging are off, node ports and all the rest are on.
Wanted(block) == block \notin {"devnet", "fileLogging"}

\* A line that names several blocks is of the first of the switch.
ClassifyBlock(line) ==
  LET named == {m.block : m \in OfKind(line, {"if", "elseif"})}
  IN  CASE "devnet" \in named -> "devnet"
        [] "nodePort" \in named -> "nodePort"
        [] "fileLogging" \in named -> "fileLogging"
        [] OTHER -> "other"

Push(stack, block, include) == Append(stack, [block |-> block, include |-> include])

PopN(stack, n) == SubSeq(stack, 1, IF n > Len(stack) THEN 0 ELSE Len(stack) - n)

Mut_Innermost(stack) == stack = <<>> \/ Last(stack).include
ShouldInclude(stack) == \A i \in DOMAIN stack : stack[i].include

HandleElse(stack) ==
  IF stack = <<>>
  THEN stack
  ELSE [stack EXCEPT ![Len(stack)].include =
          CASE Last(stack).block = "fileLogging" -> TRUE
            [] Last(stack).block = "nodePort" -> FALSE
            [] OTHER -> ~@]

-----------------------------------------------------------------------------
(* Lines.  A rendering is the stack and the arguments so far.              *)

\* The line starts with {{ and ends with }}.
IsPureTemplate(line) ==
  \/ line.text = NoText
  \/ line.before # <<>> /\ (line.after # <<>> \/ line.text.expression)

OpensBlock(line) == Has(line, "if") \/ Has(line, "elseif")

\* Only the first of these that the line has counts, and only once; a line
\* without any of them changes nothing, like a blank one.
ProcessPureTemplateLine(stack, line) ==
  IF OpensBlock(line)
  THEN LET block == ClassifyBlock(line) IN Push(stack, block, Wanted(block))
  ELSE IF Has(line, "else") THEN HandleElse(stack)
  ELSE IF Has(line, "end") THEN PopN(stack, 1)
  ELSE IF Has(line, "range") THEN Push(stack, "extraArgs", FALSE)
  ELSE stack

CountEndMarkers(line) == Cardinality({i \in DOMAIN Markers(line) : Markers(line)[i].kind = "end"})

\* What is left of the text is an argument if it starts with "--".
Argument(line) == IF line.text.flag = NoFlag THEN <<>> ELSE <<line.text>>

\* The markers of a line with text: at most one block is opened, before all
\* the ends; an else is passed over.
RenderText(rendering, line) ==
  LET block == ClassifyBlock(line)
      opened == IF OpensBlock(line)
                THEN Push(rendering.stack, block, Wanted(block))
                ELSE rendering.stack
  IN  [stack |-> PopN(opened, CountEndMarkers(line)),
       args |-> rendering.args \o Argument(line)]

RenderLine(rendering, line) ==
  IF IsPureTemplate(line)
  THEN [rendering EXCEPT !.stack = ProcessPureTemplateLine(@, line)]
  ELSE IF ~ShouldInclude(rendering.stack)
  THEN [rendering EXCEPT !.stack = PopN(@, CountEndMarkers(line))]
  ELSE IF line.text.skipped THEN rendering
  ELSE RenderText(rendering, line)

NothingRendered == [stack |-> <<>>, args |-> <<>>]
RenderTemplate(template) == FoldLeft(RenderLine, NothingRendered, template).args

-----------------------------------------------------------------------------
(* What Helm does with the same template and the same assumptions about    *)
(* the conditions: it reads markers and texts one by one, wherever the     *)
(* lines end.  A block is whether its current branch is taken, whether one *)
(* has been, and whether its else has been seen.                           *)

Tokens(line) ==
  line.before \o (IF line.text = NoText THEN <<>> ELSE <<line.text>>) \o line.after

Open(on) == [on |-> on, taken |-> on, closed |-> FALSE]
InBlock(r) == r.stack # <<>> /\ ~Last(r.stack).closed
Branch(r, on, closed) ==
  LET block == Last(r.stack)
  IN  [r EXCEPT !.stack[Len(r.stack)] =
         [on |-> on /\ ~block.taken, taken |-> on \/ block.taken, closed |-> closed]]

HelmMarker(r, m) ==
  CASE m.kind = "if" -> [r EXCEPT !.stack = Append(@, Open(Wanted(m.block)))]
    [] m.kind = "range" -> [r EXCEPT !.stack = Append(@, Open(FALSE))]
    [] m.kind = "elseif" /\ InBlock(r) -> Branch(r, Wanted(m.block), FALSE)
    [] m.kind = "else" /\ InBlock(r) -> Branch(r, TRUE, TRUE)
    [] m.kind = "end" /\ r.stack # <<>> -> [r EXCEPT !.stack = Front(@)]
    [] OTHER -> [r EXCEPT !.parses = FALSE]

AllOn(r) == \A i \in DOMAIN r.stack : r.stack[i].on
HelmText(r, text) ==
  IF AllOn(r) /\ ~text.skipped /\ text.flag # NoFlag
  THEN [r EXCEPT !.args = Append(@, text)]
  ELSE r

HelmToken(r, token) == IF "kind" \in DOMAIN token THEN HelmMarker(r, token) ELSE HelmText(r, token)

HelmLine(r, line) == FoldLeft(HelmToken, r, Tokens(line))

HelmStart == [stack |-> <<>>, args |-> <<>>, parses |-> TRUE]
HelmAfter(lines) == FoldLeft(HelmLine, HelmStart, lines)

\* Helm accepts the template.
Parses(template) ==
  LET end == HelmAfter(template) IN end.parses /\ end.stack = <<>>

\* The layout that renderTemplate is made for: a line is a single marker other
\* than an else-if, or an argument that at most one if or end follows.  Where an
\* if does, nothing around it may be left out; where an end does, the argument
\* may not be one that is skipped.
Supported(template) ==
  \A i \in DOMAIN template :
    LET line == template[i]
    IN  /\ Len(Markers(line)) <= 1
        /\ line.before = <<>> \/ line.text = NoText
        /\ ~Has(line, "elseif")
        /\ line.text # NoText => ~Has(line, "else") /\ ~Has(line, "range")
        /\ line.text # NoText /\ line.after # <<>> =>
             ~line.text.skipped /\ (Has(line, "end") \/ AllOn(HelmAfter(SubSeq(template, 1, i - 1))))
=============================================================================
