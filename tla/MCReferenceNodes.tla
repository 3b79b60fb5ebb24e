-------------------------- MODULE MCReferenceNodes --------------------------
(***************************************************************************)
(* Instances of ReferenceNodes for TLC: two clients.  One has every chart  *)
(* of one or two nested blocks, with or without an else, whose markers     *)
(* stand on lines of their own or after the argument before them, and some *)
(* that renderTemplate is not made for; the other has a short one, or one  *)
(* without arguments.  The files repeat flags within and across sources.   *)
(***************************************************************************)
EXTENDS ReferenceNodes

CONSTANTS c1, c2

Arg(flag, value) == [flag |-> flag, value |-> value]
Text(flag, value) == Arg(flag, value) @@ [expression |-> value = "port", skipped |-> value = "POD_IP"]
Line(before, text, after) == [before |-> before, text |-> text, after |-> after]
OfMarker(m) == Line(<<>>, NoText, <<m>>)
OfText(flag, value) == Line(<<>>, Text(flag, value), <<>>)

\* A marker on a line of its own, or after the text of the last line.
OwnLine(lines, m) == Append(lines, OfMarker(m))
Attached(lines, m) ==
  IF lines = <<>> \/ Last(lines).text = NoText
  THEN OwnLine(lines, m)
  ELSE [lines EXCEPT ![Len(lines)].after = Append(@, m)]
Layouts(lines, m) == {OwnLine(lines, m), Attached(lines, m)}

\* The lines, an opener, a body with an optional else, and an end.
Closed(lines) == Layouts(lines, End)
WithElse(lines, else) == {lines, OwnLine(lines, Else) \o else}
Opened(lines, openers) == UNION {Layouts(lines, m) : m \in openers}
Block(lines, openers, bodies, else) ==
  UNION {UNION {Closed(l) : l \in WithElse(o \o body, else)} :
           o \in Opened(lines, openers), body \in bodies}

Inner == Block(<<OfText("--http", "inner")>>,
               {If("devnet"), If("nodePort"), If("fileLogging"), ExtraArgs},
               {<<OfText("--ws", "port")>>}, <<OfText("--ws", "else")>>)
Bodies == Inner \union {<<OfText("--nat", "POD_IP")>>, <<OfText(NoFlag, "comment")>>}
Outer == Block(<<OfText("--http", "outer")>>, {If(b) : b \in Blocks}, Bodies, <<OfText("--nat", "EXTERNAL_IP")>>)

Unusual == {
  <<OfMarker(If("devnet")), OfText("--http", "devnet"), OfMarker(ElseIf("other")),
    OfText("--ws", "other"), OfMarker(End)>>,
  <<OfText("--http", "8545"), Line(<<>>, Text("--ws", "8546"), <<Else>>)>>,
  <<Line(<<If("other")>>, Text("--http", "port"), <<End>>)>>,
  <<Line(<<If("nodePort")>>, Text("--http", "8545"), <<>>), OfMarker(Else), OfMarker(End)>>,
  <<OfMarker(End)>>, <<OfMarker(Else)>>}

ChartsOf == [c \in {c1, c2} |->
  IF c = c1
  THEN {Append(l, OfText("--p2p", "30303")) : l \in Outer} \union Unusual
  ELSE {<<OfText("--ws", "8546")>>, <<OfMarker(ExtraArgs), OfMarker(End)>>}]

Image(repository, tag) == [repository |-> repository, tag |-> tag]
File(args, image) == [args |-> args, image |-> image]
Files == {
  File(<<Arg("--http", "client"), Arg("--ws", "client"), Arg("--http", "again")>>, Image("geth", "v1")),
  File(<<Arg("--cache", "client")>>, Image("geth", Unset))}
Features == {[c \in {c1, c2} |->
  IF c = c1
  THEN File(<<Arg("--cache", "feature"), Arg("--ws", "feature"), Arg("--cache", "again")>>,
            Image(Unset, "bal"))
  ELSE File(<<>>, Image("fork", Unset))]}
=============================================================================
