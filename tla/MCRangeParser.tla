---------------------------- MODULE MCRangeParser ----------------------------
(***************************************************************************)
(* Instances of RangeParser for TLC: all inventories of at most two lines, *)
(* and some of three, over two sections with a common tag, the lines       *)
(* before the first section, and two hosts.  The variables cover a range   *)
(* after another variable, in first place, empty, reversed, unreadable,    *)
(* set twice, and none at all.                                             *)
(***************************************************************************)
EXTENDS RangeParser, TLC

Start(n) == [name |-> "validator_start", value |-> n]
End(n) == [name |-> "validator_end", value |-> n]
Other == [name |-> "ansible_host", value |-> Bad]

Variables == {<<>>, <<Other>>, <<Other, Start(0), End(2)>>, <<Start(0), End(2)>>,
              <<Other, End(3), Start(1)>>, <<Other, Start(2), End(0)>>, <<Other, Start(1), End(1)>>,
              <<Other, Start(Bad), End(2)>>, <<Other, Start(2), Start(0), End(Bad), End(1)>>,
              <<End(2), Other, Start(0), End(1)>>}

Lines(S, V) == [section : S, host : {"h1", "h2"}, vars : V]
Headed == {"geth", "reth"}
Short == {<<Other>>, <<Other, Start(0), End(2)>>, <<Other, End(3), Start(1)>>,
          <<End(2), Other, Start(0), End(1)>>}

\* Lines without a header come first.
Ordered == {f \in BoundedSeq(Lines(Headed \union {DEFAULT}, Variables), 2) :
              Len(f) = 2 => (f[2].section = DEFAULT => f[1].section = DEFAULT)}
Triples == [1..3 -> Lines(Headed, Short)]
AllFiles == Ordered \union Triples

GroupTags == ("geth" :> {"el:geth"}) @@ ("reth" :> {"el:geth", "el:reth"})
=============================================================================
