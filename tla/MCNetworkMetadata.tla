-------------------------- MODULE MCNetworkMetadata --------------------------
(***************************************************************************)
(* Instances of NetworkMetadata for TLC: configurations of two of seven    *)
(* repositories in either order.  Two owners have a repository of the same *)
(* name, and with a prefix the second one may share the entry of the first *)
(* one, which then lists a name twice; one prefix is a prefix of another,  *)
(* and of a directory's name; one path is malformed, and one repository    *)
(* may be configured twice.  One directory has everything that the         *)
(* provider asks for; the keys of the static networks are those of listed  *)
(* ones, and start with a prefix.                                          *)
(***************************************************************************)
EXTENDS NetworkMetadata

Repository(path, prefix) == [path |-> path, prefix |-> prefix]
Devnets == <<"eof", "-devnets">>
Panda == <<<<"panda">>, Devnets>>
Other == <<<<"other">>, Devnets>>
Eof == <<<<"panda">>, <<"eof">>>>
Late == <<<<"panda">>, <<"late">>>>
Bare == <<Devnets>>

D == <<"d">>
ED == <<"e", "-", "d">>
Names == {D, ED}

Repositories == {
  Repository(Panda, <<>>), Repository(Other, <<>>), Repository(Other, Append(Devnets, "-")),
  Repository(Eof, <<"e", "-">>), Repository(Eof, <<>>),
  Repository(Late, <<"e", "-", "x">>), Repository(Bare, <<>>)}

Pairs == {<<a, b>> : a, b \in Repositories}
Distinct == {c \in Pairs : c[1] # c[2]}

Present(place) ==
  CASE place = <<Panda, D>> -> Things
    [] place = <<Other, D>> -> {"archive", "dns"}
    [] place = <<Other, ED>> -> {"kubernetes", "files"}
    [] place = <<Eof, D>> -> {"kubernetes", "archive", "images"}
    [] OTHER -> {}
ContentsOf == [place \in {Panda, Other, Eof, Late, Bare} \X Names |-> Present(place)]
Groups == {HiveGroup(Panda, D)}

Configured == {ED, <<"e", "-", "s">>}
=============================================================================
