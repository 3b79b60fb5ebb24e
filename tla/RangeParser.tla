------------------------------ MODULE RangeParser ------------------------------
(***************************************************************************)
(* ParseInventory (pkg/validatorranges/parser.go): an Ansible inventory is *)
(* read as an INI file, a host line as a key and its value, and the        *)
(* validator ranges are picked out of the values.                          *)
(*                                                                         *)
(* A host line is its section, its host and its variables in order; a line *)
(* without variables has no '='.  The INI library splits a line at its     *)
(* first '=': the key is the host and the name of the first variable, the  *)
(* value starts with what that variable is set to.                         *)
(***************************************************************************)
EXTENDS Integers, FiniteSets, SequencesExt

CONSTANTS
  Files,        \* inventories: sequences of [section, host, vars]
  Tags,         \* the client tags that extractTags finds in a section's name
  RangeOffset   \* the offset configured for the source

DEFAULT == "DEFAULT"      \* the section of lines before the first header
Bad == -1                 \* a value that is no number; validator numbers are not negative

Variable == [name : STRING, value : Nat \union {Bad}]
HostLine == [section : STRING, host : STRING, vars : Seq(Variable)]

ASSUME ParserAssumption == Files \subseteq Seq(HostLine) /\ RangeOffset \in Int

VARIABLES
  inventory,        \* the inventory file
  line,             \* the number of lines read
  sections,         \* the INI file: sections in order, their keys in order
  sectionsParsed,   \* the number of sections parsed
  nodes,            \* the nodes found so far
  result            \* what ParseInventory returns

parserVars == <<inventory, line, sections, sectionsParsed, nodes, result>>

NoResult == [done |-> FALSE]
NewNode == [groups |-> {}, tags |-> {}, ranges |-> <<>>]

ParserInit ==
  /\ inventory \in Files
  /\ line = 0 /\ sections = <<>>
  /\ sectionsParsed = 0 /\ nodes = [h \in {} |-> NewNode]
  /\ result = NoResult

-----------------------------------------------------------------------------
(* ini.Load, line by line.                                                 *)

SectionOf(secs, name) ==
  IF \E i \in DOMAIN secs : secs[i].name = name
  THEN secs
  ELSE Append(secs, [name |-> name, keys |-> <<>>])

\* A key that is there already gets the new value and keeps its place.
SetKey(keys, key) ==
  LET same == {i \in DOMAIN keys : keys[i].host = key.host /\ keys[i].first = key.first}
  IN  IF same = {} THEN Append(keys, key)
      ELSE [i \in DOMAIN keys |-> IF i \in same THEN key ELSE keys[i]]

\* Lines without '=' are removed before the file is loaded.
ReadLine ==
  /\ line < Len(inventory)
  /\ line' = line + 1
  /\ LET l == inventory[line + 1]
         secs == SectionOf(sections, l.section)
         key == [host |-> l.host, first |-> l.vars[1].name, value |-> Tail(l.vars)]
     IN  sections' =
           IF l.vars = <<>> THEN secs
           ELSE [i \in DOMAIN secs |->
                   IF secs[i].name = l.section THEN [secs[i] EXCEPT !.keys = SetKey(@, key)]
                   ELSE secs[i]]
  /\ UNCHANGED <<inventory, sectionsParsed, nodes, result>>

-----------------------------------------------------------------------------
(* parseSection, section by section.                                       *)

Numbers(value, name) == {i \in DOMAIN value : value[i].name = name /\ value[i].value # Bad}

\* The last number of each of the two counts; the range may be empty.
ExtractRange(value) ==
  LET starts == Numbers(value, "validator_start")
      ends == Numbers(value, "validator_end")
      start == value[Max(starts)].value
      end == value[Max(ends)].value
  IN  IF starts # {} /\ ends # {} /\ start <= end
      THEN <<[start |-> start + RangeOffset, end |-> end + RangeOffset]>>
      ELSE <<>>

Mut_NodeReplaced(found, section, key) ==
  [h \in DOMAIN found \union {key.host} |->
     IF h # key.host THEN found[h]
     ELSE [groups |-> {section}, tags |-> Tags[section], ranges |-> ExtractRange(key.value)]]

AddKey(found, section, key) ==
  LET node == IF key.host \in DOMAIN found THEN found[key.host] ELSE NewNode
  IN  [h \in DOMAIN found \union {key.host} |->
         IF h # key.host THEN found[h]
         ELSE [groups |-> node.groups \union {section},
               tags   |-> node.tags \union Tags[section],
               ranges |-> node.ranges \o ExtractRange(key.value)]]

AddSection(found, section) ==
  FoldLeft(LAMBDA known, key : AddKey(known, section.name, key), found, section.keys)

ParseSection ==
  /\ line = Len(inventory) /\ sectionsParsed < Len(sections)
  /\ sectionsParsed' = sectionsParsed + 1
  /\ LET section == sections[sectionsParsed + 1]
     IN  nodes' = IF section.name = DEFAULT THEN nodes ELSE AddSection(nodes, section)
  /\ UNCHANGED <<inventory, line, sections, result>>

-----------------------------------------------------------------------------
(* The rest of ParseInventory: nodes without a range are filtered out.     *)

Count(ranges) == FoldLeft(LAMBDA sum, r : sum + (r.end - r.start), 0, ranges)

BuildGroups(kept) ==
  [g \in UNION {kept[h].groups : h \in DOMAIN kept} |-> {h \in DOMAIN kept : g \in kept[h].groups}]
BuildTags(kept) ==
  [t \in UNION {kept[h].tags : h \in DOMAIN kept} |-> {h \in DOMAIN kept : t \in kept[h].tags}]

NodesWithValidators == [h \in {x \in DOMAIN nodes : nodes[x].ranges # <<>>} |-> nodes[h]]

Outcome(kept) ==
  [done   |-> TRUE,
   nodes  |-> kept,
   total  |-> FoldFunction(LAMBDA node, sum : sum + Count(node.ranges), 0, kept),
   groups |-> BuildGroups(kept),
   tags   |-> BuildTags(kept)]

Finish ==
  /\ line = Len(inventory) /\ sectionsParsed = Len(sections) /\ result = NoResult
  /\ result' = Outcome(NodesWithValidators)
  /\ UNCHANGED <<inventory, line, sections, sectionsParsed, nodes>>

ParserNext == ReadLine \/ ParseSection \/ Finish

ParserSpec == ParserInit /\ [][ParserNext]_parserVars

-----------------------------------------------------------------------------
(* What an inventory means, line by line.                                  *)

HostLines ==
  {i \in DOMAIN inventory : inventory[i].vars # <<>> /\ inventory[i].section # DEFAULT}

\* A later line for the same host in the same section replaces an earlier one
\* if it starts with the same variable.
Replaced(i) ==
  \E j \in HostLines :
    /\ i < j
    /\ inventory[i].section = inventory[j].section /\ inventory[i].host = inventory[j].host
    /\ inventory[i].vars[1].name = inventory[j].vars[1].name

Effective == {i \in HostLines : ~Replaced(i)}
RangeOf(i) == ExtractRange(Tail(inventory[i].vars))
HostsWithRange == {inventory[i].host : i \in {j \in Effective : RangeOf(j) # <<>>}}

\* The result is that of the lines in effect, whatever the order of lines and
\* sections: the nodes are the hosts with a range, the total counts every line's
\* range, and the groups list exactly these hosts, also for the lines of theirs
\* that have no range (parser.go:36-72, 262-303).
ParseIsExact ==
  result.done =>
    /\ DOMAIN result.nodes = HostsWithRange
    /\ result.total = FoldSet(LAMBDA i, sum : sum + Count(RangeOf(i)), 0, Effective)
    /\ \A g \in {inventory[i].section : i \in HostLines} :
         LET members == {inventory[i].host : i \in {j \in HostLines : inventory[j].section = g}}
                          \intersect HostsWithRange
         IN  IF members = {} THEN g \notin DOMAIN result.groups ELSE result.groups[g] = members

\* parser.go:12 "parses an Ansible inventory INI file and extracts validator
\* ranges": a line in effect that gives its host a range makes it a node.
EveryRangeExtracted ==
  result.done => \A i \in Effective :
    ExtractRange(inventory[i].vars) # <<>> => inventory[i].host \in DOMAIN result.nodes
=============================================================================
