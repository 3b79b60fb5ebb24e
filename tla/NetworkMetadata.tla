--------------------------- MODULE NetworkMetadata ---------------------------
(***************************************************************************)
(* From the configured repositories to the published networks: the GitHub  *)
(* provider discovers, its networks are merged with the static ones, and   *)
(* buildNetworkMetadata (pkg/discovery/service.go) makes one entry for     *)
(* every configured repository, with statistics about the networks.  A     *)
(* network is assigned to an entry by the prefix of its name or by its     *)
(* repository, whichever configured repository matches first.              *)
(*                                                                         *)
(* A network has the key of the map of networks, with the prefix of its    *)
(* repository, and the name it is published with, its directory without    *)
(* the prefix.  Networks are grouped by their keys, and listed with their  *)
(* names.  The descriptive fields of an entry stand for the position of    *)
(* the repository that they were copied from.                              *)
(***************************************************************************)
EXTENDS GitHubProvider

CONSTANT StaticNames   \* the keys of static networks, which have no repository

ASSUME MetadataAssumption ==
  /\ \A c \in Configs : \A i \in DOMAIN c :
       /\ c[i].path # <<>> /\ \A part \in DOMAIN c[i].path : c[i].path[part] # <<>>
       /\ c[i].prefix \in Seq(ToSet(c[i].prefix)) /\ c[i].prefix # <<"-">>
  /\ IsFiniteSet(Dirs) /\ \A d \in Dirs : d \in Seq(ToSet(d))

VARIABLES
  phase,       \* "discovering", "merged" or "built"
  result,      \* the networks of the result, by key
  metadata     \* the network metadata of the result

catalogVars == <<vars, phase, result, metadata>>

NoRepository == <<>>
Static == [n \in StaticNames |-> [repository |-> NoRepository, status |-> "active"]]

CatalogInit ==
  Init /\ phase = "discovering" /\ result = NoNetworks /\ metadata = NoNetworks

-----------------------------------------------------------------------------
\* runDiscovery: of networks with one name, that of the provider that answers
\* last stays.
Over(later, earlier) ==
  [n \in DOMAIN later \union DOMAIN earlier |->
     IF n \in DOMAIN later THEN later[n] ELSE earlier[n]]

MergeProviders ==
  /\ step = "returned" /\ phase = "discovering"
  /\ phase' = "merged"
  /\ result' \in {Over(networks, Static), Over(Static, networks)}
  /\ UNCHANGED <<vars, metadata>>

TrimDash(prefix) ==
  IF prefix # <<>> /\ Last(prefix) = "-" THEN Front(prefix) ELSE prefix

\* The repository's own name, or the whole path if it is not owner/repo.
PathKey(path) == IF Len(path) = 2 THEN path[2] ELSE FlattenSeq(path)

EntryKey(repo) == IF repo.prefix = <<>> THEN PathKey(repo.path) ELSE TrimDash(repo.prefix)

PrefixMatches(repo, name) == repo.prefix # <<>> /\ IsPrefix(repo.prefix, name)

Mut_NotTrimmed(repo, name) ==
  IF PrefixMatches(repo, name) THEN repo.prefix ELSE PathKey(repo.path)

MatchKey(repo, name) ==
  IF PrefixMatches(repo, name) THEN TrimDash(repo.prefix) ELSE PathKey(repo.path)

Mut_AnyPrefix(name) == {i \in DOMAIN config : IsPrefix(config[i].prefix, name)}

Matches(name) ==
  {i \in DOMAIN config :
     PrefixMatches(config[i], name) \/ config[i].path = result[name].repository}

\* The empty key stands for a network that no repository matches.
GroupKey(name) ==
  IF result[name].repository = NoRepository \/ Matches(name) = {}
  THEN <<>>
  ELSE MatchKey(config[CHOOSE i \in Matches(name) : \A j \in Matches(name) : i <= j], name)

Group(key) == {n \in DOMAIN result : GroupKey(n) = key /\ key # <<>>}

Active(group) == {n \in group : result[n].status = "active"}

\* The names of networks, in random order: as often as there are networks with them.
NamesIn(group) ==
  [d \in {result[n].dir : n \in group} |-> Cardinality({n \in group : result[n].dir = d})]

\* Of two repositories with one key, the later one describes the entry.
Entry(key) ==
  LET repos == {i \in DOMAIN config : EntryKey(config[i]) = key}
      group == Group(key)
  IN  [repo     |-> CHOOSE i \in repos : \A j \in repos : j <= i,
       names    |-> NamesIn(group),
       total    |-> Cardinality(group),
       active   |-> Cardinality(Active(group)),
       inactive |-> Cardinality(group \ Active(group))]

BuildNetworkMetadata ==
  /\ phase = "merged"
  /\ phase' = "built"
  /\ metadata' = [key \in {EntryKey(config[i]) : i \in DOMAIN config} |-> Entry(key)]
  /\ UNCHANGED <<vars, result>>

Next ==
  \/ Discover /\ UNCHANGED <<phase, result, metadata>>
  \/ MergeProviders \/ BuildNetworkMetadata

Spec == CatalogInit /\ [][Next]_catalogVars

\* A check of a URL ends by its timeout; the requests to GitHub have none.
FairSpec == Spec /\ WF_catalogVars(ServiceURLs /\ UNCHANGED <<phase, result, metadata>>)

-----------------------------------------------------------------------------
Built == phase = "built"
FromRepositories == {n \in DOMAIN result : result[n].repository # NoRepository}

NoneTwice == \A i, j \in DOMAIN config : config[i].path = config[j].path => i = j

\* When no repository is configured twice, every network that comes from a
\* repository is in the statistics of one entry and of no other, although it may
\* match several repositories and several repositories may share an entry
\* (service.go:338-378): the entries are those of some assignment of all networks,
\* in their totals as in the names that they list.
StatsCoverEveryNetwork ==
  Built /\ NoneTwice =>
    \E entryOf \in [FromRepositories -> DOMAIN metadata] : \A k \in DOMAIN metadata :
      LET counted == {n \in FromRepositories : entryOf[n] = k}
      IN  /\ metadata[k].total = Cardinality(counted)
          /\ metadata[k].active = Cardinality(Active(counted))
          /\ metadata[k].inactive = Cardinality(counted \ Active(counted))
          /\ metadata[k].names = NamesIn(counted)

\* The networks that a repository lists, unless their keys start with the prefix
\* of another one.
AtHome(i) ==
  {n \in FromRepositories :
     /\ config[i].path = result[n].repository
     /\ \A j \in DOMAIN config \ {i} : ~PrefixMatches(config[j], n)}

\* A network is then counted for the repository that lists it, whatever the order
\* of the configuration, unless its key starts with the prefix of another one:
\* the entry has its directory as a name, once for every repository that shares
\* the entry and has such a directory (service.go:341-359, 381).
CountedWhereListed ==
  Built /\ NoneTwice => \A k \in DOMAIN metadata, d \in Dirs :
    LET owners == {i \in DOMAIN config : EntryKey(config[i]) = k}
        homes == {n \in UNION {AtHome(i) : i \in owners} : result[n].dir = d}
        names == metadata[k].names
    IN  homes # {} => d \in DOMAIN names /\ Cardinality(homes) <= names[d]
=============================================================================
