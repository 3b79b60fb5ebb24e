--------------------------- MODULE GitHubProvider ---------------------------
(***************************************************************************)
(* Provider.Discover of the GitHub provider: repository after repository,  *)
(* list network-configs, ask for the status of every directory and for     *)
(* what is known of its network, request by request, and add the networks  *)
(* of the repository to the result.                                        *)
(*                                                                         *)
(* A name is a sequence of tokens, <<>> the empty one; a repository path   *)
(* is the sequence of its parts.  What values.yaml, images.yaml and        *)
(* config.yaml say is only that they say something; forks and times are in *)
(* ForkTimestamps.                                                         *)
(***************************************************************************)
EXTENDS Integers, FiniteSets, SequencesExt

CONSTANTS
  Configs,         \* configurations: sequences of repositories [path, prefix]
  Dirs,            \* the directories that may be below network-configs
  Contents,        \* what a repository has for a directory
  Hives,           \* the groups that the hive site has
  ServiceKeys,     \* the services whose URLs are checked
  MaxFailures      \* bound: requests that fail in a behaviour

Places == DOMAIN Contents            \* pairs of a path and a directory

\* values.yaml names a domain, or config files, or both.
Values == {"domain", "files"}
Things == {"kubernetes", "archive", "images", "dns", "config"} \union Values

\* Without repositories Discover returns an error at once.
ASSUME GitHubAssumption ==
  /\ \A c \in Configs :
       /\ c # <<>> /\ c \in Seq(ToSet(c))
       /\ \A i \in DOMAIN c : {c[i].path} \X Dirs \subseteq Places
  /\ \A place \in Places : Contents[place] \subseteq Things
  /\ MaxFailures \in Nat

VARIABLES
  config,      \* the configured repositories, in order
  at,          \* position of the repository in progress
  step,        \* the request that comes next, or "create", "services", "add",
               \* "merge", "returned"
  dirs,        \* directories of the listing that are left
  dir,         \* the directory in progress
  status,      \* its status
  known,       \* what the requests for it have found
  checks,      \* per service: "idle", "checking", "valid" or "invalid" until the
               \* collector takes the result, "taken"
  awaited,     \* results that the collector still waits for
  services,    \* the services whose URLs are valid
  found,       \* the networks of the repository in progress
  networks,    \* the result
  listed,      \* per position: the directories the repository listed (history)
  failures     \* <<place, request, answer>> of the requests that were not
               \* answered, or refused (history)

collector == <<checks, awaited, services>>
network == <<dir, status, known, collector>>
vars == <<config, at, step, dirs, network, found, networks, listed, failures>>

NoNetworks == [n \in {} |-> "none"]
NoDir == <<>>
Repo == config[at]
Place == <<Repo.path, dir>>

Idle ==
  /\ checks = [k \in ServiceKeys |-> "idle"]
  /\ awaited = 0 /\ services = {}

Init ==
  /\ config \in Configs
  /\ at = 1 /\ step = "list"
  /\ dirs = {} /\ dir = NoDir /\ status = "unknown" /\ known = {} /\ Idle
  /\ found = NoNetworks /\ networks = NoNetworks
  /\ listed = [i \in DOMAIN config |-> {}]
  /\ failures = {}

-----------------------------------------------------------------------------
Mut_KeepsKnown == UNCHANGED known

\* Everything but the status is of one directory only.
Forget == known' = {}

\* The next directory of the listing, if there is one.
Continue(left) ==
  /\ Forget
  /\ checks' = [k \in ServiceKeys |-> "idle"] /\ awaited' = 0 /\ services' = {}
  /\ IF left = {}
     THEN dirs' = {} /\ dir' = NoDir /\ step' = "merge"
     ELSE \E d \in left : dirs' = left \ {d} /\ dir' = d /\ step' = "kubernetes"

ListRepository ==
  /\ step = "list" /\ Len(Repo.path) = 2
  /\ \E listing \in SUBSET Dirs :
       /\ listed' = [listed EXCEPT ![at] = listing]
       /\ Continue(listing)
  /\ found' = NoNetworks
  /\ UNCHANGED <<config, at, status, networks, failures>>

Advance ==
  /\ at' = at + 1
  /\ step' = IF at = Len(config) THEN "returned" ELSE "list"

\* A path that is not owner/repo, or a failed request: the repository is logged
\* and skipped, and Discover returns no error.
SkipRepository ==
  /\ step = "list"
  /\ Advance
  /\ UNCHANGED <<config, dirs, network, found, networks, listed, failures>>

-----------------------------------------------------------------------------
(* determineNetworkStatus: only a 404, or no answer at all, means that the *)
(* directory does not exist.  An answer is status 200 or 404, another      *)
(* status such as that of the rate limit, or a transport error.            *)

Fails(request, answer) ==
  /\ Cardinality(failures) < MaxFailures
  /\ failures' = failures \union {<<Place, request, answer>>}

Answered(request, answer) ==
  \/ answer \in {"refused", "noAnswer"} /\ Fails(request, answer)
  \/ /\ answer = IF request \in Contents[Place] THEN "found" ELSE "missing"
     /\ UNCHANGED failures

AllAnswers == {"found", "missing", "refused", "noAnswer"}

Mut_OnlyNoAnswer(answer) == answer # "noAnswer"
Exists(answer) == answer \notin {"missing", "noAnswer"}

AskKubernetes ==
  /\ step = "kubernetes"
  /\ \E answer \in AllAnswers :
       /\ Answered("kubernetes", answer)
       /\ IF Exists(answer)
          THEN status' = "active" /\ step' = "values"
          ELSE status' = "unknown" /\ step' = "archive"
  /\ UNCHANGED <<config, at, dirs, dir, known, collector, found, networks, listed>>

AskArchive ==
  /\ step = "archive"
  /\ \E answer \in AllAnswers :
       /\ Answered("archive", answer)
       /\ status' = IF Exists(answer) THEN "inactive" ELSE "unknown"
  /\ step' = "hive"
  /\ UNCHANGED <<config, at, dirs, dir, known, collector, found, networks, listed>>

-----------------------------------------------------------------------------
(* getNetworkDetails and createNetwork: of these requests every failure is *)
(* as if there were nothing to find.                                       *)

Learn(request, things) ==
  /\ \/ known' = known \union things /\ UNCHANGED failures
     \/ things # {} /\ Fails(request, "noAnswer") /\ UNCHANGED known
  /\ UNCHANGED <<config, at, dirs, dir, status, collector, found, networks, listed>>

GetNetworkConfigs ==
  /\ step = "values" /\ Learn("values", Values \cap Contents[Place])
  /\ step' = "images"

GetImages ==
  /\ step = "images" /\ Learn("images", {"images"} \cap Contents[Place])
  /\ step' = "hive"

\* The group is named after the repository, without its owner and "-devnets".
HiveGroup(path, d) == SelectSeq(path[2], LAMBDA token : token # "-devnets") \o <<"-">> \o d

CheckHiveAvailability ==
  /\ step = "hive" /\ Learn("hive", IF HiveGroup(Repo.path, dir) \in Hives THEN {"hive"} ELSE {})
  /\ step' = "dns"

CheckSelfHostedDNS ==
  /\ step = "dns" /\ Learn("dns", {"dns"} \cap Contents[Place])
  /\ step' = "create"

\* One goroutine for every service of an active network with a domain.
GetServiceURLs ==
  /\ step = "create" /\ status = "active" /\ "domain" \in known
  /\ checks' = [k \in ServiceKeys |-> "checking"]
  /\ awaited' = Cardinality(ServiceKeys)
  /\ step' = "services"
  /\ UNCHANGED <<config, at, dirs, dir, status, known, services, found, networks, listed, failures>>

\* The check has a timeout of two seconds; its goroutine then blocks on a channel
\* without a buffer.
IsURLValid(k) ==
  /\ checks[k] = "checking"
  /\ checks' \in {[checks EXCEPT ![k] = result] : result \in {"valid", "invalid"}}
  /\ UNCHANGED <<config, at, step, dirs, dir, status, known, awaited, services,
                 found, networks, listed, failures>>

Mut_ValidOnly == {"valid"}
Sent == {"valid", "invalid"}

TakeResult(k) ==
  /\ step = "services" /\ awaited > 0 /\ checks[k] \in Sent
  /\ checks' = [checks EXCEPT ![k] = "taken"]
  /\ services' = IF checks[k] = "valid" THEN services \union {k} ELSE services
  /\ awaited' = awaited - 1
  /\ UNCHANGED <<config, at, step, dirs, dir, status, known, found, networks, listed, failures>>

AllTaken ==
  /\ step = "services" /\ awaited = 0
  /\ step' = "config"
  /\ UNCHANGED <<config, at, dirs, network, found, networks, listed, failures>>

ParseConfigYAML ==
  /\ \/ step = "config"
     \/ step = "create" /\ status = "active" /\ "domain" \notin known
  /\ Learn("config", {"config"} \cap Contents[Place])
  /\ step' = "add"

\* The network has genesis files only if there is a domain to find them at.
Details ==
  (known \ Values) \union (IF Values \subseteq known THEN {"genesis"} ELSE {})

AddNetwork ==
  /\ \/ step = "add"
     \/ step = "create" /\ status # "active"
  /\ LET name == Repo.prefix \o dir
     IN found' = [n \in DOMAIN found \union {name} |->
                    IF n = name
                    THEN [repository |-> Repo.path, dir |-> dir, status |-> status,
                          details |-> Details, services |-> services]
                    ELSE found[n]]
  /\ Continue(dirs)
  /\ UNCHANGED <<config, at, status, networks, listed, failures>>

Mut_FirstWins(new) ==
  [n \in DOMAIN networks \union DOMAIN new |->
     IF n \in DOMAIN networks THEN networks[n] ELSE new[n]]

\* maps.Copy: a later repository replaces a network of the same name.
Copy(new) ==
  [n \in DOMAIN networks \union DOMAIN new |->
     IF n \in DOMAIN new THEN new[n] ELSE networks[n]]

MergeRepository ==
  /\ step = "merge"
  /\ networks' = Copy(found)
  /\ Advance
  /\ UNCHANGED <<config, dirs, network, found, listed, failures>>

-----------------------------------------------------------------------------
ServiceURLs ==
  \/ \E k \in ServiceKeys : IsURLValid(k) \/ TakeResult(k)
  \/ AllTaken

Discover ==
  \/ ListRepository \/ SkipRepository
  \/ AskKubernetes \/ AskArchive
  \/ GetNetworkConfigs \/ GetImages \/ CheckHiveAvailability \/ CheckSelfHostedDNS
  \/ GetServiceURLs \/ ServiceURLs \/ ParseConfigYAML
  \/ AddNetwork \/ MergeRepository

-----------------------------------------------------------------------------
TypeOK ==
  /\ config \in Configs
  /\ at \in 1..(Len(config) + 1)
  /\ step \in {"list", "kubernetes", "archive", "values", "images", "hive", "dns", "create",
               "services", "config", "add", "merge", "returned"}
  /\ step = "returned" <=> at > Len(config)
  /\ dirs \subseteq Dirs
  /\ step \notin {"list", "merge", "returned"} => dir \in Dirs
  /\ status \in {"active", "inactive", "unknown"}
  /\ known \subseteq Things \union {"hive"}
  /\ checks \in [ServiceKeys -> {"idle", "checking", "valid", "invalid", "taken"}]
  /\ services \subseteq ServiceKeys
  /\ listed \in [DOMAIN config -> SUBSET Dirs]

\* The result has every directory that a repository listed, whatever other
\* repositories and requests failed, and of two networks with one name that of
\* the later repository.
Listing(name) ==
  {i \in DOMAIN config : \E d \in listed[i] : config[i].prefix \o d = name}
Latest(indices) == CHOOSE i \in indices : \A j \in indices : j <= i

AllNames == UNION {{config[i].prefix \o d : d \in listed[i]} : i \in DOMAIN config}

ResultIsComplete ==
  step = "returned" =>
    /\ DOMAIN networks = AllNames
    /\ \A n \in AllNames : networks[n].repository = config[Latest(Listing(n))].path

\* The status of every network is that of its own directories (status.go:24-45),
\* except that a refused request can make a network look alive, or archived,
\* and one without an answer can hide a directory.  Its details are those that
\* its own repository has and its status calls for, except where a request for
\* one of them failed.
Wanted(place, thing) ==
  CASE thing = "genesis" -> Values \subseteq Contents[place]
    [] thing = "hive" -> HiveGroup(place[1], place[2]) \in Hives
    [] OTHER -> thing \in Contents[place]
Due(as, thing) == as = "active" \/ thing \in {"hive", "dns"}

Failed(place, request, answer) == <<place, request, answer>> \in failures
Seen(place, where) == where \in Contents[place] \/ Failed(place, where, "refused")
Unseen(place, where) == where \notin Contents[place] \/ Failed(place, where, "noAnswer")
StatusIsOf(place, as) ==
  /\ as = "active" => Seen(place, "kubernetes")
  /\ as # "active" => Unseen(place, "kubernetes")
  /\ as = "inactive" => Seen(place, "archive")
  /\ as = "unknown" => Unseen(place, "archive")

Missed(place, thing) == Failed(place, IF thing = "genesis" THEN "values" ELSE thing, "noAnswer")
DetailsAreOf(place, as, details) ==
  /\ \A thing \in details : Due(as, thing) /\ Wanted(place, thing)
  /\ \A thing \in {"images", "config", "hive", "dns", "genesis"} \ details :
       Due(as, thing) /\ Wanted(place, thing) => Missed(place, thing)

IsTruthful(own) ==
  LET place == <<own.repository, own.dir>>
  IN  /\ StatusIsOf(place, own.status)
      /\ DetailsAreOf(place, own.status, own.details)
      /\ own.services # {} => own.status = "active" /\ "domain" \in Contents[place]

NetworksAreTruthful == \A n \in DOMAIN networks : IsTruthful(networks[n])

\* The collector of the service URLs takes exactly one result of every goroutine:
\* it does not wait for one that never comes and leaves none blocked.
ChecksEnd ==
  step = "services" ~> step = "config" /\ \A k \in ServiceKeys : checks[k] = "taken"
=============================================================================
