------------------------ MODULE NetworkMetadataProofs ------------------------
(***************************************************************************)
(* Proofs about NetworkMetadata, and the discovery of GitHubProvider that  *)
(* it is built on, for every configuration, every contents of the          *)
(* repositories and any number of failures.                                *)
(***************************************************************************)
EXTENDS NetworkMetadata, FiniteSetTheorems, SequenceTheorems, WellFoundedInduction, TLAPS

-----------------------------------------------------------------------------
(* Types.                                                                  *)

InDirectory == {"kubernetes", "archive", "values", "images", "hive", "dns", "create", "services",
                "config", "add"}

PlacesOK ==
  /\ config \in Configs
  /\ at \in 1..(Len(config) + 1)
  /\ step \in {"list", "merge", "returned"} \union InDirectory
  /\ step = "returned" <=> at > Len(config)
  /\ dirs \subseteq Dirs
  /\ step \in InDirectory => dir \in Dirs
  /\ step = "merge" => dirs = {}
  /\ listed \in [DOMAIN config -> SUBSET Dirs]

ChecksOK ==
  /\ checks \in [ServiceKeys -> {"idle", "checking", "valid", "invalid", "taken"}]
  /\ services \subseteq ServiceKeys

FindingsOK ==
  /\ status \in {"active", "inactive", "unknown"}
  /\ known \subseteq Things \union {"hive"}

LEMMA ConfigIsASequence ==
  ASSUME config \in Configs
  PROVE  /\ Len(config) \in Nat \ {0}
         /\ DOMAIN config = 1..Len(config)
BY GitHubAssumption DEF GitHubAssumption

\* What an action does to the place that the discovery is at.
SamePlace == UNCHANGED <<config, at, dirs, dir, listed>>

LEMMA Moves ==
  ASSUME Discover
  PROVE  \/ ListRepository \/ SkipRepository \/ AddNetwork \/ MergeRepository
         \/ /\ SamePlace /\ UNCHANGED <<found, networks>>
            /\ UNCHANGED step \/ (step \in InDirectory /\ step' \in InDirectory)
<1>1. CASE AskKubernetes \/ AskArchive
  BY <1>1 DEF AskKubernetes, AskArchive, SamePlace, InDirectory
<1>2. CASE GetNetworkConfigs \/ GetImages \/ CheckHiveAvailability \/ CheckSelfHostedDNS \/ ParseConfigYAML
  BY <1>2 DEF GetNetworkConfigs, GetImages, CheckHiveAvailability, CheckSelfHostedDNS,
       ParseConfigYAML, Learn, SamePlace, InDirectory
<1>3. CASE GetServiceURLs BY <1>3 DEF GetServiceURLs, SamePlace, InDirectory
<1>4. ASSUME NEW k \in ServiceKeys, IsURLValid(k) \/ TakeResult(k)
      PROVE  SamePlace /\ UNCHANGED <<step, found, networks>>
  BY <1>4 DEF IsURLValid, TakeResult, SamePlace
<1>5. CASE AllTaken BY <1>5 DEF AllTaken, network, SamePlace, InDirectory
<1>. QED BY <1>1, <1>2, <1>3, <1>4, <1>5 DEF Discover, ServiceURLs

\* Where the discovery goes in the listing.
LEMMA Continues ==
  ASSUME NEW left \in SUBSET Dirs, Continue(left)
  PROVE  \/ left = {} /\ dirs' = {} /\ step' = "merge"
         \/ dir' \in left /\ dirs' = left \ {dir'} /\ step' = "kubernetes"
BY DEF Continue

LEMMA Advances ==
  ASSUME PlacesOK, Advance, step # "returned", UNCHANGED <<config, dirs, listed>>
  PROVE  PlacesOK'
<1>. USE ConfigIsASequence DEF PlacesOK
<1>1. Len(config) \in Nat /\ at \in 1..(Len(config) + 1) /\ ~(at > Len(config))
  OBVIOUS
<1>2. at' = at + 1 /\ step' \in {"list", "returned"} /\ (step' = "returned" <=> at = Len(config))
  BY DEF Advance
<1>3. at' \in 1..(Len(config) + 1) /\ (at' > Len(config) <=> at = Len(config))
  BY ONLY <1>1, <1>2
<1>4. step' \notin InDirectory /\ step' # "merge"
  BY <1>2 DEF InDirectory
<1>. QED BY <1>2, <1>3, <1>4

LEMMA PlacesStep ==
  ASSUME PlacesOK, Discover
  PROVE  PlacesOK'
<1>. USE ConfigIsASequence DEF PlacesOK
<1>1. CASE ListRepository
  <2>1. PICK listing \in SUBSET Dirs : listed' = [listed EXCEPT ![at] = listing] /\ Continue(listing)
    BY <1>1 DEF ListRepository
  <2>2. UNCHANGED <<config, at>> /\ at <= Len(config)
    BY <1>1 DEF ListRepository
  <2>. QED BY <2>1, <2>2, Continues DEF InDirectory
<1>2. CASE SkipRepository BY <1>2, Advances DEF SkipRepository
<1>3. CASE MergeRepository BY <1>3, Advances DEF MergeRepository
<1>4. CASE AddNetwork
  <2>1. Continue(dirs) /\ UNCHANGED <<config, at, listed>> /\ step \in InDirectory
    BY <1>4 DEF AddNetwork, InDirectory
  <2>. QED BY <2>1, Continues DEF InDirectory
<1>5. CASE SamePlace /\ (UNCHANGED step \/ (step \in InDirectory /\ step' \in InDirectory))
  BY <1>5 DEF SamePlace, InDirectory
<1>. QED BY <1>1, <1>2, <1>3, <1>4, <1>5, Moves

LEMMA ChecksStep ==
  ASSUME ChecksOK, Discover
  PROVE  ChecksOK'
<1>. USE DEF ChecksOK
<1>1. CASE \E left : Continue(left) BY <1>1 DEF Continue
<1>2. CASE UNCHANGED <<checks, services>> BY <1>2
<1>3. CASE GetServiceURLs BY <1>3 DEF GetServiceURLs
<1>4. ASSUME NEW k \in ServiceKeys, IsURLValid(k)
      PROVE  ChecksOK'
  BY <1>4 DEF IsURLValid
<1>5. ASSUME NEW k \in ServiceKeys, TakeResult(k)
      PROVE  ChecksOK'
  BY <1>5 DEF TakeResult
<1>6. \/ \E left : Continue(left)
      \/ UNCHANGED <<checks, services>>
      \/ GetServiceURLs \/ \E k \in ServiceKeys : IsURLValid(k) \/ TakeResult(k)
  BY DEF Discover, ListRepository, SkipRepository, AskKubernetes, AskArchive, GetNetworkConfigs,
         GetImages, CheckHiveAvailability, CheckSelfHostedDNS, ServiceURLs, AllTaken,
         ParseConfigYAML, Learn, AddNetwork, MergeRepository, network, collector
<1>. QED BY <1>1, <1>2, <1>3, <1>4, <1>5, <1>6

-----------------------------------------------------------------------------
(* Truth.  What is known of the directory in progress at every step.       *)

\* The steps at which the answer to a request is there.
AfterValues == {"images", "hive", "dns", "create", "services", "config", "add"}
AfterImages == AfterValues \ {"images"}
AfterHive == AfterImages \ {"hive"}
AfterDNS == AfterHive \ {"dns"}

StatusIsTrue ==
  /\ status \in {"active", "inactive", "unknown"}
  /\ step = "archive" => Unseen(Place, "kubernetes")
  /\ step \in {"values", "images", "services", "config", "add"} => status = "active"
  /\ step \in InDirectory \ {"kubernetes", "archive"} => StatusIsOf(Place, status)

KnownIsTrue ==
  /\ known \subseteq Things \union {"hive"}
  /\ step \in {"kubernetes", "archive"} => known = {}
  /\ step \in InDirectory =>
       /\ known \subseteq Values \union {"images", "config", "hive", "dns"}
       /\ status # "active" => known \subseteq {"hive", "dns"}
       /\ known \ {"hive"} \subseteq Contents[Place]
       /\ "hive" \in known => HiveGroup(Repo.path, dir) \in Hives

\* What was asked for and is not known could not be found out, or is not there.
Asked(thing, request) ==
  thing \in known \/ thing \notin Contents[Place] \/ Failed(Place, request, "noAnswer")

KnownIsComplete ==
  /\ status = "active" /\ step \in AfterValues => \A thing \in Values : Asked(thing, "values")
  /\ status = "active" /\ step \in AfterImages => Asked("images", "images")
  /\ step \in AfterHive =>
       \/ "hive" \in known \/ HiveGroup(Repo.path, dir) \notin Hives
       \/ Failed(Place, "hive", "noAnswer")
  /\ step \in AfterDNS => Asked("dns", "dns")
  /\ step = "add" => Asked("config", "config")

ServicesAreTrue ==
  /\ services # {} => step \in {"services", "config", "add"}
  /\ step = "services" \/ services # {} => "domain" \in Contents[Place]

ProgressIsTrue == StatusIsTrue /\ KnownIsTrue /\ KnownIsComplete /\ ServicesAreTrue

LEMMA FailuresGrow ==
  ASSUME Discover
  PROVE  failures \subseteq failures'
BY DEF Discover, ListRepository, SkipRepository, AskKubernetes, AskArchive, Answered, Fails,
       GetNetworkConfigs, GetImages, CheckHiveAvailability, CheckSelfHostedDNS, GetServiceURLs,
       ServiceURLs, IsURLValid, TakeResult, AllTaken, ParseConfigYAML, Learn, AddNetwork,
       MergeRepository

\* An answer other than a failed one says what is there.
LEMMA AnswersAreTrue ==
  ASSUME NEW request \in {"kubernetes", "archive"}, NEW answer \in AllAnswers,
         Answered(request, answer), UNCHANGED <<config, at, dir>>
  PROVE  /\ Exists(answer) => Seen(Place, request)'
         /\ ~Exists(answer) => Unseen(Place, request)'
BY DEF AllAnswers, Answered, Fails, Exists, Seen, Unseen, Failed, Place, Repo

\* A request adds what it was made for, or has failed.
LEMMA LearnsOrFails ==
  ASSUME NEW request, NEW things, Learn(request, things)
  PROVE  /\ UNCHANGED <<config, at, dir, status, services>>
         /\ failures \subseteq failures'
         /\ known \subseteq known' /\ known' \subseteq known \union things
         /\ things \subseteq known' \/ Failed(Place, request, "noAnswer")'
BY DEF Learn, Fails, Failed, Place, Repo, collector

LEMMA ProgressStays ==
  ASSUME failures \subseteq failures', UNCHANGED <<config, at, dir, status>>
  PROVE  /\ StatusIsOf(Place, status) => StatusIsOf(Place, status)'
         /\ Unseen(Place, "kubernetes") => Unseen(Place, "kubernetes")'
         /\ known \subseteq known' =>
              \A thing, request : Asked(thing, request) => Asked(thing, request)'
BY DEF StatusIsOf, Seen, Unseen, Asked, Failed, Place, Repo

LEMMA StatusStep ==
  ASSUME StatusIsTrue, Discover
  PROVE  StatusIsTrue'
<1>. USE DEF StatusIsTrue, InDirectory
<1>1. CASE AskKubernetes
  <2>1. PICK answer \in AllAnswers :
          /\ Answered("kubernetes", answer)
          /\ IF Exists(answer)
             THEN status' = "active" /\ step' = "values"
             ELSE status' = "unknown" /\ step' = "archive"
    BY <1>1 DEF AskKubernetes
  <2>2. UNCHANGED <<config, at, dir>> BY <1>1 DEF AskKubernetes
  <2>3. /\ Exists(answer) => Seen(Place, "kubernetes")'
        /\ ~Exists(answer) => Unseen(Place, "kubernetes")'
    BY <2>1, <2>2, AnswersAreTrue
  <2>. QED BY <2>1, <2>3 DEF StatusIsOf
<1>2. CASE AskArchive
  <2>1. PICK answer \in AllAnswers :
          /\ Answered("archive", answer)
          /\ status' = IF Exists(answer) THEN "inactive" ELSE "unknown"
    BY <1>2 DEF AskArchive
  <2>2. UNCHANGED <<config, at, dir>> /\ step = "archive" /\ step' = "hive"
    BY <1>2 DEF AskArchive
  <2>3. /\ Exists(answer) => Seen(Place, "archive")'
        /\ ~Exists(answer) => Unseen(Place, "archive")'
    BY <2>1, <2>2, AnswersAreTrue
  <2>4. Unseen(Place, "kubernetes")'
    BY <2>2, FailuresGrow DEF Unseen, Failed, Place, Repo
  <2>. QED BY <2>1, <2>2, <2>3, <2>4 DEF StatusIsOf
<1>3. CASE /\ UNCHANGED <<config, at, dir, status>>
           /\ step' = step
              \/ /\ step' \in InDirectory \ {"kubernetes", "archive"}
                 /\ step \in InDirectory \ {"kubernetes", "archive"}
                 /\ step' \in {"values", "images", "services", "config", "add"} => status = "active"
  BY <1>3, FailuresGrow, ProgressStays
<1>4. CASE UNCHANGED status /\ step' \in {"list", "merge", "returned", "kubernetes"}
  BY <1>4
<1>5. CASE ListRepository \/ AddNetwork
  BY <1>4, <1>5 DEF ListRepository, AddNetwork, Continue
<1>6. CASE SkipRepository \/ MergeRepository
  BY <1>4, <1>6 DEF SkipRepository, MergeRepository, Advance, network
<1>7. CASE GetNetworkConfigs \/ GetImages \/ CheckHiveAvailability \/ CheckSelfHostedDNS \/ ParseConfigYAML
  BY <1>3, <1>7 DEF GetNetworkConfigs, GetImages, CheckHiveAvailability, CheckSelfHostedDNS,
       ParseConfigYAML, Learn
<1>8. CASE GetServiceURLs BY <1>3, <1>8 DEF GetServiceURLs
<1>9. CASE ServiceURLs
  BY <1>3, <1>9 DEF ServiceURLs, IsURLValid, TakeResult, AllTaken, network
<1>. QED BY <1>1, <1>2, <1>5, <1>6, <1>7, <1>8, <1>9 DEF Discover

LEMMA KnownStep ==
  ASSUME PlacesOK, StatusIsTrue, KnownIsTrue, Discover
  PROVE  KnownIsTrue'
<1>. USE DEF KnownIsTrue, StatusIsTrue, InDirectory, Things, Values
<1>1. CASE known' = {} BY <1>1
<1>2. CASE AskKubernetes \/ AskArchive
  BY <1>2 DEF AskKubernetes, AskArchive
<1>3. CASE /\ UNCHANGED <<config, at, dir, status, known>>
           /\ step' = step
              \/ /\ step' \in InDirectory \ {"kubernetes", "archive"}
                 /\ step \in InDirectory \ {"kubernetes", "archive"}
  BY <1>3 DEF Place, Repo
<1>4. CASE ListRepository \/ AddNetwork
  BY <1>1, <1>4 DEF ListRepository, AddNetwork, Continue, Forget
<1>5. CASE SkipRepository \/ MergeRepository
  BY <1>5 DEF SkipRepository, MergeRepository, Advance, network
<1>6. CASE GetServiceURLs BY <1>3, <1>6 DEF GetServiceURLs
<1>7. CASE ServiceURLs
  BY <1>3, <1>7 DEF ServiceURLs, IsURLValid, TakeResult, AllTaken, network
<1>8. ASSUME NEW request, NEW things, Learn(request, things),
             step \in InDirectory \ {"kubernetes", "archive"},
             step' \in InDirectory \ {"kubernetes", "archive"},
             things \subseteq Values \union {"images", "config", "hive", "dns"},
             status # "active" => things \subseteq {"hive", "dns"},
             things \ {"hive"} \subseteq Contents[Place],
             "hive" \in things => HiveGroup(Repo.path, dir) \in Hives
      PROVE  KnownIsTrue'
  <2>1. /\ UNCHANGED <<config, at, dir, status>>
        /\ known \subseteq known' /\ known' \subseteq known \union things
    BY <1>8, LearnsOrFails
  <2>. QED BY <1>8, <2>1 DEF Place, Repo
<1>9. CASE GetNetworkConfigs BY <1>8, <1>9 DEF GetNetworkConfigs
<1>10. CASE GetImages BY <1>8, <1>10 DEF GetImages
<1>11. CASE CheckHiveAvailability BY <1>8, <1>11 DEF CheckHiveAvailability
<1>12. CASE CheckSelfHostedDNS BY <1>8, <1>12 DEF CheckSelfHostedDNS
<1>13. CASE ParseConfigYAML BY <1>8, <1>13 DEF ParseConfigYAML
<1>. QED BY <1>2, <1>4, <1>5, <1>6, <1>7, <1>9, <1>10, <1>11, <1>12, <1>13 DEF Discover

LEMMA CompleteStep ==
  ASSUME PlacesOK, StatusIsTrue, KnownIsTrue, KnownIsComplete, Discover
  PROVE  KnownIsComplete'
<1>. USE DEF KnownIsComplete, StatusIsTrue, InDirectory, AfterValues, AfterImages, AfterHive, AfterDNS
<1>1. CASE step' \in {"list", "merge", "returned", "kubernetes", "archive", "values"}
  BY <1>1
<1>2. CASE AskKubernetes BY <1>1, <1>2 DEF AskKubernetes
<1>3. CASE AskArchive
  <2>1. step' = "hive" /\ status' # "active"
    BY <1>3 DEF AskArchive
  <2>. QED BY <2>1
<1>4. ASSUME UNCHANGED <<config, at, dir, status>>, known \subseteq known',
             failures \subseteq failures'
      PROVE  /\ \A thing, request : Asked(thing, request) => Asked(thing, request)'
             /\ Failed(Place, "hive", "noAnswer") => Failed(Place, "hive", "noAnswer")'
             /\ UNCHANGED HiveGroup(Repo.path, dir)
  BY <1>4, ProgressStays DEF Failed, Place, Repo
<1>5. CASE ListRepository \/ AddNetwork
  BY <1>1, <1>5 DEF ListRepository, AddNetwork, Continue
<1>6. CASE SkipRepository \/ MergeRepository
  BY <1>1, <1>6 DEF SkipRepository, MergeRepository, Advance
<1>7. CASE GetServiceURLs
  <2>1. UNCHANGED <<config, at, dir, status, known>> /\ step = "create" /\ step' = "services"
    BY <1>7 DEF GetServiceURLs
  <2>. QED BY <2>1, <1>4, FailuresGrow
<1>8. CASE ServiceURLs
  <2>1. UNCHANGED <<config, at, dir, status, known>> /\ (UNCHANGED step \/ (step = "services" /\ step' = "config"))
    BY <1>8 DEF ServiceURLs, IsURLValid, TakeResult, AllTaken, network
  <2>. QED BY <2>1, <1>4, FailuresGrow
<1>9. CASE GetNetworkConfigs
  <2>1. step = "values" /\ step' = "images" /\ Learn("values", Values \cap Contents[Place])
    BY <1>9 DEF GetNetworkConfigs
  <2>2. \A thing \in Values : Asked(thing, "values")'
    BY <2>1, LearnsOrFails DEF Asked, Place, Repo
  <2>. QED BY <2>1, <2>2
<1>10. CASE GetImages
  <2>1. step = "images" /\ step' = "hive" /\ Learn("images", {"images"} \cap Contents[Place])
    BY <1>10 DEF GetImages
  <2>2. Asked("images", "images")'
    BY <2>1, LearnsOrFails DEF Asked, Place, Repo
  <2>3. UNCHANGED <<config, at, dir, status>> /\ known \subseteq known' /\ failures \subseteq failures'
    BY <2>1, LearnsOrFails
  <2>. QED BY <2>1, <2>2, <2>3, <1>4
<1>11. CASE CheckHiveAvailability
  <2>1. /\ step = "hive" /\ step' = "dns"
        /\ Learn("hive", IF HiveGroup(Repo.path, dir) \in Hives THEN {"hive"} ELSE {})
    BY <1>11 DEF CheckHiveAvailability
  <2>2. \/ "hive" \in known' \/ HiveGroup(Repo.path, dir)' \notin Hives
        \/ Failed(Place, "hive", "noAnswer")'
    BY <2>1, LearnsOrFails DEF Place, Repo
  <2>3. UNCHANGED <<config, at, dir, status>> /\ known \subseteq known' /\ failures \subseteq failures'
    BY <2>1, LearnsOrFails
  <2>. QED BY <2>1, <2>2, <2>3, <1>4
<1>12. CASE CheckSelfHostedDNS
  <2>1. step = "dns" /\ step' = "create" /\ Learn("dns", {"dns"} \cap Contents[Place])
    BY <1>12 DEF CheckSelfHostedDNS
  <2>2. Asked("dns", "dns")'
    BY <2>1, LearnsOrFails DEF Asked, Place, Repo
  <2>3. UNCHANGED <<config, at, dir, status>> /\ known \subseteq known' /\ failures \subseteq failures'
    BY <2>1, LearnsOrFails
  <2>. QED BY <2>1, <2>2, <2>3, <1>4
<1>13. CASE ParseConfigYAML
  <2>1. /\ step \in {"config", "create"} /\ step' = "add"
        /\ Learn("config", {"config"} \cap Contents[Place])
    BY <1>13 DEF ParseConfigYAML
  <2>2. Asked("config", "config")'
    BY <2>1, LearnsOrFails DEF Asked, Place, Repo
  <2>3. UNCHANGED <<config, at, dir, status>> /\ known \subseteq known' /\ failures \subseteq failures'
    BY <2>1, LearnsOrFails
  <2>. QED BY <2>1, <2>2, <2>3, <1>4
<1>. QED BY <1>2, <1>3, <1>5, <1>6, <1>7, <1>8, <1>9, <1>10, <1>11, <1>12, <1>13 DEF Discover

LEMMA ServicesStep ==
  ASSUME PlacesOK, StatusIsTrue, KnownIsTrue, ServicesAreTrue, Discover
  PROVE  ServicesAreTrue'
<1>. USE DEF ServicesAreTrue
<1>1. CASE services' = {} /\ step' # "services" BY <1>1
<1>2. CASE ListRepository \/ AddNetwork
  BY <1>1, <1>2 DEF ListRepository, AddNetwork, Continue
<1>3. CASE SkipRepository \/ MergeRepository
  BY <1>3 DEF SkipRepository, MergeRepository, Advance, network, collector
<1>4. CASE AskKubernetes \/ AskArchive
  BY <1>4 DEF AskKubernetes, AskArchive, collector
<1>5. CASE GetNetworkConfigs \/ GetImages \/ CheckHiveAvailability \/ CheckSelfHostedDNS
  BY <1>5 DEF GetNetworkConfigs, GetImages, CheckHiveAvailability, CheckSelfHostedDNS, Learn, collector
<1>6. CASE GetServiceURLs
  BY <1>6 DEF GetServiceURLs, KnownIsTrue, InDirectory, Place, Repo
<1>7. CASE ServiceURLs
  <2>1. /\ UNCHANGED <<config, at, dir>>
        /\ step' = step \/ (step = "services" /\ step' = "config" /\ UNCHANGED services)
        /\ UNCHANGED services \/ step = "services"
    BY <1>7 DEF ServiceURLs, IsURLValid, TakeResult, AllTaken, network, collector
  <2>. QED BY <2>1 DEF Place, Repo
<1>8. CASE ParseConfigYAML
  <2>1. UNCHANGED <<config, at, dir, services>> /\ step' = "add"
    BY <1>8 DEF ParseConfigYAML, Learn, collector
  <2>. QED BY <2>1 DEF Place, Repo
<1>. QED BY <1>2, <1>3, <1>4, <1>5, <1>6, <1>7, <1>8 DEF Discover

LEMMA TruthStays ==
  ASSUME NEW own, IsTruthful(own), failures \subseteq failures'
  PROVE  IsTruthful(own)'
BY DEF IsTruthful, StatusIsOf, DetailsAreOf, Seen, Unseen, Missed, Failed

FoundAreTruthful == \A n \in DOMAIN found : IsTruthful(found[n])

\* What AddNetwork makes of what is known.
Made == [repository |-> Repo.path, dir |-> dir, status |-> status,
         details |-> Details, services |-> services]

LEMMA MadeIsTruthful ==
  ASSUME PlacesOK, ProgressIsTrue, step = "add" \/ (step = "create" /\ status # "active")
  PROVE  IsTruthful(Made)
<1>. USE DEF ProgressIsTrue, InDirectory
<1>1. Place = <<Made.repository, Made.dir>> /\ Made.status = status
  BY DEF Made, Place
<1>2. StatusIsOf(Place, status) BY DEF StatusIsTrue
<1>3. \A thing \in Details : Due(status, thing) /\ Wanted(Place, thing)
  <2>1. ASSUME NEW thing \in known \ Values
        PROVE  Due(status, thing) /\ Wanted(Place, thing)
    <3>1. CASE thing = "hive"
      BY <3>1 DEF KnownIsTrue, Due, Wanted, Place
    <3>2. CASE thing # "hive"
      <4>1. thing \in Contents[Place] /\ thing \in {"images", "config", "dns"}
        BY <2>1, <3>2 DEF KnownIsTrue
      <4>2. Due(status, thing)
        BY <2>1, <3>2 DEF KnownIsTrue, Due
      <4>. QED BY <4>1, <4>2 DEF Wanted
    <3>. QED BY <3>1, <3>2
  <2>2. ASSUME Values \subseteq known
        PROVE  Due(status, "genesis") /\ Wanted(Place, "genesis")
    BY <2>2 DEF KnownIsTrue, Values, Due, Wanted
  <2>. QED BY <2>1, <2>2 DEF Details
<1>4. ASSUME NEW thing \in {"images", "config", "hive", "dns", "genesis"} \ Details,
             Due(status, thing), Wanted(Place, thing)
      PROVE  Missed(Place, thing)
  <2>1. step \in AfterValues /\ step \in AfterImages /\ step \in AfterHive /\ step \in AfterDNS
    BY DEF AfterValues, AfterImages, AfterHive, AfterDNS
  <2>2. CASE thing = "images" \/ thing = "config"
    <3>1. status = "active" /\ thing \in Contents[Place] /\ thing \notin known
      BY <1>4, <2>2 DEF Due, Wanted, Details, Values
    <3>. QED BY <2>1, <2>2, <3>1 DEF KnownIsComplete, Asked, Missed
  <2>3. CASE thing = "dns"
    <3>1. thing \in Contents[Place] /\ thing \notin known
      BY <1>4, <2>3 DEF Wanted, Details, Values
    <3>. QED BY <2>1, <2>3, <3>1 DEF KnownIsComplete, Asked, Missed
  <2>4. CASE thing = "hive"
    <3>1. HiveGroup(Repo.path, dir) \in Hives /\ thing \notin known
      BY <1>4, <2>4 DEF Wanted, Details, Values, Place
    <3>. QED BY <2>1, <2>4, <3>1 DEF KnownIsComplete, Missed
  <2>5. CASE thing = "genesis"
    <3>1. status = "active" /\ Values \subseteq Contents[Place] /\ ~(Values \subseteq known)
      BY <1>4, <2>5 DEF Due, Wanted, Details
    <3>. QED BY <2>1, <2>5, <3>1 DEF KnownIsComplete, Asked, Missed
  <2>. QED BY <2>2, <2>3, <2>4, <2>5
<1>5. services # {} => status = "active" /\ "domain" \in Contents[Place]
  BY DEF ServicesAreTrue, StatusIsTrue
<1>. QED BY <1>1, <1>2, <1>3, <1>4, <1>5 DEF IsTruthful, DetailsAreOf, Made

LEMMA FoundStep ==
  ASSUME PlacesOK, ProgressIsTrue, FoundAreTruthful, Discover
  PROVE  FoundAreTruthful'
<1>1. CASE AddNetwork
  <2>1. PICK made : made = Made
    OBVIOUS
  <2>2. IsTruthful(made)'
    <3>1. IsTruthful(made) BY <1>1, <2>1, MadeIsTruthful DEF AddNetwork
    <3>. QED BY <3>1, FailuresGrow, TruthStays
  <2>3. ASSUME NEW n \in DOMAIN found'
        PROVE  found'[n] = made \/ (n \in DOMAIN found /\ found'[n] = found[n])
    BY <1>1, <2>1 DEF AddNetwork, Made
  <2>4. ASSUME NEW n \in DOMAIN found'
        PROVE  IsTruthful(found[n])'
    <3>1. PICK own : own = found'[n]
      OBVIOUS
    <3>2. IsTruthful(own)'
      BY <2>2, <2>3, <2>4, <3>1, FailuresGrow, TruthStays DEF FoundAreTruthful
    <3>. QED BY <3>1, <3>2 DEF IsTruthful
  <2>. QED BY <2>4 DEF FoundAreTruthful
<1>2. CASE UNCHANGED found
  <2>1. ASSUME NEW n \in DOMAIN found
        PROVE  IsTruthful(found[n])'
    <3>1. PICK own : own = found[n]
      OBVIOUS
    <3>2. IsTruthful(own)'
      BY <3>1, FailuresGrow, TruthStays DEF FoundAreTruthful
    <3>. QED BY <1>2, <3>1, <3>2 DEF IsTruthful
  <2>. QED BY <1>2, <2>1 DEF FoundAreTruthful
<1>3. CASE ListRepository
  BY <1>3 DEF ListRepository, NoNetworks, FoundAreTruthful
<1>4. CASE SkipRepository \/ MergeRepository
  BY <1>2, <1>4 DEF SkipRepository, MergeRepository
<1>. QED BY <1>1, <1>2, <1>3, <1>4, Moves

LEMMA NetworksStep ==
  ASSUME FoundAreTruthful, NetworksAreTruthful, Discover
  PROVE  NetworksAreTruthful'
<1>1. ASSUME NEW n \in DOMAIN networks'
      PROVE  \/ n \in DOMAIN found /\ networks'[n] = found[n]
             \/ n \in DOMAIN networks /\ networks'[n] = networks[n]
  <2>1. CASE MergeRepository BY <1>1, <2>1 DEF MergeRepository, Copy
  <2>2. CASE UNCHANGED networks BY <1>1, <2>2
  <2>. QED BY <2>1, <2>2, Moves DEF ListRepository, SkipRepository, AddNetwork
<1>2. ASSUME NEW n \in DOMAIN networks'
      PROVE  IsTruthful(networks[n])'
  <2>1. PICK own : own = networks'[n]
    OBVIOUS
  <2>2. IsTruthful(own)'
    BY <1>1, <1>2, <2>1, FailuresGrow, TruthStays DEF FoundAreTruthful, NetworksAreTruthful
  <2>. QED BY <2>1, <2>2 DEF IsTruthful
<1>. QED BY <1>2 DEF NetworksAreTruthful

-----------------------------------------------------------------------------
(* Completeness.  The result has the names of the repositories before the  *)
(* one in progress, each from the latest of those that list it; the names  *)
(* of the one in progress are found, left, or the one in progress.         *)

NamesOf(repo, some) == {repo.prefix \o d : d \in some}
InProgress == IF step \in InDirectory THEN {dir} ELSE {}

ListedInOrder ==
  \A i \in DOMAIN config : i > at \/ (i = at /\ step = "list") => listed[i] = {}

FoundAreComplete ==
  step \notin {"list", "returned"} =>
    /\ NamesOf(config[at], listed[at]) = DOMAIN found \union NamesOf(config[at], dirs \union InProgress)
    /\ \A n \in DOMAIN found : found[n].repository = config[at].path

\* Repository i is the latest before the one in progress that lists n.
IsLatest(i, n) ==
  /\ i \in DOMAIN config /\ i < at /\ n \in NamesOf(config[i], listed[i])
  /\ \A j \in DOMAIN config : j < at /\ n \in NamesOf(config[j], listed[j]) => j <= i

NetworksAreComplete ==
  /\ \A i \in DOMAIN config : i < at => NamesOf(config[i], listed[i]) \subseteq DOMAIN networks
  /\ \A n \in DOMAIN networks :
       \E i \in DOMAIN config : IsLatest(i, n) /\ networks[n].repository = config[i].path

LEMMA OrderStep ==
  ASSUME PlacesOK, ListedInOrder, Discover
  PROVE  ListedInOrder'
<1>. USE ConfigIsASequence DEF PlacesOK, ListedInOrder, InDirectory
<1>1. CASE ListRepository
  <2>1. /\ UNCHANGED <<config, at>> /\ step = "list"
        /\ \E listing : listed' = [listed EXCEPT ![at] = listing]
    BY <1>1 DEF ListRepository
  <2>2. step' # "list"
    BY <1>1 DEF ListRepository, Continue
  <2>3. \A i \in DOMAIN config : i # at => listed'[i] = listed[i]
    BY <2>1
  <2>4. ASSUME NEW i \in DOMAIN config, i > at
        PROVE  listed'[i] = {}
    <3>1. i # at BY <2>4
    <3>. QED BY <2>3, <2>4, <3>1
  <2>. QED BY <2>1, <2>2, <2>4
<1>2. CASE SkipRepository \/ MergeRepository
  <2>1. UNCHANGED <<config, listed>> /\ at' = at + 1
    BY <1>2 DEF SkipRepository, MergeRepository, Advance
  <2>. QED BY <2>1
<1>3. CASE AddNetwork
  <2>1. UNCHANGED <<config, at, listed>> /\ step' # "list"
    BY <1>3 DEF AddNetwork, Continue
  <2>. QED BY <2>1
<1>4. CASE SamePlace /\ (UNCHANGED step \/ (step \in InDirectory /\ step' \in InDirectory))
  BY <1>4 DEF SamePlace
<1>. QED BY <1>1, <1>2, <1>3, <1>4, Moves

\* What is left of a listing, and the directory that comes next, are the listing.
LEMMA NothingIsLost ==
  ASSUME NEW left \in SUBSET Dirs, Continue(left)
  PROVE  dirs' \union InProgress' = left
BY Continues DEF InProgress, InDirectory

LEMMA FoundCompleteStep ==
  ASSUME PlacesOK, FoundAreComplete, Discover
  PROVE  FoundAreComplete'
<1>. USE ConfigIsASequence DEF PlacesOK, FoundAreComplete
<1>1. CASE ListRepository
  <2>1. PICK listing \in SUBSET Dirs : listed' = [listed EXCEPT ![at] = listing] /\ Continue(listing)
    BY <1>1 DEF ListRepository
  <2>2. UNCHANGED <<config, at>> /\ DOMAIN found' = {} /\ at \in DOMAIN config
    BY <1>1 DEF ListRepository, NoNetworks
  <2>3. dirs' \union InProgress' = listing /\ listed'[at] = listing
    BY <2>1, <2>2, NothingIsLost
  <2>. QED BY <2>2, <2>3 DEF NamesOf
<1>2. CASE SkipRepository \/ MergeRepository
  BY <1>2 DEF SkipRepository, MergeRepository, Advance
<1>3. CASE AddNetwork
  <2>1. Continue(dirs) /\ UNCHANGED <<config, at, listed>> /\ step \in InDirectory
    BY <1>3 DEF AddNetwork, InDirectory
  <2>2. dirs' \union InProgress' = dirs
    BY <2>1, NothingIsLost
  <2>3. DOMAIN found' = DOMAIN found \union {config[at].prefix \o dir}
    BY <1>3 DEF AddNetwork, Repo
  <2>4. \A n \in DOMAIN found' : found'[n].repository = config[at].path
    BY <1>3, <2>1 DEF AddNetwork, Repo, InDirectory
  <2>5. NamesOf(config[at], dirs \union InProgress) = NamesOf(config[at], dirs) \union {config[at].prefix \o dir}
    BY <2>1 DEF NamesOf, InProgress
  <2>6. NamesOf(config[at], listed[at]) = DOMAIN found' \union NamesOf(config[at], dirs' \union InProgress')
    BY <2>1, <2>2, <2>3, <2>5 DEF InDirectory
  <2>. QED BY <2>1, <2>4, <2>6 DEF NamesOf
<1>4. CASE /\ SamePlace /\ UNCHANGED <<found, networks>>
           /\ UNCHANGED step \/ (step \in InDirectory /\ step' \in InDirectory)
  <2>1. InProgress' = InProgress /\ (step' \in {"list", "returned"} <=> step \in {"list", "returned"})
    BY <1>4 DEF SamePlace, InProgress, InDirectory
  <2>2. UNCHANGED <<config, at, listed, dirs, found>>
    BY <1>4 DEF SamePlace
  <2>. QED BY <2>1, <2>2
<1>. QED BY <1>1, <1>2, <1>3, <1>4, Moves

LEMMA NetworksCompleteStep ==
  ASSUME PlacesOK, ListedInOrder, FoundAreComplete, NetworksAreComplete, Discover
  PROVE  NetworksAreComplete'
<1>. USE ConfigIsASequence DEF PlacesOK
<1>1. CASE UNCHANGED <<config, at, networks>> /\ \A i \in DOMAIN config : i < at => listed'[i] = listed[i]
  BY <1>1 DEF NetworksAreComplete, IsLatest
<1>2. CASE ListRepository
  <2>1. UNCHANGED <<config, at, networks>> /\ \E listing : listed' = [listed EXCEPT ![at] = listing]
    BY <1>2 DEF ListRepository
  <2>2. \A i \in DOMAIN config : i < at => listed'[i] = listed[i]
    BY <2>1
  <2>. QED BY <1>1, <2>1, <2>2
<1>3. CASE AddNetwork BY <1>1, <1>3 DEF AddNetwork
<1>4. CASE SkipRepository
  <2>1. UNCHANGED <<config, listed, networks>> /\ at' = at + 1 /\ step = "list"
    BY <1>4 DEF SkipRepository, Advance
  <2>2. at \in DOMAIN config /\ listed[at] = {}
    BY <2>1 DEF ListedInOrder
  <2>3. NamesOf(config[at], listed[at]) = {}
    BY <2>2 DEF NamesOf
  <2>4. ASSUME NEW i \in DOMAIN config, NEW n, IsLatest(i, n)
        PROVE  IsLatest(i, n)'
    BY <2>1, <2>3, <2>4 DEF IsLatest
  <2>. QED BY <2>1, <2>3, <2>4 DEF NetworksAreComplete
<1>5. CASE MergeRepository
  <2>1. UNCHANGED <<config, listed>> /\ at' = at + 1 /\ step = "merge" /\ networks' = Copy(found)
    BY <1>5 DEF MergeRepository, Advance
  <2>. PICK here \in DOMAIN config : here = at
    BY <2>1
  <2>2. NamesOf(config[here], listed[here]) = DOMAIN found
    <3>1. dirs \union InProgress = {} BY <2>1 DEF InProgress, InDirectory
    <3>2. NamesOf(config[here], {}) = {} BY DEF NamesOf
    <3>. QED BY <2>1, <3>1, <3>2 DEF FoundAreComplete
  <2>3. ASSUME NEW n \in DOMAIN found
        PROVE  IsLatest(here, n)' /\ networks'[n].repository = config[here].path
    <3>1. networks'[n].repository = config[here].path
      BY <2>1 DEF Copy, FoundAreComplete
    <3>2. \A j \in DOMAIN config : j < at' => j <= here
      BY <2>1
    <3>. QED BY <2>1, <2>2, <3>1, <3>2 DEF IsLatest
  <2>4. ASSUME NEW n \in DOMAIN networks \ DOMAIN found, NEW i \in DOMAIN config, IsLatest(i, n)
        PROVE  IsLatest(i, n)' /\ networks'[n] = networks[n]
    BY <2>1, <2>2, <2>4 DEF IsLatest, Copy
  <2>5. \A i \in DOMAIN config : i < at' => NamesOf(config[i], listed[i]) \subseteq DOMAIN networks'
    BY <2>1, <2>2 DEF NetworksAreComplete, Copy
  <2>6. ASSUME NEW n \in DOMAIN networks'
        PROVE  \E i \in DOMAIN config : IsLatest(i, n)' /\ networks'[n].repository = config[i].path
    <3>1. CASE n \in DOMAIN found BY <2>3, <3>1
    <3>2. CASE n \in DOMAIN networks \ DOMAIN found BY <2>4, <3>2 DEF NetworksAreComplete
    <3>. QED BY <2>1, <3>1, <3>2 DEF Copy
  <2>. QED BY <2>1, <2>5, <2>6 DEF NetworksAreComplete
<1>6. CASE SamePlace /\ UNCHANGED networks
  BY <1>1, <1>6 DEF SamePlace
<1>. QED BY <1>2, <1>3, <1>4, <1>5, <1>6, Moves

LEMMA CompleteWhenReturned ==
  ASSUME PlacesOK, NetworksAreComplete
  PROVE  ResultIsComplete
<1>. SUFFICES ASSUME step = "returned"
              PROVE  /\ DOMAIN networks = AllNames
                     /\ \A n \in DOMAIN networks : networks[n].repository = config[Latest(Listing(n))].path
  BY DEF ResultIsComplete
<1>1. \A i \in DOMAIN config : i < at
  BY ConfigIsASequence DEF PlacesOK
<1>2. \A i \in DOMAIN config : \A n : i \in Listing(n) <=> n \in NamesOf(config[i], listed[i])
  BY DEF Listing, NamesOf
<1>3. AllNames = UNION {NamesOf(config[i], listed[i]) : i \in DOMAIN config}
  BY DEF AllNames, NamesOf
<1>4. AllNames \subseteq DOMAIN networks
  BY <1>1, <1>3 DEF NetworksAreComplete
<1>5. ASSUME NEW n \in DOMAIN networks
      PROVE  n \in AllNames /\ networks[n].repository = config[Latest(Listing(n))].path
  <2>1. PICK i \in DOMAIN config : IsLatest(i, n) /\ networks[n].repository = config[i].path
    BY DEF NetworksAreComplete
  <2>2. n \in AllNames
    BY <1>3, <2>1 DEF IsLatest
  <2>3. i \in Listing(n) /\ \A j \in Listing(n) : j <= i
    BY <1>1, <1>2, <2>1 DEF IsLatest, Listing
  <2>4. Listing(n) \subseteq Nat
    BY ConfigIsASequence DEF Listing, PlacesOK
  <2>5. \A j \in Listing(n) : (\A k \in Listing(n) : k <= j) => j = i
    BY <2>3, <2>4
  <2>6. Latest(Listing(n)) = i
    BY <2>3, <2>5 DEF Latest
  <2>. QED BY <2>1, <2>2, <2>6
<1>. QED BY <1>4, <1>5

-----------------------------------------------------------------------------
Inv ==
  /\ PlacesOK /\ ChecksOK /\ ProgressIsTrue /\ FoundAreTruthful /\ NetworksAreTruthful
  /\ ListedInOrder /\ FoundAreComplete /\ NetworksAreComplete

LEMMA InitialInv ==
  ASSUME Init
  PROVE  Inv
<1>. USE ConfigIsASequence DEF Init
<1>1. /\ step = "list" /\ at = 1 /\ dirs = {} /\ services = {} /\ known = {}
      /\ DOMAIN found = {} /\ DOMAIN networks = {}
  BY DEF Idle, NoNetworks
<1>2. PlacesOK BY <1>1 DEF PlacesOK, InDirectory
<1>3. ChecksOK BY DEF ChecksOK, Idle
<1>4. ProgressIsTrue
  BY <1>1 DEF ProgressIsTrue, StatusIsTrue, KnownIsTrue, KnownIsComplete, ServicesAreTrue,
       InDirectory, AfterValues, AfterImages, AfterHive, AfterDNS
<1>5. FoundAreTruthful /\ NetworksAreTruthful
  BY <1>1 DEF FoundAreTruthful, NetworksAreTruthful
<1>6. ListedInOrder BY DEF ListedInOrder
<1>7. FoundAreComplete BY <1>1 DEF FoundAreComplete
<1>8. NetworksAreComplete BY <1>1 DEF NetworksAreComplete
<1>. QED BY <1>2, <1>3, <1>4, <1>5, <1>6, <1>7, <1>8 DEF Inv

LEMMA DiscoverStep ==
  ASSUME Inv, Discover
  PROVE  Inv'
<1>1. PlacesOK' /\ ChecksOK' BY PlacesStep, ChecksStep DEF Inv
<1>2. ProgressIsTrue'
  BY StatusStep, KnownStep, CompleteStep, ServicesStep DEF Inv, ProgressIsTrue
<1>3. FoundAreTruthful' /\ NetworksAreTruthful' BY FoundStep, NetworksStep DEF Inv
<1>4. ListedInOrder' /\ FoundAreComplete' /\ NetworksAreComplete'
  BY OrderStep, FoundCompleteStep, NetworksCompleteStep DEF Inv
<1>. QED BY <1>1, <1>2, <1>3, <1>4 DEF Inv

LEMMA StutteringStep ==
  ASSUME Inv, UNCHANGED vars
  PROVE  Inv'
<1>. USE DEF vars, network, collector
<1>1. PlacesOK' /\ ChecksOK' BY DEF Inv, PlacesOK, ChecksOK
<1>2. ProgressIsTrue'
  BY DEF Inv, ProgressIsTrue, StatusIsTrue, KnownIsTrue, KnownIsComplete, ServicesAreTrue, Asked,
         StatusIsOf, Seen, Unseen, Failed, Place, Repo
<1>3. FoundAreTruthful' /\ NetworksAreTruthful'
  BY DEF Inv, FoundAreTruthful, NetworksAreTruthful, IsTruthful, StatusIsOf, DetailsAreOf, Seen,
         Unseen, Missed, Failed
<1>4. ListedInOrder' /\ FoundAreComplete' /\ NetworksAreComplete'
  BY DEF Inv, ListedInOrder, FoundAreComplete, NetworksAreComplete, IsLatest, InProgress
<1>. QED BY <1>1, <1>2, <1>3, <1>4 DEF Inv

THEOREM Invariance == Spec => []Inv
<1>1. CatalogInit => Inv BY InitialInv DEF CatalogInit
<1>2. Inv /\ [Next]_catalogVars => Inv'
  BY DiscoverStep, StutteringStep DEF Next, MergeProviders, BuildNetworkMetadata, catalogVars
<1>. QED BY <1>1, <1>2, PTL DEF Spec

\* Every variable of the provider has its type.
THEOREM TypeCorrect == Spec => []TypeOK
<1>1. Inv => TypeOK
  BY Zenon DEF Inv, PlacesOK, ChecksOK, ProgressIsTrue, StatusIsTrue, KnownIsTrue, TypeOK, InDirectory
<1>. QED BY <1>1, Invariance, PTL

\* No directory that a repository listed is lost, whatever fails elsewhere, and
\* of two networks with one name that of the later repository stays.
THEOREM ResultCorrect == Spec => []ResultIsComplete
<1>1. Inv => ResultIsComplete BY CompleteWhenReturned DEF Inv
<1>. QED BY <1>1, Invariance, PTL

\* Nothing in the result is of another directory, or contradicts what the
\* repositories have, except where a request for it has failed.
THEOREM ResultTruthful == Spec => []NetworksAreTruthful
<1>1. Inv => NetworksAreTruthful BY DEF Inv
<1>. QED BY <1>1, Invariance, PTL

-----------------------------------------------------------------------------
(* Statistics.  A network of the result is listed by a repository whose    *)
(* path has two parts, so that a key can be made of it.                    *)

ListedArePairs == \A i \in DOMAIN config : listed[i] # {} => Len(config[i].path) = 2

LEMMA PairsStep ==
  ASSUME PlacesOK, ListedArePairs, Discover
  PROVE  ListedArePairs'
<1>1. CASE ListRepository
  <2>1. /\ UNCHANGED <<config, at>> /\ Len(config[at].path) = 2
        /\ \E listing : listed' = [listed EXCEPT ![at] = listing]
    BY <1>1 DEF ListRepository, Repo
  <2>2. \A i \in DOMAIN config : i # at => listed'[i] = listed[i]
    BY <2>1 DEF PlacesOK
  <2>. QED BY <2>1, <2>2 DEF ListedArePairs
<1>2. CASE UNCHANGED <<config, listed>> BY <1>2 DEF ListedArePairs
<1>. QED BY <1>1, <1>2, Moves DEF SkipRepository, AddNetwork, MergeRepository, SamePlace

Origin(i, n) ==
  /\ i \in DOMAIN config /\ config[i].path = result[n].repository
  /\ Len(config[i].path) = 2
  /\ \E d \in Dirs : n = config[i].prefix \o d

ResultHasOrigins ==
  /\ phase \in {"discovering", "merged", "built"}
  /\ phase # "discovering" => step = "returned" /\ \A n \in FromRepositories : \E i : Origin(i, n)

MetadataIsBuilt ==
  Built => metadata = [key \in {EntryKey(config[i]) : i \in DOMAIN config} |-> Entry(key)]

LEMMA OriginsStep ==
  ASSUME PlacesOK, NetworksAreComplete, ListedArePairs, ResultHasOrigins, [Next]_catalogVars
  PROVE  ResultHasOrigins'
<1>1. CASE MergeProviders
  <2>1. /\ step = "returned" /\ phase' = "merged" /\ UNCHANGED <<config, listed, networks, step>>
        /\ result' \in {Over(networks, Static), Over(Static, networks)}
    BY <1>1 DEF MergeProviders, vars
  <2>2. ASSUME NEW n \in DOMAIN result', result'[n].repository # NoRepository
        PROVE  n \in DOMAIN networks /\ result'[n] = networks[n]
    <3>1. \A m \in DOMAIN Static : Static[m].repository = NoRepository
      BY DEF Static
    <3>. QED BY <2>1, <2>2, <3>1 DEF Over
  <2>3. ASSUME NEW n \in DOMAIN networks, result'[n] = networks[n]
        PROVE  \E i : Origin(i, n)'
    <3>1. PICK i \in DOMAIN config : IsLatest(i, n) /\ networks[n].repository = config[i].path
      BY DEF NetworksAreComplete
    <3>2. PICK d \in listed[i] : n = config[i].prefix \o d
      BY <3>1 DEF IsLatest, NamesOf
    <3>. QED BY <2>1, <2>3, <3>1, <3>2 DEF Origin, ListedArePairs, PlacesOK
  <2>. QED BY <2>1, <2>2, <2>3 DEF ResultHasOrigins, FromRepositories
<1>2. CASE Discover /\ UNCHANGED <<phase, result, metadata>>
  <2>1. phase # "discovering" => UNCHANGED <<config, step>>
    BY <1>2, Moves DEF ResultHasOrigins, ListRepository, SkipRepository, AddNetwork, MergeRepository,
         SamePlace, InDirectory
  <2>. QED BY <1>2, <2>1 DEF ResultHasOrigins, FromRepositories, Origin
<1>3. CASE BuildNetworkMetadata \/ UNCHANGED catalogVars
  BY <1>3 DEF BuildNetworkMetadata, catalogVars, vars, ResultHasOrigins, FromRepositories, Origin
<1>. QED BY <1>1, <1>2, <1>3 DEF Next

LEMMA BuiltStep ==
  ASSUME PlacesOK, ResultHasOrigins, MetadataIsBuilt, [Next]_catalogVars
  PROVE  MetadataIsBuilt'
<1>1. ASSUME UNCHANGED <<config, result>>, NEW key
      PROVE  Entry(key)' = Entry(key)
  <2>1. ASSUME NEW n PROVE Matches(n)' = Matches(n)
    BY <1>1 DEF Matches
  <2>2. ASSUME NEW n PROVE GroupKey(n)' = GroupKey(n)
    <3>. DEFINE first(S) == CHOOSE i \in S : \A j \in S : i <= j
    <3>1. GroupKey(n) = IF result[n].repository = NoRepository \/ Matches(n) = {}
                        THEN <<>> ELSE MatchKey(config[first(Matches(n))], n)
      BY DEF GroupKey
    <3>2. GroupKey(n)' = IF result'[n].repository = NoRepository \/ Matches(n)' = {}
                         THEN <<>> ELSE MatchKey(config'[first(Matches(n)')], n)
      BY DEF GroupKey
    <3>. HIDE DEF first
    <3>. QED BY <1>1, <2>1, <3>1, <3>2
  <2>3. Group(key)' = Group(key)
    BY <1>1, <2>2 DEF Group
  <2>. QED BY <1>1, <2>3 DEF Entry, NamesIn, Active
<1>2. CASE UNCHANGED <<config, result, phase, metadata>>
  BY <1>1, <1>2 DEF MetadataIsBuilt, Built
<1>3. CASE BuildNetworkMetadata
  BY <1>1, <1>3 DEF BuildNetworkMetadata, vars, MetadataIsBuilt
<1>4. CASE ~Built' BY <1>4 DEF MetadataIsBuilt
<1>5. CASE Discover /\ UNCHANGED <<phase, result, metadata>>
  <2>1. Built => UNCHANGED config
    BY <1>5, Moves DEF Built, ResultHasOrigins, ListRepository, SkipRepository, AddNetwork,
         MergeRepository, SamePlace, InDirectory
  <2>. QED BY <1>2, <1>4, <1>5, <2>1 DEF Built
<1>6. CASE MergeProviders BY <1>4, <1>6 DEF MergeProviders, Built
<1>7. CASE UNCHANGED catalogVars BY <1>2, <1>7 DEF catalogVars, vars
<1>. QED BY <1>3, <1>5, <1>6, <1>7 DEF Next

LEMMA NamesStartWithPrefix ==
  ASSUME config \in Configs, NEW i \in DOMAIN config, NEW d \in Dirs, config[i].prefix # <<>>
  PROVE  PrefixMatches(config[i], config[i].prefix \o d)
<1>. DEFINE p == config[i].prefix
            T == ToSet(p) \union ToSet(d)
<1>1. p \in Seq(ToSet(p)) /\ d \in Seq(ToSet(d))
  BY MetadataAssumption DEF MetadataAssumption
<1>2. p \in Seq(T) /\ d \in Seq(T)
  BY <1>1
<1>3. Len(p) \in 1..Len(p) /\ 1 \in 1..Len(p)
  BY <1>1
<1>4. SubSeq(p \o d, 1, Len(p)) = SubSeq(p, 1, Len(p))
  BY <1>2, <1>3, SubSeqOfConcat1
<1>5. Len(p) <= Len(p \o d)
  BY <1>2
<1>. QED BY <1>4, <1>5 DEF PrefixMatches, IsPrefix

\* No key is the empty one that stands for a network without a repository.
LEMMA KeysAreNotEmpty ==
  ASSUME config \in Configs, NEW i \in DOMAIN config
  PROVE  /\ config[i].prefix # <<>> => TrimDash(config[i].prefix) # <<>>
         /\ Len(config[i].path) = 2 => PathKey(config[i].path) # <<>>
<1>. DEFINE p == config[i].prefix
<1>1. ASSUME p # <<>>
      PROVE  TrimDash(p) # <<>>
  <2>1. p \in Seq(ToSet(p)) /\ p # <<"-">>
    BY MetadataAssumption DEF MetadataAssumption
  <2>2. CASE Len(p) = 1 /\ Last(p) = "-"
    <3>1. p = <<"-">> BY <2>1, <2>2 DEF Last
    <3>. QED BY <2>1, <3>1
  <2>3. CASE Len(p) > 1
    <3>1. Len(Front(p)) = Len(p) - 1
      BY <2>1, <2>3 DEF Front
    <3>. QED BY <1>1, <2>1, <2>3, <3>1 DEF TrimDash
  <2>4. CASE Last(p) # "-" BY <1>1, <2>4 DEF TrimDash
  <2>5. Len(p) \in Nat \ {0}
    BY <1>1, <2>1, EmptySeq
  <2>6. \A n \in Nat \ {0} : n = 1 \/ n > 1
    OBVIOUS
  <2>. QED BY <2>2, <2>3, <2>4, <2>5, <2>6, Zenon
<1>2. ASSUME Len(config[i].path) = 2
      PROVE  PathKey(config[i].path) # <<>>
  BY <1>2, MetadataAssumption DEF MetadataAssumption, PathKey
<1>. QED BY <1>1, <1>2

\* The first of the repositories that a network matches.
LEMMA FirstMatch ==
  ASSUME config \in Configs, NEW n, Matches(n) # {}
  PROVE  LET m == CHOOSE i \in Matches(n) : \A j \in Matches(n) : i <= j
         IN  m \in Matches(n)
<1>1. Matches(n) \subseteq Nat
  BY ConfigIsASequence DEF Matches
<1>2. \E i \in Matches(n) : \A j \in Matches(n) : <<j, i>> \notin OpToRel(<, Nat)
  BY <1>1, WFMin, NatLessThanWellFounded, Zenon
<1>3. \E i \in Matches(n) : \A j \in Matches(n) : ~ (j < i)
  BY <1>1, <1>2, Zenon DEF OpToRel
<1>4. \E i \in Matches(n) : \A j \in Matches(n) : i <= j
  BY <1>1, <1>3
<1>. QED BY <1>4

\* A network of a repository has the key of an entry, which is that of its own
\* repository if no prefix of another one matches.
LEMMA KeyOfListed ==
  ASSUME config \in Configs, NoneTwice, NEW n \in FromRepositories, NEW i, Origin(i, n)
  PROVE  \E m \in DOMAIN config :
           /\ GroupKey(n) = EntryKey(config[m]) /\ GroupKey(n) # <<>>
           /\ m # i => PrefixMatches(config[m], n)
<1>. DEFINE m == CHOOSE j \in Matches(n) : \A k \in Matches(n) : j <= k
<1>1. i \in DOMAIN config /\ i \in Matches(n) /\ config[i].path = result[n].repository
  BY DEF Origin, Matches
<1>2. m \in Matches(n) /\ m \in DOMAIN config
  BY <1>1, FirstMatch DEF Matches
<1>3. GroupKey(n) = MatchKey(config[m], n)
  BY <1>1 DEF GroupKey, FromRepositories
<1>4. CASE PrefixMatches(config[m], n)
  <2>1. config[m].prefix # <<>> BY <1>4 DEF PrefixMatches
  <2>2. GroupKey(n) = TrimDash(config[m].prefix) BY <1>3, <1>4 DEF MatchKey
  <2>3. EntryKey(config[m]) = TrimDash(config[m].prefix) BY <2>1 DEF EntryKey
  <2>. QED BY <1>2, <1>4, <2>1, <2>2, <2>3, KeysAreNotEmpty
<1>5. CASE ~PrefixMatches(config[m], n)
  <2>1. m = i
    BY <1>1, <1>2, <1>5 DEF Matches, NoneTwice
  <2>2. PICK d \in Dirs : n = config[i].prefix \o d
    BY DEF Origin
  <2>3. config[i].prefix = <<>>
    BY <1>1, <1>5, <2>1, <2>2, NamesStartWithPrefix
  <2>4. GroupKey(n) = PathKey(config[i].path) BY <1>3, <1>5, <2>1 DEF MatchKey
  <2>5. EntryKey(config[i]) = PathKey(config[i].path) BY <2>3 DEF EntryKey
  <2>. QED BY <1>1, <2>4, <2>5, KeysAreNotEmpty DEF Origin
<1>. QED BY <1>4, <1>5

StatisticsInv == PlacesOK /\ ListedArePairs /\ ResultHasOrigins /\ MetadataIsBuilt

LEMMA StatisticsInvariance == Spec => []StatisticsInv
<1>1. CatalogInit => StatisticsInv
  <2>. SUFFICES ASSUME CatalogInit PROVE StatisticsInv OBVIOUS
  <2>1. phase = "discovering" /\ Init BY DEF CatalogInit
  <2>2. PlacesOK BY <2>1, InitialInv DEF Inv
  <2>3. ListedArePairs BY <2>1 DEF ListedArePairs, Init
  <2>. QED BY <2>1, <2>2, <2>3 DEF StatisticsInv, ResultHasOrigins, MetadataIsBuilt, Built
<1>2. Inv /\ StatisticsInv /\ Inv' /\ [Next]_catalogVars => StatisticsInv'
  <2>. SUFFICES ASSUME Inv, StatisticsInv, Inv', [Next]_catalogVars PROVE StatisticsInv' OBVIOUS
  <2>1. ListedArePairs'
    <3>1. CASE Discover BY <3>1, PairsStep DEF StatisticsInv
    <3>2. CASE UNCHANGED vars BY <3>2 DEF vars, StatisticsInv, ListedArePairs
    <3>. QED BY <3>1, <3>2 DEF Next, MergeProviders, BuildNetworkMetadata, catalogVars
  <2>2. ResultHasOrigins' /\ MetadataIsBuilt'
    BY OriginsStep, BuiltStep DEF StatisticsInv, Inv
  <2>. QED BY <2>1, <2>2 DEF StatisticsInv, Inv
<1>. QED BY <1>1, <1>2, Invariance, PTL DEF Spec

\* What the entries say when they are built.
LEMMA Counted ==
  ASSUME StatisticsInv, Built
  PROVE  /\ DOMAIN metadata = {EntryKey(config[i]) : i \in DOMAIN config}
         /\ \A k \in DOMAIN metadata :
              /\ metadata[k].total = Cardinality(Group(k))
              /\ metadata[k].active = Cardinality(Active(Group(k)))
              /\ metadata[k].inactive = Cardinality(Group(k) \ Active(Group(k)))
              /\ metadata[k].names = NamesIn(Group(k))
<1>1. ASSUME NEW k
      PROVE  /\ Entry(k).total = Cardinality(Group(k))
             /\ Entry(k).active = Cardinality(Active(Group(k)))
             /\ Entry(k).inactive = Cardinality(Group(k) \ Active(Group(k)))
             /\ Entry(k).names = NamesIn(Group(k))
  BY DEF Entry
<1>. QED BY <1>1 DEF StatisticsInv, MetadataIsBuilt

\* A network is grouped under the key of an entry.
LEMMA KeyIsOfAnEntry ==
  ASSUME StatisticsInv, Built, NoneTwice, NEW n \in FromRepositories
  PROVE  GroupKey(n) \in DOMAIN metadata /\ GroupKey(n) # <<>>
<1>1. PICK i : Origin(i, n)
  BY DEF StatisticsInv, ResultHasOrigins, Built
<1>2. PICK m \in DOMAIN config : GroupKey(n) = EntryKey(config[m]) /\ GroupKey(n) # <<>>
  BY <1>1, KeyOfListed DEF StatisticsInv, PlacesOK
<1>. QED BY <1>2, Counted

\* The entries are those of one assignment of all networks from repositories: no
\* network is left out of the statistics, and none is counted for two entries.
THEOREM StatisticsCover == Spec => []StatsCoverEveryNetwork
<1>1. StatisticsInv => StatsCoverEveryNetwork
  <2>. DEFINE entryOf == [n \in FromRepositories |-> GroupKey(n)]
              counted(k) == {n \in FromRepositories : entryOf[n] = k}
  <2>. SUFFICES ASSUME StatisticsInv, Built, NoneTwice
                PROVE  /\ entryOf \in [FromRepositories -> DOMAIN metadata]
                       /\ \A k \in DOMAIN metadata :
                            /\ metadata[k].total = Cardinality(counted(k))
                            /\ metadata[k].active = Cardinality(Active(counted(k)))
                            /\ metadata[k].inactive = Cardinality(counted(k) \ Active(counted(k)))
                            /\ metadata[k].names = NamesIn(counted(k))
    BY DEF StatsCoverEveryNetwork
  <2>1. \A n \in FromRepositories : GroupKey(n) \in DOMAIN metadata /\ GroupKey(n) # <<>>
    BY KeyIsOfAnEntry
  <2>2. \A k : Group(k) \subseteq FromRepositories
    BY DEF Group, GroupKey, FromRepositories
  <2>3. \A k : counted(k) = Group(k)
    BY <2>1, <2>2 DEF Group, FromRepositories
  <2>. HIDE DEF counted
  <2>. QED BY <2>1, <2>3, Counted
<1>. QED BY <1>1, StatisticsInvariance, PTL

\* The networks from repositories are finitely many.
LEMMA ListedAreFinite ==
  ASSUME StatisticsInv, Built
  PROVE  IsFiniteSet(FromRepositories)
<1>. DEFINE pairs == (DOMAIN config) \X Dirs
            nameOf == [q \in pairs |-> config[q[1]].prefix \o q[2]]
            all == {nameOf[q] : q \in pairs}
<1>1. IsFiniteSet(pairs)
  <2>1. Len(config) \in Nat /\ DOMAIN config = 1..Len(config)
    BY ConfigIsASequence DEF StatisticsInv, PlacesOK
  <2>2. IsFiniteSet(1..Len(config))
    BY <2>1, FS_Interval
  <2>3. IsFiniteSet(Dirs)
    BY MetadataAssumption DEF MetadataAssumption
  <2>. QED BY <2>1, <2>2, <2>3, FS_Product
<1>2. nameOf \in Surjection(pairs, all)
  BY DEF Surjection
<1>3. IsFiniteSet(all)
  BY <1>1, <1>2, FS_Surjection
<1>4. ASSUME NEW n \in FromRepositories
      PROVE  n \in all
  <2>1. PICK i : Origin(i, n)
    BY DEF StatisticsInv, ResultHasOrigins, Built
  <2>2. PICK d \in Dirs : n = config[i].prefix \o d
    BY <2>1 DEF Origin
  <2>3. <<i, d>> \in pairs /\ nameOf[<<i, d>>] = n
    BY <2>1, <2>2 DEF Origin
  <2>. QED BY <2>3
<1>. QED BY <1>3, <1>4, FS_Subset

\* The order of the configuration decides nothing for a network that no foreign
\* prefix matches: it is counted for the repository that lists it.
LEMMA GroupedAtHome ==
  ASSUME StatisticsInv, Built, NoneTwice, NEW i \in DOMAIN config, NEW n \in AtHome(i)
  PROVE  n \in Group(EntryKey(config[i]))
<1>1. n \in FromRepositories /\ config[i].path = result[n].repository
  BY DEF AtHome
<1>2. PICK j : Origin(j, n)
  BY <1>1 DEF StatisticsInv, ResultHasOrigins, Built
<1>3. j = i
  BY <1>1, <1>2 DEF Origin, NoneTwice
<1>4. GroupKey(n) = EntryKey(config[i]) /\ GroupKey(n) # <<>>
  BY <1>1, <1>2, <1>3, KeyOfListed DEF StatisticsInv, PlacesOK, AtHome
<1>. QED BY <1>1, <1>4 DEF Group, FromRepositories

THEOREM CountedAtHome == Spec => []CountedWhereListed
<1>1. StatisticsInv => CountedWhereListed
  <2>. DEFINE homes(k, d) ==
                {n \in UNION {AtHome(i) : i \in {j \in DOMAIN config : EntryKey(config[j]) = k}} :
                   result[n].dir = d}
              named(k, d) == {n \in Group(k) : result[n].dir = d}
  <2>. SUFFICES ASSUME StatisticsInv, Built, NoneTwice, NEW k \in DOMAIN metadata, NEW d \in Dirs,
                       homes(k, d) # {}
                PROVE  /\ d \in DOMAIN metadata[k].names
                       /\ Cardinality(homes(k, d)) <= metadata[k].names[d]
    BY DEF CountedWhereListed
  <2>1. homes(k, d) \subseteq named(k, d)
    BY GroupedAtHome
  <2>2. named(k, d) \subseteq FromRepositories
    BY DEF Group, GroupKey, FromRepositories
  <2>3. IsFiniteSet(named(k, d))
    BY <2>2, ListedAreFinite, FS_Subset
  <2>4. Cardinality(homes(k, d)) <= Cardinality(named(k, d))
    BY <2>1, <2>3, FS_Subset
  <2>5. d \in DOMAIN NamesIn(Group(k)) /\ NamesIn(Group(k))[d] = Cardinality(named(k, d))
    BY <2>1 DEF NamesIn
  <2>. QED BY <2>4, <2>5, Counted
<1>. QED BY <1>1, StatisticsInvariance, PTL
=============================================================================
