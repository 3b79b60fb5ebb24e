# Cartographoor in TLA+

Cartographoor collects descriptions of Ethereum test networks from several providers and publishes
them as JSON objects in an S3 bucket; further jobs enrich the published `networks.json` with client
inventories and validator ranges, and a client library serves it to other programs. This directory
models the parts of the program in which the order of events, failures or arithmetic decide whether
what is published is right.

Paths below are relative to `src/`. `PROJECT.json` maps every definition to the lines it models.

## 1. The system

| Component | State it keeps | Operations | Module |
|---|---|---|---|
| Discovery service (`pkg/discovery/service.go`) and the `run` command (`cmd/.../run.go`) | handlers under a mutex, `resultChan`, the ticker, the wait group, the context | `Start`, `Stop`, `OnResult`, `RunOnce`, the loop, the result processor, one goroutine per provider and run, the upload handler, signals | `DiscoveryService`, abstract `ResultPublisher` |
| GitHub provider: discovery, status, network details | the networks found so far, the directory in progress | list a repository, the requests for a directory, the checks of its service URLs, add, merge | `GitHubProvider` |
| Metadata of the repositories (`buildNetworkMetadata`) | none | the entries and their statistics, from the configuration and the merged networks | `NetworkMetadata`, on top of `GitHubProvider` |
| GitHub provider: genesis and forks (`genesis.go`) | none | timing, forks, blob schedule of a `config.yaml` | `ForkTimestamps` |
| Static provider | none | networks of the configuration, calculated times | `StaticProvider` |
| Client library, memory provider (`pkg/client/memory.go`) | two maps under a lock, `ready`, `done`, a notification channel of one slot | `Start`, `Stop`, refresh loop, readers | `MemoryProvider`, abstract `SnapshotCache` |
| Client library, Redis provider (`pkg/client/redis.go`) | two keys with a time to live in a shared Redis, `ready` | `Start`, `Stop`, the refresh of the leader | `RedisProvider` |
| Validator ranges (`service.go`, `aggregator.go`, the command) | a semaphore, the aggregates of each network | download with retries, one goroutine per network, two aggregations, upload | `ValidatorRanges` |
| Validator ranges: parser | none | `ParseInventory` | `RangeParser` |
| Inventory (`pkg/inventory`) | two semaphores, the generated inventories, the first upload error | health check, two concurrent requests with retries, validation of clients, concurrent uploads | `InventoryService` |
| EIP-7870 reference nodes (`pkg/eip7870referencenodes`) | the commands so far, the feature file | fetch a chart and render it, fetch a client's file, merge, upload | `ReferenceNodes`, `HelmTemplate` |
| S3 storage | the objects | `Upload`, `UploadRaw`, `Download` | steps of the callers' modules |
| Client names, command line, configuration | none, or start-up only | | not modelled, section 9 |

How they interact: the `run` command registers the two providers and the upload handler with the
discovery service. Every interval the loop starts a goroutine per provider, merges the answers, adds
the client table and the metadata, and sends the result to a channel; a second goroutine takes
results from the channel and calls the handlers, under the mutex that the loop needs for the next
run. The handler writes `networks.json`. The inventory and the validator-ranges commands are
separate processes that read this object and write one object per network next to it; the
reference-nodes command writes an object of its own from charts and files on GitHub. The client
library polls the object over HTTP, in memory or with one elected instance that stores it in Redis.

What makes each part right:

* Discovery: a result is exactly what the providers answered; the object moves forward only and never
  becomes empty; a failing provider, a full channel, a slow or failing upload stop nothing; shutdown ends.
* Metadata: every network of a repository is counted and named once, for its own repository.
* GitHub provider: nothing that could be listed is missing, and what is said of a network is what its own
  directories have, unless a request for it failed.
* Reference nodes: a command is exactly what the chart renders to, with the overrides of its own client and
  the feature, and an object lacks something only where a request failed.
* Schedules: times follow the order of epochs, and both providers calculate the same ones.
* Memory provider: a consumer that re-reads on notification misses no update. Redis: the keys do not go
  back to older data, and are there between two refreshes.
* Validator ranges and inventory: permits are neither lost nor returned twice, success means done, an
  object holds what the sources said, with the configured precedence.

What is hard: three goroutines and the provider goroutines share one service; results queue behind
uploads that have no timeout; contexts end between any two steps; a leader is checked before a request
and writes after it; keys expire; semaphores double as wait groups; maps are walked in random order;
times wrap around. `PROJECT.json` lists each hazard at its line with the properties that cover it.

## 2. Modules and correspondence

**DiscoveryService.** `main`, `disc` and `proc` are the places of the three goroutines; `running`,
`answer`, `collected` are the provider goroutines of the run in progress; `resultChan`, `object`,
`tick`, `ctxDone`, `registered` are what their names say. A network is a key and the provider it came
from, which is all that merging and overwriting can tell apart. `RunDiscovery`, `ProviderAnswers`,
`Collect`, `CollectCancelled`, `DiscoverClients`, `SendResult` and `DiscardResult` are the sections of
`executeDiscovery` and `runDiscovery` between two points where another goroutine can interfere.
Receiving a result, locking the mutex and calling the handlers are separate steps of the processor;
`UploadReturns` stores the object or fails, or stores it and reports failure. `mode` chooses between
the service and `run --once`, which shares `executeDiscovery`. The abstract **ResultPublisher** is a
register with the two steps "a discovery starts" and "a later, non-empty result is published"; the
refinement maps `started` to the number of the current run.

**GitHubProvider.** One step per request. What a repository has for a directory (`Contents`), and what
the hive site has (`Hives`), are constants. The two requests for the status are answered truthfully,
refused (any status but 404, as by the rate limit), or not answered; the other requests of
`getNetworkDetails` and `createNetwork` fail as if there were nothing to find. `known` is what the
requests for the directory in progress have found, `checks` the goroutines that check its service URLs
and block on a channel without a buffer, `awaited` the results that the collector counts. `failures`
and `listed` are history variables that only properties read. A file is abstracted to whether it says
something; a name is a sequence of tokens, so that prefixes are sequence operations.

**NetworkMetadata** extends it to the whole way from the configuration to the published entries: after
the discovery the networks are merged with the static ones, in either order, and one step applies
`buildNetworkMetadata`, both passes and the first-match rule. A network has the key of the map, with the
prefix of its repository, and the `Name` that it is published with, the bare directory (`provider.go:120`,
`149`): matching and grouping go by the key, and an entry lists the names (`service.go:381`), as a bag, since
networks of several repositories that share an entry may have the same one.

**ReferenceNodes.** The steps of `Generate`, with a signal between any two; `answers` and `failures` are
history variables. An argument is a flag and a value. `DeduplicateArgs` and `BuildCommand` merge the
chart, the client's file and the feature file. **HelmTemplate** is `renderTemplate`: lines with the
markers before and after their text, the stack of open blocks, and how each line is classified. Next to
it is what Helm does with the same template (`HelmAfter`), token by token; `Supported` says for which
layouts of lines the two must agree, and is the contract that the code does not state.

**ForkTimestamps, StaticProvider.** The decoded YAML values with what the code's type switches tell
apart: number, text, anything else. Numbers are taken modulo `Modulus` (2^64). The loop over the keys
takes them in any order, since the order of a Go map is random. The static provider runs next to the
extraction so that the two can be compared. The time of an epoch is written four times in the code, and so it
is here: `ForkEntry`, `BlobEntry`, `CalculatedFork`, `CalculatedBlob`, each from its own lines.

**MemoryProvider.** `networks` and `clients` are the versions of the file that the two maps hold.
`phase` is the place within `refresh`, whoever runs it: `Start` for the first, `loop` for the rest.
The consumer waits for a notification and then calls `GetNetworks` and `GetClients`. `refused` is a
history variable: the last read came before `Start` had set `ready`. The abstract **SnapshotCache**
promises that data only gets newer and that whatever the view lacks is announced; it is implemented
twice, by the networks and by the clients.

**RedisProvider.** A key is a version and the time it has left. Time passes in units while no deadline
is due (requests, the wait of `Start`, tickers); steps in between take none. `interrupted` is a history
variable: an election came in the middle of a refresh. `Crash` ends a process at any step, also between
its two writes; a write under way may still take effect, only the keys survive, and the leadership is
left where it is until an election. `Elections`, `Failures`, `Shutdown` and `Crashes` switch parts of
the environment on.

**ValidatorRanges.** Each network's goroutine fetches its files in order; a merged node carries the
number of the file whose record was kept. `WaitFor` is the acquisition of all permits with which the
code waits for its goroutines.

**RangeParser.** An inventory is a sequence of lines with their section, host and variables;
`ReadLine`, `SetKey` and `SectionOf` model the INI library as the parser uses it, one step per line;
`ParseSection` and `Finish` follow `parser.go`. What an inventory means is stated next to it line by line
(`Effective`, `HostsWithRange`), without sections, keys or an order of parsing.

**InventoryService.** `worker[w]` is where the goroutine of a network is, `fetch[w]` its two requests
with the attempt in flight, `todo`/`kept`/`checking` the validation. A client is abstracted to whether
its host resolves and whether its endpoint answers.

`MC*.tla` give the constants their values; `*Proofs.tla` hold the theorems.

## 3. Runs

| Run | What it shows | Bounds |
|---|---|---|
| `discovery` | `MergeExact`, `SendersNeverBlock`, `OnceReportsFailure`, refinement of `ResultPublisher`, and that results are taken up, discoveries get the mutex, cancellation ends the service | two providers with one common key, two runs, one slot |
| `discovery_idle_stop` | after a signal `Stop` gives up on goroutines that are idle (finding) | the same |
| `catalog` | the result has all networks of the repositories that could be listed, with the status and the details of their own directories except where a request failed; each is counted and named in one entry, for its own repository unless a foreign prefix matches; the checks of service URLs end | two of seven repositories in any order, two directories, two static networks, two services, two failed requests |
| `memory` | no missed update, refinement of `SnapshotCache`, `Stop` returns, a consumer ends up with the last file | four versions |
| `redis` | keys never go back without an election during a refresh; `Start` returns; a leader that stays brings both keys up to date | two instances, the shortest durations, elections, failures and crashes at any time |
| `redis_available` | the networks key is readable without a gap while a leader refreshes | two instances, the durations of the code in units of 30 s |
| `ranges` | permits, success, precedence of the sources, termination | two networks for one permit, one with an additional source |
| `parser` | nodes, groups and total are those of the lines | all files of two lines, some of three |
| `parser_first` | a range that starts with the first variable of its line is lost (finding) | the same |
| `inventory` | permits, objects, the reported error, termination | three networks (and one that is not eligible) for two permits, one shared permit of the validator, three clients |
| `reference_nodes` | templates are rendered as Helm does, commands are merges of their client's sources, losses come from failures | two clients, some two thousand charts of one or two nested blocks, two files each |
| `schedules` | forks complete, order of times, both providers give one time to an epoch of a network that is configured as its file says, published times stay | numbers below 32, 1,440 files, two configurations each |

Why these bounds are enough. Two providers give every order of two answers, one failing alone, and one
that answers after the collector has left; a third only adds more of the same, since the merge treats
answers one at a time. A result can only wait for the one before it, so two runs and a channel of one
slot reach a queue, a full channel and a discarded result. With one permit fewer than networks every
semaphore makes somebody wait. Four versions let one notification stand for several updates and let
the two reads of a consumer fall on different versions. The record kept for a node depends on no other
node, so one is enough in `ranges`. In `catalog` the seven repositories have two owners with one name, a
prefix that leads to another repository's entry, a prefix of a prefix and of a directory's name, a malformed path, and one repository
configured twice, so that an entry lists a name twice and a name is no key; an entry depends on two repositories at most, and two failures suffice to turn a status into any other.
A block within a block is what distinguishes the innermost condition from all of them, so deeper nesting
adds nothing to `reference_nodes`. With `Modulus = 32` every product that can wrap does so within a
few epochs. In `redis` the durations are minimal so that expiry, deadlines and elections meet; in
`redis_available` the real proportions matter and failures and crashes are off, because the property assumes none.
Bounded counters are `MaxRuns`, `MaxVersion`, `MaxFailures` and the lengths of the inputs; the attempts of downloads
and requests are bounded by the code.

`CHECK_DEADLOCK FALSE` is given where the program ends or may rest for ever: commands that exit,
functions that return, a provider that has been stopped while the bounded number of publications is
used up. `discovery` runs with the check of deadlock.

The type invariants of `memory`, `ranges`, `inventory`, `catalog` and `reference_nodes` are proved (section 5)
and not checked again. Each property of a passing run comes with a mutant in `PROJECT.json`: a definition of the model changed
as a plausible bug would (`Mut_...`, next to the definition it replaces), under which the property fails.

## 4. Fairness

* Requests to GitHub and to S3 have no timeout of their own in this code; they are only sure to end
  once the context is done. Uploads and provider goroutines are therefore fair only from then on, and
  the liveness properties of `discovery` and `ranges` carry the exception "a request hangs for ever".
  In `InventoryService` the same holds for the download and the uploads. In `GitHubProvider` only the
  checks of the service URLs are fair, which have a timeout of 2 s, and the collector that takes their
  results: `ChecksEnd` says nothing of the requests.
* The HTTP client of the memory and Redis providers and that of the inventory fetcher have timeouts:
  their steps are weakly fair.
* A Go `select` with several ready cases picks each infinitely often if it is reached infinitely often:
  strong fairness on `LoopExits` and `ProcessorExits`. Semaphores are first come, first served: strong
  fairness on the goroutines that share one in `InventoryService`.
* The ticker fires, clocks advance, goroutines are scheduled: weak fairness. In `RedisProvider` strong
  fairness on `TimePasses`, since an instance that dies and starts again for ever would otherwise stop
  the clocks of the others: its new process takes time to come up.
* That the published file can be fetched and Redis be written infinitely often is an assumption about
  the environment (strong fairness on `FetchSucceeds`, `StoreNetworks`, `StoreClients`), needed only
  for "catches up".
* Never fair: signals, cancellation, `Stop`, elections, crashes, publication, and the 5 s timer by which `Stop`
  gives up.

## 5. What is proved

All theorems hold for every value of the constants under the `ASSUME` of their module.

* `DiscoveryServiceProofs`. `TypeCorrect`; `MergeIsExact`, from `MergeInv` (what has been collected is
  merged exactly at every point, and the loop leaves "collect" only with all answers or cancelled);
  `ImplementsPublisher`, from `PathInv` (on the way from the loop over the channel and the processor to
  the object, run numbers increase strictly, and nothing empty is being handled) with `OnceInv` for
  `--once`, which keeps the two modes apart. The property alone is not inductive: a step of the
  processor says nothing of the order of the channel. `OnceIsHonest` (`OnceReportsFailure`), and
  `SendersDoNotBlock`, by counting the answers that are not collected.
* `MemoryProviderProofs`. `TypeCorrect`; `InductiveInvariant`: `AnnouncedInv` extends the property to a
  consumer and a refresh that are half-way, `VersionInv` bounds the versions in use by the file's.
  `NoUpdateIsMissed` and `ImplementsCache` follow.
* `RedisProviderProofs`. `TypeCorrect` (the clocks stay in range because time waits for deadlines);
  `InductiveInvariant`: without an interruption only the leader has a refresh in flight, so there is
  one, and what it will store is not older than either key. `KeysDoNotGoBack` follows for every step.
  `NetworksAreAvailable`, under `Interval + Timeout < TTL`, a leader that neither changes nor dies
  and refreshes that do not fail: the inductive invariant `Lasting` keeps the time to live of the key above the time to the
  next tick plus that of a request. The code does not check this condition on the configured interval.
* `StaticProviderProofs`. `SchedulesAreMonotone`, from `ScheduleInv` (every entry has the time of the
  formula) and the arithmetic lemma `TimestampIsMonotone`; `ForksComplete`, from `ForksInv` (the forks
  are those of the keys visited so far); `PublishedDoesNotChange`, from `StaticInv`
  (what is published under a name is the schedule of the last network of that name). `ProvidersDoAgree` needs
  all of it: `TimingInv` and the lemma `TimingsAgree` take both timings back to the file (a genesis, defaults
  and units that each provider has for itself), `ScheduleInv` has the two formulas of the one provider,
  `StaticInv` those of the other. Nothing of it follows from shared definitions.
* `ValidatorRangesProofs`. `TypeCorrect`, with `PermitsAreAccounted`: the free permits and the goroutines
  that hold one are as many as there are permits, counted with `Cardinality` through every step.
  `SuccessIsComplete`: a command that waits for all permits has started every goroutine, so that with all
  permits free none is at work.
  `SourcesAreMerged` (`FirstSourceWins`), from `SourcesInv`: at every point of a network's goroutine,
  what it has collected knows each node from the first file that lists it and from no other (`KeepsFirst`,
  through both levels of aggregation), and so do the merged nodes and the object. The lemma
  `AggregateSees` says what the aggregation of any number of tables knows of a node.
  `InventoryIsParsed` (`ParseIsExact`), from `ParserInv`: after n lines the INI file holds one key for each of
  the lines that those n leave in effect, and nothing else (`FileIsRead`); the nodes are those of the lines in
  the sections parsed so far (`SectionsAreParsed`); the result is the outcome of all of them (`ResultIsKept`).
  The property is about the end alone; what carries it there is that a line which replaces an earlier one
  changes one key, in its place, and that the total of a node's ranges is the sum over the lines that gave
  them. The totals are sums over sets whose order no code fixes: `TotalRemoves` takes any one summand out.
* `InventoryServiceProofs`. `TypeCorrect` with `PermitsAreAccounted` for both semaphores;
  `InventoriesAreExact`, from `ChecksAreOfTodo` and `KeptAreExact` (a client is kept, dropped or still to do,
  and dropped wrongly only after a signal); `SuccessIsComplete`, from `UploadsAreAccounted` (an upload has
  succeeded, or its error is remembered).
* `ReferenceNodesProofs`. `TypeCorrect`, and `LossesAreExplained` from `ClientsAreAccounted`,
  `UploadsAreComplete`, `FailuresAreDated` (a failure after the signal is known as one, and then nothing is
  uploaded) and `ObjectIsFinal`.
  `RenderingIsExact` (`RenderIsExact`), from `BaseIsRendered` (the base at hand is the rendering of the chart
  at hand) and the lemma `RenderIsHelm`: through the lines of a supported template, `renderTemplate` and Helm
  stay in related states (`SameLine`): the same arguments, stacks of equal height, and the same
  answer to whether the current line counts.
  `CommandsAreExact` (`CommandsAreMerges`), from `CommandsAreBuilt` (every command in the result is what
  `BuildCommand` makes of a base, the client's answered file and the feature) and `BuildIsMerge`, which rests on
  `KeepIsExact`: what deduplication keeps are arguments of the flags that are not overridden, one of each.
* `NetworkMetadataProofs`. `Invariance` of `Inv` for any number of repositories, directories and failures.
  `ResultCorrect` from `ListedInOrder`, `FoundAreComplete` and `NetworksAreComplete`: the names of earlier
  repositories are in the result, each from the latest that lists it, and those of the repository in
  progress are found, left or in progress. `ResultTruthful` from `ProgressIsTrue` and `FoundAreTruthful`:
  what is known half-way is true of the directory in progress alone, and what is missing has been asked
  for in vain. `StatisticsCover` and `CountedAtHome` from `StatisticsInv` and the lemma `KeyOfListed`: the key of
  a network is that of an entry, of its own repository if no foreign prefix matches. The assignment that
  `StatsCoverEveryNetwork` asks for is then `GroupKey`; `CountedAtHome` compares the bag of names with the
  networks at home.

The assumptions are those of the modules, and each is what the code or its configuration has: finitely many
networks, providers and nodes, at least one permit and one attempt, `Timeout < Interval`, prefixes and
directories that are sequences of tokens, a prefix that is not a lone dash, at least one repository, and for
charts, files and inventories that they are sequences of the records that their modules describe.
Nothing is assumed of their lengths, of the nesting of blocks or of how often a host or a flag occurs.

Folds. The parser, both aggregations, the rendering and the merge of arguments are left folds. `FoldSteps`
unfolds such a fold into the sequence of states that it goes through, from the definition of `FoldLeft` as a
recursive function; a fact about each step then holds of the last state by `NatSetInduction`. The induction
theorems of the library take an operator as a parameter, which the provers cannot instantiate, so the
induction is over a set of numbers (it follows from `WFMin`), and for sums over the subsets of a
finite set (`SubsetInduction`). The two proof modules with folds each have these lemmas.

Every invariant, action property and refinement that a passing run checks is thus a theorem, with one
exception in kind: liveness, which needs fairness and `ENABLED` and is beyond the prover. Only model-checked
are `ResultsAreTakenUp`, `DiscoveryGetsMutex`, `CancelEndsService`, `ChecksEnd`, `StopTerminates`,
`ConsumerCatchesUp`, `StartReturns`, `LeaderCatchesUp` and the two `Terminates`.

## 6. Findings

1. `discovery_idle_stop`: `runService` calls `Stop` without cancelling the context, and both goroutines
   leave only when it is done. `Stop` always runs into its 5 s timeout, also when everything is idle.
2. `parser_first`: the INI library takes the host and the name of the first variable for the key, and
   only values are searched for the range, so `host validator_start=0 validator_end=9` has none.

Behaviour noticed while modelling that the comments do not describe; the models have it, and no run is
devoted to it:

* `run.go:157` skips uploads "if there are no networks or discovery had errors"; the code looks at the
  networks only. When one provider fails, a result without its networks replaces the object.
* `run.go:149` starts the first discovery before `run.go:154` registers the handler; a result that is
  taken from the channel in between is lost until the next tick.
* `service.go:381` lists `Name`, which the GitHub provider sets to the bare directory (`provider.go:120`,
  `network.go:110`), while the key alone has the prefix (`provider.go:149`): an entry may name "devnet-5" twice, or
  a name that is no key of `networks`. `README.md:379` and `:385` show prefixed names. `service.go:292-309` makes
  the metadata key from the prefix or the bare name of the repository; `README.md:370` shows "owner/repo".
* `service.go:311`: two repositories of different owners with one name and no prefix share a metadata entry.
* `memory.go:61-67`: the first notification precedes `ready`; a consumer can spend it on a refused read.
* `redis.go:276`: leadership is checked before the request, so a former leader writes up to
  `RequestTimeout` later. `redis.go:118`: `ready` stays set when the key has expired. `redis.go:116`:
  `Start` waits for the networks key only, which is written before the clients key. `redis.go:329`:
  only the instance that refreshed notifies, and only its own consumers.
* `parser.go:126`: a host that several groups list with ranges is counted once per line.
* `status.go:28`: every answer but 404 counts as existence, so a refused request makes an archived
  network "active" (`NetworksAreTruthful` says which way each failure can turn the status).
* `network.go:61`: the hive group is named after the repository without its owner, so repositories of two
  owners with one name have the same hive link. `services.go:219`: the comment accepts "2xx and 3xx", the
  code what is below 300 after redirects.
* `service.go:338`: a repository that is configured twice with different prefixes can drop networks from
  the statistics, since a network may match by path an entry that does not exist; the two properties about
  statistics exclude this configuration (`NoneTwice`).
* `helm_chart_parser.go:211-225`: in a block that is left out, an `if` at the end of an argument's line is not
  pushed although its `end` is popped; `:243`: an else-if pushes a block of its own that no `end` pops; `:217`:
  the ends on a line that `shouldSkipLine` names are not popped. `Supported` excludes such templates.
* `command_builder.go:18` says "Duplicate args are deduplicated, with later values taking precedence"; of two
  arguments with one flag in the same source the code keeps the first (`:115-118`, `:137-140`, `:154-156`).
  The model has the code's choice, and `CommandsAreMerges` leaves open which of the values it should be.
* `pkg/eip7870referencenodes/service.go:119`: a command whose client file could not be fetched is published
  with an empty overlay and is not told from one of a client without overrides.
* `pkg/inventory/generator.go:266-289`: the first name of the list that an image contains decides its client,
  so names that contain others depend on their order.
* `genesis.go:310`: entries of the blob schedule at `FAR_FUTURE_EPOCH` are kept, with a time that has
  wrapped around; forks at that epoch are skipped.

## 7. What the abstraction leaves out

Logging, JSON and URL construction; contents of networks other than those named above; the Go memory
model beyond the points where locks, channels and contexts order steps (no data race is modelled since
shared fields are accessed under their locks or before the goroutines start). S3 is a map from keys to
objects with atomic writes, and a write takes effect before its caller learns how it ended: one that lands
after its failure was reported is not modelled, neither in S3 nor in Redis. An inventory request whose answer
does not parse gives up at once in the code (`fetcher.go:97`, `:122`) and at its last attempt in the model: the
outcomes are the same. Provider goroutines answer with networks or with an error; an answer without either,
which `service.go:243` ignores, is not modelled, since neither provider gives one. Times in `MemoryProvider` and `DiscoveryService` are ticks without length.

## 8. Plan

Done, in order of importance: `DiscoveryService` with its abstract specification and proofs, the two
client caches with theirs, the two concurrent commands, the GitHub provider composed with the metadata,
the reference nodes, the pure functions (parser, schedules); and the proofs of every safety property, those
about folds over inputs of any length included.

Next:
1. `ClientIdentity` (`pkg/inventory/generator.go`, `types.go`, `pkg/discovery/clients.go`): names of clients and
   their types as publishers and consumers read them.
2. `Pipeline`: `DiscoveryService` with the commands that read its object while it is being replaced.
3. The getters of the Redis provider with a polling consumer, against `SnapshotCache`.
4. The parsing of `values.yaml` and `images.yaml` (`parser.go`, `images.go`): sections and keys that the line
   parsers of the GitHub provider take for each other.
5. The progress that liveness rests on, as action properties that can be proved: what a step of a goroutine
   brings closer to its end.

## 9. Not modelled

* Names and types of clients: planned, see above.
* The text of `values.yaml` and `images.yaml`, and the URLs that `services.go` derives from a domain: look-ups
  without state, of which the model keeps whether they find something and what happens when they fail.
* Environment variables, display names and the redaction of secrets in the reference nodes: copied or
  replaced one by one.
* Construction of clients from the configuration, flags, `envsubst`, logging: start-up only.
* Mocks: used by tests.
