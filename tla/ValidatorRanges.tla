--------------------------- MODULE ValidatorRanges ---------------------------
(***************************************************************************)
(* The validator-ranges command: download networks.json, then, for every   *)
(* active network and at most Permits of them at a time, fetch the Ansible *)
(* inventories, merge the nodes they list and upload the result.           *)
(*                                                                         *)
(* Inventory files are numbered in the order in which they are fetched:    *)
(* EthFiles of the network's repository, then the additional sources.  A   *)
(* file is the set of nodes that it lists with validators; a merged node   *)
(* is the number of the file whose record of it was kept, and stands for   *)
(* its groups, tags and ranges as well.                                    *)
(***************************************************************************)
EXTENDS Integers, FiniteSets, SequencesExt

CONSTANTS
  Networks,      \* the active networks of networks.json
  Nodes,         \* the host names that inventories may list
  Additional,    \* the number of additional sources of each network
  Permits,       \* size of the semaphore (5 in the code)
  MaxRetries     \* retries of the download of networks.json

EthFiles == 2    \* inventory.ini and hetzner_inventory.ini

ASSUME RangesAssumption ==
  /\ IsFiniteSet(Networks) /\ IsFiniteSet(Nodes)
  /\ Additional \in [Networks -> Nat]
  /\ Permits \in Nat \ {0} /\ MaxRetries \in Nat

VARIABLES
  main,          \* where the command is
  attempt,       \* attempts made at downloading networks.json
  ctxDone,       \* a signal has cancelled the context
  free,          \* permits left in the semaphore
  worker,        \* per network: where its goroutine is
  file,          \* per network: the next inventory file
  served,        \* per network: what its files answered so far (history)
  parsed,        \* per network: the merge inputs collected so far
  merged,        \* per network: the aggregated nodes
  object         \* per network: the object in the bucket

workerVars == <<worker, file, served, parsed, merged>>
mainVars == <<main, attempt, ctxDone>>
vars == <<mainVars, free, workerVars, object>>

None == [uploaded |-> FALSE]
NoNodes == [n \in {} |-> 0]
Failed == [ok |-> FALSE]
Answers == [ok : {TRUE}, nodes : SUBSET Nodes] \union {Failed}
LastFile(w) == EthFiles + Additional[w]

Init ==
  /\ main = "download" /\ attempt = 0
  /\ ctxDone = FALSE
  /\ free = Permits
  /\ worker = [w \in Networks |-> "pending"]
  /\ file = [w \in Networks |-> 1]
  /\ served = [w \in Networks |-> <<>>]
  /\ parsed = [w \in Networks |-> <<>>]
  /\ merged = [w \in Networks |-> NoNodes]
  /\ object = [w \in Networks |-> None]

-----------------------------------------------------------------------------
(* Merging: a node that is there already is kept, a duplicate is skipped.  *)

Mut_LastWins(target, source) ==
  [n \in DOMAIN target \union DOMAIN source |->
     IF n \in DOMAIN source THEN source[n] ELSE target[n]]

MergeNodes(target, source) ==
  [n \in DOMAIN target \union DOMAIN source |->
     IF n \in DOMAIN target THEN target[n] ELSE source[n]]

AggregateRanges(ranges) == FoldLeft(MergeNodes, NoNodes, ranges)

\* Every node of file f has f validators.
TotalCount(nodes) == FoldFunction(+, 0, nodes)

-----------------------------------------------------------------------------
(* The command: networks.json, the launch loop, the wait, the exit.        *)

Alive == main # "exited"
Ends(result) == main' = result /\ UNCHANGED <<attempt, ctxDone, free, workerVars, object>>

DownloadSucceeds ==
  /\ main = "download" /\ ~ctxDone
  /\ Ends("launch")

\* Retried after a pause; the error of the last attempt ends the command.
DownloadFails ==
  /\ main = "download"
  /\ IF attempt < MaxRetries
     THEN attempt' = attempt + 1 /\ UNCHANGED main
     ELSE main' = "error" /\ UNCHANGED attempt
  /\ UNCHANGED <<ctxDone, free, workerVars, object>>

\* The body breaks off, or does not parse: there is no retry.
DownloadBreaksOff ==
  /\ main = "download"
  /\ Ends("error")

\* Networks come in the order of a map.
Launch(w) ==
  /\ main = "launch" /\ worker[w] = "pending"
  /\ free > 0 /\ ~ctxDone
  /\ free' = free - 1
  /\ worker' = [worker EXCEPT ![w] = "fetching"]
  /\ UNCHANGED <<mainVars, file, served, parsed, merged, object>>

AllLaunched ==
  /\ main = "launch" /\ \A w \in Networks : worker[w] # "pending"
  /\ Ends("wait")

Mut_WaitForAllButOne == Permits - 1
WaitFor == Permits

\* All permits are taken, so all goroutines have given theirs back.
Completes ==
  /\ main = "wait" /\ free >= WaitFor /\ ~ctxDone
  /\ Ends("ok")

\* Acquire fails once the context is cancelled.
Interrupted ==
  /\ ctxDone
  /\ \/ main = "launch" /\ \E w \in Networks : worker[w] = "pending"
     \/ main = "wait"
  /\ Ends("error")

Exits ==
  /\ main \in {"ok", "error"}
  /\ Ends("exited")

Signal ==
  /\ Alive /\ ~ctxDone
  /\ ctxDone' = TRUE
  /\ UNCHANGED <<main, attempt, free, workerVars, object>>

-----------------------------------------------------------------------------
(* The goroutine of network w.                                             *)

Mut_KeepsPermit(w, outcome) ==
  /\ worker' = [worker EXCEPT ![w] = outcome]
  /\ free' = IF outcome = "skipped" THEN free ELSE free + 1

Finishes(w, outcome) ==
  /\ worker' = [worker EXCEPT ![w] = outcome]
  /\ free' = free + 1

Steps(w, step) == worker' = [worker EXCEPT ![w] = step] /\ UNCHANGED free

\* What a file that could be fetched and parsed contributes.
Contribution(f, answer) == IF answer.ok THEN <<[n \in answer.nodes |-> f]>> ELSE <<>>

FetchFile(w) ==
  /\ Alive /\ worker[w] = "fetching" /\ file[w] <= LastFile(w)
  /\ \E answer \in Answers :
       /\ ctxDone => ~answer.ok
       /\ served' = [served EXCEPT ![w] = Append(@, answer)]
       /\ parsed' = [parsed EXCEPT ![w] = @ \o Contribution(file[w], answer)]
  /\ file' = [file EXCEPT ![w] = @ + 1]
  /\ IF file[w] = EthFiles
     THEN Steps(w, "aggregatingEth")
     ELSE UNCHANGED <<worker, free>>
  /\ UNCHANGED <<mainVars, merged, object>>

\* The files of the repository become one input, or none if all failed.
AggregateEth(w) ==
  /\ Alive /\ worker[w] = "aggregatingEth"
  /\ parsed' = [parsed EXCEPT ![w] = IF @ = <<>> THEN <<>> ELSE <<AggregateRanges(@)>>]
  /\ Steps(w, "fetching")
  /\ UNCHANGED <<mainVars, file, served, merged, object>>

\* Without any input there is nothing to upload.
Skip(w) ==
  /\ Alive /\ worker[w] = "fetching" /\ file[w] > LastFile(w)
  /\ parsed[w] = <<>>
  /\ Finishes(w, "skipped")
  /\ UNCHANGED <<mainVars, file, served, parsed, merged, object>>

Aggregate(w) ==
  /\ Alive /\ worker[w] = "fetching" /\ file[w] > LastFile(w)
  /\ parsed[w] # <<>>
  /\ merged' = [merged EXCEPT ![w] = AggregateRanges(parsed[w])]
  /\ Steps(w, "uploading")
  /\ UNCHANGED <<mainVars, file, served, parsed, object>>

Upload(w) ==
  object' = [object EXCEPT ![w] =
               [uploaded |-> TRUE, nodes |-> merged[w], total |-> TotalCount(merged[w])]]

UploadSucceeds(w) ==
  /\ Alive /\ worker[w] = "uploading" /\ ~ctxDone
  /\ Upload(w)
  /\ Finishes(w, "uploaded")
  /\ UNCHANGED <<mainVars, file, served, parsed, merged>>

\* The error is logged; the object may have been stored all the same.
UploadFails(w) ==
  /\ Alive /\ worker[w] = "uploading"
  /\ Upload(w) \/ UNCHANGED object
  /\ Finishes(w, "failed")
  /\ UNCHANGED <<mainVars, file, served, parsed, merged>>

-----------------------------------------------------------------------------
WorkerNext(w) ==
  \/ FetchFile(w) \/ AggregateEth(w) \/ Skip(w) \/ Aggregate(w)
  \/ UploadSucceeds(w) \/ UploadFails(w)

MainNext ==
  \/ DownloadSucceeds \/ DownloadFails \/ DownloadBreaksOff
  \/ AllLaunched \/ Completes \/ Interrupted \/ Exits
  \/ \E w \in Networks : Launch(w)

Next == MainNext \/ Signal \/ \E w \in Networks : WorkerNext(w)

Spec == Init /\ [][Next]_vars

\* The fetcher's HTTP client has a timeout.  Requests to the S3 store have none:
\* they are sure to end only once the context is done.  Signals need not come.
MainFair == (main # "download" \/ ctxDone) /\ MainNext
WorkerFair(w) == (worker[w] # "uploading" \/ ctxDone) /\ WorkerNext(w)

FairSpec == Spec /\ WF_vars(MainFair) /\ \A w \in Networks : WF_vars(WorkerFair(w))

-----------------------------------------------------------------------------
Active == {"fetching", "aggregatingEth", "uploading"}
Final == {"uploaded", "skipped", "failed"}

TypeOK ==
  /\ main \in {"download", "launch", "wait", "ok", "error", "exited"}
  /\ attempt \in 0..MaxRetries
  /\ ctxDone \in BOOLEAN
  /\ free \in 0..Permits
  /\ worker \in [Networks -> {"pending"} \union Active \union Final]
  /\ file \in [Networks -> Nat]
  /\ served \in [Networks -> Seq(Answers)]
  /\ \A w \in Networks : file[w] <= LastFile(w) + 1 /\ Len(served[w]) + 1 = file[w]

\* The command reports success only when no goroutine is left behind: every
\* active network has been uploaded, skipped or given up.
AllDone == \A w \in Networks : worker[w] \in Final
SuccessMeansAllDone == main = "ok" => AllDone

\* No permit is lost or given back twice on any of the ways out of a goroutine.
Working == {w \in Networks : worker[w] \in Active}
PermitsAreAccounted == free + Cardinality(Working) = Permits

\* An object holds exactly the nodes that some file listed, each as the first
\* such file in the order of the configuration has it, and their total: the
\* aggregation of aggregates is the aggregation of all files.
Listing(w, n) == {f \in 1..Len(served[w]) : served[w][f].ok /\ n \in served[w][f].nodes}
FirstListing(w, n) == CHOOSE f \in Listing(w, n) : \A g \in Listing(w, n) : f <= g
Listed(w) == {n \in Nodes : Listing(w, n) # {}}

FirstSourceWins ==
  \A w \in Networks : object[w].uploaded =>
    /\ object[w].nodes = [n \in Listed(w) |-> FirstListing(w, n)]
    /\ object[w].total = FoldSet(LAMBDA n, sum : sum + FirstListing(w, n), 0, Listed(w))

\* The command ends, whatever fails and whenever the signal comes, unless a
\* request to the S3 store hangs and no signal comes at all.
Terminates ==
  \/ <>(main = "exited")
  \/ <>[](~ctxDone /\ (main = "download" \/ \E w \in Networks : worker[w] = "uploading"))
=============================================================================
