-------------------------- MODULE InventoryService --------------------------
(***************************************************************************)
(* The inventory command (pkg/inventory): for every active network with a  *)
(* Dora URL, and at most Generators of them at a time, fetch the consensus *)
(* and the execution clients concurrently, drop the clients with an        *)
(* endpoint that cannot be reached, and finally upload all inventories.    *)
(*                                                                         *)
(* A client is abstracted to whether its host name resolves and whether    *)
(* its HTTPS endpoint answers; an inventory is the set of clients kept.    *)
(***************************************************************************)
EXTENDS Integers, FiniteSets

CONSTANTS
  Networks,           \* the networks of networks.json
  Eligible,           \* those that are active, from GitHub and have a Dora
  Consensus, Execution,    \* the clients that every Dora lists
  Resolves, Serves,        \* the clients with a host name, with an endpoint
  Generators,         \* size of the semaphore of the service (5)
  Checks,             \* size of the semaphore of the validator
  Attempts,           \* attempts of a request (maxRetries, 3)
  Validation          \* validation is enabled

Clients == Consensus \union Execution
Layers == {"consensus", "execution"}

ASSUME InventoryAssumption ==
  /\ IsFiniteSet(Networks)
  /\ Eligible \subseteq Networks
  /\ Consensus \cap Execution = {}
  /\ Resolves \subseteq Clients /\ Serves \subseteq Clients
  /\ Generators \in Nat \ {0} /\ Checks \in Nat \ {0} /\ Attempts \in Nat \ {0}
  /\ Validation \in BOOLEAN

VARIABLES
  main,               \* where the command is
  ctxDone,            \* a signal has cancelled the context
  uploadError,        \* the first upload error is set
  free, freeChecks,   \* permits left in the two semaphores
  worker,             \* per network: where its goroutine is
  fetch,              \* per network and layer: the attempt in flight, or the outcome
  todo, kept,         \* per network: clients left to validate, clients kept
  checking,           \* per network: the client and the endpoint being checked
  object              \* per network: the object in the bucket

commandVars == <<main, ctxDone, uploadError>>
validatorVars == <<freeChecks, todo, kept, checking>>
vars == <<commandVars, free, worker, fetch, validatorVars, object>>

None == [uploaded |-> FALSE]
NoCheck == [step |-> "none"]
Succeeded == 0
GaveUp == -1

Init ==
  /\ main = "download"
  /\ ctxDone = FALSE /\ uploadError = FALSE
  /\ free = Generators /\ freeChecks = Checks
  /\ worker = [w \in Networks |-> "pending"]
  /\ fetch = [w \in Networks |-> [l \in Layers |-> 1]]
  /\ todo = [w \in Networks |-> {}]
  /\ kept = [w \in Networks |-> {}]
  /\ checking = [w \in Networks |-> NoCheck]
  /\ object = [w \in Networks |-> None]

Final == {"stored", "skipped", "failed", "filtered"}
Alive == main # "exited"

-----------------------------------------------------------------------------
(* The command.                                                            *)

Signal ==
  /\ Alive /\ ~ctxDone
  /\ ctxDone' = TRUE
  /\ UNCHANGED <<main, uploadError, free, worker, fetch, validatorVars, object>>

\* networks.json is there: networks that are not eligible are left out, the
\* others get a goroutine each.
DownloadSucceeds ==
  /\ main = "download" /\ ~ctxDone
  /\ main' = "generate"
  /\ worker' = [w \in Networks |-> IF w \in Eligible THEN "acquiring" ELSE "filtered"]
  /\ UNCHANGED <<ctxDone, uploadError, free, fetch, validatorVars, object>>

DownloadFails ==
  /\ main = "download"
  /\ main' = "error"
  /\ UNCHANGED <<ctxDone, uploadError, free, worker, fetch, validatorVars, object>>

\* All goroutines have ended; every inventory gets an upload of its own.
Generated ==
  /\ main = "generate" /\ \A w \in Networks : worker[w] \in Final
  /\ main' = "upload"
  /\ worker' = [w \in Networks |-> IF worker[w] = "stored" THEN "toUpload" ELSE worker[w]]
  /\ UNCHANGED <<ctxDone, uploadError, free, fetch, validatorVars, object>>

Uploaded ==
  /\ main = "upload" /\ \A w \in Networks : worker[w] \notin {"toUpload", "uploading"}
  /\ main' = IF uploadError THEN "error" ELSE "ok"
  /\ UNCHANGED <<ctxDone, uploadError, free, worker, fetch, validatorVars, object>>

Exits ==
  /\ main \in {"ok", "error"}
  /\ main' = "exited"
  /\ UNCHANGED <<ctxDone, uploadError, free, worker, fetch, validatorVars, object>>

-----------------------------------------------------------------------------
(* The goroutine of network w: semaphore, health check, requests.          *)

GoesTo(w, step) == worker' = [worker EXCEPT ![w] = step]
Ends(w, outcome) == GoesTo(w, outcome) /\ free' = free + 1

Acquire(w) ==
  /\ worker[w] = "acquiring" /\ free > 0 /\ ~ctxDone
  /\ free' = free - 1
  /\ GoesTo(w, "health")
  /\ UNCHANGED <<commandVars, fetch, validatorVars, object>>

AcquireFails(w) ==
  /\ worker[w] = "acquiring" /\ ctxDone
  /\ GoesTo(w, "failed")
  /\ UNCHANGED <<commandVars, free, fetch, validatorVars, object>>

\* HEAD, and GET if that fails.
Healthy(w) ==
  /\ worker[w] = "health" /\ ~ctxDone
  /\ GoesTo(w, "fetching")
  /\ UNCHANGED <<commandVars, free, fetch, validatorVars, object>>

\* A Dora that does not answer is no error: there is no inventory.
Unhealthy(w) ==
  /\ worker[w] = "health"
  /\ Ends(w, "skipped")
  /\ UNCHANGED <<commandVars, fetch, validatorVars, object>>

Fetching(w, l) == worker[w] = "fetching" /\ fetch[w][l] > 0

FetchSucceeds(w, l) ==
  /\ Fetching(w, l) /\ ~ctxDone
  /\ fetch' = [fetch EXCEPT ![w][l] = Succeeded]
  /\ UNCHANGED <<commandVars, free, worker, validatorVars, object>>

\* There is no back-off after the last attempt, and cancellation ends it.
FetchFails(w, l) ==
  /\ Fetching(w, l)
  /\ \E next \in (2..Attempts) \union {GaveUp} :
       /\ next = GaveUp => ctxDone \/ fetch[w][l] = Attempts
       /\ next # GaveUp => next = fetch[w][l] + 1
       /\ fetch' = [fetch EXCEPT ![w][l] = next]
  /\ UNCHANGED <<commandVars, free, worker, validatorVars, object>>

\* Both requests are waited for, then either error fails the network.
FetchedBoth(w) == worker[w] = "fetching" /\ \A l \in Layers : fetch[w][l] <= 0

FetchedAll(w) ==
  /\ FetchedBoth(w) /\ \A l \in Layers : fetch[w][l] = Succeeded
  /\ GoesTo(w, "validating")
  /\ todo' = [todo EXCEPT ![w] = IF Validation THEN Clients ELSE {}]
  /\ kept' = [kept EXCEPT ![w] = IF Validation THEN {} ELSE Clients]
  /\ UNCHANGED <<commandVars, free, fetch, freeChecks, checking, object>>

FetchGivesUp(w) ==
  /\ FetchedBoth(w) /\ \E l \in Layers : fetch[w][l] = GaveUp
  /\ Ends(w, "failed")
  /\ UNCHANGED <<commandVars, fetch, validatorVars, object>>

-----------------------------------------------------------------------------
(* Validation: one client after the other, consensus clients first, its    *)
(* SSH host name and then its HTTPS endpoint, each check under a permit    *)
(* that all networks share.                                                *)

NextClients(w) == IF todo[w] \cap Consensus # {} THEN todo[w] \cap Consensus ELSE todo[w]

BeginCheck(w, client, step) ==
  /\ freeChecks > 0 /\ ~ctxDone
  /\ freeChecks' = freeChecks - 1
  /\ checking' = [checking EXCEPT ![w] = [step |-> step, client |-> client]]

Drop(w, client) ==
  /\ todo' = [todo EXCEPT ![w] = @ \ {client}]
  /\ checking' = [checking EXCEPT ![w] = NoCheck]
  /\ UNCHANGED kept

ValidateClient(w) ==
  /\ worker[w] = "validating" /\ checking[w] = NoCheck
  /\ \E client \in NextClients(w) : BeginCheck(w, client, "ssh")
  /\ UNCHANGED <<commandVars, free, worker, fetch, todo, kept, object>>

\* Once the context is cancelled no permit is given: the client is dropped.
CheckRefused(w) ==
  /\ worker[w] = "validating" /\ ctxDone
  /\ \/ checking[w] = NoCheck /\ \E client \in NextClients(w) : Drop(w, client)
     \/ checking[w].step = "resolved" /\ Drop(w, checking[w].client)
  /\ UNCHANGED <<commandVars, free, worker, fetch, freeChecks, object>>

HostResolves(w) ==
  /\ checking[w].step = "ssh" /\ checking[w].client \in Resolves /\ ~ctxDone
  /\ freeChecks' = freeChecks + 1
  /\ checking' = [checking EXCEPT ![w].step = "resolved"]
  /\ UNCHANGED <<commandVars, free, worker, fetch, todo, kept, object>>

CheckEndpoint(w) ==
  /\ checking[w].step = "resolved"
  /\ BeginCheck(w, checking[w].client, "https")
  /\ UNCHANGED <<commandVars, free, worker, fetch, todo, kept, object>>

EndpointAnswers(w) ==
  /\ checking[w].step = "https" /\ checking[w].client \in Serves /\ ~ctxDone
  /\ freeChecks' = freeChecks + 1
  /\ kept' = [kept EXCEPT ![w] = @ \union {checking[w].client}]
  /\ todo' = [todo EXCEPT ![w] = @ \ {checking[w].client}]
  /\ checking' = [checking EXCEPT ![w] = NoCheck]
  /\ UNCHANGED <<commandVars, free, worker, fetch, object>>

\* The look-up or the request of the client is cancelled or does not succeed.
Unreachable(w) ==
  \/ ctxDone
  \/ checking[w].step = "ssh" /\ checking[w].client \notin Resolves
  \/ checking[w].step = "https" /\ checking[w].client \notin Serves

Mut_KeepsPermit(w) ==
  /\ checking[w].step \in {"ssh", "https"} /\ Unreachable(w)
  /\ Drop(w, checking[w].client)
  /\ UNCHANGED <<commandVars, free, freeChecks, worker, fetch, object>>

CheckFails(w) ==
  /\ checking[w].step \in {"ssh", "https"} /\ Unreachable(w)
  /\ freeChecks' = freeChecks + 1
  /\ Drop(w, checking[w].client)
  /\ UNCHANGED <<commandVars, free, worker, fetch, object>>

StoreInventory(w) ==
  /\ worker[w] = "validating" /\ todo[w] = {}
  /\ Ends(w, "stored")
  /\ UNCHANGED <<commandVars, fetch, validatorVars, object>>

-----------------------------------------------------------------------------
(* Uploads, one goroutine per inventory.                                   *)

Mut_OwnContext(w) ==
  /\ worker[w] = "toUpload"
  /\ GoesTo(w, "uploading")
  /\ UNCHANGED <<commandVars, free, fetch, validatorVars, object>>

\* A request is not sent under a context that is cancelled already.
SendUpload(w) ==
  /\ worker[w] = "toUpload" /\ ~ctxDone
  /\ GoesTo(w, "uploading")
  /\ UNCHANGED <<commandVars, free, fetch, validatorVars, object>>

Stored(w) == object' = [object EXCEPT ![w] = [uploaded |-> TRUE, clients |-> kept[w]]]

Mut_ErrorOverwritten(w) ==
  /\ worker[w] = "uploading"
  /\ Stored(w)
  /\ uploadError' = FALSE
  /\ GoesTo(w, "uploaded")
  /\ UNCHANGED <<main, ctxDone, free, fetch, validatorVars>>

UploadSucceeds(w) ==
  /\ worker[w] = "uploading"
  /\ Stored(w)
  /\ GoesTo(w, "uploaded")
  /\ UNCHANGED <<commandVars, free, fetch, validatorVars>>

\* The object may have been stored all the same.
UploadFails(w) ==
  /\ \/ worker[w] = "toUpload" /\ UNCHANGED object
     \/ worker[w] = "uploading" /\ (Stored(w) \/ UNCHANGED object)
  /\ uploadError' = TRUE
  /\ GoesTo(w, "uploadFailed")
  /\ UNCHANGED <<main, ctxDone, free, fetch, validatorVars>>

-----------------------------------------------------------------------------
MainNext == DownloadSucceeds \/ DownloadFails \/ Generated \/ Uploaded \/ Exits

RequestNext(w) ==
  \/ Acquire(w) \/ AcquireFails(w) \/ Healthy(w) \/ Unhealthy(w)
  \/ \E l \in Layers : FetchSucceeds(w, l) \/ FetchFails(w, l)
  \/ FetchedAll(w) \/ FetchGivesUp(w)

ValidatorNext(w) ==
  \/ ValidateClient(w) \/ CheckRefused(w) \/ HostResolves(w) \/ CheckEndpoint(w)
  \/ EndpointAnswers(w) \/ CheckFails(w) \/ StoreInventory(w)

UploadNext(w) == SendUpload(w) \/ UploadSucceeds(w) \/ UploadFails(w)

WorkerNext(w) == RequestNext(w) \/ ValidatorNext(w) \/ UploadNext(w)

Next == MainNext \/ Signal \/ \E w \in Networks : WorkerNext(w)

Spec == Init /\ [][Next]_vars

\* The HTTP clients and the resolver have timeouts, and the semaphores are first
\* come, first served.  Requests to the S3 store have no timeout: they are sure
\* to end only once the context is done.  Signals need not come.
MainFair == (main # "download" \/ ctxDone) /\ MainNext
WorkerFair(w) == (worker[w] # "uploading" \/ ctxDone) /\ WorkerNext(w)

FairSpec == Spec /\ WF_vars(MainFair) /\ \A w \in Networks : SF_vars(WorkerFair(w))

-----------------------------------------------------------------------------
Holding == {"health", "fetching", "validating"}

TypeOK ==
  /\ main \in {"download", "generate", "upload", "ok", "error", "exited"}
  /\ ctxDone \in BOOLEAN /\ uploadError \in BOOLEAN
  /\ free \in 0..Generators /\ freeChecks \in 0..Checks
  /\ worker \in [Networks -> {"pending", "acquiring", "toUpload", "uploading", "uploaded",
                              "uploadFailed"} \union Holding \union Final]
  /\ fetch \in [Networks -> [Layers -> (1..Attempts) \union {Succeeded, GaveUp}]]
  /\ todo \in [Networks -> SUBSET Clients] /\ kept \in [Networks -> SUBSET Clients]
  /\ checking \in [Networks ->
       {NoCheck} \union [step : {"ssh", "resolved", "https"}, client : Clients]]
  /\ object \in [Networks -> {None} \union [uploaded : {TRUE}, clients : SUBSET Clients]]

\* No way out of a goroutine or of a check loses a permit of either semaphore.
Generating == {w \in Networks : worker[w] \in Holding}
Checking == {w \in Networks : checking[w].step \in {"ssh", "https"}}
PermitsAreAccounted ==
  /\ free + Cardinality(Generating) = Generators
  /\ freeChecks + Cardinality(Checking) = Checks

\* An inventory in the bucket holds exactly the reachable clients, although a
\* cancellation in the middle of the validation makes reachable clients drop out.
Reachable == IF Validation THEN Resolves \cap Serves ELSE Clients
ObjectsAreExact == \A w \in Networks : object[w].uploaded => object[w].clients = Reachable

\* The command ends without error only if every inventory it has generated is
\* in the bucket: an error of one of the concurrent uploads is not lost.
SuccessMeansUploaded ==
  main = "ok" => \A w \in Networks :
    worker[w] \in Final \ {"stored"} \/ (worker[w] = "uploaded" /\ object[w].uploaded)

\* The command ends, unless a request to the S3 store hangs and no signal comes:
\* the goroutines that hold a permit of the service and wait for one of the
\* validator do not block each other.
Terminates ==
  \/ <>(main = "exited")
  \/ <>[](~ctxDone /\ (main = "download" \/ \E w \in Networks : worker[w] = "uploading"))
=============================================================================
