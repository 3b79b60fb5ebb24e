----------------------- MODULE InventoryServiceProofs -----------------------
(***************************************************************************)
(* Proofs about InventoryService for every set of networks and clients and *)
(* any number of permits and attempts.                                     *)
(***************************************************************************)
EXTENDS InventoryService, FiniteSetTheorems, TLAPS

-----------------------------------------------------------------------------
(* Types.  The numbers of permits are typed along with their account.      *)

MainOK ==
  /\ main \in {"download", "generate", "upload", "ok", "error", "exited"}
  /\ ctxDone \in BOOLEAN /\ uploadError \in BOOLEAN

WorkersOK ==
  worker \in [Networks -> {"pending", "acquiring", "toUpload", "uploading", "uploaded",
                           "uploadFailed"} \union Holding \union Final]

FetchOK == fetch \in [Networks -> [Layers -> (1..Attempts) \union {Succeeded, GaveUp}]]

CheckOf == {NoCheck} \union [step : {"ssh", "resolved", "https"}, client : Clients]

ClientsOK ==
  /\ todo \in [Networks -> SUBSET Clients] /\ kept \in [Networks -> SUBSET Clients]
  /\ checking \in [Networks -> CheckOf]

ObjectsOK == object \in [Networks -> {None} \union [uploaded : {TRUE}, clients : SUBSET Clients]]

PermitsOK == free \in 0..Generators /\ freeChecks \in 0..Checks /\ PermitsAreAccounted

LEMMA MainStep ==
  ASSUME MainOK, [Next]_vars
  PROVE  MainOK'
<1>. USE DEF MainOK, vars, commandVars
<1>1. CASE MainNext
  BY <1>1 DEF MainNext, DownloadSucceeds, DownloadFails, Generated, Uploaded, Exits
<1>2. CASE Signal BY <1>2 DEF Signal
<1>3. ASSUME NEW w \in Networks, WorkerNext(w)
      PROVE  MainOK'
  <2>1. CASE RequestNext(w)
    BY <1>3, <2>1, Zenon DEF RequestNext, Acquire, AcquireFails, Healthy, Unhealthy,
         FetchSucceeds, FetchFails, FetchedAll, FetchGivesUp
  <2>2. CASE ValidatorNext(w)
    BY <1>3, <2>2, Zenon DEF ValidatorNext, ValidateClient, CheckRefused, HostResolves,
         CheckEndpoint, EndpointAnswers, CheckFails, StoreInventory
  <2>3. CASE UploadNext(w)
    BY <1>3, <2>3 DEF UploadNext, SendUpload, UploadSucceeds, UploadFails
  <2>. QED BY <1>3, <2>1, <2>2, <2>3 DEF WorkerNext
<1>4. CASE UNCHANGED vars BY <1>4
<1>. QED BY <1>1, <1>2, <1>3, <1>4 DEF Next

LEMMA WorkersStep ==
  ASSUME WorkersOK, [Next]_vars
  PROVE  WorkersOK'
<1>. USE DEF WorkersOK, Holding, Final, GoesTo, Ends, vars
<1>1. CASE MainNext
  BY <1>1 DEF MainNext, DownloadSucceeds, DownloadFails, Generated, Uploaded, Exits
<1>2. CASE Signal BY <1>2 DEF Signal
<1>3. ASSUME NEW w \in Networks, WorkerNext(w)
      PROVE  WorkersOK'
  <2>1. CASE RequestNext(w)
    BY <1>3, <2>1 DEF RequestNext, Acquire, AcquireFails, Healthy, Unhealthy,
         FetchSucceeds, FetchFails, FetchedAll, FetchGivesUp
  <2>2. CASE ValidatorNext(w)
    BY <1>3, <2>2 DEF ValidatorNext, ValidateClient, CheckRefused, HostResolves,
         CheckEndpoint, EndpointAnswers, CheckFails, StoreInventory
  <2>3. CASE UploadNext(w)
    BY <1>3, <2>3 DEF UploadNext, SendUpload, UploadSucceeds, UploadFails
  <2>. QED BY <1>3, <2>1, <2>2, <2>3 DEF WorkerNext
<1>4. CASE UNCHANGED vars BY <1>4
<1>. QED BY <1>1, <1>2, <1>3, <1>4 DEF Next

LEMMA FetchStep ==
  ASSUME FetchOK, [Next]_vars
  PROVE  FetchOK'
<1>1. ASSUME NEW w \in Networks, NEW l \in Layers, FetchSucceeds(w, l) \/ FetchFails(w, l)
      PROVE  FetchOK'
  <2>1. PICK next \in (1..Attempts) \union {Succeeded, GaveUp} :
          fetch' = [fetch EXCEPT ![w][l] = next]
    BY <1>1 DEF FetchSucceeds, FetchFails
  <2>. QED BY <2>1 DEF FetchOK
<1>2. CASE UNCHANGED fetch BY <1>2 DEF FetchOK
<1>3. UNCHANGED fetch
      \/ \E w \in Networks, l \in Layers : FetchSucceeds(w, l) \/ FetchFails(w, l)
  BY DEF vars, Next, MainNext, DownloadSucceeds, DownloadFails, Generated, Uploaded, Exits, Signal,
         WorkerNext, RequestNext, Acquire, AcquireFails, Healthy, Unhealthy, FetchedAll,
         FetchGivesUp, ValidatorNext, ValidateClient, CheckRefused, HostResolves, CheckEndpoint,
         EndpointAnswers, CheckFails, StoreInventory, UploadNext, SendUpload, UploadSucceeds,
         UploadFails
<1>. QED BY <1>1, <1>2, <1>3

LEMMA ClientsStep ==
  ASSUME ClientsOK, [Next]_vars
  PROVE  ClientsOK'
<1>. USE DEF ClientsOK, CheckOf, NoCheck
<1>1. ASSUME NEW w \in Networks, ValidatorNext(w) \/ FetchedAll(w)
      PROVE  ClientsOK'
  <2>1. CASE FetchedAll(w) BY <2>1 DEF FetchedAll
  <2>2. CASE ValidateClient(w)
    BY <2>2 DEF ValidateClient, BeginCheck, NextClients, Clients
  <2>3. CASE CheckRefused(w) BY <2>3 DEF CheckRefused, Drop
  <2>4. CASE HostResolves(w) BY <2>4 DEF HostResolves
  <2>5. CASE CheckEndpoint(w) BY <2>5 DEF CheckEndpoint, BeginCheck
  <2>6. CASE EndpointAnswers(w) BY <2>6 DEF EndpointAnswers
  <2>7. CASE CheckFails(w) BY <2>7 DEF CheckFails, Drop
  <2>8. CASE StoreInventory(w) BY <2>8 DEF StoreInventory, validatorVars
  <2>. QED BY <1>1, <2>1, <2>2, <2>3, <2>4, <2>5, <2>6, <2>7, <2>8 DEF ValidatorNext
<1>2. CASE UNCHANGED validatorVars BY <1>2 DEF validatorVars
<1>3. UNCHANGED validatorVars \/ \E w \in Networks : ValidatorNext(w) \/ FetchedAll(w)
  BY DEF vars, Next, MainNext, DownloadSucceeds, DownloadFails, Generated, Uploaded, Exits, Signal,
         WorkerNext, RequestNext, Acquire, AcquireFails, Healthy, Unhealthy, FetchSucceeds,
         FetchFails, FetchGivesUp, UploadNext, SendUpload, UploadSucceeds, UploadFails
<1>. QED BY <1>1, <1>2, <1>3

LEMMA ObjectMoves ==
  ASSUME [Next]_vars
  PROVE  UNCHANGED object \/ \E w \in Networks : worker[w] = "uploading" /\ Stored(w)
BY DEF vars, Next, MainNext, DownloadSucceeds, DownloadFails, Generated, Uploaded, Exits, Signal,
       WorkerNext, RequestNext, Acquire, AcquireFails, Healthy, Unhealthy, FetchSucceeds,
       FetchFails, FetchedAll, FetchGivesUp, ValidatorNext, ValidateClient, CheckRefused,
       HostResolves, CheckEndpoint, EndpointAnswers, CheckFails, StoreInventory, UploadNext,
       SendUpload, UploadSucceeds, UploadFails

LEMMA ObjectsTypeStep ==
  ASSUME ClientsOK, ObjectsOK, [Next]_vars
  PROVE  ObjectsOK'
<1>1. ASSUME NEW w \in Networks, Stored(w)
      PROVE  ObjectsOK'
  <2>1. [uploaded |-> TRUE, clients |-> kept[w]] \in [uploaded : {TRUE}, clients : SUBSET Clients]
    BY DEF ClientsOK
  <2>. QED BY <1>1, <2>1 DEF ObjectsOK, Stored
<1>. QED BY <1>1, ObjectMoves DEF ObjectsOK

-----------------------------------------------------------------------------
(* What the goroutines of each phase of the command may be at.             *)

Uploading == {"toUpload", "uploading", "uploaded", "uploadFailed"}

Phases ==
  /\ main = "download" => \A w \in Networks : worker[w] = "pending"
  /\ main = "generate" => \A w \in Networks : worker[w] \in {"acquiring"} \union Holding \union Final
  /\ main = "upload" => \A w \in Networks : worker[w] \in Uploading \union (Final \ {"stored"})

LEMMA PhasesStep ==
  ASSUME WorkersOK, Phases, [Next]_vars
  PROVE  Phases'
<1>. USE DEF WorkersOK, Phases, Uploading, Holding, Final, GoesTo, Ends, vars, commandVars
<1>1. CASE MainNext
  BY <1>1 DEF MainNext, DownloadSucceeds, DownloadFails, Generated, Uploaded, Exits
<1>2. CASE Signal BY <1>2 DEF Signal
<1>3. ASSUME NEW w \in Networks, WorkerNext(w)
      PROVE  Phases'
  <2>1. CASE RequestNext(w)
    BY <1>3, <2>1 DEF RequestNext, Acquire, AcquireFails, Healthy, Unhealthy,
         FetchSucceeds, FetchFails, FetchedAll, FetchedBoth, FetchGivesUp
  <2>2. CASE ValidatorNext(w)
    BY <1>3, <2>2 DEF ValidatorNext, ValidateClient, CheckRefused, HostResolves,
         CheckEndpoint, EndpointAnswers, CheckFails, StoreInventory
  <2>3. CASE UploadNext(w)
    BY <1>3, <2>3 DEF UploadNext, SendUpload, UploadSucceeds, UploadFails
  <2>. QED BY <1>3, <2>1, <2>2, <2>3 DEF WorkerNext
<1>4. CASE UNCHANGED vars BY <1>4
<1>. QED BY <1>1, <1>2, <1>3, <1>4 DEF Next

-----------------------------------------------------------------------------
(* Permits.  A step takes a permit of a semaphore, gives one back or leaves *)
(* it alone, along with the set of those that hold one.                    *)

LEMMA SetsAreFinite ==
  /\ IsFiniteSet(Generating) /\ Cardinality(Generating) \in Nat
  /\ IsFiniteSet(Checking) /\ Cardinality(Checking) \in Nat
<1>1. Generating \subseteq Networks /\ Checking \subseteq Networks
  BY DEF Generating, Checking
<1>2. IsFiniteSet(Generating) /\ IsFiniteSet(Checking)
  BY <1>1, FS_Subset, InventoryAssumption DEF InventoryAssumption
<1>. QED BY <1>2, FS_CardinalityType

LEMMA CountsMoveTogether ==
  ASSUME NEW total \in Nat, NEW n \in 0..total, NEW m, NEW S, NEW T,
         IsFiniteSet(S), n + Cardinality(S) = total,
         \/ T = S /\ m = n
         \/ \E x : x \notin S /\ T = S \union {x} /\ m = n - 1 /\ n > 0
         \/ \E x \in S : T = S \ {x} /\ m = n + 1
  PROVE  m \in 0..total /\ m + Cardinality(T) = total
<1>1. Cardinality(S) \in Nat BY FS_CardinalityType
<1>2. CASE T = S /\ m = n BY <1>1, <1>2
<1>3. ASSUME NEW x, x \notin S, T = S \union {x}, m = n - 1, n > 0
      PROVE  m \in 0..total /\ m + Cardinality(T) = total
  <2>1. Cardinality(T) = Cardinality(S) + 1 BY <1>3, FS_AddElement
  <2>. QED BY <1>1, <1>3, <2>1
<1>4. ASSUME NEW x \in S, T = S \ {x}, m = n + 1
      PROVE  m \in 0..total /\ m + Cardinality(T) = total
  <2>1. Cardinality(T) = Cardinality(S) - 1 /\ IsFiniteSet(T) BY <1>4, FS_RemoveElement
  <2>2. Cardinality(T) \in Nat BY <2>1, FS_CardinalityType
  <2>. QED BY <1>1, <1>4, <2>1, <2>2
<1>. QED BY <1>2, <1>3, <1>4

LEMMA GeneratorsMove ==
  ASSUME WorkersOK, Phases, [Next]_vars
  PROVE  \/ Generating' = Generating /\ free' = free
         \/ \E w : /\ w \notin Generating /\ Generating' = Generating \union {w}
                  /\ free' = free - 1 /\ free > 0
         \/ \E w \in Generating : Generating' = Generating \ {w} /\ free' = free + 1
<1>. USE DEF WorkersOK, Generating, Holding, Final, GoesTo
<1>1. ASSUME NEW w \in Networks, Acquire(w)
      PROVE  /\ w \notin Generating /\ Generating' = Generating \union {w}
             /\ free' = free - 1 /\ free > 0
  BY <1>1 DEF Acquire
<1>2. ASSUME NEW w \in Networks, Unhealthy(w) \/ FetchGivesUp(w) \/ StoreInventory(w)
      PROVE  w \in Generating /\ Generating' = Generating \ {w} /\ free' = free + 1
  BY <1>2 DEF Unhealthy, FetchGivesUp, FetchedBoth, StoreInventory, Ends
<1>3. ASSUME NEW w \in Networks,
             \/ AcquireFails(w) \/ Healthy(w) \/ FetchedAll(w)
             \/ \E l \in Layers : FetchSucceeds(w, l) \/ FetchFails(w, l)
      PROVE  Generating' = Generating /\ free' = free
  BY <1>3 DEF AcquireFails, Healthy, FetchedAll, FetchedBoth, FetchSucceeds, FetchFails
<1>4. ASSUME NEW w \in Networks, ValidatorNext(w), ~StoreInventory(w)
      PROVE  Generating' = Generating /\ free' = free
  BY <1>4 DEF ValidatorNext, ValidateClient, CheckRefused, HostResolves, CheckEndpoint,
              EndpointAnswers, CheckFails
<1>5. ASSUME NEW w \in Networks, UploadNext(w)
      PROVE  Generating' = Generating /\ free' = free
  BY <1>5 DEF UploadNext, SendUpload, UploadSucceeds, UploadFails, commandVars
<1>6. CASE MainNext \/ Signal \/ UNCHANGED vars
  <2>1. free' = free
    BY <1>6 DEF MainNext, DownloadSucceeds, DownloadFails, Generated, Uploaded, Exits, Signal, vars
  <2>2. CASE DownloadSucceeds \/ Generated
    BY <2>1, <2>2 DEF DownloadSucceeds, Generated, Phases
  <2>3. CASE ~(DownloadSucceeds \/ Generated)
    BY <1>6, <2>1, <2>3 DEF MainNext, DownloadFails, Uploaded, Exits, Signal, vars
  <2>. QED BY <2>2, <2>3
<1>. QED BY <1>1, <1>2, <1>3, <1>4, <1>5, <1>6 DEF Next, WorkerNext, RequestNext

LEMMA ChecksMove ==
  ASSUME ClientsOK, [Next]_vars
  PROVE  \/ Checking' = Checking /\ freeChecks' = freeChecks
         \/ \E w : /\ w \notin Checking /\ Checking' = Checking \union {w}
                  /\ freeChecks' = freeChecks - 1 /\ freeChecks > 0
         \/ \E w \in Checking : Checking' = Checking \ {w} /\ freeChecks' = freeChecks + 1
<1>. USE DEF ClientsOK, CheckOf, NoCheck, Checking
<1>1. ASSUME NEW w \in Networks, ValidateClient(w) \/ CheckEndpoint(w)
      PROVE  /\ w \notin Checking /\ Checking' = Checking \union {w}
             /\ freeChecks' = freeChecks - 1 /\ freeChecks > 0
  <2>1. w \notin Checking
    BY <1>1 DEF ValidateClient, CheckEndpoint
  <2>2. PICK client, step : BeginCheck(w, client, step) /\ step \in {"ssh", "https"}
    BY <1>1 DEF ValidateClient, CheckEndpoint
  <2>. QED BY <2>1, <2>2 DEF BeginCheck
<1>2. ASSUME NEW w \in Networks, HostResolves(w) \/ EndpointAnswers(w) \/ CheckFails(w)
      PROVE  w \in Checking /\ Checking' = Checking \ {w} /\ freeChecks' = freeChecks + 1
  <2>1. CASE HostResolves(w) BY <2>1 DEF HostResolves
  <2>2. CASE EndpointAnswers(w) BY <2>2 DEF EndpointAnswers
  <2>3. CASE CheckFails(w) BY <2>3 DEF CheckFails, Drop
  <2>. QED BY <1>2, <2>1, <2>2, <2>3
<1>3. ASSUME NEW w \in Networks, CheckRefused(w)
      PROVE  Checking' = Checking /\ freeChecks' = freeChecks
  BY <1>3 DEF CheckRefused, Drop
<1>4. CASE UNCHANGED <<checking, freeChecks>> BY <1>4
<1>5. UNCHANGED <<checking, freeChecks>>
      \/ \E w \in Networks : \/ ValidateClient(w) \/ CheckEndpoint(w) \/ HostResolves(w)
                           \/ EndpointAnswers(w) \/ CheckFails(w) \/ CheckRefused(w)
  BY DEF vars, validatorVars, Next, MainNext, DownloadSucceeds, DownloadFails, Generated, Uploaded,
         Exits, Signal, WorkerNext, RequestNext, Acquire, AcquireFails, Healthy, Unhealthy,
         FetchSucceeds, FetchFails, FetchedAll, FetchGivesUp, ValidatorNext, StoreInventory,
         UploadNext, SendUpload, UploadSucceeds, UploadFails
<1>. QED BY <1>1, <1>2, <1>3, <1>4, <1>5

LEMMA PermitsStep ==
  ASSUME WorkersOK, ClientsOK, Phases, PermitsOK, [Next]_vars
  PROVE  PermitsOK'
<1>. USE SetsAreFinite, InventoryAssumption DEF InventoryAssumption, PermitsOK, PermitsAreAccounted
<1>1. free' \in 0..Generators /\ free' + Cardinality(Generating') = Generators
  BY GeneratorsMove, CountsMoveTogether
<1>2. freeChecks' \in 0..Checks /\ freeChecks' + Cardinality(Checking') = Checks
  BY ChecksMove, CountsMoveTogether
<1>. QED BY <1>1, <1>2

TypeInv == MainOK /\ WorkersOK /\ FetchOK /\ ClientsOK /\ ObjectsOK /\ Phases /\ PermitsOK

LEMMA InitialTypes == Init => TypeInv
<1>. SUFFICES ASSUME Init PROVE TypeInv
  OBVIOUS
<1>. USE InventoryAssumption DEF InventoryAssumption, Init
<1>1. Generating = {} /\ Checking = {} BY DEF Generating, Checking, Holding, NoCheck
<1>2. PermitsOK BY <1>1, FS_EmptySet DEF PermitsOK, PermitsAreAccounted
<1>3. MainOK BY DEF MainOK
<1>4. WorkersOK /\ Phases BY DEF WorkersOK, Phases
<1>5. FetchOK BY DEF FetchOK
<1>6. ClientsOK /\ ObjectsOK BY DEF ClientsOK, CheckOf, ObjectsOK
<1>. QED BY <1>2, <1>3, <1>4, <1>5, <1>6 DEF TypeInv

LEMMA TypeStep == TypeInv /\ [Next]_vars => TypeInv'
BY MainStep, WorkersStep, FetchStep, ClientsStep, ObjectsTypeStep, PhasesStep, PermitsStep
DEF TypeInv

-----------------------------------------------------------------------------
(* Inventories.  Until the context is cancelled the clients that have been *)
(* handled are kept exactly if they are reachable; afterwards an inventory *)
(* may lack some, but no upload is begun.  One that is under way was begun *)
(* before.                                                                 *)

\* The client in progress is one of those left, and resolves once that is known.
ChecksAreOfTodo ==
  \A w \in Networks : checking[w] # NoCheck =>
    /\ worker[w] = "validating"
    /\ checking[w].client \in todo[w]
    /\ checking[w].step \in {"resolved", "https"} => checking[w].client \in Resolves

KeptAreExact ==
  \A w \in Networks :
    /\ ~Validation => todo[w] = {}
    /\ ~ctxDone /\ worker[w] = "validating" => kept[w] = Reachable \ todo[w]
    /\ ~ctxDone /\ worker[w] \in {"stored", "toUpload"} => kept[w] = Reachable
    /\ worker[w] = "uploading" => kept[w] = Reachable

LEMMA ChecksStep ==
  ASSUME WorkersOK, ClientsOK, Phases, ChecksAreOfTodo, [Next]_vars
  PROVE  ChecksAreOfTodo'
<1>. USE DEF ChecksAreOfTodo, WorkersOK, ClientsOK, CheckOf, NoCheck, GoesTo, Ends
<1>1. ASSUME NEW w \in Networks, ValidatorNext(w)
      PROVE  ChecksAreOfTodo'
  <2>1. CASE ValidateClient(w)
    <3>1. PICK client \in todo[w] : BeginCheck(w, client, "ssh")
      BY <2>1 DEF ValidateClient, NextClients
    <3>2. worker[w] = "validating" /\ UNCHANGED <<worker, todo>>
      BY <2>1 DEF ValidateClient
    <3>. QED BY <3>1, <3>2 DEF BeginCheck
  <2>2. CASE CheckRefused(w) BY <2>2 DEF CheckRefused, Drop
  <2>3. CASE HostResolves(w) BY <2>3 DEF HostResolves
  <2>4. CASE CheckEndpoint(w) BY <2>4 DEF CheckEndpoint, BeginCheck
  <2>5. CASE EndpointAnswers(w) BY <2>5 DEF EndpointAnswers
  <2>6. CASE CheckFails(w) BY <2>6 DEF CheckFails, Drop
  <2>7. CASE StoreInventory(w) BY <2>7 DEF StoreInventory, validatorVars
  <2>. QED BY <1>1, <2>1, <2>2, <2>3, <2>4, <2>5, <2>6, <2>7 DEF ValidatorNext
<1>2. ASSUME NEW w \in Networks, RequestNext(w) \/ UploadNext(w)
      PROVE  ChecksAreOfTodo'
  <2>1. worker[w] # "validating"
    BY <1>2 DEF RequestNext, Acquire, AcquireFails, Healthy, Unhealthy, FetchSucceeds, FetchFails,
         Fetching, FetchedAll, FetchedBoth, FetchGivesUp, UploadNext, SendUpload, UploadSucceeds,
         UploadFails
  <2>2. /\ UNCHANGED checking
        /\ worker' = worker \/ \E step : worker' = [worker EXCEPT ![w] = step]
        /\ todo' = todo \/ \E S : todo' = [todo EXCEPT ![w] = S]
    BY <1>2 DEF RequestNext, Acquire, AcquireFails, Healthy, Unhealthy, FetchSucceeds, FetchFails,
         FetchedAll, FetchGivesUp, UploadNext, SendUpload, UploadSucceeds, UploadFails, validatorVars
  <2>. QED BY <2>1, <2>2
<1>3. CASE MainNext
  <2>1. CASE DownloadSucceeds BY <2>1 DEF DownloadSucceeds, Phases, validatorVars
  <2>2. CASE Generated BY <2>2 DEF Generated, Final, validatorVars
  <2>. QED BY <1>3, <2>1, <2>2 DEF MainNext, DownloadFails, Uploaded, Exits, validatorVars
<1>4. CASE Signal \/ UNCHANGED vars BY <1>4 DEF Signal, vars, validatorVars
<1>. QED BY <1>1, <1>2, <1>3, <1>4 DEF Next, WorkerNext

LEMMA KeptStep ==
  ASSUME WorkersOK, ClientsOK, Phases, ChecksAreOfTodo, KeptAreExact, [Next]_vars
  PROVE  KeptAreExact'
<1>. USE DEF ChecksAreOfTodo, KeptAreExact, WorkersOK, ClientsOK, CheckOf, NoCheck, GoesTo, Ends
<1>1. ASSUME NEW w \in Networks, ValidatorNext(w)
      PROVE  KeptAreExact'
  <2>. ctxDone' = ctxDone
    BY <1>1 DEF ValidatorNext, ValidateClient, CheckRefused, HostResolves, CheckEndpoint,
         EndpointAnswers, CheckFails, StoreInventory, commandVars
  <2>1. CASE ValidateClient(w) \/ HostResolves(w) \/ CheckEndpoint(w)
    BY <2>1 DEF ValidateClient, HostResolves, CheckEndpoint
  <2>2. CASE CheckRefused(w)
    BY <2>2 DEF CheckRefused, Drop
  <2>3. CASE EndpointAnswers(w)
    <3>1. checking[w].client \in Reachable
      BY <2>3 DEF EndpointAnswers, Reachable
    <3>. QED BY <2>3, <3>1 DEF EndpointAnswers
  <2>4. CASE CheckFails(w)
    <3>1. ~ctxDone => checking[w].client \notin Reachable
      BY <2>4 DEF CheckFails, Unreachable, Reachable
    <3>. QED BY <2>4, <3>1 DEF CheckFails, Drop
  <2>5. CASE StoreInventory(w) BY <2>5 DEF StoreInventory, validatorVars
  <2>. QED BY <1>1, <2>1, <2>2, <2>3, <2>4, <2>5 DEF ValidatorNext
<1>2. ASSUME NEW w \in Networks, RequestNext(w)
      PROVE  KeptAreExact'
  <2>. ctxDone' = ctxDone
    BY <1>2 DEF RequestNext, Acquire, AcquireFails, Healthy, Unhealthy, FetchSucceeds, FetchFails,
         FetchedAll, FetchGivesUp, commandVars
  <2>1. CASE FetchedAll(w)
    <3>1. /\ todo' = [todo EXCEPT ![w] = IF Validation THEN Clients ELSE {}]
          /\ kept' = [kept EXCEPT ![w] = IF Validation THEN {} ELSE Clients]
          /\ worker' = [worker EXCEPT ![w] = "validating"]
      BY <2>1 DEF FetchedAll
    <3>2. kept'[w] = Reachable \ todo'[w] /\ (~Validation => todo'[w] = {})
      BY <3>1, InventoryAssumption DEF InventoryAssumption, Reachable
    <3>. QED BY <3>1, <3>2
  <2>2. CASE ~FetchedAll(w)
    BY <1>2, <2>2 DEF RequestNext, Acquire, AcquireFails, Healthy, Unhealthy, FetchSucceeds,
         FetchFails, FetchGivesUp, validatorVars
  <2>. QED BY <2>1, <2>2
<1>3. ASSUME NEW w \in Networks, UploadNext(w)
      PROVE  KeptAreExact'
  <2>1. CASE SendUpload(w) BY <2>1 DEF SendUpload, validatorVars, commandVars
  <2>2. CASE UploadSucceeds(w) BY <2>2 DEF UploadSucceeds, validatorVars, commandVars
  <2>3. CASE UploadFails(w) BY <2>3 DEF UploadFails, validatorVars
  <2>. QED BY <1>3, <2>1, <2>2, <2>3 DEF UploadNext
<1>4. CASE MainNext
  <2>1. CASE DownloadSucceeds BY <2>1 DEF DownloadSucceeds, validatorVars
  <2>2. CASE Generated BY <2>2 DEF Generated, validatorVars, Final
  <2>3. CASE DownloadFails \/ Uploaded \/ Exits
    BY <2>3 DEF DownloadFails, Uploaded, Exits, validatorVars
  <2>. QED BY <1>4, <2>1, <2>2, <2>3 DEF MainNext
<1>5. CASE Signal BY <1>5 DEF Signal, validatorVars
<1>6. CASE UNCHANGED vars BY <1>6 DEF vars, commandVars, validatorVars
<1>. QED BY <1>1, <1>2, <1>3, <1>4, <1>5, <1>6 DEF Next, WorkerNext

LEMMA ObjectsStep ==
  ASSUME ObjectsOK, KeptAreExact, ObjectsAreExact, [Next]_vars
  PROVE  ObjectsAreExact'
<1>1. ASSUME NEW w \in Networks, worker[w] = "uploading", Stored(w)
      PROVE  ObjectsAreExact'
  BY <1>1 DEF Stored, KeptAreExact, ObjectsAreExact, ObjectsOK, Reachable
<1>. QED BY <1>1, ObjectMoves DEF ObjectsAreExact, Reachable

-----------------------------------------------------------------------------
(* Success.                                                                *)

\* While the uploads run, every one that has failed has set the error, and every
\* one that has succeeded has left its object.
UploadsAreAccounted ==
  main \in {"upload", "ok"} => \A w \in Networks :
    /\ worker[w] = "uploadFailed" => uploadError
    /\ worker[w] = "uploaded" => object[w].uploaded

LEMMA UploadsStep ==
  ASSUME WorkersOK, ObjectsOK, Phases, UploadsAreAccounted, [Next]_vars
  PROVE  UploadsAreAccounted'
<1>. USE DEF WorkersOK, ObjectsOK, UploadsAreAccounted, GoesTo, Ends
<1>1. ASSUME NEW w \in Networks, UploadNext(w)
      PROVE  UploadsAreAccounted'
  <2>1. CASE SendUpload(w) BY <2>1 DEF SendUpload, commandVars
  <2>2. CASE UploadSucceeds(w)
    <3>1. object'[w].uploaded /\ \A v \in Networks \ {w} : object'[v] = object[v]
      BY <2>2 DEF UploadSucceeds, Stored
    <3>2. worker' = [worker EXCEPT ![w] = "uploaded"] /\ UNCHANGED <<main, uploadError>>
      BY <2>2 DEF UploadSucceeds, commandVars
    <3>. QED BY <3>1, <3>2
  <2>3. CASE UploadFails(w)
    <3>1. \A v \in Networks : object[v].uploaded => object'[v].uploaded
      BY <2>3 DEF UploadFails, Stored
    <3>2. worker' = [worker EXCEPT ![w] = "uploadFailed"] /\ uploadError' = TRUE /\ UNCHANGED main
      BY <2>3 DEF UploadFails
    <3>. QED BY <3>1, <3>2
  <2>. QED BY <1>1, <2>1, <2>2, <2>3 DEF UploadNext
<1>2. ASSUME NEW w \in Networks, RequestNext(w) \/ ValidatorNext(w)
      PROVE  UploadsAreAccounted'
  <2>1. /\ UNCHANGED <<commandVars, object>>
        /\ worker' = worker \/ \E step \in {"health", "fetching", "validating"} \union Final :
                                  worker' = [worker EXCEPT ![w] = step]
    BY <1>2 DEF RequestNext, Acquire, AcquireFails, Healthy, Unhealthy, FetchSucceeds, FetchFails,
         FetchedAll, FetchGivesUp, ValidatorNext, ValidateClient, CheckRefused, HostResolves,
         CheckEndpoint, EndpointAnswers, CheckFails, StoreInventory, Final
  <2>. QED BY <2>1 DEF commandVars, Final
<1>3. CASE MainNext
  <2>1. CASE DownloadSucceeds \/ DownloadFails
    BY <2>1 DEF DownloadSucceeds, DownloadFails
  <2>2. CASE Generated BY <2>2 DEF Generated, Final
  <2>3. CASE Uploaded BY <2>3 DEF Uploaded
  <2>4. CASE Exits BY <2>4 DEF Exits
  <2>. QED BY <1>3, <2>1, <2>2, <2>3, <2>4 DEF MainNext
<1>4. CASE Signal \/ UNCHANGED vars BY <1>4 DEF Signal, vars, commandVars
<1>. QED BY <1>1, <1>2, <1>3, <1>4 DEF Next, WorkerNext

LEMMA SuccessStep ==
  ASSUME WorkersOK, ObjectsOK, Phases, ChecksAreOfTodo, UploadsAreAccounted, SuccessMeansUploaded,
         [Next]_vars
  PROVE  SuccessMeansUploaded'
<1>. USE DEF SuccessMeansUploaded
<1>1. CASE Uploaded
  <2>1. main = "upload" /\ UNCHANGED <<worker, object>>
    BY <1>1 DEF Uploaded
  <2>2. main' = "ok" => ~uploadError
    BY <1>1 DEF Uploaded
  <2>3. \A w \in Networks : worker[w] \notin {"toUpload", "uploading"}
    BY <1>1 DEF Uploaded
  <2>. QED BY <2>1, <2>2, <2>3 DEF UploadsAreAccounted, Phases, Uploading, Final
<1>2. ASSUME NEW w \in Networks, WorkerNext(w), main = "ok"
      PROVE  UNCHANGED worker
  <2>1. worker[w] \in (Final \ {"stored"}) \union {"uploaded"} /\ checking[w] = NoCheck
    BY <1>2 DEF ChecksAreOfTodo, Final
  <2>. QED
    BY <1>2, <2>1 DEF Final, NoCheck, WorkerNext, RequestNext, Acquire, AcquireFails, Healthy,
         Unhealthy, FetchSucceeds, FetchFails, FetchedAll, FetchedBoth, FetchGivesUp, ValidatorNext,
         ValidateClient, CheckRefused, HostResolves, CheckEndpoint, EndpointAnswers, CheckFails,
         StoreInventory, UploadNext, SendUpload, UploadSucceeds, UploadFails
<1>3. CASE ~Uploaded
  <2>1. main' = "ok" => main = "ok"
    BY <1>3 DEF vars, commandVars, Next, MainNext, DownloadSucceeds, DownloadFails, Generated, Exits,
         Signal, WorkerNext, RequestNext, Acquire, AcquireFails, Healthy, Unhealthy, FetchSucceeds,
         FetchFails, FetchedAll, FetchGivesUp, ValidatorNext, ValidateClient, CheckRefused,
         HostResolves, CheckEndpoint, EndpointAnswers, CheckFails, StoreInventory, UploadNext,
         SendUpload, UploadSucceeds, UploadFails
  <2>2. main = "ok" => UNCHANGED worker
    BY <1>2, <1>3 DEF vars, Next, MainNext, DownloadSucceeds, DownloadFails, Generated, Exits, Signal
  <2>3. \A w \in Networks : object[w].uploaded => object'[w].uploaded
    BY ObjectMoves DEF Stored, ObjectsOK
  <2>. QED BY <2>1, <2>2, <2>3
<1>. QED BY <1>1, <1>3

-----------------------------------------------------------------------------
Inv ==
  /\ TypeInv
  /\ ChecksAreOfTodo /\ KeptAreExact /\ ObjectsAreExact
  /\ UploadsAreAccounted /\ SuccessMeansUploaded

THEOREM Invariance == Spec => []Inv
<1>1. Init => Inv
  <2>. SUFFICES ASSUME Init PROVE Inv
    OBVIOUS
  <2>1. TypeInv BY InitialTypes
  <2>2. ChecksAreOfTodo BY DEF Init, ChecksAreOfTodo
  <2>3. KeptAreExact BY DEF Init, KeptAreExact
  <2>4. ObjectsAreExact BY DEF Init, ObjectsAreExact, None
  <2>5. UploadsAreAccounted /\ SuccessMeansUploaded
    BY DEF Init, UploadsAreAccounted, SuccessMeansUploaded
  <2>. QED BY <2>1, <2>2, <2>3, <2>4, <2>5 DEF Inv
<1>2. Inv /\ [Next]_vars => Inv'
  <2>. SUFFICES ASSUME Inv, [Next]_vars PROVE Inv'
    OBVIOUS
  <2>1. TypeInv' BY TypeStep DEF Inv
  <2>2. ChecksAreOfTodo' /\ KeptAreExact' /\ ObjectsAreExact'
    BY ChecksStep, KeptStep, ObjectsStep DEF Inv, TypeInv
  <2>3. UploadsAreAccounted' /\ SuccessMeansUploaded'
    BY UploadsStep, SuccessStep DEF Inv, TypeInv
  <2>. QED BY <2>1, <2>2, <2>3 DEF Inv
<1>. QED BY <1>1, <1>2, PTL DEF Spec

\* Every variable has its type, and no way out of a goroutine or of a check
\* loses a permit of either semaphore or gives one back twice.
THEOREM TypeCorrect == Spec => [](TypeOK /\ PermitsAreAccounted)
<1>1. Inv => TypeOK /\ PermitsAreAccounted
  BY Zenon DEF Inv, TypeInv, TypeOK, MainOK, WorkersOK, FetchOK, ClientsOK, CheckOf, ObjectsOK,
               PermitsOK
<1>. QED BY <1>1, Invariance, PTL

\* A cancellation in the middle of a validation, which makes reachable clients
\* drop out, never reaches the bucket: what is there holds exactly the reachable.
THEOREM InventoriesAreExact == Spec => []ObjectsAreExact
<1>1. Inv => ObjectsAreExact BY DEF Inv
<1>. QED BY <1>1, Invariance, PTL

\* Without an error every inventory that was generated has been uploaded.
THEOREM SuccessIsComplete == Spec => []SuccessMeansUploaded
<1>1. Inv => SuccessMeansUploaded BY DEF Inv
<1>. QED BY <1>1, Invariance, PTL
=============================================================================
