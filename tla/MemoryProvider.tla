--------------------------- MODULE MemoryProvider ---------------------------
(***************************************************************************)
(* The in-memory client cache (pkg/client/memory.go): a caller starts and  *)
(* stops the provider, a refresh loop fetches the published file, and a    *)
(* consumer re-reads the networks and the clients when it is notified.     *)
(*                                                                         *)
(* The file is abstracted to its version; networks and clients are the     *)
(* version of the file each map was decoded from (0: the empty map).       *)
(***************************************************************************)
EXTENDS Integers

CONSTANT MaxVersion     \* bound: the published file changes this many times

ASSUME ProviderAssumption == MaxVersion \in Nat

VARIABLES
  source,       \* version of the file that the endpoint serves
  ctxDone,      \* the context given to Start is cancelled
  caller,       \* where the owner of the provider is: Start, use, Stop
  loop,         \* the refresh goroutine
  phase,        \* where the refresh in progress is
  tick,         \* the ticker: "off", "idle", "fired"
  fetched,      \* version that the refresh in progress has decoded
  networks, clients, ready,   \* the fields guarded by mu
  notifyChan,   \* notifyChan (capacity 1) holds a notification
  consumer,     \* where the consumer is
  seenNetworks, seenClients,  \* the versions the consumer read last
  refused       \* history: what the consumer was last notified of it could not
                \* read, because the provider was not ready

mapVars == <<networks, clients>>
refreshVars == <<phase, fetched>>
lifeVars == <<ctxDone, caller, loop, tick>>
seenVars == <<seenNetworks, seenClients>>
consumerVars == <<consumer, seenVars, refused>>
vars == <<source, lifeVars, refreshVars, mapVars, ready, notifyChan, consumerVars>>

Done == caller \in {"stopping", "stopped"}     \* the done channel is closed

Init ==
  /\ source = 1
  /\ ctxDone = FALSE
  /\ caller = "new"
  /\ loop = "off"
  /\ phase = "none"
  /\ tick = "off"
  /\ fetched = 0
  /\ networks = 0 /\ clients = 0 /\ ready = FALSE
  /\ notifyChan = FALSE
  /\ consumer = "waiting"
  /\ seenNetworks = 0 /\ seenClients = 0
  /\ refused = FALSE

-----------------------------------------------------------------------------
(* The owner: Start, which refreshes before it starts the loop, and Stop.  *)

StartBegins ==
  /\ caller = "new"
  /\ caller' = "starting"
  /\ phase' = "fetch"
  /\ UNCHANGED <<source, ctxDone, loop, tick, fetched, mapVars, ready, notifyChan, consumerVars>>

StartFinishes ==
  /\ caller = "starting" /\ phase = "done"
  /\ ready' = TRUE
  /\ caller' = "running"
  /\ loop' = "on"
  /\ tick' = "idle"
  /\ phase' = "none"
  /\ UNCHANGED <<source, ctxDone, fetched, mapVars, notifyChan, consumerVars>>

StopBegins ==
  /\ caller \in {"running", "failed"}
  /\ caller' = "stopping"
  /\ tick' = "off"
  /\ UNCHANGED <<source, ctxDone, loop, refreshVars, mapVars, ready, notifyChan, consumerVars>>

StopReturns ==
  /\ caller = "stopping" /\ loop # "on"
  /\ caller' = "stopped"
  /\ UNCHANGED <<source, ctxDone, loop, tick, refreshVars, mapVars, ready, notifyChan,
                 consumerVars>>

CancelContext ==
  /\ ~ctxDone
  /\ ctxDone' = TRUE
  /\ UNCHANGED <<source, caller, loop, tick, refreshVars, mapVars, ready, notifyChan,
                 consumerVars>>

-----------------------------------------------------------------------------
(* refresh: one request, both maps under the lock, one notification.       *)

FetchSucceeds ==
  /\ phase = "fetch" /\ ~ctxDone
  /\ fetched' = source
  /\ phase' = "store"
  /\ UNCHANGED <<source, lifeVars, mapVars, ready, notifyChan, consumerVars>>

\* Transport error, status other than 200, undecodable body, cancelled
\* context: Start gives up, the loop goes on.
Mut_LoopGivesUp ==
  /\ phase = "fetch"
  /\ phase' = "none"
  /\ caller' = IF caller = "starting" THEN "failed" ELSE caller
  /\ loop' = IF loop = "on" THEN "exited" ELSE loop
  /\ UNCHANGED <<source, ctxDone, tick, fetched, mapVars, ready, notifyChan, consumerVars>>

FetchFails ==
  /\ phase = "fetch"
  /\ phase' = "none"
  /\ caller' = IF caller = "starting" THEN "failed" ELSE caller
  /\ UNCHANGED <<source, ctxDone, loop, tick, fetched, mapVars, ready, notifyChan, consumerVars>>

StoreData ==
  /\ phase = "store"
  /\ networks' = fetched
  /\ clients' = fetched
  /\ phase' = "notify"
  /\ UNCHANGED <<source, lifeVars, fetched, ready, notifyChan, consumerVars>>

Mut_Unbuffered ==
  /\ phase = "notify"
  /\ notifyChan' = (notifyChan \/ consumer = "waiting")
  /\ phase' = IF caller = "starting" THEN "done" ELSE "none"
  /\ UNCHANGED <<source, lifeVars, fetched, mapVars, ready, consumerVars>>

\* The send does not block: a notification that is pending stands for this
\* update too.
SendNotification ==
  /\ phase = "notify"
  /\ notifyChan' = TRUE
  /\ phase' = IF caller = "starting" THEN "done" ELSE "none"
  /\ UNCHANGED <<source, lifeVars, fetched, mapVars, ready, consumerVars>>

-----------------------------------------------------------------------------
(* The refresh loop.                                                       *)

TickerFires ==
  /\ tick = "idle"
  /\ tick' = "fired"
  /\ UNCHANGED <<source, ctxDone, caller, loop, refreshVars, mapVars, ready, notifyChan,
                 consumerVars>>

TakeTick ==
  /\ loop = "on" /\ phase = "none" /\ tick = "fired"
  /\ tick' = "idle"
  /\ phase' = "fetch"
  /\ UNCHANGED <<source, ctxDone, caller, loop, fetched, mapVars, ready, notifyChan, consumerVars>>

Mut_NoDoneCase == ctxDone
MustExit == ctxDone \/ Done

LoopExits ==
  /\ loop = "on" /\ phase = "none" /\ MustExit
  /\ loop' = "exited"
  /\ UNCHANGED <<source, ctxDone, caller, tick, refreshVars, mapVars, ready, notifyChan,
                 consumerVars>>

-----------------------------------------------------------------------------
(* The consumer and the published file.                                    *)

ReceiveNotification ==
  /\ consumer = "waiting" /\ notifyChan
  /\ notifyChan' = FALSE
  /\ consumer' = "getNetworks"
  /\ refused' = FALSE
  /\ UNCHANGED <<source, lifeVars, refreshVars, mapVars, ready, seenVars>>

\* GetNetworks and the getters built like it copy the map under the lock, or
\* return "provider not ready".
ReadNetworks ==
  /\ consumer = "getNetworks" /\ ready
  /\ seenNetworks' = networks
  /\ consumer' = "getClients"
  /\ UNCHANGED <<source, lifeVars, refreshVars, mapVars, ready, notifyChan, seenClients, refused>>

\* GetClients and the getters built like it.
ReadClients ==
  /\ consumer = "getClients" /\ ready
  /\ seenClients' = clients
  /\ consumer' = "waiting"
  /\ UNCHANGED <<source, lifeVars, refreshVars, mapVars, ready, notifyChan, seenNetworks, refused>>

ReadNotReady ==
  /\ consumer \in {"getNetworks", "getClients"} /\ ~ready
  /\ consumer' = "waiting"
  /\ refused' = TRUE
  /\ UNCHANGED <<source, lifeVars, refreshVars, mapVars, ready, notifyChan, seenVars>>

PublishFile ==
  /\ source <= MaxVersion
  /\ source' = source + 1
  /\ UNCHANGED <<lifeVars, refreshVars, mapVars, ready, notifyChan, consumerVars>>

-----------------------------------------------------------------------------
OwnerNext == StartBegins \/ StartFinishes \/ StopReturns
RefreshNext == FetchSucceeds \/ FetchFails \/ StoreData \/ SendNotification
ConsumerNext == ReceiveNotification \/ ReadNetworks \/ ReadClients \/ ReadNotReady

Next ==
  \/ OwnerNext \/ StopBegins \/ CancelContext
  \/ RefreshNext \/ TickerFires \/ TakeTick \/ LoopExits
  \/ ConsumerNext \/ PublishFile

Spec == Init /\ [][Next]_vars

\* Requests end (the client has a timeout) and the endpoint is not down for
\* ever; a select with two ready cases picks each infinitely often.  Stop,
\* cancellation and publication are the environment's.
Fairness ==
  /\ WF_vars(OwnerNext)
  /\ WF_vars(RefreshNext) /\ SF_vars(FetchSucceeds)
  /\ WF_vars(TickerFires) /\ WF_vars(TakeTick) /\ SF_vars(LoopExits)
  /\ WF_vars(ConsumerNext)

FairSpec == Spec /\ Fairness

-----------------------------------------------------------------------------
FlagsOK ==
  /\ ctxDone \in BOOLEAN
  /\ ready \in BOOLEAN
  /\ notifyChan \in BOOLEAN
  /\ refused \in BOOLEAN

PlacesOK ==
  /\ caller \in {"new", "starting", "running", "failed", "stopping", "stopped"}
  /\ loop \in {"off", "on", "exited"}
  /\ phase \in {"none", "fetch", "store", "notify", "done"}
  /\ tick \in {"off", "idle", "fired"}
  /\ consumer \in {"waiting", "getNetworks", "getClients"}
  /\ phase = "done" => caller = "starting"

VersionsOK ==
  /\ source \in Nat /\ fetched \in Nat
  /\ networks \in Nat /\ clients \in Nat
  /\ seenNetworks \in Nat /\ seenClients \in Nat

TypeOK == FlagsOK /\ PlacesOK /\ VersionsOK

\* A consumer that waits for a notification and has none pending has seen the
\* current networks together with the current clients, although it reads the two
\* maps in two calls and notifications are conflated.  Only the notification that
\* Start sends before it sets ready (memory.go:61-67) can be spent on a read that
\* is refused.
NoMissedUpdate ==
  consumer = "waiting" /\ ~notifyChan /\ phase # "notify" /\ ~refused =>
    seenNetworks = networks /\ seenClients = clients

\* The provider implements the abstract cache for each of the two maps
\* (memory.go:117-131, 178-192 and 263-275).
OnItsWay == notifyChan \/ phase = "notify"
NetworksCache == INSTANCE SnapshotCache
  WITH data <- networks, view <- seenNetworks,
       notified <- (OnItsWay \/ refused \/ consumer = "getNetworks")
ClientsCache == INSTANCE SnapshotCache
  WITH data <- clients, view <- seenClients,
       notified <- (OnItsWay \/ refused \/ consumer # "waiting")
CacheSpec == NetworksCache!Spec /\ ClientsCache!Spec

\* Stop returns: the loop sees the closed channel after the refresh in flight.
StopTerminates == (caller = "stopping") ~> (caller = "stopped")

\* While the provider runs, failed fetches and conflated notifications only
\* delay the consumer: it ends up with the file that is published last.
ConsumerCatchesUp ==
  \/ []<>(caller # "running" \/ ctxDone)
  \/ <>[](seenNetworks = source /\ seenClients = source)
=============================================================================
