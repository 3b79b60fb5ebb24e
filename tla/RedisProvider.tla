---------------------------- MODULE RedisProvider ----------------------------
(***************************************************************************)
(* The client cache kept in Redis (pkg/client/redis.go): several instances *)
(* run the same provider, and the one that is the leader when its ticker   *)
(* fires fetches the published file and stores the networks and the        *)
(* clients under two keys that expire.                                     *)
(*                                                                         *)
(* A key is the version of the file it was written from and the time it    *)
(* has left.  Time passes in units (30 s in the checked instance); steps   *)
(* take none, except requests, which take up to Timeout.                   *)
(***************************************************************************)
EXTENDS Integers

CONSTANTS
  Instances,      \* the processes that share the Redis database
  Nobody,         \* there is no leader
  Interval,       \* config.RefreshInterval
  Timeout,        \* config.RequestTimeout
  StartWait,      \* how long Start waits for data
  TTL,            \* how long a key is kept
  MaxVersion,     \* bound: the published file changes this many times
  Elections,      \* the leader changes, at any time
  Failures,       \* requests and writes may fail
  Shutdown,       \* owners may stop their provider or cancel its context
  Crashes         \* the process of an instance may die, and be started again

ASSUME RedisAssumption ==
  /\ Nobody \notin Instances
  /\ Interval \in Nat /\ Timeout \in Nat /\ Timeout < Interval
  /\ StartWait \in Nat /\ TTL \in Nat \ {0} /\ MaxVersion \in Nat
  /\ Elections \in BOOLEAN /\ Failures \in BOOLEAN /\ Shutdown \in BOOLEAN
  /\ Crashes \in BOOLEAN

VARIABLES
  source,             \* version of the published file
  leader,             \* what the leader elections answer
  networks, clients,  \* the two keys: [ver, ttl]
  caller,             \* per instance: where its owner is
  wait,               \* per instance: how much longer Start waits
  ctxDone,            \* per instance: its context is cancelled
  loop,               \* per instance: where the refresh goroutine is
  timer, tick,        \* per instance: time to the next tick, a tick pends
  busy,               \* per instance: time the request in flight may take
  fetched,            \* per instance: version it has decoded, 0 outside a refresh
  interrupted         \* history: an election has come in the middle of a refresh

electionVars == <<leader, interrupted>>
keyVars == <<networks, clients>>
ownerVars == <<caller, wait, ctxDone>>
tickerVars == <<timer, tick>>
requestVars == <<busy, fetched>>
vars == <<source, electionVars, keyVars, ownerVars, loop, tickerVars, requestVars>>

Quiet == {"off", "idle", "exited"}
Owners == {"new", "waiting", "ready", "failed", "stopping", "stopped"}
InFlight == {"fetch", "networks", "clients"}
Steps == Quiet \union InFlight \union {"first"}

Readable(key) == key.ttl > 0
Done(i) == caller[i] \in {"stopping", "stopped"}

Mut_LeaderUnchecked(i) == TRUE
IsLeader(i) == leader = i

Mut_KeptForOneInterval == Interval
KeptFor == TTL

Init ==
  /\ source = 1
  /\ leader \in Instances
  /\ networks = [ver |-> 0, ttl |-> 0] /\ clients = [ver |-> 0, ttl |-> 0]
  /\ caller = [i \in Instances |-> "new"]
  /\ wait = [i \in Instances |-> 0]
  /\ ctxDone = [i \in Instances |-> FALSE]
  /\ loop = [i \in Instances |-> "off"]
  /\ timer = [i \in Instances |-> 0]
  /\ tick = [i \in Instances |-> FALSE]
  /\ busy = [i \in Instances |-> 0]
  /\ fetched = [i \in Instances |-> 0]
  /\ interrupted = FALSE

-----------------------------------------------------------------------------
(* The owner of instance i.                                                *)

StartBegins(i) ==
  /\ caller[i] = "new"
  /\ caller' = [caller EXCEPT ![i] = "waiting"]
  /\ wait' = [wait EXCEPT ![i] = StartWait]
  /\ loop' = [loop EXCEPT ![i] = "first"]
  /\ timer' = [timer EXCEPT ![i] = Interval]
  /\ UNCHANGED <<source, electionVars, keyVars, ctxDone, tick, requestVars>>

\* Start polls the networks key, whoever has written it.
StartFindsData(i) ==
  /\ caller[i] = "waiting" /\ Readable(networks) /\ ~ctxDone[i]
  /\ caller' = [caller EXCEPT ![i] = "ready"]
  /\ UNCHANGED <<source, electionVars, keyVars, wait, ctxDone, loop, tickerVars,
                 requestVars>>

Mut_NoDeadline(i) == ctxDone[i]
StartExpired(i) == ctxDone[i] \/ wait[i] = 0

\* The goroutine that Start launched goes on.
StartTimesOut(i) ==
  /\ caller[i] = "waiting" /\ StartExpired(i)
  /\ caller' = [caller EXCEPT ![i] = "failed"]
  /\ UNCHANGED <<source, electionVars, keyVars, wait, ctxDone, loop, tickerVars,
                 requestVars>>

StopBegins(i) ==
  /\ Shutdown
  /\ caller[i] \in {"ready", "failed"}
  /\ caller' = [caller EXCEPT ![i] = "stopping"]
  /\ timer' = [timer EXCEPT ![i] = 0]
  /\ UNCHANGED <<source, electionVars, keyVars, wait, ctxDone, loop, tick, requestVars>>

StopReturns(i) ==
  /\ caller[i] = "stopping" /\ loop[i] = "exited"
  /\ caller' = [caller EXCEPT ![i] = "stopped"]
  /\ UNCHANGED <<source, electionVars, keyVars, wait, ctxDone, loop, tickerVars,
                 requestVars>>

CancelContext(i) ==
  /\ Shutdown
  /\ caller[i] # "new" /\ ~ctxDone[i]
  /\ ctxDone' = [ctxDone EXCEPT ![i] = TRUE]
  /\ UNCHANGED <<source, electionVars, keyVars, caller, wait, loop, tickerVars,
                 requestVars>>

-----------------------------------------------------------------------------
(* The refresh goroutine of instance i.  The leadership is asked for only  *)
(* before the request.                                                     *)

GoesTo(i, step) == loop' = [loop EXCEPT ![i] = step]

FirstRefresh(i) ==
  /\ loop[i] = "first"
  /\ \/ IsLeader(i) /\ GoesTo(i, "fetch") /\ busy' = [busy EXCEPT ![i] = Timeout]
     \/ ~IsLeader(i) /\ GoesTo(i, "idle") /\ UNCHANGED busy
  /\ UNCHANGED <<source, electionVars, keyVars, ownerVars, tickerVars, fetched>>

TakeTick(i) ==
  /\ loop[i] = "idle" /\ tick[i]
  /\ tick' = [tick EXCEPT ![i] = FALSE]
  /\ \/ IsLeader(i) /\ GoesTo(i, "fetch") /\ busy' = [busy EXCEPT ![i] = Timeout]
     \/ ~IsLeader(i) /\ UNCHANGED <<loop, busy>>
  /\ UNCHANGED <<source, electionVars, keyVars, ownerVars, timer, fetched>>

LoopExits(i) ==
  /\ loop[i] = "idle" /\ (ctxDone[i] \/ Done(i))
  /\ GoesTo(i, "exited")
  /\ UNCHANGED <<source, electionVars, keyVars, ownerVars, tickerVars, requestVars>>

FetchSucceeds(i) ==
  /\ loop[i] = "fetch" /\ ~ctxDone[i]
  /\ fetched' = [fetched EXCEPT ![i] = source]
  /\ GoesTo(i, "networks")
  /\ UNCHANGED <<source, electionVars, keyVars, ownerVars, tickerVars, busy>>

Mut_LoopGivesUp(i) ==
  /\ loop[i] = "fetch" /\ (Failures \/ ctxDone[i])
  /\ GoesTo(i, "exited")
  /\ UNCHANGED <<source, electionVars, keyVars, ownerVars, tickerVars, requestVars>>

FetchFails(i) ==
  /\ loop[i] = "fetch" /\ (Failures \/ ctxDone[i])
  /\ GoesTo(i, "idle")
  /\ UNCHANGED <<source, electionVars, keyVars, ownerVars, tickerVars, requestVars>>

Stored(i) == [ver |-> fetched[i], ttl |-> KeptFor]
RefreshEnds(i) == GoesTo(i, "idle") /\ fetched' = [fetched EXCEPT ![i] = 0]

StoreNetworks(i) ==
  /\ loop[i] = "networks" /\ ~ctxDone[i]
  /\ networks' = Stored(i)
  /\ GoesTo(i, "clients")
  /\ UNCHANGED <<source, electionVars, clients, ownerVars, tickerVars, requestVars>>

\* The refresh ends with a notification of this instance's own consumer, which
\* never blocks and which nothing below reads.
StoreClients(i) ==
  /\ loop[i] = "clients" /\ ~ctxDone[i]
  /\ clients' = Stored(i)
  /\ RefreshEnds(i)
  /\ UNCHANGED <<source, electionVars, networks, ownerVars, tickerVars, busy>>

\* The write may have taken effect although it is reported as failed; the
\* rest of the refresh is skipped.
StoreFails(i) ==
  /\ Failures \/ ctxDone[i]
  /\ \/ loop[i] = "networks" /\ networks' \in {networks, Stored(i)} /\ UNCHANGED clients
     \/ loop[i] = "clients" /\ clients' \in {clients, Stored(i)} /\ UNCHANGED networks
  /\ RefreshEnds(i)
  /\ UNCHANGED <<source, electionVars, ownerVars, tickerVars, busy>>

\* The process dies, at any step; a write it has sent may still take effect.
\* Nothing of an instance survives but the keys: a new process begins at Start.
Crash(i) ==
  /\ Crashes
  /\ caller[i] # "new"
  /\ networks' = networks \/ (loop[i] = "networks" /\ networks' = Stored(i))
  /\ clients' = clients \/ (loop[i] = "clients" /\ clients' = Stored(i))
  /\ caller' = [caller EXCEPT ![i] = "new"]
  /\ wait' = [wait EXCEPT ![i] = 0]
  /\ ctxDone' = [ctxDone EXCEPT ![i] = FALSE]
  /\ loop' = [loop EXCEPT ![i] = "off"]
  /\ timer' = [timer EXCEPT ![i] = 0]
  /\ tick' = [tick EXCEPT ![i] = FALSE]
  /\ busy' = [busy EXCEPT ![i] = 0]
  /\ fetched' = [fetched EXCEPT ![i] = 0]
  /\ UNCHANGED <<source, electionVars>>

-----------------------------------------------------------------------------
(* Time, elections and the published file.                                 *)

Mut_RequestsWithoutTimeout(i) ==
  /\ loop[i] \in Quiet \union {"fetch"}
  /\ loop[i] = "idle" => ~tick[i] /\ ~ctxDone[i] /\ ~Done(i)
  /\ caller[i] = "waiting" => wait[i] > 0 /\ ~ctxDone[i]

\* Time passes while nobody has anything to do but to wait.
CanWait(i) ==
  /\ loop[i] \in Quiet \/ (loop[i] = "fetch" /\ busy[i] > 0 /\ ~ctxDone[i])
  /\ loop[i] = "idle" => ~tick[i] /\ ~ctxDone[i] /\ ~Done(i)
  /\ caller[i] = "waiting" => wait[i] > 0 /\ ~ctxDone[i]

Less(n) == IF n > 0 THEN n - 1 ELSE 0

\* A tick that nobody has taken yet is not doubled.
TimePasses ==
  /\ \A i \in Instances : CanWait(i)
  /\ networks' = [networks EXCEPT !.ttl = Less(@)]
  /\ clients' = [clients EXCEPT !.ttl = Less(@)]
  /\ timer' = [i \in Instances |-> IF timer[i] = 1 THEN Interval ELSE Less(timer[i])]
  /\ tick' = [i \in Instances |-> tick[i] \/ timer[i] = 1]
  /\ busy' = [i \in Instances |-> IF loop[i] = "fetch" THEN busy[i] - 1 ELSE busy[i]]
  /\ wait' = [i \in Instances |-> IF caller[i] = "waiting" THEN wait[i] - 1 ELSE wait[i]]
  /\ UNCHANGED <<source, electionVars, caller, ctxDone, loop, fetched>>

Elect ==
  /\ Elections
  /\ leader' \in (Instances \union {Nobody}) \ {leader}
  /\ interrupted' = (interrupted \/ \E i \in Instances : loop[i] \in InFlight)
  /\ UNCHANGED <<source, keyVars, ownerVars, loop, tickerVars, requestVars>>

PublishFile ==
  /\ source <= MaxVersion
  /\ source' = source + 1
  /\ UNCHANGED <<electionVars, keyVars, ownerVars, loop, tickerVars, requestVars>>

-----------------------------------------------------------------------------
OwnerNext(i) == StartBegins(i) \/ StartFindsData(i) \/ StartTimesOut(i) \/ StopReturns(i)
RefreshNext(i) ==
  \/ FirstRefresh(i) \/ TakeTick(i) \/ LoopExits(i) \/ FetchSucceeds(i) \/ FetchFails(i)
  \/ StoreNetworks(i) \/ StoreClients(i) \/ StoreFails(i)

Next ==
  \/ \E i \in Instances :
       \/ OwnerNext(i) \/ StopBegins(i) \/ CancelContext(i)
       \/ RefreshNext(i)
       \/ Crash(i)
  \/ TimePasses \/ Elect \/ PublishFile

Spec == Init /\ [][Next]_vars

\* Goroutines run and clocks advance, also while some instance is started and
\* dies again and again, since a process takes time to come up; a request ends
\* within RequestTimeout, a call of the RedisClient by its own timeouts.  That neither the endpoint nor
\* Redis is down for ever is assumed of the environment; elections, publication,
\* shutdown and crashes need not come.
Fairness ==
  /\ SF_vars(TimePasses)
  /\ \A i \in Instances :
       /\ WF_vars(OwnerNext(i)) /\ WF_vars(RefreshNext(i))
       /\ SF_vars(FetchSucceeds(i)) /\ SF_vars(StoreNetworks(i)) /\ SF_vars(StoreClients(i))

FairSpec == Spec /\ Fairness

-----------------------------------------------------------------------------
Keys == [ver : Nat, ttl : Nat]

VersionsOK ==
  /\ source \in Nat
  /\ networks \in Keys /\ clients \in Keys
  /\ fetched \in [Instances -> Nat]

PlacesOK ==
  /\ leader \in Instances \union {Nobody}
  /\ caller \in [Instances -> Owners]
  /\ loop \in [Instances -> Steps]

ClocksOK ==
  /\ wait \in [Instances -> 0..StartWait]
  /\ timer \in [Instances -> 0..Interval]
  /\ busy \in [Instances -> 0..Timeout]

FlagsOK ==
  /\ ctxDone \in [Instances -> BOOLEAN]
  /\ tick \in [Instances -> BOOLEAN]
  /\ interrupted \in BOOLEAN

TypeOK == VersionsOK /\ PlacesOK /\ ClocksOK /\ FlagsOK

\* A key is never overwritten with an older version of the file unless the
\* leader changed in the middle of a refresh: with elections between refreshes
\* the leader check before the request (redis.go:276) is enough, whatever fails.
KeysNeverGoBack ==
  [][~interrupted' => networks.ver <= networks'.ver /\ clients.ver <= clients'.ver]_vars

\* The networks are readable as long as the leader's loop runs, once one instance
\* has become ready, when no refresh fails and the leader neither changes nor dies:
\* the time to live of the key covers an interval and the request that follows it.
NetworksStayAvailable ==
  (\E i \in Instances : caller[i] = "ready") =>
    Readable(networks) \/ \E i \in Instances : leader = i /\ loop[i] \in {"off", "exited"}

\* Start returns: with data, or with an error when there is none in time.
StartReturns == \A i \in Instances : (caller[i] = "waiting") ~> (caller[i] # "waiting")

\* An instance that keeps the leadership and is not shut down brings both keys
\* up to date, whatever former leaders, failed writes and the crash of an
\* instance between its two writes (redis.go:308 and 318) have left there.
LeaderCatchesUp ==
  \A i \in Instances :
    \/ []<>(leader # i \/ caller[i] # "ready" \/ ctxDone[i])
    \/ <>[](networks.ver = source /\ clients.ver = source)
=============================================================================
