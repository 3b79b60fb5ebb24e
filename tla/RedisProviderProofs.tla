------------------------ MODULE RedisProviderProofs ------------------------
(***************************************************************************)
(* Proofs about RedisProvider for every number of instances, versions and  *)
(* length of the intervals: as long as no election comes in the middle of  *)
(* a refresh, no key goes back to an older version of the file.            *)
(***************************************************************************)
EXTENDS RedisProvider, TLAPS

LEMMA VersionsStep ==
  ASSUME VersionsOK, [Next]_vars
  PROVE  VersionsOK'
<1>. USE RedisAssumption DEF RedisAssumption, VersionsOK, Keys, vars, electionVars, keyVars,
                             ownerVars, tickerVars, requestVars, GoesTo, RefreshEnds
<1>1. ASSUME NEW i \in Instances, OwnerNext(i) \/ StopBegins(i) \/ CancelContext(i)
      PROVE  VersionsOK'
  BY <1>1 DEF OwnerNext, StartBegins, StartFindsData, StartTimesOut, StopReturns, StopBegins,
              CancelContext
<1>2. ASSUME NEW i \in Instances, RefreshNext(i)
      PROVE  VersionsOK'
  <2>1. CASE FirstRefresh(i) BY <2>1 DEF FirstRefresh
  <2>2. CASE TakeTick(i) BY <2>2 DEF TakeTick
  <2>3. CASE LoopExits(i) \/ FetchFails(i)
    BY <2>3 DEF LoopExits, FetchFails
  <2>4. CASE FetchSucceeds(i) BY <2>4 DEF FetchSucceeds
  <2>5. CASE StoreNetworks(i) BY <2>5 DEF StoreNetworks, Stored, KeptFor
  <2>6. CASE StoreClients(i) BY <2>6 DEF StoreClients, Stored, KeptFor
  <2>7. CASE StoreFails(i) BY <2>7 DEF StoreFails, Stored, KeptFor
  <2>. QED BY <1>2, <2>1, <2>2, <2>3, <2>4, <2>5, <2>6, <2>7 DEF RefreshNext
<1>3. CASE TimePasses BY <1>3 DEF TimePasses, Less
<1>4. CASE Elect \/ PublishFile BY <1>4 DEF Elect, PublishFile
<1>5. CASE UNCHANGED vars BY <1>5
<1>6. ASSUME NEW i \in Instances, Crash(i)
      PROVE  VersionsOK'
  BY <1>6 DEF Crash, Stored, KeptFor
<1>. QED BY <1>1, <1>2, <1>3, <1>4, <1>5, <1>6 DEF Next

LEMMA PlacesStep ==
  ASSUME PlacesOK, [Next]_vars
  PROVE  PlacesOK'
BY DEF PlacesOK, vars, electionVars, keyVars, ownerVars, tickerVars, requestVars, GoesTo,
       RefreshEnds, Owners, Steps, Quiet, InFlight,
       Next, OwnerNext, StartBegins, StartFindsData, StartTimesOut, StopReturns, StopBegins,
       CancelContext, RefreshNext, FirstRefresh, TakeTick, LoopExits, FetchSucceeds, FetchFails,
       StoreNetworks, StoreClients, StoreFails, TimePasses, Crash, Elect, PublishFile

LEMMA ClocksStep ==
  ASSUME PlacesOK, ClocksOK, [Next]_vars
  PROVE  ClocksOK'
<1>. USE RedisAssumption DEF RedisAssumption, ClocksOK, vars, electionVars, keyVars, ownerVars,
                             tickerVars, requestVars
<1>1. ASSUME NEW i \in Instances, OwnerNext(i) \/ StopBegins(i) \/ CancelContext(i)
      PROVE  ClocksOK'
  BY <1>1 DEF OwnerNext, StartBegins, StartFindsData, StartTimesOut, StopReturns, StopBegins,
              CancelContext
<1>2. ASSUME NEW i \in Instances, RefreshNext(i)
      PROVE  ClocksOK'
  BY <1>2 DEF RefreshNext, FirstRefresh, TakeTick, LoopExits, FetchSucceeds, FetchFails,
              StoreNetworks, StoreClients, StoreFails
<1>3. CASE TimePasses
  <2>1. ASSUME NEW i \in Instances
        PROVE  /\ caller[i] = "waiting" => wait[i] > 0
               /\ loop[i] = "fetch" => busy[i] > 0
    BY <1>3 DEF TimePasses, CanWait, Quiet
  <2>. QED BY <1>3, <2>1 DEF TimePasses, Less
<1>4. CASE Elect \/ PublishFile BY <1>4 DEF Elect, PublishFile
<1>5. CASE UNCHANGED vars BY <1>5
<1>6. ASSUME NEW i \in Instances, Crash(i)
      PROVE  ClocksOK'
  BY <1>6 DEF Crash
<1>. QED BY <1>1, <1>2, <1>3, <1>4, <1>5, <1>6 DEF Next

LEMMA FlagsStep ==
  ASSUME FlagsOK, [Next]_vars
  PROVE  FlagsOK'
<1>. USE DEF FlagsOK, vars, electionVars, keyVars, ownerVars, tickerVars, requestVars
<1>1. ctxDone' \in [Instances -> BOOLEAN]
  BY DEF Next, OwnerNext, StartBegins, StartFindsData, StartTimesOut, StopReturns, StopBegins,
         CancelContext, RefreshNext, FirstRefresh, TakeTick, LoopExits, FetchSucceeds, FetchFails,
         StoreNetworks, StoreClients, StoreFails, TimePasses, Crash, Elect, PublishFile
<1>2. tick' \in [Instances -> BOOLEAN]
  BY DEF Next, OwnerNext, StartBegins, StartFindsData, StartTimesOut, StopReturns, StopBegins,
         CancelContext, RefreshNext, FirstRefresh, TakeTick, LoopExits, FetchSucceeds, FetchFails,
         StoreNetworks, StoreClients, StoreFails, TimePasses, Crash, Elect, PublishFile
<1>3. interrupted' \in BOOLEAN
  BY DEF Next, OwnerNext, StartBegins, StartFindsData, StartTimesOut, StopReturns, StopBegins,
         CancelContext, RefreshNext, FirstRefresh, TakeTick, LoopExits, FetchSucceeds, FetchFails,
         StoreNetworks, StoreClients, StoreFails, TimePasses, Crash, Elect, PublishFile
<1>. QED BY <1>1, <1>2, <1>3

\* Every variable has its type; the counters stay within their bounds, because
\* time only passes while no deadline has been reached.
THEOREM TypeCorrect == Spec => []TypeOK
<1>1. Init => TypeOK
  <2>. SUFFICES ASSUME Init PROVE TypeOK
    OBVIOUS
  <2>. USE RedisAssumption DEF RedisAssumption, Init
  <2>1. VersionsOK BY DEF VersionsOK, Keys
  <2>2. PlacesOK BY DEF PlacesOK, Owners, Steps, Quiet
  <2>3. ClocksOK BY DEF ClocksOK
  <2>4. FlagsOK BY DEF FlagsOK
  <2>. QED BY <2>1, <2>2, <2>3, <2>4 DEF TypeOK
<1>2. TypeOK /\ [Next]_vars => TypeOK'
  BY VersionsStep, PlacesStep, ClocksStep, FlagsStep DEF TypeOK
<1>. QED BY <1>1, <1>2, PTL DEF Spec

-----------------------------------------------------------------------------
(* Only the leader has a refresh in flight, so there is at most one, and   *)
(* what it is going to store is not older than what is there.              *)

OneRefresh == \A i \in Instances : loop[i] \in InFlight => leader = i

KeysAreOlder ==
  /\ networks.ver <= source /\ clients.ver <= source
  /\ \A i \in Instances :
       /\ loop[i] \in {"networks", "clients"} =>
            /\ fetched[i] <= source
            /\ networks.ver <= fetched[i] /\ clients.ver <= fetched[i]

OrderInv == ~interrupted => OneRefresh /\ KeysAreOlder

IInv == TypeOK /\ OrderInv

LEMMA InterruptionStays ==
  ASSUME [Next]_vars, ~interrupted'
  PROVE  /\ ~interrupted
         /\ Elect => \A i \in Instances : loop[i] \notin InFlight
<1>1. CASE UNCHANGED interrupted /\ ~Elect BY <1>1, Zenon
<1>2. CASE Elect
  <2>1. interrupted' = (interrupted \/ \E i \in Instances : loop[i] \in InFlight)
    BY <1>2 DEF Elect
  <2>. QED BY <2>1, Zenon
<1>3. UNCHANGED interrupted \/ Elect
  BY DEF vars, electionVars, Next, OwnerNext, StartBegins, StartFindsData, StartTimesOut,
         StopReturns, StopBegins, CancelContext, RefreshNext, FirstRefresh, TakeTick, LoopExits,
         FetchSucceeds, FetchFails, StoreNetworks, StoreClients, StoreFails, TimePasses, Crash,
         PublishFile
<1>. QED BY <1>1, <1>2, <1>3, Zenon

LEMMA OneRefreshStep ==
  ASSUME PlacesOK, OneRefresh, [Next]_vars,
         Elect => \A i \in Instances : loop[i] \notin InFlight
  PROVE  OneRefresh'
BY DEF OneRefresh, PlacesOK, InFlight, vars, electionVars, keyVars, ownerVars, tickerVars,
       requestVars, GoesTo, RefreshEnds,
       Owners, Steps, Quiet, IsLeader,
       Next, OwnerNext, StartBegins, StartFindsData, StartTimesOut, StopReturns, StopBegins,
       CancelContext, RefreshNext, FirstRefresh, TakeTick, LoopExits, FetchSucceeds, FetchFails,
       StoreNetworks, StoreClients, StoreFails, TimePasses, Crash, Elect, PublishFile

LEMMA KeysStep ==
  ASSUME VersionsOK, PlacesOK, OneRefresh, KeysAreOlder, [Next]_vars
  PROVE  /\ KeysAreOlder'
         /\ networks.ver <= networks'.ver /\ clients.ver <= clients'.ver
<1>. USE DEF KeysAreOlder, VersionsOK, PlacesOK, Keys, vars, electionVars, keyVars, ownerVars,
             tickerVars,
             requestVars, GoesTo, RefreshEnds
<1>. DEFINE Goal == /\ KeysAreOlder'
                    /\ networks.ver <= networks'.ver /\ clients.ver <= clients'.ver
<1>1. ASSUME NEW i \in Instances, OwnerNext(i) \/ StopBegins(i) \/ CancelContext(i)
      PROVE  Goal
  <2>1. loop' = loop \/ loop' = [loop EXCEPT ![i] = "first"]
    BY <1>1 DEF OwnerNext, StartBegins, StartFindsData, StartTimesOut, StopReturns, StopBegins,
                CancelContext
  <2>2. UNCHANGED <<source, networks, clients, fetched>>
    BY <1>1 DEF OwnerNext, StartBegins, StartFindsData, StartTimesOut, StopReturns, StopBegins,
                CancelContext
  <2>. QED BY <2>1, <2>2
<1>2. ASSUME NEW i \in Instances, RefreshNext(i)
      PROVE  Goal
  <2>1. CASE FirstRefresh(i) BY <2>1 DEF FirstRefresh
  <2>2. CASE TakeTick(i) BY <2>2 DEF TakeTick
  <2>3. CASE LoopExits(i) \/ FetchFails(i)
    BY <2>3 DEF LoopExits, FetchFails
  <2>4. CASE FetchSucceeds(i) BY <2>4 DEF FetchSucceeds
  <2>5. ASSUME loop[i] \in InFlight
        PROVE  \A j \in Instances : loop[j] \in InFlight => j = i
    BY <2>5 DEF OneRefresh
  <2>6. CASE StoreNetworks(i)
    BY <2>5, <2>6 DEF StoreNetworks, Stored, InFlight
  <2>7. CASE StoreClients(i)
    BY <2>5, <2>7 DEF StoreClients, Stored, InFlight
  <2>8. CASE StoreFails(i)
    <3>1. CASE loop[i] = "networks" /\ networks' \in {networks, Stored(i)} /\ UNCHANGED clients
      BY <2>5, <2>8, <3>1 DEF StoreFails, Stored, InFlight
    <3>2. CASE loop[i] = "clients" /\ clients' \in {clients, Stored(i)} /\ UNCHANGED networks
      BY <2>5, <2>8, <3>2 DEF StoreFails, Stored, InFlight
    <3>. QED BY <2>8, <3>1, <3>2 DEF StoreFails
  <2>. QED BY <1>2, <2>1, <2>2, <2>3, <2>4, <2>6, <2>7, <2>8 DEF RefreshNext
<1>3. CASE TimePasses BY <1>3 DEF TimePasses, Less
<1>4. CASE Elect \/ PublishFile BY <1>4 DEF Elect, PublishFile
<1>5. CASE UNCHANGED vars BY <1>5
<1>6. ASSUME NEW i \in Instances, Crash(i)
      PROVE  Goal
  BY <1>6 DEF Crash, InFlight, OneRefresh, Stored
<1>. QED BY <1>1, <1>2, <1>3, <1>4, <1>5, <1>6 DEF Next

\* What one step does while no election has interrupted a refresh.
LEMMA OrderStep ==
  ASSUME IInv, [Next]_vars, ~interrupted'
  PROVE  /\ OneRefresh' /\ KeysAreOlder'
         /\ networks.ver <= networks'.ver /\ clients.ver <= clients'.ver
<1>1. /\ ~interrupted
      /\ Elect => \A i \in Instances : loop[i] \notin InFlight
  BY InterruptionStays
<1>2. OneRefresh /\ KeysAreOlder BY <1>1, Zenon DEF IInv, OrderInv
<1>3. VersionsOK /\ PlacesOK BY DEF IInv, TypeOK
<1>. QED BY <1>1, <1>2, <1>3, OneRefreshStep, KeysStep

\* While no election comes in the middle of a refresh, at most one refresh is
\* in flight and it does not store what is older than the keys (redis.go:274-331).
THEOREM InductiveInvariant == Spec => []IInv
<1>1. Init => OrderInv
  BY DEF Init, OrderInv, OneRefresh, KeysAreOlder, InFlight
<1>2. IInv /\ [Next]_vars => OrderInv'
  BY OrderStep, Zenon DEF OrderInv
<1>. QED BY <1>1, <1>2, TypeCorrect, PTL DEF Spec, IInv

\* The leader check before the request keeps the keys from going back, unless an
\* election comes between the check and the writes.
THEOREM KeysDoNotGoBack == Spec => KeysNeverGoBack
<1>1. IInv /\ [Next]_vars =>
        [~interrupted' => networks.ver <= networks'.ver /\ clients.ver <= clients'.ver]_vars
  BY OrderStep, Zenon
<1>. QED BY <1>1, InductiveInvariant, PTL DEF Spec, KeysNeverGoBack

-----------------------------------------------------------------------------
(* Availability.  A leader that stays and whose refreshes succeed writes   *)
(* the networks again before they expire: between two writes there are at  *)
(* most an interval and a request.                                         *)

LoopsStarted ==
  \A i \in Instances :
    /\ caller[i] = "new" <=> loop[i] = "off"
    /\ caller[i] = "new" \/ Done(i) \/ timer[i] >= 1

\* Nothing has been written yet, and nobody has become ready.
NotYet(l) ==
  networks.ttl = 0 /\ loop[l] # "clients" /\ \A i \in Instances : caller[i] # "ready"

\* The networks outlast the wait for the next tick and the request after it.
Lasting(l) ==
  /\ networks.ttl > 0 /\ loop[l] \in {"idle"} \union InFlight
  /\ loop[l] = "idle" =>
       \/ ctxDone[l]
       \/ (Done(l) \/ tick[l]) /\ networks.ttl > Timeout
       \/ networks.ttl > timer[l] + Timeout
  /\ loop[l] = "fetch" => ctxDone[l] \/ networks.ttl > busy[l]
  /\ loop[l] = "clients" => networks.ttl = TTL

LeaderServes ==
  \A l \in Instances : leader = l => loop[l] = "exited" \/ NotYet(l) \/ Lasting(l)

Availability == leader \in Instances /\ OneRefresh /\ LoopsStarted /\ LeaderServes

LEMMA LoopsStartedStep ==
  ASSUME TypeOK, LoopsStarted, [Next]_vars
  PROVE  LoopsStarted'
<1>. USE RedisAssumption DEF RedisAssumption, TypeOK, PlacesOK, ClocksOK, LoopsStarted, Done, vars,
             electionVars, keyVars, ownerVars, tickerVars, requestVars, GoesTo, RefreshEnds, Owners,
             Steps, Quiet, InFlight
<1>1. ASSUME NEW i \in Instances, OwnerNext(i) \/ StopBegins(i) \/ CancelContext(i)
      PROVE  LoopsStarted'
  BY <1>1 DEF OwnerNext, StartBegins, StartFindsData, StartTimesOut, StopReturns, StopBegins,
              CancelContext
<1>2. ASSUME NEW i \in Instances, RefreshNext(i)
      PROVE  LoopsStarted'
  BY <1>2 DEF RefreshNext, FirstRefresh, TakeTick, LoopExits, FetchSucceeds, FetchFails,
              StoreNetworks, StoreClients, StoreFails
<1>3. CASE TimePasses BY <1>3 DEF TimePasses, Less
<1>4. CASE Elect \/ PublishFile BY <1>4 DEF Elect, PublishFile
<1>5. CASE UNCHANGED vars BY <1>5
<1>6. ASSUME NEW i \in Instances, Crash(i)
      PROVE  LoopsStarted'
  BY <1>6 DEF Crash
<1>. QED BY <1>1, <1>2, <1>3, <1>4, <1>5, <1>6 DEF Next

LEMMA LeaderServesStep ==
  ASSUME Interval + Timeout < TTL, ~Elections, ~Failures, ~Crashes,
         TypeOK, Availability, [Next]_vars, NEW l \in Instances, leader = l
  PROVE  leader' = l /\ (loop[l] = "exited" \/ NotYet(l) \/ Lasting(l))'
<1>. DEFINE Goal == leader' = l /\ (loop[l] = "exited" \/ NotYet(l) \/ Lasting(l))'
<1>. USE RedisAssumption DEF RedisAssumption, TypeOK, VersionsOK, PlacesOK, ClocksOK, Keys,
             vars, electionVars, keyVars, ownerVars, tickerVars, requestVars, GoesTo, RefreshEnds,
             InFlight, Done
<1>0. loop[l] = "exited" \/ NotYet(l) \/ Lasting(l)
  BY DEF Availability, LeaderServes
<1>1. ASSUME NEW i \in Instances, OwnerNext(i) \/ StopBegins(i) \/ CancelContext(i)
      PROVE  Goal
  <2>1. CASE StartBegins(i)
    BY <1>0, <2>1 DEF StartBegins, Availability, LoopsStarted, NotYet, Lasting
  <2>2. CASE StartFindsData(i)
    BY <1>0, <2>2 DEF StartFindsData, Readable, NotYet, Lasting
  <2>3. CASE StartTimesOut(i) BY <1>0, <2>3 DEF StartTimesOut, NotYet, Lasting
  <2>4. CASE StopReturns(i) BY <1>0, <2>4 DEF StopReturns, NotYet, Lasting
  <2>5. CASE StopBegins(i) BY <1>0, <2>5 DEF StopBegins, NotYet, Lasting
  <2>6. CASE CancelContext(i) BY <1>0, <2>6 DEF CancelContext, NotYet, Lasting
  <2>. QED BY <1>1, <2>1, <2>2, <2>3, <2>4, <2>5, <2>6 DEF OwnerNext
<1>2. ASSUME NEW i \in Instances, i # l, RefreshNext(i)
      PROVE  Goal
  <2>1. loop[i] \notin InFlight /\ ~IsLeader(i)
    BY <1>2 DEF Availability, OneRefresh, IsLeader
  <2>2. UNCHANGED <<leader, networks, caller, ctxDone, timer, busy>> /\ loop'[l] = loop[l]
    BY <1>2, <2>1 DEF RefreshNext, FirstRefresh, TakeTick, LoopExits, FetchSucceeds, FetchFails,
              StoreNetworks, StoreClients, StoreFails
  <2>3. tick' = tick \/ tick' = [tick EXCEPT ![i] = FALSE]
    BY <1>2 DEF RefreshNext, FirstRefresh, TakeTick, LoopExits, FetchSucceeds, FetchFails,
              StoreNetworks, StoreClients, StoreFails
  <2>4. tick'[l] = tick[l]
    BY <1>2, <2>3 DEF FlagsOK
  <2>. QED BY <1>0, <2>2, <2>4 DEF NotYet, Lasting
<1>3. ASSUME RefreshNext(l)
      PROVE  Goal
  <2>1. CASE FirstRefresh(l) BY <1>0, <2>1 DEF FirstRefresh, IsLeader, NotYet, Lasting
  <2>2. CASE TakeTick(l) BY <1>0, <2>2 DEF TakeTick, IsLeader, NotYet, Lasting
  <2>3. CASE LoopExits(l) BY <2>3 DEF LoopExits
  <2>4. CASE FetchSucceeds(l) BY <1>0, <2>4 DEF FetchSucceeds, NotYet, Lasting
  <2>5. CASE FetchFails(l) BY <1>0, <2>5 DEF FetchFails, NotYet, Lasting
  <2>6. CASE StoreNetworks(l)
    BY <1>0, <2>6 DEF StoreNetworks, Stored, KeptFor, NotYet, Lasting
  <2>7. CASE StoreClients(l)
    BY <1>0, <2>7 DEF StoreClients, NotYet, Lasting
  <2>8. CASE StoreFails(l)
    BY <1>0, <2>8 DEF StoreFails, Stored, KeptFor, NotYet, Lasting
  <2>. QED BY <1>3, <2>1, <2>2, <2>3, <2>4, <2>5, <2>6, <2>7, <2>8 DEF RefreshNext
<1>4. CASE TimePasses
  <2>1. /\ UNCHANGED <<leader, caller, ctxDone, loop>>
        /\ networks' = [networks EXCEPT !.ttl = Less(@)]
        /\ timer'[l] = IF timer[l] = 1 THEN Interval ELSE Less(timer[l])
        /\ busy'[l] = IF loop[l] = "fetch" THEN busy[l] - 1 ELSE busy[l]
        /\ CanWait(l)
    BY <1>4 DEF TimePasses
  <2>2. timer[l] = 1 => tick'[l]
    BY <1>4 DEF TimePasses
  <2>3. loop[l] = "idle" => ~tick[l] /\ ~ctxDone[l] /\ ~Done(l)
    BY <2>1 DEF CanWait
  <2>4. CASE NotYet(l) BY <2>1, <2>4 DEF NotYet, Less
  <2>5. CASE Lasting(l) /\ loop[l] = "idle"
    <3>1. networks.ttl > timer[l] + Timeout
      BY <2>3, <2>5 DEF Lasting
    <3>2. timer[l] >= 1
      BY <2>3, <2>5 DEF Availability, LoopsStarted
    <3>3. networks'.ttl = networks.ttl - 1 /\ networks'.ttl > 0
      BY <2>1, <3>1, <3>2 DEF Less
    <3>4. timer[l] = 1 => networks'.ttl > Timeout
      BY <3>1, <3>3
    <3>5. timer[l] # 1 => networks'.ttl > timer'[l] + Timeout
      BY <2>1, <3>1, <3>2, <3>3 DEF Less
    <3>. QED BY <2>1, <2>2, <2>5, <3>3, <3>4, <3>5, Zenon DEF Lasting
  <2>6. CASE Lasting(l) /\ loop[l] = "fetch"
    <3>1. busy[l] > 0 /\ ~ctxDone[l] /\ networks.ttl > busy[l]
      BY <2>1, <2>6 DEF CanWait, Quiet, Lasting
    <3>. QED BY <2>1, <2>6, <3>1 DEF Lasting, Less
  <2>7. CASE loop[l] = "exited" BY <2>1, <2>7
  <2>8. Lasting(l) => loop[l] \in {"idle", "fetch"}
    BY <2>1 DEF Lasting, CanWait, Quiet
  <2>. QED BY <1>0, <2>4, <2>5, <2>6, <2>7, <2>8
<1>5. CASE PublishFile BY <1>0, <1>5 DEF PublishFile, NotYet, Lasting
<1>6. CASE UNCHANGED vars BY <1>0, <1>6 DEF NotYet, Lasting
<1>. QED BY <1>1, <1>2, <1>3, <1>4, <1>5, <1>6 DEF Next, Elect, Crash

\* With a leader that stays, no crash and refreshes that do not fail, networks that an
\* instance has become ready with do not expire while the leader runs, if a key
\* is kept for longer than an interval and a request (redis.go:22 and 313).
THEOREM NetworksAreAvailable ==
  ASSUME Interval + Timeout < TTL, ~Elections, ~Failures, ~Crashes
  PROVE  Spec => []NetworksStayAvailable
<1>1. Init => Availability
  BY DEF Init, Availability, OneRefresh, LoopsStarted, LeaderServes, NotYet, InFlight
<1>2. TypeOK /\ Availability /\ [Next]_vars => Availability'
  <2>. SUFFICES ASSUME TypeOK, Availability, [Next]_vars PROVE Availability' OBVIOUS
  <2>1. PICK l \in Instances : leader = l
    BY DEF Availability
  <2>2. leader' = l /\ (loop[l] = "exited" \/ NotYet(l) \/ Lasting(l))'
    BY <2>1, LeaderServesStep
  <2>3. OneRefresh'
    BY OneRefreshStep DEF TypeOK, Availability, Elect
  <2>4. LoopsStarted' BY LoopsStartedStep DEF Availability
  <2>. QED BY <2>1, <2>2, <2>3, <2>4 DEF Availability, LeaderServes
<1>3. Availability => NetworksStayAvailable
  BY DEF Availability, LeaderServes, NetworksStayAvailable, NotYet, Lasting, Readable
<1>. QED BY <1>1, <1>2, <1>3, TypeCorrect, PTL DEF Spec
=============================================================================
