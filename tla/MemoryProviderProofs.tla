------------------------ MODULE MemoryProviderProofs ------------------------
(***************************************************************************)
(* Proofs about MemoryProvider for every number of published versions: a   *)
(* consumer misses no update, unless it is refused before Start is done.   *)
(***************************************************************************)
EXTENDS MemoryProvider, TLAPS

\* Every variable has its type.
THEOREM TypeCorrect == Spec => []TypeOK
<1>1. Init => TypeOK
  <2>1. Init => FlagsOK BY DEF Init, FlagsOK
  <2>2. Init => PlacesOK BY DEF Init, PlacesOK
  <2>3. Init => VersionsOK BY DEF Init, VersionsOK
  <2>. QED BY <2>1, <2>2, <2>3 DEF TypeOK
<1>2. TypeOK /\ [Next]_vars => TypeOK'
  <2> SUFFICES ASSUME TypeOK, [Next]_vars PROVE TypeOK'
    OBVIOUS
  <2>. USE DEF vars, lifeVars, refreshVars, mapVars, consumerVars, seenVars, Next,
               OwnerNext, StartBegins, StartFinishes, StopReturns, StopBegins, CancelContext,
               RefreshNext, FetchSucceeds, FetchFails, StoreData, SendNotification,
               TickerFires, TakeTick, LoopExits, ConsumerNext, ReceiveNotification,
               ReadNetworks, ReadClients, ReadNotReady, PublishFile
  <2>1. FlagsOK' BY DEF TypeOK, FlagsOK
  <2>2. PlacesOK' BY DEF TypeOK, PlacesOK
  <2>3. VersionsOK' BY DEF TypeOK, VersionsOK
  <2>. QED BY <2>1, <2>2, <2>3 DEF TypeOK
<1>. QED BY <1>1, <1>2, PTL DEF Spec

-----------------------------------------------------------------------------
(* The inductive invariant.  While a refresh or the consumer is half-way,  *)
(* what the consumer has not seen is announced.  The versions only grow    *)
(* because one refresh runs at a time.                                     *)

AnnouncedInv ==
  /\ consumer = "waiting" /\ ~OnItsWay /\ ~refused =>
       seenNetworks = networks /\ seenClients = clients
  /\ consumer = "getClients" /\ ~OnItsWay => seenNetworks = networks
  /\ consumer = "getClients" => ready
  /\ consumer # "waiting" => ~refused
  /\ caller = "new" => phase = "none" /\ loop = "off"

VersionInv ==
  /\ networks <= source /\ clients <= source /\ fetched <= source
  /\ phase = "store" => networks <= fetched /\ clients <= fetched

LEMMA AnnouncedInvStep ==
  ASSUME TypeOK, AnnouncedInv, [Next]_vars
  PROVE  AnnouncedInv'
<1>. USE DEF AnnouncedInv, OnItsWay, TypeOK, FlagsOK, PlacesOK,
             vars, lifeVars, refreshVars, mapVars, consumerVars, seenVars
<1>1. CASE OwnerNext
  <2>1. CASE StartBegins BY <2>1, Zenon DEF StartBegins
  <2>2. CASE StartFinishes
    <3>1. ready' = TRUE /\ phase' = "none" /\ caller' = "running"
      BY <2>2 DEF StartFinishes
    <3>2. UNCHANGED <<networks, clients, seenNetworks, seenClients, consumer, notifyChan, refused>>
      BY <2>2 DEF StartFinishes
    <3>3. phase # "notify" BY <2>2 DEF StartFinishes
    <3>. QED BY <3>1, <3>2, <3>3, Zenon
  <2>3. CASE StopReturns BY <2>3, Zenon DEF StopReturns
  <2>. QED BY <1>1, <2>1, <2>2, <2>3 DEF OwnerNext
<1>2. CASE StopBegins \/ CancelContext
  BY <1>2 DEF StopBegins, CancelContext
<1>3. CASE RefreshNext
  <2>1. CASE FetchSucceeds BY <2>1 DEF FetchSucceeds
  <2>2. CASE FetchFails BY <2>2 DEF FetchFails
  <2>3. CASE StoreData BY <2>3 DEF StoreData
  <2>4. CASE SendNotification
    <3>1. notifyChan' = TRUE /\ UNCHANGED <<ready, caller, loop, consumer, refused>>
      BY <2>4 DEF SendNotification
    <3>2. phase' = IF caller = "starting" THEN "done" ELSE "none"
      BY <2>4 DEF SendNotification
    <3>3. phase = "notify" BY <2>4 DEF SendNotification
    <3>. QED BY <3>1, <3>2, <3>3, Zenon
  <2>. QED BY <1>3, <2>1, <2>2, <2>3, <2>4 DEF RefreshNext
<1>4. CASE TickerFires \/ TakeTick \/ LoopExits
  BY <1>4 DEF TickerFires, TakeTick, LoopExits
<1>5. CASE ConsumerNext
  <2>1. CASE ReceiveNotification
    <3>1. consumer' = "getNetworks" /\ refused' = FALSE /\ UNCHANGED <<caller, phase, loop>>
      BY <2>1 DEF ReceiveNotification
    <3>. QED BY <3>1, Zenon
  <2>2. CASE ReadNetworks BY <2>2 DEF ReadNetworks
  <2>3. CASE ReadClients BY <2>3 DEF ReadClients
  <2>4. CASE ReadNotReady BY <2>4 DEF ReadNotReady
  <2>. QED BY <1>5, <2>1, <2>2, <2>3, <2>4 DEF ConsumerNext
<1>6. CASE PublishFile BY <1>6 DEF PublishFile
<1>7. CASE UNCHANGED vars BY <1>7
<1>. QED BY <1>1, <1>2, <1>3, <1>4, <1>5, <1>6, <1>7 DEF Next

LEMMA VersionInvStep ==
  ASSUME VersionsOK, VersionInv, [Next]_vars
  PROVE  VersionInv'
BY DEF VersionInv, VersionsOK, vars, lifeVars, refreshVars, mapVars, consumerVars, seenVars, Next,
       OwnerNext, StartBegins, StartFinishes, StopReturns, StopBegins, CancelContext,
       RefreshNext, FetchSucceeds, FetchFails, StoreData, SendNotification,
       TickerFires, TakeTick, LoopExits, ConsumerNext, ReceiveNotification,
       ReadNetworks, ReadClients, ReadNotReady, PublishFile

IInv == TypeOK /\ AnnouncedInv /\ VersionInv

\* What the consumer has not seen is announced to it (SendNotification).
THEOREM InductiveInvariant == Spec => []IInv
<1>1. Init => AnnouncedInv /\ VersionInv
  <2>1. Init => AnnouncedInv BY DEF Init, AnnouncedInv
  <2>2. Init => VersionInv BY DEF Init, VersionInv
  <2>. QED BY <2>1, <2>2
<1>2. TypeOK /\ AnnouncedInv /\ VersionInv /\ [Next]_vars => AnnouncedInv' /\ VersionInv'
  BY AnnouncedInvStep, VersionInvStep DEF TypeOK
<1>. QED BY <1>1, <1>2, TypeCorrect, PTL DEF Spec, IInv

\* A consumer with no notification pending has read what the cache holds.
THEOREM NoUpdateIsMissed == Spec => []NoMissedUpdate
<1>1. IInv => NoMissedUpdate
  BY DEF IInv, AnnouncedInv, NoMissedUpdate, OnItsWay
<1>. QED BY <1>1, InductiveInvariant, PTL

-----------------------------------------------------------------------------
(* The provider implements the abstract cache, for either map.             *)

\* A version that is read or stored moves one of the maps as the cache does.
THEOREM ImplementsCache == Spec => CacheSpec
<1>1. Init => NetworksCache!Init /\ ClientsCache!Init
  BY DEF Init, NetworksCache!Init, ClientsCache!Init, OnItsWay
<1>2. IInv /\ [Next]_vars =>
        [NetworksCache!Next]_(NetworksCache!vars) /\ [ClientsCache!Next]_(ClientsCache!vars)
  <2>. SUFFICES ASSUME IInv, [Next]_vars
                PROVE  /\ [NetworksCache!Next]_(NetworksCache!vars)
                       /\ [ClientsCache!Next]_(ClientsCache!vars)
    OBVIOUS
  <2>. USE DEF OnItsWay, NetworksCache!vars, ClientsCache!vars,
               vars, lifeVars, refreshVars, mapVars, consumerVars, seenVars
  <2>1. CASE StoreData
    <3>1. networks' \in Int /\ networks' >= networks /\ clients' \in Int /\ clients' >= clients
      BY <2>1 DEF StoreData, IInv, VersionInv, TypeOK, VersionsOK
    <3>2. phase' = "notify" /\ UNCHANGED <<seenNetworks, seenClients>>
      BY <2>1 DEF StoreData
    <3>. QED
      BY <3>1, <3>2 DEF NetworksCache!Next, NetworksCache!Update,
         ClientsCache!Next, ClientsCache!Update
  <2>2. CASE ReadNetworks
    <3>1. NetworksCache!Read
      BY <2>2 DEF ReadNetworks, NetworksCache!Read
    <3>2. UNCHANGED ClientsCache!vars
      BY <2>2 DEF ReadNetworks
    <3>. QED BY <3>1, <3>2 DEF NetworksCache!Next
  <2>3. CASE ReadClients
    <3>1. ClientsCache!Read
      BY <2>3 DEF ReadClients, ClientsCache!Read
    <3>2. UNCHANGED NetworksCache!vars
      BY <2>3 DEF ReadClients
    <3>. QED BY <3>1, <3>2 DEF ClientsCache!Next
  <2>4. CASE SendNotification \/ ReceiveNotification
    BY <2>4 DEF SendNotification, ReceiveNotification
  <2>5. CASE ReadNotReady
    BY <2>5 DEF ReadNotReady, IInv, AnnouncedInv
  <2>6. CASE StartBegins \/ StartFinishes \/ FetchSucceeds \/ FetchFails \/ TakeTick
    <3>1. phase # "notify" /\ phase' # "notify"
      <4>1. CASE StartBegins
        BY <4>1 DEF StartBegins, IInv, AnnouncedInv
      <4>2. CASE StartFinishes \/ FetchSucceeds \/ FetchFails \/ TakeTick
        BY <4>2 DEF StartFinishes, FetchSucceeds, FetchFails, TakeTick
      <4>. QED BY <2>6, <4>1, <4>2
    <3>2. UNCHANGED <<networks, clients, seenNetworks, seenClients, consumer, notifyChan, refused>>
      BY <2>6 DEF StartBegins, StartFinishes, FetchSucceeds, FetchFails, TakeTick
    <3>. QED BY <3>1, <3>2
  <2>7. CASE \/ StopReturns \/ StopBegins \/ CancelContext \/ TickerFires
             \/ LoopExits \/ PublishFile \/ UNCHANGED vars
    BY <2>7 DEF StopReturns, StopBegins, CancelContext, TickerFires, LoopExits, PublishFile
  <2>. QED
    BY <2>1, <2>2, <2>3, <2>4, <2>5, <2>6, <2>7 DEF Next, OwnerNext, RefreshNext, ConsumerNext
<1>. QED
  BY <1>1, <1>2, InductiveInvariant, PTL
  DEF Spec, CacheSpec, NetworksCache!Spec, ClientsCache!Spec
=============================================================================
