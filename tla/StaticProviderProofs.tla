------------------------ MODULE StaticProviderProofs ------------------------
(***************************************************************************)
(* Proofs about the schedules of the two providers, for every width of the *)
(* numbers and every configuration.                                        *)
(***************************************************************************)
EXTENDS StaticProvider, TLAPS

\* The time of an epoch, which all four formulas have to give.
TimeOf(t, epoch) == (t.genesis + epoch * t.slots * t.duration) % Modulus

\* What the extraction keeps: the timing and the epochs are natural numbers, and
\* every entry has the time of its epoch.
TimingOK == timing.genesis \in Nat /\ timing.slots \in Nat /\ timing.duration \in Nat

Exact(entry) ==
  /\ entry.epoch \in Nat
  /\ entry = [epoch |-> entry.epoch, timestamp |-> TimeOf(timing, entry.epoch)]

ScheduleInv ==
  /\ config \in Configs
  /\ TimingOK
  /\ at = "timing" => forks = NoForks /\ blobs = <<>>
  /\ left \subseteq DOMAIN config.forks
  /\ item \in Nat \ {0}
  /\ \A f \in DOMAIN forks : Exact(forks[f])
  /\ blobs \in Seq([epoch : Nat, timestamp : Int])
  /\ \A i \in DOMAIN blobs : Exact(blobs[i])

\* Without overflow the remainder is the number itself, and a longer time after
\* the genesis is a later time (genesis.go:197 and 310).
LEMMA TimestampIsMonotone ==
  ASSUME NEW g \in Nat, NEW s \in Nat, NEW d \in Nat, NEW e1 \in Nat, NEW e2 \in Nat,
         e1 <= e2, g + e2 * s * d < Modulus
  PROVE  /\ g <= (g + e1 * s * d) % Modulus
         /\ (g + e1 * s * d) % Modulus <= (g + e2 * s * d) % Modulus
<1>1. e1 * s <= e2 * s /\ e1 * s \in Nat /\ e2 * s \in Nat
  OBVIOUS
<1>. DEFINE p1 == e1 * s
            p2 == e2 * s
<1>2. p1 * d <= p2 * d /\ p1 * d \in Nat /\ p2 * d \in Nat
  <2>. HIDE DEF p1, p2
  <2>1. p1 <= p2 /\ p1 \in Nat /\ p2 \in Nat BY <1>1 DEF p1, p2
  <2>. QED BY <2>1
<1>. DEFINE q1 == p1 * d
            q2 == p2 * d
<1>3. q1 <= q2 /\ q1 \in Nat /\ q2 \in Nat /\ g + q2 < Modulus BY <1>2
<1>4. (g + q1) % Modulus = g + q1 /\ (g + q2) % Modulus = g + q2
  <2>. HIDE DEF q1, q2
  <2>. QED BY <1>3, TimestampsAssumption DEF TimestampsAssumption
<1>. HIDE DEF q1, q2
<1>5. g <= (g + q1) % Modulus /\ (g + q1) % Modulus <= (g + q2) % Modulus
  BY <1>3, <1>4
<1>. QED BY <1>5 DEF q1, q2

LEMMA ScheduleInvStep ==
  ASSUME ScheduleInv, [Next]_vars
  PROVE  ScheduleInv'
<1>. USE DEF ScheduleInv
<1>1. CASE ReadFails BY <1>1 DEF ReadFails, TimingOK, Exact, TimeOf
<1>2. CASE ReadTiming
  <2>1. TimingOK'
    <3>1. config.genesis \in Values /\ config.slots \in Values /\ config.duration \in Values
      BY ConfigsAssumption DEF ConfigsAssumption
    <3>2. GenesisTime(config.genesis) \in Nat
      BY <3>1, TimestampsAssumption DEF TimestampsAssumption, GenesisTime, Readable, Values
    <3>3. SlotsPerEpoch(config.slots) \in Nat
      BY <3>1, TimestampsAssumption DEF TimestampsAssumption, SlotsPerEpoch, Readable, Values
    <3>4. SlotDuration(config.duration) \in Nat
      <4>. DEFINE d == config.duration
      <4>1. Readable(d) => d.n \in Nat
        BY TimestampsAssumption DEF TimestampsAssumption, Readable
      <4>2. Readable(d) => d.n \div Millis \in Nat
        <5>. DEFINE n == d.n
        <5>1. n \in Nat => n \div Millis \in Nat
          <6>. HIDE DEF n
          <6>. QED BY TimestampsAssumption DEF TimestampsAssumption
        <5>. QED BY <4>1, <5>1
      <4>3. DefaultDuration \in Nat
        BY TimestampsAssumption DEF TimestampsAssumption
      <4>. HIDE DEF d
      <4>4. SlotDuration(d) \in Nat
        BY <4>2, <4>3 DEF SlotDuration
      <4>. QED BY <4>4 DEF d
    <3>. QED BY <1>2, <3>2, <3>3, <3>4 DEF ReadTiming, TimingOK
  <2>. QED BY <1>2, <2>1 DEF ReadTiming, NoForks
<1>3. CASE ExtractFork
  <2>1. PICK key \in left :
          forks' = IF Scheduled(config.forks[key])
                   THEN [f \in DOMAIN forks \union {key[1]} |->
                           IF f = key[1] THEN ForkEntry(timing, config.forks[key].n) ELSE forks[f]]
                   ELSE forks
    BY <1>3 DEF ExtractFork
  <2>2. left' \subseteq DOMAIN config.forks BY <1>3 DEF ExtractFork
  <2>3. UNCHANGED <<config, at, timing, item, blobs>> BY <1>3 DEF ExtractFork
  <2>4. \A f \in DOMAIN forks' : Exact(forks'[f])
    <3>1. CASE Scheduled(config.forks[key])
      <4>1. config.forks[key].n \in Nat BY <3>1 DEF Scheduled, Readable
      <4>. QED BY <2>1, <3>1, <4>1 DEF Exact, ForkEntry, TimeOf
    <3>2. CASE ~Scheduled(config.forks[key]) BY <2>1, <3>2
    <3>. QED BY <3>1, <3>2
  <2>5. at # "timing" BY <1>3 DEF ExtractFork
  <2>. QED BY <2>2, <2>3, <2>4, <2>5 DEF TimingOK, Exact, TimeOf
<1>4. CASE ForksExtracted \/ BlobsExtracted
  BY <1>4 DEF ForksExtracted, BlobsExtracted, TimingOK, Exact, TimeOf
<1>5. CASE ExtractBlobs
  <2>1. UNCHANGED <<config, at, timing, left, forks>> /\ item' \in Nat \ {0} /\ at # "timing"
    BY <1>5 DEF ExtractBlobs
  <2>2. /\ blobs' \in Seq([epoch : Nat, timestamp : Int])
        /\ \A i \in DOMAIN blobs' : Exact(blobs'[i])
    <3>1. CASE Usable(config.blobs[item])
      <4>. DEFINE new == BlobEntry(timing, config.blobs[item].epoch.n)
      <4>1. config.blobs[item].epoch.n \in Nat BY <3>1 DEF Usable, Readable
      <4>2. new \in [epoch : Nat, timestamp : Int] /\ Exact(new)
        BY <4>1, TimestampsAssumption
        DEF Exact, BlobEntry, TimeOf, TimingOK, TimestampsAssumption
      <4>3. blobs' = Append(blobs, new) BY <1>5, <3>1 DEF ExtractBlobs
      <4>. HIDE DEF new
      <4>. QED BY <4>2, <4>3
    <3>2. CASE ~Usable(config.blobs[item]) BY <1>5, <3>2 DEF ExtractBlobs
    <3>. QED BY <3>1, <3>2
  <2>. QED BY <2>1, <2>2 DEF TimingOK, Exact, TimeOf
<1>6. CASE AddNetwork \/ SkipNetwork
  BY <1>6 DEF AddNetwork, SkipNetwork, githubVars, TimingOK, Exact, TimeOf
<1>7. CASE UNCHANGED vars BY <1>7 DEF vars, githubVars, TimingOK, Exact, TimeOf
<1>. QED BY <1>1, <1>2, <1>3, <1>4, <1>5, <1>6, <1>7 DEF Next, GitHubNext

\* The schedule that the GitHub provider publishes respects the order of the
\* epochs, up to the first time that exceeds the width.
THEOREM SchedulesAreMonotone == Spec => []ScheduleIsMonotone
<1>1. Init => ScheduleInv
  BY DEF Init, GitHubInit, ScheduleInv, TimingOK, NoForks
<1>2. ScheduleInv /\ [Next]_vars => ScheduleInv'
  BY ScheduleInvStep
<1>3. ScheduleInv => ScheduleIsMonotone
  <2>. SUFFICES ASSUME ScheduleInv, NEW e1 \in Entries, NEW e2 \in Entries,
                       e1.epoch <= e2.epoch, Fits(e2)
                PROVE  timing.genesis <= e1.timestamp /\ e1.timestamp <= e2.timestamp
    BY DEF ScheduleIsMonotone
  <2>1. Exact(e1) /\ Exact(e2) BY DEF Entries, ScheduleInv
  <2>. QED BY <2>1, TimestampIsMonotone DEF Exact, TimeOf, Fits, ScheduleInv, TimingOK
<1>. QED BY <1>1, <1>2, <1>3, PTL DEF Spec

-----------------------------------------------------------------------------
(* Completeness: the forks are those of the keys that the loop has visited. *)

Visited == Planned \ left

ForksInv ==
  /\ config \in Configs
  /\ left \subseteq DOMAIN config.forks
  /\ at \in {"timing", "failed", "forks", "blobs", "done"}
  /\ at = "timing" => DOMAIN forks = {}
  /\ at \in {"blobs", "done"} => left = {}
  /\ at \in {"forks", "blobs", "done"} =>
       /\ DOMAIN forks = {key[1] : key \in Visited}
       /\ \A f \in DOMAIN forks :
            \E key \in Visited : key[1] = f /\ forks[f].epoch = config.forks[key].n

LEMMA PlannedIsScheduled ==
  ASSUME config \in Configs, NEW key \in DOMAIN config.forks
  PROVE  key \in Planned <=> Scheduled(config.forks[key])
<1>1. config.forks[key] \in Values
  BY ConfigsAssumption DEF ConfigsAssumption
<1>. QED BY <1>1, TimestampsAssumption
  DEF TimestampsAssumption, Planned, Scheduled, Readable, FarFuture, Values

LEMMA ForksInvStep ==
  ASSUME ForksInv, [Next]_vars
  PROVE  ForksInv'
<1>. USE DEF ForksInv, Visited
<1>0. ASSUME UNCHANGED config PROVE UNCHANGED Planned
  BY <1>0 DEF Planned
<1>1. CASE ReadFails BY <1>1 DEF ReadFails
<1>2. CASE ReadTiming
  <2>1. /\ UNCHANGED <<config, forks>> /\ DOMAIN forks = {} /\ at' = "forks"
        /\ left' = DOMAIN config.forks
    BY <1>2 DEF ReadTiming
  <2>2. Visited' = {}
    BY <2>1 DEF Planned
  <2>. QED BY <2>1, <2>2
<1>3. CASE ExtractFork
  <2>1. UNCHANGED <<config, at>> /\ at = "forks" /\ UNCHANGED Planned
    BY <1>0, <1>3 DEF ExtractFork
  <2>2. PICK key \in left :
          /\ left' = left \ {key}
          /\ forks' = IF Scheduled(config.forks[key])
                      THEN [f \in DOMAIN forks \union {key[1]} |->
                              IF f = key[1] THEN ForkEntry(timing, config.forks[key].n) ELSE forks[f]]
                      ELSE forks
    BY <1>3 DEF ExtractFork
  <2>3. CASE key \in Planned
    <3>1. Visited' = Visited \union {key}
      BY <2>1, <2>2, <2>3
    <3>2. forks' = [f \in DOMAIN forks \union {key[1]} |->
                      IF f = key[1] THEN ForkEntry(timing, config.forks[key].n) ELSE forks[f]]
      BY <2>2, <2>3, PlannedIsScheduled
    <3>3. DOMAIN forks' = {k[1] : k \in Visited'}
      BY <2>1, <3>1, <3>2
    <3>4. ASSUME NEW f \in DOMAIN forks'
          PROVE  \E k \in Visited' : k[1] = f /\ forks'[f].epoch = config'.forks[k].n
      <4>1. CASE f = key[1]
        <5>1. forks'[f].epoch = config.forks[key].n
          BY <3>2, <4>1 DEF ForkEntry
        <5>. QED BY <2>1, <3>1, <4>1, <5>1
      <4>2. CASE f # key[1]
        <5>1. f \in DOMAIN forks /\ forks'[f] = forks[f]
          BY <3>2, <4>2
        <5>. QED BY <2>1, <3>1, <5>1
      <4>. QED BY <4>1, <4>2
    <3>5. left' \subseteq DOMAIN config'.forks
      BY <2>1, <2>2
    <3>. QED BY <2>1, <3>3, <3>4, <3>5, Zenon
  <2>4. CASE key \notin Planned
    <3>1. Visited' = Visited
      BY <2>1, <2>2, <2>4
    <3>2. forks' = forks
      BY <2>2, <2>4, PlannedIsScheduled
    <3>3. left' \subseteq DOMAIN config'.forks
      BY <2>1, <2>2
    <3>4. DOMAIN forks' = {k[1] : k \in Visited'}
      BY <2>1, <3>1, <3>2
    <3>5. \A f \in DOMAIN forks' :
            \E k \in Visited' : k[1] = f /\ forks'[f].epoch = config'.forks[k].n
      BY <2>1, <3>1, <3>2
    <3>. QED BY <2>1, <3>3, <3>4, <3>5, Zenon
  <2>. QED BY <2>3, <2>4
<1>4. CASE ForksExtracted \/ BlobsExtracted
  <2>1. UNCHANGED <<config, left, forks, Planned>> /\ at \in {"forks", "blobs"} /\ left = {}
        /\ at' \in {"blobs", "done"}
    BY <1>0, <1>4 DEF ForksExtracted, BlobsExtracted
  <2>. QED BY <2>1
<1>5. CASE UNCHANGED <<config, at, left, forks>> BY <1>0, <1>5
<1>. QED BY <1>1, <1>2, <1>3, <1>4, <1>5
  DEF Next, GitHubNext, ExtractBlobs, AddNetwork, SkipNetwork, githubVars, vars

\* No scheduled fork is lost and none invented, in whatever order the keys come.
THEOREM ForksComplete == Spec => []ForksAreComplete
<1>1. Init => ForksInv BY DEF Init, GitHubInit, ForksInv, NoForks
<1>2. ForksInv => ForksAreComplete
  BY DEF ForksInv, ForksAreComplete, Visited, Planned
<1>. QED BY <1>1, <1>2, ForksInvStep, PTL DEF Spec

-----------------------------------------------------------------------------
(* The static provider: what it publishes is the schedule of the last      *)
(* network of the name.                                                    *)

IsSource(i, n) == i \in Sources(n) /\ \A j \in Sources(n) : j <= i

StaticInv ==
  /\ config \in Configs /\ entries \in Listings(config)
  /\ pos \in Nat \ {0}
  /\ \A i \in 1..(pos - 1) : i <= Len(entries)
  /\ \A n \in DOMAIN networks : \E i \in Nat : IsSource(i, n) /\ networks[n] = Schedule(entries[i])

LEMMA StaticInvStep ==
  ASSUME StaticInv, [Next]_vars
  PROVE  StaticInv'
<1>1. CASE AddNetwork
  <2>1. /\ UNCHANGED <<config, entries>> /\ pos' = pos + 1 /\ pos <= Len(entries)
        /\ entries[pos].urlParses
        /\ networks' = [n \in DOMAIN networks \union {entries[pos].name} |->
                          IF n = entries[pos].name THEN Schedule(entries[pos]) ELSE networks[n]]
    BY <1>1 DEF AddNetwork, githubVars
  <2>2. /\ config' \in Configs /\ entries' \in Listings(config')
        /\ pos' \in Nat \ {0} /\ \A i \in 1..(pos' - 1) : i <= Len(entries')
    BY <2>1 DEF StaticInv
  <2>3. PICK k \in Nat : k = pos
    BY DEF StaticInv
  <2>4. \A n : n = entries[pos].name => IsSource(k, n)'
    BY <2>1, <2>3 DEF IsSource, Sources, StaticInv
  <2>5. ASSUME NEW n \in DOMAIN networks, n # entries[pos].name, NEW i, IsSource(i, n)
        PROVE  IsSource(i, n)'
    BY <2>1, <2>5 DEF IsSource, Sources, StaticInv
  <2>6. ASSUME NEW n \in DOMAIN networks'
        PROVE  \E i \in Nat : IsSource(i, n)' /\ networks'[n] = Schedule(entries'[i])
    <3>1. CASE n = entries[pos].name
      <4>1. networks'[n] = Schedule(entries'[k])
        BY <2>1, <2>3, <3>1
      <4>. QED BY <2>3, <2>4, <3>1, <4>1
    <3>2. CASE n # entries[pos].name
      <4>1. n \in DOMAIN networks /\ networks'[n] = networks[n]
        BY <2>1, <3>2
      <4>2. PICK i \in Nat : IsSource(i, n) /\ networks[n] = Schedule(entries[i])
        BY <4>1 DEF StaticInv
      <4>. QED BY <2>1, <2>5, <3>2, <4>1, <4>2
    <3>. QED BY <3>1, <3>2
  <2>. QED BY <2>2, <2>6 DEF StaticInv
<1>2. CASE SkipNetwork
  <2>1. UNCHANGED <<config, entries, networks>> /\ pos' = pos + 1 /\ pos <= Len(entries)
        /\ ~entries[pos].urlParses
    BY <1>2 DEF SkipNetwork, githubVars
  <2>2. ASSUME NEW n PROVE Sources(n)' = Sources(n)
    BY <2>1 DEF Sources, StaticInv
  <2>. QED BY <2>1, <2>2 DEF StaticInv, IsSource
<1>3. CASE UNCHANGED <<config, entries, pos, networks>>
  BY <1>3 DEF StaticInv, IsSource, Sources
<1>. QED BY <1>1, <1>2, <1>3
  DEF Next, vars, githubVars, staticVars, GitHubNext, ReadFails, ReadTiming, ExtractFork, ForksExtracted,
      ExtractBlobs, BlobsExtracted

LEMMA Published ==
  ASSUME StaticInv, NEW n \in DOMAIN networks
  PROVE  networks[n] = Schedule(Source(n)) /\ IsEntry(Source(n))
<1>1. PICK i \in Nat : IsSource(i, n) /\ networks[n] = Schedule(entries[i])
  BY DEF StaticInv
<1>2. Sources(n) \subseteq Nat
  BY DEF Sources, StaticInv
<1>3. \A j \in Sources(n) : (\A k \in Sources(n) : k <= j) => j = i
  BY <1>1, <1>2 DEF IsSource
<1>4. Source(n) = entries[i]
  BY <1>1, <1>3 DEF Source, IsSource
<1>5. i \in 1..Len(entries)
  BY <1>1 DEF IsSource, Sources, StaticInv
<1>. QED BY <1>1, <1>4, <1>5, ListingsAssumption DEF ListingsAssumption, StaticInv

\* A schedule that is calculated again from its own result stays as it is.
LEMMA CalculatedTwice ==
  ASSUME NEW t, NEW m \in Milestones
  PROVE  /\ CalculatedFork(t, CalculatedFork(t, m)) = CalculatedFork(t, m)
         /\ CalculatedBlob(t, CalculatedBlob(t, m)) = CalculatedBlob(t, m)
BY DEF CalculatedFork, CalculatedBlob, Missing, Milestones

\* From the step that reads it, the timing is that of the config.yaml.
TimingInv ==
  /\ config \in Configs
  /\ at \notin {"timing", "failed"} =>
       timing = [genesis |-> GenesisTime(config.genesis),
                 slots |-> SlotsPerEpoch(config.slots),
                 duration |-> SlotDuration(config.duration)]

LEMMA TimingInvStep ==
  ASSUME TimingInv, [Next]_vars
  PROVE  TimingInv'
<1>. USE DEF TimingInv
<1>1. CASE ReadTiming BY <1>1 DEF ReadTiming
<1>2. CASE ReadFails BY <1>2 DEF ReadFails
<1>3. CASE UNCHANGED <<config, timing>> /\ (UNCHANGED at \/ at \notin {"timing", "failed"})
  BY <1>3
<1>. QED BY <1>1, <1>2, <1>3
  DEF Next, GitHubNext, ExtractFork, ForksExtracted, ExtractBlobs, BlobsExtracted, AddNetwork,
      SkipNetwork, githubVars, vars

\* Each provider makes of the same description the same timing: their defaults and
\* their units agree.
LEMMA TimingsAgree ==
  ASSUME TimingInv, at = "done", NEW own, SaysTheSame(own, config)
  PROVE  TimingOf(own) = timing
<1>1. GenesisTime(config.genesis) = own.genesis
  <2>. DEFINE g == config.genesis
  <2>1. Readable(g) /\ own.genesis = g.n
    BY DEF SaysTheSame
  <2>. HIDE DEF g
  <2>2. Readable(g) => ~(g.n >= Modulus)
    BY TimestampsAssumption DEF TimestampsAssumption, Readable
  <2>3. GenesisTime(g) = g.n
    BY <2>1, <2>2, Zenon DEF GenesisTime
  <2>. QED BY <2>1, <2>3 DEF g
<1>2. SlotsPerEpoch(config.slots) = Given(own.slots, DefaultSlots)
  BY DEF SaysTheSame, SlotsPerEpoch, Given
<1>3. SlotDuration(config.duration) = Given(own.duration, DefaultDuration)
  BY DEF SaysTheSame, SlotDuration, Given
<1>. QED BY <1>1, <1>2, <1>3 DEF TimingOf, TimingInv

\* The two providers, whose defaults, units and formulas are written down apart,
\* give one time to one epoch of a network that is configured as its file says.
THEOREM ProvidersDoAgree == Spec => []ProvidersAgree
<1>1. Init => ScheduleInv /\ StaticInv /\ TimingInv
  BY DEF Init, GitHubInit, ScheduleInv, TimingOK, NoForks, StaticInv, TimingInv
<1>2. ScheduleInv /\ StaticInv /\ TimingInv => ProvidersAgree
  <2>. SUFFICES ASSUME ScheduleInv, StaticInv, TimingInv, at = "done", NEW n \in DOMAIN networks,
                       Source(n).genesis > 0, SaysTheSame(Source(n), config)
                PROVE  /\ \A f \in DOMAIN networks[n].forks, e \in Entries :
                            Source(n).forks[f].timestamp = 0 /\ e.epoch = Source(n).forks[f].epoch
                              => networks[n].forks[f] = e
                       /\ \A i \in DOMAIN networks[n].blobs, e \in Entries :
                            Source(n).blobs[i].timestamp = 0 /\ e.epoch = Source(n).blobs[i].epoch
                              => networks[n].blobs[i] = e
    BY DEF ProvidersAgree
  <2>. DEFINE own == Source(n)
  <2>1. TimingOf(own) = timing /\ timing.genesis > 0
    BY TimingsAgree DEF TimingOf
  <2>2. ASSUME NEW e \in Entries, NEW m \in Milestones, m.timestamp = 0, e.epoch = m.epoch
        PROVE  CalculatedFork(timing, m) = e /\ CalculatedBlob(timing, m) = e
    <3>1. e = [epoch |-> m.epoch, timestamp |-> TimeOf(timing, m.epoch)]
      BY <2>2 DEF Entries, ScheduleInv, Exact
    <3>2. \A x : [m EXCEPT !.timestamp = x] = [epoch |-> m.epoch, timestamp |-> x]
      BY DEF Milestones
    <3>. QED BY <2>1, <2>2, <3>1, <3>2 DEF CalculatedFork, CalculatedBlob, Missing, TimeOf
  <2>3. /\ networks[n].forks = [f \in DOMAIN own.forks |-> CalculatedFork(timing, own.forks[f])]
        /\ networks[n].blobs = [i \in DOMAIN own.blobs |-> CalculatedBlob(timing, own.blobs[i])]
    BY <2>1, Published DEF Schedule
  <2>4. /\ \A f \in DOMAIN own.forks : own.forks[f] \in Milestones
        /\ \A i \in DOMAIN own.blobs : own.blobs[i] \in Milestones
    BY Published DEF IsEntry
  <2>. HIDE DEF own
  <2>. QED BY <2>2, <2>3, <2>4 DEF own
<1>. QED BY <1>1, <1>2, ScheduleInvStep, StaticInvStep, TimingInvStep, PTL DEF Spec

\* Putting published networks back into the configuration changes no time.
THEOREM PublishedDoesNotChange == Spec => []PublishedIsStable
<1>1. Init => StaticInv
  BY DEF Init, GitHubInit, NoForks, StaticInv
<1>2. StaticInv => PublishedIsStable
  <2>. SUFFICES ASSUME StaticInv, NEW n \in DOMAIN networks
                PROVE  LET own == Source(n)
                           again == Schedule([own EXCEPT !.forks = networks[n].forks,
                                                         !.blobs = networks[n].blobs])
                       IN  /\ again = networks[n]
                           /\ \A f \in DOMAIN own.forks :
                                own.forks[f].timestamp # 0 => networks[n].forks[f] = own.forks[f]
    BY DEF PublishedIsStable
  <2>. DEFINE own == Source(n)
              own2 == [own EXCEPT !.forks = networks[n].forks, !.blobs = networks[n].blobs]
  <2>1. networks[n] = Schedule(own) /\ IsEntry(own)
    BY Published
  <2>2. /\ own2.forks = networks[n].forks /\ own2.blobs = networks[n].blobs
        /\ own2.genesis = own.genesis /\ own2.slots = own.slots /\ own2.duration = own.duration
    BY <2>1 DEF IsEntry
  <2>3. TimingOf(own2) = TimingOf(own)
    BY <2>2 DEF TimingOf
  <2>4. /\ \A f \in DOMAIN own.forks : own.forks[f] \in Milestones
        /\ \A i \in DOMAIN own.blobs : own.blobs[i] \in Milestones
    BY <2>1 DEF IsEntry
  <2>5. Schedule(own2) = networks[n]
    <3>. DEFINE t == TimingOf(own)
                forks1 == [f \in DOMAIN own.forks |-> CalculatedFork(t, own.forks[f])]
                blobs1 == [i \in DOMAIN own.blobs |-> CalculatedBlob(t, own.blobs[i])]
    <3>1. networks[n] = [forks |-> forks1, blobs |-> blobs1]
      BY <2>1 DEF Schedule
    <3>2. own2.forks = forks1 /\ own2.blobs = blobs1
      BY <2>2, <3>1
    <3>3. Schedule(own2) = [forks |-> [f \in DOMAIN forks1 |-> CalculatedFork(t, forks1[f])],
                            blobs |-> [i \in DOMAIN blobs1 |-> CalculatedBlob(t, blobs1[i])]]
      <4>1. Schedule(own2) =
              [forks |-> [f \in DOMAIN own2.forks |-> CalculatedFork(TimingOf(own2), own2.forks[f])],
               blobs |-> [i \in DOMAIN own2.blobs |-> CalculatedBlob(TimingOf(own2), own2.blobs[i])]]
        <5>. HIDE DEF own2
        <5>. QED BY DEF Schedule
      <4>. HIDE DEF own2, own, t, forks1, blobs1
      <4>2. TimingOf(own2) = t
        BY <2>3 DEF t
      <4>. QED BY <3>2, <4>1, <4>2
    <3>4. /\ \A f \in DOMAIN own.forks : CalculatedFork(t, forks1[f]) = forks1[f]
          /\ \A i \in DOMAIN own.blobs : CalculatedBlob(t, blobs1[i]) = blobs1[i]
      BY <2>4, CalculatedTwice
    <3>. HIDE DEF own2, own, t
    <3>. QED BY <3>1, <3>3, <3>4
  <2>6. ASSUME NEW f \in DOMAIN own.forks, own.forks[f].timestamp # 0
        PROVE  networks[n].forks[f] = own.forks[f]
    <3>1. own.forks[f] \in Milestones
      BY <2>4
    <3>2. networks[n].forks[f] = CalculatedFork(TimingOf(own), own.forks[f])
      BY <2>1 DEF Schedule
    <3>. QED BY <2>6, <3>1, <3>2 DEF CalculatedFork, Missing, Milestones
  <2>. QED BY <2>5, <2>6
<1>. QED BY <1>1, <1>2, StaticInvStep, PTL DEF Spec
=============================================================================
