--------------------------- MODULE StaticProvider ---------------------------
(***************************************************************************)
(* Provider.Discover of the static provider, next to the extraction that   *)
(* the GitHub provider makes: both compute the times of a schedule.        *)
(*                                                                         *)
(* A configured network is its name, whether its configuration URL parses, *)
(* its timing and its schedule; descriptive fields are left out.           *)
(***************************************************************************)
EXTENDS ForkTimestamps

CONSTANT Listings(_)     \* the lists of networks to consider for a config.yaml

Milestones == [epoch : Nat, timestamp : Nat]
IsEntry(own) ==
  own \in [name : {own.name}, urlParses : BOOLEAN, genesis : Nat, slots : Nat, duration : Nat,
           forks : [DOMAIN own.forks -> Milestones], blobs : Seq(Milestones)]

ASSUME ListingsAssumption ==
  \A c \in Configs : \A list \in Listings(c) : \A i \in 1..Len(list) : IsEntry(list[i])

VARIABLES
  entries,     \* config.Static.Networks
  pos,         \* position of the next network of the list
  networks     \* name |-> [forks, blobs]

staticVars == <<entries, pos, networks>>
vars == <<githubVars, staticVars>>

-----------------------------------------------------------------------------
Given(value, default) == IF value = 0 THEN default ELSE value

TimingOf(entry) ==
  [genesis |-> entry.genesis,
   slots |-> Given(entry.slots, DefaultSlots),
   duration |-> Given(entry.duration, DefaultDuration)]

\* A time that is configured is kept; none is calculated without a genesis.
Missing(t, milestone) == milestone.timestamp = 0 /\ t.genesis > 0

Mut_AlwaysCalculated(t, fork) ==
  [fork EXCEPT !.timestamp =
     IF t.genesis > 0 THEN (t.genesis + fork.epoch * t.slots * t.duration) % Modulus ELSE @]

CalculatedFork(t, fork) ==
  [fork EXCEPT !.timestamp =
     IF Missing(t, fork) THEN (t.genesis + fork.epoch * t.slots * t.duration) % Modulus ELSE @]

Mut_DurationForgotten(t, entry) ==
  [entry EXCEPT !.timestamp =
     IF Missing(t, entry) THEN (t.genesis + entry.epoch * t.slots) % Modulus ELSE @]

CalculatedBlob(t, entry) ==
  [entry EXCEPT !.timestamp =
     IF Missing(t, entry) THEN (t.genesis + entry.epoch * t.slots * t.duration) % Modulus ELSE @]

Schedule(entry) ==
  LET t == TimingOf(entry)
  IN [forks |-> [f \in DOMAIN entry.forks |-> CalculatedFork(t, entry.forks[f])],
      blobs |-> [i \in DOMAIN entry.blobs |-> CalculatedBlob(t, entry.blobs[i])]]

Init ==
  /\ GitHubInit
  /\ entries \in Listings(config)
  /\ pos = 1
  /\ networks = NoForks

\* A later network replaces one of the same name.
AddNetwork ==
  /\ pos <= Len(entries) /\ entries[pos].urlParses
  /\ networks' = [n \in DOMAIN networks \union {entries[pos].name} |->
                    IF n = entries[pos].name THEN Schedule(entries[pos]) ELSE networks[n]]
  /\ pos' = pos + 1
  /\ UNCHANGED <<githubVars, entries>>

\* A URL that does not parse is logged, and the network left out.
SkipNetwork ==
  /\ pos <= Len(entries) /\ ~entries[pos].urlParses
  /\ pos' = pos + 1
  /\ UNCHANGED <<githubVars, entries, networks>>

Next == (GitHubNext /\ UNCHANGED staticVars) \/ AddNetwork \/ SkipNetwork

Spec == Init /\ [][Next]_vars

-----------------------------------------------------------------------------
\* A configured network says of the timing what the config.yaml says: the same
\* genesis, the same number of slots, their duration in whole seconds, and nothing
\* of what the file does not say either.
SaysTheSame(own, file) ==
  /\ Readable(file.genesis) /\ own.genesis = file.genesis.n
  /\ IF Readable(file.slots) THEN own.slots = file.slots.n /\ own.slots > 0 ELSE own.slots = 0
  /\ IF Readable(file.duration)
     THEN own.duration = file.duration.n \div Millis /\ own.duration > 0
     ELSE own.duration = 0

Sources(n) == {i \in 1..(pos - 1) : entries[i].name = n /\ entries[i].urlParses}
Source(n) == entries[CHOOSE i \in Sources(n) : \A j \in Sources(n) : j <= i]

\* The two providers publish one time for one epoch, fork or blobs, of a network
\* that is configured as its config.yaml describes it, where the static one has to
\* calculate it: each has defaults, a unit and two formulas of its own
\* (genesis.go:135-161, 197 and 310; static/provider.go:88-97, 165 and 194).
ProvidersAgree ==
  at = "done" => \A n \in DOMAIN networks :
    LET own == Source(n)
    IN own.genesis > 0 /\ SaysTheSame(own, config) =>
         /\ \A f \in DOMAIN networks[n].forks, e \in Entries :
              own.forks[f].timestamp = 0 /\ e.epoch = own.forks[f].epoch =>
                networks[n].forks[f] = e
         /\ \A i \in DOMAIN networks[n].blobs, e \in Entries :
              own.blobs[i].timestamp = 0 /\ e.epoch = own.blobs[i].epoch =>
                networks[n].blobs[i] = e

\* Networks that were published and are put into the configuration as they are
\* come out unchanged, and a configured time is never recalculated.
PublishedIsStable ==
  \A n \in DOMAIN networks :
    LET own == Source(n)
        again == Schedule([own EXCEPT !.forks = networks[n].forks, !.blobs = networks[n].blobs])
    IN /\ again = networks[n]
       /\ \A f \in DOMAIN own.forks :
            own.forks[f].timestamp # 0 => networks[n].forks[f] = own.forks[f]
=============================================================================
