--------------------------- MODULE ForkTimestamps ---------------------------
(***************************************************************************)
(* parseConfigYAML of the GitHub provider: from the config.yaml of a       *)
(* network to the times of its forks and of its blob schedule.             *)
(*                                                                         *)
(* A YAML value is abstracted to how it decodes: a number, a text of       *)
(* decimal digits, or "none" for everything that is neither, an absent key *)
(* included.  Numbers are unsigned and Modulus is 2^64 in the code.        *)
(***************************************************************************)
EXTENDS Integers, Sequences

CONSTANTS
  Modulus,             \* one more than the largest uint64
  DefaultSlots,        \* slots per epoch without SLOTS_PER_EPOCH (32, and
                       \* 32 in the static provider too)
  DefaultDuration,     \* seconds per slot without SLOT_DURATION_MS (12, likewise)
  Millis,              \* milliseconds per second (1000)
  Configs              \* the config.yaml files to consider

\* A config maps keys <<fork, spelling>> to the value of <fork>_FORK_EPOCH; the
\* code ignores the case of these keys, so that one fork may have several.
Values == [kind : {"number", "text", "none"}, n : Int]

ASSUME TimestampsAssumption ==
  /\ Modulus \in Nat \ {0} /\ Millis \in Nat \ {0}
  /\ DefaultSlots \in 0..(Modulus - 1) /\ DefaultDuration \in 0..(Modulus - 1)

ASSUME ConfigsAssumption ==
  \A c \in Configs :
    /\ c.genesis \in Values /\ c.slots \in Values /\ c.duration \in Values
    /\ \A key \in DOMAIN c.forks : c.forks[key] \in Values
    /\ c.blobs \in Seq([epoch : Values, max : Values])

VARIABLES
  config,      \* the file
  at,          \* "timing", "forks", "blobs", "done", "failed"
  timing,      \* chainTiming
  left,        \* keys that the loop over the file has not visited
  item,        \* position of the next item of BLOB_SCHEDULE
  forks,       \* fork |-> [epoch, timestamp]
  blobs        \* the blob schedule, a sequence of [epoch, timestamp]

githubVars == <<config, at, timing, left, item, forks, blobs>>

NoForks == [f \in {} |-> 0]
FarFuture == Modulus - 1

-----------------------------------------------------------------------------
(* Values.                                                                 *)

\* A number above the range decodes to a float, a text above it fails to parse.
Readable(value) == value.kind \in {"number", "text"} /\ value.n \in 0..(Modulus - 1)

\* ParseUint returns the largest number together with the error "out of range",
\* and this caller only logs the error.
GenesisTime(value) ==
  CASE Readable(value) -> value.n
    [] value.kind = "text" /\ value.n >= Modulus -> Modulus - 1
    [] OTHER -> 0

SlotsPerEpoch(value) == IF Readable(value) THEN value.n ELSE DefaultSlots
SlotDuration(value) == IF Readable(value) THEN value.n \div Millis ELSE DefaultDuration

-----------------------------------------------------------------------------
(* Times.  The formula is written down at every place that needs it, here  *)
(* and in StaticProvider; sums and products wrap around.                   *)

Mut_GenesisFirst(t, epoch) ==
  [epoch |-> epoch, timestamp |-> ((t.genesis + epoch) * t.slots * t.duration) % Modulus]

ForkEntry(t, epoch) ==
  [epoch |-> epoch, timestamp |-> (t.genesis + epoch * t.slots * t.duration) % Modulus]

BlobEntry(t, epoch) ==
  [epoch |-> epoch, timestamp |-> (t.genesis + epoch * t.slots * t.duration) % Modulus]

-----------------------------------------------------------------------------
GitHubInit ==
  /\ config \in Configs
  /\ at = "timing"
  /\ timing = [genesis |-> 0, slots |-> 0, duration |-> 0]
  /\ left = {} /\ item = 1
  /\ forks = NoForks
  /\ blobs = <<>>

\* No file, or no YAML: the network has no forks.
ReadFails ==
  /\ at = "timing"
  /\ at' = "failed"
  /\ UNCHANGED <<config, timing, left, item, forks, blobs>>

ReadTiming ==
  /\ at = "timing"
  /\ timing' = [genesis |-> GenesisTime(config.genesis),
                slots |-> SlotsPerEpoch(config.slots),
                duration |-> SlotDuration(config.duration)]
  /\ left' = DOMAIN config.forks
  /\ at' = "forks"
  /\ UNCHANGED <<config, item, forks, blobs>>

Mut_EveryEpoch(value) == Readable(value)
Scheduled(value) == Readable(value) /\ value.n # FarFuture

\* Keys come in the order of a map: of two spellings the later one stays.
ExtractFork ==
  /\ at = "forks"
  /\ \E key \in left :
       /\ left' = left \ {key}
       /\ forks' =
            IF Scheduled(config.forks[key])
            THEN [f \in DOMAIN forks \union {key[1]} |->
                    IF f = key[1] THEN ForkEntry(timing, config.forks[key].n) ELSE forks[f]]
            ELSE forks
  /\ UNCHANGED <<config, at, timing, item, blobs>>

ForksExtracted ==
  /\ at = "forks" /\ left = {}
  /\ at' = "blobs"
  /\ UNCHANGED <<config, timing, left, item, forks, blobs>>

\* An item without an epoch or a number of blobs is skipped.  There is no check
\* for FAR_FUTURE_EPOCH here.
Usable(i) == Readable(i.epoch) /\ Readable(i.max)

ExtractBlobs ==
  /\ at = "blobs" /\ item <= Len(config.blobs)
  /\ blobs' = IF Usable(config.blobs[item])
              THEN Append(blobs, BlobEntry(timing, config.blobs[item].epoch.n))
              ELSE blobs
  /\ item' = item + 1
  /\ UNCHANGED <<config, at, timing, left, forks>>

BlobsExtracted ==
  /\ at = "blobs" /\ item > Len(config.blobs)
  /\ at' = "done"
  /\ UNCHANGED <<config, timing, left, item, forks, blobs>>

GitHubNext ==
  \/ ReadFails \/ ReadTiming \/ ExtractFork \/ ForksExtracted \/ ExtractBlobs \/ BlobsExtracted

-----------------------------------------------------------------------------
\* Every scheduled fork is there, with an epoch that one of its spellings gives
\* and whatever the order of the keys; the others are not (genesis.go:163-214).
Planned == {key \in DOMAIN config.forks :
              config.forks[key].kind # "none" /\ config.forks[key].n \in 0..(Modulus - 2)}

ForksAreComplete ==
  at = "done" =>
    /\ DOMAIN forks = {key[1] : key \in Planned}
    /\ \A f \in DOMAIN forks :
         forks[f].epoch \in {config.forks[key].n : key \in {k \in Planned : k[1] = f}}

\* An entry of the schedule never comes before one of an earlier epoch, forks and
\* blobs compared with each other, unless its own time exceeds the width.
Entries == {forks[f] : f \in DOMAIN forks} \union {blobs[i] : i \in DOMAIN blobs}
Fits(entry) == timing.genesis + entry.epoch * timing.slots * timing.duration < Modulus

ScheduleIsMonotone ==
  \A e1, e2 \in Entries :
    e1.epoch <= e2.epoch /\ Fits(e2) => timing.genesis <= e1.timestamp /\ e1.timestamp <= e2.timestamp
=============================================================================
