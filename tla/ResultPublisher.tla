-------------------------- MODULE ResultPublisher ---------------------------
(***************************************************************************)
(* What the discovery service promises to the readers of the S3 object: a  *)
(* register that only moves forward, from the result of one discovery to   *)
(* the result of a later one that has started, and that never holds an     *)
(* empty inventory, or a network no listed provider reported.              *)
(***************************************************************************)
EXTENDS Integers

CONSTANTS Providers, Keys, NoProvider

VARIABLES
  started,   \* number of discoveries started so far
  object     \* the published result

Result == [run       : Nat,
           networks  : [Keys -> Providers \cup {NoProvider}],
           providers : SUBSET Providers]

Publishable(r) ==
  /\ \E k \in Keys : r.networks[k] # NoProvider
  /\ \A k \in Keys : r.networks[k] \in r.providers \cup {NoProvider}

Init ==
  /\ started = 0
  /\ object = [run       |-> 0,
               networks  |-> [k \in Keys |-> NoProvider],
               providers |-> {}]

StartDiscovery ==
  /\ started' = started + 1
  /\ UNCHANGED object

Publish ==
  /\ object' \in Result
  /\ Publishable(object')
  /\ object.run < object'.run /\ object'.run <= started
  /\ UNCHANGED started

Next == StartDiscovery \/ Publish

Spec == Init /\ [][Next]_<<started, object>>
=============================================================================
