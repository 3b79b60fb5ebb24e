---------------------------- MODULE SnapshotCache ----------------------------
(***************************************************************************)
(* What a client.Provider promises to a consumer that re-reads the data    *)
(* when it is notified: the data only gets newer, and whenever the view of *)
(* the consumer is older than the data, a notification is on its way.      *)
(* Notifications are conflated: several updates may cost only one.         *)
(***************************************************************************)
EXTENDS Integers

VARIABLES
  data,       \* version of the cached data, 0 before the first load
  notified,   \* a notification is on its way, being acted upon, or was refused
  view        \* the version that the consumer saw last

vars == <<data, notified, view>>

Init ==
  /\ data = 0
  /\ notified = FALSE
  /\ view = 0

Update ==
  /\ data' \in Int /\ data' >= data
  /\ notified' = TRUE
  /\ UNCHANGED view

\* Another notification may have arrived while the consumer was reading.
Read ==
  /\ notified
  /\ view' = data
  /\ notified' \in BOOLEAN
  /\ UNCHANGED data

Next == Update \/ Read

Spec == Init /\ [][Next]_vars
=============================================================================
