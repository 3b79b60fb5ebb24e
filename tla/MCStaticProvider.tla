-------------------------- MODULE MCStaticProvider --------------------------
(***************************************************************************)
(* The instance of StaticProvider and ForkTimestamps for TLC.  Numbers are *)
(* below 32 and a second has two milliseconds, so that schedules that wrap *)
(* around, durations that round to zero and values out of range are many.  *)
(***************************************************************************)
EXTENDS StaticProvider, TLC

None == [kind |-> "none", n |-> 0]
Number(n) == [kind |-> "number", n |-> n]
Text(n) == [kind |-> "text", n |-> n]

Geneses == {None, Number(5), Text(6), Number(-1), Text(32)}
Rates == {None, Number(0), Number(3), Text(4)}

\* ELECTRA_FORK_EPOCH, electra_FORK_EPOCH and FULU_FORK_EPOCH.
ForkKeys(e1, e2, e3) ==
  (<<"electra", "upper">> :> e1) @@ (<<"electra", "lower">> :> e2) @@ (<<"fulu", "upper">> :> e3)
ForkEpochs == {
  ForkKeys(Number(1), Number(2), Number(3)), ForkKeys(Number(31), Text(1), Text(2)),
  ForkKeys(Text(31), Number(31), Number(32)), ForkKeys(Number(-1), None, Number(30)),
  ForkKeys(Text(32), Number(0), Text(3)), <<>>}

Item(epoch, max) == [epoch |-> epoch, max |-> max]
BlobSchedules == {
  <<>>, <<Item(Number(2), Number(9)), Item(Text(3), Text(9))>>,
  <<Item(Number(31), Number(9)), Item(None, Number(9)), Item(Number(1), None)>>}

AllConfigs ==
  [genesis : Geneses, slots : Rates, duration : Rates, forks : ForkEpochs, blobs : BlobSchedules]

\* A network with the timing of the file, or without what the file does not say,
\* one without a genesis, and a broken one.
Said(value, n) == IF Readable(value) THEN n ELSE 0
Twin(c) ==
  [name |-> "twin", urlParses |-> TRUE, genesis |-> Said(c.genesis, c.genesis.n),
   slots |-> Said(c.slots, c.slots.n), duration |-> Said(c.duration, c.duration.n \div Millis),
   forks |-> ("electra" :> [epoch |-> 1, timestamp |-> 0]) @@ ("fulu" :> [epoch |-> 3, timestamp |-> 7]),
   blobs |-> <<[epoch |-> 2, timestamp |-> 0], [epoch |-> 31, timestamp |-> 0]>>]
Unborn(c) == [Twin(c) EXCEPT !.genesis = 0]
Broken(c) == [Twin(c) EXCEPT !.urlParses = FALSE]

Lists(c) == {<<Unborn(c), Twin(c), Broken(c)>>, <<Twin(c), Unborn(c)>>}
=============================================================================
