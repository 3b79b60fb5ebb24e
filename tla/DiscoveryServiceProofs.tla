----------------------- MODULE DiscoveryServiceProofs -----------------------
(***************************************************************************)
(* Proofs about DiscoveryService for every set of providers and keys, every*)
(* channel capacity and every bound on the number of runs.                 *)
(***************************************************************************)
EXTENDS DiscoveryService, FiniteSetTheorems, TLAPS

\* What a provider contributes keeps a result a result of the same run.
LEMMA MergeType ==
  ASSUME NEW r \in Result, NEW p \in Providers, NEW a \in Answers
  PROVE  /\ Merge(r, p, a) \in Result
         /\ Merge(r, p, a).run = r.run
  BY DEF Merge, Result, Answers, Failed

LEMMA EmptyResultType ==
  ASSUME NEW n \in Nat
  PROVE  /\ EmptyResult(n) \in Result
         /\ EmptyResult(n).run = n
  BY DEF EmptyResult, Result, NoNetworks

\* Every variable has its type, and resultChan never exceeds its capacity.
THEOREM TypeCorrect == Spec => []TypeOK
<1> USE ServiceAssumption DEF ServiceAssumption
<1>1. Init => TypeOK
  <2>1. EmptyResult(0) \in Result BY EmptyResultType
  <2>2. [p \in Providers |-> Failed] \in [Providers -> Answers] BY DEF Answers
  <2>3. <<>> \in Seq(Result) /\ Len(<<>>) <= ChanCap OBVIOUS
  <2>. QED BY <2>1, <2>2, <2>3 DEF Init, TypeOK
<1>2. TypeOK /\ [Next]_vars => TypeOK'
  <2> SUFFICES ASSUME TypeOK, [Next]_vars
               PROVE  TypeOK'
    OBVIOUS
  <2>. USE DEF TypeOK, discVars, procVars, mainVars, vars
  <2>1. ASSUME StartProviders
        PROVE  /\ found' \in Result /\ running' \in SUBSET Providers
               /\ answer' \in [Providers -> Answers] /\ collected' \in SUBSET Providers
               /\ disc' \in {"send", "collect"}
    BY <2>1, EmptyResultType DEF StartProviders, Result, Answers, Failed
  <2>2. CASE MainNext
    <3>1. CASE Start BY <3>1 DEF Start
    <3>2. CASE OnResult BY <3>2 DEF OnResult
    <3>3. CASE StopOnCancel BY <3>3 DEF StopOnCancel, BeginStop
    <3>4. CASE StopDone BY <3>4 DEF StopDone, Return
    <3>5. CASE StopTimeout BY <3>5 DEF StopTimeout, Return
    <3>6. CASE RunOnce BY <3>6, <2>1 DEF RunOnce
    <3>7. CASE OnceSkipsUpload BY <3>7 DEF OnceSkipsUpload, Return
    <3>8. CASE OnceStartsUpload BY <3>8 DEF OnceStartsUpload
    <3>9. CASE OnceUploadSucceeds BY <3>9 DEF OnceUploadSucceeds, Return
    <3>10. ASSUME NEW stored \in BOOLEAN, OnceUploadFails(stored) PROVE TypeOK'
      BY <3>10 DEF OnceUploadFails, Return
    <3>. QED
      BY <2>2, <3>1, <3>2, <3>3, <3>4, <3>5, <3>6, <3>7, <3>8, <3>9, <3>10 DEF MainNext
  <2>3. CASE LoopNext
    <3>1. CASE RunDiscovery BY <3>1, <2>1 DEF RunDiscovery
    <3>2. CASE DiscoverClients BY <3>2 DEF DiscoverClients
    <3>3. CASE CollectCancelled BY <3>3 DEF CollectCancelled
    <3>4. ASSUME NEW p \in Providers, Collect(p) PROVE TypeOK'
      <4>1. answer[p] \in Answers OBVIOUS
      <4>2. found' \in Result BY <3>4, <4>1, MergeType DEF Collect
      <4>. QED BY <3>4, <4>2 DEF Collect
    <3>5. CASE SendResult BY <3>5 DEF SendResult
    <3>6. CASE DiscardResult BY <3>6 DEF DiscardResult
    <3>7. CASE TakeTick BY <3>7 DEF TakeTick
    <3>. QED BY <2>3, <3>1, <3>2, <3>3, <3>4, <3>5, <3>6, <3>7 DEF LoopNext
  <2>4. CASE ProcNext
    <3>1. CASE ReceiveResult BY <3>1 DEF ReceiveResult
    <3>2. CASE RunHandlers BY <3>2 DEF RunHandlers
    <3>3. ASSUME NEW stored \in BOOLEAN, UploadReturns(stored) PROVE TypeOK'
      BY <3>3 DEF UploadReturns
    <3>. QED BY <2>4, <3>1, <3>2, <3>3 DEF ProcNext
  <2>5. ASSUME NEW p \in Providers, ProviderNext(p) PROVE TypeOK'
    BY <2>5 DEF ProviderNext, ProviderAnswers
  <2>6. CASE LoopExits BY <2>6 DEF LoopExits
  <2>7. CASE ProcessorExits BY <2>7 DEF ProcessorExits
  <2>8. CASE TickerFires BY <2>8 DEF TickerFires
  <2>9. CASE StopOnSignal BY <2>9 DEF StopOnSignal, BeginStop
  <2>10. CASE CancelContext BY <2>10 DEF CancelContext
  <2>11. CASE Returned BY <2>11 DEF Returned
  <2>12. CASE UNCHANGED vars BY <2>12
  <2>. QED
    BY <2>2, <2>3, <2>4, <2>5, <2>6, <2>7, <2>8, <2>9, <2>10, <2>11, <2>12 DEF Next
<1>3. QED BY <1>1, <1>2, PTL DEF Spec

-----------------------------------------------------------------------------
(* The merge: what was collected so far is merged exactly.                 *)

MergeInv ==
  /\ collected \cap running = {}
  /\ disc \in {"collect", "clients", "send"} => MergedFrom(collected)
  /\ disc \in {"clients", "send"} => collected = Providers

-----------------------------------------------------------------------------
(* The publisher: results are ordered by run on their way to the object.   *)

Attributed(r) == \A k \in Keys : r.networks[k] \in r.providers \cup {NoProvider}

\* No result that was sent has a higher run number than this.
LastSent == IF disc \in {"collect", "clients", "send"} THEN found.run - 1 ELSE found.run

PathInv ==
  /\ Attributed(found) /\ Attributed(current)
  /\ object.run <= found.run /\ current.run <= found.run
  /\ mode = "service" => object.run <= LastSent
  /\ \A i \in 1..Len(resultChan) :
       /\ Attributed(resultChan[i])
       /\ object.run < resultChan[i].run /\ resultChan[i].run <= LastSent
       /\ \A j \in 1..Len(resultChan) : i < j => resultChan[i].run < resultChan[j].run
  /\ proc \in {"locking", "handling"} =>
       /\ object.run < current.run /\ current.run <= LastSent
       /\ \A i \in 1..Len(resultChan) : current.run < resultChan[i].run
  /\ proc = "handling" => ~IsEmpty(current)

\* runOnce works on its own: no goroutine of the service, nothing published
\* before its upload.
OnceInv ==
  /\ mode = "once" => proc = "off" /\ resultChan = <<>> /\ disc \notin {"begin", "exited"}
  /\ main \in {"once", "uploading"} => mode = "once"
  /\ main \in {"started", "serving", "stopping"} => mode = "service"
  /\ main = "init" => proc = "off" /\ disc = "off" /\ resultChan = <<>>
  /\ main = "once" => disc \in {"collect", "clients", "send"}
  /\ mode = "once" /\ main \in {"init", "once", "uploading"} => object.run = 0
  /\ main = "once" => found.run > 0
  /\ main = "uploading" =>
       disc = "send" /\ current = found /\ ~IsEmpty(current) /\ current.run > 0
  /\ exit # "none" <=> main = "returned"

-----------------------------------------------------------------------------
(* The actions, grouped by the part of the state they can disturb.         *)

\* A step either is one of the eight that change the run, its answers or the
\* place in the discovery loop, or leaves all of these alone.
LEMMA DiscoverySteps ==
  ASSUME [Next]_vars
  PROVE  \/ RunDiscovery \/ RunOnce \/ DiscoverClients \/ CollectCancelled
         \/ \E p \in Providers : Collect(p)
         \/ \E p \in Providers, a \in Answers : ProviderAnswers(p, a)
         \/ SendResult \/ DiscardResult \/ TakeTick \/ LoopExits \/ Start
         \/ UNCHANGED discVars
<1>. USE DEF vars, discVars
<1>1. CASE MainNext
  BY <1>1 DEF MainNext, OnResult, StopOnCancel, BeginStop, StopDone, StopTimeout, Return,
     OnceSkipsUpload, OnceStartsUpload, OnceUploadSucceeds, OnceUploadFails
<1>2. CASE LoopNext BY <1>2 DEF LoopNext
<1>3. CASE ProcNext BY <1>3 DEF ProcNext, ReceiveResult, RunHandlers, UploadReturns
<1>4. CASE \E p \in Providers : ProviderNext(p) BY <1>4 DEF ProviderNext
<1>5. CASE ProcessorExits \/ TickerFires \/ StopOnSignal \/ CancelContext \/ Returned
  BY <1>5 DEF ProcessorExits, TickerFires, StopOnSignal, BeginStop, CancelContext, Returned
<1>. QED BY <1>1, <1>2, <1>3, <1>4, <1>5 DEF Next

LEMMA MergeInvStep ==
  ASSUME TypeOK, MergeInv, [Next]_vars
  PROVE  MergeInv'
<1>. USE DEF MergeInv, MergedFrom, Succeeded
<1>1. ASSUME StartProviders PROVE MergeInv'
  BY <1>1 DEF StartProviders, EmptyResult, NoNetworks, Failed
<1>2. ASSUME NEW p \in Providers, Collect(p) PROVE MergeInv'
  <2>1. /\ disc = "collect" /\ p \notin running /\ p \notin collected
        /\ found' = Merge(found, p, answer[p]) /\ collected' = collected \cup {p}
        /\ running' = running /\ answer' = answer
        /\ disc' = "clients" => collected' = Providers
        /\ disc' \in {"clients", "collect"}
    BY <1>2 DEF Collect, Answered, discVars
  <2>2. CASE ~answer[p].ok
    BY <2>1, <2>2 DEF Merge, TypeOK
  <2>3. CASE answer[p].ok
    <3>1. found'.providers = found.providers \cup {p}
      BY <2>1, <2>3 DEF Merge, TypeOK, Result
    <3>2. \A k \in Keys : found'.networks[k] =
              IF k \in answer[p].keys THEN p ELSE found.networks[k]
      BY <2>1, <2>3 DEF Merge, TypeOK, Result
    <3>3. found'.providers = collected' \cap Succeeded'
      BY <2>1, <2>3, <3>1
    <3>4. ASSUME NEW k \in Keys
          PROVE  LET sources == {q \in collected' \cap Succeeded' : k \in answer'[q].keys}
                 IN  IF sources = {} THEN found'.networks[k] = NoProvider
                                     ELSE found'.networks[k] \in sources
      BY <2>1, <2>3, <3>2
    <3>. QED BY <2>1, <3>3, <3>4
  <2>. QED BY <2>2, <2>3
<1>3. ASSUME NEW p \in Providers, NEW a \in Answers, ProviderAnswers(p, a) PROVE MergeInv'
  <2>1. /\ p \in running /\ p \notin collected /\ running' = running \ {p}
        /\ answer' = [answer EXCEPT ![p] = a]
        /\ UNCHANGED <<disc, found, collected>>
    BY <1>3 DEF ProviderAnswers
  <2>2. \A q \in collected : q \in Providers /\ answer'[q] = answer[q]
    BY <2>1 DEF TypeOK
  <2>3. collected \cap Succeeded' = collected \cap Succeeded
    BY <2>1, <2>2
  <2>4. MergedFrom(collected) => MergedFrom(collected)'
    BY <2>1, <2>2, <2>3
  <2>. QED BY <2>1, <2>4
<1>4. CASE DiscoverClients BY <1>4 DEF DiscoverClients
<1>5. CASE CollectCancelled BY <1>5 DEF CollectCancelled
<1>6. CASE SendResult \/ DiscardResult \/ TakeTick \/ LoopExits
  BY <1>6 DEF SendResult, DiscardResult, TakeTick, LoopExits
<1>7. CASE Start BY <1>7 DEF Start
<1>8. CASE UNCHANGED discVars BY <1>8 DEF discVars
<1>. QED
  BY DiscoverySteps, <1>1, <1>2, <1>3, <1>4, <1>5, <1>6, <1>7, <1>8 DEF RunDiscovery, RunOnce

\* Whatever the order in which the providers answer, a finished discovery has
\* merged exactly the networks of those that succeeded.
THEOREM MergeIsExact == Spec => []MergeExact
<1>1. Init => MergeInv
  BY DEF Init, MergeInv
<1>2. TypeOK /\ MergeInv /\ [Next]_vars => MergeInv'
  BY MergeInvStep
<1>3. MergeInv => MergeExact
  BY DEF MergeInv, MergeExact
<1>. QED BY <1>1, <1>2, <1>3, TypeCorrect, PTL DEF Spec

-----------------------------------------------------------------------------
(* The ways a command returns.                                             *)

\* Each mode keeps to its own part of the state, and a command that returned has a status.
LEMMA OnceInvStep ==
  ASSUME TypeOK, OnceInv, [Next]_vars
  PROVE  OnceInv'
<1>. USE DEF OnceInv, TypeOK, vars, mainVars, discVars, procVars, Alive
<1>1. CASE MainNext
  <2>1. CASE Start BY <2>1 DEF Start
  <2>2. CASE OnResult BY <2>2 DEF OnResult
  <2>3. CASE StopOnCancel BY <2>3 DEF StopOnCancel, BeginStop
  <2>4. CASE StopDone BY <2>4 DEF StopDone, Return
  <2>5. CASE StopTimeout BY <2>5 DEF StopTimeout, Return
  <2>6. CASE RunOnce
    <3>1. found'.run = found.run + 1 /\ found.run \in Nat /\ disc' \in {"collect", "send"}
      BY <2>6, EmptyResultType DEF RunOnce, StartProviders, Result
    <3>. QED BY <2>6, <3>1 DEF RunOnce
  <2>7. CASE OnceSkipsUpload BY <2>7 DEF OnceSkipsUpload, Return
  <2>8. CASE OnceStartsUpload BY <2>8 DEF OnceStartsUpload, ShouldUpload
  <2>9. CASE OnceUploadSucceeds BY <2>9 DEF OnceUploadSucceeds, Return
  <2>10. ASSUME NEW stored \in BOOLEAN, OnceUploadFails(stored) PROVE OnceInv'
    BY <2>10 DEF OnceUploadFails, Return
  <2>. QED
    BY <1>1, <2>1, <2>2, <2>3, <2>4, <2>5, <2>6, <2>7, <2>8, <2>9, <2>10 DEF MainNext
<1>2. CASE LoopNext
  <2>1. CASE RunDiscovery
    <3>1. mode = "service" /\ main \in {"started", "serving", "stopping"}
      BY <2>1 DEF RunDiscovery
    <3>. QED BY <2>1, <3>1 DEF RunDiscovery
  <2>2. CASE DiscoverClients BY <2>2 DEF DiscoverClients
  <2>3. CASE CollectCancelled BY <2>3 DEF CollectCancelled
  <2>4. ASSUME NEW p \in Providers, Collect(p) PROVE OnceInv'
    <3>1. found'.run = found.run
      BY <2>4, MergeType DEF Collect
    <3>. QED BY <2>4, <3>1 DEF Collect
  <2>5. CASE SendResult BY <2>5 DEF SendResult
  <2>6. CASE DiscardResult BY <2>6 DEF DiscardResult
  <2>7. CASE TakeTick BY <2>7 DEF TakeTick
  <2>. QED BY <1>2, <2>1, <2>2, <2>3, <2>4, <2>5, <2>6, <2>7 DEF LoopNext
<1>3. CASE ProcNext
  <2>1. CASE ReceiveResult BY <2>1 DEF ReceiveResult
  <2>2. CASE RunHandlers BY <2>2 DEF RunHandlers
  <2>3. ASSUME NEW stored \in BOOLEAN, UploadReturns(stored) PROVE OnceInv'
    BY <2>3 DEF UploadReturns
  <2>. QED BY <1>3, <2>1, <2>2, <2>3 DEF ProcNext
<1>4. ASSUME NEW p \in Providers, ProviderNext(p) PROVE OnceInv'
  BY <1>4 DEF ProviderNext, ProviderAnswers
<1>5. CASE LoopExits BY <1>5 DEF LoopExits
<1>6. CASE ProcessorExits BY <1>6 DEF ProcessorExits
<1>7. CASE TickerFires BY <1>7 DEF TickerFires
<1>8. CASE StopOnSignal BY <1>8 DEF StopOnSignal, BeginStop
<1>9. CASE CancelContext BY <1>9 DEF CancelContext
<1>10. CASE Returned BY <1>10 DEF Returned
<1>11. CASE UNCHANGED vars BY <1>11
<1>. QED
  BY <1>1, <1>2, <1>3, <1>4, <1>5, <1>6, <1>7, <1>8, <1>9, <1>10, <1>11 DEF Next

-----------------------------------------------------------------------------
(* The path of a result to the object.                                     *)

\* Merging an answer keeps every network attributed to a listed provider.
LEMMA MergeAttributed ==
  ASSUME NEW r \in Result, NEW p \in Providers, NEW a \in Answers, Attributed(r)
  PROVE  Attributed(Merge(r, p, a))
  BY DEF Merge, Result, Attributed

LEMMA PathInvStep ==
  ASSUME TypeOK, OnceInv, PathInv, [Next]_vars
  PROVE  PathInv'
<1>. USE DEF PathInv, LastSent, TypeOK, vars, mainVars, discVars, procVars
<1>. /\ found.run \in Nat /\ object.run \in Nat /\ current.run \in Nat
  BY DEF Result
<1>. \A i \in 1..Len(resultChan) : resultChan[i] \in Result /\ resultChan[i].run \in Nat
  <2>. TAKE i \in 1..Len(resultChan)
  <2>1. resultChan[i] \in Result OBVIOUS
  <2>. QED BY <2>1 DEF Result
<1>1. ASSUME StartProviders, UNCHANGED <<resultChan, proc, current, object>>,
             disc \in {"off", "begin"}
      PROVE  PathInv'
  <2>1. found' = EmptyResult(found.run + 1) /\ found'.run = found.run + 1
        /\ disc' \in {"collect", "send"}
    BY <1>1, EmptyResultType DEF StartProviders
  <2>2. Attributed(found')
    BY <2>1 DEF Attributed, EmptyResult, NoNetworks
  <2>3. LastSent' = LastSent
    BY <1>1, <2>1
  <2>. QED BY <1>1, <2>1, <2>2, <2>3 DEF Attributed
<1>2. CASE RunDiscovery BY <1>1, <1>2 DEF RunDiscovery
<1>3. CASE RunOnce BY <1>1, <1>3 DEF RunOnce, OnceInv
<1>4. ASSUME NEW p \in Providers, Collect(p) PROVE PathInv'
  <2>1. found'.run = found.run /\ Attributed(found')
    BY <1>4, MergeType, MergeAttributed DEF Collect
  <2>2. LastSent' = LastSent
    BY <1>4, <2>1 DEF Collect
  <2>. QED BY <1>4, <2>1, <2>2 DEF Collect, Attributed
<1>5. CASE DiscoverClients BY <1>5 DEF DiscoverClients, Attributed
<1>6. CASE CollectCancelled BY <1>6 DEF CollectCancelled, Attributed
<1>7. CASE SendResult
  <2>1. /\ resultChan' = Append(resultChan, found) /\ disc = "send" /\ disc' = "wait"
        /\ UNCHANGED <<found, proc, current, object>>
    BY <1>7 DEF SendResult
  <2>2. /\ Len(resultChan') = Len(resultChan) + 1
        /\ \A i \in 1..Len(resultChan) : resultChan'[i] = resultChan[i]
        /\ resultChan'[Len(resultChan) + 1] = found
    BY <2>1
  <2>3. \A i \in 1..Len(resultChan') : i \in 1..Len(resultChan) \/ i = Len(resultChan) + 1
    BY <2>2
  <2>4. LastSent = found.run - 1 /\ LastSent' = found.run
    BY <2>1
  <2>5. object.run < found.run
    BY <1>7, <2>4 DEF SendResult
  <2>. QED BY <2>1, <2>2, <2>3, <2>4, <2>5 DEF Attributed
<1>8. CASE DiscardResult BY <1>8 DEF DiscardResult, Attributed
<1>9. CASE TakeTick BY <1>9 DEF TakeTick, Attributed
<1>10. CASE LoopExits BY <1>10 DEF LoopExits, Attributed
<1>11. CASE Start BY <1>11 DEF Start, OnceInv, Attributed
<1>12. CASE UNCHANGED <<mode, discVars>> /\ ProcNext
  <2>1. CASE ReceiveResult
    <3>1. /\ resultChan # <<>> /\ current' = resultChan[1] /\ resultChan' = Tail(resultChan)
          /\ UNCHANGED <<found, object, LastSent, mode>>
      BY <1>12, <2>1 DEF ReceiveResult
    <3>2. /\ Len(resultChan') = Len(resultChan) - 1 /\ 1 \in 1..Len(resultChan)
          /\ \A i \in 1..Len(resultChan') :
               i + 1 \in 1..Len(resultChan) /\ resultChan'[i] = resultChan[i + 1]
      BY <3>1
    <3>3. proc' = "locking" /\ proc = "idle" BY <2>1 DEF ReceiveResult
    <3>4. /\ Attributed(current') /\ object.run < current'.run /\ current'.run <= LastSent
          /\ current'.run <= found.run
      <4>1. /\ Attributed(resultChan[1]) /\ object.run < resultChan[1].run
            /\ resultChan[1].run <= LastSent /\ resultChan[1].run \in Nat
        BY <3>2
      <4>2. LastSent <= found.run OBVIOUS
      <4>3. resultChan[1].run <= found.run BY <4>1, <4>2
      <4>. QED BY <3>1, <4>1, <4>3
    <3>5. \A i \in 1..Len(resultChan') :
            /\ Attributed(resultChan'[i])
            /\ object.run < resultChan'[i].run /\ resultChan'[i].run <= LastSent
            /\ current'.run < resultChan'[i].run
            /\ \A j \in 1..Len(resultChan') : i < j => resultChan'[i].run < resultChan'[j].run
      <4>. TAKE i \in 1..Len(resultChan')
      <4>1. i + 1 \in 1..Len(resultChan) /\ resultChan'[i] = resultChan[i + 1] BY <3>2
      <4>2. /\ Attributed(resultChan[i + 1])
            /\ object.run < resultChan[i + 1].run /\ resultChan[i + 1].run <= LastSent
            /\ resultChan[1].run < resultChan[i + 1].run
        BY <3>2, <4>1
      <4>3. ASSUME NEW j \in 1..Len(resultChan'), i < j
            PROVE  resultChan'[i].run < resultChan'[j].run
        <5>1. j + 1 \in 1..Len(resultChan) /\ resultChan'[j] = resultChan[j + 1] /\ i + 1 < j + 1
          BY <3>2, <4>3
        <5>. QED BY <4>1, <5>1
      <4>. QED BY <3>1, <4>1, <4>2, <4>3
    <3>. QED BY <3>1, <3>3, <3>4, <3>5 DEF Attributed
  <2>2. CASE RunHandlers BY <1>12, <2>2 DEF RunHandlers, ShouldUpload, IsEmpty, Attributed
  <2>3. ASSUME NEW stored \in BOOLEAN, UploadReturns(stored) PROVE PathInv'
    BY <1>12, <2>3 DEF UploadReturns, Attributed
  <2>. QED BY <1>12, <2>1, <2>2, <2>3 DEF ProcNext
<1>13. CASE OnceStartsUpload BY <1>13 DEF OnceStartsUpload, OnceInv, Attributed
<1>14. CASE OnceUploadSucceeds \/ \E stored \in BOOLEAN : OnceUploadFails(stored)
  BY <1>14 DEF OnceUploadSucceeds, OnceUploadFails, Return, OnceInv, Attributed
<1>15. ASSUME NEW p \in Providers, NEW a \in Answers, ProviderAnswers(p, a) PROVE PathInv'
  BY <1>15 DEF ProviderAnswers, Attributed
<1>16. CASE /\ UNCHANGED <<mode, discVars, resultChan, current, object>>
            /\ proc' = proc \/ ProcessorExits
  BY <1>16 DEF ProcessorExits, Attributed, IsEmpty
<1>. QED
  <2>1. CASE MainNext
    BY <2>1, <1>3, <1>11, <1>13, <1>14, <1>16
    DEF MainNext, OnResult, StopOnCancel, BeginStop, StopDone, StopTimeout, Return, OnceSkipsUpload
  <2>2. CASE LoopNext BY <2>2, <1>2, <1>4, <1>5, <1>6, <1>7, <1>8, <1>9 DEF LoopNext
  <2>3. CASE ProcNext
    BY <2>3, <1>12 DEF ProcNext, ReceiveResult, RunHandlers, UploadReturns
  <2>4. CASE \E p \in Providers : ProviderNext(p) BY <2>4, <1>15 DEF ProviderNext
  <2>5. CASE ProcessorExits \/ TickerFires \/ StopOnSignal \/ CancelContext \/ Returned
    BY <2>5, <1>16
    DEF ProcessorExits, TickerFires, StopOnSignal, BeginStop, CancelContext, Returned
  <2>. QED BY <2>1, <2>2, <2>3, <2>4, <2>5, <1>10, <1>16 DEF Next

IInv == TypeOK /\ OnceInv /\ PathInv

\* The inductive invariant that the publisher theorem rests on.
THEOREM InductiveInvariant == Spec => []IInv
<1>1. Init => OnceInv /\ PathInv
  <2>1. EmptyResult(0).run = 0 BY EmptyResultType
  <2>2. Attributed(EmptyResult(0)) BY DEF Attributed, EmptyResult, NoNetworks
  <2>. QED BY <2>1, <2>2 DEF Init, OnceInv, PathInv, LastSent
<1>2. TypeOK /\ OnceInv /\ PathInv /\ [Next]_vars => OnceInv' /\ PathInv'
  BY OnceInvStep, PathInvStep
<1>. QED BY <1>1, <1>2, TypeCorrect, PTL DEF Spec, IInv

-----------------------------------------------------------------------------
(* The service implements the abstract publisher.                          *)

\* An upload replaces the object by a later, non-empty, attributed result.
LEMMA UploadPublishes ==
  ASSUME IInv, object' \in {current, object}, UNCHANGED found,
         proc = "handling" \/ main = "uploading"
  PROVE  [Publisher!Next]_<<found.run, object>>
<1>1. CASE object' = object BY <1>1
<1>2. CASE object' = current
  <2>1. object.run < current.run /\ current.run <= found.run
    BY DEF IInv, PathInv, OnceInv
  <2>2. Publisher!Publishable(current)
    <3>1. current.networks # NoNetworks /\ Attributed(current)
      BY DEF IInv, PathInv, OnceInv, IsEmpty
    <3>2. current.networks \in [Keys -> Providers \cup {NoProvider}]
      BY DEF IInv, TypeOK, Result
    <3>. QED BY <3>1, <3>2 DEF Publisher!Publishable, Attributed, NoNetworks
  <2>3. object' \in Publisher!Result
    BY <1>2 DEF IInv, TypeOK, Publisher!Result, Result
  <2>. QED BY <1>2, <2>1, <2>2, <2>3 DEF Publisher!Next, Publisher!Publish
<1>. QED BY <1>1, <1>2

\* The S3 object only moves forward, to non-empty results of started runs.
THEOREM ImplementsPublisher == Spec => PublisherSpec
<1>1. Init => Publisher!Init
  BY EmptyResultType DEF Init, Publisher!Init, EmptyResult, NoNetworks
<1>2. IInv /\ [Next]_vars => [Publisher!Next]_<<found.run, object>>
  <2> SUFFICES ASSUME IInv, [Next]_vars PROVE [Publisher!Next]_<<found.run, object>>
    OBVIOUS
  <2>. USE DEF vars, mainVars, discVars, procVars
  <2>1. ASSUME StartProviders, UNCHANGED object
        PROVE  [Publisher!Next]_<<found.run, object>>
    BY <2>1, EmptyResultType
    DEF StartProviders, Publisher!Next, Publisher!StartDiscovery, IInv, TypeOK, Result
  <2>2. ASSUME NEW p \in Providers, Collect(p) PROVE UNCHANGED <<found.run, object>>
    BY <2>2, MergeType DEF Collect, IInv, TypeOK
  <2>3. CASE \E stored \in BOOLEAN : UploadReturns(stored)
    BY <2>3, UploadPublishes DEF UploadReturns
  <2>4. CASE OnceUploadSucceeds \/ \E stored \in BOOLEAN : OnceUploadFails(stored)
    BY <2>4, UploadPublishes DEF OnceUploadSucceeds, OnceUploadFails, Return
  <2>5. CASE MainNext
    BY <2>5, <2>1, <2>4
    DEF MainNext, Start, OnResult, StopOnCancel, BeginStop, StopDone, StopTimeout, Return,
        RunOnce, OnceSkipsUpload, OnceStartsUpload
  <2>6. CASE LoopNext
    BY <2>6, <2>1, <2>2
    DEF LoopNext, RunDiscovery, DiscoverClients, CollectCancelled, SendResult, DiscardResult,
        TakeTick
  <2>7. CASE ProcNext BY <2>7, <2>3 DEF ProcNext, ReceiveResult, RunHandlers
  <2>8. CASE \/ LoopExits \/ ProcessorExits \/ TickerFires \/ StopOnSignal
             \/ CancelContext \/ Returned \/ UNCHANGED vars
    BY <2>8
    DEF LoopExits, ProcessorExits, TickerFires, StopOnSignal, BeginStop, CancelContext, Returned
  <2>9. CASE \E p \in Providers : ProviderNext(p) BY <2>9 DEF ProviderNext, ProviderAnswers
  <2>. QED BY <2>5, <2>6, <2>7, <2>8, <2>9 DEF Next
<1>. QED BY <1>1, <1>2, InductiveInvariant, PTL DEF Spec, PublisherSpec, Publisher!Spec

-----------------------------------------------------------------------------
(* What the exit of a command means.                                       *)

\* Nothing happens after the command returned: the process is over.
LEMMA ReturnedIsFinal ==
  ASSUME [Next]_vars, main = "returned"
  PROVE  UNCHANGED vars
<1>. USE DEF Alive
<1>1. CASE MainNext
  BY <1>1 DEF MainNext, Start, OnResult, StopOnCancel, BeginStop, StopDone, StopTimeout, RunOnce,
     OnceSkipsUpload, OnceStartsUpload, OnceUploadSucceeds, OnceUploadFails
<1>2. CASE LoopNext
  BY <1>2 DEF LoopNext, RunDiscovery, DiscoverClients, CollectCancelled, Collect, SendResult,
     DiscardResult, TakeTick
<1>3. CASE ProcNext BY <1>3 DEF ProcNext, ReceiveResult, RunHandlers, UploadReturns
<1>4. CASE \/ LoopExits \/ ProcessorExits \/ TickerFires \/ StopOnSignal \/ CancelContext
           \/ \E p \in Providers : ProviderNext(p)
  BY <1>4 DEF LoopExits, ProcessorExits, TickerFires, StopOnSignal, BeginStop, CancelContext,
     ProviderNext, ProviderAnswers
<1>. QED BY <1>1, <1>2, <1>3, <1>4 DEF Next, Returned

\* Only these steps end the command, each with the status it reports.
LEMMA ExitSteps ==
  ASSUME [Next]_vars, main # "returned", exit # "clean"
  PROVE  \/ StopDone \/ OnceSkipsUpload \/ OnceUploadSucceeds
         \/ exit' # "clean"
<1>. USE DEF vars, mainVars
<1>1. CASE MainNext
  BY <1>1 DEF MainNext, Start, OnResult, StopOnCancel, BeginStop, StopTimeout, Return, RunOnce,
     OnceStartsUpload, OnceUploadFails
<1>2. CASE LoopNext
  BY <1>2 DEF LoopNext, RunDiscovery, DiscoverClients, CollectCancelled, Collect, SendResult,
     DiscardResult, TakeTick
<1>3. CASE ProcNext BY <1>3 DEF ProcNext, ReceiveResult, RunHandlers, UploadReturns
<1>4. CASE \/ LoopExits \/ ProcessorExits \/ TickerFires \/ StopOnSignal \/ CancelContext
           \/ \E p \in Providers : ProviderNext(p)
  BY <1>4 DEF LoopExits, ProcessorExits, TickerFires, StopOnSignal, BeginStop, CancelContext,
     ProviderNext, ProviderAnswers
<1>. QED BY <1>1, <1>2, <1>3, <1>4 DEF Next, Returned

\* A run --once that reports success has published its result or had none.
THEOREM OnceIsHonest == Spec => []OnceReportsFailure
<1>. USE DEF OnceReportsFailure
<1>1. Init => OnceReportsFailure
  BY DEF Init
<1>2. IInv /\ OnceReportsFailure /\ [Next]_vars => OnceReportsFailure'
  <2> SUFFICES ASSUME IInv, OnceReportsFailure, [Next]_vars PROVE OnceReportsFailure'
    OBVIOUS
  <2>1. CASE main = "returned"
    BY <2>1, ReturnedIsFinal DEF vars, mainVars, discVars, procVars, IsEmpty
  <2>2. CASE main # "returned"
    <3>1. exit # "clean" BY <2>2 DEF IInv, OnceInv
    <3>2. CASE StopDone
      BY <3>2 DEF StopDone, WaitGroupDone, Return, IInv, OnceInv, discVars, procVars
    <3>3. CASE OnceSkipsUpload
      BY <3>3 DEF OnceSkipsUpload, ShouldUpload, IsEmpty, Return, IInv, OnceInv, discVars
    <3>4. CASE OnceUploadSucceeds
      BY <3>4 DEF OnceUploadSucceeds, Return, IInv, OnceInv, discVars
    <3>. QED BY <2>2, <3>1, <3>2, <3>3, <3>4, ExitSteps
  <2>. QED BY <2>1, <2>2
<1>. QED BY <1>1, <1>2, InductiveInvariant, PTL DEF Spec

\* No provider goroutine is ever stuck on its answer, however many there are:
\* one that has not answered leaves a slot of resultCh free.
THEOREM SendersDoNotBlock == Spec => []SendersNeverBlock
<1>1. TypeOK => SendersNeverBlock
  <2> SUFFICES ASSUME TypeOK, running # {}
               PROVE  Cardinality(Answered \ collected) < Cardinality(Providers)
    BY DEF SendersNeverBlock, ResultChCap
  <2>1. PICK p \in running : TRUE OBVIOUS
  <2>2. p \in Providers BY DEF TypeOK
  <2>3. IsFiniteSet(Providers) BY ServiceAssumption DEF ServiceAssumption
  <2>4. /\ IsFiniteSet(Providers \ {p})
        /\ Cardinality(Providers \ {p}) = Cardinality(Providers) - 1
    BY <2>2, <2>3, FS_RemoveElement
  <2>5. Answered \ collected \subseteq Providers \ {p} BY <2>1 DEF Answered
  <2>6. Cardinality(Answered \ collected) <= Cardinality(Providers \ {p})
        /\ IsFiniteSet(Answered \ collected)
    BY <2>4, <2>5, FS_Subset
  <2>7. /\ Cardinality(Providers) \in Nat
        /\ Cardinality(Answered \ collected) \in Nat
    BY <2>3, <2>6, FS_CardinalityType
  <2>. QED BY <2>4, <2>6, <2>7
<1>. QED BY <1>1, TypeCorrect, PTL
=============================================================================
