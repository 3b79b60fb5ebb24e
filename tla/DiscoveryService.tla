-------------------------- MODULE DiscoveryService --------------------------
(***************************************************************************)
(* The discovery service (pkg/discovery/service.go) and the command that   *)
(* runs it (cmd/cartographoor/cmd/run.go).                                 *)
(*                                                                         *)
(* Three goroutines share a Service: the command (main), the discovery     *)
(* loop (disc) and the result processor (proc).  Every discovery run       *)
(* starts one more goroutine per provider.  The loop sends the result of   *)
(* a run to a bounded channel, the processor takes it and calls the        *)
(* registered handler, which uploads it over the one S3 object.            *)
(*                                                                         *)
(* A network is abstracted to its key and to the provider it came from; a  *)
(* result to the number of its run, its networks and its provider list.    *)
(***************************************************************************)
EXTENDS Integers, Sequences, FiniteSets

CONSTANTS
  Providers,    \* the registered providers
  Keys,         \* the network keys a provider can report
  NoProvider,   \* marks a key that no provider reported
  ChanCap,      \* capacity of resultChan (10 in the code)
  MaxRuns       \* bound: the ticker fires for at most this many runs

ASSUME ServiceAssumption ==
  /\ IsFiniteSet(Providers)
  /\ NoProvider \notin Providers
  /\ ChanCap \in Nat \ {0}
  /\ MaxRuns \in Nat \ {0}

\* What Discover returns: networks, or an error (and no networks).
Failed == [ok |-> FALSE, keys |-> {}]
Answers == [ok : {TRUE}, keys : SUBSET Keys] \cup {Failed}

Result == [run       : Nat,
           networks  : [Keys -> Providers \cup {NoProvider}],
           providers : SUBSET Providers]

NoNetworks == [k \in Keys |-> NoProvider]
EmptyResult(n) == [run |-> n, networks |-> NoNetworks, providers |-> {}]
IsEmpty(r) == r.networks = NoNetworks

\* The handler of run.go and runOnce skip the upload of an empty result.
Mut_UploadAlways(r) == TRUE
ShouldUpload(r) == ~IsEmpty(r)

VARIABLES
  mode,        \* "service" or "once", the --once flag
  main,        \* where runService or runOnce is
  exit,        \* how it returned
  ctxDone,     \* the context of the command is cancelled or timed out
  registered,  \* the upload handler is in resultFuncs
  tick,        \* the ticker: "off", "idle", "fired" (one tick buffered)
  disc,        \* where the discovery loop is
  found,       \* the result that executeDiscovery is building
  running,     \* providers of the run whose goroutine has not answered
  answer,      \* what the other provider goroutines returned
  collected,   \* providers whose answer was taken off resultCh
  resultChan,  \* the channel from the loop to the processor
  proc,        \* where the result processor is
  current,     \* the result the processor, or runOnce, is handling
  object       \* the S3 object; run 0 as long as nothing was uploaded

discVars == <<disc, found, running, answer, collected>>
procVars == <<proc, current>>
mainVars == <<mode, main, exit, registered>>
vars == <<mainVars, ctxDone, tick, discVars, resultChan, procVars, object>>

Alive == main # "returned"       \* the process ends with the command

\* The mutex is held across steps only while the processor runs a handler:
\* every other critical section is one step that needs the mutex free.
Mut_LockBeforeSelect == proc \notin {"handling", "idle"}
MutexFree == proc # "handling"

Init ==
  /\ mode \in {"service", "once"}
  /\ main = "init"
  /\ exit = "none"
  /\ ctxDone = FALSE
  /\ registered = FALSE
  /\ tick = "off"
  /\ disc = "off"
  /\ found = EmptyResult(0)
  /\ running = {}
  /\ answer = [p \in Providers |-> Failed]
  /\ collected = Providers
  /\ resultChan = <<>>
  /\ proc = "off"
  /\ current = EmptyResult(0)
  /\ object = EmptyResult(0)

-----------------------------------------------------------------------------
(* The command.                                                            *)

\* Service.Start: the goroutines run before the handler is registered.
Start ==
  /\ main = "init" /\ mode = "service"
  /\ main' = "started"
  /\ proc' = "idle"
  /\ disc' = "begin"
  /\ tick' = "idle"
  /\ UNCHANGED <<mode, exit, registered, ctxDone, found, running, answer, collected,
                 resultChan, current, object>>

\* Service.OnResult, then signal.Notify.
OnResult ==
  /\ main = "started" /\ MutexFree
  /\ registered' = TRUE
  /\ main' = "serving"
  /\ UNCHANGED <<mode, exit, ctxDone, tick, discVars, resultChan, procVars, object>>

\* The first lines of Service.Stop: the ticker is stopped, the context is not
\* cancelled.
BeginStop ==
  /\ main = "serving"
  /\ main' = "stopping"
  /\ tick' = "off"
  /\ UNCHANGED <<mode, exit, registered, ctxDone, discVars, resultChan, procVars, object>>

StopOnSignal == BeginStop
StopOnCancel == ctxDone /\ BeginStop

Return(status) ==
  /\ main' = "returned"
  /\ exit' = status
  /\ UNCHANGED <<mode, registered, ctxDone, tick, discVars, resultChan, procVars>>

\* Every goroutine of the wait group has returned.
WaitGroupDone == disc = "exited" /\ proc = "exited"

StopDone ==
  /\ main = "stopping" /\ WaitGroupDone
  /\ Return("clean")
  /\ UNCHANGED object

StopTimeout ==
  /\ main = "stopping"
  /\ Return("timeout")
  /\ UNCHANGED object

\* The caller's context, or the deadline of runOnce.
CancelContext ==
  /\ Alive /\ ~ctxDone
  /\ ctxDone' = TRUE
  /\ UNCHANGED <<mainVars, tick, discVars, resultChan, procVars, object>>

-----------------------------------------------------------------------------
(* executeDiscovery, run by the discovery loop or by runOnce.              *)

\* The provider list is read under the mutex; without providers the run ends
\* at once with an empty result.
StartProviders ==
  /\ MutexFree
  /\ found.run < MaxRuns
  /\ found' = EmptyResult(found.run + 1)
  /\ running' = Providers
  /\ answer' = [p \in Providers |-> Failed]
  /\ collected' = {}
  /\ disc' = IF Providers = {} THEN "send" ELSE "collect"

RunDiscovery ==
  /\ Alive /\ disc = "begin"
  /\ StartProviders
  /\ UNCHANGED <<mainVars, ctxDone, tick, resultChan, procVars, object>>

RunOnce ==
  /\ main = "init" /\ mode = "once"
  /\ StartProviders
  /\ main' = "once"
  /\ UNCHANGED <<mode, exit, registered, ctxDone, tick, resultChan, procVars, object>>

Answered == Providers \ running
Mut_OneSlotChannel == 1
ResultChCap == Cardinality(Providers)

\* A provider goroutine returns and sends on resultCh, which blocks when the
\* channel is full.  It outlives a collector that gave up.
ProviderAnswers(p, a) ==
  /\ Alive /\ p \in running
  /\ Cardinality(Answered \ collected) < ResultChCap
  /\ running' = running \ {p}
  /\ answer' = [answer EXCEPT ![p] = a]
  /\ UNCHANGED <<mainVars, ctxDone, tick, disc, found, collected, resultChan,
                 procVars, object>>

\* maps.Copy: the answer that arrives later overwrites an earlier one.
Mut_ListFailedToo(r, p, a) ==
  [r EXCEPT !.networks  = [k \in Keys |-> IF k \in a.keys THEN p ELSE @[k]],
            !.providers = @ \cup {p}]

Merge(r, p, a) ==
  IF ~a.ok THEN r
  ELSE [r EXCEPT !.networks  = [k \in Keys |-> IF k \in a.keys THEN p ELSE @[k]],
                 !.providers = @ \cup {p}]

\* One receive from resultCh; after the last one the metadata is built and
\* the clients are looked up.
Collect(p) ==
  /\ Alive /\ disc = "collect"
  /\ p \in Answered \ collected
  /\ found' = Merge(found, p, answer[p])
  /\ collected' = collected \cup {p}
  /\ disc' = IF collected' = Providers THEN "clients" ELSE "collect"
  /\ UNCHANGED <<mainVars, ctxDone, tick, running, answer, resultChan, procVars, object>>

\* DiscoverClients talks to GitHub; its error is logged and the result keeps
\* an empty client map, so either way the run goes on.
DiscoverClients ==
  /\ Alive /\ disc = "clients"
  /\ disc' = "send"
  /\ UNCHANGED <<mainVars, ctxDone, tick, found, running, answer, collected, resultChan,
                 procVars, object>>

\* The context ends while results are collected: executeDiscovery fails.
CollectCancelled ==
  /\ Alive /\ disc = "collect" /\ ctxDone
  /\ disc' = "wait"
  /\ main' = IF mode = "once" THEN "returned" ELSE main
  /\ exit' = IF mode = "once" THEN "failed" ELSE exit
  /\ UNCHANGED <<mode, registered, ctxDone, tick, found, running, answer, collected,
                 resultChan, procVars, object>>

-----------------------------------------------------------------------------
(* The discovery loop and its ticker.                                      *)

Mut_NoRoomCheck ==
  /\ Alive /\ disc = "send" /\ mode = "service"
  /\ resultChan' = Append(resultChan, found)
  /\ disc' = "wait"
  /\ UNCHANGED <<mainVars, ctxDone, tick, found, running, answer, collected, procVars, object>>

SendResult ==
  /\ Alive /\ disc = "send" /\ mode = "service"
  /\ Len(resultChan) < ChanCap
  /\ resultChan' = Append(resultChan, found)
  /\ disc' = "wait"
  /\ UNCHANGED <<mainVars, ctxDone, tick, found, running, answer, collected, procVars, object>>

Mut_BlockingSend == FALSE

\* The default branch: "Result channel full, discarding result".
DiscardResult ==
  /\ Alive /\ disc = "send" /\ mode = "service"
  /\ Len(resultChan) >= ChanCap
  /\ disc' = "wait"
  /\ UNCHANGED <<mainVars, ctxDone, tick, found, running, answer, collected, resultChan,
                 procVars, object>>

TickerFires ==
  /\ Alive /\ tick = "idle"
  /\ found.run < MaxRuns
  /\ tick' = "fired"
  /\ UNCHANGED <<mainVars, ctxDone, discVars, resultChan, procVars, object>>

TakeTick ==
  /\ Alive /\ disc = "wait" /\ tick = "fired"
  /\ found.run < MaxRuns
  /\ tick' = "idle"
  /\ disc' = "begin"
  /\ UNCHANGED <<mainVars, ctxDone, found, running, answer, collected, resultChan, procVars, object>>

LoopExits ==
  /\ Alive /\ disc = "wait" /\ ctxDone /\ mode = "service"
  /\ disc' = "exited"
  /\ UNCHANGED <<mainVars, ctxDone, tick, found, running, answer, collected, resultChan,
                 procVars, object>>

-----------------------------------------------------------------------------
(* The result processor and the upload handler of run.go.                  *)

ReceiveResult ==
  /\ Alive /\ proc = "idle"
  /\ resultChan # <<>>
  /\ current' = Head(resultChan)
  /\ resultChan' = Tail(resultChan)
  /\ proc' = "locking"
  /\ UNCHANGED <<mainVars, ctxDone, tick, discVars, object>>

\* The mutex is taken and the handlers run: none is registered yet, or the
\* result is empty and the upload is skipped, or the upload starts.
RunHandlers ==
  /\ Alive /\ proc = "locking"
  /\ proc' = IF registered /\ ShouldUpload(current) THEN "handling" ELSE "idle"
  /\ UNCHANGED <<mainVars, ctxDone, tick, discVars, resultChan, current, object>>

\* The upload returns and the mutex is released.  A failure is only logged,
\* and a failed request may still have replaced the object.
Mut_ReturnOnFailure(stored) ==
  /\ Alive /\ proc = "handling"
  /\ object' = IF stored THEN current ELSE object
  /\ proc' = IF stored THEN "idle" ELSE "exited"
  /\ UNCHANGED <<mainVars, ctxDone, tick, discVars, resultChan, current>>

UploadReturns(stored) ==
  /\ Alive /\ proc = "handling"
  /\ object' = IF stored THEN current ELSE object
  /\ proc' = "idle"
  /\ UNCHANGED <<mainVars, ctxDone, tick, discVars, resultChan, current>>

ProcessorExits ==
  /\ Alive /\ proc = "idle" /\ ctxDone
  /\ proc' = "exited"
  /\ UNCHANGED <<mainVars, ctxDone, tick, discVars, resultChan, current, object>>

-----------------------------------------------------------------------------
(* The rest of runOnce.                                                    *)

OnceSkipsUpload ==
  /\ main = "once" /\ disc = "send" /\ ~ShouldUpload(found)
  /\ Return("clean")
  /\ UNCHANGED object

OnceStartsUpload ==
  /\ main = "once" /\ disc = "send" /\ ShouldUpload(found)
  /\ main' = "uploading"
  /\ current' = found
  /\ UNCHANGED <<mode, exit, registered, ctxDone, tick, discVars, resultChan, proc, object>>

OnceUploadSucceeds ==
  /\ main = "uploading"
  /\ object' = current
  /\ Return("clean")

Mut_ErrorIgnored(stored) ==
  /\ main = "uploading"
  /\ object' = IF stored THEN current ELSE object
  /\ Return("clean")

OnceUploadFails(stored) ==
  /\ main = "uploading"
  /\ object' = IF stored THEN current ELSE object
  /\ Return("failed")

-----------------------------------------------------------------------------
Returned == main = "returned" /\ UNCHANGED vars

MainNext ==
  \/ Start \/ OnResult \/ StopOnCancel \/ StopDone \/ StopTimeout
  \/ RunOnce \/ OnceSkipsUpload \/ OnceStartsUpload \/ OnceUploadSucceeds
  \/ \E stored \in BOOLEAN : OnceUploadFails(stored)

LoopNext ==
  \/ RunDiscovery \/ DiscoverClients \/ CollectCancelled
  \/ (\E p \in Providers : Collect(p))
  \/ SendResult \/ DiscardResult \/ TakeTick

ProcNext ==
  \/ ReceiveResult \/ RunHandlers
  \/ \E stored \in BOOLEAN : UploadReturns(stored)

ProviderNext(p) == \E a \in Answers : ProviderAnswers(p, a)

Next ==
  \/ MainNext
  \/ LoopNext \/ LoopExits
  \/ ProcNext \/ ProcessorExits
  \/ \E p \in Providers : ProviderNext(p)
  \/ TickerFires \/ StopOnSignal \/ CancelContext
  \/ Returned

Spec == Init /\ [][Next]_vars

\* The requests to GitHub and to the S3 store have no timeout of their own: they
\* are sure to end only once the context is done.
MainFair == (main # "uploading" \/ ctxDone) /\ MainNext /\ exit' # "timeout"
LoopFair == (disc # "clients" \/ ctxDone) /\ LoopNext
ProcFair == (proc # "handling" \/ ctxDone) /\ ProcNext
ProviderFair(p) == ctxDone /\ ProviderNext(p)

\* Goroutines run and the ticker fires; nothing relies on the timer by which Stop
\* gives up, so it need not fire.  A select with two ready cases picks each
\* infinitely often, so a loop that meets a done context again and again leaves:
\* strong fairness on the exits.  Signals and cancellation are the environment's.
Fairness ==
  /\ WF_vars(MainFair)
  /\ WF_vars(LoopFair) /\ SF_vars(LoopExits)
  /\ WF_vars(ProcFair) /\ SF_vars(ProcessorExits)
  /\ WF_vars(TickerFires)
  /\ \A p \in Providers : WF_vars(ProviderFair(p))

FairSpec == Spec /\ Fairness

-----------------------------------------------------------------------------
TypeOK ==
  /\ mode \in {"service", "once"}
  /\ main \in {"init", "started", "serving", "stopping", "once", "uploading", "returned"}
  /\ exit \in {"none", "clean", "timeout", "failed"}
  /\ ctxDone \in BOOLEAN
  /\ registered \in BOOLEAN
  /\ tick \in {"off", "idle", "fired"}
  /\ disc \in {"off", "begin", "collect", "clients", "send", "wait", "exited"}
  /\ found \in Result
  /\ running \in SUBSET Providers
  /\ answer \in [Providers -> Answers]
  /\ collected \in SUBSET Providers
  /\ resultChan \in Seq(Result)
  /\ Len(resultChan) <= ChanCap
  /\ proc \in {"off", "idle", "locking", "handling", "exited"}
  /\ current \in Result
  /\ object \in Result

-----------------------------------------------------------------------------
(* Safety.                                                                 *)

Succeeded == {p \in Providers : answer[p].ok}

\* The result holds exactly the keys that the providers in S reported without
\* an error, each from a provider that reported it, and lists these providers.
MergedFrom(S) ==
  /\ found.providers = S \cap Succeeded
  /\ \A k \in Keys :
       LET sources == {p \in S \cap Succeeded : k \in answer[p].keys}
       IN  IF sources = {} THEN found.networks[k] = NoProvider
                           ELSE found.networks[k] \in sources

\* When executeDiscovery has collected every answer, the result is merged from
\* all providers, none lost and none listed without its networks, whatever the
\* order in which the goroutines answered (service.go:234-251).
MergeExact == disc \in {"clients", "send"} => MergedFrom(Providers)

\* run --once exits with success only after it published its own result or
\* found no network at all; an error of the discovery or of the upload is
\* reported (run.go:193-222).
OnceReportsFailure ==
  mode = "once" /\ exit = "clean" => object = found \/ IsEmpty(found)

\* A provider goroutine never blocks on its answer, also when the collector has
\* given up: resultCh has room for all of them (service.go:197, 236-242).
SendersNeverBlock ==
  running # {} => Cardinality(Answered \ collected) < ResultChCap

\* The S3 object is a register that moves forward only, to non-empty results:
\* the service implements the abstract publisher.
Publisher == INSTANCE ResultPublisher WITH started <- found.run
PublisherSpec == Publisher!Spec

-----------------------------------------------------------------------------
(* Liveness, under FairSpec.                                               *)

Queued(n) ==
  \/ \E i \in 1..Len(resultChan) : resultChan[i].run = n
  \/ proc \in {"locking", "handling"} /\ current.run = n

\* An upload hangs: it never returns, and the context is never cancelled.
UploadHangs == <>[](proc = "handling" /\ ~ctxDone)

\* A result that was sent does not stay in the channel: unless the service is
\* being shut down or an upload hangs, the processor gets to it, also after
\* failed uploads (service.go:75-90, run.go:164-167).
ResultsAreTakenUp ==
  UploadHangs \/ \A n \in 1..MaxRuns : Queued(n) ~> (~Queued(n) \/ ctxDone \/ ~Alive)

\* A run that is due gets the mutex although handlers hold it during uploads:
\* uploads delay a discovery, and only one that hangs can block it
\* (service.go:81-87, 176-178).
DiscoveryGetsMutex == UploadHangs \/ ((disc = "begin") ~> (disc # "begin" \/ ~Alive))

\* Once its context is cancelled the service stops without the help of the
\* timeout of Stop: no goroutine of the wait group waits for one that has left
\* already, such as the loop for room in the channel (service.go:101-110, 160-168).
CancelEndsService == (ctxDone /\ mode = "service") ~> ~Alive

-----------------------------------------------------------------------------
(* What a comment of the code claims, and the code does not do.            *)

\* service.go:116 "Stop stops the discovery service": a Stop that a signal led
\* to gives up only on goroutines that are still at work, not on idle ones.
IdleServiceStops ==
  mode = "service" /\ exit = "timeout" /\ ~ctxDone =>
    ~(disc = "wait" /\ proc = "idle" /\ resultChan = <<>>)
=============================================================================
