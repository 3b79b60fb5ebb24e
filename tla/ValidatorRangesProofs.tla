------------------------ MODULE ValidatorRangesProofs ------------------------
(***************************************************************************)
(* Proofs about ValidatorRanges for every number of networks, inventory    *)
(* files, permits and retries: no permit is lost, the command reports      *)
(* success only when all goroutines have ended, and an object holds every  *)
(* node as the first file that lists it has it.  Proofs about RangeParser  *)
(* for every inventory: what is parsed is what the lines in effect say.    *)
(*                                                                         *)
(* Both are about folds.  A left fold is unfolded into the states that it  *)
(* goes through, which are followed by induction over a set of numbers     *)
(* (FoldSteps, NatSetInduction); a sum is shown not to depend on the order *)
(* of its summands by induction over the subsets of a finite set           *)
(* (SubsetInduction, TotalRemoves).                                        *)
(***************************************************************************)
EXTENDS ValidatorRanges, RangeParser, FiniteSetTheorems, WellFoundedInduction, TLAPS

\* The launch loop leaves no network behind when it ends, which is what makes
\* "all permits are back" say that all goroutines have ended.
NoneLeft == main = "wait" => \A w \in Networks : worker[w] # "pending"

\* A permit is taken, given back, or neither, along with the set of the
\* goroutines that are at work.
PermitsMove ==
  \/ Working' = Working /\ free' = free
  \/ \E w \in Networks \ Working : Working' = Working \union {w} /\ free' = free - 1 /\ free > 0
  \/ \E w \in Working : Working' = Working \ {w} /\ free' = free + 1

LEMMA WorkingIsFinite ==
  /\ IsFiniteSet(Working)
  /\ Cardinality(Working) \in Nat
<1>1. IsFiniteSet(Working)
  <2>1. Working \subseteq Networks BY DEF Working
  <2>. QED BY <2>1, FS_Subset, RangesAssumption DEF RangesAssumption
<1>. QED BY <1>1, FS_CardinalityType

-----------------------------------------------------------------------------
(* Types.  The number of permits is typed along with their account.        *)

MainOK ==
  /\ main \in {"download", "launch", "wait", "ok", "error", "exited"}
  /\ attempt \in 0..MaxRetries
  /\ ctxDone \in BOOLEAN

WorkersOK == worker \in [Networks -> {"pending"} \union Active \union Final]

FilesOK ==
  /\ file \in [Networks -> Nat]
  /\ served \in [Networks -> Seq(Answers)]
  /\ \A w \in Networks : file[w] <= LastFile(w) + 1 /\ Len(served[w]) + 1 = file[w]

LEMMA MainMoves ==
  ASSUME [Next]_vars
  PROVE  \/ DownloadFails
         \/ UNCHANGED <<main, attempt>>
         \/ main' \in {"launch", "wait", "ok", "error", "exited"} /\ UNCHANGED attempt
<1>1. CASE Completes BY <1>1, Zenon DEF Completes, Ends
<1>2. ASSUME NEW w \in Networks, Launch(w) PROVE UNCHANGED <<main, attempt>>
  BY <1>2, Zenon DEF Launch, mainVars
<1>3. ASSUME NEW w \in Networks, WorkerNext(w) PROVE UNCHANGED <<main, attempt>>
  BY <1>3, Zenon DEF WorkerNext, FetchFile, AggregateEth, Skip, Aggregate, UploadSucceeds,
                     UploadFails, mainVars
<1>. QED
  BY <1>1, <1>2, <1>3 DEF vars, mainVars, Next, MainNext, DownloadSucceeds, DownloadBreaksOff,
       AllLaunched, Interrupted, Exits, Ends, Signal

LEMMA MainStep ==
  ASSUME MainOK, [Next]_vars
  PROVE  MainOK'
<1>. USE DEF MainOK
<1>1. main' \in {"download", "launch", "wait", "ok", "error", "exited"}
  BY MainMoves, Zenon DEF DownloadFails
<1>2. ctxDone' \in BOOLEAN
  BY DEF vars, mainVars, Next, MainNext, DownloadSucceeds, DownloadFails, DownloadBreaksOff,
         Launch, AllLaunched, Completes, Interrupted, Exits, Ends, Signal, WorkerNext, FetchFile,
         AggregateEth, Skip, Aggregate, UploadSucceeds, UploadFails
<1>3. attempt' \in 0..MaxRetries
  <2>1. attempt \in 0..MaxRetries /\ MaxRetries \in Nat
    BY RangesAssumption DEF RangesAssumption
  <2>2. UNCHANGED attempt \/ (attempt < MaxRetries /\ attempt' = attempt + 1)
    BY MainMoves, Zenon DEF DownloadFails
  <2>. QED BY ONLY <2>1, <2>2
<1>. QED BY <1>1, <1>2, <1>3

LEMMA WorkersStep ==
  ASSUME WorkersOK, [Next]_vars
  PROVE  WorkersOK'
BY DEF WorkersOK, Active, Final, vars, mainVars, workerVars, Next, MainNext, DownloadSucceeds,
       DownloadFails, DownloadBreaksOff, Launch, AllLaunched, Completes, Interrupted, Exits, Ends,
       Signal, WorkerNext, FetchFile, AggregateEth, Skip, Aggregate, UploadSucceeds, UploadFails,
       Finishes, Steps

LEMMA FilesStep ==
  ASSUME FilesOK, [Next]_vars
  PROVE  FilesOK'
<1>1. ASSUME NEW w \in Networks, FetchFile(w)
      PROVE  FilesOK'
  <2>1. PICK answer \in Answers : served' = [served EXCEPT ![w] = Append(@, answer)]
    BY <1>1 DEF FetchFile
  <2>2. file' = [file EXCEPT ![w] = @ + 1] /\ file[w] <= LastFile(w)
    BY <1>1 DEF FetchFile
  <2>3. /\ served' \in [Networks -> Seq(Answers)]
        /\ \A v \in Networks :
             Len(served'[v]) = IF v = w THEN Len(served[v]) + 1 ELSE Len(served[v])
    BY <2>1 DEF FilesOK
  <2>4. LastFile(w) \in Nat
    BY RangesAssumption DEF RangesAssumption, LastFile, EthFiles
  <2>5. \A v \in Networks : file'[v] <= LastFile(v) + 1 /\ Len(served'[v]) + 1 = file'[v]
    BY <2>2, <2>3, <2>4 DEF FilesOK
  <2>6. file' \in [Networks -> Nat] BY <2>2 DEF FilesOK
  <2>. QED BY <2>3, <2>5, <2>6 DEF FilesOK, LastFile
<1>2. CASE UNCHANGED <<file, served>>
  BY <1>2 DEF FilesOK, LastFile
<1>3. UNCHANGED <<file, served>> \/ \E w \in Networks : FetchFile(w)
  BY DEF vars, workerVars, Next, MainNext, DownloadSucceeds,
       DownloadFails, DownloadBreaksOff, Launch, AllLaunched, Completes, Interrupted, Exits, Ends,
       Signal, WorkerNext, AggregateEth, Skip, Aggregate, UploadSucceeds, UploadFails
<1>. QED BY <1>1, <1>2, <1>3

-----------------------------------------------------------------------------
(* Permits.                                                                *)

LEMMA EachStepMovesPermits ==
  ASSUME WorkersOK, [Next]_vars
  PROVE  PermitsMove
<1>. USE DEF WorkersOK, Working, Active, Final
<1>1. ASSUME NEW w \in Networks, Launch(w)
      PROVE  PermitsMove
  <2>1. w \in Networks \ Working BY <1>1 DEF Launch
  <2>2. Working' = Working \union {w} BY <1>1 DEF Launch
  <2>3. free' = free - 1 /\ free > 0 BY <1>1 DEF Launch
  <2>. QED BY <2>1, <2>2, <2>3 DEF PermitsMove
<1>2. ASSUME NEW w \in Networks, Skip(w) \/ UploadSucceeds(w) \/ UploadFails(w)
      PROVE  PermitsMove
  <2>1. w \in Working
    BY <1>2 DEF Skip, UploadSucceeds, UploadFails
  <2>2. Working' = Working \ {w}
    BY <1>2 DEF Skip, UploadSucceeds, UploadFails, Finishes
  <2>3. free' = free + 1
    BY <1>2 DEF Skip, UploadSucceeds, UploadFails, Finishes
  <2>. QED BY <2>1, <2>2, <2>3 DEF PermitsMove
<1>3. ASSUME NEW w \in Networks, FetchFile(w) \/ AggregateEth(w) \/ Aggregate(w)
      PROVE  PermitsMove
  <2>1. Working' = Working
    BY <1>3 DEF FetchFile, AggregateEth, Aggregate, Steps
  <2>2. free' = free
    BY <1>3 DEF FetchFile, AggregateEth, Aggregate, Steps
  <2>. QED BY <2>1, <2>2 DEF PermitsMove
<1>4. CASE UNCHANGED <<worker, free>>
  BY <1>4 DEF PermitsMove
<1>5. UNCHANGED <<worker, free>> \/ (\E w \in Networks : Launch(w) \/ WorkerNext(w))
  BY DEF vars, mainVars, workerVars, Next, MainNext, DownloadSucceeds, DownloadFails,
         DownloadBreaksOff, AllLaunched, Completes, Interrupted, Exits, Ends, Signal
<1>. QED BY <1>1, <1>2, <1>3, <1>4, <1>5 DEF WorkerNext

LEMMA PermitsStep ==
  ASSUME free \in 0..Permits, PermitsAreAccounted, PermitsMove
  PROVE  free' \in 0..Permits /\ PermitsAreAccounted'
<1>. USE WorkingIsFinite, RangesAssumption DEF RangesAssumption, PermitsAreAccounted
<1>1. CASE Working' = Working /\ free' = free BY <1>1
<1>2. ASSUME NEW w \in Networks \ Working,
             Working' = Working \union {w}, free' = free - 1, free > 0
      PROVE  free' \in 0..Permits /\ PermitsAreAccounted'
  <2>1. Cardinality(Working') = Cardinality(Working) + 1
    BY <1>2, FS_AddElement
  <2>. QED BY <1>2, <2>1
<1>3. ASSUME NEW w \in Working, Working' = Working \ {w}, free' = free + 1
      PROVE  free' \in 0..Permits /\ PermitsAreAccounted'
  <2>1. Cardinality(Working') = Cardinality(Working) - 1
    BY <1>3, FS_RemoveElement
  <2>2. Cardinality(Working') \in Nat
    <3>1. IsFiniteSet(Working') BY <1>3, FS_RemoveElement
    <3>. QED BY <3>1, FS_CardinalityType
  <2>. QED BY <1>3, <2>1, <2>2
<1>. QED BY <1>1, <1>2, <1>3 DEF PermitsMove

\* Every variable has its type, and the goroutines that are at work hold the
\* permits that are not free, on all the ways out of a goroutine.
THEOREM TypeCorrect == Spec => [](TypeOK /\ PermitsAreAccounted)
<1>1. Init => TypeOK /\ PermitsAreAccounted
  <2>. SUFFICES ASSUME Init PROVE TypeOK /\ PermitsAreAccounted
    OBVIOUS
  <2>. USE RangesAssumption DEF RangesAssumption, Init
  <2>1. Working = {} BY DEF Working, Active
  <2>2. PermitsAreAccounted BY <2>1, FS_EmptySet DEF PermitsAreAccounted
  <2>3. MainOK /\ free \in 0..Permits
    <3>1. ctxDone \in BOOLEAN OBVIOUS
    <3>2. attempt \in 0..MaxRetries /\ free \in 0..Permits OBVIOUS
    <3>. QED BY <3>1, <3>2 DEF MainOK
  <2>4. WorkersOK BY DEF WorkersOK
  <2>5. FilesOK BY DEF FilesOK, LastFile, EthFiles
  <2>. QED BY <2>2, <2>3, <2>4, <2>5 DEF TypeOK, MainOK, WorkersOK, FilesOK
<1>2. TypeOK /\ PermitsAreAccounted /\ [Next]_vars => TypeOK' /\ PermitsAreAccounted'
  <2>. SUFFICES ASSUME TypeOK, PermitsAreAccounted, [Next]_vars
                PROVE  TypeOK' /\ PermitsAreAccounted'
    OBVIOUS
  <2>1. MainOK /\ WorkersOK /\ FilesOK /\ free \in 0..Permits
    BY DEF TypeOK, MainOK, WorkersOK, FilesOK
  <2>2. MainOK' BY <2>1, MainStep
  <2>3. WorkersOK' BY <2>1, WorkersStep
  <2>4. FilesOK' BY <2>1, FilesStep
  <2>5. free' \in 0..Permits /\ PermitsAreAccounted'
    BY <2>1, EachStepMovesPermits, PermitsStep
  <2>. QED BY <2>2, <2>3, <2>4, <2>5 DEF TypeOK, MainOK, WorkersOK, FilesOK
<1>. QED BY <1>1, <1>2, PTL DEF Spec

-----------------------------------------------------------------------------
(* Success.                                                                *)

LEMMA NoneLeftStep ==
  ASSUME WorkersOK, NoneLeft, [Next]_vars
  PROVE  NoneLeft'
BY DEF NoneLeft, WorkersOK, Active, Final, vars, mainVars, workerVars, Next, MainNext,
       DownloadSucceeds, DownloadFails, DownloadBreaksOff, Launch, AllLaunched, Completes,
       Interrupted, Exits, Ends, Signal, WorkerNext, FetchFile, AggregateEth, Skip, Aggregate,
       UploadSucceeds, UploadFails, Finishes, Steps

\* With all permits free nobody is at work.
LEMMA AllPermitsFree ==
  ASSUME PermitsAreAccounted, free \in 0..Permits, free >= WaitFor
  PROVE  Working = {}
<1>1. Cardinality(Working) = 0
  BY WorkingIsFinite, RangesAssumption DEF RangesAssumption, PermitsAreAccounted, WaitFor
<1>. QED BY <1>1, WorkingIsFinite, FS_EmptySet

LEMMA SuccessStep ==
  ASSUME TypeOK, PermitsAreAccounted, NoneLeft, SuccessMeansAllDone, [Next]_vars
  PROVE  SuccessMeansAllDone'
<1>1. CASE Completes
  <2>1. Working = {}
    BY <1>1, AllPermitsFree DEF Completes, TypeOK
  <2>2. main = "wait" /\ worker' = worker
    BY <1>1 DEF Completes, Ends, workerVars
  <2>. QED BY <2>1, <2>2 DEF SuccessMeansAllDone, AllDone, NoneLeft, TypeOK, Working
<1>2. CASE main' = "ok" /\ ~Completes
  <2>1. main = "ok"
    BY <1>2 DEF vars, mainVars, Next, MainNext, DownloadSucceeds, DownloadFails, DownloadBreaksOff,
         Launch, AllLaunched, Interrupted, Exits, Ends, Signal, WorkerNext, FetchFile,
         AggregateEth, Skip, Aggregate, UploadSucceeds, UploadFails
  <2>2. worker' = worker
    BY <2>1 DEF SuccessMeansAllDone, AllDone, Final, vars, mainVars, workerVars,
         Next, MainNext, DownloadSucceeds, DownloadFails, DownloadBreaksOff,
         Launch, AllLaunched, Completes, Interrupted, Exits, Ends, Signal, WorkerNext, FetchFile,
         AggregateEth, Skip, Aggregate, UploadSucceeds, UploadFails
  <2>. QED BY <2>1, <2>2 DEF SuccessMeansAllDone, AllDone
<1>. QED BY <1>1, <1>2 DEF SuccessMeansAllDone

\* The command reports success only when every active network has been
\* uploaded, skipped or given up: waiting for all the permits is enough.
THEOREM SuccessIsComplete == Spec => []SuccessMeansAllDone
<1>. DEFINE I == NoneLeft /\ SuccessMeansAllDone
<1>1. Init => I
  BY DEF Init, NoneLeft, SuccessMeansAllDone
<1>2. I /\ TypeOK /\ PermitsAreAccounted /\ [Next]_vars => I'
  BY NoneLeftStep, SuccessStep DEF TypeOK, WorkersOK
<1>3. I => SuccessMeansAllDone OBVIOUS
<1>. HIDE DEF I
<1>. QED BY <1>1, <1>2, <1>3, TypeCorrect, PTL DEF Spec

-----------------------------------------------------------------------------
(* Folds.  Induction over a set of numbers comes from the well-founded     *)
(* order of the natural numbers, and the recursive functions that the      *)
(* folds of the community modules stand for are then shown to exist.       *)

LEMMA LeastNumber ==
  ASSUME NEW T \in SUBSET Nat, T # {}
  PROVE  \E x \in T : \A y \in T : x <= y
<1>. DEFINE R == OpToRel(<, Nat)
<1>1. IsWellFoundedOn(R, Nat) BY NatLessThanWellFounded
<1>. HIDE DEF R
<1>2. PICK x \in T : \A y \in T : ~ (<<y, x>> \in R)
  BY <1>1, WFMin
<1>3. \A y \in T : ~(y < x)
  BY <1>2 DEF R, OpToRel
<1>. QED BY <1>3

\* Induction, for a set of numbers.
LEMMA NatSetInduction ==
  ASSUME NEW S, 0 \in S, \A n \in Nat : n \in S => n + 1 \in S
  PROVE  Nat \subseteq S
<1>. DEFINE T == Nat \ S
<1>. SUFFICES ASSUME T # {} PROVE FALSE
  OBVIOUS
<1>1. PICK x \in T : \A y \in T : x <= y
  BY LeastNumber
<1>2. x # 0 /\ x - 1 \in Nat /\ x - 1 \notin T
  BY <1>1
<1>. QED BY <1>1, <1>2

LEMMA MaxExists ==
  ASSUME NEW n \in Nat, NEW d \in SUBSET (1..n), d # {}
  PROVE  Max(d) \in d /\ \A y \in d : y <= Max(d)
<1>. DEFINE T == {k \in Nat : n - k \in d}
<1>1. \A x \in d : n - x \in T
  BY \A x \in d : n - (n - x) = x
<1>2. PICK t \in T : \A k \in T : t <= k
  BY <1>1, LeastNumber
<1>3. ASSUME NEW y \in d PROVE n - t >= y
  <2>1. t <= n - y BY <1>1, <1>2
  <2>2. y \in Int /\ t \in Int OBVIOUS
  <2>. QED BY ONLY <2>1, <2>2, n \in Nat
<1>. QED BY <1>2, <1>3 DEF Max

\* it is the fold of F over the subsets of D, from an element that pick names.
FoldsBy(it, D, pick, start, F) ==
  \A d \in SUBSET D : it[d] = IF d = {} THEN start ELSE F[pick[d]][it[d \ {pick[d]}]]

\* The same over sets of positions, from the last one.
FoldsLeft(it, n, start, F) ==
  \A d \in SUBSET (1..n) : it[d] = IF d = {} THEN start ELSE F[Max(d)][it[d \ {Max(d)}]]

\* The sets are reached by the number of their elements.
LEMMA FoldExists ==
  ASSUME NEW D, IsFiniteSet(D),
         NEW pick, \A d \in SUBSET D : d # {} => pick[d] \in d,
         NEW A, NEW start \in A, NEW F \in [D -> [A -> A]]
  PROVE  \E it \in [SUBSET D -> A] : FoldsBy(it, D, pick, start, F)
<1>. DEFINE Small(n) == {d \in SUBSET D : Cardinality(d) <= n}
            Next1(it, d) == IF d = {} THEN start ELSE F[pick[d]][it[d \ {pick[d]}]]
            Good(n) == \E it \in [Small(n) -> A] : \A d \in Small(n) : it[d] = Next1(it, d)
            S == {n \in Nat : Good(n)}
<1>0. \A d \in SUBSET D : IsFiniteSet(d) /\ Cardinality(d) \in Nat
  BY FS_Subset, FS_CardinalityType
<1>1. Good(0)
  <2>1. \A d \in Small(0) : d = {}
    BY <1>0, FS_EmptySet
  <2>. WITNESS [d \in Small(0) |-> start] \in [Small(0) -> A]
  <2>. QED BY <2>1
<1>2. ASSUME NEW n \in Nat, Good(n) PROVE Good(n + 1)
  <2>1. PICK it \in [Small(n) -> A] : \A d \in Small(n) : it[d] = Next1(it, d)
    BY <1>2
  <2>2. ASSUME NEW d \in Small(n + 1), d # {}
        PROVE  pick[d] \in D /\ d \ {pick[d]} \in Small(n)
    <3>1. pick[d] \in d /\ IsFiniteSet(d) /\ Cardinality(d) \in Nat
      BY <1>0, <2>2
    <3>2. Cardinality(d \ {pick[d]}) = Cardinality(d) - 1
      BY <3>1, FS_RemoveElement
    <3>. QED BY <3>1, <3>2
  <2>3. \A d \in Small(n + 1) : Next1(it, d) \in A
    BY <2>2
  <2>. DEFINE new == [d \in Small(n + 1) |-> Next1(it, d)]
  <2>4. new \in [Small(n + 1) -> A]
    BY <2>3
  <2>5. Small(n) \subseteq Small(n + 1)
    BY <1>0
  <2>6. \A d \in Small(n) : new[d] = it[d]
    BY <2>1, <2>5
  <2>7. \A d \in Small(n + 1) : new[d] = Next1(new, d)
    <3>. SUFFICES ASSUME NEW d \in Small(n + 1), d # {}
                  PROVE  new[d] = Next1(new, d)
      OBVIOUS
    <3>1. new[d \ {pick[d]}] = it[d \ {pick[d]}]
      BY <2>2, <2>6
    <3>2. new[d] = Next1(it, d) OBVIOUS
    <3>. HIDE DEF new
    <3>. QED BY <3>1, <3>2
  <2>. HIDE DEF new, Small, Next1
  <2>. QED BY <2>4, <2>7
<1>3. \A n \in Nat : Good(n)
  <2>. HIDE DEF Good
  <2>1. 0 \in S BY <1>1
  <2>2. \A n \in Nat : n \in S => n + 1 \in S BY <1>2
  <2>. HIDE DEF S
  <2>3. Nat \subseteq S BY <2>1, <2>2, NatSetInduction
  <2>. QED BY <2>3 DEF S
<1>4. Small(Cardinality(D)) = SUBSET D
  BY <1>0, FS_Subset
<1>5. Good(Cardinality(D))
  <2>. HIDE DEF Good
  <2>. QED BY <1>0, <1>3
<1>6. PICK it \in [Small(Cardinality(D)) -> A] :
         \A d \in Small(Cardinality(D)) : it[d] = Next1(it, d)
  BY <1>5
<1>. HIDE DEF Small
<1>. QED BY <1>4, <1>6 DEF FoldsBy

\* Left folds: the set of positions is emptied from its maximum.
LEMMA LeftFoldExists ==
  ASSUME NEW n \in Nat, NEW A, NEW start \in A, NEW F \in [1..n -> [A -> A]]
  PROVE  \E it \in [SUBSET (1..n) -> A] : FoldsLeft(it, n, start, F)
<1>. DEFINE D == 1..n
            pick == [d \in SUBSET D |-> Max(d)]
<1>1. IsFiniteSet(D) BY FS_Interval
<1>2. \A d \in SUBSET D : d # {} => pick[d] \in d
  BY MaxExists
<1>3. \A d \in SUBSET D : pick[d] = Max(d) OBVIOUS
<1>. HIDE DEF D, pick
<1>4. F \in [D -> [A -> A]] BY DEF D
<1>5. PICK it \in [SUBSET D -> A] : FoldsBy(it, D, pick, start, F)
  BY <1>1, <1>2, <1>4, FoldExists
<1>6. FoldsLeft(it, n, start, F)
  BY <1>3, <1>5 DEF D, FoldsBy, FoldsLeft
<1>. QED BY <1>5, <1>6 DEF D

\* The first k positions.
LEMMA Prefix ==
  /\ 1..0 = {}
  /\ \A n \in Nat : \A k \in 1..n :
       1..k \in SUBSET (1..n) /\ 1..k # {} /\ Max(1..k) = k /\ (1..k) \ {k} = 1..(k - 1)
<1>1. ASSUME NEW n \in Nat, NEW k \in 1..n PROVE Max(1..k) = k
  <2>1. k \in Nat /\ k \in 1..k OBVIOUS
  <2>2. Max(1..k) \in 1..k /\ \A y \in 1..k : y <= Max(1..k)
    BY <2>1, MaxExists
  <2>. QED BY <2>1, <2>2
<1>. QED BY <1>1

\* it goes from start through the n steps of F.
StepsBy(it, n, start, F) == it[0] = start /\ \A k \in 1..n : it[k] = F[k][it[k - 1]]

\* iter unfolds like F for as long as it stays in A.
FoldsWithin(iter, n, A, start, F) ==
  /\ iter[{}] = start
  /\ \A d \in SUBSET (1..n) : d # {} /\ iter[d \ {Max(d)}] \in A =>
       iter[d] = F[Max(d)][iter[d \ {Max(d)}]]

\* A function that unfolds like F for as long as it stays in A goes through the
\* states of the fold, and so stays in A.
LEMMA FoldSteps ==
  ASSUME NEW n \in Nat, NEW A, NEW start \in A, NEW F \in [1..n -> [A -> A]],
         NEW iter, FoldsWithin(iter, n, A, start, F)
  PROVE  \E it \in [0..n -> A] : StepsBy(it, n, start, F) /\ iter[1..n] = it[n]
<1>. DEFINE it == [k \in 0..n |-> iter[1..k]]
            P == {k \in Nat : k <= n => iter[1..k] \in A}
<1>1. iter[1..0] = start BY Prefix DEF FoldsWithin
<1>2. ASSUME NEW k \in 1..n, iter[1..(k - 1)] \in A
      PROVE  iter[1..k] = F[k][iter[1..(k - 1)]]
  <2>1. 1..k \in SUBSET (1..n) /\ 1..k # {} /\ Max(1..k) = k /\ (1..k) \ {k} = 1..(k - 1)
    BY Prefix
  <2>. QED BY <1>2, <2>1 DEF FoldsWithin
<1>3. 0 \in P BY <1>1
<1>4. ASSUME NEW k \in Nat, k \in P PROVE k + 1 \in P
  <2>. SUFFICES ASSUME k + 1 <= n PROVE iter[1..(k + 1)] \in A
    OBVIOUS
  <2>1. k + 1 \in 1..n /\ (k + 1) - 1 = k /\ iter[1..k] \in A
    BY <1>4
  <2>. QED BY <1>2, <2>1
<1>. HIDE DEF P
<1>5. Nat \subseteq P BY <1>3, <1>4, NatSetInduction
<1>6. \A k \in 0..n : iter[1..k] \in A BY <1>5 DEF P
<1>7. it \in [0..n -> A] BY <1>6
<1>8. ASSUME NEW k \in 1..n PROVE it[k] = F[k][it[k - 1]]
  <2>1. k - 1 \in 0..n /\ k \in 0..n OBVIOUS
  <2>. QED BY <1>2, <1>6, <2>1
<1>9. it[0] = start /\ iter[1..n] = it[n] BY <1>1
<1>. HIDE DEF it
<1>. QED BY <1>7, <1>8, <1>9 DEF StepsBy

\* A sequence with one more element.
LEMMA Appended ==
  ASSUME NEW X, NEW s \in Seq(X), NEW b \in X
  PROVE  /\ Append(s, b) \in Seq(X)
         /\ Len(Append(s, b)) = Len(s) + 1 /\ Append(s, b)[Len(s) + 1] = b
         /\ \A i \in 1..Len(s) : Append(s, b)[i] = s[i]
OBVIOUS

\* Tables of nodes.
Nodesets(N, V) == UNION {[X -> V] : X \in SUBSET N}

\* The aggregation merges one input after the other.
LEMMA AggregateUnfolds ==
  ASSUME NEW N, NEW V, NEW s \in Seq(Nodesets(N, V))
  PROVE  \E it :
           /\ it[0] = NoNodes
           /\ \A k \in 1..Len(s) : it[k] = MergeNodes(it[k - 1], s[k])
           /\ AggregateRanges(s) = it[Len(s)]
<1>. DEFINE A == Nodesets(N, V)
            D == DOMAIN s
            n == Len(s)
            F == [k \in 1..n |-> [a \in A |-> MergeNodes(a, s[k])]]
            Unfolds(it) == it = [d \in SUBSET D |-> IF d = {} THEN NoNodes
                                                  ELSE MergeNodes(it[d \ {Max(d)}], s[Max(d)])]
            iter == CHOOSE it : Unfolds(it)
<1>1. AggregateRanges(s) = iter[D]
  BY DEF AggregateRanges, FoldLeft, MapThenFoldSet
<1>2. NoNodes \in A /\ F \in [1..n -> [A -> A]]
  <2>1. NoNodes \in [{} -> V] BY DEF NoNodes
  <2>2. ASSUME NEW a \in A, NEW b \in A PROVE MergeNodes(a, b) \in A
    <3>1. PICK X \in SUBSET N : a \in [X -> V] BY DEF Nodesets
    <3>2. PICK Y \in SUBSET N : b \in [Y -> V] BY DEF Nodesets
    <3>3. MergeNodes(a, b) \in [X \union Y -> V]
      BY <3>1, <3>2 DEF MergeNodes
    <3>. QED BY <3>3 DEF Nodesets
  <2>3. \A k \in 1..n : s[k] \in A OBVIOUS
  <2>4. NoNodes \in A BY <2>1 DEF Nodesets
  <2>. HIDE DEF A
  <2>. QED BY <2>2, <2>3, <2>4
<1>3. D = 1..n /\ n \in Nat
  OBVIOUS
<1>4. \A k \in 1..n, a \in A : F[k][a] = MergeNodes(a, s[k])
  OBVIOUS
<1>. HIDE DEF A, F, n
<1>5. PICK it \in [SUBSET (1..n) -> A] : FoldsLeft(it, n, NoNodes, F)
  BY <1>2, <1>3, LeftFoldExists
<1>6. \A d \in SUBSET (1..n) : d # {} => Max(d) \in 1..n /\ d \ {Max(d)} \in SUBSET (1..n)
  BY <1>3, MaxExists
<1>. HIDE DEF D
<1>7. Unfolds(it)
  BY <1>3, <1>4, <1>5, <1>6 DEF FoldsLeft
<1>8. Unfolds(iter)
  <2>. HIDE DEF Unfolds
  <2>. QED BY <1>7
<1>. HIDE DEF iter
<1>9. FoldsWithin(iter, n, A, NoNodes, F)
  BY <1>3, <1>4, <1>6, <1>8 DEF FoldsWithin
<1>. HIDE DEF Unfolds
<1>10. PICK steps \in [0..n -> A] : StepsBy(steps, n, NoNodes, F) /\ iter[1..n] = steps[n]
  BY <1>2, <1>3, <1>9, FoldSteps
<1>11. \A k \in 1..n : steps[k] = MergeNodes(steps[k - 1], s[k])
  <2>1. \A k \in 1..n : k - 1 \in 0..n BY <1>3
  <2>. QED BY <1>4, <1>10, <2>1 DEF StepsBy
<1>. QED BY <1>1, <1>3, <1>10, <1>11 DEF n, StepsBy

-----------------------------------------------------------------------------
(* What the aggregation keeps.                                             *)

\* f is what the first input that has node n has of it.
Sees(s, n, f) ==
  \E k \in 1..Len(s) : /\ n \in DOMAIN s[k] /\ s[k][n] = f
                       /\ \A j \in 1..(k - 1) : n \notin DOMAIN s[j]

\* The same of the first k inputs.
SeesUpTo(s, k, n, f) ==
  \E i \in 1..k : /\ n \in DOMAIN s[i] /\ s[i][n] = f
                  /\ \A j \in 1..(i - 1) : n \notin DOMAIN s[j]

\* A node is aggregated as the first input that has it has it.
LEMMA AggregateSees ==
  ASSUME NEW N, NEW V, NEW s \in Seq(Nodesets(N, V))
  PROVE  /\ AggregateRanges(s) \in Nodesets(N, V)
         /\ \A n, f : n \in DOMAIN AggregateRanges(s) /\ AggregateRanges(s)[n] = f <=> Sees(s, n, f)
<1>. DEFINE Keeps(m, k) ==
             /\ m \in Nodesets(N, V)
             /\ \A n : n \in DOMAIN m <=> \E i \in 1..k : n \in DOMAIN s[i]
             /\ \A n, f : n \in DOMAIN m /\ m[n] = f <=> SeesUpTo(s, k, n, f)
<1>1. PICK it : /\ it[0] = NoNodes
                /\ \A k \in 1..Len(s) : it[k] = MergeNodes(it[k - 1], s[k])
                /\ AggregateRanges(s) = it[Len(s)]
  BY AggregateUnfolds
<1>. DEFINE S == {k \in Nat : k <= Len(s) => Keeps(it[k], k)}
<1>2. Keeps(it[0], 0)
  <2>1. NoNodes \in [{} -> V] /\ DOMAIN NoNodes = {}
    BY DEF NoNodes
  <2>2. 1..0 = {} OBVIOUS
  <2>. QED BY <1>1, <2>1, <2>2 DEF Nodesets, SeesUpTo
<1>3. ASSUME NEW k \in Nat, k + 1 <= Len(s), Keeps(it[k], k)
      PROVE  Keeps(it[k + 1], k + 1)
  <2>. DEFINE a == it[k]
              b == s[k + 1]
  <2>1. k + 1 \in 1..Len(s) /\ (k + 1) - 1 = k /\ 1..(k + 1) = 1..k \union {k + 1}
    BY <1>3
  <2>2. it[k + 1] = MergeNodes(a, b)
    BY <1>1, <2>1
  <2>3. PICK X \in SUBSET N : a \in [X -> V]
    BY <1>3 DEF Nodesets
  <2>4. PICK Y \in SUBSET N : b \in [Y -> V]
    <3>1. s[k + 1] \in Nodesets(N, V) BY <2>1
    <3>. QED BY <3>1 DEF Nodesets
  <2>5. /\ MergeNodes(a, b) \in [X \union Y -> V]
        /\ \A n \in X : MergeNodes(a, b)[n] = a[n]
        /\ \A n \in Y \ X : MergeNodes(a, b)[n] = b[n]
    BY <2>3, <2>4 DEF MergeNodes
  <2>6. /\ \A n : n \in X <=> \E i \in 1..k : n \in DOMAIN s[i]
        /\ \A n, f : n \in X /\ a[n] = f <=> SeesUpTo(s, k, n, f)
        /\ DOMAIN b = Y
    BY <1>3, <2>3, <2>4
  <2>7. \A n, f : SeesUpTo(s, k + 1, n, f) <=>
                    SeesUpTo(s, k, n, f) \/ (n \in Y \ X /\ b[n] = f)
    <3>. SUFFICES ASSUME NEW n, NEW f
                  PROVE  SeesUpTo(s, k + 1, n, f) <=>
                           SeesUpTo(s, k, n, f) \/ (n \in Y \ X /\ b[n] = f)
      OBVIOUS
    <3>1. SeesUpTo(s, k + 1, n, f) <=>
            \/ SeesUpTo(s, k, n, f)
            \/ /\ n \in DOMAIN s[k + 1] /\ s[k + 1][n] = f
               /\ \A j \in 1..k : n \notin DOMAIN s[j]
      BY <2>1, Zenon DEF SeesUpTo
    <3>. QED BY <2>6, <3>1
  <2>. HIDE DEF a, b
  <2>8. MergeNodes(a, b) \in Nodesets(N, V)
    BY <2>5 DEF Nodesets
  <2>9. \A n : n \in X \union Y <=> \E i \in 1..(k + 1) : n \in DOMAIN s[i]
    BY <2>1, <2>6 DEF b
  <2>10. DOMAIN MergeNodes(a, b) = X \union Y
    BY <2>5
  <2>11. ASSUME NEW n, NEW f
         PROVE n \in X \union Y /\ MergeNodes(a, b)[n] = f <=> SeesUpTo(s, k + 1, n, f)
    BY <2>5, <2>6, <2>7
  <2>. QED BY <2>2, <2>8, <2>9, <2>10, <2>11
<1>4. Keeps(it[Len(s)], Len(s))
  <2>. HIDE DEF Keeps
  <2>1. 0 \in S BY <1>2
  <2>2. \A k \in Nat : k \in S => k + 1 \in S BY <1>3
  <2>. HIDE DEF S
  <2>3. Nat \subseteq S BY <2>1, <2>2, NatSetInduction
  <2>4. Len(s) \in Nat OBVIOUS
  <2>. QED BY <2>3, <2>4 DEF S
<1>5. \A n, f : SeesUpTo(s, Len(s), n, f) <=> Sees(s, n, f)
  BY Zenon DEF Sees, SeesUpTo
<1>. QED BY <1>1, <1>4, <1>5

-----------------------------------------------------------------------------
(* Totals.                                                                 *)

Pick(d) == CHOOSE x \in d : TRUE

\* it adds up g over the subsets of S, from the element that is picked.
AddsUp(it, S, g) ==
  /\ it[{}] = 0
  /\ \A d \in SUBSET S : d # {} /\ it[d \ {Pick(d)}] \in Int =>
       it[d] = it[d \ {Pick(d)}] + g[Pick(d)]

\* The sum of the values of g.
Total(g) == (CHOOSE it : AddsUp(it, DOMAIN g, g))[DOMAIN g]

\* g on a part of its domain.
On(g, S) == [x \in S |-> g[x]]

LEMMA SumExists ==
  ASSUME NEW S, IsFiniteSet(S), NEW g \in [S -> Int]
  PROVE  \E it \in [SUBSET S -> Int] : AddsUp(it, S, g)
<1>. DEFINE pick == [d \in SUBSET S |-> Pick(d)]
            A == Int
            F == [x \in S |-> [a \in A |-> a + g[x]]]
<1>1. \A d \in SUBSET S : pick[d] = Pick(d) OBVIOUS
<1>2. \A d \in SUBSET S : d # {} => Pick(d) \in d
  BY DEF Pick
<1>3. F \in [S -> [A -> A]] /\ 0 \in A OBVIOUS
<1>4. \A x \in S, a \in Int : F[x][a] = a + g[x]
  OBVIOUS
<1>. HIDE DEF pick, F, A
<1>5. PICK it \in [SUBSET S -> A] : FoldsBy(it, S, pick, 0, F)
  <2>1. \A d \in SUBSET S : d # {} => pick[d] \in d BY <1>1, <1>2
  <2>. QED BY <1>3, <2>1, FoldExists
<1>. USE DEF A
<1>6. ASSUME NEW d \in SUBSET S, d # {}
      PROVE  it[d] = it[d \ {Pick(d)}] + g[Pick(d)]
  <2>1. Pick(d) \in S /\ it[d \ {Pick(d)}] \in Int
    BY <1>2, <1>6
  <2>2. it[d] = F[Pick(d)][it[d \ {Pick(d)}]]
    BY <1>1, <1>5, <1>6 DEF FoldsBy
  <2>. QED BY <1>4, <2>1, <2>2
<1>7. it[{}] = 0 BY <1>5 DEF FoldsBy
<1>. QED BY <1>5, <1>6, <1>7 DEF AddsUp

\* Induction over the subsets of a finite set, by the number of their elements.
LEMMA SubsetInduction ==
  ASSUME NEW S, IsFiniteSet(S), NEW P,
         {} \in P,
         \A d \in SUBSET S : d # {} /\ (\A x \in d : d \ {x} \in P) => d \in P
  PROVE  SUBSET S \subseteq P
<1>. DEFINE Q == {n \in Nat : \A d \in SUBSET S : Cardinality(d) = n => d \in P}
<1>0. \A d \in SUBSET S : IsFiniteSet(d) /\ Cardinality(d) \in Nat
  BY FS_Subset, FS_CardinalityType
<1>1. 0 \in Q
  <2>1. \A d \in SUBSET S : Cardinality(d) = 0 => d = {}
    BY <1>0, FS_EmptySet
  <2>. QED BY <2>1
<1>2. ASSUME NEW n \in Nat, n \in Q, NEW d \in SUBSET S, Cardinality(d) = n + 1
      PROVE  d \in P
  <2>1. d # {}
    <3>1. Cardinality({}) = 0 BY FS_EmptySet
    <3>2. n + 1 # 0 OBVIOUS
    <3>3. Cardinality(d) = n + 1 BY <1>2
    <3>. QED BY ONLY <3>1, <3>2, <3>3, Zenon
  <2>2. ASSUME NEW x \in d PROVE d \ {x} \in P
    <3>1. Cardinality(d \ {x}) = Cardinality(d) - 1
      BY <1>0, FS_RemoveElement
    <3>2. Cardinality(d \ {x}) = n /\ d \ {x} \in SUBSET S BY <1>2, <3>1
    <3>. QED BY <1>2, <3>2
  <2>. QED BY <2>1, <2>2
<1>3. \A n \in Nat : n \in Q => n + 1 \in Q BY <1>2
<1>. HIDE DEF Q
<1>4. Nat \subseteq Q BY <1>1, <1>3, NatSetInduction
<1>. QED BY <1>0, <1>4 DEF Q

\* A sum depends on the summands only: the order in which their elements are
\* picked is the same for all.
LEMMA SumsAgree ==
  ASSUME NEW S, IsFiniteSet(S), NEW g, NEW it, AddsUp(it, S, g),
         NEW T, NEW h, NEW jt, AddsUp(jt, T, h), S \subseteq T,
         \A x \in S : g[x] \in Int /\ g[x] = h[x]
  PROVE  \A d \in SUBSET S : it[d] \in Int /\ it[d] = jt[d]
<1>. DEFINE P == {d \in SUBSET S : it[d] \in Int /\ it[d] = jt[d]}
<1>1. {} \in P BY DEF AddsUp
<1>2. ASSUME NEW d \in SUBSET S, d # {}, \A x \in d : d \ {x} \in P
      PROVE  d \in P
  <2>1. Pick(d) \in d BY <1>2 DEF Pick
  <2>2. it[d \ {Pick(d)}] \in Int /\ it[d \ {Pick(d)}] = jt[d \ {Pick(d)}]
    BY <1>2, <2>1
  <2>3. d \in SUBSET T OBVIOUS
  <2>4. it[d] = it[d \ {Pick(d)}] + g[Pick(d)] /\ jt[d] = jt[d \ {Pick(d)}] + h[Pick(d)]
    BY <1>2, <2>2, <2>3 DEF AddsUp
  <2>. QED BY <2>1, <2>2, <2>4
<1>. HIDE DEF P
<1>3. SUBSET S \subseteq P BY <1>1, <1>2, SubsetInduction
<1>. QED BY <1>3 DEF P

\* Any element may come first.
LEMMA SumRemoves ==
  ASSUME NEW S, IsFiniteSet(S), NEW g \in [S -> Int],
         NEW it, AddsUp(it, S, g), NEW y \in S
  PROVE  it[S] = it[S \ {y}] + g[y]
<1>. DEFINE P == {d \in SUBSET S : \A x \in d : it[d] = it[d \ {x}] + g[x]}
<1>0. \A d \in SUBSET S : it[d] \in Int
  <2>1. S \subseteq S /\ \A x \in S : g[x] \in Int /\ g[x] = g[x] OBVIOUS
  <2>. QED BY <2>1, SumsAgree
<1>1. {} \in P OBVIOUS
<1>2. ASSUME NEW d \in SUBSET S, d # {}, \A x \in d : d \ {x} \in P
      PROVE  d \in P
  <2>. DEFINE p == Pick(d)
  <2>1. p \in d BY <1>2 DEF Pick
  <2>2. it[d] = it[d \ {p}] + g[p] BY <1>0, <1>2 DEF AddsUp
  <2>. HIDE DEF p
  <2>3. ASSUME NEW x \in d, x # p
        PROVE  it[d] = it[d \ {x}] + g[x]
    <3>1. x \in d \ {p} /\ p \in d \ {x} BY <2>1, <2>3
    <3>2. it[d \ {p}] = it[(d \ {p}) \ {x}] + g[x] BY <1>2, <2>1, <3>1
    <3>3. it[d \ {x}] = it[(d \ {x}) \ {p}] + g[p] BY <1>2, <3>1
    <3>4. (d \ {p}) \ {x} = (d \ {x}) \ {p} OBVIOUS
    <3>. DEFINE a == it[(d \ {x}) \ {p}]
    <3>5. a \in Int /\ g[x] \in Int /\ g[p] \in Int BY <1>0, <2>1
    <3>6. it[d \ {p}] = a + g[x] /\ it[d \ {x}] = a + g[p] BY <3>2, <3>3, <3>4, Zenon
    <3>. HIDE DEF a
    <3>. QED BY <2>2, <3>5, <3>6
  <2>. QED BY <2>2, <2>3
<1>. HIDE DEF P
<1>3. SUBSET S \subseteq P BY <1>1, <1>2, SubsetInduction
<1>4. S \in P BY <1>3
<1>. QED BY <1>4 DEF P

\* Total is the sum that any such function ends with.
LEMMA TotalIs ==
  ASSUME NEW S, IsFiniteSet(S), NEW g \in [S -> Int], NEW it, AddsUp(it, S, g)
  PROVE  Total(g) = it[S] /\ Total(g) \in Int
<1>. DEFINE total == CHOOSE jt : AddsUp(jt, DOMAIN g, g)
<1>1. AddsUp(total, S, g) OBVIOUS
<1>2. Total(g) = total[S] BY DEF Total
<1>. HIDE DEF total
<1>3. S \in SUBSET S /\ \A x \in S : g[x] \in Int /\ g[x] = g[x] OBVIOUS
<1>4. total[S] \in Int /\ total[S] = it[S] BY <1>1, <1>3, SumsAgree
<1>. QED BY <1>2, <1>4

LEMMA TotalRemoves ==
  ASSUME NEW S, IsFiniteSet(S), NEW g \in [S -> Int], NEW x \in S
  PROVE  /\ Total(g) \in Int /\ Total(On(g, S \ {x})) \in Int
         /\ Total(g) = Total(On(g, S \ {x})) + g[x]
<1>. DEFINE T == S \ {x}
            h == On(g, T)
<1>1. PICK it \in [SUBSET S -> Int] : AddsUp(it, S, g) BY SumExists
<1>2. IsFiniteSet(T) BY FS_Subset
<1>3. h \in [T -> Int] /\ \A y \in T : h[y] \in Int /\ h[y] = g[y] BY DEF On
<1>. HIDE DEF h
<1>4. PICK jt \in [SUBSET T -> Int] : AddsUp(jt, T, h) BY <1>2, <1>3, SumExists
<1>5. T \subseteq S /\ T \in SUBSET T OBVIOUS
<1>6. jt[T] = it[T] BY <1>1, <1>2, <1>3, <1>4, <1>5, SumsAgree
<1>7. Total(g) = it[S] /\ Total(g) \in Int BY <1>1, TotalIs
<1>8. Total(h) = jt[T] /\ Total(h) \in Int BY <1>2, <1>3, <1>4, TotalIs
<1>9. it[S] = it[T] + g[x] BY <1>1, SumRemoves
<1>. QED BY <1>6, <1>7, <1>8, <1>9 DEF h

LEMMA TotalOfNothing ==
  ASSUME NEW g, DOMAIN g = {}
  PROVE  Total(g) = 0
<1>. DEFINE total == CHOOSE jt : AddsUp(jt, {}, g)
<1>1. \E it : AddsUp(it, {}, g)
  <2>1. AddsUp([d \in {{}} |-> 0], {}, g) BY DEF AddsUp
  <2>. QED BY <2>1
<1>2. AddsUp(total, {}, g) BY <1>1
<1>. QED BY <1>2 DEF Total, AddsUp

\* Summands that are zero may be left out.
LEMMA TotalWithoutZeros ==
  ASSUME NEW S, IsFiniteSet(S), NEW g \in [S -> Int],
         NEW T \in SUBSET S, \A x \in S \ T : g[x] = 0
  PROVE  Total(g) = Total(On(g, T))
<1>. DEFINE P == {d \in SUBSET (S \ T) : Total(On(g, T \union d)) = Total(On(g, T))}
<1>1. {} \in P
  <2>1. T \union {} = T OBVIOUS
  <2>. QED BY <2>1
<1>2. ASSUME NEW d \in SUBSET (S \ T), d # {}, \A x \in d : d \ {x} \in P
      PROVE  d \in P
  <2>1. PICK x \in d : TRUE BY <1>2
  <2>. DEFINE D == T \union d
              h == On(g, D)
  <2>2. IsFiniteSet(D) BY FS_Subset
  <2>3. h \in [D -> Int] /\ h[x] = 0 /\ x \in D BY <2>1 DEF On
  <2>4. On(h, D \ {x}) = On(g, T \union (d \ {x}))
    <3>1. D \ {x} = T \union (d \ {x}) BY <2>1
    <3>. QED BY <3>1 DEF On
  <2>. HIDE DEF h, D
  <2>5. Total(On(h, D \ {x})) \in Int /\ Total(h) = Total(On(h, D \ {x})) + h[x]
    BY <2>2, <2>3, TotalRemoves
  <2>6. Total(On(g, T \union (d \ {x}))) = Total(On(g, T)) BY <1>2, <2>1
  <2>. QED BY <2>3, <2>4, <2>5, <2>6 DEF h, D
<1>3. IsFiniteSet(S \ T) BY FS_Subset
<1>. HIDE DEF P
<1>4. SUBSET (S \ T) \subseteq P BY <1>1, <1>2, <1>3, SubsetInduction
<1>5. S \ T \in P BY <1>4
<1>6. T \union (S \ T) = S /\ On(g, S) = g BY DEF On
<1>. QED BY <1>5, <1>6 DEF P

-----------------------------------------------------------------------------
(* The first source wins.                                                  *)

\* Listing f is the first that has node n.
IsFirst(w, n, f) == f \in Listing(w, n) /\ \A g \in Listing(w, n) : f <= g

\* What has been collected so far knows the first listing of every node, and no
\* other one, before and after the files of the repository are aggregated.
KeepsFirst(w) == \A n, f : Sees(parsed[w], n, f) <=> IsFirst(w, n, f)

\* From the aggregation on, the merged nodes are those of all the files.
Aggregated(w) ==
  worker[w] \in {"uploading", "uploaded", "failed"} =>
    merged[w] = [n \in Listed(w) |-> FirstListing(w, n)]

\* An object was stored by the last step of its goroutine.
Stored(w) ==
  \/ object[w] = None
  \/ /\ worker[w] \in {"uploaded", "failed"}
     /\ object[w] = [uploaded |-> TRUE, nodes |-> merged[w], total |-> TotalCount(merged[w])]

InputsOK ==
  /\ parsed \in [Networks -> Seq(Nodesets(Nodes, Nat))]
  /\ DOMAIN merged = Networks /\ DOMAIN object = Networks

NetworkOK(w) == KeepsFirst(w) /\ Aggregated(w) /\ Stored(w)

SourcesInv == InputsOK /\ \A w \in Networks : NetworkOK(w)

LEMMA FirstExists ==
  ASSUME NEW w \in Networks, NEW n, Listing(w, n) # {}
  PROVE  \E f : IsFirst(w, n, f)
<1>1. Listing(w, n) \in SUBSET Nat BY DEF Listing
<1>. QED BY <1>1, LeastNumber DEF IsFirst

LEMMA SeenExists ==
  ASSUME NEW s, NEW n, Len(s) \in Nat, NEW k \in 1..Len(s), n \in DOMAIN s[k]
  PROVE  \E f : Sees(s, n, f)
<1>. DEFINE K == {i \in 1..Len(s) : n \in DOMAIN s[i]}
<1>1. K \in SUBSET Nat /\ K # {} OBVIOUS
<1>2. PICK i \in K : \A j \in K : i <= j BY <1>1, LeastNumber
<1>3. \A j \in 1..(i - 1) : n \notin DOMAIN s[j] BY <1>2
<1>. QED BY <1>2, <1>3 DEF Sees

LEMMA SeesMore ==
  ASSUME NEW X, NEW s \in Seq(X), NEW c \in X, NEW n, NEW f
  PROVE  Sees(Append(s, c), n, f) <=>
           Sees(s, n, f) \/ (n \in DOMAIN c /\ c[n] = f /\ \A g : ~Sees(s, n, g))
<1>. DEFINE t == Append(s, c)
            l == Len(s)
<1>1. /\ l \in Nat /\ Len(t) = l + 1
      /\ \A k \in 1..l : t[k] = s[k]
      /\ t[l + 1] = c
  OBVIOUS
<1>2. 1..(l + 1) = 1..l \union {l + 1} /\ (l + 1) - 1 = l
  BY <1>1
<1>3. (\A j \in 1..l : n \notin DOMAIN s[j]) <=> (\A g : ~Sees(s, n, g))
  BY <1>1, SeenExists DEF Sees
<1>4. \A k \in 1..l : \A j \in 1..(k - 1) : j \in 1..l
  BY <1>1
<1>. HIDE DEF t, l
<1>5. Sees(t, n, f) <=>
        \/ Sees(s, n, f)
        \/ n \in DOMAIN c /\ c[n] = f /\ \A j \in 1..l : n \notin DOMAIN s[j]
  <2>1. Sees(t, n, f) <=>
          \/ \E k \in 1..l : /\ n \in DOMAIN t[k] /\ t[k][n] = f
                             /\ \A j \in 1..(k - 1) : n \notin DOMAIN t[j]
          \/ n \in DOMAIN t[l + 1] /\ t[l + 1][n] = f /\ \A j \in 1..l : n \notin DOMAIN t[j]
    BY <1>1, <1>2, Zenon DEF Sees
  <2>2. Sees(s, n, f) <=>
          \E k \in 1..l : /\ n \in DOMAIN t[k] /\ t[k][n] = f
                          /\ \A j \in 1..(k - 1) : n \notin DOMAIN t[j]
    BY <1>1, <1>4, Zenon DEF Sees, l
  <2>. QED BY <1>1, <2>1, <2>2
<1>. QED BY <1>3, <1>5 DEF t

LEMMA ListingGrows ==
  ASSUME FilesOK, NEW w \in Networks, NEW answer \in Answers,
         served' = [served EXCEPT ![w] = Append(@, answer)]
  PROVE  /\ \A n : Listing(w, n)' = Listing(w, n) \union
                     (IF answer.ok /\ n \in answer.nodes THEN {file[w]} ELSE {})
         /\ \A n : \A v \in Networks \ {w} : Listing(v, n)' = Listing(v, n)
         /\ \A n : \A f \in Listing(w, n) : f < file[w]
<1>1. /\ Len(served[w]) \in Nat /\ file[w] = Len(served[w]) + 1
      /\ Len(served'[w]) = file[w]
      /\ \A f \in 1..Len(served[w]) : served'[w][f] = served[w][f]
      /\ served'[w][file[w]] = answer
      /\ \A v \in Networks \ {w} : served'[v] = served[v]
  BY DEF FilesOK
<1>2. 1..file[w] = 1..Len(served[w]) \union {file[w]} /\ \A f \in 1..Len(served[w]) : f < file[w]
  BY <1>1
<1>3. ASSUME NEW n, NEW v \in Networks \ {w} PROVE Listing(v, n)' = Listing(v, n)
  BY <1>1 DEF Listing
<1>4. ASSUME NEW n
      PROVE  Listing(w, n)' = Listing(w, n) \union
                     (IF answer.ok /\ n \in answer.nodes THEN {file[w]} ELSE {})
  <2>1. Listing(w, n)' = {f \in 1..file[w] : served'[w][f].ok /\ n \in served'[w][f].nodes}
    BY <1>1 DEF Listing
  <2>. QED BY <1>1, <1>2, <2>1 DEF Listing
<1>5. ASSUME NEW n, NEW f \in Listing(w, n) PROVE f < file[w]
  BY <1>2 DEF Listing
<1>. QED BY <1>3, <1>4, <1>5

LEMMA FetchKeepsFirst ==
  ASSUME FilesOK, InputsOK, NEW w \in Networks, KeepsFirst(w), FetchFile(w)
  PROVE  parsed'[w] \in Seq(Nodesets(Nodes, Nat)) /\ KeepsFirst(w)'
<1>1. PICK answer \in Answers :
        /\ served' = [served EXCEPT ![w] = Append(@, answer)]
        /\ parsed' = [parsed EXCEPT ![w] = @ \o Contribution(file[w], answer)]
  BY DEF FetchFile
<1>. DEFINE P == Nodesets(Nodes, Nat)
<1>2. parsed[w] \in Seq(P) /\ parsed'[w] = parsed[w] \o Contribution(file[w], answer)
  BY <1>1 DEF InputsOK
<1>3. file[w] \in Nat BY DEF FilesOK
<1>4. CASE ~answer.ok
  <2>1. parsed'[w] = parsed[w]
    BY <1>2, <1>4 DEF Contribution
  <2>2. \A n : Listing(w, n)' = Listing(w, n)
    BY <1>1, <1>4, ListingGrows
  <2>. QED BY <1>2, <2>1, <2>2 DEF KeepsFirst, IsFirst
<1>5. CASE answer.ok
  <2>. DEFINE c == [n \in answer.nodes |-> file[w]]
  <2>1. answer.nodes \in SUBSET Nodes
    <3>1. answer # Failed BY <1>5 DEF Failed
    <3>2. answer \in [ok : {TRUE}, nodes : SUBSET Nodes] BY <3>1 DEF Answers
    <3>. QED BY <3>2
  <2>2. c \in [answer.nodes -> Nat] BY <1>3
  <2>3. c \in P BY <2>1, <2>2 DEF Nodesets
  <2>. HIDE DEF P, c
  <2>4. parsed'[w] = Append(parsed[w], c)
    <3>1. parsed'[w] = parsed[w] \o <<c>> BY <1>2, <1>5 DEF Contribution, c
    <3>. QED BY <1>2, <2>3, <3>1
  <2>5. ASSUME NEW n, NEW f
        PROVE  Sees(parsed'[w], n, f) <=> IsFirst(w, n, f)'
    <3>1. (\A g : ~Sees(parsed[w], n, g)) <=> Listing(w, n) = {}
      BY FirstExists DEF KeepsFirst, IsFirst
    <3>2. Sees(parsed'[w], n, f) <=>
            \/ IsFirst(w, n, f)
            \/ n \in answer.nodes /\ file[w] = f /\ Listing(w, n) = {}
      BY <1>2, <2>2, <2>3, <2>4, <3>1, SeesMore DEF KeepsFirst, c
    <3>3. Listing(w, n)' = Listing(w, n) \union (IF n \in answer.nodes THEN {file[w]} ELSE {})
      BY <1>1, <1>5, ListingGrows, Zenon
    <3>6. \A g \in Listing(w, n) : g < file[w]
      BY <1>1, ListingGrows, Zenon
    <3>4. \A g \in Listing(w, n) : g \in Nat BY DEF Listing
    <3>5. IsFirst(w, n, f)' <=> f \in Listing(w, n)' /\ \A g \in Listing(w, n)' : f <= g
      BY DEF IsFirst
    <3>. QED BY <1>3, <3>2, <3>3, <3>4, <3>5, <3>6 DEF IsFirst
  <2>6. parsed'[w] \in Seq(P) BY <1>2, <2>3, <2>4
  <2>. QED BY <2>5, <2>6 DEF KeepsFirst, P
<1>. QED BY <1>4, <1>5

LEMMA AggregateKeepsFirst ==
  ASSUME InputsOK, NEW w \in Networks, KeepsFirst(w), AggregateEth(w)
  PROVE  parsed'[w] \in Seq(Nodesets(Nodes, Nat)) /\ KeepsFirst(w)'
<1>. DEFINE s == parsed[w]
            m == AggregateRanges(s)
<1>1. s \in Seq(Nodesets(Nodes, Nat)) BY DEF InputsOK
<1>2. parsed'[w] = IF s = <<>> THEN <<>> ELSE <<m>>
  BY DEF AggregateEth, InputsOK
<1>3. \A n : Listing(w, n)' = Listing(w, n)
  BY DEF AggregateEth, Listing
<1>4. m \in Nodesets(Nodes, Nat) /\ \A n, f : n \in DOMAIN m /\ m[n] = f <=> Sees(s, n, f)
  BY <1>1, AggregateSees
<1>. HIDE DEF m
<1>5. \A n, f : Sees(<<m>>, n, f) <=> n \in DOMAIN m /\ m[n] = f
  <2>1. Len(<<m>>) = 1 /\ <<m>>[1] = m /\ 1..1 = {1} /\ 1..(1 - 1) = {}
    OBVIOUS
  <2>. QED BY <2>1, Zenon DEF Sees
<1>6. \A n, f : Sees(parsed'[w], n, f) <=> Sees(s, n, f)
  BY <1>2, <1>4, <1>5
<1>7. parsed'[w] \in Seq(Nodesets(Nodes, Nat))
  BY <1>1, <1>2, <1>4
<1>. QED BY <1>3, <1>6, <1>7 DEF KeepsFirst, IsFirst

\* What is merged at the end is the first listing of every node that is listed.
LEMMA AggregateIsExact ==
  ASSUME FilesOK, InputsOK, NEW w \in Networks, KeepsFirst(w)
  PROVE  AggregateRanges(parsed[w]) = [n \in Listed(w) |-> FirstListing(w, n)]
<1>. DEFINE m == AggregateRanges(parsed[w])
<1>1. parsed[w] \in Seq(Nodesets(Nodes, Nat)) BY DEF InputsOK
<1>2. m \in Nodesets(Nodes, Nat) /\ \A n, f : n \in DOMAIN m /\ m[n] = f <=> IsFirst(w, n, f)
  BY <1>1, AggregateSees DEF KeepsFirst
<1>3. PICK X \in SUBSET Nodes : m \in [X -> Nat]
  BY <1>2 DEF Nodesets
<1>. HIDE DEF m
<1>4. ASSUME NEW n, NEW f, IsFirst(w, n, f) PROVE FirstListing(w, n) = f
  <2>1. Listing(w, n) \in SUBSET Nat BY DEF Listing
  <2>2. \A g : IsFirst(w, n, g) => g = f BY <1>4, <2>1 DEF IsFirst
  <2>3. FirstListing(w, n) = CHOOSE g \in Listing(w, n) : \A h \in Listing(w, n) : g <= h
    BY DEF FirstListing
  <2>4. IsFirst(w, n, FirstListing(w, n)) BY <1>4, <2>3 DEF IsFirst
  <2>. QED BY <2>2, <2>4
<1>5. \A n \in X : IsFirst(w, n, m[n]) BY <1>2, <1>3
<1>6. X = Listed(w)
  <2>1. \A n \in Listed(w) : n \in X BY <1>2, <1>3, FirstExists DEF Listed
  <2>2. \A n \in X : n \in Listed(w) BY <1>5 DEF Listed, IsFirst
  <2>. QED BY <2>1, <2>2
<1>7. \A n \in X : m[n] = FirstListing(w, n) BY <1>4, <1>5
<1>. QED BY <1>3, <1>6, <1>7 DEF m

\* What a step that leaves network w alone leaves alone.
Same(w) ==
  /\ served'[w] = served[w] /\ parsed'[w] = parsed[w] /\ worker'[w] = worker[w]
  /\ merged'[w] = merged[w] /\ object'[w] = object[w]

LEMMA SameListings ==
  ASSUME NEW w, served'[w] = served[w]
  PROVE  /\ \A n : Listing(w, n)' = Listing(w, n) /\ FirstListing(w, n)' = FirstListing(w, n)
         /\ Listed(w)' = Listed(w)
<1>1. \A n : Listing(w, n)' = Listing(w, n) BY DEF Listing
<1>2. ASSUME NEW n PROVE FirstListing(w, n)' = FirstListing(w, n)
  <2>1. FirstListing(w, n)' = CHOOSE f \in Listing(w, n)' : \A g \in Listing(w, n)' : f <= g
    BY DEF FirstListing
  <2>. QED BY <1>1, <2>1 DEF FirstListing
<1>. QED BY <1>1, <1>2 DEF Listed

LEMMA SameIsFine ==
  ASSUME NEW w \in Networks, InputsOK, NetworkOK(w), Same(w)
  PROVE  parsed'[w] \in Seq(Nodesets(Nodes, Nat)) /\ NetworkOK(w)'
<1>. USE SameListings DEF NetworkOK, Same
<1>1. KeepsFirst(w)' BY DEF KeepsFirst, IsFirst
<1>2. Aggregated(w)' 
  <2>1. [n \in Listed(w) |-> FirstListing(w, n)]' = [n \in Listed(w) |-> FirstListing(w, n)]
    OBVIOUS
  <2>. QED BY <2>1 DEF Aggregated
<1>3. Stored(w)' BY DEF Stored
<1>4. parsed'[w] \in Seq(Nodesets(Nodes, Nat)) BY DEF InputsOK
<1>. QED BY <1>1, <1>2, <1>3, <1>4

\* The tables keep their domains.
LEMMA TablesStay ==
  ASSUME InputsOK, [Next]_vars
  PROVE  /\ DOMAIN merged' = Networks /\ DOMAIN object' = Networks
         /\ parsed' = [w \in Networks |-> parsed'[w]]
<1>. USE DEF InputsOK
<1>1. DOMAIN merged' = Networks
  BY DEF vars, mainVars, workerVars, Next, MainNext, DownloadSucceeds, DownloadFails,
       DownloadBreaksOff, Launch, AllLaunched, Completes, Interrupted, Exits, Ends, Signal,
       WorkerNext, FetchFile, AggregateEth, Skip, Aggregate, UploadSucceeds, UploadFails
<1>2. DOMAIN object' = Networks
  BY DEF vars, mainVars, workerVars, Next, MainNext, DownloadSucceeds, DownloadFails,
       DownloadBreaksOff, Launch, AllLaunched, Completes, Interrupted, Exits, Ends, Signal,
       WorkerNext, FetchFile, AggregateEth, Skip, Aggregate, UploadSucceeds, UploadFails, Upload
<1>3. parsed' = [w \in Networks |-> parsed'[w]]
  BY DEF vars, mainVars, workerVars, Next, MainNext, DownloadSucceeds, DownloadFails,
       DownloadBreaksOff, Launch, AllLaunched, Completes, Interrupted, Exits, Ends, Signal,
       WorkerNext, FetchFile, AggregateEth, Skip, Aggregate, UploadSucceeds, UploadFails
<1>. QED BY <1>1, <1>2, <1>3

\* A step is about one network at most.
LEMMA OneNetwork ==
  ASSUME FilesOK, WorkersOK, InputsOK, [Next]_vars
  PROVE  \/ \A v \in Networks : Same(v)
         \/ \E w \in Networks : /\ Launch(w) \/ WorkerNext(w)
                                /\ \A v \in Networks \ {w} : Same(v)
<1>. USE DEF Same
<1>1. ASSUME NEW w \in Networks, Launch(w) \/ WorkerNext(w), NEW v \in Networks \ {w}
      PROVE  Same(v)
  <2>. USE <1>1 DEF Launch, WorkerNext, FetchFile, AggregateEth, Skip, Aggregate, UploadSucceeds,
         UploadFails, Finishes, Steps, Upload, FilesOK, WorkersOK, InputsOK, workerVars
  <2>1. served'[v] = served[v] OBVIOUS
  <2>2. parsed'[v] = parsed[v] OBVIOUS
  <2>3. worker'[v] = worker[v] OBVIOUS
  <2>4. merged'[v] = merged[v] OBVIOUS
  <2>5. object'[v] = object[v] OBVIOUS
  <2>. QED BY <2>1, <2>2, <2>3, <2>4, <2>5
<1>2. CASE UNCHANGED <<workerVars, object>>
  BY <1>2 DEF workerVars
<1>3. UNCHANGED <<workerVars, object>> \/ \E w \in Networks : Launch(w) \/ WorkerNext(w)
  BY DEF vars, mainVars, workerVars, Next, MainNext, DownloadSucceeds, DownloadFails,
       DownloadBreaksOff, AllLaunched, Completes, Interrupted, Exits, Ends, Signal
<1>. QED BY <1>1, <1>2, <1>3

\* The network that a step is about.
LEMMA NetworkStep ==
  ASSUME FilesOK, WorkersOK, InputsOK, NEW w \in Networks, NetworkOK(w),
         Launch(w) \/ WorkerNext(w)
  PROVE  parsed'[w] \in Seq(Nodesets(Nodes, Nat)) /\ NetworkOK(w)'
<1>. USE DEF NetworkOK
<1>1. CASE FetchFile(w)
  <2>1. worker[w] = "fetching" /\ worker'[w] \in {"fetching", "aggregatingEth"} /\ object' = object
    BY <1>1 DEF FetchFile, Steps, WorkersOK
  <2>. QED BY <1>1, <2>1, FetchKeepsFirst DEF Aggregated, Stored
<1>2. CASE AggregateEth(w)
  <2>1. worker[w] = "aggregatingEth" /\ worker'[w] = "fetching" /\ object' = object
    BY <1>2 DEF AggregateEth, Steps, WorkersOK
  <2>. QED BY <1>2, <2>1, AggregateKeepsFirst DEF Aggregated, Stored
<1>3. CASE Launch(w) \/ Skip(w)
  <2>1. /\ worker[w] \in {"pending", "fetching"} /\ worker'[w] \in {"fetching", "skipped"}
        /\ UNCHANGED <<object, parsed, served>>
    BY <1>3 DEF Launch, Skip, Finishes, WorkersOK
  <2>2. KeepsFirst(w)' BY <2>1, SameListings DEF KeepsFirst, IsFirst
  <2>. QED BY <2>1, <2>2 DEF Aggregated, Stored, InputsOK
<1>4. CASE Aggregate(w)
  <2>1. /\ worker[w] = "fetching" /\ worker'[w] = "uploading"
        /\ merged'[w] = AggregateRanges(parsed[w])
        /\ UNCHANGED <<object, parsed, served>>
    BY <1>4 DEF Aggregate, Steps, WorkersOK, InputsOK
  <2>2. KeepsFirst(w)' BY <2>1, SameListings DEF KeepsFirst, IsFirst
  <2>3. merged'[w] = [n \in Listed(w) |-> FirstListing(w, n)]
    BY <2>1, AggregateIsExact
  <2>4. merged'[w] = [n \in Listed(w) |-> FirstListing(w, n)]'
    BY <2>1, <2>3, SameListings
  <2>. QED BY <2>1, <2>2, <2>4 DEF Aggregated, Stored, InputsOK
<1>5. CASE UploadSucceeds(w) \/ UploadFails(w)
  <2>1. /\ worker[w] = "uploading" /\ worker'[w] \in {"uploaded", "failed"}
        /\ UNCHANGED <<merged, parsed, served>>
    BY <1>5 DEF UploadSucceeds, UploadFails, Finishes, WorkersOK
  <2>2. KeepsFirst(w)' BY <2>1, SameListings DEF KeepsFirst, IsFirst
  <2>3. [n \in Listed(w) |-> FirstListing(w, n)]' = [n \in Listed(w) |-> FirstListing(w, n)]
    BY <2>1, SameListings
  <2>4. Aggregated(w)' BY <2>1, <2>3 DEF Aggregated
  <2>5. Stored(w)'
    <3>1. Upload(w) \/ object' = object BY <1>5 DEF UploadSucceeds, UploadFails
    <3>2. CASE object' = object BY <2>1, <3>2 DEF Stored
    <3>3. CASE Upload(w) BY <2>1, <3>3 DEF Stored, Upload, InputsOK
    <3>. QED BY <3>1, <3>2, <3>3
  <2>. QED BY <2>1, <2>2, <2>4, <2>5 DEF InputsOK
<1>. QED BY <1>1, <1>2, <1>3, <1>4, <1>5 DEF WorkerNext

LEMMA SourcesStep ==
  ASSUME FilesOK, WorkersOK, SourcesInv, [Next]_vars
  PROVE  SourcesInv'
<1>1. InputsOK /\ \A w \in Networks : NetworkOK(w) BY DEF SourcesInv
<1>2. ASSUME NEW w \in Networks
      PROVE  parsed'[w] \in Seq(Nodesets(Nodes, Nat)) /\ NetworkOK(w)'
  <2>1. Same(w) \/ Launch(w) \/ WorkerNext(w) BY <1>1, OneNetwork
  <2>. QED BY <1>1, <2>1, SameIsFine, NetworkStep
<1>3. InputsOK' BY <1>1, <1>2, TablesStay DEF InputsOK
<1>. QED BY <1>2, <1>3 DEF SourcesInv

\* The invariant says what an object holds, and the total is the sum over its nodes.
LEMMA SourcesImply ==
  ASSUME SourcesInv
  PROVE  FirstSourceWins
<1>. SUFFICES ASSUME NEW w \in Networks, object[w].uploaded
              PROVE  /\ object[w].nodes = [n \in Listed(w) |-> FirstListing(w, n)]
                     /\ object[w].total =
                          FoldSet(LAMBDA n, sum : sum + FirstListing(w, n), 0, Listed(w))
  BY DEF FirstSourceWins
<1>1. object[w] # None BY DEF None
<1>2. /\ object[w].nodes = [n \in Listed(w) |-> FirstListing(w, n)]
      /\ object[w].total = TotalCount([n \in Listed(w) |-> FirstListing(w, n)])
  <2>1. Aggregated(w) /\ Stored(w) BY DEF SourcesInv, NetworkOK
  <2>2. /\ worker[w] \in {"uploaded", "failed"}
        /\ object[w] = [uploaded |-> TRUE, nodes |-> merged[w], total |-> TotalCount(merged[w])]
    BY <1>1, <2>1 DEF Stored
  <2>3. merged[w] = [n \in Listed(w) |-> FirstListing(w, n)] BY <2>1, <2>2 DEF Aggregated
  <2>4. object[w].nodes = merged[w] /\ object[w].total = TotalCount(merged[w])
    BY <2>2
  <2>. QED BY <2>3, <2>4
<1>3. IsFiniteSet(Listed(w))
  <2>1. Listed(w) \in SUBSET Nodes BY DEF Listed
  <2>. QED BY <2>1, RangesAssumption, FS_Subset DEF RangesAssumption
<1>4. ASSUME NEW n \in Listed(w) PROVE FirstListing(w, n) \in Nat
  <2>1. Listing(w, n) # {} BY DEF Listed
  <2>2. PICK f : IsFirst(w, n, f) BY <2>1, FirstExists
  <2>3. FirstListing(w, n) \in Listing(w, n) BY <2>2 DEF IsFirst, FirstListing
  <2>. QED BY <2>3 DEF Listing
<1>5. TotalCount([n \in Listed(w) |-> FirstListing(w, n)])
        = FoldSet(LAMBDA n, sum : sum + FirstListing(w, n), 0, Listed(w))
  <2>. DEFINE S == Listed(w)
              g == [n \in S |-> FirstListing(w, n)]
              Before(it) == it = [d \in SUBSET S |->
                                    IF d = {} THEN 0 ELSE g[Pick(d)] + it[d \ {Pick(d)}]]
              After(it) == it = [d \in SUBSET S |->
                                   IF d = {} THEN 0
                                   ELSE it[d \ {Pick(d)}] + FirstListing(w, Pick(d))]
              before == CHOOSE it : Before(it)
              after == CHOOSE it : After(it)
  <2>1. TotalCount(g) = before[S]
    BY DEF TotalCount, FoldFunction, FoldFunctionOnSet, MapThenFoldSet, Pick
  <2>2. FoldSet(LAMBDA n, sum : sum + FirstListing(w, n), 0, S) = after[S]
    BY DEF FoldSet, MapThenFoldSet, Pick
  <2>3. IsFiniteSet(S) /\ g \in [S -> Int] BY <1>3, <1>4
  <2>4. \A d \in SUBSET S : d # {} =>
          Pick(d) \in S /\ d \ {Pick(d)} \in SUBSET S /\ g[Pick(d)] = FirstListing(w, Pick(d))
    BY DEF Pick
  <2>. HIDE DEF g
  <2>5. PICK it \in [SUBSET S -> Int] : AddsUp(it, S, g)
    BY <2>3, SumExists
  <2>6. Before(it) /\ After(it)
    <3>1. it[{}] = 0 BY <2>5 DEF AddsUp
    <3>2. ASSUME NEW d \in SUBSET S, d # {}
          PROVE  /\ it[d] = it[d \ {Pick(d)}] + FirstListing(w, Pick(d))
                 /\ it[d] = g[Pick(d)] + it[d \ {Pick(d)}]
      <4>1. it[d \ {Pick(d)}] \in Int /\ g[Pick(d)] \in Int /\ g[Pick(d)] = FirstListing(w, Pick(d))
        BY <2>3, <2>4, <3>2
      <4>2. it[d] = it[d \ {Pick(d)}] + g[Pick(d)] BY <2>5, <3>2, <4>1 DEF AddsUp
      <4>. QED BY <4>1, <4>2
    <3>. QED BY <3>1, <3>2
  <2>7. Before(before) /\ After(after)
    <3>. HIDE DEF Before, After
    <3>. QED BY <2>6
  <2>8. AddsUp(before, S, g)
    <3>. HIDE DEF before, after
    <3>1. before[{}] = 0 BY <2>7
    <3>2. ASSUME NEW d \in SUBSET S, d # {}, before[d \ {Pick(d)}] \in Int
          PROVE  before[d] = before[d \ {Pick(d)}] + g[Pick(d)]
      <4>1. before[d] = g[Pick(d)] + before[d \ {Pick(d)}] BY <2>7, <3>2
      <4>2. g[Pick(d)] \in Int BY <2>3, <2>4, <3>2
      <4>. QED BY <3>2, <4>1, <4>2
    <3>. QED BY <3>1, <3>2 DEF AddsUp
  <2>9. AddsUp(after, S, g)
    <3>. HIDE DEF before, after
    <3>. QED BY <2>4, <2>7 DEF AddsUp
  <2>. HIDE DEF before, after, Before, After, S
  <2>10. Total(g) = before[S] /\ Total(g) = after[S] BY <2>3, <2>8, <2>9, TotalIs
  <2>. QED BY <2>1, <2>2, <2>10 DEF g, S
<1>. QED BY <1>2, <1>5

LEMMA SourcesInit ==
  ASSUME Init
  PROVE  SourcesInv
<1>1. ASSUME NEW w \in Networks PROVE NetworkOK(w)
  <2>1. parsed[w] = <<>> /\ served[w] = <<>> /\ worker[w] = "pending" /\ object[w] = None
    BY DEF Init
  <2>2. \A n : Listing(w, n) = {} BY <2>1 DEF Listing
  <2>3. \A n, f : ~Sees(parsed[w], n, f) BY <2>1 DEF Sees
  <2>. QED BY <2>1, <2>2, <2>3 DEF NetworkOK, KeepsFirst, IsFirst, Aggregated, Stored
<1>2. InputsOK BY DEF Init, InputsOK
<1>. QED BY <1>1, <1>2 DEF SourcesInv

\* An object holds exactly the nodes that some file listed, each as the first such
\* file has it, and their total, however many files fail and wherever they come from.
THEOREM SourcesAreMerged == Spec => []FirstSourceWins
<1>1. Init => SourcesInv BY SourcesInit
<1>2. TypeOK /\ SourcesInv /\ [Next]_vars => SourcesInv'
  BY SourcesStep DEF TypeOK, FilesOK, WorkersOK
<1>3. SourcesInv => FirstSourceWins BY SourcesImply
<1>. QED BY <1>1, <1>2, <1>3, TypeCorrect, PTL DEF Spec

-----------------------------------------------------------------------------
(* The parser: the INI file that a part of the inventory makes.            *)

KeyType == [host : STRING, first : STRING, value : Seq(Variable)]
SectionType == [name : STRING, keys : Seq(KeyType)]
RangeType == [start : Int, end : Int]

\* Line j has the same section, host and first variable as line i.
SameKey(i, j) ==
  /\ inventory[j].vars # <<>>
  /\ inventory[i].section = inventory[j].section /\ inventory[i].host = inventory[j].host
  /\ inventory[i].vars[1].name = inventory[j].vars[1].name

\* The lines that the first n lines leave in effect, those of DEFAULT included.
InEffect(n) ==
  {i \in 1..n : inventory[i].vars # <<>> /\ ~\E j \in 1..n : i < j /\ SameKey(i, j)}

KeyOf(i) ==
  [host  |-> inventory[i].host,
   first |-> inventory[i].vars[1].name,
   value |-> Tail(inventory[i].vars)]

\* x is the key of one of them, in section s.
Written(n, s, x) == \E i \in InEffect(n) : inventory[i].section = s /\ KeyOf(i) = x

\* x is a key of section s.
Holds(secs, s, x) ==
  \E a \in DOMAIN secs : secs[a].name = s /\ \E k \in DOMAIN secs[a].keys : secs[a].keys[k] = x

Distinct(keys) ==
  \A j, k \in DOMAIN keys : keys[j].host = keys[k].host /\ keys[j].first = keys[k].first => j = k

WellFormed(secs) ==
  /\ \A a, b \in DOMAIN secs : secs[a].name = secs[b].name => a = b
  /\ \A a \in DOMAIN secs : Distinct(secs[a].keys)

ParserOK ==
  /\ inventory \in Seq(HostLine)
  /\ line \in 0..Len(inventory)
  /\ sections \in Seq(SectionType)
  /\ sectionsParsed \in 0..Len(sections)
  /\ sectionsParsed > 0 => line = Len(inventory)

\* The INI file holds the keys of the lines in effect.
FileIsRead == WellFormed(sections) /\ \A s, x : Holds(sections, s, x) <=> Written(line, s, x)

LEMMA LineType ==
  ASSUME inventory \in Seq(HostLine), NEW i \in 1..Len(inventory)
  PROVE  /\ inventory[i].section \in STRING /\ inventory[i].host \in STRING
         /\ inventory[i].vars \in Seq(Variable)
         /\ inventory[i].vars # <<>> => KeyOf(i) \in KeyType
<1>1. inventory[i] \in HostLine OBVIOUS
<1>2. /\ inventory[i].section \in STRING /\ inventory[i].host \in STRING
      /\ inventory[i].vars \in Seq(Variable)
  BY <1>1 DEF HostLine
<1>3. ASSUME inventory[i].vars # <<>> PROVE KeyOf(i) \in KeyType
  <2>1. Len(inventory[i].vars) # 0 /\ Len(inventory[i].vars) \in Nat BY <1>2, <1>3
  <2>2. inventory[i].vars[1] \in Variable BY <1>2, <2>1
  <2>3. inventory[i].vars[1].name \in STRING BY <2>2 DEF Variable
  <2>4. Tail(inventory[i].vars) \in Seq(Variable) BY <1>2, <1>3
  <2>. HIDE DEF Variable
  <2>. QED BY <1>2, <2>3, <2>4 DEF KeyOf, KeyType
<1>. QED BY <1>2, <1>3

\* A line without variables changes nothing; another one replaces what was written
\* for the same section, host and first variable.
LEMMA WritesLine ==
  ASSUME inventory \in Seq(HostLine), NEW n \in Nat, n < Len(inventory), NEW s, NEW x
  PROVE  LET l == inventory[n + 1] IN
         Written(n + 1, s, x) <=>
           IF l.vars = <<>> THEN Written(n, s, x)
           ELSE \/ s = l.section /\ x = KeyOf(n + 1)
                \/ /\ Written(n, s, x)
                   /\ ~(s = l.section /\ x.host = l.host /\ x.first = l.vars[1].name)
<1>. DEFINE l == inventory[n + 1]
<1>1. 1..(n + 1) = 1..n \union {n + 1} /\ \A i \in 1..n : i < n + 1 /\ ~(n + 1 < i)
  OBVIOUS
<1>2. CASE l.vars = <<>>
  <2>1. InEffect(n + 1) = InEffect(n) BY <1>1, <1>2 DEF InEffect, SameKey
  <2>. QED BY <1>2, <2>1 DEF Written
<1>3. CASE l.vars # <<>>
  <2>1. \A i : i \in InEffect(n + 1) <=> i = n + 1 \/ (i \in InEffect(n) /\ ~SameKey(i, n + 1))
    BY <1>1, <1>3 DEF InEffect
  <2>2. \A i : SameKey(i, n + 1) <=>
          /\ inventory[i].section = l.section
          /\ KeyOf(i).host = l.host /\ KeyOf(i).first = l.vars[1].name
    BY <1>3 DEF SameKey, KeyOf
  <2>3. Written(n + 1, s, x) <=>
           \/ s = l.section /\ x = KeyOf(n + 1)
           \/ \E i \in InEffect(n) : ~SameKey(i, n + 1) /\ inventory[i].section = s /\ KeyOf(i) = x
    BY <2>1 DEF Written
  <2>. QED BY <1>3, <2>2, <2>3 DEF Written
<1>. QED BY <1>2, <1>3

LEMMA SectionExists ==
  ASSUME NEW secs \in Seq(SectionType), WellFormed(secs), NEW s \in STRING
  PROVE  /\ SectionOf(secs, s) \in Seq(SectionType)
         /\ WellFormed(SectionOf(secs, s))
         /\ \E a \in DOMAIN SectionOf(secs, s) : SectionOf(secs, s)[a].name = s
         /\ \A r, x : Holds(SectionOf(secs, s), r, x) <=> Holds(secs, r, x)
<1>1. CASE \E a \in DOMAIN secs : secs[a].name = s
  BY <1>1 DEF SectionOf
<1>2. CASE ~\E a \in DOMAIN secs : secs[a].name = s
  <2>. DEFINE new == [name |-> s, keys |-> <<>>]
              t == Append(secs, new)
  <2>1. new \in SectionType
    <3>1. <<>> \in Seq(KeyType) OBVIOUS
    <3>. HIDE DEF KeyType
    <3>. QED BY <3>1 DEF SectionType
  <2>2. new.name = s /\ DOMAIN new.keys = {} OBVIOUS
  <2>3. SectionOf(secs, s) = t BY <1>2 DEF SectionOf
  <2>. HIDE DEF new
  <2>4. /\ t \in Seq(SectionType)
        /\ Len(t) = Len(secs) + 1 /\ t[Len(secs) + 1] = new
        /\ \A i \in 1..Len(secs) : t[i] = secs[i]
    BY <2>1, Appended
  <2>5. DOMAIN secs = 1..Len(secs) /\ DOMAIN t = 1..Len(secs) \union {Len(secs) + 1}
    BY <2>4
  <2>. HIDE DEF t
  <2>6. WellFormed(t)
    BY <1>2, <2>2, <2>4, <2>5 DEF WellFormed, Distinct
  <2>7. \A r, x : Holds(t, r, x) <=> Holds(secs, r, x)
    BY <2>2, <2>4, <2>5 DEF Holds
  <2>. QED BY <2>2, <2>3, <2>4, <2>5, <2>6, <2>7
<1>. QED BY <1>1, <1>2

LEMMA KeyIsSet ==
  ASSUME NEW keys \in Seq(KeyType), Distinct(keys), NEW key \in KeyType
  PROVE  /\ SetKey(keys, key) \in Seq(KeyType)
         /\ Distinct(SetKey(keys, key))
         /\ \A x : (\E k \in DOMAIN SetKey(keys, key) : SetKey(keys, key)[k] = x) <=>
                     \/ x = key
                     \/ /\ \E k \in DOMAIN keys : keys[k] = x
                        /\ ~(x.host = key.host /\ x.first = key.first)
<1>. DEFINE same == {i \in DOMAIN keys : keys[i].host = key.host /\ keys[i].first = key.first}
<1>1. CASE same = {}
  <2>. DEFINE t == Append(keys, key)
  <2>1. SetKey(keys, key) = t BY <1>1 DEF SetKey
  <2>2. /\ t \in Seq(KeyType)
        /\ Len(t) = Len(keys) + 1 /\ t[Len(keys) + 1] = key
        /\ \A i \in 1..Len(keys) : t[i] = keys[i]
    BY Appended
  <2>3. DOMAIN keys = 1..Len(keys) /\ DOMAIN t = 1..Len(keys) \union {Len(keys) + 1}
    BY <2>2
  <2>. HIDE DEF t
  <2>4. Distinct(t) BY <1>1, <2>2, <2>3 DEF Distinct
  <2>5. \A x : (\E k \in DOMAIN t : t[k] = x) <=> x = key \/ \E k \in DOMAIN keys : keys[k] = x
    BY <2>2, <2>3
  <2>. QED BY <1>1, <2>1, <2>2, <2>4, <2>5
<1>2. CASE same # {}
  <2>. DEFINE t == [i \in DOMAIN keys |-> IF i \in same THEN key ELSE keys[i]]
  <2>1. SetKey(keys, key) = t BY <1>2 DEF SetKey
  <2>2. t \in Seq(KeyType) /\ DOMAIN t = DOMAIN keys
    <3>1. \A i \in 1..Len(keys) : t[i] \in KeyType OBVIOUS
    <3>2. t \in [1..Len(keys) -> KeyType] BY <3>1
    <3>. QED BY <3>2
  <2>3. \A i \in DOMAIN keys : t[i].host = keys[i].host /\ t[i].first = keys[i].first
    OBVIOUS
  <2>4. Distinct(t) BY <2>2, <2>3 DEF Distinct
  <2>5. PICK i \in same : TRUE BY <1>2
  <2>6. ASSUME NEW x
        PROVE  (\E k \in DOMAIN t : t[k] = x) <=>
                 \/ x = key
                 \/ /\ \E k \in DOMAIN keys : keys[k] = x
                    /\ ~(x.host = key.host /\ x.first = key.first)
    BY <2>5
  <2>. QED BY <2>1, <2>2, <2>4, <2>6
<1>. QED BY <1>1, <1>2

\* The section gets the key.
PutKey(secs, s, key) ==
  [i \in DOMAIN secs |->
     IF secs[i].name = s THEN [secs[i] EXCEPT !.keys = SetKey(@, key)] ELSE secs[i]]

LEMMA KeyIsPut ==
  ASSUME NEW secs \in Seq(SectionType), WellFormed(secs), NEW s, NEW key \in KeyType,
         \E a \in DOMAIN secs : secs[a].name = s
  PROVE  /\ PutKey(secs, s, key) \in Seq(SectionType)
         /\ WellFormed(PutKey(secs, s, key))
         /\ \A r, x : Holds(PutKey(secs, s, key), r, x) <=>
              \/ r = s /\ x = key
              \/ Holds(secs, r, x) /\ ~(r = s /\ x.host = key.host /\ x.first = key.first)
<1>. DEFINE t == PutKey(secs, s, key)
<1>1. PICK a \in DOMAIN secs : secs[a].name = s OBVIOUS
<1>2. \A b \in DOMAIN secs : secs[b].name = s <=> b = a
  BY <1>1 DEF WellFormed
<1>3. DOMAIN t = DOMAIN secs BY DEF PutKey
<1>4. \A b \in DOMAIN secs \ {a} : t[b] = secs[b] BY <1>2 DEF PutKey
<1>5. secs[a] \in SectionType BY <1>1
<1>6. secs[a].keys \in Seq(KeyType) /\ secs[a].name \in STRING BY <1>5 DEF SectionType
<1>. DEFINE new == SetKey(secs[a].keys, key)
<1>7. t[a].name = secs[a].name /\ t[a].keys = new /\ t[a] = [name |-> secs[a].name, keys |-> new]
  BY <1>1, <1>5 DEF PutKey, SectionType
<1>8. Distinct(secs[a].keys) BY <1>1 DEF WellFormed
<1>9. /\ new \in Seq(KeyType) /\ Distinct(new)
      /\ \A x : (\E k \in DOMAIN new : new[k] = x) <=>
                  \/ x = key
                  \/ /\ \E k \in DOMAIN secs[a].keys : secs[a].keys[k] = x
                     /\ ~(x.host = key.host /\ x.first = key.first)
  BY <1>6, <1>8, KeyIsSet
<1>. HIDE DEF t, new
<1>10. t[a] \in SectionType BY <1>6, <1>7, <1>9 DEF SectionType
<1>11. t \in Seq(SectionType)
  <2>1. \A b \in 1..Len(secs) : t[b] \in SectionType BY <1>4, <1>10
  <2>2. t = [b \in DOMAIN secs |-> t[b]] BY Zenon DEF t, PutKey
  <2>3. DOMAIN secs = 1..Len(secs) OBVIOUS
  <2>4. t = [b \in 1..Len(secs) |-> t[b]] BY <2>2, <2>3, Zenon
  <2>5. t \in [1..Len(secs) -> SectionType] BY <2>1, <2>4, Zenon
  <2>. QED BY <2>5
<1>12. WellFormed(t)
  <2>1. \A b \in DOMAIN secs : t[b].name = secs[b].name BY <1>4, <1>7
  <2>2. \A b \in DOMAIN secs : Distinct(t[b].keys) BY <1>4, <1>7, <1>9 DEF WellFormed
  <2>. QED BY <1>3, <2>1, <2>2 DEF WellFormed
<1>13. ASSUME NEW r, NEW x
       PROVE  Holds(t, r, x) <=>
              \/ r = s /\ x = key
              \/ Holds(secs, r, x) /\ ~(r = s /\ x.host = key.host /\ x.first = key.first)
  <2>1. CASE r = s
    <3>1. Holds(t, r, x) <=> \E k \in DOMAIN new : new[k] = x
      BY <1>1, <1>2, <1>3, <1>4, <1>7, <2>1 DEF Holds
    <3>2. Holds(secs, r, x) <=> \E k \in DOMAIN secs[a].keys : secs[a].keys[k] = x
      BY <1>1, <1>2, <2>1 DEF Holds
    <3>. QED BY <1>9, <2>1, <3>1, <3>2
  <2>2. CASE r # s
    BY <1>1, <1>2, <1>3, <1>4, <1>7, <2>2 DEF Holds
  <2>. QED BY <2>1, <2>2
<1>. QED BY <1>11, <1>12, <1>13 DEF t

LEMMA ReadLineKeeps ==
  ASSUME ParserOK, FileIsRead, ReadLine
  PROVE  ParserOK' /\ FileIsRead'
<1>. DEFINE n == line + 1
            l == inventory[n]
            secs == SectionOf(sections, l.section)
            key == KeyOf(n)
<1>1. /\ inventory \in Seq(HostLine) /\ line \in Nat /\ line < Len(inventory)
      /\ n \in 1..Len(inventory) /\ line' = n
      /\ UNCHANGED <<inventory, sectionsParsed>>
  BY DEF ParserOK, ReadLine
<1>2. sectionsParsed = 0 BY <1>1 DEF ParserOK
<1>3. l.section \in STRING /\ (l.vars # <<>> => key \in KeyType)
  BY <1>1, LineType
<1>4. sections' = IF l.vars = <<>> THEN secs ELSE PutKey(secs, l.section, key)
  BY DEF ReadLine, PutKey, KeyOf
<1>5. /\ secs \in Seq(SectionType) /\ WellFormed(secs)
      /\ \E a \in DOMAIN secs : secs[a].name = l.section
      /\ \A r, x : Holds(secs, r, x) <=> Holds(sections, r, x)
  BY <1>3, SectionExists DEF ParserOK, FileIsRead
<1>6. \A s, x : Written(line, s, x)' <=> Written(n, s, x)
  BY <1>1 DEF Written, InEffect, SameKey, KeyOf
<1>7. key.host = l.host /\ key.first = l.vars[1].name BY DEF KeyOf
<1>8. \A s, x : Holds(secs, s, x) <=> Written(line, s, x) BY <1>5 DEF FileIsRead
<1>. HIDE DEF n, l, secs, key
<1>9. CASE l.vars = <<>>
  <2>1. \A s, x : Written(n, s, x) <=> Written(line, s, x)
    BY <1>1, <1>9, WritesLine DEF n, l
  <2>2. sections' = secs BY <1>4, <1>9
  <2>. QED BY <1>1, <1>2, <1>5, <1>6, <1>8, <2>1, <2>2 DEF ParserOK, FileIsRead
<1>10. CASE l.vars # <<>>
  <2>1. \A s, x : Written(n, s, x) <=>
           \/ s = l.section /\ x = key
           \/ /\ Written(line, s, x)
              /\ ~(s = l.section /\ x.host = key.host /\ x.first = key.first)
    BY <1>1, <1>7, <1>10, WritesLine DEF n, l, key
  <2>2. sections' = PutKey(secs, l.section, key) BY <1>4, <1>10
  <2>3. /\ sections' \in Seq(SectionType) /\ WellFormed(sections')
        /\ \A r, x : Holds(sections', r, x) <=>
             \/ r = l.section /\ x = key
             \/ Holds(secs, r, x) /\ ~(r = l.section /\ x.host = key.host /\ x.first = key.first)
    BY <1>3, <1>5, <1>10, <2>2, KeyIsPut
  <2>4. \A s, x : Holds(sections', s, x) <=> Written(line, s, x)'
    BY <1>6, <1>8, <2>1, <2>3
  <2>5. FileIsRead' BY <2>3, <2>4 DEF FileIsRead
  <2>. QED BY <1>1, <1>2, <2>3, <2>5 DEF ParserOK
<1>. QED BY <1>9, <1>10

-----------------------------------------------------------------------------
(* The parser: lines in effect and types of nodes.                         *)

NodeType ==
  [groups : SUBSET STRING, tags : SUBSET UNION {Tags[s] : s \in STRING}, ranges : Seq(RangeType)]
Tables == Nodesets(STRING, NodeType)

LEMMA EffectiveLines ==
  ASSUME inventory \in Seq(HostLine)
  PROVE  /\ Effective = {i \in InEffect(Len(inventory)) : inventory[i].section # DEFAULT}
         /\ HostLines \in SUBSET (1..Len(inventory)) /\ Effective \in SUBSET HostLines
         /\ IsFiniteSet(Effective)
<1>1. HostLines \in SUBSET (1..Len(inventory)) /\ Effective \in SUBSET HostLines
  BY DEF HostLines, Effective
<1>2. Effective = {i \in InEffect(Len(inventory)) : inventory[i].section # DEFAULT}
  <2>1. \A i \in HostLines :
          Replaced(i) <=> \E j \in 1..Len(inventory) : i < j /\ SameKey(i, j)
    BY DEF HostLines, Replaced, SameKey
  <2>. QED BY <2>1 DEF HostLines, Effective, InEffect
<1>3. IsFiniteSet(1..Len(inventory)) BY FS_Interval
<1>4. Effective \in SUBSET (1..Len(inventory)) BY <1>1
<1>. QED BY <1>1, <1>2, <1>3, <1>4, FS_Subset

\* The last of the lines with the same key is in effect.
LEMMA LastLineIsInEffect ==
  ASSUME inventory \in Seq(HostLine), NEW i \in HostLines
  PROVE  \E j \in Effective : /\ inventory[j].section = inventory[i].section
                              /\ inventory[j].host = inventory[i].host
<1>. DEFINE K == {j \in HostLines : /\ inventory[j].section = inventory[i].section
                                    /\ inventory[j].host = inventory[i].host
                                    /\ inventory[j].vars[1].name = inventory[i].vars[1].name}
            m == Max(K)
<1>1. HostLines \in SUBSET (1..Len(inventory)) BY EffectiveLines
<1>2. K \in SUBSET (1..Len(inventory)) /\ K # {} /\ Len(inventory) \in Nat
  <2>1. i \in K OBVIOUS
  <2>2. K \in SUBSET (1..Len(inventory)) BY <1>1
  <2>3. Len(inventory) \in Nat OBVIOUS
  <2>. QED BY <2>1, <2>2, <2>3
<1>3. m \in K /\ \A j \in K : j <= m BY <1>2, MaxExists
<1>. HIDE DEF m
<1>4. ~Replaced(m)
  <2>1. \A j \in K : ~(m < j) BY <1>2, <1>3
  <2>. QED BY <1>3, <2>1 DEF Replaced
<1>. QED BY <1>3, <1>4 DEF Effective

-----------------------------------------------------------------------------
(* Ranges and their counts.                                                *)

LEMMA RangeIsOne ==
  ASSUME NEW value \in Seq(Variable)
  PROVE  ExtractRange(value) = <<>> \/ \E r \in RangeType : ExtractRange(value) = <<r>>
<1>. DEFINE starts == Numbers(value, "validator_start")
            ends == Numbers(value, "validator_end")
            start == value[Max(starts)].value
            end == value[Max(ends)].value
<1>1. ASSUME NEW name, Numbers(value, name) # {}
      PROVE  value[Max(Numbers(value, name))].value \in Int
  <2>1. Numbers(value, name) \in SUBSET (1..Len(value)) /\ Len(value) \in Nat
    BY DEF Numbers
  <2>2. Max(Numbers(value, name)) \in Numbers(value, name)
    BY <1>1, <2>1, MaxExists
  <2>. DEFINE i == Max(Numbers(value, name))
  <2>3. i \in 1..Len(value) /\ value[i].value # Bad
    BY <2>1, <2>2 DEF Numbers
  <2>. HIDE DEF i
  <2>4. value[i] \in Variable BY <2>3
  <2>5. value[i].value \in Nat \union {Bad} BY <2>4 DEF Variable
  <2>. QED BY <2>3, <2>5 DEF i
<1>2. CASE starts # {} /\ ends # {} /\ start <= end
  <2>1. start + RangeOffset \in Int /\ end + RangeOffset \in Int
    BY <1>1, <1>2, ParserAssumption DEF ParserAssumption
  <2>2. ExtractRange(value) = <<[start |-> start + RangeOffset, end |-> end + RangeOffset]>>
    BY <1>2 DEF ExtractRange
  <2>. QED BY <2>1, <2>2 DEF RangeType
<1>3. CASE ~(starts # {} /\ ends # {} /\ start <= end)
  BY <1>3 DEF ExtractRange
<1>. QED BY <1>2, <1>3

\* Counting goes through the ranges in order.
CountsBy(it, s) ==
  it[0] = 0 /\ \A k \in 1..Len(s) : it[k] = it[k - 1] + (s[k].end - s[k].start)

LEMMA CountUnfolds ==
  ASSUME NEW s \in Seq(RangeType)
  PROVE  \E it \in [0..Len(s) -> Int] : CountsBy(it, s) /\ Count(s) = it[Len(s)]
<1>. DEFINE A == Int
            n == Len(s)
            F == [k \in 1..n |-> [a \in A |-> a + (s[k].end - s[k].start)]]
            Unfolds(it) == it = [d \in SUBSET DOMAIN s |->
                                   IF d = {} THEN 0
                                   ELSE it[d \ {Max(d)}] + (s[Max(d)].end - s[Max(d)].start)]
            iter == CHOOSE it : Unfolds(it)
<1>1. Count(s) = iter[DOMAIN s]
  BY DEF Count, FoldLeft, MapThenFoldSet
<1>2. \A k \in 1..n : s[k].end \in Int /\ s[k].start \in Int
  <2>1. \A k \in 1..n : s[k] \in RangeType OBVIOUS
  <2>. QED BY <2>1 DEF RangeType
<1>3. 0 \in A /\ F \in [1..n -> [A -> A]]
  BY <1>2
<1>4. DOMAIN s = 1..n /\ n \in Nat
  OBVIOUS
<1>5. \A k \in 1..n, a \in A : F[k][a] = a + (s[k].end - s[k].start)
  OBVIOUS
<1>. HIDE DEF A, F, n
<1>6. PICK it \in [SUBSET (1..n) -> A] : FoldsLeft(it, n, 0, F)
  BY <1>3, <1>4, LeftFoldExists
<1>7. \A d \in SUBSET (1..n) : d # {} => Max(d) \in 1..n /\ d \ {Max(d)} \in SUBSET (1..n)
  BY <1>4, MaxExists
<1>8. Unfolds(it)
  BY <1>4, <1>5, <1>6, <1>7 DEF FoldsLeft
<1>9. Unfolds(iter)
  <2>. HIDE DEF Unfolds
  <2>. QED BY <1>8
<1>. HIDE DEF iter
<1>10. FoldsWithin(iter, n, A, 0, F)
  BY <1>4, <1>5, <1>7, <1>9 DEF FoldsWithin
<1>. HIDE DEF Unfolds
<1>11. PICK steps \in [0..n -> A] : StepsBy(steps, n, 0, F) /\ iter[1..n] = steps[n]
  BY <1>3, <1>4, <1>10, FoldSteps
<1>12. \A k \in 1..n : steps[k] = steps[k - 1] + (s[k].end - s[k].start)
  <2>1. \A k \in 1..n : k - 1 \in 0..n BY <1>4
  <2>. QED BY <1>5, <1>11, <2>1 DEF StepsBy
<1>. QED BY <1>1, <1>4, <1>11, <1>12 DEF A, n, StepsBy, CountsBy

LEMMA CountMore ==
  ASSUME NEW s \in Seq(RangeType), NEW r \in RangeType
  PROVE  /\ Count(s) \in Int
         /\ Count(Append(s, r)) = Count(s) + (r.end - r.start)
<1>. DEFINE t == Append(s, r)
            n == Len(s)
<1>1. /\ n \in Nat /\ t \in Seq(RangeType) /\ Len(t) = n + 1 /\ t[n + 1] = r
      /\ \A k \in 1..n : t[k] = s[k]
  BY Appended
<1>2. PICK it \in [0..n -> Int] : CountsBy(it, s) /\ Count(s) = it[n]
  BY CountUnfolds
<1>. HIDE DEF t, n
<1>3. PICK jt \in [0..Len(t) -> Int] : CountsBy(jt, t) /\ Count(t) = jt[Len(t)]
  BY <1>1, CountUnfolds
<1>. DEFINE P == {k \in Nat : k <= n => jt[k] = it[k]}
<1>4. 0 \in P BY <1>2, <1>3 DEF CountsBy
<1>5. ASSUME NEW k \in Nat, k \in P PROVE k + 1 \in P
  <2>. SUFFICES ASSUME k + 1 <= n PROVE jt[k + 1] = it[k + 1]
    OBVIOUS
  <2>0. jt[k] = it[k] BY <1>1, <1>5
  <2>1. k + 1 \in 1..n /\ k + 1 \in 1..Len(t) /\ (k + 1) - 1 = k
    BY <1>1
  <2>2. it[k + 1] = it[k] + (s[k + 1].end - s[k + 1].start)
    BY <1>2, <2>0, <2>1 DEF CountsBy, n
  <2>3. jt[k + 1] = jt[k] + (t[k + 1].end - t[k + 1].start)
    BY <1>3, <2>1 DEF CountsBy
  <2>. QED BY <1>1, <2>0, <2>1, <2>2, <2>3
<1>. HIDE DEF P
<1>6. Nat \subseteq P BY <1>4, <1>5, NatSetInduction
<1>7. jt[n] = it[n] /\ it[n] \in Int BY <1>1, <1>2, <1>6 DEF P
<1>8. jt[n + 1] = jt[n] + (r.end - r.start)
  <2>1. n + 1 \in 1..Len(t) /\ (n + 1) - 1 = n BY <1>1
  <2>. QED BY <1>1, <1>3, <2>1 DEF CountsBy
<1>. QED BY <1>1, <1>2, <1>3, <1>7, <1>8 DEF t

LEMMA CountOfNothing == Count(<<>>) = 0
<1>1. <<>> \in Seq(RangeType) /\ Len(<<>>) = 0 OBVIOUS
<1>2. PICK it \in [0..0 -> Int] : CountsBy(it, <<>>) /\ Count(<<>>) = it[0]
  BY <1>1, CountUnfolds
<1>. QED BY <1>2 DEF CountsBy

\* One range more, or none.
LEMMA CountJoins ==
  ASSUME NEW s \in Seq(RangeType), NEW value \in Seq(Variable)
  PROVE  LET e == ExtractRange(value) IN
         /\ s \o e \in Seq(RangeType) /\ (s \o e # <<>> <=> s # <<>> \/ e # <<>>)
         /\ Count(s) \in Int /\ Count(e) \in Int /\ Count(s \o e) = Count(s) + Count(e)
<1>. DEFINE e == ExtractRange(value)
<1>0. <<>> \in Seq(RangeType) OBVIOUS
<1>1. CASE e = <<>>
  <2>1. s \o e = s BY <1>1
  <2>2. PICK r : r \in RangeType
    <3>1. [start |-> 0, end |-> 0] \in RangeType BY DEF RangeType
    <3>. QED BY <3>1
  <2>3. Count(s) \in Int BY <2>2, CountMore
  <2>. HIDE DEF e
  <2>4. Count(e) = 0 BY <1>1, CountOfNothing
  <2>. QED BY <1>1, <2>1, <2>3, <2>4 DEF e
<1>2. ASSUME NEW r \in RangeType, e = <<r>>
      PROVE  /\ s \o e \in Seq(RangeType) /\ (s \o e # <<>> <=> s # <<>> \/ e # <<>>)
             /\ Count(s) \in Int /\ Count(e) \in Int /\ Count(s \o e) = Count(s) + Count(e)
  <2>. HIDE DEF e
  <2>1. s \o e = Append(s, r) BY <1>2
  <2>2. e = Append(<<>>, r) BY <1>2
  <2>3. Count(s) \in Int /\ Count(s \o e) = Count(s) + (r.end - r.start)
    BY <2>1, CountMore
  <2>4. Count(e) = Count(<<>>) + (r.end - r.start) BY <1>0, <2>2, CountMore
  <2>5. r.end \in Int /\ r.start \in Int BY DEF RangeType
  <2>6. Append(s, r) \in Seq(RangeType) /\ Len(Append(s, r)) = Len(s) + 1 BY Appended
  <2>7. s \o e # <<>> /\ e # <<>>
    <3>1. Len(s \o e) # 0 BY <2>1, <2>6
    <3>. QED BY <1>2, <3>1
  <2>. QED BY <2>1, <2>3, <2>4, <2>5, <2>6, <2>7, CountOfNothing
<1>3. e = <<>> \/ \E r \in RangeType : e = <<r>> BY RangeIsOne
<1>. QED BY <1>1, <1>2, <1>3

-----------------------------------------------------------------------------
(* The parser: the nodes that a set of lines makes.                        *)

CountsOf(found) == [h \in DOMAIN found |-> Count(found[h].ranges)]
LineCounts(L) == [i \in L |-> Count(RangeOf(i))]

\* found is what the lines L make of the nodes.
NodesFrom(found, L) ==
  /\ found \in Tables /\ IsFiniteSet(DOMAIN found)
  /\ \A h : h \in DOMAIN found <=> \E i \in L : inventory[i].host = h
  /\ \A h \in DOMAIN found :
       /\ \A g : g \in found[h].groups <=>
            \E i \in L : inventory[i].host = h /\ inventory[i].section = g
       /\ found[h].ranges # <<>> <=> \E i \in L : inventory[i].host = h /\ RangeOf(i) # <<>>
  /\ Total(CountsOf(found)) = Total(LineCounts(L))

LEMMA TableTypes ==
  ASSUME NEW found \in Tables
  PROVE  /\ DOMAIN found \in SUBSET STRING
         /\ \A h \in DOMAIN found : found[h] \in NodeType
BY DEF Tables, Nodesets

LEMMA CountsType ==
  ASSUME NEW found \in Tables
  PROVE  CountsOf(found) \in [DOMAIN found -> Int]
<1>1. ASSUME NEW h \in DOMAIN found PROVE Count(found[h].ranges) \in Int
  <2>1. found[h] \in NodeType BY TableTypes
  <2>2. found[h].ranges \in Seq(RangeType) /\ <<>> \in Seq(Variable) BY <2>1 DEF NodeType
  <2>. QED BY <2>2, CountJoins
<1>. QED BY <1>1 DEF CountsOf

LEMMA LineCountsType ==
  ASSUME inventory \in Seq(HostLine), NEW L \in SUBSET HostLines
  PROVE  LineCounts(L) \in [L -> Int]
<1>1. ASSUME NEW i \in L PROVE Count(RangeOf(i)) \in Int
  <2>1. i \in 1..Len(inventory) /\ inventory[i].vars # <<>> BY DEF HostLines
  <2>2. Tail(inventory[i].vars) \in Seq(Variable) BY <2>1, LineType
  <2>3. <<>> \in Seq(RangeType) OBVIOUS
  <2>. QED BY <2>2, <2>3, CountJoins DEF RangeOf
<1>. QED BY <1>1 DEF LineCounts

LEMMA NoNodesFromNothing == NodesFrom([h \in {} |-> NewNode], {})
<1>. DEFINE none == [h \in {} |-> NewNode]
<1>1. DOMAIN none = {} /\ none \in [{} -> NodeType] OBVIOUS
<1>2. none \in Tables BY <1>1 DEF Tables, Nodesets
<1>3. IsFiniteSet({}) BY FS_EmptySet
<1>. HIDE DEF none
<1>4. Total(CountsOf(none)) = 0
  <2>1. DOMAIN CountsOf(none) = {} BY <1>1 DEF CountsOf
  <2>. QED BY <2>1, TotalOfNothing
<1>5. Total(LineCounts({})) = 0
  <2>1. DOMAIN LineCounts({}) = {} BY DEF LineCounts
  <2>. QED BY <2>1, TotalOfNothing
<1>6. NodesFrom(none, {}) BY <1>1, <1>2, <1>3, <1>4, <1>5 DEF NodesFrom
<1>. QED BY <1>6 DEF none

\* The node of a host, and what a key of section s makes of the nodes.
NodeOf(found, h) == IF h \in DOMAIN found THEN found[h] ELSE NewNode

Adds(found, s, key, after) ==
  /\ after \in Tables /\ DOMAIN after = DOMAIN found \union {key.host}
  /\ \A h \in DOMAIN found \ {key.host} : after[h] = found[h]
  /\ NodeOf(found, key.host) \in NodeType
  /\ after[key.host].groups = NodeOf(found, key.host).groups \union {s}
  /\ after[key.host].ranges = NodeOf(found, key.host).ranges \o ExtractRange(key.value)

LEMMA KeyIsAdded ==
  ASSUME NEW found \in Tables, NEW s \in STRING, NEW key \in KeyType
  PROVE  Adds(found, s, key, AddKey(found, s, key))
<1>. DEFINE after == AddKey(found, s, key)
            old == NodeOf(found, key.host)
            new == [groups |-> old.groups \union {s}, tags |-> old.tags \union Tags[s],
                    ranges |-> old.ranges \o ExtractRange(key.value)]
<1>1. DOMAIN found \in SUBSET STRING /\ \A h \in DOMAIN found : found[h] \in NodeType
  BY TableTypes
<1>2. old \in NodeType
  <2>1. NewNode \in NodeType
    <3>1. <<>> \in Seq(RangeType) OBVIOUS
    <3>. QED BY <3>1 DEF NewNode, NodeType
  <2>. QED BY <1>1, <2>1 DEF NodeOf
<1>3. key.host \in STRING /\ key.value \in Seq(Variable) BY DEF KeyType
<1>4. /\ after = [h \in DOMAIN found \union {key.host} |-> IF h # key.host THEN found[h] ELSE new]
  BY DEF AddKey, NodeOf
<1>. HIDE DEF old, after
<1>5. new \in NodeType
  <2>1. /\ old.groups \in SUBSET STRING /\ old.ranges \in Seq(RangeType)
        /\ old.tags \in SUBSET UNION {Tags[r] : r \in STRING}
    BY <1>2 DEF NodeType
  <2>2. old.ranges \o ExtractRange(key.value) \in Seq(RangeType) BY <1>3, <2>1, CountJoins
  <2>3. old.tags \union Tags[s] \in SUBSET UNION {Tags[r] : r \in STRING} BY <2>1
  <2>. QED BY <2>1, <2>2, <2>3 DEF NodeType
<1>6. new.groups = old.groups \union {s} /\ new.ranges = old.ranges \o ExtractRange(key.value)
  OBVIOUS
<1>. HIDE DEF new
<1>7. after \in [DOMAIN found \union {key.host} -> NodeType] BY <1>1, <1>4, <1>5
<1>8. after \in Tables
  <2>1. DOMAIN found \union {key.host} \in SUBSET STRING BY <1>1, <1>3
  <2>. QED BY <1>7, <2>1 DEF Tables, Nodesets
<1>. QED BY <1>2, <1>4, <1>6, <1>8 DEF after, old, Adds

\* The total grows by the count of the key's range.
LEMMA KeyIsCounted ==
  ASSUME NEW found \in Tables, IsFiniteSet(DOMAIN found), NEW s \in STRING, NEW key \in KeyType
  PROVE  /\ Total(CountsOf(AddKey(found, s, key)))
              = Total(CountsOf(found)) + Count(ExtractRange(key.value))
         /\ IsFiniteSet(DOMAIN AddKey(found, s, key))
<1>. DEFINE after == AddKey(found, s, key)
            e == ExtractRange(key.value)
            x == key.host
            D == DOMAIN found
            E == D \union {x}
            old == NodeOf(found, x)
            g == CountsOf(found)
            h == CountsOf(after)
<1>1. /\ DOMAIN after = E /\ after \in Tables
      /\ \A y \in D \ {x} : after[y] = found[y]
      /\ old \in NodeType /\ after[x].ranges = old.ranges \o e
  <2>1. Adds(found, s, key, after) BY KeyIsAdded
  <2>. HIDE DEF after
  <2>. QED BY <2>1 DEF Adds
<1>2. key.value \in Seq(Variable) BY DEF KeyType
<1>. HIDE DEF after
<1>5. g \in [D -> Int] BY CountsType
<1>6. h \in [E -> Int] BY <1>1, CountsType
<1>7. old.ranges \in Seq(RangeType) BY <1>1 DEF NodeType
<1>8. h[x] = Count(old.ranges) + Count(e) /\ Count(old.ranges) \in Int /\ Count(e) \in Int
  <2>1. h[x] = Count(after[x].ranges) BY <1>1 DEF CountsOf
  <2>. QED BY <1>1, <1>2, <1>7, <2>1, CountJoins
<1>9. IsFiniteSet(E) BY FS_AddElement
<1>10. On(h, E \ {x}) = On(g, D \ {x})
  <2>1. E \ {x} = D \ {x} OBVIOUS
  <2>2. \A y \in D \ {x} : h[y] = g[y] BY <1>1 DEF CountsOf
  <2>. QED BY <2>1, <2>2 DEF On
<1>. HIDE DEF g, h, e, old
<1>11. Total(On(h, E \ {x})) \in Int /\ Total(h) = Total(On(h, E \ {x})) + h[x]
  BY <1>6, <1>9, TotalRemoves
<1>12. CASE x \in D
  <2>1. Total(On(g, D \ {x})) \in Int /\ Total(g) = Total(On(g, D \ {x})) + g[x]
    BY <1>5, <1>12, TotalRemoves
  <2>2. g[x] = Count(old.ranges) BY <1>12 DEF g, old, NodeOf, CountsOf
  <2>. QED BY <1>1, <1>8, <1>9, <1>10, <1>11, <2>1, <2>2 DEF g, h, e, after
<1>13. CASE x \notin D
  <2>1. On(g, D \ {x}) = g BY <1>5, <1>13 DEF On
  <2>2. Count(old.ranges) = 0 BY <1>13, CountOfNothing DEF old, NodeOf, NewNode
  <2>. QED BY <1>1, <1>8, <1>9, <1>10, <1>11, <2>1, <2>2 DEF g, h, e, after
<1>. QED BY <1>12, <1>13

LEMMA LineIsCounted ==
  ASSUME inventory \in Seq(HostLine), NEW L \in SUBSET HostLines, NEW l \in HostLines \ L
  PROVE  Total(LineCounts(L \union {l})) = Total(LineCounts(L)) + Count(RangeOf(l))
<1>. DEFINE S == L \union {l}
            g == LineCounts(S)
<1>1. S \in SUBSET (1..Len(inventory)) BY EffectiveLines
<1>2. IsFiniteSet(1..Len(inventory)) BY FS_Interval
<1>3. IsFiniteSet(S) BY <1>1, <1>2, FS_Subset
<1>4. g \in [S -> Int] BY LineCountsType
<1>5. On(g, S \ {l}) = LineCounts(L)
  <2>1. S \ {l} = L OBVIOUS
  <2>. QED BY <2>1 DEF On, LineCounts
<1>6. g[l] = Count(RangeOf(l)) BY DEF LineCounts
<1>. HIDE DEF g, S
<1>7. l \in S BY DEF S
<1>8. Total(g) = Total(On(g, S \ {l})) + g[l] BY <1>3, <1>4, <1>7, TotalRemoves
<1>. QED BY <1>5, <1>6, <1>8 DEF g, S

LEMMA KeyAddsLine ==
  ASSUME inventory \in Seq(HostLine), NEW L \in SUBSET HostLines, NEW l \in HostLines \ L,
         NEW found, NodesFrom(found, L)
  PROVE  NodesFrom(AddKey(found, inventory[l].section, KeyOf(l)), L \union {l})
<1>. DEFINE s == inventory[l].section
            x == inventory[l].host
            key == KeyOf(l)
            after == AddKey(found, s, key)
            old == NodeOf(found, x)
            e == RangeOf(l)
<1>1. l \in 1..Len(inventory) /\ inventory[l].vars # <<>> BY EffectiveLines DEF HostLines
<1>2. key \in KeyType /\ s \in STRING BY <1>1, LineType
<1>3. key.host = x /\ ExtractRange(key.value) = e BY DEF KeyOf, RangeOf
<1>4. key.value \in Seq(Variable) BY <1>2 DEF KeyType
<1>. HIDE DEF key, e
<1>5. found \in Tables /\ IsFiniteSet(DOMAIN found) BY DEF NodesFrom
<1>6. /\ after \in Tables /\ DOMAIN after = DOMAIN found \union {x}
      /\ \A h \in DOMAIN found \ {x} : after[h] = found[h]
      /\ old \in NodeType /\ after[x].groups = old.groups \union {s}
      /\ after[x].ranges = old.ranges \o e
  <2>1. Adds(found, s, key, after) BY <1>2, <1>5, KeyIsAdded
  <2>. QED BY <1>3, <2>1 DEF Adds
<1>7. Total(CountsOf(after)) = Total(LineCounts(L \union {l})) /\ IsFiniteSet(DOMAIN after)
  <2>1. Total(CountsOf(after)) = Total(CountsOf(found)) + Count(e) /\ IsFiniteSet(DOMAIN after)
    BY <1>2, <1>3, <1>5, KeyIsCounted
  <2>2. Total(LineCounts(L \union {l})) = Total(LineCounts(L)) + Count(e)
    BY LineIsCounted DEF e
  <2>. QED BY <2>1, <2>2 DEF NodesFrom
<1>8. after[x].ranges # <<>> <=> old.ranges # <<>> \/ e # <<>>
  <2>1. old.ranges \in Seq(RangeType) BY <1>6 DEF NodeType
  <2>. QED BY <1>3, <1>4, <1>6, <2>1, CountJoins
<1>9. /\ \A g : g \in old.groups <=> \E i \in L : inventory[i].host = x /\ inventory[i].section = g
      /\ old.ranges # <<>> <=> \E i \in L : inventory[i].host = x /\ RangeOf(i) # <<>>
  <2>1. CASE x \in DOMAIN found BY <2>1 DEF NodesFrom, NodeOf
  <2>2. CASE x \notin DOMAIN found
    <3>1. \A i \in L : inventory[i].host # x BY <2>2 DEF NodesFrom
    <3>. QED BY <2>2, <3>1 DEF NewNode, NodeOf
  <2>. QED BY <2>1, <2>2
<1>. HIDE DEF after, old
<1>10. \A h : h \in DOMAIN after <=> \E i \in L \union {l} : inventory[i].host = h
  BY <1>6 DEF NodesFrom
<1>11. ASSUME NEW h \in DOMAIN after
       PROVE /\ \A g : g \in after[h].groups <=>
                         \E i \in L \union {l} : inventory[i].host = h /\ inventory[i].section = g
             /\ after[h].ranges # <<>> <=>
                         \E i \in L \union {l} : inventory[i].host = h /\ RangeOf(i) # <<>>
  <2>1. CASE h = x BY <1>6, <1>8, <1>9, <2>1 DEF e
  <2>2. CASE h # x
    <3>1. h \in DOMAIN found \ {x} /\ after[h] = found[h] BY <1>6, <2>2
    <3>2. \A i \in L \union {l} : inventory[i].host = h => i \in L BY <2>2
    <3>. QED BY <3>1, <3>2 DEF NodesFrom
  <2>. QED BY <2>1, <2>2
<1>12. NodesFrom(after, L \union {l}) BY <1>6, <1>7, <1>10, <1>11 DEF NodesFrom
<1>. QED BY <1>12 DEF after, key

-----------------------------------------------------------------------------
(* The parser: the sections.                                               *)

\* The lines in effect of the first p sections.
LinesOf(p) == {i \in Effective : \E a \in 1..p : sections[a].name = inventory[i].section}

SectionsAreParsed == NodesFrom(nodes, LinesOf(sectionsParsed))

ResultIsKept ==
  \/ result = NoResult
  \/ /\ line = Len(inventory) /\ sectionsParsed = Len(sections)
     /\ result = Outcome(NodesWithValidators)

LEMMA SectionUnfolds ==
  ASSUME NEW found \in Tables, NEW section \in SectionType
  PROVE  \E it \in [0..Len(section.keys) -> Tables] :
           /\ it[0] = found
           /\ \A k \in 1..Len(section.keys) :
                it[k] = AddKey(it[k - 1], section.name, section.keys[k])
           /\ AddSection(found, section) = it[Len(section.keys)]
<1>. DEFINE A == Tables
            s == section.name
            keys == section.keys
            n == Len(keys)
            F == [k \in 1..n |-> [a \in A |-> AddKey(a, s, keys[k])]]
            Unfolds(it) == it = [d \in SUBSET DOMAIN keys |->
                                   IF d = {} THEN found
                                   ELSE AddKey(it[d \ {Max(d)}], s, keys[Max(d)])]
            iter == CHOOSE it : Unfolds(it)
<1>1. AddSection(found, section) = iter[DOMAIN keys]
  BY DEF AddSection, FoldLeft, MapThenFoldSet
<1>2. s \in STRING /\ keys \in Seq(KeyType) BY DEF SectionType
<1>3. F \in [1..n -> [A -> A]]
  <2>1. \A k \in 1..n : keys[k] \in KeyType BY <1>2
  <2>. HIDE DEF n, s, keys
  <2>2. ASSUME NEW a \in Tables, NEW k \in 1..n PROVE AddKey(a, s, keys[k]) \in Tables
    <3>1. Adds(a, s, keys[k], AddKey(a, s, keys[k])) BY <1>2, <2>1, KeyIsAdded
    <3>. QED BY <3>1 DEF Adds
  <2>. QED BY <2>2
<1>4. DOMAIN keys = 1..n /\ n \in Nat
  BY <1>2
<1>5. \A k \in 1..n, a \in A : F[k][a] = AddKey(a, s, keys[k])
  OBVIOUS
<1>. HIDE DEF A, F, n, s, keys
<1>0. found \in A BY DEF A
<1>6. PICK it \in [SUBSET (1..n) -> A] : FoldsLeft(it, n, found, F)
  BY <1>0, <1>3, <1>4, LeftFoldExists
<1>7. \A d \in SUBSET (1..n) : d # {} => Max(d) \in 1..n /\ d \ {Max(d)} \in SUBSET (1..n)
  BY <1>4, MaxExists
<1>8. Unfolds(it)
  BY <1>4, <1>5, <1>6, <1>7 DEF FoldsLeft
<1>9. Unfolds(iter)
  <2>. HIDE DEF Unfolds
  <2>. QED BY <1>8
<1>. HIDE DEF iter
<1>10. FoldsWithin(iter, n, A, found, F)
  BY <1>4, <1>5, <1>7, <1>9 DEF FoldsWithin
<1>. HIDE DEF Unfolds
<1>11. PICK steps \in [0..n -> A] : StepsBy(steps, n, found, F) /\ iter[1..n] = steps[n]
  BY <1>0, <1>3, <1>4, <1>10, FoldSteps
<1>12. \A k \in 1..n : steps[k] = AddKey(steps[k - 1], s, keys[k])
  <2>1. \A k \in 1..n : k - 1 \in 0..n BY <1>4
  <2>. QED BY <1>5, <1>11, <2>1 DEF StepsBy
<1>. QED BY <1>1, <1>4, <1>11, <1>12 DEF A, n, s, keys, StepsBy

\* A section's keys bring in its lines, one each.
LEMMA SectionAddsLines ==
  ASSUME ParserOK, FileIsRead, line = Len(inventory), sectionsParsed < Len(sections),
         NodesFrom(nodes, LinesOf(sectionsParsed)),
         sections[sectionsParsed + 1].name # DEFAULT
  PROVE  NodesFrom(AddSection(nodes, sections[sectionsParsed + 1]), LinesOf(sectionsParsed + 1))
<1>. DEFINE p == sectionsParsed
            section == sections[p + 1]
            keys == section.keys
            n == Len(keys)
            Has(i, k) == \E j \in 1..k : keys[j] = KeyOf(i)
            L(k) == LinesOf(p) \union
                      {i \in Effective : inventory[i].section = section.name /\ Has(i, k)}
<1>1. /\ inventory \in Seq(HostLine) /\ sections \in Seq(SectionType)
      /\ p \in Nat /\ p + 1 \in 1..Len(sections) /\ DOMAIN sections = 1..Len(sections)
  BY DEF ParserOK
<1>2. section \in SectionType BY <1>1
<1>3. keys \in Seq(KeyType) /\ DOMAIN keys = 1..n /\ n \in Nat
  BY <1>2 DEF SectionType
<1>4. nodes \in Tables BY DEF NodesFrom
<1>5. PICK it : /\ it[0] = nodes
                /\ \A k \in 1..n : it[k] = AddKey(it[k - 1], section.name, keys[k])
                /\ AddSection(nodes, section) = it[n]
  BY <1>2, <1>4, SectionUnfolds
<1>6. /\ Effective = {i \in InEffect(line) : inventory[i].section # DEFAULT}
      /\ Effective \in SUBSET HostLines
  BY <1>1, EffectiveLines
<1>7. Distinct(keys) /\ \A a \in 1..p : sections[a].name # section.name
  BY <1>1 DEF FileIsRead, WellFormed
<1>8. \A i \in InEffect(line) :
        inventory[i].section = section.name => \E k \in 1..n : keys[k] = KeyOf(i)
  <2>. SUFFICES ASSUME NEW i \in InEffect(line), inventory[i].section = section.name
                PROVE  \E k \in 1..n : keys[k] = KeyOf(i)
    OBVIOUS
  <2>1. Holds(sections, section.name, KeyOf(i)) BY DEF FileIsRead, Written
  <2>. QED BY <1>1, <1>3, <2>1 DEF Holds, FileIsRead, WellFormed
<1>9. \A k \in 1..n : \E l \in Effective : inventory[l].section = section.name /\ KeyOf(l) = keys[k]
  <2>. SUFFICES ASSUME NEW k \in 1..n
                PROVE  \E l \in Effective :
                         inventory[l].section = section.name /\ KeyOf(l) = keys[k]
    OBVIOUS
  <2>1. Holds(sections, section.name, keys[k]) BY <1>1, <1>3 DEF Holds
  <2>2. Written(line, section.name, keys[k]) BY <2>1 DEF FileIsRead
  <2>. QED BY <1>6, <2>2 DEF Written
<1>10. \A k \in Nat : L(k) \in SUBSET HostLines BY <1>6 DEF LinesOf
<1>11. L(0) = LinesOf(p) OBVIOUS
<1>12. L(n) = LinesOf(p + 1)
  <2>1. \A i \in Effective : inventory[i].section = section.name => Has(i, n) BY <1>6, <1>8
  <2>2. 1..(p + 1) = 1..p \union {p + 1} BY <1>1
  <2>. QED BY <2>1, <2>2 DEF LinesOf
<1>13. ASSUME NEW k \in Nat, k + 1 <= n
       PROVE  \E l \in HostLines \ L(k) : /\ inventory[l].section = section.name
                                          /\ KeyOf(l) = keys[k + 1] /\ L(k + 1) = L(k) \union {l}
  <2>1. /\ k + 1 \in 1..n /\ 1..(k + 1) = 1..k \union {k + 1}
        /\ \A j \in 1..k : j \in 1..n /\ j # k + 1
    BY <1>3, <1>13
  <2>2. PICK l \in Effective : inventory[l].section = section.name /\ KeyOf(l) = keys[k + 1]
    BY <1>9, <2>1
  <2>3. l \notin LinesOf(p) BY <1>7, <2>2 DEF LinesOf
  <2>4. ~Has(l, k) BY <1>3, <1>7, <2>1, <2>2 DEF Distinct
  <2>5. ASSUME NEW i \in Effective, inventory[i].section = section.name, KeyOf(i) = keys[k + 1]
        PROVE  i = l
    <3>1. /\ i \in 1..line /\ l \in 1..line /\ line \in Nat
          /\ inventory[i].vars # <<>> /\ inventory[l].vars # <<>>
      BY <1>1, <1>6, <2>2 DEF InEffect, ParserOK
    <3>2. inventory[i].host = KeyOf(i).host /\ inventory[i].vars[1].name = KeyOf(i).first
      BY DEF KeyOf
    <3>3. inventory[l].host = KeyOf(l).host /\ inventory[l].vars[1].name = KeyOf(l).first
      BY DEF KeyOf
    <3>4. SameKey(i, l) /\ SameKey(l, i) BY <2>2, <2>5, <3>1, <3>2, <3>3 DEF SameKey
    <3>5. ~(i < l) /\ ~(l < i) BY <1>6, <2>2, <3>1, <3>4 DEF InEffect
    <3>. QED BY <3>1, <3>5
  <2>6. \A i : Has(i, k + 1) <=> Has(i, k) \/ keys[k + 1] = KeyOf(i)
    BY <2>1
  <2>. HIDE DEF Has
  <2>7. L(k + 1) = L(k) \union {l} BY <2>2, <2>5, <2>6
  <2>8. l \in HostLines \ L(k) BY <1>6, <2>2, <2>3, <2>4
  <2>. HIDE DEF L
  <2>. QED BY <2>2, <2>7, <2>8
<1>. DEFINE P == {k \in Nat : k <= n => NodesFrom(it[k], L(k))}
<1>. HIDE DEF L
<1>14. 0 \in P BY <1>5, <1>11
<1>15. ASSUME NEW k \in Nat, k \in P PROVE k + 1 \in P
  <2>. SUFFICES ASSUME k + 1 <= n PROVE NodesFrom(it[k + 1], L(k + 1))
    OBVIOUS
  <2>1. k + 1 \in 1..n /\ (k + 1) - 1 = k /\ NodesFrom(it[k], L(k))
    BY <1>3, <1>15
  <2>2. PICK l \in HostLines \ L(k) : /\ inventory[l].section = section.name
                                      /\ KeyOf(l) = keys[k + 1] /\ L(k + 1) = L(k) \union {l}
    BY <1>13
  <2>3. it[k + 1] = AddKey(it[k], inventory[l].section, KeyOf(l)) BY <1>5, <2>1, <2>2
  <2>4. NodesFrom(AddKey(it[k], inventory[l].section, KeyOf(l)), L(k) \union {l})
    BY <1>1, <1>10, <2>1, <2>2, KeyAddsLine
  <2>. QED BY <2>2, <2>3, <2>4
<1>. HIDE DEF P
<1>16. Nat \subseteq P BY <1>14, <1>15, NatSetInduction
<1>17. NodesFrom(it[n], L(n)) BY <1>3, <1>16 DEF P
<1>. QED BY <1>5, <1>12, <1>17

\* What holds of the nodes and the lines after a step holds in the state after it.
LEMMA NodesAfter ==
  ASSUME inventory' = inventory, NEW L, LinesOf(sectionsParsed)' = L, NodesFrom(nodes', L)
  PROVE  SectionsAreParsed'
<1>1. \A i : RangeOf(i)' = RangeOf(i) BY DEF RangeOf
<1>2. LineCounts(LinesOf(sectionsParsed))' = LineCounts(L) BY <1>1 DEF LineCounts
<1>. QED BY <1>1, <1>2 DEF SectionsAreParsed, NodesFrom

LEMMA ParseSectionKeeps ==
  ASSUME ParserOK, FileIsRead, SectionsAreParsed, ParseSection
  PROVE  ParserOK' /\ FileIsRead' /\ SectionsAreParsed'
<1>. DEFINE p == sectionsParsed
            section == sections[p + 1]
<1>1. /\ inventory \in Seq(HostLine) /\ sections \in Seq(SectionType)
      /\ p \in Nat /\ p' = p + 1 /\ p < Len(sections) /\ line = Len(inventory)
      /\ UNCHANGED <<inventory, line, sections>>
  BY DEF ParserOK, ParseSection
<1>2. ParserOK' BY <1>1 DEF ParserOK
<1>3. FileIsRead'
  <2>1. \A s, x : Written(line, s, x)' <=> Written(line, s, x)
    BY <1>1 DEF Written, InEffect, SameKey, KeyOf
  <2>. QED BY <1>1, <2>1 DEF FileIsRead
<1>4. LinesOf(p)' = LinesOf(p + 1)
  <2>1. Effective' = Effective BY <1>1 DEF Effective, HostLines, Replaced
  <2>. QED BY <1>1, <2>1 DEF LinesOf
<1>5. NodesFrom(nodes', LinesOf(p + 1))
  <2>1. CASE section.name = DEFAULT
    <3>1. nodes' = nodes BY <2>1 DEF ParseSection
    <3>2. LinesOf(p + 1) = LinesOf(p)
      <4>1. 1..(p + 1) = 1..p \union {p + 1} BY <1>1
      <4>2. \A i \in Effective : inventory[i].section # section.name
        BY <2>1 DEF Effective, HostLines
      <4>. QED BY <4>1, <4>2 DEF LinesOf
    <3>. QED BY <3>1, <3>2 DEF SectionsAreParsed
  <2>2. CASE section.name # DEFAULT
    <3>1. nodes' = AddSection(nodes, section) BY <2>2 DEF ParseSection
    <3>2. NodesFrom(AddSection(nodes, section), LinesOf(p + 1))
      BY <1>1, <2>2, SectionAddsLines DEF SectionsAreParsed
    <3>. QED BY <3>1, <3>2
  <2>. QED BY <2>1, <2>2
<1>6. SectionsAreParsed' BY <1>1, <1>4, <1>5, NodesAfter
<1>. QED BY <1>2, <1>3, <1>6
\* At the end every line in effect has been parsed.
LEMMA AllLinesParsed ==
  ASSUME ParserOK, FileIsRead, line = Len(inventory), sectionsParsed = Len(sections)
  PROVE  LinesOf(sectionsParsed) = Effective
<1>1. ASSUME NEW i \in Effective
      PROVE  \E a \in 1..sectionsParsed : sections[a].name = inventory[i].section
  <2>1. i \in InEffect(line) BY EffectiveLines DEF ParserOK
  <2>2. Holds(sections, inventory[i].section, KeyOf(i)) BY <2>1 DEF FileIsRead, Written
  <2>3. DOMAIN sections = 1..sectionsParsed BY DEF ParserOK
  <2>. QED BY <2>2, <2>3 DEF Holds
<1>. QED BY <1>1 DEF LinesOf

\* calculateTotalValidators is the total of the counts.
LEMMA OutcomeTotal ==
  ASSUME NEW kept, IsFiniteSet(DOMAIN kept), CountsOf(kept) \in [DOMAIN kept -> Int]
  PROVE  Outcome(kept).total = Total(CountsOf(kept))
<1>. DEFINE S == DOMAIN kept
            g == CountsOf(kept)
            Unfolds(it) == it = [d \in SUBSET S |->
                               IF d = {} THEN 0
                               ELSE it[d \ {Pick(d)}] + Count(kept[Pick(d)].ranges)]
            iter == CHOOSE it : Unfolds(it)
<1>1. Outcome(kept).total = iter[S]
  BY DEF Outcome, FoldFunction, FoldFunctionOnSet, MapThenFoldSet, Pick
<1>2. \A d \in SUBSET S : d # {} => Pick(d) \in S /\ g[Pick(d)] = Count(kept[Pick(d)].ranges)
  BY DEF Pick, CountsOf
<1>. HIDE DEF g
<1>3. PICK it \in [SUBSET S -> Int] : AddsUp(it, S, g) BY SumExists DEF g
<1>4. Unfolds(it)
  <2>1. \A d \in SUBSET S : d # {} => d \ {Pick(d)} \in SUBSET S OBVIOUS
  <2>. QED BY <1>2, <1>3, <2>1 DEF AddsUp
<1>5. Unfolds(iter)
  <2>. HIDE DEF Unfolds
  <2>. QED BY <1>4
<1>6. AddsUp(iter, S, g)
  <2>. HIDE DEF iter
  <2>. QED BY <1>2, <1>5 DEF AddsUp
<1>. HIDE DEF iter
<1>7. Total(g) = iter[S] BY <1>6, TotalIs DEF g
<1>. QED BY <1>1, <1>7 DEF g

LEMMA LinesTotal ==
  ASSUME inventory \in Seq(HostLine)
  PROVE  FoldSet(LAMBDA i, sum : sum + Count(RangeOf(i)), 0, Effective)
           = Total(LineCounts(Effective))
<1>. DEFINE S == Effective
            g == LineCounts(S)
            Unfolds(it) == it = [d \in SUBSET S |->
                               IF d = {} THEN 0
                               ELSE it[d \ {Pick(d)}] + Count(RangeOf(Pick(d)))]
            iter == CHOOSE it : Unfolds(it)
<1>1. FoldSet(LAMBDA i, sum : sum + Count(RangeOf(i)), 0, S) = iter[S]
  BY DEF FoldSet, MapThenFoldSet, Pick
<1>2. \A d \in SUBSET S : d # {} => Pick(d) \in S /\ g[Pick(d)] = Count(RangeOf(Pick(d)))
  BY DEF Pick, LineCounts
<1>3. IsFiniteSet(S) BY EffectiveLines
<1>4. g \in [S -> Int] BY EffectiveLines, LineCountsType
<1>. HIDE DEF g, S
<1>5. PICK it \in [SUBSET S -> Int] : AddsUp(it, S, g) BY <1>3, <1>4, SumExists
<1>6. Unfolds(it)
  <2>1. \A d \in SUBSET S : d # {} => d \ {Pick(d)} \in SUBSET S OBVIOUS
  <2>. QED BY <1>2, <1>5, <2>1 DEF AddsUp
<1>7. Unfolds(iter)
  <2>. HIDE DEF Unfolds
  <2>. QED BY <1>6
<1>8. AddsUp(iter, S, g)
  <2>. HIDE DEF iter
  <2>. QED BY <1>2, <1>7 DEF AddsUp
<1>. HIDE DEF iter
<1>9. Total(g) = iter[S] BY <1>3, <1>4, <1>8, TotalIs
<1>. QED BY <1>1, <1>9 DEF g, S

LEMMA OutcomeIsExact ==
  ASSUME inventory \in Seq(HostLine), NodesFrom(nodes, Effective),
         result = Outcome(NodesWithValidators)
  PROVE  ParseIsExact
<1>. DEFINE kept == NodesWithValidators
            D == DOMAIN nodes
            S == {h \in D : nodes[h].ranges # <<>>}
            g == CountsOf(nodes)
<1>1. /\ result.nodes = kept /\ result.groups = BuildGroups(kept)
      /\ result.total = Outcome(kept).total
  BY DEF Outcome
<1>2. DOMAIN kept = S /\ \A h \in S : kept[h] = nodes[h] BY DEF NodesWithValidators
<1>3. S = HostsWithRange
  BY DEF NodesFrom, HostsWithRange
<1>4. IsFiniteSet(D) /\ S \in SUBSET D BY DEF NodesFrom
<1>5. result.total = FoldSet(LAMBDA i, sum : sum + Count(RangeOf(i)), 0, Effective)
  <2>1. g \in [D -> Int] BY CountsType DEF NodesFrom
  <2>2. CountsOf(kept) = On(g, S) BY <1>2 DEF CountsOf, On
  <2>3. On(g, S) \in [S -> Int] BY <2>1 DEF On
  <2>4. \A h \in D \ S : g[h] = 0
    <3>1. \A h \in D \ S : nodes[h].ranges = <<>> OBVIOUS
    <3>. QED BY <3>1, CountOfNothing DEF CountsOf
  <2>. HIDE DEF g, kept, S, D
  <2>5. IsFiniteSet(S) BY <1>4, FS_Subset
  <2>6. Outcome(kept).total = Total(CountsOf(kept)) BY <1>2, <2>2, <2>3, <2>5, OutcomeTotal
  <2>7. Total(g) = Total(On(g, S)) BY <1>4, <2>1, <2>4, TotalWithoutZeros
  <2>8. Total(g) = Total(LineCounts(Effective)) BY DEF g, NodesFrom
  <2>. QED BY <1>1, <2>2, <2>6, <2>7, <2>8, LinesTotal
<1>6. ASSUME NEW b \in {inventory[i].section : i \in HostLines}
      PROVE  LET members == {inventory[i].host : i \in {j \in HostLines : inventory[j].section = b}}
                               \intersect HostsWithRange
             IN  IF members = {} THEN b \notin DOMAIN result.groups ELSE result.groups[b] = members
  <2>. DEFINE members == {inventory[i].host : i \in {j \in HostLines : inventory[j].section = b}}
                            \intersect HostsWithRange
              In == {h \in S : b \in nodes[h].groups}
  <2>1. In = members
    <3>1. \A h \in D : b \in nodes[h].groups <=>
                         \E i \in Effective : inventory[i].host = h /\ inventory[i].section = b
      BY DEF NodesFrom
    <3>2. ASSUME NEW h
          PROVE  (\E i \in Effective : inventory[i].host = h /\ inventory[i].section = b) <=>
                   \E i \in HostLines : inventory[i].host = h /\ inventory[i].section = b
      BY EffectiveLines, LastLineIsInEffect
    <3>3. members = {h \in HostsWithRange :
                       \E i \in HostLines : inventory[i].host = h /\ inventory[i].section = b}
      OBVIOUS
    <3>. HIDE DEF members
    <3>4. In = {h \in S : \E i \in Effective : inventory[i].host = h /\ inventory[i].section = b}
      BY <3>1
    <3>. QED BY <1>3, <3>2, <3>3, <3>4
  <2>2. {h \in DOMAIN kept : b \in kept[h].groups} = In BY <1>2
  <2>3. b \in UNION {kept[h].groups : h \in DOMAIN kept} <=> In # {} BY <1>2
  <2>. HIDE DEF kept
  <2>4. DOMAIN result.groups = UNION {kept[h].groups : h \in DOMAIN kept}
    BY <1>1 DEF BuildGroups
  <2>5. b \in DOMAIN result.groups => result.groups[b] = {h \in DOMAIN kept : b \in kept[h].groups}
    BY <1>1, <2>4 DEF BuildGroups
  <2>. HIDE DEF members, In
  <2>6. IF members = {} THEN b \notin DOMAIN result.groups ELSE result.groups[b] = members
    BY <2>1, <2>2, <2>3, <2>4, <2>5
  <2>. QED BY <2>6 DEF members
<1>7. DOMAIN result.nodes = HostsWithRange BY <1>1, <1>2, <1>3
<1>. HIDE DEF kept, D, S, g
<1>. QED BY <1>5, <1>6, <1>7, Zenon DEF ParseIsExact

-----------------------------------------------------------------------------
(* The parser: the run.                                                    *)

ParserInv == ParserOK /\ FileIsRead /\ SectionsAreParsed /\ ResultIsKept

LEMMA ParserInitially ==
  ASSUME ParserInit
  PROVE  ParserInv
<1>1. /\ inventory \in Seq(HostLine) /\ line = 0 /\ sections = <<>> /\ sectionsParsed = 0
      /\ nodes = [h \in {} |-> NewNode] /\ result = NoResult
  BY ParserAssumption DEF ParserInit, ParserAssumption
<1>2. ParserOK BY <1>1 DEF ParserOK
<1>3. FileIsRead
  <2>1. \A s, x : ~Holds(sections, s, x) BY <1>1 DEF Holds
  <2>2. \A s, x : ~Written(line, s, x) BY <1>1 DEF Written, InEffect
  <2>. QED BY <1>1, <2>1, <2>2 DEF FileIsRead, WellFormed
<1>4. SectionsAreParsed
  <2>1. LinesOf(sectionsParsed) = {} BY <1>1 DEF LinesOf
  <2>. QED BY <1>1, <2>1, NoNodesFromNothing DEF SectionsAreParsed
<1>. QED BY <1>1, <1>2, <1>3, <1>4 DEF ParserInv, ResultIsKept

LEMMA ParserStep ==
  ASSUME ParserInv, [ParserNext]_parserVars
  PROVE  ParserInv'
<1>. USE DEF ParserInv
<1>1. CASE ReadLine
  <2>1. ParserOK' /\ FileIsRead' BY <1>1, ReadLineKeeps
  <2>2. /\ line < Len(inventory) /\ line \in Nat /\ Len(inventory) \in Nat
        /\ UNCHANGED <<inventory, sectionsParsed, nodes, result>>
    BY <1>1 DEF ReadLine, ParserOK
  <2>3. sectionsParsed = 0 /\ result = NoResult BY <2>2 DEF ParserOK, ResultIsKept
  <2>4. LinesOf(sectionsParsed) = {} /\ LinesOf(sectionsParsed)' = {} BY <2>2, <2>3 DEF LinesOf
  <2>5. SectionsAreParsed' BY <2>2, <2>4, NodesAfter DEF SectionsAreParsed
  <2>. QED BY <2>1, <2>2, <2>3, <2>5 DEF ResultIsKept
<1>2. CASE ParseSection
  <2>1. ParserOK' /\ FileIsRead' /\ SectionsAreParsed' BY <1>2, ParseSectionKeeps
  <2>2. sectionsParsed < Len(sections) /\ sectionsParsed \in Nat /\ Len(sections) \in Nat
        /\ result' = result
    BY <1>2 DEF ParseSection, ParserOK
  <2>. QED BY <2>1, <2>2 DEF ResultIsKept
<1>3. CASE UNCHANGED <<inventory, line, sections, sectionsParsed, nodes>>
  <2>1. ParserOK' BY <1>3 DEF ParserOK
  <2>2. FileIsRead'
    <3>1. \A s, x : Written(line, s, x)' <=> Written(line, s, x)
      BY <1>3 DEF Written, InEffect, SameKey, KeyOf
    <3>. QED BY <1>3, <3>1 DEF FileIsRead
  <2>3. SectionsAreParsed'
    <3>1. Effective' = Effective BY <1>3 DEF Effective, HostLines, Replaced
    <3>2. LinesOf(sectionsParsed)' = LinesOf(sectionsParsed) BY <1>3, <3>1 DEF LinesOf
    <3>. QED BY <1>3, <3>2, NodesAfter DEF SectionsAreParsed
  <2>4. NodesWithValidators' = NodesWithValidators BY <1>3 DEF NodesWithValidators
  <2>5. Finish \/ result' = result BY <1>3 DEF ParserNext, ReadLine, ParseSection, parserVars
  <2>6. ResultIsKept' BY <1>3, <2>4, <2>5 DEF ResultIsKept, Finish
  <2>. QED BY <2>1, <2>2, <2>3, <2>6
<1>. QED BY <1>1, <1>2, <1>3 DEF ParserNext, Finish, parserVars

LEMMA ParserImplies ==
  ASSUME ParserInv
  PROVE  ParseIsExact
<1>1. CASE result = NoResult BY <1>1 DEF ParseIsExact, NoResult
<1>2. CASE result # NoResult
  <2>1. /\ line = Len(inventory) /\ sectionsParsed = Len(sections)
        /\ result = Outcome(NodesWithValidators)
    BY <1>2 DEF ParserInv, ResultIsKept
  <2>2. NodesFrom(nodes, Effective)
    BY <2>1, AllLinesParsed DEF ParserInv, SectionsAreParsed
  <2>. QED BY <2>1, <2>2, OutcomeIsExact DEF ParserInv, ParserOK
<1>. QED BY <1>1, <1>2

\* The result is that of the lines in effect: the nodes are the hosts with a range,
\* the total counts every line's range once, and the groups list these hosts,
\* whatever the inventory and the order of its lines and sections.
THEOREM InventoryIsParsed == ParserSpec => []ParseIsExact
<1>1. ParserInit => ParserInv BY ParserInitially
<1>2. ParserInv /\ [ParserNext]_parserVars => ParserInv' BY ParserStep
<1>3. ParserInv => ParseIsExact BY ParserImplies
<1>. QED BY <1>1, <1>2, <1>3, PTL DEF ParserSpec
=============================================================================
