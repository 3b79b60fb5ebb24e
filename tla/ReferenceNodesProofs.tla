------------------------ MODULE ReferenceNodesProofs ------------------------
(***************************************************************************)
(* Proofs about ReferenceNodes for every set of clients, charts and files: *)
(* what the object lacks is what requests failed to fetch, a run that is   *)
(* cancelled leaves the object alone, the base arguments are those that    *)
(* Helm renders, and every command is the merge of its sources.            *)
(*                                                                         *)
(* The last two are about left folds.  Such a fold is unfolded once into a *)
(* function that goes from state to state, and the states are followed by  *)
(* induction over a set of numbers: FoldSteps and NatSetInduction.         *)
(***************************************************************************)
EXTENDS ReferenceNodes, WellFoundedInduction, FiniteSetTheorems, TLAPS

-----------------------------------------------------------------------------
(* Folds.                                                                  *)

LEMMA LeastNumber ==
  ASSUME NEW T \in SUBSET Nat, T # {}
  PROVE  \E x \in T : \A y \in T : x <= y
<1>. DEFINE R == OpToRel(<, Nat)
<1>1. IsWellFoundedOn(R, Nat) BY NatLessThanWellFounded
<1>. HIDE DEF R
<1>2. PICK x \in T : \A y \in T : ~ (<<y, x>> \in R)
  BY <1>1, WFMin
<1>3. \A y \in T : ~(y < x)
  BY <1>2 DEF R, OpToRel
<1>. QED BY <1>3

\* Induction, for a set of numbers.
LEMMA NatSetInduction ==
  ASSUME NEW S, 0 \in S, \A n \in Nat : n \in S => n + 1 \in S
  PROVE  Nat \subseteq S
<1>. DEFINE T == Nat \ S
<1>. SUFFICES ASSUME T # {} PROVE FALSE
  OBVIOUS
<1>1. PICK x \in T : \A y \in T : x <= y
  BY LeastNumber
<1>2. x # 0 /\ x - 1 \in Nat /\ x - 1 \notin T
  BY <1>1
<1>. QED BY <1>1, <1>2

LEMMA MaxExists ==
  ASSUME NEW n \in Nat, NEW d \in SUBSET (1..n), d # {}
  PROVE  Max(d) \in d /\ \A y \in d : y <= Max(d)
<1>. DEFINE T == {k \in Nat : n - k \in d}
<1>1. \A x \in d : n - x \in T
  BY \A x \in d : n - (n - x) = x
<1>2. PICK t \in T : \A k \in T : t <= k
  BY <1>1, LeastNumber
<1>3. ASSUME NEW y \in d PROVE n - t >= y
  <2>1. t <= n - y BY <1>1, <1>2
  <2>2. y \in Int /\ t \in Int OBVIOUS
  <2>. QED BY ONLY <2>1, <2>2, n \in Nat
<1>. QED BY <1>2, <1>3 DEF Max

\* it is the fold of F over the subsets of D, from an element that pick names.
FoldsBy(it, D, pick, start, F) ==
  \A d \in SUBSET D : it[d] = IF d = {} THEN start ELSE F[pick[d]][it[d \ {pick[d]}]]

\* The same over sets of positions, from the last one.
FoldsLeft(it, n, start, F) ==
  \A d \in SUBSET (1..n) : it[d] = IF d = {} THEN start ELSE F[Max(d)][it[d \ {Max(d)}]]

\* The sets are reached by the number of their elements.
LEMMA FoldExists ==
  ASSUME NEW D, IsFiniteSet(D),
         NEW pick, \A d \in SUBSET D : d # {} => pick[d] \in d,
         NEW A, NEW start \in A, NEW F \in [D -> [A -> A]]
  PROVE  \E it \in [SUBSET D -> A] : FoldsBy(it, D, pick, start, F)
<1>. DEFINE Small(n) == {d \in SUBSET D : Cardinality(d) <= n}
            Next1(it, d) == IF d = {} THEN start ELSE F[pick[d]][it[d \ {pick[d]}]]
            Good(n) == \E it \in [Small(n) -> A] : \A d \in Small(n) : it[d] = Next1(it, d)
            S == {n \in Nat : Good(n)}
<1>0. \A d \in SUBSET D : IsFiniteSet(d) /\ Cardinality(d) \in Nat
  BY FS_Subset, FS_CardinalityType
<1>1. Good(0)
  <2>1. \A d \in Small(0) : d = {}
    BY <1>0, FS_EmptySet
  <2>. WITNESS [d \in Small(0) |-> start] \in [Small(0) -> A]
  <2>. QED BY <2>1
<1>2. ASSUME NEW n \in Nat, Good(n) PROVE Good(n + 1)
  <2>1. PICK it \in [Small(n) -> A] : \A d \in Small(n) : it[d] = Next1(it, d)
    BY <1>2
  <2>2. ASSUME NEW d \in Small(n + 1), d # {}
        PROVE  pick[d] \in D /\ d \ {pick[d]} \in Small(n)
    <3>1. pick[d] \in d /\ IsFiniteSet(d) /\ Cardinality(d) \in Nat
      BY <1>0, <2>2
    <3>2. Cardinality(d \ {pick[d]}) = Cardinality(d) - 1
      BY <3>1, FS_RemoveElement
    <3>. QED BY <3>1, <3>2
  <2>3. \A d \in Small(n + 1) : Next1(it, d) \in A
    BY <2>2
  <2>. DEFINE new == [d \in Small(n + 1) |-> Next1(it, d)]
  <2>4. new \in [Small(n + 1) -> A]
    BY <2>3
  <2>5. Small(n) \subseteq Small(n + 1)
    BY <1>0
  <2>6. \A d \in Small(n) : new[d] = it[d]
    BY <2>1, <2>5
  <2>7. \A d \in Small(n + 1) : new[d] = Next1(new, d)
    <3>. SUFFICES ASSUME NEW d \in Small(n + 1), d # {}
                  PROVE  new[d] = Next1(new, d)
      OBVIOUS
    <3>1. new[d \ {pick[d]}] = it[d \ {pick[d]}]
      BY <2>2, <2>6
    <3>2. new[d] = Next1(it, d) OBVIOUS
    <3>. HIDE DEF new
    <3>. QED BY <3>1, <3>2
  <2>. HIDE DEF new, Small, Next1
  <2>. QED BY <2>4, <2>7
<1>3. \A n \in Nat : Good(n)
  <2>. HIDE DEF Good
  <2>1. 0 \in S BY <1>1
  <2>2. \A n \in Nat : n \in S => n + 1 \in S BY <1>2
  <2>. HIDE DEF S
  <2>3. Nat \subseteq S BY <2>1, <2>2, NatSetInduction
  <2>. QED BY <2>3 DEF S
<1>4. Small(Cardinality(D)) = SUBSET D
  BY <1>0, FS_Subset
<1>5. Good(Cardinality(D))
  <2>. HIDE DEF Good
  <2>. QED BY <1>0, <1>3
<1>6. PICK it \in [Small(Cardinality(D)) -> A] :
         \A d \in Small(Cardinality(D)) : it[d] = Next1(it, d)
  BY <1>5
<1>. HIDE DEF Small
<1>. QED BY <1>4, <1>6 DEF FoldsBy

\* Left folds: the set of positions is emptied from its maximum.
LEMMA LeftFoldExists ==
  ASSUME NEW n \in Nat, NEW A, NEW start \in A, NEW F \in [1..n -> [A -> A]]
  PROVE  \E it \in [SUBSET (1..n) -> A] : FoldsLeft(it, n, start, F)
<1>. DEFINE D == 1..n
            pick == [d \in SUBSET D |-> Max(d)]
<1>1. IsFiniteSet(D) BY FS_Interval
<1>2. \A d \in SUBSET D : d # {} => pick[d] \in d
  BY MaxExists
<1>3. \A d \in SUBSET D : pick[d] = Max(d) OBVIOUS
<1>. HIDE DEF D, pick
<1>4. F \in [D -> [A -> A]] BY DEF D
<1>5. PICK it \in [SUBSET D -> A] : FoldsBy(it, D, pick, start, F)
  BY <1>1, <1>2, <1>4, FoldExists
<1>6. FoldsLeft(it, n, start, F)
  BY <1>3, <1>5 DEF D, FoldsBy, FoldsLeft
<1>. QED BY <1>5, <1>6 DEF D

\* The first k positions.
LEMMA Prefix ==
  /\ 1..0 = {}
  /\ \A n \in Nat : \A k \in 1..n :
       1..k \in SUBSET (1..n) /\ 1..k # {} /\ Max(1..k) = k /\ (1..k) \ {k} = 1..(k - 1)
<1>1. ASSUME NEW n \in Nat, NEW k \in 1..n PROVE Max(1..k) = k
  <2>1. k \in Nat /\ k \in 1..k OBVIOUS
  <2>2. Max(1..k) \in 1..k /\ \A y \in 1..k : y <= Max(1..k)
    BY <2>1, MaxExists
  <2>. QED BY <2>1, <2>2
<1>. QED BY <1>1

\* it goes from start through the n steps of F.
StepsBy(it, n, start, F) == it[0] = start /\ \A k \in 1..n : it[k] = F[k][it[k - 1]]

\* iter unfolds like F for as long as it stays in A.
FoldsWithin(iter, n, A, start, F) ==
  /\ iter[{}] = start
  /\ \A d \in SUBSET (1..n) : d # {} /\ iter[d \ {Max(d)}] \in A =>
       iter[d] = F[Max(d)][iter[d \ {Max(d)}]]

\* A function that unfolds like F for as long as it stays in A goes through the
\* states of the fold, and so stays in A.
LEMMA FoldSteps ==
  ASSUME NEW n \in Nat, NEW A, NEW start \in A, NEW F \in [1..n -> [A -> A]],
         NEW iter, FoldsWithin(iter, n, A, start, F)
  PROVE  \E it \in [0..n -> A] : StepsBy(it, n, start, F) /\ iter[1..n] = it[n]
<1>. DEFINE it == [k \in 0..n |-> iter[1..k]]
            P == {k \in Nat : k <= n => iter[1..k] \in A}
<1>1. iter[1..0] = start BY Prefix DEF FoldsWithin
<1>2. ASSUME NEW k \in 1..n, iter[1..(k - 1)] \in A
      PROVE  iter[1..k] = F[k][iter[1..(k - 1)]]
  <2>1. 1..k \in SUBSET (1..n) /\ 1..k # {} /\ Max(1..k) = k /\ (1..k) \ {k} = 1..(k - 1)
    BY Prefix
  <2>. QED BY <1>2, <2>1 DEF FoldsWithin
<1>3. 0 \in P BY <1>1
<1>4. ASSUME NEW k \in Nat, k \in P PROVE k + 1 \in P
  <2>. SUFFICES ASSUME k + 1 <= n PROVE iter[1..(k + 1)] \in A
    OBVIOUS
  <2>1. k + 1 \in 1..n /\ (k + 1) - 1 = k /\ iter[1..k] \in A
    BY <1>4
  <2>. QED BY <1>2, <2>1
<1>. HIDE DEF P
<1>5. Nat \subseteq P BY <1>3, <1>4, NatSetInduction
<1>6. \A k \in 0..n : iter[1..k] \in A BY <1>5 DEF P
<1>7. it \in [0..n -> A] BY <1>6
<1>8. ASSUME NEW k \in 1..n PROVE it[k] = F[k][it[k - 1]]
  <2>1. k - 1 \in 0..n /\ k \in 0..n OBVIOUS
  <2>. QED BY <1>2, <1>6, <2>1
<1>9. it[0] = start /\ iter[1..n] = it[n] BY <1>1
<1>. HIDE DEF it
<1>. QED BY <1>7, <1>8, <1>9 DEF StepsBy

\* Short sequences.
LEMMA Concatenations ==
  ASSUME NEW X, NEW s \in Seq(X)
  PROVE  /\ <<>> \o s = s /\ s \o <<>> = s
         /\ \A a : s \o <<a>> = Append(s, a)
         /\ s # <<>> /\ Len(s) <= 1 => \E x \in X : s = <<x>>
<1>1. Len(s) \in Nat /\ s \in [1..Len(s) -> X] OBVIOUS
<1>2. <<>> \o s = s
  <2>1. Len(<<>> \o s) = Len(s) BY <1>1
  <2>2. \A i \in 1..Len(s) : (<<>> \o s)[i] = s[i] BY <1>1
  <2>. QED BY <2>1, <2>2
<1>3. s \o <<>> = s OBVIOUS
<1>4. \A a : s \o <<a>> = Append(s, a) OBVIOUS
<1>5. ASSUME s # <<>>, Len(s) <= 1 PROVE \E x \in X : s = <<x>>
  <2>1. Len(s) # 0 BY <1>5
  <2>2. Len(s) = 1 BY <1>1, <1>5, <2>1
  <2>3. s[1] \in X BY <1>1, <2>2
  <2>4. s = <<s[1]>> BY <1>1, <2>2
  <2>. QED BY <2>3, <2>4
<1>. QED BY <1>2, <1>3, <1>4, <1>5

\* A sequence with one more element.
LEMMA Appended ==
  ASSUME NEW X, NEW s \in Seq(X), NEW b \in X
  PROVE  /\ Append(s, b) \in Seq(X)
         /\ Len(Append(s, b)) = Len(s) + 1 /\ Append(s, b)[Len(s) + 1] = b
         /\ \A i \in 1..Len(s) : Append(s, b)[i] = s[i]
OBVIOUS

LEMMA Pairs ==
  ASSUME NEW X, NEW a \in X, NEW b \in X
  PROVE  <<a>> \o <<b>> = <<a, b>>
<1>. DEFINE s == <<a>>
            t == Append(s, b)
<1>1. s \in Seq(X) OBVIOUS
<1>2. Len(s) = 1 /\ s[1] = a OBVIOUS
<1>3. s \o <<b>> = t BY <1>1, Concatenations
<1>. HIDE DEF s
<1>4. /\ t \in Seq(X)
      /\ Len(t) = Len(s) + 1 /\ t[Len(s) + 1] = b
      /\ \A i \in 1..Len(s) : t[i] = s[i]
  BY <1>1, Appended
<1>. HIDE DEF t
<1>5. t \in Seq(X) /\ Len(t) = 2 BY <1>2, <1>4
<1>6. t[1] = a /\ t[2] = b BY <1>2, <1>4
<1>7. t = <<t[1], t[2]>> BY <1>5
<1>. QED BY <1>3, <1>6, <1>7 DEF s

-----------------------------------------------------------------------------
(* The templates of charts.                                                *)

Frames == [block : Blocks \union {"extraArgs"}, include : BOOLEAN]
Renderings == [stack : Seq(Frames), args : Seq(TextType)]
HelmBlocks == [on : BOOLEAN, taken : BOOLEAN, closed : BOOLEAN]
HelmStates == [stack : Seq(HelmBlocks), args : Seq(TextType), parses : BOOLEAN]

LEMMA LineTypes ==
  ASSUME NEW line \in LineType
  PROVE  /\ line.before \in Seq(MarkerType) /\ line.after \in Seq(MarkerType)
         /\ line.text \in TextType \/ line.text = NoText
         /\ Markers(line) \in Seq(MarkerType)
         /\ Tokens(line) \in Seq(MarkerType \union TextType)
<1>1. /\ line.before \in Seq(MarkerType) /\ line.after \in Seq(MarkerType)
      /\ line.text \in TextType \/ line.text = NoText
  BY DEF LineType
<1>2. Markers(line) \in Seq(MarkerType) BY <1>1 DEF Markers
<1>3. Tokens(line) \in Seq(MarkerType \union TextType)
  <2>1. /\ line.before \in Seq(MarkerType \union TextType)
        /\ line.after \in Seq(MarkerType \union TextType)
    BY <1>1
  <2>. HIDE DEF MarkerType, TextType, NoText
  <2>2. (IF line.text = NoText THEN <<>> ELSE <<line.text>>) \in Seq(MarkerType \union TextType)
    <3>1. CASE line.text = NoText BY <3>1
    <3>2. CASE line.text # NoText BY <1>1, <3>2
    <3>. QED BY <3>1, <3>2
  <2>. QED BY <2>1, <2>2 DEF Tokens
<1>. QED BY <1>1, <1>2, <1>3

LEMMA EndsAreCounted ==
  ASSUME NEW line \in LineType
  PROVE  CountEndMarkers(line) \in Nat
<1>. DEFINE ends == {i \in DOMAIN Markers(line) : Markers(line)[i].kind = "end"}
<1>1. IsFiniteSet(1..Len(Markers(line))) BY LineTypes, FS_Interval
<1>2. ends \in SUBSET (1..Len(Markers(line))) BY LineTypes
<1>3. IsFiniteSet(ends) BY <1>1, <1>2, FS_Subset
<1>. QED BY <1>3, FS_CardinalityType DEF CountEndMarkers

LEMMA ClassifyType ==
  ASSUME NEW line
  PROVE  ClassifyBlock(line) \in Blocks /\ Wanted(ClassifyBlock(line)) \in BOOLEAN
BY DEF ClassifyBlock, Wanted, Blocks

LEMMA PopType ==
  ASSUME NEW X, NEW stack \in Seq(X), NEW n \in Nat
  PROVE  PopN(stack, n) \in Seq(X)
<1>1. Len(stack) \in Nat OBVIOUS
<1>2. CASE n > Len(stack) BY <1>2 DEF PopN
<1>3. CASE ~(n > Len(stack))
  <2>1. Len(stack) - n \in Nat /\ Len(stack) - n <= Len(stack) BY <1>1, <1>3
  <2>2. PopN(stack, n) = SubSeq(stack, 1, Len(stack) - n) BY <1>3 DEF PopN
  <2>. QED BY <2>1, <2>2
<1>. QED BY <1>2, <1>3

LEMMA PushType ==
  ASSUME NEW stack \in Seq(Frames),
         NEW block \in Blocks \union {"extraArgs"}, NEW include \in BOOLEAN
  PROVE  Push(stack, block, include) \in Seq(Frames)
BY DEF Push, Frames

LEMMA ElseType ==
  ASSUME NEW stack \in Seq(Frames)
  PROVE  HandleElse(stack) \in Seq(Frames)
<1>1. CASE stack = <<>> BY <1>1 DEF HandleElse
<1>2. CASE stack # <<>>
  <2>. DEFINE n == Len(stack)
              on == CASE Last(stack).block = "fileLogging" -> TRUE
                      [] Last(stack).block = "nodePort" -> FALSE
                      [] OTHER -> ~stack[n].include
              top == [stack[n] EXCEPT !.include = on]
  <2>1. n \in 1..Len(stack) /\ stack[n] \in Frames BY <1>2
  <2>2. on \in BOOLEAN OBVIOUS
  <2>3. top \in Frames
    <3>. HIDE DEF on
    <3>. QED BY <2>1, <2>2 DEF Frames
  <2>4. HandleElse(stack) = [stack EXCEPT ![n] = top] BY <1>2 DEF HandleElse
  <2>. HIDE DEF top, n
  <2>. QED BY <2>1, <2>3, <2>4
<1>. QED BY <1>1, <1>2

LEMMA RenderLineType ==
  ASSUME NEW r \in Renderings, NEW line \in LineType
  PROVE  RenderLine(r, line) \in Renderings
<1>1. r.stack \in Seq(Frames) /\ r.args \in Seq(TextType)
  BY DEF Renderings
<1>2. \A s \in Seq(Frames) : PopN(s, CountEndMarkers(line)) \in Seq(Frames)
  BY EndsAreCounted, PopType
<1>3. ASSUME NEW s \in Seq(Frames), NEW a \in Seq(TextType), NEW e, e = [r EXCEPT !.stack = s]
      PROVE  e \in Renderings
  BY <1>3 DEF Renderings
<1>4. CASE IsPureTemplate(line)
  <2>1. ProcessPureTemplateLine(r.stack, line) \in Seq(Frames)
    <3>1. PopN(r.stack, 1) \in Seq(Frames) BY <1>1, PopType
    <3>. QED BY <1>1, <3>1, ClassifyType, PushType, ElseType DEF ProcessPureTemplateLine
  <2>. QED BY <1>3, <1>4, <2>1 DEF RenderLine, Renderings
<1>5. CASE ~IsPureTemplate(line) /\ ~ShouldInclude(r.stack)
  BY <1>1, <1>2, <1>3, <1>5 DEF RenderLine, Renderings
<1>6. CASE ~IsPureTemplate(line) /\ ShouldInclude(r.stack)
  <2>1. line.text \in TextType BY <1>6, LineTypes DEF IsPureTemplate
  <2>2. RenderText(r, line) \in Renderings
    <3>1. Argument(line) \in Seq(TextType) BY <2>1 DEF Argument
    <3>2. (IF OpensBlock(line) THEN Push(r.stack, ClassifyBlock(line), Wanted(ClassifyBlock(line)))
                               ELSE r.stack) \in Seq(Frames)
      BY <1>1, ClassifyType, PushType
    <3>3. r.args \o Argument(line) \in Seq(TextType) BY <1>1, <3>1
    <3>. QED BY <1>2, <3>2, <3>3 DEF RenderText, Renderings
  <2>. QED BY <1>6, <2>2 DEF RenderLine
<1>. QED BY <1>4, <1>5, <1>6

-----------------------------------------------------------------------------
(* The rendering, line by line.                                            *)

\* renderTemplate goes through the states of its loop.
LEMMA RenderUnfolds ==
  ASSUME NEW template \in Seq(LineType)
  PROVE  \E it \in [0..Len(template) -> Renderings] :
           /\ it[0] = NothingRendered
           /\ \A k \in 1..Len(template) : it[k] = RenderLine(it[k - 1], template[k])
           /\ RenderTemplate(template) = it[Len(template)].args
<1>. DEFINE A == Renderings
            n == Len(template)
            F == [k \in 1..n |-> [a \in A |-> RenderLine(a, template[k])]]
            Unfolds(it) == it = [d \in SUBSET DOMAIN template |->
                                   IF d = {} THEN NothingRendered
                                   ELSE RenderLine(it[d \ {Max(d)}], template[Max(d)])]
            iter == CHOOSE it : Unfolds(it)
<1>1. RenderTemplate(template) = iter[DOMAIN template].args
  BY DEF RenderTemplate, FoldLeft, MapThenFoldSet
<1>2. NothingRendered \in A /\ F \in [1..n -> [A -> A]]
  <2>1. NothingRendered \in A BY DEF NothingRendered, Renderings
  <2>2. \A a \in A, k \in 1..n : RenderLine(a, template[k]) \in A
    BY RenderLineType
  <2>. QED BY <2>1, <2>2
<1>3. DOMAIN template = 1..n /\ n \in Nat
  OBVIOUS
<1>4. \A k \in 1..n, a \in A : F[k][a] = RenderLine(a, template[k])
  OBVIOUS
<1>. HIDE DEF A, F, n
<1>5. PICK it \in [SUBSET (1..n) -> A] : FoldsLeft(it, n, NothingRendered, F)
  BY <1>2, <1>3, LeftFoldExists
<1>6. \A d \in SUBSET (1..n) : d # {} => Max(d) \in 1..n /\ d \ {Max(d)} \in SUBSET (1..n)
  BY <1>3, MaxExists
<1>7. Unfolds(it)
  BY <1>3, <1>4, <1>5, <1>6 DEF FoldsLeft
<1>8. Unfolds(iter)
  <2>. HIDE DEF Unfolds
  <2>. QED BY <1>7
<1>. HIDE DEF iter
<1>9. FoldsWithin(iter, n, A, NothingRendered, F)
  BY <1>3, <1>4, <1>6, <1>8 DEF FoldsWithin
<1>. HIDE DEF Unfolds
<1>10. PICK steps \in [0..n -> A] : StepsBy(steps, n, NothingRendered, F) /\ iter[1..n] = steps[n]
  BY <1>2, <1>3, <1>9, FoldSteps
<1>11. \A k \in 1..n : steps[k] = RenderLine(steps[k - 1], template[k])
  <2>1. \A k \in 1..n : k - 1 \in 0..n BY <1>3
  <2>. QED BY <1>4, <1>10, <2>1 DEF StepsBy
<1>. QED BY <1>1, <1>3, <1>10, <1>11 DEF A, n, StepsBy

LEMMA RenderType ==
  ASSUME NEW template \in Seq(LineType)
  PROVE  RenderTemplate(template) \in Seq(TextType)
<1>1. PICK it \in [0..Len(template) -> Renderings] :
         RenderTemplate(template) = it[Len(template)].args
  BY RenderUnfolds
<1>2. Len(template) \in 0..Len(template) OBVIOUS
<1>. QED BY <1>1, <1>2 DEF Renderings

LEMMA HelmTokenType ==
  ASSUME NEW r \in HelmStates, NEW token \in MarkerType \union TextType
  PROVE  HelmToken(r, token) \in HelmStates
<1>1. r.stack \in Seq(HelmBlocks) /\ r.args \in Seq(TextType) /\ r.parses \in BOOLEAN
  BY DEF HelmStates
<1>2. ASSUME NEW s \in Seq(HelmBlocks) PROVE [r EXCEPT !.stack = s] \in HelmStates
  BY DEF HelmStates
<1>3. CASE token \in TextType
  <2>1. "kind" \notin DOMAIN token BY <1>3 DEF TextType
  <2>2. Append(r.args, token) \in Seq(TextType) BY <1>1, <1>3
  <2>3. HelmText(r, token) \in HelmStates BY <1>1, <2>2 DEF HelmText, HelmStates
  <2>. QED BY <2>1, <2>3 DEF HelmToken
<1>4. CASE token \in MarkerType
  <2>1. "kind" \in DOMAIN token BY <1>4 DEF MarkerType
  <2>2. ASSUME NEW on \in BOOLEAN
        PROVE  [r EXCEPT !.stack = Append(@, Open(on))] \in HelmStates
    <3>1. Append(r.stack, Open(on)) \in Seq(HelmBlocks) BY <1>1 DEF Open, HelmBlocks
    <3>. QED BY <1>2, <3>1
  <2>3. ASSUME NEW on \in BOOLEAN, NEW closed \in BOOLEAN, InBlock(r)
        PROVE  Branch(r, on, closed) \in HelmStates
    <3>. DEFINE n == Len(r.stack)
                top == [on |-> on /\ ~Last(r.stack).taken, taken |-> on \/ Last(r.stack).taken,
                        closed |-> closed]
    <3>1. n \in 1..Len(r.stack) /\ top \in HelmBlocks
      BY <1>1, <2>3 DEF InBlock, HelmBlocks
    <3>2. Branch(r, on, closed) = [r EXCEPT !.stack = [r.stack EXCEPT ![n] = top]]
      BY <1>1 DEF Branch, HelmStates
    <3>. HIDE DEF top, n
    <3>3. [r.stack EXCEPT ![n] = top] \in Seq(HelmBlocks) BY <1>1, <3>1
    <3>. QED BY <1>2, <3>2, <3>3
  <2>4. r.stack # <<>> => [r EXCEPT !.stack = Front(@)] \in HelmStates
    <3>1. r.stack # <<>> => Front(r.stack) \in Seq(HelmBlocks) BY <1>1 DEF Front
    <3>. QED BY <1>2, <3>1
  <2>5. [r EXCEPT !.parses = FALSE] \in HelmStates BY DEF HelmStates
  <2>6. \A b : Wanted(b) \in BOOLEAN BY DEF Wanted
  <2>. QED BY <2>1, <2>2, <2>3, <2>4, <2>5, <2>6 DEF HelmToken, HelmMarker
<1>. QED BY <1>3, <1>4

\* Helm goes through the tokens of a line one by one.
LEMMA HelmLineUnfolds ==
  ASSUME NEW r \in HelmStates, NEW line \in LineType
  PROVE  \E it \in [0..Len(Tokens(line)) -> HelmStates] :
           /\ it[0] = r
           /\ \A k \in 1..Len(Tokens(line)) : it[k] = HelmToken(it[k - 1], Tokens(line)[k])
           /\ HelmLine(r, line) = it[Len(Tokens(line))]
<1>. DEFINE A == HelmStates
            tokens == Tokens(line)
            n == Len(tokens)
            F == [k \in 1..n |-> [a \in A |-> HelmToken(a, tokens[k])]]
            Unfolds(it) == it = [d \in SUBSET DOMAIN tokens |->
                                   IF d = {} THEN r
                                   ELSE HelmToken(it[d \ {Max(d)}], tokens[Max(d)])]
            iter == CHOOSE it : Unfolds(it)
<1>1. HelmLine(r, line) = iter[DOMAIN tokens]
  BY DEF HelmLine, FoldLeft, MapThenFoldSet
<1>2. tokens \in Seq(MarkerType \union TextType)
  BY LineTypes
<1>. HIDE DEF tokens
<1>3. r \in A /\ F \in [1..n -> [A -> A]]
  <2>1. ASSUME NEW a \in A, NEW k \in 1..n PROVE HelmToken(a, tokens[k]) \in A
    <3>1. tokens[k] \in MarkerType \union TextType BY <1>2
    <3>. QED BY <3>1, HelmTokenType
  <2>. QED BY <2>1
<1>4. DOMAIN tokens = 1..n /\ n \in Nat
  BY <1>2
<1>5. \A k \in 1..n, a \in A : F[k][a] = HelmToken(a, tokens[k])
  OBVIOUS
<1>. HIDE DEF A, F, n
<1>6. PICK it \in [SUBSET (1..n) -> A] : FoldsLeft(it, n, r, F)
  BY <1>3, <1>4, LeftFoldExists
<1>7. \A d \in SUBSET (1..n) : d # {} => Max(d) \in 1..n /\ d \ {Max(d)} \in SUBSET (1..n)
  BY <1>4, MaxExists
<1>8. Unfolds(it)
  BY <1>4, <1>5, <1>6, <1>7 DEF FoldsLeft
<1>9. Unfolds(iter)
  <2>. HIDE DEF Unfolds
  <2>. QED BY <1>8
<1>. HIDE DEF iter
<1>10. FoldsWithin(iter, n, A, r, F)
  BY <1>4, <1>5, <1>7, <1>9 DEF FoldsWithin
<1>. HIDE DEF Unfolds
<1>11. PICK steps \in [0..n -> A] : StepsBy(steps, n, r, F) /\ iter[1..n] = steps[n]
  BY <1>3, <1>4, <1>10, FoldSteps
<1>12. \A k \in 1..n : steps[k] = HelmToken(steps[k - 1], tokens[k])
  <2>1. \A k \in 1..n : k - 1 \in 0..n BY <1>4
  <2>. QED BY <1>5, <1>11, <2>1 DEF StepsBy
<1>. QED BY <1>1, <1>4, <1>11, <1>12 DEF A, n, tokens, StepsBy

\* Lines of at most two tokens, which are those of the supported layouts.
LEMMA HelmLineIs ==
  ASSUME NEW r \in HelmStates, NEW line \in LineType
  PROVE  /\ HelmLine(r, line) \in HelmStates
         /\ Tokens(line) = <<>> => HelmLine(r, line) = r
         /\ \A a : Tokens(line) = <<a>> => HelmLine(r, line) = HelmToken(r, a)
         /\ \A a, b : Tokens(line) = <<a, b>> =>
              HelmLine(r, line) = HelmToken(HelmToken(r, a), b)
<1>1. PICK it \in [0..Len(Tokens(line)) -> HelmStates] :
         /\ it[0] = r
         /\ \A k \in 1..Len(Tokens(line)) : it[k] = HelmToken(it[k - 1], Tokens(line)[k])
         /\ HelmLine(r, line) = it[Len(Tokens(line))]
  BY HelmLineUnfolds
<1>2. Len(Tokens(line)) \in Nat BY LineTypes
<1>3. HelmLine(r, line) \in HelmStates BY <1>1, <1>2
<1>4. Tokens(line) = <<>> => HelmLine(r, line) = r BY <1>1
<1>5. ASSUME NEW a, Tokens(line) = <<a>> PROVE HelmLine(r, line) = HelmToken(r, a)
  <2>1. Len(Tokens(line)) = 1 /\ Tokens(line)[1] = a BY <1>5
  <2>2. it[1] = HelmToken(it[1 - 1], a) BY <1>1, <2>1
  <2>. QED BY <1>1, <2>1, <2>2
<1>6. ASSUME NEW a, NEW b, Tokens(line) = <<a, b>>
      PROVE  HelmLine(r, line) = HelmToken(HelmToken(r, a), b)
  <2>1. Len(Tokens(line)) = 2 /\ Tokens(line)[1] = a /\ Tokens(line)[2] = b BY <1>6
  <2>2. it[1] = HelmToken(it[1 - 1], a) /\ it[2] = HelmToken(it[2 - 1], b) BY <1>1, <2>1
  <2>. QED BY <1>1, <2>1, <2>2
<1>. QED BY <1>3, <1>4, <1>5, <1>6

\* Helm goes through the lines one by one.
LEMMA HelmUnfolds ==
  ASSUME NEW template \in Seq(LineType)
  PROVE  \E it \in [0..Len(template) -> HelmStates] :
           /\ it[0] = HelmStart
           /\ \A k \in 1..Len(template) : it[k] = HelmLine(it[k - 1], template[k])
           /\ HelmAfter(template) = it[Len(template)]
<1>. DEFINE A == HelmStates
            n == Len(template)
            F == [k \in 1..n |-> [a \in A |-> HelmLine(a, template[k])]]
            Unfolds(it) == it = [d \in SUBSET DOMAIN template |->
                                   IF d = {} THEN HelmStart
                                   ELSE HelmLine(it[d \ {Max(d)}], template[Max(d)])]
            iter == CHOOSE it : Unfolds(it)
<1>1. HelmAfter(template) = iter[DOMAIN template]
  BY DEF HelmAfter, FoldLeft, MapThenFoldSet
<1>2. HelmStart \in A /\ F \in [1..n -> [A -> A]]
  <2>1. HelmStart \in A BY DEF HelmStart, HelmStates
  <2>2. \A a \in A, k \in 1..n : HelmLine(a, template[k]) \in A
    BY HelmLineIs
  <2>. QED BY <2>1, <2>2
<1>3. DOMAIN template = 1..n /\ n \in Nat
  OBVIOUS
<1>4. \A k \in 1..n, a \in A : F[k][a] = HelmLine(a, template[k])
  OBVIOUS
<1>. HIDE DEF A, F, n
<1>5. PICK it \in [SUBSET (1..n) -> A] : FoldsLeft(it, n, HelmStart, F)
  BY <1>2, <1>3, LeftFoldExists
<1>6. \A d \in SUBSET (1..n) : d # {} => Max(d) \in 1..n /\ d \ {Max(d)} \in SUBSET (1..n)
  BY <1>3, MaxExists
<1>7. Unfolds(it)
  BY <1>3, <1>4, <1>5, <1>6 DEF FoldsLeft
<1>8. Unfolds(iter)
  <2>. HIDE DEF Unfolds
  <2>. QED BY <1>7
<1>. HIDE DEF iter
<1>9. FoldsWithin(iter, n, A, HelmStart, F)
  BY <1>3, <1>4, <1>6, <1>8 DEF FoldsWithin
<1>. HIDE DEF Unfolds
<1>10. PICK steps \in [0..n -> A] : StepsBy(steps, n, HelmStart, F) /\ iter[1..n] = steps[n]
  BY <1>2, <1>3, <1>9, FoldSteps
<1>11. \A k \in 1..n : steps[k] = HelmLine(steps[k - 1], template[k])
  <2>1. \A k \in 1..n : k - 1 \in 0..n BY <1>3
  <2>. QED BY <1>4, <1>10, <2>1 DEF StepsBy
<1>. QED BY <1>1, <1>3, <1>10, <1>11 DEF A, n, StepsBy

\* The first lines of a template are read like the template begins.
LEMMA HelmPrefixes ==
  ASSUME NEW template \in Seq(LineType)
  PROVE  \E it \in [0..Len(template) -> HelmStates] :
           /\ it[0] = HelmStart
           /\ \A k \in 1..Len(template) : it[k] = HelmLine(it[k - 1], template[k])
           /\ \A k \in 0..Len(template) : HelmAfter(SubSeq(template, 1, k)) = it[k]
           /\ HelmAfter(template) = it[Len(template)]
<1>. DEFINE n == Len(template)
<1>1. PICK it \in [0..n -> HelmStates] :
         /\ it[0] = HelmStart
         /\ \A k \in 1..n : it[k] = HelmLine(it[k - 1], template[k])
         /\ HelmAfter(template) = it[n]
  BY HelmUnfolds
<1>2. ASSUME NEW k \in 0..n PROVE HelmAfter(SubSeq(template, 1, k)) = it[k]
  <2>. DEFINE part == SubSeq(template, 1, k)
  <2>1. /\ part \in Seq(LineType) /\ Len(part) = k /\ n \in Nat /\ k \in Nat /\ k <= n
        /\ \A j \in 1..k : part[j] = template[j]
    OBVIOUS
  <2>. HIDE DEF part, n
  <2>2. PICK of \in [0..k -> HelmStates] :
           /\ of[0] = HelmStart
           /\ \A j \in 1..k : of[j] = HelmLine(of[j - 1], part[j])
           /\ HelmAfter(part) = of[k]
    BY <2>1, HelmUnfolds
  <2>. DEFINE P == {j \in Nat : j <= k => of[j] = it[j]}
  <2>3. 0 \in P BY <1>1, <2>2
  <2>4. ASSUME NEW j \in Nat, j \in P PROVE j + 1 \in P
    <3>. SUFFICES ASSUME j + 1 <= k PROVE of[j + 1] = it[j + 1]
      OBVIOUS
    <3>1. j + 1 \in 1..k /\ j + 1 \in 1..n /\ (j + 1) - 1 = j /\ of[j] = it[j]
      BY <2>1, <2>4
    <3>. QED BY <1>1, <2>1, <2>2, <3>1
  <2>. HIDE DEF P
  <2>5. Nat \subseteq P BY <2>3, <2>4, NatSetInduction
  <2>. QED BY <2>1, <2>2, <2>5 DEF P, part
<1>. QED BY <1>1, <1>2

-----------------------------------------------------------------------------
(* The two stacks.                                                         *)

\* A block of renderTemplate's stack and Helm's state of the same block: until
\* its else has been seen, a block has been taken if it is, and its kind tells.
SameBlock(frame, block) ==
  /\ frame.include = block.on
  /\ ~block.closed =>
       /\ block.taken = block.on
       /\ frame.block = "fileLogging" => ~block.on
       /\ frame.block = "nodePort" => block.on

SameStack(frames, blocks) ==
  Len(frames) = Len(blocks) /\ \A i \in 1..Len(frames) : SameBlock(frames[i], blocks[i])

SameState(r, h) == r.args = h.args /\ SameStack(r.stack, h.stack)

LEMMA SamePush ==
  ASSUME NEW frames \in Seq(Frames), NEW blocks \in Seq(HelmBlocks), SameStack(frames, blocks),
         NEW kind \in Blocks \union {"extraArgs"}, NEW on \in BOOLEAN,
         kind = "fileLogging" => ~on, kind = "nodePort" => on
  PROVE  SameStack(Push(frames, kind, on), Append(blocks, Open(on)))
<1>. DEFINE f == [block |-> kind, include |-> on]
            n == Len(frames)
<1>1. SameBlock(f, Open(on)) BY DEF SameBlock, Open
<1>. HIDE DEF f
<1>2. n \in Nat /\ n = Len(blocks) BY DEF SameStack
<1>3. \A i \in 1..(n + 1) : SameBlock(Append(frames, f)[i], Append(blocks, Open(on))[i])
  BY <1>1, <1>2 DEF SameStack
<1>4. Len(Append(frames, f)) = n + 1 /\ Len(Append(blocks, Open(on))) = n + 1 BY <1>2
<1>. QED BY <1>3, <1>4 DEF SameStack, Push, f

LEMMA SamePop ==
  ASSUME NEW frames \in Seq(Frames), NEW blocks \in Seq(HelmBlocks), SameStack(frames, blocks)
  PROVE  /\ PopN(frames, 0) = frames
         /\ blocks # <<>> => SameStack(PopN(frames, 1), Front(blocks))
<1>1. Len(frames) \in Nat /\ Len(frames) = Len(blocks) BY DEF SameStack
<1>2. PopN(frames, 0) = frames
  <2>1. PopN(frames, 0) = SubSeq(frames, 1, Len(frames)) BY <1>1 DEF PopN
  <2>. QED BY <2>1
<1>3. ASSUME blocks # <<>> PROVE SameStack(PopN(frames, 1), Front(blocks))
  <2>. DEFINE n == Len(frames) - 1
  <2>1. n \in Nat /\ n + 1 = Len(frames) /\ n + 1 = Len(blocks) BY <1>1, <1>3
  <2>2. PopN(frames, 1) = SubSeq(frames, 1, n) BY <2>1 DEF PopN
  <2>3. Front(blocks) = SubSeq(blocks, 1, n) BY <2>1 DEF Front
  <2>. HIDE DEF n
  <2>4. Len(SubSeq(frames, 1, n)) = n /\ Len(SubSeq(blocks, 1, n)) = n BY <2>1
  <2>5. \A i \in 1..n : SubSeq(frames, 1, n)[i] = frames[i] /\ SubSeq(blocks, 1, n)[i] = blocks[i]
    BY <2>1
  <2>6. \A i \in 1..n : i \in 1..Len(frames) BY <2>1
  <2>. QED BY <2>2, <2>3, <2>4, <2>5, <2>6 DEF SameStack
<1>. QED BY <1>2, <1>3

LEMMA SameElse ==
  ASSUME NEW r \in Renderings, NEW h \in HelmStates, SameState(r, h), InBlock(h)
  PROVE  /\ SameStack(HandleElse(r.stack), Branch(h, TRUE, TRUE).stack)
         /\ Branch(h, TRUE, TRUE).args = h.args
<1>. DEFINE n == Len(r.stack)
            frame == r.stack[n]
            block == h.stack[n]
            on == CASE frame.block = "fileLogging" -> TRUE
                    [] frame.block = "nodePort" -> FALSE
                    [] OTHER -> ~frame.include
            f == [frame EXCEPT !.include = on]
            b == [on |-> TRUE /\ ~block.taken, taken |-> TRUE \/ block.taken, closed |-> TRUE]
<1>1. /\ r.stack \in Seq(Frames) /\ h.stack \in Seq(HelmBlocks) /\ h.stack # <<>>
      /\ SameStack(r.stack, h.stack)
  BY DEF Renderings, HelmStates, SameState, InBlock
<1>2. n \in Nat /\ n = Len(h.stack) /\ n >= 1 /\ n \in 1..n BY <1>1 DEF SameStack
<1>3. frame \in Frames /\ block \in HelmBlocks /\ SameBlock(frame, block)
  BY <1>1, <1>2 DEF SameStack
<1>4. Last(h.stack) = block /\ Last(r.stack) = frame /\ ~block.closed
  BY <1>1, <1>2 DEF InBlock, Last
<1>5. HandleElse(r.stack) = [r.stack EXCEPT ![n] = f]
  BY <1>1, <1>2, <1>4 DEF HandleElse
<1>6. Branch(h, TRUE, TRUE).stack = [h.stack EXCEPT ![n] = b]
  BY <1>2, <1>4 DEF Branch, HelmStates
<1>7. Branch(h, TRUE, TRUE).args = h.args
  BY DEF Branch, HelmStates
<1>8. SameBlock(f, b)
  <2>1. on = ~block.taken
    BY <1>3, <1>4 DEF SameBlock, Frames, HelmBlocks
  <2>2. f.include = on BY <1>3 DEF Frames
  <2>. QED BY <2>1, <2>2 DEF SameBlock
<1>. HIDE DEF f, b, n
<1>9. /\ \A i \in 1..n : [r.stack EXCEPT ![n] = f][i] = IF i = n THEN f ELSE r.stack[i]
      /\ \A i \in 1..n : [h.stack EXCEPT ![n] = b][i] = IF i = n THEN b ELSE h.stack[i]
      /\ Len([r.stack EXCEPT ![n] = f]) = n /\ Len([h.stack EXCEPT ![n] = b]) = n
  BY <1>1, <1>2 DEF n
<1>10. \A i \in 1..n : SameBlock(r.stack[i], h.stack[i]) BY <1>1 DEF SameStack, n
<1>11. SameStack([r.stack EXCEPT ![n] = f], [h.stack EXCEPT ![n] = b])
  BY <1>8, <1>9, <1>10 DEF SameStack
<1>. QED BY <1>5, <1>6, <1>7, <1>11

\* An argument is rendered under the same conditions.
LEMMA SameArgument ==
  ASSUME NEW r \in Renderings, NEW h \in HelmStates, SameState(r, h), NEW text \in TextType
  PROVE  /\ ShouldInclude(r.stack) <=> AllOn(h)
         /\ HelmToken(h, text) = HelmText(h, text)
         /\ HelmText(h, text).stack = h.stack
         /\ HelmText(h, text).args =
              IF ShouldInclude(r.stack) /\ ~text.skipped /\ text.flag # NoFlag
              THEN Append(r.args, text) ELSE r.args
<1>1. r.stack \in Seq(Frames) /\ h.stack \in Seq(HelmBlocks) BY DEF Renderings, HelmStates
<1>2. ShouldInclude(r.stack) <=> AllOn(h)
  <2>1. DOMAIN r.stack = 1..Len(r.stack) /\ DOMAIN h.stack = 1..Len(r.stack)
    BY <1>1 DEF SameState, SameStack
  <2>. QED BY <2>1 DEF SameState, SameStack, SameBlock, ShouldInclude, AllOn
<1>3. HelmToken(h, text) = HelmText(h, text)
  <2>1. "kind" \notin DOMAIN text BY DEF TextType
  <2>. QED BY <2>1 DEF HelmToken
<1>4. r.args = h.args BY DEF SameState
<1>. QED BY <1>2, <1>3, <1>4 DEF HelmText, HelmStates

\* What Helm has rejected stays rejected.
LEMMA ParsedBefore ==
  ASSUME NEW h \in HelmStates, NEW line \in LineType, HelmLine(h, line).parses
  PROVE  h.parses
<1>. DEFINE n == Len(Tokens(line))
<1>1. PICK it \in [0..n -> HelmStates] :
         /\ it[0] = h
         /\ \A k \in 1..n : it[k] = HelmToken(it[k - 1], Tokens(line)[k])
         /\ HelmLine(h, line) = it[n]
  BY HelmLineUnfolds
<1>2. n \in Nat /\ \A k \in 1..n : Tokens(line)[k] \in MarkerType \union TextType BY LineTypes
<1>. HIDE DEF n
<1>3. ASSUME NEW r \in HelmStates, NEW token, HelmToken(r, token).parses PROVE r.parses
  BY <1>3 DEF HelmToken, HelmMarker, HelmText, Branch, HelmStates
<1>. DEFINE P == {k \in Nat : k <= n /\ it[k].parses => h.parses}
<1>4. 0 \in P BY <1>1
<1>5. ASSUME NEW k \in Nat, k \in P PROVE k + 1 \in P
  <2>. SUFFICES ASSUME k + 1 <= n, it[k + 1].parses PROVE h.parses
    OBVIOUS
  <2>1. k + 1 \in 1..n /\ k \in 0..n /\ (k + 1) - 1 = k BY <1>2
  <2>2. it[k] \in HelmStates /\ it[k + 1] = HelmToken(it[k], Tokens(line)[k + 1]) BY <1>1, <2>1
  <2>. QED BY <1>3, <1>5, <2>1, <2>2
<1>. HIDE DEF P
<1>6. Nat \subseteq P BY <1>4, <1>5, NatSetInduction
<1>. QED BY <1>1, <1>2, <1>6 DEF P

\* What Supported asks of a line that is read in the state h.
SupportedAt(h, line) ==
  /\ Len(Markers(line)) <= 1
  /\ line.before = <<>> \/ line.text = NoText
  /\ ~Has(line, "elseif")
  /\ line.text # NoText => ~Has(line, "else") /\ ~Has(line, "range")
  /\ line.text # NoText /\ line.after # <<>> => ~line.text.skipped /\ (Has(line, "end") \/ AllOn(h))

\* What the tests for a line find when it has no marker, or only m.
LEMMA WithoutMarkers ==
  ASSUME NEW line, Markers(line) = <<>>
  PROVE  /\ \A kind : ~Has(line, kind)
         /\ ~OpensBlock(line)
         /\ CountEndMarkers(line) = 0
<1>1. ToSet(Markers(line)) = {} /\ DOMAIN Markers(line) = {} BY DEF ToSet
<1>2. \A kind : ~Has(line, kind) BY <1>1 DEF Has, OfKind
<1>3. CountEndMarkers(line) = 0 BY <1>1, FS_EmptySet DEF CountEndMarkers
<1>. QED BY <1>2, <1>3 DEF OpensBlock

LEMMA WithMarker ==
  ASSUME NEW line, NEW m \in MarkerType, Markers(line) = <<m>>
  PROVE  /\ \A kind : Has(line, kind) <=> m.kind = kind
         /\ OpensBlock(line) <=> m.kind \in {"if", "elseif"}
         /\ OpensBlock(line) => ClassifyBlock(line) = m.block
         /\ CountEndMarkers(line) = IF m.kind = "end" THEN 1 ELSE 0
<1>1. ToSet(Markers(line)) = {m} /\ DOMAIN Markers(line) = {1} /\ Markers(line)[1] = m
  BY DEF ToSet
<1>2. \A kinds : OfKind(line, kinds) = IF m.kind \in kinds THEN {m} ELSE {}
  BY <1>1 DEF OfKind
<1>3. \A kind : Has(line, kind) <=> m.kind = kind BY <1>2 DEF Has
<1>4. OpensBlock(line) <=> m.kind \in {"if", "elseif"} BY <1>3 DEF OpensBlock
<1>5. ASSUME OpensBlock(line) PROVE ClassifyBlock(line) = m.block
  <2>1. m.block \in Blocks BY <1>4, <1>5 DEF MarkerType
  <2>2. {e.block : e \in OfKind(line, {"if", "elseif"})} = {m.block} BY <1>2, <1>4, <1>5
  <2>. QED BY <2>1, <2>2 DEF ClassifyBlock, Blocks
<1>6. CountEndMarkers(line) = IF m.kind = "end" THEN 1 ELSE 0
  <2>1. {i \in DOMAIN Markers(line) : Markers(line)[i].kind = "end"}
          = IF m.kind = "end" THEN {1} ELSE {}
    BY <1>1
  <2>. QED BY <2>1, FS_EmptySet, FS_Singleton DEF CountEndMarkers
<1>. QED BY <1>3, <1>4, <1>5, <1>6

\* A line of a single marker.
LEMMA SameMarker ==
  ASSUME NEW r \in Renderings, NEW h \in HelmStates, SameState(r, h),
         NEW line \in LineType, line.text = NoText, SupportedAt(h, line),
         NEW m \in MarkerType, Markers(line) = <<m>>, HelmToken(h, m).parses
  PROVE  SameState(RenderLine(r, line), HelmToken(h, m))
<1>1. r.stack \in Seq(Frames) /\ h.stack \in Seq(HelmBlocks) /\ SameStack(r.stack, h.stack)
      /\ r.args = h.args
  BY DEF Renderings, HelmStates, SameState
<1>2. HelmToken(h, m) = HelmMarker(h, m)
  <2>1. "kind" \in DOMAIN m BY DEF MarkerType
  <2>. QED BY <2>1 DEF HelmToken
<1>3. RenderLine(r, line) = [r EXCEPT !.stack = ProcessPureTemplateLine(r.stack, line)]
  BY DEF RenderLine, IsPureTemplate
<1>4. /\ RenderLine(r, line).stack = ProcessPureTemplateLine(r.stack, line)
      /\ RenderLine(r, line).args = r.args
  BY <1>3 DEF Renderings
<1>5. m.kind \in {"if", "else", "end", "range"} /\ (m.kind = "if" => m.block \in Blocks)
  BY WithMarker DEF SupportedAt, MarkerType
<1>6. CASE m.kind = "if"
  <2>1. ProcessPureTemplateLine(r.stack, line) = Push(r.stack, m.block, Wanted(m.block))
    BY <1>6, WithMarker DEF ProcessPureTemplateLine
  <2>2. HelmToken(h, m) = [h EXCEPT !.stack = Append(@, Open(Wanted(m.block)))]
    BY <1>2, <1>6 DEF HelmMarker
  <2>3. /\ HelmToken(h, m).stack = Append(h.stack, Open(Wanted(m.block)))
        /\ HelmToken(h, m).args = h.args
    BY <2>2 DEF HelmStates
  <2>4. SameStack(Push(r.stack, m.block, Wanted(m.block)), Append(h.stack, Open(Wanted(m.block))))
    <3>1. Wanted(m.block) \in BOOLEAN /\ m.block \in Blocks \union {"extraArgs"}
      BY <1>5, <1>6 DEF Wanted
    <3>2. (m.block = "fileLogging" => ~Wanted(m.block)) /\ (m.block = "nodePort" => Wanted(m.block))
      BY DEF Wanted
    <3>. QED BY <1>1, <3>1, <3>2, SamePush
  <2>. QED BY <1>1, <1>4, <2>1, <2>3, <2>4 DEF SameState
<1>7. CASE m.kind = "range"
  <2>1. ProcessPureTemplateLine(r.stack, line) = Push(r.stack, "extraArgs", FALSE)
    BY <1>7, WithMarker DEF ProcessPureTemplateLine
  <2>2. HelmToken(h, m) = [h EXCEPT !.stack = Append(@, Open(FALSE))]
    BY <1>2, <1>7 DEF HelmMarker
  <2>3. /\ HelmToken(h, m).stack = Append(h.stack, Open(FALSE))
        /\ HelmToken(h, m).args = h.args
    BY <2>2 DEF HelmStates
  <2>4. SameStack(Push(r.stack, "extraArgs", FALSE), Append(h.stack, Open(FALSE)))
    BY <1>1, SamePush
  <2>. QED BY <1>1, <1>4, <2>1, <2>3, <2>4 DEF SameState
<1>8. CASE m.kind = "else"
  <2>1. ProcessPureTemplateLine(r.stack, line) = HandleElse(r.stack)
    BY <1>8, WithMarker DEF ProcessPureTemplateLine
  <2>2. InBlock(h) /\ HelmToken(h, m) = Branch(h, TRUE, TRUE)
    <3>1. ~InBlock(h) => ~HelmToken(h, m).parses BY <1>2, <1>8 DEF HelmMarker, HelmStates
    <3>. QED BY <1>2, <1>8, <3>1 DEF HelmMarker
  <2>. QED BY <1>1, <1>4, <2>1, <2>2, SameElse DEF SameState
<1>9. CASE m.kind = "end"
  <2>1. ProcessPureTemplateLine(r.stack, line) = PopN(r.stack, 1)
    BY <1>9, WithMarker DEF ProcessPureTemplateLine
  <2>2. h.stack # <<>> /\ HelmToken(h, m) = [h EXCEPT !.stack = Front(@)]
    <3>1. h.stack = <<>> => ~HelmToken(h, m).parses BY <1>2, <1>9 DEF HelmMarker, HelmStates
    <3>. QED BY <1>2, <1>9, <3>1 DEF HelmMarker
  <2>3. /\ HelmToken(h, m).stack = Front(h.stack)
        /\ HelmToken(h, m).args = h.args
    BY <2>2 DEF HelmStates
  <2>. QED BY <1>1, <1>4, <2>1, <2>2, <2>3, SamePop DEF SameState
<1>. QED BY <1>5, <1>6, <1>7, <1>8, <1>9

\* A line of an argument, and of a marker after it.
LEMMA SameText ==
  ASSUME NEW r \in Renderings, NEW h \in HelmStates, SameState(r, h),
         NEW line \in LineType, line.text # NoText, SupportedAt(h, line), HelmLine(h, line).parses
  PROVE  SameState(RenderLine(r, line), HelmLine(h, line))
<1>. DEFINE text == line.text
            h1 == HelmText(h, text)
            args == IF ShouldInclude(r.stack) /\ ~text.skipped /\ text.flag # NoFlag
                    THEN Append(r.args, text) ELSE r.args
<1>1. /\ text \in TextType /\ line.before = <<>> /\ Markers(line) = line.after
      /\ line.after \in Seq(MarkerType)
  BY LineTypes, Concatenations DEF SupportedAt, Markers
<1>2. Tokens(line) = <<text>> \o line.after
  <2>1. <<text>> \in Seq(TextType) BY <1>1
  <2>2. <<>> \o <<text>> = <<text>> BY <2>1, Concatenations
  <2>. QED BY <1>1, <2>2 DEF Tokens
<1>3. r.stack \in Seq(Frames) /\ h.stack \in Seq(HelmBlocks) /\ r.args \in Seq(TextType)
      /\ SameStack(r.stack, h.stack) /\ r.args = h.args
  BY DEF Renderings, HelmStates, SameState
<1>4. /\ ShouldInclude(r.stack) <=> AllOn(h)
      /\ HelmToken(h, text) = h1 /\ h1.stack = h.stack /\ h1.args = args
  BY <1>1, SameArgument
<1>5. ~IsPureTemplate(line) BY <1>1 DEF IsPureTemplate
<1>6. r.args \o Argument(line) = IF text.flag # NoFlag THEN Append(r.args, text) ELSE r.args
  BY <1>1, <1>3, Concatenations DEF Argument
<1>7. CASE line.after = <<>>
  <2>1. HelmLine(h, line) = h1
    <3>1. Tokens(line) = <<text>> BY <1>2, <1>7
    <3>. QED BY <1>4, <3>1, HelmLineIs
  <2>2. CountEndMarkers(line) = 0 /\ ~OpensBlock(line) BY <1>1, <1>7, WithoutMarkers
  <2>3. PopN(r.stack, 0) = r.stack BY <1>3, SamePop
  <2>4. RenderLine(r, line).stack = r.stack /\ RenderLine(r, line).args = args
    BY <1>5, <1>6, <2>2, <2>3 DEF RenderLine, RenderText, Renderings
  <2>. QED BY <1>3, <1>4, <2>1, <2>4 DEF SameState
<1>8. CASE line.after # <<>>
  <2>1. PICK m \in MarkerType : line.after = <<m>>
    <3>1. Len(line.after) <= 1 BY <1>1 DEF SupportedAt
    <3>. QED BY <1>1, <1>8, <3>1, Concatenations
  <2>2. HelmLine(h, line) = HelmToken(h1, m)
    <3>1. text \in MarkerType \union TextType /\ m \in MarkerType \union TextType BY <1>1
    <3>2. Tokens(line) = <<text, m>>
      <4>. HIDE DEF text
      <4>. QED BY <1>2, <2>1, <3>1, Pairs
    <3>. QED BY <1>4, <3>2, HelmLineIs
  <2>3. ~text.skipped /\ m.kind \in {"if", "end"} /\ (m.kind = "end" \/ AllOn(h))
        /\ (m.kind = "if" => m.block \in Blocks)
    BY <1>1, <1>8, <2>1, WithMarker DEF SupportedAt, MarkerType
  <2>4. HelmToken(h1, m) = HelmMarker(h1, m)
    <3>1. "kind" \in DOMAIN m BY DEF MarkerType
    <3>. QED BY <3>1 DEF HelmToken
  <2>5. h1 \in HelmStates
    BY <1>1, <1>4, HelmTokenType
  <2>. HIDE DEF h1, args
  <2>6. CASE m.kind = "end"
    <3>1. CountEndMarkers(line) = 1 /\ ~OpensBlock(line) BY <1>1, <2>1, <2>6, WithMarker
    <3>2. h1.stack # <<>> /\ HelmToken(h1, m) = [h1 EXCEPT !.stack = Front(@)]
      <4>1. h1.stack = <<>> => ~HelmToken(h1, m).parses
        BY <2>4, <2>5, <2>6 DEF HelmMarker, HelmStates
      <4>. QED BY <2>2, <2>4, <2>6, <4>1 DEF HelmMarker
    <3>3. /\ HelmToken(h1, m).stack = Front(h.stack)
          /\ HelmToken(h1, m).args = args
      BY <1>4, <2>5, <3>2 DEF HelmStates
    <3>4. RenderLine(r, line).stack = PopN(r.stack, 1) /\ RenderLine(r, line).args = args
      BY <1>5, <1>6, <2>3, <3>1 DEF RenderLine, RenderText, Renderings, args
    <3>5. SameStack(PopN(r.stack, 1), Front(h.stack)) BY <1>3, <1>4, <3>2, SamePop
    <3>. QED BY <2>2, <3>3, <3>4, <3>5 DEF SameState
  <2>7. CASE m.kind = "if"
    <3>1. /\ CountEndMarkers(line) = 0 /\ OpensBlock(line) /\ ClassifyBlock(line) = m.block
          /\ ShouldInclude(r.stack)
      BY <1>1, <1>4, <2>1, <2>3, <2>7, WithMarker
    <3>2. HelmToken(h1, m) = [h1 EXCEPT !.stack = Append(@, Open(Wanted(m.block)))]
      BY <2>4, <2>7 DEF HelmMarker
    <3>3. /\ HelmToken(h1, m).stack = Append(h.stack, Open(Wanted(m.block)))
          /\ HelmToken(h1, m).args = args
      BY <1>4, <2>5, <3>2 DEF HelmStates
    <3>4. Wanted(m.block) \in BOOLEAN /\ m.block \in Blocks \union {"extraArgs"}
      BY <2>3, <2>7 DEF Wanted
    <3>5. (m.block = "fileLogging" => ~Wanted(m.block)) /\ (m.block = "nodePort" => Wanted(m.block))
      BY DEF Wanted
    <3>. DEFINE opened == Push(r.stack, m.block, Wanted(m.block))
    <3>6. opened \in Seq(Frames) BY <1>3, <3>4, PushType
    <3>7. SameStack(opened, Append(h.stack, Open(Wanted(m.block)))) BY <1>3, <3>4, <3>5, SamePush
    <3>8. PopN(opened, 0) = opened
      <4>1. Append(h.stack, Open(Wanted(m.block))) \in Seq(HelmBlocks)
        BY <1>3, <3>4 DEF Open, HelmBlocks
      <4>. HIDE DEF opened
      <4>. QED BY <3>6, <3>7, <4>1, SamePop
    <3>9. RenderLine(r, line).stack = opened /\ RenderLine(r, line).args = args
      BY <1>5, <1>6, <2>3, <3>1, <3>8 DEF RenderLine, RenderText, args
    <3>. HIDE DEF opened
    <3>. QED BY <1>4, <2>2, <3>3, <3>7, <3>9 DEF SameState
  <2>. QED BY <2>3, <2>6, <2>7
<1>. QED BY <1>7, <1>8

\* So every line leads to the same state.
LEMMA SameLine ==
  ASSUME NEW r \in Renderings, NEW h \in HelmStates, SameState(r, h),
         NEW line \in LineType, SupportedAt(h, line), HelmLine(h, line).parses
  PROVE  SameState(RenderLine(r, line), HelmLine(h, line))
<1>1. CASE line.text # NoText BY <1>1, SameText
<1>2. CASE line.text = NoText
  <2>1. Tokens(line) = Markers(line) /\ Markers(line) \in Seq(MarkerType)
    BY <1>2, LineTypes, Concatenations DEF Tokens, Markers
  <2>2. CASE Markers(line) = <<>>
    <3>1. HelmLine(h, line) = h BY <2>1, <2>2, HelmLineIs
    <3>2. RenderLine(r, line) = [r EXCEPT !.stack = r.stack]
      BY <1>2, <2>2, WithoutMarkers DEF RenderLine, IsPureTemplate, ProcessPureTemplateLine
    <3>3. RenderLine(r, line) = r BY <3>2 DEF Renderings
    <3>. QED BY <3>1, <3>3
  <2>3. CASE Markers(line) # <<>>
    <3>1. PICK m \in MarkerType : Markers(line) = <<m>>
      <4>1. Len(Markers(line)) <= 1 BY DEF SupportedAt
      <4>. QED BY <2>1, <2>3, <4>1, Concatenations
    <3>2. HelmLine(h, line) = HelmToken(h, m) BY <2>1, <3>1, HelmLineIs
    <3>. QED BY <1>2, <3>1, <3>2, SameMarker
  <2>. QED BY <2>2, <2>3
<1>. QED BY <1>1, <1>2

\* And the arguments are those that Helm renders.
LEMMA RenderIsHelm ==
  ASSUME NEW template \in Seq(LineType), Parses(template), Supported(template)
  PROVE  RenderTemplate(template) = HelmAfter(template).args
<1>. DEFINE n == Len(template)
<1>1. PICK r \in [0..n -> Renderings] :
         /\ r[0] = NothingRendered
         /\ \A k \in 1..n : r[k] = RenderLine(r[k - 1], template[k])
         /\ RenderTemplate(template) = r[n].args
  BY RenderUnfolds
<1>2. PICK h \in [0..n -> HelmStates] :
         /\ h[0] = HelmStart
         /\ \A k \in 1..n : h[k] = HelmLine(h[k - 1], template[k])
         /\ \A k \in 0..n : HelmAfter(SubSeq(template, 1, k)) = h[k]
         /\ HelmAfter(template) = h[n]
  BY HelmPrefixes
<1>3. n \in Nat /\ DOMAIN template = 1..n /\ \A k \in 1..n : template[k] \in LineType
  OBVIOUS
<1>. HIDE DEF n
<1>. DEFINE P == {k \in Nat : k <= n /\ h[k].parses => SameState(r[k], h[k])}
<1>4. 0 \in P
  BY <1>1, <1>2 DEF SameState, SameStack, NothingRendered, HelmStart
<1>5. ASSUME NEW k \in Nat, k \in P PROVE k + 1 \in P
  <2>. SUFFICES ASSUME k + 1 <= n, h[k + 1].parses PROVE SameState(r[k + 1], h[k + 1])
    OBVIOUS
  <2>1. k + 1 \in 1..n /\ k \in 0..n /\ (k + 1) - 1 = k BY <1>3
  <2>. DEFINE line == template[k + 1]
  <2>2. r[k + 1] = RenderLine(r[k], line) /\ h[k + 1] = HelmLine(h[k], line) BY <1>1, <1>2, <2>1
  <2>3. r[k] \in Renderings /\ h[k] \in HelmStates /\ line \in LineType BY <1>1, <1>2, <1>3, <2>1
  <2>4. HelmAfter(SubSeq(template, 1, (k + 1) - 1)) = h[k] BY <1>2, <2>1
  <2>5. SupportedAt(h[k], line)
    BY <1>3, <2>1, <2>4 DEF Supported, SupportedAt
  <2>6. h[k].parses BY <2>2, <2>3, ParsedBefore
  <2>7. SameState(r[k], h[k]) BY <1>5, <2>1, <2>6
  <2>. QED BY <2>2, <2>3, <2>5, <2>7, SameLine
<1>. HIDE DEF P
<1>6. Nat \subseteq P BY <1>4, <1>5, NatSetInduction
<1>7. h[n].parses BY <1>2 DEF Parses
<1>8. SameState(r[n], h[n]) BY <1>3, <1>6, <1>7 DEF P
<1>. QED BY <1>1, <1>2, <1>8 DEF SameState

-----------------------------------------------------------------------------
(* CommandBuilder.                                                         *)

\* What one more argument does to those that are kept.
KeepStep(kept, arg, overridden) ==
  IF arg.flag \in overridden \union Flags(kept) THEN kept ELSE Append(kept, arg)

LEMMA KeepUnfolds ==
  ASSUME NEW X, NEW args \in Seq(X), NEW overridden
  PROVE  \E it \in [0..Len(args) -> Seq(X)] :
           /\ it[0] = <<>>
           /\ \A k \in 1..Len(args) : it[k] = KeepStep(it[k - 1], args[k], overridden)
           /\ Keep(args, overridden) = it[Len(args)]
<1>. DEFINE A == Seq(X)
            n == Len(args)
            F == [k \in 1..n |-> [a \in A |-> KeepStep(a, args[k], overridden)]]
            Unfolds(it) == it = [d \in SUBSET DOMAIN args |-> IF d = {} THEN <<>>
                                   ELSE IF args[Max(d)].flag \in
                                             overridden \union Flags(it[d \ {Max(d)}])
                                        THEN it[d \ {Max(d)}]
                                        ELSE Append(it[d \ {Max(d)}], args[Max(d)])]
            iter == CHOOSE it : Unfolds(it)
<1>1. Keep(args, overridden) = iter[DOMAIN args]
  BY DEF Keep, FoldLeft, MapThenFoldSet
<1>2. <<>> \in A /\ F \in [1..n -> [A -> A]]
  <2>1. ASSUME NEW a \in A, NEW k \in 1..n PROVE KeepStep(a, args[k], overridden) \in A
    BY DEF KeepStep
  <2>. QED BY <2>1
<1>3. DOMAIN args = 1..n /\ n \in Nat
  OBVIOUS
<1>4. \A k \in 1..n, a \in A : F[k][a] = KeepStep(a, args[k], overridden)
  OBVIOUS
<1>. HIDE DEF A, F, n
<1>5. PICK it \in [SUBSET (1..n) -> A] : FoldsLeft(it, n, <<>>, F)
  BY <1>2, <1>3, LeftFoldExists
<1>6. \A d \in SUBSET (1..n) : d # {} => Max(d) \in 1..n /\ d \ {Max(d)} \in SUBSET (1..n)
  BY <1>3, MaxExists
<1>7. Unfolds(it)
  BY <1>3, <1>4, <1>5, <1>6 DEF FoldsLeft, KeepStep
<1>8. Unfolds(iter)
  <2>. HIDE DEF Unfolds
  <2>. QED BY <1>7
<1>. HIDE DEF iter
<1>9. FoldsWithin(iter, n, A, <<>>, F)
  BY <1>3, <1>4, <1>6, <1>8 DEF KeepStep, FoldsWithin
<1>. HIDE DEF Unfolds
<1>10. PICK steps \in [0..n -> A] : StepsBy(steps, n, <<>>, F) /\ iter[1..n] = steps[n]
  BY <1>2, <1>3, <1>9, FoldSteps
<1>11. \A k \in 1..n : steps[k] = KeepStep(steps[k - 1], args[k], overridden)
  <2>1. \A k \in 1..n : k - 1 \in 0..n BY <1>3
  <2>. QED BY <1>4, <1>10, <2>1 DEF StepsBy
<1>. QED BY <1>1, <1>3, <1>10, <1>11 DEF A, n, StepsBy

\* The flags of the first k arguments.
FlagsUpTo(args, k) == {args[i].flag : i \in 1..k}

Distinct(args) == \A i, j \in DOMAIN args : args[i].flag = args[j].flag => i = j

LEMMA FlagsOfMore ==
  ASSUME NEW X, NEW r \in Seq(X), NEW arg \in X
  PROVE  /\ Flags(Append(r, arg)) = Flags(r) \union {arg.flag}
         /\ Distinct(r) /\ arg.flag \notin Flags(r) => Distinct(Append(r, arg))
<1>. DEFINE t == Append(r, arg)
            l == Len(r)
<1>1. /\ l \in Nat /\ DOMAIN r = 1..l /\ DOMAIN t = 1..(l + 1) /\ 1..(l + 1) = 1..l \union {l + 1}
      /\ \A i \in 1..l : t[i] = r[i]
      /\ t[l + 1] = arg
  OBVIOUS
<1>. HIDE DEF t, l
<1>2. Flags(t) = Flags(r) \union {arg.flag} BY <1>1 DEF Flags
<1>3. Distinct(r) /\ arg.flag \notin Flags(r) => Distinct(t) BY <1>1 DEF Flags, Distinct
<1>. QED BY <1>2, <1>3 DEF t

\* The arguments that are kept have all flags that are not overridden, each once.
LEMMA KeepIsExact ==
  ASSUME NEW X, NEW args \in Seq(X), NEW overridden
  PROVE  LET kept == Keep(args, overridden)
         IN  /\ kept \in Seq(X)
             /\ Flags(kept) = Flags(args) \ overridden
             /\ Distinct(kept)
             /\ \A i \in DOMAIN kept : kept[i] \in ToSet(args)
<1>. DEFINE n == Len(args)
            Kept(r, k) == /\ Flags(r) = FlagsUpTo(args, k) \ overridden
                          /\ Distinct(r)
                          /\ \A i \in DOMAIN r : r[i] \in ToSet(args)
<1>1. PICK it \in [0..n -> Seq(X)] :
           /\ it[0] = <<>>
           /\ \A k \in 1..n : it[k] = KeepStep(it[k - 1], args[k], overridden)
           /\ Keep(args, overridden) = it[n]
  BY KeepUnfolds
<1>. DEFINE P == {k \in Nat : k <= n => Kept(it[k], k)}
<1>2. n \in Nat /\ DOMAIN args = 1..n OBVIOUS
<1>. HIDE DEF n
<1>3. Kept(it[0], 0)
  <2>1. 1..0 = {} OBVIOUS
  <2>. QED BY <1>1, <2>1 DEF Flags, FlagsUpTo, Distinct
<1>4. ASSUME NEW k \in Nat, k + 1 <= n, Kept(it[k], k)
      PROVE  Kept(it[k + 1], k + 1)
  <2>. DEFINE arg == args[k + 1]
              r == it[k]
  <2>1. k + 1 \in 1..n /\ (k + 1) - 1 = k /\ 1..(k + 1) = 1..k \union {k + 1} /\ k \in 0..n
    BY <1>2, <1>4
  <2>2. it[k + 1] = KeepStep(r, arg, overridden) BY <1>1, <2>1
  <2>3. FlagsUpTo(args, k + 1) = FlagsUpTo(args, k) \union {arg.flag}
    BY <2>1 DEF FlagsUpTo
  <2>4. r \in Seq(X) /\ arg \in X BY <1>1, <1>2, <2>1
  <2>5. CASE arg.flag \in overridden \union Flags(r)
    BY <1>4, <2>2, <2>3, <2>5 DEF KeepStep
  <2>6. CASE arg.flag \notin overridden \union Flags(r)
    <3>1. it[k + 1] = Append(r, arg) BY <2>2, <2>6 DEF KeepStep
    <3>2. arg \in ToSet(args) BY <1>2, <2>1 DEF ToSet
    <3>3. \A i \in DOMAIN Append(r, arg) : Append(r, arg)[i] \in ToSet(args)
      <4>. SUFFICES ASSUME NEW i \in 1..(Len(r) + 1) PROVE Append(r, arg)[i] \in ToSet(args)
        BY <2>4
      <4>. HIDE DEF r, arg
      <4>1. CASE i \in 1..Len(r)
        <5>1. Append(r, arg)[i] = r[i] BY <2>4, <4>1
        <5>2. i \in DOMAIN r BY <2>4, <4>1
        <5>. QED BY <1>4, <5>1, <5>2 DEF r
      <4>2. CASE i = Len(r) + 1 BY <2>4, <3>2, <4>2
      <4>3. Len(r) \in Nat BY <2>4
      <4>. QED BY <4>1, <4>2, <4>3
    <3>. HIDE DEF r, arg
    <3>4. Flags(Append(r, arg)) = FlagsUpTo(args, k + 1) \ overridden
      BY <1>4, <2>3, <2>4, <2>6, FlagsOfMore DEF r
    <3>5. Distinct(Append(r, arg))
      BY <1>4, <2>4, <2>6, FlagsOfMore DEF r
    <3>. QED BY <3>1, <3>3, <3>4, <3>5
  <2>. QED BY <2>5, <2>6
<1>5. Kept(it[n], n)
  <2>. HIDE DEF Kept
  <2>1. 0 \in P BY <1>3
  <2>2. ASSUME NEW k \in Nat, k \in P PROVE k + 1 \in P
    <3>. SUFFICES ASSUME k + 1 <= n PROVE Kept(it[k + 1], k + 1)
      OBVIOUS
    <3>1. k <= n BY <1>2
    <3>2. Kept(it[k], k) BY <2>2, <3>1
    <3>. QED BY <1>4, <3>2
  <2>. HIDE DEF P
  <2>3. Nat \subseteq P BY <2>1, <2>2, NatSetInduction
  <2>. QED BY <1>2, <2>3 DEF P
<1>6. FlagsUpTo(args, n) = Flags(args) BY <1>2 DEF FlagsUpTo, Flags
<1>7. it[n] \in Seq(X) BY <1>1, <1>2
<1>. QED BY <1>1, <1>5, <1>6, <1>7

-----------------------------------------------------------------------------
(* The command of a client is the merge of its sources.                    *)

LEMMA StrongestIs ==
  ASSUME NEW a, NEW b, NEW c, NEW flag
  PROVE  /\ flag \in Flags(c) => Strongest(<<a, b, c>>, flag) = c
         /\ flag \in Flags(b) \ Flags(c) => Strongest(<<a, b, c>>, flag) = b
         /\ flag \in Flags(a) \ (Flags(b) \union Flags(c)) => Strongest(<<a, b, c>>, flag) = a
<1>. DEFINE s == <<a, b, c>>
            C(i) == flag \in Flags(s[i]) /\ \A j \in DOMAIN s : flag \in Flags(s[j]) => j <= i
<1>1. DOMAIN s = {1, 2, 3} /\ s[1] = a /\ s[2] = b /\ s[3] = c OBVIOUS
<1>2. Strongest(s, flag) = s[CHOOSE i \in DOMAIN s : C(i)] BY DEF Strongest
<1>. HIDE DEF s
<1>3. ASSUME NEW i \in {1, 2, 3}, C(i) PROVE Strongest(s, flag) = s[i]
  <2>1. \A j \in {1, 2, 3} : C(j) => j = i BY <1>1, <1>3
  <2>. HIDE DEF C
  <2>. QED BY <1>1, <1>2, <1>3, <2>1
<1>4. flag \in Flags(c) => C(3) BY <1>1
<1>5. flag \in Flags(b) \ Flags(c) => C(2) BY <1>1
<1>6. flag \in Flags(a) \ (Flags(b) \union Flags(c)) => C(1) BY <1>1
<1>. HIDE DEF C
<1>. QED BY <1>1, <1>3, <1>4, <1>5, <1>6 DEF s

\* Every argument of u is one of r or one of t.
ComesFrom(u, r, t) ==
  \A i \in DOMAIN u : (\E j \in DOMAIN r : u[i] = r[j]) \/ (\E j \in DOMAIN t : u[i] = t[j])

LEMMA FlagsOfBoth ==
  ASSUME NEW X, NEW r \in Seq(X), NEW t \in Seq(X)
  PROVE  /\ Flags(r \o t) = Flags(r) \union Flags(t)
         /\ Distinct(r) /\ Distinct(t) /\ Flags(r) \cap Flags(t) = {} => Distinct(r \o t)
         /\ ComesFrom(r \o t, r, t)
<1>. DEFINE u == r \o t
            l == Len(r)
            m == Len(t)
<1>1. /\ l \in Nat /\ m \in Nat /\ DOMAIN r = 1..l /\ DOMAIN t = 1..m /\ DOMAIN u = 1..(l + m)
      /\ \A i \in 1..l : u[i] = r[i]
      /\ \A i \in 1..(l + m) : i > l => u[i] = t[i - l]
  OBVIOUS
<1>. HIDE DEF u, l, m
<1>2. \A i \in 1..(l + m) : i \in 1..l \/ (i > l /\ i - l \in 1..m) BY <1>1
<1>3. \A j \in 1..m : j + l \in 1..(l + m) /\ u[j + l] = t[j]
  <2>1. \A j \in 1..m : j + l \in 1..(l + m) /\ j + l > l /\ (j + l) - l = j BY <1>1
  <2>. QED BY <1>1, <2>1
<1>4. \A j \in 1..l : j \in 1..(l + m) BY <1>1
<1>5. ComesFrom(u, r, t) BY <1>1, <1>2 DEF ComesFrom
<1>6. Flags(u) = Flags(r) \union Flags(t)
  <2>1. Flags(u) \subseteq Flags(r) \union Flags(t) BY <1>5 DEF Flags, ComesFrom
  <2>2. Flags(r) \subseteq Flags(u) BY <1>1, <1>4 DEF Flags
  <2>3. ASSUME NEW j \in 1..m PROVE t[j].flag \in Flags(u) BY <1>1, <1>3 DEF Flags
  <2>4. Flags(t) \subseteq Flags(u) BY <1>1, <2>3 DEF Flags
  <2>. QED BY <2>1, <2>2, <2>4
<1>7. ASSUME Distinct(r), Distinct(t), Flags(r) \cap Flags(t) = {},
             NEW i \in 1..(l + m), NEW j \in 1..(l + m), u[i].flag = u[j].flag
      PROVE  i = j
  <2>1. CASE i \in 1..l /\ j \in 1..l BY <1>1, <1>7, <2>1 DEF Distinct
  <2>2. CASE i \notin 1..l /\ j \notin 1..l
    <3>1. i - l \in 1..m /\ j - l \in 1..m /\ u[i] = t[i - l] /\ u[j] = t[j - l]
      BY <1>1, <1>2, <2>2
    <3>2. i - l = j - l BY <1>1, <1>7, <3>1 DEF Distinct
    <3>. QED BY <1>1, <3>2
  <2>3. CASE i \in 1..l /\ j \notin 1..l
    <3>1. u[i].flag \in Flags(r) BY <1>1, <2>3 DEF Flags
    <3>2. u[j].flag \in Flags(t) BY <1>1, <1>2, <2>3 DEF Flags
    <3>. QED BY <1>7, <3>1, <3>2
  <2>4. CASE i \notin 1..l /\ j \in 1..l
    <3>1. u[j].flag \in Flags(r) BY <1>1, <2>4 DEF Flags
    <3>2. u[i].flag \in Flags(t) BY <1>1, <1>2, <2>4 DEF Flags
    <3>. QED BY <1>7, <3>1, <3>2
  <2>. QED BY <2>1, <2>2, <2>3, <2>4
<1>8. Distinct(r) /\ Distinct(t) /\ Flags(r) \cap Flags(t) = {} => Distinct(u)
  BY <1>1, <1>7 DEF Distinct
<1>. QED BY <1>5, <1>6, <1>8 DEF u

LEMMA BuildIsMerge ==
  ASSUME NEW X, NEW ofBase \in Seq(X), NEW ofClient, NEW ofFeature,
         ofClient.args \in Seq(X), ofFeature.args \in Seq(X)
  PROVE  IsMerge(BuildCommand(ofBase, ofClient, ofFeature),
                 <<ofBase, ofClient.args, ofFeature.args>>)
<1>. DEFINE a == ofBase
            b == ofClient.args
            c == ofFeature.args
            ka == Keep(a, Flags(b) \union Flags(c))
            kb == Keep(b, Flags(c))
            kc == Keep(c, {})
            s == <<a, b, c>>
            args == ka \o kb \o kc
<1>1. BuildCommand(ofBase, ofClient, ofFeature).startup = args
  BY DEF BuildCommand, DeduplicateArgs
<1>2. a \in Seq(X) /\ b \in Seq(X) /\ c \in Seq(X) OBVIOUS
<1>. HIDE DEF a, b, c
<1>3. /\ ka \in Seq(X) /\ Flags(ka) = Flags(a) \ (Flags(b) \union Flags(c)) /\ Distinct(ka)
      /\ \A i \in DOMAIN ka : ka[i] \in ToSet(a)
  BY <1>2, KeepIsExact
<1>4. /\ kb \in Seq(X) /\ Flags(kb) = Flags(b) \ Flags(c) /\ Distinct(kb)
      /\ \A i \in DOMAIN kb : kb[i] \in ToSet(b)
  BY <1>2, KeepIsExact
<1>5. /\ kc \in Seq(X) /\ Flags(kc) = Flags(c) \ {} /\ Distinct(kc)
      /\ \A i \in DOMAIN kc : kc[i] \in ToSet(c)
  BY <1>2, KeepIsExact
<1>. HIDE DEF ka, kb, kc
<1>. DEFINE kab == ka \o kb
<1>6. kab \in Seq(X) BY <1>3, <1>4
<1>7. /\ Flags(kab) = Flags(ka) \union Flags(kb)
      /\ Distinct(kab)
      /\ ComesFrom(kab, ka, kb)
  <2>1. Flags(ka) \cap Flags(kb) = {} BY <1>3, <1>4
  <2>. QED BY <1>3, <1>4, <2>1, FlagsOfBoth
<1>. HIDE DEF kab
<1>. DEFINE all == kab \o kc
<1>8. /\ Flags(all) = Flags(kab) \union Flags(kc)
      /\ Distinct(all)
      /\ ComesFrom(all, kab, kc)
  <2>1. Flags(kab) \cap Flags(kc) = {} BY <1>3, <1>4, <1>5, <1>7
  <2>. QED BY <1>5, <1>6, <1>7, <2>1, FlagsOfBoth
<1>9. args = all BY DEF kab
<1>. HIDE DEF all, args
<1>10. Flags(all) = UNION {Flags(s[i]) : i \in DOMAIN s}
  <2>1. DOMAIN s = {1, 2, 3} /\ s[1] = a /\ s[2] = b /\ s[3] = c OBVIOUS
  <2>. HIDE DEF s
  <2>2. UNION {Flags(s[i]) : i \in DOMAIN s} = Flags(a) \union Flags(b) \union Flags(c)
    BY <2>1
  <2>. QED BY <1>3, <1>4, <1>5, <1>7, <1>8, <2>2
<1>11. ASSUME NEW i \in DOMAIN all
       PROVE  all[i] \in ToSet(Strongest(s, all[i].flag))
  <2>1. ASSUME NEW j \in DOMAIN ka, all[i] = ka[j]
        PROVE  all[i] \in ToSet(Strongest(s, all[i].flag))
    <3>1. ka[j].flag \in Flags(ka) BY DEF Flags
    <3>2. Strongest(s, ka[j].flag) = a BY <1>3, <3>1, StrongestIs
    <3>3. ka[j] \in ToSet(a) BY <1>3
    <3>. QED BY <2>1, <3>2, <3>3
  <2>2. ASSUME NEW j \in DOMAIN kb, all[i] = kb[j]
        PROVE  all[i] \in ToSet(Strongest(s, all[i].flag))
    <3>1. kb[j].flag \in Flags(kb) BY DEF Flags
    <3>2. Strongest(s, kb[j].flag) = b BY <1>4, <3>1, StrongestIs
    <3>3. kb[j] \in ToSet(b) BY <1>4
    <3>. QED BY <2>2, <3>2, <3>3
  <2>3. ASSUME NEW j \in DOMAIN kc, all[i] = kc[j]
        PROVE  all[i] \in ToSet(Strongest(s, all[i].flag))
    <3>1. kc[j].flag \in Flags(kc) BY DEF Flags
    <3>2. Strongest(s, kc[j].flag) = c BY <1>5, <3>1, StrongestIs
    <3>3. kc[j] \in ToSet(c) BY <1>5
    <3>. QED BY <2>3, <3>2, <3>3
  <2>. HIDE DEF s
  <2>. QED BY <1>7, <1>8, <2>1, <2>2, <2>3 DEF ComesFrom
<1>12. IsMerge(BuildCommand(ofBase, ofClient, ofFeature), s)
  BY <1>1, <1>8, <1>9, <1>10, <1>11 DEF IsMerge, Distinct
<1>. QED BY <1>12 DEF a, b, c

-----------------------------------------------------------------------------
(* The run.                                                                *)

\* A client is waiting, in progress, in the result or one whose chart failed.
ClientsAreAccounted ==
  \A c \in Clients :
    \/ c \in todo \cup DOMAIN result
    \/ step = "overlay" /\ c = client
    \/ \E f \in failures : f.of = c

UploadsAreComplete == step \in {"upload", "uploading"} => todo = {} /\ DOMAIN result # {}

\* A request fails under cancellation only after the signal, so that there is no
\* such failure while the upload is under way: it began before the signal.
FailuresAreDated ==
  /\ ~ctxDone => \A f \in failures : ~f.cancelled
  /\ step = "uploading" => \A f \in failures : ~f.cancelled

ObjectIsFinal ==
  /\ object.uploaded =>
       /\ step = "returned" /\ todo = {} /\ DOMAIN result # {} /\ object.nodes = result
       /\ \A f \in failures : ~f.cancelled
  /\ outcome = "success" => object.uploaded

\* The base arguments are those of the chart at hand.
BaseIsRendered ==
  step = "overlay" => chart \in Seq(LineType) /\ base = RenderTemplate(chart)

\* Every command is built from the answers for its client and from the feature
\* file, which is fetched before the first command is built.
CommandsAreBuilt ==
  /\ feature \in [Clients -> OverlayType]
  /\ step = "feature" => DOMAIN result = {}
  /\ \A c \in DOMAIN result :
       /\ answers[c].base \in Seq(TextType) /\ answers[c].client \in OverlayType
       /\ result[c] = BuildCommand(answers[c].base, answers[c].client, feature[c])

IInv ==
  /\ TypeOK /\ ClientsAreAccounted /\ UploadsAreComplete /\ FailuresAreDated /\ ObjectIsFinal
  /\ BaseIsRendered /\ CommandsAreBuilt

LEMMA TypeStep ==
  ASSUME TypeOK, UploadsAreComplete, ObjectIsFinal, [Next]_vars
  PROVE  TypeOK'
<1>. USE DEF TypeOK, NoObject, Fails, Returns, clientVars
<1>1. CASE FetchFeatureFile BY <1>1 DEF FetchFeatureFile
<1>2. ASSUME NEW c \in Clients, FetchHelmChart(c) \/ SkipClient(c)
      PROVE  TypeOK'
  BY <1>2 DEF FetchHelmChart, SkipClient
<1>3. CASE FetchClientConfig
  <2>1. /\ UNCHANGED <<outcome, ctxDone, feature, todo, object>>
        /\ step' = "chart" /\ step = "overlay"
    BY <1>3 DEF FetchClientConfig
  <2>2. DOMAIN result' = DOMAIN result \union {client} /\ DOMAIN answers' = DOMAIN answers \union {client}
    BY <1>3 DEF FetchClientConfig, With
  <2>3. failures' = failures \/ Fails(client)
    BY <1>3 DEF FetchClientConfig
  <2>4. object = NoObject
    BY <2>1 DEF ObjectIsFinal
  <2>. QED BY <2>1, <2>2, <2>3, <2>4
<1>4. CASE NothingProcessed \/ AllProcessed \/ SendUpload
  BY <1>4 DEF NothingProcessed, AllProcessed, SendUpload
<1>5. CASE UploadSucceeds BY <1>5 DEF UploadSucceeds, Stored
<1>6. CASE UploadFails BY <1>6 DEF UploadFails, Stored
<1>7. CASE Signal BY <1>7 DEF Signal
<1>8. CASE UNCHANGED vars BY <1>8 DEF vars
<1>. QED BY <1>1, <1>2, <1>3, <1>4, <1>5, <1>6, <1>7, <1>8 DEF Next, GenerateNext

LEMMA AccountStep ==
  ASSUME TypeOK, ClientsAreAccounted, [Next]_vars
  PROVE  ClientsAreAccounted'
<1>. USE DEF TypeOK, ClientsAreAccounted, Fails, Returns, clientVars
<1>1. CASE FetchFeatureFile BY <1>1 DEF FetchFeatureFile
<1>2. ASSUME NEW c \in Clients, FetchHelmChart(c)
      PROVE  ClientsAreAccounted'
  BY <1>2 DEF FetchHelmChart
<1>3. ASSUME NEW c \in Clients, SkipClient(c)
      PROVE  ClientsAreAccounted'
  <2>1. /\ step = "chart" /\ UNCHANGED <<step, result, client>> /\ todo' = todo \ {c}
        /\ failures' = failures \union {[of |-> c, cancelled |-> ctxDone]}
    BY <1>3 DEF SkipClient
  <2>2. [of |-> c, cancelled |-> ctxDone] \in failures' /\ [of |-> c, cancelled |-> ctxDone].of = c
    BY <2>1
  <2>. QED BY <2>1, <2>2
<1>4. CASE FetchClientConfig
  <2>1. step = "overlay" /\ UNCHANGED todo
    BY <1>4 DEF FetchClientConfig
  <2>2. DOMAIN result' = DOMAIN result \union {client}
    BY <1>4 DEF FetchClientConfig, With
  <2>3. failures \subseteq failures'
    BY <1>4 DEF FetchClientConfig
  <2>. QED BY <2>1, <2>2, <2>3
<1>5. CASE NothingProcessed \/ AllProcessed \/ SendUpload \/ UploadSucceeds \/ UploadFails
  BY <1>5 DEF NothingProcessed, AllProcessed, SendUpload, UploadSucceeds, UploadFails
<1>6. CASE Signal \/ UNCHANGED vars BY <1>6 DEF Signal, vars
<1>. QED BY <1>1, <1>2, <1>3, <1>4, <1>5, <1>6 DEF Next, GenerateNext

LEMMA UploadsStep ==
  ASSUME UploadsAreComplete, [Next]_vars
  PROVE  UploadsAreComplete'
BY DEF UploadsAreComplete, Returns, clientVars, vars, Next, GenerateNext, FetchFeatureFile,
       FetchHelmChart, SkipClient, FetchClientConfig, NothingProcessed, AllProcessed, SendUpload,
       UploadSucceeds, UploadFails, Signal

LEMMA DatesStep ==
  ASSUME TypeOK, FailuresAreDated, [Next]_vars
  PROVE  FailuresAreDated'
<1>. USE DEF FailuresAreDated, Fails, Returns
<1>1. CASE FetchFeatureFile BY <1>1 DEF FetchFeatureFile
<1>2. ASSUME NEW c \in Clients, FetchHelmChart(c) \/ SkipClient(c)
      PROVE  FailuresAreDated'
  BY <1>2 DEF FetchHelmChart, SkipClient
<1>3. CASE FetchClientConfig
  <2>1. step' = "chart" /\ UNCHANGED ctxDone /\ (failures' = failures \/ Fails(client))
    BY <1>3 DEF FetchClientConfig
  <2>. QED BY <2>1
<1>4. CASE NothingProcessed \/ AllProcessed \/ SendUpload \/ UploadSucceeds \/ UploadFails
  BY <1>4 DEF NothingProcessed, AllProcessed, SendUpload, UploadSucceeds, UploadFails
<1>5. CASE Signal \/ UNCHANGED vars BY <1>5 DEF Signal, vars
<1>. QED BY <1>1, <1>2, <1>3, <1>4, <1>5 DEF Next, GenerateNext

LEMMA ObjectStep ==
  ASSUME TypeOK, UploadsAreComplete, FailuresAreDated, ObjectIsFinal, [Next]_vars
  PROVE  ObjectIsFinal'
<1>. USE DEF ObjectIsFinal, NoObject, TypeOK
<1>1. CASE step = "returned"
  <2>1. UNCHANGED vars
    BY <1>1 DEF Next, GenerateNext, FetchFeatureFile, FetchHelmChart, SkipClient, FetchClientConfig,
         NothingProcessed, AllProcessed, SendUpload, UploadSucceeds, UploadFails, Signal
  <2>. QED BY <2>1 DEF vars
<1>2. CASE step # "returned"
  <2>1. object = NoObject /\ outcome # "success"
    BY <1>2
  <2>2. CASE UploadSucceeds \/ UploadFails
    BY <2>1, <2>2 DEF UploadSucceeds, UploadFails, Stored, Returns, UploadsAreComplete,
         FailuresAreDated
  <2>3. CASE ~(UploadSucceeds \/ UploadFails)
    <3>1. UNCHANGED object
      BY <2>3 DEF vars, Next, GenerateNext, FetchFeatureFile, FetchHelmChart, SkipClient,
           FetchClientConfig, NothingProcessed, AllProcessed, SendUpload, Signal
    <3>2. outcome' \in {outcome, "error"}
      BY <2>3 DEF vars, Next, GenerateNext, FetchFeatureFile, FetchHelmChart, SkipClient,
           FetchClientConfig, NothingProcessed, AllProcessed, SendUpload, Signal, Returns
    <3>. QED BY <2>1, <3>1, <3>2
  <2>. QED BY <2>2, <2>3
<1>. QED BY <1>1, <1>2

LEMMA RenderedStep ==
  ASSUME BaseIsRendered, [Next]_vars
  PROVE  BaseIsRendered'
<1>. USE DEF BaseIsRendered, Returns, clientVars
<1>1. CASE FetchFeatureFile BY <1>1 DEF FetchFeatureFile
<1>2. ASSUME NEW c \in Clients, FetchHelmChart(c)
      PROVE  BaseIsRendered'
  BY <1>2, ReferenceAssumption DEF FetchHelmChart
<1>3. ASSUME NEW c \in Clients, SkipClient(c)
      PROVE  BaseIsRendered'
  BY <1>3 DEF SkipClient
<1>4. CASE FetchClientConfig BY <1>4 DEF FetchClientConfig
<1>5. CASE NothingProcessed \/ AllProcessed \/ SendUpload \/ UploadSucceeds \/ UploadFails
  BY <1>5 DEF NothingProcessed, AllProcessed, SendUpload, UploadSucceeds, UploadFails
<1>6. CASE Signal \/ UNCHANGED vars BY <1>6 DEF Signal, vars
<1>. QED BY <1>1, <1>2, <1>3, <1>4, <1>5, <1>6 DEF Next, GenerateNext

LEMMA EmptyIsOverlay ==
  EmptyOverlay \in OverlayType
<1>. DEFINE Arguments == [flag : STRING, value : STRING]
<1>1. <<>> \in Seq(Arguments)
  <2>. HIDE DEF Arguments
  <2>. QED OBVIOUS
<1>2. NoImage \in ImageType BY DEF NoImage, ImageType
<1>3. OverlayType = [args : Seq(Arguments), image : ImageType] BY DEF OverlayType
<1>. DEFINE Lists == Seq(Arguments)
<1>. HIDE DEF Arguments, Lists
<1>4. [args |-> <<>>, image |-> NoImage] \in [args : Lists, image : ImageType]
  BY <1>1, <1>2 DEF Lists
<1>. QED BY <1>3, <1>4 DEF EmptyOverlay, Lists

LEMMA BuiltStep ==
  ASSUME TypeOK, BaseIsRendered, CommandsAreBuilt, [Next]_vars
  PROVE  CommandsAreBuilt'
<1>. USE DEF CommandsAreBuilt, Returns, clientVars
<1>1. CASE FetchFeatureFile
  <2>1. step' # "feature" /\ UNCHANGED <<result, answers>> /\ DOMAIN result = {}
    BY <1>1 DEF FetchFeatureFile
  <2>2. feature' \in [Clients -> OverlayType]
    BY <1>1, ReferenceAssumption DEF FetchFeatureFile
  <2>. QED BY <2>1, <2>2
<1>2. ASSUME NEW c \in Clients, FetchHelmChart(c) \/ SkipClient(c)
      PROVE  CommandsAreBuilt'
  BY <1>2 DEF FetchHelmChart, SkipClient
<1>3. CASE FetchClientConfig
  <2>1. step = "overlay" /\ step' = "chart" /\ UNCHANGED feature
    BY <1>3 DEF FetchClientConfig
  <2>2. PICK overlay \in ClientFiles \union {EmptyOverlay} :
          /\ result' = With(result, client, BuildCommand(base, overlay, feature[client]))
          /\ answers' = With(answers, client, [base |-> base, client |-> overlay])
    BY <1>3 DEF FetchClientConfig
  <2>3. overlay \in OverlayType
    BY EmptyIsOverlay, ReferenceAssumption
  <2>4. base \in Seq(TextType)
    BY <2>1, RenderType DEF BaseIsRendered
  <2>5. DOMAIN result' = DOMAIN result \union {client}
    BY <2>2 DEF With
  <2>6. ASSUME NEW c \in DOMAIN result'
        PROVE  /\ answers'[c].base \in Seq(TextType) /\ answers'[c].client \in OverlayType
               /\ result'[c] = BuildCommand(answers'[c].base, answers'[c].client, feature[c])
    <3>1. CASE c = client
      <4>1. /\ result'[c] = BuildCommand(base, overlay, feature[c])
            /\ answers'[c] = [base |-> base, client |-> overlay]
        BY <2>2, <3>1 DEF With
      <4>. QED BY <2>3, <2>4, <4>1
    <3>2. CASE c # client
      <4>1. c \in DOMAIN result /\ c \in DOMAIN answers
        BY <2>5, <3>2 DEF TypeOK
      <4>2. result'[c] = result[c] /\ answers'[c] = answers[c]
        BY <2>2, <3>2, <4>1 DEF With
      <4>. QED BY <4>1, <4>2
    <3>. QED BY <3>1, <3>2
  <2>. QED BY <2>1, <2>6
<1>4. CASE NothingProcessed \/ AllProcessed \/ SendUpload \/ UploadSucceeds \/ UploadFails
  BY <1>4 DEF NothingProcessed, AllProcessed, SendUpload, UploadSucceeds, UploadFails
<1>5. CASE Signal \/ UNCHANGED vars BY <1>5 DEF Signal, vars
<1>. QED BY <1>1, <1>2, <1>3, <1>4, <1>5 DEF Next, GenerateNext

THEOREM Invariance == Spec => []IInv
<1>1. Init => IInv
  <2>. SUFFICES ASSUME Init PROVE IInv
    OBVIOUS
  <2>. USE DEF Init
  <2>1. DOMAIN NoCommands = {} BY DEF NoCommands
  <2>2. TypeOK BY <2>1 DEF TypeOK
  <2>3. ClientsAreAccounted BY DEF ClientsAreAccounted
  <2>4. UploadsAreComplete BY DEF UploadsAreComplete
  <2>5. FailuresAreDated BY DEF FailuresAreDated
  <2>6. ObjectIsFinal BY DEF ObjectIsFinal, NoObject
  <2>7. BaseIsRendered BY DEF BaseIsRendered
  <2>8. CommandsAreBuilt
    <3>. HIDE DEF Init
    <3>1. feature = NoFeature /\ result = NoCommands BY DEF Init
    <3>. QED BY <2>1, <3>1, EmptyIsOverlay DEF CommandsAreBuilt, NoFeature
  <2>. QED BY <2>2, <2>3, <2>4, <2>5, <2>6, <2>7, <2>8 DEF IInv
<1>2. IInv /\ [Next]_vars => IInv'
  BY TypeStep, AccountStep, UploadsStep, DatesStep, ObjectStep, RenderedStep, BuiltStep DEF IInv
<1>. QED BY <1>1, <1>2, PTL DEF Spec

\* Every variable has its type; what is in the bucket is the result.
THEOREM TypeCorrect == Spec => []TypeOK
<1>1. IInv => TypeOK BY DEF IInv
<1>. QED BY <1>1, Invariance, PTL

\* An object lacks a client only if a request for it failed before any signal,
\* and success means that there is an object with a client in it.
THEOREM LossesAreExplained == Spec => []LossesAreFailures
<1>1. IInv => LossesAreFailures
  BY DEF IInv, ClientsAreAccounted, ObjectIsFinal, LossesAreFailures
<1>. QED BY <1>1, Invariance, PTL

\* The base arguments are those that Helm renders, for every template that
\* Helm accepts and whose layout renderTemplate is made for.
THEOREM RenderingIsExact == Spec => []RenderIsExact
<1>1. IInv => RenderIsExact
  BY RenderIsHelm DEF IInv, BaseIsRendered, RenderIsExact
<1>. QED BY <1>1, Invariance, PTL

\* A published command has every flag of its three sources once, with the first
\* value of the strongest source, and the image of the two files.
THEOREM CommandsAreExact == Spec => []CommandsAreMerges
<1>. DEFINE Y == [flag : STRING, value : STRING]
            X == TextType \union Y
            MergeOf(c) ==
              LET command == object.nodes[c]
                  own == answers[c].client
              IN  /\ IsMerge(command, <<answers[c].base, own.args, feature[c].args>>)
                  /\ \A part \in DOMAIN NoImage :
                       command.image[part] = IF feature[c].image[part] # Unset
                                             THEN feature[c].image[part] ELSE own.image[part]
<1>1. ASSUME IInv, object.uploaded, NEW c \in DOMAIN object.nodes
      PROVE  MergeOf(c)
  <2>. DEFINE ofBase == answers[c].base
              own == answers[c].client
              of7870 == feature[c]
  <2>1. object.nodes = result /\ c \in DOMAIN result /\ c \in Clients
    BY <1>1 DEF IInv, ObjectIsFinal, TypeOK
  <2>2. /\ ofBase \in Seq(TextType) /\ own \in OverlayType /\ of7870 \in OverlayType
        /\ object.nodes[c] = BuildCommand(ofBase, own, of7870)
    BY <1>1, <2>1 DEF IInv, CommandsAreBuilt
  <2>. HIDE DEF ofBase, own, of7870
  <2>3. ofBase \in Seq(X) /\ own.args \in Seq(X) /\ of7870.args \in Seq(X)
    <3>1. own.args \in Seq(Y) /\ of7870.args \in Seq(Y) BY <2>2 DEF OverlayType
    <3>. HIDE DEF Y
    <3>. QED BY <2>2, <3>1
  <2>. HIDE DEF X
  <2>4. IsMerge(object.nodes[c], <<ofBase, own.args, of7870.args>>)
    BY <2>2, <2>3, BuildIsMerge
  <2>5. object.nodes[c].image = Override(own.image, of7870.image)
    BY <2>2 DEF BuildCommand
  <2>6. DOMAIN own.image = {"repository", "tag"} /\ DOMAIN NoImage = {"repository", "tag"}
    BY <2>2 DEF OverlayType, ImageType, NoImage
  <2>7. \A part \in DOMAIN NoImage :
          object.nodes[c].image[part] = IF of7870.image[part] # Unset
                                        THEN of7870.image[part] ELSE own.image[part]
    BY <2>5, <2>6 DEF Override
  <2>. QED BY <2>4, <2>7 DEF ofBase, own, of7870
<1>2. IInv => CommandsAreMerges
  BY <1>1 DEF CommandsAreMerges
<1>. QED BY <1>2, Invariance, PTL
=============================================================================
