------------------------------ MODULE SSEProofs ------------------------------
(***************************************************************************)
(* Theorems about the event source of the web client, for any messages and *)
(* any way the network cuts them: it is typed, what the page is handed is  *)
(* what was sent, whole and in order, a torn stream and a closed one stay  *)
(* silent.                                                                 *)
(*                                                                         *)
(* The code splits, joins and parses texts token by token, so the proof is *)
(* by induction on texts.  The library's induction theorems take the       *)
(* statement as an operator parameter, which the provers cannot            *)
(* instantiate; the first section proves induction for sets instead, from  *)
(* the well-foundedness of inclusion between finite sets.                  *)
(***************************************************************************)
EXTENDS SSE, TLAPS, FiniteSetTheorems, SequenceTheorems

-----------------------------------------------------------------------------
\* A set of numbers has a least element.
LEMMA Least ==
  ASSUME NEW T, T \subseteq Nat, NEW n \in T
  PROVE  \E x \in T : \A y \in T : x <= y
<1> DEFINE B == 0 .. n
           R == StrictSubsetOrdering(B)
           F == {0 .. m : m \in T \cap B}
<1>1. IsFiniteSet(B)
  BY FS_Interval
<1>2. IsWellFoundedOn(R, SUBSET B)
  <2>1. IsWellFoundedOn(R, FiniteSubsetsOf(B))
    BY <1>1, FS_StrictSubsetOrderingWellFounded
  <2>2. QED
    BY <1>1, <2>1, FS_FiniteSubsetsOfFinite
<1>3. F \subseteq SUBSET B /\ F # {}
  OBVIOUS
<1> HIDE DEF F, R
<1>4. PICK f \in F : \A g \in F : ~(<<g, f>> \in R)
  BY <1>2, <1>3, WFMin
<1>5. PICK x \in T \cap B : f = 0 .. x
  BY DEF F
<1>6. ASSUME NEW y \in T, y < x PROVE FALSE
  <2>1. y \in B /\ x \in B /\ n \in Nat
    BY <1>6
  <2>2. (0 .. y) \subseteq (0 .. x) /\ x \in 0 .. x /\ x \notin 0 .. y
    BY <1>6, <2>1
  <2>3. 0 .. y \in F /\ <<0 .. y, f>> \in R
    BY <1>3, <1>5, <2>1, <2>2 DEF R, F, StrictSubsetOrdering
  <2>4. QED
    BY <1>4, <2>3
<1>7. QED
  BY <1>5, <1>6

\* Induction: a set that contains 0 and the successor of every number in it
\* contains all.
LEMMA Induct ==
  ASSUME NEW S, 0 \in S, \A n \in Nat : n \in S => n + 1 \in S
  PROVE  Nat \subseteq S
<1> SUFFICES ASSUME NEW n \in Nat \ S PROVE FALSE
  OBVIOUS
<1>1. PICK x \in Nat \ S : \A y \in Nat \ S : x <= y
  BY Least
<1>2. x # 0 /\ x - 1 \in Nat /\ x - 1 \in S
  BY <1>1
<1>3. QED
  BY <1>1, <1>2

\* The front and the last element of a sequence that has been appended to.
LEMMA AppendEnds ==
  ASSUME NEW T, NEW e \in Seq(T), NEW t \in T
  PROVE  /\ Append(e, t) \in Seq(T)
         /\ Append(e, t) # <<>>
         /\ Len(Append(e, t)) = Len(e) + 1
         /\ Front(Append(e, t)) = e
         /\ Last(Append(e, t)) = t
<1> DEFINE a == Append(e, t)
<1>1. /\ a \in Seq(T) /\ Len(a) = Len(e) + 1 /\ a[Len(e) + 1] = t
      /\ \A i \in 1 .. Len(e) : a[i] = e[i]
  OBVIOUS
<1> HIDE DEF a
<1>2. /\ Front(a) \in Seq(T) /\ Len(Front(a)) = Len(e)
      /\ \A i \in 1 .. Len(e) : Front(a)[i] = e[i]
  BY <1>1 DEF Front
<1>3. Front(a) = e
  BY <1>2
<1>4. QED
  BY <1>1, <1>3 DEF a, Last

\* A sequence that is not empty is its front and its last element.
LEMMA Ends ==
  ASSUME NEW T, NEW e \in Seq(T), e # <<>>
  PROVE  /\ Front(e) \in Seq(T) /\ Last(e) \in T
         /\ Len(e) \in Nat /\ Len(e) = Len(Front(e)) + 1
         /\ e = Append(Front(e), Last(e))
<1>1. PICK s \in Seq(T), t \in T : e = Append(s, t)
  BY SequenceEmptyOrAppend
<1>2. Front(e) = s /\ Last(e) = t /\ Len(e) = Len(s) + 1 /\ Len(e) \in Nat
  BY <1>1, AppendEnds
<1>3. QED
  BY <1>1, <1>2

\* Induction on sequences, element by element.
LEMMA SeqInduct ==
  ASSUME NEW T, NEW S, <<>> \in S,
         \A e \in Seq(T) : \A t \in T : e \in S => Append(e, t) \in S
  PROVE  Seq(T) \subseteq S
<1> DEFINE Short == {n \in Nat : \A e \in Seq(T) : Len(e) = n => e \in S}
<1>1. 0 \in Short
  OBVIOUS
<1>2. ASSUME NEW n \in Nat, n \in Short PROVE n + 1 \in Short
  <2> SUFFICES ASSUME NEW e \in Seq(T), Len(e) = n + 1 PROVE e \in S
    OBVIOUS
  <2>1. e # <<>>
    OBVIOUS
  <2>2. /\ Front(e) \in Seq(T) /\ Last(e) \in T /\ Len(e) = Len(Front(e)) + 1
        /\ e = Append(Front(e), Last(e)) /\ Len(Front(e)) \in Nat
    BY <2>1, Ends, LenProperties
  <2>3. Front(e) \in S
    BY <1>2, <2>2
  <2>4. QED
    BY <2>2, <2>3
<1> HIDE DEF Short
<1>3. Nat \subseteq Short
  BY <1>1, <1>2, Induct
<1>4. \A e \in Seq(T) : Len(e) \in Nat
  BY LenProperties
<1>5. QED
  BY <1>3, <1>4 DEF Short

\* f[e] is what the step function st makes of the elements of e, one after
\* the other, beginning with a0.
IsFold(f, T, a0, st) ==
  \A e \in Seq(T) : f[e] = IF e = <<>> THEN a0 ELSE st[<<f[Front(e)], Last(e)>>]

\* Every step function has such an f: the recursive functions of SSE are
\* defined on every sequence.
LEMMA FoldExists ==
  ASSUME NEW T, NEW A, NEW a0 \in A, NEW st \in [A \X T -> A]
  PROVE  \E f \in [Seq(T) -> A] : IsFold(f, T, a0, st)
<1> DEFINE Upto(n) == {e \in Seq(T) : Len(e) <= n}
           Folds(n) == {f \in [Upto(n) -> A] : \A e \in Upto(n) :
                          f[e] = IF e = <<>> THEN a0 ELSE st[<<f[Front(e)], Last(e)>>]}
           Agree == {e \in Seq(T) : \A m, n \in Nat : Len(e) <= m /\ Len(e) <= n =>
                        \A f \in Folds(m), g \in Folds(n) : f[e] = g[e]}
           Good == {n \in Nat : Folds(n) # {}}
<1>1. <<>> \in Seq(T) /\ Len(<<>>) = 0
  OBVIOUS
<1>2. \A n \in Nat : \A e \in Upto(n) : e # <<>> =>
        /\ Front(e) \in Upto(n) /\ Last(e) \in T /\ Len(e) = Len(Front(e)) + 1
        /\ Len(Front(e)) \in Nat
  BY Ends, LenProperties
<1>3. Seq(T) \subseteq Agree
  <2>1. <<>> \in Agree
    BY <1>1
  <2>2. ASSUME NEW e \in Seq(T), NEW t \in T, e \in Agree
        PROVE  Append(e, t) \in Agree
    <3> DEFINE b == Append(e, t)
    <3>1. /\ b \in Seq(T) /\ b # <<>> /\ Front(b) = e /\ Last(b) = t
          /\ Len(b) = Len(e) + 1 /\ Len(e) \in Nat
      BY AppendEnds, LenProperties
    <3> HIDE DEF b
    <3> SUFFICES ASSUME NEW m \in Nat, NEW n \in Nat, Len(b) <= m, Len(b) <= n,
                        NEW f \in Folds(m), NEW g \in Folds(n)
                 PROVE  f[b] = g[b]
      BY <3>1 DEF b
    <3>2. b \in Upto(m) /\ b \in Upto(n)
      BY <3>1
    <3>3. f[b] = st[<<f[e], t>>] /\ g[b] = st[<<g[e], t>>]
      BY <3>1, <3>2
    <3>4. f[e] = g[e]
      <4>1. Len(e) <= m /\ Len(e) <= n
        BY <3>1
      <4> HIDE DEF Folds
      <4>2. QED
        BY <2>2, <4>1
    <3>5. QED
      BY <3>3, <3>4
  <2> HIDE DEF Agree
  <2>3. QED
    BY <2>1, <2>2, SeqInduct
<1>4. Nat \subseteq Good
  <2>1. 0 \in Good
    <3>1. \A e \in Upto(0) : e = <<>>
      OBVIOUS
    <3>2. [e \in Upto(0) |-> a0] \in Folds(0)
      BY <3>1
    <3>3. QED
      BY <3>2
  <2>2. ASSUME NEW n \in Nat, n \in Good PROVE n + 1 \in Good
    <3>1. PICK f \in Folds(n) : TRUE
      BY <2>2
    <3> DEFINE g == [e \in Upto(n + 1) |->
                       IF e = <<>> THEN a0 ELSE st[<<f[Front(e)], Last(e)>>]]
    <3>2. \A e \in Upto(n + 1) : e # <<>> => /\ Front(e) \in Upto(n) /\ Last(e) \in T
                                           /\ f[Front(e)] \in A
      <4>1. \A e \in Upto(n + 1) : e # <<>> => /\ Front(e) \in Seq(T) /\ Last(e) \in T
              /\ Len(e) = Len(Front(e)) + 1 /\ Len(Front(e)) \in Nat
        BY Ends, LenProperties
      <4>2. QED
        BY <4>1
    <3>3. g \in [Upto(n + 1) -> A]
      BY <3>2
    <3>4. \A e \in Upto(n) : e \in Upto(n + 1) /\ g[e] = f[e]
      <4> SUFFICES ASSUME NEW e \in Upto(n) PROVE e \in Upto(n + 1) /\ g[e] = f[e]
        OBVIOUS
      <4>1. e \in Upto(n + 1)
        BY LenProperties
      <4>2. f[e] = IF e = <<>> THEN a0 ELSE st[<<f[Front(e)], Last(e)>>]
        OBVIOUS
      <4>3. QED
        BY <4>1, <4>2
    <3>5. \A e \in Upto(n + 1) : g[e] = IF e = <<>> THEN a0 ELSE st[<<g[Front(e)], Last(e)>>]
      BY <3>2, <3>4
    <3> HIDE DEF g
    <3>6. g \in Folds(n + 1)
      BY <3>3, <3>5
    <3> HIDE DEF Folds
    <3>7. QED
      BY <3>6
  <2> HIDE DEF Good
  <2>3. QED
    BY <2>1, <2>2, Induct
<1> DEFINE F == [n \in Nat |-> CHOOSE f \in Folds(n) : TRUE]
           h == [e \in Seq(T) |-> F[Len(e)][e]]
<1>5. \A n \in Nat : F[n] \in Folds(n)
  BY <1>4
<1>6. \A e \in Seq(T) : Len(e) \in Nat /\ e \in Upto(Len(e))
  BY LenProperties
<1> HIDE DEF F
<1>7. h \in [Seq(T) -> A]
  BY <1>5, <1>6
<1>8. ASSUME NEW e \in Seq(T)
      PROVE  h[e] = IF e = <<>> THEN a0 ELSE st[<<h[Front(e)], Last(e)>>]
  <2>1. h[e] = IF e = <<>> THEN a0 ELSE st[<<F[Len(e)][Front(e)], Last(e)>>]
    BY <1>5, <1>6
  <2>2. e # <<>> => F[Len(e)][Front(e)] = h[Front(e)]
    <3> SUFFICES ASSUME e # <<>> PROVE F[Len(e)][Front(e)] = h[Front(e)]
      OBVIOUS
    <3>1. /\ Front(e) \in Seq(T) /\ Len(Front(e)) \in Nat /\ Len(e) \in Nat
          /\ Len(Front(e)) <= Len(e)
      BY Ends, LenProperties
    <3>2. F[Len(e)] \in Folds(Len(e)) /\ F[Len(Front(e))] \in Folds(Len(Front(e)))
      BY <1>5, <3>1
    <3>3. Front(e) \in Agree
      BY <1>3, <3>1
    <3> HIDE DEF Folds
    <3>4. QED
      BY <3>1, <3>2, <3>3
  <2>3. QED
    BY <2>1, <2>2
<1> HIDE DEF h
<1>9. QED
  BY <1>7, <1>8 DEF IsFold

-----------------------------------------------------------------------------
\* The states of the three recursive functions of SSE.
PartsType == [closed : Seq(Seq(Tokens)), open : Seq(Tokens)]
LinesType == [line : Seq(Tokens), data : Seq(Tokens)]
Reading == [chunk : Seq(Tokens), delivered : Seq(Payloads), thrown : BOOLEAN]

\* Splitting, reading lines and passing parts keep these types.
LEMMA SplitStepType ==
  ASSUME NEW m \in PartsType, NEW t \in Tokens
  PROVE  SplitStep(m, t) \in PartsType
<1>1. CASE t = NL /\ m.open # <<>> /\ Last(m.open) = NL
  <2>1. Front(m.open) \in Seq(Tokens) /\ <<NL>> \in Seq(Tokens)
    BY <1>1, Ends DEF PartsType, Tokens
  <2>2. Append(Append(m.closed, Front(m.open)), <<NL>>) \in Seq(Seq(Tokens))
    BY <2>1, AppendProperties DEF PartsType
  <2>3. QED
    BY <1>1, <2>2 DEF SplitStep, PartsType
<1>2. CASE ~(t = NL /\ m.open # <<>> /\ Last(m.open) = NL)
  <2>1. Append(m.open, t) \in Seq(Tokens)
    BY AppendProperties DEF PartsType
  <2>2. QED
    BY <1>2, <2>1 DEF SplitStep, PartsType
<1>3. QED
  BY <1>1, <1>2

LEMMA WithLineType ==
  ASSUME NEW m \in LinesType
  PROVE  WithLine(m) \in Seq(Tokens)
<1>1. CASE m.line # <<>>
  BY <1>1, HeadTailProperties, ConcatProperties DEF WithLine, LinesType
<1>2. QED
  BY <1>1 DEF WithLine, LinesType

LEMMA LineStepType ==
  ASSUME NEW m \in LinesType, NEW t \in Tokens
  PROVE  LineStep(m, t) \in LinesType
<1>1. CASE t = NL
  BY <1>1, WithLineType DEF LineStep, LinesType
<1>2. CASE t # NL
  <2>1. Append(m.line, t) \in Seq(Tokens)
    BY AppendProperties DEF LinesType
  <2>2. QED
    BY <1>2, <2>1 DEF LineStep, LinesType
<1>3. QED
  BY <1>1, <1>2

\* A text that is one token longer is split by one more step.
LEMMA PartsLaw ==
  /\ Parts \in [Seq(Tokens) -> PartsType]
  /\ Parts[<<>>] = [closed |-> <<>>, open |-> <<>>]
  /\ \A e \in Seq(Tokens) : \A t \in Tokens : Parts[Append(e, t)] = SplitStep(Parts[e], t)
<1> DEFINE a0 == [closed |-> <<>>, open |-> <<>>]
           st == [x \in PartsType \X Tokens |-> SplitStep(x[1], x[2])]
           Is(f) == f = [e \in Seq(Tokens) |->
                           IF e = <<>> THEN a0 ELSE SplitStep(f[Front(e)], Last(e))]
<1>1. a0 \in PartsType
  BY DEF PartsType
<1>2. st \in [PartsType \X Tokens -> PartsType]
  BY SplitStepType
<1> HIDE DEF a0, st
<1>3. PICK f \in [Seq(Tokens) -> PartsType] : IsFold(f, Tokens, a0, st)
  BY <1>1, <1>2, FoldExists
<1>4. \A e \in Seq(Tokens) : e # <<>> =>
        st[<<f[Front(e)], Last(e)>>] = SplitStep(f[Front(e)], Last(e))
  BY Ends DEF st
<1>5. Is(f)
  BY <1>3, <1>4 DEF IsFold
<1>6. Parts = CHOOSE g : Is(g)
  BY DEF Parts, a0
<1>7. Is(Parts)
  BY <1>5, <1>6
<1>8. DOMAIN Parts = Seq(Tokens) /\ Parts[<<>>] = a0
  BY <1>7
<1>9. ASSUME NEW e \in Seq(Tokens), NEW t \in Tokens
      PROVE  Parts[Append(e, t)] = SplitStep(Parts[e], t)
  <2>1. /\ Append(e, t) \in Seq(Tokens) /\ Append(e, t) # <<>>
        /\ Front(Append(e, t)) = e /\ Last(Append(e, t)) = t
    BY AppendEnds
  <2>2. QED
    BY <1>7, <2>1
<1>10. Seq(Tokens) \subseteq {e \in Seq(Tokens) : Parts[e] \in PartsType}
  <2> DEFINE S == {e \in Seq(Tokens) : Parts[e] \in PartsType}
  <2>1. <<>> \in S
    BY <1>1, <1>8
  <2>2. \A e \in Seq(Tokens) : \A t \in Tokens : e \in S => Append(e, t) \in S
    BY <1>9, SplitStepType, AppendProperties
  <2> HIDE DEF S
  <2>3. QED
    BY <2>1, <2>2, SeqInduct DEF S
<1>11. Parts = [e \in Seq(Tokens) |-> Parts[e]]
  BY <1>7
<1>12. QED
  BY <1>8, <1>9, <1>10, <1>11 DEF a0
\* A chunk that is one token longer has its lines read by one more step.
LEMMA LinesLaw ==
  /\ Lines \in [Seq(Tokens) -> LinesType]
  /\ Lines[<<>>] = [line |-> <<>>, data |-> <<>>]
  /\ \A e \in Seq(Tokens) : \A t \in Tokens : Lines[Append(e, t)] = LineStep(Lines[e], t)
<1> DEFINE a0 == [line |-> <<>>, data |-> <<>>]
           st == [x \in LinesType \X Tokens |-> LineStep(x[1], x[2])]
           Is(f) == f = [e \in Seq(Tokens) |->
                           IF e = <<>> THEN a0 ELSE LineStep(f[Front(e)], Last(e))]
<1>1. a0 \in LinesType
  BY DEF LinesType
<1>2. st \in [LinesType \X Tokens -> LinesType]
  BY LineStepType
<1> HIDE DEF a0, st
<1>3. PICK f \in [Seq(Tokens) -> LinesType] : IsFold(f, Tokens, a0, st)
  BY <1>1, <1>2, FoldExists
<1>4. \A e \in Seq(Tokens) : e # <<>> =>
        st[<<f[Front(e)], Last(e)>>] = LineStep(f[Front(e)], Last(e))
  BY Ends DEF st
<1>5. Is(f)
  BY <1>3, <1>4 DEF IsFold
<1>6. Lines = CHOOSE g : Is(g)
  BY DEF Lines, a0
<1>7. Is(Lines)
  BY <1>5, <1>6
<1>8. DOMAIN Lines = Seq(Tokens) /\ Lines[<<>>] = a0
  BY <1>7
<1>9. ASSUME NEW e \in Seq(Tokens), NEW t \in Tokens
      PROVE  Lines[Append(e, t)] = LineStep(Lines[e], t)
  <2>1. /\ Append(e, t) \in Seq(Tokens) /\ Append(e, t) # <<>>
        /\ Front(Append(e, t)) = e /\ Last(Append(e, t)) = t
    BY AppendEnds
  <2>2. QED
    BY <1>7, <2>1
<1>10. Seq(Tokens) \subseteq {e \in Seq(Tokens) : Lines[e] \in LinesType}
  <2> DEFINE S == {e \in Seq(Tokens) : Lines[e] \in LinesType}
  <2>1. <<>> \in S
    BY <1>1, <1>8
  <2>2. \A e \in Seq(Tokens) : \A t \in Tokens : e \in S => Append(e, t) \in S
    BY <1>9, LineStepType, AppendProperties
  <2> HIDE DEF S
  <2>3. QED
    BY <2>1, <2>2, SeqInduct DEF S
<1>11. Lines = [e \in Seq(Tokens) |-> Lines[e]]
  BY <1>7
<1>12. QED
  BY <1>8, <1>9, <1>10, <1>11 DEF a0

LEMMA DispatchType ==
  ASSUME NEW r \in Reading
  PROVE  Dispatch(r) \in Reading
<1>1. CASE \E p \in Payloads : MessageData(r.chunk) = <<p, End>>
  <2>1. Head(MessageData(r.chunk)) \in Payloads
    <3>1. PICK p \in Payloads : MessageData(r.chunk) = <<p, End>>
      BY <1>1
    <3>2. QED
      BY <3>1
  <2>2. Append(r.delivered, Head(MessageData(r.chunk))) \in Seq(Payloads)
    BY <2>1, AppendProperties DEF Reading
  <2> DEFINE d == Append(r.delivered, Head(MessageData(r.chunk)))
  <2>3. Dispatch(r) = r \/ Dispatch(r) = [r EXCEPT !.delivered = d, !.chunk = <<>>]
    BY <1>1 DEF Dispatch
  <2>4. d \in Seq(Payloads) /\ <<>> \in Seq(Tokens)
    BY <2>2
  <2> HIDE DEF d
  <2>5. QED
    BY <2>3, <2>4 DEF Reading
<1>2. CASE ~ \E p \in Payloads : MessageData(r.chunk) = <<p, End>>
  BY <1>2 DEF Dispatch, Reading
<1>3. QED
  BY <1>1, <1>2

LEMMA PassPartType ==
  ASSUME NEW r \in Reading, NEW part \in Seq(Tokens)
  PROVE  PassPart(r, part) \in Reading
<1>1. r.chunk \o part \in Seq(Tokens)
  BY ConcatProperties DEF Reading
<1>2. QED
  BY <1>1, DispatchType DEF PassPart, Reading

\* One more part is passed by one more step.
LEMMA PassPartsLaw ==
  ASSUME NEW r \in Reading
  PROVE  /\ PassParts(r) \in [Seq(Seq(Tokens)) -> Reading]
         /\ PassParts(r)[<<>>] = r
         /\ \A e \in Seq(Seq(Tokens)) : \A t \in Seq(Tokens) :
              PassParts(r)[Append(e, t)] = PassPart(PassParts(r)[e], t)
<1> DEFINE a0 == r
           st == [x \in Reading \X Seq(Tokens) |-> PassPart(x[1], x[2])]
           Is(f) == f = [e \in Seq(Seq(Tokens)) |->
                           IF e = <<>> THEN a0 ELSE PassPart(f[Front(e)], Last(e))]
<1>1. a0 \in Reading
  OBVIOUS
<1>2. st \in [Reading \X Seq(Tokens) -> Reading]
  BY PassPartType
<1> HIDE DEF a0, st
<1>3. PICK f \in [Seq(Seq(Tokens)) -> Reading] : IsFold(f, Seq(Tokens), a0, st)
  BY <1>1, <1>2, FoldExists
<1>4. \A e \in Seq(Seq(Tokens)) : e # <<>> =>
        st[<<f[Front(e)], Last(e)>>] = PassPart(f[Front(e)], Last(e))
  BY Ends DEF st
<1>5. Is(f)
  BY <1>3, <1>4 DEF IsFold
<1>6. PassParts(r) = CHOOSE g : Is(g)
  BY DEF PassParts, a0
<1>7. Is(PassParts(r))
  BY <1>5, <1>6
<1>8. DOMAIN PassParts(r) = Seq(Seq(Tokens)) /\ PassParts(r)[<<>>] = a0
  BY <1>7
<1>9. ASSUME NEW e \in Seq(Seq(Tokens)), NEW t \in Seq(Tokens)
      PROVE  PassParts(r)[Append(e, t)] = PassPart(PassParts(r)[e], t)
  <2>1. /\ Append(e, t) \in Seq(Seq(Tokens)) /\ Append(e, t) # <<>>
        /\ Front(Append(e, t)) = e /\ Last(Append(e, t)) = t
    BY AppendEnds
  <2>2. QED
    BY <1>7, <2>1
<1>10. Seq(Seq(Tokens)) \subseteq {e \in Seq(Seq(Tokens)) : PassParts(r)[e] \in Reading}
  <2> DEFINE S == {e \in Seq(Seq(Tokens)) : PassParts(r)[e] \in Reading}
  <2>1. <<>> \in S
    BY <1>1, <1>8
  <2>2. \A e \in Seq(Seq(Tokens)) : \A t \in Seq(Tokens) : e \in S => Append(e, t) \in S
    BY <1>9, PassPartType, AppendProperties
  <2> HIDE DEF S
  <2>3. QED
    BY <2>1, <2>2, SeqInduct DEF S
<1>11. PassParts(r) = [e \in Seq(Seq(Tokens)) |-> PassParts(r)[e]]
  BY <1>7
<1>12. QED
  BY <1>8, <1>9, <1>10, <1>11 DEF a0

\* The lines of a message p of which r tokens have been read.
LinesAt(r, p) ==
  [line |-> CASE r = 1 -> <<Data>> [] r = 2 -> <<Data, p>> [] r = 3 -> <<Data, p, End>>
              [] OTHER -> <<>>,
   data |-> IF r = 4 THEN <<p, End>> ELSE <<>>]

\* c and d are the buffer and the messages handed out when n tokens have been
\* read and nothing was torn: the buffer holds the message begun (after a
\* line feed, perhaps), or nothing and all before it is handed out.
Whole(c, d, n) ==
  \/ /\ n % 5 \in {0, 4} /\ c = <<>>
     /\ d = SubSeq(messages, 1, (n + 1) \div 5)
  \/ /\ n % 5 # 0 /\ c # <<>>
     /\ Lines[c] = LinesAt(n % 5, messages[(n \div 5) + 1])
     /\ n % 5 = 4 => Last(c) = NL
     /\ d = SubSeq(messages, 1, n \div 5)

\* The data of two messages run into one: whatever follows, there are more
\* than the two halves of a message.
Spoilt(m) ==
  \/ Len(m.data) > 2
  \/ Len(m.data) = 2 /\ Len(m.line) > 1 /\ Head(m.line) = Data

\* What the buffer holds after a torn end: two messages, or one and the
\* beginning of the next.
Jammed(c, n) ==
  \/ Spoilt(Lines[c])
  \/ n % 5 = 1 /\ Lines[c].line = <<Data>> /\ Len(Lines[c].data) = 2

\* The inductive invariant.
SSEInv ==
  /\ SSETypeOK
  /\ progress <= Len(Text)
  /\ IsPrefix(delivered, messages)
  /\ ~torn => Whole(chunk, delivered, progress)
  /\ torn => Jammed(chunk, progress)
  /\ request = "loading" => xhr

\* The tokens of a response are different from each other.
LEMMA TokensApart ==
  /\ Data # NL /\ End # NL /\ Data # End
  /\ \A p \in Payloads : p # NL /\ p # Data /\ p # End
  /\ Data \in Tokens /\ NL \in Tokens /\ End \in Tokens /\ Payloads \subseteq Tokens
  BY SSEAssumption DEF Data, NL, End, Tokens

\* The text of a response, by the place in a message.
LEMMA TextIs ==
  ASSUME messages \in Seq(Payloads)
  PROVE  /\ Text \in Seq(Tokens)
         /\ Len(Text) = 5 * Len(messages)
         /\ \A n \in 1 .. Len(Text) :
              /\ n % 5 = 1 => Text[n] = Data
              /\ n % 5 = 2 => Text[n] = messages[(n \div 5) + 1]
              /\ n % 5 = 3 => Text[n] = End
              /\ n % 5 \in {0, 4} => Text[n] = NL
              /\ n % 5 # 0 => (n \div 5) + 1 \in 1 .. Len(messages)
<1> DEFINE L == 5 * Len(messages)
<1>1. L \in Nat /\ Len(messages) \in Nat
  OBVIOUS
<1>2. ASSUME NEW n \in 1 .. L
      PROVE  /\ ((n - 1) \div 5) + 1 \in 1 .. Len(messages)
             /\ (n - 1) % 5 \in 0 .. 4
             /\ n % 5 = 1 => (n - 1) % 5 = 0
             /\ n % 5 = 2 => (n - 1) % 5 = 1 /\ (n - 1) \div 5 = n \div 5
             /\ n % 5 = 3 => (n - 1) % 5 = 2
             /\ n % 5 = 4 => (n - 1) % 5 = 3
             /\ n % 5 = 0 => (n - 1) % 5 = 4
             /\ n % 5 # 0 => (n - 1) \div 5 = n \div 5
  BY <1>1
<1>3. \A n \in 1 .. L : messages[((n - 1) \div 5) + 1] \in Payloads
  BY <1>2
<1>4. \A n \in 1 .. L : Text[n] = Written(messages[((n - 1) \div 5) + 1])[((n - 1) % 5) + 1]
  BY DEF Text
<1> DEFINE W(p, j) == Written(p)[j + 1]
<1>13. \A p \in Payloads :
        /\ W(p, 0) = Data /\ W(p, 1) = p /\ W(p, 2) = End /\ W(p, 3) = NL /\ W(p, 4) = NL
        /\ \A j \in 0 .. 4 : W(p, j) \in Tokens
  <2> SUFFICES ASSUME NEW p \in Payloads
               PROVE  /\ W(p, 0) = Data /\ W(p, 1) = p /\ W(p, 2) = End
                      /\ W(p, 3) = NL /\ W(p, 4) = NL
                      /\ \A j \in 0 .. 4 : W(p, j) \in Tokens
    OBVIOUS
  <2>1. /\ W(p, 0) = Data /\ W(p, 1) = p /\ W(p, 2) = End /\ W(p, 3) = NL /\ W(p, 4) = NL
    BY DEF Written
  <2> HIDE DEF W
  <2>2. \A j \in 0 .. 4 : j \in {0, 1, 2, 3, 4}
    OBVIOUS
  <2>3. QED
    BY <2>1, <2>2, TokensApart
<1>14. \A n \in 1 .. L : Text[n] = W(messages[((n - 1) \div 5) + 1], (n - 1) % 5)
  BY <1>4
<1> HIDE DEF W
<1>5. \A n \in 1 .. L : Text[n] \in Tokens
  BY <1>2, <1>3, <1>14, <1>13
<1>6. Text \in Seq(Tokens) /\ Len(Text) = L
  <2>1. Text = [n \in 1 .. L |-> Text[n]]
    BY DEF Text
  <2>2. Text \in [1 .. L -> Tokens]
    BY <2>1, <1>5
  <2>3. QED
    BY <2>2, <1>1
<1> HIDE DEF L
<1>7. ASSUME NEW n \in 1 .. L
      PROVE  /\ n % 5 = 1 => Text[n] = Data
             /\ n % 5 = 2 => Text[n] = messages[(n \div 5) + 1]
             /\ n % 5 = 3 => Text[n] = End
             /\ n % 5 \in {0, 4} => Text[n] = NL
             /\ n % 5 # 0 => (n \div 5) + 1 \in 1 .. Len(messages)
  BY <1>2, <1>3, <1>14, <1>13
<1>8. QED
  BY <1>6, <1>7 DEF L

\* One handler's reading: where it begins, and what it has passed and still
\* holds open when n tokens have been split.
Open(n) == Parts[Arrived(n)].open
Passed(n) == PassParts(Begin)[Parts[Arrived(n)].closed]

\* Splitting and passing go together: one token more closes two parts, or
\* stays open.
LEMMA ReadStep ==
  ASSUME SSETypeOK, NEW n \in progress .. Len(Text)
  PROVE  /\ Arrived(n) \in Seq(Tokens)
         /\ Begin \in Reading
         /\ Open(n) \in Seq(Tokens)
         /\ Passed(n) \in Reading
         /\ Read(n) = PassPart(Passed(n), Open(n))
         /\ Open(progress) = <<>> /\ Passed(progress) = Begin
         /\ n < Len(Text) =>
              IF Text[n + 1] = NL /\ Open(n) # <<>> /\ Last(Open(n)) = NL
              THEN /\ Open(n + 1) = <<>>
                   /\ Passed(n + 1) = PassPart(PassPart(Passed(n), Front(Open(n))), <<NL>>)
              ELSE Open(n + 1) = Append(Open(n), Text[n + 1]) /\ Passed(n + 1) = Passed(n)
<1>1. Text \in Seq(Tokens) /\ Len(Text) \in Nat /\ progress \in Nat /\ n \in Nat
  BY TextIs DEF SSETypeOK
<1>2. Begin \in Reading
  BY DEF Begin, Reading, SSETypeOK
<1>3. \A i \in progress .. Len(Text) : Arrived(i) \in Seq(Tokens)
  BY <1>1 DEF Arrived
<1>4. \A i \in progress .. Len(Text) : Parts[Arrived(i)] \in PartsType
  BY <1>3, PartsLaw
<1>5. Open(n) \in Seq(Tokens) /\ Passed(n) \in Reading
  BY <1>2, <1>4, PassPartsLaw DEF Open, Passed, PartsType
<1>6. Read(n) = PassPart(Passed(n), Open(n))
  <2>1. /\ Parts[Arrived(n)].closed \in Seq(Seq(Tokens))
        /\ Parts[Arrived(n)].open \in Seq(Tokens)
    BY <1>4 DEF PartsType
  <2>2. Read(n) = PassParts(Begin)[Append(Parts[Arrived(n)].closed, Parts[Arrived(n)].open)]
    BY DEF Read, Begin, Split
  <2>3. QED
    BY <2>1, <2>2, <1>2, PassPartsLaw DEF Open, Passed
<1>7. Open(progress) = <<>> /\ Passed(progress) = Begin
  <2>1. Arrived(progress) = <<>>
    BY <1>1 DEF Arrived
  <2>2. QED
    BY <2>1, <1>2, PartsLaw, PassPartsLaw DEF Open, Passed
<1>8. ASSUME n < Len(Text)
      PROVE  IF Text[n + 1] = NL /\ Open(n) # <<>> /\ Last(Open(n)) = NL
             THEN /\ Open(n + 1) = <<>>
                  /\ Passed(n + 1) = PassPart(PassPart(Passed(n), Front(Open(n))), <<NL>>)
             ELSE Open(n + 1) = Append(Open(n), Text[n + 1]) /\ Passed(n + 1) = Passed(n)
  <2> DEFINE t == Text[n + 1]
  <2>1. t \in Tokens
    BY <1>1, <1>8
  <2>2. Arrived(n + 1) = Append(Arrived(n), t)
    <3>1. /\ Arrived(n + 1) \in Seq(Tokens) /\ Len(Arrived(n + 1)) = n + 1 - progress
          /\ \A i \in 1 .. (n + 1 - progress) : Arrived(n + 1)[i] = Text[progress + i]
      BY <1>1, <1>8, <1>3 DEF Arrived
    <3>2. /\ Arrived(n) \in Seq(Tokens) /\ Len(Arrived(n)) = n - progress
          /\ \A i \in 1 .. (n - progress) : Arrived(n)[i] = Text[progress + i]
      BY <1>1, <1>8, <1>3 DEF Arrived
    <3>3. /\ Append(Arrived(n), t) \in Seq(Tokens)
          /\ Len(Append(Arrived(n), t)) = n - progress + 1
          /\ \A i \in 1 .. (n - progress) : Append(Arrived(n), t)[i] = Arrived(n)[i]
          /\ Append(Arrived(n), t)[n - progress + 1] = t
      BY <2>1, <3>2, AppendProperties
    <3>4. \A i \in 1 .. (n + 1 - progress) : Arrived(n + 1)[i] = Append(Arrived(n), t)[i]
      BY <1>1, <3>1, <3>2, <3>3
    <3>5. QED
      BY <1>1, <3>1, <3>3, <3>4, SeqEqual
  <2> DEFINE m == Parts[Arrived(n)]
  <2>3. Parts[Arrived(n + 1)] = SplitStep(m, t)
    BY <1>3, <2>1, <2>2, PartsLaw
  <2>4. m \in PartsType /\ Open(n) = m.open /\ Passed(n) = PassParts(Begin)[m.closed]
    BY <1>4 DEF Open, Passed
  <2> HIDE DEF m, t
  <2>5. CASE t = NL /\ m.open # <<>> /\ Last(m.open) = NL
    <3>1. /\ m.closed \in Seq(Seq(Tokens)) /\ Front(m.open) \in Seq(Tokens)
          /\ <<NL>> \in Seq(Tokens)
          /\ Append(m.closed, Front(m.open)) \in Seq(Seq(Tokens))
      BY <2>4, <2>5, Ends, TokensApart, AppendProperties DEF PartsType
    <3> DEFINE c == Append(m.closed, Front(m.open))
    <3>5. PassParts(Begin)[c] = PassPart(PassParts(Begin)[m.closed], Front(m.open))
      BY <3>1, <1>2, PassPartsLaw
    <3>6. c \in Seq(Seq(Tokens))
      BY <3>1
    <3>7. PassParts(Begin)[Append(c, <<NL>>)] = PassPart(PassParts(Begin)[c], <<NL>>)
      <4> HIDE DEF c
      <4>1. QED
        BY <3>1, <3>6, <1>2, PassPartsLaw
    <3>2. PassParts(Begin)[Append(Append(m.closed, Front(m.open)), <<NL>>)]
            = PassPart(PassPart(PassParts(Begin)[m.closed], Front(m.open)), <<NL>>)
      BY <3>5, <3>7
    <3>3. SplitStep(m, t) = [closed |-> Append(Append(m.closed, Front(m.open)), <<NL>>),
                             open |-> <<>>]
      BY <2>5 DEF SplitStep
    <3>4. QED
      BY <2>3, <2>4, <2>5, <3>2, <3>3 DEF Open, Passed, t
  <2>6. CASE ~(t = NL /\ m.open # <<>> /\ Last(m.open) = NL)
    <3>1. SplitStep(m, t) = [m EXCEPT !.open = Append(@, t)]
      BY <2>6 DEF SplitStep
    <3>2. SplitStep(m, t).open = Append(m.open, t) /\ SplitStep(m, t).closed = m.closed
      BY <2>4, <3>1 DEF PartsType
    <3>3. QED
      BY <2>3, <2>4, <2>6, <3>2 DEF Open, Passed, t
  <2>7. QED
    BY <2>5, <2>6
<1>9. QED
  BY <1>2, <1>3, <1>5, <1>6, <1>7, <1>8

\* Appending to short tuples.
LEMMA Tuples ==
  ASSUME NEW T, NEW x \in T, NEW y \in T, NEW z \in T
  PROVE  /\ Append(<<>>, x) = <<x>>
         /\ Append(<<x>>, y) = <<x, y>>
         /\ Append(<<x, y>>, z) = <<x, y, z>>
         /\ Tail(<<x, y, z>>) = <<y, z>>
         /\ <<>> \o <<y, z>> = <<y, z>>
<1>1. /\ <<>> \in Seq(T) /\ <<x>> \in Seq(T) /\ <<x, y>> \in Seq(T) /\ <<y, z>> \in Seq(T)
      /\ <<x, y, z>> \in Seq(T)
      /\ Len(<<>>) = 0 /\ Len(<<x>>) = 1 /\ Len(<<x, y>>) = 2 /\ Len(<<y, z>>) = 2
      /\ Len(<<x, y, z>>) = 3
  OBVIOUS
<1>2. /\ \A i \in 1 .. 1 : i = 1
      /\ \A i \in 1 .. 2 : i = 1 \/ i = 2
      /\ \A i \in 1 .. 3 : i = 1 \/ i = 2 \/ i = 3
  OBVIOUS
<1>3. Append(<<>>, x) = <<x>>
  <2>1. /\ Append(<<>>, x) \in Seq(T) /\ Len(Append(<<>>, x)) = 1 /\ Append(<<>>, x)[1] = x
    BY <1>1, AppendProperties
  <2>2. QED
    BY <1>1, <1>2, <2>1, SeqEqual
<1>4. Append(<<x>>, y) = <<x, y>>
  <2>1. /\ Append(<<x>>, y) \in Seq(T) /\ Len(Append(<<x>>, y)) = 2
        /\ Append(<<x>>, y)[1] = x /\ Append(<<x>>, y)[2] = y
    BY <1>1, AppendProperties
  <2> DEFINE a == Append(<<x>>, y)
             b == <<x, y>>
  <2>2. b \in Seq(T) /\ Len(b) = 2 /\ b[1] = x /\ b[2] = y
    OBVIOUS
  <2>3. a \in Seq(T) /\ Len(a) = 2 /\ a[1] = x /\ a[2] = y
    BY <2>1
  <2> HIDE DEF a, b
  <2>4. \A i \in 1 .. Len(a) : a[i] = b[i]
    BY <1>2, <2>2, <2>3
  <2>5. a = b
    BY <2>2, <2>3, <2>4, SeqEqual
  <2>6. QED
    BY <2>5 DEF a, b
<1>5. Append(<<x, y>>, z) = <<x, y, z>>
  <2> DEFINE a == Append(<<x, y>>, z)
             b == <<x, y, z>>
  <2>1. /\ Len(a) = 3 /\ \A i \in 1 .. 2 : a[i] = <<x, y>>[i]
    BY <1>1, AppendProperties
  <2>2. b \in Seq(T) /\ Len(b) = 3 /\ b[1] = x /\ b[2] = y /\ b[3] = z
    OBVIOUS
  <2>3. a \in Seq(T) /\ a[1] = x /\ a[2] = y /\ a[3] = z
    BY <1>1, <2>1, AppendProperties
  <2> HIDE DEF a, b
  <2>4. \A i \in 1 .. Len(a) : a[i] = b[i]
    BY <1>2, <2>1, <2>2, <2>3
  <2>5. a = b
    BY <2>1, <2>2, <2>3, <2>4, SeqEqual
  <2>6. QED
    BY <2>5 DEF a, b
<1>6. Tail(<<x, y, z>>) = <<y, z>>
  <2> DEFINE a == Tail(<<x, y, z>>)
             b == <<y, z>>
  <2>1. /\ a \in Seq(T) /\ Len(a) = 2 /\ a[1] = y /\ a[2] = z
    <3>1. <<x, y, z>> # <<>>
      OBVIOUS
    <3>2. /\ a \in Seq(T) /\ Len(a) = 3 - 1
          /\ \A i \in 1 .. Len(a) : a[i] = <<x, y, z>>[i + 1]
      BY <1>1, <3>1, HeadTailProperties
    <3>3. QED
      BY <3>2
  <2>2. b \in Seq(T) /\ Len(b) = 2 /\ b[1] = y /\ b[2] = z
    OBVIOUS
  <2> HIDE DEF a, b
  <2>4. \A i \in 1 .. Len(a) : a[i] = b[i]
    BY <1>2, <2>1, <2>2
  <2>5. a = b
    BY <2>1, <2>2, <2>4, SeqEqual
  <2>6. QED
    BY <2>5 DEF a, b
<1>7. <<>> \o <<y, z>> = <<y, z>>
  BY <1>1, ConcatEmptySeq
<1>8. QED
  BY <1>3, <1>4, <1>5, <1>6, <1>7
\* The lines of a message as its tokens come in, and its data once it is
\* there.
LEMMA LinesGrow ==
  ASSUME NEW c \in Seq(Tokens), NEW p \in Payloads, NEW q
  PROVE  /\ Lines[c] = LinesAt(0, q) => Lines[Append(c, Data)] = LinesAt(1, p)
         /\ Lines[c] = LinesAt(1, p) => Lines[Append(c, p)] = LinesAt(2, p)
         /\ Lines[c] = LinesAt(2, p) => Lines[Append(c, End)] = LinesAt(3, p)
         /\ Lines[c] = LinesAt(3, p) => Lines[Append(c, NL)] = LinesAt(4, p)
         /\ Lines[c] = LinesAt(3, p) => MessageData(c) = <<p, End>>
         /\ Lines[c] = LinesAt(4, p) => MessageData(c) = <<p, End>>
<1>1. /\ LinesAt(0, q) = [line |-> <<>>, data |-> <<>>]
      /\ LinesAt(1, p) = [line |-> <<Data>>, data |-> <<>>]
      /\ LinesAt(2, p) = [line |-> <<Data, p>>, data |-> <<>>]
      /\ LinesAt(3, p) = [line |-> <<Data, p, End>>, data |-> <<>>]
      /\ LinesAt(4, p) = [line |-> <<>>, data |-> <<p, End>>]
  BY DEF LinesAt
<1>2. \A t \in Tokens : Lines[Append(c, t)] = LineStep(Lines[c], t)
  BY LinesLaw
<1>3. /\ Append(<<>>, Data) = <<Data>> /\ Append(<<Data>>, p) = <<Data, p>>
      /\ Append(<<Data, p>>, End) = <<Data, p, End>>
      /\ Tail(<<Data, p, End>>) = <<p, End>> /\ <<>> \o <<p, End>> = <<p, End>>
  BY Tuples, TokensApart
<1>4. WithLine(LinesAt(3, p)) = <<p, End>>
  <2>1. Head(<<Data, p, End>>) = Data /\ <<Data, p, End>> # <<>>
    OBVIOUS
  <2>2. LinesAt(3, p).line = <<Data, p, End>> /\ LinesAt(3, p).data = <<>>
    BY <1>1
  <2>3. WithLine(LinesAt(3, p)) = LinesAt(3, p).data \o Tail(LinesAt(3, p).line)
    BY <2>1, <2>2 DEF WithLine
  <2>4. QED
    BY <1>3, <2>2, <2>3
<1>5. WithLine(LinesAt(4, p)) = <<p, End>>
  <2>1. LinesAt(4, p).line = <<>> /\ LinesAt(4, p).data = <<p, End>>
    BY <1>1
  <2>2. QED
    BY <2>1, Zenon DEF WithLine
<1>6. ASSUME NEW l, NEW d, NEW t \in Tokens, t # NL
      PROVE  LineStep([line |-> l, data |-> d], t) = [line |-> Append(l, t), data |-> d]
  <2>1. LineStep([line |-> l, data |-> d], t)
          = [[line |-> l, data |-> d] EXCEPT !.line = Append(@, t)]
    BY <1>6 DEF LineStep
  <2>2. QED
    BY <2>1
<1>7. Lines[c] = LinesAt(0, q) => Lines[Append(c, Data)] = LinesAt(1, p)
  <2>1. LineStep([line |-> <<>>, data |-> <<>>], Data)
          = [line |-> Append(<<>>, Data), data |-> <<>>]
    BY <1>6, TokensApart
  <2>2. LineStep(LinesAt(0, q), Data) = LinesAt(1, p)
    BY <1>1, <1>3, <2>1, Zenon
  <2>3. QED
    BY <1>2, <2>2, TokensApart
<1>8. Lines[c] = LinesAt(1, p) => Lines[Append(c, p)] = LinesAt(2, p)
  <2>1. LineStep([line |-> <<Data>>, data |-> <<>>], p)
          = [line |-> Append(<<Data>>, p), data |-> <<>>]
    BY <1>6, TokensApart
  <2>2. LineStep(LinesAt(1, p), p) = LinesAt(2, p)
    BY <1>1, <1>3, <2>1, Zenon
  <2>3. QED
    BY <1>2, <2>2, TokensApart
<1>9. Lines[c] = LinesAt(2, p) => Lines[Append(c, End)] = LinesAt(3, p)
  <2>1. LineStep([line |-> <<Data, p>>, data |-> <<>>], End)
          = [line |-> Append(<<Data, p>>, End), data |-> <<>>]
    BY <1>6, TokensApart
  <2>2. LineStep(LinesAt(2, p), End) = LinesAt(3, p)
    BY <1>1, <1>3, <2>1, Zenon
  <2>3. QED
    BY <1>2, <2>2, TokensApart
<1>10. Lines[c] = LinesAt(3, p) => Lines[Append(c, NL)] = LinesAt(4, p)
  <2>1. LineStep(LinesAt(3, p), NL) = [line |-> <<>>, data |-> WithLine(LinesAt(3, p))]
    BY DEF LineStep
  <2>2. QED
    BY <1>1, <1>2, <1>4, <2>1, TokensApart
<1>11. QED
  BY <1>4, <1>5, <1>7, <1>8, <1>9, <1>10 DEF MessageData

\* dispatchEvent hands out a message that is whole.
LEMMA WholeDispatched ==
  ASSUME NEW r \in Reading, NEW p \in Payloads, ~r.thrown,
         Lines[r.chunk] \in {LinesAt(3, p), LinesAt(4, p)}
  PROVE  /\ Dispatch(r).chunk = <<>> /\ ~Dispatch(r).thrown
         /\ Dispatch(r).delivered = Append(r.delivered, p)
<1>1. MessageData(r.chunk) = <<p, End>>
  BY LinesGrow DEF Reading
<1>2. r.chunk # <<>>
  <2>1. Lines[<<>>] = [line |-> <<>>, data |-> <<>>]
    BY LinesLaw
  <2>2. LinesAt(3, p).line = <<Data, p, End>> /\ LinesAt(4, p).data = <<p, End>>
    BY DEF LinesAt
  <2>3. <<Data, p, End>> # <<>> /\ <<p, End>> # <<>>
    OBVIOUS
  <2>4. Lines[<<>>].line = <<>> /\ Lines[<<>>].data = <<>>
    BY <2>1
  <2>5. Lines[<<>>] # LinesAt(3, p)
    BY <2>2, <2>3, <2>4, Zenon
  <2>6. Lines[<<>>] # LinesAt(4, p)
    BY <2>2, <2>3, <2>4, Zenon
  <2>7. QED
    BY <2>5, <2>6
<1>3. Head(MessageData(r.chunk)) = p
  BY <1>1
<1>4. Dispatch(r) = [r EXCEPT !.delivered = Append(@, p), !.chunk = <<>>]
  BY <1>1, <1>2, <1>3 DEF Dispatch
<1>5. QED
  BY <1>4 DEF Reading

\* Which parts are nothing but white space.
LEMMA BlankParts ==
  /\ Blank(<<>>) /\ Blank(<<NL>>)
  /\ \A d \in Seq(Tokens) : \A i \in 1 .. Len(d) : d[i] # NL => ~Blank(d)
<1>1. Blank(<<>>) /\ Blank(<<NL>>)
  BY DEF Blank, ToSet
<1>2. \A d \in Seq(Tokens) : \A i \in 1 .. Len(d) : d[i] # NL => ~Blank(d)
  BY DEF Blank, ToSet
<1>3. QED
  BY <1>1, <1>2

\* The messages handed out and the next one.
LEMMA Sent ==
  ASSUME messages \in Seq(Payloads), NEW k \in Nat, k < Len(messages)
  PROVE  /\ messages[k + 1] \in Payloads
         /\ Append(SubSeq(messages, 1, k), messages[k + 1]) = SubSeq(messages, 1, k + 1)
<1> DEFINE p == messages[k + 1]
           s == SubSeq(messages, 1, k)
           u == SubSeq(messages, 1, k + 1)
<1>1. p \in Payloads
  OBVIOUS
<1>2. s \in Seq(Payloads) /\ Len(s) = k /\ \A i \in 1 .. k : s[i] = messages[i]
  OBVIOUS
<1>3. u \in Seq(Payloads) /\ Len(u) = k + 1 /\ \A i \in 1 .. (k + 1) : u[i] = messages[i]
  OBVIOUS
<1>4. /\ Append(s, p) \in Seq(Payloads) /\ Len(Append(s, p)) = k + 1
      /\ \A i \in 1 .. k : Append(s, p)[i] = s[i]
      /\ Append(s, p)[k + 1] = p
  BY <1>1, <1>2, AppendProperties
<1>5. \A i \in 1 .. (k + 1) : Append(s, p)[i] = u[i]
  BY <1>2, <1>3, <1>4
<1>6. Append(s, p) = u
  BY <1>3, <1>4, <1>5, SeqEqual
<1>7. QED
  BY <1>1, <1>6

\* Joining a part that is one token longer.
LEMMA ConcatAppend ==
  ASSUME NEW T, NEW c \in Seq(T), NEW o \in Seq(T), NEW t \in T
  PROVE  c \o Append(o, t) = Append(c \o o, t) /\ c \o Append(o, t) # <<>>
<1>1. /\ Append(o, t) = o \o <<t>> /\ <<t>> \in Seq(T) /\ c \o o \in Seq(T)
      /\ Append(c \o o, t) = (c \o o) \o <<t>>
  BY AppendIsConcat, ConcatProperties
<1>2. (c \o o) \o <<t>> = c \o (o \o <<t>>)
  BY <1>1, ConcatAssociative
<1>3. Append(c \o o, t) # <<>>
  BY <1>1, AppendProperties
<1>4. QED
  BY <1>1, <1>2, <1>3

-----------------------------------------------------------------------------
\* While a handler reads on and nothing is torn: it is between two messages,
\* or within one.
Between(n) ==
  /\ n % 5 = 0 \/ (n % 5 = 4 /\ n = progress)
  /\ Passed(n).chunk = <<>>
  /\ Open(n) = <<>> \/ (Open(n) = <<NL>> /\ n % 5 = 0)
  /\ Passed(n).delivered = SubSeq(messages, 1, (n + 1) \div 5)

Within(n) ==
  LET k == n \div 5
      p == messages[k + 1]
      c == Passed(n).chunk
  IN  /\ n % 5 # 0
      /\ Passed(n).delivered = SubSeq(messages, 1, k)
      /\ c \o Open(n) # <<>>
      /\ Lines[c \o Open(n)] = LinesAt(n % 5, p)
      /\ n > progress => Open(n) # <<>> /\ Last(Open(n)) = Text[n]
      /\ n % 5 = 4 =>
           /\ Open(n) # <<>> /\ Last(Open(n)) = NL
           /\ Front(Open(n)) = <<>> \/ Last(Front(Open(n))) = End
           /\ Lines[c \o Front(Open(n))] = LinesAt(3, p)

InHand(n) == ~Passed(n).thrown /\ (Between(n) \/ Within(n))

\* One token more keeps a reading in hand.
LEMMA InHandStep ==
  ASSUME SSETypeOK, NEW n \in progress .. Len(Text), n < Len(Text), InHand(n)
  PROVE  InHand(n + 1)
<1> DEFINE c == Passed(n).chunk
           o == Open(n)
           t == Text[n + 1]
           k == n \div 5
           p == messages[k + 1]
<1>1. /\ messages \in Seq(Payloads) /\ progress \in Nat /\ n \in Nat /\ k \in Nat
      /\ Len(messages) \in Nat /\ Len(Text) = 5 * Len(messages) /\ n + 1 \in 1 .. Len(Text)
  BY TextIs DEF SSETypeOK
<1>2. /\ Passed(n) \in Reading /\ o \in Seq(Tokens) /\ c \in Seq(Tokens)
      /\ Passed(n).delivered \in Seq(Payloads) /\ n + 1 \in progress .. Len(Text)
  BY ReadStep, <1>1 DEF Reading
<1>3. /\ k < Len(messages) /\ n % 5 \in 0 .. 4
      /\ n = 5 * k + (n % 5)
      /\ n % 5 # 4 => (n + 1) \div 5 = k /\ (n + 1) % 5 = (n % 5) + 1
      /\ n % 5 = 4 => (n + 1) \div 5 = k + 1 /\ (n + 1) % 5 = 0 /\ (n + 2) \div 5 = k + 1
  BY <1>1
<1>4. p \in Payloads /\ Append(SubSeq(messages, 1, k), p) = SubSeq(messages, 1, k + 1)
  BY <1>1, <1>3, Sent
<1>5. /\ n % 5 = 0 => t = Data
      /\ n % 5 = 1 => t = p
      /\ n % 5 = 2 => t = End
      /\ n % 5 \in {3, 4} => t = NL
      /\ t \in Tokens
  BY <1>1, <1>3, TextIs
<1> HIDE DEF c, o, t, k, p
<1>6. /\ Append(o, t) \in Seq(Tokens) /\ Append(o, t) # <<>> /\ Last(Append(o, t)) = t
      /\ Front(Append(o, t)) = o
      /\ c \o o \in Seq(Tokens)
      /\ c \o Append(o, t) = Append(c \o o, t) /\ c \o Append(o, t) # <<>>
  BY <1>2, <1>5, AppendEnds, ConcatAppend, ConcatProperties
<1>7. ASSUME ~(t = NL /\ o # <<>> /\ Last(o) = NL)
      PROVE  Open(n + 1) = Append(o, t) /\ Passed(n + 1) = Passed(n)
  BY <1>7, <1>1, ReadStep DEF o, t
<1>8. ASSUME t = NL, o # <<>>, Last(o) = NL
      PROVE  /\ Open(n + 1) = <<>>
             /\ Passed(n + 1) = PassPart(PassPart(Passed(n), Front(o)), <<NL>>)
  BY <1>8, <1>1, ReadStep DEF o, t
<1>9. CASE n % 5 = 0
  <2>1. Between(n)
    BY <1>9 DEF InHand, Within
  <2>2. Open(n + 1) = Append(o, t) /\ Passed(n + 1) = Passed(n)
    BY <1>5, <1>7, <1>9, TokensApart
  <2>3. Lines[c \o o] = LinesAt(0, p)
    <3>1. c \o o = <<>> \/ c \o o = <<NL>>
      BY <2>1, <1>2, ConcatEmptySeq DEF Between, c, o
    <3>2. Lines[<<>>] = [line |-> <<>>, data |-> <<>>]
      BY LinesLaw
    <3>3. Lines[<<NL>>] = [line |-> <<>>, data |-> <<>>]
      <4>1. Lines[Append(<<>>, NL)] = LineStep(Lines[<<>>], NL) /\ Append(<<>>, NL) = <<NL>>
        <5>1. <<>> \in Seq(Tokens) /\ NL \in Tokens
          BY TokensApart
        <5>2. Append(<<>>, NL) = <<NL>>
          BY <5>1, Tuples
        <5>3. QED
          BY <5>1, <5>2, LinesLaw
      <4>2. Lines[<<>>].line = <<>> /\ Lines[<<>>].data = <<>>
        BY <3>2
      <4>3. WithLine(Lines[<<>>]) = <<>>
        BY <4>2, Zenon DEF WithLine
      <4>4. QED
        BY <4>1, <4>3 DEF LineStep
    <3>4. LinesAt(0, p) = [line |-> <<>>, data |-> <<>>]
      BY DEF LinesAt
    <3>5. QED
      BY <3>1, <3>2, <3>3, <3>4
  <2>4. Lines[c \o Append(o, t)] = LinesAt(1, p)
    BY <1>4, <1>5, <1>6, <1>9, <2>3, LinesGrow
  <2>5. Passed(n).delivered = SubSeq(messages, 1, k)
    <3>1. (n + 1) \div 5 = k
      BY <1>3, <1>9
    <3>2. QED
      BY <2>1, <3>1 DEF Between
  <2>6. Within(n + 1)
    <3>1. (n + 1) % 5 = 1 /\ (n + 1) \div 5 = k
      BY <1>3, <1>9
    <3>2. Passed(n + 1).chunk = c /\ messages[((n + 1) \div 5) + 1] = p
      BY <2>2, <3>1 DEF c, p
    <3>3. /\ (n + 1) % 5 # 0 /\ (n + 1) % 5 # 4
          /\ Lines[c \o Append(o, t)] = LinesAt((n + 1) % 5, p)
          /\ Passed(n).delivered = SubSeq(messages, 1, (n + 1) \div 5)
      BY <2>4, <2>5, <3>1
    <3>4. QED
      BY <1>6, <2>2, <3>2, <3>3 DEF Within, t
  <2>7. QED
    BY <2>2, <2>6 DEF InHand
<1>10. CASE n % 5 \in {1, 2, 3}
  <2>1. Within(n)
    BY <1>10 DEF InHand, Between
  <2>2. /\ Lines[c \o o] = LinesAt(n % 5, p) /\ Passed(n).delivered = SubSeq(messages, 1, k)
        /\ n > progress => o # <<>> /\ Last(o) = Text[n]
    BY <2>1 DEF Within, c, o, k, p
  <2>3. o # <<>> => Last(o) # NL
    <3>1. n = progress => o = <<>>
      BY ReadStep DEF o
    <3>2. n > progress => Text[n] # NL
      <4> SUFFICES ASSUME n > progress PROVE Text[n] # NL
        OBVIOUS
      <4>1. n \in 1 .. Len(Text)
        BY <1>1
      <4>2. (n % 5 # 3 => messages[k + 1] \in Payloads) /\ (n % 5 = 2 => Text[n] = messages[k + 1])
        BY <1>1, <1>4, <4>1, TextIs DEF k, p
      <4>3. n % 5 = 1 => Text[n] = Data
        BY <1>1, <4>1, TextIs
      <4>4. n % 5 = 3 => Text[n] = End
        BY <1>1, <4>1, TextIs
      <4>5. QED
        BY <1>10, <4>2, <4>3, <4>4, TokensApart
    <3>3. QED
      BY <1>1, <2>2, <3>1, <3>2
  <2>4. Open(n + 1) = Append(o, t) /\ Passed(n + 1) = Passed(n)
    BY <1>7, <2>3
  <2>5. Lines[c \o Append(o, t)] = LinesAt((n % 5) + 1, p)
    <3>1. CASE n % 5 = 1
      <4>1. t = p /\ Lines[c \o o] = LinesAt(1, p) /\ (n % 5) + 1 = 2
        BY <1>5, <2>2, <3>1
      <4>2. Lines[Append(c \o o, p)] = LinesAt(2, p)
        BY <1>4, <1>6, <4>1, LinesGrow
      <4>3. QED
        BY <1>6, <4>1, <4>2
    <3>2. CASE n % 5 = 2
      <4>1. t = End /\ Lines[c \o o] = LinesAt(2, p) /\ (n % 5) + 1 = 3
        BY <1>5, <2>2, <3>2
      <4>2. Lines[Append(c \o o, End)] = LinesAt(3, p)
        BY <1>4, <1>6, <4>1, LinesGrow
      <4>3. QED
        BY <1>6, <4>1, <4>2
    <3>3. CASE n % 5 = 3
      <4>1. t = NL /\ Lines[c \o o] = LinesAt(3, p) /\ (n % 5) + 1 = 4
        BY <1>5, <2>2, <3>3
      <4>2. Lines[Append(c \o o, NL)] = LinesAt(4, p)
        BY <1>4, <1>6, <4>1, LinesGrow
      <4>3. QED
        BY <1>6, <4>1, <4>2
    <3>4. QED
      BY <1>10, <3>1, <3>2, <3>3
  <2>6. Within(n + 1)
    <3>1. (n + 1) % 5 = (n % 5) + 1 /\ (n + 1) \div 5 = k /\ (n + 1) % 5 # 0
      BY <1>3, <1>10
    <3>2. (n + 1) % 5 = 4 =>
            /\ t = NL
            /\ o = <<>> \/ Last(o) = End
            /\ Lines[c \o o] = LinesAt(3, p)
      <4> SUFFICES ASSUME (n + 1) % 5 = 4
                   PROVE  t = NL /\ (o = <<>> \/ Last(o) = End) /\ Lines[c \o o] = LinesAt(3, p)
        OBVIOUS
      <4>1. n % 5 = 3
        BY <3>1, <1>10
      <4>2. n > progress => Text[n] = End
        BY <1>1, <4>1, TextIs
      <4>3. n = progress => o = <<>>
        BY ReadStep DEF o
      <4>4. QED
        BY <1>1, <1>5, <2>2, <4>1, <4>2, <4>3
    <3>3. Passed(n + 1).chunk = c /\ messages[((n + 1) \div 5) + 1] = p
      BY <2>4, <3>1 DEF c, p
    <3>4. QED
      BY <1>6, <2>2, <2>4, <2>5, <3>1, <3>2, <3>3 DEF Within, t
  <2>7. QED
    BY <2>4, <2>6 DEF InHand
<1>11. CASE n % 5 = 4
  <2>1. (n + 1) % 5 = 0 /\ (n + 2) \div 5 = k + 1 /\ t = NL /\ n + 1 + 1 = n + 2
    BY <1>3, <1>5, <1>11, <1>1
  <2>2. CASE Between(n)
    <3>1. o = <<>> /\ c = <<>> /\ (n + 1) \div 5 = k + 1
          /\ Passed(n).delivered = SubSeq(messages, 1, (n + 1) \div 5)
      BY <2>2, <1>3, <1>11 DEF Between, o, c
    <3>2. Open(n + 1) = Append(<<>>, t) /\ Passed(n + 1) = Passed(n)
      BY <1>7, <3>1
    <3>3. Open(n + 1) = <<NL>>
      BY <3>2, <2>1, Tuples, TokensApart
    <3>4. Between(n + 1)
      <4>1. ((n + 1) + 1) \div 5 = (n + 1) \div 5
        BY <2>1, <3>1, <1>1
      <4>2. Passed(n + 1).chunk = <<>>
            /\ Passed(n + 1).delivered = SubSeq(messages, 1, ((n + 1) + 1) \div 5)
        BY <3>1, <3>2, <4>1 DEF c
      <4>3. QED
        BY <2>1, <3>3, <4>2 DEF Between
    <3>5. QED
      BY <3>2, <3>4 DEF InHand
  <2>3. CASE Within(n)
    <3>1. /\ o # <<>> /\ Last(o) = NL
          /\ Front(o) = <<>> \/ Last(Front(o)) = End
          /\ Lines[c \o Front(o)] = LinesAt(3, p)
          /\ Passed(n).delivered = SubSeq(messages, 1, k)
      BY <2>3, <1>11 DEF Within, c, o, p, k
    <3>2. /\ Open(n + 1) = <<>>
          /\ Passed(n + 1) = PassPart(PassPart(Passed(n), Front(o)), <<NL>>)
      BY <1>8, <2>1, <3>1
    <3> DEFINE r1 == PassPart(Passed(n), Front(o))
    <3>3. Front(o) \in Seq(Tokens) /\ <<NL>> \in Seq(Tokens) /\ r1 \in Reading
      BY <1>2, <3>1, Ends, TokensApart, PassPartType
    <3> HIDE DEF r1
    <3>4. ~Passed(n).thrown
      BY DEF InHand
    <3>5. LET r2 == PassPart(r1, <<NL>>)
          IN  ~r2.thrown /\ r2.chunk = <<>> /\ r2.delivered = SubSeq(messages, 1, k + 1)
      <4>1. CASE Front(o) = <<>>
        <5>1. c \o Front(o) = c
          BY <1>2, <4>1, ConcatEmptySeq
        <5>2. r1 = Dispatch(Passed(n))
          BY <4>1, <3>4, BlankParts DEF r1, PassPart
        <5>3. ~r1.thrown /\ r1.chunk = <<>> /\ r1.delivered = SubSeq(messages, 1, k + 1)
          BY <1>2, <1>4, <3>1, <3>4, <5>1, <5>2, WholeDispatched DEF c
        <5>4. PassPart(r1, <<NL>>) = r1
          BY <5>3, BlankParts DEF PassPart, Dispatch
        <5>5. QED
          BY <5>3, <5>4
      <4>2. CASE Front(o) # <<>>
        <5>1. ~Blank(Front(o))
          <6>1. Len(Front(o)) \in 1 .. Len(Front(o)) /\ Front(o)[Len(Front(o))] = End
            BY <3>1, <3>3, <4>2 DEF Last
          <6>2. QED
            BY <6>1, <3>3, BlankParts, TokensApart
        <5>2. r1 = [Passed(n) EXCEPT !.chunk = c \o Front(o)]
          BY <5>1, <3>4 DEF r1, PassPart, c
        <5>3. ~r1.thrown /\ r1.chunk = c \o Front(o) /\ r1.delivered = SubSeq(messages, 1, k)
          BY <1>2, <3>1, <3>4, <5>2 DEF Reading
        <5>4. PassPart(r1, <<NL>>) = Dispatch(r1)
          BY <5>3, BlankParts DEF PassPart
        <5>5. QED
          BY <1>4, <3>1, <3>3, <5>3, <5>4, WholeDispatched
      <4>3. QED
        BY <4>1, <4>2
    <3>6. Between(n + 1)
      <4>1. ((n + 1) + 1) \div 5 = k + 1
        BY <2>1, <1>1
      <4>2. /\ Passed(n + 1).chunk = <<>>
            /\ Passed(n + 1).delivered = SubSeq(messages, 1, ((n + 1) + 1) \div 5)
        BY <3>2, <3>5, <4>1 DEF r1
      <4>3. QED
        BY <2>1, <3>2, <4>2 DEF Between
    <3>7. QED
      BY <3>2, <3>5, <3>6 DEF InHand, r1
  <2>4. QED
    BY <2>2, <2>3 DEF InHand
<1>12. QED
  BY <1>3, <1>9, <1>10, <1>11

\* So all that a handler reads is in hand, unless the buffer ended within the
\* two line feeds of a message.
LEMMA InHandAlways ==
  ASSUME SSETypeOK, Whole(chunk, delivered, progress), progress % 5 # 4 \/ chunk = <<>>,
         NEW n \in progress .. Len(Text)
  PROVE  InHand(n)
<1> DEFINE S == {i \in Nat : progress + i <= Len(Text) => InHand(progress + i)}
<1>1. progress \in Nat /\ Len(Text) \in Nat
  BY TextIs DEF SSETypeOK
<1>2. 0 \in S
  <2>1. progress + 0 = progress /\ progress \in progress .. Len(Text)
    BY <1>1
  <2>2. Open(progress) = <<>> /\ Passed(progress) = Begin
    BY <2>1, ReadStep
  <2>3. /\ Passed(progress).chunk = chunk /\ Passed(progress).delivered = delivered
        /\ ~Passed(progress).thrown
    BY <2>2 DEF Begin
  <2>4. CASE /\ progress % 5 \in {0, 4} /\ chunk = <<>>
             /\ delivered = SubSeq(messages, 1, (progress + 1) \div 5)
    BY <2>1, <2>2, <2>3, <2>4 DEF InHand, Between
  <2>5. CASE /\ progress % 5 # 0 /\ chunk # <<>>
             /\ Lines[chunk] = LinesAt(progress % 5, messages[(progress \div 5) + 1])
             /\ delivered = SubSeq(messages, 1, progress \div 5)
    <3>1. chunk \o <<>> = chunk
      BY ConcatEmptySeq DEF SSETypeOK
    <3>2. progress % 5 # 4 /\ ~(progress > progress)
      BY <1>1, <2>5
    <3>3. Within(progress)
      BY <2>2, <2>3, <2>5, <3>1, <3>2 DEF Within
    <3>4. QED
      BY <2>1, <2>3, <3>3 DEF InHand
  <2>6. QED
    BY <2>4, <2>5 DEF Whole
<1>3. ASSUME NEW i \in Nat, i \in S PROVE i + 1 \in S
  <2> SUFFICES ASSUME progress + (i + 1) <= Len(Text) PROVE InHand(progress + (i + 1))
    OBVIOUS
  <2>1. /\ progress + i \in progress .. Len(Text) /\ progress + i < Len(Text)
        /\ (progress + i) + 1 = progress + (i + 1)
    BY <1>1
  <2>2. InHand(progress + i)
    BY <1>3, <2>1
  <2>3. InHand((progress + i) + 1)
    BY <2>1, <2>2, InHandStep
  <2>4. QED
    BY <2>1, <2>3
<1> HIDE DEF S
<1>4. n - progress \in Nat /\ progress + (n - progress) = n /\ n <= Len(Text)
  BY <1>1
<1>5. n - progress \in S
  BY <1>2, <1>3, <1>4, Induct
<1>6. QED
  BY <1>4, <1>5 DEF S

\* The first token of what has arrived.
LEMMA ArrivedHead ==
  ASSUME SSETypeOK, NEW n \in progress .. Len(Text), n > progress
  PROVE  Head(Arrived(n)) = Text[progress + 1]
<1>1. Text \in Seq(Tokens) /\ Len(Text) \in Nat /\ progress \in Nat
  BY TextIs DEF SSETypeOK
<1>2. progress + 1 \in 1 .. Len(Text) /\ n \in (progress + 1) .. Len(Text)
  BY <1>1
<1>3. QED
  BY <1>1, <1>2, HeadTailOfSubSeq DEF Arrived

\* What has been read without a tear is whole, wherever the text was cut.
LEMMA ReadWhole ==
  ASSUME SSETypeOK, Whole(chunk, delivered, progress), NEW n \in progress .. Len(Text),
         ~Tears(n), n > progress \/ n % 5 = 0
  PROVE  ~Read(n).thrown /\ Whole(Read(n).chunk, Read(n).delivered, n)
<1> DEFINE k == n \div 5
           p == messages[k + 1]
           r == Passed(n)
           o == Open(n)
<1>1. /\ messages \in Seq(Payloads) /\ progress \in Nat /\ n \in Nat /\ k \in Nat
      /\ Len(messages) \in Nat /\ Len(Text) = 5 * Len(messages)
      /\ n = 5 * k + (n % 5) /\ n % 5 \in 0 .. 4
  BY TextIs DEF SSETypeOK
<1>2. /\ r \in Reading /\ o \in Seq(Tokens) /\ r.chunk \in Seq(Tokens)
      /\ Read(n) = PassPart(r, o)
  BY ReadStep DEF Reading
<1>3. CASE progress % 5 = 4 /\ chunk # <<>>
  <2> DEFINE j == progress \div 5
             q == messages[j + 1]
  <2>1. /\ Lines[chunk] = LinesAt(4, q) /\ Last(chunk) = NL
        /\ delivered = SubSeq(messages, 1, j)
    BY <1>3 DEF Whole
  <2>2. n > progress /\ progress < Len(Text)
    BY <1>1, <1>3
  <2>3. /\ j \in Nat /\ j < Len(messages)
        /\ progress + 1 \in 1 .. Len(Text) /\ (progress + 1) % 5 = 0
        /\ (progress + 1) \div 5 = j + 1 /\ ((progress + 1) + 1) \div 5 = j + 1
    BY <1>1, <1>3, <2>2
  <2>4. Text[progress + 1] = NL
    BY <1>1, <2>3, TextIs
  <2>5. n = progress + 1
    <3>1. Head(Arrived(n)) = NL
      BY <2>2, <2>4, ArrivedHead
    <3>2. ~(n > progress + 1)
      BY <1>3, <2>1, <3>1 DEF Tears
    <3>3. QED
      BY <1>1, <2>2, <3>2
  <2>6. o = <<NL>> /\ r = Begin
    <3>1. progress \in progress .. Len(Text) /\ progress < Len(Text)
      BY <1>1, <2>2
    <3>2. Open(progress) = <<>> /\ Passed(progress) = Begin
      BY <3>1, ReadStep
    <3>3. /\ Open(progress + 1) = Append(<<>>, NL)
          /\ Passed(progress + 1) = Begin
      BY <2>4, <3>1, <3>2, ReadStep
    <3>4. Append(<<>>, NL) = <<NL>>
      <4>1. <<>> \in Seq(Tokens) /\ NL \in Tokens
        BY TokensApart
      <4>2. QED
        BY <4>1, Tuples
    <3>5. QED
      BY <2>5, <3>3, <3>4
  <2>7. q \in Payloads /\ Append(SubSeq(messages, 1, j), q) = SubSeq(messages, 1, j + 1)
    BY <1>1, <2>3, Sent
  <2> HIDE DEF j, q, r, o
  <2>8. Read(n) = Dispatch(Begin)
    BY <1>2, <2>6, BlankParts DEF PassPart, Begin
  <2>9. /\ Dispatch(Begin).chunk = <<>> /\ ~Dispatch(Begin).thrown
        /\ Dispatch(Begin).delivered = SubSeq(messages, 1, j + 1)
    <3>1. /\ Begin \in Reading /\ ~Begin.thrown /\ Begin.delivered = delivered
          /\ Lines[Begin.chunk] = LinesAt(4, q)
      BY <1>2, <2>1, <2>6 DEF Begin
    <3>2. QED
      BY <2>1, <2>7, <3>1, WholeDispatched
  <2>10. QED
    BY <2>3, <2>5, <2>8, <2>9 DEF Whole
<1>4. CASE progress % 5 # 4 \/ chunk = <<>>
  <2>1. InHand(n)
    BY <1>4, InHandAlways
  <2>2. CASE Between(n)
    <3>1. /\ n % 5 \in {0, 4} /\ r.chunk = <<>> /\ ~r.thrown /\ Blank(o)
          /\ r.delivered = SubSeq(messages, 1, (n + 1) \div 5)
      BY <2>1, <2>2, BlankParts DEF Between, InHand
    <3> HIDE DEF r, o
    <3>2. Read(n) = r
      BY <1>2, <3>1 DEF PassPart, Dispatch
    <3>3. QED
      BY <3>1, <3>2 DEF Whole
  <2>3. CASE Within(n)
    <3>1. /\ n % 5 # 0 /\ ~r.thrown
          /\ r.delivered = SubSeq(messages, 1, k)
          /\ r.chunk \o o # <<>>
          /\ Lines[r.chunk \o o] = LinesAt(n % 5, p)
          /\ n > progress => o # <<>> /\ Last(o) = Text[n]
      BY <2>1, <2>3 DEF Within, InHand
    <3>2. n % 5 = 4 =>
            /\ Last(o) = NL
            /\ Front(o) = <<>> \/ Last(Front(o)) = End
            /\ Lines[r.chunk \o Front(o)] = LinesAt(3, p)
      BY <2>3 DEF Within
    <3>3. n \in 1 .. Len(Text) /\ o # <<>> /\ Last(o) = Text[n] /\ k < Len(messages)
      BY <1>1, <3>1
    <3>4. p \in Payloads /\ Append(SubSeq(messages, 1, k), p) = SubSeq(messages, 1, k + 1)
      BY <1>1, <3>3, Sent
    <3>5. /\ Front(o) \in Seq(Tokens) /\ o = Append(Front(o), Last(o)) /\ Last(o) \in Tokens
          /\ Len(o) \in 1 .. Len(o) /\ o[Len(o)] = Last(o)
      <4>1. Len(o) \in Nat /\ Front(o) \in Seq(Tokens) /\ Len(o) = Len(Front(o)) + 1
            /\ Len(Front(o)) \in Nat
        BY <1>2, <3>3, Ends, LenProperties
      <4>2. QED
        BY <1>2, <3>3, <4>1, Ends DEF Last
    <3>6. n % 5 = 1 => Text[n] = Data
      BY <1>1, <3>3, TextIs
    <3>7. n % 5 = 2 => Text[n] = p
      BY <1>1, <3>3, TextIs
    <3>8. n % 5 = 3 => Text[n] = End
      BY <1>1, <3>3, TextIs
    <3> HIDE DEF r, o, p, k
    <3>9. CASE Blank(o)
      <4>1. Last(o) = NL
        BY <1>2, <3>5, <3>9, BlankParts
      <4>2. n % 5 = 4
        BY <1>1, <3>1, <3>3, <3>4, <3>6, <3>7, <3>8, <4>1, TokensApart
      <4>3. Front(o) = <<>>
        <5> SUFFICES ASSUME Front(o) # <<>> PROVE FALSE
          OBVIOUS
        <5> DEFINE f == Front(o)
        <5>1. f \in Seq(Tokens) /\ Last(f) = End /\ Len(f) \in 1 .. Len(f) /\ Len(o) = Len(f) + 1
          BY <1>2, <3>2, <3>3, <3>5, <4>2, Ends, LenProperties
        <5>2. o[Len(f)] = End /\ Len(f) \in 1 .. Len(o)
          <6>1. o = Append(f, Last(o))
            BY <3>5
          <6>2. Append(f, Last(o))[Len(f)] = f[Len(f)]
            BY <3>5, <5>1, AppendProperties
          <6>3. QED
            BY <5>1, <6>1, <6>2 DEF Last
        <5>3. QED
          BY <1>2, <3>9, <5>2, BlankParts, TokensApart
      <4>4. Lines[r.chunk] = LinesAt(3, p)
        BY <1>2, <3>2, <4>2, <4>3, ConcatEmptySeq
      <4>5. Read(n) = Dispatch(r)
        BY <1>2, <3>1, <3>9 DEF PassPart
      <4>6. /\ Read(n).chunk = <<>> /\ ~Read(n).thrown
            /\ Read(n).delivered = SubSeq(messages, 1, k + 1)
        BY <1>2, <3>1, <3>4, <4>4, <4>5, WholeDispatched
      <4>7. (n + 1) \div 5 = k + 1
        BY <1>1, <4>2 DEF k
      <4>8. QED
        BY <4>2, <4>6, <4>7 DEF Whole
    <3>10. CASE ~Blank(o)
      <4>1. Read(n) = [r EXCEPT !.chunk = @ \o o]
        BY <1>2, <3>1, <3>10 DEF PassPart
      <4>2. /\ Read(n).chunk = r.chunk \o o /\ Read(n).thrown = r.thrown
            /\ Read(n).delivered = r.delivered
        BY <1>2, <4>1 DEF Reading
      <4>3. n % 5 = 4 => Last(r.chunk \o o) = NL
        <5> SUFFICES ASSUME n % 5 = 4 PROVE Last(r.chunk \o o) = NL
          OBVIOUS
        <5> DEFINE f == Front(o)
                   l == Last(o)
                   c == r.chunk
        <5>9. c \in Seq(Tokens)
          BY <1>2
        <5>1. f \in Seq(Tokens) /\ l \in Tokens /\ o = Append(f, l) /\ l = NL
          BY <3>2, <3>5
        <5> HIDE DEF f, l, c
        <5>2. c \o Append(f, l) = Append(c \o f, l)
          BY <5>9, <5>1, ConcatAppend
        <5>3. c \o f \in Seq(Tokens)
          BY <5>9, <5>1, ConcatProperties
        <5>4. Last(Append(c \o f, l)) = l
          BY <5>1, <5>3, AppendEnds
        <5>5. QED
          BY <5>1, <5>2, <5>4 DEF c
      <4>4. QED
        BY <3>1, <4>2, <4>3 DEF Whole, k, p
    <3>11. QED
      BY <3>9, <3>10
  <2>4. QED
    BY <2>1, <2>2, <2>3 DEF InHand
<1>5. QED
  BY <1>3, <1>4

-----------------------------------------------------------------------------
\* The lines of a torn buffer, j tokens past the first line feed of the
\* message it begins with.
TearAt(m, j) ==
  /\ j < 3 => m.line = (IF j = 2 THEN <<Data>> ELSE <<>>) /\ Len(m.data) = 2
  /\ j > 2 => Spoilt(m)

\* Tokens d that follow j tokens past that line feed: the second line feed,
\* the next message's data: and its payload.
Fits(d, j) ==
  \A i \in 1 .. Len(d) : /\ i + j = 1 => d[i] = NL
                         /\ i + j = 2 => d[i] = Data
                         /\ i + j = 3 => d[i] # NL

\* Spoilt data never is that of one message.
LEMMA SpoiltData ==
  ASSUME NEW m \in LinesType, Spoilt(m)
  PROVE  Len(WithLine(m)) > 2
<1>1. m.line \in Seq(Tokens) /\ m.data \in Seq(Tokens) /\ Len(m.data) \in Nat
  BY DEF LinesType
<1>2. CASE m.line # <<>> /\ Head(m.line) = Data
  <2>1. /\ Tail(m.line) \in Seq(Tokens) /\ Len(Tail(m.line)) = Len(m.line) - 1
        /\ Len(m.line) \in Nat \ {0}
    BY <1>1, <1>2, HeadTailProperties, EmptySeq
  <2>2. WithLine(m) = m.data \o Tail(m.line)
    BY <1>2 DEF WithLine
  <2>3. Len(WithLine(m)) = Len(m.data) + (Len(m.line) - 1)
    BY <1>1, <2>1, <2>2, ConcatProperties
  <2>4. Len(m.data) > 2 \/ (Len(m.data) = 2 /\ Len(m.line) > 1)
    BY Zenon DEF Spoilt
  <2> DEFINE a == Len(m.data)
             b == Len(m.line)
             w == Len(WithLine(m))
  <2>5. a \in Nat /\ b \in Nat /\ b > 0 /\ w = a + (b - 1) /\ (a > 2 \/ (a = 2 /\ b > 1))
    BY <1>1, <2>1, <2>3, <2>4
  <2> HIDE DEF a, b, w
  <2>6. w > 2
    BY <2>5
  <2>7. QED
    BY <2>6 DEF w
<1>3. CASE ~(m.line # <<>> /\ Head(m.line) = Data)
  <2>1. WithLine(m) = m.data
    BY <1>3 DEF WithLine
  <2>2. ~(Len(m.line) > 1 /\ m.line = <<>>)
    OBVIOUS
  <2>3. QED
    BY <1>3, <2>1, <2>2 DEF Spoilt
<1>4. QED
  BY <1>2, <1>3

\* One token more of a torn buffer.
LEMMA TearStep ==
  ASSUME NEW m \in LinesType, NEW j \in Nat, TearAt(m, j), NEW t \in Tokens,
         j = 0 => t = NL, j = 1 => t = Data, j = 2 => t # NL
  PROVE  TearAt(LineStep(m, t), j + 1)
<1> DEFINE u == LineStep(m, t)
<1>1. m.line \in Seq(Tokens) /\ m.data \in Seq(Tokens) /\ Len(m.data) \in Nat
  BY DEF LinesType
<1>2. t = NL => u.line = <<>> /\ u.data = WithLine(m)
  BY DEF LineStep
<1>3. t # NL => u.line = Append(m.line, t) /\ u.data = m.data
  BY DEF LineStep, LinesType
<1>4. /\ Append(m.line, t) \in Seq(Tokens) /\ Len(Append(m.line, t)) = Len(m.line) + 1
      /\ Len(m.line) \in Nat
      /\ Len(m.line) > 0 => Head(Append(m.line, t)) = Head(m.line)
  BY <1>1, AppendProperties, HeadTailAppend, LenProperties
<1> HIDE DEF u
<1>5. CASE j = 0
  <2>9. m.line = <<>>
    BY <1>5 DEF TearAt
  <2>1. WithLine(m) = m.data
    BY <2>9, Zenon DEF WithLine
  <2>2. QED
    BY <1>2, <1>5, <2>1 DEF TearAt, u
<1>6. CASE j = 1
  <2>1. Append(<<>>, Data) = <<Data>>
    <3>1. Data \in Tokens
      BY TokensApart
    <3>2. QED
      BY <3>1, Tuples
  <2>2. QED
    BY <1>3, <1>6, <2>1, TokensApart DEF TearAt, u
<1>7. CASE j = 2
  <2>1. m.line = <<Data>> /\ Len(m.data) = 2
    BY <1>7 DEF TearAt
  <2>2. Len(m.line) = 1 /\ Head(m.line) = Data
    BY <2>1
  <2>3. Spoilt(u)
    BY <1>3, <1>4, <1>7, <2>1, <2>2 DEF Spoilt
  <2>4. QED
    BY <1>7, <2>3 DEF TearAt, u
<1>8. CASE j > 2
  <2>1. Spoilt(m)
    BY <1>8 DEF TearAt
  <2>2. CASE t = NL
    BY <1>2, <1>8, <2>1, <2>2, SpoiltData DEF TearAt, Spoilt, u
  <2>3. CASE t # NL
    <3>1. Spoilt(u)
      BY <1>1, <1>3, <1>4, <2>1, <2>3 DEF Spoilt
    <3>2. QED
      BY <1>8, <3>1 DEF TearAt, u
  <2>4. QED
    BY <2>2, <2>3
<1>9. QED
  BY <1>5, <1>6, <1>7, <1>8

\* All that follows in a torn buffer.
LEMMA TearLines ==
  ASSUME NEW c \in Seq(Tokens), NEW j \in Nat, TearAt(Lines[c], j),
         NEW d \in Seq(Tokens), Fits(d, j)
  PROVE  TearAt(Lines[c \o d], j + Len(d))
<1> DEFINE S == {e \in Seq(Tokens) : Fits(e, j) => TearAt(Lines[c \o e], j + Len(e))}
<1>1. <<>> \in S
  <2>1. c \o <<>> = c /\ j + Len(<<>>) = j
    BY ConcatEmptySeq
  <2>2. QED
    BY <2>1
<1>2. ASSUME NEW e \in Seq(Tokens), NEW t \in Tokens, e \in S
      PROVE  Append(e, t) \in S
  <2> DEFINE b == Append(e, t)
  <2>1. /\ b \in Seq(Tokens) /\ Len(b) = Len(e) + 1 /\ Len(e) \in Nat
        /\ \A i \in 1 .. Len(e) : b[i] = e[i]
        /\ b[Len(e) + 1] = t
    BY AppendProperties, LenProperties
  <2>2. c \o b = Append(c \o e, t) /\ c \o e \in Seq(Tokens)
    BY ConcatAppend, ConcatProperties
  <2> HIDE DEF b
  <2> SUFFICES ASSUME Fits(b, j) PROVE TearAt(Lines[c \o b], j + Len(b))
    BY <2>1 DEF b
  <2>3. Fits(e, j)
    BY <2>1 DEF Fits
  <2>4. TearAt(Lines[c \o e], j + Len(e))
    BY <1>2, <2>3
  <2>5. /\ j + Len(e) = 0 => t = NL
        /\ j + Len(e) = 1 => t = Data
        /\ j + Len(e) = 2 => t # NL
    <3>1. Len(e) + 1 \in 1 .. Len(b)
      BY <2>1
    <3>2. /\ (Len(e) + 1) + j = 1 => t = NL
          /\ (Len(e) + 1) + j = 2 => t = Data
          /\ (Len(e) + 1) + j = 3 => t # NL
      BY <2>1, <3>1 DEF Fits
    <3>3. QED
      BY <2>1, <3>2
  <2>6. Lines[c \o b] = LineStep(Lines[c \o e], t) /\ Lines[c \o e] \in LinesType
    BY <2>2, LinesLaw
  <2>7. j + Len(e) \in Nat
    BY <2>1
  <2>8. TearAt(Lines[c \o b], (j + Len(e)) + 1)
    BY <2>4, <2>5, <2>6, <2>7, TearStep
  <2>9. QED
    BY <2>1, <2>8
<1> HIDE DEF S
<1>3. Seq(Tokens) \subseteq S
  BY <1>1, <1>2, SeqInduct
<1>4. QED
  BY <1>3 DEF S

\* A spoilt buffer is handed out by nothing.
LEMMA SpoiltPart ==
  ASSUME NEW r \in Reading, Spoilt(Lines[r.chunk]), NEW part \in Seq(Tokens)
  PROVE  /\ Dispatch(r).delivered = r.delivered /\ Spoilt(Lines[Dispatch(r).chunk])
         /\ PassPart(r, part).delivered = r.delivered
         /\ Spoilt(Lines[PassPart(r, part).chunk])
<1>1. r.chunk \in Seq(Tokens) /\ Lines[r.chunk] \in LinesType
  BY LinesLaw DEF Reading
<1>2. \A p \in Payloads : MessageData(r.chunk) # <<p, End>>
  <2> SUFFICES ASSUME NEW p \in Payloads, MessageData(r.chunk) = <<p, End>> PROVE FALSE
    OBVIOUS
  <2>1. Len(MessageData(r.chunk)) > 2
    BY <1>1, SpoiltData DEF MessageData
  <2>2. Len(<<p, End>>) = 2
    OBVIOUS
  <2>3. QED
    BY <2>1, <2>2
<1>3. Dispatch(r) = r \/ Dispatch(r) = [r EXCEPT !.thrown = TRUE]
  BY <1>2 DEF Dispatch
<1>4. Dispatch(r).delivered = r.delivered /\ Dispatch(r).chunk = r.chunk
  BY <1>3 DEF Reading
<1>5. Spoilt(Lines[r.chunk \o part])
  <2>1. TearAt(Lines[r.chunk], 3) /\ Fits(part, 3)
    BY DEF TearAt, Fits
  <2>2. TearAt(Lines[r.chunk \o part], 3 + Len(part)) /\ Len(part) \in Nat
    BY <1>1, <2>1, TearLines, LenProperties
  <2>3. QED
    BY <2>2 DEF TearAt
<1>6. CASE r.thrown \/ Blank(part)
  <2>1. PassPart(r, part) = r \/ PassPart(r, part) = Dispatch(r)
    BY <1>6 DEF PassPart
  <2>2. QED
    BY <1>4, <2>1
<1>7. CASE ~(r.thrown \/ Blank(part))
  <2>1. PassPart(r, part) = [r EXCEPT !.chunk = @ \o part]
    BY <1>7 DEF PassPart
  <2>2. PassPart(r, part).delivered = r.delivered /\ PassPart(r, part).chunk = r.chunk \o part
    BY <2>1 DEF Reading
  <2>3. QED
    BY <1>4, <1>5, <2>2
<1>8. QED
  BY <1>6, <1>7

\* progress and j tell where in a torn end of a message the buffer stops
Tearing(j) ==
  /\ TearAt(Lines[chunk], j)
  /\ \/ j = 0 /\ progress % 5 = 4
     \/ j = 2 /\ progress % 5 = 1
     \/ j = 3

\* A handler that reads on with a torn buffer: it has handed out nothing, and
\* the buffer is spoilt or all it has read is still open.
Stuck(n, j) ==
  /\ Passed(n).delivered = delivered
  /\ \/ Spoilt(Lines[Passed(n).chunk])
     \/ /\ Passed(n) = Begin
        /\ Fits(Open(n), j) /\ Len(Open(n)) = n - progress

\* What follows in a torn buffer is not a blank part.
LEMMA FitsNotBlank ==
  ASSUME NEW d \in Seq(Tokens), NEW j \in {0, 2}, Fits(d, j), j + Len(d) > 1, Len(d) > 0
  PROVE  ~Blank(d)
<1>1. CASE j = 0
  <2>1. 2 \in 1 .. Len(d) /\ d[2] = Data
    BY <1>1 DEF Fits
  <2>2. QED
    BY <2>1, BlankParts, TokensApart
<1>2. CASE j = 2
  <2>1. 1 \in 1 .. Len(d) /\ d[1] # NL
    BY <1>2 DEF Fits
  <2>2. QED
    BY <2>1, BlankParts
<1>3. QED
  BY <1>1, <1>2

\* It is joined to the buffer.
LEMMA FitsJoin ==
  ASSUME SSETypeOK, NEW j \in {0, 2}, Tearing(j),
         NEW d \in Seq(Tokens), Fits(d, j), j + Len(d) > 1, Len(d) > 0
  PROVE  LET r == PassPart(Begin, d)
         IN  /\ r \in Reading /\ r.delivered = delivered
             /\ TearAt(Lines[r.chunk], j + Len(d))
<1>1. ~Blank(d)
  BY FitsNotBlank
<1>2. Begin \in Reading /\ chunk \in Seq(Tokens)
  BY DEF SSETypeOK, Begin, Reading
<1>3. PassPart(Begin, d) = [Begin EXCEPT !.chunk = @ \o d]
  BY <1>1 DEF PassPart, Begin
<1>4. PassPart(Begin, d).chunk = chunk \o d /\ PassPart(Begin, d).delivered = delivered
  BY <1>3 DEF Begin
<1>5. TearAt(Lines[chunk \o d], j + Len(d))
  BY <1>2, TearLines DEF Tearing
<1>6. QED
  BY <1>2, <1>4, <1>5, PassPartType

\* One token more gets no reading out of it.
LEMMA StuckStep ==
  ASSUME SSETypeOK, NEW j \in {0, 2, 3}, Tearing(j),
         NEW n \in progress .. Len(Text), n < Len(Text), Stuck(n, j)
  PROVE  Stuck(n + 1, j)
<1> DEFINE o == Open(n)
           t == Text[n + 1]
<1>1. /\ messages \in Seq(Payloads) /\ progress \in Nat /\ n \in Nat
      /\ Len(Text) = 5 * Len(messages) /\ n + 1 \in 1 .. Len(Text) /\ Len(messages) \in Nat
  BY TextIs DEF SSETypeOK
<1>2. /\ Passed(n) \in Reading /\ o \in Seq(Tokens) /\ t \in Tokens /\ Len(o) \in Nat
      /\ <<NL>> \in Seq(Tokens) /\ Begin \in Reading
  BY <1>1, ReadStep, TextIs, LenProperties, TokensApart
<1>3. ASSUME ~(t = NL /\ o # <<>> /\ Last(o) = NL)
      PROVE  Open(n + 1) = Append(o, t) /\ Passed(n + 1) = Passed(n)
  BY <1>3, ReadStep
<1>4. ASSUME t = NL, o # <<>>, Last(o) = NL
      PROVE  Passed(n + 1) = PassPart(PassPart(Passed(n), Front(o)), <<NL>>)
  BY <1>4, ReadStep
<1>5. o # <<>> => Front(o) \in Seq(Tokens) /\ Len(o) = Len(Front(o)) + 1 /\ Len(Front(o)) \in Nat
                  /\ o = Append(Front(o), Last(o))
  BY <1>2, Ends, LenProperties
<1>6. CASE Spoilt(Lines[Passed(n).chunk])
  <2>1. CASE t = NL /\ o # <<>> /\ Last(o) = NL
    <3> DEFINE r1 == PassPart(Passed(n), Front(o))
    <3>1. r1 \in Reading /\ r1.delivered = delivered /\ Spoilt(Lines[r1.chunk])
      BY <1>2, <1>5, <1>6, <2>1, SpoiltPart, PassPartType DEF Stuck
    <3> HIDE DEF r1
    <3>2. /\ PassPart(r1, <<NL>>).delivered = delivered
          /\ Spoilt(Lines[PassPart(r1, <<NL>>).chunk])
      BY <1>2, <3>1, SpoiltPart
    <3>3. QED
      BY <1>4, <2>1, <3>2 DEF Stuck, r1
  <2>2. CASE ~(t = NL /\ o # <<>> /\ Last(o) = NL)
    BY <1>3, <1>6, <2>2 DEF Stuck
  <2>3. QED
    BY <2>1, <2>2
<1>7. CASE ~Spoilt(Lines[Passed(n).chunk])
  <2>1. /\ Passed(n) = Begin /\ Fits(o, j) /\ Len(o) = n - progress
        /\ Passed(n).delivered = delivered
    BY <1>7 DEF Stuck
  <2>2. j \in {0, 2}
    <3>1. j # 3
      BY <1>7, <2>1 DEF Tearing, TearAt, Begin
    <3>2. QED
      BY <3>1
  <2>3. /\ (Len(o) + 1) + j = 1 => t = NL
        /\ (Len(o) + 1) + j = 2 => t = Data
        /\ (Len(o) + 1) + j = 3 => t # NL
    <3>1. n = progress + Len(o)
      BY <1>1, <1>2, <2>1
    <3>2. \/ j = 0 /\ progress % 5 = 4
          \/ j = 2 /\ progress % 5 = 1
      BY <2>2 DEF Tearing
    <3>3. (Len(o) + 1) + j = 1 => (n + 1) % 5 = 0
      BY <1>1, <1>2, <3>1, <3>2
    <3>4. (Len(o) + 1) + j = 2 => (n + 1) % 5 = 1
      BY <1>1, <1>2, <3>1, <3>2
    <3>5. (Len(o) + 1) + j = 3 => (n + 1) % 5 = 2
      BY <1>1, <1>2, <3>1, <3>2
    <3>6. (n + 1) % 5 = 0 => t = NL
      BY <1>1, TextIs
    <3>7. (n + 1) % 5 = 1 => t = Data
      BY <1>1, TextIs
    <3>8. (n + 1) % 5 = 2 => t # NL
      <4> SUFFICES ASSUME (n + 1) % 5 = 2 PROVE t # NL
        OBVIOUS
      <4> DEFINE i == ((n + 1) \div 5) + 1
      <4>1. t = messages[i] /\ i \in 1 .. Len(messages)
        BY <1>1, TextIs
      <4> HIDE DEF i, t
      <4>2. messages[i] \in Payloads
        BY <1>1, <4>1
      <4>3. QED
        BY <4>1, <4>2, TokensApart
    <3>9. QED
      BY <3>3, <3>4, <3>5, <3>6, <3>7, <3>8
  <2> HIDE DEF o, t
  <2>4. CASE t = NL /\ o # <<>> /\ Last(o) = NL
    <3> DEFINE f == Front(o)
    <3>1. /\ f \in Seq(Tokens) /\ Len(o) = Len(f) + 1 /\ Len(f) \in Nat
          /\ \A i \in 1 .. Len(f) : o[i] = f[i]
      <4>1. f \in Seq(Tokens) /\ Len(o) = Len(f) + 1 /\ Len(f) \in Nat /\ o = Append(f, Last(o))
        BY <1>5, <2>4
      <4> HIDE DEF f
      <4>2. \A i \in 1 .. Len(f) : Append(f, Last(o))[i] = f[i]
        BY <4>1
      <4>3. QED
        BY <4>1, <4>2
    <3> HIDE DEF f
    <3>2. o[Len(o)] = NL
      BY <2>4 DEF Last
    <3>3. j + Len(f) > 2 /\ Len(f) > 0
      <4>1. Len(o) \in 1 .. Len(o)
        BY <3>1
      <4>2. Len(o) + j # 2 /\ Len(o) + j # 3
        BY <2>1, <3>2, <4>1, TokensApart DEF Fits
      <4>3. (Len(o) + 1) + j # 2
        BY <2>3, <2>4, TokensApart
      <4>4. QED
        BY <2>2, <3>1, <4>2, <4>3
    <3>4. Fits(f, j)
      BY <2>1, <3>1 DEF Fits
    <3> DEFINE r1 == PassPart(Begin, f)
    <3>5. r1 \in Reading /\ r1.delivered = delivered /\ TearAt(Lines[r1.chunk], j + Len(f))
      BY <2>2, <3>1, <3>3, <3>4, FitsJoin
    <3> HIDE DEF r1
    <3>6. Spoilt(Lines[r1.chunk])
      BY <3>3, <3>5 DEF TearAt
    <3>7. /\ PassPart(r1, <<NL>>).delivered = delivered
          /\ Spoilt(Lines[PassPart(r1, <<NL>>).chunk])
      BY <1>2, <3>5, <3>6, SpoiltPart
    <3>8. Passed(n + 1) = PassPart(r1, <<NL>>)
      BY <1>4, <2>1, <2>4 DEF r1, f
    <3>9. QED
      BY <3>7, <3>8 DEF Stuck
  <2>5. CASE ~(t = NL /\ o # <<>> /\ Last(o) = NL)
    <3>1. Open(n + 1) = Append(o, t) /\ Passed(n + 1) = Begin
      BY <1>3, <2>1, <2>5
    <3>2. /\ Len(Append(o, t)) = Len(o) + 1
          /\ \A i \in 1 .. Len(o) : Append(o, t)[i] = o[i]
          /\ Append(o, t)[Len(o) + 1] = t
      BY <1>2, AppendProperties
    <3> DEFINE b == Append(o, t)
    <3>3. Fits(b, j)
      <4> HIDE DEF b
      <4> SUFFICES ASSUME NEW i \in 1 .. Len(b)
                   PROVE  /\ i + j = 1 => b[i] = NL
                          /\ i + j = 2 => b[i] = Data
                          /\ i + j = 3 => b[i] # NL
        BY DEF Fits
      <4>1. CASE i \in 1 .. Len(o)
        BY <2>1, <3>2, <4>1 DEF Fits, b
      <4>2. CASE i = Len(o) + 1
        BY <2>3, <3>2, <4>2 DEF b
      <4>3. QED
        BY <1>2, <3>2, <4>1, <4>2 DEF b
    <3>4. Len(b) = (n + 1) - progress
      BY <1>1, <1>2, <2>1, <3>2
    <3>5. QED
      BY <2>1, <3>1, <3>3, <3>4 DEF Stuck
  <2>6. QED
    BY <2>4, <2>5
<1>8. QED
  BY <1>6, <1>7

\* So no reading gets out of it.
LEMMA StuckAlways ==
  ASSUME SSETypeOK, NEW j \in {0, 2, 3}, Tearing(j), NEW n \in progress .. Len(Text)
  PROVE  Stuck(n, j)
<1> DEFINE S == {i \in Nat : progress + i <= Len(Text) => Stuck(progress + i, j)}
<1>1. progress \in Nat /\ Len(Text) \in Nat
  BY TextIs DEF SSETypeOK
<1>2. 0 \in S
  <2>1. progress + 0 = progress /\ progress \in progress .. Len(Text)
    BY <1>1
  <2>2. Open(progress) = <<>> /\ Passed(progress) = Begin
    BY <2>1, ReadStep
  <2>3. Fits(<<>>, j) /\ Len(<<>>) = progress - progress
    BY <1>1 DEF Fits
  <2>4. Stuck(progress, j)
    BY <2>2, <2>3 DEF Stuck, Begin
  <2>5. QED
    BY <2>1, <2>4
<1>3. ASSUME NEW i \in Nat, i \in S PROVE i + 1 \in S
  <2> SUFFICES ASSUME progress + (i + 1) <= Len(Text) PROVE Stuck(progress + (i + 1), j)
    OBVIOUS
  <2>1. /\ progress + i \in progress .. Len(Text) /\ progress + i < Len(Text)
        /\ (progress + i) + 1 = progress + (i + 1)
    BY <1>1
  <2>2. Stuck(progress + i, j)
    BY <1>3, <2>1
  <2>3. Stuck((progress + i) + 1, j)
    BY <2>1, <2>2, StuckStep
  <2>4. QED
    BY <2>1, <2>3
<1> HIDE DEF S
<1>4. n - progress \in Nat /\ progress + (n - progress) = n /\ n <= Len(Text)
  BY <1>1
<1>5. n - progress \in S
  BY <1>2, <1>3, <1>4, Induct
<1>6. QED
  BY <1>4, <1>5 DEF S

\* What a handler leaves after a tear.
LEMMA ReadStuck ==
  ASSUME SSETypeOK, NEW j \in {0, 2, 3}, Tearing(j), NEW n \in progress .. Len(Text),
         j = 0 => n > progress + 1, j = 2 => n > progress
  PROVE  Read(n).delivered = delivered /\ Jammed(Read(n).chunk, n)
<1>1. /\ progress \in Nat /\ n \in Nat /\ Passed(n) \in Reading /\ Open(n) \in Seq(Tokens)
      /\ Read(n) = PassPart(Passed(n), Open(n))
  BY ReadStep, TextIs DEF SSETypeOK
<1>2. Stuck(n, j)
  BY StuckAlways
<1>3. CASE Spoilt(Lines[Passed(n).chunk])
  BY <1>1, <1>2, <1>3, SpoiltPart DEF Stuck, Jammed
<1>4. CASE ~Spoilt(Lines[Passed(n).chunk])
  <2>1. Passed(n) = Begin /\ Fits(Open(n), j) /\ Len(Open(n)) = n - progress
    BY <1>2, <1>4 DEF Stuck
  <2>2. j \in {0, 2}
    <3>1. j # 3
      BY <1>4, <2>1 DEF Tearing, TearAt, Begin
    <3>2. QED
      BY <3>1
  <2>3. j + Len(Open(n)) > 1 /\ Len(Open(n)) > 0
    BY <1>1, <2>1, <2>2
  <2> DEFINE d == Open(n)
  <2>4. Read(n).delivered = delivered /\ TearAt(Lines[Read(n).chunk], j + Len(d))
    BY <1>1, <2>1, <2>2, <2>3, FitsJoin
  <2>5. CASE j + Len(d) > 2
    BY <2>4, <2>5 DEF TearAt, Jammed
  <2>6. CASE j + Len(d) = 2
    <3>1. j = 0 /\ n = progress + 2 /\ progress % 5 = 4
      BY <1>1, <2>1, <2>2, <2>3, <2>6 DEF Tearing
    <3>2. n % 5 = 1
      BY <1>1, <3>1
    <3>3. Lines[Read(n).chunk].line = <<Data>> /\ Len(Lines[Read(n).chunk].data) = 2
      BY <2>4, <2>6 DEF TearAt
    <3>4. QED
      BY <2>4, <3>2, <3>3 DEF Jammed
  <2>7. QED
    BY <1>1, <2>1, <2>2, <2>3, <2>5, <2>6
<1>5. QED
  BY <1>3, <1>4

\* Where a torn stream is cut.
LEMMA TornHow ==
  ASSUME SSEInv, NEW n \in progress .. Len(Text), n > progress \/ n = Len(Text),
         torn \/ Tears(n)
  PROVE  \E j \in {0, 2, 3} : /\ Tearing(j)
                              /\ j = 0 => n > progress + 1
                              /\ j = 2 => n > progress
<1>1. /\ SSETypeOK /\ progress \in Nat /\ messages \in Seq(Payloads) /\ chunk \in Seq(Tokens)
      /\ Len(Text) = 5 * Len(messages) /\ Len(messages) \in Nat /\ n \in Nat
  BY TextIs DEF SSEInv, SSETypeOK
<1>2. CASE torn
  <2>1. CASE Spoilt(Lines[chunk])
    BY <2>1 DEF Tearing, TearAt
  <2>2. CASE progress % 5 = 1 /\ Lines[chunk].line = <<Data>> /\ Len(Lines[chunk].data) = 2
    <3>1. n > progress
      BY <1>1, <2>2
    <3>2. Tearing(2)
      BY <2>2 DEF Tearing, TearAt
    <3>3. QED
      BY <3>1, <3>2
  <2>3. QED
    BY <1>2, <2>1, <2>2 DEF SSEInv, Jammed
<1>3. CASE ~torn /\ Tears(n)
  <2>1. /\ chunk # <<>> /\ Last(chunk) = NL /\ n > progress + 1 /\ Head(Arrived(n)) = NL
        /\ Whole(chunk, delivered, progress)
    BY <1>3 DEF Tears, SSEInv
  <2> DEFINE q == messages[(progress \div 5) + 1]
  <2>2. progress % 5 # 0 /\ Lines[chunk] = LinesAt(progress % 5, q)
    BY <2>1 DEF Whole
  <2>3. Text[progress + 1] = NL /\ progress + 1 \in 1 .. Len(Text)
    BY <1>1, <2>1, ArrivedHead
  <2>4. progress % 5 \in {3, 4}
    <3>1. progress % 5 = 1 => Text[progress + 1] # NL
      <4> SUFFICES ASSUME progress % 5 = 1 PROVE Text[progress + 1] # NL
        OBVIOUS
      <4> DEFINE i == ((progress + 1) \div 5) + 1
      <4>1. (progress + 1) % 5 = 2
        BY <1>1
      <4>2. Text[progress + 1] = messages[i] /\ i \in 1 .. Len(messages)
        BY <1>1, <2>3, <4>1, TextIs
      <4> HIDE DEF i
      <4>3. messages[i] \in Payloads
        BY <1>1, <4>2
      <4>4. QED
        BY <4>2, <4>3, TokensApart
    <3>2. progress % 5 = 2 => Text[progress + 1] # NL
      <4> SUFFICES ASSUME progress % 5 = 2 PROVE Text[progress + 1] # NL
        OBVIOUS
      <4>1. (progress + 1) % 5 = 3
        BY <1>1
      <4>2. Text[progress + 1] = End
        BY <1>1, <2>3, <4>1, TextIs
      <4>3. QED
        BY <4>2, TokensApart
    <3>3. QED
      BY <1>1, <2>2, <2>3, <3>1, <3>2
  <2>5. Lines[chunk].line = <<>>
    <3>1. /\ Front(chunk) \in Seq(Tokens) /\ chunk = Append(Front(chunk), NL) /\ NL \in Tokens
      BY <1>1, <2>1, Ends
    <3>2. Lines[Append(Front(chunk), NL)] = LineStep(Lines[Front(chunk)], NL)
      BY <3>1, LinesLaw
    <3>3. \A m : LineStep(m, NL).line = <<>>
      BY DEF LineStep
    <3>4. Lines[chunk] = LineStep(Lines[Front(chunk)], NL)
      BY <3>1, <3>2
    <3>5. QED
      BY <3>3, <3>4
  <2>6. progress % 5 = 4
    <3>1. LinesAt(3, q).line = <<Data, q, End>>
      BY DEF LinesAt
    <3>2. <<Data, q, End>> # <<>>
      OBVIOUS
    <3>3. QED
      BY <2>2, <2>4, <2>5, <3>1, <3>2
  <2>7. TearAt(Lines[chunk], 0)
    <3>1. LinesAt(4, q).data = <<q, End>> /\ Len(<<q, End>>) = 2
      BY DEF LinesAt
    <3>2. Len(Lines[chunk].data) = 2
      BY <2>2, <2>6, <3>1
    <3>3. QED
      BY <2>5, <3>2 DEF TearAt
  <2>8. QED
    BY <2>1, <2>6, <2>7 DEF Tearing
<1>4. QED
  BY <1>2, <1>3

\* What is handed out by a whole reading is the first of the messages sent.
LEMMA WholePrefix ==
  ASSUME messages \in Seq(Payloads), NEW n \in 0 .. Len(Text), NEW c, NEW d, Whole(c, d, n)
  PROVE  IsPrefix(d, messages)
<1>1. Len(Text) = 5 * Len(messages) /\ Len(messages) \in Nat
  BY TextIs
<1>2. PICK k \in 0 .. Len(messages) : d = SubSeq(messages, 1, k)
  <2>1. n \div 5 \in 0 .. Len(messages)
    BY <1>1
  <2>2. n % 5 \in {0, 4} => (n + 1) \div 5 \in 0 .. Len(messages)
    BY <1>1
  <2>3. QED
    BY <2>1, <2>2 DEF Whole
<1>3. d \in Seq(Payloads) /\ Len(d) = k
  BY <1>2
<1>4. SubSeq(d, 1, Len(d)) = d
  BY <1>3, SubSeqFull
<1>5. QED
  BY <1>1, <1>2, <1>3, <1>4 DEF IsPrefix

\* What a progress event reads.
LEMMA ReadInv ==
  ASSUME SSEInv, NEW n \in progress .. Len(Text), n > progress \/ n = Len(Text)
  PROVE  /\ Read(n) \in Reading
         /\ IsPrefix(Read(n).delivered, messages)
         /\ torn \/ Tears(n) => /\ Jammed(Read(n).chunk, n)
                                /\ Read(n).delivered = delivered
         /\ ~(torn \/ Tears(n)) => /\ ~Read(n).thrown
                                   /\ Whole(Read(n).chunk, Read(n).delivered, n)
<1>1. /\ SSETypeOK /\ progress \in Nat /\ messages \in Seq(Payloads)
      /\ Len(Text) = 5 * Len(messages) /\ Len(messages) \in Nat
      /\ n \in 0 .. Len(Text) /\ n = Len(Text) => n % 5 = 0
      /\ IsPrefix(delivered, messages)
  BY TextIs DEF SSEInv, SSETypeOK
<1>2. Read(n) \in Reading
  BY <1>1, ReadStep, PassPartType
<1>3. CASE torn \/ Tears(n)
  <2>1. PICK j \in {0, 2, 3} : /\ Tearing(j)
                               /\ j = 0 => n > progress + 1
                               /\ j = 2 => n > progress
    BY <1>3, TornHow
  <2>2. Read(n).delivered = delivered /\ Jammed(Read(n).chunk, n)
    BY <1>1, <2>1, ReadStuck
  <2>3. QED
    BY <1>1, <1>2, <1>3, <2>2
<1>4. CASE ~(torn \/ Tears(n))
  <2>1. ~Read(n).thrown /\ Whole(Read(n).chunk, Read(n).delivered, n)
    BY <1>1, <1>4, ReadWhole DEF SSEInv
  <2>2. IsPrefix(Read(n).delivered, messages)
    BY <1>1, <2>1, WholePrefix
  <2>3. QED
    BY <1>2, <1>4, <2>1, <2>2
<1>5. QED
  BY <1>3, <1>4

\* What is read, and passed at the end, when all has arrived.
LEMMA RestPassed ==
  ASSUME SSEInv, request = "loading"
  PROVE  LET n == Len(Text)
             r == Read(n)
             last == IF r.thrown THEN r ELSE Dispatch(r)
         IN  /\ last \in Reading
             /\ IsPrefix(last.delivered, messages)
             /\ torn \/ Tears(n) => Jammed(last.chunk, n) /\ last.delivered = delivered
             /\ ~(torn \/ Tears(n)) => Whole(last.chunk, last.delivered, n)
<1> DEFINE n == Len(Text)
           r == Read(n)
           last == IF r.thrown THEN r ELSE Dispatch(r)
<1>1. n \in progress .. Len(Text) /\ n = Len(Text) /\ n % 5 = 0
  <2>1. progress \in Nat /\ progress <= Len(Text) /\ Len(Text) \in Nat /\ Len(Text) % 5 = 0
    BY TextIs DEF SSEInv, SSETypeOK
  <2>2. QED
    BY <2>1
<1> HIDE DEF n
<1>2. /\ r \in Reading /\ IsPrefix(r.delivered, messages)
      /\ torn \/ Tears(n) => Jammed(r.chunk, n) /\ r.delivered = delivered
      /\ ~(torn \/ Tears(n)) => ~r.thrown /\ Whole(r.chunk, r.delivered, n)
  BY <1>1, ReadInv
<1> HIDE DEF r
<1>3. last \in Reading
  BY <1>2, DispatchType
<1>4. CASE torn \/ Tears(n)
  <2>1. Spoilt(Lines[r.chunk])
    BY <1>1, <1>2, <1>4 DEF Jammed
  <2>2. last.delivered = r.delivered /\ Spoilt(Lines[last.chunk])
    <3>1. <<>> \in Seq(Tokens)
      OBVIOUS
    <3>2. Dispatch(r).delivered = r.delivered /\ Spoilt(Lines[Dispatch(r).chunk])
      BY <1>2, <2>1, <3>1, SpoiltPart
    <3>3. QED
      BY <2>1, <3>2
  <2> HIDE DEF last
  <2>3. QED
    BY <1>2, <1>3, <1>4, <2>2 DEF Jammed, last, r, n
<1>5. CASE ~(torn \/ Tears(n))
  <2>1. r.chunk = <<>>
    BY <1>1, <1>2, <1>5 DEF Whole
  <2>2. last = r
    BY <2>1 DEF Dispatch
  <2> HIDE DEF last
  <2>3. QED
    BY <1>2, <1>3, <1>5, <2>2 DEF last, r, n
<1>6. QED
  BY <1>4, <1>5

-----------------------------------------------------------------------------
\* A message the server sends leaves what has been read as it is.
LEMMA SentStays ==
  ASSUME SSEInv, NEW p \in Payloads, messages' = Append(messages, p),
         UNCHANGED <<progress, chunk, delivered, torn>>
  PROVE  /\ messages' \in Seq(Payloads) /\ Len(Text)' = Len(Text) + 5
         /\ IsPrefix(delivered, messages)'
         /\ ~torn' => Whole(chunk, delivered, progress)'
<1> DEFINE N == Len(messages)
           k == progress \div 5
<1>1. /\ messages \in Seq(Payloads) /\ delivered \in Seq(Payloads) /\ progress \in Nat
      /\ N \in Nat /\ Len(Text) = 5 * N /\ progress <= Len(Text) /\ k \in Nat
  BY TextIs DEF SSEInv, SSETypeOK
<1>2. /\ messages' \in Seq(Payloads) /\ Len(messages') = N + 1
      /\ \A i \in 1 .. N : messages'[i] = messages[i]
  BY <1>1, AppendProperties
<1>3. (messages \in Seq(Payloads) => Len(Text) = 5 * Len(messages))'
  <2>1. messages \in Seq(Payloads) => Len(Text) = 5 * Len(messages)
    BY TextIs
  <2>2. Len(Text)' = 5 * Len(messages')
    BY <1>2 DEF Text
  <2>3. QED
    BY <2>2
<1>4. Len(Text)' = Len(Text) + 5
  BY <1>1, <1>2, <1>3
<1>5. \A i \in 0 .. N : SubSeq(messages', 1, i) = SubSeq(messages, 1, i)
  <2> SUFFICES ASSUME NEW i \in 0 .. N
               PROVE  SubSeq(messages', 1, i) = SubSeq(messages, 1, i)
    OBVIOUS
  <2>1. SubSeq(messages, 1, i) \in Seq(Payloads) /\ Len(SubSeq(messages, 1, i)) = i
        /\ \A m \in 1 .. i : SubSeq(messages, 1, i)[m] = messages[m]
    BY <1>1
  <2>2. SubSeq(messages', 1, i) \in Seq(Payloads) /\ Len(SubSeq(messages', 1, i)) = i
        /\ \A m \in 1 .. i : SubSeq(messages', 1, i)[m] = messages'[m]
    BY <1>1, <1>2
  <2>3. \A m \in 1 .. i : SubSeq(messages', 1, i)[m] = SubSeq(messages, 1, i)[m]
    BY <1>2, <2>1, <2>2
  <2>4. QED
    BY <2>1, <2>2, <2>3, SeqEqual
<1>6. IsPrefix(delivered, messages)'
  <2>1. Len(delivered) \in 0 .. N
        /\ SubSeq(delivered, 1, Len(delivered)) = SubSeq(messages, 1, Len(delivered))
    BY <1>1 DEF SSEInv, IsPrefix
  <2>2. SubSeq(delivered, 1, Len(delivered)) = SubSeq(messages', 1, Len(delivered))
    BY <1>5, <2>1
  <2>3. delivered' = delivered
    OBVIOUS
  <2>4. Len(delivered) <= Len(messages')
    BY <1>1, <1>2, <2>1
  <2>5. QED
    BY <2>2, <2>3, <2>4 DEF IsPrefix
<1>7. ASSUME ~torn' PROVE Whole(chunk, delivered, progress)'
  <2>1. Whole(chunk, delivered, progress)
    BY <1>7 DEF SSEInv
  <2>2. /\ progress % 5 # 0 => k + 1 \in 1 .. N /\ k \in 0 .. N
        /\ progress % 5 \in {0, 4} => (progress + 1) \div 5 \in 0 .. N
    <3> DEFINE r == progress % 5
    <3>1. progress = 5 * k + r /\ r \in 0 .. 4 /\ k <= N
      BY <1>1
    <3>2. r # 0 => k < N
      BY <1>1, <3>1
    <3>3. r = 0 => (progress + 1) \div 5 = k
      BY <1>1
    <3>4. r = 4 => (progress + 1) \div 5 = k + 1
      BY <1>1
    <3> HIDE DEF k, r
    <3>5. r # 0 => k + 1 \in 1 .. N /\ k \in 0 .. N
      BY <1>1, <3>1, <3>2
    <3>6. r \in {0, 4} => (progress + 1) \div 5 \in 0 .. N
      BY <1>1, <3>1, <3>2, <3>3, <3>4
    <3>7. QED
      BY <3>5, <3>6 DEF r
  <2>3. progress % 5 # 0 => messages'[k + 1] = messages[k + 1]
    BY <1>2, <2>2
  <2>4. progress % 5 # 0 => SubSeq(messages', 1, k) = SubSeq(messages, 1, k)
    BY <1>5, <2>2
  <2>5. progress % 5 \in {0, 4} =>
          SubSeq(messages', 1, (progress + 1) \div 5) = SubSeq(messages, 1, (progress + 1) \div 5)
    BY <1>5, <2>2
  <2>6. QED
    BY <2>1, <2>3, <2>4, <2>5 DEF Whole
<1>8. QED
  BY <1>2, <1>4, <1>6, <1>7

\* The invariant holds at first ...
LEMMA SSEInvInit ==
  SSEInit => SSEInv
<1> SUFFICES ASSUME SSEInit PROVE SSEInv
  OBVIOUS
<1>1. SSETypeOK
  <2>1. <<>> \in Seq(Payloads) /\ <<>> \in Seq(Tokens)
    OBVIOUS
  <2>2. readyState = "INITIALIZING" <=> request = "none"
    BY DEF SSEInit
  <2>3. QED
    BY <2>1, <2>2 DEF SSEInit, SSETypeOK
<1>2. Len(Text) \in Nat /\ progress <= Len(Text) /\ progress % 5 = 0 /\ (progress + 1) \div 5 = 0
  BY <1>1, TextIs DEF SSEInit, SSETypeOK
<1>3. IsPrefix(delivered, messages)
  BY DEF SSEInit, IsPrefix
<1>4. SubSeq(messages, 1, 0) = <<>>
  BY DEF SSEInit
<1>5. Whole(chunk, delivered, progress)
  BY <1>2, <1>4 DEF SSEInit, Whole
<1>6. QED
  BY <1>1, <1>2, <1>3, <1>5 DEF SSEInit, SSEInv

\* ... and is kept by every step.
LEMMA SSEInvNext ==
  ASSUME SSEInv, [SSENext]_sseVars
  PROVE  SSEInv'
<1>1. ASSUME UNCHANGED <<messages, progress, chunk, delivered, torn>>, SSETypeOK',
             (request = "loading" => xhr)'
      PROVE  SSEInv'
  BY <1>1 DEF SSEInv, Whole, Jammed, Text, IsPrefix
<1>2. CASE Stream
  <2>1. SSETypeOK' /\ (request = "loading" => xhr)'
    BY <1>2 DEF Stream, SSEInv, SSETypeOK
  <2>2. QED
    BY <1>1, <1>2, <2>1 DEF Stream
<1>3. CASE Close
  <2>1. SSETypeOK' /\ (request = "loading" => xhr)'
    BY <1>3 DEF Close, close, SSEInv, SSETypeOK
  <2>2. QED
    BY <1>1, <1>3, <2>1 DEF Close
<1>4. CASE Complete
  <2>1. SSETypeOK' /\ (request = "loading" => xhr)'
    BY <1>4 DEF Complete, SSEInv, SSETypeOK
  <2>2. QED
    BY <1>1, <1>4, <2>1 DEF Complete
<1>5. CASE onStreamFailure
  <2>1. SSETypeOK' /\ (request = "loading" => xhr)'
    BY <1>5 DEF onStreamFailure, close, SSEInv, SSETypeOK
  <2>2. QED
    BY <1>1, <1>5, <2>1 DEF onStreamFailure
<1>6. CASE UNCHANGED sseVars
  <2>1. SSETypeOK' /\ (request = "loading" => xhr)'
    BY <1>6 DEF sseVars, SSEInv, SSETypeOK
  <2>2. QED
    BY <1>1, <1>6, <2>1 DEF sseVars
<1>7. CASE \E p \in Payloads : Send(p)
  <2>1. PICK p \in Payloads : Send(p)
    BY <1>7
  <2>2. /\ messages' = Append(messages, p)
        /\ UNCHANGED <<readyState, xhr, request, ended, progress, chunk, delivered, torn>>
    BY <2>1 DEF Send
  <2>3. /\ messages' \in Seq(Payloads) /\ Len(Text)' = Len(Text) + 5
        /\ IsPrefix(delivered, messages)'
        /\ ~torn' => Whole(chunk, delivered, progress)'
    BY <2>2, SentStays
  <2>4. SSETypeOK'
    BY <2>2, <2>3 DEF SSEInv, SSETypeOK
  <2>5. progress' <= Len(Text)'
    <3>1. progress \in Nat /\ progress <= Len(Text) /\ Len(Text) \in Nat
      BY TextIs DEF SSEInv, SSETypeOK
    <3>2. QED
      BY <2>2, <2>3, <3>1
  <2>6. torn' => Jammed(chunk, progress)'
    BY <2>2 DEF SSEInv, Jammed
  <2>7. QED
    BY <2>2, <2>3, <2>4, <2>5, <2>6 DEF SSEInv
<1>8. CASE \E n \in 1 .. Len(Text) : onStreamProgress(n)
  <2>1. PICK n \in 1 .. Len(Text) : onStreamProgress(n)
    BY <1>8
  <2>2. /\ request = "loading" /\ n > progress /\ progress \in Nat /\ n \in progress .. Len(Text)
        /\ n \in Nat /\ Len(Text) \in Nat
    BY <2>1, TextIs DEF onStreamProgress, SSEInv, SSETypeOK
  <2>3. /\ Read(n) \in Reading
        /\ IsPrefix(Read(n).delivered, messages)
        /\ torn \/ Tears(n) => Jammed(Read(n).chunk, n)
        /\ ~(torn \/ Tears(n)) => Whole(Read(n).chunk, Read(n).delivered, n)
    BY <2>2, ReadInv
  <2>4. /\ progress' = n /\ chunk' = Read(n).chunk
        /\ delivered' = Read(n).delivered /\ torn' = (torn \/ Tears(n))
        /\ UNCHANGED <<messages, ended>>
    BY <2>1 DEF onStreamProgress
  <2>12. /\ readyState' \in {"CONNECTING", "OPEN", "CLOSED"} /\ xhr' \in BOOLEAN
         /\ request' \in {"loading", "done"} /\ (request = "loading" => xhr)'
    BY <2>1, <2>2 DEF onStreamProgress, close, SSEInv, SSETypeOK
  <2>5. Read(n).chunk \in Seq(Tokens) /\ Read(n).delivered \in Seq(Payloads)
    BY <2>3 DEF Reading
  <2>6. SSETypeOK'
    BY <2>2, <2>4, <2>5, <2>12 DEF SSEInv, SSETypeOK, Tears
  <2>7. progress' <= Len(Text)'
    BY <2>2, <2>4 DEF Text
  <2>8. IsPrefix(delivered, messages)'
    BY <2>3, <2>4 DEF IsPrefix
  <2>9. torn' => Jammed(chunk, progress)'
    BY <2>3, <2>4 DEF Jammed
  <2>10. ~torn' => Whole(chunk, delivered, progress)'
    BY <2>3, <2>4 DEF Whole
  <2>11. QED
    BY <2>6, <2>7, <2>8, <2>9, <2>10, <2>12 DEF SSEInv
<1>9. CASE onStreamLoaded
  <2> DEFINE n == Len(Text)
             r == Read(n)
             last == IF r.thrown THEN r ELSE Dispatch(r)
  <2>1. request = "loading" /\ xhr /\ n \in Nat
    BY <1>9, TextIs DEF onStreamLoaded, SSEInv, SSETypeOK
  <2>2. /\ last \in Reading /\ IsPrefix(last.delivered, messages)
        /\ torn \/ Tears(n) => Jammed(last.chunk, n)
        /\ ~(torn \/ Tears(n)) => Whole(last.chunk, last.delivered, n)
    BY <2>1, RestPassed
  <2>3. /\ progress' = n /\ readyState' = "CLOSED" /\ request' = "done" /\ chunk' = last.chunk
        /\ delivered' = last.delivered /\ torn' = (torn \/ Tears(n))
        /\ UNCHANGED <<xhr, messages, ended>>
    BY <1>9, <2>1 DEF onStreamLoaded
  <2>4. n' = n
    BY <2>3 DEF Text
  <2> HIDE DEF last, n
  <2>5. last.chunk \in Seq(Tokens) /\ last.delivered \in Seq(Payloads)
    BY <2>2 DEF Reading
  <2>6. SSETypeOK'
    BY <2>1, <2>3, <2>5 DEF SSEInv, SSETypeOK, Tears
  <2>7. progress' <= Len(Text)'
    BY <2>1, <2>3, <2>4 DEF n
  <2>8. IsPrefix(delivered, messages)'
    BY <2>2, <2>3 DEF IsPrefix
  <2>9. torn' => Jammed(chunk, progress)'
    BY <2>2, <2>3 DEF Jammed
  <2>10. ~torn' => Whole(chunk, delivered, progress)'
    BY <2>2, <2>3 DEF Whole
  <2>11. QED
    BY <2>3, <2>6, <2>7, <2>8, <2>9, <2>10 DEF SSEInv
<1>10. QED
  BY <1>2, <1>3, <1>4, <1>5, <1>6, <1>7, <1>8, <1>9 DEF SSENext

\* It says that messages arrive whole.
LEMMA SSEInvWhole ==
  SSEInv => MessagesArriveWhole
<1> SUFFICES ASSUME SSEInv PROVE MessagesArriveWhole
  OBVIOUS
<1> DEFINE k == progress \div 5
<1>1. /\ messages \in Seq(Payloads) /\ progress \in Nat /\ progress <= Len(Text)
      /\ Len(messages) \in Nat /\ Len(Text) = 5 * Len(messages) /\ k \in Nat
  BY TextIs DEF SSEInv, SSETypeOK
<1>2. ASSUME ~torn
      PROVE  \E m \in k .. Len(messages) : /\ delivered = SubSeq(messages, 1, m)
                                           /\ progress = Len(Text) => m = Len(messages)
  <2>1. Whole(chunk, delivered, progress)
    BY <1>2 DEF SSEInv
  <2>2. CASE progress % 5 \in {0, 4} /\ delivered = SubSeq(messages, 1, (progress + 1) \div 5)
    <3>1. /\ (progress + 1) \div 5 \in k .. Len(messages)
          /\ progress = Len(Text) => (progress + 1) \div 5 = Len(messages)
      BY <1>1, <2>2
    <3>2. QED
      BY <2>2, <3>1
  <2>3. CASE progress % 5 # 0 /\ delivered = SubSeq(messages, 1, k)
    <3>1. k \in k .. Len(messages) /\ progress # Len(Text)
      BY <1>1, <2>3
    <3>2. QED
      BY <2>3, <3>1
  <2>4. QED
    BY <2>1, <2>2, <2>3 DEF Whole
<1>3. ASSUME ~torn
      PROVE  Len(delivered) >= k /\ (progress = Len(Text) => delivered = messages)
  <2>1. PICK m \in k .. Len(messages) : /\ delivered = SubSeq(messages, 1, m)
                                        /\ progress = Len(Text) => m = Len(messages)
    BY <1>2, <1>3
  <2>2. Len(SubSeq(messages, 1, m)) = m
    BY <1>1
  <2>3. SubSeq(messages, 1, Len(messages)) = messages
    BY <1>1, SubSeqFull
  <2>4. Len(delivered) >= k
    BY <1>1, <2>1, <2>2
  <2>5. progress = Len(Text) => delivered = messages
    BY <2>1, <2>3
  <2>6. QED
    BY <2>4, <2>5
<1>4. QED
  BY <1>3 DEF MessagesArriveWhole, SSEInv

\* No step hands out a message after a tear.
LEMMA TornNext ==
  ASSUME SSEInv, [SSENext]_sseVars, torn
  PROVE  delivered' = delivered
<1>1. CASE \E n \in 1 .. Len(Text) : onStreamProgress(n)
  <2>1. PICK n \in 1 .. Len(Text) : onStreamProgress(n)
    BY <1>1
  <2>2. n > progress /\ n \in progress .. Len(Text) /\ delivered' = Read(n).delivered
    BY <2>1, TextIs DEF onStreamProgress, SSEInv, SSETypeOK
  <2>3. QED
    BY <2>2, ReadInv
<1>2. CASE onStreamLoaded
  <2>1. request = "loading" /\ xhr
    BY <1>2 DEF onStreamLoaded, SSEInv
  <2>2. QED
    BY <1>2, <2>1, RestPassed DEF onStreamLoaded
<1>3. CASE ~(\E n \in 1 .. Len(Text) : onStreamProgress(n)) /\ ~onStreamLoaded
  BY <1>3 DEF SSENext, Stream, Close, Complete, Send, onStreamFailure, sseVars
<1>4. QED
  BY <1>1, <1>2, <1>3

\* The invariant holds always.
LEMMA SSEInvAlways ==
  SSESpec => []SSEInv
<1>1. SSEInv /\ [SSENext]_sseVars => SSEInv'
  BY SSEInvNext
<1>2. QED
  BY SSEInvInit, <1>1, PTL DEF SSESpec

(***************************************************************************)
(* The event source's variables have their types: what the page is handed  *)
(* are messages, the buffer is text, and a request is there from stream()  *)
(* on.                                                                     *)
(***************************************************************************)
THEOREM SSETypeCorrect ==
  SSESpec => []SSETypeOK
<1>1. SSEInv => SSETypeOK
  BY DEF SSEInv
<1>2. QED
  BY SSEInvAlways, <1>1, PTL

(***************************************************************************)
(* However the network cuts the response, the page is handed the messages  *)
(* sent, in order, none twice; unless a cut tears the end of one, each as  *)
(* soon as it has been read.                                               *)
(***************************************************************************)
THEOREM WholeMessages ==
  SSESpec => []MessagesArriveWhole
<1>1. QED
  BY SSEInvAlways, SSEInvWhole, PTL

(***************************************************************************)
(* After a torn end of a message the page is handed nothing more.          *)
(***************************************************************************)
THEOREM TornIsSilent ==
  SSESpec => TornStreamsStaySilent
<1>1. SSEInv /\ [SSENext]_sseVars => [torn => delivered' = delivered]_sseVars
  BY TornNext
<1>2. QED
  BY SSEInvAlways, <1>1, PTL DEF SSESpec, TornStreamsStaySilent

-----------------------------------------------------------------------------
(***************************************************************************)
(* readyState and the request are two variables that different handlers    *)
(* set: no source is closed whose request goes on, so that neither load    *)
(* nor a progress event comes any more.                                    *)
(***************************************************************************)
ClosedIsDone == readyState = "CLOSED" => request = "done"

\* Every handler that closes the source ends its request, and no request
\* begins anew.
LEMMA ClosedIsDoneNext ==
  ASSUME ClosedIsDone, [SSENext]_sseVars
  PROVE  ClosedIsDone'
<1>1. CASE Stream
  BY <1>1 DEF Stream, ClosedIsDone
<1>2. CASE Close \/ onStreamLoaded \/ onStreamFailure
  BY <1>2 DEF Close, close, onStreamLoaded, onStreamFailure, ClosedIsDone
<1>3. CASE Complete \/ \E p \in Payloads : Send(p)
  BY <1>3 DEF Complete, Send, ClosedIsDone
<1>4. CASE \E n \in 1 .. Len(Text) : onStreamProgress(n)
  BY <1>4 DEF onStreamProgress, close, ClosedIsDone
<1>5. CASE UNCHANGED sseVars
  BY <1>5 DEF sseVars, ClosedIsDone
<1>6. QED
  BY <1>1, <1>2, <1>3, <1>4, <1>5 DEF SSENext

\* No handler of a closed source hands out anything.
LEMMA SilentNext ==
  ASSUME ClosedIsDone, [SSENext]_sseVars
  PROVE  readyState = "CLOSED" => readyState' = "CLOSED" /\ delivered' = delivered
<1> SUFFICES ASSUME readyState = "CLOSED"
             PROVE  readyState' = "CLOSED" /\ delivered' = delivered
  OBVIOUS
<1>1. request = "done"
  BY DEF ClosedIsDone
<1>2. CASE Complete \/ \E p \in Payloads : Send(p)
  BY <1>2 DEF Complete, Send
<1>3. CASE UNCHANGED sseVars
  BY <1>3 DEF sseVars
<1>4. QED
  BY <1>1, <1>2, <1>3 DEF SSENext, Stream, Close, onStreamLoaded, onStreamFailure,
                          onStreamProgress

(***************************************************************************)
(* Once the handler is over in which the page has closed a source, or the  *)
(* connection has broken, the page is handed nothing more by it, however   *)
(* much of the response was on its way or in the buffer.                   *)
(***************************************************************************)
THEOREM ClosedSourcesStaySilent == SSESpec => ClosedSourcesAreSilent
<1>1. SSEInit => ClosedIsDone
  BY DEF SSEInit, ClosedIsDone
<1>2. ClosedIsDone /\ [SSENext]_sseVars => ClosedIsDone'
  BY ClosedIsDoneNext
<1>3. ClosedIsDone /\ [SSENext]_sseVars =>
        [readyState = "CLOSED" => readyState' = "CLOSED" /\ delivered' = delivered]_sseVars
  BY SilentNext
<1>4. QED
  BY <1>1, <1>2, <1>3, PTL DEF SSESpec, ClosedSourcesAreSilent

=============================================================================
