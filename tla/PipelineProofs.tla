--------------------------- MODULE PipelineProofs ---------------------------
(***************************************************************************)
(* The response coordinator implements the FIFO pipeline of                *)
(* PipelinedResponses, for every ring size and every number of request     *)
(* ids: whatever handlers append and whenever the connection pops, merging *)
(* write groups and reusing slots of the ring cannot be seen from outside. *)
(***************************************************************************)
EXTENDS ResponseCoordinatorProofs, WellFoundedInduction

-----------------------------------------------------------------------------
(* What FlattenSeq computes *)

\* Induction over the naturals for a set instead of a predicate: the least
\* number outside T would have a predecessor in T.
LEMMA SetInduction ==
  ASSUME NEW T, 0 \in T, \A n \in Nat : n \in T => n + 1 \in T
  PROVE  Nat \subseteq T
<1> DEFINE U == Nat \ T
           R == OpToRel(<, Nat)
<1>1. SUFFICES ASSUME U # {} PROVE FALSE
  OBVIOUS
<1>2. IsWellFoundedOn(R, Nat)
  BY NatLessThanWellFounded
<1>3. \A m, n \in Nat : m < n => <<m, n>> \in R
  BY DEF OpToRel
<1> HIDE DEF R
<1>4. PICK n \in U : \A m \in U : ~ (<<m, n>> \in R)
  BY <1>1, <1>2, WFMin, Zenon
<1>5. n \in Nat /\ n # 0 /\ n - 1 \in Nat /\ n - 1 < n /\ (n - 1) + 1 = n
  OBVIOUS
<1>6. n - 1 \in T
  BY <1>3, <1>4, <1>5, Zenon
<1> QED
  BY <1>4, <1>5, <1>6

\* f[i] is the concatenation of the first i sequences of ss.
Partial(f, ss, S) ==
  /\ f \in [0 .. Len(ss) -> Seq(S)]
  /\ f[0] = <<>>
  /\ \A i \in 1 .. Len(ss) : f[i] = f[i - 1] \o ss[i]

\* The partial concatenations exist.
LEMMA PartialExists ==
  ASSUME NEW S, NEW ss \in Seq(Seq(S))
  PROVE  \E f : Partial(f, ss, S)
<1> DEFINE Q == Seq(S)
           m == Len(ss)
           P(n, f) == /\ f \in [0 .. n -> Q] /\ f[0] = <<>>
                      /\ \A i \in 1 .. n : f[i] = f[i - 1] \o ss[i]
           T == {n \in Nat : n <= m => \E f : P(n, f)}
<1>a. m \in Nat /\ \A i \in 1 .. m : ss[i] \in Q
  BY LenProperties, ElementOfSeq
<1>b. <<>> \in Q /\ \A s, t \in Q : s \o t \in Q
  BY EmptySeq, ConcatProperties
<1>c. \A n \in Nat : n \in T <=> (n <= m => \E f : P(n, f))
  OBVIOUS
<1> HIDE DEF Q, m, P, T
<1>1. 0 \in T
  <2>1. P(0, [i \in 0 .. 0 |-> <<>>])
    BY <1>b DEF P
  <2> QED
    BY <1>c, <2>1
<1>2. ASSUME NEW n \in Nat, n \in T PROVE n + 1 \in T
  <2>1. SUFFICES ASSUME n + 1 <= m PROVE \E f : P(n + 1, f)
    BY <1>c
  <2>2. PICK f : P(n, f)
    BY <1>2, <1>a, <1>c, <2>1
  <2>3. /\ f \in [0 .. n -> Q] /\ f[0] = <<>>
        /\ \A i \in 1 .. n : f[i] = f[i - 1] \o ss[i]
    BY <2>2 DEF P
  <2> DEFINE v == f[n] \o ss[n + 1]
             h == [i \in 0 .. n + 1 |-> IF i = n + 1 THEN v ELSE f[i]]
  <2>4. ss[n + 1] \in Q /\ f[n] \in Q
    BY <1>a, <2>1, <2>3
  <2>5. v \in Q
    BY <1>b, <2>4
  <2> HIDE DEF v
  <2>6. h \in [0 .. n + 1 -> Q]
    BY <2>3, <2>5
  <2>7. h[0] = <<>>
    BY <2>3
  <2>8. ASSUME NEW i \in 1 .. n + 1 PROVE h[i] = h[i - 1] \o ss[i]
    <3>1. CASE i = n + 1
      <4>1. h[i] = v /\ h[i - 1] = f[n]
        BY <3>1
      <4> QED
        BY <3>1, <4>1 DEF v
    <3>2. CASE i # n + 1
      <4>1. i \in 1 .. n /\ i - 1 \in 0 .. n
        BY <3>2
      <4>2. h[i] = f[i] /\ h[i - 1] = f[i - 1]
        BY <4>1
      <4> QED
        BY <2>3, <4>1, <4>2, Zenon
    <3> QED
      BY <3>1, <3>2, Zenon
  <2>9. P(n + 1, h)
    BY <2>6, <2>7, <2>8, Zenon DEF P
  <2> QED
    BY <2>9
<1>3. Nat \subseteq T
  BY <1>1, <1>2, SetInduction, Zenon
<1>4. m \in T
  BY <1>3, <1>a
<1>5. PICK f : P(m, f)
  BY <1>4, <1>a, <1>c
<1> QED
  BY <1>5, Zenon DEF Partial, P, Q, m

\* FlattenSeq is the last of the partial concatenations.
LEMMA FlattenPartial ==
  ASSUME NEW S, NEW ss \in Seq(Seq(S)), ss # <<>>, NEW f, Partial(f, ss, S)
  PROVE  FlattenSeq(ss) = f[Len(ss)]
<1> DEFINE m == Len(ss)
           D(g) == [i \in 1 .. m |-> IF i = 1 THEN ss[i] ELSE g[i - 1] \o ss[i]]
           flatten == CHOOSE g : g = D(g)
           h == [i \in 1 .. m |-> f[i]]
<1>a. m \in Nat /\ m # 0 /\ \A i \in 1 .. m : ss[i] \in Seq(S)
  BY LenProperties, ElementOfSeq, EmptySeq
<1>b. /\ f[0] = <<>>
      /\ \A i \in 1 .. m : f[i] = f[i - 1] \o ss[i]
  BY Zenon DEF Partial
<1>c. f[1] = ss[1]
  <2>1. 1 \in 1 .. m /\ 1 - 1 = 0
    BY <1>a
  <2>2. f[1] = <<>> \o ss[1] /\ ss[1] \in Seq(S)
    BY <1>a, <1>b, <2>1, Zenon
  <2> QED
    BY <2>2, ConcatEmptySeq
<1>4. FlattenSeq(ss) = flatten[m]
  BY <1>a DEF FlattenSeq
<1> HIDE DEF m
<1>1. h = D(h)
  <2>1. ASSUME NEW i \in 1 .. m
        PROVE  h[i] = IF i = 1 THEN ss[i] ELSE h[i - 1] \o ss[i]
    <3>2. CASE i = 1
      BY <1>a, <1>c, <3>2
    <3>3. CASE i # 1
      <4>1. i - 1 \in 1 .. m
        BY <1>a, <3>3
      <4>2. h[i] = f[i] /\ h[i - 1] = f[i - 1]
        BY <4>1
      <4> QED
        BY <1>b, <3>3, <4>2, Zenon
    <3> QED
      BY <3>2, <3>3
  <2> QED
    BY <2>1
<1>3. flatten = D(flatten)
  BY <1>1, Zenon
<1>5. \A i \in 1 .. m : flatten[i] = IF i = 1 THEN ss[i] ELSE flatten[i - 1] \o ss[i]
  BY <1>3, Zenon
<1> HIDE DEF flatten
<1> DEFINE T == {n \in Nat : n + 1 <= m => flatten[n + 1] = f[n + 1]}
<1>6. 0 \in T
  <2>1. 1 \in 1 .. m /\ 0 + 1 = 1 
    BY <1>a
  <2>2. flatten[1] = ss[1]
    BY <1>5, <2>1
  <2> QED
    BY <1>c, <2>1, <2>2
<1>7. ASSUME NEW n \in Nat, n \in T PROVE n + 1 \in T
  <2>1. SUFFICES ASSUME (n + 1) + 1 <= m PROVE flatten[(n + 1) + 1] = f[(n + 1) + 1]
    OBVIOUS
  <2>2. /\ (n + 1) + 1 \in 1 .. m /\ (n + 1) + 1 # 1 /\ ((n + 1) + 1) - 1 = n + 1
        /\ n + 1 <= m
    BY <1>a, <2>1
  <2>3. flatten[n + 1] = f[n + 1]
    BY <1>7, <2>2
  <2> DEFINE j == (n + 1) + 1
  <2>4. flatten[j] = flatten[j - 1] \o ss[j]
    BY <1>5, <2>2, Zenon
  <2>5. f[j] = f[j - 1] \o ss[j]
    BY <1>b, <2>2, Zenon
  <2> QED
    BY <2>2, <2>3, <2>4, <2>5, Zenon
<1>8. Nat \subseteq T
  <2> HIDE DEF T
  <2> QED
    BY <1>6, <1>7, SetInduction, Zenon
<1>9. m - 1 \in Nat /\ (m - 1) + 1 = m
  BY <1>a
<1>10. flatten[m] = f[m]
  BY <1>8, <1>9, <1>a
<1> QED
  BY <1>4, <1>10 DEF m
\* Flattening nothing gives nothing.
LEMMA FlattenEmpty == FlattenSeq(<<>>) = <<>>
BY DEF FlattenSeq

\* Flattening sequences over S gives a sequence over S.
LEMMA FlattenIsSeq ==
  ASSUME NEW S, NEW ss \in Seq(Seq(S))
  PROVE  FlattenSeq(ss) \in Seq(S)
<1>1. CASE ss = <<>>
  BY <1>1, FlattenEmpty, EmptySeq, Zenon
<1>2. CASE ss # <<>>
  <2>1. PICK f : Partial(f, ss, S)
    BY PartialExists
  <2>2. Len(ss) \in 0 .. Len(ss)
    BY LenProperties
  <2> QED
    BY <1>2, <2>1, <2>2, FlattenPartial, Zenon DEF Partial
<1> QED
  BY <1>1, <1>2

\* A sequence appended to the list ends up at the end.
LEMMA FlattenAppend ==
  ASSUME NEW S, NEW ss \in Seq(Seq(S)), NEW s \in Seq(S)
  PROVE  FlattenSeq(Append(ss, s)) = FlattenSeq(ss) \o s
<1> DEFINE tt == Append(ss, s)
           m == Len(ss)
<1>1. PICK f : Partial(f, ss, S)
  BY PartialExists
<1>2. FlattenSeq(ss) = f[m]
  <2>1. CASE ss = <<>>
    BY <1>1, <2>1, FlattenEmpty, EmptySeq DEF Partial
  <2>2. CASE ss # <<>>
    BY <1>1, <2>2, FlattenPartial
  <2> QED
    BY <2>1, <2>2
<1>3. /\ tt \in Seq(Seq(S)) /\ tt # <<>> /\ Len(tt) = m + 1 /\ m \in Nat
      /\ \A i \in 1 .. m : tt[i] = ss[i]
      /\ tt[m + 1] = s
  BY AppendProperties, LenProperties
<1>4. /\ f \in [0 .. m -> Seq(S)] /\ f[0] = <<>>
      /\ \A i \in 1 .. m : f[i] = f[i - 1] \o ss[i]
  BY <1>1, Zenon DEF Partial
<1> DEFINE v == f[m] \o s
           h == [i \in 0 .. m + 1 |-> IF i = m + 1 THEN v ELSE f[i]]
<1>5. v \in Seq(S)
  <2>1. f[m] \in Seq(S)
    BY <1>3, <1>4
  <2> QED
    BY <2>1, ConcatProperties
<1> HIDE DEF tt, m
<1>6. Partial(h, tt, S)
  <2>1. h \in [0 .. m + 1 -> Seq(S)]
    <3> HIDE DEF v
    <3> QED
      BY <1>3, <1>4, <1>5
  <2>2. h[0] = <<>>
    BY <1>3, <1>4
  <2>3. ASSUME NEW i \in 1 .. m + 1 PROVE h[i] = h[i - 1] \o tt[i]
    <3>1. CASE i = m + 1
      <4>1. h[i] = v /\ h[i - 1] = f[m]
        BY <1>3, <3>1, SMTT(30)
      <4> QED
        BY <1>3, <3>1, <4>1, Zenon
    <3>2. CASE i # m + 1
      <4>1. i \in 1 .. m /\ i - 1 \in 0 .. m
        BY <1>3, <3>2
      <4>2. h[i] = f[i] /\ h[i - 1] = f[i - 1]
        BY <1>3, <4>1
      <4> QED
        BY <1>3, <1>4, <4>1, <4>2, Zenon
    <3> QED
      BY <3>1, <3>2
  <2> QED
    BY <1>3, <2>1, <2>2, <2>3 DEF Partial
<1>7. FlattenSeq(tt) = h[m + 1]
  BY <1>3, <1>6, FlattenPartial, Zenon
<1>8. h[m + 1] = v
  BY <1>3
<1> QED
  BY <1>2, <1>7, <1>8, Zenon DEF tt

\* The first sequence of the list comes first.
LEMMA FlattenHead ==
  ASSUME NEW S, NEW ss \in Seq(Seq(S)), ss # <<>>
  PROVE  FlattenSeq(ss) = Head(ss) \o FlattenSeq(Tail(ss))
<1> DEFINE tt == Tail(ss)
           m == Len(tt)
           s == Head(ss)
<1>1. /\ s \in Seq(S) /\ tt \in Seq(Seq(S)) /\ m \in Nat /\ Len(ss) = m + 1
      /\ \A i \in 1 .. m : tt[i] = ss[i + 1]
      /\ \A i \in 1 .. m : tt[i] \in Seq(S)
      /\ ss[1] = s
  BY HeadTailProperties, LenProperties, ElementOfSeq
<1>2. PICK f : Partial(f, tt, S)
  BY <1>1, PartialExists, Zenon
<1>3. FlattenSeq(tt) = f[m]
  <2>1. CASE tt = <<>>
    BY <1>2, <2>1, FlattenEmpty, EmptySeq, Zenon DEF Partial
  <2>2. CASE tt # <<>>
    BY <1>1, <1>2, <2>2, FlattenPartial, Zenon
  <2> QED
    BY <2>1, <2>2
<1>4. /\ f \in [0 .. m -> Seq(S)] /\ f[0] = <<>>
      /\ \A i \in 1 .. m : f[i] = f[i - 1] \o tt[i]
  BY <1>2, Zenon DEF Partial
<1> HIDE DEF tt, m, s
<1> DEFINE h == [i \in 0 .. m + 1 |-> IF i = 0 THEN <<>> ELSE s \o f[i - 1]]
<1>5. \A i \in 1 .. m + 1 : s \o f[i - 1] \in Seq(S) /\ f[i - 1] \in Seq(S)
  <2>1. \A i \in 1 .. m + 1 : f[i - 1] \in Seq(S)
    BY <1>1, <1>4
  <2> QED
    BY <1>1, <2>1, ConcatProperties
<1>6. Partial(h, ss, S)
  <2>1. h \in [0 .. m + 1 -> Seq(S)]
    <3>1. ASSUME NEW i \in 0 .. m + 1
          PROVE  (IF i = 0 THEN <<>> ELSE s \o f[i - 1]) \in Seq(S)
      <4>1. i = 0 \/ i \in 1 .. m + 1
        BY <1>1
      <4> QED
        BY <1>5, <4>1, EmptySeq
    <3> QED
      BY <3>1
  <2>2. h[0] = <<>>
    BY <1>1
  <2>3. ASSUME NEW i \in 1 .. m + 1 PROVE h[i] = h[i - 1] \o ss[i]
    <3>1. CASE i = 1
      <4>1. h[i] = s \o f[0] /\ h[i - 1] = <<>> /\ ss[i] = s
        BY <1>1, <3>1
      <4>2. s \o f[0] = s /\ <<>> \o s = s
        BY <1>1, <1>4, ConcatEmptySeq
      <4> QED
        BY <4>1, <4>2, Zenon
    <3>2. CASE i # 1
      <4>1. i - 1 \in 1 .. m /\ i - 1 \in 0 .. m /\ (i - 1) - 1 \in 0 .. m
            /\ i \in 1 .. m + 1 /\ i - 1 \in 1 .. m + 1 /\ (i - 1) + 1 = i
        BY <1>1, <3>2
      <4>2. h[i] = s \o f[i - 1] /\ h[i - 1] = s \o f[(i - 1) - 1]
        <5>1. \A j \in 1 .. m + 1 : h[j] = s \o f[j - 1]
          BY <1>1, SMTT(30)
        <5> HIDE DEF h
        <5> QED
          BY <4>1, <5>1, SMTT(30)
      <4>3. f[i - 1] = f[(i - 1) - 1] \o tt[i - 1] /\ tt[i - 1] = ss[i]
        BY <1>1, <1>4, <4>1, Zenon
      <4>4. tt[i - 1] \in Seq(S) /\ f[(i - 1) - 1] \in Seq(S)
        BY <1>1, <1>4, <4>1, Zenon
      <4>5. (s \o f[(i - 1) - 1]) \o tt[i - 1] = s \o (f[(i - 1) - 1] \o tt[i - 1])
        <5>1. s \in Seq(S)
          BY <1>1
        <5>2. \A a, b \in Seq(S) : (s \o a) \o b = s \o (a \o b)
          BY ONLY <5>1, SMTT(30)
        <5> DEFINE a == f[(i - 1) - 1]
                   b == tt[i - 1]
        <5>3. a \in Seq(S) /\ b \in Seq(S)
          BY <4>4
        <5> HIDE DEF a, b
        <5>4. (s \o a) \o b = s \o (a \o b)
          BY ONLY <5>1, <5>2, <5>3, SMTT(30)
        <5> QED
          BY <5>4 DEF a, b
      <4> QED
        BY <4>2, <4>3, <4>5, Zenon
    <3> QED
      BY <3>1, <3>2, Zenon
  <2> QED
    BY <1>1, <2>1, <2>2, <2>3, Zenon DEF Partial
<1>7. FlattenSeq(ss) = h[m + 1]
  BY <1>1, <1>6, FlattenPartial, Zenon
<1>8. h[m + 1] = s \o f[m]
  BY <1>1, SMTT(30)
<1> QED
  BY <1>3, <1>7, <1>8, Zenon DEF tt, s

-----------------------------------------------------------------------------
(* The items of the groups of a context, one after the other *)

\* The list that FlatItems flattens is a list of sequences of items.
LEMMA ItemListType ==
  ASSUME NEW groups \in Seq(Group)
  PROVE  LET ss == [g \in DOMAIN groups |-> groups[g].items] IN
         /\ ss \in Seq(Seq(Item)) /\ Len(ss) = Len(groups)
         /\ \A g \in 1 .. Len(groups) : ss[g] = groups[g].items
         /\ FlatItems(groups) = FlattenSeq(ss)
<1> DEFINE ss == [g \in DOMAIN groups |-> groups[g].items]
           Q  == Seq(Item)
<1>1. Len(groups) \in Nat /\ DOMAIN groups = 1 .. Len(groups)
  BY LenProperties
<1>2. \A g \in 1 .. Len(groups) : groups[g].items \in Q
  <2>1. \A g \in 1 .. Len(groups) : groups[g] \in Group
    BY ElementOfSeq
  <2> QED
    BY <2>1 DEF Group
<1> HIDE DEF Q
<1>3. ss \in [1 .. Len(groups) -> Q]
  BY <1>1, <1>2
<1>4. ss \in Seq(Q) /\ Len(ss) = Len(groups)
  BY <1>1, <1>3
<1> QED
  BY <1>1, <1>4 DEF Q, FlatItems

\* The items of a context are a sequence of items; no groups, no items.
LEMMA FlatItemsType ==
  ASSUME NEW groups \in Seq(Group)
  PROVE  FlatItems(groups) \in Seq(Item)
BY ItemListType, FlattenIsSeq, Zenon

\* Of no groups there are no items.
LEMMA FlatItemsEmpty == FlatItems(<<>>) = <<>>
<1>1. [g \in DOMAIN <<>> |-> <<>>[g].items] = <<>>
  OBVIOUS
<1> QED
  BY <1>1, FlattenEmpty DEF FlatItems

\* A group that becomes one of its own adds its items at the end.
LEMMA FlatItemsAppend ==
  ASSUME NEW groups \in Seq(Group), NEW wg \in Group
  PROVE  FlatItems(Append(groups, wg)) = FlatItems(groups) \o wg.items
<1> DEFINE ss == [g \in DOMAIN groups |-> groups[g].items]
           more == Append(groups, wg)
           tt == [g \in DOMAIN more |-> more[g].items]
<1>1. /\ more \in Seq(Group) /\ Len(more) = Len(groups) + 1
      /\ \A i \in 1 .. Len(groups) : more[i] = groups[i]
      /\ more[Len(groups) + 1] = wg
  BY AppendProperties
<1>2. /\ ss \in Seq(Seq(Item)) /\ Len(ss) = Len(groups)
      /\ \A g \in 1 .. Len(groups) : ss[g] = groups[g].items
      /\ FlatItems(groups) = FlattenSeq(ss)
  BY ItemListType
<1>3. /\ tt \in Seq(Seq(Item)) /\ Len(tt) = Len(more)
      /\ \A g \in 1 .. Len(more) : tt[g] = more[g].items
      /\ FlatItems(more) = FlattenSeq(tt)
  BY <1>1, ItemListType, Zenon
<1>4. wg.items \in Seq(Item) /\ Len(groups) \in Nat
  BY LenProperties DEF Group
<1> DEFINE Q == Seq(Item)
           uu == Append(ss, wg.items)
<1> HIDE DEF ss, tt, more, Q
<1>5. /\ uu \in Seq(Q) /\ Len(uu) = Len(groups) + 1
      /\ \A i \in 1 .. Len(groups) : uu[i] = ss[i]
      /\ uu[Len(groups) + 1] = wg.items
  BY <1>2, <1>4, AppendProperties DEF Q
<1> HIDE DEF uu
<1>6. tt = uu
  <2>1. \A i \in 1 .. Len(tt) : tt[i] = uu[i]
    <3>1. ASSUME NEW i \in 1 .. Len(groups) + 1 PROVE tt[i] = uu[i]
      <4>1. i \in 1 .. Len(groups) \/ i = Len(groups) + 1
        BY <1>4
      <4> QED
        BY <1>1, <1>2, <1>3, <1>5, <4>1, Zenon
    <3> QED
      BY <1>1, <1>3, <3>1
  <2>2. tt \in Seq(Q) /\ Len(tt) = Len(uu)
    BY <1>1, <1>3, <1>5 DEF Q
  <2> QED
    BY <1>5, <2>1, <2>2, SeqEqual
<1>7. FlattenSeq(uu) = FlattenSeq(ss) \o wg.items
  BY <1>2, <1>4, FlattenAppend, Zenon DEF uu
<1> QED
  BY <1>2, <1>3, <1>6, <1>7 DEF more

\* A group merged into the last one adds its items at the end, too.
LEMMA FlatItemsMerge ==
  ASSUME NEW groups \in Seq(Group), groups # <<>>, NEW wg \in Group
  PROVE  FlatItems([groups EXCEPT ![Len(groups)] = Merge(groups[Len(groups)], wg)])
           = FlatItems(groups) \o wg.items
<1>1. PICK front \in Seq(Group), last \in Group : groups = Append(front, last)
  BY SequenceEmptyOrAppend
<1>2. /\ Len(front) \in Nat /\ Len(groups) = Len(front) + 1
      /\ \A i \in 1 .. Len(front) : groups[i] = front[i]
      /\ groups[Len(groups)] = last
  BY <1>1, LenProperties, AppendProperties
<1> DEFINE both == Merge(last, wg)
           new  == [groups EXCEPT ![Len(groups)] = both]
           made == Append(front, both)
<1>3. both \in Group /\ both.items = last.items \o wg.items
  BY MergeType, Zenon DEF Merge
<1> HIDE DEF both
<1>4. /\ new \in Seq(Group) /\ Len(new) = Len(groups)
      /\ \A j \in 1 .. Len(groups) : new[j] = IF j = Len(groups) THEN both ELSE groups[j]
  BY <1>2, <1>3, ExceptSeq
<1>5. /\ made \in Seq(Group) /\ Len(made) = Len(front) + 1
      /\ \A i \in 1 .. Len(front) : made[i] = front[i]
      /\ made[Len(front) + 1] = both
  BY <1>3, AppendProperties
<1> HIDE DEF new, made
<1>6. new = made
  <2>1. ASSUME NEW i \in 1 .. Len(new) PROVE new[i] = made[i]
    <3>1. i = Len(front) + 1 \/ (i \in 1 .. Len(front) /\ i # Len(groups))
      BY <1>2, <1>4
    <3> QED
      BY <1>2, <1>4, <1>5, <3>1
  <2> QED
    BY <1>2, <1>4, <1>5, <2>1, SeqEqual
<1>7. FlatItems(made) = FlatItems(front) \o both.items
  BY <1>3, FlatItemsAppend, Zenon DEF made
<1>8. FlatItems(groups) = FlatItems(front) \o last.items
  BY <1>1, FlatItemsAppend
<1> DEFINE a == FlatItems(front)
           b == last.items
           c == wg.items
<1>9. a \in Seq(Item) /\ b \in Seq(Item) /\ c \in Seq(Item)
  BY FlatItemsType, Zenon DEF Group
<1> HIDE DEF a, b, c
<1>10. (a \o b) \o c = a \o (b \o c)
  BY ONLY <1>9, SMTT(30)
<1> QED
  BY <1>2, <1>3, <1>6, <1>7, <1>8, <1>10, Zenon DEF a, b, c, new, both

\* Taking the first group takes its items from the front.
LEMMA FlatItemsHead ==
  ASSUME NEW groups \in Seq(Group), groups # <<>>
  PROVE  FlatItems(groups) = Head(groups).items \o FlatItems(Tail(groups))
<1> DEFINE rest == Tail(groups)
           ss == [g \in DOMAIN groups |-> groups[g].items]
           tt == [g \in DOMAIN rest |-> rest[g].items]
           Q  == Seq(Item)
<1>1. /\ rest \in Seq(Group) /\ Len(rest) = Len(groups) - 1 /\ Head(groups) \in Group
      /\ \A i \in 1 .. Len(rest) : rest[i] = groups[i + 1]
      /\ Len(groups) \in Nat /\ Len(groups) # 0
      /\ Head(groups) = groups[1]
  BY HeadTailProperties, EmptySeq
<1>2. /\ ss \in Seq(Seq(Item)) /\ Len(ss) = Len(groups)
      /\ \A g \in 1 .. Len(groups) : ss[g] = groups[g].items
      /\ FlatItems(groups) = FlattenSeq(ss)
  BY ItemListType
<1>3. /\ tt \in Seq(Seq(Item)) /\ Len(tt) = Len(rest)
      /\ \A g \in 1 .. Len(rest) : tt[g] = rest[g].items
      /\ FlatItems(rest) = FlattenSeq(tt)
  BY <1>1, ItemListType, Zenon
<1> HIDE DEF ss, tt, rest
<1>4. ss \in Seq(Q) /\ tt \in Seq(Q) /\ ss # <<>>
  BY <1>1, <1>2, <1>3, EmptySeq
<1>5. FlattenSeq(ss) = Head(ss) \o FlattenSeq(Tail(ss))
  BY <1>4, FlattenHead
<1> HIDE DEF Q
<1>6. /\ Tail(ss) \in Seq(Q) /\ Len(Tail(ss)) = Len(ss) - 1 /\ Head(ss) = ss[1]
      /\ \A i \in 1 .. Len(Tail(ss)) : Tail(ss)[i] = ss[i + 1]
  BY <1>4, HeadTailProperties
<1>7. Tail(ss) = tt
  <2> DEFINE uu == Tail(ss)
  <2> HIDE DEF uu
  <2>1. /\ uu \in Seq(Q) /\ Len(uu) = Len(tt)
        /\ \A i \in 1 .. Len(uu) : uu[i] = ss[i + 1]
    BY <1>1, <1>2, <1>3, <1>6 DEF uu
  <2>2. ASSUME NEW i \in 1 .. Len(uu) PROVE uu[i] = tt[i]
    <3>1. i \in 1 .. Len(rest) /\ i + 1 \in 1 .. Len(groups)
      BY <1>1, <1>3, <2>1
    <3> QED
      BY <1>1, <1>2, <1>3, <2>1, <3>1, Zenon
  <2>3. uu = tt
    BY <1>4, <2>1, <2>2, SeqEqual
  <2> QED
    BY <2>3 DEF uu
<1>8. Head(ss) = Head(groups).items
  <2>1. 1 \in 1 .. Len(groups)
    BY <1>1
  <2> QED
    BY <1>1, <1>2, <1>6, <2>1
<1> QED
  BY <1>2, <1>3, <1>5, <1>7, <1>8, Zenon DEF rest

-----------------------------------------------------------------------------
(* The abstract queue *)

Entry == [pending : Seq(Item), final : BOOLEAN, close : BOOLEAN]

EntryOf(ctx) ==
  [pending |-> FlatItems(ctx.groups), final |-> ctx.final, close |-> ctx.close]

QueueOf(c) == [k \in 1 .. c.exists |-> EntryOf(Ctx(c, k - 1))]

\* The abstract queue of a coordinator is a sequence of entries.
LEMMA QueueType ==
  ASSUME NEW c \in Coordinator
  PROVE  /\ QueueOf(c) \in Seq(Entry) /\ Len(QueueOf(c)) = c.exists
         /\ DOMAIN QueueOf(c) = 1 .. c.exists /\ c.exists \in Nat
         /\ \A k \in 0 .. c.exists - 1 : QueueOf(c)[k + 1] = EntryOf(Ctx(c, k))
<1> DEFINE n == c.exists
<1>1. n \in Nat
  BY MaxReqAssumption DEF Coordinator
<1>2. ASSUME NEW k \in 0 .. n - 1 PROVE EntryOf(Ctx(c, k)) \in Entry
  <2>1. Ctx(c, k) \in Context
    BY CtxType
  <2>2. /\ Ctx(c, k).groups \in Seq(Group)
        /\ Ctx(c, k).final \in BOOLEAN /\ Ctx(c, k).close \in BOOLEAN
    BY <2>1 DEF Context
  <2>3. FlatItems(Ctx(c, k).groups) \in Seq(Item)
    BY <2>2, FlatItemsType
  <2> QED
    BY <2>2, <2>3 DEF EntryOf, Entry
<1> HIDE DEF n
<1>3. \A k \in 1 .. n : k - 1 \in 0 .. n - 1
  BY <1>1
<1>4. QueueOf(c) = [k \in 1 .. n |-> EntryOf(Ctx(c, k - 1))]
  BY DEF QueueOf, n
<1>5. QueueOf(c) \in [1 .. n -> Entry]
  BY <1>2, <1>3, <1>4
<1>6. QueueOf(c) \in Seq(Entry) /\ Len(QueueOf(c)) = n
  BY <1>1, <1>5
<1>7. ASSUME NEW k \in 0 .. n - 1 PROVE QueueOf(c)[k + 1] = EntryOf(Ctx(c, k))
  <2>1. k + 1 \in 1 .. n /\ (k + 1) - 1 = k
    BY <1>1
  <2> QED
    BY <1>4, <2>1
<1> QED
  BY <1>1, <1>4, <1>6, <1>7 DEF n

\* Two sequences of entries are equal if they agree at every position.
LEMMA QueueEqual ==
  ASSUME NEW c \in Coordinator, NEW q \in Seq(Entry), Len(q) = c.exists,
         \A k \in 0 .. c.exists - 1 : EntryOf(Ctx(c, k)) = q[k + 1]
  PROVE  QueueOf(c) = q
<1>1. /\ QueueOf(c) \in Seq(Entry) /\ Len(QueueOf(c)) = c.exists /\ c.exists \in Nat
      /\ \A k \in 0 .. c.exists - 1 : QueueOf(c)[k + 1] = EntryOf(Ctx(c, k))
  BY QueueType
<1>2. ASSUME NEW i \in 1 .. c.exists PROVE QueueOf(c)[i] = q[i]
  <2>1. i - 1 \in 0 .. c.exists - 1 /\ (i - 1) + 1 = i
    BY <1>1
  <2>2. EntryOf(Ctx(c, i - 1)) = q[(i - 1) + 1]
    BY <2>1
  <2>3. QueueOf(c)[(i - 1) + 1] = EntryOf(Ctx(c, i - 1))
    BY <1>1, <2>1
  <2> QED
    BY <2>1, <2>2, <2>3
<1> QED
  BY <1>1, <1>2, SeqEqual

\* The two ways to enqueue a group, merged or not, supply the same items.
LEMMA EnqueueEntry ==
  ASSUME NEW ctx \in Context, NEW fl \in Flags, NEW wg \in Group
  PROVE  EntryOf(EnqueueGroup([ctx EXCEPT !.final = fl.final, !.close = fl.close], wg))
           = [pending |-> FlatItems(ctx.groups) \o wg.items,
              final |-> fl.final, close |-> fl.close]
<1> DEFINE y == [ctx EXCEPT !.final = fl.final, !.close = fl.close]
<1>1. /\ y \in Context /\ y.groups = ctx.groups /\ y.final = fl.final
      /\ y.close = fl.close /\ y.groups \in Seq(Group)
  BY Zenon DEF Context, Flags
<1> HIDE DEF y
<1>2. CASE Mergeable(y, wg)
  <2> DEFINE gs == [y.groups EXCEPT ![Len(y.groups)] = Merge(y.groups[Len(y.groups)], wg)]
  <2>1. y.groups # <<>>
    BY <1>2 DEF Mergeable
  <2>2. EnqueueGroup(y, wg) = [y EXCEPT !.groups = gs]
    BY <1>1, <1>2 DEF EnqueueGroup, Context
  <2>3. FlatItems(gs) = FlatItems(y.groups) \o wg.items
    BY <1>1, <2>1, FlatItemsMerge, Zenon
  <2> HIDE DEF gs
  <2>4. /\ EnqueueGroup(y, wg).groups = gs /\ EnqueueGroup(y, wg).final = fl.final
        /\ EnqueueGroup(y, wg).close = fl.close
    BY <1>1, <2>2 DEF Context
  <2> QED
    BY <1>1, <2>3, <2>4, Zenon DEF EntryOf, y
<1>3. CASE ~Mergeable(y, wg)
  <2> DEFINE gs == Append(y.groups, wg)
  <2>2. EnqueueGroup(y, wg) = [y EXCEPT !.groups = gs]
    BY <1>1, <1>3 DEF EnqueueGroup, Context
  <2>3. FlatItems(gs) = FlatItems(y.groups) \o wg.items
    BY <1>1, FlatItemsAppend, Zenon
  <2> HIDE DEF gs
  <2>4. /\ EnqueueGroup(y, wg).groups = gs /\ EnqueueGroup(y, wg).final = fl.final
        /\ EnqueueGroup(y, wg).close = fl.close
    BY <1>1, <2>2 DEF Context
  <2> QED
    BY <1>1, <2>3, <2>4, Zenon DEF EntryOf, y
<1> QED
  BY <1>2, <1>3

\* A new request is a new last entry without items.
LEMMA RegisterOpens ==
  ASSUME NEW c \in Coordinator, ~IsFull(c), CleanFree(c)
  PROVE  /\ QueueOf(RegisterNewRequest(c)) =
              Append(QueueOf(c), [pending |-> <<>>, final |-> FALSE, close |-> FALSE])
         /\ Len(QueueOf(c)) < MaxReq
<1> DEFINE d == RegisterNewRequest(c)
           n == c.exists
           e == [pending |-> <<>>, final |-> FALSE, close |-> FALSE]
           q == Append(QueueOf(c), e)
<1>1. /\ d \in Coordinator /\ d.exists = n + 1
      /\ \A k \in 0 .. n - 1 : Ctx(d, k) = Ctx(c, k)
      /\ Ctx(d, n).groups = <<>> /\ ~Ctx(d, n).final /\ ~Ctx(d, n).close
  BY RegisterQueue
<1>2. /\ QueueOf(c) \in Seq(Entry) /\ Len(QueueOf(c)) = n /\ n \in Nat
      /\ \A k \in 0 .. n - 1 : QueueOf(c)[k + 1] = EntryOf(Ctx(c, k))
  BY QueueType
<1>3. n < MaxReq
  BY <1>2, MaxReqAssumption DEF Coordinator, IsFull
<1>4. e \in Entry
  BY EmptySeq DEF Entry
<1> HIDE DEF d, n, e
<1>5. EntryOf(Ctx(d, n)) = e
  <2>1. n \in 0 .. d.exists - 1
    BY <1>1, <1>2
  <2>2. Ctx(d, n) \in Context
    BY <1>1, <2>1, CtxType
  <2>3. Ctx(d, n).final = FALSE /\ Ctx(d, n).close = FALSE
    BY <1>1, <2>2 DEF Context
  <2> QED
    BY <1>1, <2>3, FlatItemsEmpty, Zenon DEF EntryOf, e
<1>6. /\ q \in Seq(Entry) /\ Len(q) = n + 1
      /\ \A i \in 1 .. n : q[i] = QueueOf(c)[i]
      /\ q[n + 1] = e
  BY <1>2, <1>4, AppendProperties
<1> HIDE DEF q
<1>7. ASSUME NEW k \in 0 .. d.exists - 1 PROVE EntryOf(Ctx(d, k)) = q[k + 1]
  <2>1. CASE k = n
    BY <1>5, <1>6, <2>1
  <2>2. CASE k # n
    <3>1. k \in 0 .. n - 1 /\ k + 1 \in 1 .. n
      BY <1>1, <1>2, <2>2
    <3> QED
      BY <1>1, <1>2, <1>6, <3>1
  <2> QED
    BY <2>1, <2>2
<1>8. QueueOf(d) = q
  BY <1>1, <1>6, <1>7, QueueEqual
<1> QED
  BY <1>2, <1>3, <1>8 DEF d, q, e

\* r is the queue q after part and the flags were supplied to its i-th entry.
SuppliedTo(i, part, fl, q, r) ==
  /\ ~q[i].final
  /\ r = [q EXCEPT ![i] = [pending |-> q[i].pending \o part,
                           final |-> fl.final, close |-> fl.close]]

\* A part appended to a response is supplied to one entry, whatever happens to the
\* group it came in.
LEMMA AppendSupplies ==
  ASSUME NEW c \in Coordinator, ClimbingIds(c), NEW id \in 0 .. ReqIdModulus - 1,
         NEW fl \in Flags, NEW wg \in Group, ~AppendThrows(c, id)
  PROVE  \E q \in 0 .. c.exists - 1 :
           /\ GetByReqId(c, id) = Slot(c, q)
           /\ SuppliedTo(q + 1, wg.items, fl, QueueOf(c),
                         QueueOf(AppendResponse(c, id, fl, wg)))
<1> DEFINE d == AppendResponse(c, id, fl, wg)
           n == c.exists
<1>1. GetByReqId(c, id) # NoCtx /\ ~c.ctx[GetByReqId(c, id)].final
  BY DEF AppendThrows
<1>2. d \in Coordinator /\ d.exists = n
  BY <1>1, AppendQueue
<1>3. PICK q \in 0 .. n - 1 :
        /\ GetByReqId(c, id) = Slot(c, q)
        /\ Ctx(d, q) = EnqueueGroup([Ctx(c, q) EXCEPT !.final = fl.final,
                                                      !.close = fl.close], wg)
        /\ \A k \in 0 .. n - 1 : k # q => Ctx(d, k) = Ctx(c, k)
  BY <1>1, AppendQueue
<1>4. /\ QueueOf(c) \in Seq(Entry) /\ Len(QueueOf(c)) = n /\ n \in Nat
      /\ \A k \in 0 .. n - 1 : QueueOf(c)[k + 1] = EntryOf(Ctx(c, k))
  BY QueueType
<1>5. Ctx(c, q) \in Context
  BY CtxType
<1> DEFINE e == [pending |-> FlatItems(Ctx(c, q).groups) \o wg.items,
                 final |-> fl.final, close |-> fl.close]
           r == [QueueOf(c) EXCEPT ![q + 1] = e]
<1>6. EntryOf(Ctx(d, q)) = e
  BY <1>3, <1>5, EnqueueEntry
<1>7. e \in Entry
  <2>1. FlatItems(Ctx(c, q).groups) \in Seq(Item) /\ wg.items \in Seq(Item)
    BY <1>5, FlatItemsType, Zenon DEF Context, Group
  <2>2. FlatItems(Ctx(c, q).groups) \o wg.items \in Seq(Item)
    BY <2>1, ConcatProperties
  <2> QED
    BY <2>2 DEF Entry, Flags
<1>8. QueueOf(c)[q + 1] = EntryOf(Ctx(c, q))
  BY <1>4
<1>9. /\ QueueOf(c)[q + 1].pending = FlatItems(Ctx(c, q).groups)
      /\ ~QueueOf(c)[q + 1].final
  <2>1. ~Ctx(c, q).final
    BY <1>1, <1>3 DEF Ctx
  <2> QED
    BY <1>8, <2>1 DEF EntryOf
<1> HIDE DEF d, n, e
<1>10. /\ r \in Seq(Entry) /\ Len(r) = n
       /\ \A j \in 1 .. n : r[j] = IF j = q + 1 THEN e ELSE QueueOf(c)[j]
  <2>1. q + 1 \in 1 .. n
    BY <1>4
  <2> QED
    BY <1>4, <1>7, <2>1, ExceptSeq
<1> HIDE DEF r
<1>11. ASSUME NEW k \in 0 .. n - 1 PROVE EntryOf(Ctx(d, k)) = r[k + 1]
  <2>1. k + 1 \in 1 .. n /\ (k + 1 = q + 1 <=> k = q)
    BY <1>4
  <2> QED
    BY <1>3, <1>4, <1>6, <1>10, <2>1
<1>12. QueueOf(d) = r
  BY <1>2, <1>10, <1>11, QueueEqual
<1> QED
  BY <1>3, <1>9, <1>12, Zenon DEF SuppliedTo, d, n, e, r

\* A concatenation can be taken apart at the seam.
LEMMA SplitAtSeam ==
  ASSUME NEW S, NEW a \in Seq(S), NEW b \in Seq(S)
  PROVE  /\ SubSeq(a \o b, 1, Len(a)) = a
         /\ SubSeq(a \o b, Len(a) + 1, Len(a \o b)) = b
         /\ Len(a) <= Len(a \o b)
<1> DEFINE ab == a \o b
           m == Len(a)
           n == Len(b)
<1>1. /\ ab \in Seq(S) /\ Len(ab) = m + n /\ m \in Nat /\ n \in Nat
      /\ \A i \in 1 .. m + n : ab[i] = IF i <= m THEN a[i] ELSE b[i - m]
      /\ \A i \in 1 .. m + n : ab[i] \in S
  BY ConcatProperties, LenProperties, ElementOfSeq
<1> HIDE DEF ab, m, n
<1>2. /\ SubSeq(ab, 1, m) \in Seq(S) /\ Len(SubSeq(ab, 1, m)) = m
      /\ \A i \in 1 .. m : SubSeq(ab, 1, m)[i] = ab[i]
  <2>1. \A i \in 1 .. m : ab[i] \in S
    BY <1>1
  <2>2. /\ SubSeq(ab, 1, m) \in Seq(S)
        /\ Len(SubSeq(ab, 1, m)) = IF 1 <= m THEN m - 1 + 1 ELSE 0
        /\ \A i \in 1 .. m - 1 + 1 : SubSeq(ab, 1, m)[i] = ab[1 + i - 1]
    BY <1>1, <2>1, SubSeqProperties
  <2>3. \A i \in 1 .. m : i \in 1 .. m - 1 + 1 /\ 1 + i - 1 = i
    BY <1>1
  <2> QED
    BY <1>1, <2>2, <2>3
<1>3. SubSeq(ab, 1, m) = a
  <2>1. \A i \in 1 .. m : ab[i] = a[i]
    BY <1>1
  <2> QED
    BY <1>2, <2>1, SeqEqual DEF m
<1>4. /\ SubSeq(ab, m + 1, m + n) \in Seq(S) /\ Len(SubSeq(ab, m + 1, m + n)) = n
      /\ \A i \in 1 .. n : SubSeq(ab, m + 1, m + n)[i] = ab[m + i]
  <2>1. \A i \in m + 1 .. m + n : ab[i] \in S
    BY <1>1
  <2>2. /\ SubSeq(ab, m + 1, m + n) \in Seq(S)
        /\ Len(SubSeq(ab, m + 1, m + n)) =
             IF m + 1 <= m + n THEN (m + n) - (m + 1) + 1 ELSE 0
        /\ \A i \in 1 .. (m + n) - (m + 1) + 1 :
             SubSeq(ab, m + 1, m + n)[i] = ab[(m + 1) + i - 1]
    <3> DEFINE lo == m + 1
               hi == m + n
    <3>1. lo \in Int /\ hi \in Int /\ \A i \in lo .. hi : ab[i] \in S
      BY <1>1, <2>1
    <3> HIDE DEF lo, hi
    <3>2. /\ SubSeq(ab, lo, hi) \in Seq(S)
          /\ Len(SubSeq(ab, lo, hi)) = IF lo <= hi THEN hi - lo + 1 ELSE 0
          /\ \A i \in 1 .. hi - lo + 1 : SubSeq(ab, lo, hi)[i] = ab[lo + i - 1]
      BY <3>1, SubSeqProperties
    <3> QED
      BY <3>2 DEF lo, hi
  <2>3. /\ \A i \in 1 .. n : i \in 1 .. (m + n) - (m + 1) + 1 /\ (m + 1) + i - 1 = m + i
        /\ (IF m + 1 <= m + n THEN (m + n) - (m + 1) + 1 ELSE 0) = n
    BY <1>1
  <2> QED
    BY <1>1, <2>2, <2>3
<1>5. SubSeq(ab, m + 1, m + n) = b
  <2>1. \A i \in 1 .. n : ab[m + i] = b[i]
    <3>1. ASSUME NEW i \in 1 .. n PROVE ab[m + i] = b[i]
      <4>1. m + i \in 1 .. m + n /\ ~(m + i <= m) /\ (m + i) - m = i
        BY <1>1
      <4> QED
        BY <1>1, <4>1
    <3> QED
      BY <3>1
  <2> QED
    BY <1>4, <2>1, SeqEqual, Zenon DEF n
<1>6. m <= m + n
  BY <1>1
<1> QED
  BY <1>1, <1>3, <1>5, <1>6 DEF ab, m, n

\* A popped group is the first part of the first entry; the response that is
\* complete with it leaves the queue.
LEMMA PopEmits ==
  ASSUME NEW c \in Coordinator, HasReady(c)
  PROVE  LET d == PopReadyBuffers(c)
             out == ReadyGroup(c).items
             x == DequeueGroup(FrontContext(c)) IN
         /\ QueueOf(c) # <<>> /\ out \in Seq(Item)
         /\ IF IsComplete(x)
            THEN /\ Head(QueueOf(c)).pending = out /\ Head(QueueOf(c)).final
                 /\ QueueOf(d) = Tail(QueueOf(c))
                 /\ d.closed = Head(QueueOf(c)).close
                 /\ d.exists = c.exists - 1
            ELSE /\ Head(QueueOf(c)).pending = out \o FlatItems(x.groups)
                 /\ FlatItems(x.groups) \in Seq(Item)
                 /\ QueueOf(d) = [QueueOf(c) EXCEPT ![1].pending = FlatItems(x.groups)]
                 /\ d.closed = c.closed
                 /\ d.exists = c.exists
<1> DEFINE d == PopReadyBuffers(c)
           x == DequeueGroup(FrontContext(c))
           out == ReadyGroup(c).items
           n == c.exists
           rest == FlatItems(x.groups)
           q == QueueOf(c)
<1>1. /\ d \in Coordinator
      /\ n > 0 /\ Ctx(c, 0) = FrontContext(c) /\ FrontContext(c).groups # <<>>
      /\ IF IsComplete(x)
         THEN /\ d.exists = n - 1 /\ d.closed = x.close
              /\ \A k \in 0 .. n - 2 : Ctx(d, k) = Ctx(c, k + 1)
         ELSE /\ d.exists = n /\ d.closed = c.closed
              /\ Ctx(d, 0) = x
              /\ \A k \in 1 .. n - 1 : Ctx(d, k) = Ctx(c, k)
  BY PopQueue
<1>2. /\ q \in Seq(Entry) /\ Len(q) = n /\ n \in Nat
      /\ \A k \in 0 .. n - 1 : q[k + 1] = EntryOf(Ctx(c, k))
  BY QueueType
<1>3. /\ FrontContext(c) \in Context /\ x \in Context
      /\ Head(FrontContext(c).groups) \in Group
  BY <1>1, FrontContextType, DequeueGroupType
<1>4. /\ FrontContext(c).groups \in Seq(Group)
      /\ x.groups = Tail(FrontContext(c).groups)
      /\ x.final = FrontContext(c).final /\ x.close = FrontContext(c).close
      /\ x.groups \in Seq(Group)
  BY <1>3, Zenon DEF Context, DequeueGroup
<1>5. out \in Seq(Item) /\ rest \in Seq(Item)
  BY <1>3, <1>4, FlatItemsType, Zenon DEF ReadyGroup, Group
<1>6. FlatItems(FrontContext(c).groups) = out \o rest
  BY <1>1, <1>4, FlatItemsHead, Zenon DEF ReadyGroup
<1> HIDE DEF d, x, n, rest, q, out
<1>7. /\ q # <<>> /\ Head(q) = q[1]
      /\ q[1] = EntryOf(FrontContext(c)) /\ q[1] \in Entry
  <2>1. q # <<>>
    BY <1>1, <1>2, EmptySeq
  <2>2. 0 \in 0 .. n - 1 /\ 0 + 1 = 1 /\ 1 \in 1 .. Len(q)
    BY <1>1, <1>2
  <2>3. q[1] \in Entry
    BY <1>2, <2>2, ElementOfSeq
  <2>4. q[1] = EntryOf(Ctx(c, 0))
    BY <1>2, <2>2
  <2>5. Head(q) = q[1]
    BY <1>2, <2>1
  <2> QED
    BY <1>1, <2>1, <2>3, <2>4, <2>5
<1>8. /\ q[1].pending = out \o rest /\ q[1].final = x.final /\ q[1].close = x.close
  BY <1>4, <1>6, <1>7 DEF EntryOf
<1>9. CASE IsComplete(x)
  <2>1. x.groups = <<>> /\ x.final
    BY <1>9 DEF IsComplete
  <2>2. out \o rest = out
    BY <1>5, <2>1, FlatItemsEmpty, ConcatEmptySeq DEF rest
  <2>3. /\ d.exists = n - 1 /\ d.closed = x.close
        /\ \A k \in 0 .. n - 2 : Ctx(d, k) = Ctx(c, k + 1)
    BY <1>1, <1>9
  <2>4. /\ Tail(q) \in Seq(Entry) /\ Len(Tail(q)) = n - 1
        /\ \A i \in 1 .. n - 1 : Tail(q)[i] = q[i + 1]
    BY <1>2, <1>7, HeadTailProperties
  <2> DEFINE tl == Tail(q)
  <2> HIDE DEF tl
  <2>5. ASSUME NEW k \in 0 .. d.exists - 1 PROVE EntryOf(Ctx(d, k)) = tl[k + 1]
    <3>1. /\ k \in 0 .. n - 2 /\ k + 1 \in 1 .. n - 1 /\ k + 1 \in 0 .. n - 1
      BY <1>2, <2>3
    <3>2. tl[k + 1] = q[(k + 1) + 1]
      BY <2>4, <3>1 DEF tl
    <3>3. q[(k + 1) + 1] = EntryOf(Ctx(c, k + 1))
      BY <1>2, <3>1
    <3> QED
      BY <2>3, <3>1, <3>2, <3>3
  <2>6. tl \in Seq(Entry) /\ Len(tl) = d.exists
    BY <2>3, <2>4 DEF tl
  <2>7. QueueOf(d) = tl
    BY <1>1, <2>5, <2>6, QueueEqual
  <2> QED
    BY <1>5, <1>7, <1>8, <1>9, <2>1, <2>2, <2>3, <2>7, Zenon DEF d, x, q, out, n, tl
<1>10. CASE ~IsComplete(x)
  <2>1. /\ d.exists = n /\ d.closed = c.closed
        /\ Ctx(d, 0) = x
        /\ \A k \in 1 .. n - 1 : Ctx(d, k) = Ctx(c, k)
    BY <1>1, <1>10
  <2> DEFINE e == [q[1] EXCEPT !.pending = rest]
             r == [q EXCEPT ![1] = e]
  <2>2. e \in Entry /\ e = EntryOf(x)
    BY <1>5, <1>7, <1>8 DEF Entry, EntryOf, rest
  <2>3. r = [q EXCEPT ![1].pending = rest]
    OBVIOUS
  <2> HIDE DEF e
  <2>4. /\ r \in Seq(Entry) /\ Len(r) = n
        /\ \A j \in 1 .. n : r[j] = IF j = 1 THEN e ELSE q[j]
    <3>1. 1 \in 1 .. Len(q)
      BY <1>1, <1>2
    <3> QED
      BY <1>2, <2>2, <3>1, ExceptSeq
  <2> HIDE DEF r
  <2>5. ASSUME NEW k \in 0 .. n - 1 PROVE EntryOf(Ctx(d, k)) = r[k + 1]
    <3>1. CASE k = 0
      <4>1. k + 1 = 1 /\ k + 1 \in 1 .. n
        BY <1>1, <1>2, <3>1
      <4> QED
        BY <2>1, <2>2, <2>4, <3>1, <4>1
    <3>2. CASE k # 0
      <4>1. k + 1 # 1 /\ k + 1 \in 1 .. n /\ k \in 1 .. n - 1
        BY <1>1, <1>2, <3>2
      <4> QED
        BY <1>2, <2>1, <2>4, <4>1
    <3> QED
      BY <3>1, <3>2
  <2>6. QueueOf(d) = r
    BY <1>1, <2>1, <2>4, <2>5, QueueEqual
  <2> QED
    BY <1>5, <1>7, <1>8, <1>10, <2>1, <2>3, <2>6, Zenon DEF d, x, q, out, n, rest
<1> QED
  BY <1>9, <1>10, Zenon

-----------------------------------------------------------------------------
(* Every step of the coordinator is a step of the pipeline or none *)

\* The refinement mapping is the abstract queue of the coordinator.
LEMMA MappedQueue == AbstractQueue = QueueOf(coord)
BY DEF AbstractQueue, QueueOf, EntryOf, Ctx

\* The same after a step.
LEMMA MappedQueueAfter == AbstractQueue' = QueueOf(coord')
BY DEF AbstractQueue, QueueOf, EntryOf, Ctx, Slot, FlatItems, FlattenSeq

\* The constructor gives an empty pipeline.
LEMMA InitRefines == Init => Pipeline!Init
<1> SUFFICES ASSUME Init PROVE Pipeline!Init
  OBVIOUS
<1>1. coord.exists = 0 /\ coord.closed = FALSE /\ emitted = <<>>
  BY DEF Init, NewCoordinator
<1>2. AbstractQueue = <<>>
  <2>1. IndInv
    BY InitInd
  <2>2. QueueOf(coord) \in Seq(Entry) /\ Len(QueueOf(coord)) = 0
    BY <1>1, <2>1, QueueType DEF IndInv, TypeOK
  <2> QED
    BY <2>2, MappedQueue, EmptySeq
<1> QED
  BY <1>1, <1>2 DEF Pipeline!Init

\* Registering a request opens an entry.
LEMMA RegisterRefines ==
  ASSUME IndInv, Register
  PROVE  Pipeline!Open
<1>1. coord \in Coordinator /\ ~IsFull(coord) /\ CleanFree(coord)
  BY DEF IndInv, TypeOK, Register, RingInv
<1>2. coord' = RegisterNewRequest(coord) /\ emitted' = emitted
  BY DEF Register
<1>3. coord'.closed = coord.closed
  BY <1>1, <1>2, RegisterEffect
<1>4. /\ QueueOf(coord') =
           Append(QueueOf(coord), [pending |-> <<>>, final |-> FALSE, close |-> FALSE])
      /\ Len(QueueOf(coord)) < MaxReq
  BY <1>1, <1>2, RegisterOpens
<1> QED
  BY <1>2, <1>3, <1>4, MappedQueue, MappedQueueAfter DEF Pipeline!Open

\* A part that is accepted is supplied to one entry; a refused one changes nothing.
LEMMA SupplyRefines ==
  ASSUME IndInv, NEW s \in Request, NEW fl \in Flags, NEW notify \in BOOLEAN,
         NEW empty \in BOOLEAN, Supply(s, fl, notify, empty)
  PROVE  \/ UNCHANGED <<AbstractQueue, emitted, coord.closed>>
         \/ \E i \in DOMAIN AbstractQueue, part \in {<<>>} \union {<<item>> : item \in Item},
               f, c \in BOOLEAN : Pipeline!Supply(i, part, f, c)
<1> DEFINE item  == <<s, supplied[s] + 1>>
           notif == IF notify THEN item ELSE NoNotif
           part  == IF empty THEN <<>> ELSE <<item>>
           wg    == [items |-> part, status |-> supplied[s] = 0, notif |-> notif]
<1>1. coord \in Coordinator /\ RingInv(coord) /\ supplied \in [Request -> 0 .. MaxParts]
  BY DEF IndInv, TypeOK
<1>2. item \in Item
  <2>1. supplied[s] + 1 \in 1 .. MaxParts
    BY <1>1, BoundsAssumption DEF Supply
  <2> QED
    BY <2>1 DEF Item
<1>3. wg \in Group /\ wg.items = part /\ part \in {<<>>} \union {<<i>> : i \in Item}
  <2>1. <<>> \in Seq(Item) /\ <<item>> \in Seq(Item)
    BY <1>2
  <2>2. notif \in Item \union {NoNotif}
    BY <1>2
  <2>3. part \in Seq(Item) /\ part \in {<<>>} \union {<<i>> : i \in Item}
    BY <1>2, <2>1
  <2> HIDE DEF notif, item, part
  <2> QED
    BY <2>2, <2>3 DEF Group
<1>4. Id(s) \in 0 .. ReqIdModulus - 1
  BY ReqIdModulusAssumption, BoundsAssumption DEF Id, Request
<1>5. emitted' = emitted
  BY DEF Supply
<1>6. CASE AppendThrows(coord, Id(s))
  <2>1. coord' = coord
    BY <1>6 DEF Supply
  <2> QED
    BY <1>5, <2>1, MappedQueue, MappedQueueAfter
<1>7. CASE ~AppendThrows(coord, Id(s))
  <2>1. coord' = AppendResponse(coord, Id(s), fl, wg)
    BY <1>7 DEF Supply
  <2> HIDE DEF wg, part, item
  <2>2. PICK q \in 0 .. coord.exists - 1 :
          SuppliedTo(q + 1, wg.items, fl, QueueOf(coord), QueueOf(coord'))
    <3>1. ClimbingIds(coord) /\ wg \in Group
      BY <1>1, <1>3 DEF RingInv
    <3> QED
      BY <1>1, <1>4, <1>7, <2>1, <3>1, AppendSupplies
  <2>3. ~coord.closed /\ coord'.closed = coord.closed
    <3>1. ~coord.closed /\ GetByReqId(coord, Id(s)) # NoCtx
      BY <1>7 DEF AppendThrows
    <3> QED
      BY <1>1, <1>3, <1>4, <2>1, <3>1, AppendEffect
  <2>4. q + 1 \in DOMAIN AbstractQueue
    BY <1>1, QueueType, MappedQueue
  <2>5. fl.final \in BOOLEAN /\ fl.close \in BOOLEAN
    BY DEF Flags
  <2>6. Pipeline!Supply(q + 1, part, fl.final, fl.close)
    BY <1>3, <1>5, <2>2, <2>3, MappedQueue, MappedQueueAfter
       DEF Pipeline!Supply, SuppliedTo
  <2> QED
    BY <1>3, <2>4, <2>5, <2>6
<1> QED
  BY <1>6, <1>7

\* A popped group is an emission of the first entry, the last one if the response
\* is complete, and none if the group has only a notificator.
LEMMA PopRefines ==
  ASSUME IndInv, Pop
  PROVE  \/ UNCHANGED <<AbstractQueue, emitted, coord.closed>>
         \/ AbstractQueue # <<>> /\ \E n \in 1 .. Len(Head(AbstractQueue).pending) :
                                      Pipeline!Emit(n)
         \/ AbstractQueue # <<>> /\ Pipeline!EmitLast
<1> DEFINE q   == QueueOf(coord)
           out == ReadyGroup(coord).items
           x   == DequeueGroup(FrontContext(coord))
           rest == FlatItems(x.groups)
<1>1. coord \in Coordinator /\ HasReady(coord) /\ ~coord.closed /\ emitted \in Seq(Item)
  BY DEF IndInv, TypeOK, Pop
<1>2. coord' = PopReadyBuffers(coord) /\ emitted' = emitted \o out
  BY DEF Pop
<1>3. /\ q # <<>> /\ out \in Seq(Item)
      /\ IF IsComplete(x)
         THEN /\ Head(q).pending = out /\ Head(q).final
              /\ QueueOf(coord') = Tail(q)
              /\ coord'.closed = Head(q).close
         ELSE /\ Head(q).pending = out \o rest
              /\ rest \in Seq(Item)
              /\ QueueOf(coord') = [q EXCEPT ![1].pending = rest]
              /\ coord'.closed = coord.closed
  BY <1>1, <1>2, PopEmits, Zenon
<1>4. q \in Seq(Entry) /\ Len(q) \in Nat /\ q[1] = Head(q) /\ q[1] \in Entry
      /\ 1 \in DOMAIN q
  <2>1. q \in Seq(Entry)
    BY <1>1, QueueType
  <2>2. Len(q) \in Nat /\ Len(q) # 0 /\ DOMAIN q = 1 .. Len(q)
    BY <1>3, <2>1, EmptySeq, LenProperties
  <2> HIDE DEF q
  <2>3. q[1] = Head(q)
    BY <1>3, <2>1
  <2>4. 1 \in 1 .. Len(q)
    BY <2>2
  <2> QED
    BY <2>1, <2>2, <2>3, <2>4, ElementOfSeq
<1> HIDE DEF q, out, x, rest
<1>5. AbstractQueue = q
  BY MappedQueue DEF q
<1>6. CASE IsComplete(x)
  <2>1. Pipeline!EmitLast
    BY <1>1, <1>2, <1>3, <1>5, <1>6, MappedQueueAfter, Zenon DEF Pipeline!EmitLast
  <2> QED
    BY <1>3, <1>5, <2>1
<1>7. CASE ~IsComplete(x)
  <2>1. /\ q[1].pending = out \o rest /\ rest \in Seq(Item) /\ out \in Seq(Item)
        /\ QueueOf(coord') = [q EXCEPT ![1].pending = rest]
        /\ coord'.closed = coord.closed
    BY <1>3, <1>4, <1>7
  <2>2. CASE out = <<>>
    <3>1. out \o rest = rest
      BY <2>1, <2>2, ConcatEmptySeq
    <3>2. [q EXCEPT ![1].pending = rest] = q
      <4>1. [q[1] EXCEPT !.pending = rest] = q[1]
        BY <1>4, <2>1, <3>1 DEF Entry
      <4>2. [q EXCEPT ![1] = q[1]] = q
        BY <1>4
      <4> QED
        BY <4>1, <4>2
    <3>3. emitted' = emitted
      BY <1>1, <1>2, <2>2, ConcatEmptySeq
    <3> QED
      BY <1>5, <2>1, <3>2, <3>3, MappedQueueAfter
  <2>3. CASE out # <<>>
    <3> DEFINE n == Len(out)
    <3>1. /\ SubSeq(out \o rest, 1, n) = out
          /\ SubSeq(out \o rest, n + 1, Len(out \o rest)) = rest
          /\ n <= Len(out \o rest)
      BY <2>1, SplitAtSeam
    <3>2. n \in 1 .. Len(Head(q).pending)
      <4>1. n \in Nat /\ n # 0
        BY <2>1, <2>3, EmptySeq
      <4>2. Len(out \o rest) \in Nat
        BY <2>1, ConcatProperties, LenProperties
      <4> QED
        BY <1>4, <2>1, <3>1, <4>1, <4>2
    <3> HIDE DEF n
    <3>3. emitted' = emitted \o SubSeq(Head(q).pending, 1, n)
      BY <1>2, <1>4, <2>1, <3>1, Zenon
    <3>4. QueueOf(coord') =
            [q EXCEPT ![1].pending = SubSeq(q[1].pending, n + 1, Len(q[1].pending))]
      BY <2>1, <3>1, Zenon
    <3>5. Pipeline!Emit(n)
      BY <1>1, <1>5, <2>1, <3>3, <3>4, MappedQueueAfter DEF Pipeline!Emit
    <3> QED
      BY <1>3, <1>5, <3>2, <3>5
  <2> QED
    BY <2>2, <2>3
<1> QED
  BY <1>6, <1>7

\* reset() abandons what was not emitted.
LEMMA DropRefines ==
  ASSUME IndInv, Drop
  PROVE  Pipeline!Abandon
<1>1. coord \in Coordinator /\ coord' = Reset(coord) /\ emitted' = emitted
  BY DEF IndInv, TypeOK, Drop
<1>2. coord' \in Coordinator /\ coord'.exists = 0 /\ coord'.closed = coord.closed
  BY <1>1, ResetEffect
<1>3. QueueOf(coord') = <<>>
  <2>1. QueueOf(coord') \in Seq(Entry) /\ Len(QueueOf(coord')) = 0
    BY <1>2, QueueType
  <2> QED
    BY <2>1, EmptySeq
<1> QED
  BY <1>1, <1>2, <1>3, MappedQueueAfter DEF Pipeline!Abandon

\* One step per action of the coordinator.
LEMMA NextRefines ==
  ASSUME IndInv, [Next]_vars
  PROVE  [Pipeline!Next]_(Pipeline!vars)
<1>1. CASE Register
  BY <1>1, RegisterRefines DEF Pipeline!Next
<1>2. CASE \E s \in Request, fl \in [final : BOOLEAN, close : BOOLEAN],
             notify, empty \in BOOLEAN : Supply(s, fl, notify, empty)
  BY <1>2, SupplyRefines DEF Flags, Pipeline!Next, Pipeline!vars
<1>3. CASE Pop
  BY <1>3, PopRefines DEF Pipeline!Next, Pipeline!vars
<1>4. CASE Drop
  BY <1>4, DropRefines DEF Pipeline!Next
<1>5. CASE UNCHANGED vars
  <2>1. coord' = coord /\ emitted' = emitted
    BY <1>5 DEF vars
  <2> QED
    BY <2>1, MappedQueue, MappedQueueAfter DEF Pipeline!vars
<1> QED
  BY <1>1, <1>2, <1>3, <1>4, <1>5 DEF Next

\* The ring buffer with request ids, write groups and merging implements the FIFO
\* pipeline, for every ring size and across a wrap-around of the request ids.
THEOREM CoordinatorRefinesPipeline == Spec => ImplementsPipeline
<1>1. Init => Pipeline!Init
  BY InitRefines
<1>2. IndInv /\ [Next]_vars => [Pipeline!Next]_(Pipeline!vars)
  BY NextRefines
<1> QED
  BY <1>1, <1>2, Inductive, PTL DEF Spec, ImplementsPipeline, Pipeline!Spec
=============================================================================
