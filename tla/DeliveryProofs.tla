--------------------------- MODULE DeliveryProofs ---------------------------
(***************************************************************************)
(* The items of the responses handed to the response coordinator leave it  *)
(* exactly once, in the order of the requests.  The proofs work on the     *)
(* queue of contexts that ResponseCoordinatorProofs takes out of the ring. *)
(***************************************************************************)
EXTENDS PipelineProofs

-----------------------------------------------------------------------------
(* Sequences of items and the order of items *)

Elems(s) == {s[i] : i \in DOMAIN s}

Increasing(s) == \A i, j \in DOMAIN s : i < j => Before(s[i], s[j])

\* The elements of a concatenation.
LEMMA ConcatElems ==
  ASSUME NEW S, NEW a \in Seq(S), NEW b \in Seq(S)
  PROVE  Elems(a \o b) = Elems(a) \union Elems(b)
<1> DEFINE m == Len(a)
           n == Len(b)
           ab == a \o b
<1>1. /\ m \in Nat /\ n \in Nat /\ DOMAIN a = 1 .. m /\ DOMAIN b = 1 .. n
      /\ DOMAIN ab = 1 .. m + n
      /\ \A i \in 1 .. m + n : ab[i] = IF i <= m THEN a[i] ELSE b[i - m]
  <2>1. ab \in Seq(S) /\ Len(ab) = m + n
    BY ConcatProperties
  <2> QED
    BY <2>1, ConcatProperties, LenProperties
<1> HIDE DEF m, n, ab
<1>2. ASSUME NEW i \in 1 .. m + n PROVE ab[i] \in Elems(a) \union Elems(b)
  <2>1. CASE i <= m
    BY <1>1, <2>1, SMTT(30) DEF Elems
  <2>2. CASE ~(i <= m)
    <3>1. i - m \in 1 .. n /\ ab[i] = b[i - m]
      BY <1>1, <2>2
    <3> QED
      BY <1>1, <3>1 DEF Elems
  <2> QED
    BY <2>1, <2>2
<1>3. ASSUME NEW i \in 1 .. m PROVE a[i] \in Elems(ab)
  <2>1. i \in 1 .. m + n /\ ab[i] = a[i]
    BY <1>1
  <2> QED
    BY <1>1, <2>1 DEF Elems
<1>4. ASSUME NEW i \in 1 .. n PROVE b[i] \in Elems(ab)
  <2>1. /\ m + i \in 1 .. m + n /\ ~(m + i <= m) /\ (m + i) - m = i
    BY <1>1
  <2>2. ab[m + i] = b[i]
    BY <1>1, <2>1
  <2> QED
    BY <1>1, <2>1, <2>2 DEF Elems
<1>5. Elems(ab) \subseteq Elems(a) \union Elems(b)
  BY <1>1, <1>2 DEF Elems
<1>6. Elems(a) \subseteq Elems(ab) /\ Elems(b) \subseteq Elems(ab)
  BY <1>1, <1>3, <1>4 DEF Elems
<1> QED
  BY <1>5, <1>6 DEF ab

\* A concatenation is increasing iff its parts are and the first is below the second.
LEMMA ConcatIncreasing ==
  ASSUME NEW a \in Seq(Item), NEW b \in Seq(Item)
  PROVE  Increasing(a \o b) <=>
           /\ Increasing(a) /\ Increasing(b)
           /\ \A x \in Elems(a), y \in Elems(b) : Before(x, y)
<1> DEFINE m == Len(a)
           n == Len(b)
           ab == a \o b
<1>1. /\ m \in Nat /\ n \in Nat /\ DOMAIN a = 1 .. m /\ DOMAIN b = 1 .. n
      /\ DOMAIN ab = 1 .. m + n
      /\ \A i \in 1 .. m + n : ab[i] = IF i <= m THEN a[i] ELSE b[i - m]
  <2>1. ab \in Seq(Item) /\ Len(ab) = m + n
    BY ConcatProperties
  <2> QED
    BY <2>1, ConcatProperties, LenProperties
<1> HIDE DEF m, n, ab
<1>2. /\ \A i \in 1 .. m : i \in 1 .. m + n /\ ab[i] = a[i]
      /\ \A i \in 1 .. n : m + i \in 1 .. m + n /\ ab[m + i] = b[i]
  <2>1. ASSUME NEW i \in 1 .. n PROVE m + i \in 1 .. m + n /\ ab[m + i] = b[i]
    <3>1. m + i \in 1 .. m + n /\ ~(m + i <= m) /\ (m + i) - m = i
      BY <1>1
    <3> QED
      BY <1>1, <3>1
  <2> QED
    BY <1>1, <2>1
<1>3. ASSUME Increasing(ab)
      PROVE  /\ Increasing(a) /\ Increasing(b)
             /\ \A x \in Elems(a), y \in Elems(b) : Before(x, y)
  <2>1. ASSUME NEW i \in 1 .. m, NEW j \in 1 .. m, i < j PROVE Before(a[i], a[j])
    BY <1>1, <1>2, <1>3, <2>1, SMTT(30) DEF Increasing
  <2>2. ASSUME NEW i \in 1 .. n, NEW j \in 1 .. n, i < j PROVE Before(b[i], b[j])
    <3>1. m + i < m + j
      BY <1>1, <2>2
    <3>2. Before(ab[m + i], ab[m + j])
      BY <1>1, <1>2, <1>3, <3>1, Zenon DEF Increasing
    <3> QED
      BY <1>2, <3>2
  <2>3. ASSUME NEW i \in 1 .. m, NEW j \in 1 .. n PROVE Before(a[i], b[j])
    <3>1. i < m + j
      BY <1>1
    <3>2. Before(ab[i], ab[m + j])
      BY <1>1, <1>2, <1>3, <3>1, Zenon DEF Increasing
    <3> QED
      BY <1>2, <3>2
  <2> QED
    BY <1>1, <2>1, <2>2, <2>3 DEF Increasing, Elems
<1>4. ASSUME Increasing(a), Increasing(b),
             \A x \in Elems(a), y \in Elems(b) : Before(x, y)
      PROVE  Increasing(ab)
  <2>1. ASSUME NEW i \in 1 .. m + n, NEW j \in 1 .. m + n, i < j
        PROVE  Before(ab[i], ab[j])
    <3>1. CASE j <= m
      <4>1. i \in 1 .. m /\ j \in 1 .. m
        BY <1>1, <2>1, <3>1
      <4> QED
        BY <1>1, <1>2, <1>4, <2>1, <4>1 DEF Increasing
    <3>2. CASE i <= m /\ ~(j <= m)
      <4>1. i \in 1 .. m /\ j - m \in 1 .. n
        BY <1>1, <2>1, <3>2
      <4>2. ab[i] = a[i] /\ ab[j] = b[j - m]
        BY <1>1, <3>2
      <4>3. a[i] \in Elems(a) /\ b[j - m] \in Elems(b)
        BY <1>1, <4>1, Zenon DEF Elems
      <4> QED
        BY <1>4, <4>2, <4>3
    <3>3. CASE ~(i <= m)
      <4>1. i - m \in 1 .. n /\ j - m \in 1 .. n /\ i - m < j - m /\ ~(j <= m)
        BY <1>1, <2>1, <3>3
      <4>2. ab[i] = b[i - m] /\ ab[j] = b[j - m]
        BY <1>1, <3>3, <4>1
      <4>3. Before(b[i - m], b[j - m])
        BY <1>1, <1>4, <4>1 DEF Increasing
      <4> QED
        BY <4>2, <4>3
    <3> QED
      BY <3>1, <3>2, <3>3
  <2> QED
    BY <1>1, <2>1 DEF Increasing
<1> QED
  BY <1>3, <1>4 DEF ab

\* The empty sequence and a single item.
LEMMA SmallParts ==
  /\ Elems(<<>>) = {} /\ Increasing(<<>>)
  /\ \A x \in Item : Elems(<<x>>) = {x} /\ Increasing(<<x>>)
BY DEF Elems, Increasing

\* The items of the groups of a context are the elements of its flat items.
LEMMA ItemsAreFlat ==
  ASSUME NEW groups \in Seq(Group)
  PROVE  Items(groups) = Elems(FlatItems(groups))
<1> DEFINE P(n) == \A gs \in Seq(Group) :
                     Len(gs) = n => Items(gs) = Elems(FlatItems(gs))
           T == {n \in Nat : P(n)}
<1>0. \A n \in Nat : n \in T <=> P(n)
  OBVIOUS
<1> HIDE DEF T, P
<1>1. P(0)
  <2>1. ASSUME NEW gs \in Seq(Group), Len(gs) = 0
        PROVE  Items(gs) = Elems(FlatItems(gs))
    <3>1. gs = <<>> /\ DOMAIN gs = {}
      BY <2>1, EmptySeq
    <3>2. Items(gs) = {}
      BY <3>1 DEF Items
    <3> QED
      BY <3>1, <3>2, FlatItemsEmpty, SmallParts, Zenon
  <2> QED
    BY <2>1, Zenon DEF P
<1>2. ASSUME NEW n \in Nat, P(n) PROVE P(n + 1)
  <2>1. ASSUME NEW gs \in Seq(Group), Len(gs) = n + 1
        PROVE  Items(gs) = Elems(FlatItems(gs))
    <3>1. gs # <<>>
      BY <2>1, EmptySeq
    <3>2. PICK front \in Seq(Group), last \in Group : gs = Append(front, last)
      BY <3>1, SequenceEmptyOrAppend
    <3>3. /\ Len(gs) = Len(front) + 1 /\ Len(front) \in Nat
          /\ \A i \in 1 .. Len(front) : gs[i] = front[i]
          /\ gs[Len(front) + 1] = last
          /\ DOMAIN gs = 1 .. Len(front) + 1 /\ DOMAIN front = 1 .. Len(front)
      BY <3>2, AppendProperties, LenProperties
    <3>4. Items(gs) = Items(front) \union Elems(last.items)
      <4>1. DOMAIN gs = DOMAIN front \union {Len(front) + 1}
        BY <3>3
      <4> QED
        BY <3>3, <4>1 DEF Items, Elems
    <3>5. Len(front) = n
      <4>1. Len(front) \in Nat /\ Len(front) + 1 = n + 1
        BY <2>1, <3>3
      <4> QED
        BY <4>1
    <3>6. Items(front) = Elems(FlatItems(front))
      BY <1>2, <3>5 DEF P
    <3>7. FlatItems(gs) = FlatItems(front) \o last.items
      BY <3>2, FlatItemsAppend
    <3>8. FlatItems(front) \in Seq(Item) /\ last.items \in Seq(Item)
      BY FlatItemsType, Zenon DEF Group
    <3>9. Elems(FlatItems(front) \o last.items)
            = Elems(FlatItems(front)) \union Elems(last.items)
      BY <3>8, ConcatElems
    <3> QED
      BY <3>4, <3>6, <3>7, <3>9
  <2> QED
    BY <2>1 DEF P
<1>3. 0 \in T /\ \A n \in Nat : n \in T => n + 1 \in T
  BY <1>0, <1>1, <1>2
<1>4. Nat \subseteq T
  BY <1>3, SetInduction
<1>5. Len(groups) \in Nat
  BY LenProperties
<1>6. P(Len(groups))
  BY <1>0, <1>4, <1>5
<1> QED
  BY <1>6 DEF P

-----------------------------------------------------------------------------
(***************************************************************************)
(* The inductive invariant of the output.  q is the abstract queue, em the *)
(* emitted items, t the number of requests and sup the number of parts     *)
(* supplied for each one.  The entry at position k of the queue holds only *)
(* items of its own request, in the order they were supplied; what was     *)
(* emitted belongs to the oldest request in progress or to an earlier one, *)
(* and comes before everything that is still queued.                       *)
(***************************************************************************)
Delivery(q, em, t, sup) ==
  /\ Increasing(em)
  /\ \A k \in DOMAIN q :
       /\ Increasing(q[k].pending)
       /\ \A x \in Elems(q[k].pending) :
            x[1] = (t - Len(q)) + (k - 1) /\ x[2] <= sup[x[1]]
  /\ \A x \in Elems(em) : x[1] <= t - Len(q) /\ x[1] < t /\ x[2] <= sup[x[1]]
  /\ \A k \in DOMAIN q : \A x \in Elems(em), y \in Elems(q[k].pending) : Before(x, y)

\* Items are pairs of numbers.
LEMMA ItemNumbers ==
  /\ \A x \in Item : x[1] \in Request /\ x[1] \in Int /\ x[2] \in Int
  /\ \A sup \in Parts : \A s \in Request : sup[s] \in Int
  /\ \A a \in Seq(Item) : Elems(a) \subseteq Item
  /\ \A q \in Seq(Entry) : \A k \in DOMAIN q :
       q[k].pending \in Seq(Item) /\ k \in Int /\ Len(q) \in Int /\ q[k] \in Entry
       /\ k >= 1 /\ k <= Len(q)
<1>1. \A x \in Item : x[1] \in Request /\ x[1] \in Int /\ x[2] \in Int
  BY BoundsAssumption DEF Item, Request
<1>2. \A sup \in Parts : \A s \in Request : sup[s] \in Int
  BY BoundsAssumption DEF Parts
<1>3. ASSUME NEW a \in Seq(Item) PROVE Elems(a) \subseteq Item
  BY LenProperties, ElementOfSeq DEF Elems
<1>4. ASSUME NEW q \in Seq(Entry), NEW k \in DOMAIN q
      PROVE  /\ q[k].pending \in Seq(Item) /\ k \in Int /\ Len(q) \in Int
             /\ q[k] \in Entry /\ k >= 1 /\ k <= Len(q)
  <2>1. DOMAIN q = 1 .. Len(q) /\ Len(q) \in Nat
    BY LenProperties
  <2>2. q[k] \in Entry
    BY <2>1, ElementOfSeq
  <2> QED
    BY <2>1, <2>2 DEF Entry
<1> QED
  BY <1>1, <1>2, <1>3, <1>4

\* A new request at the end of the queue.
LEMMA OpenDelivers ==
  ASSUME NEW q \in Seq(Entry), NEW em \in Seq(Item), NEW t \in Nat, NEW sup \in Parts,
         NEW e \in Entry, e.pending = <<>>, Delivery(q, em, t, sup)
  PROVE  Delivery(Append(q, e), em, t + 1, sup)
<1> DEFINE r == Append(q, e)
           n == Len(q)
<1>1. /\ Len(r) = n + 1 /\ n \in Nat /\ DOMAIN q = 1 .. n /\ DOMAIN r = 1 .. n + 1
      /\ \A i \in 1 .. n : r[i] = q[i]
      /\ r[n + 1] = e
  BY AppendProperties, LenProperties
<1> HIDE DEF r, n
<1>2. (t + 1) - Len(r) = t - n /\ t < t + 1 /\ n = Len(q)
  BY <1>1 DEF n
<1>3. ASSUME NEW k \in DOMAIN r
      PROVE  \/ k \in DOMAIN q /\ r[k] = q[k]
             \/ Elems(r[k].pending) = {} /\ Increasing(r[k].pending)
  <2>1. k \in 1 .. n \/ k = n + 1
    BY <1>1
  <2>2. CASE k \in 1 .. n
    BY <1>1, <2>2
  <2>3. CASE k = n + 1
    <3>1. r[k].pending = <<>>
      BY <1>1, <2>3
    <3> QED
      BY <3>1, SmallParts
  <2> QED
    BY <2>1, <2>2, <2>3
<1>4. \A x \in Elems(em) : x[1] < t + 1
  <2>1. \A x \in Elems(em) : x[1] \in Int /\ x[1] < t
    BY ItemNumbers DEF Delivery
  <2> QED
    BY <2>1
<1> QED
  BY <1>2, <1>3, <1>4, Zenon DEF Delivery, r

\* The number of supplied parts grows: nothing else changes when a part is refused.
LEMMA RefuseDelivers ==
  ASSUME NEW q \in Seq(Entry), NEW em \in Seq(Item), NEW t \in Nat, NEW sup \in Parts,
         NEW s \in Request, Delivery(q, em, t, sup)
  PROVE  Delivery(q, em, t, [sup EXCEPT ![s] = @ + 1])
<1> DEFINE new == [sup EXCEPT ![s] = @ + 1]
<1>1. \A r \in Request : sup[r] \in Int /\ new[r] \in Int /\ sup[r] <= new[r]
  BY ItemNumbers DEF Parts
<1> HIDE DEF new
<1>2. \A x \in Item : x[2] <= sup[x[1]] => x[2] <= new[x[1]]
  BY <1>1, ItemNumbers
<1>3. \A k \in DOMAIN q : Elems(q[k].pending) \subseteq Item
  BY ItemNumbers
<1>4. Elems(em) \subseteq Item
  BY ItemNumbers
<1> QED
  BY <1>2, <1>3, <1>4 DEF Delivery, new

\* A part supplied to the entry of its request.
LEMMA SupplyDelivers ==
  ASSUME NEW q \in Seq(Entry), NEW em \in Seq(Item), NEW t \in Nat, NEW sup \in Parts,
         NEW i \in 1 .. Len(q), NEW s \in Request, s = (t - Len(q)) + (i - 1),
         NEW part \in Seq(Item), part \in {<<>>, <<<<s, sup[s] + 1>>>>},
         NEW e \in Entry, e.pending = q[i].pending \o part, Delivery(q, em, t, sup)
  PROVE  Delivery([q EXCEPT ![i] = e], em, t, [sup EXCEPT ![s] = @ + 1])
<1> DEFINE r == [q EXCEPT ![i] = e]
           new == [sup EXCEPT ![s] = @ + 1]
           p == q[i].pending
           n == Len(q)
<1>1. /\ Len(r) = n /\ n \in Nat /\ DOMAIN q = 1 .. n /\ DOMAIN r = 1 .. n
      /\ \A j \in 1 .. n : r[j] = IF j = i THEN e ELSE q[j]
  <2>1. r \in Seq(Entry) /\ Len(r) = n
    BY ExceptSeq
  <2> QED
    BY <2>1, ExceptSeq, LenProperties
<1>2. Delivery(q, em, t, new)
  BY RefuseDelivers, Zenon
<1>3. new[s] = sup[s] + 1 /\ sup[s] \in Int
  BY ItemNumbers DEF Parts
<1>4. p \in Seq(Item) /\ i \in DOMAIN q /\ Elems(p) \subseteq Item /\ Elems(em) \subseteq Item
  BY <1>1, ItemNumbers, SMTT(30)
<1>5. \A x \in Elems(part) : x[1] = s /\ x[2] = sup[s] + 1
  <2>1. CASE part = <<>>
    BY <2>1, SmallParts
  <2>2. CASE part = <<<<s, sup[s] + 1>>>>
    BY <2>2 DEF Elems
  <2> QED
    BY <2>1, <2>2
<1>6. Increasing(part)
  <2>1. CASE part = <<>>
    BY <2>1, SmallParts
  <2>2. CASE part = <<<<s, sup[s] + 1>>>>
    BY <2>2 DEF Increasing
  <2> QED
    BY <2>1, <2>2
<1> HIDE DEF r, new, p, n
<1>7. Elems(e.pending) = Elems(p) \union Elems(part)
  BY <1>4, ConcatElems DEF p
<1>8. \A x \in Elems(p) : x[1] = s /\ x[2] <= sup[s] /\ x[2] \in Int
  BY <1>4, ItemNumbers, SMTT(30) DEF Delivery, p
<1>9. \A x \in Elems(p), y \in Elems(part) : Before(x, y)
  BY <1>3, <1>5, <1>8, SMTT(30) DEF Before
<1>10. Increasing(e.pending)
  <2>1. Increasing(p)
    BY <1>4 DEF Delivery, p
  <2> QED
    BY <1>4, <1>6, <1>9, <2>1, ConcatIncreasing DEF p
<1>11. \A x \in Elems(e.pending) : x[1] = (t - n) + (i - 1) /\ x[2] <= new[x[1]]
  <2>1. ASSUME NEW x \in Elems(p) \union Elems(part)
        PROVE  x[1] = s /\ x[2] <= sup[s] + 1
    <3>1. CASE x \in Elems(p)
      BY <1>3, <1>8, <3>1, SMTT(30)
    <3>2. CASE x \in Elems(part)
      BY <1>3, <1>5, <3>2
    <3> QED
      BY <3>1, <3>2
  <2> QED
    BY <1>3, <1>7, <2>1 DEF n
<1>12. \A x \in Elems(em), y \in Elems(part) : Before(x, y)
  <2>1. ASSUME NEW x \in Elems(em), NEW y \in Elems(part) PROVE Before(x, y)
    <3>1. x[1] \in Int /\ x[2] \in Int /\ x[1] <= t - n /\ x[2] <= sup[x[1]]
      BY <1>4, ItemNumbers DEF Delivery, n
    <3>2. y[1] = s /\ y[2] = sup[s] + 1 /\ s \in Int /\ s >= t - n
      <4>1. s \in Int /\ n \in Int /\ i \in Int /\ i >= 1 /\ s = (t - n) + (i - 1)
        BY <1>1, BoundsAssumption DEF n, Request
      <4> QED
        BY <1>5, <4>1
    <3>3. CASE x[1] < s
      BY <3>2, <3>3 DEF Before
    <3>4. CASE x[1] = s
      BY <1>3, <3>1, <3>2, <3>4 DEF Before
    <3>5. x[1] < s \/ x[1] = s
      <4>1. n \in Int /\ t \in Int /\ x[1] \in Int /\ s \in Int
            /\ x[1] <= t - n /\ s >= t - n /\ t - n \in Int
        BY <1>1, <3>1, <3>2
      <4>2. \A a, b, c \in Int : a <= c /\ b >= c => a < b \/ a = b
        OBVIOUS
      <4> QED
        BY ONLY <4>1, <4>2
    <3> QED
      BY <3>3, <3>4, <3>5
  <2> QED
    BY <2>1
<1>13. \A x \in Elems(em), y \in Elems(p) : Before(x, y)
  BY <1>4 DEF Delivery, p
<1>14. \A k \in 1 .. n :
         /\ Increasing(r[k].pending)
         /\ \A x \in Elems(r[k].pending) :
              x[1] = (t - n) + (k - 1) /\ x[2] <= new[x[1]]
         /\ \A x \in Elems(em), y \in Elems(r[k].pending) : Before(x, y)
  <2>1. ASSUME NEW k \in 1 .. n
        PROVE  /\ Increasing(r[k].pending)
               /\ \A x \in Elems(r[k].pending) :
                    x[1] = (t - n) + (k - 1) /\ x[2] <= new[x[1]]
               /\ \A x \in Elems(em), y \in Elems(r[k].pending) : Before(x, y)
    <3>1. CASE k = i
      <4>1. r[k] = e
        BY <1>1, <3>1
      <4> QED
        BY <1>7, <1>10, <1>11, <1>12, <1>13, <3>1, <4>1, Zenon
    <3>2. CASE k # i
      <4>1. r[k] = q[k] /\ k \in DOMAIN q
        BY <1>1, <3>2
      <4> QED
        BY <1>2, <4>1 DEF Delivery, n
    <3> QED
      BY <3>1, <3>2
  <2> QED
    BY <2>1
<1>15. Delivery(r, em, t, new)
  BY <1>1, <1>2, <1>14, SMTT(30) DEF Delivery, n
<1> QED
  BY <1>15 DEF r, new

\* What both kinds of emission have in common: out is the first part of the oldest
\* response, rest what is left of it.
EmissionInOrder(q, em, t, sup, out, rest) ==
  /\ Increasing(em \o out) /\ Increasing(rest)
  /\ Elems(em \o out) = Elems(em) \union Elems(out)
  /\ Elems(rest) \subseteq Elems(q[1].pending)
  /\ Elems(q[1].pending) = Elems(out) \union Elems(rest)
  /\ \A x \in Elems(em \o out) : x[1] <= t - Len(q) /\ x[1] < t /\ x[2] <= sup[x[1]]
  /\ \A x \in Elems(em \o out), y \in Elems(rest) : Before(x, y)
  /\ \A k \in 2 .. Len(q) :
       \A x \in Elems(em \o out), y \in Elems(q[k].pending) : Before(x, y)
  /\ DOMAIN q = 1 .. Len(q) /\ Len(q) \in Nat /\ Len(q) >= 1

\* The order that the invariant gives to an emission.
LEMMA EmitOrders ==
  ASSUME NEW q \in Seq(Entry), NEW em \in Seq(Item), NEW t \in Nat, NEW sup \in Parts,
         q # <<>>, NEW out \in Seq(Item), NEW rest \in Seq(Item),
         q[1].pending = out \o rest, Delivery(q, em, t, sup)
  PROVE  EmissionInOrder(q, em, t, sup, out, rest)
<1> DEFINE n == Len(q)
           p == q[1].pending
<1>1. DOMAIN q = 1 .. n /\ n \in Nat /\ n >= 1 /\ 1 \in DOMAIN q
  BY LenProperties, EmptySeq
<1>2. /\ Increasing(em) /\ Increasing(p)
      /\ \A x \in Elems(p) : x[1] = (t - n) + (1 - 1) /\ x[2] <= sup[x[1]]
      /\ \A x \in Elems(em) : x[1] <= t - n /\ x[1] < t /\ x[2] <= sup[x[1]]
      /\ \A x \in Elems(em), y \in Elems(p) : Before(x, y)
  BY <1>1, Zenon DEF Delivery
<1>3. Elems(p) = Elems(out) \union Elems(rest)
  BY ConcatElems
<1>4. /\ Increasing(out) /\ Increasing(rest)
      /\ \A x \in Elems(out), y \in Elems(rest) : Before(x, y)
  BY <1>2, ConcatIncreasing
<1>5. Elems(em \o out) = Elems(em) \union Elems(out)
  BY ConcatElems
<1>6. Increasing(em \o out)
  BY <1>2, <1>3, <1>4, ConcatIncreasing
<1> HIDE DEF n, p
<1>7. ASSUME NEW x \in Elems(em \o out)
      PROVE  x[1] <= t - n /\ x[1] < t /\ x[2] <= sup[x[1]]
  <2>1. CASE x \in Elems(em)
    BY <1>2, <2>1
  <2>2. CASE x \in Elems(out)
    <3>1. x[1] = (t - n) + (1 - 1) /\ x[2] <= sup[x[1]]
      BY <1>2, <1>3, <2>2
    <3>2. (t - n) + (1 - 1) <= t - n /\ (t - n) + (1 - 1) < t
      BY <1>1
    <3> QED
      BY <3>1, <3>2
  <2> QED
    BY <1>5, <2>1, <2>2
<1>8. \A x \in Elems(em \o out), y \in Elems(rest) : Before(x, y)
  BY <1>2, <1>3, <1>4, <1>5
<1>9. ASSUME NEW k \in 2 .. n, NEW x \in Elems(em \o out), NEW y \in Elems(q[k].pending)
      PROVE  Before(x, y)
  <2>1. k \in DOMAIN q
    BY <1>1
  <2>2. y[1] = (t - n) + (k - 1)
    BY <2>1 DEF Delivery, n
  <2>3. x[1] <= t - n /\ x[1] \in Int
    <3>1. Elems(em) \subseteq Item /\ Elems(out) \subseteq Item
      BY ItemNumbers
    <3> QED
      BY <1>5, <1>7, <3>1, ItemNumbers
  <2>4. x[1] < (t - n) + (k - 1)
    <3>1. t - n \in Int /\ t - n < (t - n) + (k - 1) /\ (t - n) + (k - 1) \in Int
      BY <1>1
    <3>2. \A a, b, c \in Int : a <= b /\ b < c => a < c
      OBVIOUS
    <3> QED
      BY ONLY <2>3, <3>1, <3>2
  <2> QED
    BY <2>2, <2>4 DEF Before
<1> QED
  BY <1>1, <1>3, <1>4, <1>5, <1>6, <1>7, <1>8, <1>9 DEF EmissionInOrder, n, p

\* A part of the oldest response leaves.
LEMMA EmitDelivers ==
  ASSUME NEW q \in Seq(Entry), NEW em \in Seq(Item), NEW t \in Nat, NEW sup \in Parts,
         q # <<>>, NEW out \in Seq(Item), NEW rest \in Seq(Item),
         q[1].pending = out \o rest, Delivery(q, em, t, sup)
  PROVE  Delivery([q EXCEPT ![1].pending = rest], em \o out, t, sup)
<1> DEFINE n == Len(q)
           e == [q[1] EXCEPT !.pending = rest]
           r == [q EXCEPT ![1] = e]
<1>1. /\ Increasing(em \o out) /\ Increasing(rest)
      /\ Elems(rest) \subseteq Elems(q[1].pending)
      /\ \A x \in Elems(em \o out) : x[1] <= t - n /\ x[1] < t /\ x[2] <= sup[x[1]]
      /\ \A x \in Elems(em \o out), y \in Elems(rest) : Before(x, y)
      /\ \A k \in 2 .. n :
           \A x \in Elems(em \o out), y \in Elems(q[k].pending) : Before(x, y)
      /\ DOMAIN q = 1 .. n /\ n \in Nat /\ n >= 1
  <2>1. EmissionInOrder(q, em, t, sup, out, rest)
    BY EmitOrders, Zenon
  <2> QED
    BY <2>1 DEF EmissionInOrder
<1>2. e \in Entry /\ e.pending = rest
  <2>1. q[1] \in Entry
    BY <1>1, ItemNumbers
  <2> QED
    BY <2>1, Zenon DEF Entry
<1> HIDE DEF e
<1>3. /\ Len(r) = n /\ DOMAIN r = 1 .. n
      /\ \A j \in 1 .. n : r[j] = IF j = 1 THEN e ELSE q[j]
  <2>1. 1 \in 1 .. Len(q)
    BY <1>1
  <2>2. r \in Seq(Entry) /\ Len(r) = n
    BY <1>2, <2>1, ExceptSeq
  <2> QED
    BY <1>2, <2>1, <2>2, ExceptSeq, LenProperties
<1> HIDE DEF n, r
<1>4. ASSUME NEW k \in 1 .. n
      PROVE  /\ Increasing(r[k].pending)
             /\ \A x \in Elems(r[k].pending) :
                  x[1] = (t - n) + (k - 1) /\ x[2] <= sup[x[1]]
             /\ \A x \in Elems(em \o out), y \in Elems(r[k].pending) : Before(x, y)
  <2>1. CASE k = 1
    <3>1. r[k].pending = rest /\ k \in DOMAIN q
      BY <1>1, <1>2, <1>3, <2>1
    <3>2. \A x \in Elems(rest) : x[1] = (t - n) + (k - 1) /\ x[2] <= sup[x[1]]
      BY <1>1, <2>1, <3>1, Zenon DEF Delivery, n
    <3> QED
      BY <1>1, <3>1, <3>2
  <2>2. CASE k # 1
    <3>1. r[k] = q[k] /\ k \in DOMAIN q /\ k \in 2 .. n
      BY <1>1, <1>3, <2>2
    <3>2. /\ Increasing(q[k].pending)
          /\ \A x \in Elems(q[k].pending) :
               x[1] = (t - n) + (k - 1) /\ x[2] <= sup[x[1]]
      BY <3>1 DEF Delivery, n
    <3> QED
      BY <1>1, <3>1, <3>2
  <2> QED
    BY <2>1, <2>2
<1>5. Delivery(r, em \o out, t, sup)
  BY <1>1, <1>3, <1>4 DEF Delivery
<1>6. r = [q EXCEPT ![1].pending = rest]
  BY DEF r, e
<1> QED
  BY <1>5, <1>6

\* The last part of the oldest response leaves and the response with it.
LEMMA EmitLastDelivers ==
  ASSUME NEW q \in Seq(Entry), NEW em \in Seq(Item), NEW t \in Nat, NEW sup \in Parts,
         q # <<>>, NEW out \in Seq(Item), q[1].pending = out, Delivery(q, em, t, sup)
  PROVE  Delivery(Tail(q), em \o out, t, sup)
<1> DEFINE n == Len(q)
           r == Tail(q)
<1>0. <<>> \in Seq(Item) /\ q[1].pending = out \o <<>>
  BY EmptySeq, ConcatEmptySeq
<1>1. /\ Increasing(em \o out)
      /\ \A x \in Elems(em \o out) : x[1] <= t - n /\ x[1] < t /\ x[2] <= sup[x[1]]
      /\ \A k \in 2 .. n :
           \A x \in Elems(em \o out), y \in Elems(q[k].pending) : Before(x, y)
      /\ DOMAIN q = 1 .. n /\ n \in Nat /\ n >= 1
      /\ Elems(em \o out) = Elems(em) \union Elems(out)
  <2>1. EmissionInOrder(q, em, t, sup, out, <<>>)
    BY <1>0, EmitOrders, Zenon
  <2> QED
    BY <2>1 DEF EmissionInOrder
<1>2. /\ Len(r) = n - 1 /\ DOMAIN r = 1 .. n - 1
      /\ \A j \in 1 .. n - 1 : r[j] = q[j + 1]
  <2>1. r \in Seq(Entry) /\ Len(r) = n - 1
    BY HeadTailProperties
  <2> QED
    BY <2>1, HeadTailProperties, LenProperties
<1> HIDE DEF n, r
<1>3. ASSUME NEW x \in Elems(em \o out)
      PROVE  x[1] <= t - Len(r)
  <2>1. x[1] \in Int
    <3>1. Elems(em) \subseteq Item /\ Elems(out) \subseteq Item
      BY ItemNumbers
    <3> QED
      BY <1>1, <3>1, ItemNumbers
  <2>2. t - n \in Int /\ t - Len(r) \in Int /\ t - n <= t - Len(r)
    BY <1>1, <1>2
  <2>3. \A a, b, c \in Int : a <= b /\ b <= c => a <= c
    OBVIOUS
  <2>4. x[1] <= t - n
    BY <1>1
  <2> QED
    BY ONLY <2>1, <2>2, <2>3, <2>4
<1>4. ASSUME NEW k \in 1 .. n - 1
      PROVE  /\ Increasing(r[k].pending)
             /\ \A x \in Elems(r[k].pending) :
                  x[1] = (t - Len(r)) + (k - 1) /\ x[2] <= sup[x[1]]
             /\ \A x \in Elems(em \o out), y \in Elems(r[k].pending) : Before(x, y)
  <2>1. r[k] = q[k + 1] /\ k + 1 \in DOMAIN q /\ k + 1 \in 2 .. n
    BY <1>1, <1>2
  <2>2. (t - n) + ((k + 1) - 1) = (t - Len(r)) + (k - 1)
    BY <1>1, <1>2
  <2>3. /\ Increasing(q[k + 1].pending)
        /\ \A x \in Elems(q[k + 1].pending) :
             x[1] = (t - n) + ((k + 1) - 1) /\ x[2] <= sup[x[1]]
    BY <2>1, Zenon DEF Delivery, n
  <2> QED
    BY <1>1, <2>1, <2>2, <2>3, Zenon
<1>5. Delivery(r, em \o out, t, sup)
  BY <1>1, <1>2, <1>3, <1>4 DEF Delivery
<1> QED
  BY <1>5 DEF r

\* Nothing more is emitted after reset().
LEMMA AbandonDelivers ==
  ASSUME NEW q \in Seq(Entry), NEW em \in Seq(Item), NEW t \in Nat, NEW sup \in Parts,
         Delivery(q, em, t, sup)
  PROVE  Delivery(<<>>, em, t, sup)
<1>1. DOMAIN <<>> = {} /\ t - Len(<<>>) = t
  OBVIOUS
<1>2. \A x \in Elems(em) : x[1] <= t
  <2>1. \A x \in Elems(em) : x[1] \in Int /\ x[1] < t
    BY ItemNumbers DEF Delivery
  <2> QED
    BY <2>1
<1> QED
  BY <1>1, <1>2 DEF Delivery

-----------------------------------------------------------------------------
(* The items that are queued *)

AllPending(q) == UNION {Elems(q[k].pending) : k \in DOMAIN q}

\* The queued items are the pending items of the abstract queue.
LEMMA QueuedArePending ==
  ASSUME coord \in Coordinator
  PROVE  QueuedItems = AllPending(QueueOf(coord))
<1> DEFINE n == coord.exists
           q == QueueOf(coord)
<1>1. /\ DOMAIN q = 1 .. n /\ n \in Nat
      /\ \A k \in 0 .. n - 1 : q[k + 1] = EntryOf(Ctx(coord, k))
  BY QueueType
<1>2. ASSUME NEW k \in 0 .. n - 1
      PROVE  Items(coord.ctx[Slot(coord, k)].groups) = Elems(q[k + 1].pending)
  <2>1. Ctx(coord, k).groups \in Seq(Group)
    BY CtxType DEF Context
  <2>2. Items(Ctx(coord, k).groups) = Elems(FlatItems(Ctx(coord, k).groups))
    BY <2>1, ItemsAreFlat
  <2>3. q[k + 1] = EntryOf(Ctx(coord, k))
    BY <1>1
  <2>4. q[k + 1].pending = FlatItems(Ctx(coord, k).groups)
    BY <2>3 DEF EntryOf
  <2> QED
    BY <2>2, <2>4 DEF Ctx
<1> HIDE DEF q, n
<1>3. ASSUME NEW x PROVE x \in QueuedItems <=> x \in AllPending(q)
  <2>1. x \in QueuedItems <=>
          \E k \in 0 .. n - 1 : x \in Items(coord.ctx[Slot(coord, k)].groups)
    BY DEF QueuedItems, n
  <2>2. x \in AllPending(q) <=> \E k \in 1 .. n : x \in Elems(q[k].pending)
    BY <1>1 DEF AllPending
  <2>3. /\ \A k \in 0 .. n - 1 : k + 1 \in 1 .. n
        /\ \A k \in 1 .. n : k - 1 \in 0 .. n - 1 /\ (k - 1) + 1 = k
    BY <1>1
  <2>4. ASSUME NEW k \in 1 .. n, x \in Elems(q[k].pending)
        PROVE  \E j \in 0 .. n - 1 : x \in Items(coord.ctx[Slot(coord, j)].groups)
    <3>1. Items(coord.ctx[Slot(coord, k - 1)].groups) = Elems(q[(k - 1) + 1].pending)
      BY <1>2, <2>3
    <3>2. (k - 1) + 1 = k /\ k - 1 \in 0 .. n - 1
      BY <2>3
    <3> QED
      BY <2>4, <3>1, <3>2
  <2> QED
    BY <1>2, <2>1, <2>2, <2>3, <2>4
<1> QED
  BY <1>3 DEF q

\* A new request has no pending items.
LEMMA PendingOpen ==
  ASSUME NEW q \in Seq(Entry), NEW e \in Entry, e.pending = <<>>
  PROVE  AllPending(Append(q, e)) = AllPending(q)
<1> DEFINE r == Append(q, e)
           n == Len(q)
<1>1. /\ n \in Nat /\ DOMAIN q = 1 .. n /\ DOMAIN r = 1 .. n + 1
      /\ \A i \in 1 .. n : r[i] = q[i]
      /\ r[n + 1] = e
  BY AppendProperties, LenProperties
<1> HIDE DEF r, n
<1>2. Elems(r[n + 1].pending) = {}
  BY <1>1, SmallParts
<1>3. \A k \in 1 .. n + 1 : k \in 1 .. n \/ k = n + 1
  BY <1>1
<1>4. \A k \in 1 .. n : k \in 1 .. n + 1
  BY <1>1
<1>5. AllPending(r) = AllPending(q)
  BY <1>1, <1>2, <1>3, <1>4 DEF AllPending
<1> QED
  BY <1>5 DEF r

\* Supplying a part adds its items.
LEMMA PendingSupply ==
  ASSUME NEW q \in Seq(Entry), NEW i \in 1 .. Len(q), NEW part \in Seq(Item),
         NEW e \in Entry, e.pending = q[i].pending \o part
  PROVE  AllPending([q EXCEPT ![i] = e]) = AllPending(q) \union Elems(part)
<1> DEFINE r == [q EXCEPT ![i] = e]
           n == Len(q)
<1>1. /\ DOMAIN q = 1 .. n /\ DOMAIN r = 1 .. n /\ i \in 1 .. n
      /\ \A j \in 1 .. n : r[j] = IF j = i THEN e ELSE q[j]
  <2>1. r \in Seq(Entry) /\ Len(r) = n
    BY ExceptSeq
  <2> QED
    BY <2>1, ExceptSeq, LenProperties
<1>2. q[i].pending \in Seq(Item)
  BY <1>1, ItemNumbers
<1> HIDE DEF r, n
<1>3. Elems(e.pending) = Elems(q[i].pending) \union Elems(part)
  BY <1>2, ConcatElems
<1>4. AllPending(r) = AllPending(q) \union Elems(part)
  BY <1>1, <1>3, Zenon DEF AllPending
<1> QED
  BY <1>4, Zenon DEF r

\* Emitting a part of the oldest response removes nothing else.
LEMMA PendingEmit ==
  ASSUME NEW q \in Seq(Entry), q # <<>>, NEW out \in Seq(Item), NEW rest \in Seq(Item),
         q[1].pending = out \o rest
  PROVE  AllPending(q) = Elems(out) \union AllPending([q EXCEPT ![1].pending = rest])
<1> DEFINE n == Len(q)
           e == [q[1] EXCEPT !.pending = rest]
           r == [q EXCEPT ![1] = e]
<1>1. n \in Nat /\ DOMAIN q = 1 .. n /\ 1 \in 1 .. n
  BY LenProperties, EmptySeq
<1>2. e \in Entry /\ e.pending = rest
  <2>1. q[1] \in Entry
    BY <1>1, ItemNumbers
  <2> QED
    BY <2>1, Zenon DEF Entry
<1> HIDE DEF e
<1>3. DOMAIN r = 1 .. n /\ \A j \in 1 .. n : r[j] = IF j = 1 THEN e ELSE q[j]
  <2>1. r \in Seq(Entry) /\ Len(r) = n
    BY <1>1, <1>2, ExceptSeq
  <2> QED
    BY <1>1, <1>2, <2>1, ExceptSeq, LenProperties
<1> HIDE DEF n, r
<1>4. Elems(q[1].pending) = Elems(out) \union Elems(rest)
  BY ConcatElems
<1>5. AllPending(q) = Elems(out) \union AllPending(r)
  <2>1. ASSUME NEW x
        PROVE  x \in AllPending(q) <=> x \in Elems(out) \union AllPending(r)
    <3>1. x \in AllPending(q) <=> \E k \in 1 .. n : x \in Elems(q[k].pending)
      BY <1>1 DEF AllPending
    <3>2. x \in AllPending(r) <=> \E k \in 1 .. n : x \in Elems(r[k].pending)
      BY <1>3 DEF AllPending
    <3>3. /\ Elems(r[1].pending) = Elems(rest)
          /\ \A k \in 1 .. n : k # 1 => r[k] = q[k]
      BY <1>1, <1>2, <1>3
    <3> QED
      BY <1>1, <1>4, <3>1, <3>2, <3>3, Zenon
  <2> QED
    BY <2>1
<1>6. r = [q EXCEPT ![1].pending = rest]
  BY DEF r, e
<1> QED
  BY <1>5, <1>6

\* Removing the oldest response removes its items.
LEMMA PendingEmitLast ==
  ASSUME NEW q \in Seq(Entry), q # <<>>
  PROVE  AllPending(q) = Elems(q[1].pending) \union AllPending(Tail(q))
<1> DEFINE n == Len(q)
           r == Tail(q)
<1>1. n \in Nat /\ DOMAIN q = 1 .. n /\ 1 \in 1 .. n
  BY LenProperties, EmptySeq
<1>2. DOMAIN r = 1 .. n - 1 /\ \A j \in 1 .. n - 1 : r[j] = q[j + 1]
  <2>1. r \in Seq(Entry) /\ Len(r) = n - 1
    BY HeadTailProperties
  <2> QED
    BY <2>1, HeadTailProperties, LenProperties
<1> HIDE DEF n, r
<1>3. ASSUME NEW x PROVE x \in AllPending(q) <=> x \in Elems(q[1].pending) \union AllPending(r)
  <2>1. x \in AllPending(q) <=> \E k \in 1 .. n : x \in Elems(q[k].pending)
    BY <1>1 DEF AllPending
  <2>2. x \in AllPending(r) <=> \E k \in 1 .. n - 1 : x \in Elems(q[k + 1].pending)
    BY <1>2 DEF AllPending
  <2>3. ASSUME NEW k \in 1 .. n, x \in Elems(q[k].pending), k # 1
        PROVE  \E j \in 1 .. n - 1 : x \in Elems(q[j + 1].pending)
    <3>1. k - 1 \in 1 .. n - 1 /\ (k - 1) + 1 = k
      BY <1>1, <2>3
    <3> QED
      BY <2>3, <3>1
  <2>4. \A k \in 1 .. n - 1 : k + 1 \in 1 .. n
    BY <1>1
  <2> QED
    BY <1>1, <2>1, <2>2, <2>3, <2>4
<1> QED
  BY <1>3 DEF r

-----------------------------------------------------------------------------
(* The output of the coordinator *)

OutInv ==
  /\ NumInv
  /\ Delivery(AbstractQueue, emitted, total, supplied)
  /\ ~dropped => accepted = Elems(emitted) \union AllPending(AbstractQueue)

\* What a step has to establish, in terms of the coordinator after it.
OutputAfter ==
  /\ Delivery(QueueOf(coord'), emitted', total', supplied')
  /\ ~dropped' => accepted' = Elems(emitted') \union AllPending(QueueOf(coord'))

\* The facts of the invariant that every step uses.
LEMMA OutFacts ==
  ASSUME OutInv
  PROVE  /\ coord \in Coordinator /\ RingInv(coord)
         /\ QueueOf(coord) \in Seq(Entry) /\ Len(QueueOf(coord)) = coord.exists
         /\ emitted \in Seq(Item) /\ supplied \in Parts
         /\ total \in Nat /\ dropped \in BOOLEAN
         /\ Delivery(QueueOf(coord), emitted, total, supplied)
         /\ ~dropped => accepted = Elems(emitted) \union AllPending(QueueOf(coord))
<1>1. /\ coord \in Coordinator /\ RingInv(coord) /\ emitted \in Seq(Item)
      /\ supplied \in Parts /\ total \in Nat /\ dropped \in BOOLEAN
  BY BoundsAssumption DEF OutInv, NumInv, IndInv, TypeOK, Parts
<1> QED
  BY <1>1, QueueType, MappedQueue DEF OutInv

\* An empty coordinator has emitted nothing.
LEMMA InitOut == Init => OutInv
<1> SUFFICES ASSUME Init PROVE OutInv
  OBVIOUS
<1>1. NumInv
  BY InitNum
<1>2. AbstractQueue = <<>>
  BY InitRefines DEF Pipeline!Init
<1>3. emitted = <<>> /\ accepted = {}
  BY DEF Init
<1>4. DOMAIN <<>> = {}
  OBVIOUS
<1>5. Delivery(AbstractQueue, emitted, total, supplied)
  BY <1>2, <1>3, <1>4, SmallParts DEF Delivery
<1>6. AllPending(AbstractQueue) = {}
  BY <1>2, <1>4 DEF AllPending
<1> QED
  BY <1>1, <1>3, <1>5, <1>6, SmallParts DEF OutInv

\* Registering a request.
LEMMA RegisterOut ==
  ASSUME OutInv, Register
  PROVE  OutputAfter
<1> DEFINE e == [pending |-> <<>>, final |-> FALSE, close |-> FALSE]
<1>1. ~IsFull(coord) /\ CleanFree(coord)
  BY OutFacts DEF Register, RingInv
<1>2. QueueOf(coord') = Append(QueueOf(coord), e)
  BY <1>1, OutFacts, RegisterOpens DEF Register
<1>3. e \in Entry /\ e.pending = <<>>
  BY EmptySeq DEF Entry
<1> HIDE DEF e
<1>4. /\ total' = total + 1 /\ emitted' = emitted /\ supplied' = supplied
      /\ accepted' = accepted /\ dropped' = dropped
  BY DEF Register
<1>5. Delivery(QueueOf(coord'), emitted', total', supplied')
  BY <1>2, <1>3, <1>4, OutFacts, OpenDelivers
<1>6. AllPending(QueueOf(coord')) = AllPending(QueueOf(coord))
  BY <1>2, <1>3, OutFacts, PendingOpen
<1> QED
  BY <1>4, <1>5, <1>6, OutFacts DEF OutputAfter

\* A part of a response goes to the entry of its own request, because
\* get_by_req_id() is exact.
LEMMA SupplyOut ==
  ASSUME MaxRequests <= ReqIdModulus, OutInv,
         NEW s \in Request, NEW fl \in Flags, NEW notify \in BOOLEAN,
         NEW empty \in BOOLEAN, Supply(s, fl, notify, empty)
  PROVE  OutputAfter
<1> DEFINE item  == <<s, supplied[s] + 1>>
           notif == IF notify THEN item ELSE NoNotif
           part  == IF empty THEN <<>> ELSE <<item>>
           wg    == [items |-> part, status |-> supplied[s] = 0, notif |-> notif]
           Q     == QueueOf(coord)
           new   == [supplied EXCEPT ![s] = @ + 1]
<1>1. /\ supplied' = new /\ emitted' = emitted /\ total' = total /\ dropped' = dropped
      /\ s < total
  BY DEF Supply
<1>2. item \in Item
  <2>1. supplied \in [Request -> 0 .. MaxParts]
    BY OutFacts DEF Parts
  <2>2. supplied[s] + 1 \in 1 .. MaxParts
    BY <2>1, BoundsAssumption DEF Supply
  <2> QED
    BY <2>2 DEF Item
<1>3. /\ wg \in Group /\ wg.items = part /\ part \in Seq(Item)
      /\ part \in {<<>>, <<<<s, supplied[s] + 1>>>>}
  <2>1. <<>> \in Seq(Item) /\ <<item>> \in Seq(Item)
    BY <1>2
  <2>2. notif \in Item \union {NoNotif}
    BY <1>2
  <2>3. part \in Seq(Item) /\ part \in {<<>>, <<item>>}
    BY <2>1
  <2>4. wg \in Group /\ wg.items = part
    <3> HIDE DEF notif, item, part
    <3> QED
      BY <2>2, <2>3 DEF Group
  <2> QED
    BY <2>3, <2>4
<1>4. Id(s) \in 0 .. ReqIdModulus - 1
  BY ReqIdModulusAssumption, BoundsAssumption DEF Id, Request
<1>5. CASE AppendThrows(coord, Id(s))
  <2>1. coord' = coord /\ accepted' = accepted
    BY <1>5 DEF Supply
  <2>2. Delivery(QueueOf(coord), emitted, total, new)
    BY OutFacts, RefuseDelivers, Zenon
  <2> QED
    BY <1>1, <2>1, <2>2, OutFacts DEF OutputAfter
<1>6. CASE ~AppendThrows(coord, Id(s))
  <2>1. /\ coord' = AppendResponse(coord, Id(s), fl, wg)
        /\ accepted' = IF empty THEN accepted ELSE accepted \union {item}
    BY <1>6 DEF Supply
  <2>2. accepted' = accepted \union Elems(part)
    <3>1. CASE empty
      BY <2>1, <3>1, SmallParts
    <3>2. CASE ~empty
      BY <1>2, <2>1, <3>2, SmallParts
    <3> QED
      BY <3>1, <3>2
  <2> HIDE DEF wg, part, item, new
  <2>3. PICK q \in 0 .. coord.exists - 1 :
          /\ GetByReqId(coord, Id(s)) = Slot(coord, q)
          /\ SuppliedTo(q + 1, wg.items, fl, Q, QueueOf(coord'))
    <3>1. ClimbingIds(coord) /\ wg \in Group /\ coord \in Coordinator
      BY <1>3, OutFacts DEF RingInv
    <3> QED
      BY <1>4, <1>6, <2>1, <3>1, AppendSupplies
  <2>4. coord.exists \in 0 .. MaxReq /\ MaxReq \in Nat /\ coord \in Coordinator
    BY OutFacts, MaxReqAssumption DEF Coordinator
  <2>5. s \in Int /\ total \in Int /\ coord.exists \in Int /\ q \in Int /\ Oldest = total - coord.exists
    BY <2>4, OutFacts, BoundsAssumption DEF Request, Oldest
  <2>6. s = (total - Len(Q)) + ((q + 1) - 1)
    <3>1. LookupExact
      BY NumberedLookup DEF OutInv
    <3>2. s \in 0 .. total - 1
      BY <1>1, <2>5, BoundsAssumption DEF Request
    <3>3. GetByReqId(coord, Id(s)) =
            IF s >= Oldest THEN Slot(coord, s - Oldest) ELSE NoCtx
      BY <3>1, <3>2 DEF LookupExact
    <3>4. GetByReqId(coord, Id(s)) # NoCtx
      BY <1>6 DEF AppendThrows
    <3>5. s >= Oldest /\ Slot(coord, s - Oldest) = Slot(coord, q)
      BY <2>3, <3>3, <3>4
    <3>6. s - Oldest \in 0 .. MaxReq - 1 /\ q \in 0 .. MaxReq - 1
      BY <2>4, <2>5, <3>2, <3>5
    <3>7. s - Oldest = q
      BY <2>4, <3>5, <3>6, SlotInjective
    <3>8. Len(Q) = coord.exists
      BY OutFacts
    <3> QED
      BY <2>5, <3>7, <3>8
  <2>7. q + 1 \in 1 .. Len(Q)
    BY <2>4, OutFacts
  <2> DEFINE e == [pending |-> Q[q + 1].pending \o part,
                   final |-> fl.final, close |-> fl.close]
  <2>8. QueueOf(coord') = [Q EXCEPT ![q + 1] = e]
    BY <1>3, <2>3 DEF SuppliedTo
  <2>9. e \in Entry /\ e.pending = Q[q + 1].pending \o part
    <3>1. Q[q + 1].pending \in Seq(Item)
      BY <2>7, OutFacts, ItemNumbers, LenProperties
    <3>2. Q[q + 1].pending \o part \in Seq(Item)
      BY <1>3, <3>1, ConcatProperties
    <3> QED
      BY <3>2 DEF Entry, Flags
  <2> HIDE DEF e
  <2>10. Delivery(QueueOf(coord'), emitted, total, new)
    <3>1. /\ Q \in Seq(Entry) /\ emitted \in Seq(Item) /\ total \in Nat
          /\ supplied \in Parts /\ Delivery(Q, emitted, total, supplied)
      BY OutFacts
    <3>2. part \in Seq(Item) /\ part \in {<<>>, <<<<s, supplied[s] + 1>>>>}
      BY <1>3
    <3> HIDE DEF Q
    <3>3. Delivery([Q EXCEPT ![q + 1] = e], emitted, total,
                   [supplied EXCEPT ![s] = @ + 1])
      BY <2>6, <2>7, <2>9, <3>1, <3>2, SupplyDelivers
    <3> QED
      BY <2>8, <3>3 DEF new
  <2>11. AllPending(QueueOf(coord')) = AllPending(Q) \union Elems(part)
    <3>1. Q \in Seq(Entry) /\ part \in Seq(Item)
      BY <1>3, OutFacts
    <3> HIDE DEF Q
    <3>2. AllPending([Q EXCEPT ![q + 1] = e]) = AllPending(Q) \union Elems(part)
      BY <2>7, <2>9, <3>1, PendingSupply
    <3> QED
      BY <2>8, <3>2, Zenon
  <2> QED
    BY <1>1, <2>2, <2>10, <2>11, OutFacts DEF OutputAfter
<1> QED
  BY <1>5, <1>6

\* A popped group takes the oldest items.
LEMMA PopOut ==
  ASSUME OutInv, Pop
  PROVE  OutputAfter
<1> DEFINE q    == QueueOf(coord)
           r    == QueueOf(coord')
           out  == ReadyGroup(coord).items
           x    == DequeueGroup(FrontContext(coord))
           rest == FlatItems(x.groups)
<1>1. /\ coord' = PopReadyBuffers(coord) /\ emitted' = emitted \o out
      /\ HasReady(coord) /\ total' = total /\ supplied' = supplied
      /\ accepted' = accepted /\ dropped' = dropped
  BY DEF Pop
<1>2. /\ q # <<>> /\ out \in Seq(Item)
      /\ IF IsComplete(x)
         THEN Head(q).pending = out /\ r = Tail(q)
         ELSE /\ Head(q).pending = out \o rest /\ rest \in Seq(Item)
              /\ r = [q EXCEPT ![1].pending = rest]
  BY <1>1, OutFacts, PopEmits, Zenon
<1>3. /\ q \in Seq(Entry) /\ emitted \in Seq(Item) /\ total \in Nat
      /\ supplied \in Parts /\ Delivery(q, emitted, total, supplied)
      /\ ~dropped => accepted = Elems(emitted) \union AllPending(q)
  BY OutFacts
<1> HIDE DEF q, r, out, rest
<1>4. Head(q) = q[1]
  BY <1>2, <1>3
<1>5. Elems(emitted \o out) = Elems(emitted) \union Elems(out)
  BY <1>2, <1>3, ConcatElems
<1>6. /\ Delivery(r, emitted \o out, total, supplied)
      /\ AllPending(q) = Elems(out) \union AllPending(r)
  <2>1. CASE IsComplete(x)
    <3>1. q[1].pending = out /\ r = Tail(q)
      BY <1>2, <1>4, <2>1
    <3>2. Delivery(Tail(q), emitted \o out, total, supplied)
      BY <1>2, <1>3, <3>1, EmitLastDelivers
    <3>3. AllPending(q) = Elems(q[1].pending) \union AllPending(Tail(q))
      BY <1>2, <1>3, PendingEmitLast
    <3> QED
      BY <3>1, <3>2, <3>3
  <2>2. CASE ~IsComplete(x)
    <3>1. /\ q[1].pending = out \o rest /\ rest \in Seq(Item)
          /\ r = [q EXCEPT ![1].pending = rest]
      BY <1>2, <1>4, <2>2
    <3>2. Delivery([q EXCEPT ![1].pending = rest], emitted \o out, total, supplied)
      BY <1>2, <1>3, <3>1, EmitDelivers, Zenon
    <3>3. AllPending(q) = Elems(out) \union AllPending([q EXCEPT ![1].pending = rest])
      <4>1. /\ q \in Seq(Entry) /\ q # <<>> /\ out \in Seq(Item) /\ rest \in Seq(Item)
            /\ q[1].pending = out \o rest
        BY <1>2, <1>3, <3>1
      <4> QED
        BY ONLY <4>1, PendingEmit, Zenon
    <3> QED
      BY <3>1, <3>2, <3>3
  <2> QED
    BY <2>1, <2>2
<1>7. Delivery(r, emitted', total', supplied')
  BY <1>1, <1>6
<1>8. ~dropped' => accepted' = Elems(emitted') \union AllPending(r)
  BY <1>1, <1>3, <1>5, <1>6
<1> QED
  BY <1>7, <1>8 DEF OutputAfter, r

\* reset() leaves the order of what was emitted as it is.
LEMMA DropOut ==
  ASSUME OutInv, Drop
  PROVE  OutputAfter
<1>1. /\ coord' = Reset(coord) /\ emitted' = emitted /\ total' = total
      /\ supplied' = supplied /\ dropped' = TRUE
  BY DEF Drop
<1>2. coord' \in Coordinator /\ coord'.exists = 0
  BY <1>1, OutFacts, ResetEffect
<1>3. QueueOf(coord') = <<>>
  <2>1. QueueOf(coord') \in Seq(Entry) /\ Len(QueueOf(coord')) = 0
    BY <1>2, QueueType
  <2> QED
    BY <2>1, EmptySeq
<1>4. Delivery(<<>>, emitted, total, supplied)
  BY OutFacts, AbandonDelivers
<1> QED
  BY <1>1, <1>3, <1>4 DEF OutputAfter

\* Every step keeps the invariant.
LEMMA NextOut ==
  ASSUME MaxRequests <= ReqIdModulus, OutInv, [Next]_vars
  PROVE  OutInv'
<1>1. NumInv'
  BY NextNum DEF OutInv
<1>2. OutputAfter
  <2>1. CASE Register
    BY <2>1, RegisterOut
  <2>2. ASSUME NEW s \in Request, NEW fl \in Flags, NEW notify \in BOOLEAN,
               NEW empty \in BOOLEAN, Supply(s, fl, notify, empty)
        PROVE  OutputAfter
    BY <2>2, SupplyOut
  <2>3. CASE Pop
    BY <2>3, PopOut
  <2>4. CASE Drop
    BY <2>4, DropOut
  <2>5. CASE UNCHANGED vars
    BY <2>5, OutFacts DEF vars, OutputAfter
  <2> QED
    BY <2>1, <2>2, <2>3, <2>4, <2>5 DEF Next, Flags
<1> DEFINE r == QueueOf(coord')
<1>3. AbstractQueue' = r
  BY MappedQueueAfter
<1>4. /\ Delivery(r, emitted', total', supplied')
      /\ ~dropped' => accepted' = Elems(emitted') \union AllPending(r)
  BY <1>2 DEF OutputAfter
<1> HIDE DEF r
<1>5. Delivery(AbstractQueue, emitted, total, supplied)'
  BY <1>3, <1>4 DEF Delivery, Increasing, Elems, Before
<1>6. (~dropped => accepted = Elems(emitted) \union AllPending(AbstractQueue))'
  BY <1>3, <1>4 DEF AllPending, Elems
<1> QED
  BY <1>1, <1>5, <1>6 DEF OutInv

\* The invariant implies that the output is exact.
LEMMA OutIsExact == OutInv => OutputExact
<1> SUFFICES ASSUME OutInv PROVE OutputExact
  OBVIOUS
<1> DEFINE q == QueueOf(coord)
<1>1. /\ Delivery(q, emitted, total, supplied) /\ emitted \in Seq(Item) /\ q \in Seq(Entry)
      /\ ~dropped => accepted = Elems(emitted) \union AllPending(q)
  BY OutFacts
<1>2. QueuedItems = AllPending(q)
  BY OutFacts, QueuedArePending
<1> HIDE DEF q
<1>3. EmittedInOrder
  BY <1>1 DEF Delivery, Increasing, EmittedInOrder
<1>4. Elems(emitted) \intersect AllPending(q) = {}
  <2> SUFFICES ASSUME NEW x \in Elems(emitted), x \in AllPending(q) PROVE FALSE
    OBVIOUS
  <2>1. PICK k \in DOMAIN q : x \in Elems(q[k].pending)
    BY DEF AllPending
  <2>2. Before(x, x)
    BY <1>1, <2>1 DEF Delivery
  <2>3. x[1] \in Int /\ x[2] \in Int
    BY <1>1, ItemNumbers
  <2>4. \A a, b \in Int : ~(a < a \/ (a = a /\ b < b))
    OBVIOUS
  <2> QED
    BY <2>2, <2>3, <2>4 DEF Before
<1>5. NothingLost
  BY <1>1, <1>2, <1>4 DEF NothingLost, Elems
<1> QED
  BY <1>3, <1>5 DEF OutputExact

\* What pop_ready_buffers() hands out is exactly what append_response() took, in the
\* order of the requests and of the parts of each response: nothing is lost by the
\* merging of groups or the reuse of slots, and nothing is repeated.
THEOREM OutputIsExact ==
  ASSUME MaxRequests <= ReqIdModulus
  PROVE  Spec => []OutputExact
<1>1. Init => OutInv
  BY InitOut
<1>2. OutInv /\ [Next]_vars => OutInv'
  BY NextOut
<1>3. OutInv => OutputExact
  BY OutIsExact
<1> QED
  BY <1>1, <1>2, <1>3, PTL DEF Spec
=============================================================================
