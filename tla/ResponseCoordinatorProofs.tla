--------------------- MODULE ResponseCoordinatorProofs ----------------------
(***************************************************************************)
(* Proofs about the response coordinator for every ring size, every number *)
(* of request ids and every bound on requests and parts.                   *)
(***************************************************************************)
EXTENDS ResponseCoordinator, SequenceTheorems, TLAPS

-----------------------------------------------------------------------------
(* The ring *)

\* get_real_index() wraps at most once.
LEMMA SlotValue ==
  ASSUME NEW c \in Coordinator, NEW i \in 0 .. MaxReq
  PROVE  /\ Slot(c, i) \in 0 .. MaxReq - 1
         /\ Slot(c, i) = IF c.first + i < MaxReq THEN c.first + i
                                                ELSE c.first + i - MaxReq
<1>1. c.first \in 0 .. MaxReq - 1
  BY DEF Coordinator
<1>2. MaxReq \in Nat /\ MaxReq > 0
  BY MaxReqAssumption
<1> QED
  BY <1>1, <1>2 DEF Slot

\* Different positions of the queue are different slots.
LEMMA SlotInjective ==
  ASSUME NEW c \in Coordinator,
         NEW i \in 0 .. MaxReq - 1, NEW j \in 0 .. MaxReq - 1, i # j
  PROVE  Slot(c, i) # Slot(c, j)
<1>1. c.first \in 0 .. MaxReq - 1
  BY DEF Coordinator
<1>2. MaxReq \in Nat /\ MaxReq > 0
  BY MaxReqAssumption
<1> QED
  BY <1>1, <1>2, SlotValue

\* Every slot is the slot of some position.
LEMMA SlotSurjective ==
  ASSUME NEW c \in Coordinator, NEW s \in 0 .. MaxReq - 1
  PROVE  \E i \in 0 .. MaxReq - 1 : Slot(c, i) = s
<1> DEFINE i == IF s >= c.first THEN s - c.first ELSE s - c.first + MaxReq
<1>1. c.first \in 0 .. MaxReq - 1
  BY DEF Coordinator
<1>2. MaxReq \in Nat /\ MaxReq > 0
  BY MaxReqAssumption
<1>3. i \in 0 .. MaxReq - 1
  BY <1>1, <1>2
<1>4. Slot(c, i) = s
  BY <1>1, <1>2, <1>3, SlotValue
<1> QED
  BY <1>3, <1>4

-----------------------------------------------------------------------------
(* Types *)

\* front() is a context.
LEMMA FrontContextType ==
  ASSUME NEW c \in Coordinator
  PROVE  FrontContext(c) \in Context
BY Zenon DEF Coordinator, FrontContext

\* reinit() gives a context with the new id and keeps the groups.
LEMMA ReinitType ==
  ASSUME NEW ctx \in Context, NEW id \in 0 .. ReqIdModulus - 1
  PROVE  /\ Reinit(ctx, id) \in Context
         /\ Reinit(ctx, id).id = id
         /\ Reinit(ctx, id).groups = ctx.groups
         /\ ~Reinit(ctx, id).final /\ ~Reinit(ctx, id).close
BY Zenon DEF Context, Reinit

\* Merging two groups gives a group.
LEMMA MergeType ==
  ASSUME NEW wg \in Group, NEW second \in Group
  PROVE  Merge(wg, second) \in Group
<1>1. wg.items \o second.items \in Seq(Item)
  <2>1. wg.items \in Seq(Item) /\ second.items \in Seq(Item)
    BY DEF Group
  <2> QED
    BY <2>1
<1>2. second.notif \in Item \union {NoNotif} /\ wg.status \in BOOLEAN
  BY DEF Group
<1> QED
  BY <1>1, <1>2 DEF Group, Merge

\* enqueue_group() gives a context with a group and keeps the id.
LEMMA EnqueueGroupType ==
  ASSUME NEW ctx \in Context, NEW wg \in Group
  PROVE  /\ EnqueueGroup(ctx, wg) \in Context
         /\ EnqueueGroup(ctx, wg).groups # <<>>
         /\ EnqueueGroup(ctx, wg).id = ctx.id
<1>1. CASE Mergeable(ctx, wg)
  <2>1. ctx.groups \in Seq(Group) /\ ctx.groups # <<>>
    BY <1>1 DEF Context, Mergeable
  <2>2. Merge(ctx.groups[Len(ctx.groups)], wg) \in Group
    BY <2>1, MergeType
  <2>3. EnqueueGroup(ctx, wg)
          = [ctx EXCEPT !.groups = [ctx.groups EXCEPT ![Len(ctx.groups)] =
                                      Merge(ctx.groups[Len(ctx.groups)], wg)]]
    BY <1>1 DEF EnqueueGroup, Context
  <2>4. [ctx.groups EXCEPT ![Len(ctx.groups)] =
           Merge(ctx.groups[Len(ctx.groups)], wg)] \in Seq(Group) \ {<<>>}
    BY <2>1, <2>2
  <2> QED
    BY <2>3, <2>4 DEF Context
<1>2. CASE ~Mergeable(ctx, wg)
  BY <1>2 DEF EnqueueGroup, Context
<1> QED
  BY <1>1, <1>2

\* dequeue_group() of a context with groups gives a context.
LEMMA DequeueGroupType ==
  ASSUME NEW ctx \in Context, ctx.groups # <<>>
  PROVE  /\ DequeueGroup(ctx) \in Context
         /\ DequeueGroup(ctx).id = ctx.id
         /\ Head(ctx.groups) \in Group
<1>1. ctx.groups \in Seq(Group)
  BY DEF Context
<1>2. Tail(ctx.groups) \in Seq(Group) /\ Head(ctx.groups) \in Group
  BY <1>1
<1> QED
  BY <1>2, Zenon DEF DequeueGroup, Context

\* What each operation leaves behind, slot by slot.
LEMMA RegisterEffect ==
  ASSUME NEW c \in Coordinator, ~IsFull(c)
  PROVE  LET d == RegisterNewRequest(c) IN
         /\ d \in Coordinator
         /\ d.first = c.first /\ d.exists = c.exists + 1 /\ d.closed = c.closed
         /\ d.counter = (c.counter + 1) % ReqIdModulus
         /\ d.ctx[Slot(c, c.exists)] = Reinit(c.ctx[Slot(c, c.exists)], c.counter)
         /\ \A s \in 0 .. MaxReq - 1 :
              s # Slot(c, c.exists) => d.ctx[s] = c.ctx[s]
<1> DEFINE s0 == Slot(c, c.exists)
           x  == Reinit(c.ctx[s0], c.counter)
<1>1. /\ c.ctx \in [0 .. MaxReq - 1 -> Context] /\ c.counter \in 0 .. ReqIdModulus - 1
      /\ c.exists \in 0 .. MaxReq /\ c.exists # MaxReq
  BY DEF Coordinator, IsFull
<1>2. s0 \in 0 .. MaxReq - 1
  BY <1>1, SlotValue
<1>3. x \in Context
  BY <1>1, <1>2, ReinitType, Zenon
<1>4. (c.counter + 1) % ReqIdModulus \in 0 .. ReqIdModulus - 1
  BY <1>1, ReqIdModulusAssumption
<1>5. c.exists + 1 \in 0 .. MaxReq
  BY <1>1, MaxReqAssumption
<1> HIDE DEF s0, x
<1>6. RegisterNewRequest(c) =
        [c EXCEPT !.ctx = [c.ctx EXCEPT ![s0] = x], !.exists = c.exists + 1,
                  !.counter = (c.counter + 1) % ReqIdModulus]
  BY DEF RegisterNewRequest, PushResponseContext, Coordinator, s0, x
<1>7. [c.ctx EXCEPT ![s0] = x] \in [0 .. MaxReq - 1 -> Context]
  BY <1>1, <1>3, Zenon
<1>8. RegisterNewRequest(c) \in Coordinator
  BY <1>4, <1>5, <1>6, <1>7, Zenon DEF Coordinator
<1>9. /\ RegisterNewRequest(c).ctx = [c.ctx EXCEPT ![s0] = x]
      /\ RegisterNewRequest(c).first = c.first
      /\ RegisterNewRequest(c).exists = c.exists + 1
      /\ RegisterNewRequest(c).closed = c.closed
      /\ RegisterNewRequest(c).counter = (c.counter + 1) % ReqIdModulus
  BY <1>6 DEF Coordinator
<1> QED
  BY <1>1, <1>2, <1>8, <1>9, Zenon DEF s0, x

Flags == [final : BOOLEAN, close : BOOLEAN]

\* What get_by_req_id() finds lies between the ids of front() and back().
LEMMA GetByReqIdRange ==
  ASSUME NEW c \in Coordinator, NEW id \in 0 .. ReqIdModulus - 1,
         GetByReqId(c, id) # NoCtx
  PROVE  /\ GetByReqId(c, id) \in 0 .. MaxReq - 1
         /\ c.exists > 0
         /\ id >= FrontContext(c).id /\ id <= BackContext(c).id
         /\ GetByReqId(c, id) = Slot(c, id - FrontContext(c).id)
<1>1. /\ ~Empty(c) /\ ~(id < FrontContext(c).id) /\ ~(id > BackContext(c).id)
      /\ GetByReqId(c, id) = Slot(c, id - FrontContext(c).id)
  BY DEF GetByReqId
<1>2. /\ c.first \in 0 .. MaxReq - 1 /\ c.exists \in 0 .. MaxReq
      /\ c.ctx \in [0 .. MaxReq - 1 -> Context]
  BY DEF Coordinator
<1>3. FrontContext(c).id \in 0 .. ReqIdModulus - 1
  BY FrontContextType DEF Context
<1>4. c.exists > 0
  BY <1>1, <1>2, MaxReqAssumption DEF Empty
<1>5. BackContext(c).id \in 0 .. ReqIdModulus - 1
  <2>1. c.exists - 1 \in 0 .. MaxReq
    BY <1>2, <1>4, MaxReqAssumption
  <2>2. Slot(c, c.exists - 1) \in 0 .. MaxReq - 1
    BY <2>1, SlotValue
  <2> QED
    BY <1>2, <2>2, Zenon DEF BackContext, Context
<1>6. id - FrontContext(c).id \in Nat
  BY <1>1, <1>3, ReqIdModulusAssumption
<1>7. Slot(c, id - FrontContext(c).id) \in 0 .. MaxReq - 1
  BY <1>2, <1>6, MaxReqAssumption DEF Slot
<1> QED
  BY <1>1, <1>3, <1>4, <1>5, <1>7, ReqIdModulusAssumption

\* append_response() changes one context of the queue and no index.
LEMMA AppendEffect ==
  ASSUME NEW c \in Coordinator, NEW id \in 0 .. ReqIdModulus - 1,
         NEW fl \in Flags, NEW wg \in Group, GetByReqId(c, id) # NoCtx
  PROVE  LET d == AppendResponse(c, id, fl, wg)
             g == GetByReqId(c, id) IN
         /\ d \in Coordinator
         /\ d.first = c.first /\ d.exists = c.exists /\ d.closed = c.closed
         /\ d.counter = c.counter
         /\ d.ctx[g].groups # <<>> /\ d.ctx[g].id = c.ctx[g].id
         /\ d.ctx[g] = EnqueueGroup([c.ctx[g] EXCEPT !.final = fl.final,
                                                    !.close = fl.close], wg)
         /\ \A s \in 0 .. MaxReq - 1 : s # g => d.ctx[s] = c.ctx[s]
<1> DEFINE g == GetByReqId(c, id)
           y == [c.ctx[g] EXCEPT !.final = fl.final, !.close = fl.close]
           x == EnqueueGroup(y, wg)
<1>1. c.ctx \in [0 .. MaxReq - 1 -> Context]
  BY DEF Coordinator
<1>2. g \in 0 .. MaxReq - 1
  BY GetByReqIdRange
<1>3. y \in Context /\ y.id = c.ctx[g].id
  BY <1>1, <1>2, Zenon DEF Context, Flags
<1>4. x \in Context /\ x.groups # <<>> /\ x.id = c.ctx[g].id
  BY <1>3, EnqueueGroupType, Zenon
<1>5. AppendResponse(c, id, fl, wg) = [c EXCEPT !.ctx = [c.ctx EXCEPT ![g] = x]]
  BY DEF AppendResponse, Coordinator
<1> HIDE DEF g, y, x
<1>6. [c.ctx EXCEPT ![g] = x] \in [0 .. MaxReq - 1 -> Context]
  BY <1>1, <1>4, Zenon
<1>7. AppendResponse(c, id, fl, wg) \in Coordinator
  BY <1>5, <1>6, Zenon DEF Coordinator
<1>8. LET d == AppendResponse(c, id, fl, wg) IN
      /\ d.ctx = [c.ctx EXCEPT ![g] = x]
      /\ d.first = c.first /\ d.exists = c.exists /\ d.closed = c.closed
      /\ d.counter = c.counter
  BY <1>5 DEF Coordinator
<1>9. /\ GetByReqId(c, id) = g
      /\ x = EnqueueGroup([c.ctx[g] EXCEPT !.final = fl.final,
                                         !.close = fl.close], wg)
  BY DEF g, x, y
<1>10. AppendResponse(c, id, fl, wg).ctx[g] = x
  BY <1>1, <1>2, <1>8, Zenon
<1> QED
  BY <1>1, <1>2, <1>4, <1>7, <1>8, <1>9, <1>10

\* pop_ready_buffers() takes a group of the front context and removes the context
\* when it is complete.
LEMMA PopEffect ==
  ASSUME NEW c \in Coordinator, HasReady(c)
  PROVE  LET d == PopReadyBuffers(c)
             x == DequeueGroup(FrontContext(c)) IN
         /\ d \in Coordinator
         /\ d.counter = c.counter
         /\ d.ctx = [c.ctx EXCEPT ![c.first] = x]
         /\ x \in Context /\ x.id = c.ctx[c.first].id
         /\ c.exists > 0
         /\ IF IsComplete(x)
            THEN /\ d.exists = c.exists - 1
                 /\ d.first = IF c.first + 1 = MaxReq THEN 0 ELSE c.first + 1
                 /\ d.closed = x.close
            ELSE /\ d.exists = c.exists /\ d.first = c.first
                 /\ d.closed = c.closed
<1> DEFINE x == DequeueGroup(FrontContext(c))
           e == [c EXCEPT !.ctx = [c.ctx EXCEPT ![c.first] = x]]
<1>1. /\ c.ctx \in [0 .. MaxReq - 1 -> Context] /\ c.first \in 0 .. MaxReq - 1
      /\ c.exists \in 0 .. MaxReq
  BY DEF Coordinator
<1>2. c.exists > 0 /\ FrontContext(c).groups # <<>>
  BY <1>1, MaxReqAssumption DEF HasReady, Empty
<1>3. x \in Context /\ x.id = c.ctx[c.first].id
  BY <1>2, FrontContextType, DequeueGroupType DEF FrontContext
<1>4. PopReadyBuffers(c) = IF IsComplete(x)
                           THEN PopResponseContext([e EXCEPT !.closed = x.close])
                           ELSE e
  BY DEF PopReadyBuffers, Coordinator
<1> HIDE DEF x
<1>5. [c.ctx EXCEPT ![c.first] = x] \in [0 .. MaxReq - 1 -> Context]
  BY <1>1, <1>3
<1>6. x.close \in BOOLEAN
  BY <1>3 DEF Context
<1>7. CASE IsComplete(x)
  <2> DEFINE f == IF c.first + 1 = MaxReq THEN 0 ELSE c.first + 1
  <2>1. f \in 0 .. MaxReq - 1 /\ c.exists - 1 \in 0 .. MaxReq
    BY <1>1, <1>2, MaxReqAssumption
  <2>2. PopReadyBuffers(c) =
          [ctx |-> [c.ctx EXCEPT ![c.first] = x], first |-> f, exists |-> c.exists - 1,
           counter |-> c.counter, closed |-> x.close]
    BY <1>4, <1>7, Zenon DEF PopResponseContext, Coordinator
  <2> HIDE DEF f
  <2>3. PopReadyBuffers(c) \in Coordinator
    BY <1>5, <1>6, <2>1, <2>2 DEF Coordinator
  <2> QED
    BY <1>2, <1>3, <1>7, <2>2, <2>3 DEF x, f
<1>8. CASE ~IsComplete(x)
  <2>1. PopReadyBuffers(c) = e
    BY <1>4, <1>8
  <2>2. e \in Coordinator
    BY <1>5, Zenon DEF Coordinator
  <2>3. /\ e.ctx = [c.ctx EXCEPT ![c.first] = x] /\ e.counter = c.counter
        /\ e.exists = c.exists /\ e.first = c.first /\ e.closed = c.closed
    BY DEF Coordinator
  <2> HIDE DEF e
  <2> QED
    BY <1>2, <1>3, <1>8, <2>1, <2>2, <2>3 DEF x
<1> QED
  BY <1>7, <1>8

\* reset() empties the queue: it clears the groups of its slots and of no other.
LEMMA ResetEffect ==
  ASSUME NEW c \in Coordinator
  PROVE  LET d == Reset(c) IN
         /\ d \in Coordinator
         /\ d.exists = 0 /\ d.counter = c.counter /\ d.closed = c.closed
         /\ \A s \in 0 .. MaxReq - 1 :
              d.ctx[s].groups = IF \E k \in 0 .. c.exists - 1 : Slot(c, k) = s
                                THEN <<>> ELSE c.ctx[s].groups
<1> DEFINE x == [i \in 0 .. MaxReq - 1 |->
                   IF \E k \in 0 .. c.exists - 1 : Slot(c, k) = i
                   THEN [c.ctx[i] EXCEPT !.groups = <<>>] ELSE c.ctx[i]]
<1>1. c.ctx \in [0 .. MaxReq - 1 -> Context] /\ c.exists \in 0 .. MaxReq
  BY DEF Coordinator
<1>2. Slot(c, c.exists) \in 0 .. MaxReq - 1
  BY <1>1, SlotValue
<1>3. Reset(c) = [c EXCEPT !.ctx = x, !.first = Slot(c, c.exists), !.exists = 0]
  BY DEF Reset
<1>4. ASSUME NEW ctx \in Context
      PROVE  [ctx EXCEPT !.groups = <<>>] \in Context /\ [ctx EXCEPT !.groups = <<>>].groups = <<>>
  <2>1. ASSUME NEW g \in Seq(Group)
        PROVE  [ctx EXCEPT !.groups = g] \in Context /\ [ctx EXCEPT !.groups = g].groups = g
    BY DEF Context
  <2>2. <<>> \in Seq(Group)
    OBVIOUS
  <2> QED
    BY <2>1, <2>2, Zenon
<1>5. x \in [0 .. MaxReq - 1 -> Context]
  BY <1>1, <1>4, Zenon
<1>6. \A s \in 0 .. MaxReq - 1 :
         x[s].groups = IF \E k \in 0 .. c.exists - 1 : Slot(c, k) = s
                       THEN <<>> ELSE c.ctx[s].groups
  <2> TAKE s \in 0 .. MaxReq - 1
  <2>1. c.ctx[s] \in Context
    BY <1>1, Zenon
  <2>2. x[s] = IF \E k \in 0 .. c.exists - 1 : Slot(c, k) = s
               THEN [c.ctx[s] EXCEPT !.groups = <<>>] ELSE c.ctx[s]
    OBVIOUS
  <2> HIDE DEF x
  <2> QED
    BY <2>1, <2>2, <1>4
<1>7. 0 \in 0 .. MaxReq
  BY MaxReqAssumption
<1> HIDE DEF x
<1>8. Reset(c) = [ctx |-> x, first |-> Slot(c, c.exists), exists |-> 0,
                  counter |-> c.counter, closed |-> c.closed]
  BY <1>3, Zenon DEF Coordinator
<1>9. Reset(c) \in Coordinator
  BY <1>2, <1>5, <1>7, <1>8 DEF Coordinator
<1> QED
  BY <1>6, <1>8, <1>9

-----------------------------------------------------------------------------
(***************************************************************************)
(* The inductive invariant of the ring.  FreeSlotsClean and NoStuckResponse*)
(* are preserved by append_response() only because the slot it changes     *)
(* belongs to the queue.  That follows from ClimbingIds: ids grow by at    *)
(* most one from a context to the next, and the counter continues them.    *)
(* It holds across a wrap-around of the counter too.                       *)
(***************************************************************************)
ClimbingIds(c) ==
  /\ \A j, k \in 0 .. c.exists - 1 :
       j <= k => c.ctx[Slot(c, k)].id <= c.ctx[Slot(c, j)].id + (k - j)
  /\ \A j \in 0 .. c.exists - 1 :
       c.counter <= c.ctx[Slot(c, j)].id + (c.exists - j)

CleanFree(c) ==
  \A k \in c.exists .. MaxReq - 1 : c.ctx[Slot(c, k)].groups = <<>>

NoneStuck(c) ==
  \A k \in 0 .. c.exists - 1 : ~IsComplete(c.ctx[Slot(c, k)])

RingInv(c) == ClimbingIds(c) /\ CleanFree(c) /\ NoneStuck(c)

\* The context that get_by_req_id() returns is one of the queue.
LEMMA LookupInQueue ==
  ASSUME NEW c \in Coordinator, ClimbingIds(c),
         NEW id \in 0 .. ReqIdModulus - 1, GetByReqId(c, id) # NoCtx
  PROVE  \E k \in 0 .. c.exists - 1 : GetByReqId(c, id) = Slot(c, k)
<1> DEFINE k == id - FrontContext(c).id
<1>1. /\ c.first \in 0 .. MaxReq - 1 /\ c.exists \in 0 .. MaxReq /\ c.exists > 0
      /\ c.ctx \in [0 .. MaxReq - 1 -> Context]
  BY GetByReqIdRange DEF Coordinator
<1>2. /\ Slot(c, 0) = c.first /\ 0 \in 0 .. c.exists - 1
      /\ c.exists - 1 \in 0 .. c.exists - 1 /\ c.exists - 1 \in 0 .. MaxReq
  <2>1. 0 \in 0 .. MaxReq /\ c.first + 0 < MaxReq /\ c.first + 0 = c.first
    BY <1>1, MaxReqAssumption
  <2>2. Slot(c, 0) = c.first
    BY <2>1, SlotValue
  <2> QED
    BY <1>1, <2>2, MaxReqAssumption
<1>3. c.ctx[Slot(c, c.exists - 1)].id <= c.ctx[Slot(c, 0)].id + (c.exists - 1 - 0)
  <2>1. 0 <= c.exists - 1
    BY <1>1, MaxReqAssumption
  <2> QED
    BY <1>2, <2>1 DEF ClimbingIds
<1>4. /\ FrontContext(c).id \in Int /\ BackContext(c).id \in Int
      /\ BackContext(c).id <= FrontContext(c).id + (c.exists - 1)
  <2>1. Slot(c, c.exists - 1) \in 0 .. MaxReq - 1
    BY <1>2, SlotValue
  <2>2. c.ctx[c.first] \in Context /\ c.ctx[Slot(c, c.exists - 1)] \in Context
    BY <1>1, <2>1, Zenon
  <2>3. c.ctx[c.first].id \in Int /\ c.ctx[Slot(c, c.exists - 1)].id \in Int
    BY <2>2, ReqIdModulusAssumption DEF Context
  <2> QED
    BY <1>1, <1>2, <1>3, <2>3, MaxReqAssumption DEF FrontContext, BackContext
<1>5. k \in 0 .. c.exists - 1
  <2>1. id >= FrontContext(c).id /\ id <= BackContext(c).id /\ id \in Int
    BY GetByReqIdRange, ReqIdModulusAssumption
  <2>2. c.exists \in Int
    BY <1>1, MaxReqAssumption
  <2> HIDE DEF k
  <2>3. k = id - FrontContext(c).id
    BY DEF k
  <2> QED
    BY <1>4, <2>1, <2>2, <2>3
<1>6. GetByReqId(c, id) = Slot(c, k)
  BY GetByReqIdRange
<1> QED
  BY <1>5, <1>6

\* Request ids can be compared as integers.
LEMMA IdsAreInt ==
  ASSUME NEW c \in Coordinator
  PROVE  /\ c.counter \in Int /\ c.exists \in Int /\ MaxReq \in Int
         /\ \A s \in 0 .. MaxReq - 1 : c.ctx[s].id \in Int /\ c.ctx[s] \in Context
BY MaxReqAssumption, ReqIdModulusAssumption DEF Coordinator, Context

\* register_new_request() preserves the ring invariant: the slot it reuses is clean.
LEMMA RegisterKeepsRing ==
  ASSUME NEW c \in Coordinator, ~IsFull(c), RingInv(c)
  PROVE  RingInv(RegisterNewRequest(c))
<1> DEFINE d  == RegisterNewRequest(c)
           n  == c.exists
           s0 == Slot(c, n)
<1>1. n \in 0 .. MaxReq - 1
  BY MaxReqAssumption DEF Coordinator, IsFull
<1>2. /\ d \in Coordinator /\ d.first = c.first /\ d.exists = n + 1
      /\ d.counter = (c.counter + 1) % ReqIdModulus
      /\ d.ctx[s0] = Reinit(c.ctx[s0], c.counter)
      /\ \A s \in 0 .. MaxReq - 1 : s # s0 => d.ctx[s] = c.ctx[s]
  BY RegisterEffect
<1>3. \A k : Slot(d, k) = Slot(c, k)
  BY <1>2 DEF Slot
<1>4. \A k \in 0 .. MaxReq - 1 : Slot(c, k) \in 0 .. MaxReq - 1
  BY SlotValue, MaxReqAssumption
<1>5. \A k \in 0 .. MaxReq - 1 : k # n => d.ctx[Slot(d, k)] = c.ctx[Slot(c, k)]
  BY <1>1, <1>2, <1>3, <1>4, SlotInjective
<1>6. /\ d.ctx[Slot(d, n)].id = c.counter
      /\ ~d.ctx[Slot(d, n)].final
  <2>1. c.ctx[s0] \in Context /\ c.counter \in 0 .. ReqIdModulus - 1
    BY <1>1, <1>4, Zenon DEF Coordinator
  <2> QED
    BY <1>2, <1>3, <2>1, ReinitType
<1>7. d.counter <= c.counter + 1
  <2>1. c.counter \in 0 .. ReqIdModulus - 1
    BY DEF Coordinator
  <2> QED
    BY <1>2, <2>1, ReqIdModulusAssumption
<1> HIDE DEF d, n, s0
<1>8. /\ n \in Int /\ c.counter \in Int /\ d.counter \in Int /\ MaxReq \in Int
      /\ \A k \in 0 .. n - 1 : c.ctx[Slot(c, k)].id \in Int
  BY <1>1, <1>2, <1>4, IdsAreInt DEF n
<1>9. /\ \A j, k \in 0 .. n - 1 :
           j <= k => c.ctx[Slot(c, k)].id <= c.ctx[Slot(c, j)].id + (k - j)
      /\ \A j \in 0 .. n - 1 : c.counter <= c.ctx[Slot(c, j)].id + (n - j)
      /\ \A k \in n .. MaxReq - 1 : c.ctx[Slot(c, k)].groups = <<>>
      /\ \A k \in 0 .. n - 1 : ~IsComplete(c.ctx[Slot(c, k)])
  BY DEF RingInv, ClimbingIds, CleanFree, NoneStuck, n
<1>10. ClimbingIds(d)
  <2>0. \A k \in 0 .. n - 1 : d.ctx[Slot(d, k)] = c.ctx[Slot(c, k)]
    BY <1>1, <1>5, <1>8
  <2>1. ASSUME NEW j \in 0 .. n, NEW k \in 0 .. n, j <= k
        PROVE  d.ctx[Slot(d, k)].id <= d.ctx[Slot(d, j)].id + (k - j)
    <3>1. CASE k < n
      <4>1. j \in 0 .. n - 1 /\ k \in 0 .. n - 1
        BY <1>8, <2>1, <3>1
      <4>2. /\ d.ctx[Slot(d, k)] = c.ctx[Slot(c, k)]
            /\ d.ctx[Slot(d, j)] = c.ctx[Slot(c, j)]
        BY <2>0, <4>1
      <4> QED
        BY <1>9, <2>1, <4>1, <4>2
    <3>2. CASE k = n /\ j < n
      <4>1. j \in 0 .. n - 1
        BY <1>8, <3>2
      <4>2. d.ctx[Slot(d, j)] = c.ctx[Slot(c, j)]
        BY <2>0, <4>1
      <4> QED
        BY <1>6, <1>9, <3>2, <4>1, <4>2
    <3>3. CASE k = n /\ j = n
      <4>1. c.counter <= c.counter + (n - n)
        BY <1>8
      <4> QED
        BY <1>6, <3>3, <4>1
    <3> QED
      BY <1>8, <2>1, <3>1, <3>2, <3>3
  <2>2. ASSUME NEW j \in 0 .. n
        PROVE  d.counter <= d.ctx[Slot(d, j)].id + ((n + 1) - j)
    <3>1. CASE j < n
      <4>1. j \in 0 .. n - 1 /\ j \in Int
        BY <1>8, <3>1
      <4>2. d.ctx[Slot(d, j)] = c.ctx[Slot(c, j)]
        BY <2>0, <4>1
      <4>3. c.counter <= c.ctx[Slot(c, j)].id + (n - j) /\ c.ctx[Slot(c, j)].id \in Int
        BY <1>8, <1>9, <4>1
      <4> QED
        BY <1>7, <1>8, <4>1, <4>2, <4>3
    <3>2. CASE j = n
      <4>1. d.counter <= c.counter + ((n + 1) - n)
        BY <1>7, <1>8
      <4> QED
        BY <1>6, <3>2, <4>1
    <3> QED
      BY <1>8, <3>1, <3>2
  <2>3. 0 .. d.exists - 1 = 0 .. n
    BY <1>2, <1>8
  <2>4. d.exists = n + 1
    BY <1>2
  <2>5. \A j, k \in 0 .. d.exists - 1 :
           j <= k => d.ctx[Slot(d, k)].id <= d.ctx[Slot(d, j)].id + (k - j)
    BY ONLY <2>1, <2>3, Zenon
  <2>6. \A j \in 0 .. d.exists - 1 :
           d.counter <= d.ctx[Slot(d, j)].id + (d.exists - j)
    <3>1. ASSUME NEW j \in 0 .. d.exists - 1
          PROVE  d.counter <= d.ctx[Slot(d, j)].id + (d.exists - j)
      <4>1. j \in 0 .. n
        BY <2>3, <3>1, Zenon
      <4>2. d.counter <= d.ctx[Slot(d, j)].id + ((n + 1) - j)
        BY <2>2, <4>1
      <4> QED
        BY <2>4, <4>2
    <3> QED
      BY <3>1
  <2> QED
    BY <2>5, <2>6 DEF ClimbingIds
<1>11. CleanFree(d)
  <2>1. \A k \in n + 1 .. MaxReq - 1 : k \in n .. MaxReq - 1 /\ k \in 0 .. MaxReq - 1 /\ k # n
    BY <1>1, <1>8
  <2> QED
    BY <1>2, <1>5, <1>9, <2>1 DEF CleanFree
<1>12. NoneStuck(d)
  <2>1. \A k \in 0 .. n : k = n \/ (k \in 0 .. n - 1 /\ k \in 0 .. MaxReq - 1 /\ k # n)
    BY <1>1, <1>8
  <2>2. 0 .. d.exists - 1 = 0 .. n
    BY <1>2, <1>8
  <2>3. ~IsComplete(d.ctx[Slot(d, n)])
    BY <1>6 DEF IsComplete
  <2> QED
    BY <1>5, <1>9, <2>1, <2>2, <2>3, Zenon DEF NoneStuck
<1> QED
  BY <1>10, <1>11, <1>12 DEF RingInv, d

\* append_response() preserves the ring invariant.
LEMMA AppendKeepsRing ==
  ASSUME NEW c \in Coordinator, RingInv(c), NEW id \in 0 .. ReqIdModulus - 1,
         NEW fl \in Flags, NEW wg \in Group, GetByReqId(c, id) # NoCtx
  PROVE  RingInv(AppendResponse(c, id, fl, wg))
<1> DEFINE d == AppendResponse(c, id, fl, wg)
           g == GetByReqId(c, id)
           n == c.exists
<1>1. /\ d \in Coordinator /\ d.first = c.first /\ d.exists = n /\ d.counter = c.counter
      /\ d.ctx[g].groups # <<>> /\ d.ctx[g].id = c.ctx[g].id
      /\ \A s \in 0 .. MaxReq - 1 : s # g => d.ctx[s] = c.ctx[s]
  BY AppendEffect
<1>2. \A k : Slot(d, k) = Slot(c, k)
  BY <1>1 DEF Slot
<1>3. PICK q \in 0 .. n - 1 : g = Slot(c, q)
  BY LookupInQueue DEF RingInv
<1>4. n \in 0 .. MaxReq /\ MaxReq \in Int
  BY MaxReqAssumption DEF Coordinator
<1>5. \A k \in 0 .. MaxReq - 1 : Slot(c, k) \in 0 .. MaxReq - 1
  BY SlotValue, MaxReqAssumption
<1>6. ClimbingIds(c) /\ CleanFree(c) /\ NoneStuck(c)
  BY DEF RingInv
<1> HIDE DEF d, g
<1>7. \A k \in 0 .. MaxReq - 1 : d.ctx[Slot(d, k)].id = c.ctx[Slot(c, k)].id
  BY <1>1, <1>2, <1>5
<1>8. ClimbingIds(d)
  <2>1. 0 .. n - 1 \subseteq 0 .. MaxReq - 1
    BY <1>4
  <2> QED
    BY <1>1, <1>6, <1>7, <2>1 DEF ClimbingIds
<1>9. CleanFree(d)
  <2>1. ASSUME NEW k \in n .. MaxReq - 1
        PROVE  d.ctx[Slot(d, k)].groups = <<>>
    <3>1. k \in 0 .. MaxReq - 1 /\ q \in 0 .. MaxReq - 1 /\ k # q
      BY <1>3, <1>4
    <3>2. Slot(c, k) # g
      BY <1>3, <3>1, SlotInjective
    <3>3. d.ctx[Slot(d, k)] = c.ctx[Slot(c, k)]
      BY <1>1, <1>2, <1>5, <3>1, <3>2
    <3> QED
      BY <1>6, <3>3 DEF CleanFree
  <2> QED
    BY <1>1, <2>1 DEF CleanFree
<1>10. NoneStuck(d)
  <2>1. ASSUME NEW k \in 0 .. n - 1
        PROVE  ~IsComplete(d.ctx[Slot(d, k)])
    <3>1. k \in 0 .. MaxReq - 1
      BY <1>4
    <3>2. CASE Slot(c, k) = g
      BY <1>1, <1>2, <3>2 DEF IsComplete
    <3>3. CASE Slot(c, k) # g
      <4>1. d.ctx[Slot(d, k)] = c.ctx[Slot(c, k)]
        BY <1>1, <1>2, <1>5, <3>1, <3>3
      <4> QED
        BY <1>6, <4>1 DEF NoneStuck
    <3> QED
      BY <3>2, <3>3
  <2> QED
    BY <1>1, <2>1 DEF NoneStuck
<1> QED
  BY <1>8, <1>9, <1>10 DEF RingInv, d

\* reset() preserves the ring invariant.
LEMMA ResetKeepsRing ==
  ASSUME NEW c \in Coordinator, RingInv(c)
  PROVE  RingInv(Reset(c))
<1> DEFINE d == Reset(c)
<1>1. /\ d \in Coordinator /\ d.exists = 0
      /\ \A s \in 0 .. MaxReq - 1 :
           d.ctx[s].groups = IF \E k \in 0 .. c.exists - 1 : Slot(c, k) = s
                             THEN <<>> ELSE c.ctx[s].groups
  BY ResetEffect
<1>2. \A s \in 0 .. MaxReq - 1 : d.ctx[s].groups = <<>>
  <2>1. ASSUME NEW s \in 0 .. MaxReq - 1
        PROVE  d.ctx[s].groups = <<>>
    <3>1. PICK k \in 0 .. MaxReq - 1 : Slot(c, k) = s
      BY SlotSurjective
    <3>2. c.exists \in 0 .. MaxReq /\ MaxReq \in Int
      BY MaxReqAssumption DEF Coordinator
    <3>3. CASE k < c.exists
      BY <1>1, <3>1, <3>2, <3>3
    <3>4. CASE k >= c.exists
      <4>1. k \in c.exists .. MaxReq - 1
        BY <3>2, <3>4
      <4>2. c.ctx[s].groups = <<>>
        BY <3>1, <4>1 DEF RingInv, CleanFree
      <4> QED
        BY <1>1, <4>2
    <3> QED
      BY <3>2, <3>3, <3>4
  <2> QED
    BY <2>1
<1>3. \A k \in 0 .. MaxReq - 1 : Slot(d, k) \in 0 .. MaxReq - 1
  <2>1. \A k \in 0 .. MaxReq - 1 : k \in 0 .. MaxReq
    BY MaxReqAssumption
  <2> HIDE DEF d
  <2> QED
    BY <1>1, <2>1, SlotValue
<1>4. 0 .. 0 - 1 = {}
  OBVIOUS
<1> HIDE DEF d
<1>5. ClimbingIds(d) /\ NoneStuck(d)
  BY <1>1, <1>4 DEF ClimbingIds, NoneStuck
<1>6. CleanFree(d)
  BY <1>1, <1>2, <1>3 DEF CleanFree
<1> QED
  BY <1>5, <1>6 DEF RingInv, d

\* pop_ready_buffers() preserves the ring invariant: the slot it frees has no groups.
LEMMA PopKeepsRing ==
  ASSUME NEW c \in Coordinator, RingInv(c), HasReady(c)
  PROVE  RingInv(PopReadyBuffers(c))
<1> DEFINE d == PopReadyBuffers(c)
           x == DequeueGroup(FrontContext(c))
           n == c.exists
<1>1. /\ d \in Coordinator /\ d.counter = c.counter
      /\ d.ctx = [c.ctx EXCEPT ![c.first] = x]
      /\ x.id = c.ctx[c.first].id
      /\ n > 0
      /\ IF IsComplete(x)
         THEN /\ d.exists = n - 1
              /\ d.first = IF c.first + 1 = MaxReq THEN 0 ELSE c.first + 1
         ELSE d.exists = n /\ d.first = c.first
  BY PopEffect
<1>2. /\ n \in 0 .. MaxReq /\ MaxReq \in Int /\ MaxReq > 0
      /\ c.ctx \in [0 .. MaxReq - 1 -> Context] /\ c.first \in 0 .. MaxReq - 1
  BY MaxReqAssumption DEF Coordinator
<1>3. ClimbingIds(c) /\ CleanFree(c) /\ NoneStuck(c)
  BY DEF RingInv
<1> HIDE DEF d, x, n
<1>4. Slot(c, 0) = c.first /\ Slot(c, MaxReq) = c.first
  <2>1. 0 \in 0 .. MaxReq /\ MaxReq \in 0 .. MaxReq
    BY <1>2
  <2>2. /\ c.first + 0 < MaxReq /\ c.first + 0 = c.first
        /\ ~(c.first + MaxReq < MaxReq) /\ c.first + MaxReq - MaxReq = c.first
    BY <1>2
  <2> QED
    BY <2>1, <2>2, SlotValue
<1>5. /\ d.ctx[c.first] = x
      /\ \A s \in 0 .. MaxReq - 1 : s # c.first => d.ctx[s] = c.ctx[s]
  BY <1>1, <1>2
<1>6. \A k \in 1 .. MaxReq - 1 :
        Slot(c, k) \in 0 .. MaxReq - 1 /\ d.ctx[Slot(c, k)] = c.ctx[Slot(c, k)]
  <2>1. ASSUME NEW k \in 1 .. MaxReq - 1
        PROVE  Slot(c, k) \in 0 .. MaxReq - 1 /\ Slot(c, k) # c.first
    <3>1. k \in 0 .. MaxReq - 1 /\ k \in 0 .. MaxReq /\ k # 0 /\ 0 \in 0 .. MaxReq - 1
      BY <1>2
    <3> QED
      BY <1>4, <3>1, SlotInjective, SlotValue
  <2> QED
    BY <1>5, <2>1
<1>7. CASE IsComplete(x)
  <2>1. \A k \in 0 .. MaxReq - 1 : Slot(d, k) = Slot(c, k + 1)
    <3>1. ASSUME NEW k \in 0 .. MaxReq - 1
          PROVE  Slot(d, k) = Slot(c, k + 1)
      <4>1. k \in 0 .. MaxReq /\ k + 1 \in 0 .. MaxReq
        BY <1>2
      <4>2. d.first = IF c.first + 1 = MaxReq THEN 0 ELSE c.first + 1
        BY <1>1, <1>7
      <4>3. /\ Slot(d, k) = IF d.first + k < MaxReq THEN d.first + k ELSE d.first + k - MaxReq
            /\ Slot(c, k + 1) = IF c.first + (k + 1) < MaxReq THEN c.first + (k + 1)
                                ELSE c.first + (k + 1) - MaxReq
        BY <1>1, <4>1, SlotValue
      <4>4. CASE c.first + 1 = MaxReq
        BY <1>2, <4>1, <4>2, <4>3, <4>4
      <4>5. CASE c.first + 1 # MaxReq
        <5>1. d.first = c.first + 1 /\ d.first + k = c.first + (k + 1)
          BY <1>2, <4>1, <4>2, <4>5
        <5> QED
          BY <1>2, <4>1, <4>3, <5>1
      <4> QED
        BY <4>4, <4>5
    <3> QED
      BY <3>1
  <2>2. d.exists = n - 1
    BY <1>1, <1>7
  <2>3. \A k \in 0 .. MaxReq - 2 : d.ctx[Slot(d, k)] = c.ctx[Slot(c, k + 1)]
    <3>1. \A k \in 0 .. MaxReq - 2 : k \in 0 .. MaxReq - 1 /\ k + 1 \in 1 .. MaxReq - 1
      BY <1>2
    <3> QED
      BY <1>6, <2>1, <3>1
  <2>4. \A k \in 0 .. n - 2 : k + 1 \in 0 .. n - 1 /\ k \in 0 .. MaxReq - 2
    BY <1>2
  <2>5. 0 .. d.exists - 1 = 0 .. n - 2
    BY <1>2, <2>2
  <2>6. ClimbingIds(d)
    <3>1. ASSUME NEW j \in 0 .. n - 2, NEW k \in 0 .. n - 2, j <= k
          PROVE  d.ctx[Slot(d, k)].id <= d.ctx[Slot(d, j)].id + (k - j)
      <4>1. j + 1 <= k + 1 /\ (k + 1) - (j + 1) = k - j
        BY <1>2, <3>1
      <4>2. c.ctx[Slot(c, k + 1)].id <= c.ctx[Slot(c, j + 1)].id + ((k + 1) - (j + 1))
        BY <1>3, <2>4, <4>1 DEF ClimbingIds, n
      <4> QED
        BY <2>3, <2>4, <4>1, <4>2
    <3>2. ASSUME NEW j \in 0 .. n - 2
          PROVE  d.counter <= d.ctx[Slot(d, j)].id + (d.exists - j)
      <4>1. d.exists - j = n - (j + 1)
        BY <1>2, <2>2
      <4>2. c.counter <= c.ctx[Slot(c, j + 1)].id + (n - (j + 1))
        BY <1>3, <2>4 DEF ClimbingIds, n
      <4> QED
        BY <1>1, <2>3, <2>4, <4>1, <4>2
    <3> QED
      BY <2>5, <3>1, <3>2, Zenon DEF ClimbingIds
  <2>7. CleanFree(d)
    <3>1. ASSUME NEW k \in n - 1 .. MaxReq - 1
          PROVE  d.ctx[Slot(d, k)].groups = <<>>
      <4>0. k \in 0 .. MaxReq - 1 /\ n - 1 \in 0 .. MaxReq - 1
        BY <1>1, <1>2
      <4>1. CASE k = MaxReq - 1
        <5>1. Slot(d, k) = c.first
          <6>1. k + 1 = MaxReq
            BY <1>2, <4>1
          <6> QED
            BY <1>4, <2>1, <4>0, <6>1
        <5> QED
          BY <1>5, <1>7, <5>1 DEF IsComplete
      <4>2. CASE k # MaxReq - 1
        <5>1. k \in 0 .. MaxReq - 2 /\ k + 1 \in n .. MaxReq - 1
          BY <1>2, <4>0, <4>2
        <5>2. c.ctx[Slot(c, k + 1)].groups = <<>>
          BY <1>3, <5>1 DEF CleanFree, n
        <5> QED
          BY <2>3, <5>1, <5>2
      <4> QED
        BY <4>1, <4>2
    <3> QED
      BY <2>2, <3>1 DEF CleanFree
  <2>8. NoneStuck(d)
    <3>1. ASSUME NEW k \in 0 .. n - 2
          PROVE  ~IsComplete(d.ctx[Slot(d, k)])
      <4>1. ~IsComplete(c.ctx[Slot(c, k + 1)])
        BY <1>3, <2>4 DEF NoneStuck, n
      <4> QED
        BY <2>3, <2>4, <4>1
    <3> QED
      BY <2>5, <3>1, Zenon DEF NoneStuck
  <2> QED
    BY <2>6, <2>7, <2>8 DEF RingInv, d
<1>8. CASE ~IsComplete(x)
  <2>1. d.exists = n /\ d.first = c.first
    BY <1>1, <1>8
  <2>2. \A k : Slot(d, k) = Slot(c, k)
    BY <2>1 DEF Slot
  <2>3. \A k \in 0 .. MaxReq - 1 : k = 0 \/ k \in 1 .. MaxReq - 1
    BY <1>2
  <2>4. \A k \in 0 .. MaxReq - 1 : d.ctx[Slot(d, k)].id = c.ctx[Slot(c, k)].id
    BY <1>1, <1>4, <1>5, <1>6, <2>2, <2>3
  <2>5. 0 .. n - 1 \subseteq 0 .. MaxReq - 1 /\ n .. MaxReq - 1 \subseteq 1 .. MaxReq - 1
    BY <1>1, <1>2
  <2>6. ClimbingIds(d)
    BY <1>1, <1>3, <2>1, <2>4, <2>5 DEF ClimbingIds, n
  <2>7. CleanFree(d)
    BY <1>3, <1>6, <2>1, <2>2, <2>5 DEF CleanFree, n
  <2>8. NoneStuck(d)
    <3>1. ASSUME NEW k \in 0 .. n - 1
          PROVE  ~IsComplete(d.ctx[Slot(d, k)])
      <4>1. CASE k = 0
        BY <1>4, <1>5, <1>8, <2>2, <4>1
      <4>2. CASE k # 0
        <5>1. k \in 1 .. MaxReq - 1
          BY <2>3, <2>5, <4>2
        <5>2. ~IsComplete(c.ctx[Slot(c, k)])
          BY <1>3 DEF NoneStuck, n
        <5> QED
          BY <1>6, <2>2, <5>1, <5>2
      <4> QED
        BY <4>1, <4>2
    <3> QED
      BY <2>1, <3>1 DEF NoneStuck
  <2> QED
    BY <2>6, <2>7, <2>8 DEF RingInv, d
<1> QED
  BY <1>7, <1>8

-----------------------------------------------------------------------------
(* The state machine *)

IndInv == TypeOK /\ RingInv(coord)

\* The constructor establishes the inductive invariant.
LEMMA InitInd == Init => IndInv
<1> SUFFICES ASSUME Init PROVE IndInv
  OBVIOUS
<1>1. NewContext \in Context
  <2>1. <<>> \in Seq(Group)
    OBVIOUS
  <2>2. 0 \in 0 .. ReqIdModulus - 1
    BY ReqIdModulusAssumption
  <2> QED
    BY <2>1, <2>2 DEF NewContext, Context
<1>2. coord \in Coordinator
  <2>1. /\ 0 \in 0 .. MaxReq - 1 /\ 0 \in 0 .. MaxReq /\ 0 \in 0 .. ReqIdModulus - 1
    BY MaxReqAssumption, ReqIdModulusAssumption
  <2>2. [i \in 0 .. MaxReq - 1 |-> NewContext] \in [0 .. MaxReq - 1 -> Context]
    BY <1>1
  <2> QED
    BY <2>1, <2>2 DEF Init, NewCoordinator, Coordinator
<1>3. TypeOK
  <2>1. <<>> \in Seq(Item)
    OBVIOUS
  <2>2. total \in 0 .. MaxRequests /\ supplied \in [Request -> 0 .. MaxParts]
    BY BoundsAssumption DEF Init
  <2> QED
    BY <1>2, <2>1, <2>2, Zenon DEF Init, TypeOK
<1>4. RingInv(coord)
  <2>1. coord.exists = 0 /\ \A k \in 0 .. MaxReq - 1 : coord.ctx[k].groups = <<>>
    BY DEF Init, NewCoordinator, NewContext
  <2>2. \A k \in 0 .. MaxReq - 1 : Slot(coord, k) \in 0 .. MaxReq - 1
    BY <1>2, SlotValue, MaxReqAssumption
  <2>3. 0 .. 0 - 1 = {}
    OBVIOUS
  <2> QED
    BY <2>1, <2>2, <2>3 DEF RingInv, ClimbingIds, CleanFree, NoneStuck
<1> QED
  BY <1>3, <1>4 DEF IndInv

\* Registering a request preserves the inductive invariant.
LEMMA RegisterInd == IndInv /\ Register => IndInv'
<1> SUFFICES ASSUME IndInv, Register PROVE IndInv'
  OBVIOUS
<1>1. coord \in Coordinator /\ ~IsFull(coord) /\ RingInv(coord)
  BY DEF IndInv, TypeOK, Register
<1>2. coord' = RegisterNewRequest(coord)
  BY DEF Register
<1>3. coord' \in Coordinator
  BY <1>1, <1>2, RegisterEffect
<1>4. RingInv(coord')
  BY <1>1, <1>2, RegisterKeepsRing
<1>5. total' \in 0 .. MaxRequests
  BY BoundsAssumption DEF IndInv, TypeOK, Register
<1> QED
  BY <1>3, <1>4, <1>5, Zenon DEF IndInv, TypeOK, Register, RingInv, ClimbingIds,
       CleanFree, NoneStuck

\* Appending a part of a response preserves the inductive invariant.
LEMMA SupplyInd ==
  ASSUME NEW s \in Request, NEW fl \in Flags, NEW notify \in BOOLEAN,
         NEW empty \in BOOLEAN, IndInv, Supply(s, fl, notify, empty)
  PROVE  IndInv'
<1> DEFINE item  == <<s, supplied[s] + 1>>
           notif == IF notify THEN item ELSE NoNotif
           wg    == [items |-> IF empty THEN <<>> ELSE <<item>>,
                     status |-> supplied[s] = 0, notif |-> notif]
<1>1. coord \in Coordinator /\ RingInv(coord) /\ supplied \in [Request -> 0 .. MaxParts]
  BY DEF IndInv, TypeOK
<1>2. supplied[s] + 1 \in 1 .. MaxParts
  BY <1>1, BoundsAssumption DEF Supply
<1>3. item \in Item
  BY <1>2 DEF Item
<1>4. wg \in Group
  <2>1. <<>> \in Seq(Item) /\ <<item>> \in Seq(Item)
    BY <1>3
  <2>2. notif \in Item \union {NoNotif}
    BY <1>3
  <2> HIDE DEF notif, item
  <2> QED
    BY <2>1, <2>2 DEF Group
<1>5. Id(s) \in 0 .. ReqIdModulus - 1
  BY ReqIdModulusAssumption, BoundsAssumption DEF Id, Request
<1>6. supplied' \in [Request -> 0 .. MaxParts]
  <2>1. supplied' = [supplied EXCEPT ![s] = supplied[s] + 1]
    BY DEF Supply
  <2>2. supplied[s] + 1 \in 0 .. MaxParts
    BY <1>2, BoundsAssumption
  <2> QED
    BY <1>1, <2>1, <2>2
<1>7. given' \subseteq Item
  BY <1>3, Zenon DEF IndInv, TypeOK, Supply
<1>8. CASE AppendThrows(coord, Id(s))
  <2>1. coord' = coord /\ accepted' = accepted
    BY <1>8 DEF Supply
  <2>2. calls' \in [Item -> Nat]
    <3>1. calls \in [Item -> Nat]
      BY DEF IndInv, TypeOK
    <3>2. calls' = IF notify THEN [calls EXCEPT ![item] = calls[item] + 1] ELSE calls
      BY <1>8 DEF Supply
    <3> HIDE DEF item
    <3> QED
      BY <1>3, <3>1, <3>2
  <2>3. TypeOK'
    BY <1>6, <1>7, <2>1, <2>2 DEF IndInv, TypeOK, Supply
  <2>4. RingInv(coord')
    BY <1>1, <2>1
  <2> QED
    BY <2>3, <2>4 DEF IndInv, RingInv, ClimbingIds, CleanFree, NoneStuck
<1>9. CASE ~AppendThrows(coord, Id(s))
  <2>1. GetByReqId(coord, Id(s)) # NoCtx
    BY <1>9 DEF AppendThrows
  <2>2. coord' = AppendResponse(coord, Id(s), fl, wg)
    BY <1>9 DEF Supply
  <2>3. accepted' \subseteq Item /\ calls' = calls
    BY <1>3, <1>9, Zenon DEF IndInv, TypeOK, Supply
  <2> HIDE DEF wg
  <2>4. coord' \in Coordinator
    BY <1>1, <1>4, <1>5, <2>1, <2>2, AppendEffect
  <2>5. RingInv(coord')
    BY <1>1, <1>4, <1>5, <2>1, <2>2, AppendKeepsRing
  <2>6. TypeOK'
    BY <1>6, <1>7, <2>3, <2>4 DEF IndInv, TypeOK, Supply
  <2> QED
    BY <2>5, <2>6 DEF IndInv, RingInv, ClimbingIds, CleanFree, NoneStuck
<1> QED
  BY <1>8, <1>9

\* Popping a group preserves the inductive invariant.
LEMMA PopInd == IndInv /\ Pop => IndInv'
<1> SUFFICES ASSUME IndInv, Pop PROVE IndInv'
  OBVIOUS
<1>1. coord \in Coordinator /\ RingInv(coord) /\ HasReady(coord)
  BY DEF IndInv, TypeOK, Pop
<1>2. coord' = PopReadyBuffers(coord)
  BY DEF Pop
<1>3. coord' \in Coordinator
  BY <1>1, <1>2, PopEffect, Zenon
<1>4. RingInv(coord')
  BY <1>1, <1>2, PopKeepsRing
<1>5. ReadyGroup(coord) \in Group
  BY <1>1, FrontContextType, DequeueGroupType DEF HasReady, ReadyGroup
<1>6. emitted' \in Seq(Item) /\ handed' \subseteq Item
  <2>1. /\ ReadyGroup(coord).items \in Seq(Item)
        /\ ReadyGroup(coord).notif \in Item \union {NoNotif}
    BY <1>5 DEF Group
  <2>2. emitted \in Seq(Item) /\ handed \subseteq Item
    BY DEF IndInv, TypeOK
  <2>3. /\ emitted' = emitted \o ReadyGroup(coord).items
        /\ handed' = handed \union ({ReadyGroup(coord).notif} \ {NoNotif})
    BY DEF Pop
  <2>4. emitted \o ReadyGroup(coord).items \in Seq(Item)
    BY <2>1, <2>2
  <2> QED
    BY <2>1, <2>2, <2>3, <2>4
<1>7. TypeOK'
  BY <1>3, <1>6 DEF IndInv, TypeOK, Pop
<1> QED
  BY <1>4, <1>7 DEF IndInv, RingInv, ClimbingIds, CleanFree, NoneStuck

\* Resetting the coordinator preserves the inductive invariant.
LEMMA DropInd == IndInv /\ Drop => IndInv'
<1> SUFFICES ASSUME IndInv, Drop PROVE IndInv'
  OBVIOUS
<1>1. coord \in Coordinator /\ RingInv(coord)
  BY DEF IndInv, TypeOK
<1>2. coord' = Reset(coord)
  BY DEF Drop
<1>3. coord' \in Coordinator
  BY <1>1, <1>2, ResetEffect
<1>4. RingInv(coord')
  BY <1>1, <1>2, ResetKeepsRing
<1>5. calls' \in [Item -> Nat]
  BY DEF IndInv, TypeOK, Drop
<1>6. TypeOK'
  BY <1>3, <1>5 DEF IndInv, TypeOK, Drop
<1> QED
  BY <1>4, <1>6 DEF IndInv, RingInv, ClimbingIds, CleanFree, NoneStuck

\* Every step preserves the inductive invariant.
LEMMA NextInd == IndInv /\ [Next]_vars => IndInv'
<1> SUFFICES ASSUME IndInv, [Next]_vars PROVE IndInv'
  OBVIOUS
<1>1. CASE Register
  BY <1>1, RegisterInd
<1>2. CASE \E s \in Request, fl \in [final : BOOLEAN, close : BOOLEAN],
             notify, empty \in BOOLEAN : Supply(s, fl, notify, empty)
  BY <1>2, SupplyInd DEF Flags
<1>3. CASE Pop
  BY <1>3, PopInd
<1>4. CASE Drop
  BY <1>4, DropInd
<1>5. CASE UNCHANGED vars
  BY <1>5, Zenon DEF IndInv, TypeOK, RingInv, ClimbingIds, CleanFree, NoneStuck, Slot, vars
<1> QED
  BY <1>1, <1>2, <1>3, <1>4, <1>5 DEF Next

\* The inductive invariant holds in every reachable state.
LEMMA Inductive == Spec => []IndInv
BY InitInd, NextInd, PTL DEF Spec

\* The coordinator keeps its types, for every ring size, whatever the request
\* handlers append and whenever the connection pops or resets.
THEOREM TypeCorrect == Spec => []TypeOK
<1>1. IndInv => TypeOK
  BY DEF IndInv
<1> QED
  BY <1>1, Inductive, PTL

\* push_response_context() may reuse slots without clearing them: a slot outside
\* the queue never holds groups of an older response.
THEOREM SlotsAreClean == Spec => []FreeSlotsClean
<1>1. IndInv => FreeSlotsClean
  BY DEF IndInv, RingInv, CleanFree, FreeSlotsClean
<1> QED
  BY <1>1, Inductive, PTL

\* pop_ready_buffers() may remove a response only together with its last group:
\* no response of the queue is final and without groups, so none blocks the
\* later ones for ever.
THEOREM NoResponseIsStuck == Spec => []NoStuckResponse
<1>1. IndInv => NoStuckResponse
  BY DEF IndInv, RingInv, NoneStuck, NoStuckResponse
<1> QED
  BY <1>1, Inductive, PTL

-----------------------------------------------------------------------------
(* Requests are found by their ids *)
(* get_by_req_id() finds exactly the requests in progress, as long as      *)
(* request_id_t has not wrapped around: the contexts of the queue carry    *)
(* consecutive ids, the last one the id before the counter.                *)

\* The contexts of c carry the numbers of the last c.exists of t requests.
Numbered(c, t) ==
  /\ c.exists <= t
  /\ c.counter = t % ReqIdModulus
  /\ \A k \in 0 .. c.exists - 1 : c.ctx[Slot(c, k)].id = (t - c.exists) + k

NumInv == IndInv /\ Numbered(coord, total)

\* register_new_request() gives the next number to the new last context.
LEMMA RegisterNumbers ==
  ASSUME NEW c \in Coordinator, ~IsFull(c), NEW t \in Nat, t < ReqIdModulus,
         Numbered(c, t)
  PROVE  Numbered(RegisterNewRequest(c), t + 1)
<1> DEFINE d  == RegisterNewRequest(c)
           n  == c.exists
           s0 == Slot(c, n)
<1>1. n \in 0 .. MaxReq - 1 /\ n \in Int /\ t \in Int /\ MaxReq \in Int
  BY MaxReqAssumption DEF Coordinator, IsFull
<1>2. /\ d.first = c.first /\ d.exists = n + 1
      /\ d.counter = (c.counter + 1) % ReqIdModulus
      /\ d.ctx[s0] = Reinit(c.ctx[s0], c.counter)
      /\ \A s \in 0 .. MaxReq - 1 : s # s0 => d.ctx[s] = c.ctx[s]
  BY RegisterEffect
<1>3. \A k : Slot(d, k) = Slot(c, k)
  BY <1>2 DEF Slot
<1>4. \A k \in 0 .. MaxReq - 1 : Slot(c, k) \in 0 .. MaxReq - 1
  BY SlotValue, MaxReqAssumption
<1>5. c.counter = t
  BY ReqIdModulusAssumption DEF Numbered
<1>6. d.ctx[Slot(d, n)].id = t
  <2>1. c.ctx[s0] \in Context /\ c.counter \in 0 .. ReqIdModulus - 1
    BY <1>1, <1>4 DEF Coordinator
  <2> QED
    BY <1>2, <1>3, <1>5, <2>1, ReinitType
<1>7. \A k \in 0 .. n - 1 : d.ctx[Slot(d, k)].id = (t - n) + k
  <2>1. ASSUME NEW k \in 0 .. n - 1
        PROVE  d.ctx[Slot(d, k)] = c.ctx[Slot(c, k)]
    <3>1. k \in 0 .. MaxReq - 1 /\ k # n
      BY <1>1
    <3>2. Slot(c, k) # s0
      BY <1>1, <3>1, SlotInjective
    <3> QED
      BY <1>2, <1>3, <1>4, <3>1, <3>2
  <2> QED
    BY <2>1 DEF Numbered
<1> HIDE DEF d, n, s0
<1>8. \A k \in 0 .. d.exists - 1 : d.ctx[Slot(d, k)].id = ((t + 1) - d.exists) + k
  <2>1. ASSUME NEW k \in 0 .. d.exists - 1
        PROVE  d.ctx[Slot(d, k)].id = ((t + 1) - d.exists) + k
    <3>1. k \in Int /\ (k \in 0 .. n - 1 \/ k = n)
      BY <1>1, <1>2
    <3>2. ((t + 1) - d.exists) + k = (t - n) + k
      BY <1>1, <1>2, <3>1
    <3>3. (t - n) + n = t
      BY <1>1
    <3> QED
      BY <1>6, <1>7, <3>1, <3>2, <3>3
  <2> QED
    BY <2>1
<1>9. d.exists <= t + 1 /\ d.counter = (t + 1) % ReqIdModulus
  BY <1>1, <1>2, <1>5 DEF Numbered, n
<1> QED
  BY <1>8, <1>9 DEF Numbered, d

\* append_response() changes no id.
LEMMA AppendNumbers ==
  ASSUME NEW c \in Coordinator, NEW id \in 0 .. ReqIdModulus - 1,
         NEW fl \in Flags, NEW wg \in Group, GetByReqId(c, id) # NoCtx,
         NEW t \in Nat, Numbered(c, t)
  PROVE  Numbered(AppendResponse(c, id, fl, wg), t)
<1> DEFINE d == AppendResponse(c, id, fl, wg)
           g == GetByReqId(c, id)
<1>1. /\ d.first = c.first /\ d.exists = c.exists /\ d.counter = c.counter
      /\ d.ctx[g].id = c.ctx[g].id
      /\ \A s \in 0 .. MaxReq - 1 : s # g => d.ctx[s] = c.ctx[s]
  BY AppendEffect
<1> HIDE DEF d, g
<1>2. \A k : Slot(d, k) = Slot(c, k)
  BY <1>1 DEF Slot
<1>3. \A k \in 0 .. c.exists - 1 : Slot(c, k) \in 0 .. MaxReq - 1
  <2>1. \A k \in 0 .. c.exists - 1 : k \in 0 .. MaxReq
    BY MaxReqAssumption DEF Coordinator
  <2> QED
    BY <2>1, SlotValue
<1>4. \A k \in 0 .. c.exists - 1 : d.ctx[Slot(d, k)].id = c.ctx[Slot(c, k)].id
  BY <1>1, <1>2, <1>3
<1> QED
  BY <1>1, <1>4 DEF Numbered, d

\* pop_ready_buffers() removes the lowest number or none.
LEMMA PopNumbers ==
  ASSUME NEW c \in Coordinator, HasReady(c), NEW t \in Nat, Numbered(c, t)
  PROVE  Numbered(PopReadyBuffers(c), t)
<1> DEFINE d == PopReadyBuffers(c)
           x == DequeueGroup(FrontContext(c))
           n == c.exists
<1>1. /\ d \in Coordinator /\ d.counter = c.counter
      /\ d.ctx = [c.ctx EXCEPT ![c.first] = x]
      /\ x.id = c.ctx[c.first].id
      /\ n > 0
      /\ IF IsComplete(x)
         THEN /\ d.exists = n - 1
              /\ d.first = IF c.first + 1 = MaxReq THEN 0 ELSE c.first + 1
         ELSE d.exists = n /\ d.first = c.first
  BY PopEffect
<1>2. /\ n \in 0 .. MaxReq /\ MaxReq \in Int /\ MaxReq > 0 /\ t \in Int
      /\ c.ctx \in [0 .. MaxReq - 1 -> Context] /\ c.first \in 0 .. MaxReq - 1
      /\ n \in Int /\ c.first \in Int
  BY MaxReqAssumption DEF Coordinator
<1> HIDE DEF d, x, n
<1>3. \A s \in 0 .. MaxReq - 1 : d.ctx[s].id = c.ctx[s].id
  BY <1>1, <1>2
<1>4. \A k \in 0 .. n - 1 :
        /\ c.ctx[Slot(c, k)].id = (t - n) + k
        /\ Slot(c, k) \in 0 .. MaxReq - 1
  <2>1. \A k \in 0 .. n - 1 : k \in 0 .. MaxReq
    BY <1>2
  <2> QED
    BY <2>1, SlotValue DEF Numbered, n
<1>5. n <= t /\ d.counter = t % ReqIdModulus
  BY <1>1 DEF Numbered, n
<1>6. CASE IsComplete(x)
  <2>1. ASSUME NEW k \in 0 .. n - 2
        PROVE  d.ctx[Slot(d, k)].id = (t - d.exists) + k
    <3>1. k \in 0 .. MaxReq /\ k + 1 \in 0 .. MaxReq /\ k + 1 \in 0 .. n - 1 /\ k \in Int
      BY <1>2
    <3>2. d.first = IF c.first + 1 = MaxReq THEN 0 ELSE c.first + 1
      BY <1>1, <1>6
    <3>3. /\ Slot(d, k) = IF d.first + k < MaxReq THEN d.first + k
                                                  ELSE d.first + k - MaxReq
          /\ Slot(c, k + 1) = IF c.first + (k + 1) < MaxReq THEN c.first + (k + 1)
                              ELSE c.first + (k + 1) - MaxReq
      BY <1>1, <3>1, SlotValue
    <3>4. Slot(d, k) = Slot(c, k + 1)
      <4>1. CASE c.first + 1 = MaxReq
        BY <1>2, <3>1, <3>2, <3>3, <4>1
      <4>2. CASE c.first + 1 # MaxReq
        <5>1. d.first = c.first + 1 /\ d.first + k = c.first + (k + 1)
          BY <1>2, <3>1, <3>2, <4>2
        <5> QED
          BY <1>2, <3>1, <3>3, <5>1
      <4> QED
        BY <4>1, <4>2
    <3>5. d.ctx[Slot(d, k)].id = (t - n) + (k + 1)
      BY <1>3, <1>4, <3>1, <3>4
    <3>6. d.exists = n - 1
      BY <1>1, <1>6
    <3>7. (t - n) + (k + 1) = (t - (n - 1)) + k
      BY <1>2, <3>1
    <3> QED
      BY <3>5, <3>6, <3>7
  <2>2. d.exists = n - 1
    BY <1>1, <1>6
  <2>3. 0 .. d.exists - 1 = 0 .. n - 2 /\ d.exists <= t
    BY <1>2, <1>5, <2>2
  <2> QED
    BY <1>5, <2>1, <2>3, Zenon DEF Numbered, d
<1>7. CASE ~IsComplete(x)
  <2>1. d.exists = n /\ d.first = c.first
    BY <1>1, <1>7
  <2>2. \A k : Slot(d, k) = Slot(c, k)
    BY <2>1 DEF Slot
  <2> QED
    BY <1>3, <1>4, <1>5, <2>1, <2>2 DEF Numbered, d
<1> QED
  BY <1>6, <1>7

-----------------------------------------------------------------------------

\* An empty table is numbered.
LEMMA InitNum == Init => NumInv
<1> SUFFICES ASSUME Init PROVE NumInv
  OBVIOUS
<1>1. IndInv
  BY InitInd
<1>2. coord.exists = 0 /\ coord.counter = 0 /\ total = 0
  BY DEF Init, NewCoordinator
<1>3. 0 % ReqIdModulus = 0
  BY ReqIdModulusAssumption
<1> QED
  BY <1>1, <1>2, <1>3 DEF NumInv, Numbered

\* Every step keeps the ids of the queue consecutive.
LEMMA NextNum ==
  ASSUME MaxRequests <= ReqIdModulus, NumInv, [Next]_vars
  PROVE  NumInv'
<1>1. IndInv'
  BY NextInd DEF NumInv
<1>2. /\ coord \in Coordinator /\ Numbered(coord, total)
      /\ total \in Nat /\ total <= MaxRequests
  BY BoundsAssumption DEF NumInv, IndInv, TypeOK
<1>3. SUFFICES Numbered(coord', total')
  BY <1>1, <1>3 DEF NumInv, Numbered, Slot
<1>4. CASE Register
  <2>1. ~IsFull(coord) /\ coord' = RegisterNewRequest(coord) /\ total' = total + 1
    BY <1>4 DEF Register
  <2>2. total < ReqIdModulus
    BY <1>2, <1>4, BoundsAssumption, ReqIdModulusAssumption DEF Register
  <2> QED
    BY <1>2, <2>1, <2>2, RegisterNumbers
<1>5. ASSUME NEW s \in Request, NEW fl \in Flags, NEW notify \in BOOLEAN,
             NEW empty \in BOOLEAN, Supply(s, fl, notify, empty)
      PROVE  Numbered(coord', total')
  <2> DEFINE item  == <<s, supplied[s] + 1>>
             notif == IF notify THEN item ELSE NoNotif
             wg    == [items |-> IF empty THEN <<>> ELSE <<item>>,
                       status |-> supplied[s] = 0, notif |-> notif]
  <2>1. total' = total
    BY <1>5 DEF Supply
  <2>2. wg \in Group
    <3>1. supplied[s] + 1 \in 1 .. MaxParts
      BY <1>5, BoundsAssumption DEF Supply, NumInv, IndInv, TypeOK
    <3>2. item \in Item
      BY <3>1 DEF Item
    <3>3. <<>> \in Seq(Item) /\ <<item>> \in Seq(Item)
      BY <3>2
    <3>4. notif \in Item \union {NoNotif}
      BY <3>2
    <3> HIDE DEF notif, item
    <3> QED
      BY <3>3, <3>4 DEF Group
  <2>3. Id(s) \in 0 .. ReqIdModulus - 1
    BY ReqIdModulusAssumption, BoundsAssumption DEF Id, Request
  <2>4. CASE AppendThrows(coord, Id(s))
    BY <1>2, <1>5, <2>1, <2>4 DEF Supply
  <2>5. CASE ~AppendThrows(coord, Id(s))
    <3>1. GetByReqId(coord, Id(s)) # NoCtx
      BY <2>5 DEF AppendThrows
    <3>2. coord' = AppendResponse(coord, Id(s), fl, wg)
      BY <1>5, <2>5 DEF Supply
    <3> HIDE DEF wg
    <3> QED
      BY <1>2, <2>1, <2>2, <2>3, <3>1, <3>2, AppendNumbers
  <2> QED
    BY <2>4, <2>5
<1>6. CASE Pop
  BY <1>2, <1>6, PopNumbers DEF Pop
<1>7. CASE Drop
  <2>1. coord' = Reset(coord) /\ total' = total
    BY <1>7 DEF Drop
  <2>2. coord'.exists = 0 /\ coord'.counter = coord.counter
    BY <1>2, <2>1, ResetEffect
  <2> QED
    BY <1>2, <2>1, <2>2 DEF Numbered
<1>8. CASE UNCHANGED vars
  BY <1>2, <1>8 DEF vars
<1> QED
  BY <1>4, <1>5, <1>6, <1>7, <1>8 DEF Next, Flags

\* Consecutive ids make the range test and the offset of get_by_req_id() exact.
LEMMA NumberedLookup ==
  ASSUME MaxRequests <= ReqIdModulus, NumInv
  PROVE  LookupExact
<1> SUFFICES ASSUME NEW s \in 0 .. total - 1
             PROVE  GetByReqId(coord, Id(s)) =
                      IF s >= Oldest THEN Slot(coord, s - Oldest) ELSE NoCtx
  BY DEF LookupExact
<1> DEFINE n == coord.exists
<1>1. /\ coord \in Coordinator /\ total \in 0 .. MaxRequests /\ MaxRequests \in Nat
      /\ n \in 0 .. MaxReq /\ n \in Int /\ total \in Int /\ s \in Int /\ n <= total
      /\ coord.first \in 0 .. MaxReq - 1 /\ MaxReq \in Nat
  BY BoundsAssumption, MaxReqAssumption
     DEF NumInv, IndInv, TypeOK, Coordinator, Numbered
<1>2. Id(s) = s
  BY <1>1, ReqIdModulusAssumption DEF Id
<1>3. Oldest = total - n
  BY DEF Oldest
<1>4. CASE n = 0
  <2>1. ~(s >= Oldest)
    BY <1>1, <1>3, <1>4
  <2> QED
    BY <1>4, <2>1 DEF GetByReqId, Empty
<1>5. CASE n # 0
  <2>1. 0 \in 0 .. n - 1 /\ n - 1 \in 0 .. n - 1
    BY <1>1, <1>5
  <2>2. Slot(coord, 0) = coord.first
    <3>1. 0 \in 0 .. MaxReq /\ coord.first + 0 < MaxReq /\ coord.first + 0 = coord.first
      BY <1>1
    <3> QED
      BY <1>1, <3>1, SlotValue
  <2>3. FrontContext(coord).id = (total - n) + 0
    BY <2>1, <2>2 DEF NumInv, Numbered, FrontContext
  <2>4. BackContext(coord).id = (total - n) + (n - 1)
    BY <2>1 DEF NumInv, Numbered, BackContext
  <2>5. /\ ~(s > BackContext(coord).id)
        /\ s < FrontContext(coord).id <=> ~(s >= Oldest)
        /\ s - FrontContext(coord).id = s - Oldest
    BY <1>1, <1>3, <2>3, <2>4
  <2> QED
    BY <1>2, <1>5, <2>5 DEF GetByReqId, Empty
<1> QED
  BY <1>4, <1>5

\* get_by_req_id() returns the context of the request it was asked for, and
\* nullptr for a completed one, for every ring size and every interleaving of
\* handlers and writes: provided that no more requests are registered than
\* request_id_t has values.  The run of the coordinator checks LookupExact on
\* an instance.
THEOREM LookupCorrect ==
  ASSUME MaxRequests <= ReqIdModulus
  PROVE  Spec => []LookupExact
<1>1. NumInv /\ [Next]_vars => NumInv'
  BY NextNum
<1>2. NumInv => LookupExact
  BY NumberedLookup
<1> QED
  BY <1>1, <1>2, InitNum, PTL DEF Spec

-----------------------------------------------------------------------------
(* The contexts of the queue, without the ring *)

Ctx(c, k) == c.ctx[Slot(c, k)]

\* A context of the queue is a context.
LEMMA CtxType ==
  ASSUME NEW c \in Coordinator, NEW k \in 0 .. c.exists - 1
  PROVE  Ctx(c, k) \in Context
<1>1. k \in 0 .. MaxReq /\ c.ctx \in [0 .. MaxReq - 1 -> Context]
  BY MaxReqAssumption DEF Coordinator
<1> QED
  BY <1>1, SlotValue, Zenon DEF Ctx

\* register_new_request() adds a fresh context at the end.
LEMMA RegisterQueue ==
  ASSUME NEW c \in Coordinator, ~IsFull(c), CleanFree(c)
  PROVE  LET d == RegisterNewRequest(c) IN
         /\ d \in Coordinator /\ d.exists = c.exists + 1 /\ d.closed = c.closed
         /\ \A k \in 0 .. c.exists - 1 : Ctx(d, k) = Ctx(c, k)
         /\ Ctx(d, c.exists).groups = <<>>
         /\ ~Ctx(d, c.exists).final /\ ~Ctx(d, c.exists).close
<1> DEFINE d == RegisterNewRequest(c)
           n == c.exists
<1>1. n \in 0 .. MaxReq - 1 /\ n \in Int /\ MaxReq \in Int
  BY MaxReqAssumption DEF Coordinator, IsFull
<1>2. /\ d \in Coordinator /\ d.first = c.first /\ d.exists = n + 1 /\ d.closed = c.closed
      /\ d.ctx[Slot(c, n)] = Reinit(c.ctx[Slot(c, n)], c.counter)
      /\ \A s \in 0 .. MaxReq - 1 : s # Slot(c, n) => d.ctx[s] = c.ctx[s]
  BY RegisterEffect
<1> HIDE DEF d, n
<1>3. \A k : Slot(d, k) = Slot(c, k)
  BY <1>2 DEF Slot
<1>4. \A k \in 0 .. MaxReq - 1 : Slot(c, k) \in 0 .. MaxReq - 1
  <2>1. \A k \in 0 .. MaxReq - 1 : k \in 0 .. MaxReq
    BY <1>1
  <2> QED
    BY <2>1, SlotValue
<1>5. ASSUME NEW k \in 0 .. n - 1 PROVE Ctx(d, k) = Ctx(c, k)
  <2>1. k \in 0 .. MaxReq - 1 /\ k # n
    BY <1>1
  <2>2. Slot(c, k) # Slot(c, n)
    BY <1>1, <2>1, SlotInjective
  <2> QED
    BY <1>2, <1>3, <1>4, <2>1, <2>2 DEF Ctx
<1>6. /\ Ctx(d, n).groups = <<>> /\ ~Ctx(d, n).final /\ ~Ctx(d, n).close
  <2>1. c.ctx[Slot(c, n)] \in Context /\ c.counter \in 0 .. ReqIdModulus - 1
    BY <1>1, <1>4 DEF Coordinator
  <2>2. n \in c.exists .. MaxReq - 1
    BY <1>1 DEF n
  <2>3. c.ctx[Slot(c, n)].groups = <<>>
    BY <2>2 DEF CleanFree
  <2> QED
    BY <1>2, <1>3, <2>1, <2>3, ReinitType DEF Ctx
<1> QED
  BY <1>2, <1>5, <1>6 DEF d, n

\* append_response() enqueues the group into one context of the queue.
LEMMA AppendQueue ==
  ASSUME NEW c \in Coordinator, ClimbingIds(c), NEW id \in 0 .. ReqIdModulus - 1,
         NEW fl \in Flags, NEW wg \in Group, GetByReqId(c, id) # NoCtx
  PROVE  LET d == AppendResponse(c, id, fl, wg) IN
         /\ d \in Coordinator /\ d.exists = c.exists /\ d.closed = c.closed
         /\ \E q \in 0 .. c.exists - 1 :
              /\ GetByReqId(c, id) = Slot(c, q)
              /\ Ctx(d, q) = EnqueueGroup([Ctx(c, q) EXCEPT !.final = fl.final,
                                                            !.close = fl.close], wg)
              /\ \A k \in 0 .. c.exists - 1 : k # q => Ctx(d, k) = Ctx(c, k)
<1> DEFINE d == AppendResponse(c, id, fl, wg)
           g == GetByReqId(c, id)
           n == c.exists
<1>1. /\ d \in Coordinator /\ d.first = c.first /\ d.exists = n /\ d.closed = c.closed
      /\ d.ctx[g] = EnqueueGroup([c.ctx[g] EXCEPT !.final = fl.final,
                                                  !.close = fl.close], wg)
      /\ \A s \in 0 .. MaxReq - 1 : s # g => d.ctx[s] = c.ctx[s]
  BY AppendEffect
<1>2. PICK q \in 0 .. n - 1 : g = Slot(c, q)
  BY LookupInQueue
<1>3. n \in 0 .. MaxReq /\ MaxReq \in Int
  BY MaxReqAssumption DEF Coordinator
<1> HIDE DEF d, g, n
<1>4. \A k : Slot(d, k) = Slot(c, k)
  BY <1>1 DEF Slot
<1>5. \A k \in 0 .. n - 1 : k \in 0 .. MaxReq - 1 /\ k \in 0 .. MaxReq
  BY <1>3
<1>6. ASSUME NEW k \in 0 .. n - 1, k # q PROVE Ctx(d, k) = Ctx(c, k)
  <2>1. Slot(c, k) # g /\ Slot(c, k) \in 0 .. MaxReq - 1
    BY <1>2, <1>5, <1>6, SlotInjective, SlotValue
  <2> QED
    BY <1>1, <1>4, <2>1 DEF Ctx
<1>7. Ctx(d, q) = EnqueueGroup([Ctx(c, q) EXCEPT !.final = fl.final,
                                                 !.close = fl.close], wg)
  BY <1>1, <1>2, <1>4 DEF Ctx
<1> QED
  BY <1>1, <1>2, <1>6, <1>7 DEF d, g, n

\* pop_ready_buffers() takes the first group of the first context, and removes that
\* context if it is complete.
LEMMA PopQueue ==
  ASSUME NEW c \in Coordinator, HasReady(c)
  PROVE  LET d == PopReadyBuffers(c)
             x == DequeueGroup(Ctx(c, 0)) IN
         /\ d \in Coordinator
         /\ c.exists > 0 /\ Ctx(c, 0) = FrontContext(c) /\ Ctx(c, 0).groups # <<>>
         /\ IF IsComplete(x)
            THEN /\ d.exists = c.exists - 1 /\ d.closed = x.close
                 /\ \A k \in 0 .. c.exists - 2 : Ctx(d, k) = Ctx(c, k + 1)
            ELSE /\ d.exists = c.exists /\ d.closed = c.closed
                 /\ Ctx(d, 0) = x
                 /\ \A k \in 1 .. c.exists - 1 : Ctx(d, k) = Ctx(c, k)
<1> DEFINE d == PopReadyBuffers(c)
           x == DequeueGroup(FrontContext(c))
           n == c.exists
<1>1. /\ d \in Coordinator
      /\ d.ctx = [c.ctx EXCEPT ![c.first] = x]
      /\ n > 0
      /\ IF IsComplete(x)
         THEN /\ d.exists = n - 1
              /\ d.first = IF c.first + 1 = MaxReq THEN 0 ELSE c.first + 1
              /\ d.closed = x.close
         ELSE d.exists = n /\ d.first = c.first /\ d.closed = c.closed
  BY PopEffect
<1>2. /\ n \in 0 .. MaxReq /\ MaxReq \in Int /\ MaxReq > 0 /\ n \in Int
      /\ c.ctx \in [0 .. MaxReq - 1 -> Context] /\ c.first \in 0 .. MaxReq - 1
      /\ c.first \in Int
  BY MaxReqAssumption DEF Coordinator
<1>3. FrontContext(c).groups # <<>>
  BY DEF HasReady
<1> HIDE DEF d, x, n
<1>4. Slot(c, 0) = c.first
  <2>1. 0 \in 0 .. MaxReq /\ c.first + 0 < MaxReq /\ c.first + 0 = c.first
    BY <1>2
  <2> QED
    BY <2>1, SlotValue
<1>5. Ctx(c, 0) = FrontContext(c)
  BY <1>4 DEF Ctx, FrontContext
<1>6. \A k \in 1 .. n - 1 : d.ctx[Slot(c, k)] = c.ctx[Slot(c, k)]
  <2>1. ASSUME NEW k \in 1 .. n - 1
        PROVE  Slot(c, k) \in 0 .. MaxReq - 1 /\ Slot(c, k) # c.first
    <3>1. k \in 0 .. MaxReq - 1 /\ k \in 0 .. MaxReq /\ k # 0 /\ 0 \in 0 .. MaxReq - 1
      BY <1>2
    <3> QED
      BY <1>4, <3>1, SlotInjective, SlotValue
  <2> QED
    BY <1>1, <1>2, <2>1
<1>7. CASE IsComplete(x)
  <2>1. ASSUME NEW k \in 0 .. n - 2
        PROVE  Ctx(d, k) = Ctx(c, k + 1)
    <3>1. /\ k \in 0 .. MaxReq /\ k + 1 \in 0 .. MaxReq /\ k + 1 \in 1 .. n - 1 /\ k \in Int
          /\ c.first \in Int /\ MaxReq \in Int
      BY <1>2
    <3>2. d.first = IF c.first + 1 = MaxReq THEN 0 ELSE c.first + 1
      BY <1>1, <1>7
    <3>3. /\ Slot(d, k) = IF d.first + k < MaxReq THEN d.first + k
                                                  ELSE d.first + k - MaxReq
          /\ Slot(c, k + 1) = IF c.first + (k + 1) < MaxReq THEN c.first + (k + 1)
                              ELSE c.first + (k + 1) - MaxReq
      BY <1>1, <3>1, SlotValue
    <3>4. Slot(d, k) = Slot(c, k + 1)
      <4>1. CASE c.first + 1 = MaxReq
        <5>1. /\ d.first = 0 /\ d.first + k = k /\ k < MaxReq
              /\ c.first + (k + 1) = MaxReq + k
          BY <1>2, <3>1, <3>2, <4>1
        <5> QED
          BY <1>2, <3>1, <3>3, <5>1
      <4>2. CASE c.first + 1 # MaxReq
        <5>1. d.first = c.first + 1
          BY <3>2, <4>2, Zenon
        <5>2. \A u, v \in Int : (u + 1) + v = u + (v + 1)
          OBVIOUS
        <5>3. d.first + k = c.first + (k + 1)
          BY <3>1, <5>1, <5>2, Zenon
        <5> QED
          BY <1>2, <3>1, <3>3, <5>1, <5>3
      <4> QED
        BY <4>1, <4>2
    <3> QED
      BY <1>6, <3>1, <3>4 DEF Ctx
  <2> QED
    BY <1>1, <1>3, <1>5, <1>7, <2>1 DEF d, n, x
<1>8. CASE ~IsComplete(x)
  <2>1. d.exists = n /\ d.first = c.first /\ d.closed = c.closed
    BY <1>1, <1>8
  <2>2. \A k : Slot(d, k) = Slot(c, k)
    BY <2>1 DEF Slot
  <2>3. Ctx(d, 0) = x
    BY <1>1, <1>2, <1>4, <2>2 DEF Ctx
  <2>4. \A k \in 1 .. n - 1 : Ctx(d, k) = Ctx(c, k)
    BY <1>6, <2>2 DEF Ctx
  <2> QED
    BY <1>1, <1>3, <1>5, <1>8, <2>1, <2>3, <2>4 DEF d, n, x
<1> QED
  BY <1>7, <1>8

-----------------------------------------------------------------------------
(* The notificators of the groups of a response *)

\* No two groups have the same notificator.
Distinct(groups) ==
  \A i, j \in DOMAIN groups :
    groups[i].notif # NoNotif /\ groups[i].notif = groups[j].notif => i = j

Named(notif) == {notif} \ {NoNotif}

\* Appending a group appends its notificator; merging replaces "none" by it.
LEMMA EnqueueNotifs ==
  ASSUME NEW ctx \in Context, NEW wg \in Group, Distinct(ctx.groups),
         wg.notif \notin GroupNotifs(ctx.groups)
  PROVE  LET new == EnqueueGroup(ctx, wg).groups IN
         /\ GroupNotifs(new) = GroupNotifs(ctx.groups) \union Named(wg.notif)
         /\ Distinct(new)
<1> DEFINE gs  == ctx.groups
           n   == Len(gs)
           new == EnqueueGroup(ctx, wg).groups
<1>1. gs \in Seq(Group) /\ n \in Nat /\ DOMAIN gs = 1 .. n
  BY LenProperties DEF Context
<1>2. CASE Mergeable(ctx, wg)
  <2>1. gs # <<>> /\ n \in 1 .. n /\ gs[n].notif = NoNotif
    BY <1>1, <1>2, EmptySeq DEF Mergeable
  <2>2. new = [gs EXCEPT ![n] = Merge(gs[n], wg)]
    BY <1>2 DEF EnqueueGroup, Context
  <2>3. /\ DOMAIN new = 1 .. n
        /\ \A i \in 1 .. n : new[i].notif = IF i = n THEN wg.notif ELSE gs[i].notif
    <3>1. Merge(gs[n], wg).notif = wg.notif
      BY DEF Merge
    <3> HIDE DEF new, gs, n
    <3> QED
      BY <1>1, <2>2, <3>1
  <2> HIDE DEF new, n
  <2>4. Distinct(new)
    BY <1>1, <2>1, <2>3 DEF Distinct, GroupNotifs
  <2>5. GroupNotifs(new) = GroupNotifs(gs) \union Named(wg.notif)
    <3>1. ASSUME NEW x, x # NoNotif
          PROVE  x \in GroupNotifs(new) <=> x \in GroupNotifs(gs) \union Named(wg.notif)
      BY <1>1, <2>1, <2>3, <3>1 DEF GroupNotifs, Named
    <3>2. NoNotif \notin GroupNotifs(new) /\ NoNotif \notin GroupNotifs(gs) \union Named(wg.notif)
      BY DEF GroupNotifs, Named
    <3> QED
      BY <3>1, <3>2
  <2> QED
    BY <2>4, <2>5 DEF new
<1>3. CASE ~Mergeable(ctx, wg)
  <2>1. new = Append(gs, wg)
    BY <1>3 DEF EnqueueGroup, Context
  <2>2. /\ DOMAIN new = 1 .. n + 1
        /\ \A i \in 1 .. n : new[i] = gs[i]
        /\ new[n + 1] = wg
    <3>1. /\ Append(gs, wg) \in Seq(Group) /\ Len(Append(gs, wg)) = n + 1
          /\ \A i \in 1 .. n : Append(gs, wg)[i] = gs[i]
          /\ Append(gs, wg)[n + 1] = wg
      BY <1>1, AppendProperties
    <3> QED
      BY <2>1, <3>1, LenProperties
  <2> HIDE DEF new, n
  <2>3. /\ \A i \in 1 .. n + 1 : i \in 1 .. n \/ i = n + 1
        /\ \A i \in 1 .. n : i \in 1 .. n + 1
        /\ n + 1 \in 1 .. n + 1
    BY <1>1
  <2>4. Distinct(new)
    BY <1>1, <2>2, <2>3 DEF Distinct, GroupNotifs
  <2>5. GroupNotifs(new) = GroupNotifs(gs) \union Named(wg.notif)
    <3>1. ASSUME NEW x
          PROVE  x \in GroupNotifs(new) <=> x \in GroupNotifs(gs) \union Named(wg.notif)
      <4>1. (\E i \in 1 .. n + 1 : x = new[i].notif) <=>
              (\E i \in 1 .. n : x = gs[i].notif) \/ x = wg.notif
        BY <2>2, <2>3
      <4> QED
        BY <1>1, <2>2, <4>1 DEF GroupNotifs, Named
    <3> QED
      BY <3>1
  <2> QED
    BY <2>4, <2>5 DEF new
<1> QED
  BY <1>2, <1>3

\* Taking the first group takes its notificator, and no other group has it.
LEMMA DequeueNotifs ==
  ASSUME NEW gs \in Seq(Group), gs # <<>>, Distinct(gs)
  PROVE  /\ GroupNotifs(gs) = GroupNotifs(Tail(gs)) \union Named(Head(gs).notif)
         /\ GroupNotifs(Tail(gs)) \intersect Named(Head(gs).notif) = {}
         /\ Distinct(Tail(gs))
<1> DEFINE n == Len(gs)
           r == Tail(gs)
           h == Head(gs).notif
<1>1. /\ n \in Nat /\ n >= 1 /\ DOMAIN gs = 1 .. n /\ h = gs[1].notif
      /\ DOMAIN r = 1 .. n - 1 /\ \A i \in 1 .. n - 1 : r[i] = gs[i + 1]
  BY EmptySeq, LenProperties, HeadTailProperties
<1> HIDE DEF n, r, h
<1>2. /\ \A i \in 1 .. n : i = 1 \/ (i - 1 \in 1 .. n - 1 /\ (i - 1) + 1 = i)
      /\ \A i \in 1 .. n - 1 : i + 1 \in 1 .. n /\ i + 1 # 1
      /\ 1 \in 1 .. n
      /\ \A i, j \in 1 .. n - 1 : i + 1 = j + 1 => i = j
  BY <1>1
<1>3. Distinct(r)
  <2> SUFFICES ASSUME NEW i \in 1 .. n - 1, NEW j \in 1 .. n - 1,
                      r[i].notif # NoNotif, r[i].notif = r[j].notif
               PROVE  i = j
    BY <1>1 DEF Distinct
  <2>1. i + 1 = j + 1
    BY <1>1, <1>2, SMTT(30) DEF Distinct
  <2> QED
    BY <1>2, <2>1
<1>4. GroupNotifs(r) \intersect Named(h) = {}
  <2> SUFFICES ASSUME NEW i \in 1 .. n - 1, r[i].notif = h, h # NoNotif PROVE FALSE
    BY <1>1 DEF GroupNotifs, Named
  <2>1. i + 1 \in 1 .. n /\ i + 1 # 1 /\ gs[i + 1].notif = gs[1].notif
    BY <1>1, <1>2
  <2>2. gs[i + 1].notif # NoNotif /\ 1 \in DOMAIN gs /\ i + 1 \in DOMAIN gs
    BY <1>1, <1>2, <2>1
  <2> QED
    BY <2>1, <2>2 DEF Distinct
<1>5. GroupNotifs(gs) = GroupNotifs(r) \union Named(h)
  <2>1. ASSUME NEW x PROVE x \in GroupNotifs(gs) <=> x \in GroupNotifs(r) \union Named(h)
    <3>1. (\E i \in 1 .. n : x = gs[i].notif) <=>
            (\E i \in 1 .. n - 1 : x = r[i].notif) \/ x = h
      <4>1. ASSUME NEW i \in 1 .. n
            PROVE  gs[i].notif = h \/ \E j \in 1 .. n - 1 : gs[i].notif = r[j].notif
        <5>1. CASE i = 1
          BY <1>1, <5>1
        <5>2. CASE i # 1
          <6>1. i - 1 \in 1 .. n - 1 /\ (i - 1) + 1 = i
            BY <1>2, <5>2
          <6>2. r[i - 1] = gs[i]
            BY <1>1, <6>1
          <6> QED
            BY <6>1, <6>2
        <5> QED
          BY <5>1, <5>2
      <4>2. ASSUME NEW j \in 1 .. n - 1 PROVE j + 1 \in 1 .. n /\ r[j].notif = gs[j + 1].notif
        BY <1>1, <1>2
      <4>3. h = gs[1].notif /\ 1 \in 1 .. n
        BY <1>1, <1>2
      <4>4. ASSUME NEW i \in 1 .. n, x = gs[i].notif
            PROVE  (\E j \in 1 .. n - 1 : x = r[j].notif) \/ x = h
        BY <4>1, <4>4
      <4>5. ASSUME NEW j \in 1 .. n - 1, x = r[j].notif
            PROVE  \E i \in 1 .. n : x = gs[i].notif
        <5>1. j + 1 \in 1 .. n /\ x = gs[j + 1].notif
          BY <4>2, <4>5
        <5> QED
          BY <5>1
      <4> QED
        BY <4>3, <4>4, <4>5
    <3> QED
      BY <1>1, <3>1, Zenon DEF GroupNotifs, Named
  <2> QED
    BY <2>1
<1> QED
  BY <1>3, <1>4, <1>5 DEF r, h

-----------------------------------------------------------------------------
(* The notificators of the queue *)

Notifs(c, k) == GroupNotifs(Ctx(c, k).groups)

\* No two groups of the queue have the same notificator.
Apart(c) ==
  /\ \A k \in 0 .. c.exists - 1 : Distinct(Ctx(c, k).groups)
  /\ \A k, l \in 0 .. c.exists - 1 : k # l => Notifs(c, k) \intersect Notifs(c, l) = {}

\* What it is to be queued.
LEMMA Queued ==
  ASSUME NEW c, NEW x
  PROVE  x \in QueuedNotifs(c) <=> \E k \in 0 .. c.exists - 1 : x \in Notifs(c, k)
BY DEF QueuedNotifs, Notifs, Ctx

\* register_new_request() brings no notificator.
LEMMA RegisterNotifs ==
  ASSUME NEW c \in Coordinator, ~IsFull(c), CleanFree(c), Apart(c)
  PROVE  LET d == RegisterNewRequest(c) IN
         QueuedNotifs(d) = QueuedNotifs(c) /\ Apart(d)
<1> DEFINE d == RegisterNewRequest(c)
           n == c.exists
<1>1. /\ d.exists = n + 1 /\ Ctx(d, n).groups = <<>>
      /\ \A k \in 0 .. n - 1 : Ctx(d, k) = Ctx(c, k)
  BY RegisterQueue
<1>2. n \in Nat
  BY DEF Coordinator
<1> HIDE DEF d, n
<1>3. /\ \A k \in 0 .. d.exists - 1 : k \in 0 .. n - 1 \/ k = n
      /\ \A k \in 0 .. n - 1 : k \in 0 .. d.exists - 1
  BY <1>1, <1>2
<1>4. Notifs(d, n) = {} /\ Distinct(Ctx(d, n).groups)
  BY <1>1 DEF Notifs, GroupNotifs, Distinct
<1>5. \A k \in 0 .. n - 1 : Notifs(d, k) = Notifs(c, k)
  BY <1>1 DEF Notifs
<1>6. QueuedNotifs(d) = QueuedNotifs(c)
  <2>1. ASSUME NEW x PROVE x \in QueuedNotifs(d) <=> x \in QueuedNotifs(c)
    BY <1>3, <1>4, <1>5, Queued DEF n
  <2> QED
    BY <2>1
<1>7. \A k \in 0 .. d.exists - 1 : Distinct(Ctx(d, k).groups)
  BY <1>1, <1>3, <1>4 DEF Apart, n
<1>8. ASSUME NEW k \in 0 .. d.exists - 1, NEW l \in 0 .. d.exists - 1, k # l
      PROVE  Notifs(d, k) \intersect Notifs(d, l) = {}
  BY <1>3, <1>4, <1>5, <1>8 DEF Apart, n
<1> QED
  BY <1>6, <1>7, <1>8 DEF Apart, d

\* append_response() brings the notificator of its group.
LEMMA AppendNotifs ==
  ASSUME NEW c \in Coordinator, ClimbingIds(c), NEW id \in 0 .. ReqIdModulus - 1,
         NEW fl \in Flags, NEW wg \in Group, GetByReqId(c, id) # NoCtx,
         Apart(c), wg.notif \notin QueuedNotifs(c)
  PROVE  LET d == AppendResponse(c, id, fl, wg) IN
         QueuedNotifs(d) = QueuedNotifs(c) \union Named(wg.notif) /\ Apart(d)
<1> DEFINE d == AppendResponse(c, id, fl, wg)
           n == c.exists
<1>1. d.exists = n /\ n \in Nat
  <2>1. n \in Nat
    BY DEF Coordinator
  <2> QED
    BY <2>1, AppendQueue
<1>2. PICK q \in 0 .. n - 1 :
        /\ Ctx(d, q) = EnqueueGroup([Ctx(c, q) EXCEPT !.final = fl.final,
                                                      !.close = fl.close], wg)
        /\ \A k \in 0 .. n - 1 : k # q => Ctx(d, k) = Ctx(c, k)
  <2> DEFINE To(q) == EnqueueGroup([Ctx(c, q) EXCEPT !.final = fl.final,
                                                     !.close = fl.close], wg)
  <2>1. \E q \in 0 .. n - 1 :
          /\ GetByReqId(c, id) = Slot(c, q)
          /\ Ctx(d, q) = To(q)
          /\ \A k \in 0 .. n - 1 : k # q => Ctx(d, k) = Ctx(c, k)
    BY AppendQueue
  <2> HIDE DEF To, d, n
  <2>2. \E q \in 0 .. n - 1 :
          /\ Ctx(d, q) = To(q)
          /\ \A k \in 0 .. n - 1 : k # q => Ctx(d, k) = Ctx(c, k)
    BY <2>1
  <2> QED
    BY <2>2 DEF To
<1> DEFINE y == [Ctx(c, q) EXCEPT !.final = fl.final, !.close = fl.close]
<1>3. y \in Context /\ y.groups = Ctx(c, q).groups
  <2>1. Ctx(c, q) \in Context
    BY CtxType
  <2> QED
    BY <2>1, Zenon DEF Context, Flags
<1> HIDE DEF d, n, y
<1>4. Distinct(y.groups) /\ wg.notif \notin GroupNotifs(y.groups)
  BY <1>3, Queued DEF Apart, Notifs, n
<1>5. Notifs(d, q) = Notifs(c, q) \union Named(wg.notif) /\ Distinct(Ctx(d, q).groups)
  BY <1>2, <1>3, <1>4, EnqueueNotifs, Zenon DEF Notifs, y
<1>6. \A k \in 0 .. n - 1 : k # q => Notifs(d, k) = Notifs(c, k)
  BY <1>2 DEF Notifs
<1>7. QueuedNotifs(d) = QueuedNotifs(c) \union Named(wg.notif)
  <2>1. ASSUME NEW x
        PROVE  x \in QueuedNotifs(d) <=> x \in QueuedNotifs(c) \union Named(wg.notif)
    BY <1>1, <1>5, <1>6, Queued DEF n
  <2> QED
    BY <2>1
<1>8. \A k \in 0 .. n - 1 : Distinct(Ctx(d, k).groups)
  BY <1>2, <1>5 DEF Apart, n
<1>9. \A k \in 0 .. n - 1 : Notifs(c, k) \intersect Named(wg.notif) = {}
  BY Queued DEF Named, n
<1>10. ASSUME NEW k \in 0 .. n - 1, NEW l \in 0 .. n - 1, k # l
       PROVE  Notifs(d, k) \intersect Notifs(d, l) = {}
  <2>1. Notifs(c, k) \intersect Notifs(c, l) = {}
    BY <1>10 DEF Apart, n
  <2> QED
    BY <1>5, <1>6, <1>9, <1>10, <2>1
<1> QED
  BY <1>1, <1>7, <1>8, <1>10 DEF Apart, d

\* pop_ready_buffers() takes the notificator of the group it returns, once.
LEMMA PopNotifs ==
  ASSUME NEW c \in Coordinator, HasReady(c), Apart(c)
  PROVE  LET d == PopReadyBuffers(c)
             out == Named(ReadyGroup(c).notif) IN
         /\ QueuedNotifs(c) = QueuedNotifs(d) \union out
         /\ QueuedNotifs(d) \intersect out = {}
         /\ Apart(d)
<1> DEFINE d   == PopReadyBuffers(c)
           gs  == Ctx(c, 0).groups
           out == Named(Head(gs).notif)
           x   == DequeueGroup(Ctx(c, 0))
           n   == c.exists
<1>1. /\ n > 0 /\ n \in Nat /\ 0 \in 0 .. n - 1
      /\ gs # <<>> /\ Ctx(c, 0) = FrontContext(c)
      /\ IF IsComplete(x)
         THEN d.exists = n - 1 /\ \A k \in 0 .. n - 2 : Ctx(d, k) = Ctx(c, k + 1)
         ELSE /\ d.exists = n /\ Ctx(d, 0) = x
              /\ \A k \in 1 .. n - 1 : Ctx(d, k) = Ctx(c, k)
  <2>1. n \in Nat
    BY DEF Coordinator
  <2>2. /\ n > 0 /\ gs # <<>> /\ Ctx(c, 0) = FrontContext(c)
        /\ IF IsComplete(x)
           THEN d.exists = n - 1 /\ \A k \in 0 .. n - 2 : Ctx(d, k) = Ctx(c, k + 1)
           ELSE /\ d.exists = n /\ Ctx(d, 0) = x
                /\ \A k \in 1 .. n - 1 : Ctx(d, k) = Ctx(c, k)
    BY PopQueue
  <2> QED
    BY <2>1, <2>2
<1>2. Ctx(c, 0) \in Context
  BY <1>1, CtxType
<1>3. gs \in Seq(Group) /\ x.groups = Tail(gs)
  BY <1>2 DEF Context, DequeueGroup
<1>4. Named(ReadyGroup(c).notif) = out
  BY <1>1 DEF ReadyGroup
<1> HIDE DEF d, n, gs, x, out
<1>5. Distinct(gs)
  BY <1>1 DEF Apart, gs, n
<1>6. /\ Notifs(c, 0) = GroupNotifs(x.groups) \union out
      /\ GroupNotifs(x.groups) \intersect out = {} /\ Distinct(x.groups)
  BY <1>1, <1>3, <1>5, DequeueNotifs DEF Notifs, gs, out
<1>7. /\ \A k \in 0 .. n - 1 : Distinct(Ctx(c, k).groups)
      /\ \A k, l \in 0 .. n - 1 : k # l => Notifs(c, k) \intersect Notifs(c, l) = {}
      /\ \A y : y \in QueuedNotifs(c) <=> \E k \in 0 .. n - 1 : y \in Notifs(c, k)
  BY Queued DEF Apart, n
<1>8. /\ QueuedNotifs(c) = QueuedNotifs(d) \union out
      /\ QueuedNotifs(d) \intersect out = {}
      /\ Apart(d)
  <2>1. CASE IsComplete(x)
    <3>1. /\ d.exists = n - 1 /\ d.exists - 1 = n - 2
          /\ \A k \in 0 .. n - 2 : Ctx(d, k) = Ctx(c, k + 1)
      BY <1>1, <2>1
    <3>2. Notifs(c, 0) = out
      <4>1. x.groups = <<>>
        BY <2>1 DEF IsComplete
      <4>2. GroupNotifs(<<>>) = {}
        BY DEF GroupNotifs
      <4> QED
        BY <1>6, <4>1, <4>2, Zenon
    <3>3. /\ \A k \in 0 .. n - 2 : Notifs(d, k) = Notifs(c, k + 1)
          /\ \A k \in 0 .. n - 2 : k + 1 \in 0 .. n - 1 /\ k + 1 # 0
          /\ \A k \in 0 .. n - 1 : k = 0 \/ (k - 1 \in 0 .. n - 2 /\ (k - 1) + 1 = k)
          /\ \A k, l \in 0 .. n - 2 : k # l => k + 1 # l + 1
      BY <1>1, <3>1 DEF Notifs
    <3>4. \A y : y \in QueuedNotifs(d) <=> \E k \in 0 .. n - 2 : y \in Notifs(d, k)
      BY <3>1, Queued
    <3>5. QueuedNotifs(d) \intersect out = {}
      BY <1>1, <1>7, <3>2, <3>3, <3>4
    <3>6. QueuedNotifs(d) \union out \subseteq QueuedNotifs(c)
      BY <1>1, <1>7, <3>2, <3>3, <3>4
    <3>7. ASSUME NEW y \in QueuedNotifs(c) PROVE y \in QueuedNotifs(d) \union out
      <4>1. PICK k \in 0 .. n - 1 : y \in Notifs(c, k)
        BY <1>7
      <4>2. CASE k = 0
        BY <3>2, <4>1, <4>2
      <4>3. CASE k # 0
        <5>1. k - 1 \in 0 .. n - 2 /\ (k - 1) + 1 = k
          BY <3>3, <4>3
        <5>2. Notifs(d, k - 1) = Notifs(c, k)
          BY <3>3, <5>1
        <5> QED
          BY <3>4, <4>1, <5>1, <5>2
      <4> QED
        BY <4>2, <4>3
    <3>8. \A k \in 0 .. n - 2 : Distinct(Ctx(d, k).groups)
      BY <1>7, <3>1, <3>3
    <3>9. ASSUME NEW k \in 0 .. n - 2, NEW l \in 0 .. n - 2, k # l
          PROVE  Notifs(d, k) \intersect Notifs(d, l) = {}
      <4>1. k + 1 \in 0 .. n - 1 /\ l + 1 \in 0 .. n - 1 /\ k + 1 # l + 1
        BY <3>3, <3>9
      <4> QED
        BY <1>7, <3>3, <4>1
    <3>10. Apart(d)
      BY <3>1, <3>8, <3>9 DEF Apart
    <3> QED
      BY <3>5, <3>6, <3>7, <3>10
  <2>2. CASE ~IsComplete(x)
    <3>1. /\ d.exists = n /\ Ctx(d, 0) = x
          /\ \A k \in 0 .. n - 1 : k # 0 => Ctx(d, k) = Ctx(c, k)
      BY <1>1, <2>2
    <3>2. /\ Notifs(c, 0) = Notifs(d, 0) \union out /\ Notifs(d, 0) \intersect out = {}
          /\ \A k \in 0 .. n - 1 : k # 0 => Notifs(d, k) = Notifs(c, k)
      BY <1>6, <3>1 DEF Notifs
    <3>3. \A y : y \in QueuedNotifs(d) <=> \E k \in 0 .. n - 1 : y \in Notifs(d, k)
      BY <3>1, Queued
    <3>4. \A k \in 0 .. n - 1 : k # 0 => Notifs(c, k) \intersect Notifs(c, 0) = {}
      BY <1>1, <1>7
    <3>5. QueuedNotifs(d) \intersect out = {}
      BY <1>1, <3>2, <3>3, <3>4
    <3>6. ASSUME NEW y PROVE y \in QueuedNotifs(c) <=> y \in QueuedNotifs(d) \union out
      BY <1>1, <1>7, <3>2, <3>3
    <3>7. \A k \in 0 .. n - 1 : Distinct(Ctx(d, k).groups)
      BY <1>6, <1>7, <3>1
    <3>8. ASSUME NEW k \in 0 .. n - 1, NEW l \in 0 .. n - 1, k # l
          PROVE  Notifs(d, k) \intersect Notifs(d, l) = {}
      <4>1. Notifs(c, k) \intersect Notifs(c, l) = {}
        BY <1>7, <3>8
      <4>2. Notifs(d, k) \subseteq Notifs(c, k) /\ Notifs(d, l) \subseteq Notifs(c, l)
        BY <3>2
      <4> QED
        BY <4>1, <4>2
    <3>9. Apart(d)
      BY <3>1, <3>7, <3>8 DEF Apart
    <3> QED
      BY <3>5, <3>6, <3>9
  <2> QED
    BY <2>1, <2>2
<1> QED
  BY <1>4, <1>8 DEF d

-----------------------------------------------------------------------------
(* The notificators of the coordinator *)

\* NotificatorConservation of what is given, queued, handed and called.
Conserved(gv, queued, hd, cl) ==
  LET called == {n \in Item : cl[n] > 0}
  IN  /\ gv = queued \union hd \union called
      /\ queued \intersect hd = {}
      /\ queued \intersect called = {}
      /\ hd \intersect called = {}
      /\ \A n \in called : cl[n] = 1

Parts == [Request -> 0 .. MaxParts]

NotifInv ==
  /\ IndInv
  /\ Apart(coord)
  /\ NotificatorConservation
  /\ \A x \in given : x[2] <= supplied[x[1]]

\* What a step has to establish.
NotifsAfter ==
  /\ Apart(coord')
  /\ Conserved(given', QueuedNotifs(coord'), handed', calls')
  /\ \A x \in given' : x[2] <= supplied'[x[1]]

\* The facts of the invariant that every step uses.
LEMMA NotifFacts ==
  ASSUME NotifInv
  PROVE  /\ coord \in Coordinator /\ RingInv(coord) /\ Apart(coord)
         /\ supplied \in Parts /\ given \subseteq Item /\ handed \subseteq Item
         /\ calls \in [Item -> Nat]
         /\ Conserved(given, QueuedNotifs(coord), handed, calls)
         /\ \A x \in given : x[2] <= supplied[x[1]]
BY DEF NotifInv, IndInv, TypeOK, Parts, NotificatorConservation, Conserved

\* At the start there is no notificator.
LEMMA InitNotif == Init => NotifInv
<1> SUFFICES ASSUME Init PROVE NotifInv
  OBVIOUS
<1>1. IndInv
  BY InitInd
<1>2. coord.exists = 0
  BY DEF Init, NewCoordinator
<1>3. Apart(coord) /\ QueuedNotifs(coord) = {}
  BY <1>2 DEF Apart, QueuedNotifs
<1>4. NotificatorConservation
  <2>1. {n \in Item : calls[n] > 0} = {}
    BY DEF Init
  <2> QED
    BY <1>3, <2>1 DEF NotificatorConservation, Init
<1> QED
  BY <1>1, <1>3, <1>4 DEF NotifInv, Init

\* A part that is supplied: its notificator is new, and either goes into the queue
\* with its group or is invoked when the group is refused.
LEMMA SupplyNotif ==
  ASSUME NotifInv, NEW s \in Request, NEW fl \in Flags, NEW notify \in BOOLEAN,
         NEW empty \in BOOLEAN, Supply(s, fl, notify, empty)
  PROVE  NotifsAfter
<1> DEFINE item  == <<s, supplied[s] + 1>>
           notif == IF notify THEN item ELSE NoNotif
           part  == IF empty THEN <<>> ELSE <<item>>
           wg    == [items |-> part, status |-> supplied[s] = 0, notif |-> notif]
<1>1. /\ supplied' = [supplied EXCEPT ![s] = @ + 1] /\ handed' = handed
      /\ given' = IF notify THEN given \union {item} ELSE given
  BY DEF Supply
<1>2. supplied[s] \in 0 .. MaxParts /\ supplied \in [Request -> 0 .. MaxParts]
  BY NotifFacts DEF Parts
<1>3. item \in Item
  <2>1. supplied[s] + 1 \in 1 .. MaxParts
    BY <1>2, BoundsAssumption DEF Supply
  <2> QED
    BY <2>1 DEF Item
<1>4. item \notin given
  <2>1. item[1] = s /\ item[2] = supplied[s] + 1
    OBVIOUS
  <2>2. ~(supplied[s] + 1 <= supplied[s])
    BY <1>2
  <2> QED
    BY <2>1, <2>2, NotifFacts
<1>5. \A x \in given' : x[2] <= supplied'[x[1]]
  <2> SUFFICES ASSUME NEW x \in given' PROVE x[2] <= supplied'[x[1]]
    OBVIOUS
  <2>1. x \in given \/ x = item
    BY <1>1
  <2>2. CASE x \in given
    <3>1. x \in Item /\ x[2] <= supplied[x[1]]
      BY <2>2, NotifFacts
    <3>2. x[1] \in Request /\ x[2] \in Int
      BY <3>1 DEF Item
    <3>3. supplied[x[1]] \in Int /\ supplied'[x[1]] \in {supplied[x[1]], supplied[x[1]] + 1}
      BY <1>1, <1>2, <3>2
    <3> QED
      BY <3>1, <3>2, <3>3
  <2>3. CASE x = item
    BY <1>1, <1>2, <2>3
  <2> QED
    BY <2>1, <2>2, <2>3
<1>6. Named(notif) = IF notify THEN {item} ELSE {}
  BY <1>3, NoNotifAssumption DEF Named
<1>7. notif \notin QueuedNotifs(coord)
  <2>1. NoNotif \notin QueuedNotifs(coord)
    BY DEF QueuedNotifs, GroupNotifs
  <2>2. item \notin QueuedNotifs(coord)
    BY <1>4, NotifFacts DEF Conserved
  <2> QED
    BY <2>1, <2>2
<1>8. wg \in Group /\ wg.notif = notif
  <2>1. part \in Seq(Item)
    BY <1>3
  <2>2. notif \in Item \union {NoNotif}
    BY <1>3
  <2> HIDE DEF notif, item, part
  <2> QED
    BY <2>1, <2>2 DEF Group
<1>9. Id(s) \in 0 .. ReqIdModulus - 1
  BY ReqIdModulusAssumption, BoundsAssumption DEF Id, Request
<1>10. CASE AppendThrows(coord, Id(s))
  <2>1. coord' = coord /\ calls' = IF notify THEN [calls EXCEPT ![item] = @ + 1] ELSE calls
    BY <1>10 DEF Supply
  <2> HIDE DEF item
  <2>2. Conserved(given', QueuedNotifs(coord), handed, calls')
    <3>1. CASE notify
      <4>1. calls[item] \in Nat /\ ~(calls[item] > 0)
        BY <1>3, <1>4, NotifFacts DEF Conserved
      <4>2. calls[item] = 0
        BY <4>1
      <4>3. calls' = [calls EXCEPT ![item] = 1] /\ calls \in [Item -> Nat] /\ item \in Item
        <5>1. calls' = [calls EXCEPT ![item] = calls[item] + 1]
          BY <2>1, <3>1
        <5>2. calls[item] + 1 = 1
          BY <4>2
        <5>3. calls \in [Item -> Nat] /\ item \in Item
          BY <1>3, NotifFacts
        <5> QED
          BY <5>1, <5>2, <5>3, Zenon
      <4>4. \A n \in Item : calls'[n] = IF n = item THEN 1 ELSE calls[n]
        BY <4>3
      <4>5. {n \in Item : calls'[n] > 0} = {n \in Item : calls[n] > 0} \union {item}
        <5>1. \A n \in Item : calls'[n] > 0 <=> (calls[n] > 0 \/ n = item)
          BY <4>3, <4>4
        <5> QED
          BY <4>3, <5>1, Zenon
      <4> QED
        BY <1>1, <1>4, <3>1, <4>4, <4>5, NotifFacts DEF Conserved
    <3>2. CASE ~notify
      BY <1>1, <2>1, <3>2, NotifFacts
    <3> QED
      BY <3>1, <3>2
  <2> QED
    BY <1>1, <1>5, <2>1, <2>2, NotifFacts DEF NotifsAfter
<1>11. CASE ~AppendThrows(coord, Id(s))
  <2>1. coord' = AppendResponse(coord, Id(s), fl, wg) /\ calls' = calls
    BY <1>11 DEF Supply
  <2> HIDE DEF wg, notif, item, part
  <2>2. QueuedNotifs(coord') = QueuedNotifs(coord) \union Named(notif) /\ Apart(coord')
    <3>1. /\ GetByReqId(coord, Id(s)) # NoCtx /\ ClimbingIds(coord)
          /\ coord \in Coordinator /\ Apart(coord) /\ wg.notif \notin QueuedNotifs(coord)
      BY <1>7, <1>8, <1>11, NotifFacts DEF AppendThrows, RingInv
    <3> QED
      BY <1>8, <1>9, <2>1, <3>1, AppendNotifs
  <2>3. Conserved(given', QueuedNotifs(coord'), handed', calls')
    BY <1>1, <1>4, <1>6, <2>1, <2>2, NotifFacts DEF Conserved
  <2> QED
    BY <1>5, <2>2, <2>3 DEF NotifsAfter
<1> QED
  BY <1>10, <1>11

\* The other steps: a popped group leaves with its notificator, and reset() invokes
\* those of the groups that are still queued.
LEMMA StepNotif ==
  ASSUME NotifInv
  PROVE  /\ Register => NotifsAfter
         /\ Pop => NotifsAfter
         /\ Drop => NotifsAfter
         /\ UNCHANGED vars => NotifsAfter
<1>1. ASSUME Register PROVE NotifsAfter
  <2>1. ~IsFull(coord) /\ CleanFree(coord)
    BY <1>1, NotifFacts DEF Register, RingInv
  <2>2. QueuedNotifs(coord') = QueuedNotifs(coord) /\ Apart(coord')
    BY <1>1, <2>1, NotifFacts, RegisterNotifs DEF Register
  <2>3. given' = given /\ handed' = handed /\ calls' = calls /\ supplied' = supplied
    BY <1>1 DEF Register
  <2> QED
    BY <2>2, <2>3, NotifFacts DEF NotifsAfter
<1>2. ASSUME Pop PROVE NotifsAfter
  <2> DEFINE out == Named(ReadyGroup(coord).notif)
  <2>1. /\ QueuedNotifs(coord) = QueuedNotifs(coord') \union out
        /\ QueuedNotifs(coord') \intersect out = {}
        /\ Apart(coord')
    BY <1>2, NotifFacts, PopNotifs DEF Pop
  <2>2. /\ given' = given /\ handed' = handed \union out
        /\ calls' = calls /\ supplied' = supplied
    BY <1>2 DEF Pop, Named
  <2> HIDE DEF out
  <2>3. Conserved(given', QueuedNotifs(coord'), handed', calls')
    BY <2>1, <2>2, NotifFacts DEF Conserved
  <2> QED
    BY <2>1, <2>2, <2>3, NotifFacts DEF NotifsAfter
<1>3. ASSUME Drop PROVE NotifsAfter
  <2>1. /\ coord' = Reset(coord) /\ given' = given /\ handed' = handed
        /\ supplied' = supplied
        /\ calls' = [n \in Item |->
                       calls[n] + (IF n \in QueuedNotifs(coord) THEN 1 ELSE 0)]
    BY <1>3 DEF Drop
  <2>2. coord'.exists = 0
    BY <2>1, NotifFacts, ResetEffect
  <2>3. QueuedNotifs(coord') = {} /\ Apart(coord')
    BY <2>2 DEF QueuedNotifs, Apart
  <2> DEFINE queued == QueuedNotifs(coord)
             called == {n \in Item : calls[n] > 0}
  <2>4. /\ given = queued \union handed \union called
        /\ queued \intersect handed = {} /\ queued \intersect called = {}
        /\ handed \intersect called = {} /\ \A n \in called : calls[n] = 1
        /\ given \subseteq Item /\ calls \in [Item -> Nat]
    BY NotifFacts DEF Conserved
  <2> HIDE DEF queued
  <2>5. \A n \in queued : n \in Item /\ calls[n] = 0
    BY <2>4
  <2>6. \A n \in Item : calls'[n] = IF n \in queued THEN 1 ELSE calls[n]
    BY <2>1, <2>4, <2>5 DEF queued
  <2>7. {n \in Item : calls'[n] > 0} = queued \union called
    BY <2>5, <2>6
  <2>8. Conserved(given', QueuedNotifs(coord'), handed', calls')
    BY <2>1, <2>3, <2>4, <2>6, <2>7 DEF Conserved
  <2> QED
    BY <2>1, <2>3, <2>8, NotifFacts DEF NotifsAfter
<1>4. ASSUME UNCHANGED vars PROVE NotifsAfter
  BY <1>4, NotifFacts DEF vars, NotifsAfter
<1> QED
  BY <1>1, <1>2, <1>3, <1>4

\* Every step keeps the invariant.
LEMMA NextNotif ==
  ASSUME NotifInv, [Next]_vars
  PROVE  NotifInv'
<1>1. IndInv'
  BY NextInd DEF NotifInv
<1>2. NotifsAfter
  <2>1. ASSUME NEW s \in Request, NEW fl \in Flags, NEW notify \in BOOLEAN,
               NEW empty \in BOOLEAN, Supply(s, fl, notify, empty)
        PROVE  NotifsAfter
    BY <2>1, SupplyNotif
  <2> QED
    BY <2>1, StepNotif DEF Next, Flags
<1>3. NotificatorConservation'
  BY <1>2 DEF NotifsAfter, Conserved, NotificatorConservation, QueuedNotifs,
              GroupNotifs, Slot
<1>4. Apart(coord)'
  BY <1>2 DEF NotifsAfter, Apart, Distinct, Notifs, Ctx, GroupNotifs, Slot
<1> QED
  BY <1>1, <1>2, <1>3, <1>4 DEF NotifInv, NotifsAfter

\* An after-write notificator is never lost and never invoked twice: until it is
\* invoked it is with one queued group or with one group that was popped.
THEOREM NotificatorsAreConserved == Spec => []NotificatorConservation
<1>1. Init => NotifInv
  BY InitNotif
<1>2. NotifInv /\ [Next]_vars => NotifInv'
  BY NextNotif
<1>3. NotifInv => NotificatorConservation
  BY DEF NotifInv
<1> QED
  BY <1>1, <1>2, <1>3, PTL DEF Spec
=============================================================================
