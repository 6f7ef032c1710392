-------------------------- MODULE ResponseContexts --------------------------
(***************************************************************************)
(* The values behind response_coordinator_t (impl/response_coordinator.hpp) *)
(* and its operations as operators on such values.                         *)
(*                                                                         *)
(*   write group   [items, status, notif]: the writable items in order,    *)
(*                 whether the group starts with a status line, and its    *)
(*                 after-write notificator (NoNotif when there is none);   *)
(*   context       [id, groups, final, close]: response_context_t;         *)
(*   coordinator   [ctx, first, exists, counter, closed]: the ring of      *)
(*                 contexts, m_first_element_index, m_elements_exists,     *)
(*                 m_request_id_counter and                                *)
(*                 m_connection_closed_response_occured.                   *)
(*                                                                         *)
(* request_id_t is an unsigned integer: ids are taken modulo               *)
(* ReqIdModulus (2^32 in the usual builds).                                *)
(***************************************************************************)
EXTENDS Integers, Sequences

CONSTANTS MaxReq,        \* max_pipelined_requests, the size of the ring
          ReqIdModulus,  \* number of values of request_id_t
          NoNotif        \* "no after-write notificator"

ASSUME MaxReqAssumption == MaxReq \in Nat \ {0}
ASSUME ReqIdModulusAssumption == ReqIdModulus \in Nat \ {0}

NoCtx == -1  \* the null pointer get_by_req_id() returns

-----------------------------------------------------------------------------
(* write_group_t (buffers.hpp) *)

\* Mutant: the notificator is taken over, the items are not.
MergeNotifOnly(wg, second) == [wg EXCEPT !.notif = second.notif]

Merge(wg, second) ==
  [items |-> wg.items \o second.items, status |-> wg.status,
   notif |-> second.notif]

-----------------------------------------------------------------------------
(* response_context_t *)

NewContext == [id |-> 0, groups |-> <<>>, final |-> FALSE, close |-> FALSE]

\* reinit() leaves the groups of the previous user of the slot alone.
Reinit(ctx, id) == [ctx EXCEPT !.id = id, !.final = FALSE, !.close = FALSE]

\* Mutant: merges into a group that has a notificator.
MergeableAlways(ctx, wg) == ctx.groups # <<>> /\ ~wg.status

Mergeable(ctx, wg) ==
  /\ ctx.groups # <<>>
  /\ ctx.groups[Len(ctx.groups)].notif = NoNotif
  /\ ~wg.status

\* Mutant: puts the group before the waiting ones.
EnqueueGroupFirst(ctx, wg) == [ctx EXCEPT !.groups = <<wg>> \o @]

EnqueueGroup(ctx, wg) ==
  IF Mergeable(ctx, wg)
  THEN [ctx EXCEPT !.groups[Len(ctx.groups)] = Merge(@, wg)]
  ELSE [ctx EXCEPT !.groups = Append(@, wg)]

DequeueGroup(ctx) == [ctx EXCEPT !.groups = Tail(@)]

IsComplete(ctx) == ctx.groups = <<>> /\ ctx.final

-----------------------------------------------------------------------------
(* response_context_table_t *)

Empty(c)  == c.exists = 0
IsFull(c) == c.exists = MaxReq

\* The slot of the i-th context of the queue, counted from 0.
Slot(c, i) == (c.first + i) % MaxReq

FrontContext(c) == c.ctx[c.first]
BackContext(c)  == c.ctx[Slot(c, c.exists - 1)]

\* Mutant: forgets the offset of the id from the first one.
GetByReqIdNoOffset(c, id) ==
  IF Empty(c) \/ id < FrontContext(c).id \/ id > BackContext(c).id
  THEN NoCtx ELSE c.first

GetByReqId(c, id) ==
  IF Empty(c) \/ id < FrontContext(c).id \/ id > BackContext(c).id
  THEN NoCtx
  ELSE Slot(c, id - FrontContext(c).id)

PushResponseContext(c, id) ==
  [c EXCEPT !.ctx[Slot(c, c.exists)] = Reinit(@, id),
            !.exists = @ + 1]

\* Mutant: the first index does not wrap around.
PopResponseContextNoWrap(c) == [c EXCEPT !.exists = @ - 1, !.first = @ + 1]

PopResponseContext(c) ==
  [c EXCEPT !.exists = @ - 1,
            !.first = IF @ + 1 = MaxReq THEN 0 ELSE @ + 1]

-----------------------------------------------------------------------------
(* response_coordinator_t *)

NewCoordinator ==
  [ctx |-> [i \in 0 .. MaxReq - 1 |-> NewContext], first |-> 0, exists |-> 0,
   counter |-> 0, closed |-> FALSE]

IsAbleToGetMoreMessages(c) == ~c.closed /\ ~IsFull(c)

\* register_new_request(); throws when the ring is full.
RegisterNewRequest(c) ==
  [PushResponseContext(c, c.counter) EXCEPT
     !.counter = (@ + 1) % ReqIdModulus]

\* The conditions under which append_response() throws.
AppendThrows(c, id) ==
  \/ c.closed
  \/ GetByReqId(c, id) = NoCtx
  \/ c.ctx[GetByReqId(c, id)].final

AppendResponse(c, id, flags, wg) ==
  [c EXCEPT !.ctx[GetByReqId(c, id)] =
     EnqueueGroup([@ EXCEPT !.final = flags.final, !.close = flags.close], wg)]

\* pop_ready_buffers() returns a group iff HasReady; it throws when closed.
HasReady(c) == ~Empty(c) /\ FrontContext(c).groups # <<>>

ReadyGroup(c) == Head(FrontContext(c).groups)

\* Mutant: looks whether the response is complete before it takes the group.
PopReadyBuffersEarlyTest(c) ==
  IF ~HasReady(c) THEN c
  ELSE LET d == [c EXCEPT !.ctx[c.first] = DequeueGroup(FrontContext(c))]
       IN  IF IsComplete(FrontContext(c))
           THEN PopResponseContext([d EXCEPT !.closed = FrontContext(c).close])
           ELSE d

PopReadyBuffers(c) ==
  IF ~HasReady(c) THEN c
  ELSE LET ctx == DequeueGroup(FrontContext(c))
           d   == [c EXCEPT !.ctx[c.first] = ctx]
       IN  IF IsComplete(ctx)
           THEN PopResponseContext([d EXCEPT !.closed = ctx.close])
           ELSE d

\* Mutant: pops the contexts and leaves their groups in the slots.
ResetKeepGroups(c) == [c EXCEPT !.first = Slot(c, c.exists), !.exists = 0]

\* reset() dequeues every group of every context of the queue and pops it.
Reset(c) ==
  [c EXCEPT !.ctx = [i \in 0 .. MaxReq - 1 |->
                       IF \E k \in 0 .. c.exists - 1 : Slot(c, k) = i
                       THEN [c.ctx[i] EXCEPT !.groups = <<>>] ELSE c.ctx[i]],
            !.first = Slot(c, c.exists),
            !.exists = 0]

\* The notificators of the groups kept for the contexts of the queue.
GroupNotifs(groups) ==
  {groups[g].notif : g \in DOMAIN groups} \ {NoNotif}

QueuedNotifs(c) ==
  UNION {GroupNotifs(c.ctx[Slot(c, k)].groups) : k \in 0 .. c.exists - 1}
=============================================================================
