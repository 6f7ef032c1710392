------------------------ MODULE ResponseCoordinator -------------------------
(***************************************************************************)
(* response_coordinator_t driven by a connection: requests are registered, *)
(* request handlers append parts of responses in any order, the connection *)
(* pops groups to write them, and the close routine resets everything.     *)
(*                                                                         *)
(* coord is the coordinator; the other variables are history: requests are *)
(* numbered 0, 1, 2, ... without wrapping, the k-th part supplied for      *)
(* request s is the item <<s, k>>, and its notificator has the same name.  *)
(***************************************************************************)
EXTENDS ResponseContexts, Functions

CONSTANTS MaxRequests,  \* bound: requests registered in a behaviour
          MaxParts      \* bound: parts supplied for a request

ASSUME BoundsAssumption == MaxRequests \in Nat /\ MaxParts \in Nat

Request == 0 .. MaxRequests - 1
Item    == Request \X (1 .. MaxParts)

ASSUME NoNotifAssumption == NoNotif \notin Item

VARIABLES coord,
          total,     \* requests registered so far
          supplied,  \* parts supplied for each request
          accepted,  \* the items the coordinator took
          emitted,   \* the items of the popped groups, in order
          given,     \* notificators handed to the coordinator
          handed,    \* notificators that left it with a popped group
          calls,     \* how many times the coordinator invoked each one
          dropped    \* reset() was called

vars == <<coord, total, supplied, accepted, emitted, given, handed, calls, dropped>>

Id(s) == s % ReqIdModulus

\* All elements of the sequences of a sequence, in order: FlattenSeq of the
\* community module SequencesExt, restated where provers have to see little.
FlattenSeq(seqs) ==
  LET upTo[i \in 1 .. Len(seqs)] == IF i = 1 THEN seqs[i] ELSE upTo[i - 1] \o seqs[i]
  IN  IF Len(seqs) = 0 THEN seqs ELSE upTo[Len(seqs)]

\* Requests in progress are the last coord.exists ones.
Oldest == total - coord.exists

Init ==
  /\ coord = NewCoordinator
  /\ total = 0
  /\ supplied = [s \in Request |-> 0]
  /\ accepted = {}
  /\ emitted = <<>>
  /\ given = {} /\ handed = {}
  /\ calls = [n \in Item |-> 0]
  /\ dropped = FALSE

Register ==
  /\ total < MaxRequests
  /\ ~IsFull(coord)
  /\ coord' = RegisterNewRequest(coord)
  /\ total' = total + 1
  /\ UNCHANGED <<supplied, accepted, emitted, given, handed, calls, dropped>>

\* append_response().  The message builders put the status line into the first
\* group of a response; a later one may have no data, only a notificator or the
\* final flag.  A group that is refused with an exception is destroyed, and its
\* destructor invokes the notificator.
Supply(s, flags, notify, empty) ==
  LET item  == <<s, supplied[s] + 1>>
      notif == IF notify THEN item ELSE NoNotif
      wg    == [items |-> IF empty THEN <<>> ELSE <<item>>,
                status |-> supplied[s] = 0, notif |-> notif]
  IN  /\ s < total
      /\ supplied[s] < MaxParts
      /\ empty => supplied[s] > 0 /\ (notify \/ flags.final)
      /\ ~dropped
      /\ supplied' = [supplied EXCEPT ![s] = @ + 1]
      /\ given' = IF notify THEN given \union {item} ELSE given
      /\ IF AppendThrows(coord, Id(s))
         THEN /\ calls' = IF notify THEN [calls EXCEPT ![item] = @ + 1] ELSE calls
              /\ UNCHANGED <<coord, accepted>>
         ELSE /\ coord' = AppendResponse(coord, Id(s), flags, wg)
              /\ accepted' = IF empty THEN accepted ELSE accepted \union {item}
              /\ UNCHANGED calls
      /\ UNCHANGED <<total, emitted, handed, dropped>>

\* pop_ready_buffers(), called by connection_t::init_write().
Pop ==
  /\ ~coord.closed
  /\ HasReady(coord)
  /\ coord' = PopReadyBuffers(coord)
  /\ emitted' = emitted \o ReadyGroup(coord).items
  /\ handed' = handed \union ({ReadyGroup(coord).notif} \ {NoNotif})
  /\ UNCHANGED <<total, supplied, accepted, given, calls, dropped>>

\* reset(), called by connection_t::close().
Drop ==
  /\ coord' = Reset(coord)
  /\ calls' = [n \in Item |->
                 calls[n] + (IF n \in QueuedNotifs(coord) THEN 1 ELSE 0)]
  /\ dropped' = TRUE
  /\ UNCHANGED <<total, supplied, accepted, emitted, given, handed>>

Next ==
  \/ Register
  \/ \E s \in Request, flags \in [final : BOOLEAN, close : BOOLEAN],
        notify, empty \in BOOLEAN : Supply(s, flags, notify, empty)
  \/ Pop
  \/ Drop

Spec == Init /\ [][Next]_vars

-----------------------------------------------------------------------------
(* Invariants *)

Group ==
  [items : Seq(Item), status : BOOLEAN, notif : Item \union {NoNotif}]

Context ==
  [id : 0 .. ReqIdModulus - 1, groups : Seq(Group), final : BOOLEAN,
   close : BOOLEAN]

Coordinator ==
  [ctx : [0 .. MaxReq - 1 -> Context], first : 0 .. MaxReq - 1,
   exists : 0 .. MaxReq, counter : 0 .. ReqIdModulus - 1, closed : BOOLEAN]

\* The variables have the types of their C++ counterparts.
TypeOK ==
  /\ coord \in Coordinator
  /\ total \in 0 .. MaxRequests
  /\ supplied \in [Request -> 0 .. MaxParts]
  /\ accepted \subseteq Item
  /\ emitted \in Seq(Item)
  /\ given \subseteq Item /\ handed \subseteq Item
  /\ calls \in [Item -> Nat]
  /\ dropped \in BOOLEAN

\* The requests in progress are looked up by id, and only they: for every
\* request registered so far get_by_req_id() returns the slot of its own
\* context while it is in progress and nullptr after it was completed.
LookupExact ==
  \A s \in 0 .. total - 1 :
    GetByReqId(coord, Id(s)) =
      IF s >= Oldest THEN Slot(coord, s - Oldest) ELSE NoCtx

\* reinit() does not clear the groups of the slot it takes: no slot outside
\* the queue may hold a group, or a response would start with the data of an
\* older one.
FreeSlotsClean ==
  \A k \in coord.exists .. MaxReq - 1 : coord.ctx[Slot(coord, k)].groups = <<>>

\* A response is removed from the queue only when pop_ready_buffers() takes
\* its last group.  A context that is final and has no group would therefore
\* block every later response for ever.
NoStuckResponse ==
  \A k \in 0 .. coord.exists - 1 : ~IsComplete(coord.ctx[Slot(coord, k)])

Before(a, b) == a[1] < b[1] \/ (a[1] = b[1] /\ a[2] < b[2])

\* Responses leave in the order of the requests, each one in the order its
\* parts were supplied, whatever the order of the append_response() calls.
EmittedInOrder ==
  \A i, j \in DOMAIN emitted : i < j => Before(emitted[i], emitted[j])

Items(groups) ==
  UNION {{groups[g].items[i] : i \in DOMAIN groups[g].items} : g \in DOMAIN groups}

QueuedItems == UNION {Items(coord.ctx[Slot(coord, k)].groups) :
                        k \in 0 .. coord.exists - 1}

\* Merging and slot reuse lose nothing and repeat nothing: until reset() what
\* was accepted is either emitted or still queued, never both.
NothingLost ==
  LET out == {emitted[i] : i \in DOMAIN emitted}
  IN  /\ ~dropped => accepted = out \union QueuedItems
      /\ out \intersect QueuedItems = {}

\* What pop_ready_buffers() hands out is what append_response() accepted, in the
\* order of the requests and complete.
OutputExact == EmittedInOrder /\ NothingLost

\* Every notificator given to the coordinator is in exactly one place: queued
\* with its group, gone with a popped group, or invoked exactly once.
NotificatorConservation ==
  LET called == {n \in Item : calls[n] > 0}
      queued == QueuedNotifs(coord)
  IN  /\ given = queued \union handed \union called
      /\ queued \intersect handed = {}
      /\ queued \intersect called = {}
      /\ handed \intersect called = {}
      /\ \A n \in called : calls[n] = 1

-----------------------------------------------------------------------------
(* Refinement *)

FlatItems(groups) == FlattenSeq([g \in DOMAIN groups |-> groups[g].items])

\* The queue of PipelinedResponses: the contexts from the first one on, the
\* items of each one without the grouping.
AbstractQueue ==
  [k \in 1 .. coord.exists |->
     LET ctx == coord.ctx[Slot(coord, k - 1)]
     IN  [pending |-> FlatItems(ctx.groups), final |-> ctx.final,
          close |-> ctx.close]]

Pipeline == INSTANCE PipelinedResponses
  WITH Capacity <- MaxReq, queue <- AbstractQueue, closed <- coord.closed

\* The ring buffer with ids, groups and merging implements the FIFO pipeline.
ImplementsPipeline == Pipeline!Spec
=============================================================================
