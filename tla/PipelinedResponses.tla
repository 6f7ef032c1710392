------------------------- MODULE PipelinedResponses -------------------------
(***************************************************************************)
(* What the response coordinator promises to a connection, without a ring  *)
(* buffer, request ids, write groups or merging: requests form a FIFO      *)
(* queue, the items of a response may be supplied while other responses    *)
(* are in progress, and only the oldest response may be emitted.           *)
(***************************************************************************)
EXTENDS Integers, Sequences

CONSTANTS Capacity,  \* most requests in progress
          Item       \* what responses are made of

VARIABLES queue,    \* requests in progress: [pending, final, close]
          emitted,  \* items handed over for writing, in order
          closed    \* a complete connection-close response was emitted

vars == <<queue, emitted, closed>>

Init == queue = <<>> /\ emitted = <<>> /\ closed = FALSE

Open ==
  /\ Len(queue) < Capacity
  /\ queue' = Append(queue, [pending |-> <<>>, final |-> FALSE, close |-> FALSE])
  /\ UNCHANGED <<emitted, closed>>

\* A part of a response: an item, or nothing but the flags.
Supply(i, part, final, close) ==
  /\ ~closed
  /\ ~queue[i].final
  /\ queue' = [queue EXCEPT ![i] = [pending |-> @.pending \o part,
                                    final |-> final, close |-> close]]
  /\ UNCHANGED <<emitted, closed>>

\* The first n items of the oldest response.
Emit(n) ==
  /\ ~closed
  /\ emitted' = emitted \o SubSeq(Head(queue).pending, 1, n)
  /\ queue' = [queue EXCEPT ![1].pending = SubSeq(@, n + 1, Len(@))]
  /\ UNCHANGED closed

\* Everything that is left of the oldest response, if it is final.  The
\* response leaves the queue and closes the pipeline if it is a
\* connection-close one.
EmitLast ==
  /\ ~closed
  /\ Head(queue).final
  /\ emitted' = emitted \o Head(queue).pending
  /\ queue' = Tail(queue)
  /\ closed' = Head(queue).close

\* The connection goes away: what was not emitted never will be.
Abandon == queue' = <<>> /\ UNCHANGED <<emitted, closed>>

Next ==
  \/ Open
  \/ \E i \in DOMAIN queue, part \in {<<>>} \union {<<item>> : item \in Item},
        f, c \in BOOLEAN : Supply(i, part, f, c)
  \/ queue # <<>> /\ \E n \in 1 .. Len(Head(queue).pending) : Emit(n)
  \/ queue # <<>> /\ EmitLast
  \/ Abandon

Spec == Init /\ [][Next]_vars
=============================================================================
