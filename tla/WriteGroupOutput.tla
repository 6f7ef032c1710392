-------------------------- MODULE WriteGroupOutput --------------------------
(***************************************************************************)
(* write_group_output_ctx_t (impl/write_group_output_ctx.hpp): the write   *)
(* group being transmitted and the index of its next writable item, cut    *)
(* into solid write operations: a gather write of consecutive trivial      *)
(* items, or one file written with sendfile.                               *)
(*                                                                         *)
(* An output context is [wg, next]; wg is NoGroup when nothing is being    *)
(* transmitted.  An item x is written with sendfile iff x.file.            *)
(***************************************************************************)
EXTENDS Integers, Sequences

CONSTANTS NoGroup,    \* m_current_wg is empty
          MaxIovLen   \* max_iov_len(), most buffers of a gather write

ASSUME MaxIovLenAssumption == MaxIovLen \in Nat \ {0}

NewOutput == [wg |-> NoGroup, next |-> 1]

Transmitting(o) == o.wg # NoGroup

StartNextWriteGroup(o, wg) == [o EXCEPT !.wg = wg]

\* prepare_trivial_buffers_wo(): the index after the longest run of trivial
\* items from o.next on that fits one gather write.
EndOfTrivialRun(o) ==
  LET items == o.wg.items
      stops == {i \in o.next .. Len(items) :
                  items[i].file \/ i = o.next + MaxIovLen}
                \union {Len(items) + 1}
  IN  CHOOSE i \in stops : \A j \in stops : i <= j

\* The kind of the next solid write operation, and the index after it.
NextOperation(o) ==
  IF o.next > Len(o.wg.items) THEN "none"
  ELSE IF o.wg.items[o.next].file THEN "file" ELSE "trivial"

EndOfNextOperation(o) ==
  IF NextOperation(o) = "trivial" THEN EndOfTrivialRun(o) ELSE o.next + 1

ExtractNextWriteOperation(o) ==
  IF NextOperation(o) = "none" THEN o
  ELSE [o EXCEPT !.next = EndOfNextOperation(o)]

\* The items of the operation that starts at index o.next.
OperationItems(o) == SubSeq(o.wg.items, o.next, EndOfNextOperation(o) - 1)

\* finish_write_group() and fail_write_group(), after the notificator was
\* invoked; only the former goes back to the first item.
ResetWriteGroup(o) == [wg |-> NoGroup, next |-> 1]
FailWriteGroup(o)  == [o EXCEPT !.wg = NoGroup]
=============================================================================
