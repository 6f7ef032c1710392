--------------------------- MODULE HttpConnection ---------------------------
(***************************************************************************)
(* connection_t (impl/connection.hpp): the working circle of one HTTP      *)
(* connection.  Its handlers run one at a time on the executor of the      *)
(* connection (a strand); handlers call each other and the user's code     *)
(* synchronously, so a running handler is a stack of frames [f, ...], the  *)
(* top one first, and one step executes one frame.  The kernel completes   *)
(* socket operations at any time; user threads, the timer and the peer act *)
(* between handlers.                                                       *)
(*                                                                         *)
(* The peer sends messages of two fragments each; a message is an ordinary *)
(* request ("get"), a request with an Upgrade header ("upg"), or malformed *)
(* ("bad").  Requests given to the handler are numbered 0, 1, 2, ...       *)
(***************************************************************************)
EXTENDS ResponseContexts, WriteGroupOutput, FiniteSets, Functions

CONSTANTS Scripts,      \* what the peer may send: sequences of message kinds
          Shapes,       \* the response parts user code builds
          UserFaults,   \* what user code may do: {"throw", "drop"} or less
          MaxRequests,  \* bound: requests given to the handler
          MaxParts      \* bound: parts user code supplies for a request

Kind  == {"get", "upg", "bad"}
Shape == [final : BOOLEAN, close : BOOLEAN, notif : BOOLEAN,
          body : {"empty", "data", "file"}]

ASSUME HttpConnectionAssumption ==
  /\ \A s \in Scripts : s \in Seq(Kind)
  /\ Shapes \subseteq Shape
  /\ UserFaults \subseteq {"throw", "drop"}
  /\ MaxRequests \in Nat /\ MaxParts \in Nat

Request == 0 .. MaxRequests - 1
Part    == Request \X (1 .. MaxParts + 1)

VARIABLES
  sock,      \* m_socket: "open", "closed", or "moved" out by an upgrade
  input,     \* m_input: [parser, msg, buf, stage, reading]
  coord,     \* m_response_coordinator
  out,       \* m_write_output_ctx
  initRead,  \* m_init_read_after_this_write
  guard,     \* [cb, late, armed, check]: m_current_timeout_cb, whether
             \* m_current_timeout_after has passed, whether the timer is
             \* scheduled, whether check_timeout_impl() is on the strand
  stack,     \* frames of the running handler
  rd, wr,    \* the asynchronous read and write: [st, data]
  net,       \* fragments the peer has still to deliver
  posted,    \* write_response_parts() calls waiting on the strand
  user,      \* what user code knows of each request: [st, upg, sent, close]
  alive,     \* the connection object exists
  served,    \* history: the message behind each request, 0 for none
  wire,      \* history: the items the socket took, in order
  built,     \* history: the write groups user code built
  notices    \* history: results each notificator was invoked with

io   == <<rd, wr, net>>
hist == <<served, wire, built, notices>>
vars == <<sock, input, coord, out, initRead, guard, stack, io, posted, user,
          alive, hist>>

-----------------------------------------------------------------------------
(* Frames *)

Frame(f)        == [f |-> f]
Try             == Frame("try")  \* an enclosing try block that ends in close()
Handler(r)      == [f |-> "handler", r |-> r]
PartFrame(f, r, fl, wg) == [f |-> f, r |-> r, fl |-> fl, wg |-> wg]
Notificator(n)  == [f |-> "notificator", n |-> n]

Top(f)      == stack # <<>> /\ stack[1].f = f
Return      == stack' = Tail(stack)
Call(fs)    == stack' = fs \o Tail(stack)  \* replaces the frame by fs

\* Unwinds to the innermost try block, whose catch clause calls close().
Unwind(s) ==
  LET t == CHOOSE i \in DOMAIN s : s[i] = Try /\ \A j \in 1 .. i - 1 : s[j] # Try
  IN  <<Frame("close")>> \o SubSeq(s, t + 1, Len(s))
Throw == stack' = Unwind(stack)

EndTry ==
  /\ Top("try") /\ Return
  /\ UNCHANGED <<sock, input, coord, out, initRead, guard, io, posted, user, alive, hist>>

-----------------------------------------------------------------------------
(* Socket operations, timer, notificators *)

Idle      == [st |-> "none", data |-> <<>>]
Start(d)  == [st |-> IF sock = "open" THEN "running" ELSE "error", data |-> d]
Cancel(o) == IF sock = "open" /\ o.st = "running" THEN [o EXCEPT !.st = "aborted"] ELSE o

\* schedule_operation_timeout_callback()
Guard(g, cb) == [g EXCEPT !.cb = cb, !.late = FALSE]
GuardRead(g) == IF Empty(coord) THEN Guard(g, "read") ELSE g
GuardRequestHandling(g) == IF Transmitting(out) THEN g ELSE Guard(g, "handle")
CancelTimeoutChecking(g) == [g EXCEPT !.cb = "none", !.armed = FALSE]

Notify(ns, result) ==
  notices' = [n \in Part |-> IF n \in ns THEN Append(notices[n], result)
                                         ELSE notices[n]]
NotifsOf(wg) == {wg.notif} \ {NoNotif}

-----------------------------------------------------------------------------
(* Input *)

NoMsg == [no |-> 0, kind |-> "get"]

Fragments(script) ==
  [i \in 1 .. 2 * Len(script) |->
     [no |-> (i + 1) \div 2, kind |-> script[(i + 1) \div 2], last |-> i % 2 = 0]]

Init ==
  /\ sock = "open"
  /\ input = [parser |-> "start", msg |-> NoMsg, buf |-> <<>>, stage |-> "none",
              reading |-> FALSE]
  /\ coord = NewCoordinator
  /\ out = NewOutput
  /\ initRead = FALSE
  /\ guard = [cb |-> "none", late |-> FALSE, armed |-> TRUE, check |-> FALSE]
  /\ stack = <<Frame("wait_for_http_message")>>
  /\ rd = Idle /\ wr = Idle
  /\ \E s \in Scripts : net = Fragments(s)
  /\ posted = <<>>
  /\ user = [r \in Request |-> [st |-> "idle", upg |-> FALSE, sent |-> 0,
                               close |-> FALSE]]
  /\ alive = TRUE
  /\ served = <<>> /\ wire = <<>> /\ built = {}
  /\ notices = [n \in Part |-> <<>>]

\* Mutant: ignores what is left in the buffer.
ReadAnyway == Frame("consume_message")

NextInput == Frame(IF input.buf # <<>> THEN "consume_data" ELSE "consume_message")

WaitForHttpMessage ==
  /\ Top("wait_for_http_message")
  /\ input' = [input EXCEPT !.parser = "start", !.msg = NoMsg]
  /\ guard' = GuardRead(guard)
  /\ Call(<<NextInput>>)
  /\ UNCHANGED <<sock, coord, out, initRead, io, posted, user, alive, hist>>

ConsumeMessage ==
  /\ Top("consume_message") /\ Return
  /\ IF input.reading THEN UNCHANGED <<input, rd>>
     ELSE input' = [input EXCEPT !.reading = TRUE] /\ rd' = Start(<<>>)
  /\ UNCHANGED <<sock, coord, out, initRead, guard, wr, net, posted, user, alive, hist>>

AfterRead ==
  /\ stack = <<>> /\ rd.st \in {"ok", "error", "aborted"}
  /\ input' = [input EXCEPT !.reading = FALSE,
                            !.buf = IF rd.st = "ok" THEN rd.data ELSE @]
  /\ stack' = CASE rd.st = "ok"      -> <<Frame("consume_data"), Try>>
                [] rd.st = "error"   -> <<Frame("close")>>
                [] rd.st = "aborted" -> <<>>
  /\ rd' = Idle
  /\ UNCHANGED <<sock, coord, out, initRead, guard, wr, net, posted, user, alive, hist>>

\* http_parser_execute() on the buffer: a message is complete with its last
\* fragment; the parser is paused there and takes nothing more.  A last
\* fragment without its first one is not the beginning of a request.
Wanted(in) == CASE in.parser = "start" -> 2 [] in.parser = "mid" -> 1 [] OTHER -> 0

Parsed(in) ==
  LET n == Wanted(in)
  IN  CASE n = 0 -> "complete"
        [] \E i \in DOMAIN in.buf : i <= n /\ in.buf[i].last # (i = n) -> "error"
        [] Len(in.buf) < n -> "more"
        [] in.buf[n].kind = "bad" -> "error"
        [] OTHER -> "complete"

\* Mutant: consumed_bytes() does not move the position.
ConsumedNothing(in) ==
  IF Wanted(in) = 0 \/ Parsed(in) # "complete" THEN in
  ELSE [in EXCEPT !.msg = [no |-> in.buf[1].no, kind |-> in.buf[1].kind],
                  !.parser = "done"]

Consumed(in) ==
  LET n    == IF Len(in.buf) < Wanted(in) THEN Len(in.buf) ELSE Wanted(in)
      frag == in.buf[n]
  IN  IF n = 0 THEN in
      ELSE [in EXCEPT !.buf = SubSeq(@, n + 1, Len(@)),
                      !.msg = [no |-> frag.no, kind |-> frag.kind],
                      !.parser = IF Parsed(in) = "complete" THEN "done" ELSE "mid"]

ConsumeData ==
  /\ Top("consume_data")
  /\ input' = Consumed(input)
  /\ Call(<<Frame(CASE Parsed(input) = "error"    -> "close"
                    [] Parsed(input) = "complete" -> "on_request_message_complete"
                    [] Parsed(input) = "more"     -> "consume_message")>>)
  /\ UNCHANGED <<sock, coord, out, initRead, guard, io, posted, user, alive, hist>>

-----------------------------------------------------------------------------
(* Requests *)

\* Registers the request and hands it over: its data are moved out of m_input.
Deliver(in, upg) ==
  /\ Len(served) < MaxRequests
  /\ coord' = RegisterNewRequest(coord)
  /\ served' = Append(served, in.msg.no)
  /\ user' = [user EXCEPT ![Len(served)].st = "busy", ![Len(served)].upg = upg]
  /\ input' = [in EXCEPT !.msg.no = 0]

OnRequestMessageComplete ==
  LET in == IF input.msg.kind = "upg"
            THEN [input EXCEPT !.stage = "pending_upgrade_handling"] ELSE input
  IN  /\ Top("on_request_message_complete")
      /\ CASE in.stage = "none" /\ ~IsFull(coord) ->
                /\ Deliver(in, FALSE)
                /\ guard' = GuardRequestHandling(guard)
                /\ Call(<<Handler(Len(served)), Try>>)
           [] in.stage = "none" /\ IsFull(coord) ->  \* register_new_request() throws
                /\ Call(<<Frame("close")>>)
                /\ input' = in
                /\ UNCHANGED <<coord, guard, user, served>>
           [] in.stage # "none" ->
                /\ Call(IF Empty(coord) THEN <<Frame("handle_upgrade_request"), Try>>
                                        ELSE <<>>)
                /\ input' = in
                /\ UNCHANGED <<coord, guard, user, served>>
      /\ UNCHANGED <<sock, out, initRead, io, posted, alive, wire, built, notices>>

HandleUpgradeRequest ==
  /\ Top("handle_upgrade_request")
  /\ Deliver([input EXCEPT !.stage = "wait_for_upgrade_handling_result_or_nothing"],
             TRUE)
  /\ guard' = CancelTimeoutChecking(guard)
  /\ Call(<<Handler(Len(served))>>)
  /\ UNCHANGED <<sock, out, initRead, io, posted, alive, wire, built, notices>>

-----------------------------------------------------------------------------
(* User code: request handlers, response builders, websocket upgrade *)

\* The write group of the k-th part of the response to r.
WriteGroup(r, k, shape) ==
  LET item(file) == [req |-> r, no |-> k, file |-> file]
  IN  [items  |-> CASE shape.body = "empty" -> <<>>
                    [] shape.body = "data"  -> <<item(FALSE)>>
                    [] shape.body = "file"  -> <<item(FALSE), item(TRUE)>>,
       status |-> k = 1,
       notif  |-> IF shape.notif THEN <<r, k>> ELSE NoNotif]

PartOf(f, r, shape) ==
  PartFrame(f, r, [final |-> shape.final, close |-> shape.close],
            WriteGroup(r, user[r].sent + 1, shape))

\* A builder sends the header with the first part, keeps the connection
\* attribute for the whole response and is spent with the final part.
Builds(r, shape) ==
  /\ user[r].st = "busy" /\ user[r].sent < MaxParts
  /\ IF user[r].sent = 0 THEN shape.body # "empty" ELSE shape.close = user[r].close
  /\ shape.body = "empty" => shape.final \/ shape.notif
  /\ user' = [user EXCEPT ![r].sent = @ + 1, ![r].close = shape.close,
                          ![r].st = IF shape.final THEN "gone" ELSE @]
  /\ built' = built \union {WriteGroup(r, user[r].sent + 1, shape)}
  /\ UNCHANGED <<served, wire, notices>>

Release(r) == user' = [user EXCEPT ![r].st = "gone"]

\* The handler returns request_accepted().
HandlerAccepts ==
  /\ Top("handler")
  /\ Call(IF ~user[stack[1].r].upg /\ IsAbleToGetMoreMessages(coord)
          THEN <<Frame("wait_for_http_message")>> ELSE <<>>)
  /\ UNCHANGED <<sock, input, coord, out, initRead, guard, io, posted, user, alive, hist>>

NotImplemented == [final |-> TRUE, close |-> TRUE, notif |-> FALSE, body |-> "data"]

\* The handler returns request_rejected().
HandlerRejects ==
  LET r == stack[1].r
  IN  /\ Top("handler")
      /\ Call(IF user[r].upg /\ sock # "open" THEN <<>>
              ELSE <<PartOf("write_response_parts_impl", r, NotImplemented)>>)
      /\ Release(r)
      /\ UNCHANGED <<sock, input, coord, out, initRead, guard, io, posted, alive, hist>>

HandlerThrows ==
  /\ Top("handler") /\ "throw" \in UserFaults
  /\ Throw
  /\ Release(stack[1].r)
  /\ UNCHANGED <<sock, input, coord, out, initRead, guard, io, posted, alive, hist>>

\* write_response_parts() called on the strand: dispatch() runs it at once.
HandlerSends(shape) ==
  LET r == stack[1].r
  IN  /\ Top("handler") /\ Builds(r, shape)
      /\ stack' = <<PartOf("write_response_parts_impl", r, shape), Try>> \o stack
      /\ UNCHANGED <<sock, input, coord, out, initRead, guard, io, posted, alive>>

\* websocket::basic::upgrade(): move_upgrade_internals(), on the caller's thread.
Upgrades(r) ==
  /\ user[r].st = "busy" /\ user[r].upg /\ user[r].sent = 0
  /\ served[r + 1] # 0 /\ sock = "open"
  /\ sock' = "moved"
  /\ Release(r)
  /\ UNCHANGED <<input, coord, out, initRead, guard, stack, io, posted, alive, hist>>

HandlerUpgrades == Top("handler") /\ Upgrades(stack[1].r)

UserUpgrades(r) == stack = <<>> /\ Upgrades(r)

\* write_response_parts() called on another thread.
UserSends(r, shape) ==
  /\ stack = <<>> /\ Builds(r, shape)
  /\ posted' = Append(posted, PartOf("write_response_parts_impl", r, shape))
  /\ UNCHANGED <<sock, input, coord, out, initRead, guard, stack, io, alive>>

UserDrops(r) ==
  /\ stack = <<>> /\ user[r].st = "busy" /\ "drop" \in UserFaults
  /\ Release(r)
  /\ UNCHANGED <<sock, input, coord, out, initRead, guard, stack, io, posted, alive, hist>>

RunPosted ==
  /\ stack = <<>> /\ posted # <<>>
  /\ stack' = <<Head(posted), Try>>
  /\ posted' = Tail(posted)
  /\ UNCHANGED <<sock, input, coord, out, initRead, guard, io, user, alive, hist>>

-----------------------------------------------------------------------------
(* Output *)

AppendFrame == [stack[1] EXCEPT !.f = "append_response"]

WriteResponsePartsImpl ==
  /\ Top("write_response_parts_impl")
  /\ IF sock # "open"
     THEN Return /\ Notify(NotifsOf(stack[1].wg), "failed")
     ELSE /\ Call(IF /\ input.stage = "wait_for_upgrade_handling_result_or_nothing"
                     /\ ~IsFull(coord)
                  THEN <<Frame("wait_for_http_message"), AppendFrame>>
                  ELSE <<AppendFrame>>)
          /\ UNCHANGED notices
  /\ UNCHANGED <<sock, input, coord, out, initRead, guard, io, posted, user, alive,
                 served, wire, built>>

\* The rest of write_response_parts_impl().
AppendResponseParts ==
  LET fr == stack[1]
      id == fr.r % ReqIdModulus
  IN  /\ Top("append_response")
      /\ CASE coord.closed ->
                /\ Return /\ Notify(NotifsOf(fr.wg), "failed")
                /\ UNCHANGED coord
           [] ~coord.closed /\ AppendThrows(coord, id) ->
                /\ Throw /\ Notify(NotifsOf(fr.wg), "failed")
                /\ UNCHANGED coord
           [] ~coord.closed /\ ~AppendThrows(coord, id) ->
                /\ coord' = AppendResponse(coord, id, fr.fl, fr.wg)
                /\ Call(<<Frame("init_write_if_necessary")>>)
                /\ UNCHANGED notices
      /\ UNCHANGED <<sock, input, out, initRead, guard, io, posted, user, alive,
                     served, wire, built>>

\* Mutant: does not look at the write in progress.
MayInitWriteAlways == TRUE

MayInitWrite == ~Transmitting(out)

\* Mutant: reading is resumed when the table is full again.
ResumeReadingWhenFull(before, after) == IsFull(before) /\ IsFull(after)

ResumeReading(before, after) == IsFull(before) /\ ~IsFull(after)

\* init_write_if_necessary() and init_write(), which pop_ready_buffers() makes
\* throw when the coordinator is closed, and handle_nothing_to_write().
InitWriteIfNecessary ==
  /\ Top("init_write_if_necessary")
  /\ CASE ~MayInitWrite ->
            Return /\ UNCHANGED <<coord, out, initRead, guard>>
       [] MayInitWrite /\ coord.closed ->
            Throw /\ UNCHANGED <<coord, out, initRead, guard>>
       [] MayInitWrite /\ ~coord.closed /\ HasReady(coord) ->
            /\ coord' = PopReadyBuffers(coord)
            /\ initRead' = ResumeReading(coord, coord')
            /\ out' = StartNextWriteGroup(out, ReadyGroup(coord))
            /\ Call(<<Frame("handle_current_write_ctx"), Try>>)
            /\ UNCHANGED guard
       [] MayInitWrite /\ ~coord.closed /\ ~HasReady(coord) ->
            /\ guard' = IF Empty(coord) THEN GuardRead(guard)
                                        ELSE GuardRequestHandling(guard)
            /\ Return
            /\ UNCHANGED <<coord, out, initRead>>
  /\ UNCHANGED <<sock, input, io, posted, user, alive, hist>>

\* handle_current_write_ctx() with handle_trivial_write_operation() and
\* handle_file_write_operation(), or the beginning of
\* finish_handling_current_write_ctx(): finish_write_group() takes the
\* notificator out of the group before it invokes it.
HandleCurrentWriteCtx ==
  /\ Top("handle_current_write_ctx")
  /\ out' = [ExtractNextWriteOperation(out) EXCEPT
               !.wg.notif = IF NextOperation(out) = "none" THEN NoNotif ELSE @]
  /\ IF NextOperation(out) = "none"
     THEN /\ Call([i \in 1 .. Cardinality(NotifsOf(out.wg)) |-> Notificator(out.wg.notif)]
                  \o <<Frame("finish_handling_current_write_ctx")>>)
          /\ Notify(NotifsOf(out.wg), "ok")
          /\ UNCHANGED <<rd, wr, guard>>
     ELSE /\ rd' = IF coord.closed THEN Cancel(rd) ELSE rd
          /\ wr' = Start(OperationItems(out))
          /\ guard' = Guard(guard, IF NextOperation(out) = "file" THEN "sendfile"
                                                                 ELSE "write")
          /\ Return
          /\ UNCHANGED notices
  /\ UNCHANGED <<sock, input, coord, initRead, net, posted, user, alive, served,
                 wire, built>>

\* A notificator may append the next part of its response, or fail: then
\* finish_write_group() resets the context and throws.  A part appended here is
\* dispatched at once and would overtake parts of the same response that wait
\* on the strand: a builder is used by one thread at a time.
NotificatorReturns ==
  /\ Top("notificator") /\ Return
  /\ UNCHANGED <<sock, input, coord, out, initRead, guard, io, posted, user, alive, hist>>

NotificatorSends(shape) ==
  LET r == stack[1].n[1]
  IN  /\ Top("notificator") /\ Builds(r, shape)
      /\ \A i \in DOMAIN posted : posted[i].r # r
      /\ Call(<<PartOf("write_response_parts_impl", r, shape), Try>>)
      /\ UNCHANGED <<sock, input, coord, out, initRead, guard, io, posted, alive>>

NotificatorThrows ==
  /\ Top("notificator") /\ "throw" \in UserFaults
  /\ out' = ResetWriteGroup(out)
  /\ Throw
  /\ UNCHANGED <<sock, input, coord, initRead, guard, io, posted, user, alive, hist>>

\* finish_handling_current_write_ctx() after the notificator.
FinishHandlingCurrentWriteCtx ==
  /\ Top("finish_handling_current_write_ctx")
  /\ out' = ResetWriteGroup(out)
  /\ Call(CASE coord.closed -> <<Frame("close")>>
            [] ~coord.closed /\ input.stage = "none" ->
                 (IF initRead THEN <<Frame("wait_for_http_message")>> ELSE <<>>)
                 \o <<Frame("init_write_if_necessary")>>
            [] ~coord.closed /\ input.stage # "none" ->
                 <<Frame(IF Empty(coord) THEN "handle_upgrade_request"
                                         ELSE "init_write_if_necessary")>>)
  /\ UNCHANGED <<sock, input, coord, initRead, guard, io, posted, user, alive, hist>>

AfterWrite ==
  /\ stack = <<>> /\ wr.st \in {"ok", "error", "aborted"}
  /\ wr' = Idle
  /\ stack' = CASE wr.st = "ok"      -> <<Frame("handle_current_write_ctx"), Try>>
                [] wr.st = "error"   -> <<Frame("close"), Frame("fail_write_group")>>
                [] wr.st = "aborted" -> <<Frame("fail_write_group")>>
  /\ UNCHANGED <<sock, input, coord, out, initRead, guard, rd, net, posted, user,
                 alive, hist>>

\* Mutant: the notificator is forgotten when a write fails.
FailSilently ==
  /\ Top("fail_write_group") /\ Return
  /\ out' = FailWriteGroup(out)
  /\ UNCHANGED <<sock, input, coord, initRead, guard, io, posted, user, alive, hist>>

FailCurrentWriteGroup ==
  /\ Top("fail_write_group") /\ Return
  /\ Notify(NotifsOf(out.wg), "failed")
  /\ out' = FailWriteGroup(out)
  /\ UNCHANGED <<sock, input, coord, initRead, guard, io, posted, user, alive,
                 served, wire, built>>

-----------------------------------------------------------------------------
(* Closing and timeouts *)

Close ==
  /\ Top("close") /\ Return
  /\ sock' = IF sock = "open" THEN "closed" ELSE sock
  /\ rd' = Cancel(rd) /\ wr' = Cancel(wr)
  /\ guard' = CancelTimeoutChecking(guard)
  /\ coord' = Reset(coord)
  /\ Notify(QueuedNotifs(coord), "failed")
  /\ UNCHANGED <<input, out, initRead, net, posted, user, alive, served, wire, built>>

\* The deadline of the guarded operation passes.
Elapse ==
  /\ stack = <<>> /\ ~guard.late /\ (guard.armed \/ guard.check)
  /\ guard' = [guard EXCEPT !.late = TRUE]
  /\ UNCHANGED <<sock, input, coord, out, initRead, stack, io, posted, user, alive, hist>>

\* The timer fires and check_timeout() goes to the strand.
TimerFires ==
  /\ stack = <<>> /\ alive /\ guard.armed
  /\ guard' = [guard EXCEPT !.armed = FALSE, !.check = TRUE]
  /\ UNCHANGED <<sock, input, coord, out, initRead, stack, io, posted, user, alive, hist>>

\* Mutant: the timer is not scheduled again after a check.
NoNextTimeoutChecking(g) == [g EXCEPT !.check = FALSE]

NextTimeoutChecking(g) == [g EXCEPT !.check = FALSE, !.armed = @ \/ ~g.late]

CheckTimeoutImpl ==
  /\ stack = <<>> /\ guard.check
  /\ stack' = IF guard.late /\ guard.cb # "none" THEN <<Frame("close")>> ELSE <<>>
  /\ guard' = NextTimeoutChecking(guard)
  /\ UNCHANGED <<sock, input, coord, out, initRead, io, posted, user, alive, hist>>

\* Pending operations, waiting calls and requests held by user code share the
\* ownership of the connection; the timer has a weak handle.  The destructors
\* of the remaining write groups invoke their notificators.
Destroy ==
  /\ alive /\ stack = <<>> /\ rd = Idle /\ wr = Idle /\ posted = <<>>
  /\ ~guard.check /\ \A r \in Request : user[r].st # "busy"
  /\ alive' = FALSE
  /\ sock' = IF sock = "open" THEN "closed" ELSE sock
  /\ guard' = [guard EXCEPT !.armed = FALSE]
  /\ Notify(QueuedNotifs(coord) \union
            (IF Transmitting(out) THEN NotifsOf(out.wg) ELSE {}), "failed")
  /\ UNCHANGED <<input, coord, out, initRead, stack, io, posted, user, served, wire,
                 built>>

-----------------------------------------------------------------------------
(* The kernel and the peer *)

\* async_read_some() takes what has arrived, or the peer is gone.
ReadCompletes ==
  /\ rd.st = "running"
  /\ \/ \E n \in 1 .. Len(net) :
          /\ rd' = [st |-> "ok", data |-> SubSeq(net, 1, n)]
          /\ net' = SubSeq(net, n + 1, Len(net))
     \/ rd' = [st |-> "error", data |-> <<>>] /\ net' = <<>>
  /\ UNCHANGED <<sock, input, coord, out, initRead, guard, stack, wr, posted, user,
                 alive, hist>>

\* A write that fails may have sent some of its items.
WriteCompletes ==
  /\ wr.st = "running"
  /\ \/ wr' = [wr EXCEPT !.st = "ok"] /\ wire' = wire \o wr.data
     \/ \E n \in 0 .. Len(wr.data) - 1 :
          /\ wr' = [wr EXCEPT !.st = "error"]
          /\ wire' = wire \o SubSeq(wr.data, 1, n)
  /\ UNCHANGED <<sock, input, coord, out, initRead, guard, stack, rd, net, posted,
                 user, alive, served, built, notices>>

-----------------------------------------------------------------------------

\* What the running handler does next when it is not in user code.
Step ==
  \/ EndTry
  \/ WaitForHttpMessage
  \/ ConsumeMessage
  \/ ConsumeData
  \/ OnRequestMessageComplete
  \/ HandleUpgradeRequest
  \/ WriteResponsePartsImpl
  \/ AppendResponseParts
  \/ InitWriteIfNecessary
  \/ HandleCurrentWriteCtx
  \/ FinishHandlingCurrentWriteCtx
  \/ FailCurrentWriteGroup
  \/ Close

UserCode ==
  \/ HandlerAccepts
  \/ HandlerRejects
  \/ HandlerThrows
  \/ \E shape \in Shapes : HandlerSends(shape)
  \/ HandlerUpgrades
  \/ NotificatorReturns
  \/ \E shape \in Shapes : NotificatorSends(shape)
  \/ NotificatorThrows

\* A new handler starts on the strand.
Dispatch ==
  \/ AfterRead
  \/ AfterWrite
  \/ RunPosted
  \/ CheckTimeoutImpl

Others ==
  \/ \E r \in Request, shape \in Shapes : UserSends(r, shape)
  \/ \E r \in Request : UserDrops(r)
  \/ \E r \in Request : UserUpgrades(r)
  \/ ReadCompletes
  \/ WriteCompletes

Next ==
  \/ Step
  \/ UserCode
  \/ Dispatch
  \/ Others
  \/ Elapse
  \/ TimerFires
  \/ Destroy

\* User code called on the strand returns, the strand and the timer make
\* progress, time passes.  Nothing is asked of the peer or of user threads.
Fairness ==
  /\ WF_vars(Step)
  /\ WF_vars(UserCode)
  /\ WF_vars(AfterRead) /\ WF_vars(AfterWrite)
  /\ WF_vars(RunPosted) /\ WF_vars(CheckTimeoutImpl)
  /\ WF_vars(TimerFires) /\ WF_vars(Elapse)

Spec == Init /\ [][Next]_vars /\ Fairness

-----------------------------------------------------------------------------
(* Properties *)

OpState == {"none", "running", "ok", "error", "aborted"}

\* The variables have the types of their C++ counterparts.
TypeOK ==
  /\ sock \in {"open", "closed", "moved"}
  /\ input.parser \in {"start", "mid", "done"}
  /\ input.stage \in {"none", "pending_upgrade_handling",
                      "wait_for_upgrade_handling_result_or_nothing"}
  /\ input.reading \in BOOLEAN
  /\ coord.exists \in 0 .. MaxReq /\ coord.first \in 0 .. MaxReq - 1
  /\ initRead \in BOOLEAN
  /\ guard \in [cb : {"none", "read", "handle", "write", "sendfile"},
                late : BOOLEAN, armed : BOOLEAN, check : BOOLEAN]
  /\ rd.st \in OpState /\ wr.st \in OpState
  /\ \A r \in Request : user[r].st \in {"idle", "busy", "gone"}
  /\ served \in Seq(Nat)
  /\ \A n \in Part : \A i \in DOMAIN notices[n] : notices[n][i] \in {"ok", "failed"}

\* The variables have their types, and async_read_some() fills m_buf from its
\* beginning: while it runs, and until after_read(), no unparsed bytes of a
\* pipelined request may be there, and the flag m_read_operation_is_running
\* tells the truth.
ReadBufferExclusive ==
  /\ TypeOK
  /\ rd.st \in {"running", "ok"} => input.buf = <<>>
  /\ rd # Idle <=> input.reading

\* write_group_output_ctx_t asserts that there is a current group, and the
\* connection starts a socket write only when none is in flight.
OneWriteAtATime ==
  /\ Top("handle_current_write_ctx") \/ Top("fail_write_group") => Transmitting(out)
  /\ Top("handle_current_write_ctx") => wr = Idle
  /\ wr # Idle => Transmitting(out)

Earlier(a, b) ==
  \/ a.req < b.req
  \/ a.req = b.req /\ a.no < b.no
  \/ a.req = b.req /\ a.no = b.no /\ ~a.file /\ b.file

\* There is one socket write at a time, and the peer receives the responses in
\* the order of the requests, each one in the order of its parts, nothing
\* twice, and a response begins only after the previous one was completed.
WireInOrder ==
  /\ OneWriteAtATime
  /\ wire # <<>> => wire[1].req = 0 /\ wire[1].no = 1
  /\ \A i \in 2 .. Len(wire) :
       /\ Earlier(wire[i - 1], wire[i])
       /\ wire[i].req > wire[i - 1].req =>
            wire[i].req = wire[i - 1].req + 1 /\ wire[i].no = 1

\* A notificator is invoked at most once, with success only when the data of
\* its part went to the socket, and always before the connection is gone
\* (buffers.hpp:740).
NotificatorHonest ==
  \A wg \in built : wg.notif # NoNotif =>
    LET res == notices[wg.notif]
    IN  /\ Len(res) <= 1
        /\ res = <<"ok">> => Range(wg.items) \subseteq Range(wire)
        /\ ~alive => Len(res) = 1

\* Until an upgrade is requested every message is given to the handler once,
\* in the order of arrival.
ServedInOrder == input.stage = "none" => \A i \in DOMAIN served : served[i] = i

Between == stack = <<>> /\ alive /\ sock = "open"

Guarded == guard.cb # "none" /\ (guard.armed \/ guard.check)

\* connection.hpp:222: "Each step is controlled by timer".  Between handlers an
\* open connection that is not being upgraded has a timeout callback and a
\* timer (or its check) that will call it.
StepsAreGuarded == Between /\ input.stage = "none" => Guarded

\* Reading never stalls: while there is room for another request and no
\* connection-close response is due, a read is in progress, or will be
\* started after the write in progress.
ReadingNotStalled ==
  (/\ Between /\ input.stage = "none" /\ IsAbleToGetMoreMessages(coord)
   /\ \A k \in 0 .. coord.exists - 1 : ~coord.ctx[Slot(coord, k)].close)
  => input.reading \/ (Transmitting(out) /\ initRead)

\* A connection does not stay open for ever, whatever the peer and the users
\* do: some timeout closes it, unless an upgrade is requested, which stops the
\* timer.
EventuallyClosed == <>(sock # "open" \/ input.stage # "none")

\* Every notificator handed to the connection is eventually invoked, also when
\* its response waits behind another one; as above, not for sure once an
\* upgrade has stopped the timer of a write.
EventuallyNotified ==
  \A n \in Part :
    (\E wg \in built : wg.notif = n) ~> (notices[n] # <<>> \/ input.stage # "none")

-----------------------------------------------------------------------------
(* What comments and tests say of the connection. *)

\* connection.hpp:654: "Request data must be in input context (m_input)."
RequestDataPresent ==
  Top("handle_upgrade_request") => input.parser = "done" /\ input.msg.no # 0

\* connection.hpp:138: an upgrade request "must be the only request that is
\* handled at the moment".
UpgradeIsAlone ==
  Top("handle_upgrade_request") => Empty(coord) /\ ~Transmitting(out)

=============================================================================
