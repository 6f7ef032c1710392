---------------------------- MODULE WsConnection ----------------------------
(***************************************************************************)
(* ws_connection_t (websocket/impl/ws_connection.hpp) and the handle ws_t  *)
(* (websocket/websocket.hpp) user code owns it by.  As in HttpConnection,  *)
(* the connection's handlers run one at a time on its executor, a running  *)
(* handler is a stack of frames [f, ...], the top one first, and one step  *)
(* executes one frame.  User code runs inside a handler (a message handler *)
(* or a write notificator), where its calls are executed at once, or       *)
(* outside of it, where they are posted.                                   *)
(*                                                                         *)
(* The peer sends frames: a header token, then one token per payload byte. *)
(* A read takes as many tokens as there are and fit, so it may end in the  *)
(* middle of a frame or hold the start of the next one.                    *)
(***************************************************************************)
EXTENDS WsProtocolValidator, WriteGroupOutput, Functions

CONSTANTS PeerScripts,  \* what the peer may send: sequences of [hdr, payload]
          NotifThrows,  \* BOOLEAN: may a write notificator throw
          MaxSends,     \* bound: send_message() calls
          BufTokens     \* bound: tokens the header buffer holds

ASSUME WsConnectionAssumption ==
  /\ PeerScripts \subseteq Seq([hdr : Header, payload : Seq(Byte)])
  /\ \A script \in PeerScripts : \A i \in DOMAIN script :
       script[i].hdr.len = Len(script[i].payload)
  /\ NotifThrows \in BOOLEAN
  /\ MaxSends \in Nat /\ BufTokens \in Nat \ {0}
  /\ MaxIovLen >= 2

Sends    == 1 .. MaxSends
OwnClose == MaxSends + 1

VARIABLES
  conn,     \* the members of ws_connection_t, and its two socket operations
  timer,    \* m_timer_guard: "off" or "armed"
  stack,    \* frames of the running handler
  posted,   \* calls of user code waiting on the strand
  handle,   \* ws_t: "owned" while it holds the connection, "moved", or "gone"
  used,     \* [activated, sends]: what user code has done with ws_t
  net,      \* [left, tokens]: what the peer has still to send and deliver
  dead,     \* the connection object is destroyed
  told,     \* history: what the message handler was called with
  wire,     \* history: the write groups the socket took
  notices   \* history: the results each notificator was invoked with

vars == <<conn, timer, stack, posted, handle, used, net, dead, told, wire, notices>>
hist == <<told, wire, notices>>
user == <<posted, handle, used, dead>>
env  == <<user, net>>

-----------------------------------------------------------------------------
(* Frames *)

Frame(f)       == [f |-> f]
CloseHandler(code) == [f |-> "close_handler", code |-> code]
Trigger(code)  == [f |-> "trigger_error_and_close", code |-> code]
Payload(part)  == [f |-> "payload", part |-> part]
WriteData(g)   == [f |-> "write_data", g |-> g]
Notificator(g, res) == [f |-> "notificator", g |-> g, res |-> res]

Top(f)    == stack # <<>> /\ stack[1].f = f
Return    == stack' = Tail(stack)
Call(fs)  == stack' = fs \o Tail(stack)
Buf       == [file |-> FALSE]
Group(id, close, n) == [id |-> id, close |-> close, items |-> [i \in 1 .. n |-> Buf]]

ASSUME NoGroupAssumption ==
  \A id \in 0 .. OwnClose, close \in BOOLEAN, n \in 1 .. 2 : NoGroup # Group(id, close, n)

UserCode == Top("handler") \/ Top("notificator")

-----------------------------------------------------------------------------
(* Socket operations *)

NoOp     == [st |-> "none", what |-> "header", data |-> <<>>]
StartOp(c, what) == [st |-> IF c.open THEN "running" ELSE "error", what |-> what,
                     data |-> <<>>]
Abort(op) == IF op.st = "running" THEN [op EXCEPT !.st = "error"] ELSE op

\* close_impl(): m_close_impl is a one-shot action.
CloseImpl(c) ==
  IF c.open THEN [c EXCEPT !.open = FALSE, !.rd = Abort(@), !.wr = Abort(@)] ELSE c

Tokens(f) == <<[hdr |-> f.hdr, byte |-> 0]>>
             \o [i \in 1 .. Len(f.payload) |-> [hdr |-> NoFrame, byte |-> f.payload[i]]]
Bytes(tokens) == [i \in DOMAIN tokens |-> tokens[i].byte]

\* What the peer sent is lost with the socket.
Hangup == net' = IF conn'.open THEN net ELSE [left |-> <<>>, tokens |-> <<>>]

\* After upgrade(): the response is on its way to the strand.  An immediate
\* activation is an Activate that comes first.
Init ==
  /\ conn = [open |-> TRUE, rstate |-> "nothing", writable |-> TRUE,
             toUser |-> TRUE, toPeer |-> TRUE, queue |-> <<>>, out |-> NewOutput,
             rd |-> NoOp, wr |-> NoOp, buf |-> <<>>, msg |-> NoFrame, rest |-> 0,
             val |-> NewValidator, wait |-> FALSE,
             weak |-> FALSE]
  /\ timer = "off" /\ stack = <<>>
  /\ handle = "owned"
  /\ used = [activated |-> FALSE, sends |-> 0]
  /\ posted = <<WriteData(Group(0, FALSE, 1))>>
  /\ \E script \in PeerScripts : net = [left |-> script, tokens |-> <<>>]
  /\ dead = FALSE
  /\ told = <<>> /\ wire = <<>> /\ notices = [s \in Sends |-> <<>>]

-----------------------------------------------------------------------------
(* Output *)

\* Invokes the notificator of group g, if it has one, and goes on with fs.
Notify(g, result, fs) ==
  IF g.id \in Sends
  THEN /\ notices' = [notices EXCEPT ![g.id] = Append(@, result)]
       /\ Call(<<Notificator(g.id, result)>> \o fs)
  ELSE Call(fs) /\ UNCHANGED notices

\* init_write_if_necessary() and init_write()
InitWrite ==
  /\ Top("init_write")
  /\ IF Transmitting(conn.out) \/ conn.queue = <<>> THEN Return /\ UNCHANGED conn
     ELSE /\ conn' = [conn EXCEPT !.out = StartNextWriteGroup(@, Head(conn.queue)),
                                  !.queue = Tail(@)]
          /\ Call(<<Frame("write_ctx")>>)
  /\ UNCHANGED <<timer, env, hist>>

\* The operation after the last item of the group is none; a group of two
\* buffers makes one gather write.
HandleCurrentWriteCtx ==
  /\ Top("write_ctx")
  /\ IF NextOperation(conn.out) = "trivial"
     THEN /\ conn' = [conn EXCEPT !.out = ExtractNextWriteOperation(@),
                                  !.wr = StartOp(conn, "write")]
          /\ Return /\ UNCHANGED notices
     ELSE Notify(conn.out.wg, "ok", <<Frame("finish_group")>>) /\ UNCHANGED conn
  /\ UNCHANGED <<timer, env, told, wire>>

FinishWriteGroup ==
  /\ Top("finish_group")
  /\ conn' = [conn EXCEPT !.out = ResetWriteGroup(@)]
  /\ Call(<<Frame("init_write")>>)
  /\ UNCHANGED <<timer, env, hist>>

AfterWrite ==
  /\ stack = <<>> /\ conn.wr.st \in {"ok", "error"}
  /\ conn' = [conn EXCEPT !.wr = NoOp]
  /\ stack' = IF conn.wr.st = "ok" THEN <<Frame("write_ctx")>>
              ELSE <<Trigger("connection_lost"), Frame("fail_group")>>
  /\ UNCHANGED <<timer, env, hist>>

FailGroup ==
  /\ Top("fail_group")
  /\ Notify(conn.out.wg, "error", <<Frame("group_failed")>>)
  /\ UNCHANGED <<conn, timer, env, told, wire>>

\* Mutant: the failed group stays the current one.
GroupFailedKeepsGroup ==
  /\ Top("group_failed") /\ Return
  /\ UNCHANGED <<conn, timer, env, hist>>

GroupFailed ==
  /\ Top("group_failed") /\ Return
  /\ conn' = [conn EXCEPT !.out = FailWriteGroup(@)]
  /\ UNCHANGED <<timer, env, hist>>

NotificatorReturns ==
  /\ Top("notificator") /\ Return
  /\ UNCHANGED <<conn, timer, env, hist>>

\* The group is reset and the exception goes on to the try block of
\* handle_current_write_ctx() or of after_write(); it is swallowed where the
\* group was not started.
NotificatorThrows ==
  /\ NotifThrows /\ Top("notificator")
  /\ IF stack[1].res \in {"ok", "error"}
     THEN /\ conn' = [conn EXCEPT !.out = ResetWriteGroup(@)]
          /\ stack' = (IF stack[1].res = "ok" THEN <<Trigger("unexpected_condition")>>
                                              ELSE <<>>) \o SubSeq(stack, 3, Len(stack))
     ELSE Return /\ UNCHANGED conn
  /\ UNCHANGED <<timer, env, hist>>

-----------------------------------------------------------------------------
(* Closing *)

\* Mutants: the close frame is sent each time, or is queued and not written.
CloseToPeerAlways(c) ==
  [c EXCEPT !.toPeer = FALSE, !.queue = Append(@, Group(OwnClose, TRUE, 2))]
CloseToPeerFramesNoWrite(c, then) ==
  IF c.toPeer THEN <<Frame("disable_write")>> \o then ELSE <<>>

\* m_close_frame_to_peer.run_if_first() with send_close_frame_to_peer(): the
\* change of the members, and the frames, then included, that follow it.
CloseToPeer(c) ==
  IF c.toPeer THEN [c EXCEPT !.toPeer = FALSE,
                             !.queue = Append(@, Group(OwnClose, TRUE, 2))]
  ELSE c
CloseToPeerFrames(c, then) ==
  IF c.toPeer THEN <<Frame("init_write"), Frame("disable_write")>> \o then ELSE <<>>

DisableWrite ==
  /\ Top("disable_write") /\ Return
  /\ conn' = [conn EXCEPT !.writable = FALSE]
  /\ UNCHANGED <<timer, env, hist>>

\* Mutant: the deadline of the wait is not set.
WaitCloseFrameForever(c) == [c EXCEPT !.rstate = "only_close"]

WaitCloseFrame(c) == [c EXCEPT !.rstate = "only_close", !.wait = TRUE]

StartWaitingCloseFrameOnly ==
  /\ Top("wait_close") /\ Return
  /\ conn' = WaitCloseFrame(conn)
  /\ UNCHANGED <<timer, env, hist>>

CloseNow ==
  /\ Top("close_impl") /\ Return
  /\ conn' = CloseImpl(conn) /\ Hangup
  /\ UNCHANGED <<timer, user, hist>>

\* Mutant: user code is not told.
TriggerCloseOnly ==
  /\ Top("trigger_error_and_close")
  /\ Call(<<Frame("close_impl")>>)
  /\ UNCHANGED <<conn, timer, env, hist>>

TriggerErrorAndClose ==
  /\ Top("trigger_error_and_close")
  /\ Call(<<CloseHandler(stack[1].code), Frame("close_impl")>>)
  /\ UNCHANGED <<conn, timer, env, hist>>

\* call_message_handler(): the handler is called while ws_t exists and the
\* connection knows it.
CallMessageHandler(m, fs) ==
  IF conn.weak /\ handle # "gone"
  THEN told' = Append(told, m) /\ Call(<<Frame("handler")>> \o fs)
  ELSE Call(fs) /\ UNCHANGED told

CallCloseHandlerIfNecessary ==
  /\ Top("close_handler")
  /\ conn' = [conn EXCEPT !.toUser = FALSE]
  /\ IF conn.toUser THEN CallMessageHandler(stack[1].code, <<>>)
                    ELSE Return /\ UNCHANGED told
  /\ UNCHANGED <<timer, env, wire, notices>>

HandlerReturns ==
  /\ Top("handler") /\ Return
  /\ UNCHANGED <<conn, timer, env, hist>>

-----------------------------------------------------------------------------
(* Input *)

InitRead ==
  /\ Top("init_read")
  /\ timer' = "armed"
  /\ conn' = [conn EXCEPT !.weak = TRUE, !.rstate = "any"]
  /\ Call(<<Frame("read_header")>>)
  /\ UNCHANGED <<env, hist>>

StartReadHeader ==
  /\ Top("read_header")
  /\ IF conn.buf = <<>>
     THEN conn' = [conn EXCEPT !.rest = 0, !.rd = StartOp(conn, "header")] /\ Return
     ELSE conn' = [conn EXCEPT !.rest = 0] /\ Call(<<Frame("consume_header")>>)
  /\ UNCHANGED <<timer, env, hist>>

AfterRead ==
  /\ stack = <<>> /\ conn.rd.st \in {"ok", "error"}
  /\ IF conn.rd.st = "error"
     THEN /\ conn' = [conn EXCEPT !.rd = NoOp]
          /\ stack' = <<Trigger("connection_lost")>>
     ELSE IF conn.rd.what = "header"
     THEN /\ conn' = [conn EXCEPT !.rd = NoOp, !.buf = conn.rd.data]
          /\ stack' = <<Frame("consume_header")>>
     ELSE IF conn.rd.what = "payload"
     THEN /\ conn' = [conn EXCEPT !.rd = NoOp]
          /\ stack' = <<Payload(Bytes(conn.rd.data))>>
     ELSE /\ conn' = [conn EXCEPT !.rd = NoOp, !.rest = @ - Len(conn.rd.data)]
          /\ stack' = <<Frame("skip_payload")>>
  /\ UNCHANGED <<timer, env, hist>>

\* handle_invalid_payload()
InvalidConn(c) == IF c.rstate = "any" THEN CloseToPeer(c) ELSE c
InvalidFrames(c, verdict) ==
  IF verdict = "invalid_close_code"
  THEN IF c.rstate = "any"
       THEN CloseToPeerFrames(c, <<>>) \o <<CloseHandler("protocol_error")>>
       ELSE <<Frame("close_impl")>>
  ELSE IF c.rstate = "any"
       THEN CloseToPeerFrames(c, <<Frame("wait_close")>>)
            \o <<CloseHandler("invalid_message_data")>>
       ELSE <<>>

\* consume_header_from_buffer(), handle_parsed_header() and
\* handle_parsed_and_valid_header().  A bad header is answered like a bad
\* close code.
ConsumeHeader ==
  /\ Top("consume_header")
  /\ LET hdr   == Head(conn.buf).hdr
         after == Tail(conn.buf)
         n     == IF Len(after) < hdr.len THEN Len(after) ELSE hdr.len
         c     == [conn EXCEPT !.msg = hdr, !.val = ProcessNewFrame(@, hdr),
                               !.rest = hdr.len, !.buf = SubSeq(after, n + 1, Len(after))]
     IN  IF c.val.vstate # "frame_header_is_valid"
         THEN /\ conn' = InvalidConn([c EXCEPT !.buf = after])
              /\ Call(InvalidFrames(c, "invalid_close_code"))
         ELSE /\ conn' = c
              /\ Call(IF hdr.len = 0 THEN <<Frame("on_message")>>
                      ELSE <<Payload(Bytes(SubSeq(after, 1, n)))>>)
  /\ UNCHANGED <<timer, env, hist>>

\* validate_payload_part() and what follows it in after_read_payload().
ValidatePayloadPart ==
  /\ Top("payload")
  /\ LET part == stack[1].part
         c    == [conn EXCEPT !.val = ProcessNextPayloadPart(@, part),
                              !.rest = @ - Len(part)]
     IN  IF c.val.vstate = "payload_part_is_valid"
         THEN IF c.rest = 0 THEN conn' = c /\ Call(<<Frame("on_message")>>)
              ELSE conn' = [c EXCEPT !.rd = StartOp(c, "payload")] /\ Return
         ELSE /\ conn' = InvalidConn(c)
              /\ Call(InvalidFrames(c, c.val.vstate)
                      \o IF c.val.vstate = "incorrect_utf8_data"
                         THEN <<Frame("reset_validator"), Frame("skip_payload")>>
                         ELSE <<>>)
  /\ UNCHANGED <<timer, env, hist>>

\* Mutant: the validator is left in the middle of the bad frame.
KeepProtocolValidator ==
  /\ Top("reset_validator") /\ Return
  /\ UNCHANGED <<conn, timer, env, hist>>

ResetProtocolValidator ==
  /\ Top("reset_validator") /\ Return
  /\ conn' = [conn EXCEPT !.val = ResetValidator(@)]
  /\ UNCHANGED <<timer, env, hist>>

\* Reads the rest of a payload nobody looks at.
SkipPayload ==
  /\ Top("skip_payload")
  /\ IF conn.rest = 0 THEN Call(<<Frame("read_header")>>) /\ UNCHANGED conn
     ELSE Return /\ conn' = [conn EXCEPT !.rd = StartOp(conn, "skip")]
  /\ UNCHANGED <<timer, env, hist>>

\* call_handler_on_current_message().  cancel() comes too late for a timer
\* that has expired already: its check runs, and may schedule the next one.
OnMessage ==
  /\ Top("on_message")
  /\ LET verdict == FinishVerdict(conn.val)
         c       == [conn EXCEPT !.val = FinishFrame(@)]
         close   == conn.msg.opcode = "close"
     IN  IF verdict # "frame_is_valid"
         THEN /\ conn' = InvalidConn(c) /\ Call(InvalidFrames(c, verdict))
              /\ UNCHANGED <<timer, told>>
         ELSE IF c.rstate = "any"
         THEN /\ UNCHANGED timer
              /\ IF close
                 THEN /\ conn' = [CloseToPeer(c) EXCEPT !.toUser = FALSE]
                      /\ Call(CloseToPeerFrames(c, <<>>) \o <<Frame("peer_closed")>>)
                      /\ UNCHANGED told
                 ELSE conn' = c /\ CallMessageHandler("message", <<Frame("go_on")>>)
         ELSE /\ conn' = IF close THEN CloseImpl(c) ELSE c
              /\ timer' \in IF close THEN {"off", timer} ELSE {timer}
              /\ Call(IF close THEN <<>> ELSE <<Frame("read_header")>>)
              /\ UNCHANGED told
  /\ Hangup
  /\ UNCHANGED <<user, wire, notices>>

\* The rest of call_handler_on_current_message() once the close frame of the
\* peer is answered.
PeerClosed ==
  /\ Top("peer_closed")
  /\ conn' = [conn EXCEPT !.rstate = "nothing"]
  /\ CallMessageHandler("peer_close", <<Frame("go_on")>>)
  /\ UNCHANGED <<timer, env, wire, notices>>

GoOnReading ==
  /\ Top("go_on")
  /\ Call(IF conn.rstate = "nothing" THEN <<>> ELSE <<Frame("read_header")>>)
  /\ UNCHANGED <<conn, timer, env, hist>>

-----------------------------------------------------------------------------
(* What user code asks for, on the strand *)

RunPosted ==
  /\ stack = <<>> /\ posted # <<>>
  /\ stack' = <<Head(posted)>> /\ posted' = Tail(posted)
  /\ UNCHANGED <<conn, timer, handle, used, net, dead, hist>>

\* write_data() and write_data_impl(); a group that is dropped is destroyed.
WriteDataImpl ==
  /\ Top("write_data")
  /\ LET g == stack[1].g
         c == IF g.close THEN WaitCloseFrame([conn EXCEPT !.toPeer = FALSE,
                                             !.toUser = FALSE, !.writable = FALSE])
              ELSE conn
     IN  IF conn.writable /\ conn.open
         THEN /\ conn' = [c EXCEPT !.queue = Append(@, g)]
              /\ Call(<<Frame("init_write")>>) /\ UNCHANGED notices
         ELSE /\ Notify(g, IF conn.writable THEN "not_executed" ELSE "destroyed", <<>>)
              /\ UNCHANGED conn
  /\ UNCHANGED <<timer, env, told, wire>>

\* Mutant: close messages to the user stay enabled.
ShutdownTellsUser ==
  /\ Top("shutdown")
  /\ conn' = CloseToPeer(conn)
  /\ Call(CloseToPeerFrames(conn, <<Frame("wait_close")>>))
  /\ UNCHANGED <<timer, env, hist>>

\* shutdown() with graceful_close()
Shutdown ==
  /\ Top("shutdown")
  /\ conn' = [CloseToPeer(conn) EXCEPT !.toUser = FALSE]
  /\ Call(CloseToPeerFrames(conn, <<Frame("wait_close")>>))
  /\ UNCHANGED <<timer, env, hist>>

Kill ==
  /\ Top("kill") /\ Return
  /\ conn' = CloseImpl([conn EXCEPT !.toUser = FALSE, !.toPeer = FALSE]) /\ Hangup
  /\ UNCHANGED <<timer, user, hist>>

-----------------------------------------------------------------------------
(* User code: ws_t *)

\* asio dispatch(): at once on the strand, posted from elsewhere.
Dispatch(fr) ==
  IF UserCode THEN stack' = <<fr>> \o stack /\ UNCHANGED posted
  ELSE stack = <<>> /\ posted' = Append(posted, fr) /\ UNCHANGED stack

Activate ==
  /\ handle = "owned" /\ ~ used.activated
  /\ used' = [used EXCEPT !.activated = TRUE]
  /\ Dispatch(Frame("init_read"))
  /\ UNCHANGED <<conn, timer, handle, net, dead, hist>>

\* A close frame moves the connection out of ws_t; afterwards send_message()
\* throws.
SendMessage(close) ==
  /\ handle = "owned" /\ used.sends < MaxSends
  /\ used' = [used EXCEPT !.sends = @ + 1]
  /\ handle' = IF close THEN "moved" ELSE handle
  /\ Dispatch(WriteData(Group(used.sends + 1, close, 2)))
  /\ UNCHANGED <<conn, timer, net, dead, hist>>

\* shutdown() and kill() of ws_t
GiveUp(how) ==
  /\ handle = "owned" /\ handle' = "moved"
  /\ Dispatch(Frame(how))
  /\ UNCHANGED <<conn, timer, used, net, dead, hist>>

\* The destructor of ws_t
DropHandle ==
  /\ handle # "gone" /\ handle' = "gone"
  /\ IF handle = "owned" THEN Dispatch(Frame("shutdown")) ELSE UNCHANGED <<stack, posted>>
  /\ UNCHANGED <<conn, timer, used, net, dead, hist>>

-----------------------------------------------------------------------------
(* The peer, the kernel and time *)
(* Between two frames of a handler nothing of this is noticed, so it        *)
(* happens between handlers or while user code runs.                        *)

Quiet == stack = <<>> \/ UserCode

PeerSends ==
  /\ net.left # <<>> /\ conn.rd.st = "running" /\ stack = <<>>
  /\ net' = [left |-> Tail(net.left), tokens |-> net.tokens \o Tokens(Head(net.left))]
  /\ UNCHANGED <<conn, timer, stack, posted, handle, used, dead, hist>>

ReadCompletes ==
  /\ conn.rd.st = "running" /\ Quiet
  /\ \E n \in 1 .. Len(net.tokens) :
       /\ n <= IF conn.rd.what = "header" THEN BufTokens ELSE conn.rest
       /\ conn' = [conn EXCEPT !.rd.st = "ok", !.rd.data = SubSeq(net.tokens, 1, n)]
       /\ net' = [net EXCEPT !.tokens = SubSeq(@, n + 1, Len(@))]
  /\ UNCHANGED <<timer, stack, posted, handle, used, dead, hist>>

ReadFails ==
  /\ conn.rd.st = "running" /\ stack = <<>>
  /\ conn' = [conn EXCEPT !.rd.st = "error"]
  /\ UNCHANGED <<timer, stack, env, hist>>

WriteCompletes ==
  /\ conn.wr.st = "running" /\ Quiet
  /\ conn' = [conn EXCEPT !.wr.st = "ok"]
  /\ wire' = Append(wire, conn.out.wg)
  /\ UNCHANGED <<timer, stack, env, told, notices>>

WriteFails ==
  /\ conn.wr.st = "running" /\ stack = <<>>
  /\ conn' = [conn EXCEPT !.wr.st = "error"]
  /\ UNCHANGED <<timer, stack, env, hist>>

\* check_timeout() with check_timeout_impl(), when a deadline has passed; a
\* check that finds none schedules the next one and changes nothing.
WriteTimedOut ==
  /\ timer = "armed" /\ ~ dead /\ stack = <<>> /\ Transmitting(conn.out)
  /\ timer' = "off"
  /\ conn' = [conn EXCEPT !.toPeer = FALSE]
  /\ stack' = <<CloseHandler("unexpected_condition"), Frame("close_impl")>>
  /\ UNCHANGED <<env, hist>>

WaitTimedOut ==
  /\ timer = "armed" /\ ~ dead /\ stack = <<>> /\ conn.wait
  /\ timer' = "off" /\ conn' = CloseImpl(conn) /\ Hangup
  /\ UNCHANGED <<stack, user, hist>>

\* The last reference to the connection is gone: ws_t has none, no handler and
\* no operation on the socket holds one.  The groups left are destroyed.
Destroy ==
  /\ ~ dead /\ handle # "owned" /\ stack = <<>> /\ posted = <<>>
  /\ conn.rd.st = "none" /\ conn.wr.st = "none"
  /\ dead' = TRUE
  /\ conn' = [CloseImpl(conn) EXCEPT !.queue = <<>>, !.out = NewOutput]
  /\ LET left == {conn.queue[i].id : i \in DOMAIN conn.queue}
                 \union (IF Transmitting(conn.out) THEN {conn.out.wg.id} ELSE {})
     IN  notices' = [n \in Sends |-> IF n \in left THEN Append(notices[n], "destroyed")
                                     ELSE notices[n]]
  /\ Hangup
  /\ UNCHANGED <<timer, stack, posted, handle, used, told, wire>>

-----------------------------------------------------------------------------
Strand ==
  \/ InitWrite \/ HandleCurrentWriteCtx \/ FinishWriteGroup \/ FailGroup \/ GroupFailed
  \/ DisableWrite \/ StartWaitingCloseFrameOnly \/ CloseNow \/ TriggerErrorAndClose
  \/ CallCloseHandlerIfNecessary \/ InitRead \/ StartReadHeader \/ ConsumeHeader
  \/ ValidatePayloadPart \/ ResetProtocolValidator \/ SkipPayload \/ OnMessage
  \/ PeerClosed \/ GoOnReading \/ WriteDataImpl \/ Shutdown \/ Kill

User ==
  \/ Activate
  \/ \E close \in BOOLEAN : SendMessage(close)
  \/ \E how \in {"shutdown", "kill"} : GiveUp(how)
  \/ DropHandle

Peer ==
  \/ PeerSends \/ ReadCompletes \/ ReadFails \/ WriteCompletes \/ WriteFails

Time == WriteTimedOut \/ WaitTimedOut

Returns == HandlerReturns \/ NotificatorReturns

Next ==
  \/ Strand \/ Returns \/ NotificatorThrows \/ RunPosted \/ AfterRead \/ AfterWrite
  \/ Destroy \/ User \/ Peer \/ Time

Spec == Init /\ [][Next]_vars

\* io_context runs what is queued, timers expire, a deadline that stays set
\* is found to have passed by a check, and user code returns; the
\* peer need neither send nor read anything, and user code need not act.
FairSpec ==
  /\ Spec
  /\ WF_vars(Strand \/ Returns \/ RunPosted \/ AfterRead \/ AfterWrite \/ Destroy)
  /\ WF_vars(Time)

-----------------------------------------------------------------------------
(* Properties *)

Code == {"peer_close", "connection_lost", "protocol_error", "invalid_message_data",
         "unexpected_condition"}

\* Every variable has its type.
TypeOK ==
  /\ conn.open \in BOOLEAN /\ conn.writable \in BOOLEAN
  /\ conn.rstate \in {"nothing", "any", "only_close"}
  /\ conn.rd.st \in {"none", "running", "ok", "error"}
  /\ conn.wr.st \in {"none", "running", "ok", "error"}
  /\ conn.rest \in Nat
  /\ timer \in {"off", "armed"} /\ handle \in {"owned", "moved", "gone"}
  /\ used.sends \in 0 .. MaxSends
  /\ Range(told) \subseteq Code \union {"message"}
  /\ \A n \in Sends : Range(notices[n]) \subseteq {"ok", "error", "not_executed", "destroyed"}

\* Nothing is written after a close frame, neither a second close frame nor a
\* message, whoever closes: the peer, user code in or outside of a handler, or
\* the connection itself because of what the peer sent.
NothingAfterCloseFrame ==
  \A i \in 1 .. Len(wire) - 1 : ~ wire[i].close

\* A write notificator is invoked once at most, and once the connection is
\* destroyed it was invoked for every message given to send_message().
NotifiedOnce ==
  \A n \in Sends : /\ Len(notices[n]) <= 1
                   /\ dead /\ n <= used.sends => Len(notices[n]) = 1

\* The variables have their types, and process_new_frame() is never called while the validator is in the middle of
\* a frame, where it would throw: every way out of a frame, bad payloads
\* included, has finished the frame, reset the validator or stopped reading.
ValidatorReady ==
  /\ TypeOK
  /\ Top("consume_header") => ~ NewFrameThrows(conn.val)

\* When the socket of an activated websocket is closed while user code still
\* owns it, the message handler was called with a close message before.
ClosingIsReported ==
  [][conn.open /\ ~ conn'.open /\ conn.weak /\ handle = "owned"
     => Range(told') \intersect Code # {}]_vars

\* The request of user code to close has been executed.
Asked ==
  /\ handle # "owned"
  /\ \A fr \in Range(posted) \union Range(stack) :
       /\ fr.f \notin {"shutdown", "kill"}
       /\ fr.f = "write_data" => ~ fr.g.close

\* After user code has closed or shut down the websocket the message handler is
\* not called again, frames and errors of the peer notwithstanding, while the
\* connection waits for the close frame of the peer on an open socket.
QuietAfterClose ==
  [][Asked /\ conn.open /\ conn.rstate = "only_close" => told' = told]_vars

\* An activated websocket user code has given up is destroyed at last, and its
\* socket with it, whatever the peer does or fails to do.
GivenUpIsDestroyed ==
  handle # "owned" /\ conn.weak ~> dead

\* A close frame of the peer is answered by one, unless the socket is closed.
PeerCloseIsAnswered ==
  Top("peer_closed") ~> (~ conn.open \/ \E i \in DOMAIN wire : wire[i].close)

=============================================================================
