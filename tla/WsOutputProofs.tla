--------------------------- MODULE WsOutputProofs ---------------------------
(***************************************************************************)
(* What a WebSocket connection writes: a write group has one owner at a    *)
(* time, a socket operation or a frame of the running handler, and nothing *)
(* follows a close frame.                                                  *)
(***************************************************************************)
EXTENDS WsStackProofs

-----------------------------------------------------------------------------
(* Steps that may send a close frame *)

CloseGroup == Group(OwnClose, TRUE, 2)

\* What these steps do to the output: nothing, closing the socket included, or they queue
\* the close frame and go on to write it and to forbid writing.
ClosingOutput ==
  /\ conn'.out = conn.out /\ conn'.writable = conn.writable
  /\ conn'.rd \in {conn.rd, CloseImpl(conn).rd, StartOp(conn, "payload")}
  /\ \/ /\ conn'.queue = conn.queue /\ conn'.toPeer = conn.toPeer
        /\ \/ conn'.wr = conn.wr /\ conn'.open = conn.open
           \/ ~conn'.open /\ conn'.wr = CloseImpl(conn).wr
     \/ /\ conn.toPeer /\ ~conn'.toPeer /\ conn'.queue = Append(conn.queue, CloseGroup)
        /\ conn'.wr = conn.wr /\ conn'.open = conn.open
        /\ First(stack') = "init_write" /\ After(stack', 1) = "disable_write"

\* The members of the output and what the reader is at, the same in two states.
SameOutput(c, d) ==
  /\ c.out = d.out /\ c.writable = d.writable /\ c.queue = d.queue /\ c.toPeer = d.toPeer
  /\ c.wr = d.wr /\ c.rd = d.rd /\ c.open = d.open /\ c.rstate = d.rstate

\* The first frames of a call are the first frames of the stack.
LEMMA CallBegins ==
  ASSUME StackOK, NEW fs \in Seq(StackFrames), NEW gs \in Seq(StackFrames),
         Called(fs \o gs), Len(fs) > 1
  PROVE  First(stack') = fs[1].f /\ After(stack', 1) = fs[2].f
<1> DEFINE hs == fs \o gs
<1>1. /\ hs \in Seq(StackFrames) /\ Len(hs) = Len(fs) + Len(gs)
      /\ \A k \in 1 .. Len(fs) + Len(gs) : hs[k] = IF k <= Len(fs) THEN fs[k] ELSE gs[k - Len(fs)]
  BY ConcatProperties
<1>2. Len(fs) \in Nat /\ Len(gs) \in Nat
  OBVIOUS
<1>3. hs[1] = fs[1] /\ hs[2] = fs[2] /\ Len(hs) > 1 /\ Len(hs) \in Nat
  BY <1>1, <1>2
<1> DEFINE s == stack
           r == stack'
<1>4. s \in Seq(StackFrames) /\ s # <<>> /\ r = hs \o Tail(s)
  BY DEF StackOK, Called
<1> HIDE DEF hs, s, r
<1>8. hs \in Seq(StackFrames)
  BY <1>1
<1>5. /\ r \in Seq(StackFrames) /\ Len(r) = Len(hs) + Len(s) - 1
      /\ \A k \in 1 .. Len(hs) : r[k] = hs[k]
  BY <1>4, <1>8, CallStack
<1>6. Len(s) \in Nat \ {0}
  BY <1>4
<1>7. Len(r) > 1 /\ r[1] = fs[1] /\ r[2] = fs[2] /\ r # <<>>
  BY <1>3, <1>5, <1>6
<1> QED
  BY <1>7 DEF First, After, r

\* handle_invalid_payload()
LEMMA InvalidOutput ==
  ASSUME StackOK, conn \in Conns(conn.val), NEW v, NEW c \in Conns(v), NEW w, NEW d \in Conns(w),
         SameOutput(c, conn), SameOutput(d, conn), conn' = InvalidConn(d), NEW verdict,
         NEW gs \in Seq(StackFrames), Called(InvalidFrames(c, verdict) \o gs)
  PROVE  ClosingOutput
<1>1. CASE conn.rstate = "any" /\ conn.toPeer
  <2> DEFINE fs == InvalidFrames(c, verdict)
             iw == Frame("init_write")
             dw == Frame("disable_write")
             wc == Frame("wait_close")
             pe == CloseHandler("protocol_error")
             im == CloseHandler("invalid_message_data")
  <2>1. /\ iw \in StackFrames /\ dw \in StackFrames /\ wc \in StackFrames /\ pe \in StackFrames
        /\ im \in StackFrames /\ iw.f = "init_write" /\ dw.f = "disable_write"
    BY FrameFacts DEF SimpleFrames, Code
  <2>2. fs = <<iw, dw, pe>> \/ fs = <<iw, dw, wc, im>>
    <3>1. c.rstate = "any" /\ c.toPeer
      BY <1>1 DEF SameOutput
    <3>2. CASE verdict = "invalid_close_code"
      BY <3>1, <3>2, CloseShapes
    <3>3. CASE verdict # "invalid_close_code"
      BY <3>1, <3>3, CloseShapes
    <3> QED
      BY <3>2, <3>3
  <2> HIDE DEF iw, dw, wc, pe, im, fs
  <2>3. fs \in Seq(StackFrames) /\ Len(fs) > 1 /\ fs[1] = iw /\ fs[2] = dw
    <3>1. CASE fs = <<iw, dw, pe>>
      BY <2>1, <3>1
    <3>2. CASE fs = <<iw, dw, wc, im>>
      BY <2>1, <3>2
    <3> QED
      BY <2>2, <3>1, <3>2
  <2>4. First(stack') = "init_write" /\ After(stack', 1) = "disable_write"
    BY <2>1, <2>3, CallBegins DEF fs
  <2>5. d.toPeer /\ conn' = CloseToPeer(d)
    BY <1>1 DEF SameOutput, InvalidConn
  <2>6. conn' = [d EXCEPT !.toPeer = FALSE, !.queue = Append(d.queue, CloseGroup)]
    BY <2>5 DEF CloseToPeer, CloseGroup
  <2> QED
    BY <1>1, <2>4, <2>6 DEF ClosingOutput, SameOutput, Conns
<1>2. CASE ~(conn.rstate = "any" /\ conn.toPeer)
  <2>1. conn' = d
    BY <1>2 DEF SameOutput, InvalidConn, CloseToPeer
  <2> QED
    BY <2>1 DEF ClosingOutput, SameOutput
<1> QED
  BY <1>1, <1>2

\* A header is parsed, a part of a payload is read, a frame is complete, shutdown() runs.
LEMMA ClosingSteps ==
  ASSUME Stepping, ConsumeHeader \/ ValidatePayloadPart \/ OnMessage \/ Shutdown
  PROVE  ClosingOutput /\ (Shutdown \/ Brings(FrameKinds))
<1>1. conn \in Conns(conn.val) /\ StackOK /\ <<>> \in Seq(StackFrames)
  BY DEF Stepping, TypeInv, ConnOK
<1>2. stack # <<>>
  BY DEF ConsumeHeader, ValidatePayloadPart, OnMessage, Shutdown, Top
<1>3. ASSUME SameOutput(conn', conn) PROVE ClosingOutput
  BY <1>3 DEF SameOutput, ClosingOutput
<1>4. ASSUME NEW v, NEW c \in Conns(v), NEW verdict, Called(InvalidFrames(c, verdict))
      PROVE  Called(InvalidFrames(c, verdict) \o <<>>) /\ Brings(FrameKinds)
  BY <1>2, <1>4, InvalidBrings
<1>9. ASSUME NEW a \in StackFrames, Called(<<a>>),
             a.f \in {"on_message", "payload", "go_on", "read_header", "peer_closed"}
      PROVE  Brings(FrameKinds)
  BY <1>9, BringsCalled DEF FrameKinds
<1>10. Called(<<>>) \/ stack' = Tail(stack) => Brings(FrameKinds)
  BY <1>1, <1>2, PopStack, BringsCalled DEF Called, StackOK
<1>11. /\ Frame("on_message") \in StackFrames /\ Frame("on_message").f = "on_message"
       /\ Frame("go_on") \in StackFrames /\ Frame("go_on").f = "go_on"
       /\ Frame("read_header") \in StackFrames /\ Frame("read_header").f = "read_header"
       /\ Frame("peer_closed") \in StackFrames /\ Frame("peer_closed").f = "peer_closed"
       /\ Frame("handler") \in StackFrames /\ Frame("handler").f = "handler"
  BY FrameFacts DEF SimpleFrames
<1>5. CASE ConsumeHeader
  <2> DEFINE hdr   == Head(conn.buf).hdr
             after == Tail(conn.buf)
             n     == IF Len(after) < hdr.len THEN Len(after) ELSE hdr.len
             v     == ProcessNewFrame(conn.val, hdr)
             rest  == SubSeq(after, n + 1, Len(after))
             c1    == [conn EXCEPT !.msg = hdr]
             c2    == [c1 EXCEPT !.val = v]
             c3    == [c2 EXCEPT !.rest = hdr.len]
             c     == [c3 EXCEPT !.buf = rest]
             d     == [c EXCEPT !.buf = after]
  <2>1. conn.buf # <<>> /\ conn.buf \in Seq(TokenSet)
    BY <1>1, <1>5 DEF ConsumeHeader, Stepping, BufOK, Conns
  <2>2. Head(conn.buf) \in TokenSet /\ after \in Seq(TokenSet)
    BY <2>1
  <2>3. hdr \in Header /\ hdr.len \in Nat /\ Len(after) \in Nat /\ hdr.len \in Int
    BY <2>2 DEF TokenSet, Header
  <2>4. n \in Nat /\ n <= Len(after) /\ Len(after) <= Len(after)
    BY <2>3
  <2>13. ASSUME Called(<<Payload(Bytes(SubSeq(after, 1, n)))>>) PROVE Brings(FrameKinds)
    <3> HIDE DEF hdr, after, n
    <3> DEFINE b == Bytes(SubSeq(after, 1, n))
    <3>1. SubSeq(after, 0 + 1, n) \in Seq(TokenSet)
      BY <2>2, <2>4, TokenFacts
    <3>2. SubSeq(after, 1, n) \in Seq(TokenSet)
      BY <3>1
    <3>3. b \in Seq(Byte) /\ Called(<<Payload(b)>>)
      BY <2>13, <3>2, TokenFacts, Zenon
    <3> HIDE DEF b
    <3> QED
      BY <1>9, <3>3, FrameFacts
  <2>5. \/ conn' = c /\ (Called(<<Frame("on_message")>>)
                        \/ Called(<<Payload(Bytes(SubSeq(after, 1, n)))>>))
        \/ conn' = InvalidConn(d) /\ Called(InvalidFrames(c, "invalid_close_code"))
    <3> DEFINE e == [conn EXCEPT !.msg = hdr, !.val = ProcessNewFrame(@, hdr),
                                 !.rest = hdr.len, !.buf = SubSeq(after, n + 1, Len(after))]
    <3>1. \/ conn' = e /\ (Called(<<Frame("on_message")>>)
                            \/ Called(<<Payload(Bytes(SubSeq(after, 1, n)))>>))
          \/ /\ conn' = InvalidConn([e EXCEPT !.buf = after])
             /\ Called(InvalidFrames(e, "invalid_close_code"))
      BY <1>2, <1>5, Zenon DEF ConsumeHeader, Call, Called
    <3>2. e = c
      BY <1>1 DEF Conns
    <3> HIDE DEF e, c
    <3> QED
      BY <3>1, <3>2
  <2> HIDE DEF hdr, after, n, v
  <2>6. rest \in Seq(TokenSet)
    BY <2>2, <2>3, <2>4, TokenFacts
  <2> HIDE DEF rest
  <2>7. c1 \in Conns(conn.val) /\ SameOutput(c1, conn)
    <3>1. c1 \in Conns(conn.val)
      BY <1>1, <2>3, ConnUpdates
    <3> QED
      BY <1>1, <3>1 DEF SameOutput, Conns
  <2> HIDE DEF c1
  <2>8. c2 \in Conns(v) /\ SameOutput(c2, conn)
    <3>1. c2 \in Conns(v)
      BY <2>7, ConnUpdates
    <3> QED
      BY <2>7, <3>1 DEF SameOutput, Conns
  <2> HIDE DEF c2
  <2>9. c3 \in Conns(v) /\ SameOutput(c3, conn)
    <3>1. c3 \in Conns(v)
      BY <2>3, <2>8, ConnUpdates
    <3> QED
      BY <2>8, <3>1 DEF SameOutput, Conns
  <2> HIDE DEF c3
  <2>10. c \in Conns(v) /\ SameOutput(c, conn)
    <3>1. c \in Conns(v)
      BY <2>6, <2>9, ConnUpdates
    <3> QED
      BY <2>9, <3>1 DEF SameOutput, Conns
  <2> HIDE DEF c
  <2>11. d \in Conns(v) /\ SameOutput(d, conn)
    <3>1. d \in Conns(v)
      BY <2>2, <2>10, ConnUpdates
    <3> QED
      BY <2>10, <3>1 DEF SameOutput, Conns
  <2> HIDE DEF d
  <2>12. CASE conn' = InvalidConn(d) /\ Called(InvalidFrames(c, "invalid_close_code"))
    BY <1>1, <1>4, <2>10, <2>11, <2>12, InvalidOutput, Zenon
  <2> QED
    BY <1>3, <1>9, <1>11, <2>5, <2>10, <2>12, <2>13
<1>6. CASE ValidatePayloadPart
  <2> DEFINE part == stack[1].part
             v    == ProcessNextPayloadPart(conn.val, part)
             c    == [conn EXCEPT !.val = v, !.rest = @ - Len(part)]
             fs   == InvalidFrames(c, c.val.vstate)
             more == <<Frame("reset_validator"), Frame("skip_payload")>>
  <2>1. stack[1] \in StackFrames /\ stack[1].f = "payload"
    BY <1>2, <1>6, TopFits DEF ValidatePayloadPart, Top
  <2>2. part \in Seq(Byte)
    BY <2>1, FrameFacts
  <2>3. conn.rest - Len(part) \in Int
    BY <1>1, <2>2, SMTT(30) DEF Conns
  <2>4. \/ conn' = c /\ Called(<<Frame("on_message")>>)
        \/ conn' = [c EXCEPT !.rd = StartOp(c, "payload")] /\ stack' = Tail(stack)
        \/ conn' = InvalidConn(c) /\ Called(fs \o more) /\ c.val.vstate = "incorrect_utf8_data"
        \/ conn' = InvalidConn(c) /\ Called(fs \o <<>>)
    BY <1>2, <1>6, Zenon DEF ValidatePayloadPart, Call, Called, Return
  <2> HIDE DEF part, v
  <2>5. c \in Conns(v) /\ SameOutput(c, conn)
    BY <1>1, <2>3, Zenon DEF Conns, SameOutput
  <2>6. more \in Seq(StackFrames)
    <3>1. Frame("reset_validator") \in StackFrames /\ Frame("skip_payload") \in StackFrames
      BY FrameFacts DEF SimpleFrames
    <3> QED
      BY <3>1
  <2> HIDE DEF c
  <2>7. CASE conn' = InvalidConn(c) /\ Called(fs \o more) /\ c.val.vstate = "incorrect_utf8_data"
    <3>1. Brings(FrameKinds)
      BY <1>2, <2>5, <2>7, InvalidBrings
    <3> HIDE DEF more
    <3> QED
      BY <1>1, <2>5, <2>6, <2>7, <3>1, InvalidOutput
  <2>8. CASE conn' = InvalidConn(c) /\ Called(fs \o <<>>)
    <3>1. Brings(FrameKinds)
      BY <1>2, <2>5, <2>8, InvalidBrings
    <3> QED
      BY <1>1, <2>5, <2>8, <3>1, InvalidOutput, Zenon
  <2>9. CASE conn' = [c EXCEPT !.rd = StartOp(c, "payload")] /\ stack' = Tail(stack)
    <3>1. StartOp(c, "payload") = StartOp(conn, "payload")
      BY <2>5 DEF SameOutput, StartOp
    <3>2. ClosingOutput
      BY <2>5, <2>9, <3>1, Zenon DEF ClosingOutput, SameOutput, Conns
    <3> QED
      BY <1>10, <2>9, <3>2
  <2> QED
    BY <1>3, <1>9, <1>11, <2>4, <2>5, <2>7, <2>8, <2>9
<1>7. CASE OnMessage
  <2> DEFINE v == FinishFrame(conn.val)
             c == [conn EXCEPT !.val = v]
             verdict == FinishVerdict(conn.val)
             pc == Frame("peer_closed")
  <2>1. c \in Conns(v) /\ SameOutput(c, conn)
    <3>1. c \in Conns(v)
      BY <1>1, ConnUpdates
    <3> QED
      BY <1>1, <3>1 DEF SameOutput, Conns
  <2>2. \/ conn' = c /\ (CallMessageHandler("message", <<Frame("go_on")>>)
                        \/ Called(<<Frame("read_header")>>))
        \/ conn' = CloseImpl(c) /\ Called(<<>>)
        \/ conn' = InvalidConn(c) /\ Called(InvalidFrames(c, verdict))
        \/ /\ conn' = [CloseToPeer(c) EXCEPT !.toUser = FALSE]
           /\ Called(CloseToPeerFrames(c, <<>>) \o <<pc>>)
    BY <1>2, <1>7, Zenon DEF OnMessage, Call, Called
  <2> HIDE DEF v, c
  <2>6. CASE conn' = c /\ (CallMessageHandler("message", <<Frame("go_on")>>)
                           \/ Called(<<Frame("read_header")>>))
    <3>1. \/ Called(<<Frame("handler"), Frame("go_on")>>) \/ Called(<<Frame("go_on")>>)
          \/ Called(<<Frame("read_header")>>)
      BY <1>2, <2>6, HandlerCalls
    <3>2. Called(<<Frame("handler"), Frame("go_on")>>) => Brings(FrameKinds)
      BY <1>11, BringsCalled DEF FrameKinds, Owners, WriteFrames, ReadFrames, Reading
    <3> QED
      BY <1>3, <1>9, <1>11, <2>1, <2>6, <3>1, <3>2
  <2>3. CASE conn' = CloseImpl(c) /\ Called(<<>>)
    <3>1. /\ ~conn'.open
          /\ conn' = [c EXCEPT !.open = FALSE, !.rd = CloseImpl(c).rd, !.wr = CloseImpl(c).wr]
      BY <2>1, <2>3, CloseFacts, Zenon
    <3>2. CloseImpl(c).wr = CloseImpl(conn).wr /\ CloseImpl(c).rd = CloseImpl(conn).rd
      BY <1>1, <2>1 DEF CloseImpl, SameOutput, Conns
    <3> QED
      BY <1>10, <2>1, <2>3, <3>1, <3>2, Zenon DEF ClosingOutput, SameOutput, Conns
  <2>4. CASE conn' = InvalidConn(c) /\ Called(InvalidFrames(c, verdict))
    BY <1>1, <1>4, <2>1, <2>4, InvalidOutput, Zenon
  <2>5. CASE /\ conn' = [CloseToPeer(c) EXCEPT !.toUser = FALSE]
             /\ Called(CloseToPeerFrames(c, <<>>) \o <<pc>>)
    <3>1. CASE c.toPeer
      <4> DEFINE iw == Frame("init_write")
                 dw == Frame("disable_write")
                 fs == <<iw, dw, pc>>
      <4>1. /\ iw \in StackFrames /\ iw.f = "init_write" /\ dw \in StackFrames
            /\ dw.f = "disable_write" /\ pc \in StackFrames
        BY FrameFacts DEF SimpleFrames
      <4>2. Called(fs)
        BY <2>1, <2>5, <3>1, CloseShapes, Zenon
      <4>6. pc.f = "peer_closed"
        BY <1>11
      <4> HIDE DEF iw, dw, pc
      <4>7. Brings(FrameKinds)
        <5>1. iw.f \in FrameKinds \ Owners /\ dw.f \in FrameKinds \ Owners /\ pc.f \in FrameKinds
          BY <4>1, <4>6 DEF FrameKinds, ClosingKinds, Owners, WriteFrames, ReadFrames, Reading
        <5> QED
          BY <4>1, <4>2, <5>1, BringsCalled, Zenon
      <4>3. fs \in Seq(StackFrames) /\ Len(fs) > 1 /\ fs[1] = iw /\ fs[2] = dw /\ fs \o <<>> = fs
        BY <4>1, ConcatEmptySeq
      <4> HIDE DEF fs
      <4>4. First(stack') = "init_write" /\ After(stack', 1) = "disable_write"
        BY <1>1, <4>1, <4>2, <4>3, CallBegins, Zenon
      <4>5. conn' = [c EXCEPT !.toPeer = FALSE, !.queue = Append(c.queue, CloseGroup),
                              !.toUser = FALSE]
        BY <2>1, <2>5, <3>1 DEF CloseToPeer, CloseGroup
      <4> QED
        BY <2>1, <3>1, <4>4, <4>5, <4>7 DEF ClosingOutput, SameOutput, Conns
    <3>2. CASE ~c.toPeer
      <4>1. conn' = [c EXCEPT !.toUser = FALSE]
        BY <2>5, <3>2 DEF CloseToPeer
      <4>3. Called(<<pc>>)
        BY <2>1, <2>5, <3>2, CloseShapes, Zenon
      <4>2. SameOutput(conn', conn)
        BY <2>1, <4>1 DEF SameOutput, Conns
      <4> QED
        BY <1>3, <1>9, <1>11, <4>2, <4>3
    <3> QED
      BY <3>1, <3>2
  <2> QED
    BY <2>2, <2>3, <2>4, <2>5, <2>6
<1>8. ASSUME Shutdown PROVE ClosingOutput
  <2> DEFINE wc == Frame("wait_close")
  <2>1. /\ conn' = [CloseToPeer(conn) EXCEPT !.toUser = FALSE]
        /\ Called(CloseToPeerFrames(conn, <<wc>>))
    BY <1>2, <1>8 DEF Shutdown, Call, Called
  <2>2. CASE conn.toPeer
    <3> DEFINE iw == Frame("init_write")
               dw == Frame("disable_write")
               fs == <<iw, dw, wc>>
    <3>1. /\ iw \in StackFrames /\ iw.f = "init_write" /\ dw \in StackFrames
          /\ dw.f = "disable_write" /\ wc \in StackFrames
      BY FrameFacts DEF SimpleFrames
    <3>2. Called(fs)
      BY <1>1, <2>1, <2>2, CloseShapes
    <3> HIDE DEF iw, dw, wc
    <3>3. fs \in Seq(StackFrames) /\ Len(fs) > 1 /\ fs[1] = iw /\ fs[2] = dw /\ fs \o <<>> = fs
      BY <3>1, ConcatEmptySeq
    <3> HIDE DEF fs
    <3>4. First(stack') = "init_write" /\ After(stack', 1) = "disable_write"
      BY <1>1, <3>1, <3>2, <3>3, CallBegins, Zenon
    <3>5. conn' = [conn EXCEPT !.toPeer = FALSE, !.queue = Append(conn.queue, CloseGroup),
                               !.toUser = FALSE]
      BY <1>1, <2>1, <2>2 DEF CloseToPeer, CloseGroup
    <3> QED
      BY <1>1, <2>2, <3>4, <3>5 DEF ClosingOutput, Conns
  <2>3. CASE ~conn.toPeer
    <3>1. conn' = [conn EXCEPT !.toUser = FALSE]
      BY <2>1, <2>3 DEF CloseToPeer
    <3>2. SameOutput(conn', conn)
      BY <1>1, <3>1 DEF SameOutput, Conns
    <3> QED
      BY <1>3, <3>2
  <2> QED
    BY <2>2, <2>3
<1> QED
  BY <1>5, <1>6, <1>7, <1>8

-----------------------------------------------------------------------------
(* What each step calls *)

\* The kinds of the frames each of the simple steps calls.
LEMMA StepCalls ==
  ASSUME Stepping
  PROVE  /\ Shutdown => Brings(ClosingKinds)
         /\ InitWrite => Brings({"write_ctx"})
         /\ HandleCurrentWriteCtx => Brings({"notificator", "finish_group"})
         /\ FinishWriteGroup => Brings({"init_write"})
         /\ FailGroup => Brings({"notificator", "group_failed"})
         /\ TriggerErrorAndClose => Brings({"close_handler", "close_impl"})
         /\ CallCloseHandlerIfNecessary => Brings({"handler"})
         /\ InitRead \/ SkipPayload \/ GoOnReading => Brings({"read_header"})
         /\ StartReadHeader => Brings({"consume_header"})
         /\ PeerClosed => Brings({"handler", "go_on"})
         /\ WriteDataImpl => Brings({"init_write", "notificator"})
         /\ GroupFailed \/ NotificatorReturns \/ HandlerReturns \/ DisableWrite
            \/ StartWaitingCloseFrameOnly \/ CloseNow \/ ResetProtocolValidator \/ Kill
              => Brings({})
<1>1. ASSUME stack # <<>>, stack' = Tail(stack) PROVE Called(<<>>)
  BY <1>1, PopStack DEF Called, Stepping, TypeInv, StackOK
<1>2. ASSUME NEW f \in SimpleFrames, NEW K, f \in K, Called(<<Frame(f)>>) PROVE Brings(K)
  BY <1>2, FrameFacts, BringsCalled
<1>3. ASSUME NEW f \in SimpleFrames, NEW K, f \in K, NEW a \in StackFrames, a.f \in K \ Owners,
             Called(<<a, Frame(f)>>)
      PROVE  Brings(K)
  BY <1>3, FrameFacts, BringsCalled
<1>4. ASSUME NEW K, Called(<<>>) PROVE Brings(K)
  BY <1>4, BringsCalled
<1>5. ASSUME NEW g, NEW res \in {"ok", "error"}, NEW f \in {"finish_group", "group_failed"},
             stack # <<>>, Notify(g, res, <<Frame(f)>>)
      PROVE  Brings({"notificator", f})
  <2> DEFINE a == Notificator(g.id, res)
             b == Frame(f)
  <2>1. (a \in StackFrames /\ Called(<<a, b>>)) \/ Called(<<b>>)
    BY <1>5, NotifyCalls, Zenon DEF Results
  <2>2. f \in SimpleFrames /\ a.f = "notificator"
    BY DEF SimpleFrames, Notificator
  <2>3. a.f \in {"notificator", f} \ Owners
    BY <2>2 DEF Owners, WriteFrames, ReadFrames, Reading
  <2> HIDE DEF a
  <2> QED
    BY <1>2, <1>3, <2>1, <2>2, <2>3
<1>6. InitWrite => Brings({"write_ctx"})
  BY <1>1, <1>2, <1>4 DEF InitWrite, Return, Call, Called, Top, SimpleFrames
<1>7. HandleCurrentWriteCtx => Brings({"notificator", "finish_group"})
  BY <1>1, <1>4, <1>5 DEF HandleCurrentWriteCtx, Return, Top
<1>8. FinishWriteGroup => Brings({"init_write"})
  BY <1>2 DEF FinishWriteGroup, Call, Called, Top, SimpleFrames
<1>9. FailGroup => Brings({"notificator", "group_failed"})
  BY <1>5 DEF FailGroup, Top
<1>10. ASSUME TriggerErrorAndClose PROVE Brings({"close_handler", "close_impl"})
  <2> DEFINE a == CloseHandler(stack[1].code)
  <2>1. stack # <<>> /\ stack[1].f = "trigger_error_and_close" /\ Called(<<a, Frame("close_impl")>>)
    BY <1>10 DEF TriggerErrorAndClose, Top, Call, Called
  <2>2. a \in StackFrames /\ a.f = "close_handler"
    BY <2>1, TopFits, FrameFacts
  <2>3. a.f \in {"close_handler", "close_impl"} \ Owners /\ "close_impl" \in SimpleFrames
    BY <2>2 DEF Owners, WriteFrames, ReadFrames, Reading, SimpleFrames
  <2> HIDE DEF a
  <2> QED
    BY <1>3, <2>1, <2>2, <2>3
<1>11. ASSUME CallCloseHandlerIfNecessary PROVE Brings({"handler"})
  <2>1. stack # <<>> /\ "handler" \in SimpleFrames
    BY <1>11 DEF CallCloseHandlerIfNecessary, Top, SimpleFrames
  <2>2. Called(<<Frame("handler")>>) \/ Called(<<>>) \/ stack' = Tail(stack)
    BY <1>11, <2>1, HandlerCalls DEF CallCloseHandlerIfNecessary, Return
  <2> QED
    BY <1>1, <1>2, <1>4, <2>1, <2>2
<1>12. InitRead \/ SkipPayload \/ GoOnReading => Brings({"read_header"})
  <2>1. InitRead \/ SkipPayload \/ GoOnReading =>
          /\ stack # <<>>
          /\ Called(<<Frame("read_header")>>) \/ Called(<<>>) \/ stack' = Tail(stack)
    BY Zenon DEF InitRead, SkipPayload, GoOnReading, Return, Call, Called, Top
  <2> QED
    BY <1>1, <1>2, <1>4, <2>1 DEF SimpleFrames
<1>13. StartReadHeader => Brings({"consume_header"})
  <2>1. StartReadHeader =>
          /\ stack # <<>>
          /\ Called(<<Frame("consume_header")>>) \/ stack' = Tail(stack)
    BY DEF StartReadHeader, Return, Call, Called, Top
  <2> QED
    BY <1>1, <1>2, <1>4, <2>1 DEF SimpleFrames
<1>14. ASSUME PeerClosed PROVE Brings({"handler", "go_on"})
  <2>1. /\ stack # <<>> /\ CallMessageHandler("peer_close", <<Frame("go_on")>>)
        /\ "go_on" \in SimpleFrames
    BY <1>14 DEF PeerClosed, Top, SimpleFrames
  <2>2. /\ Frame("handler") \in StackFrames /\ Frame("handler").f = "handler"
        /\ Called(<<Frame("handler"), Frame("go_on")>>) \/ Called(<<Frame("go_on")>>)
    BY <2>1, HandlerCalls
  <2>3. Frame("handler").f \in {"handler", "go_on"} \ Owners
    BY <2>2 DEF Owners, WriteFrames, ReadFrames, Reading
  <2> QED
    BY <1>2, <1>3, <2>1, <2>2, <2>3
<1>15. ASSUME WriteDataImpl PROVE Brings({"init_write", "notificator"})
  <2> DEFINE g   == stack[1].g
             res == IF conn.writable THEN "not_executed" ELSE "destroyed"
             b   == Notificator(g.id, res)
  <2>1. /\ stack # <<>> /\ "init_write" \in SimpleFrames
        /\ Called(<<Frame("init_write")>>) \/ Notify(g, res, <<>>)
    BY <1>15 DEF WriteDataImpl, Call, Called, Top, SimpleFrames
  <2>2. res \in Results /\ b.f = "notificator"
    BY DEF Results, Notificator
  <2>3. Called(<<Frame("init_write")>>) \/ (b \in StackFrames /\ Called(<<b>>)) \/ Called(<<>>)
    BY <2>1, <2>2, NotifyCalls
  <2> HIDE DEF b
  <2> QED
    BY <1>2, <1>4, <2>1, <2>2, <2>3, BringsCalled
<1>16. GroupFailed \/ NotificatorReturns \/ HandlerReturns \/ DisableWrite
       \/ StartWaitingCloseFrameOnly \/ CloseNow \/ ResetProtocolValidator \/ Kill => Brings({})
  BY <1>1, <1>4
     DEF GroupFailed, NotificatorReturns, HandlerReturns, DisableWrite, Kill, CloseNow, Top,
         StartWaitingCloseFrameOnly, ResetProtocolValidator, Return
<1>17. ASSUME Shutdown PROVE Brings(ClosingKinds)
  <2> DEFINE iw == Frame("init_write")
             dw == Frame("disable_write")
             wc == Frame("wait_close")
  <2>1. stack # <<>> /\ Called(CloseToPeerFrames(conn, <<wc>>)) /\ conn \in Conns(conn.val)
    BY <1>17 DEF Shutdown, Call, Called, Top, Stepping, TypeInv, ConnOK
  <2>2. /\ iw \in StackFrames /\ iw.f = "init_write" /\ dw \in StackFrames
        /\ dw.f = "disable_write" /\ wc \in StackFrames /\ wc.f = "wait_close"
    BY FrameFacts DEF SimpleFrames
  <2>3. Called(<<iw, dw, wc>>) \/ Called(<<>>)
    BY <2>1, CloseShapes
  <2> HIDE DEF iw, dw, wc
  <2>4. iw.f \in ClosingKinds \ Owners /\ dw.f \in ClosingKinds \ Owners /\ wc.f \in ClosingKinds
    BY <2>2 DEF ClosingKinds, Owners, WriteFrames, ReadFrames, Reading
  <2> QED
    BY <2>2, <2>3, <2>4, BringsCalled, Zenon
<1> QED
  BY <1>6, <1>7, <1>8, <1>9, <1>10, <1>11, <1>12, <1>13, <1>14, <1>15, <1>16, <1>17

-----------------------------------------------------------------------------
(* Steps that leave the output alone *)

\* The connection is about to forbid writing, its close frame being queued.
Disabling ==
  \/ First(stack) = "disable_write"
  \/ First(stack) \in {"init_write", "write_ctx"} /\ After(stack, 1) = "disable_write"

\* Nothing of the output changes but that the socket may be closed.
KeepsOutput ==
  /\ conn'.out = conn.out /\ conn'.queue = conn.queue /\ conn'.writable = conn.writable
  /\ wire' = wire
  /\ \/ conn'.wr = conn.wr /\ conn'.open = conn.open
     \/ /\ ~conn'.open /\ conn'.wr.st # "running"
        /\ conn'.wr.st = "none" <=> conn.wr.st = "none"

\* Nor do the frames at work on the write group.
KeepsOwners ==
  /\ Has(stack', WriteFrames) <=> Has(stack, WriteFrames)
  /\ Once(stack, WriteFrames) => Once(stack', WriteFrames)
  /\ Disabling => Disabling'

\* The socket is closed.
LEMMA ClosedOutput ==
  ASSUME NEW v, NEW c \in Conns(v), c.out = conn.out, c.queue = conn.queue, c.writable = conn.writable,
         c.wr = conn.wr, c.open = conn.open, conn' = CloseImpl(c), wire' = wire
  PROVE  KeepsOutput
<1>1. /\ conn' = [c EXCEPT !.open = FALSE, !.rd = CloseImpl(c).rd, !.wr = CloseImpl(c).wr]
      /\ ~conn'.open
  BY CloseFacts, Zenon
<1>2. conn'.out = c.out /\ conn'.queue = c.queue /\ conn'.writable = c.writable
  BY <1>1, Zenon DEF Conns
<1>3. c.wr \in Ops /\ c.open \in BOOLEAN
  BY DEF Conns
<1>4. CASE c.open
  <2>1. conn'.wr = Abort(c.wr)
    BY <1>4, Zenon DEF CloseImpl, Conns
  <2>2. Abort(c.wr).st # "running" /\ (Abort(c.wr).st = "none" <=> c.wr.st = "none")
    BY <1>3, OpFacts
  <2>3. conn'.wr.st # "running" /\ (conn'.wr.st = "none" <=> conn.wr.st = "none")
    BY <2>1, <2>2
  <2> QED
    BY <1>1, <1>2, <2>3, Zenon DEF KeepsOutput
<1>5. CASE ~c.open
  BY <1>2, <1>5, Zenon DEF KeepsOutput, CloseImpl
<1> QED
  BY <1>3, <1>4, <1>5

\* Frames other than those of the output are called by frames other than those.
LEMMA AsideCalls ==
  ASSUME Stepping, NEW K, Brings(K), K \intersect WriteFrames = {},
         stack[1].f \notin WriteFrames \union {"init_write", "disable_write"}
  PROVE  KeepsOwners /\ ~Disabling
<1>1. StackOK /\ stack # <<>>
  BY DEF Stepping, TypeInv, Brings, Called
<1>2. ~Disabling
  BY <1>1 DEF Disabling, First, WriteFrames
<1>3. /\ Has(stack', WriteFrames) <=> Has(stack, WriteFrames)
      /\ Once(stack, WriteFrames) => Once(stack', WriteFrames)
  BY <1>1, BringsOwners
<1> QED
  BY <1>2, <1>3 DEF KeepsOwners

\* The steps that neither write nor may send a close frame.
AsideNext ==
  \/ CloseNow \/ StartWaitingCloseFrameOnly \/ TriggerErrorAndClose
  \/ CallCloseHandlerIfNecessary \/ InitRead \/ StartReadHeader \/ ResetProtocolValidator
  \/ SkipPayload \/ PeerClosed \/ GoOnReading \/ Kill \/ Returns
  \/ RunPosted \/ AfterRead \/ WriteTimedOut \/ WaitTimedOut \/ User
  \/ PeerSends \/ ReadCompletes \/ ReadFails

\* They leave the frames of the output alone.
LEMMA AsideOwners ==
  ASSUME Stepping, AsideNext
  PROVE  KeepsOwners
<1> DEFINE W == WriteFrames
<1>1. StackOK /\ conn \in Conns(conn.val) /\ stack \in Seq(StackFrames)
  BY DEF Stepping, TypeInv, StackOK, ConnOK
<1>2. UserCode \/ stack = <<>> => ~Disabling
  BY DEF UserCode, Top, Disabling, First
<1>3. ASSUME NEW K, Brings(K), K \intersect W = {},
             stack[1].f \notin W \union {"init_write", "disable_write"}
      PROVE  KeepsOwners
  BY <1>3, AsideCalls
<1>4. CASE CloseNow \/ StartWaitingCloseFrameOnly \/ ResetProtocolValidator \/ Kill \/ Returns
  <2>1. Brings({})
    BY <1>4, StepCalls DEF Returns
  <2>2. stack[1].f \in {"close_impl", "wait_close", "reset_validator", "kill", "handler",
                        "notificator"}
    BY <1>4 DEF CloseNow, StartWaitingCloseFrameOnly, ResetProtocolValidator, Kill, Returns,
                HandlerReturns, NotificatorReturns, Top
  <2> QED
    BY <1>3, <2>1, <2>2 DEF WriteFrames
<1>5. CASE TriggerErrorAndClose \/ CallCloseHandlerIfNecessary \/ PeerClosed
  <2>1. Brings({"close_handler", "close_impl"}) \/ Brings({"handler"}) \/ Brings({"handler", "go_on"})
    BY <1>5, StepCalls
  <2>2. stack[1].f \in {"trigger_error_and_close", "close_handler", "peer_closed"}
    BY <1>5 DEF TriggerErrorAndClose, CallCloseHandlerIfNecessary, PeerClosed, Top
  <2> QED
    BY <1>3, <2>1, <2>2 DEF WriteFrames
<1>6. CASE InitRead \/ SkipPayload \/ GoOnReading \/ StartReadHeader
  <2>1. Brings({"read_header"}) \/ Brings({"consume_header"})
    BY <1>6, StepCalls
  <2>2. stack[1].f \in {"init_read", "skip_payload", "go_on", "read_header"}
    BY <1>6 DEF InitRead, SkipPayload, GoOnReading, StartReadHeader, Top
  <2> QED
    BY <1>3, <2>1, <2>2 DEF WriteFrames
<1>7. ASSUME stack' = stack PROVE KeepsOwners
  BY <1>7 DEF KeepsOwners, Disabling
<1>8. ASSUME stack = <<>>, NEW a \in StackFrames, a.f \notin W, stack' = <<a>> PROVE KeepsOwners
  BY <1>2, <1>8, OwnerFresh DEF KeepsOwners
<1>9. ASSUME stack = <<>>, NEW a \in StackFrames, NEW b \in StackFrames, a.f \notin W,
             b.f \notin W, stack' = <<a, b>>
      PROVE  KeepsOwners
  BY <1>2, <1>9, OwnerFresh DEF KeepsOwners
<1>10. CASE RunPosted
  <2> DEFINE a == Head(posted)
  <2>1. /\ stack = <<>> /\ posted # <<>> /\ stack' = <<a>> /\ posted \in Seq(StackFrames)
        /\ \A k \in 1 .. Len(posted) : posted[k].f \in Posted
    BY <1>10 DEF RunPosted, Stepping, TypeInv, StackOK, StackInv
  <2>2. a \in StackFrames /\ a = posted[1] /\ 1 \in 1 .. Len(posted)
    BY <2>1
  <2>3. a.f \notin W
    BY <2>1, <2>2 DEF Posted, WriteFrames
  <2> HIDE DEF a
  <2> QED
    BY <1>8, <2>1, <2>2, <2>3
<1>11. CASE AfterRead
  <2>1. conn.rd.data \in Seq(TokenSet)
    BY <1>1 DEF Conns, Ops
  <2> DEFINE d == conn.rd.data
             p == Payload(Bytes(d))
             t == Trigger("connection_lost")
             h == Frame("consume_header")
             s == Frame("skip_payload")
  <2>2. p \in StackFrames /\ p.f = "payload"
    BY <2>1, TokenFacts, FrameFacts
  <2>3. /\ t \in StackFrames /\ t.f = "trigger_error_and_close" /\ h \in StackFrames
        /\ h.f = "consume_header" /\ s \in StackFrames /\ s.f = "skip_payload"
    BY FrameFacts DEF SimpleFrames, Code
  <2>4. stack = <<>> /\ (stack' = <<t>> \/ stack' = <<h>> \/ stack' = <<p>> \/ stack' = <<s>>)
    BY <1>11 DEF AfterRead
  <2> HIDE DEF d, p, t, h, s
  <2>5. PICK a \in {p, t, h, s} : stack' = <<a>>
    BY <2>4
  <2>6. a \in StackFrames /\ a.f \notin W
    BY <2>2, <2>3 DEF WriteFrames
  <2> QED
    BY <1>8, <2>4, <2>5, <2>6
<1>12. CASE WriteTimedOut
  <2> DEFINE a == CloseHandler("unexpected_condition")
             b == Frame("close_impl")
  <2>1. stack = <<>> /\ stack' = <<a, b>>
    BY <1>12 DEF WriteTimedOut
  <2>2. /\ a \in StackFrames /\ a.f = "close_handler" /\ b \in StackFrames /\ b.f = "close_impl"
    BY FrameFacts DEF SimpleFrames, Code
  <2> HIDE DEF a, b
  <2> QED
    BY <1>9, <2>1, <2>2 DEF WriteFrames
<1>13. CASE User
  <2>1. CASE UserCode /\ \E fr \in StackFrames : fr.f \in Posted /\ stack' = <<fr>> \o stack
    <3>1. PICK fr \in StackFrames : fr.f \in Posted /\ stack' = <<fr>> \o stack
      BY <2>1, Zenon
    <3>2. fr.f \notin W
      BY <3>1 DEF Posted, WriteFrames
    <3> QED
      BY <1>1, <1>2, <2>1, <3>1, <3>2, OwnerFresh, Zenon DEF KeepsOwners
  <2> QED
    BY <1>7, <1>13, <2>1, UserSteps, Zenon
<1>14. CASE WaitTimedOut \/ PeerSends \/ ReadCompletes \/ ReadFails
  <2>1. stack' = stack
    BY <1>14, Zenon DEF WaitTimedOut, PeerSends, ReadCompletes, ReadFails
  <2> QED
    BY <1>7, <2>1
<1> QED
  BY <1>4, <1>5, <1>6, <1>10, <1>11, <1>12, <1>13, <1>14 DEF AsideNext

\* And the members of the output.
LEMMA AsideOutput ==
  ASSUME Stepping, AsideNext
  PROVE  KeepsOutput
<1>1. conn \in Conns(conn.val)
  BY DEF Stepping, TypeInv, ConnOK
<1>2. ASSUME conn' = conn, wire' = wire PROVE KeepsOutput
  BY <1>2 DEF KeepsOutput
<1>3. CASE CloseNow \/ WaitTimedOut
  BY <1>1, <1>3, ClosedOutput DEF CloseNow, WaitTimedOut, hist
<1>4. CASE Kill
  <2> DEFINE c == [conn EXCEPT !.toUser = FALSE, !.toPeer = FALSE]
  <2>1. c \in Conns(conn.val)
    BY <1>1, Zenon DEF Conns
  <2>2. /\ c.out = conn.out /\ c.queue = conn.queue /\ c.writable = conn.writable
        /\ c.wr = conn.wr /\ c.open = conn.open
    BY <1>1, Zenon DEF Conns
  <2>3. conn' = CloseImpl(c) /\ wire' = wire
    BY <1>4 DEF Kill, hist
  <2> HIDE DEF c
  <2> QED
    BY <2>1, <2>2, <2>3, ClosedOutput
<1>5. CASE TriggerErrorAndClose \/ GoOnReading \/ Returns \/ RunPosted \/ PeerSends
  <2>1. conn' = conn /\ wire' = wire
    BY <1>5, Zenon
       DEF TriggerErrorAndClose, GoOnReading, Returns, HandlerReturns, NotificatorReturns,
           RunPosted, PeerSends, hist
  <2> QED
    BY <1>2, <2>1
<1>6. CASE User
  BY <1>2, <1>6, UserSteps
<1>7. CASE StartWaitingCloseFrameOnly \/ CallCloseHandlerIfNecessary \/ InitRead
  BY <1>1, <1>7, Zenon DEF StartWaitingCloseFrameOnly, WaitCloseFrame, CallCloseHandlerIfNecessary,
     InitRead, hist, KeepsOutput, Conns
<1>8. CASE ResetProtocolValidator \/ PeerClosed \/ StartReadHeader
  BY <1>1, <1>8, Zenon DEF ResetProtocolValidator, PeerClosed, StartReadHeader, hist,
     KeepsOutput, Conns
<1>9. CASE SkipPayload
  BY <1>1, <1>9, Zenon DEF SkipPayload, hist, KeepsOutput, Conns
<1>10. CASE AfterRead
  BY <1>1, <1>10, Zenon DEF AfterRead, hist, KeepsOutput, Conns
<1>11. CASE WriteTimedOut \/ ReadFails
  BY <1>1, <1>11, Zenon DEF WriteTimedOut, ReadFails, hist, KeepsOutput, Conns
<1>12. CASE ReadCompletes
  BY <1>1, <1>12, Zenon DEF ReadCompletes, hist, KeepsOutput, Conns
<1> QED
  BY <1>3, <1>4, <1>5, <1>6, <1>7, <1>8, <1>9, <1>10, <1>11, <1>12 DEF AsideNext

-----------------------------------------------------------------------------
(* The write group has one owner *)

\* What is left of the stack when a notificator throws: the frames above the try block.
LEMMA ThrowOwners ==
  ASSUME Stepping, NotificatorThrows, stack[1].res \in {"ok", "error"}
  PROVE  /\ stack[2].f \in {"finish_group", "group_failed"} /\ 2 \in 1 .. Len(stack)
         /\ First(stack') \in {"trigger_error_and_close"} \union {After(stack, 2)}
         /\ After(stack, 2) \in Waiting \union {"end"}
         /\ \A V : "trigger_error_and_close" \notin V =>
              /\ Has(stack', V) => Has(stack, V)
              /\ Once(stack, V) => Once(stack', V)
              /\ Once(stack, V) /\ stack[2].f \in V => ~Has(stack', V)
<1> DEFINE s    == stack
           n    == Len(s)
           t    == Trigger("unexpected_condition")
           rest == SubSeq(s, 3, n)
<1>1. stack # <<>> /\ stack[1].f = "notificator"
  BY DEF NotificatorThrows, Top
<1>2. /\ s \in Seq(StackFrames) /\ n \in Nat \ {0} /\ Linked(conn, s)
      /\ Adjacent(conn, s[1], After(s, 1))
  BY <1>1, TopFits DEF StackOK
<1>3. After(s, 1) \in {"finish_group", "group_failed"}
  BY <1>1, <1>2 DEF Adjacent
<1>4. n > 1 /\ s[2].f = After(s, 1) /\ 2 \in 1 .. n
  BY <1>2, <1>3 DEF After
<1>5. stack' = <<>> \o rest \/ stack' = <<t>> \o rest
  BY Zenon DEF NotificatorThrows
<1>6. t \in StackFrames /\ t.f = "trigger_error_and_close"
  BY FrameFacts DEF Code
<1>7. Adjacent(conn, s[2], After(s, 2))
  BY <1>2, <1>4 DEF Linked
<1>8. \A i \in 3 .. n : s[i] \in StackFrames
  BY <1>2
<1> HIDE DEF s, t
<1>16. n \in Nat /\ n > 1
  BY <1>2, <1>4
<1>17. rest = SubSeq(s, 3, n)
  OBVIOUS
<1> HIDE DEF n, rest
<1>9. /\ rest \in Seq(StackFrames) /\ Len(rest) = IF 3 <= n THEN n - 3 + 1 ELSE 0
      /\ \A i \in 1 .. n - 3 + 1 : rest[i] = s[3 + i - 1]
  BY <1>8, <1>16, <1>17, SubSeqProperties
<1>10. Len(rest) = n - 2 /\ Len(rest) \in Nat
  BY <1>9, <1>16
<1>11. ASSUME NEW k \in 1 .. Len(rest) PROVE k + 2 \in 1 .. n /\ rest[k] = s[k + 2] /\ k + 2 # 2
  BY <1>9, <1>10, <1>16
<1>12. First(rest) = After(s, 2)
  BY <1>9, <1>10, <1>11, <1>16 DEF First, After, n
<1>13. ASSUME NEW V
       PROVE  /\ Has(rest, V) => Has(s, V)
              /\ Once(s, V) => Once(rest, V)
              /\ Once(s, V) /\ s[2].f \in V => ~Has(rest, V)
  <2>1. Has(rest, V) => Has(s, V)
    BY <1>11, Zenon DEF Has, n
  <2>2. ASSUME Once(s, V), NEW k \in 1 .. Len(rest), NEW l \in 1 .. Len(rest),
               rest[k].f \in V, rest[l].f \in V
        PROVE  k = l
    <3>1. k + 2 = l + 2
      BY <1>11, <2>2, Zenon DEF Once, n
    <3> QED
      BY <1>10, <3>1
  <2>3. ASSUME Once(s, V), s[2].f \in V, NEW k \in 1 .. Len(rest), rest[k].f \in V PROVE FALSE
    BY <1>4, <1>11, <2>3, Zenon DEF Once, n
  <2> QED
    BY <2>1, <2>2, <2>3, Zenon DEF Has, Once
<1>14. CASE stack' = <<>> \o rest
  <2>1. stack' = rest
    BY <1>9, <1>14, ConcatEmptySeq
  <2> QED
    BY <1>3, <1>4, <1>7, <1>12, <1>13, <2>1, Zenon DEF s, n, Adjacent
<1>15. CASE stack' = <<t>> \o rest
  <2> DEFINE r == stack'
  <2>1. /\ r # <<>> /\ r[1] = t
    BY <1>6, <1>9, <1>15, PushStack
  <2>2. First(r) = "trigger_error_and_close"
    BY <1>6, <2>1 DEF First
  <2>3. ASSUME NEW V, t.f \notin V
        PROVE  /\ Has(r, V) <=> Has(rest, V)
               /\ Once(rest, V) => Once(r, V)
    BY <1>6, <1>9, <1>15, <2>3, OwnerFresh, Zenon
  <2> HIDE DEF r
  <2> QED
    BY <1>3, <1>4, <1>6, <1>7, <1>13, <2>2, <2>3, Zenon DEF s, n, r, Adjacent
<1> QED
  BY <1>5, <1>14, <1>15

\* The output and the frames at work on it are as they were.
LEMMA TokenKept ==
  ASSUME TokenInv, conn'.out = conn.out, conn'.wr.st = "none" <=> conn.wr.st = "none",
         Has(stack', WriteFrames) <=> Has(stack, WriteFrames),
         Once(stack, WriteFrames) => Once(stack', WriteFrames)
  PROVE  TokenInv'
BY Zenon DEF TokenInv

\* The steps that call frames of the output put one of the owners on the stack.
LEMMA OwnerCalled ==
  ASSUME StackOK, stack # <<>>, NEW W
  PROVE  /\ \A a \in StackFrames : Called(<<a>>) /\ a.f \in W => Has(stack', W)
         /\ \A a, b \in StackFrames : Called(<<a, b>>) /\ b.f \in W => Has(stack', W)
<1> DEFINE s == stack
           r == stack'
<1>1. s \in Seq(StackFrames) /\ s # <<>>
  BY DEF StackOK
<1> HIDE DEF s, r
<1>2. ASSUME NEW fs \in Seq(StackFrames), r = fs \o Tail(s), Has(fs, W) PROVE Has(r, W)
  BY <1>1, <1>2, OwnerCall, Zenon
<1>3. ASSUME NEW a \in StackFrames, Called(<<a>>), a.f \in W PROVE Has(stack', W)
  <2> DEFINE fs == <<a>>
  <2>1. fs \in Seq(StackFrames) /\ Has(fs, W) /\ r = fs \o Tail(s)
    BY <1>3, OwnerFresh DEF Called, s, r
  <2> HIDE DEF fs
  <2> QED
    BY <1>2, <2>1 DEF r
<1>4. ASSUME NEW a \in StackFrames, NEW b \in StackFrames, Called(<<a, b>>), b.f \in W
      PROVE  Has(stack', W)
  <2> DEFINE fs == <<a, b>>
  <2>2. fs \in Seq(StackFrames)
    OBVIOUS
  <2>1. fs \in Seq(StackFrames) /\ Has(fs, W) /\ r = fs \o Tail(s)
    BY <1>4, <2>2, OwnerFresh, Zenon DEF Called, s, r
  <2> HIDE DEF fs
  <2> QED
    BY <1>2, <2>1 DEF r
<1> QED
  BY <1>3, <1>4

\* The write group keeps one owner.
LEMMA TokenNext ==
  ASSUME Stepping, Next
  PROVE  TokenInv'
<1> DEFINE W == WriteFrames
<1>1. /\ StackOK /\ conn \in Conns(conn.val) /\ TokenInv /\ conn.out \in Outputs /\ conn.wr \in Ops
      /\ conn.queue \in Seq(Groups)
  BY DEF Stepping, TypeInv, ConnOK, Conns
<1>19. CloseImpl(conn) \in Conns(conn.val) /\ (CloseImpl(conn).wr.st = "none" <=> conn.wr.st = "none")
  <2>1. CloseImpl(conn) \in Conns(conn.val) /\ CloseImpl(conn).wr \in {conn.wr, Abort(conn.wr)}
    BY <1>1, CloseFacts, Zenon
  <2> QED
    BY <1>1, <2>1, OpFacts
<1>20. {} \intersect W = {} /\ {"init_write"} \intersect W = {}
  BY DEF WriteFrames
<1>2. CASE AsideNext
  <2>1. KeepsOutput /\ KeepsOwners
    BY <1>2, AsideOutput, AsideOwners
  <2>2. conn'.out = conn.out /\ (conn'.wr.st = "none" <=> conn.wr.st = "none")
    BY <2>1, Zenon DEF KeepsOutput
  <2> QED
    BY <1>1, <2>1, <2>2, TokenKept DEF KeepsOwners
<1>3. CASE ConsumeHeader \/ ValidatePayloadPart \/ OnMessage \/ Shutdown
  <2>1. ClosingOutput /\ (Brings(FrameKinds) \/ Brings(ClosingKinds))
    BY <1>3, ClosingSteps, StepCalls
  <2>2. stack[1].f \in {"consume_header", "payload", "on_message", "shutdown"}
    BY <1>3 DEF ConsumeHeader, ValidatePayloadPart, OnMessage, Shutdown, Top
  <2>3. /\ FrameKinds \intersect W = {} /\ ClosingKinds \intersect W = {}
        /\ stack[1].f \notin W \union {"init_write", "disable_write"}
    BY <2>2 DEF FrameKinds, ClosingKinds, WriteFrames
  <2>4. KeepsOwners
    BY <2>1, <2>3, AsideCalls
  <2>5. conn'.wr.st = "none" <=> conn.wr.st = "none"
    <3>1. conn'.wr = conn.wr \/ conn'.wr = CloseImpl(conn).wr
      BY <2>1 DEF ClosingOutput
    <3> QED
      BY <1>19, <3>1
  <2> QED
    BY <1>1, <2>1, <2>4, <2>5, TokenKept DEF KeepsOwners, ClosingOutput
<1>4. CASE WriteDataImpl \/ DisableWrite
  <2>1. Brings({"init_write", "notificator"}) \/ Brings({})
    BY <1>4, StepCalls
  <2>2. stack[1].f \in {"write_data", "disable_write"}
    BY <1>4 DEF WriteDataImpl, DisableWrite, Top
  <2>3. {"init_write", "notificator"} \intersect W = {} /\ {} \intersect W = {} /\ stack[1].f \notin W
    BY <2>2 DEF WriteFrames
  <2>4. (Has(stack', W) <=> Has(stack, W)) /\ (Once(stack, W) => Once(stack', W))
    BY <1>1, <2>1, <2>3, BringsOwners, Zenon
  <2>5. conn'.out = conn.out /\ conn'.wr = conn.wr
    BY <1>1, <1>4, Zenon DEF WriteDataImpl, DisableWrite, WaitCloseFrame, Conns
  <2> QED
    BY <1>1, <2>4, <2>5, TokenKept
<1>5. ASSUME stack # <<>>, stack' = Tail(stack), stack[1].f \notin W,
             conn'.out = conn.out, conn'.wr = conn.wr
      PROVE  TokenInv'
  <2>1. Brings({})
    BY <1>1, <1>5, PopStack, BringsCalled DEF Called, StackOK
  <2>2. (Has(stack', W) <=> Has(stack, W)) /\ (Once(stack, W) => Once(stack', W))
    BY <1>1, <1>5, <1>20, <2>1, BringsOwners, Zenon
  <2> QED
    BY <1>1, <1>5, <2>2, TokenKept
<1>6. CASE InitWrite
  <2>1. CASE Transmitting(conn.out) \/ conn.queue = <<>>
    BY <1>5, <1>6, <2>1 DEF InitWrite, Top, Return, WriteFrames
  <2>2. CASE ~(Transmitting(conn.out) \/ conn.queue = <<>>)
    <3> DEFINE a == Frame("write_ctx")
    <3>1. /\ stack # <<>> /\ Called(<<a>>) /\ conn.queue # <<>>
          /\ conn' = [conn EXCEPT !.out = StartNextWriteGroup(@, Head(conn.queue)),
                                  !.queue = Tail(@)]
      BY <1>6, <2>2 DEF InitWrite, Top, Call, Called
    <3>2. a \in StackFrames /\ a.f \in W
      BY FrameFacts DEF SimpleFrames, WriteFrames
    <3> HIDE DEF a
    <3>3. Head(conn.queue) \in Groups
      BY <1>1, <3>1
    <3>4. Transmitting(conn'.out) /\ conn'.wr = conn.wr
      <4>1. conn'.out = StartNextWriteGroup(conn.out, Head(conn.queue)) /\ conn'.wr = conn.wr
        BY <1>1, <3>1, Zenon DEF Conns
      <4> QED
        BY <1>1, <3>3, <4>1, OutputFacts, Zenon
    <3>5. Has(stack', W)
      BY <1>1, <3>1, <3>2, OwnerCalled
    <3>6. ~Has(stack, W) /\ conn.wr.st = "none"
      BY <1>1, <2>2 DEF TokenInv
    <3>7. Once(stack', W)
      BY <1>1, <1>6, <3>6, StepCalls, BringsOwners, Zenon
    <3> QED
      BY <3>4, <3>5, <3>6, <3>7, Zenon DEF TokenInv
  <2> QED
    BY <2>1, <2>2
<1>7. ASSUME NEW f \in W, Top(f)
      PROVE  /\ Transmitting(conn.out) /\ conn.wr.st = "none" /\ stack # <<>> /\ stack[1].f \in W
             /\ Once(stack, W)
  BY <1>1, <1>7, TopFacts DEF Top, TokenInv, Stepping
<1>8. ASSUME NEW f \in W, Top(f), Brings({}) \/ Brings({"init_write"}), conn'.wr = conn.wr,
             ~Transmitting(conn'.out)
      PROVE  TokenInv'
  <2>2. ~Has(stack', W) /\ Once(stack', W)
    BY <1>1, <1>7, <1>8, <1>20, BringsOwners, Zenon
  <2> QED
    BY <1>7, <1>8, <2>2, Zenon DEF TokenInv
<1>9. ASSUME NEW f \in W, Top(f), NEW res \in {"ok", "error"}, NEW h \in {"finish_group", "group_failed"},
             Notify(conn.out.wg, res, <<Frame(h)>>), conn' = conn,
             Brings({"notificator", h})
      PROVE  TokenInv'
  <2> DEFINE a == Notificator(conn.out.wg.id, res)
             b == Frame(h)
  <2>1. (a \in StackFrames /\ Called(<<a, b>>)) \/ Called(<<b>>)
    BY <1>7, <1>9, NotifyCalls, Zenon DEF Results
  <2>2. b \in StackFrames /\ b.f \in W
    BY FrameFacts DEF SimpleFrames, WriteFrames
  <2> HIDE DEF a, b
  <2>3. Has(stack', W)
    BY <1>1, <1>7, <1>9, <2>1, <2>2, OwnerCalled
  <2>4. Once(stack', W)
    BY <1>1, <1>7, <1>9, BringsOwners, Zenon
  <2> QED
    BY <1>7, <1>9, <2>3, <2>4, Zenon DEF TokenInv
<1>10. CASE HandleCurrentWriteCtx
  <2>1. Top("write_ctx") /\ "write_ctx" \in W
    BY <1>10 DEF HandleCurrentWriteCtx, WriteFrames
  <2>2. CASE NextOperation(conn.out) = "trivial"
    <3>1. /\ stack' = Tail(stack)
          /\ conn' = [conn EXCEPT !.out = ExtractNextWriteOperation(@), !.wr = StartOp(conn, "write")]
      BY <1>10, <2>2 DEF HandleCurrentWriteCtx, Return
    <3>2. Brings({})
      BY <1>1, <1>7, <2>1, <3>1, PopStack, BringsCalled DEF Called, StackOK
    <3>3. ~Has(stack', W) /\ Once(stack', W)
      BY <1>1, <1>7, <1>20, <2>1, <3>2, BringsOwners, Zenon
    <3>4. Transmitting(conn'.out) /\ conn'.wr.st # "none"
      <4>1. conn'.out = ExtractNextWriteOperation(conn.out) /\ conn'.wr = StartOp(conn, "write")
        BY <1>1, <3>1, Zenon DEF Conns
      <4>2. ExtractNextWriteOperation(conn.out).wg = conn.out.wg
        BY <1>1, <1>7, <2>1, <2>2, OutputFacts
      <4>3. StartOp(conn, "write").st # "none"
        BY DEF StartOp
      <4> QED
        BY <1>7, <2>1, <4>1, <4>2, <4>3 DEF Transmitting
    <3> QED
      BY <3>3, <3>4, Zenon DEF TokenInv
  <2>3. CASE NextOperation(conn.out) # "trivial"
    <3>1. Notify(conn.out.wg, "ok", <<Frame("finish_group")>>) /\ conn' = conn
      BY <1>10, <2>3 DEF HandleCurrentWriteCtx
    <3>2. Brings({"notificator", "finish_group"})
      BY <1>10, StepCalls
    <3> QED
      BY <1>9, <2>1, <3>1, <3>2
  <2> QED
    BY <2>2, <2>3
<1>11. CASE FailGroup
  <2>1. /\ Top("fail_group") /\ "fail_group" \in W
        /\ Notify(conn.out.wg, "error", <<Frame("group_failed")>>) /\ conn' = conn
    BY <1>11 DEF FailGroup, WriteFrames
  <2>2. Brings({"notificator", "group_failed"})
    BY <1>11, StepCalls
  <2> QED
    BY <1>9, <2>1, <2>2
<1>12. CASE FinishWriteGroup
  <2>1. Top("finish_group") /\ "finish_group" \in W /\ Brings({"init_write"})
    BY <1>12, StepCalls DEF FinishWriteGroup, WriteFrames
  <2>2. conn'.wr = conn.wr /\ conn'.out = ResetWriteGroup(conn.out)
    BY <1>1, <1>12, Zenon DEF FinishWriteGroup, Conns
  <2>3. ~Transmitting(conn'.out)
    BY <1>1, <2>2, OutputFacts
  <2> QED
    BY <1>8, <2>1, <2>2, <2>3
<1>13. CASE GroupFailed
  <2>1. Top("group_failed") /\ "group_failed" \in W /\ Brings({})
    BY <1>13, StepCalls DEF GroupFailed, WriteFrames
  <2>2. conn'.wr = conn.wr /\ conn'.out = FailWriteGroup(conn.out)
    BY <1>1, <1>13, Zenon DEF GroupFailed, Conns
  <2>3. ~Transmitting(conn'.out)
    BY <1>1, <2>2, OutputFacts
  <2> QED
    BY <1>8, <2>1, <2>2, <2>3
<1>14. CASE NotificatorThrows
  <2>1. CASE stack[1].res \in {"ok", "error"}
    <3>1. "trigger_error_and_close" \notin W /\ stack[2].f \in W /\ 2 \in 1 .. Len(stack)
      BY <1>14, <2>1, ThrowOwners DEF WriteFrames
    <3>2. Has(stack, W) /\ Once(stack, W) /\ conn.wr.st = "none"
      BY <1>1, <3>1 DEF Has, TokenInv
    <3>3. ~Has(stack', W) /\ Once(stack', W)
      BY <1>14, <2>1, <3>1, <3>2, ThrowOwners, Zenon
    <3>4. conn'.wr = conn.wr /\ conn'.out = ResetWriteGroup(conn.out)
      BY <1>1, <1>14, <2>1, Zenon DEF NotificatorThrows, Conns
    <3>5. ~Transmitting(conn'.out)
      BY <1>1, <3>4, OutputFacts
    <3> QED
      BY <3>2, <3>3, <3>4, <3>5, Zenon DEF TokenInv
  <2>2. CASE stack[1].res \notin {"ok", "error"}
    BY <1>5, <1>14, <2>2 DEF NotificatorThrows, Top, Return, WriteFrames
  <2> QED
    BY <2>1, <2>2
<1>15. CASE AfterWrite
  <2> DEFINE a == Frame("write_ctx")
             t == Trigger("connection_lost")
             b == Frame("fail_group")
  <2>1. /\ stack' = <<a>> \/ stack' = <<t, b>>
        /\ conn.wr.st # "none" /\ conn' = [conn EXCEPT !.wr = NoOp]
    BY <1>15 DEF AfterWrite
  <2>2. /\ a \in StackFrames /\ a.f \in W /\ b \in StackFrames /\ b.f \in W
        /\ t \in StackFrames /\ t.f \notin W
    BY FrameFacts DEF SimpleFrames, WriteFrames, Code
  <2> HIDE DEF a, b, t
  <2>3. Has(stack', W) /\ Once(stack', W)
    <3>1. CASE stack' = <<a>>
      BY <2>2, <3>1, OwnerFresh, Zenon
    <3>2. CASE stack' = <<t, b>>
      BY <2>2, <3>2, OwnerFresh, Zenon
    <3> QED
      BY <2>1, <3>1, <3>2
  <2>4. conn'.out = conn.out /\ conn'.wr = NoOp
    BY <1>1, <2>1, Zenon DEF Conns
  <2> QED
    BY <1>1, <2>1, <2>3, <2>4, OpFacts DEF TokenInv
<1>16. CASE Destroy
  <2>1. /\ stack = <<>> /\ stack' = <<>> /\ conn.wr.st = "none"
        /\ conn' = [CloseImpl(conn) EXCEPT !.queue = <<>>, !.out = NewOutput]
    BY <1>16 DEF Destroy
  <2>2. CloseImpl(conn) \in Conns(conn.val) /\ CloseImpl(conn).wr.st = "none"
    BY <1>19, <2>1
  <2>3. conn'.out = NewOutput /\ conn'.wr.st = "none"
    BY <2>1, <2>2, Zenon DEF Conns
  <2> QED
    BY <2>1, <2>3, OwnerFresh, OutputFacts, Zenon DEF TokenInv
<1>17. CASE WriteCompletes \/ WriteFails
  <2>1. stack' = stack /\ conn.wr.st = "running"
    BY <1>17 DEF WriteCompletes, WriteFails
  <2>2. conn'.out = conn.out /\ conn'.wr.st \in {"ok", "error"}
    BY <1>1, <1>17 DEF WriteCompletes, WriteFails, Conns, Ops
  <2> QED
    BY <1>1, <2>1, <2>2, TokenKept
<1>18. CASE Strand
  BY <1>18, <1>2, <1>3, <1>4, <1>6, <1>10, <1>11, <1>12, <1>13, Zenon DEF Strand, AsideNext
<1> QED
  BY <1>2, <1>14, <1>15, <1>16, <1>17, <1>18, Zenon DEF Next, Peer, Time, AsideNext

-----------------------------------------------------------------------------
(* What the reader has read *)

\* A read that is done has brought something, and the connection is activated.
ReadOK(c) == (c.rd.st = "ok" => c.rd.data # <<>>) /\ (c.rd.st # "none" => c.weak)

\* Every step keeps it so.
LEMMA ReaderNext ==
  ASSUME Stepping, Next
  PROVE  ReadOK(conn')
<1>1. /\ conn \in Conns(conn.val) /\ conn.rd \in Ops /\ (conn.weak => conn'.weak) /\ ReadOK(conn)
      /\ net.tokens \in Seq(TokenSet)
  BY DEF Stepping, TypeInv, ConnOK, Conns, OneWay, ReadOK, BufOK, StackInv, EnvOK
<1>2. ASSUME conn'.rd \in {conn.rd, Abort(conn.rd), NoOp} PROVE ReadOK(conn')
  BY <1>1, <1>2, OpFacts DEF ReadOK
<1>3. CloseImpl(conn) \in Conns(conn.val) /\ CloseImpl(conn).rd \in {conn.rd, Abort(conn.rd)}
  BY <1>1, CloseFacts, Zenon
<1>4. ASSUME stack # <<>>, stack[1].f \in Reading PROVE conn'.weak
  BY <1>4, TopFits DEF Adjacent
<1>5. ASSUME conn'.weak, conn'.rd.st \in {"running", "error"} PROVE ReadOK(conn')
  BY <1>5 DEF ReadOK
<1>6. ASSUME NEW what \in {"header", "payload", "skip"}
      PROVE  StartOp(conn, what).st \in {"running", "error"}
  BY <1>1, OpFacts
<1>7. CASE ConsumeHeader \/ ValidatePayloadPart \/ OnMessage
  <2>1. conn'.rd \in {conn.rd, CloseImpl(conn).rd, StartOp(conn, "payload")}
    BY <1>7, ClosingSteps, Zenon DEF ClosingOutput
  <2>2. stack # <<>> /\ stack[1].f \in Reading
    BY <1>7 DEF ConsumeHeader, ValidatePayloadPart, OnMessage, Top, Reading
  <2> QED
    BY <1>2, <1>3, <1>4, <1>5, <1>6, <2>1, <2>2
<1>8. CASE StartReadHeader \/ SkipPayload
  <2>1. conn'.rd \in {conn.rd, StartOp(conn, "header"), StartOp(conn, "skip")}
    BY <1>1, <1>8, Zenon DEF StartReadHeader, SkipPayload, Conns
  <2>2. stack # <<>> /\ stack[1].f \in Reading
    BY <1>8 DEF StartReadHeader, SkipPayload, Top, Reading
  <2> QED
    BY <1>2, <1>4, <1>5, <1>6, <2>1, <2>2
<1>9. CASE CloseNow \/ WaitTimedOut
  BY <1>2, <1>3, <1>9 DEF CloseNow, WaitTimedOut
<1>10. CASE Kill
  <2> DEFINE c == [conn EXCEPT !.toUser = FALSE, !.toPeer = FALSE]
  <2>1. c \in Conns(conn.val) /\ c.rd = conn.rd /\ conn' = CloseImpl(c)
    BY <1>1, <1>10, Zenon DEF Conns, Kill
  <2> HIDE DEF c
  <2>2. CloseImpl(c).rd \in {c.rd, Abort(c.rd)}
    BY <2>1, CloseFacts, Zenon
  <2> QED
    BY <1>2, <2>1, <2>2
<1>11. CASE Destroy
  <2>1. conn' = [CloseImpl(conn) EXCEPT !.queue = <<>>, !.out = NewOutput]
    BY <1>11 DEF Destroy
  <2>2. conn'.rd = CloseImpl(conn).rd
    BY <1>3, <2>1, Zenon DEF Conns
  <2> QED
    BY <1>2, <1>3, <2>2
<1>12. CASE AfterRead
  <2>1. conn'.rd = NoOp
    BY <1>1, <1>12, Zenon DEF AfterRead, Conns
  <2> QED
    BY <1>2, <2>1
<1>13. CASE ReadCompletes
  <2>1. PICK n \in 1 .. Len(net.tokens) :
          conn' = [conn EXCEPT !.rd.st = "ok", !.rd.data = SubSeq(net.tokens, 1, n)]
    BY <1>13, Zenon DEF ReadCompletes
  <2> DEFINE d == SubSeq(net.tokens, 1, n)
  <2>2. d # <<>>
    <3>1. Len(net.tokens) \in Nat /\ n \in Nat /\ 1 <= n /\ n <= Len(net.tokens)
      BY <1>1
    <3>2. \A i \in 1 .. n : net.tokens[i] \in TokenSet
      BY <1>1, <3>1
    <3>3. Len(d) = IF 1 <= n THEN n - 1 + 1 ELSE 0
      BY <3>1, <3>2, SubSeqProperties
    <3>4. Len(d) = n
      BY <3>1, <3>3
    <3> HIDE DEF d
    <3> QED
      BY <3>1, <3>4
  <2>3. conn'.rd = [[conn.rd EXCEPT !.st = "ok"] EXCEPT !.data = d]
    BY <1>1, <2>1 DEF Conns
  <2> HIDE DEF d
  <2>4. conn'.rd.data = d
    BY <1>1, <2>3, Zenon DEF Ops
  <2>5. conn.rd.st = "running"
    BY <1>13 DEF ReadCompletes
  <2> QED
    BY <1>1, <2>2, <2>4, <2>5, SMTT(30) DEF ReadOK
<1>14. CASE ReadFails
  <2>1. conn'.rd = [conn.rd EXCEPT !.st = "error"] /\ conn.rd.st = "running"
    BY <1>1, <1>14, Zenon DEF ReadFails, Conns
  <2>2. conn'.rd.st = "error"
    BY <1>1, <2>1, Zenon DEF Ops
  <2> QED
    BY <1>1, <1>5, <2>1, <2>2 DEF ReadOK
<1>15. CASE InitWrite \/ HandleCurrentWriteCtx \/ FinishWriteGroup \/ FailGroup \/ GroupFailed
            \/ DisableWrite \/ StartWaitingCloseFrameOnly \/ TriggerErrorAndClose
  <2>1. conn'.rd = conn.rd
    BY <1>1, <1>15, Zenon
       DEF InitWrite, HandleCurrentWriteCtx, FinishWriteGroup, FailGroup, GroupFailed, Conns,
           DisableWrite, StartWaitingCloseFrameOnly, WaitCloseFrame, TriggerErrorAndClose
  <2> QED
    BY <1>2, <2>1
<1>16. CASE CallCloseHandlerIfNecessary \/ InitRead \/ ResetProtocolValidator \/ PeerClosed
            \/ GoOnReading
  <2>1. conn'.rd = conn.rd
    BY <1>1, <1>16, Zenon
       DEF CallCloseHandlerIfNecessary, InitRead, ResetProtocolValidator, PeerClosed, GoOnReading,
           Conns
  <2> QED
    BY <1>2, <2>1
<1>17. CASE WriteDataImpl
  <2>1. conn'.rd = conn.rd
    BY <1>1, <1>17, ZenonT(30) DEF WriteDataImpl, WaitCloseFrame, Conns
  <2> QED
    BY <1>2, <2>1
<1>18. CASE Shutdown
  <2>1. conn' = [CloseToPeer(conn) EXCEPT !.toUser = FALSE]
    BY <1>18 DEF Shutdown
  <2>2. conn'.rd = conn.rd
    BY <1>1, <2>1, Zenon DEF CloseToPeer, Conns
  <2> QED
    BY <1>2, <2>2
<1>19. CASE Returns \/ NotificatorThrows \/ RunPosted \/ AfterWrite
  <2>1. conn'.rd = conn.rd
    BY <1>1, <1>19, Zenon
       DEF Returns, HandlerReturns, NotificatorReturns, NotificatorThrows, RunPosted, AfterWrite,
           Conns
  <2> QED
    BY <1>2, <2>1
<1>20. CASE User
  BY <1>2, <1>20, UserSteps
<1>21. CASE PeerSends \/ WriteCompletes \/ WriteFails \/ WriteTimedOut
  <2>1. conn'.rd = conn.rd
    BY <1>1, <1>21, Zenon DEF PeerSends, WriteCompletes, WriteFails, WriteTimedOut, Conns
  <2> QED
    BY <1>2, <2>1
<1>22. CASE Strand
  BY <1>22, <1>7, <1>8, <1>9, <1>10, <1>15, <1>16, <1>17, <1>18, Zenon DEF Strand
<1> QED
  BY <1>9, <1>11, <1>12, <1>13, <1>14, <1>19, <1>20, <1>21, <1>22, Zenon DEF Next, Peer, Time

\* A header is looked for where there is one.
LEMMA BufNext ==
  ASSUME Stepping, Next
  PROVE  First(stack') = "consume_header" => conn'.buf # <<>>
<1> DEFINE Goal == First(stack') = "consume_header" => conn'.buf # <<>>
<1>1. StackOK /\ conn \in Conns(conn.val) /\ stack \in Seq(StackFrames)
  BY DEF Stepping, TypeInv, ConnOK, StackOK
<1>2. ASSUME NEW K, Brings(K), "consume_header" \notin K PROVE Goal
  <2>1. stack # <<>> /\ First(stack') \in K \union {After(stack, 1)}
    BY <1>1, <1>2, BringsOwners, Zenon
  <2>2. After(stack, 1) \in Waiting \union {"end"}
    BY <2>1, TopFits DEF Adjacent
  <2> QED
    BY <1>2, <2>1, <2>2 DEF Waiting
<1>3. ASSUME stack # <<>>, stack' = Tail(stack) PROVE Goal
  <2>1. Brings({})
    BY <1>1, <1>3, PopStack, BringsCalled DEF Called
  <2> QED
    BY <1>2, <2>1
<1>4. CASE \/ InitWrite \/ HandleCurrentWriteCtx \/ FinishWriteGroup \/ FailGroup \/ GroupFailed
           \/ DisableWrite \/ StartWaitingCloseFrameOnly \/ CloseNow
  BY <1>2, <1>4, StepCalls
<1>5. CASE \/ TriggerErrorAndClose \/ CallCloseHandlerIfNecessary \/ InitRead \/ SkipPayload
           \/ GoOnReading \/ PeerClosed \/ WriteDataImpl \/ ResetProtocolValidator \/ Kill
           \/ Returns
  BY <1>2, <1>5, StepCalls DEF Returns
<1>6. ConsumeHeader \/ ValidatePayloadPart \/ OnMessage \/ Shutdown => Goal
  <2>1. "consume_header" \notin FrameKinds /\ "consume_header" \notin ClosingKinds
    BY DEF FrameKinds, ClosingKinds
  <2> QED
    BY <1>2, <2>1, ClosingSteps, StepCalls
<1>7. CASE StartReadHeader
  <2>1. stack # <<>> /\ (stack' = Tail(stack) \/ (conn.buf # <<>> /\ conn'.buf = conn.buf))
    BY <1>1, <1>7, Zenon DEF StartReadHeader, Return, Top, Conns
  <2> QED
    BY <1>3, <2>1
<1>8. ASSUME NEW a \in StackFrames, stack' = <<a>>, a.f # "consume_header" PROVE Goal
  BY <1>8 DEF First
<1>9. ASSUME NEW a \in StackFrames, NEW b, stack' = <<a, b>>, a.f # "consume_header" PROVE Goal
  BY <1>9 DEF First
<1>10. CASE AfterRead
  <2>1. conn.rd.data \in Seq(TokenSet) /\ (conn.rd.st = "ok" => conn.rd.data # <<>>)
    BY <1>1 DEF Conns, Ops, Stepping, BufOK
  <2> DEFINE d == conn.rd.data
             p == Payload(Bytes(d))
             t == Trigger("connection_lost")
             s == Frame("skip_payload")
  <2>2. p \in StackFrames /\ p.f = "payload"
    BY <2>1, TokenFacts, FrameFacts
  <2>3. /\ t \in StackFrames /\ t.f = "trigger_error_and_close"
        /\ s \in StackFrames /\ s.f = "skip_payload"
    BY FrameFacts DEF SimpleFrames, Code
  <2>4. \/ stack' = <<t>> \/ stack' = <<p>> \/ stack' = <<s>>
        \/ conn.rd.st = "ok" /\ conn' = [conn EXCEPT !.rd = NoOp, !.buf = conn.rd.data]
    BY <1>10 DEF AfterRead
  <2> HIDE DEF d, p, t, s
  <2>5. CASE conn.rd.st = "ok" /\ conn' = [conn EXCEPT !.rd = NoOp, !.buf = conn.rd.data]
    <3>1. conn'.buf = conn.rd.data
      BY <1>1, <2>5, Zenon DEF Conns
    <3> QED
      BY <2>1, <2>5, <3>1
  <2> QED
    BY <1>8, <2>2, <2>3, <2>4, <2>5
<1>11. CASE AfterWrite \/ WriteTimedOut
  <2> DEFINE a == Frame("write_ctx")
             t == Trigger("connection_lost")
             h == CloseHandler("unexpected_condition")
  <2>1. stack' = <<a>> \/ (\E b : stack' = <<t, b>>) \/ (\E b : stack' = <<h, b>>)
    BY <1>11, Zenon DEF AfterWrite, WriteTimedOut
  <2>2. /\ a \in StackFrames /\ a.f = "write_ctx" /\ t \in StackFrames
        /\ t.f = "trigger_error_and_close" /\ h \in StackFrames /\ h.f = "close_handler"
    BY FrameFacts DEF SimpleFrames, Code
  <2> HIDE DEF a, t, h
  <2> QED
    BY <1>8, <1>9, <2>1, <2>2
<1>12. CASE RunPosted
  <2> DEFINE a == Head(posted)
  <2>1. /\ posted # <<>> /\ stack' = <<a>> /\ posted \in Seq(StackFrames)
        /\ \A k \in 1 .. Len(posted) : posted[k].f \in Posted
    BY <1>12 DEF RunPosted, Stepping, TypeInv, StackOK, StackInv
  <2>2. a \in StackFrames /\ a = posted[1] /\ 1 \in 1 .. Len(posted)
    BY <2>1
  <2>3. a.f # "consume_header"
    BY <2>1, <2>2 DEF Posted
  <2> HIDE DEF a
  <2> QED
    BY <1>8, <2>1, <2>2, <2>3
<1>13. ASSUME stack' = stack, stack = <<>> \/ UserCode PROVE Goal
  BY <1>13 DEF UserCode, Top, First
<1>14. CASE Destroy \/ WaitTimedOut \/ Peer
  <2>1. stack' = stack /\ (stack = <<>> \/ UserCode)
    BY <1>14, Zenon
       DEF Destroy, WaitTimedOut, Peer, PeerSends, ReadCompletes, ReadFails, WriteCompletes,
           WriteFails, Quiet
  <2> QED
    BY <1>13, <2>1
<1>15. CASE User
  <2>1. CASE \E fr \in StackFrames : fr.f \in Posted /\ stack' = <<fr>> \o stack
    <3>1. PICK fr \in StackFrames : fr.f \in Posted /\ stack' = <<fr>> \o stack
      BY <2>1, Zenon
    <3> DEFINE r == stack'
    <3>2. r # <<>> /\ r[1] = fr
      BY <1>1, <3>1, PushStack
    <3>3. First(r) = fr.f
      BY <3>2 DEF First
    <3> QED
      BY <3>1, <3>3 DEF Posted
  <2>2. CASE stack' = stack
    <3>1. conn' = conn
      BY <1>15, UserSteps
    <3> QED
      BY <2>2, <3>1 DEF Stepping, BufOK, Top, First
  <2> QED
    BY <1>15, <2>1, <2>2, UserSteps, Zenon
<1>16. CASE NotificatorThrows
  <2>1. CASE stack[1].res \in {"ok", "error"}
    <3>1. First(stack') \in {"trigger_error_and_close"} \union Waiting \union {"end"}
      BY <1>16, <2>1, ThrowOwners
    <3> QED
      BY <3>1 DEF Waiting
  <2>2. CASE stack[1].res \notin {"ok", "error"}
    BY <1>3, <1>16, <2>2 DEF NotificatorThrows, Top, Return
  <2> QED
    BY <2>1, <2>2
<1>17. CASE Strand
  BY <1>4, <1>5, <1>6, <1>7, <1>17, Zenon DEF Strand
<1> QED
  BY <1>5, <1>10, <1>11, <1>12, <1>14, <1>15, <1>16, <1>17, Zenon DEF Next, Time

-----------------------------------------------------------------------------
(* Nothing follows a close frame *)

\* One of the groups is a close frame; none but the last is.
Closes(q)     == \E i \in 1 .. Len(q) : q[i].close
NoneBefore(q) == \A i \in 1 .. Len(q) - 1 : ~q[i].close

\* There is a close frame on the wire, at work or in the queue.
CloseSent ==
  \/ Closes(wire) \/ Closes(conn.queue)
  \/ Transmitting(conn.out) /\ conn.out.wg.close

\* The items of the current group are written all at once.
Written(o) == o.next = Len(o.wg.items) + 1

PipeInv ==
  /\ NoneBefore(wire)
  /\ conn.wr.st = "running" => conn.open /\ ~Closes(wire) /\ Written(conn.out)
  /\ conn.open =>
       /\ Closes(wire) => conn.queue = <<>>
       /\ Closes(wire) /\ Transmitting(conn.out) => Written(conn.out)
       /\ Transmitting(conn.out) /\ conn.out.wg.close => conn.queue = <<>>
       /\ NoneBefore(conn.queue)
       /\ CloseSent => ~conn.toPeer /\ (~conn.writable \/ Disabling)
       /\ Transmitting(conn.out) => conn.out.next = 1 \/ Written(conn.out)
       /\ ~Transmitting(conn.out) => conn.out.next = 1

\* A group is appended, or taken.
LEMMA CloseQueue ==
  ASSUME NEW S, NEW q \in Seq(S)
  PROVE  /\ ~Closes(<<>>) /\ NoneBefore(<<>>)
         /\ \A g \in S : /\ Closes(Append(q, g)) <=> Closes(q) \/ g.close
                         /\ ~Closes(q) => NoneBefore(Append(q, g))
         /\ q # <<>> => /\ Closes(q) <=> Head(q).close \/ Closes(Tail(q))
                        /\ NoneBefore(q) => NoneBefore(Tail(q))
                        /\ NoneBefore(q) /\ Head(q).close => Tail(q) = <<>>
<1>1. ~Closes(<<>>) /\ NoneBefore(<<>>)
  BY DEF Closes, NoneBefore
<1>2. ASSUME NEW g \in S
      PROVE  /\ Closes(Append(q, g)) <=> Closes(q) \/ g.close
             /\ ~Closes(q) => NoneBefore(Append(q, g))
  <2> DEFINE r == Append(q, g)
             n == Len(q)
  <2>1. Len(r) = n + 1 /\ n \in Nat /\ (\A i \in 1 .. n : r[i] = q[i]) /\ r[n + 1] = g
    BY AppendProperties
  <2> HIDE DEF r
  <2>2. \A i \in 1 .. n + 1 : i \in 1 .. n \/ i = n + 1
    BY <2>1
  <2>3. n + 1 \in 1 .. n + 1 /\ \A i \in 1 .. n : i \in 1 .. n + 1
    BY <2>1
  <2>4. Len(r) - 1 = n
    BY <2>1
  <2>5. Closes(r) <=> Closes(q) \/ g.close
    BY <2>1, <2>2, <2>3, Zenon DEF Closes, n
  <2>6. ~Closes(q) => NoneBefore(r)
    BY <2>1, <2>4, Zenon DEF Closes, NoneBefore, n
  <2> QED
    BY <2>5, <2>6 DEF r
<1>3. ASSUME q # <<>>
      PROVE  /\ Closes(q) <=> Head(q).close \/ Closes(Tail(q))
             /\ NoneBefore(q) => NoneBefore(Tail(q))
             /\ NoneBefore(q) /\ Head(q).close => Tail(q) = <<>>
  <2> DEFINE r == Tail(q)
             n == Len(q)
             m == Len(r)
  <2>1. /\ r \in Seq(S) /\ m = n - 1 /\ n \in Nat \ {0}
        /\ \A k \in 1 .. n - 1 : k + 1 \in 2 .. n /\ r[k] = q[k + 1]
    BY <1>3, PopStack
  <2>2. Head(q) = q[1]
    BY <1>3
  <2> HIDE DEF r
  <2>3. m \in Nat /\ \A k \in 1 .. m : k + 1 \in 1 .. n /\ r[k] = q[k + 1]
    BY <2>1
  <2>4. ASSUME NEW i \in 1 .. n, i # 1 PROVE \E k \in 1 .. m : i = k + 1
    <3>1. i - 1 \in 1 .. m /\ i = (i - 1) + 1
      BY <2>1, <2>4
    <3> QED
      BY <3>1
  <2>5. 1 \in 1 .. n
    BY <2>1
  <2>6. Closes(q) <=> Head(q).close \/ Closes(r)
    BY <2>2, <2>3, <2>4, <2>5, Zenon DEF Closes, n, m
  <2>7. \A k \in 1 .. m - 1 : k \in 1 .. m /\ k + 1 \in 1 .. n - 1
    BY <2>1, <2>3
  <2>8. NoneBefore(q) => NoneBefore(r)
    BY <2>3, <2>7, Zenon DEF NoneBefore, n, m
  <2>9. ASSUME NoneBefore(q), Head(q).close PROVE r = <<>>
    <3>1. ~(1 \in 1 .. n - 1)
      BY <2>2, <2>9 DEF NoneBefore
    <3>2. m = 0
      BY <2>1, <3>1
    <3> QED
      BY <2>1, <3>2
  <2> QED
    BY <2>6, <2>8, <2>9 DEF r
<1> QED
  BY <1>1, <1>2, <1>3

\* A closed socket writes nothing.
LEMMA PipeClosed ==
  ASSUME PipeInv, wire' = wire, ~conn'.open, conn'.wr.st # "running"
  PROVE  PipeInv'
BY Zenon DEF PipeInv

\* The output stays as it is.
LEMMA PipeKept ==
  ASSUME Stepping, PipeInv, KeepsOutput, Disabling => Disabling'
  PROVE  PipeInv'
<1>1. CASE conn'.wr = conn.wr /\ conn'.open = conn.open
  <2>1. conn'.toPeer => conn.toPeer
    BY DEF Stepping, OneWay
  <2>2. CloseSent' = CloseSent
    BY DEF CloseSent, KeepsOutput
  <2> QED
    BY <1>1, <2>1, <2>2, Zenon DEF PipeInv, KeepsOutput
<1>2. CASE ~conn'.open /\ conn'.wr.st # "running"
  BY <1>2, PipeClosed DEF KeepsOutput
<1> QED
  BY <1>1, <1>2 DEF KeepsOutput

\* A group is queued: a close frame only when none was sent, and nothing after one.
LEMMA PipeQueued ==
  ASSUME Stepping, PipeInv, conn.open, ~CloseSent, NEW g \in Groups,
         conn'.queue = Append(conn.queue, g), conn'.out = conn.out, conn'.wr = conn.wr,
         conn'.open = conn.open, wire' = wire,
         g.close => ~conn'.toPeer /\ (~conn'.writable \/ Disabling')
  PROVE  PipeInv'
<1>1. conn.queue \in Seq(Groups)
  BY DEF Stepping, TypeInv, ConnOK, Conns
<1>2. /\ Closes(conn'.queue) <=> Closes(conn.queue) \/ g.close
      /\ ~Closes(conn.queue) => NoneBefore(conn'.queue)
  BY <1>1, CloseQueue
<1>3. /\ ~Closes(wire) /\ ~Closes(conn.queue)
      /\ ~(Transmitting(conn.out) /\ conn.out.wg.close)
  BY DEF CloseSent
<1>4. CloseSent' => g.close
  BY <1>2, <1>3 DEF CloseSent
<1> QED
  BY <1>2, <1>3, <1>4, Zenon DEF PipeInv

\* The group at work is done with, and its frame with it.
LEMMA PipeReset ==
  ASSUME PipeInv, ~Disabling, conn'.out = NewOutput, conn'.wr = conn.wr, conn.wr.st = "none",
         conn'.queue = conn.queue, conn'.open = conn.open, conn'.toPeer = conn.toPeer,
         conn'.writable = conn.writable, wire' = wire
  PROVE  PipeInv'
<1>1. ~Transmitting(conn'.out) /\ conn'.out.next = 1
  BY OutputFacts
<1>2. CloseSent' => CloseSent
  BY <1>1, Zenon DEF CloseSent
<1>3. conn'.wr.st # "running"
  OBVIOUS
<1> QED
  BY <1>1, <1>2, <1>3, Zenon DEF PipeInv

\* The next group is taken from the queue.
LEMMA PipeTaken ==
  ASSUME Stepping, PipeInv, InitWrite
  PROVE  PipeInv'
<1>1. /\ stack # <<>> /\ stack[1].f = "init_write" /\ wire' = wire
      /\ StackOK /\ conn \in Conns(conn.val) /\ conn.queue \in Seq(Groups) /\ conn.out \in Outputs
      /\ TokenInv /\ First(stack) = "init_write" /\ Linked(conn, stack) /\ OneWay(conn, conn')
  BY DEF Stepping, TypeInv, ConnOK, Conns, InitWrite, Top, hist, First, StackInv
<1>2. CASE Transmitting(conn.out) \/ conn.queue = <<>>
  <2>1. stack' = Tail(stack) /\ conn' = conn
    BY <1>2 DEF InitWrite, Return
  <2>2. Called(<<>>)
    BY <1>1, <2>1, PopStack DEF Called, StackOK
  <2>3. First(stack') = After(stack, 1)
    BY <1>1, <2>2, Calls0 DEF Shape
  <2>4. Disabling => Disabling'
    BY <1>1, <2>3 DEF Disabling
  <2>5. KeepsOutput
    BY <1>1, <2>1 DEF KeepsOutput
  <2> QED
    BY <2>4, <2>5, PipeKept
<1>3. CASE ~Transmitting(conn.out) /\ conn.queue # <<>>
  <2> DEFINE a == Frame("write_ctx")
             q == conn.queue
  <2>1. /\ Called(<<a>>)
        /\ conn' = [conn EXCEPT !.out = StartNextWriteGroup(@, Head(conn.queue)),
                                !.queue = Tail(@)]
    BY <1>1, <1>3 DEF InitWrite, Call, Called
  <2>2. a \in StackFrames /\ a.f = "write_ctx"
    BY FrameFacts DEF SimpleFrames
  <2> HIDE DEF a
  <2>3. Adjacent(conn', a, After(stack, 1))
    BY <1>1, <2>2, TopFits DEF Adjacent, Reading
  <2>4. First(stack') = "write_ctx" /\ After(stack', 1) = After(stack, 1)
    BY <1>1, <2>1, <2>2, <2>3, Calls1 DEF Shape
  <2>5. Disabling => Disabling'
    BY <1>1, <2>4 DEF Disabling
  <2>6. /\ conn'.out = StartNextWriteGroup(conn.out, Head(q)) /\ conn'.queue = Tail(q)
        /\ conn'.wr = conn.wr /\ conn'.open = conn.open /\ conn'.toPeer = conn.toPeer
        /\ conn'.writable = conn.writable
    BY <1>1, <2>1, Zenon DEF Conns
  <2>7. Head(q) \in Groups
    BY <1>1, <1>3
  <2>8. conn'.out.wg = Head(q) /\ conn'.out.next = conn.out.next /\ Transmitting(conn'.out)
    <3> DEFINE h == Head(q)
               o == conn.out
    <3>1. h \in Groups /\ o \in Outputs /\ conn'.out = StartNextWriteGroup(o, h)
      BY <1>1, <2>6, <2>7
    <3> HIDE DEF h, o
    <3>2. /\ StartNextWriteGroup(o, h).wg = h /\ StartNextWriteGroup(o, h).next = o.next
          /\ Transmitting(StartNextWriteGroup(o, h))
      BY <3>1, OutputFacts
    <3> QED
      BY <3>1, <3>2 DEF h, o
  <2>9. /\ Closes(q) <=> Head(q).close \/ Closes(conn'.queue)
        /\ NoneBefore(q) => NoneBefore(conn'.queue)
        /\ NoneBefore(q) /\ Head(q).close => conn'.queue = <<>>
    BY <1>1, <1>3, <2>6, CloseQueue
  <2>10. conn'.wr.st # "running"
    BY <1>1, <1>3, <2>6 DEF TokenInv
  <2>11. CloseSent' => CloseSent
    BY <1>1, <2>8, <2>9, Zenon DEF CloseSent
  <2>12. conn.open => /\ ~Closes(wire) /\ conn.out.next = 1 /\ NoneBefore(q)
                      /\ CloseSent => ~conn.toPeer /\ (~conn.writable \/ Disabling)
    BY <1>3, Zenon DEF PipeInv
  <2>13. NoneBefore(wire)
    BY DEF PipeInv
  <2> HIDE DEF q
  <2> QED
    BY <1>1, <2>5, <2>6, <2>8, <2>9, <2>10, <2>11, <2>12, <2>13, Zenon DEF PipeInv
<1> QED
  BY <1>2, <1>3

\* A write is started, or the group is found to be written.
LEMMA PipeWritten ==
  ASSUME Stepping, PipeInv, HandleCurrentWriteCtx
  PROVE  PipeInv'
<1>1. /\ stack # <<>> /\ stack[1].f = "write_ctx" /\ wire' = wire
      /\ StackOK /\ conn \in Conns(conn.val) /\ conn.out \in Outputs
      /\ First(stack) = "write_ctx" /\ Linked(conn, stack) /\ OneWay(conn, conn')
  BY DEF Stepping, TypeInv, ConnOK, Conns, HandleCurrentWriteCtx, Top, hist, First, StackInv
<1>2. Transmitting(conn.out) /\ conn.wr.st = "none" /\ conn.out.wg \in Groups
  BY TopFacts DEF HandleCurrentWriteCtx, Stepping, WriteFrames
<1>3. Len(conn.out.wg.items) \in Nat \ {0} /\ conn.out.next \in Nat \ {0}
  <2>1. Len(conn.out.wg.items) \in 1 .. 2
    BY <1>2, GroupFacts
  <2>2. conn.out.next \in Nat \ {0}
    BY <1>1 DEF Outputs
  <2>3. \A n \in 1 .. 2 : n \in Nat \ {0}
    OBVIOUS
  <2> QED
    BY <2>1, <2>2, <2>3, Zenon
<1>4. NextOperation(conn.out) = "trivial" <=> conn.out.next <= Len(conn.out.wg.items)
  <2>1. NextOperation(conn.out) = IF conn.out.next > Len(conn.out.wg.items) THEN "none" ELSE "trivial"
    BY <1>1, <1>2, OutputFacts
  <2> QED
    BY <1>3, <2>1
<1>5. CASE NextOperation(conn.out) = "trivial"
  <2>1. /\ stack' = Tail(stack)
        /\ conn' = [conn EXCEPT !.out = ExtractNextWriteOperation(@), !.wr = StartOp(conn, "write")]
    BY <1>5 DEF HandleCurrentWriteCtx, Return
  <2>2. Called(<<>>)
    BY <1>1, <2>1, PopStack DEF Called, StackOK
  <2>3. First(stack') = After(stack, 1)
    BY <1>1, <2>2, Calls0 DEF Shape
  <2>4. Disabling => Disabling'
    BY <1>1, <2>3 DEF Disabling
  <2>5. /\ conn'.out = ExtractNextWriteOperation(conn.out) /\ conn'.wr = StartOp(conn, "write")
        /\ conn'.queue = conn.queue /\ conn'.open = conn.open /\ conn'.toPeer = conn.toPeer
        /\ conn'.writable = conn.writable
    BY <1>1, <2>1, Zenon DEF Conns
  <2>6. conn'.out.wg = conn.out.wg /\ Written(conn'.out)
    <3> DEFINE o == conn.out
    <3>1. o \in Outputs /\ Transmitting(o) /\ NextOperation(o) = "trivial"
          /\ conn'.out = ExtractNextWriteOperation(o)
      BY <1>1, <1>2, <1>5, <2>5
    <3> HIDE DEF o
    <3>2. /\ ExtractNextWriteOperation(o).wg = o.wg
          /\ ExtractNextWriteOperation(o).next = Len(o.wg.items) + 1
      BY <3>1, OutputFacts, Zenon
    <3> QED
      BY <3>1, <3>2, Zenon DEF Written, o
  <2>7. Transmitting(conn'.out)
    BY <1>2, <2>6 DEF Transmitting
  <2>8. ~Written(conn.out)
    BY <1>3, <1>4, <1>5 DEF Written
  <2>9. CloseSent' = CloseSent
    BY <1>1, <1>2, <2>5, <2>6, <2>7 DEF CloseSent
  <2>10. ~conn.open => conn'.wr.st # "running"
    <3>1. ~conn.open => StartOp(conn, "write").st = "error"
      BY DEF StartOp
    <3> QED
      BY <2>5, <3>1
  <2>11. conn.open => ~Closes(wire)
    BY <1>2, <2>8, Zenon DEF PipeInv
  <2> QED
    BY <1>1, <1>2, <2>4, <2>5, <2>6, <2>7, <2>9, <2>10, <2>11, Zenon DEF PipeInv
<1>6. CASE NextOperation(conn.out) # "trivial"
  <2>1. conn' = conn
    BY <1>6 DEF HandleCurrentWriteCtx
  <2>2. conn.open => ~Disabling
    <3>1. conn.out.next # 1
      BY <1>3, <1>4, <1>6
    <3>2. conn.open /\ First(stack) = "write_ctx" /\ After(stack, 1) = "disable_write"
            => conn.out.next = 1
      BY DEF Stepping, StackInv
    <3> QED
      BY <1>1, <3>1, <3>2 DEF Disabling
  <2>3. CloseSent' = CloseSent
    BY <1>1, <2>1 DEF CloseSent
  <2> QED
    BY <1>1, <2>1, <2>2, <2>3, Zenon DEF PipeInv
<1> QED
  BY <1>5, <1>6

\* user code sends a message or a close frame.
LEMMA PipeSent ==
  ASSUME Stepping, PipeInv, WriteDataImpl
  PROVE  PipeInv'
<1> DEFINE g == stack[1].g
<1>1. /\ stack # <<>> /\ stack[1].f = "write_data" /\ wire' = wire /\ conn \in Conns(conn.val)
      /\ First(stack) = "write_data"
  BY DEF Stepping, TypeInv, ConnOK, WriteDataImpl, Top, First
<1>2. g \in Groups
  BY <1>1, TopFits, FrameFacts
<1>3. ~Disabling
  BY <1>1 DEF Disabling
<1> HIDE DEF g
<1>4. CASE conn.writable /\ conn.open
  <2>1. ~CloseSent
    BY <1>3, <1>4, Zenon DEF PipeInv
  <2>2. CASE g.close
    <3> DEFINE c == WaitCloseFrame([conn EXCEPT !.toPeer = FALSE, !.toUser = FALSE,
                                                !.writable = FALSE])
    <3>1. conn' = [c EXCEPT !.queue = Append(@, g)]
      BY <1>4, <2>2, Zenon DEF WriteDataImpl, g
    <3>2. /\ conn'.queue = Append(conn.queue, g) /\ conn'.out = conn.out /\ conn'.wr = conn.wr
          /\ conn'.open = conn.open /\ conn'.toPeer = FALSE /\ conn'.writable = FALSE
      BY <1>1, <3>1, Zenon DEF WaitCloseFrame, Conns
    <3> HIDE DEF c
    <3> QED
      BY <1>1, <1>2, <1>4, <2>1, <3>2, PipeQueued
  <2>3. CASE ~g.close
    <3>1. conn' = [conn EXCEPT !.queue = Append(@, g)]
      BY <1>4, <2>3, Zenon DEF WriteDataImpl, g
    <3>2. /\ conn'.queue = Append(conn.queue, g) /\ conn'.out = conn.out /\ conn'.wr = conn.wr
          /\ conn'.open = conn.open
      BY <1>1, <3>1, Zenon DEF Conns
    <3> QED
      BY <1>1, <1>2, <1>4, <2>1, <2>3, <3>2, PipeQueued
  <2> QED
    BY <2>2, <2>3
<1>5. CASE ~(conn.writable /\ conn.open)
  <2>1. conn' = conn
    BY <1>5, Zenon DEF WriteDataImpl
  <2>2. KeepsOutput
    BY <1>1, <2>1 DEF KeepsOutput
  <2> QED
    BY <1>3, <2>2, PipeKept
<1> QED
  BY <1>4, <1>5

\* The socket takes a group, which is the first one with a close frame if it has one.
LEMMA PipeTransferred ==
  ASSUME Stepping, PipeInv, WriteCompletes
  PROVE  PipeInv'
<1> DEFINE g == conn.out.wg
           S == Groups \union {NoGroup}
<1>1. /\ conn \in Conns(conn.val) /\ wire \in Seq(S) /\ g \in S /\ conn.wr.st = "running"
      /\ wire' = Append(wire, g) /\ stack' = stack /\ conn' = [conn EXCEPT !.wr.st = "ok"]
      /\ TokenInv
  BY DEF Stepping, TypeInv, ConnOK, HistOK, WriteCompletes, Conns, Outputs
<1>2. conn.open /\ ~Closes(wire) /\ Written(conn.out)
  BY <1>1 DEF PipeInv
<1> HIDE DEF g, S
<1>3. (Closes(wire') <=> Closes(wire) \/ g.close) /\ NoneBefore(wire')
  BY <1>1, <1>2, CloseQueue
<1>4. /\ conn'.queue = conn.queue /\ conn'.open = conn.open /\ conn'.toPeer = conn.toPeer
      /\ conn'.writable = conn.writable /\ conn'.out = conn.out
  BY <1>1, Zenon DEF Conns
<1>5. conn'.wr.st # "running"
  BY <1>1 DEF Conns, Ops
<1>6. Transmitting(conn.out)
  BY <1>1 DEF TokenInv
<1>7. CloseSent' => CloseSent
  BY <1>2, <1>3, <1>4, <1>6, Zenon DEF CloseSent, g
<1>8. Disabling' = Disabling
  BY <1>1 DEF Disabling
<1> QED
  BY <1>2, <1>3, <1>4, <1>5, <1>6, <1>7, <1>8, Zenon DEF PipeInv, g

\* Every step keeps close frames last.
LEMMA PipeNext ==
  ASSUME Stepping, PipeInv, Next
  PROVE  PipeInv'
<1>1. /\ StackOK /\ conn \in Conns(conn.val) /\ conn.out \in Outputs /\ conn.wr \in Ops
      /\ TokenInv /\ OneWay(conn, conn')
  BY DEF Stepping, TypeInv, ConnOK, Conns
<1>2. stack = <<>> \/ UserCode => ~Disabling
  BY DEF UserCode, Top, Disabling, First
<1>3. CloseImpl(conn) \in Conns(conn.val) /\ ~CloseImpl(conn).open
      /\ CloseImpl(conn).wr.st # "running"
  <2>1. CloseImpl(conn) \in Conns(conn.val) /\ ~CloseImpl(conn).open
        /\ (conn.open => CloseImpl(conn).wr.st # "running")
    BY <1>1, CloseFacts, Zenon
  <2>2. ~conn.open => CloseImpl(conn) = conn /\ conn.wr.st # "running"
    BY DEF CloseImpl, PipeInv
  <2> QED
    BY <2>1, <2>2
<1>4. CASE AsideNext
  BY <1>4, AsideOutput, AsideOwners, PipeKept DEF KeepsOwners
<1>5. CASE ConsumeHeader \/ ValidatePayloadPart \/ OnMessage \/ Shutdown
  <2>1. ClosingOutput /\ wire' = wire
    BY <1>5, ClosingSteps, Zenon DEF ConsumeHeader, ValidatePayloadPart, OnMessage, Shutdown, hist
  <2>2. ~Disabling
    BY <1>5 DEF ConsumeHeader, ValidatePayloadPart, OnMessage, Shutdown, Top, Disabling, First
  <2>3. CASE conn'.queue = conn.queue /\ conn'.wr = conn.wr /\ conn'.open = conn.open
    BY <2>1, <2>2, <2>3, PipeKept DEF ClosingOutput, KeepsOutput
  <2>4. CASE ~conn'.open /\ conn'.wr = CloseImpl(conn).wr
    BY <1>3, <2>1, <2>4, PipeClosed
  <2>5. CASE /\ conn.toPeer /\ ~conn'.toPeer /\ conn'.queue = Append(conn.queue, CloseGroup)
             /\ conn'.wr = conn.wr /\ conn'.open = conn.open
             /\ First(stack') = "init_write" /\ After(stack', 1) = "disable_write"
    <3>1. Disabling'
      BY <2>5 DEF Disabling
    <3>2. CloseGroup \in Groups
      <4>1. OwnClose \in 0 .. OwnClose /\ 2 \in 1 .. 2
        BY WsConnectionAssumption DEF OwnClose
      <4> QED
        BY <4>1, GroupFacts, Zenon DEF CloseGroup
    <3>3. CASE conn.open
      <4>1. ~CloseSent
        BY <2>5, <3>3, Zenon DEF PipeInv
      <4> QED
        BY <2>1, <2>5, <3>1, <3>2, <3>3, <4>1, PipeQueued DEF ClosingOutput
    <3>4. CASE ~conn.open
      BY <2>1, <2>5, <3>4, PipeClosed DEF PipeInv
    <3> QED
      BY <3>3, <3>4
  <2> QED
    BY <2>1, <2>3, <2>4, <2>5, SMTT(30) DEF ClosingOutput
<1>6. CASE DisableWrite
  <2>1. /\ conn'.queue = conn.queue /\ conn'.open = conn.open /\ conn'.toPeer = conn.toPeer
        /\ conn'.writable = FALSE /\ conn'.out = conn.out /\ conn'.wr = conn.wr /\ wire' = wire
    BY <1>1, <1>6, Zenon DEF DisableWrite, Conns, hist
  <2>2. CloseSent' = CloseSent
    BY <2>1 DEF CloseSent
  <2> QED
    BY <2>1, <2>2, Zenon DEF PipeInv
<1>7. CASE FailGroup \/ GroupFailed
  <2>1. stack # <<>> /\ stack[1].f \in {"fail_group", "group_failed"}
    BY <1>7 DEF FailGroup, GroupFailed, Top
  <2>2. ~conn.open
    <3>1. Adjacent(conn, stack[1], After(stack, 1)) /\ First(stack) = stack[1].f
      BY <2>1, TopFits
    <3> QED
      BY <2>1, <3>1 DEF Adjacent, Stepping, StackInv
  <2>3. wire' = wire /\ conn'.wr = conn.wr
    BY <1>1, <1>7, Zenon DEF FailGroup, GroupFailed, hist, Conns
  <2>4. ~conn'.open /\ conn'.wr.st # "running"
    BY <1>1, <2>2, <2>3 DEF OneWay, PipeInv
  <2> QED
    BY <2>3, <2>4, PipeClosed
<1>8. ASSUME conn' = [conn EXCEPT !.out = ResetWriteGroup(@)], wire' = wire, ~Disabling,
             conn.wr.st = "none"
      PROVE  PipeInv'
  <2>1. /\ conn'.queue = conn.queue /\ conn'.open = conn.open /\ conn'.toPeer = conn.toPeer
        /\ conn'.writable = conn.writable /\ conn'.out = ResetWriteGroup(conn.out)
        /\ conn'.wr = conn.wr
    BY <1>1, <1>8, Zenon DEF Conns
  <2>2. conn'.out = NewOutput
    BY <1>1, <2>1, OutputFacts
  <2> QED
    BY <1>8, <2>1, <2>2, PipeReset
<1>9. CASE FinishWriteGroup
  <2>1. /\ conn' = [conn EXCEPT !.out = ResetWriteGroup(@)] /\ wire' = wire
        /\ Top("finish_group")
    BY <1>9 DEF FinishWriteGroup, hist
  <2>2. ~Disabling
    BY <2>1 DEF Top, Disabling, First
  <2>3. conn.wr.st = "none"
    BY <2>1, TopFacts DEF Stepping, WriteFrames
  <2> QED
    BY <1>8, <2>1, <2>2, <2>3
<1>10. CASE NotificatorThrows
  <2>1. wire' = wire /\ ~Disabling
    BY <1>2, <1>10 DEF NotificatorThrows, UserCode, hist
  <2>2. CASE stack[1].res \in {"ok", "error"}
    <3>1. Has(stack, WriteFrames)
      BY <1>10, <2>2, ThrowOwners DEF Has, WriteFrames
    <3>2. conn.wr.st = "none" /\ conn' = [conn EXCEPT !.out = ResetWriteGroup(@)]
      BY <1>1, <1>10, <2>2, <3>1 DEF NotificatorThrows, TokenInv
    <3> QED
      BY <1>8, <2>1, <3>2
  <2>3. CASE stack[1].res \notin {"ok", "error"}
    BY <1>10, <2>1, <2>3, PipeKept DEF NotificatorThrows, KeepsOutput
  <2> QED
    BY <2>2, <2>3
<1>11. CASE AfterWrite
  <2>1. /\ conn'.queue = conn.queue /\ conn'.open = conn.open /\ conn'.toPeer = conn.toPeer
        /\ conn'.writable = conn.writable /\ conn'.out = conn.out /\ conn'.wr = NoOp
        /\ wire' = wire /\ stack = <<>>
    BY <1>1, <1>11, Zenon DEF AfterWrite, Conns, hist
  <2>2. CloseSent' = CloseSent
    BY <2>1 DEF CloseSent
  <2>3. ~Disabling /\ conn'.wr.st # "running"
    BY <1>2, <2>1, OpFacts
  <2> QED
    BY <2>1, <2>2, <2>3, Zenon DEF PipeInv
<1>12. CASE WriteFails
  <2>1. /\ conn'.queue = conn.queue /\ conn'.open = conn.open /\ conn'.toPeer = conn.toPeer
        /\ conn'.writable = conn.writable /\ conn'.out = conn.out
        /\ wire' = wire /\ stack = <<>>
    BY <1>1, <1>12, Zenon DEF WriteFails, Conns, hist
  <2>2. CloseSent' = CloseSent
    BY <2>1 DEF CloseSent
  <2>3. ~Disabling /\ conn'.wr.st # "running"
    BY <1>1, <1>2, <1>12, <2>1 DEF WriteFails, Conns, Ops
  <2> QED
    BY <2>1, <2>2, <2>3, Zenon DEF PipeInv
<1>13. CASE Destroy
  <2>1. conn' = [CloseImpl(conn) EXCEPT !.queue = <<>>, !.out = NewOutput] /\ wire' = wire
    BY <1>13 DEF Destroy
  <2>2. ~conn'.open /\ conn'.wr = CloseImpl(conn).wr
    BY <1>3, <2>1, Zenon DEF Conns
  <2> QED
    BY <1>3, <2>1, <2>2, PipeClosed
<1>14. CASE InitWrite \/ HandleCurrentWriteCtx \/ WriteDataImpl \/ WriteCompletes
  BY <1>14, PipeTaken, PipeWritten, PipeSent, PipeTransferred
<1>15. CASE Strand
  BY <1>15, <1>4, <1>5, <1>6, <1>7, <1>9, <1>14, Zenon DEF Strand, AsideNext
<1> QED
  BY <1>4, <1>10, <1>11, <1>12, <1>13, <1>14, <1>15, Zenon DEF Next, Peer, Time, AsideNext

\* The inductive invariant.
OutputInv == TypeInv /\ TokenInv /\ BufOK /\ StackInv /\ PipeInv

\* A connection starts with the response to the upgrade on its way.
LEMMA OutputInit ==
  ASSUME Init
  PROVE  OutputInv
<1> DEFINE g == Group(0, FALSE, 1)
<1>1. g \in Groups /\ WriteData(g) \in StackFrames /\ WriteData(g).f = "write_data"
  <2>1. 0 \in 0 .. OwnClose /\ 1 \in 1 .. 2
    BY WsConnectionAssumption DEF OwnClose
  <2>2. g \in Groups
    BY <2>1, GroupFacts, Zenon
  <2> QED
    BY <2>2, FrameFacts, Zenon
<1>2. ConnOK /\ ReadOK(conn) /\ conn.out = NewOutput /\ conn.wr = NoOp /\ conn.queue = <<>>
  <2>1. NoFrame \in Header
    BY DEF NoFrame, Header, Opcodes
  <2>2. NewOutput \in Outputs /\ NoOp \in Ops /\ NoOp.st = "none"
    BY OpFacts, OutputFacts
  <2>3. conn = [open |-> TRUE, rstate |-> "nothing", writable |-> TRUE,
                toUser |-> TRUE, toPeer |-> TRUE, queue |-> <<>>, out |-> NewOutput,
                rd |-> NoOp, wr |-> NoOp, buf |-> <<>>, msg |-> NoFrame, rest |-> 0,
                val |-> NewValidator, wait |-> FALSE, weak |-> FALSE]
    BY DEF Init
  <2>4. ConnOK
    BY <2>1, <2>2, <2>3 DEF ConnOK, Conns
  <2>5. conn.out = NewOutput /\ conn.wr = NoOp /\ conn.queue = <<>> /\ conn.rd = NoOp
    BY <2>3
  <2> QED
    BY <2>2, <2>4, <2>5 DEF ReadOK
<1>3. stack = <<>> /\ posted = <<WriteData(g)>> /\ wire = <<>>
  BY DEF Init
<1> HIDE DEF g
<1>4. StackOK /\ \A k \in 1 .. Len(posted) : posted[k].f \in Posted
  BY <1>1, <1>3 DEF StackOK, Posted
<1>5. EnvOK
  <2>1. PICK script \in PeerScripts : net = [left |-> script, tokens |-> <<>>]
    BY DEF Init
  <2>2. script \in Seq(PeerFrames)
    BY WsConnectionAssumption, Zenon DEF PeerFrames
  <2>3. net \in [left : Seq(PeerFrames), tokens : Seq(TokenSet)]
    BY <2>1, <2>2
  <2>4. used = [activated |-> FALSE, sends |-> 0] /\ 0 \in 0 .. MaxSends
    BY WsConnectionAssumption DEF Init
  <2>5. used \in [activated : BOOLEAN, sends : 0 .. MaxSends]
    BY <2>4
  <2>6. timer = "off" /\ handle = "owned" /\ dead = FALSE
    BY DEF Init
  <2> QED
    BY <2>3, <2>5, <2>6, Zenon DEF EnvOK
<1>6. HistOK
  BY DEF HistOK, Init
<1>7. TokenInv
  BY <1>2, <1>3, OwnerFresh, OpFacts, OutputFacts, Zenon DEF TokenInv
<1>8. BufOK /\ StackInv
  <2>1. Linked(conn, stack) /\ First(stack) = "end"
    BY <1>3 DEF Linked, First
  <2>2. conn.out.next = 1
    BY <1>2, OutputFacts
  <2>3. BufOK
    BY <1>2, <1>3 DEF BufOK, ReadOK, Top
  <2>4. conn.rd.st # "none" => conn.weak
    BY <1>2 DEF ReadOK
  <2> QED
    BY <1>4, <2>1, <2>2, <2>3, <2>4, Zenon DEF StackInv
<1>9. PipeInv
  <2>1. ~Closes(<<>>) /\ NoneBefore(<<>>)
    BY DEF Closes, NoneBefore
  <2>2. ~CloseSent
    BY <1>2, <1>3, <2>1, OutputFacts DEF CloseSent
  <2> QED
    BY <1>2, <1>3, <2>1, <2>2, OutputFacts, OpFacts DEF PipeInv
<1> QED
  BY <1>2, <1>4, <1>5, <1>6, <1>7, <1>8, <1>9 DEF OutputInv, TypeInv

\* Every step keeps the invariant.
LEMMA OutputNext ==
  ASSUME OutputInv, Next
  PROVE  OutputInv'
<1>1. /\ Stepping /\ SoundStack /\ posted' \in Seq(StackFrames)
      /\ \A k \in 1 .. Len(posted') : posted'[k].f \in Posted
  BY SoundNext DEF OutputInv
<1>2. TokenInv' /\ ReadOK(conn') /\ (First(stack') = "consume_header" => conn'.buf # <<>>)
  BY <1>1, TokenNext, ReaderNext, BufNext
<1>3. EnvOK' /\ HistOK'
  BY <1>1, TypesNext
<1>4. PipeInv'
  BY <1>1, PipeNext DEF OutputInv
<1>5. TypeInv'
  BY <1>1, <1>3, Zenon DEF TypeInv, StackOK, Stepping, SoundStack
<1>6. BufOK'
  BY <1>2, Zenon DEF BufOK, Top, First, ReadOK
<1>7. conn'.open /\ ~Transmitting(conn'.out) => conn'.out.next = 1
  BY <1>4, Zenon DEF PipeInv
<1>8. StackInv'
  BY <1>1, <1>2, <1>7, Zenon DEF StackInv, SoundStack, ReadOK
<1> QED
  BY <1>2, <1>4, <1>5, <1>6, <1>8, Zenon DEF OutputInv

\* The invariant holds.
LEMMA OutputAlways == Spec => []OutputInv
<1>1. Init => OutputInv
  BY OutputInit
<1>2. OutputInv /\ [Next]_vars => OutputInv'
  <2>1. CASE Next
    BY <2>1, OutputNext
  <2>2. CASE UNCHANGED vars
    <3>1. TypeInv' = TypeInv
      BY <2>2 DEF vars, TypeInv, ConnOK, StackOK, EnvOK, HistOK
    <3>2. TokenInv' = TokenInv /\ BufOK' = BufOK
      BY <2>2 DEF vars, TokenInv, BufOK, Top
    <3>3. StackInv' = StackInv
      BY <2>2 DEF vars, StackInv
    <3>4. CloseSent' = CloseSent /\ Disabling' = Disabling
      BY <2>2 DEF vars, CloseSent, Disabling
    <3>5. PipeInv' = PipeInv
      BY <2>2, <3>4 DEF vars, PipeInv
    <3> QED
      BY <3>1, <3>2, <3>3, <3>5 DEF OutputInv
  <2> QED
    BY <2>1, <2>2
<1> QED
  BY <1>1, <1>2, PTL DEF Spec

\* Nothing is written after a close frame, for any number of messages, any frames of the peer
\* and any order of what user code, the peer and the timers do: neither ws_connection_t's
\* write_data_impl() nor send_close_frame_to_peer() queues a group behind a close frame that
\* is queued, at work or on the wire.
THEOREM NothingFollowsCloseFrame == Spec => []NothingAfterCloseFrame
<1>1. OutputInv => NothingAfterCloseFrame
  BY Zenon DEF OutputInv, PipeInv, NoneBefore, NothingAfterCloseFrame
<1> QED
  BY <1>1, OutputAlways, PTL

\* A write group has one owner: while a write of the socket is under way no frame of the
\* handler that runs works on the group, and one frame at most does at any time; there is
\* such a write or such a frame as long as a group is being transmitted.
THEOREM OneOwner == Spec => []TokenInv
<1>1. OutputInv => TokenInv
  BY DEF OutputInv
<1> QED
  BY <1>1, OutputAlways, PTL
=============================================================================
