--------------------------- MODULE WsStackProofs ----------------------------
(***************************************************************************)
(* The calls of the handlers of a WebSocket connection nest as the code    *)
(* nests them, and which frames a step brings.                             *)
(***************************************************************************)
EXTENDS WsConnectionProofs

-----------------------------------------------------------------------------
(* Steps that leave the stack in order *)

\* A frame returns; only close_impl() may return to fail_group.
LEMMA SoundReturn ==
  ASSUME Stepping, stack # <<>>, stack' = Tail(stack) \/ Called(<<>>),
         stack[1].f \notin {"close_impl", "trigger_error_and_close"} \/ ~conn'.open
  PROVE  SoundStack
<1>1. /\ Adjacent(conn, stack[1], After(stack, 1))
      /\ StackOK /\ Linked(conn, stack) /\ OneWay(conn, conn')
  BY TopFits
<1>2. Called(<<>>)
  BY <1>1, PopStack DEF Called, StackOK
<1>3. Shape(After(stack, 1), After(stack, 2))
  BY <1>1, <1>2, Calls0
<1> QED
  BY <1>1, <1>3 DEF Shape, SoundStack, Adjacent, Waiting

\* Frames are called; the first one is neither write_ctx nor fail_group.
LEMMA SoundShape ==
  ASSUME NEW f, NEW g, Shape(f, g), f \notin {"fail_group", "write_ctx"}
  PROVE  SoundStack
BY DEF Shape, SoundStack

\* A notificator, if there is one, and what follows it.
LEMMA NotifyCalls ==
  ASSUME NEW g, NEW res \in Results, stack # <<>>
  PROVE  /\ \A b : Notify(g, res, <<b>>) =>
              \/ Notificator(g.id, res) \in StackFrames /\ Called(<<Notificator(g.id, res), b>>)
              \/ Called(<<b>>)
         /\ Notify(g, res, <<>>) =>
              \/ Notificator(g.id, res) \in StackFrames /\ Called(<<Notificator(g.id, res)>>)
              \/ Called(<<>>)
<1> DEFINE a == Notificator(g.id, res)
<1>1. g.id \in Sends => a \in StackFrames
  BY FrameFacts
<1> HIDE DEF a
<1>2. \A b : <<a>> \o <<b>> = <<a, b>>
  BY Concat11, Zenon
<1>3. <<a>> \o <<>> = <<a>>
  OBVIOUS
<1>4. ASSUME NEW fs, Notify(g, res, fs)
      PROVE  (a \in StackFrames /\ Called(<<a>> \o fs)) \/ Called(fs)
  BY <1>1, <1>4, Zenon DEF Notify, Call, Called, a
<1>5. ASSUME NEW b, Notify(g, res, <<b>>)
      PROVE  (a \in StackFrames /\ Called(<<a, b>>)) \/ Called(<<b>>)
  BY <1>2, <1>4, <1>5, Zenon
<1>6. ASSUME Notify(g, res, <<>>)
      PROVE  (a \in StackFrames /\ Called(<<a>>)) \/ Called(<<>>)
  BY <1>3, <1>4, <1>6, Zenon
<1> QED
  BY <1>5, <1>6, Zenon DEF a

\* A notificator is called, then frame b.
LEMMA SoundNotify ==
  ASSUME Stepping, stack # <<>>, NEW g, NEW res \in {"ok", "error"}, NEW b \in StackFrames,
         Notify(g, res, <<b>>), b.f = IF res = "ok" THEN "finish_group" ELSE "group_failed",
         Adjacent(conn', b, After(stack, 1))
  PROVE  SoundStack
<1> DEFINE a == Notificator(g.id, res)
<1>1. a.f = "notificator" /\ a.res = res
  BY DEF Notificator
<1>2. (a \in StackFrames /\ Called(<<a, b>>)) \/ Called(<<b>>)
  BY NotifyCalls, Zenon DEF Results
<1> HIDE DEF a
<1>3. Adjacent(conn', a, b.f)
  BY <1>1 DEF Adjacent, Waiting, Reading
<1>4. StackOK /\ Linked(conn, stack) /\ OneWay(conn, conn')
  BY TopFits
<1>5. CASE a \in StackFrames /\ Called(<<a, b>>)
  <2>1. Shape(a.f, b.f)
    BY <1>3, <1>4, <1>5, Calls2
  <2> QED
    BY <1>1, <2>1, SoundShape
<1>6. CASE Called(<<b>>)
  <2>1. Shape(b.f, After(stack, 1))
    BY <1>4, <1>6, Calls1
  <2> QED
    BY <2>1, SoundShape
<1> QED
  BY <1>2, <1>5, <1>6

\* A handler begins.
LEMMA SoundFresh ==
  /\ \A a \in StackFrames :
       stack' = <<a>> /\ Adjacent(conn', a, "end") /\ a.f # "fail_group" => SoundStack
  /\ \A a, b \in StackFrames :
       /\ stack' = <<a, b>> /\ Adjacent(conn', a, b.f) /\ Adjacent(conn', b, "end")
       /\ a.f \notin {"fail_group", "write_ctx"}
       => SoundStack
<1>1. ASSUME NEW a \in StackFrames, stack' = <<a>>, Adjacent(conn', a, "end"),
             a.f # "fail_group"
      PROVE  SoundStack
  <2>1. Len(stack') = 1 /\ stack'[1] = a /\ stack' # <<>> /\ stack' \in Seq(StackFrames)
    BY <1>1
  <2>2. First(stack') = a.f /\ After(stack', 1) = "end"
    BY <2>1 DEF First, After
  <2>3. Linked(conn', stack')
    BY <1>1, <2>1, <2>2 DEF Linked
  <2> QED
    BY <1>1, <2>1, <2>2, <2>3 DEF SoundStack
<1>2. ASSUME NEW a \in StackFrames, NEW b \in StackFrames, stack' = <<a, b>>,
             Adjacent(conn', a, b.f), Adjacent(conn', b, "end"),
             a.f \notin {"fail_group", "write_ctx"}
      PROVE  SoundStack
  <2>1. /\ Len(stack') = 2 /\ stack'[1] = a /\ stack'[2] = b /\ stack' # <<>>
        /\ stack' \in Seq(StackFrames)
    BY <1>2
  <2>2. First(stack') = a.f /\ After(stack', 1) = b.f /\ After(stack', 2) = "end"
    BY <2>1 DEF First, After
  <2>3. Linked(conn', stack')
    BY <1>2, <2>1, <2>2 DEF Linked
  <2> QED
    BY <1>2, <2>1, <2>2, <2>3 DEF SoundStack
<1> QED
  BY <1>1, <1>2

\* The steps of the output.
LEMMA SoundOutput ==
  ASSUME Stepping,
         \/ InitWrite \/ HandleCurrentWriteCtx \/ FinishWriteGroup \/ AfterWrite \/ FailGroup
         \/ GroupFailed \/ NotificatorReturns
  PROVE  SoundStack
<1>1. CASE InitWrite
  <2>1. stack # <<>> /\ stack[1].f = "init_write"
    BY <1>1 DEF InitWrite, Top
  <2>2. CASE Return
    BY <2>1, <2>2, SoundReturn DEF Return
  <2>3. CASE ~Transmitting(conn.out) /\ conn.queue # <<>>
    <3> DEFINE a == Frame("write_ctx")
    <3>1. a \in StackFrames /\ a.f = "write_ctx"
      BY FrameFacts DEF SimpleFrames
    <3>2. /\ conn' = [conn EXCEPT !.out = StartNextWriteGroup(@, Head(conn.queue)),
                                  !.queue = Tail(@)]
          /\ Called(<<a>>)
      BY <1>1, <2>1, <2>3 DEF InitWrite, Call, Called
    <3> HIDE DEF a
    <3>3. Adjacent(conn', a, After(stack, 1))
      BY <2>1, <3>1, TopFits DEF Adjacent, Reading
    <3>4. Shape("write_ctx", After(stack, 1))
      BY <2>1, <3>1, <3>2, <3>3, TopFits, Calls1
    <3>5. conn'.out.next = conn.out.next /\ conn'.open = conn.open
      <4>1. conn.out \in Outputs /\ conn.queue \in Seq(Groups)
        BY DEF Stepping, TypeInv, ConnOK, Conns
      <4>2. Head(conn.queue) \in Groups
        BY <2>3, <4>1
      <4>3. conn'.out = StartNextWriteGroup(conn.out, Head(conn.queue)) /\ conn'.open = conn.open
        BY <3>2 DEF Stepping, TypeInv, ConnOK, Conns
      <4> QED
        BY <4>1, <4>2, <4>3, OutputFacts
    <3> QED
      BY <2>3, <3>4, <3>5 DEF Stepping, StackInv, Shape, SoundStack
  <2> QED
    BY <1>1, <2>2, <2>3 DEF InitWrite
<1>2. CASE HandleCurrentWriteCtx
  <2>1. stack # <<>> /\ stack[1].f = "write_ctx" /\ First(stack) = "write_ctx"
    BY <1>2 DEF HandleCurrentWriteCtx, Top, First
  <2>2. CASE Return
    BY <2>1, <2>2, SoundReturn DEF Return
  <2>3. CASE NextOperation(conn.out) # "trivial"
    <3> DEFINE b == Frame("finish_group")
    <3>1. b \in StackFrames /\ b.f = "finish_group"
      BY FrameFacts DEF SimpleFrames
    <3>2. Notify(conn.out.wg, "ok", <<b>>) /\ conn' = conn
      BY <1>2, <2>3 DEF HandleCurrentWriteCtx
    <3> HIDE DEF b
    <3>3. Transmitting(conn.out) /\ conn.out \in Outputs /\ conn.out.next \in Nat
      BY <1>2, TopFacts
         DEF HandleCurrentWriteCtx, WriteFrames, Stepping, TypeInv, ConnOK, Conns, Outputs
    <3>4. conn.out.next # 1
      <4>1. Len(conn.out.wg.items) \in 1 .. 2
        BY <3>3, OutputFacts, GroupFacts
      <4>2. conn.out.next > Len(conn.out.wg.items)
        BY <2>3, <3>3, OutputFacts
      <4>3. \A m \in 1 .. 2, n \in Nat : n > m => n # 1
        OBVIOUS
      <4> QED
        BY <3>3, <4>1, <4>2, <4>3, Zenon
    <3>5. After(stack, 1) = "disable_write" => ~conn'.open
      BY <2>1, <3>2, <3>4 DEF Stepping, StackInv
    <3>6. Adjacent(conn', b, After(stack, 1))
      BY <2>1, <3>1, <3>5, TopFits DEF Adjacent, Reading
    <3> QED
      BY <2>1, <3>1, <3>2, <3>6, SoundNotify
  <2> QED
    BY <1>2, <2>2, <2>3 DEF HandleCurrentWriteCtx
<1>3. CASE FinishWriteGroup
  <2> DEFINE a == Frame("init_write")
  <2>1. stack # <<>> /\ stack[1].f = "finish_group" /\ Called(<<a>>)
    BY <1>3 DEF FinishWriteGroup, Top, Call, Called
  <2>2. a \in StackFrames /\ a.f = "init_write"
    BY FrameFacts DEF SimpleFrames
  <2> HIDE DEF a
  <2>3. Adjacent(conn', a, After(stack, 1))
    BY <2>1, <2>2, TopFits DEF Adjacent, Reading
  <2>4. Shape("init_write", After(stack, 1))
    BY <2>1, <2>2, <2>3, TopFits, Calls1
  <2> QED
    BY <2>4, SoundShape
<1>4. CASE AfterWrite
  <2> DEFINE a == Frame("write_ctx")
             t == Trigger("connection_lost")
             b == Frame("fail_group")
  <2>1. /\ a \in StackFrames /\ a.f = "write_ctx" /\ t \in StackFrames
        /\ t.f = "trigger_error_and_close" /\ b \in StackFrames /\ b.f = "fail_group"
    BY FrameFacts DEF SimpleFrames, Code
  <2>2. stack' = <<a>> \/ stack' = <<t, b>>
    BY <1>4 DEF AfterWrite
  <2> HIDE DEF a, t, b
  <2>3. Adjacent(conn', a, "end") /\ Adjacent(conn', t, b.f) /\ Adjacent(conn', b, "end")
    BY <2>1 DEF Adjacent, Waiting, Reading
  <2> QED
    BY <2>1, <2>2, <2>3, SoundFresh
<1>5. CASE FailGroup
  <2> DEFINE b == Frame("group_failed")
  <2>1. stack # <<>> /\ stack[1].f = "fail_group" /\ Notify(conn.out.wg, "error", <<b>>)
        /\ conn' = conn
    BY <1>5 DEF FailGroup, Top
  <2>2. b \in StackFrames /\ b.f = "group_failed"
    BY FrameFacts DEF SimpleFrames
  <2> HIDE DEF b
  <2>3. ~conn'.open
    BY <2>1 DEF Stepping, StackInv, First
  <2>4. Adjacent(conn', b, After(stack, 1))
    BY <2>1, <2>2, <2>3, TopFits DEF Adjacent, Reading
  <2> QED
    BY <2>1, <2>2, <2>4, SoundNotify
<1>6. CASE GroupFailed \/ NotificatorReturns
  BY <1>6, SoundReturn DEF GroupFailed, NotificatorReturns, Top, Return
<1> QED
  BY <1>1, <1>2, <1>3, <1>4, <1>5, <1>6

\* A notificator throws.
LEMMA SoundThrow ==
  ASSUME Stepping, NotificatorThrows
  PROVE  SoundStack
<1> DEFINE fr == stack[1]
           t  == Trigger("unexpected_condition")
<1>1. stack # <<>> /\ fr.f = "notificator"
  BY DEF NotificatorThrows, Top
<1>2. CASE fr.res \notin {"ok", "error"}
  BY <1>1, <1>2, SoundReturn DEF NotificatorThrows, Return
<1>3. CASE fr.res \in {"ok", "error"}
  <2> DEFINE s    == stack
             r    == Tail(s)
             rest == SubSeq(stack, 3, Len(stack))
  <2>1. /\ stack \in Seq(StackFrames) /\ Len(stack) \in Nat \ {0} /\ Linked(conn, stack)
        /\ OneWay(conn, conn') /\ Adjacent(conn, fr, After(stack, 1))
    BY <1>1, TopFits DEF StackOK
  <2>2. After(stack, 1) \in {"finish_group", "group_failed"}
    BY <1>1, <1>3, <2>1 DEF Adjacent
  <2>3. Len(stack) > 1 /\ stack[2].f = After(stack, 1)
    BY <2>1, <2>2 DEF After
  <2>4. /\ rest \in Seq(StackFrames) /\ Len(rest) = Len(stack) - 2
        /\ \A k \in 1 .. Len(rest) : rest[k] = stack[k + 2]
    <3> DEFINE n == Len(stack)
    <3>1. n \in Nat /\ n > 1
      BY <2>1, <2>3
    <3>2. \A i \in 3 .. n : stack[i] \in StackFrames
      BY <2>1
    <3>3. rest = SubSeq(stack, 3, n)
      OBVIOUS
    <3> HIDE DEF n, rest
    <3>4. /\ rest \in Seq(StackFrames) /\ Len(rest) = IF 3 <= n THEN n - 3 + 1 ELSE 0
          /\ \A i \in 1 .. n - 3 + 1 : rest[i] = stack[3 + i - 1]
      BY <3>1, <3>2, <3>3, SubSeqProperties
    <3>5. Len(rest) = n - 2
      BY <3>1, <3>4
    <3>6. ASSUME NEW k \in 1 .. Len(rest) PROVE rest[k] = stack[k + 2]
      BY <3>1, <3>4, <3>5
    <3> QED
      BY <3>4, <3>5, <3>6 DEF n
  <2> HIDE DEF rest
  <2>5. ASSUME NEW k \in 1 .. Len(rest)
        PROVE  After(rest, k) = After(stack, k + 2)
    <3>1. CASE k < Len(rest)
      <4> DEFINE l == k + 1
      <4>1. l \in 1 .. Len(rest) /\ l + 2 = k + 2 + 1 /\ k + 2 < Len(stack)
        BY <2>1, <2>4, <3>1
      <4> HIDE DEF l
      <4>2. rest[l] = stack[k + 2 + 1]
        BY <2>4, <4>1
      <4> QED
        BY <3>1, <4>1, <4>2 DEF After, l
    <3>2. CASE k = Len(rest)
      BY <2>1, <2>4, <3>2 DEF After
    <3> QED
      BY <2>1, <2>4, <3>1, <3>2
  <2>6. Linked(conn', rest)
    <3>1. ASSUME NEW k \in 1 .. Len(rest) PROVE Adjacent(conn, rest[k], After(rest, k))
      BY <2>1, <2>3, <2>4, <2>5 DEF Linked
    <3>2. Linked(conn, rest)
      BY <3>1 DEF Linked
    <3> QED
      BY <2>1, <3>2, LinkedSame
  <2>7. First(rest) = After(stack, 2)
    BY <2>1, <2>3, <2>4 DEF First, After
  <2>8. Adjacent(conn, stack[2], After(stack, 2))
    BY <2>1, <2>3 DEF Linked
  <2>9. After(stack, 2) \notin {"fail_group", "write_ctx"}
    BY <2>2, <2>3, <2>8 DEF Adjacent, Waiting
  <2>10. CASE fr.res = "error"
    <3>1. stack' = <<>> \o rest
      BY <1>3, <2>10 DEF NotificatorThrows, rest
    <3>2. stack' = rest
      BY <2>4, <3>1, ConcatEmptySeq
    <3> QED
      BY <2>4, <2>6, <2>7, <2>9, <3>2 DEF SoundStack
  <2>11. CASE fr.res = "ok"
    <3>1. stack' = <<t>> \o rest
      BY <1>3, <2>11 DEF NotificatorThrows, rest
    <3>2. t \in StackFrames /\ t.f = "trigger_error_and_close"
      BY FrameFacts DEF Code
    <3>3. stack[2].f = "finish_group"
      BY <1>1, <2>1, <2>3, <2>11 DEF Adjacent
    <3> HIDE DEF t, rest
    <3>4. Adjacent(conn', t, First(rest))
      BY <2>1, <2>7, <2>8, <3>2, <3>3 DEF Adjacent, OneWay, Reading
    <3>5. /\ <<t>> \o rest \in Seq(StackFrames) /\ Linked(conn', <<t>> \o rest)
          /\ First(<<t>> \o rest) = t.f
      BY <2>4, <2>6, <3>2, <3>4, LinkedPush
    <3> QED
      BY <3>1, <3>2, <3>5 DEF SoundStack
  <2> QED
    BY <1>3, <2>10, <2>11
<1> QED
  BY <1>2, <1>3

\* The message handler, if it is called, and what follows it.
LEMMA HandlerCalls ==
  ASSUME NEW m, stack # <<>>
  PROVE  /\ Frame("handler") \in StackFrames /\ Frame("handler").f = "handler"
         /\ \A b : CallMessageHandler(m, <<b>>) =>
              Called(<<Frame("handler"), b>>) \/ Called(<<b>>)
         /\ CallMessageHandler(m, <<>>) => Called(<<Frame("handler")>>) \/ Called(<<>>)
<1> DEFINE a == Frame("handler")
<1>1. a \in StackFrames /\ a.f = "handler"
  BY FrameFacts DEF SimpleFrames
<1> HIDE DEF a
<1>2. \A b : <<a>> \o <<b>> = <<a, b>>
  BY Concat11, Zenon
<1>3. <<a>> \o <<>> = <<a>>
  OBVIOUS
<1>4. ASSUME NEW fs, CallMessageHandler(m, fs)
      PROVE  Called(<<a>> \o fs) \/ Called(fs)
  BY <1>4, Zenon DEF CallMessageHandler, Call, Called, a
<1>5. ASSUME NEW b, CallMessageHandler(m, <<b>>)
      PROVE  Called(<<a, b>>) \/ Called(<<b>>)
  BY <1>2, <1>4, <1>5, Zenon
<1>6. ASSUME CallMessageHandler(m, <<>>)
      PROVE  Called(<<a>>) \/ Called(<<>>)
  BY <1>3, <1>4, <1>6, Zenon
<1> QED
  BY <1>1, <1>5, <1>6, Zenon DEF a

\* The message handler is called, then frame b.
LEMMA SoundHandler ==
  ASSUME Stepping, stack # <<>>, NEW m, NEW b \in StackFrames, CallMessageHandler(m, <<b>>),
         b.f = "go_on", Adjacent(conn', b, After(stack, 1))
  PROVE  SoundStack
<1> DEFINE a == Frame("handler")
<1>1. a \in StackFrames /\ a.f = "handler" /\ (Called(<<a, b>>) \/ Called(<<b>>))
  BY HandlerCalls
<1> HIDE DEF a
<1>2. Adjacent(conn', a, b.f)
  BY <1>1 DEF Adjacent, Waiting, Reading
<1>3. StackOK /\ Linked(conn, stack) /\ OneWay(conn, conn')
  BY TopFits
<1>4. CASE Called(<<a, b>>)
  <2>1. Shape(a.f, b.f)
    BY <1>1, <1>2, <1>3, <1>4, Calls2
  <2> QED
    BY <1>1, <2>1, SoundShape
<1>5. CASE Called(<<b>>)
  <2>1. Shape(b.f, After(stack, 1))
    BY <1>3, <1>5, Calls1
  <2> QED
    BY <2>1, SoundShape
<1> QED
  BY <1>1, <1>4, <1>5

\* The steps that close.
LEMMA SoundClosing ==
  ASSUME Stepping,
         \/ DisableWrite \/ StartWaitingCloseFrameOnly \/ CloseNow \/ TriggerErrorAndClose
         \/ CallCloseHandlerIfNecessary \/ HandlerReturns \/ WriteTimedOut \/ Kill
  PROVE  SoundStack
<1>1. CASE DisableWrite \/ StartWaitingCloseFrameOnly \/ HandlerReturns \/ Kill
  BY <1>1, SoundReturn DEF DisableWrite, StartWaitingCloseFrameOnly, HandlerReturns, Kill, Top,
                           Return
<1>2. CASE CloseNow
  <2>1. conn \in Conns(conn.val)
    BY DEF Stepping, TypeInv, ConnOK
  <2>2. ~conn'.open
    BY <1>2, <2>1, CloseFacts DEF CloseNow
  <2> QED
    BY <1>2, <2>2, SoundReturn DEF CloseNow, Top, Return
<1>3. CASE TriggerErrorAndClose
  <2> DEFINE a == CloseHandler(stack[1].code)
             b == Frame("close_impl")
  <2>1. stack # <<>> /\ stack[1].f = "trigger_error_and_close" /\ Called(<<a, b>>)
    BY <1>3 DEF TriggerErrorAndClose, Top, Call, Called
  <2>2. stack[1].code \in Code
    BY <2>1, TopFits, FrameFacts
  <2>3. /\ a \in StackFrames /\ a.f = "close_handler"
        /\ b \in StackFrames /\ b.f = "close_impl"
    BY <2>2, FrameFacts DEF SimpleFrames
  <2> HIDE DEF a, b
  <2>4. Adjacent(conn', a, b.f)
    BY <2>3 DEF Adjacent, Waiting, Reading
  <2>5. Adjacent(conn', b, After(stack, 1))
    BY <2>1, <2>3, TopFits DEF Adjacent, Reading
  <2>6. Shape(a.f, b.f)
    BY <2>1, <2>3, <2>4, <2>5, TopFits, Calls2
  <2> QED
    BY <2>3, <2>6, SoundShape
<1>4. CASE CallCloseHandlerIfNecessary
  <2> DEFINE a == Frame("handler")
  <2>1. stack # <<>> /\ stack[1].f = "close_handler"
    BY <1>4 DEF CallCloseHandlerIfNecessary, Top
  <2>2. a \in StackFrames /\ a.f = "handler"
    BY <2>1, HandlerCalls
  <2>3. Called(<<a>>) \/ Called(<<>>) \/ stack' = Tail(stack)
    BY <1>4, <2>1, HandlerCalls DEF CallCloseHandlerIfNecessary, Return
  <2> HIDE DEF a
  <2>4. CASE Called(<<a>>)
    <3>1. ~conn'.toUser
      BY <1>4 DEF CallCloseHandlerIfNecessary, Stepping, TypeInv, ConnOK, Conns
    <3>2. Adjacent(conn', a, After(stack, 1))
      BY <2>1, <2>2, <3>1, TopFits DEF Adjacent, Reading
    <3>3. Shape(a.f, After(stack, 1))
      BY <2>1, <2>2, <2>4, <3>2, TopFits, Calls1
    <3> QED
      BY <2>2, <3>3, SoundShape
  <2> QED
    BY <2>1, <2>3, <2>4, SoundReturn
<1>5. CASE WriteTimedOut
  <2> DEFINE a == CloseHandler("unexpected_condition")
             b == Frame("close_impl")
  <2>1. stack' = <<a, b>>
    BY <1>5 DEF WriteTimedOut
  <2>2. /\ a \in StackFrames /\ a.f = "close_handler"
        /\ b \in StackFrames /\ b.f = "close_impl"
    BY FrameFacts DEF SimpleFrames, Code
  <2> HIDE DEF a, b
  <2>3. Adjacent(conn', a, b.f) /\ Adjacent(conn', b, "end")
    BY <2>2 DEF Adjacent, Waiting, Reading
  <2> QED
    BY <2>1, <2>2, <2>3, SoundFresh
<1> QED
  BY <1>1, <1>2, <1>3, <1>4, <1>5

\* The stack stays as it is.
LEMMA SoundSame ==
  ASSUME Stepping, stack' = stack, conn'.out = conn.out \/ stack = <<>>
  PROVE  SoundStack
<1>1. stack \in Seq(StackFrames) /\ OneWay(conn, conn') /\ StackInv
  BY DEF Stepping, TypeInv, StackOK
<1>2. Linked(conn', stack)
  BY <1>1, LinkedSame DEF StackInv
<1>3. stack = <<>> => First(stack) = "end"
  BY DEF First
<1> QED
  BY <1>1, <1>2, <1>3 DEF SoundStack, StackInv, OneWay

\* What user code asks for is put on the stack, or posted.
LEMMA SoundDispatch ==
  ASSUME Stepping, conn' = conn, NEW fr \in StackFrames, fr.f \in Posted, Dispatch(fr)
  PROVE  /\ SoundStack /\ posted' \in Seq(StackFrames)
         /\ \A k \in 1 .. Len(posted') : posted'[k].f \in Posted
<1>1. /\ stack \in Seq(StackFrames) /\ Linked(conn', stack) /\ posted \in Seq(StackFrames)
      /\ \A k \in 1 .. Len(posted) : posted[k].f \in Posted
  BY DEF Stepping, TypeInv, StackOK, StackInv
<1>2. CASE UserCode
  <2>1. First(stack) \in {"handler", "notificator"} /\ stack' = <<fr>> \o stack
        /\ posted' = posted
    BY <1>2 DEF Dispatch, UserCode, Top, First
  <2>2. Adjacent(conn', fr, First(stack))
    BY <2>1 DEF Adjacent, Waiting, Reading, Posted
  <2>3. /\ <<fr>> \o stack \in Seq(StackFrames) /\ Linked(conn', <<fr>> \o stack)
        /\ First(<<fr>> \o stack) = fr.f
    BY <1>1, <2>2, LinkedPush
  <2>4. SoundStack
    BY <2>1, <2>3 DEF SoundStack, Posted
  <2> QED
    BY <1>1, <2>1, <2>4
<1>3. CASE ~UserCode
  <2>1. stack' = stack /\ posted' = Append(posted, fr)
    BY <1>3 DEF Dispatch
  <2>2. SoundStack
    BY <2>1, SoundSame
  <2>3. /\ posted' \in Seq(StackFrames) /\ Len(posted') = Len(posted) + 1
        /\ \A k \in 1 .. Len(posted') : posted'[k] = IF k <= Len(posted) THEN posted[k] ELSE fr
    BY <1>1, <2>1, AppendProperties
  <2> QED
    BY <1>1, <2>2, <2>3
<1> QED
  BY <1>2, <1>3

\* What user code asks for, on the strand.
LEMMA SoundCalls ==
  ASSUME Stepping, RunPosted \/ WriteDataImpl \/ Shutdown
  PROVE  SoundStack
<1>1. CASE RunPosted
  <2> DEFINE fr == Head(posted)
  <2>1. posted \in Seq(StackFrames) /\ posted # <<>> /\ stack' = <<fr>>
    BY <1>1 DEF RunPosted, Stepping, TypeInv, StackOK
  <2>2. fr \in StackFrames /\ fr = posted[1] /\ 1 \in 1 .. Len(posted)
    BY <2>1
  <2>3. fr.f \in Posted
    BY <2>2 DEF Stepping, StackInv
  <2> HIDE DEF fr
  <2>4. Adjacent(conn', fr, "end")
    BY <2>3 DEF Adjacent, Posted, Reading
  <2> QED
    BY <2>1, <2>2, <2>3, <2>4, SoundFresh DEF Posted
<1>2. CASE WriteDataImpl
  <2> DEFINE g   == stack[1].g
             res == IF conn.writable THEN "not_executed" ELSE "destroyed"
             a   == Frame("init_write")
             b   == Notificator(g.id, res)
  <2>1. stack # <<>> /\ stack[1].f = "write_data"
    BY <1>2 DEF WriteDataImpl, Top
  <2>2. Called(<<a>>) \/ Notify(g, res, <<>>)
    BY <1>2, <2>1 DEF WriteDataImpl, Call, Called
  <2>3. res \in Results /\ res \notin {"ok", "error"}
    BY DEF Results
  <2>4. Called(<<a>>) \/ (b \in StackFrames /\ Called(<<b>>)) \/ Called(<<>>)
    BY <2>1, <2>2, <2>3, NotifyCalls
  <2>5. a \in StackFrames /\ a.f = "init_write" /\ b.f = "notificator" /\ b.res = res
    BY FrameFacts DEF SimpleFrames, Notificator
  <2> HIDE DEF a, b, res
  <2>6. CASE Called(<<a>>)
    <3>1. Adjacent(conn', a, After(stack, 1))
      BY <2>1, <2>5, TopFits DEF Adjacent, Reading
    <3>2. Shape(a.f, After(stack, 1))
      BY <2>1, <2>5, <2>6, <3>1, TopFits, Calls1
    <3> QED
      BY <2>5, <3>2, SoundShape
  <2>7. CASE b \in StackFrames /\ Called(<<b>>)
    <3>1. Adjacent(conn', b, After(stack, 1))
      BY <2>1, <2>3, <2>5, TopFits DEF Adjacent, Reading
    <3>2. Shape(b.f, After(stack, 1))
      BY <2>1, <2>5, <2>7, <3>1, TopFits, Calls1
    <3> QED
      BY <2>5, <3>2, SoundShape
  <2> QED
    BY <2>1, <2>4, <2>6, <2>7, SoundReturn
<1>3. CASE Shutdown
  <2> DEFINE a == Frame("init_write")
             b == Frame("disable_write")
             c == Frame("wait_close")
  <2>1. conn \in Conns(conn.val)
    BY DEF Stepping, TypeInv, ConnOK
  <2>2. CloseToPeerFrames(conn, <<c>>) = IF conn.toPeer THEN <<a, b, c>> ELSE <<>>
    BY <2>1, CloseShapes
  <2>3. stack # <<>> /\ stack[1].f = "shutdown"
    BY <1>3 DEF Shutdown, Top
  <2>4. Called(<<a, b, c>>) \/ Called(<<>>)
    BY <1>3, <2>2, <2>3, Zenon DEF Shutdown, Call, Called
  <2>5. /\ a \in StackFrames /\ b \in StackFrames /\ c \in StackFrames
        /\ a.f = "init_write" /\ b.f = "disable_write" /\ c.f = "wait_close"
    BY FrameFacts DEF SimpleFrames
  <2> HIDE DEF a, b, c
  <2>6. CASE Called(<<a, b, c>>)
    <3>1. ~conn'.toUser
      <4>1. CloseToPeer(conn) \in Conns(conn.val)
        BY <2>1, ToPeerFacts
      <4> QED
        BY <1>3, <4>1 DEF Shutdown, Conns
    <3>2. Adjacent(conn', a, b.f) /\ Adjacent(conn', b, c.f)
      BY <2>5, <3>1 DEF Adjacent, Waiting, Reading
    <3>3. Adjacent(conn', c, After(stack, 1))
      BY <2>3, <2>5, <3>1, TopFits DEF Adjacent, Reading
    <3>4. Shape(a.f, b.f)
      BY <2>3, <2>5, <2>6, <3>2, <3>3, TopFits, Calls3
    <3> QED
      BY <2>5, <3>4, SoundShape
  <2> QED
    BY <2>3, <2>4, <2>6, SoundReturn
<1> QED
  BY <1>1, <1>2, <1>3

\* handle_invalid_payload(), and the skipping of the payload that may follow it.
LEMMA SoundInvalid ==
  ASSUME Stepping, stack # <<>>, stack[1].f \in {"consume_header", "payload", "on_message"},
         NEW v, NEW c \in Conns(v), NEW verdict
  PROVE  /\ Called(InvalidFrames(c, verdict)) => SoundStack
         /\ Called(InvalidFrames(c, verdict) \o <<>>) => SoundStack
         /\ /\ verdict # "invalid_close_code"
            /\ Called(InvalidFrames(c, verdict)
                      \o <<Frame("reset_validator"), Frame("skip_payload")>>)
            => SoundStack
<1> DEFINE iw == Frame("init_write")
           dw == Frame("disable_write")
           wc == Frame("wait_close")
           ci == Frame("close_impl")
           rv == Frame("reset_validator")
           sp == Frame("skip_payload")
           pe == CloseHandler("protocol_error")
           im == CloseHandler("invalid_message_data")
           fs == InvalidFrames(c, verdict)
<1>1. /\ iw \in StackFrames /\ iw.f = "init_write" /\ dw \in StackFrames
      /\ dw.f = "disable_write" /\ wc \in StackFrames /\ wc.f = "wait_close"
      /\ ci \in StackFrames /\ ci.f = "close_impl" /\ rv \in StackFrames
      /\ rv.f = "reset_validator" /\ sp \in StackFrames /\ sp.f = "skip_payload"
      /\ pe \in StackFrames /\ pe.f = "close_handler"
      /\ im \in StackFrames /\ im.f = "close_handler"
  BY FrameFacts DEF SimpleFrames, Code
<1>2. /\ fs \in {<<>>, <<ci>>, <<pe>>, <<im>>, <<iw, dw, pe>>, <<iw, dw, wc, im>>}
      /\ verdict # "invalid_close_code" => fs \in {<<>>, <<im>>, <<iw, dw, wc, im>>}
  <2>1. CASE verdict = "invalid_close_code"
    BY <2>1, CloseShapes
  <2>2. CASE verdict # "invalid_close_code"
    BY <2>2, CloseShapes
  <2> QED
    BY <2>1, <2>2
<1> HIDE DEF iw, dw, wc, ci, rv, sp, pe, im, fs
<1>3. StackOK /\ Linked(conn, stack) /\ OneWay(conn, conn') /\ conn'.weak
  <2>1. Adjacent(conn', stack[1], After(stack, 1)) /\ stack[1].f \in Reading
    BY TopFits DEF Reading
  <2> QED
    BY <2>1, TopFits DEF Adjacent
<1>4. /\ Adjacent(conn', iw, dw.f) /\ Adjacent(conn', dw, pe.f) /\ Adjacent(conn', dw, wc.f)
      /\ Adjacent(conn', wc, im.f) /\ Adjacent(conn', rv, sp.f)
  BY <1>1 DEF Adjacent, Waiting, Reading
<1>5. Adjacent(conn', im, rv.f)
  BY <1>1, <1>3 DEF Adjacent, Waiting, Reading
<1>6. /\ Adjacent(conn', ci, After(stack, 1)) /\ Adjacent(conn', pe, After(stack, 1))
      /\ Adjacent(conn', im, After(stack, 1)) /\ Adjacent(conn', sp, After(stack, 1))
  BY <1>1, <1>3, TopFits DEF Adjacent, Reading
<1>7. Called(<<>>) => SoundStack
  BY SoundReturn
<1>8. Called(<<ci>>) \/ Called(<<pe>>) \/ Called(<<im>>) => SoundStack
  <2>1. ASSUME NEW a \in {ci, pe, im}, Called(<<a>>) PROVE SoundStack
    <3>1. Shape(a.f, After(stack, 1))
      BY <1>1, <1>3, <1>6, <2>1, Calls1
    <3> QED
      BY <1>1, <3>1, SoundShape
  <2> QED
    BY <2>1
<1>9. Called(<<iw, dw, pe>>) => SoundStack
  <2>1. Called(<<iw, dw, pe>>) => Shape(iw.f, dw.f)
    BY <1>1, <1>3, <1>4, <1>6, Calls3
  <2> QED
    BY <1>1, <2>1, SoundShape
<1>10. Called(<<iw, dw, wc, im>>) => SoundStack
  <2>1. Called(<<iw, dw, wc, im>>) => Shape(iw.f, dw.f)
    BY <1>1, <1>3, <1>4, <1>6, Calls4
  <2> QED
    BY <1>1, <2>1, SoundShape
<1>11. Called(<<iw, dw, wc, im, rv, sp>>) => SoundStack
  <2>1. Called(<<iw, dw, wc, im, rv, sp>>) => Shape(iw.f, dw.f)
    BY <1>1, <1>3, <1>4, <1>5, <1>6, Calls6, Zenon
  <2> QED
    BY <1>1, <2>1, SoundShape
<1>12. Called(<<im, rv, sp>>) => SoundStack
  <2>1. Called(<<im, rv, sp>>) => Shape(im.f, rv.f)
    BY <1>1, <1>3, <1>4, <1>5, <1>6, Calls3
  <2> QED
    BY <1>1, <2>1, SoundShape
<1>13. Called(<<rv, sp>>) => SoundStack
  <2>1. Called(<<rv, sp>>) => Shape(rv.f, sp.f)
    BY <1>1, <1>3, <1>4, <1>6, Calls2
  <2> QED
    BY <1>1, <2>1, SoundShape
<1>14. Called(fs) => SoundStack
  BY <1>2, <1>7, <1>8, <1>9, <1>10
<1>15. fs \o <<>> = fs
  <2>1. <<ci>> \in Seq(StackFrames) /\ <<pe>> \in Seq(StackFrames) /\ <<im>> \in Seq(StackFrames)
    BY <1>1
  <2>2. <<iw, dw, pe>> \in Seq(StackFrames)
    BY <1>1
  <2>3. <<iw, dw, wc, im>> \in Seq(StackFrames)
    BY <1>1
  <2>4. <<>> \in Seq(StackFrames)
    OBVIOUS
  <2>5. fs \in Seq(StackFrames)
    BY <1>2, <2>1, <2>2, <2>3, <2>4, Zenon
  <2> QED
    BY <2>5, ConcatEmptySeq
<1>16. ASSUME verdict # "invalid_close_code", Called(fs \o <<rv, sp>>) PROVE SoundStack
  <2>1. <<im>> \o <<rv, sp>> = <<im, rv, sp>>
    BY Concat12, Zenon
  <2>4. <<iw, dw, wc, im>> \o <<rv, sp>> = <<iw, dw, wc, im, rv, sp>>
    <3> DEFINE x == <<iw, dw, wc, im>>
               y == <<rv, sp>>
               z == <<iw, dw, wc, im, rv, sp>>
    <3>1. x \in Seq(StackFrames) /\ Len(x) = 4 /\ y \in Seq(StackFrames) /\ Len(y) = 2
      BY <1>1
    <3>2. z \in Seq(StackFrames) /\ Len(z) = 6
      BY <1>1
    <3>3. x \o y \in Seq(StackFrames) /\ Len(x \o y) = 6
      BY <3>1, ConcatProperties
    <3>4. \A i \in 1 .. 6 : (x \o y)[i] = z[i]
      BY <3>1, ConcatProperties
    <3> HIDE DEF x, y, z
    <3>5. x \o y = z
      BY <3>2, <3>3, <3>4, SeqEqual, Zenon
    <3> QED
      BY <3>5 DEF x, y, z
  <2>2. <<>> \o <<rv, sp>> = <<rv, sp>>
    OBVIOUS
  <2>3. fs \in {<<>>, <<im>>, <<iw, dw, wc, im>>}
    BY <1>2, <1>16
  <2> QED
    BY <1>11, <1>12, <1>13, <1>16, <2>1, <2>2, <2>3, <2>4, Zenon
<1> QED
  BY <1>14, <1>15, <1>16 DEF fs, rv, sp

\* The steps of the input.
LEMMA SoundInput ==
  ASSUME Stepping,
         \/ InitRead \/ StartReadHeader \/ AfterRead \/ ResetProtocolValidator \/ SkipPayload
         \/ PeerClosed \/ GoOnReading
  PROVE  SoundStack
<1> DEFINE rh == Frame("read_header")
           ch == Frame("consume_header")
           sp == Frame("skip_payload")
           go == Frame("go_on")
           t  == Trigger("connection_lost")
<1>1. /\ rh \in StackFrames /\ rh.f = "read_header" /\ ch \in StackFrames
      /\ ch.f = "consume_header" /\ sp \in StackFrames /\ sp.f = "skip_payload"
      /\ go \in StackFrames /\ go.f = "go_on"
      /\ t \in StackFrames /\ t.f = "trigger_error_and_close"
  BY FrameFacts DEF SimpleFrames, Code
<1>2. ASSUME NEW a \in {rh, ch, go}, Called(<<a>>), stack[1].f \in Reading \union {"init_read"},
             conn'.weak
      PROVE  SoundStack
  <2>1. a \in StackFrames /\ a.f \in {"read_header", "consume_header", "go_on"}
    BY <1>1
  <2>2. stack # <<>>
    BY <1>2 DEF Called
  <2>3. Adjacent(conn', a, After(stack, 1))
    BY <1>2, <2>1, <2>2, TopFits DEF Adjacent, Reading
  <2>4. Shape(a.f, After(stack, 1))
    BY <1>2, <2>1, <2>2, <2>3, TopFits, Calls1
  <2> QED
    BY <2>1, <2>4, SoundShape
<1>3. ASSUME stack # <<>>, stack[1].f \in Reading PROVE conn'.weak
  BY <1>3, TopFits DEF Adjacent
<1>4. CASE InitRead
  <2>1. stack # <<>> /\ stack[1].f = "init_read" /\ Called(<<rh>>) /\ conn'.weak
    BY <1>4 DEF InitRead, Top, Call, Called, Stepping, TypeInv, ConnOK, Conns
  <2> QED
    BY <1>2, <2>1
<1>5. CASE StartReadHeader
  <2>1. /\ stack # <<>> /\ stack[1].f = "read_header"
        /\ stack' = Tail(stack) \/ Called(<<ch>>)
    BY <1>5 DEF StartReadHeader, Top, Call, Called, Return
  <2>2. stack[1].f \in Reading
    BY <2>1 DEF Reading
  <2> QED
    BY <1>2, <1>3, <2>1, <2>2, SoundReturn
<1>6. CASE AfterRead
  <2> DEFINE p == Payload(Bytes(conn.rd.data))
  <2>1. stack' \in {<<t>>, <<ch>>, <<sp>>, <<p>>}
    BY <1>6 DEF AfterRead
  <2>2. conn.rd.data \in Seq(TokenSet)
    BY DEF Stepping, TypeInv, ConnOK, Conns, Ops
  <2>3. Bytes(conn.rd.data) \in Seq(Byte)
    BY <2>2, TokenFacts
  <2>4. p \in StackFrames /\ p.f = "payload"
    BY <2>3, FrameFacts
  <2>5. conn'.weak
    BY <1>6 DEF AfterRead, Stepping, StackInv, OneWay
  <2> HIDE DEF p, rh, ch, sp, go, t
  <2>6. ASSUME NEW a \in {t, ch, sp, p}
        PROVE  a \in StackFrames /\ Adjacent(conn', a, "end") /\ a.f # "fail_group"
    BY <1>1, <2>4, <2>5 DEF Adjacent, Waiting, Reading
  <2>7. \E a \in {t, ch, sp, p} : stack' = <<a>>
    BY <2>1
  <2> QED
    BY <2>6, <2>7, SoundFresh
<1>7. CASE ResetProtocolValidator
  BY <1>7, SoundReturn DEF ResetProtocolValidator, Top, Return
<1>8. CASE SkipPayload
  <2>1. /\ stack # <<>> /\ stack[1].f = "skip_payload"
        /\ stack' = Tail(stack) \/ Called(<<rh>>)
    BY <1>8 DEF SkipPayload, Top, Call, Called, Return
  <2>2. stack[1].f \in Reading
    BY <2>1 DEF Reading
  <2> QED
    BY <1>2, <1>3, <2>1, <2>2, SoundReturn
<1>9. CASE PeerClosed
  <2>1. /\ stack # <<>> /\ stack[1].f = "peer_closed"
        /\ CallMessageHandler("peer_close", <<go>>)
    BY <1>9 DEF PeerClosed, Top
  <2>2. stack[1].f \in Reading
    BY <2>1 DEF Reading
  <2>3. Adjacent(conn', go, After(stack, 1))
    BY <1>1, <1>3, <2>1, <2>2, TopFits DEF Adjacent, Reading
  <2> QED
    BY <1>1, <2>1, <2>3, SoundHandler
<1>10. CASE GoOnReading
  <2>1. /\ stack # <<>> /\ stack[1].f = "go_on"
        /\ Called(<<>>) \/ Called(<<rh>>)
    BY <1>10 DEF GoOnReading, Top, Call, Called
  <2>2. stack[1].f \in Reading
    BY <2>1 DEF Reading
  <2> QED
    BY <1>2, <1>3, <2>1, <2>2, SoundReturn
<1> QED
  BY <1>4, <1>5, <1>6, <1>7, <1>8, <1>9, <1>10

\* A header is parsed, a part of a payload is read, a frame is complete.
LEMMA SoundFrames ==
  ASSUME Stepping, ConsumeHeader \/ ValidatePayloadPart \/ OnMessage
  PROVE  SoundStack
<1> DEFINE rh == Frame("read_header")
           om == Frame("on_message")
           go == Frame("go_on")
<1>1. /\ rh \in StackFrames /\ rh.f = "read_header" /\ om \in StackFrames
      /\ om.f = "on_message" /\ go \in StackFrames /\ go.f = "go_on"
  BY FrameFacts DEF SimpleFrames
<1>2. conn \in Conns(conn.val)
  BY DEF Stepping, TypeInv, ConnOK
<1>3. stack # <<>> /\ stack[1].f \in {"consume_header", "payload", "on_message"}
  BY DEF ConsumeHeader, ValidatePayloadPart, OnMessage, Top
<1>4. stack[1].f \in Reading /\ conn'.weak
  BY <1>3, TopFits DEF Adjacent, Reading
<1>5. ASSUME NEW a \in StackFrames, a.f \in {"read_header", "on_message", "payload", "go_on"}
      PROVE  Adjacent(conn', a, After(stack, 1)) /\ (Called(<<a>>) => SoundStack)
  <2>1. Adjacent(conn', a, After(stack, 1))
    BY <1>3, <1>4, <1>5, TopFits DEF Adjacent, Reading
  <2>2. ASSUME Called(<<a>>) PROVE Shape(a.f, After(stack, 1))
    BY <1>3, <2>1, <2>2, TopFits, Calls1
  <2> QED
    BY <1>5, <2>1, <2>2, SoundShape
<1>6. CASE ConsumeHeader
  <2> DEFINE hdr   == Head(conn.buf).hdr
             after == Tail(conn.buf)
             n     == IF Len(after) < hdr.len THEN Len(after) ELSE hdr.len
             c     == [conn EXCEPT !.msg = hdr, !.val = ProcessNewFrame(@, hdr),
                                   !.rest = hdr.len, !.buf = SubSeq(after, n + 1, Len(after))]
             b     == Bytes(SubSeq(after, 1, n))
             p     == Payload(b)
  <2>1. conn.buf # <<>> /\ conn.buf \in Seq(TokenSet)
    BY <1>2, <1>6 DEF ConsumeHeader, Stepping, BufOK, Conns
  <2>2. Head(conn.buf) \in TokenSet /\ after \in Seq(TokenSet)
    BY <2>1
  <2>3. hdr \in Header /\ hdr.len \in Nat /\ Len(after) \in Nat
    BY <2>2 DEF TokenSet, Header
  <2>4. n \in Nat /\ n <= Len(after) /\ Len(after) <= Len(after)
    BY <2>3
  <2>5. Called(InvalidFrames(c, "invalid_close_code")) \/ Called(<<om>>) \/ Called(<<p>>)
    BY <1>3, <1>6 DEF ConsumeHeader, Call, Called
  <2> HIDE DEF hdr, after, n
  <2>6. SubSeq(after, n + 1, Len(after)) \in Seq(TokenSet)
    BY <2>2, <2>3, <2>4, TokenFacts
  <2>7. SubSeq(after, 1, n) \in Seq(TokenSet)
    <3>1. SubSeq(after, 0 + 1, n) \in Seq(TokenSet)
      BY <2>2, <2>4, TokenFacts
    <3> QED
      BY <3>1
  <2>8. b \in Seq(Byte)
    BY <2>7, TokenFacts, Zenon
  <2> HIDE DEF b
  <2>9. p \in StackFrames /\ p.f = "payload"
    BY <2>8, FrameFacts
  <2> HIDE DEF p
  <2>10. CASE Called(InvalidFrames(c, "invalid_close_code"))
    <3> DEFINE v  == ProcessNewFrame(conn.val, hdr)
               sb == SubSeq(after, n + 1, Len(after))
               c1 == [conn EXCEPT !.msg = hdr]
               c2 == [c1 EXCEPT !.val = v]
               c3 == [c2 EXCEPT !.rest = hdr.len]
    <3>1. c1 \in Conns(conn.val)
      BY <1>2, <2>3, ConnUpdates
    <3>2. c = [c3 EXCEPT !.buf = sb]
      BY <1>2 DEF Conns
    <3> HIDE DEF c1, v, sb
    <3>3. c2 \in Conns(v)
      BY <3>1, ConnUpdates
    <3> HIDE DEF c2
    <3>4. hdr.len \in Int
      BY <2>3
    <3>5. c3 \in Conns(v)
      BY <3>3, <3>4, ConnUpdates
    <3>7. sb \in Seq(TokenSet)
      BY <2>6 DEF sb
    <3> HIDE DEF c3, c
    <3>6. c \in Conns(v)
      BY <3>2, <3>5, <3>7, ConnUpdates
    <3> QED
      BY <1>3, <2>10, <3>6, SoundInvalid
  <2> QED
    BY <1>1, <1>5, <2>5, <2>9, <2>10
<1>7. CASE ValidatePayloadPart
  <2> DEFINE part == stack[1].part
             v    == ProcessNextPayloadPart(conn.val, part)
             c    == [conn EXCEPT !.val = v, !.rest = @ - Len(part)]
             fs   == InvalidFrames(c, c.val.vstate)
             more == <<Frame("reset_validator"), Frame("skip_payload")>>
  <2>1. stack[1] \in StackFrames /\ stack[1].f = "payload"
    BY <1>7, <1>3, TopFits DEF ValidatePayloadPart, Top
  <2>2. part \in Seq(Byte)
    BY <2>1, FrameFacts
  <2>3. conn.rest - Len(part) \in Int
    BY <1>2, <2>2 DEF Conns
  <2>4. \/ Called(<<om>>) \/ stack' = Tail(stack)
        \/ c.val.vstate = "incorrect_utf8_data" /\ Called(fs \o more)
        \/ Called(fs \o <<>>)
    BY <1>3, <1>7 DEF ValidatePayloadPart, Call, Called, Return
  <2> HIDE DEF part, v
  <2>5. c \in Conns(v)
    BY <1>2, <2>3, Zenon DEF Conns
  <2> HIDE DEF c
  <2>6. ASSUME stack' = Tail(stack) PROVE SoundStack
    BY <1>3, <2>6, SoundReturn
  <2>7. ASSUME c.val.vstate = "incorrect_utf8_data", Called(fs \o more) PROVE SoundStack
    BY <1>3, <2>5, <2>7, SoundInvalid
  <2>8. ASSUME Called(fs \o <<>>) PROVE SoundStack
    BY <1>3, <2>5, <2>8, SoundInvalid
  <2> QED
    BY <1>1, <1>5, <2>4, <2>6, <2>7, <2>8
<1>8. CASE OnMessage
  <2> DEFINE v  == FinishFrame(conn.val)
             c  == [conn EXCEPT !.val = v]
             iw == Frame("init_write")
             dw == Frame("disable_write")
             pc == Frame("peer_closed")
  <2>1. c \in Conns(v) /\ OneWay(conn, c)
    BY <1>2, ConnUpdates
  <2>2. \/ Called(InvalidFrames(c, FinishVerdict(conn.val)))
        \/ /\ Called(CloseToPeerFrames(c, <<>>) \o <<pc>>)
           /\ conn' = [CloseToPeer(c) EXCEPT !.toUser = FALSE]
        \/ CallMessageHandler("message", <<go>>)
        \/ Called(<<>>)
        \/ Called(<<rh>>)
    BY <1>3, <1>8, Zenon DEF OnMessage, Call, Called
  <2> HIDE DEF v, c
  <2>3. ASSUME Called(CloseToPeerFrames(c, <<>>) \o <<pc>>),
               conn' = [CloseToPeer(c) EXCEPT !.toUser = FALSE]
        PROVE  SoundStack
    <3>1. Called(<<iw, dw, pc>>) \/ Called(<<pc>>)
      <4>1. CloseToPeerFrames(c, <<>>) \o <<pc>> = IF c.toPeer THEN <<iw, dw, pc>> ELSE <<pc>>
        BY <2>1, CloseShapes, Zenon
      <4> QED
        BY <2>3, <4>1, Zenon
    <3>2. /\ iw \in StackFrames /\ iw.f = "init_write" /\ dw \in StackFrames
          /\ dw.f = "disable_write" /\ pc \in StackFrames /\ pc.f = "peer_closed"
      BY FrameFacts DEF SimpleFrames
    <3> HIDE DEF iw, dw, pc
    <3>3. ~conn'.toUser
      <4>1. CloseToPeer(c) \in Conns(v)
        BY <2>1, ToPeerFacts
      <4> QED
        BY <2>3, <4>1 DEF Conns
    <3>4. Adjacent(conn', iw, dw.f) /\ Adjacent(conn', dw, pc.f)
      BY <3>2, <3>3 DEF Adjacent, Waiting, Reading
    <3>5. Adjacent(conn', pc, After(stack, 1))
      BY <1>3, <1>4, <3>2, TopFits DEF Adjacent, Reading
    <3>6. Called(<<iw, dw, pc>>) => Shape(iw.f, dw.f)
      BY <1>3, <3>2, <3>4, <3>5, TopFits, Calls3
    <3>7. Called(<<pc>>) => Shape(pc.f, After(stack, 1))
      BY <1>3, <3>2, <3>5, TopFits, Calls1
    <3> QED
      BY <3>1, <3>2, <3>6, <3>7, SoundShape
  <2>4. ASSUME Called(InvalidFrames(c, FinishVerdict(conn.val))) PROVE SoundStack
    BY <1>3, <2>1, <2>4, SoundInvalid
  <2>5. ASSUME Called(<<>>) PROVE SoundStack
    BY <1>3, <2>5, SoundReturn
  <2>6. ASSUME CallMessageHandler("message", <<go>>) PROVE SoundStack
    BY <1>1, <1>3, <1>5, <2>6, SoundHandler
  <2> QED
    BY <1>1, <1>5, <2>2, <2>3, <2>4, <2>5, <2>6
<1> QED
  BY <1>6, <1>7, <1>8

\* Every step leaves the stack in order, and user code posts what it may.
LEMMA SoundNext ==
  ASSUME TypeInv, TokenInv, BufOK, StackInv, Next
  PROVE  /\ Stepping /\ SoundStack /\ posted' \in Seq(StackFrames)
         /\ \A k \in 1 .. Len(posted') : posted'[k].f \in Posted
<1>1. Stepping
  BY NextConn DEF Stepping
<1> DEFINE PostedNext == /\ posted' \in Seq(StackFrames)
                         /\ \A k \in 1 .. Len(posted') : posted'[k].f \in Posted
<1>2. /\ posted \in Seq(StackFrames) /\ conn \in Conns(conn.val)
      /\ \A k \in 1 .. Len(posted) : posted[k].f \in Posted
  BY DEF TypeInv, StackOK, StackInv, ConnOK
<1>3. UNCHANGED posted => PostedNext
  BY <1>2
<1>4. CASE InitWrite \/ HandleCurrentWriteCtx \/ FinishWriteGroup \/ FailGroup \/ GroupFailed
  <2>1. UNCHANGED posted
    BY <1>4 DEF InitWrite, HandleCurrentWriteCtx, FinishWriteGroup, FailGroup, GroupFailed, env, user
  <2> QED
    BY <1>1, <1>3, <1>4, <2>1, SoundOutput
<1>5. CASE \/ DisableWrite \/ StartWaitingCloseFrameOnly \/ CloseNow \/ TriggerErrorAndClose
           \/ CallCloseHandlerIfNecessary \/ Kill
  <2>1. UNCHANGED posted
    BY <1>5 DEF DisableWrite, StartWaitingCloseFrameOnly, CloseNow, TriggerErrorAndClose,
                CallCloseHandlerIfNecessary, Kill, env, user
  <2> QED
    BY <1>1, <1>3, <1>5, <2>1, SoundClosing
<1>6. CASE \/ InitRead \/ StartReadHeader \/ ResetProtocolValidator \/ SkipPayload \/ PeerClosed
           \/ GoOnReading
  <2>1. UNCHANGED posted
    BY <1>6 DEF InitRead, StartReadHeader, ResetProtocolValidator, SkipPayload, PeerClosed,
                GoOnReading, env, user
  <2> QED
    BY <1>1, <1>3, <1>6, <2>1, SoundInput
<1>7. CASE ConsumeHeader \/ ValidatePayloadPart \/ OnMessage
  <2>1. UNCHANGED posted
    BY <1>7 DEF ConsumeHeader, ValidatePayloadPart, OnMessage, env, user
  <2> QED
    BY <1>1, <1>3, <1>7, <2>1, SoundFrames
<1>8. CASE WriteDataImpl \/ Shutdown
  <2>1. UNCHANGED posted
    BY <1>8 DEF WriteDataImpl, Shutdown, env, user
  <2> QED
    BY <1>1, <1>3, <1>8, <2>1, SoundCalls
<1>9. CASE Returns \/ NotificatorThrows
  <2>1. UNCHANGED posted
    BY <1>9, Zenon DEF Returns, HandlerReturns, NotificatorReturns, NotificatorThrows, env, user
  <2>2. SoundStack
    BY <1>1, <1>9, SoundThrow, SoundClosing, SoundOutput DEF Returns
  <2> QED
    BY <1>1, <1>3, <2>1, <2>2
<1>10. CASE RunPosted
  <2>1. SoundStack
    BY <1>1, <1>10, SoundCalls
  <2>2. posted # <<>> /\ posted' = Tail(posted)
    BY <1>10 DEF RunPosted
  <2>3. posted' \in Seq(StackFrames) /\ Len(posted') = Len(posted) - 1
        /\ \A k \in 1 .. Len(posted) - 1 : k + 1 \in 2 .. Len(posted) /\ posted'[k] = posted[k + 1]
    BY <1>2, <2>2, PopStack
  <2> QED
    BY <1>1, <1>2, <2>1, <2>3
<1>11. CASE AfterRead
  <2>1. UNCHANGED posted
    BY <1>11 DEF AfterRead, env, user
  <2> QED
    BY <1>1, <1>3, <1>11, <2>1, SoundInput
<1>12. CASE AfterWrite
  <2>1. UNCHANGED posted
    BY <1>12 DEF AfterWrite, env, user
  <2> QED
    BY <1>1, <1>3, <1>12, <2>1, SoundOutput
<1>13. CASE Destroy \/ WaitTimedOut
  <2>1. UNCHANGED <<posted, stack>> /\ stack = <<>>
    BY <1>13 DEF Destroy, WaitTimedOut, env, user
  <2> QED
    BY <1>1, <1>3, <2>1, SoundSame
<1>14. CASE WriteTimedOut
  <2>1. UNCHANGED posted
    BY <1>14 DEF WriteTimedOut, env, user
  <2> QED
    BY <1>1, <1>3, <1>14, <2>1, SoundClosing
<1>15. CASE User
  <2>1. ASSUME NEW fr \in StackFrames, fr.f \in Posted, Dispatch(fr), conn' = conn
        PROVE  SoundStack /\ PostedNext
    BY <1>1, <2>1, SoundDispatch
  <2>2. \A f \in {"init_read", "shutdown", "kill"} :
          Frame(f) \in StackFrames /\ Frame(f).f \in Posted
    BY FrameFacts DEF SimpleFrames, Posted
  <2>3. CASE Activate
    <3>1. Dispatch(Frame("init_read")) /\ conn' = conn
      BY <2>3 DEF Activate
    <3>2. Frame("init_read") \in StackFrames /\ Frame("init_read").f \in Posted
      BY <2>2
    <3> QED
      BY <1>1, <2>1, <3>1, <3>2
  <2>4. ASSUME NEW close \in BOOLEAN, SendMessage(close) PROVE SoundStack /\ PostedNext
    <3> DEFINE g == Group(used.sends + 1, close, 2)
    <3>1. used.sends \in 0 .. MaxSends /\ used.sends < MaxSends /\ MaxSends \in Nat
      BY <2>4, WsConnectionAssumption DEF SendMessage, TypeInv, EnvOK
    <3>2. used.sends + 1 \in 0 .. OwnClose /\ 2 \in 1 .. 2
      BY <3>1 DEF OwnClose
    <3>3. g \in Groups
      BY <3>2, GroupFacts
    <3> HIDE DEF g
    <3>4. WriteData(g) \in StackFrames /\ WriteData(g).f \in Posted
      BY <3>3, FrameFacts DEF Posted
    <3> QED
      BY <2>1, <2>4, <3>4 DEF SendMessage, g
  <2>5. ASSUME NEW how \in {"shutdown", "kill"}, GiveUp(how) PROVE SoundStack /\ PostedNext
    BY <2>1, <2>2, <2>5 DEF GiveUp
  <2>6. CASE DropHandle
    <3>1. CASE UNCHANGED <<stack, posted>>
      <4>1. conn' = conn
        BY <2>6 DEF DropHandle
      <4> QED
        BY <1>1, <1>3, <3>1, <4>1, SoundSame
    <3>2. CASE Dispatch(Frame("shutdown"))
      <4>1. Frame("shutdown") \in StackFrames /\ Frame("shutdown").f \in Posted
        BY <2>2
      <4>2. conn' = conn
        BY <2>6 DEF DropHandle
      <4> QED
        BY <1>1, <2>1, <3>2, <4>1, <4>2
    <3> QED
      BY <2>6, <3>1, <3>2 DEF DropHandle
  <2> QED
    BY <1>1, <1>15, <2>3, <2>4, <2>5, <2>6 DEF User
<1>16. CASE Peer
  <2>1. UNCHANGED <<posted, stack>>
    BY <1>16 DEF Peer, PeerSends, ReadCompletes, ReadFails, WriteCompletes, WriteFails, env, user
  <2>2. conn'.out = conn.out
    BY <1>2, <1>16
       DEF Peer, PeerSends, ReadCompletes, ReadFails, WriteCompletes, WriteFails, Conns
  <2> QED
    BY <1>1, <1>3, <2>1, <2>2, SoundSame
<1>17. CASE Strand
  BY ONLY <1>17, <1>4, <1>5, <1>6, <1>7, <1>8 DEF Strand
<1>18. CASE Time
  BY ONLY <1>18, <1>13, <1>14 DEF Time
<1> QED
  BY ONLY Next, <1>9, <1>10, <1>11, <1>12, <1>13, <1>15, <1>16, <1>17, <1>18 DEF Next

-----------------------------------------------------------------------------
(* The kinds of the frames a step calls *)

\* The frames of which one at most is there: the reader.
ReadFrames == Reading \union {"init_read"}
Owners     == WriteFrames \union ReadFrames

Kinds(s, K) == \A k \in 1 .. Len(s) : s[k].f \in K

\* The top frame is replaced by frames of the kinds K, the last of which
\* alone may be an owner.
Brings(K) == \E fs \in Seq(StackFrames) :
               /\ Called(fs) /\ Kinds(fs, K)
               /\ \A k \in 1 .. Len(fs) - 1 : fs[k].f \notin Owners

\* The frames of a close frame of this side.
ClosingKinds == {"init_write", "disable_write", "wait_close", "close_handler", "close_impl"}

\* A step brings the frames it calls.
LEMMA BringsCalled ==
  ASSUME NEW K
  PROVE  /\ Called(<<>>) => Brings(K)
         /\ \A a \in StackFrames : Called(<<a>>) /\ a.f \in K => Brings(K)
         /\ \A a, b \in StackFrames :
              Called(<<a, b>>) /\ a.f \in K \ Owners /\ b.f \in K => Brings(K)
         /\ \A a, b, c \in StackFrames :
              Called(<<a, b, c>>) /\ a.f \in K \ Owners /\ b.f \in K \ Owners /\ c.f \in K
                => Brings(K)
<1>1. ASSUME Called(<<>>) PROVE Brings(K)
  <2> DEFINE fs == <<>>
  <2>1. fs \in Seq(StackFrames) /\ Len(fs) = 0 /\ Called(fs)
    BY <1>1
  <2> HIDE DEF fs
  <2>2. Kinds(fs, K) /\ \A k \in 1 .. Len(fs) - 1 : fs[k].f \notin Owners
    BY <2>1 DEF Kinds
  <2> QED
    BY <2>1, <2>2, Zenon DEF Brings
<1>2. ASSUME NEW a \in StackFrames, Called(<<a>>), a.f \in K PROVE Brings(K)
  <2> DEFINE fs == <<a>>
  <2>1. fs \in Seq(StackFrames) /\ Len(fs) = 1 /\ fs[1] = a /\ Called(fs)
    BY <1>2
  <2> HIDE DEF fs
  <2>2. Kinds(fs, K) /\ \A k \in 1 .. Len(fs) - 1 : fs[k].f \notin Owners
    BY <1>2, <2>1 DEF Kinds
  <2> QED
    BY <2>1, <2>2, Zenon DEF Brings
<1>3. ASSUME NEW a \in StackFrames, NEW b \in StackFrames, Called(<<a, b>>),
             a.f \in K \ Owners, b.f \in K
      PROVE  Brings(K)
  <2> DEFINE fs == <<a, b>>
  <2>1. fs \in Seq(StackFrames) /\ Len(fs) = 2 /\ fs[1] = a /\ fs[2] = b /\ Called(fs)
    BY <1>3
  <2> HIDE DEF fs
  <2>2. Kinds(fs, K) /\ \A k \in 1 .. Len(fs) - 1 : fs[k].f \notin Owners
    BY <1>3, <2>1 DEF Kinds
  <2> QED
    BY <2>1, <2>2, Zenon DEF Brings
<1>4. ASSUME NEW a \in StackFrames, NEW b \in StackFrames, NEW c \in StackFrames,
             Called(<<a, b, c>>), a.f \in K \ Owners, b.f \in K \ Owners, c.f \in K
      PROVE  Brings(K)
  <2> DEFINE fs == <<a, b, c>>
  <2>1. /\ fs \in Seq(StackFrames) /\ Len(fs) = 3 /\ fs[1] = a /\ fs[2] = b /\ fs[3] = c
        /\ Called(fs)
    BY <1>4
  <2> HIDE DEF fs
  <2>2. Kinds(fs, K) /\ \A k \in 1 .. Len(fs) - 1 : fs[k].f \notin Owners
    BY <1>4, <2>1 DEF Kinds
  <2> QED
    BY <2>1, <2>2 DEF Brings
<1> QED
  BY <1>1, <1>2, <1>3, <1>4

\* The longer ones of handle_invalid_payload()
LEMMA BringsMore ==
  ASSUME NEW K, NEW a \in StackFrames, NEW b \in StackFrames, NEW c \in StackFrames,
         NEW d \in StackFrames, NEW e \in StackFrames, NEW g \in StackFrames,
         a.f \in K \ Owners, b.f \in K \ Owners, c.f \in K \ Owners, d.f \in K \ Owners
  PROVE  /\ Called(<<a, b, c, d>>) => Brings(K)
         /\ e.f \in K \ Owners /\ g.f \in K /\ Called(<<a, b, c, d, e, g>>) => Brings(K)
<1>1. ASSUME Called(<<a, b, c, d>>) PROVE Brings(K)
  <2> DEFINE fs == <<a, b, c, d>>
  <2>1. /\ fs \in Seq(StackFrames) /\ Len(fs) = 4 /\ fs[1] = a /\ fs[2] = b /\ fs[3] = c
        /\ fs[4] = d /\ Called(fs)
    BY <1>1
  <2> HIDE DEF fs
  <2>2. Kinds(fs, K) /\ \A k \in 1 .. Len(fs) - 1 : fs[k].f \notin Owners
    BY <2>1 DEF Kinds
  <2> QED
    BY <2>1, <2>2 DEF Brings
<1>2. ASSUME e.f \in K \ Owners, g.f \in K, Called(<<a, b, c, d, e, g>>) PROVE Brings(K)
  <2> DEFINE fs == <<a, b, c, d, e, g>>
  <2>1. fs \in Seq(StackFrames) /\ Len(fs) = 6 /\ Called(fs)
    BY <1>2
  <2>2. fs[1] = a /\ fs[2] = b /\ fs[3] = c /\ fs[4] = d /\ fs[5] = e /\ fs[6] = g
    OBVIOUS
  <2> HIDE DEF fs
  <2>3. Kinds(fs, K)
    BY <1>2, <2>1, <2>2 DEF Kinds
  <2>4. \A k \in 1 .. Len(fs) - 1 : fs[k].f \notin Owners
    BY <1>2, <2>1, <2>2
  <2> QED
    BY <2>1, <2>3, <2>4, Zenon DEF Brings
<1> QED
  BY <1>1, <1>2

\* The kinds of the frames of reading a frame of the peer.
FrameKinds == ClosingKinds \union {"payload", "on_message", "reset_validator", "skip_payload",
                                   "peer_closed", "handler", "go_on", "read_header"}

\* handle_invalid_payload(), and the skipping of the payload that may follow it.
LEMMA InvalidBrings ==
  ASSUME stack # <<>>, NEW v, NEW c \in Conns(v), NEW verdict
  PROVE  /\ Called(InvalidFrames(c, verdict)) => Brings(FrameKinds)
         /\ InvalidFrames(c, verdict) \o <<>> = InvalidFrames(c, verdict)
         /\ /\ verdict # "invalid_close_code"
            /\ Called(InvalidFrames(c, verdict)
                      \o <<Frame("reset_validator"), Frame("skip_payload")>>)
            => Brings(FrameKinds)
<1> DEFINE iw == Frame("init_write")
           dw == Frame("disable_write")
           wc == Frame("wait_close")
           ci == Frame("close_impl")
           rv == Frame("reset_validator")
           sp == Frame("skip_payload")
           pe == CloseHandler("protocol_error")
           im == CloseHandler("invalid_message_data")
           fs == InvalidFrames(c, verdict)
<1>1. /\ iw \in StackFrames /\ iw.f = "init_write" /\ dw \in StackFrames
      /\ dw.f = "disable_write" /\ wc \in StackFrames /\ wc.f = "wait_close"
      /\ ci \in StackFrames /\ ci.f = "close_impl" /\ rv \in StackFrames
      /\ rv.f = "reset_validator" /\ sp \in StackFrames /\ sp.f = "skip_payload"
      /\ pe \in StackFrames /\ pe.f = "close_handler"
      /\ im \in StackFrames /\ im.f = "close_handler"
  BY FrameFacts DEF SimpleFrames, Code
<1>2. /\ fs \in {<<>>, <<ci>>, <<pe>>, <<im>>, <<iw, dw, pe>>, <<iw, dw, wc, im>>}
      /\ verdict # "invalid_close_code" => fs \in {<<>>, <<im>>, <<iw, dw, wc, im>>}
  <2>1. CASE verdict = "invalid_close_code"
    BY <2>1, CloseShapes
  <2>2. CASE verdict # "invalid_close_code"
    BY <2>2, CloseShapes
  <2> QED
    BY <2>1, <2>2
<1> HIDE DEF iw, dw, wc, ci, rv, sp, pe, im, fs
<1> DEFINE K == FrameKinds
<1>3. /\ iw.f \in K \ Owners /\ dw.f \in K \ Owners /\ wc.f \in K \ Owners
      /\ im.f \in K \ Owners /\ rv.f \in K \ Owners
      /\ sp.f \in K /\ ci.f \in K /\ pe.f \in K
  BY <1>1 DEF FrameKinds, ClosingKinds, Owners, WriteFrames, ReadFrames, Reading
<1> HIDE DEF K
<1>4. Called(<<>>) \/ Called(<<ci>>) \/ Called(<<pe>>) \/ Called(<<im>>) => Brings(K)
  BY <1>1, <1>3, BringsCalled, Zenon
<1>5. Called(<<iw, dw, pe>>) \/ Called(<<im, rv, sp>>) => Brings(K)
  BY <1>1, <1>3, BringsCalled, Zenon
<1>6. Called(<<rv, sp>>) => Brings(K)
  BY <1>1, <1>3, BringsCalled, Zenon
<1>7. Called(<<iw, dw, wc, im>>) \/ Called(<<iw, dw, wc, im, rv, sp>>) => Brings(K)
  BY <1>1, <1>3, BringsMore, Zenon
<1>8. Called(fs) => Brings(K)
  BY <1>2, <1>4, <1>5, <1>7
<1>9. fs \o <<>> = fs
  <2>1. <<ci>> \in Seq(StackFrames) /\ <<pe>> \in Seq(StackFrames) /\ <<im>> \in Seq(StackFrames)
    BY <1>1
  <2>2. <<iw, dw, pe>> \in Seq(StackFrames)
    BY <1>1
  <2>3. <<iw, dw, wc, im>> \in Seq(StackFrames)
    BY <1>1
  <2>4. <<>> \in Seq(StackFrames)
    OBVIOUS
  <2>5. fs \in Seq(StackFrames)
    BY <1>2, <2>1, <2>2, <2>3, <2>4, Zenon
  <2> QED
    BY <2>5, ConcatEmptySeq
<1>10. ASSUME verdict # "invalid_close_code", Called(fs \o <<rv, sp>>) PROVE Brings(K)
  <2>1. <<im>> \o <<rv, sp>> = <<im, rv, sp>>
    BY Concat12, Zenon
  <2>2. <<iw, dw, wc, im>> \o <<rv, sp>> = <<iw, dw, wc, im, rv, sp>>
    <3> DEFINE x == <<iw, dw, wc, im>>
               y == <<rv, sp>>
               z == <<iw, dw, wc, im, rv, sp>>
    <3>1. x \in Seq(StackFrames) /\ Len(x) = 4 /\ y \in Seq(StackFrames) /\ Len(y) = 2
      BY <1>1
    <3>2. z \in Seq(StackFrames) /\ Len(z) = 6
      BY <1>1
    <3>3. x \o y \in Seq(StackFrames) /\ Len(x \o y) = 6
      BY <3>1, ConcatProperties
    <3>4. \A i \in 1 .. 6 : (x \o y)[i] = z[i]
      BY <3>1, ConcatProperties
    <3> HIDE DEF x, y, z
    <3>5. x \o y = z
      BY <3>2, <3>3, <3>4, SeqEqual, Zenon
    <3> QED
      BY <3>5 DEF x, y, z
  <2>3. <<>> \o <<rv, sp>> = <<rv, sp>>
    OBVIOUS
  <2>4. fs \in {<<>>, <<im>>, <<iw, dw, wc, im>>}
    BY <1>2, <1>10
  <2> QED
    BY <1>5, <1>6, <1>7, <1>10, <2>1, <2>2, <2>3, <2>4, Zenon
<1> QED
  BY <1>8, <1>9, <1>10 DEF fs, rv, sp, K

-----------------------------------------------------------------------------
(* Owners on the stack *)

\* Which frames of W there are when the top frame is replaced by fs.
LEMMA OwnerCall ==
  ASSUME NEW S, NEW s \in Seq(S), s # <<>>, NEW fs \in Seq(S), NEW r, r = fs \o Tail(s), NEW W
  PROVE  /\ Has(r, W) <=> (Has(fs, W) \/ Has(Tail(s), W))
         /\ Has(s, W) <=> (s[1].f \in W \/ Has(Tail(s), W))
         /\ Once(s, W) => Once(Tail(s), W) /\ ~(s[1].f \in W /\ Has(Tail(s), W))
         /\ Once(fs, W) /\ Once(Tail(s), W) /\ ~(Has(fs, W) /\ Has(Tail(s), W)) => Once(r, W)
<1> DEFINE t == Tail(s)
           m == Len(fs)
           n == Len(t)
<1>1. /\ Len(r) = Len(fs) + Len(s) - 1
      /\ \A k \in 1 .. Len(fs) : r[k] = fs[k]
      /\ \A k \in Len(fs) + 1 .. Len(r) :
           k - Len(fs) + 1 \in 2 .. Len(s) /\ r[k] = s[k - Len(fs) + 1]
  BY CallStack
<1>2. /\ t \in Seq(S) /\ Len(t) = Len(s) - 1 /\ Len(s) \in Nat \ {0}
      /\ \A k \in 1 .. Len(s) - 1 : k + 1 \in 2 .. Len(s) /\ t[k] = s[k + 1]
  BY PopStack
<1> HIDE DEF t
<1>3. m \in Nat /\ n \in Nat /\ Len(r) = m + n /\ Len(s) = n + 1
  BY <1>1, <1>2
<1>4. \A k \in 1 .. m : r[k] = fs[k]
  BY <1>1
<1>5. \A k \in 1 .. n : t[k] = s[k + 1]
  BY <1>2, <1>3
<1>6. ASSUME NEW k \in 1 .. n PROVE r[m + k] = t[k]
  <2> DEFINE l == m + k
  <2>1. l \in Len(fs) + 1 .. Len(r) /\ l - Len(fs) + 1 = k + 1
    BY <1>3
  <2> HIDE DEF l
  <2>2. r[l] = s[k + 1]
    BY <1>1, <2>1, SMTT(30)
  <2> QED
    BY <1>5, <2>2, Zenon DEF l
<1> HIDE DEF m, n
<1>7. Len(fs) = m /\ Len(t) = n
  BY DEF m, n
<1>8. ASSUME NEW k \in 1 .. m + n
      PROVE  (k \in 1 .. m /\ r[k] = fs[k]) \/ (\E j \in 1 .. n : k = m + j /\ r[k] = t[j])
  <2>1. CASE k <= m
    BY <1>3, <1>4, <2>1
  <2>2. CASE k > m
    <3>1. k - m \in 1 .. n /\ k = m + (k - m)
      BY <1>3, <2>2
    <3> QED
      BY <1>6, <3>1, Zenon
  <2> QED
    BY <1>3, <2>1, <2>2
<1>9. Has(r, W) <=> (Has(fs, W) \/ Has(t, W))
  <2>1. Has(r, W) => Has(fs, W) \/ Has(t, W)
    BY <1>3, <1>7, <1>8, Zenon DEF Has
  <2>2. Has(fs, W) => Has(r, W)
    BY <1>3, <1>4, <1>7 DEF Has
  <2>3. ASSUME Has(t, W) PROVE Has(r, W)
    <3>1. PICK j \in 1 .. n : t[j].f \in W
      BY <1>7, <2>3 DEF Has
    <3>2. m + j \in 1 .. Len(r) /\ r[m + j] = t[j]
      BY <1>3, <1>6
    <3> QED
      BY <3>1, <3>2, SMTT(30) DEF Has
  <2> QED
    BY <2>1, <2>2, <2>3
<1>10. ASSUME NEW k \in 1 .. n + 1 PROVE k = 1 \/ \E j \in 1 .. n : k = j + 1
  <2>1. CASE k > 1
    <3>1. k - 1 \in 1 .. n /\ k = (k - 1) + 1
      BY <1>3, <2>1
    <3> QED
      BY <3>1
  <2> QED
    BY <1>3, <2>1
<1>11. Has(s, W) <=> (s[1].f \in W \/ Has(t, W))
  <2>1. ASSUME Has(s, W) PROVE s[1].f \in W \/ Has(t, W)
    <3>1. PICK k \in 1 .. n + 1 : s[k].f \in W
      BY <1>3, <2>1 DEF Has
    <3> QED
      BY <1>5, <1>7, <1>10, <3>1, Zenon DEF Has
  <2>2. s[1].f \in W => Has(s, W)
    BY <1>3 DEF Has
  <2>3. ASSUME Has(t, W) PROVE Has(s, W)
    <3>1. PICK j \in 1 .. n : t[j].f \in W
      BY <1>7, <2>3 DEF Has
    <3>2. j + 1 \in 1 .. Len(s) /\ s[j + 1] = t[j]
      BY <1>3, <1>5
    <3> QED
      BY <3>1, <3>2 DEF Has
  <2> QED
    BY <2>1, <2>2, <2>3
<1>12. ASSUME Once(s, W) PROVE Once(t, W) /\ ~(s[1].f \in W /\ Has(t, W))
  <2>1. ASSUME NEW i \in 1 .. n, NEW j \in 1 .. n, t[i].f \in W, t[j].f \in W PROVE i = j
    <3>1. i + 1 \in 1 .. Len(s) /\ j + 1 \in 1 .. Len(s)
      BY <1>3
    <3>2. i + 1 = j + 1
      BY <1>5, <1>12, <2>1, <3>1, Zenon DEF Once
    <3> QED
      BY <3>2
  <2>2. ASSUME NEW j \in 1 .. n, t[j].f \in W, s[1].f \in W PROVE FALSE
    <3>1. 1 \in 1 .. Len(s) /\ j + 1 \in 1 .. Len(s) /\ j + 1 # 1
      BY <1>3
    <3> QED
      BY <1>5, <1>12, <2>2, <3>1 DEF Once
  <2> QED
    BY <1>7, <2>1, <2>2 DEF Once, Has
<1>13. ASSUME Once(fs, W), Once(t, W), ~(Has(fs, W) /\ Has(t, W)) PROVE Once(r, W)
  <2>1. ASSUME NEW k \in 1 .. m + n, NEW l \in 1 .. m + n, r[k].f \in W, r[l].f \in W
        PROVE  k = l
    <3>1. CASE k \in 1 .. m /\ l \in 1 .. m /\ r[k] = fs[k] /\ r[l] = fs[l]
      BY <1>7, <1>13, <2>1, <3>1 DEF Once
    <3>2. CASE \E i, j \in 1 .. n : k = m + i /\ r[k] = t[i] /\ l = m + j /\ r[l] = t[j]
      BY <1>7, <1>13, <2>1, <3>2, Zenon DEF Once
    <3>3. CASE \/ k \in 1 .. m /\ r[k] = fs[k] /\ \E j \in 1 .. n : r[l] = t[j]
               \/ l \in 1 .. m /\ r[l] = fs[l] /\ \E j \in 1 .. n : r[k] = t[j]
      BY <1>7, <1>13, <2>1, <3>3, Zenon DEF Has
    <3> QED
      BY <1>8, <3>1, <3>2, <3>3, Zenon
  <2> QED
    BY <1>3, <2>1 DEF Once
<1> QED
  BY <1>9, <1>11, <1>12, <1>13 DEF t

\* Which owners there are after a step that calls frames.
LEMMA BringsOwners ==
  ASSUME StackOK, NEW K, Brings(K), NEW W \in {WriteFrames, ReadFrames}
  PROVE  /\ stack # <<>> /\ (Has(stack, W) <=> (stack[1].f \in W \/ Has(Tail(stack), W)))
         /\ K \intersect W = {} /\ stack[1].f \notin W
              => (Has(stack', W) <=> Has(stack, W)) /\ (Once(stack, W) => Once(stack', W))
         /\ Once(stack, W) /\ stack[1].f \in W => Once(stack', W)
         /\ Once(stack, W) /\ stack[1].f \in W /\ K \intersect W = {} => ~Has(stack', W)
         /\ ~Has(stack, W) => Once(stack', W)
         /\ First(stack') \in K \union {After(stack, 1)}
         /\ \A V : K \intersect V = {} /\ Has(stack', V) => Has(stack, V)
<1>1. PICK fs \in Seq(StackFrames) : /\ Called(fs) /\ Kinds(fs, K)
                                     /\ \A k \in 1 .. Len(fs) - 1 : fs[k].f \notin Owners
  BY DEF Brings
<1> DEFINE s == stack
           r == stack'
<1>2. s \in Seq(StackFrames) /\ s # <<>> /\ r = fs \o Tail(s)
  BY <1>1 DEF StackOK, Called
<1>3. Once(fs, W)
  <2>1. ASSUME NEW k \in 1 .. Len(fs), fs[k].f \in W PROVE k = Len(fs)
    BY <1>1, <2>1 DEF Owners
  <2> QED
    BY <2>1 DEF Once
<1>4. ASSUME NEW V, K \intersect V = {} PROVE ~Has(fs, V)
  BY <1>1, <1>4 DEF Kinds, Has
<1>5. First(r) \in K \union {After(s, 1)}
  <2>1. /\ Len(r) = Len(fs) + Len(s) - 1
        /\ \A k \in 1 .. Len(fs) : r[k] = fs[k]
        /\ \A k \in Len(fs) + 1 .. Len(r) :
             k - Len(fs) + 1 \in 2 .. Len(s) /\ r[k] = s[k - Len(fs) + 1]
    BY <1>2, CallStack
  <2>2. Len(s) \in Nat \ {0} /\ Len(fs) \in Nat /\ r \in Seq(StackFrames)
    BY <1>2, CallStack
  <2>3. CASE Len(fs) > 0
    <3>1. r[1] = fs[1] /\ Len(r) > 0
      BY <2>1, <2>2, <2>3
    <3> QED
      BY <1>1, <2>2, <2>3, <3>1 DEF First, Kinds
  <2>4. CASE Len(fs) = 0 /\ Len(s) > 1
    <3>1. r[1] = s[2] /\ Len(r) > 0
      BY <2>1, <2>2, <2>4
    <3> QED
      BY <2>2, <2>4, <3>1 DEF First, After
  <2>5. CASE Len(fs) = 0 /\ Len(s) = 1
    BY <2>1, <2>2, <2>5 DEF First, After
  <2>6. \A m \in Nat, n \in Nat \ {0} : m > 0 \/ (m = 0 /\ n > 1) \/ (m = 0 /\ n = 1)
    OBVIOUS
  <2>7. Len(fs) > 0 \/ (Len(fs) = 0 /\ Len(s) > 1) \/ (Len(fs) = 0 /\ Len(s) = 1)
    BY <2>2, <2>6, Zenon
  <2> QED
    BY <2>3, <2>4, <2>5, <2>7
<1> HIDE DEF s, r
<1>6. ASSUME NEW V
      PROVE  /\ Has(r, V) <=> (Has(fs, V) \/ Has(Tail(s), V))
             /\ Has(s, V) <=> (s[1].f \in V \/ Has(Tail(s), V))
             /\ Once(s, V) => Once(Tail(s), V) /\ ~(s[1].f \in V /\ Has(Tail(s), V))
             /\ Once(fs, V) /\ Once(Tail(s), V) /\ ~(Has(fs, V) /\ Has(Tail(s), V)) => Once(r, V)
  BY <1>2, OwnerCall, Zenon
<1>7. ASSUME NEW V, ~Has(Tail(s), V) PROVE Once(Tail(s), V)
  BY <1>7 DEF Has, Once
<1>8. \A V : K \intersect V = {} /\ Has(r, V) => Has(s, V)
  BY <1>4, <1>6
<1>9. /\ Has(r, W) <=> (Has(fs, W) \/ Has(Tail(s), W))
      /\ Has(s, W) <=> (s[1].f \in W \/ Has(Tail(s), W))
      /\ Once(s, W) => Once(Tail(s), W) /\ ~(s[1].f \in W /\ Has(Tail(s), W))
      /\ ~(Has(fs, W) /\ Has(Tail(s), W)) /\ Once(Tail(s), W) => Once(r, W)
      /\ ~Has(Tail(s), W) => Once(Tail(s), W)
      /\ K \intersect W = {} => ~Has(fs, W)
  BY <1>3, <1>4, <1>6, <1>7
<1> QED
  BY <1>2, <1>5, <1>8, <1>9, Zenon DEF s, r

\* Which frames of W there are when a handler begins, or a frame is put on top.
LEMMA OwnerFresh ==
  ASSUME NEW W
  PROVE  /\ ~Has(<<>>, W) /\ Once(<<>>, W)
         /\ \A a \in StackFrames : (Has(<<a>>, W) <=> a.f \in W) /\ Once(<<a>>, W)
         /\ \A a, b \in StackFrames : /\ Has(<<a, b>>, W) <=> (a.f \in W \/ b.f \in W)
                                      /\ a.f \notin W => Once(<<a, b>>, W)
         /\ \A a \in StackFrames, s \in Seq(StackFrames) :
              /\ Has(<<a>> \o s, W) <=> (a.f \in W \/ Has(s, W))
              /\ a.f \notin W /\ Once(s, W) => Once(<<a>> \o s, W)
<1>1. ~Has(<<>>, W) /\ Once(<<>>, W)
  BY DEF Has, Once
<1>2. ASSUME NEW a \in StackFrames
      PROVE  (Has(<<a>>, W) <=> a.f \in W) /\ Once(<<a>>, W)
  BY DEF Has, Once
<1>3. ASSUME NEW a \in StackFrames, NEW b \in StackFrames
      PROVE  /\ Has(<<a, b>>, W) <=> (a.f \in W \/ b.f \in W)
             /\ a.f \notin W => Once(<<a, b>>, W)
  <2> DEFINE s == <<a, b>>
  <2>1. Len(s) = 2 /\ s[1] = a /\ s[2] = b
    OBVIOUS
  <2> HIDE DEF s
  <2>2. /\ Has(s, W) <=> (a.f \in W \/ b.f \in W)
        /\ a.f \notin W => Once(s, W)
    BY <2>1 DEF Has, Once
  <2> QED
    BY <2>2 DEF s
<1>4. ASSUME NEW a \in StackFrames, NEW s \in Seq(StackFrames)
      PROVE  /\ Has(<<a>> \o s, W) <=> (a.f \in W \/ Has(s, W))
             /\ a.f \notin W /\ Once(s, W) => Once(<<a>> \o s, W)
  <2> DEFINE r == <<a>> \o s
             n == Len(s)
  <2>1. /\ Len(r) = n + 1 /\ r[1] = a /\ n \in Nat
        /\ \A k \in 2 .. Len(r) : k - 1 \in 1 .. Len(s) /\ r[k] = s[k - 1]
    BY PushStack
  <2> HIDE DEF r
  <2>2. ASSUME NEW k \in 1 .. n PROVE k + 1 \in 1 .. Len(r) /\ r[k + 1] = s[k]
    BY <2>1, <2>2
  <2>3. ASSUME NEW k \in 1 .. Len(r), k # 1
        PROVE  k - 1 \in 1 .. n /\ r[k] = s[k - 1]
    BY <2>1, <2>3
  <2>4. Has(r, W) => a.f \in W \/ Has(s, W)
    BY <2>1, <2>3 DEF Has
  <2>5. a.f \in W => Has(r, W)
    BY <2>1 DEF Has
  <2>6. Has(s, W) => Has(r, W)
    BY <2>2, Zenon DEF Has
  <2>7. ASSUME a.f \notin W, Once(s, W), NEW k \in 1 .. Len(r), NEW l \in 1 .. Len(r),
               r[k].f \in W, r[l].f \in W
        PROVE  k = l
    <3>1. k # 1 /\ l # 1
      BY <2>1, <2>7
    <3>2. k - 1 = l - 1
      BY <2>3, <2>7, <3>1, Zenon DEF Once
    <3> QED
      BY <2>1, <3>2
  <2> QED
    BY <2>4, <2>5, <2>6, <2>7 DEF Once, r
<1> QED
  BY <1>1, <1>2, <1>3, <1>4, Zenon
=============================================================================
