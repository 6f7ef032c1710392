------------------------- MODULE WsConnectionProofs -------------------------
(***************************************************************************)
(* The members of a WebSocket connection keep their types, for any number  *)
(* of messages, any frames of the peer and any order of what user code,    *)
(* the peer and the timers do; some of them change once.  The frame of a   *)
(* handler that may stand above another one.                               *)
(***************************************************************************)
EXTENDS WsConnection, SequenceTheorems, TLAPS

-----------------------------------------------------------------------------
(* Types *)

Groups  == {Group(id, close, n) : id \in 0 .. OwnClose, close \in BOOLEAN, n \in 1 .. 2}
Results == {"ok", "error", "not_executed", "destroyed"}

SimpleFrames ==
  {"init_write", "write_ctx", "finish_group", "fail_group", "group_failed", "disable_write",
   "wait_close", "close_impl", "handler", "init_read", "read_header", "consume_header",
   "reset_validator", "skip_payload", "on_message", "peer_closed", "go_on", "shutdown",
   "kill"}

StackFrames ==
  {Frame(f) : f \in SimpleFrames} \union {CloseHandler(code) : code \in Code}
    \union {Trigger(code) : code \in Code} \union {Payload(part) : part \in Seq(Byte)}
    \union {WriteData(g) : g \in Groups}
    \union {Notificator(n, res) : n \in Sends, res \in Results}

PeerFrames == [hdr : Header, payload : Seq(Byte)]
TokenSet   == [hdr : Header, byte : Byte]
OpStates   == {"none", "running", "ok", "error"}
Ops        == [st : OpStates, what : {"header", "payload", "skip", "write"},
               data : Seq(TokenSet)]
Outputs    == [wg : Groups \union {NoGroup}, next : Nat \ {0}]

\* The members; what the validator is is a matter of its own.
Conns(v) ==
  [open : BOOLEAN, rstate : {"nothing", "any", "only_close"}, writable : BOOLEAN,
   toUser : BOOLEAN, toPeer : BOOLEAN, queue : Seq(Groups), out : Outputs,
   rd : Ops, wr : Ops, buf : Seq(TokenSet), msg : Header, rest : Int,
   val : {v}, wait : BOOLEAN, weak : BOOLEAN]

ConnOK == conn \in Conns(conn.val)

StackOK == stack \in Seq(StackFrames) /\ posted \in Seq(StackFrames)

EnvOK ==
  /\ timer \in {"off", "armed"} /\ handle \in {"owned", "moved", "gone"}
  /\ used \in [activated : BOOLEAN, sends : 0 .. MaxSends]
  /\ net \in [left : Seq(PeerFrames), tokens : Seq(TokenSet)]
  /\ dead \in BOOLEAN

HistOK ==
  /\ told \in Seq(Code \union {"message"})
  /\ wire \in Seq(Groups \union {NoGroup})
  /\ notices \in [Sends -> Seq(Results)]

BufOK ==
  /\ Top("consume_header") => conn.buf # <<>>
  /\ conn.rd.st = "ok" => conn.rd.data # <<>>

TypeInv == ConnOK /\ StackOK /\ EnvOK /\ HistOK

\* What a write group is.
LEMMA GroupFacts ==
  /\ \A id \in 0 .. OwnClose, close \in BOOLEAN, n \in 1 .. 2 : Group(id, close, n) \in Groups
  /\ \A g \in Groups : /\ g # NoGroup /\ g.id \in 0 .. OwnClose /\ g.close \in BOOLEAN
                       /\ Len(g.items) \in 1 .. 2
                       /\ \A i \in 1 .. Len(g.items) : g.items[i].file = FALSE
<1>1. \A id \in 0 .. OwnClose, close \in BOOLEAN, n \in 1 .. 2 : Group(id, close, n) \in Groups
  BY DEF Groups
<1>2. \A g \in Groups : \E id \in 0 .. OwnClose, close \in BOOLEAN, n \in 1 .. 2 :
        g = Group(id, close, n)
  BY DEF Groups
<1>3. Buf.file = FALSE
  BY DEF Buf
<1>4. ASSUME NEW g \in Groups
      PROVE  /\ g # NoGroup /\ g.id \in 0 .. OwnClose /\ g.close \in BOOLEAN
             /\ Len(g.items) \in 1 .. 2
             /\ \A i \in 1 .. Len(g.items) : g.items[i].file = FALSE
  <2>1. PICK id \in 0 .. OwnClose, close \in BOOLEAN, n \in 1 .. 2 : g = Group(id, close, n)
    BY <1>2
  <2>2. g.items = [i \in 1 .. n |-> Buf] /\ g.id = id /\ g.close = close
    BY <2>1 DEF Group
  <2>3. [i \in 1 .. n |-> Buf] \in Seq({Buf})
    BY SeqDef
  <2>4. Len([i \in 1 .. n |-> Buf]) = n
    BY <2>3, LenProperties
  <2>5. Len(g.items) = n /\ \A i \in 1 .. n : g.items[i].file = FALSE
    BY <1>3, <2>2, <2>4
  <2>6. g # NoGroup
    BY <2>1, NoGroupAssumption
  <2> QED
    BY <2>2, <2>5, <2>6
<1> QED
  BY <1>1, <1>4, Zenon

\* What a frame of the stack is.
LEMMA FrameFacts ==
  /\ \A f \in SimpleFrames : Frame(f) \in StackFrames /\ Frame(f).f = f
  /\ \A code \in Code : /\ CloseHandler(code) \in StackFrames
                        /\ CloseHandler(code).f = "close_handler"
                        /\ Trigger(code) \in StackFrames
                        /\ Trigger(code).f = "trigger_error_and_close"
  /\ \A part \in Seq(Byte) : Payload(part) \in StackFrames /\ Payload(part).f = "payload"
  /\ \A g \in Groups : WriteData(g) \in StackFrames /\ WriteData(g).f = "write_data"
  /\ \A n \in Sends, res \in Results : /\ Notificator(n, res) \in StackFrames
                                       /\ Notificator(n, res).f = "notificator"
                                       /\ Notificator(n, res).res = res
  /\ \A fr \in StackFrames :
       /\ fr.f \in SimpleFrames \union {"close_handler", "trigger_error_and_close", "payload",
                                        "write_data", "notificator"}
       /\ fr.f \in {"close_handler", "trigger_error_and_close"} => fr.code \in Code
       /\ fr.f = "payload" => fr.part \in Seq(Byte)
       /\ fr.f = "write_data" => fr.g \in Groups
       /\ fr.f = "notificator" => fr.res \in Results
<1>1. /\ \A f \in SimpleFrames : Frame(f) \in StackFrames
      /\ \A code \in Code : CloseHandler(code) \in StackFrames
      /\ \A code \in Code : Trigger(code) \in StackFrames
      /\ \A part \in Seq(Byte) : Payload(part) \in StackFrames
      /\ \A g \in Groups : WriteData(g) \in StackFrames
      /\ \A n \in Sends, res \in Results : Notificator(n, res) \in StackFrames
  <2>1. \A f \in SimpleFrames : Frame(f) \in StackFrames
    BY DEF StackFrames
  <2>2. \A code \in Code : CloseHandler(code) \in StackFrames
    BY DEF StackFrames
  <2>3. \A code \in Code : Trigger(code) \in StackFrames
    BY DEF StackFrames
  <2>4. \A part \in Seq(Byte) : Payload(part) \in StackFrames
    BY DEF StackFrames
  <2>5. \A g \in Groups : WriteData(g) \in StackFrames
    BY DEF StackFrames
  <2>6. \A n \in Sends, res \in Results : Notificator(n, res) \in StackFrames
    BY DEF StackFrames
  <2> QED
    BY <2>1, <2>2, <2>3, <2>4, <2>5, <2>6
<1> USE DEF Frame, CloseHandler, Trigger, Payload, WriteData, Notificator
<1>2. /\ \A f : Frame(f).f = f
      /\ \A code : CloseHandler(code).f = "close_handler"
      /\ \A code : Trigger(code).f = "trigger_error_and_close"
      /\ \A part : Payload(part).f = "payload"
      /\ \A g : WriteData(g).f = "write_data"
      /\ \A n, res : Notificator(n, res).f = "notificator" /\ Notificator(n, res).res = res
  OBVIOUS
<1>3. ASSUME NEW fr \in StackFrames
      PROVE  /\ fr.f \in SimpleFrames \union {"close_handler", "trigger_error_and_close",
                                              "payload", "write_data", "notificator"}
             /\ fr.f \in {"close_handler", "trigger_error_and_close"} => fr.code \in Code
             /\ fr.f = "payload" => fr.part \in Seq(Byte)
             /\ fr.f = "write_data" => fr.g \in Groups
             /\ fr.f = "notificator" => fr.res \in Results
  <2>1. CASE fr \in {Frame(f) : f \in SimpleFrames}
    BY <2>1 DEF SimpleFrames
  <2>2. CASE fr \in {CloseHandler(code) : code \in Code}
    BY <2>2
  <2>3. CASE fr \in {Trigger(code) : code \in Code}
    BY <2>3
  <2>4. CASE fr \in {Payload(part) : part \in Seq(Byte)}
    BY <2>4
  <2>5. CASE fr \in {WriteData(g) : g \in Groups}
    BY <2>5
  <2>6. CASE fr \in {Notificator(n, res) : n \in Sends, res \in Results}
    BY <2>6
  <2> QED
    BY <2>1, <2>2, <2>3, <2>4, <2>5, <2>6 DEF StackFrames
<1> HIDE DEF Frame, CloseHandler, Trigger, Payload, WriteData, Notificator
<1> QED
  BY <1>1, <1>2, <1>3

-----------------------------------------------------------------------------
(* Stacks *)

\* A frame is replaced by others.
LEMMA CallStack ==
  ASSUME NEW S, NEW s \in Seq(S), s # <<>>, NEW fs \in Seq(S), NEW r, r = fs \o Tail(s)
  PROVE  /\ r \in Seq(S) /\ Len(r) = Len(fs) + Len(s) - 1
         /\ \A k \in 1 .. Len(fs) : r[k] = fs[k]
         /\ \A k \in Len(fs) + 1 .. Len(r) :
              k - Len(fs) + 1 \in 2 .. Len(s) /\ r[k] = s[k - Len(fs) + 1]
<1>1. /\ Len(s) \in Nat \ {0} /\ Len(fs) \in Nat /\ Tail(s) \in Seq(S)
      /\ Len(Tail(s)) = Len(s) - 1
      /\ \A k \in 1 .. Len(s) - 1 : Tail(s)[k] = s[k + 1]
  OBVIOUS
<1>2. /\ r \in Seq(S) /\ Len(r) = Len(fs) + Len(Tail(s))
      /\ \A k \in 1 .. Len(r) : r[k] = IF k <= Len(fs) THEN fs[k] ELSE Tail(s)[k - Len(fs)]
  BY <1>1, ConcatProperties
<1> QED
  BY <1>1, <1>2

\* A frame is put on top.
LEMMA PushStack ==
  ASSUME NEW S, NEW s \in Seq(S), NEW fr \in S, NEW r, r = <<fr>> \o s
  PROVE  /\ r \in Seq(S) /\ r # <<>> /\ Len(r) = Len(s) + 1 /\ r[1] = fr
         /\ \A k \in 2 .. Len(r) : k - 1 \in 1 .. Len(s) /\ r[k] = s[k - 1]
<1>1. <<fr>> \in Seq(S) /\ Len(<<fr>>) = 1 /\ <<fr>>[1] = fr /\ Len(s) \in Nat
  OBVIOUS
<1>2. /\ r \in Seq(S) /\ Len(r) = 1 + Len(s)
      /\ \A k \in 1 .. Len(r) : r[k] = IF k <= 1 THEN <<fr>>[k] ELSE s[k - 1]
  BY <1>1, ConcatProperties
<1> QED
  BY <1>1, <1>2

\* A frame returns.
LEMMA PopStack ==
  ASSUME NEW S, NEW s \in Seq(S), s # <<>>
  PROVE  /\ Tail(s) \in Seq(S) /\ Len(Tail(s)) = Len(s) - 1 /\ Len(s) \in Nat \ {0}
         /\ \A k \in 1 .. Len(s) - 1 : k + 1 \in 2 .. Len(s) /\ Tail(s)[k] = s[k + 1]
         /\ <<>> \o Tail(s) = Tail(s)
<1>1. /\ Tail(s) \in Seq(S) /\ Len(Tail(s)) = Len(s) - 1 /\ Len(s) \in Nat \ {0}
      /\ \A k \in 1 .. Len(s) - 1 : k + 1 \in 2 .. Len(s) /\ Tail(s)[k] = s[k + 1]
  OBVIOUS
<1> QED
  BY <1>1, ConcatEmptySeq

-----------------------------------------------------------------------------
(* The members *)

\* The socket is not opened again, close messages to the user are not enabled again,
\* and the handle is not forgotten.
OneWay(c, d) == (d.open => c.open) /\ (d.toUser => c.toUser) /\ (c.weak => d.weak)
                /\ (d.toPeer => c.toPeer)

\* Operations on the socket.
LEMMA OpFacts ==
  /\ NoOp \in Ops /\ NoOp.st = "none"
  /\ \A op \in Ops : Abort(op) \in Ops /\ Abort(op).st # "running"
                     /\ (Abort(op).st = "none" <=> op.st = "none")
                     /\ (Abort(op).st = "ok" <=> op.st = "ok")
                     /\ Abort(op).what = op.what /\ Abort(op).data = op.data
  /\ \A v : \A c \in Conns(v), what \in {"header", "payload", "skip", "write"} :
       /\ StartOp(c, what) \in Ops /\ StartOp(c, what).what = what
       /\ StartOp(c, what).st \in {"running", "error"}
       /\ ~c.open => StartOp(c, what).st = "error"
<1>1. NoOp \in Ops /\ NoOp.st = "none"
  BY DEF NoOp, Ops, OpStates
<1>2. ASSUME NEW op \in Ops
      PROVE  Abort(op) \in Ops /\ Abort(op).st # "running"
                     /\ (Abort(op).st = "none" <=> op.st = "none")
                     /\ (Abort(op).st = "ok" <=> op.st = "ok")
                     /\ Abort(op).what = op.what /\ Abort(op).data = op.data
  BY DEF Abort, Ops, OpStates
<1>3. ASSUME NEW v, NEW c \in Conns(v), NEW what \in {"header", "payload", "skip", "write"}
      PROVE  /\ StartOp(c, what) \in Ops /\ StartOp(c, what).what = what
             /\ StartOp(c, what).st \in {"running", "error"}
             /\ ~c.open => StartOp(c, what).st = "error"
  BY DEF StartOp, Ops, OpStates
<1> QED
  BY <1>1, <1>2, <1>3

\* close_impl()
LEMMA CloseFacts ==
  ASSUME NEW v, NEW c \in Conns(v)
  PROVE  /\ CloseImpl(c) \in Conns(v) /\ ~CloseImpl(c).open /\ OneWay(c, CloseImpl(c))
         /\ CloseImpl(c) = [c EXCEPT !.open = FALSE, !.rd = CloseImpl(c).rd,
                                     !.wr = CloseImpl(c).wr]
         /\ CloseImpl(c).rd \in {c.rd, Abort(c.rd)}
         /\ CloseImpl(c).wr \in {c.wr, Abort(c.wr)}
         /\ c.open => CloseImpl(c).wr.st # "running" /\ CloseImpl(c).rd.st # "running"
<1>1. c.open \in BOOLEAN /\ c.rd \in Ops /\ c.wr \in Ops
  BY DEF Conns
<1>2. Abort(c.rd) \in Ops /\ Abort(c.wr) \in Ops
      /\ Abort(c.rd).st # "running" /\ Abort(c.wr).st # "running"
  BY <1>1, OpFacts
<1>3. CASE c.open
  BY <1>1, <1>2, <1>3, Zenon DEF Conns, CloseImpl, OneWay
<1>4. CASE ~c.open
  BY <1>1, <1>4, Zenon DEF Conns, CloseImpl, OneWay
<1> QED
  BY <1>1, <1>3, <1>4

\* Some members are set, one at a time.
LEMMA ConnUpdates ==
  ASSUME NEW v, NEW c \in Conns(v)
  PROVE  /\ OneWay(c, c)
         /\ \A op \in Ops : [c EXCEPT !.rd = op] \in Conns(v) /\ OneWay(c, [c EXCEPT !.rd = op])
         /\ \A n \in Int : [c EXCEPT !.rest = n] \in Conns(v) /\ OneWay(c, [c EXCEPT !.rest = n])
         /\ \A b \in Seq(TokenSet) : [c EXCEPT !.buf = b] \in Conns(v)
                                     /\ OneWay(c, [c EXCEPT !.buf = b])
         /\ \A h \in Header : [c EXCEPT !.msg = h] \in Conns(v) /\ OneWay(c, [c EXCEPT !.msg = h])
         /\ \A w : [c EXCEPT !.val = w] \in Conns(w) /\ OneWay(c, [c EXCEPT !.val = w])
         /\ \A q \in Seq(Groups) : [c EXCEPT !.queue = q] \in Conns(v)
                                   /\ OneWay(c, [c EXCEPT !.queue = q])
         /\ \A op \in Ops : [c EXCEPT !.wr = op] \in Conns(v) /\ OneWay(c, [c EXCEPT !.wr = op])
         /\ \A o \in Outputs : [c EXCEPT !.out = o] \in Conns(v) /\ OneWay(c, [c EXCEPT !.out = o])
         /\ \A d, e : OneWay(c, d) /\ OneWay(d, e) => OneWay(c, e)
<1>1. OneWay(c, c) /\ \A d, e : OneWay(c, d) /\ OneWay(d, e) => OneWay(c, e)
  BY DEF OneWay
<1>2. \A op \in Ops : [c EXCEPT !.rd = op] \in Conns(v) /\ OneWay(c, [c EXCEPT !.rd = op])
  BY DEF OneWay, Conns
<1>3. \A n \in Int : [c EXCEPT !.rest = n] \in Conns(v) /\ OneWay(c, [c EXCEPT !.rest = n])
  BY DEF OneWay, Conns
<1>4. \A b \in Seq(TokenSet) : [c EXCEPT !.buf = b] \in Conns(v)
                               /\ OneWay(c, [c EXCEPT !.buf = b])
  BY SMTT(30) DEF OneWay, Conns
<1>5. \A h \in Header : [c EXCEPT !.msg = h] \in Conns(v) /\ OneWay(c, [c EXCEPT !.msg = h])
  BY DEF OneWay, Conns
<1>6. \A w : [c EXCEPT !.val = w] \in Conns(w) /\ OneWay(c, [c EXCEPT !.val = w])
  BY DEF OneWay, Conns
<1>7. \A q \in Seq(Groups) : [c EXCEPT !.queue = q] \in Conns(v)
                             /\ OneWay(c, [c EXCEPT !.queue = q])
  BY SMTT(30) DEF OneWay, Conns
<1>8. \A op \in Ops : [c EXCEPT !.wr = op] \in Conns(v) /\ OneWay(c, [c EXCEPT !.wr = op])
  BY DEF OneWay, Conns
<1>9. \A o \in Outputs : [c EXCEPT !.out = o] \in Conns(v) /\ OneWay(c, [c EXCEPT !.out = o])
  BY DEF OneWay, Conns
<1> QED
  BY <1>1, <1>2, <1>3, <1>4, <1>5, <1>6, <1>7, <1>8, <1>9, Zenon

\* m_close_frame_to_peer.run_if_first() and handle_invalid_payload()
LEMMA ToPeerFacts ==
  ASSUME NEW v, NEW c \in Conns(v)
  PROVE  /\ CloseToPeer(c) \in Conns(v) /\ OneWay(c, CloseToPeer(c)) /\ ~CloseToPeer(c).toPeer
         /\ InvalidConn(c) \in Conns(v) /\ InvalidConn(c) \in {c, CloseToPeer(c)}
         /\ OneWay(c, InvalidConn(c))
         /\ WaitCloseFrame(c) \in Conns(v)
         /\ c.toPeer => CloseToPeer(c) = [c EXCEPT !.toPeer = FALSE,
                                            !.queue = Append(@, Group(OwnClose, TRUE, 2))]
         /\ ~c.toPeer => CloseToPeer(c) = c
<1>1. OwnClose \in 0 .. OwnClose /\ Group(OwnClose, TRUE, 2) \in Groups
  <2>1. MaxSends \in Nat
    BY WsConnectionAssumption
  <2>2. OwnClose \in 0 .. OwnClose
    BY <2>1 DEF OwnClose
  <2>3. 2 \in 1 .. 2 /\ TRUE \in BOOLEAN
    OBVIOUS
  <2> QED
    BY <2>2, <2>3, GroupFacts, Zenon
<1>2. c.queue \in Seq(Groups) /\ c.toPeer \in BOOLEAN
  BY DEF Conns
<1>3. Append(c.queue, Group(OwnClose, TRUE, 2)) \in Seq(Groups)
  BY <1>1, <1>2, AppendProperties, Zenon
<1>4. CloseToPeer(c) \in Conns(v) /\ OneWay(c, CloseToPeer(c)) /\ ~CloseToPeer(c).toPeer
  BY <1>2, <1>3, Zenon DEF Conns, CloseToPeer, OneWay
<1>5. InvalidConn(c) \in Conns(v) /\ InvalidConn(c) \in {c, CloseToPeer(c)}
  BY <1>4 DEF InvalidConn
<1>7. OneWay(c, InvalidConn(c))
  <2>1. OneWay(c, c)
    BY DEF OneWay
  <2> QED
    BY <1>4, <1>5, <2>1
<1>6. WaitCloseFrame(c) \in Conns(v)
  BY Zenon DEF WaitCloseFrame, Conns
<1> QED
  BY <1>2, <1>4, <1>5, <1>6, <1>7 DEF CloseToPeer

\* Tokens are cut out of what has arrived.
LEMMA TokenFacts ==
  /\ \A s \in Seq(TokenSet) : \A m, n \in Nat : SubSeq(s, m + 1, n) \in Seq(TokenSet) \/ n > Len(s)
  /\ \A s \in Seq(TokenSet) : Bytes(s) \in Seq(Byte) /\ Len(Bytes(s)) = Len(s)
  /\ \A p \in PeerFrames : Tokens(p) \in Seq(TokenSet)
<1>1. ASSUME NEW s \in Seq(TokenSet), NEW m \in Nat, NEW n \in Nat, n <= Len(s)
      PROVE  SubSeq(s, m + 1, n) \in Seq(TokenSet)
  BY <1>1, SubSeqProperties
<1>2. ASSUME NEW s \in Seq(TokenSet)
      PROVE  Bytes(s) \in Seq(Byte) /\ Len(Bytes(s)) = Len(s)
  <2>1. DOMAIN s = 1 .. Len(s) /\ Len(s) \in Nat /\ \A i \in 1 .. Len(s) : s[i] \in TokenSet
    OBVIOUS
  <2>2. \A i \in 1 .. Len(s) : s[i].byte \in Byte
    BY <2>1 DEF TokenSet
  <2>3. Bytes(s) \in [1 .. Len(s) -> Byte]
    BY <2>1, <2>2 DEF Bytes
  <2>4. Bytes(s) \in Seq(Byte)
    BY <2>1, <2>3, SeqDef
  <2> QED
    BY <2>1, <2>3, <2>4, LenProperties
<1>3. ASSUME NEW p \in PeerFrames PROVE Tokens(p) \in Seq(TokenSet)
  <2>1. p.hdr \in Header /\ p.payload \in Seq(Byte) /\ 0 \in Byte /\ NoFrame \in Header
    <3>1. NoFrame \in Header
      BY DEF NoFrame, Header, Opcodes
    <3>2. 0 \in Byte
      BY DEF Byte
    <3> QED
      BY <3>1, <3>2 DEF PeerFrames
  <2>2. [hdr |-> p.hdr, byte |-> 0] \in TokenSet
    BY <2>1 DEF TokenSet
  <2>3. \A i \in 1 .. Len(p.payload) :
          [hdr |-> NoFrame, byte |-> p.payload[i]] \in TokenSet
    BY <2>1 DEF TokenSet
  <2> DEFINE t == [i \in 1 .. Len(p.payload) |-> [hdr |-> NoFrame, byte |-> p.payload[i]]]
             h == <<[hdr |-> p.hdr, byte |-> 0]>>
  <2>4. t \in Seq(TokenSet)
    <3>1. Len(p.payload) \in Nat
      BY <2>1
    <3> QED
      BY <2>3, <3>1, SeqDef
  <2>5. h \in Seq(TokenSet)
    BY <2>2
  <2>6. Tokens(p) = h \o t
    BY DEF Tokens
  <2> HIDE DEF h, t
  <2> QED
    BY <2>4, <2>5, <2>6, ConcatProperties
<1> QED
  BY <1>1, <1>2, <1>3

\* The output context: a group of buffers is one gather write.
LEMMA OutputFacts ==
  /\ NewOutput \in Outputs /\ ~Transmitting(NewOutput) /\ NewOutput.next = 1
  /\ \A o \in Outputs : /\ ResetWriteGroup(o) = NewOutput /\ FailWriteGroup(o) \in Outputs
                        /\ ~Transmitting(FailWriteGroup(o))
                        /\ \A g \in Groups : /\ StartNextWriteGroup(o, g) \in Outputs
                                             /\ StartNextWriteGroup(o, g).wg = g
                                             /\ StartNextWriteGroup(o, g).next = o.next
                                             /\ Transmitting(StartNextWriteGroup(o, g))
  /\ \A o \in Outputs : Transmitting(o) =>
       /\ o.wg \in Groups
       /\ NextOperation(o) = IF o.next > Len(o.wg.items) THEN "none" ELSE "trivial"
       /\ NextOperation(o) = "trivial" =>
            /\ ExtractNextWriteOperation(o) \in Outputs
            /\ ExtractNextWriteOperation(o).wg = o.wg
            /\ ExtractNextWriteOperation(o).next = Len(o.wg.items) + 1
<1>1. NewOutput \in Outputs /\ ~Transmitting(NewOutput) /\ NewOutput.next = 1
  BY DEF NewOutput, Outputs, Transmitting
<1>2. ASSUME NEW o \in Outputs
      PROVE  /\ ResetWriteGroup(o) = NewOutput /\ FailWriteGroup(o) \in Outputs
             /\ ~Transmitting(FailWriteGroup(o))
             /\ \A g \in Groups : /\ StartNextWriteGroup(o, g) \in Outputs
                                  /\ StartNextWriteGroup(o, g).wg = g
                                  /\ StartNextWriteGroup(o, g).next = o.next
                                  /\ Transmitting(StartNextWriteGroup(o, g))
  BY GroupFacts
     DEF Outputs, ResetWriteGroup, FailWriteGroup, StartNextWriteGroup, NewOutput, Transmitting
<1>3. ASSUME NEW o \in Outputs, Transmitting(o)
      PROVE  /\ o.wg \in Groups
             /\ NextOperation(o) = IF o.next > Len(o.wg.items) THEN "none" ELSE "trivial"
             /\ NextOperation(o) = "trivial" =>
                  /\ ExtractNextWriteOperation(o) \in Outputs
                  /\ ExtractNextWriteOperation(o).wg = o.wg
                  /\ ExtractNextWriteOperation(o).next = Len(o.wg.items) + 1
  <2>1. o.wg \in Groups /\ o.next \in Nat \ {0}
    BY <1>3 DEF Outputs, Transmitting
  <2> DEFINE items == o.wg.items
             n == Len(items)
             stops == {i \in o.next .. n : items[i].file \/ i = o.next + MaxIovLen}
                      \union {n + 1}
  <2>2. n \in 1 .. 2 /\ \A i \in 1 .. n : items[i].file = FALSE
    BY <2>1, GroupFacts
  <2>3. MaxIovLen \in Nat /\ MaxIovLen >= 2
    BY MaxIovLenAssumption, WsConnectionAssumption
  <2> HIDE DEF items, n
  <2>4. ASSUME NEW i \in o.next .. n PROVE ~(items[i].file \/ i = o.next + MaxIovLen)
    BY <2>1, <2>2, <2>3
  <2>5. stops = {n + 1}
    BY <2>4
  <2>6. EndOfTrivialRun(o) = CHOOSE i \in stops : \A j \in stops : i <= j
    BY DEF EndOfTrivialRun, items, n
  <2>7. EndOfTrivialRun(o) = n + 1
    BY <2>2, <2>5, <2>6
  <2>8. NextOperation(o) = IF o.next > n THEN "none" ELSE "trivial"
    BY <2>1, <2>2 DEF NextOperation, items, n
  <2>9. ASSUME NextOperation(o) = "trivial"
        PROVE  ExtractNextWriteOperation(o) = [o EXCEPT !.next = n + 1]
    BY <2>7, <2>9 DEF ExtractNextWriteOperation, EndOfNextOperation
  <2>10. ASSUME NextOperation(o) = "trivial"
         PROVE  /\ ExtractNextWriteOperation(o) \in Outputs
                /\ ExtractNextWriteOperation(o).wg = o.wg
                /\ ExtractNextWriteOperation(o).next = n + 1
    BY <2>1, <2>2, <2>9, <2>10 DEF Outputs
  <2> QED
    BY <2>1, <2>8, <2>10 DEF n, items
<1> QED
  BY <1>1, <1>2, <1>3

-----------------------------------------------------------------------------
(* Who holds the write group *)

\* Some frame of s is one of W; at most one is.
Has(s, W)  == \E k \in 1 .. Len(s) : s[k].f \in W
Once(s, W) == \A k, l \in 1 .. Len(s) : s[k].f \in W /\ s[l].f \in W => k = l

\* The frames that work on the current write group: one of them, or the write operation
\* of the socket, holds the group as long as there is one.
WriteFrames == {"write_ctx", "finish_group", "fail_group", "group_failed"}

TokenInv ==
  /\ Once(stack, WriteFrames)
  /\ Has(stack, WriteFrames) => conn.wr.st = "none"
  /\ Transmitting(conn.out) <=> (conn.wr.st # "none" \/ Has(stack, WriteFrames))

\* The frame on top, and what the group of a frame at work on one is.
LEMMA TopFacts ==
  ASSUME TypeInv, TokenInv
  PROVE  /\ stack # <<>> => stack[1] \in StackFrames /\ 1 \in 1 .. Len(stack)
         /\ \A f \in WriteFrames : Top(f) => /\ Transmitting(conn.out) /\ conn.out.wg \in Groups
                                             /\ conn.wr.st = "none"
<1>1. stack # <<>> => stack[1] \in StackFrames /\ 1 \in 1 .. Len(stack)
  BY DEF TypeInv, StackOK
<1>2. conn.out \in Outputs
  BY DEF TypeInv, ConnOK, Conns
<1>3. ASSUME NEW f \in WriteFrames, Top(f) PROVE Has(stack, WriteFrames)
  BY <1>1, <1>3 DEF Top, Has
<1> QED
  BY <1>1, <1>2, <1>3, OutputFacts DEF TokenInv

\* The members keep their types, and some of them change once.
LEMMA NextConn ==
  ASSUME TypeInv, TokenInv, BufOK, Next
  PROVE  ConnOK' /\ OneWay(conn, conn')
<1> DEFINE Goal == ConnOK' /\ OneWay(conn, conn')
<1>1. conn \in Conns(conn.val)
  BY DEF TypeInv, ConnOK
<1>2. conn.out \in Outputs /\ conn.queue \in Seq(Groups) /\ conn.rd \in Ops /\ conn.wr \in Ops
      /\ conn.buf \in Seq(TokenSet) /\ conn.rest \in Int
  BY <1>1 DEF Conns
<1>29. /\ NoOp \in Ops /\ StartOp(conn, "header") \in Ops /\ StartOp(conn, "skip") \in Ops
       /\ StartOp(conn, "write") \in Ops
  BY <1>1, OpFacts
<1>30. ResetWriteGroup(conn.out) \in Outputs /\ FailWriteGroup(conn.out) \in Outputs
  BY <1>2, OutputFacts
<1> USE <1>1
<1>3. CASE UNCHANGED conn
  BY <1>3 DEF ConnOK, OneWay
<1>4. CASE InitWrite
  <2>1. CASE ~Transmitting(conn.out) /\ conn.queue # <<>>
    <3>1. Head(conn.queue) \in Groups /\ Tail(conn.queue) \in Seq(Groups)
      BY <1>2, <2>1
    <3>2. StartNextWriteGroup(conn.out, Head(conn.queue)) \in Outputs
      BY <1>2, <3>1, OutputFacts, Zenon
    <3> QED
      BY <1>4, <2>1, <3>1, <3>2, Zenon DEF InitWrite, ConnOK, Conns, OneWay
  <2> QED
    BY <1>3, <1>4, <2>1 DEF InitWrite
<1>5. CASE HandleCurrentWriteCtx
  <2>1. CASE NextOperation(conn.out) = "trivial"
    <3>1. Transmitting(conn.out)
      BY <1>5, TopFacts DEF HandleCurrentWriteCtx, WriteFrames
    <3>2. ExtractNextWriteOperation(conn.out) \in Outputs /\ StartOp(conn, "write") \in Ops
      BY <1>2, <2>1, <3>1, OutputFacts, OpFacts
    <3> DEFINE op == StartOp(conn, "write")
               o  == ExtractNextWriteOperation(conn.out)
               c1 == [conn EXCEPT !.out = o]
    <3>3. conn' = [c1 EXCEPT !.wr = op]
      BY <1>5, <2>1 DEF HandleCurrentWriteCtx
    <3> HIDE DEF op, o
    <3>4. c1 \in Conns(conn.val) /\ OneWay(conn, c1)
      BY <1>1, <3>2, ConnUpdates DEF o
    <3> HIDE DEF c1
    <3>5. [c1 EXCEPT !.wr = op] \in Conns(conn.val) /\ OneWay(c1, [c1 EXCEPT !.wr = op])
      BY <3>2, <3>4, ConnUpdates DEF op
    <3> QED
      BY <1>1, <3>3, <3>4, <3>5, ConnUpdates DEF ConnOK, Conns
  <2> QED
    BY <1>3, <1>5, <2>1 DEF HandleCurrentWriteCtx
<1>6. CASE FinishWriteGroup
  BY <1>6, <1>30, SMTT(30) DEF FinishWriteGroup, ConnOK, Conns, OneWay
<1>7. CASE AfterWrite
  BY <1>7, <1>29 DEF AfterWrite, ConnOK, Conns, OneWay
<1>8. CASE GroupFailed
  BY <1>8, <1>30, Zenon DEF GroupFailed, ConnOK, Conns, OneWay
<1>9. CASE NotificatorThrows
  <2>1. CASE conn' = [conn EXCEPT !.out = ResetWriteGroup(@)]
    BY <1>30, <2>1 DEF ConnOK, Conns, OneWay
  <2> QED
    BY <1>3, <1>9, <2>1, Zenon DEF NotificatorThrows
<1>10. CASE DisableWrite \/ StartWaitingCloseFrameOnly
  BY <1>10, Zenon DEF DisableWrite, StartWaitingCloseFrameOnly, WaitCloseFrame, ConnOK, Conns, OneWay
<1>11. CASE CloseNow \/ WaitTimedOut
  <2>1. conn' = CloseImpl(conn)
    BY <1>11 DEF CloseNow, WaitTimedOut
  <2>2. CloseImpl(conn) \in Conns(conn.val) /\ OneWay(conn, CloseImpl(conn))
    BY CloseFacts
  <2> QED
    BY <2>1, <2>2 DEF ConnOK, Conns
<1>12. CASE CallCloseHandlerIfNecessary
  BY <1>12, Zenon DEF CallCloseHandlerIfNecessary, ConnOK, Conns, OneWay
<1>13. CASE InitRead \/ PeerClosed
  BY <1>13, Zenon DEF InitRead, PeerClosed, ConnOK, Conns, OneWay
<1>14. CASE StartReadHeader
  <2>1. CASE conn' = [conn EXCEPT !.rest = 0, !.rd = StartOp(conn, "header")]
    <3> DEFINE c == [conn EXCEPT !.rest = 0]
    <3>1. c \in Conns(conn.val) /\ OneWay(conn, c)
      <4>1. 0 \in Int
        OBVIOUS
      <4> QED
        BY <4>1, Zenon DEF Conns, ConnOK, OneWay
    <3>2. conn' = [c EXCEPT !.rd = StartOp(conn, "header")]
      BY <2>1
    <3> HIDE DEF c
    <3>3. conn' \in Conns(conn.val) /\ OneWay(c, conn')
      BY <1>29, <3>1, <3>2, ConnUpdates
    <3> QED
      BY <3>1, <3>3 DEF ConnOK, Conns, OneWay
  <2>2. CASE conn' = [conn EXCEPT !.rest = 0]
    BY <2>2 DEF ConnOK, Conns, OneWay
  <2> QED
    BY <1>14, <2>1, <2>2 DEF StartReadHeader
<1>15. CASE AfterRead
  <2>1. conn.rd.data \in Seq(TokenSet)
    BY <1>2 DEF Ops
  <2>2. conn.rest - Len(conn.rd.data) \in Int
    BY <1>2, <2>1
  <2>3. CASE conn' = [conn EXCEPT !.rd = NoOp]
    BY <1>29, <2>3 DEF ConnOK, Conns, OneWay
  <2>4. CASE conn' = [conn EXCEPT !.rd = NoOp, !.buf = conn.rd.data]
    BY <1>29, <2>1, <2>4, Zenon DEF ConnOK, Conns, OneWay
  <2>5. CASE conn' = [conn EXCEPT !.rd = NoOp, !.rest = @ - Len(conn.rd.data)]
    BY <1>29, <2>2, <2>5, Zenon DEF ConnOK, Conns, OneWay
  <2> QED
    BY <1>15, <2>3, <2>4, <2>5 DEF AfterRead
<1>16. CASE ConsumeHeader
  <2> DEFINE hdr   == Head(conn.buf).hdr
             after == Tail(conn.buf)
             n     == IF Len(after) < hdr.len THEN Len(after) ELSE hdr.len
             v     == ProcessNewFrame(conn.val, hdr)
             rest  == SubSeq(after, n + 1, Len(after))
             c     == [conn EXCEPT !.msg = hdr, !.val = v, !.rest = hdr.len, !.buf = rest]
             d     == [c EXCEPT !.buf = after]
  <2>1. conn.buf # <<>>
    BY <1>16 DEF ConsumeHeader, BufOK
  <2>2. Head(conn.buf) \in TokenSet /\ after \in Seq(TokenSet)
    BY <1>2, <2>1
  <2>3. hdr \in Header /\ hdr.len \in Nat /\ Len(after) \in Nat
    BY <2>2 DEF TokenSet, Header
  <2>4. n \in Nat /\ Len(after) <= Len(after)
    BY <2>3
  <2> HIDE DEF hdr, after, n, v
  <2>5. rest \in Seq(TokenSet)
    BY <2>2, <2>3, <2>4, TokenFacts
  <2> HIDE DEF rest
  <2>6. c \in Conns(v) /\ d \in Conns(v) /\ OneWay(conn, c) /\ OneWay(conn, d)
    <3> DEFINE c1 == [conn EXCEPT !.msg = hdr]
               c2 == [c1 EXCEPT !.val = v]
               c3 == [c2 EXCEPT !.rest = hdr.len]
    <3>1. c1 \in Conns(conn.val) /\ OneWay(conn, c1)
      BY <2>3, ConnUpdates
    <3> HIDE DEF c1
    <3>2. c2 \in Conns(v) /\ OneWay(c1, c2)
      BY <3>1, ConnUpdates
    <3> HIDE DEF c2
    <3>3. hdr.len \in Int
      BY <2>3
    <3>4. c3 \in Conns(v) /\ OneWay(c2, c3)
      BY <3>2, <3>3, ConnUpdates
    <3> HIDE DEF c3
    <3>5. c = [c3 EXCEPT !.buf = rest]
      BY DEF c1, c2, c3
    <3> HIDE DEF c
    <3>6. c \in Conns(v) /\ OneWay(c3, c)
      BY <2>5, <3>4, <3>5, ConnUpdates
    <3>7. d \in Conns(v) /\ OneWay(c, d)
      BY <2>2, <3>6, ConnUpdates
    <3> QED
      BY ONLY <3>1, <3>2, <3>4, <3>6, <3>7 DEF OneWay
  <2>7. conn' \in {c, InvalidConn(d)}
    BY <1>16 DEF ConsumeHeader, hdr, after, n, v, rest
  <2> HIDE DEF c, d
  <2>8. InvalidConn(d) \in Conns(v) /\ OneWay(d, InvalidConn(d))
    BY <2>6, ToPeerFacts
  <2>9. conn' \in Conns(v) /\ OneWay(conn, conn')
    BY <2>6, <2>7, <2>8 DEF OneWay
  <2> QED
    BY <2>9 DEF ConnOK, Conns
<1>17. CASE ValidatePayloadPart
  <2> DEFINE part == stack[1].part
             v    == ProcessNextPayloadPart(conn.val, part)
             c    == [conn EXCEPT !.val = v, !.rest = @ - Len(part)]
  <2>1. stack[1] \in StackFrames /\ stack[1].f = "payload"
    BY <1>17, TopFacts DEF ValidatePayloadPart, Top
  <2>2. part \in Seq(Byte)
    BY <2>1, FrameFacts
  <2>3. conn.rest - Len(part) \in Int
    BY <1>2, <2>2
  <2> HIDE DEF part, v
  <2>4. c \in Conns(v) /\ OneWay(conn, c)
    BY <2>3, Zenon DEF Conns, OneWay
  <2>5. conn' \in {c, [c EXCEPT !.rd = StartOp(c, "payload")], InvalidConn(c)}
    BY <1>17 DEF ValidatePayloadPart, part, v
  <2> HIDE DEF c
  <2>6. StartOp(c, "payload") \in Ops
    BY <2>4, OpFacts
  <2>7. /\ [c EXCEPT !.rd = StartOp(c, "payload")] \in Conns(v)
        /\ OneWay(c, [c EXCEPT !.rd = StartOp(c, "payload")])
    BY <2>4, <2>6, Zenon DEF Conns, OneWay
  <2>8. InvalidConn(c) \in Conns(v) /\ OneWay(c, InvalidConn(c))
    BY <2>4, ToPeerFacts
  <2>9. conn' \in Conns(v) /\ OneWay(conn, conn')
    BY <2>4, <2>5, <2>7, <2>8, Zenon DEF OneWay
  <2> QED
    BY <2>9 DEF ConnOK, Conns
<1>18. CASE ResetProtocolValidator
  BY <1>18 DEF ResetProtocolValidator, ConnOK, Conns, OneWay
<1>19. CASE SkipPayload
  <2>1. CASE conn' = [conn EXCEPT !.rd = StartOp(conn, "skip")]
    BY <1>29, <2>1 DEF ConnOK, Conns, OneWay
  <2> QED
    BY <1>3, <1>19, <2>1 DEF SkipPayload
<1>20. CASE OnMessage
  <2> DEFINE v == FinishFrame(conn.val)
             c == [conn EXCEPT !.val = v]
             d == CloseToPeer(c)
  <2> HIDE DEF v
  <2>1. c \in Conns(v) /\ OneWay(conn, c)
    BY DEF Conns, OneWay
  <2>2. conn' \in {c, InvalidConn(c), CloseImpl(c), [d EXCEPT !.toUser = FALSE]}
    BY <1>20 DEF OnMessage, v
  <2> HIDE DEF c
  <2>3. d \in Conns(v) /\ OneWay(c, d) /\ InvalidConn(c) \in Conns(v) /\ InvalidConn(c) \in {c, d}
    BY <2>1, ToPeerFacts
  <2> HIDE DEF d
  <2>4. [d EXCEPT !.toUser = FALSE] \in Conns(v) /\ OneWay(d, [d EXCEPT !.toUser = FALSE])
    BY <2>3, Zenon DEF Conns, OneWay
  <2>5. CloseImpl(c) \in Conns(v) /\ OneWay(c, CloseImpl(c))
    BY <2>1, CloseFacts
  <2>6. conn' \in Conns(v) /\ OneWay(conn, conn')
    BY <2>1, <2>2, <2>3, <2>4, <2>5, Zenon DEF OneWay
  <2> QED
    BY <2>6 DEF ConnOK, Conns
<1>21. CASE WriteDataImpl
  <2> DEFINE g == stack[1].g
             q == Append(conn.queue, g)
  <2>1. stack[1] \in StackFrames /\ stack[1].f = "write_data"
    BY <1>21, TopFacts DEF WriteDataImpl, Top
  <2>2. g \in Groups
    BY <2>1, FrameFacts
  <2>3. q \in Seq(Groups)
    BY <1>2, <2>2, AppendProperties
  <2>4. \/ UNCHANGED conn
        \/ conn' = [conn EXCEPT !.queue = q]
        \/ conn' = [conn EXCEPT !.toPeer = FALSE, !.toUser = FALSE, !.writable = FALSE,
                                !.rstate = "only_close", !.wait = TRUE, !.queue = q]
    BY <1>21, Zenon DEF WriteDataImpl, WaitCloseFrame, Conns
  <2> HIDE DEF q
  <2> QED
    <3>1. CASE conn' = [conn EXCEPT !.queue = q]
      BY <2>3, <3>1, ConnUpdates DEF ConnOK, Conns
    <3>2. CASE conn' = [conn EXCEPT !.toPeer = FALSE, !.toUser = FALSE, !.writable = FALSE,
                                    !.rstate = "only_close", !.wait = TRUE, !.queue = q]
      <4> DEFINE c == [conn EXCEPT !.toPeer = FALSE, !.toUser = FALSE, !.writable = FALSE,
                                   !.rstate = "only_close", !.wait = TRUE]
      <4>1. c \in Conns(conn.val) /\ OneWay(conn, c)
        BY Zenon DEF Conns, OneWay
      <4>2. conn' = [c EXCEPT !.queue = q]
        BY <3>2
      <4> HIDE DEF c
      <4>3. conn' \in Conns(conn.val) /\ OneWay(c, conn')
        BY <2>3, <4>1, <4>2, ConnUpdates
      <4> QED
        BY <4>1, <4>3 DEF ConnOK, Conns, OneWay
    <3> QED
      BY <1>3, <2>4, <3>1, <3>2
<1>22. CASE Shutdown
  <2>1. CloseToPeer(conn) \in Conns(conn.val) /\ OneWay(conn, CloseToPeer(conn))
    BY ToPeerFacts
  <2> QED
    BY <1>22, <2>1, Zenon DEF Shutdown, ConnOK, Conns, OneWay
<1>23. CASE Kill
  <2> DEFINE c == [conn EXCEPT !.toUser = FALSE, !.toPeer = FALSE]
  <2>1. c \in Conns(conn.val) /\ OneWay(conn, c)
    BY Zenon DEF Conns, OneWay
  <2> HIDE DEF c
  <2>2. CloseImpl(c) \in Conns(conn.val) /\ OneWay(c, CloseImpl(c))
    BY <2>1, CloseFacts
  <2>3. conn' = CloseImpl(c)
    BY <1>23 DEF Kill, c
  <2> QED
    BY <2>1, <2>2, <2>3 DEF ConnOK, Conns, OneWay
<1>24. CASE ReadCompletes
  <2>1. PICK n \in 1 .. Len(net.tokens) :
          conn' = [conn EXCEPT !.rd.st = "ok", !.rd.data = SubSeq(net.tokens, 1, n)]
    BY <1>24 DEF ReadCompletes
  <2>2. net.tokens \in Seq(TokenSet)
    BY DEF TypeInv, EnvOK
  <2>3. SubSeq(net.tokens, 1, n) \in Seq(TokenSet)
    BY <2>2, SubSeqProperties
  <2>4. conn' = [conn EXCEPT !.rd = [conn.rd EXCEPT !.st = "ok",
                                                    !.data = SubSeq(net.tokens, 1, n)]]
    BY <1>2, <2>1, Zenon DEF Conns, Ops
  <2>5. [conn.rd EXCEPT !.st = "ok", !.data = SubSeq(net.tokens, 1, n)] \in Ops
    BY <1>2, <2>3, Zenon DEF Ops, OpStates
  <2> QED
    BY <2>4, <2>5 DEF ConnOK, Conns, OneWay
<1>25. CASE ReadFails
  <2>1. conn' = [conn EXCEPT !.rd = [conn.rd EXCEPT !.st = "error"]]
    BY <1>2, <1>25 DEF ReadFails, Conns, Ops
  <2>2. [conn.rd EXCEPT !.st = "error"] \in Ops
    BY <1>2, Zenon DEF Ops, OpStates
  <2> QED
    BY <2>1, <2>2, SMTT(30) DEF ConnOK, Conns, OneWay
<1>26. CASE WriteCompletes \/ WriteFails
  <2>1. PICK st \in {"ok", "error"} : conn' = [conn EXCEPT !.wr = [conn.wr EXCEPT !.st = st]]
    BY <1>2, <1>26 DEF WriteCompletes, WriteFails, Conns, Ops
  <2>2. [conn.wr EXCEPT !.st = st] \in Ops
    BY <1>2 DEF Ops, OpStates
  <2> QED
    BY <2>1, <2>2 DEF ConnOK, Conns, OneWay
<1>27. CASE WriteTimedOut
  BY <1>27, Zenon DEF WriteTimedOut, ConnOK, Conns, OneWay
<1>28. CASE Destroy
  <2>1. CloseImpl(conn) \in Conns(conn.val) /\ OneWay(conn, CloseImpl(conn))
    BY CloseFacts
  <2>2. <<>> \in Seq(Groups) /\ NewOutput \in Outputs
    BY OutputFacts
  <2> QED
    BY <1>28, <2>1, <2>2, Zenon DEF Destroy, ConnOK, Conns, OneWay
<1>31. CASE Strand
  <2>1. CASE FailGroup \/ TriggerErrorAndClose \/ GoOnReading
    BY <1>3, <2>1 DEF FailGroup, TriggerErrorAndClose, GoOnReading
  <2> QED
    BY ONLY <1>31, <2>1, <1>4, <1>5, <1>6, <1>8, <1>10, <1>11, <1>12, <1>13, <1>14, <1>16, <1>17,
            <1>18, <1>19, <1>20, <1>21, <1>22, <1>23 DEF Strand
<1>32. CASE Returns \/ RunPosted \/ User \/ PeerSends
  BY <1>3, <1>32, Zenon DEF Returns, HandlerReturns, NotificatorReturns, RunPosted, User, Activate,
                     SendMessage, GiveUp, DropHandle, PeerSends
<1>33. CASE Peer \/ Time
  BY ONLY <1>11, <1>24, <1>25, <1>26, <1>27, <1>32, <1>33 DEF Peer, Time
<1> QED
  BY ONLY Next, <1>7, <1>9, <1>15, <1>28, <1>31, <1>32, <1>33 DEF Next

-----------------------------------------------------------------------------
(* The frames a step calls *)

\* One frame and one more.
LEMMA Concat11 ==
  ASSUME NEW a, NEW b
  PROVE  <<a>> \o <<b>> = <<a, b>>
<1> DEFINE S == {a, b}
<1>1. <<a>> \in Seq(S) /\ <<b>> \in Seq(S) /\ <<a, b>> \in Seq(S)
  OBVIOUS
<1>2. Len(<<a>> \o <<b>>) = 2 /\ <<a>> \o <<b>> \in Seq(S)
  BY <1>1, ConcatProperties
<1>3. \A i \in 1 .. 2 : (<<a>> \o <<b>>)[i] = <<a, b>>[i]
  BY <1>1, ConcatProperties
<1> HIDE DEF S
<1> QED
  BY <1>1, <1>2, <1>3, SeqEqual, Zenon

\* Two frames and one more.
LEMMA Concat21 ==
  ASSUME NEW a, NEW b, NEW c
  PROVE  <<a, b>> \o <<c>> = <<a, b, c>>
<1> DEFINE S == {a, b, c}
<1>1. <<a, b>> \in Seq(S) /\ <<c>> \in Seq(S) /\ <<a, b, c>> \in Seq(S)
  OBVIOUS
<1>2. Len(<<a, b>> \o <<c>>) = 3 /\ <<a, b>> \o <<c>> \in Seq(S)
  BY <1>1, ConcatProperties
<1>3. \A i \in 1 .. 3 : (<<a, b>> \o <<c>>)[i] = <<a, b, c>>[i]
  BY <1>1, ConcatProperties
<1> HIDE DEF S
<1> QED
  BY <1>1, <1>2, <1>3, SeqEqual, Zenon

\* Three frames and one more.
LEMMA Concat31 ==
  ASSUME NEW a, NEW b, NEW c, NEW d
  PROVE  <<a, b, c>> \o <<d>> = <<a, b, c, d>>
<1> DEFINE S == {a, b, c, d}
<1>1. <<a, b, c>> \in Seq(S) /\ <<d>> \in Seq(S) /\ <<a, b, c, d>> \in Seq(S)
  OBVIOUS
<1>2. Len(<<a, b, c>> \o <<d>>) = 4 /\ <<a, b, c>> \o <<d>> \in Seq(S)
  BY <1>1, ConcatProperties
<1>3. \A i \in 1 .. 4 : (<<a, b, c>> \o <<d>>)[i] = <<a, b, c, d>>[i]
  BY <1>1, ConcatProperties
<1> HIDE DEF S
<1> QED
  BY <1>1, <1>2, <1>3, SeqEqual, Zenon

\* One frame and two more.
LEMMA Concat12 ==
  ASSUME NEW a, NEW b, NEW c
  PROVE  <<a>> \o <<b, c>> = <<a, b, c>>
<1> DEFINE S == {a, b, c}
<1>1. <<a>> \in Seq(S) /\ <<b, c>> \in Seq(S) /\ <<a, b, c>> \in Seq(S)
  OBVIOUS
<1>2. Len(<<a>> \o <<b, c>>) = 3 /\ <<a>> \o <<b, c>> \in Seq(S)
  BY <1>1, ConcatProperties
<1>3. \A i \in 1 .. 3 : (<<a>> \o <<b, c>>)[i] = <<a, b, c>>[i]
  BY <1>1, ConcatProperties
<1> HIDE DEF S
<1> QED
  BY <1>1, <1>2, <1>3, SeqEqual, Zenon

\* send_close_frame_to_peer() and handle_invalid_payload()
LEMMA CloseShapes ==
  ASSUME NEW v, NEW c \in Conns(v)
  PROVE  LET iw == Frame("init_write")
             dw == Frame("disable_write")
             wc == Frame("wait_close")
             pe == CloseHandler("protocol_error")
             im == CloseHandler("invalid_message_data")
         IN  /\ \A q : CloseToPeerFrames(c, <<q>>) = IF c.toPeer THEN <<iw, dw, q>> ELSE <<>>
             /\ CloseToPeerFrames(c, <<>>) = IF c.toPeer THEN <<iw, dw>> ELSE <<>>
             /\ \A q : CloseToPeerFrames(c, <<>>) \o <<q>>
                         = IF c.toPeer THEN <<iw, dw, q>> ELSE <<q>>
             /\ InvalidFrames(c, "invalid_close_code")
                  = IF c.rstate # "any" THEN <<Frame("close_impl")>>
                    ELSE IF c.toPeer THEN <<iw, dw, pe>> ELSE <<pe>>
             /\ \A verdict : verdict # "invalid_close_code" =>
                  InvalidFrames(c, verdict)
                    = IF c.rstate # "any" THEN <<>>
                      ELSE IF c.toPeer THEN <<iw, dw, wc, im>> ELSE <<im>>
<1> DEFINE iw == Frame("init_write")
           dw == Frame("disable_write")
           wc == Frame("wait_close")
           pe == CloseHandler("protocol_error")
           im == CloseHandler("invalid_message_data")
<1> HIDE DEF iw, dw, wc, pe, im
<1>0. c.toPeer \in BOOLEAN
  BY DEF Conns
<1>1. \A q : CloseToPeerFrames(c, <<q>>) = IF c.toPeer THEN <<iw, dw, q>> ELSE <<>>
  <2>1. \A q : <<iw, dw>> \o <<q>> = <<iw, dw, q>>
    BY Concat21, Zenon
  <2> QED
    BY <2>1, Zenon DEF CloseToPeerFrames, iw, dw
<1>2. CloseToPeerFrames(c, <<>>) = IF c.toPeer THEN <<iw, dw>> ELSE <<>>
  BY <1>0 DEF CloseToPeerFrames, iw, dw
<1>3. \A q : CloseToPeerFrames(c, <<>>) \o <<q>> = IF c.toPeer THEN <<iw, dw, q>> ELSE <<q>>
  <2>1. \A q : <<iw, dw>> \o <<q>> = <<iw, dw, q>>
    BY Concat21, Zenon
  <2>2. \A q : <<>> \o <<q>> = <<q>>
    OBVIOUS
  <2> QED
    BY <1>2, <2>1, <2>2, Zenon
<1>4. InvalidFrames(c, "invalid_close_code")
        = IF c.rstate # "any" THEN <<Frame("close_impl")>>
          ELSE IF c.toPeer THEN <<iw, dw, pe>> ELSE <<pe>>
  BY <1>3, Zenon DEF InvalidFrames, pe
<1>5. ASSUME NEW verdict, verdict # "invalid_close_code"
      PROVE  InvalidFrames(c, verdict)
               = IF c.rstate # "any" THEN <<>>
                 ELSE IF c.toPeer THEN <<iw, dw, wc, im>> ELSE <<im>>
  <2>1. CloseToPeerFrames(c, <<wc>>) \o <<im>> = IF c.toPeer THEN <<iw, dw, wc, im>> ELSE <<im>>
    <3>1. <<iw, dw, wc>> \o <<im>> = <<iw, dw, wc, im>>
      BY Concat31, Zenon
    <3>2. <<>> \o <<im>> = <<im>>
      OBVIOUS
    <3> QED
      BY <1>1, <3>1, <3>2, Zenon
  <2> QED
    BY <1>5, <2>1, Zenon DEF InvalidFrames, im, wc
<1> QED
  BY <1>1, <1>2, <1>3, <1>4, <1>5, Zenon DEF iw, dw, wc, pe, im

-----------------------------------------------------------------------------
(* Which frame may be called by which *)

\* The frames that may wait for another one to return.
Waiting == {"handler", "notificator", "finish_group", "group_failed", "fail_group",
            "disable_write", "wait_close", "close_handler", "close_impl", "reset_validator",
            "skip_payload", "peer_closed", "go_on"}

\* The frames of reading, once it has begun.
Reading == {"read_header", "consume_header", "payload", "on_message", "skip_payload",
            "peer_closed", "go_on"}

\* The kind of the first frame, and of the one after frame k.
First(s)   == IF s = <<>> THEN "end" ELSE s[1].f
After(s, k) == IF k < Len(s) THEN s[k + 1].f ELSE "end"

\* Frame a stands above a frame of kind f.
Adjacent(c, a, f) ==
  /\ f \in Waiting \union {"end"}
  /\ a.f = "group_failed" => ~c.open
  /\ a.f \in Reading => c.weak
  /\ f = "fail_group" => a.f \in {"trigger_error_and_close", "close_impl"}
  /\ f \in {"finish_group", "group_failed"} => a.f = "notificator"
  /\ f = "skip_payload" => a.f = "reset_validator"
  /\ f = "peer_closed" => a.f = "disable_write" \/ ~c.open
  /\ f = "disable_write" => a.f \in {"init_write", "write_ctx"} \/ ~c.open
  /\ f = "close_impl" => a.f \in {"close_handler", "handler"}
  /\ a.f = "notificator" /\ a.res = "ok" => f = "finish_group"
  /\ a.f = "notificator" /\ a.res = "error" => f = "group_failed"
  /\ a.f = "reset_validator" => f = "skip_payload"
  /\ a.f = "wait_close" => ~c.toUser \/ f = "close_handler"
  /\ a.f = "disable_write" => ~c.toUser \/ f \in {"wait_close", "close_handler"}
  /\ a.f = "close_handler" => c.weak \/ f = "close_impl"
  /\ a.f = "handler" /\ f = "close_impl" => ~c.toUser

Linked(c, s) == \A k \in 1 .. Len(s) : Adjacent(c, s[k], After(s, k))

\* What the stack is after a step.
Shape(f, g) ==
  /\ stack' \in Seq(StackFrames) /\ Linked(conn', stack')
  /\ First(stack') = f /\ After(stack', 1) = g

\* The top frame is replaced by fs, each of which fits on the next one.
Called(fs) == stack # <<>> /\ stack' = fs \o Tail(stack)
Fits(fs)   == \A k \in 1 .. Len(fs) :
                Adjacent(conn', fs[k], IF k < Len(fs) THEN fs[k + 1].f ELSE After(stack, 1))

\* A frame is replaced by others.
LEMMA LinkedCall ==
  ASSUME StackOK, Linked(conn, stack), OneWay(conn, conn'), NEW fs \in Seq(StackFrames),
         Called(fs), Fits(fs)
  PROVE  Shape(IF Len(fs) = 0 THEN After(stack, 1) ELSE fs[1].f,
               IF Len(fs) = 0 THEN After(stack, 2)
               ELSE IF Len(fs) = 1 THEN After(stack, 1) ELSE fs[2].f)
<1> DEFINE s == stack
           r == stack'
           c == conn
           d == conn'
<1>0. /\ s \in Seq(StackFrames) /\ s # <<>> /\ r = fs \o Tail(s) /\ Linked(c, s)
      /\ OneWay(c, d)
  BY DEF StackOK, Called
<1>00. \A k \in 1 .. Len(fs) :
         Adjacent(d, fs[k], IF k < Len(fs) THEN fs[k + 1].f ELSE After(s, 1))
  BY DEF Fits
<1> HIDE DEF s, r, c, d
<1>1. /\ r \in Seq(StackFrames) /\ Len(r) = Len(fs) + Len(s) - 1
      /\ \A k \in 1 .. Len(fs) : r[k] = fs[k]
      /\ \A k \in Len(fs) + 1 .. Len(r) :
           k - Len(fs) + 1 \in 2 .. Len(s) /\ r[k] = s[k - Len(fs) + 1]
  BY <1>0, CallStack
<1>2. Len(fs) \in Nat /\ Len(s) \in Nat \ {0} /\ Len(r) \in Nat
  BY <1>0, <1>1
<1>3. ASSUME NEW k \in 1 .. Len(fs)
      PROVE  After(r, k) = IF k < Len(fs) THEN fs[k + 1].f ELSE After(s, 1)
  <2>1. CASE k < Len(fs)
    BY <1>1, <1>2, <2>1, SMTT(30) DEF After
  <2>2. CASE k = Len(fs)
    BY <1>1, <1>2, <2>2, SMTT(30) DEF After
  <2> QED
    BY <1>2, <2>1, <2>2
<1>4. ASSUME NEW k \in Len(fs) + 1 .. Len(r)
      PROVE  After(r, k) = After(s, k - Len(fs) + 1) /\ r[k] = s[k - Len(fs) + 1]
             /\ k - Len(fs) + 1 \in 1 .. Len(s)
  <2>1. k - Len(fs) + 1 \in 2 .. Len(s) /\ r[k] = s[k - Len(fs) + 1]
    BY <1>1, Zenon
  <2>2. CASE k < Len(r)
    <3>1. k + 1 - Len(fs) + 1 \in 2 .. Len(s) /\ r[k + 1] = s[k + 1 - Len(fs) + 1]
      <4>1. k + 1 \in Len(fs) + 1 .. Len(r)
        BY <1>2, <2>2
      <4> DEFINE l == k + 1
      <4> HIDE DEF l
      <4>2. l - Len(fs) + 1 \in 2 .. Len(s) /\ r[l] = s[l - Len(fs) + 1]
        BY <1>1, <4>1, Zenon DEF l
      <4> QED
        BY <4>2 DEF l
    <3>2. k + 1 - Len(fs) + 1 = k - Len(fs) + 1 + 1 /\ k - Len(fs) + 1 < Len(s)
      BY <1>1, <1>2, <2>2
    <3> QED
      BY <1>2, <2>1, <2>2, <3>1, <3>2 DEF After
  <2>3. CASE k = Len(r)
    BY <1>1, <1>2, <2>1, <2>3 DEF After
  <2> QED
    BY <1>2, <2>2, <2>3
<1>5. ASSUME NEW a, NEW f, Adjacent(c, a, f) PROVE Adjacent(d, a, f)
  BY <1>0, <1>5 DEF Adjacent, OneWay
<1>6. ASSUME NEW k \in 1 .. Len(r) PROVE Adjacent(d, r[k], After(r, k))
  <2>1. CASE k <= Len(fs)
    BY <1>00, <1>1, <1>2, <1>3, <2>1, SMTT(30)
  <2>2. CASE k > Len(fs)
    <3>1. Adjacent(c, s[k - Len(fs) + 1], After(s, k - Len(fs) + 1))
      BY <1>0, <1>2, <1>4, <2>2 DEF Linked
    <3> QED
      BY <1>2, <1>4, <1>5, <2>2, <3>1
  <2> QED
    BY <1>2, <2>1, <2>2
<1>7. Linked(d, r)
  BY <1>6 DEF Linked
<1>8. First(r) = IF Len(fs) = 0 THEN After(s, 1) ELSE fs[1].f
  BY <1>1, <1>2 DEF First, After
<1>9. After(r, 1) = IF Len(fs) = 0 THEN After(s, 2)
                    ELSE IF Len(fs) = 1 THEN After(s, 1) ELSE fs[2].f
  <2>1. CASE Len(fs) = 0
    <3>1. CASE Len(r) = 0
      BY <1>1, <1>2, <2>1, <3>1 DEF After
    <3>2. CASE Len(r) > 0
      BY <1>2, <1>4, <2>1, <3>2
    <3> QED
      BY <1>2, <3>1, <3>2
  <2>2. CASE Len(fs) = 1
    <3>1. After(r, 1) = IF 1 < Len(fs) THEN fs[2].f ELSE After(s, 1)
      BY <1>2, <1>3, <2>2
    <3> QED
      BY <2>2, <3>1
  <2>3. CASE Len(fs) > 1
    <3>1. After(r, 1) = IF 1 < Len(fs) THEN fs[2].f ELSE After(s, 1)
      BY <1>2, <1>3, <2>3
    <3> QED
      BY <2>3, <3>1
  <2>4. \A n \in Nat : n = 0 \/ n = 1 \/ n > 1
    OBVIOUS
  <2>5. Len(fs) \in Nat
    BY <1>2
  <2> QED
    BY <2>1, <2>2, <2>3, <2>4, <2>5, Zenon
<1> QED
  BY <1>1, <1>7, <1>8, <1>9 DEF Shape, s, r, d

\* A frame is put on top.
LEMMA LinkedPush ==
  ASSUME NEW c, NEW s \in Seq(StackFrames), Linked(c, s), NEW a \in StackFrames,
         Adjacent(c, a, First(s))
  PROVE  /\ <<a>> \o s \in Seq(StackFrames) /\ Linked(c, <<a>> \o s)
         /\ First(<<a>> \o s) = a.f /\ After(<<a>> \o s, 1) = First(s)
<1> DEFINE r == <<a>> \o s
<1>1. /\ r \in Seq(StackFrames) /\ r # <<>> /\ Len(r) = Len(s) + 1 /\ r[1] = a
      /\ \A k \in 2 .. Len(r) : k - 1 \in 1 .. Len(s) /\ r[k] = s[k - 1]
  BY PushStack
<1>2. Len(s) \in Nat /\ (s = <<>> <=> Len(s) = 0)
  OBVIOUS
<1> HIDE DEF r
<1>3. After(r, 1) = First(s) /\ First(r) = a.f
  BY <1>1, <1>2 DEF After, First
<1>4. ASSUME NEW k \in 2 .. Len(r) PROVE Adjacent(c, r[k], After(r, k))
  <2>1. r[k] = s[k - 1] /\ k - 1 \in 1 .. Len(s)
    BY <1>1
  <2>2. After(r, k) = After(s, k - 1)
    <3>1. CASE k < Len(r)
      <4> DEFINE l == k + 1
      <4>1. l \in 2 .. Len(r) /\ l - 1 = k - 1 + 1 /\ k - 1 < Len(s)
        BY <1>1, <1>2, <3>1
      <4> HIDE DEF l
      <4>2. r[l] = s[k - 1 + 1]
        BY <1>1, <4>1
      <4> QED
        BY <3>1, <4>1, <4>2 DEF After, l
    <3>2. CASE k = Len(r)
      BY <1>1, <1>2, <3>2 DEF After
    <3> QED
      BY <1>1, <1>2, <3>1, <3>2
  <2> QED
    BY <2>1, <2>2 DEF Linked
<1>5. Linked(c, r)
  BY <1>1, <1>2, <1>3, <1>4, SMTT(30) DEF Linked
<1> QED
  BY <1>1, <1>3, <1>5 DEF r

\* Nothing moves.
LEMMA LinkedSame ==
  ASSUME NEW c, NEW d, OneWay(c, d), NEW s, Linked(c, s)
  PROVE  Linked(d, s)
BY DEF Linked, Adjacent, OneWay

\* The frame returns.
LEMMA Calls0 ==
  ASSUME StackOK, Linked(conn, stack), OneWay(conn, conn'), Called(<<>>)
  PROVE  Shape(After(stack, 1), After(stack, 2))
<1> DEFINE fs == <<>>
<1>1. fs \in Seq(StackFrames) /\ Len(fs) = 0
  OBVIOUS
<1>2. Fits(fs)
  BY DEF Fits
<1>4. Called(fs)
  OBVIOUS
<1> HIDE DEF fs
<1>5. Shape(IF Len(fs) = 0 THEN After(stack, 1) ELSE fs[1].f,
            IF Len(fs) = 0 THEN After(stack, 2)
            ELSE IF Len(fs) = 1 THEN After(stack, 1) ELSE fs[2].f)
  BY <1>1, <1>2, <1>4, LinkedCall, Zenon
<1> QED
  BY <1>1, <1>5

\* One frame follows it.
LEMMA Calls1 ==
  ASSUME StackOK, Linked(conn, stack), OneWay(conn, conn'), NEW a \in StackFrames, Called(<<a>>),
         Adjacent(conn', a, After(stack, 1))
  PROVE  Shape(a.f, After(stack, 1))
<1> DEFINE fs == <<a>>
<1>1. fs \in Seq(StackFrames) /\ Len(fs) = 1
  OBVIOUS
<1>2. Fits(fs)
  BY DEF Fits
<1>3. fs[1].f = a.f
  OBVIOUS
<1>4. Called(fs)
  OBVIOUS
<1> HIDE DEF fs
<1>5. Shape(IF Len(fs) = 0 THEN After(stack, 1) ELSE fs[1].f,
            IF Len(fs) = 0 THEN After(stack, 2)
            ELSE IF Len(fs) = 1 THEN After(stack, 1) ELSE fs[2].f)
  BY <1>1, <1>2, <1>4, LinkedCall, Zenon
<1> QED
  BY <1>1, <1>3, <1>5

\* Two frames follow it.
LEMMA Calls2 ==
  ASSUME StackOK, Linked(conn, stack), OneWay(conn, conn'), NEW a \in StackFrames, NEW b \in StackFrames, Called(<<a, b>>),
         Adjacent(conn', a, b.f),
         Adjacent(conn', b, After(stack, 1))
  PROVE  Shape(a.f, b.f)
<1> DEFINE fs == <<a, b>>
<1>1. fs \in Seq(StackFrames) /\ Len(fs) = 2
  OBVIOUS
<1>2. Fits(fs)
  BY DEF Fits
<1>3. fs[1].f = a.f /\ fs[2].f = b.f
  OBVIOUS
<1>4. Called(fs)
  OBVIOUS
<1> HIDE DEF fs
<1>5. Shape(IF Len(fs) = 0 THEN After(stack, 1) ELSE fs[1].f,
            IF Len(fs) = 0 THEN After(stack, 2)
            ELSE IF Len(fs) = 1 THEN After(stack, 1) ELSE fs[2].f)
  BY <1>1, <1>2, <1>4, LinkedCall
<1> QED
  BY <1>1, <1>3, <1>5

\* Three frames follow it.
LEMMA Calls3 ==
  ASSUME StackOK, Linked(conn, stack), OneWay(conn, conn'), NEW a \in StackFrames, NEW b \in StackFrames, NEW c \in StackFrames, Called(<<a, b, c>>),
         Adjacent(conn', a, b.f),
         Adjacent(conn', b, c.f),
         Adjacent(conn', c, After(stack, 1))
  PROVE  Shape(a.f, b.f)
<1> DEFINE fs == <<a, b, c>>
<1>1. fs \in Seq(StackFrames) /\ Len(fs) = 3
  OBVIOUS
<1>2. Fits(fs)
  BY DEF Fits
<1>3. fs[1].f = a.f /\ fs[2].f = b.f
  OBVIOUS
<1>4. Called(fs)
  OBVIOUS
<1> HIDE DEF fs
<1>5. Shape(IF Len(fs) = 0 THEN After(stack, 1) ELSE fs[1].f,
            IF Len(fs) = 0 THEN After(stack, 2)
            ELSE IF Len(fs) = 1 THEN After(stack, 1) ELSE fs[2].f)
  BY <1>1, <1>2, <1>4, LinkedCall
<1> QED
  BY <1>1, <1>3, <1>5

\* Four frames follow it.
LEMMA Calls4 ==
  ASSUME StackOK, Linked(conn, stack), OneWay(conn, conn'), NEW a \in StackFrames, NEW b \in StackFrames, NEW c \in StackFrames, NEW d \in StackFrames, Called(<<a, b, c, d>>),
         Adjacent(conn', a, b.f),
         Adjacent(conn', b, c.f),
         Adjacent(conn', c, d.f),
         Adjacent(conn', d, After(stack, 1))
  PROVE  Shape(a.f, b.f)
<1> DEFINE fs == <<a, b, c, d>>
<1>1. fs \in Seq(StackFrames) /\ Len(fs) = 4
  OBVIOUS
<1>2. Fits(fs)
  BY DEF Fits
<1>3. fs[1].f = a.f /\ fs[2].f = b.f
  OBVIOUS
<1>4. Called(fs)
  OBVIOUS
<1> HIDE DEF fs
<1>5. Shape(IF Len(fs) = 0 THEN After(stack, 1) ELSE fs[1].f,
            IF Len(fs) = 0 THEN After(stack, 2)
            ELSE IF Len(fs) = 1 THEN After(stack, 1) ELSE fs[2].f)
  BY <1>1, <1>2, <1>4, LinkedCall
<1> QED
  BY <1>1, <1>3, <1>5

\* Six frames follow it.
LEMMA Calls6 ==
  ASSUME StackOK, Linked(conn, stack), OneWay(conn, conn'), NEW a \in StackFrames, NEW b \in StackFrames, NEW c \in StackFrames, NEW d \in StackFrames, NEW e \in StackFrames, NEW f \in StackFrames, Called(<<a, b, c, d, e, f>>),
         Adjacent(conn', a, b.f),
         Adjacent(conn', b, c.f),
         Adjacent(conn', c, d.f),
         Adjacent(conn', d, e.f),
         Adjacent(conn', e, f.f),
         Adjacent(conn', f, After(stack, 1))
  PROVE  Shape(a.f, b.f)
<1> DEFINE fs == <<a, b, c, d, e, f>>
<1>1. fs \in Seq(StackFrames) /\ Len(fs) = 6
  OBVIOUS
<1>2. Fits(fs)
  BY DEF Fits
<1>3. fs[1].f = a.f /\ fs[2].f = b.f
  OBVIOUS
<1>4. Called(fs)
  OBVIOUS
<1> HIDE DEF fs
<1>5. Shape(IF Len(fs) = 0 THEN After(stack, 1) ELSE fs[1].f,
            IF Len(fs) = 0 THEN After(stack, 2)
            ELSE IF Len(fs) = 1 THEN After(stack, 1) ELSE fs[2].f)
  BY <1>1, <1>2, <1>4, LinkedCall, Zenon
<1> QED
  BY <1>1, <1>3, <1>5

\* The frames user code posts.
Posted == {"init_read", "write_data", "shutdown", "kill"}

StackInv ==
  /\ Linked(conn, stack)
  /\ \A k \in 1 .. Len(posted) : posted[k].f \in Posted
  /\ First(stack) = "fail_group" => ~conn.open
  /\ conn.open /\ First(stack) = "write_ctx" /\ After(stack, 1) = "disable_write"
       => conn.out.next = 1
  /\ conn.open /\ ~Transmitting(conn.out) => conn.out.next = 1
  /\ conn.rd.st # "none" => conn.weak

\* The part of it that is about the stack, after a step.
SoundStack ==
  /\ stack' \in Seq(StackFrames) /\ Linked(conn', stack')
  /\ First(stack') = "fail_group" => ~conn'.open
  /\ conn'.open /\ First(stack') = "write_ctx" /\ After(stack', 1) = "disable_write"
       => conn'.out.next = 1

\* What holds before every step, and of the members after it.
Stepping == TypeInv /\ TokenInv /\ BufOK /\ StackInv /\ ConnOK' /\ OneWay(conn, conn')

\* The frame on top fits on the next one.
LEMMA TopFits ==
  ASSUME Stepping, stack # <<>>
  PROVE  /\ stack[1] \in StackFrames /\ First(stack) = stack[1].f
         /\ Adjacent(conn, stack[1], After(stack, 1)) /\ Adjacent(conn', stack[1], After(stack, 1))
         /\ StackOK /\ Linked(conn, stack) /\ OneWay(conn, conn')
<1>1. stack[1] \in StackFrames /\ 1 \in 1 .. Len(stack) /\ StackOK /\ Linked(conn, stack)
  BY TopFacts DEF Stepping, TypeInv, StackInv
<1>2. Adjacent(conn, stack[1], After(stack, 1))
  BY <1>1 DEF Linked
<1>3. Adjacent(conn', stack[1], After(stack, 1))
  BY <1>2 DEF Adjacent, OneWay, Stepping
<1> QED
  BY <1>1, <1>2, <1>3 DEF First, Stepping

-----------------------------------------------------------------------------
(* The types of the other variables *)

\* User code puts a frame on the stack at most.
LEMMA UserSteps ==
  ASSUME Stepping, User
  PROVE  /\ conn' = conn /\ UNCHANGED <<timer, net, dead, told, wire, notices>>
         /\ \/ stack' = stack
            \/ /\ UserCode
               /\ \E fr \in StackFrames : fr.f \in Posted /\ stack' = <<fr>> \o stack
         /\ handle' \in {"owned", "moved", "gone"}
         /\ used' \in [activated : BOOLEAN, sends : 0 .. MaxSends]
<1>1. /\ handle \in {"owned", "moved", "gone"}
      /\ used \in [activated : BOOLEAN, sends : 0 .. MaxSends]
  BY DEF Stepping, TypeInv, EnvOK
<1> DEFINE Puts == \/ stack' = stack
                   \/ /\ UserCode
                      /\ \E fr \in StackFrames : fr.f \in Posted /\ stack' = <<fr>> \o stack
<1>2. ASSUME NEW fr \in StackFrames, fr.f \in Posted, Dispatch(fr) PROVE Puts
  BY <1>2, Zenon DEF Dispatch
<1>3. \A f \in {"init_read", "shutdown", "kill"} :
        Frame(f) \in StackFrames /\ Frame(f).f \in Posted
  BY FrameFacts DEF SimpleFrames, Posted
<1>4. CASE Activate
  <2>1. Puts
    BY <1>2, <1>3, <1>4, Zenon DEF Activate
  <2>2. used' \in [activated : BOOLEAN, sends : 0 .. MaxSends]
    BY <1>1, <1>4, Zenon DEF Activate
  <2> QED
    BY <1>1, <1>4, <2>1, <2>2, Zenon DEF Activate, hist
<1>5. ASSUME NEW close \in BOOLEAN, SendMessage(close)
      PROVE  /\ conn' = conn /\ UNCHANGED <<timer, net, dead, told, wire, notices>> /\ Puts
             /\ handle' \in {"owned", "moved", "gone"}
             /\ used' \in [activated : BOOLEAN, sends : 0 .. MaxSends]
  <2> DEFINE g == Group(used.sends + 1, close, 2)
  <2>1. used.sends \in 0 .. MaxSends /\ used.sends < MaxSends /\ MaxSends \in Nat
    BY <1>1, <1>5, WsConnectionAssumption DEF SendMessage
  <2>2. used.sends + 1 \in 0 .. OwnClose /\ 2 \in 1 .. 2 /\ used.sends + 1 \in 0 .. MaxSends
    BY <2>1 DEF OwnClose
  <2>3. g \in Groups
    BY <2>2, GroupFacts
  <2>4. Dispatch(WriteData(g))
    BY <1>5 DEF SendMessage
  <2> HIDE DEF g
  <2>5. Puts
    BY <1>2, <2>3, <2>4, FrameFacts, Zenon DEF Posted
  <2>6. used' \in [activated : BOOLEAN, sends : 0 .. MaxSends]
    BY <1>1, <1>5, <2>2 DEF SendMessage
  <2>7. handle' \in {"owned", "moved", "gone"}
    BY <1>1, <1>5 DEF SendMessage
  <2> QED
    BY <1>5, <2>5, <2>6, <2>7, Zenon DEF SendMessage, hist
<1>6. ASSUME NEW how \in {"shutdown", "kill"}, GiveUp(how)
      PROVE  /\ conn' = conn /\ UNCHANGED <<timer, net, dead, told, wire, notices>> /\ Puts
             /\ handle' = "moved" /\ used' = used
  <2>1. Puts
    BY <1>2, <1>3, <1>6, Zenon DEF GiveUp
  <2> QED
    BY <1>6, <2>1, Zenon DEF GiveUp, hist
<1>7. CASE DropHandle
  <2>1. Puts
    BY <1>2, <1>3, <1>7, Zenon DEF DropHandle
  <2> QED
    BY <1>1, <1>7, <2>1, Zenon DEF DropHandle, hist
<1> QED
  BY <1>1, <1>4, <1>5, <1>6, <1>7, Zenon DEF User

\* The environment and the history keep their types.
LEMMA TypesNext ==
  ASSUME Stepping, Next
  PROVE  EnvOK' /\ HistOK'
<1> DEFINE Nets == [left : Seq(PeerFrames), tokens : Seq(TokenSet)]
<1>1. /\ EnvOK /\ HistOK /\ conn \in Conns(conn.val) /\ StackOK /\ net \in Nets
      /\ timer \in {"off", "armed"} /\ told \in Seq(Code \union {"message"})
      /\ wire \in Seq(Groups \union {NoGroup}) /\ notices \in [Sends -> Seq(Results)]
  BY DEF Stepping, TypeInv, ConnOK, EnvOK, HistOK
<1>2. ASSUME UNCHANGED <<timer, handle, used, net, dead>> PROVE EnvOK'
  BY <1>1, <1>2, Zenon DEF EnvOK
<1>3. ASSUME UNCHANGED <<told, wire, notices>> PROVE HistOK'
  BY <1>1, <1>3, Zenon DEF HistOK
<1>4. ASSUME UNCHANGED <<timer, env, hist>> PROVE EnvOK' /\ HistOK'
  BY <1>2, <1>3, <1>4 DEF env, user, hist
<1>5. CASE InitWrite \/ FinishWriteGroup \/ AfterWrite \/ GroupFailed \/ Returns
           \/ NotificatorThrows \/ DisableWrite \/ StartWaitingCloseFrameOnly
  BY <1>4, <1>5, Zenon
     DEF InitWrite, FinishWriteGroup, AfterWrite, GroupFailed, Returns, HandlerReturns,
         NotificatorReturns, NotificatorThrows, DisableWrite, StartWaitingCloseFrameOnly
<1>6. CASE TriggerErrorAndClose \/ StartReadHeader \/ AfterRead \/ ResetProtocolValidator
           \/ SkipPayload \/ GoOnReading \/ Shutdown \/ ReadFails \/ WriteFails
  BY <1>4, <1>6, Zenon
     DEF TriggerErrorAndClose, StartReadHeader, AfterRead, ResetProtocolValidator, SkipPayload,
         GoOnReading, Shutdown, ReadFails, WriteFails
<1>7. CASE ConsumeHeader \/ ValidatePayloadPart
  BY <1>4, <1>7, Zenon DEF ConsumeHeader, ValidatePayloadPart
<1>8. ASSUME NEW g, NEW res \in Results, NEW fs, Notify(g, res, fs), UNCHANGED <<told, wire>>
      PROVE  HistOK'
  <2>1. CASE g.id \in Sends
    <3>1. notices' = [notices EXCEPT ![g.id] = Append(@, res)]
      BY <1>8, <2>1 DEF Notify
    <3>2. notices[g.id] \in Seq(Results)
      BY <1>1, <2>1
    <3>3. Append(notices[g.id], res) \in Seq(Results)
      BY <3>2, AppendProperties
    <3>4. notices' \in [Sends -> Seq(Results)]
      BY <1>1, <3>1, <3>3, Zenon
    <3> QED
      BY <1>1, <1>8, <3>4, Zenon DEF HistOK
  <2>2. CASE g.id \notin Sends
    BY <1>3, <1>8, <2>2 DEF Notify
  <2> QED
    BY <2>1, <2>2
<1>9. CASE HandleCurrentWriteCtx \/ FailGroup
  <2>1. EnvOK'
    BY <1>2, <1>9, Zenon DEF HandleCurrentWriteCtx, FailGroup, env, user
  <2>2. /\ UNCHANGED <<told, wire>>
        /\ \/ UNCHANGED notices
           \/ \E fs : Notify(conn.out.wg, "ok", fs) \/ Notify(conn.out.wg, "error", fs)
    BY <1>9, Zenon DEF HandleCurrentWriteCtx, FailGroup
  <2> QED
    BY <1>3, <1>8, <2>1, <2>2 DEF Results
<1>10. CASE WriteDataImpl
  <2>1. EnvOK'
    BY <1>2, <1>10, Zenon DEF WriteDataImpl, env, user
  <2>2. /\ UNCHANGED <<told, wire>>
        /\ \/ UNCHANGED notices
           \/ \E g, fs : Notify(g, "not_executed", fs) \/ Notify(g, "destroyed", fs)
    BY <1>10, Zenon DEF WriteDataImpl
  <2> QED
    BY <1>3, <1>8, <2>1, <2>2 DEF Results
<1>11. ASSUME NEW m \in Code \union {"message"}, NEW fs, CallMessageHandler(m, fs) \/ told' = told,
              UNCHANGED <<wire, notices>>
       PROVE  HistOK'
  <2>1. told' = told \/ told' = Append(told, m)
    BY <1>11 DEF CallMessageHandler
  <2>3. Append(told, m) \in Seq(Code \union {"message"})
    BY <1>1, AppendProperties, Zenon
  <2>2. told' \in Seq(Code \union {"message"})
    BY <1>1, <2>1, <2>3, Zenon
  <2> QED
    BY <1>1, <1>11, <2>2, Zenon DEF HistOK
<1>12. CASE CallCloseHandlerIfNecessary
  <2>1. EnvOK' /\ UNCHANGED <<wire, notices>> /\ stack # <<>> /\ stack[1].f = "close_handler"
        /\ (CallMessageHandler(stack[1].code, <<>>) \/ told' = told)
    BY <1>2, <1>12, Zenon DEF CallCloseHandlerIfNecessary, env, user, Top
  <2>2. stack[1].code \in Code
    BY <2>1, TopFits, FrameFacts
  <2> QED
    BY <1>11, <2>1, <2>2
<1>13. CASE PeerClosed
  <2>1. /\ EnvOK' /\ UNCHANGED <<wire, notices>>
        /\ CallMessageHandler("peer_close", <<Frame("go_on")>>)
    BY <1>2, <1>13, Zenon DEF PeerClosed, env, user
  <2> QED
    BY <1>11, <2>1 DEF Code
<1>14. Hangup => net' \in Nets
  BY <1>1 DEF Hangup
<1>15. ASSUME UNCHANGED <<handle, used, dead>>, net' \in Nets, timer' \in {"off", "armed"}
       PROVE  EnvOK'
  BY <1>1, <1>15, Zenon DEF EnvOK
<1>16. CASE CloseNow \/ Kill \/ WaitTimedOut
  <2>1. /\ Hangup /\ UNCHANGED <<handle, used, dead, told, wire, notices>>
        /\ timer' = timer \/ timer' = "off"
    BY <1>16, Zenon DEF CloseNow, Kill, WaitTimedOut, user, hist
  <2> QED
    BY <1>1, <1>3, <1>14, <1>15, <2>1
<1>17. CASE InitRead \/ WriteTimedOut
  <2>1. /\ UNCHANGED <<handle, used, dead, net, told, wire, notices>>
        /\ timer' \in {"off", "armed"}
    BY <1>17 DEF InitRead, WriteTimedOut, env, user, hist
  <2> QED
    BY <1>1, <1>3, <1>15, <2>1
<1>18. CASE OnMessage
  <2>1. Hangup /\ UNCHANGED <<handle, used, dead, wire, notices>>
    BY <1>18 DEF OnMessage, user
  <2>2. timer' = timer \/ timer' = "off"
    BY <1>18 DEF OnMessage
  <2>3. CallMessageHandler("message", <<Frame("go_on")>>) \/ told' = told
    BY <1>18, Zenon DEF OnMessage
  <2> QED
    BY <1>1, <1>11, <1>14, <1>15, <2>1, <2>2, <2>3, Zenon
<1>19. CASE RunPosted
  BY <1>2, <1>3, <1>19, Zenon DEF RunPosted, hist
<1>20. CASE User
  <2>1. /\ UNCHANGED <<timer, net, dead, told, wire, notices>>
        /\ handle' \in {"owned", "moved", "gone"}
        /\ used' \in [activated : BOOLEAN, sends : 0 .. MaxSends]
    BY <1>20, UserSteps
  <2> QED
    BY <1>1, <1>3, <2>1, Zenon DEF EnvOK
<1>21. CASE PeerSends
  <2>1. /\ UNCHANGED <<timer, handle, used, dead, told, wire, notices>> /\ net.left # <<>>
        /\ net' = [left |-> Tail(net.left), tokens |-> net.tokens \o Tokens(Head(net.left))]
    BY <1>21 DEF PeerSends, hist
  <2>2. net.left \in Seq(PeerFrames) /\ net.tokens \in Seq(TokenSet)
    BY <1>1
  <2>3. Head(net.left) \in PeerFrames /\ Tail(net.left) \in Seq(PeerFrames)
    BY <2>1, <2>2
  <2>4. Tokens(Head(net.left)) \in Seq(TokenSet)
    BY <2>3, TokenFacts, Zenon
  <2>5. net.tokens \o Tokens(Head(net.left)) \in Seq(TokenSet)
    BY <2>2, <2>4, ConcatProperties, Zenon
  <2>6. net' \in Nets
    BY <2>1, <2>3, <2>5, Zenon
  <2> QED
    BY <1>1, <1>3, <1>15, <2>1, <2>6
<1>22. CASE ReadCompletes
  <2>1. PICK n \in 1 .. Len(net.tokens) :
          net' = [net EXCEPT !.tokens = SubSeq(@, n + 1, Len(@))]
    BY <1>22, Zenon DEF ReadCompletes
  <2>2. net.tokens \in Seq(TokenSet) /\ Len(net.tokens) \in Nat /\ n \in Nat
    BY <1>1
  <2>3. Len(net.tokens) <= Len(net.tokens)
    BY <2>2
  <2>4. SubSeq(net.tokens, n + 1, Len(net.tokens)) \in Seq(TokenSet)
    BY <2>2, <2>3, TokenFacts
  <2>5. net' \in Nets
    BY <1>1, <2>1, <2>4, Zenon
  <2>6. UNCHANGED <<timer, handle, used, dead, told, wire, notices>>
    BY <1>22 DEF ReadCompletes, hist
  <2> QED
    BY <1>1, <1>3, <1>15, <2>5, <2>6
<1>23. CASE WriteCompletes
  <2>1. /\ UNCHANGED <<timer, handle, used, net, dead, told, notices>>
        /\ wire' = Append(wire, conn.out.wg)
    BY <1>23 DEF WriteCompletes, env, user
  <2>2. conn.out.wg \in Groups \union {NoGroup}
    BY <1>1 DEF Conns, Outputs
  <2>3. wire' \in Seq(Groups \union {NoGroup})
    BY <1>1, <2>1, <2>2, AppendProperties
  <2> QED
    BY <1>1, <1>2, <2>1, <2>3, Zenon DEF HistOK
<1>24. CASE Destroy
  <2>1. Hangup /\ dead' = TRUE /\ UNCHANGED <<timer, handle, used, told, wire>>
    BY <1>24 DEF Destroy
  <2>2. EnvOK'
    BY <1>1, <1>14, <2>1 DEF EnvOK
  <2>3. \E L : notices' = [n \in Sends |-> IF n \in L THEN Append(notices[n], "destroyed")
                                           ELSE notices[n]]
    BY <1>24, Zenon DEF Destroy
  <2>4. \A n \in Sends : notices[n] \in Seq(Results) /\ Append(notices[n], "destroyed") \in Seq(Results)
    BY <1>1, AppendProperties DEF Results
  <2>5. notices' \in [Sends -> Seq(Results)]
    BY <2>3, <2>4
  <2> QED
    BY <1>1, <2>1, <2>2, <2>5, Zenon DEF HistOK
<1>25. CASE Strand
  BY <1>5, <1>6, <1>7, <1>9, <1>10, <1>12, <1>13, <1>16, <1>17, <1>18, <1>25, Zenon DEF Strand
<1> QED
  BY <1>5, <1>6, <1>16, <1>17, <1>19, <1>20, <1>21, <1>22, <1>23, <1>24, <1>25, Zenon
     DEF Next, Peer, Time
=============================================================================
