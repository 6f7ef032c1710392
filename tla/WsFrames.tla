------------------------------ MODULE WsFrames ------------------------------
(***************************************************************************)
(* The receiving side of a WebSocket put together: the bytes of the peer's *)
(* frames arrive in pieces of any size; ws_parser_t reads the header,      *)
(* ws_protocol_validator_t judges it, unmasks the payload and judges its   *)
(* bytes, as the read handlers of ws_connection_t call them.  The receiver *)
(* stops at the first frame that is not accepted.                          *)
(***************************************************************************)
EXTENDS WsParser, WsProtocolValidator

CONSTANTS Frames,     \* what the peer may send: [details, payload]
          MaxFrames   \* bound: frames the peer sends

ASSUME WsFramesAssumption ==
  /\ MaxFrames \in Nat
  /\ \A f \in Frames : f.payload \in Seq(Byte) /\ Len(f.payload) <= PayloadLen(f.details)

VARIABLES
  frames,    \* history: the frames sent
  pending,   \* bytes of the last one that have not arrived yet
  parser,    \* ws_parser_t
  val,       \* ws_protocol_validator_t and its unmasker_t
  payload,   \* unmasked payload of the current frame
  verdicts   \* history: what became of each frame

vars == <<frames, pending, parser, val, payload, verdicts>>

Init ==
  /\ frames = <<>> /\ pending = <<>> /\ parser = NewParser
  /\ val = [v |-> NewValidator, unmasker |-> NewUnmasker(NoDetails.key)]
  /\ payload = <<>> /\ verdicts = <<>>

Accepted == \A i \in DOMAIN verdicts : verdicts[i] = "frame_is_valid"

\* The previous frame has arrived, all of it, and was accepted.
PeerSends(f) ==
  /\ Len(frames) < MaxFrames /\ Accepted /\ Len(verdicts) = Len(frames)
  /\ frames' = Append(frames, f)
  /\ pending' = WriteMessageDetails(f.details)
                \o MaskUnmaskPayload(f.details.key, f.payload)
  /\ UNCHANGED <<parser, val, payload, verdicts>>

\* What the validator sees of a header.
HeaderOf(d) == [fin |-> d.fin, opcode |-> OpcodeOf(d.opcode), mask |-> d.mask,
                rsv |-> d.rsv # NoDetails.rsv, len |-> PayloadLen(d)]

\* consume_header_from_buffer() and handle_parsed_header()
ReceiveHeader(data) ==
  LET r == ParserExecute(parser, data)
      v == ProcessNewFrame(val.v, HeaderOf(r.parser.msg))
  IN  [parser |-> r.parser, part |-> SubSeq(data, r.parsed + 1, Len(data)),
       val    |-> IF HeaderParsed(r.parser)
                  THEN [v |-> v, unmasker |-> NewUnmasker(r.parser.msg.key)] ELSE val]

\* validate_payload_part(), and call_handler_on_current_message() when nothing
\* is left to be read.
ReceivePayload(d, q, part) ==
  LET u    == UnmaskPart(q.unmasker, part)
      v    == ProcessNextPayloadPart(q.v, u.data)
      all  == payload \o u.data
      last == Len(all) = PayloadLen(d)
      bad  == v.vstate # "payload_part_is_valid"
  IN  [val      |-> [v |-> IF last /\ ~ bad THEN FinishFrame(v) ELSE v,
                     unmasker |-> u.unmasker],
       payload  |-> all,
       verdicts |-> IF bad THEN Append(verdicts, v.vstate)
                    ELSE IF last THEN Append(verdicts, FinishVerdict(v)) ELSE verdicts]

\* The next n bytes arrive in one piece.
Receive(n) ==
  /\ n <= Len(pending) /\ Accepted
  /\ pending' = SubSeq(pending, n + 1, Len(pending))
  /\ LET data   == SubSeq(pending, 1, n)
         header == IF HeaderParsed(parser)
                   THEN [parser |-> parser, val |-> val, part |-> data]
                   ELSE ReceiveHeader(data)
         d      == header.parser.msg
         body   == ReceivePayload(d, header.val, header.part)
     IN  IF ~ HeaderParsed(header.parser)
         THEN parser' = header.parser /\ UNCHANGED <<val, payload, verdicts>>
         ELSE IF ~ IsStateStillValid(header.val.v)
         THEN /\ parser' = header.parser /\ val' = header.val
              /\ verdicts' = Append(verdicts, header.val.v.vstate)
              /\ UNCHANGED payload
         ELSE /\ val' = body.val /\ payload' = body.payload /\ verdicts' = body.verdicts
              /\ parser' = header.parser
  /\ UNCHANGED frames

\* start_read_header(): the next header is parsed from the beginning.
StartReadHeader ==
  /\ Accepted /\ HeaderParsed(parser) /\ Len(verdicts) = Len(frames)
  /\ parser' = NewParser /\ payload' = <<>>
  /\ UNCHANGED <<frames, pending, val, verdicts>>

Next ==
  \/ ~ HeaderParsed(parser) /\ \E f \in Frames : PeerSends(f)
  \/ \E n \in 1 .. Len(pending) : Receive(n)
  \/ StartReadHeader

Spec == Init /\ [][Next]_vars

-----------------------------------------------------------------------------
(* Properties *)

Current == frames[Len(frames)]

\* Reference: the size of a header on the wire (RFC 6455, 5.2).
HeaderSize(f) ==
  LET len == PayloadLen(f.details)
  IN  2 + (IF len > 65535 THEN 8 ELSE IF len > 125 THEN 2 ELSE 0)
        + IF f.details.mask THEN 4 ELSE 0

FrameSize(f) == HeaderSize(f) + Len(f.payload)

\* Whatever the pieces, ws_parser_t has parsed a header exactly when its last
\* byte has arrived, and has read from it what write_message_details() wrote.
HeaderExact ==
  frames # <<>> /\ (Len(verdicts) < Len(frames) \/ HeaderParsed(parser)) =>
    /\ HeaderParsed(parser) <=> FrameSize(Current) - Len(pending) >= HeaderSize(Current)
    /\ HeaderParsed(parser) => parser.msg = Current.details

\* The payload handed to the message handler is the one the peer masked, byte
\* for byte, in however many parts it was unmasked.
PayloadRestored ==
  HeaderParsed(parser) /\ Accepted /\ Len(verdicts) = Len(frames)
    => payload = Current.payload

\* Frames are read as they were written, however they are cut.
FramesRestored == HeaderExact /\ PayloadRestored

DataFrames(fs) == SelectSeq(fs, LAMBDA f : OpcodeOf(f.details.opcode)
                                            \in {"continuation", "text", "binary"})

\* Reference, from the documentation of ws_protocol_validator_t: a
\* continuation frame comes after a data frame that was not final, and a new
\* data message only when the one before it is finished.
WellFragmented(fs) ==
  LET ds == DataFrames(fs)
  IN  \A i \in DOMAIN ds :
        OpcodeOf(ds[i].details.opcode) = "continuation" <=> i > 1 /\ ~ ds[i - 1].details.fin

FragmentationVerdicts == {"continuation_frame_without_data_frame",
                          "new_data_frame_without_finishing_previous"}

\* The validator accepts a frame, as far as the order of frames is concerned,
\* exactly when what has been received is well fragmented, control frames
\* between the fragments included.
FragmentationExact ==
  Len(verdicts) > 0 =>
    LET fs == SubSeq(frames, 1, Len(verdicts))
    IN  /\ Accepted => WellFragmented(fs)
        /\ Last(verdicts) \in FragmentationVerdicts => ~ WellFragmented(fs)

\* The text of the message that ends with the i-th of the data frames ds.
TextOf(ds, i) ==
  LET text[n \in 0 .. i] ==
        IF n = 0 THEN <<>>
        ELSE (IF OpcodeOf(ds[n].details.opcode) = "continuation" THEN text[n - 1] ELSE <<>>)
             \o ds[n].payload
  IN  text[i]
IsTextMessage(ds, i) ==
  LET first == Max({n \in 1 .. i : OpcodeOf(ds[n].details.opcode) # "continuation"})
  IN  OpcodeOf(ds[first].details.opcode) = "text"

\* A text message that was accepted to its last fragment is well-formed UTF-8,
\* although the fragments and the pieces may be cut inside a symbol.
AcceptedTextIsUtf8 ==
  Accepted /\ Len(verdicts) = Len(frames) =>
    LET ds == DataFrames(frames)
    IN  \A i \in DOMAIN ds :
          ds[i].details.fin /\ IsTextMessage(ds, i) => WellFormedUtf8(TextOf(ds, i))

=============================================================================
