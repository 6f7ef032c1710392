------------------------------ MODULE WsParser ------------------------------
(***************************************************************************)
(* The wire format of WebSocket frames (websocket/impl/ws_parser.hpp,      *)
(* websocket/message.hpp and unmasker_t of ws_protocol_validator.hpp).     *)
(*                                                                         *)
(* A message_details_t is a record [fin, rsv, opcode, mask, plen, ext,     *)
(* key]: rsv is the sequence of the three reserved flags, opcode the       *)
(* number of the opcode, key the four bytes of the masking key, the most   *)
(* significant one first.                                                  *)
(***************************************************************************)
EXTENDS Naturals, Sequences, SequencesExt, Bitwise

MaxLenWithoutExt == 125
ShortExtLenCode  == 126
LongExtLenCode   == 127

Flag(set, bit) == IF set THEN bit ELSE 0

\* write_number_to_big_endian_bytes<n>() and its inverse
BigEndian(number, n) == [i \in 1 .. n |-> (number \div 256 ^ (n - i)) % 256]
FromBigEndian(bytes) == FoldLeft(LAMBDA acc, b : 256 * acc + b, 0, bytes)

\* The code in the second byte of a header for a payload of len bytes.
PayloadLenCode(len) ==
  IF len <= MaxLenWithoutExt THEN len
  ELSE IF len > 65535 THEN LongExtLenCode ELSE ShortExtLenCode

NoDetails == [fin |-> TRUE, rsv |-> <<FALSE, FALSE, FALSE>>, opcode |-> 0,
              mask |-> FALSE, plen |-> 0, ext |-> 0, key |-> <<0, 0, 0, 0>>]

\* The constructors of message_details_t; key is <<>> without masking.
MessageDetails(fin, opcode, len, key) ==
  [NoDetails EXCEPT !.fin = fin, !.opcode = opcode, !.plen = PayloadLenCode(len),
     !.ext  = IF len > MaxLenWithoutExt THEN len ELSE 0,
     !.mask = key # <<>>, !.key = IF key # <<>> THEN key ELSE @]

PayloadLen(d) == IF d.plen > MaxLenWithoutExt THEN d.ext ELSE d.plen

ExtLenSize(plen) ==
  CASE plen = ShortExtLenCode -> 2 [] plen = LongExtLenCode -> 8 [] OTHER -> 0

\* The lengths checked are below 2^31, so the upper bytes of eight are 0.
ExtLenBytes(d) ==
  IF d.plen = LongExtLenCode THEN <<0, 0, 0, 0>> \o BigEndian(d.ext, 4)
  ELSE BigEndian(d.ext, ExtLenSize(d.plen))

WriteMessageDetails(d) ==
  <<Flag(d.fin, 128) + Flag(d.rsv[1], 64) + Flag(d.rsv[2], 32) + Flag(d.rsv[3], 16)
      + (d.opcode % 16),
    Flag(d.mask, 128) + d.plen>>
  \o ExtLenBytes(d) \o (IF d.mask THEN d.key ELSE <<>>)

-----------------------------------------------------------------------------
(* ws_parser_t: [state, expected, loaded, msg] *)

Expect(p, state, size) == [p EXCEPT !.state = state, !.expected = size, !.loaded = <<>>]

NewParser == [state |-> "first_2_bytes", expected |-> 2, loaded |-> <<>>, msg |-> NoDetails]

HeaderParsed(p) == p.state = "header_parsed"

\* process_first_2_bytes() with parse_first_2_bytes()
ProcessFirst2Bytes(p) ==
  LET b == p.loaded
      d == [p.msg EXCEPT !.fin = b[1] >= 128,
              !.rsv = <<(b[1] \div 64) % 2 = 1, (b[1] \div 32) % 2 = 1,
                        (b[1] \div 16) % 2 = 1>>,
              !.opcode = b[1] % 16, !.mask = b[2] >= 128, !.plen = b[2] % 128]
      q == [p EXCEPT !.msg = d]
  IN  IF d.plen > MaxLenWithoutExt THEN Expect(q, "ext_len", ExtLenSize(d.plen))
      ELSE IF d.mask THEN Expect(q, "mask_key", 4)
      ELSE Expect(q, "header_parsed", d.plen)

\* Mutant: forgets the masking key after an extended length.
ProcessExtendedLengthNoKey(p) ==
  [p EXCEPT !.msg.ext = FromBigEndian(p.loaded), !.state = "header_parsed"]

ProcessExtendedLength(p) ==
  LET q == [p EXCEPT !.msg.ext = FromBigEndian(p.loaded)]
  IN  IF q.msg.mask THEN Expect(q, "mask_key", 4) ELSE [q EXCEPT !.state = "header_parsed"]

ProcessMaskingKey(p) == [p EXCEPT !.msg.key = p.loaded, !.state = "header_parsed"]

\* process_byte() with expected_data_t::add_byte_and_check_size()
WsProcessByte(p, b) ==
  LET q == [p EXCEPT !.loaded = Append(@, b)]
  IN  IF Len(q.loaded) # q.expected THEN q
      ELSE CASE q.state = "first_2_bytes" -> ProcessFirst2Bytes(q)
             [] q.state = "ext_len"       -> ProcessExtendedLength(q)
             [] q.state = "mask_key"      -> ProcessMaskingKey(q)

\* parser_execute(): [parser, parsed], the number of bytes it took.
ParserExecute(p, data) ==
  FoldLeft(LAMBDA r, b : IF HeaderParsed(r.parser) THEN r
                         ELSE [parser |-> WsProcessByte(r.parser, b), parsed |-> r.parsed + 1],
           [parser |-> p, parsed |-> 0], data)

-----------------------------------------------------------------------------
(* Masking *)

\* mask_unmask_payload()
MaskUnmaskPayload(key, payload) ==
  [i \in DOMAIN payload |-> payload[i] ^^ key[((i - 1) % 4) + 1]]

NewUnmasker(key) == [mask |-> key, count |-> 0]

\* Mutant: each part of a payload is unmasked from the first byte of the key.
UnmaskPartAnew(u, part) ==
  [unmasker |-> u, data |-> MaskUnmaskPayload(u.mask, part)]

\* unmask_byte() on every byte of a part: [unmasker, data].
UnmaskPart(u, part) ==
  [unmasker |-> [u EXCEPT !.count = @ + Len(part)],
   data     |-> [i \in DOMAIN part |-> part[i] ^^ u.mask[((u.count + i - 1) % 4) + 1]]]

-----------------------------------------------------------------------------
(* message.hpp *)

OpcodeNames == [n \in {0, 1, 2, 8, 9, 10} |->
  CASE n = 0 -> "continuation" [] n = 1 -> "text" [] n = 2 -> "binary"
    [] n = 8 -> "close" [] n = 9 -> "ping" [] n = 10 -> "pong"]

OpcodeOf(n) == IF n \in DOMAIN OpcodeNames THEN OpcodeNames[n] ELSE "unknown"
=============================================================================
