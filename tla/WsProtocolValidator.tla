------------------------- MODULE WsProtocolValidator ------------------------
(***************************************************************************)
(* ws_protocol_validator_t (websocket/impl/ws_protocol_validator.hpp):     *)
(* checks the frames of a client one by one.  A validator is               *)
(*   [vstate, working, prev, frame, code, utf8]:                           *)
(* m_validation_state, whether a frame is being processed, the kind of the *)
(* unfinished data message, m_current_frame, the bytes of the close code   *)
(* loaded so far, and m_utf8_checker.                                      *)
(*                                                                         *)
(* A frame header is [fin, opcode, mask, rsv, len]; payload bytes are the  *)
(* ones the unmasker (module WsParser) returns.                            *)
(***************************************************************************)
EXTENDS Utf8Checker

MaxPayloadWithoutExt == 125

ControlOpcodes == {"close", "ping", "pong"}
DataOpcodes    == {"text", "binary"}
Opcodes == ControlOpcodes \union DataOpcodes \union {"continuation"}

IsControlFrame(opcode) == opcode \in ControlOpcodes
IsDataFrame(opcode)    == opcode \in DataOpcodes
IsValidOpcode(opcode)  == opcode \in Opcodes

Header == [fin : BOOLEAN, opcode : Opcodes \union {"unknown"}, mask : BOOLEAN,
           rsv : BOOLEAN, len : Nat]

GoodStates == {"initial", "frame_header_is_valid", "payload_part_is_valid",
               "frame_is_valid"}

NoFrame == [fin |-> TRUE, opcode |-> "continuation", mask |-> FALSE,
            rsv |-> FALSE, len |-> 0]

NewValidator == [vstate |-> "initial", working |-> FALSE, prev |-> "none",
                 frame |-> NoFrame, code |-> <<>>, utf8 |-> NewUtf8Checker]

IsStateStillValid(v) == v.vstate \in GoodStates

\* validate_frame_header(): the first of the checks that fails decides.
ValidateFrameHeader(f) ==
  CASE ~ IsValidOpcode(f.opcode)           -> "invalid_opcode"
    [] IsControlFrame(f.opcode) /\ ~ f.fin -> "non_final_control_frame"
    [] ~ f.mask                            -> "empty_mask_from_client_side"
    [] f.rsv                               -> "non_zero_rsv_flags"
    [] IsControlFrame(f.opcode) /\ f.len > MaxPayloadWithoutExt
                                           -> "payload_len_is_too_big"
    [] OTHER                               -> "frame_header_is_valid"

CheckPreviousFrameType(v, f) ==
  CASE v.prev = "none" /\ f.opcode = "continuation"
         -> "continuation_frame_without_data_frame"
    [] v.prev # "none" /\ IsDataFrame(f.opcode)
         -> "new_data_frame_without_finishing_previous"
    [] OTHER -> "frame_header_is_valid"

HeaderVerdict(v, f) ==
  IF ValidateFrameHeader(f) = "frame_header_is_valid"
  THEN CheckPreviousFrameType(v, f) ELSE ValidateFrameHeader(f)

\* Throws when the previous frame was not finished.
NewFrameThrows(v) == v.working

\* Mutant: forgets that a fragmented message has begun.
ProcessNewFrameForgetful(v, f) ==
  LET verdict == HeaderVerdict(v, f)
  IN  IF verdict # "frame_header_is_valid" THEN [v EXCEPT !.vstate = verdict]
      ELSE [v EXCEPT !.vstate = verdict, !.working = TRUE, !.frame = f,
                     !.code = IF f.opcode = "close" THEN <<>> ELSE @]

ProcessNewFrame(v, f) ==
  LET verdict == HeaderVerdict(v, f)
  IN  IF verdict # "frame_header_is_valid" THEN [v EXCEPT !.vstate = verdict]
      ELSE [v EXCEPT !.vstate = verdict, !.working = TRUE, !.frame = f,
                     !.prev = IF IsDataFrame(f.opcode) /\ ~ f.fin THEN f.opcode ELSE @,
                     !.code = IF f.opcode = "close" THEN <<>> ELSE @]

-----------------------------------------------------------------------------
(* Payload *)

ValidCloseCode(code) ==
  /\ code \in (1000 .. 1011) \union (3000 .. 4999)
  /\ code \notin {1004, 1005, 1006}

CheckUtf8(v, b) ==
  LET c == Utf8ProcessByte(v.utf8, b)
  IN  [v EXCEPT !.utf8 = c,
                !.vstate = IF Utf8Ok(c) THEN @ ELSE "incorrect_utf8_data"]

LoadCloseCode(v, b) ==
  LET loaded == Append(v.code, b)
      bad    == Len(loaded) = 2 /\ ~ ValidCloseCode(256 * loaded[1] + loaded[2])
  IN  [v EXCEPT !.code = loaded,
                !.vstate = IF bad THEN "invalid_close_code" ELSE @]

IsText(v) == \/ v.frame.opcode = "text"
             \/ v.frame.opcode = "continuation" /\ v.prev = "text"

\* process_payload_byte(), on the unmasked byte.
ProcessPayloadByte(v, b) ==
  IF IsText(v) THEN CheckUtf8(v, b)
  ELSE IF v.frame.opcode # "close" THEN v
  ELSE IF Len(v.code) < 2 THEN LoadCloseCode(v, b) ELSE CheckUtf8(v, b)

\* process_and_unmask_next_payload_part(): stops at the first bad byte.
ProcessNextPayloadPart(v, part) ==
  LET good == [v EXCEPT !.vstate = "payload_part_is_valid"]
      after[n \in 0 .. Len(part)] ==
        IF n = 0 THEN good
        ELSE IF after[n - 1].vstate = "payload_part_is_valid"
        THEN ProcessPayloadByte(after[n - 1], part[n]) ELSE after[n - 1]
  IN  IF IsStateStillValid(v) THEN after[Len(part)] ELSE v

-----------------------------------------------------------------------------
(* End of a frame *)

\* The verdict finish_frame() returns.
FinishVerdict(v) ==
  IF v.frame.fin /\ ~ Utf8Finalized(v.utf8) THEN "incorrect_utf8_data"
  ELSE IF IsStateStillValid(v) THEN "frame_is_valid" ELSE v.vstate

\* Mutant: the UTF-8 checker starts anew with every fragment.
FinishFrameResetsUtf8(v) ==
  [v EXCEPT !.vstate = "initial", !.working = FALSE, !.utf8 = Utf8Reset(@),
            !.prev = IF v.frame.fin /\ ~ IsControlFrame(v.frame.opcode)
                     THEN "none" ELSE @]

FinishFrame(v) ==
  [v EXCEPT !.vstate = "initial", !.working = FALSE,
            !.utf8 = IF v.frame.fin THEN Utf8Reset(@) ELSE @,
            !.prev = IF v.frame.fin /\ ~ IsControlFrame(v.frame.opcode)
                     THEN "none" ELSE @]

\* reset()
ResetValidator(v) ==
  [v EXCEPT !.vstate = "initial", !.working = FALSE, !.prev = "none",
            !.utf8 = Utf8Reset(@)]
=============================================================================
