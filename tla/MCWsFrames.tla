----------------------------- MODULE MCWsFrames -----------------------------
(***************************************************************************)
(* Frames for the runs of WsFrames: text cut inside a symbol, control      *)
(* frames between fragments, bad headers, and lengths at the boundaries of *)
(* the three encodings (of these the peer sends the header only).          *)
(***************************************************************************)
EXTENDS WsFrames

Key == <<55, 250, 33, 61>>
Fr(fin, opcode, bytes) ==
  [details |-> MessageDetails(fin, opcode, Len(bytes), Key), payload |-> bytes]
HeaderOnly(opcode, len) ==
  [details |-> MessageDetails(TRUE, opcode, len, Key), payload |-> <<>>]

TextFrames == {Fr(TRUE, 1, <<65>>), Fr(FALSE, 1, <<195>>), Fr(FALSE, 1, <<65, 226, 130>>),
               Fr(TRUE, 0, <<169>>), Fr(FALSE, 0, <<>>), Fr(TRUE, 0, <<65, 66, 67, 68, 69>>),
               Fr(TRUE, 1, <<237, 160, 128>>)}
OtherFrames == {Fr(FALSE, 2, <<255>>), Fr(TRUE, 9, <<>>), Fr(TRUE, 10, <<255>>),
                Fr(TRUE, 8, <<3, 232, 195, 169>>), Fr(TRUE, 8, <<3, 237>>)}
BadHeaders == {Fr(FALSE, 9, <<>>), Fr(TRUE, 3, <<>>),
               [details |-> MessageDetails(TRUE, 1, 0, <<>>), payload |-> <<>>],
               [Fr(TRUE, 1, <<>>) EXCEPT !.details.rsv[2] = TRUE]}
LongFrames == {HeaderOnly(1, len) : len \in {125, 126, 127, 255, 256, 65535, 65536, 16777216}}
              \union {HeaderOnly(9, len) : len \in {125, 126}}

AllFrames == TextFrames \union OtherFrames \union BadHeaders \union LongFrames
=============================================================================
