--------------------------- MODULE MCWsConnection ---------------------------
(***************************************************************************)
(* Peers for the runs of WsConnection: frames with good and bad headers,   *)
(* payloads and close codes, and what may follow them.                     *)
(***************************************************************************)
EXTENDS WsConnection

PeerFrame(fin, opcode, payload) ==
  [hdr |-> [fin |-> fin, opcode |-> opcode, mask |-> TRUE, rsv |-> FALSE,
            len |-> Len(payload)],
   payload |-> payload]

Text       == PeerFrame(TRUE, "text", <<65>>)
BadText    == PeerFrame(TRUE, "text", <<255, 65>>)
CutText    == PeerFrame(TRUE, "text", <<195>>)
EmptyClose == PeerFrame(TRUE, "close", <<>>)
BadHeader  == PeerFrame(FALSE, "ping", <<>>)

Scripts ==
  {<<Text, EmptyClose>>, <<BadText, EmptyClose>>, <<CutText>>, <<BadHeader>>}
=============================================================================
