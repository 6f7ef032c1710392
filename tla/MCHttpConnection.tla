-------------------------- MODULE MCHttpConnection --------------------------
(* Instances of HttpConnection for TLC. *)
EXTENDS HttpConnection

Part1(final, close, notif, body) ==
  [final |-> final, close |-> close, notif |-> notif, body |-> body]

TwoGets == {<<"get", "get">>}
WithUpgrade == {<<"upg">>, <<"get", "upg">>, <<"upg", "get">>}
MixedScripts == WithUpgrade \union {<<"get", "get">>, <<"get", "bad">>}

\* A whole response in one part: kept alive, with a notificator, or not.
WholeResponses ==
  {Part1(TRUE, close, ~close, "data") : close \in BOOLEAN}

\* Responses in several parts with notificators, files and an empty last part.
StreamedResponses ==
  {Part1(FALSE, FALSE, TRUE, "data"), Part1(FALSE, FALSE, FALSE, "data"),
   Part1(TRUE, FALSE, TRUE, "file"), Part1(TRUE, FALSE, FALSE, "empty")}
=============================================================================
