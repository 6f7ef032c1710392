---------------------------- MODULE MCHttpServer ----------------------------
(* Instances of HttpServer for TLC. *)
EXTENDS HttpServer

BothEvents == {"signal", "shutdown"}
AllFaults  == {"open", "thread", "accept", "create"}
OpenFault  == {"open"}

=============================================================================
