----------------------- MODULE MCResponseCoordinator ------------------------
(* The instances of ResponseCoordinator for TLC are given by the .cfg files. *)
EXTENDS ResponseCoordinator
=============================================================================
