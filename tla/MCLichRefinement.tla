-------------------------- MODULE MCLichRefinement --------------------------
(* The instances of MCLichServer, for the refinement.                      *)
EXTENDS LichRefinement, MCLichServer
=============================================================================
