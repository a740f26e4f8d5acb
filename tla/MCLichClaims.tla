---------------------------- MODULE MCLichClaims ----------------------------
(* The instances of MCLichServer, for the claims.                          *)
EXTENDS LichClaims, MCLichServer
=============================================================================
