---------------------------- MODULE MCLichFrames ----------------------------
(* Payloads of up to seven bytes, with tokens that hold a zero or repeat. *)
EXTENDS LichFrames

TwoTokens == {<<1, 1>>, <<0, 1>>}
============================================================================
