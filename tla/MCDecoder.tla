----------------------------- MODULE MCDecoder -----------------------------
(***************************************************************************)
(* The decoder for TLC: the size the sender is built for, which needs a    *)
(* conformance window, one that does not, and a payload that would emulate *)
(* a start code.                                                           *)
(***************************************************************************)
EXTENDS Decoder

TwoSizes == {<<2880, 1800>>, <<1280, 704>>}
ZeroPayload == <<0, 0, 1, 0, 0, 0, 1, 38>>
=============================================================================
