---------------------------- MODULE MCVkmsDriver ----------------------------
(***************************************************************************)
(* The driver for TLC.  Nothing in it tells one address from another, and  *)
(* no property is a liveness property, so the addresses are symmetric.     *)
(***************************************************************************)
EXTENDS VkmsDriver, TLC

Addresses == Permutations(Config) \cup Permutations(Plane) \cup Permutations(Crtc)
=============================================================================
