---------------------------- MODULE MCRingBuffer ----------------------------
(* Instances of RingBuffer for TLC.                                         *)
EXTENDS RingBuffer

NoFrames == {}
SomeFrames == {2, 5}
=============================================================================
