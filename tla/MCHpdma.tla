------------------------------ MODULE MCHpdma ------------------------------
(* Small instances of Hpdma for TLC: chunks of two words. *)
EXTENDS Hpdma

(* Up to twice as many chunks as there are descriptors; one more; three. *)
UpToEight == 1 .. 16
Nine      == {17, 18}
=============================================================================
