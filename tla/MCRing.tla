-------------------------------- MODULE MCRing --------------------------------
(* TLC instances of RingFormation. *)
EXTENDS RingFormation

ThreeNodes == {2, 4, 6}
KeyHashes  == {3, 5, 7}   \* between the node IDs and above them
=============================================================================
