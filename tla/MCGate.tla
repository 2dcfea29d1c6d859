-------------------------------- MODULE MCGate --------------------------------
(* A TLC instance of WebGate: a browser and an HTTP client share a bit of the filter. *)
EXTENDS WebGate, TLC

CONSTANTS browser1, browser2, script, b1, b2

SharedBits == (browser1 :> b1) @@ (browser2 :> b2) @@ (script :> b1)
=============================================================================
