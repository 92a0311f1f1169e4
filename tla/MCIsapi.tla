-------------------------------- MODULE MCIsapi --------------------------------
(* An instance of IsapiHandler: two requests, an extension of one worker   *)
(* that is reloaded twice or of two workers that is reloaded once.         *)
EXTENDS IsapiHandler, TLC

CONSTANTS r1, r2

TroublesOfTwo ==
  r1 :> {"raises", "noToken"} @@ r2 :> {"doneAndRaises"}

ReloadsOfTwo == 1 :> 2 @@ 2 :> 1
=============================================================================
