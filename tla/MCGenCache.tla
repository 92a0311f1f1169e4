------------------------------ MODULE MCGenCache ------------------------------
(* An instance of GenCache small enough to explore.                        *)
EXTENDS GenCache
=============================================================================
