----------------------------- MODULE MCComServer -----------------------------
(* A small instance of ComServer for TLC.                                  *)
EXTENDS ComServer, TLC

ClientSymmetry == Permutations(Clients)
=============================================================================
