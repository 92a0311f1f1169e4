---------------------------- MODULE MCOutputWindow ----------------------------
(* An instance of OutputWindow small enough to explore.                    *)
EXTENDS OutputWindow
=============================================================================
