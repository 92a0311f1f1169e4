--------------------------- MODULE MCServiceInstall ---------------------------
(* Every kind of start that can be asked for.                              *)
EXTENDS ServiceInstall

AllStartups == {NoStartup, "manual", "auto", "delayed", "disabled"}
=============================================================================
