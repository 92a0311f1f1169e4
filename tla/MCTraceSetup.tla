----------------------------- MODULE MCTraceSetup -----------------------------
(* Instances of TraceSetup: a service in the session of the services and   *)
(* the processes of a user's session.                                      *)
EXTENDS TraceSetup, TLC

CONSTANTS service, shell, tool, s0, s1

AllProcs  == {service, shell, tool}
SessionOfAll == service :> s0 @@ shell :> s1 @@ tool :> s1
=============================================================================
