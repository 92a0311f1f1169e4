--------------------------- MODULE ServiceLifecycle ---------------------------
(***************************************************************************)
(* What the service control manager (SCM) may expect of each service of a  *)
(* host process: started, it runs or fails; asked to stop or stopping by   *)
(* itself it never claims to be running again; and its checkpoint grows    *)
(* while it is stopping, which is how the SCM tells that it is not hung.   *)
(***************************************************************************)
EXTENDS Integers

CONSTANT Services

States == {"STOPPED", "START_PENDING", "RUNNING", "STOP_PENDING"}

VARIABLES state, checkpoint

vars == <<state, checkpoint>>

Init == /\ state = [s \in Services |-> "STOPPED"]
        /\ checkpoint = [s \in Services |-> 0]

Moves(s, from, to) == state[s] = from /\ state' = [state EXCEPT ![s] = to]

Clears(s) == checkpoint' = [checkpoint EXCEPT ![s] = 0]

Grows(s) == /\ checkpoint'[s] > checkpoint[s]
            /\ checkpoint' = [checkpoint EXCEPT ![s] = checkpoint'[s]]

Next == \E s \in Services :
  \/ Moves(s, "STOPPED", "START_PENDING") /\ Clears(s)
  \/ Moves(s, "START_PENDING", "RUNNING") /\ Clears(s)
  \/ Moves(s, "RUNNING", "STOP_PENDING") /\ Grows(s)
  \/ Moves(s, "STOP_PENDING", "STOP_PENDING") /\ Grows(s)
  \/ \E from \in States \ {"STOPPED"} : Moves(s, from, "STOPPED") /\ Clears(s)

Spec == Init /\ [][Next]_vars
=============================================================================
