---------------------------- MODULE ServiceControl ----------------------------
(***************************************************************************)
(* How a program starts, stops and restarts a service with the functions   *)
(* of win32/Lib/win32serviceutil.py, while that service, the ones that     *)
(* depend on it and the SCM go on.  Each call of the SCM is a step.        *)
(***************************************************************************)
EXTENDS Integers, Sequences, SequencesExt

CONSTANTS
  Registry,    \* the services, in the order in which the registry lists them
  Targets,     \* the services that the program may act on
  Graphs,      \* the sets of pairs <<s, t>>, "s depends on t", to consider
  Operations,  \* what the program may do
  MaxTries,    \* waitSecs: how often a loop asks the SCM
  Crashes      \* TRUE if a service that starts or runs may end by itself

Services == Range(Registry)

ASSUME ControlAssumption ==
  /\ Registry \in Seq(Services) /\ Targets \subseteq Services
  /\ Graphs \subseteq SUBSET (Services \X Services)
  /\ Operations \subseteq {"StopServiceWithDeps", "RestartService", "StartService"}
  /\ MaxTries \in Nat \ {0} /\ Crashes \in BOOLEAN

(* __ResolveDeps follows the dependences without a check for cycles: it    *)
(* relies on the SCM, which starts no service of a cycle.  So the services *)
(* have ranks, and what depends on one has a lower rank.                   *)
ASSUME NoCycles ==
  \A g \in Graphs : \E rank \in [Services -> 0 .. Len(Registry)] :
    \A e \in g : rank[e[1]] < rank[e[2]]

States  == {"STOPPED", "START_PENDING", "RUNNING", "STOP_PENDING"}
Results == {"none", "ok", "timeout", "gaveUp", "notActive", "alreadyRunning",
            "dependentRuns", "notAccepted", "dependencyStops"}

VARIABLES
  dependsOn,  \* DependOnService of all services
  state,      \* the status of each service
  instance,   \* how often each service was started
  target,     \* the service that the program acts on
  op,         \* what the program does
  pc,         \* where it is
  plan,       \* the services that it has yet to stop
  tries,      \* how often it has asked
  result,     \* how the operation ended
  before      \* the instance of target when the operation began

scm    == <<dependsOn, state, instance>>
client == <<target, op, pc, plan, tries, result, before>>
vars   == <<scm, client>>

-----------------------------------------------------------------------------
(* __FindSvcDeps and __ResolveDeps: the services that depend on s, each    *)
(* behind the ones that depend on it; a service may be there repeatedly.   *)
FindSvcDeps(s) == {svc \in Services : <<svc, s>> \in dependsOn}

(* Deps[<<t, n>>] is what the loop for t has gathered from the first n     *)
(* services of the registry, the latest in front.                          *)
MutBreadthFirst(s) ==
  LET Deps[p \in Services \X (0 .. Len(Registry))] ==
        IF p[2] = 0 THEN <<>>
        ELSE IF Registry[p[2]] \in FindSvcDeps(p[1])
        THEN <<Registry[p[2]]>> \o Deps[<<Registry[p[2]], Len(Registry)>>]
             \o Deps[<<p[1], p[2] - 1>>]
        ELSE Deps[<<p[1], p[2] - 1>>]
  IN  Deps[<<s, Len(Registry)>>]
ResolveDeps(s) ==
  LET Deps[p \in Services \X (0 .. Len(Registry))] ==
        IF p[2] = 0 THEN <<>>
        ELSE IF Registry[p[2]] \in FindSvcDeps(p[1])
        THEN Deps[<<Registry[p[2]], Len(Registry)>>] \o <<Registry[p[2]]>>
             \o Deps[<<p[1], p[2] - 1>>]
        ELSE Deps[<<p[1], p[2] - 1>>]
  IN  Deps[<<s, Len(Registry)>>]

(* All that depend on s, by any number of steps.                           *)
Dependents(s) == Range(ResolveDeps(s))

-----------------------------------------------------------------------------
(* The SCM.                                                                *)

Set(s, from, to) == state[s] = from /\ state' = [state EXCEPT ![s] = to]

(* ControlService(SERVICE_CONTROL_STOP): what it answers, and what it does *)
(* when it answers "ok".                                                   *)
StopAnswer(s) ==
  CASE state[s] = "STOPPED" -> "notActive"
    [] state[s] \in {"START_PENDING", "STOP_PENDING"} -> "notAccepted"
    [] OTHER -> IF \E d \in Services : <<d, s>> \in dependsOn /\ state[d] # "STOPPED"
                THEN "dependentRuns" ELSE "ok"

ControlStop(s) ==
  /\ state' = IF StopAnswer(s) = "ok" THEN [state EXCEPT ![s] = "STOP_PENDING"] ELSE state
  /\ UNCHANGED <<dependsOn, instance>>

(* StartService starts the services that s depends on as well.             *)
Needed(s) == {t \in Services : s \in Dependents(t)} \cup {s}

StartAnswer(s) ==
  IF state[s] # "STOPPED" THEN "alreadyRunning"
  ELSE IF \E t \in Needed(s) : state[t] = "STOP_PENDING" THEN "dependencyStops"
  ELSE "ok"

SCMStart(s) ==
  /\ LET new == IF StartAnswer(s) = "ok"
                THEN {t \in Needed(s) : state[t] = "STOPPED"} ELSE {}
     IN  /\ state' = [t \in Services |-> IF t \in new THEN "START_PENDING" ELSE state[t]]
         /\ instance' = [t \in Services |-> IF t \in new THEN instance[t] + 1
                                            ELSE instance[t]]
  /\ UNCHANGED dependsOn

(* A service gets on with what it was told, or ends by itself.             *)
Service(s) ==
  /\ \/ Set(s, "START_PENDING", "RUNNING")
     \/ Set(s, "STOP_PENDING", "STOPPED")
     \/ Crashes /\ (Set(s, "START_PENDING", "STOPPED") \/ Set(s, "RUNNING", "STOPPED"))
  /\ UNCHANGED <<dependsOn, instance, client>>

-----------------------------------------------------------------------------
(* The program.                                                            *)

Init ==
  /\ dependsOn \in Graphs
  /\ state \in [Services -> States]
  /\ \A s, t \in Services : <<s, t>> \in dependsOn /\ state[s] # "STOPPED" =>
       \/ state[t] = "RUNNING"
       \/ state[t] = "START_PENDING" /\ state[s] = "START_PENDING"
  /\ instance = [s \in Services |-> 0]
  /\ target \in Targets /\ op = "none" /\ pc = "idle" /\ plan = <<>> /\ tries = 0
  /\ result = "none" /\ before = 0

Return(r) == pc' = "idle" /\ result' = r

Begin(what) ==
  /\ op = "none" /\ op' = what
  /\ pc' = CASE what = "StopServiceWithDeps" -> "stop"
             [] what = "RestartService" -> "stopOld"
             [] what = "StartService" -> "start"
  /\ plan' = IF what = "StopServiceWithDeps" THEN Append(ResolveDeps(target), target)
             ELSE <<>>
  /\ before' = instance[target]
  /\ UNCHANGED <<scm, target, tries, result>>

(* __StopServiceWithTimeout of the next service of the plan: it is told to *)
(* stop and then asked, waitSecs times, whether it has.                    *)
MutDoNotPoll ==
  /\ pc = "stop" /\ ControlStop(Head(plan))
  /\ plan' = Tail(plan)
  /\ IF plan' = <<>> THEN Return("ok") ELSE UNCHANGED <<pc, result>>
  /\ UNCHANGED <<target, op, tries, before>>
StopNext ==
  /\ pc = "stop" /\ ControlStop(Head(plan))
  /\ \/ /\ StopAnswer(Head(plan)) \in {"ok", "notActive"}
        /\ pc' = "poll" /\ tries' = 0 /\ UNCHANGED result
     \/ /\ StopAnswer(Head(plan)) \notin {"ok", "notActive"}
        /\ Return(StopAnswer(Head(plan))) /\ UNCHANGED tries
  /\ UNCHANGED <<target, op, plan, before>>

PollStopped ==
  /\ pc = "poll"
  /\ \/ /\ state[Head(plan)] = "STOPPED" /\ plan' = Tail(plan)
        /\ \/ Len(plan) = 1 /\ Return("ok")
           \/ Len(plan) > 1 /\ pc' = "stop" /\ UNCHANGED result
        /\ UNCHANGED tries
     \/ /\ state[Head(plan)] # "STOPPED" /\ tries' = tries + 1
        /\ \/ tries' < MaxTries /\ UNCHANGED <<pc, result>>
           \/ tries' = MaxTries /\ Return("timeout")
        /\ UNCHANGED plan
  /\ UNCHANGED <<scm, target, op, before>>

(* RestartService: "Allow only 'service not running' error".               *)
StopOld ==
  /\ pc = "stopOld" /\ ControlStop(target)
  /\ \/ /\ StopAnswer(target) \in {"ok", "notActive"}
        /\ pc' = "startNew" /\ tries' = 0 /\ UNCHANGED result
     \/ /\ StopAnswer(target) \notin {"ok", "notActive"}
        /\ Return(StopAnswer(target)) /\ UNCHANGED tries
  /\ UNCHANGED <<target, op, plan, before>>

(* "Give it a few goes, as the service may take time to stop."             *)
MutNoBreak ==
  /\ pc = "startNew" /\ SCMStart(target)
  /\ tries' = tries + 1
  /\ \/ tries' < MaxTries /\ UNCHANGED <<pc, result>>
     \/ tries' = MaxTries /\ Return("ok")
  /\ UNCHANGED <<target, op, plan, before>>
StartNew ==
  /\ pc = "startNew" /\ SCMStart(target)
  /\ \/ /\ StartAnswer(target) = "alreadyRunning" /\ tries' = tries + 1
        /\ \/ tries' < MaxTries /\ UNCHANGED <<pc, result>>
           \/ tries' = MaxTries /\ Return("gaveUp")
     \/ /\ StartAnswer(target) # "alreadyRunning" /\ UNCHANGED tries
        /\ Return(StartAnswer(target))
  /\ UNCHANGED <<target, op, plan, before>>

(* StartService, and WaitForServiceStatus(SERVICE_RUNNING) after it.       *)
Start ==
  /\ pc = "start" /\ SCMStart(target)
  /\ \/ StartAnswer(target) = "ok" /\ pc' = "waitRunning" /\ tries' = 0 /\ UNCHANGED result
     \/ StartAnswer(target) # "ok" /\ Return(StartAnswer(target)) /\ UNCHANGED tries
  /\ UNCHANGED <<target, op, plan, before>>

WaitRunning ==
  /\ pc = "waitRunning"
  /\ \/ state[target] = "RUNNING" /\ Return("ok") /\ UNCHANGED tries
     \/ /\ state[target] # "RUNNING" /\ tries' = tries + 1
        /\ \/ tries' < MaxTries /\ UNCHANGED <<pc, result>>
           \/ tries' = MaxTries /\ Return("timeout")
  /\ UNCHANGED <<scm, target, op, plan, before>>

Program ==
  \/ StopNext \/ PollStopped \/ StopOld \/ StartNew \/ Start \/ WaitRunning

Next ==
  \/ \E what \in Operations : Begin(what)
  \/ Program
  \/ \E s \in Services : Service(s)

Spec == Init /\ [][Next]_vars

-----------------------------------------------------------------------------
(* StopServiceWithDeps is never refused a stop because of a service that   *)
(* still depends on the one it stops, whatever the graph ("recursively     *)
(* looking for dependant services", win32serviceutil.py:518).              *)
NeverRefused ==
  op = "StopServiceWithDeps" => result # "dependentRuns"

(* When it returns without an error the service and everything that        *)
(* depends on it, directly or not, have stopped.                           *)
StoppedAll ==
  op = "StopServiceWithDeps" /\ result = "ok" =>
    \A s \in Dependents(target) \cup {target} : state[s] = "STOPPED"

(* RestartService starts the service exactly once, after its old instance  *)
(* has ended: it succeeds with a new instance or changes nothing.          *)
RestartedOnce ==
  op = "RestartService" =>
    instance[target] = before + (IF result = "ok" THEN 1 ELSE 0)
=============================================================================
