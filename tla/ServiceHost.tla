------------------------------ MODULE ServiceHost ------------------------------
(***************************************************************************)
(* A process that hosts Python services: service_main and the control      *)
(* handler of win32/src/PythonService.cpp, the ServiceFramework class of   *)
(* win32/Lib/win32serviceutil.py, and the SCM that they talk to.           *)
(*                                                                         *)
(* Each start of a service runs service_main on a thread of its own; all   *)
(* controls of the process are delivered by one dispatcher thread.  Python *)
(* code may be interrupted between any two of its statements that other    *)
(* threads can observe.                                                    *)
(***************************************************************************)
EXTENDS Integers

CONSTANTS
  Services,   \* all services
  Processes,  \* <<the services of a process, the faulty ones among them>>
  MaxStarts,  \* bound: how often each service is started
  MaxWaits,   \* bound: the STOP_PENDING reports of a SvcDoRun that waits
  MaxRaises   \* bound: how often an object's SvcStop raises as it reports

ASSUME HostAssumption ==
  /\ Processes \subseteq (SUBSET Services) \X (SUBSET Services)
  /\ MaxStarts \in Nat \ {0} /\ MaxWaits \in Nat /\ MaxRaises \in Nat

Starts == 1 .. MaxStarts   \* a start of a service and the object it creates

VARIABLES
  hosted,   \* the services of this process
  faulty,   \* those whose class may fail to start, or end unasked
  scm,      \* SCM: the status of each service
  checks,   \* SCM: the checkpoint of that status
  starts,   \* SCM: how often each service was started
  open,     \* SCM: the start whose status handle is valid, or 0
  refused,  \* SCM: it refused the handler that was registered last
  ssh,      \* sshStatusHandle of the table entry: the start it is from, or 0
  handler,  \* obServiceCtrlHandler: the object it is bound to, or 0
  pc,       \* service_main of each service
  objSsh,   \* self.ssh of each service object: 0 if it did not register
  objCheck, \* self.checkPoint of each service object
  stopEv,   \* the event on which the object's SvcDoRun waits
  waits,    \* the reports of the running SvcDoRun
  checkPoint, \* the checkpoint that the thread of service_main is about to report
  failed,   \* stopWithError
  disp      \* the control that the dispatcher delivers, or Idle

scmVars  == <<scm, checks, open, refused>>
objVars  == <<objSsh, objCheck, stopEv>>
classes  == <<hosted, faulty>>
vars == <<scm, checks, starts, open, refused, ssh, handler, pc, objSsh, objCheck, stopEv,
          waits, checkPoint, failed, disp>>

Idle == [step |-> "idle"]

Obj(s) == starts[s]

(* What creating an object of the service's class may lead to.             *)
InitOutcomes(s) ==
  {"ok"} \cup IF s \in faulty THEN {"raises", "refused", "registersAndRaises", "neglects"}
                               ELSE {}

Init ==
  /\ \E p \in Processes : hosted = p[1] /\ faulty = p[2]
  /\ scm = [s \in Services |-> "STOPPED"] /\ checks = [s \in Services |-> 0]
  /\ starts = [s \in Services |-> 0] /\ open = [s \in Services |-> 0]
  /\ refused = [s \in Services |-> FALSE]
  /\ ssh = [s \in Services |-> 0] /\ handler = [s \in Services |-> 0]
  /\ pc = [s \in Services |-> "none"]
  /\ objSsh = [s \in Services |-> [g \in Starts |-> 0]]
  /\ objCheck = [s \in Services |-> [g \in Starts |-> 0]]
  /\ stopEv = [s \in Services |-> [g \in Starts |-> FALSE]]
  /\ waits = [s \in Services |-> 0] /\ checkPoint = [s \in Services |-> 0]
  /\ failed = [s \in Services |-> FALSE]
  /\ disp = Idle

Goto(s, from, to) == pc[s] = from /\ pc' = [pc EXCEPT ![s] = to]

-----------------------------------------------------------------------------
(* The SCM.                                                                *)

(* SetServiceStatus has an effect only with the handle of a start that has *)
(* not been reported as stopped.                                           *)
SetServiceStatus(s, h, st, check) ==
  IF h # 0 /\ h = open[s]
  THEN /\ scm' = [scm EXCEPT ![s] = st]
       /\ checks' = [checks EXCEPT ![s] = check]
       /\ open' = [open EXCEPT ![s] = IF st = "STOPPED" THEN 0 ELSE @]
       /\ UNCHANGED refused
  ELSE UNCHANGED scmVars

(* The SCM starts a stopped service on a new thread: of the process that   *)
(* it had before, if another service keeps that alive.                     *)
StartService(s) ==
  /\ scm[s] = "STOPPED" /\ starts[s] < MaxStarts
  /\ \/ pc[s] = "none"
     \/ pc[s] = "done" /\ \E t \in Services : scm[t] # "STOPPED"
  /\ pc' = [pc EXCEPT ![s] = "main"]
  /\ scm' = [scm EXCEPT ![s] = "START_PENDING"]
  /\ checks' = [checks EXCEPT ![s] = 0]
  /\ starts' = [starts EXCEPT ![s] = @ + 1]
  /\ refused' = [refused EXCEPT ![s] = FALSE]
  /\ waits' = [waits EXCEPT ![s] = 0] /\ failed' = [failed EXCEPT ![s] = FALSE]
  /\ UNCHANGED <<open, ssh, handler, objVars, checkPoint, disp>>

(* When all its services have stopped StartServiceCtrlDispatcher returns,  *)
(* the process ends, and the next start is in a new one.                   *)
ProcessEnds ==
  /\ \A s \in Services : scm[s] = "STOPPED" /\ pc[s] \in {"none", "done"}
  /\ disp = Idle
  /\ \E s \in Services : pc[s] = "done"
  /\ pc' = [s \in Services |-> "none"]
  /\ ssh' = [s \in Services |-> 0] /\ handler' = [s \in Services |-> 0]
  /\ UNCHANGED <<scmVars, starts, objVars, waits, checkPoint, failed, disp>>

-----------------------------------------------------------------------------
(* service_main.                                                           *)

(* LoadPythonServiceInstance: __init__ of ServiceFramework registers       *)
(* ServiceCtrlHandlerEx with the SCM, which may refuse it; a derived class  *)
(* may fail before or after that, or neglect to register.                  *)
MutForgetHandler(s) ==
  /\ pc[s] = "main"
  /\ \/ /\ "ok" \in InitOutcomes(s) /\ Goto(s, "main", "instance")
        /\ open' = [open EXCEPT ![s] = Obj(s)]
        /\ ssh' = [ssh EXCEPT ![s] = Obj(s)]
        /\ objSsh' = [objSsh EXCEPT ![s][Obj(s)] = Obj(s)]
     \/ /\ "raises" \in InitOutcomes(s) /\ Goto(s, "main", "noInstance")
        /\ UNCHANGED <<open, ssh, objSsh>>
  /\ UNCHANGED <<scm, checks, refused, starts, handler, objCheck, stopEv, waits, checkPoint,
                 failed, disp>>
LoadInstance(s) ==
  /\ pc[s] = "main"
  /\ \/ /\ "raises" \in InitOutcomes(s) /\ Goto(s, "main", "noInstance")
        /\ UNCHANGED <<open, refused, ssh, handler, objSsh>>
     \/ /\ "neglects" \in InitOutcomes(s) /\ Goto(s, "main", "instance")
        /\ UNCHANGED <<open, refused, ssh, handler, objSsh>>
     \/ /\ "refused" \in InitOutcomes(s) /\ Goto(s, "main", "noInstance")
        /\ refused' = [refused EXCEPT ![s] = TRUE]
        /\ ssh' = [ssh EXCEPT ![s] = 0]
        /\ handler' = [handler EXCEPT ![s] = Obj(s)]
        /\ UNCHANGED <<open, objSsh>>
     \/ /\ \/ "ok" \in InitOutcomes(s) /\ Goto(s, "main", "instance")
           \/ "registersAndRaises" \in InitOutcomes(s) /\ Goto(s, "main", "noInstance")
        /\ open' = [open EXCEPT ![s] = Obj(s)]
        /\ ssh' = [ssh EXCEPT ![s] = Obj(s)]
        /\ handler' = [handler EXCEPT ![s] = Obj(s)]
        /\ objSsh' = [objSsh EXCEPT ![s][Obj(s)] = Obj(s)]
        /\ UNCHANGED refused
  /\ UNCHANGED <<scm, checks, starts, objCheck, stopEv, waits, checkPoint, failed, disp>>

(* "It should never happen": a shared process has no entry of that name.   *)
NoEntry(s) ==
  /\ s \in faulty /\ hosted # {s} /\ Goto(s, "main", "done")
  /\ UNCHANGED <<scmVars, starts, ssh, handler, objVars, waits, checkPoint, failed, disp>>

(* "We still create register the handler, thereby getting a handle, so we  *)
(* can immediately tell Windows the service is rooted."  Only when the     *)
(* entry has no handle.  The SCM may refuse that, too.                      *)
MutNoRegister(s) ==
  /\ \/ Goto(s, "noInstance", "neverStarted")
     \/ Goto(s, "instance", "starting")
  /\ UNCHANGED <<scmVars, starts, ssh, handler, objVars, waits, checkPoint, failed, disp>>
RegisterLate(s) ==
  /\ \/ Goto(s, "noInstance", "neverStarted")
     \/ Goto(s, "instance", "starting")
  /\ \/ ssh[s] # 0 /\ UNCHANGED <<open, ssh, refused>>
     \/ /\ ssh[s] = 0
        /\ open' = [open EXCEPT ![s] = Obj(s)]
        /\ ssh' = [ssh EXCEPT ![s] = Obj(s)]
        /\ refused' = [refused EXCEPT ![s] = FALSE]
     \/ /\ ssh[s] = 0 /\ s \in faulty
        /\ refused' = [refused EXCEPT ![s] = TRUE] /\ UNCHANGED <<open, ssh>>
  /\ UNCHANGED <<scm, checks, starts, handler, objVars, waits, checkPoint, failed, disp>>

NeverStarted(s) ==
  /\ Goto(s, "neverStarted", "done")
  /\ SetServiceStatus(s, ssh[s], "STOPPED", 0)
  /\ ssh' = [ssh EXCEPT ![s] = 0]
  /\ UNCHANGED <<starts, handler, objVars, waits, checkPoint, failed, disp>>

Starting(s) ==
  /\ Goto(s, "starting", "SvcRun")
  /\ SetServiceStatus(s, ssh[s], "START_PENDING", 0)
  /\ UNCHANGED <<starts, ssh, handler, objVars, waits, checkPoint, failed, disp>>

(* SvcRun begins with ReportServiceStatus(SERVICE_RUNNING), which fails in *)
(* an object that neglected to register.                                   *)
SvcRun(s) ==
  /\ pc[s] = "SvcRun"
  /\ IF objSsh[s][Obj(s)] # 0
     THEN Goto(s, "SvcRun", "SvcDoRun") /\ UNCHANGED failed
     ELSE Goto(s, "SvcRun", "cleanup") /\ failed' = [failed EXCEPT ![s] = TRUE]
  /\ SetServiceStatus(s, objSsh[s][Obj(s)], "RUNNING", 0)
  /\ UNCHANGED <<starts, ssh, handler, objVars, waits, checkPoint, disp>>

(* A checkpoint is counted first and reported later.                       *)
NextCheck(s) ==
  /\ objCheck' = [objCheck EXCEPT ![s][Obj(s)] = @ + 1]
  /\ checkPoint' = [checkPoint EXCEPT ![s] = objCheck[s][Obj(s)] + 1]

(* SvcDoRun waits for the event that SvcStop sets, then for its workers,   *)
(* and reports while it does (pipeTestService.py).                         *)
SvcDoRunReports(s) ==
  LET g == Obj(s)
  IN  \/ /\ Goto(s, "SvcDoRun", "waiting")
         /\ waits[s] < MaxWaits /\ stopEv[s][g]
         /\ NextCheck(s)
         /\ waits' = [waits EXCEPT ![s] = @ + 1]
         /\ UNCHANGED scmVars
      \/ /\ Goto(s, "waiting", "SvcDoRun")
         /\ SetServiceStatus(s, objSsh[s][g], "STOP_PENDING", checkPoint[s])
         /\ UNCHANGED <<objCheck, waits, checkPoint>>

SvcDoRunEnds(s) ==
  /\ Goto(s, "SvcDoRun", "SvcRunEnds")
  /\ stopEv[s][Obj(s)] \/ s \in faulty
  /\ UNCHANGED <<scmVars, objCheck, waits, checkPoint>>

SvcDoRun(s) ==
  /\ SvcDoRunReports(s) \/ SvcDoRunEnds(s)
  /\ UNCHANGED <<starts, ssh, handler, objSsh, stopEv, failed, disp>>

(* SvcDoRun raised: SvcRun is left without a further report.               *)
SvcDoRunRaises(s) ==
  /\ s \in faulty /\ Goto(s, "SvcDoRun", "cleanup")
  /\ failed' = [failed EXCEPT ![s] = TRUE]
  /\ UNCHANGED <<scmVars, starts, ssh, handler, objVars, waits, checkPoint, disp>>

(* "We tell the SCM the service is still stopping."                        *)
SvcRunEnds(s) ==
  /\ \/ /\ Goto(s, "SvcRunEnds", "lastReport")
        /\ NextCheck(s)
        /\ UNCHANGED scmVars
     \/ /\ Goto(s, "lastReport", "cleanup")
        /\ SetServiceStatus(s, objSsh[s][Obj(s)], "STOP_PENDING", checkPoint[s])
        /\ UNCHANGED <<objCheck, checkPoint>>
  /\ UNCHANGED <<starts, ssh, handler, objSsh, stopEv, waits, failed, disp>>

MutKeepPending(s) ==
  /\ Goto(s, "cleanup", "done")
  /\ IF failed[s] THEN UNCHANGED scmVars
     ELSE SetServiceStatus(s, ssh[s], "STOPPED", 0)
  /\ UNCHANGED <<starts, ssh, handler, objVars, waits, checkPoint, failed, disp>>
Cleanup(s) ==
  /\ Goto(s, "cleanup", "done")
  /\ SetServiceStatus(s, ssh[s], "STOPPED", 0)
  /\ UNCHANGED <<starts, ssh, handler, objVars, waits, checkPoint, failed, disp>>

-----------------------------------------------------------------------------
(* The control handler: dispatchServiceCtrl on the dispatcher thread.      *)

(* The SCM sends a control to a service that runs and accepts it: it        *)
(* refuses every control of a service that is stopping, and a starting one *)
(* is reported as accepting none.                                          *)
Deliver(s, control) ==
  /\ disp = Idle /\ scm[s] = "RUNNING"
  /\ disp' = [step |-> "call", svc |-> s, control |-> control]
  /\ UNCHANGED <<scmVars, starts, ssh, handler, pc, objVars, waits, checkPoint, failed>>

AtStep(step) == disp.step = step

(* ServiceCtrlHandlerEx of the object that is registered.  An entry that   *)
(* has none ("Python is in error") is reported as stopping.                *)
CallHandler ==
  /\ AtStep("call")
  /\ IF handler[disp.svc] # 0
     THEN /\ disp' = [step |-> disp.control, svc |-> disp.svc, obj |-> handler[disp.svc]]
          /\ UNCHANGED scmVars
     ELSE /\ disp' = Idle
          /\ SetServiceStatus(disp.svc, ssh[disp.svc], "STOP_PENDING", 0)
  /\ UNCHANGED <<starts, ssh, handler, pc, objVars, waits, checkPoint, failed>>

(* The handler of a faulty class raises, at any point: that is logged.     *)
HandlerRaises ==
  /\ disp # Idle /\ disp.step # "call" /\ disp.svc \in faulty
  /\ AtStep("report") => disp.check <= MaxRaises
  /\ disp' = Idle
  /\ UNCHANGED <<scmVars, starts, ssh, handler, pc, objVars, waits, checkPoint, failed>>

(* SvcInterrogate: "assume we are running, and everyone is happy".         *)
SvcInterrogate ==
  /\ AtStep("interrogate")
  /\ SetServiceStatus(disp.svc, objSsh[disp.svc][disp.obj], "RUNNING", 0)
  /\ disp' = Idle
  /\ UNCHANGED <<starts, ssh, handler, pc, objVars, waits, checkPoint, failed>>

(* SvcStop of a service reports that it is stopping and then wakes up      *)
(* SvcDoRun (pipeTestService.py).                                          *)
CountStop ==
  /\ AtStep("stop")
  /\ objCheck' = [objCheck EXCEPT ![disp.svc][disp.obj] = @ + 1]
  /\ disp' = [step |-> "report", svc |-> disp.svc, obj |-> disp.obj,
              check |-> objCheck[disp.svc][disp.obj] + 1]

MutSetEventFirst ==
  /\ \/ /\ CountStop
        /\ stopEv' = [stopEv EXCEPT ![disp.svc][disp.obj] = TRUE]
        /\ UNCHANGED scmVars
     \/ /\ AtStep("report") /\ disp' = Idle
        /\ SetServiceStatus(disp.svc, objSsh[disp.svc][disp.obj], "STOP_PENDING", disp.check)
        /\ UNCHANGED <<objCheck, stopEv>>
  /\ UNCHANGED <<starts, ssh, handler, pc, objSsh, waits, checkPoint, failed>>
MutForgetEvent ==
  /\ \/ CountStop /\ UNCHANGED scmVars
     \/ /\ AtStep("report") /\ disp' = Idle
        /\ SetServiceStatus(disp.svc, objSsh[disp.svc][disp.obj], "STOP_PENDING", disp.check)
        /\ UNCHANGED objCheck
  /\ UNCHANGED <<starts, ssh, handler, pc, objSsh, stopEv, waits, checkPoint, failed>>
SvcStop ==
  /\ \/ CountStop /\ UNCHANGED <<scmVars, stopEv>>
     \/ /\ AtStep("report") /\ disp' = [step |-> "event", svc |-> disp.svc, obj |-> disp.obj]
        /\ SetServiceStatus(disp.svc, objSsh[disp.svc][disp.obj], "STOP_PENDING", disp.check)
        /\ UNCHANGED <<objCheck, stopEv>>
     \/ /\ AtStep("event") /\ disp' = Idle
        /\ stopEv' = [stopEv EXCEPT ![disp.svc][disp.obj] = TRUE]
        /\ UNCHANGED <<scmVars, objCheck>>
  /\ UNCHANGED <<starts, ssh, handler, pc, objSsh, waits, checkPoint, failed>>

Dispatcher == CallHandler \/ SvcInterrogate \/ SvcStop

ServiceMain(s) ==
  \/ LoadInstance(s) \/ NoEntry(s) \/ RegisterLate(s) \/ NeverStarted(s) \/ Starting(s)
  \/ SvcRun(s) \/ SvcDoRun(s) \/ SvcRunEnds(s) \/ Cleanup(s)

Next ==
  /\ \/ \E s \in hosted : \/ StartService(s) \/ ServiceMain(s) \/ SvcDoRunRaises(s)
                           \/ Deliver(s, "stop") \/ Deliver(s, "interrogate")
     \/ Dispatcher \/ HandlerRaises
     \/ ProcessEnds
  /\ UNCHANGED classes

Spec == Init /\ [][Next]_<<classes, vars>>

(* The threads of the process run; whether a control comes is up to the    *)
(* user of the service.                                                    *)
FairSpec ==
  /\ Spec
  /\ WF_vars(Dispatcher)
  /\ \A s \in Services : WF_vars(ServiceMain(s))

-----------------------------------------------------------------------------
(* The SCM is told of the end of every service_main, whatever went wrong   *)
(* in it, unless it refused to give a handle to tell it with: a service    *)
(* with a process of its own is never left in a "zombie state"             *)
(* (PythonService.cpp:803), and in a shared process no service is whose    *)
(* class is sound.                                                         *)
NoZombie ==
  \A s \in hosted : hosted = {s} \/ s \notin faulty
    => (pc[s] = "done" => scm[s] = "STOPPED" \/ refused[s])

(* "Should have no scm handle yet" (the assertion of service_main).        *)
NoHandleYet == \A s \in Services : pc[s] = "main" => ssh[s] = 0

(* A control of a sound service acts on the service object that is running *)
(* when it acts: SvcStop never reports for, or wakes, an object of an      *)
(* earlier start.                                                          *)
ControlsCurrent ==
  disp # Idle /\ disp.svc \notin faulty =>
    /\ (IF AtStep("call") THEN handler[disp.svc] ELSE disp.obj) = starts[disp.svc]
    /\ pc[disp.svc] \notin {"done", "main"}

(* The lifecycle that the SCM expects of each service whose class is sound *)
(* (stops when it is asked to), whatever the others of its process do.     *)
Lifecycle == INSTANCE ServiceLifecycle WITH
  state      <- [s \in Services |-> IF s \in faulty THEN "STOPPED" ELSE scm[s]],
  checkpoint <- [s \in Services |-> IF s \in faulty THEN 0 ELSE checks[s]]

FollowsLifecycle == Lifecycle!Spec

(* A stop that a sound service accepts leads to a stopped service ...      *)
StopsWhenAsked ==
  \A s \in Services :
    (AtStep("stop") /\ disp.svc = s /\ s \notin faulty) ~> (scm[s] = "STOPPED")

(* ... and a start to a service that runs or is reported as stopped, under *)
(* the conditions of NoZombie, unless no handle was to be had.             *)
StartResolves ==
  \A s \in Services :
    (scm[s] = "START_PENDING" /\ (hosted = {s} \/ s \notin faulty))
      ~> (scm[s] # "START_PENDING" \/ (pc[s] = "done" /\ refused[s]))
=============================================================================
