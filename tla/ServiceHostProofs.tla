--------------------------- MODULE ServiceHostProofs ---------------------------
(* Theorems about ServiceHost, for any services, processes that host them, *)
(* starts and controls.                                                    *)
EXTENDS ServiceHost, TLAPS

States   == {"STOPPED", "START_PENDING", "RUNNING", "STOP_PENDING"}
Controls == {"stop", "interrogate"}

Stopping == {"waiting", "SvcRunEnds", "lastReport", "cleanup"}
Coming   == {"instance", "starting", "SvcRun"}
Reporting == {"SvcDoRun", "waiting", "SvcRunEnds", "lastReport"}
Failing  == {"noInstance", "neverStarted"}
Stages   == {"none", "main", "done", "SvcDoRun"} \cup Coming \cup Stopping \cup Failing

(* A control on its way: to the handler, in the handler, and in SvcStop.   *)
Calls   == [step : {"call"}, svc : Services, control : Controls]
Handled == [step : Controls \cup {"event"}, svc : Services, obj : Starts]
Stops   == [step : {"report"}, svc : Services, obj : Starts, check : Nat]

TypeOK ==
  /\ hosted \in SUBSET Services /\ faulty \in SUBSET Services
  /\ scm \in [Services -> States] /\ checks \in [Services -> Nat]
  /\ starts \in [Services -> 0 .. MaxStarts] /\ open \in [Services -> Nat]
  /\ refused \in [Services -> BOOLEAN]
  /\ ssh \in [Services -> Nat] /\ handler \in [Services -> {0} \cup Starts]
  /\ pc \in [Services -> Stages]
  /\ objSsh \in [Services -> [Starts -> Nat]] /\ objCheck \in [Services -> [Starts -> Nat]]
  /\ stopEv \in [Services -> [Starts -> BOOLEAN]]
  /\ waits \in [Services -> Nat] /\ checkPoint \in [Services -> Nat]
  /\ failed \in [Services -> BOOLEAN]
  /\ disp \in {Idle} \cup Calls \cup Handled \cup Stops

(* A service that may be sent a control has a handler; the objects of      *)
(* later starts are untouched.                                             *)
Handlers ==
  /\ \A s \in Services : pc[s] # "none" => starts[s] \in Starts
  /\ \A s \in Services : \A g \in Starts : g > starts[s] => objSsh[s][g] = 0
  /\ \A s \in Services : pc[s] = "main" => objSsh[s][starts[s]] = 0
  /\ \A s \in Services : scm[s] = "RUNNING" => handler[s] \in Starts
  /\ \A s \in Services :
       /\ pc[s] \in Coming \cup Reporting
       /\ objSsh[s][starts[s]] # 0
       => handler[s] \in Starts
  /\ disp # Idle => handler[disp.svc] \in Starts

(* The handles of a service that is alone in its process.                  *)
Alone ==
  /\ \A s \in Services \ hosted : scm[s] = "STOPPED" /\ pc[s] = "none"
  /\ disp # Idle => disp.svc \in hosted
  /\ \A s \in Services : hosted = {s} =>
    /\ pc[s] \in {"none", "done", "main"} => open[s] = 0
    /\ pc[s] = "none" => scm[s] = "STOPPED"
    /\ pc[s] = "done" => scm[s] = "STOPPED" \/ refused[s]
    /\ pc[s] \in {"none", "main"} => ssh[s] = 0
    /\ pc[s] \in {"instance", "noInstance"} => ssh[s] = open[s] /\ open[s] \in {0, starts[s]}
    /\ pc[s] \in {"neverStarted", "starting", "SvcRun", "SvcDoRun"} \cup Stopping
         => ssh[s] = open[s] /\ (open[s] = starts[s] \/ (open[s] = 0 /\ refused[s]))

(* A sound service at each stage.                                          *)
Registered(s) ==
  /\ open[s] = starts[s] /\ ssh[s] = starts[s] /\ handler[s] = starts[s]
  /\ objSsh[s][starts[s]] = starts[s]

Woken(s) == stopEv[s][starts[s]]

Controlled(s) == disp # Idle /\ disp.svc = s

Sound(s) ==
  /\ pc[s] \notin Failing
  /\ pc[s] \in {"none", "done", "main"} =>
       open[s] = 0 /\ checks[s] = 0 /\ ~ Controlled(s)
  /\ pc[s] \in {"none", "done"} => scm[s] = "STOPPED"
  /\ pc[s] = "main" => scm[s] = "START_PENDING" /\ ~ Woken(s)
  /\ pc[s] \in Coming \cup Stopping \cup {"SvcDoRun"} => Registered(s)
  /\ pc[s] \in Coming =>
       scm[s] = "START_PENDING" /\ checks[s] = 0 /\ ~ Woken(s) /\ ~ Controlled(s)
  /\ pc[s] = "SvcDoRun" /\ ~ Woken(s) =>
       IF Controlled(s) /\ AtStep("event")
       THEN scm[s] = "STOP_PENDING" /\ checks[s] <= objCheck[s][starts[s]]
       ELSE scm[s] = "RUNNING" /\ checks[s] = 0
  /\ pc[s] \in Stopping => Woken(s)
  /\ pc[s] \in Stopping \cup {"SvcDoRun"} /\ Woken(s) =>
       scm[s] = "STOP_PENDING" /\ checks[s] <= objCheck[s][starts[s]] /\ ~ Controlled(s)
  /\ pc[s] \in {"waiting", "lastReport"} =>
       checkPoint[s] = objCheck[s][starts[s]] /\ checks[s] < checkPoint[s]
  /\ Controlled(s) => AtStep("call") \/ disp.obj = starts[s]
  /\ Controlled(s) /\ AtStep("report") =>
       disp.check = objCheck[s][starts[s]] /\ disp.check > 0
  /\ \A g \in Starts : g > starts[s] => ~ stopEv[s][g]

Steady == \A s \in Services \ faulty : Sound(s)

-----------------------------------------------------------------------------
LEMMA InitTyped == Init => TypeOK /\ Handlers
  BY HostAssumption
     DEF HostAssumption, Init, TypeOK, Handlers, States, Stages, Starts, Coming,
         Reporting, Idle

USE DEF States, Stages, Coming, Reporting, Stopping, Failing, Obj, Goto, scmVars, objVars

LEMMA Put2 ==
  ASSUME NEW S, NEW R, NEW T, NEW f \in [S -> [R -> T]], NEW x \in S, NEW y, NEW v \in T
  PROVE  /\ [f EXCEPT ![x][y] = v] \in [S -> [R -> T]]
         /\ \A z \in S \ {x} : [f EXCEPT ![x][y] = v][z] = f[z]
         /\ \A z \in R : [f EXCEPT ![x][y] = v][x][z] = IF z = y THEN v ELSE f[x][z]
  OBVIOUS

LEMMA Put2TRUE ==
  ASSUME NEW S, NEW R, NEW f \in [S -> [R -> BOOLEAN]], NEW x \in S, NEW y
  PROVE  [f EXCEPT ![x][y] = TRUE] \in [S -> [R -> BOOLEAN]]
  OBVIOUS

LEMMA SetTyped ==
  ASSUME TypeOK, NEW s \in Services, NEW h, NEW st \in States, NEW check \in Nat,
         SetServiceStatus(s, h, st, check)
  PROVE  /\ scm' \in [Services -> States] /\ checks' \in [Services -> Nat]
         /\ open' \in [Services -> Nat] /\ refused' = refused
         /\ \A t \in Services : scm'[t] = scm[t] \/ (t = s /\ scm'[t] = st)
<1>1. CASE h # 0 /\ h = open[s]
  <2>1. /\ scm' = [scm EXCEPT ![s] = st] /\ checks' = [checks EXCEPT ![s] = check]
        /\ open' = [open EXCEPT ![s] = IF st = "STOPPED" THEN 0 ELSE @] /\ refused' = refused
    BY <1>1 DEF SetServiceStatus
  <2>2. scm \in [Services -> States] /\ checks \in [Services -> Nat] /\ open \in [Services -> Nat]
    BY DEF TypeOK
  <2> QED  BY <2>1, <2>2
<1>2. CASE ~ (h # 0 /\ h = open[s])
  BY <1>2 DEF SetServiceStatus, TypeOK
<1> QED  BY <1>1, <1>2

(* The control that is on its way, by the step that it has reached.        *)
LEMMA Dispatched ==
  ASSUME TypeOK
  PROVE  /\ AtStep("call") => disp \in Calls
         /\ AtStep("interrogate") \/ AtStep("stop") \/ AtStep("event") => disp \in Handled
         /\ AtStep("report") => disp \in Stops
         /\ disp # Idle => disp.svc \in Services
  BY DEF TypeOK, AtStep, Idle, Calls, Handled, Stops, Controls

LEMMA Counted ==
  ASSUME TypeOK, NEW s \in Services, NEW g \in Starts,
         objCheck' = [objCheck EXCEPT ![s][g] = @ + 1]
  PROVE  /\ objCheck' \in [Services -> [Starts -> Nat]]
         /\ objCheck[s][g] \in Nat
         /\ objCheck'[s][g] = objCheck[s][g] + 1
         /\ \A t \in Services \ {s} : objCheck'[t] = objCheck[t]
<1>1. objCheck \in [Services -> [Starts -> Nat]]
  BY DEF TypeOK
<1>2. objCheck[s][g] + 1 \in Nat /\ objCheck' = [objCheck EXCEPT ![s][g] = objCheck[s][g] + 1]
  BY <1>1
<1>3. objCheck' \in [Services -> [Starts -> Nat]]
  BY <1>1, <1>2, Put2
<1>4. \A z \in Services \ {s} : objCheck'[z] = objCheck[z]
  BY <1>1, <1>2
<1>5. objCheck'[s][g] = objCheck[s][g] + 1
  BY <1>1, <1>2
<1> QED  BY <1>1, <1>3, <1>4, <1>5

LEMMA TypeStep == TypeOK /\ Handlers /\ [Next]_<<classes, vars>> => TypeOK'
<1> SUFFICES ASSUME TypeOK, Handlers, [Next]_<<classes, vars>> PROVE TypeOK'
  OBVIOUS
<1> USE HostAssumption DEF HostAssumption, TypeOK
<1>0. CASE UNCHANGED <<classes, vars>>
  BY <1>0 DEF classes, vars
<1>1. ASSUME NEW s \in hosted, UNCHANGED classes,
             \/ StartService(s) \/ ServiceMain(s) \/ SvcDoRunRaises(s)
             \/ Deliver(s, "stop") \/ Deliver(s, "interrogate")
      PROVE  TypeOK'
  <2>0. s \in Services /\ starts[s] \in 0 .. MaxStarts
    OBVIOUS
  <2>1. CASE StartService(s)
    BY <1>1, <2>0, <2>1 DEF StartService, classes
  <2>2. CASE LoadInstance(s)
    <3>1. starts[s] \in Starts /\ starts[s] \in Nat
      BY <2>2 DEF LoadInstance, Handlers, Starts
    <3>2. objSsh' \in [Services -> [Starts -> Nat]]
      <4>1. CASE objSsh' = objSsh
        BY <4>1
      <4>2. CASE objSsh' = [objSsh EXCEPT ![s][starts[s]] = starts[s]]
        BY <2>0, <3>1, <4>2, Put2
      <4> QED  BY <2>2, <4>1, <4>2 DEF LoadInstance
    <3>3. pc' \in [Services -> Stages]
      BY <2>0, <2>2 DEF LoadInstance
    <3>4. open' \in [Services -> Nat] /\ ssh' \in [Services -> Nat]
      <4>1. /\ open' = open \/ open' = [open EXCEPT ![s] = starts[s]]
            /\ \/ ssh' = ssh \/ ssh' = [ssh EXCEPT ![s] = 0]
               \/ ssh' = [ssh EXCEPT ![s] = starts[s]]
        BY <2>2 DEF LoadInstance
      <4>2. open' \in [Services -> Nat]
        BY <2>0, <3>1, <4>1
      <4>3. ssh \in [Services -> Nat] /\ 0 \in Nat
        OBVIOUS
      <4>4. ssh' \in [Services -> Nat]
        <5>1. CASE ssh' = ssh
          BY <4>3, <5>1
        <5>2. CASE ssh' = [ssh EXCEPT ![s] = 0]
          BY <2>0, <4>3, <5>2
        <5>3. CASE ssh' = [ssh EXCEPT ![s] = starts[s]]
          BY <2>0, <3>1, <4>3, <5>3
        <5> QED  BY <4>1, <5>1, <5>2, <5>3
      <4> QED  BY <4>2, <4>4
    <3>5. handler' \in [Services -> {0} \cup Starts]
      BY <2>0, <2>2, <3>1 DEF LoadInstance
    <3>6. refused' \in [Services -> BOOLEAN]
      BY <2>0, <2>2 DEF LoadInstance
    <3> QED
      BY <1>1, <2>2, <3>2, <3>3, <3>4, <3>5, <3>6 DEF LoadInstance, classes
  <2>3. CASE RegisterLate(s)
    <3>1. starts[s] \in Nat
      BY <2>0
    <3>2. refused' \in [Services -> BOOLEAN]
      BY <2>0, <2>3 DEF RegisterLate
    <3>3. open' \in [Services -> Nat] /\ ssh' \in [Services -> Nat]
      BY <2>0, <2>3, <3>1 DEF RegisterLate
    <3>4. pc' \in [Services -> Stages]
      BY <2>0, <2>3 DEF RegisterLate
    <3> QED
      BY <1>1, <2>3, <3>2, <3>3, <3>4 DEF RegisterLate, classes
  <2>3a. CASE NoEntry(s)
    BY <1>1, <2>0, <2>3a DEF NoEntry, classes
  <2>4. CASE NeverStarted(s)
    <3>1. pc' \in [Services -> Stages] /\ ssh' \in [Services -> Nat]
      BY <2>0, <2>4 DEF NeverStarted
    <3>2. scm' \in [Services -> States] /\ checks' \in [Services -> Nat]
          /\ open' \in [Services -> Nat] /\ refused' = refused
      BY <2>0, <2>4, SetTyped DEF NeverStarted
    <3> QED  BY <1>1, <2>4, <3>1, <3>2 DEF NeverStarted, classes
  <2>5. CASE Starting(s)
    <3>1. pc' \in [Services -> Stages]
      BY <2>0, <2>5 DEF Starting
    <3>2. scm' \in [Services -> States] /\ checks' \in [Services -> Nat]
          /\ open' \in [Services -> Nat] /\ refused' = refused
      BY <2>0, <2>5, SetTyped DEF Starting
    <3> QED  BY <1>1, <2>5, <3>1, <3>2 DEF Starting, classes
  <2>6. CASE SvcRun(s)
    <3>1. scm' \in [Services -> States] /\ checks' \in [Services -> Nat]
          /\ open' \in [Services -> Nat] /\ refused' = refused
      BY <2>0, <2>6, SetTyped DEF SvcRun
    <3> QED
      BY <1>1, <2>0, <2>6, <3>1 DEF SvcRun, classes
  <2>7. CASE SvcDoRun(s)
    <3>1. CASE SvcDoRunReports(s)
      <4>1. CASE pc[s] = "SvcDoRun"
        <5>1. NextCheck(s) /\ starts[s] \in Starts
          BY <2>0, <3>1, <4>1 DEF SvcDoRunReports, Handlers
        <5>2. objCheck' \in [Services -> [Starts -> Nat]] /\ objCheck[s][starts[s]] \in Nat
          BY <2>0, <5>1, Counted DEF NextCheck
        <5> QED
          <6>1. /\ pc' = [pc EXCEPT ![s] = "waiting"] /\ waits' = [waits EXCEPT ![s] = @ + 1]
                /\ UNCHANGED scmVars
            BY <3>1, <4>1 DEF SvcDoRunReports
          <6>2. pc' \in [Services -> Stages] /\ waits' \in [Services -> Nat]
            BY <2>0, <6>1
          <6>3. checkPoint' \in [Services -> Nat]
            BY <2>0, <5>1, <5>2 DEF NextCheck
          <6> QED  BY <1>1, <2>7, <5>2, <6>1, <6>2, <6>3 DEF SvcDoRun, classes
      <4>2. CASE pc[s] = "waiting"
        <5>1. /\ pc' = [pc EXCEPT ![s] = "SvcDoRun"] /\ UNCHANGED <<objCheck, waits, checkPoint>>
              /\ SetServiceStatus(s, objSsh[s][Obj(s)], "STOP_PENDING", checkPoint[s])
          BY <3>1, <4>2 DEF SvcDoRunReports
        <5>2. scm' \in [Services -> States] /\ checks' \in [Services -> Nat]
          /\ open' \in [Services -> Nat] /\ refused' = refused
          BY <2>0, <5>1, SetTyped
        <5> QED
          BY <1>1, <2>0, <2>7, <5>1, <5>2 DEF SvcDoRun, classes
      <4> QED  BY <3>1, <4>1, <4>2 DEF SvcDoRunReports
    <3>2. CASE SvcDoRunEnds(s)
      BY <1>1, <2>0, <2>7, <3>2 DEF SvcDoRun, SvcDoRunEnds, classes
    <3> QED  BY <2>7, <3>1, <3>2 DEF SvcDoRun
  <2>8. CASE SvcRunEnds(s)
    <3>1. CASE pc[s] = "SvcRunEnds"
      <4>1. NextCheck(s) /\ starts[s] \in Starts
        BY <2>0, <2>8, <3>1 DEF SvcRunEnds, Handlers
      <4>2. objCheck' \in [Services -> [Starts -> Nat]] /\ objCheck[s][starts[s]] \in Nat
        BY <2>0, <4>1, Counted DEF NextCheck
      <4> QED
        <5>1. pc' = [pc EXCEPT ![s] = "lastReport"] /\ UNCHANGED scmVars
          BY <2>8, <3>1 DEF SvcRunEnds
        <5>2. pc' \in [Services -> Stages] /\ checkPoint' \in [Services -> Nat]
          BY <2>0, <4>1, <4>2, <5>1 DEF NextCheck
        <5> QED  BY <1>1, <2>8, <4>2, <5>1, <5>2 DEF SvcRunEnds, classes
    <3>2. CASE pc[s] = "lastReport"
      <4>1. /\ pc' = [pc EXCEPT ![s] = "cleanup"] /\ UNCHANGED <<objCheck, checkPoint>>
            /\ SetServiceStatus(s, objSsh[s][Obj(s)], "STOP_PENDING", checkPoint[s])
        BY <2>8, <3>2 DEF SvcRunEnds
      <4>2. scm' \in [Services -> States] /\ checks' \in [Services -> Nat]
          /\ open' \in [Services -> Nat] /\ refused' = refused
        BY <2>0, <4>1, SetTyped
      <4> QED  BY <1>1, <2>0, <2>8, <4>1, <4>2 DEF SvcRunEnds, classes
    <3> QED  BY <2>8, <3>1, <3>2 DEF SvcRunEnds
  <2>9. CASE Cleanup(s)
    <3>1. pc' \in [Services -> Stages]
      BY <2>0, <2>9 DEF Cleanup
    <3>2. scm' \in [Services -> States] /\ checks' \in [Services -> Nat]
          /\ open' \in [Services -> Nat] /\ refused' = refused
      BY <2>0, <2>9, SetTyped DEF Cleanup
    <3> QED  BY <1>1, <2>9, <3>1, <3>2 DEF Cleanup, classes
  <2>10. CASE SvcDoRunRaises(s)
    BY <1>1, <2>0, <2>10 DEF SvcDoRunRaises, classes
  <2>11. CASE Deliver(s, "stop") \/ Deliver(s, "interrogate")
    BY <1>1, <2>0, <2>11 DEF Deliver, classes, Calls, Controls
  <2> QED
    BY <1>1, <2>1, <2>2, <2>3, <2>3a, <2>4, <2>5, <2>6, <2>7, <2>8, <2>9, <2>10, <2>11
       DEF ServiceMain
<1>2. CASE CallHandler /\ UNCHANGED classes
  <2>1. disp \in Calls /\ handler[disp.svc] \in Starts
    BY <1>2, Dispatched DEF CallHandler, AtStep, Handlers, Idle, Calls
  <2>2. disp' \in Handled /\ UNCHANGED scmVars
    BY <1>2, <2>1, HostAssumption
       DEF CallHandler, Calls, Handled, Controls, Starts, HostAssumption
  <2> QED
    BY <1>2, <2>2 DEF CallHandler, classes
<1>3. CASE SvcInterrogate /\ UNCHANGED classes
  <2>1. disp \in Handled /\ disp.svc \in Services
    BY <1>3, Dispatched DEF SvcInterrogate, Handled
  <2> QED
    BY <1>3, <2>1, SetTyped DEF SvcInterrogate, classes
<1>4. CASE SvcStop /\ UNCHANGED classes
  <2>1. CASE CountStop /\ UNCHANGED <<scmVars, stopEv>>
    <3>1. disp.svc \in Services /\ disp.obj \in Starts
      BY <2>1, Dispatched DEF CountStop, Handled
    <3>2. starts[disp.svc] \in Nat
      BY <3>1
    <3>3. objCheck' \in [Services -> [Starts -> Nat]] /\ objCheck[disp.svc][disp.obj] \in Nat
      BY <2>1, <3>1, Counted DEF CountStop
    <3>4. disp' \in Stops
      BY <2>1, <3>1, <3>3 DEF CountStop, Stops
    <3> QED
      BY <1>4, <2>1, <3>3, <3>4 DEF SvcStop, classes
  <2>2. CASE AtStep("report") /\ disp' = [step |-> "event", svc |-> disp.svc, obj |-> disp.obj]
             /\ SetServiceStatus(disp.svc, objSsh[disp.svc][disp.obj], "STOP_PENDING", disp.check)
             /\ UNCHANGED <<objCheck, stopEv>>
    <3>1. disp.svc \in Services /\ disp.obj \in Starts /\ disp.check \in Nat
      BY <2>2, Dispatched DEF Stops
    <3>2. disp' \in Handled
      BY <2>2, <3>1 DEF Handled
    <3>3. scm' \in [Services -> States] /\ checks' \in [Services -> Nat]
          /\ open' \in [Services -> Nat] /\ refused' = refused
      BY <2>2, <3>1, SetTyped
    <3> QED
      BY <1>4, <2>2, <3>2, <3>3 DEF SvcStop, classes
  <2>3. CASE AtStep("event") /\ disp' = Idle
             /\ stopEv' = [stopEv EXCEPT ![disp.svc][disp.obj] = TRUE]
             /\ UNCHANGED <<scmVars, objCheck>>
    <3>1. disp.svc \in Services /\ disp.obj \in Starts
      BY <2>3, Dispatched DEF Handled
    <3>2. stopEv' \in [Services -> [Starts -> BOOLEAN]]
      BY <2>3, <3>1, Put2TRUE
    <3> QED
      BY <1>4, <2>3, <3>2 DEF SvcStop, classes
  <2> QED  BY <1>4, <2>1, <2>2, <2>3 DEF SvcStop
<1>5. CASE ProcessEnds /\ UNCHANGED classes
  BY <1>5 DEF ProcessEnds, classes
<1>6. CASE HandlerRaises /\ UNCHANGED classes
  BY <1>6 DEF HandlerRaises, classes
<1> QED
  BY <1>0, <1>1, <1>2, <1>3, <1>4, <1>5, <1>6 DEF Next, Dispatcher

LEMMA HandlersStep == TypeOK /\ Handlers /\ [Next]_<<classes, vars>> => Handlers'
<1> SUFFICES ASSUME TypeOK, Handlers, [Next]_<<classes, vars>> PROVE Handlers'
  OBVIOUS
<1>a. /\ scm \in [Services -> States] /\ pc \in [Services -> Stages]
      /\ starts \in [Services -> 0 .. MaxStarts] /\ handler \in [Services -> {0} \cup Starts]
      /\ objSsh \in [Services -> [Starts -> Nat]] /\ hosted \subseteq Services
      /\ \A s \in Services : starts[s] \in Nat
  BY DEF TypeOK
<1>b. MaxStarts \in Nat /\ Starts \subseteq Nat \ {0}
  BY HostAssumption DEF HostAssumption, Starts
<1>0. CASE UNCHANGED <<classes, vars>>
  BY <1>0 DEF classes, vars, Handlers
<1>1. ASSUME NEW s \in hosted, UNCHANGED classes,
             \/ StartService(s) \/ ServiceMain(s) \/ SvcDoRunRaises(s)
             \/ Deliver(s, "stop") \/ Deliver(s, "interrogate")
      PROVE  Handlers'
  <2>0. s \in Services
    BY <1>a
  <2>1. CASE StartService(s)
    <3>1. starts'[s] = starts[s] + 1 /\ starts[s] + 1 \in Starts
      BY <1>a, <1>b, <2>0, <2>1 DEF StartService, Starts
    <3>2. pc' = [pc EXCEPT ![s] = "main"] /\ scm' = [scm EXCEPT ![s] = "START_PENDING"]
          /\ starts' = [starts EXCEPT ![s] = @ + 1] /\ UNCHANGED <<handler, objSsh, disp>>
      BY <2>1 DEF StartService
    <3> QED
      BY <1>a, <1>b, <2>0, <3>1, <3>2 DEF Handlers
  <2>2. CASE LoadInstance(s)
    <3>0. pc[s] = "main" /\ UNCHANGED <<starts, scm, disp>>
      BY <2>2 DEF LoadInstance
    <3>1. starts[s] \in Starts
      BY <1>a, <2>0, <3>0 DEF Handlers
    <3>2. CASE /\ UNCHANGED <<handler, objSsh>>
               /\ pc' \in {[pc EXCEPT ![s] = "noInstance"], [pc EXCEPT ![s] = "instance"]}
      <4>1. objSsh[s][starts[s]] = 0
        BY <1>a, <1>b, <2>0, <3>0, <3>1 DEF Handlers
      <4> QED
        BY <1>a, <2>0, <3>0, <3>1, <3>2, <4>1 DEF Handlers
    <3>3. CASE /\ handler' = [handler EXCEPT ![s] = starts[s]]
               /\ objSsh' = [objSsh EXCEPT ![s][starts[s]] = starts[s]]
               /\ pc' \in {[pc EXCEPT ![s] = "noInstance"], [pc EXCEPT ![s] = "instance"]}
      BY <1>a, <1>b, <2>0, <3>0, <3>1, <3>3 DEF Handlers
    <3>4. CASE /\ handler' = [handler EXCEPT ![s] = starts[s]] /\ UNCHANGED objSsh
               /\ pc' = [pc EXCEPT ![s] = "noInstance"]
      BY <1>a, <1>b, <2>0, <3>0, <3>1, <3>4 DEF Handlers
    <3> QED
      BY <2>2, <3>2, <3>3, <3>4 DEF LoadInstance
  <2>3. CASE RegisterLate(s)
    BY <1>a, <1>b, <2>0, <2>3 DEF RegisterLate, Handlers
  <2>3a. CASE NoEntry(s)
    BY <1>a, <1>b, <2>0, <2>3a DEF NoEntry, Handlers
  <2>4. CASE NeverStarted(s)
    <3>1. /\ UNCHANGED <<starts, handler, objSsh, disp>>
          /\ UNCHANGED scm \/ scm' = [scm EXCEPT ![s] = "STOPPED"]
          /\ pc[s] = "neverStarted" /\ pc' = [pc EXCEPT ![s] = "done"]
      BY <2>4 DEF NeverStarted, SetServiceStatus
    <3> QED  BY <1>a, <1>b, <2>0, <3>1 DEF Handlers
  <2>5. CASE Starting(s)
    <3>1. /\ UNCHANGED <<starts, handler, objSsh, disp>>
          /\ UNCHANGED scm \/ scm' = [scm EXCEPT ![s] = "START_PENDING"]
          /\ pc[s] = "starting" /\ pc' = [pc EXCEPT ![s] = "SvcRun"]
      BY <2>5 DEF Starting, SetServiceStatus
    <3> QED  BY <1>a, <1>b, <2>0, <3>1 DEF Handlers
  <2>6. CASE SvcRun(s)
    <3>1. UNCHANGED <<starts, handler, objSsh, disp>> /\ pc[s] = "SvcRun"
      BY <2>6 DEF SvcRun
    <3>2. CASE objSsh[s][starts[s]] # 0
      <4>1. /\ UNCHANGED scm \/ scm' = [scm EXCEPT ![s] = "RUNNING"]
            /\ pc' = [pc EXCEPT ![s] = "SvcDoRun"]
        BY <2>6, <3>2 DEF SvcRun, SetServiceStatus
      <4> QED  BY <1>a, <1>b, <2>0, <3>1, <3>2, <4>1 DEF Handlers
    <3>3. CASE objSsh[s][starts[s]] = 0
      <4>1. UNCHANGED scm /\ pc' = [pc EXCEPT ![s] = "cleanup"]
        BY <2>6, <3>3 DEF SvcRun, SetServiceStatus
      <4> QED  BY <1>a, <1>b, <2>0, <3>1, <4>1 DEF Handlers
    <3> QED  BY <3>2, <3>3
  <2>7. CASE SvcDoRun(s)
    <3>1. /\ UNCHANGED <<starts, handler, objSsh, disp>>
          /\ UNCHANGED scm \/ scm' = [scm EXCEPT ![s] = "STOP_PENDING"]
          /\ pc[s] \in Reporting
          /\ \E x \in Reporting : pc' = [pc EXCEPT ![s] = x]
      BY <2>7 DEF SvcDoRun, SvcDoRunEnds, SvcDoRunReports, SetServiceStatus
    <3> QED  BY <1>a, <1>b, <2>0, <3>1 DEF Handlers
  <2>8. CASE SvcRunEnds(s)
    <3>1. /\ UNCHANGED <<starts, handler, objSsh, disp>>
          /\ UNCHANGED scm \/ scm' = [scm EXCEPT ![s] = "STOP_PENDING"]
          /\ pc[s] \in Reporting
          /\ \E x \in Reporting \cup {"cleanup"} : pc' = [pc EXCEPT ![s] = x]
      BY <2>8 DEF SvcRunEnds, SetServiceStatus
    <3> QED  BY <1>a, <1>b, <2>0, <3>1 DEF Handlers
  <2>9. CASE Cleanup(s)
    <3>1. /\ UNCHANGED <<starts, handler, objSsh, disp>>
          /\ UNCHANGED scm \/ scm' = [scm EXCEPT ![s] = "STOPPED"]
          /\ pc[s] = "cleanup" /\ pc' = [pc EXCEPT ![s] = "done"]
      BY <2>9 DEF Cleanup, SetServiceStatus
    <3> QED  BY <1>a, <1>b, <2>0, <3>1 DEF Handlers
  <2>10. CASE SvcDoRunRaises(s)
    BY <1>a, <1>b, <2>0, <2>10 DEF SvcDoRunRaises, Handlers
  <2>11. CASE Deliver(s, "stop") \/ Deliver(s, "interrogate")
    BY <1>a, <1>b, <2>0, <2>11 DEF Deliver, Handlers
  <2> QED
    BY <1>1, <2>1, <2>2, <2>3, <2>3a, <2>4, <2>5, <2>6, <2>7, <2>8, <2>9, <2>10, <2>11
       DEF ServiceMain
<1>2. CASE CallHandler
  <2>1. disp # Idle /\ disp.svc \in Services /\ handler[disp.svc] \in Starts
    BY <1>2, Dispatched DEF CallHandler, Handlers, AtStep, Idle
  <2>2. handler[disp.svc] # 0
    BY <1>b, <2>1
  <2>3. /\ UNCHANGED <<scm, starts, handler, objSsh, pc>> /\ disp'.svc = disp.svc
    BY <1>2, <2>2 DEF CallHandler
  <2> QED  BY <2>1, <2>3 DEF Handlers
<1>3. CASE SvcInterrogate
  <2>1. disp.svc \in Services /\ handler[disp.svc] \in Starts
    BY <1>3, Dispatched DEF SvcInterrogate, Handlers, AtStep, Idle
  <2>2. /\ UNCHANGED <<starts, handler, objSsh, pc>> /\ disp' = Idle
        /\ UNCHANGED scm \/ scm' = [scm EXCEPT ![disp.svc] = "RUNNING"]
    BY <1>3 DEF SvcInterrogate, SetServiceStatus
  <2> QED  BY <1>a, <1>b, <2>1, <2>2 DEF Handlers
<1>4. CASE SvcStop
  <2>1. disp.svc \in Services /\ handler[disp.svc] \in Starts
    BY <1>4, Dispatched DEF SvcStop, CountStop, Handlers, AtStep, Idle
  <2>2. /\ UNCHANGED <<starts, handler, objSsh, pc>>
        /\ UNCHANGED scm \/ scm' = [scm EXCEPT ![disp.svc] = "STOP_PENDING"]
        /\ disp' = Idle \/ disp'.svc = disp.svc
    BY <1>4 DEF SvcStop, CountStop, SetServiceStatus
  <2> QED  BY <1>a, <1>b, <2>1, <2>2 DEF Handlers
<1>5. CASE ProcessEnds
  BY <1>5, <1>a, <1>b DEF ProcessEnds, Handlers
<1>6. CASE HandlerRaises
  BY <1>6 DEF HandlerRaises, Handlers
<1> QED
  BY <1>0, <1>1, <1>2, <1>3, <1>4, <1>5, <1>6 DEF Next, Dispatcher

LEMMA AloneStep == TypeOK /\ Handlers /\ Alone /\ [Next]_<<classes, vars>> => Alone'
<1> SUFFICES ASSUME TypeOK, Handlers, Alone, [Next]_<<classes, vars>> PROVE Alone'
  OBVIOUS
<1>a. /\ scm \in [Services -> States] /\ pc \in [Services -> Stages]
      /\ starts \in [Services -> 0 .. MaxStarts] /\ ssh \in [Services -> Nat]
      /\ open \in [Services -> Nat] /\ hosted \subseteq Services
      /\ refused \in [Services -> BOOLEAN]
      /\ \A s \in Services : starts[s] \in Nat
  BY DEF TypeOK
<1>b. \A s \in Services : pc[s] # "none" => starts[s] # 0
  BY HostAssumption DEF HostAssumption, Handlers, Starts
<1>0. CASE UNCHANGED <<classes, vars>>
  BY <1>0 DEF classes, vars, Alone
<1>1. ASSUME NEW s \in hosted, UNCHANGED classes,
             \/ StartService(s) \/ ServiceMain(s) \/ SvcDoRunRaises(s)
             \/ Deliver(s, "stop") \/ Deliver(s, "interrogate")
      PROVE  Alone'
  <2>0. s \in Services /\ UNCHANGED <<hosted, faulty>>
    BY <1>1, <1>a DEF classes
  <2>1. CASE StartService(s)
    <3>1. hosted = {s} => pc[s] = "none"
      BY <1>a, <2>0, <2>1 DEF StartService, Alone
    <3>2. /\ pc' = [pc EXCEPT ![s] = "main"] /\ scm' = [scm EXCEPT ![s] = "START_PENDING"]
          /\ starts' = [starts EXCEPT ![s] = @ + 1] /\ UNCHANGED <<open, ssh, disp>>
          /\ \A t \in Services \ {s} : refused'[t] = refused[t]
      BY <1>a, <2>1 DEF StartService
    <3> QED
      BY <1>a, <1>1, <2>0, <3>1, <3>2 DEF Alone
  <2>2. CASE LoadInstance(s)
    <3>1. /\ pc[s] = "main" /\ UNCHANGED <<starts, scm, disp>>
          /\ pc' \in {[pc EXCEPT ![s] = "noInstance"], [pc EXCEPT ![s] = "instance"]}
          /\ \/ UNCHANGED <<open, ssh>>
             \/ UNCHANGED open /\ ssh' = [ssh EXCEPT ![s] = 0]
             \/ open' = [open EXCEPT ![s] = starts[s]] /\ ssh' = [ssh EXCEPT ![s] = starts[s]]
      BY <2>2 DEF LoadInstance
    <3>2. \A t \in Services \ {s} : refused'[t] = refused[t]
      BY <1>a, <2>2 DEF LoadInstance
    <3> QED
      BY <1>a, <1>1, <2>0, <3>1, <3>2 DEF Alone
  <2>3. CASE RegisterLate(s)
    <3>1. /\ UNCHANGED <<starts, scm, disp>>
          /\ \/ pc[s] = "noInstance" /\ pc' = [pc EXCEPT ![s] = "neverStarted"]
             \/ pc[s] = "instance" /\ pc' = [pc EXCEPT ![s] = "starting"]
          /\ \/ open' = [open EXCEPT ![s] = starts[s]] /\ ssh' = [ssh EXCEPT ![s] = starts[s]]
             \/ ssh[s] # 0 /\ UNCHANGED <<open, ssh, refused>>
             \/ refused' = [refused EXCEPT ![s] = TRUE] /\ UNCHANGED <<open, ssh>>
          /\ \A t \in Services \ {s} : refused'[t] = refused[t]
      BY <1>a, <2>3 DEF RegisterLate
    <3> QED
      BY <1>a, <1>1, <2>0, <3>1 DEF Alone
  <2>3a. CASE NoEntry(s)
    <3>1. /\ hosted # {s} /\ UNCHANGED <<starts, scm, open, refused, ssh, disp>>
          /\ pc' = [pc EXCEPT ![s] = "done"]
      BY <2>3a DEF NoEntry
    <3> QED
      BY <1>a, <1>1, <2>0, <3>1 DEF Alone
  <2>4. CASE NeverStarted(s)
    <3>1. /\ pc[s] = "neverStarted" /\ pc' = [pc EXCEPT ![s] = "done"]
          /\ UNCHANGED <<starts, refused, disp>> /\ ssh' = [ssh EXCEPT ![s] = 0]
          /\ IF ssh[s] # 0 /\ ssh[s] = open[s]
             THEN scm' = [scm EXCEPT ![s] = "STOPPED"] /\ open' = [open EXCEPT ![s] = 0]
             ELSE UNCHANGED <<scm, open>>
      BY <2>4 DEF NeverStarted, SetServiceStatus
    <3> QED
      BY <1>a, <1>b, <1>1, <2>0, <3>1 DEF Alone
  <2>5. CASE Starting(s) \/ SvcRun(s) \/ SvcDoRun(s) \/ SvcRunEnds(s) \/ SvcDoRunRaises(s)
    <3>1. /\ pc[s] \in {"starting", "SvcRun", "SvcDoRun"} \cup Stopping
          /\ \E x \in {"SvcRun", "SvcDoRun"} \cup Stopping : pc' = [pc EXCEPT ![s] = x]
          /\ UNCHANGED <<starts, refused, ssh, disp>>
      BY <2>5
         DEF Starting, SvcRun, SvcDoRun, SvcDoRunReports, SvcDoRunEnds, SvcRunEnds,
             SvcDoRunRaises, SetServiceStatus
    <3>2. \/ UNCHANGED <<scm, open>>
          \/ /\ open' = [open EXCEPT ![s] = open[s]]
             /\ \E st \in States : scm' = [scm EXCEPT ![s] = st]
      <4>1. CASE Starting(s)
        BY <4>1 DEF Starting, SetServiceStatus
      <4>2. CASE SvcRun(s)
        BY <4>2 DEF SvcRun, SetServiceStatus
      <4>3. CASE SvcDoRun(s)
        BY <4>3 DEF SvcDoRun, SvcDoRunReports, SvcDoRunEnds, SetServiceStatus
      <4>4. CASE SvcRunEnds(s)
        BY <4>4 DEF SvcRunEnds, SetServiceStatus
      <4>5. CASE SvcDoRunRaises(s)
        BY <4>5 DEF SvcDoRunRaises
      <4> QED  BY <2>5, <4>1, <4>2, <4>3, <4>4, <4>5
    <3> QED
      BY <1>a, <1>1, <2>0, <3>1, <3>2 DEF Alone
  <2>9. CASE Cleanup(s)
    <3>1. /\ pc[s] = "cleanup" /\ pc' = [pc EXCEPT ![s] = "done"]
          /\ UNCHANGED <<starts, refused, ssh, disp>>
          /\ IF ssh[s] # 0 /\ ssh[s] = open[s]
             THEN scm' = [scm EXCEPT ![s] = "STOPPED"] /\ open' = [open EXCEPT ![s] = 0]
             ELSE UNCHANGED <<scm, open>>
      BY <2>9 DEF Cleanup, SetServiceStatus
    <3> QED
      BY <1>a, <1>b, <1>1, <2>0, <3>1 DEF Alone
  <2>11. CASE Deliver(s, "stop") \/ Deliver(s, "interrogate")
    BY <1>1, <2>0, <2>11 DEF Deliver, Alone
  <2> QED  BY <1>1, <2>1, <2>2, <2>3, <2>3a, <2>4, <2>5, <2>9, <2>11 DEF ServiceMain
<1>2. CASE (CallHandler \/ SvcInterrogate \/ SvcStop) /\ UNCHANGED classes
  <2>1. disp # Idle /\ disp.svc \in Services
    BY <1>2, Dispatched
       DEF CallHandler, SvcInterrogate, SvcStop, CountStop, AtStep, Idle
  <2>2. /\ UNCHANGED <<starts, refused, ssh, pc, hosted, faulty>>
        /\ disp' = Idle \/ disp'.svc = disp.svc
    BY <1>2 DEF CallHandler, SvcInterrogate, SvcStop, CountStop, SetServiceStatus, classes
  <2>3. \/ UNCHANGED <<scm, open>>
        \/ /\ open[disp.svc] # 0 /\ open' = [open EXCEPT ![disp.svc] = open[disp.svc]]
           /\ \E st \in States : scm' = [scm EXCEPT ![disp.svc] = st]
    <3>1. CASE CallHandler
      BY <3>1 DEF CallHandler, SetServiceStatus
    <3>2. CASE SvcInterrogate
      BY <3>2 DEF SvcInterrogate, SetServiceStatus
    <3>3. CASE SvcStop
      BY <3>3 DEF SvcStop, SetServiceStatus
    <3> QED  BY <1>2, <3>1, <3>2, <3>3
  <2> QED
    BY <1>a, <2>1, <2>2, <2>3 DEF Alone
<1>5. CASE ProcessEnds /\ UNCHANGED classes
  BY <1>5, <1>a DEF ProcessEnds, Alone, classes, Idle
<1>6. CASE HandlerRaises /\ UNCHANGED classes
  BY <1>6 DEF HandlerRaises, Alone, classes
<1> QED
  BY <1>0, <1>1, <1>2, <1>5, <1>6 DEF Next, Dispatcher

(* A step that leaves everything of a service alone keeps it sound.        *)
Same(t) ==
  /\ scm'[t] = scm[t] /\ checks'[t] = checks[t] /\ open'[t] = open[t]
  /\ ssh'[t] = ssh[t] /\ handler'[t] = handler[t] /\ pc'[t] = pc[t]
  /\ starts'[t] = starts[t] /\ checkPoint'[t] = checkPoint[t]
  /\ objSsh'[t] = objSsh[t] /\ objCheck'[t] = objCheck[t] /\ stopEv'[t] = stopEv[t]

LEMMA SameIsSound ==
  ASSUME NEW t \in Services, Sound(t), Same(t),
         UNCHANGED disp \/ (~ Controlled(t) /\ ~ Controlled(t)')
  PROVE  Sound(t)'
<1>1. CASE UNCHANGED disp
  BY <1>1 DEF Sound, Same, Registered, Woken, Controlled, AtStep
<1>2. CASE ~ Controlled(t) /\ ~ Controlled(t)'
  BY <1>2 DEF Sound, Same, Registered, Woken
<1> QED  BY <1>1, <1>2

(* The threads of a service touch no other service.                        *)
LEMMA Elsewhere ==
  ASSUME TypeOK, NEW s \in Services, NEW t \in Services \ {s},
         \/ StartService(s) \/ ServiceMain(s) \/ SvcDoRunRaises(s)
  PROVE  Same(t) /\ UNCHANGED disp
<1>a. /\ scm \in [Services -> States] /\ checks \in [Services -> Nat]
      /\ open \in [Services -> Nat] /\ ssh \in [Services -> Nat]
      /\ handler \in [Services -> {0} \cup Starts] /\ pc \in [Services -> Stages]
      /\ starts \in [Services -> 0 .. MaxStarts] /\ checkPoint \in [Services -> Nat]
      /\ objSsh \in [Services -> [Starts -> Nat]] /\ objCheck \in [Services -> [Starts -> Nat]]
      /\ stopEv \in [Services -> [Starts -> BOOLEAN]]
  BY DEF TypeOK
<1>1. CASE StartService(s)
  BY <1>a, <1>1 DEF StartService, Same
<1>2. CASE LoadInstance(s)
  BY <1>a, <1>2 DEF LoadInstance, Same
<1>3. CASE RegisterLate(s)
  BY <1>a, <1>3 DEF RegisterLate, Same
<1>3a. CASE NoEntry(s)
  BY <1>a, <1>3a DEF NoEntry, Same
<1>4. CASE NeverStarted(s)
  BY <1>a, <1>4 DEF NeverStarted, SetServiceStatus, Same
<1>5. CASE Starting(s)
  BY <1>a, <1>5 DEF Starting, SetServiceStatus, Same
<1>6. CASE SvcRun(s)
  BY <1>a, <1>6 DEF SvcRun, SetServiceStatus, Same
<1>7. CASE SvcDoRun(s)
  BY <1>a, <1>7
     DEF SvcDoRun, SvcDoRunReports, SvcDoRunEnds, NextCheck, SetServiceStatus, Same
<1>8. CASE SvcRunEnds(s)
  BY <1>a, <1>8 DEF SvcRunEnds, NextCheck, SetServiceStatus, Same
<1>9. CASE Cleanup(s)
  BY <1>a, <1>9 DEF Cleanup, SetServiceStatus, Same
<1>10. CASE SvcDoRunRaises(s)
  BY <1>a, <1>10 DEF SvcDoRunRaises, Same
<1> QED
  BY <1>1, <1>2, <1>3, <1>3a, <1>4, <1>5, <1>6, <1>7, <1>8, <1>9, <1>10 DEF ServiceMain

(* What the SCM may be told of a service: a step of ServiceLifecycle.      *)
Proceeds(s) ==
  \/ scm'[s] = scm[s] /\ checks'[s] = checks[s]
  \/ scm[s] = "STOPPED" /\ scm'[s] = "START_PENDING" /\ checks'[s] = 0
  \/ scm[s] = "START_PENDING" /\ scm'[s] = "RUNNING" /\ checks'[s] = 0
  \/ scm[s] \in {"RUNNING", "STOP_PENDING"} /\ scm'[s] = "STOP_PENDING" /\ checks'[s] > checks[s]
  \/ scm[s] # "STOPPED" /\ scm'[s] = "STOPPED" /\ checks'[s] = 0

(* A sound service that is sent a control runs and has not been woken.     *)
LEMMA SentWhileRunning ==
  ASSUME TypeOK, NEW s \in Services, Sound(s), Controlled(s) \/ scm[s] = "RUNNING"
  PROVE  pc[s] = "SvcDoRun" /\ ~ Woken(s)
<1>1. pc[s] \in Stages
  BY DEF TypeOK
<1> QED  BY <1>1 DEF Sound

LEMMA SoundStarts ==
  ASSUME TypeOK, Handlers, NEW s \in Services, Sound(s), s \notin faulty,
         \/ StartService(s) \/ LoadInstance(s) \/ NoEntry(s) \/ RegisterLate(s)
         \/ NeverStarted(s) \/ Starting(s) \/ SvcRun(s)
  PROVE  Sound(s)' /\ Proceeds(s)
<1>a. /\ scm \in [Services -> States] /\ checks \in [Services -> Nat]
      /\ open \in [Services -> Nat] /\ ssh \in [Services -> Nat]
      /\ handler \in [Services -> {0} \cup Starts] /\ pc \in [Services -> Stages]
      /\ starts \in [Services -> 0 .. MaxStarts] /\ checkPoint \in [Services -> Nat]
      /\ objSsh \in [Services -> [Starts -> Nat]] /\ objCheck \in [Services -> [Starts -> Nat]]
      /\ stopEv \in [Services -> [Starts -> BOOLEAN]] /\ starts[s] \in Nat
  BY DEF TypeOK
<1>b. Starts \subseteq Nat \ {0} /\ (pc[s] # "none" => starts[s] \in Starts)
  BY HostAssumption DEF Handlers, Starts, HostAssumption
<1>1. CASE StartService(s)
  <2>0. starts[s] + 1 \in Starts
    BY <1>1, <1>a, HostAssumption DEF StartService, HostAssumption, Starts
  <2>1. /\ pc[s] \in {"none", "done"} /\ pc'[s] = "main" /\ scm'[s] = "START_PENDING"
        /\ checks'[s] = 0 /\ starts'[s] = starts[s] + 1
        /\ starts[s] + 1 \in Starts /\ UNCHANGED <<open, stopEv, disp>>
    BY <1>1, <1>a, <2>0 DEF StartService
  <2>2. open[s] = 0 /\ scm[s] = "STOPPED" /\ ~ Controlled(s) /\ ~ stopEv[s][starts[s] + 1]
    BY <2>1, <1>a DEF Sound
  <2>3. \A g \in Starts : g > starts[s] + 1 => ~ stopEv[s][g]
    BY <1>a, <1>b DEF Sound
  <2> QED
    BY <2>1, <2>2, <2>3 DEF Sound, Woken, Controlled, Proceeds
<1>2. CASE LoadInstance(s)
  <2>1. pc[s] = "main" /\ UNCHANGED <<scm, checks, starts, objCheck, stopEv, checkPoint, disp>>
    BY <1>2 DEF LoadInstance
  <2>2. /\ pc'[s] = "instance" /\ open'[s] = starts[s] /\ ssh'[s] = starts[s]
        /\ handler'[s] = starts[s] /\ objSsh'[s][starts[s]] = starts[s]
    <3>1. InitOutcomes(s) = {"ok"}
      BY DEF InitOutcomes
    <3>2. /\ pc' = [pc EXCEPT ![s] = "instance"] /\ open' = [open EXCEPT ![s] = starts[s]]
          /\ ssh' = [ssh EXCEPT ![s] = starts[s]] /\ handler' = [handler EXCEPT ![s] = starts[s]]
          /\ objSsh' = [objSsh EXCEPT ![s][starts[s]] = starts[s]]
      BY <1>2, <3>1 DEF LoadInstance
    <3> QED  BY <1>a, <1>b, <2>1, <3>2
  <2> QED
    BY <2>1, <2>2 DEF Sound, Registered, Woken, Controlled, Proceeds
<1>3. CASE RegisterLate(s)
  <2>1. pc[s] = "instance" /\ ssh[s] # 0
    BY <1>3, <1>b DEF RegisterLate, Sound, Registered
  <2>2. /\ pc'[s] = "starting"
        /\ UNCHANGED <<scm, checks, open, ssh, handler, starts, objSsh, stopEv, disp>>
    BY <1>3, <1>a, <2>1 DEF RegisterLate
  <2> QED
    BY <2>1, <2>2 DEF Sound, Registered, Woken, Controlled, Proceeds
<1>3a. CASE NoEntry(s)
  BY <1>3a DEF NoEntry
<1>4. CASE NeverStarted(s)
  BY <1>4 DEF NeverStarted, Sound
<1>5. CASE Starting(s)
  <2>1. /\ pc[s] = "starting" /\ pc'[s] = "SvcRun"
        /\ UNCHANGED <<starts, ssh, handler, objSsh, stopEv, disp>>
    BY <1>5, <1>a DEF Starting
  <2>2. ssh[s] # 0 /\ ssh[s] = open[s]
    BY <2>1, <1>b DEF Sound, Registered
  <2>3. scm'[s] = "START_PENDING" /\ checks'[s] = 0 /\ open'[s] = open[s]
    BY <1>5, <1>a, <2>2 DEF Starting, SetServiceStatus
  <2> QED
    BY <2>1, <2>3 DEF Sound, Registered, Woken, Controlled, Proceeds
<1>6. CASE SvcRun(s)
  <2>1. pc[s] = "SvcRun" /\ UNCHANGED <<starts, ssh, handler, objSsh, stopEv, disp>>
    BY <1>6, <1>a DEF SvcRun
  <2>2. objSsh[s][starts[s]] # 0 /\ objSsh[s][starts[s]] = open[s]
    BY <2>1, <1>b DEF Sound, Registered
  <2>3. pc'[s] = "SvcDoRun" /\ scm'[s] = "RUNNING" /\ checks'[s] = 0 /\ open'[s] = open[s]
    BY <1>6, <1>a, <2>2 DEF SvcRun, SetServiceStatus
  <2> QED
    BY <2>1, <2>3 DEF Sound, Registered, Woken, Controlled, Proceeds
<1> QED  BY <1>1, <1>2, <1>3, <1>3a, <1>4, <1>5, <1>6

LEMMA SoundEnds ==
  ASSUME TypeOK, Handlers, NEW s \in Services, Sound(s), s \notin faulty,
         \/ SvcDoRun(s) \/ SvcDoRunRaises(s) \/ SvcRunEnds(s) \/ Cleanup(s)
  PROVE  Sound(s)' /\ Proceeds(s)
<1>a. /\ scm \in [Services -> States] /\ checks \in [Services -> Nat]
      /\ open \in [Services -> Nat] /\ ssh \in [Services -> Nat]
      /\ handler \in [Services -> {0} \cup Starts] /\ pc \in [Services -> Stages]
      /\ starts \in [Services -> 0 .. MaxStarts] /\ checkPoint \in [Services -> Nat]
      /\ objSsh \in [Services -> [Starts -> Nat]] /\ objCheck \in [Services -> [Starts -> Nat]]
      /\ stopEv \in [Services -> [Starts -> BOOLEAN]] /\ starts[s] \in Nat
  BY DEF TypeOK
<1>b. /\ Starts \subseteq Nat \ {0} /\ starts[s] \in Starts
      /\ pc[s] \in Reporting \cup {"cleanup"}
  <2>1. pc[s] \in Reporting \cup {"cleanup"}
    BY DEF SvcDoRun, SvcDoRunReports, SvcDoRunEnds, SvcDoRunRaises, SvcRunEnds, Cleanup
  <2> QED
    BY <2>1, HostAssumption DEF Handlers, Starts, HostAssumption
<1>c. /\ Registered(s) /\ checks[s] \in Nat /\ objCheck[s][starts[s]] \in Nat
      /\ checkPoint[s] \in Nat
  BY <1>a, <1>b DEF Sound
(* The two halves of a report: the checkpoint is counted, then told.       *)
<1>1. ASSUME NextCheck(s), pc'[s] \in {"waiting", "lastReport"}, Woken(s),
             UNCHANGED <<scmVars, starts, ssh, handler, objSsh, stopEv, disp>>
      PROVE  Sound(s)' /\ Proceeds(s)
  <2>1. objCheck'[s][starts[s]] = objCheck[s][starts[s]] + 1
    BY <1>1, <1>a, <1>b, Counted DEF NextCheck
  <2>2. checkPoint'[s] = objCheck[s][starts[s]] + 1
    BY <1>1, <1>a DEF NextCheck
  <2>3. scm[s] = "STOP_PENDING" /\ checks[s] <= objCheck[s][starts[s]] /\ ~ Controlled(s)
    BY <1>1, <1>b DEF Sound
  <2>4. /\ checks[s] < objCheck[s][starts[s]] + 1 /\ checks[s] <= objCheck[s][starts[s]] + 1
    BY <1>c, <2>3
  <2> QED
    BY <1>1, <1>c, <2>1, <2>2, <2>3, <2>4
       DEF Sound, Registered, Woken, Controlled, Proceeds
<1>2. ASSUME SetServiceStatus(s, objSsh[s][starts[s]], "STOP_PENDING", checkPoint[s]),
             pc[s] \in {"waiting", "lastReport"}, pc'[s] \in {"SvcDoRun", "cleanup"},
             UNCHANGED <<starts, ssh, handler, objSsh, objCheck, stopEv, disp>>
      PROVE  Sound(s)' /\ Proceeds(s)
  <2>1. objSsh[s][starts[s]] # 0 /\ objSsh[s][starts[s]] = open[s]
    BY <1>b, <1>c DEF Registered
  <2>2. scm'[s] = "STOP_PENDING" /\ checks'[s] = checkPoint[s] /\ open'[s] = open[s]
    BY <1>2, <1>a, <2>1 DEF SetServiceStatus
  <2>3. /\ checkPoint[s] = objCheck[s][starts[s]] /\ Woken(s) /\ ~ Controlled(s)
        /\ scm[s] = "STOP_PENDING" /\ checks[s] < checkPoint[s]
    BY <1>2 DEF Sound
  <2>4. checkPoint[s] <= objCheck[s][starts[s]] /\ checks'[s] > checks[s]
    BY <1>c, <2>2, <2>3
  <2> QED
    BY <1>2, <1>c, <2>2, <2>3, <2>4 DEF Sound, Registered, Woken, Controlled, Proceeds
<1>3. CASE SvcDoRun(s)
  <2>1. UNCHANGED <<starts, ssh, handler, objSsh, stopEv, disp>>
    BY <1>3 DEF SvcDoRun
  <2>2. CASE SvcDoRunReports(s) /\ pc[s] = "SvcDoRun"
    BY <1>1, <1>a, <2>1, <2>2 DEF SvcDoRunReports, Woken
  <2>3. CASE SvcDoRunReports(s) /\ pc[s] = "waiting"
    <3>1. /\ SetServiceStatus(s, objSsh[s][starts[s]], "STOP_PENDING", checkPoint[s])
          /\ pc'[s] = "SvcDoRun" /\ UNCHANGED objCheck
      BY <1>a, <2>3 DEF SvcDoRunReports
    <3> QED  BY <1>2, <2>1, <2>3, <3>1
  <2>4. CASE SvcDoRunEnds(s)
    <3>1. /\ pc[s] = "SvcDoRun" /\ pc'[s] = "SvcRunEnds" /\ Woken(s)
          /\ UNCHANGED <<scm, checks, open, objCheck>>
      BY <1>a, <2>4 DEF SvcDoRunEnds, Woken
    <3> QED
      BY <1>c, <2>1, <3>1 DEF Sound, Registered, Woken, Controlled, Proceeds
  <2> QED  BY <1>3, <2>2, <2>3, <2>4 DEF SvcDoRun, SvcDoRunReports
<1>4. CASE SvcDoRunRaises(s)
  BY <1>4 DEF SvcDoRunRaises
<1>5. CASE SvcRunEnds(s)
  <2>1. UNCHANGED <<starts, ssh, handler, objSsh, stopEv, disp>>
    BY <1>5 DEF SvcRunEnds
  <2>2. CASE pc[s] = "SvcRunEnds"
    <3>1. NextCheck(s) /\ pc'[s] = "lastReport" /\ UNCHANGED scmVars
      BY <1>a, <1>5, <2>2 DEF SvcRunEnds
    <3>2. Woken(s)
      BY <2>2 DEF Sound
    <3> QED  BY <1>1, <2>1, <3>1, <3>2
  <2>3. CASE pc[s] = "lastReport"
    <3>1. /\ SetServiceStatus(s, objSsh[s][starts[s]], "STOP_PENDING", checkPoint[s])
          /\ pc'[s] = "cleanup" /\ UNCHANGED objCheck
      BY <1>a, <1>5, <2>3 DEF SvcRunEnds
    <3> QED  BY <1>2, <2>1, <2>3, <3>1
  <2> QED  BY <1>5, <2>2, <2>3 DEF SvcRunEnds
<1>6. CASE Cleanup(s)
  <2>1. ssh[s] # 0 /\ ssh[s] = open[s]
    BY <1>b, <1>c DEF Registered
  <2>2. pc[s] = "cleanup" /\ pc'[s] = "done" /\ UNCHANGED <<starts, stopEv, disp>>
    BY <1>6, <1>a, <2>1 DEF Cleanup
  <2>3. scm'[s] = "STOPPED" /\ checks'[s] = 0 /\ open'[s] = 0
    BY <1>6, <1>a, <2>1 DEF Cleanup, SetServiceStatus
  <2>4. ~ Controlled(s) /\ scm[s] = "STOP_PENDING"
    BY <2>2 DEF Sound
  <2> QED
    BY <2>2, <2>3, <2>4 DEF Sound, Woken, Controlled, Proceeds
<1> QED  BY <1>3, <1>4, <1>5, <1>6

LEMMA SoundDeliver ==
  ASSUME TypeOK, NEW s \in Services, Sound(s), NEW c \in Controls, Deliver(s, c)
  PROVE  Sound(s)' /\ Proceeds(s)
<1>1. pc[s] = "SvcDoRun" /\ ~ Woken(s) /\ scm[s] = "RUNNING" /\ ~ Controlled(s)
  BY SentWhileRunning DEF Deliver, Controlled
<1>2. disp' = [step |-> "call", svc |-> s, control |-> c] /\ c # "event"
  BY DEF Deliver, Controls
<1>3. disp'.step = "call"
  BY <1>2
<1>4. UNCHANGED <<scm, checks, open, starts, ssh, handler, pc, objSsh, objCheck, stopEv, checkPoint>>
  BY DEF Deliver
<1> QED
  BY <1>1, <1>3, <1>4 DEF Sound, Registered, Woken, Controlled, AtStep, Proceeds

LEMMA SoundControlled ==
  ASSUME TypeOK, Handlers, NEW s \in Services, Controlled(s), Sound(s), Dispatcher
  PROVE  Sound(s)' /\ Proceeds(s)
<1>p. disp # Idle /\ disp.svc = s
  BY DEF Controlled
<1>a. /\ scm \in [Services -> States] /\ checks \in [Services -> Nat]
      /\ open \in [Services -> Nat]
      /\ starts \in [Services -> 0 .. MaxStarts]
      /\ objSsh \in [Services -> [Starts -> Nat]] /\ objCheck \in [Services -> [Starts -> Nat]]
      /\ stopEv \in [Services -> [Starts -> BOOLEAN]] /\ starts[s] \in Nat
  BY DEF TypeOK
<1>b. /\ Controlled(s) /\ Sound(s) /\ UNCHANGED <<starts, ssh, handler, pc, objSsh, checkPoint>>
  BY <1>p DEF Controlled, Dispatcher, CallHandler, SvcInterrogate, SvcStop
<1>c. /\ pc[s] = "SvcDoRun" /\ ~ Woken(s) /\ Registered(s) /\ starts[s] \in Starts
      /\ Starts \subseteq Nat \ {0}
  <2>1. pc[s] = "SvcDoRun" /\ ~ Woken(s)
    BY <1>b, SentWhileRunning
  <2> QED
    BY <1>b, <2>1, HostAssumption DEF Sound, Handlers, Starts, HostAssumption
<1>d. /\ objSsh[s][starts[s]] # 0 /\ objSsh[s][starts[s]] = open[s]
      /\ checks[s] \in Nat /\ objCheck[s][starts[s]] \in Nat
  BY <1>a, <1>c DEF Registered
<1>1. CASE CallHandler
  <2>0. handler[s] # 0
    BY <1>c DEF Registered
  <2>1. /\ AtStep("call") /\ UNCHANGED <<scm, checks, open, objCheck, stopEv>>
        /\ disp' = [step |-> disp.control, svc |-> s, obj |-> starts[s]]
    BY <1>1, <1>p, <1>c, <2>0 DEF CallHandler, Registered
  <2>2. disp.control \in Controls
    BY <2>1, Dispatched DEF Calls
  <2>3. disp'.step \notin {"call", "event", "report"} /\ disp'.svc = s /\ disp'.obj = starts[s]
    BY <2>1, <2>2 DEF Controls
  <2>4. scm[s] = "RUNNING" /\ checks[s] = 0
    BY <1>b, <1>c, <2>1 DEF Sound, AtStep
  <2> QED
    BY <1>b, <1>c, <2>1, <2>3, <2>4
       DEF Sound, Registered, Woken, Controlled, AtStep, Proceeds
<1>2. ASSUME ~ AtStep("call")
      PROVE  disp.obj = starts[s]
  BY <1>2, <1>b DEF Sound
<1>3. CASE SvcInterrogate
  <2>1. disp.obj = starts[s] /\ disp' = Idle /\ scm[s] = "RUNNING" /\ checks[s] = 0
    BY <1>2, <1>3, <1>b, <1>c DEF SvcInterrogate, AtStep, Sound
  <2>2. /\ UNCHANGED <<objCheck, stopEv>>
        /\ scm'[s] = "RUNNING" /\ checks'[s] = 0 /\ open'[s] = open[s]
    BY <1>3, <1>p, <1>a, <1>d, <2>1 DEF SvcInterrogate, SetServiceStatus
  <2>3. ~ Controlled(s)'
    BY <2>1 DEF Controlled
  <2> QED
    BY <1>b, <1>c, <2>1, <2>2, <2>3 DEF Sound, Registered, Woken, Proceeds
<1>4. CASE SvcStop /\ AtStep("stop")
  <2>1. disp.obj = starts[s] /\ scm[s] = "RUNNING" /\ checks[s] = 0
    BY <1>2, <1>4, <1>b, <1>c DEF AtStep, Sound
  <2>2. /\ objCheck' = [objCheck EXCEPT ![s][starts[s]] = @ + 1]
        /\ disp' = [step |-> "report", svc |-> s, obj |-> starts[s],
                    check |-> objCheck[s][starts[s]] + 1]
        /\ UNCHANGED <<scm, checks, open, stopEv>>
    BY <1>4, <1>p, <2>1 DEF SvcStop, CountStop, AtStep
  <2>3. objCheck'[s][starts[s]] = objCheck[s][starts[s]] + 1
    BY <1>a, <1>c, <2>2, Counted
  <2>4. /\ disp'.step = "report" /\ disp'.svc = s /\ disp'.obj = starts[s]
        /\ disp'.check = objCheck'[s][starts[s]] /\ disp'.check > 0
    BY <1>d, <2>2, <2>3
  <2> QED
    BY <1>b, <1>c, <2>1, <2>2, <2>4
       DEF Sound, Registered, Woken, Controlled, AtStep, Proceeds
<1>5. CASE SvcStop /\ AtStep("report")
  <2>1. /\ disp.obj = starts[s] /\ scm[s] = "RUNNING" /\ checks[s] = 0
        /\ disp.check = objCheck[s][starts[s]] /\ disp.check > 0
    BY <1>2, <1>5, <1>b, <1>c DEF AtStep, Sound
  <2>2. /\ disp' = [step |-> "event", svc |-> s, obj |-> starts[s]]
        /\ SetServiceStatus(s, objSsh[s][starts[s]], "STOP_PENDING", disp.check)
        /\ UNCHANGED <<objCheck, stopEv>>
    BY <1>5, <1>p, <2>1 DEF SvcStop, CountStop, AtStep
  <2>3. /\ scm'[s] = "STOP_PENDING" /\ checks'[s] = disp.check /\ open'[s] = open[s]
    BY <1>a, <1>d, <2>2 DEF SetServiceStatus
  <2>4. checks'[s] <= objCheck'[s][starts[s]] /\ checks'[s] > checks[s]
    BY <1>d, <2>1, <2>2, <2>3
  <2>5. disp'.step = "event" /\ disp'.svc = s /\ disp'.obj = starts[s]
    BY <2>2
  <2>6. disp' # Idle
    BY <2>5 DEF Idle
  <2> QED
    BY <1>b, <1>c, <2>1, <2>2, <2>3, <2>4, <2>5, <2>6
       DEF Sound, Registered, Woken, Controlled, AtStep, Proceeds
<1>6. CASE SvcStop /\ AtStep("event")
  <2>1. /\ disp.obj = starts[s] /\ scm[s] = "STOP_PENDING"
        /\ checks[s] <= objCheck[s][starts[s]]
    BY <1>2, <1>6, <1>b, <1>c DEF AtStep, Sound
  <2>2. /\ disp' = Idle /\ UNCHANGED <<scm, checks, open, objCheck>>
        /\ stopEv' = [stopEv EXCEPT ![s][starts[s]] = TRUE]
    BY <1>6, <1>p, <2>1 DEF SvcStop, CountStop, AtStep
  <2>3. stopEv'[s][starts[s]]
    BY <1>a, <1>c, <2>2
  <2>4. \A g \in Starts : g > starts[s] => ~ stopEv'[s][g]
    BY <1>a, <1>b, <1>c, <2>2 DEF Sound
  <2>5. ~ Controlled(s)'
    BY <2>2 DEF Controlled
  <2> QED
    BY <1>b, <1>c, <2>1, <2>2, <2>3, <2>4, <2>5 DEF Sound, Registered, Woken, Proceeds
<1> QED
  BY <1>1, <1>3, <1>4, <1>5, <1>6 DEF Dispatcher, SvcStop, CountStop

(* The end of the process.                                                 *)
LEMMA SoundProcessEnds ==
  ASSUME TypeOK, NEW s \in Services, Sound(s), ProcessEnds
  PROVE  Sound(s)' /\ Proceeds(s)
<1>1. /\ scm[s] = "STOPPED" /\ pc[s] \in {"none", "done"} /\ pc'[s] = "none"
      /\ UNCHANGED <<scm, checks, open, starts, stopEv, disp>>
  BY DEF ProcessEnds
<1> QED
  BY <1>1 DEF Sound, Woken, Controlled, Proceeds

(* The dispatcher touches only the service that it has a control for.      *)
LEMMA Undisturbed ==
  ASSUME TypeOK, Dispatcher, NEW t \in Services, disp.svc # t
  PROVE  Same(t)
<1>1. /\ scm \in [Services -> States] /\ checks \in [Services -> Nat]
      /\ open \in [Services -> Nat] /\ stopEv \in [Services -> [Starts -> BOOLEAN]]
      /\ objCheck \in [Services -> [Starts -> Nat]]
  BY DEF TypeOK
<1>2. CASE CallHandler
  BY <1>1, <1>2 DEF CallHandler, SetServiceStatus, Same
<1>3. CASE SvcInterrogate
  BY <1>1, <1>3 DEF SvcInterrogate, SetServiceStatus, Same
<1>4. CASE SvcStop
  BY <1>1, <1>4 DEF SvcStop, CountStop, SetServiceStatus, Same
<1> QED  BY <1>2, <1>3, <1>4 DEF Dispatcher

(* Every step keeps a sound service sound and the SCM's view on its way.   *)
LEMMA SoundStep ==
  ASSUME TypeOK, Handlers, Next, NEW t \in Services \ faulty, Sound(t)
  PROVE  Sound(t)' /\ Proceeds(t)
<1>a. hosted \subseteq Services
  BY DEF TypeOK
<1>0. ASSUME Same(t) PROVE Proceeds(t)
  BY <1>0 DEF Same, Proceeds
<1>1. ASSUME NEW s \in hosted, StartService(s) \/ ServiceMain(s) \/ SvcDoRunRaises(s)
      PROVE  Sound(t)' /\ Proceeds(t)
  <2>1. CASE s = t
    BY <1>1, <2>1, SoundStarts, SoundEnds DEF ServiceMain
  <2>2. CASE s # t
    BY <1>a, <1>0, <1>1, <2>2, Elsewhere, SameIsSound
  <2> QED  BY <2>1, <2>2
<1>2. ASSUME NEW s \in hosted, NEW c \in Controls, Deliver(s, c)
      PROVE  Sound(t)' /\ Proceeds(t)
  <2>1. CASE s = t
    BY <1>2, <2>1, SoundDeliver
  <2>2. CASE s # t
    <3>1. Same(t) /\ ~ Controlled(t) /\ ~ Controlled(t)'
      BY <1>2, <2>2 DEF Deliver, Same, Controlled
    <3> QED  BY <1>0, <3>1, SameIsSound
  <2> QED  BY <2>1, <2>2
<1>3. CASE Dispatcher
  <2>1. disp # Idle /\ disp.svc \in Services
    BY <1>3, Dispatched
       DEF Dispatcher, CallHandler, SvcInterrogate, SvcStop, CountStop, AtStep, Idle
  <2>2. CASE disp.svc = t
    BY <1>3, <2>1, <2>2, SoundControlled DEF Controlled
  <2>3. CASE disp.svc # t
    <3>1. ~ Controlled(t) /\ ~ Controlled(t)'
      BY <1>3, <2>1, <2>3
         DEF Controlled, Dispatcher, CallHandler, SvcInterrogate, SvcStop, CountStop
    <3>2. Same(t)
      BY <1>3, <2>3, Undisturbed
    <3> QED  BY <1>0, <3>1, <3>2, SameIsSound
  <2> QED  BY <2>2, <2>3
<1>4. CASE ProcessEnds
  BY <1>4, SoundProcessEnds
<1>5. CASE HandlerRaises
  <2>1. Same(t) /\ ~ Controlled(t) /\ ~ Controlled(t)'
    BY <1>5 DEF HandlerRaises, Same, Controlled
  <2> QED  BY <1>0, <2>1, SameIsSound
<1> QED
  BY <1>1, <1>2, <1>3, <1>4, <1>5 DEF Next, Controls

LEMMA SteadyStep ==
  TypeOK /\ Handlers /\ Steady /\ [Next]_<<classes, vars>> => Steady'
<1> SUFFICES ASSUME TypeOK, Handlers, Steady, [Next]_<<classes, vars>> PROVE Steady'
  OBVIOUS
<1>1. CASE UNCHANGED <<classes, vars>>
  BY <1>1 DEF Steady, Sound, Registered, Woken, Controlled, AtStep, classes, vars
<1>2. CASE Next
  <2>1. UNCHANGED faulty
    BY <1>2 DEF Next, classes
  <2>2. \A t \in Services \ faulty : Sound(t)'
    BY <1>2, SoundStep DEF Steady
  <2> QED  BY <2>1, <2>2 DEF Steady
<1> QED  BY <1>1, <1>2

-----------------------------------------------------------------------------
(* The inductive invariant: typing, the handlers, and the handles of a     *)
(* service alone in its process and of a sound one.                        *)
IInv == TypeOK /\ Handlers /\ Alone /\ Steady

LEMMA InitIInv == Init => IInv
<1> SUFFICES ASSUME Init PROVE IInv
  OBVIOUS
<1>1. TypeOK /\ Handlers
  BY InitTyped
<1>2. Alone
  BY <1>1 DEF Init, Alone, TypeOK
<1>3. Steady
  BY DEF Init, Steady, Sound, Woken, Controlled
<1> QED  BY <1>1, <1>2, <1>3 DEF IInv

LEMMA NextIInv == IInv /\ [Next]_<<classes, vars>> => IInv'
  BY TypeStep, HandlersStep, AloneStep, SteadyStep DEF IInv

LEMMA HostInvariant == Spec => []IInv
  BY InitIInv, NextIInv, PTL DEF Spec

(* No service is left a zombie: when service_main of a service that is     *)
(* alone in its process, or whose class is sound, has returned, the SCM    *)
(* has been told that it stopped (PythonService.cpp:803).                  *)
THEOREM NeverAZombie == Spec => []NoZombie
<1>1. IInv => NoZombie
  <2> SUFFICES ASSUME IInv, NEW s \in hosted, hosted = {s} \/ s \notin faulty
               PROVE  pc[s] = "done" => scm[s] = "STOPPED" \/ refused[s]
    BY DEF NoZombie
  <2>1. s \in Services
    BY DEF IInv, TypeOK
  <2>2. CASE hosted = {s}
    BY <2>1, <2>2 DEF IInv, Alone
  <2>3. CASE s \notin faulty
    BY <2>1, <2>3 DEF IInv, Steady, Sound
  <2> QED  BY <2>2, <2>3
<1> QED  BY <1>1, HostInvariant, PTL

(* A control of a sound service reaches the object of the start that is    *)
(* running when the handler acts, never one of an earlier start.           *)
THEOREM ControlsReachTheRunning == Spec => []ControlsCurrent
<1>1. IInv => ControlsCurrent
  <2> SUFFICES ASSUME IInv, disp # Idle, disp.svc \notin faulty
               PROVE  /\ (IF AtStep("call") THEN handler[disp.svc] ELSE disp.obj)
                          = starts[disp.svc]
                      /\ pc[disp.svc] \notin {"done", "main"}
    BY DEF ControlsCurrent
  <2>1. disp.svc \in Services \ faulty /\ Controlled(disp.svc) /\ Sound(disp.svc)
    BY Dispatched DEF IInv, Controlled, Steady
  <2>2. pc[disp.svc] = "SvcDoRun"
    BY <2>1, SentWhileRunning DEF IInv
  <2>3. Registered(disp.svc) /\ (AtStep("call") \/ disp.obj = starts[disp.svc])
    BY <2>1, <2>2 DEF Sound
  <2> QED  BY <2>2, <2>3 DEF Registered
<1> QED  BY <1>1, HostInvariant, PTL

-----------------------------------------------------------------------------
(* The refinement: what the SCM sees of the sound services.                *)
LEMMA LifecycleInit == Init => Lifecycle!Init
  BY DEF Init, Lifecycle!Init

Untold(t) == scm'[t] = scm[t] /\ checks'[t] = checks[t]

(* A step tells the SCM about one service at most.                         *)
LEMMA OneAtATime ==
  ASSUME TypeOK, Next
  PROVE  \E s \in Services : \A t \in Services \ {s} : Untold(t)
<1>1. ASSUME NEW s \in hosted, StartService(s) \/ ServiceMain(s) \/ SvcDoRunRaises(s)
      PROVE  \E u \in Services : \A t \in Services \ {u} : Untold(t)
  <2>1. s \in Services
    BY DEF TypeOK
  <2>2. \A t \in Services \ {s} : Untold(t)
    BY <1>1, <2>1, Elsewhere DEF Same, Untold
  <2> QED  BY <2>1, <2>2
<1>2. ASSUME NEW s \in hosted, NEW c \in Controls, Deliver(s, c)
      PROVE  \E u \in Services : \A t \in Services \ {u} : Untold(t)
  BY <1>2 DEF Deliver, Untold, TypeOK
<1>3. CASE Dispatcher
  <2>1. disp.svc \in Services
    BY <1>3, Dispatched
       DEF Dispatcher, CallHandler, SvcInterrogate, SvcStop, CountStop, AtStep, Idle
  <2>2. \A t \in Services \ {disp.svc} : Untold(t)
    BY <1>3, Undisturbed DEF Same, Untold
  <2> QED  BY <2>1, <2>2
<1>4. CASE ProcessEnds
  BY <1>4 DEF ProcessEnds, Untold
<1>5. CASE HandlerRaises
  <2>1. disp.svc \in Services /\ \A t \in Services \ {disp.svc} : Untold(t)
    BY <1>5, Dispatched DEF HandlerRaises, Untold
  <2> QED  BY <2>1
<1> QED
  BY <1>1, <1>2, <1>3, <1>4, <1>5 DEF Next, Controls

LEMMA LifecycleStep ==
  IInv /\ [Next]_<<classes, vars>> => [Lifecycle!Next]_(Lifecycle!vars)
<1> SUFFICES ASSUME IInv, [Next]_<<classes, vars>>
             PROVE  [Lifecycle!Next]_(Lifecycle!vars)
  OBVIOUS
<1> DEFINE st == [s \in Services |-> IF s \in faulty THEN "STOPPED" ELSE scm[s]]
           ck == [s \in Services |-> IF s \in faulty THEN 0 ELSE checks[s]]
<1>1. CASE UNCHANGED <<classes, vars>>
  BY <1>1 DEF classes, vars, Lifecycle!vars
<1>2. CASE Next
  <2>1. faulty' = faulty
    BY <1>2 DEF Next, classes
  <2>2. PICK s \in Services : \A t \in Services \ {s} : Untold(t)
    BY <1>2, OneAtATime DEF IInv
  <2>3. /\ st \in [Services -> States] /\ ck \in [Services -> Nat]
        /\ st' \in [Services -> States] /\ ck' \in [Services -> Nat]
    <3>1. TypeOK /\ TypeOK'
      BY <1>2, NextIInv DEF IInv
    <3> QED  BY <3>1 DEF TypeOK
  <2>4. \A t \in Services \ {s} : st'[t] = st[t] /\ ck'[t] = ck[t]
    BY <2>1, <2>2 DEF Untold
  <2>5. st' = [st EXCEPT ![s] = st'[s]] /\ ck' = [ck EXCEPT ![s] = ck'[s]]
    BY <2>3, <2>4
  <2>6. CASE s \in faulty
    <3>1. st'[s] = st[s] /\ ck'[s] = ck[s]
      BY <2>1, <2>6
    <3>2. st' = st /\ ck' = ck
      BY <2>3, <2>4, <3>1
    <3> QED  BY <3>2 DEF Lifecycle!vars
  <2>7. CASE s \notin faulty
    <3>1. /\ st[s] = scm[s] /\ ck[s] = checks[s]
          /\ st'[s] = scm'[s] /\ ck'[s] = checks'[s]
      BY <2>1, <2>7
    <3>2. Proceeds(s)
      BY <1>2, <2>7, SoundStep DEF IInv, Steady
    <3>3. CASE scm'[s] = scm[s] /\ checks'[s] = checks[s]
      <4>1. st' = st /\ ck' = ck
        BY <2>3, <2>4, <3>1, <3>3
      <4> QED  BY <4>1 DEF Lifecycle!vars
    <3>4. CASE scm[s] = "STOPPED" /\ scm'[s] = "START_PENDING" /\ checks'[s] = 0
      <4>1. Lifecycle!Moves(s, "STOPPED", "START_PENDING") /\ Lifecycle!Clears(s)
        BY <2>5, <3>1, <3>4 DEF Lifecycle!Moves, Lifecycle!Clears
      <4> QED  BY <4>1 DEF Lifecycle!Next
    <3>5. CASE scm[s] = "START_PENDING" /\ scm'[s] = "RUNNING" /\ checks'[s] = 0
      <4>1. Lifecycle!Moves(s, "START_PENDING", "RUNNING") /\ Lifecycle!Clears(s)
        BY <2>5, <3>1, <3>5 DEF Lifecycle!Moves, Lifecycle!Clears
      <4> QED  BY <4>1 DEF Lifecycle!Next
    <3>6. CASE /\ scm[s] \in {"RUNNING", "STOP_PENDING"} /\ scm'[s] = "STOP_PENDING"
               /\ checks'[s] > checks[s]
      <4>1. Lifecycle!Moves(s, scm[s], "STOP_PENDING") /\ Lifecycle!Grows(s)
        BY <2>5, <3>1, <3>6 DEF Lifecycle!Moves, Lifecycle!Grows
      <4> QED  BY <3>6, <4>1 DEF Lifecycle!Next
    <3>7. CASE scm[s] # "STOPPED" /\ scm'[s] = "STOPPED" /\ checks'[s] = 0
      <4>0. PICK from \in Lifecycle!States : from = scm[s]
        BY DEF IInv, TypeOK, Lifecycle!States
      <4>1. Lifecycle!Moves(s, from, "STOPPED") /\ Lifecycle!Clears(s)
        BY <2>5, <3>1, <3>7, <4>0 DEF Lifecycle!Moves, Lifecycle!Clears
      <4> QED  BY <3>7, <4>0, <4>1 DEF Lifecycle!Next
    <3> QED  BY <3>2, <3>3, <3>4, <3>5, <3>6, <3>7 DEF Proceeds
  <2> QED  BY <2>6, <2>7
<1> QED  BY <1>1, <1>2

(* What the SCM is told of the sound services of a process follows the     *)
(* lifecycle it expects (ServiceLifecycle), whatever the others do.        *)
THEOREM HostFollowsLifecycle == Spec => FollowsLifecycle
<1>1. Init => Lifecycle!Init
  BY LifecycleInit
<1>2. IInv /\ [Next]_<<classes, vars>> => [Lifecycle!Next]_(Lifecycle!vars)
  BY LifecycleStep
<1> QED
  BY <1>1, <1>2, HostInvariant, PTL DEF Spec, FollowsLifecycle, Lifecycle!Spec
=============================================================================
