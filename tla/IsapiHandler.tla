----------------------------- MODULE IsapiHandler -----------------------------
(***************************************************************************)
(* The threads of IIS in an ISAPI extension: HttpExtensionProc and         *)
(* TerminateExtension of isapi/src/pyISAPI.cpp, the callback manager of    *)
(* isapi/src/PythonEng.cpp, which reloads the module when the extension    *)
(* asks for it, and the thread pools of the extension objects.             *)
(*                                                                         *)
(* The GIL is released wherever Python waits or starts a thread, in        *)
(* particular while TerminateExtension polls, while the module is read and *)
(* in GetExtensionVersion: the steps of a reload are separate actions.     *)
(***************************************************************************)
EXTENDS ThreadPool

CONSTANTS
  Iis,            \* the thread of IIS that unloads the extension
  MaxReloads      \* bound: how many reloads begin, by the number of workers

ASSUME HandlerAssumption == Iis \notin Requests /\ MaxReloads \in [Workers -> Nat]

Threads == Requests \cup {Iis}   \* IIS calls for a request on a thread of its own
Unbound == [do |-> 0, term |-> 0, init |-> 0]

VARIABLES
  handler,  \* m_handler, or 0; extension objects are numbered as they are made
  made,     \* how many were made
  callback, \* m_callback_do, _term, _init: the object they are bound to, or 0
  reloads,  \* how many reloads have begun
  tpc,      \* where each thread of IIS is
  object,   \* the extension object that it terminates, or 0
  overlapped \* history: a reload has begun while another one was under way

handlerVars == <<handler, made, callback, reloads, tpc, object, overlapped>>
vars == <<poolVars, handlerVars>>

(* IIS has loaded the extension and called GetExtensionVersion.            *)
Init ==
  /\ PoolInit(1)
  /\ handler = 1 /\ made = 1
  /\ callback = [Unbound EXCEPT !.init = 1]
  /\ reloads = 0
  /\ tpc = [t \in Threads |-> "none"] /\ object = [t \in Threads |-> 0]
  /\ overlapped = FALSE

(* CheckCallback: a callback is looked up in m_handler once; 0 if there is *)
(* no handler to look it up in.                                            *)
Bound(cb) == IF callback[cb] = 0 THEN handler ELSE callback[cb]

Bind(cb) == callback' = [callback EXCEPT ![cb] = Bound(cb)]

At(t, step)  == tpc[t] = step
To(t, step)  == tpc' = [tpc EXCEPT ![t] = step]

-----------------------------------------------------------------------------
Reloading(t) == tpc[t] \in {"term", "post", "poll", "load", "init"}

(* HttpExtensionProc fails when the extension object has no port, and if   *)
(* there is no object at all.                                              *)
Post(r) ==
  \/ PostRequest(Bound("do"), r) /\ To(r, "pending")
  \/ ~ CanPost(Bound("do")) /\ To(r, "failed") /\ UNCHANGED poolVars

(* A derived class may raise InternalReloadException instead, for example  *)
(* because the source file has changed: "It is up to your code when you    *)
(* raise this exception" (advanced.py:33), also for another request while  *)
(* a reload is under way.                                                  *)
Arrive(r) ==
  /\ At(Iis, "none") /\ At(r, "none") /\ Bind("do")
  /\ \/ /\ Bound("do") # 0 /\ To(r, "term") /\ UNCHANGED poolVars
        /\ reloads < MaxReloads[max_workers] /\ reloads' = reloads + 1
        /\ overlapped' = (overlapped \/ \E t \in Threads : Reloading(t))
     \/ Post(r) /\ UNCHANGED <<reloads, overlapped>>
  /\ UNCHANGED <<handler, made, object>>

(* The request is tried again, once, after a reload: another exception is  *)
(* the end of it.                                                          *)
Reissue(r) ==
  /\ At(r, "again") /\ Bind("do")
  /\ Post(r) \/ (To(r, "failed") /\ UNCHANGED poolVars)
  /\ UNCHANGED <<handler, made, reloads, object, overlapped>>

-----------------------------------------------------------------------------
(* IIS unloads the extension when no thread of its own is in it.           *)
Unload ==
  /\ At(Iis, "none") /\ To(Iis, "term")
  /\ \A r \in Requests : tpc[r] \in {"none", "pending", "failed"}
  /\ UNCHANGED <<poolVars, handler, made, callback, reloads, object, overlapped>>

AfterTerm(t) == IF t = Iis THEN "unloaded" ELSE "load"

(* TerminateExtension on an object that has no pool clears its dispatch    *)
(* map and raises; one whose port is closed raises when it posts.  Errors  *)
(* are ignored.                                                            *)
BeginTerm(t) ==
  /\ At(t, "term") /\ Bind("term")
  /\ \/ /\ StopWorkers(Bound("term")) /\ To(t, "post")
        /\ object' = [object EXCEPT ![t] = Bound("term")]
     \/ /\ PoolOf(Bound("term")) = 0 /\ ClosePort(Bound("term"))
        /\ To(t, AfterTerm(t)) /\ UNCHANGED object
  /\ UNCHANGED <<handler, made, reloads, overlapped>>

PostTerm(t) ==
  /\ At(t, "post")
  /\ \/ PostShutdown(object[t]) /\ To(t, "poll") /\ UNCHANGED object
     \/ /\ ~ CanPost(object[t]) /\ To(t, AfterTerm(t))
        /\ object' = [object EXCEPT ![t] = 0]
        /\ UNCHANGED poolVars
  /\ UNCHANGED <<handler, made, callback, reloads, overlapped>>

(* It polls until no worker is alive or worker_shutdown_wait is over,      *)
(* whatever the workers do meanwhile.                                      *)
EndTerm(t) ==
  /\ At(t, "poll") /\ To(t, AfterTerm(t))
  /\ ClosePort(object[t])
  /\ object' = [object EXCEPT ![t] = 0]
  /\ UNCHANGED <<handler, made, callback, reloads, overlapped>>

(* LoadHandler(true): when the module cannot be imported m_handler is kept *)
(* and "return m_handler != NULL" reports success.  When the factory fails *)
(* (or had failed before) there is no handler, the callbacks stay as they  *)
(* are and the request has failed.                                         *)
MutKeepTerm(t) ==
  /\ At(t, "load") /\ To(t, "init")
  /\ made' = made + 1 /\ handler' = made'
  /\ callback' = [Unbound EXCEPT !.term = callback.term]
  /\ canDispatch' = canDispatch \cup {made'}
  /\ UNCHANGED <<max_workers, owner, stage, port, running, pc, req, token, done, lost,
                 reloads, object, overlapped>>
LoadHandler(t) ==
  /\ At(t, "load")
  /\ \/ /\ made' = made + 1 /\ handler' = made'
        /\ canDispatch' = canDispatch \cup {made'}
        /\ callback' = Unbound /\ To(t, "init")
     \/ /\ handler # 0 /\ callback' = Unbound /\ To(t, "init")
        /\ UNCHANGED <<made, handler, canDispatch>>
     \/ /\ handler' = 0 /\ To(t, "failed")
        /\ UNCHANGED <<made, canDispatch, callback>>
  /\ UNCHANGED <<max_workers, owner, stage, port, running, pc, req, token, done, lost,
                 reloads, object, overlapped>>

Reinitialise(t) ==
  /\ At(t, "init") /\ To(t, "again") /\ Bind("init")
  /\ IF Bound("init") = 0 THEN UNCHANGED poolVars ELSE GetExtensionVersion(Bound("init"))
  /\ UNCHANGED <<handler, made, reloads, object, overlapped>>

Call(t) ==
  \/ BeginTerm(t) \/ PostTerm(t) \/ EndTerm(t)
  \/ t \in Requests /\ (LoadHandler(t) \/ Reinitialise(t) \/ Reissue(t))

WorkerStep(p, w) == Worker(p, w) /\ UNCHANGED handlerVars

Next ==
  \/ Unload
  \/ \E r \in Requests : Arrive(r)
  \/ \E t \in Threads : Call(t)
  \/ \E p \in Pools, w \in Workers : WorkerStep(p, w)

Spec == Init /\ [][Next]_vars

(* IIS goes on with the calls it has begun, the workers are scheduled and  *)
(* what they dispatch returns: as long as one of them can take a step, one *)
(* does.  Which, is not assumed.                                           *)
FairSpec ==
  /\ Spec
  /\ WF_vars(\/ \E t \in Threads : Call(t)
             \/ \E p \in Pools, w \in Workers : WorkerStep(p, w))

-----------------------------------------------------------------------------
(* Only the extension object that is in use has workers that nobody told   *)
(* to stop, and after TerminateExtension no object has ("terminate your    *)
(* extension, reload your extension module", advanced.py:29), however      *)
(* often it is reloaded and however a reload fails; but two requests that  *)
(* reload at the same time can replace an extension that nobody has        *)
(* terminated.                                                             *)
NoOrphans ==
  ~ overlapped =>
    \A p \in Pools : stage[p] = "open" =>
      owner[p] = handler /\ p = PoolOf(handler) /\ ~ At(Iis, "unloaded")

(* In the end every request that IIS was told is pending has been          *)
(* answered, whatever Dispatch does, but for those that a worker has died  *)
(* of (the user cannot be impersonated, or an object whose module failed   *)
(* to load again was initialised a second time: its dispatch_map stays     *)
(* empty), those that were in a port when it was closed, and those in the  *)
(* port of a pool whose workers have all died: none is replaced.           *)
Waiting(p, r) == \E i \in DOMAIN port[p] : port[p][i] = r

DiedOf(p, r) == \E w \in Workers : req[p][w] = r /\ pc[p][w] = "exited"

Answered ==
  <>[](\A r \in Requests : At(r, "pending") =>
         \/ done[r] = 1 \/ r \in lost
         \/ \E p \in Pools : DiedOf(p, r) \/ (Waiting(p, r) /\ AllExited(p)))

(* TerminateExtension brings every worker to an end, also one whose run    *)
(* sets running after it was cleared and one that is busy for longer than  *)
(* worker_shutdown_wait.                                                   *)
WorkersExit == <>[](\A p \in Pools : stage[p] # "open" => AllExited(p))
=============================================================================
