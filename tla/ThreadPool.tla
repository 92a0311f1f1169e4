------------------------------ MODULE ThreadPool ------------------------------
(***************************************************************************)
(* ThreadPoolExtension of isapi/threaded_extension.py: extension objects   *)
(* whose worker threads take requests from an I/O completion port.         *)
(*                                                                         *)
(* A pool is what one call of GetExtensionVersion creates: a port and the  *)
(* workers that wait on it.  An extension object that is initialised again *)
(* forgets the pool that it had.                                           *)
(***************************************************************************)
EXTENDS Integers, FiniteSets, Sequences, SequencesExt

CONSTANTS
  Requests,    \* the requests that IIS makes
  Workers,     \* bound: the numbers of the workers of a pool
  Troubles,    \* what may go wrong with each request
  Shutdown,    \* the packet of ISAPI_SHUTDOWN
  Nobody       \* None

ASSUME PoolAssumption ==
  /\ Shutdown \notin Requests /\ Nobody \notin Requests
  /\ IsFiniteSet(Workers) /\ Workers \subseteq Nat
  /\ Troubles \in [Requests -> SUBSET {"noToken", "raises", "doneAndRaises"}]

VARIABLES
  max_workers, \* how many workers a pool has: an attribute of the derived class
  owner,     \* the extension object of each pool, in the order of creation
  stage,     \* of each pool: "open", "stopping" (TerminateExtension), "closed"
  port,      \* the packets in each pool's completion port
  running,   \* worker.running
  pc,        \* where each worker is
  req,       \* the request that a worker has taken
  token,     \* the request whose user a worker impersonates
  canDispatch, \* the extension objects whose dispatch_map is not empty
  done,      \* how often IIS was told that it is done with a request
  lost       \* history: the requests in the ports that were closed

poolVars == <<max_workers, owner, stage, port, running, pc, req, token, canDispatch, done, lost>>

Pools == DOMAIN owner

(* self.io_req_port and self.workers: 0 if GetExtensionVersion was not called. *)
PoolOf(e) == SelectLastInSubSeq(owner, 1, Len(owner), LAMBDA x : x = e)

PerWorker(value) == [w \in Workers |-> value]

(* Those that the pool does not have never run.                            *)
NewWorkers == [w \in Workers |-> IF w <= max_workers THEN "starting" ELSE "exited"]

PoolInit(e) ==
  /\ max_workers \in Workers
  /\ owner = <<e>> /\ stage = <<"open">> /\ port = << <<>> >>
  /\ running = <<PerWorker(FALSE)>> /\ pc = <<NewWorkers>>
  /\ req = <<PerWorker(Nobody)>> /\ token = <<PerWorker(Nobody)>>
  /\ canDispatch = {e}
  /\ done = [r \in Requests |-> 0] /\ lost = {}

(* start() returns when the thread exists: run may begin later.  That the  *)
(* threads are made one after the other, others cannot tell from workers   *)
(* that begin later, but for a TerminateExtension in the middle: it posts  *)
(* fewer packets, and closes the port all the same.                        *)
GetExtensionVersion(e) ==
  /\ owner' = Append(owner, e) /\ stage' = Append(stage, "open")
  /\ port' = Append(port, <<>>)
  /\ running' = Append(running, PerWorker(FALSE))
  /\ pc' = Append(pc, NewWorkers)
  /\ req' = Append(req, PerWorker(Nobody))
  /\ token' = Append(token, PerWorker(Nobody))
  /\ UNCHANGED <<max_workers, canDispatch, done, lost>>

CanPost(e) == PoolOf(e) # 0 /\ stage[PoolOf(e)] # "closed"

(* HttpExtensionProc of an extension that has an open port.                *)
PostRequest(e, r) ==
  /\ CanPost(e)
  /\ port' = [port EXCEPT ![PoolOf(e)] = Append(@, r)]
  /\ UNCHANGED <<max_workers, owner, stage, running, pc, req, token, canDispatch, done, lost>>

-----------------------------------------------------------------------------
(* WorkerThread.run and DispatchConnection, in worker w of pool p.         *)

Goto(p, w, from, to) == pc[p][w] = from /\ pc' = [pc EXCEPT ![p][w] = to]

Run(p, w) ==
  /\ Goto(p, w, "starting", "loop")
  /\ running' = [running EXCEPT ![p][w] = TRUE]
  /\ UNCHANGED <<max_workers, owner, stage, port, req, token, canDispatch, done, lost>>

(* The test of the while loop.                                             *)
Loop(p, w, from) ==
  Goto(p, w, from, IF running[p][w] THEN "wait" ELSE "exited")

TestRunning(p, w) ==
  /\ Loop(p, w, "loop")
  /\ UNCHANGED <<max_workers, owner, stage, port, running, req, token, canDispatch, done, lost>>

(* GetQueuedCompletionStatus: on a closed port it returns no key that the  *)
(* extension knows, and run raises.                                        *)
MutIgnoreKey(p, w) ==
  /\ \/ /\ stage[p] = "closed" /\ Loop(p, w, "wait")
        /\ UNCHANGED <<port, req>>
     \/ /\ stage[p] # "closed" /\ port[p] # <<>>
        /\ port' = [port EXCEPT ![p] = Tail(@)]
        /\ \/ /\ Head(port[p]) = Shutdown /\ Goto(p, w, "wait", "exited")
              /\ UNCHANGED req
           \/ /\ Head(port[p]) # Shutdown /\ Goto(p, w, "wait", "got")
              /\ req' = [req EXCEPT ![p][w] = Head(port[p])]
  /\ UNCHANGED <<max_workers, owner, stage, running, token, canDispatch, done, lost>>
GetPacket(p, w) ==
  /\ \/ /\ stage[p] = "closed" /\ Goto(p, w, "wait", "exited")
        /\ UNCHANGED <<port, req>>
     \/ /\ stage[p] # "closed" /\ port[p] # <<>>
        /\ port' = [port EXCEPT ![p] = Tail(@)]
        /\ \/ /\ Head(port[p]) = Shutdown /\ Goto(p, w, "wait", "exited")
              /\ UNCHANGED req
           \/ /\ Head(port[p]) # Shutdown /\ Goto(p, w, "wait", "got")
              /\ req' = [req EXCEPT ![p][w] = Head(port[p])]
  /\ UNCHANGED <<max_workers, owner, stage, running, token, canDispatch, done, lost>>

(* The dispatch_map is looked up and the user of the request impersonated; *)
(* a failure of either ends the thread with the request in its hand.       *)
BeginDispatch(p, w) ==
  /\ \/ /\ Goto(p, w, "got", "dispatch") /\ owner[p] \in canDispatch
        /\ token' = [token EXCEPT ![p][w] = req[p][w]]
     \/ /\ Goto(p, w, "got", "exited")
        /\ owner[p] \notin canDispatch \/ "noToken" \in Troubles[req[p][w]]
        /\ UNCHANGED token
  /\ UNCHANGED <<max_workers, owner, stage, port, running, req, canDispatch, done, lost>>

(* Dispatch of the derived class tells IIS that the request is done; it    *)
(* may raise before or after that.                                         *)
Dispatch(p, w) ==
  /\ \/ /\ \/ Goto(p, w, "dispatch", "reset")
           \/ Goto(p, w, "dispatch", "error") /\ "doneAndRaises" \in Troubles[req[p][w]]
        /\ done' = [done EXCEPT ![req[p][w]] = @ + 1]
     \/ /\ Goto(p, w, "dispatch", "error") /\ "raises" \in Troubles[req[p][w]]
        /\ UNCHANGED done
  /\ UNCHANGED <<max_workers, owner, stage, port, running, req, token, canDispatch, lost>>

(* HandleDispatchError calls DoneWithSession in any case, which raises     *)
(* when the session is already done (PyECB::Check).                        *)
MutNoCheck(p, w) ==
  /\ Goto(p, w, "error", "reset")
  /\ done' = [done EXCEPT ![req[p][w]] = @ + 1]
  /\ UNCHANGED <<max_workers, owner, stage, port, running, req, token, canDispatch, lost>>
MutForgetDone(p, w) ==
  /\ Goto(p, w, "error", "reset")
  /\ UNCHANGED <<max_workers, owner, stage, port, running, req, token, canDispatch, done, lost>>
MutSkipReset(p, w) ==
  /\ Loop(p, w, "error") /\ done[req[p][w]] = 0
  /\ done' = [done EXCEPT ![req[p][w]] = 1]
  /\ req' = [req EXCEPT ![p][w] = Nobody]
  /\ UNCHANGED <<max_workers, owner, stage, port, running, token, canDispatch, lost>>
HandleDispatchError(p, w) ==
  /\ \/ /\ Goto(p, w, "error", "reset") /\ done[req[p][w]] = 0
        /\ done' = [done EXCEPT ![req[p][w]] = 1]
     \/ /\ Goto(p, w, "error", "resetAndRaise") /\ done[req[p][w]] # 0
        /\ UNCHANGED done
  /\ UNCHANGED <<max_workers, owner, stage, port, running, req, token, canDispatch, lost>>

(* The finally of DispatchConnection, and back to the loop.                *)
ResetToken(p, w) ==
  /\ \/ Loop(p, w, "reset") /\ req' = [req EXCEPT ![p][w] = Nobody]
     \/ Goto(p, w, "resetAndRaise", "exited") /\ UNCHANGED req
  /\ token' = [token EXCEPT ![p][w] = Nobody]
  /\ UNCHANGED <<max_workers, owner, stage, port, running, canDispatch, done, lost>>

Worker(p, w) ==
  \/ Run(p, w) \/ TestRunning(p, w) \/ GetPacket(p, w) \/ BeginDispatch(p, w)
  \/ Dispatch(p, w) \/ HandleDispatchError(p, w) \/ ResetToken(p, w)

-----------------------------------------------------------------------------
(* TerminateExtension.                                                     *)

AllExited(p) == \A w \in Workers : pc[p][w] = "exited"

StopWorkers(e) ==
  /\ PoolOf(e) # 0
  /\ running' = [running EXCEPT ![PoolOf(e)] = PerWorker(FALSE)]
  /\ stage' = [stage EXCEPT ![PoolOf(e)] = IF @ = "open" THEN "stopping" ELSE @]
  /\ UNCHANGED <<max_workers, owner, port, pc, req, token, canDispatch, done, lost>>

(* A packet for each worker.                                               *)
PostShutdown(e) ==
  /\ CanPost(e)
  /\ port' = [port EXCEPT ![PoolOf(e)] =
                @ \o [i \in 1 .. max_workers |-> Shutdown]]
  /\ UNCHANGED <<max_workers, owner, stage, running, pc, req, token, canDispatch, done, lost>>

(* The packets that are left are lost with the port.                       *)
ClosePort(e) ==
  /\ canDispatch' = canDispatch \ {e}
  /\ IF PoolOf(e) = 0 THEN UNCHANGED <<stage, port, lost>>
     ELSE /\ stage' = [stage EXCEPT ![PoolOf(e)] = "closed"]
          /\ port' = [port EXCEPT ![PoolOf(e)] = <<>>]
          /\ lost' = lost \cup (ToSet(port[PoolOf(e)]) \cap Requests)
  /\ UNCHANGED <<max_workers, owner, running, pc, req, token, done>>

-----------------------------------------------------------------------------
Dispatching == {"dispatch", "error", "reset", "resetAndRaise"}

(* A worker acts as the user of the request that it dispatches, and as no  *)
(* user before and after that (SetThreadToken in DispatchConnection).      *)
OwnIdentity ==
  \A p \in Pools, w \in Workers :
    token[p][w] = IF pc[p][w] \in Dispatching THEN req[p][w] ELSE Nobody

(* IIS is told at most once that a request is done, and no two workers     *)
(* have the same request.                                                  *)
OneAnswer ==
  /\ \A r \in Requests : done[r] <= 1
  /\ \A p, q \in Pools, v, w \in Workers :
       req[p][v] = req[q][w] /\ req[p][v] # Nobody => p = q /\ v = w
=============================================================================
