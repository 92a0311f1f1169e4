------------------------------ MODULE ComServer ------------------------------
(***************************************************************************)
(* The life of a local COM server: serve of                                *)
(* com/win32com/server/localserver.py on the main thread, a single-        *)
(* threaded apartment, and the count of locks of com/win32com/src          *)
(* (dllmain.cpp, PyFactory.cpp, PyGatewayBase.cpp, PyIUnknown.cpp and      *)
(* PyIClassFactory.cpp), whose return to zero ends it.                     *)
(*                                                                         *)
(* Calls of clients are messages of the main thread, which handles one at  *)
(* a time, and others while a call that it makes itself has not returned.  *)
(***************************************************************************)
EXTENDS Integers, FiniteSets, Sequences, SequencesExt

CONSTANTS
  Clients,   \* the programs that activate the class of this server
  MaxUses    \* bound: how often other threads of the server use COM

ASSUME ComAssumption == IsFiniteSet(Clients) /\ MaxUses \in Nat

VARIABLES
  count,       \* g_cLockCount
  quitThread,  \* TRUE if dwQuitThreadId is set
  queue,       \* the messages of the main thread
  pc,          \* where serve is
  activatable, \* TRUE while COM lets clients reach the class object
  creating,    \* the calls of CreateInstance on the stack of the main thread
  objects,     \* the gateways of the clients' objects
  locks,       \* the clients whose LockServer(TRUE) is in force
  objectOf,    \* what each client knows of its object
  lockOf,      \* what each client has done with its lock
  temps,       \* the interfaces that other threads hold
  uses,        \* how often they took one
  posting      \* the threads between the decrement to zero and the WM_QUIT

counter    == <<count, posting>>
clientVars == <<objectOf, lockOf>>
serverVars == <<pc, quitThread, activatable>>
threadVars == <<temps, uses>>
held       == <<objects, locks>>
vars == <<count, quitThread, queue, pc, activatable, creating, objects, locks, objectOf,
          lockOf, temps, uses, posting>>

Quit == [call |-> "WM_QUIT"]
Call(what, c) == [call |-> what, client |-> c]

Init ==
  /\ count = 0 /\ quitThread = FALSE /\ queue = <<>>
  /\ pc = "register" /\ activatable = FALSE
  /\ creating = <<>> /\ objects = {} /\ locks = {}
  /\ objectOf = [c \in Clients |-> "none"] /\ lockOf = [c \in Clients |-> "none"]
  /\ temps = 0 /\ uses = 0 /\ posting = {}

-----------------------------------------------------------------------------
(* PyCom_DLLAddRef, PyCom_DLLReleaseRef by thread t, and PostThreadMessage *)
(* for a thread that counted down to zero: nothing holds the count there.  *)

AddRef == count' = count + 1 /\ UNCHANGED posting

ReleaseRef(t) ==
  /\ count' = count - 1
  /\ posting' = IF count' = 0 /\ quitThread THEN posting \cup {t} ELSE posting

PostQuit(t) ==
  /\ t \in posting /\ posting' = posting \ {t} /\ queue' = Append(queue, Quit)
  /\ UNCHANGED <<serverVars, count, creating, held, clientVars, threadVars>>

-----------------------------------------------------------------------------
(* serve.                                                                  *)

(* A factory is counted by the constructor of PyIUnknown and taken out of  *)
(* the count again by that of PyIClassFactory.                             *)
MakeFactory ==
  /\ \/ pc = "register" /\ pc' = "made" /\ AddRef
     \/ pc = "made" /\ pc' = "registered" /\ ReleaseRef("main")
  /\ UNCHANGED <<quitThread, queue, activatable, creating, held, clientVars, threadVars>>

(* EnableQuitMessage, then CoResumeClassObjects: the factories were        *)
(* registered as suspended.                                                *)
MutEnableFirst ==
  /\ \/ pc = "register" /\ ~quitThread /\ quitThread' = TRUE /\ UNCHANGED <<pc, activatable>>
     \/ pc = "registered" /\ pc' = "pump" /\ activatable' = TRUE /\ UNCHANGED quitThread
  /\ UNCHANGED <<counter, queue, creating, held, clientVars, threadVars>>
EnableAndResume ==
  /\ \/ pc = "registered" /\ pc' = "resume" /\ quitThread' = TRUE /\ UNCHANGED activatable
     \/ pc = "resume" /\ pc' = "pump" /\ activatable' = TRUE /\ UNCHANGED quitThread
  /\ UNCHANGED <<counter, queue, creating, held, clientVars, threadVars>>

(* PumpMessages returns when it comes to a WM_QUIT.                        *)
GetQuit ==
  /\ pc = "pump" /\ creating = <<>> /\ queue # <<>> /\ Head(queue) = Quit
  /\ pc' = "revoke" /\ queue' = Tail(queue)
  /\ UNCHANGED <<counter, quitThread, activatable, creating, held, clientVars, threadVars>>

(* RevokeClassFactories.                                                   *)
Revoke ==
  /\ pc = "revoke" /\ pc' = "close" /\ activatable' = FALSE
  /\ UNCHANGED <<counter, quitThread, queue, creating, held, clientVars, threadVars>>

(* CoUninitialize and the end of the process: calls that are left fail,    *)
(* objects that are left are lost.                                         *)
Exit ==
  /\ pc = "close" /\ creating = <<>> /\ pc' = "exited"
  /\ objectOf' = [c \in Clients |-> IF objectOf[c] = "asked" THEN "failed"
                                    ELSE IF objectOf[c] = "has" THEN "lost"
                                    ELSE objectOf[c]]
  /\ UNCHANGED <<counter, quitThread, queue, activatable, creating, held, lockOf, threadVars>>

Serve == MakeFactory \/ EnableAndResume \/ GetQuit \/ Revoke \/ Exit

-----------------------------------------------------------------------------
(* The clients.  A call is synchronous: the client waits for its end.      *)

Waiting(c) ==
  \/ \E i \in DOMAIN queue : queue[i] # Quit /\ queue[i].client = c
  \/ \E i \in DOMAIN creating : creating[i].client = c

Ask(c) ==
  /\ activatable /\ objectOf[c] = "none" /\ ~Waiting(c)
  /\ queue' = Append(queue, Call("CreateInstance", c))
  /\ objectOf' = [objectOf EXCEPT ![c] = "asked"]
  /\ UNCHANGED <<serverVars, counter, creating, held, lockOf, threadVars>>

Drop(c) ==
  /\ pc # "exited" /\ objectOf[c] = "has" /\ ~Waiting(c)
  /\ queue' = Append(queue, Call("Release", c))
  /\ objectOf' = [objectOf EXCEPT ![c] = "dropped"]
  /\ UNCHANGED <<serverVars, counter, creating, held, lockOf, threadVars>>

AskLock(c) ==
  /\ ~Waiting(c)
  /\ \/ /\ activatable /\ lockOf[c] = "none"
        /\ queue' = Append(queue, Call("Lock", c))
        /\ lockOf' = [lockOf EXCEPT ![c] = "locked"]
     \/ /\ pc # "exited" /\ lockOf[c] = "locked"
        /\ queue' = Append(queue, Call("Unlock", c))
        /\ lockOf' = [lockOf EXCEPT ![c] = "unlocked"]
  /\ UNCHANGED <<serverVars, counter, creating, held, objectOf, threadVars>>

Client == \E c \in Clients : Ask(c) \/ Drop(c) \/ AskLock(c)

-----------------------------------------------------------------------------
(* The main thread takes the next call: from its pump, from CoUninitialize, *)
(* or while a constructor is in a call of its own, where the loop of COM   *)
(* handles calls and leaves a WM_QUIT where it is.                         *)

NextCall ==
  IF creating = <<>> THEN 1
  ELSE SelectInSeq(queue, LAMBDA m : m # Quit)

Takes(what, c) ==
  /\ pc \in {"pump", "close"}
  /\ creating # <<>> => Head(creating).step = "calling"
  /\ NextCall \in DOMAIN queue /\ queue[NextCall] = Call(what, c)

Rest == RemoveAt(queue, NextCall)

At(c, step) ==
  /\ pc \in {"pump", "close"} /\ creating # <<>>
  /\ Head(creating) = [client |-> c, step |-> step]

SetStep(c, step) == creating' = <<[client |-> c, step |-> step]>> \o Tail(creating)

(* CPyFactory::CreateInstance, from its call to its artificial lock.       *)
MutNoArtificialLock(c) ==
  /\ Takes("CreateInstance", c)
  /\ creating' = <<[client |-> c, step |-> "construct"]>> \o creating
  /\ queue' = Rest
  /\ UNCHANGED <<serverVars, counter, held, clientVars, threadVars>>
BeginCreate(c) ==
  /\ Takes("CreateInstance", c)
  /\ AddRef
  /\ creating' = <<[client |-> c, step |-> "construct"]>> \o creating
  /\ queue' = Rest
  /\ UNCHANGED <<serverVars, held, clientVars, threadVars>>

(* The constructor of the Python class, which may use COM on its way: the  *)
(* interface that it uses is counted, and gone before it goes on.          *)
Construct(c) ==
  /\ \/ At(c, "construct") /\ SetStep(c, "calling") /\ AddRef
     \/ At(c, "calling") /\ SetStep(c, "constructed") /\ ReleaseRef("main")
     \/ At(c, "construct") /\ SetStep(c, "constructed") /\ UNCHANGED counter
     \/ At(c, "constructed") /\ SetStep(c, "failed") /\ UNCHANGED counter
  /\ UNCHANGED <<serverVars, queue, held, clientVars, threadVars>>

(* WrapObject: the gateway of the new object, and the PyIUnknown in which  *)
(* policy._CreateInstance_ hands it to CreateInstance.                     *)
Wrap(c) ==
  /\ \/ At(c, "constructed") /\ SetStep(c, "gateway") /\ objects' = objects \cup {c}
     \/ At(c, "gateway") /\ SetStep(c, "wrapped") /\ UNCHANGED objects
  /\ AddRef
  /\ UNCHANGED <<serverVars, queue, locks, clientVars, threadVars>>

(* PyCom_InterfaceFromPyObject takes a reference of its own to the gateway *)
(* or fails; then the PyIUnknown goes, and with it its reference.          *)
Unwrap(c) ==
  /\ \/ At(c, "wrapped") /\ SetStep(c, "passed") /\ UNCHANGED objects
     \/ At(c, "wrapped") /\ SetStep(c, "refused") /\ objects' = objects \ {c}
     \/ At(c, "refused") /\ SetStep(c, "failed") /\ UNCHANGED objects
  /\ ReleaseRef("main")
  /\ UNCHANGED <<serverVars, queue, locks, clientVars, threadVars>>

(* The end of CreateInstance: the artificial lock goes, the client gets    *)
(* its object or the error.                                                *)
MutForgetOnError(c) ==
  /\ \/ At(c, "passed") /\ objectOf' = [objectOf EXCEPT ![c] = "has"] /\ ReleaseRef("main")
     \/ /\ At(c, "failed") /\ objectOf' = [objectOf EXCEPT ![c] = "failed"]
        /\ UNCHANGED counter
  /\ creating' = Tail(creating)
  /\ UNCHANGED <<serverVars, queue, held, lockOf, threadVars>>
EndCreate(c) ==
  /\ \/ At(c, "passed") /\ objectOf' = [objectOf EXCEPT ![c] = "has"]
     \/ At(c, "failed") /\ objectOf' = [objectOf EXCEPT ![c] = "failed"]
  /\ ReleaseRef("main")
  /\ creating' = Tail(creating)
  /\ UNCHANGED <<serverVars, queue, held, lockOf, threadVars>>

(* PyGatewayBase::Release of the last reference: the destructor.           *)
Release(c) ==
  /\ Takes("Release", c)
  /\ objects' = objects \ {c}
  /\ ReleaseRef("main") /\ queue' = Rest
  /\ UNCHANGED <<serverVars, creating, locks, clientVars, threadVars>>

(* CPyFactory::LockServer.                                                 *)
LockServer(c) ==
  /\ \/ Takes("Lock", c) /\ AddRef /\ queue' = Rest /\ locks' = locks \cup {c}
     \/ Takes("Unlock", c) /\ ReleaseRef("main") /\ queue' = Rest /\ locks' = locks \ {c}
  /\ UNCHANGED <<serverVars, creating, objects, clientVars, threadVars>>

MainThread ==
  \E c \in Clients :
    \/ BeginCreate(c) \/ Construct(c) \/ Wrap(c) \/ Unwrap(c) \/ EndCreate(c)
    \/ Release(c) \/ LockServer(c)

-----------------------------------------------------------------------------
(* Threads that the Python code of an object has started take and release  *)
(* interfaces of their own: PyIUnknown and its destructor.                 *)

Served == creating # <<>> \/ \E c \in Clients : objectOf[c] \notin {"none", "asked"}

OtherThread ==
  /\ pc # "exited" /\ Served /\ "other" \notin posting
  /\ \/ uses < MaxUses /\ uses' = uses + 1 /\ temps' = temps + 1 /\ AddRef
     \/ temps > 0 /\ temps' = temps - 1 /\ ReleaseRef("other") /\ UNCHANGED uses
  /\ UNCHANGED <<serverVars, queue, creating, held, clientVars>>

Main == "main" \notin posting /\ (Serve \/ MainThread)

Next == Main \/ Client \/ OtherThread \/ \E t \in {"main", "other"} : PostQuit(t)

(* The main thread runs on, and a thread within ReleaseRef goes through    *)
(* it; clients and other threads need do nothing.                          *)
Spec == Init /\ [][Next]_vars
             /\ WF_vars(Main) /\ \A t \in {"main", "other"} : WF_vars(PostQuit(t))

-----------------------------------------------------------------------------
ObjectStates == {"none", "asked", "has", "dropped", "failed", "lost"}
LockStates   == {"none", "locked", "unlocked"}
Steps == {"construct", "calling", "constructed", "gateway", "wrapped", "passed",
          "refused", "failed"}

(* PyCom_DLLReleaseRef: a thread makes up its mind to end the server only *)
(* when no client has an object in it or keeps it locked, no thread of it  *)
(* uses COM and it is not about to create an object - whatever the         *)
(* constructors call, fail at or are interrupted by.                       *)
QuitWhenIdle ==
  [][ posting' \ posting # {}
      => objects' = {} /\ locks' = {} /\ creating' = <<>> /\ temps' = 0 ]_posting

Started == Served \/ \E c \in Clients : lockOf[c] = "unlocked"

(* localserver.py: a server does not leave its pump before a client has    *)
(* had it create an object or lock and unlock it, since the factories      *)
(* themselves are not counted.                                             *)
NotBeforeServed ==
  [][pc = "pump" /\ pc' = "revoke" => Started]_vars

Idle == /\ pc = "pump" /\ objects = {} /\ locks = {} /\ creating = <<>> /\ temps = 0
        /\ Served \/ \E c \in Clients : lockOf[c] = "unlocked" /\ ~Waiting(c)

(* dllmain.cpp: once the server has served and nothing of it is in use, it *)
(* goes: no reference is left in the count by a creation that failed.      *)
Exits == Idle ~> pc = "exited"
=============================================================================
