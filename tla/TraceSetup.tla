------------------------------ MODULE TraceSetup ------------------------------
(***************************************************************************)
(* How processes find the shared map of win32trace                         *)
(* (win32/src/win32trace.cpp): the module's initialisation picks the       *)
(* global or the session's local namespace by creating and closing         *)
(* mappings, InitRead and InitWrite open the map there, TermRead,          *)
(* TermWrite and the end of the process close it.                          *)
(*                                                                         *)
(* The kernel keeps a mapping's name as long as somebody has a handle to   *)
(* it, and its memory as long as somebody has a handle or a view; a        *)
(* mapping in the global namespace can be opened by everybody and created  *)
(* by an elevated process only.                                            *)
(***************************************************************************)
EXTENDS Integers

CONSTANTS
  Procs,          \* processes that import win32trace
  Sessions,       \* Remote Desktop sessions, each with a local namespace
  SessionOf,      \* the session of each process
  Elevated,       \* the processes that can create global objects
  Global,         \* the global namespace
  Objects,        \* bound: the mappings that exist at the same time
  Values,         \* bound: the values of the handles of a process
  Direct          \* bound: the processes that may use win32trace directly

Namespaces == Sessions \cup {Global}
Sides == {"read", "write"}
None  == 0                          \* NULL

ASSUME SetupAssumption ==
  /\ SessionOf \in [Procs -> Sessions]
  /\ Global \notin Sessions
  /\ Elevated \subseteq Procs
  /\ Objects \subseteq Nat \ {None}
  /\ Values \subseteq Nat \ {None}
  /\ Direct \subseteq Procs

VARIABLES
  oneByOne, \* TRUE: processes use win32traceutil, and those of one session do
            \* not start at the same time; FALSE: they use win32trace at will
  named,    \* the mapping known by the name in each namespace, or None
  handles,  \* the open handles: <<mapping, process, purpose, value>>
  views,    \* the mapped views: <<mapping, process, side>>
  text,     \* the mappings that hold text nobody has read
  pc,       \* where each process is
  ns,       \* use_global_namespace, as a namespace
  hMap,     \* hMapFileRead and hMapFileWrite: the value of a handle, or None
  pMap,     \* pMapBaseRead and pMapBaseWrite: the mapping that is seen there
  robbed    \* history: the processes in which one side has closed the handle
            \* of the other

vars == <<oneByOne, named, handles, views, text, pc, ns, hMap, pMap, robbed>>

Local(p) == SessionOf[p]
Probes   == {"probe", "probe2"}

Mapping  == [read |-> "mapRead", write |-> "mapWrite"]      \* in DoOpenMap
Closing  == [read |-> "closeRead", write |-> "closeWrite"]  \* in DoCloseMap

PC == {"start", "probeGlobal", "closeGlobal", "closeProbe", "ready", "exited",
       "mapRead", "mapWrite", "closeRead", "closeWrite"}

Closed == [s \in Sides |-> None]

Init ==
  /\ oneByOne \in BOOLEAN
  /\ named = [n \in Namespaces |-> None]
  /\ handles = {} /\ views = {} /\ text = {}
  /\ pc = [p \in Procs |-> "start"]
  /\ ns = [p \in Procs |-> Local(p)]          \* use_global_namespace = FALSE
  /\ hMap = [p \in Procs |-> Closed] /\ pMap = [p \in Procs |-> Closed]
  /\ robbed = {}

Goto(p, to) == pc' = [pc EXCEPT ![p] = to]

-----------------------------------------------------------------------------
(* The kernel.                                                             *)

InUse(o) == \/ \E h \in handles : h[1] = o
            \/ \E v \in views : v[1] = o

CanOpen(p, n) == n \in Sessions \/ named[n] # None \/ p \in Elevated

(* CreateFileMapping: a handle to the mapping of that name, which is       *)
(* created, empty, when there is none.  Any value may be the handle's that *)
(* is not that of an open one, also one that the process has closed.       *)
OpenHandles(p, value) == {h \in handles : h[2] = p /\ h[4] = value}

CreateFileMapping(p, n, purpose, o, value) ==
  /\ CanOpen(p, n)
  /\ OpenHandles(p, value) = {}
  /\ IF named[n] # None THEN o = named[n]
     ELSE o \in Objects /\ ~ InUse(o) /\ \A q \in Objects : InUse(q) \/ o <= q
  /\ named' = [named EXCEPT ![n] = o]
  /\ handles' = handles \cup {<<o, p, purpose, value>>}

(* CloseHandle and UnmapViewOfFile, for all the handles and views given:   *)
(* the last handle takes the name with it, the last of all the text.       *)
Release(hs, vs) ==
  LET left  == handles \ hs
      seen  == views \ vs
  IN  /\ handles' = left /\ views' = seen
      /\ named' = [n \in Namespaces |->
                     IF \E h \in left : h[1] = named[n] THEN named[n] ELSE None]
      /\ text' = {o \in text : \E x \in left \cup seen : x[1] = o}

-----------------------------------------------------------------------------
(* PYWIN_MODULE_INIT_FUNC(win32trace).                                     *)

Starting(p) == pc[p] \notin {"start", "exited"} /\ pMap[p] = Closed

ProbeLocal(p) ==
  /\ pc[p] = "start"
  /\ IF oneByOne THEN \A q \in Procs : SessionOf[q] = SessionOf[p] => ~ Starting(q)
     ELSE p \in Direct
  /\ IF named[Local(p)] # None THEN Goto(p, "closeProbe") ELSE Goto(p, "probeGlobal")
  /\ \E o \in Objects, value \in Values : CreateFileMapping(p, Local(p), "probe", o, value)
  /\ UNCHANGED <<views, text, ns, hMap, pMap, robbed>>

(* No local mapping existed: go global if the global one can be had.       *)
MutIgnoreGlobal(p) ==
  /\ pc[p] = "probeGlobal"
  /\ IF p \in Elevated
     THEN /\ \E o \in Objects, value \in Values :
             CreateFileMapping(p, Global, "probe2", o, value)
          /\ ns' = [ns EXCEPT ![p] = Global]
          /\ Goto(p, "closeGlobal")
     ELSE Goto(p, "closeProbe") /\ UNCHANGED <<named, handles, ns>>
  /\ UNCHANGED <<views, text, hMap, pMap, robbed>>
ProbeGlobal(p) ==
  /\ pc[p] = "probeGlobal"
  /\ IF CanOpen(p, Global)
     THEN /\ \E o \in Objects, value \in Values :
             CreateFileMapping(p, Global, "probe2", o, value)
          /\ ns' = [ns EXCEPT ![p] = Global]
          /\ Goto(p, "closeGlobal")
     ELSE Goto(p, "closeProbe") /\ UNCHANGED <<named, handles, ns>>
  /\ UNCHANGED <<views, text, hMap, pMap, robbed>>

CloseProbe(p) ==
  /\ \/ pc[p] = "closeGlobal" /\ Goto(p, "closeProbe")
        /\ Release({h \in handles : h[2] = p /\ h[3] = "probe2"}, {})
     \/ pc[p] = "closeProbe" /\ Goto(p, "ready")
        /\ Release({h \in handles : h[2] = p /\ h[3] = "probe"}, {})
  /\ UNCHANGED <<ns, hMap, pMap, robbed>>

-----------------------------------------------------------------------------
(* DoOpenMap and DoCloseMap.                                               *)

(* InitRead or InitWrite.  "Already open" and a CreateFileMapping that is  *)
(* refused raise an exception and change nothing; to win32traceutil the    *)
(* exception is the end of the process.                                    *)
OpenMap(p, s) ==
  /\ pc[p] = "ready"
  /\ oneByOne => pMap[p] = Closed
  /\ hMap[p][s] = None /\ pMap[p][s] = None
  /\ \E o \in Objects, value \in Values :
       /\ CreateFileMapping(p, ns[p], s, o, value)
       /\ hMap' = [hMap EXCEPT ![p][s] = value]
  /\ Goto(p, Mapping[s])
  /\ UNCHANGED <<views, text, ns, pMap, robbed>>

MutClearOnOpen(p, s) ==
  /\ pc[p] = Mapping[s]
  /\ \E h \in OpenHandles(p, hMap[p][s]) :
       /\ views' = views \cup {<<h[1], p, s>>}
       /\ pMap' = [pMap EXCEPT ![p][s] = h[1]]
       /\ text' = text \ {h[1]}
  /\ Goto(p, "ready")
  /\ UNCHANGED <<named, handles, ns, hMap, robbed>>
MapView(p, s) ==
  /\ pc[p] = Mapping[s]
  /\ \E h \in OpenHandles(p, hMap[p][s]) :
       /\ views' = views \cup {<<h[1], p, s>>}
       /\ pMap' = [pMap EXCEPT ![p][s] = h[1]]
  /\ Goto(p, "ready")
  /\ UNCHANGED <<named, handles, text, ns, hMap, robbed>>

(* MapViewOfFile failed: the handle is closed but not set to NULL.         *)
MapViewFails(p, s) ==
  /\ pc[p] = Mapping[s]
  /\ Release(OpenHandles(p, hMap[p][s]), {})
  /\ Goto(p, "ready")
  /\ UNCHANGED <<ns, hMap, pMap, robbed>>

(* TermRead or TermWrite: first the view, then the handle.                 *)
MutHandleFirst(p, s) ==
  /\ ~ oneByOne /\ pc[p] = "ready"
  /\ Release(OpenHandles(p, hMap[p][s]), {})
  /\ hMap' = [hMap EXCEPT ![p][s] = None]
  /\ Goto(p, Closing[s])
  /\ UNCHANGED <<ns, pMap, robbed>>
Unmap(p, s) ==
  /\ ~ oneByOne /\ pc[p] = "ready"
  /\ Release({}, {<<pMap[p][s], p, s>>})
  /\ pMap' = [pMap EXCEPT ![p][s] = None]
  /\ Goto(p, Closing[s])
  /\ UNCHANGED <<ns, hMap, robbed>>

(* After MapViewFails the value may by now be that of the other side's     *)
(* handle, which is closed.                                                *)
CloseMapHandle(p, s) ==
  /\ pc[p] = Closing[s]
  /\ Release(OpenHandles(p, hMap[p][s]), {})
  /\ robbed' = IF \E h \in OpenHandles(p, hMap[p][s]) : h[3] # s THEN robbed \cup {p}
               ELSE robbed
  /\ hMap' = [hMap EXCEPT ![p][s] = None]
  /\ Goto(p, "ready")
  /\ UNCHANGED <<ns, pMap>>

(* WriteData and ReadData as TraceBuffer has them, seen from here.         *)
WriteText(p) ==
  /\ pc[p] = "ready" /\ pMap[p]["write"] # None
  /\ text' = text \cup {pMap[p]["write"]}
  /\ UNCHANGED <<named, handles, views, pc, ns, hMap, pMap, robbed>>

ReadText(p) ==
  /\ pc[p] = "ready" /\ pMap[p]["read"] # None
  /\ text' = text \ {pMap[p]["read"]}
  /\ UNCHANGED <<named, handles, views, pc, ns, hMap, pMap, robbed>>

(* The process ends, or is killed, wherever it is; the kernel closes what  *)
(* it had open.  Another may be started in its place.                      *)
Exit(p) ==
  /\ pc[p] \notin {"start", "exited"}
  /\ Release({h \in handles : h[2] = p}, {v \in views : v[2] = p})
  /\ hMap' = [hMap EXCEPT ![p] = Closed] /\ pMap' = [pMap EXCEPT ![p] = Closed]
  /\ Goto(p, "exited") /\ robbed' = robbed \ {p}
  /\ UNCHANGED ns

Start(p) ==
  /\ pc[p] = "exited" /\ Goto(p, "start")
  /\ ns' = [ns EXCEPT ![p] = Local(p)]
  /\ UNCHANGED <<named, handles, views, text, hMap, pMap, robbed>>

Next ==
  /\ UNCHANGED oneByOne
  /\ \E p \in Procs :
       \/ ProbeLocal(p) \/ ProbeGlobal(p) \/ CloseProbe(p)
       \/ \E s \in Sides : \/ OpenMap(p, s) \/ MapView(p, s) \/ MapViewFails(p, s)
                           \/ Unmap(p, s) \/ CloseMapHandle(p, s)
       \/ WriteText(p) \/ ReadText(p)
       \/ Exit(p) \/ Start(p)

Spec == Init /\ [][Next]_vars

-----------------------------------------------------------------------------
(* Whatever map a process works in, its name still leads to it, so that    *)
(* whoever opens the map later finds the same one: no process goes on      *)
(* writing into a map that nobody else can reach (DoCloseMap unmaps before *)
(* it closes), unless it has closed the handle of its one side when it     *)
(* meant the other's: DoOpenMap keeps the value of a handle that it has    *)
(* closed when MapViewOfFile fails, and DoCloseMap closes it again.        *)
Reachable ==
  \A v \in views : v[2] \notin robbed => named[ns[v[2]]] = v[1]

(* Text that was written stays as long as any process has the map open     *)
(* (test_win32trace.py:82-85).                                             *)
TextKept ==
  [][\A o \in text : o \notin text' =>
       \/ \E p \in Procs : pMap[p]["read"] = o /\ pc[p] = "ready" /\ views' = views
       \/ \A p \in Procs, s \in Sides : pMap'[p][s] # o]_vars

(* Processes of one session that have the map open have the same map open, *)
(* when they use win32traceutil and start one after the other.             *)
SessionAgrees ==
  oneByOne => \A v, w \in views : SessionOf[v[2]] = SessionOf[w[2]] => v[1] = w[1]
=============================================================================
