------------------------------ MODULE GenCache ------------------------------
(***************************************************************************)
(* The cache of generated COM support (com/win32com/client/gencache.py,    *)
(* makepy.py and the files that genpy.py writes): a directory that the     *)
(* processes of a user share, with a module for each type library and an   *)
(* index of them, dicts.dat.  The processes are those of one session: the  *)
(* named mutexes are not known in another.                                 *)
(*                                                                         *)
(* Each process imports a module under the named mutex of the library and  *)
(* generates it when it is missing: in full, as <library>.py, or on        *)
(* demand, as a package to which the parts are added when they are needed. *)
(* Processes may be killed between any two steps that others can see.      *)
(***************************************************************************)
EXTENDS Integers, FiniteSets

CONSTANTS
  Procs,     \* the processes that use the cache, one thread each
  Libs,      \* the type libraries
  MaxCalls,  \* bound: the calls that the processes make in all
  Mortal,    \* the processes that may be killed
  MayFail,   \* the processes in which generating code, or putting it in its place,
             \* may fail
  Free       \* nobody owns the mutex

ASSUME CacheAssumption ==
  /\ MaxCalls \in Nat /\ Mortal \subseteq Procs /\ MayFail \subseteq Procs
  /\ Free \notin Procs

VARIABLES
  files,     \* what is in the directory: pairs of a library and a part
  dicts,     \* dicts.dat: "absent", "torn" (it ends too soon) or "whole"
  index,     \* the libraries of the entries of dicts.dat
  mutex,     \* the owner of each ModuleMutex
  pc,        \* where each process is
  job,       \* the call that it is in: the library, and what it needs of it
  calls,     \* how many were made
  known,     \* clsidToTypelib: the libraries of its entries
  mods,      \* sys.modules: what each library's module is in each process
  parts,     \* sys.modules: the libraries of which it has the part
  todo,      \* what Rebuild has yet to import
  hollowed,  \* history: the libraries whose package was left without its
             \* __init__.py, by a kill or by an error
  crossed    \* history: the processes of whose library another process has removed
             \* a file during the call that they are in

history == <<hollowed, crossed>>
disk   == <<files, dicts, index, mutex>>
memory == <<known, mods, parts>>
vars   == <<disk, memory, history, pc, job, calls, todo>>

Jobs  == {"full", "demand", "part"}   \* EnsureModule, and GetModuleForCLSID
NoJob == [lib |-> "none", needs |-> "none"]

Init ==
  /\ files = {} /\ dicts = "absent" /\ index = {}
  /\ mutex = [l \in Libs |-> Free]
  /\ pc = [p \in Procs |-> "off"] /\ job = [p \in Procs |-> NoJob]
  /\ calls = 0
  /\ known = [p \in Procs |-> {}]
  /\ mods = [p \in Procs |-> [l \in Libs |-> "none"]]
  /\ parts = [p \in Procs |-> {}] /\ todo = [p \in Procs |-> {}]
  /\ hollowed = {} /\ crossed = {}

Goto(p, from, to) == pc[p] \in from /\ pc' = [pc EXCEPT ![p] = to]

-----------------------------------------------------------------------------
(* Importing.  A package without __init__.py is imported as a namespace    *)
(* package, unless there is a module of the name: it is hollow, and        *)
(* whatever looks for a name in it fails with an AttributeError.           *)

Found(p, l) ==
  IF mods[p][l] # "none"          THEN mods[p][l]
  ELSE IF <<l, "init">> \in files THEN "package"
  ELSE IF <<l, "py">> \in files   THEN "module"
  ELSE IF <<l, "dir">> \in files  THEN "hollow"
  ELSE "none"

(* _GetModule by p, and AddModuleToCache in memory: the mutex is free when *)
(* it is taken, and released before anyone else can have it.               *)
GetModule(p, l) ==
  /\ mutex[l] = Free
  /\ mods' = [mods EXCEPT ![p][l] = Found(p, l)]
  /\ known' = [known EXCEPT ![p] = IF Found(p, l) \in {"package", "module"}
                                   THEN @ \cup {l} ELSE @]

-----------------------------------------------------------------------------
(* The import of gencache: _LoadDicts, or Rebuild when the file cannot be  *)
(* opened.  Nothing catches the error of a pickle that ends too soon.      *)

Boot(p) ==
  /\ \/ /\ dicts = "absent" /\ Goto(p, {"off"}, "rebuild") /\ UNCHANGED known
        /\ todo' = [todo EXCEPT ![p] = {l \in Libs : <<l, "py">> \in files \/ <<l, "dir">> \in files}]
     \/ dicts = "torn" /\ Goto(p, {"off"}, "unusable") /\ UNCHANGED <<known, todo>>
     \/ /\ dicts = "whole" /\ Goto(p, {"off"}, "idle") /\ UNCHANGED todo
        /\ known' = [known EXCEPT ![p] = index]
  /\ UNCHANGED <<disk, history, mods, parts, job, calls>>

(* Rebuild imports what it finds, whatever comes of it.                    *)
Rebuild(p) ==
  /\ \/ \E l \in todo[p] : /\ GetModule(p, l) /\ todo' = [todo EXCEPT ![p] = @ \ {l}]
                           /\ Goto(p, {"rebuild"}, "rebuild")
     \/ todo[p] = {} /\ Goto(p, {"rebuild"}, "save") /\ UNCHANGED <<known, mods, todo>>
  /\ UNCHANGED <<disk, history, parts, job, calls>>

(* _SaveDicts opens the file, which empties it, and writes what this       *)
(* process knows.                                                          *)
AfterSave(p) == IF job[p].needs = "part" THEN "importPart" ELSE "idle"

SaveDicts(p) ==
  /\ \/ Goto(p, {"save"}, "dump") /\ dicts' = "torn" /\ index' = {}
     \/ Goto(p, {"dump"}, AfterSave(p)) /\ dicts' = "whole" /\ index' = known[p]
  /\ UNCHANGED <<files, mutex, history, memory, job, calls, todo>>

-----------------------------------------------------------------------------
(* EnsureModule for a library, in full or on demand; GetModuleForCLSID for *)
(* an interface of it, which needs an entry of the dictionary.             *)
Begin(p) ==
  /\ calls < MaxCalls /\ Goto(p, {"idle", "raised", "failed"}, "import")
  /\ \E l \in Libs, needs \in Jobs :
       /\ needs = "part" => l \in known[p]
       /\ job' = [job EXCEPT ![p] = [lib |-> l, needs |-> needs]]
  /\ calls' = calls + 1 /\ crossed' = crossed \ {p}
  /\ UNCHANGED <<disk, hollowed, memory, todo>>

Lib(p) == job[p].lib

(* GetModuleForTypelib, first as an attempt and then of what was           *)
(* generated.  A module that is new to the process goes to the dictionary, *)
(* which is saved if that changes it.                                      *)
MutNoneRaises(p) ==
  LET found == Found(p, Lib(p))
  IN  /\ pc[p] \in {"import", "importNew"}
      /\ GetModule(p, Lib(p))
      /\ pc' = [pc EXCEPT ![p] =
           CASE found = "hollow" -> "raised"
             [] found = "none"   -> IF pc[p] = "importNew" \/ job[p].needs = "part" THEN "raised"
                                    ELSE "generate"
             [] OTHER            -> IF Lib(p) \notin known[p] THEN "save"
                                    ELSE AfterSave(p)]
      /\ UNCHANGED <<disk, history, parts, job, calls, todo>>
Import(p) ==
  LET found == Found(p, Lib(p))
  IN  /\ pc[p] \in {"import", "importNew"}
      /\ GetModule(p, Lib(p))
      /\ pc' = [pc EXCEPT ![p] =
           CASE found = "hollow" -> "raised"
             [] found = "none"   -> IF pc[p] = "importNew" THEN "raised"
                                    ELSE IF job[p].needs = "part" THEN "idle"
                                    ELSE "generate"
             [] OTHER            -> IF Lib(p) \notin known[p] THEN "save"
                                    ELSE AfterSave(p)]
      /\ UNCHANGED <<disk, history, parts, job, calls, todo>>

(* A part of a package; a module that was generated in full has no parts.  *)
PartFound(p) == Lib(p) \in parts[p] \/ <<Lib(p), "part">> \in files

ImportPart(p) ==
  /\ pc[p] \in {"importPart", "importNewPart"} /\ mutex[Lib(p)] = Free
  /\ \/ /\ mods[p][Lib(p)] = "module" /\ Goto(p, {"importPart"}, "idle")
        /\ UNCHANGED parts
     \/ /\ mods[p][Lib(p)] = "package" /\ PartFound(p)
        /\ Goto(p, {"importPart", "importNewPart"}, "idle")
        /\ parts' = [parts EXCEPT ![p] = @ \cup {Lib(p)}]
     \/ /\ mods[p][Lib(p)] = "package" /\ ~ PartFound(p)
        /\ Goto(p, {"importPart"}, "write") \/ Goto(p, {"importNewPart"}, "raised")
        /\ UNCHANGED parts
  /\ UNCHANGED <<disk, history, known, mods, job, calls, todo>>

-----------------------------------------------------------------------------
(* GenerateFromTypeLibSpec and generate_child.                             *)

(* p removes a file, which other processes may need in their calls.        *)
Removes(p, part) ==
  /\ files' = files \ {<<Lib(p), part>>}
  /\ crossed' = IF <<Lib(p), part>> \in files
                THEN crossed \cup {q \in Procs \ {p} : Lib(q) = Lib(p)} ELSE crossed

(* Generating on demand begins by removing the module generated in full.   *)
Generate(p) ==
  /\ Goto(p, {"generate"}, "write")
  /\ IF job[p].needs = "demand" THEN Removes(p, "py") ELSE UNCHANGED <<files, crossed>>
  /\ UNCHANGED <<dicts, index, mutex, hollowed, memory, job, calls, todo>>

(* The code is written to a temporary file, which no other process sees.   *)
Write(p) ==
  /\ \/ Goto(p, {"write"}, "finish")
     \/ p \in MayFail /\ Goto(p, {"write"}, "giveUp")
  /\ UNCHANGED <<disk, history, memory, job, calls, todo>>

Output(p) == CASE job[p].needs = "full"   -> "py"
               [] job[p].needs = "demand" -> "init"
               [] job[p].needs = "part"   -> "part"

(* finish_writer, which owns the mutex throughout: it makes the directory  *)
(* if need be, and puts the temporary file in its place ...                *)
MutNotExclusive(p) ==
  /\ \/ /\ Goto(p, {"finish"}, "replace")
        /\ files' = IF Output(p) = "py" THEN files ELSE files \cup {<<Lib(p), "dir">>}
     \/ /\ Goto(p, {"replace"}, IF Output(p) = "part" THEN "importNewPart" ELSE "importNew")
        /\ files' = files \cup {<<Lib(p), Output(p)>>}
  /\ UNCHANGED <<dicts, index, mutex, history, memory, job, calls, todo>>
FinishWriter(p) ==
  /\ \/ /\ Goto(p, {"finish"}, "replace")
        /\ mutex[Lib(p)] = Free /\ mutex' = [mutex EXCEPT ![Lib(p)] = p]
        /\ files' = IF Output(p) = "py" THEN files ELSE files \cup {<<Lib(p), "dir">>}
     \/ /\ Goto(p, {"replace"}, IF Output(p) = "part" THEN "importNewPart" ELSE "importNew")
        /\ files' = files \cup {<<Lib(p), Output(p)>>}
        /\ mutex' = [mutex EXCEPT ![Lib(p)] = Free]
  /\ UNCHANGED <<dicts, index, history, memory, job, calls, todo>>

(* The closing of the file, os.mkdir or os.replace raises: the error goes  *)
(* to the caller, and the directory, if it was made, stays.                *)
LeavesHollow(p) == Output(p) # "py" /\ <<Lib(p), "init">> \notin files

FinishFails(p) ==
  /\ p \in MayFail
  /\ \/ /\ Goto(p, {"finish"}, "failed") /\ mutex[Lib(p)] = Free
        /\ UNCHANGED <<mutex, hollowed>>
     \/ /\ Goto(p, {"replace"}, "failed") /\ mutex' = [mutex EXCEPT ![Lib(p)] = Free]
        /\ hollowed' = IF LeavesHollow(p) THEN hollowed \cup {Lib(p)} ELSE hollowed
  /\ UNCHANGED <<files, dicts, index, crossed, memory, job, calls, todo>>

(* ... or, when the generation failed, removes the file that it should     *)
(* have replaced, and the error goes to the caller.                        *)
MutKeepMutex(p) ==
  /\ Goto(p, {"giveUp"}, "failed")
  /\ mutex[Lib(p)] = Free /\ mutex' = [mutex EXCEPT ![Lib(p)] = p]
  /\ Removes(p, Output(p))
  /\ UNCHANGED <<dicts, index, hollowed, memory, job, calls, todo>>
GiveUp(p) ==
  /\ Goto(p, {"giveUp"}, "failed")
  /\ mutex[Lib(p)] = Free
  /\ Removes(p, Output(p))
  /\ hollowed' = IF Output(p) = "init" /\ <<Lib(p), "init">> \in files
                 THEN hollowed \cup {Lib(p)} ELSE hollowed
  /\ UNCHANGED <<dicts, index, mutex, memory, job, calls, todo>>

-----------------------------------------------------------------------------
(* A process is killed; a mutex that it owned is granted to the next that  *)
(* asks, who takes no notice that it was abandoned.                        *)
Crash(p) ==
  /\ p \in Mortal /\ pc[p] \notin {"off", "dead"}
  /\ pc' = [pc EXCEPT ![p] = "dead"]
  /\ mutex' = [l \in Libs |-> IF mutex[l] = p THEN Free ELSE mutex[l]]
  /\ hollowed' = IF pc[p] = "replace" /\ LeavesHollow(p) THEN hollowed \cup {Lib(p)}
                 ELSE hollowed
  /\ UNCHANGED <<files, dicts, index, crossed, memory, job, calls, todo>>

Step(p) ==
  \/ Boot(p) \/ Rebuild(p) \/ SaveDicts(p) \/ Import(p) \/ ImportPart(p)
  \/ Generate(p) \/ Write(p) \/ FinishWriter(p) \/ FinishFails(p)
  \/ GiveUp(p)

Next == \E p \in Procs : Step(p) \/ Begin(p) \/ Crash(p)

Spec == Init /\ [][Next]_vars /\ \A p \in Procs : WF_vars(Step(p))

-----------------------------------------------------------------------------
(* ModuleMutex: "writes (generation) don't interfere with each other and   *)
(* with reads (import)" (gencache.py:143).  No process imports a package   *)
(* without its contents because another is about to put them there; it     *)
(* does when one that was to do so, or to replace them, was killed or      *)
(* failed.                                                                 *)
NeverHollow ==
  \A p \in Procs, l \in Libs : mods[p][l] = "hollow" => l \in hollowed

(* EnsureModule finds the module or generates it, and GetModuleForCLSID    *)
(* does without the module when there is none any more, whatever stands in *)
(* the dictionary: what was removed is made good by the next call, and a   *)
(* call fails for want of what was generated only if another process has   *)
(* removed it during that very call, or if the package is hollow.          *)
EnsureSucceeds ==
  \A p \in Procs : pc[p] = "raised" => p \in crossed \/ mods[p][Lib(p)] = "hollow"

(* Every call comes to an end, whichever processes are killed or fail      *)
(* while they own a mutex.                                                 *)
Resting == {"idle", "raised", "failed", "unusable", "dead"}
Returns == \A p \in Procs : (pc[p] \notin Resting) ~> (pc[p] \in Resting)
=============================================================================
