---------------------------- MODULE GenCacheProofs ----------------------------
(* The guarantees of ModuleMutex, for any number of processes, of          *)
(* libraries and of calls, whoever is killed or fails.                     *)
EXTENDS GenCache, TLAPS

Calls == [lib : Libs, needs : Jobs]

AtWork == {"import", "generate", "write", "finish", "replace", "giveUp", "importNew",
           "importPart", "importNewPart", "raised", "failed"}

Steps == AtWork \cup {"off", "rebuild", "save", "dump", "idle", "unusable", "dead"}

Modules == {"none", "hollow", "module", "package"}

Types ==
  /\ mutex \in [Libs -> Procs \cup {Free}]
  /\ pc \in [Procs -> Steps] /\ job \in [Procs -> Calls \cup {NoJob}]
  /\ mods \in [Procs -> [Libs -> Modules]]
  /\ todo \in [Procs -> SUBSET Libs]
  /\ \A p \in Procs : pc[p] \in AtWork => job[p] \in Calls

(* A mutex is owned exactly during finish_writer.                          *)
Owned ==
  /\ \A p \in Procs : pc[p] = "replace" => mutex[Lib(p)] = p
  /\ \A l \in Libs : mutex[l] # Free => pc[mutex[l]] = "replace" /\ Lib(mutex[l]) = l

Filled(l) == <<l, "init">> \in files \/ l \in hollowed

(* A package without contents is seen only by the owner of the mutex, who  *)
(* puts them there; what was imported as a package has had them.           *)
Packages ==
  /\ \A p \in Procs, l \in Libs : mods[p][l] = "package" => Filled(l)
  /\ \A l \in Libs : <<l, "dir">> \in files =>
       Filled(l) \/ (mutex[l] # Free /\ job[mutex[l]].needs # "full")

(* A part is generated for a package that was imported; what a process has *)
(* generated is there when it imports it, unless another has removed it.   *)
Has(p) == <<Lib(p), Output(p)>> \in files \/ p \in crossed

Stage(p) ==
  /\ pc[p] = "generate" => job[p].needs # "part"
  /\ pc[p] \in {"write", "finish", "replace"} /\ job[p].needs = "part" =>
       mods[p][Lib(p)] = "package"
  /\ pc[p] = "importNew" => job[p].needs # "part" /\ Has(p)
  /\ pc[p] = "importNewPart" => job[p].needs = "part" /\ Has(p)

Stages == \A p \in Procs : Stage(p)

Inv == Types /\ Owned /\ Packages /\ Stages /\ NeverHollow /\ EnsureSucceeds

-----------------------------------------------------------------------------
LEMMA InitInv == Init => Inv
BY CacheAssumption
DEF Init, Inv, Types, Owned, Packages, Stages, Stage, NeverHollow, EnsureSucceeds, Steps,
    AtWork, Modules

(* Everything but what concerns p itself is as it was.                     *)
Others(p) ==
  /\ pc' \in [Procs -> Steps] /\ job' \in [Procs -> Calls \cup {NoJob}]
  /\ todo' \in [Procs -> SUBSET Libs] /\ mods' \in [Procs -> [Libs -> Modules]]
  /\ pc'[p] \in AtWork => job'[p] \in Calls
  /\ \A q \in Procs \ {p} : /\ pc'[q] = pc[q] /\ job'[q] = job[q] /\ mods'[q] = mods[q]
                            /\ q \in crossed => q \in crossed'
  /\ hollowed \subseteq hollowed'
  /\ \A l \in Libs : mods'[p][l] = "package" => mods[p][l] = "package" \/ Filled(l)'
  /\ \A l \in Libs : mods'[p][l] = "hollow" => mods[p][l] = "hollow" \/ l \in hollowed'
  /\ pc'[p] = "raised" => p \in crossed' \/ mods'[p][Lib(p)'] = "hollow"

(* A step of p that leaves files, mutexes and records alone.               *)
LEMMA Reads ==
  ASSUME Inv, NEW p \in Procs, Others(p), Stage(p)', UNCHANGED <<files, mutex>>,
         pc[p] # "replace", pc'[p] # "replace"
  PROVE  Inv'
<1> USE DEF Inv
<1>1. Types'
  BY DEF Types, Others
<1>2. Owned'
  <2>1. \A q \in Procs : pc'[q] = "replace" <=> pc[q] = "replace"
    BY DEF Others
  <2>2. \A q \in Procs : pc[q] = "replace" => Lib(q)' = Lib(q)
    BY DEF Others, Lib
  <2>3. \A l \in Libs : mutex[l] # Free => mutex[l] \in Procs
    BY DEF Types
  <2> QED BY <2>1, <2>2, <2>3 DEF Owned, Lib
<1>3. Packages'
  <2>1. \A l \in Libs : Filled(l) => Filled(l)'
    BY DEF Filled, Others
  <2>2. ASSUME NEW l \in Libs, <<l, "dir">> \in files
        PROVE  Filled(l)' \/ (mutex[l] # Free /\ job'[mutex[l]].needs # "full")
    <3>1. CASE mutex[l] # Free
      <4>1. mutex[l] \in Procs \ {p}
        BY <3>1 DEF Types, Owned
      <4>2. job'[mutex[l]] = job[mutex[l]]
        BY <4>1 DEF Others
      <4> QED BY <2>1, <2>2, <3>1, <4>2 DEF Packages
    <3>2. CASE mutex[l] = Free
      BY <2>1, <2>2, <3>2 DEF Packages
    <3> QED BY <3>1, <3>2
  <2>3. ASSUME NEW q \in Procs, NEW l \in Libs, mods'[q][l] = "package" PROVE Filled(l)'
    BY <2>1, <2>3 DEF Packages, Others
  <2> QED BY <2>2, <2>3 DEF Packages
<1>4. Stages'
  <2>1. ASSUME NEW q \in Procs \ {p} PROVE Stage(q)'
    <3>1. pc'[q] = pc[q] /\ job'[q] = job[q] /\ mods'[q] = mods[q]
      BY DEF Others
    <3>2. Has(q) => Has(q)'
      <4>1. Lib(q)' = Lib(q) /\ Output(q)' = Output(q)
        BY <3>1 DEF Lib, Output
      <4> QED BY <4>1 DEF Has, Others
    <3> QED BY <3>1, <3>2 DEF Stages, Stage, Lib
  <2> QED BY <2>1 DEF Stages
<1>5. NeverHollow' /\ EnsureSucceeds'
  BY DEF NeverHollow, EnsureSucceeds, Others, Lib
<1> QED BY <1>1, <1>2, <1>3, <1>4, <1>5

-----------------------------------------------------------------------------
(* Steps that change no file and no mutex.                                 *)

LEMMA BootInv == ASSUME Inv, NEW p \in Procs, Boot(p) PROVE Inv'
<1> USE DEF Inv
<1>1. /\ pc[p] = "off" /\ \E s \in {"rebuild", "unusable", "idle"} :
                             pc' = [pc EXCEPT ![p] = s]
      /\ \E S \in SUBSET Libs : todo' = [todo EXCEPT ![p] = S] \/ todo' = todo
  <2>1. {l \in Libs : <<l, "py">> \in files \/ <<l, "dir">> \in files} \in SUBSET Libs
    OBVIOUS
  <2> QED BY <2>1 DEF Boot, Goto
<1>2. /\ UNCHANGED <<files, mutex, hollowed, crossed, mods, job>>
      /\ todo' \in [Procs -> SUBSET Libs]
      /\ pc' \in [Procs -> Steps] /\ pc'[p] \in {"rebuild", "unusable", "idle"}
      /\ \A q \in Procs \ {p} : pc'[q] = pc[q]
  BY <1>1 DEF Boot, disk, history, Types, Steps
<1>3. Others(p)
  BY <1>2 DEF Others, Types, AtWork
<1> QED BY <1>1, <1>2, <1>3, Reads DEF Stage

(* What is imported while the mutex is free is what it seems, or the       *)
(* package was left hollow.                                                *)
LEMMA FoundSound ==
  ASSUME Inv, NEW p \in Procs, NEW l \in Libs, mutex[l] = Free
  PROVE  /\ Found(p, l) \in Modules
         /\ Found(p, l) = "package" => Filled(l)
         /\ Found(p, l) = "hollow" => l \in hollowed
         /\ Found(p, l) = "none" => <<l, "init">> \notin files /\ <<l, "py">> \notin files
BY DEF Inv, Types, Packages, Filled, NeverHollow, Found, Modules

LEMMA GetModuleMods ==
  ASSUME Inv, NEW p \in Procs, NEW l \in Libs, GetModule(p, l), UNCHANGED <<disk, history>>
  PROVE  /\ mods' \in [Procs -> [Libs -> Modules]] /\ mods'[p][l] = Found(p, l)
         /\ \A q \in Procs \ {p} : mods'[q] = mods[q]
         /\ \A k \in Libs : k # l => mods'[p][k] = mods[p][k]
         /\ \A k \in Libs : mods'[p][k] = "package" => mods[p][k] = "package" \/ Filled(k)'
         /\ \A k \in Libs : mods'[p][k] = "hollow" => mods[p][k] = "hollow" \/ k \in hollowed'
<1>1. mods \in [Procs -> [Libs -> Modules]] /\ Found(p, l) \in Modules
  BY FoundSound DEF Inv, Types, GetModule
<1>2. mods' = [mods EXCEPT ![p] = [mods[p] EXCEPT ![l] = Found(p, l)]]
  BY <1>1 DEF GetModule
<1>3. [mods[p] EXCEPT ![l] = Found(p, l)] \in [Libs -> Modules]
  BY <1>1
<1>4. /\ mods' \in [Procs -> [Libs -> Modules]] /\ mods'[p][l] = Found(p, l)
      /\ \A q \in Procs \ {p} : mods'[q] = mods[q]
      /\ \A k \in Libs : k # l => mods'[p][k] = mods[p][k]
  BY <1>1, <1>2, <1>3
<1>5. \A k \in Libs : Filled(k)' <=> Filled(k)
  BY DEF Filled, disk, history
<1> QED BY <1>4, <1>5, FoundSound DEF GetModule, history

LEMMA RebuildInv == ASSUME Inv, NEW p \in Procs, Rebuild(p) PROVE Inv'
<1> USE DEF Inv
<1>1. /\ UNCHANGED <<files, mutex, hollowed, crossed, job>> /\ UNCHANGED <<disk, history>>
      /\ pc[p] = "rebuild" /\ pc'[p] \in {"rebuild", "save"} /\ pc' \in [Procs -> Steps]
      /\ \A q \in Procs \ {p} : pc'[q] = pc[q]
  BY DEF Rebuild, Goto, disk, history, Types, Steps
<1>2. CASE UNCHANGED <<mods, todo>>
  <2>1. Others(p)
    BY <1>1, <1>2 DEF Others, Types, AtWork
  <2> QED BY <1>1, <2>1, Reads DEF Stage
<1>3. ASSUME NEW l \in todo[p], GetModule(p, l), todo' = [todo EXCEPT ![p] = @ \ {l}]
      PROVE  Inv'
  <2>1. l \in Libs /\ todo' \in [Procs -> SUBSET Libs]
    BY <1>3 DEF Types
  <2>2. Others(p)
    BY <1>1, <1>3, <2>1, GetModuleMods DEF Others, Types, AtWork
  <2> QED BY <1>1, <2>2, Reads DEF Stage
<1> QED BY <1>2, <1>3 DEF Rebuild

LEMMA SaveDictsInv == ASSUME Inv, NEW p \in Procs, SaveDicts(p) PROVE Inv'
<1> USE DEF Inv
<1>1. \E s \in {"dump", "importPart", "idle"} :
        pc' = [pc EXCEPT ![p] = s] /\ (s = "importPart" => job[p].needs = "part")
  BY DEF SaveDicts, Goto, AfterSave
<1>2. /\ UNCHANGED <<files, mutex, hollowed, crossed, mods, job, todo>>
      /\ pc[p] \in {"save", "dump"}
  BY DEF SaveDicts, Goto, history, memory
<1>3. job[p].needs = "part" => job[p] \in Calls
  BY DEF Types, NoJob
<1>4. Others(p)
  BY <1>1, <1>2, <1>3 DEF Others, Types, Steps, AtWork
<1>5. pc'[p] \in {"dump", "importPart", "idle"}
  BY <1>1 DEF Types
<1> QED BY <1>2, <1>4, <1>5, Reads DEF Stage

LEMMA BeginInv == ASSUME Inv, NEW p \in Procs, Begin(p) PROVE Inv'
<1> USE DEF Inv
<1>1. PICK l \in Libs, needs \in Jobs :
        job' = [job EXCEPT ![p] = [lib |-> l, needs |-> needs]]
  BY DEF Begin
<1>2. /\ UNCHANGED <<files, mutex, hollowed, mods, todo>> /\ crossed' = crossed \ {p}
      /\ pc' = [pc EXCEPT ![p] = "import"] /\ pc[p] \in {"idle", "raised", "failed"}
  BY DEF Begin, Goto, disk, memory
<1>3. Others(p)
  BY <1>1, <1>2 DEF Others, Types, Steps, AtWork, Calls
<1>4. pc'[p] = "import"
  BY <1>2 DEF Types
<1> QED BY <1>2, <1>3, <1>4, Reads DEF Stage

LEMMA ImportInv == ASSUME Inv, NEW p \in Procs, Import(p) PROVE Inv'
<1> USE DEF Inv
<1>1. /\ Lib(p) \in Libs /\ job[p] \in Calls /\ job'[p] = job[p]
      /\ GetModule(p, Lib(p)) /\ mutex[Lib(p)] = Free
      /\ UNCHANGED <<files, mutex, hollowed, crossed, job, todo>> /\ UNCHANGED <<disk, history>>
      /\ pc[p] \in {"import", "importNew"}
  BY DEF Import, GetModule, Types, AtWork, Calls, Lib, disk, history
<1>2. \E s \in {"raised", "idle", "generate", "save", "importPart"} :
        /\ pc' = [pc EXCEPT ![p] = s]
        /\ s = "generate" => job[p].needs # "part"
        /\ s = "raised" => p \in crossed \/ Found(p, Lib(p)) = "hollow"
  <2>1. CASE Found(p, Lib(p)) = "hollow"
    BY <2>1 DEF Import
  <2>2. CASE Found(p, Lib(p)) = "none"
    <3>1. <<Lib(p), "init">> \notin files /\ <<Lib(p), "py">> \notin files
      BY <1>1, <2>2, FoundSound
    <3>2. pc[p] = "importNew" => p \in crossed
      <4>1. pc[p] = "importNew" => Has(p) /\ job[p].needs \in {"full", "demand"}
        BY <1>1 DEF Stages, Stage, Calls, Jobs
      <4>2. job[p].needs \in {"full", "demand"} => Output(p) \in {"py", "init"}
        BY DEF Output
      <4> QED BY <3>1, <4>1, <4>2 DEF Has
    <3> QED BY <1>1, <2>2, <3>2 DEF Import
  <2>3. CASE Found(p, Lib(p)) \notin {"hollow", "none"}
    BY <2>3 DEF Import, AfterSave
  <2> QED BY <2>1, <2>2, <2>3
<1>3. pc' \in [Procs -> Steps] /\ \A q \in Procs \ {p} : pc'[q] = pc[q]
  BY <1>2 DEF Types, Steps, AtWork
<1>4. /\ pc'[p] \in {"raised", "idle", "generate", "save", "importPart"}
      /\ pc'[p] = "generate" => job[p].needs # "part"
      /\ pc'[p] = "raised" => p \in crossed \/ Found(p, Lib(p)) = "hollow"
  BY <1>2 DEF Types
<1>5. Others(p)
  BY <1>1, <1>3, <1>4, GetModuleMods DEF Others, Types, Lib
<1> QED BY <1>1, <1>4, <1>5, Reads DEF Stage

LEMMA ImportPartInv == ASSUME Inv, NEW p \in Procs, ImportPart(p) PROVE Inv'
<1> USE DEF Inv
<1>1. /\ UNCHANGED <<files, mutex, hollowed, crossed, job, todo, mods>>
      /\ pc[p] \in {"importPart", "importNewPart"} /\ job[p] \in Calls
  BY DEF ImportPart, disk, history, Types, AtWork
<1>2. \E s \in {"idle", "write", "raised"} :
        /\ pc' = [pc EXCEPT ![p] = s]
        /\ s = "write" => mods[p][Lib(p)] = "package"
        /\ s = "raised" => pc[p] = "importNewPart" /\ <<Lib(p), "part">> \notin files
  BY DEF ImportPart, Goto, PartFound
<1>3. /\ pc' \in [Procs -> Steps] /\ \A q \in Procs \ {p} : pc'[q] = pc[q]
      /\ pc'[p] \in {"idle", "write", "raised"}
      /\ pc'[p] = "write" => mods[p][Lib(p)] = "package"
      /\ pc'[p] = "raised" => pc[p] = "importNewPart" /\ <<Lib(p), "part">> \notin files
  BY <1>2 DEF Types, Steps, AtWork
<1>4. pc'[p] = "raised" => p \in crossed
  BY <1>3 DEF Stages, Stage, Has, Output
<1>5. Others(p)
  BY <1>1, <1>3, <1>4 DEF Others, Types
<1> QED BY <1>1, <1>3, <1>5, Reads DEF Stage, Lib

LEMMA WriteInv == ASSUME Inv, NEW p \in Procs, Write(p) PROVE Inv'
<1> USE DEF Inv
<1>1. /\ UNCHANGED <<files, mutex, hollowed, crossed, job, todo, mods>> /\ pc[p] = "write"
      /\ pc' \in [Procs -> Steps] /\ \A q \in Procs \ {p} : pc'[q] = pc[q]
      /\ pc'[p] \in {"finish", "giveUp"} /\ job[p] \in Calls
  BY DEF Write, Goto, disk, history, memory, Types, Steps, AtWork
<1>2. Others(p)
  BY <1>1 DEF Others, Types
<1> QED BY <1>1, <1>2, Reads DEF Stage, Stages, Lib

-----------------------------------------------------------------------------
(* Steps that write or remove files.                                       *)

(* A step of p that changes the files of its library, and its mutex: what  *)
(* was there is there, or was removed on record.                           *)
LEMMA Writes ==
  ASSUME Inv, NEW p \in Procs, Others(p), Stage(p)', Owned', UNCHANGED <<job, mods>>,
         mutex' \in [Libs -> Procs \cup {Free}],
         \A l \in Libs : Filled(l) => Filled(l)',
         \A l \in Libs : l # Lib(p) => mutex'[l] = mutex[l]
                                       /\ (<<l, "dir">> \in files' => <<l, "dir">> \in files),
         NEW k \in Libs, k = Lib(p),
         <<k, "dir">> \in files' => Filled(k)'
            \/ (mutex'[k] # Free /\ job[mutex'[k]].needs # "full"),
         \A q \in Procs \ {p} : Has(q) => Has(q)'
  PROVE  Inv'
<1> USE DEF Inv
<1>1. Types'
  BY DEF Types, Others
<1>2. Packages'
  <2>1. ASSUME NEW l \in Libs, <<l, "dir">> \in files'
        PROVE  Filled(l)' \/ (mutex'[l] # Free /\ job[mutex'[l]].needs # "full")
    <3>1. CASE l = k
      BY <2>1, <3>1
    <3>2. CASE l # k
      BY <2>1, <3>2 DEF Packages
    <3> QED BY <3>1, <3>2
  <2>2. ASSUME NEW q \in Procs, NEW l \in Libs, mods[q][l] = "package" PROVE Filled(l)'
    BY <2>2 DEF Packages
  <2> QED BY <2>1, <2>2 DEF Packages
<1>3. Stages'
  <2>1. ASSUME NEW q \in Procs \ {p} PROVE Stage(q)'
    BY DEF Stages, Stage, Lib, Others
  <2> QED BY <2>1 DEF Stages
<1>4. NeverHollow' /\ EnsureSucceeds'
  BY DEF NeverHollow, EnsureSucceeds, Others, Lib
<1> QED BY <1>1, <1>2, <1>3, <1>4

LEMMA RemovesInv ==
  ASSUME Inv, NEW p \in Procs, Generate(p) \/ GiveUp(p)
  PROVE  Inv'
<1> USE DEF Inv
<1>1. /\ pc' \in [Procs -> Steps] /\ \A q \in Procs \ {p} : pc'[q] = pc[q]
      /\ pc'[p] \in {"write", "failed"} /\ pc[p] \in {"generate", "giveUp"}
      /\ pc'[p] = "write" => pc[p] = "generate"
      /\ UNCHANGED <<mutex, job, mods, todo>> /\ job[p] \in Calls
  BY DEF Generate, GiveUp, Goto, memory, Types, Steps, AtWork
<1>2. \E part \in {"py", Output(p)} :
        /\ files' = files \ {<<Lib(p), part>>} \/ files' = files
        /\ part # "init" => UNCHANGED hollowed
        /\ <<Lib(p), part>> \in files /\ <<Lib(p), part>> \notin files' =>
             /\ crossed' = crossed \cup {q \in Procs \ {p} : Lib(q) = Lib(p)}
             /\ part = "init" => Lib(p) \in hollowed'
        /\ crossed \subseteq crossed' /\ hollowed \subseteq hollowed'
  <2>1. CASE Generate(p)
    BY <2>1 DEF Generate, Removes
  <2>2. CASE GiveUp(p)
    BY <2>2 DEF GiveUp, Removes
  <2> QED BY <2>1, <2>2
<1>3. PICK part \in {"py", Output(p)} :
        /\ files' = files \ {<<Lib(p), part>>} \/ files' = files
        /\ <<Lib(p), part>> \in files /\ <<Lib(p), part>> \notin files' =>
             /\ crossed' = crossed \cup {q \in Procs \ {p} : Lib(q) = Lib(p)}
             /\ part = "init" => Lib(p) \in hollowed'
        /\ crossed \subseteq crossed' /\ hollowed \subseteq hollowed'
  BY <1>2
<1>4. part # "dir"
  BY <1>1 DEF Output, Calls, Jobs
<1>5. \A l \in Libs : Filled(l) => Filled(l)'
  BY <1>3 DEF Filled
<1>6. \A q \in Procs \ {p} : Has(q) => Has(q)'
  BY <1>1, <1>3 DEF Has, Lib, Output
<1>7. Others(p)
  BY <1>1, <1>3 DEF Others, Types, AtWork
<1>8. Stage(p)'
  BY <1>1 DEF Stage, Stages, Lib
<1>9. Owned'
  BY <1>1 DEF Owned, Lib, Types
<1>13. PICK k \in Libs : k = Lib(p)
  BY <1>1 DEF Calls, Lib
<1>10. <<k, "dir">> \in files' => Filled(k)'
            \/ (mutex'[k] # Free /\ job[mutex'[k]].needs # "full")
  BY <1>1, <1>3, <1>5 DEF Packages
<1>11. \A l \in Libs : l # Lib(p) => mutex'[l] = mutex[l]
                                     /\ (<<l, "dir">> \in files' => <<l, "dir">> \in files)
  BY <1>1, <1>3
<1>12. mutex' \in [Libs -> Procs \cup {Free}]
  BY <1>1 DEF Types
<1> QED BY <1>1, <1>5, <1>6, <1>7, <1>8, <1>9, <1>10, <1>11, <1>12, <1>13, Writes

(* finish_writer takes the mutex, and gives it back.                       *)
LEMMA Finishing ==
  ASSUME Inv, NEW p \in Procs, FinishWriter(p) \/ FinishFails(p)
  PROVE  /\ pc' \in [Procs -> Steps] /\ pc[p] \in {"finish", "replace"}
         /\ pc'[p] \in {"replace", "importNewPart", "importNew", "failed"}
         /\ \A q \in Procs \ {p} : pc'[q] = pc[q]
         /\ UNCHANGED <<job, mods, todo, crossed>> /\ job[p] \in Calls /\ Lib(p) \in Libs
         /\ job[p].needs \in Jobs
         /\ files \subseteq files' /\ hollowed \subseteq hollowed'
         /\ Others(p) /\ \A l \in Libs : Filled(l) => Filled(l)'
         /\ \A q \in Procs \ {p} : Has(q) => Has(q)'
<1>1. /\ pc' \in [Procs -> Steps] /\ pc[p] \in {"finish", "replace"}
      /\ pc'[p] \in {"replace", "importNewPart", "importNew", "failed"}
      /\ \A q \in Procs \ {p} : pc'[q] = pc[q]
  BY DEF FinishWriter, FinishFails, Goto, Inv, Types, Steps, AtWork
<1>2. UNCHANGED <<job, mods, todo, crossed>> /\ hollowed \subseteq hollowed'
      /\ files \subseteq files'
  BY DEF FinishWriter, FinishFails, memory, history
<1>3. job[p] \in Calls /\ Lib(p) \in Libs /\ job[p].needs \in Jobs
  BY <1>1 DEF Inv, Types, AtWork, Calls, Lib
<1>4. Others(p)
  BY <1>1, <1>2, <1>3 DEF Others, Inv, Types
<1>5. /\ \A l \in Libs : Filled(l) => Filled(l)'
      /\ \A q \in Procs \ {p} : Has(q) => Has(q)'
  BY <1>2 DEF Filled, Has, Lib, Output
<1> QED BY <1>1, <1>2, <1>3, <1>4, <1>5

LEMMA TakesMutex ==
  ASSUME Inv, NEW p \in Procs, FinishWriter(p), pc[p] = "finish"
  PROVE  Inv'
<1> USE DEF Inv
<1>1. /\ pc'[p] = "replace" /\ mutex[Lib(p)] = Free
      /\ mutex' = [mutex EXCEPT ![Lib(p)] = p]
      /\ files' = IF Output(p) = "py" THEN files ELSE files \cup {<<Lib(p), "dir">>}
      /\ hollowed' = hollowed
  BY DEF FinishWriter, Goto, Types, history
<1>2. /\ mutex' \in [Libs -> Procs \cup {Free}] /\ mutex'[Lib(p)] = p
      /\ \A l \in Libs : l # Lib(p) => mutex'[l] = mutex[l]
  BY <1>1, Finishing DEF Types
<1>3. Owned'
  <2>1. p # Free
    BY CacheAssumption DEF CacheAssumption
  <2>2. \A q \in Procs \ {p} : pc[q] = "replace" => Lib(q) \in Libs /\ Lib(q) # Lib(p)
    BY <1>1, CacheAssumption DEF Owned, Types, AtWork, Calls, Lib, CacheAssumption
  <2>3. \A q \in Procs : Lib(q)' = Lib(q)
    BY Finishing DEF Lib
  <2>4. ASSUME NEW q \in Procs, pc'[q] = "replace" PROVE mutex'[Lib(q)] = q
    BY <1>2, <2>2, <2>4, Finishing DEF Owned
  <2>5. ASSUME NEW l \in Libs, mutex'[l] # Free
        PROVE  pc'[mutex'[l]] = "replace" /\ Lib(mutex'[l]) = l
    <3>1. CASE l = Lib(p)
      BY <1>1, <1>2, <3>1
    <3>2. CASE l # Lib(p)
      <4>1. /\ mutex'[l] = mutex[l] /\ mutex[l] \in Procs /\ mutex[l] # Free
            /\ pc[mutex[l]] = "replace" /\ Lib(mutex[l]) = l
        BY <1>2, <2>5, <3>2 DEF Owned, Types
      <4> QED BY <3>2, <4>1, Finishing
    <3> QED BY <3>1, <3>2
  <2>6. \A l \in Libs : mutex'[l] # Free => mutex'[l] \in Procs
    BY <1>2
  <2> QED BY <2>3, <2>4, <2>5, <2>6 DEF Owned
<1>4. Stage(p)'
  BY <1>1, Finishing DEF Stages, Stage, Lib
<1>7. PICK k \in Libs : k = Lib(p)
  BY Finishing
<1>5. <<k, "dir">> \in files' => Filled(k)'
            \/ (mutex'[k] # Free /\ job[mutex'[k]].needs # "full")
  <2>1. CASE job[p].needs = "full"
    BY <1>1, <1>7, <2>1, Finishing DEF Packages, Output
  <2>2. CASE job[p].needs # "full"
    BY <1>2, <1>7, <2>2, CacheAssumption DEF CacheAssumption
  <2> QED BY <2>1, <2>2
<1>6. \A l \in Libs : l # Lib(p) => (<<l, "dir">> \in files' => <<l, "dir">> \in files)
  BY <1>1
<1> QED BY <1>2, <1>3, <1>4, <1>5, <1>6, <1>7, Finishing, Writes

(* Who is in finish_writer gives its mutex back, or is killed.             *)
LEMMA Released ==
  ASSUME Inv, NEW p \in Procs, pc[p] = "replace", pc'[p] # "replace",
         \A q \in Procs \ {p} : pc'[q] = pc[q], UNCHANGED job,
         mutex' = [mutex EXCEPT ![Lib(p)] = Free]
  PROVE  /\ Owned' /\ mutex' \in [Libs -> Procs \cup {Free}]
         /\ Lib(p) \in Libs /\ mutex'[Lib(p)] = Free
         /\ \A l \in Libs : l # Lib(p) => mutex'[l] = mutex[l]
<1> USE DEF Inv
<1>1. Lib(p) \in Libs
  BY DEF Types, AtWork, Calls, Lib
<1>2. /\ mutex' \in [Libs -> Procs \cup {Free}] /\ mutex'[Lib(p)] = Free
      /\ \A l \in Libs : l # Lib(p) => mutex'[l] = mutex[l]
  BY <1>1 DEF Types
<1>3. ASSUME NEW q \in Procs, pc'[q] = "replace" PROVE mutex'[Lib(q)] = q
  <2>1. q # p /\ pc[q] = "replace" /\ Lib(q) \in Libs
    BY <1>3 DEF Types, AtWork, Calls, Lib
  <2> QED BY <1>2, <2>1 DEF Owned
<1>4. ASSUME NEW l \in Libs, mutex'[l] # Free
      PROVE  pc'[mutex'[l]] = "replace" /\ Lib(mutex'[l]) = l
  <2>1. /\ l # Lib(p) /\ mutex'[l] = mutex[l] /\ mutex[l] \in Procs
        /\ pc[mutex[l]] = "replace" /\ Lib(mutex[l]) = l
    BY <1>2, <1>4 DEF Owned, Types
  <2> QED BY <2>1
<1>5. \A q : Lib(q)' = Lib(q)
  BY DEF Lib
<1> QED BY <1>1, <1>2, <1>3, <1>4, <1>5 DEF Owned

LEMMA FinishWriterInv == ASSUME Inv, NEW p \in Procs, FinishWriter(p) PROVE Inv'
<1> USE DEF Inv
<1>1. CASE pc[p] = "finish"
  BY <1>1, TakesMutex
<1>2. CASE pc[p] = "replace"
  <2>1. /\ pc'[p] = IF Output(p) = "part" THEN "importNewPart" ELSE "importNew"
        /\ files' = files \cup {<<Lib(p), Output(p)>>}
        /\ mutex' = [mutex EXCEPT ![Lib(p)] = Free]
    BY <1>2 DEF FinishWriter, Goto, Types
  <2>2. Output(p) \in {"py", "init", "part"} /\ (Output(p) = "part" <=> job[p].needs = "part")
    BY Finishing DEF Output, Jobs
  <2>3. pc'[p] # "replace"
    BY <2>1
  <2>7. PICK k \in Libs : k = Lib(p)
    BY Finishing
  <2>4. <<k, "dir">> \in files' => Filled(k)'
    <3>1. CASE job[p].needs = "demand"
      BY <2>1, <2>7, <3>1 DEF Filled, Output
    <3>2. CASE job[p].needs = "part"
      <4>1. mods[p][k] = "package"
        BY <1>2, <2>7, <3>2 DEF Stages, Stage
      <4> QED BY <4>1, Finishing DEF Packages
    <3>3. CASE job[p].needs = "full"
      <4>1. mutex[k] = p /\ Output(p) = "py"
        BY <1>2, <2>7, <3>3 DEF Owned, Output
      <4>2. <<k, "dir">> \in files' => <<k, "dir">> \in files
        BY <2>1, <4>1
      <4> QED BY <3>3, <4>1, <4>2, Finishing DEF Packages
    <3>4. job[p].needs \in {"full", "demand", "part"}
      BY Finishing DEF Jobs
    <3> QED BY <3>1, <3>2, <3>3, <3>4
  <2>5. Stage(p)'
    <3>1. Output(p)' = Output(p) /\ Lib(p)' = Lib(p)
      BY Finishing DEF Output, Lib
    <3>2. Has(p)'
      BY <2>1, <3>1 DEF Has
    <3> QED BY <2>1, <2>2, <3>2, Finishing DEF Stage
  <2>6. \A l \in Libs : l # Lib(p) => (<<l, "dir">> \in files' => <<l, "dir">> \in files)
    BY <2>1
  <2> QED BY <1>2, <2>1, <2>3, <2>4, <2>5, <2>6, <2>7, Finishing, Released, Writes
<1> QED BY <1>1, <1>2, Finishing

(* What is left behind in finish_writer is on record.                      *)
LEMMA LeftBehind ==
  ASSUME Inv, NEW p \in Procs, NEW k \in Libs, k = Lib(p), pc[p] = "replace",
         files' = files, hollowed \subseteq hollowed', LeavesHollow(p) => k \in hollowed'
  PROVE  <<k, "dir">> \in files' => Filled(k)'
<1>1. mutex[k] = p
  BY DEF Inv, Owned
<1>2. CASE job[p].needs = "full"
  BY <1>1, <1>2 DEF Inv, Packages, Filled
<1>3. CASE job[p].needs # "full"
  <2>1. job[p].needs \in {"demand", "part"}
    BY <1>3 DEF Inv, Types, AtWork, Calls, Jobs
  <2>2. Output(p) # "py"
    BY <2>1 DEF Output
  <2> QED BY <2>2 DEF LeavesHollow, Filled
<1> QED BY <1>2, <1>3

LEMMA FinishFailsInv == ASSUME Inv, NEW p \in Procs, FinishFails(p) PROVE Inv'
<1> USE DEF Inv
<1>1. pc'[p] = "failed" /\ files' = files
  BY DEF FinishFails, Goto, Types
<1>2. Stage(p)'
  BY <1>1 DEF Stage
<1>3. CASE pc[p] = "finish"
  <2>1. UNCHANGED <<mutex, hollowed>>
    BY <1>3 DEF FinishFails, Goto
  <2> QED BY <1>1, <1>2, <1>3, <2>1, Finishing, Reads
<1>4. CASE pc[p] = "replace"
  <2>1. /\ mutex' = [mutex EXCEPT ![Lib(p)] = Free] /\ pc'[p] # "replace"
        /\ LeavesHollow(p) => Lib(p) \in hollowed'
    BY <1>1, <1>4 DEF FinishFails, Goto
  <2>3. PICK k \in Libs : k = Lib(p)
    BY Finishing
  <2>2. <<k, "dir">> \in files' => Filled(k)'
    BY <1>1, <1>4, <2>1, <2>3, Finishing, LeftBehind
  <2> QED BY <1>1, <1>2, <1>4, <2>1, <2>2, <2>3, Finishing, Released, Writes
<1> QED BY <1>3, <1>4, Finishing

LEMMA CrashInv == ASSUME Inv, NEW p \in Procs, Crash(p) PROVE Inv'
<1> USE DEF Inv
<1>1. /\ pc' \in [Procs -> Steps] /\ pc'[p] = "dead"
      /\ \A q \in Procs \ {p} : pc'[q] = pc[q]
      /\ UNCHANGED <<files, job, mods, todo, crossed>> /\ hollowed \subseteq hollowed'
  BY DEF Crash, memory, Types, Steps
<1>2. Others(p) /\ Stage(p)'
  BY <1>1 DEF Others, Types, AtWork, Stage
<1>3. /\ \A l \in Libs : Filled(l) => Filled(l)'
      /\ \A q \in Procs \ {p} : Has(q) => Has(q)'
  <2>1. \A q : Lib(q)' = Lib(q) /\ Output(q)' = Output(q)
    BY <1>1 DEF Lib, Output
  <2> QED BY <1>1, <2>1 DEF Filled, Has
<1>4. CASE pc[p] = "replace"
  <2>1. mutex' = [mutex EXCEPT ![Lib(p)] = Free]
    <3>1. \A l \in Libs : mutex[l] = p <=> l = Lib(p)
      BY <1>4, CacheAssumption DEF Owned, CacheAssumption
    <3> QED BY <3>1 DEF Crash, Types
  <2>2. LeavesHollow(p) => Lib(p) \in hollowed'
    BY <1>4 DEF Crash
  <2>4. PICK k \in Libs : k = Lib(p)
    BY <1>4 DEF Types, AtWork, Calls, Lib
  <2>3. <<k, "dir">> \in files' => Filled(k)'
    BY <1>1, <1>4, <2>2, <2>4, LeftBehind
  <2> QED BY <1>1, <1>2, <1>3, <1>4, <2>1, <2>3, <2>4, Released, Writes
<1>5. CASE pc[p] # "replace"
  <2>1. mutex' = mutex
    <3>1. \A l \in Libs : mutex[l] # p
      BY <1>5, CacheAssumption DEF Owned, CacheAssumption
    <3> QED BY <3>1 DEF Crash, Types
  <2> QED BY <1>1, <1>2, <1>5, <2>1, Reads
<1> QED BY <1>4, <1>5

-----------------------------------------------------------------------------
LEMMA NextInv == Inv /\ [Next]_vars => Inv'
<1> SUFFICES ASSUME Inv, [Next]_vars PROVE Inv'
  OBVIOUS
<1>1. CASE UNCHANGED vars
  <2>1. UNCHANGED <<files, mutex, hollowed, crossed, pc, job, mods, todo>>
    BY <1>1 DEF vars, disk, memory, history
  <2>2. \A q : Lib(q)' = Lib(q) /\ Output(q)' = Output(q) /\ (Has(q)' <=> Has(q))
    BY <2>1 DEF Lib, Output, Has
  <2>3. \A l : Filled(l)' <=> Filled(l)
    BY <2>1 DEF Filled
  <2>4. Types' /\ Owned' /\ Packages'
    BY <2>1, <2>2, <2>3 DEF Inv, Types, Owned, Packages, Lib
  <2>5. Stages' /\ NeverHollow' /\ EnsureSucceeds'
    BY <2>1, <2>2 DEF Inv, Stages, Stage, NeverHollow, EnsureSucceeds, Lib
  <2> QED BY <2>4, <2>5 DEF Inv
<1>2. ASSUME NEW p \in Procs, Step(p) PROVE Inv'
  BY <1>2, BootInv, RebuildInv, SaveDictsInv, ImportInv, ImportPartInv, WriteInv,
     RemovesInv, FinishWriterInv, FinishFailsInv
  DEF Step
<1>3. ASSUME NEW p \in Procs, Begin(p) \/ Crash(p) PROVE Inv'
  BY <1>3, BeginInv, CrashInv
<1> QED BY <1>1, <1>2, <1>3 DEF Next

LEMMA Invariance == Spec => []Inv
  BY InitInv, NextInv, PTL DEF Spec

(* ModuleMutex: generating does not interfere with importing.  A process   *)
(* has a package without its contents only if one that was putting them    *)
(* there, or replacing them, was killed or failed.                         *)
THEOREM CacheIsExclusive == Spec => []NeverHollow
<1>1. Inv => NeverHollow
  BY DEF Inv
<1> QED BY <1>1, Invariance, PTL

(* EnsureModule and GetModuleForCLSID make good what was removed before    *)
(* they were called: they fail for want of it only if it is removed under  *)
(* their hands, or if the package is hollow.                               *)
THEOREM CallsSucceed == Spec => []EnsureSucceeds
<1>1. Inv => EnsureSucceeds
  BY DEF Inv
<1> QED BY <1>1, Invariance, PTL
=============================================================================
