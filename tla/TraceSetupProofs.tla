--------------------------- MODULE TraceSetupProofs ---------------------------
(* The processes that use win32trace reach one map by its name, and none   *)
(* of them loses text while a map is open, for any number of processes and *)
(* sessions.                                                               *)
EXTENDS TraceSetup, TLAPS

Purposes == Sides \cup {"probe", "probe2"}
Maybe == Objects \cup {None}
Handle == Objects \X Procs \X Purposes \X Values

SetupTypeOK ==
  /\ oneByOne \in BOOLEAN /\ text \subseteq Objects
  /\ named \in [Namespaces -> Maybe]
  /\ handles \subseteq Handle /\ views \subseteq Objects \X Procs \X Sides
  /\ pc \in [Procs -> PC] /\ ns \in [Procs -> Namespaces]
  /\ hMap \in [Procs -> [Sides -> Values \cup {None}]] /\ pMap \in [Procs -> [Sides -> Maybe]]

(* The namespace in which a process has got a handle.                      *)
NamespaceOf(h) == CASE h[3] = "probe"  -> Local(h[2])
                    [] h[3] = "probe2" -> Global
                    [] OTHER           -> ns[h[2]]

(* A name belongs to one mapping, to which somebody has a handle.          *)
Names ==
  /\ \A h \in handles : named[NamespaceOf(h)] = h[1]
  /\ \A n \in Namespaces : named[n] # None =>
       \E h \in handles : h[1] = named[n] /\ NamespaceOf(h) = n
  /\ \A m, n \in Namespaces : named[m] = named[n] /\ named[m] # None => m = n

(* What a process has open at each stage, and where it looks for the map.  *)
Initial == {"start", "probeGlobal", "closeGlobal", "closeProbe", "exited"}

Stages ==
  /\ \A h \in handles :
       /\ h[3] = "probe" => pc[h[2]] \in {"probeGlobal", "closeGlobal", "closeProbe"}
       /\ h[3] = "probe2" => pc[h[2]] = "closeGlobal"
       /\ h[3] \in Sides => pc[h[2]] \notin Initial
  /\ \A p \in Procs :
       /\ ns[p] \in {Local(p), Global}
       /\ pc[p] \in {"start", "probeGlobal"} => ns[p] = Local(p)

(* The handle whose value a process has in hMap, and meant to have there.  *)
Owns(p, s) == \E h \in handles : h[2] = p /\ h[3] = s /\ h[4] = hMap[p][s]

(* The views are the pointers that are set, and have a handle beside them, *)
(* unless it was closed by the other side.                                 *)
Maps ==
  /\ \A v \in views : pMap[v[2]][v[3]] = v[1]
  /\ \A v \in views : v[2] \notin robbed =>
       <<v[1], v[2], v[3], hMap[v[2]][v[3]]>> \in handles
  /\ \A p \in Procs, s \in Sides :
       /\ pMap[p][s] # None => <<pMap[p][s], p, s>> \in views
       /\ pc[p] = Mapping[s] => Owns(p, s)
       /\ pc[p] \in {Mapping[s], Closing[s]} \/ pc[p] \in Initial => pMap[p][s] = None
  /\ oneByOne => robbed = {} /\ \A p \in Procs, s \in Sides : pc[p] # Closing[s]

(* No two handles of a process have the same value, and the handle of a    *)
(* side is the one in hMap.                                                *)
OneValue ==
  /\ \A g, h \in handles : g[2] = h[2] /\ g[4] = h[4] => g = h
  /\ \A h \in handles : h[3] \in Sides => h[4] = hMap[h[2]][h[3]]

(* Of the processes of a session one at most is on its way to the map, and *)
(* it is on its way to the map that the others use.                        *)
Uses(p) == pMap[p] # Closed

Alone ==
  oneByOne =>
    /\ \A p \in Procs : Uses(p) => pc[p] = "ready"
    /\ \A p, q \in Procs : SessionOf[p] = SessionOf[q] /\ p # q =>
         /\ ~ (Starting(p) /\ Starting(q))
         /\ Uses(p) /\ Uses(q) => ns[p] = ns[q]
         /\ Starting(p) /\ Uses(q) =>
              IF pc[p] = "probeGlobal" THEN ns[q] = Global ELSE ns[p] = ns[q]

IInv == SetupTypeOK /\ Names /\ Stages /\ Maps /\ OneValue /\ Alone

-----------------------------------------------------------------------------
LEMMA SetupInit == ASSUME Init PROVE IInv
<1> USE DEF Init
<1>1. SetupTypeOK
  BY SetupAssumption
  DEF SetupTypeOK, SetupAssumption, Namespaces, Maybe, Handle, Closed, Local, PC, None
<1>2. Names
  BY DEF Names
<1>3. Stages
  BY DEF Stages
<1>4. Maps /\ OneValue
  BY DEF Maps, OneValue, Closed, Mapping, Closing, Sides
<1>5. Alone
  BY DEF Alone, Uses, Starting
<1> QED BY <1>1, <1>2, <1>3, <1>4, <1>5 DEF IInv

(* A namespace of a session is not the global one, and no mapping is NULL. *)
LEMMA Distinct ==
  /\ \A p \in Procs : Local(p) \in Sessions /\ Local(p) # Global /\ Local(p) \in Namespaces
  /\ Global \in Namespaces /\ None \notin Objects /\ None \notin Values
BY SetupAssumption DEF SetupAssumption, Local, Namespaces

(* A handle is what its process, its purpose and its mapping say.          *)
LEMMA HandleShape ==
  ASSUME SetupTypeOK, NEW h \in handles
  PROVE  /\ h[1] \in Objects /\ h[2] \in Procs /\ h[3] \in Purposes /\ h[4] \in Values
         /\ h = <<h[1], h[2], h[3], h[4]>> /\ NamespaceOf(h) \in Namespaces
BY Distinct DEF SetupTypeOK, NamespaceOf, Purposes, Handle

-----------------------------------------------------------------------------
(* The kernel.                                                             *)

(* A handle is opened: the mapping has one name, which nobody else's has.  *)
LEMMA OpenKeeps ==
  ASSUME SetupTypeOK, Names, NEW p \in Procs, NEW n \in Namespaces,
         NEW purpose \in Purposes, NEW o \in Objects, NEW value \in Values,
         CreateFileMapping(p, n, purpose, o, value),
         \A h \in handles : NamespaceOf(h)' = NamespaceOf(h),
         NamespaceOf(<<o, p, purpose, value>>)' = n
  PROVE  /\ Names' /\ named' \in [Namespaces -> Maybe]
         /\ handles' = handles \cup {<<o, p, purpose, value>>}
         /\ handles' \subseteq Handle
         /\ \A h \in handles : h[2] = p => h[4] # value
<1>1. /\ handles' = handles \cup {<<o, p, purpose, value>>}
      /\ named' = [named EXCEPT ![n] = o] /\ named \in [Namespaces -> Maybe]
      /\ named[n] # None => o = named[n]
      /\ named[n] = None => ~ InUse(o)
      /\ \A h \in handles : h[2] = p => h[4] # value
  BY DEF CreateFileMapping, SetupTypeOK, OpenHandles
<1>2. named[n] = None => \A h \in handles : h[1] # o
  BY <1>1 DEF InUse
<1>3. /\ named' \in [Namespaces -> Maybe] /\ named'[n] = o
      /\ \A m \in Namespaces : m # n => named'[m] = named[m]
      /\ \A m \in Namespaces : named[m] # None => named'[m] = named[m]
  BY <1>1 DEF Maybe
<1>4. ASSUME NEW h \in handles' PROVE named'[NamespaceOf(h)'] = h[1]
  <2>1. CASE h = <<o, p, purpose, value>>
    BY <1>3, <2>1
  <2>2. CASE h \in handles
    <3>1. named[NamespaceOf(h)] = h[1] /\ h[1] # None /\ NamespaceOf(h) \in Namespaces
      BY <2>2, HandleShape, Distinct DEF Names
    <3> QED BY <1>3, <2>2, <3>1
  <2> QED BY <1>1, <2>1, <2>2
<1>5. ASSUME NEW m \in Namespaces, named'[m] # None
      PROVE  \E h \in handles' : h[1] = named'[m] /\ NamespaceOf(h)' = m
  <2>1. CASE m = n
    <3>1. <<o, p, purpose, value>> \in handles' /\ <<o, p, purpose, value>>[1] = o
      BY <1>1
    <3> QED BY <1>3, <2>1, <3>1
  <2>2. CASE m # n
    <3>1. PICK h \in handles : h[1] = named[m] /\ NamespaceOf(h) = m
      BY <1>3, <1>5, <2>2 DEF Names
    <3> QED BY <1>1, <1>3, <2>2, <3>1
  <2> QED BY <2>1, <2>2
<1>6. ASSUME NEW l \in Namespaces, NEW m \in Namespaces,
             named'[l] = named'[m], named'[l] # None
      PROVE  l = m
  <2>1. ASSUME NEW k \in Namespaces, k # n, named[n] = None PROVE named[k] # o
    BY <1>2, <2>1, Distinct DEF Names
  <2>2. CASE named[n] # None
    BY <1>1, <1>3, <1>6, <2>2 DEF Names
  <2>3. CASE named[n] = None
    BY <1>3, <1>6, <2>1, <2>3 DEF Names
  <2> QED BY <2>2, <2>3
<1>7. handles' \subseteq Handle
  BY <1>1 DEF SetupTypeOK, Handle
<1> QED BY <1>1, <1>3, <1>4, <1>5, <1>6, <1>7 DEF Names

(* Handles are closed: a name goes with the last handle.                   *)
LEMMA ReleaseKeeps ==
  ASSUME SetupTypeOK, Names, NEW hs, NEW vs, Release(hs, vs), UNCHANGED ns
  PROVE  /\ Names' /\ named' \in [Namespaces -> Maybe]
         /\ handles' = handles \ hs /\ views' = views \ vs
         /\ handles' \subseteq Handle
         /\ text' \subseteq text
         /\ \A o \in text \ text' : \A v \in views' : v[1] # o
<1>1. /\ handles' = handles \ hs /\ views' = views \ vs
      /\ named' = [n \in Namespaces |->
                     IF \E h \in handles' : h[1] = named[n] THEN named[n] ELSE None]
      /\ text' = {o \in text : \E x \in handles' \cup views' : x[1] = o}
  BY DEF Release
<1>2. /\ named' \in [Namespaces -> Maybe]
      /\ \A n \in Namespaces : named'[n] # None =>
           named'[n] = named[n] /\ \E h \in handles' : h[1] = named[n]
      /\ \A n \in Namespaces, h \in handles' : named[n] = h[1] => named'[n] = h[1]
  BY <1>1 DEF SetupTypeOK, Maybe
<1>3. \A h \in handles : NamespaceOf(h)' = NamespaceOf(h)
  BY DEF NamespaceOf, Local
<1>4. ASSUME NEW h \in handles' PROVE named'[NamespaceOf(h)'] = h[1]
  <2>1. h \in handles /\ NamespaceOf(h) \in Namespaces /\ named[NamespaceOf(h)] = h[1]
    BY <1>1, <1>4, HandleShape DEF Names
  <2> QED BY <1>2, <1>3, <2>1
<1>5. ASSUME NEW n \in Namespaces, named'[n] # None
      PROVE  \E h \in handles' : h[1] = named'[n] /\ NamespaceOf(h)' = n
  <2>1. PICK h \in handles' : h[1] = named[n] /\ named'[n] = named[n]
    BY <1>2, <1>5
  <2>2. h \in handles /\ NamespaceOf(h) \in Namespaces /\ named[NamespaceOf(h)] = h[1]
    BY <1>1, <2>1, HandleShape DEF Names
  <2>3. NamespaceOf(h) = n
    BY <1>5, <2>1, <2>2 DEF Names
  <2> QED BY <1>3, <2>1, <2>2, <2>3
<1>6. \A m, n \in Namespaces : named'[m] = named'[n] /\ named'[m] # None => m = n
  BY <1>2 DEF Names
<1>7. handles' \subseteq Handle /\ text' \subseteq text
  BY <1>1 DEF SetupTypeOK
<1>8. \A o \in text \ text' : \A v \in views' : v[1] # o
  BY <1>1
<1> QED BY <1>1, <1>2, <1>4, <1>5, <1>6, <1>7, <1>8 DEF Names

-----------------------------------------------------------------------------
(* One process at a time.                                                  *)

(* A step of process p leaves the others and what they have open.          *)
StepOf(p) ==
  /\ oneByOne' = oneByOne
  /\ pc' \in [Procs -> PC] /\ ns' \in [Procs -> Namespaces]
  /\ hMap' \in [Procs -> [Sides -> Values \cup {None}]] /\ pMap' \in [Procs -> [Sides -> Maybe]]
  /\ \A q \in Procs : q # p =>
       pc'[q] = pc[q] /\ ns'[q] = ns[q] /\ hMap'[q] = hMap[q] /\ pMap'[q] = pMap[q]
  /\ \A h \in handles : h[2] # p => h \in handles'
  /\ \A h \in handles' : h[2] # p => h \in handles
  /\ \A v \in views : v[2] # p => v \in views'
  /\ \A v \in views' : v[2] # p => v \in views
  /\ \A q \in Procs : q # p => (q \in robbed' <=> q \in robbed)

StagesOf(p) ==
  /\ \A h \in handles' : h[2] = p =>
       /\ h[3] = "probe" => pc'[p] \in {"probeGlobal", "closeGlobal", "closeProbe"}
       /\ h[3] = "probe2" => pc'[p] = "closeGlobal"
       /\ h[3] \in Sides => pc'[p] \notin Initial
  /\ ns'[p] \in {Local(p), Global}
  /\ pc'[p] \in {"start", "probeGlobal"} => ns'[p] = Local(p)

LEMMA StagesKeeps ==
  ASSUME SetupTypeOK, Stages, NEW p \in Procs, StepOf(p), StagesOf(p),
         handles' \subseteq Handle
  PROVE  Stages'
<1>1. ASSUME NEW h \in handles'
      PROVE  /\ h[3] = "probe" => pc'[h[2]] \in {"probeGlobal", "closeGlobal", "closeProbe"}
             /\ h[3] = "probe2" => pc'[h[2]] = "closeGlobal"
             /\ h[3] \in Sides => pc'[h[2]] \notin Initial
  <2>1. h[2] \in Procs
    BY DEF Handle
  <2>2. CASE h[2] = p
    BY <2>2 DEF StagesOf
  <2>3. CASE h[2] # p
    BY <2>1, <2>3 DEF StepOf, Stages
  <2> QED BY <2>2, <2>3
<1>2. ASSUME NEW q \in Procs
      PROVE  /\ ns'[q] \in {Local(q), Global}
             /\ pc'[q] \in {"start", "probeGlobal"} => ns'[q] = Local(q)
  BY DEF StepOf, Stages, StagesOf
<1> QED BY <1>1, <1>2 DEF Stages, Local

MapsOf(p) ==
  /\ \A v \in views' : v[2] = p => pMap'[p][v[3]] = v[1]
  /\ \A v \in views' : v[2] = p /\ p \notin robbed' =>
       <<v[1], p, v[3], hMap'[p][v[3]]>> \in handles'
  /\ \A s \in Sides :
       /\ pMap'[p][s] # None => <<pMap'[p][s], p, s>> \in views'
       /\ pc'[p] = Mapping[s] => Owns(p, s)'
       /\ pc'[p] \in {Mapping[s], Closing[s]} \/ pc'[p] \in Initial => pMap'[p][s] = None
  /\ oneByOne => robbed' = {} /\ \A s \in Sides : pc'[p] # Closing[s]

LEMMA MapsKeeps ==
  ASSUME SetupTypeOK, Maps, NEW p \in Procs, StepOf(p), MapsOf(p),
         views' \subseteq Objects \X Procs \X Sides
  PROVE  Maps'
<1>1. ASSUME NEW v \in views'
      PROVE  /\ pMap'[v[2]][v[3]] = v[1]
             /\ v[2] \notin robbed' => <<v[1], v[2], v[3], hMap'[v[2]][v[3]]>> \in handles'
  <2>1. CASE v[2] = p
    BY <2>1 DEF MapsOf
  <2>2. CASE v[2] # p
    <3>1. v \in views /\ v[2] \in Procs
      BY <2>2 DEF StepOf
    <3>2. pMap'[v[2]] = pMap[v[2]] /\ hMap'[v[2]] = hMap[v[2]]
      BY <2>2, <3>1 DEF StepOf
    <3>3. v[2] \notin robbed' => v[2] \notin robbed
      BY <2>2, <3>1 DEF StepOf
    <3>4. PICK h : h = <<v[1], v[2], v[3], hMap[v[2]][v[3]]>>
      OBVIOUS
    <3>5. v[2] \notin robbed' => h \in handles /\ h[2] # p
      BY <2>2, <3>1, <3>3, <3>4 DEF Maps
    <3> QED BY <3>1, <3>2, <3>4, <3>5 DEF StepOf, Maps
  <2> QED BY <2>1, <2>2
<1>2. ASSUME NEW q \in Procs, NEW s \in Sides
      PROVE  /\ pMap'[q][s] # None => <<pMap'[q][s], q, s>> \in views'
             /\ pc'[q] = Mapping[s] => Owns(q, s)'
             /\ pc'[q] \in {Mapping[s], Closing[s]} \/ pc'[q] \in Initial => pMap'[q][s] = None
  <2>1. CASE q = p
    BY <2>1 DEF MapsOf
  <2>2. CASE q # p
    <3>1. pc'[q] = pc[q] /\ hMap'[q] = hMap[q] /\ pMap'[q] = pMap[q]
      BY <2>2 DEF StepOf
    <3>2. \A o : <<o, q, s>>[2] # p
      BY <2>2
    <3>3. <<pMap[q][s], q, s>> \in views => <<pMap[q][s], q, s>> \in views'
      BY <3>2 DEF StepOf
    <3>4. Owns(q, s) => Owns(q, s)'
      BY <2>2, <3>1 DEF StepOf, Owns
    <3> QED BY <3>1, <3>3, <3>4 DEF Maps
  <2> QED BY <2>1, <2>2
<1>3. oneByOne' => robbed' = {} /\ \A q \in Procs, s \in Sides : pc'[q] # Closing[s]
  BY DEF MapsOf, StepOf, Maps
<1> QED BY <1>1, <1>2, <1>3 DEF Maps

ValuesOf(p) ==
  /\ \A g, h \in handles' : g[2] = p /\ h[2] = p /\ g[4] = h[4] => g = h
  /\ \A h \in handles' : h[2] = p /\ h[3] \in Sides => h[4] = hMap'[p][h[3]]

LEMMA ValuesKeeps ==
  ASSUME OneValue, NEW p \in Procs, StepOf(p), ValuesOf(p), handles' \subseteq Handle
  PROVE  OneValue'
<1>1. \A h \in handles' : h[2] \in Procs
  BY DEF Handle
<1>2. ASSUME NEW g \in handles', NEW h \in handles', g[2] = h[2], g[4] = h[4] PROVE g = h
  <2>1. CASE g[2] = p
    BY <1>2, <2>1 DEF ValuesOf
  <2>2. CASE g[2] # p
    <3>1. g \in handles /\ h \in handles
      BY <1>2, <2>2 DEF StepOf
    <3> QED BY <1>2, <3>1 DEF OneValue
  <2> QED BY <2>1, <2>2
<1>3. ASSUME NEW h \in handles', h[3] \in Sides PROVE h[4] = hMap'[h[2]][h[3]]
  <2>1. CASE h[2] = p
    BY <1>3, <2>1 DEF ValuesOf
  <2>2. CASE h[2] # p
    BY <1>1, <1>3, <2>2 DEF StepOf, OneValue
  <2> QED BY <2>1, <2>2
<1> QED BY <1>2, <1>3 DEF OneValue

(* The handles of a process that gets no new one, and of a side that keeps *)
(* what it has.                                                            *)
LEMMA FewerValues ==
  ASSUME SetupTypeOK, OneValue, NEW p \in Procs, handles' \subseteq handles,
         \A h \in handles' : h[2] = p /\ h[3] \in Sides => hMap'[p][h[3]] = hMap[p][h[3]]
  PROVE  ValuesOf(p)
BY DEF OneValue, ValuesOf

Fits(p) ==
  oneByOne =>
    /\ Uses(p)' => pc'[p] = "ready"
    /\ \A q \in Procs : SessionOf[q] = SessionOf[p] /\ q # p =>
         /\ Starting(p)' => ~ Starting(q)
         /\ Uses(p)' /\ Uses(q) => ns'[p] = ns[q]
         /\ Starting(p)' /\ Uses(q) =>
              IF pc'[p] = "probeGlobal" THEN ns[q] = Global ELSE ns'[p] = ns[q]
         /\ Starting(q) /\ Uses(p)' =>
              IF pc[q] = "probeGlobal" THEN ns'[p] = Global ELSE ns[q] = ns'[p]

LEMMA AloneKeeps ==
  ASSUME SetupTypeOK, Alone, NEW p \in Procs, StepOf(p), Fits(p)
  PROVE  Alone'
<1>1. \A q \in Procs : q # p => /\ Starting(q)' <=> Starting(q)
                                /\ Uses(q)' <=> Uses(q)
  BY DEF StepOf, Starting, Uses
<1> SUFFICES ASSUME oneByOne
             PROVE  /\ \A q \in Procs : Uses(q)' => pc'[q] = "ready"
                    /\ \A q, r \in Procs : SessionOf[q] = SessionOf[r] /\ q # r =>
                         /\ ~ (Starting(q)' /\ Starting(r)')
                         /\ Uses(q)' /\ Uses(r)' => ns'[q] = ns'[r]
                         /\ Starting(q)' /\ Uses(r)' =>
                              IF pc'[q] = "probeGlobal" THEN ns'[r] = Global
                              ELSE ns'[q] = ns'[r]
  BY DEF Alone, StepOf
<1>2. ASSUME NEW q \in Procs, Uses(q)' PROVE pc'[q] = "ready"
  BY <1>1, <1>2 DEF StepOf, Alone, Fits
<1>3. ASSUME NEW q \in Procs, NEW r \in Procs, SessionOf[q] = SessionOf[r], q # r
      PROVE  /\ ~ (Starting(q)' /\ Starting(r)')
             /\ Uses(q)' /\ Uses(r)' => ns'[q] = ns'[r]
             /\ Starting(q)' /\ Uses(r)' =>
                  IF pc'[q] = "probeGlobal" THEN ns'[r] = Global ELSE ns'[q] = ns'[r]
  <2>1. CASE q = p
    BY <1>1, <1>3, <2>1 DEF StepOf, Fits
  <2>2. CASE r = p
    BY <1>1, <1>3, <2>2 DEF StepOf, Fits
  <2>3. CASE q # p /\ r # p
    BY <1>1, <1>3, <2>3 DEF StepOf, Alone
  <2> QED BY <2>1, <2>2, <2>3
<1> QED BY <1>2, <1>3

(* p goes on, or falls back, without having come nearer to the map.        *)
LEMMA GoesOn ==
  ASSUME Alone, NEW p \in Procs, ns'[p] = ns[p],
         oneByOne =>
           /\ ~ Uses(p)'
           /\ Starting(p)' =>
                Starting(p) /\ (pc[p] = "probeGlobal" <=> pc'[p] = "probeGlobal")
  PROVE  Fits(p)
BY DEF Alone, Fits

(* A view is what its process and its side say, and beside it is a handle. *)
LEMMA ViewShape ==
  ASSUME SetupTypeOK, Maps, NEW v \in views
  PROVE  /\ v[3] \in Sides /\ v[2] \in Procs /\ v[1] \in Objects
         /\ v[1] = pMap[v[2]][v[3]] /\ v[1] # None /\ v = <<v[1], v[2], v[3]>>
         /\ Uses(v[2])
<1>1. v[3] \in Sides /\ v[2] \in Procs /\ v[1] \in Objects /\ v = <<v[1], v[2], v[3]>>
  BY DEF SetupTypeOK
<1>2. v[1] = pMap[v[2]][v[3]] /\ v[1] # None
  BY <1>1, Distinct DEF Maps
<1> QED BY <1>1, <1>2 DEF Uses, Closed

(* The name of a map that was not robbed of its handle leads to it.        *)
LEMMA ViewNamed ==
  ASSUME IInv, NEW v \in views, v[2] \notin robbed
  PROVE  named[ns[v[2]]] = v[1]
<1> USE DEF IInv
<1>1. PICK h : h = <<v[1], v[2], v[3], hMap[v[2]][v[3]]>>
  OBVIOUS
<1>2. h \in handles /\ h[1] = v[1] /\ h[2] = v[2] /\ h[3] = v[3] /\ v[3] \in Sides
  BY <1>1, ViewShape DEF Maps
<1>3. NamespaceOf(h) = ns[v[2]]
  BY <1>2 DEF NamespaceOf, Sides
<1> QED BY <1>2, <1>3 DEF Names

LEMMA UsesReady ==
  ASSUME SetupTypeOK, Maps, NEW p \in Procs, Uses(p) PROVE pc[p] \notin Initial
BY DEF Uses, Closed, SetupTypeOK, Maps

(* A process uses the map it has a view of, by its name.                   *)
LEMMA UsesNamed ==
  ASSUME IInv, oneByOne, NEW p \in Procs, Uses(p)
  PROVE  named[ns[p]] # None
<1>1. PICK s \in Sides : pMap[p][s] # None
  BY DEF Uses, Closed, IInv, SetupTypeOK
<1>2. PICK v \in views : v = <<pMap[p][s], p, s>>
  BY <1>1 DEF IInv, Maps
<1>3. v[1] # None /\ v[2] = p /\ p \notin robbed
  BY <1>1, <1>2 DEF IInv, Maps
<1> QED BY <1>3, ViewNamed

-----------------------------------------------------------------------------
(* The initialisation of the module.                                       *)

LEMMA ProbeLocalKeeps ==
  ASSUME IInv, NEW p \in Procs, ProbeLocal(p), oneByOne' = oneByOne
  PROVE  IInv'
<1> USE DEF IInv
<1>1. PICK o \in Objects, value \in Values :
        CreateFileMapping(p, Local(p), "probe", o, value)
  BY DEF ProbeLocal
<1>2. /\ pc[p] = "start" /\ UNCHANGED <<views, text, ns, hMap, pMap, robbed>>
      /\ pc' = [pc EXCEPT ![p] = IF named[Local(p)] # None THEN "closeProbe"
                                 ELSE "probeGlobal"]
      /\ oneByOne => \A q \in Procs : SessionOf[q] = SessionOf[p] => ~ Starting(q)
  BY DEF ProbeLocal, Goto
<1>3. /\ pc'[p] = IF named[Local(p)] # None THEN "closeProbe" ELSE "probeGlobal"
      /\ pc' \in [Procs -> PC] /\ \A q \in Procs : q # p => pc'[q] = pc[q]
  BY <1>2 DEF SetupTypeOK, PC
<1>4. ~ Uses(p) /\ ns[p] = Local(p)
  BY <1>2, UsesReady DEF Initial, Stages
<1>5. /\ Names' /\ named' \in [Namespaces -> Maybe]
      /\ handles' = handles \cup {<<o, p, "probe", value>>}
      /\ handles' \subseteq Handle /\ \A h \in handles : h[2] = p => h[4] # value
  <2>1. \A h \in handles : NamespaceOf(h)' = NamespaceOf(h)
    BY <1>2 DEF NamespaceOf, Local
  <2>2. NamespaceOf(<<o, p, "probe", value>>)' = Local(p)
    BY DEF NamespaceOf, Local
  <2> QED BY <1>1, <2>1, <2>2, Distinct, OpenKeeps DEF Purposes
<1>6. SetupTypeOK'
  BY <1>2, <1>3, <1>5 DEF SetupTypeOK, Handle
<1>7. StepOf(p)
  BY <1>2, <1>3, <1>5 DEF StepOf, SetupTypeOK
<1>8. Stages'
  <2>1. \A h \in handles : h[2] = p => h[3] \notin Purposes
    BY <1>2 DEF Stages, Initial, Purposes
  <2>2. \A h \in handles : h[2] # p
    BY <2>1, HandleShape
  <2>3. \A h \in handles' : h[2] = p => h[3] = "probe"
    BY <1>5, <2>2
  <2>4. StagesOf(p)
    BY <1>2, <1>3, <1>4, <2>3 DEF StagesOf, Sides
  <2> QED BY <1>5, <1>7, <2>4, StagesKeeps
<1>9. Maps'
  <2>1. MapsOf(p)
    <3>1. \A v \in views' : v[2] # p
      BY <1>2, <1>4, ViewShape
    <3> QED BY <1>2, <1>3, <1>4, <3>1 DEF MapsOf, Maps, Uses, Closed, Mapping, Closing, Sides
  <2> QED BY <1>2, <1>7, <2>1, MapsKeeps DEF SetupTypeOK
<1>11. OneValue'
  <2>1. ValuesOf(p)
    BY <1>2, <1>5 DEF ValuesOf, OneValue, Sides
  <2> QED BY <1>5, <1>7, <2>1, ValuesKeeps
<1>10. Fits(p)
  <2> SUFFICES ASSUME oneByOne, NEW q \in Procs, SessionOf[q] = SessionOf[p], q # p, Uses(q)
               PROVE  IF pc'[p] = "probeGlobal" THEN ns[q] = Global ELSE ns[p] = ns[q]
    BY <1>2, <1>4 DEF Fits, Uses
  <2>1. named[ns[q]] # None /\ ns[q] \in {Local(p), Global}
    BY UsesNamed DEF Stages, Local
  <2>2. CASE named[Local(p)] = None
    BY <1>3, <2>1, <2>2
  <2>3. CASE named[Local(p)] # None
    <3>1. PICK h \in handles : NamespaceOf(h) = Local(p)
      BY <2>3, Distinct DEF Names
    <3>2. PICK r \in Procs : r = h[2]
      BY HandleShape
    <3>3. h[3] # "probe2" /\ SessionOf[r] = SessionOf[p] /\ pc[r] \notin {"start", "exited"}
      <4>1. h[3] \in Purposes /\ Local(p) # Global /\ Local(r) # Global
        BY HandleShape, Distinct
      <4> QED BY <3>1, <3>2, <4>1 DEF NamespaceOf, Local, Stages, Initial, Purposes, Sides
    <3>4. Uses(r)
      BY <1>2, <3>3 DEF Starting, Uses
    <3>5. pc[r] = "ready"
      BY <3>4 DEF Alone
    <3>6. ns[r] = Local(p) /\ r # p
      BY <1>2, <3>1, <3>2, <3>3, <3>5 DEF NamespaceOf, Stages
    <3>7. ns[q] = ns[r]
      BY <3>3, <3>4 DEF Alone
    <3> QED BY <1>3, <1>4, <2>3, <3>6, <3>7
  <2> QED BY <2>2, <2>3
<1> QED BY <1>5, <1>6, <1>7, <1>8, <1>9, <1>10, <1>11, AloneKeeps

LEMMA ProbeGlobalKeeps ==
  ASSUME IInv, NEW p \in Procs, ProbeGlobal(p), oneByOne' = oneByOne
  PROVE  IInv'
<1> USE DEF IInv
<1>1. pc[p] = "probeGlobal" /\ UNCHANGED <<views, text, hMap, pMap, robbed>>
  BY DEF ProbeGlobal
<1>2. ~ Uses(p) /\ ns[p] = Local(p)
  BY <1>1, UsesReady DEF Initial, Stages
<1>3. \A h \in handles : h[2] = p => h[3] = "probe"
  BY <1>1, HandleShape DEF Stages, Initial, Purposes
<1>5. CASE CanOpen(p, Global)
  <2>1. PICK o \in Objects, value \in Values :
          CreateFileMapping(p, Global, "probe2", o, value)
    BY <1>5 DEF ProbeGlobal
  <2>2. /\ ns' = [ns EXCEPT ![p] = Global] /\ pc' = [pc EXCEPT ![p] = "closeGlobal"]
    BY <1>5 DEF ProbeGlobal, Goto
  <2>3. /\ pc' \in [Procs -> PC] /\ pc'[p] = "closeGlobal"
        /\ ns' \in [Procs -> Namespaces] /\ ns'[p] = Global
        /\ \A q \in Procs : q # p => pc'[q] = pc[q] /\ ns'[q] = ns[q]
    BY <2>2, Distinct DEF SetupTypeOK, PC
  <2>4. /\ Names' /\ named' \in [Namespaces -> Maybe]
        /\ handles' = handles \cup {<<o, p, "probe2", value>>}
        /\ handles' \subseteq Handle /\ \A h \in handles : h[2] = p => h[4] # value
    <3>1. ASSUME NEW h \in handles PROVE NamespaceOf(h)' = NamespaceOf(h)
      BY <1>3, <2>3, HandleShape DEF NamespaceOf, Local
    <3>2. NamespaceOf(<<o, p, "probe2", value>>)' = Global
      BY DEF NamespaceOf
    <3> QED BY <2>1, <3>1, <3>2, Distinct, OpenKeeps DEF Purposes
  <2>5. SetupTypeOK'
    BY <1>1, <2>3, <2>4 DEF SetupTypeOK
  <2>6. StepOf(p)
    BY <1>1, <2>3, <2>4 DEF StepOf, SetupTypeOK
  <2>7. StagesOf(p)
    BY <1>3, <2>3, <2>4 DEF StagesOf, Sides
  <2>8. MapsOf(p)
    <3>1. \A v \in views' : v[2] # p
      BY <1>1, <1>2, ViewShape
    <3> QED BY <1>1, <1>2, <2>3, <3>1 DEF MapsOf, Maps, Uses, Closed, Mapping, Closing, Sides
  <2>9. Fits(p)
    BY <1>1, <1>2, <2>3 DEF Fits, Uses, Starting, Alone
  <2>10. ValuesOf(p)
    BY <1>1, <2>4 DEF ValuesOf, OneValue, Sides
  <2> QED
    BY <1>1, <2>4, <2>5, <2>6, <2>7, <2>8, <2>9, <2>10,
       StagesKeeps, MapsKeeps, AloneKeeps, ValuesKeeps DEF SetupTypeOK
<1>6. CASE ~ CanOpen(p, Global)
  <2>1. UNCHANGED <<named, handles, ns>> /\ pc' = [pc EXCEPT ![p] = "closeProbe"]
    BY <1>6 DEF ProbeGlobal, Goto
  <2>2. /\ pc' \in [Procs -> PC] /\ pc'[p] = "closeProbe"
        /\ \A q \in Procs : q # p => pc'[q] = pc[q]
    BY <2>1 DEF SetupTypeOK, PC
  <2>3. Names'
    BY <2>1 DEF Names, NamespaceOf, Local
  <2>4. SetupTypeOK'
    BY <1>1, <2>1, <2>2 DEF SetupTypeOK
  <2>5. StepOf(p)
    BY <1>1, <2>1, <2>2 DEF StepOf, SetupTypeOK
  <2>6. StagesOf(p)
    BY <1>2, <1>3, <2>1, <2>2 DEF StagesOf, Sides
  <2>7. MapsOf(p)
    <3>1. \A v \in views' : v[2] # p
      BY <1>1, <1>2, ViewShape
    <3> QED BY <1>1, <1>2, <2>2, <3>1 DEF MapsOf, Maps, Uses, Closed, Mapping, Closing, Sides
  <2>8. Fits(p)
    <3>1. named[Global] = None
      BY <1>6 DEF CanOpen
    <3>2. oneByOne => \A q \in Procs : Uses(q) => ns[q] # Global
      BY <3>1, UsesNamed
    <3> QED BY <1>1, <1>2, <2>1, <2>2, <3>2 DEF Fits, Uses, Starting, Alone
  <2>9. handles' \subseteq Handle
    BY <2>1 DEF SetupTypeOK
  <2>10. ValuesOf(p)
    BY <1>1, <2>1, FewerValues
  <2> QED
    BY <1>1, <2>3, <2>4, <2>5, <2>6, <2>7, <2>8, <2>9, <2>10,
       StagesKeeps, MapsKeeps, AloneKeeps, ValuesKeeps DEF SetupTypeOK
<1> QED BY <1>5, <1>6

LEMMA CloseProbeKeeps ==
  ASSUME IInv, NEW p \in Procs, CloseProbe(p), oneByOne' = oneByOne
  PROVE  IInv'
<1> USE DEF IInv
<1>1. PICK probe \in {"probe", "probe2"}, to \in {"closeProbe", "ready"} :
        /\ Release({h \in handles : h[2] = p /\ h[3] = probe}, {})
        /\ pc' = [pc EXCEPT ![p] = to]
        /\ \/ pc[p] = "closeGlobal" /\ probe = "probe2" /\ to = "closeProbe"
           \/ pc[p] = "closeProbe" /\ probe = "probe" /\ to = "ready"
  BY DEF CloseProbe, Goto
<1>2. UNCHANGED <<ns, hMap, pMap, robbed>>
  BY DEF CloseProbe
<1>3. ~ Uses(p)
  BY <1>1, UsesReady DEF Initial
<1>4. /\ pc' \in [Procs -> PC] /\ pc'[p] = to /\ \A q \in Procs : q # p => pc'[q] = pc[q]
  BY <1>1 DEF SetupTypeOK, PC
<1>5. /\ Names' /\ named' \in [Namespaces -> Maybe]
      /\ handles' = handles \ {h \in handles : h[2] = p /\ h[3] = probe} /\ views' = views
      /\ handles' \subseteq Handle /\ text' \subseteq text
  BY <1>1, <1>2, ReleaseKeeps
<1>6. SetupTypeOK'
  BY <1>2, <1>4, <1>5 DEF SetupTypeOK
<1>7. StepOf(p)
  BY <1>2, <1>4, <1>5 DEF StepOf, SetupTypeOK
<1>8. StagesOf(p)
  <2>1. \A h \in handles' : h[2] = p => to = "closeProbe" /\ h[3] = "probe"
    BY <1>1, <1>5, HandleShape DEF Stages, Initial, Purposes
  <2> QED BY <1>1, <1>2, <1>4, <2>1 DEF StagesOf, Sides, Stages
<1>9. MapsOf(p)
  <2>1. \A v \in views : v[2] # p
    BY <1>3, ViewShape
  <2> QED
    BY <1>1, <1>2, <1>3, <1>4, <1>5, <2>1
    DEF MapsOf, Maps, Uses, Closed, Mapping, Closing, Sides
<1>10. Fits(p)
  <2>1. Starting(p) /\ ~ Uses(p)' /\ pc[p] # "probeGlobal" /\ pc'[p] # "probeGlobal"
    BY <1>1, <1>2, <1>3, <1>4 DEF Starting, Uses
  <2> QED BY <1>2, <2>1, GoesOn
<1>11. ValuesOf(p)
  BY <1>2, <1>5, FewerValues
<1> QED
  BY <1>5, <1>6, <1>7, <1>8, <1>9, <1>10, <1>11,
     StagesKeeps, MapsKeeps, AloneKeeps, ValuesKeeps DEF SetupTypeOK

-----------------------------------------------------------------------------
(* DoOpenMap and DoCloseMap.                                               *)

LEMMA OpenMapKeeps ==
  ASSUME IInv, NEW p \in Procs, NEW s \in Sides, OpenMap(p, s), oneByOne' = oneByOne
  PROVE  IInv'
<1> USE DEF IInv
<1>1. PICK o \in Objects, value \in Values :
        /\ CreateFileMapping(p, ns[p], s, o, value)
        /\ hMap' = [hMap EXCEPT ![p][s] = value]
  BY DEF OpenMap
<1>2. /\ pc[p] = "ready" /\ (oneByOne => pMap[p] = Closed)
      /\ pMap[p][s] = None /\ hMap[p][s] = None
      /\ pc' = [pc EXCEPT ![p] = Mapping[s]] /\ UNCHANGED <<views, text, ns, pMap, robbed>>
  BY DEF OpenMap, Goto
<1>3. /\ Mapping[s] \in PC \ Initial /\ Mapping[s] # "probeGlobal"
      /\ \A r \in Sides : Mapping[s] = Mapping[r] => r = s
      /\ \A r \in Sides : Mapping[s] # Closing[r]
  BY DEF Mapping, Closing, Sides, PC, Initial
<1>4. /\ pc' \in [Procs -> PC] /\ pc'[p] = Mapping[s]
      /\ \A q \in Procs : q # p => pc'[q] = pc[q]
  BY <1>2, <1>3 DEF SetupTypeOK
<1>5. /\ hMap' \in [Procs -> [Sides -> Values \cup {None}]] /\ hMap'[p][s] = value
      /\ \A r \in Sides : r # s => hMap'[p][r] = hMap[p][r]
      /\ \A q \in Procs : q # p => hMap'[q] = hMap[q]
  BY <1>1 DEF SetupTypeOK
<1>6. /\ Names' /\ named' \in [Namespaces -> Maybe]
      /\ handles' = handles \cup {<<o, p, s, value>>}
      /\ handles' \subseteq Handle /\ \A h \in handles : h[2] = p => h[4] # value
  <2>1. \A h \in handles : NamespaceOf(h)' = NamespaceOf(h)
    BY <1>2 DEF NamespaceOf, Local
  <2>2. NamespaceOf(<<o, p, s, value>>)' = ns[p]
    BY <1>2 DEF NamespaceOf, Sides
  <2>3. ns[p] \in Namespaces /\ s \in Purposes
    BY DEF SetupTypeOK, Purposes
  <2> QED BY <1>1, <2>1, <2>2, <2>3, OpenKeeps
<1>7. SetupTypeOK'
  BY <1>2, <1>4, <1>5, <1>6 DEF SetupTypeOK
<1>8. StepOf(p)
  BY <1>2, <1>4, <1>5, <1>6 DEF StepOf, SetupTypeOK
<1>9. StagesOf(p)
  <2>1. \A h \in handles' : h[2] = p => h[3] \in Sides
    BY <1>2, <1>6, HandleShape DEF Stages, Initial, Purposes
  <2> QED BY <1>2, <1>3, <1>4, <2>1 DEF StagesOf, Sides, Stages, Initial
<1>10. MapsOf(p)
  <2>1. ASSUME NEW v \in views', v[2] = p
        PROVE  /\ pMap'[p][v[3]] = v[1]
               /\ p \notin robbed' => <<v[1], p, v[3], hMap'[p][v[3]]>> \in handles'
    <3>1. v \in views /\ v[3] \in Sides /\ v[3] # s
      BY <1>2, <2>1, ViewShape
    <3>2. hMap'[p][v[3]] = hMap[p][v[3]]
      BY <1>5, <3>1
    <3> QED BY <1>2, <1>6, <2>1, <3>1, <3>2 DEF Maps
  <2>2. ASSUME NEW r \in Sides
        PROVE  /\ pMap'[p][r] # None => <<pMap'[p][r], p, r>> \in views'
               /\ pc'[p] = Mapping[r] => Owns(p, r)'
               /\ pc'[p] \in {Mapping[r], Closing[r]} \/ pc'[p] \in Initial => pMap'[p][r] = None
               /\ pc'[p] # Closing[r]
    <3>1. PICK h \in handles' : h = <<o, p, s, value>>
      BY <1>6
    <3>2. Owns(p, s)'
      BY <1>5, <3>1 DEF Owns
    <3> QED BY <1>2, <1>3, <1>4, <3>2 DEF Maps
  <2>3. oneByOne => robbed' = {}
    BY <1>2 DEF Maps
  <2> QED BY <2>1, <2>2, <2>3 DEF MapsOf
<1>11. Fits(p)
  BY <1>2, <1>3, <1>4, GoesOn DEF Starting, Uses
<1>12. ValuesOf(p)
  <2>1. ASSUME NEW h \in handles', h[2] = p, h[3] \in Sides PROVE h[4] = hMap'[p][h[3]]
    <3>1. CASE h = <<o, p, s, value>>
      BY <1>5, <3>1
    <3>2. CASE h \in handles
      <4>1. h[4] = hMap[p][h[3]] /\ h[4] # None
        BY <2>1, <3>2, HandleShape, Distinct DEF OneValue
      <4> QED BY <1>2, <1>5, <2>1, <4>1
    <3> QED BY <1>6, <3>1, <3>2
  <2>2. ASSUME NEW g \in handles', NEW h \in handles', g[2] = p, h[2] = p, g[4] = h[4]
        PROVE  g = h
    <3>1. CASE g \in handles /\ h \in handles
      BY <2>2, <3>1 DEF OneValue
    <3>2. CASE ~ (g \in handles /\ h \in handles)
      BY <1>6, <2>2, <3>2
    <3> QED BY <3>1, <3>2
  <2> QED BY <2>1, <2>2 DEF ValuesOf
<1> QED
  BY <1>2, <1>6, <1>7, <1>8, <1>9, <1>10, <1>11, <1>12,
     StagesKeeps, MapsKeeps, AloneKeeps, ValuesKeeps DEF SetupTypeOK

LEMMA MapViewKeeps ==
  ASSUME IInv, NEW p \in Procs, NEW s \in Sides, MapView(p, s), oneByOne' = oneByOne
  PROVE  IInv'
<1> USE DEF IInv
<1>1. PICK g \in OpenHandles(p, hMap[p][s]) :
        views' = views \cup {<<g[1], p, s>>} /\ pMap' = [pMap EXCEPT ![p][s] = g[1]]
  BY DEF MapView
<1>20. PICK o : o = g[1]
  OBVIOUS
<1>2. /\ pc[p] = Mapping[s] /\ views' = views \cup {<<o, p, s>>}
      /\ pMap' = [pMap EXCEPT ![p][s] = o] /\ pc' = [pc EXCEPT ![p] = "ready"]
      /\ UNCHANGED <<named, handles, text, ns, hMap, robbed>>
  BY <1>1, <1>20 DEF MapView, Goto
<1>3. <<o, p, s, hMap[p][s]>> \in handles /\ pMap[p][s] = None
  <2>1. PICK h \in handles : h[2] = p /\ h[3] = s /\ h[4] = hMap[p][s]
    BY <1>2 DEF Maps, Owns
  <2>2. g = h
    BY <1>1, <2>1 DEF OpenHandles, OneValue
  <2>3. h = <<o, p, s, hMap[p][s]>>
    BY <1>20, <2>1, <2>2, HandleShape
  <2> QED BY <1>2, <2>1, <2>3 DEF Maps
<1>4. o \in Objects
  BY <1>1, <1>20, HandleShape DEF OpenHandles
<1>5. /\ pc' \in [Procs -> PC] /\ pc'[p] = "ready"
      /\ \A q \in Procs : q # p => pc'[q] = pc[q]
  BY <1>2 DEF SetupTypeOK, PC
<1>6. /\ pMap' \in [Procs -> [Sides -> Maybe]] /\ pMap'[p][s] = o
      /\ \A r \in Sides : r # s => pMap'[p][r] = pMap[p][r]
      /\ \A q \in Procs : q # p => pMap'[q] = pMap[q]
  BY <1>2, <1>4 DEF SetupTypeOK, Maybe
<1>7. Mapping[s] \notin Initial /\ Mapping[s] \notin {"probeGlobal", "ready"}
  BY DEF Mapping, Sides, Initial
<1>8. SetupTypeOK'
  BY <1>2, <1>4, <1>5, <1>6 DEF SetupTypeOK
<1>9. Names'
  BY <1>2 DEF Names, NamespaceOf, Local
<1>10. StepOf(p)
  BY <1>2, <1>5, <1>6 DEF StepOf, SetupTypeOK
<1>11. Stages'
  <2>1. \A h \in handles' : h[2] = p => h[3] \in Sides
    <3>1. pc[p] \notin {"probeGlobal", "closeGlobal", "closeProbe"}
      BY <1>2, <1>7 DEF Initial
    <3> QED BY <1>2, <3>1, HandleShape DEF Stages, Purposes
  <2>2. StagesOf(p)
    BY <1>2, <1>5, <2>1 DEF StagesOf, Sides, Stages, Initial
  <2>3. handles' \subseteq Handle
    BY <1>2 DEF SetupTypeOK
  <2> QED BY <1>10, <2>2, <2>3, StagesKeeps
<1>12. Maps'
  <2>1. \A r \in Sides : "ready" # Mapping[r] /\ "ready" # Closing[r]
    BY DEF Mapping, Closing, Sides
  <2>2. ASSUME NEW v \in views', v[2] = p
        PROVE  /\ pMap'[p][v[3]] = v[1]
               /\ p \notin robbed' => <<v[1], p, v[3], hMap'[p][v[3]]>> \in handles'
    <3>1. CASE v = <<o, p, s>>
      BY <1>2, <1>3, <1>6, <3>1
    <3>2. CASE v \in views
      <4>1. v[3] \in Sides /\ pMap[p][v[3]] = v[1] /\ v[1] # None
        BY <2>2, <3>2, ViewShape
      <4>2. p \notin robbed' => <<v[1], p, v[3], hMap'[p][v[3]]>> \in handles'
        BY <1>2, <2>2, <3>2 DEF Maps
      <4> QED BY <1>3, <1>6, <4>1, <4>2
    <3> QED BY <1>2, <3>1, <3>2
  <2>3. ASSUME NEW r \in Sides, pMap'[p][r] # None PROVE <<pMap'[p][r], p, r>> \in views'
    BY <1>2, <1>6, <2>3 DEF Maps
  <2>4. MapsOf(p)
    BY <1>2, <1>5, <2>1, <2>2, <2>3 DEF MapsOf, Maps, Initial
  <2> QED BY <1>8, <1>10, <2>4, MapsKeeps DEF SetupTypeOK
<1>14. OneValue'
  <2>1. ValuesOf(p) /\ handles' \subseteq Handle
    BY <1>2, FewerValues DEF SetupTypeOK
  <2> QED BY <1>10, <2>1, ValuesKeeps
<1>13. Fits(p)
  <2> SUFFICES ASSUME oneByOne PROVE Fits(p)
    BY DEF Fits
  <2>1. ~ Uses(p) /\ Starting(p)
    BY <1>2, <1>7 DEF Alone, Uses, Starting, Initial
  <2>2. ~ Starting(p)'
    <3>1. pMap'[p] # Closed
      BY <1>4, <1>6, Distinct DEF Closed
    <3> QED BY <3>1 DEF Starting
  <2>3. \A q \in Procs : SessionOf[q] = SessionOf[p] /\ q # p =>
          ~ Starting(q) /\ (Uses(q) => ns[p] = ns[q])
    BY <1>2, <1>7, <2>1 DEF Alone
  <2> QED BY <1>2, <1>5, <2>2, <2>3 DEF Fits
<1> QED BY <1>8, <1>9, <1>10, <1>11, <1>12, <1>13, <1>14, AloneKeeps

(* A handle is closed, and what a process has open for its other side      *)
(* stays open unless the process is robbed: MapViewFails, CloseMapHandle.  *)
Closes(p, s) ==
  /\ pc[p] \in {Mapping[s], Closing[s]} /\ pc' = [pc EXCEPT ![p] = "ready"]
  /\ Release(OpenHandles(p, hMap[p][s]), {})
  /\ hMap' = hMap \/ hMap' = [hMap EXCEPT ![p][s] = None]
  /\ UNCHANGED <<ns, pMap>>
  /\ oneByOne => robbed' = {}
  /\ \A q \in Procs : q # p => (q \in robbed' <=> q \in robbed)
  /\ p \notin robbed' => /\ p \notin robbed
                         /\ \A h \in OpenHandles(p, hMap[p][s]) : h[3] = s

LEMMA FailsCloses ==
  ASSUME IInv, NEW p \in Procs, NEW s \in Sides, MapViewFails(p, s)
  PROVE  Closes(p, s)
<1> USE DEF IInv
<1>1. PICK g \in handles : g[2] = p /\ g[3] = s /\ g[4] = hMap[p][s]
  BY DEF MapViewFails, Maps, Owns
<1>2. \A h \in OpenHandles(p, hMap[p][s]) : h[3] = s
  BY <1>1 DEF OpenHandles, OneValue
<1> QED BY <1>2 DEF MapViewFails, Goto, Closes, Maps

LEMMA TermCloses ==
  ASSUME IInv, NEW p \in Procs, NEW s \in Sides, CloseMapHandle(p, s)
  PROVE  Closes(p, s)
<1>1. ~ oneByOne
  BY DEF CloseMapHandle, IInv, Maps
<1>2. \A q \in Procs : q # p => (q \in robbed' <=> q \in robbed)
  BY DEF CloseMapHandle
<1>3. p \notin robbed' => /\ p \notin robbed
                          /\ \A h \in OpenHandles(p, hMap[p][s]) : h[3] = s
  BY DEF CloseMapHandle
<1> QED BY <1>1, <1>2, <1>3 DEF CloseMapHandle, Goto, Closes

LEMMA CloseKeeps ==
  ASSUME IInv, NEW p \in Procs, NEW s \in Sides, Closes(p, s), oneByOne' = oneByOne
  PROVE  IInv'
<1> USE DEF IInv
<1>1. PICK hs : hs = OpenHandles(p, hMap[p][s])
  OBVIOUS
<1>2. /\ Names' /\ named' \in [Namespaces -> Maybe]
      /\ handles' = handles \ hs /\ views' = views
      /\ handles' \subseteq Handle /\ text' \subseteq text
  <2>1. Release(hs, {}) /\ UNCHANGED ns /\ views \ {} = views
    BY <1>1 DEF Closes
  <2> QED BY <2>1, ReleaseKeeps
<1>3. \A h \in handles : h \in hs <=> h[2] = p /\ h[4] = hMap[p][s]
  BY <1>1 DEF OpenHandles
<1>4. /\ pc' \in [Procs -> PC] /\ pc'[p] = "ready"
      /\ \A q \in Procs : q # p => pc'[q] = pc[q]
      /\ UNCHANGED <<ns, pMap>> /\ pMap[p][s] = None
  BY DEF SetupTypeOK, PC, Maps, Closes
<1>5. /\ hMap' \in [Procs -> [Sides -> Values \cup {None}]]
      /\ \A r \in Sides : r # s => hMap'[p][r] = hMap[p][r]
      /\ \A q \in Procs : q # p => hMap'[q] = hMap[q]
  <2>1. hMap \in [Procs -> [Sides -> Values \cup {None}]]
    BY DEF SetupTypeOK
  <2>2. hMap' = hMap \/ hMap' = [hMap EXCEPT ![p][s] = None]
    BY DEF Closes
  <2> QED BY <2>1, <2>2
<1>6. pc[p] \notin Initial /\ pc[p] \notin {"probeGlobal", "ready"}
  BY DEF Mapping, Closing, Sides, Initial, Closes
<1>7. SetupTypeOK'
  BY <1>2, <1>4, <1>5 DEF SetupTypeOK
<1>8. StepOf(p)
  <2>1. \A h \in handles : h[2] # p => h \in handles'
    BY <1>2, <1>3
  <2> QED BY <1>2, <1>4, <1>5, <2>1 DEF StepOf, SetupTypeOK, Closes
<1>9. StagesOf(p)
  <2>1. \A h \in handles' : h[2] = p => h[3] \in Sides
    <3>1. pc[p] \notin {"probeGlobal", "closeGlobal", "closeProbe"}
      BY <1>6 DEF Initial
    <3> QED BY <1>2, <3>1, HandleShape DEF Stages, Purposes
  <2> QED BY <1>4, <2>1 DEF StagesOf, Sides, Stages, Initial
<1>10. MapsOf(p)
  <2>1. \A r \in Sides : "ready" # Mapping[r] /\ "ready" # Closing[r]
    BY DEF Mapping, Closing, Sides
  <2>2. ASSUME NEW v \in views', v[2] = p
        PROVE  /\ pMap'[p][v[3]] = v[1]
               /\ p \notin robbed' => <<v[1], p, v[3], hMap'[p][v[3]]>> \in handles'
    <3>1. v \in views /\ v[3] \in Sides /\ pMap[p][v[3]] = v[1] /\ v[3] # s
      BY <1>2, <1>4, <2>2, ViewShape
    <3>2. ASSUME p \notin robbed' PROVE <<v[1], p, v[3], hMap[p][v[3]]>> \in handles \ hs
      <4>1. PICK h \in handles : h = <<v[1], p, v[3], hMap[p][v[3]]>>
        BY <2>2, <3>1, <3>2 DEF Maps, Closes
      <4>2. h \notin hs
        BY <1>1, <3>1, <3>2, <4>1 DEF Closes
      <4> QED BY <4>1, <4>2
    <3> QED BY <1>2, <1>4, <1>5, <3>1, <3>2
  <2>3. oneByOne => robbed' = {}
    BY DEF Closes
  <2>4. "ready" \notin Initial
    BY DEF Initial
  <2>5. \A r \in Sides : pMap'[p][r] # None => <<pMap'[p][r], p, r>> \in views'
    BY <1>2, <1>4 DEF Maps
  <2> QED BY <1>4, <2>1, <2>2, <2>3, <2>4, <2>5 DEF MapsOf
<1>11. Fits(p)
  <2>1. oneByOne => ~ Uses(p) /\ Starting(p)
    BY <1>6 DEF Alone, Uses, Starting, Initial
  <2> QED BY <1>4, <1>6, <2>1, GoesOn DEF Uses
<1>12. ValuesOf(p)
  <2>1. ASSUME NEW h \in handles', h[2] = p, h[3] \in Sides PROVE hMap'[p][h[3]] = hMap[p][h[3]]
    <3>1. h \in handles /\ h[4] = hMap[p][h[3]] /\ h[4] # hMap[p][s]
      BY <1>2, <1>3, <2>1 DEF OneValue
    <3> QED BY <1>5, <2>1, <3>1
  <2> QED BY <1>2, <2>1, FewerValues
<1> QED
  BY <1>2, <1>7, <1>8, <1>9, <1>10, <1>11, <1>12,
     StagesKeeps, MapsKeeps, AloneKeeps, ValuesKeeps DEF SetupTypeOK

LEMMA UnmapKeeps ==
  ASSUME IInv, NEW p \in Procs, NEW s \in Sides, Unmap(p, s), oneByOne' = oneByOne
  PROVE  IInv'
<1> USE DEF IInv
<1>1. PICK o : o = pMap[p][s]
  OBVIOUS
<1>2. /\ ~ oneByOne /\ pc[p] = "ready" /\ Release({}, {<<o, p, s>>})
      /\ pMap' = [pMap EXCEPT ![p][s] = None] /\ pc' = [pc EXCEPT ![p] = Closing[s]]
      /\ UNCHANGED <<ns, hMap, robbed>>
  BY <1>1 DEF Unmap, Goto
<1>3. /\ Names' /\ named' \in [Namespaces -> Maybe]
      /\ handles' = handles /\ views' = views \ {<<o, p, s>>}
      /\ handles' \subseteq Handle /\ text' \subseteq text
  <2>1. handles \ {} = handles
    OBVIOUS
  <2> QED BY <1>2, <2>1, ReleaseKeeps
<1>4. /\ Closing[s] \in PC \ Initial /\ \A r \in Sides : Closing[s] # Mapping[r]
      /\ \A r \in Sides : Closing[s] = Closing[r] => r = s
  BY DEF Mapping, Closing, Sides, PC, Initial
<1>5. /\ pc' \in [Procs -> PC] /\ pc'[p] = Closing[s]
      /\ \A q \in Procs : q # p => pc'[q] = pc[q]
  BY <1>2, <1>4 DEF SetupTypeOK
<1>6. /\ pMap' \in [Procs -> [Sides -> Maybe]] /\ pMap'[p][s] = None
      /\ \A r \in Sides : r # s => pMap'[p][r] = pMap[p][r]
      /\ \A q \in Procs : q # p => pMap'[q] = pMap[q]
  BY <1>2 DEF SetupTypeOK, Maybe
<1>7. SetupTypeOK'
  BY <1>2, <1>3, <1>5, <1>6 DEF SetupTypeOK
<1>8. StepOf(p)
  BY <1>2, <1>3, <1>5, <1>6 DEF StepOf, SetupTypeOK
<1>9. StagesOf(p)
  <2>1. \A h \in handles' : h[2] = p => h[3] \in Sides
    BY <1>2, <1>3, HandleShape DEF Stages, Purposes
  <2> QED BY <1>2, <1>4, <1>5, <2>1 DEF StagesOf, Sides, Stages, Initial
<1>10. MapsOf(p)
  <2>1. ASSUME NEW v \in views', v[2] = p
        PROVE  /\ pMap'[p][v[3]] = v[1]
               /\ p \notin robbed' => <<v[1], p, v[3], hMap'[p][v[3]]>> \in handles'
    <3>1. v \in views /\ v[3] \in Sides /\ pMap[p][v[3]] = v[1] /\ v = <<v[1], v[2], v[3]>>
      BY <1>3, <2>1, ViewShape
    <3>2. v[3] # s
      BY <1>1, <1>3, <2>1, <3>1
    <3>3. p \notin robbed' => <<v[1], p, v[3], hMap'[p][v[3]]>> \in handles'
      BY <1>2, <1>3, <2>1, <3>1 DEF Maps
    <3> QED BY <1>6, <3>1, <3>2, <3>3
  <2>2. ASSUME NEW r \in Sides, pMap'[p][r] # None PROVE <<pMap'[p][r], p, r>> \in views'
    <3>1. r # s /\ pMap'[p][r] = pMap[p][r]
      BY <1>6, <2>2
    <3>2. <<pMap[p][r], p, r>> \in views /\ <<pMap[p][r], p, r>> # <<o, p, s>>
      BY <2>2, <3>1 DEF Maps
    <3> QED BY <1>3, <3>1, <3>2
  <2> QED BY <1>2, <1>4, <1>5, <1>6, <2>1, <2>2 DEF MapsOf
<1>11. Fits(p)
  BY <1>2 DEF Fits
<1>12. ValuesOf(p)
  BY <1>2, <1>3, FewerValues
<1> QED
  BY <1>3, <1>7, <1>8, <1>9, <1>10, <1>11, <1>12,
     StagesKeeps, MapsKeeps, AloneKeeps, ValuesKeeps DEF SetupTypeOK

-----------------------------------------------------------------------------
(* The process ends, or is started again.                                  *)

LEMMA ExitKeeps ==
  ASSUME IInv, NEW p \in Procs, Exit(p), oneByOne' = oneByOne
  PROVE  IInv'
<1> USE DEF IInv
<1>1. /\ hMap' = [hMap EXCEPT ![p] = Closed] /\ pMap' = [pMap EXCEPT ![p] = Closed]
      /\ pc' = [pc EXCEPT ![p] = "exited"] /\ UNCHANGED ns /\ robbed' = robbed \ {p}
      /\ Release({h \in handles : h[2] = p}, {v \in views : v[2] = p})
  BY DEF Exit, Goto
<1>2. /\ Names' /\ named' \in [Namespaces -> Maybe]
      /\ handles' = handles \ {h \in handles : h[2] = p}
      /\ views' = views \ {v \in views : v[2] = p}
      /\ handles' \subseteq Handle /\ text' \subseteq text
  BY <1>1, ReleaseKeeps
<1>3. /\ Closed \in [Sides -> Maybe] /\ Closed \in [Sides -> Values \cup {None}]
      /\ \A s \in Sides : Closed[s] = None
  BY DEF Closed, Maybe
<1>4. /\ pc' \in [Procs -> PC] /\ pc'[p] = "exited"
      /\ \A q \in Procs : q # p => pc'[q] = pc[q]
      /\ hMap' \in [Procs -> [Sides -> Values \cup {None}]] /\ pMap' \in [Procs -> [Sides -> Maybe]]
      /\ pMap'[p] = Closed
      /\ \A q \in Procs : q # p => hMap'[q] = hMap[q] /\ pMap'[q] = pMap[q]
  BY <1>1, <1>3 DEF SetupTypeOK, PC
<1>5. SetupTypeOK'
  BY <1>1, <1>2, <1>4 DEF SetupTypeOK
<1>6. StepOf(p)
  BY <1>1, <1>2, <1>4 DEF StepOf, SetupTypeOK
<1>7. StagesOf(p)
  BY <1>1, <1>2, <1>4 DEF StagesOf, Stages
<1>8. MapsOf(p)
  <2>1. \A s \in Sides : "exited" # Mapping[s] /\ "exited" # Closing[s]
    BY DEF Mapping, Closing, Sides
  <2>2. \A v \in views' : v[2] # p
    BY <1>2
  <2> QED BY <1>1, <1>3, <1>4, <2>1, <2>2 DEF MapsOf, Maps
<1>9. Fits(p)
  BY <1>1, <1>4, GoesOn DEF Starting, Uses
<1>10. ValuesOf(p)
  BY <1>2 DEF ValuesOf
<1> QED
  BY <1>2, <1>5, <1>6, <1>7, <1>8, <1>9, <1>10,
     StagesKeeps, MapsKeeps, AloneKeeps, ValuesKeeps DEF SetupTypeOK

LEMMA StartKeeps ==
  ASSUME IInv, NEW p \in Procs, Start(p), oneByOne' = oneByOne
  PROVE  IInv'
<1> USE DEF IInv
<1>1. /\ pc[p] = "exited" /\ pc' = [pc EXCEPT ![p] = "start"]
      /\ ns' = [ns EXCEPT ![p] = Local(p)]
      /\ UNCHANGED <<named, handles, views, text, hMap, pMap, robbed>>
  BY DEF Start, Goto
<1>2. /\ pc' \in [Procs -> PC] /\ pc'[p] = "start"
      /\ ns' \in [Procs -> Namespaces] /\ ns'[p] = Local(p)
      /\ \A q \in Procs : q # p => pc'[q] = pc[q] /\ ns'[q] = ns[q]
  BY <1>1, Distinct DEF SetupTypeOK, PC
<1>3. \A h \in handles : h[2] # p
  BY <1>1, HandleShape DEF Stages, Initial, Purposes
<1>4. \A h \in handles : NamespaceOf(h)' = NamespaceOf(h)
  BY <1>2, <1>3, HandleShape DEF NamespaceOf, Local
<1>5. SetupTypeOK'
  BY <1>1, <1>2 DEF SetupTypeOK
<1>6. Names'
  BY <1>1, <1>4 DEF Names
<1>7. StepOf(p)
  BY <1>1, <1>2 DEF StepOf, SetupTypeOK
<1>8. StagesOf(p)
  BY <1>1, <1>2, <1>3 DEF StagesOf
<1>10. ~ Uses(p)
  BY <1>1, UsesReady DEF Initial
<1>9. MapsOf(p)
  <2>1. \A s \in Sides : "start" # Mapping[s] /\ "start" # Closing[s]
    BY DEF Mapping, Closing, Sides
  <2>2. \A v \in views : v[2] # p
    BY <1>10, ViewShape
  <2> QED BY <1>1, <1>2, <2>1, <2>2 DEF MapsOf, Maps
<1>11. Fits(p)
  BY <1>1, <1>2, <1>10 DEF Fits, Starting, Uses
<1>12. handles' \subseteq Handle
  BY <1>1 DEF SetupTypeOK
<1>13. ValuesOf(p)
  BY <1>1, FewerValues
<1> QED
  BY <1>1, <1>5, <1>6, <1>7, <1>8, <1>9, <1>11, <1>12, <1>13,
     StagesKeeps, MapsKeeps, AloneKeeps, ValuesKeeps DEF SetupTypeOK

(* Nothing but the text in the map, if that, is touched.                   *)
LEMMA TextKeeps ==
  ASSUME IInv, UNCHANGED <<oneByOne, named, handles, views, pc, ns, hMap, pMap, robbed>>,
         text' \subseteq Objects
  PROVE  IInv'
<1> USE DEF IInv
<1>1. SetupTypeOK' /\ Names'
  BY DEF SetupTypeOK, Names, NamespaceOf, Local
<1>2. Stages' /\ Maps' /\ OneValue'
  BY DEF Stages, Maps, OneValue, Owns, Local
<1>3. Alone'
  BY DEF Alone, Starting, Uses
<1> QED BY <1>1, <1>2, <1>3

LEMMA SetupStep == ASSUME IInv, [Next]_vars PROVE IInv'
<1>1. CASE UNCHANGED vars
  BY <1>1, TextKeeps DEF vars, IInv, SetupTypeOK
<1>2. ASSUME oneByOne' = oneByOne, NEW p \in Procs, NEW s \in Sides,
             MapView(p, s) \/ MapViewFails(p, s) \/ Unmap(p, s) \/ CloseMapHandle(p, s)
      PROVE  IInv'
  <2>1. CASE MapViewFails(p, s)
    BY <1>2, <2>1, FailsCloses, CloseKeeps
  <2>2. CASE CloseMapHandle(p, s)
    BY <1>2, <2>2, TermCloses, CloseKeeps
  <2> QED BY <1>2, <2>1, <2>2, MapViewKeeps, UnmapKeeps
<1>3. ASSUME oneByOne' = oneByOne, NEW p \in Procs, WriteText(p) \/ ReadText(p) PROVE IInv'
  <2>1. \A o \in Maybe : o # None => o \in Objects
    BY DEF Maybe
  <2>2. text \subseteq Objects /\ pMap[p]["write"] \in Maybe
    BY DEF IInv, SetupTypeOK, Sides
  <2>3. text' \subseteq Objects
    BY <1>3, <2>1, <2>2 DEF WriteText, ReadText
  <2> QED BY <1>3, <2>3, TextKeeps DEF WriteText, ReadText
<1> QED
  BY <1>1, <1>2, <1>3, ProbeLocalKeeps, ProbeGlobalKeeps, CloseProbeKeeps, OpenMapKeeps,
     ExitKeeps, StartKeeps DEF Next

-----------------------------------------------------------------------------
LEMMA SetupInvariant == Spec => []IInv
<1>1. Init => IInv
  BY SetupInit
<1>2. IInv /\ [Next]_vars => IInv'
  BY SetupStep
<1> QED BY <1>1, <1>2, PTL DEF Spec

(* win32trace.cpp: whatever fails and whoever ends, the map in which a     *)
(* process writes or reads is at any time the one that others find under   *)
(* its name, unless TermRead or TermWrite has closed the handle of its     *)
(* other side through a value that a failed InitRead or InitWrite left.    *)
THEOREM AlwaysReachable == Spec => []Reachable
<1>1. IInv => Reachable
  BY ViewNamed DEF Reachable
<1> QED BY <1>1, SetupInvariant, PTL

(* Processes of a session that use win32traceutil, and start one after the *)
(* other, share one map, whether or not another session has it global.     *)
THEOREM OneMapPerSession == Spec => []SessionAgrees
<1>1. IInv => SessionAgrees
  <2> SUFFICES ASSUME IInv, oneByOne, NEW v \in views, NEW w \in views,
                      SessionOf[v[2]] = SessionOf[w[2]]
               PROVE  v[1] = w[1]
    BY DEF SessionAgrees
  <2>1. Uses(v[2]) /\ Uses(w[2]) /\ v[2] \in Procs /\ w[2] \in Procs
    BY ViewShape DEF IInv
  <2>2. ns[v[2]] = ns[w[2]]
    BY <2>1 DEF IInv, Alone
  <2>3. ASSUME NEW x \in views PROVE named[ns[x[2]]] = x[1]
    BY ViewNamed DEF IInv, Maps
  <2> QED BY <2>2, <2>3
<1> QED BY <1>1, SetupInvariant, PTL

(* Text stays in the map until it is read, or nobody has the map open.     *)
THEOREM TextStays == Spec => TextKept
<1>1. ASSUME IInv, [Next]_vars, IInv', NEW o \in text, o \notin text'
      PROVE  \/ \E p \in Procs : pMap[p]["read"] = o /\ pc[p] = "ready" /\ views' = views
             \/ \A p \in Procs, s \in Sides : pMap'[p][s] # o
  <2>1. ASSUME NEW hs, NEW vs, Release(hs, vs), UNCHANGED ns
        PROVE  \A p \in Procs, s \in Sides : pMap'[p][s] # o
    <3>1. \A v \in views' : v[1] # o
      BY <1>1, <2>1, ReleaseKeeps DEF IInv
    <3>2. o # None
      BY <1>1, Distinct DEF IInv, SetupTypeOK
    <3>3. ASSUME NEW p \in Procs, NEW s \in Sides, pMap'[p][s] = o PROVE FALSE
      <4>1. <<o, p, s>> \in views' /\ <<o, p, s>>[1] = o
        BY <1>1, <3>2, <3>3 DEF IInv, Maps
      <4> QED BY <3>1, <4>1
    <3> QED BY <3>3
  <2>2. ASSUME NEW p \in Procs, ReadText(p)
        PROVE  pMap[p]["read"] = o /\ pc[p] = "ready" /\ views' = views
    BY <1>1, <2>2 DEF ReadText
  <2>3. PICK p \in Procs : ProbeLocal(p) \/ ProbeGlobal(p) \/ CloseProbe(p)
          \/ (\E s \in Sides : OpenMap(p, s) \/ MapView(p, s) \/ MapViewFails(p, s)
                               \/ Unmap(p, s) \/ CloseMapHandle(p, s))
          \/ WriteText(p) \/ ReadText(p) \/ Exit(p) \/ Start(p)
    BY <1>1 DEF Next, vars
  <2>4. CASE CloseProbe(p)
    BY <2>1, <2>4 DEF CloseProbe
  <2>5. CASE Exit(p)
    BY <2>1, <2>5 DEF Exit
  <2>6. ASSUME NEW s \in Sides, MapViewFails(p, s) \/ Unmap(p, s) \/ CloseMapHandle(p, s)
        PROVE  \A q \in Procs, r \in Sides : pMap'[q][r] # o
    BY <2>1, <2>6 DEF MapViewFails, Unmap, CloseMapHandle
  <2>7. CASE ProbeLocal(p) \/ ProbeGlobal(p) \/ WriteText(p) \/ Start(p)
    BY <1>1, <2>7 DEF ProbeLocal, ProbeGlobal, WriteText, Start, CreateFileMapping
  <2>8. ASSUME NEW s \in Sides, OpenMap(p, s) \/ MapView(p, s) PROVE FALSE
    BY <1>1, <2>8 DEF OpenMap, MapView
  <2> QED BY <2>2, <2>3, <2>4, <2>5, <2>6, <2>7, <2>8
<1>2. IInv /\ [Next]_vars /\ IInv' =>
        [\A o \in text : o \notin text' =>
           \/ \E p \in Procs : pMap[p]["read"] = o /\ pc[p] = "ready" /\ views' = views
           \/ \A p \in Procs, s \in Sides : pMap'[p][s] # o]_vars
  BY <1>1
<1> QED BY <1>2, SetupInvariant, PTL DEF Spec, TextKept
=============================================================================
