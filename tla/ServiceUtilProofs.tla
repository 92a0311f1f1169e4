-------------------------- MODULE ServiceUtilProofs --------------------------
(***************************************************************************)
(* Proofs about the two parts of win32serviceutil.py, which share nothing. *)
(*                                                                         *)
(* RestartService and StopServiceWithDeps of ServiceControl, for every     *)
(* acyclic graph of services, every waitSecs and services that may end by  *)
(* themselves at any time.                                                 *)
(*                                                                         *)
(* ServiceInstall: that no installation or update removes a service that   *)
(* was there before it, and what a command that succeeds, or fails, leaves.*)
(***************************************************************************)
EXTENDS ServiceControl, ServiceInstall, WellFoundedInduction, SequenceTheorems, TLAPS

(* Where the program is determines what it has done: it asks the SCM to    *)
(* start the service until that succeeds, and returns at once when it      *)
(* does.                                                                   *)
Stage ==
  /\ target \in Services /\ instance \in [Services -> Int] /\ before \in Int
  /\ op = "none" => pc = "idle" /\ result = "none"
  /\ pc \in {"stopOld", "startNew"} => op = "RestartService"
  /\ op = "RestartService" =>
       \/ /\ pc \in {"stopOld", "startNew"} /\ result = "none"
          /\ instance[target] = before
       \/ /\ pc = "idle"
          /\ instance[target] = before + (IF result = "ok" THEN 1 ELSE 0)

-----------------------------------------------------------------------------
(* What a start does to the service it is for: it becomes a new instance   *)
(* exactly when the SCM answers ok.                                        *)
LEMMA StartCounts ==
  ASSUME target \in Services, instance \in [Services -> Int], SCMStart(target)
  PROVE  /\ instance' \in [Services -> Int]
         /\ instance'[target] =
              instance[target] + (IF StartAnswer(target) = "ok" THEN 1 ELSE 0)
<1>1. target \in Needed(target)
  BY DEF Needed
<1>2. StartAnswer(target) = "ok" => state[target] = "STOPPED"
  BY DEF StartAnswer
<1> DEFINE new == IF StartAnswer(target) = "ok"
                  THEN {t \in Needed(target) : state[t] = "STOPPED"} ELSE {}
<1>3. instance' = [t \in Services |-> IF t \in new THEN instance[t] + 1 ELSE instance[t]]
  BY DEF SCMStart
<1>4. target \in new <=> StartAnswer(target) = "ok"
  BY <1>1, <1>2
<1> HIDE DEF new
<1> QED
  BY <1>3, <1>4

LEMMA InitStage == Init /\ ControlAssumption => Stage
BY DEF Init, Stage, ControlAssumption

-----------------------------------------------------------------------------
(* One step per action.                                                    *)
LEMMA NextStage == Stage /\ [Next]_vars => Stage'
<1> SUFFICES ASSUME Stage, [Next]_vars PROVE Stage'
  OBVIOUS
<1>1. ASSUME NEW what \in Operations, Begin(what) PROVE Stage'
  <2>1. /\ op = "none" /\ op' = what /\ UNCHANGED <<target, instance, result>>
        /\ before' = instance[target]
    BY <1>1 DEF Begin, scm
  <2>2. pc' = "stopOld" <=> what = "RestartService"
    BY <1>1, ControlAssumption DEF Begin
  <2>3. pc' # "startNew" /\ (what = "RestartService" => result = "none")
    BY <1>1, ControlAssumption DEF Begin, Stage
  <2> QED
    BY <2>1, <2>2, <2>3, ControlAssumption DEF Stage
<1>2. CASE StopNext
  BY <1>2 DEF StopNext, ControlStop, Return, Stage
<1>3. CASE PollStopped
  BY <1>3 DEF PollStopped, Return, Stage, scm
<1>4. CASE StopOld
  BY <1>4 DEF StopOld, ControlStop, Return, Stage, StopAnswer
<1>5. CASE StartNew
  BY <1>5, StartCounts DEF StartNew, Return, Stage, StartAnswer
<1>6. CASE Start
  BY <1>6, StartCounts DEF Start, Return, Stage
<1>7. CASE WaitRunning
  BY <1>7 DEF WaitRunning, Return, Stage, scm
<1>8. ASSUME NEW s \in Services, Service(s) PROVE Stage'
  BY <1>8 DEF Service, Stage, client
<1>9. CASE UNCHANGED vars
  BY <1>9 DEF vars, scm, client, Stage
<1> QED
  BY <1>1, <1>2, <1>3, <1>4, <1>5, <1>6, <1>7, <1>8, <1>9 DEF Next, Program

-----------------------------------------------------------------------------
LEMMA StageHolds == Spec => []Stage
<1>1. Init => Stage
  BY InitStage, ControlAssumption
<1> QED
  BY <1>1, NextStage, PTL DEF Spec

(* RestartService never starts its service twice, and reports a success    *)
(* only for a new instance.                                                *)
THEOREM Restarts == Spec => []RestartedOnce
<1>1. Stage => RestartedOnce
  BY DEF Stage, RestartedOnce
<1> QED
  BY <1>1, StageHolds, PTL

-----------------------------------------------------------------------------
(* Induction over the numbers, for a set of them: what the library's       *)
(* theorem on well-founded relations says of <.                            *)
LEMMA SetInduction ==
  ASSUME NEW T, 0 \in T, \A n \in Nat : n \in T => n + 1 \in T
  PROVE  Nat \subseteq T
<1> SUFFICES ASSUME Nat \ T # {} PROVE FALSE
  OBVIOUS
<1>1. IsWellFoundedOn({ss \in Nat \X Nat : ss[1] < ss[2]}, Nat)
  BY NatLessThanWellFounded DEF OpToRel
<1> DEFINE R == {ss \in Nat \X Nat : ss[1] < ss[2]}
           U == Nat \ T
<1>2. PICK n \in U : \A m \in U : ~ (<<m, n>> \in R)
  <2>1. U \subseteq Nat /\ U # {}
    OBVIOUS
  <2> HIDE DEF R, U
  <2>2. IsWellFoundedOn(R, Nat)
    BY <1>1 DEF R
  <2> QED
    BY <2>1, <2>2, WFMin
<1>3. n \in Nat /\ n # 0 /\ n - 1 \in Nat /\ n - 1 < n
  OBVIOUS
<1>4. n - 1 \in T
  BY <1>2, <1>3
<1> QED
  BY <1>3, <1>4

(* F[x][g] is the value at x of a recursive definition in which g has the  *)
(* other values.  It is Determined if it asks for lower ranks only.        *)
Determined(S, rank, V, F) ==
  \A x \in S, g, h \in [S -> V] :
    (\A y \in S : rank[y] < rank[x] => g[y] = h[y]) => F[x][g] = F[x][h]
Closed(S, V, F) == \A x \in S, g \in [S -> V] : F[x][g] \in V
Solves(S, V, F, f) == f \in [S -> V] /\ \A x \in S : f[x] = F[x][f]

(* Such a definition over a set whose ranks have a bound has a solution.   *)
LEMMA Recursion ==
  ASSUME NEW S, NEW N \in Nat, NEW rank \in [S -> 0 .. N], NEW V, V # {}, NEW F,
         Closed(S, V, F), Determined(S, rank, V, F)
  PROVE  \E f : Solves(S, V, F, f)
<1> DEFINE Upto(n, f) == f \in [S -> V] /\ \A x \in S : rank[x] < n => f[x] = F[x][f]
           T == {n \in Nat : \E f \in [S -> V] : Upto(n, f)}
<1>1. 0 \in T
  <2>1. PICK v \in V : TRUE
    OBVIOUS
  <2>2. Upto(0, [x \in S |-> v])
    OBVIOUS
  <2> QED
    BY <2>2
<1>2. ASSUME NEW n \in Nat, n \in T PROVE n + 1 \in T
  <2>1. PICK f \in [S -> V] : Upto(n, f)
    BY <1>2
  <2> DEFINE g == [x \in S |-> IF rank[x] < n THEN f[x] ELSE F[x][f]]
  <2>2. g \in [S -> V]
    BY <2>1 DEF Closed
  <2>3. ASSUME NEW x \in S, rank[x] < n + 1 PROVE g[x] = F[x][g]
    <3>1. \A y \in S : rank[y] < rank[x] => f[y] = g[y]
      <4>1. \A y \in S : rank[y] < rank[x] => rank[y] < n
        BY <2>3
      <4> QED
        BY <4>1
    <3>2. F[x][f] = F[x][g]
      <4> HIDE DEF g
      <4> QED
        BY <2>1, <3>1, <2>2 DEF Determined
    <3>3. f[x] = F[x][f] \/ ~(rank[x] < n)
      BY <2>1
    <3>4. g[x] = F[x][f]
      BY <3>3
    <3> QED
      BY <3>2, <3>4
  <2> HIDE DEF g
  <2>4. Upto(n + 1, g)
    BY <2>2, <2>3
  <2> HIDE DEF Upto
  <2> QED
    BY <2>2, <2>4
<1>3. N + 1 \in T
  <2> HIDE DEF T
  <2> QED
    BY <1>1, <1>2, SetInduction
<1>4. PICK f : Upto(N + 1, f)
  BY <1>3
<1>5. \A x \in S : rank[x] < N + 1
  OBVIOUS
<1> QED
  BY <1>4, <1>5 DEF Solves

(* The order of the pairs: services by their ranks, then numbers.          *)
LEMMA Shifted ==
  ASSUME NEW a \in Nat, NEW b \in Nat, a < b, NEW L \in Nat
  PROVE  a * (L + 1) + L < b * (L + 1)
<1>1. (a + 1) * (L + 1) <= b * (L + 1)
  OBVIOUS
<1>2. (a + 1) * (L + 1) = a * (L + 1) + L + 1
  OBVIOUS
<1> QED
  BY <1>1, <1>2

LEMMA Bounded ==
  ASSUME NEW L \in Nat, NEW k \in 0 .. L, NEW n \in 0 .. L
  PROVE  k * (L + 1) + n \in 0 .. L * (L + 1) + L
<1>1. k * (L + 1) <= L * (L + 1) /\ 0 <= k * (L + 1)
  OBVIOUS
<1>2. k * (L + 1) \in Int /\ L * (L + 1) \in Int
  OBVIOUS
<1>3. PICK a \in Int, b \in Int : a = k * (L + 1) /\ b = L * (L + 1)
  BY <1>2
<1>4. a + n \in 0 .. b + L
  BY <1>1, <1>3
<1> QED
  BY <1>3, <1>4

(* The recursion of ResolveDeps as a parameter of the graph.               *)
Points == Services \X (0 .. Len(Registry))
Gather(dep, D, p) ==
  IF p[2] = 0 THEN <<>>
  ELSE IF Registry[p[2]] \in {svc \in Services : <<svc, p[1]>> \in dep}
  THEN D[<<Registry[p[2]], Len(Registry)>>] \o <<Registry[p[2]]>> \o D[<<p[1], p[2] - 1>>]
  ELSE D[<<p[1], p[2] - 1>>]
Gathered(dep) == CHOOSE D : D = [p \in Points |-> Gather(dep, D, p)]

LEMMA ResolveIs == \A s : ResolveDeps(s) = Gathered(dependsOn)[<<s, Len(Registry)>>]
BY DEF ResolveDeps, Gathered, Gather, Points, FindSvcDeps

(* What the recursion asks for is lower than what it is asked for.         *)
Falls(dep, rank) ==
  \A t \in Services, n \in 1 .. Len(Registry) :
    /\ rank[<<t, n - 1>>] < rank[<<t, n>>]
    /\ <<Registry[n], t>> \in dep => rank[<<Registry[n], Len(Registry)>>] < rank[<<t, n>>]

(* The registry lists every service.                                       *)
LEMMA Indexes ==
  /\ Len(Registry) \in Nat /\ Registry \in Seq(Services)
  /\ \A n \in 1 .. Len(Registry) : Registry[n] \in Services
  /\ \A svc \in Services : \E n \in 1 .. Len(Registry) : Registry[n] = svc
<1>1. Registry \in Seq(Services)
  BY ControlAssumption
<1> QED
  BY <1>1 DEF Services, Range

(* The pairs that the recursion goes through have ranks.                   *)
LEMMA Ranks ==
  ASSUME NEW dep \in Graphs
  PROVE  \E N \in Nat : \E rank \in [Points -> 0 .. N] : Falls(dep, rank)
<1> DEFINE L == Len(Registry)
<1>1. L \in Nat /\ \A n \in 1 .. L : Registry[n] \in Services
  BY Indexes
<1>2. PICK low \in [Services -> 0 .. L] : \A e \in dep : low[e[1]] < low[e[2]]
  BY NoCycles
<1> DEFINE rank == [p \in Points |-> low[p[1]] * (L + 1) + p[2]]
<1>3. rank \in [Points -> 0 .. L * (L + 1) + L] /\ L * (L + 1) + L \in Nat
  <2>1. ASSUME NEW k \in 0 .. L, NEW n \in 0 .. L
        PROVE  k * (L + 1) + n \in 0 .. L * (L + 1) + L
    <3> HIDE DEF L
    <3> QED
      BY <1>1, Bounded
  <2>2. L * (L + 1) + L \in Nat
    BY <1>1
  <2> QED
    BY <1>1, <1>2, <2>1, <2>2 DEF Points
<1>4. ASSUME NEW t \in Services, NEW n \in 1 .. L
      PROVE  /\ rank[<<t, n - 1>>] < rank[<<t, n>>]
             /\ <<Registry[n], t>> \in dep => rank[<<Registry[n], L>>] < rank[<<t, n>>]
  <2>1. ASSUME <<Registry[n], t>> \in dep
        PROVE  low[Registry[n]] * (L + 1) + L < low[t] * (L + 1)
    <3>1. low[Registry[n]] < low[t]
      BY <2>1, <1>2
    <3>2. low[Registry[n]] \in Nat /\ low[t] \in Nat
      BY <1>1, <1>2
    <3> HIDE DEF L
    <3> QED
      BY <3>1, <3>2, <1>1, Shifted
  <2>2. /\ rank[<<t, n>>] = low[t] * (L + 1) + n
        /\ rank[<<t, n - 1>>] = low[t] * (L + 1) + n - 1
        /\ rank[<<Registry[n], L>>] = low[Registry[n]] * (L + 1) + L
    BY <1>1 DEF Points
  <2>3. PICK a \in Int, b \in Int : a = low[t] * (L + 1) /\ b = low[Registry[n]] * (L + 1)
    <3>1. low[Registry[n]] \in Int /\ low[t] \in Int
      BY <1>1, <1>2
    <3> HIDE DEF L
    <3> QED
      BY <3>1, <1>1
  <2>4. L \in Int /\ n \in Int
    BY <1>1
  <2> HIDE DEF rank, L
  <2> QED
    BY <2>1, <2>2, <2>3, <2>4
<1> QED
  BY <1>3, <1>4 DEF Falls

(* What the recursion does for a service and a number, case by case.       *)
LEMMA GatherIs ==
  ASSUME NEW dep, NEW t \in Services, NEW n \in 1 .. Len(Registry), NEW g
  PROVE  /\ <<Registry[n], t>> \in dep =>
              Gather(dep, g, <<t, n>>) = g[<<Registry[n], Len(Registry)>>]
                                         \o <<Registry[n]>> \o g[<<t, n - 1>>]
         /\ <<Registry[n], t>> \notin dep => Gather(dep, g, <<t, n>>) = g[<<t, n - 1>>]
<1>1. n # 0 /\ Registry[n] \in Services
  BY Indexes
<1>2. Registry[n] \in {svc \in Services : <<svc, t>> \in dep} <=> <<Registry[n], t>> \in dep
  BY <1>1
<1>3. <<t, n>>[1] = t /\ <<t, n>>[2] = n
  OBVIOUS
<1> DEFINE p == <<t, n>>
<1>4. p[1] = t /\ p[2] = n
  OBVIOUS
<1> HIDE DEF p
<1>5. Gather(dep, g, p) = IF Registry[n] \in {svc \in Services : <<svc, t>> \in dep}
                          THEN g[<<Registry[n], Len(Registry)>>]
                               \o <<Registry[n]>> \o g[<<t, n - 1>>]
                          ELSE g[<<t, n - 1>>]
  BY <1>1, <1>4 DEF Gather
<1> QED
  BY <1>2, <1>5 DEF p

LEMMA GatherNone == \A dep, t, g : Gather(dep, g, <<t, 0>>) = <<>>
BY DEF Gather

(* So the recursion ends: ResolveDeps has the value that it describes.     *)
LEMMA Ends ==
  ASSUME NEW dep \in Graphs
  PROVE  Gathered(dep) = [p \in Points |-> Gather(dep, Gathered(dep), p)]
<1> DEFINE L == Len(Registry)
           V == Seq(Services)
           F == [p \in Points |-> [g \in [Points -> V] |-> Gather(dep, g, p)]]
<1>1. L \in Nat /\ \A n \in 1 .. L : Registry[n] \in Services
  BY Indexes
<1>0. PICK N \in Nat : \E rank \in [Points -> 0 .. N] : Falls(dep, rank)
  BY Ranks
<1>2. PICK rank \in [Points -> 0 .. N] : Falls(dep, rank)
  BY <1>0
<1>3. ASSUME NEW t \in Services, NEW n \in 1 .. L
      PROVE  <<t, n - 1>> \in Points /\ <<Registry[n], L>> \in Points
  BY <1>1 DEF Points
<1>4. ASSUME NEW t \in Services, NEW n \in 1 .. L, NEW g
      PROVE  /\ <<Registry[n], t>> \in dep =>
                  Gather(dep, g, <<t, n>>) =
                    g[<<Registry[n], L>>] \o <<Registry[n]>> \o g[<<t, n - 1>>]
             /\ <<Registry[n], t>> \notin dep =>
                  Gather(dep, g, <<t, n>>) = g[<<t, n - 1>>]
  BY GatherIs
<1>5. ASSUME NEW p \in Points, NEW g \in [Points -> V] PROVE F[p][g] \in V
  <2>1. PICK t \in Services, n \in 0 .. L : p = <<t, n>>
    BY DEF Points
  <2>2. F[p][g] = Gather(dep, g, <<t, n>>)
    BY <2>1
  <2>3. CASE n = 0
    <3>1. F[p][g] = <<>>
      BY <2>2, <2>3, GatherNone
    <3> QED
      BY <3>1
  <2>4. CASE n # 0
    <3>1. n \in 1 .. L
      BY <2>4, <1>1
    <3>2. Registry[n] \in Services /\ g[<<t, n - 1>>] \in V /\ g[<<Registry[n], L>>] \in V
      BY <3>1, <1>1, <1>3
    <3>3. g[<<Registry[n], L>>] \o <<Registry[n]>> \o g[<<t, n - 1>>] \in V
      BY <3>2
    <3> QED
      BY <2>2, <3>1, <3>2, <3>3, <1>4
  <2> QED
    BY <2>3, <2>4
<1>6. ASSUME NEW p \in Points, NEW g \in [Points -> V], NEW h \in [Points -> V],
             \A q \in Points : rank[q] < rank[p] => g[q] = h[q]
      PROVE  F[p][g] = F[p][h]
  <2>1. PICK t \in Services, n \in 0 .. L : p = <<t, n>>
    BY DEF Points
  <2>2. F[p][g] = Gather(dep, g, <<t, n>>) /\ F[p][h] = Gather(dep, h, <<t, n>>)
    BY <2>1
  <2>3. CASE n = 0
    BY <2>2, <2>3, GatherNone
  <2>4. CASE n # 0
    <3>1. n \in 1 .. L
      BY <2>4, <1>1
    <3>2. g[<<t, n - 1>>] = h[<<t, n - 1>>]
      BY <1>2, <1>3, <1>6, <3>1, <2>1 DEF Falls
    <3>3. <<Registry[n], t>> \in dep => g[<<Registry[n], L>>] = h[<<Registry[n], L>>]
      BY <1>2, <1>3, <1>6, <3>1, <2>1 DEF Falls
    <3> QED
      BY <2>2, <3>1, <3>2, <3>3, <1>4
  <2> QED
    BY <2>3, <2>4
<1>7. PICK f : Solves(Points, V, F, f)
  <2>1. V # {}
    <3>1. <<>> \in V
      OBVIOUS
    <3> QED
      BY <3>1
  <2> HIDE DEF F, V, L
  <2>2. Closed(Points, V, F)
    BY <1>5 DEF Closed
  <2>3. Determined(Points, rank, V, F)
    BY <1>6 DEF Determined
  <2> QED
    BY <2>1, <2>2, <2>3, Recursion, Zenon
<1>8. f = [p \in Points |-> Gather(dep, f, p)]
  <2>1. f \in [Points -> V] /\ \A p \in Points : f[p] = Gather(dep, f, p)
    BY <1>7 DEF Solves
  <2> QED
    BY <2>1
<1> QED
  BY <1>8 DEF Gathered

-----------------------------------------------------------------------------
(* Every service of the list is behind all that depend on it.              *)
Ordered(dep, s) ==
  \A i \in 1 .. Len(s), svc \in Services :
    <<svc, s[i]>> \in dep => \E j \in 1 .. i - 1 : s[j] = svc

(* Two such lists make one.                                                *)
LEMMA OrderedConcat ==
  ASSUME NEW dep, NEW u \in Seq(Services), NEW v \in Seq(Services),
         Ordered(dep, u), Ordered(dep, v)
  PROVE  Ordered(dep, u \o v)
<1> DEFINE w == u \o v
<1>1. /\ Len(w) = Len(u) + Len(v)
      /\ \A i \in 1 .. Len(u) : w[i] = u[i]
      /\ \A i \in 1 .. Len(v) : w[Len(u) + i] = v[i]
  BY ConcatProperties
<1> HIDE DEF w
<1>2. ASSUME NEW i \in 1 .. Len(w), NEW svc \in Services, <<svc, w[i]>> \in dep
      PROVE  \E j \in 1 .. i - 1 : w[j] = svc
  <2>1. CASE i \in 1 .. Len(u)
    <3>1. PICK j \in 1 .. i - 1 : u[j] = svc
      BY <1>1, <1>2, <2>1 DEF Ordered
    <3> QED
      BY <1>1, <2>1, <3>1
  <2>2. CASE i \notin 1 .. Len(u)
    <3> DEFINE n == i - Len(u)
    <3>1. n \in 1 .. Len(v) /\ i = Len(u) + n
      BY <1>1, <2>2
    <3> HIDE DEF n
    <3>2. PICK j \in 1 .. n - 1 : v[j] = svc
      BY <1>1, <1>2, <3>1 DEF Ordered
    <3>3. Len(u) + j \in 1 .. i - 1 /\ w[Len(u) + j] = svc
      BY <1>1, <3>1, <3>2
    <3> QED
      BY <3>3
  <2> QED
    BY <2>1, <2>2
<1> QED
  BY <1>2 DEF Ordered, w

(* A service may follow a list of all that depend on it.                   *)
LEMMA OrderedBehind ==
  ASSUME NEW dep, NEW u \in Seq(Services), NEW t \in Services, Ordered(dep, u),
         \A svc \in Services : <<svc, t>> \in dep => \E j \in 1 .. Len(u) : u[j] = svc
  PROVE  Ordered(dep, u \o <<t>>)
<1> DEFINE w == u \o <<t>>
<1>1. Len(w) = Len(u) + 1 /\ w[Len(u) + 1] = t /\ \A i \in 1 .. Len(u) : w[i] = u[i]
  OBVIOUS
<1> HIDE DEF w
<1>2. ASSUME NEW i \in 1 .. Len(w), NEW svc \in Services, <<svc, w[i]>> \in dep
      PROVE  \E j \in 1 .. i - 1 : w[j] = svc
  <2>1. CASE i \in 1 .. Len(u)
    <3>1. PICK j \in 1 .. i - 1 : u[j] = svc
      BY <1>1, <1>2, <2>1 DEF Ordered
    <3> QED
      BY <1>1, <2>1, <3>1
  <2>2. CASE i = Len(u) + 1
    <3>1. PICK j \in 1 .. Len(u) : u[j] = svc
      BY <1>1, <1>2, <2>2
    <3> QED
      BY <1>1, <2>2, <3>1
  <2> QED
    BY <1>1, <2>1, <2>2
<1> QED
  BY <1>2 DEF Ordered, w

(* What the loop for t has gathered from the first n services is in order  *)
(* and has those among them that depend on t.                              *)
Good(dep, t, n, s) ==
  /\ s \in Seq(Services) /\ Ordered(dep, s)
  /\ \A i \in 1 .. n : <<Registry[i], t>> \in dep =>
       \E j \in 1 .. Len(s) : s[j] = Registry[i]

(* The loop takes another service: what depends on it, it, and the rest.   *)
LEMMA GoodStep ==
  ASSUME NEW dep, NEW t \in Services, NEW n \in 1 .. Len(Registry), NEW u, NEW v,
         Good(dep, t, n - 1, v), <<Registry[n], t>> \in dep,
         Good(dep, Registry[n], Len(Registry), u)
  PROVE  Good(dep, t, n, u \o <<Registry[n]>> \o v)
<1> DEFINE svc == Registry[n]
           w == u \o <<svc>>
           s == w \o v
<1>1. svc \in Services /\ u \in Seq(Services) /\ v \in Seq(Services) /\ Len(Registry) \in Nat
  BY Indexes DEF Good
<1>2. \A r \in Services : <<r, svc>> \in dep => \E j \in 1 .. Len(u) : u[j] = r
  BY Indexes DEF Good
<1>3. /\ w \in Seq(Services) /\ s \in Seq(Services)
      /\ Len(w) = Len(u) + 1 /\ w[Len(w)] = svc
  BY <1>1
<1>4. Ordered(dep, w)
  <2> HIDE DEF svc
  <2> QED
    BY <1>1, <1>2, OrderedBehind DEF Good, svc
<1>5. Ordered(dep, s)
  <2> HIDE DEF w
  <2> QED
    BY <1>1, <1>3, <1>4, OrderedConcat DEF Good
<1>6. /\ Len(s) = Len(w) + Len(v)
      /\ \A i \in 1 .. Len(w) : s[i] = w[i]
      /\ \A i \in 1 .. Len(v) : s[Len(w) + i] = v[i]
  <2>1. w \in Seq(Services) /\ v \in Seq(Services)
    BY <1>1, <1>3
  <2> HIDE DEF w
  <2> QED
    BY <2>1, ConcatProperties
<1>7. ASSUME NEW i \in 1 .. n, <<Registry[i], t>> \in dep
      PROVE  \E j \in 1 .. Len(s) : s[j] = Registry[i]
  <2> HIDE DEF w, s
  <2>1. Len(u) \in Nat /\ Len(v) \in Nat
    BY <1>1
  <2>2. CASE i = n
    <3>1. Len(w) \in 1 .. Len(s) /\ s[Len(w)] = svc
      BY <1>3, <1>6, <2>1
    <3> QED
      BY <2>2, <3>1
  <2>3. CASE i \in 1 .. n - 1
    <3>1. PICK j \in 1 .. Len(v) : v[j] = Registry[i]
      BY <1>7, <2>3 DEF Good
    <3>2. Len(w) + j \in 1 .. Len(s) /\ s[Len(w) + j] = Registry[i]
      BY <1>3, <1>6, <2>1, <3>1
    <3> QED
      BY <3>2
  <2> QED
    BY <1>1, <2>2, <2>3
<1> QED
  BY <1>3, <1>5, <1>7 DEF Good

(* By induction over the ranks, all that is gathered is so.                *)
LEMMA AllGood ==
  ASSUME NEW dep \in Graphs
  PROVE  \A t \in Services, n \in 0 .. Len(Registry) :
           Good(dep, t, n, Gathered(dep)[<<t, n>>])
<1> DEFINE L == Len(Registry)
           G == Gathered(dep)
<1>1. L \in Nat /\ \A n \in 1 .. L : Registry[n] \in Services
  BY Indexes
<1>0. PICK N \in Nat : \E rank \in [Points -> 0 .. N] : Falls(dep, rank)
  BY Ranks
<1>2. PICK rank \in [Points -> 0 .. N] : Falls(dep, rank)
  BY <1>0
<1>3. \A t \in Services, n \in 0 .. L :
        <<t, n>> \in Points /\ rank[<<t, n>>] \in Nat /\ rank[<<t, n>>] < N + 1
  BY DEF Points
<1>4. \A t \in Services, n \in 0 .. L : G[<<t, n>>] = Gather(dep, G, <<t, n>>)
  <2>1. G = [p \in Points |-> Gather(dep, G, p)]
    BY Ends
  <2> HIDE DEF G
  <2> QED
    BY <2>1, <1>3
<1> HIDE DEF G
<1> DEFINE T == {m \in Nat : \A t \in Services, n \in 0 .. L :
                   rank[<<t, n>>] < m => Good(dep, t, n, G[<<t, n>>])}
<1>5. 0 \in T
  <2>1. ASSUME NEW t \in Services, NEW n \in 0 .. L PROVE ~(rank[<<t, n>>] < 0)
    <3> DEFINE r == rank[<<t, n>>]
    <3>1. r \in Nat
      BY <1>3
    <3> HIDE DEF r
    <3>2. ~(r < 0)
      BY <3>1
    <3> QED
      BY <3>2 DEF r
  <2> QED
    BY <2>1
<1>6. ASSUME NEW m \in Nat, m \in T PROVE m + 1 \in T
  <2> SUFFICES ASSUME NEW t \in Services, NEW n \in 0 .. L, rank[<<t, n>>] < m + 1
               PROVE  Good(dep, t, n, G[<<t, n>>])
    OBVIOUS
  <2>1. \A r \in Services, k \in 0 .. L :
          rank[<<r, k>>] < rank[<<t, n>>] => Good(dep, r, k, G[<<r, k>>])
    <3>1. \A r \in Services, k \in 0 .. L : rank[<<r, k>>] < rank[<<t, n>>] => rank[<<r, k>>] < m
      BY <1>3
    <3> QED
      BY <3>1, <1>6
  <2> HIDE DEF T
  <2>2. CASE n = 0
    <3>1. G[<<t, n>>] = <<>>
      BY <1>4, <2>2, GatherNone
    <3> QED
      BY <2>2, <3>1 DEF Good, Ordered
  <2>3. CASE n # 0
    <3>1. n \in 1 .. L /\ n - 1 \in 0 .. L /\ L \in 0 .. L
      BY <1>1, <2>3
    <3>2. /\ <<Registry[n], t>> \in dep =>
               G[<<t, n>>] = G[<<Registry[n], L>>] \o <<Registry[n]>> \o G[<<t, n - 1>>]
          /\ <<Registry[n], t>> \notin dep => G[<<t, n>>] = G[<<t, n - 1>>]
      <4>1. /\ <<Registry[n], t>> \in dep =>
                  Gather(dep, G, <<t, n>>) =
                    G[<<Registry[n], L>>] \o <<Registry[n]>> \o G[<<t, n - 1>>]
            /\ <<Registry[n], t>> \notin dep =>
                  Gather(dep, G, <<t, n>>) = G[<<t, n - 1>>]
        BY <3>1, GatherIs
      <4> QED
        BY <4>1, <1>4
    <3>3. Good(dep, t, n - 1, G[<<t, n - 1>>])
      BY <1>2, <2>1, <3>1 DEF Falls
    <3>4. CASE <<Registry[n], t>> \in dep
      <4>1. Good(dep, Registry[n], L, G[<<Registry[n], L>>])
        BY <1>1, <1>2, <2>1, <3>1, <3>4 DEF Falls
      <4>2. G[<<t, n>>] = G[<<Registry[n], L>>] \o <<Registry[n]>> \o G[<<t, n - 1>>]
        BY <3>2, <3>4
      <4> QED
        BY <3>1, <3>3, <3>4, <4>1, <4>2, GoodStep
    <3>5. CASE <<Registry[n], t>> \notin dep
      <4>1. G[<<t, n>>] = G[<<t, n - 1>>]
        BY <3>2, <3>5
      <4>2. \A i \in 1 .. n : i = n \/ i \in 1 .. n - 1
        BY <3>1
      <4> QED
        BY <3>3, <3>5, <4>1, <4>2 DEF Good
    <3> QED
      BY <3>4, <3>5
  <2> QED
    BY <2>2, <2>3
<1>7. N + 1 \in T
  <2> HIDE DEF T
  <2> QED
    BY <1>5, <1>6, SetInduction
<1> QED
  BY <1>3, <1>7 DEF G

(* The plan of StopServiceWithDeps: what depends on the target, then it.   *)
Whole(dep, t) == Append(Gathered(dep)[<<t, Len(Registry)>>], t)

LEMMA WholeOrdered ==
  ASSUME NEW dep \in Graphs, NEW t \in Services
  PROVE  /\ Whole(dep, t) \in Seq(Services) /\ Ordered(dep, Whole(dep, t))
         /\ Len(Whole(dep, t)) > 0
<1> DEFINE u == Gathered(dep)[<<t, Len(Registry)>>]
<1>1. Good(dep, t, Len(Registry), u)
  BY AllGood, Indexes
<1> HIDE DEF u
<1>2. u \in Seq(Services) /\ Ordered(dep, u)
  BY <1>1 DEF Good
<1>3. \A svc \in Services : <<svc, t>> \in dep => \E j \in 1 .. Len(u) : u[j] = svc
  BY <1>1, Indexes DEF Good
<1>4. Ordered(dep, u \o <<t>>)
  BY <1>2, <1>3, OrderedBehind
<1>5. Append(u, t) = u \o <<t>> /\ Append(u, t) \in Seq(Services) /\ Len(Append(u, t)) = Len(u) + 1
  BY <1>2
<1>6. Len(u) \in Nat
  BY <1>2
<1> QED
  BY <1>4, <1>5, <1>6 DEF Whole, u

-----------------------------------------------------------------------------
(* StopServiceWithDeps has yet to stop the end of its plan, and what is    *)
(* before that end has stopped.                                            *)
Ahead(whole) ==
  /\ Len(plan) <= Len(whole)
  /\ \A i \in 1 .. Len(plan) : plan[i] = whole[Len(whole) - Len(plan) + i]
  /\ \A i \in 1 .. Len(whole) - Len(plan) : state[whole[i]] = "STOPPED"

Stopping ==
  /\ dependsOn \in Graphs /\ target \in Services /\ state \in [Services -> States]
  /\ op = "StopServiceWithDeps" =>
       /\ plan \in Seq(Services) /\ Ahead(Whole(dependsOn, target))
       /\ \/ pc \in {"stop", "poll"} /\ plan # <<>> /\ result = "none"
          \/ pc = "idle" /\ result # "dependentRuns" /\ (result = "ok" => plan = <<>>)

(* Nothing of a service that has stopped changes unless it is started.     *)
StillStopped ==
  /\ state' \in [Services -> States]
  /\ \A s \in Services : state[s] = "STOPPED" => state'[s] = "STOPPED"

LEMMA SameIsStill == Stopping /\ state' = state => StillStopped
BY DEF Stopping, StillStopped

LEMMA StopIsStill ==
  ASSUME Stopping, NEW s \in Services, ControlStop(s)
  PROVE  StillStopped
<1>1. CASE StopAnswer(s) = "ok"
  <2>1. state[s] # "STOPPED" /\ state' = [state EXCEPT ![s] = "STOP_PENDING"]
    BY <1>1 DEF ControlStop, StopAnswer
  <2> QED
    BY <2>1 DEF Stopping, StillStopped, States
<1>2. CASE StopAnswer(s) # "ok"
  BY <1>2, SameIsStill DEF ControlStop
<1> QED
  BY <1>1, <1>2

LEMMA ServiceIsStill ==
  ASSUME Stopping, NEW s \in Services, Service(s)
  PROVE  StillStopped
BY DEF Service, Set, Stopping, StillStopped, States

LEMMA StartTyped ==
  ASSUME Stopping, SCMStart(target)
  PROVE  state' \in [Services -> States]
BY DEF SCMStart, Stopping, States

(* A step that leaves the plan alone, or is past its head, keeps Ahead.    *)
LEMMA AheadKept ==
  ASSUME NEW whole \in Seq(Services), Ahead(whole), StillStopped, plan' = plan,
         plan \in Seq(Services)
  PROVE  Ahead(whole)'
<1>1. \A i \in 1 .. Len(whole) - Len(plan) : whole[i] \in Services
  BY DEF Ahead
<1> QED
  BY <1>1 DEF Ahead, StillStopped

LEMMA AheadTail ==
  ASSUME NEW whole \in Seq(Services), Ahead(whole), plan \in Seq(Services),
         plan # <<>>, state[Head(plan)] = "STOPPED", state' = state, plan' = Tail(plan)
  PROVE  Ahead(whole)'
<1>1. PICK m \in Nat, n \in Nat : m = Len(plan) /\ n = Len(whole)
  OBVIOUS
<1>2. /\ m > 0 /\ m <= n /\ Head(plan) = plan[1]
      /\ Len(plan') = m - 1 /\ \A i \in 1 .. m - 1 : plan'[i] = plan[i + 1]
  BY <1>1 DEF Ahead
<1>3. /\ \A i \in 1 .. m : plan[i] = whole[n - m + i]
      /\ \A i \in 1 .. n - m : state[whole[i]] = "STOPPED"
  BY <1>1 DEF Ahead
<1>4. ASSUME NEW i \in 1 .. m - 1 PROVE plan'[i] = whole[n - (m - 1) + i]
  <2>1. i + 1 \in 1 .. m /\ n - m + (i + 1) = n - (m - 1) + i
    OBVIOUS
  <2> QED
    BY <1>2, <1>3, <2>1
<1>5. ASSUME NEW i \in 1 .. n - (m - 1) PROVE state'[whole[i]] = "STOPPED"
  <2>1. i \in 1 .. n - m \/ i = n - m + 1
    OBVIOUS
  <2>2. plan[1] = whole[n - m + 1]
    BY <1>2, <1>3
  <2> QED
    BY <1>2, <1>3, <2>1, <2>2
<1> QED
  BY <1>1, <1>2, <1>4, <1>5 DEF Ahead

(* The SCM does not refuse to stop the head of the plan: all that depend   *)
(* on it are before it.                                                    *)
LEMMA HeadMayStop ==
  ASSUME Stopping, op = "StopServiceWithDeps", plan # <<>>
  PROVE  Head(plan) \in Services /\ StopAnswer(Head(plan)) # "dependentRuns"
<1> DEFINE whole == Whole(dependsOn, target)
<1>1. whole \in Seq(Services) /\ Ordered(dependsOn, whole) /\ Ahead(whole)
  BY WholeOrdered DEF Stopping
<1> HIDE DEF whole
<1>2. PICK m \in Nat, n \in Nat : m = Len(plan) /\ n = Len(whole)
  BY <1>1 DEF Stopping
<1>3. m > 0 /\ m <= n /\ Head(plan) = plan[1] /\ plan[1] \in Services
  BY <1>1, <1>2 DEF Stopping, Ahead
<1>4. n - m + 1 \in 1 .. Len(whole) /\ Head(plan) = whole[n - m + 1]
  BY <1>1, <1>2, <1>3 DEF Ahead
<1>5. ASSUME NEW d \in Services, <<d, Head(plan)>> \in dependsOn PROVE state[d] = "STOPPED"
  <2>1. PICK j \in 1 .. (n - m + 1) - 1 : whole[j] = d
    BY <1>1, <1>4, <1>5 DEF Ordered
  <2>2. j \in 1 .. n - m
    OBVIOUS
  <2> QED
    BY <1>1, <1>2, <2>1, <2>2 DEF Ahead
<1> QED
  BY <1>3, <1>5 DEF StopAnswer, Stopping

-----------------------------------------------------------------------------
LEMMA InitStopping == Init => Stopping
BY ControlAssumption DEF Init, Stopping, States

LEMMA NextStopping == Stage /\ Stopping /\ [Next]_vars => Stopping'
<1> SUFFICES ASSUME Stage, Stopping, [Next]_vars PROVE Stopping'
  OBVIOUS
<1> DEFINE Where == \/ pc \in {"stop", "poll"} /\ plan # <<>> /\ result = "none"
                    \/ /\ pc = "idle" /\ result # "dependentRuns"
                       /\ (result = "ok" => plan = <<>>)
<1>1. PICK whole \in Seq(Services) : whole = Whole(dependsOn, target) /\ Len(whole) > 0
  BY WholeOrdered DEF Stopping
<1>2. ASSUME NEW what \in Operations, Begin(what) PROVE Stopping'
  <2>1. /\ op = "none" /\ op' = what /\ result' = "none"
        /\ UNCHANGED <<dependsOn, state, target>>
    BY <1>2 DEF Begin, scm, Stage
  <2>2. CASE what = "StopServiceWithDeps"
    <3>1. pc' = "stop" /\ plan' = whole
      <4>1. pc' = "stop" /\ plan' = Append(ResolveDeps(target), target)
        BY <1>2, <2>2 DEF Begin
      <4> QED
        BY <1>1, <4>1, ResolveIs DEF Whole
    <3>2. Whole(dependsOn, target)' = whole
      BY <1>1, <2>1
    <3>3. plan' # <<>>
      BY <3>1, <1>1
    <3>4. Ahead(whole)'
      BY <1>1, <3>1 DEF Ahead
    <3> QED
      BY <1>1, <2>1, <3>1, <3>2, <3>3, <3>4 DEF Stopping
  <2>3. CASE what # "StopServiceWithDeps"
    BY <2>1, <2>3 DEF Stopping
  <2> QED
    BY <2>2, <2>3
<1>3. ASSUME StillStopped, UNCHANGED <<dependsOn, target, op, plan>>,
             op = "StopServiceWithDeps" => Where'
      PROVE  Stopping'
  <2>1. Whole(dependsOn, target)' = whole
    BY <1>1, <1>3
  <2>2. CASE op = "StopServiceWithDeps"
    <3>1. Ahead(whole)'
      BY <1>1, <1>3, <2>2, AheadKept DEF Stopping
    <3> QED
      BY <1>3, <2>1, <2>2, <3>1 DEF Stopping, StillStopped
  <2>3. CASE op # "StopServiceWithDeps"
    BY <1>3, <2>3 DEF Stopping, StillStopped
  <2> QED
    BY <2>2, <2>3
<1>4. ASSUME op # "StopServiceWithDeps", UNCHANGED <<dependsOn, target, op>>,
             state' \in [Services -> States]
      PROVE  Stopping'
  BY <1>4 DEF Stopping
<1>5. CASE StopNext
  <2>1. /\ UNCHANGED <<dependsOn, target, op, plan>> /\ pc = "stop"
        /\ ControlStop(Head(plan))
    BY <1>5 DEF StopNext, ControlStop
  <2>2. CASE op = "StopServiceWithDeps"
    <3>1. plan # <<>> /\ result = "none"
      BY <2>1, <2>2 DEF Stopping
    <3>2. Head(plan) \in Services /\ StopAnswer(Head(plan)) # "dependentRuns"
      BY <2>2, <3>1, HeadMayStop
    <3>3. StillStopped
      BY <2>1, <3>2, StopIsStill
    <3>4. Where'
      BY <1>5, <2>1, <3>1, <3>2 DEF StopNext, Return
    <3> HIDE DEF Where
    <3> QED
      BY <1>3, <2>1, <3>3, <3>4
  <2>3. CASE op # "StopServiceWithDeps"
    <3>1. state' \in [Services -> States]
      BY <2>1 DEF ControlStop, Stopping, States
    <3> QED
      BY <1>4, <2>1, <2>3, <3>1
  <2> QED
    BY <2>2, <2>3
<1>6. CASE PollStopped
  <2>1. UNCHANGED <<dependsOn, state, target, op>> /\ pc = "poll"
    BY <1>6 DEF PollStopped, scm
  <2>2. CASE op # "StopServiceWithDeps"
    BY <1>4, <2>1, <2>2 DEF Stopping
  <2>3. CASE op = "StopServiceWithDeps" /\ state[Head(plan)] # "STOPPED"
    <3>1. plan' = plan
      BY <1>6, <2>3 DEF PollStopped
    <3>2. Where'
      BY <1>6, <2>1, <2>3, <3>1 DEF PollStopped, Return, Stopping
    <3> HIDE DEF Where
    <3> QED
      BY <1>3, <2>1, <3>1, <3>2, SameIsStill
  <2>4. CASE op = "StopServiceWithDeps" /\ state[Head(plan)] = "STOPPED"
    <3>1. plan' = Tail(plan) /\ plan # <<>> /\ plan \in Seq(Services) /\ result = "none"
      BY <1>6, <2>1, <2>4 DEF PollStopped, Stopping
    <3>2. Whole(dependsOn, target)' = whole
      BY <1>1, <2>1
    <3>3. plan' \in Seq(Services) /\ Len(plan') = Len(plan) - 1
      BY <3>1
    <3>4. \/ pc' = "idle" /\ result' = "ok" /\ plan' = <<>>
          \/ pc' = "stop" /\ result' = "none" /\ plan' # <<>>
      <4>1. \/ pc' = "idle" /\ result' = "ok" /\ Len(plan) = 1
            \/ pc' = "stop" /\ result' = result /\ Len(plan) > 1
        BY <1>6, <2>4 DEF PollStopped, Return
      <4>2. \A q \in Seq(Services) : Len(q) \in Nat /\ (q = <<>> <=> Len(q) = 0)
        BY EmptySeq
      <4>3. Len(plan) = 1 => plan' = <<>>
        BY <3>3, <4>2
      <4>4. Len(plan) > 1 => plan' # <<>>
        <5>1. Len(plan) > 1 => Len(plan') # 0
          <6>1. PICK m \in Nat, n \in Nat : m = Len(plan) /\ n = Len(plan')
            BY <3>1, <3>3, <4>2
          <6>2. n = m - 1
            BY <3>3, <6>1
          <6>3. m > 1 => n # 0
            BY <6>2
          <6> QED
            BY <6>1, <6>3
        <5> QED
          BY <3>3, <4>2, <5>1
      <4> QED
        BY <3>1, <4>1, <4>3, <4>4
    <3>5. Ahead(whole)
      BY <1>1, <2>4 DEF Stopping
    <3>6. Ahead(whole)'
      BY <1>1, <2>1, <2>4, <3>1, <3>5, AheadTail
    <3> QED
      BY <2>1, <2>4, <3>2, <3>3, <3>4, <3>6 DEF Stopping
  <2> QED
    BY <2>2, <2>3, <2>4
<1>7. CASE StopOld
  <2>1. op # "StopServiceWithDeps" /\ UNCHANGED <<dependsOn, target, op>>
    BY <1>7 DEF StopOld, ControlStop, Stopping
  <2>2. state' \in [Services -> States]
    BY <1>7 DEF StopOld, ControlStop, Stopping, States
  <2> QED
    BY <1>4, <2>1, <2>2
<1>8. CASE StartNew
  <2>1. op # "StopServiceWithDeps" /\ UNCHANGED <<dependsOn, target, op>>
    BY <1>8 DEF StartNew, SCMStart, Stopping
  <2> QED
    BY <1>4, <1>8, <2>1, StartTyped DEF StartNew
<1>9. CASE Start
  <2>1. op # "StopServiceWithDeps" /\ UNCHANGED <<dependsOn, target, op>>
    BY <1>9 DEF Start, SCMStart, Stopping
  <2> QED
    BY <1>4, <1>9, <2>1, StartTyped DEF Start
<1>10. CASE WaitRunning
  BY <1>4, <1>10 DEF WaitRunning, scm, Stopping
<1>11. ASSUME NEW s \in Services, Service(s) PROVE Stopping'
  <2>1. UNCHANGED <<dependsOn, target, op, plan, pc, result>>
    BY <1>11 DEF Service, client
  <2>2. op = "StopServiceWithDeps" => Where'
    BY <2>1 DEF Stopping
  <2> HIDE DEF Where
  <2> QED
    BY <1>3, <1>11, <2>1, <2>2, ServiceIsStill
<1>12. CASE UNCHANGED vars
  <2>1. UNCHANGED <<dependsOn, state, target, op, plan, pc, result>>
    BY <1>12 DEF vars, scm, client
  <2>2. op = "StopServiceWithDeps" => Where'
    BY <2>1 DEF Stopping
  <2> HIDE DEF Where
  <2> QED
    BY <1>3, <2>1, <2>2, SameIsStill
<1> QED
  BY <1>2, <1>5, <1>6, <1>7, <1>8, <1>9, <1>10, <1>11, <1>12 DEF Next, Program

LEMMA StoppingHolds == Spec => []Stopping
<1> QED
  BY InitStopping, StageHolds, NextStopping, PTL DEF Spec

(* Whatever the graph, StopServiceWithDeps stops no service before all     *)
(* that depend on it, so that the SCM never refuses it for that reason.    *)
THEOREM NeverRefusesStop == Spec => []NeverRefused
<1>1. Stopping => NeverRefused
  BY DEF Stopping, NeverRefused
<1> QED
  BY <1>1, StoppingHolds, PTL

(* When it returns without an error, the service and all that depend on    *)
(* it, by any number of steps, have stopped.                               *)
THEOREM StopsAll == Spec => []StoppedAll
<1>1. Stopping => StoppedAll
  <2> SUFFICES ASSUME Stopping, op = "StopServiceWithDeps", result = "ok",
                      NEW s \in Dependents(target) \cup {target}
               PROVE  state[s] = "STOPPED"
    BY DEF StoppedAll
  <2> DEFINE u == Gathered(dependsOn)[<<target, Len(Registry)>>]
  <2>1. Good(dependsOn, target, Len(Registry), u)
    BY AllGood, Indexes DEF Stopping
  <2>2. \A i \in 1 .. Len(Whole(dependsOn, target)) :
          state[Whole(dependsOn, target)[i]] = "STOPPED"
    <3>1. plan = <<>> /\ Ahead(Whole(dependsOn, target))
      BY DEF Stopping
    <3>2. Len(Whole(dependsOn, target)) \in Nat
      BY WholeOrdered DEF Stopping
    <3> QED
      BY <3>1, <3>2 DEF Ahead
  <2>3. Whole(dependsOn, target) = Append(u, target)
    BY DEF Whole
  <2>4. ResolveDeps(target) = u
    BY ResolveIs
  <2> HIDE DEF u
  <2>5. u \in Seq(Services)
    BY <2>1 DEF Good
  <2>6. \E i \in 1 .. Len(u) + 1 : Append(u, target)[i] = s
    <3>1. CASE s = target
      BY <2>5, <3>1
    <3>2. CASE s \in Range(u)
      <4>1. PICK i \in DOMAIN u : u[i] = s
        BY <3>2 DEF Range
      <4> QED
        BY <2>5, <4>1
    <3> QED
      BY <2>4, <3>1, <3>2 DEF Dependents
  <2>7. Len(Append(u, target)) = Len(u) + 1
    BY <2>5
  <2> QED
    BY <2>2, <2>3, <2>6, <2>7
<1> QED
  BY <1>1, StoppingHolds, PTL

-----------------------------------------------------------------------------
(* The commands of ServiceInstall.                                         *)

Exceptions == {"win32", "ValueError", "other"}
Raisable   == Exceptions \cup {"exists"}
Ignored    == {"unload", "delay", "counters", "remove"}

Cmds == [step : Steps, begun : Commands \cup {"none"}, arg : Commands \cup {"none"},
         startup : Startups \cup {NoStartup}, perf : BOOLEAN,
         found : {"absent", "installed", "marked"}, raised : SUBSET Raisable,
         warned : SUBSET Ignored, result : {"none", "ok", "error", "exception"}]

LEMMA CmdsAre == CmdTypeOK <=> cmd \in Cmds
BY DEF CmdTypeOK, Cmds, Raisable, Exceptions, Ignored

(* ERROR_SERVICE_EXISTS of the install command, which makes it an update,  *)
(* is apart.                                                               *)
Thrown(exc) == exc \in Raisable /\ Raise(exc) /\ (exc = "exists" => cmd.arg # "install")

(* What a step inside a command leaves of it, and what it does.            *)
Same == cmd'.found = cmd.found /\ cmd'.begun = cmd.begun /\ cmd'.arg = cmd.arg

(* An exception leaves the type of cmd and ends the command, except that   *)
(* an installation goes on to remove what it created.                      *)
LEMMA RaiseKeeps ==
  ASSUME NEW exc, CmdTypeOK, Thrown(exc)
  PROVE  /\ CmdTypeOK' /\ Same
         /\ cmd'.startup = cmd.startup /\ cmd'.perf = cmd.perf
         /\ cmd'.raised = cmd.raised \cup {exc}
         /\ IF exc = "ValueError" /\ cmd.arg = "install"
            THEN cmd'.step = "unload"
            ELSE cmd'.step = "returned" /\ cmd'.result \in {"error", "exception"}
<1> DEFINE next == IF exc = "ValueError" /\ cmd.arg = "install"
                     THEN [cmd EXCEPT !.step = "unload"]
                   ELSE IF exc \in {"win32", "exists"} THEN Error
                   ELSE [Error EXCEPT !.result = "exception"]
<1>0. cmd \in Cmds
  BY CmdsAre
<1>1. /\ next \in Cmds
      /\ next.found = cmd.found /\ next.begun = cmd.begun /\ next.arg = cmd.arg
      /\ next.startup = cmd.startup /\ next.perf = cmd.perf /\ next.raised = cmd.raised
      /\ IF exc = "ValueError" /\ cmd.arg = "install"
         THEN next.step = "unload"
         ELSE next.step = "returned" /\ next.result \in {"error", "exception"}
  <2>1. CASE exc = "ValueError" /\ cmd.arg = "install"
    BY <1>0, <2>1 DEF Cmds, Steps
  <2>2. CASE ~ (exc = "ValueError" /\ cmd.arg = "install") /\ exc \in {"win32", "exists"}
    BY <1>0, <2>2 DEF Cmds, Error, Steps
  <2>3. CASE ~ (exc = "ValueError" /\ cmd.arg = "install") /\ exc \notin {"win32", "exists"}
    BY <1>0, <2>3 DEF Cmds, Error, Steps
  <2> QED
    BY <2>1, <2>2, <2>3
<1>2. cmd' = [next EXCEPT !.raised = @ \cup {exc}] /\ exc \in Raisable
  BY DEF Raise, Thrown
<1> HIDE DEF next
<1>3. cmd' \in Cmds
  BY <1>1, <1>2 DEF Cmds
<1>4. CmdTypeOK'
  BY <1>3 DEF CmdTypeOK, Cmds, Raisable, Exceptions, Ignored
<1> QED
  BY <1>0, <1>1, <1>2, <1>4 DEF Same, Cmds

(* An installation that goes on as an update.                              *)
FellThrough ==
  /\ cmd'.arg = "update" /\ cmd'.step = "unload" /\ cmd'.found = cmd.found
  /\ cmd'.begun = cmd.begun /\ cmd'.startup = cmd.startup /\ cmd'.perf = cmd.perf

LEMMA FallThroughKeeps ==
  ASSUME CmdTypeOK,
         cmd' = FallThrough \/ (Raise("exists") /\ cmd.arg = "install")
  PROVE  /\ CmdTypeOK' /\ FellThrough
         /\ cmd' = FallThrough => cmd'.raised = cmd.raised
         /\ Raise("exists") /\ cmd.arg = "install" =>
              cmd'.raised = cmd.raised \cup {"exists"}
<1> DEFINE next == FallThrough
<1>0. cmd \in Cmds
  BY CmdsAre
<1>1. /\ next \in Cmds /\ next.arg = "update" /\ next.step = "unload"
      /\ next.found = cmd.found /\ next.begun = cmd.begun
      /\ next.startup = cmd.startup /\ next.perf = cmd.perf /\ next.raised = cmd.raised
  BY <1>0 DEF FallThrough, Cmds, Steps, Commands
<1>2. cmd' = next \/ cmd' = [next EXCEPT !.raised = @ \cup {"exists"}]
  BY DEF Raise
<1>3. Raise("exists") /\ cmd.arg = "install" =>
        cmd' = [next EXCEPT !.raised = @ \cup {"exists"}]
  BY DEF Raise
<1> HIDE DEF next
<1>4. cmd' \in Cmds /\ FellThrough
  BY <1>1, <1>2 DEF Cmds, FellThrough, Raisable
<1>5. CmdTypeOK'
  BY <1>4 DEF CmdTypeOK, Cmds, Raisable, Exceptions, Ignored
<1>6. Raise("exists") /\ cmd.arg = "install" => cmd'.raised = cmd.raised \cup {"exists"}
  BY <1>1, <1>3 DEF Cmds
<1>7. cmd' = FallThrough => cmd'.raised = cmd.raised
  BY <1>1 DEF next
<1> QED
  BY <1>4, <1>5, <1>6, <1>7

LEMMA GoKeeps ==
  ASSUME NEW step \in Steps, CmdTypeOK, Go(step) \/ \E what \in Ignored : Warn(what, step)
  PROVE  CmdTypeOK' /\ Same /\ cmd'.step = step
<1>0. cmd \in Cmds
  BY CmdsAre
<1>2. ASSUME NEW what \in Ignored, Warn(what, step)
      PROVE  cmd' \in Cmds /\ Same /\ cmd'.step = step
  BY <1>0, <1>2 DEF Cmds, Warn, Same
<1>3. cmd' \in Cmds /\ Same /\ cmd'.step = step
  <2>1. CASE Go(step)
    BY <1>0, <2>1 DEF Cmds, Go, Same
  <2> QED
    BY <1>2, <2>1
<1> QED
  BY <1>3 DEF CmdTypeOK, Cmds, Raisable, Exceptions, Ignored

LEMMA ReturnKeeps ==
  ASSUME NEW code \in {"ok", "error"}, CmdTypeOK,
         \/ ReturnCode(code) \/ cmd' = Error \/ cmd' = Refused
         \/ cmd' = [Refused EXCEPT !.raised = @ \cup {"win32"}]
  PROVE  CmdTypeOK' /\ Same /\ cmd'.step = "returned"
<1>1. CASE ReturnCode(code) \/ cmd' = Error
  BY <1>1 DEF CmdTypeOK, Same, ReturnCode, Error, Steps
<1>2. CASE cmd' = Refused \/ cmd' = [Refused EXCEPT !.raised = @ \cup {"win32"}]
  <2>0. cmd \in Cmds
    BY CmdsAre
  <2>1. /\ Refused \in Cmds
        /\ Refused.found = cmd.found /\ Refused.begun = cmd.begun
        /\ Refused.arg = cmd.arg /\ Refused.step = "returned"
    <3>1. CASE cmd.arg = "remove"
      BY <2>0, <3>1 DEF Cmds, Error, Refused, Steps
    <3>2. CASE cmd.arg # "remove"
      BY <2>0, <3>2 DEF Cmds, Error, Refused, Steps, Ignored
    <3> QED
      BY <3>1, <3>2
  <2>2. cmd' \in Cmds /\ Same /\ cmd'.step = "returned"
    BY <1>2, <2>1 DEF Cmds, Same, Raisable, Exceptions
  <2> QED
    BY <2>2 DEF CmdTypeOK, Cmds, Raisable, Exceptions, Ignored
<1> QED
  BY <1>1, <1>2

-----------------------------------------------------------------------------
(* CreateService has to notice the service before anything can fail in a   *)
(* way that the install command answers by removing it: from then on the   *)
(* command is an update, and the way from an update's "unload" leads to a  *)
(* change, never to a deletion.                                            *)
UpdatesWhatItFinds ==
  /\ cmd.step # "delete"
  /\ cmd.step \notin {"returned", "create"} => cmd.arg = "update"

(* The steps that write the configuration have a service to write it to.   *)
Configuring == {"describe", "delay", "class", "perfmon", "options"}

Inv ==
  /\ InstallTypeOK
  /\ cmd.step \in Configuring => service = "installed"
  /\ cmd.found = "installed" /\ cmd.begun \in {"install", "update"} =>
       service = "installed" /\ UpdatesWhatItFinds

(* What is left to show of a step inside a command that leaves the service *)
(* in the SCM as it is.                                                    *)
Rest == /\ running' = running /\ elsewhere' = elsewhere
        /\ counters' \in BOOLEAN

LEMMA Onward ==
  ASSUME Inv, CmdTypeOK', Same, Rest, service' = service,
         entry' \in IF service = "absent" THEN {NoEntry} ELSE Entries,
         \/ cmd'.step = "returned"
         \/ cmd'.step \notin {"delete", "create"} /\ cmd.step \notin {"returned", "create"}
         \/ cmd'.step = "delete" /\ cmd.step = "unload" /\ cmd.arg # "update",
         cmd'.step \in Configuring => service = "installed"
  PROVE  Inv'
<1>1. InstallTypeOK'
  BY DEF Inv, InstallTypeOK, Rest
<1>2. ASSUME cmd'.found = "installed", cmd'.begun \in {"install", "update"}
      PROVE  service' = "installed" /\ UpdatesWhatItFinds'
  BY <1>2 DEF Inv, Same, UpdatesWhatItFinds
<1> QED
  BY <1>1, <1>2 DEF Inv

(* How a step that configures the service, or changes it, goes on.         *)
GoesTo(step) == Go(step) \/ \E what \in Ignored : Warn(what, step)

LEMMA Goes ==
  ASSUME Inv, cmd.step \in Configuring \cup {"change"},
         \/ ReturnCode("ok") \/ cmd' = Error
         \/ \E exc \in Raisable : Thrown(exc)
         \/ service = "installed" /\ \E step \in Configuring : GoesTo(step),
         Rest, service' = service,
         entry' \in IF service = "absent" THEN {NoEntry} ELSE Entries
  PROVE  Inv'
<1>1. /\ CmdTypeOK' /\ Same
      /\ \/ cmd'.step \in {"returned", "unload"}
         \/ cmd'.step \in Configuring /\ service = "installed"
  <2>0. CmdTypeOK
    BY DEF Inv, InstallTypeOK
  <2>1. CASE ReturnCode("ok") \/ cmd' = Error
    BY <2>0, <2>1, ReturnKeeps
  <2>2. CASE \E exc \in Raisable : Thrown(exc)
    BY <2>0, <2>2, RaiseKeeps
  <2>3. CASE service = "installed" /\ \E step \in Configuring : GoesTo(step)
    <3>1. PICK step \in Configuring : GoesTo(step)
      BY <2>3
    <3>2. step \in Steps
      BY DEF Steps, Configuring
    <3> QED
      BY <2>0, <2>3, <3>1, <3>2, GoKeeps DEF GoesTo
  <2> QED
    BY <2>1, <2>2, <2>3
<1> QED
  BY <1>1, Onward DEF Configuring

(* The SCM's part of a deletion, of the end of the service and of a handle *)
(* that is closed.                                                         *)
LEMMA Settles ==
  ASSUME Inv, NEW deleted \in BOOLEAN, NEW runs \in BOOLEAN, NEW held \in BOOLEAN,
         Settle(deleted, runs, held), service # "absent"
  PROVE  /\ service' \in {"absent", "installed", "marked"}
         /\ running' \in BOOLEAN /\ elsewhere' \in BOOLEAN
         /\ entry' \in IF service' = "absent" THEN {NoEntry} ELSE Entries
         /\ ~ deleted => service' = service
BY DEF Inv, InstallTypeOK, Settle

LEMMA InvStep ==
  ASSUME Inv, [InstallNext]_installVars
  PROVE  Inv'
<1>0. CmdTypeOK /\ service \in {"absent", "installed", "marked"}
      /\ counters \in BOOLEAN /\ entry \in IF service = "absent" THEN {NoEntry} ELSE Entries
  BY DEF Inv, InstallTypeOK
<1>1. CASE UNCHANGED installVars
  BY <1>1 DEF Inv, InstallTypeOK, installVars, scmVars, CmdTypeOK, UpdatesWhatItFinds, Configuring
<1>2. ASSUME NEW arg \in Commands, NEW startup \in Startups \cup {NoStartup},
             NEW perf \in BOOLEAN, Command(arg, startup, perf)
      PROVE  Inv'
  <2>1. CmdTypeOK' /\ cmd'.found = service /\ cmd'.begun = arg /\ cmd'.arg = arg
        /\ cmd'.step = IF arg = "install" THEN "create" ELSE "unload"
    BY <1>0, <1>2 DEF Command, CmdTypeOK, Commands, Steps
  <2> QED
    BY <1>2, <2>1 DEF Inv, InstallTypeOK, Command, scmVars, UpdatesWhatItFinds, Configuring
<1>3. CASE Create
  <2> USE <1>0
  <2>1. CASE cmd' = FallThrough /\ UNCHANGED <<service, entry>>
    BY <1>3, <2>1, FallThroughKeeps
       DEF Create, Inv, InstallTypeOK, FellThrough, UpdatesWhatItFinds, Configuring
  <2>2. CASE cmd' = Error /\ UNCHANGED <<service, entry>>
    <3>1. CmdTypeOK' /\ Same /\ cmd'.step = "returned"
      BY <2>2, ReturnKeeps
    <3> QED
      BY <1>3, <2>2, <3>1, Onward DEF Create, Rest, Configuring
  <2>3. CASE (\E exc \in {"win32", "other"} : Raise(exc)) /\ UNCHANGED <<service, entry>>
    <3>1. CmdTypeOK' /\ Same /\ cmd'.step = "returned"
      BY <2>3, RaiseKeeps DEF Exceptions, Raisable, Thrown
    <3> QED
      BY <1>3, <2>3, <3>1, Onward DEF Create, Rest, Configuring
  <2>4. CASE /\ service = "absent" /\ service' = "installed" /\ entry' \in Entries
             /\ Go("describe")
    <3>1. CmdTypeOK' /\ Same
      BY <2>4, GoKeeps DEF Steps
    <3> QED
      BY <1>3, <2>4, <3>1 DEF Create, Inv, InstallTypeOK, Same
  <2> QED
    <3>1. ASSUME service = "absent" PROVE
          [start |-> IF cmd.startup = NoStartup THEN "manual" ELSE StartType(cmd.startup),
           delayed |-> FALSE, class |-> FALSE, option |-> FALSE] \in Entries
      BY StartupAssumption DEF CmdTypeOK, Entries, StartType, NoStartup
    <3> QED
      BY <1>3, <2>1, <2>2, <2>3, <2>4, <3>1 DEF Create
<1>4. CASE Unload
  <2> DEFINE next == IF cmd.arg = "update" THEN "change" ELSE "delete"
  <2>0. next \in Steps /\ (Go(next) \/ \E what \in Ignored : Warn(what, next))
    BY <1>4 DEF Unload, Steps, Ignored
  <2>1. CmdTypeOK' /\ Same /\ cmd'.step = next
    BY <1>0, <2>0, GoKeeps
  <2> QED
    BY <1>0, <1>4, <2>1, Onward DEF Unload, At, Rest, scmVars, Configuring
<1>5. CASE Change
  <2>1. cmd.step = "change" /\ service' = service /\ Rest
    BY <1>0, <1>5 DEF Change, At, Rest
  <2>2. CASE UNCHANGED entry /\ (cmd' = Error \/ \E exc \in {"win32", "other"} : Raise(exc))
    BY <1>0, <2>1, <2>2, Goes DEF Exceptions, Raisable, Thrown
  <2>3. CASE /\ service = "installed" /\ Go("describe")
             /\ entry' = IF cmd.startup = NoStartup THEN entry
                         ELSE [entry EXCEPT !.start = StartType(cmd.startup)]
    <3>1. entry' \in Entries
      BY <1>0, <2>3, StartupAssumption DEF CmdTypeOK, Entries, StartType, NoStartup
    <3> QED
      BY <2>1, <2>3, <3>1, Goes DEF Configuring, GoesTo
  <2> QED
    BY <1>5, <2>2, <2>3 DEF Change
<1>6. CASE Describe
  BY <1>0, <1>6, Goes
     DEF Describe, At, Rest, scmVars, Configuring, Exceptions, Raisable, Thrown, GoesTo, Inv
<1>7. CASE Delay
  <2>1. cmd.step = "delay" /\ service' = service /\ Rest /\ service = "installed"
        /\ GoesTo("class")
    BY <1>0, <1>7 DEF Delay, At, Rest, Inv, Configuring, GoesTo, Ignored
  <2>2. entry' \in Entries
    BY <1>0, <1>7, <2>1 DEF Delay, Entries
  <2> QED
    BY <2>1, <2>2, Goes DEF Configuring
<1>8. CASE InstallPythonClassString
  <2>1. cmd.step = "class" /\ service' = service /\ Rest /\ service = "installed"
        /\ (GoesTo("perfmon") \/ GoesTo("options") \/ Thrown("win32"))
    BY <1>0, <1>8 DEF InstallPythonClassString, At, Rest, Inv, Configuring, GoesTo,
       Thrown, Raisable, Exceptions
  <2>2. entry' \in Entries
    BY <1>0, <1>8, <2>1 DEF InstallPythonClassString, Entries
  <2> QED
    BY <2>1, <2>2, Goes DEF Configuring, Exceptions, Raisable
<1>9. CASE InstallPerfmonForService
  <2>1. cmd.step = "perfmon" /\ service' = service /\ Rest /\ service = "installed"
    BY <1>0, <1>9 DEF InstallPerfmonForService, At, Rest, Inv, Configuring, scmVars
  <2>3. GoesTo("options") \/ \E exc \in Raisable : Thrown(exc)
    <3>1. CASE Go("options") \/ Warn("counters", "options")
      BY <3>1 DEF GoesTo, Ignored
    <3>2. CASE \E exc \in {"win32", "ValueError", "other"} : Raise(exc)
      BY <3>2 DEF Thrown, Raisable, Exceptions
    <3> QED
      BY <1>9, <3>1, <3>2 DEF InstallPerfmonForService
  <2>2. entry' = entry
    BY <1>9 DEF InstallPerfmonForService, scmVars
  <2> QED
    BY <1>0, <2>1, <2>2, <2>3, Goes DEF Configuring
<1>10. CASE CustomOptions
  <2>1. cmd.step = "options" /\ service' = service /\ Rest /\ service = "installed"
        /\ \/ ReturnCode("ok") \/ \E exc \in Raisable : Thrown(exc)
           \/ Raise("exists") /\ cmd.arg = "install"
    BY <1>0, <1>10 DEF CustomOptions, At, Rest, Inv, Configuring, Thrown, Raisable, Exceptions
  <2>2. entry' \in Entries
    BY <1>0, <1>10, <2>1 DEF CustomOptions, Entries
  <2>3. CASE Raise("exists") /\ cmd.arg = "install"
    BY <1>0, <2>1, <2>2, <2>3, FallThroughKeeps
       DEF Rest, Inv, InstallTypeOK, FellThrough, UpdatesWhatItFinds, Configuring
  <2> QED
    BY <2>1, <2>2, <2>3, Goes DEF Configuring
<1>11. CASE Delete
  <2>1. CmdTypeOK' /\ Same /\ cmd'.step = "returned"
    BY <1>0, <1>11, ReturnKeeps DEF Delete
  <2>2. CASE UNCHANGED scmVars
    BY <1>0, <1>11, <2>1, <2>2, Onward DEF Delete, Rest, scmVars, Configuring
  <2>3. CASE service = "installed" /\ Settle(TRUE, running, elsewhere)
    BY <1>11, <2>1, <2>3, Settles
       DEF Delete, At, Same, Inv, InstallTypeOK, UpdatesWhatItFinds, Configuring
  <2> QED
    BY <1>11, <2>2, <2>3 DEF Delete
<1>12. CASE ServiceStops \/ OthersClose
  <2>1. cmd' = cmd /\ CmdTypeOK' /\ UNCHANGED counters
    BY <1>0, <1>12 DEF ServiceStops, OthersClose, CmdTypeOK
  <2>2. CASE service # "absent"
    BY <1>12, <2>1, <2>2, Settles
       DEF ServiceStops, OthersClose, Inv, InstallTypeOK, UpdatesWhatItFinds, Configuring
  <2>3. CASE service = "absent"
    BY <1>12, <2>1, <2>3
       DEF ServiceStops, OthersClose, Settle, Inv, InstallTypeOK, UpdatesWhatItFinds, Configuring
  <2> QED
    BY <2>2, <2>3
<1>13. CASE ServiceRuns \/ OthersOpen
  BY <1>13
     DEF ServiceRuns, OthersOpen, Inv, InstallTypeOK, CmdTypeOK, UpdatesWhatItFinds, Configuring
<1>14. NoStartup \in Startups \cup {NoStartup} /\ {"install", "update", "remove"} = Commands
  BY DEF Commands
<1> QED
  BY <1>1, <1>2, <1>3, <1>4, <1>5, <1>6, <1>7, <1>8, <1>9, <1>10, <1>11, <1>12,
     <1>13, <1>14 DEF InstallNext, HandleCommandLine

LEMMA InvInit == InstallInit => Inv
<1> SUFFICES ASSUME InstallInit PROVE Inv
  OBVIOUS
<1>1. CmdTypeOK /\ cmd.step = "returned" /\ cmd.found = "absent"
  BY DEF InstallInit, CmdTypeOK, Steps, Commands
<1>2. InstallTypeOK
  BY <1>1 DEF InstallInit, InstallTypeOK
<1> QED
  BY <1>1, <1>2 DEF Inv, Configuring

LEMMA Invariance == InstallSpec => []Inv
<1>1. Inv /\ [InstallNext]_installVars => Inv'
  BY InvStep
<1> QED
  BY <1>1, InvInit, PTL DEF InstallSpec

(* The type invariant holds for every set of values of --startup.          *)
THEOREM TypeCorrect == InstallSpec => []InstallTypeOK
<1>1. Inv => InstallTypeOK
  BY DEF Inv
<1> QED
  BY <1>1, Invariance, PTL

(* No installation or update removes a service that was there before it,   *)
(* whatever fails in it and whatever commands came before.                 *)
THEOREM NeverRemoves == InstallSpec => []KeepsExisting
<1>1. Inv => KeepsExisting
  BY DEF Inv, KeepsExisting
<1> QED
  BY <1>1, Invariance, PTL

-----------------------------------------------------------------------------
(* Nothing was raised yet, unless an installation has become an update.    *)
FirstTry ==
  /\ cmd.raised \subseteq {"exists"}
  /\ cmd.arg = "install" => cmd.raised = {}

(* What a command that has got to a step has done of what was asked ...    *)
Requested ==
  /\ cmd.step \in Configuring =>
       /\ cmd.begun \in {"install", "update"} /\ FirstTry
       /\ cmd.startup # NoStartup => entry.start = StartType(cmd.startup)
  /\ cmd.step \in {"class", "perfmon", "options"} /\ cmd.startup \in {"auto", "delayed"} =>
       entry.delayed = (cmd.startup = "delayed") \/ "delay" \in cmd.warned
  /\ cmd.step \in {"perfmon", "options"} => entry.class
  /\ cmd.step = "options" /\ cmd.perf => counters \/ "counters" \in cmd.warned

(* ... and how it got there: a service that was there is updated, and an   *)
(* installation deletes only after a ValueError, which is raised once.     *)
Origin ==
  /\ cmd.begun = "none" <=> cmd.arg = "none"
  /\ cmd.begun = "none" => cmd.step = "returned"
  /\ cmd.begun = "remove" <=> cmd.arg = "remove"
  /\ cmd.step = "create" =>
       /\ cmd.begun = "install" /\ cmd.arg = "install" /\ cmd.raised = {}
       /\ cmd.found = service \/ (cmd.found = "marked" /\ service = "absent")
  /\ cmd.begun = "update" => cmd.arg = "update"
  /\ cmd.begun = "install" /\ cmd.arg = "update" =>
       cmd.found = "installed" \/ "exists" \in cmd.raised
  /\ cmd.begun = "install" /\ cmd.arg = "install" /\ cmd.step \in {"unload", "delete"} =>
       cmd.raised = {"ValueError"}
  /\ cmd.step \in {"unload", "change"} /\ cmd.arg # "install" => FirstTry
  /\ cmd.step = "delete" =>
       cmd.arg \in {"install", "remove"} /\ (counters => "unload" \in cmd.warned)
  /\ cmd.step = "change" => cmd.arg = "update"

Outcome == SuccessIsComplete /\ NextInstallWorks /\ RefusedIsRemoved

Progress == Requested /\ Origin /\ Outcome

(* What every step of a command leaves of what was asked.                  *)
Kept == Same /\ cmd'.startup = cmd.startup /\ cmd'.perf = cmd.perf

LEMMA GoLeaves ==
  ASSUME NEW step \in Steps, CmdTypeOK, Go(step)
  PROVE  /\ Kept /\ cmd'.step = step /\ cmd'.raised = cmd.raised
         /\ cmd'.warned = cmd.warned
BY DEF CmdTypeOK, Kept, Same, Go

LEMMA WarnLeaves ==
  ASSUME NEW step \in Steps, NEW what \in Ignored, CmdTypeOK, Warn(what, step)
  PROVE  /\ Kept /\ cmd'.step = step /\ cmd'.raised = cmd.raised
         /\ cmd'.warned = cmd.warned \cup {what}
BY DEF CmdTypeOK, Kept, Same, Warn

LEMMA ErrorLeaves ==
  ASSUME CmdTypeOK, cmd' = Error
  PROVE  /\ Kept /\ cmd'.step = "returned" /\ cmd'.result = "error"
         /\ cmd'.raised = cmd.raised /\ cmd'.warned = cmd.warned
BY DEF CmdTypeOK, Kept, Same, Error

LEMMA ReturnLeaves ==
  ASSUME CmdTypeOK, NEW code, ReturnCode(code)
  PROVE  /\ Kept /\ cmd'.step = "returned" /\ cmd'.result = code
         /\ cmd'.raised = cmd.raised /\ cmd'.warned = cmd.warned
BY DEF CmdTypeOK, Kept, Same, ReturnCode

LEMMA RefusedLeaves ==
  ASSUME CmdTypeOK, NEW raised \in {cmd.raised, cmd.raised \cup {"win32"}},
         cmd' = [Refused EXCEPT !.raised = raised]
  PROVE  /\ Kept /\ cmd'.step = "returned" /\ cmd'.result = "error"
         /\ cmd'.raised = raised /\ cmd.warned \subseteq cmd'.warned
<1>1. CASE cmd.arg = "remove"
  BY <1>1 DEF CmdTypeOK, Kept, Same, Refused, Error
<1>2. CASE cmd.arg # "remove"
  <2>1. Refused = [cmd EXCEPT !.step = "returned", !.result = "error",
                              !.warned = @ \cup {"remove"}]
    BY <1>2 DEF CmdTypeOK, Refused, Error
  <2> QED
    BY <2>1 DEF CmdTypeOK, Kept, Same
<1> QED  BY <1>1, <1>2

(* An exception while a service is created, changed or configured.         *)
LEMMA ProgressRaise ==
  ASSUME Inv, Progress, NEW exc, Thrown(exc),
         cmd.step \in Configuring \cup {"create", "change"},
         cmd.step \in {"create", "change"} => exc # "ValueError",
         UNCHANGED <<service, entry>>
  PROVE  Progress'
<1>0. CmdTypeOK
  BY DEF Inv, InstallTypeOK
<1>1. /\ Kept /\ cmd'.raised = cmd.raised \cup {exc}
      /\ IF exc = "ValueError" /\ cmd.arg = "install"
         THEN cmd'.step = "unload"
         ELSE cmd'.step = "returned" /\ cmd'.result \in {"error", "exception"}
  BY <1>0, RaiseKeeps DEF Kept
<1>2. FirstTry
  BY DEF Progress, Requested, Origin, Configuring, FirstTry
<1>3. Requested'
  BY <1>1 DEF Requested, Configuring
<1>4. Origin'
  BY <1>1, <1>2 DEF Progress, Origin, Kept, Same, FirstTry
<1>5. Outcome'
  <2>1. SuccessIsComplete' /\ NextInstallWorks'
    BY <1>1 DEF SuccessIsComplete, NextInstallWorks, Returned, At
  <2>2. RefusedIsRemoved'
    <3>1. cmd.arg \in {"none", "install", "update", "remove"}
      BY <1>0 DEF CmdTypeOK, Commands
    <3>2. SUFFICES ASSUME cmd'.step = "returned", cmd.begun = "install", cmd.found = "absent",
                          cmd'.raised = {"ValueError"}
                   PROVE  FALSE
      BY <1>1 DEF RefusedIsRemoved, Returned, At, Kept, Same
    <3>3. exc = "ValueError" /\ cmd.arg # "install" /\ cmd.raised = {}
      BY <1>1, <1>2, <3>2 DEF FirstTry
    <3>4. cmd.arg = "update"
      BY <3>1, <3>2, <3>3 DEF Progress, Origin
    <3> QED
      BY <3>2, <3>3, <3>4 DEF Progress, Origin
  <2> QED  BY <2>1, <2>2 DEF Outcome
<1> QED  BY <1>3, <1>4, <1>5 DEF Progress

(* A step that goes on, to a step other than "returned" or "create".       *)
LEMMA OutcomeOpen ==
  ASSUME cmd'.step # "returned"
  PROVE  Outcome'
BY DEF Outcome, SuccessIsComplete, NextInstallWorks, RefusedIsRemoved, Returned, At

LEMMA ProgressCommand ==
  ASSUME Inv, Progress, NEW arg \in Commands, NEW startup \in Startups \cup {NoStartup},
         NEW perf \in BOOLEAN, Command(arg, startup, perf)
  PROVE  Progress'
<1>1. /\ cmd'.found = service /\ cmd'.begun = arg /\ cmd'.arg = arg /\ cmd'.raised = {}
      /\ cmd'.step = IF arg = "install" THEN "create" ELSE "unload"
      /\ UNCHANGED <<service, entry>>
  BY DEF Command, scmVars
<1>2. Requested'
  BY <1>1 DEF Requested, Configuring
<1>3. Origin'
  BY <1>1 DEF Progress, Origin, FirstTry, Commands
<1>4. Outcome'
  BY <1>1, OutcomeOpen
<1> QED  BY <1>2, <1>3, <1>4 DEF Progress

LEMMA ProgressCreate ==
  ASSUME Inv, Progress, Create
  PROVE  Progress'
<1>0. /\ CmdTypeOK /\ service \in {"absent", "installed", "marked"}
      /\ cmd.step = "create" /\ UNCHANGED counters
  BY DEF Inv, InstallTypeOK, Create, At
<1>1. CASE service = "installed" /\ cmd' = FallThrough /\ UNCHANGED <<service, entry>>
  <2>1. FellThrough /\ cmd'.raised = cmd.raised
    BY <1>0, <1>1, FallThroughKeeps
  <2>2. cmd.begun = "install" /\ cmd.raised = {} /\ cmd.found = "installed"
    BY <1>0, <1>1 DEF Progress, Origin
  <2>3. Requested'
    BY <2>1 DEF Requested, FellThrough, Configuring
  <2>4. Origin'
    BY <1>0, <1>1, <2>1, <2>2 DEF Progress, Origin, FellThrough, FirstTry
  <2> QED  BY <2>1, <2>3, <2>4, OutcomeOpen DEF Progress, FellThrough
<1>2. CASE service = "marked" /\ cmd' = Error /\ UNCHANGED <<service, entry>>
  <2>1. /\ Kept /\ cmd'.step = "returned" /\ cmd'.result = "error" /\ cmd'.raised = cmd.raised
    BY <1>0, <1>2, ErrorLeaves
  <2>2. cmd.begun = "install" /\ cmd.raised = {} /\ cmd.found = "marked"
    BY <1>0, <1>2 DEF Progress, Origin
  <2>3. Requested'
    BY <2>1 DEF Requested, Configuring
  <2>4. Origin'
    BY <1>0, <1>2, <2>1, <2>2 DEF Progress, Origin, Kept, Same
  <2>5. Outcome'
    BY <2>1, <2>2
       DEF Outcome, SuccessIsComplete, NextInstallWorks, RefusedIsRemoved, Returned, At,
           Kept, Same
  <2> QED  BY <2>3, <2>4, <2>5 DEF Progress
<1>3. CASE (\E exc \in {"win32", "other"} : Raise(exc)) /\ UNCHANGED <<service, entry>>
  BY <1>0, <1>3, ProgressRaise DEF Exceptions, Raisable, Thrown
<1>4. CASE /\ service = "absent" /\ service' = "installed"
           /\ entry' = [start |-> IF cmd.startup = NoStartup THEN "manual"
                                  ELSE StartType(cmd.startup),
                        delayed |-> FALSE, class |-> FALSE, option |-> FALSE]
           /\ Go("describe")
  <2>1. Kept /\ cmd'.step = "describe" /\ cmd'.raised = cmd.raised
    BY <1>0, <1>4, GoLeaves DEF Steps
  <2>2. cmd.begun = "install" /\ cmd.arg = "install" /\ cmd.raised = {}
    BY <1>0 DEF Progress, Origin
  <2>3. ~ entry'.delayed /\ (cmd.startup # NoStartup => entry'.start = StartType(cmd.startup))
    BY <1>4
  <2>4. Requested'
    BY <2>1, <2>2, <2>3 DEF Requested, Kept, Same, StartType, FirstTry, Configuring
  <2>5. Origin'
    BY <2>1, <2>2, <2>3 DEF Origin, Kept, Same, FirstTry
  <2> QED  BY <2>1, <2>4, <2>5, OutcomeOpen DEF Progress
<1> QED  BY <1>1, <1>2, <1>3, <1>4 DEF Create

LEMMA ProgressUnload ==
  ASSUME Inv, Progress, Unload
  PROVE  Progress'
<1> DEFINE next == IF cmd.arg = "update" THEN "change" ELSE "delete"
<1>0. /\ CmdTypeOK /\ cmd.step = "unload" /\ next \in Steps
      /\ UNCHANGED <<service, entry>>
  BY DEF Inv, InstallTypeOK, Unload, At, scmVars, Steps
<1>1. /\ Kept /\ cmd'.step = next /\ cmd'.raised = cmd.raised
      /\ counters' => "unload" \in cmd'.warned
  BY <1>0, GoLeaves, WarnLeaves DEF Unload, Ignored
<1>2. Requested'
  BY <1>1 DEF Requested, Configuring
<1>3. /\ cmd.arg \in {"none", "install", "update", "remove"}
      /\ cmd.begun \in {"none", "install", "update", "remove"}
  BY <1>0 DEF CmdTypeOK, Commands
<1>4. Origin'
  BY <1>0, <1>1, <1>3 DEF Progress, Origin, Kept, Same, FirstTry
<1> QED  BY <1>1, <1>2, <1>4, OutcomeOpen DEF Progress

LEMMA ProgressChange ==
  ASSUME Inv, Progress, Change
  PROVE  Progress'
<1>0. /\ CmdTypeOK /\ cmd.step = "change" /\ cmd.arg = "update" /\ FirstTry
      /\ service' = service /\ UNCHANGED counters
  BY DEF Inv, InstallTypeOK, Change, At, Progress, Origin
<1>a. /\ cmd.begun \in {"install", "update"}
      /\ cmd.begun = "install" => service = "installed" \/ "exists" \in cmd.raised
  BY <1>0 DEF CmdTypeOK, Commands, Progress, Origin, Inv
<1>1. CASE service # "installed" /\ cmd' = Error /\ UNCHANGED entry
  <2>1. /\ Kept /\ cmd'.step = "returned" /\ cmd'.result = "error" /\ cmd'.raised = cmd.raised
    BY <1>0, <1>1, ErrorLeaves
  <2>2. Requested'
    BY <2>1 DEF Requested, Configuring
  <2>3. Origin'
    BY <1>0, <1>1, <2>1 DEF Progress, Origin, Kept, Same
  <2>4. Outcome'
    BY <1>0, <1>a, <1>1, <2>1
       DEF FirstTry, Outcome, SuccessIsComplete, NextInstallWorks, RefusedIsRemoved, Returned, At,
           Kept, Same
  <2> QED  BY <2>2, <2>3, <2>4 DEF Progress
<1>2. CASE (\E exc \in {"win32", "other"} : Raise(exc)) /\ UNCHANGED entry
  BY <1>0, <1>2, ProgressRaise DEF Exceptions, Raisable, Thrown
<1>3. CASE /\ service = "installed" /\ Go("describe")
           /\ entry' = IF cmd.startup = NoStartup THEN entry
                       ELSE [entry EXCEPT !.start = StartType(cmd.startup)]
  <2>1. Kept /\ cmd'.step = "describe" /\ cmd'.raised = cmd.raised
    BY <1>0, <1>3, GoLeaves DEF Steps
  <2>2. entry \in Entries
    BY <1>3 DEF Inv, InstallTypeOK
  <2>3. /\ entry'.delayed = entry.delayed
        /\ cmd.startup # NoStartup => entry'.start = StartType(cmd.startup)
    BY <1>3, <2>2 DEF Entries
  <2>4. Requested'
    BY <1>0, <1>a, <2>1, <2>3 DEF Requested, Kept, Same, FirstTry, Configuring
  <2>5. Origin'
    BY <1>0, <1>3, <2>1, <2>3 DEF Progress, Origin, Kept, Same
  <2> QED  BY <2>1, <2>4, <2>5, OutcomeOpen DEF Progress
<1> QED  BY <1>1, <1>2, <1>3 DEF Change

(* The steps that configure the service.                                   *)
LEMMA ProgressConfigure ==
  ASSUME Inv, Progress,
         Describe \/ Delay \/ InstallPythonClassString \/ InstallPerfmonForService
  PROVE  Progress'
<1>0. /\ CmdTypeOK /\ cmd.step \in Configuring /\ service = "installed" /\ entry \in Entries
      /\ UNCHANGED service /\ FirstTry /\ entry'.start = entry.start
  <2>1. cmd.step \in Configuring
    BY DEF Describe, Delay, InstallPythonClassString, InstallPerfmonForService, At, Configuring
  <2>2. CmdTypeOK /\ service = "installed" /\ entry \in Entries
    BY <2>1 DEF Inv, InstallTypeOK
  <2>3. entry'.start = entry.start
    BY <2>2
       DEF Describe, Delay, InstallPythonClassString, InstallPerfmonForService, scmVars, Entries
  <2> QED
    BY <2>1, <2>2, <2>3 DEF Describe, Delay, InstallPythonClassString,
       InstallPerfmonForService, scmVars, Progress, Requested
<1>1. ASSUME NEW step \in Configuring, GoesTo(step),
             /\ step \in {"class", "perfmon", "options"} /\ cmd.startup \in {"auto", "delayed"} =>
                  entry'.delayed = (cmd.startup = "delayed") \/ "delay" \in cmd'.warned
             /\ step \in {"perfmon", "options"} => entry'.class
             /\ step = "options" /\ cmd.perf => counters' \/ "counters" \in cmd'.warned
      PROVE  Progress'
  <2>1. Kept /\ cmd'.step = step /\ cmd'.raised = cmd.raised
    BY <1>0, <1>1, GoLeaves, WarnLeaves DEF Steps, Configuring, GoesTo
  <2>2. Requested'
    BY <1>0, <1>1, <2>1 DEF Progress, Requested, Kept, Same, FirstTry, Configuring
  <2>3. Origin'
    BY <1>0, <1>1, <2>1 DEF Progress, Origin, Kept, Same, Configuring
  <2> QED  BY <2>1, <2>2, <2>3, OutcomeOpen DEF Progress, Configuring
<1>2. CASE Describe
  <2>1. CASE Raise("win32")
    BY <1>0, <1>2, <2>1, ProgressRaise
       DEF Describe, scmVars, Thrown, Raisable, Exceptions, Configuring
  <2>2. CASE Go("delay")
    BY <1>0, <1>1, <1>2, <2>2 DEF Configuring, GoesTo
  <2> QED  BY <1>2, <2>1, <2>2 DEF Describe
<1>3. CASE Delay
  <2>1. CASE cmd.startup \in {"delayed", "auto"} /\ Go("class")
             /\ entry' = [entry EXCEPT !.delayed = (cmd.startup = "delayed")]
    <3>1. entry'.delayed = (cmd.startup = "delayed")
      BY <1>0, <2>1 DEF Entries
    <3> QED  BY <1>1, <2>1, <3>1 DEF GoesTo, Configuring
  <2>2. CASE Warn("delay", "class")
    <3>1. "delay" \in cmd'.warned
      BY <1>0, <2>2, WarnLeaves DEF Steps, Ignored
    <3> QED  BY <1>1, <2>2, <3>1 DEF GoesTo, Configuring, Ignored
  <2>3. CASE cmd.startup \notin {"delayed", "auto"} /\ Go("class")
    BY <1>1, <2>3 DEF GoesTo, Configuring
  <2> QED  BY <1>3, <2>1, <2>2, <2>3 DEF Delay
<1>4. CASE InstallPythonClassString
  <2>0. cmd.step = "class"
    BY <1>4 DEF InstallPythonClassString, At
  <2>1. CASE Raise("win32") /\ UNCHANGED entry
    BY <1>0, <1>4, <2>1, ProgressRaise
       DEF InstallPythonClassString, Thrown, Raisable, Exceptions
  <2>2. CASE /\ entry' = [entry EXCEPT !.class = TRUE]
             /\ Go(IF cmd.perf THEN "perfmon" ELSE "options")
    <3> DEFINE next == IF cmd.perf THEN "perfmon" ELSE "options"
    <3>1. entry'.class /\ entry'.delayed = entry.delayed
      BY <1>0, <2>2 DEF Entries
    <3>2. next \in Configuring /\ next \in Steps /\ (next = "options" => ~ cmd.perf)
      BY DEF Configuring, Steps
    <3>3. Go(next) /\ cmd'.warned = cmd.warned
      BY <1>0, <2>2, <3>2, GoLeaves
    <3>5. cmd.startup \in {"auto", "delayed"} =>
            entry'.delayed = (cmd.startup = "delayed") \/ "delay" \in cmd'.warned
      BY <2>0, <3>1, <3>3 DEF Progress, Requested
    <3> HIDE DEF next
    <3> QED  BY <1>1, <3>1, <3>2, <3>3, <3>5 DEF GoesTo
  <2> QED  BY <1>4, <2>1, <2>2 DEF InstallPythonClassString
<1>5. CASE InstallPerfmonForService
  <2>0. cmd.step = "perfmon" /\ UNCHANGED entry
    BY <1>5 DEF InstallPerfmonForService, At, scmVars
  <2>1. CASE \E exc \in Exceptions : Raise(exc)
    BY <1>0, <1>5, <2>0, <2>1, ProgressRaise DEF Thrown, Raisable, Exceptions
  <2>2. CASE (counters' = TRUE /\ Go("options")) \/ Warn("counters", "options")
    <3>1. /\ GoesTo("options") /\ cmd.warned \subseteq cmd'.warned
          /\ counters' \/ "counters" \in cmd'.warned
      BY <1>0, <2>2, GoLeaves, WarnLeaves DEF Steps, Ignored, GoesTo
    <3>2. entry.class
      BY <1>0, <2>0 DEF Progress, Requested
    <3>3. cmd.startup \in {"auto", "delayed"} =>
            entry.delayed = (cmd.startup = "delayed") \/ "delay" \in cmd'.warned
      BY <2>0, <3>1 DEF Progress, Requested
    <3> QED  BY <1>1, <2>0, <3>1, <3>2, <3>3 DEF Configuring
  <2> QED  BY <1>5, <2>1, <2>2 DEF InstallPerfmonForService, Exceptions
<1> QED  BY <1>2, <1>3, <1>4, <1>5

LEMMA ProgressOptions ==
  ASSUME Inv, Progress, CustomOptions
  PROVE  Progress'
<1>0. /\ CmdTypeOK /\ cmd.step = "options" /\ service = "installed" /\ entry \in Entries
      /\ UNCHANGED <<service, counters>>
  <2>1. cmd.step = "options" /\ cmd.step \in Configuring
    BY DEF CustomOptions, At, Configuring
  <2> QED  BY <2>1 DEF Inv, InstallTypeOK, CustomOptions
<1>1. CASE (\E exc \in Raisable : Thrown(exc)) /\ UNCHANGED entry
  BY <1>0, <1>1, ProgressRaise DEF Configuring
<1>3. CASE Raise("exists") /\ cmd.arg = "install" /\ UNCHANGED entry
  <2>1. FellThrough /\ cmd'.raised = cmd.raised \cup {"exists"}
    BY <1>0, <1>3, FallThroughKeeps
  <2>2. /\ cmd.begun \in {"install", "update"} /\ cmd.raised = {}
        /\ cmd.begun = "update" => cmd.arg = "update"
    BY <1>0, <1>3 DEF Progress, Requested, Origin, FirstTry, Configuring
  <2>3. Requested'
    BY <2>1 DEF Requested, FellThrough, Configuring
  <2>4. Origin'
    BY <1>0, <1>3, <2>1, <2>2 DEF Progress, Origin, FellThrough, FirstTry
  <2> QED  BY <2>1, <2>3, <2>4, OutcomeOpen DEF Progress, FellThrough
<1>2. CASE entry' = [entry EXCEPT !.option = TRUE] /\ ReturnCode("ok")
  <2>1. /\ Kept /\ cmd'.step = "returned" /\ cmd'.result = "ok"
        /\ cmd'.raised = cmd.raised /\ cmd'.warned = cmd.warned
    BY <1>0, <1>2, ReturnLeaves
  <2>2. /\ entry'.option /\ entry'.start = entry.start /\ entry'.class = entry.class
        /\ entry'.delayed = entry.delayed
    BY <1>0, <1>2 DEF Entries
  <2>3. /\ cmd.begun \in {"install", "update"} /\ FirstTry /\ entry.class
        /\ cmd.startup # NoStartup => entry.start = StartType(cmd.startup)
        /\ cmd.startup \in {"auto", "delayed"} =>
             entry.delayed = (cmd.startup = "delayed") \/ "delay" \in cmd.warned
        /\ cmd.perf => counters \/ "counters" \in cmd.warned
    BY <1>0 DEF Progress, Requested, Configuring
  <2>4. Requested'
    BY <2>1 DEF Requested, Configuring
  <2>5. Origin'
    BY <1>0, <2>1, <2>2 DEF Progress, Origin, Kept, Same
  <2>6. SuccessIsComplete'
    BY <1>0, <2>1, <2>2, <2>3 DEF SuccessIsComplete, Returned, At, Kept, Same
  <2>7. NextInstallWorks' /\ RefusedIsRemoved'
    BY <2>1, <2>3 DEF NextInstallWorks, RefusedIsRemoved, Returned, At, FirstTry
  <2> QED  BY <2>4, <2>5, <2>6, <2>7 DEF Progress, Outcome
<1> QED  BY <1>1, <1>2, <1>3 DEF CustomOptions, Thrown, Raisable, Exceptions

LEMMA ProgressDelete ==
  ASSUME Inv, Progress, Delete
  PROVE  Progress'
<1>0. /\ CmdTypeOK /\ cmd.step = "delete" /\ UNCHANGED counters
      /\ service \in {"absent", "installed", "marked"}
  BY DEF Inv, InstallTypeOK, Delete, At
<1>1. /\ cmd.arg \in {"install", "remove"} /\ (counters => "unload" \in cmd.warned)
      /\ cmd.begun \in {"none", "install", "update", "remove"}
      /\ cmd.begun = "remove" <=> cmd.arg = "remove"
      /\ cmd.begun = "install" => cmd.raised = {"ValueError"}
      /\ cmd.begun # "update" /\ cmd.begun # "none"
  BY <1>0 DEF CmdTypeOK, Commands, Progress, Origin
<1>2. ASSUME Kept, cmd'.step = "returned", cmd.warned \subseteq cmd'.warned,
             \/ /\ UNCHANGED <<service, entry>> /\ cmd'.result = "error"
                /\ cmd'.raised = cmd.raised /\ service # "installed"
             \/ /\ UNCHANGED <<service, entry>> /\ cmd'.result = "error"
                /\ cmd'.raised = cmd.raised \cup {"win32"}
             \/ /\ service' \in {"absent", "marked"} /\ cmd'.raised = cmd.raised
                /\ service' # "absent" => entry' = entry /\ service # "absent"
                /\ cmd'.result = IF cmd.arg = "remove" THEN "ok" ELSE "error"
      PROVE  Progress'
  <2>1. Requested'
    BY <1>2 DEF Requested, Configuring
  <2>2. Origin'
    BY <1>0, <1>1, <1>2 DEF Progress, Origin, Kept, Same
  <2>3. SuccessIsComplete'
    BY <1>0, <1>1, <1>2 DEF SuccessIsComplete, Returned, At, Kept, Same
  <2>4. NextInstallWorks'
    BY <1>0, <1>1, <1>2 DEF NextInstallWorks, Returned, At, Kept, Same
  <2>5. RefusedIsRemoved'
    BY <1>0, <1>1, <1>2 DEF RefusedIsRemoved, Returned, At, Kept, Same
  <2> QED  BY <2>1, <2>2, <2>3, <2>4, <2>5 DEF Progress, Outcome
<1>3. CASE service # "installed" /\ cmd' = Refused /\ UNCHANGED scmVars
  <2>1. cmd' = [Refused EXCEPT !.raised = cmd.raised]
    BY <1>0, <1>3 DEF CmdTypeOK, Refused, Error
  <2> QED  BY <1>0, <1>2, <1>3, <2>1, RefusedLeaves DEF scmVars
<1>4. CASE cmd' = [Refused EXCEPT !.raised = @ \cup {"win32"}] /\ UNCHANGED scmVars
  <2>1. cmd' = [Refused EXCEPT !.raised = cmd.raised \cup {"win32"}]
    BY <1>0, <1>4 DEF CmdTypeOK, Refused, Error
  <2> QED  BY <1>0, <1>2, <1>4, <2>1, RefusedLeaves DEF scmVars
<1>5. CASE /\ service = "installed" /\ Settle(TRUE, running, elsewhere)
           /\ ReturnCode(IF cmd.arg = "remove" THEN "ok" ELSE "error")
  <2>1. /\ service' \in {"absent", "marked"}
        /\ service' # "absent" => entry' = entry
    BY <1>5 DEF Settle
  <2> QED  BY <1>0, <1>2, <1>5, <2>1, ReturnLeaves
<1> QED  BY <1>3, <1>4, <1>5 DEF Delete

(* The service itself and other programs.                                  *)
LEMMA ProgressOthers ==
  ASSUME Inv, Progress, ServiceRuns \/ ServiceStops \/ OthersOpen \/ OthersClose
  PROVE  Progress'
<1>1. /\ UNCHANGED <<cmd, counters>>
      /\ \/ UNCHANGED <<service, entry>>
         \/ service = "marked" /\ service' = "absent"
  <2>1. CASE ServiceRuns \/ OthersOpen
    BY <2>1 DEF ServiceRuns, OthersOpen
  <2>2. CASE ServiceStops \/ OthersClose
    BY <2>2 DEF ServiceStops, OthersClose, Settle
  <2> QED  BY <2>1, <2>2
<1>2. CASE UNCHANGED <<service, entry>>
  BY <1>1, <1>2 DEF Progress, Requested, Origin, FirstTry, Outcome, SuccessIsComplete,
     NextInstallWorks, RefusedIsRemoved, Returned, At
<1>3. CASE service = "marked" /\ service' = "absent"
  <2>1. cmd.step \notin Configuring
    BY <1>3 DEF Inv
  <2>2. Requested' /\ Origin'
    BY <1>1, <1>3, <2>1 DEF Progress, Requested, Origin, FirstTry, Configuring
  <2>3. Outcome'
    BY <1>1, <1>3 DEF Progress, Outcome, SuccessIsComplete, NextInstallWorks,
       RefusedIsRemoved, Returned, At
  <2> QED  BY <2>2, <2>3 DEF Progress
<1> QED  BY <1>1, <1>2, <1>3

LEMMA ProgressStep ==
  ASSUME Inv, Progress, [InstallNext]_installVars
  PROVE  Progress'
<1>1. CASE UNCHANGED installVars
  BY <1>1 DEF installVars, scmVars, Progress, Requested, Origin, FirstTry, Outcome, SuccessIsComplete,
     NextInstallWorks, RefusedIsRemoved, Returned, At
<1>2. ASSUME NEW arg \in Commands, NEW startup \in Startups \cup {NoStartup},
             NEW perf \in BOOLEAN, Command(arg, startup, perf)
      PROVE  Progress'
  BY <1>2, ProgressCommand
<1>3. NoStartup \in Startups \cup {NoStartup} /\ {"install", "update", "remove"} = Commands
  BY DEF Commands
<1> QED
  BY <1>1, <1>2, <1>3, ProgressCreate, ProgressUnload, ProgressChange, ProgressConfigure,
     ProgressOptions, ProgressDelete, ProgressOthers DEF InstallNext, HandleCommandLine

LEMMA ProgressInit == InstallInit => Progress
BY DEF InstallInit, Progress, Requested, Origin, FirstTry, Outcome, SuccessIsComplete, NextInstallWorks,
   RefusedIsRemoved, Returned, At, Configuring

LEMMA ProgressInvariance == InstallSpec => []Progress
<1>1. InstallInit => Inv /\ Progress
  BY InvInit, ProgressInit
<1>2. (Inv /\ Progress) /\ [InstallNext]_installVars => (Inv /\ Progress)'
  BY InvStep, ProgressStep
<1> QED
  BY <1>1, <1>2, PTL DEF InstallSpec

(* A command that returns 0 has done what it was asked to do, whatever the *)
(* commands before it have left.                                           *)
THEOREM SuccessMeansDone == InstallSpec => []SuccessIsComplete
<1>1. Progress => SuccessIsComplete
  BY DEF Progress, Outcome
<1> QED
  BY <1>1, ProgressInvariance, PTL

(* "So the next installation attempt works": an installation fails only if *)
(* one of its calls does, or a deleted service is still in use.            *)
THEOREM InstallsAgain == InstallSpec => []NextInstallWorks
<1>1. Progress => NextInstallWorks
  BY DEF Progress, Outcome
<1> QED
  BY <1>1, ProgressInvariance, PTL

(* A service whose options are refused by a ValueError is removed again.   *)
THEOREM RefusedLeavesNothing == InstallSpec => []RefusedIsRemoved
<1>1. Progress => RefusedIsRemoved
  BY DEF Progress, Outcome
<1> QED
  BY <1>1, ProgressInvariance, PTL
=============================================================================
