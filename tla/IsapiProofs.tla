------------------------------ MODULE IsapiProofs ------------------------------
(* The workers of IsapiHandler act as the user of the request that they    *)
(* dispatch, and each request is answered at most once, by the one worker  *)
(* that has it, and only the extension in use has workers that nobody told *)
(* to stop: for any number of requests, workers and reloads.               *)
EXTENDS IsapiHandler, SequenceTheorems, TLAPS

Requested == Requests \cup {Nobody}
Stages == {"starting", "loop", "wait", "got", "dispatch", "error", "reset",
           "resetAndRaise", "exited"}
Made == 1 .. Len(owner)

(* Every pool has its workers, and what they are at.                       *)
Shape ==
  /\ owner \in Seq(Nat) /\ handler \in Nat /\ made \in Nat /\ max_workers \in Nat
  /\ callback \in [{"do", "term", "init"} -> Nat]
  /\ pc \in [Made -> [Workers -> Stages]]
  /\ req \in [Made -> [Workers -> Requested]] /\ token \in [Made -> [Workers -> Requested]]

(* What goes through a port is a request or an order to stop.              *)
Ports == port \in [Made -> Seq(Requests \cup {Shutdown})]

-----------------------------------------------------------------------------
(* A sequence that grows is a function over one more index.                *)
LEMMA AppendFunction ==
  ASSUME NEW S, NEW n \in Nat, NEW f \in [1 .. n -> S], NEW e \in S
  PROVE  /\ Append(f, e) \in [1 .. n + 1 -> S]
         /\ \A i \in 1 .. n : Append(f, e)[i] = f[i]
         /\ Append(f, e)[n + 1] = e
<1>1. f \in Seq(S) /\ Len(f) = n
  OBVIOUS
<1>2. /\ Append(f, e) \in Seq(S) /\ Len(Append(f, e)) = n + 1
      /\ \A i \in 1 .. n : Append(f, e)[i] = f[i]
      /\ Append(f, e)[n + 1] = e
  BY <1>1, AppendProperties
<1> QED BY <1>2, LenProperties

(* The table g of the workers of n + 1 pools has those of f and a new pool *)
(* of a row of its own.                                                    *)
Grown(f, g, S, n, row) ==
  /\ g \in [1 .. n + 1 -> [Workers -> S]]
  /\ \A i \in 1 .. n : g[i] = f[i]
  /\ g[n + 1] = row

LEMMA TableGrows ==
  ASSUME NEW S, NEW n \in Nat, NEW f \in [1 .. n -> [Workers -> S]],
         NEW row \in [Workers -> S], NEW g, g = Append(f, row)
  PROVE  Grown(f, g, S, n, row)
<1> DEFINE T == [Workers -> S]
<1>1. row \in T
  OBVIOUS
<1>2. f \in [1 .. n -> T]
  OBVIOUS
<1> HIDE DEF T
<1>3. f \in Seq(T) /\ Len(f) = n
  BY <1>2
<1>4. /\ g \in Seq(T) /\ Len(g) = n + 1 /\ g[n + 1] = row
      /\ \A i \in 1 .. n : g[i] = f[i]
  BY <1>1, <1>3, AppendProperties
<1>5. g \in [1 .. n + 1 -> T]
  BY <1>4, LenProperties
<1> QED BY <1>1, <1>4, <1>5 DEF Grown, T

(* One entry of a table of the workers of the pools is replaced.           *)
LEMMA UpdateType ==
  ASSUME NEW A, NEW B, NEW S, NEW f \in [A -> [B -> S]], NEW a \in A, NEW b \in B, NEW x \in S
  PROVE  /\ [f EXCEPT ![a][b] = x] \in [A -> [B -> S]]
         /\ [f EXCEPT ![a][b] = x][a][b] = x
         /\ \A c \in A, d \in B : (c # a \/ d # b) => [f EXCEPT ![a][b] = x][c][d] = f[c][d]
OBVIOUS

LEMMA ShapeInit == ASSUME Init PROVE Shape /\ Ports /\ OwnIdentity
<1> USE DEF Init, PoolInit, PerWorker, NewWorkers, Requested, Stages, Made, Unbound
<1>1. owner = <<1>> /\ Len(owner) = 1 /\ Made = 1 .. 1
  OBVIOUS
<1>2. Shape
  BY <1>1, PoolAssumption DEF Shape, PoolAssumption
<1>3. Ports
  <2>1. port = [i \in 1 .. 1 |-> <<>>] /\ <<>> \in Seq(Requests \cup {Shutdown})
    OBVIOUS
  <2> QED BY <1>1, <2>1 DEF Ports
<1>4. OwnIdentity
  BY <1>1 DEF OwnIdentity, Pools, Dispatching
<1> QED BY <1>2, <1>3, <1>4

-----------------------------------------------------------------------------
(* The steps of a worker.                                                  *)
LEMMA GotoType ==
  ASSUME Shape, NEW p \in Made, NEW w \in Workers, NEW from, NEW to \in Stages,
         Goto(p, w, from, to)
  PROVE  /\ pc[p][w] = from /\ pc' \in [Made -> [Workers -> Stages]] /\ pc'[p][w] = to
         /\ \A q \in Made, v \in Workers : (q # p \/ v # w) => pc'[q][v] = pc[q][v]
BY DEF Goto, Shape

(* A step in which one worker moves keeps what the others are at.          *)
Moves(p, w) ==
  /\ UNCHANGED <<owner, max_workers, handler, made, callback>>
  /\ pc' \in [Made -> [Workers -> Stages]]
  /\ req' \in [Made -> [Workers -> Requested]] /\ token' \in [Made -> [Workers -> Requested]]
  /\ \A q \in Made, v \in Workers : (q # p \/ v # w) =>
       pc'[q][v] = pc[q][v] /\ req'[q][v] = req[q][v] /\ token'[q][v] = token[q][v]
  /\ token'[p][w] = IF pc'[p][w] \in Dispatching THEN req'[p][w] ELSE Nobody

LEMMA MovesKeeps ==
  ASSUME Shape, OwnIdentity, NEW p \in Made, NEW w \in Workers, Moves(p, w)
  PROVE  Shape' /\ OwnIdentity'
<1>1. Made' = Made /\ Pools = Made /\ Pools' = Made
  BY DEF Moves, Made, Pools, Shape
<1>2. Shape'
  BY <1>1 DEF Shape, Moves
<1>3. OwnIdentity'
  BY <1>1 DEF OwnIdentity, Moves
<1> QED BY <1>2, <1>3

LEMMA WorkerMoves ==
  ASSUME Shape, Ports, OwnIdentity, NEW p \in Made, NEW w \in Workers, WorkerStep(p, w)
  PROVE  Moves(p, w) /\ Ports'
<1> USE DEF WorkerStep, handlerVars, Dispatching, Stages
<1>0. /\ token[p][w] = IF pc[p][w] \in Dispatching THEN req[p][w] ELSE Nobody
      /\ UNCHANGED owner => Made' = Made
  <2>1. p \in Pools
    BY DEF Pools, Made, Shape
  <2> QED BY <2>1 DEF OwnIdentity, Made
<1>1. CASE Run(p, w)
  BY <1>0, <1>1, GotoType DEF Run, Moves, Shape, Ports
<1>2. CASE TestRunning(p, w)
  BY <1>0, <1>2, GotoType DEF TestRunning, Loop, Moves, Shape, Ports
<1>3. CASE GetPacket(p, w)
  <2>1. \/ UNCHANGED <<port, req>>
        \/ /\ port[p] # <<>> /\ port' = [port EXCEPT ![p] = Tail(port[p])]
           /\ \/ UNCHANGED req
              \/ Head(port[p]) # Shutdown /\ req' = [req EXCEPT ![p][w] = Head(port[p])]
    BY <1>3 DEF GetPacket
  <2>2. port[p] \in Seq(Requests \cup {Shutdown})
    BY DEF Ports
  <2>3. port[p] # <<>> => /\ Tail(port[p]) \in Seq(Requests \cup {Shutdown})
                          /\ Head(port[p]) # Shutdown => Head(port[p]) \in Requested
    BY <2>2 DEF Requested
  <2>4. Ports'
    BY <1>0, <1>3, <2>1, <2>3 DEF GetPacket, Ports
  <2>5. /\ req' \in [Made -> [Workers -> Requested]]
        /\ \A q \in Made, v \in Workers : (q # p \/ v # w) => req'[q][v] = req[q][v]
    <3>1. req \in [Made -> [Workers -> Requested]]
      BY DEF Shape
    <3>2. CASE /\ Head(port[p]) \in Requested
               /\ req' = [req EXCEPT ![p][w] = Head(port[p])]
      <4> DEFINE packet == Head(port[p])
      <4>1. packet \in Requested /\ req' = [req EXCEPT ![p][w] = packet]
        BY <3>2
      <4> HIDE DEF packet
      <4> QED BY <3>1, <4>1, UpdateType
    <3> QED BY <3>1, <3>2, <2>1, <2>3
  <2>6. \E to \in {"exited", "got"} : Goto(p, w, "wait", to)
    BY <1>3 DEF GetPacket
  <2> QED BY <1>0, <1>3, <2>4, <2>5, <2>6, GotoType DEF GetPacket, Moves, Shape
<1>4. CASE BeginDispatch(p, w)
  <2>1. CASE token' = [token EXCEPT ![p][w] = req[p][w]] /\ Goto(p, w, "got", "dispatch")
    <3>1. req[p][w] \in Requested
      BY DEF Shape
    <3>2. /\ token' \in [Made -> [Workers -> Requested]] /\ token'[p][w] = req[p][w]
          /\ \A q \in Made, v \in Workers : (q # p \/ v # w) => token'[q][v] = token[q][v]
      BY <2>1, <3>1, UpdateType DEF Shape
    <3> QED BY <1>0, <1>4, <2>1, <3>2, GotoType DEF BeginDispatch, Moves, Shape, Ports
  <2>2. CASE UNCHANGED token /\ Goto(p, w, "got", "exited")
    BY <1>0, <1>4, <2>2, GotoType DEF BeginDispatch, Moves, Shape, Ports
  <2> QED BY <1>4, <2>1, <2>2 DEF BeginDispatch
<1>5. CASE Dispatch(p, w)
  <2>1. \E to \in {"reset", "error"} : Goto(p, w, "dispatch", to)
    BY <1>5 DEF Dispatch
  <2> QED BY <1>0, <1>5, <2>1, GotoType DEF Dispatch, Moves, Shape, Ports
<1>6. CASE HandleDispatchError(p, w)
  <2>1. \E to \in {"reset", "resetAndRaise"} : Goto(p, w, "error", to)
    BY <1>6 DEF HandleDispatchError
  <2> QED BY <1>0, <1>6, <2>1, GotoType DEF HandleDispatchError, Moves, Shape, Ports
<1>7. CASE ResetToken(p, w)
  <2>1. /\ token' = [token EXCEPT ![p][w] = Nobody] /\ Nobody \in Requested
        /\ req' = req \/ req' = [req EXCEPT ![p][w] = Nobody]
        /\ UNCHANGED <<owner, port, max_workers, handler, made, callback>>
    BY <1>7 DEF ResetToken, Requested
  <2>2. /\ token' \in [Made -> [Workers -> Requested]] /\ token'[p][w] = Nobody
        /\ req' \in [Made -> [Workers -> Requested]]
        /\ \A q \in Made, v \in Workers : (q # p \/ v # w) =>
             token'[q][v] = token[q][v] /\ req'[q][v] = req[q][v]
    <3>1. /\ req \in [Made -> [Workers -> Requested]]
          /\ token \in [Made -> [Workers -> Requested]]
      BY DEF Shape
    <3>2. /\ token' \in [Made -> [Workers -> Requested]] /\ token'[p][w] = Nobody
          /\ \A q \in Made, v \in Workers : (q # p \/ v # w) => token'[q][v] = token[q][v]
      BY <2>1, <3>1, UpdateType
    <3>3. /\ req' \in [Made -> [Workers -> Requested]]
          /\ \A q \in Made, v \in Workers : (q # p \/ v # w) => req'[q][v] = req[q][v]
      <4>1. CASE req' = req
        BY <4>1, <3>1
      <4>2. CASE req' = [req EXCEPT ![p][w] = Nobody]
        BY <4>2, <2>1, <3>1, UpdateType
      <4> QED BY <4>1, <4>2, <2>1
    <3> QED BY <3>2, <3>3
  <2>3. \E from \in Stages, to \in {"wait", "exited"} : Goto(p, w, from, to)
    BY <1>7 DEF ResetToken, Loop
  <2>4. /\ pc' \in [Made -> [Workers -> Stages]] /\ pc'[p][w] \in {"wait", "exited"}
        /\ \A q \in Made, v \in Workers : (q # p \/ v # w) => pc'[q][v] = pc[q][v]
    BY <2>3, GotoType
  <2> QED BY <1>0, <2>1, <2>2, <2>4 DEF Moves, Ports
<1> QED BY <1>1, <1>2, <1>3, <1>4, <1>5, <1>6, <1>7 DEF Worker

-----------------------------------------------------------------------------
(* The steps of the threads of IIS leave the workers alone, or add a pool  *)
(* of new ones.                                                            *)
LEMMA BoundType ==
  ASSUME Shape, NEW cb \in {"do", "term", "init"}
  PROVE  /\ Bound(cb) \in Nat
         /\ Bind(cb) => callback' \in [{"do", "term", "init"} -> Nat]
BY DEF Shape, Bound, Bind

LEMMA NewPool ==
  ASSUME Shape, Ports, OwnIdentity, NEW e \in Nat, GetExtensionVersion(e),
         UNCHANGED <<handler, made>>, callback' \in [{"do", "term", "init"} -> Nat]
  PROVE  Shape' /\ Ports' /\ OwnIdentity'
<1> DEFINE n == Len(owner)
<1>1. n \in Nat /\ Made = 1 .. n
  BY DEF Shape, Made
<1>2. owner' \in Seq(Nat) /\ Len(owner') = n + 1
  BY AppendProperties DEF GetExtensionVersion, Shape
<1>3. Made' = 1 .. n + 1 /\ Pools' = 1 .. n + 1 /\ Pools = 1 .. n
  BY <1>1, <1>2 DEF Made, Pools, Shape
<1>4. /\ NewWorkers \in [Workers -> Stages \ Dispatching] /\ NewWorkers \in [Workers -> Stages]
      /\ PerWorker(Nobody) \in [Workers -> Requested]
      /\ <<>> \in Seq(Requests \cup {Shutdown})
  BY DEF NewWorkers, PerWorker, Stages, Requested, Dispatching
<1>5. /\ pc' = Append(pc, NewWorkers) /\ pc \in [1 .. n -> [Workers -> Stages]]
      /\ req' = Append(req, PerWorker(Nobody)) /\ req \in [1 .. n -> [Workers -> Requested]]
      /\ token' = Append(token, PerWorker(Nobody))
      /\ token \in [1 .. n -> [Workers -> Requested]]
  BY <1>1 DEF GetExtensionVersion, Shape
<1> HIDE DEF n
<1>6. Grown(pc, pc', Stages, n, NewWorkers)
  BY <1>1, <1>4, <1>5, TableGrows, Zenon
<1>7. /\ Grown(req, req', Requested, n, PerWorker(Nobody))
      /\ Grown(token, token', Requested, n, PerWorker(Nobody))
  BY <1>1, <1>4, <1>5, TableGrows, Zenon
<1>8. port' \in [1 .. n + 1 -> Seq(Requests \cup {Shutdown})]
  BY <1>1, <1>4, AppendFunction DEF GetExtensionVersion, Ports
<1>9. ASSUME NEW p \in 1 .. n + 1, NEW w \in Workers
      PROVE  token'[p][w] = IF pc'[p][w] \in Dispatching THEN req'[p][w] ELSE Nobody
  <2>1. CASE p \in 1 .. n
    BY <2>1, <1>3, <1>6, <1>7 DEF OwnIdentity, Grown
  <2>2. CASE p = n + 1
    BY <2>2, <1>4, <1>6, <1>7 DEF Grown, PerWorker
  <2> QED BY <2>1, <2>2, <1>1
<1>10. UNCHANGED max_workers
  BY DEF GetExtensionVersion
<1> QED BY <1>2, <1>3, <1>6, <1>7, <1>8, <1>9, <1>10 DEF Shape, Ports, OwnIdentity, Grown

(* What a step does that leaves the workers alone.                         *)
Spares ==
  /\ UNCHANGED <<owner, max_workers, pc, req, token>>
  /\ handler' \in Nat /\ made' \in Nat /\ callback' \in [{"do", "term", "init"} -> Nat]

LEMMA SparesKeeps ==
  ASSUME Shape, OwnIdentity, Spares PROVE Shape' /\ OwnIdentity' /\ Made' = Made
BY DEF Shape, OwnIdentity, Spares, Made, Pools

LEMMA ClosePortKeeps ==
  ASSUME Ports, Made' = Made, NEW e, ClosePort(e) PROVE Ports'
<1>1. port' = port \/ port' = [port EXCEPT ![PoolOf(e)] = <<>>]
  BY DEF ClosePort
<1>2. <<>> \in Seq(Requests \cup {Shutdown})
  OBVIOUS
<1> QED BY <1>1, <1>2 DEF Ports

LEMMA HandlerKeeps ==
  ASSUME Shape, Ports, OwnIdentity, [Next]_vars
  PROVE  Shape' /\ Ports' /\ OwnIdentity'
<1> USE DEF poolVars, handlerVars
<1>1. CASE UNCHANGED vars
  BY <1>1, SparesKeeps DEF vars, Spares, Shape, Ports
<1>2. CASE Unload
  BY <1>2, SparesKeeps DEF Unload, Spares, Shape, Ports
<1>3. ASSUME NEW r \in Requests, Arrive(r) \/ Reissue(r)
      PROVE  Shape' /\ Ports' /\ OwnIdentity'
  <2>1. Spares
    BY <1>3, BoundType DEF Arrive, Reissue, Post, PostRequest, Spares, Shape
  <2>2. CASE UNCHANGED port
    BY <2>1, <2>2, SparesKeeps DEF Ports
  <2>3. ASSUME NEW e, PostRequest(e, r) PROVE Ports'
    <3>1. \A q \in Seq(Requests \cup {Shutdown}) : Append(q, r) \in Seq(Requests \cup {Shutdown})
      OBVIOUS
    <3> QED BY <2>1, <2>3, <3>1, SparesKeeps DEF PostRequest, Ports
  <2> QED BY <1>3, <2>1, <2>2, <2>3, SparesKeeps DEF Arrive, Reissue, Post
<1>4. ASSUME NEW t \in Threads, BeginTerm(t) PROVE Shape' /\ Ports' /\ OwnIdentity'
  <2>1. Spares
    BY <1>4, BoundType DEF BeginTerm, StopWorkers, ClosePort, Spares, Shape
  <2>2. ASSUME NEW e, ClosePort(e) PROVE Ports'
    BY <2>1, <2>2, SparesKeeps, ClosePortKeeps
  <2> QED BY <1>4, <2>1, <2>2, SparesKeeps DEF BeginTerm, StopWorkers, Ports
<1>5. ASSUME NEW t \in Threads, PostTerm(t) PROVE Shape' /\ Ports' /\ OwnIdentity'
  <2>1. Spares
    BY <1>5 DEF PostTerm, PostShutdown, Spares, Shape
  <2>2. ASSUME NEW e, PostShutdown(e) PROVE Ports'
    <3> DEFINE packets == [i \in 1 .. max_workers |-> Shutdown]
    <3>1. packets \in Seq(Requests \cup {Shutdown})
      BY DEF Shape
    <3>2. \A q \in Seq(Requests \cup {Shutdown}) : q \o packets \in Seq(Requests \cup {Shutdown})
      BY <3>1
    <3> QED BY <2>1, <2>2, <3>2, SparesKeeps DEF PostShutdown, Ports
  <2> QED BY <1>5, <2>1, <2>2, SparesKeeps DEF PostTerm, Ports
<1>6. ASSUME NEW t \in Threads, EndTerm(t) PROVE Shape' /\ Ports' /\ OwnIdentity'
  <2>1. Spares
    BY <1>6 DEF EndTerm, ClosePort, Spares, Shape
  <2> QED BY <1>6, <2>1, SparesKeeps, ClosePortKeeps DEF EndTerm
<1>7. ASSUME NEW t \in Threads, LoadHandler(t) PROVE Shape' /\ Ports' /\ OwnIdentity'
  <2>1. Spares
    BY <1>7 DEF LoadHandler, Spares, Shape, Unbound
  <2> QED BY <1>7, <2>1, SparesKeeps DEF LoadHandler, Ports
<1>8. ASSUME NEW t \in Threads, Reinitialise(t) PROVE Shape' /\ Ports' /\ OwnIdentity'
  <2>1. CASE GetExtensionVersion(Bound("init"))
    BY <1>8, <2>1, BoundType, NewPool DEF Reinitialise
  <2>2. CASE UNCHANGED poolVars
    <3>1. Spares
      BY <1>8, <2>2, BoundType DEF Reinitialise, Spares, Shape
    <3> QED BY <2>2, <3>1, SparesKeeps DEF Ports
  <2> QED BY <1>8, <2>1, <2>2 DEF Reinitialise
<1>9. ASSUME NEW p \in Pools, NEW w \in Workers, WorkerStep(p, w)
      PROVE  Shape' /\ Ports' /\ OwnIdentity'
  <2>1. p \in Made
    BY DEF Pools, Made, Shape
  <2> QED BY <1>9, <2>1, WorkerMoves, MovesKeeps
<1> QED
  BY <1>1, <1>2, <1>3, <1>4, <1>5, <1>6, <1>7, <1>8, <1>9 DEF Next, Call

-----------------------------------------------------------------------------
(* threaded_extension.py: a worker acts as the user of the request that it *)
(* dispatches while it dispatches it, and as nobody else at any time.      *)
THEOREM ActsAsItsUser == Spec => []OwnIdentity
<1>1. Init => Shape /\ Ports /\ OwnIdentity
  BY ShapeInit
<1>2. Shape /\ Ports /\ OwnIdentity /\ [Next]_vars => Shape' /\ Ports' /\ OwnIdentity'
  BY HandlerKeeps
<1> QED BY <1>1, <1>2, PTL DEF Spec

-----------------------------------------------------------------------------
(* Where a request is: with the thread of IIS that came with it, then in   *)
(* one port, then in the hand of one worker.                               *)
Places == {"none", "term", "post", "poll", "load", "init", "again", "pending",
           "failed", "unloaded"}

Queued(r, p, i) == i \in 1 .. Len(port[p]) /\ port[p][i] = r

Whereabouts ==
  /\ done \in [Requests -> {0, 1}] /\ tpc \in [Threads -> Places]
  /\ \A r \in Requests : tpc[r] # "pending" => done[r] = 0
  /\ \A r \in Requests, p \in Made, i \in Nat : Queued(r, p, i) =>
       /\ done[r] = 0 /\ tpc[r] = "pending"
       /\ \A q \in Made, w \in Workers : req[q][w] # r
  /\ \A r \in Requests, p, q \in Made, i, j \in Nat :
       Queued(r, p, i) /\ Queued(r, q, j) => p = q /\ i = j

(* What a worker at each stage has in its hand.                            *)
InHand ==
  /\ \A p, q \in Made, v, w \in Workers :
       req[p][v] = req[q][w] /\ req[p][v] # Nobody => p = q /\ v = w
  /\ \A p \in Made, w \in Workers :
       /\ req[p][w] \in Requests => tpc[req[p][w]] = "pending"
       /\ pc[p][w] \in {"starting", "loop", "wait"} => req[p][w] = Nobody
       /\ pc[p][w] \in {"got"} \cup Dispatching => req[p][w] \in Requests
       /\ pc[p][w] \in {"got", "dispatch"} => done[req[p][w]] = 0

Once == Whereabouts /\ InHand

LEMMA OnceInit == ASSUME Init PROVE Once
<1> USE DEF Init, PoolInit, PerWorker, NewWorkers, Made
<1>1. Made = {1} /\ port[1] = <<>>
  OBVIOUS
<1>2. Whereabouts
  BY <1>1 DEF Whereabouts, Places, Queued
<1>3. InHand
  BY <1>1, PoolAssumption DEF InHand, PoolAssumption, Dispatching
<1> QED BY <1>2, <1>3 DEF Once

(* What the steps of IIS that post no request do to the packets.           *)
Quiet ==
  /\ done' = done /\ tpc' \in [Threads -> Places]
  /\ \A r \in Requests : tpc[r] = "pending" <=> tpc'[r] = "pending"
  /\ \A r \in Requests, p \in Made', i \in Nat :
       Queued(r, p, i)' => p \in Made /\ Queued(r, p, i)

LEMMA QuietKeeps ==
  ASSUME Shape, Once, Quiet,
         \A p \in Made', w \in Workers :
           \/ p \in Made /\ pc'[p][w] = pc[p][w] /\ req'[p][w] = req[p][w]
           \/ p \notin Made /\ pc'[p][w] \in {"starting", "exited"} /\ req'[p][w] = Nobody
  PROVE  Once'
<1>1. \A p \in Made', w \in Workers : req'[p][w] # Nobody =>
         p \in Made /\ pc'[p][w] = pc[p][w] /\ req'[p][w] = req[p][w]
  OBVIOUS
<1>2. Whereabouts'
  <2>1. done' \in [Requests -> {0, 1}] /\ tpc' \in [Threads -> Places]
    BY DEF Once, Whereabouts, Quiet
  <2>2. \A r \in Requests : tpc'[r] # "pending" => done'[r] = 0
    BY DEF Once, Whereabouts, Quiet
  <2>3. ASSUME NEW r \in Requests, NEW p \in Made', NEW i \in Nat, Queued(r, p, i)'
        PROVE  /\ done'[r] = 0 /\ tpc'[r] = "pending"
               /\ \A q \in Made', w \in Workers : req'[q][w] # r
    <3>1. /\ done[r] = 0 /\ tpc[r] = "pending" /\ r # Nobody
          /\ \A q \in Made, w \in Workers : req[q][w] # r
      BY <2>3, PoolAssumption DEF Once, Whereabouts, Quiet, PoolAssumption
    <3> QED BY <1>1, <3>1 DEF Quiet
  <2>4. ASSUME NEW r \in Requests, NEW p \in Made', NEW q \in Made', NEW i \in Nat,
               NEW j \in Nat, Queued(r, p, i)', Queued(r, q, j)'
        PROVE  p = q /\ i = j
    BY <2>4 DEF Once, Whereabouts, Quiet
  <2> QED BY <2>1, <2>2, <2>3, <2>4 DEF Whereabouts
<1>3. InHand'
  <2>1. ASSUME NEW p \in Made', NEW w \in Workers
        PROVE  /\ req'[p][w] \in Requests => tpc'[req'[p][w]] = "pending"
               /\ pc'[p][w] \in {"starting", "loop", "wait"} => req'[p][w] = Nobody
               /\ pc'[p][w] \in {"got"} \cup Dispatching => req'[p][w] \in Requests
               /\ pc'[p][w] \in {"got", "dispatch"} => done'[req'[p][w]] = 0
    <3>1. CASE p \in Made /\ pc'[p][w] = pc[p][w] /\ req'[p][w] = req[p][w]
      BY <3>1 DEF Once, InHand, Quiet
    <3>2. CASE pc'[p][w] \in {"starting", "exited"} /\ req'[p][w] = Nobody
      BY <3>2, PoolAssumption DEF PoolAssumption, Dispatching
    <3> QED BY <3>1, <3>2
  <2>2. ASSUME NEW p \in Made', NEW q \in Made', NEW v \in Workers, NEW w \in Workers,
               req'[p][v] = req'[q][w], req'[p][v] # Nobody
        PROVE  p = q /\ v = w
    BY <1>1, <2>2 DEF Once, InHand
  <2> QED BY <2>1, <2>2 DEF InHand
<1> QED BY <1>2, <1>3 DEF Once

(* A request is posted by its own thread, while it is nowhere else.        *)
LEMMA PostKeeps ==
  ASSUME Shape, Ports, Once, NEW r \in Requests, NEW P,
         tpc[r] # "pending", tpc' = [tpc EXCEPT ![r] = "pending"],
         port' = [port EXCEPT ![P] = Append(@, r)], UNCHANGED <<owner, pc, req, done>>
  PROVE  Once'
<1>1. Made' = Made /\ r \in Threads
  BY DEF Made, Threads
<1>2. /\ tpc' \in [Threads -> Places] /\ tpc'[r] = "pending"
      /\ \A x \in Requests : tpc[x] = "pending" => tpc'[x] = "pending"
      /\ \A x \in Requests : tpc'[x] = "pending" => x = r \/ tpc[x] = "pending"
  BY <1>1 DEF Once, Whereabouts, Places, Threads
<1>3. ASSUME NEW x \in Requests, NEW p \in Made, NEW i \in Nat, Queued(x, p, i)'
      PROVE  Queued(x, p, i) \/ (x = r /\ p = P /\ i = Len(port[P]) + 1)
  <2>1. /\ port[p] \in Seq(Requests \cup {Shutdown})
        /\ port \in [Made -> Seq(Requests \cup {Shutdown})]
    BY DEF Ports
  <2>2. CASE p # P
    BY <1>3, <2>1, <2>2 DEF Queued
  <2>3. CASE p = P
    <3>1. port'[P] = Append(port[P], r)
      BY <2>1, <2>3
    <3>2. /\ Len(port'[P]) = Len(port[P]) + 1 /\ Len(port[P]) \in Nat
          /\ \A k \in 1 .. Len(port[P]) : port'[P][k] = port[P][k]
          /\ port'[P][Len(port[P]) + 1] = r
      BY <2>1, <2>3, <3>1, AppendProperties
    <3> QED BY <1>3, <2>3, <3>2 DEF Queued
  <2> QED BY <2>2, <2>3
<1>4. /\ done[r] = 0 /\ \A p \in Made, i \in Nat : ~ Queued(r, p, i)
      /\ \A q \in Made, w \in Workers : req[q][w] # r
  BY DEF Once, Whereabouts, InHand
<1>5. Whereabouts'
  BY <1>1, <1>2, <1>3, <1>4 DEF Once, Whereabouts
<1>6. InHand'
  BY <1>1, <1>2 DEF Once, InHand
<1> QED BY <1>5, <1>6 DEF Once

(* A worker takes the first packet of its port.                            *)
LEMMA TakeKeeps ==
  ASSUME Shape, Ports, Once, NEW P \in Made, NEW W \in Workers, pc[P][W] = "wait",
         pc'[P][W] = IF Head(port[P]) = Shutdown THEN "exited" ELSE "got",
         \A q \in Made, v \in Workers : (q # P \/ v # W) => pc'[q][v] = pc[q][v],
         port[P] # <<>>, port' = [port EXCEPT ![P] = Tail(@)],
         req' = IF Head(port[P]) = Shutdown THEN req ELSE [req EXCEPT ![P][W] = Head(port[P])],
         UNCHANGED <<owner, tpc, done>>
  PROVE  Once'
<1>1. Made' = Made
  BY DEF Made
<1>2. /\ port[P] \in Seq(Requests \cup {Shutdown})
      /\ port \in [Made -> Seq(Requests \cup {Shutdown})]
      /\ req \in [Made -> [Workers -> Requested]]
  BY DEF Ports, Shape
<1>3. /\ Len(Tail(port[P])) = Len(port[P]) - 1 /\ Len(port[P]) \in Nat \ {0}
      /\ \A k \in 1 .. Len(Tail(port[P])) : Tail(port[P])[k] = port[P][k + 1]
      /\ Head(port[P]) = port[P][1] /\ Head(port[P]) \in Requests \cup {Shutdown}
  BY <1>2, HeadTailProperties
<1>4. port'[P] = Tail(port[P]) /\ \A p \in Made \ {P} : port'[p] = port[p]
  BY <1>2
<1>5. ASSUME NEW x \in Requests, NEW p \in Made, NEW i \in Nat, Queued(x, p, i)'
      PROVE  /\ p = P => Queued(x, P, i + 1) /\ i >= 1
             /\ p # P => Queued(x, p, i)
  <2>1. CASE p = P
    <3>1. i \in 1 .. Len(Tail(port[P])) /\ Tail(port[P])[i] = x
      BY <1>4, <1>5, <2>1 DEF Queued
    <3>2. i + 1 \in 1 .. Len(port[P]) /\ i >= 1 /\ port[P][i + 1] = x
      BY <1>3, <3>1
    <3> QED BY <2>1, <3>2 DEF Queued
  <2>2. CASE p # P
    BY <1>4, <1>5, <2>2 DEF Queued
  <2> QED BY <2>1, <2>2
<1>6. CASE Head(port[P]) = Shutdown
  <2>1. req' = req /\ pc'[P][W] = "exited"
    BY <1>6
  <2>2. Whereabouts'
    <3>1. ASSUME NEW r \in Requests, NEW p \in Made, NEW i \in Nat, Queued(r, p, i)'
          PROVE  /\ done[r] = 0 /\ tpc[r] = "pending"
                 /\ \A q \in Made, w \in Workers : req[q][w] # r
      BY <1>5, <3>1 DEF Once, Whereabouts
    <3>2. ASSUME NEW r \in Requests, NEW p \in Made, NEW q \in Made, NEW i \in Nat,
                 NEW j \in Nat, Queued(r, p, i)', Queued(r, q, j)'
          PROVE  p = q /\ i = j
      <4>1. \E k, l \in Nat : /\ Queued(r, p, k) /\ k = (IF p = P THEN i + 1 ELSE i)
                              /\ Queued(r, q, l) /\ l = (IF q = P THEN j + 1 ELSE j)
        BY <1>5, <3>2
      <4> QED BY <4>1 DEF Once, Whereabouts
    <3> QED BY <1>1, <2>1, <3>1, <3>2 DEF Once, Whereabouts
  <2>3. InHand'
    BY <1>1, <2>1 DEF Once, InHand, Dispatching
  <2> QED BY <2>2, <2>3 DEF Once
<1>7. CASE Head(port[P]) # Shutdown
  <2>1. PICK r \in Requests : r = Head(port[P])
    BY <1>3, <1>7
  <2>2. Queued(r, P, 1)
    BY <1>3, <2>1 DEF Queued
  <2>3. /\ done[r] = 0 /\ tpc[r] = "pending" /\ r # Nobody
        /\ \A q \in Made, w \in Workers : req[q][w] # r
        /\ \A p \in Made, i \in Nat : Queued(r, p, i) => p = P /\ i = 1
    BY <2>2, PoolAssumption DEF Once, Whereabouts, PoolAssumption
  <2>4. /\ req'[P][W] = r /\ pc'[P][W] = "got"
        /\ \A q \in Made, v \in Workers : (q # P \/ v # W) => req'[q][v] = req[q][v]
    BY <1>2, <1>7, <2>1
  <2>5. \A p \in Made, i \in Nat : ~ Queued(r, p, i)'
    <3>1. ASSUME NEW p \in Made, NEW i \in Nat, Queued(r, p, i)' PROVE FALSE
      <4>1. CASE p = P
        <5>1. Queued(r, P, i + 1) /\ i >= 1 /\ i + 1 \in Nat
          BY <1>5, <3>1, <4>1
        <5>2. i + 1 = 1
          BY <2>3, <5>1
        <5> QED BY <5>1, <5>2
      <4>2. CASE p # P
        BY <1>5, <2>3, <3>1, <4>2
      <4> QED BY <4>1, <4>2
    <3> QED BY <3>1
  <2>6. Whereabouts'
    <3>1. ASSUME NEW x \in Requests, NEW p \in Made, NEW i \in Nat, Queued(x, p, i)'
          PROVE  /\ done[x] = 0 /\ tpc[x] = "pending"
                 /\ \A q \in Made, w \in Workers : req'[q][w] # x
      <4>1. x # r
        BY <2>5, <3>1
      <4>2. /\ done[x] = 0 /\ tpc[x] = "pending"
            /\ \A q \in Made, w \in Workers : req[q][w] # x
        BY <1>5, <3>1 DEF Once, Whereabouts
      <4> QED BY <2>4, <4>1, <4>2
    <3>2. ASSUME NEW x \in Requests, NEW p \in Made, NEW q \in Made, NEW i \in Nat,
                 NEW j \in Nat, Queued(x, p, i)', Queued(x, q, j)'
          PROVE  p = q /\ i = j
      <4>1. \E k, l \in Nat : /\ Queued(x, p, k) /\ k = (IF p = P THEN i + 1 ELSE i)
                              /\ Queued(x, q, l) /\ l = (IF q = P THEN j + 1 ELSE j)
        BY <1>5, <3>2
      <4> QED BY <4>1 DEF Once, Whereabouts
    <3> QED BY <1>1, <3>1, <3>2 DEF Once, Whereabouts
  <2>7. InHand'
    <3>1. ASSUME NEW p \in Made, NEW q \in Made, NEW v \in Workers, NEW w \in Workers,
                 req'[p][v] = req'[q][w], req'[p][v] # Nobody
          PROVE  p = q /\ v = w
      BY <2>3, <2>4, <3>1 DEF Once, InHand
    <3>2. ASSUME NEW p \in Made, NEW w \in Workers
          PROVE  /\ req'[p][w] \in Requests => tpc[req'[p][w]] = "pending"
                 /\ pc'[p][w] \in {"starting", "loop", "wait"} => req'[p][w] = Nobody
                 /\ pc'[p][w] \in {"got"} \cup Dispatching => req'[p][w] \in Requests
                 /\ pc'[p][w] \in {"got", "dispatch"} => done[req'[p][w]] = 0
      <4>1. CASE p = P /\ w = W
        BY <2>3, <2>4, <4>1
      <4>2. CASE p # P \/ w # W
        BY <2>4, <4>2 DEF Once, InHand
      <4> QED BY <4>1, <4>2
    <3> QED BY <1>1, <3>1, <3>2 DEF InHand
  <2> QED BY <2>6, <2>7 DEF Once
<1> QED BY <1>6, <1>7

(* A worker goes on with what it has in its hand, or lets it go.           *)
Proceeds(P, W) ==
  /\ Moves(P, W) /\ UNCHANGED <<port, tpc>>
  /\ req'[P][W] \in {req[P][W], Nobody}
  /\ done' \in [Requests -> {0, 1}]
  /\ \A r \in Requests : done'[r] # done[r] => r = req[P][W]
  /\ pc'[P][W] \in {"starting", "loop", "wait"} => req'[P][W] = Nobody
  /\ pc'[P][W] \in {"got"} \cup Dispatching => req'[P][W] \in Requests
  /\ pc'[P][W] \in {"got", "dispatch"} => done'[req'[P][W]] = 0

LEMMA ProceedsKeeps ==
  ASSUME Shape, Once, NEW P \in Made, NEW W \in Workers, Proceeds(P, W)
  PROVE  Once'
<1>1. Made' = Made
  BY DEF Made, Proceeds, Moves
<1>2. \A q \in Made, v \in Workers : req'[q][v] # Nobody => req'[q][v] = req[q][v]
  BY DEF Proceeds, Moves
<1>3. Whereabouts'
  <2>1. \A r \in Requests : tpc'[r] # "pending" => done'[r] = 0
    BY DEF Once, Whereabouts, InHand, Proceeds
  <2>2. ASSUME NEW r \in Requests, NEW p \in Made, NEW i \in Nat, Queued(r, p, i)'
        PROVE  /\ done'[r] = 0 /\ tpc'[r] = "pending"
               /\ \A q \in Made, w \in Workers : req'[q][w] # r
    <3>1. Queued(r, p, i)
      BY <2>2 DEF Queued, Proceeds
    <3>2. /\ done[r] = 0 /\ tpc[r] = "pending" /\ r # Nobody
          /\ \A q \in Made, w \in Workers : req[q][w] # r
      BY <3>1, PoolAssumption DEF Once, Whereabouts, PoolAssumption
    <3> QED BY <1>2, <3>2 DEF Proceeds
  <2>3. ASSUME NEW r \in Requests, NEW p \in Made, NEW q \in Made, NEW i \in Nat,
               NEW j \in Nat, Queued(r, p, i)', Queued(r, q, j)'
        PROVE  p = q /\ i = j
    <3>1. Queued(r, p, i) /\ Queued(r, q, j)
      BY <2>3 DEF Queued, Proceeds
    <3> QED BY <3>1 DEF Once, Whereabouts
  <2>4. done' \in [Requests -> {0, 1}] /\ tpc' \in [Threads -> Places]
    BY DEF Once, Whereabouts, Proceeds
  <2> QED BY <1>1, <2>1, <2>2, <2>3, <2>4 DEF Whereabouts
<1>4. InHand'
  <2>1. ASSUME NEW p \in Made, NEW q \in Made, NEW v \in Workers, NEW w \in Workers,
               req'[p][v] = req'[q][w], req'[p][v] # Nobody
        PROVE  p = q /\ v = w
    BY <1>2, <2>1 DEF Once, InHand
  <2>2. ASSUME NEW p \in Made, NEW w \in Workers
        PROVE  /\ req'[p][w] \in Requests => tpc'[req'[p][w]] = "pending"
               /\ pc'[p][w] \in {"starting", "loop", "wait"} => req'[p][w] = Nobody
               /\ pc'[p][w] \in {"got"} \cup Dispatching => req'[p][w] \in Requests
               /\ pc'[p][w] \in {"got", "dispatch"} => done'[req'[p][w]] = 0
    <3>1. req'[p][w] \in Requests => tpc'[req'[p][w]] = "pending"
      BY <1>2, PoolAssumption DEF Once, InHand, Proceeds, PoolAssumption
    <3>2. CASE p = P /\ w = W
      BY <3>1, <3>2 DEF Proceeds
    <3>3. CASE p # P \/ w # W
      <4>1. pc'[p][w] = pc[p][w] /\ req'[p][w] = req[p][w]
        BY <3>3 DEF Proceeds, Moves
      <4>2. pc[p][w] \in {"got", "dispatch"} =>
              /\ done[req[p][w]] = 0 /\ req[p][w] \in Requests /\ req[p][w] # Nobody
        BY PoolAssumption DEF Once, InHand, Dispatching, PoolAssumption
      <4>3. pc[p][w] \in {"got", "dispatch"} => req[p][w] # req[P][W]
        BY <3>3, <4>2 DEF Once, InHand
      <4>4. pc[p][w] \in {"got", "dispatch"} => done'[req[p][w]] = 0
        BY <4>2, <4>3 DEF Proceeds
      <4> QED BY <3>1, <4>1, <4>4 DEF Once, InHand
    <3> QED BY <3>2, <3>3
  <2> QED BY <1>1, <2>1, <2>2 DEF InHand
<1> QED BY <1>3, <1>4 DEF Once

LEMMA WorkerKeepsOnce ==
  ASSUME Shape, Ports, OwnIdentity, Once, NEW p \in Made, NEW w \in Workers, WorkerStep(p, w)
  PROVE  Once'
<1> USE DEF Dispatching
<1>1. Moves(p, w) /\ tpc' = tpc
  BY WorkerMoves DEF WorkerStep, handlerVars
<1>2. /\ pc[p][w] \in {"starting", "loop", "wait"} => req[p][w] = Nobody
      /\ pc[p][w] \in {"got"} \cup Dispatching => req[p][w] \in Requests
      /\ pc[p][w] \in {"got", "dispatch"} => done[req[p][w]] = 0
      /\ done \in [Requests -> {0, 1}]
  BY DEF Once, InHand, Whereabouts
<1>3. CASE Run(p, w) \/ TestRunning(p, w)
  <2>1. PICK from \in {"starting", "loop"}, to \in {"loop", "wait", "exited"} :
               Goto(p, w, from, to)
    BY <1>3 DEF Run, TestRunning, Loop
  <2>2. pc[p][w] \in {"starting", "loop"} /\ pc'[p][w] \in {"loop", "wait", "exited"}
    BY <2>1, GotoType DEF Stages
  <2>3. UNCHANGED <<port, req, done>>
    BY <1>3 DEF Run, TestRunning
  <2> QED BY <1>1, <1>2, <2>2, <2>3, ProceedsKeeps DEF Proceeds
<1>4. CASE GetPacket(p, w)
  <2>1. CASE stage[p] = "closed" /\ Goto(p, w, "wait", "exited") /\ UNCHANGED <<port, req>>
    <3>1. pc'[p][w] = "exited" /\ UNCHANGED <<port, req, done>>
      BY <1>4, <2>1, GotoType DEF Stages, GetPacket
    <3> QED BY <1>1, <1>2, <3>1, ProceedsKeeps DEF Proceeds
  <2>2. CASE /\ port[p] # <<>> /\ port' = [port EXCEPT ![p] = Tail(@)]
             /\ Head(port[p]) = Shutdown /\ Goto(p, w, "wait", "exited") /\ UNCHANGED req
    <3>1. /\ pc[p][w] = "wait" /\ pc'[p][w] = "exited" /\ UNCHANGED <<owner, tpc, done>>
          /\ \A q \in Made, v \in Workers : (q # p \/ v # w) => pc'[q][v] = pc[q][v]
      BY <1>1, <1>4, <2>2, GotoType DEF Stages, GetPacket
    <3> QED BY <2>2, <3>1, TakeKeeps
  <2>3. CASE /\ port[p] # <<>> /\ port' = [port EXCEPT ![p] = Tail(@)]
             /\ Head(port[p]) # Shutdown /\ Goto(p, w, "wait", "got")
             /\ req' = [req EXCEPT ![p][w] = Head(port[p])]
    <3>1. /\ pc[p][w] = "wait" /\ pc'[p][w] = "got" /\ UNCHANGED <<owner, tpc, done>>
          /\ \A q \in Made, v \in Workers : (q # p \/ v # w) => pc'[q][v] = pc[q][v]
      BY <1>1, <1>4, <2>3, GotoType DEF Stages, GetPacket
    <3> QED BY <2>3, <3>1, TakeKeeps
  <2> QED BY <1>4, <2>1, <2>2, <2>3 DEF GetPacket
<1>5. CASE BeginDispatch(p, w)
  <2>1. PICK to \in {"dispatch", "exited"} : Goto(p, w, "got", to)
    BY <1>5 DEF BeginDispatch
  <2>2. pc[p][w] = "got" /\ pc'[p][w] \in {"dispatch", "exited"}
    BY <2>1, GotoType DEF Stages
  <2>3. UNCHANGED <<port, req, done>>
    BY <1>5 DEF BeginDispatch
  <2> QED BY <1>1, <1>2, <2>2, <2>3, ProceedsKeeps DEF Proceeds
<1>6. CASE Dispatch(p, w)
  <2>1. PICK to \in {"reset", "error"} : Goto(p, w, "dispatch", to)
    BY <1>6 DEF Dispatch
  <2>2. pc[p][w] = "dispatch" /\ pc'[p][w] \in {"reset", "error"}
    BY <2>1, GotoType DEF Stages
  <2>3. PICK r \in Requests : r = req[p][w] /\ done[r] = 0
    BY <1>2, <2>2
  <2>4. UNCHANGED <<port, req>> /\ (done' = done \/ done' = [done EXCEPT ![r] = @ + 1])
    BY <1>6, <2>3 DEF Dispatch
  <2>5. done' \in [Requests -> {0, 1}] /\ \A x \in Requests : done'[x] # done[x] => x = r
    BY <1>2, <2>3, <2>4
  <2> QED BY <1>1, <1>2, <2>2, <2>3, <2>4, <2>5, ProceedsKeeps DEF Proceeds
<1>7. CASE HandleDispatchError(p, w)
  <2>1. PICK to \in {"reset", "resetAndRaise"} : Goto(p, w, "error", to)
    BY <1>7 DEF HandleDispatchError
  <2>2. pc[p][w] = "error" /\ pc'[p][w] \in {"reset", "resetAndRaise"}
    BY <2>1, GotoType DEF Stages
  <2>3. PICK r \in Requests : r = req[p][w]
    BY <1>2, <2>2
  <2>4. UNCHANGED <<port, req>> /\ (done' = done \/ done' = [done EXCEPT ![r] = 1])
    BY <1>7, <2>3 DEF HandleDispatchError
  <2>5. done' \in [Requests -> {0, 1}] /\ \A x \in Requests : done'[x] # done[x] => x = r
    BY <1>2, <2>3, <2>4
  <2> QED BY <1>1, <1>2, <2>2, <2>3, <2>4, <2>5, ProceedsKeeps DEF Proceeds
<1>8. CASE ResetToken(p, w)
  <2>1. UNCHANGED <<port, done>>
    BY <1>8 DEF ResetToken
  <2>2. CASE Loop(p, w, "reset") /\ req' = [req EXCEPT ![p][w] = Nobody]
    <3>1. PICK to \in {"wait", "exited"} : Goto(p, w, "reset", to)
      BY <2>2 DEF Loop
    <3>2. pc'[p][w] \in {"wait", "exited"}
      BY <3>1, GotoType DEF Stages
    <3>3. req'[p][w] = Nobody
      BY <2>2 DEF Shape
    <3> QED BY <1>1, <1>2, <2>1, <3>2, <3>3, ProceedsKeeps DEF Proceeds
  <2>3. CASE Goto(p, w, "resetAndRaise", "exited") /\ UNCHANGED req
    <3>1. pc'[p][w] = "exited"
      BY <2>3, GotoType DEF Stages
    <3> QED BY <1>1, <1>2, <2>1, <2>3, <3>1, ProceedsKeeps DEF Proceeds
  <2> QED BY <1>8, <2>2, <2>3 DEF ResetToken
<1> QED BY <1>3, <1>4, <1>5, <1>6, <1>7, <1>8 DEF WorkerStep, Worker

-----------------------------------------------------------------------------
(* A thread of IIS that is not waiting for an answer goes from one place   *)
(* to another.                                                             *)
LEMMA Elsewhere ==
  ASSUME Once, NEW t \in Threads, tpc[t] # "pending",
         NEW to \in Places \ {"pending"}, To(t, to)
  PROVE  /\ tpc' \in [Threads -> Places]
         /\ \A r \in Requests : tpc[r] = "pending" <=> tpc'[r] = "pending"
BY DEF Once, Whereabouts, To, Threads

(* A port that is closed, or gets orders to stop, holds no new request.    *)
LEMMA NothingPosted ==
  ASSUME Ports, Made' = Made, NEW P, NEW more \in Seq({Shutdown}),
         \/ port' = port
         \/ port' = [port EXCEPT ![P] = <<>>]
         \/ port' = [port EXCEPT ![P] = @ \o more]
  PROVE  \A r \in Requests, p \in Made', i \in Nat :
           Queued(r, p, i)' => p \in Made /\ Queued(r, p, i)
<1> SUFFICES ASSUME NEW r \in Requests, NEW p \in Made, NEW i \in Nat, Queued(r, p, i)'
             PROVE  Queued(r, p, i)
  OBVIOUS
<1>1. /\ port[p] \in Seq(Requests \cup {Shutdown})
      /\ port \in [Made -> Seq(Requests \cup {Shutdown})]
  BY DEF Ports
<1>2. CASE port'[p] = port[p]
  BY <1>2 DEF Queued
<1>3. CASE port'[p] = <<>>
  BY <1>3 DEF Queued
<1>4. CASE port'[p] = port[p] \o more
  <2>1. i \in 1 .. Len(port[p] \o more) /\ (port[p] \o more)[i] = r /\ r # Shutdown
    BY <1>4, PoolAssumption DEF Queued, PoolAssumption
  <2>2. CASE i \in 1 .. Len(port[p])
    BY <1>1, <2>1, <2>2 DEF Queued
  <2>3. CASE i \notin 1 .. Len(port[p])
    <3>1. i - Len(port[p]) \in 1 .. Len(more) /\ (port[p] \o more)[i] = more[i - Len(port[p])]
      BY <1>1, <2>1, <2>3
    <3> QED BY <2>1, <3>1
  <2> QED BY <2>2, <2>3
<1> QED BY <1>1, <1>2, <1>3, <1>4

(* A step of IIS that leaves the workers alone and posts no request.       *)
LEMMA SparesOnce ==
  ASSUME Shape, Ports, Once, Spares, UNCHANGED done, Quiet
  PROVE  Once'
<1>1. Made' = Made
  BY DEF Spares, Made
<1> QED BY <1>1, QuietKeeps DEF Spares

(* A new pool has an empty port, and workers with nothing in their hands.  *)
LEMMA NewPoolOnce ==
  ASSUME Shape, Ports, Once, NEW e \in Nat, GetExtensionVersion(e), tpc' \in [Threads -> Places],
         \A r \in Requests : tpc[r] = "pending" <=> tpc'[r] = "pending"
  PROVE  Once'
<1>1. PICK n \in Nat : n = Len(owner) /\ Made = 1 .. n
  BY DEF Shape, Made
<1>2. owner' \in Seq(Nat) /\ Len(owner') = n + 1 /\ Made' = 1 .. n + 1
  BY <1>1, AppendProperties DEF GetExtensionVersion, Shape, Made
<1>3. /\ NewWorkers \in [Workers -> {"starting", "exited"}]
      /\ NewWorkers \in [Workers -> Stages]
      /\ PerWorker(Nobody) \in [Workers -> Requested]
      /\ <<>> \in Seq(Requests \cup {Shutdown})
  BY DEF NewWorkers, PerWorker, Stages, Requested
<1>4. /\ pc' = Append(pc, NewWorkers) /\ pc \in [1 .. n -> [Workers -> Stages]]
      /\ req' = Append(req, PerWorker(Nobody)) /\ req \in [1 .. n -> [Workers -> Requested]]
  BY <1>1 DEF GetExtensionVersion, Shape
<1>5. /\ Grown(pc, pc', Stages, n, NewWorkers)
      /\ Grown(req, req', Requested, n, PerWorker(Nobody))
  BY <1>3, <1>4, TableGrows, Zenon
<1>6. /\ \A p \in 1 .. n : port'[p] = port[p]
      /\ port'[n + 1] = <<>>
  BY <1>1, <1>3, AppendFunction DEF GetExtensionVersion, Ports
<1>7. ASSUME NEW r \in Requests, NEW p \in Made', NEW i \in Nat, Queued(r, p, i)'
      PROVE  p \in Made /\ Queued(r, p, i)
  <2>1. CASE p \in 1 .. n
    BY <1>1, <1>6, <1>7, <2>1 DEF Queued
  <2>2. CASE p = n + 1
    BY <1>6, <1>7, <2>2 DEF Queued
  <2> QED BY <1>1, <1>2, <2>1, <2>2
<1>8. Quiet
  BY <1>7 DEF Quiet, GetExtensionVersion
<1>9. ASSUME NEW p \in Made', NEW w \in Workers
      PROVE  \/ p \in Made /\ pc'[p][w] = pc[p][w] /\ req'[p][w] = req[p][w]
             \/ p \notin Made /\ pc'[p][w] \in {"starting", "exited"} /\ req'[p][w] = Nobody
  <2>1. CASE p \in 1 .. n
    BY <1>1, <1>5, <2>1 DEF Grown
  <2>2. CASE p = n + 1
    BY <1>1, <1>3, <1>5, <2>2 DEF Grown, PerWorker
  <2> QED BY <1>2, <2>1, <2>2
<1> QED BY <1>8, <1>9, QuietKeeps

(* Every step: the calls of IIS one by one, then the workers'.              *)
LEMMA OnceStep ==
  ASSUME Shape, Ports, OwnIdentity, Once, [Next]_vars
  PROVE  Once'
<1> USE DEF poolVars, handlerVars
<1> DEFINE Still == \A r \in Requests, p \in Made', i \in Nat :
                      Queued(r, p, i)' => p \in Made /\ Queued(r, p, i)
<1> HIDE DEF Still
<1>0. ASSUME Spares, UNCHANGED done, Still, tpc' \in [Threads -> Places],
             \A r \in Requests : tpc[r] = "pending" <=> tpc'[r] = "pending"
      PROVE  Once'
  BY <1>0, SparesOnce DEF Quiet, Still
<1>1. ASSUME UNCHANGED owner, NEW P, NEW more \in Seq({Shutdown}),
             \/ port' = port
             \/ port' = [port EXCEPT ![P] = <<>>]
             \/ port' = [port EXCEPT ![P] = @ \o more]
      PROVE  Still
  BY <1>1, NothingPosted DEF Made, Still
<1>2. ASSUME UNCHANGED owner, NEW P, port' = port \/ port' = [port EXCEPT ![P] = <<>>]
      PROVE  Still
  <2>1. <<>> \in Seq({Shutdown})
    OBVIOUS
  <2> QED BY <1>1, <1>2, <2>1
<1>3. ASSUME UNCHANGED <<owner, port>> PROVE Still
  BY <1>2, <1>3
<1>4. Iis \in Threads /\ Iis \notin Requests /\ Requests \subseteq Threads
  BY HandlerAssumption DEF Threads, HandlerAssumption
<1>5. tpc \in [Threads -> Places]
  BY DEF Once, Whereabouts
<1>6. CASE UNCHANGED vars
  BY <1>0, <1>3, <1>5, <1>6 DEF vars, Spares, Shape
<1>8. CASE Unload
  <2>1. tpc[Iis] # "pending" /\ To(Iis, "term") /\ "term" \in Places \ {"pending"}
    BY <1>8 DEF Unload, At, Places
  <2> QED BY <1>0, <1>3, <1>4, <1>8, <2>1, Elsewhere DEF Unload, Spares, Shape
<1>9. ASSUME NEW r \in Requests, Arrive(r) \/ Reissue(r) PROVE Once'
  <2>1. Spares
    BY <1>9, BoundType DEF Arrive, Reissue, Post, PostRequest, Spares, Shape
  <2>2. tpc[r] # "pending" /\ r \in Threads
    BY <1>4, <1>9 DEF Arrive, Reissue, At
  <2>3. ASSUME NEW to \in {"term", "failed"}, To(r, to), UNCHANGED poolVars PROVE Once'
    <3>1. to \in Places \ {"pending"}
      BY DEF Places
    <3> QED BY <1>0, <1>3, <2>1, <2>2, <2>3, <3>1, Elsewhere
  <2>4. ASSUME NEW e, PostRequest(e, r), To(r, "pending") PROVE Once'
    <3>1. PICK P : P = PoolOf(e)
      OBVIOUS
    <3>2. /\ port' = [port EXCEPT ![P] = Append(@, r)]
          /\ tpc' = [tpc EXCEPT ![r] = "pending"] /\ UNCHANGED <<owner, pc, req, done>>
      BY <2>4, <3>1 DEF PostRequest, To
    <3> QED BY <2>2, <3>2, PostKeeps
  <2> QED BY <1>9, <2>3, <2>4 DEF Arrive, Reissue, Post
<1>10. ASSUME NEW t \in Threads, BeginTerm(t) PROVE Once'
  <2>1. Spares /\ UNCHANGED done
    BY <1>10, BoundType DEF BeginTerm, StopWorkers, ClosePort, Spares, Shape
  <2>2. Still
    <3>1. PICK P : P = PoolOf(Bound("term"))
      OBVIOUS
    <3>2. port' = port \/ port' = [port EXCEPT ![P] = <<>>]
      BY <1>10, <3>1 DEF BeginTerm, StopWorkers, ClosePort
    <3> QED BY <1>2, <2>1, <3>2 DEF Spares
  <2>3. PICK to \in {"post", "unloaded", "load"} : To(t, to)
    BY <1>10 DEF BeginTerm, AfterTerm
  <2>4. tpc[t] # "pending" /\ to \in Places \ {"pending"}
    BY <1>10 DEF BeginTerm, At, Places
  <2> QED BY <1>0, <2>1, <2>2, <2>3, <2>4, Elsewhere
<1>11. ASSUME NEW t \in Threads, PostTerm(t) PROVE Once'
  <2>1. Spares /\ UNCHANGED done
    BY <1>11 DEF PostTerm, PostShutdown, Spares, Shape
  <2>2. Still
    <3>1. PICK P : P = PoolOf(object[t])
      OBVIOUS
    <3>2. PICK more : more = [i \in 1 .. max_workers |-> Shutdown]
      OBVIOUS
    <3>3. more \in Seq({Shutdown})
      BY <3>2 DEF Shape
    <3>4. port' = port \/ port' = [port EXCEPT ![P] = @ \o more]
      BY <1>11, <3>1, <3>2 DEF PostTerm, PostShutdown
    <3> QED BY <1>1, <2>1, <3>3, <3>4 DEF Spares
  <2>3. PICK to \in {"poll", "unloaded", "load"} : To(t, to)
    BY <1>11 DEF PostTerm, AfterTerm
  <2>4. tpc[t] # "pending" /\ to \in Places \ {"pending"}
    BY <1>11 DEF PostTerm, At, Places
  <2> QED BY <1>0, <2>1, <2>2, <2>3, <2>4, Elsewhere
<1>12. ASSUME NEW t \in Threads, EndTerm(t) PROVE Once'
  <2>1. Spares /\ UNCHANGED done
    BY <1>12 DEF EndTerm, ClosePort, Spares, Shape
  <2>2. Still
    <3>1. PICK P : P = PoolOf(object[t])
      OBVIOUS
    <3>2. port' = port \/ port' = [port EXCEPT ![P] = <<>>]
      BY <1>12, <3>1 DEF EndTerm, ClosePort
    <3> QED BY <1>2, <2>1, <3>2 DEF Spares
  <2>3. PICK to \in {"unloaded", "load"} : To(t, to)
    BY <1>12 DEF EndTerm, AfterTerm
  <2>4. tpc[t] # "pending" /\ to \in Places \ {"pending"}
    BY <1>12 DEF EndTerm, At, Places
  <2> QED BY <1>0, <2>1, <2>2, <2>3, <2>4, Elsewhere
<1>13. ASSUME NEW t \in Requests, LoadHandler(t) PROVE Once'
  <2>1. Spares /\ UNCHANGED <<done, owner, port>>
    BY <1>13 DEF LoadHandler, Spares, Shape, Unbound
  <2>2. PICK to \in {"init", "failed"} : To(t, to)
    BY <1>13 DEF LoadHandler
  <2>3. tpc[t] # "pending" /\ to \in Places \ {"pending"}
    BY <1>13 DEF LoadHandler, At, Places
  <2> QED BY <1>0, <1>3, <1>4, <2>1, <2>2, <2>3, Elsewhere
<1>14. ASSUME NEW t \in Requests, Reinitialise(t) PROVE Once'
  <2>1. /\ tpc[t] # "pending" /\ To(t, "again")
        /\ "again" \in Places \ {"pending"} /\ t \in Threads
    BY <1>4, <1>14 DEF Reinitialise, At, Places
  <2>2. CASE UNCHANGED poolVars
    <3>1. Spares
      BY <1>14, <2>2, BoundType DEF Reinitialise, Spares, Shape
    <3> QED BY <1>0, <1>3, <2>1, <2>2, <3>1, Elsewhere
  <2>3. CASE GetExtensionVersion(Bound("init"))
    BY <2>1, <2>3, BoundType, Elsewhere, NewPoolOnce
  <2> QED BY <1>14, <2>2, <2>3 DEF Reinitialise
<1>15. ASSUME NEW p \in Pools, NEW w \in Workers, WorkerStep(p, w) PROVE Once'
  <2>1. p \in Made
    BY DEF Pools, Made, Shape
  <2> QED BY <1>15, <2>1, WorkerKeepsOnce
<1> QED
  BY <1>6, <1>8, <1>9, <1>10, <1>11, <1>12, <1>13, <1>14, <1>15 DEF Next, Call

LEMMA OnceIsOneAnswer == ASSUME Shape, Once PROVE OneAnswer
<1>1. Pools = Made
  BY DEF Pools, Made, Shape
<1> QED BY <1>1 DEF OneAnswer, Once, Whereabouts, InHand

(* pyISAPI.cpp and threaded_extension.py: IIS is told at most once that a  *)
(* request is done, also when Dispatch raises after it has said so, and no *)
(* two workers ever have the same request, however often the extension is  *)
(* reloaded.                                                               *)
THEOREM AnsweredOnce == Spec => []OneAnswer
<1> DEFINE Inv == Shape /\ Ports /\ OwnIdentity /\ Once
<1>1. Init => Inv
  BY ShapeInit, OnceInit
<1>2. Inv /\ [Next]_vars => Inv'
  BY HandlerKeeps, OnceStep
<1>3. Inv => OneAnswer
  BY OnceIsOneAnswer
<1> QED BY <1>1, <1>2, <1>3, PTL DEF Spec

-----------------------------------------------------------------------------
(* Unless two reloads overlap, one thread of IIS at a time terminates the  *)
(* extension, and the callbacks are those of the extension in use.         *)
Past(t) == tpc[t] \in {"post", "poll", "load", "init", "unloaded"}

OneReload ==
  /\ \A t, u \in Threads : Reloading(t) /\ (Reloading(u) \/ tpc[u] = "unloaded") => t = u
  /\ \A r \in Requests : tpc[r] # "unloaded"
  /\ handler # 0 => \A cb \in {"do", "term", "init"} : callback[cb] \in {0, handler}
  /\ \A t \in Threads : tpc[t] = "init" => handler # 0

Opened ==
  /\ stage \in [Made -> {"open", "stopping", "closed"}]
  /\ \A p \in Made : stage[p] = "open" =>
       /\ handler # 0 /\ owner[p] = handler /\ p = PoolOf(handler)
       /\ \A t \in Threads : ~ Past(t)

Single == ~ overlapped => OneReload /\ Opened

(* The pool of an extension object is the last that it has made.           *)
LastOf(s, e) == SelectLastInSubSeq(s, 1, Len(s), LAMBDA x : x = e)

LEMMA PoolIsLast ==
  /\ \A e : PoolOf(e) = LastOf(owner, e)
  /\ PoolOf(handler)' = LastOf(owner', handler')
BY DEF PoolOf, LastOf, SelectLastInSubSeq

LEMMA LastPool ==
  ASSUME NEW s \in Seq(Nat), NEW e \in Nat
  PROVE  LastOf(Append(s, e), e) = Len(s) + 1
<1> DEFINE I == {i \in 1 .. Len(s) + 1 : Append(s, e)[i] = e}
<1>1. Len(Append(s, e)) = Len(s) + 1 /\ Append(s, e)[Len(s) + 1] = e /\ Len(s) \in Nat
  BY AppendProperties
<1>2. Len(s) + 1 \in I /\ \A y \in I : Len(s) + 1 >= y /\ y \in Int
  BY <1>1
<1> HIDE DEF I
<1>3. Max(I) = Len(s) + 1
  BY <1>1, <1>2 DEF Max
<1>4. LastOf(Append(s, e), e) = IF I # {} THEN Max(I) ELSE 0
  BY <1>1 DEF LastOf, SelectLastInSubSeq, I
<1> QED BY <1>1, <1>2, <1>3, <1>4

LEMMA SingleInit == ASSUME Init PROVE Single
<1> USE DEF Init, PoolInit, Unbound
<1>1. Made = {1} /\ Len(owner) = 1 /\ Iis \notin Requests
  BY HandlerAssumption DEF Made, HandlerAssumption
<1>2. OneReload
  BY <1>1 DEF OneReload, Reloading, Threads
<1>3. PoolOf(handler) = 1
  <2>1. owner = Append(<<>>, 1) /\ <<>> \in Seq(Nat) /\ Len(<<>>) = 0 /\ handler = 1
    OBVIOUS
  <2>2. LastOf(owner, handler) = 1
    <3>1. LastOf(Append(<<>>, 1), 1) = Len(<<>>) + 1
      BY <2>1, LastPool
    <3>2. LastOf(owner, handler) = LastOf(Append(<<>>, 1), 1)
      BY <2>1
    <3> QED BY <2>1, <3>1, <3>2
  <2> QED BY <2>2, PoolIsLast
<1>4. Opened
  BY <1>1, <1>3 DEF Opened, Past
<1> QED BY <1>2, <1>4 DEF Single

(* Whatever is not bound to the extension in use is not bound at all.      *)
LEMMA BoundToHandler ==
  ASSUME OneReload, Shape, handler # 0, NEW cb \in {"do", "term", "init"}
  PROVE  /\ Bound(cb) = handler
         /\ Bind(cb) => \A c \in {"do", "term", "init"} : callback'[c] \in {0, handler}
BY DEF OneReload, Bound, Bind, Shape

(* A step that makes no object, binds no other one and opens no pool; of   *)
(* the threads of IIS t at most moves.                                     *)
Onward(t) ==
  /\ UNCHANGED <<owner, handler>>
  /\ UNCHANGED callback \/ \E cb \in {"do", "term", "init"} : Bind(cb)
  /\ stage' \in [Made -> {"open", "stopping", "closed"}]
  /\ \A p \in Made : stage'[p] = "open" => stage[p] = "open"
  /\ \A u \in Threads \ {t} : tpc'[u] = tpc[u]
  /\ Past(t)' => Past(t) \/ \A p \in Made : stage'[p] # "open"
  /\ Reloading(t)' =>
       Reloading(t) \/ \A u \in Threads \ {t} : ~ Reloading(u) /\ tpc[u] # "unloaded"
  /\ tpc'[t] = "unloaded" => t = Iis /\ (Reloading(t) \/ tpc[t] = "unloaded")
  /\ tpc'[t] = "init" => tpc[t] = "init"

LEMMA OnwardKeeps ==
  ASSUME Shape, OneReload, Opened, NEW t \in Threads, Onward(t)
  PROVE  OneReload' /\ Opened'
<1>1. Made' = Made /\ PoolOf(handler)' = PoolOf(handler)
  BY PoolIsLast DEF Onward, Made
<1>2. Opened'
  BY <1>1 DEF Opened, Onward, Past
<1>3. OneReload'
  <2>1. ASSUME NEW u \in Threads, NEW v \in Threads, Reloading(u)',
               Reloading(v)' \/ tpc'[v] = "unloaded"
        PROVE  u = v
    BY <2>1 DEF OneReload, Onward, Reloading
  <2>2. ASSUME NEW r \in Requests PROVE tpc'[r] # "unloaded"
    <3>1. r # Iis /\ r \in Threads
      BY HandlerAssumption DEF HandlerAssumption, Threads
    <3> QED BY <3>1 DEF OneReload, Onward
  <2>3. handler' # 0 => \A cb \in {"do", "term", "init"} : callback'[cb] \in {0, handler'}
    <3>1. CASE UNCHANGED callback
      BY <3>1 DEF OneReload, Onward
    <3>2. ASSUME NEW cb \in {"do", "term", "init"}, Bind(cb), handler # 0
          PROVE  \A c \in {"do", "term", "init"} : callback'[c] \in {0, handler}
      BY <3>2, BoundToHandler
    <3> QED BY <3>1, <3>2 DEF Onward
  <2>4. \A u \in Threads : tpc'[u] = "init" => handler' # 0
    BY DEF OneReload, Onward
  <2> QED BY <2>1, <2>2, <2>3, <2>4 DEF OneReload
<1> QED BY <1>2, <1>3

(* The same for the stages of the pools.                                   *)
Longer(f, g, T, n) == g \in [1 .. n + 1 -> T] /\ \A p \in 1 .. n : g[p] = f[p]

LEMMA StageGrows ==
  ASSUME NEW T, NEW n \in Nat, NEW f \in [1 .. n -> T], NEW e \in T, NEW g, g = Append(f, e)
  PROVE  Longer(f, g, T, n)
<1>1. f \in Seq(T) /\ Len(f) = n
  OBVIOUS
<1>2. g \in Seq(T) /\ Len(g) = n + 1 /\ \A p \in 1 .. n : g[p] = f[p]
  BY <1>1, AppendProperties
<1> QED BY <1>2, LenProperties DEF Longer

(* A reload initialises the new extension when the old one's workers have  *)
(* been told to stop.                                                      *)
LEMMA ReinitialiseKeeps ==
  ASSUME Shape, Whereabouts, OneReload, Opened, NEW t \in Requests, Reinitialise(t)
  PROVE  OneReload' /\ Opened'
<1>0. t \in Threads /\ tpc \in [Threads -> Places]
  BY DEF Threads, Whereabouts
<1>1. /\ tpc[t] = "init" /\ UNCHANGED <<handler, made>> /\ handler # 0 /\ handler \in Nat
      /\ tpc' = [tpc EXCEPT ![t] = "again"] /\ Bind("init")
  BY <1>0 DEF Reinitialise, At, To, OneReload, Shape
<1>2. /\ GetExtensionVersion(handler)
      /\ \A c \in {"do", "term", "init"} : callback'[c] \in {0, handler}
  BY <1>1, BoundToHandler DEF Reinitialise
<1>3. tpc'[t] = "again" /\ \A u \in Threads \ {t} : tpc'[u] = tpc[u]
  BY <1>0, <1>1
<1>4. \A p \in Made : stage[p] # "open"
  BY <1>0, <1>1 DEF Opened, Past
<1>5. PICK n \in Nat : n = Len(owner) /\ Made = 1 .. n
  BY DEF Shape, Made
<1>6. /\ owner' = Append(owner, handler) /\ Len(owner') = n + 1
      /\ owner'[n + 1] = handler /\ Made' = 1 .. n + 1
  BY <1>1, <1>2, <1>5, AppendProperties DEF GetExtensionVersion, Shape, Made
<1>7. PoolOf(handler)' = n + 1
  <2>1. LastOf(Append(owner, handler), handler) = n + 1
    BY <1>1, <1>5, LastPool DEF Shape
  <2> QED BY <1>1, <1>6, <2>1, PoolIsLast
<1>8. /\ stage' \in [1 .. n + 1 -> {"open", "stopping", "closed"}]
      /\ \A p \in 1 .. n : stage'[p] = stage[p]
  <2>1. PICK T, e : T = {"open", "stopping", "closed"} /\ e = "open"
    OBVIOUS
  <2>2. stage' = Append(stage, e) /\ stage \in [1 .. n -> T] /\ e \in T
    BY <1>2, <1>5, <2>1 DEF GetExtensionVersion, Opened
  <2>3. Longer(stage, stage', T, n)
    BY <1>5, <2>2, StageGrows, Zenon
  <2> QED BY <2>1, <2>3 DEF Longer
<1>9. \A u \in Threads : ~ Past(u)'
  <2>1. ~ Past(t)'
    BY <1>3 DEF Past
  <2>2. ASSUME NEW u \in Threads \ {t} PROVE ~ Past(u)'
    <3>1. ~ Reloading(u) /\ tpc[u] # "unloaded"
      BY <1>0, <1>1 DEF OneReload, Reloading
    <3> QED BY <1>3, <3>1 DEF Past, Reloading
  <2> QED BY <2>1, <2>2
<1>10. Opened'
  <2>1. ASSUME NEW p \in 1 .. n + 1, stage'[p] = "open" PROVE p = n + 1
    BY <1>4, <1>5, <1>8, <2>1
  <2> QED BY <1>1, <1>6, <1>7, <1>8, <1>9, <2>1 DEF Opened
<1>11. OneReload'
  <2>1. \A u \in Threads : /\ Reloading(u)' => Reloading(u)
                           /\ tpc'[u] = "unloaded" => tpc[u] = "unloaded"
    BY <1>1, <1>3 DEF Reloading
  <2>2. Requests \subseteq Threads
    BY DEF Threads
  <2> QED BY <1>1, <1>2, <2>1, <2>2 DEF OneReload
<1> QED BY <1>10, <1>11

(* It makes the new extension only then, too; or the old one is kept, or   *)
(* there is none.                                                          *)
LEMMA LoadKeeps ==
  ASSUME Shape, Whereabouts, OneReload, Opened, NEW t \in Requests, LoadHandler(t)
  PROVE  OneReload' /\ Opened'
<1>1. t \in Threads /\ Requests \subseteq Threads /\ tpc \in [Threads -> Places]
  BY DEF Threads, Whereabouts
<1>2. tpc[t] = "load" /\ UNCHANGED <<owner, stage>> /\ Made' = Made
  BY DEF LoadHandler, At, Made
<1>3. \A p \in Made : stage[p] # "open"
  BY <1>1, <1>2 DEF Opened, Past
<1>4. Opened'
  BY <1>2, <1>3 DEF Opened
<1>5. PICK to \in {"init", "failed"} :
        /\ To(t, to)
        /\ \/ to = "init" /\ callback' = Unbound /\ handler' # 0
           \/ to = "failed" /\ handler' = 0
  BY DEF LoadHandler, Shape
<1>6. tpc'[t] = to /\ \A u \in Threads \ {t} : tpc'[u] = tpc[u]
  BY <1>1, <1>5 DEF To
<1>7. \A u \in Threads : /\ Reloading(u)' => Reloading(u)
                         /\ tpc'[u] = "unloaded" => tpc[u] = "unloaded"
  BY <1>2, <1>6 DEF Reloading
<1>8. \A u \in Threads \ {t} : tpc[u] # "init"
  BY <1>1, <1>2 DEF OneReload, Reloading
<1>9. \A u \in Threads : tpc'[u] = "init" => handler' # 0
  BY <1>5, <1>6, <1>8
<1>10. handler' # 0 => \A cb \in {"do", "term", "init"} : callback'[cb] \in {0, handler'}
  BY <1>5 DEF Unbound
<1> QED BY <1>1, <1>4, <1>7, <1>9, <1>10 DEF OneReload

(* Every step, with what TerminateExtension does one by one.               *)
LEMMA SingleStep ==
  ASSUME Shape, Whereabouts, Single, [Next]_vars
  PROVE  Single'
<1> USE DEF poolVars, handlerVars
<1>1. Iis \in Threads /\ Iis \notin Requests /\ Requests \subseteq Threads
  BY HandlerAssumption DEF Threads, HandlerAssumption
<1>2. tpc \in [Threads -> Places]
  BY DEF Whereabouts
<1> SUFFICES ASSUME ~ overlapped, ~ overlapped', OneReload, Opened
               PROVE  OneReload' /\ Opened'
  <2>1. overlapped => overlapped'
    <3>1. CASE UNCHANGED overlapped
      BY <3>1
    <3>2. \/ UNCHANGED overlapped
          \/ \E r \in Requests : Arrive(r)
      BY DEF Next, vars, Unload, Call, BeginTerm, PostTerm, EndTerm, LoadHandler, Reinitialise,
             Reissue, WorkerStep
    <3> QED BY <3>1, <3>2 DEF Arrive
  <2> QED BY <2>1 DEF Single
<1>4. stage \in [Made -> {"open", "stopping", "closed"}]
  BY DEF Opened
<1>5. ASSUME UNCHANGED <<owner, stage, handler, callback, tpc>> PROVE OneReload' /\ Opened'
  <2>1. Onward(Iis)
    BY <1>4, <1>5 DEF Onward, Past, Reloading, OneReload, Threads
  <2> QED BY <1>1, <2>1, OnwardKeeps
<1>6. CASE UNCHANGED vars
  BY <1>5, <1>6 DEF vars
<1>7. CASE Unload
  <2>1. tpc' = [tpc EXCEPT ![Iis] = "term"]
        /\ \A r \in Requests : tpc[r] \in {"none", "pending", "failed"}
    BY <1>7 DEF Unload, To
  <2>2. Onward(Iis)
    BY <1>1, <1>2, <1>4, <1>7, <2>1 DEF Unload, Onward, Past, Reloading, Threads
  <2> QED BY <1>1, <2>2, OnwardKeeps
<1>8. ASSUME NEW r \in Requests, Arrive(r) \/ Reissue(r)
      PROVE  OneReload' /\ Opened'
  <2>1. UNCHANGED <<owner, stage, handler>> /\ Bind("do")
    BY <1>8 DEF Arrive, Reissue, Post, PostRequest
  <2>2. PICK to \in {"term", "failed", "pending"} : To(r, to)
    BY <1>8 DEF Arrive, Reissue, Post
  <2>3. tpc'[r] = to /\ \A u \in Threads \ {r} : tpc'[u] = tpc[u]
    BY <1>1, <1>2, <2>2 DEF To
  <2>4. to = "term" => tpc[Iis] = "none" /\ \A t \in Threads : ~ Reloading(t)
    <3>1. \A x \in {"failed", "pending"} : To(r, x) => tpc'[r] = x
      BY <1>1, <1>2 DEF To
    <3>2. Post(r) \/ To(r, "failed") => to # "term"
      BY <2>3, <3>1 DEF Post
    <3>3. CASE \E t \in Threads : Reloading(t)
      BY <1>8, <3>2, <3>3 DEF Arrive, Reissue
    <3>4. CASE ~ \E t \in Threads : Reloading(t)
      BY <1>8, <3>2, <3>4 DEF Arrive, Reissue, At
    <3> QED BY <3>3, <3>4
  <2>5. Onward(r)
    BY <1>1, <1>4, <2>1, <2>3, <2>4 DEF Onward, Past, Reloading, OneReload, Threads
  <2> QED BY <1>1, <2>5, OnwardKeeps
<1>9. ASSUME NEW t \in Threads, NEW to, Reloading(t), To(t, to),
             to \in {"post", "poll", "load", "unloaded"}, to = "unloaded" => t = Iis,
             UNCHANGED <<owner, handler>>,
             UNCHANGED callback \/ \E cb \in {"do", "term", "init"} : Bind(cb),
             stage' \in [Made -> {"open", "stopping", "closed"}],
             \A p \in Made : stage'[p] = "open" => stage[p] = "open",
             Past(t) \/ \A p \in Made : stage'[p] # "open"
      PROVE  OneReload' /\ Opened'
  <2>1. tpc'[t] = to /\ \A u \in Threads \ {t} : tpc'[u] = tpc[u]
    BY <1>2, <1>9 DEF To
  <2>2. Onward(t)
    BY <1>9, <2>1 DEF Onward
  <2> QED BY <2>2, OnwardKeeps
<1>10. ASSUME NEW t \in Threads, BeginTerm(t) PROVE OneReload' /\ Opened'
  <2>1. /\ Reloading(t) /\ UNCHANGED <<owner, handler>>
        /\ \E cb \in {"do", "term", "init"} : Bind(cb)
    BY <1>10 DEF BeginTerm, At, Reloading, StopWorkers, ClosePort
  <2>2. PICK e : e = Bound("term") /\ (handler # 0 => e = handler)
    BY BoundToHandler
  <2>3. PICK P : P = PoolOf(e)
    OBVIOUS
  <2>4. CASE StopWorkers(e) /\ To(t, "post")
    <3>1. stage' = [stage EXCEPT ![P] = IF @ = "open" THEN "stopping" ELSE @]
      BY <2>3, <2>4 DEF StopWorkers
    <3>2. /\ stage' \in [Made -> {"open", "stopping", "closed"}]
          /\ \A p \in Made : stage'[p] # "open"
      BY <1>4, <2>2, <2>3, <3>1 DEF Opened
    <3> QED BY <1>9, <2>1, <2>4, <3>2
  <2>5. CASE P = 0 /\ ClosePort(e) /\ To(t, AfterTerm(t))
    <3>1. UNCHANGED stage
      BY <2>3, <2>5 DEF ClosePort
    <3>2. \A p \in Made : stage'[p] # "open"
      BY <2>2, <2>3, <2>5, <3>1 DEF Opened, Made, Shape
    <3>3. PICK to \in {"load", "unloaded"} : to = AfterTerm(t) /\ (to = "unloaded" => t = Iis)
      BY DEF AfterTerm
    <3> QED BY <1>4, <1>9, <2>1, <2>5, <3>1, <3>2, <3>3
  <2> QED BY <1>10, <2>2, <2>3, <2>4, <2>5 DEF BeginTerm
<1>11. ASSUME NEW t \in Threads, PostTerm(t) PROVE OneReload' /\ Opened'
  <2>1. Past(t) /\ Reloading(t) /\ UNCHANGED <<owner, stage, handler, callback>>
    BY <1>11 DEF PostTerm, PostShutdown, At, Past, Reloading
  <2>2. PICK to \in {"poll", "load", "unloaded"} : To(t, to) /\ (to = "unloaded" => t = Iis)
    BY <1>11 DEF PostTerm, AfterTerm
  <2> QED BY <1>4, <1>9, <2>1, <2>2
<1>12. ASSUME NEW t \in Threads, EndTerm(t) PROVE OneReload' /\ Opened'
  <2>1. Past(t) /\ Reloading(t) /\ ClosePort(object[t]) /\ UNCHANGED <<owner, handler, callback>>
    BY <1>12 DEF EndTerm, ClosePort, At, Past, Reloading
  <2>2. PICK to \in {"load", "unloaded"} : To(t, to) /\ (to = "unloaded" => t = Iis)
    BY <1>12 DEF EndTerm, AfterTerm
  <2>3. PICK P : P = PoolOf(object[t])
    OBVIOUS
  <2>4. stage' = stage \/ stage' = [stage EXCEPT ![P] = "closed"]
    BY <2>1, <2>3 DEF ClosePort
  <2>5. /\ stage' \in [Made -> {"open", "stopping", "closed"}]
        /\ \A p \in Made : stage'[p] = "open" => stage[p] = "open"
    BY <1>4, <2>4
  <2> QED BY <1>9, <2>1, <2>2, <2>5
<1>13. ASSUME NEW p \in Pools, NEW w \in Workers, WorkerStep(p, w) PROVE OneReload' /\ Opened'
  <2>1. UNCHANGED <<owner, stage, handlerVars>>
    BY <1>13 DEF WorkerStep, Worker, Run, TestRunning, GetPacket, BeginDispatch, Dispatch,
                 HandleDispatchError, ResetToken
  <2> QED BY <1>5, <2>1
<1> QED
  BY <1>6, <1>7, <1>8, <1>10, <1>11, <1>12, <1>13, LoadKeeps, ReinitialiseKeeps DEF Next, Call

(* PythonEng.cpp: after a reload the callbacks go to the new extension, so *)
(* that the workers of the old one were told to stop and IIS unloads the   *)
(* last one: for any number of requests, workers and reloads, whatever     *)
(* fails to load, as long as no two reloads overlap.                       *)
THEOREM NoneOrphaned == Spec => []NoOrphans
<1> DEFINE Inv == Shape /\ Ports /\ OwnIdentity /\ Once /\ Single
<1>1. Init => Inv
  BY ShapeInit, OnceInit, SingleInit
<1>2. Inv /\ [Next]_vars => Inv'
  BY HandlerKeeps, OnceStep, SingleStep DEF Once
<1>3. Inv => NoOrphans
  <2> SUFFICES ASSUME Shape, Single, ~ overlapped, NEW p \in Pools, stage[p] = "open"
               PROVE  owner[p] = handler /\ p = PoolOf(handler) /\ ~ At(Iis, "unloaded")
    BY DEF NoOrphans
  <2>1. p \in Made /\ Iis \in Threads
    BY DEF Pools, Made, Shape, Threads
  <2> QED BY <2>1 DEF Single, Opened, Past, At
<1> QED BY <1>1, <1>2, <1>3, PTL DEF Spec
=============================================================================
