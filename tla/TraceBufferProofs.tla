-------------------------- MODULE TraceBufferProofs --------------------------
(* Theorems about TraceBuffer, for any number of writers and readers, any  *)
(* of which may be killed, and any size of the map.                        *)
EXTENDS TraceBuffer, SequenceTheorems, FiniteSetTheorems, TLAPS

(* The length of a chunk is a number of bytes that fits an empty map.      *)
LEMMA ChunkBounds ==
  ASSUME TypeOK, NEW w \in Writers
  PROVE  /\ Chunk(w) \in Nat /\ Chunk(w) <= Half /\ Chunk(w) <= Cap
         /\ Chunk(w) <= left[w]
         /\ Half \in Nat /\ Cap \in Nat
  BY SizesAssumption DEF TypeOK, Chunk, Min2, Half, Cap

-----------------------------------------------------------------------------
(* Types.  A reader's hand holds bytes of the map only because the length  *)
(* never exceeds the map, so types rest on the bounds.                     *)

LEMMA TypeInit == ASSUME Init PROVE TypeOK
<1>1. buf \in [0 .. Cap - 1 -> Byte \cup {NoByte}]
  BY DEF Init
<1>2. pc \in [Threads -> WriterPC \cup ReaderPC]
  BY DEF Init, WriterPC, ReaderPC
<1>3. /\ \A w \in Writers : pc[w] \in WriterPC
      /\ \A r \in Readers : pc[r] \in ReaderPC
  BY DEF Init, WriterPC, ReaderPC, Threads
<1>4. /\ left \in [Writers -> Nat] /\ sent \in [Writers -> Nat]
      /\ hand \in [Readers -> SUBSET (Byte \cup {NoByte})]
      /\ got \in [Readers -> SUBSET (Byte \cup {NoByte})]
  BY DEF Init
<1> QED BY <1>1, <1>2, <1>3, <1>4 DEF Init, TypeOK

LEMMA TypeStep == ASSUME TypeOK, InBounds, [Next]_vars PROVE TypeOK'
<1> USE ActorsAssumption DEF TypeOK, shared, vars, Goto, GetMyMutex,
      MutexAvailable, ReleaseMyMutex, Threads, WriterPC, ReaderPC
<1>1. ASSUME NEW w \in Writers, Write(w) PROVE TypeOK'
  BY <1>1, SizesAssumption DEF Write
<1>2. ASSUME NEW w \in Writers, WLock1(w) PROVE TypeOK'
  BY <1>2 DEF WLock1
<1>3. ASSUME NEW w \in Writers, WCheck(w) PROVE TypeOK'
  BY <1>3 DEF WCheck
<1>4. ASSUME NEW w \in Writers, WUnlock1(w) PROVE TypeOK'
  BY <1>4 DEF WUnlock1
<1>5. ASSUME NEW w \in Writers, WSignal1(w) PROVE TypeOK'
  BY <1>5 DEF WSignal1
<1>6. ASSUME NEW w \in Writers, WEmpty(w) PROVE TypeOK'
  BY <1>6 DEF WEmpty
<1>7. ASSUME NEW w \in Writers, WLock2(w) PROVE TypeOK'
  BY <1>7 DEF WLock2
<1>8. ASSUME NEW w \in Writers, WFit(w) PROVE TypeOK'
  BY <1>8 DEF WFit
<1>9. ASSUME NEW w \in Writers, WCopy(w) PROVE TypeOK'
  <2>1. ASSUME NEW k \in Nat PROVE ByteAt(w, k) \in Byte
    <3>1. (k = Chunk(w)) \in BOOLEAN /\ sent[w] + k \in Nat
      OBVIOUS
    <3> QED BY <3>1, Zenon DEF ByteAt, Byte
  <2>2. \A i \in 0 .. Cap - 1 :
          i \in len .. len + Chunk(w) - 1 => i - len + 1 \in Nat
    BY SizesAssumption, ChunkBounds DEF Cap
  <2>3. buf' \in [0 .. Cap - 1 -> Byte \cup {NoByte}]
    BY <1>9, <2>1, <2>2 DEF WCopy
  <2> QED BY <1>9, <2>3 DEF WCopy
<1>10. ASSUME NEW w \in Writers, WGrow(w) PROVE TypeOK'
  BY <1>10, ChunkBounds DEF WGrow
<1>11. ASSUME NEW w \in Writers, WUnlock2(w) PROVE TypeOK'
  BY <1>11 DEF WUnlock2
<1>12. ASSUME NEW w \in Writers, WSignal2(w) PROVE TypeOK'
  <2>1. /\ pc' \in [Threads -> WriterPC \cup ReaderPC]
        /\ \A v \in Writers : pc'[v] \in WriterPC
        /\ \A r \in Readers : pc'[r] \in ReaderPC
    BY <1>12 DEF WSignal2
  <2>2. left' \in [Writers -> Nat] /\ sent' \in [Writers -> Nat]
    BY <1>12, ChunkBounds DEF WSignal2
  <2> QED BY <1>12, <2>1, <2>2 DEF WSignal2
<1>13. ASSUME NEW r \in Readers, Read(r) \/ BlockingRead(r) \/ RTimeout(r)
       PROVE  TypeOK'
  <2>1. CASE Read(r)         BY <2>1 DEF Read
  <2>2. CASE BlockingRead(r) BY <2>2 DEF BlockingRead
  <2>3. CASE RTimeout(r)     BY <2>3 DEF RTimeout
  <2> QED BY <1>13, <2>1, <2>2, <2>3
<1>14. ASSUME NEW r \in Readers, RWake(r) PROVE TypeOK'
  BY <1>14 DEF RWake
<1>15. ASSUME NEW r \in Readers, RLock(r) PROVE TypeOK'
  BY <1>15 DEF RLock
<1>16. ASSUME NEW r \in Readers, RCopy(r) PROVE TypeOK'
  <2>1. Visible \subseteq Byte \cup {NoByte}
    BY SizesAssumption DEF Visible, InBounds, Cap
  <2> QED BY <1>16, <2>1 DEF RCopy
<1>17. ASSUME NEW r \in Readers, RReset(r) PROVE TypeOK'
  BY <1>17 DEF RReset
<1>18. ASSUME NEW r \in Readers, RUnlock(r) PROVE TypeOK'
  BY <1>18 DEF RUnlock
<1>19. ASSUME NEW r \in Readers, RSignal(r) PROVE TypeOK'
  BY <1>19 DEF RSignal
<1>20. ASSUME NEW r \in Readers, RReturn(r) PROVE TypeOK'
  BY <1>20 DEF RReturn
<1>21. ASSUME NEW t \in Threads, Crash(t) PROVE TypeOK'
  BY <1>21 DEF Crash
<1>22. CASE UNCHANGED vars
  BY <1>22
<1> QED
  BY <1>1, <1>2, <1>3, <1>4, <1>5, <1>6, <1>7, <1>8, <1>9, <1>10, <1>11,
     <1>12, <1>13, <1>14, <1>15, <1>16, <1>17, <1>18, <1>19, <1>20, <1>21,
     <1>22 DEF Next, WriterStep, ReaderStep
-----------------------------------------------------------------------------
(* Mutual exclusion and bounds, when nobody keeps the mutex long enough    *)
(* for a waiter to give up on it.                                          *)

(* Who believes that it owns the mutex does own it.                        *)
Owns == \A t \in Threads : Critical(t) => mutex = t

LEMMA OwnsStep ==
  ASSUME ~ HolderMayStall, TypeOK, Owns, [Next]_vars PROVE Owns'
<1> USE ActorsAssumption DEF TypeOK, Owns, Critical, shared, vars, Goto,
      GetMyMutex, MutexAvailable, ReleaseMyMutex, Threads
<1>1. ASSUME NEW w \in Writers, Write(w) \/ WSignal1(w) \/ WEmpty(w) PROVE Owns'
  BY <1>1 DEF Write, WSignal1, WEmpty
<1>2. ASSUME NEW w \in Writers, WLock1(w) \/ WLock2(w) PROVE Owns'
  BY <1>2 DEF WLock1, WLock2
<1>3. ASSUME NEW w \in Writers, WCheck(w) PROVE Owns'
  BY <1>3 DEF WCheck
<1>4. ASSUME NEW w \in Writers, WUnlock1(w) \/ WUnlock2(w) PROVE Owns'
  BY <1>4 DEF WUnlock1, WUnlock2
<1>5. ASSUME NEW w \in Writers, WFit(w) \/ WCopy(w) \/ WGrow(w) PROVE Owns'
  BY <1>5 DEF WFit, WCopy, WGrow
<1>6. ASSUME NEW w \in Writers, WSignal2(w) PROVE Owns'
  BY <1>6 DEF WSignal2
<1>7. ASSUME NEW r \in Readers, Read(r) \/ BlockingRead(r) \/ RTimeout(r) \/ RWake(r)
      PROVE  Owns'
  BY <1>7 DEF Read, BlockingRead, RTimeout, RWake
<1>8. ASSUME NEW r \in Readers, RLock(r) PROVE Owns'
  BY <1>8 DEF RLock
<1>9. ASSUME NEW r \in Readers, RCopy(r) \/ RReset(r) PROVE Owns'
  BY <1>9 DEF RCopy, RReset
<1>10. ASSUME NEW r \in Readers, RUnlock(r) PROVE Owns'
  BY <1>10 DEF RUnlock
<1>11. ASSUME NEW r \in Readers, RSignal(r) \/ RReturn(r) PROVE Owns'
  BY <1>11 DEF RSignal, RReturn
<1>12. ASSUME NEW t \in Threads, Crash(t) PROVE Owns'
  BY <1>12 DEF Crash
<1>13. CASE UNCHANGED vars
  BY <1>13
<1> QED
  BY <1>1, <1>2, <1>3, <1>4, <1>5, <1>6, <1>7, <1>8, <1>9, <1>10, <1>11,
     <1>12, <1>13 DEF Next, WriterStep, ReaderStep

(* While one thread copies, nobody else moves the length: a second writer  *)
(* or a reader would have to own the mutex too.                            *)
LEMMA BoundsStep ==
  ASSUME TypeOK, Owns, InBounds, [Next]_vars PROVE InBounds'
<1> USE ActorsAssumption DEF TypeOK, InBounds, shared, vars, Goto, Threads, Chunk, Min2
<1>0. ASSUME UNCHANGED <<len, left>>,
             \A w \in Writers : pc'[w] \in {"copy", "grow"} => pc[w] \in {"copy", "grow"}
      PROVE  InBounds'
  BY <1>0
<1>1. ASSUME NEW w \in Writers, Write(w) PROVE InBounds'
  BY <1>1 DEF Write
<1>2. ASSUME NEW w \in Writers, WLock1(w) \/ WLock2(w) \/ WCheck(w) \/ WUnlock1(w)
                                \/ WSignal1(w) \/ WEmpty(w) \/ WUnlock2(w)
      PROVE  InBounds'
  BY <1>0, <1>2 DEF WLock1, WLock2, WCheck, WUnlock1, WSignal1, WEmpty, WUnlock2
<1>3. ASSUME NEW w \in Writers, WFit(w) PROVE InBounds'
  <2>1. \A v \in Writers \ {w} : pc[v] \notin {"copy", "grow"}
    BY <1>3 DEF WFit, Owns, Critical
  <2>2. len' <= Cap /\ len' + Chunk(w) <= Cap
    BY <1>3, ChunkBounds, SizesAssumption DEF WFit, SizeLeft, Cap
  <2> QED BY <1>3, <2>1, <2>2 DEF WFit
<1>4. ASSUME NEW w \in Writers, WCopy(w) PROVE InBounds'
  BY <1>0, <1>4 DEF WCopy
<1>5. ASSUME NEW w \in Writers, WGrow(w) PROVE InBounds'
  <2>1. \A v \in Writers : pc'[v] \notin {"copy", "grow"}
    BY <1>5 DEF WGrow, Owns, Critical
  <2> QED BY <1>5, <2>1 DEF WGrow
<1>6. ASSUME NEW w \in Writers, WSignal2(w) PROVE InBounds'
  BY <1>6 DEF WSignal2
<1>7. ASSUME NEW r \in Readers,
             Read(r) \/ BlockingRead(r) \/ RTimeout(r) \/ RWake(r) \/ RLock(r)
             \/ RCopy(r) \/ RUnlock(r) \/ RSignal(r) \/ RReturn(r)
      PROVE  InBounds'
  BY <1>0, <1>7 DEF Read, BlockingRead, RTimeout, RWake, RLock, RCopy, RUnlock,
                    RSignal, RReturn
<1>8. ASSUME NEW r \in Readers, RReset(r) PROVE InBounds'
  <2>1. \A v \in Writers : pc[v] \notin {"copy", "grow"}
    BY <1>8 DEF RReset, Owns, Critical
  <2> QED BY <1>8, <2>1, SizesAssumption DEF RReset, Half, Cap
<1>9. ASSUME NEW t \in Threads, Crash(t) PROVE InBounds'
  BY <1>0, <1>9 DEF Crash
<1>10. CASE UNCHANGED vars
  BY <1>0, <1>10
<1> QED
  BY <1>1, <1>2, <1>3, <1>4, <1>5, <1>6, <1>7, <1>8, <1>9, <1>10
     DEF Next, WriterStep, ReaderStep

-----------------------------------------------------------------------------
(* The invariant, inductive for any set of threads.                        *)
Safe == TypeOK /\ Owns /\ InBounds

THEOREM SafeInvariant == ASSUME ~ HolderMayStall PROVE Spec => []Safe
<1>1. Init => Safe
  <2> SUFFICES ASSUME Init PROVE Safe
    OBVIOUS
  <2>1. Owns /\ InBounds
    BY SizesAssumption DEF Init, Owns, Critical, InBounds, Threads, Half, Cap
  <2> QED BY <2>1, TypeInit DEF Safe
<1>2. Safe /\ [Next]_vars => Safe'
  BY TypeStep, OwnsStep, BoundsStep DEF Safe
<1> QED BY <1>1, <1>2, PTL DEF Spec

(* Every variable keeps its type: a writer never takes more from its       *)
(* string than is left of it, a reader never copies bytes from beyond the  *)
(* map (WriteData, ReadData).                                              *)
THEOREM TypeCorrect == ASSUME ~ HolderMayStall PROVE Spec => []TypeOK
<1>1. Safe => TypeOK
  BY DEF Safe
<1> QED BY <1>1, SafeInvariant, PTL

(* At most one thread uses the map at any time, although any of them may   *)
(* be killed while it owns the mutex (GetMyMutex, ReleaseMyMutex).         *)
THEOREM Exclusion == ASSUME ~ HolderMayStall PROVE Spec => []MutualExclusion
<1>1. Safe => MutualExclusion
  BY DEF Safe, Owns, MutualExclusion
<1> QED BY <1>1, SafeInvariant, PTL

(* No memcpy of WriteData runs past the end of the map, although the room  *)
(* was first computed before the mutex was given up and taken again.       *)
THEOREM NoOverrun == ASSUME ~ HolderMayStall PROVE Spec => []InBounds
<1>1. Safe => InBounds
  BY DEF Safe
<1> QED BY <1>1, SafeInvariant, PTL
-----------------------------------------------------------------------------
(* Whole chunks.  Between the copy and the update of the length the chunk  *)
(* is already behind the text that can be seen.                            *)
Copied ==
  \A w \in Writers : pc[w] = "grow" =>
    \A k \in 1 .. Chunk(w) : buf[len + k - 1] = ByteAt(w, k)

LEMMA ByteType ==
  ASSUME TypeOK, NEW w \in Writers, NEW k \in Nat PROVE ByteAt(w, k) \in Byte
<1>1. (k = Chunk(w)) \in BOOLEAN /\ sent[w] + k \in Nat
  BY DEF TypeOK
<1> QED BY <1>1, Zenon DEF ByteAt, Byte

LEMMA ByteParts ==
  ASSUME NEW w \in Writers, NEW k \in Nat
  PROVE  /\ ByteAt(w, k)[1] = w /\ ByteAt(w, k)[2] = sent[w] + k
         /\ ByteAt(w, k)[3] <=> k = Chunk(w)
  BY Zenon DEF ByteAt

LEMMA ChunksStep ==
  ASSUME Safe, WholeChunks, Copied, [Next]_vars PROVE WholeChunks' /\ Copied'
<1> USE ActorsAssumption DEF Safe, TypeOK, shared, vars, Goto, Threads
<1>0. ASSUME UNCHANGED <<len, buf, left, sent>>,
             \A w \in Writers : pc'[w] = "grow" => pc[w] = "grow"
      PROVE  WholeChunks' /\ Copied'
  BY <1>0 DEF WholeChunks, Copied, Chunk, ByteAt
<1>1. ASSUME NEW w \in Writers, Write(w) \/ WSignal2(w) PROVE WholeChunks' /\ Copied'
  <2>1. UNCHANGED <<len, buf>> /\ pc'[w] # "grow"
    BY <1>1 DEF Write, WSignal2
  <2>2. \A v \in Writers \ {w} : pc'[v] = pc[v] /\ left'[v] = left[v] /\ sent'[v] = sent[v]
    BY <1>1 DEF Write, WSignal2
  <2> QED BY <2>1, <2>2 DEF WholeChunks, Copied, Chunk, ByteAt
<1>2. ASSUME NEW w \in Writers, WLock1(w) \/ WLock2(w) \/ WCheck(w) \/ WUnlock1(w)
                                \/ WSignal1(w) \/ WEmpty(w) \/ WUnlock2(w)
      PROVE  WholeChunks' /\ Copied'
  BY <1>0, <1>2 DEF WLock1, WLock2, WCheck, WUnlock1, WSignal1, WEmpty, WUnlock2
<1>3. ASSUME NEW w \in Writers, WFit(w) PROVE WholeChunks' /\ Copied'
  <2>1. \A v \in Writers : pc'[v] # "grow"
    BY <1>3 DEF WFit, Owns, Critical
  <2>2. len' \in {0, len} /\ buf' = buf
    BY <1>3 DEF WFit
  <2>3. CASE len' = 0   BY <2>1, <2>3 DEF WholeChunks, Copied
  <2>4. CASE len' = len BY <2>1, <2>2, <2>4 DEF WholeChunks, Copied
  <2> QED BY <2>2, <2>3, <2>4
<1>4. ASSUME NEW w \in Writers, WCopy(w) PROVE WholeChunks' /\ Copied'
  <2>1. \A v \in Writers \ {w} : pc'[v] # "grow"
    BY <1>4 DEF WCopy, Owns, Critical
  <2>2. \A i \in 0 .. len - 1 : buf'[i] = buf[i]
    BY <1>4, SizesAssumption DEF WCopy, InBounds, Cap
  <2>3. \A k \in 1 .. Chunk(w) : buf'[len + k - 1] = ByteAt(w, k)
    <3> SUFFICES ASSUME NEW k \in 1 .. Chunk(w) PROVE buf'[len + k - 1] = ByteAt(w, k)
      OBVIOUS
    <3>1. /\ len + k - 1 \in 0 .. Cap - 1
          /\ len + k - 1 \in len .. len + Chunk(w) - 1
          /\ len + k - 1 - len + 1 = k
      BY <1>4, ChunkBounds DEF WCopy, InBounds
    <3> QED BY <1>4, <3>1 DEF WCopy
  <2>4. WholeChunks'
    BY <1>4, <2>2 DEF WholeChunks, WCopy
  <2>5. Copied'
    BY <1>4, <2>1, <2>3 DEF Copied, WCopy, Chunk, ByteAt
  <2> QED BY <2>4, <2>5
<1>5. ASSUME NEW w \in Writers, WGrow(w) PROVE WholeChunks' /\ Copied'
  <2>1. \A v \in Writers : pc'[v] # "grow"
    BY <1>5 DEF WGrow, Owns, Critical
  <2>2. len' = len + Chunk(w) /\ buf' = buf /\ pc[w] = "grow" /\ Chunk(w) \in Nat
    BY <1>5, ChunkBounds DEF WGrow
  <2>3. ASSUME NEW i \in 0 .. len' - 1
        PROVE  /\ buf'[i] \in Byte
               /\ ~ buf'[i][3] => /\ i + 1 < len'
                                  /\ buf'[i + 1][1] = buf'[i][1]
                                  /\ buf'[i + 1][2] = buf'[i][2] + 1
    <3>1. CASE i < len
      BY <2>2, <3>1 DEF WholeChunks
    <3>2. CASE i >= len
      <4> DEFINE k == i - len + 1
      <4>1. k \in 1 .. Chunk(w) /\ k \in Nat /\ len + k - 1 = i
        BY <2>2, <3>2
      <4>2. buf'[i] = ByteAt(w, k) /\ ByteAt(w, k) \in Byte
        BY <2>2, <4>1, ByteType DEF Copied
      <4> HIDE DEF k
      <4>5. /\ buf'[i][1] = w /\ buf'[i][2] = sent[w] + k
            /\ buf'[i][3] <=> k = Chunk(w)
        <5>1. /\ ByteAt(w, k)[1] = w /\ ByteAt(w, k)[2] = sent[w] + k
              /\ ByteAt(w, k)[3] <=> k = Chunk(w)
          BY <4>1, ByteParts
        <5>2. buf'[i] = ByteAt(w, k)
          BY <4>2
        <5> QED BY <5>1, <5>2, Zenon
      <4>3. CASE k = Chunk(w)
        BY <4>2, <4>3, <4>5, Zenon
      <4>4. CASE k # Chunk(w)
        <5>1. k + 1 \in 1 .. Chunk(w) /\ len + (k + 1) - 1 = i + 1 /\ i + 1 < len'
          BY <2>2, <4>1, <4>4
        <5>2. buf'[i + 1] = ByteAt(w, k + 1)
          BY <2>2, <5>1 DEF Copied
        <5>3. buf'[i + 1][1] = w /\ buf'[i + 1][2] = sent[w] + (k + 1)
          BY <4>1, <5>2, ByteParts
        <5>4. sent[w] + (k + 1) = (sent[w] + k) + 1
          BY <4>1
        <5> QED BY <4>2, <4>5, <5>1, <5>3, <5>4, Zenon
      <4> QED BY <4>3, <4>4
    <3> QED BY <3>1, <3>2
  <2> QED BY <2>1, <2>3 DEF WholeChunks, Copied
<1>6. ASSUME NEW r \in Readers,
             Read(r) \/ BlockingRead(r) \/ RTimeout(r) \/ RWake(r) \/ RLock(r)
             \/ RCopy(r) \/ RUnlock(r) \/ RSignal(r) \/ RReturn(r)
      PROVE  WholeChunks' /\ Copied'
  BY <1>0, <1>6 DEF Read, BlockingRead, RTimeout, RWake, RLock, RCopy, RUnlock,
                    RSignal, RReturn
<1>7. ASSUME NEW r \in Readers, RReset(r) PROVE WholeChunks' /\ Copied'
  <2>1. \A v \in Writers : pc'[v] # "grow"
    BY <1>7 DEF RReset, Owns, Critical
  <2> QED BY <1>7, <2>1 DEF RReset, WholeChunks, Copied
<1>8. ASSUME NEW t \in Threads, Crash(t) PROVE WholeChunks' /\ Copied'
  BY <1>0, <1>8 DEF Crash
<1>9. CASE UNCHANGED vars
  BY <1>0, <1>9
<1> QED
  BY <1>1, <1>2, <1>3, <1>4, <1>5, <1>6, <1>7, <1>8, <1>9
     DEF Next, WriterStep, ReaderStep

(* A reader sees whole chunks only: two writers never interleave, and a    *)
(* writer that is killed leaves nothing behind (WriteData updates the      *)
(* length after the copy).                                                 *)
THEOREM NoTornChunk == ASSUME ~ HolderMayStall PROVE Spec => []WholeChunks
<1>1. Init => WholeChunks /\ Copied
  BY DEF Init, WholeChunks, Copied, Threads
<1>2. Safe /\ WholeChunks /\ Copied /\ [Next]_vars => WholeChunks' /\ Copied'
  BY ChunksStep
<1> QED BY <1>1, <1>2, SafeInvariant, PTL DEF Spec

-----------------------------------------------------------------------------
(* Order.  A writer numbers its bytes; Written is the last number that it  *)
(* has put into the map (or may have, if it was killed).                   *)
Written(w) == sent[w] + IF pc[w] \in {"unlock2", "signal2", "dead"} THEN Chunk(w) ELSE 0

Known(b) == b \in Byte /\ b[2] <= Written(b[1])

(* Nobody has a byte that its writer has not written.                      *)
Numbered ==
  /\ \A i \in 0 .. len - 1 : Known(buf[i])
  /\ \A r \in Readers : \A b \in hand[r] \cup got[r] : Known(b)

(* What a reader has in its hand: nothing before it copies, and all that   *)
(* can be seen until it has reset the length.                              *)
Kept ==
  \A r \in Readers :
    /\ pc[r] = "reset" => hand[r] = Visible
    /\ pc[r] \in {"idle", "wait", "lock", "read"} => hand[r] = {}

LEMMA BytePart ==
  ASSUME NEW b \in Byte PROVE b[1] \in Writers /\ b[2] \in Nat /\ b[3] \in BOOLEAN
BY DEF Byte

LEMMA WrittenType ==
  ASSUME TypeOK, NEW w \in Writers PROVE Written(w) \in Nat
<1>1. Chunk(w) \in Nat /\ sent[w] \in Nat
  BY ChunkBounds DEF TypeOK
<1> QED BY <1>1 DEF Written

(* No step takes a number back.                                            *)
LEMMA WrittenGrows ==
  ASSUME TypeOK, [Next]_vars, NEW w \in Writers PROVE Written(w) <= Written(w)'
<1> USE ActorsAssumption DEF TypeOK, shared, vars, Goto, Threads, Written
<1>0. sent[w] \in Nat /\ left[w] \in Nat /\ Chunk(w) \in Nat
  BY ChunkBounds
<1>1. ASSUME sent'[w] = sent[w], left'[w] = left[w],
             pc'[w] \in {"unlock2", "signal2", "dead"} \/ pc'[w] = pc[w]
             \/ pc[w] \notin {"unlock2", "signal2", "dead"}
      PROVE  Written(w) <= Written(w)'
  <2>1. Chunk(w)' = Chunk(w)
    BY <1>1 DEF Chunk
  <2> QED BY <1>0, <1>1, <2>1
<1>2. ASSUME NEW v \in Writers, Write(v) PROVE Written(w) <= Written(w)'
  <2>1. sent'[w] = sent[w] /\ (v # w => left'[w] = left[w] /\ pc'[w] = pc[w])
    BY <1>2 DEF Write
  <2>2. CASE v # w BY <1>1, <2>1, <2>2
  <2>3. CASE v = w
    <3>1. pc[w] = "idle" /\ pc'[w] = "lock1"
      BY <1>2, <2>3 DEF Write
    <3> QED BY <1>0, <2>1, <3>1
  <2> QED BY <2>2, <2>3
<1>3. ASSUME NEW v \in Writers, WLock1(v) \/ WLock2(v) \/ WCheck(v) \/ WUnlock1(v)
                                \/ WSignal1(v) \/ WEmpty(v) \/ WUnlock2(v)
                                \/ WFit(v) \/ WCopy(v) \/ WGrow(v)
      PROVE  Written(w) <= Written(w)'
  BY <1>1, <1>3 DEF WLock1, WLock2, WCheck, WUnlock1, WSignal1, WEmpty, WUnlock2,
                    WFit, WCopy, WGrow
<1>4. ASSUME NEW v \in Writers, WSignal2(v) PROVE Written(w) <= Written(w)'
  <2>1. CASE v # w
    <3>1. sent'[w] = sent[w] /\ left'[w] = left[w] /\ pc'[w] = pc[w]
      BY <1>4, <2>1 DEF WSignal2
    <3> QED BY <1>1, <3>1
  <2>2. CASE v = w
    <3>1. pc[w] = "signal2" /\ pc'[w] \in {"lock1", "idle"} /\ sent'[w] = sent[w] + Chunk(w)
      BY <1>4, <2>2 DEF WSignal2
    <3> QED BY <1>0, <3>1
  <2> QED BY <2>1, <2>2
<1>5. ASSUME NEW r \in Readers,
             Read(r) \/ BlockingRead(r) \/ RTimeout(r) \/ ReaderStep(r)
      PROVE  Written(w) <= Written(w)'
  BY <1>1, <1>5 DEF Read, BlockingRead, RTimeout, ReaderStep, RWake, RLock, RCopy, RReset,
                    RUnlock, RSignal, RReturn
<1>6. ASSUME NEW t \in Threads, Crash(t) PROVE Written(w) <= Written(w)'
  BY <1>1, <1>6 DEF Crash
<1>7. CASE UNCHANGED vars
  BY <1>1, <1>7
<1> QED BY <1>2, <1>3, <1>4, <1>5, <1>6, <1>7 DEF Next, WriterStep

(* A byte that was known stays known.                                      *)
LEMMA KnownStays ==
  ASSUME TypeOK, TypeOK', [Next]_vars, NEW b, Known(b) PROVE Known(b)'
<1>1. b[1] \in Writers /\ b[2] \in Nat
  BY BytePart DEF Known
<1>2. Written(b[1]) <= Written(b[1])' /\ Written(b[1]) \in Nat
  BY <1>1, WrittenGrows, WrittenType
<1>3. Written(b[1])' \in Nat
  BY <1>1, SizesAssumption DEF Written, Chunk, Min2, Half, TypeOK
<1> QED BY <1>1, <1>2, <1>3 DEF Known

(* How a step that appends nothing and takes nothing out leaves the bytes. *)
Shrinks ==
  /\ len' <= len
  /\ \A i \in 0 .. len' - 1 : buf'[i] = buf[i]
  /\ \A r \in Readers : got'[r] = got[r] /\ hand'[r] \subseteq hand[r]
  /\ \A r \in Readers : Taken(r)' \subseteq Taken(r)

LEMMA Prefix ==
  ASSUME NEW n \in Nat, NEW m \in Nat, m <= n
  PROVE  \A i \in 0 .. m - 1 : i \in 0 .. n - 1
OBVIOUS

LEMMA ShrinksKeeps ==
  ASSUME TypeOK, TypeOK', [Next]_vars, Numbered, Ordered, Shrinks
  PROVE  Numbered' /\ Ordered'
<1>1. len \in Nat /\ len' \in Nat
  BY DEF TypeOK
<1>2. \A i \in 0 .. len' - 1 : i \in 0 .. len - 1 /\ buf'[i] = buf[i]
  <2>1. len' <= len /\ \A i \in 0 .. len' - 1 : buf'[i] = buf[i]
    BY Zenon DEF Shrinks
  <2>2. \A i \in 0 .. len' - 1 : i \in 0 .. len - 1
    BY <1>1, <2>1, Prefix
  <2> QED BY <2>1, <2>2
<1>5. Visible' \subseteq Visible
  BY <1>2 DEF Visible
<1>3. Numbered'
  <2>1. ASSUME NEW i \in 0 .. len' - 1 PROVE Known(buf[i])'
    BY <1>2, KnownStays DEF Numbered
  <2>2. ASSUME NEW r \in Readers, NEW b \in hand'[r] \cup got'[r] PROVE Known(b)'
    BY KnownStays DEF Numbered, Shrinks
  <2> QED BY <2>1, <2>2 DEF Numbered
<1>4. Ordered'
  BY <1>2, <1>5 DEF Ordered, Before, Shrinks
<1> QED BY <1>3, <1>4

LEMMA KeptStep ==
  ASSUME Safe, Kept, [Next]_vars PROVE Kept'
<1> USE ActorsAssumption DEF Safe, TypeOK, shared, vars, Goto, Threads, Kept, WriterPC, ReaderPC
<1>0. ASSUME UNCHANGED <<len, buf, hand>>,
             \A r \in Readers : pc'[r] = pc[r]
      PROVE  Kept'
  BY <1>0 DEF Visible
<1>1. ASSUME NEW w \in Writers, Write(w) \/ WLock1(w) \/ WLock2(w) \/ WCheck(w) \/ WUnlock1(w)
                                \/ WSignal1(w) \/ WEmpty(w) \/ WUnlock2(w) \/ WSignal2(w)
      PROVE  Kept'
  BY <1>0, <1>1 DEF Write, WLock1, WLock2, WCheck, WUnlock1, WSignal1, WEmpty, WUnlock2,
                    WSignal2
<1>2. ASSUME NEW w \in Writers, WFit(w) \/ WCopy(w) \/ WGrow(w) PROVE Kept'
  <2>1. \A r \in Readers : pc[r] # "reset"
    BY <1>2 DEF WFit, WCopy, WGrow, Owns, Critical
  <2>2. hand' = hand /\ \A r \in Readers : pc'[r] = pc[r]
    BY <1>2 DEF WFit, WCopy, WGrow
  <2> QED BY <2>1, <2>2
<1>3. ASSUME NEW r \in Readers,
             Read(r) \/ BlockingRead(r) \/ RTimeout(r) \/ RWake(r) \/ RLock(r) \/ RSignal(r)
      PROVE  Kept'
  <2>1. UNCHANGED <<len, buf, hand>> /\ pc'[r] # "reset"
    BY <1>3 DEF Read, BlockingRead, RTimeout, RWake, RLock, RSignal
  <2>2. /\ \A s \in Readers \ {r} : pc'[s] = pc[s]
        /\ pc'[r] \in {"lock", "wait", "read"} => pc[r] \in {"idle", "wait", "lock"}
        /\ pc'[r] # "idle"
    BY <1>3 DEF Read, BlockingRead, RTimeout, RWake, RLock, RSignal
  <2> QED BY <2>1, <2>2 DEF Visible
<1>4. ASSUME NEW r \in Readers, RCopy(r) PROVE Kept'
  <2>1. \A s \in Readers \ {r} : pc'[s] = pc[s] /\ hand'[s] = hand[s]
    BY <1>4 DEF RCopy
  <2>2. UNCHANGED <<len, buf>> /\ ((pc'[r] = "reset" /\ hand'[r] = Visible) \/ pc'[r] = "unlock")
    BY <1>4 DEF RCopy
  <2> QED BY <2>1, <2>2 DEF Visible
<1>5. ASSUME NEW r \in Readers, RReset(r) PROVE Kept'
  <2>1. \A s \in Readers \ {r} : pc[s] # "reset"
    BY <1>5 DEF RReset, Owns, Critical
  <2> QED BY <1>5, <2>1 DEF RReset
<1>6. ASSUME NEW r \in Readers, RUnlock(r) \/ RReturn(r) PROVE Kept'
  <2>1. \A s \in Readers \ {r} : pc'[s] = pc[s] /\ hand'[s] = hand[s]
    BY <1>6 DEF RUnlock, RReturn
  <2>2. UNCHANGED <<len, buf>>
    BY <1>6 DEF RUnlock, RReturn
  <2>3. pc'[r] = "signal" \/ (pc'[r] = "idle" /\ hand'[r] = {})
    BY <1>6 DEF RUnlock, RReturn
  <2> QED BY <2>1, <2>2, <2>3 DEF Visible
<1>7. ASSUME NEW t \in Threads, Crash(t) PROVE Kept'
  <2>1. \A s \in Readers : IF s = t THEN pc'[s] = "dead" ELSE pc'[s] = pc[s] /\ hand'[s] = hand[s]
    BY <1>7 DEF Crash
  <2> QED BY <1>7, <2>1 DEF Crash, Visible
<1>8. CASE UNCHANGED vars
  BY <1>0, <1>8
<1> QED
  BY <1>1, <1>2, <1>3, <1>4, <1>5, <1>6, <1>7, <1>8 DEF Next, WriterStep, ReaderStep

(* The steps of a reader or a writer that move no byte forward.            *)
LEMMA OrderQuiet ==
  ASSUME Safe, TypeOK', [Next]_vars, Numbered, Ordered,
         len' \in {0, len}, \A i \in 0 .. len - 1 : buf'[i] = buf[i], UNCHANGED <<got, hand>>,
         \A r \in Readers : pc[r] = "reset" => pc'[r] = "reset"
  PROVE  Numbered' /\ Ordered'
<1>1. Shrinks
  <2>1. len' <= len
    BY DEF Safe, TypeOK
  <2>2. \A i \in 0 .. len' - 1 : buf'[i] = buf[i]
    <3>1. CASE len' = 0   BY <3>1
    <3>2. CASE len' = len BY <3>2
    <3> QED BY <3>1, <3>2
  <2>3. \A r \in Readers : Taken(r)' \subseteq Taken(r)
    BY DEF Taken
  <2> QED BY <2>1, <2>2, <2>3 DEF Shrinks
<1> QED BY <1>1, ShrinksKeeps DEF Safe

(* The new chunk is numbered after all that anybody has of its writer.     *)
LEMMA OrderGrow ==
  ASSUME Safe, TypeOK', [Next]_vars, Copied, Numbered, Ordered, NEW w \in Writers, WGrow(w)
  PROVE  Numbered' /\ Ordered'
<1>1. /\ len' = len + Chunk(w) /\ buf' = buf /\ UNCHANGED <<sent, left, hand, got>>
      /\ pc[w] = "grow" /\ pc'[w] = "unlock2"
      /\ \A r \in Readers : pc'[r] = pc[r]
  BY ActorsAssumption DEF WGrow, Goto, Safe, TypeOK, Threads
<1>2. /\ len \in Nat /\ Chunk(w) \in Nat /\ sent[w] \in Nat
      /\ Written(w) = sent[w] /\ Written(w)' = sent[w] + Chunk(w)
  <2>1. Chunk(w)' = Chunk(w)
    BY <1>1 DEF Chunk
  <2>2. len \in Nat /\ Chunk(w) \in Nat /\ sent[w] \in Nat
    BY ChunkBounds DEF Safe, TypeOK
  <2>3. Written(w) = sent[w] /\ Written(w)' = sent[w] + Chunk(w)
    BY <1>1, <2>1, <2>2 DEF Written
  <2> QED BY <2>2, <2>3
<1>3. ASSUME NEW i \in 0 .. len' - 1
      PROVE  /\ i < len => i \in 0 .. len - 1 /\ Known(buf[i])
             /\ ~ (i < len) =>
                  /\ buf[i] \in Byte /\ buf[i][1] = w /\ buf[i][2] = sent[w] + (i - len + 1)
                  /\ i - len + 1 \in 1 .. Chunk(w)
  <2>1. i < len => i \in 0 .. len - 1 /\ Known(buf[i])
    BY <1>1, <1>2 DEF Numbered
  <2>2. ASSUME ~ (i < len)
        PROVE  /\ buf[i] \in Byte /\ buf[i][1] = w /\ buf[i][2] = sent[w] + (i - len + 1)
               /\ i - len + 1 \in 1 .. Chunk(w)
    <3> DEFINE k == i - len + 1
    <3>1. k \in 1 .. Chunk(w) /\ k \in Nat /\ len + k - 1 = i
      BY <1>1, <1>2, <2>2
    <3>2. buf[i] = ByteAt(w, k)
      BY <1>1, <3>1 DEF Copied
    <3>3. ByteAt(w, k) \in Byte /\ ByteAt(w, k)[1] = w /\ ByteAt(w, k)[2] = sent[w] + k
      BY <3>1, ByteType, ByteParts DEF Safe
    <3> QED BY <3>1, <3>2, <3>3
  <2> QED BY <2>1, <2>2
<1>4. \A b : Known(b) => /\ Known(b)' /\ b[2] \in Nat
                         /\ b[1] = w => b[2] <= sent[w]
  BY <1>2, KnownStays, BytePart DEF Known, Safe
<1>5. Numbered'
  <2>1. ASSUME NEW i \in 0 .. len' - 1 PROVE Known(buf[i])'
    <3>1. CASE i < len
      BY <1>1, <1>3, <1>4, <3>1
    <3>2. CASE ~ (i < len)
      <4>1. buf'[i] \in Byte /\ buf'[i][1] = w /\ buf'[i][2] <= Written(w)'
        BY <1>1, <1>2, <1>3, <3>2
      <4> QED BY <4>1 DEF Known
    <3> QED BY <3>1, <3>2
  <2>2. ASSUME NEW r \in Readers, NEW b \in hand'[r] \cup got'[r] PROVE Known(b)'
    BY <1>1, <1>4 DEF Numbered
  <2> QED BY <2>1, <2>2 DEF Numbered
<1>6. ASSUME NEW i \in 0 .. len' - 1, NEW j \in 0 .. len' - 1, i < j
      PROVE  Before(buf'[i], buf'[j])
  <2>1. CASE j < len
    <3>1. i < len
      BY <1>1, <1>2, <1>6, <2>1
    <3> QED BY <1>1, <1>3, <1>6, <2>1, <3>1 DEF Ordered
  <2>2. CASE ~ (j < len) /\ i < len
    <3>1. buf[i][1] = w => buf[i][2] <= sent[w] /\ buf[i][2] \in Nat
      BY <1>3, <1>4, <2>2
    <3>2. buf[j][1] = w /\ buf[j][2] > sent[w] /\ buf[j][2] \in Nat
      BY <1>2, <1>3, <2>2
    <3> QED BY <1>1, <1>2, <3>1, <3>2 DEF Before
  <2>3. CASE ~ (j < len) /\ ~ (i < len)
    BY <1>1, <1>2, <1>3, <1>6, <2>3 DEF Before
  <2> QED BY <2>1, <2>2, <2>3
<1>7. ASSUME NEW r \in Readers, NEW b \in Taken(r)', NEW c \in Visible'
      PROVE  Before(b, c)
  <2>1. b \in Taken(r) /\ Known(b)
    BY <1>1, <1>7 DEF Taken, Numbered
  <2>2. PICK i \in 0 .. len' - 1 : c = buf[i]
    BY <1>1 DEF Visible
  <2>3. CASE i < len
    <3>1. c \in Visible
      BY <1>3, <2>2, <2>3 DEF Visible
    <3> QED BY <2>1, <3>1 DEF Ordered
  <2>4. CASE ~ (i < len)
    <3>1. c[1] = w /\ c[2] > sent[w] /\ c[2] \in Nat
      BY <1>2, <1>3, <2>2, <2>4
    <3>2. b[1] = w => b[2] <= sent[w] /\ b[2] \in Nat
      BY <1>4, <2>1
    <3> QED BY <1>2, <3>1, <3>2 DEF Before
  <2> QED BY <2>3, <2>4
<1>8. Ordered'
  BY <1>1, <1>6, <1>7 DEF Ordered, Before
<1> QED BY <1>5, <1>8

LEMMA OrderRead ==
  ASSUME Safe, TypeOK', [Next]_vars, WholeChunks, Kept, Numbered, Ordered, NEW r \in Readers,
         RCopy(r) \/ RReset(r) \/ RUnlock(r) \/ RReturn(r)
  PROVE  Numbered' /\ Ordered'
<1> USE DEF Safe, TypeOK, Goto, shared, Threads
<1>0. /\ \A s \in Readers \ {r} : pc'[s] = pc[s] /\ hand'[s] = hand[s] /\ got'[s] = got[s]
      /\ buf' = buf /\ len' \in {0, len}
  <2>1. \A s \in Readers \ {r} : pc'[s] = pc[s]
    BY DEF RCopy, RReset, RUnlock, RReturn
  <2>4. \A s \in Readers \ {r} : hand'[s] = hand[s]
    BY DEF RCopy, RReset, RUnlock, RReturn
  <2>2. \A s \in Readers \ {r} : got'[s] = got[s]
    BY DEF RCopy, RReset, RUnlock, RReturn
  <2>3. buf' = buf /\ len' \in {0, len}
    BY DEF RCopy, RReset, RUnlock, RReturn
  <2> QED BY <2>1, <2>2, <2>3, <2>4
<1>a. len' <= len /\ (\A i \in 0 .. len' - 1 : buf'[i] = buf[i] /\ i \in 0 .. len - 1)
      /\ Visible' \subseteq Visible
  <2>1. CASE len' = 0   BY <1>0, <2>1 DEF Visible
  <2>2. CASE len' = len BY <1>0, <2>2 DEF Visible
  <2> QED BY <1>0, <2>1, <2>2
<1>b. \A b : Known(b) => Known(b)'
  BY KnownStays
<1>c. ASSUME \A b \in hand'[r] \cup got'[r] : Known(b) PROVE Numbered'
  <2>1. ASSUME NEW i \in 0 .. len' - 1 PROVE Known(buf[i])'
    BY <1>0, <1>a, <1>b DEF Numbered
  <2>2. ASSUME NEW s \in Readers, NEW b \in hand'[s] \cup got'[s] PROVE Known(b)'
    BY <1>0, <1>b, <1>c DEF Numbered
  <2> QED BY <2>1, <2>2 DEF Numbered
<1>d. ASSUME \A b \in got'[r], c \in hand'[r] : Before(b, c),
             \A b \in Taken(r)', c \in Visible' : Before(b, c)
      PROVE  Ordered'
  <2>1. \A s \in Readers \ {r} : Taken(s)' = Taken(s)
    BY <1>0 DEF Taken
  <2>2. \A i, j \in 0 .. len' - 1 : i < j => Before(buf'[i], buf'[j])
    BY <1>a DEF Ordered
  <2>3. \A s \in Readers : \A b \in got'[s], c \in hand'[s] : Before(b, c)
    BY <1>0, <1>d DEF Ordered
  <2>4. \A s \in Readers : \A b \in Taken(s)', c \in Visible' : Before(b, c)
    BY <1>a, <1>d, <2>1 DEF Ordered
  <2> QED BY <2>2, <2>3, <2>4 DEF Ordered, Before
<1>1. CASE RCopy(r)
  <2>0. /\ UNCHANGED <<len, buf, got>> /\ pc[r] = "read" /\ pc'[r] \in {"reset", "unlock"}
        /\ pc'[r] = "unlock" => hand' = hand
    BY <1>1 DEF RCopy
  <2>1. UNCHANGED <<len, buf, got>> /\ Visible' = Visible /\ Taken(r)' \subseteq got[r] \cup hand[r]
    BY <2>0 DEF Visible, Taken
  <2>2. hand[r] = {} /\ Taken(r) = got[r] \cup hand[r] /\ hand'[r] \in {hand[r], Visible}
    BY <1>1 DEF RCopy, Kept, Taken
  <2>3. \A b \in Visible : Known(b)
    BY DEF Visible, Numbered
  <2>4. Numbered'
    BY <1>c, <2>1, <2>2, <2>3 DEF Numbered
  <2>5. \A b \in got'[r], c \in hand'[r] : Before(b, c)
    BY <2>1, <2>2 DEF Ordered
  <2>6. \A b \in Taken(r)', c \in Visible' : Before(b, c)
    BY <2>1, <2>2 DEF Ordered
  <2> QED BY <1>d, <2>4, <2>5, <2>6
<1>2. CASE RReset(r)
  <2>1. UNCHANGED <<hand, got>> /\ Visible' = {}
    BY <1>2 DEF RReset, Visible
  <2> QED BY <1>c, <1>d, <2>1 DEF Numbered, Ordered
<1>3. CASE RUnlock(r)
  <2>1. UNCHANGED <<len, buf, got>> /\ pc[r] # "reset" /\ hand'[r] \subseteq hand[r]
    BY <1>3 DEF RUnlock
  <2>2. Visible' = Visible /\ Taken(r)' \subseteq Taken(r)
    BY <2>1 DEF Taken, Visible
  <2> QED BY <1>c, <1>d, <2>1, <2>2 DEF Numbered, Ordered
<1>4. CASE RReturn(r)
  <2>1. UNCHANGED <<len, buf>> /\ pc[r] # "reset" /\ hand'[r] = {} /\ got'[r] = got[r] \cup hand[r]
    BY <1>4 DEF RReturn
  <2>2. Visible' = Visible /\ Taken(r)' \subseteq Taken(r)
    BY <2>1 DEF Taken, Visible
  <2> QED BY <1>c, <1>d, <2>1, <2>2 DEF Numbered, Ordered
<1> QED BY <1>1, <1>2, <1>3, <1>4

LEMMA OrderStep ==
  ASSUME Safe, TypeOK', [Next]_vars, WholeChunks, Copied, Kept, Numbered, Ordered
  PROVE  Numbered' /\ Ordered'
<1> USE ActorsAssumption DEF Safe, TypeOK, shared, vars, Goto, Threads
<1>1. ASSUME NEW w \in Writers, Write(w) \/ WLock1(w) \/ WLock2(w) \/ WCheck(w) \/ WUnlock1(w)
                                \/ WSignal1(w) \/ WEmpty(w) \/ WFit(w) \/ WUnlock2(w)
                                \/ WSignal2(w)
      PROVE  Numbered' /\ Ordered'
  <2>1. len' \in {0, len} /\ UNCHANGED <<buf, got, hand>>
    BY <1>1 DEF Write, WLock1, WLock2, WCheck, WUnlock1, WSignal1, WEmpty, WFit, WUnlock2,
                WSignal2
  <2>2. \A r \in Readers : pc'[r] = pc[r]
    BY <1>1 DEF Write, WLock1, WLock2, WCheck, WUnlock1, WSignal1, WEmpty, WFit, WUnlock2,
                WSignal2
  <2> QED BY <2>1, <2>2, OrderQuiet
<1>2. ASSUME NEW w \in Writers, WCopy(w) PROVE Numbered' /\ Ordered'
  <2>1. \A i \in 0 .. len - 1 : buf'[i] = buf[i]
    BY <1>2, SizesAssumption DEF WCopy, InBounds, Cap
  <2>2. UNCHANGED <<len, got, hand>> /\ \A r \in Readers : pc'[r] = pc[r]
    BY <1>2 DEF WCopy
  <2> QED BY <2>1, <2>2, OrderQuiet
<1>3. ASSUME NEW w \in Writers, WGrow(w) PROVE Numbered' /\ Ordered'
  BY <1>3, OrderGrow
<1>4. ASSUME NEW r \in Readers,
             Read(r) \/ BlockingRead(r) \/ RTimeout(r) \/ RWake(r) \/ RLock(r) \/ RSignal(r)
      PROVE  Numbered' /\ Ordered'
  <2>1. UNCHANGED <<len, buf, got, hand>>
    BY <1>4 DEF Read, BlockingRead, RTimeout, RWake, RLock, RSignal
  <2>2. \A s \in Readers : pc[s] = "reset" => pc'[s] = "reset"
    BY <1>4 DEF Read, BlockingRead, RTimeout, RWake, RLock, RSignal
  <2> QED BY <2>1, <2>2, OrderQuiet
<1>5. ASSUME NEW r \in Readers, RCopy(r) \/ RReset(r) \/ RUnlock(r) \/ RReturn(r)
      PROVE  Numbered' /\ Ordered'
  BY <1>5, OrderRead
<1>6. ASSUME NEW t \in Threads, Crash(t) PROVE Numbered' /\ Ordered'
  <2>1. UNCHANGED <<len, buf, got>>
        /\ \A r \in Readers : IF r = t THEN hand'[r] = {}
                              ELSE hand'[r] = hand[r] /\ pc'[r] = pc[r]
    BY <1>6 DEF Crash
  <2>2. \A r \in Readers : Taken(r)' \subseteq Taken(r)
    BY <2>1 DEF Taken
  <2>3. len' <= len /\ \A i \in 0 .. len' - 1 : buf'[i] = buf[i]
    BY <2>1
  <2>4. \A r \in Readers : got'[r] = got[r] /\ hand'[r] \subseteq hand[r]
    BY <2>1
  <2>5. Shrinks
    BY <2>2, <2>3, <2>4, Zenon DEF Shrinks
  <2> QED BY <2>5, ShrinksKeeps
<1>7. CASE UNCHANGED vars
  BY <1>7, OrderQuiet
<1> QED
  BY <1>1, <1>2, <1>3, <1>4, <1>5, <1>6, <1>7 DEF Next, WriterStep, ReaderStep

(* Taken grows only when a reader resets the length.                       *)
LEMMA OnceStep ==
  ASSUME Safe, Kept, Numbered, Ordered, ReadOnce, [Next]_vars PROVE ReadOnce'
<1> USE ActorsAssumption DEF Safe, TypeOK, shared, vars, Goto, Threads
<1>0. ASSUME \A r \in Readers : Taken(r)' \subseteq Taken(r) PROVE ReadOnce'
  BY <1>0 DEF ReadOnce
<1>1. ASSUME NEW w \in Writers, Write(w) \/ WriterStep(w) PROVE ReadOnce'
  <2>1. UNCHANGED <<got, hand>>
    BY <1>1 DEF Write, WriterStep, WLock1, WLock2, WCheck, WUnlock1, WSignal1, WEmpty, WFit,
                WCopy, WGrow, WUnlock2, WSignal2
  <2>2. \A r \in Readers : pc'[r] = pc[r]
    BY <1>1 DEF Write, WriterStep, WLock1, WLock2, WCheck, WUnlock1, WSignal1, WEmpty, WFit,
                WCopy, WGrow, WUnlock2, WSignal2
  <2> QED BY <1>0, <2>1, <2>2 DEF Taken
<1>2. ASSUME NEW r \in Readers, Read(r) \/ BlockingRead(r) \/ RTimeout(r) \/ RWake(r)
                                \/ RLock(r) \/ RSignal(r)
      PROVE  ReadOnce'
  <2>1. UNCHANGED <<got, hand>>
    BY <1>2 DEF Read, BlockingRead, RTimeout, RWake, RLock, RSignal
  <2>2. \A s \in Readers : pc'[s] = pc[s] \/ pc[s] # "reset"
    BY <1>2 DEF Read, BlockingRead, RTimeout, RWake, RLock, RSignal
  <2> QED BY <1>0, <2>1, <2>2 DEF Taken
<1>3. ASSUME NEW r \in Readers, RCopy(r) \/ RUnlock(r) PROVE ReadOnce'
  <2>1. \A s \in Readers \ {r} : pc'[s] = pc[s] /\ hand'[s] = hand[s]
    BY <1>3 DEF RCopy, RUnlock
  <2>2. got' = got /\ pc[r] # "reset" /\ (pc'[r] = "reset" \/ hand'[r] \subseteq hand[r])
    BY <1>3 DEF RCopy, RUnlock
  <2> QED BY <1>0, <2>1, <2>2 DEF Taken
<1>4. ASSUME NEW r \in Readers, RReturn(r) PROVE ReadOnce'
  <2>1. \A s \in Readers \ {r} : pc'[s] = pc[s] /\ hand'[s] = hand[s] /\ got'[s] = got[s]
    BY <1>4 DEF RReturn
  <2>2. pc[r] # "reset" /\ got'[r] = got[r] \cup hand[r] /\ hand'[r] = {}
    BY <1>4 DEF RReturn
  <2> QED BY <1>0, <2>1, <2>2 DEF Taken
<1>5. ASSUME NEW r \in Readers, RReset(r) PROVE ReadOnce'
  <2>1. /\ \A s \in Readers \ {r} : Taken(s)' = Taken(s)
        /\ pc[r] = "reset" /\ Taken(r)' = got[r] \cup hand[r] /\ Taken(r) = got[r]
    BY <1>5 DEF RReset, Taken
  <2>2. hand[r] = Visible
    BY <2>1 DEF Kept
  <2>3. ASSUME NEW s \in Readers \ {r} PROVE Taken(s) \cap Visible = {}
    <3> SUFFICES ASSUME NEW b \in Taken(s), b \in Visible PROVE FALSE
      OBVIOUS
    <3>1. Before(b, b)
      BY DEF Ordered
    <3>2. b[2] \in Nat
      BY BytePart DEF Visible, Numbered, Known
    <3> QED BY <3>1, <3>2 DEF Before
  <2> QED BY <2>1, <2>2, <2>3 DEF ReadOnce
<1>6. ASSUME NEW t \in Threads, Crash(t) PROVE ReadOnce'
  <2>1. UNCHANGED got
        /\ \A r \in Readers : IF r = t THEN hand'[r] = {}
                              ELSE hand'[r] = hand[r] /\ pc'[r] = pc[r]
    BY <1>6 DEF Crash
  <2> QED BY <1>0, <2>1 DEF Taken
<1>7. CASE UNCHANGED vars
  BY <1>0, <1>7 DEF Taken
<1> QED BY <1>1, <1>2, <1>3, <1>4, <1>5, <1>6, <1>7 DEF Next, ReaderStep

(* All that is known of the text, inductive beside Safe.                   *)
Text == WholeChunks /\ Copied /\ Kept /\ Numbered /\ Ordered /\ ReadOnce

LEMMA TextInvariant == ASSUME ~ HolderMayStall PROVE Spec => [](Safe /\ Text)
<1>1. Init => Text
  BY DEF Init, Text, WholeChunks, Copied, Kept, Numbered, Ordered, ReadOnce, Taken, Visible,
         Threads
<1>2. Safe /\ Safe' /\ Text /\ [Next]_vars => Text'
  BY ChunksStep, KeptStep, OrderStep, OnceStep DEF Text, Safe
<1> QED BY <1>1, <1>2, SafeInvariant, PTL DEF Spec

(* What one writer writes is read in the order in which it was written,    *)
(* across chunks, calls and readers (WriteData appends behind all that is  *)
(* there, ReadData takes all of it).                                       *)
THEOREM InOrder == ASSUME ~ HolderMayStall PROVE Spec => []Ordered
<1>1. Text => Ordered
  BY DEF Text
<1> QED BY <1>1, TextInvariant, PTL

(* No byte is given to two readers: ReadData empties the map under the     *)
(* mutex under which it has copied it, and whoever is killed between the   *)
(* two has not taken anything.                                             *)
THEOREM AtMostOneReader == ASSUME ~ HolderMayStall PROVE Spec => []ReadOnce
<1>1. Text => ReadOnce
  BY DEF Text
<1> QED BY <1>1, TextInvariant, PTL

-----------------------------------------------------------------------------
(* A writer numbers its bytes up to MaxBytes, and writes chunks that are   *)
(* not empty.                                                              *)
Budget ==
  \A w \in Writers : /\ sent[w] + left[w] <= MaxBytes
                     /\ pc[w] \notin {"idle", "dead"} => left[w] > 0

LEMMA BudgetStep ==
  ASSUME TypeOK, Budget, [Next]_vars PROVE Budget'
<1> USE ActorsAssumption, SizesAssumption DEF TypeOK, Budget, shared, vars, Goto, Threads
<1>0. ASSUME UNCHANGED <<left, sent>>,
             \A w \in Writers : pc'[w] \in {pc[w], "dead"} \/ pc[w] \notin {"idle", "dead"}
      PROVE  Budget'
  BY <1>0
<1>1. ASSUME NEW w \in Writers, Write(w) PROVE Budget'
  BY <1>1 DEF Write
<1>2. ASSUME NEW w \in Writers, WLock1(w) \/ WLock2(w) \/ WCheck(w) \/ WUnlock1(w)
                                \/ WSignal1(w) \/ WEmpty(w) \/ WFit(w) \/ WCopy(w) \/ WGrow(w)
                                \/ WUnlock2(w)
      PROVE  Budget'
  BY <1>0, <1>2 DEF WLock1, WLock2, WCheck, WUnlock1, WSignal1, WEmpty, WFit, WCopy, WGrow,
                    WUnlock2
<1>3. ASSUME NEW w \in Writers, WSignal2(w) PROVE Budget'
  <2>1. /\ left'[w] = left[w] - Chunk(w) /\ sent'[w] = sent[w] + Chunk(w)
        /\ \A v \in Writers \ {w} : left'[v] = left[v] /\ sent'[v] = sent[v] /\ pc'[v] = pc[v]
        /\ pc'[w] = "idle" \/ left[w] > Chunk(w)
    BY <1>3 DEF WSignal2
  <2>2. Chunk(w) \in Nat /\ left[w] \in Nat /\ sent[w] \in Nat
    BY ChunkBounds
  <2>3. sent'[w] + left'[w] <= MaxBytes /\ (pc'[w] # "idle" => left'[w] > 0)
    BY <2>1, <2>2
  <2> QED BY <2>1, <2>3
<1>4. ASSUME NEW r \in Readers,
             Read(r) \/ BlockingRead(r) \/ RTimeout(r) \/ ReaderStep(r)
      PROVE  Budget'
  BY <1>0, <1>4 DEF Read, BlockingRead, RTimeout, ReaderStep, RWake, RLock, RCopy, RReset,
                    RUnlock, RSignal, RReturn
<1>5. ASSUME NEW t \in Threads, Crash(t) PROVE Budget'
  BY <1>0, <1>5 DEF Crash
<1>6. CASE UNCHANGED vars
  BY <1>0, <1>6
<1> QED BY <1>1, <1>2, <1>3, <1>4, <1>5, <1>6 DEF Next, WriterStep

-----------------------------------------------------------------------------
(* Loss.  A byte is somewhere while its writer's call goes on and after    *)
(* it, and as long as all that was passed to write fits into the map no    *)
(* writer finds it too full.                                               *)
Somewhere == Visible \cup UNION {Taken(r) : r \in Readers}

AllAlive == \A t \in Threads : Alive(t)

Positive == \A i \in 0 .. len - 1 : buf[i][2] > 0

Finished == \A w \in Writers : pc[w] = "idle" => left[w] = 0

AllStored ==
  EverythingFits /\ AllAlive =>
    \A w \in Writers : \A n \in 1 .. Written(w) : \E b \in Somewhere : b[1] = w /\ b[2] = n

LEMMA PassedFinite ==
  IsFiniteSet(Passed) /\ \A S \in SUBSET (Writers \X (1 .. MaxBytes)) : IsFiniteSet(S)
<1>1. IsFiniteSet(Writers) /\ IsFiniteSet(1 .. MaxBytes)
  BY ActorsAssumption, SizesAssumption, FS_Interval
<1>2. IsFiniteSet(Writers \X (1 .. MaxBytes))
  BY <1>1, FS_Product
<1> QED
  BY <1>2, FS_Subset DEF Passed

(* What was passed to write never gets less.                               *)
LEMMA PassedGrows ==
  ASSUME TypeOK, Finished, [Next]_vars
  PROVE  \A w \in Writers : sent[w] + left[w] <= sent'[w] + left'[w]
<1> USE DEF TypeOK, shared, vars, Goto
<1>0. ASSUME UNCHANGED <<left, sent>>
      PROVE  \A w \in Writers : sent[w] + left[w] <= sent'[w] + left'[w]
  BY <1>0
<1>1. ASSUME NEW v \in Writers, Write(v), NEW w \in Writers
      PROVE  sent[w] + left[w] <= sent'[w] + left'[w]
  <2>1. CASE w = v
    <3>1. PICK m \in MsgLens : left'[w] = m
      BY <1>1, <2>1 DEF Write
    <3>2. m \in Nat /\ left[w] = 0 /\ sent'[w] = sent[w] /\ sent[w] \in Nat
      BY <1>1, <2>1, SizesAssumption DEF Write, Finished
    <3> QED
      BY <3>1, <3>2
  <2>2. CASE w # v
    BY <1>1, <2>2 DEF Write
  <2> QED
    BY <2>1, <2>2
<1>2. ASSUME NEW v \in Writers, WSignal2(v), NEW w \in Writers
      PROVE  sent[w] + left[w] <= sent'[w] + left'[w]
  <2>1. Chunk(v) \in Nat
    BY ChunkBounds
  <2>2. CASE w = v
    <3>1. left'[w] = left[w] - Chunk(v) /\ sent'[w] = sent[w] + Chunk(v)
      BY <1>2, <2>2 DEF WSignal2
    <3> QED
      BY <2>1, <3>1
  <2>3. CASE w # v
    BY <1>2, <2>3 DEF WSignal2
  <2> QED
    BY <2>2, <2>3
<1>3. ASSUME NEW w \in Writers, WLock1(w) \/ WLock2(w) \/ WCheck(w) \/ WUnlock1(w)
                                \/ WSignal1(w) \/ WEmpty(w) \/ WFit(w) \/ WCopy(w) \/ WGrow(w)
                                \/ WUnlock2(w)
      PROVE  UNCHANGED <<left, sent>>
  BY <1>3 DEF WLock1, WLock2, WCheck, WUnlock1, WSignal1, WEmpty, WFit, WCopy, WGrow, WUnlock2
<1>4. ASSUME NEW r \in Readers,
             Read(r) \/ BlockingRead(r) \/ RTimeout(r) \/ ReaderStep(r)
      PROVE  UNCHANGED <<left, sent>>
  BY <1>4 DEF Read, BlockingRead, RTimeout, ReaderStep, RWake, RLock, RCopy, RReset, RUnlock,
              RSignal, RReturn
<1> QED
  BY <1>0, <1>1, <1>2, <1>3, <1>4 DEF Next, WriterStep, Crash

(* So if it fits after a step, and all are alive, it was so before.        *)
LEMMA FittedBefore ==
  ASSUME TypeOK, TypeOK', Finished, [Next]_vars, EverythingFits', AllAlive'
  PROVE  EverythingFits /\ AllAlive
<1>1. Passed \subseteq Passed'
  <2> SUFFICES ASSUME NEW p \in Writers \X (1 .. MaxBytes), p[2] <= sent[p[1]] + left[p[1]]
               PROVE  p[2] <= sent'[p[1]] + left'[p[1]]
    BY DEF Passed
  <2>1. PICK w \in Writers, k \in 1 .. MaxBytes : p = <<w, k>>
    OBVIOUS
  <2>2. k <= sent[w] + left[w] /\ sent[w] + left[w] <= sent'[w] + left'[w]
    BY <2>1, PassedGrows
  <2>3. /\ sent[w] \in Nat /\ left[w] \in Nat /\ sent'[w] \in Nat /\ left'[w] \in Nat
        /\ k \in Int
    BY DEF TypeOK
  <2>4. k <= sent'[w] + left'[w]
    BY <2>2, <2>3
  <2> QED
    BY <2>1, <2>4
<1>2. IsFiniteSet(Passed')
  BY PassedFinite DEF Passed
<1>3. Cardinality(Passed) <= Cardinality(Passed')
  BY <1>1, <1>2, FS_Subset
<1>4. Cardinality(Passed) \in Nat /\ Cardinality(Passed') \in Nat /\ Cap \in Int
  BY <1>1, <1>2, PassedFinite, FS_CardinalityType, SizesAssumption DEF Cap
<1>5. EverythingFits
  BY <1>3, <1>4 DEF EverythingFits
<1>6. AllAlive
  <2> SUFFICES ASSUME NEW t \in Threads, pc[t] = "dead" PROVE FALSE
    BY DEF AllAlive, Alive
  <2>1. pc'[t] = "dead"
    BY DEF Next, WriterStep, ReaderStep, Goto, Write, WLock1, WLock2, WCheck, WUnlock1,
           WSignal1, WEmpty, WFit, WCopy, WGrow, WUnlock2, WSignal2, Read, BlockingRead,
           RTimeout, RWake, RLock, RCopy, RReset, RUnlock, RSignal, RReturn, Crash, Alive,
           vars, TypeOK, Threads
  <2> QED
    BY <2>1 DEF AllAlive, Alive
<1> QED
  BY <1>5, <1>6

(* The bytes in the map and those of the chunk that is about to follow     *)
(* them are different bytes, and all were passed to write: if there is     *)
(* room for all of these there is room for the chunk.                      *)
LEMMA RoomForChunk ==
  ASSUME Safe, Text, Budget, Positive, EverythingFits, NEW w \in Writers, pc[w] = "fit"
  PROVE  len + Chunk(w) <= Cap
<1> USE DEF Safe
<1>1. /\ len \in Nat /\ Chunk(w) \in Nat /\ Chunk(w) <= left[w] /\ Cap \in Nat
      /\ sent[w] \in Nat /\ left[w] \in Nat
  BY ChunkBounds DEF TypeOK
<1> DEFINE n == len + Chunk(w)
           f == [i \in 1 .. n |-> IF i <= len THEN <<buf[i - 1][1], buf[i - 1][2]>>
                                  ELSE <<w, sent[w] + (i - len)>>]
<1>2. SUFFICES ASSUME Cap < n PROVE FALSE
  BY <1>1
<1>3. ASSUME NEW i \in 1 .. len
      PROVE  /\ i - 1 \in 0 .. len - 1 /\ buf[i - 1][1] \in Writers /\ buf[i - 1][2] \in Nat
             /\ buf[i - 1][2] > 0 /\ buf[i - 1][2] <= Written(buf[i - 1][1])
  <2>1. i - 1 \in 0 .. len - 1
    BY <1>1
  <2>2. Known(buf[i - 1]) /\ buf[i - 1][2] > 0
    BY <2>1 DEF Text, Numbered, Positive
  <2> QED
    BY <2>1, <2>2, BytePart DEF Known
<1>4. ASSUME NEW v \in Writers
      PROVE  /\ Written(v) \in Nat /\ sent[v] + left[v] \in Nat
             /\ Written(v) <= sent[v] + left[v] /\ sent[v] + left[v] <= MaxBytes
  <2>1. Chunk(v) \in Nat /\ Chunk(v) <= left[v] /\ sent[v] \in Nat /\ left[v] \in Nat
    BY ChunkBounds DEF TypeOK
  <2> QED
    BY <2>1 DEF Written, Budget
<1>5. f \in [1 .. n -> Passed]
  <2> SUFFICES ASSUME NEW i \in 1 .. n PROVE f[i] \in Passed
    OBVIOUS
  <2>1. CASE i <= len
    <3>1. PICK v \in Writers, k \in Nat : v = buf[i - 1][1] /\ k = buf[i - 1][2]
      BY <1>1, <1>3, <2>1
    <3>2. k > 0 /\ k <= sent[v] + left[v] /\ k <= MaxBytes
      <4>1. k > 0 /\ k <= Written(v)
        BY <1>1, <1>3, <2>1, <3>1
      <4>2. MaxBytes \in Nat
        BY SizesAssumption
      <4> QED
        BY <1>4, <4>1, <4>2
    <3>3. f[i] = <<v, k>>
      BY <2>1, <3>1
    <3>4. k \in 1 .. MaxBytes
      BY <3>2, SizesAssumption
    <3> HIDE DEF f
    <3> QED
      BY <3>2, <3>3, <3>4 DEF Passed
  <2>2. CASE ~(i <= len)
    <3> DEFINE k == sent[w] + (i - len)
    <3>1. k \in 1 .. MaxBytes /\ k <= sent[w] + left[w]
      BY <1>1, <1>4, <2>2, SizesAssumption
    <3>2. f[i] = <<w, k>>
      BY <2>2
    <3> HIDE DEF f, k
    <3> QED
      BY <3>1, <3>2 DEF Passed
  <2> QED
    BY <2>1, <2>2
<1>6. ASSUME NEW i \in 1 .. n, NEW j \in 1 .. n, i < j, f[i] = f[j] PROVE FALSE
  <2>1. CASE j <= len
    <3>1. i - 1 \in 0 .. len - 1 /\ j - 1 \in 0 .. len - 1 /\ i - 1 < j - 1
      BY <1>1, <1>6, <2>1
    <3>2. Before(buf[i - 1], buf[j - 1])
      BY <3>1 DEF Text, Ordered
    <3>3. buf[i - 1][1] = buf[j - 1][1] /\ buf[i - 1][2] = buf[j - 1][2]
      BY <1>1, <1>6, <2>1
    <3>4. buf[i - 1][2] \in Nat
      BY <1>1, <1>3, <1>6, <2>1
    <3> QED
      BY <3>2, <3>3, <3>4 DEF Before
  <2>2. CASE i <= len /\ ~(j <= len)
    <3>1. buf[i - 1][1] = w /\ buf[i - 1][2] = sent[w] + (j - len)
      BY <1>6, <2>2
    <3>2. Written(w) = sent[w]
      BY <1>1 DEF Written
    <3>3. buf[i - 1][2] <= Written(w)
      BY <1>1, <1>3, <2>2, <3>1
    <3> QED
      BY <1>1, <2>2, <3>1, <3>2, <3>3
  <2>3. CASE ~(i <= len)
    BY <1>1, <1>6, <2>3
  <2> QED
    BY <1>1, <1>6, <2>1, <2>2, <2>3
<1>7. Cardinality(Passed) < Cardinality(1 .. n) /\ IsFiniteSet(1 .. n)
  <2>1. n \in Nat /\ n > 0
    BY <1>1, <1>2
  <2>2. Cardinality(Passed) <= Cap /\ Cardinality(Passed) \in Nat
    BY PassedFinite, FS_CardinalityType DEF EverythingFits
  <2> HIDE DEF n
  <2>3. Cardinality(1 .. n) = n /\ IsFiniteSet(1 .. n)
    BY <2>1, FS_Interval
  <2> QED
    BY <1>1, <1>2, <2>1, <2>2, <2>3
<1> HIDE DEF n, f
<1>8. PICK i, j \in 1 .. n : i # j /\ f[i] = f[j]
  BY <1>5, <1>7, PassedFinite, FS_PigeonHole
<1>9. n \in Nat
  BY <1>1 DEF n
<1> QED
  BY <1>6, <1>8, <1>9

LEMMA FinishedStep ==
  ASSUME TypeOK, Finished, [Next]_vars PROVE Finished'
<1> USE ActorsAssumption DEF TypeOK, Finished, shared, vars, Goto, Threads
<1>0. ASSUME UNCHANGED left, \A w \in Writers : pc'[w] = "idle" => pc[w] = "idle"
      PROVE  Finished'
  BY <1>0
<1>1. ASSUME NEW w \in Writers, Write(w) PROVE Finished'
  BY <1>1 DEF Write
<1>2. ASSUME NEW w \in Writers, WLock1(w) \/ WLock2(w) \/ WCheck(w) \/ WUnlock1(w)
                                \/ WSignal1(w) \/ WEmpty(w) \/ WFit(w) \/ WCopy(w) \/ WGrow(w)
                                \/ WUnlock2(w)
      PROVE  Finished'
  BY <1>0, <1>2 DEF WLock1, WLock2, WCheck, WUnlock1, WSignal1, WEmpty, WFit, WCopy, WGrow,
                    WUnlock2
<1>3. ASSUME NEW w \in Writers, WSignal2(w) PROVE Finished'
  <2>1. /\ left'[w] = left[w] - Chunk(w)
        /\ \A v \in Writers \ {w} : left'[v] = left[v] /\ pc'[v] = pc[v]
        /\ pc'[w] = "idle" => ~(left[w] > Chunk(w))
    BY <1>3 DEF WSignal2
  <2>2. Chunk(w) \in Nat /\ left[w] \in Nat /\ Chunk(w) <= left[w]
    BY ChunkBounds
  <2>3. pc'[w] = "idle" => left'[w] = 0
    BY <2>1, <2>2
  <2> QED
    BY <2>1, <2>3
<1>4. ASSUME NEW r \in Readers,
             Read(r) \/ BlockingRead(r) \/ RTimeout(r) \/ ReaderStep(r)
      PROVE  Finished'
  BY <1>0, <1>4 DEF Read, BlockingRead, RTimeout, ReaderStep, RWake, RLock, RCopy, RReset,
                    RUnlock, RSignal, RReturn
<1>5. ASSUME NEW t \in Threads, Crash(t) PROVE Finished'
  BY <1>0, <1>5 DEF Crash
<1>6. CASE UNCHANGED vars
  BY <1>0, <1>6
<1> QED
  BY <1>1, <1>2, <1>3, <1>4, <1>5, <1>6 DEF Next, WriterStep

(* A step that puts no byte into the map leaves every byte somewhere,      *)
(* unless it is a writer that finds no room or somebody dies.              *)
LEMMA SomewhereStep ==
  ASSUME Safe, Text, Budget, Positive, EverythingFits, [Next]_vars, AllAlive'
  PROVE  /\ Somewhere \subseteq Somewhere'
         /\ (\A v \in Writers : Written(v)' = Written(v)) \/ \E w \in Writers : WGrow(w)
<1> USE ActorsAssumption DEF Safe, TypeOK, shared, Goto, Threads
<1> DEFINE Still == \A v \in Writers : Written(v)' = Written(v)
<1>1. ASSUME Visible \subseteq Visible', \A r \in Readers : Taken(r)' = Taken(r)
      PROVE  Somewhere \subseteq Somewhere'
  BY <1>1 DEF Somewhere
<1>2. ASSUME UNCHANGED <<left, sent>>,
             \A v \in Writers : pc'[v] \in {"unlock2", "signal2", "dead"} <=>
                                pc[v] \in {"unlock2", "signal2", "dead"}
      PROVE  Still
  BY <1>2 DEF Written, Chunk
<1>3. ASSUME UNCHANGED <<len, buf, hand, got>>, \A r \in Readers : pc'[r] = "reset" <=> pc[r] = "reset"
      PROVE  Somewhere \subseteq Somewhere'
  BY <1>1, <1>3 DEF Visible, Taken
<1>4. ASSUME NEW w \in Writers, Write(w)
      PROVE  Somewhere \subseteq Somewhere' /\ Still
  <2>1. Still
    <3>1. sent' = sent /\ pc[w] = "idle" /\ pc'[w] = "lock1"
      BY <1>4 DEF Write
    <3>2. \A v \in Writers \ {w} : pc'[v] = pc[v] /\ left'[v] = left[v]
      BY <1>4 DEF Write
    <3> QED
      BY <3>1, <3>2 DEF Written, Chunk
  <2> QED
    BY <1>3, <1>4, <2>1 DEF Write
<1>5. ASSUME NEW w \in Writers, WLock1(w) \/ WLock2(w) \/ WCheck(w) \/ WUnlock1(w)
                                \/ WSignal1(w) \/ WEmpty(w) \/ WUnlock2(w)
      PROVE  Somewhere \subseteq Somewhere' /\ Still
  BY <1>2, <1>3, <1>5 DEF WLock1, WLock2, WCheck, WUnlock1, WSignal1, WEmpty, WUnlock2
<1>6. ASSUME NEW w \in Writers, WSignal2(w)
      PROVE  Somewhere \subseteq Somewhere' /\ Still
  <2>1. Still
    <3>1. sent'[w] = sent[w] + Chunk(w) /\ pc[w] = "signal2" /\ pc'[w] \in {"lock1", "idle"}
      BY <1>6 DEF WSignal2
    <3>2. \A v \in Writers \ {w} : pc'[v] = pc[v] /\ left'[v] = left[v] /\ sent'[v] = sent[v]
      BY <1>6 DEF WSignal2
    <3>3. Written(w)' = Written(w)
      BY <3>1, ChunkBounds DEF Written
    <3> QED
      BY <3>2, <3>3 DEF Written, Chunk
  <2> QED
    BY <1>3, <1>6, <2>1 DEF WSignal2
<1>7. ASSUME NEW w \in Writers, WFit(w)
      PROVE  Somewhere \subseteq Somewhere' /\ Still
  <2>1. len + Chunk(w) <= Cap
    BY <1>7, RoomForChunk DEF WFit
  <2>2. ~(SizeLeft < Chunk(w))
    BY <2>1, ChunkBounds DEF SizeLeft
  <2>3. len' = len
    BY <1>7, <2>2 DEF WFit
  <2> QED
    BY <1>2, <1>3, <1>7, <2>3 DEF WFit
<1>8. ASSUME NEW w \in Writers, WCopy(w)
      PROVE  Somewhere \subseteq Somewhere' /\ Still
  <2>1. len' = len /\ UNCHANGED <<hand, got, left, sent>>
    BY <1>8 DEF WCopy
  <2>2. \A i \in 0 .. len - 1 : buf'[i] = buf[i]
    <3>1. \A i \in 0 .. len - 1 : i \in 0 .. Cap - 1 /\ i \notin len .. len + Chunk(w) - 1
      BY ChunkBounds DEF InBounds
    <3> QED
      BY <1>8, <3>1 DEF WCopy
  <2>3. Visible' = Visible
    BY <2>1, <2>2 DEF Visible
  <2>4. \A r \in Readers : Taken(r)' = Taken(r)
    BY <1>8, <2>1 DEF WCopy, Taken
  <2> QED
    BY <1>1, <1>2, <1>8, <2>1, <2>2, <2>3, <2>4 DEF WCopy
<1>9. ASSUME NEW w \in Writers, WGrow(w) PROVE Somewhere \subseteq Somewhere'
  <2>1. UNCHANGED <<buf, hand, got>> /\ len' = len + Chunk(w)
    BY <1>9 DEF WGrow
  <2>2. Visible \subseteq Visible'
    <3>1. \A i \in 0 .. len - 1 : i \in 0 .. len' - 1
      BY <2>1, ChunkBounds
    <3> QED
      BY <2>1, <3>1 DEF Visible
  <2>3. \A r \in Readers : Taken(r)' = Taken(r)
    BY <1>9, <2>1 DEF WGrow, Taken
  <2> QED
    BY <1>1, <2>2, <2>3
<1>10. ASSUME NEW r \in Readers,
              Read(r) \/ BlockingRead(r) \/ RTimeout(r) \/ RWake(r) \/ RLock(r) \/ RSignal(r)
       PROVE  Somewhere \subseteq Somewhere' /\ Still
  BY <1>2, <1>3, <1>10 DEF Read, BlockingRead, RTimeout, RWake, RLock, RSignal
<1>11. ASSUME NEW r \in Readers, RCopy(r)
       PROVE  Somewhere \subseteq Somewhere' /\ Still
  <2>1. UNCHANGED <<len, buf, got, left, sent>> /\ hand[r] = {} /\ pc[r] = "read"
    BY <1>11 DEF RCopy, Text, Kept
  <2>2. \A s \in Readers \ {r} : pc'[s] = pc[s] /\ hand'[s] = hand[s]
    BY <1>11 DEF RCopy
  <2>3. pc'[r] = "reset" \/ (pc'[r] = "unlock" /\ hand'[r] = hand[r])
    BY <1>11 DEF RCopy
  <2>4. \A s \in Readers : Taken(s)' = Taken(s)
    BY <2>1, <2>2, <2>3 DEF Taken
  <2>5. Visible' = Visible
    BY <2>1 DEF Visible
  <2> QED
    BY <1>1, <1>2, <1>11, <2>1, <2>4, <2>5 DEF RCopy
<1>12. ASSUME NEW r \in Readers, RReset(r)
       PROVE  Somewhere \subseteq Somewhere' /\ Still
  <2>1. hand[r] = Visible /\ pc[r] = "reset" /\ pc'[r] = "unlock"
    BY <1>12 DEF RReset, Text, Kept
  <2>2. UNCHANGED <<hand, got, left, sent>> /\ len' = 0
    BY <1>12 DEF RReset
  <2>3. \A s \in Readers \ {r} : pc'[s] = pc[s]
    BY <1>12 DEF RReset
  <2>4. Visible \subseteq Taken(r)'
    BY <2>1, <2>2 DEF Taken
  <2>5. \A s \in Readers : Taken(s) \subseteq Taken(s)'
    BY <2>1, <2>2, <2>3 DEF Taken
  <2>6. Somewhere \subseteq Somewhere'
    BY <2>4, <2>5 DEF Somewhere
  <2> QED
    BY <1>2, <1>12, <2>2, <2>6 DEF RReset
<1>13. ASSUME NEW r \in Readers, RUnlock(r) \/ RReturn(r)
       PROVE  Somewhere \subseteq Somewhere' /\ Still
  <2>1. UNCHANGED <<len, buf, left, sent>>
    BY <1>13 DEF RUnlock, RReturn
  <2>2. \A s \in Readers \ {r} : pc'[s] = pc[s] /\ hand'[s] = hand[s] /\ got'[s] = got[s]
    BY <1>13 DEF RUnlock, RReturn
  <2>3. Taken(r)' = Taken(r)
    <3>1. CASE RUnlock(r)
      <4>1. mutex = r
        BY <3>1 DEF RUnlock, Owns, Critical
      <4> QED
        BY <3>1, <4>1 DEF RUnlock, Taken
    <3>2. CASE RReturn(r)
      BY <3>2 DEF RReturn, Taken
    <3> QED
      BY <1>13, <3>1, <3>2
  <2>4. \A s \in Readers : Taken(s)' = Taken(s)
    BY <2>2, <2>3 DEF Taken
  <2>5. Visible' = Visible
    BY <2>1 DEF Visible
  <2>6. Still
    BY <1>2, <1>13, <2>1 DEF RUnlock, RReturn
  <2> QED
    BY <1>1, <2>1, <2>4, <2>5, <2>6
<1>14. ASSUME NEW t \in Threads PROVE ~Crash(t)
  <2>1. Crash(t) => pc'[t] = "dead"
    BY DEF Crash
  <2> QED
    BY <2>1 DEF AllAlive, Alive
<1>15. ASSUME UNCHANGED vars PROVE Somewhere \subseteq Somewhere' /\ Still
  BY <1>2, <1>3, <1>15 DEF vars
<1> HIDE DEF Still
<1>16. ASSUME NEW w \in Writers, Write(w) \/ WriterStep(w), ~WGrow(w)
       PROVE  Somewhere \subseteq Somewhere' /\ Still
  BY <1>4, <1>5, <1>6, <1>7, <1>8, <1>16, Zenon DEF WriterStep
<1>17. ASSUME NEW r \in Readers, Read(r) \/ BlockingRead(r) \/ RTimeout(r) \/ ReaderStep(r)
       PROVE  Somewhere \subseteq Somewhere' /\ Still
  BY <1>10, <1>11, <1>12, <1>13, <1>17, Zenon DEF ReaderStep
<1>18. \/ \E w \in Writers : WGrow(w)
       \/ Somewhere \subseteq Somewhere' /\ Still
  BY <1>14, <1>15, <1>16, <1>17, Zenon DEF Next
<1> QED
  BY <1>9, <1>18 DEF Still

(* A step that puts no byte into the map changes none that can be seen.    *)
LEMMA SameText ==
  ASSUME Safe, [Next]_vars
  PROVE  \/ \A i \in 0 .. len' - 1 : i \in 0 .. len - 1 /\ buf'[i] = buf[i]
         \/ \E w \in Writers : WGrow(w)
<1> USE DEF Safe, TypeOK, shared
<1> DEFINE Same == \A i \in 0 .. len' - 1 : i \in 0 .. len - 1 /\ buf'[i] = buf[i]
<1>1. ASSUME UNCHANGED buf, len' \in {0, len} PROVE Same
  <2>1. CASE len' = 0
    BY <2>1
  <2>2. CASE len' = len
    BY <1>1, <2>2
  <2> QED
    BY <1>1, <2>1, <2>2
<1>2. ASSUME NEW w \in Writers, Write(w) \/ WLock1(w) \/ WLock2(w) \/ WCheck(w)
                                \/ WUnlock1(w) \/ WSignal1(w) \/ WEmpty(w) \/ WFit(w)
                                \/ WUnlock2(w) \/ WSignal2(w)
      PROVE  Same
  <2>1. UNCHANGED buf /\ len' \in {0, len}
    BY <1>2 DEF Write, WLock1, WLock2, WCheck, WUnlock1, WSignal1, WEmpty, WFit, WUnlock2,
                WSignal2
  <2> QED
    BY <1>1, <2>1
<1>3. ASSUME NEW w \in Writers, WCopy(w) PROVE Same
  <2>1. \A i \in 0 .. len - 1 : i \in 0 .. Cap - 1 /\ i \notin len .. len + Chunk(w) - 1
    BY ChunkBounds DEF InBounds
  <2> QED
    BY <1>3, <2>1 DEF WCopy
<1>4. ASSUME NEW r \in Readers,
             Read(r) \/ BlockingRead(r) \/ RTimeout(r) \/ ReaderStep(r)
      PROVE  Same
  <2>1. UNCHANGED buf /\ len' \in {0, len}
    BY <1>4 DEF Read, BlockingRead, RTimeout, ReaderStep, RWake, RLock, RCopy, RReset, RUnlock,
                RSignal, RReturn
  <2> QED
    BY <1>1, <2>1
<1>5. ASSUME NEW t \in Threads, Crash(t) PROVE Same
  <2>1. UNCHANGED buf /\ len' \in {0, len}
    BY <1>5 DEF Crash
  <2> QED
    BY <1>1, <2>1
<1>6. ASSUME UNCHANGED vars PROVE Same
  BY <1>1, <1>6 DEF vars
<1> HIDE DEF Same
<1>7. ASSUME NEW w \in Writers, Write(w) \/ WriterStep(w), ~WGrow(w) PROVE Same
  BY <1>2, <1>3, <1>7, Zenon DEF WriterStep
<1>8. Same \/ \E w \in Writers : WGrow(w)
  BY <1>4, <1>5, <1>6, <1>7, Zenon DEF Next
<1> QED
  BY <1>8 DEF Same

(* What WGrow makes visible: the chunk that was copied.                    *)
LEMMA GrownText ==
  ASSUME Safe, Text, NEW w \in Writers, WGrow(w)
  PROVE  /\ len' = len + Chunk(w) /\ buf' = buf /\ sent' = sent
         /\ \A k \in 1 .. Chunk(w) : /\ len + k - 1 \in 0 .. len' - 1
                                    /\ buf[len + k - 1] = ByteAt(w, k)
         /\ \A v \in Writers \ {w} : Written(v)' = Written(v)
         /\ Written(w) = sent[w] /\ Written(w)' = sent[w] + Chunk(w)
<1>1. len' = len + Chunk(w) /\ UNCHANGED <<buf, sent, left>> /\ pc[w] = "grow" /\ pc'[w] = "unlock2"
      /\ \A v \in Writers \ {w} : pc'[v] = pc[v]
  BY DEF WGrow, Goto, Safe, TypeOK, Threads
<1>2. \A k \in 1 .. Chunk(w) : buf[len + k - 1] = ByteAt(w, k)
  BY <1>1 DEF Text, Copied
<1>3. len \in Nat /\ Chunk(w) \in Nat /\ sent[w] \in Nat
  BY ChunkBounds DEF Safe, TypeOK
<1>4. \A k \in 1 .. Chunk(w) : len + k - 1 \in 0 .. len' - 1
  BY <1>1, <1>3
<1>5. \A v \in Writers \ {w} : Written(v)' = Written(v)
  BY <1>1 DEF Written, Chunk
<1>6. Written(w) = sent[w] /\ Written(w)' = sent[w] + Chunk(w)
  BY <1>1, <1>3 DEF Written, Chunk
<1> QED
  BY <1>1, <1>2, <1>4, <1>5, <1>6

LEMMA PositiveStep ==
  ASSUME Safe, Text, Positive, [Next]_vars PROVE Positive'
<1>1. CASE \A i \in 0 .. len' - 1 : i \in 0 .. len - 1 /\ buf'[i] = buf[i]
  BY <1>1 DEF Positive
<1>2. ASSUME NEW w \in Writers, WGrow(w) PROVE Positive'
  <2>1. len \in Nat /\ Chunk(w) \in Nat /\ sent[w] \in Nat
    BY ChunkBounds DEF Safe, TypeOK
  <2> SUFFICES ASSUME NEW i \in 0 .. len' - 1 PROVE buf'[i][2] > 0
    BY DEF Positive
  <2>2. CASE i \in 0 .. len - 1
    BY <1>2, <2>2, GrownText DEF Positive
  <2>3. CASE i \notin 0 .. len - 1
    <3> DEFINE k == i - len + 1
    <3>1. k \in 1 .. Chunk(w) /\ i = len + k - 1
      BY <1>2, <2>1, <2>3, GrownText
    <3> HIDE DEF k
    <3>2. buf'[i] = ByteAt(w, k)
      BY <1>2, <3>1, GrownText
    <3>3. ByteAt(w, k)[2] = sent[w] + k
      BY <3>1, ByteParts
    <3> QED
      BY <2>1, <3>1, <3>2, <3>3
  <2> QED
    BY <2>2, <2>3
<1> QED
  BY <1>1, <1>2, SameText

LEMMA LostStep ==
  ASSUME Safe, Safe', Text, Budget, Finished, Positive, AllStored, [Next]_vars
  PROVE  AllStored'
<1> SUFFICES ASSUME EverythingFits', AllAlive', NEW v \in Writers, NEW n \in 1 .. Written(v)'
             PROVE  \E b \in Somewhere' : b[1] = v /\ b[2] = n
  BY DEF AllStored
<1>1. EverythingFits /\ AllAlive
  BY FittedBefore DEF Safe
<1>2. /\ Somewhere \subseteq Somewhere'
      /\ (\A u \in Writers : Written(u)' = Written(u)) \/ \E w \in Writers : WGrow(w)
  BY <1>1, SomewhereStep
<1>3. CASE n \in 1 .. Written(v)
  BY <1>1, <1>2, <1>3 DEF AllStored
<1>4. CASE n \notin 1 .. Written(v)
  <2>1. PICK w \in Writers : WGrow(w)
    BY <1>2, <1>4
  <2>2. w = v
    BY <1>4, <2>1, GrownText
  <2>3. len \in Nat /\ Chunk(w) \in Nat /\ sent[w] \in Nat
    BY ChunkBounds DEF Safe, TypeOK
  <2> DEFINE k == n - sent[w]
  <2>4. k \in 1 .. Chunk(w) /\ n = sent[w] + k
    BY <1>4, <2>1, <2>2, <2>3, GrownText
  <2> HIDE DEF k
  <2>5. len + k - 1 \in 0 .. len' - 1 /\ buf'[len + k - 1] = ByteAt(w, k)
    BY <2>1, <2>4, GrownText
  <2>6. ByteAt(w, k) \in Somewhere'
    BY <2>5 DEF Somewhere, Visible
  <2>7. ByteAt(w, k)[1] = v /\ ByteAt(w, k)[2] = n
    BY <2>2, <2>4, ByteParts
  <2> QED
    BY <2>6, <2>7
<1> QED
  BY <1>3, <1>4

LEMMA LostInvariant ==
  ASSUME ~ HolderMayStall PROVE Spec => [](Safe /\ Text /\ AllStored)
<1>1. Init => Budget /\ Finished /\ Positive /\ AllStored
  <2>1. ASSUME Init PROVE Budget /\ Finished /\ Positive
    BY <2>1, SizesAssumption DEF Init, Budget, Finished, Positive, Threads
  <2>2. ASSUME Init, NEW w \in Writers PROVE Written(w) = 0
    BY <2>2 DEF Init, Written, Threads
  <2> QED
    BY <2>1, <2>2 DEF AllStored
<1>2. Safe /\ Safe' /\ Text /\ Budget /\ Finished /\ Positive /\ AllStored /\ [Next]_vars
        => Budget' /\ Finished' /\ Positive' /\ AllStored'
  BY BudgetStep, FinishedStep, PositiveStep, LostStep DEF Safe
<1> QED
  BY <1>1, <1>2, TextInvariant, PTL DEF Spec

(* While nobody dies and all that was ever passed to write fits into the   *)
(* map, every byte is in it or with a reader: WriteData discards text only *)
(* for want of room, and ReadData empties the map only of what it has      *)
(* copied.                                                                 *)
THEOREM LosesNothing == ASSUME ~ HolderMayStall PROVE Spec => []NothingLost
<1>1. Safe /\ AllStored => NothingLost
  <2> SUFFICES ASSUME Safe, AllStored, EverythingFits, \A t \in Threads : Alive(t),
                      NEW w \in Writers, NEW n \in 1 .. sent[w]
               PROVE  n \in Stored(w)
    BY DEF NothingLost
  <2>1. sent[w] \in Nat /\ Chunk(w) \in Nat
    BY ChunkBounds DEF Safe, TypeOK
  <2>2. n \in 1 .. Written(w)
    BY <2>1 DEF Written
  <2>3. PICK b \in Somewhere : b[1] = w /\ b[2] = n
    BY <2>2 DEF AllStored, AllAlive
  <2> QED
    BY <2>3 DEF Stored, Somewhere
<1> QED
  BY <1>1, LostInvariant, PTL

-----------------------------------------------------------------------------
(* The refinement mapping of Log, named.                                   *)
AsLog  == [i \in 1 .. len |-> buf[i - 1]]
AsHeld == [r \in Readers |-> IF pc[r] = "reset" THEN {} ELSE hand[r]]

LEMMA LogShape ==
  ASSUME TypeOK, InBounds
  PROVE  /\ AsLog \in Seq(Byte \cup {NoByte}) /\ Len(AsLog) = len
         /\ \A i \in 1 .. len : AsLog[i] = buf[i - 1]
         /\ {AsLog[i] : i \in 1 .. Len(AsLog)} = Visible
<1>1. len \in Nat /\ \A i \in 1 .. len : buf[i - 1] \in Byte \cup {NoByte}
  BY SizesAssumption DEF TypeOK, InBounds, Cap
<1>2. DOMAIN AsLog = 1 .. len /\ \A i \in 1 .. len : AsLog[i] = buf[i - 1]
  BY DEF AsLog
<1>3. AsLog \in Seq(Byte \cup {NoByte}) /\ Len(AsLog) = len
  <2>1. AsLog \in [1 .. len -> Byte \cup {NoByte}]
    BY <1>1 DEF AsLog
  <2> QED BY <1>1, <2>1
<1>4. {AsLog[i] : i \in 1 .. len} = {buf[i] : i \in 0 .. len - 1}
  <2>1. ASSUME NEW i \in 0 .. len - 1 PROVE i + 1 \in 1 .. len /\ AsLog[i + 1] = buf[i]
    BY <1>1, <1>2
  <2>2. ASSUME NEW i \in 1 .. len PROVE i - 1 \in 0 .. len - 1 /\ AsLog[i] = buf[i - 1]
    BY <1>1, <1>2
  <2> QED BY <2>1, <2>2
<1> QED BY <1>2, <1>3, <1>4 DEF Visible

LEMMA RefInit == ASSUME Init PROVE Log!Init
BY DEF Init, Log!Init, Threads

(* Each step is a step of the log or changes nothing that it shows.        *)
LEMMA RefSame ==
  ASSUME UNCHANGED <<len, got>>, \A i \in 0 .. len - 1 : buf'[i] = buf[i], TypeOK,
         \A r \in Readers : (IF pc'[r] = "reset" THEN {} ELSE hand'[r])
                              = (IF pc[r] = "reset" THEN {} ELSE hand[r])
  PROVE  UNCHANGED Log!vars
<1>1. len \in Nat
  BY DEF TypeOK
<1>2. [i \in 1 .. len' |-> buf'[i - 1]] = [i \in 1 .. len |-> buf[i - 1]]
  <2>1. \A i \in 1 .. len : buf'[i - 1] = buf[i - 1]
    BY <1>1
  <2> QED BY <2>1
<1> QED BY <1>2 DEF Log!vars

(* The map after a chunk is appended.                                      *)
Shows(s, b, first, n, S) ==
  s \in [1 .. n -> S] /\ \A i \in 1 .. n : s[i] = b[first + i - 1]

LEMMA LogGrows ==
  ASSUME NEW n \in Nat, NEW m \in Nat, NEW S, NEW b, NEW C, NEW old, NEW new,
         Shows(old, b, 0, n, S), Shows(new, b, 0, n + m, S), Shows(C, b, n, m, S)
  PROVE  new = old \o C
<1> USE DEF Shows
<1>1. old \in Seq(S) /\ Len(old) = n /\ new \in Seq(S) /\ Len(new) = n + m
      /\ C \in Seq(S) /\ Len(C) = m
  OBVIOUS
<1>2. /\ old \o C \in Seq(S) /\ Len(old \o C) = n + m
      /\ \A i \in 1 .. n + m : (old \o C)[i] = IF i <= n THEN old[i] ELSE C[i - n]
  BY <1>1, ConcatProperties
<1>3. ASSUME NEW i \in 1 .. n + m PROVE new[i] = (old \o C)[i]
  <2>1. CASE i <= n
    <3>1. i \in 1 .. n
      BY <2>1
    <3> QED BY <1>2, <2>1, <3>1
  <2>2. CASE ~ (i <= n)
    <3>1. i - n \in 1 .. m /\ n + (i - n) - 1 = i - 1
      BY <2>2
    <3>2. b[i - 1] = C[i - n]
      BY <3>1
    <3> QED BY <1>2, <2>2, <3>2
  <2> QED BY <2>1, <2>2
<1> QED BY <1>1, <1>2, <1>3, SeqEqual

LEMMA RefGrow ==
  ASSUME Safe, TypeOK', InBounds', Text, Budget, NEW w \in Writers, WGrow(w)
  PROVE  Log!Next
<1> USE DEF Safe, TypeOK, Goto, Threads
<1>1. /\ len' = len + Chunk(w) /\ buf' = buf /\ UNCHANGED <<sent, left, hand, got>>
      /\ pc[w] = "grow"
      /\ \A r \in Readers : pc'[r] = pc[r]
  BY ActorsAssumption DEF WGrow
<1>2. /\ Chunk(w) \in 1 .. Half /\ sent[w] \in 0 .. MaxBytes /\ len \in Nat
      /\ Written(w) = sent[w]
  <2>1. left[w] > 0 /\ left[w] \in Nat /\ sent[w] \in Nat /\ sent[w] + left[w] <= MaxBytes
    BY <1>1 DEF Budget
  <2>2. Half \in Nat /\ Half > 0 /\ MaxBytes \in Nat
    BY ChunkBounds, SizesAssumption
  <2>3. Chunk(w) \in 1 .. Half
    BY <2>1, <2>2 DEF Chunk, Min2
  <2> QED BY <1>1, <2>1, <2>2, <2>3 DEF Written
<1>a. PICK n \in 1 .. Half : n = Chunk(w)
  BY <1>2
<1>b. PICK m \in 0 .. MaxBytes : m = sent[w]
  BY <1>2
<1>3. Log!Put(w, m, n)
  <2>1. Len(AsLog) + n <= Cap
    BY <1>1, <1>a, LogShape DEF InBounds
  <2>2. \A b \in Log!Bytes : b[1] = w => b[2] <= m
    <3> SUFFICES ASSUME NEW b \in Log!Bytes, b[1] = w PROVE b[2] <= m
      OBVIOUS
    <3>1. (\E i \in 1 .. Len(AsLog) : b = AsLog[i])
          \/ (\E r \in Readers : b \in AsHeld[r] \cup got[r])
      BY DEF Log!Bytes, AsLog, AsHeld
    <3>2. ASSUME NEW i \in 1 .. Len(AsLog) PROVE Known(AsLog[i])
      BY <1>2, <1>a, <1>b, LogShape DEF Text, Numbered
    <3>3. ASSUME NEW r \in Readers PROVE AsHeld[r] \subseteq hand[r]
      BY DEF AsHeld
    <3>4. Known(b)
      BY <3>1, <3>2, <3>3 DEF Text, Numbered
    <3> QED BY <1>2, <1>a, <1>b, <3>4 DEF Known
  <2>3. AsLog' = AsLog \o [k \in 1 .. n |-> <<w, m + k, k = n>>]
    <3> DEFINE C == [k \in 1 .. n |-> <<w, m + k, k = n>>]
    <3>1. \A k \in 1 .. n : C[k] = ByteAt(w, k) /\ buf[len + k - 1] = C[k]
      BY <1>1, <1>a, <1>b DEF Text, Copied, ByteAt
    <3>2. C \in [1 .. n -> Byte \cup {NoByte}]
      <4>1. ASSUME NEW k \in 1 .. n PROVE C[k] \in Byte \cup {NoByte}
        <5>1. k \in Nat
          BY <1>2
        <5>2. ByteAt(w, k) \in Byte
          BY <5>1, ByteType
        <5> QED BY <3>1, <5>2
      <4> QED BY <4>1, Zenon
    <3>3. \A i \in 0 .. len + n - 1 : buf[i] \in Byte \cup {NoByte}
      BY <1>1, <1>2, <1>a, <1>b, SizesAssumption DEF InBounds, Cap
    <3> HIDE DEF C
    <3>4. Shows(AsLog, buf, 0, len, Byte \cup {NoByte})
      BY <1>2, <1>a, <1>b, <3>3 DEF AsLog, Shows
    <3>5. PICK new : new = AsLog'
      OBVIOUS
    <3>6. Shows(new, buf, 0, len + n, Byte \cup {NoByte})
      BY <1>1, <1>2, <1>a, <1>b, <3>3, <3>5 DEF AsLog, Shows
    <3>7. Shows(C, buf, len, n, Byte \cup {NoByte})
      BY <1>2, <1>a, <1>b, <3>1, <3>2 DEF Shows
    <3>8. len \in Nat /\ n \in Nat
      BY <1>2
    <3>9. new = AsLog \o C
      BY <3>4, <3>6, <3>7, <3>8, LogGrows
    <3> QED BY <3>5, <3>9 DEF C
  <2>4. AsHeld' = AsHeld /\ got' = got
    BY <1>1 DEF AsHeld
  <2> QED BY <2>1, <2>2, <2>3, <2>4 DEF Log!Put, AsLog, AsHeld
<1>4. \E v \in Writers, j \in 0 .. MaxBytes, k \in 1 .. Half : Log!Put(v, j, k)
  BY <1>3
<1> QED BY <1>4, Zenon DEF Log!Next

(* The other steps at which something shows.                               *)
LEMMA RefDiscard ==
  ASSUME Safe, NEW w \in Writers, WFit(w), len' # len
  PROVE  Log!Next
<1>1. len > Cap - Half /\ len' = 0 /\ UNCHANGED <<hand, got>>
      /\ \A r \in Readers : pc'[r] = pc[r]
  BY ActorsAssumption, ChunkBounds DEF WFit, SizeLeft, Safe, TypeOK, Goto, Threads
<1>2. Len(AsLog) > Cap - Half
  BY <1>1, LogShape DEF Safe
<1>3. AsLog' = <<>> /\ AsHeld' = AsHeld /\ got' = got
  BY <1>1 DEF AsLog, AsHeld
<1>4. Log!Discard
  BY <1>2, <1>3 DEF Log!Discard, AsLog, AsHeld
<1> QED BY <1>4, Zenon DEF Log!Next

LEMMA RefTake ==
  ASSUME Safe, Kept, NEW r \in Readers, RReset(r) PROVE Log!Next
<1>1. /\ pc[r] = "reset" /\ pc'[r] = "unlock" /\ len' = 0 /\ UNCHANGED <<hand, got>>
      /\ \A s \in Readers \ {r} : pc'[s] = pc[s]
  BY DEF RReset, Safe, TypeOK, Goto, Threads
<1>2. hand[r] = {AsLog[i] : i \in 1 .. Len(AsLog)}
  BY <1>1, LogShape DEF Kept, Safe
<1>3. AsLog' = <<>> /\ AsHeld[r] = {} /\ got' = got
  BY <1>1 DEF AsLog, AsHeld
<1>4. AsHeld' = [AsHeld EXCEPT ![r] = hand[r]]
  BY <1>1 DEF AsHeld
<1>5. Log!Take(r)
  BY <1>2, <1>3, <1>4 DEF Log!Take, AsLog, AsHeld
<1> QED BY <1>5, Zenon DEF Log!Next

LEMMA RefReturn ==
  ASSUME Safe, NEW r \in Readers, RReturn(r) PROVE Log!Next
<1>1. /\ pc[r] = "return" /\ UNCHANGED <<len, buf>>
      /\ got' = [got EXCEPT ![r] = got[r] \cup hand[r]]
      /\ hand' = [hand EXCEPT ![r] = {}]
      /\ \A s \in Readers \ {r} : pc'[s] = pc[s]
  BY DEF RReturn, Safe, TypeOK, Goto, Threads, shared
<1>2. AsLog' = AsLog /\ AsHeld[r] = hand[r]
  BY <1>1 DEF AsLog, AsHeld
<1>3. AsHeld' = [AsHeld EXCEPT ![r] = {}]
  BY <1>1 DEF AsHeld, Safe, TypeOK
<1>4. Log!Return(r)
  BY <1>1, <1>2, <1>3 DEF Log!Return, AsLog, AsHeld
<1> QED BY <1>4, Zenon DEF Log!Next

LEMMA RefLose ==
  ASSUME Safe, NEW r \in Readers, Crash(r) PROVE Log!Next
<1>1. /\ UNCHANGED <<len, buf, got>>
      /\ hand'[r] = {}
      /\ \A s \in Readers \ {r} : pc'[s] = pc[s] /\ hand'[s] = hand[s]
  BY DEF Crash, Safe, TypeOK, Threads
<1>2. AsLog' = AsLog
  BY <1>1 DEF AsLog
<1>3. AsHeld' = [AsHeld EXCEPT ![r] = {}]
  BY <1>1 DEF AsHeld
<1>4. Log!Lose(r)
  BY <1>1, <1>2, <1>3 DEF Log!Lose, AsLog, AsHeld
<1> QED BY <1>4, Zenon DEF Log!Next

LEMMA RefStep ==
  ASSUME Safe, TypeOK', InBounds', Text, Budget, [Next]_vars PROVE [Log!Next]_(Log!vars)
<1> USE ActorsAssumption DEF Safe, TypeOK, shared, vars, Goto, Threads
<1>1. ASSUME NEW w \in Writers, Write(w) \/ WLock1(w) \/ WLock2(w) \/ WCheck(w) \/ WUnlock1(w)
                                \/ WSignal1(w) \/ WEmpty(w) \/ WUnlock2(w) \/ WSignal2(w)
      PROVE  UNCHANGED Log!vars
  <2>1. UNCHANGED <<len, buf, got, hand>>
    BY <1>1 DEF Write, WLock1, WLock2, WCheck, WUnlock1, WSignal1, WEmpty, WUnlock2, WSignal2
  <2>2. \A r \in Readers : pc'[r] = pc[r]
    BY <1>1 DEF Write, WLock1, WLock2, WCheck, WUnlock1, WSignal1, WEmpty, WUnlock2, WSignal2
  <2> QED BY <2>1, <2>2, RefSame
<1>2. ASSUME NEW w \in Writers, WFit(w) PROVE [Log!Next]_(Log!vars)
  <2>1. CASE len' = len
    <3>1. UNCHANGED <<buf, got, hand>> /\ \A r \in Readers : pc'[r] = pc[r]
      BY <1>2 DEF WFit
    <3>2. UNCHANGED Log!vars
      BY <2>1, <3>1, RefSame
    <3> QED BY <3>2
  <2>2. CASE len' # len
    BY <1>2, <2>2, RefDiscard
  <2> QED BY <2>1, <2>2
<1>3. ASSUME NEW w \in Writers, WCopy(w) PROVE UNCHANGED Log!vars
  <2>1. \A i \in 0 .. len - 1 : buf'[i] = buf[i]
    BY <1>3, SizesAssumption DEF WCopy, InBounds, Cap
  <2>2. UNCHANGED <<len, got, hand>> /\ \A r \in Readers : pc'[r] = pc[r]
    BY <1>3 DEF WCopy
  <2> QED BY <2>1, <2>2, RefSame
<1>4. ASSUME NEW w \in Writers, WGrow(w) PROVE Log!Next
  BY <1>4, RefGrow
<1>5. ASSUME NEW r \in Readers,
             Read(r) \/ BlockingRead(r) \/ RTimeout(r) \/ RWake(r) \/ RLock(r) \/ RSignal(r)
      PROVE  UNCHANGED Log!vars
  <2>1. UNCHANGED <<len, buf, got, hand>>
    BY <1>5 DEF Read, BlockingRead, RTimeout, RWake, RLock, RSignal
  <2>2. \A s \in Readers : pc'[s] = pc[s] \/ (pc[s] # "reset" /\ pc'[s] # "reset")
    BY <1>5 DEF Read, BlockingRead, RTimeout, RWake, RLock, RSignal
  <2> QED BY <2>1, <2>2, RefSame
<1>6. ASSUME NEW r \in Readers, RCopy(r) PROVE UNCHANGED Log!vars
  <2>1. /\ UNCHANGED <<len, buf, got>> /\ hand[r] = {}
        /\ pc[r] = "read" /\ (pc'[r] = "reset" \/ hand'[r] = {})
        /\ \A s \in Readers \ {r} : pc'[s] = pc[s] /\ hand'[s] = hand[s]
    BY <1>6 DEF RCopy, Text, Kept
  <2> QED BY <2>1, RefSame
<1>7. ASSUME NEW r \in Readers, RUnlock(r) PROVE UNCHANGED Log!vars
  <2>1. mutex = r /\ pc[r] = "unlock" /\ pc'[r] = "signal"
    BY <1>7 DEF RUnlock, Owns, Critical
  <2>2. /\ UNCHANGED <<len, buf, got, hand>>
        /\ \A s \in Readers \ {r} : pc'[s] = pc[s]
    BY <1>7, <2>1 DEF RUnlock
  <2> QED BY <2>1, <2>2, RefSame
<1>8. ASSUME NEW r \in Readers, RReset(r) \/ RReturn(r) PROVE Log!Next
  BY <1>8, RefTake, RefReturn DEF Text
<1>9. ASSUME NEW t \in Threads, Crash(t) PROVE [Log!Next]_(Log!vars)
  <2>1. CASE t \in Readers
    BY <1>9, <2>1, RefLose
  <2>2. CASE t \notin Readers
    <3>1. UNCHANGED <<len, buf, got, hand>> /\ \A r \in Readers : pc'[r] = pc[r]
      BY <1>9, <2>2 DEF Crash
    <3>2. UNCHANGED Log!vars
      BY <3>1, RefSame
    <3> QED BY <3>2
  <2> QED BY <2>1, <2>2
<1>10. CASE UNCHANGED vars
  <2>1. UNCHANGED Log!vars
    BY <1>10, RefSame
  <2> QED BY <2>1
<1> QED
  BY <1>1, <1>2, <1>3, <1>4, <1>5, <1>6, <1>7, <1>8, <1>9, <1>10
     DEF Next, WriterStep, ReaderStep

(* The shared map, with its mutex, its events and the processes that die,  *)
(* is the log that the head of win32trace.cpp describes: every chunk is    *)
(* added whole and once, a read takes all there is, and text is discarded  *)
(* only when less than the largest chunk fits.                             *)
THEOREM IsTheLog == ASSUME ~ HolderMayStall PROVE Spec => ImplementsLog
<1>1. Init => Budget
  BY SizesAssumption DEF Init, Budget, Threads
<1>2. Safe /\ Budget /\ [Next]_vars => Budget'
  BY BudgetStep DEF Safe
<1>3. Init => Log!Init
  BY RefInit
<1>4. Safe /\ Safe' /\ Text /\ Budget /\ [Next]_vars => [Log!Next]_(Log!vars)
  BY RefStep DEF Safe
<1> QED BY <1>1, <1>2, <1>3, <1>4, TextInvariant, PTL DEF Spec, ImplementsLog, Log!Spec
=============================================================================
