----------------------------- MODULE TraceBuffer -----------------------------
(***************************************************************************)
(* The shared buffer of win32trace (win32/src/win32trace.cpp).             *)
(*                                                                         *)
(* Any number of processes write text into one memory-mapped buffer and    *)
(* one or more processes collect it.  The first word of the buffer is the  *)
(* number of bytes in use (len); a named mutex is meant to protect the     *)
(* whole structure, an auto-reset event (evData) wakes a reader, another   *)
(* (evEmpty) wakes a writer that is waiting for room.                      *)
(*                                                                         *)
(* A thread stands for one thread of one process that has called InitRead  *)
(* or InitWrite; opening and closing the map is the subject of TraceSetup. *)
(* WriteData and ReadData are cut at every point where another process     *)
(* can observe or change the shared state, so a thread may be killed       *)
(* between any two of these steps.                                         *)
(***************************************************************************)
EXTENDS Integers, Sequences, FiniteSets

CONSTANTS
  Writers,        \* threads that call write
  Readers,        \* threads that call read or blockingread
  Size,           \* BUFFER_SIZE
  Word,           \* sizeof(unsigned long), the length word inside BUFFER_SIZE
  MsgLens,        \* lengths of the strings passed to write
  MaxBytes,       \* bound: the bytes one writer writes in all
  Mortal,         \* the threads whose process may be killed
  HolderMayStall, \* TRUE if a thread may keep the mutex for ten seconds
  MallocMayFail,  \* TRUE if a reader may run out of memory
  Free,           \* nobody owns the mutex
  Abandoned       \* the owner of the mutex died

Threads == Writers \cup Readers

Half == Size \div 2      \* the most that is written at a time
Cap  == Size - Word      \* the bytes there is room for

ASSUME SizesAssumption ==
  /\ Size \in Nat /\ Word \in Nat
  /\ Half <= Cap
  /\ Half > 0
  /\ MsgLens \subseteq Nat \ {0}
  /\ MaxBytes \in Nat

ASSUME ActorsAssumption ==
  /\ IsFiniteSet(Writers) /\ Writers \cap Readers = {}
  /\ Free \notin Threads /\ Abandoned \notin Threads /\ Free # Abandoned
  /\ Mortal \subseteq Threads
  /\ HolderMayStall \in BOOLEAN /\ MallocMayFail \in BOOLEAN

VARIABLES
  mutex,    \* owner of hMutex, or Free, or Abandoned
  evData,   \* hEvent is signalled
  evEmpty,  \* hEventEmpty is signalled
  len,      \* the length word of the map
  buf,      \* the bytes that follow it
  pc,       \* where each thread is
  left,     \* writer: bytes of the current string still to write
  sent,     \* writer: bytes written before data_this, over all its strings
  hand,     \* reader: the bytes copied out of the map, not yet returned
  got       \* reader: the bytes that its calls have returned

shared == <<mutex, evData, evEmpty, len, buf>>
vars   == <<mutex, evData, evEmpty, len, buf, pc, left, sent, hand, got>>

-----------------------------------------------------------------------------
(* Bytes are tagged so that order, loss and duplication can be told: the   *)
(* writer, the position in everything it writes, and whether it ends a     *)
(* chunk.                                                                  *)

Byte   == Writers \X Nat \X BOOLEAN
NoByte == <<>>                       \* the map is zero-filled when created

Min2(a, b) == IF a <= b THEN a ELSE b

Chunk(w) == Min2(left[w], Half)      \* len_this

ByteAt(w, k) == <<w, sent[w] + k, k = Chunk(w)>>

SizeLeft == Cap - len

Visible == {buf[i] : i \in 0 .. len - 1}

WriterPC == {"idle", "lock1", "check", "unlock1", "signal1", "empty", "lock2",
             "fit", "copy", "grow", "unlock2", "signal2", "dead"}
ReaderPC == {"idle", "wait", "lock", "read", "reset", "unlock", "signal",
             "return", "dead"}

Alive(t) == pc[t] # "dead"

(* The steps at which a thread uses the map and believes that it owns the  *)
(* mutex.                                                                  *)
Critical(t) == \/ t \in Writers /\ pc[t] \in {"check", "unlock1", "fit", "copy",
                                              "grow", "unlock2"}
               \/ t \in Readers /\ pc[t] \in {"read", "reset", "unlock"}

Init ==
  /\ mutex = Free /\ evData = FALSE /\ evEmpty = FALSE
  /\ len = 0 /\ buf = [i \in 0 .. Cap - 1 |-> NoByte]
  /\ pc = [t \in Threads |-> "idle"]
  /\ left = [w \in Writers |-> 0] /\ sent = [w \in Writers |-> 0]
  /\ hand = [r \in Readers |-> {}] /\ got = [r \in Readers |-> {}]

Goto(t, from, to) == pc[t] = from /\ pc' = [pc EXCEPT ![t] = to]

-----------------------------------------------------------------------------
(* GetMyMutex waits ten seconds and treats every outcome but WAIT_FAILED   *)
(* as success: owning the mutex, inheriting it from a dead owner and       *)
(* giving up on a live one.  WAIT_FAILED, an exception before anything was *)
(* done, needs a handle that is not valid, and hMutex is never closed.     *)

MutexAvailable == mutex \in {Free, Abandoned}

GetMyMutex(t) ==
  \/ MutexAvailable /\ mutex' = t
  \/ HolderMayStall /\ mutex \in Threads \ {t} /\ UNCHANGED mutex

(* ReleaseMutex fails when the caller is not the owner.                    *)
ReleaseMyMutex(t) == mutex' = IF mutex = t THEN Free ELSE mutex

-----------------------------------------------------------------------------
(* Writers: PyTraceObject::WriteData.                                      *)

Write(w) ==
  /\ Goto(w, "idle", "lock1")
  /\ \E n \in MsgLens : sent[w] + n <= MaxBytes /\ left' = [left EXCEPT ![w] = n]
  /\ UNCHANGED <<shared, sent, hand, got>>

WLock1(w) ==
  /\ Goto(w, "lock1", "check")
  /\ GetMyMutex(w)
  /\ UNCHANGED <<evData, evEmpty, len, buf, left, sent, hand, got>>

(* "If less than double we need left, wait for it to empty, or .1 sec."    *)
WCheck(w) ==
  /\ IF SizeLeft < Chunk(w) * 2 THEN Goto(w, "check", "unlock1")
                                ELSE Goto(w, "check", "fit")
  /\ UNCHANGED <<shared, left, sent, hand, got>>

WUnlock1(w) ==
  /\ Goto(w, "unlock1", "signal1")
  /\ ReleaseMyMutex(w)
  /\ UNCHANGED <<evData, evEmpty, len, buf, left, sent, hand, got>>

WSignal1(w) ==
  /\ Goto(w, "signal1", "empty")
  /\ evData' = TRUE
  /\ UNCHANGED <<mutex, evEmpty, len, buf, left, sent, hand, got>>

(* The wait for hEventEmpty ends when it is signalled, which resets it, or *)
(* after a tenth of a second, whatever happened.                           *)
WEmpty(w) ==
  /\ Goto(w, "empty", "lock2")
  /\ evEmpty' \in {evEmpty, FALSE}
  /\ UNCHANGED <<mutex, evData, len, buf, left, sent, hand, got>>

MutNoRelock(w) ==
  /\ Goto(w, "lock2", "fit")
  /\ UNCHANGED <<shared, left, sent, hand, got>>
MutRetryRoom(w) ==
  /\ Goto(w, "lock2", "check")
  /\ GetMyMutex(w)
  /\ UNCHANGED <<evData, evEmpty, len, buf, left, sent, hand, got>>
WLock2(w) ==
  /\ Goto(w, "lock2", "fit")
  /\ GetMyMutex(w)
  /\ UNCHANGED <<evData, evEmpty, len, buf, left, sent, hand, got>>

(* When the chunk still does not fit, everything unread is discarded.      *)
MutNoDiscard(w) ==
  /\ Goto(w, "fit", "copy")
  /\ UNCHANGED <<shared, left, sent, hand, got>>
MutFitDouble(w) ==
  /\ Goto(w, "fit", "copy")
  /\ len' = IF SizeLeft < Chunk(w) * 2 THEN 0 ELSE len
  /\ UNCHANGED <<mutex, evData, evEmpty, buf, left, sent, hand, got>>
WFit(w) ==
  /\ Goto(w, "fit", "copy")
  /\ len' = IF SizeLeft < Chunk(w) THEN 0 ELSE len
  /\ UNCHANGED <<mutex, evData, evEmpty, buf, left, sent, hand, got>>

WCopy(w) ==
  /\ Goto(w, "copy", "grow")
  /\ buf' = [i \in 0 .. Cap - 1 |->
               IF i \in len .. len + Chunk(w) - 1 THEN ByteAt(w, i - len + 1)
                                                  ELSE buf[i]]
  /\ UNCHANGED <<mutex, evData, evEmpty, len, left, sent, hand, got>>

WGrow(w) ==
  /\ Goto(w, "grow", "unlock2")
  /\ len' = len + Chunk(w)
  /\ UNCHANGED <<mutex, evData, evEmpty, buf, left, sent, hand, got>>

WUnlock2(w) ==
  /\ Goto(w, "unlock2", "signal2")
  /\ ReleaseMyMutex(w)
  /\ UNCHANGED <<evData, evEmpty, len, buf, left, sent, hand, got>>

MutOverrun(w) ==
  /\ Goto(w, "signal2", "lock1")
  /\ evData' = TRUE
  /\ sent' = [sent EXCEPT ![w] = @ + Half]
  /\ left' = [left EXCEPT ![w] = @ - Half]
  /\ UNCHANGED <<mutex, evEmpty, len, buf, hand, got>>
MutKeepData(w) ==
  /\ IF left[w] > Chunk(w) THEN Goto(w, "signal2", "lock1")
                           ELSE Goto(w, "signal2", "idle")
  /\ evData' = TRUE
  /\ left' = [left EXCEPT ![w] = @ - Chunk(w)]
  /\ UNCHANGED <<mutex, evEmpty, len, buf, sent, hand, got>>
(* SetEvent(hEvent), then on to the next chunk or back to the caller.      *)
MutNoSignal(w) ==
  /\ IF left[w] > Chunk(w) THEN Goto(w, "signal2", "lock1")
                           ELSE Goto(w, "signal2", "idle")
  /\ sent' = [sent EXCEPT ![w] = @ + Chunk(w)]
  /\ left' = [left EXCEPT ![w] = @ - Chunk(w)]
  /\ UNCHANGED <<mutex, evData, evEmpty, len, buf, hand, got>>
WSignal2(w) ==
  /\ IF left[w] > Chunk(w) THEN Goto(w, "signal2", "lock1")
                           ELSE Goto(w, "signal2", "idle")
  /\ evData' = TRUE
  /\ sent' = [sent EXCEPT ![w] = @ + Chunk(w)]
  /\ left' = [left EXCEPT ![w] = @ - Chunk(w)]
  /\ UNCHANGED <<mutex, evEmpty, len, buf, hand, got>>

-----------------------------------------------------------------------------
(* Readers: PyTraceObject::ReadData.                                       *)

(* read() does not wait.                                                   *)
Read(r) ==
  /\ Goto(r, "idle", "lock")
  /\ UNCHANGED <<shared, left, sent, hand, got>>

BlockingRead(r) ==
  /\ Goto(r, "idle", "wait")
  /\ UNCHANGED <<shared, left, sent, hand, got>>

(* The wait for hEvent succeeds, which resets the event ...                *)
RWake(r) ==
  /\ evData
  /\ Goto(r, "wait", "lock")
  /\ evData' = FALSE
  /\ UNCHANGED <<mutex, evEmpty, len, buf, left, sent, hand, got>>

(* ... or a finite wait times out, and the buffer is read all the same.    *)
RTimeout(r) ==
  /\ Goto(r, "wait", "lock")
  /\ UNCHANGED <<shared, left, sent, hand, got>>

RLock(r) ==
  /\ Goto(r, "lock", "read")
  /\ GetMyMutex(r)
  /\ UNCHANGED <<evData, evEmpty, len, buf, left, sent, hand, got>>

(* malloc and memcpy.  When malloc fails the buffer is left as it is.      *)
RCopy(r) ==
  /\ \/ Goto(r, "read", "reset") /\ hand' = [hand EXCEPT ![r] = Visible]
     \/ MallocMayFail /\ Goto(r, "read", "unlock") /\ UNCHANGED hand
  /\ UNCHANGED <<shared, left, sent, got>>

MutNoReset(r) ==
  /\ Goto(r, "reset", "unlock")
  /\ UNCHANGED <<shared, left, sent, hand, got>>
RReset(r) ==
  /\ Goto(r, "reset", "unlock")
  /\ len' = 0
  /\ UNCHANGED <<mutex, evData, evEmpty, buf, left, sent, hand, got>>

(* If the mutex cannot be released the result is freed, not returned.      *)
RUnlock(r) ==
  /\ Goto(r, "unlock", "signal")
  /\ ReleaseMyMutex(r)
  /\ hand' = [hand EXCEPT ![r] = IF mutex = r THEN @ ELSE {}]
  /\ UNCHANGED <<evData, evEmpty, len, buf, left, sent, got>>

RSignal(r) ==
  /\ Goto(r, "signal", "return")
  /\ evEmpty' = TRUE
  /\ UNCHANGED <<mutex, evData, len, buf, left, sent, hand, got>>

RReturn(r) ==
  /\ Goto(r, "return", "idle")
  /\ got' = [got EXCEPT ![r] = @ \cup hand[r]]
  /\ hand' = [hand EXCEPT ![r] = {}]
  /\ UNCHANGED <<shared, left, sent>>

-----------------------------------------------------------------------------
(* A process is killed.  The system marks a mutex that it owned as         *)
(* abandoned; what it copied out is lost with it.                          *)
Crash(t) ==
  /\ t \in Mortal /\ Alive(t)
  /\ pc' = [pc EXCEPT ![t] = "dead"]
  /\ mutex' = IF mutex = t THEN Abandoned ELSE mutex
  /\ hand' = [r \in Readers |-> IF r = t THEN {} ELSE hand[r]]
  /\ UNCHANGED <<evData, evEmpty, len, buf, left, sent, got>>

WriterStep(w) ==
  \/ WLock1(w) \/ WCheck(w) \/ WUnlock1(w) \/ WSignal1(w) \/ WEmpty(w)
  \/ WLock2(w) \/ WFit(w) \/ WCopy(w) \/ WGrow(w) \/ WUnlock2(w) \/ WSignal2(w)

ReaderStep(r) ==
  \/ RWake(r) \/ RLock(r) \/ RCopy(r) \/ RReset(r) \/ RUnlock(r) \/ RSignal(r)
  \/ RReturn(r)

Next ==
  \/ \E w \in Writers : Write(w) \/ WriterStep(w)
  \/ \E r \in Readers : Read(r) \/ BlockingRead(r) \/ RTimeout(r) \/ ReaderStep(r)
  \/ \E t \in Threads : Crash(t)

Spec == Init /\ [][Next]_vars

-----------------------------------------------------------------------------
TypeOK ==
  /\ mutex \in Threads \cup {Free, Abandoned}
  /\ evData \in BOOLEAN /\ evEmpty \in BOOLEAN
  /\ len \in Nat
  /\ buf \in [0 .. Cap - 1 -> Byte \cup {NoByte}]
  /\ pc \in [Threads -> WriterPC \cup ReaderPC]
  /\ \A w \in Writers : pc[w] \in WriterPC
  /\ \A r \in Readers : pc[r] \in ReaderPC
  /\ left \in [Writers -> Nat] /\ sent \in [Writers -> Nat]
  /\ hand \in [Readers -> SUBSET (Byte \cup {NoByte})]
  /\ got \in [Readers -> SUBSET (Byte \cup {NoByte})]
(* One thread at a time uses the map ("A single mutex protects the entire  *)
(* structure", win32trace.cpp:19), whoever is killed and wherever.         *)
MutualExclusion ==
  \A s, t \in Threads : Critical(s) /\ Critical(t) => s = t

(* memcpy stays inside the map although the room was computed before the   *)
(* mutex was released and other writers may have appended meanwhile.       *)
InBounds ==
  /\ len <= Cap
  /\ \A w \in Writers : pc[w] \in {"copy", "grow"} => len + Chunk(w) <= Cap

(* What a reader can see is a sequence of whole chunks: no interleaving of *)
(* two writers, no half of a chunk left by a writer that was killed.       *)
WholeChunks ==
  \A i \in 0 .. len - 1 :
    /\ buf[i] \in Byte
    /\ ~ buf[i][3] => /\ i + 1 < len
                      /\ buf[i + 1][1] = buf[i][1]
                      /\ buf[i + 1][2] = buf[i][2] + 1

(* The bytes that a reader has taken out of the map for good.              *)
Taken(r) == IF pc[r] = "reset" THEN got[r] ELSE got[r] \cup hand[r]

Before(a, b) == a[1] = b[1] => a[2] < b[2]

(* The text of each writer is read in the order it was written: within the *)
(* buffer, from one read to the next, and from what any reader has taken   *)
(* to what is still to be read.                                            *)
Ordered ==
  /\ \A i, j \in 0 .. len - 1 : i < j => Before(buf[i], buf[j])
  /\ \A r \in Readers : \A b \in got[r], c \in hand[r] : Before(b, c)
  /\ \A r \in Readers : \A b \in Taken(r), c \in Visible : Before(b, c)

(* No byte is given to two readers (win32trace.cpp:9-10: with several      *)
(* readers "only one of the processes" sees a given piece of text).        *)
ReadOnce ==
  \A r, s \in Readers : r # s => Taken(r) \cap Taken(s) = {}

(* All that a writer has finished writing is in the buffer, with a reader, *)
(* or was discarded to make room.  As long as all that was ever passed to  *)
(* write fits into the map nothing need be discarded, and while nobody     *)
(* dies nothing is lost.                                                   *)
Stored(w) == {b[2] : b \in {c \in Visible \cup UNION {Taken(r) : r \in Readers} :
                              c[1] = w}}
Passed == {p \in Writers \X (1 .. MaxBytes) : p[2] <= sent[p[1]] + left[p[1]]}
EverythingFits == Cardinality(Passed) <= Cap
NothingLost ==
  EverythingFits /\ (\A t \in Threads : Alive(t))
    => \A w \in Writers : 1 .. sent[w] \subseteq Stored(w)

-----------------------------------------------------------------------------
(* The kernel schedules every thread that can run and hands a mutex to its *)
(* waiters in the order they came (hence SF: a reader that polls cannot    *)
(* shut a writer out).  A caller that never writes again is no defect; a   *)
(* collector calls blockingread again as soon as it has returned           *)
(* (win32traceutil.py, RunAsCollector).  That a wait of blockingread       *)
(* reaches its limit is not assumed: what is read is read because of the   *)
(* signals.                                                                *)
Fairness ==
  /\ \A w \in Writers : /\ WF_vars(WriterStep(w))
                         /\ SF_vars(WLock1(w)) /\ SF_vars(WLock2(w))
  /\ \A r \in Readers : /\ WF_vars(ReaderStep(r)) /\ WF_vars(BlockingRead(r))
                         /\ SF_vars(RLock(r))

FairSpec == Spec /\ Fairness

(* Whatever is in the buffer is eventually taken out of it and the reader  *)
(* has returned it; only a writer that is killed between appending and     *)
(* signalling, or a reader that is killed after it took the signal, can    *)
(* leave text behind.                                                      *)
Drained == len = 0 /\ \A r \in Readers : hand[r] = {}
EventuallyRead == []<> Drained \/ <> (\E t \in Threads : ~ Alive(t))

(* A call of write comes back to its caller although readers may be gone   *)
(* and the buffer full.                                                    *)
WriteReturns ==
  \A w \in Writers : (pc[w] = "lock1") ~> (pc[w] \in {"idle", "dead"})

-----------------------------------------------------------------------------
(* The log that the comment at the head of win32trace.cpp describes.  What *)
(* a reader has copied but not yet removed from the map is still in it.    *)
Log == INSTANCE TraceLog WITH
  Capacity  <- Cap,
  MaxChunk  <- Half,
  Positions <- 0 .. MaxBytes,
  log       <- [i \in 1 .. len |-> buf[i - 1]],
  held      <- [r \in Readers |-> IF pc[r] = "reset" THEN {} ELSE hand[r]],
  out       <- got

(* The map, the mutex, the events and the processes that die implement     *)
(* that log.                                                               *)
ImplementsLog == Log!Spec
=============================================================================
