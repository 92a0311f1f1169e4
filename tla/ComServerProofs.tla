---------------------------- MODULE ComServerProofs ----------------------------
(* A server of ComServer is not told to quit before it has served, nor     *)
(* while anybody uses it, for any number of clients and of uses of COM by  *)
(* its other threads.                                                      *)
EXTENDS ComServer, SequenceTheorems, FiniteSetTheorems, TLAPS

Reached(c) == objectOf[c] \notin {"none", "asked"}

(* The messages that may be in the queue: who calls Release has had an     *)
(* object, who unlocks had locked, and a WM_QUIT means that the server has *)
(* served.                                                                 *)
Message ==
  {m \in {Quit} : Started}
    \cup {Call(what, c) : what \in {"CreateInstance", "Lock"}, c \in Clients}
    \cup {Call("Release", c) : c \in {d \in Clients : Reached(d)}}
    \cup {Call("Unlock", c) : c \in {d \in Clients : lockOf[d] = "unlocked"}}

Frame == [client : Clients, step : Steps]

(* The thread to notify is set when the factories have been made, and from *)
(* then on only what follows an activation or an unlock counts down.       *)
QuitMeansStarted ==
  /\ queue \in Seq(Message) /\ creating \in Seq(Frame)
  /\ objectOf \in [Clients -> ObjectStates] /\ lockOf \in [Clients -> LockStates]
  /\ pc \in {"register", "made", "registered"} => ~quitThread
  /\ posting # {} => Started

-----------------------------------------------------------------------------
(* RemoveAt takes a sequence to a sequence over the same elements.         *)
LEMMA RemoveAtType ==
  ASSUME NEW S, NEW q \in Seq(S), NEW n \in DOMAIN q
  PROVE  RemoveAt(q, n) \in Seq(S)
<1>1. n \in 1 .. Len(q) /\ Len(q) \in Nat
  OBVIOUS
<1>2. SubSeq(q, 1, n - 1) \in Seq(S) /\ SubSeq(q, n + 1, Len(q)) \in Seq(S)
  BY <1>1
<1> QED BY <1>2 DEF RemoveAt

(* Nobody goes back: what the senders of messages have reached they keep.  *)
Advances ==
  /\ \A c \in Clients : /\ Reached(c) => Reached(c)'
                        /\ lockOf[c] = "unlocked" => lockOf'[c] = "unlocked"
  /\ Started => Started'

(* Then a message keeps its meaning, and a queue from which one was taken  *)
(* is one of such messages.                                                *)
LEMMA MessagesStay ==
  ASSUME Advances, queue \in Seq(Message)
  PROVE  /\ Message \subseteq Message' /\ queue \in Seq(Message')
         /\ NextCall \in DOMAIN queue => Rest \in Seq(Message')
         /\ queue # <<>> => Tail(queue) \in Seq(Message')
         /\ \A m \in Message' : Append(queue, m) \in Seq(Message')
<1>1. Message \subseteq Message'
  BY DEF Advances, Message
<1>2. queue \in Seq(Message')
  BY <1>1
<1> QED BY <1>1, <1>2, RemoveAtType DEF Rest

-----------------------------------------------------------------------------
LEMMA QuitMeansStartedInit == ASSUME Init PROVE QuitMeansStarted
BY DEF Init, QuitMeansStarted, ObjectStates, LockStates

(* One step per action; most of them take or add a message at most.        *)
LEMMA QuitMeansStartedStep ==
  ASSUME QuitMeansStarted, [Next]_vars PROVE QuitMeansStarted'
<1> USE DEF clientVars, serverVars, threadVars, counter, held, AddRef, ReleaseRef,
      ObjectStates, LockStates, Steps
<1>1. CASE UNCHANGED vars
  BY <1>1 DEF vars, QuitMeansStarted, Message, Started, Served, Reached
<1>2. CASE MakeFactory
  <2>1. Advances /\ UNCHANGED <<queue, creating, objectOf, lockOf, posting, quitThread>>
    BY <1>2 DEF MakeFactory, Advances, Started, Served, Reached, QuitMeansStarted
  <2> QED BY <2>1, MessagesStay, <1>2 DEF QuitMeansStarted, MakeFactory, Advances
<1>3. CASE EnableAndResume
  <2>1. Advances
    BY <1>3 DEF EnableAndResume, Advances, Started, Served, Reached
  <2> QED BY <2>1, MessagesStay, <1>3 DEF QuitMeansStarted, EnableAndResume, Advances
<1>4. CASE GetQuit \/ Revoke
  <2>1. Advances
    BY <1>4 DEF GetQuit, Revoke, Advances, Started, Served, Reached
  <2> QED BY <2>1, MessagesStay, <1>4 DEF QuitMeansStarted, GetQuit, Revoke, Advances
<1>5. CASE Exit
  <2>1. /\ objectOf' \in [Clients -> ObjectStates]
        /\ \A c \in Clients : Reached(c) => Reached(c)'
    BY <1>5 DEF Exit, Reached, QuitMeansStarted
  <2>2. Advances
    BY <2>1, <1>5 DEF Exit, Advances, Started, Served, Reached
  <2> QED BY <2>1, <2>2, MessagesStay, <1>5 DEF QuitMeansStarted, Exit, Advances
<1>6. ASSUME NEW c \in Clients, Ask(c) \/ Drop(c) \/ AskLock(c) PROVE QuitMeansStarted'
  <2>1. /\ objectOf' \in [Clients -> ObjectStates] /\ lockOf' \in [Clients -> LockStates]
        /\ Advances
    BY <1>6 DEF Ask, Drop, AskLock, Advances, Started, Served, Reached, QuitMeansStarted
  <2>2. PICK m \in Message' : queue' = Append(queue, m)
    BY <1>6 DEF Ask, Drop, AskLock, Message, Reached, QuitMeansStarted
  <2> QED
    BY <2>1, <2>2, MessagesStay, <1>6
    DEF QuitMeansStarted, Ask, Drop, AskLock, Advances
<1>7. ASSUME NEW c \in Clients, BeginCreate(c) PROVE QuitMeansStarted'
  <2>1. creating' \in Seq(Frame) /\ creating' # <<>>
    BY <1>7 DEF BeginCreate, Frame, QuitMeansStarted
  <2>2. Advances
    BY <2>1, <1>7 DEF BeginCreate, Advances, Started, Served, Reached
  <2> QED
    BY <2>1, <2>2, MessagesStay, <1>7
    DEF QuitMeansStarted, BeginCreate, Takes, Advances, Started, Served
<1>8. ASSUME NEW c \in Clients, Construct(c) \/ Wrap(c) \/ Unwrap(c) PROVE QuitMeansStarted'
  <2>1. creating # <<>> /\ \E step \in Steps : SetStep(c, step)
    BY <1>8 DEF Construct, Wrap, Unwrap, At
  <2>2. creating' \in Seq(Frame) /\ creating' # <<>>
    BY <2>1 DEF SetStep, Frame, QuitMeansStarted
  <2>3. UNCHANGED <<queue, objectOf, lockOf, quitThread, pc>>
    BY <1>8 DEF Construct, Wrap, Unwrap
  <2>4. Advances /\ Started'
    BY <2>2, <2>3 DEF Advances, Started, Served, Reached
  <2> QED BY <2>2, <2>3, <2>4, MessagesStay DEF QuitMeansStarted
<1>9. ASSUME NEW c \in Clients, EndCreate(c) PROVE QuitMeansStarted'
  <2>1. /\ creating # <<>> /\ creating' = Tail(creating)
        /\ UNCHANGED <<queue, lockOf, quitThread, pc>>
        /\ \E what \in {"has", "failed"} : objectOf' = [objectOf EXCEPT ![c] = what]
    BY <1>9 DEF EndCreate, At
  <2>2. /\ creating' \in Seq(Frame) /\ objectOf' \in [Clients -> ObjectStates]
        /\ Reached(c)' /\ \A d \in Clients : Reached(d) => Reached(d)'
    BY <2>1 DEF QuitMeansStarted, Reached
  <2>3. Advances /\ Started'
    BY <2>1, <2>2 DEF Advances, Started, Served, Reached
  <2> QED BY <2>1, <2>2, <2>3, MessagesStay DEF QuitMeansStarted
<1>10. ASSUME NEW c \in Clients, Release(c) \/ LockServer(c) PROVE QuitMeansStarted'
  <2>1. /\ UNCHANGED <<creating, objectOf, lockOf, quitThread, pc>>
        /\ NextCall \in DOMAIN queue /\ queue' = Rest
    BY <1>10 DEF Release, LockServer, Takes
  <2>2. Advances
    BY <2>1 DEF Advances, Started, Served, Reached
  <2>3. posting' # posting => Started
    <3>1. CASE Takes("Release", c) \/ Takes("Unlock", c)
      <4>1. queue[NextCall] \in Message
        BY <2>1 DEF QuitMeansStarted
      <4>2. queue[NextCall] = Call("Release", c) \/ queue[NextCall] = Call("Unlock", c)
        BY <3>1 DEF Takes
      <4> QED BY <4>1, <4>2 DEF Message, Call, Quit, Started, Served, Reached
    <3> QED BY <3>1, <1>10 DEF Release, LockServer
  <2> QED BY <2>1, <2>2, <2>3, MessagesStay DEF QuitMeansStarted, Advances
<1>11. CASE OtherThread
  <2>1. Started /\ UNCHANGED <<queue, creating, objectOf, lockOf, quitThread, pc>>
    BY <1>11 DEF OtherThread, Started
  <2>2. Advances
    BY <2>1 DEF Advances, Started, Served, Reached
  <2> QED BY <2>1, <2>2, MessagesStay DEF QuitMeansStarted, Advances
<1>12. ASSUME NEW t, PostQuit(t) PROVE QuitMeansStarted'
  <2>1. Started /\ UNCHANGED <<creating, objectOf, lockOf, quitThread, pc>>
    BY <1>12 DEF PostQuit, QuitMeansStarted
  <2>2. Advances /\ Started'
    BY <2>1 DEF Advances, Started, Served, Reached
  <2>3. Quit \in Message' /\ queue' = Append(queue, Quit)
    BY <1>12, <2>2 DEF PostQuit, Message
  <2> QED BY <2>1, <2>2, <2>3, MessagesStay DEF QuitMeansStarted
<1> QED
  BY <1>1, <1>2, <1>3, <1>4, <1>5, <1>6, <1>7, <1>8, <1>9, <1>10, <1>11, <1>12
  DEF Next, Main, Serve, MainThread, Client

-----------------------------------------------------------------------------
(* localserver.py: the pump is not left before a client has had the server *)
(* create an object or has locked and unlocked it.                         *)
THEOREM ServesFirst == Spec => NotBeforeServed
<1>1. Init => QuitMeansStarted
  BY QuitMeansStartedInit
<1>2. QuitMeansStarted /\ [Next]_vars => QuitMeansStarted'
  BY QuitMeansStartedStep
<1>3. QuitMeansStarted /\ [Next]_vars => [pc = "pump" /\ pc' = "revoke" => Started]_vars
  <2> SUFFICES ASSUME QuitMeansStarted, Next, pc = "pump", pc' = "revoke" PROVE Started
    BY DEF vars
  <2>1. GetQuit
    BY DEF Next, Main, Serve, MainThread, Client, MakeFactory, EnableAndResume, Revoke, Exit,
           Ask, Drop, AskLock, BeginCreate, Construct, Wrap, Unwrap, EndCreate, Release,
           LockServer, OtherThread, PostQuit, serverVars
  <2>2. Head(queue) = Quit /\ Head(queue) \in Message
    BY <2>1 DEF GetQuit, QuitMeansStarted
  <2> QED BY <2>2 DEF Message, Call, Quit
<1> QED BY <1>1, <1>2, <1>3, PTL DEF Spec, NotBeforeServed

-----------------------------------------------------------------------------
(* A queue or a stack holds m somewhere.                                   *)
Has(q, m) == \E i \in DOMAIN q : q[i] = m

(* Two messages, or two calls on the stack, of one client.                 *)
SameClient(m, n) == m # Quit /\ n # Quit /\ m.client = n.client

(* A client has at most one of them at a time.                             *)
Distinct(q) == \A i, j \in DOMAIN q : SameClient(q[i], q[j]) => i = j

(* What a queue holds when something is appended to it ...                *)
LEMMA AppendHas ==
  ASSUME NEW S, NEW q \in Seq(S), NEW e
  PROVE  /\ \A m : Has(Append(q, e), m) <=> Has(q, m) \/ m = e
         /\ Distinct(q) /\ (\A i \in DOMAIN q : ~SameClient(q[i], e)) => Distinct(Append(q, e))
<1>1. /\ Len(q) \in Nat /\ DOMAIN q = 1 .. Len(q)
      /\ DOMAIN Append(q, e) = 1 .. Len(q) + 1
      /\ \A i \in 1 .. Len(q) + 1 : Append(q, e)[i] = IF i <= Len(q) THEN q[i] ELSE e
  OBVIOUS
<1>2. ASSUME Distinct(q), \A i \in DOMAIN q : ~SameClient(q[i], e),
             NEW i \in DOMAIN Append(q, e), NEW j \in DOMAIN Append(q, e),
             SameClient(Append(q, e)[i], Append(q, e)[j])
      PROVE  i = j
  BY <1>1, <1>2 DEF Distinct, SameClient
<1>3. ASSUME NEW m PROVE Has(Append(q, e), m) <=> Has(q, m) \/ m = e
  BY <1>1 DEF Has
<1> QED BY <1>2, <1>3 DEF Distinct

(* ... a stack when something is put on top of it ...                      *)
LEMMA PushHas ==
  ASSUME NEW S, NEW q \in Seq(S), NEW e \in S
  PROVE  /\ \A m : Has(<<e>> \o q, m) <=> Has(q, m) \/ m = e
         /\ Distinct(q) /\ (\A i \in DOMAIN q : ~SameClient(q[i], e)) => Distinct(<<e>> \o q)
<1> DEFINE p == <<e>> \o q
<1>1. /\ Len(q) \in Nat /\ DOMAIN q = 1 .. Len(q) /\ DOMAIN p = 1 .. Len(q) + 1
      /\ p[1] = e /\ \A i \in 1 .. Len(q) : p[i + 1] = q[i]
  <2>1. <<e>> \in Seq(S) /\ Len(<<e>>) = 1 /\ <<e>>[1] = e
    OBVIOUS
  <2>2. /\ p \in Seq(S) /\ Len(p) = 1 + Len(q)
        /\ \A i \in 1 .. 1 + Len(q) : p[i] = IF i <= 1 THEN <<e>>[i] ELSE q[i - 1]
    BY <2>1, ConcatProperties
  <2>3. /\ Len(q) \in Nat /\ DOMAIN q = 1 .. Len(q) /\ DOMAIN p = 1 .. Len(p)
    BY <2>2
  <2> HIDE DEF p
  <2> QED BY <2>1, <2>2, <2>3
<1> HIDE DEF p
<1>2. ASSUME Distinct(q), \A i \in DOMAIN q : ~SameClient(q[i], e),
             NEW i \in DOMAIN p, NEW j \in DOMAIN p, SameClient(p[i], p[j])
      PROVE  i = j
  <2>1. i = 1 \/ (i - 1 \in DOMAIN q /\ p[i] = q[i - 1])
    <3>1. i = 1 \/ (i - 1 \in 1 .. Len(q) /\ (i - 1) + 1 = i)
      BY <1>1
    <3> QED BY <3>1, <1>1
  <2>2. j = 1 \/ (j - 1 \in DOMAIN q /\ p[j] = q[j - 1])
    <3>1. j = 1 \/ (j - 1 \in 1 .. Len(q) /\ (j - 1) + 1 = j)
      BY <1>1
    <3> QED BY <3>1, <1>1
  <2>3. i # 1 /\ j # 1 => i - 1 = j - 1
    BY <2>1, <2>2, <1>2 DEF Distinct
  <2>4. i = 1 <=> j = 1
    BY <2>1, <2>2, <1>1, <1>2 DEF SameClient
  <2> QED BY <2>3, <2>4, <1>1
<1>3. ASSUME NEW m PROVE Has(p, m) <=> Has(q, m) \/ m = e
  <2>1. ASSUME NEW i \in DOMAIN p, p[i] = m PROVE Has(q, m) \/ m = e
    <3>1. i = 1 \/ (i - 1 \in 1 .. Len(q) /\ (i - 1) + 1 = i)
      BY <1>1
    <3> QED BY <3>1, <1>1, <2>1 DEF Has
  <2> QED BY <2>1, <1>1 DEF Has
<1> QED BY <1>2, <1>3 DEF Distinct, p

(* ... and either when an element is taken out.                            *)
LEMMA RemoveHas ==
  ASSUME NEW S, NEW q \in Seq(S), NEW n \in DOMAIN q
  PROVE  /\ \A m : m # q[n] => (Has(RemoveAt(q, n), m) <=> Has(q, m))
         /\ Distinct(q) => /\ Distinct(RemoveAt(q, n))
                           /\ \A m : SameClient(q[n], m) => ~Has(RemoveAt(q, n), m)
<1> DEFINE p == RemoveAt(q, n)
<1>1. /\ Len(q) \in Nat /\ DOMAIN q = 1 .. Len(q) /\ n \in 1 .. Len(q)
      /\ DOMAIN p = 1 .. Len(q) - 1
      /\ \A i \in 1 .. Len(q) - 1 : p[i] = IF i < n THEN q[i] ELSE q[i + 1]
  <2>1. /\ Len(q) \in Nat /\ DOMAIN q = 1 .. Len(q) /\ n \in 1 .. Len(q)
    OBVIOUS
  <2>2. /\ SubSeq(q, 1, n - 1) \in Seq(S) /\ Len(SubSeq(q, 1, n - 1)) = n - 1
        /\ \A i \in 1 .. n - 1 : SubSeq(q, 1, n - 1)[i] = q[i]
    BY <2>1
  <2>3. /\ SubSeq(q, n + 1, Len(q)) \in Seq(S) /\ Len(SubSeq(q, n + 1, Len(q))) = Len(q) - n
        /\ \A i \in 1 .. Len(q) - n : SubSeq(q, n + 1, Len(q))[i] = q[n + i]
    BY <2>1
  <2>4. /\ p \in Seq(S) /\ Len(p) = (n - 1) + (Len(q) - n)
        /\ \A i \in 1 .. (n - 1) + (Len(q) - n) :
             p[i] = IF i <= n - 1 THEN SubSeq(q, 1, n - 1)[i]
                    ELSE SubSeq(q, n + 1, Len(q))[i - (n - 1)]
    <3> DEFINE a == SubSeq(q, 1, n - 1)
               b == SubSeq(q, n + 1, Len(q))
    <3>1. p = a \o b
      BY DEF RemoveAt
    <3>2. a \in Seq(S) /\ b \in Seq(S) /\ Len(a) = n - 1 /\ Len(b) = Len(q) - n
      BY <2>2, <2>3
    <3> HIDE DEF a, b, p
    <3>3. /\ a \o b \in Seq(S) /\ Len(a \o b) = Len(a) + Len(b)
          /\ \A i \in 1 .. Len(a) + Len(b) :
               (a \o b)[i] = IF i <= Len(a) THEN a[i] ELSE b[i - Len(a)]
      BY <3>2, ConcatProperties
    <3>4. /\ p \in Seq(S) /\ Len(p) = (n - 1) + (Len(q) - n)
          /\ \A i \in 1 .. (n - 1) + (Len(q) - n) :
               p[i] = IF i <= n - 1 THEN a[i] ELSE b[i - (n - 1)]
      BY <3>1, <3>2, <3>3
    <3> QED BY <3>4 DEF a, b
  <2>5. DOMAIN p = 1 .. Len(q) - 1
    BY <2>1, <2>4
  <2>6. ASSUME NEW i \in 1 .. Len(q) - 1 PROVE p[i] = IF i < n THEN q[i] ELSE q[i + 1]
    <3> HIDE DEF p
    <3>1. CASE i < n
      BY <3>1, <2>1, <2>2, <2>4
    <3>2. CASE ~(i < n)
      <4>1. i - (n - 1) \in 1 .. Len(q) - n /\ n + (i - (n - 1)) = i + 1 /\ ~(i <= n - 1)
        BY <3>2, <2>1
      <4>2. p[i] = SubSeq(q, n + 1, Len(q))[i - (n - 1)]
        BY <4>1, <2>1, <2>4
      <4>3. SubSeq(q, n + 1, Len(q))[i - (n - 1)] = q[n + (i - (n - 1))]
        BY <4>1, <2>3
      <4> QED BY <4>1, <4>2, <4>3, <3>2
    <3> QED BY <3>1, <3>2
  <2> HIDE DEF p
  <2> QED BY <2>1, <2>5, <2>6
<1> HIDE DEF p
<1>2. ASSUME NEW m, m # q[n] PROVE Has(p, m) <=> Has(q, m)
  <2>1. ASSUME NEW i \in 1 .. Len(q) - 1, p[i] = m PROVE Has(q, m)
    BY <1>1, <2>1 DEF Has
  <2>2. ASSUME NEW i \in 1 .. Len(q), q[i] = m PROVE Has(p, m)
    <3>1. CASE i < n
      BY <3>1, <2>2, <1>1 DEF Has
    <3>2. CASE i > n
      <4>1. i - 1 \in 1 .. Len(q) - 1 /\ ~(i - 1 < n) /\ (i - 1) + 1 = i
        BY <3>2, <1>1
      <4> QED BY <4>1, <2>2, <1>1 DEF Has
    <3> QED BY <3>1, <3>2, <2>2, <1>2, <1>1
  <2> QED BY <2>1, <2>2, <1>1 DEF Has
<1>3. ASSUME Distinct(q), NEW i \in DOMAIN p, NEW j \in DOMAIN p, SameClient(p[i], p[j])
      PROVE  i = j
  BY <1>1, <1>3 DEF Distinct
<1>4. ASSUME Distinct(q), NEW m, SameClient(q[n], m), NEW i \in DOMAIN p, p[i] = m
      PROVE  FALSE
  BY <1>1, <1>4 DEF Distinct
<1> QED BY <1>2, <1>3, <1>4 DEF Distinct, Has, p

(* The head is such an element.                                            *)
LEMMA TailRemoves ==
  ASSUME NEW S, NEW q \in Seq(S), q # <<>>
  PROVE  Tail(q) = RemoveAt(q, 1) /\ 1 \in DOMAIN q /\ Head(q) = q[1]
<1>1. Len(q) \in Nat /\ 1 \in DOMAIN q /\ Head(q) = q[1]
  OBVIOUS
<1>2. SubSeq(q, 1, 0) = <<>> /\ SubSeq(q, 2, Len(q)) = Tail(q)
  BY <1>1
<1> QED BY <1>1, <1>2 DEF RemoveAt

-----------------------------------------------------------------------------
Kinds == {"CreateInstance", "Release", "Lock", "Unlock"}

CallOf(c, s) == [client |-> c, step |-> s]

(* Client c has sent a call that was not taken yet; CreateInstance runs    *)
(* for it and has come to step s.                                          *)
Sent(w, c) == Has(queue, Call(w, c))
In(s, c)   == Has(creating, CallOf(c, s))

(* The clients for which the artificial lock of CreateInstance is held, and *)
(* those whose call holds a second reference: an interface that the        *)
(* constructor uses, or the PyIUnknown of WrapObject.                      *)
TwoRefs  == {"calling", "wrapped", "refused"}
Creating == {c \in Clients : \E s \in Steps : In(s, c)}
Twice    == {c \in Clients : \E s \in TwoRefs : In(s, c)}

(* A client waits for the end of a call before it makes another.           *)
OneCall(c) == \A w \in Kinds, s \in Steps : Sent(w, c) => ~In(s, c)

(* What a client has asked for and been given agrees with what the server  *)
(* has of it: only who holds an object releases it, only who has locked    *)
(* the server unlocks it, and an object is there from its gateway until    *)
(* its creation fails or it is released.                                   *)
Knows(c) ==
  /\ Sent("CreateInstance", c) => c \notin objects /\ objectOf[c] \notin {"none", "has"}
  /\ Sent("Release", c) => c \in objects /\ objectOf[c] \notin {"none", "has"}
  /\ Sent("Lock", c) => c \notin locks /\ lockOf[c] = "locked"
  /\ Sent("Unlock", c) => c \in locks /\ lockOf[c] = "unlocked"
  /\ \A s \in Steps : In(s, c) =>
       /\ objectOf[c] \notin {"none", "has"}
       /\ s \in {"gateway", "wrapped", "passed"} <=> c \in objects
  /\ objectOf[c] = "none" => c \notin objects
  /\ objectOf[c] = "has" => c \in objects
  /\ lockOf[c] = "none" => c \notin locks
  /\ lockOf[c] = "locked" => c \in locks \/ Sent("Lock", c)

(* The count is the number of those that use the server: objects, locks,   *)
(* creations, their second references, the interfaces of other threads and *)
(* the factory that is being made.                                         *)
Counted ==
  count = Cardinality(objects) + Cardinality(locks) + Cardinality(Creating)
          + Cardinality(Twice) + temps + (IF pc = "made" THEN 1 ELSE 0)

Holders ==
  /\ Distinct(queue) /\ Distinct(creating)
  /\ \A c \in Clients : OneCall(c) /\ Knows(c)
  /\ temps \in Nat /\ objects \subseteq Clients /\ locks \subseteq Clients
  /\ Counted

-----------------------------------------------------------------------------
Typed == queue \in Seq(Message) /\ creating \in Seq(Frame)

(* Messages and frames are told apart by their kind and their client.      *)
LEMMA CallsApart ==
  /\ \A v, w, c, d : Call(v, c) = Call(w, d) <=> v = w /\ c = d
  /\ \A v, w, c, d : SameClient(Call(v, c), Call(w, d)) <=> c = d
  /\ \A w, c : Call(w, c) # Quit
  /\ \A s, t, c, d : CallOf(c, s) = CallOf(d, t) <=> s = t /\ c = d
  /\ \A s, t, c, d : SameClient(CallOf(c, s), CallOf(d, t)) <=> c = d
BY DEF Call, Quit, SameClient, CallOf

(* Nothing happens to what other clients than c have sent, or to the calls *)
(* that run for them.                                                      *)
OtherQueue(c) == \A d \in Clients \ {c}, v \in Kinds : Sent(v, d)' <=> Sent(v, d)
OtherCalls(c) == \A d \in Clients \ {c}, s \in Steps : In(s, d)' <=> In(s, d)

(* What the stack holds is a call of a client at a step.                   *)
LEMMA FrameIs ==
  ASSUME NEW q \in Seq(Frame), NEW i \in DOMAIN q
  PROVE  \E c \in Clients, s \in Steps : q[i] = CallOf(c, s)
<1>1. q[i] \in Frame
  OBVIOUS
<1>2. q[i].client \in Clients /\ q[i].step \in Steps /\ q[i] = CallOf(q[i].client, q[i].step)
  BY <1>1 DEF Frame, CallOf
<1> QED BY <1>2

(* The main thread takes the call of c: c has sent no other.               *)
LEMMA TakeCall ==
  ASSUME Typed, Distinct(queue), NEW c \in Clients, NEW w \in Kinds,
         Takes(w, c), queue' = Rest
  PROVE  /\ Sent(w, c) /\ \A v \in Kinds : ~Sent(v, c)' /\ (v # w => ~Sent(v, c))
         /\ OtherQueue(c) /\ Distinct(queue')
<1>1. /\ NextCall \in DOMAIN queue /\ queue[NextCall] = Call(w, c)
      /\ queue' = RemoveAt(queue, NextCall) /\ queue \in Seq(Message)
  BY DEF Takes, Rest, Typed
<1> DEFINE n == NextCall
<1> HIDE DEF n
<1>2. /\ \A m : m # queue[n] => (Has(queue', m) <=> Has(queue, m))
      /\ Distinct(queue') /\ \A m : SameClient(queue[n], m) => ~Has(queue', m)
  BY <1>1, RemoveHas DEF n
<1>3. Sent(w, c)
  BY <1>1 DEF Sent, Has
<1>4. queue[n] = Call(w, c)
  BY <1>1 DEF n
<1>5. ASSUME NEW v PROVE ~Has(queue', Call(v, c))
  <2>1. SameClient(Call(w, c), Call(v, c))
    BY CallsApart
  <2> QED BY <2>1, <1>2, <1>4
<1>6. ASSUME NEW v, NEW d, d # c PROVE Has(queue', Call(v, d)) <=> Has(queue, Call(v, d))
  <2>1. Call(v, d) # Call(w, c)
    BY <1>6, CallsApart
  <2> QED BY <2>1, <1>2, <1>4
<1>7. ASSUME NEW v, v # w PROVE ~Has(queue, Call(v, c))
  <2>1. Call(v, c) # Call(w, c)
    BY <1>7, CallsApart
  <2> QED BY <2>1, <1>2, <1>4, <1>5
<1> QED BY <1>2, <1>3, <1>5, <1>6, <1>7 DEF Sent, OtherQueue

(* A client that waits for nothing makes a call.                           *)
LEMMA SendCall ==
  ASSUME Typed, Distinct(queue), NEW c \in Clients, NEW w \in Kinds,
         ~Waiting(c), queue' = Append(queue, Call(w, c)), creating' = creating
  PROVE  /\ Sent(w, c)' /\ \A v \in Kinds : v # w => ~Sent(v, c)'
         /\ \A v \in Kinds : ~Sent(v, c)
         /\ \A s \in Steps : ~In(s, c) /\ ~In(s, c)'
         /\ OtherQueue(c) /\ OtherCalls(c) /\ Distinct(queue')
<1>1. /\ \A m : Has(queue', m) <=> Has(queue, m) \/ m = Call(w, c)
      /\ (\A i \in DOMAIN queue : ~SameClient(queue[i], Call(w, c))) => Distinct(queue')
  BY AppendHas DEF Typed
<1>2. /\ \A i \in DOMAIN queue : queue[i] = Quit \/ queue[i].client # c
      /\ \A i \in DOMAIN creating : creating[i].client # c
  BY DEF Waiting
<1>3. \A i \in DOMAIN queue : ~SameClient(queue[i], Call(w, c))
  BY <1>2 DEF SameClient, Call
<1>4. \A v \in Kinds : ~Has(queue, Call(v, c))
  BY <1>2, CallsApart DEF Has, Call
<1>5. \A s \in Steps : ~Has(creating, CallOf(c, s))
  BY <1>2 DEF Has, CallOf
<1>6. \A s \in Steps : ~In(s, c) /\ ~In(s, c)'
  BY <1>5 DEF In
<1>7. OtherCalls(c)
  BY DEF OtherCalls, In
<1>8. ASSUME NEW v, NEW d, <<v, d>> # <<w, c>>
      PROVE  Has(queue', Call(v, d)) <=> Has(queue, Call(v, d))
  <2>1. Call(v, d) # Call(w, c)
    BY <1>8, CallsApart
  <2> QED BY <2>1, <1>1
<1>9. Has(queue', Call(w, c))
  BY <1>1
<1> QED BY <1>1, <1>3, <1>4, <1>6, <1>7, <1>8, <1>9 DEF Sent, OtherQueue

(* A WM_QUIT that comes or goes is nobody's call.                          *)
LEMMA QuitsOnly ==
  ASSUME Typed, Distinct(queue),
         \/ queue' = Append(queue, Quit)
         \/ queue # <<>> /\ Head(queue) = Quit /\ queue' = Tail(queue)
  PROVE  Distinct(queue') /\ \A d \in Clients, v \in Kinds : Sent(v, d)' <=> Sent(v, d)
<1>1. CASE queue' = Append(queue, Quit)
  <2>1. /\ \A m : Has(queue', m) <=> Has(queue, m) \/ m = Quit
        /\ (\A i \in DOMAIN queue : ~SameClient(queue[i], Quit)) => Distinct(queue')
    BY <1>1, AppendHas DEF Typed
  <2>2. \A i \in DOMAIN queue : ~SameClient(queue[i], Quit)
    BY DEF SameClient
  <2> QED BY <2>1, <2>2, CallsApart, Zenon DEF Sent
<1>2. CASE queue # <<>> /\ Head(queue) = Quit /\ queue' = Tail(queue)
  <2>1. queue' = RemoveAt(queue, 1) /\ 1 \in DOMAIN queue /\ queue[1] = Quit
    BY <1>2, TailRemoves DEF Typed
  <2>2. /\ \A m : m # Quit => (Has(queue', m) <=> Has(queue, m))
        /\ Distinct(queue')
    BY <2>1, RemoveHas DEF Typed
  <2> QED BY <2>2, CallsApart, Zenon DEF Sent
<1> QED BY <1>1, <1>2

(* CreateInstance begins for a client for which it does not run ...        *)
LEMMA PushCall ==
  ASSUME Typed, Distinct(creating), NEW c \in Clients, NEW s \in Steps,
         c \notin Creating, creating' = <<CallOf(c, s)>> \o creating
  PROVE  /\ In(s, c)' /\ \A t \in Steps : t # s => ~In(t, c)'
         /\ OtherCalls(c) /\ Distinct(creating')
<1>1. /\ \A m : Has(creating', m) <=> Has(creating, m) \/ m = CallOf(c, s)
      /\ (\A i \in DOMAIN creating : ~SameClient(creating[i], CallOf(c, s)))
         => Distinct(creating')
  <2>1. CallOf(c, s) \in Frame
    BY DEF CallOf, Frame
  <2> QED BY <2>1, PushHas DEF Typed
<1>2. \A t \in Steps : ~Has(creating, CallOf(c, t))
  BY DEF Creating, In
<1>3. ASSUME NEW i \in DOMAIN creating PROVE ~SameClient(creating[i], CallOf(c, s))
  <2>1. PICK d \in Clients, t \in Steps : creating[i] = CallOf(d, t)
    BY FrameIs DEF Typed
  <2> QED BY <2>1, <1>2, CallsApart DEF Has
<1>4. ASSUME NEW t, NEW d, <<t, d>> # <<s, c>>
      PROVE  Has(creating', CallOf(d, t)) <=> Has(creating, CallOf(d, t))
  <2>1. CallOf(d, t) # CallOf(c, s)
    BY <1>4, CallsApart
  <2> QED BY <2>1, <1>1
<1>5. Has(creating', CallOf(c, s))
  BY <1>1
<1> QED BY <1>1, <1>2, <1>3, <1>4, <1>5 DEF In, OtherCalls

(* ... what is left of the stack without the call on top of it ...         *)
LEMMA PopCall ==
  ASSUME Typed, Distinct(creating), NEW c \in Clients, NEW s \in Steps, At(c, s)
  PROVE  LET rest == Tail(creating) IN
         /\ In(s, c) /\ \A t \in Steps : t # s => ~In(t, c)
         /\ \A t \in Steps : ~Has(rest, CallOf(c, t))
         /\ \A d \in Clients \ {c}, t \in Steps : Has(rest, CallOf(d, t)) <=> In(t, d)
         /\ rest \in Seq(Frame) /\ Distinct(rest)
<1> DEFINE rest == Tail(creating)
<1>1. creating # <<>> /\ creating \in Seq(Frame) /\ Head(creating) = CallOf(c, s)
  BY DEF At, CallOf, Typed
<1>2. /\ rest = RemoveAt(creating, 1) /\ 1 \in DOMAIN creating /\ creating[1] = CallOf(c, s)
      /\ rest \in Seq(Frame)
  BY <1>1, TailRemoves, HeadTailProperties
<1> HIDE DEF rest
<1>3. /\ \A m : m # CallOf(c, s) => (Has(rest, m) <=> Has(creating, m))
      /\ Distinct(rest) /\ \A m : SameClient(CallOf(c, s), m) => ~Has(rest, m)
  BY <1>1, <1>2, RemoveHas
<1>4. In(s, c)
  BY <1>2 DEF In, Has
<1>5. \A t \in Steps : ~Has(rest, CallOf(c, t))
  BY <1>3, CallsApart
<1>6. \A t \in Steps : t # s => ~In(t, c)
  BY <1>3, <1>5, CallsApart DEF In
<1>7. ASSUME NEW d, d # c, NEW t PROVE Has(rest, CallOf(d, t)) <=> In(t, d)
  <2>1. CallOf(d, t) # CallOf(c, s)
    BY <1>7, CallsApart
  <2> QED BY <2>1, <1>3 DEF In
<1> QED BY <1>2, <1>3, <1>4, <1>5, <1>6, <1>7 DEF rest

(* ... and that call goes on from s to t.                                  *)
LEMMA StepCall ==
  ASSUME Typed, Distinct(creating), NEW c \in Clients, NEW s \in Steps, NEW t \in Steps,
         At(c, s), SetStep(c, t)
  PROVE  /\ In(s, c) /\ \A u \in Steps : u # s => ~In(u, c)
         /\ In(t, c)' /\ \A u \in Steps : u # t => ~In(u, c)'
         /\ OtherCalls(c) /\ Distinct(creating')
<1>1. PICK rest : /\ rest \in Seq(Frame) /\ Distinct(rest)
                  /\ creating' = <<CallOf(c, t)>> \o rest
                  /\ \A u \in Steps : ~Has(rest, CallOf(c, u))
                  /\ \A d \in Clients \ {c}, u \in Steps : Has(rest, CallOf(d, u)) <=> In(u, d)
                  /\ In(s, c) /\ \A u \in Steps : u # s => ~In(u, c)
  BY PopCall DEF SetStep, CallOf
<1>2. /\ \A m : Has(creating', m) <=> Has(rest, m) \/ m = CallOf(c, t)
      /\ (\A i \in DOMAIN rest : ~SameClient(rest[i], CallOf(c, t))) => Distinct(creating')
  <2>1. CallOf(c, t) \in Frame
    BY DEF CallOf, Frame
  <2> QED BY <1>1, <2>1, PushHas
<1>3. ASSUME NEW i \in DOMAIN rest PROVE ~SameClient(rest[i], CallOf(c, t))
  <2>1. PICK d \in Clients, u \in Steps : rest[i] = CallOf(d, u)
    BY <1>1, FrameIs
  <2> QED BY <2>1, <1>1, CallsApart DEF Has
<1>4. ASSUME NEW u, NEW d, <<u, d>> # <<t, c>>
      PROVE  Has(creating', CallOf(d, u)) <=> Has(rest, CallOf(d, u))
  <2>1. CallOf(d, u) # CallOf(c, t)
    BY <1>4, CallsApart
  <2> QED BY <2>1, <1>2
<1>5. Has(creating', CallOf(c, t))
  BY <1>2
<1> QED BY <1>1, <1>2, <1>3, <1>4, <1>5 DEF In, OtherCalls

(* A step that does nothing to client d.                                   *)
Stays(d) ==
  /\ \A w \in Kinds : Sent(w, d)' <=> Sent(w, d)
  /\ \A s \in Steps : In(s, d)' <=> In(s, d)
  /\ objectOf'[d] = objectOf[d] /\ lockOf'[d] = lockOf[d]
  /\ (d \in objects' <=> d \in objects) /\ (d \in locks' <=> d \in locks)

LEMMA StaysKeeps ==
  ASSUME NEW d, OneCall(d), Knows(d), Stays(d) PROVE OneCall(d)' /\ Knows(d)'
BY DEF OneCall, Knows, Stays, Kinds

(* A step of c leaves the others as they were.                             *)
LEMMA OthersStay ==
  ASSUME NEW c \in Clients, OtherQueue(c), OtherCalls(c),
         \A d \in Clients \ {c} : /\ objectOf'[d] = objectOf[d] /\ lockOf'[d] = lockOf[d]
                                  /\ d \in objects' <=> d \in objects
                                  /\ d \in locks' <=> d \in locks,
         \A d \in Clients : OneCall(d) /\ Knows(d),
         OneCall(c)', Knows(c)'
  PROVE  \A d \in Clients : OneCall(d)' /\ Knows(d)'
<1> SUFFICES ASSUME NEW d \in Clients \ {c} PROVE OneCall(d)' /\ Knows(d)'
  OBVIOUS
<1>1. Stays(d)
  BY DEF Stays, OtherQueue, OtherCalls
<1> QED BY <1>1, StaysKeeps

(* One element more or less.                                               *)
LEMMA Sizes ==
  ASSUME NEW S \in SUBSET Clients, NEW c \in Clients
  PROVE  /\ Cardinality(S) \in Nat
         /\ c \notin S => Cardinality(S \cup {c}) = Cardinality(S) + 1
         /\ c \in S => Cardinality(S \ {c}) = Cardinality(S) - 1
<1>1. IsFiniteSet(S)
  BY ComAssumption, FS_Subset
<1> QED BY <1>1, FS_CardinalityType, FS_AddElement, FS_RemoveElement

(* How many there are of each.                                             *)
LEMMA AllSizes ==
  ASSUME Holders
  PROVE  /\ Cardinality(objects) \in Nat /\ Cardinality(locks) \in Nat
         /\ Cardinality(Creating) \in Nat /\ Cardinality(Twice) \in Nat /\ count \in Int
<1>1. /\ objects \in SUBSET Clients /\ locks \in SUBSET Clients
      /\ Creating \in SUBSET Clients /\ Twice \in SUBSET Clients
  BY DEF Holders, Creating, Twice
<1>2. /\ Cardinality(objects) \in Nat /\ Cardinality(locks) \in Nat
      /\ Cardinality(Creating) \in Nat /\ Cardinality(Twice) \in Nat
  BY <1>1, ComAssumption, FS_Subset, FS_CardinalityType
<1> QED BY <1>2 DEF Holders, Counted

(* Which references the call of c holds when it goes on from s to t.       *)
LEMMA CallSets ==
  ASSUME NEW c \in Clients, NEW s \in Steps, NEW t \in Steps,
         In(s, c), \A u \in Steps : u # s => ~In(u, c),
         In(t, c)', \A u \in Steps : u # t => ~In(u, c)', OtherCalls(c)
  PROVE  /\ Creating' = Creating
         /\ (s \in TwoRefs <=> t \in TwoRefs) => Twice' = Twice
         /\ s \notin TwoRefs /\ t \in TwoRefs => c \notin Twice /\ Twice' = Twice \cup {c}
         /\ s \in TwoRefs /\ t \notin TwoRefs => c \in Twice /\ Twice' = Twice \ {c}
<1>1. TwoRefs \subseteq Steps
  BY DEF TwoRefs, Steps
<1>2. \A d \in Clients \ {c} : /\ d \in Creating' <=> d \in Creating
                               /\ d \in Twice' <=> d \in Twice
  BY <1>1 DEF OtherCalls, Creating, Twice, TwoRefs
<1>3. c \in Creating /\ c \in Creating'
  BY DEF Creating
<1>4. (c \in Twice <=> s \in TwoRefs) /\ (c \in Twice' <=> t \in TwoRefs)
  BY <1>1 DEF Twice, TwoRefs
<1>5. /\ Creating \subseteq Clients /\ Creating' \subseteq Clients
      /\ Twice \subseteq Clients /\ Twice' \subseteq Clients
  BY DEF Creating, Twice
<1> QED BY <1>2, <1>3, <1>4, <1>5

-----------------------------------------------------------------------------
(* One lemma for each kind of step.                                        *)
LEMMA InitHolders == ASSUME Init PROVE Holders
<1> USE DEF Init
<1>1. \A m : ~Has(queue, m) /\ ~Has(creating, m)
  BY DEF Has
<1>2. Creating = {} /\ Twice = {}
  BY <1>1 DEF Creating, Twice, In
<1>3. Distinct(queue) /\ Distinct(creating)
  BY DEF Distinct
<1>4. ASSUME NEW c \in Clients PROVE OneCall(c) /\ Knows(c)
  BY <1>1 DEF OneCall, Knows, Sent, In
<1>5. Counted
  BY <1>2, FS_EmptySet DEF Counted
<1> QED BY <1>3, <1>4, <1>5 DEF Holders

(* A client calls: nothing is counted until its call is taken.             *)
LEMMA AskHolds ==
  ASSUME QuitMeansStarted, Holders, NEW c \in Clients, Ask(c) \/ Drop(c) \/ AskLock(c)
  PROVE  Holders'
<1> USE DEF clientVars, serverVars, threadVars, counter, held
<1>1. /\ ~Waiting(c) /\ UNCHANGED <<creating, objects, locks, count, temps, pc>>
      /\ objectOf \in [Clients -> ObjectStates] /\ lockOf \in [Clients -> LockStates]
  BY DEF Ask, Drop, AskLock, QuitMeansStarted
<1>2. /\ Typed /\ Distinct(queue) /\ Distinct(creating) /\ Knows(c) /\ OneCall(c)
      /\ \A d \in Clients : OneCall(d) /\ Knows(d)
  BY DEF QuitMeansStarted, Typed, Holders
<1> DEFINE Sends(w) ==
      /\ Sent(w, c)' /\ \A v \in Kinds : v # w => ~Sent(v, c)'
      /\ \A v \in Kinds : ~Sent(v, c)
      /\ \A s \in Steps : ~In(s, c) /\ ~In(s, c)'
      /\ OtherQueue(c) /\ OtherCalls(c) /\ Distinct(queue')
<1>3. ASSUME NEW w \in Kinds, queue' = Append(queue, Call(w, c)) PROVE Sends(w)
  BY <1>1, <1>2, <1>3, SendCall
<1> DEFINE OnlyTo ==
      \A d \in Clients \ {c} : objectOf'[d] = objectOf[d] /\ lockOf'[d] = lockOf[d]
<1>4. ASSUME NEW w \in Kinds, Sends(w), Knows(c)', OnlyTo
      PROVE  Holders'
  <2>1. OneCall(c)'
    BY <1>4 DEF OneCall
  <2>2. \A d \in Clients : OneCall(d)' /\ Knows(d)'
    BY <2>1, <1>1, <1>2, <1>4, OthersStay
  <2>3. Counted' /\ Distinct(creating')
    <3>1. Creating' = Creating /\ Twice' = Twice
      BY <1>1 DEF Creating, Twice, In
    <3> QED BY <3>1, <1>1, <1>2 DEF Holders, Counted
  <2> QED BY <2>2, <2>3, <1>1, <1>4 DEF Holders
<1> HIDE DEF Sends
<1>5. CASE Ask(c)
  <2>1. Sends("CreateInstance") /\ objectOf[c] = "none"
    BY <1>3, <1>5 DEF Ask, Kinds
  <2>2. Knows(c)' /\ OnlyTo
    BY <2>1, <1>1, <1>2, <1>5 DEF Ask, Knows, Sends, Kinds
  <2> QED BY <2>1, <2>2, <1>4 DEF Kinds
<1>6. CASE Drop(c)
  <2>1. Sends("Release") /\ objectOf[c] = "has"
    BY <1>3, <1>6 DEF Drop, Kinds
  <2>2. Knows(c)' /\ OnlyTo
    BY <2>1, <1>1, <1>2, <1>6 DEF Drop, Knows, Sends, Kinds
  <2> QED BY <2>1, <2>2, <1>4 DEF Kinds
<1>7. CASE AskLock(c)
  <2>1. CASE lockOf[c] = "none"
    <3>1. Sends("Lock")
      BY <2>1, <1>3, <1>7 DEF AskLock, Kinds
    <3>2. Knows(c)' /\ OnlyTo
      BY <2>1, <3>1, <1>1, <1>2, <1>7 DEF AskLock, Knows, Sends, Kinds
    <3> QED BY <3>1, <3>2, <1>4 DEF Kinds
  <2>2. CASE lockOf[c] = "locked"
    <3>1. Sends("Unlock")
      BY <2>2, <1>3, <1>7 DEF AskLock, Kinds
    <3>2. Knows(c)' /\ OnlyTo
      BY <2>2, <3>1, <1>1, <1>2, <1>7 DEF AskLock, Knows, Sends, Kinds
    <3> QED BY <3>1, <3>2, <1>4 DEF Kinds
  <2> QED BY <2>1, <2>2, <1>7 DEF AskLock
<1> QED BY <1>5, <1>6, <1>7

(* A step by which no client gets or gives anything: of an object it is    *)
(* told at most that it is lost.                                           *)
LEMMA SameHolders ==
  ASSUME Holders, Distinct(queue'), creating' = creating,
         \A d \in Clients, w \in Kinds : Sent(w, d)' <=> Sent(w, d),
         UNCHANGED <<objects, locks, lockOf>>, temps' \in Nat,
         \/ objectOf' = objectOf
         \/ \A d \in Clients : /\ objectOf'[d] # "none" \/ objectOf[d] = "none"
                               /\ objectOf'[d] # "has",
         Counted'
  PROVE  Holders'
<1>1. \A s, d : In(s, d)' <=> In(s, d)
  BY DEF In
<1>2. ASSUME NEW d \in Clients PROVE OneCall(d)' /\ Knows(d)'
  <2>1. OneCall(d) /\ Knows(d) /\ \A w \in Kinds : Sent(w, d)' <=> Sent(w, d)
    BY DEF Holders
  <2> QED BY <1>1, <2>1 DEF OneCall, Knows, Kinds
<1> QED BY <1>2 DEF Holders

(* serve: only the making of the factory is counted, there and back.       *)
LEMMA ServeHolds ==
  ASSUME QuitMeansStarted, Holders, Serve PROVE Holders'
<1> USE DEF clientVars, serverVars, threadVars, counter, held, AddRef, ReleaseRef
<1>1. Typed /\ Distinct(queue) /\ Distinct(creating) /\ temps \in Nat /\ Counted
  BY DEF QuitMeansStarted, Typed, Holders
<1>2. UNCHANGED <<creating, objects, locks, lockOf, temps>>
  BY DEF Serve, MakeFactory, EnableAndResume, GetQuit, Revoke, Exit
<1>3. Distinct(queue') /\ \A d \in Clients, w \in Kinds : Sent(w, d)' <=> Sent(w, d)
  <2>1. CASE GetQuit
    BY <2>1, <1>1, QuitsOnly DEF GetQuit
  <2>2. CASE queue' = queue
    BY <2>2, <1>1 DEF Sent
  <2> QED BY <2>1, <2>2 DEF Serve, MakeFactory, EnableAndResume, Revoke, Exit
<1>4. \/ objectOf' = objectOf
      \/ \A d \in Clients : /\ objectOf'[d] # "none" \/ objectOf[d] = "none"
                            /\ objectOf'[d] # "has"
  BY DEF Serve, MakeFactory, EnableAndResume, GetQuit, Revoke, Exit
<1>5. Counted'
  <2>1. Creating' = Creating /\ Twice' = Twice
    BY <1>2 DEF Creating, Twice, In
  <2>2. CASE MakeFactory
    BY <2>1, <2>2, <1>1, <1>2, AllSizes DEF MakeFactory, Counted
  <2>3. CASE ~MakeFactory
    <3>1. count' = count /\ pc # "made" /\ pc' # "made"
      BY <2>3 DEF Serve, EnableAndResume, GetQuit, Revoke, Exit
    <3> QED BY <3>1, <2>1, <1>1, <1>2 DEF Counted
  <2> QED BY <2>2, <2>3
<1> QED BY <1>1, <1>2, <1>3, <1>4, <1>5, SameHolders

(* The interfaces of other threads, and a WM_QUIT that is posted.          *)
LEMMA ThreadHolds ==
  ASSUME QuitMeansStarted, Holders, OtherThread \/ \E t : PostQuit(t) PROVE Holders'
<1> USE DEF clientVars, serverVars, threadVars, counter, held, AddRef, ReleaseRef
<1>1. Typed /\ Distinct(queue) /\ Distinct(creating) /\ temps \in Nat /\ Counted
  BY DEF QuitMeansStarted, Typed, Holders
<1>2. UNCHANGED <<creating, objects, locks, lockOf, objectOf, pc>>
  BY DEF OtherThread, PostQuit
<1>3. Distinct(queue') /\ \A d \in Clients, w \in Kinds : Sent(w, d)' <=> Sent(w, d)
  <2>1. CASE OtherThread
    BY <2>1, <1>1 DEF OtherThread, Sent
  <2>2. CASE \E t : PostQuit(t)
    BY <2>2, <1>1, QuitsOnly DEF PostQuit
  <2> QED BY <2>1, <2>2
<1>4. temps' \in Nat
  BY <1>1 DEF OtherThread, PostQuit
<1>5. Counted'
  <2>1. Creating' = Creating /\ Twice' = Twice
    BY <1>2 DEF Creating, Twice, In
  <2>2. CASE UNCHANGED <<count, temps>>
    BY <2>1, <2>2, <1>1, <1>2 DEF Counted
  <2>3. CASE OtherThread
    BY <2>1, <2>3, <1>1, <1>2, AllSizes DEF OtherThread, Counted
  <2> QED BY <2>2, <2>3 DEF PostQuit
<1> QED BY <1>1, <1>2, <1>3, <1>4, <1>5, SameHolders

(* Release and LockServer: what the client knows says that there is        *)
(* something to release or to unlock.                                      *)
LEMMA LockHolds ==
  ASSUME QuitMeansStarted, Holders, NEW c \in Clients, Release(c) \/ LockServer(c)
  PROVE  Holders'
<1> USE DEF clientVars, serverVars, threadVars, counter, held, AddRef, ReleaseRef
<1>1. /\ Typed /\ Distinct(queue) /\ Distinct(creating) /\ temps \in Nat /\ Counted
      /\ OneCall(c) /\ Knows(c)
      /\ objects \subseteq Clients /\ locks \subseteq Clients
  BY DEF QuitMeansStarted, Typed, Holders
<1>2. /\ UNCHANGED <<creating, lockOf, objectOf, pc, temps>> /\ queue' = Rest
      /\ \E w \in {"Release", "Lock", "Unlock"} : Takes(w, c)
  BY DEF Release, LockServer
<1>3. /\ \A v \in Kinds : ~Sent(v, c)'
      /\ \A v, w \in Kinds : Sent(v, c) /\ Sent(w, c) => v = w
      /\ OtherQueue(c) /\ Distinct(queue')
  BY <1>1, <1>2, TakeCall DEF Kinds
<1>4. OtherCalls(c) /\ \A s \in Steps : In(s, c)' <=> In(s, c)
  BY <1>2 DEF OtherCalls, In
<1>5. Creating' = Creating /\ Twice' = Twice
  BY <1>2 DEF Creating, Twice, In
<1>6. /\ Cardinality(objects) \in Nat /\ Cardinality(locks) \in Nat
      /\ Cardinality(Creating) \in Nat /\ Cardinality(Twice) \in Nat
  BY AllSizes
<1>7. \/ /\ Sent("Release", c) /\ UNCHANGED locks
         /\ objects' = objects \ {c} /\ count' = count - 1
      \/ /\ Sent("Lock", c) /\ UNCHANGED objects
         /\ locks' = locks \cup {c} /\ count' = count + 1
      \/ /\ Sent("Unlock", c) /\ UNCHANGED objects
         /\ locks' = locks \ {c} /\ count' = count - 1
  <2>1. \A w \in Kinds : Takes(w, c) => Sent(w, c)
    BY <1>1, <1>2, TakeCall DEF Kinds
  <2> QED BY <2>1 DEF Release, LockServer, Kinds
<1>8. OneCall(c)' /\ Knows(c)'
  <2>1. \A s \in Steps : ~In(s, c)
    BY <1>1, <1>7 DEF OneCall, Kinds
  <2> QED BY <2>1, <1>1, <1>2, <1>3, <1>4, <1>7 DEF OneCall, Knows, Kinds
<1>9. Counted'
  <2>1. CASE /\ Sent("Release", c) /\ UNCHANGED locks
             /\ objects' = objects \ {c} /\ count' = count - 1
    <3>1. Cardinality(objects') = Cardinality(objects) - 1
      BY <2>1, <1>1, Sizes DEF Knows
    <3> QED BY <3>1, <2>1, <1>1, <1>2, <1>5, <1>6 DEF Counted
  <2>2. CASE /\ Sent("Lock", c) /\ UNCHANGED objects
             /\ locks' = locks \cup {c} /\ count' = count + 1
    <3>1. Cardinality(locks') = Cardinality(locks) + 1
      BY <2>2, <1>1, Sizes DEF Knows
    <3> QED BY <3>1, <2>2, <1>1, <1>2, <1>5, <1>6 DEF Counted
  <2>3. CASE /\ Sent("Unlock", c) /\ UNCHANGED objects
             /\ locks' = locks \ {c} /\ count' = count - 1
    <3>1. Cardinality(locks') = Cardinality(locks) - 1
      BY <2>3, <1>1, Sizes DEF Knows
    <3> QED BY <3>1, <2>3, <1>1, <1>2, <1>5, <1>6 DEF Counted
  <2> QED BY <2>1, <2>2, <2>3, <1>7
<1>10. \A d \in Clients : OneCall(d)' /\ Knows(d)'
  BY <1>2, <1>3, <1>4, <1>7, <1>8, OthersStay DEF Holders
<1> QED BY <1>1, <1>2, <1>3, <1>7, <1>9, <1>10 DEF Holders

(* CreateInstance takes its artificial lock ...                            *)
LEMMA BeginHolds ==
  ASSUME QuitMeansStarted, Holders, NEW c \in Clients, BeginCreate(c)
  PROVE  Holders'
<1> USE DEF clientVars, serverVars, threadVars, counter, held, AddRef
<1>1. /\ Typed /\ Distinct(queue) /\ Distinct(creating) /\ temps \in Nat /\ Counted
      /\ OneCall(c) /\ Knows(c)
      /\ objects \subseteq Clients /\ locks \subseteq Clients
  BY DEF QuitMeansStarted, Typed, Holders
<1>2. /\ UNCHANGED <<lockOf, objectOf, objects, locks, pc, temps>> /\ queue' = Rest
      /\ Takes("CreateInstance", c) /\ count' = count + 1
      /\ creating' = <<CallOf(c, "construct")>> \o creating
  BY DEF BeginCreate, CallOf
<1>3. /\ Sent("CreateInstance", c) /\ \A v \in Kinds : ~Sent(v, c)'
      /\ \A v \in Kinds : v # "CreateInstance" => ~Sent(v, c)
      /\ OtherQueue(c) /\ Distinct(queue')
  BY <1>1, <1>2, TakeCall DEF Kinds
<1>4. \A s \in Steps : ~In(s, c)
  BY <1>1, <1>3 DEF OneCall, Kinds
<1>5. c \notin Creating /\ c \notin Twice /\ "construct" \in Steps
  BY <1>4 DEF Creating, Twice, TwoRefs, Steps
<1>6. /\ In("construct", c)' /\ \A t \in Steps : t # "construct" => ~In(t, c)'
      /\ OtherCalls(c) /\ Distinct(creating')
  BY <1>1, <1>2, <1>5, PushCall
<1>7. Creating' = Creating \cup {c} /\ Twice' = Twice
  <2>1. c \in Creating' /\ c \notin Twice'
    BY <1>5, <1>6 DEF Creating, Twice, TwoRefs, Steps
  <2>2. \A d \in Clients \ {c} : /\ d \in Creating' <=> d \in Creating
                                 /\ d \in Twice' <=> d \in Twice
    BY <1>6 DEF OtherCalls, Creating, Twice, TwoRefs, Steps
  <2>3. Creating \subseteq Clients /\ Creating' \subseteq Clients
        /\ Twice \subseteq Clients /\ Twice' \subseteq Clients
    BY DEF Creating, Twice
  <2> QED BY <2>1, <2>2, <2>3, <1>5
<1>8. OneCall(c)' /\ Knows(c)'
  BY <1>1, <1>2, <1>3, <1>6 DEF OneCall, Knows, Kinds
<1>9. Counted'
  <2>1. Creating \in SUBSET Clients /\ Twice \in SUBSET Clients
    BY DEF Creating, Twice
  <2>2. /\ Cardinality(Creating') = Cardinality(Creating) + 1 /\ Cardinality(Creating) \in Nat
        /\ Cardinality(Twice) \in Nat
        /\ Cardinality(objects) \in Nat /\ Cardinality(locks) \in Nat
    BY <2>1, <1>1, <1>5, <1>7, Sizes
  <2> QED BY <2>2, <1>1, <1>2, <1>7 DEF Counted
<1>10. \A d \in Clients : OneCall(d)' /\ Knows(d)'
  BY <1>2, <1>3, <1>6, <1>8, OthersStay DEF Holders
<1> QED BY <1>1, <1>2, <1>3, <1>6, <1>9, <1>10 DEF Holders

(* ... and gives it back, whether the client gets the object or an error.   *)
LEMMA EndHolds ==
  ASSUME QuitMeansStarted, Holders, NEW c \in Clients, EndCreate(c)
  PROVE  Holders'
<1> USE DEF clientVars, serverVars, threadVars, counter, held, ReleaseRef
<1>1. /\ Typed /\ Distinct(queue) /\ Distinct(creating) /\ temps \in Nat /\ Counted
      /\ OneCall(c) /\ Knows(c) /\ objectOf \in [Clients -> ObjectStates]
      /\ objects \subseteq Clients /\ locks \subseteq Clients
  BY DEF QuitMeansStarted, Typed, Holders
<1>2. /\ UNCHANGED <<queue, lockOf, objects, locks, pc, temps>>
      /\ count' = count - 1 /\ creating' = Tail(creating)
  BY DEF EndCreate
<1>3. PICK s \in {"passed", "failed"} :
        /\ At(c, s)
        /\ objectOf' = [objectOf EXCEPT ![c] = IF s = "passed" THEN "has" ELSE "failed"]
  BY DEF EndCreate
<1>4. /\ In(s, c) /\ \A t \in Steps : t # s => ~In(t, c)
      /\ \A t \in Steps : ~In(t, c)'
      /\ OtherCalls(c) /\ Distinct(creating')
  <2>1. s \in Steps
    BY DEF Steps
  <2> QED BY <1>1, <1>2, <1>3, <2>1, PopCall DEF In, OtherCalls
<1>5. /\ OtherQueue(c) /\ \A w \in Kinds : Sent(w, c)' <=> Sent(w, c)
      /\ \A w \in Kinds : ~Sent(w, c)
  BY <1>1, <1>2, <1>4 DEF OtherQueue, Sent, OneCall, Steps
<1>6. c \in Creating /\ Creating' = Creating \ {c} /\ Twice' = Twice
  <2>1. c \notin Creating' /\ c \notin Twice' /\ c \in Creating /\ c \notin Twice
    BY <1>4 DEF Creating, Twice, TwoRefs, Steps
  <2>2. \A d \in Clients \ {c} : /\ d \in Creating' <=> d \in Creating
                                 /\ d \in Twice' <=> d \in Twice
    BY <1>4 DEF OtherCalls, Creating, Twice, TwoRefs, Steps
  <2>3. Creating \subseteq Clients /\ Creating' \subseteq Clients
        /\ Twice \subseteq Clients /\ Twice' \subseteq Clients
    BY DEF Creating, Twice
  <2> QED BY <2>1, <2>2, <2>3
<1>7. OneCall(c)' /\ Knows(c)'
  BY <1>1, <1>2, <1>3, <1>4, <1>5 DEF OneCall, Knows, Kinds, Steps
<1>8. Counted'
  <2>1. Creating \in SUBSET Clients /\ Twice \in SUBSET Clients
    BY DEF Creating, Twice
  <2>2. /\ Cardinality(Creating') = Cardinality(Creating) - 1 /\ Cardinality(Creating) \in Nat
        /\ Cardinality(Twice) \in Nat
        /\ Cardinality(objects) \in Nat /\ Cardinality(locks) \in Nat
    BY <2>1, <1>1, <1>6, Sizes
  <2> QED BY <2>2, <1>1, <1>2, <1>6 DEF Counted
<1>9. \A d \in Clients : OneCall(d)' /\ Knows(d)'
  BY <1>2, <1>3, <1>4, <1>5, <1>7, OthersStay DEF Holders
<1> QED BY <1>1, <1>2, <1>4, <1>8, <1>9 DEF Holders

(* Between the two every step of the call changes the references it holds  *)
(* as it changes the count.                                                *)
Moves(c, s, t) ==
  /\ At(c, s) /\ SetStep(c, t)
  /\ UNCHANGED <<queue, lockOf, objectOf, locks, pc, temps>>

LEMMA CreateHolds ==
  ASSUME QuitMeansStarted, Holders, NEW c \in Clients,
         Construct(c) \/ Wrap(c) \/ Unwrap(c)
  PROVE  Holders'
<1> USE DEF clientVars, serverVars, threadVars, counter, held, AddRef, ReleaseRef
<1>1. /\ Typed /\ Distinct(queue) /\ Distinct(creating) /\ temps \in Nat /\ Counted
      /\ OneCall(c) /\ Knows(c)
      /\ objects \subseteq Clients /\ locks \subseteq Clients
  BY DEF QuitMeansStarted, Typed, Holders
<1>2. PICK s \in Steps, t \in Steps :
        /\ Moves(c, s, t)
        /\ s \notin {"passed", "failed"}
        /\ \/ /\ s \in TwoRefs <=> t \in TwoRefs
              /\ \/ /\ count' = count /\ objects' = objects
                    /\ s \in {"construct", "constructed"} /\ t \in {"constructed", "failed"}
                 \/ /\ count' = count + 1 /\ objects' = objects \cup {c}
                    /\ s = "constructed" /\ t = "gateway"
                 \/ /\ count' = count - 1 /\ objects' = objects \ {c}
                    /\ s = "wrapped" /\ t = "refused"
           \/ /\ s \notin TwoRefs /\ t \in TwoRefs /\ count' = count + 1 /\ objects' = objects
              /\ <<s, t>> \in {<<"construct", "calling">>, <<"gateway", "wrapped">>}
           \/ /\ s \in TwoRefs /\ t \notin TwoRefs /\ count' = count - 1 /\ objects' = objects
              /\ <<s, t>> \in {<<"calling", "constructed">>, <<"wrapped", "passed">>,
                               <<"refused", "failed">>}
  BY DEF Construct, Wrap, Unwrap, Moves, Steps, TwoRefs
<1>3. /\ In(s, c) /\ \A u \in Steps : u # s => ~In(u, c)
      /\ In(t, c)' /\ \A u \in Steps : u # t => ~In(u, c)'
      /\ OtherCalls(c) /\ Distinct(creating')
  BY <1>1, <1>2, StepCall DEF Moves
<1>4. /\ OtherQueue(c) /\ \A w \in Kinds : Sent(w, c)' <=> Sent(w, c)
      /\ \A w \in Kinds : ~Sent(w, c)
  BY <1>1, <1>2, <1>3 DEF OtherQueue, Sent, OneCall, Moves
<1>5. UNCHANGED <<queue, lockOf, objectOf, locks, pc, temps>>
  BY <1>2 DEF Moves
<1>6. OneCall(c)'
  BY <1>4 DEF OneCall
<1>7. Knows(c)'
  <2>1. /\ objectOf[c] \notin {"none", "has"}
        /\ s \in {"gateway", "wrapped", "passed"} <=> c \in objects
    BY <1>1, <1>3 DEF Knows
  <2>2. t \in {"gateway", "wrapped", "passed"} <=> c \in objects'
    BY <2>1, <1>2 DEF TwoRefs
  <2>3. ASSUME NEW u \in Steps, In(u, c)'
        PROVE  /\ objectOf'[c] \notin {"none", "has"}
               /\ u \in {"gateway", "wrapped", "passed"} <=> c \in objects'
    BY <2>1, <2>2, <2>3, <1>3, <1>5
  <2> QED BY <2>1, <2>3, <1>1, <1>4, <1>5 DEF Knows, Kinds
<1>8. /\ Creating' = Creating
      /\ (s \in TwoRefs <=> t \in TwoRefs) => Twice' = Twice
      /\ s \notin TwoRefs /\ t \in TwoRefs => c \notin Twice /\ Twice' = Twice \cup {c}
      /\ s \in TwoRefs /\ t \notin TwoRefs => c \in Twice /\ Twice' = Twice \ {c}
  BY <1>3, CallSets
<1>9. Counted'
  <2>1. Creating \in SUBSET Clients /\ Twice \in SUBSET Clients
    BY DEF Creating, Twice
  <2>2. /\ Cardinality(Creating) \in Nat
        /\ Cardinality(Twice) \in Nat
        /\ Cardinality(objects) \in Nat /\ Cardinality(locks) \in Nat
        /\ (c \notin Twice => Cardinality(Twice \cup {c}) = Cardinality(Twice) + 1)
        /\ (c \in Twice => Cardinality(Twice \ {c}) = Cardinality(Twice) - 1)
        /\ (c \notin objects => Cardinality(objects \cup {c}) = Cardinality(objects) + 1)
        /\ (c \in objects => Cardinality(objects \ {c}) = Cardinality(objects) - 1)
    BY <2>1, <1>1, Sizes
  <2>3. s \in {"gateway", "wrapped", "passed"} <=> c \in objects
    BY <1>1, <1>3 DEF Knows
  <2>4. CASE s \in TwoRefs <=> t \in TwoRefs
    <3>1. Twice' = Twice
      BY <2>4, <1>8
    <3>2. /\ count' - Cardinality(objects') = count - Cardinality(objects)
          /\ Cardinality(objects') \in Int
      <4>1. count \in Int
        BY <2>2, <1>1 DEF Counted
      <4>2. CASE count' = count /\ objects' = objects
        BY <4>1, <4>2, <2>2
      <4>3. CASE count' = count + 1 /\ c \notin objects /\ objects' = objects \cup {c}
        BY <4>1, <4>3, <2>2
      <4>4. CASE count' = count - 1 /\ c \in objects /\ objects' = objects \ {c}
        BY <4>1, <4>4, <2>2
      <4> QED BY <4>2, <4>3, <4>4, <2>3, <2>4, <1>2
    <3>3. count \in Int /\ count' \in Int
      BY <2>2, <1>1, <1>2 DEF Counted
    <3> QED BY <3>1, <3>2, <3>3, <2>2, <1>1, <1>5, <1>8 DEF Counted
  <2>5. CASE s \notin TwoRefs /\ t \in TwoRefs
    <3>1. count' = count + 1 /\ objects' = objects
      BY <2>5, <1>2
    <3>2. Cardinality(Twice') = Cardinality(Twice) + 1
      BY <2>5, <1>8, <2>2
    <3> QED BY <3>1, <3>2, <2>2, <1>1, <1>5, <1>8 DEF Counted
  <2>6. CASE s \in TwoRefs /\ t \notin TwoRefs
    <3>1. count' = count - 1 /\ objects' = objects
      BY <2>6, <1>2
    <3>2. Cardinality(Twice') = Cardinality(Twice) - 1
      BY <2>6, <1>8, <2>2
    <3> QED BY <3>1, <3>2, <2>2, <1>1, <1>5, <1>8 DEF Counted
  <2> QED BY <2>4, <2>5, <2>6
<1>10. \A d \in Clients : OneCall(d)' /\ Knows(d)'
  <2>1. \A d \in Clients \ {c} : d \in objects' <=> d \in objects
    BY <1>2
  <2> QED BY <2>1, <1>3, <1>4, <1>5, <1>6, <1>7, OthersStay DEF Holders
<1>11. objects' \subseteq Clients
  BY <1>1, <1>2
<1> QED BY <1>1, <1>3, <1>5, <1>9, <1>10, <1>11 DEF Holders

LEMMA HoldersStep ==
  ASSUME QuitMeansStarted, Holders, [Next]_vars PROVE Holders'
<1>1. CASE UNCHANGED vars
  BY <1>1 DEF vars, Holders, Counted, Creating, Twice, OneCall, Knows, Sent, In
<1> QED
  BY <1>1, ServeHolds, ThreadHolds, AskHolds, BeginHolds, CreateHolds, EndHolds, LockHolds
  DEF Next, Main, MainThread, Client

(* Then a count of zero says that nobody uses the server.                  *)
NobodyAtZero ==
  count = 0 => objects = {} /\ locks = {} /\ creating = <<>> /\ temps = 0

LEMMA NobodyLeft ==
  ASSUME QuitMeansStarted, Holders PROVE NobodyAtZero
<1> SUFFICES ASSUME count = 0
             PROVE  objects = {} /\ locks = {} /\ creating = <<>> /\ temps = 0
  BY DEF NobodyAtZero
<1> Typed
  BY DEF QuitMeansStarted, Typed
<1>1. /\ objects \in SUBSET Clients /\ locks \in SUBSET Clients
      /\ Creating \in SUBSET Clients /\ Twice \in SUBSET Clients /\ temps \in Nat /\ Counted
  BY DEF Holders, Creating, Twice
<1>2. /\ IsFiniteSet(objects) /\ IsFiniteSet(locks)
      /\ IsFiniteSet(Creating) /\ IsFiniteSet(Twice)
  BY <1>1, ComAssumption, FS_Subset
<1>3. /\ Cardinality(objects) \in Nat /\ Cardinality(locks) \in Nat
      /\ Cardinality(Creating) \in Nat /\ Cardinality(Twice) \in Nat
  BY <1>2, FS_CardinalityType
<1>4. /\ Cardinality(objects) = 0 /\ Cardinality(locks) = 0
      /\ Cardinality(Creating) = 0 /\ temps = 0
  <2>1. CASE pc = "made"
    BY <2>1, <1>1, <1>3 DEF Counted
  <2>2. CASE pc # "made"
    BY <2>2, <1>1, <1>3 DEF Counted
  <2> QED BY <2>1, <2>2
<1>5. objects = {} /\ locks = {} /\ Creating = {}
  BY <1>2, <1>4, FS_EmptySet
<1>6. ASSUME creating # <<>> PROVE FALSE
  <2>1. creating \in Seq(Frame) /\ 1 \in DOMAIN creating
    BY <1>6 DEF Typed
  <2>2. PICK c \in Clients, s \in Steps : creating[1] = CallOf(c, s)
    BY <2>1, FrameIs
  <2> QED BY <2>1, <2>2, <1>5 DEF Creating, In, Has
<1> QED BY <1>4, <1>5, <1>6

-----------------------------------------------------------------------------
(* PyCom_DLLReleaseRef: a thread sets out to end the server only when no   *)
(* client has an object in it or keeps it locked, no thread of it uses COM *)
(* and it is not about to create an object.                                *)
THEOREM QuitsWhenIdle == Spec => QuitWhenIdle
<1>1. Init => QuitMeansStarted /\ Holders
  BY QuitMeansStartedInit, InitHolders
<1>2. QuitMeansStarted /\ Holders /\ [Next]_vars => QuitMeansStarted' /\ Holders'
  BY QuitMeansStartedStep, HoldersStep
<1>3. QuitMeansStarted /\ Holders => NobodyAtZero
  BY NobodyLeft
<1>4. NobodyAtZero' /\ [Next]_vars
      => [posting' \ posting # {}
          => objects' = {} /\ locks' = {} /\ creating' = <<>> /\ temps' = 0]_posting
  <2> SUFFICES ASSUME NobodyAtZero', Next, posting' \ posting # {}
               PROVE  objects' = {} /\ locks' = {} /\ creating' = <<>> /\ temps' = 0
    BY DEF vars
  <2>1. count' = 0
    BY DEF Next, Main, Serve, MainThread, Client, MakeFactory, EnableAndResume, GetQuit, Revoke,
           Exit, Ask, Drop, AskLock, BeginCreate, Construct, Wrap, Unwrap, EndCreate, Release,
           LockServer, OtherThread, PostQuit, AddRef, ReleaseRef, counter, threadVars
  <2> QED BY <2>1 DEF NobodyAtZero
<1> QED BY <1>1, <1>2, <1>3, <1>4, PTL DEF Spec, QuitWhenIdle
=============================================================================
