--------------------------- MODULE OutputWindowProofs ---------------------------
(***************************************************************************)
(* Proofs that the text that any number of threads print reaches the       *)
(* window of Pythonwin, or what is kept of it, once and in order.          *)
(***************************************************************************)
EXTENDS OutputWindow, TLAPS

Item == Threads \X (Nat \ {0})
Call == [step : {"check", "create", "pump"}, by : {"idle", "print"}, items : Seq(Item),
         empty : BOOLEAN]

TypeOK ==
  /\ queue \in Seq(Item) /\ text \in Seq(Item) /\ killBuffer \in Seq(Item)
  /\ stack \in Seq(Call) /\ written \in [Threads -> Nat]
  /\ posting \subseteq Others /\ wake \in BOOLEAN /\ idle \in BOOLEAN
  /\ handling \in BOOLEAN /\ open \in BOOLEAN /\ bCreating \in BOOLEAN
  /\ errorCantRecreate \in BOOLEAN /\ nested \in BOOLEAN
  /\ closes \in Nat /\ interrupts \in Nat

(* The text is in the window, or kept for the next one.  A window is made  *)
(* by the only QueueFlush there is; those below the innermost one wait for *)
(* their paint message, with a window; and once Create has left bCreating  *)
(* behind there is no window and no further QueueFlush.                    *)
Windows ==
  /\ IF open THEN killBuffer = <<>> ELSE text = <<>>
  /\ \A n \in 1 .. Len(stack) - 1 : stack[n].step = "pump"
  /\ \A n \in 1 .. Len(stack) : stack[n].step = "pump" => open \/ bCreating
  /\ In("create") => bCreating
  /\ bCreating => ~ open /\ Len(stack) <= 1 /\ ~ In("check")

Seen == IF open THEN text ELSE killBuffer

InHand(calls)     == UNION {ToSet(calls[n].items) : n \in 1 .. Len(calls)}
All(s, q, calls)  == ToSet(s) \cup ToSet(q) \cup InHand(calls)

Sorted(R, s)  == \A i, j \in 1 .. Len(s) : i < j => <<s[i], s[j]>> \in R
Ahead(R, s, u) == \A i \in 1 .. Len(s), j \in 1 .. Len(u) : <<s[i], u[j]>> \in R

Arranged(R, s, q, calls) ==
  /\ Sorted(R, s) /\ Sorted(R, q) /\ Ahead(R, s, q)
  /\ \A n \in 1 .. Len(calls) : /\ Sorted(R, calls[n].items)
                                /\ Ahead(R, s, calls[n].items)
                                /\ Ahead(R, calls[n].items, q)
  /\ \A m, n \in 1 .. Len(calls) : m # n => Ahead(R, calls[m].items, calls[n].items)

Differ  == {p \in Item \X Item : p[1] # p[2]}
Earlier == {p \in Item \X Item : p[1][1] = p[2][1] => p[1][2] < p[2][2]}

-----------------------------------------------------------------------------
(* What is at an index of the sequences that the code makes.               *)

LEMMA AppendAt ==
  ASSUME NEW T, NEW s \in Seq(T), NEW x \in T
  PROVE  /\ Append(s, x) \in Seq(T) /\ Len(Append(s, x)) = Len(s) + 1
         /\ \A i \in 1 .. Len(s) : Append(s, x)[i] = s[i]
         /\ Append(s, x)[Len(s) + 1] = x
OBVIOUS

LEMMA ConcatAt ==
  ASSUME NEW T, NEW s \in Seq(T), NEW u \in Seq(T)
  PROVE  /\ s \o u \in Seq(T) /\ Len(s \o u) = Len(s) + Len(u)
         /\ \A i \in 1 .. Len(s) : (s \o u)[i] = s[i]
         /\ \A i \in 1 .. Len(u) : (s \o u)[Len(s) + i] = u[i]
         /\ \A i \in 1 .. Len(s) + Len(u) : i > Len(s) => i - Len(s) \in 1 .. Len(u)
                                                      /\ (s \o u)[i] = u[i - Len(s)]
OBVIOUS

LEMMA SubSeqAt ==
  ASSUME NEW T, NEW s \in Seq(T), NEW n \in 0 .. Len(s)
  PROVE  /\ SubSeq(s, 1, n) \in Seq(T) /\ Len(SubSeq(s, 1, n)) = n
         /\ \A i \in 1 .. n : SubSeq(s, 1, n)[i] = s[i]
         /\ SubSeq(s, n + 1, Len(s)) \in Seq(T) /\ Len(SubSeq(s, n + 1, Len(s))) = Len(s) - n
         /\ \A i \in 1 .. Len(s) - n : SubSeq(s, n + 1, Len(s))[i] = s[n + i]
OBVIOUS

LEMMA FrontAt ==
  ASSUME NEW T, NEW s \in Seq(T), s # <<>>
  PROVE  /\ Len(s) \in 1 .. Len(s) /\ Front(s) \in Seq(T) /\ Len(Front(s)) = Len(s) - 1
         /\ \A i \in 1 .. Len(s) - 1 : Front(s)[i] = s[i]
         /\ Last(s) = s[Len(s)] /\ Last(s) \in T
<1>1. Len(s) \in Nat \ {0}
  OBVIOUS
<1>2. /\ SubSeq(s, 1, Len(s) - 1) \in Seq(T) /\ Len(SubSeq(s, 1, Len(s) - 1)) = Len(s) - 1
      /\ \A i \in 1 .. Len(s) - 1 : SubSeq(s, 1, Len(s) - 1)[i] = s[i]
  <2>1. PICK n \in 0 .. Len(s) : n = Len(s) - 1
    BY <1>1
  <2> QED  BY <2>1, SubSeqAt
<1>3. s[Len(s)] \in T
  BY <1>1
<1> QED
  BY <1>1, <1>2, <1>3 DEF Front, Last

Among(x, s) == \E i \in 1 .. Len(s) : x = s[i]

LEMMA ElementsAre ==
  ASSUME NEW T, NEW s \in Seq(T)
  PROVE  \A x : x \in ToSet(s) <=> Among(x, s)
BY DEF ToSet, Among

(* What is among the text, in terms of the sequences.                      *)
Holds(x, calls) == \E n \in 1 .. Len(calls) : Among(x, calls[n].items)

LEMMA ItemsType ==
  ASSUME NEW calls \in Seq(Call)
  PROVE  \A n \in 1 .. Len(calls) : calls[n].items \in Seq(Item)
<1>1. \A n \in 1 .. Len(calls) : calls[n] \in Call
  OBVIOUS
<1> QED  BY <1>1 DEF Call

LEMMA AllAre ==
  ASSUME NEW s \in Seq(Item), NEW q \in Seq(Item), NEW calls \in Seq(Call)
  PROVE  \A x : x \in All(s, q, calls) <=> Among(x, s) \/ Among(x, q) \/ Holds(x, calls)
<1>1. \A n \in 1 .. Len(calls) : \A x : x \in ToSet(calls[n].items) <=> Among(x, calls[n].items)
  BY ItemsType, ElementsAre
<1>2. \A x : x \in InHand(calls) <=> Holds(x, calls)
  <2>1. \A x : x \in InHand(calls) <=> \E n \in 1 .. Len(calls) : x \in ToSet(calls[n].items)
    BY DEF InHand
  <2> QED  BY <1>1, <2>1 DEF Holds
<1> QED
  BY <1>2, ElementsAre DEF All

-----------------------------------------------------------------------------
(* What the moves of the text do to it: an item is added behind all, the   *)
(* first items of the queue are taken by a new call, the innermost call    *)
(* shows what it has or drops it.  Relation R holds between any two        *)
(* positions, the one that has come farther first.                         *)

LEMMA Added ==
  ASSUME NEW s \in Seq(Item), NEW q \in Seq(Item), NEW calls \in Seq(Call), NEW x \in Item
  PROVE  /\ All(s, Append(q, x), calls) = All(s, q, calls) \cup {x}
         /\ \A R : Arranged(R, s, q, calls) /\ (\A y \in All(s, q, calls) : <<y, x>> \in R)
                     => Arranged(R, s, Append(q, x), calls)
<1> DEFINE q2 == Append(q, x)
<1>1. /\ q2 \in Seq(Item) /\ Len(q2) = Len(q) + 1 /\ Len(q) \in Nat
      /\ \A i \in 1 .. Len(q) : q2[i] = q[i]
      /\ q2[Len(q) + 1] = x
  BY AppendAt
<1> HIDE DEF q2
<1>2. \A y : Among(y, q2) <=> Among(y, q) \/ y = x
  <2>1. 1 .. Len(q2) = 1 .. Len(q) \cup {Len(q) + 1}
    BY <1>1
  <2> QED  BY <1>1, <2>1 DEF Among
<1>3. All(s, q2, calls) = All(s, q, calls) \cup {x}
  BY <1>1, <1>2, AllAre
<1>4. ASSUME NEW R, Arranged(R, s, q, calls), \A y \in All(s, q, calls) : <<y, x>> \in R
      PROVE  Arranged(R, s, q2, calls)
  <2>1. /\ \A i \in 1 .. Len(s) : <<s[i], x>> \in R
        /\ \A i \in 1 .. Len(q) : <<q[i], x>> \in R
    BY <1>4, AllAre DEF Among
  <2>2. ASSUME NEW n \in 1 .. Len(calls), NEW i \in 1 .. Len(calls[n].items)
        PROVE  <<calls[n].items[i], x>> \in R
    <3>1. Holds(calls[n].items[i], calls)
      BY DEF Holds, Among
    <3> QED  BY <3>1, <1>4, AllAre
  <2>3. ASSUME NEW u, Ahead(R, u, q), \A i \in 1 .. Len(u) : <<u[i], x>> \in R
        PROVE  Ahead(R, u, q2)
    BY <1>1, <2>3 DEF Ahead
  <2>4. Sorted(R, q2)
    <3>1. \A i, j \in 1 .. Len(q) : i < j => <<q[i], q[j]>> \in R
      BY <1>4 DEF Sorted, Arranged
    <3>2. ASSUME NEW i \in 1 .. Len(q2), NEW j \in 1 .. Len(q2), i < j
          PROVE  <<q2[i], q2[j]>> \in R
      <4>1. CASE j = Len(q) + 1
        <5>1. i \in 1 .. Len(q)
          BY <1>1, <3>2, <4>1
        <5> QED  BY <1>1, <2>1, <4>1, <5>1
      <4>2. CASE j # Len(q) + 1
        <5>1. i \in 1 .. Len(q) /\ j \in 1 .. Len(q)
          BY <1>1, <3>2, <4>2
        <5> QED  BY <1>1, <3>1, <3>2, <5>1
      <4> QED  BY <4>1, <4>2
    <3> QED  BY <3>2 DEF Sorted
  <2>5. Ahead(R, s, q2)
    BY <1>4, <2>1, <2>3 DEF Arranged
  <2>6. \A n \in 1 .. Len(calls) : Ahead(R, calls[n].items, q2)
    BY <1>4, <2>2, <2>3 DEF Arranged
  <2> QED  BY <1>4, <2>4, <2>5, <2>6 DEF Arranged
<1> QED
  BY <1>3, <1>4 DEF q2

LEMMA TakenKeeps ==
  ASSUME NEW s \in Seq(Item), NEW q \in Seq(Item), NEW calls \in Seq(Call),
         NEW n \in 0 .. Len(q), NEW call \in Call, call.items = SubSeq(q, 1, n),
         NEW rest, rest = SubSeq(q, n + 1, Len(q))
  PROVE  /\ All(s, rest, Append(calls, call)) = All(s, q, calls)
         /\ \A R : /\ Arranged(R, s, q, calls)
                   /\ calls = <<>> \/ \A y, z : <<y, z>> \in R => <<z, y>> \in R
                   => Arranged(R, s, rest, Append(calls, call))
<1> DEFINE new == Append(calls, call)
           u == call.items
<1>1. /\ u \in Seq(Item) /\ Len(u) = n /\ \A i \in 1 .. n : u[i] = q[i]
      /\ rest \in Seq(Item) /\ Len(rest) = Len(q) - n
      /\ \A i \in 1 .. Len(q) - n : rest[i] = q[n + i]
      /\ Len(q) \in Nat /\ n \in Nat /\ n <= Len(q)
  <2>1. /\ SubSeq(q, 1, n) \in Seq(Item) /\ Len(SubSeq(q, 1, n)) = n
        /\ \A i \in 1 .. n : SubSeq(q, 1, n)[i] = q[i]
        /\ SubSeq(q, n + 1, Len(q)) \in Seq(Item) /\ Len(SubSeq(q, n + 1, Len(q))) = Len(q) - n
        /\ \A i \in 1 .. Len(q) - n : SubSeq(q, n + 1, Len(q))[i] = q[n + i]
    BY SubSeqAt
  <2> QED  BY <2>1
<1>2. /\ new \in Seq(Call) /\ Len(new) = Len(calls) + 1 /\ Len(calls) \in Nat
      /\ \A m \in 1 .. Len(calls) : new[m] = calls[m]
      /\ new[Len(calls) + 1] = call
  BY AppendAt
<1>3. 1 .. Len(new) = 1 .. Len(calls) \cup {Len(calls) + 1}
  BY <1>2
<1>4. new[Len(calls) + 1].items = u
  BY <1>2
<1> HIDE DEF new, u
<1>5. \A y : Among(y, q) <=> Among(y, u) \/ Among(y, rest)
  <2>1. ASSUME NEW i \in 1 .. Len(q) PROVE Among(q[i], u) \/ Among(q[i], rest)
    <3>1. CASE i <= n
      <4>1. i \in 1 .. Len(u) /\ u[i] = q[i]
        BY <1>1, <3>1
      <4> QED  BY <4>1 DEF Among
    <3>2. CASE i > n
      <4>1. i - n \in 1 .. Len(rest) /\ n + (i - n) = i
        BY <1>1, <3>2
      <4> QED  BY <1>1, <4>1 DEF Among
    <3> QED  BY <3>1, <3>2
  <2>2. ASSUME NEW i \in 1 .. Len(u) PROVE Among(u[i], q)
    BY <1>1 DEF Among
  <2>3. ASSUME NEW i \in 1 .. Len(rest) PROVE Among(rest[i], q)
    <3>1. n + i \in 1 .. Len(q)
      BY <1>1
    <3> QED  BY <1>1, <3>1 DEF Among
  <2>4. ASSUME NEW y, Among(y, q) PROVE Among(y, u) \/ Among(y, rest)
    BY <2>1, <2>4 DEF Among
  <2>5. ASSUME NEW y, Among(y, u) \/ Among(y, rest) PROVE Among(y, q)
    <3>1. CASE Among(y, u)
      <4>1. PICK i \in 1 .. Len(u) : y = u[i]
        BY <3>1 DEF Among
      <4> QED  BY <4>1, <2>2
    <3>2. CASE Among(y, rest)
      <4>1. PICK i \in 1 .. Len(rest) : y = rest[i]
        BY <3>2 DEF Among
      <4> QED  BY <4>1, <2>3
    <3> QED  BY <2>5, <3>1, <3>2
  <2> QED  BY <2>4, <2>5
<1>6. \A y : Holds(y, new) <=> Holds(y, calls) \/ Among(y, u)
  BY <1>2, <1>3, <1>4 DEF Holds
<1>7. All(s, rest, new) = All(s, q, calls)
  BY <1>1, <1>2, <1>5, <1>6, AllAre
<1>8. ASSUME NEW R, Arranged(R, s, q, calls),
             calls = <<>> \/ \A y, z : <<y, z>> \in R => <<z, y>> \in R
      PROVE  Arranged(R, s, rest, new)
  <2>1. Sorted(R, rest) /\ Sorted(R, u) /\ Ahead(R, u, rest)
    <3>1. \A i, j \in 1 .. Len(q) : i < j => <<q[i], q[j]>> \in R
      BY <1>8 DEF Sorted, Arranged
    <3>2. ASSUME NEW i \in 1 .. Len(rest), NEW j \in 1 .. Len(rest), i < j
          PROVE  <<rest[i], rest[j]>> \in R
      <4>1. n + i \in 1 .. Len(q) /\ n + j \in 1 .. Len(q) /\ n + i < n + j
        BY <1>1, <3>2
      <4> QED  BY <1>1, <3>1, <4>1
    <3>3. ASSUME NEW i \in 1 .. Len(u), NEW j \in 1 .. Len(u), i < j
          PROVE  <<u[i], u[j]>> \in R
      <4>1. /\ i \in 1 .. Len(q) /\ u[i] = q[i]
            /\ j \in 1 .. Len(q) /\ u[j] = q[j]
        BY <1>1
      <4> QED  BY <3>1, <3>3, <4>1
    <3>4. ASSUME NEW i \in 1 .. Len(u), NEW j \in 1 .. Len(rest)
          PROVE  <<u[i], rest[j]>> \in R
      <4>1. i \in 1 .. Len(q) /\ n + j \in 1 .. Len(q) /\ i < n + j
        BY <1>1
      <4> QED  BY <1>1, <3>1, <4>1
    <3> QED  BY <3>2, <3>3, <3>4 DEF Sorted, Ahead
  <2>2. ASSUME NEW w, Ahead(R, w, q) PROVE Ahead(R, w, u) /\ Ahead(R, w, rest)
    <3>1. \A i \in 1 .. Len(w), j \in 1 .. Len(q) : <<w[i], q[j]>> \in R
      BY <2>2 DEF Ahead
    <3>2. ASSUME NEW i \in 1 .. Len(w), NEW j \in 1 .. Len(rest) PROVE <<w[i], rest[j]>> \in R
      <4>1. n + j \in 1 .. Len(q)
        BY <1>1
      <4> QED  BY <1>1, <3>1, <4>1
    <3>3. ASSUME NEW i \in 1 .. Len(w), NEW j \in 1 .. Len(u) PROVE <<w[i], u[j]>> \in R
      <4>1. j \in 1 .. Len(q) /\ u[j] = q[j]
        BY <1>1
      <4> QED  BY <3>1, <4>1
    <3> QED  BY <3>2, <3>3 DEF Ahead
  <2>3. Ahead(R, s, rest) /\ Ahead(R, s, u)
    BY <1>8, <2>2 DEF Arranged
  <2>4. \A m \in 1 .. Len(calls) : /\ Ahead(R, calls[m].items, u)
                                   /\ Ahead(R, calls[m].items, rest)
    BY <1>8, <2>2 DEF Arranged
  <2>5. \A m \in 1 .. Len(calls) : Ahead(R, u, calls[m].items)
    <3>1. CASE calls = <<>>
      BY <3>1
    <3>2. CASE \A y, z : <<y, z>> \in R => <<z, y>> \in R
      BY <2>4, <3>2 DEF Ahead
    <3> QED  BY <1>8, <3>1, <3>2
  <2> QED
    BY <1>2, <1>3, <1>4, <1>8, <2>1, <2>3, <2>4, <2>5 DEF Arranged
<1> QED
  BY <1>7, <1>8 DEF new

LEMMA Shows ==
  ASSUME NEW s \in Seq(Item), NEW q \in Seq(Item), NEW calls \in Seq(Call), calls # <<>>
  PROVE  /\ All(s \o Last(calls).items, q, Front(calls)) = All(s, q, calls)
         /\ \A R : Arranged(R, s, q, calls)
                     => Arranged(R, s \o Last(calls).items, q, Front(calls))
<1>1. PICK n \in 1 .. Len(calls) : n = Len(calls)
  BY FrontAt
<1> DEFINE front == Front(calls)
           u == calls[n].items
           more == s \o u
<1>2. /\ front \in Seq(Call) /\ Len(front) = n - 1 /\ n \in Nat
      /\ \A m \in 1 .. n - 1 : front[m] = calls[m]
      /\ Last(calls).items = u
  <2>1. /\ Front(calls) \in Seq(Call) /\ Len(Front(calls)) = Len(calls) - 1
        /\ \A m \in 1 .. Len(calls) - 1 : Front(calls)[m] = calls[m]
        /\ Last(calls) = calls[Len(calls)]
    BY FrontAt
  <2> QED  BY <1>1, <2>1
<1>3. u \in Seq(Item)
  BY ItemsType
<1>4. /\ more \in Seq(Item) /\ Len(more) = Len(s) + Len(u) /\ Len(s) \in Nat /\ Len(u) \in Nat
      /\ \A i \in 1 .. Len(s) : more[i] = s[i]
      /\ \A i \in 1 .. Len(u) : more[Len(s) + i] = u[i]
      /\ \A i \in 1 .. Len(s) + Len(u) : i > Len(s) => i - Len(s) \in 1 .. Len(u)
                                                      /\ more[i] = u[i - Len(s)]
  BY <1>3, ConcatAt
<1>5. 1 .. Len(calls) = 1 .. Len(front) \cup {n}
  BY <1>1, <1>2
<1> HIDE DEF front, u, more
<1>6. \A y : Among(y, more) <=> Among(y, s) \/ Among(y, u)
  <2>1. ASSUME NEW y, Among(y, more) PROVE Among(y, s) \/ Among(y, u)
    <3>1. PICK i \in 1 .. Len(s) + Len(u) : y = more[i]
      BY <1>4, <2>1 DEF Among
    <3>2. CASE i <= Len(s)
      BY <1>4, <3>1, <3>2 DEF Among
    <3>3. CASE i > Len(s)
      BY <1>4, <3>1, <3>3 DEF Among
    <3> QED  BY <1>4, <3>2, <3>3
  <2>2. ASSUME NEW y, Among(y, s) PROVE Among(y, more)
    <3>1. PICK i \in 1 .. Len(s) : y = s[i]
      BY <2>2 DEF Among
    <3>2. i \in 1 .. Len(more)
      BY <1>4
    <3> QED  BY <1>4, <3>1, <3>2 DEF Among
  <2>3. ASSUME NEW y, Among(y, u) PROVE Among(y, more)
    <3>1. PICK i \in 1 .. Len(u) : y = u[i]
      BY <2>3 DEF Among
    <3>2. Len(s) + i \in 1 .. Len(more)
      BY <1>4
    <3> QED  BY <1>4, <3>1, <3>2 DEF Among
  <2> QED  BY <2>1, <2>2, <2>3
<1>7. \A y : Holds(y, calls) <=> Holds(y, front) \/ Among(y, u)
  <2>1. \A m \in 1 .. Len(front) : front[m].items = calls[m].items
    BY <1>2
  <2> QED  BY <1>5, <2>1 DEF Holds, u
<1>8. All(more, q, front) = All(s, q, calls)
  BY <1>2, <1>4, <1>6, <1>7, AllAre
<1>9. ASSUME NEW R, Arranged(R, s, q, calls) PROVE Arranged(R, more, q, front)
  <2>1. Sorted(R, s) /\ Sorted(R, u) /\ Ahead(R, s, u) /\ Ahead(R, s, q) /\ Ahead(R, u, q)
    BY <1>9 DEF Arranged, u
  <2>2. \A m \in 1 .. Len(front) :
          /\ m \in 1 .. Len(calls) /\ m # n /\ front[m].items = calls[m].items
          /\ Ahead(R, s, front[m].items) /\ Ahead(R, u, front[m].items)
          /\ Sorted(R, front[m].items) /\ Ahead(R, front[m].items, q)
    <3>1. ASSUME NEW m \in 1 .. Len(front)
          PROVE  m \in 1 .. Len(calls) /\ m # n /\ front[m].items = calls[m].items
      BY <1>1, <1>2
    <3> QED  BY <1>9, <3>1 DEF Arranged, u
  <2>3. \A l, m \in 1 .. Len(front) : l # m => Ahead(R, front[l].items, front[m].items)
    BY <1>9, <2>2 DEF Arranged
  <2>4. Sorted(R, more)
    <3> SUFFICES ASSUME NEW i \in 1 .. Len(more), NEW j \in 1 .. Len(more), i < j
                 PROVE  <<more[i], more[j]>> \in R
      BY DEF Sorted
    <3>1. CASE j <= Len(s)
      <4>1. /\ i \in 1 .. Len(s) /\ more[i] = s[i]
            /\ j \in 1 .. Len(s) /\ more[j] = s[j]
        BY <1>4, <3>1
      <4> QED  BY <2>1, <4>1 DEF Sorted
    <3>2. CASE i <= Len(s) /\ j > Len(s)
      BY <1>4, <2>1, <3>2 DEF Ahead
    <3>3. CASE i > Len(s)
      <4>1. /\ i - Len(s) \in 1 .. Len(u) /\ more[i] = u[i - Len(s)]
            /\ j - Len(s) \in 1 .. Len(u) /\ more[j] = u[j - Len(s)]
            /\ i - Len(s) < j - Len(s)
        BY <1>4, <3>3
      <4> QED  BY <2>1, <4>1 DEF Sorted
    <3> QED  BY <1>4, <3>1, <3>2, <3>3
  <2>5. ASSUME NEW w, Ahead(R, s, w), Ahead(R, u, w) PROVE Ahead(R, more, w)
    <3> SUFFICES ASSUME NEW i \in 1 .. Len(more), NEW j \in 1 .. Len(w)
                 PROVE  <<more[i], w[j]>> \in R
      BY DEF Ahead
    <3>1. CASE i <= Len(s)
      BY <1>4, <2>5, <3>1 DEF Ahead
    <3>2. CASE i > Len(s)
      BY <1>4, <2>5, <3>2 DEF Ahead
    <3> QED  BY <1>4, <3>1, <3>2
  <2>6. Ahead(R, more, q) /\ \A m \in 1 .. Len(front) : Ahead(R, more, front[m].items)
    BY <2>1, <2>2, <2>5
  <2> QED
    BY <2>1, <2>2, <2>3, <2>4, <2>6, <1>9 DEF Arranged
<1> QED
  BY <1>2, <1>8, <1>9 DEF front, more

LEMMA Drops ==
  ASSUME NEW s \in Seq(Item), NEW q \in Seq(Item), NEW calls \in Seq(Call), calls # <<>>
  PROVE  /\ All(s, q, Front(calls)) \subseteq All(s, q, calls)
         /\ \A R : Arranged(R, s, q, calls) => Arranged(R, s, q, Front(calls))
<1> DEFINE front == Front(calls)
<1>1. front \in Seq(Call)
  BY FrontAt
<1>2. \A m \in 1 .. Len(front) : m \in 1 .. Len(calls) /\ front[m] = calls[m]
  <2>1. /\ Len(Front(calls)) = Len(calls) - 1 /\ Len(calls) \in Nat
        /\ \A m \in 1 .. Len(calls) - 1 : Front(calls)[m] = calls[m]
    BY FrontAt
  <2> QED  BY <2>1
<1> HIDE DEF front
<1>3. \A y : Holds(y, front) => Holds(y, calls)
  BY <1>2 DEF Holds
<1>4. All(s, q, front) \subseteq All(s, q, calls)
  BY <1>1, <1>3, AllAre
<1>5. ASSUME NEW R, Arranged(R, s, q, calls) PROVE Arranged(R, s, q, front)
  BY <1>2, <1>5 DEF Arranged
<1> QED
  BY <1>4, <1>5 DEF front

(* A call that goes on keeps what it has.                                  *)
LEMMA GoesOn ==
  ASSUME NEW s \in Seq(Item), NEW q \in Seq(Item), NEW calls \in Seq(Call),
         NEW new \in Seq(Call), Len(new) = Len(calls),
         \A n \in 1 .. Len(calls) : new[n].items = calls[n].items
  PROVE  /\ All(s, q, new) = All(s, q, calls)
         /\ \A R : Arranged(R, s, q, calls) => Arranged(R, s, q, new)
<1>1. \A y : Holds(y, new) <=> Holds(y, calls)
  BY DEF Holds
<1>2. All(s, q, new) = All(s, q, calls)
  BY <1>1, AllAre
<1> QED
  BY <1>2 DEF Arranged

-----------------------------------------------------------------------------
(* The calls of QueueFlush.                                                *)

LEMMA TopIs ==
  ASSUME TypeOK, stack # <<>>
  PROVE  /\ Len(stack) \in 1 .. Len(stack) /\ Top = stack[Len(stack)] /\ Top \in Call
         /\ Top.items \in Seq(Item)
<1>1. Len(stack) \in 1 .. Len(stack) /\ Top = stack[Len(stack)] /\ Top \in Call
  BY FrontAt DEF TypeOK, Top
<1> QED  BY <1>1 DEF Call

LEMMA GoesTo ==
  ASSUME TypeOK, stack # <<>>, NEW step \in {"check", "create", "pump"}, GoOn(step)
  PROVE  /\ stack' \in Seq(Call) /\ Len(stack') = Len(stack) /\ stack' # <<>>
         /\ \A n \in 1 .. Len(stack) : stack'[n].items = stack[n].items
         /\ \A n \in 1 .. Len(stack) - 1 : stack'[n] = stack[n]
         /\ stack'[Len(stack)].step = step /\ Top'.step = step
<1>1. PICK n \in 1 .. Len(stack) : n = Len(stack)
  BY TopIs
<1>2. stack[n] \in Call /\ stack \in Seq(Call)
  BY <1>1 DEF TypeOK
<1> DEFINE call == [stack[n] EXCEPT !.step = step]
<1>3. call \in Call /\ call.items = stack[n].items /\ call.step = step
  BY <1>2 DEF Call
<1>4. stack' = [stack EXCEPT ![n] = call]
  BY <1>1 DEF GoOn
<1> HIDE DEF call
<1>5. /\ stack' \in Seq(Call) /\ Len(stack') = Len(stack)
      /\ \A m \in 1 .. Len(stack) : stack'[m] = IF m = n THEN call ELSE stack[m]
  BY <1>2, <1>3, <1>4
<1>6. stack' # <<>> /\ Top' = stack'[n]
  <2>1. stack' # <<>>
    BY <1>1, <1>5
  <2>2. Last(stack') = stack'[Len(stack')]
    BY <1>5, <2>1, FrontAt
  <2> QED  BY <1>1, <1>5, <2>1, <2>2 DEF Top
<1> QED
  BY <1>1, <1>3, <1>5, <1>6

LEMMA Leaves ==
  ASSUME TypeOK, stack # <<>>, NEW more \in BOOLEAN, Leave(more)
  PROVE  /\ stack' = Front(stack) /\ stack' \in Seq(Call) /\ Len(stack') = Len(stack) - 1
         /\ \A n \in 1 .. Len(stack) - 1 : stack'[n] = stack[n]
         /\ idle' \in BOOLEAN
<1>1. stack' = Front(stack)
  BY DEF Leave
<1>2. idle' \in BOOLEAN
  BY DEF Leave, TypeOK
<1> QED
  BY <1>1, <1>2, FrontAt DEF TypeOK

LEMMA Enters ==
  ASSUME TypeOK, NEW q \in Seq(Item), NEW max \in Nat, NEW by \in {"idle", "print"},
         Enter(max, q, by)
  PROVE  \E n \in 0 .. Len(q) : \E call \in Call :
           /\ call.items = SubSeq(q, 1, n) /\ call.step = "check"
           /\ queue' = SubSeq(q, n + 1, Len(q)) /\ stack' = Append(stack, call)
           /\ nested' = (nested \/ stack # <<>>)
<1>1. PICK n \in 0 .. Len(q) : n = IF max < Len(q) THEN max ELSE Len(q)
  <2>1. (IF max < Len(q) THEN max ELSE Len(q)) \in 0 .. Len(q)
    OBVIOUS
  <2> QED  BY <2>1
<1>2. Taken(max, q) = SubSeq(q, 1, n)
  BY <1>1 DEF Taken
<1>3. Taken(max, q) \in Seq(Item) /\ Len(Taken(max, q)) = n
  BY <1>2, SubSeqAt
<1> DEFINE call == [step |-> "check", by |-> by, items |-> Taken(max, q),
                    empty |-> Len(q) < max]
<1>4. (Len(q) < max) \in BOOLEAN
  OBVIOUS
<1>5. call \in Call /\ call.items = SubSeq(q, 1, n) /\ call.step = "check"
  BY <1>2, <1>3, <1>4 DEF Call
<1>6. /\ queue' = SubSeq(q, n + 1, Len(q)) /\ stack' = Append(stack, call)
      /\ nested' = (nested \/ stack # <<>>)
  BY <1>3 DEF Enter
<1> QED
  BY <1>5, <1>6

LEMMA Pushed ==
  ASSUME TypeOK, NEW call \in Call, call.step = "check", stack' = Append(stack, call)
  PROVE  /\ stack' \in Seq(Call) /\ Len(stack') = Len(stack) + 1 /\ stack' # <<>>
         /\ \A n \in 1 .. Len(stack) : stack'[n] = stack[n]
         /\ stack'[Len(stack) + 1].step = "check" /\ Top'.step = "check"
<1>1. /\ stack' \in Seq(Call) /\ Len(stack') = Len(stack) + 1 /\ Len(stack) \in Nat
      /\ \A n \in 1 .. Len(stack) : stack'[n] = stack[n]
      /\ stack'[Len(stack) + 1] = call
  BY AppendAt DEF TypeOK
<1>2. stack' # <<>>
  BY <1>1
<1>3. Top' = stack'[Len(stack')]
  BY <1>1, <1>2, FrontAt DEF Top
<1> QED
  BY <1>1, <1>2, <1>3

LEMMA PutType ==
  ASSUME TypeOK, NEW t \in Threads
  PROVE  /\ <<t, written[t] + 1>> \in Item /\ Put(t) \in Seq(Item)
         /\ Put(t) = Append(queue, <<t, written[t] + 1>>)
<1>1. written[t] + 1 \in Nat \ {0}
  BY DEF TypeOK
<1>2. <<t, written[t] + 1>> \in Item
  BY <1>1 DEF Item
<1> QED
  BY <1>2, AppendAt DEF TypeOK, Put

-----------------------------------------------------------------------------
(* Types.                                                                  *)

LEMMA TypeInit == Init => TypeOK
<1> SUFFICES ASSUME Init PROVE TypeOK
  OBVIOUS
<1>1. <<>> \in Seq(Item) /\ <<>> \in Seq(Call)
  OBVIOUS
<1> QED
  BY <1>1 DEF Init, TypeOK

LEMMA CountType ==
  ASSUME TypeOK, NEW t \in Threads, Count(t)
  PROVE  written' \in [Threads -> Nat] /\ written' = [written EXCEPT ![t] = @ + 1]
BY DEF TypeOK, Count

LEMMA EnterType ==
  ASSUME TypeOK, NEW q \in Seq(Item), NEW max \in Nat, NEW by \in {"idle", "print"},
         Enter(max, q, by)
  PROVE  stack' \in Seq(Call) /\ queue' \in Seq(Item) /\ nested' \in BOOLEAN
<1>1. PICK n \in 0 .. Len(q) : \E call \in Call :
           /\ call.step = "check"
           /\ queue' = SubSeq(q, n + 1, Len(q)) /\ stack' = Append(stack, call)
           /\ nested' = (nested \/ stack # <<>>)
  BY Enters
<1>2. stack' \in Seq(Call)
  BY <1>1, Pushed
<1>3. queue' \in Seq(Item)
  BY <1>1, SubSeqAt
<1> QED  BY <1>1, <1>2, <1>3

LEMMA TypeStep == ASSUME TypeOK, [Next]_vars PROVE TypeOK'
<1>1. CASE UNCHANGED vars
  BY <1>1 DEF vars, TypeOK
<1>2. ASSUME NEW t \in Others, HandleOutput(t) PROVE TypeOK'
  <2>1. t \in Threads
    BY DEF Threads
  <2> QED
    BY <1>2, <2>1, PutType, CountType DEF HandleOutput, TypeOK, loop, window, events
<1>3. ASSUME NEW t \in Others, PostMessage(t) PROVE TypeOK'
  BY <1>3 DEF PostMessage, TypeOK, window, events
<1>4. CASE CheckRecreateWindow
  <2>1. stack # <<>>
    BY <1>4 DEF CheckRecreateWindow, In
  <2>2. stack' \in Seq(Call) /\ idle' \in BOOLEAN
    BY <1>4, <2>1, GoesTo, Leaves DEF CheckRecreateWindow, loop, TypeOK
  <2> QED
    BY <1>4, <2>2 DEF CheckRecreateWindow, TypeOK, output, loop, events
<1>5. CASE Create
  <2>1. stack # <<>>
    BY <1>5 DEF Create, In
  <2>2. stack' \in Seq(Call) /\ idle' \in BOOLEAN
    BY <1>5, <2>1, GoesTo, Leaves DEF Create, loop, TypeOK
  <2>3. <<>> \in Seq(Item)
    OBVIOUS
  <2> QED
    BY <1>5, <2>2, <2>3 DEF Create, TypeOK, output, loop, window, events
<1>6. CASE DoWrite
  <2>1. stack # <<>>
    BY <1>6 DEF DoWrite, In
  <2>2. Top.items \in Seq(Item) /\ Top.empty \in BOOLEAN /\ (Top.by # "idle") \in BOOLEAN
    BY <2>1, TopIs DEF Call
  <2>3. stack' \in Seq(Call) /\ idle' \in BOOLEAN
    BY <1>6, <2>1, <2>2, Leaves DEF DoWrite, Raise
  <2>4. text' \in Seq(Item)
    BY <1>6, <2>2, ConcatAt DEF DoWrite, TypeOK
  <2>5. handling' \in BOOLEAN /\ wake' \in BOOLEAN
    BY <1>6 DEF DoWrite, Raise, TypeOK
  <2> QED
    BY <1>6, <2>3, <2>4, <2>5 DEF DoWrite, TypeOK, output, events
<1>7. CASE QueueIdleHandler
  <2>1. stack' \in Seq(Call) /\ queue' \in Seq(Item) /\ nested' \in BOOLEAN
    BY <1>7, EnterType, WindowAssumption DEF QueueIdleHandler, TypeOK, WindowAssumption
  <2>2. idle' \in BOOLEAN
    BY <1>7 DEF QueueIdleHandler, TypeOK
  <2> QED
    BY <1>7, <2>1, <2>2 DEF QueueIdleHandler, TypeOK, window, events
<1>8. CASE GetMessage
  BY <1>8 DEF GetMessage, TypeOK, output, window, events
<1>9. CASE MainPrints
  <2>1. Main \in Threads
    BY DEF Threads
  <2>2. Put(Main) \in Seq(Item) /\ Len(Put(Main)) + 1 \in Nat
    <3>1. Put(Main) \in Seq(Item)
      BY <2>1, PutType
    <3> QED  BY <3>1
  <2>3. stack' \in Seq(Call) /\ queue' \in Seq(Item) /\ nested' \in BOOLEAN
    BY <1>9, <2>2, EnterType DEF MainPrints, TypeOK
  <2>4. wake' \in BOOLEAN /\ idle' \in BOOLEAN
    BY <1>9 DEF MainPrints, TypeOK
  <2>5. written' \in [Threads -> Nat]
    BY <1>9, <2>1, CountType DEF MainPrints
  <2> QED
    <3>1. UNCHANGED <<posting, handling, open, text, killBuffer, bCreating,
                      errorCantRecreate, closes, interrupts>>
      BY <1>9 DEF MainPrints, window, events
    <3> QED  BY <2>3, <2>4, <2>5, <3>1 DEF TypeOK
<1>10. CASE Close
  <2>1. <<>> \in Seq(Item)
    OBVIOUS
  <2>2. closes' \in Nat
    BY <1>10 DEF Close, TypeOK
  <2>3. /\ open' = FALSE /\ killBuffer' = text /\ text' = <<>> /\ idle' = TRUE
        /\ UNCHANGED <<queue, written, posting, wake, handling, stack, bCreating,
                       errorCantRecreate, interrupts, nested>>
    BY <1>10 DEF Close, output
  <2> QED
    BY <2>1, <2>2, <2>3 DEF TypeOK
<1>11. CASE Interrupt
  <2>1. stack' \in Seq(Call) /\ idle' \in BOOLEAN
    BY <1>11, Leaves DEF Interrupt, Raise
  <2>2. handling' \in BOOLEAN /\ wake' \in BOOLEAN /\ interrupts' \in Nat
    BY <1>11 DEF Interrupt, Raise, TypeOK
  <2> QED
    BY <1>11, <2>1, <2>2 DEF Interrupt, TypeOK, output, window
<1> QED
  BY <1>1, <1>2, <1>3, <1>4, <1>5, <1>6, <1>7, <1>8, <1>9, <1>10, <1>11 DEF Next, MainThread

-----------------------------------------------------------------------------
(* The window and the calls that wait for it.                              *)

LEMMA WindowsInit == ASSUME Init PROVE Windows
BY DEF Init, Windows, In

(* Steps that leave the window alone and take the calls on, or end one.    *)
LEMMA WindowsSame ==
  ASSUME Windows, UNCHANGED <<stack, open, text, killBuffer, bCreating>> PROVE Windows'
BY DEF Windows, In, Top

LEMMA WindowsLeave ==
  ASSUME TypeOK, Windows, stack # <<>>, NEW more \in BOOLEAN, Leave(more),
         bCreating' = bCreating, open' = open, killBuffer' = killBuffer,
         text' = text \/ open
  PROVE  Windows'
<1>1. /\ stack' \in Seq(Call) /\ Len(stack') = Len(stack) - 1 /\ Len(stack) \in Nat
      /\ \A n \in 1 .. Len(stack') : stack'[n] = stack[n] /\ stack[n].step = "pump"
  BY Leaves DEF Windows, TypeOK
<1>2. stack' # <<>> => Top'.step = "pump"
  <2> SUFFICES ASSUME stack' # <<>> PROVE Top'.step = "pump"
    OBVIOUS
  <2>1. Last(stack') = stack'[Len(stack')] /\ Len(stack') \in 1 .. Len(stack')
    BY <1>1, FrontAt
  <2> QED  BY <1>1, <2>1 DEF Top
<1>3. \A n \in 1 .. Len(stack') : open \/ bCreating
  BY <1>1 DEF Windows
<1> QED
  BY <1>1, <1>2, <1>3 DEF Windows, In

LEMMA WindowsPush ==
  ASSUME TypeOK, Windows, NEW call \in Call, call.step = "check",
         stack' = Append(stack, call), ~ bCreating, stack # <<>> => In("pump"),
         UNCHANGED <<open, text, killBuffer, bCreating>>
  PROVE  Windows'
<1>1. /\ stack' \in Seq(Call) /\ Len(stack') = Len(stack) + 1 /\ Len(stack) \in Nat
      /\ \A n \in 1 .. Len(stack) : stack'[n] = stack[n]
      /\ stack'[Len(stack) + 1].step = "check" /\ Top'.step = "check"
  BY Pushed DEF TypeOK
<1>2. \A n \in 1 .. Len(stack) : stack[n].step = "pump"
  <2>1. CASE stack = <<>>
    BY <2>1
  <2>2. CASE stack # <<>>
    BY <2>2, TopIs DEF Windows, In
  <2> QED  BY <2>1, <2>2
<1>3. ~ In("create")'
  BY <1>1 DEF In
<1>4. \A n \in 1 .. Len(stack') : stack'[n].step = "pump" => open \/ bCreating
  <2> SUFFICES ASSUME NEW n \in 1 .. Len(stack'), stack'[n].step = "pump"
               PROVE  open \/ bCreating
    OBVIOUS
  <2>1. n \in 1 .. Len(stack)
    BY <1>1
  <2> QED  BY <1>1, <2>1 DEF Windows
<1> QED
  BY <1>1, <1>2, <1>3, <1>4 DEF Windows

LEMMA WindowsStep == ASSUME TypeOK, Windows, [Next]_vars PROVE Windows'
<1>1. CASE UNCHANGED vars
  BY <1>1, WindowsSame DEF vars
<1>2. ASSUME NEW t \in Others, HandleOutput(t) \/ PostMessage(t) PROVE Windows'
  BY <1>2, WindowsSame DEF HandleOutput, PostMessage, window
<1>3. CASE CheckRecreateWindow
  <2>1. stack # <<>> /\ In("check") /\ ~ bCreating
    BY <1>3 DEF CheckRecreateWindow, In, Windows
  <2>2. UNCHANGED <<open, text, killBuffer>>
    BY <1>3 DEF CheckRecreateWindow
  <2>3. CASE open /\ GoOn("pump") /\ bCreating' = bCreating
    <3>1. /\ stack' \in Seq(Call) /\ Len(stack') = Len(stack) /\ stack' # <<>>
          /\ \A n \in 1 .. Len(stack) - 1 : stack'[n] = stack[n]
          /\ Top'.step = "pump"
      BY <2>1, <2>3, GoesTo
    <3> QED  BY <2>1, <2>2, <2>3, <3>1 DEF Windows, In
  <2>4. CASE ~ open /\ GoOn("create") /\ bCreating'
    <3>1. /\ stack' \in Seq(Call) /\ Len(stack') = Len(stack) /\ stack' # <<>>
          /\ \A n \in 1 .. Len(stack) - 1 : stack'[n] = stack[n]
          /\ stack'[Len(stack)].step = "create" /\ Top'.step = "create"
      BY <2>1, <2>4, GoesTo
    <3>2. Len(stack) <= 1
      <4> SUFFICES ASSUME Len(stack) > 1 PROVE FALSE
        BY <2>1, TopIs
      <4>1. 1 \in 1 .. Len(stack) - 1 /\ 1 \in 1 .. Len(stack)
        BY <2>1, TopIs
      <4> QED  BY <2>1, <2>4, <4>1 DEF Windows
    <3> QED  BY <2>1, <2>2, <2>4, <3>1, <3>2 DEF Windows, In
  <2>5. CASE Leave(FALSE) /\ bCreating' = bCreating
    BY <2>1, <2>2, <2>5, WindowsLeave
  <2> QED
    BY <1>3, <2>3, <2>4, <2>5 DEF CheckRecreateWindow
<1>4. CASE Create
  <2>1. stack # <<>> /\ In("create") /\ bCreating /\ ~ open /\ Len(stack) = 1
    <3>1. stack # <<>> /\ In("create") /\ bCreating
      BY <1>4 DEF Create, In, Windows
    <3>2. ~ open /\ Len(stack) <= 1
      BY <3>1 DEF Windows
    <3>3. Len(stack) \in Nat /\ Len(stack) >= 1
      BY <3>1, TopIs DEF TypeOK
    <3> QED  BY <3>1, <3>2, <3>3
  <2>2. CASE open' = TRUE /\ bCreating' = FALSE /\ text' = killBuffer /\ killBuffer' = <<>>
             /\ GoOn("pump")
    <3>1. /\ stack' \in Seq(Call) /\ Len(stack') = Len(stack) /\ stack' # <<>>
          /\ Top'.step = "pump"
      BY <2>1, <2>2, GoesTo
    <3> QED  BY <2>1, <2>2, <3>1 DEF Windows, In
  <2>3. CASE Leave(FALSE) /\ UNCHANGED <<open, text, killBuffer, bCreating>>
    BY <2>1, <2>3, WindowsLeave
  <2>4. CASE GoOn("pump") /\ UNCHANGED window
    <3>1. /\ stack' \in Seq(Call) /\ Len(stack') = Len(stack) /\ stack' # <<>>
          /\ Top'.step = "pump"
      BY <2>1, <2>4, GoesTo
    <3> QED  BY <2>1, <2>4, <3>1 DEF Windows, In, window
  <2> QED
    BY <1>4, <2>2, <2>3, <2>4 DEF Create
<1>5. CASE DoWrite
  <2>1. stack # <<>> /\ Top.empty \in BOOLEAN
    BY <1>5, TopIs DEF DoWrite, In, Call
  <2>2. UNCHANGED <<open, killBuffer, bCreating>> /\ (text' = text \/ open)
        /\ \E more \in BOOLEAN : Leave(more)
    BY <1>5, <2>1 DEF DoWrite, Raise
  <2> QED  BY <2>1, <2>2, WindowsLeave
<1>6. CASE QueueIdleHandler
  <2>1. UNCHANGED <<open, text, killBuffer, bCreating>> /\ stack = <<>>
    BY <1>6 DEF QueueIdleHandler, window
  <2>2. CASE Enter(Flush, queue, "idle") /\ ~ bCreating
    <3>1. PICK call \in Call : call.step = "check" /\ stack' = Append(stack, call)
      BY <2>2, Enters, WindowAssumption DEF TypeOK, WindowAssumption
    <3> QED  BY <2>1, <2>2, <3>1, WindowsPush
  <2>3. CASE UNCHANGED stack
    BY <2>1, <2>3, WindowsSame
  <2> QED
    BY <1>6, <2>2, <2>3 DEF QueueIdleHandler
<1>7. CASE GetMessage
  BY <1>7, WindowsSame DEF GetMessage, window
<1>8. CASE MainPrints
  <2>1. UNCHANGED <<open, text, killBuffer, bCreating>>
    BY <1>8 DEF MainPrints, window
  <2>2. CASE Enter(Len(Put(Main)) + 1, Put(Main), "print") /\ ~ bCreating
    <3>1. Put(Main) \in Seq(Item)
      BY PutType DEF Threads
    <3>2. Len(Put(Main)) + 1 \in Nat
      BY <3>1
    <3>3. PICK call \in Call : call.step = "check" /\ stack' = Append(stack, call)
      BY <2>2, <3>1, <3>2, Enters
    <3>4. stack # <<>> => In("pump")
      BY <1>8, <2>2 DEF MainPrints, Windows
    <3> QED  BY <2>1, <2>2, <3>3, <3>4, WindowsPush
  <2>3. CASE UNCHANGED stack
    BY <2>1, <2>3, WindowsSame
  <2> QED
    BY <1>8, <2>2, <2>3 DEF MainPrints
<1>9. CASE Close
  BY <1>9 DEF Close, Windows, In, Top
<1>10. CASE Interrupt
  BY <1>10, WindowsLeave DEF Interrupt, Raise, window
<1> QED
  BY <1>1, <1>2, <1>3, <1>4, <1>5, <1>6, <1>7, <1>8, <1>9, <1>10 DEF Next, MainThread

-----------------------------------------------------------------------------
(* The text.                                                               *)

LEMMA SeenType == ASSUME TypeOK PROVE Seen \in Seq(Item)
BY DEF TypeOK, Seen

LEMMA ItemsAre ==
  \A x : x \in Items <=> \E t \in Threads : \E k \in 1 .. written[t] : x = <<t, k>>
BY DEF Items

(* What a thread prints is new, and behind all that it has printed.        *)
LEMMA Fresh ==
  ASSUME TypeOK, NEW t \in Threads, Count(t), NEW x, x = <<t, written[t] + 1>>
  PROVE  /\ Items' = Items \cup {x}
         /\ \A y \in Items : <<y, x>> \in Differ /\ <<y, x>> \in Earlier
<1>1. written' = [written EXCEPT ![t] = @ + 1] /\ written \in [Threads -> Nat]
  BY CountType DEF TypeOK
<1>2. x \in Item
  BY PutType
<1>3. ASSUME NEW y \in Items PROVE <<y, x>> \in Differ /\ <<y, x>> \in Earlier
  <2>1. PICK u \in Threads : \E k \in 1 .. written[u] : y = <<u, k>>
    BY ItemsAre
  <2>2. PICK k \in 1 .. written[u] : y = <<u, k>>
    BY <2>1
  <2>3. written[u] \in Nat /\ k \in Nat \ {0} /\ k <= written[u] /\ written[t] \in Nat
    BY <1>1
  <2>4. y \in Item
    BY <2>2, <2>3 DEF Item
  <2>5. u = t => k < written[t] + 1
    BY <2>3
  <2>6. y[1] = u /\ y[2] = k /\ x[1] = t /\ x[2] = written[t] + 1
    BY <2>2
  <2>7. y # x
    BY <2>3, <2>5, <2>6
  <2>8. <<y, x>> \in Item \X Item
    BY <1>2, <2>4
  <2> QED  BY <2>5, <2>6, <2>7, <2>8 DEF Differ, Earlier
<1>4. Items' = Items \cup {x}
  <2>1. \A u \in Threads \ {t} : written'[u] = written[u]
    BY <1>1
  <2>2. written'[t] = written[t] + 1 /\ written[t] \in Nat
    BY <1>1
  <2>3. 1 .. written'[t] = 1 .. written[t] \cup {written[t] + 1}
    BY <2>2
  <2>4. \A y : y \in Items' <=> \E u \in Threads : \E k \in 1 .. written'[u] : y = <<u, k>>
    BY DEF Items
  <2>5. ASSUME NEW y \in Items' PROVE y \in Items \cup {x}
    <3>1. PICK u \in Threads : \E k \in 1 .. written'[u] : y = <<u, k>>
      BY <2>4
    <3>2. PICK k \in 1 .. written'[u] : y = <<u, k>>
      BY <3>1
    <3>3. k \in 1 .. written[u] \/ y = x
      BY <2>1, <2>3, <3>2
    <3> QED  BY <3>2, <3>3, ItemsAre
  <2>6. ASSUME NEW y \in Items PROVE y \in Items'
    <3>1. PICK u \in Threads : \E k \in 1 .. written[u] : y = <<u, k>>
      BY ItemsAre
    <3>2. PICK k \in 1 .. written[u] : y = <<u, k>>
      BY <3>1
    <3>3. k \in 1 .. written'[u]
      BY <2>1, <2>3
    <3> QED  BY <2>4, <3>2, <3>3
  <2>7. x \in Items'
    <3>1. written[t] + 1 \in 1 .. written'[t]
      BY <2>2
    <3> QED  BY <2>4, <3>1
  <2> QED  BY <2>5, <2>6, <2>7
<1> QED
  BY <1>3, <1>4

(* Where the text is as it should be: s is shown, or was, q waits and the  *)
(* calls have the rest.  It is in order unless a call was made in another. *)
Flows(s, q, calls, inside, items) ==
  /\ Arranged(Differ, s, q, calls)
  /\ ~ inside => Len(calls) <= 1 /\ Arranged(Earlier, s, q, calls)
  /\ All(s, q, calls) \subseteq items

LEMMA FlowsAdded ==
  ASSUME TypeOK, NEW t \in Threads, Count(t), NEW s \in Seq(Item),
         Flows(s, queue, stack, nested, Items)
  PROVE  /\ Flows(s, Put(t), stack, nested, Items')
         /\ All(s, queue, stack) = Items => All(s, Put(t), stack) = Items'
<1>1. PICK x \in Item : x = <<t, written[t] + 1>> /\ Put(t) = Append(queue, x)
  BY PutType
<1>2. /\ Items' = Items \cup {x}
      /\ \A y \in Items : <<y, x>> \in Differ /\ <<y, x>> \in Earlier
  BY <1>1, Fresh
<1>3. All(s, queue, stack) \subseteq Items
  BY DEF Flows
<1>4. queue \in Seq(Item) /\ stack \in Seq(Call)
  BY DEF TypeOK
<1>5. All(s, Put(t), stack) = All(s, queue, stack) \cup {x}
  <2>1. All(s, Append(queue, x), stack) = All(s, queue, stack) \cup {x}
    BY <1>4, Added
  <2> QED  BY <1>1, <2>1
<1>6. Arranged(Differ, s, Put(t), stack)
  BY <1>1, <1>2, <1>3, <1>4, Added DEF Flows
<1>7. ~ nested => Len(stack) <= 1 /\ Arranged(Earlier, s, Put(t), stack)
  BY <1>1, <1>2, <1>3, <1>4, Added DEF Flows
<1> QED
  BY <1>2, <1>3, <1>5, <1>6, <1>7 DEF Flows

LEMMA FlowsTaken ==
  ASSUME TypeOK, NEW s \in Seq(Item), NEW q \in Seq(Item), NEW items,
         Flows(s, q, stack, nested, items),
         NEW max \in Nat, NEW by \in {"idle", "print"}, Enter(max, q, by)
  PROVE  /\ Flows(s, queue', stack', nested', items)
         /\ All(s, queue', stack') = All(s, q, stack)
<1>1. PICK n \in 0 .. Len(q) : \E call \in Call :
           /\ call.items = SubSeq(q, 1, n) /\ call.step = "check"
           /\ queue' = SubSeq(q, n + 1, Len(q)) /\ stack' = Append(stack, call)
           /\ nested' = (nested \/ stack # <<>>)
  BY Enters
<1>2. PICK call \in Call :
           /\ call.items = SubSeq(q, 1, n) /\ call.step = "check"
           /\ queue' = SubSeq(q, n + 1, Len(q)) /\ stack' = Append(stack, call)
           /\ nested' = (nested \/ stack # <<>>)
  BY <1>1
<1>3. stack \in Seq(Call)
  BY DEF TypeOK
<1>4. /\ All(s, queue', stack') = All(s, q, stack)
      /\ \A R : /\ Arranged(R, s, q, stack)
                /\ stack = <<>> \/ \A y, z : <<y, z>> \in R => <<z, y>> \in R
                => Arranged(R, s, queue', stack')
  BY <1>2, <1>3, TakenKeeps
<1>5. \A y, z : <<y, z>> \in Differ => <<z, y>> \in Differ
  BY DEF Differ
<1>6. Arranged(Differ, s, queue', stack')
  BY <1>4, <1>5 DEF Flows
<1>7. ASSUME ~ nested' PROVE Len(stack') <= 1 /\ Arranged(Earlier, s, queue', stack')
  <2>1. ~ nested /\ stack = <<>>
    BY <1>2, <1>7 DEF TypeOK
  <2>2. Len(stack') = Len(stack) + 1 /\ Len(stack) = 0
    BY <1>2, <2>1, Pushed
  <2> QED  BY <1>4, <2>1, <2>2 DEF Flows
<1> QED
  BY <1>4, <1>6, <1>7 DEF Flows

LEMMA FlowsShown ==
  ASSUME TypeOK, stack # <<>>, NEW s \in Seq(Item), NEW items,
         Flows(s, queue, stack, nested, items)
  PROVE  /\ Flows(s \o Top.items, queue, Front(stack), nested, items)
         /\ All(s \o Top.items, queue, Front(stack)) = All(s, queue, stack)
<1>1. stack \in Seq(Call) /\ queue \in Seq(Item)
  BY DEF TypeOK
<1>2. /\ All(s \o Top.items, queue, Front(stack)) = All(s, queue, stack)
      /\ \A R : Arranged(R, s, queue, stack)
                  => Arranged(R, s \o Top.items, queue, Front(stack))
  BY <1>1, Shows DEF Top
<1>3. Len(Front(stack)) = Len(stack) - 1 /\ Len(stack) \in Nat
  BY <1>1, FrontAt
<1>4. ~ nested => Len(Front(stack)) <= 1 /\ Arranged(Earlier, s, queue, stack)
  BY <1>3 DEF Flows
<1> QED
  BY <1>2, <1>4 DEF Flows

LEMMA FlowsDropped ==
  ASSUME TypeOK, stack # <<>>, NEW s \in Seq(Item), NEW items,
         Flows(s, queue, stack, nested, items)
  PROVE  Flows(s, queue, Front(stack), nested, items)
<1>1. stack \in Seq(Call) /\ queue \in Seq(Item)
  BY DEF TypeOK
<1>2. /\ All(s, queue, Front(stack)) \subseteq All(s, queue, stack)
      /\ \A R : Arranged(R, s, queue, stack) => Arranged(R, s, queue, Front(stack))
  BY <1>1, Drops
<1>3. Len(Front(stack)) = Len(stack) - 1 /\ Len(stack) \in Nat
  BY <1>1, FrontAt
<1>4. ~ nested => Len(Front(stack)) <= 1 /\ Arranged(Earlier, s, queue, stack)
  BY <1>3 DEF Flows
<1> QED
  BY <1>2, <1>4 DEF Flows

LEMMA FlowsOn ==
  ASSUME TypeOK, stack # <<>>, NEW s \in Seq(Item), NEW items,
         Flows(s, queue, stack, nested, items),
         NEW step \in {"check", "create", "pump"}, GoOn(step)
  PROVE  /\ Flows(s, queue, stack', nested, items)
         /\ All(s, queue, stack') = All(s, queue, stack)
<1>1. stack \in Seq(Call) /\ queue \in Seq(Item)
  BY DEF TypeOK
<1>2. /\ stack' \in Seq(Call) /\ Len(stack') = Len(stack)
      /\ \A n \in 1 .. Len(stack) : stack'[n].items = stack[n].items
  BY GoesTo
<1>3. /\ All(s, queue, stack') = All(s, queue, stack)
      /\ \A R : Arranged(R, s, queue, stack) => Arranged(R, s, queue, stack')
  BY <1>1, <1>2, GoesOn
<1> QED
  BY <1>2, <1>3 DEF Flows

-----------------------------------------------------------------------------
(* Whatever drops text is recorded, and the record stays.                  *)

LEMMA DisturbedStays ==
  ASSUME TypeOK, Windows, [Next]_vars, Undisturbed' PROVE Undisturbed
<1>1. interrupts' = 0 /\ ~ errorCantRecreate' /\ (bCreating' => In("create")')
  BY DEF Undisturbed
<1>2. interrupts = 0 /\ ~ errorCantRecreate
  <2>1. interrupts' \in {interrupts, interrupts + 1} /\ interrupts \in Nat
    BY DEF TypeOK, Next, vars, HandleOutput, PostMessage, MainThread, CheckRecreateWindow,
           Create, DoWrite, QueueIdleHandler, GetMessage, MainPrints, Close, Interrupt, events
  <2>2. errorCantRecreate => errorCantRecreate'
    BY DEF Next, vars, HandleOutput, PostMessage, MainThread, CheckRecreateWindow, Create,
           DoWrite, QueueIdleHandler, GetMessage, MainPrints, Close, Interrupt, window
  <2> QED  BY <1>1, <2>1, <2>2
<1>3. ASSUME bCreating PROVE In("create")
  <2> SUFFICES ASSUME ~ In("create") PROVE FALSE
    OBVIOUS
  <2>1. ~ open /\ Len(stack) <= 1 /\ ~ In("check")
    BY <1>3 DEF Windows
  <2>2. ~ Create /\ ~ CheckRecreateWindow
    BY <2>1 DEF Create, CheckRecreateWindow
  <2>3. bCreating'
    BY <1>3, <2>2 DEF Next, vars, HandleOutput, PostMessage, MainThread,
           DoWrite, QueueIdleHandler, GetMessage, MainPrints, Close, Interrupt, window
  <2>4. CASE stack' = stack
    BY <1>1, <2>3, <2>4 DEF In, Top
  <2>5. CASE DoWrite \/ Interrupt
    <3>1. stack # <<>> /\ stack' = Front(stack)
      BY <2>5 DEF DoWrite, Interrupt, Raise, Leave, In
    <3>2. Len(Front(stack)) = Len(stack) - 1 /\ Front(stack) \in Seq(Call)
          /\ Len(stack) \in 1 .. Len(stack)
      BY <3>1, FrontAt DEF TypeOK
    <3>3. stack' = <<>>
      BY <2>1, <3>1, <3>2
    <3> QED  BY <1>1, <2>3, <3>3 DEF In
  <2> QED
    BY <1>3, <2>2, <2>4, <2>5 DEF Next, vars, HandleOutput, PostMessage, MainThread,
           QueueIdleHandler, GetMessage, MainPrints, Close
<1> QED
  BY <1>2, <1>3 DEF Undisturbed

(* What is shown, or was, and what is kept of it.                          *)
Text ==
  /\ Flows(Seen, queue, stack, nested, Items)
  /\ Undisturbed => All(Seen, queue, stack) = Items

LEMMA TextInit == ASSUME Init PROVE Text
<1>1. Seen = <<>> /\ queue = <<>> /\ stack = <<>> /\ ~ nested
  BY DEF Init, Seen
<1>2. All(<<>>, <<>>, <<>>) = {}
  BY DEF All, InHand, ToSet
<1>3. \A R : Arranged(R, <<>>, <<>>, <<>>)
  BY DEF Arranged, Sorted, Ahead
<1>4. Items = {}
  BY DEF Init, Items
<1> QED
  BY <1>1, <1>2, <1>3, <1>4 DEF Text, Flows

LEMMA Kept ==
  ASSUME UNCHANGED <<open, text, killBuffer>> PROVE Seen' = Seen
BY DEF Seen

LEMMA SameItems == ASSUME UNCHANGED written PROVE Items' = Items
BY DEF Items

LEMMA TextSame ==
  ASSUME TypeOK, Windows, Text, [Next]_vars, Seen' = Seen,
         UNCHANGED <<queue, stack, nested, written>>
  PROVE  Text'
<1>1. Undisturbed' => Undisturbed
  BY DisturbedStays
<1> QED
  BY <1>1, SameItems DEF Text

LEMMA TextAdded ==
  ASSUME TypeOK, Windows, Text, [Next]_vars, NEW t \in Threads, Count(t),
         Seen' = Seen, queue' = Put(t), UNCHANGED <<stack, nested>>
  PROVE  Text'
<1>1. Undisturbed' => Undisturbed
  BY DisturbedStays
<1>2. /\ Flows(Seen, Put(t), stack, nested, Items')
      /\ All(Seen, queue, stack) = Items => All(Seen, Put(t), stack) = Items'
  BY FlowsAdded, SeenType DEF Text
<1> QED
  BY <1>1, <1>2 DEF Text

LEMMA TextOn ==
  ASSUME TypeOK, Windows, Text, [Next]_vars, stack # <<>>, Seen' = Seen,
         NEW step \in {"check", "create", "pump"}, GoOn(step),
         UNCHANGED <<queue, nested, written>>
  PROVE  Text'
<1>1. Undisturbed' => Undisturbed
  BY DisturbedStays
<1>2. /\ Flows(Seen, queue, stack', nested, Items)
      /\ All(Seen, queue, stack') = All(Seen, queue, stack)
  BY FlowsOn, SeenType DEF Text
<1> QED
  BY <1>1, <1>2, SameItems DEF Text

LEMMA TextDropped ==
  ASSUME TypeOK, Text, stack # <<>>, Seen' = Seen, stack' = Front(stack),
         UNCHANGED <<queue, nested, written>>, ~ Undisturbed'
  PROVE  Text'
<1>1. Flows(Seen, queue, Front(stack), nested, Items)
  BY FlowsDropped, SeenType DEF Text
<1> QED
  BY <1>1, SameItems DEF Text

LEMMA TextStep == ASSUME TypeOK, Windows, Text, [Next]_vars PROVE Text'
<1>0. Undisturbed' => Undisturbed
  BY DisturbedStays
<1>1. CASE UNCHANGED vars
  BY <1>1, Kept, TextSame DEF vars
<1>2. ASSUME NEW t \in Others, HandleOutput(t) PROVE Text'
  <2>1. t \in Threads
    BY DEF Threads
  <2> QED  BY <1>2, <2>1, Kept, TextAdded DEF HandleOutput, window
<1>3. ASSUME NEW t \in Others, PostMessage(t) PROVE Text'
  BY <1>3, Kept, TextSame DEF PostMessage, window
<1>4. CASE CheckRecreateWindow
  <2>1. stack # <<>> /\ Seen' = Seen /\ UNCHANGED <<queue, nested, written>>
    BY <1>4, Kept DEF CheckRecreateWindow, In, output
  <2>2. CASE GoOn("pump") \/ GoOn("create")
    BY <2>1, <2>2, TextOn
  <2>3. CASE errorCantRecreate' = TRUE /\ Leave(FALSE)
    BY <2>1, <2>3, TextDropped DEF Leave, Undisturbed
  <2> QED
    BY <1>4, <2>2, <2>3 DEF CheckRecreateWindow
<1>5. CASE Create
  <2>1. stack # <<>> /\ UNCHANGED <<queue, nested, written>>
    BY <1>5 DEF Create, In, output
  <2>2. ~ open
    BY <1>5 DEF Create, Windows
  <2>3. CASE open' = TRUE /\ text' = killBuffer /\ GoOn("pump")
    <3>1. Seen' = Seen
      BY <2>2, <2>3 DEF Seen
    <3> QED  BY <2>1, <2>3, <3>1, TextOn
  <2>4. CASE errorCantRecreate' = TRUE /\ Leave(FALSE) /\ UNCHANGED <<open, text, killBuffer>>
    BY <2>1, <2>4, Kept, TextDropped DEF Leave, Undisturbed
  <2>5. CASE GoOn("pump") /\ UNCHANGED window
    BY <2>1, <2>5, Kept, TextOn DEF window
  <2> QED
    BY <1>5, <2>3, <2>4, <2>5 DEF Create
<1>6. CASE DoWrite
  <2>1. stack # <<>> /\ stack' = Front(stack) /\ In("pump")
        /\ UNCHANGED <<queue, nested, written, open, killBuffer, bCreating>>
    BY <1>6 DEF DoWrite, In, Leave, Raise, output
  <2>2. CASE open /\ text' = text \o Top.items
    <3>1. Seen' = Seen \o Top.items
      BY <2>1, <2>2 DEF Seen
    <3>2. /\ Flows(Seen \o Top.items, queue, Front(stack), nested, Items)
          /\ All(Seen \o Top.items, queue, Front(stack)) = All(Seen, queue, stack)
      BY <2>1, FlowsShown, SeenType DEF Text
    <3> QED
      BY <1>0, <2>1, <3>1, <3>2, SameItems DEF Text
  <2>3. CASE ~ open /\ UNCHANGED text
    <3>1. Len(stack) \in 1 .. Len(stack) /\ stack[Len(stack)].step = "pump"
      BY <2>1, TopIs DEF In
    <3>2. bCreating /\ Len(stack) <= 1
      BY <2>3, <3>1 DEF Windows
    <3>3. Len(Front(stack)) = Len(stack) - 1 /\ Front(stack) \in Seq(Call)
      BY <2>1, FrontAt DEF TypeOK
    <3>4. stack' = <<>>
      BY <2>1, <3>1, <3>2, <3>3
    <3>5. ~ Undisturbed'
      BY <2>1, <3>2, <3>4 DEF Undisturbed, In
    <3> QED
      BY <2>1, <2>3, <3>5, Kept, TextDropped
  <2> QED
    BY <1>6, <2>2, <2>3 DEF DoWrite
<1>7. CASE QueueIdleHandler
  <2>1. Seen' = Seen /\ written' = written
    BY <1>7, Kept DEF QueueIdleHandler, window
  <2>2. CASE Enter(Flush, queue, "idle")
    <3>1. /\ Flows(Seen, queue', stack', nested', Items)
          /\ All(Seen, queue', stack') = All(Seen, queue, stack)
      BY <2>2, FlowsTaken, SeenType, WindowAssumption DEF Text, TypeOK, WindowAssumption
    <3> QED
      BY <1>0, <2>1, <3>1, SameItems DEF Text
  <2>3. CASE UNCHANGED <<queue, stack, nested>>
    BY <2>1, <2>3, TextSame
  <2> QED
    BY <1>7, <2>2, <2>3 DEF QueueIdleHandler
<1>8. CASE GetMessage
  BY <1>8, Kept, TextSame DEF GetMessage, window, output
<1>9. CASE MainPrints
  <2>1. Main \in Threads /\ Count(Main) /\ Seen' = Seen
    BY <1>9, Kept DEF MainPrints, window, Threads
  <2>2. CASE Enter(Len(Put(Main)) + 1, Put(Main), "print")
    <3>1. Put(Main) \in Seq(Item)
      BY <2>1, PutType
    <3>2. Len(Put(Main)) + 1 \in Nat
      BY <3>1
    <3>3. /\ Flows(Seen, Put(Main), stack, nested, Items')
          /\ All(Seen, queue, stack) = Items => All(Seen, Put(Main), stack) = Items'
      BY <2>1, FlowsAdded, SeenType DEF Text
    <3>4. /\ Flows(Seen, queue', stack', nested', Items')
          /\ All(Seen, queue', stack') = All(Seen, Put(Main), stack)
      BY <2>2, <3>1, <3>2, <3>3, FlowsTaken, SeenType
    <3> QED
      BY <1>0, <2>1, <3>3, <3>4 DEF Text
  <2>3. CASE queue' = Put(Main) /\ UNCHANGED <<stack, nested>>
    BY <2>1, <2>3, TextAdded
  <2> QED
    BY <1>9, <2>2, <2>3 DEF MainPrints
<1>10. CASE Close
  <2>1. Seen' = Seen
    BY <1>10 DEF Close, Seen
  <2> QED
    BY <1>10, <2>1, TextSame DEF Close, output
<1>11. CASE Interrupt
  <2>1. stack # <<>> /\ stack' = Front(stack) /\ UNCHANGED <<queue, nested, written>>
        /\ UNCHANGED <<open, text, killBuffer>>
    BY <1>11 DEF Interrupt, Raise, Leave, output, window
  <2>2. ~ Undisturbed'
    BY <1>11 DEF Interrupt, Undisturbed, TypeOK
  <2> QED
    BY <2>1, <2>2, Kept, TextDropped
<1> QED
  BY <1>1, <1>2, <1>3, <1>4, <1>5, <1>6, <1>7, <1>8, <1>9, <1>10, <1>11 DEF Next, MainThread

LEMMA Invariance == Spec => [](TypeOK /\ Windows /\ Text)
<1>1. Init => TypeOK /\ Windows /\ Text
  BY TypeInit, WindowsInit, TextInit
<1>2. TypeOK /\ Windows /\ Text /\ [Next]_vars => (TypeOK /\ Windows /\ Text)'
  BY TypeStep, WindowsStep, TextStep
<1> QED
  BY <1>1, <1>2, PTL DEF Spec

-----------------------------------------------------------------------------
(* The positions of the text, and what the order of the parts says of them. *)

LEMMA ContentIs ==
  /\ Content(<<"killBuffer", 0>>) = killBuffer /\ Content(<<"text", 0>>) = text
  /\ Content(<<"queue", 0>>) = queue
  /\ \A n : Content(<<"hand", n>>) = stack[n].items
BY DEF Content

LEMMA PlacesAre ==
  ASSUME TypeOK
  PROVE  \A p \in Places :
           \/ p = <<"killBuffer", 0>> \/ p = <<"text", 0>> \/ p = <<"queue", 0>>
           \/ \E n \in 1 .. Len(stack) : p = <<"hand", n>>
<1>1. DOMAIN stack = 1 .. Len(stack)
  BY DEF TypeOK
<1> QED
  BY <1>1 DEF Places

LEMMA PlacesThere ==
  ASSUME TypeOK
  PROVE  /\ <<"killBuffer", 0>> \in Places /\ <<"text", 0>> \in Places
         /\ <<"queue", 0>> \in Places
         /\ \A n \in 1 .. Len(stack) : <<"hand", n>> \in Places
<1>1. DOMAIN stack = 1 .. Len(stack)
  BY DEF TypeOK
<1> QED
  BY <1>1 DEF Places

LEMMA ContentType == ASSUME TypeOK PROVE \A p \in Places : Content(p) \in Seq(Item)
<1>1. \A n \in 1 .. Len(stack) : stack[n].items \in Seq(Item)
  BY ItemsType DEF TypeOK
<1> QED
  BY <1>1, PlacesAre, ContentIs DEF TypeOK

LEMMA PlacesArranged ==
  ASSUME TypeOK, Windows, NEW R, Arranged(R, Seen, queue, stack)
  PROVE  /\ \A p \in Places : Sorted(R, Content(p))
         /\ \A p, q \in Places :
              \/ Way[p[1]] < Way[q[1]]
              \/ p # q /\ p[1] = "hand" /\ q[1] = "hand"
              => Ahead(R, Content(p), Content(q))
<1>1. \A u : Sorted(R, <<>>) /\ Ahead(R, <<>>, u) /\ Ahead(R, u, <<>>)
  BY DEF Sorted, Ahead
<1>2. /\ Sorted(R, killBuffer) /\ Sorted(R, text) /\ Sorted(R, queue)
      /\ Ahead(R, killBuffer, text)
      /\ Ahead(R, killBuffer, queue) /\ Ahead(R, text, queue)
      /\ \A n \in 1 .. Len(stack) : /\ Ahead(R, killBuffer, stack[n].items)
                                    /\ Ahead(R, text, stack[n].items)
  BY <1>1 DEF Arranged, Windows, Seen
<1>3. /\ \A n \in 1 .. Len(stack) : /\ Sorted(R, stack[n].items)
                                    /\ Ahead(R, stack[n].items, queue)
      /\ \A m, n \in 1 .. Len(stack) : m # n => Ahead(R, stack[m].items, stack[n].items)
  BY DEF Arranged
<1>4. \A p \in Places : Sorted(R, Content(p))
  BY <1>2, <1>3, PlacesAre, ContentIs
<1>5. ASSUME NEW p \in Places, NEW q \in Places,
             \/ Way[p[1]] < Way[q[1]]
             \/ p # q /\ p[1] = "hand" /\ q[1] = "hand"
      PROVE  Ahead(R, Content(p), Content(q))
  <2>1. /\ Way["killBuffer"] = 1 /\ Way["text"] = 2 /\ Way["hand"] = 3 /\ Way["queue"] = 4
    BY DEF Way
  <2>2. CASE p = <<"killBuffer", 0>>
    <3>1. q # <<"killBuffer", 0>>
      BY <1>5, <2>1, <2>2
    <3>2. CASE q = <<"text", 0>> \/ q = <<"queue", 0>>
      BY <1>2, <2>2, <3>2, ContentIs
    <3>3. ASSUME NEW n \in 1 .. Len(stack), q = <<"hand", n>>
          PROVE  Ahead(R, Content(p), Content(q))
      BY <1>2, <2>2, <3>3, ContentIs
    <3> QED
      BY <3>1, <3>2, <3>3, PlacesAre
  <2>3. CASE p = <<"text", 0>>
    BY <1>2, <1>5, <2>1, <2>3, PlacesAre, ContentIs
  <2>4. CASE p = <<"queue", 0>>
    BY <1>5, <2>1, <2>4, PlacesAre
  <2>5. ASSUME NEW n \in 1 .. Len(stack), p = <<"hand", n>>
        PROVE  Ahead(R, Content(p), Content(q))
    BY <1>3, <1>5, <2>1, <2>5, PlacesAre, ContentIs
  <2> QED
    BY <2>2, <2>3, <2>4, <2>5, PlacesAre
<1> QED
  BY <1>4, <1>5

LEMMA PositionsAre ==
  ASSUME TypeOK
  PROVE  \A x : x \in Positions <=>
           \E p \in Places : \E i \in 1 .. Len(Content(p)) : x = <<p, i>>
<1>1. \A p \in Places : DOMAIN Content(p) = 1 .. Len(Content(p))
  BY ContentType
<1>2. \A x : x \in Positions <=> \E p \in Places : x \in {p} \X DOMAIN Content(p)
  BY DEF Positions
<1> QED
  BY <1>1, <1>2

(* Between two positions of which one is farther the relation holds.       *)
LEMMA PositionsArranged ==
  ASSUME TypeOK, Windows, NEW R, Arranged(R, Seen, queue, stack),
         NEW x \in Positions, NEW y \in Positions,
         \/ Before(x, y)
         \/ x[1] # y[1] /\ x[1][1] = "hand" /\ y[1][1] = "hand"
  PROVE  <<ItemAt(x), ItemAt(y)>> \in R
<1>1. PICK p \in Places : \E i \in 1 .. Len(Content(p)) : x = <<p, i>>
  BY PositionsAre
<1>2. PICK i \in 1 .. Len(Content(p)) : x = <<p, i>>
  BY <1>1
<1>3. PICK q \in Places : \E j \in 1 .. Len(Content(q)) : y = <<q, j>>
  BY PositionsAre
<1>4. PICK j \in 1 .. Len(Content(q)) : y = <<q, j>>
  BY <1>3
<1>5. ItemAt(x) = Content(p)[i] /\ ItemAt(y) = Content(q)[j]
  BY <1>2, <1>4 DEF ItemAt
<1>6. CASE p = q /\ i < j
  <2>1. Sorted(R, Content(p))
    BY PlacesArranged
  <2> QED  BY <1>5, <1>6, <2>1 DEF Sorted
<1>7. CASE Way[p[1]] < Way[q[1]] \/ (p # q /\ p[1] = "hand" /\ q[1] = "hand")
  <2>1. Ahead(R, Content(p), Content(q))
    BY <1>7, PlacesArranged
  <2> QED  BY <1>5, <2>1 DEF Ahead
<1> QED
  BY <1>2, <1>4, <1>6, <1>7 DEF Before

(* Two positions are the same, or one is farther, or two calls have them.  *)
LEMMA PositionsApart ==
  ASSUME TypeOK, NEW x \in Positions, NEW y \in Positions, x # y
  PROVE  \/ Before(x, y) \/ Before(y, x)
         \/ x[1] # y[1] /\ x[1][1] = "hand" /\ y[1][1] = "hand"
<1>1. PICK p \in Places : \E i \in 1 .. Len(Content(p)) : x = <<p, i>>
  BY PositionsAre
<1>2. PICK i \in 1 .. Len(Content(p)) : x = <<p, i>>
  BY <1>1
<1>3. PICK q \in Places : \E j \in 1 .. Len(Content(q)) : y = <<q, j>>
  BY PositionsAre
<1>4. PICK j \in 1 .. Len(Content(q)) : y = <<q, j>>
  BY <1>3
<1>5. CASE p = q
  <2>1. i # j /\ i \in Int /\ j \in Int
    BY <1>2, <1>4, <1>5
  <2> QED  BY <1>2, <1>4, <1>5, <2>1 DEF Before
<1>6. CASE p # q
  <2>1. /\ Way["killBuffer"] = 1 /\ Way["text"] = 2 /\ Way["hand"] = 3 /\ Way["queue"] = 4
    BY DEF Way
  <2>2. Way[p[1]] < Way[q[1]] \/ Way[q[1]] < Way[p[1]] \/ (p[1] = "hand" /\ q[1] = "hand")
    BY <1>6, <2>1, PlacesAre
  <2> QED  BY <1>2, <1>4, <1>6, <2>2 DEF Before
<1> QED
  BY <1>5, <1>6

LEMMA AllAtPositions ==
  ASSUME TypeOK, Windows
  PROVE  {ItemAt(x) : x \in Positions} = All(Seen, queue, stack)
<1>1. ASSUME NEW x \in Positions PROVE ItemAt(x) \in All(Seen, queue, stack)
  <2>1. PICK p \in Places : \E i \in 1 .. Len(Content(p)) : x = <<p, i>>
    BY PositionsAre
  <2>2. PICK i \in 1 .. Len(Content(p)) : x = <<p, i>>
    BY <2>1
  <2>3. Among(ItemAt(x), Content(p))
    BY <2>2 DEF ItemAt, Among
  <2>4. \A z : ~ Among(z, <<>>)
    BY DEF Among
  <2>5. CASE p = <<"killBuffer", 0>> \/ p = <<"text", 0>>
    <3>1. Among(ItemAt(x), Seen)
      BY <2>3, <2>4, <2>5, ContentIs DEF Windows, Seen
    <3> QED  BY <3>1, AllAre, SeenType DEF TypeOK
  <2>6. CASE p = <<"queue", 0>>
    BY <2>3, <2>6, ContentIs, AllAre, SeenType DEF TypeOK
  <2>7. ASSUME NEW n \in 1 .. Len(stack), p = <<"hand", n>>
        PROVE  ItemAt(x) \in All(Seen, queue, stack)
    <3>1. Holds(ItemAt(x), stack)
      BY <2>3, <2>7, ContentIs DEF Holds
    <3> QED  BY <3>1, AllAre, SeenType DEF TypeOK
  <2> QED  BY <2>5, <2>6, <2>7, PlacesAre
<1>2. ASSUME NEW p \in Places, NEW y, Among(y, Content(p))
      PROVE  y \in {ItemAt(x) : x \in Positions}
  <2>1. PICK i \in 1 .. Len(Content(p)) : y = Content(p)[i]
    BY <1>2 DEF Among
  <2>2. <<p, i>> \in Positions /\ ItemAt(<<p, i>>) = y
    BY <2>1, PositionsAre DEF ItemAt
  <2> QED  BY <2>2
<1>3. ASSUME NEW y \in All(Seen, queue, stack) PROVE y \in {ItemAt(x) : x \in Positions}
  <2>1. Among(y, Seen) \/ Among(y, queue) \/ Holds(y, stack)
    BY AllAre, SeenType DEF TypeOK
  <2>2. CASE Among(y, Seen)
    BY <1>2, <2>2, PlacesThere, ContentIs DEF Seen
  <2>3. CASE Among(y, queue)
    BY <1>2, <2>3, PlacesThere, ContentIs
  <2>4. CASE Holds(y, stack)
    <3>1. PICK n \in 1 .. Len(stack) : Among(y, stack[n].items)
      BY <2>4 DEF Holds
    <3>2. Among(y, Content(<<"hand", n>>)) /\ <<"hand", n>> \in Places
      BY <3>1, PlacesThere, ContentIs
    <3> QED  BY <1>2, <3>2
  <2> QED  BY <2>1, <2>2, <2>3, <2>4
<1> QED
  BY <1>1, <1>3

-----------------------------------------------------------------------------
(* winout.py: text is shown once, or waits to be, whichever threads print  *)
(* it and although the window is closed and made again (until a window     *)
(* cannot be made or a flush is interrupted): for any number of threads    *)
(* and any number of items for each idle call.                             *)
THEOREM ShowsItAll == Spec => []NothingPrintedIsLost
<1>1. ASSUME TypeOK, Windows, Text PROVE NothingPrintedIsLost
  <2>1. Undisturbed => Items = {ItemAt(x) : x \in Positions}
    BY <1>1, AllAtPositions DEF Text
  <2>2. Arranged(Differ, Seen, queue, stack)
    BY <1>1 DEF Text, Flows
  <2>3. \A y : <<y, y>> \notin Differ
    BY DEF Differ
  <2>4. ASSUME NEW x \in Positions, NEW y \in Positions, ItemAt(x) = ItemAt(y), x # y
        PROVE  FALSE
    <3>1. CASE Before(x, y) \/ (x[1] # y[1] /\ x[1][1] = "hand" /\ y[1][1] = "hand")
      BY <1>1, <2>2, <2>3, <2>4, <3>1, PositionsArranged
    <3>2. CASE Before(y, x)
      BY <1>1, <2>2, <2>3, <2>4, <3>2, PositionsArranged
    <3> QED  BY <1>1, <2>4, <3>1, <3>2, PositionsApart
  <2> QED  BY <2>1, <2>4 DEF NothingPrintedIsLost
<1> QED
  BY <1>1, Invariance, PTL

(* ... and in the order in which each thread has printed it, whatever      *)
(* fails, unless a paint handler prints while QueueFlush has text in hand. *)
THEOREM ShowsInOrder == Spec => []ShownInOrder
<1>1. ASSUME TypeOK, Windows, Text PROVE ShownInOrder
  <2> SUFFICES ASSUME ~ nested, NEW x \in Positions, NEW y \in Positions, Before(x, y),
                      ItemAt(x)[1] = ItemAt(y)[1]
               PROVE  ItemAt(x)[2] < ItemAt(y)[2]
    BY DEF ShownInOrder
  <2>1. Arranged(Earlier, Seen, queue, stack)
    BY <1>1 DEF Text, Flows
  <2>2. <<ItemAt(x), ItemAt(y)>> \in Earlier
    BY <1>1, <2>1, PositionsArranged
  <2> QED  BY <2>2 DEF Earlier
<1> QED
  BY <1>1, Invariance, PTL
=============================================================================
