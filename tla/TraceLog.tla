------------------------------- MODULE TraceLog -------------------------------
(***************************************************************************)
(* What win32trace promises (the comment at the head of                    *)
(* win32/src/win32trace.cpp): a log that writers append chunks of text to  *)
(* and that each read empties.  A chunk is whole and appears once, the     *)
(* chunks of one writer stay in order, and text is discarded only when     *)
(* less than one chunk of the largest size fits.                           *)
(***************************************************************************)
EXTENDS Integers, Sequences

CONSTANTS
  Writers, Readers,
  Capacity,    \* the bytes the log holds
  MaxChunk,    \* the most that is appended at a time
  Positions    \* the numbers a writer gives to the bytes it writes, from 0

VARIABLES
  log,   \* the bytes written and not read
  held,  \* what a reader has taken and not yet returned
  out    \* what a reader has returned

vars == <<log, held, out>>

Bytes == {log[i] : i \in 1 .. Len(log)}
         \cup UNION {held[r] \cup out[r] : r \in Readers}

Init == /\ log = <<>>
        /\ held = [r \in Readers |-> {}] /\ out = [r \in Readers |-> {}]

(* w appends its bytes m + 1 .. m + n, which nobody has seen before.       *)
Put(w, m, n) ==
  /\ Len(log) + n <= Capacity
  /\ \A b \in Bytes : b[1] = w => b[2] <= m
  /\ log' = log \o [k \in 1 .. n |-> <<w, m + k, k = n>>]
  /\ UNCHANGED <<held, out>>

Discard ==
  /\ Len(log) > Capacity - MaxChunk
  /\ log' = <<>>
  /\ UNCHANGED <<held, out>>

Take(r) ==
  /\ held[r] = {}
  /\ held' = [held EXCEPT ![r] = {log[i] : i \in 1 .. Len(log)}]
  /\ log' = <<>>
  /\ UNCHANGED out

Return(r) ==
  /\ out' = [out EXCEPT ![r] = @ \cup held[r]]
  /\ held' = [held EXCEPT ![r] = {}]
  /\ UNCHANGED log

(* The process of r dies with the text it had taken.                       *)
Lose(r) ==
  /\ held' = [held EXCEPT ![r] = {}]
  /\ UNCHANGED <<log, out>>

Next ==
  \/ \E w \in Writers, m \in Positions, n \in 1 .. MaxChunk : Put(w, m, n)
  \/ Discard
  \/ \E r \in Readers : Take(r) \/ Return(r) \/ Lose(r)

Spec == Init /\ [][Next]_vars
=============================================================================
