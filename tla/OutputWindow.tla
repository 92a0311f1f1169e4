----------------------------- MODULE OutputWindow -----------------------------
(***************************************************************************)
(* The output window of Pythonwin (pythonwin/pywin/framework/winout.py),   *)
(* to which any thread of the program may print.                           *)
(*                                                                         *)
(* Text goes through a queue: threads append to it and wake the main       *)
(* thread, which takes it out when it is idle, or at once for what it      *)
(* prints itself, makes the window again if the user has closed it, and    *)
(* lets a paint message be handled before it inserts the text.  The        *)
(* message loop and its idle handlers are those of win32thread.cpp and     *)
(* framework/app.py.                                                       *)
(***************************************************************************)
EXTENDS Integers, FiniteSets, Sequences, SequencesExt

CONSTANTS
  Others,         \* the threads that print, but for the main thread
  Main,           \* the main thread
  Flush,          \* the most items that an idle handler takes (20)
  MaxWrites,      \* bound: how often the threads print in all
  MaxCloses,      \* bound: how often the user closes the window
  MaxInterrupts,  \* bound: how often the user presses the break key
  CreateMayFail   \* TRUE if the window may not be made again

ASSUME WindowAssumption ==
  /\ Main \notin Others /\ Flush \in Nat \ {0} /\ MaxWrites \in Nat
  /\ MaxCloses \in Nat /\ MaxInterrupts \in Nat /\ CreateMayFail \in BOOLEAN

Threads == Others \cup {Main}

VARIABLES
  queue,        \* outputQueue
  written,      \* how often each thread has printed
  posting,      \* the threads between their put and their PostMessage
  wake,         \* a WM_USER is in the queue of messages
  idle,         \* bIdle of the message loop
  handling,     \* QueueIdleHandler is in idleHandlers
  stack,        \* the QueueFlush calls of the main thread, innermost last
  open,         \* currentView is a window
  text,         \* the text of that window
  killBuffer,   \* the text of the window that was closed
  bCreating,
  errorCantRecreate,
  closes,       \* how often the window was closed
  interrupts,   \* how often the user interrupted
  nested        \* history: a QueueFlush took place inside another

output == <<queue, written, posting>>
loop   == <<wake, idle, handling>>
window == <<open, text, killBuffer, bCreating, errorCantRecreate>>
events == <<closes, interrupts>>
vars   == <<queue, written, posting, wake, idle, handling, stack, open, text, killBuffer,
            bCreating, errorCantRecreate, closes, interrupts, nested>>

Init ==
  /\ queue = <<>> /\ written = [t \in Threads |-> 0] /\ posting = {}
  /\ wake = FALSE /\ idle = TRUE /\ handling = TRUE
  /\ stack = <<>> /\ nested = FALSE
  /\ open = FALSE /\ text = <<>> /\ killBuffer = <<>>
  /\ bCreating = FALSE /\ errorCantRecreate = FALSE
  /\ closes = 0 /\ interrupts = 0

-----------------------------------------------------------------------------
(* HandleOutput.  Each item is marked with its thread and its number.      *)

Put(t) == Append(queue, <<t, written[t] + 1>>)

Items == UNION {{<<t, k>> : k \in 1 .. written[t]} : t \in Threads}

Count(t) ==
  /\ Cardinality(Items) < MaxWrites
  /\ written' = [written EXCEPT ![t] = @ + 1]

HandleOutput(t) ==
  /\ t \in Others \ posting /\ Count(t) /\ queue' = Put(t)
  /\ posting' = posting \cup {t}
  /\ UNCHANGED <<loop, stack, window, events, nested>>

(* "Let our idle handler get it - wake it up."                             *)
MutNoWake(t) ==
  /\ t \in posting /\ posting' = posting \ {t}
  /\ UNCHANGED <<queue, written, loop, stack, window, events, nested>>
PostMessage(t) ==
  /\ t \in posting /\ posting' = posting \ {t} /\ wake' = TRUE
  /\ UNCHANGED <<queue, written, idle, handling, stack, window, events, nested>>

-----------------------------------------------------------------------------
(* QueueFlush of up to max items: with nothing to show, or while a window  *)
(* is being made, it returns at once that there is nothing to do.          *)

Taken(max, q) == SubSeq(q, 1, IF max < Len(q) THEN max ELSE Len(q))

Enter(max, q, by) ==
  /\ stack' = Append(stack, [step |-> "check", by |-> by, items |-> Taken(max, q),
                             empty |-> Len(q) < max])
  /\ queue' = SubSeq(q, Len(Taken(max, q)) + 1, Len(q))
  /\ nested' = (nested \/ stack # <<>>)

Top == Last(stack)
In(step) == stack # <<>> /\ Top.step = step
GoOn(step) == stack' = [stack EXCEPT ![Len(stack)].step = step]

(* A call ends; what the idle handler returns keeps the loop idle or not.  *)
Leave(more) ==
  /\ stack' = Front(stack)
  /\ idle' = IF Top.by = "idle" THEN more ELSE idle

(* CheckRecreateWindow and RecreateWindow.  When that fails the items are  *)
(* dropped: "In trouble - so say we have nothing to do."                   *)
CheckRecreateWindow ==
  /\ In("check")
  /\ \/ /\ open /\ GoOn("pump") /\ UNCHANGED <<loop, bCreating, errorCantRecreate>>
     \/ /\ ~ open /\ ~ errorCantRecreate
        /\ bCreating' = TRUE /\ GoOn("create") /\ UNCHANGED <<loop, errorCantRecreate>>
     \/ /\ ~ open /\ (errorCantRecreate \/ CreateMayFail)
        /\ errorCantRecreate' = TRUE
        /\ Leave(FALSE) /\ UNCHANGED <<wake, handling, bCreating>>
  /\ UNCHANGED <<output, open, text, killBuffer, events, nested>>

(* Create: the new view shows what the old one had.  OpenDocumentFile may  *)
(* fail with an error, or return no document; bCreating stays set.         *)
Create ==
  /\ In("create")
  /\ \/ /\ open' = TRUE /\ bCreating' = FALSE
        /\ text' = killBuffer /\ killBuffer' = <<>>
        /\ GoOn("pump") /\ UNCHANGED <<loop, errorCantRecreate>>
     \/ /\ CreateMayFail /\ errorCantRecreate' = TRUE
        /\ Leave(FALSE) /\ UNCHANGED <<wake, handling, open, text, killBuffer, bCreating>>
     \/ /\ CreateMayFail /\ GoOn("pump") /\ UNCHANGED <<loop, window>>
  /\ UNCHANGED <<output, events, nested>>

(* An exception leaves QueueFlush: OnIdle takes a handler that raises out  *)
(* of its list, which __init__ alone puts it into.  What it prints of that *)
(* comes as a MainPrints.                                                  *)
Raise ==
  /\ Leave(FALSE)
  /\ handling' = (handling /\ Top.by # "idle")
  /\ UNCHANGED wake

(* PumpWaitingMessages has handled a WM_PAINT, if there was one.           *)
MutInsertFirst ==
  /\ In("pump")
  /\ \/ open /\ text' = Top.items \o text /\ Leave(~ Top.empty) /\ UNCHANGED <<wake, handling>>
     \/ ~ open /\ Raise /\ UNCHANGED text
  /\ UNCHANGED <<output, open, killBuffer, bCreating, errorCantRecreate, events, nested>>
DoWrite ==
  /\ In("pump")
  /\ \/ open /\ text' = text \o Top.items /\ Leave(~ Top.empty) /\ UNCHANGED <<wake, handling>>
     \/ ~ open /\ Raise /\ UNCHANGED text
  /\ UNCHANGED <<output, open, killBuffer, bCreating, errorCantRecreate, events, nested>>

-----------------------------------------------------------------------------
(* The message loop of the main thread: while it is idle and no message    *)
(* waits it calls the idle handlers.                                       *)

QueueIdleHandler ==
  /\ stack = <<>> /\ idle /\ ~ wake
  /\ IF handling /\ ~ bCreating /\ queue # <<>>
     THEN Enter(Flush, queue, "idle") /\ UNCHANGED idle
     ELSE idle' = FALSE /\ UNCHANGED <<queue, stack, nested>>
  /\ UNCHANGED <<written, posting, wake, handling, window, events>>

GetMessage ==
  /\ stack = <<>> /\ wake
  /\ wake' = FALSE /\ idle' = TRUE
  /\ UNCHANGED <<output, handling, stack, window, events, nested>>

(* Python code of the main thread prints as it handles a message: of the   *)
(* loop, of the window that is being made or of the paint that QueueFlush  *)
(* pumps.  What it prints is flushed at once, or left to the idle handler. *)
MainPrints ==
  /\ stack = <<>> \/ In("create") \/ In("pump")
  /\ Count(Main)
  /\ \/ /\ ~ bCreating /\ Enter(Len(Put(Main)) + 1, Put(Main), "print")
        /\ UNCHANGED wake
     \/ /\ wake' = TRUE \/ (bCreating /\ UNCHANGED wake)
        /\ queue' = Put(Main)
        /\ UNCHANGED <<stack, nested>>
  /\ idle' \in IF stack = <<>> THEN {idle, TRUE} ELSE {idle}
  /\ UNCHANGED <<posting, handling, window, events>>

(* The user closes the window: OnViewDestroy.                              *)
MutForgetText ==
  /\ stack = <<>> /\ open /\ closes < MaxCloses
  /\ open' = FALSE /\ text' = <<>> /\ closes' = closes + 1
  /\ idle' = TRUE
  /\ UNCHANGED <<output, wake, handling, stack, killBuffer, bCreating, errorCantRecreate,
                 interrupts, nested>>
Close ==
  /\ stack = <<>> /\ open /\ closes < MaxCloses
  /\ open' = FALSE /\ killBuffer' = text /\ text' = <<>> /\ closes' = closes + 1
  /\ idle' = TRUE
  /\ UNCHANGED <<output, wake, handling, stack, bCreating, errorCantRecreate, interrupts,
                 nested>>

(* The user presses the break key while the main thread is in QueueFlush.  *)
Interrupt ==
  /\ stack # <<>> /\ interrupts < MaxInterrupts /\ interrupts' = interrupts + 1
  /\ Raise
  /\ UNCHANGED <<output, window, closes, nested>>

MainThread ==
  CheckRecreateWindow \/ Create \/ DoWrite \/ QueueIdleHandler \/ GetMessage

Next ==
  \/ \E t \in Others : HandleOutput(t) \/ PostMessage(t)
  \/ MainThread \/ MainPrints \/ Close \/ Interrupt

(* The main thread runs on, and a thread that has put its text in the      *)
(* queue goes on to wake it; that anything else is printed, or that a      *)
(* message comes from elsewhere, is not assumed.                           *)
Spec == Init /\ [][Next]_vars /\ WF_vars(MainThread) /\ \A t \in Others : WF_vars(PostMessage(t))

-----------------------------------------------------------------------------
(* No flush was interrupted and no attempt to make the window has failed.  *)
Undisturbed == interrupts = 0 /\ ~ errorCantRecreate /\ (bCreating => In("create"))

(* Where an item may be: in the window or what is kept of a closed one, in *)
(* the hand of a QueueFlush or in the queue; and its position there.       *)
Places == ({"killBuffer", "text", "queue"} \X {0}) \cup ({"hand"} \X DOMAIN stack)

Content(p) == CASE p[1] = "killBuffer" -> killBuffer
                [] p[1] = "text"       -> text
                [] p[1] = "hand"       -> stack[p[2]].items
                [] p[1] = "queue"      -> queue

Positions == UNION {{p} \X DOMAIN Content(p) : p \in Places}
ItemAt(x) == Content(x[1])[x[2]]

(* The way of the text, from the end: x has come farther than y.          *)
Way == [killBuffer |-> 1, text |-> 2, hand |-> 3, queue |-> 4]
Before(x, y) ==
  \/ Way[x[1][1]] < Way[y[1][1]]
  \/ x[1] = y[1] /\ x[2] < y[2]

(* Text is never lost, and never shown twice, whichever threads print it,  *)
(* although the window is closed and made again (winout.py:5-6: "This      *)
(* Window will detect itself closing, and recreate next time output is     *)
(* written to it").                                                        *)
NothingPrintedIsLost ==
  Undisturbed =>
    /\ Items = {ItemAt(x) : x \in Positions}
    /\ \A x, y \in Positions : ItemAt(x) = ItemAt(y) => x = y

(* What a thread prints is shown in the order in which it was printed,     *)
(* even after failures, unless a paint handler prints.                     *)
ShownInOrder ==
  ~ nested =>
    \A x, y \in Positions :
      Before(x, y) /\ ItemAt(x)[1] = ItemAt(y)[1] => ItemAt(x)[2] < ItemAt(y)[2]

(* "If any thread other than the main thread attempts to print, it is      *)
(* always queued until next idle time" (winout.py:19): that time comes.    *)
Shown(item) == item \in ToSet(killBuffer \o text)
EventuallyShown ==
  \A t \in Others, k \in 1 .. MaxWrites :
    (written[t] = k) ~> (Shown(<<t, k>>) \/ ~ Undisturbed)
=============================================================================
