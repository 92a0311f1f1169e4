# Verification of pywin32

TLA+ models of the parts of pywin32 whose correctness depends on the order in
which processes, threads and callbacks act or on what is left behind when one
call of several fails; TLC configurations that check them on small instances;
and TLAPS proofs of what matters most, for every value of the constants.

Most of the repository (1776 files) wraps one system call after the other and
has no behaviour beyond that call. Nine parts keep state of their own that
several actors share, or carry out protocols of several steps. They are what is
modelled here.

| Part | Source | Modules |
|---|---|---|
| shared trace buffer | `win32/src/win32trace.cpp` | `TraceBuffer`, `TraceLog` (abstract), `TraceBufferProofs`, `MCTraceBuffer` |
| its namespaces and maps | `win32/src/win32trace.cpp`, `win32/Lib/win32traceutil.py` | `TraceSetup`, `TraceSetupProofs`, `MCTraceSetup` |
| service host process | `win32/src/PythonService.cpp`, `ServiceFramework` of `win32/Lib/win32serviceutil.py` | `ServiceHost`, `ServiceLifecycle` (abstract), `ServiceHostProofs`, `MCServiceHost` |
| service control | `win32/Lib/win32serviceutil.py` | `ServiceControl`, `ServiceUtilProofs`, `MCServiceControl` |
| service installation | `win32/Lib/win32serviceutil.py` | `ServiceInstall`, `ServiceUtilProofs`, `MCServiceInstall` |
| ISAPI extensions | `isapi/threaded_extension.py`, `isapi/src/PythonEng.cpp`, `isapi/src/pyISAPI.cpp` | `ThreadPool`, `IsapiHandler` (composes it with the callback manager), `IsapiProofs`, `MCIsapi` |
| local COM server | `com/win32com/src`, `com/win32com/server` | `ComServer`, `ComServerProofs`, `MCComServer` |
| cache of generated COM support | `com/win32com/client/gencache.py`, `makepy.py`, `genpy.py` | `GenCache`, `GenCacheProofs`, `MCGenCache` |
| output window of Pythonwin | `pythonwin/pywin/framework/winout.py`, `app.py`, `pythonwin/win32thread.cpp` | `OutputWindow`, `OutputWindowProofs`, `MCOutputWindow` |

`PROJECT.json` maps every definition to the lines it stands for and lists the
runs, mutants, hazards, findings and theorems. A definition whose name begins
with `Mut` stands before the definition it is a mutation of and is used by no
specification: it is that definition with a plausible bug, and putting it in
that place makes the run that checks the property fail.

## 1. Inventory

### 1.1 Shared trace buffer

*State.* A memory-mapped buffer, first word its length, text behind it; a named
mutex; the auto-reset events `hEvent` ("there is text") and `hEventEmpty`
("there is room"). *Operations.* `write` (WriteData), `read` and `blockingread`
(ReadData). *Interaction.* Through the kernel objects only: any number of
processes write, usually one reads. *Hard.* WriteData gives the mutex up while
it waits for room and takes it again; a process may be killed anywhere, also as
the owner of the mutex; signals of auto-reset events merge; the wait for the
mutex gives up after ten seconds and goes on. *Correct when* one thread at a
time uses the map, no copy leaves it, a reader sees whole chunks in the order in
which each writer wrote them and no chunk twice, text is discarded only when it
does not fit, what is written is eventually read by a collector that blocks, and
`write` always returns.

### 1.2 Namespaces and maps of win32trace

*State.* Named mappings in the global and the session's local namespace; for
each process `use_global_namespace`, its handles and views. *Operations.* The
probing of both namespaces at import, InitRead, InitWrite, TermRead, TermWrite.
*Interaction.* The namespace that one process finds depends on which maps others
hold open; a name disappears with its last handle. *Hard.* The probe and the
opening are separate; MapViewOfFile may fail in between, and then the value of a
handle that was closed is kept and closed again; services, elevated and
ordinary processes come and go. *Correct when* processes of a session that start
one after the other share one map, a map in use can be found by its name (but for
a process that has closed the handle of its one side for the other's), and text
stays while anybody has the map open.

### 1.3 Service host process

*State.* The table entry of each service (`sshStatusHandle`, the control handler
`obServiceCtrlHandler`), each service object (`self.ssh`, `self.checkPoint`, the
event its SvcDoRun waits for), and the SCM's status of the service.
*Operations.* `service_main` on a thread for each start, controls on the
dispatcher's thread. *Interaction.* Callbacks from the SCM into Python; both
threads report to the SCM. *Hard.* The service object may fail to be created in
several ways; the SCM may refuse the registration of the handler; SvcDoRun may raise
or end by itself; controls arrive at any time and may raise;
a process of several services outlives each of them, and its table with it.
*Correct when* the SCM hears of the end of every start, a control acts on the
object that is running, and statuses follow the SCM's lifecycle, checkpoints
included.

### 1.4 Service control

*State.* None but the loops of StopServiceWithDeps, RestartService,
StartService and WaitForServiceStatus, against the SCM's table of services and
their dependences. *Hard.* Services start, stop and end by themselves while the
program polls with a limited number of tries. *Correct when* services are stopped
in an order that the SCM accepts, a stop that returns has stopped everything,
and a restart makes exactly one new instance.

### 1.5 Service installation

*State.* The SCM's configuration of the service, its registry key (class,
options), its performance counters. *Operations.* install (which falls through
to update), update, remove. *Hard.* Any of the calls may fail, with the part
before it done; a deleted service stays while it is in use. *Correct when* a
success is complete, a refused installation leaves nothing, no installation
removes what was there before, and the next attempt works.

### 1.6 ISAPI extensions

*State.* The callback manager (`m_handler` and three cached callbacks), for each
extension object an I/O completion port, workers with `running`, the request
each holds and the user it impersonates, and `dispatch_map`. *Operations.*
HttpExtensionProc, the workers' loop and DispatchConnection,
TerminateExtension, the reload on InternalReloadException. *Interaction.* IIS
calls on many threads; requests pass through the port to the workers; the GIL is
released at each wait. *Hard.* Reload and unload while workers run, dispatch
that raises before or after it has finished the session, factories that fail,
workers that are slow or die and are not replaced. *Correct when* a worker acts as
the user of its own request only, IIS is told once that a request is done, no pool
is forgotten while it runs unless two reloads overlap, requests are answered as long
as there is a worker for them, and all workers end.

### 1.7 Local COM server

*State.* `g_cLockCount`, `dwQuitThreadId`, the main thread's messages and its
stack of calls. *Operations.* registration, resuming and revoking of factories,
CreateInstance, Release, LockServer, `PyCom_DLLAddRef` and
`PyCom_DLLReleaseRef`. *Interaction.* Calls of clients are messages of a
single-threaded apartment, handled also while an outgoing call waits. *Hard.*
Re-entrance of CreateInstance, constructors that take and drop interfaces and
fail, a decision to quit that is taken at the decrement and carried out later.
*Correct when* the server decides to end only when nothing uses it, not before it
has served, and does end once it is idle.

### 1.8 Cache of generated COM support

*State.* A directory that all processes of a user share: for each type library a
module `<library>.py`, or a package with `__init__.py` and the parts that were
needed so far, and `dicts.dat`, the pickled index from interfaces to libraries;
a named mutex for each library; in each process `clsidToTypelib` and
`sys.modules`. *Operations.* The import of gencache (`_LoadDicts`, `Rebuild`),
EnsureModule in full and on demand, GetModuleForCLSID, which generates a part.
*Interaction.* Through the files and the mutex. *Hard.* The package is made and
then filled; a module is removed before its replacement exists; generation fails,
also between the two; processes are killed at any point; dicts.dat is written outside
the mutex. *Correct when* no process imports a package without contents because
another one is about to fill it, a call makes good what was removed before it, and
calls return.

### 1.9 Output window of Pythonwin

*State.* `outputQueue`, the window and the text in it, `killBuffer`, `bCreating`,
`errorCantRecreate`; the messages of the main thread, its idle state and its idle
handlers. *Operations.* HandleOutput on any thread, QueueFlush, CheckRecreateWindow,
OnViewDestroy, the message loop, OnIdle. *Interaction.* Threads put and wake, the main
thread takes when it is idle; while it takes it handles messages of its own, which
may print. *Hard.* Nested flushes, a window that is closed between two texts or cannot
be made, interrupts, a handler that must ask for more idle time. *Correct when* what is
printed is shown once, in the order of its thread, eventually, and outlives the window.

### 1.10 Not modelled

Listed as `not_modelled` in `PROJECT.json`, each with its reason: wrappers of
system calls (the bulk of `win32/src`, `com/win32comext`, gateways and
interfaces), sequential conversions (COM policies, time zones, ODBC, adodbapi),
the rest of an IDE on MFC (Pythonwin) with vendored code, what the code generators
write (makepy, SWIG, AutoDuck) and build scripts; and, as work planned, the service table,
ISAPI filters, the reference counts of gateways, and timers (section 6).

## 2. The models

Every action stands for the code between two points at which another actor can
observe or change shared state; where Python code runs, that is any statement.

**TraceBuffer.** `pc[w]` goes through WriteData: `lock1`, `check` (is there room),
`unlock1`, `signal1` and `empty` (wake the reader and wait for room, with a limit),
`lock2`, `fit` (discard when it still does not fit), `copy`, `grow`, `unlock2`,
`signal2`; a string longer than half of the buffer takes several rounds. `pc[r]`
goes through ReadData likewise. `Crash(t)` kills a process between any two steps;
the kernel then marks the mutex abandoned. Bytes are tagged with writer, position
and end of chunk instead of being characters. `GetMyMutex` succeeds when
the mutex is free or abandoned, and, with `HolderMayStall`, also when it is not.

**TraceLog** is what the comment at the head of win32trace.cpp promises: an
atomic log that `Put` appends to, `Take` empties, and that is discarded only when
less than one chunk of the largest size fits. `Log` in TraceBuffer is the refinement
mapping: the log is the first `len` bytes of the map, and what a reader has copied
but not yet removed counts as still in it.

**TraceSetup.** The kernel's part is CreateFileMapping and `Release` (the last
handle takes the name, the last view or handle the text); the value of a handle that was
closed may be given to the next one of the same process. A process goes through
ProbeLocal, ProbeGlobal, CloseProbe; OpenMap and MapView; Unmap and
CloseMapHandle; and may exit anywhere. MapViewFails leaves hMap with a value that
CloseMapHandle closes again, whatever has that value then; when it is the handle of the
process's other side, the history `robbed` records it. The variable `oneByOne`, fixed from the start,
tells processes that use win32traceutil (one starts after the other and keeps its map
until it exits) from processes that call win32trace at will.

**ServiceHost.** `pc[s]` goes through service_main: `main`, `instance` or
`noInstance`, `starting` or `neverStarted`, `SvcRun`, `SvcDoRun`, `waiting`,
`SvcRunEnds`, `lastReport`, `cleanup`, `done`. The service itself is the one of
`Demos/service/pipeTestService.py`, which uses the framework as documented. A
report is two steps where the code counts the checkpoint in one statement and
reports it in another. `disp` is the dispatcher's thread; `refused` says that the SCM did not
register the handler of a service's last start, and hears nothing of it. **ServiceLifecycle** is
the automaton of statuses and checkpoints that the SCM expects.

**ServiceControl.** `plan` is the list that `__ResolveDeps` computes: a recursive
function of a service and a number n, which gives what the loop over the dependents has
gathered from the first n services of the registry. The recursion ends because the SCM refuses
cyclic dependences, as the code relies on (`NoCycles`); StopNext, PollStopped, StopOld,
StartNew, Start and WaitRunning are the loops; `Service(s)` is what services do
meanwhile.

**ServiceInstall.** `cmd` is the command that HandleCommandLine executes, with the
step it is at, the exceptions it met and its result; one action for each call of the
SCM or of the registry, each of which may fail with the kinds of exception it
can raise; `Raise` is the nest of except clauses, where ERROR_SERVICE_EXISTS makes an update of
an install whether CreateService or the custom option handler has raised it; `warned` has
the failures that the code prints or ignores. The service runs, stops and is
held open by other programs at any time. Its specification is InstallSpec, so that one
module can prove about this one and ServiceControl, the two halves of win32serviceutil.py.

**ThreadPool, IsapiHandler.** ThreadPool has the extension objects: pools (one for
each call of GetExtensionVersion) with their ports and workers. IsapiHandler EXTENDS
it with the threads of IIS: a request arrives, is posted or raises
InternalReloadException, in which case its thread terminates, loads, initialises and
issues the request again; and the thread that unloads the extension. Loading may fail in
the module, which keeps the old callbacks, or in the factory, which leaves no handler.
A look-up of the callback and its call are one step, which holds the GIL; and so are a pool and
the start of its workers, since a worker that begins to run later cannot be told from one that
is started later. The join of TerminateExtension may time out at any time, whatever keeps a worker.

**ComServer.** `queue` is the message queue, `creating` the stack of CreateInstance
calls in progress: a call may be begun on top of another one while that one calls
out. ReleaseRef (the decrement) and PostQuit (PostThreadMessage) are two steps,
as the comment at dllmain.cpp:88 has it.

**GenCache.** `files` holds pairs of a library and what there is of it: `py`, `dir`
(the package exists), `init` and `part`. `pc[p]` goes through a call: `import`,
`generate`, `write` (the temporary file), `finish` and `replace` (the two steps of
finish_writer, which others can tell apart, each of which may fail: FinishFails), `importNew`, `save` and `dump` (dicts.dat
is empty in between); `importPart`, `write`, ..., `importNewPart` for a part. `Found` is
Python's rule for what an import finds: a directory without `__init__.py` is a namespace
package, here `hollow`, which stays in `sys.modules`. A section under the mutex that does
nothing others can tell apart is one step with the mutex free; only finish_writer
holds it across steps. Two history variables: `hollowed`, the libraries whose package a kill or
an error left without its `__init__.py`, and `crossed`, the processes under whose hands, during a
call, another one removed a file of the library that the call is about.

**OutputWindow.** Items are marked with their thread and number. `posting` holds the threads
between their `put` and their PostMessage; `wake` and `idle` are the message loop of
PumpMessages; `stack` has the QueueFlush calls of the main thread, the innermost last, each
with the items in hand, at `check` (CheckRecreateWindow), `create` or `pump`
(PumpWaitingMessages). `MainPrints`
is Python code of the main thread that prints while it handles a message: of the loop, of the
window that is being created, or the one paint message that QueueFlush pumps. `Positions` are
the places where an item can be: the queue, the hand of a QueueFlush, the window, `killBuffer`;
`Before` is the way it takes through them.

## 3. The runs

Every property has a mutant: a plausible bug in one mapped definition that
makes exactly this run report it.

| Run | Checks | States |
|---|---|---|
| trace_crash | TypeOK, MutualExclusion, InBounds, WholeChunks, Ordered, NothingLost; ImplementsLog (refinement) | 528,314 |
| trace_fair | ReadOnce; EventuallyRead, WriteReturns (liveness) | 97,003 |
| trace_stall | MutualExclusion, violated (finding 1) | |
| trace_setup | Reachable, SessionAgrees; TextKept (action property) | 4,530,823 |
| service_host | NoZombie, ControlsCurrent; FollowsLifecycle (refinement), StopsWhenAsked, StartResolves (liveness) | 383,042 |
| service_restart | NoHandleYet, violated (finding 2) | |
| service_control | NeverRefused, StoppedAll, RestartedOnce | 316,114 |
| service_install | InstallTypeOK, SuccessIsComplete, NextInstallWorks, RefusedIsRemoved, KeepsExisting | 53,266 |
| isapi_pool | OwnIdentity, OneAnswer, NoOrphans; Answered, WorkersExit (liveness) | 1,628,201 |
| com_server | QuitWhenIdle, NotBeforeServed (action properties), Exits (liveness) | 91,812 |
| gen_cache | NeverHollow, EnsureSucceeds; Returns (liveness) | 200,106 |
| output_window | NothingPrintedIsLost, ShownInOrder; EventuallyShown (liveness) | 224,319 |

### Bounds

- *trace_crash*: two writers, one reader, all mortal, a map of 6 bytes of which
  the length takes one, strings of 2 and 5. A string of 5 is longer than half the
  map, so one write takes two rounds; two writers can fill it, so the wait for
  room, the second check and the discard happen; a second owner inherits the mutex
  in every step. NothingLost speaks of the behaviours in which what was written fits
  (`EverythingFits`). *trace_fair* has two readers, so that one can steal the
  other's signal or text; a writer may be killed in it as the owner of the mutex, and a reader
  between the copy and the reset; and strings of exactly the largest chunk, so that two of them
  never fit together and writers have to wait.
- *trace_setup*: with `oneByOne` a service, an ordinary and an elevated process in
  two sessions; at will, the two of one session (`Direct`). There are never
  more than the five mappings of `Objects` at a time, so that bound excludes nothing. A handle
  has one of two values (`Values`), so that a value that was closed comes back; a process has
  two handles at most, of the two sides or of the two probes. Its other handles, which a stale
  value could close too, are not modelled.
- *service_host*: a process is a set of services, some of them faulty: a faulty one
  alone, two sound ones, and a sound one beside a faulty one. Two starts each, so that
  a second start happens both in the same process and in a new one (`MaxStarts`), one
  STOP_PENDING report of SvcDoRun (`MaxWaits`), which overlaps with that of SvcStop: the counting
  and the reporting of the two interleave, but SvcStop sets the event after its report, so that
  for a sound service the reports themselves come in one order (the mutant of
  FollowsLifecycle reverses them); and one control whose handler raises (`MaxRaises`). Controls come
  while the service runs: the SCM refuses every control of a service that is starting or
  stopping. A faulty service
  in a shared process is excepted from NoZombie and StartResolves, because of finding 2, and one
  whose handler the SCM refused to register from the end of both: nothing it reports arrives.
- *service_control*: all acyclic graphs on four services up to renaming, which
  includes chains, forks and diamonds with a service reached on two ways, in every state of
  the services that the dependences allow, start and stop pending included;
  `MaxTries` 2 tells a try that is repeated from the last one.
- *service_install*: no bound; the state space is finite.
- *isapi_pool*: two requests to an extension of one worker with up to two reloads (`MaxReloads`),
  or of two workers with one. With one worker the first request can kill it and leave the second
  in a port that nobody reads; with two reloads the two requests reload one after the other and
  at the same time; with two workers pools of an old and a new object are at work together. The
  first request may raise, or have no token; the second may raise after it is done (`Troubles`).
- *com_server*: two clients, so that a creation can be re-entered by another one
  and by a release or a lock; `MaxUses` 2 uses of COM by another thread.
- *gen_cache*: three processes and one library, since libraries share nothing but
  dicts.dat; three calls in all (`MaxCalls`): one process generates, another removes or
  replaces, a third one imports, in all three ways. One may be killed, another may fail.
- *output_window*: two threads and the main thread, four texts in all (`MaxWrites`), an idle
  handler that takes two of them at a time instead of 20 (`Flush`): with three in the queue it
  has to ask for more, with one it returns that nothing is left, while another thread puts and
  posts; one closing and one interrupt (`MaxCloses`, `MaxInterrupts`).

### Fairness

- *trace_fair*: WF of the steps of threads inside the functions: the kernel schedules
  them. SF of taking the mutex: the kernel serves waiters in order, so a reader that
  polls cannot shut a writer out. WF of calling blockingread: a collector calls it
  again as soon as it returns (`RunAsCollector` in win32traceutil.py). That a
  reader's wait reaches its limit is not assumed.
- *service_host*: WF of each service_main thread and of the
  dispatcher. Whether a control comes, and when a SvcDoRun that nobody asked to
  stop ends, is left open.
- *isapi_pool*: one WF: as long as a thread of IIS in a call, or a worker, can take a step, one of
  them does. Which one is not assumed. Requests, reloads and the unloading may never come.
- *com_server*: WF of the main thread and of a thread between the decrement and
  PostThreadMessage. Clients and the other threads may do nothing for ever.
- *gen_cache*: WF of the step of each process that is in a call. A mutex is free again
  when its owner is killed: the kernel grants it to the next. New calls may never come.
- *output_window*: WF of the main thread, and of a thread between its put and its
  PostMessage. That anything else is printed, or that other messages wake the main thread, is
  not assumed: the wake-up of each text must suffice.

`CHECK_DEADLOCK FALSE` is set where the system really ends: all processes
killed, services started as often as the bound allows and stopped, the last
operation of a program returned, an extension unloaded, a server exited.

### Findings

1. *trace_stall*. `GetMyMutex` (win32trace.cpp:281) treats WAIT_TIMEOUT as success.
   When the owner of the mutex is held up for ten seconds, another thread uses the map
   with it, although "a single mutex protects the entire structure"
   (win32trace.cpp:19). All other runs, and the proofs, assume `~ HolderMayStall`.
2. *service_restart*. `service_main` does not reset `sshStatusHandle` at its end
   (PythonService.cpp:882). In a process that hosts several services, a service that is
   started again finds the handle of its first start: the assertion at line 829
   ("should have no scm handle yet") fails, and if the new instance cannot be created,
   the failure is reported with a handle that is dead and the service stays
   START_PENDING.

### What the models show beyond the runs

These states are reachable in the models. Where they break what a property says, the property
excepts them, by a history variable or a condition that holds only from the step on at which the
code goes wrong (section 5).

- dicts.dat (gencache.py:84). A process that starts while another saves, or after one was
  killed saving, finds a pickle that ends too soon; `__init__` catches OSError only, and the
  import of win32com.client fails, for good in the second case (`unusable`). Two processes
  that save one after the other leave the entries of the last one only.
- A process killed between `os.mkdir` and `os.replace` (genpy.py:1024), or one in which the second
  raises, leaves a package without `__init__.py`. It can be imported, so nothing generates it
  again: every later EnsureModule raises an AttributeError. genpy.py:1012-1014 promises more:
  that "errors don't leave a 1/2 generated file around causing bizarre errors later", which the
  temporary file does for a module and not for a package, a directory with a file in it.
- A generation that fails (genpy.py:1028) removes the good file that another process has made, and
  demand generation removes the full module first (makepy.py:304). A call in another
  process that has seen the file fails when it imports it. gencache.py:143 says that
  "writes (generation) don't interfere with each other and with reads (import)" and
  genpy.py:1014 that processes "don't step on each others' toes"; that is so for the two steps
  under the mutex, not for a removal between two of its sections. The mutex has no prefix
  `Global\`, so it is one for each session of a user, while the directory is one for all
  (gencache.py:145); the model has processes of one session.
- When MapViewOfFile fails, DoOpenMap closes the handle and leaves its value in hMap
  (win32trace.cpp:249-254). TermRead then closes that value (265-267), which may by then be
  the handle of the write side. The view of the write side outlives the name: what is written into it
  cannot be found by anybody who opens the map later.
- Two requests that raise InternalReloadException for the same change reload at the same time, which
  advanced.py:125, whose flag is never cleared, makes the normal case: every request after a change
  reloads. The second LoadHandler can replace an extension between its creation and its
  termination by the first: its pool and workers are never stopped (PythonEng.cpp:295).
- Workers that die are not replaced (threaded_extension.py:122, 193). When the last one of a pool has
  died, requests are still accepted and wait in the port until the extension is unloaded.
- When the factory of a reloaded module fails (PythonEng.cpp:210-213) there is no handler any more, while
  the callbacks are those of the old object; and the function that reports it returns the result
  that it has just released (PythonEng.cpp:301-304), whose lifetime the models do not have.
- QueueIdleHandler re-raises the first KeyboardInterrupt (winout.py:464). OnIdle catches it with
  everything else and removes the handler (app.py:174), which `idleHandlerSet` keeps from being
  set again: text of other threads then stays in the queue until the main thread prints. The
  branch for later interrupts is never reached.
- When OpenDocumentFile fails in Create (winout.py:398), `bCreating` stays set and nothing is
  shown any more.
- SvcInterrogate reports SERVICE_RUNNING whatever the service does (win32serviceutil.py:1022: "assume
  we are running"): for a service that ends unasked, while an interrogation is handled, the status
  goes from STOP_PENDING back to RUNNING. FollowsLifecycle is about services that stop when asked.
- In a window at dllmain.cpp:91 a new object is lost; requests that are in the port when the
  workers are told to stop are never answered (threaded_extension.py:100); a custom option
  handler that fails with a system error leaves the service installed
  (win32serviceutil.py:861), and one that raises ERROR_SERVICE_EXISTS, of whatever service, has its
  own service updated at once.

## 4. The proofs

Checked by TLAPS with SMT, Zenon and LS4; each theorem holds for every
value of the constants that satisfies the module's assumptions.

**TraceBufferProofs**: TypeCorrect, Exclusion, NoOverrun, NoTornChunk, InOrder, AtMostOneReader,
LosesNothing and IsTheLog, each under `~ HolderMayStall`.
- *Exclusion.* Mutual exclusion is not inductive: that `Critical(t)` implies
  `mutex = t` (`Owns`) is, since an abandoned mutex has no thread that believes to own
  it. InBounds needs ownership (nobody else can change `len` between `fit` and `grow`)
  and TypeOK needs InBounds (the copy stays in the domain of `buf`), hence the joint
  invariant `Safe == TypeOK /\ Owns /\ InBounds`. The assumption
  on sizes, `Half <= Cap`, is what makes the second check of the room sufficient.
- *The text.* `Text == WholeChunks /\ Copied /\ Kept /\ Numbered /\ Ordered /\ ReadOnce`. `Copied`:
  what stands behind `len` at the step `grow` is the writer's chunk; a writer that dies
  before `grow` leaves `len` where it was. `Kept`: a reader that is about to reset the length has
  all that can be seen in its hand, and nothing before it copies. `Numbered`: nobody has a byte
  that its writer has not written, so that a new chunk is behind all that is there (Ordered) and
  differs from all that was read (ReadOnce). Only `grow` and the copy of a reader touch these;
  whatever else happens to the map shrinks it (`Shrinks`, OrderQuiet).
- *Loss.* What is written is in the map or with a reader (`AllStored`) as long as all that was passed
  to `write` fits and nobody has died. The step that matters is the check of the room: the bytes in
  the map and the chunk at hand are different members of `Passed`, so that by the pigeonhole
  principle they number at most `Cardinality(Passed) <= Cap` and the check succeeds (RoomForChunk).
  `Passed` only grows (PassedGrows), so what fits now did fit before.
- *Refinement.* IsTheLog maps the map's visible bytes and the readers' hands to TraceLog. One lemma for
  each abstract action (RefGrow, RefDiscard, RefTake, RefReturn, RefLose, RefSame); RefGrow is where
  `Copied` is needed, and `AsHeld` makes the text change hands at the reset, not at the copy.

**TraceSetupProofs**: AlwaysReachable, OneMapPerSession, TextStays, from the invariant
`SetupTypeOK /\ Names /\ Stages /\ Maps /\ OneValue /\ Alone`. `Names`: a name has a mapping exactly while a
handle to it is open in that namespace. `Maps`: every view of a process that is not `robbed` has its
handle beside it, with the value in hMap, from which Reachable follows. `OneValue`: no two open handles
of a process have the same value, so that a close that is meant for the own side closes no other,
and one that is not is seen to rob. `Stages`: which handles a process has while it probes. `Alone`: of the
processes of a session that start one after the other one at most is on its way, and to the map
that the others use; this is SessionAgrees with what must hold between the two probes. OpenKeeps and
ReleaseKeeps say what opening and releasing a handle do, for whichever step does it.

**ServiceHostProofs**: NeverAZombie, ControlsReachTheRunning and the refinement HostFollowsLifecycle.
`Handlers` and TypeOK are the frame; `Alone` is about the handles of a service that is the only one in
its process, whatever its class does; `Steady` says for each stage of service_main what a service
with a sound class (`Sound`) has registered, reported and counted, and how far the dispatcher has come
with a control of it. The lemmas about `Sound` come by who acts: the service's own thread, the
dispatcher for it, or anybody else (Elsewhere, Undisturbed). A step tells the SCM of one service at
most (OneAtATime), and with `Steady` what it tells is a transition of ServiceLifecycle (LifecycleStep).

**ServiceUtilProofs**, for ServiceControl: Restarts, NeverRefusesStop, StopsAll. For the first the invariant
`Stage` says for each value of `pc` how `instance[target]` relates to `before`: equal until StartNew
succeeds, which leaves the loop at once. The other two are about the list that `__ResolveDeps`
computes for every acyclic graph, by induction over the ranks of `NoCycles`. The induction is over
sets of numbers (SetInduction, from the library's WFMin); Recursion shows that a
recursive definition which asks for lower ranks only has a solution, Ends that ResolveDeps is one.
AllGood says of each partial list that it is `Ordered` (what depends on a service
comes before it) and has all that depend on it; OrderedConcat and GoodStep are one turn of the loop. The
list may name a service twice, which does no harm: it is found stopped. `Stopping` then says of
StopServiceWithDeps that the plan is an end of that list and that what came before it has stopped and stays
so, since services that nobody starts do not start while a stop is under way.

**ServiceUtilProofs**, for ServiceInstall (the two parts share no lemma): TypeCorrect, NeverRemoves, SuccessMeansDone, InstallsAgain,
RefusedLeavesNothing. An install command that finds
the service becomes an update before anything can raise in a way that is answered
by a removal (`UpdatesWhatItFinds`), so its "unload" leads to a change and never
to a deletion; and the steps that write the configuration have a service to write it
to (`Configuring`), which type correctness depends on. The outcomes need `Requested`, which of the
options a command has carried out at each step, and `Origin`, how it came to that step: an
installation deletes only after a ValueError, which is raised once, and after its counters were unloaded.

**IsapiProofs**: ActsAsItsUser, AnsweredOnce, NoneOrphaned. Pools are created during the run, so
`Shape` first says that all the tables have one entry for each pool and `Ports` what a port holds;
`OwnIdentity` is inductive together with them. The lemmas about updates at `[p][w]`
(UpdateType, GotoType) and about tables that grow (TableGrows) carry the argument;
`Spares` collects the steps that leave every worker alone. AnsweredOnce follows from `Once`: a request is
with its thread of IIS, then at one place of one port (`Whereabouts`), then with one worker, not yet done
until that worker has passed "dispatch" (`InHand`); one lemma each for posting, taking and going on.
NoneOrphaned needs `Single`: until two reloads overlap there is one thread at a time between the
termination and the initialisation, and a pool that is open is the last one of the handler in use.
It assumes nothing of how many requests reload, or how often.

**ComServerProofs**: ServesFirst, QuitsWhenIdle. `QuitMeansStarted` says that a WM_QUIT in the queue, or a
thread about to post one, implies that a client has been served, and that before
`EnableQuitMessage` there is neither; whatever adds a message keeps the others
(MessagesStay). QuitsWhenIdle is that the lock count is the number of its holders (`Counted`): objects,
locks, creations under way, the second references some of their steps hold, interfaces of other threads, the factory
that is being made. That every decrement has a holder to take away needs `Knows` (what a client
asked for agrees with what the server has of it), `OneCall` (no call before the last one has ended) and `Distinct`
(no message or frame twice); AskHolds, ThreadHolds, LockHolds, BeginHolds, EndHolds and CreateHolds keep
the sum. At zero there is nobody left (`NobodyAtZero`).

**GenCacheProofs**: CacheIsExclusive and CallsSucceed, for any number of processes, libraries
and calls, whoever is killed or fails. The invariant says who owns a mutex (`Owned`: exactly
the process in the middle of finish_writer), that a directory without `__init__.py` is seen by the
owner only and that what was imported as a package has had its contents, or the package was left
hollow (`Packages`), and that what a process has generated is there when it imports it, unless
another one has removed it during the call (`Stages`, `Has`). `Others` is what a step leaves of all
other processes; FoundSound is the case of an import.

**OutputWindowProofs**: ShowsItAll and ShowsInOrder, for any set of threads and any number of items
that an idle call takes. That nothing is shown twice and that nothing is shown too early are the
same statement about two relations between items, `Differ` and `Earlier`: `Arranged(R, shown, queue,
calls)` says that R holds between what is shown, the hands and the queue, each farther on than the next,
and between any two hands. Each move of text keeps it, for either relation: an item that is put
(Added), that a QueueFlush takes (TakenKeeps), that it shows (Shows) or drops (Drops), or keeps while it goes
on (GoesOn). Two hands are in no order: where `Earlier` would need one, a paint
handler has printed with text in hand (`nested`). What `Arranged` rests on is `Windows`: the text is in the
window or in `killBuffer`, never in both; the calls below the innermost are all at `pump`, with
a window; and `bCreating` that is left set means no window and one call at most. Whatever drops text
is recorded and stays so (DisturbedStays), and PositionsArranged takes the result back to positions.

## 5. What is only model-checked, what is assumed

- Liveness (EventuallyRead, WriteReturns, StartResolves, StopsWhenAsked, Answered,
  WorkersExit, Exits, Returns, EventuallyShown) is outside what TLAPS can prove here, as is ENABLED.
  Every other property of a passing run is a theorem of section 4.
- Four properties except what the code really does wrong (section 3), each by a condition that is
  true only from that step on: Reachable the processes that were `robbed`, NoOrphans the runs in
  which two reloads have `overlapped`, Answered the requests in a port whose workers are all dead
  or that was closed, EnsureSucceeds a file removed under the hands of a call. ShownInOrder
  excepts `nested` printing, so the order of what a paint handler prints is not covered by it;
  that nothing of it is lost or doubled is (NothingPrintedIsLost).
- The failure of WaitForSingleObject in GetMyMutex (win32trace.cpp:281), for which the handle, never
  closed, would have to be invalid, is left out, and so is a CheckRecreateWindow
  with bAutoRestore = 0 (winout.py:494), which nothing in the repository uses.
- The theorems of TraceBufferProofs assume `~ HolderMayStall`: no thread keeps the mutex for the
  ten seconds after which the others go on without it. trace_stall shows that without this
  MutualExclusion is violated (finding 1).
- The kernel, the SCM, IIS, COM's apartments and the clients are modelled from how the
  code uses them, and marked external in the map.
- GenCache has one minor version of each library and modules that are never out of date: the
  validation in EnsureModule that erases a module and its package, outside the mutex
  (gencache.py:549-559), is not in it. Its processes are of one session.
- Abstracted: the texts, registry values and arguments; event log and printed
  messages; reference counts of Python objects (except those that end a COM server).
- One thread for each process in TraceSetup, one administrator in ServiceInstall, one
  class in each COM server, one thread in each process of GenCache; the pause, shutdown and session
  controls take the path of the two that ServiceHost has.

## 6. Plan

1. *Extend.* ServiceHost: the service table of PythonService.cpp with its limit, debug mode.
   ServiceInstall: a second administrator. IsapiHandler: filters, which share the callback
   manager. New modules: the pair of reference counts of a COM
   gateway and its weak references (PyGatewayBase.cpp), then timers; in GenCache, libraries that
   change (the erasing of modules that are out of date).
   New properties join existing runs where they ask the same question.
2. *Prove.* With the extensions above: the same theorems over the larger models. What is proved now are
   all the safety properties of the runs that pass.
