# A formal model of the service status notifier

TLA+ modules, TLC configurations and TLAPS proofs for
`ServiceStatusChangedNotifierAPC`, the class that watches Windows services
through one-shot `NotifyServiceStatusChangeW` registrations delivered as APCs.
Paths below are relative to the repository (`src/` there holds `sscn.cpp`,
`sscn.hpp`, `scope.hpp`, `utilities.cpp`, `main.cpp`).

## 1. Inventory

| Component | State | Operations | Interacts by |
|---|---|---|---|
| Notifier life cycle (`sscn.hpp`, `sscn.cpp:46-55, 268-364`) | `State`: `running`, `exit_event_mutex`, `exit_event`, shared by `shared_ptr` with the worker and the cleanup lambda | `Start`/`StartImpl`, `Exit`, destructor; the thread's entry lambda and the cleanup guard | any thread calls it; starts the detached worker; signals it through the event; may be called again from the callback on the worker |
| Service monitor (`sscn.cpp:59-266`) | locals of `Run()`: `service_data_map` (handle, notify buffer, error), `change_list`, `context` | open SCM and services, `ProcessChanges`, `SubscribeToServiceChange`, `NotifyCallbackFunc`, alertable wait, teardown | the SCM fills a buffer and queues an APC; the APC appends to `change_list`; the application's callback is called synchronously |
| Scope guards (`scope.hpp`) | stored callable, `active_`, uncaught-exception count | construct, move, `release`, destroy | own the cleanup of the life cycle and the handles of `Run()` and `IsExecutableRuns` |
| Executable probe (`utilities.cpp:41-91`) | a process snapshot and a process handle | walk the snapshot, open, compare | called from the example's callback |
| Example program (`main.cpp`) | one notifier | start, sleep, exit; the callback | uses all of the above |
| Build and CI | none at run time | | not part of the program |

What is hard, and what makes each component correct:

* **Life cycle.** `running` is an atomic taken without the lock, `exit_event` is
  read by the worker without the lock, the cleanup that resets both is an object
  that moves from the starter's stack into a tuple and into the new thread, and
  all of this may happen while others call `Exit()` or destroy the object.
  Correct means: the worker's unlocked read always yields its own open event;
  a cleanup never touches what a later start acquired; nobody signals a closed
  handle or uses a freed `State`; a clear flag means everything is released;
  nothing leaks on any failure path; `Exit()` returns; a signalled worker ends.
* **Monitor.** Registrations are one-shot, APCs arrive inside waits that the
  callback may perform, failures of single calls are swallowed, and teardown
  runs with registrations outstanding. Correct means: each service has exactly
  one request under way; every notification is handed over once, in order; a
  deleted service is closed and left alone; no handle leaks or is closed twice.
* **Guards.** An exception that unwinds further out must not be taken for one of
  the guard's own scope, moves and constructors may throw. Correct means: the
  action of a guard has one owner, and is run once or never as the guard is
  named.
* **Probe.** Processes end, start and reuse ids between the calls of one walk;
  paths may be as long as the buffer. Correct means: handles are closed on every
  path, `TRUE` is said of a process of exactly this path, `FALSE` only when no
  process that could be asked ran all the time.
* **Example.** The action function asks about several executables one after the
  other; `main` calls `Exit()` twice, once through the destructor. Correct means:
  the action is muted by a running executable and by nothing else; the exit
  code means what it says; a worker that is left behind was told to stop.
* **All together.** A clear flag promises that `Run()` is over with everything it
  acquired, and a set event that a worker will leave `Run()`: neither can be seen
  in one component alone.

`PROJECT.json` lists every hazard at its line with the properties that guard it.

## 2. Modules

| Module | What it is |
|---|---|
| `SingleWorker` | Abstract specification: starts follow one another, one worker at a time, and a stop request reaches the active one. `NotifierLifecycle` implements it. |
| `NotifierLifecycle` | Threads, `State`, the guard and the worker as seen from outside. |
| `NotificationRelay` | Abstract specification: a relay that hands over what it accepted, once, in order. `ServiceMonitor` implements it. |
| `ServiceMonitor` | One worker inside `Run()`, with the SCM and the APC queue. |
| `NotifierSystem` | `NotifierLifecycle` whose workers take the steps of `ServiceMonitor`. It implements `NotifierLifecycle`. |
| `ScopedCleanup` | Abstract specification: an action given to a guard is settled once, run or not as the guard is named. `ScopeGuard` implements it. |
| `ScopeGuard` | The three guards of `scope.hpp` on one thread with nested scopes and exceptions. |
| `ExecutableProbe` | `IsExecutableRuns()` and the processes around it. |
| `ExampleAction` | `OnNotificationActionFunction()` and `MuteLogic()`; extends `ExecutableProbe`, whose steps are the calls they make. |
| `ExampleProgram` | `main()`; extends `NotifierLifecycle`, whose steps are the calls it makes. It implements `NotifierLifecycle`. |
| `...Proofs` | The theorems about the module of that name (`NotificationRelayProofs`: that `ServiceMonitor` implements it). |
| `MC...` | Instances for TLC. |

### NotifierLifecycle

One step is one access to shared state, or one move or destruction of a guard
object, by one thread. `Callers` are the application's threads; `Starts` are
accepted `Start()` calls, each with its event, its guard and, once spawned, its
worker thread, which has the same name.

| Variable | Code |
|---|---|
| `running`, `mutex`, `exitEvent` | the members of `State`; `exitEvent` names the start whose event the handle is |
| `event`, `signaled` | the kernel event of each start: not created, open, closed; set or not (manual reset) |
| `guard[s]` | which of the three `scope_exit` objects of start `s` have `active_` true: the local of `StartImpl`, the one in the argument tuple, the entry lambda's parameter |
| `refs`, `object` | who keeps the `State` alive: cleanup lambdas, `Run()`'s parameter, the notifier object |
| `pc`, `cur`, `holder`, `polls` | where each thread is, for which start, which guard object it is destroying, the loop counter of `Exit()` |

`StartExchange` .. `StartLeave` are `StartImpl` in the order of the source, with
a failing `CreateEventW` (`StartCreateEvent`) and a `std::jthread` constructor
that throws before the guard moved into its arguments (`StartArgsThrow`) or after
it (`StartThreadThrows`). `CleanupLock` .. `CleanupUnlock` are the
cleanup lambda and the end of the guard that ran it. `ExitBegin` .. `ExitReturn`
are `Exit()`; `Destroy` is the destructor, which is a call of `Exit()` that ends
with the object gone. The three calls are what the code does when it is called
(`StartCalled`, `ExitCalled`, `DestructorCalled`) where it may be called.
`WorkerEnter` .. `WorkerEpilogue` are the thread's entry
lambda and the destruction of its argument tuple; `WorkerActs` and
`ActionReturns` bracket the callback, inside which the worker is a thread like
any other and may call `Start`, `Exit` or the destructor.

`running` is exchanged with relaxed order, but every other access to the
handle is inside the mutex or by the thread that wrote it, and a start waits for
the mutex that the previous cleanup holds, so sequentially consistent steps lose
no behaviour. A caller that destroys the object must know that no other thread
is inside a call (`Destroy`): this is the usual precondition of a destructor.

### ServiceMonitor

| Variable | Code |
|---|---|
| `list`, `hasAction` | arguments of `Run()` |
| `mapped`, `handle`, `buffer`, `err` | `service_data_map`: its keys and the members of `ServiceData` |
| `changes` | `change_list`; an entry with state 0 and status ok is the seed that only asks for a subscription |
| `open`, `pending`, `apcs` | external: service handles open in the SCM, outstanding registrations, queued APCs |
| `exitSet` | the exit event |
| `told`, `accepted`, `handed` | history: services whose deletion was delivered (the service itself, whatever name the callback reads back and whether or not it can make an item of it), changes the callback accepted for the action function, calls made to it |

`OpenScm`, `SeedService`, `SeedThrows`, `SeedDone` open the services; `Dispatch`,
`ActionReturns`, `FinishDeleted`, `Subscribe`, `SubscribeSkips` are
`ProcessChanges` and `SubscribeToServiceChange`; `StartWait`, `NotifyCallback`,
`NotifyCallbackThrows`, `WaitIoCompletion`, `WaitExit`, `WaitFailed` are the
alertable wait and the APC; `TeardownService`, `RunReturns` the handle guard.
`Faults` says which calls may fail. `Reported` maps a list name to the name the
callback reads back: a name with an embedded NUL comes back cut short.

The front item stays in the list while the callback runs (`pc = "action"`), and
APCs may be delivered there and in the wait, nowhere else. The SCM completes a
registration at any time with one of `States`, with a deletion, or (fault
`status`) with another error, and the registration is then used up; closing a
handle cancels its registration. A second registration on a pending handle may
fail. Service states are numbers of which only "zero or not" matters.

`accepted` grows when the callback puts an item into `changes` that the action
function will be called for (`Reportable`), `handed` when it is called. Both are
written and never read by the model: with them the refinement of
`NotificationRelay` maps its two variables to themselves, and its steps speak of
the ends of the lists only.

### SingleWorker

`phase[s]` of a start is `new` until the exchange of `running`, `accepted` until
the worker is in `Run()`, `working` inside it, `leaving` until the cleanup has
cleared the flag, then `released`. `NotifierLifecycle` computes it (`Phase`) from
the worker's label, the flag and the guard; `told` is the set of events that are
set. A start whose `CreateEventW` failed leaves no trace and is `new` again.

### NotifierSystem

Extends `NotifierLifecycle` and instantiates `ServiceMonitor` with `pc` renamed to
`stage` and `exitSet` defined as "the event in `State` is set": that is the event
`Run()` reads on every wait. A worker in the life cycle's label `run` takes the
monitor's steps (`Monitors`); `Dispatch` is the life cycle's step into the callback,
`ActionReturns` the step back; inside the callback the worker may call the notifier
(`Calls`) or wait alertably (`TakesApc`); it leaves `Run()` only when the monitor has
returned (`LeavesRun`), where the life cycle alone lets it leave at any time. APCs
that were not delivered by then stay with the thread and refer to a list that is gone:
`orphaned` is the set of threads with such APCs, until they end (`ThreadEnds`). One set
of monitor variables is enough, because at most one worker is in `Run()` at a time:
that is what `OneResponsible` below says, and `WorkerEntersRun` finds the locals of
the worker before it gone.

### ScopeGuard

| Variable | Code |
|---|---|
| `home`, `function`, `exceptionCount`, `active` | per guard object: the scope it is a local of, and its members (`scope_exit` has no count; it does not look at the one recorded here) |
| `depth`, `mode`, `uncaught` | external: nested scopes, what each is doing, `std::uncaught_exceptions()` |
| `base`, `fate`, `ran` | history: the count at the entry of a scope, how the guard of an action ended, how often the action ran |

`Construct`, `ConstructThrows`, `Move`, `MoveThrows`, `Release`, `Destroy` are the
members of the three classes, which differ in `Kind`: `Compensates` (who calls
the source in the constructor's handler) and `Fires` (what the destructor tests).
A scope can be entered from the destructor of a local of the scope below while that
is being left, so code runs and throws while an exception unwinds further out.
`fate` is taken from what the scope does, not from the count.
With `AcrossUnwinding` a guard may also be moved into a scope that was entered under
another number of exceptions; see section 6.

### ExecutableProbe and ExampleAction

| Variable | Code |
|---|---|
| `wanted`, `todo`, `process`, `open`, `result` | the argument, the rest of the snapshot, the current entry, open handles, the answer |
| `proc` | external: which path each process id runs |
| `seen`, `throughout`, `blind` | history: a process of the path ran at some time, the ones that ran all the time, there was no snapshot |
| `stage`, `state`, `index`, `muted`, `outcome` | the action function and its loop over executables |
| `met`, `since` | history, over all the questions of one call of the action function |

The walk is `Snapshot`, `NextEntry`, `OpenProcess`, `Query`, `CloseProcess`, with a
failing call at each place. `ProcessEnds` and `ProcessStarts` happen between any
two of them; an id is not given to another process while a handle to it is open.
Paths have a file name, a length and, when longer than the buffer, what
`MAX_PATH` characters hold of them. What `FALSE` is worth is bounded by the code: a
process may hand over to another of the same path during the walk and neither be
met, so `NothingMissed` speaks of a process that ran all the time.

### ExampleProgram

`stage` is where `main` is, `sleeps` its loop counter (`MaxSleeps`, 5 in the code),
`code` the exit code. `main` calls where its code calls, by `StartCalled`,
`ExitCalled` and `DestructorCalled`, which do not ask whether the notifier may be
called; the steps inside a call are the life cycle's. `MainDestroys` is the destructor
at the end of the block, on the normal and on the exceptional way out. That `main` is
a legal client is therefore something to check: `UsesNotifier`.
The process takes its worker with it (`ProcessEnds`).

## 3. Runs

| Run | Question | Instance | States |
|---|---|---|---|
| `lifecycle_safety` | do event, flag, guard and `State` stay together, and do starts follow one another? | 2 callers, 3 starts, 2 polls, symmetric | 62 thousand |
| `lifecycle_liveness` | does `Exit()` return whatever the callback does? If callbacks return, does a signalled worker end, and is a destroyed notifier freed? | 2 callers, 2 starts | 40 thousand |
| `lifecycle_two_callers` | did a timed-out `Exit()` tell its worker, with two application threads? **violated** | 2 callers, 2 starts | |
| `monitor_watched` | is every open service watched, a deleted one closed and left alone, and every handle released in the end? | 2 services, no failing call | 37 thousand |
| `monitor_faults` | are buffers, handles and list ever used after they were given away? Is everything accepted handed over, once, in order, and nothing left when the loop ends? Does the event end `Run()`? | 2 services, all faults, one name cut short | 61 thousand |
| `monitor_seed_throws` | are handles released when seeding throws? **violated** | one fault | |
| `monitor_duplicates` | ... when a name is listed twice? **violated** | list `<<a, a>>` | |
| `monitor_unwatched` | is a service still watched after a failed registration? **violated** | one fault | |
| `system_stops` | is `Run()` over with all it acquired when the flag is clear? Does a worker that was told leave it? With one application thread, is it told by a timed-out `Exit()`? | 1 caller, 2 starts, 2 services, error notifications | 611 thousand |
| `guard_actions` | does each action run as its guard is named? | 3 objects, one action of each class, 3 scopes | 1.8 million |
| `example_action` | what do the probe's answers mean, and when does the action function act? | 3 process ids, 5 paths at the length limits, 3 muting executables | 328 thousand |
| `example_program` | what does the exit code mean, whom does `main` leave behind, does it end? | 2 starts, 2 polls, 5 sleeps | 636 |

**Bounds.** Three starts are enough for a start to be accepted while the
previous worker cleans up and the one before it is in its epilogue; two callers
for `Exit()` against `Start()` against the destructor, and each worker in its
callback is one more caller. `lifecycle_liveness` uses two starts, and so does
`system_stops`, where a second worker enters `Run()` after a first has left it. `MaxPolls` stands
for the 50 polls; the loop's only effect is to end at some count, and the
invariants do not depend on it. `MaxEvents` bounds notifications in flight or
handed over; four let both services notify twice or one be deleted while the
other is in the callback. In `system_stops` two are enough for an APC of the second
service to arrive inside the callback for the first. Three scopes let a destructor
that runs during an unwinding enter a scope and throw there, with a scope around
both. Three process ids let one process run on while another's id is taken over;
the paths are one that fits, its namesake, one as long as the longest argument, one
that is cut to that, and the empty one.

**Fairness.** A thread that is inside the notifier keeps running
(`ThreadsRun`); it is strong fairness because `lock()` is enabled only now and
then, which assumes that a waiter gets the mutex at some time. Nobody has to
call `Start` or `Exit`, and the callback may block for ever: `ExitReturns` holds
under `FairSpec` all the same. `SignaledWorkerStops` and `NoOrphan` have the
premise `CallbackReturns`: the callback returns, as the repository's README asks,
and a wait that is entered again and again with the event set is at some time
satisfied by it (the kernel looks at the object before it delivers APCs). The
life cycle alone cannot say that a callback leads back to the wait;
`StopsWhenTold` of `system_stops` shows it: from the fairness of the thread in
`Run()` and a callback that returns, and from no other thread's, the premise
follows. In `ServiceMonitor`, `FairSpec` schedules the
worker outside the callback, and lets the callback return; failures of calls
and `WAIT_FAILED` are never required.
The probe and the action function are scheduled (`Probe`, `ActionStep`); in
`ExampleProgram` so is `main`, while the worker's waits and callbacks may last for
ever. Other processes and the SCM never have to do anything.

## 4. What the violated runs show

* `lifecycle_two_callers`: an `Exit()` between the exchange of `running`
  (`sscn.cpp:283`) and the creation of the event (`sscn.cpp:311`) finds no event,
  signals nothing and times out, with a worker running that was never told.
  `sscn.hpp:88` says that `Exit()` signals the worker.
* `monitor_seed_throws`, `monitor_duplicates`: the guard that closes the service
  handles is built after the loop that opens them (`sscn.cpp:210-243`), and a
  second `OpenServiceW` for the same name overwrites the first handle
  (`sscn.cpp:220`). `sscn.cpp:188-191` says that the handles are released.
* `monitor_unwatched`: the result of `NotifyServiceStatusChangeW` is stored
  (`sscn.cpp:130`) and never looked at, so a failure ends the watch of that
  service silently. `README.md:5` says that it is registered and reported.

Three more cases break a property in the same way and have no run of their own. A
notification with an error other than deletion (`sscn.cpp:93`) and one whose list
item cannot be allocated (`sscn.cpp:100`) leave nothing in the list that would register
the service again: `monitor_unwatched.cfg` with `Faults = {"status"}` or
`{"throw"}` shows it. And a name with a NUL inside is opened by what stands before
the NUL and read back that way (`sscn.cpp:82`), but the map has it as a whole
(`sscn.cpp:212`): the deletion of the service is reported, `find` misses it
(`sscn.cpp:157`), and its handle stays open until `Run()` ends, although
`sscn.cpp:147-148` says that it must be closed. `monitor_watched.cfg` with
`Reported <- ReadCut` shows `DeletedIsReleased` violated by it.

## 5. Proofs

Each theorem holds for every value of the constants that satisfies the named
assumptions of its module, and where it says so one assumption more.

### NotifierLifecycleProofs

All safety invariants of `lifecycle_safety`, the refinement of `SingleWorker`
(`WorkersFollowEachOther`) and, for one application thread, `ExitTellsWorker`
(`WorkerIsTold`; `lifecycle_two_callers` shows that it needs that), for every number
of callers, starts and polls. Assumptions: callers and starts are disjoint, the null
value is neither, `MaxPolls` is positive.

None of them is inductive alone: that `exit_event` is the worker's own
event depends on nobody else being able to run a cleanup, which depends on the
guard being active in one place. The inductive invariant `IInv` says so:

* `Kinds`, `Guards`: a thread's label determines where the active guard of its
  start is;
* `OneResponsible`: at most one thread is *responsible* (has the guard and
  has not yet cleared the flag), and the flag is set while one is;
* `OneCleaner`, `Unused`: a cleanup that has cleared the flag but not yet let go
  of the lock does not share its start with anybody, and a start gets its worker
  once;
* `Events`: `exit_event` is null or the event of the responsible thread's start,
  and is the only event open;
* `Mutex`: the labels inside the lock and its owner agree;
* `Lifetimes`, `Attended`: references and the object outlast their users, and
  all that is acquired has a thread that will release it.

There is one lemma per action (`...Keeps`), and `GuardInvariant` is
`Spec => []IInv`. `WorkersFollowEachOther` maps each action to a step of
`SingleWorker` or a stutter, with `IInv` before and after it. `WorkerIsTold` adds a
small invariant on top (`ToldToStop`): once `Exit()` has passed its critical
section, every worker there is was told to stop. It is kept because no worker is
started while the only caller is in `Exit()`, and because a worker that calls
`Exit()` itself is the only worker.

### ServiceMonitorProofs

For every list, every name read back and every number of notifications. The
handle of a service is the index of the list element it was opened for, so two
services never share one; `IInv` follows each handle through the map, the SCM and
the APC queue. `TypeOK`, `HandlesAreOpen` and `NoDanglingRegistration` hold
whatever fails (the last speaks of registrations, not of APCs that are queued). What depends on inputs or failures is
proved in layers on top, each with the assumption it needs:

| Theorem | Assumption | What happens without it |
|---|---|---|
| `HandlesAreReleased` | no name listed twice, no allocation failure | `monitor_duplicates`, `monitor_seed_throws` |
| `DeletedAreReleased` | no name listed twice, no allocation failure, names read back whole | a name cut short is not found (section 4), a lost item is never processed |
| `OpenIsWatched` | no failing call, names read back whole | `monitor_unwatched`, section 4 |
| `OneRequestEach` | no name listed twice, no name read back is that of another service | two items ask for one service |

The named assumptions are that the lists are made of `Names`, the names read back
are `Names`, the states are positive numbers and the faults are those of
`FaultKinds`.

### NotificationRelayProofs

`ChangesAreRelayed`: `ServiceMonitor` implements the safety part of
`NotificationRelay`, whatever fails. What makes it more than a queue is that the
list holds two kinds of items, changes and mere subscriptions, in any mixture, and
that the front item stays in it during the callback, while APCs append to it.
Selecting the changes from the list would be a recursive definition, about which
nothing can be proved by induction here. The invariant `Ordered` numbers them
instead: there are numbers for the changes among the unhanded items (`Unhanded`: all
of the list, or all but its front during and after the callback) such that the
change with number `k` is the `k`-th accepted one, the numbers grow along the list,
and they are exactly those that follow the number of calls made. One lemma says
what becomes of the numbers in each case: `KeptPops`, `KeptHands`, `KeptSubscribes`,
`KeptAccepts`. Without an action function nothing is accepted.

`NothingIsLost`: when the loop is over, all that was accepted was handed over. The
loop ends only out of a wait, a wait starts on an empty list, and an APC that comes
in it leads back to the list before the event is looked at again (`Drained`); the
numbering then leaves no number over.

The last section collects the invariants in one, `RunInv`, each under its
assumption, and what they mean in `RunPromises`. It starts from `Entered`, which is
`Init` without its claim about the exit event: a worker may enter `Run()` with the
event set already.

### NotifierSystemProofs

`SystemIsNotifier`: every step of the composed system is a step of the life cycle,
or changes nothing of it, so every theorem about `NotifierLifecycle` holds of the
system.

The other direction is `Inside`: while a worker is in `Run()`, `RunInv` holds, and
otherwise there are no locals and nothing is open or registered. It is inductive for
`PlainInputs` (no name is listed twice, no allocation fails; what another list
leaves open would be counted among the handles of the next worker). The steps of
the monitor keep it because they are the same in both modules (`StepIsRuns`). The
others keep it because they bring nobody in or out (`StaysInRun`, `StaysOutside`);
for the two that do, `IInv` of the life cycle says that nobody else is there
(`EntryIsAlone`, `LeavesNobody`). It follows:

* `StoppedIsQuiet`: a clear flag means that `Run()` is over, no handle of a service
  is open and no registration outstanding.
* `EveryRunKeepsItsPromises`: every worker has in `Run()` what was proved of
  `ServiceMonitor` alone, whatever the callers and its own callback do with the
  notifier.

### ScopeGuardProofs

For any number of objects, actions and scopes. `uncaught` is always the count at the
entry of the innermost scope, one more if an exception unwinds that scope, and a
guard has the count of the entry of its scope; so the comparison in a
destructor tells what the scope is doing. `OneOwner` and `TypeOK` hold without
assumption; `CountTellsUnwinding`, `RunsAsNamed` and the refinement of
`ScopedCleanup` for `~AcrossUnwinding`.

### ExecutableProbeProofs

For any number of processes and paths. A process that has run since the call began
is in the snapshot and stays ahead in the walk until it is the current entry, where
it can be opened and queried. All the probe's invariants of `example_action` follow.

### ExampleActionProofs

For any number of executables and processes. `ActionIsClient`: the action function
makes only steps the probe allows, so what was proved of the probe holds of every
question it asks. `ActionIsUnmuted` and `SilenceIsMuted` put the answers of one call together, with
processes that start and end between the questions. The invariant follows the index
of the mute list: a process that has run one of its executables since the call began
(`since`) is, when its executable is asked about, among those that the probe watches
(`throughout`), so behind the index only processes are left that the probe cannot
tell, because they may not be opened or their path is too long (`Asked`); and whoever
the probe found was met (`Asking`, `Decided`).

### ExampleProgramProofs

`ProgramIsClient`: `main` calls the notifier only where the life cycle allows it,
although nothing in the model holds it back. It takes an invariant of both: where
`main` is, that the object is there until `main` destroys it (`Owned`) and that
workers do not call (`OnlyMainCalls`) say which calls are legal; that a worker's
cleanup is not inside a call is `Guards` of `IInv`. `IInv` carries over the next step
because the step is the life cycle's, so the two are proved together
(`MainInvariant`). Then the life cycle's theorems hold in the program, and with the
rest of `MainInv`: `SuccessMeansStopped` and `LeavesNobodyUntold`.

### Only model-checked

Every invariant that a passing run checks is stated by a theorem, and so is every
refinement (`OneWorkerAtATime`, `RelaysInOrder`, `KeepsPromise`, `UsesNotifier`). What is left to TLC is liveness: `ExitReturns`,
`SignaledWorkerStops`, `NoOrphan`, `StopsWhenTold`, `ExitEndsRun`,
`RelaysEveryChange`, `ProbeEnds`, `ActionEnds`, `ProgramEnds`. Proofs from `WF` and
`SF` need `ENABLED`, which the provers cannot do. `ExitTellsWorker` holds for one
application thread only, in the theorem as in the run.

## 6. Not modelled

* Build files, CI and the vendored `run-clang-tidy.py` are not part of the program.
  Logging, string conversion and the layout of `SERVICE_NOTIFY` are left out.
* Memory order: discussed in section 2. An invalid use of the destructor (another
  thread inside a call) is outside the class's contract.
* The thread's last steps. The flag is cleared in the cleanup (`sscn.cpp:303`), while
  the thread still holds the mutex and has its arguments to destroy, the copy of
  the action function among them. `Exit()` may return true in between;
  `sscn.cpp:345` calls the worker not running then. What the flag promises is that
  `Run()` is over and has released everything (`StoppedMeansReleased`,
  `QuietWhenStopped`); the destructor of the application's callable is not modelled.
  APCs that are still queued then would write to a list that is gone if that
  destructor waited alertably; nothing else there does.
* Two listed names of which one continues the other after a NUL. The callback would
  read back the key of the other service (`sscn.cpp:82`, `108`); `OneRequestEach`
  assumes that names stay apart, and no run includes such a pair.
* Guards moved across an unwinding. `scope_fail` and `scope_success` copy the count
  when they are moved (`scope.hpp:202`, `287`). In a scope that was entered while an
  exception unwinds the scope the guard comes from, the count is too small, and the
  comparison says "unwinding" although nothing unwinds that scope. No guard of
  the repository is moved that way; the constant `AcrossUnwinding` allows it
  (`CountTellsUnwinding` then fails), `guard_actions` and the theorems exclude it.
  Guards on the heap, whose lifetime no scope bounds, are not modelled.
* `std::mutex::lock` that throws, and a snapshot walk that ends early with an error
  of `Process32NextW`, which the code takes for the end.
* Within the argument tuple of the thread the order of copying and destroying is
  the library's: the guard may be the first or the last. Both places where the
  constructor can throw are modelled, the order among the other arguments is not.

## 7. What is left

The model covers all of `sscn.cpp`, `utilities.cpp`, `main.cpp` and the guards.
Worth adding: `Inside` without `PlainInputs`, which needs the handles of one worker
to be told from those of the next; and `ExampleProgram` over `NotifierSystem`, so
that `main` is seen together with what its worker does in `Run()`.
