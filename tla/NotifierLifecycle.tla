--------------------------- MODULE NotifierLifecycle ---------------------------
(***************************************************************************)
(* The life of a ServiceStatusChangedNotifierAPC object (sscn.hpp,         *)
(* sscn.cpp): Start(), Exit() and the destructor called by any thread, the *)
(* detached worker thread, and the cleanup guard that travels from the     *)
(* starter into the worker.  One step is one access to the shared State    *)
(* (running, exit_event_mutex, exit_event) or one move or destruction of a *)
(* guard.  What the worker does inside Run() is in ServiceMonitor; here it *)
(* is waiting ("run") or inside the user's callback ("action"), where it   *)
(* may call the notifier again.                                            *)
(***************************************************************************)
EXTENDS Naturals

CONSTANTS Callers,   \* the application's threads
          Starts,    \* accepted Start() calls: each has one event, one guard and
                     \* at most one worker thread, which goes by the same name
          Null,      \* nullptr
          MaxPolls   \* iterations of the wait in Exit(), 50 in the code

Threads == Callers \cup Starts

ASSUME ThreadsAssumption == Callers \cap Starts = {} /\ Null \notin Threads
ASSUME PollsAssumption == MaxPolls \in Nat \ {0}

VARIABLES running,   \* State::running
          mutex,     \* the thread that holds State::exit_event_mutex, or Null
          exitEvent, \* State::exit_event: the start whose event it is, or Null
          event,     \* the kernel object of each start
          signaled,  \* events that are set (manual reset: they stay set)
          guard,     \* per start: the scope_exit objects whose active_ is true
          refs,      \* shared_ptr<State> copies held by cleanup lambdas and Run()
          object,    \* the notifier object itself
          pc,        \* what each thread is doing
          cur,       \* the start a thread is performing or cleaning up
          holder,    \* the guard object a thread is destroying
          polls      \* the loop counter of Exit()

osVars == <<exitEvent, event, signaled>>
guardVars == <<guard, refs, cur, holder>>
vars == <<running, mutex, osVars, guardVars, object, pc, polls>>

(***************************************************************************)
(* The places a guard object lives in: StartImpl()'s local variable, the   *)
(* thread's argument tuple, the by-value parameter of the entry lambda.    *)
(***************************************************************************)
Holders == {"starter", "args", "entry"}

StartLabels == {"create", "check", "spawn", "leave"}
CleanupLabels ==
  {"cleanupLock", "cleanupClose", "cleanupNull", "cleanupStore", "cleanupUnlock"}
ExitLabels == {"exitLock", "exitCheck", "exitSet", "exitUnlock", "poll", "exitReturn"}
RunLabels == {"run", "action"}

\* Between two calls of the notifier a caller is idle and a worker is in the
\* user's callback.
Home(t) == IF t \in Callers THEN "idle" ELSE "action"

Goto(t, to) == pc' = [pc EXCEPT ![t] = to]
Step(t, from, to) == pc[t] = from /\ Goto(t, to)

InCall(t) == \/ pc[t] \in StartLabels \cup ExitLabels
             \/ pc[t] \in CleanupLabels /\ holder[t] # "entry"
CanCall(t) == object = "alive" /\ pc[t] = Home(t)

Init ==
  /\ running = FALSE
  /\ mutex = Null
  /\ exitEvent = Null
  /\ event = [s \in Starts |-> "none"]
  /\ signaled = {}
  /\ guard = [s \in Starts |-> {}]
  /\ refs = {}
  /\ object = "alive"
  /\ pc = [t \in Threads |-> IF t \in Callers THEN "idle" ELSE "none"]
  /\ cur = [t \in Threads |-> Null]
  /\ holder = [t \in Threads |-> Null]
  /\ polls = [t \in Threads |-> 0]

-----------------------------------------------------------------------------
(* std::mutex and the scope_exit guard *)

Lock(t) == mutex = Null /\ mutex' = t
Unlock == mutex' = Null

\* Variant: the lambda captures a reference to the State.
CapturesReference(s) == {}

\* The lambda of the guard captures its own shared_ptr to the State.
CapturedBy(s) == {<<"closure", s>>}

\* Variant: the move constructor does not release its source.
MoveKeepsSource(s, from, to) ==
  guard' = [guard EXCEPT ![s] = IF from \in @ THEN @ \cup {to} ELSE @]

\* The move constructor: the new object takes over active_, the source is
\* released.
MoveGuard(s, from, to) ==
  guard' = [guard EXCEPT ![s] = IF from \in @ THEN (@ \ {from}) \cup {to} ELSE @]

\* Variants: the guard is left to the worker, or released by it.
FiresInWorker(s, h) == h = "entry" /\ h \in guard[s]
FiresInStarter(s, h) == h # "entry" /\ h \in guard[s]
Fires(s, h) == h \in guard[s]

\* ~scope_exit of the guard object h of start s, by thread t: run the cleanup
\* if the object is still active, otherwise go on.
DestroyGuard(t, s, h, next) ==
  IF Fires(s, h)
  THEN Goto(t, "cleanupLock") /\ holder' = [holder EXCEPT ![t] = h]
  ELSE Goto(t, next) /\ UNCHANGED holder

\* Where a thread goes on after it destroyed an active guard object: out of
\* StartImpl(), or through the destruction of the next guard object.
AfterCleanup(t) ==
  IF t \in Callers THEN "leave"
  ELSE IF holder[t] = "entry" THEN "epilogue" ELSE "done"

\* Variant: the flag is cleared first.
CleanupClearsFlagFirst(t) ==
  /\ Step(t, "cleanupLock", "cleanupClose")
  /\ Lock(t)
  /\ running' = FALSE
  /\ UNCHANGED <<osVars, guardVars, object, polls>>

CleanupLock(t) ==
  /\ Step(t, "cleanupLock", "cleanupClose")
  /\ Lock(t)
  /\ UNCHANGED <<running, osVars, guardVars, object, polls>>

CleanupClose(t) ==
  /\ pc[t] = "cleanupClose"
  /\ \/ /\ exitEvent = Null
        /\ Goto(t, "cleanupStore")
        /\ UNCHANGED event
     \/ /\ exitEvent # Null
        /\ Goto(t, "cleanupNull")
        /\ event' = [event EXCEPT ![exitEvent] = "closed"]
  /\ UNCHANGED <<running, mutex, exitEvent, signaled, guardVars, object, polls>>

CleanupNull(t) ==
  /\ Step(t, "cleanupNull", "cleanupStore")
  /\ exitEvent' = Null
  /\ UNCHANGED <<running, mutex, event, signaled, guardVars, object, polls>>

CleanupStore(t) ==
  /\ Step(t, "cleanupStore", "cleanupUnlock")
  /\ running' = FALSE
  /\ UNCHANGED <<mutex, osVars, guardVars, object, polls>>

\* The lock_guard is the last thing the lambda destroys; then the guard object
\* goes away with the lambda's reference to the State.
CleanupUnlock(t) ==
  /\ Step(t, "cleanupUnlock", AfterCleanup(t))
  /\ Unlock
  /\ guard' = [guard EXCEPT ![cur[t]] = @ \ {holder[t]}]
  /\ refs' = refs \ {<<"closure", cur[t]>>}
  /\ holder' = [holder EXCEPT ![t] = Null]
  /\ UNCHANGED <<running, osVars, cur, object, polls>>

-----------------------------------------------------------------------------
(* StartImpl() *)

\* running.exchange(true): a call that finds TRUE returns false and changes
\* nothing.
\* Variant: the old value of the flag is not looked at.
AcquireUnchecked == running' = TRUE
AcquireFlag == ~running /\ running' = TRUE

\* A start that was never given an event: one whose CreateEventW failed can be
\* tried again.
Fresh(s) == event[s] = "none" /\ \A t \in Threads : cur[t] # s

StartCalled(t) ==
  /\ AcquireFlag
  /\ \E s \in Starts :
       /\ Fresh(s)
       /\ cur' = [cur EXCEPT ![t] = s]
       /\ guard' = [guard EXCEPT ![s] = {"starter"}]
       /\ refs' = refs \cup CapturedBy(s)
  /\ Goto(t, "create")
  /\ UNCHANGED <<mutex, osVars, holder, object, polls>>
StartExchange(t) == CanCall(t) /\ StartCalled(t)

\* CreateEventW under the lock: a new event, or nullptr.
StartCreateEvent(t) ==
  /\ Step(t, "create", "check")
  /\ mutex = Null
  /\ \/ exitEvent' = cur[t] /\ event' = [event EXCEPT ![cur[t]] = "open"]
     \/ exitEvent' = Null /\ UNCHANGED event
  /\ UNCHANGED <<running, mutex, signaled, guardVars, object, polls>>

\* The test of exit_event after the lock was released.
StartCheckEvent(t) ==
  /\ Step(t, "check", IF exitEvent = Null THEN "leave" ELSE "spawn")
  /\ UNCHANGED <<running, mutex, osVars, guardVars, object, polls>>

\* std::jthread fails before the guard was moved into its argument tuple.
StartArgsThrow(t) ==
  /\ Step(t, "spawn", "leave")
  /\ UNCHANGED <<running, mutex, osVars, guardVars, object, polls>>

\* It fails afterwards: a later argument was not copied (the order within the
\* tuple is the library's) or the thread was not created.  The guard in the tuple
\* is destroyed while the exception leaves the constructor.
StartThreadThrows(t) ==
  /\ pc[t] = "spawn"
  /\ MoveGuard(cur[t], "starter", "args")
  /\ Goto(t, "cleanupLock")
  /\ holder' = [holder EXCEPT ![t] = "args"]
  /\ UNCHANGED <<running, mutex, osVars, refs, cur, object, polls>>

StartSpawn(t) ==
  /\ pc[t] = "spawn"
  /\ MoveGuard(cur[t], "starter", "args")
  /\ refs' = refs \cup {<<"run", cur[t]>>}
  /\ pc' = [pc EXCEPT ![t] = "leave", ![cur[t]] = "entry"]
  /\ UNCHANGED <<running, mutex, osVars, cur, holder, object, polls>>

\* The end of StartImpl()'s scope, on every path: its guard is destroyed.
StartLeave(t) ==
  /\ pc[t] = "leave"
  /\ DestroyGuard(t, cur[t], "starter", Home(t))
  /\ cur' = [cur EXCEPT ![t] = IF Fires(cur[t], "starter") THEN @ ELSE Null]
  /\ UNCHANGED <<running, mutex, osVars, guard, refs, object, polls>>

-----------------------------------------------------------------------------
(* The worker thread: the entry lambda, Run(), the thread's end *)

WorkerEnter(w) ==
  /\ Step(w, "entry", "run")
  /\ MoveGuard(w, "args", "entry")
  /\ UNCHANGED <<running, mutex, osVars, refs, cur, holder, object, polls>>

WorkerActs(w) ==
  /\ Step(w, "run", "action")
  /\ UNCHANGED <<running, mutex, osVars, guardVars, object, polls>>

ActionReturns(w) ==
  /\ Step(w, "action", "run")
  /\ UNCHANGED <<running, mutex, osVars, guardVars, object, polls>>

\* Run() returned and dropped its State; the lambda's guard parameter goes.
RunReturns(w) ==
  /\ pc[w] = "run"
  /\ refs' = refs \ {<<"run", w>>}
  /\ cur' = [cur EXCEPT ![w] = w]
  /\ DestroyGuard(w, w, "entry", "epilogue")
  /\ UNCHANGED <<running, mutex, osVars, guard, object, polls>>

\* WAIT_OBJECT_0.  exit_event is read from the State on every wait.
WaitSignaled(w) == exitEvent \in signaled /\ RunReturns(w)

\* WAIT_FAILED, or an exception that Run() swallows.
RunFails(w) == RunReturns(w)

\* The argument tuple, and the moved-from guard in it, are destroyed.
WorkerEpilogue(w) ==
  /\ pc[w] = "epilogue"
  /\ DestroyGuard(w, w, "args", "done")
  /\ UNCHANGED <<running, mutex, osVars, guard, refs, cur, object, polls>>

-----------------------------------------------------------------------------
(* Exit() and the destructor *)

ExitCalled(t) ==
  /\ Goto(t, "exitLock")
  /\ UNCHANGED <<running, mutex, osVars, guardVars, object, polls>>
ExitBegin(t) == CanCall(t) /\ ExitCalled(t)

\* The destructor is a call of Exit().
DestructorCalled(t) ==
  /\ object' = "destroying"
  /\ Goto(t, "exitLock")
  /\ UNCHANGED <<running, mutex, osVars, guardVars, polls>>

\* The owner destroys the object: it has to know that nobody else is inside a
\* call.
Destroy(t) ==
  /\ CanCall(t)
  /\ \A u \in Threads : ~InCall(u)
  /\ DestructorCalled(t)

\* Variant: Exit() does not take the lock.
ExitLockOmitted(t) ==
  /\ Step(t, "exitLock", "exitCheck")
  /\ UNCHANGED <<running, mutex, osVars, guardVars, object, polls>>

ExitLock(t) ==
  /\ Step(t, "exitLock", "exitCheck")
  /\ Lock(t)
  /\ UNCHANGED <<running, osVars, guardVars, object, polls>>

\* Variant: the test for nullptr is inverted.
ExitCheckInverted(t) ==
  /\ Step(t, "exitCheck", IF exitEvent = Null THEN "exitSet" ELSE "exitUnlock")
  /\ UNCHANGED <<running, mutex, osVars, guardVars, object, polls>>

ExitCheck(t) ==
  /\ Step(t, "exitCheck", IF exitEvent = Null THEN "exitUnlock" ELSE "exitSet")
  /\ UNCHANGED <<running, mutex, osVars, guardVars, object, polls>>

\* SetEvent on the handle that exit_event holds now.
SetEvent == signaled' = signaled \cup {exitEvent}

ExitSet(t) ==
  /\ Step(t, "exitSet", "exitUnlock")
  /\ SetEvent
  /\ UNCHANGED <<running, mutex, exitEvent, event, guardVars, object, polls>>

ExitUnlock(t) ==
  /\ Step(t, "exitUnlock", "poll")
  /\ Unlock
  /\ polls' = [polls EXCEPT ![t] = 0]
  /\ UNCHANGED <<running, osVars, guardVars, object>>

\* for (i = 0; i < 50; ++i): leave when the flag is clear, else sleep 100 ms.
\* Variants of the loop: one turn too many, or a counter that stands still.
PollsLeftInclusive(t) == polls[t] <= MaxPolls
SamePoll(t) == polls[t]
PollsLeft(t) == polls[t] < MaxPolls
NextPoll(t) == polls[t] + 1

ExitPoll(t) ==
  /\ pc[t] = "poll"
  /\ \/ PollsLeft(t) /\ running /\ polls' = [polls EXCEPT ![t] = NextPoll(t)]
        /\ UNCHANGED pc
     \/ ~(PollsLeft(t) /\ running) /\ Goto(t, "exitReturn") /\ UNCHANGED polls
  /\ UNCHANGED <<running, mutex, osVars, guardVars, object>>

\* The final load of the flag is the value returned.  When the destructor made
\* the call, the object and its reference to the State are gone.
ExitReturn(t) ==
  /\ Step(t, "exitReturn", Home(t))
  /\ object' = IF object = "destroying" THEN "destroyed" ELSE object
  /\ polls' = [polls EXCEPT ![t] = 0]
  /\ UNCHANGED <<running, mutex, osVars, guardVars>>

-----------------------------------------------------------------------------
(* The system *)

StartStep(t) ==
  \/ StartExchange(t) \/ StartCreateEvent(t) \/ StartCheckEvent(t)
  \/ StartArgsThrow(t) \/ StartThreadThrows(t) \/ StartSpawn(t) \/ StartLeave(t)
CleanupStep(t) ==
  \/ CleanupLock(t) \/ CleanupClose(t) \/ CleanupNull(t)
  \/ CleanupStore(t) \/ CleanupUnlock(t)
ExitStep(t) ==
  \/ ExitLock(t) \/ ExitCheck(t) \/ ExitSet(t)
  \/ ExitUnlock(t) \/ ExitPoll(t) \/ ExitReturn(t)
WorkerStep(w) ==
  \/ WorkerEnter(w) \/ WorkerActs(w) \/ ActionReturns(w)
  \/ WaitSignaled(w) \/ RunFails(w) \/ WorkerEpilogue(w)

\* Nobody can call a destroyed object and every worker has ended.
Ended == /\ object = "destroyed"
         /\ \A s \in Starts : pc[s] \in {"none", "done"}

Next ==
  \/ \E t \in Threads : \/ StartStep(t) \/ CleanupStep(t) \/ ExitStep(t)
                         \/ ExitBegin(t) \/ Destroy(t)
  \/ \E w \in Starts : WorkerStep(w)
  \/ Ended /\ UNCHANGED vars

Spec == Init /\ [][Next]_vars

(***************************************************************************)
(* A thread that is inside the notifier keeps running.  Only its lock()     *)
(* steps can be enabled now and then: strong fairness says that a thread    *)
(* blocked in lock() gets the mutex at some time, and is weak fairness for  *)
(* every other step.  Nobody has to call, and the user's callback may block *)
(* for ever (README.md, "Example").                                         *)
(***************************************************************************)
InsideStep(t) ==
  \/ StartStep(t) /\ pc[t] # Home(t)
  \/ CleanupStep(t)
  \/ ExitStep(t)
  \/ t \in Starts /\ (WorkerEnter(t) \/ WorkerEpilogue(t))
ThreadsRun == \A t \in Threads : SF_vars(InsideStep(t))

\* The callback returns, and a wait on a set event returns WAIT_OBJECT_0 unless
\* an APC is delivered each and every time.
CallbackReturns ==
  \A w \in Starts : SF_vars(ActionReturns(w)) /\ SF_vars(WaitSignaled(w))

FairSpec == Spec /\ ThreadsRun

-----------------------------------------------------------------------------
(* Properties *)

TypeOK ==
  /\ running \in BOOLEAN
  /\ mutex \in Threads \cup {Null}
  /\ exitEvent \in Starts \cup {Null}
  /\ event \in [Starts -> {"none", "open", "closed"}]
  /\ signaled \subseteq Starts
  /\ guard \in [Starts -> SUBSET Holders]
  /\ refs \subseteq {"closure", "run"} \X Starts
  /\ object \in {"alive", "destroying", "destroyed"}
  /\ pc \in [Threads -> StartLabels \cup CleanupLabels \cup ExitLabels \cup RunLabels
                          \cup {"idle", "none", "entry", "epilogue", "done"}]
  /\ cur \in [Threads -> Starts \cup {Null}]
  /\ holder \in [Threads -> Holders \cup {Null}]
  /\ polls \in [Threads -> 0 .. MaxPolls]

InRun(w) == pc[w] \in RunLabels \cup ExitLabels
StateAlive == object # "destroyed" \/ refs # {}

\* While a worker is inside Run(), State::exit_event is its own event and that
\* event is open: the wait reads the handle without the lock (sscn.cpp:249-258).
WaitsOnOwnEvent ==
  \A w \in Starts : InRun(w) => exitEvent = w /\ event[w] = "open"

\* A cleanup that has the lock releases what its own start acquired: never the
\* event or the flag of a later start (sscn.cpp:287-304).
CleanupOwnsState ==
  \A t \in Threads :
    pc[t] \in CleanupLabels \ {"cleanupUnlock"} =>
      running /\ exitEvent \in {Null, cur[t]}

\* When Exit() signals, exit_event is an open handle: the cleanup cannot close
\* it between the test and SetEvent (sscn.cpp:347-353).
SetEventOnOpenHandle ==
  \A t \in Threads :
    pc[t] = "exitSet" => exitEvent # Null /\ event[exitEvent] = "open"

\* A clear flag, which is what makes Exit() return true, means that no worker is
\* inside Run() or about to enter it, and that no event is left open
\* (sscn.cpp:344-345 and 188-191).
StoppedMeansReleased ==
  ~running => /\ \A w \in Starts : ~InRun(w) /\ pc[w] # "entry"
              /\ exitEvent = Null
              /\ \A s \in Starts : event[s] # "open"

\* Whoever uses the State, the worker that outlives the object included, finds
\* it alive (sscn.hpp:109-115).
StateOutlivesUse ==
  \A t \in Threads :
    pc[t] \in StartLabels \cup CleanupLabels \cup ExitLabels \cup RunLabels \cup {"entry"}
      => StateAlive

\* A start that nobody works on any more left nothing behind: event closed, no
\* active guard, no reference, and the flag is not stuck (sscn.cpp:287-292).
NothingLeaks ==
  /\ \A s \in Starts :
       (pc[s] \in {"none", "done"} /\ \A t \in Threads \ {s} : cur[t] # s) =>
         /\ event[s] # "open"
         /\ guard[s] = {}
         /\ <<"closure", s>> \notin refs /\ <<"run", s>> \notin refs
  /\ running => \E s \in Starts : guard[s] # {}

\* When Exit() times out, the worker that is still in Run() was told to stop
\* (sscn.hpp:88-90: "Signals the worker to stop and waits up to 5 seconds").
ExitTellsWorker ==
  \A t \in Threads :
    pc[t] = "exitReturn" /\ running /\ polls[t] = MaxPolls =>
      \A w \in Starts : InRun(w) => w \in signaled

\* Exit() comes back whatever the callback does (README.md:55).
ExitReturns ==
  \A t \in Threads : pc[t] \in ExitLabels ~> pc[t] = Home(t)

\* A worker whose event was set ends and releases its event.
SignaledWorkerStops ==
  CallbackReturns => \A s \in Starts : s \in signaled ~> event[s] = "closed"

\* A destroyed notifier leaves no worker behind, and its State is freed
\* (sscn.hpp:55-58).
NoOrphan == CallbackReturns => (object = "destroyed" ~> Ended /\ refs = {})

(***************************************************************************)
(* The callers' view.  A start is active from the exchange until its        *)
(* cleanup clears the flag.                                                 *)
(***************************************************************************)
ActiveStart(s) ==
  /\ running /\ guard[s] # {}
  /\ \A t \in Threads : pc[t] = "cleanupUnlock" => cur[t] # s

Phase(s) ==
  IF InRun(s) THEN "working"
  ELSE IF ActiveStart(s)
       THEN IF pc[s] \in {"none", "entry"} THEN "accepted" ELSE "leaving"
       ELSE IF event[s] = "none" THEN "new" ELSE "released"

Workers == INSTANCE SingleWorker WITH
             phase <- [s \in Starts |-> Phase(s)], told <- signaled

\* Starts follow one another, whatever calls overlap, and a stop signal reaches
\* the active one (sscn.cpp:282-304 and 347-353).
OneWorkerAtATime == Workers!Spec
=============================================================================
