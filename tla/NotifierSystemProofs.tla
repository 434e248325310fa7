-------------------------- MODULE NotifierSystemProofs --------------------------
(***************************************************************************)
(* Proofs about NotifierSystem: putting ServiceMonitor into the worker      *)
(* leaves the life cycle what it was, so what was proved of it holds; and   *)
(* what the two promise together about the moment the flag is cleared.      *)
(***************************************************************************)
EXTENDS NotifierSystem, NotifierLifecycleProofs

\* ServiceMonitor, with what was proved of it.
Runs == INSTANCE NotificationRelayProofs WITH
          pc <- stage, exitSet <- exitEvent \in signaled

\* Its assumptions are the system's.
LEMMA RunsAssumptions ==
  /\ Runs!ListsAssumption /\ Runs!ReportedAssumption
  /\ Runs!StatesAssumption /\ Runs!FaultsAssumption
BY ListsAssumption, ReportedAssumption, StatesAssumption, FaultsAssumption
   DEF Runs!ListsAssumption, Runs!ReportedAssumption, Runs!StatesAssumption,
       Runs!FaultsAssumption, Runs!FaultKinds, Monitor!FaultKinds

-----------------------------------------------------------------------------
(* The life cycle *)

\* A step of the system is a step of the life cycle, or changes nothing of it.
LEMMA StepIsLifecycles == [SystemNext]_allVars => [Next]_vars
<1> SUFFICES ASSUME [SystemNext]_allVars PROVE [Next]_vars
  OBVIOUS
<1>1. ASSUME NEW t \in Threads, Outside(t) \/ Calls(t) PROVE Next
  BY <1>1 DEF Outside, Calls, Next, WorkerStep
<1>2. ASSUME NEW w \in Starts, WorkerEntersRun(w) \/ CallsAction(w) \/ LeavesRun(w) \/ ActionReturned(w)
      PROVE  Next
  BY <1>2 DEF WorkerEntersRun, CallsAction, LeavesRun, ActionReturned, Next, WorkerStep, RunFails
<1>3. ASSUME NEW w \in Starts, Monitors(w) \/ TakesApc(w) \/ WaitBreaks(w) PROVE UNCHANGED vars
  BY <1>3 DEF Monitors, TakesApc, WaitBreaks, OnlyRun
<1>4. ScmCompletes \/ UNCHANGED allVars => UNCHANGED vars
  BY DEF ScmCompletes, OnlyRun, allVars
<1>5. ASSUME NEW w \in Starts, ThreadEnds(w) PROVE Next
  BY <1>5 DEF ThreadEnds, Next, WorkerStep
<1> QED
  BY <1>1, <1>2, <1>3, <1>4, <1>5 DEF SystemNext, WorkerWorks

\* The system with the worker's own steps behaves as NotifierLifecycle says of any
\* worker (sscn.cpp:245-266).
THEOREM SystemIsNotifier == SystemSpec => Spec
<1>1. SystemInit => Init
  BY DEF SystemInit
<1> QED
  BY <1>1, StepIsLifecycles, PTL DEF SystemSpec, Spec

-----------------------------------------------------------------------------
(* Who is inside Run() *)

Occupied == \E w \in Starts : InRun(w)

\* A step that leaves Run()'s locals alone.
NotInRun(t) == Outside(t) \/ Calls(t) \/ (t \in Starts /\ ThreadEnds(t))

\* The steps of the life cycle that do not end Run() leave a worker in it.
LEMMA StaysInRun ==
  ASSUME IInv, NEW t \in Threads, NotInRun(t), NEW w \in Starts, InRun(w)
  PROVE  InRun(w)'
<1> USE ThreadsAssumption
    DEF IInv, TypeOK, InRun, RunLabels, ExitLabels, StartLabels, CleanupLabels, Threads, Home, Goto, Step
<1>1. running
  <2>1. w \in Threads /\ Responsible(w)
    BY DEF Responsible, Working
  <2> QED
    BY <2>1 DEF OneResponsible
<1>2. CASE StartStep(t)
  <2>1. ~StartExchange(t) /\ pc[w] \notin StartLabels
    BY <1>1 DEF StartExchange, StartCalled, AcquireFlag
  <2>2. pc[t] \in StartLabels
    BY <1>2, <2>1 DEF StartStep, StartCreateEvent, StartCheckEvent, StartArgsThrow,
                      StartThreadThrows, StartSpawn, StartLeave
  <2>3. CASE StartSpawn(t)
    BY <2>2, <2>3 DEF StartSpawn, Unused
  <2>4. ~StartSpawn(t) => pc'[w] = pc[w]
    BY <1>2, <2>1, <2>2 DEF StartStep, StartCreateEvent, StartCheckEvent, StartArgsThrow,
                            StartThreadThrows, StartLeave, DestroyGuard
  <2> QED
    BY <2>3, <2>4
<1>3. CASE CleanupStep(t)
  <2>1. pc[t] \in CleanupLabels
    BY <1>3 DEF CleanupStep, CleanupLock, CleanupClose, CleanupNull, CleanupStore, CleanupUnlock
  <2>2. pc'[w] = pc[w]
    BY <1>3, <2>1 DEF CleanupStep, CleanupLock, CleanupClose, CleanupNull, CleanupStore, CleanupUnlock
  <2> QED
    BY <2>2
<1>4. CASE ExitStep(t)
  BY <1>4 DEF ExitStep, ExitLock, ExitCheck, ExitSet, ExitUnlock, ExitPoll, ExitReturn
<1>5. CASE t \in Starts /\ WorkerEpilogue(t)
  BY <1>5 DEF WorkerEpilogue, DestroyGuard
<1>6. CASE ExitBegin(t) \/ Destroy(t)
  BY <1>6 DEF ExitBegin, ExitCalled, Destroy, DestructorCalled, CanCall
<1> QED
  BY <1>2, <1>3, <1>4, <1>5, <1>6 DEF NotInRun, Outside, Calls, ThreadEnds

\* ... and bring nobody into it.
LEMMA StaysOutside ==
  ASSUME IInv, NEW t \in Threads, NotInRun(t), NEW w \in Starts, InRun(w)'
  PROVE  InRun(w)
<1> USE ThreadsAssumption
    DEF IInv, TypeOK, InRun, RunLabels, ExitLabels, StartLabels, CleanupLabels, Threads, Home, Goto, Step
<1>1. w \in Threads /\ w \notin Callers
  OBVIOUS
<1>2. CASE StartStep(t)
  <2>1. CASE t \in Starts
    <3>1. pc[t] \notin StartLabels
      BY <2>1 DEF Kinds, Working
    <3>2. StartExchange(t)
      BY <1>2, <3>1 DEF StartStep, StartCreateEvent, StartCheckEvent, StartArgsThrow,
                        StartThreadThrows, StartSpawn, StartLeave
    <3> QED
      BY <1>1, <2>1, <3>2 DEF StartExchange, StartCalled, CanCall
  <2>2. CASE t \in Callers
    <3>1. w # t
      BY <1>1, <2>2
    <3>2. CASE StartSpawn(t)
      BY <1>1, <3>1, <3>2 DEF StartSpawn
    <3>3. CASE StartExchange(t)
      BY <1>1, <3>1, <3>3 DEF StartExchange, StartCalled
    <3>4. CASE ~StartSpawn(t) /\ ~StartExchange(t)
      BY <1>1, <1>2, <3>1, <3>4 DEF StartStep, StartCreateEvent, StartCheckEvent,
           StartArgsThrow, StartThreadThrows, StartLeave, DestroyGuard
    <3> QED
      BY <3>2, <3>3, <3>4
  <2> QED
    BY <2>1, <2>2
<1>3. CASE CleanupStep(t)
  BY <1>1, <1>3 DEF CleanupStep, CleanupLock, CleanupClose, CleanupNull, CleanupStore,
                    CleanupUnlock, AfterCleanup
<1>4. CASE ExitStep(t)
  BY <1>4 DEF ExitStep, ExitLock, ExitCheck, ExitSet, ExitUnlock, ExitPoll, ExitReturn
<1>5. CASE t \in Starts /\ WorkerEpilogue(t)
  BY <1>5 DEF WorkerEpilogue, DestroyGuard
<1>6. CASE ExitBegin(t) \/ Destroy(t)
  BY <1>1, <1>6 DEF ExitBegin, ExitCalled, Destroy, DestructorCalled, CanCall
<1> QED
  BY <1>2, <1>3, <1>4, <1>5, <1>6 DEF NotInRun, Outside, Calls, ThreadEnds

\* A thread that is about to enter Run() finds nobody there.
LEMMA EntryIsAlone ==
  ASSUME IInv, NEW w \in Starts, pc[w] = "entry", NEW u \in Starts
  PROVE  ~InRun(u)
<1>1. /\ w \in Threads /\ Responsible(w)
      /\ InRun(u) => u \in Threads /\ Responsible(u)
  BY DEF Threads, Responsible, Working, InRun
<1>2. InRun(u) => u = w
  BY <1>1 DEF IInv, OneResponsible
<1> QED
  BY <1>2 DEF InRun, RunLabels, ExitLabels

\* A thread that leaves Run() was alone in it.
LEMMA LeavesNobody ==
  ASSUME IInv, NEW w \in Starts, RunReturns(w)
  PROVE  ~Occupied'
<1>1. ASSUME NEW u \in Starts, InRun(u) PROVE u = w
  <2>1. /\ w \in Threads /\ Responsible(w) /\ u \in Threads /\ Responsible(u)
    BY <1>1 DEF RunReturns, Threads, Responsible, Working, InRun, RunLabels
  <2> QED
    BY <2>1 DEF IInv, OneResponsible
<1>2. ASSUME NEW u \in Starts PROVE ~InRun(u)'
  BY <1>1, <1>2, ThreadsAssumption
     DEF RunReturns, DestroyGuard, Goto, InRun, RunLabels, ExitLabels, IInv, TypeOK, Threads
<1> QED
  BY <1>2 DEF Occupied

-----------------------------------------------------------------------------
(* What is inside Run() *)

\* What is assumed of the inputs: services are listed once (monitor_duplicates),
\* and no allocation fails (monitor_seed_throws).
PlainInputs == Runs!PlainRun

\* Whoever is inside Run() finds there what ServiceMonitor promises; outside
\* nothing is held.
Inside ==
  IF Occupied THEN Runs!RunInv ELSE NoLocals /\ open = {} /\ pending = {}

\* The steps that the worker takes in Run() are ServiceMonitor's.
LEMMA StepIsRuns ==
  ASSUME \/ Monitor!Worker \/ Monitor!ActionReturns \/ Monitor!WaitFailed
         \/ \E n \in Names : Monitor!ScmNotifies(n)
  PROVE  Runs!Next
<1> USE DEF Monitor!inputs, Runs!inputs, Monitor!mapVars, Runs!mapVars, Monitor!scmVars,
            Runs!scmVars, Monitor!history, Runs!history
<1>1. Monitor!OpenScm => Runs!OpenScm
  BY DEF Monitor!OpenScm, Runs!OpenScm
<1>2. Monitor!SeedService => Runs!SeedService
  BY DEF Monitor!SeedService, Runs!SeedService, Monitor!Seed, Runs!Seed, Monitor!Entry,
         Runs!Entry
<1>3. Monitor!SeedThrows => Runs!SeedThrows
  BY DEF Monitor!SeedThrows, Runs!SeedThrows
<1>4. Monitor!SeedDone => Runs!SeedDone
  BY DEF Monitor!SeedDone, Runs!SeedDone
<1>5. Monitor!Dispatch => Runs!Dispatch
  BY DEF Monitor!Dispatch, Runs!Dispatch, Monitor!Item, Runs!Item, Monitor!IsChange,
         Runs!IsChange
<1>6. Monitor!ActionReturns => Runs!ActionReturns
  BY DEF Monitor!ActionReturns, Runs!ActionReturns
<1>7. Monitor!FinishDeleted => Runs!FinishDeleted
  BY DEF Monitor!FinishDeleted, Runs!FinishDeleted, Monitor!AtFront, Runs!AtFront,
         Monitor!Item, Runs!Item, Monitor!IsChange, Runs!IsChange, Monitor!Usable,
         Runs!Usable, Monitor!CloseService, Runs!CloseService, Monitor!PopFront,
         Runs!PopFront
<1>8. Monitor!Subscribe => Runs!Subscribe
  BY DEF Monitor!Subscribe, Runs!Subscribe, Monitor!AtFront, Runs!AtFront, Monitor!Item,
         Runs!Item, Monitor!IsChange, Runs!IsChange, Monitor!Usable, Runs!Usable,
         Monitor!Zeroed, Runs!Zeroed, Monitor!PopFront, Runs!PopFront
<1>9. Monitor!SubscribeSkips => Runs!SubscribeSkips
  BY DEF Monitor!SubscribeSkips, Runs!SubscribeSkips, Monitor!AtFront, Runs!AtFront,
         Monitor!Item, Runs!Item, Monitor!IsChange, Runs!IsChange, Monitor!Usable,
         Runs!Usable, Monitor!PopFront, Runs!PopFront
<1>10. Monitor!StartWait => Runs!StartWait
  BY DEF Monitor!StartWait, Runs!StartWait
<1>11. Monitor!NotifyCallback => Runs!NotifyCallback
  BY DEF Monitor!NotifyCallback, Runs!NotifyCallback, Monitor!Alertable, Runs!Alertable,
         Monitor!AfterApc, Runs!AfterApc, Monitor!Taken, Runs!Taken, Monitor!Delivers,
         Runs!Delivers, Monitor!Entry, Runs!Entry, Monitor!Reportable, Runs!Reportable, Monitor!Report, Runs!Report
<1>12. Monitor!NotifyCallbackThrows => Runs!NotifyCallbackThrows
  BY DEF Monitor!NotifyCallbackThrows, Runs!NotifyCallbackThrows, Monitor!Alertable,
         Runs!Alertable, Monitor!AfterApc, Runs!AfterApc, Monitor!Delivers,
         Runs!Delivers
<1>13. Monitor!WaitIoCompletion => Runs!WaitIoCompletion
  BY DEF Monitor!WaitIoCompletion, Runs!WaitIoCompletion
<1>14. Monitor!RunReturns => Runs!RunReturns
  BY DEF Monitor!RunReturns, Runs!RunReturns, Monitor!Usable, Runs!Usable
<1>15. ASSUME NEW n \in Names, Monitor!TeardownService(n) PROVE Runs!TeardownService(n)
  BY <1>15 DEF Monitor!TeardownService, Runs!TeardownService, Monitor!Usable, Runs!Usable,
               Monitor!CloseService, Runs!CloseService
<1>16. ASSUME NEW n \in Names, Monitor!ScmNotifies(n) PROVE Runs!ScmNotifies(n)
  BY <1>16 DEF Monitor!ScmNotifies, Runs!ScmNotifies
<1>17. Monitor!WaitExit => Runs!WaitExit
  BY DEF Monitor!WaitExit, Runs!WaitExit, Monitor!LeaveLoop, Runs!LeaveLoop
<1>18. Monitor!WaitFailed => Runs!WaitFailed
  BY DEF Monitor!WaitFailed, Runs!WaitFailed, Monitor!LeaveLoop, Runs!LeaveLoop
<1> QED
  BY <1>1, <1>2, <1>3, <1>4, <1>5, <1>6, <1>7, <1>8, <1>9, <1>10, <1>11, <1>12, <1>13,
     <1>14, <1>15, <1>16, <1>17, <1>18
     DEF Monitor!Worker, Runs!Worker, Runs!Next

\* A step of ServiceMonitor keeps its invariants, whoever else there is.
LEMMA RunKeeps == Runs!RunInv /\ Runs!Next => Runs!RunInv'
BY RunsAssumptions, Runs!StepRuns

LEMMA EnteredInside == Runs!Entered' => Runs!RunInv'
<1>1. Runs!Entered => Runs!RunInv
  BY RunsAssumptions, Runs!EnteredRuns
<1> QED
  BY <1>1, PTL

\* The rest of the notifier may set the event meanwhile.
LEMMA RunIsLeftAlone ==
  ASSUME Runs!RunInv, UNCHANGED monitorVars
  PROVE  Runs!RunInv'
<1>1. /\ list' = list /\ hasAction' = hasAction /\ stage' = stage /\ next' = next
      /\ mapped' = mapped /\ handle' = handle /\ buffer' = buffer /\ err' = err
      /\ open' = open /\ pending' = pending /\ apcs' = apcs /\ changes' = changes
      /\ told' = told /\ accepted' = accepted /\ handed' = handed
  BY DEF monitorVars
<1>2. UNCHANGED <<Runs!inputs, stage, next, Runs!mapVars, Runs!scmVars, changes, Runs!history>>
  BY <1>1 DEF Runs!inputs, Runs!mapVars, Runs!scmVars, Runs!history
<1> QED
  BY <1>2, RunsAssumptions, Runs!EventIsApart

\* A worker enters Run() with nothing in hand; the event may be set already.
LEMMA EntryKeeps ==
  ASSUME IInv, Inside, NEW w \in Starts, WorkerEntersRun(w)
  PROVE  Inside'
<1>1. NoLocals /\ open = {} /\ pending = {}
  BY EntryIsAlone DEF WorkerEntersRun, WorkerEnter, Step, Occupied, Inside
<1>2. Runs!Entered'
  BY <1>1 DEF NoLocals, WorkerEntersRun, Runs!Entered, Monitor!Zeroed, Runs!Zeroed
<1>3. Occupied'
  BY ThreadsAssumption
     DEF WorkerEntersRun, WorkerEnter, Step, Goto, InRun, RunLabels, IInv, TypeOK, Threads,
         Occupied
<1> QED
  BY <1>2, <1>3, EnteredInside DEF Inside

LEMMA SystemKeeps ==
  ASSUME PlainInputs, IInv, Inside, [SystemNext]_allVars
  PROVE  Inside'
<1>1. ASSUME NEW t \in Threads, NotInRun(t) PROVE Inside'
  <2>1. UNCHANGED monitorVars
    BY <1>1 DEF NotInRun, Outside, Calls, ThreadEnds
  <2>2. Occupied' <=> Occupied
    BY <1>1, StaysInRun, StaysOutside DEF Occupied
  <2> QED
    BY <2>1, <2>2, RunIsLeftAlone DEF Inside, monitorVars, NoLocals
<1>2. ASSUME NEW w \in Starts, WorkerEntersRun(w) PROVE Inside'
  BY <1>2, EntryKeeps
<1>3. ASSUME NEW w \in Starts, InRun(w), InRun(w)', Runs!Next PROVE Inside'
  BY <1>3, RunKeeps DEF Inside, Occupied
<1>4. ASSUME NEW w \in Starts, CallsAction(w) \/ ActionReturned(w) PROVE Inside'
  <2>1. InRun(w) /\ InRun(w)'
    BY <1>4, ThreadsAssumption
       DEF CallsAction, ActionReturned, WorkerActs, ActionReturns, Step, Goto, InRun, RunLabels,
           IInv, TypeOK, Threads
  <2>2. Monitor!Worker \/ Monitor!ActionReturns
    BY <1>4 DEF CallsAction, ActionReturned, Monitor!Worker
  <2> QED
    BY <1>3, <2>1, <2>2, StepIsRuns
<1>5. ASSUME NEW w \in Starts, Monitors(w) \/ TakesApc(w) \/ WaitBreaks(w)
      PROVE  Inside'
  <2>1. InRun(w) /\ InRun(w)'
    BY <1>5 DEF Monitors, TakesApc, WaitBreaks, OnlyRun, vars, InRun, RunLabels
  <2>2. Monitor!Worker \/ Monitor!WaitFailed
    BY <1>5 DEF Monitors, TakesApc, WaitBreaks, Monitor!Worker
  <2> QED
    BY <1>3, <2>1, <2>2, StepIsRuns
<1>6. ASSUME NEW w \in Starts, LeavesRun(w) PROVE Inside'
  <2>1. Runs!RunInv /\ stage = "returned"
    BY <1>6 DEF LeavesRun, RunReturns, Inside, Occupied, InRun, RunLabels
  <2>2. open = {} /\ pending = {}
    BY <2>1 DEF PlainInputs, Runs!RunInv, Runs!Owned, Runs!HandlesReleased, Runs!IInv,
                Runs!NoDanglingRegistration
  <2>3. NoLocals' /\ open' = {} /\ pending' = {}
    BY <1>6, <2>1, <2>2 DEF LeavesRun, NoLocals, Monitor!Zeroed
  <2>4. ~Occupied'
    BY <1>6, LeavesNobody DEF LeavesRun
  <2> QED
    BY <2>3, <2>4 DEF Inside
<1>7. CASE ScmCompletes
  <2>1. PICK n \in Names : Monitor!ScmNotifies(n) /\ UNCHANGED vars
    BY <1>7 DEF ScmCompletes, OnlyRun
  <2>2. PICK w \in Starts : InRun(w)
    BY <2>1 DEF Monitor!ScmNotifies, Inside, Occupied
  <2>3. InRun(w)'
    BY <2>1, <2>2 DEF vars, InRun
  <2> QED
    BY <1>3, <2>1, <2>2, <2>3, StepIsRuns
<1>8. CASE UNCHANGED allVars
  <2>1. (Occupied' <=> Occupied) /\ UNCHANGED monitorVars
    BY <1>8 DEF allVars, vars, Occupied, InRun
  <2> QED
    BY <2>1, RunIsLeftAlone DEF Inside, monitorVars, NoLocals
<1> QED
  BY <1>1, <1>2, <1>4, <1>5, <1>6, <1>7, <1>8
     DEF SystemNext, WorkerWorks, NotInRun, Threads

LEMMA SystemInvariant ==
  ASSUME PlainInputs
  PROVE  SystemSpec => [](IInv /\ Inside)
<1>1. SystemInit => Inside
  <2>1. SystemInit => ~Occupied
    BY ThreadsAssumption DEF SystemInit, Init, Occupied, InRun, RunLabels, ExitLabels, Threads
  <2> QED
    BY <2>1 DEF SystemInit, Inside
<1>2. IInv /\ Inside /\ [SystemNext]_allVars => Inside'
  BY SystemKeeps
<1> QED
  BY <1>1, <1>2, SystemIsNotifier, GuardInvariant, PTL DEF SystemSpec

\* When Exit() can return true, Run() is over and the SCM has nothing of it:
\* no open service handle and no registration that could still call back
\* (sscn.cpp:188-191, 232-243 and 303).
THEOREM StoppedIsQuiet ==
  ASSUME PlainInputs
  PROVE  SystemSpec => []QuietWhenStopped
<1>1. IInv /\ Inside => QuietWhenStopped
  <2>1. ASSUME IInv, ~running, NEW w \in Starts PROVE ~InRun(w)
    <3>1. w \in Threads /\ (InRun(w) => Responsible(w))
      BY DEF Threads, Responsible, Working, InRun
    <3> QED
      BY <2>1, <3>1 DEF IInv, OneResponsible
  <2> QED
    BY <2>1 DEF Occupied, Inside, NoLocals, QuietWhenStopped
<1> QED
  BY <1>1, SystemInvariant, PTL

\* Every worker of every start finds in Run() all that was proved of one, although
\* other threads set its event, call Exit() and Start() and destroy the notifier
\* meanwhile: handles and registrations in order, changes handed over in the order
\* they were accepted and none left at the end, and, under their assumptions, one
\* request for each service (sscn.cpp:140-182 and 189-266).
THEOREM EveryRunKeepsItsPromises ==
  ASSUME PlainInputs
  PROVE  SystemSpec => [](Occupied => Runs!RunPromises)
<1>1. Inside => (Occupied => Runs!RunPromises)
  BY RunsAssumptions, Runs!RunInvMeans DEF Inside
<1> QED
  BY <1>1, SystemInvariant, PTL
=============================================================================
