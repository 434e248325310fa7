-------------------------- MODULE ExampleProgramProofs --------------------------
(***************************************************************************)
(* Proofs about ExampleProgram: main() calls the notifier only where it may *)
(* be called, so its steps are steps of the notifier's life cycle and what   *)
(* was proved of every client of the notifier holds in it; and what main()  *)
(* adds: the meaning of its exit code and that nobody is left untold.       *)
(***************************************************************************)
EXTENDS ExampleProgram, NotifierLifecycleProofs

\* The main thread is one of the threads of the notifier.
LEMMA MainIsCaller == Main \in Threads /\ Home(Main) = "idle"
  BY MainAssumption DEF Threads, Home

-----------------------------------------------------------------------------
(* What the steps of main() and of the worker change *)

\* A worker that has its State and was not told to stop would wait for ever.
AllTold == \A w \in Starts : pc[w] \in Working => w \in signaled

\* The example's action function does not call the notifier.
OnlyMainCalls == \A w \in Starts : pc[w] \notin ExitLabels

\* What a step of Exit() changes of the flag and the object.
LEMMA ExitStepChanges ==
  ASSUME IInv, pc[Main] \in ExitLabels, Inside(Main)
  PROVE  /\ ExitStep(Main)
         /\ running' = running
         /\ pc'[Main] \in ExitLabels \cup {"idle"}
         /\ object = "alive" \/ pc'[Main] # "idle" => object' = object
         /\ \A s \in Starts : pc'[s] = pc[s]
         /\ AllTold => AllTold'
         /\ pc'[Main] = "exitUnlock" => AllTold'
         /\ pc'[Main] \in {"poll", "exitReturn", "idle"} =>
              pc[Main] \in {"exitUnlock", "poll", "exitReturn"}
<1> USE MainIsCaller, MainAssumption, ThreadsAssumption
    DEF IInv, TypeOK, Step, Goto, ExitLabels, Threads, osVars, guardVars
<1>1. ExitStep(Main)
  BY DEF Inside, StartStep, StartExchange, CanCall, StartCreateEvent, StartCheckEvent,
         StartArgsThrow, StartThreadThrows, StartSpawn, StartLeave, CleanupStep, CleanupLock,
         CleanupClose, CleanupNull, CleanupStore, CleanupUnlock
<1>2. /\ running' = running
      /\ pc'[Main] \in ExitLabels \cup {"idle"}
      /\ object = "alive" \/ pc'[Main] # "idle" => object' = object
      /\ \A s \in Starts : pc'[s] = pc[s]
      /\ signaled \subseteq signaled'
  BY <1>1 DEF ExitStep, ExitLock, ExitCheck, ExitSet, SetEvent, ExitUnlock, ExitPoll, ExitReturn
<1>3. AllTold => AllTold'
  BY <1>2 DEF AllTold
<1>4. pc'[Main] \in {"poll", "exitReturn", "idle"} =>
        pc[Main] \in {"exitUnlock", "poll", "exitReturn"}
  BY <1>1 DEF ExitStep, ExitLock, ExitCheck, ExitSet, ExitUnlock, ExitPoll, ExitReturn
<1>5. ASSUME pc'[Main] = "exitUnlock" PROVE AllTold'
  <2>1. \A w \in Starts : pc[w] \in Working => exitEvent = w
    BY DEF Events
  <2>2. CASE ExitCheck(Main)
    <3>1. exitEvent = Null
      BY <1>5, <2>2 DEF ExitCheck
    <3> QED
      BY <1>2, <2>1, <3>1 DEF AllTold
  <2>3. CASE ExitSet(Main)
    BY <1>2, <2>1, <2>3 DEF ExitSet, SetEvent, AllTold
  <2>4. ExitCheck(Main) \/ ExitSet(Main)
    BY <1>1, <1>5 DEF ExitStep, ExitLock, ExitCheck, ExitSet, ExitUnlock, ExitPoll, ExitReturn
  <2> QED
    BY <2>2, <2>3, <2>4
<1> QED
  BY <1>1, <1>2, <1>3, <1>4, <1>5

\* What a step of StartImpl() by the main thread changes.
LEMMA StartStepChanges ==
  ASSUME IInv, pc[Main] \in StartLabels \cup CleanupLabels, Inside(Main)
  PROVE  /\ pc'[Main] \in StartLabels \cup CleanupLabels \cup {"idle"}
         /\ pc'[Main] = "idle" => \A s \in Starts : pc'[s] = pc[s]
         /\ object' = object
         /\ OnlyMainCalls => OnlyMainCalls'
<1> USE MainIsCaller, MainAssumption, ThreadsAssumption
    DEF IInv, TypeOK, Step, Goto, StartLabels, CleanupLabels, ExitLabels, Threads,
        OnlyMainCalls
<1>1. CASE StartStep(Main)
  BY <1>1 DEF StartStep, StartExchange, CanCall, StartCreateEvent, StartCheckEvent,
              StartArgsThrow, StartThreadThrows, StartSpawn, StartLeave, DestroyGuard
<1>2. CASE CleanupStep(Main)
  BY <1>2 DEF CleanupStep, CleanupLock, CleanupClose, CleanupNull, CleanupStore,
              CleanupUnlock, AfterCleanup
<1>3. ~ExitStep(Main)
  BY DEF ExitStep, ExitLock, ExitCheck, ExitSet, ExitUnlock, ExitPoll, ExitReturn
<1> QED
  BY <1>1, <1>2, <1>3 DEF Inside

\* A worker never sets the flag: it may only clear it; and it does not call.
LEMMA WorkerChanges ==
  ASSUME IInv, NEW w \in Starts, WorkerRuns(w)
  PROVE  /\ running' => running
         /\ pc'[Main] = pc[Main]
         /\ AllTold => AllTold'
         /\ object' = object
         /\ OnlyMainCalls => OnlyMainCalls'
<1> USE MainIsCaller, MainAssumption, ThreadsAssumption
    DEF IInv, TypeOK, Step, Goto, Threads, osVars, guardVars
<1>1. CASE CleanupStep(w)
  <2>1. pc[w] \in CleanupLabels /\ pc'[w] \notin Working
    BY <1>1 DEF CleanupStep, CleanupLock, CleanupClose, CleanupNull, CleanupStore,
                CleanupUnlock, AfterCleanup, CleanupLabels, Working, RunLabels, ExitLabels
  <2>2. /\ running' => running
        /\ signaled' = signaled /\ object' = object
        /\ \A t \in Threads \ {w} : pc'[t] = pc[t]
    BY <1>1 DEF CleanupStep, CleanupLock, CleanupClose, CleanupNull, CleanupStore, CleanupUnlock
  <2> QED
    BY <2>1, <2>2 DEF AllTold, OnlyMainCalls, Working
<1>2. CASE WorkerStep(w)
  <2>1. /\ running' = running /\ signaled' = signaled /\ object' = object
        /\ pc'[w] \notin ExitLabels
        /\ \A t \in Threads \ {w} : pc'[t] = pc[t]
        /\ pc'[w] \in Working => pc[w] \in Working
    BY <1>2 DEF WorkerStep, WorkerEnter, WorkerActs, ActionReturns, WaitSignaled, RunFails,
                RunReturns, WorkerEpilogue, DestroyGuard, Working, RunLabels, ExitLabels
  <2> QED
    BY <2>1 DEF AllTold, OnlyMainCalls
<1> QED
  BY <1>1, <1>2 DEF WorkerRuns

-----------------------------------------------------------------------------
(* The invariant of main() *)

Outside == {"make", "start", "sleep", "destroy", "returned", "gone"}

\* Where the thread of main() is in the notifier.
Place ==
  /\ stage \in Outside \cup {"starting", "exiting", "destroying"}
  /\ stage \in Outside => pc[Main] = "idle"
  /\ stage = "starting" => pc[Main] \in StartLabels \cup CleanupLabels
  /\ stage \in {"exiting", "destroying"} => pc[Main] \in ExitLabels

\* Nobody starts a notifier after the exit code was chosen, so the flag that
\* Exit() found clear stays clear.
Code ==
  /\ stage \in {"make", "start", "starting"} => code = "none"
  /\ code = "success" => ~running

\* From the signal of Exit() on, and without a worker, everybody is told.
Told ==
  /\ stage \in {"make", "start"} => \A s \in Starts : pc[s] = "none"
  /\ stage \in {"destroy", "destroying", "returned", "gone"} => AllTold
  /\ stage = "exiting" /\ pc[Main] \in {"exitUnlock", "poll", "exitReturn"} => AllTold

\* The notifier is there until main() destroys it.
Owned ==
  /\ stage \in {"make", "start", "starting", "sleep", "exiting", "destroy"} =>
       object = "alive"
  /\ stage = "destroying" => object = "destroying"

MainInv == Place /\ Code /\ Told /\ Owned /\ OnlyMainCalls

\* Nothing is reported in the initial state.
LEMMA MainInit == ExampleInit => MainInv
  BY MainIsCaller, MainAssumption, ThreadsAssumption
     DEF ExampleInit, Init, MainInv, Place, Code, Told, Owned, OnlyMainCalls, Outside, Threads,
         ExitLabels

\* Every step keeps the program's own invariant.
LEMMA MainInvKept == IInv /\ MainInv /\ [ExampleNext]_allVars => MainInv'
<1> SUFFICES ASSUME IInv, MainInv, [ExampleNext]_allVars PROVE MainInv'
  OBVIOUS
<1> USE MainIsCaller, MainAssumption
    DEF MainInv, Place, Code, Told, Owned, Outside, Becomes, Fails, mainVars
<1>0. pc = [t \in Threads |-> pc[t]] /\ running \in BOOLEAN
  BY DEF IInv, TypeOK
<1> USE DEF StartLabels, CleanupLabels, ExitLabels
<1>1. CASE MainMakes \/ MainStartThrows \/ MainSleeps \/ ProcessEnds
  <2>1. UNCHANGED vars /\ (AllTold => AllTold')
    BY <1>1 DEF MainMakes, MainStartThrows, MainSleeps, ProcessEnds, vars, osVars, AllTold
  <2>3. OnlyMainCalls'
    BY <2>1 DEF OnlyMainCalls, vars
  <2>2. (\A s \in Starts : pc[s] = "none") => AllTold
    BY DEF AllTold, Working, RunLabels
  <2> QED
    BY <1>1, <2>1, <2>2, <2>3 DEF MainMakes, MainStartThrows, MainSleeps, ProcessEnds, vars
<1>2. CASE MainStarts
  BY <1>2, <1>0, ThreadsAssumption DEF MainStarts, StartCalled, Goto, OnlyMainCalls
<1>3. CASE MainWorks
  <2>1. CASE stage = "starting"
    BY <1>3, <2>1, StartStepChanges DEF MainWorks
  <2>2. CASE stage \in {"exiting", "destroying"}
    BY <1>3, <2>2, ExitStepChanges DEF MainWorks, OnlyMainCalls
  <2>3. CASE stage \in Outside
    BY <1>3, <2>3
       DEF MainWorks, Inside, CleanupStep, CleanupLock, CleanupClose, CleanupNull, CleanupStore,
           CleanupUnlock, ExitStep, ExitLock, ExitCheck, ExitSet, ExitUnlock, ExitPoll,
           ExitReturn, StartStep, StartExchange, StartCreateEvent, StartCheckEvent,
           StartArgsThrow, StartThreadThrows, StartSpawn, StartLeave, Step
  <2> QED
    BY <2>1, <2>2, <2>3
<1>4. CASE StartReturned
  <2>1. /\ pc'[Main] = "idle" /\ \A s \in Starts : pc'[s] = pc[s]
        /\ object' = object /\ OnlyMainCalls'
    BY <1>4, StartStepChanges DEF StartReturned
  <2>2. ~Spawned => AllTold'
    BY <2>1 DEF Spawned, AllTold, Working, RunLabels
  <2> QED
    BY <1>4, <2>1, <2>2 DEF StartReturned
<1>5. CASE MainExits
  BY <1>5, <1>0, ThreadsAssumption DEF MainExits, ExitCalled, Goto, OnlyMainCalls
<1>6. CASE ExitReturned \/ DestructorReturned
  <2>1. pc[Main] = "exitReturn" /\ Inside(Main) /\ pc'[Main] = "idle"
    BY <1>6, <1>0 DEF ExitReturned, DestructorReturned, ExitReturn, Inside, ExitStep, Step, Goto
  <2>2. /\ AllTold' /\ running' = running
        /\ object = "alive" => object' = "alive"
        /\ OnlyMainCalls'
    BY <1>6, <2>1, ExitStepChanges DEF ExitReturned, DestructorReturned, OnlyMainCalls
  <2> QED
    BY <1>6, <2>1, <2>2 DEF ExitReturned, DestructorReturned, Reported, AfterDelete
<1>7. CASE MainDestroys
  <2>1. AllTold' /\ running' = running /\ OnlyMainCalls'
    BY <1>7, <1>0, ThreadsAssumption
       DEF MainDestroys, DestructorCalled, Goto, AllTold, OnlyMainCalls, osVars, Threads
  <2> QED
    BY <1>7, <2>1, <1>0 DEF MainDestroys, DestructorCalled, Goto
<1>8. ASSUME NEW w \in Starts, WorkerRuns(w) PROVE MainInv'
  <2>1. UNCHANGED mainVars /\ stage # "gone"
    BY <1>8 DEF WorkerRuns
  <2>2. pc[w] # "none"
    BY <1>8 DEF WorkerRuns, WorkerStep, WorkerEnter, WorkerActs, ActionReturns, WaitSignaled,
                RunFails, RunReturns, WorkerEpilogue, CleanupStep, CleanupLock, CleanupClose,
                CleanupNull, CleanupStore, CleanupUnlock, Step
  <2> QED
    BY <1>8, <2>1, <2>2, WorkerChanges
<1>9. CASE UNCHANGED allVars
  BY <1>9 DEF allVars, vars, osVars, AllTold, OnlyMainCalls
<1> QED
  BY <1>1, <1>2, <1>3, <1>4, <1>5, <1>6, <1>7, <1>8, <1>9 DEF ExampleNext, MainStep

-----------------------------------------------------------------------------
(* main() is a legal client of the notifier *)

\* A step of the program is a step of the notifier, or changes none of its
\* variables: where main() calls, the notifier may be called.
LEMMA StepIsNotifiers == IInv /\ MainInv /\ [ExampleNext]_allVars => [Next]_vars
<1> SUFFICES ASSUME IInv, MainInv, [ExampleNext]_allVars PROVE [Next]_vars
  OBVIOUS
<1>1. ASSUME Inside(Main) PROVE Next
  BY <1>1, MainIsCaller DEF Inside, Next
<1>2. CASE MainMakes \/ MainStartThrows \/ MainSleeps \/ ProcessEnds
  BY <1>2 DEF MainMakes, MainStartThrows, MainSleeps, ProcessEnds
<1>3. stage \in {"start", "sleep", "destroy"} => CanCall(Main)
  BY MainIsCaller DEF CanCall, MainInv, Place, Owned, Outside
<1>4. CASE MainStarts
  BY <1>3, <1>4, MainIsCaller DEF MainStarts, StartExchange, Next, StartStep
<1>5. CASE MainWorks \/ StartReturned
  BY <1>1, <1>5 DEF MainWorks, StartReturned
<1>6. CASE MainExits
  BY <1>3, <1>6, MainIsCaller DEF MainExits, ExitBegin, Next
<1>7. CASE ExitReturned \/ DestructorReturned
  BY <1>7, MainIsCaller DEF ExitReturned, DestructorReturned, Next, ExitStep
<1>8. CASE MainDestroys
  <2>1. ASSUME NEW w \in Starts PROVE ~InCall(w)
    BY ThreadsAssumption
       DEF MainInv, OnlyMainCalls, IInv, Kinds, Guards, InCall, Threads, StartLabels,
           CleanupLabels, ExitLabels, RunLabels, Working
  <2>2. ~InCall(Main)
    BY <1>8 DEF MainDestroys, MainInv, Place, Outside, InCall, StartLabels, CleanupLabels,
                ExitLabels
  <2>3. \A u \in Threads : ~InCall(u)
    BY <2>1, <2>2, MainAssumption DEF Threads
  <2> QED
    BY <1>3, <1>8, <2>3, MainIsCaller DEF MainDestroys, Destroy, Next
<1>9. ASSUME NEW w \in Starts, WorkerRuns(w) PROVE Next
  BY <1>9 DEF WorkerRuns, Next, Threads
<1>10. CASE UNCHANGED allVars
  BY <1>10 DEF allVars
<1> QED
  BY <1>2, <1>4, <1>5, <1>6, <1>7, <1>8, <1>9, <1>10 DEF ExampleNext, MainStep

\* The invariant of the program, and with it that of the notifier: each carries
\* the other over the next step.
LEMMA MainInvariant == ExampleSpec => [](IInv /\ MainInv)
<1>1. ExampleInit => IInv /\ MainInv
  BY InitIInv, MainInit DEF ExampleInit
<1>2. IInv /\ MainInv /\ [ExampleNext]_allVars => (IInv /\ MainInv)'
  BY StepIsNotifiers, NextIInv, MainInvKept
<1> QED
  BY <1>1, <1>2, PTL DEF ExampleSpec

\* The program is a legal client of the notifier: nothing holds main() back from a
\* call, and yet it calls, exits and destroys only where the life cycle allows it,
\* however its calls fail and whatever the worker does meanwhile (main.cpp:76-109).
THEOREM ProgramIsClient == ExampleSpec => UsesNotifier
<1>1. ExampleInit => Init
  BY DEF ExampleInit
<1> QED
  BY <1>1, MainInvariant, StepIsNotifiers, PTL DEF ExampleSpec, UsesNotifier, Spec

\* EXIT_SUCCESS means that the worker has left Run() and released its event, also
\* after the destructor called Exit() again (main.cpp:100-104).
THEOREM SuccessIsStopped == ExampleSpec => []SuccessMeansStopped
<1>1. ExampleSpec => []StoppedMeansReleased
  BY ProgramIsClient, StoppedIsReleased, PTL DEF UsesNotifier
<1>2. MainInv /\ StoppedMeansReleased => SuccessMeansStopped
  BY DEF MainInv, Code, StoppedMeansReleased, SuccessMeansStopped
<1> QED
  BY <1>1, <1>2, MainInvariant, PTL

\* On every way out of main() the worker was told to stop (main.cpp:100-109).
THEOREM NobodyIsLeftUntold == ExampleSpec => []LeavesNobodyUntold
<1>1. MainInv => LeavesNobodyUntold
  BY DEF MainInv, Told, AllTold, LeavesNobodyUntold, InRun, Working
<1> QED
  BY <1>1, MainInvariant, PTL
=============================================================================
