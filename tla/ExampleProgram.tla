---------------------------- MODULE ExampleProgram ----------------------------
(***************************************************************************)
(* The example's main() (main.cpp): it starts a notifier, sleeps, calls     *)
(* Exit(), and destroys the notifier, which calls Exit() once more, before  *)
(* the process ends and takes the worker with it.  It composes one caller   *)
(* with NotifierLifecycle, whose actions are the steps inside the calls.    *)
(* main() calls when its own code comes to a call: nothing here holds it    *)
(* back until the notifier may be called.  That it may be is UsesNotifier.  *)
(***************************************************************************)
EXTENDS NotifierLifecycle

CONSTANTS Main,      \* the thread of main()
          MaxSleeps  \* the intervals it sleeps, 5 in the code

ASSUME MainAssumption == Callers = {Main}
ASSUME SleepsAssumption == MaxSleeps \in Nat

VARIABLES stage,   \* where main() is
          sleeps,  \* its loop counter
          code     \* the exit code that was chosen

mainVars == <<stage, sleeps, code>>
allVars == <<vars, mainVars>>

ExampleInit ==
  /\ Init
  /\ stage = "make" /\ sleeps = 0 /\ code = "none"

Becomes(st) == stage' = st /\ UNCHANGED sleeps
Fails == code' = "failure"

\* std::make_unique.  When it throws there is no notifier.
MainMakes ==
  /\ stage = "make"
  /\ \/ Becomes("start") /\ UNCHANGED code
     \/ Becomes("returned") /\ Fails
  /\ UNCHANGED vars

MainStarts ==
  /\ stage = "start"
  /\ StartCalled(Main)
  /\ Becomes("starting") /\ UNCHANGED code

\* The arguments of Start() cannot be allocated.
MainStartThrows ==
  /\ stage = "start"
  /\ Becomes("destroy") /\ Fails
  /\ UNCHANGED vars

\* A step inside a call of the notifier.
Inside(t) ==
  \/ StartStep(t) /\ pc[t] # "idle"
  \/ CleanupStep(t) \/ ExitStep(t)
MainWorks == Inside(Main) /\ pc'[Main] # "idle" /\ UNCHANGED mainVars

Spawned == \E s \in Starts : pc[s] # "none"

StartReturned ==
  /\ stage = "starting" /\ Inside(Main) /\ pc'[Main] = "idle"
  /\ \/ Spawned /\ Becomes("sleep") /\ UNCHANGED code
     \/ ~Spawned /\ Becomes("destroy") /\ Fails

MainSleeps ==
  /\ stage = "sleep" /\ sleeps < MaxSleeps
  /\ sleeps' = sleeps + 1
  /\ UNCHANGED <<vars, stage, code>>

MainExits ==
  /\ stage = "sleep" /\ sleeps = MaxSleeps
  /\ ExitCalled(Main)
  /\ Becomes("exiting") /\ UNCHANGED code

\* Variant: the result of Exit() is not looked at.
Ignored == code' = "success"
\* main() returns what Exit() returned.
Reported == code' = IF running THEN "failure" ELSE "success"

ExitReturned ==
  /\ stage = "exiting" /\ ExitReturn(Main)
  /\ Reported /\ Becomes("destroy")

\* ~unique_ptr, on every way out of the block.
MainDestroys ==
  /\ stage = "destroy"
  /\ DestructorCalled(Main)
  /\ Becomes("destroying") /\ UNCHANGED code

\* Variant: a second owner deletes the notifier once more.
AnotherOwner == "destroy"
\* The unique_ptr was its only owner.
AfterDelete == "returned"

DestructorReturned ==
  /\ stage = "destroying" /\ ExitReturn(Main)
  /\ Becomes(AfterDelete) /\ UNCHANGED code

ProcessEnds ==
  /\ stage = "returned"
  /\ Becomes("gone") /\ UNCHANGED <<vars, code>>

MainStep ==
  \/ MainMakes \/ MainStarts \/ MainStartThrows \/ MainWorks \/ StartReturned
  \/ MainSleeps \/ MainExits \/ ExitReturned \/ MainDestroys \/ DestructorReturned
  \/ ProcessEnds

\* The worker, until the process ends.  The example's action function does not
\* call the notifier.
WorkerRuns(w) ==
  /\ stage # "gone"
  /\ WorkerStep(w) \/ CleanupStep(w)
  /\ UNCHANGED mainVars

ExampleNext ==
  \/ MainStep
  \/ \E w \in Starts : WorkerRuns(w)
  \/ stage = "gone" /\ UNCHANGED allVars

ExampleSpec == ExampleInit /\ [][ExampleNext]_allVars

\* main() is scheduled and gets the mutex; so does a worker, but its waits and its
\* callbacks may last for ever.
FairExampleSpec ==
  /\ ExampleSpec
  /\ SF_allVars(MainStep)
  /\ \A w \in Starts : SF_allVars(WorkerRuns(w) /\ InsideStep(w))

-----------------------------------------------------------------------------
(* Properties *)

\* EXIT_SUCCESS means that the worker is out of Run() and its event released, also
\* after the destructor has called Exit() again (main.cpp:100-104).
SuccessMeansStopped ==
  code = "success" =>
    /\ ~running
    /\ \A w \in Starts : ~InRun(w) /\ pc[w] # "entry" /\ event[w] # "open"

\* When main() is done, a worker that still runs was told to stop, whatever way
\* main() took (main.cpp:100-109, sscn.hpp:55-58).
LeavesNobodyUntold ==
  stage \in {"returned", "gone"} =>
    \A w \in Starts : (InRun(w) \/ pc[w] = "entry") => w \in signaled

\* The program uses the notifier as it may be used: on no way through main() is it
\* called before the last call returned, destroyed while a thread is inside a call,
\* or called or destroyed after it was destroyed (main.cpp:76-109).
UsesNotifier == Spec

\* The process ends although Exit() is called twice and the callback may block
\* (main.cpp:100, README.md:55).
ProgramEnds == stage = "start" ~> stage = "gone"
=============================================================================
