---------------------------- MODULE NotifierSystem ----------------------------
(***************************************************************************)
(* A notifier with what its workers do: NotifierLifecycle, where the worker *)
(* that is inside Run() takes the steps of ServiceMonitor instead of doing  *)
(* as it likes.  Run()'s locals are those of the worker inside it; there is *)
(* never a second one (WaitsOnOwnEvent).  The exit event that Run() waits   *)
(* for is the one in State.                                                 *)
(***************************************************************************)
EXTENDS NotifierLifecycle, Sequences

CONSTANTS Names, Lists, Reported, States, Faults, MaxEvents  \* of ServiceMonitor

ASSUME ListsAssumption == Lists \subseteq Seq(Names)
ASSUME ReportedAssumption == Reported \in [Names -> Names]
ASSUME StatesAssumption == States \subseteq Nat \ {0}

VARIABLES list, hasAction, stage, next, mapped, handle, buffer, err,
          open, pending, apcs, changes, told, accepted, handed, \* its variables; stage is pc
          orphaned  \* threads that left Run() with APCs still queued to them

Monitor == INSTANCE ServiceMonitor WITH
             pc <- stage, exitSet <- exitEvent \in signaled

ASSUME FaultsAssumption == Faults \subseteq Monitor!FaultKinds

monitorVars == <<list, hasAction, stage, next, mapped, handle, buffer, err,
                 open, pending, apcs, changes, told, accepted, handed>>
allVars == <<vars, monitorVars, orphaned>>

\* Outside Run() its arguments and its locals do not exist, and no thread takes
\* APCs.
NoLocals ==
  /\ list = <<>> /\ hasAction = FALSE /\ stage = "returned" /\ next = 1
  /\ mapped = {} /\ handle = [n \in Names |-> 0]
  /\ buffer = [n \in Names |-> Monitor!Zeroed] /\ err = [n \in Names |-> "ok"]
  /\ apcs = <<>> /\ changes = <<>>
  /\ told = {} /\ accepted = <<>> /\ handed = <<>>

SystemInit ==
  /\ Init /\ NoLocals /\ open = {} /\ pending = {}
  /\ orphaned = {}

-----------------------------------------------------------------------------
(* The worker *)

WorkerEntersRun(w) ==
  /\ WorkerEnter(w)
  /\ stage' = "open" /\ list' \in Lists /\ hasAction' \in BOOLEAN
  /\ UNCHANGED <<next, mapped, handle, buffer, err, apcs, changes, told, accepted, handed,
                 open, pending, orphaned>>

CallsAction(w) == WorkerActs(w) /\ Monitor!Dispatch /\ UNCHANGED orphaned
ActionReturned(w) == ActionReturns(w) /\ Monitor!ActionReturns /\ UNCHANGED orphaned

\* Run() takes a step, the rest of the notifier does not.
OnlyRun == UNCHANGED <<vars, orphaned>>

\* A step inside Run() that the rest of the notifier does not see.
Monitors(w) ==
  /\ pc[w] = "run" /\ OnlyRun
  /\ Monitor!Worker /\ stage' # "action"

\* The action function waits alertably.
TakesApc(w) ==
  /\ pc[w] = "action" /\ OnlyRun
  /\ Monitor!NotifyCallback \/ Monitor!NotifyCallbackThrows

WaitEnds(w) == pc[w] = "run" /\ OnlyRun /\ Monitor!WaitExit
WaitBreaks(w) == pc[w] = "run" /\ OnlyRun /\ Monitor!WaitFailed

\* The APCs that were not delivered stay with the thread and refer to locals that
\* are gone.  The thread goes on through the cleanup and the destruction of its
\* arguments, where it does not wait alertably any more (sscn.cpp:294-304, 319-335).
LeavesRun(w) ==
  /\ stage = "returned"
  /\ orphaned' = IF apcs = <<>> THEN orphaned ELSE orphaned \cup {w}
  /\ RunReturns(w)
  /\ list' = <<>> /\ hasAction' = FALSE /\ next' = 1 /\ UNCHANGED stage
  /\ mapped' = {} /\ handle' = [n \in Names |-> 0]
  /\ buffer' = [n \in Names |-> Monitor!Zeroed] /\ err' = [n \in Names |-> "ok"]
  /\ apcs' = <<>> /\ changes' = <<>>
  /\ told' = {} /\ accepted' = <<>> /\ handed' = <<>>
  /\ UNCHANGED <<open, pending>>

WorkerWorks(w) == CallsAction(w) \/ Monitors(w) \/ LeavesRun(w)

-----------------------------------------------------------------------------
(* Everybody else, and the system *)

\* A step of a thread that is not in Run(), nor about to enter it.
Outside(t) ==
  /\ StartStep(t) \/ CleanupStep(t) \/ ExitStep(t)
  /\ UNCHANGED <<monitorVars, orphaned>>

Calls(t) ==
  /\ ExitBegin(t) \/ Destroy(t)
  /\ UNCHANGED <<monitorVars, orphaned>>

\* With the thread goes its APC queue.
ThreadEnds(w) ==
  /\ WorkerEpilogue(w)
  /\ orphaned' = orphaned \ {w}
  /\ UNCHANGED monitorVars

ScmCompletes == OnlyRun /\ \E n \in Names : Monitor!ScmNotifies(n)

SystemNext ==
  \/ \E t \in Threads : Outside(t) \/ Calls(t)
  \/ \E w \in Starts :
       \/ WorkerEntersRun(w) \/ WorkerWorks(w) \/ ActionReturned(w)
       \/ TakesApc(w) \/ WaitBreaks(w) \/ ThreadEnds(w)
  \/ ScmCompletes
  \/ Ended /\ UNCHANGED allVars

SystemSpec == SystemInit /\ [][SystemNext]_allVars

(***************************************************************************)
(* The fairness of ServiceMonitor: the thread in Run() is scheduled, and    *)
(* the callback returns.  Whether another thread ever takes a step, inside  *)
(* a call or out of it, is open, and so are failures and notifications.     *)
(***************************************************************************)
FairSystem ==
  /\ SystemSpec
  /\ WF_allVars(\E w \in Starts : WorkerWorks(w))
  /\ SF_allVars(\E w \in Starts : WaitEnds(w))
  /\ SF_allVars(\E w \in Starts : ActionReturned(w))

-----------------------------------------------------------------------------
(* Properties *)

\* A clear flag, which is what makes Exit() return true, means that Run() is
\* over with all it acquired: no callback under way, no handle of a service open
\* and no registration that could call back (sscn.cpp:188-191).
QuietWhenStopped ==
  ~running => /\ stage = "returned"
              /\ open = {} /\ pending = {}

\* What NotifierLifecycle takes for granted, Run() does: a callback that returns
\* leads back to the loop, and a worker that was told to stop leaves it, whatever
\* it was doing and however many APCs arrive (sscn.cpp:245-262).
StopsWhenTold == CallbackReturns
=============================================================================
