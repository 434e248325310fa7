----------------------------- MODULE ServiceMonitor -----------------------------
(***************************************************************************)
(* One worker thread inside Run() (sscn.cpp): it opens the services,       *)
(* registers one-shot notifications with the Service Control Manager, gets *)
(* them back as APCs in its alertable waits, calls the application's       *)
(* action function, registers again, and closes what it opened.  The SCM   *)
(* and the thread's APC queue are external and modelled from how Run()     *)
(* uses them.                                                              *)
(***************************************************************************)
EXTENDS Naturals, Sequences, FiniteSets

CONSTANTS Names,      \* service names
          Lists,      \* the service lists Start() may be given
          Reported,   \* the name a callback reads back for a service: the list's
                      \* name up to its first NUL
          States,     \* service states the notify mask asks for
          Faults,     \* the failures that may happen, of FaultKinds
          MaxEvents   \* bound on the notifications in flight or handed over

FaultKinds == {"throw",    \* an allocation fails in Run() or the callback
               "status",   \* a notification arrives with another error
               "register"} \* NotifyServiceStatusChangeW fails

ASSUME ListsAssumption == Lists \subseteq Seq(Names)
ASSUME ReportedAssumption == Reported \in [Names -> Names]
ASSUME StatesAssumption == States \subseteq Nat \ {0}
ASSUME FaultsAssumption == Faults \subseteq FaultKinds

VARIABLES list,       \* service_list
          hasAction,  \* the action function is not empty
          pc,         \* where the worker is in Run()
          next,       \* index of the next list element to open
          mapped,     \* keys of service_data_map
          handle,     \* ServiceData::service_handle, 0 for nullptr
          buffer,     \* status and state in ServiceData::notify_buffer
          err,        \* ServiceData::system_error_code
          open,       \* service handles open in the SCM, by list index
          pending,    \* services whose registration is outstanding
          apcs,       \* APCs queued to the thread: the services they are for
          changes,    \* change_list
          exitSet,    \* the exit event is set
          told,       \* services for which the SCM delivered a deletion
          accepted,   \* changes the callback accepted for the action function
          handed      \* calls made to the action function

mapVars == <<mapped, handle, buffer, err>>
scmVars == <<open, pending, apcs>>
inputs == <<list, hasAction>>
history == <<told, accepted, handed>>
vars == <<inputs, pc, next, mapVars, scmVars, changes, exitSet, history>>

Statuses == {"ok", "deleted", "error"}
Entry(n, st, status) == [name |-> n, state |-> st, status |-> status]
Seed(n) == Entry(n, 0, "ok")
Zeroed == [status |-> "ok", state |-> 0]

\* Run() is called; an exit event that was set before is found by the wait.
Entered ==
  /\ list \in Lists
  /\ hasAction \in BOOLEAN
  /\ pc = "open"
  /\ next = 1
  /\ mapped = {}
  /\ handle = [n \in Names |-> 0]
  /\ buffer = [n \in Names |-> Zeroed]
  /\ err = [n \in Names |-> "ok"]
  /\ open = {} /\ pending = {} /\ apcs = <<>>
  /\ changes = <<>>
  /\ told = {} /\ accepted = <<>> /\ handed = <<>>

Init == Entered /\ exitSet = FALSE

-----------------------------------------------------------------------------
(* The services are opened *)

\* OpenSCManagerW.  When it fails there is nothing to open, and the worker waits
\* for its exit event all the same.
OpenScm ==
  /\ pc = "open"
  /\ pc' \in {"seed", "work"}
  /\ UNCHANGED <<inputs, next, mapVars, scmVars, changes, exitSet, history>>

\* One turn of the loop over the list: a map item, OpenServiceW, and for an open
\* service a change item that only asks for a subscription.
SeedService ==
  /\ pc = "seed" /\ next <= Len(list)
  /\ next' = next + 1
  /\ mapped' = mapped \cup {list[next]}
  /\ \/ /\ handle' = [handle EXCEPT ![list[next]] = next]
        /\ open' = open \cup {next}
        /\ changes' = Append(changes, Seed(list[next]))
     \/ handle' = [handle EXCEPT ![list[next]] = 0] /\ UNCHANGED <<open, changes>>
  /\ UNCHANGED <<inputs, pc, buffer, err, pending, apcs, exitSet, history>>

\* The loop throws, before or after OpenServiceW: Run() returns.  The guard that
\* closes the service handles is not constructed yet.
SeedThrows ==
  /\ pc = "seed" /\ next <= Len(list) /\ "throw" \in Faults
  /\ open' \in {open, open \cup {next}}
  /\ pc' = "returned"
  /\ UNCHANGED <<inputs, next, mapVars, pending, apcs, changes, exitSet, history>>

SeedDone ==
  /\ pc = "seed" /\ next > Len(list)
  /\ pc' = "work"
  /\ UNCHANGED <<inputs, next, mapVars, scmVars, changes, exitSet, history>>

-----------------------------------------------------------------------------
(* ProcessChanges() *)

Item == Head(changes)

\* The entries the action function is called for: deletions, with state 0, and
\* real states; 0 is the seed's mark.
IsChange(e) == e.status = "deleted" \/ e.state > 0

Dispatch ==
  /\ pc = "work" /\ changes # <<>>
  /\ hasAction /\ IsChange(Item)
  /\ handed' = Append(handed, [name |-> Item.name, state |-> Item.state])
  /\ pc' = "action"
  /\ UNCHANGED <<inputs, next, mapVars, scmVars, changes, exitSet, told, accepted>>

\* The action function returned, or threw and was caught.
ActionReturns ==
  /\ pc = "action"
  /\ pc' = "after"
  /\ UNCHANGED <<inputs, next, mapVars, scmVars, changes, exitSet, history>>

AtFront ==
  \/ pc = "after"
  \/ pc = "work" /\ changes # <<>> /\ ~(hasAction /\ IsChange(Item))

Usable(n) == n \in mapped /\ handle[n] # 0

\* Variants: the map keeps the closed handle, or the handle is not closed.
CloseKeepsHandle(n) ==
  /\ open' = open \ {handle[n]}
  /\ UNCHANGED handle
  /\ pending' = pending \ {n}
CloseOnlyForgets(n) ==
  /\ UNCHANGED open
  /\ handle' = [handle EXCEPT ![n] = 0]
  /\ pending' = pending \ {n}

\* CloseServiceHandle, which cancels the outstanding registration, and the
\* assignment of nullptr.
CloseService(n) ==
  /\ open' = open \ {handle[n]}
  /\ handle' = [handle EXCEPT ![n] = 0]
  /\ pending' = pending \ {n}

\* Variants: the item stays in the list, or the wrong end is popped.
PopNothing == UNCHANGED changes /\ pc' = "work"
PopBack == changes' = SubSeq(changes, 1, Len(changes) - 1) /\ pc' = "work"
PopFront == changes' = Tail(changes) /\ pc' = "work"

\* The branch for ERROR_SERVICE_MARKED_FOR_DELETE: close, do not subscribe.
FinishDeleted ==
  /\ AtFront /\ Item.status = "deleted"
  /\ IF Usable(Item.name) THEN CloseService(Item.name)
                           ELSE UNCHANGED <<open, handle, pending>>
  /\ PopFront
  /\ UNCHANGED <<inputs, next, mapped, buffer, err, apcs, exitSet, history>>

\* SubscribeToServiceChange(): the buffer is cleared before it is given to the
\* SCM.  The result is only recorded, that the service is marked for deletion
\* too.
Subscribe ==
  /\ AtFront /\ Item.status # "deleted" /\ Usable(Item.name)
  /\ buffer' = [buffer EXCEPT ![Item.name] = Zeroed]
  /\ \/ /\ err' = [err EXCEPT ![Item.name] = "ok"]
        /\ pending' = pending \cup {Item.name}
     \/ /\ "register" \in Faults \/ Item.name \in pending
        /\ \E code \in {"deleted", "error"} : err' = [err EXCEPT ![Item.name] = code]
        /\ UNCHANGED pending
  /\ PopFront
  /\ UNCHANGED <<inputs, next, mapped, handle, open, apcs, exitSet, history>>

\* ... and its early returns.
SubscribeSkips ==
  /\ AtFront /\ Item.status # "deleted" /\ ~Usable(Item.name)
  /\ PopFront
  /\ UNCHANGED <<inputs, next, mapVars, scmVars, exitSet, history>>

-----------------------------------------------------------------------------
(* The alertable wait and NotifyCallbackFunc() *)

StartWait ==
  /\ pc = "work" /\ changes = <<>>
  /\ pc' = "wait"
  /\ UNCHANGED <<inputs, next, mapVars, scmVars, changes, exitSet, history>>

\* The thread takes APCs in its own wait, where one is enough to end the wait,
\* and in any alertable wait of the action function.
Alertable == pc \in {"wait", "woken", "action"}
AfterApc == IF pc = "wait" THEN "woken" ELSE pc

\* Variants of the callback: every status is taken, only ERROR_SUCCESS is, or
\* the status is not passed on.
TakenAnyStatus(n) == <<Entry(Reported[n], buffer[n].state, buffer[n].status)>>
TakenSuccess(n) ==
  IF buffer[n].status = "ok" THEN <<Entry(Reported[n], buffer[n].state, "ok")>> ELSE <<>>
TakenWithoutStatus(n) ==
  IF buffer[n].status = "error" THEN <<>>
                                ELSE <<Entry(Reported[n], buffer[n].state, "ok")>>

\* The item the callback puts into the list; none for another error.
Taken(n) ==
  IF buffer[n].status = "deleted" THEN <<Entry(Reported[n], 0, "deleted")>>
  ELSE IF buffer[n].status = "ok" THEN <<Entry(Reported[n], buffer[n].state, "ok")>>
  ELSE <<>>

\* What its notification has to tell the application, if there is an action
\* function: the service's deletion or its state.
Report(n) == [name |-> Reported[n],
              state |-> IF buffer[n].status = "deleted" THEN 0 ELSE buffer[n].state]
Reportable(n) ==
  /\ hasAction
  /\ buffer[n].status = "deleted" \/ (buffer[n].status = "ok" /\ buffer[n].state > 0)

\* The history of deletions is of the service itself, under whatever name the
\* callback passes it on, and although it may fail to.
Delivers(n) == told' = IF buffer[n].status = "deleted" THEN told \cup {n} ELSE told

NotifyCallback ==
  /\ Alertable /\ apcs # <<>>
  /\ changes' = changes \o Taken(Head(apcs))
  /\ Delivers(Head(apcs))
  /\ accepted' = IF Reportable(Head(apcs)) THEN Append(accepted, Report(Head(apcs)))
                                           ELSE accepted
  /\ apcs' = Tail(apcs)
  /\ pc' = AfterApc
  /\ UNCHANGED <<inputs, next, mapVars, open, pending, exitSet, handed>>

\* The callback cannot allocate the item and swallows the exception.
NotifyCallbackThrows ==
  /\ Alertable /\ apcs # <<>> /\ "throw" \in Faults
  /\ Delivers(Head(apcs))
  /\ apcs' = Tail(apcs)
  /\ pc' = AfterApc
  /\ UNCHANGED <<inputs, next, mapVars, open, pending, changes, exitSet, accepted, handed>>

\* WAIT_IO_COMPLETION: back to ProcessChanges().
WaitIoCompletion ==
  /\ pc = "woken"
  /\ pc' = "work"
  /\ UNCHANGED <<inputs, next, mapVars, scmVars, changes, exitSet, history>>

\* Variant: the loop goes on whatever the wait returned.
LoopGoesOn ==
  /\ pc = "wait"
  /\ pc' = "work"
  /\ UNCHANGED <<inputs, next, mapVars, scmVars, changes, exitSet, history>>

\* Variant: the loop looks at the event before it goes back to the list.
LeaveEarly ==
  /\ pc \in {"wait", "woken"}
  /\ pc' = "teardown"
  /\ UNCHANGED <<inputs, next, mapVars, scmVars, changes, exitSet, history>>

LeaveLoop ==
  /\ pc = "wait"
  /\ pc' = "teardown"
  /\ UNCHANGED <<inputs, next, mapVars, scmVars, changes, exitSet, history>>
WaitExit == exitSet /\ LeaveLoop   \* WAIT_OBJECT_0
WaitFailed == LeaveLoop            \* WAIT_FAILED

-----------------------------------------------------------------------------
(* The end of Run(): the handle guard, then the list, the context and the map *)

TeardownService(n) ==
  /\ pc = "teardown" /\ Usable(n)
  /\ CloseService(n)
  /\ UNCHANGED <<inputs, pc, next, mapped, buffer, err, apcs, changes, exitSet, history>>

\* Variant: no guard closes the service handles.
ReturnsUnguarded ==
  /\ pc = "teardown"
  /\ pc' = "returned"
  /\ UNCHANGED <<inputs, next, mapVars, scmVars, changes, exitSet, history>>

RunReturns ==
  /\ pc = "teardown" /\ \A n \in Names : ~Usable(n)
  /\ pc' = "returned"
  /\ UNCHANGED <<inputs, next, mapVars, scmVars, changes, exitSet, history>>

-----------------------------------------------------------------------------
(* The SCM and the owner of the notifier *)

\* The SCM completes a registration: it fills the buffer and queues the APC.
ScmNotifies(n) ==
  /\ n \in pending
  /\ Len(handed) + Len(changes) + Len(apcs) < MaxEvents
  /\ \/ \E st \in States : buffer' = [buffer EXCEPT ![n] = [status |-> "ok", state |-> st]]
     \/ buffer' = [buffer EXCEPT ![n] = [status |-> "deleted", state |-> 0]]
     \/ /\ "status" \in Faults
        /\ buffer' = [buffer EXCEPT ![n] = [status |-> "error", state |-> 0]]
  /\ pending' = pending \ {n}
  /\ apcs' = Append(apcs, n)
  /\ UNCHANGED <<inputs, pc, next, mapped, handle, err, open, changes, exitSet, history>>

SignalExit ==
  /\ ~exitSet /\ exitSet' = TRUE
  /\ UNCHANGED <<inputs, pc, next, mapVars, scmVars, changes, history>>

Worker ==
  \/ OpenScm \/ SeedService \/ SeedThrows \/ SeedDone
  \/ Dispatch \/ FinishDeleted \/ Subscribe \/ SubscribeSkips
  \/ StartWait \/ NotifyCallback \/ NotifyCallbackThrows \/ WaitIoCompletion
  \/ WaitExit \/ (\E n \in Names : TeardownService(n)) \/ RunReturns

Next ==
  \/ Worker \/ ActionReturns \/ WaitFailed
  \/ \E n \in Names : ScmNotifies(n)
  \/ SignalExit
  \/ pc = "returned" /\ UNCHANGED vars

Spec == Init /\ [][Next]_vars

(***************************************************************************)
(* The thread is scheduled, and the SCM functions return.  A wait that      *)
(* starts with the event set is satisfied by it, if not the first time then *)
(* some time: APCs may come first.  FairSpec adds what README.md asks of    *)
(* the callback: it returns.                                                *)
(***************************************************************************)
WorkerRuns == WF_vars(pc # "action" /\ Worker) /\ SF_vars(WaitExit)
FairSpec == Spec /\ WorkerRuns /\ WF_vars(ActionReturns)

-----------------------------------------------------------------------------
(* Properties *)

Handles == 1 .. Len(list)
Reports == [name : Names, state : States \cup {0}]
Entries == [name : Names, state : States \cup {0}, status : {"ok", "deleted"}]

TypeOK ==
  /\ list \in Lists /\ hasAction \in BOOLEAN
  /\ pc \in {"open", "seed", "work", "action", "after", "wait", "woken",
             "teardown", "returned"}
  /\ next \in 1 .. Len(list) + 1
  /\ mapped \subseteq Names
  /\ handle \in [Names -> Handles \cup {0}]
  /\ buffer \in [Names -> [status : Statuses, state : States \cup {0}]]
  /\ err \in [Names -> Statuses]
  /\ open \subseteq Handles /\ pending \subseteq Names
  /\ apcs \in Seq(Names) /\ changes \in Seq(Entries)
  /\ exitSet \in BOOLEAN /\ told \subseteq Names
  /\ accepted \in Seq(Reports) /\ handed \in Seq(Reports)
  /\ pc \in {"action", "after"} => changes # <<>>

InLoop == pc \in {"work", "action", "after", "wait", "woken"}

\* The requests under way for a service: a list entry that leads to a
\* registration, a registration, or an APC that leads to an entry.
Requests(n) ==
  Cardinality({i \in DOMAIN changes : changes[i].name = n})
  + (IF n \in pending THEN 1 ELSE 0)
  + Cardinality({i \in DOMAIN apcs : apcs[i] = n})

\* A service has at most one request under way, although APCs are delivered
\* inside the callback: its notify_buffer is never cleared while the SCM or a
\* queued APC uses it (sscn.cpp:122-131).
OneRequest == \A n \in Names : Requests(n) <= 1

\* A service whose handle is open is watched: its next notification is asked
\* for, on its way, or waiting in the list (README.md:5, sscn.cpp:180).
OpenServiceIsWatched ==
  InLoop => \A n \in Names : Usable(n) => Requests(n) > 0

\* The map never keeps a handle that was closed, so none is closed twice or
\* registered after it was closed (sscn.cpp:161-164 and 238-241).
HandlesAreOpen == \A n \in Names : Usable(n) => handle[n] \in open

\* No registration outlives its handle, or Run() with the list that the
\* callback appends to (sscn.cpp:232-235).  It says nothing of APCs that are
\* queued already.
NoDanglingRegistration ==
  /\ \A n \in pending : Usable(n) /\ handle[n] \in open
  /\ pc = "returned" => pending = {}

\* A service whose deletion was delivered has no open handle and is not registered
\* again, once the entry that the callback made of it was processed
\* (sscn.cpp:144-148).
DeletedIsReleased ==
  \A n \in told :
    (\A i \in DOMAIN changes : changes[i] # Entry(Reported[n], 0, "deleted")) =>
      n \notin pending /\ \A h \in open : list[h] # n

\* When Run() has returned, no service handle is open (sscn.cpp:188-191).
HandlesReleased == pc = "returned" => open = {}

\* Exit() ends the worker, wherever its signal finds it (sscn.cpp:257-261).
ExitEndsRun == exitSet ~> pc = "returned"

(***************************************************************************)
(* Run() relays notifications, although the list it keeps them in is also   *)
(* the list of the services to register again.                              *)
(***************************************************************************)
Relay == INSTANCE NotificationRelay WITH Notifications <- Reports

\* The application is told what the callback accepted, once each and in the order
\* of delivery, also when APCs arrive during the action (sscn.cpp:140-182).
RelaysInOrder == Relay!Spec

\* Run() is not left with a change that the callback accepted and the application
\* was not told, although the exit event may be set while APCs arrive
\* (sscn.cpp:245-262).
HandsOverBeforeReturn == pc \in {"teardown", "returned"} => handed = accepted

\* What was accepted does not stay in the list (sscn.cpp:140-182).
RelaysEveryChange == Relay!Handing
=============================================================================
