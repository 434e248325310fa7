------------------------ MODULE NotifierLifecycleProofs ------------------------
(***************************************************************************)
(* Proofs about NotifierLifecycle, for every number of callers, of starts  *)
(* and of polls.                                                           *)
(*                                                                         *)
(* The argument: the cleanup guard of an accepted Start() is active in     *)
(* exactly one place, so at any time at most one thread is responsible for *)
(* running and exit_event.  It is the only one that may change them, and   *)
(* responsibility is handed on with the guard: from the caller in          *)
(* StartImpl() to the worker, or to whoever runs the cleanup.              *)
(***************************************************************************)
EXTENDS NotifierLifecycle, TLAPS

\* The labels at which a thread holds exit_event_mutex.
Critical == {"cleanupClose", "cleanupNull", "cleanupStore", "cleanupUnlock",
             "exitCheck", "exitSet", "exitUnlock"}

\* The labels of a worker that has its guard and its State.
Working == {"entry"} \cup RunLabels \cup ExitLabels

\* The thread that has to give back running and exit_event.
Responsible(t) ==
  \/ pc[t] \in {"create", "check", "spawn"}
  \/ pc[t] = "leave" /\ "starter" \in guard[cur[t]]
  \/ pc[t] \in CleanupLabels \ {"cleanupUnlock"}
  \/ t \in Starts /\ pc[t] \in Working

\* ... or has just given them back and still holds the lock.
Busy(t) == Responsible(t) \/ pc[t] = "cleanupUnlock"

\* The start a thread works on.
StartOf(t) == IF t \in Starts THEN t ELSE cur[t]

\* Workers do not perform StartImpl() and callers do not perform Run().
Kinds ==
  \A t \in Threads :
    /\ t \in Callers => pc[t] \in {"idle"} \cup StartLabels \cup CleanupLabels \cup ExitLabels
    /\ t \in Starts => pc[t] \in {"none", "epilogue", "done"} \cup Working \cup CleanupLabels
    /\ pc[t] \in StartLabels \cup CleanupLabels => cur[t] \in Starts
    /\ t \in Starts /\ pc[t] \in CleanupLabels \cup {"epilogue"} => cur[t] = t

\* Where the active guard of a start is.
Guards ==
  \A t \in Threads :
    /\ pc[t] \in {"create", "check", "spawn"} => guard[cur[t]] = {"starter"}
    /\ pc[t] = "leave" => guard[cur[t]] = {"starter"} \/ "starter" \notin guard[cur[t]]
    /\ pc[t] = "entry" => guard[t] = {"args"}
    /\ t \in Starts /\ pc[t] \in RunLabels \cup ExitLabels => guard[t] = {"entry"}
    /\ pc[t] \in CleanupLabels =>
         /\ guard[cur[t]] = {holder[t]}
         /\ holder[t] \in IF t \in Starts THEN {"entry"} ELSE {"starter", "args"}
    /\ pc[t] = "epilogue" => guard[t] = {}

\* One thread at a time is responsible, and the flag is set while one is.
OneResponsible ==
  /\ \A t \in Threads : Responsible(t) => running
  /\ \A t, u \in Threads : Responsible(t) /\ Responsible(u) => t = u

\* A thread about to release the lock has a start of its own.
OneCleaner ==
  \A t, u \in Threads :
    pc[t] = "cleanupUnlock" /\ Busy(u) /\ StartOf(t) = StartOf(u) => t = u

\* A start gets its event and its worker once.
Unused ==
  /\ \A s \in Starts : event[s] = "none" => pc[s] = "none"
  /\ \A t \in Threads : pc[t] \in {"create", "check", "spawn"} => pc[cur[t]] = "none"

\* exit_event is the event of the start that somebody is responsible for, and
\* the only event that is open.
Events ==
  /\ exitEvent # Null =>
       running /\ (event[exitEvent] = "open" \/ \E t \in Threads : pc[t] = "cleanupNull")
  /\ \A s \in Starts : event[s] = "open" => exitEvent = s
  /\ \A t \in Threads :
       /\ Responsible(t) => exitEvent \in {Null, StartOf(t)}
       /\ pc[t] \in {"create", "cleanupStore"} => exitEvent = Null
       /\ pc[t] \in {"spawn", "cleanupNull"} => exitEvent = StartOf(t)
       /\ t \in Starts /\ pc[t] \in Working => exitEvent = t
       /\ pc[t] = "cleanupNull" => event[exitEvent] = "closed"
       /\ pc[t] = "exitSet" => exitEvent # Null

Mutex == \A t \in Threads : mutex = t <=> pc[t] \in Critical

\* The object is not destroyed while somebody is inside a call, and the guard
\* of a start keeps the State.
Lifetimes ==
  /\ \A t \in Threads : InCall(t) => object # "destroyed"
  /\ \A t, u \in Threads : object # "alive" /\ InCall(t) /\ InCall(u) => t = u
  /\ \A t \in Threads : Busy(t) => <<"closure", StartOf(t)>> \in refs

\* Whatever is acquired has a thread that will release it.
Attended ==
  /\ running => \E t \in Threads : Responsible(t)
  /\ \A s \in Starts :
       /\ guard[s] # {} => \E t \in Threads : Busy(t) /\ StartOf(t) = s
       /\ <<"closure", s>> \in refs => guard[s] # {}
       /\ <<"run", s>> \in refs => pc[s] \in Working

IInv ==
  /\ TypeOK /\ Kinds /\ Guards /\ OneResponsible /\ OneCleaner
  /\ Unused /\ Events /\ Mutex /\ Lifetimes /\ Attended

-----------------------------------------------------------------------------
(* Every step keeps the invariant *)

USE DEF Threads, Holders, StartLabels, CleanupLabels, ExitLabels, RunLabels,
        Critical, Working

\* What is acquired stays attended when nothing is acquired and nobody who is
\* responsible stops being so.
LEMMA AttendedStays ==
  ASSUME Attended, running' = running, guard' = guard, refs' = refs,
         \A s \in Starts : pc[s] \in Working => pc'[s] \in Working,
         \A t \in Threads : Responsible(t) => Responsible(t)',
         \A t \in Threads : Busy(t) => Busy(t)' /\ StartOf(t)' = StartOf(t)
  PROVE  Attended'
BY DEF Attended

\* The exchange makes its caller responsible for an unused start.
LEMMA StartExchangeKeeps ==
  ASSUME NEW t \in Threads, IInv, StartExchange(t)
  PROVE  IInv'
<1> USE DEF IInv, TypeOK, Goto, Step, osVars, guardVars, StartExchange, StartCalled,
   AcquireFlag, CanCall, Fresh, CapturedBy, Home
<1>1. (TypeOK /\ OneResponsible /\ Unused)'
  BY DEF OneResponsible, Unused, Responsible
<1>2. Kinds'
  BY DEF Kinds, OneResponsible, Responsible
<1>3. Guards'
  BY DEF Kinds, Guards, OneResponsible, Responsible
<1>4. OneCleaner'
  BY DEF Kinds, OneCleaner, Responsible, StartOf, Busy
<1>5. (Events /\ Mutex)'
  BY DEF Events, Mutex, Responsible, StartOf
<1>6. Lifetimes'
  BY ThreadsAssumption DEF Lifetimes, Responsible, StartOf, Busy, InCall
<1>7. Attended'
  <2>1. t \notin Starts
    BY ThreadsAssumption DEF OneResponsible, Responsible
  <2>2. Responsible(t)'
    BY DEF Responsible
  <2>3. ASSUME NEW s \in Starts, guard'[s] # {}
        PROVE  \E u \in Threads : Busy(u)' /\ StartOf(u)' = s
    <3>1. CASE cur'[t] = s
      BY <2>1, <2>2, <3>1 DEF Busy, StartOf
    <3>2. CASE cur'[t] # s
      <4>1. guard[s] # {}
        BY <2>3, <3>2
      <4>2. PICK u \in Threads : Busy(u) /\ StartOf(u) = s
        BY <4>1 DEF Attended
      <4>3. u # t /\ Busy(u)' /\ StartOf(u)' = s
        BY <4>2, <2>1 DEF OneResponsible, Busy, StartOf
      <4> QED
        BY <4>3
    <3> QED
      BY <3>1, <3>2
  <2>4. ASSUME NEW s \in Starts, <<"closure", s>> \in refs'
        PROVE  guard'[s] # {}
    <3>1. PICK r \in Starts : /\ guard' = [guard EXCEPT ![r] = {"starter"}]
                              /\ refs' = refs \cup {<<"closure", r>>}
      OBVIOUS
    <3>2. <<"closure", s>> \in refs \/ s = r
      BY <2>4, <3>1
    <3> QED
      BY <3>1, <3>2 DEF Attended
  <2>5. ASSUME NEW s \in Starts, <<"run", s>> \in refs'
        PROVE  pc'[s] \in Working
    <3>1. <<"run", s>> \in refs
      BY <2>5
    <3>2. s # t
      BY <2>1
    <3> QED
      BY <3>1, <3>2 DEF Attended
  <2> QED
    BY <2>2, <2>3, <2>4, <2>5 DEF Attended
<1> QED
  BY <1>1, <1>2, <1>3, <1>4, <1>5, <1>6, <1>7

\* CreateEventW gives the start its event, or exit_event stays null.
LEMMA StartCreateEventKeeps ==
  ASSUME NEW t \in Threads, IInv, StartCreateEvent(t)
  PROVE  IInv'
<1> USE DEF IInv, TypeOK, Goto, Step, osVars, guardVars, StartCreateEvent
<1>1. (TypeOK /\ Kinds /\ OneResponsible)'
  BY DEF Kinds, OneResponsible, Responsible
<1>2. Guards'
  BY DEF Kinds, Guards
<1>3. (OneCleaner /\ Unused /\ Mutex)'
  BY DEF OneCleaner, Unused, Mutex, Responsible, StartOf, Busy
<1>4. Events'
  BY ThreadsAssumption DEF Kinds, OneResponsible, Events, Responsible, StartOf
<1>5. (Lifetimes /\ Attended)'
  BY DEF Lifetimes, Attended, Responsible, StartOf, Busy, InCall
<1> QED
  BY <1>1, <1>2, <1>3, <1>4, <1>5

\* A start without an event gives up, one with its event goes on.
LEMMA StartCheckEventKeeps ==
  ASSUME NEW t \in Threads, IInv, StartCheckEvent(t)
  PROVE  IInv'
<1> USE DEF IInv, TypeOK, Goto, Step, osVars, guardVars, StartCheckEvent
<1>1. (TypeOK /\ Kinds /\ OneResponsible)'
  BY DEF Kinds, OneResponsible, Responsible
<1>2. Guards'
  BY DEF Kinds, Guards
<1>3. (OneCleaner /\ Unused /\ Events)'
  BY DEF OneCleaner, Unused, Events, Responsible, StartOf, Busy
<1>4. (Mutex /\ Lifetimes)'
  BY DEF Mutex, Lifetimes, Responsible, StartOf, Busy, InCall
<1>5. Attended'
  BY DEF Guards, Attended, Responsible, StartOf, Busy
<1> QED
  BY <1>1, <1>2, <1>3, <1>4, <1>5

\* The guard is still the local variable of StartImpl().
LEMMA StartArgsThrowKeeps ==
  ASSUME NEW t \in Threads, IInv, StartArgsThrow(t)
  PROVE  IInv'
<1> USE DEF IInv, TypeOK, Goto, Step, osVars, guardVars, StartArgsThrow
<1>1. (TypeOK /\ Kinds /\ OneResponsible)'
  BY DEF Kinds, OneResponsible, Responsible
<1>2. Guards'
  BY DEF Kinds, Guards
<1>3. (OneCleaner /\ Unused /\ Events)'
  BY DEF OneCleaner, Unused, Events, Responsible, StartOf, Busy
<1>4. (Mutex /\ Lifetimes)'
  BY DEF Mutex, Lifetimes, Responsible, StartOf, Busy, InCall
<1>5. Attended'
  <2>1. /\ running' = running /\ guard' = guard /\ refs' = refs /\ cur' = cur
        /\ \A s \in Starts : pc[s] \in Working => pc'[s] \in Working
    BY ThreadsAssumption DEF Kinds
  <2>2. \A u \in Threads : /\ Responsible(u) => Responsible(u)'
                           /\ Busy(u) => Busy(u)'
                           /\ StartOf(u)' = StartOf(u)
    <3>1. pc[t] = "spawn" /\ pc'[t] = "leave" /\ \A u \in Threads \ {t} : pc'[u] = pc[u]
      OBVIOUS
    <3>2. Responsible(t)'
      BY <2>1, <3>1 DEF Guards, Responsible
    <3>3. \A u \in Threads \ {t} : (Responsible(u)' <=> Responsible(u)) /\ (Busy(u)' <=> Busy(u))
      BY <2>1, <3>1 DEF Responsible, Busy
    <3> QED
      BY <2>1, <3>2, <3>3 DEF StartOf, Busy
  <2> QED
    BY <2>1, <2>2, AttendedStays
<1> QED
  BY <1>1, <1>2, <1>3, <1>4, <1>5

\* The guard in the argument tuple fires in the caller.
LEMMA StartThreadThrowsKeeps ==
  ASSUME NEW t \in Threads, IInv, StartThreadThrows(t)
  PROVE  IInv'
<1> USE DEF IInv, TypeOK, Goto, Step, osVars, guardVars, StartThreadThrows,
   MoveGuard
<1>1. TypeOK'
  BY DEF Kinds
<1>2. (Kinds /\ OneResponsible /\ OneCleaner)'
  BY DEF Kinds, OneResponsible, OneCleaner, Responsible, StartOf, Busy
<1>3. Guards'
  BY DEF Kinds, Guards, OneResponsible, OneCleaner, Responsible, StartOf, Busy
<1>4. (Unused /\ Events /\ Mutex)'
  BY DEF Unused, Events, Mutex, Responsible, StartOf
<1>5. Lifetimes'
  BY DEF Lifetimes, Responsible, StartOf, Busy, InCall
<1>6. Attended'
  <2>1. t \notin Starts /\ cur[t] \in Starts /\ guard[cur[t]] = {"starter"}
    BY DEF Kinds, Guards
  <2>2. Responsible(t)' /\ StartOf(t)' = cur[t]
    BY <2>1 DEF Responsible, StartOf
  <2>3. ASSUME NEW s \in Starts, guard'[s] # {}
        PROVE  \E u \in Threads : Busy(u)' /\ StartOf(u)' = s
    <3>1. CASE cur[t] = s
      BY <2>2, <3>1 DEF Busy
    <3>2. CASE cur[t] # s
      <4>1. PICK u \in Threads : Busy(u) /\ StartOf(u) = s
        BY <2>3, <3>2 DEF Attended
      <4>2. u # t
        BY <4>1, <2>1, <3>2 DEF StartOf
      <4>3. Busy(u)' /\ StartOf(u)' = s
        BY <4>1, <4>2, <2>1, <3>2 DEF Kinds, Busy, StartOf, Responsible
      <4> QED
        BY <4>3
    <3> QED
      BY <3>1, <3>2
  <2>4. \A s \in Starts : <<"closure", s>> \in refs' => guard'[s] # {}
    BY <2>1 DEF Attended
  <2>5. \A s \in Starts : <<"run", s>> \in refs' => pc'[s] \in Working
    BY <2>1 DEF Attended
  <2> QED
    BY <2>2, <2>3, <2>4, <2>5 DEF Attended
<1> QED
  BY <1>1, <1>2, <1>3, <1>4, <1>5, <1>6

\* Responsibility moves from the caller to the new worker.
LEMMA StartSpawnKeeps ==
  ASSUME NEW t \in Threads, IInv, StartSpawn(t)
  PROVE  IInv'
<1> USE DEF IInv, TypeOK, Goto, Step, osVars, guardVars, StartSpawn, MoveGuard
<1>1. TypeOK'
  <2>1. cur[t] \in Starts
    BY DEF Kinds
  <2>2. <<"run", cur[t]>> \in {"closure", "run"} \X Starts
    BY <2>1
  <2> QED
    BY <2>1, <2>2
<1>2. Kinds'
  BY DEF Kinds, Guards
<1>3. Guards'
  BY DEF Kinds, Guards, OneResponsible, OneCleaner, Responsible, StartOf, Busy
<1>4. OneResponsible'
  BY DEF OneResponsible, Responsible
<1>5. OneCleaner'
  BY DEF Kinds, OneCleaner, Responsible, StartOf, Busy
<1>6. Unused'
  BY ThreadsAssumption DEF Kinds, OneResponsible, Unused, Events, Responsible,
     StartOf
<1>7. Events'
  BY DEF Kinds, OneResponsible, Events, Responsible, StartOf
<1>8. Mutex'
  BY DEF Kinds, Guards, Mutex
<1>9. Lifetimes'
  BY DEF Kinds, Lifetimes, Responsible, StartOf, Busy, InCall
<1>10. Attended'
  <2>1. /\ t \notin Starts /\ cur[t] \in Starts /\ cur[t] # t
        /\ guard[cur[t]] = {"starter"} /\ pc[cur[t]] = "none"
    BY DEF Kinds, Guards, Unused
  <2>2. Responsible(cur[t])' /\ StartOf(cur[t])' = cur[t]
    BY <2>1 DEF Responsible, StartOf
  <2>3. ASSUME NEW s \in Starts, guard'[s] # {}
        PROVE  \E u \in Threads : Busy(u)' /\ StartOf(u)' = s
    <3>1. CASE cur[t] = s
      BY <2>2, <3>1 DEF Busy
    <3>2. CASE cur[t] # s
      <4>1. PICK u \in Threads : Busy(u) /\ StartOf(u) = s
        BY <2>3, <3>2 DEF Attended
      <4>2. u # t /\ u # cur[t]
        BY <4>1, <2>1, <3>2 DEF StartOf
      <4>3. Busy(u)' /\ StartOf(u)' = s
        BY <4>1, <4>2, <2>1, <3>2 DEF Kinds, Busy, StartOf, Responsible
      <4> QED
        BY <4>3
    <3> QED
      BY <3>1, <3>2
  <2>4. \A s \in Starts : <<"closure", s>> \in refs' => guard'[s] # {}
    <3>1. \A s \in Starts : s # cur[t] => guard'[s] = guard[s]
      BY <2>1
    <3>2. guard'[cur[t]] # {}
      BY <2>1
    <3>3. \A s \in Starts : <<"closure", s>> \in refs' => <<"closure", s>> \in refs
      OBVIOUS
    <3> QED
      BY <3>1, <3>2, <3>3 DEF Attended
  <2>5. \A s \in Starts : <<"run", s>> \in refs' => pc'[s] \in Working
    BY <2>1 DEF Attended
  <2> QED
    BY <2>1, <2>2, <2>3, <2>4, <2>5 DEF Attended
<1> QED
  BY <1>1, <1>2, <1>3, <1>4, <1>5, <1>6, <1>7, <1>8, <1>9, <1>10

\* The local guard fires if it was not moved.
LEMMA StartLeaveKeeps ==
  ASSUME NEW t \in Threads, IInv, StartLeave(t)
  PROVE  IInv'
<1> USE DEF IInv, TypeOK, Goto, Step, osVars, guardVars, StartLeave,
   DestroyGuard, Fires, Home
<1>1. (TypeOK /\ Kinds /\ Mutex)'
  BY DEF Kinds, Mutex
<1>2. Guards'
  BY DEF Kinds, Guards
<1>3. OneResponsible'
  BY DEF Kinds, OneResponsible, Responsible
<1>4. OneCleaner'
  BY DEF Kinds, OneCleaner, Responsible, StartOf, Busy
<1>5. Unused'
  BY DEF Kinds, Unused
<1>6. Events'
  BY DEF Kinds, Events, Responsible, StartOf
<1>7. Lifetimes'
  BY DEF Kinds, Lifetimes, Responsible, StartOf, Busy, InCall
<1>8. Attended'
  BY DEF Attended, Responsible, StartOf, Busy
<1> QED
  BY <1>1, <1>2, <1>3, <1>4, <1>5, <1>6, <1>7, <1>8

\* The cleanup takes the lock.
LEMMA CleanupLockKeeps ==
  ASSUME NEW t \in Threads, IInv, CleanupLock(t)
  PROVE  IInv'
<1> USE DEF IInv, TypeOK, Goto, Step, osVars, guardVars, CleanupLock, Lock
<1>1. (TypeOK /\ Kinds /\ OneResponsible)'
  BY DEF Kinds, OneResponsible, Responsible
<1>2. Guards'
  BY DEF Kinds, Guards
<1>3. (OneCleaner /\ Unused /\ Events)'
  BY DEF OneCleaner, Unused, Events, Responsible, StartOf, Busy
<1>4. Mutex'
  BY ThreadsAssumption DEF Mutex
<1>5. (Lifetimes /\ Attended)'
  BY DEF Lifetimes, Attended, Responsible, StartOf, Busy, InCall
<1> QED
  BY <1>1, <1>2, <1>3, <1>4, <1>5

\* The cleanup closes the event that its start owns.
LEMMA CleanupCloseKeeps ==
  ASSUME NEW t \in Threads, IInv, CleanupClose(t)
  PROVE  IInv'
<1> USE DEF IInv, TypeOK, Goto, Step, osVars, guardVars, CleanupClose
<1>1. (TypeOK /\ Kinds /\ OneResponsible)'
  BY DEF Kinds, OneResponsible, Responsible
<1>2. Guards'
  BY DEF Kinds, Guards
<1>3. (OneCleaner /\ Events /\ Mutex)'
  BY DEF OneCleaner, Events, Mutex, Responsible, StartOf, Busy
<1>4. Unused'
  BY DEF Kinds, Unused
<1>5. (Lifetimes /\ Attended)'
  BY DEF Lifetimes, Attended, Responsible, StartOf, Busy, InCall
<1> QED
  BY <1>1, <1>2, <1>3, <1>4, <1>5

\* With the lock held, nobody else looks at exit_event.
LEMMA CleanupNullKeeps ==
  ASSUME NEW t \in Threads, IInv, CleanupNull(t)
  PROVE  IInv'
<1> USE DEF IInv, TypeOK, Goto, Step, osVars, guardVars, CleanupNull
<1>1. (TypeOK /\ Kinds /\ OneResponsible)'
  BY DEF Kinds, OneResponsible, Responsible
<1>2. Guards'
  BY DEF Kinds, Guards
<1>3. (OneCleaner /\ Unused /\ Mutex)'
  BY DEF OneCleaner, Unused, Mutex, Responsible, StartOf, Busy
<1>4. Events'
  BY DEF OneResponsible, Events, Mutex, Responsible, StartOf
<1>5. (Lifetimes /\ Attended)'
  BY DEF Lifetimes, Attended, Responsible, StartOf, Busy, InCall
<1> QED
  BY <1>1, <1>2, <1>3, <1>4, <1>5

\* Clearing the flag ends the responsibility.
LEMMA CleanupStoreKeeps ==
  ASSUME NEW t \in Threads, IInv, CleanupStore(t)
  PROVE  IInv'
<1> USE DEF IInv, TypeOK, Goto, Step, osVars, guardVars, CleanupStore
<1>1. TypeOK'
  OBVIOUS
<1>2. (Kinds /\ OneResponsible /\ Unused)'
  BY DEF Kinds, OneResponsible, Unused, Responsible
<1>3. Guards'
  BY DEF Kinds, Guards
<1>4. OneCleaner'
  BY DEF OneResponsible, OneCleaner, Responsible, StartOf, Busy
<1>5. (Events /\ Mutex /\ Lifetimes)'
  BY DEF Events, Mutex, Lifetimes, Responsible, StartOf, Busy, InCall
<1>6. Attended'
  BY DEF Attended, Responsible, StartOf, Busy
<1> QED
  BY <1>1, <1>2, <1>3, <1>4, <1>5, <1>6

\* The guard and its reference to the State go together.
LEMMA CleanupUnlockKeeps ==
  ASSUME NEW t \in Threads, IInv, CleanupUnlock(t)
  PROVE  IInv'
<1> USE DEF IInv, TypeOK, Goto, Step, osVars, guardVars, CleanupUnlock,
   Unlock, AfterCleanup
<1>1. TypeOK'
  BY DEF Kinds
<1>2. Kinds'
  BY ThreadsAssumption DEF Kinds
<1>3. Guards'
  BY DEF Kinds, Guards, OneCleaner, Responsible, StartOf, Busy
<1>4. OneResponsible'
  BY DEF Kinds, Guards, OneResponsible, Responsible
<1>5. (OneCleaner /\ Unused)'
  BY DEF OneCleaner, Unused, Responsible, StartOf, Busy
<1>6. Events'
  BY DEF Kinds, Guards, Events, Responsible, StartOf
<1>7. Mutex'
  BY ThreadsAssumption DEF Mutex
<1>8. Lifetimes'
  BY ThreadsAssumption DEF Kinds, Guards, OneCleaner, Lifetimes, Responsible,
     StartOf, Busy, InCall
<1>9. Attended'
  BY DEF Kinds, Guards, OneCleaner, Attended, Busy, Responsible, StartOf
<1> QED
  BY <1>1, <1>2, <1>3, <1>4, <1>5, <1>6, <1>7, <1>8, <1>9

\* A call of Exit(), by a caller or by a callback.
LEMMA ExitBeginKeeps ==
  ASSUME NEW t \in Threads, IInv, ExitBegin(t)
  PROVE  IInv'
<1> USE DEF IInv, TypeOK, Goto, Step, osVars, guardVars, ExitBegin, ExitCalled, CanCall,
   Home
<1>1. (TypeOK /\ Kinds /\ Unused)'
  BY DEF Kinds, Unused
<1>2. Guards'
  BY DEF Kinds, Guards
<1>3. OneResponsible'
  BY DEF Kinds, OneResponsible, Responsible
<1>4. OneCleaner'
  BY DEF Kinds, OneCleaner, Responsible, StartOf, Busy
<1>5. Events'
  BY DEF Kinds, Events, Responsible, StartOf
<1>6. (Mutex /\ Attended)'
  BY DEF Mutex, Attended, Responsible, StartOf, Busy
<1>7. Lifetimes'
  BY ThreadsAssumption DEF Lifetimes, Responsible, StartOf, Busy, InCall
<1> QED
  BY <1>1, <1>2, <1>3, <1>4, <1>5, <1>6, <1>7

\* The destructor runs while nobody else is inside a call.
LEMMA DestroyKeeps ==
  ASSUME NEW t \in Threads, IInv, Destroy(t)
  PROVE  IInv'
<1> USE DEF IInv, TypeOK, Goto, Step, osVars, guardVars, Destroy, DestructorCalled, CanCall,
   Home, InCall
<1>1. (TypeOK /\ Kinds /\ Unused)'
  BY DEF Kinds, Unused
<1>2. Guards'
  BY DEF Kinds, Guards
<1>3. OneResponsible'
  BY DEF Kinds, OneResponsible, Responsible
<1>4. OneCleaner'
  BY DEF Kinds, OneCleaner, Responsible, StartOf, Busy
<1>5. Events'
  BY DEF Kinds, Events, Responsible, StartOf
<1>6. (Mutex /\ Attended)'
  BY DEF Mutex, Attended, Responsible, StartOf, Busy
<1>7. Lifetimes'
  BY DEF Kinds, Lifetimes, Responsible, StartOf, Busy, InCall
<1> QED
  BY <1>1, <1>2, <1>3, <1>4, <1>5, <1>6, <1>7

\* Exit() takes the lock.
LEMMA ExitLockKeeps ==
  ASSUME NEW t \in Threads, IInv, ExitLock(t)
  PROVE  IInv'
<1> USE DEF IInv, TypeOK, Goto, Step, osVars, guardVars, ExitLock, Lock
<1>1. (TypeOK /\ Kinds /\ OneResponsible)'
  BY DEF Kinds, OneResponsible, Responsible
<1>2. Guards'
  BY DEF Kinds, Guards
<1>3. (OneCleaner /\ Unused /\ Events)'
  BY DEF OneCleaner, Unused, Events, Responsible, StartOf, Busy
<1>4. Mutex'
  BY ThreadsAssumption DEF Mutex
<1>5. (Lifetimes /\ Attended)'
  BY DEF Lifetimes, Attended, Responsible, StartOf, Busy, InCall
<1> QED
  BY <1>1, <1>2, <1>3, <1>4, <1>5

\* Exit() signals only a handle that is not null.
LEMMA ExitCheckKeeps ==
  ASSUME NEW t \in Threads, IInv, ExitCheck(t)
  PROVE  IInv'
<1> USE DEF IInv, TypeOK, Goto, Step, osVars, guardVars, ExitCheck
<1>1. (TypeOK /\ Kinds /\ Guards)'
  BY DEF Kinds, Guards
<1>2. (OneResponsible /\ OneCleaner /\ Unused)'
  BY DEF OneResponsible, OneCleaner, Unused, Responsible, StartOf, Busy
<1>3. Events'
  BY DEF Events, Responsible, StartOf
<1>4. (Mutex /\ Lifetimes)'
  BY DEF Mutex, Lifetimes, Responsible, StartOf, Busy, InCall
<1>5. Attended'
  BY DEF Attended, Responsible, StartOf, Busy
<1> QED
  BY <1>1, <1>2, <1>3, <1>4, <1>5

\* SetEvent changes no handle.
LEMMA ExitSetKeeps ==
  ASSUME NEW t \in Threads, IInv, ExitSet(t)
  PROVE  IInv'
<1> USE DEF IInv, TypeOK, Goto, Step, osVars, guardVars, ExitSet, SetEvent
<1>1. TypeOK'
  BY DEF Events, Responsible, StartOf
<1>2. (Kinds /\ OneResponsible /\ OneCleaner)'
  BY DEF Kinds, OneResponsible, OneCleaner, Responsible, StartOf, Busy
<1>3. Guards'
  BY DEF Kinds, Guards
<1>4. (Unused /\ Events /\ Mutex)'
  BY DEF Unused, Events, Mutex, Responsible, StartOf
<1>5. (Lifetimes /\ Attended)'
  BY DEF Lifetimes, Attended, Responsible, StartOf, Busy, InCall
<1> QED
  BY <1>1, <1>2, <1>3, <1>4, <1>5

\* Exit() gives up the lock and starts to poll.
LEMMA ExitUnlockKeeps ==
  ASSUME NEW t \in Threads, IInv, ExitUnlock(t)
  PROVE  IInv'
<1> USE DEF IInv, TypeOK, Goto, Step, osVars, guardVars, ExitUnlock, Unlock
<1>1. TypeOK'
  BY PollsAssumption
<1>2. (Kinds /\ OneResponsible /\ OneCleaner)'
  BY DEF Kinds, OneResponsible, OneCleaner, Responsible, StartOf, Busy
<1>3. Guards'
  BY DEF Kinds, Guards
<1>4. (Unused /\ Events /\ Lifetimes)'
  BY DEF Unused, Events, Lifetimes, Responsible, StartOf, Busy, InCall
<1>5. Mutex'
  BY ThreadsAssumption DEF Mutex
<1>6. Attended'
  BY DEF Attended, Responsible, StartOf, Busy
<1> QED
  BY <1>1, <1>2, <1>3, <1>4, <1>5, <1>6

\* Polling reads the flag.
LEMMA ExitPollKeeps ==
  ASSUME NEW t \in Threads, IInv, ExitPoll(t)
  PROVE  IInv'
<1> USE DEF IInv, TypeOK, Goto, Step, osVars, guardVars, ExitPoll, PollsLeft,
   NextPoll
<1>1. TypeOK'
  BY PollsAssumption
<1>2. (Kinds /\ OneResponsible /\ OneCleaner)'
  BY DEF Kinds, OneResponsible, OneCleaner, Responsible, StartOf, Busy
<1>3. Guards'
  BY DEF Kinds, Guards
<1>4. Unused'
  BY DEF Kinds, Unused
<1>5. (Events /\ Mutex /\ Lifetimes)'
  BY DEF Events, Mutex, Lifetimes, Responsible, StartOf, Busy, InCall
<1>6. Attended'
  BY DEF Attended, Responsible, StartOf, Busy
<1> QED
  BY <1>1, <1>2, <1>3, <1>4, <1>5, <1>6

\* The object is gone when the destructor returns.
LEMMA ExitReturnKeeps ==
  ASSUME NEW t \in Threads, IInv, ExitReturn(t)
  PROVE  IInv'
<1> USE DEF IInv, TypeOK, Goto, Step, osVars, guardVars, ExitReturn, Home
<1>1. TypeOK'
  BY PollsAssumption
<1>2. Kinds'
  BY ThreadsAssumption DEF Kinds
<1>3. Guards'
  BY DEF Kinds, Guards
<1>4. (OneResponsible /\ OneCleaner /\ Unused)'
  BY DEF OneResponsible, OneCleaner, Unused, Responsible, StartOf, Busy
<1>5. (Events /\ Mutex /\ Lifetimes)'
  BY DEF Events, Mutex, Lifetimes, Responsible, StartOf, Busy, InCall
<1>6. Attended'
  BY ThreadsAssumption DEF Attended, Responsible, StartOf, Busy
<1> QED
  BY <1>1, <1>2, <1>3, <1>4, <1>5, <1>6

\* The guard becomes the parameter of the entry lambda.
LEMMA WorkerEnterKeeps ==
  ASSUME NEW w \in Starts, IInv, WorkerEnter(w)
  PROVE  IInv'
<1> USE DEF IInv, TypeOK, Goto, Step, osVars, guardVars, WorkerEnter,
   MoveGuard
<1>1. (TypeOK /\ Kinds /\ OneResponsible)'
  BY DEF Kinds, OneResponsible, Responsible
<1>2. Guards'
  BY DEF Kinds, Guards, OneResponsible, OneCleaner, Responsible, StartOf, Busy
<1>3. (OneCleaner /\ Unused /\ Events)'
  BY DEF OneCleaner, Unused, Events, Responsible, StartOf, Busy
<1>4. (Mutex /\ Lifetimes)'
  BY DEF Mutex, Lifetimes, Responsible, StartOf, Busy, InCall
<1>5. Attended'
  <2>1. guard[w] = {"args"} /\ guard'[w] = {"entry"}
    BY DEF Guards
  <2>2. Responsible(w)' /\ StartOf(w)' = w
    BY DEF Responsible, StartOf
  <2>3. ASSUME NEW s \in Starts, guard'[s] # {}
        PROVE  \E u \in Threads : Busy(u)' /\ StartOf(u)' = s
    <3>1. CASE w = s
      BY <2>2, <3>1 DEF Busy
    <3>2. CASE w # s
      <4>1. PICK u \in Threads : Busy(u) /\ StartOf(u) = s
        BY <2>3, <3>2 DEF Attended
      <4>2. u # w
        BY <4>1, <3>2 DEF StartOf
      <4>3. Busy(u)' /\ StartOf(u)' = s
        BY <4>1, <4>2, <2>1 DEF Busy, StartOf, Responsible
      <4> QED
        BY <4>3
    <3> QED
      BY <3>1, <3>2
  <2>4. \A s \in Starts : <<"closure", s>> \in refs' => guard'[s] # {}
    BY <2>1 DEF Attended
  <2>5. \A s \in Starts : <<"run", s>> \in refs' => pc'[s] \in Working
    BY DEF Attended
  <2> QED
    BY <2>2, <2>3, <2>4, <2>5 DEF Attended
<1> QED
  BY <1>1, <1>2, <1>3, <1>4, <1>5

\* The worker calls the action function.
LEMMA WorkerActsKeeps ==
  ASSUME NEW w \in Starts, IInv, WorkerActs(w)
  PROVE  IInv'
<1> USE DEF IInv, TypeOK, Goto, Step, osVars, guardVars, WorkerActs
<1>1. (TypeOK /\ Kinds /\ OneResponsible)'
  BY DEF Kinds, OneResponsible, Responsible
<1>2. Guards'
  BY DEF Kinds, Guards
<1>3. (OneCleaner /\ Unused /\ Events)'
  BY DEF OneCleaner, Unused, Events, Responsible, StartOf, Busy
<1>4. (Mutex /\ Lifetimes /\ Attended)'
  BY DEF Mutex, Lifetimes, Attended, Responsible, StartOf, Busy, InCall
<1> QED
  BY <1>1, <1>2, <1>3, <1>4

\* The action function returns to the worker.
LEMMA ActionReturnsKeeps ==
  ASSUME NEW w \in Starts, IInv, ActionReturns(w)
  PROVE  IInv'
<1> USE DEF IInv, TypeOK, Goto, Step, osVars, guardVars, ActionReturns
<1>1. (TypeOK /\ Kinds /\ Guards)'
  BY DEF Kinds, Guards
<1>2. (OneResponsible /\ OneCleaner /\ Unused)'
  BY DEF OneResponsible, OneCleaner, Unused, Responsible, StartOf, Busy
<1>3. Events'
  BY DEF Events, Responsible, StartOf
<1>4. Mutex' /\ Lifetimes'
  <2>1. Mutex'
    BY DEF Mutex
  <2>2. Lifetimes'
    BY DEF Lifetimes, Responsible, StartOf, Busy, InCall
  <2> QED
    BY <2>1, <2>2
<1>5. Attended'
  <2>1. /\ running' = running /\ guard' = guard /\ refs' = refs
        /\ \A s \in Starts : pc[s] \in Working => pc'[s] \in Working
    OBVIOUS
  <2>2. \A u \in Threads : /\ Responsible(u) => Responsible(u)'
                           /\ Busy(u) => Busy(u)'
                           /\ StartOf(u)' = StartOf(u)
    BY DEF Responsible, StartOf, Busy
  <2> QED
    BY <2>1, <2>2, AttendedStays
<1> QED
  BY <1>1, <1>2, <1>3, <1>4, <1>5

\* The worker leaves Run() because its event is set.
LEMMA WaitSignaledKeeps ==
  ASSUME NEW w \in Starts, IInv, WaitSignaled(w)
  PROVE  IInv'
<1> USE DEF IInv, TypeOK, Goto, Step, osVars, guardVars, WaitSignaled,
   RunReturns, DestroyGuard, Fires
<1>1. (TypeOK /\ Kinds /\ OneResponsible)'
  BY DEF Kinds, OneResponsible, Responsible
<1>2. Guards'
  BY DEF Kinds, Guards
<1>3. (OneCleaner /\ Events /\ Mutex)'
  BY DEF OneCleaner, Events, Mutex, Responsible, StartOf, Busy
<1>4. Unused'
  BY DEF Kinds, Unused
<1>5. Lifetimes'
  BY DEF Kinds, Lifetimes, Responsible, StartOf, Busy, InCall
<1>6. Attended'
  BY DEF Guards, Attended, Responsible, StartOf, Busy
<1> QED
  BY <1>1, <1>2, <1>3, <1>4, <1>5, <1>6

\* The worker leaves Run() for any other reason.
LEMMA RunFailsKeeps ==
  ASSUME NEW w \in Starts, IInv, RunFails(w)
  PROVE  IInv'
<1> USE DEF IInv, TypeOK, Goto, Step, osVars, guardVars, RunFails, RunReturns,
   DestroyGuard, Fires
<1>1. (TypeOK /\ Kinds /\ OneResponsible)'
  BY DEF Kinds, OneResponsible, Responsible
<1>2. Guards'
  BY DEF Kinds, Guards
<1>3. (OneCleaner /\ Events /\ Mutex)'
  BY DEF OneCleaner, Events, Mutex, Responsible, StartOf, Busy
<1>4. Unused'
  BY DEF Kinds, Unused
<1>5. Lifetimes'
  BY ThreadsAssumption DEF Lifetimes, Responsible, StartOf, Busy, InCall
<1>6. Attended'
  BY DEF Guards, Attended, Responsible, StartOf, Busy
<1> QED
  BY <1>1, <1>2, <1>3, <1>4, <1>5, <1>6

\* The moved-from guard in the argument tuple does nothing.
LEMMA WorkerEpilogueKeeps ==
  ASSUME NEW w \in Starts, IInv, WorkerEpilogue(w)
  PROVE  IInv'
<1> USE DEF IInv, TypeOK, Goto, Step, osVars, guardVars, WorkerEpilogue,
   DestroyGuard, Fires
<1>1. (TypeOK /\ Kinds /\ Guards)'
  BY DEF Kinds, Guards
<1>2. OneResponsible'
  BY DEF Guards, OneResponsible, Responsible
<1>3. OneCleaner'
  BY DEF Guards, OneCleaner, Responsible, StartOf, Busy
<1>4. Unused'
  BY DEF Kinds, Unused
<1>5. Events'
  BY DEF Guards, Events, Responsible, StartOf
<1>6. (Mutex /\ Attended)'
  BY DEF Mutex, Attended, Responsible, StartOf, Busy
<1>7. Lifetimes'
  BY DEF Guards, Lifetimes, Responsible, StartOf, Busy, InCall
<1> QED
  BY <1>1, <1>2, <1>3, <1>4, <1>5, <1>6, <1>7

\* A stutter of the system keeps everything.
LEMMA StutterKeeps ==
  ASSUME IInv, UNCHANGED vars
  PROVE  IInv'
  BY DEF IInv, TypeOK, Kinds, Guards, OneResponsible, OneCleaner, Unused, Events, Mutex,
         Lifetimes, Attended, InCall, Busy, Responsible, StartOf, vars, osVars, guardVars

-----------------------------------------------------------------------------
(* The theorems *)

\* Nothing is started in the initial state.
LEMMA InitIInv == Init => IInv
<1> SUFFICES ASSUME Init PROVE IInv
  OBVIOUS
<1> USE ThreadsAssumption, PollsAssumption DEF Init
<1>1. \A t \in Threads : pc[t] = IF t \in Callers THEN "idle" ELSE "none"
  OBVIOUS
<1>2. \A s \in Starts : event[s] = "none" /\ guard[s] = {}
  OBVIOUS
<1>3. mutex = Null /\ refs = {} /\ ~running /\ exitEvent = Null /\ object = "alive"
  OBVIOUS
<1>4. TypeOK /\ Kinds /\ Guards
  <2>1. TypeOK
    <3>1. pc \in [Threads -> StartLabels \cup CleanupLabels \cup ExitLabels
                    \cup RunLabels \cup {"idle", "none", "entry", "epilogue", "done"}]
      OBVIOUS
    <3>2. /\ event \in [Starts -> {"none", "open", "closed"}]
          /\ guard \in [Starts -> SUBSET Holders]
          /\ cur \in [Threads -> Starts \cup {Null}]
          /\ holder \in [Threads -> Holders \cup {Null}]
      OBVIOUS
    <3>3. running \in BOOLEAN /\ refs \subseteq {"closure", "run"} \X Starts
      OBVIOUS
    <3>4. polls \in [Threads -> 0 .. MaxPolls]
      OBVIOUS
    <3> QED
      BY <3>1, <3>2, <3>3, <3>4 DEF TypeOK
  <2>2. Kinds /\ Guards
    <3> HIDE DEF Init
    <3> QED
      BY <1>1, <1>2, <1>3 DEF Kinds, Guards
  <2> QED
    BY <2>1, <2>2
<1> HIDE DEF Init
<1>5. \A t \in Threads : ~Busy(t) /\ ~InCall(t)
  BY <1>1, <1>2, <1>3 DEF Busy, Responsible, InCall
<1>6. OneResponsible /\ OneCleaner /\ Unused /\ Mutex
  BY <1>1, <1>2, <1>3, <1>5 DEF OneResponsible, OneCleaner, Unused, Mutex, Busy
<1>7. Events /\ Lifetimes /\ Attended
  BY <1>1, <1>2, <1>3, <1>5 DEF Events, Lifetimes, Attended, Busy
<1> QED
  BY <1>4, <1>6, <1>7 DEF IInv

\* Every step of every thread keeps the invariant.
LEMMA NextIInv == IInv /\ [Next]_vars => IInv'
<1> SUFFICES ASSUME IInv, [Next]_vars PROVE IInv'
  OBVIOUS
<1>1. ASSUME NEW t \in Threads, StartStep(t) PROVE IInv'
  BY <1>1, StartExchangeKeeps, StartCreateEventKeeps, StartCheckEventKeeps,
     StartArgsThrowKeeps, StartThreadThrowsKeeps, StartSpawnKeeps,
     StartLeaveKeeps DEF StartStep
<1>2. ASSUME NEW t \in Threads, CleanupStep(t) PROVE IInv'
  BY <1>2, CleanupLockKeeps, CleanupCloseKeeps, CleanupNullKeeps,
     CleanupStoreKeeps, CleanupUnlockKeeps DEF CleanupStep
<1>3. ASSUME NEW t \in Threads, ExitStep(t) PROVE IInv'
  BY <1>3, ExitLockKeeps, ExitCheckKeeps, ExitSetKeeps, ExitUnlockKeeps,
     ExitPollKeeps, ExitReturnKeeps DEF ExitStep
<1>4. ASSUME NEW w \in Starts, WorkerStep(w) PROVE IInv'
  BY <1>4, WorkerEnterKeeps, WorkerActsKeeps, ActionReturnsKeeps,
     WaitSignaledKeeps, RunFailsKeeps, WorkerEpilogueKeeps DEF WorkerStep
<1>5. ASSUME NEW t \in Threads, ExitBegin(t) \/ Destroy(t) PROVE IInv'
  BY <1>5, ExitBeginKeeps, DestroyKeeps
<1>6. ASSUME UNCHANGED vars PROVE IInv'
  BY <1>6, StutterKeeps
<1> QED
  BY <1>1, <1>2, <1>3, <1>4, <1>5, <1>6 DEF Next

\* The cleanup guard of each start is in one place, and whoever has it is the
\* only thread that may touch running and exit_event (sscn.cpp:287-304).
THEOREM GuardInvariant == Spec => []IInv
<1>1. Init => IInv
  BY InitIInv
<1>2. IInv /\ [Next]_vars => IInv'
  BY NextIInv
<1> QED
  BY <1>1, <1>2, PTL DEF Spec

\* Every variable has its type, whatever the number of threads.
THEOREM TypeCorrect == Spec => []TypeOK
<1>1. IInv => TypeOK
  BY DEF IInv
<1> QED
  BY <1>1, GuardInvariant, PTL

\* A worker in Run() waits on its own event, which is open (sscn.cpp:249-258).
THEOREM WaitIsOnOwnEvent == Spec => []WaitsOnOwnEvent
<1>1. ASSUME IInv PROVE WaitsOnOwnEvent
  <2> SUFFICES ASSUME NEW w \in Starts, InRun(w)
               PROVE  exitEvent = w /\ event[w] = "open"
    BY DEF WaitsOnOwnEvent
  <2>1. w \in Threads /\ Responsible(w) /\ exitEvent = w
    BY <1>1 DEF IInv, Events, InRun, Responsible
  <2>2. ASSUME NEW t \in Threads PROVE pc[t] # "cleanupNull"
    BY <1>1, <2>1 DEF IInv, OneResponsible, Responsible, InRun
  <2> QED
    BY <1>1, <2>1, <2>2, ThreadsAssumption DEF IInv, Events
<1> QED
  BY <1>1, GuardInvariant, PTL

\* A cleanup releases only what its own start acquired (sscn.cpp:287-304).
THEOREM CleanupIsOwners == Spec => []CleanupOwnsState
<1>1. ASSUME IInv PROVE CleanupOwnsState
  <2> SUFFICES ASSUME NEW t \in Threads, pc[t] \in CleanupLabels \ {"cleanupUnlock"}
               PROVE  running /\ exitEvent \in {Null, cur[t]}
    BY DEF CleanupOwnsState
  <2>1. Responsible(t)
    BY DEF Responsible
  <2>2. StartOf(t) = cur[t]
    BY <1>1 DEF IInv, Kinds, StartOf
  <2> QED
    BY <1>1, <2>1, <2>2 DEF IInv, OneResponsible, Events
<1> QED
  BY <1>1, GuardInvariant, PTL

\* Exit() never signals a closed handle (sscn.cpp:347-353): the cleanup cannot be
\* between CloseHandle and the assignment of nullptr while Exit() has the lock.
THEOREM SignalsOpenHandle == Spec => []SetEventOnOpenHandle
<1>1. ASSUME IInv PROVE SetEventOnOpenHandle
  <2> SUFFICES ASSUME NEW t \in Threads, pc[t] = "exitSet"
               PROVE  exitEvent # Null /\ event[exitEvent] = "open"
    BY DEF SetEventOnOpenHandle
  <2>1. exitEvent # Null /\ mutex = t
    BY <1>1 DEF IInv, Events, Mutex
  <2>2. ASSUME NEW u \in Threads PROVE pc[u] # "cleanupNull"
    BY <1>1, <2>1 DEF IInv, Mutex
  <2> QED
    BY <1>1, <2>1, <2>2 DEF IInv, Events
<1> QED
  BY <1>1, GuardInvariant, PTL

\* When Exit() can return true, no worker is in Run() and no event is open
\* (sscn.cpp:344-345).
THEOREM StoppedIsReleased == Spec => []StoppedMeansReleased
<1>1. ASSUME IInv, ~running
      PROVE  /\ \A w \in Starts : ~InRun(w) /\ pc[w] # "entry"
             /\ exitEvent = Null
             /\ \A s \in Starts : event[s] # "open"
  <2>1. \A w \in Starts : ~InRun(w) /\ pc[w] # "entry"
    BY <1>1 DEF IInv, OneResponsible, Responsible, InRun
  <2>2. exitEvent = Null
    BY <1>1 DEF IInv, Events
  <2>3. \A s \in Starts : event[s] # "open"
    BY <1>1, <2>2, ThreadsAssumption DEF IInv, Events
  <2> QED
    BY <2>1, <2>2, <2>3
<1>2. IInv => StoppedMeansReleased
  BY <1>1 DEF StoppedMeansReleased
<1> QED
  BY <1>2, GuardInvariant, PTL

\* No thread uses the State after it was freed, also when the object is
\* destroyed before its worker ends (sscn.hpp:109-115).
THEOREM StateIsAlive == Spec => []StateOutlivesUse
<1>1. ASSUME IInv PROVE StateOutlivesUse
  <2> SUFFICES ASSUME NEW t \in Threads,
                      pc[t] \in StartLabels \cup CleanupLabels \cup ExitLabels
                                  \cup RunLabels \cup {"entry"}
               PROVE  StateAlive
    BY DEF StateOutlivesUse
  <2>1. CASE t \in Starts
    <3>1. Busy(t)
      BY <1>1, <2>1, ThreadsAssumption DEF IInv, Kinds, Busy, Responsible
    <3> QED
      BY <1>1, <3>1 DEF IInv, Lifetimes, StateAlive
  <2>2. CASE t \notin Starts
    <3>1. InCall(t)
      BY <1>1, <2>2 DEF IInv, Kinds, Guards, InCall
    <3> QED
      BY <1>1, <3>1 DEF IInv, Lifetimes, StateAlive
  <2> QED
    BY <2>1, <2>2
<1> QED
  BY <1>1, GuardInvariant, PTL

\* A start that nobody works on left no event, guard or reference behind, and the
\* flag is set only while somebody will clear it (sscn.cpp:287-292).
THEOREM NothingIsLeaked == Spec => []NothingLeaks
<1>1. ASSUME IInv PROVE NothingLeaks
  <2>1. ASSUME NEW s \in Starts, pc[s] \in {"none", "done"},
               \A t \in Threads \ {s} : cur[t] # s
        PROVE  /\ event[s] # "open" /\ guard[s] = {}
               /\ <<"closure", s>> \notin refs /\ <<"run", s>> \notin refs
    <3>1. \A t \in Threads : Busy(t) => StartOf(t) # s
      BY <2>1 DEF Busy, Responsible, StartOf
    <3>2. guard[s] = {}
      BY <1>1, <3>1 DEF IInv, Attended
    <3>3. <<"closure", s>> \notin refs /\ <<"run", s>> \notin refs
      BY <1>1, <2>1, <3>2 DEF IInv, Attended
    <3>4. event[s] # "open"
      BY <1>1, <3>1, ThreadsAssumption DEF IInv, Attended, Events, Busy
    <3> QED
      BY <3>2, <3>3, <3>4
  <2>2. ASSUME running PROVE \E s \in Starts : guard[s] # {}
    <3>1. PICK t \in Threads : Responsible(t)
      BY <1>1, <2>2 DEF IInv, Attended
    <3>2. StartOf(t) \in Starts /\ guard[StartOf(t)] # {}
      <4>1. CASE t \in Starts
        BY <1>1, <3>1, <4>1, ThreadsAssumption
           DEF IInv, Kinds, Guards, Responsible, StartOf
      <4>2. CASE t \notin Starts
        BY <1>1, <3>1, <4>2 DEF IInv, Kinds, Guards, Responsible, StartOf
      <4> QED
        BY <4>1, <4>2
    <3> QED
      BY <3>2
  <2> QED
    BY <2>1, <2>2 DEF NothingLeaks
<1> QED
  BY <1>1, GuardInvariant, PTL
-----------------------------------------------------------------------------
(* The callers' view: NotifierLifecycle implements SingleWorker *)

\* A start is active exactly while somebody is responsible for it.
LEMMA ActiveIsAttended ==
  ASSUME IInv, NEW s \in Starts
  PROVE  ActiveStart(s) <=> \E t \in Threads : Responsible(t) /\ StartOf(t) = s
<1> USE ThreadsAssumption DEF IInv
<1>1. ASSUME ActiveStart(s) PROVE \E t \in Threads : Responsible(t) /\ StartOf(t) = s
  <2>1. PICK t \in Threads : Busy(t) /\ StartOf(t) = s
    BY <1>1 DEF ActiveStart, Attended
  <2>2. pc[t] = "cleanupUnlock" => cur[t] = s
    BY <2>1 DEF Kinds, StartOf
  <2> QED
    BY <1>1, <2>1, <2>2 DEF ActiveStart, Busy
<1>2. ASSUME NEW t \in Threads, Responsible(t), StartOf(t) = s
      PROVE  ActiveStart(s)
  <2>1. running
    BY <1>2 DEF OneResponsible
  <2>2. guard[s] # {}
    BY <1>2 DEF Kinds, Guards, Responsible, StartOf
  <2>3. \A u \in Threads : pc[u] = "cleanupUnlock" => cur[u] # s
    BY <1>2 DEF OneCleaner, Busy, StartOf, Kinds, Responsible
  <2> QED
    BY <2>1, <2>2, <2>3 DEF ActiveStart
<1> QED
  BY <1>1, <1>2

\* At most one start is active.
LEMMA OneIsActive ==
  ASSUME IInv, NEW s \in Starts, NEW u \in Starts, ActiveStart(s), ActiveStart(u)
  PROVE  s = u
BY ActiveIsAttended DEF IInv, OneResponsible
\* A worker in Run() is that of an active start.
LEMMA WorkingIsActive ==
  ASSUME IInv, NEW s \in Starts, InRun(s)
  PROVE  ActiveStart(s)
<1>1. Responsible(s) /\ StartOf(s) = s
  BY DEF InRun, Responsible, StartOf
<1> QED
  BY <1>1, ActiveIsAttended

\* A step that changes no phase and signals nobody is a stutter.
LEMMA NoneChanges ==
  ASSUME \A s \in Starts : Phase(s)' = Phase(s), UNCHANGED signaled
  PROVE  UNCHANGED Workers!vars
BY DEF Workers!vars

\* A step that changes one phase.
LEMMA OneChanges ==
  ASSUME NEW s \in Starts, NEW p, Phase(s)' = p, UNCHANGED signaled,
         \A u \in Starts \ {s} : Phase(u)' = Phase(u)
  PROVE  Workers!Becomes(s, p)
BY DEF Workers!Becomes

\* The event of an active start does not count: its phase is that of its guard.
LEMMA StartCreateEventQuiet ==
  ASSUME IInv, NEW t \in Threads, StartCreateEvent(t)
  PROVE  UNCHANGED Workers!vars
<1> USE ThreadsAssumption DEF IInv, TypeOK, StartCreateEvent, Step, Goto, guardVars
<1> DEFINE s == cur[t]
<1>1. s \in Starts /\ t \notin Starts /\ Responsible(t) /\ StartOf(t) = s
  BY DEF Kinds, Responsible, StartOf
<1>2. ActiveStart(s)
  BY <1>1, ActiveIsAttended
<1>3. \A u \in Starts : pc'[u] = pc[u] /\ (event'[u] = event[u] \/ u = s)
  BY <1>1
<1>4. \A u \in Starts : (ActiveStart(u)' <=> ActiveStart(u)) /\ (InRun(u)' <=> InRun(u))
  BY <1>3 DEF ActiveStart, InRun
<1>5. \A u \in Starts : Phase(u)' = Phase(u)
  BY <1>2, <1>3, <1>4 DEF Phase
<1> QED
  BY <1>5, NoneChanges

\* Reading exit_event changes no phase.
LEMMA StartCheckEventQuiet ==
  ASSUME IInv, NEW t \in Threads, StartCheckEvent(t)
  PROVE  UNCHANGED Workers!vars
<1> USE ThreadsAssumption DEF IInv, StartCheckEvent, Step, Goto, osVars, guardVars
<1>1. \A s \in Starts : Phase(s)' = Phase(s)
  BY DEF Phase, ActiveStart, InRun
<1> QED
  BY <1>1, NoneChanges

\* The guard stays with the starter.
LEMMA StartArgsThrowQuiet ==
  ASSUME IInv, NEW t \in Threads, StartArgsThrow(t)
  PROVE  UNCHANGED Workers!vars
<1> USE ThreadsAssumption DEF IInv, StartArgsThrow, Step, Goto, osVars, guardVars
<1>1. \A s \in Starts : Phase(s)' = Phase(s)
  BY DEF Phase, ActiveStart, InRun
<1> QED
  BY <1>1, NoneChanges

\* The guard was moved, and is still active.
LEMMA StartThreadThrowsQuiet ==
  ASSUME IInv, NEW t \in Threads, StartThreadThrows(t)
  PROVE  UNCHANGED Workers!vars
<1> USE ThreadsAssumption DEF IInv, TypeOK, StartThreadThrows, Goto, osVars
<1>1. /\ cur[t] \in Starts /\ t \notin Starts
      /\ pc[cur[t]] = "none" /\ pc'[cur[t]] = "none"
      /\ guard[cur[t]] = {"starter"}
  BY DEF Kinds, Guards, Unused
<1>2. \A s \in Starts \ {cur[t]} : pc'[s] = pc[s]
  BY <1>1
<1>3. \A s \in Starts : guard'[s] # {} <=> guard[s] # {}
  BY <1>1 DEF MoveGuard
<1>4. \A s \in Starts : ActiveStart(s)' <=> ActiveStart(s)
  BY <1>1, <1>2, <1>3 DEF ActiveStart
<1>5. \A s \in Starts : Phase(s)' = Phase(s)
  BY <1>1, <1>2, <1>4 DEF Phase, InRun
<1> QED
  BY <1>5, NoneChanges

\* A start whose worker exists is accepted until the worker enters Run().
LEMMA StartSpawnQuiet ==
  ASSUME IInv, NEW t \in Threads, StartSpawn(t)
  PROVE  UNCHANGED Workers!vars
<1> USE ThreadsAssumption DEF IInv, TypeOK, StartSpawn, Goto, osVars
<1>1. /\ cur[t] \in Starts /\ t \notin Starts
      /\ pc[cur[t]] = "none" /\ pc'[cur[t]] = "entry"
      /\ guard[cur[t]] = {"starter"}
  BY DEF Kinds, Guards, Unused
<1>2. \A s \in Starts \ {cur[t]} : pc'[s] = pc[s]
  BY <1>1
<1>3. \A s \in Starts : guard'[s] # {} <=> guard[s] # {}
  BY <1>1 DEF MoveGuard
<1>4. \A s \in Starts : ActiveStart(s)' <=> ActiveStart(s)
  BY <1>1, <1>2, <1>3 DEF ActiveStart
<1>5. \A s \in Starts : Phase(s)' = Phase(s)
  BY <1>1, <1>2, <1>4 DEF Phase, InRun
<1> QED
  BY <1>5, NoneChanges

\* The starter's guard is empty, or its cleanup begins.
LEMMA StartLeaveQuiet ==
  ASSUME IInv, NEW t \in Threads, StartLeave(t)
  PROVE  UNCHANGED Workers!vars
<1> USE ThreadsAssumption DEF IInv, TypeOK, StartLeave, Goto, osVars
<1>1. \A s \in Starts : Phase(s)' = Phase(s)
  BY DEF Phase, ActiveStart, InRun, Kinds, DestroyGuard
<1> QED
  BY <1>1, NoneChanges

\* A cleanup that holds the lock has not cleared the flag.
LEMMA CleanupLockQuiet ==
  ASSUME IInv, NEW t \in Threads, CleanupLock(t)
  PROVE  UNCHANGED Workers!vars
<1> USE ThreadsAssumption DEF IInv, CleanupLock, Step, Goto, osVars, guardVars
<1>1. \A s \in Starts : Phase(s)' = Phase(s)
  BY DEF Phase, ActiveStart, InRun
<1> QED
  BY <1>1, NoneChanges

\* The event that is closed belongs to the active start.
LEMMA CleanupCloseQuiet ==
  ASSUME IInv, NEW t \in Threads, CleanupClose(t)
  PROVE  UNCHANGED Workers!vars
<1> USE ThreadsAssumption DEF IInv, TypeOK, CleanupClose, Goto, guardVars
<1>1. \A s \in Starts : Phase(s)' = Phase(s)
  BY DEF Phase, ActiveStart, InRun, Events
<1> QED
  BY <1>1, NoneChanges

\* exit_event is no part of a phase.
LEMMA CleanupNullQuiet ==
  ASSUME IInv, NEW t \in Threads, CleanupNull(t)
  PROVE  UNCHANGED Workers!vars
<1> USE ThreadsAssumption DEF IInv, CleanupNull, Step, Goto, guardVars
<1>1. \A s \in Starts : Phase(s)' = Phase(s)
  BY DEF Phase, ActiveStart, InRun
<1> QED
  BY <1>1, NoneChanges

\* The guard goes when its start is no longer active.
LEMMA CleanupUnlockQuiet ==
  ASSUME IInv, NEW t \in Threads, CleanupUnlock(t)
  PROVE  UNCHANGED Workers!vars
<1> USE ThreadsAssumption DEF IInv, TypeOK, CleanupUnlock, Step, Goto, osVars
<1>1. \A s \in Starts : Phase(s)' = Phase(s)
  BY DEF Phase, ActiveStart, InRun, Kinds, Guards, AfterCleanup
<1> QED
  BY <1>1, NoneChanges

\* Exit() takes the lock.
LEMMA ExitLockQuiet ==
  ASSUME IInv, NEW t \in Threads, ExitLock(t)
  PROVE  UNCHANGED Workers!vars
<1> USE ThreadsAssumption DEF IInv, ExitLock, Step, Goto, osVars, guardVars
<1>1. \A s \in Starts : Phase(s)' = Phase(s)
  BY DEF Phase, ActiveStart, InRun
<1> QED
  BY <1>1, NoneChanges

\* Exit() looks at exit_event.
LEMMA ExitCheckQuiet ==
  ASSUME IInv, NEW t \in Threads, ExitCheck(t)
  PROVE  UNCHANGED Workers!vars
<1> USE ThreadsAssumption DEF IInv, ExitCheck, Step, Goto, osVars, guardVars
<1>1. \A s \in Starts : Phase(s)' = Phase(s)
  BY DEF Phase, ActiveStart, InRun
<1> QED
  BY <1>1, NoneChanges

\* Exit() gives the lock back.
LEMMA ExitUnlockQuiet ==
  ASSUME IInv, NEW t \in Threads, ExitUnlock(t)
  PROVE  UNCHANGED Workers!vars
<1> USE ThreadsAssumption DEF IInv, ExitUnlock, Step, Goto, osVars, guardVars
<1>1. \A s \in Starts : Phase(s)' = Phase(s)
  BY DEF Phase, ActiveStart, InRun
<1> QED
  BY <1>1, NoneChanges

\* Exit() polls the flag.
LEMMA ExitPollQuiet ==
  ASSUME IInv, NEW t \in Threads, ExitPoll(t)
  PROVE  UNCHANGED Workers!vars
<1> USE ThreadsAssumption DEF IInv, TypeOK, ExitPoll, Goto, osVars, guardVars
<1>1. \A s \in Starts : Phase(s)' = Phase(s)
  BY DEF Phase, ActiveStart, InRun
<1> QED
  BY <1>1, NoneChanges

\* Exit() returns, to the callback if a worker made the call.
LEMMA ExitReturnQuiet ==
  ASSUME IInv, NEW t \in Threads, ExitReturn(t)
  PROVE  UNCHANGED Workers!vars
<1> USE ThreadsAssumption DEF IInv, TypeOK, ExitReturn, Step, Goto, Home, osVars, guardVars
<1>1. \A s \in Starts : Phase(s)' = Phase(s)
  BY DEF Phase, ActiveStart, InRun, Kinds
<1> QED
  BY <1>1, NoneChanges

\* A worker that calls Exit() is still in Run().
LEMMA ExitBeginQuiet ==
  ASSUME IInv, NEW t \in Threads, ExitBegin(t)
  PROVE  UNCHANGED Workers!vars
<1> USE ThreadsAssumption DEF IInv, TypeOK, ExitBegin, ExitCalled, CanCall, Goto, Home, osVars,
                          guardVars
<1>1. \A s \in Starts : Phase(s)' = Phase(s)
  BY DEF Phase, ActiveStart, InRun
<1> QED
  BY <1>1, NoneChanges

\* So is one that destroys the notifier.
LEMMA DestroyQuiet ==
  ASSUME IInv, NEW t \in Threads, Destroy(t)
  PROVE  UNCHANGED Workers!vars
<1> USE ThreadsAssumption DEF IInv, TypeOK, Destroy, DestructorCalled, CanCall, Goto, Home,
                          osVars, guardVars
<1>1. \A s \in Starts : Phase(s)' = Phase(s)
  BY DEF Phase, ActiveStart, InRun
<1> QED
  BY <1>1, NoneChanges

\* The worker calls the action function.
LEMMA WorkerActsQuiet ==
  ASSUME IInv, NEW w \in Starts, WorkerActs(w)
  PROVE  UNCHANGED Workers!vars
<1> USE ThreadsAssumption DEF IInv, WorkerActs, Step, Goto, osVars, guardVars
<1>1. \A s \in Starts : Phase(s)' = Phase(s)
  BY DEF Phase, ActiveStart, InRun
<1> QED
  BY <1>1, NoneChanges

\* The action function returns.
LEMMA ActionReturnsQuiet ==
  ASSUME IInv, NEW w \in Starts, ActionReturns(w)
  PROVE  UNCHANGED Workers!vars
<1> USE ThreadsAssumption DEF IInv, ActionReturns, Step, Goto, osVars, guardVars
<1>1. \A s \in Starts : Phase(s)' = Phase(s)
  BY DEF Phase, ActiveStart, InRun
<1> QED
  BY <1>1, NoneChanges

\* The worker's start is no longer active.
LEMMA WorkerEpilogueQuiet ==
  ASSUME IInv, NEW w \in Starts, WorkerEpilogue(w)
  PROVE  UNCHANGED Workers!vars
<1> USE ThreadsAssumption DEF IInv, TypeOK, WorkerEpilogue, Goto, osVars
<1>1. \A s \in Starts : Phase(s)' = Phase(s)
  BY DEF Phase, ActiveStart, InRun, Guards, DestroyGuard, Fires
<1> QED
  BY <1>1, NoneChanges

\* The exchange succeeds only if no start is active.
LEMMA StartExchangeAccepts ==
  ASSUME IInv, NEW t \in Threads, StartExchange(t)
  PROVE  Workers!Next
<1> USE ThreadsAssumption DEF IInv, TypeOK, StartExchange, StartCalled, Goto, osVars,
                          AcquireFlag
<1>1. PICK s \in Starts :
        /\ Fresh(s) /\ cur' = [cur EXCEPT ![t] = s]
        /\ guard' = [guard EXCEPT ![s] = {"starter"}]
  OBVIOUS
<1>2. \A u \in Starts : ~ActiveStart(u) /\ ~InRun(u)
  BY WorkingIsActive DEF ActiveStart
<1>3. event[s] = "none" /\ pc[s] = "none"
  BY <1>1 DEF Fresh, Unused
<1>4. t # s /\ pc'[s] = "none"
  BY <1>3 DEF CanCall, Home
<1>5. pc[t] # "cleanupUnlock" /\ pc'[t] = "create"
  BY DEF CanCall, Home
<1>6. ActiveStart(s)'
  BY <1>1, <1>5 DEF ActiveStart, Fresh
<1>7. ASSUME NEW u \in Starts \ {s} PROVE ~ActiveStart(u)'
  <2>1. SUFFICES ASSUME guard[u] # {}
                 PROVE  \E v \in Threads : pc'[v] = "cleanupUnlock" /\ cur'[v] = u
    BY <1>1 DEF ActiveStart
  <2>2. PICK v \in Threads : pc[v] = "cleanupUnlock" /\ cur[v] = u
    <3>1. PICK v \in Threads : Busy(v) /\ StartOf(v) = u
      BY <2>1 DEF Attended
    <3> QED
      BY <3>1 DEF Busy, OneResponsible, StartOf, Kinds
  <2> QED
    BY <1>1, <1>5, <2>2
<1>8. Phase(s)' = "accepted" /\ Phase(s) = "new"
  BY <1>2, <1>3, <1>4, <1>6 DEF Phase, InRun
<1>9. \A u \in Starts \ {s} : Phase(u)' = Phase(u)
  BY <1>2, <1>5, <1>7 DEF Phase, InRun
<1>10. Workers!Active = {}
  BY <1>2 DEF Workers!Active, Phase
<1>11. Workers!Accept(s)
  BY <1>8, <1>9, <1>10, OneChanges DEF Workers!Accept
<1> QED
  BY <1>11 DEF Workers!Next

\* The store of FALSE ends the one active start, whose worker has left Run().
LEMMA CleanupStoreReleases ==
  ASSUME IInv, NEW t \in Threads, CleanupStore(t)
  PROVE  Workers!Next
<1> USE ThreadsAssumption DEF IInv, TypeOK, CleanupStore, Step, Goto, osVars, guardVars
<1> DEFINE s == cur[t]
<1>1. s \in Starts /\ Responsible(t) /\ StartOf(t) = s
  BY DEF Kinds, Responsible, StartOf
<1>2. ActiveStart(s)
  BY <1>1, ActiveIsAttended
<1>3. \A u \in Starts \ {s} : ~ActiveStart(u) /\ ~InRun(u)
  BY <1>1, <1>2, OneIsActive, WorkingIsActive
<1>4. \A u \in Starts : ~ActiveStart(u)' /\ (InRun(u)' => InRun(u))
  BY DEF ActiveStart, InRun
<1>5. \A u \in Starts \ {s} : Phase(u)' = Phase(u)
  BY <1>3, <1>4 DEF Phase
<1>6. ~InRun(s) /\ Phase(s) \in {"accepted", "leaving"}
  <2>1. pc[s] # "entry" /\ ~InRun(s)
    BY <1>1 DEF OneResponsible, Responsible, InRun
  <2> QED
    BY <1>2, <2>1 DEF Phase
<1>7. Phase(s)' \in {"new", "released"}
  BY <1>1, <1>4, <1>6 DEF Phase
<1>8. Phase(s) = "leaving" => Phase(s)' = "released"
  BY <1>1, <1>2, <1>4, <1>6 DEF Phase, Unused
<1>9. Workers!Becomes(s, Phase(s)')
  BY <1>1, <1>5, OneChanges
<1>10. Workers!Release(s) \/ Workers!GiveUp(s)
  BY <1>1, <1>6, <1>7, <1>8, <1>9 DEF Workers!Release, Workers!GiveUp
<1> QED
  BY <1>1, <1>10 DEF Workers!Next

\* The worker of an accepted start enters Run().
LEMMA WorkerEnterBegins ==
  ASSUME IInv, NEW w \in Starts, WorkerEnter(w)
  PROVE  Workers!Next
<1> USE ThreadsAssumption DEF IInv, TypeOK, WorkerEnter, Step, Goto, osVars
<1>1. w \in Threads /\ Responsible(w) /\ StartOf(w) = w
  BY DEF Responsible, StartOf
<1>2. ActiveStart(w)
  BY <1>1, ActiveIsAttended
<1>3. \A u \in Starts : guard'[u] # {} <=> guard[u] # {}
  <2>1. guard[w] = {"args"}
    BY <1>1 DEF Guards
  <2> QED
    BY <2>1 DEF MoveGuard
<1>4. \A u \in Starts : ActiveStart(u)' <=> ActiveStart(u)
  BY <1>3 DEF ActiveStart
<1>5. Phase(w) = "accepted" /\ Phase(w)' = "working"
  BY <1>2, <1>4 DEF Phase, InRun
<1>6. \A u \in Starts \ {w} : Phase(u)' = Phase(u)
  BY <1>4 DEF Phase, InRun
<1>7. Workers!Begin(w)
  BY <1>5, <1>6, OneChanges DEF Workers!Begin
<1> QED
  BY <1>7 DEF Workers!Next

\* Run() returns.
LEMMA RunReturnsFinishes ==
  ASSUME IInv, NEW w \in Starts, RunReturns(w)
  PROVE  Workers!Next
<1> USE ThreadsAssumption DEF IInv, TypeOK, RunReturns, osVars
<1>1. w \in Threads /\ Responsible(w) /\ StartOf(w) = w
  BY DEF Responsible, StartOf
<1>2. ActiveStart(w)
  BY <1>1, ActiveIsAttended
<1>3. pc' = [pc EXCEPT ![w] = "cleanupLock"]
  BY DEF Guards, DestroyGuard, Fires, Goto
<1>4. \A u \in Starts : ActiveStart(u)' <=> ActiveStart(u)
  BY <1>3 DEF ActiveStart
<1>5. Phase(w) = "working" /\ Phase(w)' = "leaving"
  BY <1>2, <1>3, <1>4 DEF Phase, InRun
<1>6. \A u \in Starts \ {w} : Phase(u)' = Phase(u)
  BY <1>3, <1>4 DEF Phase, InRun
<1>7. Workers!Finish(w)
  BY <1>5, <1>6, OneChanges DEF Workers!Finish
<1> QED
  BY <1>7 DEF Workers!Next

\* The event that Exit() sets is that of the active start.
LEMMA ExitSetTells ==
  ASSUME IInv, NEW t \in Threads, ExitSet(t)
  PROVE  Workers!Next
<1> USE ThreadsAssumption DEF IInv, TypeOK, ExitSet, SetEvent, Step, Goto, guardVars
<1> DEFINE s == exitEvent
<1>1. s \in Starts /\ running
  BY DEF Events
<1>2. ActiveStart(s)
  <2>1. PICK u \in Threads : Responsible(u)
    BY <1>1 DEF Attended
  <2>2. StartOf(u) = s
    BY <1>1, <2>1 DEF Events
  <2> QED
    BY <1>1, <2>1, <2>2, ActiveIsAttended
<1>3. \A u \in Starts : Phase(u)' = Phase(u)
  BY DEF Phase, ActiveStart, InRun
<1>4. s \in Workers!Active
  BY <1>1, <1>2 DEF Workers!Active, Phase
<1>5. Workers!Tell(s)
  BY <1>3, <1>4 DEF Workers!Tell
<1> QED
  BY <1>1, <1>5 DEF Workers!Next

\* No start is active in the initial state.
LEMMA InitMaps == Init => Workers!Init
<1> SUFFICES ASSUME Init PROVE Workers!Init
  OBVIOUS
<1>1. \A s \in Starts : Phase(s) = "new"
  BY DEF Init, Phase, ActiveStart, InRun
<1> QED
  BY <1>1 DEF Init, Workers!Init

\* Every step of every thread is one of SingleWorker, or a stutter.
LEMMA NextMaps == IInv /\ [Next]_vars => [Workers!Next]_Workers!vars
<1> SUFFICES ASSUME IInv, [Next]_vars PROVE [Workers!Next]_Workers!vars
  OBVIOUS
<1>1. ASSUME NEW t \in Threads, StartStep(t) PROVE [Workers!Next]_Workers!vars
  BY <1>1, StartExchangeAccepts, StartCreateEventQuiet, StartCheckEventQuiet,
     StartArgsThrowQuiet, StartThreadThrowsQuiet, StartSpawnQuiet,
     StartLeaveQuiet DEF StartStep
<1>2. ASSUME NEW t \in Threads, CleanupStep(t) PROVE [Workers!Next]_Workers!vars
  BY <1>2, CleanupLockQuiet, CleanupCloseQuiet, CleanupNullQuiet,
     CleanupStoreReleases, CleanupUnlockQuiet DEF CleanupStep
<1>3. ASSUME NEW t \in Threads, ExitStep(t) PROVE [Workers!Next]_Workers!vars
  BY <1>3, ExitLockQuiet, ExitCheckQuiet, ExitSetTells, ExitUnlockQuiet,
     ExitPollQuiet, ExitReturnQuiet DEF ExitStep
<1>4. ASSUME NEW w \in Starts, WorkerStep(w) PROVE [Workers!Next]_Workers!vars
  BY <1>4, WorkerEnterBegins, WorkerActsQuiet, ActionReturnsQuiet,
     RunReturnsFinishes, WorkerEpilogueQuiet DEF WorkerStep, WaitSignaled, RunFails
<1>5. ASSUME NEW t \in Threads, ExitBegin(t) \/ Destroy(t) PROVE [Workers!Next]_Workers!vars
  BY <1>5, ExitBeginQuiet, DestroyQuiet
<1>6. ASSUME UNCHANGED vars PROVE UNCHANGED Workers!vars
  <2>1. \A s \in Starts : Phase(s)' = Phase(s)
    BY <1>6 DEF Phase, ActiveStart, InRun, vars, osVars, guardVars
  <2> QED
    BY <1>6, <2>1, NoneChanges DEF vars, osVars
<1> QED
  BY <1>1, <1>2, <1>3, <1>4, <1>5, <1>6 DEF Next

\* Calls of Start() and Exit() that overlap in any way look like starts that
\* follow one another, each with one worker, and a stop signal reaches the
\* active one (sscn.cpp:282-304 and 347-353).
THEOREM WorkersFollowEachOther == Spec => OneWorkerAtATime
<1>1. Init => Workers!Init
  BY InitMaps
<1>2. IInv /\ [Next]_vars => [Workers!Next]_Workers!vars
  BY NextMaps
<1> QED
  BY <1>1, <1>2, GuardInvariant, PTL DEF Spec, Workers!Spec, OneWorkerAtATime
-----------------------------------------------------------------------------
(* One application thread: Exit() reaches the worker *)

\* Once Exit() had the lock, the worker there is was told to stop.
ToldToStop ==
  \A t \in Threads : pc[t] \in {"exitUnlock", "poll", "exitReturn"} =>
    \A w \in Starts : pc[w] \in Working => w \in signaled

\* While the only caller is in Exit() no worker is started, and a worker that
\* calls Exit() is the only worker.
LEMMA ToldKeeps ==
  ASSUME \A c, d \in Callers : c = d, IInv, ToldToStop, [Next]_vars
  PROVE  ToldToStop'
<1> USE ThreadsAssumption DEF IInv, TypeOK, ToldToStop, Step, Goto
<1>1. ASSUME NEW t \in Threads, StartSpawn(t) PROVE ToldToStop'
  <2>1. t \in Callers /\ Responsible(t) /\ cur[t] \in Starts
    BY <1>1 DEF StartSpawn, Kinds, Responsible
  <2>2. \A u \in Threads : pc[u] \notin ExitLabels
    BY <1>1, <2>1 DEF StartSpawn, Kinds, OneResponsible, Responsible
  <2> QED
    BY <1>1, <2>1, <2>2 DEF StartSpawn
<1>2. ASSUME NEW t \in Threads, ExitCheck(t) PROVE ToldToStop'
  BY <1>2 DEF ExitCheck, Events, osVars
<1>3. ASSUME NEW t \in Threads, ExitSet(t) PROVE ToldToStop'
  BY <1>3 DEF ExitSet, SetEvent, Events
<1>4. ASSUME NEW t \in Threads, ExitBegin(t) \/ Destroy(t) PROVE ToldToStop'
  BY <1>4 DEF ExitBegin, ExitCalled, Destroy, DestructorCalled, CanCall, Home, osVars
<1>5. ASSUME NEW t \in Threads,
             ExitLock(t) \/ ExitUnlock(t) \/ ExitPoll(t) \/ ExitReturn(t)
      PROVE  ToldToStop'
  BY <1>5 DEF ExitLock, ExitUnlock, ExitPoll, ExitReturn, Home, Kinds, osVars
<1>6. ASSUME NEW t \in Threads, CleanupStep(t) PROVE ToldToStop'
  BY <1>6 DEF CleanupStep, CleanupLock, CleanupClose, CleanupNull, CleanupStore,
     CleanupUnlock, AfterCleanup, osVars
<1>7. ASSUME NEW t \in Threads, StartStep(t), ~StartSpawn(t) PROVE ToldToStop'
  BY <1>7 DEF StartStep, StartExchange, StartCalled, StartCreateEvent, StartCheckEvent, StartArgsThrow,
     StartThreadThrows, StartLeave, DestroyGuard, Home, Kinds, osVars
<1>8. ASSUME NEW w \in Starts, WorkerStep(w) PROVE ToldToStop'
  BY <1>8 DEF WorkerStep, WorkerEnter, WorkerActs, ActionReturns, WaitSignaled, RunFails,
     RunReturns, WorkerEpilogue, DestroyGuard, osVars
<1>9. ASSUME UNCHANGED vars PROVE ToldToStop'
  BY <1>9 DEF vars, osVars
<1> QED
  BY <1>1, <1>2, <1>3, <1>4, <1>5, <1>6, <1>7, <1>8, <1>9 DEF Next, ExitStep

\* With one application thread, an Exit() that times out has signalled the worker
\* that is still in Run() (sscn.hpp:88-90).
THEOREM WorkerIsTold ==
  ASSUME \A c, d \in Callers : c = d
  PROVE  Spec => []ExitTellsWorker
<1>1. Init => ToldToStop
  BY ThreadsAssumption DEF Init, ToldToStop
<1>2. IInv /\ ToldToStop /\ [Next]_vars => ToldToStop'
  BY ToldKeeps
<1>3. ToldToStop => ExitTellsWorker
  BY DEF ToldToStop, ExitTellsWorker, InRun
<1> QED
  BY <1>1, <1>2, <1>3, GuardInvariant, PTL DEF Spec
=============================================================================
