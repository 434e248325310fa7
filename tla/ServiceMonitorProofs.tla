-------------------------- MODULE ServiceMonitorProofs --------------------------
(***************************************************************************)
(* Proofs about ServiceMonitor, for every list of services, every name read *)
(* back and every number of notifications.                                  *)
(*                                                                         *)
(* The argument: the handle of a service is the index of the list element   *)
(* it was opened for, so two services never share one, and whatever is      *)
(* registered or reported as deleted can be followed through the map.  What *)
(* depends on the list or on the failures is proved in layers on top of     *)
(* that: Owned, Watched and Alone, each with its own assumption.            *)
(***************************************************************************)
EXTENDS ServiceMonitor, FiniteSetTheorems, TLAPS

-----------------------------------------------------------------------------
(* The list and the APC queue *)

\* What Append does to the elements.
LEMMA AppendElements ==
  ASSUME NEW S, NEW s \in Seq(S), NEW e \in S
  PROVE  /\ Append(s, e) \in Seq(S) /\ Append(s, e) # <<>>
         /\ DOMAIN Append(s, e) = 1 .. Len(s) + 1 /\ Len(s) \in Nat
         /\ \A i \in DOMAIN s : Append(s, e)[i] = s[i]
         /\ Append(s, e)[Len(s) + 1] = e
         /\ DOMAIN s = 1 .. Len(s)
OBVIOUS

\* What Head and Tail do to the elements.
LEMMA TailElements ==
  ASSUME NEW S, NEW s \in Seq(S), s # <<>>
  PROVE  /\ Tail(s) \in Seq(S)
         /\ Head(s) = s[1] /\ Head(s) \in S /\ 1 \in DOMAIN s
         /\ \A i \in DOMAIN Tail(s) : i + 1 \in DOMAIN s /\ Tail(s)[i] = s[i + 1] /\ i \in Nat \ {0}
         /\ \A i \in DOMAIN s \ {1} : i - 1 \in DOMAIN Tail(s) /\ Tail(s)[i - 1] = s[i]
OBVIOUS

\* The callback appends one item or none.
LEMMA ConcatElement ==
  ASSUME NEW S, NEW s \in Seq(S), NEW e \in S
  PROVE  s \o <<e>> = Append(s, e) /\ s \o <<>> = s
OBVIOUS

\* The first item of the list is popped.
LEMMA PopItem ==
  ASSUME changes \in Seq(Entries), changes # <<>>
  PROVE  /\ Tail(changes) \in Seq(Entries)
         /\ Head(changes) = changes[1] /\ changes[1] \in Entries /\ 1 \in DOMAIN changes
         /\ \A i \in DOMAIN Tail(changes) :
              i \in Nat \ {0} /\ i + 1 \in DOMAIN changes /\ Tail(changes)[i] = changes[i + 1]
         /\ \A i \in DOMAIN changes \ {1} :
              i - 1 \in DOMAIN Tail(changes) /\ Tail(changes)[i - 1] = changes[i]
BY TailElements

\* An item is put at the end of the list.
LEMMA PushItem ==
  ASSUME changes \in Seq(Entries), NEW e \in Entries, changes' = Append(changes, e)
  PROVE  /\ changes' \in Seq(Entries) /\ changes' # <<>>
         /\ \A i \in DOMAIN changes : i \in DOMAIN changes' /\ changes'[i] = changes[i]
         /\ \A i \in DOMAIN changes' : i \in DOMAIN changes \/ changes'[i] = e
         /\ \E i \in DOMAIN changes' : changes'[i] = e
         /\ \A i \in DOMAIN changes' \ DOMAIN changes : i = Len(changes) + 1
<1>1. /\ DOMAIN changes' = 1 .. Len(changes) + 1 /\ Len(changes) \in Nat
      /\ DOMAIN changes = 1 .. Len(changes) /\ changes'[Len(changes) + 1] = e
      /\ changes' \in Seq(Entries) /\ changes' # <<>>
      /\ \A i \in DOMAIN changes : changes'[i] = changes[i]
  BY AppendElements
<1> QED
  BY <1>1

\* The services that have an item in the list keep it, and the new item's gets one.
LEMMA PushName ==
  ASSUME changes \in Seq(Entries), NEW e \in Entries, changes' = Append(changes, e)
  PROVE  /\ \E i \in DOMAIN changes' : changes'[i].name = e.name
         /\ \A i \in DOMAIN changes : \E j \in DOMAIN changes' : changes'[j].name = changes[i].name
<1>1. /\ \A i \in DOMAIN changes : i \in DOMAIN changes' /\ changes'[i] = changes[i]
      /\ \E i \in DOMAIN changes' : changes'[i] = e
  BY PushItem
<1> QED
  BY <1>1

\* The first APC is taken from the queue.
LEMMA PopApc ==
  ASSUME apcs \in Seq(Names), apcs # <<>>
  PROVE  /\ Tail(apcs) \in Seq(Names)
         /\ Head(apcs) = apcs[1] /\ apcs[1] \in Names /\ 1 \in DOMAIN apcs
         /\ \A i \in DOMAIN Tail(apcs) :
              i \in Nat \ {0} /\ i + 1 \in DOMAIN apcs /\ Tail(apcs)[i] = apcs[i + 1]
         /\ \A i \in DOMAIN apcs \ {1} :
              i - 1 \in DOMAIN Tail(apcs) /\ Tail(apcs)[i - 1] = apcs[i]
BY TailElements

\* An APC is put at the end of the queue.
LEMMA PushApc ==
  ASSUME apcs \in Seq(Names), NEW e \in Names, apcs' = Append(apcs, e)
  PROVE  /\ apcs' \in Seq(Names)
         /\ \A i \in DOMAIN apcs : i \in DOMAIN apcs' /\ apcs'[i] = apcs[i]
         /\ \A i \in DOMAIN apcs' : i \in DOMAIN apcs \/ apcs'[i] = e
         /\ \E i \in DOMAIN apcs' : apcs'[i] = e
         /\ \A i \in DOMAIN apcs' \ DOMAIN apcs : i = Len(apcs) + 1
<1>1. /\ DOMAIN apcs' = 1 .. Len(apcs) + 1 /\ Len(apcs) \in Nat
      /\ DOMAIN apcs = 1 .. Len(apcs) /\ apcs'[Len(apcs) + 1] = e
      /\ apcs' \in Seq(Names)
      /\ \A i \in DOMAIN apcs : apcs'[i] = apcs[i]
  BY AppendElements
<1> QED
  BY <1>1

-----------------------------------------------------------------------------
(* Every step keeps the invariant *)

USE DEF inputs, mapVars, scmVars, history, Statuses, Entry, Seed, Zeroed, Handles, Entries

\* A handle stands for the list element that was opened last for its service.
HandleNames ==
  \A n \in Names : handle[n] # 0 =>
    n \in mapped /\ handle[n] < next /\ list[handle[n]] = n

\* Nothing is registered before every service was opened.
Seeding == pc \in {"open", "seed"} => pending = {} /\ told = {} /\ apcs = <<>>

\* The entry of a deletion carries no state.
Deletions == \A i \in DOMAIN changes : changes[i].status = "deleted" => changes[i].state = 0

\* No entry for the service is lost, and its name comes back whole.
Relayed(n) == "throw" \notin Faults /\ Reported[n] = n

\* Such a service, if its deletion was delivered, is closed, or the entry is still
\* to be processed.
Told ==
  \A n \in told :
    \/ ~Relayed(n) \/ ~Usable(n)
    \/ \E i \in DOMAIN changes : changes[i] = Entry(n, 0, "deleted")

IInv ==
  /\ TypeOK /\ HandleNames /\ Seeding /\ HandlesAreOpen /\ NoDanglingRegistration
  /\ Deletions /\ Told

\* The manager is opened, or not.
LEMMA OpenScmKeeps ==
  ASSUME IInv, OpenScm
  PROVE  IInv'
<1> USE ListsAssumption, ReportedAssumption, StatesAssumption
    DEF IInv, TypeOK, OpenScm
<1>1. TypeOK'
  OBVIOUS
<1>2. HandleNames'
  BY DEF HandleNames
<1>3. Seeding'
  BY DEF Seeding
<1>4. HandlesAreOpen'
  BY DEF HandlesAreOpen, HandleNames, Usable
<1>5. NoDanglingRegistration'
  BY DEF NoDanglingRegistration, Usable, HandleNames, Seeding
<1>6. Deletions'
  BY DEF Deletions
<1>7. Told'
  BY DEF Told, Relayed, Usable, Deletions, Seeding
<1> QED
  BY <1>1, <1>2, <1>3, <1>4, <1>5, <1>6, <1>7

\* A service is opened: its new handle is the list index itself.
LEMMA SeedServiceKeeps ==
  ASSUME IInv, SeedService
  PROVE  IInv'
<1> USE ListsAssumption, ReportedAssumption, StatesAssumption
    DEF IInv, TypeOK, SeedService
<1>1. list \in Seq(Names) /\ list[next] \in Names /\ next \in Handles
  OBVIOUS
<1>2. changes \in Seq(Entries) /\ Seed(list[next]) \in Entries
  BY <1>1
<1>3. TypeOK'
  <2>1. changes' \in Seq(Entries)
    BY <1>2, PushItem
  <2>2. PICK h \in Handles \cup {0} : handle' = [handle EXCEPT ![list[next]] = h]
    BY <1>1
  <2>3. handle' \in [Names -> Handles \cup {0}]
    BY <2>2
  <2>4. open' \subseteq Handles
    BY <1>1
  <2> QED
    BY <1>1, <2>1, <2>3, <2>4
<1>4. HandleNames'
  BY DEF HandleNames
<1>5. Seeding'
  BY DEF Seeding
<1>6. HandlesAreOpen'
  BY DEF HandlesAreOpen, HandleNames, Usable
<1>7. NoDanglingRegistration'
  BY DEF NoDanglingRegistration, Usable, HandleNames, Seeding
<1>8. Deletions'
  <2>1. CASE changes' = Append(changes, Seed(list[next]))
    BY <1>2, <2>1, PushItem DEF Deletions
  <2>2. CASE UNCHANGED changes
    BY <2>2 DEF Deletions
  <2> QED
    BY <2>1, <2>2
<1>9. Told'
  BY DEF Told, Relayed, Usable, Deletions, Seeding
<1> QED
  BY <1>3, <1>4, <1>5, <1>6, <1>7, <1>8, <1>9

\* An exception while services are opened: nothing is registered yet.
LEMMA SeedThrowsKeeps ==
  ASSUME IInv, SeedThrows
  PROVE  IInv'
<1> USE ListsAssumption, ReportedAssumption, StatesAssumption
    DEF IInv, TypeOK, SeedThrows
<1>1. TypeOK'
  OBVIOUS
<1>2. HandleNames'
  BY DEF HandleNames
<1>3. Seeding'
  BY DEF Seeding
<1>4. HandlesAreOpen'
  BY DEF HandlesAreOpen, HandleNames, Usable
<1>5. NoDanglingRegistration'
  BY DEF NoDanglingRegistration, Usable, HandleNames, Seeding
<1>6. Deletions'
  BY DEF Deletions
<1>7. Told'
  BY DEF Told, Relayed, Usable, Deletions, Seeding
<1> QED
  BY <1>1, <1>2, <1>3, <1>4, <1>5, <1>6, <1>7

\* All services were opened.
LEMMA SeedDoneKeeps ==
  ASSUME IInv, SeedDone
  PROVE  IInv'
<1> USE ListsAssumption, ReportedAssumption, StatesAssumption
    DEF IInv, TypeOK, SeedDone
<1>1. TypeOK'
  OBVIOUS
<1>2. HandleNames'
  BY DEF HandleNames
<1>3. Seeding'
  BY DEF Seeding
<1>4. HandlesAreOpen'
  BY DEF HandlesAreOpen, HandleNames, Usable
<1>5. NoDanglingRegistration'
  BY DEF NoDanglingRegistration, Usable, HandleNames, Seeding
<1>6. Deletions'
  BY DEF Deletions
<1>7. Told'
  BY DEF Told, Relayed, Usable, Deletions, Seeding
<1> QED
  BY <1>1, <1>2, <1>3, <1>4, <1>5, <1>6, <1>7

\* The action function is called for the front item.
LEMMA DispatchKeeps ==
  ASSUME IInv, Dispatch
  PROVE  IInv'
<1> USE ListsAssumption, ReportedAssumption, StatesAssumption
    DEF IInv, TypeOK, Dispatch, IsChange, Item
<1>1. changes[1] \in Entries /\ Head(changes) = changes[1]
  BY PopItem
<1>2. TypeOK'
  <2>1. PICK r \in Reports : handed' = Append(handed, r)
    <3>1. [name |-> changes[1].name, state |-> changes[1].state] \in Reports
      BY <1>1 DEF Reports
    <3> QED
      BY <1>1, <3>1
  <2>2. handed' \in Seq(Reports)
    BY <2>1, AppendElements
  <2> QED
    BY <2>2
<1>3. HandleNames'
  BY DEF HandleNames
<1>4. Seeding'
  BY DEF Seeding
<1>5. HandlesAreOpen'
  BY DEF HandlesAreOpen, HandleNames, Usable
<1>6. NoDanglingRegistration'
  BY DEF NoDanglingRegistration, Usable, HandleNames, Seeding
<1>7. Deletions'
  BY DEF Deletions
<1>8. Told'
  BY DEF Told, Relayed, Usable, Deletions, Seeding
<1> QED
  BY <1>2, <1>3, <1>4, <1>5, <1>6, <1>7, <1>8

\* The action function returns.
LEMMA ActionReturnsKeeps ==
  ASSUME IInv, ActionReturns
  PROVE  IInv'
<1> USE ListsAssumption, ReportedAssumption, StatesAssumption
    DEF IInv, TypeOK, ActionReturns
<1>1. TypeOK'
  OBVIOUS
<1>2. HandleNames'
  BY DEF HandleNames
<1>3. Seeding'
  BY DEF Seeding
<1>4. HandlesAreOpen'
  BY DEF HandlesAreOpen, HandleNames, Usable
<1>5. NoDanglingRegistration'
  BY DEF NoDanglingRegistration, Usable, HandleNames, Seeding
<1>6. Deletions'
  BY DEF Deletions
<1>7. Told'
  BY DEF Told, Relayed, Usable, Deletions, Seeding
<1> QED
  BY <1>1, <1>2, <1>3, <1>4, <1>5, <1>6, <1>7

\* A deletion is processed: only the handle and registration of its own service
\* go.
LEMMA FinishDeletedKeeps ==
  ASSUME IInv, FinishDeleted
  PROVE  IInv'
<1> USE ListsAssumption, ReportedAssumption, StatesAssumption
    DEF IInv, TypeOK, FinishDeleted, AtFront, Item, CloseService, PopFront
<1>1. /\ changes \in Seq(Entries) /\ changes # <<>> /\ changes' = Tail(changes)
      /\ changes[1] \in Entries /\ Head(changes) = changes[1] /\ changes' \in Seq(Entries)
  BY PopItem
<1>2. PICK n \in Names : n = changes[1].name
  BY <1>1
<1>3. \/ Usable(n) /\ CloseService(n)
      \/ ~Usable(n) /\ UNCHANGED <<open, handle, pending>>
  BY <1>1, <1>2
<1>4. ASSUME Usable(n)
      PROVE  \A m \in Names \ {n} : handle[m] # 0 => handle[m] # handle[n]
  <2>1. handle[n] # 0 /\ list[handle[n]] = n
    BY <1>4 DEF HandleNames, Usable
  <2> QED
    BY <2>1 DEF HandleNames
<1>5. ~Usable(n)' /\ \A m \in Names \ {n} : Usable(m)' <=> Usable(m)
  BY <1>1, <1>2, <1>3 DEF Usable
<1>6. TypeOK'
  BY <1>1, <1>2, <1>3
<1>7. HandleNames'
  BY <1>1, <1>2, <1>3 DEF HandleNames
<1>8. Seeding'
  BY DEF Seeding
<1>9. HandlesAreOpen'
  BY <1>1, <1>2, <1>3, <1>4, <1>5 DEF HandlesAreOpen, Usable
<1>10. NoDanglingRegistration'
  BY <1>1, <1>2, <1>3, <1>4, <1>5 DEF NoDanglingRegistration, Usable
<1>11. Deletions'
  BY <1>1, <1>2, PopItem DEF Deletions
<1>12. Told'
  <2>1. SUFFICES ASSUME NEW m \in told, Relayed(m), Usable(m)'
                 PROVE  \E i \in DOMAIN changes' : changes'[i] = Entry(m, 0, "deleted")
    BY DEF Told, Relayed
  <2>2. PICK i \in DOMAIN changes : changes[i] = Entry(m, 0, "deleted")
    BY <1>5, <2>1 DEF Told, Relayed
  <2>3. i # 1
    BY <1>1, <1>2, <1>5, <2>1, <2>2
  <2>4. i - 1 \in DOMAIN changes' /\ changes'[i - 1] = changes[i]
    BY <1>1, <2>2, <2>3, PopItem
  <2> QED
    BY <2>2, <2>4
<1> QED
  BY <1>6, <1>7, <1>8, <1>9, <1>10, <1>11, <1>12

\* A service is registered: its handle is open.
LEMMA SubscribeKeeps ==
  ASSUME IInv, Subscribe
  PROVE  IInv'
<1> USE ListsAssumption, ReportedAssumption, StatesAssumption
    DEF IInv, TypeOK, Subscribe, AtFront, Item, PopFront
<1>1. /\ changes \in Seq(Entries) /\ changes # <<>> /\ changes' = Tail(changes)
      /\ changes[1] \in Entries /\ Head(changes) = changes[1] /\ changes' \in Seq(Entries)
  BY PopItem
<1>2. PICK n \in Names : n = changes[1].name
  BY <1>1
<1>3. TypeOK'
  <2>1. buffer' \in [Names -> [status : Statuses, state : States \cup {0}]]
    BY <1>1, <1>2
  <2>2. PICK code \in Statuses : err' = [err EXCEPT ![n] = code]
    BY <1>1, <1>2
  <2>3. err' \in [Names -> Statuses]
    BY <2>2
  <2>4. pending' \subseteq Names /\ pc' = "work"
    BY <1>1, <1>2
  <2> QED
    BY <1>1, <2>1, <2>3, <2>4
<1>4. HandleNames'
  BY DEF HandleNames
<1>5. Seeding'
  BY DEF Seeding
<1>6. HandlesAreOpen'
  BY <1>1, <1>2 DEF HandlesAreOpen, Usable
<1>7. NoDanglingRegistration'
  BY <1>1, <1>2 DEF NoDanglingRegistration, HandlesAreOpen, Usable
<1>8. Deletions'
  BY <1>1, <1>2, PopItem DEF Deletions
<1>9. Told'
  <2>1. SUFFICES ASSUME NEW m \in told, Relayed(m), Usable(m)
                 PROVE  \E i \in DOMAIN changes' : changes'[i] = Entry(m, 0, "deleted")
    BY DEF Told, Relayed, Usable
  <2>2. PICK i \in DOMAIN changes : changes[i] = Entry(m, 0, "deleted")
    BY <2>1 DEF Told, Relayed
  <2>3. i # 1
    BY <1>1, <1>2, <2>2
  <2>4. i - 1 \in DOMAIN changes' /\ changes'[i - 1] = changes[i]
    BY <1>1, <2>2, <2>3, PopItem
  <2> QED
    BY <2>2, <2>4
<1> QED
  BY <1>3, <1>4, <1>5, <1>6, <1>7, <1>8, <1>9

\* A name without a handle is dropped.
LEMMA SubscribeSkipsKeeps ==
  ASSUME IInv, SubscribeSkips
  PROVE  IInv'
<1> USE ListsAssumption, ReportedAssumption, StatesAssumption
    DEF IInv, TypeOK, SubscribeSkips, AtFront, Item, PopFront
<1>1. /\ changes \in Seq(Entries) /\ changes # <<>> /\ changes' = Tail(changes)
      /\ changes[1] \in Entries /\ Head(changes) = changes[1] /\ changes' \in Seq(Entries)
  BY PopItem
<1>2. PICK n \in Names : n = changes[1].name
  BY <1>1
<1>3. TypeOK'
  OBVIOUS
<1>4. HandleNames'
  BY DEF HandleNames
<1>5. Seeding'
  BY DEF Seeding
<1>6. HandlesAreOpen'
  BY DEF HandlesAreOpen, HandleNames, Usable
<1>7. NoDanglingRegistration'
  BY DEF NoDanglingRegistration, Usable, HandleNames, Seeding
<1>8. Deletions'
  BY <1>1, <1>2, PopItem DEF Deletions
<1>9. Told'
  <2>1. SUFFICES ASSUME NEW m \in told, Relayed(m), Usable(m)
                 PROVE  \E i \in DOMAIN changes' : changes'[i] = Entry(m, 0, "deleted")
    BY DEF Told, Relayed, Usable
  <2>2. PICK i \in DOMAIN changes : changes[i] = Entry(m, 0, "deleted")
    BY <2>1 DEF Told, Relayed
  <2>3. i # 1
    BY <1>1, <1>2, <2>2
  <2>4. i - 1 \in DOMAIN changes' /\ changes'[i - 1] = changes[i]
    BY <1>1, <2>2, <2>3, PopItem
  <2> QED
    BY <2>2, <2>4
<1> QED
  BY <1>3, <1>4, <1>5, <1>6, <1>7, <1>8, <1>9

\* The alertable wait begins.
LEMMA StartWaitKeeps ==
  ASSUME IInv, StartWait
  PROVE  IInv'
<1> USE ListsAssumption, ReportedAssumption, StatesAssumption
    DEF IInv, TypeOK, StartWait
<1>1. TypeOK'
  OBVIOUS
<1>2. HandleNames'
  BY DEF HandleNames
<1>3. Seeding'
  BY DEF Seeding
<1>4. HandlesAreOpen'
  BY DEF HandlesAreOpen, HandleNames, Usable
<1>5. NoDanglingRegistration'
  BY DEF NoDanglingRegistration, Usable, HandleNames, Seeding
<1>6. Deletions'
  BY DEF Deletions
<1>7. Told'
  BY DEF Told, Relayed, Usable, Deletions, Seeding
<1> QED
  BY <1>1, <1>2, <1>3, <1>4, <1>5, <1>6, <1>7

\* The callback runs: a reported deletion comes with its item.
LEMMA NotifyCallbackKeeps ==
  ASSUME IInv, NotifyCallback
  PROVE  IInv'
<1> USE ListsAssumption, ReportedAssumption, StatesAssumption
    DEF IInv, TypeOK, NotifyCallback, Delivers, Alertable, AfterApc
<1>1. PICK n \in Names : n = Head(apcs) /\ n = apcs[1]
  BY PopApc
<1>2. apcs' \in Seq(Names) /\ buffer[n] \in [status : Statuses, state : States \cup {0}]
  BY PopApc
<1>3. ASSUME buffer[n].status = "error"
      PROVE  UNCHANGED changes
  BY <1>1, <1>3, ConcatElement DEF Taken
<1>4. ASSUME buffer[n].status = "ok"
      PROVE  changes' = Append(changes, Entry(Reported[n], buffer[n].state, "ok"))
  BY <1>1, <1>2, <1>4, ConcatElement DEF Taken
<1>5. ASSUME buffer[n].status = "deleted"
      PROVE  changes' = Append(changes, Entry(Reported[n], 0, "deleted"))
  BY <1>1, <1>2, <1>5, ConcatElement DEF Taken
<1>6. \/ changes' = changes
      \/ \E e \in Entries : /\ changes' = Append(changes, e)
                            /\ e.status = "deleted" => e.state = 0
  <2>1. CASE buffer[n].status = "ok"
    <3>1. Entry(Reported[n], buffer[n].state, "ok") \in Entries
      BY <1>2
    <3> QED
      BY <1>4, <2>1, <3>1
  <2>2. CASE buffer[n].status = "deleted"
    <3>1. Entry(Reported[n], 0, "deleted") \in Entries
      OBVIOUS
    <3> QED
      BY <1>5, <2>2, <3>1
  <2>3. CASE buffer[n].status = "error"
    BY <1>3, <2>3
  <2> QED
    BY <1>2, <2>1, <2>2, <2>3
<1>7. TypeOK'
  <2>1. changes' \in Seq(Entries) /\ (changes # <<>> => changes' # <<>>)
    BY <1>6, PushItem
  <2>2. told' \subseteq Names
    BY <1>1
  <2>3. accepted' \in Seq(Reports)
    <3>1. Report(n) \in Reports
      BY <1>2 DEF Report, Reports
    <3> QED
      BY <1>1, <3>1, AppendElements
  <2> QED
    BY <1>2, <2>1, <2>2, <2>3
<1>8. HandleNames'
  BY DEF HandleNames
<1>9. Seeding'
  BY DEF Seeding
<1>10. HandlesAreOpen'
  BY DEF HandlesAreOpen, HandleNames, Usable
<1>11. NoDanglingRegistration'
  BY DEF NoDanglingRegistration, Usable, HandleNames, Seeding
<1>12. Deletions'
  <2>1. CASE changes' = changes
    BY <2>1 DEF Deletions
  <2>2. CASE changes' # changes
    <3>1. PICK e \in Entries : changes' = Append(changes, e) /\ (e.status = "deleted" => e.state = 0)
      BY <1>6, <2>2
    <3> QED
      BY <3>1, PushItem DEF Deletions
  <2> QED
    BY <2>1, <2>2
<1>13. Told'
  <2>1. \A i \in DOMAIN changes : i \in DOMAIN changes' /\ changes'[i] = changes[i]
    BY <1>6, PushItem
  <2>2. CASE buffer[n].status = "deleted"
    <3>1. Entry(Reported[n], 0, "deleted") \in Entries
      OBVIOUS
    <3>2. \E i \in DOMAIN changes' : changes'[i] = Entry(Reported[n], 0, "deleted")
      BY <1>5, <2>2, <3>1, PushItem
    <3> QED
      BY <1>1, <2>1, <2>2, <3>2 DEF Told, Relayed, Usable
  <2>3. CASE buffer[n].status # "deleted"
    BY <1>1, <2>1, <2>3 DEF Told, Relayed, Usable
  <2> QED
    BY <2>2, <2>3
<1> QED
  BY <1>7, <1>8, <1>9, <1>10, <1>11, <1>12, <1>13

\* The callback cannot allocate its item.
LEMMA NotifyCallbackThrowsKeeps ==
  ASSUME IInv, NotifyCallbackThrows
  PROVE  IInv'
<1> USE ListsAssumption, ReportedAssumption, StatesAssumption
    DEF IInv, TypeOK, NotifyCallbackThrows, Delivers, Alertable, AfterApc
<1>1. TypeOK'
  BY PopApc
<1>2. HandleNames'
  BY DEF HandleNames
<1>3. Seeding'
  BY DEF Seeding
<1>4. HandlesAreOpen'
  BY DEF HandlesAreOpen, HandleNames, Usable
<1>5. NoDanglingRegistration'
  BY DEF NoDanglingRegistration, Usable, HandleNames, Seeding
<1>6. Deletions'
  BY DEF Deletions
<1>7. Told'
  BY DEF Told, Relayed, Usable, Deletions, Seeding
<1> QED
  BY <1>1, <1>2, <1>3, <1>4, <1>5, <1>6, <1>7

\* The wait was ended by an APC.
LEMMA WaitIoCompletionKeeps ==
  ASSUME IInv, WaitIoCompletion
  PROVE  IInv'
<1> USE ListsAssumption, ReportedAssumption, StatesAssumption
    DEF IInv, TypeOK, WaitIoCompletion
<1>1. TypeOK'
  OBVIOUS
<1>2. HandleNames'
  BY DEF HandleNames
<1>3. Seeding'
  BY DEF Seeding
<1>4. HandlesAreOpen'
  BY DEF HandlesAreOpen, HandleNames, Usable
<1>5. NoDanglingRegistration'
  BY DEF NoDanglingRegistration, Usable, HandleNames, Seeding
<1>6. Deletions'
  BY DEF Deletions
<1>7. Told'
  BY DEF Told, Relayed, Usable, Deletions, Seeding
<1> QED
  BY <1>1, <1>2, <1>3, <1>4, <1>5, <1>6, <1>7

\* The loop ends.
LEMMA LeaveLoopKeeps ==
  ASSUME IInv, LeaveLoop
  PROVE  IInv'
<1> USE ListsAssumption, ReportedAssumption, StatesAssumption
    DEF IInv, TypeOK, LeaveLoop
<1>1. TypeOK'
  OBVIOUS
<1>2. HandleNames'
  BY DEF HandleNames
<1>3. Seeding'
  BY DEF Seeding
<1>4. HandlesAreOpen'
  BY DEF HandlesAreOpen, HandleNames, Usable
<1>5. NoDanglingRegistration'
  BY DEF NoDanglingRegistration, Usable, HandleNames, Seeding
<1>6. Deletions'
  BY DEF Deletions
<1>7. Told'
  BY DEF Told, Relayed, Usable, Deletions, Seeding
<1> QED
  BY <1>1, <1>2, <1>3, <1>4, <1>5, <1>6, <1>7

\* The guard closes one service.
LEMMA TeardownServiceKeeps ==
  ASSUME IInv, NEW n \in Names, TeardownService(n)
  PROVE  IInv'
<1> USE ListsAssumption, ReportedAssumption, StatesAssumption
    DEF IInv, TypeOK, TeardownService, CloseService
<1>1. TypeOK'
  OBVIOUS
<1>2. HandleNames'
  BY DEF HandleNames
<1>3. Seeding'
  BY DEF Seeding
<1>4. HandlesAreOpen'
  BY DEF HandlesAreOpen, HandleNames, Usable
<1>5. NoDanglingRegistration'
  BY DEF NoDanglingRegistration, Usable, HandleNames, Seeding
<1>6. Deletions'
  BY DEF Deletions
<1>7. Told'
  BY DEF Told, Relayed, Usable, Deletions, Seeding
<1> QED
  BY <1>1, <1>2, <1>3, <1>4, <1>5, <1>6, <1>7

\* The guard has closed every service, so none is registered.
LEMMA RunReturnsKeeps ==
  ASSUME IInv, RunReturns
  PROVE  IInv'
<1> USE ListsAssumption, ReportedAssumption, StatesAssumption
    DEF IInv, TypeOK, RunReturns
<1>1. TypeOK'
  OBVIOUS
<1>2. HandleNames'
  BY DEF HandleNames
<1>3. Seeding'
  BY DEF Seeding
<1>4. HandlesAreOpen'
  BY DEF HandlesAreOpen, HandleNames, Usable
<1>5. NoDanglingRegistration'
  BY DEF NoDanglingRegistration, Usable, HandleNames, Seeding
<1>6. Deletions'
  BY DEF Deletions
<1>7. Told'
  BY DEF Told, Relayed, Usable, Deletions, Seeding
<1> QED
  BY <1>1, <1>2, <1>3, <1>4, <1>5, <1>6, <1>7

\* A registration is completed: the buffer is filled and an APC queued.
LEMMA ScmNotifiesKeeps ==
  ASSUME IInv, NEW n \in Names, ScmNotifies(n)
  PROVE  IInv'
<1> USE ListsAssumption, ReportedAssumption, StatesAssumption
    DEF IInv, TypeOK, ScmNotifies
<1>1. TypeOK'
  <2>1. apcs' \in Seq(Names)
    BY PushApc
  <2>2. PICK r \in [status : Statuses, state : States \cup {0}] : buffer' = [buffer EXCEPT ![n] = r]
    OBVIOUS
  <2>3. buffer' \in [Names -> [status : Statuses, state : States \cup {0}]]
    BY <2>2
  <2> QED
    BY <2>1, <2>3
<1>2. HandleNames'
  BY DEF HandleNames
<1>3. Seeding'
  BY DEF Seeding
<1>4. HandlesAreOpen'
  BY DEF HandlesAreOpen, HandleNames, Usable
<1>5. NoDanglingRegistration'
  BY DEF NoDanglingRegistration, Usable, HandleNames, Seeding
<1>6. Deletions'
  BY DEF Deletions
<1>7. Told'
  BY DEF Told, Relayed, Usable, Deletions, Seeding
<1> QED
  BY <1>1, <1>2, <1>3, <1>4, <1>5, <1>6, <1>7

\* The exit event is set.
LEMMA SignalExitKeeps ==
  ASSUME IInv, SignalExit
  PROVE  IInv'
<1> USE ListsAssumption, ReportedAssumption, StatesAssumption
    DEF IInv, TypeOK, SignalExit
<1>1. TypeOK'
  OBVIOUS
<1>2. HandleNames'
  BY DEF HandleNames
<1>3. Seeding'
  BY DEF Seeding
<1>4. HandlesAreOpen'
  BY DEF HandlesAreOpen, HandleNames, Usable
<1>5. NoDanglingRegistration'
  BY DEF NoDanglingRegistration, Usable, HandleNames, Seeding
<1>6. Deletions'
  BY DEF Deletions
<1>7. Told'
  BY DEF Told, Relayed, Usable, Deletions, Seeding
<1> QED
  BY <1>1, <1>2, <1>3, <1>4, <1>5, <1>6, <1>7

\* Nothing is open when Run() is called.
LEMMA EnteredOK == Entered /\ exitSet \in BOOLEAN => IInv
<1> SUFFICES ASSUME Entered, exitSet \in BOOLEAN PROVE IInv
  OBVIOUS
<1> USE ListsAssumption DEF Entered
<1>1. list \in Seq(Names) /\ Len(list) \in Nat /\ changes \in Seq(Entries)
  OBVIOUS
<1>2. TypeOK
  <2>1. buffer \in [Names -> [status : Statuses, state : States \cup {0}]]
    OBVIOUS
  <2>2. handle \in [Names -> Handles \cup {0}] /\ err \in [Names -> Statuses]
    OBVIOUS
  <2>3. apcs \in Seq(Names) /\ accepted \in Seq(Reports) /\ handed \in Seq(Reports)
    OBVIOUS
  <2>4. next \in 1 .. Len(list) + 1
    BY <1>1
  <2>5. open \subseteq Handles /\ pending \subseteq Names /\ told \subseteq Names
    OBVIOUS
  <2> QED
    BY <1>1, <2>1, <2>2, <2>3, <2>4, <2>5 DEF TypeOK
<1>3. HandleNames /\ Seeding /\ HandlesAreOpen /\ NoDanglingRegistration /\ Deletions /\ Told
  BY DEF HandleNames, Seeding, HandlesAreOpen, NoDanglingRegistration, Deletions, Told, Relayed, Usable
<1> QED
  BY <1>2, <1>3 DEF IInv

\* Every step keeps the invariant.
LEMMA NextKeeps == IInv /\ [Next]_vars => IInv'
<1> SUFFICES ASSUME IInv, [Next]_vars PROVE IInv'
  OBVIOUS
<1>1. ASSUME Worker PROVE IInv'
  BY <1>1, OpenScmKeeps, SeedServiceKeeps, SeedThrowsKeeps, SeedDoneKeeps, DispatchKeeps,
     FinishDeletedKeeps, SubscribeKeeps, SubscribeSkipsKeeps, StartWaitKeeps,
     NotifyCallbackKeeps, NotifyCallbackThrowsKeeps, WaitIoCompletionKeeps, LeaveLoopKeeps,
     TeardownServiceKeeps, RunReturnsKeeps DEF Worker, WaitExit
<1>2. ASSUME ActionReturns \/ WaitFailed \/ SignalExit PROVE IInv'
  BY <1>2, ActionReturnsKeeps, LeaveLoopKeeps, SignalExitKeeps DEF WaitFailed
<1>3. ASSUME NEW n \in Names, ScmNotifies(n) PROVE IInv'
  BY <1>3, ScmNotifiesKeeps
<1>4. ASSUME UNCHANGED vars PROVE IInv'
  BY <1>4 DEF vars, IInv, TypeOK, HandleNames, Seeding, HandlesAreOpen,
     NoDanglingRegistration, Deletions, Told, Relayed, Usable
<1> QED
  BY <1>1, <1>2, <1>3, <1>4 DEF Next

\* The map, the list, the handles and the registrations fit together, for every
\* list and whatever fails (sscn.cpp:140-182 and 232-243).
THEOREM MonitorInvariant == Spec => []IInv
<1>1. Init => IInv
  BY EnteredOK DEF Init
<1>2. IInv /\ [Next]_vars => IInv'
  BY NextKeeps
<1> QED
  BY <1>1, <1>2, PTL DEF Spec

\* Every variable keeps its type, and the front item that ProcessChanges()
\* refers to stays there while the action function runs (sscn.cpp:141-178).
THEOREM TypeCorrect == Spec => []TypeOK
<1>1. IInv => TypeOK
  BY DEF IInv
<1> QED
  BY <1>1, MonitorInvariant, PTL

\* No handle in the map was closed (sscn.cpp:161-164 and 238-241).
THEOREM HandlesStayOpen == Spec => []HandlesAreOpen
<1>1. IInv => HandlesAreOpen
  BY DEF IInv
<1> QED
  BY <1>1, MonitorInvariant, PTL

\* No registration outlives its handle or Run() (sscn.cpp:232-235).
THEOREM NothingDangles == Spec => []NoDanglingRegistration
<1>1. IInv => NoDanglingRegistration
  BY DEF IInv
<1> QED
  BY <1>1, MonitorInvariant, PTL

-----------------------------------------------------------------------------
(* Without duplicates and exceptions, every open handle is in the map *)

\* No service is listed twice.
NoDuplicates(l) == \A i, j \in DOMAIN l : l[i] = l[j] => i = j

\* An open handle is the one its service has in the map.
Owned ==
  /\ \A h \in open : h < next /\ handle[list[h]] = h /\ list[h] \in mapped
  /\ HandlesReleased

\* Only the opening of a service and CloseService change what is open.
LEMMA OwnedKeeps ==
  ASSUME \A l \in Lists : NoDuplicates(l), "throw" \notin Faults,
         IInv, Owned, [Next]_vars
  PROVE  Owned'
<1> USE ListsAssumption DEF IInv, TypeOK, Owned, HandlesReleased
<1>1. \A h \in open : h \in DOMAIN list /\ list[h] \in Names
  OBVIOUS
<1>2. ASSUME NEW n \in Names, Usable(n), CloseService(n), UNCHANGED <<list, next, mapped>>, pc' # "returned"
      PROVE  Owned'
  <2>1. \A h \in open' : list[h] # n
    BY <1>2 DEF CloseService
  <2> QED
    BY <1>1, <1>2, <2>1 DEF CloseService
<1>3. ASSUME UNCHANGED <<list, next, mapped, handle, open>>, pc' = "returned" => pc = "returned"
      PROVE  Owned'
  BY <1>3
<1>4. CASE SeedService
  <2>1. next \in DOMAIN list /\ list[next] \in Names
    BY <1>4 DEF SeedService
  <2>2. \A h \in open : list[h] # list[next]
    BY <1>1, <2>1 DEF NoDuplicates
  <2>3. CASE handle' = [handle EXCEPT ![list[next]] = next] /\ open' = open \cup {next}
    BY <1>1, <1>4, <2>1, <2>2, <2>3 DEF SeedService
  <2>4. CASE handle' = [handle EXCEPT ![list[next]] = 0] /\ open' = open
    BY <1>1, <1>4, <2>1, <2>2, <2>4 DEF SeedService
  <2> QED
    BY <1>4, <2>3, <2>4 DEF SeedService
<1>5. CASE RunReturns
  <2>1. \A h \in open : Usable(list[h])
    BY <1>1 DEF Usable
  <2> QED
    BY <1>1, <1>5, <2>1 DEF RunReturns
<1>6. CASE FinishDeleted
  <2>1. PICK n \in Names : n = Item.name
    BY <1>6, PopItem DEF FinishDeleted, AtFront, Item
  <2> QED
    BY <1>2, <1>3, <1>6, <2>1 DEF FinishDeleted, PopFront
<1>7. ASSUME NEW n \in Names, TeardownService(n) PROVE Owned'
  BY <1>2, <1>7 DEF TeardownService
<1>8. CASE OpenScm \/ SeedDone \/ Dispatch \/ ActionReturns \/ StartWait \/ WaitIoCompletion
        \/ LeaveLoop \/ SignalExit \/ UNCHANGED vars
  BY <1>3, <1>8 DEF OpenScm, SeedDone, Dispatch, ActionReturns, StartWait, WaitIoCompletion,
     LeaveLoop, SignalExit, vars
<1>9. CASE Subscribe \/ SubscribeSkips
  BY <1>3, <1>9 DEF Subscribe, SubscribeSkips, PopFront
<1>10. CASE NotifyCallback \/ NotifyCallbackThrows
  BY <1>3, <1>10 DEF NotifyCallback, NotifyCallbackThrows, AfterApc, Alertable
<1>11. ASSUME NEW n \in Names, ScmNotifies(n) PROVE Owned'
  BY <1>3, <1>11 DEF ScmNotifies
<1>12. ~SeedThrows
  BY DEF SeedThrows
<1> QED
  BY <1>4, <1>5, <1>6, <1>7, <1>8, <1>9, <1>10, <1>11, <1>12
     DEF Next, Worker, WaitExit, WaitFailed

LEMMA OpenIsOwned ==
  ASSUME \A l \in Lists : NoDuplicates(l), "throw" \notin Faults
  PROVE  Spec => []Owned
<1>1. Init => Owned
  BY DEF Init, Entered, Owned, HandlesReleased
<1>2. IInv /\ Owned /\ [Next]_vars => Owned'
  BY OwnedKeeps
<1> QED
  BY <1>1, <1>2, MonitorInvariant, PTL DEF Spec

\* When Run() returns, every handle it opened is closed: if no service is listed
\* twice and nothing throws before the guard exists (sscn.cpp:188-191).
THEOREM HandlesAreReleased ==
  ASSUME \A l \in Lists : NoDuplicates(l), "throw" \notin Faults
  PROVE  Spec => []HandlesReleased
<1>1. Owned => HandlesReleased
  BY DEF Owned
<1> QED
  BY <1>1, OpenIsOwned, PTL

\* What the map says of a deleted service is so: no open handle is left out of it.
LEMMA DeletedMeans ==
  ASSUME "throw" \notin Faults, \A n \in Names : Reported[n] = n, IInv, Owned
  PROVE  DeletedIsReleased
<1> SUFFICES ASSUME NEW n \in told,
                    \A i \in DOMAIN changes : changes[i] # Entry(Reported[n], 0, "deleted")
             PROVE  n \notin pending /\ \A h \in open : list[h] # n
  BY DEF DeletedIsReleased
<1>1. n \in Names /\ ~Usable(n)
  BY DEF IInv, TypeOK, Told, Relayed
<1>2. n \notin pending
  BY <1>1 DEF IInv, NoDanglingRegistration
<1>3. ASSUME NEW h \in open, list[h] = n PROVE FALSE
  <2>1. handle[n] = h /\ n \in mapped /\ h # 0
    BY <1>3 DEF Owned, IInv, TypeOK
  <2> QED
    BY <1>1, <2>1 DEF Usable
<1> QED
  BY <1>2, <1>3

\* A service whose deletion was delivered is closed and not registered again, if
\* no service is listed twice, no entry is lost and the names read back are those
\* of the list (sscn.cpp:144-148).
THEOREM DeletedAreReleased ==
  ASSUME \A l \in Lists : NoDuplicates(l), "throw" \notin Faults,
         \A n \in Names : Reported[n] = n
  PROVE  Spec => []DeletedIsReleased
<1>1. IInv /\ Owned => DeletedIsReleased
  BY DeletedMeans
<1> QED
  BY <1>1, MonitorInvariant, OpenIsOwned, PTL

-----------------------------------------------------------------------------
(* Without failing calls, every open service has a request under way *)

\* Requests(n) > 0, without counting.
HasRequest(n) ==
  \/ n \in pending
  \/ \E i \in DOMAIN changes : changes[i].name = n
  \/ \E i \in DOMAIN apcs : apcs[i] = n

Watched ==
  /\ pc \notin {"teardown", "returned"} => \A n \in Names : Usable(n) => HasRequest(n)
  /\ \A n \in Names : buffer[n].status # "error"

\* The item of a service that was opened is its first request.
LEMMA SeedRequests ==
  ASSUME changes \in Seq(Entries), NEW x \in Names, changes' = Append(changes, Seed(x)),
         UNCHANGED <<pending, apcs>>
  PROVE  HasRequest(x)' /\ \A n \in Names : HasRequest(n) => HasRequest(n)'
<1> DEFINE e == Seed(x)
<1>1. e \in Entries /\ e.name = x
  OBVIOUS
<1>2. changes' = Append(changes, e)
  OBVIOUS
<1> HIDE DEF e
<1>3. /\ \E i \in DOMAIN changes' : changes'[i].name = x
      /\ \A i \in DOMAIN changes : \E j \in DOMAIN changes' : changes'[j].name = changes[i].name
  BY <1>1, <1>2, PushName
<1> QED
  BY <1>3 DEF HasRequest

\* A request is only replaced by the next one for the same service.
LEMMA WatchedKeeps ==
  ASSUME Faults = {}, \A n \in Names : Reported[n] = n, IInv, Watched, [Next]_vars
  PROVE  Watched'
<1> USE ListsAssumption DEF IInv, TypeOK, Watched
<1>1. ASSUME UNCHANGED <<mapped, handle, buffer, pending, apcs, changes>>,
             pc \in {"teardown", "returned"} => pc' \in {"teardown", "returned"}
      PROVE  Watched'
  BY <1>1 DEF Usable, HasRequest
<1>2. CASE OpenScm \/ SeedDone \/ Dispatch \/ ActionReturns \/ StartWait \/ WaitIoCompletion
        \/ LeaveLoop \/ RunReturns \/ SignalExit \/ UNCHANGED vars
  BY <1>1, <1>2 DEF OpenScm, SeedDone, Dispatch, ActionReturns, StartWait, WaitIoCompletion,
     LeaveLoop, RunReturns, SignalExit, vars
<1>3. CASE SeedService
  <2>1. next \in DOMAIN list /\ list[next] \in Names
    BY <1>3 DEF SeedService
  <2>2. Seed(list[next]) \in Entries
    BY <2>1
  <2>3. CASE open' # open \/ changes' = Append(changes, Seed(list[next]))
    <3>1. /\ changes' = Append(changes, Seed(list[next]))
          /\ handle' = [handle EXCEPT ![list[next]] = next]
      BY <1>3, <2>1, <2>3 DEF SeedService
    <3>2. PICK x \in Names : x = list[next]
      BY <2>1
    <3>3. changes \in Seq(Entries) /\ changes' = Append(changes, Seed(x)) /\ UNCHANGED <<pending, apcs>>
      BY <1>3, <3>1, <3>2 DEF SeedService
    <3>4. HasRequest(x)' /\ \A n \in Names : HasRequest(n) => HasRequest(n)'
      BY <3>3, SeedRequests
    <3>5. handle' = [handle EXCEPT ![x] = next] /\ mapped' = mapped \cup {x}
      BY <1>3, <3>1, <3>2 DEF SeedService
    <3>6. \A n \in Names \ {x} : Usable(n)' => Usable(n)
      BY <3>5 DEF Usable
    <3>7. UNCHANGED <<pc, buffer>> /\ pc = "seed"
      BY <1>3 DEF SeedService
    <3> QED
      BY <3>4, <3>6, <3>7
  <2>4. CASE changes' = changes /\ handle' = [handle EXCEPT ![list[next]] = 0]
    BY <1>3, <2>1, <2>4 DEF SeedService, Usable, HasRequest
  <2> QED
    BY <1>3, <2>3, <2>4 DEF SeedService
<1>4. ASSUME AtFront, PopFront
      PROVE  /\ Item.name \in Names /\ pc' = "work"
             /\ \A n \in Names \ {Item.name} :
                  (\E i \in DOMAIN changes : changes[i].name = n) =>
                  \E i \in DOMAIN changes' : changes'[i].name = n
  <2>1. /\ changes # <<>> /\ changes' = Tail(changes) /\ pc' = "work"
        /\ Item = changes[1] /\ changes[1] \in Entries
    BY <1>4, PopItem DEF AtFront, PopFront, Item
  <2>2. ASSUME NEW n \in Names, n # Item.name, NEW i \in DOMAIN changes, changes[i].name = n
        PROVE  \E j \in DOMAIN changes' : changes'[j].name = n
    <3>1. i - 1 \in DOMAIN changes' /\ changes'[i - 1] = changes[i]
      BY <2>1, <2>2, PopItem
    <3> QED
      BY <2>2, <3>1
  <2> QED
    BY <2>1, <2>2
<1>5. CASE FinishDeleted
  <2>1. PICK x \in Names : x = Item.name
    BY <1>4, <1>5 DEF FinishDeleted
  <2>2. ~Usable(x)' /\ \A n \in Names : Usable(n)' => Usable(n)
    BY <1>5, <2>1 DEF FinishDeleted, CloseService, Usable
  <2>3. pending \ {x} \subseteq pending'
    BY <1>5, <2>1 DEF FinishDeleted, CloseService
  <2>4. \A n \in Names \ {x} : HasRequest(n) => HasRequest(n)'
    BY <1>4, <1>5, <2>1, <2>3 DEF FinishDeleted, HasRequest
  <2> QED
    BY <1>4, <1>5, <2>2, <2>4 DEF FinishDeleted, AtFront
<1>6. CASE Subscribe
  <2>1. PICK x \in Names : x = Item.name
    BY <1>4, <1>6 DEF Subscribe
  <2>2. x \in pending' /\ pending \subseteq pending'
    BY <1>6, <2>1 DEF Subscribe
  <2>3. \A n \in Names : HasRequest(n) => HasRequest(n)'
    BY <1>4, <1>6, <2>1, <2>2 DEF Subscribe, HasRequest
  <2>4. \A n \in Names : buffer'[n].status # "error"
    BY <1>6, <2>1 DEF Subscribe
  <2> QED
    BY <1>4, <1>6, <2>3, <2>4 DEF Subscribe, AtFront, Usable
<1>7. CASE SubscribeSkips
  <2>1. PICK x \in Names : x = Item.name
    BY <1>4, <1>7 DEF SubscribeSkips
  <2>2. \A n \in Names \ {x} : HasRequest(n) => HasRequest(n)'
    BY <1>4, <1>7, <2>1 DEF SubscribeSkips, HasRequest
  <2> QED
    BY <1>4, <1>7, <2>1, <2>2 DEF SubscribeSkips, AtFront, Usable
<1>8. CASE NotifyCallback
  <2>1. PICK n \in Names : n = Head(apcs) /\ n = apcs[1] /\ apcs # <<>> /\ apcs' = Tail(apcs)
    BY <1>8, PopApc DEF NotifyCallback
  <2>2. PICK e \in Entries : e.name = n /\ changes' = Append(changes, e)
    <3>1. buffer[n].status \in {"ok", "deleted"}
      BY <2>1
    <3>2. PICK e \in Entries : e.name = n /\ Taken(n) = <<e>>
      BY <2>1, <3>1 DEF Taken
    <3>3. changes' = changes \o <<e>> /\ changes \in Seq(Entries)
      BY <1>8, <2>1, <3>2 DEF NotifyCallback
    <3> QED
      BY <3>2, <3>3, ConcatElement
  <2>3. ASSUME NEW i \in DOMAIN apcs, i # 1
        PROVE  i - 1 \in DOMAIN apcs' /\ apcs'[i - 1] = apcs[i]
    BY <2>1, <2>3, PopApc
  <2>4. /\ \A i \in DOMAIN changes : i \in DOMAIN changes' /\ changes'[i] = changes[i]
        /\ \E i \in DOMAIN changes' : changes'[i] = e
    BY <2>2, PushItem
  <2>5. \A m \in Names \ {n} : HasRequest(m) => HasRequest(m)'
    <3> SUFFICES ASSUME NEW m \in Names \ {n}, HasRequest(m) PROVE HasRequest(m)'
      OBVIOUS
    <3>1. CASE m \in pending
      BY <1>8, <3>1 DEF HasRequest, NotifyCallback
    <3>2. CASE \E i \in DOMAIN changes : changes[i].name = m
      BY <2>4, <3>2 DEF HasRequest
    <3>3. ASSUME NEW i \in DOMAIN apcs, apcs[i] = m PROVE HasRequest(m)'
      BY <2>1, <2>3, <3>3 DEF HasRequest
    <3> QED
      BY <3>1, <3>2, <3>3 DEF HasRequest
  <2>6. HasRequest(n)'
    BY <2>2, <2>4 DEF HasRequest
  <2> QED
    BY <1>8, <2>5, <2>6 DEF NotifyCallback, AfterApc, Alertable, Usable
<1>9. ASSUME NEW n \in Names, ScmNotifies(n) PROVE Watched'
  <2>1. \A m \in Names : HasRequest(m) => HasRequest(m)'
    BY <1>9, PushApc DEF ScmNotifies, HasRequest
  <2>2. \A m \in Names : buffer'[m].status # "error"
    <3>1. PICK r \in [status : Statuses, state : States \cup {0}] :
            r.status # "error" /\ buffer' = [buffer EXCEPT ![n] = r]
      BY <1>9 DEF ScmNotifies
    <3> QED
      BY <3>1
  <2> QED
    BY <1>9, <2>1, <2>2 DEF ScmNotifies, Usable
<1>10. ASSUME NEW n \in Names, TeardownService(n) PROVE Watched'
  BY <1>10 DEF TeardownService
<1>11. ~SeedThrows /\ ~NotifyCallbackThrows
  BY DEF SeedThrows, NotifyCallbackThrows
<1> QED
  BY <1>2, <1>3, <1>5, <1>6, <1>7, <1>8, <1>9, <1>10, <1>11
     DEF Next, Worker, WaitExit, WaitFailed

\* A request of any kind is counted.
LEMMA WatchedMeans == IInv /\ Watched => OpenServiceIsWatched
<1> SUFFICES ASSUME IInv, Watched, InLoop, NEW n \in Names, Usable(n)
             PROVE  Requests(n) > 0
  BY DEF OpenServiceIsWatched
<1> DEFINE C == {i \in DOMAIN changes : changes[i].name = n}
           A == {i \in DOMAIN apcs : apcs[i] = n}
<1>1. /\ DOMAIN changes = 1 .. Len(changes) /\ Len(changes) \in Nat
      /\ DOMAIN apcs = 1 .. Len(apcs) /\ Len(apcs) \in Nat
  BY DEF IInv, TypeOK
<1>2. IsFiniteSet(C) /\ IsFiniteSet(A)
  <2>1. IsFiniteSet(1 .. Len(changes)) /\ IsFiniteSet(1 .. Len(apcs))
    BY <1>1, FS_Interval
  <2>2. C \subseteq 1 .. Len(changes) /\ A \subseteq 1 .. Len(apcs)
    BY <1>1
  <2> QED
    BY <2>1, <2>2, FS_Subset
<1>3. Cardinality(C) \in Nat /\ Cardinality(A) \in Nat
  BY <1>2, FS_CardinalityType
<1>4. n \in pending \/ C # {} \/ A # {}
  BY DEF Watched, HasRequest, InLoop
<1>5. (C # {} => Cardinality(C) # 0) /\ (A # {} => Cardinality(A) # 0)
  BY <1>2, FS_EmptySet
<1> HIDE DEF C, A
<1>6. Cardinality(C) + (IF n \in pending THEN 1 ELSE 0) + Cardinality(A) > 0
  BY <1>3, <1>4, <1>5
<1> QED
  BY <1>6 DEF Requests, C, A

\* As long as the worker listens, an open service has a request under way: if no
\* call fails and names are read back whole (sscn.cpp:180).
THEOREM OpenIsWatched ==
  ASSUME Faults = {}, \A n \in Names : Reported[n] = n
  PROVE  Spec => []OpenServiceIsWatched
<1>1. Init => Watched
  BY DEF Init, Entered, Watched, Usable
<1>2. IInv /\ Watched /\ [Next]_vars => Watched'
  BY WatchedKeeps
<1>3. IInv /\ Watched => OpenServiceIsWatched
  BY WatchedMeans
<1> QED
  BY <1>1, <1>2, <1>3, MonitorInvariant, PTL DEF Spec

-----------------------------------------------------------------------------
(* A service has one request under way *)

\* The names that stand for a service: its own and the one read back for it.
Belongs(x, n) == x = n \/ x = Reported[n]

\* No name stands for two elements of a list.
ReadApart(l) ==
  \A i, j \in DOMAIN l :
    l[i] = l[j] \/ l[i] = Reported[l[j]] \/ Reported[l[i]] = Reported[l[j]] => i = j

Listed == \A n \in mapped : \E k \in DOMAIN list : k < next /\ list[k] = n

Attributed ==
  /\ pending \subseteq mapped
  /\ \A i \in DOMAIN apcs : apcs[i] \in mapped
  /\ \A i \in DOMAIN changes : \E n \in mapped : Belongs(changes[i].name, n)

OneItem ==
  \A n \in mapped : \A i, j \in DOMAIN changes :
    Belongs(changes[i].name, n) /\ Belongs(changes[j].name, n) => i = j

OneApc ==
  /\ \A i, j \in DOMAIN apcs : apcs[i] = apcs[j] => i = j
  /\ \A n \in pending : \A i \in DOMAIN apcs : apcs[i] # n

\* A service with an item in the list is neither registered nor notified.
Exclusive ==
  \A n \in mapped : \A j \in DOMAIN changes :
    Belongs(changes[j].name, n) =>
      n \notin pending /\ \A i \in DOMAIN apcs : apcs[i] # n

Alone == Listed /\ Attributed /\ OneItem /\ OneApc /\ Exclusive

\* A name belongs to one service.
LEMMA OneService ==
  ASSUME \A l \in Lists : ReadApart(l), IInv, Alone,
         NEW n \in mapped, NEW m \in mapped, NEW x, Belongs(x, n), Belongs(x, m)
  PROVE  n = m
<1>1. PICK i \in DOMAIN list : list[i] = n
  BY DEF Alone, Listed
<1>2. PICK j \in DOMAIN list : list[j] = m
  BY DEF Alone, Listed
<1>3. ReadApart(list)
  BY DEF IInv, TypeOK
<1> QED
  BY <1>1, <1>2, <1>3 DEF ReadApart, Belongs

\* Requests may go away.
LEMMA AloneShrinks ==
  ASSUME IInv, Alone, UNCHANGED <<list, next, mapped>>, pending' \subseteq pending,
         changes' = changes \/ (changes # <<>> /\ changes' = Tail(changes)),
         apcs' = apcs \/ (apcs # <<>> /\ apcs' = Tail(apcs))
  PROVE  Alone'
<1> USE DEF IInv, TypeOK
<1>1. PICK c \in {0, 1} :
        \A i \in DOMAIN changes' :
          i \in Nat /\ i + c \in DOMAIN changes /\ changes'[i] = changes[i + c]
  <2>1. DOMAIN changes = 1 .. Len(changes)
    OBVIOUS
  <2>2. CASE changes' = changes
    <3>1. \A i \in DOMAIN changes : i \in Nat /\ i + 0 = i
      BY <2>1
    <3> QED
      BY <2>2, <3>1
  <2>3. CASE changes # <<>> /\ changes' = Tail(changes)
    BY <2>3, PopItem
  <2> QED
    BY <2>2, <2>3
<1>2. PICK a \in {0, 1} :
        \A i \in DOMAIN apcs' :
          i \in Nat /\ i + a \in DOMAIN apcs /\ apcs'[i] = apcs[i + a]
  <2>1. DOMAIN apcs = 1 .. Len(apcs)
    OBVIOUS
  <2>2. CASE apcs' = apcs
    <3>1. \A i \in DOMAIN apcs : i \in Nat /\ i + 0 = i
      BY <2>1
    <3> QED
      BY <2>2, <3>1
  <2>3. CASE apcs # <<>> /\ apcs' = Tail(apcs)
    BY <2>3, PopApc
  <2> QED
    BY <2>2, <2>3
<1>3. \A i, j \in Nat : (i + c = j + c \/ i + a = j + a) => i = j
  OBVIOUS
<1>4. Listed'
  BY DEF Alone, Listed
<1>5. Attributed'
  BY <1>1, <1>2 DEF Alone, Attributed
<1>6. OneItem'
  <2> SUFFICES ASSUME NEW n \in mapped, NEW i \in DOMAIN changes', NEW j \in DOMAIN changes',
                      Belongs(changes'[i].name, n), Belongs(changes'[j].name, n)
               PROVE  i = j
    BY DEF OneItem, Belongs
  <2>1. i + c = j + c
    BY <1>1 DEF Alone, OneItem
  <2> QED
    BY <1>1, <1>3, <2>1
<1>7. OneApc'
  BY <1>2, <1>3 DEF Alone, OneApc
<1>8. Exclusive'
  BY <1>1, <1>2 DEF Alone, Exclusive
<1> QED
  BY <1>4, <1>5, <1>6, <1>7, <1>8 DEF Alone

\* The next service of the list is opened.
LEMMA SeedAlone ==
  ASSUME \A l \in Lists : ReadApart(l), IInv, Alone, SeedService
  PROVE  Alone'
<1> USE ListsAssumption DEF IInv, TypeOK, SeedService
<1>1. next \in DOMAIN list /\ list[next] \in Names /\ ReadApart(list)
  OBVIOUS
<1>2. PICK x \in Names : x = list[next]
  BY <1>1
<1>3. \A n \in mapped, y \in {x, Reported[x]} : ~Belongs(y, n)
  BY <1>1, <1>2 DEF Alone, Listed, ReadApart, Belongs
<1>4. ASSUME NEW i \in DOMAIN changes PROVE ~Belongs(changes[i].name, x)
  <2>1. PICK n \in mapped : Belongs(changes[i].name, n)
    BY DEF Alone, Attributed
  <2>2. PICK k \in DOMAIN list : k < next /\ list[k] = n
    BY DEF Alone, Listed
  <2> QED
    BY <1>1, <1>2, <2>1, <2>2 DEF ReadApart, Belongs
<1>5. mapped' = mapped \cup {x} /\ next' = next + 1 /\ pending = {} /\ apcs = <<>>
  BY <1>2 DEF Seeding
<1>6. Listed'
  BY <1>1, <1>2, <1>5 DEF Alone, Listed
<1>7. OneApc' /\ Exclusive'
  BY <1>5 DEF OneApc, Exclusive
<1>8. CASE changes' = changes
  <2>1. Attributed' /\ OneItem'
    BY <1>4, <1>5, <1>8 DEF Alone, Attributed, OneItem
  <2> QED
    BY <1>6, <1>7, <2>1 DEF Alone
<1>9. CASE changes' = Append(changes, Seed(x))
  <2>1. Seed(x) \in Entries
    OBVIOUS
  <2>2. /\ \A i \in DOMAIN changes : i \in DOMAIN changes' /\ changes'[i] = changes[i]
        /\ \A i \in DOMAIN changes' : i \in DOMAIN changes \/ changes'[i] = Seed(x)
        /\ \A i \in DOMAIN changes' \ DOMAIN changes : i = Len(changes) + 1
    BY <1>9, <2>1, PushItem
  <2>3. Seed(x).name = x /\ Belongs(x, x)
    BY DEF Belongs
  <2>4. Attributed'
    BY <1>5, <2>2, <2>3 DEF Alone, Attributed
  <2>5. ASSUME NEW i \in DOMAIN changes', NEW n \in mapped', Belongs(changes'[i].name, n)
        PROVE  n = x <=> i \notin DOMAIN changes
    BY <1>3, <1>4, <1>5, <2>2, <2>3, <2>5
  <2>6. ASSUME NEW n \in mapped', NEW i \in DOMAIN changes', NEW j \in DOMAIN changes',
               Belongs(changes'[i].name, n), Belongs(changes'[j].name, n)
        PROVE  i = j
    <3>1. CASE n = x
      BY <2>2, <2>5, <2>6, <3>1
    <3>2. CASE n # x
      <4>1. i \in DOMAIN changes /\ j \in DOMAIN changes /\ n \in mapped
        BY <1>5, <2>5, <2>6, <3>2
      <4> QED
        BY <2>2, <2>6, <4>1 DEF Alone, OneItem
    <3> QED
      BY <3>1, <3>2
  <2>7. OneItem'
    BY <2>6 DEF OneItem, Belongs
  <2> QED
    BY <1>6, <1>7, <2>4, <2>7 DEF Alone
<1> QED
  BY <1>2, <1>8, <1>9

\* A service is registered: its item was its only request.
LEMMA SubscribeAlone ==
  ASSUME IInv, Alone, Subscribe
  PROVE  Alone'
<1> USE DEF IInv, TypeOK
<1>1. /\ changes # <<>> /\ changes' = Tail(changes)
      /\ Item = changes[1] /\ changes[1] \in Entries
  BY PopItem DEF Subscribe, AtFront, PopFront, Item
<1>2. PICK x \in Names : x = changes[1].name
  BY <1>1
<1>3. /\ x \in mapped /\ pending' \in {pending, pending \cup {x}}
      /\ UNCHANGED <<list, next, mapped, apcs>>
  BY <1>1, <1>2 DEF Subscribe, Usable
<1>4. \A i \in DOMAIN changes' :
        i \in Nat \ {0} /\ i + 1 \in DOMAIN changes /\ changes'[i] = changes[i + 1]
  BY <1>1, PopItem
<1>5. 1 \in DOMAIN changes /\ \A i, j \in Nat : i + 1 = j + 1 => i = j
  BY <1>1, PopItem
<1>6. \A i \in DOMAIN changes' : ~Belongs(changes'[i].name, x)
  BY <1>2, <1>3, <1>4, <1>5 DEF Alone, OneItem, Belongs
<1>7. \A i \in DOMAIN apcs : apcs[i] # x
  BY <1>2, <1>3, <1>5 DEF Alone, Exclusive, Belongs
<1>8. Listed' /\ Attributed'
  BY <1>3, <1>4 DEF Alone, Listed, Attributed
<1>9. OneItem'
  <2> SUFFICES ASSUME NEW m \in mapped, NEW i \in DOMAIN changes', NEW j \in DOMAIN changes',
                      Belongs(changes'[i].name, m), Belongs(changes'[j].name, m)
               PROVE  i = j
    BY <1>3 DEF OneItem, Belongs
  <2>1. i + 1 = j + 1
    BY <1>4 DEF Alone, OneItem
  <2> QED
    BY <1>4, <1>5, <2>1
<1>10. OneApc'
  BY <1>3, <1>7 DEF Alone, OneApc
<1>11. Exclusive'
  BY <1>3, <1>4, <1>6 DEF Alone, Exclusive
<1> QED
  BY <1>8, <1>9, <1>10, <1>11 DEF Alone

\* A registration ends in the APC queue.
LEMMA ScmAlone ==
  ASSUME IInv, Alone, NEW n \in Names, ScmNotifies(n)
  PROVE  Alone'
<1> USE DEF IInv, TypeOK
<1>1. /\ n \in pending /\ pending' = pending \ {n} /\ apcs' = Append(apcs, n)
      /\ UNCHANGED <<list, next, mapped, changes>>
  BY DEF ScmNotifies
<1>2. /\ \A i \in DOMAIN apcs : i \in DOMAIN apcs' /\ apcs'[i] = apcs[i]
      /\ \A i \in DOMAIN apcs' : i \in DOMAIN apcs \/ apcs'[i] = n
      /\ \A i \in DOMAIN apcs' \ DOMAIN apcs : i = Len(apcs) + 1
  BY <1>1, PushApc
<1>3. Listed' /\ Attributed' /\ OneItem'
  BY <1>1, <1>2 DEF Alone, Listed, Attributed, OneItem
<1>4. OneApc' /\ Exclusive'
  BY <1>1, <1>2 DEF Alone, Attributed, OneApc, Exclusive
<1> QED
  BY <1>3, <1>4 DEF Alone

\* An APC ends in the list.
LEMMA CallbackAlone ==
  ASSUME \A l \in Lists : ReadApart(l), IInv, Alone, NotifyCallback
  PROVE  Alone'
<1> USE ReportedAssumption DEF IInv, TypeOK
<1>1. PICK n \in mapped : n = apcs[1]
  BY PopApc DEF NotifyCallback, Alone, Attributed
<1>2. /\ apcs # <<>> /\ apcs' = Tail(apcs) /\ Head(apcs) = n
      /\ UNCHANGED <<list, next, mapped, pending>>
  BY <1>1, PopApc DEF NotifyCallback
<1>3. CASE changes' = changes
  BY <1>2, <1>3, AloneShrinks
<1>4. ASSUME NEW e \in Entries, e.name = Reported[n], changes' = Append(changes, e)
      PROVE  Alone'
  <2>1. /\ \A i \in DOMAIN changes : i \in DOMAIN changes' /\ changes'[i] = changes[i]
        /\ \A i \in DOMAIN changes' : i \in DOMAIN changes \/ changes'[i] = e
        /\ \A i \in DOMAIN changes' \ DOMAIN changes : i = Len(changes) + 1
    BY <1>4, PushItem
  <2>2. \A i \in DOMAIN apcs' :
          i \in Nat \ {0} /\ i + 1 \in DOMAIN apcs /\ apcs'[i] = apcs[i + 1]
    BY <1>2, PopApc
  <2>3. 1 \in DOMAIN apcs /\ \A i, j \in Nat : i + 1 = j + 1 => i = j
    BY <1>2, PopApc
  <2>4. \A m \in mapped : Belongs(e.name, m) <=> m = n
    BY <1>4, OneService DEF Belongs
  <2>5. \A i \in DOMAIN changes : ~Belongs(changes[i].name, n)
    BY <1>1, <2>3 DEF Alone, Exclusive
  <2>6. n \notin pending /\ \A i \in DOMAIN apcs' : apcs'[i] # n
    BY <1>1, <2>2, <2>3 DEF Alone, OneApc
  <2>7. Listed' /\ Attributed'
    <3>1. \A i \in DOMAIN changes' : \E m \in mapped : Belongs(changes'[i].name, m)
      BY <2>1, <2>4 DEF Alone, Attributed
    <3>2. \A i \in DOMAIN apcs' : apcs'[i] \in mapped
      BY <2>2 DEF Alone, Attributed
    <3> QED
      BY <1>2, <3>1, <3>2 DEF Alone, Listed, Attributed, Belongs
  <2>8. \A i \in DOMAIN changes', m \in mapped :
          Belongs(changes'[i].name, m) => (m = n <=> i \notin DOMAIN changes)
    BY <2>1, <2>4, <2>5
  <2>9. OneItem'
    BY <1>2, <2>1, <2>8 DEF Alone, OneItem
  <2>10. Exclusive'
    BY <1>2, <2>1, <2>2, <2>6, <2>8 DEF Alone, Exclusive
  <2>11. OneApc'
    <3>1. \A i, j \in DOMAIN apcs' : apcs'[i] = apcs'[j] => i = j
      BY <2>2, <2>3 DEF Alone, OneApc
    <3>2. \A m \in pending' : \A i \in DOMAIN apcs' : apcs'[i] # m
      BY <1>2, <2>2 DEF Alone, OneApc
    <3> QED
      BY <3>1, <3>2 DEF OneApc
  <2> QED
    BY <2>7, <2>9, <2>10, <2>11 DEF Alone
<1>5. \/ changes' = changes
      \/ \E e \in Entries : e.name = Reported[n] /\ changes' = Append(changes, e)
  <2>1. \/ Taken(n) = <<>>
        \/ \E e \in Entries : e.name = Reported[n] /\ Taken(n) = <<e>>
    BY DEF Taken
  <2>2. changes' = changes \o Taken(n) /\ changes \in Seq(Entries)
    BY <1>2 DEF NotifyCallback
  <2>3. CASE Taken(n) = <<>>
    BY <2>2, <2>3
  <2>4. ASSUME NEW e \in Entries, e.name = Reported[n], Taken(n) = <<e>>
        PROVE  changes' = Append(changes, e)
    <3>1. changes' = changes \o <<e>>
      BY <2>2, <2>4
    <3> QED
      BY <2>2, <3>1, ConcatElement
  <2> QED
    BY <2>1, <2>3, <2>4
<1> QED
  BY <1>3, <1>4, <1>5

\* Every step keeps the requests of the services apart.
LEMMA AloneKeeps ==
  ASSUME \A l \in Lists : ReadApart(l), IInv, Alone, [Next]_vars
  PROVE  Alone'
<1>1. CASE \/ OpenScm \/ SeedThrows \/ SeedDone \/ Dispatch \/ ActionReturns \/ StartWait
           \/ WaitIoCompletion \/ LeaveLoop \/ RunReturns \/ SignalExit \/ UNCHANGED vars
  <2>1. UNCHANGED <<list, next, mapped, pending, changes, apcs>>
    BY <1>1 DEF OpenScm, SeedThrows, SeedDone, Dispatch, ActionReturns, StartWait,
       WaitIoCompletion, LeaveLoop, RunReturns, SignalExit, vars
  <2> QED
    BY <2>1, AloneShrinks
<1>2. CASE FinishDeleted \/ SubscribeSkips
  <2>1. /\ UNCHANGED <<list, next, mapped, apcs>> /\ pending' \subseteq pending
        /\ changes # <<>> /\ changes' = Tail(changes)
    BY <1>2 DEF FinishDeleted, SubscribeSkips, CloseService, PopFront, AtFront, IInv, TypeOK
  <2> QED
    BY <2>1, AloneShrinks
<1>3. CASE NotifyCallbackThrows
  BY <1>3, AloneShrinks DEF NotifyCallbackThrows
<1>4. ASSUME NEW n \in Names, TeardownService(n) PROVE Alone'
  BY <1>4, AloneShrinks DEF TeardownService, CloseService
<1> QED
  BY <1>1, <1>2, <1>3, <1>4, SeedAlone, SubscribeAlone, ScmAlone, CallbackAlone
     DEF Next, Worker, WaitExit, WaitFailed

\* Kept apart, the requests of a service count to one.
LEMMA AloneMeans == IInv /\ Alone => OneRequest
<1> SUFFICES ASSUME IInv, Alone, NEW x \in Names PROVE Requests(x) <= 1
  BY DEF OneRequest
<1> DEFINE C == {i \in DOMAIN changes : changes[i].name = x}
           A == {i \in DOMAIN apcs : apcs[i] = x}
<1>1. C = {} \/ \E i : C = {i}
  <2>1. \A i, j \in C : i = j
    BY DEF Alone, Attributed, OneItem
  <2> QED
    BY <2>1
<1>2. A = {} \/ \E i : A = {i}
  <2>1. \A i, j \in A : i = j
    BY DEF Alone, OneApc
  <2> QED
    BY <2>1
<1>3. C # {} => x \notin pending /\ A = {}
  BY DEF Alone, Attributed, Exclusive, Belongs
<1>4. x \in pending => A = {}
  BY DEF Alone, OneApc
<1> HIDE DEF C, A
<1>5. Cardinality(C) = IF C = {} THEN 0 ELSE 1
  BY <1>1, FS_EmptySet, FS_Singleton
<1>6. Cardinality(A) = IF A = {} THEN 0 ELSE 1
  BY <1>2, FS_EmptySet, FS_Singleton
<1>7. Cardinality(C) + (IF x \in pending THEN 1 ELSE 0) + Cardinality(A) <= 1
  BY <1>3, <1>4, <1>5, <1>6
<1> QED
  BY <1>7 DEF Requests, C, A

\* At most one list item, registration or queued APC concerns a service, so its
\* notify_buffer is never cleared while somebody else uses it: if no service is
\* listed twice and no name read back is that of another one
\* (sscn.cpp:122-131).
THEOREM OneRequestEach ==
  ASSUME \A l \in Lists : ReadApart(l)
  PROVE  Spec => []OneRequest
<1>1. Init => Alone
  BY DEF Init, Entered, Alone, Listed, Attributed, OneItem, OneApc, Exclusive
<1>2. IInv /\ Alone /\ [Next]_vars => Alone'
  BY AloneKeeps
<1>3. IInv /\ Alone => OneRequest
  BY AloneMeans
<1> QED
  BY <1>1, <1>2, <1>3, MonitorInvariant, PTL DEF Spec
=============================================================================
