------------------------ MODULE NotificationRelayProofs ------------------------
(***************************************************************************)
(* ServiceMonitor implements the safety part of NotificationRelay.          *)
(*                                                                         *)
(* The argument: the changes among the unhanded items of the list can be    *)
(* numbered so that the n-th accepted one has number n, the numbers grow    *)
(* along the list, and they are exactly those that follow the last one      *)
(* handed over.  An item for a mere subscription has no place in this       *)
(* order, wherever in the list it is.                                       *)
(***************************************************************************)
EXTENDS ServiceMonitorProofs

\* What the action function is told about an item.
Passed(e) == [name |-> e.name, state |-> e.state]

\* num numbers the changes of the list u, when n of the accepted ones were
\* handed over.
Numbers(num, u, n, took) ==
  /\ \A i \in DOMAIN u : IsChange(u[i]) =>
       num[i] \in n + 1 .. Len(took) /\ took[num[i]] = Passed(u[i])
  /\ \A i, j \in DOMAIN u : IsChange(u[i]) /\ IsChange(u[j]) /\ i < j => num[i] < num[j]
  /\ \A k \in n + 1 .. Len(took) : \E i \in DOMAIN u : IsChange(u[i]) /\ num[i] = k

\* nums numbers what is left of u without its first item, which num gave a number.
NumbersRest(nums, num, u, n, took) ==
  /\ \A i \in DOMAIN Tail(u) : IsChange(Tail(u)[i]) =>
       nums[i] \in n + 1 .. Len(took) /\ took[nums[i]] = Passed(Tail(u)[i])
  /\ \A i, j \in DOMAIN Tail(u) :
       IsChange(Tail(u)[i]) /\ IsChange(Tail(u)[j]) /\ i < j => nums[i] < nums[j]
  /\ \A i \in DOMAIN Tail(u) : IsChange(Tail(u)[i]) /\ IsChange(u[1]) => num[1] < nums[i]
  /\ \A k \in n + 1 .. Len(took) :
       \/ IsChange(u[1]) /\ num[1] = k
       \/ \E i \in DOMAIN Tail(u) : IsChange(Tail(u)[i]) /\ nums[i] = k

Kept(u, n, took) == \E num \in [DOMAIN u -> Nat] : Numbers(num, u, n, took)

\* The item that the action function is called for was handed over already.
Unhanded == IF pc \in {"action", "after"} THEN Tail(changes) ELSE changes

Ordered ==
  /\ Len(handed) <= Len(accepted)
  /\ \A k \in DOMAIN handed : handed[k] = accepted[k]
  /\ IF hasAction THEN Kept(Unhanded, Len(handed), accepted) ELSE accepted = <<>>

-----------------------------------------------------------------------------
(* The numbers follow the list *)

\* The first item is popped: the others keep their numbers.
LEMMA NumbersTail ==
  ASSUME NEW u \in Seq(Entries), u # <<>>, NEW n \in Nat, NEW took \in Seq(Reports),
         NEW num \in [DOMAIN u -> Nat], Numbers(num, u, n, took)
  PROVE  \E nums \in [DOMAIN Tail(u) -> Nat] : NumbersRest(nums, num, u, n, took)
<1> DEFINE nums == [i \in DOMAIN Tail(u) |-> num[i + 1]]
<1>1. /\ \A i \in DOMAIN Tail(u) : i + 1 \in DOMAIN u /\ Tail(u)[i] = u[i + 1] /\ i \in Nat \ {0}
      /\ \A i \in DOMAIN u \ {1} : i - 1 \in DOMAIN Tail(u) /\ Tail(u)[i - 1] = u[i]
      /\ 1 \in DOMAIN u
  BY TailElements
<1>2. nums \in [DOMAIN Tail(u) -> Nat] /\ \A i \in DOMAIN Tail(u) : nums[i] = num[i + 1]
  BY <1>1
<1> HIDE DEF nums
<1>3. ASSUME NEW i \in DOMAIN Tail(u), IsChange(Tail(u)[i])
      PROVE  nums[i] \in n + 1 .. Len(took) /\ took[nums[i]] = Passed(Tail(u)[i])
  BY <1>1, <1>2, <1>3 DEF Numbers
<1>4. ASSUME NEW i \in DOMAIN Tail(u), NEW j \in DOMAIN Tail(u),
             IsChange(Tail(u)[i]), IsChange(Tail(u)[j]), i < j
      PROVE  nums[i] < nums[j]
  <2>1. i + 1 < j + 1 /\ IsChange(u[i + 1]) /\ IsChange(u[j + 1])
    BY <1>1, <1>4
  <2>2. num[i + 1] < num[j + 1]
    BY <1>1, <2>1 DEF Numbers
  <2> QED
    BY <1>2, <2>2
<1>5. ASSUME NEW i \in DOMAIN Tail(u), IsChange(Tail(u)[i]), IsChange(u[1])
      PROVE  num[1] < nums[i]
  <2>1. 1 < i + 1 /\ IsChange(u[i + 1])
    BY <1>1, <1>5
  <2>2. num[1] < num[i + 1]
    BY <1>1, <1>5, <2>1 DEF Numbers
  <2> QED
    BY <1>2, <2>2
<1>6. ASSUME NEW k \in n + 1 .. Len(took), ~(IsChange(u[1]) /\ num[1] = k)
      PROVE  \E i \in DOMAIN Tail(u) : IsChange(Tail(u)[i]) /\ nums[i] = k
  <2>1. PICK j \in DOMAIN u : IsChange(u[j]) /\ num[j] = k
    BY DEF Numbers
  <2>2. j \in DOMAIN u \ {1} /\ j \in Nat
    BY <1>6, <2>1
  <2>3. j - 1 \in DOMAIN Tail(u) /\ Tail(u)[j - 1] = u[j] /\ (j - 1) + 1 = j
    BY <1>1, <2>2
  <2> QED
    BY <1>2, <2>1, <2>3
<1> QED
  BY <1>2, <1>3, <1>4, <1>5, <1>6 DEF NumbersRest

\* A subscription is popped: all changes keep their numbers.
LEMMA KeptPops ==
  ASSUME NEW u \in Seq(Entries), u # <<>>, ~IsChange(u[1]),
         NEW n \in Nat, NEW took \in Seq(Reports), Kept(u, n, took)
  PROVE  Kept(Tail(u), n, took)
<1>1. PICK num \in [DOMAIN u -> Nat] : Numbers(num, u, n, took)
  BY DEF Kept
<1>2. PICK nums \in [DOMAIN Tail(u) -> Nat] : NumbersRest(nums, num, u, n, took)
  BY <1>1, NumbersTail
<1>3. Numbers(nums, Tail(u), n, took)
  BY <1>2 DEF Numbers, NumbersRest
<1> QED
  BY <1>3 DEF Kept

\* The first change in the list is the one accepted after those handed over.
LEMMA KeptHands ==
  ASSUME NEW u \in Seq(Entries), u # <<>>, IsChange(u[1]),
         NEW n \in Nat, NEW took \in Seq(Reports), Kept(u, n, took)
  PROVE  n < Len(took) /\ took[n + 1] = Passed(u[1]) /\ Kept(Tail(u), n + 1, took)
<1>1. PICK num \in [DOMAIN u -> Nat] : Numbers(num, u, n, took)
  BY DEF Kept
<1>2. 1 \in DOMAIN u /\ Len(took) \in Nat
  BY TailElements
<1>3. num[1] \in n + 1 .. Len(took) /\ took[num[1]] = Passed(u[1])
  BY <1>1, <1>2 DEF Numbers
<1>4. PICK nums \in [DOMAIN Tail(u) -> Nat] : NumbersRest(nums, num, u, n, took)
  BY <1>1, NumbersTail
<1>5. num[1] = n + 1
  <2>1. n + 1 \in n + 1 .. Len(took)
    BY <1>2, <1>3
  <2>2. \A i \in DOMAIN Tail(u) : IsChange(Tail(u)[i]) => n + 1 < nums[i]
    BY <1>3, <1>4 DEF NumbersRest
  <2> QED
    BY <1>4, <2>1, <2>2 DEF NumbersRest
<1>6. Numbers(nums, Tail(u), n + 1, took)
  <2>1. ASSUME NEW i \in DOMAIN Tail(u), IsChange(Tail(u)[i])
        PROVE  nums[i] \in (n + 1) + 1 .. Len(took) /\ took[nums[i]] = Passed(Tail(u)[i])
    <3>1. nums[i] \in n + 1 .. Len(took) /\ n + 1 < nums[i] /\ took[nums[i]] = Passed(Tail(u)[i])
      BY <1>4, <1>5, <2>1 DEF NumbersRest
    <3> QED
      BY <1>2, <3>1
  <2>2. ASSUME NEW k \in (n + 1) + 1 .. Len(took)
        PROVE  \E i \in DOMAIN Tail(u) : IsChange(Tail(u)[i]) /\ nums[i] = k
    <3>1. k \in n + 1 .. Len(took) /\ k # n + 1
      BY <1>2, <2>2
    <3> QED
      BY <1>4, <1>5, <3>1 DEF NumbersRest
  <2> QED
    BY <1>4, <2>1, <2>2 DEF Numbers, NumbersRest
<1> QED
  BY <1>2, <1>3, <1>5, <1>6 DEF Kept

\* A subscription is appended.
LEMMA KeptSubscribes ==
  ASSUME NEW u \in Seq(Entries), NEW e \in Entries, ~IsChange(e),
         NEW n \in Nat, NEW took \in Seq(Reports), Kept(u, n, took)
  PROVE  Kept(Append(u, e), n, took)
<1>1. PICK num \in [DOMAIN u -> Nat] : Numbers(num, u, n, took)
  BY DEF Kept
<1> DEFINE v == Append(u, e)
           nums == [i \in DOMAIN v |-> IF i \in DOMAIN u THEN num[i] ELSE 0]
<1>2. /\ \A i \in DOMAIN u : i \in DOMAIN v /\ v[i] = u[i]
      /\ \A i \in DOMAIN v : i \in DOMAIN u \/ v[i] = e
  BY AppendElements
<1> HIDE DEF v
<1>3. nums \in [DOMAIN v -> Nat] /\ \A i \in DOMAIN u : nums[i] = num[i]
  BY <1>2
<1> HIDE DEF nums
<1>4. \A i \in DOMAIN v : IsChange(v[i]) => i \in DOMAIN u /\ IsChange(u[i])
  BY <1>2
<1>5. Numbers(nums, v, n, took)
  BY <1>1, <1>2, <1>3, <1>4 DEF Numbers
<1> QED
  BY <1>3, <1>5 DEF Kept, v

\* An accepted change is appended to both lists.
LEMMA KeptAccepts ==
  ASSUME NEW u \in Seq(Entries), NEW e \in Entries, IsChange(e), Passed(e) \in Reports,
         NEW n \in Nat, NEW took \in Seq(Reports), n <= Len(took), Kept(u, n, took)
  PROVE  Kept(Append(u, e), n, Append(took, Passed(e)))
<1>1. PICK num \in [DOMAIN u -> Nat] : Numbers(num, u, n, took)
  BY DEF Kept
<1> DEFINE v == Append(u, e)
           more == Append(took, Passed(e))
           last == Len(u) + 1
           nums == [i \in DOMAIN v |-> IF i \in DOMAIN u THEN num[i] ELSE Len(took) + 1]
<1>2. /\ \A i \in DOMAIN u : i \in DOMAIN v /\ v[i] = u[i] /\ i < last
      /\ \A i \in DOMAIN v : i \in DOMAIN u \/ i = last
      /\ last \in DOMAIN v /\ v[last] = e /\ last \notin DOMAIN u
      /\ DOMAIN v \subseteq Nat
  BY AppendElements
<1>3. /\ Len(took) \in Nat /\ Len(more) = Len(took) + 1 /\ more[Len(took) + 1] = Passed(e)
      /\ \A k \in 1 .. Len(took) : more[k] = took[k]
  BY AppendElements
<1> HIDE DEF v, more, last
<1>4. /\ nums \in [DOMAIN v -> Nat] /\ nums[last] = Len(took) + 1
      /\ \A i \in DOMAIN u : nums[i] = num[i]
  BY <1>2, <1>3
<1> HIDE DEF nums
<1>5. ASSUME NEW i \in DOMAIN v, IsChange(v[i])
      PROVE  nums[i] \in n + 1 .. Len(more) /\ more[nums[i]] = Passed(v[i])
  <2>1. CASE i \in DOMAIN u
    <3>1. num[i] \in n + 1 .. Len(took) /\ took[num[i]] = Passed(u[i])
      BY <1>1, <1>2, <1>5, <2>1 DEF Numbers
    <3> QED
      BY <1>2, <1>3, <1>4, <2>1, <3>1
  <2>2. CASE i = last
    BY <1>2, <1>3, <1>4, <2>2
  <2> QED
    BY <1>2, <2>1, <2>2
<1>6. ASSUME NEW i \in DOMAIN v, NEW j \in DOMAIN v, IsChange(v[i]), IsChange(v[j]), i < j
      PROVE  nums[i] < nums[j]
  <2>1. i \in DOMAIN u
    <3>1. CASE j \in DOMAIN u
      BY <1>2, <1>6, <3>1
    <3>2. CASE j = last
      BY <1>2, <1>6, <3>2
    <3> QED
      BY <1>2, <3>1, <3>2
  <2>2. CASE j \in DOMAIN u
    <3>1. num[i] < num[j]
      BY <1>1, <1>2, <1>6, <2>1, <2>2 DEF Numbers
    <3> QED
      BY <1>4, <2>1, <2>2, <3>1
  <2>3. CASE j = last
    <3>1. num[i] \in n + 1 .. Len(took)
      BY <1>1, <1>2, <1>6, <2>1 DEF Numbers
    <3> QED
      BY <1>3, <1>4, <2>1, <2>3, <3>1
  <2> QED
    BY <1>2, <2>2, <2>3
<1>7. ASSUME NEW k \in n + 1 .. Len(more)
      PROVE  \E i \in DOMAIN v : IsChange(v[i]) /\ nums[i] = k
  <2>1. CASE k = Len(took) + 1
    BY <1>2, <1>4, <2>1
  <2>2. CASE k # Len(took) + 1
    <3>1. k \in n + 1 .. Len(took)
      BY <1>3, <2>2
    <3>2. PICK i \in DOMAIN u : IsChange(u[i]) /\ num[i] = k
      BY <1>1, <3>1 DEF Numbers
    <3> QED
      BY <1>2, <1>4, <3>2
  <2> QED
    BY <2>1, <2>2
<1>8. Numbers(nums, v, n, more)
  BY <1>5, <1>6, <1>7 DEF Numbers
<1> QED
  BY <1>4, <1>8 DEF Kept, v, more

-----------------------------------------------------------------------------
(* Every step of Run() is one of the relay or none *)

\* A step that hands over and accepts nothing: an item is popped or appended that
\* is not a change, if anything is.
LEMMA QuietSteps ==
  ASSUME IInv, Ordered, UNCHANGED <<hasAction, accepted, handed>>,
         \/ ~hasAction
         \/ Unhanded' = Unhanded
         \/ Unhanded # <<>> /\ ~IsChange(Unhanded[1]) /\ Unhanded' = Tail(Unhanded)
         \/ \E e \in Entries : ~IsChange(e) /\ Unhanded' = Append(Unhanded, e)
  PROVE  Ordered' /\ UNCHANGED Relay!vars
<1>1. /\ Unhanded \in Seq(Entries) /\ accepted \in Seq(Reports) /\ handed \in Seq(Reports)
      /\ Len(handed) \in Nat
  BY TailElements DEF IInv, TypeOK, Unhanded
<1>2. (IF hasAction THEN Kept(Unhanded', Len(handed), accepted) ELSE accepted = <<>>)
  <2>1. CASE ~hasAction
    BY <2>1 DEF Ordered
  <2>2. CASE hasAction
    <3>1. Kept(Unhanded, Len(handed), accepted)
      BY <2>2 DEF Ordered
    <3>2. CASE Unhanded' = Unhanded
      BY <2>2, <3>1, <3>2
    <3>3. CASE Unhanded # <<>> /\ ~IsChange(Unhanded[1]) /\ Unhanded' = Tail(Unhanded)
      <4>1. Kept(Tail(Unhanded), Len(handed), accepted)
        BY <1>1, <3>1, <3>3, KeptPops
      <4> QED
        BY <2>2, <3>3, <4>1
    <3>4. CASE \E e \in Entries : ~IsChange(e) /\ Unhanded' = Append(Unhanded, e)
      <4>1. PICK e \in Entries : ~IsChange(e) /\ Unhanded' = Append(Unhanded, e)
        BY <3>4
      <4>2. Kept(Append(Unhanded, e), Len(handed), accepted)
        BY <1>1, <3>1, <4>1, KeptSubscribes
      <4> QED
        BY <2>2, <4>1, <4>2
    <3> QED
      BY <2>2, <3>2, <3>3, <3>4
  <2> QED
    BY <2>1, <2>2
<1>3. Ordered'
  <2>1. (IF hasAction' THEN Kept(Unhanded', Len(handed'), accepted') ELSE accepted' = <<>>)
    BY <1>2
  <2>2. /\ Len(handed') <= Len(accepted')
        /\ \A k \in DOMAIN handed' : handed'[k] = accepted'[k]
    BY DEF Ordered
  <2> QED
    BY <2>1, <2>2 DEF Ordered, Kept, Numbers, IsChange, Passed
<1> QED
  BY <1>3 DEF Relay!vars

\* ProcessChanges() calls the action function for the front item: the relay hands
\* over the report that is next.
LEMMA DispatchHands ==
  ASSUME IInv, Ordered, Dispatch
  PROVE  Ordered' /\ Relay!Hand
<1>1. /\ changes \in Seq(Entries) /\ accepted \in Seq(Reports) /\ handed \in Seq(Reports)
      /\ Len(handed) \in Nat /\ DOMAIN handed = 1 .. Len(handed)
  BY AppendElements DEF IInv, TypeOK
<1>2. /\ changes # <<>> /\ Head(changes) = changes[1] /\ changes[1] \in Entries
      /\ hasAction /\ IsChange(changes[1])
      /\ pc = "work" /\ pc' = "action" /\ UNCHANGED <<hasAction, changes, accepted>>
  BY <1>1, PopItem DEF Dispatch, Item, inputs, mapVars, scmVars
<1>3. handed' = Append(handed, Passed(changes[1]))
  BY <1>2 DEF Dispatch, Item, Passed
<1>4. Unhanded = changes /\ Unhanded' = Tail(changes)
  BY <1>2 DEF Unhanded
<1>5. /\ Len(handed) < Len(accepted)
      /\ accepted[Len(handed) + 1] = Passed(changes[1])
      /\ Kept(Tail(changes), Len(handed) + 1, accepted)
  <2>1. Kept(changes, Len(handed), accepted)
    BY <1>2, <1>4 DEF Ordered
  <2> QED
    BY <1>1, <1>2, <2>1, KeptHands
<1>6. /\ Len(handed') = Len(handed) + 1
      /\ \A k \in DOMAIN handed' : handed'[k] = accepted[k]
  <2>1. Passed(changes[1]) \in Reports
    BY <1>2 DEF Passed, Reports, Entries
  <2>2. /\ DOMAIN handed' = 1 .. Len(handed) + 1 /\ Len(handed') = Len(handed) + 1
        /\ \A k \in DOMAIN handed : handed'[k] = handed[k]
        /\ handed'[Len(handed) + 1] = Passed(changes[1])
    BY <1>1, <1>3, <2>1, AppendElements
  <2>3. \A k \in DOMAIN handed : handed[k] = accepted[k]
    BY DEF Ordered
  <2> QED
    BY <1>1, <1>5, <2>2, <2>3
<1>7. Ordered'
  <2>1. Len(handed') <= Len(accepted')
    <3>1. Len(accepted) \in Nat
      BY <1>1
    <3> QED
      BY <1>1, <1>2, <1>5, <1>6, <3>1
  <2>2. \A k \in DOMAIN handed' : handed'[k] = accepted'[k]
    BY <1>2, <1>6
  <2>3. (IF hasAction' THEN Kept(Unhanded', Len(handed'), accepted') ELSE accepted' = <<>>)
    BY <1>2, <1>4, <1>5, <1>6
  <2> QED
    BY <2>1, <2>2, <2>3 DEF Ordered, Kept, Numbers, IsChange, Passed
<1>8. Relay!Hand
  BY <1>2, <1>3, <1>5 DEF Relay!Hand
<1> QED
  BY <1>7, <1>8

\* A callback appends its item.
LEMMA CallbackAccepts ==
  ASSUME IInv, Ordered, NotifyCallback
  PROVE  Ordered' /\ [Relay!Next]_(Relay!vars)
<1> USE DEF inputs, mapVars
<1>1. PICK n \in Names : n = Head(apcs) /\ Reported[n] \in Names
  BY ReportedAssumption, PopApc DEF IInv, TypeOK, NotifyCallback
<1>2. /\ changes \in Seq(Entries) /\ accepted \in Seq(Reports) /\ handed \in Seq(Reports)
      /\ Unhanded \in Seq(Entries) /\ Len(handed) \in Nat
      /\ buffer[n] \in [status : Statuses, state : States \cup {0}]
      /\ pc \in {"action", "after"} => changes # <<>>
  BY TailElements DEF IInv, TypeOK, Unhanded
<1>3. UNCHANGED <<hasAction, handed>> /\ (pc' \in {"action", "after"} <=> pc \in {"action", "after"})
  BY DEF NotifyCallback, AfterApc
<1>4. ASSUME NEW e \in Entries, changes' = Append(changes, e)
      PROVE  Unhanded' = Append(Unhanded, e)
  <2>1. CASE pc \in {"action", "after"}
    <3>1. Tail(Append(changes, e)) = Append(Tail(changes), e)
      BY <1>2, <2>1
    <3> QED
      BY <1>3, <1>4, <2>1, <3>1 DEF Unhanded
  <2>2. CASE pc \notin {"action", "after"}
    BY <1>3, <1>4, <2>2 DEF Unhanded
  <2> QED
    BY <2>1, <2>2
<1>5. CASE buffer[n].status = "error"
  <2>1. changes' = changes
    BY <1>1, <1>2, <1>5, ConcatElement DEF NotifyCallback, Taken
  <2>2. Unhanded' = Unhanded
    BY <1>3, <2>1 DEF Unhanded
  <2>3. accepted' = accepted
    BY <1>1, <1>5 DEF NotifyCallback, Reportable
  <2> QED
    BY <1>3, <2>2, <2>3, QuietSteps
<1>6. CASE buffer[n].status # "error"
  <2> DEFINE e == Entry(Reported[n], IF buffer[n].status = "deleted" THEN 0 ELSE buffer[n].state,
                        buffer[n].status)
  <2>1. /\ e \in Entries /\ Taken(n) = <<e>> /\ Passed(e) = Report(n) /\ Passed(e) \in Reports
        /\ Reportable(n) <=> hasAction /\ IsChange(e)
    <3>1. buffer[n].status \in {"ok", "deleted"} /\ buffer[n].state \in States \cup {0}
      BY <1>2, <1>6 DEF Statuses
    <3> QED
      BY <1>1, <3>1 DEF Entry, Entries, Taken, Passed, Report, Reports, Reportable, IsChange
  <2> HIDE DEF e
  <2>2. changes' = Append(changes, e)
    <3>1. changes' = changes \o <<e>>
      BY <1>1, <2>1 DEF NotifyCallback
    <3>2. changes \o <<e>> = Append(changes, e)
      BY <1>2, <2>1, ConcatElement
    <3> QED
      BY <3>1, <3>2
  <2>3. Unhanded' = Append(Unhanded, e)
    BY <1>4, <2>1, <2>2
  <2>4. CASE ~(hasAction /\ IsChange(e))
    <3>1. accepted' = accepted
      BY <1>1, <2>1, <2>4 DEF NotifyCallback
    <3> QED
      BY <1>3, <2>1, <2>3, <2>4, <3>1, QuietSteps
  <2>5. CASE hasAction /\ IsChange(e)
    <3>1. accepted' = Append(accepted, Passed(e))
      BY <1>1, <2>1, <2>5 DEF NotifyCallback
    <3>2. /\ Len(accepted') = Len(accepted) + 1 /\ Len(accepted) \in Nat
          /\ \A k \in 1 .. Len(accepted) : accepted'[k] = accepted[k]
          /\ DOMAIN handed = 1 .. Len(handed)
      BY <1>2, <2>1, <3>1, AppendElements
    <3>3. Kept(Unhanded', Len(handed), accepted')
      <4>1. Kept(Unhanded, Len(handed), accepted) /\ Len(handed) <= Len(accepted)
        BY <2>5 DEF Ordered
      <4>2. Kept(Append(Unhanded, e), Len(handed), Append(accepted, Passed(e)))
        BY <1>2, <2>1, <2>5, <4>1, KeptAccepts
      <4> QED
        BY <2>3, <3>1, <4>2
    <3>4. /\ Len(handed) <= Len(accepted')
          /\ \A k \in DOMAIN handed : handed[k] = accepted'[k]
      BY <1>2, <3>2 DEF Ordered
    <3>5. Ordered'
      BY <1>3, <2>5, <3>3, <3>4 DEF Ordered, Kept, Numbers, IsChange, Passed
    <3>6. Relay!Accept
      BY <1>3, <2>1, <3>1 DEF Relay!Accept
    <3> QED
      BY <3>5, <3>6 DEF Relay!Next
  <2> QED
    BY <2>4, <2>5
<1> QED
  BY <1>5, <1>6

-----------------------------------------------------------------------------
(* The refinement *)

\* Every step of the worker, the SCM and the owner.
LEMMA StepRelays == IInv /\ Ordered /\ [Next]_vars => Ordered' /\ [Relay!Next]_(Relay!vars)
<1> SUFFICES ASSUME IInv, Ordered, [Next]_vars
             PROVE  Ordered' /\ [Relay!Next]_(Relay!vars)
  OBVIOUS
<1> USE DEF inputs, mapVars, scmVars, history, vars
<1>1. changes \in Seq(Entries) /\ (changes # <<>> => Head(changes) = changes[1])
  BY PopItem DEF IInv, TypeOK
<1>2. ASSUME pc' \in {"action", "after"} <=> pc \in {"action", "after"},
             UNCHANGED <<hasAction, changes, accepted, handed>>
      PROVE  Ordered' /\ UNCHANGED Relay!vars
  <2>1. Unhanded' = Unhanded
    BY <1>2 DEF Unhanded
  <2> QED
    BY <1>2, <2>1, QuietSteps
<1>3. ASSUME AtFront, PopFront, UNCHANGED <<hasAction, accepted, handed>>
      PROVE  Ordered' /\ UNCHANGED Relay!vars
  <2>1. Unhanded' = Tail(changes)
    BY <1>3 DEF PopFront, Unhanded
  <2>2. CASE pc = "after"
    <3>1. Unhanded' = Unhanded
      BY <2>1, <2>2 DEF Unhanded
    <3> QED
      BY <1>3, <3>1, QuietSteps
  <2>3. CASE pc = "work" /\ changes # <<>> /\ ~(hasAction /\ IsChange(Item))
    <3>1. Unhanded = changes /\ Item = changes[1]
      BY <1>1, <2>3 DEF Unhanded, Item
    <3> QED
      BY <1>3, <2>1, <2>3, <3>1, QuietSteps
  <2> QED
    BY <1>3, <2>2, <2>3 DEF AtFront
<1>4. CASE OpenScm \/ SeedThrows \/ SeedDone \/ ActionReturns \/ StartWait \/ WaitIoCompletion
  BY <1>2, <1>4 DEF OpenScm, SeedThrows, SeedDone, ActionReturns, StartWait, WaitIoCompletion
<1>5. CASE WaitExit \/ WaitFailed \/ RunReturns \/ SignalExit \/ UNCHANGED vars
  BY <1>2, <1>5 DEF WaitExit, WaitFailed, LeaveLoop, RunReturns, SignalExit
<1>6. CASE (\E n \in Names : TeardownService(n)) \/ (\E n \in Names : ScmNotifies(n))
  BY <1>2, <1>6 DEF TeardownService, ScmNotifies, CloseService
<1>7. CASE NotifyCallbackThrows
  BY <1>2, <1>7 DEF NotifyCallbackThrows, AfterApc
<1>8. CASE SeedService
  <2>1. list[next] \in Names
    BY <1>8, ListsAssumption DEF SeedService, IInv, TypeOK
  <2>2. Seed(list[next]) \in Entries /\ ~IsChange(Seed(list[next]))
    BY <2>1 DEF Seed, Entry, Entries, IsChange
  <2>3. /\ pc = "seed" /\ pc' = "seed" /\ UNCHANGED <<hasAction, accepted, handed>>
        /\ changes' = changes \/ changes' = Append(changes, Seed(list[next]))
    BY <1>8 DEF SeedService
  <2>4. Unhanded' = Unhanded \/ Unhanded' = Append(Unhanded, Seed(list[next]))
    BY <2>3 DEF Unhanded
  <2> QED
    BY <2>2, <2>3, <2>4, QuietSteps
<1>9. CASE FinishDeleted \/ Subscribe \/ SubscribeSkips
  BY <1>3, <1>9 DEF FinishDeleted, Subscribe, SubscribeSkips
<1>10. CASE Dispatch
  BY <1>10, DispatchHands DEF Relay!Next
<1>11. CASE NotifyCallback
  BY <1>11, CallbackAccepts
<1> QED
  BY <1>4, <1>5, <1>6, <1>7, <1>8, <1>9, <1>10, <1>11 DEF Next, Worker

\* Nothing was accepted yet.
LEMMA EnteredRelays == Entered => Ordered /\ Relay!Init
<1> SUFFICES ASSUME Entered PROVE Ordered /\ Relay!Init
  OBVIOUS
<1>1. /\ changes = <<>> /\ accepted = <<>> /\ handed = <<>> /\ pc = "open"
      /\ Len(handed) = 0 /\ Len(accepted) = 0 /\ DOMAIN handed = {} /\ DOMAIN changes = {}
  BY DEF Entered
<1>2. Unhanded = <<>> /\ DOMAIN Unhanded = {}
  BY <1>1 DEF Unhanded
<1>3. Kept(Unhanded, Len(handed), accepted)
  <2>1. [i \in DOMAIN Unhanded |-> 0] \in [DOMAIN Unhanded -> Nat]
    OBVIOUS
  <2>2. Numbers([i \in DOMAIN Unhanded |-> 0], Unhanded, Len(handed), accepted)
    BY <1>1, <1>2 DEF Numbers
  <2> QED
    BY <2>1, <2>2 DEF Kept
<1>4. Ordered
  BY <1>1, <1>3 DEF Ordered
<1> QED
  BY <1>1, <1>4 DEF Relay!Init

\* The list keeps what was accepted in its order, between the subscriptions that
\* stand in it: the worker implements the safety part of NotificationRelay, so the
\* action function is told each change the callback accepted once, in order, and
\* nothing else (sscn.cpp:85-99 and 140-182).
THEOREM ChangesAreRelayed == Spec => RelaysInOrder
<1>1. Init => IInv /\ Ordered /\ Relay!Init
  BY EnteredOK, EnteredRelays DEF Init
<1>2. IInv /\ Ordered /\ [Next]_vars => IInv' /\ Ordered' /\ [Relay!Next]_(Relay!vars)
  BY NextKeeps, StepRelays
<1> QED
  BY <1>1, <1>2, PTL DEF Spec, RelaysInOrder, Relay!Spec

-----------------------------------------------------------------------------
(* Nothing is left when the loop ends *)

\* The loop ends only from the wait, and the wait starts on an empty list.
Drained ==
  /\ pc \in {"open", "seed"} => accepted = <<>>
  /\ pc = "wait" => changes = <<>>
  /\ HandsOverBeforeReturn

\* What was accepted and is no longer listed was handed over.
LEMMA EmptyIsHanded ==
  ASSUME IInv, Ordered, accepted = <<>> \/ (pc = "wait" /\ changes = <<>>)
  PROVE  handed = accepted
<1>1. /\ accepted \in Seq(Reports) /\ handed \in Seq(Reports)
      /\ Len(accepted) \in Nat /\ Len(handed) \in Nat /\ Len(handed) <= Len(accepted)
      /\ \A k \in DOMAIN handed : handed[k] = accepted[k]
  BY AppendElements DEF IInv, TypeOK, Ordered
<1>2. CASE accepted = <<>>
  <2>1. Len(handed) = 0
    BY <1>1, <1>2
  <2> QED
    BY <1>1, <1>2, <2>1
<1>3. CASE hasAction /\ pc = "wait" /\ changes = <<>>
  <2>1. Kept(changes, Len(handed), accepted)
    BY <1>3 DEF Ordered, Unhanded
  <2>2. PICK num \in [DOMAIN changes -> Nat] : Numbers(num, changes, Len(handed), accepted)
    BY <2>1 DEF Kept
  <2>3. \A k \in Len(handed) + 1 .. Len(accepted) : FALSE
    BY <1>3, <2>2 DEF Numbers
  <2>4. Len(handed) = Len(accepted)
    BY <1>1, <2>3
  <2> QED
    BY <1>1, <2>4
<1> QED
  BY <1>2, <1>3 DEF Ordered

LEMMA EnteredDrains == Entered => Drained
BY DEF Entered, Drained, HandsOverBeforeReturn

LEMMA StepDrains == IInv /\ Ordered /\ Drained /\ [Next]_vars => Drained'
<1> SUFFICES ASSUME IInv, Ordered, Drained, [Next]_vars PROVE Drained'
  OBVIOUS
<1> USE DEF inputs, mapVars, scmVars, history, vars
<1>1. CASE OpenScm \/ SeedDone \/ SeedService
  BY <1>1 DEF Drained, HandsOverBeforeReturn, OpenScm, SeedDone, SeedService
<1>2. CASE SeedThrows
  <2>1. handed = accepted
    BY <1>2, EmptyIsHanded DEF Drained, SeedThrows
  <2> QED
    BY <1>2, <2>1 DEF Drained, HandsOverBeforeReturn, SeedThrows
<1>3. CASE Dispatch \/ ActionReturns \/ StartWait \/ WaitIoCompletion
  BY <1>3 DEF Drained, HandsOverBeforeReturn, Dispatch, ActionReturns, StartWait, WaitIoCompletion
<1>4. CASE FinishDeleted \/ Subscribe \/ SubscribeSkips
  BY <1>4 DEF Drained, HandsOverBeforeReturn, FinishDeleted, Subscribe, SubscribeSkips, AtFront,
              PopFront
<1>5. CASE NotifyCallback \/ NotifyCallbackThrows
  BY <1>5 DEF Drained, HandsOverBeforeReturn, NotifyCallback, NotifyCallbackThrows, Alertable,
              AfterApc
<1>6. CASE WaitExit \/ WaitFailed
  <2>1. handed = accepted
    BY <1>6, EmptyIsHanded DEF Drained, WaitExit, WaitFailed, LeaveLoop
  <2> QED
    BY <1>6, <2>1 DEF Drained, HandsOverBeforeReturn, WaitExit, WaitFailed, LeaveLoop
<1>7. CASE (\E n \in Names : TeardownService(n)) \/ RunReturns \/ SignalExit \/ UNCHANGED vars
  BY <1>7 DEF Drained, HandsOverBeforeReturn, TeardownService, RunReturns, SignalExit
<1>8. CASE \E n \in Names : ScmNotifies(n)
  BY <1>8 DEF Drained, HandsOverBeforeReturn, ScmNotifies
<1> QED
  BY <1>1, <1>2, <1>3, <1>4, <1>5, <1>6, <1>7, <1>8 DEF Next, Worker

\* The exit event ends the loop only in a wait that no callback has run in, and a
\* wait starts only when the list is processed: Run() is not left with a change it
\* accepted and did not hand over (sscn.cpp:245-262).
THEOREM NothingIsLost == Spec => []HandsOverBeforeReturn
<1>1. Init => IInv /\ Ordered /\ Drained
  BY EnteredOK, EnteredRelays, EnteredDrains DEF Init
<1>2. IInv /\ Ordered /\ Drained /\ [Next]_vars => IInv' /\ Ordered' /\ Drained'
  BY NextKeeps, StepRelays, StepDrains
<1>3. Drained => HandsOverBeforeReturn
  BY DEF Drained
<1> QED
  BY <1>1, <1>2, <1>3, PTL DEF Spec

-----------------------------------------------------------------------------
(* All that holds of Run(), for a thread that enters it more than once *)

\* No name is listed twice, and no allocation fails.
PlainRun == (\A l \in Lists : NoDuplicates(l)) /\ "throw" \notin Faults
NamesApart == \A l \in Lists : ReadApart(l)
ReadWhole == \A n \in Names : Reported[n] = n
NothingFails == Faults = {} /\ ReadWhole

\* The inductive invariants together, each where its assumption holds.
RunInv ==
  /\ IInv /\ Ordered /\ Drained
  /\ PlainRun => Owned
  /\ NamesApart => Alone
  /\ NothingFails => Watched

\* What they say to a reader of the code.
RunPromises ==
  /\ TypeOK /\ HandlesAreOpen /\ NoDanglingRegistration
  /\ \A k \in DOMAIN handed : k <= Len(accepted) /\ handed[k] = accepted[k]
  /\ HandsOverBeforeReturn
  /\ PlainRun => HandlesReleased
  /\ PlainRun /\ ReadWhole => DeletedIsReleased
  /\ NamesApart => OneRequest
  /\ NothingFails => OpenServiceIsWatched

LEMMA EnteredRuns == Entered /\ exitSet \in BOOLEAN => RunInv
<1> SUFFICES ASSUME Entered, exitSet \in BOOLEAN PROVE RunInv
  OBVIOUS
<1>1. IInv /\ Ordered /\ Drained
  BY EnteredOK, EnteredRelays, EnteredDrains
<1>2. Owned /\ Alone /\ Watched
  BY DEF Entered, Owned, HandlesReleased, Alone, Listed, Attributed, OneItem, OneApc, Exclusive,
         Watched, Usable, Zeroed
<1> QED
  BY <1>1, <1>2 DEF RunInv

LEMMA StepRuns == RunInv /\ [Next]_vars => RunInv'
<1> SUFFICES ASSUME RunInv, [Next]_vars PROVE RunInv'
  OBVIOUS
<1>1. IInv' /\ Ordered' /\ Drained'
  BY NextKeeps, StepRelays, StepDrains DEF RunInv
<1>2. PlainRun' <=> PlainRun
  BY DEF PlainRun, NoDuplicates
<1>3. (NamesApart' <=> NamesApart) /\ (NothingFails' <=> NothingFails)
  BY DEF NamesApart, ReadApart, NothingFails, ReadWhole
<1>4. PlainRun => Owned'
  BY OwnedKeeps DEF RunInv, PlainRun
<1>5. NamesApart => Alone'
  BY AloneKeeps DEF RunInv, NamesApart
<1>6. NothingFails => Watched'
  BY WatchedKeeps DEF RunInv, NothingFails, ReadWhole
<1> QED
  BY <1>1, <1>2, <1>3, <1>4, <1>5, <1>6 DEF RunInv

\* None of them speaks of the exit event.
LEMMA EventIsApart ==
  ASSUME RunInv, exitSet' \in BOOLEAN,
         UNCHANGED <<inputs, pc, next, mapVars, scmVars, changes, history>>
  PROVE  RunInv'
<1>1. /\ list' = list /\ hasAction' = hasAction /\ pc' = pc /\ next' = next /\ mapped' = mapped
      /\ handle' = handle /\ buffer' = buffer /\ err' = err /\ open' = open
      /\ pending' = pending /\ apcs' = apcs /\ changes' = changes
      /\ told' = told /\ accepted' = accepted /\ handed' = handed
  BY DEF inputs, mapVars, scmVars, history
<1>2. IInv'
  <2>1. TypeOK'
    BY <1>1 DEF RunInv, IInv, TypeOK, Handles
  <2>2. (HandleNames /\ Seeding /\ HandlesAreOpen /\ NoDanglingRegistration /\ Deletions /\ Told)'
    BY <1>1 DEF RunInv, IInv, HandleNames, Seeding, HandlesAreOpen, NoDanglingRegistration,
                Deletions, Told, Relayed, Usable
  <2> QED
    BY <2>1, <2>2 DEF IInv
<1>3. Ordered' /\ Drained'
  <2>1. Unhanded' = Unhanded
    BY <1>1 DEF Unhanded
  <2>2. Ordered'
    BY <1>1, <2>1 DEF RunInv, Ordered, Kept, Numbers, IsChange, Passed
  <2>3. Drained'
    BY <1>1 DEF RunInv, Drained, HandsOverBeforeReturn
  <2> QED
    BY <2>2, <2>3
<1>4. PlainRun => Owned'
  BY <1>1 DEF RunInv, Owned, HandlesReleased
<1>5. NamesApart => Alone'
  BY <1>1 DEF RunInv, Alone, Listed, Attributed, OneItem, OneApc, Exclusive, Belongs
<1>6. NothingFails => Watched'
  BY <1>1 DEF RunInv, Watched, Usable, HasRequest
<1>7. (PlainRun' <=> PlainRun) /\ (NamesApart' <=> NamesApart) /\ (NothingFails' <=> NothingFails)
  BY DEF PlainRun, NoDuplicates, NamesApart, ReadApart, NothingFails, ReadWhole
<1> QED
  BY <1>2, <1>3, <1>4, <1>5, <1>6, <1>7 DEF RunInv

LEMMA RunInvMeans == RunInv => RunPromises
<1> SUFFICES ASSUME RunInv PROVE RunPromises
  OBVIOUS
<1>1. TypeOK /\ HandlesAreOpen /\ NoDanglingRegistration
  BY DEF RunInv, IInv
<1>2. ASSUME NEW k \in DOMAIN handed PROVE k <= Len(accepted) /\ handed[k] = accepted[k]
  <2>1. handed \in Seq(Reports) /\ accepted \in Seq(Reports) /\ Len(handed) <= Len(accepted)
    BY DEF RunInv, IInv, TypeOK, Ordered
  <2> QED
    BY <2>1 DEF RunInv, Ordered
<1>3. PlainRun /\ ReadWhole => DeletedIsReleased
  BY DeletedMeans DEF RunInv, PlainRun, ReadWhole
<1> QED
  BY <1>1, <1>2, <1>3, WatchedMeans, AloneMeans DEF RunInv, RunPromises, Drained, Owned
=============================================================================
