--------------------------- MODULE ScopeGuardProofs ---------------------------
(***************************************************************************)
(* Proofs about ScopeGuard, for any number of guards, actions and scopes.   *)
(*                                                                         *)
(* The argument: uncaught is always the count at the entry of the innermost *)
(* scope, one more if an exception is unwinding that scope; and the count a *)
(* guard recorded is the one at the entry of the scope it is a local of.    *)
(* So the comparison in a destructor tells what the scope is doing.  With   *)
(* exactly one active guard for an action that is owed, the action is       *)
(* settled once.                                                            *)
(***************************************************************************)
EXTENDS ScopeGuard, TLAPS

Unwinding(i) == IF mode[i] = "throwing" THEN 1 ELSE 0

\* Each scope adds the exception that unwinds it, if any.
Levels ==
  /\ depth > 0 => uncaught = base[depth] + Unwinding(depth)
  /\ \A i \in Scopes : i + 1 \in Scopes /\ i < depth => base[i + 1] = base[i] + Unwinding(i)
  /\ \A i \in Scopes : i > depth => mode[i] = "running"

\* Guards are locals of scopes that were entered and not left.
Nested == \A g \in Objects : home[g] <= depth

\* A guard recorded the count at the entry of its scope.
Counts ==
  AcrossUnwinding \/ \A g \in Objects : home[g] # 0 => exceptionCount[g] = base[home[g]]

Named == AcrossUnwinding \/ RunsAsNamed

\* An active guard holds an action.
Holding == \A g \in Objects : active[g] => function[g] \in Actions

IInv ==
  /\ TypeOK /\ Levels /\ Nested /\ Counts
  /\ Holding /\ OneOwner
  /\ Named

Fate == Cleanup!Fates \cup {"none", "held"}

\* No guard exists in the initial state.
LEMMA InitOK == Init => IInv
<1> SUFFICES ASSUME Init PROVE IInv
  OBVIOUS
<1> USE DepthAssumption DEF Init, Cleanup!Init, Scopes
<1>1. TypeOK
  BY DEF TypeOK, Cleanup!Fates
<1>2. Levels /\ Nested /\ Counts
  BY DEF Levels, Unwinding, Nested, Counts
<1>3. Holding /\ OneOwner /\ Named
  BY DEF Holding, OneOwner, Named, RunsAsNamed, Live
<1> QED
  BY <1>1, <1>2, <1>3 DEF IInv

\* A scope is entered.
LEMMA EnterKeeps ==
  ASSUME IInv, Enter
  PROVE  IInv'
<1> USE DepthAssumption, KindAssumption, ActionsAssumption DEF IInv, TypeOK, Scopes, Enter, guardVars, history
<1>1. TypeOK'
  OBVIOUS
<1>2. Levels'
  BY DEF Levels, Unwinding
<1>3. Nested'
  BY DEF Nested
<1>4. Counts'
  BY DEF Counts, Nested
<1>5. Holding'
  BY DEF Holding
<1>6. OneOwner'
  BY DEF OneOwner, Holding, Live, Nested
<1>7. Named'
  BY DEF Named, RunsAsNamed, OneOwner, Holding, Levels, Unwinding, Counts
<1> QED
  BY <1>1, <1>2, <1>3, <1>4, <1>5, <1>6, <1>7 DEF IInv

\* An exception is thrown.
LEMMA ThrowKeeps ==
  ASSUME IInv, Throw
  PROVE  IInv'
<1> USE DepthAssumption, KindAssumption, ActionsAssumption DEF IInv, TypeOK, Scopes, Throw, Raise, Running, guardVars, history
<1>1. TypeOK'
  OBVIOUS
<1>2. Levels'
  BY DEF Levels, Unwinding
<1>3. Nested'
  BY DEF Nested
<1>4. Counts'
  BY DEF Counts, Nested
<1>5. Holding'
  BY DEF Holding
<1>6. OneOwner'
  BY DEF OneOwner, Holding, Live, Nested
<1>7. Named'
  BY DEF Named, RunsAsNamed, OneOwner, Holding, Levels, Unwinding, Counts
<1> QED
  BY <1>1, <1>2, <1>3, <1>4, <1>5, <1>6, <1>7 DEF IInv

\* A scope starts to be left.
LEMMA LeaveKeeps ==
  ASSUME IInv, Leave
  PROVE  IInv'
<1> USE DepthAssumption, KindAssumption, ActionsAssumption DEF IInv, TypeOK, Scopes, Leave, Running, guardVars, history
<1>1. TypeOK'
  OBVIOUS
<1>2. Levels'
  BY DEF Levels, Unwinding
<1>3. Nested'
  BY DEF Nested
<1>4. Counts'
  BY DEF Counts, Nested
<1>5. Holding'
  BY DEF Holding
<1>6. OneOwner'
  BY DEF OneOwner, Holding, Live, Nested
<1>7. Named'
  BY DEF Named, RunsAsNamed, OneOwner, Holding, Levels, Unwinding, Counts
<1> QED
  BY <1>1, <1>2, <1>3, <1>4, <1>5, <1>6, <1>7 DEF IInv

\* An exception that leaves a scope unwinds the one around it.
LEMMA UnwindingMoves ==
  ASSUME Levels, base \in [Scopes -> Nat], depth \in Scopes, NEW i \in Scopes, i + 1 = depth,
         depth' = i, uncaught' = uncaught,
         mode[i] = "running", mode[depth] = "throwing", mode'[i] = "throwing",
         \A k \in Scopes : k > i => mode'[k] = IF k = depth THEN "running" ELSE mode[k],
         \A k \in Scopes : k < i => mode'[k] = mode[k],
         \A k \in Scopes : k <= i => base'[k] = base[k]
  PROVE  Levels'
<1> USE DepthAssumption DEF Scopes
<1>1. base[depth] = base[i] /\ uncaught = base[depth] + 1
  <2>1. base[i + 1] = base[i] + Unwinding(i)
    BY DEF Levels
  <2>2. Unwinding(i) = 0 /\ Unwinding(depth) = 1
    BY DEF Unwinding
  <2>3. uncaught = base[depth] + Unwinding(depth)
    BY DEF Levels
  <2> QED
    BY <2>1, <2>2, <2>3
<1>2. uncaught' = base'[i] + Unwinding(i)'
  BY <1>1 DEF Unwinding
<1>3. ASSUME NEW k \in Scopes, k + 1 \in Scopes, k < i
      PROVE  base'[k + 1] = base'[k] + Unwinding(k)'
  <2>1. base[k + 1] = base[k] + Unwinding(k)
    BY <1>3 DEF Levels
  <2> QED
    BY <1>3, <2>1 DEF Unwinding
<1>4. ASSUME NEW k \in Scopes, k > i
      PROVE  mode'[k] = "running"
  <2>1. CASE k = depth
    BY <1>4, <2>1
  <2>2. CASE k # depth
    <3>1. k > depth
      BY <1>4, <2>2
    <3> QED
      BY <1>4, <2>2, <3>1 DEF Levels
  <2> QED
    BY <2>1, <2>2
<1> QED
  BY <1>2, <1>3, <1>4 DEF Levels

\* A scope is left.
LEMMA ScopeEndsKeeps ==
  ASSUME IInv, ScopeEnds
  PROVE  IInv'
<1> USE DepthAssumption, KindAssumption, ActionsAssumption DEF IInv, TypeOK, Scopes, ScopeEnds, Running, Throwing, guardVars, history
<1>1. TypeOK'
  <2>1. depth \in Scopes /\ depth' \in 0 .. MaxDepth
    OBVIOUS
  <2>2. base' \in [Scopes -> Nat]
    BY <2>1
  <2>3. Throwing => uncaught = base[depth] + 1
    BY <2>1 DEF Levels, Unwinding
  <2>4. uncaught' \in Nat
    BY <2>1, <2>3
  <2>5. mode' \in [Scopes -> {"running", "leaving", "throwing"}]
    BY <2>1
  <2> QED
    BY <2>1, <2>2, <2>4, <2>5
<1>2. Levels'
  <2>1. CASE uncaught' = (IF Throwing THEN uncaught - 1 ELSE uncaught)
             /\ mode' = [mode EXCEPT ![depth] = "running"]
    BY <2>1 DEF Levels, Unwinding
  <2>2. CASE /\ Throwing /\ depth > 1 /\ mode[depth - 1] = "running"
             /\ mode' = [mode EXCEPT ![depth] = "running", ![depth - 1] = "throwing"]
             /\ UNCHANGED uncaught
    <3>1. PICK i \in Scopes : i + 1 = depth
      BY <2>2
    <3>2. /\ depth \in Scopes /\ depth' = i /\ uncaught' = uncaught
          /\ mode[i] = "running" /\ mode[depth] = "throwing"
          /\ mode'[i] = "throwing" /\ \A k \in Scopes : k > i => mode'[k] = IF k = depth THEN "running" ELSE mode[k]
          /\ \A k \in Scopes : k < i => mode'[k] = mode[k]
          /\ \A k \in Scopes : k <= i => base'[k] = base[k]
      BY <2>2, <3>1
    <3> QED
      BY <3>1, <3>2, UnwindingMoves
  <2> QED
    BY <2>1, <2>2
<1>3. Nested'
  BY DEF Nested
<1>4. Counts'
  BY DEF Counts, Nested
<1>5. Holding'
  BY DEF Holding
<1>6. OneOwner'
  BY DEF OneOwner, Holding, Live, Nested
<1>7. Named'
  BY DEF Named, RunsAsNamed, OneOwner, Holding, Levels, Unwinding, Counts
<1> QED
  BY <1>1, <1>2, <1>3, <1>4, <1>5, <1>6, <1>7 DEF IInv

\* A guard is not constructed.
LEMMA ConstructThrowsKeeps ==
  ASSUME IInv, NEW c \in Actions, ConstructThrows(c)
  PROVE  IInv'
<1> USE DepthAssumption, KindAssumption, ActionsAssumption DEF IInv, TypeOK, Scopes, ConstructThrows, Running, Raise, Invoke, Compensates, Cleanup!Due, Cleanup!Fates, Cleanup!Kinds, guardVars
<1>1. TypeOK'
  OBVIOUS
<1>2. Levels'
  BY DEF Levels, Unwinding
<1>3. Nested'
  BY DEF Nested
<1>4. Counts'
  BY DEF Counts, Nested
<1>5. Holding'
  BY DEF Holding
<1>6. OneOwner'
  BY DEF OneOwner, Holding, Live, Nested
<1>7. Named'
  <2>1. CASE ~AcrossUnwinding
    <3>1. ran[c] = 0 /\ Kind[c] \in Cleanup!Kinds
      BY <2>1 DEF Named, RunsAsNamed
    <3>2. ran'[c] = (IF Compensates(c) THEN 1 ELSE 0) /\ fate'[c] = "failed"
      BY <3>1
    <3>3. Compensates(c) <=> Cleanup!Due(Kind[c], "failed")
      BY <3>1
    <3>4. \A d \in Actions \ {c} : ran'[d] = ran[d] /\ fate'[d] = fate[d]
      OBVIOUS
    <3>5. \A d \in Actions \ {c} :
            ran'[d] = IF fate'[d] \notin {"none", "held"}
                         /\ Cleanup!Due(Kind[d], fate'[d]) THEN 1 ELSE 0
      BY <2>1, <3>4 DEF Named, RunsAsNamed
    <3>6. fate'[c] \notin {"none", "held"}
      BY <3>2
    <3> QED
      BY <3>2, <3>3, <3>5, <3>6 DEF Named, RunsAsNamed
  <2>2. CASE AcrossUnwinding
    BY <2>2 DEF Named
  <2> QED
    BY <2>1, <2>2
<1> QED
  BY <1>1, <1>2, <1>3, <1>4, <1>5, <1>6, <1>7 DEF IInv

\* A guard is constructed.
LEMMA ConstructKeeps ==
  ASSUME IInv, NEW g \in Objects, NEW c \in Actions, Construct(g, c)
  PROVE  IInv'
<1> USE DepthAssumption, KindAssumption, ActionsAssumption DEF IInv, TypeOK, Scopes, Construct, CountNow, Running, Hold, Cleanup!Guarded, Cleanup!Fates, scopeVars, Live
<1>1. TypeOK'
  OBVIOUS
<1>2. Levels'
  BY DEF Levels, Unwinding
<1>3. Nested'
  BY DEF Nested
<1>4. Counts'
  BY DEF Counts, Nested, Levels, Unwinding
<1>5. Holding'
  BY DEF Holding
<1>6. OneOwner'
  <2>1. \A k \in Objects : active[k] => k # g
    BY DEF OneOwner
  <2>2. \A k \in Objects : active[k] => function[k] # c
    BY DEF OneOwner
  <2>3. \A k \in Objects : active'[k] <=> active[k] \/ k = g
    BY <2>1
  <2>4. \A k \in Objects : k # g => function'[k] = function[k] /\ home'[k] = home[k]
    OBVIOUS
  <2>5. function'[g] = c /\ home'[g] = depth
    OBVIOUS
  <2> QED
    BY <2>1, <2>2, <2>3, <2>4, <2>5 DEF OneOwner, Holding
<1>7. Named'
  BY DEF Named, RunsAsNamed, OneOwner, Holding, Levels, Unwinding, Counts
<1> QED
  BY <1>1, <1>2, <1>3, <1>4, <1>5, <1>6, <1>7 DEF IInv

\* A guard is moved.
LEMMA MoveKeeps ==
  ASSUME IInv, NEW g \in Objects, NEW h \in Objects \ {g}, Move(g, h)
  PROVE  IInv'
<1> USE DepthAssumption, KindAssumption, ActionsAssumption DEF IInv, TypeOK, Scopes, Move, Reaches, TransferActive, Running, scopeVars, history, Live
<1>1. TypeOK'
  <2>1. PICK i \in Scopes : home' = [home EXCEPT ![h] = i]
    OBVIOUS
  <2>2. home' \in [Objects -> 0 .. MaxDepth]
    BY <2>1
  <2>3. /\ function' \in [Objects -> Actions \cup {NoAction}]
        /\ exceptionCount' \in [Objects -> Nat] /\ active' \in [Objects -> BOOLEAN]
    OBVIOUS
  <2> QED
    BY <2>2, <2>3
<1>2. Levels'
  BY DEF Levels, Unwinding
<1>3. Nested'
  BY DEF Nested
<1>4. Counts'
  BY DEF Counts, Nested
<1>5. Holding'
  BY DEF Holding
<1>6. OneOwner'
  <2>1. home'[h] \in 1 .. depth /\ \A k \in Objects \ {h} : home'[k] = home[k]
    OBVIOUS
  <2>2. function'[h] = function[g] /\ \A k \in Objects \ {h} : function'[k] = function[k]
    OBVIOUS
  <2>3. ~active[h]
    BY DEF OneOwner
  <2>4. /\ active'[h] = active[g] /\ active'[g] = FALSE
        /\ \A k \in Objects \ {g, h} : active'[k] = active[k]
    OBVIOUS
  <2>5. \A k \in Objects : active'[k] => Live(k)' /\ home'[k] <= depth /\ fate[function'[k]] = "held"
    BY <2>1, <2>2, <2>4 DEF OneOwner
  <2>6. \A k, l \in Objects : active'[k] /\ active'[l] /\ function'[k] = function'[l] => k = l
    BY <2>2, <2>3, <2>4 DEF OneOwner
  <2>7. \A c \in Actions : fate[c] = "held" => \E k \in Objects : active'[k] /\ function'[k] = c
    <3> SUFFICES ASSUME NEW c \in Actions, fate[c] = "held"
                 PROVE  \E k \in Objects : active'[k] /\ function'[k] = c
      OBVIOUS
    <3>1. PICK k \in Objects : active[k] /\ function[k] = c
      BY DEF OneOwner
    <3>2. CASE k = g
      <4>1. active'[h] /\ function'[h] = c
        BY <3>1, <3>2, <2>2, <2>4
      <4> QED
        BY <4>1
    <3>3. CASE k # g
      BY <3>1, <3>3, <2>2, <2>3, <2>4
    <3> QED
      BY <3>2, <3>3
  <2> QED
    BY <2>5, <2>6, <2>7 DEF OneOwner
<1>7. Named'
  BY DEF Named, RunsAsNamed, OneOwner, Holding, Levels, Unwinding, Counts
<1> QED
  BY <1>1, <1>2, <1>3, <1>4, <1>5, <1>6, <1>7 DEF IInv

\* A move throws.
LEMMA MoveThrowsKeeps ==
  ASSUME IInv, NEW g \in Objects, MoveThrows(g)
  PROVE  IInv'
<1> USE DepthAssumption, KindAssumption, ActionsAssumption DEF IInv, TypeOK, Scopes, MoveThrows, Raise, Running, guardVars, history
<1>1. TypeOK'
  OBVIOUS
<1>2. Levels'
  BY DEF Levels, Unwinding
<1>3. Nested'
  BY DEF Nested
<1>4. Counts'
  BY DEF Counts, Nested
<1>5. Holding'
  BY DEF Holding
<1>6. OneOwner'
  BY DEF OneOwner, Holding, Live, Nested
<1>7. Named'
  BY DEF Named, RunsAsNamed, OneOwner, Holding, Levels, Unwinding, Counts
<1> QED
  BY <1>1, <1>2, <1>3, <1>4, <1>5, <1>6, <1>7 DEF IInv

\* A guard is released.
LEMMA ReleaseKeeps ==
  ASSUME IInv, NEW g \in Objects, Release(g)
  PROVE  IInv'
<1> USE DepthAssumption, KindAssumption, ActionsAssumption DEF IInv, TypeOK, Scopes, Release, Running, Cleanup!Due, Cleanup!Fates, Cleanup!Kinds, scopeVars, Live
<1>1. TypeOK'
  OBVIOUS
<1>2. Levels'
  BY DEF Levels, Unwinding
<1>3. Nested'
  BY DEF Nested
<1>4. Counts'
  BY DEF Counts, Nested
<1>5. Holding'
  BY DEF Holding
<1>6. OneOwner'
  BY DEF OneOwner, Holding, Live, Nested
<1>7. Named'
  BY DEF Named, RunsAsNamed, OneOwner, Holding, Levels, Unwinding, Counts
<1> QED
  BY <1>1, <1>2, <1>3, <1>4, <1>5, <1>6, <1>7 DEF IInv

\* A guard is destroyed.
LEMMA DestroyKeeps ==
  ASSUME IInv, NEW g \in Objects, Destroy(g)
  PROVE  IInv'
<1> USE DepthAssumption, KindAssumption, ActionsAssumption DEF IInv, TypeOK, Scopes, Destroy, Hold, Invoke, Fires, Running, Throwing, Cleanup!Due, Cleanup!Fates, Cleanup!Kinds, scopeVars, history, Live
<1>1. TypeOK'
  <2>1. /\ home' \in [Objects -> 0 .. MaxDepth] /\ active' \in [Objects -> BOOLEAN]
        /\ function' \in [Objects -> Actions \cup {NoAction}]
        /\ exceptionCount' \in [Objects -> Nat]
    OBVIOUS
  <2>2. CASE active[g]
    <3>1. function[g] \in Actions
      BY <2>2 DEF Holding
    <3>2. ran' \in [Actions -> Nat]
      BY <2>2, <3>1
    <3>3. fate' \in [Actions -> Fate]
      BY <2>2, <3>1 DEF Fate
    <3> QED
      BY <2>1, <3>2, <3>3 DEF Fate
  <2>3. CASE ~active[g]
    BY <2>1, <2>3
  <2> QED
    BY <2>2, <2>3
<1>2. Levels'
  BY DEF Levels, Unwinding
<1>3. Nested'
  BY DEF Nested
<1>4. Counts'
  BY DEF Counts, Nested
<1>5. Holding'
  BY DEF Holding
<1>6. OneOwner'
  <2>1. ~active'[g] /\ \A k \in Objects \ {g} :
          active'[k] = active[k] /\ function'[k] = function[k] /\ home'[k] = home[k]
    OBVIOUS
  <2>2. CASE active[g]
    <3> DEFINE c == function[g]
    <3>1. c \in Actions /\ fate[c] = "held"
      BY <2>2 DEF Holding, OneOwner
    <3>2. /\ fate'[c] # "held"
          /\ \A d \in Actions \ {c} : fate'[d] = fate[d]
      BY <2>2, <3>1
    <3>3. \A k \in Objects \ {g} : active[k] => function[k] # c
      BY <2>2 DEF OneOwner
    <3> QED
      BY <2>1, <3>1, <3>2, <3>3 DEF OneOwner, Holding
  <2>3. CASE ~active[g]
    BY <2>1, <2>3 DEF OneOwner
  <2> QED
    BY <2>2, <2>3
<1>7. Named'
  <2>1. CASE active[g] /\ ~AcrossUnwinding
    <3> DEFINE c == function[g]
    <3>1. c \in Actions /\ fate[c] = "held"
      BY <2>1 DEF Holding, OneOwner
    <3>2. uncaught > exceptionCount[g] <=> Throwing
      BY <2>1 DEF Levels, Unwinding, Counts
    <3>3. exceptionCount[g] \in Nat /\ uncaught \in Nat
      OBVIOUS
    <3>4. fate'[c] = (IF Throwing THEN "unwound" ELSE "normal")
          /\ \A d \in Actions \ {c} : fate'[d] = fate[d]
      BY <2>1, <3>1
    <3>5. ran[c] = 0
      BY <2>1, <3>1 DEF Named, RunsAsNamed
    <3>6. /\ ran'[c] = IF Fires(g) THEN 1 ELSE 0
          /\ \A d \in Actions \ {c} : ran'[d] = ran[d]
      BY <2>1, <3>1, <3>5
    <3>7. Kind[c] \in Cleanup!Kinds
      BY <3>1
    <3>8. Fires(g) <=> Cleanup!Due(Kind[c], fate'[c])
      BY <3>2, <3>3, <3>4, <3>7
    <3>9. fate'[c] \notin {"none", "held"}
      BY <3>4
    <3>10. RunsAsNamed'
      <4> SUFFICES ASSUME NEW d \in Actions
                   PROVE  ran'[d] = IF fate'[d] \notin {"none", "held"}
                                       /\ Cleanup!Due(Kind[d], fate'[d]) THEN 1 ELSE 0
        BY DEF RunsAsNamed
      <4>1. CASE d = c
        BY <4>1, <3>6, <3>8, <3>9
      <4>2. CASE d # c
        BY <4>2, <2>1, <3>4, <3>6 DEF Named, RunsAsNamed
      <4> QED
        BY <4>1, <4>2
    <3> QED
      BY <3>10 DEF Named
  <2>2. CASE ~active[g]
    BY <2>2 DEF Named, RunsAsNamed
  <2>3. CASE AcrossUnwinding
    BY <2>3 DEF Named
  <2> QED
    BY <2>1, <2>2, <2>3
<1> QED
  BY <1>1, <1>2, <1>3, <1>4, <1>5, <1>6, <1>7 DEF IInv

\* Every step keeps the invariant.
LEMMA NextKeeps == IInv /\ [Next]_vars => IInv'
<1> SUFFICES ASSUME IInv, [Next]_vars PROVE IInv'
  OBVIOUS
<1>1. CASE Enter \/ Throw \/ Leave \/ ScopeEnds
  BY <1>1, EnterKeeps, ThrowKeeps, LeaveKeeps, ScopeEndsKeeps
<1>2. ASSUME NEW c \in Actions, ConstructThrows(c) PROVE IInv'
  BY <1>2, ConstructThrowsKeeps
<1>3. ASSUME NEW g \in Objects, GuardStep(g) PROVE IInv'
  <2>1. ASSUME NEW h \in Objects \ {g}, Move(g, h) PROVE IInv'
    BY <2>1, MoveKeeps
  <2>2. ASSUME NEW c \in Actions, Construct(g, c) PROVE IInv'
    BY <2>2, ConstructKeeps
  <2> QED
    BY <1>3, <2>1, <2>2, MoveThrowsKeeps, ReleaseKeeps, DestroyKeeps DEF GuardStep
<1>4. CASE UNCHANGED vars
  BY <1>4 DEF vars, scopeVars, guardVars, history, IInv, TypeOK, Levels, Unwinding,
              Nested, Counts, Holding, OneOwner, Live, Named, RunsAsNamed
<1> QED
  BY <1>1, <1>2, <1>3, <1>4 DEF Next

\* The inductive invariant: a guard's count is the one at the entry of its scope,
\* and an action that is owed has one active guard (scope.hpp:115-123, 155-157).
THEOREM GuardInvariant == Spec => []IInv
  BY InitOK, NextKeeps, PTL DEF Spec

\* Every variable keeps its type (the members of the guards, scope.hpp:140-142).
THEOREM TypeCorrect == Spec => []TypeOK
<1>1. IInv => TypeOK
  BY DEF IInv
<1> QED
  BY <1>1, GuardInvariant, PTL

\* An owed action has exactly one active guard, wherever it was moved
\* (scope.hpp:83-85, 115-123).
THEOREM ActionHasOneOwner == Spec => []OneOwner
<1>1. IInv => OneOwner
  BY DEF IInv
<1> QED
  BY <1>1, GuardInvariant, PTL

\* The comparison in the destructors tells whether an exception is leaving the
\* guard's scope, at any depth of nested unwinding (scope.hpp:155-157, 215, 298).
THEOREM CountTells == ASSUME ~AcrossUnwinding PROVE Spec => []CountTellsUnwinding
<1>1. IInv => CountTellsUnwinding
  <2> SUFFICES ASSUME IInv, NEW g \in Objects, depth > 0, home[g] = depth
               PROVE  uncaught > exceptionCount[g] <=> Throwing
    BY DEF CountTellsUnwinding
  <2>1. depth \in Scopes /\ base[depth] \in Nat
    BY DEF IInv, TypeOK, Scopes
  <2>2. exceptionCount[g] = base[depth]
    BY DEF IInv, Counts
  <2> QED
    BY <2>1, <2>2 DEF IInv, Levels, Unwinding, Throwing
<1> QED
  BY <1>1, GuardInvariant, PTL

\* Every action ran once if its guard ended the way its class is named for, and
\* never otherwise (scope.hpp:31-33, 134-138, 214-218, 297-301).
THEOREM ActionsRunAsNamed == ASSUME ~AcrossUnwinding PROVE Spec => []RunsAsNamed
<1>1. IInv => RunsAsNamed
  BY DEF IInv, Named
<1> QED
  BY <1>1, GuardInvariant, PTL

\* Every step is one of the abstract specification, or changes no fate.
LEMMA StepSettles ==
  ASSUME ~AcrossUnwinding, IInv, IInv', [Next]_vars
  PROVE  [Cleanup!Next]_(Cleanup!vars)
<1> USE DEF IInv, TypeOK, Cleanup!vars
<1>1. CASE Enter \/ Throw \/ Leave \/ ScopeEnds
  BY <1>1 DEF Enter, Throw, Leave, ScopeEnds, history
<1>2. ASSUME NEW c \in Actions, ConstructThrows(c) PROVE Cleanup!Next
  <2>1. Compensates(c) <=> Cleanup!Due(Kind[c], "failed")
    BY KindAssumption DEF Compensates, Cleanup!Due, Cleanup!Kinds
  <2>2. Cleanup!Settled(c, "failed")
    BY <1>2, <2>1 DEF ConstructThrows, Invoke, Cleanup!Settled
  <2> QED
    BY <2>2 DEF Cleanup!Next, Cleanup!Fates
<1>3. ASSUME NEW g \in Objects, GuardStep(g) PROVE [Cleanup!Next]_(Cleanup!vars)
  <2>1. ASSUME NEW h \in Objects, Move(g, h) PROVE UNCHANGED history
    BY <2>1 DEF Move
  <2>2. ASSUME NEW c \in Actions, Construct(g, c) PROVE Cleanup!Next
    BY <2>2 DEF Construct, Cleanup!Next
  <2>3. ASSUME Release(g), active[g] PROVE Cleanup!Next
    <3>1. function[g] \in Actions /\ fate[function[g]] = "held"
      BY <2>3 DEF Holding, OneOwner
    <3>2. ~Cleanup!Due(Kind[function[g]], "released")
      BY DEF Cleanup!Due
    <3>3. Cleanup!Settled(function[g], "released")
      BY <2>3, <3>1, <3>2 DEF Release, Cleanup!Settled
    <3> QED
      BY <3>1, <3>3 DEF Cleanup!Next, Cleanup!Fates
  <2>4. ASSUME Destroy(g), active[g] PROVE Cleanup!Next
    <3> DEFINE c == function[g]
               how == IF Throwing THEN "unwound" ELSE "normal"
    <3>1. c \in Actions /\ fate[c] = "held" /\ Kind[c] \in Cleanup!Kinds
      BY <2>4, KindAssumption DEF Holding, OneOwner
    <3>2. /\ uncaught > exceptionCount[g] <=> Throwing
          /\ uncaught \in Nat /\ exceptionCount[g] \in Nat
      <4>1. depth \in Scopes /\ base[depth] \in Nat
        BY <2>4 DEF Destroy, Scopes
      <4>2. exceptionCount[g] = base[depth]
        BY <2>4, <4>1 DEF Destroy, Counts
      <4> QED
        BY <2>4, <4>1, <4>2 DEF Destroy, Throwing, Levels, Unwinding
    <3>3. Fires(g) <=> Cleanup!Due(Kind[c], how)
      BY <3>1, <3>2 DEF Fires, Cleanup!Due, Cleanup!Kinds
    <3>4. Cleanup!Settled(c, how)
      BY <2>4, <3>1, <3>3 DEF Destroy, Invoke, Cleanup!Settled
    <3> QED
      BY <3>1, <3>4 DEF Cleanup!Next, Cleanup!Fates
  <2>5. ASSUME Release(g) \/ Destroy(g), ~active[g] PROVE UNCHANGED history
    BY <2>5 DEF Release, Destroy, history
  <2> QED
    BY <1>3, <2>1, <2>2, <2>3, <2>4, <2>5 DEF GuardStep, MoveThrows, history
<1>4. CASE UNCHANGED vars
  BY <1>4 DEF vars, history
<1> QED
  BY <1>1, <1>2, <1>3, <1>4 DEF Next

\* The guards implement ScopedCleanup: an action is owed, then settled once, run
\* or not as its class says (scope.hpp:69-313).
THEOREM GuardsKeepPromise == ASSUME ~AcrossUnwinding PROVE Spec => KeepsPromise
<1>1. Init => Cleanup!Init
  BY DEF Init
<1>2. IInv /\ IInv' /\ [Next]_vars => [Cleanup!Next]_(Cleanup!vars)
  BY StepSettles
<1> QED
  BY <1>1, <1>2, GuardInvariant, PTL DEF Spec, Cleanup!Spec, KeepsPromise
=============================================================================
