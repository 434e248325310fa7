------------------------------ MODULE ScopeGuard ------------------------------
(***************************************************************************)
(* The guards scope_exit, scope_fail and scope_success (scope.hpp) on one   *)
(* thread.  Scopes nest: a scope is entered from a running one, or from the *)
(* destructor of a local of a scope that is being left, so that code runs   *)
(* and throws while another exception is unwinding.  Guard objects are      *)
(* constructed, moved, released and destroyed; storing the callable may     *)
(* throw.  Scopes and exceptions are the language's, modelled from what the *)
(* guards use of them.                                                      *)
(***************************************************************************)
EXTENDS Naturals

CONSTANTS Objects,    \* places for guard objects
          Actions,    \* the callables, each given to one guard
          Kind,       \* the class of that guard
          NoAction,   \* what an unused place holds
          MaxDepth,   \* bound on nested scopes
          AcrossUnwinding  \* guards are moved into scopes, too, that were entered
                           \* while an exception unwinds theirs

ASSUME DepthAssumption == MaxDepth \in Nat \ {0}
ASSUME ActionsAssumption == NoAction \notin Actions

VARIABLES depth,      \* number of scopes entered and not left
          mode,       \* what each of them does
          uncaught,   \* std::uncaught_exceptions()
          home,       \* the scope a guard object is a local of, 0 for no object
          function,   \* function_
          exceptionCount,  \* exception_count_
          active,     \* active_
          base,       \* history: uncaught when the scope was entered
          fate,       \* history: how the guard of each action was done with it
          ran         \* history: calls of each action

scopeVars == <<depth, mode, uncaught, base>>
guardVars == <<home, function, exceptionCount, active>>
history == <<fate, ran>>
vars == <<scopeVars, guardVars, history>>

Cleanup == INSTANCE ScopedCleanup

ASSUME KindAssumption == Kind \in [Actions -> Cleanup!Kinds]

Scopes == 1 .. MaxDepth

Init ==
  /\ depth = 1
  /\ mode = [i \in Scopes |-> "running"]
  /\ uncaught = 0
  /\ base = [i \in Scopes |-> 0]
  /\ home = [g \in Objects |-> 0]
  /\ function = [g \in Objects |-> NoAction]
  /\ exceptionCount = [g \in Objects |-> 0]
  /\ active = [g \in Objects |-> FALSE]
  /\ Cleanup!Init

Running == depth > 0 /\ mode[depth] = "running"
Throwing == mode[depth] = "throwing"

\* An exception starts to unwind the innermost scope.
Raise ==
  /\ mode' = [mode EXCEPT ![depth] = "throwing"]
  /\ uncaught' = uncaught + 1
  /\ UNCHANGED <<depth, base>>

-----------------------------------------------------------------------------
(* Scopes *)

\* Also from a destructor that runs while the scope below is being left.
Enter ==
  /\ depth \in 1 .. MaxDepth - 1
  /\ depth' = depth + 1
  /\ base' = [base EXCEPT ![depth + 1] = uncaught]
  /\ UNCHANGED <<mode, uncaught, guardVars, history>>

Throw == Running /\ Raise /\ UNCHANGED <<guardVars, history>>

Leave ==
  /\ Running
  /\ mode' = [mode EXCEPT ![depth] = "leaving"]
  /\ UNCHANGED <<depth, uncaught, base, guardVars, history>>

\* The locals of the scope are destroyed.  An exception is caught there, or goes
\* on if the scope outside was running: it cannot leave a destructor.
ScopeEnds ==
  /\ depth > 0 /\ ~Running
  /\ \A g \in Objects : home[g] # depth
  /\ depth' = depth - 1
  /\ base' = [base EXCEPT ![depth] = 0]
  /\ \/ /\ uncaught' = IF Throwing THEN uncaught - 1 ELSE uncaught
        /\ mode' = [mode EXCEPT ![depth] = "running"]
     \/ /\ Throwing /\ depth > 1 /\ mode[depth - 1] = "running"
        /\ mode' = [mode EXCEPT ![depth] = "running", ![depth - 1] = "throwing"]
        /\ UNCHANGED uncaught
  /\ UNCHANGED <<guardVars, history>>

-----------------------------------------------------------------------------
(* Guards *)

\* The object g is constructed as a local of scope i.
Hold(g, i, c, count, isActive) ==
  /\ home' = [home EXCEPT ![g] = i]
  /\ function' = [function EXCEPT ![g] = c]
  /\ exceptionCount' = [exceptionCount EXCEPT ![g] = count]
  /\ active' = [active EXCEPT ![g] = isActive]

\* Variant: the count starts at 0.
CountFromZero == 0
CountNow == uncaught

Construct(g, c) ==
  /\ Running /\ home[g] = 0
  /\ Hold(g, depth, c, CountNow, TRUE)
  /\ Cleanup!Guarded(c)
  /\ UNCHANGED scopeVars

\* Variant: the compensating catch is in every class.
CompensatesAlways(c) == TRUE
\* The classes whose constructors invoke the source callable in a catch.
Compensates(c) == Kind[c] # "success"

Invoke(c, called) == ran' = [ran EXCEPT ![c] = IF called THEN @ + 1 ELSE @]

\* Storing the callable throws: there is no guard, and the exception goes on.
ConstructThrows(c) ==
  /\ Running /\ fate[c] = "none"
  /\ Invoke(c, Compensates(c))
  /\ fate' = [fate EXCEPT ![c] = "failed"]
  /\ Raise
  /\ UNCHANGED guardVars

\* A guard may be moved within its scope, into a scope entered since, or out to
\* the scope outside, as a value that is returned.
Reaches(g, i) ==
  /\ i \in {depth, depth - 1} \ {0} /\ mode[i] = "running"
  /\ AcrossUnwinding \/ base[i] = base[home[g]]

\* Variant of the move constructor: other is not released.
MoveKeepsSource(g, h) ==
  active' = [active EXCEPT ![h] = active[g]]
TransferActive(g, h) ==
  active' = [active EXCEPT ![h] = active[g], ![g] = FALSE]

\* The move constructor: h takes over what g holds, and g is released.
Move(g, h) ==
  /\ Running /\ home[g] # 0 /\ home[h] = 0
  /\ \E i \in Scopes : Reaches(g, i) /\ home' = [home EXCEPT ![h] = i]
  /\ function' = [function EXCEPT ![h] = function[g]]
  /\ exceptionCount' = [exceptionCount EXCEPT ![h] = exceptionCount[g]]
  /\ TransferActive(g, h)
  /\ UNCHANGED <<scopeVars, history>>

\* Moving the callable throws: other is not released and stays responsible.
MoveThrows(g) ==
  /\ Running /\ home[g] # 0
  /\ Raise
  /\ UNCHANGED <<guardVars, history>>

Release(g) ==
  /\ Running /\ home[g] # 0
  /\ active' = [active EXCEPT ![g] = FALSE]
  /\ fate' = IF active[g] THEN [fate EXCEPT ![function[g]] = "released"] ELSE fate
  /\ UNCHANGED <<scopeVars, home, function, exceptionCount, ran>>

\* Variant of the tests of the destructors: scope_fail fires at the same count.
FiresAtCount(g) ==
  \/ Kind[function[g]] = "exit"
  \/ Kind[function[g]] = "fail" /\ uncaught >= exceptionCount[g]
  \/ Kind[function[g]] = "success" /\ uncaught <= exceptionCount[g]

\* What an active guard's destructor tests.
Fires(g) ==
  \/ Kind[function[g]] = "exit"
  \/ Kind[function[g]] = "fail" /\ uncaught > exceptionCount[g]
  \/ Kind[function[g]] = "success" /\ uncaught <= exceptionCount[g]

\* A local of the scope being left is destroyed.  fate tells from the scope, not
\* from the count, how it ended.
Destroy(g) ==
  /\ depth > 0 /\ ~Running /\ home[g] = depth
  /\ Hold(g, 0, NoAction, 0, FALSE)
  /\ IF active[g]
     THEN /\ Invoke(function[g], Fires(g))
          /\ fate' = [fate EXCEPT ![function[g]] = IF Throwing THEN "unwound" ELSE "normal"]
     ELSE UNCHANGED history
  /\ UNCHANGED scopeVars

GuardStep(g) ==
  \/ MoveThrows(g) \/ Release(g) \/ Destroy(g)
  \/ \E h \in Objects \ {g} : Move(g, h)
  \/ \E c \in Actions : Construct(g, c)

Next ==
  \/ Enter \/ Throw \/ Leave \/ ScopeEnds
  \/ \E c \in Actions : ConstructThrows(c)
  \/ \E g \in Objects : GuardStep(g)
  \/ depth = 0 /\ UNCHANGED vars

Spec == Init /\ [][Next]_vars

-----------------------------------------------------------------------------
(* Properties *)

Live(g) == home[g] # 0

TypeOK ==
  /\ depth \in 0 .. MaxDepth
  /\ mode \in [Scopes -> {"running", "leaving", "throwing"}]
  /\ uncaught \in Nat
  /\ base \in [Scopes -> Nat]
  /\ home \in [Objects -> 0 .. MaxDepth]
  /\ function \in [Objects -> Actions \cup {NoAction}]
  /\ exceptionCount \in [Objects -> Nat]
  /\ active \in [Objects -> BOOLEAN]
  /\ fate \in [Actions -> Cleanup!Fates \cup {"none", "held"}]
  /\ ran \in [Actions -> Nat]

\* When a guard is destroyed, the count of exceptions is greater than the recorded
\* one if and only if an exception is unwinding through its scope, not if one
\* unwinds further out (scope.hpp:155-157).
CountTellsUnwinding ==
  \A g \in Objects :
    depth > 0 /\ ~Running /\ home[g] = depth =>
      (uncaught > exceptionCount[g] <=> Throwing)

\* Whatever was moved, released or thrown, each action ran once if its guard was
\* left the way its class is named for, and never otherwise (scope.hpp:31-33,
\* 69-71, 150-153, 232-237).
RunsAsNamed ==
  \A c \in Actions :
    ran[c] = IF fate[c] \notin {"none", "held"} /\ Cleanup!Due(Kind[c], fate[c]) THEN 1 ELSE 0

\* An action that is owed has exactly one active guard, in a scope that is not
\* left yet; one that is not has none (scope.hpp:83-85 and 115-116).
OneOwner ==
  /\ \A g \in Objects : active[g] => Live(g) /\ home[g] <= depth /\ fate[function[g]] = "held"
  /\ \A g, h \in Objects :
       active[g] /\ active[h] /\ function[g] = function[h] => g = h
  /\ \A c \in Actions :
       fate[c] = "held" => \E g \in Objects : active[g] /\ function[g] = c

\* Guards keep the promise: an action is owed, and then settled once for good,
\* run or not as its class says.
KeepsPromise == Cleanup!Spec
=============================================================================
