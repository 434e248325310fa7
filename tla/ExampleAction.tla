----------------------------- MODULE ExampleAction -----------------------------
(***************************************************************************)
(* The action function of the example (main.cpp): a stopped service is      *)
(* answered with a beep unless one of some executables is running, which    *)
(* MuteLogic() asks IsExecutableRuns() about, one after the other, while    *)
(* processes start and end.                                                 *)
(***************************************************************************)
EXTENDS ExecutableProbe, Sequences

CONSTANTS Mutes,    \* the executables that mute the action, in order
          Current,  \* the states the notifier calls the action function with
          Stopped   \* SERVICE_NOTIFY_STOPPED

ASSUME MutesAssumption == Mutes \in Seq(Paths)

VARIABLES stage,    \* where OnNotificationActionFunction() is
          state,    \* current_state
          index,    \* the executable MuteLogic() is at
          muted,    \* what MuteLogic() returned
          outcome,  \* what the last call did
          met,      \* history: a muting process ran during the call
          since     \* history: the processes that ran since it began, in reach of
                    \* the snapshots that were taken

actionVars == <<stage, state, index, muted, outcome>>
actionHistory == <<met, since>>
allVars == <<vars, actionVars, actionHistory>>

Muting == {Mutes[k] : k \in DOMAIN Mutes}
Muters == {i \in Pids : proc[i] \in Muting}

ActionInit ==
  /\ Init
  /\ stage = "out" /\ state \in Current /\ index = 1 /\ muted = FALSE
  /\ outcome = "none"
  /\ met = FALSE /\ since = {}

Notify(st) ==
  /\ stage = "out"
  /\ stage' = "mute" /\ state' = st /\ index' = 1 /\ muted' = FALSE
  /\ outcome' = "none"
  /\ met' = (Muters # {}) /\ since' = Muters
  /\ UNCHANGED vars

\* An exception ends the call without an action.
Swallow == stage' = "out" /\ outcome' = "threw" /\ UNCHANGED <<state, index, muted>>

\* A string or the list of executables cannot be allocated.
NotifyThrows ==
  /\ stage = "mute" /\ pc = "idle" /\ index = 1
  /\ Swallow
  /\ UNCHANGED <<vars, actionHistory>>

Ask ==
  /\ stage = "mute" /\ pc = "idle" /\ index \in DOMAIN Mutes
  /\ Call(Mutes[index])
  /\ UNCHANGED <<actionVars, actionHistory>>

\* Variant: only the last executable counts.
AskLast == muted' = (result = "true") /\ index' = index + 1 /\ UNCHANGED stage

\* The executable runs: muted; or the next one is asked about.
Learn ==
  IF result = "true"
  THEN muted' = TRUE /\ stage' = "decide" /\ UNCHANGED index
  ELSE index' = index + 1 /\ UNCHANGED <<muted, stage>>

Told ==
  /\ stage = "mute" /\ Answered
  /\ \/ result = "threw" /\ Swallow
     \/ result # "threw" /\ Learn /\ UNCHANGED <<state, outcome>>
  /\ since' = IF blind THEN since \ Running(wanted) ELSE since
  /\ UNCHANGED met

NoneRuns ==
  /\ stage = "mute" /\ pc = "idle" /\ index > Len(Mutes)
  /\ stage' = "decide"
  /\ UNCHANGED <<vars, state, index, muted, outcome, actionHistory>>

TakesAction == ~muted /\ state = Stopped

Decide ==
  /\ stage = "decide"
  /\ outcome' = IF TakesAction THEN "acted" ELSE "silent"
  /\ stage' = "out"
  /\ UNCHANGED <<vars, state, index, muted, actionHistory>>

ActionStep ==
  \/ NotifyThrows \/ Ask \/ Told \/ NoneRuns \/ Decide
  \/ Probe /\ UNCHANGED <<actionVars, actionHistory>>

\* Processes come and go.
Background ==
  /\ Others
  /\ met' = (met \/ Muters' # {})
  /\ since' = since \cap Muters'
  /\ UNCHANGED actionVars

ActionNext == ActionStep \/ Background \/ \E st \in Current : Notify(st)

ActionSpec == ActionInit /\ [][ActionNext]_allVars
FairActionSpec == ActionSpec /\ WF_allVars(ActionStep)

-----------------------------------------------------------------------------
(* Properties *)

\* The action is taken for a stopped service only, and never past an executable
\* that could be found and ran all through the call (main.cpp:25-41 and 59-61).
ActsOnlyUnmuted ==
  outcome = "acted" =>
    /\ state = Stopped
    /\ \A i \in since : proc[i] \notin Accessible \/ Length[proc[i]] >= MaxPath

\* A stopped service is passed over in silence only if a muting executable ran at
\* some time of the call, or the call failed (main.cpp:59-61).
SilentIfMuted == outcome = "silent" /\ state = Stopped => met

\* The action function returns, which the notifier relies on (README.md:55).
ActionEnds == stage = "mute" ~> stage = "out"
=============================================================================
