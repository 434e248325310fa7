-------------------------- MODULE ExampleActionProofs --------------------------
(***************************************************************************)
(* Proofs about ExampleAction, for any list of muting executables and any   *)
(* number of processes.                                                     *)
(*                                                                         *)
(* The argument: the action function makes only steps that a client of      *)
(* IsExecutableRuns() makes, so the probe's invariant holds during all of   *)
(* its questions.  A process that ran since the call began is among those   *)
(* that the probe watches when its executable is asked about; so, behind    *)
(* index, only processes are left that the probe cannot tell.               *)
(***************************************************************************)
EXTENDS ExampleAction, ExecutableProbeProofs

\* The paths that IsExecutableRuns() may answer FALSE for while they run.
Hidden(p) == p \notin Accessible \/ Length[p] >= MaxPath

ActionTypeOK ==
  /\ stage \in {"out", "mute", "decide"} /\ state \in Current
  /\ index \in 1 .. Len(Mutes) + 1 /\ muted \in BOOLEAN
  /\ outcome \in {"none", "acted", "silent", "threw"}
  /\ met \in BOOLEAN /\ since \subseteq Pids

\* What the history variables stand for.
Traced ==
  /\ \A i \in since : proc[i] \in Muting
  /\ \A i \in Pids : proc[i] \in Muting => met

\* The question under way is about the executable at index.
Asking ==
  /\ stage # "mute" => pc = "idle"
  /\ pc # "idle" => /\ index \in DOMAIN Mutes /\ wanted = Mutes[index]
                    /\ seen => met
                    /\ \A i \in since : proc[i] = wanted => i \in throughout

\* The executables before index were not found.
Asked ==
  /\ stage = "mute" => \A k \in 1 .. index - 1 :
                         \A i \in since : proc[i] = Mutes[k] => Hidden(proc[i])
  /\ stage = "decide" => muted \/ \A i \in since : Hidden(proc[i])

Decided ==
  /\ stage # "out" => outcome = "none"
  /\ muted => met

ActionIInv ==
  /\ IInv
  /\ ActionTypeOK /\ Traced /\ Asking /\ Asked /\ Decided
  /\ ActsOnlyUnmuted /\ SilentIfMuted

-----------------------------------------------------------------------------
(* The questions are calls of IsExecutableRuns() *)

\* A step of the action function is one of the probe's client, or none.
LEMMA StepIsProbes == [ActionNext]_allVars => [Next]_vars
<1> SUFFICES ASSUME [ActionNext]_allVars PROVE [Next]_vars
  OBVIOUS
<1>1. CASE Ask
  BY <1>1, MutesAssumption DEF Ask, Next
<1>2. CASE Told
  BY <1>2 DEF Told, Next
<1>3. CASE NotifyThrows \/ NoneRuns \/ Decide \/ \E st \in Current : Notify(st)
  BY <1>3 DEF NotifyThrows, NoneRuns, Decide, Notify
<1>4. CASE Probe \/ Background
  BY <1>4 DEF Background, Next
<1>5. CASE UNCHANGED allVars
  BY <1>5 DEF allVars
<1> QED
  BY <1>1, <1>2, <1>3, <1>4, <1>5 DEF ActionNext, ActionStep

\* The action function is a client of ExecutableProbe: what is proved of every
\* call of IsExecutableRuns() holds of those it makes (main.cpp:33-38).
THEOREM ActionIsClient == ActionSpec => Spec
<1>1. ActionInit => Init
  BY DEF ActionInit
<1> QED
  BY <1>1, StepIsProbes, PTL DEF ActionSpec, Spec

-----------------------------------------------------------------------------
(* Every step keeps the invariant *)

\* What is known of the questions, apart from the processes.
Course == ActionTypeOK /\ Asking /\ Asked /\ Decided /\ ActsOnlyUnmuted /\ SilentIfMuted

\* No call was made in the initial states.
LEMMA ActionInitOK == ActionInit => ActionIInv
<1> SUFFICES ASSUME ActionInit PROVE ActionIInv
  OBVIOUS
<1>1. IInv
  BY InitOK DEF ActionInit
<1>2. Len(Mutes) \in Nat /\ \A i \in Pids : proc[i] \notin Muting
  BY MutesAssumption, NoneAssumption DEF ActionInit, Init, Muting
<1>3. ActionTypeOK /\ Traced
  <2>1. index \in 1 .. Len(Mutes) + 1
    BY <1>2 DEF ActionInit
  <2>2. ActionTypeOK
    BY <2>1 DEF ActionInit, ActionTypeOK
  <2>3. Traced
    BY <1>2 DEF ActionInit, Traced
  <2> QED
    BY <2>2, <2>3
<1>4. Asking /\ Asked /\ Decided /\ ActsOnlyUnmuted /\ SilentIfMuted
  BY DEF ActionInit, Init, Asking, Asked, Decided, ActsOnlyUnmuted, SilentIfMuted
<1> QED
  BY <1>1, <1>3, <1>4 DEF ActionIInv

\* The action function is called: the processes that mute it now are remembered.
LEMMA NotifyKeeps ==
  ASSUME ActionIInv, NEW st \in Current, Notify(st)
  PROVE  (Traced /\ Course)'
<1> USE DEF ActionIInv, Notify, vars, history
<1>1. since' = {i \in Pids : proc[i] \in Muting} /\ proc' = proc /\ pc' = pc
  BY DEF Muters
<1>2. ActionTypeOK'
  <2>1. index' \in 1 .. Len(Mutes) + 1
    BY MutesAssumption
  <2>2. met' \in BOOLEAN
    OBVIOUS
  <2>3. since' \subseteq Pids
    BY <1>1
  <2> QED
    BY <2>1, <2>2, <2>3 DEF ActionTypeOK
<1>3. Traced'
  BY <1>1 DEF Traced, Muters
<1>4. Asking' /\ Asked'
  BY <1>1 DEF Asking, Asked
<1>5. Decided' /\ ActsOnlyUnmuted' /\ SilentIfMuted'
  BY DEF Decided, ActsOnlyUnmuted, SilentIfMuted
<1> QED
  BY <1>2, <1>3, <1>4, <1>5 DEF Course

\* The function fails before it asks.
LEMMA NotifyThrowsKeeps ==
  ASSUME ActionIInv, NotifyThrows
  PROVE  (Traced /\ Course)'
<1> USE DEF ActionIInv, NotifyThrows, Swallow, vars, history, actionHistory
<1>1. ActionTypeOK' /\ Traced'
  BY DEF ActionTypeOK, Traced
<1>2. Asking' /\ Asked'
  BY DEF Asking, Asked
<1>3. Decided' /\ ActsOnlyUnmuted' /\ SilentIfMuted'
  BY DEF Decided, ActsOnlyUnmuted, SilentIfMuted
<1> QED
  BY <1>1, <1>2, <1>3 DEF Course

\* A question begins: the processes of its executable that ran all the time are
\* among those the probe watches.
LEMMA AskKeeps ==
  ASSUME ActionIInv, Ask
  PROVE  (Traced /\ Course)'
<1> USE DEF ActionIInv, Ask, Call, actionVars, actionHistory
<1>1. ActionTypeOK' /\ Traced'
  BY DEF ActionTypeOK, Traced
<1>2. Asking'
  <2>1. index \in DOMAIN Mutes /\ wanted' = Mutes[index] /\ Mutes[index] \in Muting
    BY DEF Muting
  <2>2. seen' => met'
    BY <2>1 DEF Running, Traced
  <2>3. \A i \in since : proc[i] = Mutes[index] => i \in throughout'
    BY DEF Running, ActionTypeOK
  <2> QED
    BY <2>1, <2>2, <2>3 DEF Asking
<1>3. Asked'
  BY DEF Asked
<1>4. Decided' /\ ActsOnlyUnmuted' /\ SilentIfMuted'
  BY DEF Decided, ActsOnlyUnmuted, SilentIfMuted
<1> QED
  BY <1>1, <1>2, <1>3, <1>4 DEF Course

\* The probe works on the question.
LEMMA ProbeKeeps ==
  ASSUME ActionIInv, Probe, UNCHANGED <<actionVars, actionHistory>>
  PROVE  (Traced /\ Course)'
<1> USE DEF ActionIInv, actionVars, actionHistory
<1>1. /\ pc # "idle" /\ pc' # "idle"
      /\ UNCHANGED <<proc, wanted, seen, throughout>>
  BY DEF Probe, Snapshot, NextEntry, NoMoreEntries, OpenProcess, Query, CloseProcess,
         CloseSnapshot, CallThrows, SnapshotFails, OpenFails, QueryFails, NotThisProcess, history
<1>2. ActionTypeOK' /\ Traced'
  BY <1>1 DEF ActionTypeOK, Traced
<1>3. Asking' /\ Asked'
  BY <1>1 DEF Asking, Asked
<1>4. Decided' /\ ActsOnlyUnmuted' /\ SilentIfMuted'
  BY <1>1 DEF Decided, ActsOnlyUnmuted, SilentIfMuted
<1> QED
  BY <1>2, <1>3, <1>4 DEF Course

\* The answer is taken.  FALSE leaves behind only processes that the probe cannot
\* tell, or that were out of reach because there was no snapshot.
LEMMA ToldKeeps ==
  ASSUME ActionIInv, Told
  PROVE  (Traced /\ Course)'
<1> USE DEF ActionIInv
<1>1. /\ stage = "mute" /\ pc = "done" /\ pc' = "idle" /\ state' = state /\ met' = met
      /\ UNCHANGED <<proc, wanted>>
      /\ since' \subseteq since
  BY DEF Told, Answered, Swallow
<1>2. index \in DOMAIN Mutes /\ wanted = Mutes[index] /\ (seen => met) /\ Len(Mutes) \in Nat
  BY <1>1, MutesAssumption DEF Asking
<1>3. \A i \in since : proc[i] = wanted => i \in throughout
  BY <1>1 DEF Asking
<1>4. result \in {"true", "false", "threw"}
  BY <1>1 DEF IInv, TypeOK, Results
<1>5. \/ /\ result = "threw" /\ stage' = "out" /\ outcome' = "threw"
         /\ UNCHANGED <<index, muted>>
      \/ /\ result = "true" /\ stage' = "decide" /\ muted' = TRUE
         /\ UNCHANGED <<index, outcome>>
      \/ /\ result = "false" /\ index' = index + 1 /\ UNCHANGED <<muted, stage, outcome>>
  BY <1>4 DEF Told, Swallow, Learn
<1>6. ASSUME result = "false", NEW i \in since', proc[i] = wanted
      PROVE  Hidden(proc[i])
  <2>1. ~blind
    BY <1>6 DEF Told, Running, ActionTypeOK
  <2>2. i \in throughout
    BY <1>1, <1>3, <1>6
  <2> QED
    BY <1>1, <1>6, <2>1, <2>2 DEF IInv, NothingMissed, Hidden
<1>7. ActionTypeOK'
  <2>1. index' \in 1 .. Len(Mutes) + 1
    BY <1>2, <1>5 DEF ActionTypeOK
  <2> QED
    BY <1>1, <1>5, <2>1 DEF ActionTypeOK
<1>8. Traced'
  BY <1>1 DEF Traced
<1>9. Asking'
  BY <1>1 DEF Asking
<1>10. Asked'
  <2>1. ASSUME stage' = "mute", NEW k \in 1 .. index' - 1, NEW i \in since', proc[i] = Mutes[k]
        PROVE  Hidden(proc[i])
    <3>1. result = "false" /\ index' = index + 1
      BY <1>1, <1>5, <2>1
    <3>2. CASE k = index
      BY <1>2, <1>6, <2>1, <3>1, <3>2
    <3>3. CASE k # index
      <4>1. k \in 1 .. index - 1
        BY <1>2, <3>1, <3>3
      <4> QED
        BY <1>1, <2>1, <4>1 DEF Asked
    <3> QED
      BY <3>2, <3>3
  <2> QED
    BY <1>1, <1>5, <2>1 DEF Asked
<1>11. Decided'
  <2>1. result = "true" => met
    BY <1>2 DEF IInv, MatchIsReal
  <2> QED
    BY <1>1, <1>5, <2>1 DEF Decided
<1>12. ActsOnlyUnmuted' /\ SilentIfMuted'
  <2>1. outcome' \in {"none", "threw"}
    BY <1>1, <1>5 DEF Decided
  <2> QED
    BY <2>1 DEF ActsOnlyUnmuted, SilentIfMuted
<1> QED
  BY <1>7, <1>8, <1>9, <1>10, <1>11, <1>12 DEF Course

\* All executables were asked about.
LEMMA NoneRunsKeeps ==
  ASSUME ActionIInv, NoneRuns
  PROVE  (Traced /\ Course)'
<1> USE DEF ActionIInv, NoneRuns, vars, history, actionHistory
<1>1. ActionTypeOK' /\ Traced' /\ Asking'
  BY DEF ActionTypeOK, Traced, Asking
<1>2. Asked'
  <2>1. ASSUME NEW i \in since
        PROVE  Hidden(proc[i])
    <3>1. PICK k \in DOMAIN Mutes : proc[i] = Mutes[k]
      BY DEF Traced, Muting
    <3>2. k \in 1 .. index - 1
      BY MutesAssumption DEF ActionTypeOK
    <3> QED
      BY <3>1, <3>2 DEF Asked
  <2> QED
    BY <2>1 DEF Asked
<1>3. Decided' /\ ActsOnlyUnmuted' /\ SilentIfMuted'
  BY DEF Decided, ActsOnlyUnmuted, SilentIfMuted
<1> QED
  BY <1>1, <1>2, <1>3 DEF Course

\* The action is taken, or not.
LEMMA DecideKeeps ==
  ASSUME ActionIInv, Decide
  PROVE  (Traced /\ Course)'
<1> USE DEF ActionIInv, Decide, vars, history, actionHistory
<1>1. ActionTypeOK' /\ Traced' /\ Asking' /\ Asked'
  BY DEF ActionTypeOK, Traced, Asking, Asked
<1>2. Decided'
  BY DEF Decided
<1>3. ActsOnlyUnmuted'
  BY DEF ActsOnlyUnmuted, TakesAction, Asked, Hidden
<1>4. SilentIfMuted'
  BY DEF SilentIfMuted, TakesAction, Decided
<1> QED
  BY <1>1, <1>2, <1>3, <1>4 DEF Course

\* A process starts or ends.
LEMMA BackgroundKeeps ==
  ASSUME ActionIInv, Background
  PROVE  (Traced /\ Course)'
<1> USE DEF ActionIInv, Background, actionVars
<1>1. /\ pc' = pc /\ wanted' = wanted
      /\ met' = (met \/ Muters' # {})
      /\ since' = since \cap Muters'
  BY DEF Others, ProcessEnds, ProcessStarts
<1>2. \A i \in since' : proc'[i] = proc[i]
  <2>1. PICK j \in Pids : ProcessEnds(j) \/ \E p \in Paths : ProcessStarts(j, p)
    BY DEF Others
  <2>2. \A i \in Pids \ {j} : proc'[i] = proc[i]
    BY <2>1 DEF ProcessEnds, ProcessStarts, IInv, TypeOK
  <2>3. CASE ProcessEnds(j)
    <3>1. proc'[j] = None
      BY <2>3 DEF ProcessEnds, IInv, TypeOK
    <3>2. j \notin Muters'
      BY <3>1, MutesAssumption, NoneAssumption DEF Muters, Muting
    <3> QED
      BY <1>1, <2>2, <3>2 DEF ActionTypeOK
  <2>4. CASE \E p \in Paths : ProcessStarts(j, p)
    <3>1. j \notin since
      BY <2>4, MutesAssumption, NoneAssumption DEF ProcessStarts, Traced, Muting
    <3> QED
      BY <1>1, <2>2, <3>1 DEF ActionTypeOK
  <2> QED
    BY <2>1, <2>3, <2>4
<1>3. ActionTypeOK'
  <2>1. met' \in BOOLEAN /\ since' \subseteq Pids
    BY <1>1 DEF ActionTypeOK
  <2> QED
    BY <2>1 DEF ActionTypeOK
<1>4. Traced'
  BY <1>1 DEF Traced, Muters
<1>5. Asking'
  <2>1. \A i \in since' : i \in throughout => i \in throughout'
    <3>1. PICK j \in Pids : ProcessEnds(j) \/ \E p \in Paths : ProcessStarts(j, p)
      BY DEF Others
    <3>2. CASE ProcessEnds(j)
      <4>1. proc'[j] = None
        BY <3>2 DEF ProcessEnds, IInv, TypeOK
      <4>2. j \notin Muters'
        BY <4>1, MutesAssumption, NoneAssumption DEF Muters, Muting
      <4> QED
        BY <1>1, <3>2, <4>2 DEF ProcessEnds
    <3>3. CASE \E p \in Paths : ProcessStarts(j, p)
      BY <3>3 DEF ProcessStarts
    <3> QED
      BY <3>1, <3>2, <3>3
  <2>2. pc # "idle" /\ seen' => met'
    <3>1. CASE seen
      BY <1>1, <3>1 DEF Asking
    <3>2. CASE ~seen /\ seen' /\ pc # "idle"
      <4>1. PICK j \in Pids : proc'[j] = wanted
        BY <3>2 DEF Others, ProcessEnds, ProcessStarts, IInv, TypeOK
      <4>2. wanted \in Muting
        BY <3>2 DEF Asking, Muting
      <4>3. j \in Muters'
        BY <4>1, <4>2 DEF Muters, Muting
      <4> QED
        BY <1>1, <4>3
    <3> QED
      BY <3>1, <3>2
  <2> QED
    BY <1>1, <1>2, <2>1, <2>2 DEF Asking
<1>6. Asked'
  BY <1>1, <1>2 DEF Asked
<1>7. Decided' /\ SilentIfMuted'
  BY <1>1 DEF Decided, SilentIfMuted
<1>8. ActsOnlyUnmuted'
  BY <1>1, <1>2 DEF ActsOnlyUnmuted
<1> QED
  BY <1>3, <1>4, <1>5, <1>6, <1>7, <1>8 DEF Course

\* Every step keeps the invariant.
LEMMA ActionKeeps == ActionIInv /\ [ActionNext]_allVars => ActionIInv'
<1> SUFFICES ASSUME ActionIInv, [ActionNext]_allVars PROVE ActionIInv'
  OBVIOUS
<1>1. IInv'
  BY StepIsProbes, NextKeeps DEF ActionIInv
<1>2. CASE \E st \in Current : Notify(st)
  BY <1>1, <1>2, NotifyKeeps DEF ActionIInv, Course
<1>3. CASE NotifyThrows \/ Ask \/ Told \/ NoneRuns \/ Decide
  BY <1>1, <1>3, NotifyThrowsKeeps, AskKeeps, ToldKeeps, NoneRunsKeeps, DecideKeeps
     DEF ActionIInv, Course
<1>4. CASE Probe /\ UNCHANGED <<actionVars, actionHistory>>
  BY <1>1, <1>4, ProbeKeeps DEF ActionIInv, Course
<1>5. CASE Background
  BY <1>1, <1>5, BackgroundKeeps DEF ActionIInv, Course
<1>6. CASE UNCHANGED allVars
  <2>1. ActionTypeOK' /\ Traced' /\ Asking' /\ Asked'
    BY <1>6 DEF allVars, vars, history, actionVars, actionHistory, ActionIInv,
                ActionTypeOK, Traced, Asking, Asked
  <2>2. Decided' /\ ActsOnlyUnmuted' /\ SilentIfMuted'
    BY <1>6 DEF allVars, vars, history, actionVars, actionHistory, ActionIInv,
                Decided, ActsOnlyUnmuted, SilentIfMuted
  <2> QED
    BY <1>1, <2>1, <2>2 DEF ActionIInv
<1> QED
  BY <1>2, <1>3, <1>4, <1>5, <1>6 DEF ActionNext, ActionStep

-----------------------------------------------------------------------------
(* What the action function guarantees *)

\* The inductive invariant: of the processes that ran all through the call, those
\* of the executables asked about so far cannot be told by the probe
\* (main.cpp:33-40).
THEOREM ActionInvariant == ActionSpec => []ActionIInv
  BY ActionInitOK, ActionKeeps, PTL DEF ActionSpec

\* The action is taken for a stopped service only, and never past an accessible
\* executable of the list that ran all through the call, unless its path is too
\* long (main.cpp:25-41 and 59-61).
THEOREM ActionIsUnmuted == ActionSpec => []ActsOnlyUnmuted
<1>1. ActionIInv => ActsOnlyUnmuted
  BY DEF ActionIInv
<1> QED
  BY <1>1, ActionInvariant, PTL

\* A stopped service is passed over only if an executable of the list ran at some
\* time of the call, or the call failed (main.cpp:59-61).
THEOREM SilenceIsMuted == ActionSpec => []SilentIfMuted
<1>1. ActionIInv => SilentIfMuted
  BY DEF ActionIInv
<1> QED
  BY <1>1, ActionInvariant, PTL
=============================================================================
