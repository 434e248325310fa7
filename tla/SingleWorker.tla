----------------------------- MODULE SingleWorker -----------------------------
(***************************************************************************)
(* What a notifier promises to whoever calls it: accepted starts follow one *)
(* another, each has at most one worker, a new one is accepted only after   *)
(* the worker of the last one has left, and a request to stop reaches the   *)
(* start that is active, never a later one.  NotifierLifecycle implements   *)
(* it with a flag, an event and a guard that travels between threads.       *)
(***************************************************************************)
CONSTANT Starts
VARIABLES phase,  \* of each start
          told    \* the starts that were told to stop

vars == <<phase, told>>

Active == {s \in Starts : phase[s] \in {"accepted", "working", "leaving"}}

Init == phase = [s \in Starts |-> "new"] /\ told = {}

Becomes(s, p) == phase' = [phase EXCEPT ![s] = p] /\ UNCHANGED told

Accept(s) == Active = {} /\ phase[s] = "new" /\ Becomes(s, "accepted")
Begin(s) == phase[s] = "accepted" /\ Becomes(s, "working")
Finish(s) == phase[s] = "working" /\ Becomes(s, "leaving")
Release(s) == phase[s] = "leaving" /\ Becomes(s, "released")

\* The worker could not be started; without an event nothing was used up.
GiveUp(s) == phase[s] = "accepted" /\ (Becomes(s, "new") \/ Becomes(s, "released"))

Tell(s) == s \in Active /\ told' = told \cup {s} /\ UNCHANGED phase

Next == \E s \in Starts : \/ Accept(s) \/ Begin(s) \/ Finish(s)
                          \/ Release(s) \/ GiveUp(s) \/ Tell(s)
Spec == Init /\ [][Next]_vars
=============================================================================
