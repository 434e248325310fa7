--------------------------- MODULE ExecutableProbe ---------------------------
(***************************************************************************)
(* IsExecutableRuns() (utilities.cpp): does a process run that was started  *)
(* from a given file?  It walks over a snapshot of the processes, opens     *)
(* those with the right file name and asks for their full path, while       *)
(* processes end, start and take over process ids.  Windows is external and *)
(* modelled from how the function uses it.                                  *)
(***************************************************************************)
EXTENDS Naturals

CONSTANTS Pids,        \* process ids
          Paths,       \* full paths
          Name,        \* the file name at the end of a path
          Length,      \* the number of characters of a path
          Prefix,      \* what MAX_PATH characters hold of a longer path
          Accessible,  \* paths whose processes may be opened and queried
          None,        \* no process, no handle
          MaxPath      \* MAX_PATH

ASSUME LengthAssumption == Length \in [Paths -> Nat]
ASSUME PrefixAssumption == Prefix \in [Paths -> Paths]
ASSUME MaxPathAssumption == MaxPath \in Nat \ {0}
ASSUME NoneAssumption == None \notin Paths \cup Pids
ASSUME PidsAssumption == "snapshot" \notin Pids

VARIABLES proc,        \* external: the path each process id runs, or None
          pc,          \* where the call is
          wanted,      \* full_path
          todo,        \* entries of the snapshot not visited yet
          process,     \* the id of the current entry, and of its handle
          open,        \* handles open in the kernel
          result,      \* what the call returned, or that it threw
          seen,        \* history: some process of wanted ran during the call
          throughout,  \* history: the processes of wanted that ran all the time
          blind        \* history: there was no snapshot

history == <<seen, throughout, blind>>
vars == <<proc, pc, wanted, todo, process, open, result, history>>

Running(p) == {i \in Pids : proc[i] = p}

Init ==
  /\ proc = [i \in Pids |-> None]
  /\ pc = "idle"
  /\ wanted \in Paths
  /\ todo = {} /\ process = None /\ open = {}
  /\ result = "none"
  /\ seen = FALSE /\ throughout = {} /\ blind = FALSE

-----------------------------------------------------------------------------
(* The call *)

\* The test of the argument.
Plausible(p) == Length[p] > 0 /\ Length[p] <= MaxPath

Call(p) ==
  /\ pc = "idle"
  /\ wanted' = p
  /\ seen' = (Running(p) # {}) /\ throughout' = Running(p) /\ blind' = FALSE
  /\ pc' = IF Plausible(p) THEN "begin" ELSE "done"
  /\ result' = IF Plausible(p) THEN "none" ELSE "false"
  /\ UNCHANGED <<proc, todo, process, open>>

\* The string for the file name cannot be allocated.
CallThrows ==
  /\ pc = "begin"
  /\ pc' = "done" /\ result' = "threw"
  /\ UNCHANGED <<proc, wanted, todo, process, open, history>>

SnapshotFails ==
  /\ pc = "begin"
  /\ pc' = "done" /\ result' = "false" /\ blind' = TRUE
  /\ UNCHANGED <<proc, wanted, todo, process, open, seen, throughout>>

Snapshot ==
  /\ pc = "begin"
  /\ todo' = {[id |-> i, name |-> Name[proc[i]]] : i \in {j \in Pids : proc[j] # None}}
  /\ open' = open \cup {"snapshot"}
  /\ pc' = "walk"
  /\ UNCHANGED <<proc, wanted, process, result, history>>

\* Variant: the entry does not advance.
Stays(e) == UNCHANGED todo
Advance(e) == todo' = todo \ {e}

\* Process32FirstW or Process32NextW, and the comparison of the file names.
NextEntry ==
  /\ pc = "walk"
  /\ \E e \in todo :
       /\ Advance(e)
       /\ IF e.name = Name[wanted]
          THEN pc' = "open" /\ process' = e.id
          ELSE UNCHANGED <<pc, process>>
  /\ UNCHANGED <<proc, wanted, open, result, history>>

NotFound == result' = "false"

NoMoreEntries ==
  /\ pc = "walk" /\ todo = {}
  /\ pc' = "end" /\ NotFound
  /\ UNCHANGED <<proc, wanted, todo, process, open, history>>

OpenProcess ==
  /\ pc = "open" /\ proc[process] # None
  /\ open' = open \cup {process}
  /\ pc' = "query"
  /\ UNCHANGED <<proc, wanted, todo, process, result, history>>

\* Variant: the walk ends at a process that cannot be opened.
GivesUp == pc' = "end" /\ result' = "false"
NotThisProcess == pc' = "walk" /\ UNCHANGED result

\* The process has ended, or may not be opened.
OpenFails ==
  /\ pc = "open"
  /\ proc[process] = None \/ proc[process] \notin Accessible
  /\ NotThisProcess
  /\ UNCHANGED <<proc, wanted, todo, process, open, history>>

\* GetModuleFileNameExW: a path that does not fit is cut, and MAX_PATH returned.
Copied(p) == IF Length[p] < MaxPath THEN p ELSE Prefix[p]
Count(p) == IF Length[p] < MaxPath THEN Length[p] ELSE MaxPath

\* Variants: a full buffer is accepted as well; only the file name is compared.
MatchesFull(p) == Count(p) > 0 /\ Copied(p) = wanted
MatchesName(p) == Count(p) > 0 /\ Count(p) < MaxPath
Matches(p) == Count(p) > 0 /\ Count(p) < MaxPath /\ Copied(p) = wanted

Query ==
  /\ pc = "query" /\ proc[process] # None
  /\ pc' = "close"
  /\ result' = IF Matches(proc[process]) THEN "true" ELSE result
  /\ UNCHANGED <<proc, wanted, todo, process, open, history>>

\* It returns 0: the process has ended, or may not be queried.
QueryFails ==
  /\ pc = "query"
  /\ proc[process] = None \/ proc[process] \notin Accessible
  /\ pc' = "close"
  /\ UNCHANGED <<proc, wanted, todo, process, open, result, history>>

\* Variant: the handle is closed after a mismatch only.
ClosedUnlessFound == IF result = "true" THEN {} ELSE {process}
ClosedByGuard == {process}

\* process_guard, at the end of the loop's body or on return.
CloseProcess ==
  /\ pc = "close"
  /\ open' = open \ ClosedByGuard
  /\ pc' = IF result = "true" THEN "end" ELSE "walk"
  /\ UNCHANGED <<proc, wanted, todo, process, result, history>>

\* snapshot_guard, when the function is left.
CloseSnapshot ==
  /\ pc = "end"
  /\ open' = open \ {"snapshot"}
  /\ pc' = "done" /\ todo' = {} /\ process' = None
  /\ UNCHANGED <<proc, wanted, result, history>>

Probe ==
  \/ Snapshot \/ NextEntry \/ NoMoreEntries \/ OpenProcess \/ Query \/ CloseProcess
  \/ CloseSnapshot \/ CallThrows \/ SnapshotFails \/ OpenFails \/ QueryFails

-----------------------------------------------------------------------------
(* The other processes *)

\* An id is in use as long as there is a handle to its process.
ProcessStarts(i, p) ==
  /\ proc[i] = None /\ i \notin open /\ Length[p] > 0
  /\ proc' = [proc EXCEPT ![i] = p]
  /\ seen' = (seen \/ p = wanted)
  /\ UNCHANGED <<pc, wanted, todo, process, open, result, throughout, blind>>

ProcessEnds(i) ==
  /\ proc[i] # None
  /\ proc' = [proc EXCEPT ![i] = None]
  /\ throughout' = throughout \ {i}
  /\ UNCHANGED <<pc, wanted, todo, process, open, result, seen, blind>>

Others == \E i \in Pids : ProcessEnds(i) \/ \E p \in Paths : ProcessStarts(i, p)

\* The caller takes the result.
Answered ==
  /\ pc = "done"
  /\ pc' = "idle" /\ result' = "none"
  /\ UNCHANGED <<proc, wanted, todo, process, open, history>>

Next == Probe \/ Others \/ Answered \/ \E p \in Paths : Call(p)

Spec == Init /\ [][Next]_vars
FairSpec == Spec /\ WF_vars(Probe)

-----------------------------------------------------------------------------
(* Properties *)

InWalk == pc \in {"walk", "open", "query", "close", "end"}

TypeOK ==
  /\ proc \in [Pids -> Paths \cup {None}]
  /\ pc \in {"idle", "begin", "walk", "open", "query", "close", "end", "done"}
  /\ wanted \in Paths
  /\ \A e \in todo : e.id \in Pids
  /\ process \in Pids \cup {None}
  /\ open \subseteq Pids \cup {"snapshot"}
  /\ result \in {"none", "true", "false", "threw"}
  /\ seen \in BOOLEAN /\ throughout \subseteq Pids /\ blind \in BOOLEAN

\* Only one process is open at a time, and whatever a call found or failed at, it
\* leaves no handle open (utilities.cpp:58-59 and 76-77).
HandlesClosed ==
  /\ open \subseteq {"snapshot", process}
  /\ ~InWalk => open = {}

\* TRUE means that a process of exactly this path ran during the call, although
\* the id may have been taken over since the snapshot and long paths are cut to
\* the length of the longest argument (utilities.cpp:69 and 81-85).
MatchIsReal == result = "true" => seen

\* FALSE means that no accessible process of this path ran all through the call,
\* whatever others could not be opened, had ended or were replaced meanwhile.
\* There are two exceptions: no snapshot could be taken, which FALSE does not tell
\* apart from an answer, and a path of MAX_PATH characters, which passes the test
\* of the argument and matches nothing (utilities.cpp:40-54, 67-74 and 84).
NothingMissed ==
  pc = "done" /\ result = "false" /\ ~blind /\ wanted \in Accessible
    => throughout = {} \/ Length[wanted] >= MaxPath

\* The call comes back, however fast processes start and end.
ProbeEnds == pc = "begin" ~> pc = "done"
=============================================================================
