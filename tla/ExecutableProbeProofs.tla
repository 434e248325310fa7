------------------------- MODULE ExecutableProbeProofs -------------------------
(***************************************************************************)
(* Proofs about ExecutableProbe, for any number of processes, paths and     *)
(* names.                                                                   *)
(*                                                                         *)
(* The argument: a process that has run since the call began is in the      *)
(* snapshot, and leaves the entries still to be visited only as the current *)
(* one; it can be opened and queried, and its full path is the one wanted.  *)
(* A match is read from a process that holds its id at that time, and a     *)
(* path that was cut is as long as the buffer.                              *)
(***************************************************************************)
EXTENDS ExecutableProbe, TLAPS

\* The handles that each place in the function holds.
Handles ==
  /\ pc \in {"open", "query", "close"} => process \in Pids
  /\ pc \in {"idle", "begin", "done"} => open = {}
  /\ pc \in {"walk", "open", "end"} => open = {"snapshot"}
  /\ pc \in {"query", "close"} => open = {"snapshot", process}

Results ==
  /\ pc \in {"idle", "begin", "walk", "open", "query"} => result = "none"
  /\ pc = "close" => result \in {"none", "true"}
  /\ pc = "end" => result \in {"true", "false"}
  /\ pc = "done" => result # "none"

\* What the history variables stand for.
Witnessed ==
  /\ \A i \in Pids : proc[i] = wanted => seen
  /\ \A i \in throughout : proc[i] = wanted
  /\ \A i \in Pids : proc[i] # None => Length[proc[i]] > 0

\* The snapshot's entry of a process of the wanted path.
EntryOf(i) == [id |-> i, name |-> Name[wanted]]

\* A process that ran all the time is ahead in the walk, or found.
Ahead ==
  wanted \in Accessible /\ Length[wanted] < MaxPath =>
    /\ pc = "walk" => \A i \in throughout : EntryOf(i) \in todo
    /\ pc \in {"open", "query"} => \A i \in throughout : EntryOf(i) \in todo \/ i = process
    /\ pc = "close" => result = "true" \/ \A i \in throughout : EntryOf(i) \in todo
    /\ pc = "end" => result = "true" \/ throughout = {}

IInv ==
  /\ TypeOK /\ Handles /\ Results /\ Witnessed /\ Ahead
  /\ MatchIsReal /\ NothingMissed

\* No call was made in the initial states.
LEMMA InitOK == Init => IInv
<1> SUFFICES ASSUME Init PROVE IInv
  OBVIOUS
<1> USE NoneAssumption DEF Init
<1>1. TypeOK
  BY DEF TypeOK
<1>2. Handles /\ Results /\ Witnessed /\ Ahead /\ MatchIsReal /\ NothingMissed
  BY DEF Handles, Results, Witnessed, Ahead, MatchIsReal, NothingMissed
<1> QED
  BY <1>1, <1>2 DEF IInv

\* A call with a plausible path begins, and with it the watch for processes of
\* that path.
LEMMA CallKeeps ==
  ASSUME IInv, NEW p \in Paths, Call(p)
  PROVE  IInv'
<1> USE LengthAssumption, PrefixAssumption, MaxPathAssumption, NoneAssumption, PidsAssumption
    DEF IInv, TypeOK, Call, Plausible, Running, history
<1>1. TypeOK'
  OBVIOUS
<1>2. Handles'
  BY DEF Handles
<1>3. Results'
  BY DEF Results
<1>4. Witnessed'
  BY DEF Witnessed, Results
<1>5. Ahead'
  BY DEF Ahead, Witnessed, EntryOf, Handles
<1>6. MatchIsReal'
  BY DEF MatchIsReal, Results, Witnessed, Handles
<1>7. NothingMissed'
  BY DEF NothingMissed, Results, Ahead, Witnessed
<1> QED
  BY <1>1, <1>2, <1>3, <1>4, <1>5, <1>6, <1>7 DEF IInv

\* A copy of the path cannot be allocated.
LEMMA CallThrowsKeeps ==
  ASSUME IInv, CallThrows
  PROVE  IInv'
<1> USE LengthAssumption, PrefixAssumption, MaxPathAssumption, NoneAssumption, PidsAssumption
    DEF IInv, TypeOK, CallThrows, history
<1>1. TypeOK'
  OBVIOUS
<1>2. Handles'
  BY DEF Handles
<1>3. Results'
  BY DEF Results
<1>4. Witnessed'
  BY DEF Witnessed, Results
<1>5. Ahead'
  BY DEF Ahead, Witnessed, EntryOf, Handles
<1>6. MatchIsReal'
  BY DEF MatchIsReal, Results, Witnessed, Handles
<1>7. NothingMissed'
  BY DEF NothingMissed, Results, Ahead, Witnessed
<1> QED
  BY <1>1, <1>2, <1>3, <1>4, <1>5, <1>6, <1>7 DEF IInv

\* Without a snapshot the answer is open, and no handle either.
LEMMA SnapshotFailsKeeps ==
  ASSUME IInv, SnapshotFails
  PROVE  IInv'
<1> USE LengthAssumption, PrefixAssumption, MaxPathAssumption, NoneAssumption, PidsAssumption
    DEF IInv, TypeOK, SnapshotFails, history
<1>1. TypeOK'
  OBVIOUS
<1>2. Handles'
  BY DEF Handles
<1>3. Results'
  BY DEF Results
<1>4. Witnessed'
  BY DEF Witnessed, Results
<1>5. Ahead'
  BY DEF Ahead, Witnessed, EntryOf, Handles
<1>6. MatchIsReal'
  BY DEF MatchIsReal, Results, Witnessed, Handles
<1>7. NothingMissed'
  BY DEF NothingMissed, Results, Ahead, Witnessed
<1> QED
  BY <1>1, <1>2, <1>3, <1>4, <1>5, <1>6, <1>7 DEF IInv

\* The snapshot has an entry for every process that runs.
LEMMA SnapshotKeeps ==
  ASSUME IInv, Snapshot
  PROVE  IInv'
<1> USE LengthAssumption, PrefixAssumption, MaxPathAssumption, NoneAssumption, PidsAssumption
    DEF IInv, TypeOK, Snapshot, history
<1>1. TypeOK'
  OBVIOUS
<1>2. Handles'
  BY DEF Handles
<1>3. Results'
  BY DEF Results
<1>4. Witnessed'
  BY DEF Witnessed, Results
<1>5. Ahead'
  BY DEF Ahead, Witnessed, EntryOf, Handles
<1>6. MatchIsReal'
  BY DEF MatchIsReal, Results, Witnessed, Handles
<1>7. NothingMissed'
  BY DEF NothingMissed, Results, Ahead, Witnessed
<1> QED
  BY <1>1, <1>2, <1>3, <1>4, <1>5, <1>6, <1>7 DEF IInv

\* An entry is taken; that of a process of the wanted path has the wanted name.
LEMMA NextEntryKeeps ==
  ASSUME IInv, NextEntry
  PROVE  IInv'
<1> USE LengthAssumption, PrefixAssumption, MaxPathAssumption, NoneAssumption, PidsAssumption
    DEF IInv, TypeOK, NextEntry, Advance, history
<1>1. TypeOK'
  OBVIOUS
<1>2. Handles'
  BY DEF Handles
<1>3. Results'
  BY DEF Results
<1>4. Witnessed'
  BY DEF Witnessed, Results
<1>5. Ahead'
  BY DEF Ahead, Witnessed, EntryOf, Handles
<1>6. MatchIsReal'
  BY DEF MatchIsReal, Results, Witnessed, Handles
<1>7. NothingMissed'
  BY DEF NothingMissed, Results, Ahead, Witnessed
<1> QED
  BY <1>1, <1>2, <1>3, <1>4, <1>5, <1>6, <1>7 DEF IInv

\* The walk ends when no process that ran all the time is ahead of it.
LEMMA NoMoreEntriesKeeps ==
  ASSUME IInv, NoMoreEntries
  PROVE  IInv'
<1> USE LengthAssumption, PrefixAssumption, MaxPathAssumption, NoneAssumption, PidsAssumption
    DEF IInv, TypeOK, NoMoreEntries, NotFound, history
<1>1. TypeOK'
  OBVIOUS
<1>2. Handles'
  BY DEF Handles
<1>3. Results'
  BY DEF Results
<1>4. Witnessed'
  BY DEF Witnessed, Results
<1>5. Ahead'
  BY DEF Ahead, Witnessed, EntryOf, Handles
<1>6. MatchIsReal'
  BY DEF MatchIsReal, Results, Witnessed, Handles
<1>7. NothingMissed'
  BY DEF NothingMissed, Results, Ahead, Witnessed
<1> QED
  BY <1>1, <1>2, <1>3, <1>4, <1>5, <1>6, <1>7 DEF IInv

\* A process is opened: a second handle.
LEMMA OpenProcessKeeps ==
  ASSUME IInv, OpenProcess
  PROVE  IInv'
<1> USE LengthAssumption, PrefixAssumption, MaxPathAssumption, NoneAssumption, PidsAssumption
    DEF IInv, TypeOK, OpenProcess, history
<1>1. TypeOK'
  BY DEF Handles
<1>2. Handles'
  BY DEF Handles
<1>3. Results'
  BY DEF Results
<1>4. Witnessed'
  BY DEF Witnessed, Results
<1>5. Ahead'
  BY DEF Ahead, Witnessed, EntryOf, Handles
<1>6. MatchIsReal'
  BY DEF MatchIsReal, Results, Witnessed, Handles
<1>7. NothingMissed'
  BY DEF NothingMissed, Results, Ahead, Witnessed
<1> QED
  BY <1>1, <1>2, <1>3, <1>4, <1>5, <1>6, <1>7 DEF IInv

\* A process that cannot be opened is not one that ran all the time.
LEMMA OpenFailsKeeps ==
  ASSUME IInv, OpenFails
  PROVE  IInv'
<1> USE LengthAssumption, PrefixAssumption, MaxPathAssumption, NoneAssumption, PidsAssumption
    DEF IInv, TypeOK, OpenFails, NotThisProcess, history
<1>1. TypeOK'
  OBVIOUS
<1>2. Handles'
  BY DEF Handles
<1>3. Results'
  BY DEF Results
<1>4. Witnessed'
  BY DEF Witnessed, Results
<1>5. Ahead'
  BY DEF Ahead, Witnessed, EntryOf, Handles
<1>6. MatchIsReal'
  BY DEF MatchIsReal, Results, Witnessed, Handles
<1>7. NothingMissed'
  BY DEF NothingMissed, Results, Ahead, Witnessed
<1> QED
  BY <1>1, <1>2, <1>3, <1>4, <1>5, <1>6, <1>7 DEF IInv

\* The path is read from the process that has the id now.
LEMMA QueryKeeps ==
  ASSUME IInv, Query
  PROVE  IInv'
<1> USE LengthAssumption, PrefixAssumption, MaxPathAssumption, NoneAssumption, PidsAssumption
    DEF IInv, TypeOK, Query, Matches, Copied, Count, history
<1>1. TypeOK'
  OBVIOUS
<1>2. Handles'
  BY DEF Handles
<1>3. Results'
  BY DEF Results
<1>4. Witnessed'
  BY DEF Witnessed, Results
<1>5. Ahead'
  BY DEF Ahead, Witnessed, EntryOf, Handles
<1>6. MatchIsReal'
  BY DEF MatchIsReal, Results, Witnessed, Handles
<1>7. NothingMissed'
  BY DEF NothingMissed, Results, Ahead, Witnessed
<1> QED
  BY <1>1, <1>2, <1>3, <1>4, <1>5, <1>6, <1>7 DEF IInv

\* The path cannot be read.
LEMMA QueryFailsKeeps ==
  ASSUME IInv, QueryFails
  PROVE  IInv'
<1> USE LengthAssumption, PrefixAssumption, MaxPathAssumption, NoneAssumption, PidsAssumption
    DEF IInv, TypeOK, QueryFails, history
<1>1. TypeOK'
  OBVIOUS
<1>2. Handles'
  BY DEF Handles
<1>3. Results'
  BY DEF Results
<1>4. Witnessed'
  BY DEF Witnessed, Results
<1>5. Ahead'
  BY DEF Ahead, Witnessed, EntryOf, Handles
<1>6. MatchIsReal'
  BY DEF MatchIsReal, Results, Witnessed, Handles
<1>7. NothingMissed'
  BY DEF NothingMissed, Results, Ahead, Witnessed
<1> QED
  BY <1>1, <1>2, <1>3, <1>4, <1>5, <1>6, <1>7 DEF IInv

\* The handle of the process is closed before the next entry.
LEMMA CloseProcessKeeps ==
  ASSUME IInv, CloseProcess
  PROVE  IInv'
<1> USE LengthAssumption, PrefixAssumption, MaxPathAssumption, NoneAssumption, PidsAssumption
    DEF IInv, TypeOK, CloseProcess, ClosedByGuard, history
<1>1. TypeOK'
  OBVIOUS
<1>2. Handles'
  BY DEF Handles
<1>3. Results'
  BY DEF Results
<1>4. Witnessed'
  BY DEF Witnessed, Results
<1>5. Ahead'
  BY DEF Ahead, Witnessed, EntryOf, Handles
<1>6. MatchIsReal'
  BY DEF MatchIsReal, Results, Witnessed, Handles
<1>7. NothingMissed'
  BY DEF NothingMissed, Results, Ahead, Witnessed
<1> QED
  BY <1>1, <1>2, <1>3, <1>4, <1>5, <1>6, <1>7 DEF IInv

\* The handle of the snapshot is closed last.
LEMMA CloseSnapshotKeeps ==
  ASSUME IInv, CloseSnapshot
  PROVE  IInv'
<1> USE LengthAssumption, PrefixAssumption, MaxPathAssumption, NoneAssumption, PidsAssumption
    DEF IInv, TypeOK, CloseSnapshot, history
<1>1. TypeOK'
  OBVIOUS
<1>2. Handles'
  BY DEF Handles
<1>3. Results'
  BY DEF Results
<1>4. Witnessed'
  BY DEF Witnessed, Results
<1>5. Ahead'
  BY DEF Ahead, Witnessed, EntryOf, Handles
<1>6. MatchIsReal'
  BY DEF MatchIsReal, Results, Witnessed, Handles
<1>7. NothingMissed'
  BY DEF NothingMissed, Results, Ahead, Witnessed
<1> QED
  BY <1>1, <1>2, <1>3, <1>4, <1>5, <1>6, <1>7 DEF IInv

\* A process starts; it has not run all the time.
LEMMA ProcessStartsKeeps ==
  ASSUME IInv, NEW i \in Pids, NEW p \in Paths, ProcessStarts(i, p)
  PROVE  IInv'
<1> USE LengthAssumption, PrefixAssumption, MaxPathAssumption, NoneAssumption, PidsAssumption
    DEF IInv, TypeOK, ProcessStarts, history
<1>1. TypeOK'
  OBVIOUS
<1>2. Handles'
  BY DEF Handles
<1>3. Results'
  BY DEF Results
<1>4. Witnessed'
  BY DEF Witnessed, Results
<1>5. Ahead'
  BY DEF Ahead, Witnessed, EntryOf, Handles
<1>6. MatchIsReal'
  BY DEF MatchIsReal, Results, Witnessed, Handles
<1>7. NothingMissed'
  BY DEF NothingMissed, Results, Ahead, Witnessed
<1> QED
  BY <1>1, <1>2, <1>3, <1>4, <1>5, <1>6, <1>7 DEF IInv

\* A process ends; its id may be used again.
LEMMA ProcessEndsKeeps ==
  ASSUME IInv, NEW i \in Pids, ProcessEnds(i)
  PROVE  IInv'
<1> USE LengthAssumption, PrefixAssumption, MaxPathAssumption, NoneAssumption, PidsAssumption
    DEF IInv, TypeOK, ProcessEnds, history
<1>1. TypeOK'
  OBVIOUS
<1>2. Handles'
  BY DEF Handles
<1>3. Results'
  BY DEF Results
<1>4. Witnessed'
  BY DEF Witnessed, Results
<1>5. Ahead'
  BY DEF Ahead, Witnessed, EntryOf, Handles
<1>6. MatchIsReal'
  BY DEF MatchIsReal, Results, Witnessed, Handles
<1>7. NothingMissed'
  BY DEF NothingMissed, Results, Ahead, Witnessed
<1> QED
  BY <1>1, <1>2, <1>3, <1>4, <1>5, <1>6, <1>7 DEF IInv

\* The answer is given.
LEMMA AnsweredKeeps ==
  ASSUME IInv, Answered
  PROVE  IInv'
<1> USE LengthAssumption, PrefixAssumption, MaxPathAssumption, NoneAssumption, PidsAssumption
    DEF IInv, TypeOK, Answered, history
<1>1. TypeOK'
  OBVIOUS
<1>2. Handles'
  BY DEF Handles
<1>3. Results'
  BY DEF Results
<1>4. Witnessed'
  BY DEF Witnessed, Results
<1>5. Ahead'
  BY DEF Ahead, Witnessed, EntryOf, Handles
<1>6. MatchIsReal'
  BY DEF MatchIsReal, Results, Witnessed, Handles
<1>7. NothingMissed'
  BY DEF NothingMissed, Results, Ahead, Witnessed
<1> QED
  BY <1>1, <1>2, <1>3, <1>4, <1>5, <1>6, <1>7 DEF IInv

\* Every step keeps the invariant.
LEMMA NextKeeps == IInv /\ [Next]_vars => IInv'
<1> SUFFICES ASSUME IInv, [Next]_vars PROVE IInv'
  OBVIOUS
<1>1. CASE Probe
  BY <1>1, SnapshotKeeps, NextEntryKeeps, NoMoreEntriesKeeps, OpenProcessKeeps, QueryKeeps,
     CloseProcessKeeps, CloseSnapshotKeeps, CallThrowsKeeps, SnapshotFailsKeeps,
     OpenFailsKeeps, QueryFailsKeeps DEF Probe
<1>2. CASE Others
  BY <1>2, ProcessStartsKeeps, ProcessEndsKeeps DEF Others
<1>3. CASE Answered \/ \E p \in Paths : Call(p)
  BY <1>3, AnsweredKeeps, CallKeeps
<1>4. CASE UNCHANGED vars
  BY <1>4 DEF vars, history, IInv, TypeOK, Handles, Results, Witnessed, Ahead, EntryOf,
              MatchIsReal, NothingMissed
<1> QED
  BY <1>1, <1>2, <1>3, <1>4 DEF Next

\* The inductive invariant: a process that ran all the time is still ahead in the
\* walk over the snapshot (utilities.cpp:61-88).
THEOREM ProbeInvariant == Spec => []IInv
  BY InitOK, NextKeeps, PTL DEF Spec

\* Every variable keeps its type (the locals of utilities.cpp:41-91).
THEOREM TypeCorrect == Spec => []TypeOK
<1>1. IInv => TypeOK
  BY DEF IInv
<1> QED
  BY <1>1, ProbeInvariant, PTL

\* No handle is left open on any path, and one process is open at a time
\* (utilities.cpp:58-59, 76-77).
THEOREM HandlesAreClosed == Spec => []HandlesClosed
<1>1. IInv => HandlesClosed
  BY DEF IInv, TypeOK, Handles, HandlesClosed, InWalk
<1> QED
  BY <1>1, ProbeInvariant, PTL

\* TRUE is the answer only if a process of exactly the wanted path ran during the
\* call, with ids reused and long paths cut (utilities.cpp:69, 81-87).
THEOREM MatchesAreReal == Spec => []MatchIsReal
<1>1. IInv => MatchIsReal
  BY DEF IInv
<1> QED
  BY <1>1, ProbeInvariant, PTL

\* FALSE is not the answer while an accessible process of the wanted path ran all
\* through the call, unless no snapshot could be taken or the path is too long
\* (utilities.cpp:42, 61-90).
THEOREM NoneIsMissed == Spec => []NothingMissed
<1>1. IInv => NothingMissed
  BY DEF IInv
<1> QED
  BY <1>1, ProbeInvariant, PTL
=============================================================================
