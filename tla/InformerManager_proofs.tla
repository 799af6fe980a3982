------------------------ MODULE InformerManager_proofs ------------------------
(***************************************************************************)
(* Proofs about InformerManager, for any set of clusters, requests and     *)
(* runtimes.                                                               *)
(***************************************************************************)
EXTENDS InformerManager, TLAPS

(* The initial states satisfy the inductive invariant: nothing is made.    *)
LEMMA InitIInv == Init => IInv
  <1> SUFFICES ASSUME Init PROVE IInv
    OBVIOUS
  <1>1. TypeOK
    BY DEF Init, TypeOK, RowStates, StopChStates, HelperStates, Phases, ReadOps,
           Ops, Answers, PCs
  <1>2. NoOrphanRuntime /\ SyncedIsFilled
    BY DEF Init, NoOrphanRuntime, SyncedIsFilled
  <1>3. RegisteredIsRunning
    BY DEF Init, RegisteredIsRunning
  <1>4. /\ OneCloser /\ WaitersHoldRuntimes
        /\ ReadyIsFilled /\ StoppersDelete /\ SnapshotIsComplete
    BY DEF Init, OneCloser, Closing, WaitersHoldRuntimes, ReadyIsFilled,
           StoppersDelete, SnapshotIsComplete
  <1> QED
    BY <1>1, <1>2, <1>3, <1>4 DEF IInv

(* Every step keeps the types.                                             *)
LEMMA NextTypeOK == TypeOK /\ [Next]_vars => TypeOK'
  <1> SUFFICES ASSUME TypeOK, [Next]_vars PROVE TypeOK'
    OBVIOUS
  <1> USE DEF TypeOK, RowStates, StopChStates, HelperStates, Phases, ReadOps,
              Ops, Answers, PCs, dbVars, mgrVars, reqVars, procVars, Goto
  <1>1. ASSUME NEW q \in Requests, RequestStep(q) PROVE TypeOK'
    <2>1. CASE Ensure(q)
      BY <2>1 DEF Ensure, Register
    <2>2. CASE EnsureFails(q) \/ LookupSnapshot(q) \/ WaitForSync(q)
      BY <2>2 DEF EnsureFails, LookupSnapshot, WaitForSync
    <2>3. CASE SyncSignalled(q) \/ SyncTimesOut(q) \/ ServeOverview(q) \/ ServeList(q)
      BY <2>3 DEF SyncSignalled, SyncTimesOut, ServeOverview, ServeList
    <2>4. CASE StopRemove(q) \/ StopClose(q) \/ DeleteRow(q)
      BY <2>4 DEF StopRemove, StopClose, DeleteRow
    <2> QED
      BY <1>1, <2>1, <2>2, <2>3, <2>4 DEF RequestStep
  <1>2. ASSUME NEW q \in Requests,
               GetCluster(q) \/ DeleteArrives(q) \/ SyncGoroutineEnds(q)
        PROVE  TypeOK'
    <2>1. CASE GetCluster(q) \/ DeleteArrives(q)
      BY <2>1 DEF GetCluster, DeleteArrives
    <2>2. CASE SyncGoroutineEnds(q)
      <3>1. synced' \in [Runtimes -> BOOLEAN]
        BY <2>2 DEF SyncGoroutineEnds
      <3> QED
        BY <2>2, <3>1 DEF SyncGoroutineEnds
    <2> QED
      BY <1>2, <2>1, <2>2
  <1>3. ASSUME NEW c \in Clusters, ImportCluster(c) \/ WarmUpEnsures(c)
        PROVE  TypeOK'
    BY <1>3 DEF ImportCluster, WarmUpEnsures, Register
  <1>4. ASSUME NEW r \in Runtimes, CacheFills(r) PROVE TypeOK'
    BY <1>4 DEF CacheFills
  <1>5. CASE WarmUpLists \/ ShutdownBegins \/ ShutdownTimesOut \/ Exit \/ Gone
    BY <1>5 DEF WarmUpLists, ShutdownBegins, ShutdownTimesOut, Exit, Gone, vars
  <1>6. CASE StopAll
    BY <1>6 DEF StopAll
  <1>7. CASE UNCHANGED vars
    BY <1>7 DEF vars
  <1> QED
    BY <1>1, <1>2, <1>3, <1>4, <1>5, <1>6, <1>7 DEF Next

(* Type correctness.                                                       *)
THEOREM TypeCorrect == Spec => []TypeOK
  <1>1. Init => TypeOK
    BY InitIInv DEF IInv
  <1> QED
    BY <1>1, NextTypeOK, PTL DEF Spec

-----------------------------------------------------------------------------
(* The part of the invariant about who holds and who closes a runtime.     *)
HeldParts == NoOrphanRuntime /\ OneCloser /\ RegisteredIsRunning
(* The part about what a request has waited for.                           *)
WaitParts == /\ WaitersHoldRuntimes /\ SyncedIsFilled
             /\ ReadyIsFilled /\ StoppersDelete /\ SnapshotIsComplete

(* Creating a runtime, the only change of EnsureForCluster, keeps the first*)
(* part when the set of closing requests stays the same.                   *)
LEMMA RegisterHeld ==
  ASSUME IInv, NEW c \in Clusters, NEW r \in Runtimes, Register(c, r),
         \A q \in Requests, s \in Runtimes : Closing(q, s)' <=> Closing(q, s)
  PROVE  HeldParts'
  <1> USE NilIsNoRuntime DEF IInv, TypeOK, IsNext, Register, HeldParts
  <1>1. \A s \in Runtimes \ {r} : Current(s)' <=> Current(s)
    BY DEF Current
  <1>2. Current(r)' /\ ~Current(r) /\ \A q \in Requests : ~Closing(q, r)
    BY DEF Current, OneCloser, RegisteredIsRunning
  <1>3. NoOrphanRuntime'
    BY <1>1, <1>2 DEF NoOrphanRuntime
  <1>4. OneCloser'
    BY <1>1, <1>2 DEF OneCloser
  <1>5. RegisteredIsRunning'
    BY DEF RegisteredIsRunning
  <1> QED
    BY <1>3, <1>4, <1>5

(* Steps that leave the manager alone and the set of closing requests.     *)
LEMMA SameHeld ==
  ASSUME IInv, UNCHANGED <<registry, status, owner>>,
         \A q \in Requests, s \in Runtimes : Closing(q, s)' <=> Closing(q, s)
  PROVE  HeldParts'
  BY DEF IInv, HeldParts, NoOrphanRuntime, OneCloser, RegisteredIsRunning, Current

(* Every step keeps what is said of the runtimes that requests hold.       *)
LEMMA NextHeld == IInv /\ [Next]_vars => HeldParts'
  <1> SUFFICES ASSUME IInv, [Next]_vars PROVE HeldParts'
    OBVIOUS
  <1> TypeOK /\ NoOrphanRuntime /\ OneCloser /\ RegisteredIsRunning
    BY DEF IInv
  <1> USE NilIsNoRuntime
  <1>1. ASSUME NEW q \in Requests, RequestStep(q) PROVE HeldParts'
    <2>1. CASE Ensure(q)
      <3>1. \A p \in Requests, s \in Runtimes : Closing(p, s)' <=> Closing(p, s)
        BY <2>1 DEF Ensure, Closing, Goto, TypeOK
      <3>2. CASE UNCHANGED mgrVars
        BY <3>1, <3>2, SameHeld DEF mgrVars
      <3>3. CASE \E r \in Runtimes : Register(target[q], r)
        BY <3>1, <3>3, RegisterHeld DEF TypeOK
      <3> QED
        BY <2>1, <3>2, <3>3 DEF Ensure
    <2>2. CASE EnsureFails(q) \/ LookupSnapshot(q) \/ WaitForSync(q)
      <3>1. \A p \in Requests, s \in Runtimes : Closing(p, s)' <=> Closing(p, s)
        BY <2>2 DEF EnsureFails, LookupSnapshot, WaitForSync, Closing, Goto, TypeOK
      <3> QED
        BY <2>2, <3>1, SameHeld DEF EnsureFails, LookupSnapshot, WaitForSync, mgrVars
    <2>3. CASE SyncSignalled(q) \/ SyncTimesOut(q) \/ ServeOverview(q) \/ ServeList(q)
      <3>1. \A p \in Requests, s \in Runtimes : Closing(p, s)' <=> Closing(p, s)
        BY <2>3 DEF SyncSignalled, SyncTimesOut, ServeOverview, ServeList, Closing,
                    Goto, TypeOK
      <3> QED
        BY <2>3, <3>1, SameHeld
        DEF SyncSignalled, SyncTimesOut, ServeOverview, ServeList, mgrVars
    <2>4. CASE DeleteRow(q)
      <3>1. \A p \in Requests, s \in Runtimes : Closing(p, s)' <=> Closing(p, s)
        BY <2>4 DEF DeleteRow, Closing, Goto, TypeOK
      <3> QED
        BY <2>4, <3>1, SameHeld DEF DeleteRow, mgrVars
    <2>5. CASE StopRemove(q)
      <3> DEFINE gone == registry[target[q]]
      <3>1. \A s \in Runtimes : Current(s)' <=> Current(s) /\ s # gone
        BY <2>5 DEF StopRemove, Current, RegisteredIsRunning, TypeOK
      <3>2. \A p \in Requests, s \in Runtimes :
              Closing(p, s)' <=> Closing(p, s) \/ (p = q /\ s = gone)
        BY <2>5 DEF StopRemove, Closing, Goto, TypeOK
      <3>3. gone \in Runtimes =>
              status[gone] = "running" /\ \A p \in Requests : ~Closing(p, gone)
        BY DEF RegisteredIsRunning, OneCloser, Current, TypeOK
      <3>4. NoOrphanRuntime'
        BY <2>5, <3>1, <3>2 DEF StopRemove, NoOrphanRuntime
      <3>5. OneCloser'
        BY <2>5, <3>1, <3>2, <3>3 DEF StopRemove, OneCloser
      <3>6. RegisteredIsRunning'
        BY <2>5 DEF StopRemove, RegisteredIsRunning, TypeOK
      <3> QED
        BY <3>4, <3>5, <3>6 DEF HeldParts
    <2>6. CASE StopClose(q)
      <3>1. \A p \in Requests, s \in Runtimes :
              Closing(p, s)' <=> Closing(p, s) /\ p # q
        BY <2>6 DEF StopClose, Closing, Goto, TypeOK
      <3>2. \A s \in Runtimes : Current(s)' <=> Current(s)
        BY <2>6 DEF StopClose, Current
      <3>3. \A s \in Runtimes : status'[s] = "running" =>
              status[s] = "running" /\ ~Closing(q, s)
        BY <2>6 DEF StopClose, Closing, TypeOK
      <3>4. \A s \in Runtimes : status'[s] # status[s] => Closing(q, s)
        BY <2>6 DEF StopClose, Closing, TypeOK
      <3>5. NoOrphanRuntime'
        BY <3>1, <3>2, <3>3 DEF NoOrphanRuntime
      <3>6. OneCloser'
        BY <3>1, <3>2, <3>4 DEF OneCloser
      <3>7. RegisteredIsRunning'
        BY <2>6, <3>4
        DEF StopClose, RegisteredIsRunning, OneCloser, Current, TypeOK
      <3> QED
        BY <3>5, <3>6, <3>7 DEF HeldParts
    <2> QED
      BY <1>1, <2>1, <2>2, <2>3, <2>4, <2>5, <2>6 DEF RequestStep
  <1>2. ASSUME NEW q \in Requests,
               GetCluster(q) \/ DeleteArrives(q) \/ SyncGoroutineEnds(q)
        PROVE  HeldParts'
    <2>1. \A p \in Requests, s \in Runtimes : Closing(p, s)' <=> Closing(p, s)
      BY <1>2 DEF GetCluster, DeleteArrives, SyncGoroutineEnds, Closing, Goto, TypeOK
    <2> QED
      BY <1>2, <2>1, SameHeld DEF GetCluster, DeleteArrives, SyncGoroutineEnds, mgrVars
  <1>3. ASSUME NEW c \in Clusters, ImportCluster(c) PROVE HeldParts'
    BY <1>3, SameHeld DEF ImportCluster, Closing, mgrVars, reqVars
  <1>4. ASSUME NEW c \in Clusters, WarmUpEnsures(c) PROVE HeldParts'
    <2>1. \A p \in Requests, s \in Runtimes : Closing(p, s)' <=> Closing(p, s)
      BY <1>4 DEF WarmUpEnsures, Closing, reqVars
    <2>2. CASE UNCHANGED mgrVars
      BY <2>1, <2>2, SameHeld DEF mgrVars
    <2>3. CASE \E r \in Runtimes : Register(c, r)
      BY <2>1, <2>3, RegisterHeld
    <2> QED
      BY <1>4, <2>2, <2>3 DEF WarmUpEnsures
  <1>5. ASSUME NEW r \in Runtimes, CacheFills(r) PROVE HeldParts'
    BY <1>5, SameHeld DEF CacheFills, Closing, reqVars
  <1>6. CASE WarmUpLists \/ ShutdownBegins \/ ShutdownTimesOut \/ Exit \/ Gone
    BY <1>6, SameHeld
    DEF WarmUpLists, ShutdownBegins, ShutdownTimesOut, Exit, Gone, Closing,
        mgrVars, reqVars, vars
  <1>7. CASE StopAll
    <2>1. \A q \in Requests, s \in Runtimes : ~Closing(q, s) /\ ~Closing(q, s)'
      BY <1>7 DEF StopAll, InFlight, Finished, Answers, Closing, reqVars
    <2>2. \A s \in Runtimes : status'[s] # "running"
      BY <1>7, <2>1 DEF StopAll, NoOrphanRuntime, Current
    <2> QED
      BY <1>7, <2>1, <2>2
      DEF StopAll, HeldParts, NoOrphanRuntime, OneCloser, RegisteredIsRunning
  <1>8. CASE UNCHANGED vars
    BY <1>8, SameHeld DEF Closing, vars, mgrVars, reqVars
  <1> QED
    BY <1>1, <1>2, <1>3, <1>4, <1>5, <1>6, <1>7, <1>8 DEF Next

-----------------------------------------------------------------------------
(* Steps after which each request waits for, holds and has answered what it*)
(* did before, except those that move from one such place to another in the*)
(* way the code does; runtimes only gain a full cache.                     *)
LEMMA NextWait == IInv /\ [Next]_vars => WaitParts'
  <1> SUFFICES ASSUME IInv, [Next]_vars PROVE WaitParts'
    OBVIOUS
  <1> TypeOK /\ WaitParts
    BY DEF IInv, WaitParts
  <1> USE DEF WaitParts, WaitersHoldRuntimes, SyncedIsFilled, ReadyIsFilled,
              StoppersDelete, SnapshotIsComplete
  <1>1. ASSUME NEW q \in Requests, RequestStep(q) PROVE WaitParts'
    <2>1. CASE Ensure(q)
      <3>1. held'[q] \in Runtimes
        BY <2>1 DEF Ensure, Register, TypeOK
      <3>2. /\ pc'[q] = "ok" => op[q] = "client"
            /\ pc'[q] \in {"ok", "sync", "lookup"}
        BY <2>1 DEF Ensure, Goto, TypeOK
      <3>3. /\ UNCHANGED <<op, filled, synced>>
            /\ \A p \in Requests \ {q} : pc'[p] = pc[p] /\ held'[p] = held[p]
        BY <2>1 DEF Ensure, Register, Goto, mgrVars, TypeOK
      <3> QED
        BY <3>1, <3>2, <3>3
    <2>2. CASE EnsureFails(q)
      BY <2>2 DEF EnsureFails, Goto, TypeOK, mgrVars
    <2>3. CASE LookupSnapshot(q)
      BY <2>3 DEF LookupSnapshot, Goto, TypeOK, mgrVars
    <2>4. CASE WaitForSync(q)
      BY <2>4 DEF WaitForSync, Goto, TypeOK, mgrVars
    <2>5. CASE SyncSignalled(q)
      BY <2>5 DEF SyncSignalled, Goto, TypeOK, mgrVars
    <2>6. CASE SyncTimesOut(q)
      BY <2>6 DEF SyncTimesOut, Goto, TypeOK, mgrVars
    <2>7. CASE ServeOverview(q)
      BY <2>7 DEF ServeOverview, Goto, TypeOK, mgrVars
    <2>8. CASE ServeList(q)
      BY <2>8 DEF ServeList, Goto, TypeOK, mgrVars
    <2>9. CASE StopRemove(q)
      BY <2>9 DEF StopRemove, Goto, TypeOK
    <2>10. CASE StopClose(q)
      BY <2>10 DEF StopClose, Goto, TypeOK
    <2>11. CASE DeleteRow(q)
      BY <2>11 DEF DeleteRow, Goto, TypeOK, mgrVars
    <2> QED
      BY <1>1, <2>1, <2>2, <2>3, <2>4, <2>5, <2>6, <2>7, <2>8, <2>9, <2>10,
         <2>11 DEF RequestStep
  <1>2. ASSUME NEW q \in Requests, GetCluster(q) \/ DeleteArrives(q)
        PROVE  WaitParts'
    BY <1>2 DEF GetCluster, DeleteArrives, Goto, TypeOK, mgrVars
  <1>3. ASSUME NEW q \in Requests, SyncGoroutineEnds(q) PROVE WaitParts'
    BY <1>3 DEF SyncGoroutineEnds, TypeOK
  <1>4. ASSUME NEW c \in Clusters, ImportCluster(c) \/ WarmUpEnsures(c)
        PROVE  WaitParts'
    BY <1>4 DEF ImportCluster, WarmUpEnsures, Register, mgrVars, reqVars
  <1>5. ASSUME NEW r \in Runtimes, CacheFills(r) PROVE WaitParts'
    BY <1>5 DEF CacheFills, TypeOK, reqVars
  <1>6. CASE WarmUpLists \/ ShutdownBegins \/ ShutdownTimesOut \/ Exit \/ Gone
    BY <1>6 DEF WarmUpLists, ShutdownBegins, ShutdownTimesOut, Exit, Gone,
                mgrVars, reqVars, vars
  <1>7. CASE StopAll
    BY <1>7 DEF StopAll, reqVars
  <1>8. CASE UNCHANGED vars
    BY <1>8 DEF vars, mgrVars, reqVars
  <1> QED
    BY <1>1, <1>2, <1>3, <1>4, <1>5, <1>6, <1>7, <1>8 DEF Next

(* The invariant is inductive.                                             *)
THEOREM Invariance == Spec => []IInv
  <1>1. IInv /\ [Next]_vars => IInv'
    <2> SUFFICES ASSUME IInv, [Next]_vars PROVE IInv'
      OBVIOUS
    <2>1. TypeOK'
      BY NextTypeOK DEF IInv
    <2> QED
      BY <2>1, NextHeld, NextWait DEF IInv, HeldParts, WaitParts
  <1> QED
    BY <1>1, InitIInv, PTL DEF Spec

(* No open runtime is ever lost: StopForCluster and EnsureForCluster, in   *)
(* any interleaving, leave each one registered or about to be closed.      *)
THEOREM NoRuntimeIsLost == Spec => []NoOrphanRuntime
  BY Invariance, PTL DEF IInv

(* stopCh is closed at most once, by the one StopForCluster that removed it*)
THEOREM ClosedByOne == Spec => []OneCloser
  BY Invariance, PTL DEF IInv

(* A registered runtime is open and belongs to its cluster.                *)
THEOREM RegisteredRuns == Spec => []RegisteredIsRunning
  BY Invariance, PTL DEF IInv

(* An overview always counts a cache that was full.                        *)
THEOREM SnapshotsAreComplete == Spec => []SnapshotIsComplete
  BY Invariance, PTL DEF IInv

(* Stop leaves no watch open.                                              *)
THEOREM StopIsComplete == Spec => StopClosesAll
  <1>1. IInv /\ [Next]_vars =>
          [phase' = "stopped" => \A r \in Runtimes : status'[r] # "running"]_phase
    <2> SUFFICES ASSUME IInv, [Next]_vars, phase' = "stopped", phase' # phase
                 PROVE  \A r \in Runtimes : status'[r] # "running"
      OBVIOUS
    <2>1. StopAll
      <3>1. ASSUME NEW q \in Requests, RequestStep(q) PROVE FALSE
        BY <3>1
        DEF RequestStep, Ensure, EnsureFails, LookupSnapshot, WaitForSync,
            SyncSignalled, SyncTimesOut, ServeOverview, ServeList, StopRemove,
            StopClose, DeleteRow, procVars
      <3> QED
        BY <3>1
        DEF Next, GetCluster, DeleteArrives, SyncGoroutineEnds, ImportCluster,
            WarmUpEnsures, CacheFills, WarmUpLists, ShutdownBegins,
            ShutdownTimesOut, Exit, Gone, procVars, vars
    <2>2. \A q \in Requests, s \in Runtimes : ~Closing(q, s)
      BY <2>1 DEF StopAll, InFlight, Finished, Answers, Closing
    <2> QED
      BY <2>1, <2>2 DEF StopAll, IInv, TypeOK, NoOrphanRuntime, Current
  <1> QED
    BY <1>1, Invariance, PTL DEF Spec, StopClosesAll

-----------------------------------------------------------------------------
(* Registering a runtime opens a watch.                                    *)
LEMMA RegisterOpens ==
  ASSUME TypeOK, NEW c \in Clusters, NEW r \in Runtimes, Register(c, r),
         Alive, UNCHANGED phase
  PROVE  Watch!Open(c, r)
  BY DEF IsNext, TypeOK, Register, Alive, Watch!Open

(* A step that leaves the table of the manager, the stopCh of every runtime*)
(* and the process alone is not visible.                                   *)
LEMMA InvisibleStep ==
  ASSUME UNCHANGED <<registry, status, phase>>
  PROVE  UNCHANGED Watch!wvars
  BY DEF Watch!wvars

(* Every step of the manager is a step of the set of watches or a stutter. *)
LEMMA StepSimulation == IInv /\ [Next]_vars => [Watch!Next]_(Watch!wvars)
  <1> SUFFICES ASSUME IInv, [Next]_vars PROVE [Watch!Next]_(Watch!wvars)
    OBVIOUS
  <1> TypeOK /\ NoOrphanRuntime /\ OneCloser
    BY DEF IInv
  <1>1. ASSUME NEW q \in Requests, RequestStep(q)
        PROVE  [Watch!Next]_(Watch!wvars)
    <2>1. CASE Ensure(q)
      <3>1. CASE UNCHANGED mgrVars
        BY <2>1, <3>1, InvisibleStep DEF Ensure, mgrVars, procVars
      <3>2. CASE \E r \in Runtimes : Register(target[q], r)
        <4>1. target[q] \in Clusters
          BY DEF TypeOK
        <4>2. \E r \in Runtimes : Watch!Open(target[q], r)
          BY <2>1, <3>2, <4>1, RegisterOpens DEF Ensure, procVars
        <4> QED
          BY <4>1, <4>2 DEF Watch!Next
      <3> QED
        BY <2>1, <3>1, <3>2 DEF Ensure
    <2>2. CASE EnsureFails(q) \/ LookupSnapshot(q) \/ WaitForSync(q) \/ DeleteRow(q)
      BY <2>2, InvisibleStep
      DEF EnsureFails, LookupSnapshot, WaitForSync, DeleteRow, mgrVars, procVars
    <2>3. CASE SyncSignalled(q) \/ SyncTimesOut(q) \/ ServeOverview(q) \/ ServeList(q)
      BY <2>3, InvisibleStep
      DEF SyncSignalled, SyncTimesOut, ServeOverview, ServeList, mgrVars, procVars
    <2>4. CASE StopRemove(q)
      <3>1. Watch!Retire(target[q])
        BY <2>4 DEF StopRemove, Alive, procVars, Watch!Retire
      <3> QED
        BY <3>1 DEF Watch!Next, TypeOK
    <2>5. CASE StopClose(q)
      <3>1. held[q] \notin Runtimes \/ Closing(q, held[q])
        BY <2>5 DEF StopClose, Closing
      <3>2. CASE held[q] \in Runtimes
        <4> PICK w \in Runtimes : w = held[q]
          BY <3>2
        <4>1. status[w] = "running" /\ ~Watch!IsCurrent(w)
          BY <3>1, <3>2 DEF OneCloser, Current, Watch!IsCurrent
        <4>2. \A s \in Runtimes :
                status'[s] = IF s = w THEN "stopped" ELSE status[s]
          BY <2>5 DEF StopClose, TypeOK
        <4>3. /\ UNCHANGED <<registry, phase>>
              /\ phase # "exited"
          BY <2>5 DEF StopClose, Alive, procVars
        <4>4. {s \in Runtimes : status'[s] = "running"} =
                {s \in Runtimes : status[s] = "running"} \ {w}
          BY <4>2
        <4>5. {s \in Runtimes : status'[s] = "stopped"} =
                {s \in Runtimes : status[s] = "stopped"} \cup {w}
          BY <4>2
        <4>6. Watch!Close(w)
          BY <4>1, <4>3, <4>4, <4>5 DEF Watch!Close
        <4> QED
          BY <4>6 DEF Watch!Next
      <3>3. CASE held[q] \notin Runtimes
        BY <2>5, <3>3, InvisibleStep DEF StopClose, TypeOK, procVars
      <3> QED
        BY <3>2, <3>3
    <2> QED
      BY <1>1, <2>1, <2>2, <2>3, <2>4, <2>5 DEF RequestStep
  <1>2. ASSUME NEW q \in Requests,
               GetCluster(q) \/ DeleteArrives(q) \/ SyncGoroutineEnds(q)
        PROVE  [Watch!Next]_(Watch!wvars)
    BY <1>2, InvisibleStep
    DEF GetCluster, DeleteArrives, SyncGoroutineEnds, mgrVars, procVars
  <1>3. ASSUME NEW c \in Clusters, ImportCluster(c)
        PROVE  [Watch!Next]_(Watch!wvars)
    BY <1>3, InvisibleStep DEF ImportCluster, mgrVars, procVars
  <1>4. ASSUME NEW c \in Clusters, WarmUpEnsures(c)
        PROVE  [Watch!Next]_(Watch!wvars)
    <2>1. CASE UNCHANGED mgrVars
      BY <1>4, <2>1, InvisibleStep DEF WarmUpEnsures, mgrVars
    <2>2. CASE \E r \in Runtimes : Register(c, r)
      BY <1>4, <2>2, RegisterOpens DEF WarmUpEnsures, Watch!Next
    <2> QED
      BY <1>4, <2>1, <2>2 DEF WarmUpEnsures
  <1>5. ASSUME NEW r \in Runtimes, CacheFills(r) PROVE [Watch!Next]_(Watch!wvars)
    BY <1>5, InvisibleStep DEF CacheFills, procVars
  <1>6. CASE WarmUpLists \/ Gone
    BY <1>6, InvisibleStep DEF WarmUpLists, Gone, vars, mgrVars, procVars
  <1>7. CASE ShutdownBegins
    BY <1>7 DEF ShutdownBegins, mgrVars, Watch!wvars
  <1>8. CASE ShutdownTimesOut \/ Exit
    BY <1>8 DEF ShutdownTimesOut, Exit, mgrVars, Watch!Next, Watch!Halt
  <1>9. CASE StopAll
    <2>1. \A q \in Requests, s \in Runtimes : ~Closing(q, s)
      BY <1>9 DEF StopAll, InFlight, Finished, Answers, Closing
    <2>2. \A s \in Runtimes : status'[s] =
            IF status[s] = "running" THEN "stopped" ELSE status[s]
      BY <1>9, <2>1, NilIsNoRuntime
      DEF StopAll, NoOrphanRuntime, Current, IInv, RegisteredIsRunning, TypeOK
    <2>3. {s \in Runtimes : status'[s] = "running"} = {}
      BY <2>2
    <2>4. {s \in Runtimes : status'[s] = "stopped"} =
            {s \in Runtimes : status[s] = "stopped"}
              \cup {s \in Runtimes : status[s] = "running"}
      BY <2>2
    <2>5. Watch!CloseAll
      BY <1>9, <2>3, <2>4 DEF StopAll, Watch!CloseAll
    <2> QED
      BY <2>5 DEF Watch!Next
  <1>10. CASE UNCHANGED vars
    BY <1>10, InvisibleStep DEF vars, mgrVars, procVars
  <1> QED
    BY <1>1, <1>2, <1>3, <1>4, <1>5, <1>6, <1>7, <1>8, <1>9, <1>10 DEF Next

(* ClusterInformerManager, with every caller it has, implements the safety *)
(* part of WatchSet.                                                       *)
THEOREM ManagerIsWatchSet == Spec => Watch!Spec
  <1>1. Init => Watch!Init
    BY DEF Init, Watch!Init
  <1> QED
    BY <1>1, StepSimulation, Invariance, PTL DEF Spec, Watch!Spec
===============================================================================
