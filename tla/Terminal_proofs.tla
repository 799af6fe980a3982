---------------------------- MODULE Terminal_proofs ----------------------------
(***************************************************************************)
(* The two halves of the Pod terminals: what activeSessions promises the   *)
(* cleanup worker of the kubectl Pods, and what one session, as a          *)
(* connection to such a Pod or to any other runs it                        *)
(* (RunPodTerminalWithConn), promises its audit record.  The two           *)
(* specifications share no variable.                                       *)
(*                                                                         *)
(* IInv of KubectlPod is inductive: EstablishedIsSpared needs CountIsExact *)
(* (a count of 0 really means nobody), and CoveredIsCounted ties the       *)
(* connections of the last list to the ones that are counted.  SessionInv  *)
(* of PodTerminal is: CommandsWithinEnters is not inductive, because       *)
(* between the keystroke and pendingEnter the line end is only in the      *)
(* reader's hands, which EntersAccountFor adds.                            *)
(***************************************************************************)
EXTENDS KubectlPod, PodTerminal, FiniteSetTheorems, TLAPS

(* Only steps that move a connection into or out of InUse, or to another   *)
(* Pod, change what is counted.                                            *)
LEMMA SameCounted ==
  ASSUME active' = active,
         \A s \in Sessions : (pc'[s] \in InUse) <=> (pc[s] \in InUse),
         \A s \in Sessions : pc[s] \in InUse => at'[s] = at[s],
         CountIsExact
  PROVE  CountIsExact'
<1>1. \A p \in Pods : CountedAt(p)' = CountedAt(p)
  BY DEF CountedAt
<1> QED
  BY <1>1 DEF CountIsExact

(* The connections counted for a Pod are finitely many.                    *)
LEMMA CountedIsFinite == \A p : IsFiniteSet(CountedAt(p)) /\ IsFiniteSet(CountedAt(p))'
<1> TAKE p
<1>1. CountedAt(p) \subseteq Sessions /\ CountedAt(p)' \subseteq Sessions
  BY DEF CountedAt
<1> QED
  BY <1>1, FinitelyManySessions, FS_Subset

(* The initial states satisfy the inductive invariant.                     *)
LEMMA InitIInv == Init => IInv
<1> SUFFICES ASSUME Init PROVE IInv
  OBVIOUS
<1>1. TypeOK
  BY DEF Init, TypeOK, PCs
<1>2. \A p \in Pods : CountedAt(p) = {}
  BY DEF Init, CountedAt, InUse
<1>3. CountIsExact
  BY <1>2, FS_EmptySet DEF Init, CountIsExact
<1>4. CoveredIsCounted /\ EstablishedIsSpared
  BY DEF Init, CoveredIsCounted, EstablishedIsSpared
<1> QED
  BY <1>1, <1>3, <1>4 DEF IInv

(* Every step keeps the types.                                             *)
LEMMA NextTypeOK == TypeOK /\ [Next]_vars => TypeOK'
<1> SUFFICES ASSUME TypeOK, [Next]_vars PROVE TypeOK'
  OBVIOUS
<1> USE DEF TypeOK, PCs, Setup, InUse, Phases, podVars, connVars, workerVars, Goto
<1>1. ASSUME NEW s \in Sessions, ServerStep(s) PROVE TypeOK'
  <2>1. CASE GetPod(s)
    BY <2>1 DEF GetPod
  <2>2. CASE GetFails(s) \/ CreateFails(s) \/ WaitFails(s) \/ SeesRunning(s) \/ Attach(s)
    BY <2>2 DEF GetFails, CreateFails, WaitFails, SeesRunning, Attach
  <2>3. CASE DeleteStopped(s)
    BY <2>3 DEF DeleteStopped, MarkDeleted, Exists
  <2>4. CASE CreatePod(s)
    BY <2>4 DEF CreatePod
  <2>5. CASE Touch(s)
    BY <2>5 DEF Touch
  <2>6. CASE Count(s)
    BY <2>6 DEF Count
  <2>7. CASE Leave(s)
    BY <2>7 DEF Leave
  <2> QED
    BY <1>1, <2>1, <2>2, <2>3, <2>4, <2>5, <2>6, <2>7 DEF ServerStep
<1>2. ASSUME NEW s \in Sessions, ClientStep(s) PROVE TypeOK'
  BY <1>2 DEF ClientStep, Disconnect, Connect
<1>3. CASE WorkerStep
  <2>1. CASE ListPods
    BY <2>1 DEF ListPods
  <2>2. ASSUME NEW p \in Pods, Inspect(p) PROVE TypeOK'
    BY <2>2 DEF Inspect
  <2>3. ASSUME NEW p \in Pods, DeleteIdle(p) \/ DeleteIdleFails(p) PROVE TypeOK'
    BY <2>3 DEF DeleteIdle, DeleteIdleFails, MarkDeleted, Exists
  <2> QED
    BY <1>3, <2>1, <2>2, <2>3 DEF WorkerStep
<1>4. ASSUME NEW p \in Pods, ClusterStep(p) PROVE TypeOK'
  <2>1. CASE PhaseChanges(p)
    BY <2>1 DEF PhaseChanges
  <2>2. CASE PodGone(p)
    BY <2>2 DEF PodGone
  <2>3. CASE HourPasses(p)
    BY <2>3 DEF HourPasses
  <2> QED
    BY <1>4, <2>1, <2>2, <2>3 DEF ClusterStep
<1>5. CASE UNCHANGED vars
  BY <1>5 DEF vars
<1> QED
  BY <1>1, <1>2, <1>3, <1>4, <1>5 DEF Next

(* Count adds one connection and one to the count.                         *)
LEMMA CountKeepsCount ==
  ASSUME TypeOK, CountIsExact, NEW s \in Sessions, Count(s)
  PROVE  CountIsExact'
<1> SUFFICES ASSUME NEW p \in Pods PROVE active'[p] = Cardinality(CountedAt(p)')
  BY DEF CountIsExact
<1>1. CASE p = at[s]
  <2>1. CountedAt(p)' = CountedAt(p) \cup {s} /\ s \notin CountedAt(p)
    BY <1>1 DEF Count, Goto, CountedAt, TypeOK, PCs, Setup, InUse
  <2>2. Cardinality(CountedAt(p)') = Cardinality(CountedAt(p)) + 1
    BY <2>1, CountedIsFinite, FS_AddElement
  <2>3. active'[p] = active[p] + 1
    BY <1>1 DEF Count, TypeOK
  <2> QED
    BY <2>2, <2>3 DEF CountIsExact
<1>2. CASE p # at[s]
  <2>1. CountedAt(p)' = CountedAt(p)
    BY <1>2 DEF Count, Goto, CountedAt, TypeOK, PCs, Setup, InUse
  <2>2. active'[p] = active[p]
    BY <1>2 DEF Count, TypeOK
  <2> QED
    BY <2>1, <2>2 DEF CountIsExact
<1> QED
  BY <1>1, <1>2

(* Leave takes the connection and its one count away; the count is not 0.  *)
LEMMA LeaveKeepsCount ==
  ASSUME TypeOK, CountIsExact, NEW s \in Sessions, Leave(s)
  PROVE  CountIsExact'
<1> SUFFICES ASSUME NEW p \in Pods PROVE active'[p] = Cardinality(CountedAt(p)')
  BY DEF CountIsExact
<1>1. CASE p = at[s]
  <2>1. CountedAt(p)' = CountedAt(p) \ {s} /\ s \in CountedAt(p)
    BY <1>1 DEF Leave, Goto, CountedAt, TypeOK, PCs, Setup, InUse
  <2>2. Cardinality(CountedAt(p)') = Cardinality(CountedAt(p)) - 1
    BY <2>1, CountedIsFinite, FS_RemoveElement
  <2>3. active[p] = Cardinality(CountedAt(p)) /\ active[p] \in Nat
    BY DEF CountIsExact, TypeOK
  <2>4. Cardinality(CountedAt(p)') \in Nat
    BY CountedIsFinite, FS_CardinalityType
  <2>5. active'[p] = IF active[p] > 0 THEN active[p] - 1 ELSE 0
    BY <1>1 DEF Leave, TypeOK
  <2> QED
    BY <2>2, <2>3, <2>4, <2>5
<1>2. CASE p # at[s]
  <2>1. CountedAt(p)' = CountedAt(p)
    BY <1>2 DEF Leave, Goto, CountedAt, TypeOK, PCs, Setup, InUse
  <2>2. active'[p] = active[p]
    BY <1>2 DEF Leave, TypeOK
  <2> QED
    BY <2>1, <2>2 DEF CountIsExact
<1> QED
  BY <1>1, <1>2

(* Every step keeps the counts exact.                                      *)
LEMMA NextCount == TypeOK /\ CountIsExact /\ [Next]_vars => CountIsExact'
<1> SUFFICES ASSUME TypeOK, CountIsExact, [Next]_vars PROVE CountIsExact'
  OBVIOUS
<1> DEFINE Quiet == /\ active' = active
                    /\ \A s \in Sessions : (pc'[s] \in InUse) <=> (pc[s] \in InUse)
                    /\ \A s \in Sessions : pc[s] \in InUse => at'[s] = at[s]
<1>1. ASSUME NEW s \in Sessions, ServerStep(s) PROVE CountIsExact'
  <2>1. CASE Count(s)
    BY <2>1, CountKeepsCount
  <2>2. CASE Leave(s)
    BY <2>2, LeaveKeepsCount
  <2>3. CASE GetPod(s) \/ GetFails(s) \/ DeleteStopped(s) \/ CreatePod(s) \/ CreateFails(s)
    <3>1. Quiet
      BY <2>3 DEF GetPod, GetFails, DeleteStopped, CreatePod, CreateFails, Goto,
                  TypeOK, PCs, Setup, InUse
    <3> QED
      BY <3>1, SameCounted
  <2>4. CASE SeesRunning(s) \/ WaitFails(s) \/ Touch(s) \/ Attach(s)
    <3>1. Quiet
      BY <2>4 DEF SeesRunning, WaitFails, Touch, Attach, Goto, TypeOK, PCs, Setup, InUse
    <3> QED
      BY <3>1, SameCounted
  <2> QED
    BY <1>1, <2>1, <2>2, <2>3, <2>4 DEF ServerStep
<1>2. ASSUME NEW s \in Sessions, ClientStep(s) PROVE CountIsExact'
  <2>1. Quiet
    BY <1>2 DEF ClientStep, Disconnect, Connect, Goto, TypeOK, PCs, Setup, InUse
  <2> QED
    BY <2>1, SameCounted
<1>3. CASE WorkerStep \/ UNCHANGED vars
  <2>1. Quiet
    BY <1>3 DEF WorkerStep, ListPods, Inspect, DeleteIdle, DeleteIdleFails, connVars, vars
  <2> QED
    BY <2>1, SameCounted
<1>4. ASSUME NEW p \in Pods, ClusterStep(p) PROVE CountIsExact'
  <2>1. Quiet
    BY <1>4 DEF ClusterStep, PhaseChanges, PodGone, HourPasses, connVars, TypeOK, PCs,
                Setup, InUse
  <2> QED
    BY <2>1, SameCounted
<1> QED
  BY <1>1, <1>2, <1>3, <1>4 DEF Next

(* Every step keeps what the worker knows true: a connection of the last   *)
(* list is still counted, and its Pod is not the victim.                   *)
LEMMA NextSpared == IInv /\ [Next]_vars => CoveredIsCounted' /\ EstablishedIsSpared'
<1> SUFFICES ASSUME IInv, [Next]_vars PROVE CoveredIsCounted' /\ EstablishedIsSpared'
  OBVIOUS
<1> USE DEF IInv, CoveredIsCounted, EstablishedIsSpared
<1> DEFINE Quiet == /\ victim' = victim
                    /\ covered' \subseteq covered
                    /\ \A s \in covered' : pc'[s] \in InUse /\ at'[s] = at[s]
<1>0. Quiet => CoveredIsCounted' /\ EstablishedIsSpared'
  OBVIOUS
<1>1. ASSUME NEW s \in Sessions, ServerStep(s) PROVE Quiet
  <2>1. CASE Leave(s)
    BY <2>1 DEF Leave, Goto, TypeOK, workerVars
  <2>2. CASE GetPod(s) \/ GetFails(s) \/ DeleteStopped(s) \/ CreatePod(s) \/ CreateFails(s)
    BY <2>2 DEF GetPod, GetFails, DeleteStopped, CreatePod, CreateFails, Goto,
                TypeOK, PCs, Setup, InUse, workerVars
  <2>3. CASE SeesRunning(s) \/ WaitFails(s) \/ Touch(s) \/ Attach(s) \/ Count(s)
    BY <2>3 DEF SeesRunning, WaitFails, Touch, Attach, Count, Goto, TypeOK, PCs, Setup,
                InUse, workerVars
  <2> QED
    BY <1>1, <2>1, <2>2, <2>3 DEF ServerStep
<1>2. ASSUME NEW s \in Sessions, ClientStep(s) PROVE Quiet
  BY <1>2 DEF ClientStep, Disconnect, Connect, Goto, TypeOK, PCs, Setup, InUse, workerVars
<1>3. CASE ListPods
  BY <1>3, NilIsNoPod DEF ListPods, Resting, TypeOK, connVars
<1>4. ASSUME NEW p \in Pods, Inspect(p) PROVE CoveredIsCounted' /\ EstablishedIsSpared'
  <2>1. CoveredIsCounted'
    BY <1>4 DEF Inspect, connVars
  <2>2. CASE active[p] = 0
    <3>1. CountedAt(p) = {}
      BY <2>2, CountedIsFinite, FS_EmptySet DEF CountIsExact
    <3>2. \A s \in covered : at[s] # p
      BY <3>1 DEF CountedAt, TypeOK
    <3> QED
      BY <1>4, <2>1, <3>2, NilIsNoPod DEF Inspect, connVars
  <2>3. CASE active[p] # 0
    BY <1>4, <2>1, <2>3, NilIsNoPod DEF Inspect, connVars
  <2> QED
    BY <2>2, <2>3
<1>5. ASSUME NEW p \in Pods, DeleteIdle(p) \/ DeleteIdleFails(p)
      PROVE  CoveredIsCounted' /\ EstablishedIsSpared'
  BY <1>5, NilIsNoPod DEF DeleteIdle, DeleteIdleFails, connVars
<1>6. ASSUME NEW p \in Pods, ClusterStep(p) PROVE Quiet
  BY <1>6 DEF ClusterStep, PhaseChanges, PodGone, HourPasses, connVars, workerVars, TypeOK,
              PCs, Setup, InUse
<1>7. CASE UNCHANGED vars
  BY <1>7 DEF vars, connVars, workerVars
<1> QED
  BY <1>0, <1>1, <1>2, <1>3, <1>4, <1>5, <1>6, <1>7 DEF Next, WorkerStep

(* Every reachable state of the terminal satisfies the inductive           *)
(* invariant.                                                              *)
LEMMA Invariance == Spec => []IInv
<1>1. IInv /\ [Next]_vars => IInv'
  BY NextTypeOK, NextCount, NextSpared DEF IInv
<1> QED
  BY InitIInv, <1>1, PTL DEF Spec

(* The variables keep their types for any sets of connections and Pods.    *)
THEOREM TypeCorrect == Spec => []TypeOK
<1>1. IInv => TypeOK
  BY DEF IInv
<1> QED
  BY <1>1, Invariance, PTL

(* activeSessions never drifts from the connections it stands for,         *)
(* whatever fails in the handler.                                          *)
THEOREM CountsAreExact == Spec => []CountIsExact
<1>1. IInv => CountIsExact
  BY DEF IInv
<1> QED
  BY <1>1, Invariance, PTL

(* The worker never decides to delete the Pod of a connection that was     *)
(* counted when it listed.                                                 *)
THEOREM EstablishedAreSpared == Spec => []EstablishedIsSpared
<1>1. IInv => EstablishedIsSpared
  BY DEF IInv
<1> QED
  BY <1>1, Invariance, PTL

-------------------------------------------------------------------------------
USE DEF sessionVars, remoteVars, commandVars, recorderVars, logVars, auditVars

(* The initial state satisfies the inductive invariant.                    *)
LEMMA InitSessionInv == SessionInit => SessionInv
<1> SUFFICES ASSUME SessionInit PROVE SessionInv
  OBVIOUS
<1>1. Labels
  BY DEF SessionInit, Labels, Readers, Chunks
<1>2. Counts
  BY EntersIsNat, RoomForTheDefaultSize, RoomIsNat DEF SessionInit, Counts
<1>3. EntersAccountFor
  BY DEF SessionInit, EntersAccountFor
<1>4. RowFollowsReader
  BY DEF SessionInit, RowFollowsReader
<1>5. CommandsAccountFor
  BY DEF SessionInit, CommandsAccountFor
<1> QED
  BY <1>1, <1>2, <1>3, <1>4, <1>5 DEF SessionInv, SessionTypeOK

(* Every step keeps the control labels and flags in their ranges.          *)
LEMMA NextLabels == Labels /\ [SessionNext]_terminalVars => Labels'
<1> SUFFICES ASSUME Labels, [SessionNext]_terminalVars PROVE Labels'
  OBVIOUS
<1> USE DEF Labels, Readers, Cleanup, Chunks, Audited
<1>1. CASE ReaderStep
  <2>1. CASE StartSession
    BY <2>1 DEF StartSession
  <2>2. CASE StartTerminal \/ NoShell
    BY <2>2 DEF StartTerminal, NoShell
  <2>3. CASE InputTaken
    BY <2>3 DEF InputTaken
  <2>4. CASE ResizeDone
    BY <2>4 DEF ResizeDone
  <2>5. CASE ReadFails \/ CancelContext
    BY <2>5 DEF ReadFails, CancelContext
  <2>6. CASE EndReplay
    <3>1. replay' \in BOOLEAN /\ recorder' \in {"nil", "open", "ended"}
      BY <2>6 DEF EndReplay
    <3> QED
      BY <2>6, <3>1 DEF EndReplay
  <2>7. CASE ClosePipes \/ CheckDone
    BY <2>7 DEF ClosePipes, CheckDone
  <2>8. CASE CloseDone \/ CloseRow
    BY <2>8 DEF CloseDone, CloseRow
  <2> QED
    BY <1>1, <2>1, <2>2, <2>3, <2>4, <2>5, <2>6, <2>7, <2>8 DEF ReaderStep
<1>2. CASE ExecStep
  BY <1>2 DEF ExecStep, ExecChecksDone, ExecClosesDone
<1>3. CASE CopierStep
  BY <1>3 DEF CopierStep, CopierSends, CopierEnds
<1>4. CASE OutputStep
  <2>1. CASE OutputArrives \/ OutputSent \/ OutputEnds
    BY <2>1 DEF OutputArrives, OutputSent, OutputEnds
  <2>2. CASE OutputTracked
    <3>1. pending' \in BOOLEAN
      BY <2>2 DEF OutputTracked
    <3> QED
      BY <2>2, <3>1 DEF OutputTracked
  <2> QED
    BY <1>4, <2>1, <2>2 DEF OutputStep
<1>5. CASE BrowserStep
  BY <1>5 DEF BrowserStep, Resize, BrowserLeaves, Input
<1>6. CASE StreamStarts \/ StreamEnds \/ TakeSize \/ RemoteAnswers
  BY <1>6 DEF StreamStarts, StreamEnds, TakeSize, RemoteAnswers
<1>7. CASE RecordStep
  BY <1>7 DEF RecordStep, CommandStored, CommandSized
<1>8. CASE UNCHANGED terminalVars
  BY <1>8 DEF terminalVars
<1> QED
  BY <1>1, <1>2, <1>3, <1>4, <1>5, <1>6, <1>7, <1>8 DEF SessionNext

(* Every step keeps the counters in their bounds.                          *)
LEMMA NextCounts == Counts /\ [SessionNext]_terminalVars => Counts'
<1> SUFFICES ASSUME Counts, [SessionNext]_terminalVars PROVE Counts'
  OBVIOUS
<1> USE RoomForTheDefaultSize, RoomIsNat, EntersIsNat DEF Counts
<1>1. CASE ReaderStep
  <2>1. CASE StartSession
    BY <2>1 DEF StartSession
  <2>2. CASE StartTerminal \/ NoShell
    BY <2>2 DEF StartTerminal, NoShell
  <2>3. CASE InputTaken
    BY <2>3 DEF InputTaken
  <2>4. CASE ResizeDone
    BY <2>4 DEF ResizeDone
  <2>5. CASE ReadFails \/ CancelContext
    BY <2>5 DEF ReadFails, CancelContext
  <2>6. CASE EndReplay
    BY <2>6 DEF EndReplay
  <2>7. CASE ClosePipes \/ CheckDone
    BY <2>7 DEF ClosePipes, CheckDone
  <2>8. CASE CloseDone \/ CloseRow
    BY <2>8 DEF CloseDone, CloseRow
  <2> QED
    BY <1>1, <2>1, <2>2, <2>3, <2>4, <2>5, <2>6, <2>7, <2>8 DEF ReaderStep
<1>2. CASE ExecStep
  BY <1>2 DEF ExecStep, ExecChecksDone, ExecClosesDone
<1>3. CASE CopierStep
  BY <1>3 DEF CopierStep, CopierSends, CopierEnds
<1>4. CASE OutputStep
  <2>1. CASE OutputArrives \/ OutputSent \/ OutputEnds
    BY <2>1 DEF OutputArrives, OutputSent, OutputEnds
  <2>2. CASE OutputTracked
    BY <2>2 DEF OutputTracked
  <2> QED
    BY <1>4, <2>1, <2>2 DEF OutputStep
<1>5. CASE BrowserStep
  BY <1>5 DEF BrowserStep, Resize, BrowserLeaves, Input
<1>6. CASE StreamStarts \/ StreamEnds \/ TakeSize \/ RemoteAnswers
  BY <1>6 DEF StreamStarts, StreamEnds, TakeSize, RemoteAnswers
<1>7. CASE RecordStep
  BY <1>7 DEF RecordStep, CommandStored, CommandSized
<1>8. CASE UNCHANGED terminalVars
  BY <1>8 DEF terminalVars
<1> QED
  BY <1>1, <1>2, <1>3, <1>4, <1>5, <1>6, <1>7, <1>8 DEF SessionNext

(* Every step keeps the count of line ends: only typing one, handing it    *)
(* over and taking a command from the output move it on.                   *)
LEMMA NextEnters == SessionTypeOK /\ EntersAccountFor /\ [SessionNext]_terminalVars => EntersAccountFor'
<1> SUFFICES ASSUME SessionTypeOK, EntersAccountFor, [SessionNext]_terminalVars PROVE EntersAccountFor'
  OBVIOUS
<1> DEFINE Typing == reader = "typing" /\ typing = "enter"
           Quiet  == UNCHANGED commandVars /\ (Typing' => Typing)
<1>0. ASSUME Quiet PROVE EntersAccountFor'
  <2>1. recorded' = recorded /\ enters' = enters /\ pending' = pending
    BY <1>0
  <2>2. (IF Typing' THEN 1 ELSE 0) <= (IF Typing THEN 1 ELSE 0)
    BY <1>0
  <2>3. (IF pending' THEN 1 ELSE 0) = (IF pending THEN 1 ELSE 0)
    BY <2>1
  <2> DEFINE P == IF pending THEN 1 ELSE 0
             T == IF Typing THEN 1 ELSE 0
             U == IF Typing' THEN 1 ELSE 0
  <2>4. P \in Nat /\ T \in Nat /\ U \in Nat /\ recorded \in Nat /\ enters \in Nat
    BY EntersIsNat DEF SessionTypeOK, Labels, Counts
  <2>5. U <= T
    BY <2>2
  <2>6. recorded + P + T <= enters
    BY DEF EntersAccountFor
  <2> HIDE DEF P, T, U
  <2>7. recorded + P + U <= enters
    BY <2>4, <2>5, <2>6
  <2> QED
    BY <2>1, <2>3, <2>7 DEF EntersAccountFor, P, U
<1>1. CASE InputTaken
  <2>1. CASE typing = "enter"
    BY <1>1, <2>1, EntersIsNat DEF InputTaken, SessionTypeOK, Labels, Counts, EntersAccountFor
  <2>2. CASE typing # "enter"
    BY <1>1, <2>2, EntersIsNat DEF InputTaken, SessionTypeOK, Labels, Counts, EntersAccountFor
  <2> QED
    BY <2>1, <2>2
<1>2. ASSUME NEW chunk \in Chunks, Input(chunk) PROVE EntersAccountFor'
  BY <1>2, EntersIsNat DEF Input, SessionTypeOK, Labels, Counts, EntersAccountFor, Chunks
<1>3. CASE OutputTracked
  BY <1>3, EntersIsNat DEF OutputTracked, SessionTypeOK, Labels, Counts, EntersAccountFor
<1>4. CASE ReaderStep /\ ~InputTaken
  <2>1. Quiet
    BY <1>4 DEF ReaderStep, StartSession, StartTerminal, NoShell, ResizeDone, ReadFails,
                CancelContext, EndReplay, ClosePipes, CheckDone, CloseDone, CloseRow
  <2> QED
    BY <1>0, <2>1
<1>5. CASE ExecStep \/ CopierStep
  <2>1. Quiet
    BY <1>5 DEF ExecStep, ExecChecksDone, ExecClosesDone, CopierStep, CopierSends, CopierEnds
  <2> QED
    BY <1>0, <2>1
<1>6. CASE OutputArrives \/ OutputSent \/ OutputEnds
  <2>1. Quiet
    BY <1>6 DEF OutputArrives, OutputSent, OutputEnds
  <2> QED
    BY <1>0, <2>1
<1>7. CASE Resize \/ BrowserLeaves \/ StreamStarts \/ StreamEnds \/ TakeSize \/ RemoteAnswers
  <2>1. Quiet
    BY <1>7 DEF Resize, BrowserLeaves, StreamStarts, StreamEnds, TakeSize, RemoteAnswers
  <2> QED
    BY <1>0, <2>1
<1>8. CASE RecordStep
  <2>1. Quiet
    BY <1>8 DEF RecordStep, CommandStored, CommandSized
  <2> QED
    BY <1>0, <2>1
<1>9. CASE UNCHANGED terminalVars
  <2>1. Quiet
    BY <1>9 DEF terminalVars
  <2> QED
    BY <1>0, <2>1
<1> QED
  BY <1>1, <1>2, <1>3, <1>4, <1>5, <1>6, <1>7, <1>8, <1>9 DEF SessionNext, OutputStep, BrowserStep

(* Every step keeps the account of the commands: only taking one, storing  *)
(* it, adding its size and a crash move it on.                             *)
LEMMA NextCommands ==
  Counts /\ CommandsAccountFor /\ [SessionNext]_terminalVars => CommandsAccountFor'
<1> SUFFICES ASSUME Counts, CommandsAccountFor, [SessionNext]_terminalVars PROVE CommandsAccountFor'
  OBVIOUS
<1> DEFINE Quiet == UNCHANGED logVars /\ UNCHANGED recorded
<1>0. ASSUME Quiet PROVE CommandsAccountFor'
  BY <1>0 DEF CommandsAccountFor
<1> HIDE DEF Quiet
<1>1. CASE OutputTracked
  BY <1>1 DEF OutputTracked, Counts, CommandsAccountFor
<1>2. CASE ExecClosesDone
  BY <1>2 DEF ExecClosesDone, Counts, CommandsAccountFor
<1>3. CASE CommandStored
  BY <1>3 DEF CommandStored, Counts, CommandsAccountFor
<1>4. CASE CommandSized
  <2>1. sized \in Nat /\ sizing \in Nat /\ stored \in Nat
    BY DEF Counts
  <2>2. sized' \in {sized, sized + 1} /\ sizing' = sizing - 1 /\ stored' = stored
    BY <1>4 DEF CommandSized
  <2>3. sizing' + sized' <= stored'
    <3>1. CASE sized' = sized
      BY <2>1, <2>2, <3>1 DEF CommandsAccountFor
    <3>2. CASE sized' = sized + 1
      <4>1. sizing' + sized' = sizing + sized
        BY <2>1, <2>2, <3>2
      <4> QED
        BY <2>2, <4>1 DEF CommandsAccountFor
    <3> QED
      BY <2>2, <3>1, <3>2
  <2>4. inserting' = inserting /\ recorded' = recorded
    BY <1>4 DEF CommandSized
  <2> QED
    BY <2>2, <2>3, <2>4 DEF CommandsAccountFor
<1>5. CASE ReaderStep
  <2>1. Quiet
    BY <1>5 DEF ReaderStep, StartSession, StartTerminal, NoShell, InputTaken, ResizeDone, ReadFails,
                CancelContext, EndReplay, ClosePipes, CheckDone, CloseDone, CloseRow, Quiet
  <2> QED
    BY <1>0, <2>1
<1>6. CASE ExecChecksDone \/ CopierStep
  <2>1. Quiet
    BY <1>6 DEF ExecChecksDone, CopierStep, CopierSends, CopierEnds, Quiet
  <2> QED
    BY <1>0, <2>1
<1>7. CASE OutputArrives \/ OutputSent \/ OutputEnds
  <2>1. Quiet
    BY <1>7 DEF OutputArrives, OutputSent, OutputEnds, Quiet
  <2> QED
    BY <1>0, <2>1
<1>8. CASE BrowserStep \/ StreamStarts \/ StreamEnds \/ TakeSize \/ RemoteAnswers
  <2>1. Quiet
    BY <1>8 DEF BrowserStep, Resize, BrowserLeaves, Input, StreamStarts, StreamEnds, TakeSize,
                RemoteAnswers, Quiet
  <2> QED
    BY <1>0, <2>1
<1>9. CASE UNCHANGED terminalVars
  <2>1. Quiet
    BY <1>9 DEF terminalVars, Quiet
  <2> QED
    BY <1>0, <2>1
<1> QED
  BY <1>1, <1>2, <1>3, <1>4, <1>5, <1>6, <1>7, <1>8, <1>9 DEF SessionNext, ExecStep, OutputStep, RecordStep

(* Every step keeps the row and the recorder in step with the handler.     *)
LEMMA NextRow == SessionTypeOK /\ RowFollowsReader /\ [SessionNext]_terminalVars => RowFollowsReader'
<1> SUFFICES ASSUME SessionTypeOK, RowFollowsReader, [SessionNext]_terminalVars PROVE RowFollowsReader'
  OBVIOUS
<1> USE DEF RowFollowsReader, Audited
<1>1. CASE ReaderStep
  <2>1. CASE StartSession \/ StartTerminal \/ NoShell \/ InputTaken
    BY <2>1 DEF StartSession, StartTerminal, NoShell, InputTaken
  <2>2. CASE ResizeDone
    <3>1. started => started'
      BY <2>2 DEF ResizeDone
    <3> QED
      BY <2>2, <3>1 DEF ResizeDone
  <2>5. CASE ReadFails \/ CancelContext
    BY <2>5 DEF ReadFails, CancelContext
  <2>3. CASE EndReplay
    BY <2>3 DEF EndReplay
  <2>4. CASE ClosePipes \/ CheckDone \/ CloseDone \/ CloseRow
    BY <2>4 DEF ClosePipes, CheckDone, CloseDone, CloseRow
  <2> QED
    BY <1>1, <2>1, <2>2, <2>3, <2>4, <2>5 DEF ReaderStep
<1>2. CASE ExecStep \/ CopierStep
  BY <1>2 DEF ExecStep, ExecChecksDone, ExecClosesDone, CopierStep, CopierSends, CopierEnds
<1>3. CASE OutputStep
  BY <1>3 DEF OutputStep, OutputArrives, OutputSent, OutputEnds, OutputTracked, SessionTypeOK, Labels
<1>4. CASE BrowserStep
  BY <1>4 DEF BrowserStep, Resize, BrowserLeaves, Input
<1>5. CASE StreamStarts \/ StreamEnds \/ TakeSize \/ RemoteAnswers
  BY <1>5 DEF StreamStarts, StreamEnds, TakeSize, RemoteAnswers
<1>6. CASE RecordStep
  BY <1>6 DEF RecordStep, CommandStored, CommandSized
<1>7. CASE UNCHANGED terminalVars
  BY <1>7 DEF terminalVars
<1> QED
  BY <1>1, <1>2, <1>3, <1>4, <1>5, <1>6, <1>7 DEF SessionNext

(* Every reachable state satisfies the inductive invariant.                *)
LEMMA SessionInvariance == SessionSpec => []SessionInv
<1>1. SessionInv /\ [SessionNext]_terminalVars => SessionInv'
  BY NextLabels, NextCounts, NextEnters, NextCommands, NextRow DEF SessionInv, SessionTypeOK
<1> QED
  BY InitSessionInv, <1>1, PTL DEF SessionSpec

(* The variables keep their types; in particular winSizeChan never holds   *)
(* more sizes than it has room for.                                        *)
THEOREM SessionTypeCorrect == SessionSpec => []SessionTypeOK
<1>1. SessionInv => SessionTypeOK
  BY DEF SessionInv
<1> QED
  BY <1>1, SessionInvariance, PTL

(* However output and input interleave, a session records at most one      *)
(* command for each line end that was typed.                               *)
THEOREM RecordsAtMostTyped == SessionSpec => []CommandsWithinEnters
<1>1. SessionInv => CommandsWithinEnters
  BY EntersIsNat DEF SessionInv, SessionTypeOK, Labels, Counts, EntersAccountFor, CommandsWithinEnters
<1> QED
  BY <1>1, SessionInvariance, PTL

(* A closed row belongs to a handler that has returned: none of the steps  *)
(* that are left writes its status or its replay path, and the goroutines  *)
(* that still record commands add to its size only what is stored.         *)
THEOREM ClosedRowsAreFinal == SessionSpec => ClosedRowIsFinal
<1>1. ASSUME SessionInv, [SessionNext]_terminalVars, row = "closed" PROVE UNCHANGED <<row, replay>>
  <2>1. reader = "returned"
    BY <1>1 DEF SessionInv, RowFollowsReader
  <2>2. CASE ReaderStep
    BY <2>1, <2>2 DEF ReaderStep, StartSession, StartTerminal, NoShell, InputTaken, ResizeDone,
                      ReadFails, CancelContext, EndReplay, ClosePipes, CheckDone, CloseDone,
                      CloseRow
  <2>3. CASE ExecStep \/ CopierStep
    BY <2>3 DEF ExecStep, ExecChecksDone, ExecClosesDone, CopierStep, CopierSends, CopierEnds
  <2>4. CASE OutputStep
    BY <2>4 DEF OutputStep, OutputArrives, OutputSent, OutputTracked, OutputEnds
  <2>5. CASE BrowserStep
    BY <2>5 DEF BrowserStep, Resize, BrowserLeaves, Input
  <2>6. CASE StreamStarts \/ StreamEnds \/ TakeSize \/ RemoteAnswers
    BY <2>6 DEF StreamStarts, StreamEnds, TakeSize, RemoteAnswers
  <2>7. CASE RecordStep
    BY <2>7 DEF RecordStep, CommandStored, CommandSized
  <2>8. CASE UNCHANGED terminalVars
    BY <2>8 DEF terminalVars
  <2> QED
    BY <1>1, <2>2, <2>3, <2>4, <2>5, <2>6, <2>7, <2>8 DEF SessionNext
<1>2. SessionInv /\ [SessionNext]_terminalVars => [row = "closed" => UNCHANGED <<row, replay>>]_terminalVars
  BY <1>1
<1>3. SessionInv => (row = "closed" => sized <= stored /\ stored <= enters)
  BY EntersIsNat DEF SessionInv, SessionTypeOK, Labels, Counts, EntersAccountFor, CommandsAccountFor
<1> QED
  BY <1>2, <1>3, SessionInvariance, PTL DEF SessionSpec, ClosedRowIsFinal

(* A row with a replay path belongs to a recorder that has ended and had a *)
(* header to compress, and an ended recorder is never written to again.    *)
THEOREM ReplaysAreComplete == SessionSpec => ReplayIsComplete
<1>1. SessionInv => (replay => recorder = "ended" /\ started)
  BY DEF SessionInv, RowFollowsReader
<1>2. ASSUME SessionInv, [SessionNext]_terminalVars, recorder = "ended" PROVE UNCHANGED recorderVars
  <2>1. CASE ReaderStep
    BY <1>2, <2>1 DEF ReaderStep, StartSession, StartTerminal, NoShell, InputTaken, ResizeDone,
                      ReadFails, CancelContext, EndReplay, ClosePipes, CheckDone, CloseDone,
                      CloseRow, SessionInv, RowFollowsReader, SessionTypeOK, Labels
  <2>2. CASE ExecStep \/ CopierStep
    BY <2>2 DEF ExecStep, ExecChecksDone, ExecClosesDone, CopierStep, CopierSends, CopierEnds
  <2>3. CASE OutputStep
    BY <1>2, <2>3 DEF OutputStep, OutputArrives, OutputSent, OutputTracked, OutputEnds, SessionInv, SessionTypeOK, Labels
  <2>4. CASE BrowserStep
    BY <2>4 DEF BrowserStep, Resize, BrowserLeaves, Input
  <2>5. CASE StreamStarts \/ StreamEnds \/ TakeSize \/ RemoteAnswers
    BY <2>5 DEF StreamStarts, StreamEnds, TakeSize, RemoteAnswers
  <2>6. CASE RecordStep
    BY <2>6 DEF RecordStep, CommandStored, CommandSized
  <2>7. CASE UNCHANGED terminalVars
    BY <2>7 DEF terminalVars
  <2> QED
    BY <1>2, <2>1, <2>2, <2>3, <2>4, <2>5, <2>6, <2>7 DEF SessionNext
<1>3. SessionInv /\ [SessionNext]_terminalVars => [recorder = "ended" => UNCHANGED recorderVars]_terminalVars
  BY <1>2
<1> QED
  BY <1>1, <1>3, SessionInvariance, PTL DEF SessionSpec, ReplayIsComplete

=============================================================================
