------------------------------- MODULE KubectlPod -------------------------------
(***************************************************************************)
(* The Pods behind the kubectl terminal of                                 *)
(* internal/handlers/kubectl_pod_terminal.go.  A connection makes sure     *)
(* that the Pod of its user and permission type exists, waits until it     *)
(* runs, stamps it, counts itself in activeSessions and attaches; one      *)
(* background worker lists the Pods every ten minutes and deletes those    *)
(* that nobody uses.  Both talk to an API server that other connections,   *)
(* the kubelet and the garbage collector change in the meantime.           *)
(*                                                                         *)
(* Each API call and each critical section of sessionsMutex is one action. *)
(* A Pod stands for one (cluster, Pod name) pair, which is what the key of *)
(* activeSessions is made of.  Time is one bit per Pod: whether its        *)
(* last-activity annotation is more than kubectlIdleTimeout old.           *)
(***************************************************************************)
EXTENDS Naturals, FiniteSets

CONSTANTS
  Sessions,  (* WebSocket connections to the terminal                      *)
  Pods,      (* session keys: a cluster and the name of a Pod in it        *)
  NoPod      (* the worker has nothing to delete                           *)

ASSUME FinitelyManySessions == IsFiniteSet(Sessions)
ASSUME NilIsNoPod == NoPod \notin Pods

VARIABLES
  phase,     (* status.phase of a Pod as the API server has it             *)
  doomed,    (* the Pod has a deletionTimestamp and is in its grace period *)
  old,       (* its last-activity annotation is older than the idle limit  *)
  pc,        (* where a connection is in HandleKubectlPodTerminal          *)
  at,        (* the Pod a connection is for                                *)
  active,    (* h.activeSessions (a missing key reads as 0)                *)
  todo,      (* Pods of the worker's list it has not looked at             *)
  oldInList, (* Pods whose annotation was too old in that list             *)
  victim,    (* the Pod the worker has decided to delete                   *)
  covered    (* history: connections counted when the worker last listed   *)

podVars    == <<phase, doomed, old>>
connVars   == <<pc, at, active>>
workerVars == <<todo, oldInList, victim>>
vars       == <<podVars, connVars, workerVars, covered>>

Phases == {"Absent", "Pending", "Running", "Succeeded", "Failed", "Unknown"}
Setup  == {"get", "delete", "create", "wait", "touch", "count"}
InUse  == {"attach", "attached", "severed", "leave"}
PCs    == {"idle"} \cup Setup \cup InUse

TypeOK ==
  /\ phase \in [Pods -> Phases]
  /\ doomed \in [Pods -> BOOLEAN]
  /\ old \in [Pods -> BOOLEAN]
  /\ pc \in [Sessions -> PCs]
  /\ at \in [Sessions -> Pods]
  /\ active \in [Pods -> Nat]
  /\ todo \in SUBSET Pods
  /\ oldInList \in SUBSET Pods
  /\ victim \in Pods \cup {NoPod}
  /\ covered \in SUBSET Sessions

(* The process starts with an empty map; Pods of an earlier process may    *)
(* still be there, with annotations of any age.                            *)
Init ==
  /\ phase \in [Pods -> Phases]
  /\ doomed = [p \in Pods |-> FALSE]
  /\ old \in {f \in [Pods -> BOOLEAN] : \A p \in Pods : f[p] => phase[p] # "Absent"}
  /\ pc = [s \in Sessions |-> "idle"]
  /\ at \in [Sessions -> Pods]
  /\ active = [p \in Pods |-> 0]
  /\ todo = {}
  /\ oldInList = {}
  /\ victim = NoPod
  /\ covered = {}

Goto(s, label) == pc' = [pc EXCEPT ![s] = label]
Exists(p)      == phase[p] # "Absent"

(* The connections that activeSessions should count for p.                 *)
CountedAt(p) == {s \in Sessions : pc[s] \in InUse /\ at[s] = p}

-----------------------------------------------------------------------------
(***************************************************************************)
(* The API server and the node.                                            *)
(***************************************************************************)

(* A graceful delete by name: whatever Pod has that name now is marked.    *)
MarkDeleted(p) ==
  doomed' = [doomed EXCEPT ![p] = Exists(p)]

Progress == {<<"Pending", "Running">>, <<"Pending", "Failed">>,
             <<"Running", "Failed">>, <<"Running", "Succeeded">>,
             <<"Running", "Unknown">>, <<"Unknown", "Running">>}

(* The kubelet reports.  When the container is no longer running, every    *)
(* exec stream into it ends.                                               *)
PhaseChanges(p) ==
  /\ \E new \in Phases :
       /\ <<phase[p], new>> \in Progress
       /\ phase' = [phase EXCEPT ![p] = new]
       /\ pc' = [s \in Sessions |->
                   IF at[s] = p /\ pc[s] = "attached" /\ new \in {"Failed", "Succeeded"}
                   THEN "severed" ELSE pc[s]]
  /\ UNCHANGED <<doomed, old, at, active, workerVars, covered>>

(* The grace period of a deleted Pod is over.                              *)
PodGone(p) ==
  /\ doomed[p]
  /\ phase' = [phase EXCEPT ![p] = "Absent"]
  /\ doomed' = [doomed EXCEPT ![p] = FALSE]
  /\ old' = [old EXCEPT ![p] = FALSE]
  /\ pc' = [s \in Sessions |-> IF at[s] = p /\ pc[s] = "attached" THEN "severed" ELSE pc[s]]
  /\ UNCHANGED <<at, active, workerVars, covered>>

(* An hour passes since the last activity of p.  Neither a pass of the     *)
(* worker nor the setup of a connection lasts that long.                   *)
HourPasses(p) ==
  /\ Exists(p) /\ ~doomed[p] /\ ~old[p]
  /\ todo = {} /\ victim = NoPod
  /\ \A s \in Sessions : at[s] = p => pc[s] \notin Setup \cup {"attach"}
  /\ old' = [old EXCEPT ![p] = TRUE]
  /\ UNCHANGED <<phase, doomed, connVars, workerVars, covered>>

-----------------------------------------------------------------------------
(***************************************************************************)
(* One connection: HandleKubectlPodTerminal.                               *)
(***************************************************************************)
Connect(s, p) ==
  /\ pc[s] = "idle"
  /\ at' = [at EXCEPT ![s] = p]
  /\ Goto(s, "get")
  /\ UNCHANGED <<podVars, active, workerVars, covered>>

(* The Get of ensureKubectlPod.  A Pod that is being deleted still reports *)
(* Running, and the code does not ask for its deletionTimestamp.           *)
GetPod(s) ==
  /\ pc[s] = "get"
  /\ \/ phase[at[s]] \in {"Running", "Pending"}  /\ Goto(s, "wait")
     \/ phase[at[s]] \in {"Failed", "Succeeded"} /\ Goto(s, "delete")
     \/ phase[at[s]] \in {"Absent", "Unknown"}   /\ Goto(s, "create")
  /\ UNCHANGED <<podVars, at, active, workerVars, covered>>

(* The Get fails with anything but NotFound.                               *)
GetFails(s) ==
  /\ pc[s] = "get"
  /\ Goto(s, "idle")
  /\ UNCHANGED <<podVars, at, active, workerVars, covered>>

(* The stopped Pod it saw is deleted by name, whatever the outcome, and    *)
(* two seconds later it goes on to Create.                                 *)
DeleteStopped(s) ==
  /\ pc[s] = "delete"
  /\ MarkDeleted(at[s]) \/ UNCHANGED doomed
  /\ Goto(s, "create")
  /\ UNCHANGED <<phase, old, at, active, workerVars, covered>>

CreatePod(s) ==
  /\ pc[s] = "create"
  /\ ~Exists(at[s])
  /\ phase' = [phase EXCEPT ![at[s]] = "Pending"]
  /\ old' = [old EXCEPT ![at[s]] = FALSE]
  /\ Goto(s, "wait")
  /\ UNCHANGED <<doomed, at, active, workerVars, covered>>

(* Create answers AlreadyExists or any other error.                        *)
CreateFails(s) ==
  /\ pc[s] = "create"
  /\ Goto(s, "idle")
  /\ UNCHANGED <<podVars, at, active, workerVars, covered>>

(* waitForPodRunningWithProgress reads the phase it waits for.             *)
SeesRunning(s) ==
  /\ pc[s] = "wait"
  /\ phase[at[s]] = "Running"
  /\ Goto(s, "touch")
  /\ UNCHANGED <<podVars, at, active, workerVars, covered>>

(* Fault: the loop has no deadline and ends only on a Pod that cannot run. *)
WaitFailsOnPodOnly(s) ==
  /\ pc[s] = "wait"
  /\ phase[at[s]] \in {"Absent", "Failed"}
  /\ Goto(s, "idle")
  /\ UNCHANGED <<podVars, at, active, workerVars, covered>>

(* Fault: the deferred decrement runs for every connection that ends.      *)
WaitFailsDecrements(s) ==
  /\ pc[s] = "wait"
  /\ Goto(s, "idle")
  /\ active' = [active EXCEPT ![at[s]] = @ - 1]
  /\ UNCHANGED <<podVars, at, workerVars, covered>>

(* It gives up: the Pod failed or is gone, the Get failed, or 120 seconds  *)
(* are over.  This connection was not counted, so nothing is decremented.  *)
WaitFails(s) ==
  /\ pc[s] = "wait"
  /\ Goto(s, "idle")
  /\ UNCHANGED <<podVars, at, active, workerVars, covered>>

(* updateLastActivity; a failed Patch is only logged.                      *)
Touch(s) ==
  /\ pc[s] = "touch"
  /\ old' = [old EXCEPT ![at[s]] = FALSE] \/ UNCHANGED old
  /\ Goto(s, "count")
  /\ UNCHANGED <<phase, doomed, at, active, workerVars, covered>>

Count(s) ==
  /\ pc[s] = "count"
  /\ active' = [active EXCEPT ![at[s]] = @ + 1]
  /\ Goto(s, "attach")
  /\ UNCHANGED <<podVars, at, workerVars, covered>>

(* The exec into the Pod starts, or fails and leaves the WebSocket open.   *)
Attach(s) ==
  /\ pc[s] = "attach"
  /\ \/ phase[at[s]] = "Running" /\ Goto(s, "attached")
     \/ Goto(s, "severed")
  /\ UNCHANGED <<podVars, at, active, workerVars, covered>>

(* The read loop ends when the browser goes away, not when the exec ends.  *)
Disconnect(s) ==
  /\ pc[s] \in {"attached", "severed"}
  /\ Goto(s, "leave")
  /\ UNCHANGED <<podVars, at, active, workerVars, covered>>

(* Fault: a connection whose Pod is gone leaves its count behind.          *)
LeaveIfPodIsThere(s) ==
  /\ pc[s] = "leave"
  /\ active' = [active EXCEPT ![at[s]] =
                  IF phase[at[s]] # "Running" THEN @ ELSE IF @ > 0 THEN @ - 1 ELSE 0]
  /\ Goto(s, "idle")
  /\ covered' = covered \ {s}
  /\ UNCHANGED <<podVars, at, workerVars>>

(* The deferred decrement; a count that would not be positive is removed.  *)
Leave(s) ==
  /\ pc[s] = "leave"
  /\ active' = [active EXCEPT ![at[s]] = IF @ > 0 THEN @ - 1 ELSE 0]
  /\ Goto(s, "idle")
  /\ covered' = covered \ {s}
  /\ UNCHANGED <<podVars, at, workerVars>>

-----------------------------------------------------------------------------
(***************************************************************************)
(* The cleanup worker.  A pass whose List fails changes nothing.           *)
(***************************************************************************)
Resting == todo = {} /\ victim = NoPod

ListPods ==
  /\ Resting
  /\ todo' = {p \in Pods : Exists(p)}
  /\ todo' # {}
  /\ oldInList' = {p \in todo' : old[p]}
  /\ covered' = {s \in Sessions : pc[s] \in InUse}
  /\ UNCHANGED <<podVars, connVars, victim>>

(* Fault: the worker trusts the annotation alone.                          *)
InspectAgeOnly(p) ==
  /\ p \in todo /\ victim = NoPod
  /\ todo' = todo \ {p}
  /\ victim' = IF p \in oldInList THEN p ELSE NoPod
  /\ UNCHANGED <<podVars, connVars, oldInList, covered>>

(* The next Pod of the list: its count is read now, its annotation is the  *)
(* one of the list.                                                        *)
Inspect(p) ==
  /\ p \in todo /\ victim = NoPod
  /\ todo' = todo \ {p}
  /\ victim' = IF active[p] = 0 /\ p \in oldInList THEN p ELSE NoPod
  /\ UNCHANGED <<podVars, connVars, oldInList, covered>>

DeleteIdle(p) ==
  /\ victim = p
  /\ MarkDeleted(p)
  /\ victim' = NoPod
  /\ UNCHANGED <<phase, old, connVars, todo, oldInList, covered>>

DeleteIdleFails(p) ==
  /\ victim = p
  /\ victim' = NoPod
  /\ UNCHANGED <<podVars, connVars, todo, oldInList, covered>>

-----------------------------------------------------------------------------
ServerStep(s) ==
  \/ GetPod(s) \/ GetFails(s) \/ DeleteStopped(s)
  \/ CreatePod(s) \/ CreateFails(s)
  \/ SeesRunning(s) \/ WaitFails(s)
  \/ Touch(s) \/ Count(s) \/ Attach(s) \/ Leave(s)

ClientStep(s) == Disconnect(s) \/ \E p \in Pods : Connect(s, p)

WorkerStep == ListPods \/ \E p \in Pods : Inspect(p) \/ DeleteIdle(p) \/ DeleteIdleFails(p)

ClusterStep(p) == PhaseChanges(p) \/ PodGone(p) \/ HourPasses(p)

Next ==
  \/ \E s \in Sessions : ServerStep(s) \/ ClientStep(s)
  \/ WorkerStep
  \/ \E p \in Pods : ClusterStep(p)

Spec == Init /\ [][Next]_vars

(* The handler goroutines and the worker run; grace periods and hours pass *)
(* (an hour cannot pass inside a pass of the worker, hence the strong      *)
(* form); a Delete that is tried on every pass succeeds on some pass.      *)
(* Nothing makes a Pod run, or a user connect or leave.                    *)
Fairness ==
  /\ \A s \in Sessions : WF_vars(ServerStep(s)) /\ WF_vars(WaitFails(s))
  /\ WF_vars(WorkerStep)
  /\ \A p \in Pods : /\ WF_vars(PodGone(p))
                     /\ SF_vars(HourPasses(p))
                     /\ SF_vars(DeleteIdle(p))

FairSpec == Spec /\ Fairness

-----------------------------------------------------------------------------
(***************************************************************************)
(* Properties.                                                             *)
(***************************************************************************)

(* activeSessions counts, for every Pod, exactly the connections that      *)
(* passed the increment and have not run the deferred decrement: no error  *)
(* path of the handler takes a count it did not add or keeps one it added. *)
CountIsExact == \A p \in Pods : active[p] = Cardinality(CountedAt(p))

(* A connection that was counted when the worker listed the Pods keeps its *)
(* Pod for the whole pass: the worker never decides to delete it, however  *)
(* other connections to the same Pod come, fail and go meanwhile.          *)
EstablishedIsSpared ==
  \A p \in Pods : victim = p => \A s \in covered : at[s] # p

(* A Pod that nobody is connected to is deleted in the end, unless someone *)
(* connects to it: no path of the handler leaves a Pod behind for good.    *)
IdlePodIsCollected ==
  \A p \in Pods : Exists(p) ~> (~Exists(p) \/ \E s \in Sessions : at[s] = p /\ pc[s] # "idle")

(* Whatever the API server does, a connection gets its terminal or an      *)
(* error: it does not stay in setup.                                       *)
SetupEnds == \A s \in Sessions : (pc[s] \in Setup) ~> (pc[s] \notin Setup)

-----------------------------------------------------------------------------
(* What is inductive about the two counting invariants.                    *)
CoveredIsCounted == \A s \in covered : pc[s] \in InUse

IInv == TypeOK /\ CountIsExact /\ CoveredIsCounted /\ EstablishedIsSpared

=============================================================================
