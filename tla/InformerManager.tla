---------------------------- MODULE InformerManager ----------------------------
(***************************************************************************)
(* The per-cluster informer runtimes of internal/k8s/manager.go together   *)
(* with everything that creates, uses and destroys them: the HTTP handlers *)
(* that read a cluster row and then ask for its runtime, DeleteCluster of  *)
(* internal/handlers/cluster.go, the warm-up goroutine of the router, and  *)
(* the shutdown sequence of main.go.                                       *)
(*                                                                         *)
(* Every body that runs under ClusterInformerManager.mu is one action, as  *)
(* no other goroutine sees inside it.  What a handler does between two     *)
(* critical sections is left to interleave.  A request is one goroutine    *)
(* that serves one call; a runtime is the identity of one ClusterRuntime   *)
(* value and is never used twice.                                          *)
(***************************************************************************)
EXTENDS Naturals, FiniteSets

CONSTANTS
  Clusters,   (* primary keys of the clusters table; auto-increment, so a  *)
              (* deleted key never comes back                              *)
  Requests,   (* goroutines that serve one HTTP call each                  *)
  Runtimes,   (* identities of ClusterRuntime values (bounds how many the  *)
              (* process may create)                                       *)
  NoRuntime,  (* the nil pointer                                           *)
  NoCluster   (* the owner of a runtime that has not been made             *)

ASSUME NilIsNoRuntime == NoRuntime \notin Runtimes
ASSUME NilIsNoCluster == NoCluster \notin Clusters

VARIABLES
  row,        (* the clusters table: row[c]                                *)
  registry,   (* m.clusters: cluster -> runtime                            *)
  status,     (* stopCh of a runtime: "unused" (not made), "running"       *)
              (* (open), "stopped" (closed)                                *)
  owner,      (* the cluster a runtime was made for                        *)
  filled,     (* every informer of the runtime answers HasSynced           *)
  synced,     (* rt.synced                                                 *)
  pc,         (* where a request is                                        *)
  op,         (* the call it serves (fixed when the client sends it)       *)
  target,     (* the cluster that call names                               *)
  held,       (* the runtime its local variable rt points to               *)
  helper,     (* the goroutine waitForSync started for it                  *)
  listed,     (* the warm-up goroutine has read the clusters table         *)
  warmup,     (* clusters it has listed and not yet ensured                *)
  phase       (* the process: main.go                                      *)

dbVars   == <<row>>
mgrVars  == <<registry, status, owner, filled, synced>>
reqVars  == <<pc, op, target, held, helper>>
procVars == <<listed, warmup, phase>>
vars     == <<dbVars, mgrVars, reqVars, procVars>>

RowStates    == {"never", "present", "deleted"}
StopChStates == {"unused", "running", "stopped"}
HelperStates == {"none", "waiting", "closed"}
Phases       == {"serving", "draining", "stopped", "exited"}

(* "overview" is GetClusterOverview, "list" every handler that calls       *)
(* EnsureAndWait and then a lister by cluster id, "client" every handler   *)
(* that calls GetK8sClient.                                                *)
ReadOps == {"overview", "list", "client"}
Ops     == ReadOps \cup {"delete"}

(* How a finished request answered.                                        *)
Answers == {"ok", "notFound", "error", "panic"}
PCs     == {"idle", "loaded", "lookup", "sync", "waiting", "ready",
            "stopping", "closing", "deleting"} \cup Answers

TypeOK ==
  /\ row \in [Clusters -> RowStates]
  /\ registry \in [Clusters -> Runtimes \cup {NoRuntime}]
  /\ status \in [Runtimes -> StopChStates]
  /\ owner \in [Runtimes -> Clusters \cup {NoCluster}]
  /\ filled \in [Runtimes -> BOOLEAN]
  /\ synced \in [Runtimes -> BOOLEAN]
  /\ pc \in [Requests -> PCs]
  /\ op \in [Requests -> Ops]
  /\ target \in [Requests -> Clusters]
  /\ held \in [Requests -> Runtimes \cup {NoRuntime}]
  /\ helper \in [Requests -> HelperStates]
  /\ listed \in BOOLEAN
  /\ warmup \in SUBSET Clusters
  /\ phase \in Phases

Init ==
  /\ row \in [Clusters -> {"never", "present"}]
  /\ registry = [c \in Clusters |-> NoRuntime]
  /\ status = [r \in Runtimes |-> "unused"]
  /\ owner = [r \in Runtimes |-> NoCluster]
  /\ filled = [r \in Runtimes |-> FALSE]
  /\ synced = [r \in Runtimes |-> FALSE]
  /\ pc = [q \in Requests |-> "idle"]
  /\ op \in [Requests -> Ops]
  /\ target \in [Requests -> Clusters]
  /\ held = [q \in Requests |-> NoRuntime]
  /\ helper = [q \in Requests |-> "none"]
  /\ listed = FALSE
  /\ warmup = {}
  /\ phase = "serving"

Finished(q) == pc[q] \in Answers
InFlight(q) == pc[q] # "idle" /\ ~Finished(q)
Alive       == phase # "exited"

Goto(q, label) == pc' = [pc EXCEPT ![q] = label]

-----------------------------------------------------------------------------
(***************************************************************************)
(* The critical sections of the manager.                                   *)
(***************************************************************************)

(* The identity of the next runtime (which one does not matter).           *)
IsNext(r) == status[r] = "unused" /\ r = CHOOSE s \in Runtimes : status[s] = "unused"

(* Fault: a runtime replaces the one that is registered.                   *)
RegisterOverwrites(c, r) ==
  /\ IsNext(r)
  /\ registry' = [registry EXCEPT ![c] = r]
  /\ status' = [status EXCEPT ![r] = "running"]
  /\ owner' = [owner EXCEPT ![r] = c]
  /\ UNCHANGED <<filled, synced>>

(* EnsureForCluster finds no runtime and registers a new, started one.     *)
Register(c, r) ==
  /\ registry[c] = NoRuntime
  /\ IsNext(r)
  /\ registry' = [registry EXCEPT ![c] = r]
  /\ status' = [status EXCEPT ![r] = "running"]
  /\ owner' = [owner EXCEPT ![r] = c]
  /\ UNCHANGED <<filled, synced>>

(* A request that holds a cluster row calls EnsureForCluster.  The row may *)
(* have been deleted since; the code does not look again.                  *)
Ensure(q) ==
  /\ Alive
  /\ pc[q] = "loaded"
  /\ \/ /\ registry[target[q]] # NoRuntime
        /\ held' = [held EXCEPT ![q] = registry[target[q]]]
        /\ UNCHANGED mgrVars
     \/ \E r \in Runtimes :
          /\ Register(target[q], r)
          /\ held' = [held EXCEPT ![q] = r]
  /\ Goto(q, CASE op[q] = "client" -> "ok"
               [] op[q] = "list" -> "sync"
               [] OTHER -> "lookup")
  /\ UNCHANGED <<dbVars, op, target, helper, procVars>>

(* NewK8sClientForCluster rejects the stored credentials.                  *)
EnsureFails(q) ==
  /\ Alive
  /\ pc[q] = "loaded"
  /\ registry[target[q]] = NoRuntime
  /\ Goto(q, "error")
  /\ UNCHANGED <<dbVars, mgrVars, op, target, held, helper, procVars>>

(* GetOverviewSnapshot looks the runtime up again, under the read lock.    *)
LookupSnapshot(q) ==
  /\ Alive
  /\ pc[q] = "lookup"
  /\ held' = [held EXCEPT ![q] = registry[target[q]]]
  /\ Goto(q, IF registry[target[q]] = NoRuntime THEN "error" ELSE "sync")
  /\ UNCHANGED <<dbVars, mgrVars, op, target, helper, procVars>>

(* waitForSync, up to its select.  rt.synced is read without a lock while  *)
(* other goroutines may be writing it, so a request that finds it set may  *)
(* still read the old value and start a goroutine of its own.              *)
WaitForSync(q) ==
  /\ Alive
  /\ pc[q] = "sync"
  /\ \/ /\ synced[held[q]]
        /\ Goto(q, "ready")
        /\ UNCHANGED helper
     \/ /\ Goto(q, "waiting")
        /\ helper' = [helper EXCEPT ![q] = "waiting"]
  /\ UNCHANGED <<dbVars, mgrVars, op, target, held, procVars>>

(* The goroutine: WaitForCacheSync returns true once every informer has    *)
(* synced, false once stopCh is closed.  It ends whether or not the request*)
(* that started it still waits.                                            *)
SyncGoroutineEnds(q) ==
  /\ Alive
  /\ helper[q] = "waiting"
  /\ \/ /\ filled[held[q]]
        /\ synced' = [synced EXCEPT ![held[q]] = TRUE]
     \/ /\ status[held[q]] = "stopped"
        /\ UNCHANGED synced
  /\ helper' = [helper EXCEPT ![q] = "closed"]
  /\ UNCHANGED <<dbVars, registry, status, owner, filled, pc, op, target,
                 held, procVars>>

(* syncCh is closed first: the request goes on with what rt.synced says.   *)
SyncSignalled(q) ==
  /\ Alive
  /\ pc[q] = "waiting"
  /\ helper[q] = "closed"
  /\ Goto(q, IF synced[held[q]] THEN "ready" ELSE "error")
  /\ UNCHANGED <<dbVars, mgrVars, op, target, held, helper, procVars>>

(* Faults: a time-out is taken for a sync; there is no time-out.           *)
SyncTimeOutServes(q) ==
  /\ Alive
  /\ pc[q] = "waiting"
  /\ Goto(q, "ready")
  /\ UNCHANGED <<dbVars, mgrVars, op, target, held, helper, procVars>>
SyncNeverTimesOut(q) == FALSE

(* The context (2 s for the overview, 5 s for the lists) ends first.       *)
SyncTimesOut(q) ==
  /\ Alive
  /\ pc[q] = "waiting"
  /\ Goto(q, "error")
  /\ UNCHANGED <<dbVars, mgrVars, op, target, held, helper, procVars>>

-----------------------------------------------------------------------------
(***************************************************************************)
(* What the requests do around them.                                       *)
(***************************************************************************)

(* ClusterService.GetCluster, the first thing every reading handler does.  *)
GetCluster(q) ==
  /\ phase = "serving"
  /\ pc[q] = "idle"
  /\ op[q] \in ReadOps
  /\ Goto(q, IF row[target[q]] = "present" THEN "loaded" ELSE "notFound")
  /\ UNCHANGED <<dbVars, mgrVars, op, target, held, helper, procVars>>

(* The overview reads the listers of the runtime it waited for.            *)
ServeOverview(q) ==
  /\ Alive
  /\ pc[q] = "ready"
  /\ op[q] = "overview"
  /\ Goto(q, "ok")
  /\ UNCHANGED <<dbVars, mgrVars, op, target, held, helper, procVars>>

(* A list handler drops the runtime EnsureAndWait returned and asks for a  *)
(* lister by cluster id; a nil lister is dereferenced, and gin's Recovery  *)
(* answers 500.                                                            *)
ServeList(q) ==
  /\ Alive
  /\ pc[q] = "ready"
  /\ op[q] = "list"
  /\ held' = [held EXCEPT ![q] = registry[target[q]]]
  /\ Goto(q, IF registry[target[q]] = NoRuntime THEN "panic" ELSE "ok")
  /\ UNCHANGED <<dbVars, mgrVars, op, target, helper, procVars>>

(* ClusterHandler.ImportCluster inserts a row; it creates no runtime.      *)
ImportCluster(c) ==
  /\ phase = "serving"
  /\ row[c] = "never"
  /\ row' = [row EXCEPT ![c] = "present"]
  /\ UNCHANGED <<mgrVars, reqVars, procVars>>

(* ClusterHandler.DeleteCluster starts with StopForCluster; the row is not *)
(* read before.                                                            *)
DeleteArrives(q) ==
  /\ phase = "serving"
  /\ pc[q] = "idle"
  /\ op[q] = "delete"
  /\ Goto(q, "stopping")
  /\ UNCHANGED <<dbVars, mgrVars, op, target, held, helper, procVars>>

(* StopForCluster, the part under the lock.                                *)
StopRemove(q) ==
  /\ Alive
  /\ pc[q] = "stopping"
  /\ held' = [held EXCEPT ![q] = registry[target[q]]]
  /\ registry' = [registry EXCEPT ![target[q]] = NoRuntime]
  /\ Goto(q, IF registry[target[q]] = NoRuntime THEN "deleting" ELSE "closing")
  /\ UNCHANGED <<dbVars, status, owner, filled, synced, op, target, helper,
                 procVars>>

(* Fault: stopCh is not closed.                                            *)
StopForgets(q) ==
  /\ Alive
  /\ pc[q] = "closing"
  /\ Goto(q, "deleting")
  /\ UNCHANGED <<dbVars, mgrVars, op, target, held, helper, procVars>>

(* StopForCluster, after the unlock: close(rt.stopCh).                     *)
StopClose(q) ==
  /\ Alive
  /\ pc[q] = "closing"
  /\ status' = [status EXCEPT ![held[q]] = "stopped"]
  /\ Goto(q, "deleting")
  /\ UNCHANGED <<dbVars, registry, owner, filled, synced, op, target, held,
                 helper, procVars>>

(* ClusterService.DeleteCluster: one transaction, which may fail.          *)
DeleteRow(q) ==
  /\ Alive
  /\ pc[q] = "deleting"
  /\ \/ /\ row[target[q]] = "present"
        /\ row' = [row EXCEPT ![target[q]] = "deleted"]
        /\ Goto(q, "ok")
     \/ /\ row[target[q]] # "present"
        /\ Goto(q, "notFound")
        /\ UNCHANGED row
     \/ /\ Goto(q, "error")
        /\ UNCHANGED row
  /\ UNCHANGED <<mgrVars, op, target, held, helper, procVars>>

-----------------------------------------------------------------------------
(***************************************************************************)
(* The informers, the warm-up goroutine and the end of the process.        *)
(***************************************************************************)

(* The reflectors of a running runtime have listed everything once.        *)
CacheFills(r) ==
  /\ Alive
  /\ status[r] = "running"
  /\ ~filled[r]
  /\ filled' = [filled EXCEPT ![r] = TRUE]
  /\ UNCHANGED <<dbVars, registry, status, owner, synced, reqVars, procVars>>

(* The warm-up goroutine reads all clusters (or fails and gives up) ...    *)
WarmUpLists ==
  /\ Alive
  /\ ~listed
  /\ listed' = TRUE
  /\ warmup' \in {{c \in Clusters : row[c] = "present"}, {}}
  /\ UNCHANGED <<dbVars, mgrVars, reqVars, phase>>

(* ... and ensures each of them, skipping those it cannot connect to.      *)
WarmUpEnsures(c) ==
  /\ Alive
  /\ c \in warmup
  /\ warmup' = warmup \ {c}
  /\ \/ \E r \in Runtimes : Register(c, r)
     \/ UNCHANGED mgrVars
  /\ UNCHANGED <<dbVars, reqVars, listed, phase>>

(* srv.Shutdown stops accepting and waits for the requests in flight.      *)
ShutdownBegins ==
  /\ phase = "serving"
  /\ phase' = "draining"
  /\ UNCHANGED <<dbVars, mgrVars, reqVars, listed, warmup>>

(* The 5 s of srv.Shutdown are over: logger.Fatal, and no Stop.            *)
ShutdownTimesOut ==
  /\ phase = "draining"
  /\ \E q \in Requests : InFlight(q)
  /\ phase' = "exited"
  /\ UNCHANGED <<dbVars, mgrVars, reqVars, listed, warmup>>

(* ClusterInformerManager.Stop, once no request is in flight.              *)
StopAll ==
  /\ phase = "draining"
  /\ \A q \in Requests : ~InFlight(q)
  /\ phase' = "stopped"
  /\ status' = [r \in Runtimes |->
                  IF \E c \in Clusters : registry[c] = r THEN "stopped"
                  ELSE status[r]]
  /\ registry' = [c \in Clusters |-> NoRuntime]
  /\ UNCHANGED <<dbVars, owner, filled, synced, reqVars, listed, warmup>>

(* main returns.                                                           *)
Exit ==
  /\ phase = "stopped"
  /\ phase' = "exited"
  /\ UNCHANGED <<dbVars, mgrVars, reqVars, listed, warmup>>

(* The process is gone.                                                    *)
Gone == phase = "exited" /\ UNCHANGED vars

RequestStep(q) ==
  \/ Ensure(q) \/ EnsureFails(q) \/ LookupSnapshot(q) \/ WaitForSync(q)
  \/ SyncSignalled(q) \/ SyncTimesOut(q) \/ ServeOverview(q) \/ ServeList(q)
  \/ StopRemove(q) \/ StopClose(q) \/ DeleteRow(q)

Next ==
  \/ \E q \in Requests : \/ GetCluster(q)
                         \/ DeleteArrives(q)
                         \/ RequestStep(q)
                         \/ SyncGoroutineEnds(q)
  \/ \E c \in Clusters : ImportCluster(c) \/ WarmUpEnsures(c)
  \/ \E r \in Runtimes : CacheFills(r)
  \/ WarmUpLists
  \/ ShutdownBegins \/ ShutdownTimesOut \/ StopAll \/ Exit \/ Gone

(* The Go scheduler runs every runnable goroutine; a request that has begun*)
(* goes on (its waits are all bounded by a context), a goroutine whose wait*)
(* is over ends.  Nothing makes a client call, an API server answer, or an *)
(* operator stop the process.                                              *)
Fairness ==
  /\ \A q \in Requests : /\ WF_vars(RequestStep(q))
                         /\ WF_vars(SyncGoroutineEnds(q))
  /\ WF_vars(StopAll)
  /\ WF_vars(Exit)

Spec     == Init /\ [][Next]_vars
FairSpec == Spec /\ Fairness

-----------------------------------------------------------------------------
(***************************************************************************)
(* Properties.                                                             *)
(***************************************************************************)

Current(r) == \E c \in Clusters : registry[c] = r
Closing(q, r) == pc[q] = "closing" /\ held[q] = r

(* No watch is lost: an open runtime that callers no longer find is in the *)
(* hands of a StopForCluster that is about to close it (manager.go:418-434 *)
(* removes under the lock and closes after it).                            *)
NoOrphanRuntime ==
  \A r \in Runtimes : status[r] = "running" =>
    Current(r) \/ \E q \in Requests : Closing(q, r)

(* close(rt.stopCh) runs at most once even without stopOnce: two           *)
(* StopForCluster calls never hold the same runtime, and what one of them  *)
(* holds is neither closed nor still registered.                           *)
OneCloser ==
  \A q \in Requests, r \in Runtimes : Closing(q, r) =>
    /\ status[r] = "running"
    /\ ~Current(r)
    /\ \A p \in Requests \ {q} : ~Closing(p, r)

(* Callers only find runtimes that are open and made for the cluster they  *)
(* ask about: a registered stopCh is never closed (GetK8sClient hands such *)
(* a client out without another check).                                    *)
RegisteredIsRunning ==
  \A c \in Clusters : registry[c] # NoRuntime =>
    /\ status[registry[c]] = "running"
    /\ owner[registry[c]] = c

(* An overview counts a cache that had synced, whatever was stopped,       *)
(* re-created or timed out meanwhile (manager.go:179-181).                 *)
SnapshotIsComplete ==
  \A q \in Requests : (op[q] = "overview" /\ pc[q] = "ok") => filled[held[q]]

(* What the proofs add to make these inductive: a request that waits or    *)
(* reads holds a runtime, rt.synced is only set on a full cache, a request *)
(* past its wait holds a full cache, and only DeleteCluster stops one.     *)
WaitersHoldRuntimes ==
  \A q \in Requests : pc[q] \in {"sync", "waiting", "ready"} => held[q] \in Runtimes
SyncedIsFilled == \A r \in Runtimes : synced[r] => filled[r]
ReadyIsFilled  == \A q \in Requests : pc[q] = "ready" => filled[held[q]]
StoppersDelete ==
  \A q \in Requests : pc[q] \in {"stopping", "closing", "deleting"} => op[q] = "delete"

IInv ==
  /\ TypeOK
  /\ NoOrphanRuntime
  /\ OneCloser
  /\ RegisteredIsRunning
  /\ WaitersHoldRuntimes
  /\ SyncedIsFilled
  /\ ReadyIsFilled
  /\ StoppersDelete
  /\ SnapshotIsComplete

(* ClusterInformerManager.Stop leaves no watch open: main.go calls it only *)
(* after every request, and so every StopForCluster, has ended.            *)
StopClosesAll ==
  [][phase' = "stopped" => \A r \in Runtimes : status'[r] # "running"]_phase

(* cluster.go:258 says the informers are stopped first so that no watch    *)
(* goes on after the deletion.  The code does not keep this.               *)
WatchEndsWithDeletion ==
  \A q \in Requests : (op[q] = "delete" /\ pc[q] = "ok") =>
    \A r \in Runtimes : ~(status[r] = "running" /\ owner[r] = target[q])

(* Every call that was accepted answers, or the process ends: no wait of a *)
(* handler is without a bound (the two contexts of waitForSync).  And the  *)
(* goroutine that waitForSync starts does not outlive its runtime, even    *)
(* when the request that started it has given up.                          *)
EveryCallEnds ==
  \A q \in Requests :
    /\ InFlight(q) ~> (Finished(q) \/ ~Alive)
    /\ (helper[q] = "waiting" /\ status[held[q]] = "stopped")
         ~> (helper[q] = "closed" \/ ~Alive)

(* The manager is a set of watches.                                        *)
Watch == INSTANCE WatchSet WITH
  Watches <- Runtimes, NoWatch <- NoRuntime, current <- registry,
  open <- {r \in Runtimes : status[r] = "running"},
  spent <- {r \in Runtimes : status[r] = "stopped"},
  halted <- (phase = "exited")

(* Implementation of WatchSet, its fairness included.                      *)
ImplementsWatchSet == Watch!FairSpec
===============================================================================
