-------------------------- MODULE ListPage_proofs --------------------------
(***************************************************************************)
(* Proofs about the list pages, for every set of clusters, rows and        *)
(* searches, any page size, any number of requests and operations under    *)
(* way, and every page of Pages: an operation reaches only what the user   *)
(* picked, a report of success is true, a clean change of cluster shows    *)
(* the new cluster, and a search that hits something shows something.      *)
(*                                                                         *)
(* TypeOK is inductive.  The next three rest on it and on an invariant     *)
(* that extends the property to the question the user has yet to answer    *)
(* and to what is under way: PickInv, ReportInv, CleanInv.  The last is    *)
(* about the order of the rows: some matching row stands first.            *)
(***************************************************************************)
EXTENDS ListPage, FiniteSetTheorems, TLAPS

-----------------------------------------------------------------------------
(* Types.                                                                  *)

(* What every page record of Pages has in common.                          *)
Fine(p) ==
  p.batch \in Operations \cup {"none"} /\ p.row \subseteq Operations /\ p.asks \in BOOLEAN

(* Every page names known operations. *)
LEMMA PagesAreFine == \A p \in Pages : Fine(p)
<1>1. Fine(DefaultPage)
  BY DEF Fine, DefaultPage, Operations
<1>2. Fine(DeploymentPage)
  BY <1>1 DEF Fine, DeploymentPage, DefaultPage, Operations
<1>3. Fine(StatefulSetPage)
  BY <1>1 DEF Fine, StatefulSetPage, DefaultPage, Operations
<1>5. Fine(DaemonSetPage) /\ Fine(JobPage) /\ Fine(CronJobPage)
  BY <1>3 DEF Fine, DaemonSetPage, JobPage, CronJobPage, StatefulSetPage, DefaultPage
<1>6. Fine(ConfigMapPage) /\ Fine(SecretPage)
  BY <1>1 DEF Fine, ConfigMapPage, SecretPage, DefaultPage
<1>7. Fine(NamespacePage)
  BY <1>1 DEF Fine, NamespacePage, DefaultPage
<1>8. Fine(PodPage)
  BY <1>1 DEF Fine, PodPage, DefaultPage
<1>9. Fine(NodePage)
  BY <1>1 DEF Fine, NodePage, DefaultPage, Operations
<1> QED
  BY <1>1, <1>2, <1>3, <1>5, <1>6, <1>7, <1>8, <1>9
     DEF Pages, RolloutPage, ServicePage, IngressPage, PVCPage, PVPage, StorageClassPage

(* The last page that the pager offers is a page.                          *)
LEMMA LastPageIsAPage ==
  ASSUME NEW total \in Nat, total # 0
  PROVE  (total + PageSize - 1) \div PageSize \in Nat \ {0}
<1> DEFINE a == total + PageSize - 1
<1>1. a \in Nat /\ a >= PageSize
  BY PagesHaveRows
<1>2. a \div PageSize \in Int
  BY <1>1, PagesHaveRows
<1>3. a \div PageSize >= 1
  BY <1>1, PagesHaveRows, SMTT(60)
<1> QED
  BY <1>2, <1>3

(* The table of a list is a display.                                       *)
LEMMA TablesAreDisplays ==
  ASSUME shown \in Display, NEW all \in Listing, NEW conditions, NEW down, NEW p
  PROVE  Table(all, conditions, down, p) \in Display
<1> DEFINE matching == Matching(all.names, conditions)
<1>1. matching \subseteq Names
  BY DEF Matching, Listing
<1>2. IsFiniteSet(matching) /\ Cardinality(matching) <= Cardinality(Names)
  BY <1>1, NamesAreNumbers, FS_Subset
<1>3. Cardinality(matching) \in 0 .. Cardinality(Names)
  BY <1>2, NamesAreNumbers, FS_CardinalityType
<1>4. OnPage(matching, down, p) \subseteq Names
  BY <1>1 DEF OnPage
<1>5. [names |-> OnPage(matching, down, p), from |-> all.from, total |-> Cardinality(matching)]
        \in Display
  BY <1>3, <1>4 DEF Display, Listing
<1> QED
  BY <1>5 DEF Table

(* What the user picks becomes an operation.                               *)
LEMMA RowTasksAreTasks ==
  ASSUME TypeOK, NEW what \in Operations, NEW n \in Names, NEW at \in Clusters
  PROVE  /\ RowTask(what, n, at) \in Task
         /\ [RowTask(what, n, at) EXCEPT !.asked = TRUE] \in Task
<1>1. [Unticked EXCEPT ![n] = at] \in [Names -> Where]
  BY DEF Unticked, Where
<1> QED
  BY <1>1 DEF TypeOK, RowTask, Task

(* What handleBatch... works out is an operation, on a page that has one. *)
LEMMA BatchTasksAreTasks ==
  ASSUME TypeOK, page.batch # "none"
  PROVE  BatchTask \in Task
<1>1. page.batch \in Operations /\ page.asks \in BOOLEAN
  BY PagesAreFine DEF TypeOK, Fine
<1>2. Ticks(ticked) \subseteq Names
  BY DEF Ticks
<1> QED
  BY <1>1, <1>2 DEF TypeOK, BatchTask, Task

(* A page that has just been mounted is well typed. *)
LEMMA TypeInit == Init => TypeOK
<1> SUFFICES ASSUME Init PROVE TypeOK
  OBVIOUS
<1>1. Cardinality(Names) \in Nat
  BY NamesAreNumbers, FS_CardinalityType
<1>2. shown \in Display /\ rows \in Listing
  BY <1>1 DEF Init, Display, Listing, Where
<1>3. ticked \in [Names -> Where]
  BY DEF Init, Unticked, Where
<1>4. PICK r \in Requests :
        requests = [q \in Requests |->
                     IF q = r THEN [cluster |-> cluster, served |-> FALSE, names |-> {}] ELSE Nowhere]
  BY DEF Init
<1>5. requests \in [Requests -> Request \cup {Nowhere}]
  BY <1>4 DEF Init, Request
<1>6. said \in [ok: BOOLEAN, left: SUBSET Names, unseen: SUBSET Names]
  BY DEF Init, Silent
<1>7. tasks \in [Tasks -> Task \cup {Nowhere}]
  BY DEF Init
<1>8. search \subseteq Terms /\ pageNo \in Nat \ {0} /\ clicks \in 0 .. MaxClicks
  BY BoundedClicks DEF Init
<1>9. /\ page \in Pages /\ objects \in [Clusters -> SUBSET Names] /\ cluster \in Clusters
      /\ scaling = Nowhere /\ question = Nowhere
      /\ descending = FALSE /\ loading = TRUE /\ clean = TRUE
  BY DEF Init
<1> QED
  BY <1>2, <1>3, <1>5, <1>6, <1>7, <1>8, <1>9 DEF TypeOK

(* One step of an operation: it stays an operation, and only the keys it    *)
(* has dealt with change.                                                   *)
Stepped(old, new) ==
  /\ new \in Task
  /\ new.batch = old.batch /\ new.asked = old.asked /\ new.what = old.what
  /\ new.cluster = old.cluster /\ new.picked = old.picked
  /\ new.counted = old.counted /\ new.unseen = old.unseen
  /\ Named(new) \subseteq Named(old)

(* A request that succeeds moves its key from "to do" to "done". *)
LEMMA SucceedSteps ==
  ASSUME TypeOK, NEW t \in Tasks, NEW n \in Names, Succeed(t, n)
  PROVE  \E new : /\ tasks' = [tasks EXCEPT ![t] = new]
                  /\ Stepped(tasks[t], new)
                  /\ new.todo \cup new.done = tasks[t].todo \cup tasks[t].done
                  /\ new.lost = tasks[t].lost
<1> DEFINE new == [tasks[t] EXCEPT !.todo = @ \ {n}, !.done = @ \cup {n}]
<1>1. tasks[t] \in Task /\ n \in tasks[t].todo
  BY DEF Succeed, TypeOK
<1>2. tasks' = [tasks EXCEPT ![t] = new]
  BY DEF Succeed
<1>3. new \in Task
  BY <1>1 DEF Task
<1>4. Stepped(tasks[t], new)
  BY <1>1, <1>3 DEF Task, Stepped, Named
<1>5. new.todo \cup new.done = tasks[t].todo \cup tasks[t].done /\ new.lost = tasks[t].lost
  BY <1>1 DEF Task
<1> QED
  BY <1>2, <1>4, <1>5

(* A request that fails leaves its key among the lost. *)
LEMMA FailSteps ==
  ASSUME TypeOK, NEW t \in Tasks, NEW n \in Names, Fail(t, n)
  PROVE  \E new : /\ tasks' = [tasks EXCEPT ![t] = new]
                  /\ Stepped(tasks[t], new)
                  /\ new.lost # {}
<1> DEFINE left == IF tasks[t].batch /\ ~page.inTurn THEN tasks[t].todo \ {n} ELSE {}
           new == [tasks[t] EXCEPT !.todo = left, !.lost = @ \cup {n}]
<1>1. tasks[t] \in Task /\ n \in tasks[t].todo
  BY DEF Fail, TypeOK
<1>2. tasks' = [tasks EXCEPT ![t] = new]
  BY DEF Fail
<1>3. left \subseteq tasks[t].todo
  OBVIOUS
<1>4. new \in Task
  BY <1>1, <1>3 DEF Task
<1>5. Stepped(tasks[t], new)
  BY <1>1, <1>3, <1>4 DEF Task, Stepped, Named
<1>6. new.lost # {}
  BY <1>1 DEF Task
<1> QED
  BY <1>2, <1>5, <1>6

(* Every handler, every answer and every operation keeps the types.        *)
LEMMA TypeNext ==
  ASSUME TypeOK, [Next]_vars
  PROVE  TypeOK'
<1> USE NowhereIsNone, BoundedClicks
<1> DEFINE CountOK == clicks' \in 0 .. MaxClicks
<1>0. ASSUME Click PROVE CountOK
  BY <1>0 DEF Click, TypeOK
<1>1. ASSUME NEW r \in Requests, NEW c \in Clusters, Fetch(r, c)
      PROVE  requests' \in [Requests -> Request \cup {Nowhere}] /\ loading' \in BOOLEAN
  BY <1>1 DEF Fetch, TypeOK, Request
<1>2. ASSUME NEW t \in Tasks, NEW task \in Task, Begin(t, task)
      PROVE  tasks' \in [Tasks -> Task \cup {Nowhere}]
  BY <1>2 DEF Begin, TypeOK
<1>3. ASSUME NEW r \in Requests, Serve(r) PROVE TypeOK'
  <2>1. requests[r] \in Request /\ objects[requests[r].cluster] \subseteq Names
    BY <1>3 DEF Serve, TypeOK, Request
  <2>2. [requests[r] EXCEPT !.served = TRUE, !.names = objects[requests[r].cluster]] \in Request
    BY <2>1 DEF Request
  <2>3. requests' = [requests EXCEPT ![r] = [requests[r] EXCEPT !.served = TRUE,
                                               !.names = objects[requests[r].cluster]]]
    BY <1>3 DEF Serve
  <2>4. requests' \in [Requests -> Request \cup {Nowhere}]
    BY <2>2, <2>3 DEF TypeOK
  <2> QED
    BY <1>3, <2>4 DEF Serve, TypeOK, view, work
<1>4. ASSUME NEW r \in Requests, Arrive(r) PROVE TypeOK'
  <2>1. requests[r] \in Request
    BY <1>4 DEF Arrive, TypeOK
  <2>2. rows' \in Listing
    BY <1>4, <2>1 DEF Arrive, Listing, Request, Where
  <2>3. shown' \in Display
    BY <1>4, <2>2, TablesAreDisplays DEF Arrive, TypeOK
  <2>4. requests' \in [Requests -> Request \cup {Nowhere}] /\ loading' \in BOOLEAN
    BY <1>4 DEF Arrive, TypeOK
  <2> QED
    BY <1>4, <2>2, <2>3, <2>4 DEF Arrive, TypeOK, work
<1>5. ASSUME NEW r \in Requests, FetchFails(r) PROVE TypeOK'
  <2>1. requests' \in [Requests -> Request \cup {Nowhere}] /\ loading' \in BOOLEAN
    BY <1>5 DEF FetchFails, TypeOK
  <2>2. clean' \in BOOLEAN
    BY <1>5 DEF FetchFails
  <2> QED
    BY <1>5, <2>1, <2>2 DEF FetchFails, TypeOK, view, work
<1>6. ASSUME NEW r \in Requests, Reload(r) PROVE TypeOK'
  <2>1. cluster \in Clusters
    BY DEF TypeOK
  <2> QED
    BY <1>0, <1>1, <1>6, <2>1 DEF Reload, TypeOK, view, work
<1>7. ASSUME NEW r \in Requests, NEW c \in Clusters, Switch(c, r) PROVE TypeOK'
  <2>1. shown' \in Display
    BY <1>7, TablesAreDisplays DEF Switch, TypeOK
  <2>2. search' \subseteq Terms /\ pageNo' \in Nat \ {0}
    BY <1>7 DEF Switch, TypeOK
  <2>3. ticked' \in [Names -> Where]
    BY <1>7 DEF Switch, TypeOK, Unticked, Where
  <2>4. clean' \in BOOLEAN
    BY <1>7 DEF Switch
  <2>5. requests' \in [Requests -> Request \cup {Nowhere}] /\ loading' \in BOOLEAN
    BY <1>1, <1>7 DEF Switch
  <2> QED
    BY <1>0, <1>7, <2>1, <2>2, <2>3, <2>4, <2>5 DEF Switch, TypeOK, work
<1>8. ASSUME NEW conditions \in SUBSET Terms, SearchBy(conditions) PROVE TypeOK'
  <2>1. shown' \in Display
    BY <1>8, TablesAreDisplays DEF SearchBy, TypeOK
  <2>2. search' \subseteq Terms /\ pageNo' \in Nat \ {0}
    BY <1>8 DEF SearchBy, TypeOK
  <2> QED
    BY <1>0, <1>8, <2>1, <2>2 DEF SearchBy, TypeOK, work
<1>9. ASSUME NEW term \in Terms, AddCondition(term) \/ RemoveCondition(term) PROVE TypeOK'
  BY <1>8, <1>9 DEF AddCondition, RemoveCondition, TypeOK
<1>10. CASE ClearConditions
  BY <1>8, <1>10 DEF ClearConditions
<1>11. CASE SortTable
  <2>1. shown.total \in Nat /\ pageNo \in Nat \ {0}
    BY NamesAreNumbers, FS_CardinalityType DEF TypeOK, Display
  <2>2. LastPage \in Nat \ {0}
    BY <2>1, LastPageIsAPage DEF LastPage
  <2>3. pageNo' \in Nat \ {0}
    BY <1>11, <2>1, <2>2 DEF SortTable, PagerPage
  <2>4. shown' \in Display
    BY <1>11, TablesAreDisplays DEF SortTable, TypeOK
  <2> QED
    BY <1>0, <1>11, <2>3, <2>4 DEF SortTable, UsesTable, TypeOK, work
<1>12. ASSUME NEW p \in 1 .. Cardinality(Names), TurnTo(p) PROVE TypeOK'
  <2>1. p \in Nat \ {0}
    BY NamesAreNumbers, FS_CardinalityType
  <2>2. shown' \in Display
    BY <1>12, TablesAreDisplays DEF TurnTo, TypeOK
  <2> QED
    BY <1>0, <1>12, <2>1, <2>2 DEF TurnTo, UsesTable, TypeOK, work
<1>13. ASSUME NEW n \in Names, Tick(n) PROVE TypeOK'
  <2>1. ticked' \in [Names -> Where]
    BY <1>13 DEF Tick, TypeOK, Where
  <2> QED
    BY <1>0, <1>13, <2>1 DEF Tick, UsesTable, TypeOK, view
<1>14. ASSUME NEW n \in Names, OpenScale(n) PROVE TypeOK'
  BY <1>0, <1>14 DEF OpenScale, UsesTable, TypeOK, view
<1>15. ASSUME NEW n \in Names, AskDrain(n) PROVE TypeOK'
  <2>1. question' \in Task
    BY <1>15, RowTasksAreTasks DEF AskDrain, TypeOK, Operations
  <2> QED
    BY <1>0, <1>15, <2>1 DEF AskDrain, UsesTable, TypeOK, view
<1>16. CASE CancelScale \/ AnswerNo
  BY <1>0, <1>16 DEF CancelScale, AnswerNo, TypeOK, view
<1>17. CASE AskBatch
  <2>1. BatchTask \in Task
    BY <1>17, BatchTasksAreTasks DEF AskBatch, PressBatch
  <2> QED
    BY <1>0, <1>17, <2>1 DEF AskBatch, PressBatch, TypeOK, view
<1>18. ASSUME NEW t \in Tasks, StartBatch(t) PROVE TypeOK'
  <2>1. BatchTask \in Task
    BY <1>18, BatchTasksAreTasks DEF StartBatch, PressBatch
  <2> QED
    BY <1>0, <1>2, <1>18, <2>1 DEF StartBatch, PressBatch, TypeOK, view
<1>19. ASSUME NEW t \in Tasks, NEW n \in Names, NEW what \in Operations,
              RowOperation(t, what, n)
       PROVE  TypeOK'
  <2>1. RowTask(what, n, cluster) \in Task
    BY RowTasksAreTasks DEF TypeOK
  <2> QED
    BY <1>0, <1>2, <1>19, <2>1 DEF RowOperation, UsesTable, TypeOK, view
<1>20. ASSUME NEW t \in Tasks, ConfirmScale(t) PROVE TypeOK'
  <2>1. scaling \in [name: Names, at: Clusters]
    BY <1>20 DEF ConfirmScale, TypeOK
  <2>2. RowTask("scale", scaling.name, scaling.at) \in Task
    BY <2>1, RowTasksAreTasks DEF Operations
  <2> QED
    BY <1>0, <1>2, <1>20, <2>2 DEF ConfirmScale, TypeOK, view
<1>21. ASSUME NEW t \in Tasks, AnswerYes(t) PROVE TypeOK'
  <2>1. question \in Task
    BY <1>21 DEF AnswerYes, TypeOK
  <2> QED
    BY <1>0, <1>2, <1>21, <2>1 DEF AnswerYes, TypeOK, view
<1>22. ASSUME NEW t \in Tasks, NEW n \in Names, Succeed(t, n) PROVE TypeOK'
  <2>1. tasks' \in [Tasks -> Task \cup {Nowhere}]
    BY <1>22, SucceedSteps DEF Stepped, TypeOK
  <2>2. objects' \in [Clusters -> SUBSET Names]
    BY <1>22 DEF Succeed, TypeOK
  <2> QED
    BY <1>22, <2>1, <2>2 DEF Succeed, TypeOK, view
<1>23. ASSUME NEW t \in Tasks, NEW n \in Names, Fail(t, n) PROVE TypeOK'
  <2>1. tasks' \in [Tasks -> Task \cup {Nowhere}]
    BY <1>23, FailSteps DEF Stepped, TypeOK
  <2> QED
    BY <1>23, <2>1 DEF Fail, TypeOK, view
<1>24. ASSUME NEW t \in Tasks, End(t)
       PROVE  /\ tasks[t] \in Task
              /\ tasks' \in [Tasks -> Task \cup {Nowhere}]
              /\ question' \in Task \cup {Nowhere}
              /\ said' \in [ok: BOOLEAN, left: SUBSET Names, unseen: SUBSET Names]
  <2>1. tasks[t] \in Task
    BY <1>24 DEF End, TypeOK
  <2>2. [ok |-> tasks[t].lost = {}, left |-> tasks[t].counted \ tasks[t].done,
         unseen |-> tasks[t].unseen] \in [ok: BOOLEAN, left: SUBSET Names, unseen: SUBSET Names]
    BY <2>1 DEF Task
  <2> QED
    BY <1>24, <2>1, <2>2 DEF End, TypeOK
<1>25. ASSUME NEW t \in Tasks, EndRejected(t) PROVE TypeOK'
  BY <1>24, <1>25 DEF EndRejected, TypeOK, view
<1>26. ASSUME NEW t \in Tasks, NEW r \in Requests, EndSettled(t, r) PROVE TypeOK'
  <2>1. tasks[t].cluster \in Clusters
    BY <1>24, <1>26 DEF EndSettled, Task
  <2>2. requests' \in [Requests -> Request \cup {Nowhere}] /\ loading' \in BOOLEAN
    BY <1>1, <1>26, <2>1 DEF EndSettled
  <2>3. ticked' \in [Names -> Where]
    BY <1>26 DEF EndSettled, TypeOK, Unticked, Where
  <2> QED
    BY <1>24, <1>26, <2>2, <2>3 DEF EndSettled, TypeOK, view
<1>27. ASSUME NEW c \in Clusters, NEW n \in Names, OthersChange(c, n) PROVE TypeOK'
  <2>1. objects' \in [Clusters -> SUBSET Names]
    BY <1>27 DEF OthersChange, TypeOK
  <2> QED
    BY <1>0, <1>27, <2>1 DEF OthersChange, TypeOK, view, work
<1>28. CASE UNCHANGED vars
  BY <1>28 DEF vars, view, work, TypeOK
<1> QED
  BY <1>3, <1>4, <1>5, <1>6, <1>7, <1>9, <1>10, <1>11, <1>12, <1>13, <1>14, <1>15, <1>16, <1>17,
     <1>18, <1>19, <1>20, <1>21, <1>22, <1>23, <1>25, <1>26, <1>27, <1>28 DEF Next

-----------------------------------------------------------------------------
(* What was picked.                                                        *)

PickedRight(task) ==
  \A n \in Named(task) :
    /\ task.picked[n] # Nowhere
    /\ \/ task.picked[n] = task.cluster
       \/ task.batch /\ "ticks" \notin page.forgets
       \/ task.what = "scale"
    /\ task.batch /\ page.spares => n \notin System

\* a page that resets its ticks holds only ticks of the cluster it shows
TicksAreCurrent ==
  "ticks" \in page.forgets => \A n \in Names : ticked[n] \in {cluster, Nowhere}

PickInv ==
  /\ TicksAreCurrent
  /\ question # Nowhere => PickedRight(question)
  /\ \A t \in Tasks : tasks[t] # Nowhere => PickedRight(tasks[t])

(* An operation on one row (handleDelete, handleCordon, ...) names that     *)
(* row, picked where it was clicked.                                        *)
LEMMA RowTaskPicked ==
  ASSUME NEW what, NEW n \in Names, NEW at, at # Nowhere, at = cluster \/ what = "scale"
  PROVE  /\ PickedRight(RowTask(what, n, at))
         /\ PickedRight([RowTask(what, n, at) EXCEPT !.asked = TRUE])
BY DEF PickedRight, RowTask, Named, Unticked

(* handleBatch... names ticked rows only, without the system namespaces     *)
(* where the page leaves them out.                                          *)
LEMMA BatchTaskPicked ==
  ASSUME TicksAreCurrent
  PROVE  PickedRight(BatchTask)
<1> DEFINE chosen == IF page.spares THEN Ticks(ticked) \ System ELSE Ticks(ticked)
<1>1. Named(BatchTask) \subseteq chosen
  BY DEF BatchTask, Named
<1>2. BatchTask.picked = ticked /\ BatchTask.cluster = cluster /\ BatchTask.batch = TRUE
  BY DEF BatchTask
<1>3. ASSUME NEW n \in chosen
      PROVE  n \in Names /\ ticked[n] # Nowhere /\ (page.spares => n \notin System)
  BY DEF Ticks
<1> QED
  BY <1>1, <1>2, <1>3 DEF PickedRight, TicksAreCurrent

(* Nothing is picked when the page is mounted. *)
LEMMA PickInit == Init => PickInv
BY DEF Init, PickInv, TicksAreCurrent, Unticked

(* The steps that change what was picked are the change of cluster, the     *)
(* tick and the steps of operations.                                        *)
LEMMA PickNext ==
  ASSUME TypeOK, PickInv, [Next]_vars
  PROVE  PickInv'
<1> USE NowhereIsNone
<1> DEFINE Same == UNCHANGED <<page, cluster, ticked, scaling, question, tasks>>
<1>0. ASSUME Same PROVE PickInv'
  BY <1>0 DEF PickInv, PickedRight, TicksAreCurrent
<1>1. ASSUME NEW r \in Requests, Serve(r) \/ Arrive(r) \/ FetchFails(r) \/ Reload(r)
      PROVE  PickInv'
  BY <1>0, <1>1 DEF Serve, Arrive, FetchFails, Reload, Fetch, work, view
<1>2. ASSUME NEW r \in Requests, NEW c \in Clusters, Switch(c, r)
      PROVE  PickInv'
  BY <1>2 DEF PickInv, PickedRight, TicksAreCurrent, Switch, work, Unticked
<1>3. ASSUME NEW term \in Terms, AddCondition(term) \/ RemoveCondition(term)
      PROVE  PickInv'
  BY <1>0, <1>3 DEF AddCondition, RemoveCondition, SearchBy, work
<1>4. CASE ClearConditions \/ SortTable
  BY <1>0, <1>4 DEF ClearConditions, SearchBy, SortTable, work
<1>5. ASSUME NEW p, TurnTo(p) PROVE PickInv'
  BY <1>0, <1>5 DEF TurnTo, work
<1>6. CASE CancelScale \/ AnswerNo
  BY <1>6 DEF CancelScale, AnswerNo, PickInv, PickedRight, TicksAreCurrent
<1>7. CASE AskBatch
  <2>1. PickedRight(BatchTask)
    BY BatchTaskPicked DEF PickInv
  <2> QED
    BY <1>7, <2>1 DEF AskBatch, PressBatch, PickInv, PickedRight, TicksAreCurrent
<1>8. ASSUME NEW n \in Names, Tick(n) PROVE PickInv'
  BY <1>8 DEF Tick, PickInv, PickedRight, TicksAreCurrent, view
<1>9. ASSUME NEW n \in Names, OpenScale(n) PROVE PickInv'
  BY <1>9 DEF OpenScale, PickInv, PickedRight, TicksAreCurrent
<1>10. ASSUME NEW n \in Names, AskDrain(n) PROVE PickInv'
  <2>1. PickedRight([RowTask("drain", n, cluster) EXCEPT !.asked = TRUE])
    BY RowTaskPicked DEF TypeOK
  <2> QED
    BY <1>10, <2>1 DEF AskDrain, PickInv, PickedRight, TicksAreCurrent
<1>11. ASSUME NEW t \in Tasks, NEW n \in Names, Succeed(t, n) PROVE PickInv'
  <2>1. PICK new : tasks' = [tasks EXCEPT ![t] = new] /\ Stepped(tasks[t], new)
    BY <1>11, SucceedSteps
  <2>2. tasks[t] # Nowhere /\ UNCHANGED <<page, cluster, ticked, question>>
    BY <1>11 DEF Succeed, view
  <2>3. PickedRight(new)
    BY <2>1, <2>2 DEF Stepped, PickInv, PickedRight
  <2> QED
    BY <2>1, <2>2, <2>3 DEF TypeOK, PickInv, PickedRight, TicksAreCurrent
<1>12. ASSUME NEW t \in Tasks, NEW n \in Names, Fail(t, n) PROVE PickInv'
  <2>1. PICK new : tasks' = [tasks EXCEPT ![t] = new] /\ Stepped(tasks[t], new)
    BY <1>12, FailSteps
  <2>2. tasks[t] # Nowhere /\ UNCHANGED <<page, cluster, ticked, question>>
    BY <1>12 DEF Fail, view
  <2>3. PickedRight(new)
    BY <2>1, <2>2 DEF Stepped, PickInv, PickedRight
  <2> QED
    BY <2>1, <2>2, <2>3 DEF TypeOK, PickInv, PickedRight, TicksAreCurrent
<1>13. ASSUME NEW t \in Tasks, NEW n \in Names, NEW what \in Operations,
              RowOperation(t, what, n)
       PROVE  PickInv'
  <2>1. PickedRight(RowTask(what, n, cluster))
    BY RowTaskPicked DEF TypeOK
  <2> QED
    BY <1>13, <2>1 DEF RowOperation, Begin, PickInv, PickedRight, TicksAreCurrent
<1>14. ASSUME NEW t \in Tasks, ConfirmScale(t) PROVE PickInv'
  <2>1. scaling.name \in Names /\ scaling.at \in Clusters
    BY <1>14 DEF ConfirmScale, TypeOK
  <2>2. PickedRight(RowTask("scale", scaling.name, scaling.at))
    BY <2>1, RowTaskPicked
  <2> QED
    BY <1>14, <2>2 DEF ConfirmScale, Begin, PickInv, PickedRight, TicksAreCurrent
<1>15. ASSUME NEW t \in Tasks, StartBatch(t) PROVE PickInv'
  <2>1. PickedRight(BatchTask)
    BY BatchTaskPicked DEF PickInv
  <2> QED
    BY <1>15, <2>1 DEF StartBatch, PressBatch, Begin, PickInv, PickedRight, TicksAreCurrent
<1>16. ASSUME NEW t \in Tasks, AnswerYes(t) PROVE PickInv'
  BY <1>16 DEF AnswerYes, Begin, PickInv, PickedRight, TicksAreCurrent
<1>17. ASSUME NEW t \in Tasks, EndRejected(t) PROVE PickInv'
  BY <1>17 DEF EndRejected, End, PickInv, PickedRight, TicksAreCurrent
<1>18. ASSUME NEW t \in Tasks, NEW r \in Requests, EndSettled(t, r) PROVE PickInv'
  BY <1>18 DEF EndSettled, End, PickInv, PickedRight, TicksAreCurrent, Unticked
<1>19. ASSUME NEW c \in Clusters, NEW n \in Names, OthersChange(c, n) PROVE PickInv'
  BY <1>0, <1>19 DEF OthersChange, work
<1>20. CASE UNCHANGED vars
  BY <1>0, <1>20 DEF vars
<1> QED
  BY <1>1, <1>2, <1>3, <1>4, <1>5, <1>6, <1>7, <1>8, <1>9, <1>10, <1>11, <1>12, <1>13, <1>14,
     <1>15, <1>16, <1>17, <1>18, <1>19, <1>20 DEF Next

-----------------------------------------------------------------------------
(* What is reported.                                                       *)

TrueSoFar(task) ==
  task.lost = {} /\ page.matches => task.counted \ (task.todo \cup task.done) \subseteq task.unseen

ReportInv ==
  /\ ReportIsTrue
  /\ question # Nowhere => TrueSoFar(question)
  /\ \A t \in Tasks : tasks[t] # Nowhere => TrueSoFar(tasks[t])

(* An operation that has not begun has nothing done and nothing lost.       *)
LEMMA FreshTasksAreTrue ==
  /\ \A what, n, at : /\ TrueSoFar(RowTask(what, n, at))
                      /\ TrueSoFar([RowTask(what, n, at) EXCEPT !.asked = TRUE])
  /\ TrueSoFar(BatchTask)
BY DEF TrueSoFar, RowTask, BatchTask, Findable

(* Nothing is reported when the page is mounted. *)
LEMMA ReportInit == Init => ReportInv
BY DEF Init, ReportInv, ReportIsTrue, Silent

(* A page stays the page it is. *)
LEMMA PageIsFixed == ASSUME [Next]_vars PROVE page' = page
BY DEF Next, vars, Serve, Arrive, FetchFails, Reload, Switch, AddCondition, RemoveCondition,
       ClearConditions, SearchBy, SortTable, CancelScale, AskBatch, AnswerNo, TurnTo, Tick,
       OpenScale, AskDrain, Succeed, Fail, RowOperation, ConfirmScale, StartBatch, PressBatch,
       AnswerYes, EndRejected, EndSettled, OthersChange

(* The steps that bear on a report are those of the operations.             *)
LEMMA ReportNext ==
  ASSUME TypeOK, ReportInv, [Next]_vars
  PROVE  ReportInv'
<1> USE NowhereIsNone
<1>p. page' = page
  BY PageIsFixed
<1>0. ASSUME UNCHANGED <<question, tasks, said>> PROVE ReportInv'
  BY <1>0, <1>p DEF ReportInv, ReportIsTrue, TrueSoFar
<1>1. ASSUME NEW r \in Requests, Serve(r) \/ Arrive(r) \/ FetchFails(r) \/ Reload(r)
      PROVE  ReportInv'
  BY <1>0, <1>1 DEF Serve, Arrive, FetchFails, Reload, work
<1>2. ASSUME NEW r \in Requests, NEW c \in Clusters, Switch(c, r)
      PROVE  ReportInv'
  BY <1>0, <1>2 DEF Switch, work
<1>3. ASSUME NEW term \in Terms, AddCondition(term) \/ RemoveCondition(term)
      PROVE  ReportInv'
  BY <1>0, <1>3 DEF AddCondition, RemoveCondition, SearchBy, work
<1>4. CASE ClearConditions \/ SortTable
  BY <1>0, <1>4 DEF ClearConditions, SearchBy, SortTable, work
<1>5. ASSUME NEW p, TurnTo(p) PROVE ReportInv'
  BY <1>0, <1>5 DEF TurnTo, work
<1>6. CASE CancelScale \/ AnswerNo
  BY <1>6, <1>p DEF CancelScale, AnswerNo, ReportInv, ReportIsTrue, TrueSoFar
<1>7. CASE AskBatch
  BY <1>7, FreshTasksAreTrue, <1>p DEF AskBatch, PressBatch, ReportInv, ReportIsTrue, TrueSoFar
<1>8. ASSUME NEW n \in Names, Tick(n) \/ OpenScale(n) PROVE ReportInv'
  BY <1>0, <1>8 DEF Tick, OpenScale
<1>9. ASSUME NEW n \in Names, AskDrain(n) PROVE ReportInv'
  BY <1>9, FreshTasksAreTrue, <1>p DEF AskDrain, ReportInv, ReportIsTrue, TrueSoFar
<1>10. ASSUME NEW t \in Tasks, NEW n \in Names, Succeed(t, n) PROVE ReportInv'
  <2>1. PICK new : /\ tasks' = [tasks EXCEPT ![t] = new] /\ Stepped(tasks[t], new)
                   /\ new.todo \cup new.done = tasks[t].todo \cup tasks[t].done
                   /\ new.lost = tasks[t].lost
    BY <1>10, SucceedSteps
  <2>2. tasks[t] # Nowhere /\ UNCHANGED <<question, said>>
    BY <1>10 DEF Succeed
  <2>3. TrueSoFar(new)
    BY <2>1, <2>2 DEF Stepped, ReportInv, TrueSoFar
  <2> QED
    BY <2>1, <2>2, <2>3, <1>p DEF TypeOK, ReportInv, ReportIsTrue, TrueSoFar
<1>11. ASSUME NEW t \in Tasks, NEW n \in Names, Fail(t, n) PROVE ReportInv'
  <2>1. PICK new : tasks' = [tasks EXCEPT ![t] = new] /\ new.lost # {}
    BY <1>11, FailSteps
  <2>2. UNCHANGED <<question, said>>
    BY <1>11 DEF Fail
  <2>3. TrueSoFar(new)
    BY <2>1 DEF TrueSoFar
  <2> QED
    BY <2>1, <2>2, <2>3, <1>p DEF TypeOK, ReportInv, ReportIsTrue, TrueSoFar
<1>12. ASSUME NEW t \in Tasks, NEW task, TrueSoFar(task), Begin(t, task),
              UNCHANGED <<question, said>>
       PROVE  ReportInv'
  BY <1>12, <1>p DEF Begin, ReportInv, ReportIsTrue, TrueSoFar, TypeOK
<1>13. ASSUME NEW t \in Tasks, NEW n \in Names, NEW what \in Operations,
              RowOperation(t, what, n)
       PROVE  ReportInv'
  BY <1>12, <1>13, FreshTasksAreTrue DEF RowOperation
<1>14. ASSUME NEW t \in Tasks, ConfirmScale(t) \/ StartBatch(t) \/ AnswerYes(t)
       PROVE  ReportInv'
  BY <1>12, <1>14, FreshTasksAreTrue DEF ConfirmScale, StartBatch, PressBatch, AnswerYes, ReportInv
<1>15. ASSUME NEW t \in Tasks, End(t) PROVE ReportInv'
  <2>1. tasks[t].lost = {} /\ page.matches => tasks[t].counted \ tasks[t].done \subseteq tasks[t].unseen
    BY <1>15, <1>p DEF End, ReportInv, TrueSoFar
  <2>2. ReportIsTrue'
    BY <1>15, <2>1, <1>p DEF End, ReportInv, ReportIsTrue
  <2> QED
    BY <1>15, <2>2, <1>p DEF End, ReportInv, TrueSoFar, TypeOK
<1>16. ASSUME NEW t \in Tasks, NEW r \in Requests, EndRejected(t) \/ EndSettled(t, r)
       PROVE  ReportInv'
  BY <1>15, <1>16 DEF EndRejected, EndSettled
<1>17. ASSUME NEW t \in Tasks, EndRejected(t) PROVE ReportInv'
  BY <1>15, <1>17 DEF EndRejected
<1>18. ASSUME NEW c \in Clusters, NEW n \in Names, OthersChange(c, n) PROVE ReportInv'
  BY <1>0, <1>18 DEF OthersChange, work
<1>19. CASE UNCHANGED vars
  BY <1>0, <1>19 DEF vars
<1> QED
  BY <1>1, <1>2, <1>3, <1>4, <1>5, <1>6, <1>7, <1>8, <1>9, <1>10, <1>11, <1>13, <1>14, <1>16,
     <1>17, <1>18, <1>19 DEF Next

-----------------------------------------------------------------------------
(* What is shown after a clean change of cluster.                          *)

\* the table shows the cluster of the address
UpToDate == rows.from = cluster /\ (page.clears \/ rows.names # {} => shown.from = cluster)

CleanInv ==
  clean => /\ \A r \in Requests : requests[r] # Nowhere => requests[r].cluster = cluster
           /\ \A t \in Tasks : tasks[t] # Nowhere => tasks[t].cluster = cluster
           /\ question # Nowhere => question.cluster = cluster
           /\ UpToDate \/ \E r \in Requests : requests[r] # Nowhere

(* The first request is for the cluster of the address. *)
LEMMA CleanInit == Init => CleanInv
<1> SUFFICES ASSUME Init PROVE CleanInv
  OBVIOUS
<1> DEFINE first == [cluster |-> cluster, served |-> FALSE, names |-> {}]
<1>1. PICK r \in Requests : requests = [q \in Requests |-> IF q = r THEN first ELSE Nowhere]
  BY DEF Init
<1>2. first \in Request
  BY DEF Init, Request
<1>3. requests[r] = first /\ first # Nowhere
  BY <1>1, <1>2, NowhereIsNoRequest
<1>4. \A q \in Requests : requests[q] # Nowhere => requests[q].cluster = cluster
  BY <1>1
<1> QED
  BY <1>3, <1>4 DEF Init, CleanInv

(* A request for the list takes a free slot, and the others stay.           *)
LEMMA FetchAsks ==
  ASSUME TypeOK, NEW r \in Requests, NEW c \in Clusters, Fetch(r, c)
  PROVE  /\ \E q \in Requests : requests'[q] # Nowhere
         /\ requests'[r].cluster = c
         /\ \A q \in Requests : q # r => requests'[q] = requests[q]
<1> DEFINE new == [cluster |-> c, served |-> FALSE, names |-> {}]
<1>1. new \in Request
  BY DEF Request
<1>2. requests' = [requests EXCEPT ![r] = new] /\ requests \in [Requests -> Request \cup {Nowhere}]
  BY DEF Fetch, TypeOK
<1>3. requests'[r] = new /\ new # Nowhere
  BY <1>1, <1>2, NowhereIsNoRequest
<1> QED
  BY <1>2, <1>3

(* A table computed from the rows of the cluster shows the cluster.         *)
LEMMA TableIsUpToDate ==
  ASSUME UpToDate, NEW conditions, NEW down, NEW p,
         UNCHANGED <<page, cluster, rows>>, shown' = Table(rows, conditions, down, p)
  PROVE  UpToDate'
BY DEF UpToDate, Table

(* Until the cluster changes again, everything under way is for the         *)
(* cluster of the address, and what arrives is its list.                    *)
LEMMA CleanNext ==
  ASSUME TypeOK, CleanInv, [Next]_vars
  PROVE  CleanInv'
<1> USE NowhereIsNone
<1>1. ASSUME NEW r \in Requests, Serve(r) PROVE CleanInv'
  <2>1. requests[r] \in Request
    BY <1>1 DEF Serve, TypeOK
  <2> DEFINE new == [requests[r] EXCEPT !.served = TRUE, !.names = objects[requests[r].cluster]]
  <2>2. requests' = [requests EXCEPT ![r] = new]
    BY <1>1 DEF Serve
  <2>3. new.cluster = requests[r].cluster
    BY <2>1 DEF Request
  <2>4. new \in Request
    BY <1>1, <2>1 DEF TypeOK, Request
  <2>5. new # Nowhere
    BY <2>4, NowhereIsNoRequest
  <2>6. /\ requests'[r] = new
        /\ \A q \in Requests : q # r => requests'[q] = requests[q]
    BY <2>2 DEF TypeOK
  <2>7. UNCHANGED <<clean, tasks, question, rows, shown, page, cluster>>
    BY <1>1 DEF Serve, view, work
  <2>8. requests[r] # Nowhere
    BY <1>1 DEF Serve
  <2> HIDE DEF new
  <2> QED
    BY <2>3, <2>5, <2>6, <2>7, <2>8 DEF CleanInv, UpToDate
<1>2. ASSUME NEW r \in Requests, Arrive(r) PROVE CleanInv'
  <2>1. clean => rows'.from = cluster
    BY <1>2 DEF Arrive, CleanInv
  <2>2. page.clears \/ rows'.names # {} => shown'.from = rows'.from
    BY <1>2 DEF Arrive, Table
  <2>3. clean => UpToDate'
    BY <1>2, <2>1, <2>2 DEF Arrive, UpToDate
  <2> QED
    BY <1>2, <2>3 DEF Arrive, work, CleanInv, TypeOK
<1>3. ASSUME NEW r \in Requests, FetchFails(r) PROVE CleanInv'
  BY <1>3 DEF FetchFails, CleanInv
<1>4. ASSUME NEW r \in Requests, Fetch(r, cluster), UNCHANGED <<page, cluster, rows, shown, clean>>,
             \A t \in Tasks : tasks'[t] \in {Nowhere, tasks[t]},
             question' \in {Nowhere, question}
      PROVE  CleanInv'
  <2>1. /\ \E q \in Requests : requests'[q] # Nowhere
        /\ requests'[r].cluster = cluster
        /\ \A q \in Requests : q # r => requests'[q] = requests[q]
    BY <1>4, FetchAsks DEF TypeOK
  <2> QED
    BY <1>4, <2>1 DEF CleanInv
<1>5. ASSUME NEW r \in Requests, Reload(r) PROVE CleanInv'
  BY <1>4, <1>5 DEF Reload, view, work
<1>6. ASSUME NEW r \in Requests, NEW c \in Clusters, Switch(c, r) PROVE CleanInv'
  <2>1. /\ \E q \in Requests : requests'[q] # Nowhere
        /\ requests'[r].cluster = c
        /\ \A q \in Requests : q # r => requests'[q] = requests[q]
    BY <1>6, FetchAsks DEF Switch
  <2> QED
    BY <1>6, <2>1 DEF Switch, work, CleanInv
<1>7. ASSUME NEW conditions, NEW down, NEW p, shown' = Table(rows, conditions, down, p),
             UNCHANGED <<page, cluster, rows, requests, tasks, question, clean>>
      PROVE  CleanInv'
  BY <1>7, TableIsUpToDate DEF CleanInv
<1>8. ASSUME NEW conditions, SearchBy(conditions) PROVE CleanInv'
  <2>1. shown' = Table(rows, conditions, descending, pageNo')
    BY <1>8 DEF SearchBy
  <2> QED
    BY <1>7, <1>8, <2>1 DEF SearchBy, work
<1>9. ASSUME NEW term \in Terms, AddCondition(term) \/ RemoveCondition(term) PROVE CleanInv'
  BY <1>8, <1>9 DEF AddCondition, RemoveCondition
<1>10. CASE ClearConditions
  BY <1>8, <1>10 DEF ClearConditions
<1>11. CASE SortTable
  BY <1>7, <1>11 DEF SortTable, work
<1>12. ASSUME NEW p, TurnTo(p) PROVE CleanInv'
  BY <1>7, <1>12 DEF TurnTo, work
<1>13. ASSUME UNCHANGED <<page, cluster, rows, shown, requests, clean>>,
              \A t \in Tasks : tasks'[t] \in {Nowhere, tasks[t]} \/ tasks'[t].cluster = cluster,
              question' \in {Nowhere, question} \/ question'.cluster = cluster
       PROVE  CleanInv'
  BY <1>13 DEF CleanInv, UpToDate
<1>14. ASSUME NEW t \in Tasks, NEW task, Begin(t, task), clean => task.cluster = cluster,
              UNCHANGED <<page, cluster, rows, shown, requests, clean, question>>
       PROVE  CleanInv'
  <2>1. \A u \in Tasks : tasks'[u] = tasks[u] \/ tasks'[u] = task
    BY <1>14 DEF Begin, TypeOK
  <2> QED
    BY <1>14, <2>1 DEF CleanInv, UpToDate
<1>15. ASSUME NEW n \in Names, Tick(n) \/ OpenScale(n) PROVE CleanInv'
  BY <1>13, <1>15 DEF Tick, OpenScale, view
<1>16. CASE CancelScale \/ AnswerNo
  BY <1>13, <1>16 DEF CancelScale, AnswerNo, view
<1>17. ASSUME NEW n \in Names, AskDrain(n) PROVE CleanInv'
  <2>1. question'.cluster = cluster
    BY <1>17 DEF AskDrain, RowTask
  <2> QED
    BY <1>13, <1>17, <2>1 DEF AskDrain, view
<1>18. CASE AskBatch
  <2>1. question'.cluster = cluster
    BY <1>18 DEF AskBatch, BatchTask
  <2> QED
    BY <1>13, <1>18, <2>1 DEF AskBatch, PressBatch, view
<1>19. ASSUME NEW t \in Tasks, NEW n \in Names, NEW what \in Operations,
              RowOperation(t, what, n)
       PROVE  CleanInv'
  <2>1. RowTask(what, n, cluster).cluster = cluster
    BY DEF RowTask
  <2> QED
    BY <1>14, <1>19, <2>1 DEF RowOperation, view
<1>20. ASSUME NEW t \in Tasks, ConfirmScale(t) PROVE CleanInv'
  <2>1. RowTask("scale", scaling.name, scaling.at).cluster = cluster
    BY DEF RowTask
  <2> QED
    BY <1>14, <1>20, <2>1 DEF ConfirmScale, view
<1>21. ASSUME NEW t \in Tasks, StartBatch(t) PROVE CleanInv'
  <2>1. BatchTask.cluster = cluster
    BY DEF BatchTask
  <2> QED
    BY <1>14, <1>21, <2>1 DEF StartBatch, PressBatch, view
<1>22. ASSUME NEW t \in Tasks, AnswerYes(t) PROVE CleanInv'
  <2>1. clean => question.cluster = cluster
    BY <1>22 DEF AnswerYes, CleanInv
  <2> QED
    BY <1>14, <1>22, <2>1 DEF AnswerYes, view
<1>23. ASSUME NEW t \in Tasks, NEW n \in Names, Succeed(t, n) \/ Fail(t, n) PROVE CleanInv'
  <2>1. PICK new : tasks' = [tasks EXCEPT ![t] = new] /\ Stepped(tasks[t], new)
    BY <1>23, SucceedSteps, FailSteps
  <2>2. /\ tasks[t] # Nowhere
        /\ UNCHANGED <<page, cluster, rows, shown, requests, clean, question>>
    BY <1>23 DEF Succeed, Fail, view
  <2>3. \A u \in Tasks : tasks'[u] = IF u = t THEN new ELSE tasks[u]
    BY <2>1 DEF TypeOK
  <2>4. new.cluster = tasks[t].cluster
    BY <2>1 DEF Stepped
  <2> QED
    BY <2>2, <2>3, <2>4 DEF CleanInv, UpToDate
<1>24. ASSUME NEW t \in Tasks, End(t)
       PROVE  /\ \A u \in Tasks : tasks'[u] \in {Nowhere, tasks[u]}
              /\ question' \in {Nowhere, question}
  BY <1>24 DEF End, TypeOK
<1>25. ASSUME NEW t \in Tasks, EndRejected(t) PROVE CleanInv'
  BY <1>13, <1>24, <1>25 DEF EndRejected, view
<1>26. ASSUME NEW t \in Tasks, NEW r \in Requests, EndSettled(t, r) PROVE CleanInv'
  <2>1. /\ \E q \in Requests : requests'[q] # Nowhere
        /\ requests'[r].cluster = tasks[t].cluster
        /\ \A q \in Requests : q # r => requests'[q] = requests[q]
    <3>1. tasks[t].cluster \in Clusters
      BY <1>26 DEF EndSettled, End, TypeOK, Task
    <3> QED
      BY <1>26, <3>1, FetchAsks DEF EndSettled
  <2>2. tasks[t] # Nowhere /\ UNCHANGED <<page, cluster, rows, shown, clean>>
    BY <1>26 DEF EndSettled, End, view
  <2>3. clean => tasks[t].cluster = cluster
    BY <2>2 DEF CleanInv
  <2> QED
    BY <1>24, <1>26, <2>1, <2>2, <2>3 DEF EndSettled, CleanInv
<1>27. ASSUME NEW c \in Clusters, NEW n \in Names, OthersChange(c, n) PROVE CleanInv'
  BY <1>27 DEF OthersChange, view, work, CleanInv, UpToDate
<1>28. CASE UNCHANGED vars
  BY <1>28 DEF vars, CleanInv, UpToDate
<1> QED
  BY <1>1, <1>2, <1>3, <1>5, <1>6, <1>9, <1>10, <1>11, <1>12, <1>15, <1>16, <1>17, <1>18, <1>19,
     <1>20, <1>21, <1>22, <1>23, <1>25, <1>26, <1>27, <1>28 DEF Next

-----------------------------------------------------------------------------
(* A search that hits something shows something.                           *)

(* Some matching row stands first in the order of the table: the sets of    *)
(* rows before a row are finite, so one of them is smallest, and empty.     *)
LEMMA SomeRowIsFirst ==
  ASSUME NEW matching \in SUBSET Names, matching # {}, NEW down
  PROVE  \E n \in matching : Place(n, matching, down) = 0
<1> DEFINE Before(n) == {m \in matching : IF down THEN m > n ELSE m < n}
           Befores == {Before(n) : n \in matching}
           R == StrictSubsetOrdering(Names)
<1>1. IsFiniteSet(Names) /\ matching \subseteq Nat
  BY NamesAreNumbers
<1>2. IsWellFoundedOn(R, FiniteSubsetsOf(Names))
  BY FS_StrictSubsetOrderingWellFounded
<1>3. Befores \subseteq FiniteSubsetsOf(Names) /\ Befores # {}
  <2>1. FiniteSubsetsOf(Names) = SUBSET Names
    BY <1>1, FS_FiniteSubsetsOfFinite
  <2>2. \A n \in matching : Before(n) \in SUBSET Names
    OBVIOUS
  <2> HIDE DEF Before
  <2> QED
    BY <2>1, <2>2
<1>4. PICK b \in Befores : \A c \in Befores : <<c, b>> \notin R
  <2> HIDE DEF Befores, R
  <2> QED
    BY <1>2, <1>3, WFMin
<1>5. PICK n \in matching : b = Before(n)
  BY <1>4
<1>6. ASSUME NEW m \in Before(n) PROVE FALSE
  <2>1. m \in matching /\ m \in Nat /\ n \in Nat /\ (IF down THEN m > n ELSE m < n)
    BY <1>1, <1>6
  <2>2. Before(m) \subseteq Before(n)
    <3> SUFFICES ASSUME NEW k \in Before(m) PROVE k \in Before(n)
      OBVIOUS
    <3>1. k \in matching /\ k \in Nat /\ (IF down THEN k > m ELSE k < m)
      BY <1>1
    <3>2. IF down THEN k > n ELSE k < n
      BY <2>1, <3>1
    <3> QED
      BY <3>1, <3>2
  <2>3. m \in Before(n) /\ m \notin Before(m)
    BY <1>6, <2>1
  <2>4. <<Before(m), Before(n)>> \in R
    BY <2>2, <2>3 DEF StrictSubsetOrdering
  <2> QED
    BY <1>4, <1>5, <2>1, <2>4
<1>7. Before(n) = {}
  BY <1>6
<1>8. Place(n, matching, down) = Cardinality(Before(n))
  BY DEF Place
<1> QED
  BY <1>7, <1>8, FS_EmptySet

(* So the first page of a table with rows is not empty.                     *)
LEMMA FirstPageShowsRows ==
  ASSUME NEW matching \in SUBSET Names, matching # {}, NEW down
  PROVE  OnPage(matching, down, 1) # {}
<1>1. PICK n \in matching : Place(n, matching, down) = 0
  BY SomeRowIsFirst
<1>2. (1 - 1) * PageSize = 0 /\ 1 * PageSize = PageSize /\ 0 < PageSize
  BY PagesHaveRows
<1>3. n \in OnPage(matching, down, 1)
  BY <1>1, <1>2 DEF OnPage
<1> QED
  BY <1>3

-----------------------------------------------------------------------------
(* The theorems.                                                           *)

(* TypeOK, for every page: lists, requests and operations keep the shape    *)
(* the handlers give them, and the page number is one of a page.            *)
THEOREM ListPageTypeCorrect == Spec => []TypeOK
<1> QED
  BY TypeInit, TypeNext, PTL DEF Spec

(* TargetsWerePicked: no interleaving of searches, page turns, ticks and    *)
(* changes of cluster makes handleDelete or handleBatch... reach a row that *)
(* the user did not pick, or the system namespaces.                         *)
THEOREM OperationsReachWhatWasPicked == Spec => []TargetsWerePicked
<1>1. PickInv => TargetsWerePicked
  BY DEF PickInv, PickedRight, TargetsWerePicked, Asked, Running
<1> QED
  BY <1>1, TypeInit, TypeNext, PickInit, PickNext, PTL DEF Spec

(* ReportIsTrue: "all succeeded" after an operation on ticked rows, in turn *)
(* or by Promise.allSettled, means that every counted row was dealt with,   *)
(* but for those not in the table when the button was pressed, on every     *)
(* page whose batch finds its rows (all but the Deployment page).           *)
THEOREM SuccessMeansDone == Spec => []ReportIsTrue
<1>1. ReportInv => ReportIsTrue
  BY DEF ReportInv
<1> QED
  BY <1>1, TypeInit, TypeNext, ReportInit, ReportNext, PTL DEF Spec

(* CleanSwitchShowsCluster: after a change of cluster with nothing under    *)
(* way, the page settles on the rows of the new cluster.                    *)
THEOREM CleanSwitchSettles == Spec => []CleanSwitchShowsCluster
<1>1. CleanInv => CleanSwitchShowsCluster
  BY DEF CleanInv, CleanSwitchShowsCluster, UpToDate
<1> QED
  BY <1>1, TypeInit, TypeNext, CleanInit, CleanNext, PTL DEF Spec

(* SearchShowsAHit: on the pages whose search goes back to page 1, a search *)
(* that hits anything shows something, whatever page the table was on.      *)
THEOREM HitsAreShown == Spec => SearchShowsAHit
<1> DEFINE A == /\ search' # search /\ cluster' = cluster
                /\ page.rewinds /\ Matching(rows.names, search') # {}
                => shown'.names # {}
<1>1. TypeOK /\ [Next]_vars => A
  <2> SUFFICES ASSUME TypeOK, [Next]_vars,
                      search' # search, cluster' = cluster,
                      page.rewinds, Matching(rows.names, search') # {}
               PROVE  shown'.names # {}
    OBVIOUS
  <2>1. \E conditions : SearchBy(conditions)
    BY DEF Next, Serve, Arrive, FetchFails, Reload, Switch, AddCondition, RemoveCondition,
           ClearConditions, SortTable, CancelScale, AskBatch, AnswerNo, TurnTo, Tick, OpenScale,
           AskDrain, Succeed, Fail, RowOperation, ConfirmScale, StartBatch, PressBatch,
           AnswerYes, EndRejected, EndSettled, OthersChange, view, vars
  <2>2. pageNo' = 1 /\ shown' = Table(rows, search', descending, 1)
    BY <2>1 DEF SearchBy
  <2> DEFINE matching == Matching(rows.names, search')
  <2>3. matching \subseteq Names /\ rows.names # {}
    BY DEF Matching, TypeOK, Listing
  <2>4. shown'.names = OnPage(matching, descending, 1)
    BY <2>2, <2>3 DEF Table
  <2> QED
    BY <2>3, <2>4, FirstPageShowsRows
<1>2. TypeOK /\ [Next]_vars => [A]_vars
  BY <1>1
<1>3. Spec => [][A]_vars
  BY <1>2, TypeInit, TypeNext, PTL DEF Spec
<1> QED
  BY <1>3 DEF SearchShowsAHit

=============================================================================
