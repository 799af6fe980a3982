------------------------------ MODULE ListPage ------------------------------
(***************************************************************************)
(* The resource list pages of the web interface (src/ui/src/pages): one    *)
(* React component per kind of resource, all written to one pattern.  A    *)
(* page fetches the whole list of its cluster, keeps it, and derives the   *)
(* rows of the table from it by search, order and page number in an        *)
(* effect.  The user ticks rows, runs an operation on one row or on the    *)
(* ticked rows, and may change the cluster in the address at any time: the *)
(* component stays mounted, and what is under way keeps the cluster of the *)
(* render that started it.                                                 *)
(*                                                                         *)
(* React runs the effects of a change before it takes the next event, so   *)
(* an action here is a handler with the effects it sets off.  Requests are *)
(* asynchronous: they are answered, and their answers arrive, in any       *)
(* order.                                                                  *)
(***************************************************************************)
EXTENDS Naturals, FiniteSets

CONSTANTS
  Clusters,   \* ids of clusters, as they stand in the address
  Names,      \* keys of rows, numbered in the order the server lists them
  System,     \* the keys that are names of system namespaces
  Terms,      \* search conditions: a field and the rows it hits
  PageSize,   \* rows on a page of the table
  Requests,   \* slots of list requests under way (a bound)
  Tasks,      \* slots of operations under way (a bound)
  MaxClicks,  \* what the user does, at most (a bound)
  Nowhere     \* "not ticked", "nothing open", "slot free"

ASSUME NamesAreNumbers == Names \subseteq Nat /\ IsFiniteSet(Names)
ASSUME SystemIsNamed == System \subseteq Names
ASSUME TermsHitRows == Terms \subseteq [field: STRING, hits: SUBSET Names]
ASSUME PagesHaveRows == PageSize \in Nat \ {0}
ASSUME NowhereIsNone == Nowhere \notin Clusters
ASSUME BoundedClicks == MaxClicks \in Nat

-----------------------------------------------------------------------------
(* What tells the pages apart *)

\* the pattern: every other page is this one with what its file does differently
DefaultPage ==
  [ clears  |-> TRUE,     \* an empty list empties the table
    rewinds |-> TRUE,     \* a new search goes back to page 1
    clamps  |-> FALSE,    \* sorting takes over the page that the pager shows
    forgets |-> {},       \* what a change of cluster resets
    batch   |-> "delete", \* the operation on ticked rows
    reach   |-> "table",  \* it acts on the ticked rows of the table, or on all ticked keys
    matches |-> TRUE,     \* the keys it looks for in the table are built as those of the rows
    inTurn  |-> FALSE,    \* one request after the other, the first failure ends it
    asks    |-> TRUE,     \* behind Modal.confirm
    spares  |-> FALSE,    \* system namespaces are left out
    row     |-> {"delete"},
    served  |-> {"delete"} ]   \* what the router has a route for

\* a row's key is namespace-name-type, the operation on ticked rows looks for namespace/name
DeploymentPage == [DefaultPage EXCEPT !.clears = FALSE, !.batch = "restart", !.matches = FALSE,
                     !.row = {"delete", "scale"}, !.served = {"delete", "scale"}]

StatefulSetPage == [DefaultPage EXCEPT !.rewinds = FALSE, !.clamps = TRUE, !.batch = "restart",
                      !.inTurn = TRUE, !.asks = FALSE,
                      !.row = {"delete", "scale"}, !.served = {"delete", "scale"}]
RolloutPage == StatefulSetPage

\* the tables of these three offer to scale as well, at a path without a route
DaemonSetPage == [StatefulSetPage EXCEPT !.served = {"delete"}]
JobPage       == [StatefulSetPage EXCEPT !.served = {"delete"}]
CronJobPage   == [StatefulSetPage EXCEPT !.served = {"delete"}]

ConfigMapPage == [DefaultPage EXCEPT !.reach = "keys", !.inTurn = TRUE]
SecretPage    == [DefaultPage EXCEPT !.reach = "keys", !.inTurn = TRUE]

ServicePage      == DefaultPage
IngressPage      == DefaultPage
PVCPage          == DefaultPage
PVPage           == DefaultPage
StorageClassPage == DefaultPage

NamespacePage == [DefaultPage EXCEPT !.reach = "keys", !.spares = TRUE]

PodPage == [DefaultPage EXCEPT !.reach = "keys", !.forgets = {"page", "search", "ticks"}]

\* its operations on ticked rows only show a message
NodePage == [DefaultPage EXCEPT !.forgets = {"page", "search"}, !.batch = "none",
               !.row = {"cordon", "uncordon", "drain"}, !.served = {"cordon", "uncordon", "drain"}]

Pages == {DeploymentPage, StatefulSetPage, RolloutPage, DaemonSetPage, JobPage, CronJobPage,
          ConfigMapPage, SecretPage, ServicePage, IngressPage, PVCPage, PVPage,
          StorageClassPage, NamespacePage, PodPage, NodePage}

-----------------------------------------------------------------------------
VARIABLES
  page,       \* which page this is: a record of Pages, fixed
  objects,    \* [cluster -> the keys that exist there]
  cluster,    \* clusterId in the address
  rows,       \* allWorkloads, allPods, ...: the list, and the cluster it was fetched from
  shown,      \* workloads, pods, ...: the rows of the table, their cluster, and the total
  search,     \* searchConditions
  descending, \* sortOrder
  pageNo,     \* currentPage
  ticked,     \* selectedRowKeys, each with the address it was ticked under
  loading,    \* the table is covered by its spinner
  scaling,    \* scaleWorkload while the scale dialog is open, with the address it was opened under
  question,   \* the open Modal.confirm: what its closure holds
  requests,   \* list requests under way
  tasks,      \* operations under way
  said,       \* what the last operation on ticked rows reported
  clean,      \* nothing was under way at the last change of cluster, and no list failed since
  clicks      \* what the user did so far

vars == <<page, objects, cluster, rows, shown, search, descending, pageNo, ticked, loading,
          scaling, question, requests, tasks, said, clean, clicks>>
view == <<rows, shown, search, descending, pageNo>>
work == <<scaling, question, tasks, said>>

Operations == {"delete", "scale", "restart", "cordon", "uncordon", "drain"}
Where == Clusters \cup {Nowhere}
Listing == [names: SUBSET Names, from: Where]
Display == [names: SUBSET Names, from: Where, total: 0 .. Cardinality(Names)]
Request == [cluster: Clusters, served: BOOLEAN, names: SUBSET Names]

ASSUME NowhereIsNoRequest == Nowhere \notin Request

\* an operation: the keys still to do, done and refused; those the user was told of and, of
\* these, the ones not in the table at the time; and where the user picked each key
Task == [what: Operations, batch: BOOLEAN, asked: BOOLEAN, cluster: Clusters,
         todo: SUBSET Names, done: SUBSET Names, lost: SUBSET Names,
         counted: SUBSET Names, unseen: SUBSET Names, picked: [Names -> Where]]

Silent == [ok |-> FALSE, left |-> {}, unseen |-> {}]

-----------------------------------------------------------------------------
(* Search, order, page *)

\* conditions on one field are alternatives, fields are conjoined
Hits(conditions, n) ==
  \A c \in conditions : \E d \in conditions : d.field = c.field /\ n \in d.hits

Matching(names, conditions) == {n \in names : Hits(conditions, n)}

\* how many of the matching rows stand before row n
Place(n, matching, down) ==
  Cardinality({m \in matching : IF down THEN m > n ELSE m < n})

OnPage(matching, down, p) ==
  {n \in matching : /\ (p - 1) * PageSize <= Place(n, matching, down)
                    /\ Place(n, matching, down) < p * PageSize}

\* the effect that recomputes the table from the list
Table(all, conditions, down, p) ==
  IF all.names = {} /\ ~page.clears THEN shown
  ELSE LET matching == Matching(all.names, conditions)
       IN  [names |-> OnPage(matching, down, p), from |-> all.from, total |-> Cardinality(matching)]

\* Fault: no "|| 1" for the last page of an empty table.
LastPageOrNone == (shown.total + PageSize - 1) \div PageSize

\* the pager shows the last page when the page number lies beyond it
LastPage == IF shown.total = 0 THEN 1 ELSE (shown.total + PageSize - 1) \div PageSize
PagerPage == IF pageNo > LastPage THEN LastPage ELSE pageNo

Unticked == [n \in Names |-> Nowhere]
Ticks(t) == {n \in Names : t[n] # Nowhere}

-----------------------------------------------------------------------------
(* Requests for the list *)

\* load...(c) of the render whose closure runs
Fetch(r, c) ==
  /\ requests[r] = Nowhere
  /\ requests' = [requests EXCEPT ![r] = [cluster |-> c, served |-> FALSE, names |-> {}]]
  /\ loading' = TRUE

Serve(r) ==
  /\ requests[r] # Nowhere
  /\ ~requests[r].served
  /\ requests' = [requests EXCEPT ![r].served = TRUE, ![r].names = objects[requests[r].cluster]]
  /\ UNCHANGED <<page, objects, cluster, view, ticked, loading, work, clean, clicks>>

\* nothing looks whether the answer is still wanted
Arrive(r) ==
  /\ requests[r] # Nowhere
  /\ requests[r].served
  /\ rows' = [names |-> requests[r].names, from |-> requests[r].cluster]
  /\ shown' = Table(rows', search, descending, pageNo)
  /\ requests' = [requests EXCEPT ![r] = Nowhere]
  /\ loading' = FALSE
  /\ UNCHANGED <<page, objects, cluster, search, descending, pageNo, ticked, work, clean, clicks>>

FetchFails(r) ==
  /\ requests[r] # Nowhere
  /\ requests' = [requests EXCEPT ![r] = Nowhere]
  /\ loading' = FALSE
  /\ clean' = (clean /\ requests[r].cluster # cluster)
  /\ UNCHANGED <<page, objects, cluster, view, ticked, work, clicks>>

-----------------------------------------------------------------------------
(* What the user does.  A dialog covers the page, the spinner the table. *)

Click == clicks < MaxClicks /\ clicks' = clicks + 1

Uncovered == question = Nowhere /\ scaling = Nowhere

Reload(r) ==
  /\ Click
  /\ Uncovered
  /\ Fetch(r, cluster)
  /\ UNCHANGED <<page, objects, cluster, view, ticked, work, clean>>

\* Fault: the cluster is missing from the dependencies of load..., an old closure runs.
SwitchStaleClosure(c, r) ==
  /\ Click
  /\ c # cluster
  /\ cluster' = c
  /\ clean' = (/\ \A q \in Requests : requests[q] = Nowhere
               /\ \A t \in Tasks : tasks[t] = Nowhere
               /\ question = Nowhere)
  /\ Fetch(r, cluster)
  /\ pageNo' = IF "page" \in page.forgets THEN 1 ELSE pageNo
  /\ search' = IF "search" \in page.forgets THEN {} ELSE search
  /\ ticked' = IF "ticks" \in page.forgets THEN Unticked ELSE ticked
  /\ shown' = Table(rows, search', descending, pageNo')
  /\ UNCHANGED <<page, objects, rows, descending, work>>

\* Fault: the Pod page does not reset its ticks.
SwitchKeepingTicks(c, r) ==
  /\ Click
  /\ c # cluster
  /\ cluster' = c
  /\ clean' = (/\ \A q \in Requests : requests[q] = Nowhere
               /\ \A t \in Tasks : tasks[t] = Nowhere
               /\ question = Nowhere)
  /\ Fetch(r, c)
  /\ pageNo' = IF "page" \in page.forgets THEN 1 ELSE pageNo
  /\ search' = IF "search" \in page.forgets THEN {} ELSE search
  /\ shown' = Table(rows, search', descending, pageNo')
  /\ UNCHANGED <<page, objects, rows, descending, ticked, work>>

\* the cluster selector, or the browser's history (which no dialog covers)
Switch(c, r) ==
  /\ Click
  /\ c # cluster
  /\ cluster' = c
  /\ clean' = (/\ \A q \in Requests : requests[q] = Nowhere
               /\ \A t \in Tasks : tasks[t] = Nowhere
               /\ question = Nowhere)
  /\ Fetch(r, c)
  /\ pageNo' = IF "page" \in page.forgets THEN 1 ELSE pageNo
  /\ search' = IF "search" \in page.forgets THEN {} ELSE search
  /\ ticked' = IF "ticks" \in page.forgets THEN Unticked ELSE ticked
  /\ shown' = Table(rows, search', descending, pageNo')
  /\ UNCHANGED <<page, objects, rows, descending, work>>

\* Fault: the effect that goes back to page 1 is missing.
SearchInPlace(conditions) ==
  /\ Click
  /\ Uncovered
  /\ search' = conditions
  /\ shown' = Table(rows, search', descending, pageNo)
  /\ UNCHANGED <<page, objects, cluster, rows, descending, pageNo, ticked, loading, requests,
                 work, clean>>

\* setSearchConditions with the effects that hang on it
SearchBy(conditions) ==
  /\ Click
  /\ Uncovered
  /\ search' = conditions
  /\ pageNo' = IF page.rewinds THEN 1 ELSE pageNo
  /\ shown' = Table(rows, search', descending, pageNo')
  /\ UNCHANGED <<page, objects, cluster, rows, descending, ticked, loading, requests, work, clean>>

AddCondition(term) == term \notin search /\ SearchBy(search \cup {term})
RemoveCondition(term) == term \in search /\ SearchBy(search \ {term})
ClearConditions == search # {} /\ SearchBy({})

UsesTable == Click /\ Uncovered /\ ~loading

SortTable ==
  /\ UsesTable
  /\ descending' = ~descending
  /\ pageNo' = IF page.clamps THEN PagerPage ELSE pageNo
  /\ shown' = Table(rows, search, descending', pageNo')
  /\ UNCHANGED <<page, objects, cluster, rows, search, ticked, loading, requests, work, clean>>

\* the pager does not react to the page it shows
TurnTo(p) ==
  /\ UsesTable
  /\ p \in 1 .. LastPage
  /\ p # PagerPage
  /\ pageNo' = p
  /\ shown' = Table(rows, search, descending, p)
  /\ UNCHANGED <<page, objects, cluster, rows, search, descending, ticked, loading, requests,
                 work, clean>>

\* rowSelection.onChange: the table hands over the ticked keys that are among its rows
Tick(n) ==
  /\ UsesTable
  /\ n \in shown.names
  /\ ticked' = [m \in Names |->
                  IF m \notin shown.names THEN Nowhere
                  ELSE IF m # n THEN ticked[m]
                  ELSE IF ticked[m] = Nowhere THEN cluster ELSE Nowhere]
  /\ UNCHANGED <<page, objects, cluster, view, loading, scaling, question, requests, tasks, said,
                 clean>>

-----------------------------------------------------------------------------
(* Operations *)

RowTask(what, n, at) ==
  [ what |-> what, batch |-> FALSE, asked |-> FALSE, cluster |-> cluster,
    todo |-> {n}, done |-> {}, lost |-> {}, counted |-> {n}, unseen |-> {},
    picked |-> [Unticked EXCEPT ![n] = at] ]

\* rows of the table that a ticked key finds
Findable == IF page.matches THEN shown.names ELSE {}

\* what handleBatch... works out from the render it was clicked in
BatchTask ==
  LET chosen == IF page.spares THEN Ticks(ticked) \ System ELSE Ticks(ticked)
      onTable == page.reach = "table"
  IN  [ what |-> page.batch, batch |-> TRUE, asked |-> page.asks, cluster |-> cluster,
        todo |-> IF onTable THEN chosen \cap Findable ELSE chosen, done |-> {}, lost |-> {},
        counted |-> chosen, unseen |-> IF onTable THEN chosen \ shown.names ELSE {},
        picked |-> ticked ]

Begin(t, task) ==
  /\ tasks[t] = Nowhere
  /\ tasks' = [tasks EXCEPT ![t] = task]

RowOperation(t, what, n) ==
  /\ UsesTable
  /\ n \in shown.names
  /\ what \in page.row \ {"scale", "drain"}
  /\ Begin(t, RowTask(what, n, cluster))
  /\ UNCHANGED <<page, objects, cluster, view, ticked, loading, scaling, question, requests, said,
                 clean>>

OpenScale(n) ==
  /\ UsesTable
  /\ "scale" \in page.row
  /\ n \in shown.names
  /\ scaling' = [name |-> n, at |-> cluster]
  /\ UNCHANGED <<page, objects, cluster, view, ticked, loading, question, requests, tasks, said,
                 clean>>

CancelScale ==
  /\ Click
  /\ scaling # Nowhere
  /\ scaling' = Nowhere
  /\ UNCHANGED <<page, objects, cluster, view, ticked, loading, question, requests, tasks, said,
                 clean>>

\* handleScale of the latest render: the row of then, the cluster of now
ConfirmScale(t) ==
  /\ Click
  /\ scaling # Nowhere
  /\ Begin(t, RowTask("scale", scaling.name, scaling.at))
  /\ UNCHANGED <<page, objects, cluster, view, ticked, loading, scaling, question, requests, said,
                 clean>>

AskDrain(n) ==
  /\ UsesTable
  /\ "drain" \in page.row
  /\ n \in shown.names
  /\ question' = [RowTask("drain", n, cluster) EXCEPT !.asked = TRUE]
  /\ UNCHANGED <<page, objects, cluster, view, ticked, loading, scaling, requests, tasks, said,
                 clean>>

\* the button is disabled without a ticked row; a choice of system namespaces only is refused
PressBatch ==
  /\ Click
  /\ Uncovered
  /\ page.batch # "none"
  /\ BatchTask.counted # {}
  /\ UNCHANGED <<page, objects, cluster, view, ticked, loading, scaling, requests, said, clean>>

AskBatch ==
  /\ page.asks
  /\ PressBatch
  /\ question' = BatchTask
  /\ UNCHANGED tasks

StartBatch(t) ==
  /\ ~page.asks
  /\ PressBatch
  /\ Begin(t, BatchTask)
  /\ UNCHANGED question

\* the dialog stays, with its button spinning, until the operation is over
Unanswered == \A t \in Tasks : tasks[t] # Nowhere => ~tasks[t].asked

AnswerYes(t) ==
  /\ Click
  /\ question # Nowhere
  /\ Unanswered
  /\ Begin(t, question)
  /\ UNCHANGED <<page, objects, cluster, view, ticked, loading, scaling, question, requests, said,
                 clean>>

AnswerNo ==
  /\ Click
  /\ question # Nowhere
  /\ Unanswered
  /\ question' = Nowhere
  /\ UNCHANGED <<page, objects, cluster, view, ticked, loading, scaling, requests, tasks, said,
                 clean>>

-----------------------------------------------------------------------------
(* Operations under way *)

\* the request for one key succeeds: a route takes it and the object is there
Succeed(t, n) ==
  /\ tasks[t] # Nowhere
  /\ n \in tasks[t].todo
  /\ tasks[t].what \in page.served
  /\ n \in objects[tasks[t].cluster]
  /\ tasks' = [tasks EXCEPT ![t].todo = @ \ {n}, ![t].done = @ \cup {n}]
  /\ objects' = IF tasks[t].what = "delete"
                THEN [objects EXCEPT ![tasks[t].cluster] = @ \ {n}] ELSE objects
  /\ UNCHANGED <<page, cluster, view, ticked, loading, scaling, question, requests, said, clean,
                 clicks>>

\* Fault: a failure inside the loop is caught there and forgotten.
FailQuietly(t, n) ==
  /\ tasks[t] # Nowhere
  /\ n \in tasks[t].todo
  /\ tasks' = [tasks EXCEPT ![t].todo = @ \ {n}]
  /\ UNCHANGED <<page, objects, cluster, view, ticked, loading, scaling, question, requests, said,
                 clean, clicks>>

\* it fails; one that goes key by key does not try the rest
Fail(t, n) ==
  /\ tasks[t] # Nowhere
  /\ n \in tasks[t].todo
  /\ tasks' = [tasks EXCEPT ![t].todo = IF tasks[t].batch /\ ~page.inTurn THEN @ \ {n} ELSE {},
                            ![t].lost = @ \cup {n}]
  /\ UNCHANGED <<page, objects, cluster, view, ticked, loading, scaling, question, requests, said,
                 clean, clicks>>

\* Promise.allSettled never rejects, a failed await does
Rejected(task) == task.lost # {} /\ (page.inTurn \/ ~task.batch)

End(t) ==
  /\ tasks[t] # Nowhere
  /\ tasks[t].todo = {}
  /\ tasks' = [tasks EXCEPT ![t] = Nowhere]
  /\ question' = IF tasks[t].asked THEN Nowhere ELSE question
  /\ said' = IF tasks[t].batch
             THEN [ok |-> tasks[t].lost = {}, left |-> tasks[t].counted \ tasks[t].done,
                   unseen |-> tasks[t].unseen]
             ELSE said

\* the catch clause: a message, and the page stays as it is
EndRejected(t) ==
  /\ End(t)
  /\ Rejected(tasks[t])
  /\ UNCHANGED <<page, objects, cluster, view, ticked, loading, scaling, requests, clean, clicks>>

\* the list is fetched again by the closure that began: for its cluster
EndSettled(t, r) ==
  /\ End(t)
  /\ ~Rejected(tasks[t])
  /\ Fetch(r, tasks[t].cluster)
  /\ ticked' = IF tasks[t].batch THEN Unticked ELSE ticked
  /\ scaling' = IF tasks[t].what = "scale" THEN Nowhere ELSE scaling
  /\ UNCHANGED <<page, objects, cluster, view, clean, clicks>>

-----------------------------------------------------------------------------
\* somebody else creates or deletes an object
OthersChange(c, n) ==
  /\ Click
  /\ objects' = [objects EXCEPT ![c] = IF n \in @ THEN @ \ {n} ELSE @ \cup {n}]
  /\ UNCHANGED <<page, cluster, view, ticked, loading, work, requests, clean>>

\* the component has been mounted and its first effects have run
Init ==
  /\ page \in Pages
  /\ objects \in [Clusters -> SUBSET Names]
  /\ cluster \in Clusters
  /\ rows = [names |-> {}, from |-> Nowhere]
  /\ shown = [names |-> {}, from |-> Nowhere, total |-> 0]
  /\ search = {} /\ descending = FALSE /\ pageNo = 1
  /\ ticked = Unticked
  /\ \E r \in Requests :
       requests = [q \in Requests |->
                     IF q = r THEN [cluster |-> cluster, served |-> FALSE, names |-> {}] ELSE Nowhere]
  /\ loading = TRUE
  /\ scaling = Nowhere /\ question = Nowhere
  /\ tasks = [t \in Tasks |-> Nowhere]
  /\ said = Silent
  /\ clean = TRUE
  /\ clicks = 0

Next ==
  \/ \E r \in Requests : Serve(r) \/ Arrive(r) \/ FetchFails(r) \/ Reload(r)
  \/ \E r \in Requests, c \in Clusters : Switch(c, r)
  \/ \E term \in Terms : AddCondition(term) \/ RemoveCondition(term)
  \/ ClearConditions \/ SortTable \/ CancelScale \/ AskBatch \/ AnswerNo
  \/ \E p \in 1 .. Cardinality(Names) : TurnTo(p)
  \/ \E n \in Names : Tick(n) \/ OpenScale(n) \/ AskDrain(n)
  \/ \E t \in Tasks, n \in Names : Succeed(t, n) \/ Fail(t, n)
  \/ \E t \in Tasks, n \in Names, what \in Operations : RowOperation(t, what, n)
  \/ \E t \in Tasks : ConfirmScale(t) \/ StartBatch(t) \/ AnswerYes(t) \/ EndRejected(t)
  \/ \E t \in Tasks, r \in Requests : EndSettled(t, r)
  \/ \E c \in Clusters, n \in Names : OthersChange(c, n)

Spec == Init /\ [][Next]_vars

-----------------------------------------------------------------------------
(* Properties *)

\* type invariant: lists, requests and operations are what the components keep
TypeOK ==
  /\ page \in Pages
  /\ objects \in [Clusters -> SUBSET Names]
  /\ cluster \in Clusters
  /\ rows \in Listing /\ shown \in Display
  /\ search \subseteq Terms /\ descending \in BOOLEAN /\ pageNo \in Nat \ {0}
  /\ ticked \in [Names -> Where]
  /\ loading \in BOOLEAN
  /\ scaling \in [name: Names, at: Clusters] \cup {Nowhere}
  /\ question \in Task \cup {Nowhere}
  /\ requests \in [Requests -> Request \cup {Nowhere}]
  /\ tasks \in [Tasks -> Task \cup {Nowhere}]
  /\ said \in [ok: BOOLEAN, left: SUBSET Names, unseen: SUBSET Names]
  /\ clean \in BOOLEAN
  /\ clicks \in 0 .. MaxClicks

Asked == {question} \ {Nowhere}
Running == {tasks[t] : t \in Tasks} \ {Nowhere}
Named(task) == task.todo \cup task.done \cup task.lost

\* An operation touches only rows the user picked, and in the cluster they were picked under: a
\* page that keeps its ticks over a change of cluster (all but the Pods') is excepted, and so is
\* the scale dialog, which outlives a step back in the browser's history.  No batch of the
\* namespace page reaches a system namespace.
TargetsWerePicked ==
  \A task \in Asked \cup Running : \A n \in Named(task) :
    /\ task.picked[n] # Nowhere
    /\ \/ task.picked[n] = task.cluster
       \/ task.batch /\ "ticks" \notin page.forgets
       \/ task.what = "scale"
    /\ task.batch /\ page.spares => n \notin System

\* A batch that reports success has dealt with every key the user was told of, except for those
\* that were not in the table when the button was pressed on a page that acts on its table.  The
\* Deployment page is excepted: its batch finds no row at all (RedeployReachesTicked).
ReportIsTrue == said.ok /\ page.matches => said.left \subseteq said.unseen

\* A batch the user confirmed for so many ticked rows, and that reports success, has dealt with
\* each of them that the table showed: false of the Deployment page, where the key of a row is
\* not the key the batch looks for (so no run checks it; added to one, TLC shows the batch).
RedeployReachesTicked == said.ok => said.left \subseteq said.unseen

\* When nothing was under way as the cluster changed, and no list of the new cluster failed since,
\* the page shows the new cluster's rows as soon as no request is under way; on the Deployment
\* page only if it has rows.
CleanSwitchShowsCluster ==
  clean /\ (\A r \in Requests : requests[r] = Nowhere) =>
    /\ rows.from = cluster
    /\ page.clears \/ rows.names # {} => shown.from = cluster

\* A search that hits anything shows something, whatever page the table was on, on the pages that
\* go back to page 1 (the StatefulSet page and the four written after it do not).
SearchShowsAHit ==
  [][ /\ search' # search /\ cluster' = cluster
      /\ page.rewinds /\ Matching(rows.names, search') # {}
      => shown'.names # {} ]_vars

=============================================================================
