# KubePolaris in TLA+

KubePolaris is a web platform that manages many Kubernetes clusters: a Go
server (`main.go`, `internal/`) with a MySQL database, and a React interface
(`ui/`). The server keeps one set of Kubernetes informers per cluster, gives
users terminals into Pods and kubectl Pods, turns the platform's permissions
into RBAC objects inside the clusters, and lets a language model propose JVM
diagnosis commands that it runs in a Pod. The interface lists every kind of
resource, and edits workloads both as a form and as YAML.

This directory holds the TLA+ modules that describe the concurrent parts of
that server and the parts of the interface that hold logic of their own,
the configurations under which TLC explores small instances of them, and the
theorems that TLAPS proves for instances of any size.

    tlc -workers 2 -config MCInformerManager.cfg MCInformerManager.tla
    tlapm InformerManager_proofs.tla

`PROJECT.json` says of every definition which lines of the source it
translates, and of every property with which fault in which definition it
fails (the definitions commented "Fault" are there for that and are used
nowhere else).

## 1. The system

### Components with concurrent behaviour

**Informer runtimes and cluster lifecycle** (`k8s/manager.go`,
`handlers/cluster.go`, `services/cluster_service.go`, `router/router.go`,
`main.go`). State: a map from cluster id to runtime under one RWMutex; each
runtime has a stop channel closed once, a started flag, a `synced` flag, and
the caches of its informers; the rows of the clusters table. Operations:
`EnsureForCluster`, `EnsureAndWait`, `GetOverviewSnapshot`, `waitForSync`,
`StopForCluster`, `Stop`, listers by cluster id, client lookup; import and
deletion of a cluster; warm-up at start and shutdown. Every REST handler
reaches it. Hard: what a handler read (the row, the runtime) is old when it is
used; a wait gives up while its goroutine goes on; deletion, re-creation and
shutdown meet. Correct when: no watch is lost, none is closed twice, callers
find only runtimes that run, an overview counts a full cache, every call ends.

**kubectl Pod terminal** (`handlers/kubectl_pod_terminal.go`). State:
`activeSessions` per (cluster, Pod), the Pods themselves in the cluster with
phase and last-activity annotation. Operations: a connection ensures the Pod,
waits for Running, stamps it, counts itself, attaches; a worker lists and
deletes idle Pods every ten minutes. It hands over to the Pod terminal. Hard:
eight ways to fail between creation and count, and a worker that decides on
what it read earlier. Correct when: the count is the number of connections,
connections keep their Pod, unused Pods go.

**Pod terminal, recorder, audit rows** (`handlers/pod_terminal.go`,
`terminalreplay/recorder.go`, `pkg/asciinema`, `services/audit_service.go`).
State: two pipes, a channel of sizes, `done`, the context, the pending Enter,
the recorder's file, the audit row. Four goroutines per session. Hard: blocking
writes under a lock, closing channels and pipes from two sides, an ending that
overtakes late output; and a goroutine per command, for which nobody waits, that
adds to the row. Correct when: status and replay path of a closed row are final
and its size counts stored commands only, the replay is complete, commands are
not invented, and no goroutine stays.

**Cluster permissions and user RBAC** (`services/permission_service.go`,
`services/rbac_service.go`, `handlers/permission.go`). State: rows of
cluster_permissions, and service accounts and bindings in the cluster.
Operations: create, update, delete, batch delete; each starts a goroutine that
removes the old bindings and makes the new ones; terminals choose an account.
Hard: goroutines of consecutive calls are not ordered, multi-statement database
work without transactions, failures that nobody retries, and errors of reads
that are dropped. Correct when: cluster and table agree once things are quiet,
nothing is bound that was never granted, and a permission has the role of its
type.

**Arthas diagnosis agent** (`handlers/arthas.go`, `services/arthas_*.go`,
`ui/src/pages/pod/PodArthas.tsx`). State: the handler's pending commands and
evidence for one WebSocket, a plan store shared by all sessions, and the page's
queue of questions. Operations: prompt, plan, run unasked, ask, confirm, skip,
report. Hard: both sides keep a list of what is open, messages cross, ids start
again with each plan. Correct when: nothing runs that was neither allowed nor
confirmed, the report is sent once and after the answers, the page is not left
waiting.

**User groups and resolution of permissions** (`services/permission_service.go`,
`middleware/permission.go`). State: groups, memberships, permissions of users
and of groups. A request asks for the permission on a cluster (the user's own
row, the memberships, the strongest row of the groups, a default), whether the
user is a platform administrator, or which clusters to show; each answer takes
up to five statements. Administrators add, remove, update and delete in up to four.
Hard: the statements of a request see different tables; nothing is in a
transaction; some errors are not looked at; `Save` inserts a row again that was
deleted in between. Correct when: an answer was right at some moment of the
request, what the user had throughout counts, and deleted users and groups hold
nothing.

**Users, login, LDAP** (`services/auth_service.go`, `user_service.go`,
`ldap_service.go`, `middleware/auth.go`). State: rows of users, tokens in the
hands of browsers, which outlive the user. Hard: every operation reads a whole
row and saves a whole row, so login, status change and password reset overwrite
one another, and a save can bring a deleted user back; a name is unique among
deleted rows too. Deletion and these saves are modelled as to whether the row is live; the
contents of the row (status, password, names) and LDAP are *not modelled yet*.

**kubectl terminal over a local process** (`handlers/kubectl_terminal.go`),
**SSH terminal** (`handlers/ssh_terminal.go`), **log centre**
(`services/log_aggregator.go`, `handlers/log_center.go`), **AI chat**
(`handlers/ai_chat.go`, `services/ai_provider.go`, `ai_tools.go`) and **node
drain** (`services/k8s_client.go`). Each is one handler with a few goroutines
or a sequence of calls that may stop half way. *Not modelled yet.*

**Workload editor** (`ui/src/pages/workload/DeploymentCreate.tsx`,
`components/workload/*.tsx`, `services/*Yaml*Service.ts`,
`handlers/deployment.go` for `applyYAML`). State: which face is shown, the YAML
text, the store of the form, the text the workload had, a dry run and its
result, the open question, the text being sent. Operations: load, type, enter,
change the face, dry run, submit, confirm; six kinds of workload. Hard: form
and text are two descriptions of which neither can say everything the other
says; fields are copied one by one in three places, some with a default that
the other direction does not write; `setFieldsValue` merges with what was there,
to any depth; answers arrive when the page shows something else. Correct
when: what is entered is what is sent, a text that went through the form stays
what it was where the form has words for it, scheduling rules get no weaker,
and a passed dry run is about the text on the page.

**Resource list pages** (sixteen pages under `ui/src/pages`, and
`components/ClusterSelector.tsx`). State per page: the list as fetched, the
rows shown, search, order and page number, ticks, the spinner, open dialogs,
requests and operations under way. Operations: load and reload, change the
cluster, search, sort, turn the page, tick, operate on one row or on the ticked
ones. Hard: the component stays mounted when the cluster in the address
changes, requests are never cancelled, an operation reloads through the closure
that began it, and rows, ticks and page number are kept in separate states that
effects bring in line. The sixteen copies differ in whether they do each of
these. Correct when: an operation reaches what was picked, success means done,
the rows shown are those of the cluster shown, and a search that hits shows it.

**YAML edit pages and the handlers that apply texts** (`pages/config/*Edit.tsx`,
`pages/network/*Edit.tsx`, `pages/yaml/YAMLEditor.tsx`,
`handlers/resource_yaml.go`, and the writing handlers of config maps, secrets,
services, ingresses and workloads). State: per page the text, the text as
loaded, the text in the diff, two flags of requests under way; in the cluster
the object with its version. Operations: load, type, reset, pre-check, save,
confirm, cancel, leave; apply a text, set fields, scale, create, delete. Hard:
a handler reads and writes in two calls; the version it writes is that of its
own read and not that of the text; a page may show a text put together from
parts, in another version of YAML than the handler reads it in; the editor takes
any text, while a request is under way too. Correct when:
nothing is overwritten between a read and its write, what is written was
reviewed, what nobody edited stays, and a text about one object changes no
other.

### Components without behaviour of their own

Overview, search, monitoring, operations diagnosis, Grafana, Alertmanager,
ArgoCD, the reading handlers of workloads, network and storage, RBAC browsing,
audit queries, settings, configuration and start-up, and the other pages of the
interface (details, creation dialogs, charts, login). They read through the
informers or make one call of an external API; where they fan out, goroutines
write to separate fields or to a channel that has room for all of them.
`PROJECT.json` lists each with the reason it is left out.

### How they interact

Handlers share the informer manager (a call under its lock) and the database.
The kubectl Pod terminal asks the permission service for the account its Pod
runs as, and ends by calling the Pod terminal. The Pod terminal, the SSH
terminal and the Arthas agent write audit rows; recorders write the replay path
into them. Administrators' calls reach clusters through goroutines that outlive
the call. The Arthas sessions meet in one plan store. List pages and the editor
reach the server by REST calls only: a page knows of the cluster what its last
answers said.

## 2. Modules

| Module | Models | State and actions |
| --- | --- | --- |
| `InformerManager` | manager.go with its callers | one action per critical section of `mu`, per wait, per database call; a request is a process with a program counter, `held` is its local `rt`, `helper` the goroutine of `waitForSync` |
| `WatchSet` | the abstract promise | watches that are current, open or spent; open, retire, close, close all, halt |
| `KubectlPod` | kubectl_pod_terminal.go | one action per API call and per critical section of `sessionsMutex`; a Pod has phase, deletion mark and one bit of age |
| `PodTerminal` | pod_terminal.go, recorder.go, audit_service.go | five processes (reader, exec, copier, output, the stream), pipes as rendezvous, the size channel with its capacity, and a goroutine per recorded command that stores it and then adds its length to the row |
| `UserRBAC` | permission_service.go, handlers/permission.go, rbac_service.go | an API call and its goroutine are one process; each SQL statement and each write to Kubernetes is an action and may fail, the reads and the count whose errors are dropped too |
| `ArthasSession` | arthas.go, arthas_*.go, PodArthas.tsx | handler and page with two FIFO channels; a command is an id and a text |
| `Access` | permission_service.go, user_service.go, middleware/permission.go | the four tables as one user sees them; administrators' calls and the user's requests are processes, each SQL statement is an action and may fail |
| `Affinity` | the affinity parts of yamlCommonService.ts | pure: terms of YAML, rows of the form, the two conversions, and what a rule or a node selector admits |
| `WorkloadYaml` | the form and YAML services of the six kinds | pure: a document and a form are records with optional fields; one operator per parser and builder; what a document and the form's store look like (`IsDocument`, `IsStore`), and what the form can say (`SayableDoc`) |
| `WorkloadEditor` | DeploymentCreate.tsx and its components, applyYAML | one action per handler and per answer of the server |
| `ListPage` | sixteen list pages, ClusterSelector.tsx | one action per handler with the effects it sets off, per answer and per step of an operation; a page is a record of what it does differently |
| `ResourceEditor` | five edit pages, resource_yaml.go, the writing handlers | one object with its version; one action per handler of a page, per call to the API server and per answer; a kind is a record of how its page makes its text, whether its handler decodes base64, which fields its update handler sets, and whether that handler takes a whole text besides |
| `MCInformerManager`, `MCArthasSession`, `MCAccess`, `MCWorkloadEditor`, `MCListPage`, `MCResourceEditor` | instances | which calls are made; which plans the model returns; which tables a run starts from; which texts and inputs there are; which rows a search hits; which kinds are edited |
| `*_proofs` | theorems | one module per component; `Terminal_proofs` speaks of `KubectlPod` and `PodTerminal`, whose names and variables differ for that reason (`SessionSpec`, `SessionInv`, ...) |

The module headers say what each step stands for. Things that hold throughout:

* A goroutine switch can happen between any two actions; what runs under a
  mutex is one action. A Go `RWMutex` read section is one action too.
* The Kubernetes API server and kubelet are nondeterministic environments:
  every call may fail and objects change between calls. What these do is marked
  `external` in the map.
* Time is abstract: a time-out may fire whenever its wait is under way, an
  annotation is young or old.
* Texts (messages, scripts, names, formats) are left out, or are model values.
* React runs the effects of a change before it takes the next event, so a
  handler with its effects is one action; what follows an `await` is another.

History variables are used to state properties, and no guard reads them:
`covered` (KubectlPod), `enters` (PodTerminal; it also carries the bound
`MaxEnters`), `asked`, `marred` and `behind` (UserRBAC), `ran`, `confirmed`, `answered`,
`failed`, `crossed` (ArthasSession), `marred` and the fields `source`, `notes`,
`lasting`, `in`, `writers`, `right` of a request (Access), `loaded`, `entered`,
`written`, `moved` and the `text` of a dry run's result (WorkloadEditor),
`clean`, `said` and the fields `picked`, `counted`, `unseen`, `done` and `lost`
of an operation (ListPage), `base` and `moved` (ResourceEditor).

`WorkloadYaml` treats a document as a record whose fields may be absent, and
keeps apart what the code keeps apart: absent, empty, and a list where the form
expects one text. Where the code does not tell an empty value from an absent one
(`formData.name || 'example'`, a `suspend` of false) neither does the model.
What reading fills in is filled in there: the operator of a toleration
(`Equal`), the type of a volume that has none of the known ones (`emptyDir`),
the spelling of a duration (`String`). An unknown field is one such field in one
place, as the builders drop all of them alike. `ListPage` describes one pattern
(`DefaultPage`) and sixteen differences: which operations there are and which of
them a route of the server takes, whether the list empties with its data,
whether a search goes back to the first page, whether the page number is
corrected when rows go, whether a batch looks for rows by the keys the table
gives them, what a change of cluster forgets, what a batch acts on and in which
manner, whether it asks first, and whether it spares the system's namespaces.
What antd does with ticks, pages, spinners and dialogs is marked `external`.

`ResourceEditor` splits an object by what the pages do with it: what every page
shows (`meta`, `data`), what some lose (`extra`), and identity and version,
which the user may take out of a text one by one. A page that rebuilds its text
writes YAML 1.2, and the handler reads YAML 1.1: `Reread` says what a value is
read back as (a label `yes` as `"true"`). Kinds with equal records (Service and
Ingress, the workloads that scale) are one case; thirteen records name them all.
A client's request has no identity, as one typed by hand has none. The component
`ResourceYAMLEditor.tsx` is exported and used by no page, and the update dialogs
of services and ingresses are not reachable (edit goes to the page), so neither
is modelled.

`Access` follows one user and whatever groups there are: no statement reads
rows of two users, so what holds of one holds of all. The answer that a request
should have given is an operator over the tables (`Verdict`); the code's
statements are compared with it, once against every state the tables went
through (`right`) and once against what did not change (`lasting`, `in`).

`InformerManager` implements `WatchSet`: current watches are the registered
runtimes, open ones those whose stop channel is open, spent ones those that
were closed. TLC checks it with fairness (`ImplementsWatchSet`), TLAPS proves
the safety part (`ManagerIsWatchSet`).

## 3. Model checking

| Run | Bounds | Shows |
| --- | --- | --- |
| `informer` | one cluster, three calls (at least one deletion, the others overview, list, client or deletion), three runtimes | no runtime is lost, an overview is complete, calls and goroutines end, `WatchSet` is implemented |
| `informer_delete` | the same | finding 1 |
| `kubectl_pod` | three connections, one Pod | the count is exact, established connections are spared by the pass that counted them, idle Pods are collected, setup ends |
| `pod_terminal` | channel of two sizes, room for one chunk each way, two line ends | status and replay path of a closed row are final and its size counts stored commands only; replays are complete, goroutines end and a resize returns |
| `pod_terminal_abandoned` | the same | finding 2 |
| `user_rbac` | three calls, types dev and custom, two namespaces, one custom role | table and cluster agree; the account a terminal uses works; deletions last |
| `arthas` | six plan shapes, three ids, two prompts | nothing runs unasked, what is pending has a question, and about that very command; one report, complete, and a turn ends |
| `access` | two calls, one request, two groups, two clusters, types admin and custom, twenty tables to start from | an answer was right at some moment; nothing that lasted is overlooked; the deleted hold nothing and are refused |
| `workload_editor` | six kinds to create, one to edit with and without an answer; 18 texts and one that is no YAML, 12 inputs; two edits | inputs are written; a text that went through the form once is stable and one the form can say comes back; required rules of a text without a node selector get no weaker; a passed dry run is about the page |
| `list_page` | sixteen pages, two clusters, two rows on two pages, two requests and one operation under way, four clicks | operations reach what was picked; success means done; a clean change of cluster shows the cluster; a search that hits shows a row |
| `resource_editor` | ConfigMap, Secret, Service, DaemonSet; one page, one client, two requests at a time; two changes typed, two versions written after the first | no write overwrites what its handler has not read; what a page writes was reviewed; what nobody edited stays; a text with an identity changes no other object and one with a version brings none back |
| `resource_editor_secret` | Secret only | finding 3 |

Why the bounds are enough. Informers of different clusters share only the map
and the lock, and the lock is atomicity here, so one cluster shows every
interaction; three calls are what it takes for a stop, a re-creation and a
reader to meet, and three runtimes let one be re-created twice. One kubectl Pod
suffices as the count and the annotation are per Pod; with three connections one
can be established while one fails and one arrives. In the Pod terminal the real
capacities (10 sizes, the network's buffers) matter only by being reached, which
2 and 1 do. Permissions need two calls to overlap and a third to come after; dev
stands for readonly as well (same code with another name), custom is the other
branch, and admin and ops have no bindings of their own, so they are the case
where `NeedsAccount` is false, which dev on all namespaces also exercises. In
`access` two calls can overlap each other and the request, and a third would
only make the cases `AnswerWasRight` excuses more numerous; what earlier calls
left behind is in the tables a run starts from (every membership with each of
five sets of rows: own and group's row on one cluster, two groups of different
types, administrators elsewhere, nothing). Admin and custom are the ends of the
order of types; admin is besides the only type a platform question asks for. The
calls are interchangeable, so they are a symmetry set. The Arthas plans are the
shapes that make answers cross: no ids, a text twice, two commands under one id,
a command without text, and none.

In the editor two edits are an input and a text, in either order and with any
number of changes of face between them, which is what it takes to fill the form
from a text, change it and write it again; leftovers of one text in the form of
the next need two texts. The conversions treat the parts of a document
separately (`formDataToYAML` is a record of parts), so each text varies one part
and a pair of parts that meet in the store: canary steps, rules of four kinds,
probes and hooks of each type, tolerations with and without an operator, volumes
of known types and of none, routing and metadata that lie two objects deep, a
pause with and without quotes, empty values, lists where the form has one text.
On a list page one row per page is what makes turning, clamping and rewinding
visible with two rows; one condition per row makes a search that hits only the
other page. Two requests can overtake each other, and a second operation at
the same time would touch the first only through the lists both reload, which
the two requests show. Four clicks are tick, ask, answer and change of cluster,
or search, turn, search and sort.
On an edit page the first change makes saving possible and the second comes while
it is under way; two versions are the re-creation of a deleted object and the save
that meets it, or a foreign write and the save after it; two requests are a
pre-check beside a save, or a save beside a client. Two pages add nothing to a
page and a client, as pages meet in the object only. Of the two values of a Secret one
reads as base64 of the other, and that other is none. One label of two and one value of
two stand for those that YAML 1.1 reads otherwise. The four kinds are the four records
that differ in what the properties look at: rebuilt, rebuilt and decoded, shown
(whose update handler replaces the object), and workload.

Bounds in guards: `Runtimes` (each is used once), `MaxEnters`, `MaxCalls`,
`MaxPrompts`, `MaxEdits`, `MaxClicks` (what the user and others do),
`MaxVersion` (writes to an object), and the slots `Requests` and `Tasks`: where
no slot is free, the action that would take one waits. Deadlock is checked where
the system cannot stop: the informer model stutters explicitly once the process
has exited (`Gone`), KubectlPod has no end. The others do end (the handler has
returned, all calls are made, the page is left, the clicks are used up), and
their configurations say `CHECK_DEADLOCK FALSE`.

### Fairness

* `InformerManager`: each request takes its steps, because every wait in one is
  bounded (an overview waits two seconds, `EnsureAndWait` its time-out); the
  goroutine of `waitForSync` returns once the stop channel is closed; main.go
  runs on. The cache is never assumed to fill.
* `KubectlPod`: the handler's steps (the API client returns; the wait for
  Running has a deadline of 120 s) and the ticker's worker, and a Pod in its grace
  period goes away. Users need not come or go. Two steps are strongly fair:
  an hour passes for an annotation that nobody renews, and a deletion that the
  worker tries at pass after pass succeeds in the end (the API server is not
  down for ever).
* `PodTerminal`: each goroutine runs when it can, those that record commands
  included (a statement ends, well or not), the stream takes sizes and
  ends when cancelled, an attempt to connect has an outcome. Nothing is assumed
  of the user, the shell, or a stream that nobody cancels.
* `ArthasSession`: the handler's waits are bounded by the session time-out, and
  what was written arrives. The user may never answer.
* `UserRBAC`, `Access`, `WorkloadEditor`, `ListPage` and `ResourceEditor` have safety properties
  only: nothing says that an administrator calls again or that a user goes on,
  and a request the browser made may stay unanswered.

### Named exceptions

Several properties hold except in circumstances they name, which is part of what
they say. `BindingsMatchRows` excludes overlapping calls, failing reads and
writes and batch deletions: each of those really leaves bindings behind, as
nothing reconciles. The read may be one whose error the handlers drop
(`permission.go:344`, `:411`): they then clean up nothing and answer OK.
`GrantedAccountWorks` supposes a goroutine that came through since the row was
last written (`behind`): one that gives up leaves the account without part of
its bindings, and nobody tries again. What failed before that does not matter to
it, nor what a batch deletion left. It speaks of rows whose role is that of
their type; rows with the role of a custom permission they no longer are, are
excepted (section 4). It and `OneLiveRow` (proved only) exclude overlap and a failed count
of rows (`permission_service.go:163`), which is taken for none: a second live
row comes of both, as there is no unique index. `DeletedStaysDeleted` excludes
overlap, since `Save` writes `deleted_at`. `ClosedRowIsFinal` does not speak of
the row's size beyond what it counts: the goroutines that record commands add to
it after the row is closed. `SettledIsReported` and `TurnEnds` exclude a
confirmed command that failed: its entry stays in pending, the plan never gets
its report, and after a later confirmation the page waits for a `done` that is
not sent. `ReportIsComplete` excludes a prompt that overtook an unfinished
diagnosis and a plan with one id twice: ids start again with each plan and the
page lets the user ask again as soon as one command has failed, so an answer to
the old plan's `cmd-2` settles the new plan's, and the report goes out without
the command the user was never asked about (`handlers/arthas.go:362`). In these
two cases `PendingIsAsked` says only that there is a question under the
command's id, whose answer settles it: the page keeps the question it has and
drops the new one of that id (`PodArthas.tsx:153`), so the user may never see
the command that is pending. Everywhere else the question is about that very
command. `EstablishedIsSpared` speaks of the connections that were counted when
the worker listed the Pods: it reads the count before the Delete and the
annotation before the count, so a connection that gets through in between loses
its Pod (`handlers/kubectl_pod_terminal.go:401`). `NothingRunsUnasked` excludes
the confirmation of a command without text, which takes its text from the plan
store all sessions share. `AnswerWasRight` holds while at most one call changes
what the answer depends on: with two, a request may read the user's row before
the first and the memberships after the second and give an answer that was never
right (TLC shows it when the condition is left out: a user gets an own row and
leaves the group, and the request sees neither). The list of clusters reads the
rows twice and may differ after a single change. Failed reads, which the code
takes for "none", are excluded in it and in `NothingOverlooked`.
`GoneHoldNothing` and `DeletedUserIsRefused` exclude users and groups in
`marred`: their deletion overlapped another call or lost a statement whose error
is not looked at, or a permission was created for them when they were gone
(`CreateClusterPermission` does not look them up).

In the editor, `InputsAreWritten` excludes a form whose name servers were parsed
from YAML: the parser leaves a list where the form expects one text, the
conversion throws (`yamlCommonService.ts:852`), `formToYaml` catches it and
returns the text the page had, so that an input is shown and not sent. It also
excludes a description for which the text has an annotation already: the builder
writes the annotation over it. An input that the user empties (a name, a
schedule, the rows of a rule, labels without values) leaves the field to its
default. `RoundTripIsStable` excludes three texts the form writes and does not
read back (`Unsettled`): a toleration whose operator was not chosen is written
without one and read as `Equal` (`yamlCommonService.ts:980`); a probe whose
command is blank lines is written as an `exec` without a command, read as an
empty text, and then written without `exec` (`yamlCommonService.ts:76`, `:47`);
and a StatefulSet created before it had a name gets an empty `serviceName`,
which the second conversion fills with the default name
(`yamlStatefulSetService.ts:15`). `SayableComesBack` names the fields the form
has no words for (node selector, service account, security context, `envFrom`,
host ports, routers other than the three it knows, anti-affinity of a Rollout,
the Pod management policy, the time a Job is kept, history limits, empty values
of labels and annotations, a protocol spelled out as TCP, gRPC probes, a
`maxUnavailable` of 0) or says otherwise (tolerations without an operator,
pauses without quotes, volumes of other types or none): going through the form
drops or changes them. It also supposes that the form holds nothing of an
earlier text (`NothingLeft`): `setFieldsValue` merges to any depth, and the
routing or metadata of a canary that an earlier text had are written with the
next one. `RulesAreNotWeaker` speaks of texts without a `nodeSelector`, which
the parser does not read and the form therefore drops, so that nodes it ruled
out are admitted; and of Pod affinity with one expression per term: a term of
several is split, and different Pods may then satisfy the parts.
`PassedCheckIsCurrent` excludes a dry run whose answer came after the page had
changed (`moved`).

On the list pages, `TargetsWerePicked` excludes batches of pages that keep their
ticks over a change of cluster (all but the Pods'), which then reach the keys of
the same name in the new cluster, and the scale dialog, which a step back in the
browser's history leaves open. `ReportIsTrue` excludes ticked rows that are not
on the page shown when the batch acts on the table's rows: they are counted in
the question and silently skipped. It excepts the Deployment page, whose batch
finds no row at all (section 4). `CleanSwitchShowsCluster` speaks of changes
of cluster with nothing under way: otherwise a late answer, or the reload of an
operation begun before, puts the old cluster's rows into the page; on the
Deployment page it also needs a row, as an empty list leaves the old rows on
the screen (`DeploymentTab.tsx:343`). `SearchShowsAHit` speaks of the eleven
pages that go back to page 1; the other five show an empty table on a page the
pager no longer offers.

On the edit pages, `WrittenWasReviewed` excludes the page of a workload when the
user typed on during the pre-check: the confirmation sends the editor's text,
not the one in the diff (`YAMLEditor.tsx:123`). `OnlyEditedChanges` excludes the
extra parts on the pages that rebuild the text (`binaryData`, `immutable`,
finalizers and owners are lost), the values of a Secret (finding 3), and on
those pages what YAML 1.1 reads otherwise than YAML 1.2 writes it: a label or
value `yes`, `on` or `1_000` that nobody touched is stored as `"true"` or
another number after any saving. It speaks of objects that nobody changed since
the page was loaded: what others wrote in between is overwritten silently,
because the handler takes the version from its own read
(`resource_yaml.go:102`). `SaveStaysWithItsObject` speaks of what the text
tells: with a version it re-creates nothing, with an identity it replaces no
other object. The texts of ConfigMap and Secret have neither, and the user may
take the version out of the others; such a text brings a deleted object back
while the page says "updated", even when it has the identity of that object (the
API server gives the new one another). A change typed while a confirmed save is
under way is lost when the page goes back to the list.

Other observations, which no text of the repository contradicts: the router has
no `restart` route for any kind, so every batch restart ends with all rows
failed (`router.go:244`); an editor whose workload could not be loaded shows the
template and, on submission, creates it; creating a workload that exists
replaces it.

## 4. Findings

1. `informer_delete`: a request that has read the row of a cluster makes a new
   runtime after `StopForCluster`; the watch goes on after the deletion
   (`handlers/cluster.go:242`).
2. `pod_terminal_abandoned`: a terminal whose stream is over and into which the
   user typed twice never ends; the user guide speaks of an idle time-out
   (`docs/docs/user-guide/terminal-access.md:186`).
3. `resource_editor_secret`: saving a label of a Secret changes its values. Its
   details hold them in plain text, the page writes them under `data:`, and the
   handler decodes them (`handlers/secret.go:225`, `:228`, `SecretEdit.tsx:81`,
   `resource_yaml.go:162`).

Two more disagreements have no run of their own. TLC shows each in seconds when
the named property is put among the invariants of the configuration.

* `CustomRoleForCustomOnly` (`UserRBAC.cfg`): a custom permission changed to dev
  or readonly keeps its role in the row, and the account is bound to that role
  and not to the type's (`permission_service.go:231`, `rbac_service.go:513`). The
  model and the comment say that the role is for custom permissions
  (`models/permission.go:51`, `rbac_service.go:478`).
* `RedeployReachesTicked` (`MCListPage.cfg`): the batch of the Deployment page
  looks for `namespace/name` among ticked keys that are `namespace-name-type`
  (`DeploymentTab.tsx:241`, `:716`). It finds none, sends nothing, reports success
  and unticks the rows, after asking whether to redeploy them
  (`locales/zh-CN/workload.json:37`).

## 5. Proofs

All theorems are about `Spec` (`SessionSpec` of `PodTerminal`; no fairness is
needed) and hold for all values of the constants that satisfy the ASSUMEs:
`NilIsNoRuntime`, `NilIsNoCluster`, `NilIsNoPod` (nil is no object),
`FinitelyManySessions` (counts are cardinalities), `RoomForTheDefaultSize`,
`RoomIsNat`, `EntersIsNat`, `BoundedCalls`, `KnownTypes`, `KnownAsks`,
`ProperNames`, `SomeCluster`, `KnownStart`, those of `ArthasSession`; for the
editor `BlankIsAValue`, `ProperVisits`, `ProperTexts` (texts and stored
workloads are documents), `BoundedEdits`, `KnownInputs` (an input is one the
form has, with a value it can hold), `NoneIsNoText`; for the list pages
`NamesAreNumbers`, `SystemIsNamed`, `TermsHitRows`, `PagesHaveRows`,
`NowhereIsNone`, `NowhereIsNoRequest`, `BoundedClicks`; for the edit pages
`NothingIsNoValue`, `DecodingChanges`, `RereadingIsReading` (a part is read back
as some part), `ProperInputs`, `Bounds`. TLC evaluates
each in a run. The type invariants of the six server components are proved and
no longer checked by runs. Six other theorems state properties no run checks,
because others cover the same code: `ClosedByOne`, `RegisteredRuns`,
`StopIsComplete`, `RecordsAtMostTyped`, `BindingsTraceable` and
`AtMostOneLiveRow`.

Each proof module follows one pattern: `Init => IInv`; for each conjunct of
`IInv` a lemma that `Next` preserves it, with one step per action; then the
theorems from `IInv` by temporal reasoning.

* **InformerManager** (`Invariance`). The properties support each other: a stop
  that closes a runtime must know that it holds the only claim to it
  (`OneCloser`), which needs that what is registered runs
  (`RegisteredIsRunning`), which needs that what is about to be closed is no
  longer registered. `SnapshotIsComplete` needs that `rt.synced` is only set on
  a full cache and that a request past its wait holds one. `StopIsComplete`
  adds that main.go stops the manager after the last request.
  `ManagerIsWatchSet` maps each step to a step of `WatchSet` or to none.
* **KubectlPod**. The count as a cardinality moves by one exactly when a
  connection enters or leaves the counted labels, for every branch.
  `EstablishedAreSpared` needs besides that the connections the pass covers are
  still counted (`CoveredIsCounted`).
* **PodTerminal**. `CommandsWithinEnters` is not inductive: a line end that is
  being typed is counted and not yet pending (`EntersAccountFor`).
  `ClosedRowIsFinal` and `ReplayIsComplete` rest on how far the handler is
  (`RowFollowsReader`), and the former on where each recorded command is: about
  to be stored, stored, or added to the row (`CommandsAccountFor`).
* **UserRBAC**. `InHand` says for each label of a call what it carries: the
  bindings of the row it works with have been asked for. Without overlap one
  call is active, and what it counted or loaded still holds when it writes
  (`NoOverlap`), provided the count did not fail (`Alone`); `OneLiveRow` and
  `DeletedStaysDeleted` follow. `BindingsFollowRows` and `GrantedAccountsWork`
  speak of quiet states and say nothing of the goroutine on the way there, so
  they need `Kept` (`KeptHolds`): the call at work has in hand the row as it was
  and as it is (`HandsAreRows`), or no old row if its read failed; the bindings
  are, step by step, a shrinking part of what the old row called for, nothing,
  and a growing part of what the new one calls for (`Halfway`,
  `BindingsFollow`); and where a batch deletion has left bindings behind, still
  none is missing unless the last goroutine gave up (`NoneMissing`, `behind`).
* **ArthasSession**. `RunsAreAsked` needs that each confirmation on its way is
  for a text the page showed; `SettledHasReport` needs where the report stands
  at each point (`ReportStands`). `PendingCanBeAnswered` is the longest: each
  action moves one question between two of channel, queue, answer, settled. That
  the question is about the very command (`PendingIsAsked`) needs of
  `CompleteInv` (below) that every question under way is about a command of the
  plan.
  `ReportsWaitForAnswers` adds `CompleteInv`: while no prompt has overtaken an
  answer, a prompt is read alone (`PromptComesAlone`), what is to do is part of
  the plan (`PlanIsFollowed`), no two of the questions and answers under way
  have one id (`AskedOnce`), so an answer settles its own command, and what the
  user has to answer is to do, pending or answered (`NothingIsLost`).
* **Access**. `GoneHoldNothing` needs what a deletion has removed at each of
  its labels (`UserDeletionClears`, `GroupDeletionClears`) and that no call is
  about to bring it back (`NothingForGone`); `DeletedUserIsRefused` follows from
  it label by label (`LateFindsNothing`). `NothingOverlooked` needs that what
  lasted is still in the tables (`LastingIsThere`) and is not of the kind a
  request has looked for and not found (`LookedFor`). `AnswersAreRight` is the
  longest proof. It needs that ids name rows (`IdsAreKeys`: a save touches one
  row), that a call that has written writes again only if it deletes the user
  (`WritersArePlaced`), and, for a request that has found no row of its own,
  that reading on gives an answer that was right at some moment, and goes on to
  while that deletion proceeds (`OwnPassed`, in `AnswerInv`).
* **WorkloadEditor**. `EditorKeepsRules` is a statement about two pure
  conversions (`NodeRoundTrip`, `AntiRoundTrip`, `NearRoundTrip`) lifted to the
  page: a row of the form stands for one expression of one term, and conjoining
  rows can only admit less, splitting anti-affinity terms can only exclude more,
  and a Pod affinity term of one expression stays one. Without a `nodeSelector`
  in the text there is none to lose, and one that another way put into the
  result only rules out more. `EditorTypeCorrect` needs that no text that is not
  YAML gets past the parser, and that every builder and parser stays within its
  fields. `EditorCheckIsCurrent` carries that a running dry run is about what
  the page shows until it changes.

  `EditorWritesInputs` rests on `EntryInv`: an input is still in the store as it
  was entered, the store has only fields that are copied, and an open dialog
  shows the text of the store. One lemma per kind of field says that its builder
  then writes it. `EditorKeepsSayable` and `EditorRoundTrips` are about parser and
  builder one after the other. Bottom up, there is a lemma for each piece (a
  command, a probe, a port, a container, a rule, a strategy, the steps of a
  canary) that it comes back when the form can say it, `SayableIsBuilt` for the
  document, and `TextIsSayable`: what a builder writes the form can say, unless
  `Unsettled`. On the page, every text is a document and the store has the form's
  shape (`DocInv`), and a form that was filled and not touched has the values of
  its text (`FillInv`). That is not enough for the second conversion, because
  `setFieldsValue` merges: rules and strategies in the store may hold more than
  the text they were filled from, at any depth. What the page wrote itself, it
  wrote from the same store, so the merge changes nothing that is written
  (`MergedSettings`, `RoutingStays`, `MergeFilledStays`, `RewrittenIsFilled`,
  `StableInv`). And reading a text spells durations and fills in operators, so
  that the text which comes back is the one whose values are spelled already
  (`SpelledIs`, `FormStepsAreSpelled`).

  Commands, canary steps and lists are sequences of any length. The induction over
  them is done with sets: the set of indices at which a statement fails has a
  least element (`SetInduction`, `DownInduction`, from the well-foundedness of <
  on Nat). So `CommandComesBack` and `StepsComeBack` need no induction rule with
  an operator as parameter. The form's list of steps (`FormSteps`) is a function
  defined from its own values further on; `StepsExist` proves first that there is one.
* **ListPage**. `PickInv` follows a key from the tick over the question to the
  operation and says where it was picked; `ReportInv` that what was counted is
  to do, done, lost or was not in the table; `CleanInv` that after a clean change
  every request and operation under way is for the present cluster. The three
  need each other's types only. `HitsAreShown` needs that a set of matching rows
  that is not empty has a first one in either order (`SomeRowIsFirst`), which
  follows from the strict subsets of a finite set being well-founded.
* **ResourceEditor**. All four properties of steps rest on `LandingIsAccepted`:
  the step in which a request changes the object is its own accepted write, of
  the object it has read, because a version is given once
  (`VersionsAreUnique`). `ReviewedIsWritten` follows the text from the editor by
  the pre-check to the dialog (`SaveIsReviewed`); `SavesStayWithTheirObject`
  needs that the identity in any text of a page is that of the object the page
  was filled from (`TextsTell`), and that what the handler creates has no version
  in its text: the API server accepts no other.
  The proof takes a step page by page: it does nothing to a page, or is its
  user's, or brings the answer to its saving (`PagesMove`).

Model-checked only: liveness (fairness and ENABLED are beyond the prover) and
with it the fairness of `WatchSet`. Every safety invariant that a run checks is
also proved.

What proving found wrong in earlier versions of the models, TLC's instances being
too small to show it: an emptied name or schedule was written as empty and not
as its default; `SayableDoc` allowed texts with probes, ports and strategies
that do not come back; two texts are not stable (above); the parser was said to
read the whole Pod into the form, of which it reads `PodFields`; and a
document of kind Job with a canary strategy fell under two cases of
`ResourceFields`, of which the code takes the first; and the merge of
`setFieldsValue` was said to replace what lies deeper than one object.

## 6. Not modelled

In modelled components: the listing of statistics of clusters and metrics; the
ServiceAccount setup of a kubectl Pod and progress texts; the asciinema format
and how a command is found in a line; WebSocket writes of several goroutines to
one connection; the permissions of groups inside the clusters (the code binds
users only) and `SyncPermissions`; creation of users and groups (a new one holds
nothing), namespaces and the listing of all of a user's permissions in `Access`;
status, password and LDAP; the cluster id in the key of a kubectl session as the
handler finds it in the address (`kubectl_pod_terminal.go:127`: `01` is counted
apart from the `1` the worker asks for); a database error where a cluster is
looked up, which handlers answer like its absence; terminals at shutdown
(`srv.Shutdown` does not wait for connections that became WebSockets); the REST
endpoints and container switching of Arthas and the message `command` no page
sends. In the interface: validation messages, layout and columns, export, the
dialogs for creation, the lists a form offers, the empty row a list of the form
has before it is filled in (some builders throw on one), and objects with a name
that YAML 1.1 reads as a boolean.

Hazards of components that are not modelled, seen while reading: a list handler
looks its lister up by id after the wait, when the runtime may be gone
(`handlers/cluster.go:597`); a Pod in its grace period still reports Running and
is reused (`kubectl_pod_terminal.go:246`, a behaviour of `KubectlPod` that no
promise of the code forbids); handler and goroutines write to one WebSocket
without a lock (`pod_terminal.go:495`); a streaming kubectl command is cancelled
when the function that started it returns, and its waiter clears whatever
command is current (`kubectl_terminal.go:306`, `:379`); a second connect message
replaces session, client and recorder of the first (`ssh_terminal.go:126`); a
drain that fails half way leaves the node cordoned (`k8s_client.go:939`).

Other components: section 1 and `PROJECT.json`. Of the some 59,000 lines of the
implementation most are rendering, layout, texts, table columns, charts, and
single REST calls with their types. They keep no state beyond one request, so a
model of them would have nothing to say that a reader of the code does not see;
the share of lines that the map names is small for that reason.

## 7. Plan

1. `KubectlTerminal`: the read loop, one streaming command with its three
   goroutines, interruption and the context. One session, two commands. To
   prove: at most one command belongs to the session.
2. `AIChat`: provider goroutine, bounded channel, ten rounds. `LogStream`: n
   streams, one channel, one reader. `Drain`: a list of Pods and options.
3. Composition: `KubectlPod` with `PodTerminal` in the place of "attached", so
   that the count is held exactly as long as the terminal's handler runs; and
   `UserRBAC` with the resolution of `Access`.
4. Proofs: that `GoneHoldNothing` and `BindingsMatchRows` go together when a
   user is deleted, once the two modules are composed.
5. `Access` with the contents of a user's row: status and password, so that a
   login that saves an old row over a new status is a behaviour.
