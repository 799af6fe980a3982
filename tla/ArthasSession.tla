------------------------------ MODULE ArthasSession ------------------------------
(***************************************************************************)
(* One Arthas diagnosis session: the WebSocket loop of                     *)
(* internal/handlers/arthas.go (HandleWebSocket, handleWSMessage) with its *)
(* diagnosis state, and the page ui/src/pages/pod/PodArthas.tsx that asks, *)
(* confirms and skips.  The two run concurrently over two ordered streams; *)
(* the plan comes from a language model or from the built-in skills, so    *)
(* any plan of Plans may answer any prompt.  h.pending, the plan store of  *)
(* the handler, is shared with the sessions of all other pages.            *)
(*                                                                         *)
(* A command is a value whose risk class is known; an id i stands for the  *)
(* text cmd-i.  Evidence is abstracted to what the handler asks of it: is  *)
(* there any, and has any come since the prompt.  The plan and report      *)
(* events change nothing in the page but its timeline and are not queued.  *)
(***************************************************************************)
EXTENDS Naturals, Sequences

CONSTANTS
  Commands,        (* command texts                                        *)
  LowRisk,         (* those isLowRiskArthasCommand accepts                 *)
  Blank,           (* the empty command, as a plan may contain it          *)
  Ids,             (* command ids cmd-1, cmd-2, ...                        *)
  Plans,           (* plans as BuildPlan parses them, id 0 where none is   *)
  AutoExecLowRisk, (* configuration: run low-risk commands unasked         *)
  MaxPrompts       (* bound on the prompts of a session                    *)

Item == [id : Ids, cmd : Commands \cup {Blank}]

ASSUME BlankIsRisky == Blank \notin LowRisk
ASSUME IdsAreNumbers == Ids \subseteq Nat \ {0}
ASSUME PlansAreSequences ==
  \A p \in Plans :
    /\ p \in Seq([id : Ids \cup {0}, cmd : Commands \cup {Blank}])
    /\ DOMAIN p \subseteq Ids

VARIABLES
  phase,     (* the handler: "read" a message, "run" a plan, or "closed"   *)
  plan,      (* diagnosisState.plan.Commands                               *)
  todo,      (* commands of the plan the prompt loop has not reached       *)
  pending,   (* diagnosisState.pending                                     *)
  evidence,  (* diagnosisState.evidence                                    *)
  reports,   (* reports sent for this plan                                 *)
  stored,    (* h.pending, Blank where there is no entry                   *)
  inbox,     (* page to handler                                            *)
  outbox,    (* handler to page                                            *)
  link,      (* the page has the connection "up" or has "left"             *)
  ui,        (* the page's diagnosing flag: "busy" or "free"               *)
  queue,     (* the page's pendingCommands                                 *)
  results,   (* whether the page's timeline holds a result: "none", "some" *)
  prompts,   (* prompts sent so far                                        *)
  ran,       (* history: commands handed to the container                  *)
  confirmed, (* history: command texts the user was shown and confirmed    *)
  answered,  (* history: items answered since this plan was made           *)
  failed,    (* history: ids whose confirmed run failed under this plan    *)
  crossed    (* history: "yes" once a prompt overtook an unfinished answer *)

agentVars == <<plan, todo, pending, evidence, reports>>
pageVars  == <<ui, queue, results, prompts>>
histVars  == <<ran, confirmed, answered, failed, crossed>>
vars == <<phase, agentVars, stored, inbox, outbox, link, pageVars, histVars>>

Prompt  == [type : {"prompt"}, evidence : {"none", "some"}]
Answer  == [type : {"confirm", "skip"}, item : Item]
Message == Prompt \cup Answer
Ask     == [type : {"ask"}, item : Item]
Event   == Ask \cup [type : {"result", "error", "done"}]

TypeOK ==
  /\ phase \in {"read", "run", "closed"}
  /\ plan \in Seq(Item)
  /\ todo \in Seq(Item)
  /\ pending \in SUBSET Item
  /\ evidence \in {"none", "given", "gathered"}
  /\ reports \in Nat
  /\ stored \in [Ids -> Commands \cup {Blank}]
  /\ inbox \in Seq(Message)
  /\ outbox \in Seq(Event)
  /\ link \in {"up", "left"}
  /\ ui \in {"busy", "free"}
  /\ queue \in Seq(Item)
  /\ results \in {"none", "some"}
  /\ prompts \in Nat
  /\ ran \in SUBSET (Commands \cup {Blank})
  /\ confirmed \in SUBSET (Commands \cup {Blank})
  /\ answered \in SUBSET Item
  /\ failed \in SUBSET Ids
  /\ crossed \in {"no", "yes"}

Init ==
  /\ phase = "read" /\ link = "up" /\ ui = "free"
  /\ plan = <<>> /\ todo = <<>> /\ queue = <<>>
  /\ inbox = <<>> /\ outbox = <<>>
  /\ pending = {} /\ evidence = "none" /\ results = "none"
  /\ reports = 0 /\ prompts = 0
  /\ stored \in [Ids -> {Blank}]
  /\ ran = {} /\ confirmed = {} /\ answered = {} /\ failed = {} /\ crossed = "no"

------------------------------------------------------------------------------
(***************************************************************************)
(* The command policy and the diagnosis state.                             *)
(***************************************************************************)

(* Classify: the handler runs a command unasked only if it is of low risk  *)
(* and the configuration allows that; everything else is put to the user.  *)
AutoExecutable(c) == AutoExecLowRisk /\ c \in LowRisk

(* A command without an id is named after its position.                    *)
ApplyPolicy(p) ==
  [i \in DOMAIN p |-> [id |-> IF p[i].id = 0 THEN i ELSE p[i].id, cmd |-> p[i].cmd]]

(* storePendingCommands: commands in order, the last of an id stays.       *)
Store(p) ==
  [d \in Ids |->
     LET last == {i \in DOMAIN p :
                    p[i].id = d /\ \A j \in DOMAIN p : p[j].id = d => j <= i}
     IN  IF last = {} THEN stored[d] ELSE p[CHOOSE i \in last : TRUE].cmd]

(* addPending: the map has one entry per id.                               *)
AddPending(it) == {p \in pending : p.id # it.id} \cup {it}

(* resolvePending: by id, else any entry with the same text; the set of    *)
(* maps that may remain, empty if there is nothing to resolve.             *)
Resolve(id, cmd) ==
  IF \E p \in pending : p.id = id
  THEN {{p \in pending : p.id # id}}
  ELSE {pending \ {p} : p \in {q \in pending : q.cmd = cmd}}

(* Fault:  any evidence is enough.                                         *)
ShouldBuildReportEarly(ev, pend) == ev # "none"

ShouldBuildReport(ev, pend) == ev # "none" /\ pend = {}

(* Fault:  a plan without commands is not done.                            *)
ShouldSendPromptDoneIfRun == pending = {} /\ evidence = "gathered"

ShouldSendPromptDone == plan = <<>> \/ (pending = {} /\ evidence = "gathered")

(* Fault:  the stored plan comes first.                                    *)
ChosenStored(it) == IF stored[it.id] # Blank THEN stored[it.id] ELSE it.cmd

(* Text for a confirmed command: the message's, or the stored plan's.      *)
Chosen(it) == IF it.cmd = Blank THEN stored[it.id] ELSE it.cmd

(* Writes to a page that has left are lost.                                *)
Send(events) == outbox' = IF link = "up" THEN outbox \o events ELSE outbox

Plain(t) == [type |-> t]

------------------------------------------------------------------------------
(***************************************************************************)
(* The handler: one goroutine, one message at a time.                      *)
(***************************************************************************)

Takes(t) ==
  /\ phase = "read" /\ inbox # <<>> /\ Head(inbox).type = t
  /\ inbox' = Tail(inbox)

ReadPrompt ==
  /\ Takes("prompt")
  /\ \E p \in Plans :
       /\ plan' = ApplyPolicy(p)
       /\ todo' = ApplyPolicy(p)
       /\ stored' = Store(ApplyPolicy(p))
  /\ phase' = "run"
  /\ pending' = {}
  /\ evidence' = IF Head(inbox).evidence = "some" THEN "given" ELSE "none"
  /\ reports' = 0
  /\ answered' = {}
  /\ failed' = {}
  /\ UNCHANGED <<outbox, link, pageVars, ran, confirmed, crossed>>

AskUser ==
  /\ phase = "run" /\ todo # <<>> /\ ~ AutoExecutable(Head(todo).cmd)
  /\ pending' = AddPending(Head(todo))
  /\ Send(<<[type |-> "ask", item |-> Head(todo)]>>)
  /\ todo' = Tail(todo)
  /\ UNCHANGED <<phase, plan, evidence, reports, stored, inbox, link, pageVars, histVars>>

(* executeWSCommand runs for at most the session timeout.                  *)
RunUnasked ==
  /\ phase = "run" /\ todo # <<>> /\ AutoExecutable(Head(todo).cmd)
  /\ ran' = ran \cup {Head(todo).cmd}
  /\ \/ evidence' = "gathered" /\ Send(<<Plain("result")>>)
     \/ evidence' = evidence /\ Send(<<Plain("error")>>)
  /\ todo' = Tail(todo)
  /\ UNCHANGED <<phase, plan, pending, reports, stored, inbox, link, pageVars,
                 confirmed, answered, failed, crossed>>

EndPrompt ==
  /\ phase = "run" /\ todo = <<>>
  /\ reports' = IF ShouldBuildReport(evidence, pending) THEN reports + 1 ELSE reports
  /\ Send(IF ShouldSendPromptDone THEN <<Plain("done")>> ELSE <<>>)
  /\ phase' = "read"
  /\ UNCHANGED <<plan, todo, pending, evidence, stored, inbox, link, pageVars, histVars>>

ConfirmedFails ==
  /\ Takes("confirm")
  /\ LET it == Head(inbox).item IN
       /\ ran' = ran \cup {Chosen(it)}
       /\ failed' = failed \cup {it.id}
       /\ answered' = answered \cup {it}
  /\ Send(<<Plain("error")>>)
  /\ UNCHANGED <<phase, agentVars, stored, link, pageVars, confirmed, crossed>>

(* A command that is not part of the diagnosis gets a report of its own.   *)
ConfirmedRuns ==
  /\ Takes("confirm")
  /\ LET it   == Head(inbox).item
         rest == Resolve(it.id, Chosen(it))
     IN  /\ ran' = ran \cup {Chosen(it)}
         /\ answered' = answered \cup {it}
         /\ \/ /\ rest = {}
               /\ Send(<<Plain("result"), Plain("done")>>)
               /\ UNCHANGED <<pending, evidence, reports>>
            \/ /\ pending' \in rest
               /\ evidence' = "gathered"
               /\ IF ShouldBuildReport("gathered", pending')
                  THEN /\ reports' = reports + 1
                       /\ Send(<<Plain("result"), Plain("done")>>)
                  ELSE /\ UNCHANGED reports
                       /\ Send(<<Plain("result")>>)
  /\ UNCHANGED <<phase, plan, todo, stored, link, pageVars, confirmed, failed, crossed>>

(* Fault:  a skip reports whether or not it settled anything.              *)
SkipReportsAnyway(rest) == ShouldBuildReport(evidence, pending')

(* A skip that settles the last pending command reports what is there.     *)
SkipReports(rest) == rest # {} /\ ShouldBuildReport(evidence, pending')

Skip ==
  /\ Takes("skip")
  /\ LET rest == Resolve(Head(inbox).item.id, Head(inbox).item.cmd) IN
       /\ pending' \in IF rest = {} THEN {pending} ELSE rest
       /\ reports' = IF SkipReports(rest) THEN reports + 1 ELSE reports
  /\ Send(IF pending' = {} THEN <<Plain("done")>> ELSE <<>>)
  /\ answered' = answered \cup {Head(inbox).item}
  /\ UNCHANGED <<phase, plan, todo, evidence, stored, link, pageVars,
                 ran, confirmed, failed, crossed>>

(* ReadJSON fails once everything the page had sent is read: the audit row *)
(* is closed and the handler returns.                                      *)
Close ==
  /\ phase = "read" /\ link = "left" /\ inbox = <<>>
  /\ phase' = "closed"
  /\ UNCHANGED <<agentVars, stored, inbox, outbox, link, pageVars, histVars>>

(* Some other session stores its plan under the same ids.                  *)
OtherPlan ==
  /\ phase # "closed"
  /\ \E p \in Plans : stored' = Store(ApplyPolicy(p))
  /\ UNCHANGED <<phase, agentVars, inbox, outbox, link, pageVars, histVars>>

------------------------------------------------------------------------------
(***************************************************************************)
(* The page.                                                               *)
(***************************************************************************)

(* canAsk: neither diagnosing nor anything left to confirm.                *)
CanAsk == link = "up" /\ ui = "free" /\ queue = <<>>

SendPrompt ==
  /\ CanAsk /\ prompts < MaxPrompts
  /\ prompts' = prompts + 1
  /\ ui' = "busy"
  /\ inbox' = Append(inbox, [type |-> "prompt", evidence |-> results])
  /\ crossed' = IF phase = "run" \/ inbox # <<>> \/ outbox # <<>> THEN "yes" ELSE crossed
  /\ UNCHANGED <<phase, agentVars, stored, outbox, link, queue, results,
                 ran, confirmed, answered, failed>>

(* Fault:  asks are merged by their text.                                  *)
SamePendingText(left, right) == left.cmd = right.cmd

(* isSamePendingCommand: every command of a plan has an id.                *)
SamePending(left, right) == left.id = right.id

ReceiveAsk ==
  /\ outbox # <<>> /\ Head(outbox).type = "ask"
  /\ outbox' = Tail(outbox)
  /\ ui' = "free"
  /\ queue' = LET it == Head(outbox).item IN
              IF \E i \in DOMAIN queue : SamePending(queue[i], it)
              THEN queue ELSE Append(queue, it)
  /\ UNCHANGED <<phase, agentVars, stored, inbox, link, results, prompts, histVars>>

(* A result with no output is no evidence for later prompts.               *)
ReceiveOther ==
  /\ outbox # <<>> /\ Head(outbox).type # "ask"
  /\ outbox' = Tail(outbox)
  /\ IF Head(outbox).type = "result"
     THEN results' \in {results, "some"} /\ UNCHANGED ui
     ELSE ui' = "free" /\ UNCHANGED results
  /\ UNCHANGED <<phase, agentVars, stored, inbox, link, queue, prompts, histVars>>

ConfirmPending ==
  /\ link = "up" /\ queue # <<>>
  /\ ui' = "busy"
  /\ inbox' = Append(inbox, [type |-> "confirm", item |-> Head(queue)])
  /\ confirmed' = confirmed \cup {Head(queue).cmd}
  /\ queue' = Tail(queue)
  /\ UNCHANGED <<phase, agentVars, stored, outbox, link, results, prompts,
                 ran, answered, failed, crossed>>

CancelPending ==
  /\ link = "up" /\ queue # <<>>
  /\ inbox' = Append(inbox, [type |-> "skip", item |-> Head(queue)])
  /\ queue' = Tail(queue)
  /\ UNCHANGED <<phase, agentVars, stored, outbox, link, ui, results, prompts, histVars>>

(* The page is closed or left: nothing more arrives there.                 *)
Leave ==
  /\ link = "up"
  /\ link' = "left"
  /\ outbox' = <<>>
  /\ UNCHANGED <<phase, agentVars, stored, inbox, pageVars, histVars>>

------------------------------------------------------------------------------
Handler == ReadPrompt \/ AskUser \/ RunUnasked \/ EndPrompt
             \/ ConfirmedFails \/ ConfirmedRuns \/ Skip \/ Close

Receive == ReceiveAsk \/ ReceiveOther

Next == Handler \/ OtherPlan \/ Receive
          \/ SendPrompt \/ ConfirmPending \/ CancelPending \/ Leave

Spec == Init /\ [][Next]_vars

(* The handler's waits are bounded by the session timeout and the streams  *)
(* deliver; the user need never answer.                                    *)
FairSpec == Spec /\ WF_vars(Handler) /\ WF_vars(Receive)

------------------------------------------------------------------------------
(***************************************************************************)
(* Properties.                                                             *)
(***************************************************************************)

(* What runs in the container is of low risk and allowed to run unasked,   *)
(* or was shown to the user and confirmed, whatever order prompts, asks    *)
(* and answers cross in.  A blank command is the exception: its text is    *)
(* looked up in the plan store all sessions share.                         *)
NothingRunsUnasked ==
  Blank \notin confirmed =>
    \A c \in ran : (AutoExecLowRisk /\ c \in LowRisk) \/ c \in confirmed

(* The questions on their way to the page or in front of the user, and     *)
(* those whose answers are on their way back.                              *)
Items(q)     == {q[i] : i \in DOMAIN q}
AskPlaces    == {i \in DOMAIN outbox : outbox[i].type = "ask"}
AnswerPlaces == {i \in DOMAIN inbox : inbox[i].type # "prompt"}
UnderWay     == {outbox[i].item : i \in AskPlaces} \cup Items(queue)
                  \cup {inbox[i].item : i \in AnswerPlaces}

DistinctIds == \A i, j \in DOMAIN plan : plan[i].id = plan[j].id => i = j

(* What the handler still waits for the page has not forgotten, however it *)
(* merges questions by their id: there is a question whose answer settles  *)
(* it, unless its confirmed run failed.  And that question shows this very *)
(* command, unless a prompt has overtaken an unfinished answer or the plan *)
(* gives two commands one id: then the page may have kept an older         *)
(* question and dropped this one.                                          *)
PendingIsAsked ==
  link = "up" =>
    \A p \in pending : p.id \notin failed =>
      /\ \E q \in UnderWay : q.id = p.id
      /\ crossed = "no" /\ DistinctIds => p \in UnderWay

(* Both sides are at rest and nothing is left for the user to answer.      *)
Quiet ==
  /\ phase = "read" /\ link = "up"
  /\ inbox = <<>> /\ outbox = <<>> /\ queue = <<>>

(* A diagnosis with evidence whose questions are all answered has had its  *)
(* report, and one report only, unless a confirmed command failed.         *)
SettledIsReported ==
  /\ reports <= 1
  /\ Quiet /\ evidence # "none" /\ failed = {} => reports = 1

(* What internal/handlers/arthas_test.go expects of a report: it waits     *)
(* while a command of the plan is pending, so every command that had to be *)
(* put to the user has been answered when it is sent.                      *)
ReportWaits ==
  reports > 0 =>
    \A i \in DOMAIN plan : AutoExecutable(plan[i].cmd) \/ plan[i] \in answered

(* The report waits for every answer, unless a prompt has overtaken an     *)
(* unfinished one (ids start at cmd-1 in every plan, so an answer to the   *)
(* old plan settles a command of the new one) or the plan itself gives two *)
(* commands one id.                                                        *)
ReportIsComplete == crossed = "no" /\ DistinctIds => ReportWaits

(* The page never waits for ever with nothing to answer: a turn ends, or   *)
(* asks the user, unless a confirmed command failed or the user left.      *)
TurnEnds ==
  (ui = "busy") ~> (ui = "free" \/ queue # <<>> \/ failed # {} \/ link = "left")

------------------------------------------------------------------------------
(***************************************************************************)
(* The inductive invariant of the proofs.                                  *)
(***************************************************************************)

(* A confirmation on its way is for a text the user was shown.             *)
ConfirmationsAreShown ==
  \A i \in DOMAIN inbox :
    inbox[i].type = "confirm" => inbox[i].item.cmd \in confirmed

(* An answer to a command that is pending can still come, or it has failed. *)
Asked(p) ==
  \/ \E i \in DOMAIN outbox : outbox[i].type = "ask" /\ outbox[i].item.id = p.id
  \/ \E i \in DOMAIN queue : queue[i].id = p.id
  \/ \E i \in DOMAIN inbox : inbox[i].type # "prompt" /\ inbox[i].item.id = p.id
  \/ p.id \in failed

PendingHasQuestion == link = "up" => \A p \in pending : Asked(p)

(* Where the report of a plan stands at each point of its diagnosis.       *)
ReportStands ==
  /\ phase = "run" => reports = 0
  /\ reports = 0 \/ (reports = 1 /\ pending = {})
  /\ phase # "run" /\ pending = {} /\ evidence # "none" => reports = 1

IInv ==
  TypeOK /\ ConfirmationsAreShown /\ NothingRunsUnasked /\ PendingHasQuestion /\ ReportStands
------------------------------------------------------------------------------
(***************************************************************************)
(* The inductive invariant behind ReportIsComplete, beside IInv.           *)
(***************************************************************************)

(* Nothing is under way when a prompt is read that has overtaken nothing.  *)
PromptComesAlone ==
  crossed = "no" /\ AnswerPlaces # DOMAIN inbox =>
    phase # "run" /\ Len(inbox) = 1 /\ outbox = <<>> /\ queue = <<>>

(* What is to be done or to be answered is part of the plan.               *)
PlanIsFollowed ==
  /\ phase # "run" => todo = <<>>
  /\ Items(todo) \subseteq Items(plan)
  /\ pending \subseteq Items(plan)

(* A command is asked about once, and answered once.                       *)
AskedOnce ==
  /\ \A i, j \in DOMAIN todo : todo[i].id = todo[j].id => i = j
  /\ \A i, j \in AskPlaces : outbox[i].item.id = outbox[j].item.id => i = j
  /\ \A i, j \in DOMAIN queue : queue[i].id = queue[j].id => i = j
  /\ \A i, j \in AnswerPlaces : inbox[i].item.id = inbox[j].item.id => i = j
  /\ \A i \in AskPlaces, j \in DOMAIN queue : outbox[i].item.id # queue[j].id
  /\ \A i \in AskPlaces, j \in AnswerPlaces : outbox[i].item.id # inbox[j].item.id
  /\ \A i \in DOMAIN queue, j \in AnswerPlaces : queue[i].id # inbox[j].item.id
  /\ \A p \in UnderWay, t \in Items(todo) : p.id # t.id

(* An answer settles the command it is about: that is still pending.  And  *)
(* none is lost that the user has to answer.                               *)
NothingIsLost ==
  /\ UnderWay \subseteq pending
  /\ \A i \in DOMAIN plan :
       AutoExecutable(plan[i].cmd) \/ plan[i] \in answered \cup pending \cup Items(todo)

CompleteInv ==
  /\ PromptComesAlone /\ PlanIsFollowed
  /\ crossed = "no" /\ DistinctIds => AskedOnce /\ NothingIsLost

==================================================================================
