-------------------------- MODULE ArthasSession_proofs --------------------------
(***************************************************************************)
(* A diagnosis session for any plans, command texts and number of prompts. *)
(* IInv of ArthasSession is inductive: NothingRunsUnasked needs that a     *)
(* confirmation on its way is for a text that was shown, the report that   *)
(* it is sent when pending runs empty and never before.  That the report   *)
(* waits for every answer needs CompleteInv, beside IInv: a command that   *)
(* the user has to answer is to do, pending or answered, and an answer is  *)
(* about one command only.                                                 *)
(***************************************************************************)
EXTENDS ArthasSession, TLAPS

(* Removing the first element of a sequence.                               *)
LEMMA TailFacts ==
  ASSUME NEW S, NEW s \in Seq(S), s # <<>>
  PROVE  /\ Head(s) \in S /\ Tail(s) \in Seq(S) /\ s[1] = Head(s)
         /\ 1 \in DOMAIN s
         /\ \A i \in DOMAIN Tail(s) : i + 1 \in DOMAIN s /\ Tail(s)[i] = s[i + 1]
         /\ \A i \in DOMAIN s : i # 1 => i - 1 \in DOMAIN Tail(s) /\ Tail(s)[i - 1] = s[i]
OBVIOUS

(* An element of a sequence is of its type.                                *)
LEMMA ElementOf ==
  ASSUME NEW S, NEW s \in Seq(S), NEW i \in DOMAIN s
  PROVE  s[i] \in S
OBVIOUS

(* Adding one element, or the events of one message, at the end.           *)
LEMMA AppendFacts ==
  ASSUME NEW S, NEW s \in Seq(S), NEW e \in S
  PROVE  /\ Append(s, e) \in Seq(S)
         /\ \A i \in DOMAIN s : i \in DOMAIN Append(s, e) /\ Append(s, e)[i] = s[i]
         /\ Len(s) + 1 \in DOMAIN Append(s, e) /\ Append(s, e)[Len(s) + 1] = e
         /\ \A i \in DOMAIN Append(s, e) :
              (i \in DOMAIN s /\ Append(s, e)[i] = s[i]) \/ Append(s, e)[i] = e
OBVIOUS

(* A concatenation holds both sequences, one after the other.              *)
LEMMA ConcatFacts ==
  ASSUME NEW S, NEW s \in Seq(S), NEW t \in Seq(S)
  PROVE  /\ s \o t \in Seq(S)
         /\ \A i \in DOMAIN s : i \in DOMAIN (s \o t) /\ (s \o t)[i] = s[i]
         /\ \A i \in DOMAIN t : Len(s) + i \in DOMAIN (s \o t) /\ (s \o t)[Len(s) + i] = t[i]
OBVIOUS

(* What is sent is well formed and nothing sent before is lost.            *)
LEMMA SendFacts ==
  ASSUME NEW es \in Seq(Event), Send(es), outbox \in Seq(Event)
  PROVE  /\ outbox' \in Seq(Event)
         /\ \A i \in DOMAIN outbox : i \in DOMAIN outbox' /\ outbox'[i] = outbox[i]
<1>1. CASE link = "up"
  BY <1>1, ConcatFacts DEF Send
<1>2. CASE link # "up"
  BY <1>2 DEF Send
<1> QED
  BY <1>1, <1>2

(* Events other than asks, and an ask, form sequences of events.           *)
LEMMA EventTypes ==
  /\ <<>> \in Seq(Event)
  /\ \A t \in {"result", "error", "done"} : <<Plain(t)>> \in Seq(Event)
  /\ <<Plain("result"), Plain("done")>> \in Seq(Event)
  /\ \A it \in Item : <<[type |-> "ask", item |-> it]>> \in Seq(Event)
BY DEF Event, Ask, Plain

(* Naming the commands of a plan gives a plan, and storing one a store.    *)
LEMMA PlanTypes ==
  ASSUME NEW p \in Plans, stored \in [Ids -> Commands \cup {Blank}]
  PROVE  /\ ApplyPolicy(p) \in Seq(Item)
         /\ Store(ApplyPolicy(p)) \in [Ids -> Commands \cup {Blank}]
<1>1. p \in Seq([id : Ids \cup {0}, cmd : Commands \cup {Blank}]) /\ DOMAIN p \subseteq Ids
  BY PlansAreSequences
<1>2. \A i \in DOMAIN p : [id |-> IF p[i].id = 0 THEN i ELSE p[i].id, cmd |-> p[i].cmd] \in Item
  <2> SUFFICES ASSUME NEW i \in DOMAIN p
               PROVE  [id |-> IF p[i].id = 0 THEN i ELSE p[i].id, cmd |-> p[i].cmd] \in Item
    OBVIOUS
  <2>1. p[i] \in [id : Ids \cup {0}, cmd : Commands \cup {Blank}] /\ i \in Ids
    BY <1>1, ElementOf
  <2>2. (IF p[i].id = 0 THEN i ELSE p[i].id) \in Ids /\ p[i].cmd \in Commands \cup {Blank}
    BY <2>1
  <2> QED
    BY <2>2 DEF Item
<1>3. DOMAIN p = 1 .. Len(p) /\ Len(p) \in Nat
  BY <1>1
<1>4. ApplyPolicy(p) \in [1 .. Len(p) -> Item]
  BY <1>2, <1>3 DEF ApplyPolicy
<1>5. ApplyPolicy(p) \in Seq(Item)
  BY <1>3, <1>4
<1>6. \A i \in DOMAIN ApplyPolicy(p) : ApplyPolicy(p)[i].cmd \in Commands \cup {Blank}
  <2>1. \A i \in DOMAIN ApplyPolicy(p) : ApplyPolicy(p)[i] \in Item
    BY <1>5
  <2> QED
    BY <2>1 DEF Item
<1>7. ASSUME NEW d \in Ids
      PROVE  Store(ApplyPolicy(p))[d] \in Commands \cup {Blank}
  <2> DEFINE q == ApplyPolicy(p)
             last == {i \in DOMAIN q :
                        q[i].id = d /\ \A j \in DOMAIN q : q[j].id = d => j <= i}
  <2>1. Store(q)[d] = IF last = {} THEN stored[d] ELSE q[CHOOSE i \in last : TRUE].cmd
    BY DEF Store
  <2>2. last # {} => (CHOOSE i \in last : TRUE) \in DOMAIN q
    OBVIOUS
  <2> HIDE DEF last, q
  <2>3. \A i \in DOMAIN q : q[i].cmd \in Commands \cup {Blank}
    BY <1>6 DEF q
  <2> QED
    BY <2>1, <2>2, <2>3 DEF q
<1> QED
  BY <1>5, <1>7 DEF Store

------------------------------------------------------------------------------
(* The initial states satisfy the inductive invariant.                     *)
LEMMA InitIInv == Init => IInv
<1> SUFFICES ASSUME Init PROVE IInv
  OBVIOUS
<1>1. TypeOK
  BY DEF Init, TypeOK
<1>2. ConfirmationsAreShown /\ NothingRunsUnasked /\ PendingHasQuestion /\ ReportStands
  BY DEF Init, ConfirmationsAreShown, NothingRunsUnasked, PendingHasQuestion, ReportStands
<1> QED
  BY <1>1, <1>2 DEF IInv

(* Taking a message keeps the rest of the inbox, and its item, if it has   *)
(* one, is an item.                                                        *)
LEMMA TakesFacts ==
  ASSUME NEW t \in {"prompt", "confirm", "skip"}, Takes(t), inbox \in Seq(Message)
  PROVE  /\ phase = "read" /\ inbox' \in Seq(Message)
         /\ Head(inbox) \in Message /\ Head(inbox).type = t
         /\ t # "prompt" => Head(inbox).item \in Item
         /\ 1 \in DOMAIN inbox /\ inbox[1] = Head(inbox)
         /\ \A i \in DOMAIN inbox' : i + 1 \in DOMAIN inbox /\ inbox'[i] = inbox[i + 1]
         /\ \A i \in DOMAIN inbox :
              i # 1 => i - 1 \in DOMAIN inbox' /\ inbox'[i - 1] = inbox[i]
<1>1. inbox # <<>> /\ inbox' = Tail(inbox) /\ Head(inbox).type = t /\ phase = "read"
  BY DEF Takes
<1>2. t # "prompt" => Head(inbox) \in Answer
  BY <1>1, TailFacts DEF Message, Prompt, Answer
<1> QED
  BY <1>1, <1>2, TailFacts DEF Answer

(* What may remain of pending after an answer.                             *)
LEMMA ResolveFacts ==
  ASSUME NEW id, NEW cmd, NEW rest \in Resolve(id, cmd)
  PROVE  /\ rest \subseteq pending /\ pending # {}
         /\ \A p \in rest : p.id # id
BY DEF Resolve

(* An id that resolves to nothing is not pending.                          *)
LEMMA UnresolvedFacts ==
  ASSUME NEW id, NEW cmd, Resolve(id, cmd) = {}
  PROVE  \A p \in pending : p.id # id
BY DEF Resolve

(* The command a confirmation chooses is one, or blank.                    *)
LEMMA ChosenType ==
  ASSUME TypeOK, NEW it \in Item
  PROVE  Chosen(it) \in Commands \cup {Blank}
BY DEF TypeOK, Item, Chosen

------------------------------------------------------------------------------
(***************************************************************************)
(* Types.                                                                  *)
(***************************************************************************)
LEMMA HandlerTypes == TypeOK /\ Handler => TypeOK'
<1> SUFFICES ASSUME TypeOK, Handler PROVE TypeOK'
  OBVIOUS
<1> USE EventTypes
<1>1. CASE ReadPrompt
  <2>1. PICK p \in Plans : plan' = ApplyPolicy(p) /\ todo' = ApplyPolicy(p)
                             /\ stored' = Store(ApplyPolicy(p))
    BY <1>1 DEF ReadPrompt
  <2>2. inbox' \in Seq(Message)
    BY <1>1, TakesFacts DEF ReadPrompt, TypeOK
  <2> QED
    BY <1>1, <2>1, <2>2, PlanTypes DEF ReadPrompt, TypeOK, pageVars
<1>2. CASE AskUser
  <2>1. Head(todo) \in Item /\ Tail(todo) \in Seq(Item)
    BY <1>2, TailFacts DEF AskUser, TypeOK
  <2>2. outbox' \in Seq(Event)
    BY <1>2, <2>1, SendFacts DEF AskUser, TypeOK
  <2>3. pending' \in SUBSET Item
    BY <1>2, <2>1 DEF AskUser, AddPending, TypeOK
  <2> QED
    BY <1>2, <2>1, <2>2, <2>3 DEF AskUser, TypeOK, pageVars, histVars
<1>3. CASE RunUnasked
  <2>1. Head(todo) \in Item /\ Tail(todo) \in Seq(Item)
    BY <1>3, TailFacts DEF RunUnasked, TypeOK
  <2>2. outbox' \in Seq(Event) /\ evidence' \in {"none", "given", "gathered"}
    BY <1>3, SendFacts DEF RunUnasked, TypeOK
  <2>3. ran' \in SUBSET (Commands \cup {Blank})
    BY <1>3, <2>1 DEF RunUnasked, TypeOK, Item
  <2> QED
    BY <1>3, <2>1, <2>2, <2>3 DEF RunUnasked, TypeOK, pageVars
<1>4. CASE EndPrompt
  <2>1. outbox' \in Seq(Event)
    <3>1. PICK es \in Seq(Event) : Send(es)
      BY <1>4 DEF EndPrompt
    <3> QED
      BY <3>1, SendFacts DEF TypeOK
  <2>2. reports' \in Nat
    BY <1>4 DEF EndPrompt, TypeOK
  <2> QED
    BY <1>4, <2>1, <2>2 DEF EndPrompt, TypeOK, pageVars, histVars
<1>5. CASE ConfirmedFails
  <2>1. Head(inbox).item \in Item /\ inbox' \in Seq(Message)
    BY <1>5, TakesFacts DEF ConfirmedFails, TypeOK
  <2>2. outbox' \in Seq(Event)
    BY <1>5, SendFacts DEF ConfirmedFails, TypeOK
  <2>3. ran' \in SUBSET (Commands \cup {Blank})
    BY <1>5, <2>1, ChosenType DEF ConfirmedFails, TypeOK
  <2>4. failed' \in SUBSET Ids /\ answered' \in SUBSET Item
    BY <1>5, <2>1 DEF ConfirmedFails, TypeOK, Item
  <2> QED
    BY <1>5, <2>1, <2>2, <2>3, <2>4 DEF ConfirmedFails, TypeOK, agentVars, pageVars
<1>6. CASE ConfirmedRuns
  <2>1. Head(inbox).item \in Item /\ inbox' \in Seq(Message)
    BY <1>6, TakesFacts DEF ConfirmedRuns, TypeOK
  <2>2. outbox' \in Seq(Event)
    <3>1. PICK es \in Seq(Event) : Send(es)
      BY <1>6 DEF ConfirmedRuns
    <3> QED
      BY <3>1, SendFacts DEF TypeOK
  <2>3. ran' \in SUBSET (Commands \cup {Blank}) /\ answered' \in SUBSET Item
    BY <1>6, <2>1, ChosenType DEF ConfirmedRuns, TypeOK
  <2>4. /\ pending' \in SUBSET Item /\ reports' \in Nat
        /\ evidence' \in {"none", "given", "gathered"}
    BY <1>6, ResolveFacts DEF ConfirmedRuns, TypeOK
  <2> QED
    BY <1>6, <2>1, <2>2, <2>3, <2>4 DEF ConfirmedRuns, TypeOK, pageVars
<1>7. CASE Skip
  <2>1. Head(inbox).item \in Item /\ inbox' \in Seq(Message)
    BY <1>7, TakesFacts DEF Skip, TypeOK
  <2>2. outbox' \in Seq(Event)
    <3>1. PICK es \in Seq(Event) : Send(es)
      BY <1>7 DEF Skip
    <3> QED
      BY <3>1, SendFacts DEF TypeOK
  <2>3. pending' \in SUBSET Item /\ reports' \in Nat /\ answered' \in SUBSET Item
    BY <1>7, <2>1, ResolveFacts DEF Skip, TypeOK
  <2> QED
    BY <1>7, <2>1, <2>2, <2>3 DEF Skip, TypeOK, pageVars
<1>8. CASE Close
  BY <1>8 DEF Close, TypeOK, agentVars, pageVars, histVars
<1> QED
  BY <1>1, <1>2, <1>3, <1>4, <1>5, <1>6, <1>7, <1>8 DEF Handler

Page == Receive \/ SendPrompt \/ ConfirmPending \/ CancelPending \/ Leave

(* Steps of the page and of other sessions keep the types.                 *)
LEMMA PageTypes == TypeOK /\ (Page \/ OtherPlan) => TypeOK'
<1> SUFFICES ASSUME TypeOK, Page \/ OtherPlan PROVE TypeOK'
  OBVIOUS
<1>1. CASE OtherPlan
  <2>1. stored' \in [Ids -> Commands \cup {Blank}]
    BY <1>1, PlanTypes DEF OtherPlan, TypeOK
  <2> QED
    BY <1>1, <2>1 DEF OtherPlan, TypeOK, agentVars, pageVars, histVars
<1>2. CASE ReceiveAsk
  <2>1. Head(outbox) \in Event /\ outbox' \in Seq(Event)
    BY <1>2, TailFacts DEF ReceiveAsk, TypeOK
  <2>2. Head(outbox).item \in Item
    BY <1>2, <2>1 DEF ReceiveAsk, Event, Ask
  <2>3. queue' \in Seq(Item)
    BY <1>2, <2>2, AppendFacts DEF ReceiveAsk, TypeOK
  <2> QED
    BY <1>2, <2>1, <2>3 DEF ReceiveAsk, TypeOK, agentVars, histVars
<1>3. CASE ReceiveOther
  <2>1. outbox' \in Seq(Event)
    BY <1>3, TailFacts DEF ReceiveOther, TypeOK
  <2> QED
    BY <1>3, <2>1 DEF ReceiveOther, TypeOK, agentVars, histVars
<1>4. CASE SendPrompt
  <2>1. [type |-> "prompt", evidence |-> results] \in Message
    BY DEF TypeOK, Message, Prompt
  <2>2. inbox' \in Seq(Message)
    BY <1>4, <2>1, AppendFacts DEF SendPrompt, TypeOK
  <2>3. crossed' \in {"no", "yes"} /\ prompts' \in Nat
    BY <1>4 DEF SendPrompt, TypeOK
  <2> QED
    BY <1>4, <2>2, <2>3 DEF SendPrompt, TypeOK, agentVars
<1>5. CASE ConfirmPending
  <2>1. Head(queue) \in Item /\ Tail(queue) \in Seq(Item)
    BY <1>5, TailFacts DEF ConfirmPending, TypeOK
  <2>2. [type |-> "confirm", item |-> Head(queue)] \in Message
    BY <2>1 DEF Message, Answer
  <2>3. inbox' \in Seq(Message) /\ confirmed' \in SUBSET (Commands \cup {Blank})
    BY <1>5, <2>1, <2>2, AppendFacts DEF ConfirmPending, TypeOK, Item
  <2> QED
    BY <1>5, <2>1, <2>3 DEF ConfirmPending, TypeOK, agentVars
<1>6. CASE CancelPending
  <2>1. Head(queue) \in Item /\ Tail(queue) \in Seq(Item)
    BY <1>6, TailFacts DEF CancelPending, TypeOK
  <2>2. [type |-> "skip", item |-> Head(queue)] \in Message
    BY <2>1 DEF Message, Answer
  <2>3. inbox' \in Seq(Message)
    BY <1>6, <2>2, AppendFacts DEF CancelPending, TypeOK
  <2> QED
    BY <1>6, <2>1, <2>3 DEF CancelPending, TypeOK, agentVars, histVars
<1>7. CASE Leave
  BY <1>7 DEF Leave, TypeOK, agentVars, pageVars, histVars
<1> QED
  BY <1>1, <1>2, <1>3, <1>4, <1>5, <1>6, <1>7 DEF Page, Receive

(* Every step keeps the types.                                             *)
LEMMA NextTypes == TypeOK /\ [Next]_vars => TypeOK'
<1>1. ASSUME TypeOK, UNCHANGED vars PROVE TypeOK'
  BY <1>1 DEF TypeOK, vars, agentVars, pageVars, histVars
<1> QED
  BY <1>1, HandlerTypes, PageTypes DEF Next, Page

(* Variables keep their types for any plans and number of prompts.         *)
THEOREM TypeCorrect == Spec => []TypeOK
<1>1. Init => TypeOK
  BY InitIInv DEF IInv
<1> QED
  BY <1>1, NextTypes, PTL DEF Spec

------------------------------------------------------------------------------
(***************************************************************************)
(* What runs was allowed or confirmed.                                     *)
(***************************************************************************)
LEMMA NextShown ==
  TypeOK /\ ConfirmationsAreShown /\ [Next]_vars => ConfirmationsAreShown'
<1> SUFFICES ASSUME TypeOK, ConfirmationsAreShown, [Next]_vars
             PROVE  ConfirmationsAreShown'
  OBVIOUS
<1>1. CASE \E t \in {"prompt", "confirm", "skip"} : Takes(t) /\ UNCHANGED confirmed
  BY <1>1, TakesFacts DEF ConfirmationsAreShown, TypeOK
<1>2. CASE UNCHANGED <<inbox, confirmed>>
  BY <1>2 DEF ConfirmationsAreShown
<1>3. CASE SendPrompt
  <2>1. [type |-> "prompt", evidence |-> results] \in Message
    BY DEF TypeOK, Message, Prompt
  <2>2. /\ inbox' = Append(inbox, [type |-> "prompt", evidence |-> results])
        /\ confirmed' = confirmed
    BY <1>3 DEF SendPrompt
  <2> QED
    BY <2>1, <2>2, AppendFacts DEF ConfirmationsAreShown, TypeOK
<1>4. CASE CancelPending
  <2>1. [type |-> "skip", item |-> Head(queue)] \in Message
    BY <1>4, TailFacts DEF CancelPending, TypeOK, Message, Answer
  <2>2. /\ inbox' = Append(inbox, [type |-> "skip", item |-> Head(queue)])
        /\ confirmed' = confirmed
    BY <1>4 DEF CancelPending, histVars
  <2> QED
    BY <2>1, <2>2, AppendFacts DEF ConfirmationsAreShown, TypeOK
<1>5. CASE ConfirmPending
  <2> DEFINE m == [type |-> "confirm", item |-> Head(queue)]
  <2>1. m \in Message
    BY <1>5, TailFacts DEF ConfirmPending, TypeOK, Message, Answer
  <2>2. /\ inbox' = Append(inbox, m)
        /\ confirmed' = confirmed \cup {m.item.cmd}
    BY <1>5 DEF ConfirmPending
  <2> HIDE DEF m
  <2> QED
    BY <2>1, <2>2, AppendFacts DEF ConfirmationsAreShown, TypeOK
<1> QED
  BY <1>1, <1>2, <1>3, <1>4, <1>5
  DEF Next, Handler, Receive, vars, histVars, ReadPrompt, AskUser, RunUnasked, EndPrompt,
      ConfirmedFails, ConfirmedRuns, Skip, Close, OtherPlan, ReceiveAsk, ReceiveOther, Leave

(* A confirmed command is shown, or blank.                                 *)
LEMMA ChosenIsShown ==
  ASSUME TypeOK, ConfirmationsAreShown, Takes("confirm"), Blank \notin confirmed
  PROVE  Chosen(Head(inbox).item) \in confirmed
<1>1. Head(inbox).item.cmd \in confirmed
  BY TakesFacts DEF ConfirmationsAreShown, TypeOK
<1> QED
  BY <1>1 DEF Chosen

(* Every step runs only what was allowed, confirmed or excused.            *)
LEMMA NextAsked ==
  TypeOK /\ ConfirmationsAreShown /\ NothingRunsUnasked /\ [Next]_vars
    => NothingRunsUnasked'
<1> SUFFICES ASSUME TypeOK, ConfirmationsAreShown, NothingRunsUnasked, [Next]_vars
             PROVE  NothingRunsUnasked'
  OBVIOUS
<1> DEFINE Allowed(c) == AutoExecLowRisk /\ c \in LowRisk
<1>0. \A c : AutoExecutable(c) => Allowed(c)
  BY DEF AutoExecutable
<1>1. NothingRunsUnasked <=> (Blank \notin confirmed => \A c \in ran : Allowed(c) \/ c \in confirmed)
  BY DEF NothingRunsUnasked
<1>2. NothingRunsUnasked' <=> (Blank \notin confirmed' => \A c \in ran' : Allowed(c) \/ c \in confirmed')
  BY DEF NothingRunsUnasked
<1> HIDE DEF Allowed
<1>3. CASE RunUnasked
  BY <1>0, <1>1, <1>2, <1>3 DEF RunUnasked
<1>4. CASE ConfirmedFails \/ ConfirmedRuns
  <2>1. Takes("confirm") /\ ran' = ran \cup {Chosen(Head(inbox).item)} /\ confirmed' = confirmed
    BY <1>4 DEF ConfirmedFails, ConfirmedRuns
  <2> QED
    BY <2>1, <1>1, <1>2, ChosenIsShown
<1>5. CASE ran' = ran /\ confirmed \subseteq confirmed'
  BY <1>5, <1>1, <1>2
<1> QED
  BY <1>3, <1>4, <1>5
  DEF Next, Handler, Receive, vars, histVars, ReadPrompt, AskUser, EndPrompt, Skip, Close,
      OtherPlan, ReceiveAsk, ReceiveOther, SendPrompt, ConfirmPending, CancelPending, Leave

------------------------------------------------------------------------------
(***************************************************************************)
(* Nothing pending is forgotten.                                           *)
(***************************************************************************)

(* An entry stays asked when no channel loses anything.                    *)
LEMMA StaysAsked ==
  ASSUME NEW p, Asked(p),
         \A i \in DOMAIN outbox : i \in DOMAIN outbox' /\ outbox'[i] = outbox[i],
         \A i \in DOMAIN inbox : i \in DOMAIN inbox' /\ inbox'[i] = inbox[i],
         queue' = queue, failed \subseteq failed'
  PROVE  Asked(p)'
BY DEF Asked

(* An answer read concerns one id; the other entries stay asked.           *)
LEMMA StaysAskedByOthers ==
  ASSUME TypeOK, NEW t \in {"confirm", "skip"}, Takes(t), NEW p, Asked(p),
         p.id # Head(inbox).item.id,
         \A i \in DOMAIN outbox : i \in DOMAIN outbox' /\ outbox'[i] = outbox[i],
         queue' = queue, failed \subseteq failed'
  PROVE  Asked(p)'
<1>1. CASE \E i \in DOMAIN inbox : inbox[i].type # "prompt" /\ inbox[i].item.id = p.id
  <2>1. PICK i \in DOMAIN inbox : inbox[i].type # "prompt" /\ inbox[i].item.id = p.id
    BY <1>1
  <2>2. i # 1
    BY <2>1, TakesFacts DEF TypeOK
  <2>3. i - 1 \in DOMAIN inbox' /\ inbox'[i - 1] = inbox[i]
    BY <2>2, TakesFacts DEF TypeOK
  <2> QED
    BY <2>1, <2>3 DEF Asked
<1>2. CASE ~ \E i \in DOMAIN inbox : inbox[i].type # "prompt" /\ inbox[i].item.id = p.id
  BY <1>2 DEF Asked
<1> QED
  BY <1>1, <1>2

(* Every step keeps each pending command asked about.                      *)
LEMMA NextPendingAsked == TypeOK /\ PendingHasQuestion /\ [Next]_vars => PendingHasQuestion'
<1> SUFFICES ASSUME TypeOK, PendingHasQuestion, [Next]_vars, link' = "up", NEW p \in pending'
             PROVE  Asked(p)'
  BY DEF PendingHasQuestion
<1>0. link = "up" /\ \A q \in pending : Asked(q)
  <2>1. link = "up"
    BY DEF Next, Handler, Receive, vars, ReadPrompt, AskUser, RunUnasked, EndPrompt,
           ConfirmedFails, ConfirmedRuns, Skip, Close, OtherPlan, ReceiveAsk, ReceiveOther,
           SendPrompt, ConfirmPending, CancelPending, Leave
  <2> QED
    BY <2>1 DEF PendingHasQuestion
<1> USE EventTypes
<1>1. CASE ReadPrompt
  BY <1>1 DEF ReadPrompt
<1>2. CASE AskUser
  <2> DEFINE e == [type |-> "ask", item |-> Head(todo)]
  <2>1. <<e>> \in Seq(Event) /\ e \in Event /\ Send(<<e>>) /\ pending' = AddPending(Head(todo))
    BY <1>2, TailFacts DEF AskUser, TypeOK, Event, Ask
  <2>2. UNCHANGED <<queue, inbox, failed>>
    BY <1>2 DEF AskUser, pageVars, histVars
  <2>3. CASE p \in pending
    BY <2>1, <2>2, <2>3, <1>0, SendFacts, StaysAsked DEF TypeOK
  <2>4. CASE p = Head(todo)
    <3>1. outbox' = outbox \o <<e>>
      BY <2>1, <1>0 DEF Send
    <3>2. Len(outbox) + 1 \in DOMAIN outbox' /\ outbox'[Len(outbox) + 1] = e
      BY <3>1, <2>1 DEF TypeOK
    <3> QED
      BY <3>2, <2>4 DEF Asked
  <2> QED
    BY <2>1, <2>3, <2>4 DEF AddPending
<1>3. CASE RunUnasked
  <2>1. PICK es \in Seq(Event) : Send(es)
    BY <1>3 DEF RunUnasked
  <2>2. UNCHANGED <<queue, inbox, failed, pending>>
    BY <1>3 DEF RunUnasked, pageVars
  <2> QED
    BY <2>1, <2>2, <1>0, SendFacts, StaysAsked DEF TypeOK
<1>4. CASE EndPrompt
  <2>1. PICK es \in Seq(Event) : Send(es)
    BY <1>4 DEF EndPrompt
  <2>2. UNCHANGED <<queue, inbox, failed, pending>>
    BY <1>4 DEF EndPrompt, pageVars, histVars
  <2> QED
    BY <2>1, <2>2, <1>0, SendFacts, StaysAsked DEF TypeOK
<1>5. CASE ConfirmedFails
  <2>1. /\ Takes("confirm") /\ Send(<<Plain("error")>>)
        /\ failed' = failed \cup {Head(inbox).item.id}
        /\ UNCHANGED <<queue, pending>>
    BY <1>5 DEF ConfirmedFails, agentVars, pageVars
  <2>2. CASE p.id = Head(inbox).item.id
    BY <2>1, <2>2 DEF Asked
  <2>3. CASE p.id # Head(inbox).item.id
    BY <2>1, <2>3, <1>0, SendFacts, StaysAskedByOthers DEF TypeOK
  <2> QED
    BY <2>2, <2>3
<1>6. CASE ConfirmedRuns
  <2>1. PICK es \in Seq(Event) : Send(es)
    BY <1>6 DEF ConfirmedRuns
  <2>2. Takes("confirm") /\ UNCHANGED <<queue, failed>>
    BY <1>6 DEF ConfirmedRuns, pageVars
  <2>3. p \in pending /\ p.id # Head(inbox).item.id
    BY <1>6, ResolveFacts, UnresolvedFacts DEF ConfirmedRuns
  <2> QED
    BY <2>1, <2>2, <2>3, <1>0, SendFacts, StaysAskedByOthers DEF TypeOK
<1>7. CASE Skip
  <2>1. PICK es \in Seq(Event) : Send(es)
    BY <1>7 DEF Skip
  <2>2. Takes("skip") /\ UNCHANGED <<queue, failed>>
    BY <1>7 DEF Skip, pageVars
  <2>3. p \in pending /\ p.id # Head(inbox).item.id
    BY <1>7, ResolveFacts, UnresolvedFacts DEF Skip
  <2> QED
    BY <2>1, <2>2, <2>3, <1>0, SendFacts, StaysAskedByOthers DEF TypeOK
<1>8. CASE Close \/ OtherPlan
  <2>1. UNCHANGED <<outbox, queue, inbox, failed, pending>>
    BY <1>8 DEF Close, OtherPlan, agentVars, pageVars, histVars
  <2> QED
    BY <2>1, <1>0, StaysAsked
<1>9. CASE ReceiveAsk
  <2> DEFINE it == Head(outbox).item
  <2>1. /\ outbox # <<>> /\ outbox' = Tail(outbox) /\ UNCHANGED <<inbox, failed, pending>>
        /\ queue' = IF \E i \in DOMAIN queue : SamePending(queue[i], it)
                    THEN queue ELSE Append(queue, it)
    BY <1>9 DEF ReceiveAsk, agentVars, histVars
  <2>2. it \in Item
    BY <1>9, TailFacts DEF ReceiveAsk, Event, Ask, TypeOK
  <2>3. \A i \in DOMAIN queue : i \in DOMAIN queue' /\ queue'[i] = queue[i]
    BY <2>1, <2>2, AppendFacts DEF TypeOK
  <2>4. \E i \in DOMAIN queue' : queue'[i].id = it.id
    <3>1. CASE \E i \in DOMAIN queue : SamePending(queue[i], it)
      BY <3>1, <2>3 DEF SamePending
    <3>2. CASE ~ \E i \in DOMAIN queue : SamePending(queue[i], it)
      <4>1. queue' = Append(queue, it) /\ queue \in Seq(Item)
        BY <3>2, <2>1 DEF TypeOK
      <4>2. Len(queue) + 1 \in DOMAIN queue' /\ queue'[Len(queue) + 1] = it
        BY <4>1, <2>2, AppendFacts
      <4> QED
        BY <4>2
    <3> QED
      BY <3>1, <3>2
  <2>5. ASSUME NEW i \in DOMAIN outbox, outbox[i].type = "ask", outbox[i].item.id = p.id
        PROVE  Asked(p)'
    <3>1. CASE i = 1
      <4>1. outbox[1].item = it
        BY <2>1, TailFacts DEF TypeOK
      <4>2. \E k \in DOMAIN queue' : queue'[k].id = p.id
        BY <4>1, <3>1, <2>4, <2>5
      <4> QED
        BY <4>2 DEF Asked
    <3>2. CASE i # 1
      <4>1. i - 1 \in DOMAIN outbox' /\ outbox'[i - 1] = outbox[i]
        BY <3>2, <2>1, TailFacts DEF TypeOK
      <4> QED
        BY <4>1, <2>5 DEF Asked
    <3> QED
      BY <3>1, <3>2
  <2>6. Asked(p)
    BY <2>1, <1>0
  <2> HIDE DEF it
  <2> QED
    BY <2>1, <2>3, <2>5, <2>6 DEF Asked
<1>10. CASE ReceiveOther
  <2>1. /\ outbox # <<>> /\ outbox' = Tail(outbox) /\ Head(outbox).type # "ask"
        /\ UNCHANGED <<inbox, failed, pending, queue>>
    BY <1>10 DEF ReceiveOther, agentVars, histVars
  <2>2. ASSUME NEW i \in DOMAIN outbox, outbox[i].type = "ask", outbox[i].item.id = p.id
        PROVE  Asked(p)'
    <3>1. i # 1
      BY <2>1, <2>2, TailFacts DEF TypeOK
    <3>2. i - 1 \in DOMAIN outbox' /\ outbox'[i - 1] = outbox[i]
      BY <3>1, <2>1, TailFacts DEF TypeOK
    <3> QED
      BY <3>2, <2>2 DEF Asked
  <2>3. Asked(p)
    BY <2>1, <1>0
  <2> QED
    BY <2>1, <2>2, <2>3 DEF Asked
<1>11. CASE SendPrompt
  <2>1. /\ inbox' = Append(inbox, [type |-> "prompt", evidence |-> results])
        /\ UNCHANGED <<outbox, queue, failed, pending>>
    BY <1>11 DEF SendPrompt, agentVars
  <2>2. [type |-> "prompt", evidence |-> results] \in Message
    BY DEF TypeOK, Message, Prompt
  <2> QED
    BY <2>1, <2>2, <1>0, AppendFacts, StaysAsked DEF TypeOK
<1>12. CASE ConfirmPending \/ CancelPending
  <2>0. PICK t \in {"confirm", "skip"} : inbox' = Append(inbox, [type |-> t, item |-> Head(queue)])
    BY <1>12 DEF ConfirmPending, CancelPending
  <2> DEFINE m == [type |-> t, item |-> Head(queue)]
  <2>1. /\ queue # <<>> /\ queue' = Tail(queue) /\ inbox' = Append(inbox, m)
        /\ UNCHANGED <<outbox, failed, pending>>
    BY <1>12, <2>0 DEF ConfirmPending, CancelPending, agentVars, histVars
  <2>2. m \in Message /\ m.type # "prompt" /\ m.item = queue[1]
    BY <2>1, TailFacts DEF TypeOK, Message, Answer
  <2>3. /\ \A i \in DOMAIN inbox : i \in DOMAIN inbox' /\ inbox'[i] = inbox[i]
        /\ \E i \in DOMAIN inbox' : inbox'[i] = m
    BY <2>1, <2>2, AppendFacts DEF TypeOK
  <2>4. ASSUME NEW i \in DOMAIN queue, queue[i].id = p.id
        PROVE  Asked(p)'
    <3>1. CASE i = 1
      BY <3>1, <2>2, <2>3, <2>4 DEF Asked
    <3>2. CASE i # 1
      <4>1. i - 1 \in DOMAIN queue' /\ queue'[i - 1] = queue[i]
        BY <3>2, <2>1, TailFacts DEF TypeOK
      <4> QED
        BY <4>1, <2>4 DEF Asked
    <3> QED
      BY <3>1, <3>2
  <2>5. Asked(p)
    BY <2>1, <1>0
  <2> HIDE DEF m
  <2> QED
    BY <2>1, <2>3, <2>4, <2>5 DEF Asked
<1>13. CASE UNCHANGED vars
  <2>1. UNCHANGED <<outbox, queue, inbox, failed, pending>>
    BY <1>13 DEF vars, agentVars, pageVars, histVars
  <2> QED
    BY <2>1, <1>0, StaysAsked
<1> QED
  <2>1. ~ Leave
    BY DEF Leave
  <2> QED
    BY <2>1, <1>1, <1>2, <1>3, <1>4, <1>5, <1>6, <1>7, <1>8, <1>9, <1>10, <1>11, <1>12, <1>13
    DEF Next, Handler, Receive

------------------------------------------------------------------------------
(***************************************************************************)
(* The report of a plan comes once, when it is due.                        *)
(***************************************************************************)
LEMMA NextReportStands == TypeOK /\ ReportStands /\ [Next]_vars => ReportStands'
<1> SUFFICES ASSUME TypeOK, ReportStands, [Next]_vars PROVE ReportStands'
  OBVIOUS
<1>1. CASE ReadPrompt
  BY <1>1 DEF ReadPrompt, ReportStands
<1>2. CASE AskUser
  BY <1>2 DEF AskUser, ReportStands
<1>3. CASE RunUnasked
  BY <1>3 DEF RunUnasked, ReportStands
<1>4. CASE EndPrompt
  BY <1>4 DEF EndPrompt, ReportStands, ShouldBuildReport
<1>5. CASE ConfirmedFails
  BY <1>5 DEF ConfirmedFails, ReportStands, agentVars
<1>6. CASE ConfirmedRuns
  <2>1. phase = "read" /\ phase' = phase
    BY <1>6 DEF ConfirmedRuns, Takes
  <2>2. CASE UNCHANGED <<pending, evidence, reports>>
    BY <2>1, <2>2 DEF ReportStands
  <2>3. CASE /\ pending # {}
             /\ \/ reports' = reports + 1 /\ pending' = {}
                \/ reports' = reports /\ pending' # {}
    BY <2>1, <2>3 DEF ReportStands
  <2>4. \/ UNCHANGED <<pending, evidence, reports>>
        \/ /\ pending # {}
           /\ \/ reports' = reports + 1 /\ pending' = {}
              \/ reports' = reports /\ pending' # {}
    BY <1>6, ResolveFacts DEF ConfirmedRuns, ShouldBuildReport
  <2> QED
    BY <2>2, <2>3, <2>4
<1>7. CASE Skip
  <2> DEFINE rest == Resolve(Head(inbox).item.id, Head(inbox).item.cmd)
  <2>1. /\ phase = "read" /\ UNCHANGED <<phase, evidence>>
        /\ pending' \in IF rest = {} THEN {pending} ELSE rest
        /\ reports' = IF rest # {} /\ evidence # "none" /\ pending' = {}
                      THEN reports + 1 ELSE reports
    BY <1>7 DEF Skip, Takes, SkipReports, ShouldBuildReport
  <2>2. rest # {} => pending # {}
    BY ResolveFacts
  <2> HIDE DEF rest
  <2>3. CASE rest = {}
    BY <2>1, <2>3 DEF ReportStands
  <2>4. CASE rest # {}
    BY <2>1, <2>2, <2>4 DEF ReportStands
  <2> QED
    BY <2>3, <2>4
<1>8. CASE Close
  BY <1>8 DEF Close, ReportStands, agentVars
<1>9. CASE OtherPlan \/ Page \/ UNCHANGED vars
  <2>1. UNCHANGED <<phase, pending, evidence, reports>>
    BY <1>9 DEF OtherPlan, Page, Receive, ReceiveAsk, ReceiveOther, SendPrompt, ConfirmPending,
                CancelPending, Leave, vars, agentVars
  <2> QED
    BY <2>1 DEF ReportStands
<1> QED
  BY <1>1, <1>2, <1>3, <1>4, <1>5, <1>6, <1>7, <1>8, <1>9 DEF Next, Handler, Page

------------------------------------------------------------------------------
(* The conjuncts are inductive together.                                   *)
THEOREM InductiveInvariant == Spec => []IInv
<1>1. IInv /\ [Next]_vars => IInv'
  BY NextTypes, NextShown, NextAsked, NextPendingAsked, NextReportStands DEF IInv
<1> QED
  BY <1>1, InitIInv, PTL DEF Spec

(* Whatever prompts, asks and answers cross, what runs in the container    *)
(* was allowed to run unasked or was shown to the user and confirmed.      *)
THEOREM RunsAreAsked == Spec => []NothingRunsUnasked
<1>1. IInv => NothingRunsUnasked
  BY DEF IInv
<1> QED
  BY <1>1, InductiveInvariant, PTL

(* A diagnosis at rest with evidence and all its questions answered has    *)
(* had exactly one report, unless a confirmed command failed.              *)
THEOREM SettledHasReport == Spec => []SettledIsReported
<1>1. IInv => SettledIsReported
  <2> SUFFICES ASSUME IInv PROVE SettledIsReported
    OBVIOUS
  <2>1. reports <= 1
    BY DEF IInv, ReportStands
  <2>2. ASSUME Quiet, failed = {} PROVE pending = {}
    BY <2>2 DEF IInv, PendingHasQuestion, Asked, Quiet
  <2>3. ASSUME Quiet, evidence # "none", failed = {} PROVE reports = 1
    BY <2>2, <2>3 DEF IInv, ReportStands, Quiet
  <2> QED
    BY <2>1, <2>3 DEF SettledIsReported
<1> QED
  BY <1>1, InductiveInvariant, PTL

------------------------------------------------------------------------------
(***************************************************************************)
(* The report waits for every answer.                                      *)
(***************************************************************************)

(* Events that ask nothing leave the asks where they are.                  *)
LEMMA SendsNoAsk ==
  ASSUME TypeOK, NEW es \in Seq(Event), Send(es), \A i \in DOMAIN es : es[i].type # "ask"
  PROVE  \A i \in AskPlaces' : i \in AskPlaces /\ outbox'[i] = outbox[i]
<1> SUFFICES ASSUME NEW i \in AskPlaces' PROVE i \in AskPlaces /\ outbox'[i] = outbox[i]
  OBVIOUS
<1>1. i \in DOMAIN outbox' /\ outbox'[i].type = "ask"
  BY DEF AskPlaces
<1>2. CASE outbox' = outbox
  BY <1>1, <1>2 DEF AskPlaces
<1>3. CASE outbox' = outbox \o es
  <2>1. (i \in DOMAIN outbox /\ outbox'[i] = outbox[i])
        \/ (i - Len(outbox) \in DOMAIN es /\ outbox'[i] = es[i - Len(outbox)])
    BY <1>1, <1>3 DEF TypeOK
  <2> QED
    BY <1>1, <2>1 DEF AskPlaces
<1> QED
  BY <1>2, <1>3 DEF Send

(* Asks, questions and answers that are some of those there were.          *)
LEMMA FewerUnderWay ==
  ASSUME TypeOK, TypeOK', AskedOnce,
         NEW a \in {0, 1}, NEW b \in {0, 1}, NEW c \in {0, 1}, NEW d \in {0, 1},
         \A i \in AskPlaces' : i + a \in AskPlaces /\ outbox'[i] = outbox[i + a],
         \A i \in DOMAIN queue' : i + b \in DOMAIN queue /\ queue'[i] = queue[i + b],
         \A i \in AnswerPlaces' : i + c \in AnswerPlaces /\ inbox'[i] = inbox[i + c],
         \A i \in DOMAIN todo' : i + d \in DOMAIN todo /\ todo'[i] = todo[i + d]
  PROVE  AskedOnce' /\ UnderWay' \subseteq UnderWay /\ Items(todo') \subseteq Items(todo)
<1>0. /\ AskPlaces' \subseteq Nat /\ AnswerPlaces' \subseteq Nat
      /\ DOMAIN queue' \subseteq Nat /\ DOMAIN todo' \subseteq Nat
  <2>1. /\ outbox' \in Seq(Event) /\ inbox' \in Seq(Message)
        /\ queue' \in Seq(Item) /\ todo' \in Seq(Item)
    BY DEF TypeOK
  <2>2. /\ DOMAIN outbox' \subseteq Nat /\ DOMAIN inbox' \subseteq Nat
        /\ DOMAIN queue' \subseteq Nat /\ DOMAIN todo' \subseteq Nat
    BY <2>1
  <2> QED
    BY <2>2 DEF AskPlaces, AnswerPlaces
<1>1. UnderWay' \subseteq UnderWay
  <2>1. /\ \A i \in AskPlaces' : outbox'[i].item \in UnderWay
        /\ \A i \in AnswerPlaces' : inbox'[i].item \in UnderWay
    BY DEF UnderWay
  <2>2. \A i \in DOMAIN queue' : queue'[i] \in UnderWay
    BY DEF UnderWay, Items
  <2> QED
    BY <2>1, <2>2 DEF UnderWay, Items
<1>2. Items(todo') \subseteq Items(todo)
  BY DEF Items
<1>3. /\ \A i, j \in DOMAIN todo' : todo'[i].id = todo'[j].id => i = j
      /\ \A i, j \in DOMAIN queue' : queue'[i].id = queue'[j].id => i = j
  BY <1>0 DEF AskedOnce
<1>4. \A i, j \in AskPlaces' : outbox'[i].item.id = outbox'[j].item.id => i = j
  <2> SUFFICES ASSUME NEW i \in AskPlaces', NEW j \in AskPlaces',
                      outbox'[i].item.id = outbox'[j].item.id
               PROVE  i = j
    OBVIOUS
  <2>1. /\ i + a \in AskPlaces /\ outbox'[i] = outbox[i + a]
        /\ j + a \in AskPlaces /\ outbox'[j] = outbox[j + a]
    OBVIOUS
  <2>2. i + a = j + a
    BY <2>1 DEF AskedOnce
  <2> QED
    BY <2>2, <1>0
<1>5. \A i, j \in AnswerPlaces' : inbox'[i].item.id = inbox'[j].item.id => i = j
  <2> SUFFICES ASSUME NEW i \in AnswerPlaces', NEW j \in AnswerPlaces',
                      inbox'[i].item.id = inbox'[j].item.id
               PROVE  i = j
    OBVIOUS
  <2>1. /\ i + c \in AnswerPlaces /\ inbox'[i] = inbox[i + c]
        /\ j + c \in AnswerPlaces /\ inbox'[j] = inbox[j + c]
    OBVIOUS
  <2>2. i + c = j + c
    BY <2>1 DEF AskedOnce
  <2> QED
    BY <2>2, <1>0
<1>6. /\ \A i \in AskPlaces', j \in DOMAIN queue' : outbox'[i].item.id # queue'[j].id
      /\ \A i \in AskPlaces', j \in AnswerPlaces' : outbox'[i].item.id # inbox'[j].item.id
      /\ \A i \in DOMAIN queue', j \in AnswerPlaces' : queue'[i].id # inbox'[j].item.id
  BY DEF AskedOnce
<1>7. \A p \in UnderWay', t \in Items(todo') : p.id # t.id
  BY <1>1, <1>2 DEF AskedOnce
<1> QED
  BY <1>1, <1>2, <1>3, <1>4, <1>5, <1>6, <1>7 DEF AskedOnce

(* The prompt loop asks: the head of the plan's rest is under way.         *)
LEMMA HeadIsAsked ==
  ASSUME TypeOK, TypeOK', AskedOnce, AskUser
  PROVE  AskedOnce' /\ UnderWay' \subseteq UnderWay \cup {Head(todo)}
<1> DEFINE m == [type |-> "ask", item |-> Head(todo)]
<1>1. /\ todo # <<>> /\ todo' = Tail(todo) /\ UNCHANGED <<queue, inbox>>
      /\ Send(<<m>>) /\ m.item = Head(todo)
  BY DEF AskUser, pageVars
<1>2. /\ 1 \in DOMAIN todo /\ todo[1] = Head(todo) /\ todo \in Seq(Item)
      /\ \A i \in DOMAIN todo' : i \in Nat /\ i # 0 /\ i + 1 \in DOMAIN todo /\ todo'[i] = todo[i + 1]
  BY <1>1, TailFacts DEF TypeOK
<1>3. \A i \in DOMAIN todo' : todo'[i].id # Head(todo).id
  BY <1>2 DEF AskedOnce
<1>4. \A p \in UnderWay : p.id # Head(todo).id
  BY <1>2 DEF AskedOnce, Items
<1> HIDE DEF m
<1>5. \A i \in AskPlaces' :
        \/ i \in AskPlaces /\ outbox'[i] = outbox[i]
        \/ i = Len(outbox) + 1 /\ outbox'[i] = m
  <2>1. CASE outbox' = outbox
    BY <2>1 DEF AskPlaces
  <2>2. CASE outbox' = outbox \o <<m>>
    <3>1. \A i \in DOMAIN outbox' : \/ i \in DOMAIN outbox /\ outbox'[i] = outbox[i]
                                    \/ i = Len(outbox) + 1 /\ outbox'[i] = m
      BY <2>2 DEF TypeOK
    <3> QED
      BY <3>1 DEF AskPlaces
  <2> QED
    BY <1>1, <2>1, <2>2 DEF Send
<1>6. /\ \A i \in AskPlaces : outbox[i].item \in UnderWay
      /\ \A i \in DOMAIN queue : queue[i] \in UnderWay
      /\ \A i \in AnswerPlaces : inbox[i].item \in UnderWay
      /\ AnswerPlaces' = AnswerPlaces
  BY <1>1 DEF UnderWay, Items, AnswerPlaces
<1>7. UnderWay' \subseteq UnderWay \cup {Head(todo)}
  BY <1>1, <1>5, <1>6 DEF UnderWay, Items
<1>8. \A i, j \in DOMAIN todo' : todo'[i].id = todo'[j].id => i = j
  BY <1>2 DEF AskedOnce
<1>9. \A i, j \in AskPlaces' : outbox'[i].item.id = outbox'[j].item.id => i = j
  BY <1>1, <1>4, <1>5, <1>6 DEF AskedOnce
<1>10. /\ \A i, j \in DOMAIN queue' : queue'[i].id = queue'[j].id => i = j
       /\ \A i, j \in AnswerPlaces' : inbox'[i].item.id = inbox'[j].item.id => i = j
       /\ \A i \in DOMAIN queue', j \in AnswerPlaces' : queue'[i].id # inbox'[j].item.id
  BY <1>1, <1>6 DEF AskedOnce
<1>11. /\ \A i \in AskPlaces', j \in DOMAIN queue' : outbox'[i].item.id # queue'[j].id
       /\ \A i \in AskPlaces', j \in AnswerPlaces' : outbox'[i].item.id # inbox'[j].item.id
  BY <1>1, <1>4, <1>5, <1>6 DEF AskedOnce
<1>12. \A p \in UnderWay', t \in Items(todo') : p.id # t.id
  <2>1. Items(todo') \subseteq Items(todo)
    BY <1>2 DEF Items
  <2>2. \A t \in Items(todo') : t.id # Head(todo).id
    BY <1>3 DEF Items
  <2> QED
    BY <1>7, <2>1, <2>2 DEF AskedOnce
<1> QED
  BY <1>7, <1>8, <1>9, <1>10, <1>11, <1>12 DEF AskedOnce

(* The page takes a question: it joins those in front of the user.         *)
LEMMA QuestionIsTaken ==
  ASSUME TypeOK, TypeOK', AskedOnce, ReceiveAsk
  PROVE  AskedOnce' /\ UnderWay' \subseteq UnderWay
<1> DEFINE it == Head(outbox).item
<1>1. /\ outbox # <<>> /\ Head(outbox).type = "ask" /\ outbox' = Tail(outbox)
      /\ UNCHANGED <<todo, inbox>>
      /\ queue' = queue \/ queue' = Append(queue, it)
  BY DEF ReceiveAsk, agentVars
<1>2. /\ outbox \in Seq(Event) /\ queue \in Seq(Item) /\ queue' \in Seq(Item)
  BY DEF TypeOK
<1>3. /\ 1 \in AskPlaces /\ outbox[1].item = it
      /\ \A i \in DOMAIN outbox' : i \in Nat /\ i # 0 /\ i + 1 \in DOMAIN outbox
                                     /\ outbox'[i] = outbox[i + 1]
  BY <1>1, <1>2, TailFacts DEF AskPlaces
<1>4. \A i \in AskPlaces' : i + 1 \in AskPlaces /\ i + 1 # 1 /\ i \in Nat /\ outbox'[i] = outbox[i + 1]
  BY <1>3 DEF AskPlaces
<1>5. \A i \in DOMAIN queue' :
        \/ i \in DOMAIN queue /\ queue'[i] = queue[i]
        \/ i = Len(queue) + 1 /\ queue'[i] = it
  <2>1. CASE queue' = queue
    BY <2>1
  <2>2. CASE queue' = Append(queue, it)
    BY <2>2, <1>2
  <2> QED
    BY <1>1, <2>1, <2>2
<1> HIDE DEF it
<1>6. /\ \A i \in AskPlaces : outbox[i].item \in UnderWay
      /\ \A i \in DOMAIN queue : queue[i] \in UnderWay
      /\ \A i \in AnswerPlaces : inbox[i].item \in UnderWay
      /\ it \in UnderWay
      /\ AnswerPlaces' = AnswerPlaces
  BY <1>1, <1>3 DEF UnderWay, Items, AnswerPlaces
<1>7. UnderWay' \subseteq UnderWay
  <2>1. /\ \A i \in AskPlaces' : outbox'[i].item \in UnderWay
        /\ \A i \in AnswerPlaces' : inbox'[i].item \in UnderWay
    BY <1>1, <1>4, <1>6
  <2>2. \A i \in DOMAIN queue' : queue'[i] \in UnderWay
    BY <1>5, <1>6
  <2> QED
    BY <2>1, <2>2 DEF UnderWay, Items
<1>8. /\ \A i \in AskPlaces' : outbox'[i].item.id # it.id
      /\ \A i \in DOMAIN queue : queue[i].id # it.id
      /\ \A i \in AnswerPlaces : inbox[i].item.id # it.id
  BY <1>3, <1>4 DEF AskedOnce
<1>9. \A i, j \in AskPlaces' : outbox'[i].item.id = outbox'[j].item.id => i = j
  <2> SUFFICES ASSUME NEW i \in AskPlaces', NEW j \in AskPlaces',
                      outbox'[i].item.id = outbox'[j].item.id
               PROVE  i = j
    OBVIOUS
  <2>1. i + 1 = j + 1
    BY <1>4 DEF AskedOnce
  <2> QED
    BY <1>4, <2>1
<1>10. \A i, j \in DOMAIN queue' : queue'[i].id = queue'[j].id => i = j
  BY <1>5, <1>8 DEF AskedOnce
<1>11. /\ \A i, j \in DOMAIN todo' : todo'[i].id = todo'[j].id => i = j
       /\ \A i, j \in AnswerPlaces' : inbox'[i].item.id = inbox'[j].item.id => i = j
  BY <1>1, <1>6 DEF AskedOnce
<1>12. /\ \A i \in AskPlaces', j \in DOMAIN queue' : outbox'[i].item.id # queue'[j].id
       /\ \A i \in AskPlaces', j \in AnswerPlaces' : outbox'[i].item.id # inbox'[j].item.id
       /\ \A i \in DOMAIN queue', j \in AnswerPlaces' : queue'[i].id # inbox'[j].item.id
  <2>1. ASSUME NEW i \in AskPlaces', NEW j \in DOMAIN queue'
        PROVE  outbox'[i].item.id # queue'[j].id
    <3>1. i + 1 \in AskPlaces /\ outbox'[i] = outbox[i + 1] /\ outbox'[i].item.id # it.id
      BY <1>4, <1>8
    <3> QED
      BY <3>1, <1>5 DEF AskedOnce
  <2>2. ASSUME NEW i \in AskPlaces', NEW j \in AnswerPlaces'
        PROVE  outbox'[i].item.id # inbox'[j].item.id
    <3>1. i + 1 \in AskPlaces /\ outbox'[i] = outbox[i + 1]
      BY <1>4
    <3> QED
      BY <3>1, <1>1, <1>6 DEF AskedOnce
  <2>3. \A i \in DOMAIN queue', j \in AnswerPlaces' : queue'[i].id # inbox'[j].item.id
    BY <1>1, <1>5, <1>6, <1>8 DEF AskedOnce
  <2> QED
    BY <2>1, <2>2, <2>3
<1>13. \A p \in UnderWay', t \in Items(todo') : p.id # t.id
  BY <1>1, <1>7 DEF AskedOnce, Items
<1> QED
  BY <1>7, <1>9, <1>10, <1>11, <1>12, <1>13 DEF AskedOnce

(* The user answers the first question: the answer is on its way.          *)
LEMMA AnswerIsSent ==
  ASSUME TypeOK, TypeOK', AskedOnce, ConfirmPending \/ CancelPending
  PROVE  AskedOnce' /\ UnderWay' \subseteq UnderWay
<1>0. PICK t \in {"confirm", "skip"} : inbox' = Append(inbox, [type |-> t, item |-> Head(queue)])
  BY DEF ConfirmPending, CancelPending
<1> DEFINE m == [type |-> t, item |-> Head(queue)]
<1>1. /\ queue # <<>> /\ queue' = Tail(queue) /\ inbox' = Append(inbox, m)
      /\ UNCHANGED <<outbox, todo>> /\ m.type # "prompt" /\ m.item = Head(queue)
  BY <1>0 DEF ConfirmPending, CancelPending, agentVars
<1> HIDE DEF m
<1>2. inbox \in Seq(Message) /\ queue \in Seq(Item)
  BY DEF TypeOK
<1>3. /\ 1 \in DOMAIN queue /\ queue[1] = m.item
      /\ \A i \in DOMAIN queue' : i + 1 \in DOMAIN queue /\ i + 1 # 1 /\ i \in Nat
                                    /\ queue'[i] = queue[i + 1]
  BY <1>1, <1>2, TailFacts
<1>4. \A i \in AnswerPlaces' :
        \/ i \in AnswerPlaces /\ inbox'[i] = inbox[i]
        \/ i = Len(inbox) + 1 /\ inbox'[i] = m
  <2>1. \A i \in DOMAIN inbox' : \/ i \in DOMAIN inbox /\ inbox'[i] = inbox[i]
                                 \/ i = Len(inbox) + 1 /\ inbox'[i] = m
    BY <1>1, <1>2
  <2> QED
    BY <2>1 DEF AnswerPlaces
<1>6. /\ \A i \in AskPlaces : outbox[i].item \in UnderWay
      /\ \A i \in DOMAIN queue : queue[i] \in UnderWay
      /\ \A i \in AnswerPlaces : inbox[i].item \in UnderWay
      /\ AskPlaces' = AskPlaces
  BY <1>1 DEF UnderWay, Items, AskPlaces
<1>7. UnderWay' \subseteq UnderWay
  <2>1. /\ \A i \in AskPlaces' : outbox'[i].item \in UnderWay
        /\ \A i \in DOMAIN queue' : queue'[i] \in UnderWay
    BY <1>1, <1>3, <1>6
  <2>2. \A i \in AnswerPlaces' : inbox'[i].item \in UnderWay
    BY <1>3, <1>4, <1>6
  <2> QED
    BY <2>1, <2>2 DEF UnderWay, Items
<1>8. /\ \A i \in DOMAIN queue' : queue'[i].id # m.item.id
      /\ \A i \in AskPlaces : outbox[i].item.id # m.item.id
      /\ \A i \in AnswerPlaces : inbox[i].item.id # m.item.id
  <2>1. \A i \in DOMAIN queue' : queue'[i].id # m.item.id
    BY <1>3 DEF AskedOnce
  <2>2. \A i \in AskPlaces : outbox[i].item.id # m.item.id
    BY <1>3 DEF AskedOnce
  <2>3. \A i \in AnswerPlaces : inbox[i].item.id # m.item.id
    BY <1>3 DEF AskedOnce
  <2> QED
    BY <2>1, <2>2, <2>3
<1>9. \A i, j \in DOMAIN queue' : queue'[i].id = queue'[j].id => i = j
  <2> SUFFICES ASSUME NEW i \in DOMAIN queue', NEW j \in DOMAIN queue',
                      queue'[i].id = queue'[j].id
               PROVE  i = j
    OBVIOUS
  <2>1. i + 1 = j + 1
    BY <1>3 DEF AskedOnce
  <2> QED
    BY <1>3, <2>1
<1>10. \A i, j \in AnswerPlaces' : inbox'[i].item.id = inbox'[j].item.id => i = j
  BY <1>4, <1>8 DEF AskedOnce
<1>11. /\ \A i, j \in DOMAIN todo' : todo'[i].id = todo'[j].id => i = j
       /\ \A i, j \in AskPlaces' : outbox'[i].item.id = outbox'[j].item.id => i = j
  BY <1>1, <1>6 DEF AskedOnce
<1>12. /\ \A i \in AskPlaces', j \in DOMAIN queue' : outbox'[i].item.id # queue'[j].id
       /\ \A i \in AskPlaces', j \in AnswerPlaces' : outbox'[i].item.id # inbox'[j].item.id
       /\ \A i \in DOMAIN queue', j \in AnswerPlaces' : queue'[i].id # inbox'[j].item.id
  <2>1. ASSUME NEW i \in AskPlaces', NEW j \in DOMAIN queue'
        PROVE  outbox'[i].item.id # queue'[j].id
    <3>1. j + 1 \in DOMAIN queue /\ queue'[j] = queue[j + 1]
      BY <1>3
    <3> QED
      BY <3>1, <1>1, <1>6 DEF AskedOnce
  <2>2. ASSUME NEW i \in AskPlaces', NEW j \in AnswerPlaces'
        PROVE  outbox'[i].item.id # inbox'[j].item.id
    <3>1. i \in AskPlaces /\ outbox'[i] = outbox[i] /\ outbox[i].item.id # m.item.id
      BY <1>1, <1>6, <1>8
    <3> QED
      BY <3>1, <1>4 DEF AskedOnce
  <2>3. ASSUME NEW i \in DOMAIN queue', NEW j \in AnswerPlaces'
        PROVE  queue'[i].id # inbox'[j].item.id
    <3>1. i + 1 \in DOMAIN queue /\ queue'[i] = queue[i + 1] /\ queue'[i].id # m.item.id
      BY <1>3, <1>8
    <3> QED
      BY <3>1, <1>4 DEF AskedOnce
  <2> QED
    BY <2>1, <2>2, <2>3
<1>13. \A p \in UnderWay', t2 \in Items(todo') : p.id # t2.id
  BY <1>1, <1>7 DEF AskedOnce, Items
<1> QED
  BY <1>7, <1>9, <1>10, <1>11, <1>12, <1>13 DEF AskedOnce

(* Everything under way is where it was, or less of it.                    *)
LEMMA SameUnderWay ==
  ASSUME UNCHANGED <<outbox, queue, inbox, todo>>
  PROVE  /\ UnderWay' = UnderWay /\ Items(todo') = Items(todo)
         /\ AskedOnce => AskedOnce'
<1>1. AskPlaces' = AskPlaces /\ AnswerPlaces' = AnswerPlaces
  BY DEF AskPlaces, AnswerPlaces
<1>2. UnderWay' = UnderWay
  BY <1>1 DEF UnderWay, Items
<1> QED
  BY <1>1, <1>2 DEF AskedOnce

(* The first message is taken: the answers behind it remain.               *)
LEMMA RestOfInbox ==
  ASSUME TypeOK, NEW t \in {"prompt", "confirm", "skip"}, Takes(t)
  PROVE  \A i \in AnswerPlaces' : i + 1 \in AnswerPlaces /\ i + 1 # 1 /\ inbox'[i] = inbox[i + 1]
<1>1. inbox \in Seq(Message) /\ inbox' = Tail(inbox) /\ inbox # <<>>
  BY DEF TypeOK, Takes
<1>2. \A i \in DOMAIN inbox' : i + 1 \in DOMAIN inbox /\ i + 1 # 1 /\ inbox'[i] = inbox[i + 1]
  BY <1>1
<1> QED
  BY <1>2 DEF AnswerPlaces

(* An answer is taken: it is no longer under way, the others still are.    *)
LEMMA AnswerIsTaken ==
  ASSUME TypeOK, TypeOK', AskedOnce, UNCHANGED <<queue, todo>>,
         NEW t \in {"confirm", "skip"}, Takes(t),
         NEW es \in Seq(Event), Send(es), \A i \in DOMAIN es : es[i].type # "ask"
  PROVE  /\ AskedOnce' /\ UnderWay' \subseteq UnderWay
         /\ Head(inbox).item \in UnderWay
         /\ \A p \in UnderWay' : p.id # Head(inbox).item.id
<1>1. \A i \in AskPlaces' : i \in AskPlaces /\ outbox'[i] = outbox[i]
  BY SendsNoAsk
<1>2. \A i \in AnswerPlaces' : i + 1 \in AnswerPlaces /\ i + 1 # 1 /\ inbox'[i] = inbox[i + 1]
  BY RestOfInbox
<1>3. 1 \in AnswerPlaces /\ inbox[1] = Head(inbox)
  BY TakesFacts DEF TypeOK, AnswerPlaces
<1>4. AskedOnce' /\ UnderWay' \subseteq UnderWay
  <2>1. /\ AskPlaces' \subseteq Nat /\ DOMAIN queue' \subseteq Nat /\ DOMAIN todo' \subseteq Nat
    <3>1. outbox' \in Seq(Event) /\ queue' \in Seq(Item) /\ todo' \in Seq(Item)
      BY DEF TypeOK
    <3>2. /\ DOMAIN outbox' \subseteq Nat /\ DOMAIN queue' \subseteq Nat
          /\ DOMAIN todo' \subseteq Nat
      BY <3>1
    <3> QED
      BY <3>2 DEF AskPlaces
  <2>2. /\ \A i \in AskPlaces' : i + 0 \in AskPlaces /\ outbox'[i] = outbox[i + 0]
        /\ \A i \in DOMAIN queue' : i + 0 \in DOMAIN queue /\ queue'[i] = queue[i + 0]
        /\ \A i \in DOMAIN todo' : i + 0 \in DOMAIN todo /\ todo'[i] = todo[i + 0]
    BY <1>1, <2>1
  <2> QED
    BY <1>2, <2>2, FewerUnderWay
<1>5. Head(inbox).item \in UnderWay
  BY <1>3 DEF UnderWay
<1>6. /\ \A i \in AskPlaces' : outbox'[i].item.id # Head(inbox).item.id
      /\ \A i \in DOMAIN queue' : queue'[i].id # Head(inbox).item.id
      /\ \A i \in AnswerPlaces' : inbox'[i].item.id # Head(inbox).item.id
  <2>1. \A i \in AskPlaces' : outbox'[i].item.id # Head(inbox).item.id
    BY <1>1, <1>3 DEF AskedOnce
  <2>2. \A i \in DOMAIN queue' : queue'[i].id # Head(inbox).item.id
    BY <1>3 DEF AskedOnce
  <2>3. \A i \in AnswerPlaces' : inbox'[i].item.id # Head(inbox).item.id
    BY <1>2, <1>3 DEF AskedOnce
  <2> QED
    BY <2>1, <2>2, <2>3
<1>7. \A p \in UnderWay' : p.id # Head(inbox).item.id
  BY <1>6 DEF UnderWay, Items
<1> QED
  BY <1>4, <1>5, <1>7

(* A prompt that overtakes nothing finds nothing under way when it is read.*)
LEMMA NextPromptAlone ==
  TypeOK /\ PromptComesAlone /\ [Next]_vars => PromptComesAlone'
<1> SUFFICES ASSUME TypeOK, PromptComesAlone, [Next]_vars,
                    crossed' = "no", AnswerPlaces' # DOMAIN inbox'
             PROVE  phase' # "run" /\ Len(inbox') = 1 /\ outbox' = <<>> /\ queue' = <<>>
  BY DEF PromptComesAlone
<1>0. PICK i \in DOMAIN inbox' : inbox'[i].type = "prompt"
  BY DEF AnswerPlaces
<1>1. ASSUME crossed = "no", NEW j \in DOMAIN inbox, inbox[j].type = "prompt"
      PROVE  phase # "run" /\ Len(inbox) = 1 /\ outbox = <<>> /\ queue = <<>>
  BY <1>1 DEF PromptComesAlone, AnswerPlaces
<1>2. crossed = "no"
  BY DEF Next, Handler, Receive, ReadPrompt, AskUser, RunUnasked, EndPrompt, ConfirmedFails,
         ConfirmedRuns, Skip, Close, OtherPlan, ReceiveAsk, ReceiveOther, SendPrompt,
         ConfirmPending, CancelPending, Leave, vars, histVars
<1>3. ASSUME NEW t \in {"prompt", "confirm", "skip"}, Takes(t) PROVE FALSE
  <2>1. /\ i + 1 \in DOMAIN inbox /\ inbox[i + 1].type = "prompt"
        /\ inbox \in Seq(Message) /\ inbox' = Tail(inbox) /\ inbox # <<>>
    BY <1>0, <1>3, TakesFacts DEF TypeOK, Takes
  <2>2. Len(inbox) = 1
    BY <2>1, <1>1, <1>2
  <2> QED
    BY <2>1, <2>2, <1>0
<1>4. ~ (ReadPrompt \/ ConfirmedFails \/ ConfirmedRuns \/ Skip)
  BY <1>3 DEF ReadPrompt, ConfirmedFails, ConfirmedRuns, Skip
<1>5. CASE UNCHANGED inbox
  <2>1. phase # "run" /\ Len(inbox) = 1 /\ outbox = <<>> /\ queue = <<>>
    BY <1>0, <1>1, <1>2, <1>5
  <2> QED
    BY <2>1, <1>4, <1>5 DEF Next, Handler, Receive, AskUser, RunUnasked, EndPrompt, Close,
       OtherPlan, ReceiveAsk, ReceiveOther, SendPrompt, ConfirmPending, CancelPending, Leave,
       vars, pageVars, CanAsk
<1>6. CASE SendPrompt
  <2>1. phase # "run" /\ inbox = <<>> /\ outbox = <<>> /\ queue = <<>>
    BY <1>6 DEF SendPrompt, CanAsk
  <2> QED
    BY <1>6, <2>1 DEF SendPrompt, agentVars
<1>7. CASE ConfirmPending \/ CancelPending
  <2>1. PICK t \in {"confirm", "skip"} :
          inbox' = Append(inbox, [type |-> t, item |-> Head(queue)])
    BY <1>7 DEF ConfirmPending, CancelPending
  <2> DEFINE m == [type |-> t, item |-> Head(queue)]
  <2>2. m.type # "prompt" /\ inbox' = Append(inbox, m) /\ inbox \in Seq(Message)
    BY <2>1 DEF TypeOK
  <2> HIDE DEF m
  <2>3. i \in DOMAIN inbox /\ inbox[i].type = "prompt"
    BY <2>2, <1>0
  <2> QED
    BY <2>3, <1>1, <1>2, <1>7 DEF ConfirmPending, CancelPending
<1> QED
  BY <1>4, <1>5, <1>6, <1>7
  DEF Next, Handler, Receive, AskUser, RunUnasked, EndPrompt, Close, OtherPlan,
      ReceiveAsk, ReceiveOther, Leave, vars

(* The prompt loop works through the plan, and only asks about what is in  *)
(* it.                                                                     *)
LEMMA NextPlanFollowed ==
  TypeOK /\ PlanIsFollowed /\ [Next]_vars => PlanIsFollowed'
<1> SUFFICES ASSUME TypeOK, PlanIsFollowed, [Next]_vars PROVE PlanIsFollowed'
  OBVIOUS
<1>1. CASE ReadPrompt
  BY <1>1 DEF ReadPrompt, PlanIsFollowed, Items
<1>2. CASE AskUser \/ RunUnasked
  <2>1. todo \in Seq(Item) /\ todo # <<>> /\ todo' = Tail(todo)
    BY <1>2 DEF AskUser, RunUnasked, TypeOK
  <2>2. Items(todo') \subseteq Items(todo) /\ Head(todo) \in Items(todo)
    BY <2>1, TailFacts DEF Items
  <2>3. pending' \subseteq pending \cup {Head(todo)} /\ plan' = plan /\ phase' = "run"
    BY <1>2 DEF AskUser, RunUnasked, AddPending
  <2> QED
    BY <2>2, <2>3 DEF PlanIsFollowed, Items
<1>3. CASE EndPrompt
  BY <1>3 DEF EndPrompt, PlanIsFollowed, Items
<1>4. CASE ConfirmedFails \/ ConfirmedRuns \/ Skip
  <2>1. pending' \subseteq pending /\ UNCHANGED <<phase, todo, plan>>
    BY <1>4, ResolveFacts DEF ConfirmedFails, ConfirmedRuns, Skip, agentVars
  <2> QED
    BY <2>1 DEF PlanIsFollowed, Items
<1>5. CASE Close \/ OtherPlan \/ Page \/ UNCHANGED vars
  <2>1. UNCHANGED <<todo, plan, pending>> /\ (phase' = phase \/ phase # "run")
    BY <1>5 DEF Close, OtherPlan, Page, Receive, ReceiveAsk, ReceiveOther, SendPrompt,
                ConfirmPending, CancelPending, Leave, vars, agentVars
  <2>2. Items(todo') = Items(todo) /\ Items(plan') = Items(plan)
    BY <2>1 DEF Items
  <2>3. phase' # "run" => todo' = <<>>
    BY <2>1 DEF PlanIsFollowed
  <2> QED
    BY <2>1, <2>2, <2>3 DEF PlanIsFollowed
<1> QED
  BY <1>1, <1>2, <1>3, <1>4, <1>5 DEF Next, Handler, Page

(* A prompt that overtook nothing starts with nothing under way.           *)
LEMMA FreshPlan ==
  ASSUME TypeOK, PromptComesAlone, crossed = "no", ReadPrompt, DistinctIds'
  PROVE  AskedOnce' /\ NothingIsLost'
<1>1. /\ Takes("prompt") /\ pending' = {} /\ todo' = plan' /\ UNCHANGED <<outbox, queue>>
  BY DEF ReadPrompt, pageVars
<1>2. 1 \in DOMAIN inbox /\ inbox[1].type = "prompt" /\ inbox \in Seq(Message)
  BY <1>1, TakesFacts DEF TypeOK
<1>3. Len(inbox) = 1 /\ outbox = <<>> /\ queue = <<>>
  BY <1>2 DEF PromptComesAlone, AnswerPlaces
<1>4. inbox' = Tail(inbox)
  BY <1>1 DEF Takes
<1>5. DOMAIN inbox' = {} /\ DOMAIN outbox' = {} /\ DOMAIN queue' = {}
  BY <1>1, <1>2, <1>3, <1>4
<1>6. AskPlaces' = {} /\ AnswerPlaces' = {}
  BY <1>5 DEF AskPlaces, AnswerPlaces
<1>7. UnderWay' = {}
  BY <1>5, <1>6 DEF UnderWay, Items
<1>8. Items(todo') = Items(plan')
  BY <1>1 DEF Items
<1>9. NothingIsLost'
  BY <1>1, <1>7, <1>8 DEF NothingIsLost, Items
<1>10. \A i, j \in DOMAIN todo' : todo'[i].id = todo'[j].id => i = j
  BY <1>1 DEF DistinctIds
<1> QED
  BY <1>5, <1>6, <1>7, <1>9, <1>10 DEF AskedOnce

(* Nothing is lost where nothing is settled and nothing more is under way. *)
LEMMA LessUnderWay ==
  ASSUME NothingIsLost, UNCHANGED <<plan, answered, pending, todo>>, UnderWay' \subseteq UnderWay
  PROVE  NothingIsLost'
BY DEF NothingIsLost, Items, AutoExecutable

(* The question about the next command loses nothing.                      *)
LEMMA AskLosesNothing ==
  ASSUME TypeOK, TypeOK', DistinctIds, PlanIsFollowed, AskedOnce, NothingIsLost, AskUser
  PROVE  AskedOnce' /\ NothingIsLost'
<1> DEFINE h == Head(todo)
<1>1. /\ todo # <<>> /\ todo' = Tail(todo) /\ UNCHANGED <<plan, answered>>
      /\ pending' = {p \in pending : p.id # h.id} \cup {h}
  BY DEF AskUser, AddPending, histVars
<1>2. AskedOnce' /\ UnderWay' \subseteq UnderWay \cup {h}
  BY HeadIsAsked
<1>3. h \in Items(todo) /\ \A p \in Items(todo) : p = h \/ p \in Items(todo')
  <2>1. todo \in Seq(Item)
    BY DEF TypeOK
  <2>2. 1 \in DOMAIN todo /\ todo[1] = h
        /\ \A i \in DOMAIN todo : i # 1 => i - 1 \in DOMAIN todo' /\ todo'[i - 1] = todo[i]
    BY <2>1, <1>1, TailFacts
  <2> HIDE DEF h
  <2> QED
    BY <2>2 DEF Items
<1>4. PICK k \in DOMAIN plan : plan[k] = h
  BY <1>3 DEF PlanIsFollowed, Items
<1> HIDE DEF h
<1>5. UnderWay' \subseteq pending'
  BY <1>1, <1>2, <1>3 DEF AskedOnce, NothingIsLost
<1>6. ASSUME NEW i \in DOMAIN plan, ~ AutoExecutable(plan[i].cmd)
      PROVE  plan[i] \in answered' \cup pending' \cup Items(todo')
  <2>1. CASE plan[i].id = h.id
    BY <2>1, <1>1, <1>4 DEF DistinctIds
  <2>2. CASE plan[i].id # h.id
    BY <2>2, <1>1, <1>3, <1>6 DEF NothingIsLost
  <2> QED
    BY <2>1, <2>2
<1> QED
  BY <1>1, <1>2, <1>5, <1>6 DEF NothingIsLost, AutoExecutable

(* A command that runs unasked need not be answered.                       *)
LEMMA UnaskedLosesNothing ==
  ASSUME TypeOK, TypeOK', AskedOnce, NothingIsLost, RunUnasked
  PROVE  AskedOnce' /\ NothingIsLost'
<1>1. /\ todo # <<>> /\ todo' = Tail(todo) /\ AutoExecutable(Head(todo).cmd)
      /\ UNCHANGED <<plan, answered, pending, queue, inbox>>
  BY DEF RunUnasked, pageVars
<1>2. PICK t \in {"result", "error"} : Send(<<Plain(t)>>)
  BY DEF RunUnasked
<1>3. \A i \in AskPlaces' : i \in AskPlaces /\ outbox'[i] = outbox[i]
  <2> DEFINE es == <<Plain(t)>>
  <2>1. es \in Seq(Event) /\ \A i \in DOMAIN es : es[i].type # "ask"
    BY EventTypes DEF Plain
  <2>2. Send(es)
    BY <1>2
  <2> HIDE DEF es
  <2> QED
    BY <2>1, <2>2, SendsNoAsk
<1>4. /\ 1 \in DOMAIN todo /\ todo[1] = Head(todo)
      /\ \A i \in DOMAIN todo' : i + 1 \in DOMAIN todo /\ todo'[i] = todo[i + 1]
      /\ \A i \in DOMAIN todo : i # 1 => i - 1 \in DOMAIN todo' /\ todo'[i - 1] = todo[i]
  BY <1>1, TailFacts DEF TypeOK
<1>5. AskedOnce' /\ UnderWay' \subseteq UnderWay
  <2>1. AskPlaces' \subseteq Nat /\ DOMAIN queue' \subseteq Nat /\ AnswerPlaces' \subseteq Nat
    <3>1. outbox' \in Seq(Event) /\ queue' \in Seq(Item) /\ inbox' \in Seq(Message)
      BY DEF TypeOK
    <3>2. /\ DOMAIN outbox' \subseteq Nat /\ DOMAIN queue' \subseteq Nat
          /\ DOMAIN inbox' \subseteq Nat
      BY <3>1
    <3> QED
      BY <3>2 DEF AskPlaces, AnswerPlaces
  <2>2. AnswerPlaces' = AnswerPlaces
    BY <1>1 DEF AnswerPlaces
  <2>3. /\ \A i \in AskPlaces' : i + 0 \in AskPlaces /\ outbox'[i] = outbox[i + 0]
        /\ \A i \in DOMAIN queue' : i + 0 \in DOMAIN queue /\ queue'[i] = queue[i + 0]
        /\ \A i \in AnswerPlaces' : i + 0 \in AnswerPlaces /\ inbox'[i] = inbox[i + 0]
    BY <1>1, <1>3, <2>1, <2>2
  <2> QED
    BY <1>4, <2>3, FewerUnderWay
<1>6. \A p \in Items(todo) : AutoExecutable(p.cmd) \/ p \in Items(todo')
  BY <1>1, <1>4 DEF Items
<1>7. ASSUME NEW i \in DOMAIN plan, ~ AutoExecutable(plan[i].cmd)
      PROVE  plan[i] \in answered' \cup pending' \cup Items(todo')
  BY <1>1, <1>6, <1>7 DEF NothingIsLost
<1> QED
  BY <1>1, <1>5, <1>7 DEF NothingIsLost, AutoExecutable

(* The end of the prompt loop sends nothing to answer.                     *)
LEMMA EndLosesNothing ==
  ASSUME TypeOK, TypeOK', AskedOnce, NothingIsLost, EndPrompt
  PROVE  AskedOnce' /\ NothingIsLost'
<1>1. UNCHANGED <<plan, todo, answered, pending, queue, inbox>>
  BY DEF EndPrompt, pageVars, histVars
<1>2. PICK es \in {<<>>, <<Plain("done")>>} : Send(es)
  BY DEF EndPrompt
<1>3. es \in Seq(Event) /\ \A i \in DOMAIN es : es[i].type # "ask"
  <2>1. <<Plain("done")>> \in Seq(Event) /\ <<>> \in Seq(Event)
    BY EventTypes
  <2>2. \A i \in DOMAIN <<Plain("done")>> : <<Plain("done")>>[i].type # "ask"
    BY DEF Plain
  <2>3. CASE es = <<>>
    BY <2>1, <2>3
  <2>4. CASE es = <<Plain("done")>>
    BY <2>1, <2>2, <2>4
  <2> QED
    BY <2>3, <2>4
<1>4. \A i \in AskPlaces' : i \in AskPlaces /\ outbox'[i] = outbox[i]
  BY <1>2, <1>3, SendsNoAsk
<1>5. AskedOnce' /\ UnderWay' \subseteq UnderWay
  <2>1. /\ AskPlaces' \subseteq Nat /\ DOMAIN queue' \subseteq Nat /\ AnswerPlaces' \subseteq Nat
        /\ DOMAIN todo' \subseteq Nat
    <3>1. /\ outbox' \in Seq(Event) /\ queue' \in Seq(Item) /\ inbox' \in Seq(Message)
          /\ todo' \in Seq(Item)
      BY DEF TypeOK
    <3>2. /\ DOMAIN outbox' \subseteq Nat /\ DOMAIN queue' \subseteq Nat
          /\ DOMAIN inbox' \subseteq Nat /\ DOMAIN todo' \subseteq Nat
      BY <3>1
    <3> QED
      BY <3>2 DEF AskPlaces, AnswerPlaces
  <2>2. AnswerPlaces' = AnswerPlaces
    BY <1>1 DEF AnswerPlaces
  <2>3. /\ \A i \in AskPlaces' : i + 0 \in AskPlaces /\ outbox'[i] = outbox[i + 0]
        /\ \A i \in DOMAIN queue' : i + 0 \in DOMAIN queue /\ queue'[i] = queue[i + 0]
        /\ \A i \in DOMAIN todo' : i + 0 \in DOMAIN todo /\ todo'[i] = todo[i + 0]
        /\ \A i \in AnswerPlaces' : i + 0 \in AnswerPlaces /\ inbox'[i] = inbox[i + 0]
    BY <1>1, <1>4, <2>1, <2>2
  <2> QED
    BY <2>3, FewerUnderWay
<1> QED
  BY <1>1, <1>5, LessUnderWay

(* An answer that is taken settles the very command it is about, or leaves *)
(* it pending.                                                             *)
LEMMA AnswerLosesNothing ==
  ASSUME TypeOK, TypeOK', DistinctIds, PlanIsFollowed, AskedOnce, NothingIsLost,
         UNCHANGED <<queue, todo, plan>>,
         NEW t \in {"confirm", "skip"}, Takes(t),
         NEW es \in Seq(Event), Send(es), \A i \in DOMAIN es : es[i].type # "ask",
         answered' = answered \cup {Head(inbox).item},
         pending' = pending \/ pending' = {p \in pending : p.id # Head(inbox).item.id}
  PROVE  AskedOnce' /\ NothingIsLost'
<1> DEFINE it == Head(inbox).item
<1>1. /\ AskedOnce' /\ UnderWay' \subseteq UnderWay
      /\ it \in UnderWay /\ \A p \in UnderWay' : p.id # it.id
  BY AnswerIsTaken
<1> HIDE DEF it
<1>2. UnderWay' \subseteq pending'
  BY <1>1 DEF NothingIsLost, it
<1>3. PICK k \in DOMAIN plan : plan[k] = it
  BY <1>1 DEF NothingIsLost, PlanIsFollowed, Items
<1>4. ASSUME NEW i \in DOMAIN plan, ~ AutoExecutable(plan[i].cmd)
      PROVE  plan[i] \in answered' \cup pending' \cup Items(todo')
  <2>1. CASE plan[i].id = it.id
    BY <2>1, <1>3 DEF DistinctIds, it
  <2>2. CASE plan[i].id # it.id
    <3>1. plan[i] \in answered \cup pending \cup Items(todo)
      BY <1>4 DEF NothingIsLost
    <3>2. plan[i] \in pending => plan[i] \in pending'
      BY <2>2 DEF it
    <3>3. Items(todo') = Items(todo)
      BY DEF Items
    <3> QED
      BY <3>1, <3>2, <3>3
  <2> QED
    BY <2>1, <2>2
<1> QED
  BY <1>1, <1>2, <1>4 DEF NothingIsLost, AutoExecutable

(* What is on its way back is pending, so an answer settles by its id.     *)
LEMMA AnswerIsPending ==
  ASSUME TypeOK, NothingIsLost, NEW t \in {"confirm", "skip"}, Takes(t), NEW cmd
  PROVE  /\ Resolve(Head(inbox).item.id, cmd) # {}
         /\ \A rest \in Resolve(Head(inbox).item.id, cmd) :
              rest = {p \in pending : p.id # Head(inbox).item.id}
<1>1. 1 \in AnswerPlaces /\ inbox[1] = Head(inbox)
  BY TakesFacts DEF TypeOK, AnswerPlaces
<1>2. Head(inbox).item \in pending
  BY <1>1 DEF NothingIsLost, UnderWay
<1> QED
  BY <1>2 DEF Resolve

(* Every way of taking an answer.                                          *)
LEMMA AnswersLoseNothing ==
  ASSUME TypeOK, TypeOK', DistinctIds, PlanIsFollowed, AskedOnce, NothingIsLost,
         ConfirmedFails \/ ConfirmedRuns \/ Skip
  PROVE  AskedOnce' /\ NothingIsLost'
<1> DEFINE it == Head(inbox).item
<1>1. /\ <<Plain("error")>> \in Seq(Event) /\ <<Plain("result")>> \in Seq(Event)
      /\ <<Plain("done")>> \in Seq(Event) /\ <<>> \in Seq(Event)
      /\ <<Plain("result"), Plain("done")>> \in Seq(Event)
  BY EventTypes
<1>2. /\ \A i \in DOMAIN <<Plain("error")>> : <<Plain("error")>>[i].type # "ask"
      /\ \A i \in DOMAIN <<Plain("result")>> : <<Plain("result")>>[i].type # "ask"
      /\ \A i \in DOMAIN <<Plain("done")>> : <<Plain("done")>>[i].type # "ask"
      /\ \A i \in DOMAIN <<Plain("result"), Plain("done")>> :
           <<Plain("result"), Plain("done")>>[i].type # "ask"
  BY DEF Plain
<1>3. /\ UNCHANGED <<queue, todo, plan>> /\ answered' = answered \cup {it}
      /\ \E t \in {"confirm", "skip"} : Takes(t)
  BY DEF ConfirmedFails, ConfirmedRuns, Skip, agentVars, pageVars
<1>4. \E es \in Seq(Event) : Send(es) /\ \A i \in DOMAIN es : es[i].type # "ask"
  <2>1. CASE ConfirmedFails
    BY <2>1, <1>1, <1>2 DEF ConfirmedFails
  <2>2. CASE ConfirmedRuns
    <3>1. Send(<<Plain("result"), Plain("done")>>) \/ Send(<<Plain("result")>>)
      BY <2>2 DEF ConfirmedRuns
    <3> QED
      BY <3>1, <1>1, <1>2
  <2>3. CASE Skip
    <3>1. Send(<<Plain("done")>>) \/ Send(<<>>)
      BY <2>3 DEF Skip
    <3>2. \A i \in DOMAIN <<>> : <<>>[i].type # "ask"
      OBVIOUS
    <3> QED
      BY <3>1, <3>2, <1>1, <1>2
  <2> QED
    BY <2>1, <2>2, <2>3
<1>5. pending' = pending \/ pending' = {p \in pending : p.id # it.id}
  <2>1. CASE ConfirmedFails
    BY <2>1 DEF ConfirmedFails, agentVars
  <2>2. CASE ConfirmedRuns
    <3>1. Takes("confirm") /\ (pending' = pending \/ pending' \in Resolve(it.id, Chosen(it)))
      BY <2>2 DEF ConfirmedRuns
    <3> QED
      BY <3>1, AnswerIsPending
  <2>3. CASE Skip
    <3>1. Takes("skip") /\ (pending' = pending \/ pending' \in Resolve(it.id, it.cmd))
      BY <2>3 DEF Skip
    <3> QED
      BY <3>1, AnswerIsPending
  <2> QED
    BY <2>1, <2>2, <2>3
<1> QED
  BY <1>3, <1>4, <1>5, AnswerLosesNothing

(* What the page does to questions and answers loses nothing.              *)
LEMMA PageLosesNothing ==
  ASSUME TypeOK, TypeOK', AskedOnce, NothingIsLost, Page
  PROVE  AskedOnce' /\ NothingIsLost'
<1>0. UNCHANGED <<plan, answered, pending, todo>>
  BY DEF Page, Receive, ReceiveAsk, ReceiveOther, SendPrompt, ConfirmPending,
         CancelPending, Leave, agentVars, histVars
<1> SUFFICES AskedOnce' /\ UnderWay' \subseteq UnderWay
  BY <1>0, LessUnderWay
<1>1. CASE ReceiveAsk
  BY <1>1, QuestionIsTaken
<1>2. CASE ConfirmPending \/ CancelPending
  BY <1>2, AnswerIsSent
<1>3. CASE ReceiveOther \/ Leave \/ SendPrompt
  <2>1. /\ AskPlaces' \subseteq Nat /\ DOMAIN queue' \subseteq Nat /\ AnswerPlaces' \subseteq Nat
        /\ DOMAIN todo' \subseteq Nat
    <3>1. /\ outbox' \in Seq(Event) /\ queue' \in Seq(Item) /\ inbox' \in Seq(Message)
          /\ todo' \in Seq(Item)
      BY DEF TypeOK
    <3>2. /\ DOMAIN outbox' \subseteq Nat /\ DOMAIN queue' \subseteq Nat
          /\ DOMAIN inbox' \subseteq Nat /\ DOMAIN todo' \subseteq Nat
      BY <3>1
    <3> QED
      BY <3>2 DEF AskPlaces, AnswerPlaces
  <2>2. UNCHANGED <<queue, todo>>
    BY <1>3, <1>0 DEF ReceiveOther, Leave, SendPrompt, pageVars
  <2>3. \E a \in {0, 1} : \A i \in AskPlaces' : i + a \in AskPlaces /\ outbox'[i] = outbox[i + a]
    <3>1. CASE ReceiveOther
      <4>1. outbox # <<>> /\ outbox' = Tail(outbox) /\ outbox \in Seq(Event)
        BY <3>1 DEF ReceiveOther, TypeOK
      <4>2. \A i \in DOMAIN outbox' : i + 1 \in DOMAIN outbox /\ outbox'[i] = outbox[i + 1]
        BY <4>1
      <4>3. \A i \in AskPlaces' : i + 1 \in AskPlaces /\ outbox'[i] = outbox[i + 1]
        BY <4>2 DEF AskPlaces
      <4> QED
        BY <4>3
    <3>2. CASE Leave
      <4>1. AskPlaces' = {}
        BY <3>2 DEF Leave, AskPlaces
      <4> QED
        BY <4>1
    <3>3. CASE SendPrompt
      <4>1. AskPlaces' = AskPlaces /\ outbox' = outbox
        BY <3>3 DEF SendPrompt, AskPlaces
      <4>2. \A i \in AskPlaces' : i + 0 \in AskPlaces /\ outbox'[i] = outbox[i + 0]
        BY <2>1, <4>1
      <4> QED
        BY <4>2
    <3> QED
      BY <1>3, <3>1, <3>2, <3>3
  <2>4. \A i \in AnswerPlaces' : i + 0 \in AnswerPlaces /\ inbox'[i] = inbox[i + 0]
    <3>1. CASE inbox' = inbox
      BY <2>1, <3>1 DEF AnswerPlaces
    <3>2. CASE SendPrompt
      <4> DEFINE m == [type |-> "prompt", evidence |-> results]
      <4>1. inbox' = Append(inbox, m) /\ m.type = "prompt" /\ inbox \in Seq(Message)
        BY <3>2 DEF SendPrompt, TypeOK
      <4> HIDE DEF m
      <4>2. \A i \in DOMAIN inbox' : \/ i \in DOMAIN inbox /\ inbox'[i] = inbox[i]
                                     \/ inbox'[i] = m
        BY <4>1
      <4>3. \A i \in AnswerPlaces' : i \in AnswerPlaces /\ inbox'[i] = inbox[i]
        BY <4>1, <4>2 DEF AnswerPlaces
      <4> QED
        BY <4>3, <2>1
    <3> QED
      BY <1>3, <3>1, <3>2 DEF ReceiveOther, Leave
  <2>5. /\ \A i \in DOMAIN queue' : i + 0 \in DOMAIN queue /\ queue'[i] = queue[i + 0]
        /\ \A i \in DOMAIN todo' : i + 0 \in DOMAIN todo /\ todo'[i] = todo[i + 0]
    BY <2>1, <2>2
  <2> QED
    BY <2>3, <2>4, <2>5, FewerUnderWay
<1> QED
  BY <1>1, <1>2, <1>3 DEF Page, Receive

(* Every step keeps account of every command of the plan.                  *)
LEMMA NextComplete == TypeOK /\ CompleteInv /\ [Next]_vars => CompleteInv'
<1> SUFFICES ASSUME TypeOK, CompleteInv, [Next]_vars PROVE CompleteInv'
  OBVIOUS
<1>1. TypeOK' /\ PromptComesAlone' /\ PlanIsFollowed'
  BY NextTypes, NextPromptAlone, NextPlanFollowed DEF CompleteInv
<1>2. crossed' = "no" => crossed = "no"
  BY DEF Next, Handler, Receive, ReadPrompt, AskUser, RunUnasked, EndPrompt, ConfirmedFails,
         ConfirmedRuns, Skip, Close, OtherPlan, ReceiveAsk, ReceiveOther, SendPrompt,
         ConfirmPending, CancelPending, Leave, vars, histVars
<1> SUFFICES ASSUME crossed = "no", DistinctIds' PROVE AskedOnce' /\ NothingIsLost'
  BY <1>1, <1>2 DEF CompleteInv
<1>3. CASE ReadPrompt
  BY <1>3, FreshPlan DEF CompleteInv
<1>4. ASSUME ~ ReadPrompt PROVE DistinctIds /\ AskedOnce /\ NothingIsLost /\ PlanIsFollowed
  <2>1. plan' = plan
    BY <1>4 DEF Next, Handler, Receive, AskUser, RunUnasked, EndPrompt, ConfirmedFails,
         ConfirmedRuns, Skip, Close, OtherPlan, ReceiveAsk, ReceiveOther, SendPrompt,
         ConfirmPending, CancelPending, Leave, vars, agentVars
  <2>2. DistinctIds
    BY <2>1 DEF DistinctIds
  <2> QED
    BY <2>2 DEF CompleteInv
<1>5. CASE AskUser
  <2>1. ~ ReadPrompt
    BY <1>5 DEF AskUser, ReadPrompt, Takes
  <2> QED
    BY <1>1, <1>4, <1>5, <2>1, AskLosesNothing
<1>6. CASE RunUnasked
  <2>1. ~ ReadPrompt
    BY <1>6 DEF RunUnasked, ReadPrompt, Takes
  <2> QED
    BY <1>1, <1>4, <1>6, <2>1, UnaskedLosesNothing
<1>7. CASE EndPrompt
  <2>1. ~ ReadPrompt
    BY <1>7 DEF EndPrompt, ReadPrompt, Takes
  <2> QED
    BY <1>1, <1>4, <1>7, <2>1, EndLosesNothing
<1>8. CASE ~ ReadPrompt /\ (ConfirmedFails \/ ConfirmedRuns \/ Skip)
  BY <1>1, <1>4, <1>8, AnswersLoseNothing
<1>9. CASE ~ ReadPrompt /\ Page
  BY <1>1, <1>4, <1>9, PageLosesNothing
<1>10. CASE ~ ReadPrompt /\ (Close \/ OtherPlan \/ UNCHANGED vars)
  <2>1. UNCHANGED <<outbox, queue, inbox, todo, plan, answered, pending>>
    BY <1>10 DEF Close, OtherPlan, vars, agentVars, pageVars, histVars
  <2> QED
    BY <2>1, <1>4, <1>10, SameUnderWay, LessUnderWay
<1> QED
  BY <1>3, <1>5, <1>6, <1>7, <1>8, <1>9, <1>10 DEF Next, Handler, Page

(* CompleteInv holds in every reachable state.                             *)
THEOREM CompleteInvariant == Spec => []CompleteInv
<1>1. Init => TypeOK /\ CompleteInv
  <2> SUFFICES ASSUME Init PROVE CompleteInv
    BY InitIInv DEF IInv
  <2>1. /\ AskPlaces = {} /\ AnswerPlaces = {} /\ DOMAIN inbox = {}
        /\ Items(queue) = {} /\ Items(todo) = {} /\ DOMAIN queue = {} /\ DOMAIN plan = {}
        /\ DOMAIN todo = {}
    BY DEF Init, AskPlaces, AnswerPlaces, Items
  <2>2. UnderWay = {}
    BY <2>1 DEF UnderWay
  <2>3. AskedOnce /\ NothingIsLost
    BY <2>1, <2>2 DEF AskedOnce, NothingIsLost
  <2> QED
    BY <2>1, <2>3 DEF Init, CompleteInv, PromptComesAlone, PlanIsFollowed
<1>2. TypeOK /\ CompleteInv /\ [Next]_vars => TypeOK' /\ CompleteInv'
  BY NextTypes, NextComplete
<1> QED
  BY <1>1, <1>2, PTL DEF Spec

(* What the handler waits for has a question under way whose answer        *)
(* settles it, and as long as no prompt has overtaken an answer and ids    *)
(* are distinct the question is about that very command.                   *)
THEOREM PendingCanBeAnswered == Spec => []PendingIsAsked
<1>1. IInv /\ CompleteInv => PendingIsAsked
  <2> SUFFICES ASSUME IInv, CompleteInv, link = "up", NEW p \in pending, p.id \notin failed
               PROVE  /\ \E q \in UnderWay : q.id = p.id
                      /\ crossed = "no" /\ DistinctIds => p \in UnderWay
    BY DEF PendingIsAsked
  <2>1. PICK q \in UnderWay : q.id = p.id
    BY DEF IInv, PendingHasQuestion, Asked, UnderWay, AskPlaces, AnswerPlaces, Items
  <2>2. ASSUME crossed = "no", DistinctIds PROVE p \in UnderWay
    <3>1. p \in Items(plan) /\ q \in Items(plan)
      BY <2>2 DEF CompleteInv, NothingIsLost, PlanIsFollowed
    <3>2. p = q
      BY <2>1, <2>2, <3>1 DEF DistinctIds, Items
    <3> QED
      BY <3>2
  <2> QED
    BY <2>1, <2>2
<1> QED
  BY <1>1, InductiveInvariant, CompleteInvariant, PTL

(* A report is sent when everything in its plan that had to be put to the  *)
(* user is answered, for any plans, unless a prompt overtook an answer or  *)
(* the plan gave two commands one id.                                      *)
THEOREM ReportsWaitForAnswers == Spec => []ReportIsComplete
<1>1. IInv /\ CompleteInv => ReportIsComplete
  <2> SUFFICES ASSUME IInv, CompleteInv, crossed = "no", DistinctIds, reports > 0,
                      NEW i \in DOMAIN plan, ~ AutoExecutable(plan[i].cmd)
               PROVE  plan[i] \in answered
    BY DEF ReportIsComplete, ReportWaits
  <2>1. phase # "run" /\ pending = {}
    BY DEF IInv, ReportStands
  <2>2. Items(todo) = {}
    BY <2>1 DEF CompleteInv, PlanIsFollowed, Items
  <2> QED
    BY <2>1, <2>2 DEF CompleteInv, NothingIsLost
<1> QED
  BY <1>1, InductiveInvariant, CompleteInvariant, PTL
=================================================================================
