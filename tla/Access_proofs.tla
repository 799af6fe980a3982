----------------------------- MODULE Access_proofs ------------------------------
(***************************************************************************)
(* What holds of the tables and of the answers for any number of calls,    *)
(* requests, groups, clusters and rows.  IInv of Access is inductive.      *)
(* Deletions: while one is under way that met nobody, what it has removed  *)
(* stays away, because nobody is at a step that could bring it back        *)
(* (UserDeletionClears, GroupDeletionClears, NothingForGone).  Requests:   *)
(* what was there all the time was there when its table was read           *)
(* (LastingIsThere, LookedFor).  That an answer was the right one at some  *)
(* moment needs AnswerInv, an invariant beside IInv: with at most one      *)
(* writer, what a request has still to read gives an answer that was right *)
(* together with what it has read.                                         *)
(***************************************************************************)
EXTENDS Access, TLAPS

(* A step of a call changes the record of that call only.                  *)
LEMMA ToEffect ==
  ASSUME NEW c \in Calls, NEW pc \in CallSteps, To(c, pc), call \in [Calls -> Call]
  PROVE  /\ call' \in [Calls -> Call]
         /\ call'[c] = [call[c] EXCEPT !.pc = pc]
         /\ call'[c].pc = pc /\ call'[c].holder = call[c].holder
         /\ \A d \in Calls : d # c => call'[d] = call[d]
<1>1. call[c] \in Call
  OBVIOUS
<1>2. [call[c] EXCEPT !.pc = pc] \in Call
  BY <1>1 DEF Call
<1>3. call' = [call EXCEPT ![c] = [call[c] EXCEPT !.pc = pc]]
  BY DEF To
<1>4. [call[c] EXCEPT !.pc = pc].pc = pc /\ [call[c] EXCEPT !.pc = pc].holder = call[c].holder
  BY <1>1 DEF Call
<1> QED
  BY <1>2, <1>3, <1>4

(* A call that begins changes its own record only.                         *)
LEMMA BeginEffect ==
  ASSUME NEW c \in Calls, NEW pc \in CallSteps, NEW h \in Holders, NEW cl \in Clusters,
         NEW t \in AllTypes, NEW i \in Nat, Begin(c, pc, h, cl, t, i), call \in [Calls -> Call]
  PROVE  /\ call' \in [Calls -> Call]
         /\ call'[c].pc = pc /\ call'[c].holder = h
         /\ \A d \in Calls : d # c => call'[d] = call[d]
BY DEF Begin, Call

(* There is a cluster for the calls that name none.                        *)
LEMMA SomeClusterIn == AnyCluster \in Clusters
BY SomeCluster DEF AnyCluster

(* Every answer the tables can give is one.                                *)
LEMMA VerdictType ==
  ASSUME NEW kind \in {"resolve", "platform", "list"}, NEW cl \in Clusters,
         NEW u \in SUBSET {User}, NEW m \in SUBSET Groups, NEW p \in SUBSET Row
  PROVE  Verdict(kind, cl, u, m, p) \in Answers
<1>1. \A s \in SUBSET Row : TypesOf(s) \in Answers /\ ClustersOf(s) \in Answers
  BY DEF TypesOf, ClustersOf, Answers, Row
<1>2. {All} \in Answers /\ {} \in Answers /\ {"readonly"} \in Answers
  BY DEF Answers, AllTypes
<1>3. CASE kind = "resolve"
  <2>1. Of({User}, On(cl, p)) \in SUBSET Row /\ Of(m, On(cl, p)) \in SUBSET Row
    BY DEF Of, On
  <2>2. \A s \in SUBSET Row : Top(s) \in SUBSET Row /\ {r \in s : IsFirst(r, s)} \in SUBSET Row
    BY DEF Top
  <2> QED
    BY <1>1, <1>2, <1>3, <2>1, <2>2 DEF Verdict, Resolved
<1>4. CASE kind = "platform"
  BY <1>2, <1>4 DEF Verdict
<1>5. CASE kind = "list"
  <2>1. Of(m \cup {User}, p) \in SUBSET Row
    BY DEF Of
  <2> QED
    BY <1>1, <1>2, <1>5, <2>1 DEF Verdict, Listed
<1> QED
  BY <1>3, <1>4, <1>5

(* A request stays one when its fields change within their types.          *)
LEMMA RequestFields ==
  ASSUME NEW k \in Request, NEW pc \in RequestSteps, NEW a \in Answers,
         NEW s \in {"none", "own", "group", "default"}, NEW n \in SUBSET {"failed", "late"},
         NEW m \in SUBSET Groups
  PROVE  /\ [k EXCEPT !.pc = pc, !.notes = n] \in Request
         /\ [k EXCEPT !.pc = pc, !.groups = m] \in Request
         /\ [k EXCEPT !.pc = pc, !.answer = a, !.source = s, !.notes = n] \in Request
BY DEF Request

(* While a call changes the tables, a request stays where it is, and at    *)
(* most less of what it began with lasts.                                  *)
LEMMA SeenEffect ==
  ASSUME TypeOK, NEW c \in Calls, Seen(c),
         users' \in SUBSET {User}, members' \in SUBSET Groups, perms' \in SUBSET Row
  PROVE  /\ req' \in [Requests -> Request]
         /\ \A q \in Requests :
              /\ req'[q].pc = req[q].pc /\ req'[q].kind = req[q].kind
              /\ req'[q].cluster = req[q].cluster /\ req'[q].groups = req[q].groups
              /\ req'[q].answer = req[q].answer /\ req'[q].source = req[q].source
              /\ req'[q].notes = req[q].notes
              /\ ~Asking(q) => req'[q] = req[q]
              /\ Asking(q) /\ <<users, members, perms>>' # <<users, members, perms>>
                   => /\ req'[q].lasting = req[q].lasting \cap perms'
                      /\ req'[q].in = req[q].in \cap members'
                      /\ req'[q].writers = req[q].writers \cup {c}
                      /\ req'[q].right = req[q].right \cup
                           {Verdict(req[q].kind, req[q].cluster, users', members', perms')}
              /\ <<users, members, perms>>' = <<users, members, perms>> => req'[q] = req[q]
<1> DEFINE v(q) == Verdict(req[q].kind, req[q].cluster, users', members', perms')
           new(q) == [req[q] EXCEPT !.lasting = @ \cap perms', !.in = @ \cap members',
                                    !.writers = @ \cup {c}, !.right = @ \cup {v(q)}]
           changed == <<users, members, perms>>' # <<users, members, perms>>
<1>1. req' = [q \in Requests |-> IF Asking(q) /\ changed THEN new(q) ELSE req[q]]
  BY DEF Seen
<1>2. \A q \in Requests : req[q] \in Request
  BY DEF TypeOK
<1>3. ASSUME NEW q \in Requests PROVE v(q) \in Answers
  BY <1>2, <1>3, VerdictType DEF Request
<1>4. ASSUME NEW k \in Request, NEW a \in Answers
      PROVE LET n == [k EXCEPT !.lasting = @ \cap perms', !.in = @ \cap members',
                               !.writers = @ \cup {c}, !.right = @ \cup {a}]
            IN  /\ n \in Request
                /\ n.pc = k.pc /\ n.kind = k.kind /\ n.cluster = k.cluster /\ n.groups = k.groups
                /\ n.answer = k.answer /\ n.source = k.source /\ n.notes = k.notes
                /\ n.lasting = k.lasting \cap perms' /\ n.in = k.in \cap members'
                /\ n.writers = k.writers \cup {c} /\ n.right = k.right \cup {a}
  BY <1>4 DEF Request
<1> HIDE DEF v
<1>5. ASSUME NEW q \in Requests
      PROVE /\ new(q) \in Request
            /\ new(q).pc = req[q].pc /\ new(q).kind = req[q].kind
            /\ new(q).cluster = req[q].cluster /\ new(q).groups = req[q].groups
            /\ new(q).answer = req[q].answer /\ new(q).source = req[q].source
            /\ new(q).notes = req[q].notes
            /\ new(q).lasting = req[q].lasting \cap perms' /\ new(q).in = req[q].in \cap members'
            /\ new(q).writers = req[q].writers \cup {c} /\ new(q).right = req[q].right \cup {v(q)}
  <2>1. req[q] \in Request /\ v(q) \in Answers
    BY <1>2, <1>3
  <2> QED
    BY <2>1, <1>4, Zenon
<1> HIDE DEF new
<1> QED
  BY <1>1, <1>2, <1>5 DEF v

(* The initial states satisfy the inductive invariant.                     *)
LEMMA InitIInv == Init => IInv
<1> SUFFICES ASSUME Init PROVE IInv
  OBVIOUS
<1>1. \A c \in Calls : call[c].pc = "idle"
  BY DEF Init, NoCall
<1>2. \A q \in Requests : req[q] = NoRequest
  BY DEF Init
<1>3. TypeOK
  <2>1. NoCall \in Call
    BY SomeClusterIn DEF NoCall, Call, CallSteps, Holders, AllTypes
  <2>2. NoRequest \in Request
    BY SomeClusterIn DEF NoRequest, Request, RequestSteps, Answers
  <2>3. members \in SUBSET Groups /\ perms \in SUBSET Row /\ next \in Nat
    BY KnownStart DEF Init
  <2>4. call \in [Calls -> Call] /\ req \in [Requests -> Request]
    BY <2>1, <2>2 DEF Init
  <2> QED
    BY <2>3, <2>4 DEF Init, TypeOK
<1>4. GroupInHand /\ UserDeletionClears /\ GroupDeletionClears
  BY <1>1 DEF GroupInHand, UserDeletionClears, GroupDeletionClears, Deleting
<1>5. NothingForGone
  BY <1>1 DEF NothingForGone, Granting
<1>6. GoneHoldNothing
  BY DEF Init, GoneHoldNothing, Gone, Holders
<1>7. ASSUME NEW q \in Requests PROVE RequestInv(q)
  <2>1. KindOfStep(q) /\ LateFindsNothing(q) /\ RefusedIfLate(q) /\ LastingIsThere(q)
    BY <1>2 DEF KindOfStep, LateFindsNothing, RefusedIfLate, LastingIsThere, NoRequest, Asking, Answered
  <2>2. LookedFor(q) /\ HonoursLasting(q)
    BY <1>2 DEF LookedFor, HonoursLasting, NoRequest
  <2> QED
    BY <2>1, <2>2 DEF RequestInv
<1> QED
  BY <1>3, <1>4, <1>5, <1>6, <1>7 DEF IInv, DeletionInv

-----------------------------------------------------------------------------
(* A call of an administrator keeps the types and has a group in hand      *)
(* where it works on one.                                                  *)
LEMMA TypedStep ==
  ASSUME TypeOK, GroupInHand, NEW c \in Calls,
         users' \in SUBSET {User}, groups' \in SUBSET Groups, members' \in SUBSET Groups,
         perms' \in SUBSET Row, next' \in Nat, marred' \in SUBSET Holders,
         call' \in [Calls -> Call], \A d \in Calls : d # c => call'[d] = call[d],
         Seen(c) \/ UNCHANGED req,
         call'[c].pc \in {"addGroup", "addCount", "addInsert", "groupMembers", "groupRow", "saveGroup"}
           => call'[c].holder \in Groups
  PROVE  TypeOK' /\ GroupInHand'
<1>1. req' \in [Requests -> Request]
  BY SeenEffect DEF TypeOK
<1>2. TypeOK'
  BY <1>1 DEF TypeOK
<1>3. GroupInHand'
  BY DEF GroupInHand
<1> QED
  BY <1>2, <1>3

(* The same for a step that goes to another label and keeps the rest of    *)
(* the record.                                                             *)
LEMMA TypedTo ==
  ASSUME TypeOK, GroupInHand, NEW c \in Calls, NEW pc \in CallSteps, To(c, pc),
         users' \in SUBSET {User}, groups' \in SUBSET Groups, members' \in SUBSET Groups,
         perms' \in SUBSET Row, next' \in Nat, marred' \in SUBSET Holders,
         Seen(c) \/ UNCHANGED req,
         \/ pc \notin {"addGroup", "addCount", "addInsert", "groupMembers", "groupRow", "saveGroup"}
         \/ call[c].holder \in Groups
  PROVE  TypeOK' /\ GroupInHand'
<1>1. call \in [Calls -> Call]
  BY DEF TypeOK
<1>2. /\ call' \in [Calls -> Call]
      /\ call'[c].pc = pc /\ call'[c].holder = call[c].holder
      /\ \A d \in Calls : d # c => call'[d] = call[d]
  BY <1>1, ToEffect
<1> QED
  BY <1>2, TypedStep

(* Calls on groups keep the types.                                         *)
LEMMA GroupCallsTyped ==
  ASSUME TypeOK, GroupInHand, NEW c \in Calls, GroupCalls(c)
  PROVE  TypeOK' /\ GroupInHand'
<1> USE DEF TypeOK
<1>0. call[c] \in Call /\ AnyCluster \in Clusters /\ Groups \subseteq Holders /\ User \in Holders
      /\ "readonly" \in AllTypes /\ call[c].holder \in Holders /\ 0 \in Nat
  BY SomeClusterIn DEF Holders, AllTypes, Call
<1>g. call[c].pc \in {"addGroup", "addCount", "addInsert", "groupMembers", "groupRow", "saveGroup"}
        => call[c].holder \in Groups
  BY DEF GroupInHand
<1>1. ASSUME NEW g \in Groups, AddUserToGroup(c, g) PROVE TypeOK' /\ GroupInHand'
  <2>1. Begin(c, "addGroup", g, AnyCluster, "readonly", 0) /\ UNCHANGED <<users, groups, members, perms, next, req>>
        /\ BeginsToGrant({User, g})
    BY <1>1 DEF AddUserToGroup
  <2>2. "addGroup" \in CallSteps /\ g \in Holders
    BY <1>0 DEF CallSteps
  <2>3. marred' \in SUBSET Holders
    BY <1>0, <2>1 DEF BeginsToGrant
  <2> QED
    BY <1>0, <2>1, <2>2, <2>3, BeginEffect, TypedStep
<1>2. ASSUME NEW g \in Groups, RemoveUserFromGroup(c, g) PROVE TypeOK' /\ GroupInHand'
  <2>1. "done" \in CallSteps
    BY DEF CallSteps
  <2>2. To(c, "done") /\ UNCHANGED <<users, groups, perms, next, marred>> /\ Seen(c)
        /\ members' \in SUBSET Groups
    BY <1>2 DEF RemoveUserFromGroup
  <2> QED
    BY <2>1, <2>2, TypedTo
<1>3. ASSUME NEW g \in Groups, UpdateUserGroup(c, g) PROVE TypeOK' /\ GroupInHand'
  <2>1. Begin(c, "saveGroup", g, AnyCluster, "readonly", 0)
        /\ UNCHANGED <<users, groups, members, perms, next, req, marred>>
    BY <1>3 DEF UpdateUserGroup
  <2>2. "saveGroup" \in CallSteps /\ g \in Holders
    BY <1>0 DEF CallSteps
  <2> QED
    BY <1>0, <2>1, <2>2, BeginEffect, TypedStep
<1>4. ASSUME NEW g \in Groups, DeleteUserGroup(c, g) PROVE TypeOK' /\ GroupInHand'
  <2>1. Begin(c, "groupMembers", g, AnyCluster, "readonly", 0)
        /\ UNCHANGED <<users, groups, members, perms, next, req>>
        /\ (BeginsToDelete(g) \/ marred' = marred \cup {g})
    BY <1>4 DEF DeleteUserGroup
  <2>2. "groupMembers" \in CallSteps /\ g \in Holders
    BY <1>0 DEF CallSteps
  <2>3. marred' \in SUBSET Holders
    BY <2>1, <2>2 DEF BeginsToDelete
  <2> QED
    BY <1>0, <2>1, <2>2, <2>3, BeginEffect, TypedStep
<1>5. CASE AddFindsGroup(c) \/ AddCounts(c)
  <2>1. PICK pc \in {"addCount", "addInsert", "done"} : To(c, pc)
    BY <1>5 DEF AddFindsGroup, AddCounts
  <2>2. UNCHANGED <<users, groups, members, perms, next, req, marred>> /\ call[c].holder \in Groups
    BY <1>5, <1>g DEF AddFindsGroup, AddCounts, At
  <2>3. pc \in CallSteps
    BY DEF CallSteps
  <2> QED
    BY <2>1, <2>2, <2>3, TypedTo
<1>6. CASE AddInserts(c)
  <2>1. To(c, "done") /\ UNCHANGED <<users, groups, perms, next, marred>> /\ Seen(c)
        /\ members' \in SUBSET Groups
    BY <1>6, <1>g DEF AddInserts, At
  <2>2. "done" \in CallSteps
    BY DEF CallSteps
  <2> QED
    BY <2>1, <2>2, TypedTo
<1>7. CASE UpdateSavesGroup(c) \/ DeleteDropsGroup(c)
  <2>1. To(c, "done") /\ UNCHANGED <<users, members, perms, next, req, marred>>
        /\ groups' \in SUBSET Groups
    BY <1>7, <1>g DEF UpdateSavesGroup, DeleteDropsGroup, At
  <2>2. "done" \in CallSteps
    BY DEF CallSteps
  <2> QED
    BY <2>1, <2>2, TypedTo
<1>8. CASE DeleteClearsGroup(c)
  <2>1. To(c, "groupRow") /\ UNCHANGED <<users, groups, perms, next>> /\ Seen(c)
        /\ members' \in SUBSET Groups /\ marred' \in SUBSET Holders /\ call[c].holder \in Groups
    BY <1>8, <1>g, <1>0 DEF DeleteClearsGroup, At
  <2>2. "groupRow" \in CallSteps
    BY DEF CallSteps
  <2> QED
    BY <2>1, <2>2, TypedTo
<1> QED
  BY <1>1, <1>2, <1>3, <1>4, <1>5, <1>6, <1>7, <1>8 DEF GroupCalls

(* Calls on permission rows keep the types.                                *)
LEMMA PermissionCallsTyped ==
  ASSUME TypeOK, GroupInHand, NEW c \in Calls, PermissionCalls(c)
  PROVE  TypeOK' /\ GroupInHand'
<1> USE DEF TypeOK
<1>0. call[c] \in Call /\ Types \subseteq AllTypes /\ 0 \in Nat
      /\ call[c].holder \in Holders /\ call[c].cluster \in Clusters
      /\ call[c].type \in AllTypes /\ call[c].id \in Nat
  BY KnownTypes DEF Call
<1>1. ASSUME NEW h \in Holders, NEW cl \in Clusters, NEW t \in Types,
             CreateClusterPermission(c, h, cl, t)
      PROVE TypeOK' /\ GroupInHand'
  <2>1. Begin(c, "insert", h, cl, t, 0) /\ UNCHANGED <<users, groups, members, perms, next, req>>
        /\ marred' \in SUBSET Holders
    BY <1>1 DEF CreateClusterPermission, BeginsToGrant
  <2>2. "insert" \in CallSteps /\ t \in AllTypes
    BY <1>0 DEF CallSteps
  <2> QED
    BY <1>0, <2>1, <2>2, BeginEffect, TypedStep
<1>2. ASSUME NEW r \in perms, NEW t \in Types, UpdateClusterPermission(c, r, t)
      PROVE TypeOK' /\ GroupInHand'
  <2>0. r.holder \in Holders /\ r.cluster \in Clusters /\ r.id \in Nat
    BY DEF Row
  <2>1. Begin(c, "save", r.holder, r.cluster, t, r.id)
        /\ UNCHANGED <<users, groups, members, perms, next, req>> /\ marred' \in SUBSET Holders
    BY <1>2, <2>0 DEF UpdateClusterPermission, BeginsToGrant
  <2>2. "save" \in CallSteps /\ t \in AllTypes
    BY <1>0 DEF CallSteps
  <2> QED
    BY <2>0, <2>1, <2>2, BeginEffect, TypedStep
<1>3. ASSUME NEW rows \in SUBSET perms, DeletePermissions(c, rows) PROVE TypeOK' /\ GroupInHand'
  <2>1. To(c, "done") /\ UNCHANGED <<users, groups, members, next, marred>> /\ Seen(c)
        /\ perms' \in SUBSET Row
    BY <1>3 DEF DeletePermissions
  <2>2. "done" \in CallSteps
    BY DEF CallSteps
  <2> QED
    BY <2>1, <2>2, TypedTo
<1>4. CASE CreateInserts(c)
  <2>1. [id |-> next, holder |-> call[c].holder, cluster |-> call[c].cluster,
         type |-> call[c].type] \in Row
    BY <1>0 DEF Row
  <2>2. To(c, "done") /\ UNCHANGED <<users, groups, members, marred>> /\ Seen(c)
        /\ perms' \in SUBSET Row /\ next' \in Nat
    BY <1>4, <2>1 DEF CreateInserts
  <2>3. "done" \in CallSteps
    BY DEF CallSteps
  <2> QED
    BY <2>2, <2>3, TypedTo
<1>5. CASE UpdateSaves(c)
  <2>1. [id |-> call[c].id, holder |-> call[c].holder, cluster |-> call[c].cluster,
         type |-> call[c].type] \in Row
    BY <1>0 DEF Row
  <2>2. To(c, "done") /\ UNCHANGED <<users, groups, members, next, marred>> /\ Seen(c)
        /\ perms' \in SUBSET Row
    BY <1>5, <2>1 DEF UpdateSaves
  <2>3. "done" \in CallSteps
    BY DEF CallSteps
  <2> QED
    BY <2>2, <2>3, TypedTo
<1> QED
  BY <1>1, <1>2, <1>3, <1>4, <1>5 DEF PermissionCalls

(* Calls on the user keep the types.                                       *)
LEMMA UserCallsTyped ==
  ASSUME TypeOK, GroupInHand, NEW c \in Calls, UserCalls(c) \/ Fails(c)
  PROVE  TypeOK' /\ GroupInHand'
<1> USE DEF TypeOK
<1>0. AnyCluster \in Clusters /\ User \in Holders /\ "readonly" \in AllTypes /\ 0 \in Nat
  BY SomeClusterIn DEF Holders, AllTypes
<1>s. "userMembers" \in CallSteps /\ "userPerms" \in CallSteps /\ "userRow" \in CallSteps
      /\ "saveUser" \in CallSteps /\ "done" \in CallSteps
  BY DEF CallSteps
<1>1. CASE DeleteUser(c)
  <2>1. Begin(c, "userMembers", User, AnyCluster, "readonly", 0)
        /\ UNCHANGED <<users, groups, members, perms, next, req>> /\ marred' \in SUBSET Holders
    BY <1>0, <1>1 DEF DeleteUser, BeginsToDelete
  <2> QED
    BY <1>0, <1>s, <2>1, BeginEffect, TypedStep
<1>2. CASE LoadUser(c)
  <2>1. Begin(c, "saveUser", User, AnyCluster, "readonly", 0)
        /\ UNCHANGED <<users, groups, members, perms, next, req>> /\ marred' \in SUBSET Holders
    BY <1>0, <1>2 DEF LoadUser, BeginsToGrant
  <2> QED
    BY <1>0, <1>s, <2>1, BeginEffect, TypedStep
<1>3. CASE SaveUser(c) \/ DeleteDropsUser(c)
  <2>1. To(c, "done") /\ UNCHANGED <<groups, members, perms, next, marred>> /\ Seen(c)
        /\ users' \in SUBSET {User}
    BY <1>3 DEF SaveUser, DeleteDropsUser
  <2> QED
    BY <1>s, <2>1, TypedTo
<1>4. CASE DeleteClearsMembers(c)
  <2>1. To(c, "userPerms") /\ UNCHANGED <<users, groups, perms, next>> /\ Seen(c)
        /\ members' \in SUBSET Groups /\ marred' \in SUBSET Holders
    BY <1>0, <1>4 DEF DeleteClearsMembers
  <2> QED
    BY <1>s, <2>1, TypedTo
<1>5. CASE DeleteClearsPerms(c)
  <2>1. To(c, "userRow") /\ UNCHANGED <<users, groups, members, next>> /\ Seen(c)
        /\ perms' \in SUBSET Row /\ marred' \in SUBSET Holders
    BY <1>0, <1>5 DEF DeleteClearsPerms
  <2> QED
    BY <1>s, <2>1, TypedTo
<1>6. CASE Fails(c)
  <2>1. To(c, "done") /\ UNCHANGED <<users, groups, members, perms, next, req, marred>>
    BY <1>6 DEF Fails
  <2> QED
    BY <1>s, <2>1, TypedTo
<1> QED
  BY <1>1, <1>2, <1>3, <1>4, <1>5, <1>6 DEF UserCalls

(* What a call does to the requests, whatever its step.                    *)
LEMMA CallsSeen ==
  ASSUME NEW c \in Calls, GroupCalls(c) \/ PermissionCalls(c) \/ UserCalls(c) \/ Fails(c)
  PROVE  Seen(c) \/ UNCHANGED <<users, members, perms, req>>
<1>1. CASE GroupCalls(c)
  BY <1>1 DEF GroupCalls, AddUserToGroup, RemoveUserFromGroup, UpdateUserGroup, DeleteUserGroup,
              AddFindsGroup, AddCounts, AddInserts, UpdateSavesGroup, DeleteClearsGroup,
              DeleteDropsGroup
<1>2. CASE PermissionCalls(c)
  BY <1>2 DEF PermissionCalls, CreateClusterPermission, UpdateClusterPermission,
              DeletePermissions, CreateInserts, UpdateSaves
<1>3. CASE UserCalls(c) \/ Fails(c)
  BY <1>3 DEF UserCalls, DeleteUser, LoadUser, SaveUser, DeleteClearsMembers, DeleteClearsPerms,
              DeleteDropsUser, Fails
<1> QED
  BY <1>1, <1>2, <1>3

-----------------------------------------------------------------------------
(* A call that ends, with rows and memberships at most removed.            *)
LEMMA EndsCleanly ==
  ASSUME DeletionInv, NEW c \in Calls, call'[c].pc = "done", \A d \in Calls : d # c => call'[d] = call[d],
         UNCHANGED <<users, groups, marred>>, members' \subseteq members, perms' \subseteq perms
  PROVE  DeletionInv'
<1>1. \A h : ~Granting(c, h)' /\ ~Deleting(c, h)'
  BY DEF Granting, Deleting
<1>2. \A d \in Calls : \A h : d # c => (Granting(d, h)' = Granting(d, h) /\ Deleting(d, h)' = Deleting(d, h))
  BY DEF Granting, Deleting
<1>3. \A h : Of({h}, perms') \subseteq Of({h}, perms)
  BY DEF Of
<1>4. UserDeletionClears'
  BY <1>1, <1>2, <1>3 DEF DeletionInv, UserDeletionClears
<1>5. GroupDeletionClears'
  BY <1>1, <1>2, <1>3 DEF DeletionInv, GroupDeletionClears
<1>6. NothingForGone'
  BY <1>1, <1>2 DEF DeletionInv, NothingForGone
<1>7. GoneHoldNothing'
  BY <1>3 DEF DeletionInv, GoneHoldNothing, Gone
<1> QED
  BY <1>4, <1>5, <1>6, <1>7 DEF DeletionInv

(* Calls other than the one that steps keep what they may give or delete.  *)
LEMMA OtherCalls ==
  ASSUME NEW c \in Calls, \A d \in Calls : d # c => call'[d] = call[d]
  PROVE  \A d \in Calls : \A h : d # c => (Granting(d, h)' = Granting(d, h) /\ Deleting(d, h)' = Deleting(d, h))
BY DEF Granting, Deleting

(* A call that begins to give, or goes on, changes no table.  Who is being *)
(* deleted when it begins is marred, and who is gone is not given to.      *)
LEMMA GrantBegins ==
  ASSUME TypeOK, DeletionInv, NEW c \in Calls, NEW H \in SUBSET Holders, \A d \in Calls : d # c => call'[d] = call[d],
         call'[c].pc \in {"addGroup", "addCount", "addInsert", "insert", "save", "saveUser"},
         \A h \in Holders : Granting(c, h)' => h \in H,
         UNCHANGED <<users, groups, members, perms>>,
         marred \subseteq marred',
         \A h \in H \ marred' : \A d \in Calls : d # c => ~Deleting(d, h),
         User \in H => User \in users \cup marred',
         call'[c].pc # "addGroup" => call'[c].holder \in users \cup groups \cup marred'
  PROVE  DeletionInv'
<1>1. \A h : ~Deleting(c, h)'
  BY DEF Deleting
<1>2. \A d \in Calls : \A h : d # c => (Granting(d, h)' = Granting(d, h) /\ Deleting(d, h)' = Deleting(d, h))
  BY OtherCalls
<1>3. UserDeletionClears'
  BY <1>1, <1>2 DEF DeletionInv, UserDeletionClears, Holders
<1>4. GroupDeletionClears'
  BY <1>1, <1>2 DEF DeletionInv, GroupDeletionClears, Holders
<1>5. NothingForGone'
  <2>1. User \in Holders /\ users \subseteq {User}
    BY DEF Holders, TypeOK
  <2>2. ASSUME NEW g \in Groups, g \notin (groups \cup marred)',
               call'[c].pc \in {"addCount", "addInsert", "insert", "save"}
        PROVE call'[c].holder # g
    BY <2>1, <2>2, ProperNames
  <2>3. User \notin (users \cup marred)' => ~Granting(c, User)'
    BY <2>1
  <2> QED
    BY <1>2, <2>2, <2>3 DEF DeletionInv, NothingForGone
<1>6. GoneHoldNothing'
  BY DEF DeletionInv, GoneHoldNothing, Gone
<1> QED
  BY <1>3, <1>4, <1>5, <1>6 DEF DeletionInv

(* A call that begins to delete h finds nobody who gives it something, or  *)
(* h is marred.                                                            *)
LEMMA DeleteBegins ==
  ASSUME TypeOK, DeletionInv, NEW c \in Calls, NEW h \in Holders, \A d \in Calls : d # c => call'[d] = call[d],
         \/ call'[c].pc = "groupMembers" /\ h = call'[c].holder /\ (h \in marred' \/ Of({h}, perms) = {})
         \/ call'[c].pc = "userMembers" /\ h = User,
         h \in Groups => call'[c].pc = "groupMembers",
         UNCHANGED <<users, groups, members, perms>>,
         marred \subseteq marred',
         h \notin marred' => \A d \in Calls : d # c => ~Granting(d, h)
  PROVE  DeletionInv'
<1>1. (\A x : ~Granting(c, x)') /\ (\A x : Deleting(c, x)' => x = h)
  BY DEF Deleting, Granting
<1>2. \A d \in Calls : \A x : d # c => (Granting(d, x)' = Granting(d, x) /\ Deleting(d, x)' = Deleting(d, x))
  BY OtherCalls
<1>3. UserDeletionClears'
  BY <1>1, <1>2 DEF DeletionInv, UserDeletionClears, Holders
<1>4. GroupDeletionClears'
  BY <1>1, <1>2, ProperNames DEF DeletionInv, GroupDeletionClears, Holders
<1>5. NothingForGone'
  BY <1>1, <1>2, ProperNames DEF DeletionInv, NothingForGone, Holders
<1>6. GoneHoldNothing'
  BY DEF DeletionInv, GoneHoldNothing, Gone
<1> QED
  BY <1>3, <1>4, <1>5, <1>6 DEF DeletionInv

(* What a call in hand does to the others' records.                        *)
LEMMA ToOthers ==
  ASSUME TypeOK, NEW c \in Calls, NEW pc \in CallSteps, To(c, pc)
  PROVE  /\ call'[c].pc = pc /\ call'[c].holder = call[c].holder
         /\ \A d \in Calls : d # c => call'[d] = call[d]
BY ToEffect DEF TypeOK

(* Calls on groups keep what is said of deletions.                         *)
LEMMA GroupCallsDeletion ==
  ASSUME TypeOK, GroupInHand, DeletionInv, NEW c \in Calls, GroupCalls(c)
  PROVE  DeletionInv'
<1>0. AnyCluster \in Clusters /\ Groups \subseteq Holders /\ User \in Holders
      /\ "readonly" \in AllTypes /\ 0 \in Nat /\ call \in [Calls -> Call]
      /\ "addGroup" \in CallSteps /\ "addCount" \in CallSteps /\ "addInsert" \in CallSteps
      /\ "groupMembers" \in CallSteps /\ "groupRow" \in CallSteps /\ "saveGroup" \in CallSteps
      /\ "done" \in CallSteps
  BY SomeClusterIn DEF Holders, AllTypes, TypeOK, CallSteps
<1>g. call[c].pc \in {"addGroup", "addCount", "addInsert", "groupMembers", "groupRow", "saveGroup"}
        => call[c].holder \in Groups
  BY DEF GroupInHand
<1>1. ASSUME NEW g \in Groups, AddUserToGroup(c, g) PROVE DeletionInv'
  <2>1. /\ Begin(c, "addGroup", g, AnyCluster, "readonly", 0)
        /\ UNCHANGED <<users, groups, members, perms>> /\ BeginsToGrant({User, g})
        /\ User \in users
    BY <1>1 DEF AddUserToGroup
  <2>2. /\ call'[c].pc = "addGroup" /\ call'[c].holder = g
        /\ \A d \in Calls : d # c => call'[d] = call[d]
    BY <1>0, <2>1, BeginEffect
  <2>3. \A h \in Holders : Granting(c, h)' => h \in {User, g}
    BY <2>2 DEF Granting
  <2>4. marred \subseteq marred' /\ \A h \in {User, g} \ marred' : \A d \in Calls : ~Deleting(d, h)
    BY <2>1 DEF BeginsToGrant
  <2> QED
    BY <1>0, <2>1, <2>2, <2>3, <2>4, GrantBegins
<1>2. ASSUME NEW g \in Groups, RemoveUserFromGroup(c, g) PROVE DeletionInv'
  <2>1. To(c, "done") /\ UNCHANGED <<users, groups, perms, marred>> /\ members' \subseteq members
    BY <1>2 DEF RemoveUserFromGroup
  <2>2. call'[c].pc = "done" /\ \A d \in Calls : d # c => call'[d] = call[d]
    BY <1>0, <2>1, ToOthers
  <2> QED
    BY <2>1, <2>2, EndsCleanly
<1>3. ASSUME NEW g \in Groups, UpdateUserGroup(c, g) PROVE DeletionInv'
  <2>1. /\ Begin(c, "saveGroup", g, AnyCluster, "readonly", 0)
        /\ UNCHANGED <<users, groups, members, perms, marred>>
    BY <1>3 DEF UpdateUserGroup
  <2>2. /\ call'[c].pc = "saveGroup" /\ \A d \in Calls : d # c => call'[d] = call[d]
    BY <1>0, <2>1, BeginEffect
  <2>3. \A h : ~Granting(c, h)' /\ ~Deleting(c, h)'
    BY <2>2 DEF Granting, Deleting
  <2>4. \A d \in Calls : \A h : d # c => (Granting(d, h)' = Granting(d, h) /\ Deleting(d, h)' = Deleting(d, h))
    BY <2>2, OtherCalls
  <2>5. UserDeletionClears'
    BY <2>1, <2>2, <2>3, <2>4 DEF DeletionInv, UserDeletionClears
  <2>6. GroupDeletionClears'
    BY <2>1, <2>2, <2>3, <2>4 DEF DeletionInv, GroupDeletionClears
  <2>7. NothingForGone' /\ GoneHoldNothing'
    BY <2>1, <2>2, <2>3, <2>4 DEF DeletionInv, NothingForGone, GoneHoldNothing, Gone
  <2> QED
    BY <2>5, <2>6, <2>7 DEF DeletionInv
<1>4. ASSUME NEW g \in Groups, DeleteUserGroup(c, g) PROVE DeletionInv'
  <2>1. /\ Begin(c, "groupMembers", g, AnyCluster, "readonly", 0)
        /\ UNCHANGED <<users, groups, members, perms>>
        /\ marred \subseteq marred'
        /\ g \in marred' \/ (Of({g}, perms) = {} /\ BeginsToDelete(g))
    BY <1>4 DEF DeleteUserGroup, BeginsToDelete
  <2>2. /\ call'[c].pc = "groupMembers" /\ call'[c].holder = g
        /\ \A d \in Calls : d # c => call'[d] = call[d]
    BY <1>0, <2>1, BeginEffect
  <2>3. g \notin marred' => \A d \in Calls : ~Granting(d, g)
    BY <2>1 DEF BeginsToDelete
  <2> QED
    BY <1>0, <2>1, <2>2, <2>3, DeleteBegins
<1>5. CASE AddFindsGroup(c) \/ AddCounts(c)
  <2>1. PICK pc \in {"addCount", "addInsert", "done"} :
          /\ To(c, pc)
          /\ pc = "addCount" => At(c, "addGroup") /\ call[c].holder \in groups
          /\ pc = "addInsert" => At(c, "addCount")
    BY <1>5 DEF AddFindsGroup, AddCounts
  <2>2. UNCHANGED <<users, groups, members, perms, marred>>
    BY <1>5 DEF AddFindsGroup, AddCounts
  <2>3. /\ call'[c].pc = pc /\ call'[c].holder = call[c].holder
        /\ \A d \in Calls : d # c => call'[d] = call[d]
    BY <1>0, <2>1, ToOthers
  <2>4. CASE pc = "done"
    BY <2>2, <2>3, <2>4, EndsCleanly
  <2>5. CASE pc # "done"
    <3>1. call[c].pc \in {"addGroup", "addCount"} /\ call[c].holder \in Groups
      BY <1>g, <2>1, <2>5 DEF At
    <3>2. \A h : Granting(c, h)' <=> Granting(c, h)
      BY <2>1, <2>3, <2>5, <3>1 DEF Granting
    <3>3. \A h : ~Deleting(c, h)' /\ ~Deleting(c, h)
      BY <2>1, <2>3, <2>5, <3>1 DEF Deleting
    <3>4. \A d \in Calls : \A h : d # c => (Granting(d, h)' = Granting(d, h) /\ Deleting(d, h)' = Deleting(d, h))
      BY <2>3, OtherCalls
    <3>5. UserDeletionClears'
      BY <2>1, <2>2, <2>3, <3>2, <3>3, <3>4 DEF DeletionInv, UserDeletionClears
    <3>6. GroupDeletionClears'
      BY <2>1, <2>2, <2>3, <3>2, <3>3, <3>4 DEF DeletionInv, GroupDeletionClears
    <3>7. NothingForGone'
      BY <2>1, <2>2, <2>3, <3>2, <3>4 DEF DeletionInv, NothingForGone, At
    <3>8. GoneHoldNothing'
      BY <2>2 DEF DeletionInv, GoneHoldNothing, Gone
    <3> QED
      BY <3>5, <3>6, <3>7, <3>8 DEF DeletionInv
  <2> QED
    BY <2>4, <2>5
<1>6. CASE AddInserts(c)
  <2>1. /\ To(c, "done") /\ UNCHANGED <<users, groups, perms, marred>>
        /\ members' = members \cup {call[c].holder} /\ call[c].pc = "addInsert"
    BY <1>6 DEF AddInserts, At
  <2>2. call'[c].pc = "done" /\ \A d \in Calls : d # c => call'[d] = call[d]
    BY <1>0, <2>1, ToOthers
  <2>3. \A h : ~Granting(c, h)' /\ ~Deleting(c, h)'
    BY <2>2 DEF Granting, Deleting
  <2>4. \A d \in Calls : \A h : d # c => (Granting(d, h)' = Granting(d, h) /\ Deleting(d, h)' = Deleting(d, h))
    BY <2>2, OtherCalls
  <2>5. Granting(c, User) /\ Granting(c, call[c].holder) /\ call[c].holder \in Groups
    BY <1>g, <2>1 DEF Granting
  <2>6. UserDeletionClears'
    <3>1. \A d \in Calls : call[d].pc \in {"userPerms", "userRow"} => Deleting(d, User)
      BY DEF Deleting
    <3> QED
      BY <2>1, <2>2, <2>3, <2>4, <2>5, <3>1 DEF DeletionInv, UserDeletionClears
  <2>7. GroupDeletionClears'
    BY <2>1, <2>2, <2>3, <2>4, <2>5 DEF DeletionInv, GroupDeletionClears
  <2>8. NothingForGone'
    BY <2>1, <2>2, <2>3, <2>4 DEF DeletionInv, NothingForGone
  <2>9. GoneHoldNothing'
    <3>1. User \in users \cup marred
      BY <2>5 DEF DeletionInv, NothingForGone
    <3>2. call[c].holder \in groups \cup marred
      BY <2>1, <2>5 DEF DeletionInv, NothingForGone
    <3> QED
      BY <2>1, <3>1, <3>2 DEF DeletionInv, GoneHoldNothing, Gone
  <2> QED
    BY <2>6, <2>7, <2>8, <2>9 DEF DeletionInv
<1>7. CASE UpdateSavesGroup(c)
  <2>1. /\ To(c, "done") /\ UNCHANGED <<users, members, perms, marred>>
        /\ groups \subseteq groups'
    BY <1>7 DEF UpdateSavesGroup
  <2>2. call'[c].pc = "done" /\ \A d \in Calls : d # c => call'[d] = call[d]
    BY <1>0, <2>1, ToOthers
  <2>3. \A h : ~Granting(c, h)' /\ ~Deleting(c, h)'
    BY <2>2 DEF Granting, Deleting
  <2>4. \A d \in Calls : \A h : d # c => (Granting(d, h)' = Granting(d, h) /\ Deleting(d, h)' = Deleting(d, h))
    BY <2>2, OtherCalls
  <2>5. UserDeletionClears' /\ GroupDeletionClears'
    BY <2>1, <2>2, <2>3, <2>4 DEF DeletionInv, UserDeletionClears, GroupDeletionClears
  <2>6. NothingForGone'
    BY <2>1, <2>2, <2>3, <2>4 DEF DeletionInv, NothingForGone
  <2>7. GoneHoldNothing'
    BY <2>1 DEF DeletionInv, GoneHoldNothing, Gone
  <2> QED
    BY <2>5, <2>6, <2>7 DEF DeletionInv
<1>8. CASE DeleteDropsGroup(c)
  <2>1. /\ To(c, "done") /\ UNCHANGED <<users, members, perms, marred>>
        /\ groups' = groups \ {call[c].holder} /\ call[c].pc = "groupRow"
    BY <1>8 DEF DeleteDropsGroup, At
  <2>2. call'[c].pc = "done" /\ \A d \in Calls : d # c => call'[d] = call[d]
    BY <1>0, <2>1, ToOthers
  <2>3. \A h : ~Granting(c, h)' /\ ~Deleting(c, h)'
    BY <2>2 DEF Granting, Deleting
  <2>4. \A d \in Calls : \A h : d # c => (Granting(d, h)' = Granting(d, h) /\ Deleting(d, h)' = Deleting(d, h))
    BY <2>2, OtherCalls
  <2>5. Deleting(c, call[c].holder) /\ call[c].holder \in Groups
    BY <1>g, <2>1 DEF Deleting
  <2>6. call[c].holder \notin marred
          => /\ \A d \in Calls : ~Granting(d, call[c].holder)
             /\ Of({call[c].holder}, perms) = {} /\ call[c].holder \notin members
    BY <2>1, <2>5 DEF DeletionInv, GroupDeletionClears
  <2>7. UserDeletionClears' /\ GroupDeletionClears'
    BY <2>1, <2>2, <2>3, <2>4 DEF DeletionInv, UserDeletionClears, GroupDeletionClears
  <2>8. NothingForGone'
    <3>1. \A d \in Calls : call[d].pc \in {"addCount", "addInsert", "insert", "save"}
            => Granting(d, call[d].holder)
      BY DEF Granting
    <3> QED
      BY <2>1, <2>2, <2>3, <2>4, <2>6, <3>1 DEF DeletionInv, NothingForGone
  <2>9. GoneHoldNothing'
    BY <2>1, <2>5, <2>6, ProperNames DEF DeletionInv, GoneHoldNothing, Gone
  <2> QED
    BY <2>7, <2>8, <2>9 DEF DeletionInv
<1>9. CASE DeleteClearsGroup(c)
  <2>1. /\ To(c, "groupRow") /\ UNCHANGED <<users, groups, perms>>
        /\ members' \subseteq members /\ marred \subseteq marred'
        /\ call[c].holder \notin marred' => call[c].holder \notin members'
        /\ call[c].pc = "groupMembers"
    BY <1>9 DEF DeleteClearsGroup, At
  <2>2. /\ call'[c].pc = "groupRow" /\ call'[c].holder = call[c].holder
        /\ \A d \in Calls : d # c => call'[d] = call[d]
    BY <1>0, <2>1, ToOthers
  <2>3. /\ \A h : ~Granting(c, h)' /\ (Deleting(c, h)' <=> Deleting(c, h))
        /\ \A h : Deleting(c, h) => h = call[c].holder
        /\ call[c].holder \in Groups
    BY <1>g, <2>1, <2>2 DEF Granting, Deleting
  <2>4. \A d \in Calls : \A h : d # c => (Granting(d, h)' = Granting(d, h) /\ Deleting(d, h)' = Deleting(d, h))
    BY <2>2, OtherCalls
  <2>5. UserDeletionClears'
    BY <2>1, <2>2, <2>3, <2>4, ProperNames DEF DeletionInv, UserDeletionClears
  <2>6. GroupDeletionClears'
    BY <2>1, <2>2, <2>3, <2>4 DEF DeletionInv, GroupDeletionClears
  <2>7. NothingForGone'
    BY <2>1, <2>2, <2>3, <2>4 DEF DeletionInv, NothingForGone
  <2>8. GoneHoldNothing'
    BY <2>1 DEF DeletionInv, GoneHoldNothing, Gone
  <2> QED
    BY <2>5, <2>6, <2>7, <2>8 DEF DeletionInv
<1> QED
  BY <1>1, <1>2, <1>3, <1>4, <1>5, <1>6, <1>7, <1>8, <1>9 DEF GroupCalls

(* A write that ends a call which was giving h something: h is not gone    *)
(* and not being deleted, or marred.                                       *)
LEMMA GrantEnds ==
  ASSUME TypeOK, DeletionInv, NEW c \in Calls, call'[c].pc = "done", \A d \in Calls : d # c => call'[d] = call[d],
         NEW h \in Holders, Granting(c, h), h \in Groups => call[c].pc \in {"insert", "save"},
         h = call[c].holder \/ (h = User /\ call[c].pc = "saveUser"),
         UNCHANGED <<groups, members, marred>>,
         users' = users \/ (h = User /\ users' = {User}),
         \A x \in Holders : x # h => Of({x}, perms') \subseteq Of({x}, perms),
         h = User /\ users' # users => perms' = perms
  PROVE  DeletionInv'
<1>1. \A x : ~Granting(c, x)' /\ ~Deleting(c, x)'
  BY DEF Granting, Deleting
<1>2. \A d \in Calls : \A x : d # c => (Granting(d, x)' = Granting(d, x) /\ Deleting(d, x)' = Deleting(d, x))
  BY OtherCalls
<1>3. User \in Holders /\ Groups \subseteq Holders /\ users \subseteq {User}
  BY DEF Holders, TypeOK
<1>4. h \notin marred => h \in users' \cup groups
  BY <1>3 DEF DeletionInv, NothingForGone, Holders, Granting
<1>5. h \notin marred => \A d \in Calls : ~Deleting(d, h)
  BY <1>3 DEF DeletionInv, UserDeletionClears, GroupDeletionClears, Holders
<1>6. UserDeletionClears'
  <2>1. \A d \in Calls : call[d].pc \in {"userPerms", "userRow"} => Deleting(d, User)
    BY DEF Deleting
  <2>2. User # h => Of({User}, perms') \subseteq Of({User}, perms)
    BY <1>3
  <2> QED
    BY <1>1, <1>2, <1>5, <2>1, <2>2 DEF DeletionInv, UserDeletionClears
<1>7. GroupDeletionClears'
  BY <1>1, <1>2, <1>3, <1>5 DEF DeletionInv, GroupDeletionClears
<1>8. NothingForGone'
  BY <1>1, <1>2, <1>3 DEF DeletionInv, NothingForGone
<1>9. GoneHoldNothing'
  BY <1>3, <1>4 DEF DeletionInv, GoneHoldNothing, Gone
<1> QED
  BY <1>6, <1>7, <1>8, <1>9 DEF DeletionInv

(* Calls on permission rows keep what is said of deletions.                *)
LEMMA PermissionCallsDeletion ==
  ASSUME TypeOK, DeletionInv, NEW c \in Calls, PermissionCalls(c)
  PROVE  DeletionInv'
<1>0. /\ Types \subseteq AllTypes /\ 0 \in Nat /\ call \in [Calls -> Call] /\ call[c] \in Call
      /\ call[c].holder \in Holders
      /\ "insert" \in CallSteps /\ "save" \in CallSteps /\ "done" \in CallSteps
  BY KnownTypes DEF TypeOK, Call, CallSteps
<1>1. ASSUME NEW h \in Holders, NEW cl \in Clusters, NEW t \in Types,
             CreateClusterPermission(c, h, cl, t)
      PROVE DeletionInv'
  <2>1. /\ Begin(c, "insert", h, cl, t, 0) /\ UNCHANGED <<users, groups, members, perms>>
        /\ IF Gone(h) THEN marred' = marred \cup {h} ELSE BeginsToGrant({h})
    BY <1>1 DEF CreateClusterPermission
  <2>2. /\ call'[c].pc = "insert" /\ call'[c].holder = h
        /\ \A d \in Calls : d # c => call'[d] = call[d]
    BY <1>0, <2>1, BeginEffect
  <2>3. \A x \in Holders : Granting(c, x)' => x \in {h}
    BY <2>2 DEF Granting
  <2>4. marred \subseteq marred' /\ \A x \in {h} \ marred' : \A d \in Calls : ~Deleting(d, x)
    BY <2>1 DEF BeginsToGrant
  <2>5. h \in users \cup groups \cup marred'
    BY <2>1 DEF Gone
  <2>6. User \in {h} => User \in users \cup marred'
    BY <2>5, ProperNames DEF TypeOK
  <2> QED
    BY <2>1, <2>2, <2>3, <2>4, <2>5, <2>6, GrantBegins
<1>2. ASSUME NEW r \in perms, NEW t \in Types, UpdateClusterPermission(c, r, t) PROVE DeletionInv'
  <2>0. r.holder \in Holders /\ r.cluster \in Clusters /\ r.id \in Nat /\ r \in Of({r.holder}, perms)
    BY DEF Row, TypeOK, Of
  <2>1. /\ Begin(c, "save", r.holder, r.cluster, t, r.id)
        /\ UNCHANGED <<users, groups, members, perms>> /\ BeginsToGrant({r.holder})
    BY <1>2 DEF UpdateClusterPermission
  <2>2. /\ call'[c].pc = "save" /\ call'[c].holder = r.holder
        /\ \A d \in Calls : d # c => call'[d] = call[d]
    BY <1>0, <2>0, <2>1, BeginEffect
  <2>3. \A x \in Holders : Granting(c, x)' => x \in {r.holder}
    BY <2>2 DEF Granting
  <2>4. marred \subseteq marred' /\ \A x \in {r.holder} \ marred' : \A d \in Calls : ~Deleting(d, x)
    BY <2>1 DEF BeginsToGrant
  <2>5. r.holder \in users \cup groups \cup marred'
    BY <2>0, <2>4 DEF DeletionInv, GoneHoldNothing, Gone
  <2>6. User \in {r.holder} => User \in users \cup marred'
    BY <2>5, ProperNames DEF TypeOK
  <2> QED
    BY <2>0, <2>1, <2>2, <2>3, <2>4, <2>5, <2>6, GrantBegins
<1>3. ASSUME NEW rows \in SUBSET perms, DeletePermissions(c, rows) PROVE DeletionInv'
  <2>1. To(c, "done") /\ UNCHANGED <<users, groups, members, marred>> /\ perms' \subseteq perms
    BY <1>3 DEF DeletePermissions
  <2>2. call'[c].pc = "done" /\ \A d \in Calls : d # c => call'[d] = call[d]
    BY <1>0, <2>1, ToOthers
  <2> QED
    BY <2>1, <2>2, EndsCleanly
<1>4. CASE CreateInserts(c) \/ UpdateSaves(c)
  <2>1. /\ To(c, "done") /\ UNCHANGED <<users, groups, members, marred>>
        /\ call[c].pc \in {"insert", "save"}
    BY <1>4 DEF CreateInserts, UpdateSaves, At
  <2>2. call'[c].pc = "done" /\ \A d \in Calls : d # c => call'[d] = call[d]
    BY <1>0, <2>1, ToOthers
  <2>3. \A r \in perms' : r \in perms \/ r.holder = call[c].holder
    BY <1>4 DEF CreateInserts, UpdateSaves
  <2>4. \A x \in Holders : x # call[c].holder => Of({x}, perms') \subseteq Of({x}, perms)
    BY <2>3 DEF Of
  <2>5. Granting(c, call[c].holder)
    BY <2>1 DEF Granting
  <2> QED
    BY <1>0, <2>1, <2>2, <2>4, <2>5, GrantEnds
<1> QED
  BY <1>1, <1>2, <1>3, <1>4 DEF PermissionCalls

(* Calls on the user keep what is said of deletions.                       *)
LEMMA UserCallsDeletion ==
  ASSUME TypeOK, DeletionInv, NEW c \in Calls, UserCalls(c) \/ Fails(c)
  PROVE  DeletionInv'
<1>0. /\ AnyCluster \in Clusters /\ User \in Holders /\ "readonly" \in AllTypes /\ 0 \in Nat
      /\ "userMembers" \in CallSteps /\ "userPerms" \in CallSteps /\ "userRow" \in CallSteps
      /\ "saveUser" \in CallSteps /\ "done" \in CallSteps /\ call \in [Calls -> Call]
      /\ users \subseteq {User} /\ User \notin Groups /\ members \subseteq Groups
  BY SomeClusterIn, ProperNames DEF Holders, AllTypes, CallSteps, TypeOK
<1>1. CASE DeleteUser(c)
  <2>1. /\ Begin(c, "userMembers", User, AnyCluster, "readonly", 0)
        /\ UNCHANGED <<users, groups, members, perms>> /\ BeginsToDelete(User)
    BY <1>1 DEF DeleteUser
  <2>2. call'[c].pc = "userMembers" /\ \A d \in Calls : d # c => call'[d] = call[d]
    BY <1>0, <2>1, BeginEffect
  <2>3. marred \subseteq marred' /\ (User \notin marred' => \A d \in Calls : ~Granting(d, User))
    BY <2>1 DEF BeginsToDelete
  <2> QED
    BY <1>0, <2>1, <2>2, <2>3, DeleteBegins
<1>2. CASE LoadUser(c)
  <2>1. /\ Begin(c, "saveUser", User, AnyCluster, "readonly", 0)
        /\ UNCHANGED <<users, groups, members, perms>> /\ BeginsToGrant({User}) /\ User \in users
    BY <1>2 DEF LoadUser
  <2>2. /\ call'[c].pc = "saveUser" /\ call'[c].holder = User
        /\ \A d \in Calls : d # c => call'[d] = call[d]
    BY <1>0, <2>1, BeginEffect
  <2>3. \A x \in Holders : Granting(c, x)' => x \in {User}
    BY <2>2 DEF Granting
  <2>4. marred \subseteq marred' /\ \A x \in {User} \ marred' : \A d \in Calls : ~Deleting(d, x)
    BY <2>1 DEF BeginsToGrant
  <2> QED
    BY <1>0, <2>1, <2>2, <2>3, <2>4, GrantBegins
<1>3. CASE SaveUser(c)
  <2>1. /\ To(c, "done") /\ UNCHANGED <<groups, members, perms, marred>> /\ users' = {User}
        /\ call[c].pc = "saveUser"
    BY <1>3 DEF SaveUser, At
  <2>2. call'[c].pc = "done" /\ \A d \in Calls : d # c => call'[d] = call[d]
    BY <1>0, <2>1, ToOthers
  <2>3. Granting(c, User)
    BY <2>1 DEF Granting
  <2> QED
    BY <1>0, <2>1, <2>2, <2>3, GrantEnds
<1>4. CASE DeleteClearsMembers(c) \/ DeleteClearsPerms(c)
  <2>1. PICK pc \in {"userPerms", "userRow"} :
          /\ To(c, pc) /\ UNCHANGED <<users, groups>> /\ marred \subseteq marred'
          /\ members' \subseteq members /\ perms' \subseteq perms
          /\ pc = "userPerms" => call[c].pc = "userMembers"
          /\ pc = "userRow" => call[c].pc = "userPerms"
          /\ pc = "userPerms" /\ User \notin marred' => members' = {}
          /\ pc = "userRow" /\ User \notin marred' => Of({User}, perms') = {}
    <3>1. CASE DeleteClearsMembers(c)
      BY <3>1 DEF DeleteClearsMembers, At
    <3>2. CASE DeleteClearsPerms(c)
      <4>1. perms' = perms \ Of({User}, perms) => Of({User}, perms') = {}
        BY DEF Of
      <4> QED
        BY <3>2, <4>1 DEF DeleteClearsPerms, At
    <3> QED
      BY <1>4, <3>1, <3>2
  <2>2. call'[c].pc = pc /\ \A d \in Calls : d # c => call'[d] = call[d]
    BY <1>0, <2>1, ToOthers
  <2>3. \A h : ~Granting(c, h)' /\ (Deleting(c, h)' <=> h = User) /\ (Deleting(c, h) <=> h = User)
    BY <2>1, <2>2 DEF Granting, Deleting
  <2>4. \A d \in Calls : \A h : d # c => (Granting(d, h)' = Granting(d, h) /\ Deleting(d, h)' = Deleting(d, h))
    BY <2>2, OtherCalls
  <2>5. \A h : Of({h}, perms') \subseteq Of({h}, perms)
    BY <2>1 DEF Of
  <2>6. UserDeletionClears'
    BY <2>1, <2>2, <2>3, <2>4, <2>5 DEF DeletionInv, UserDeletionClears
  <2>7. GroupDeletionClears'
    BY <1>0, <2>1, <2>2, <2>3, <2>4, <2>5 DEF DeletionInv, GroupDeletionClears
  <2>8. NothingForGone'
    BY <2>1, <2>2, <2>3, <2>4 DEF DeletionInv, NothingForGone
  <2>9. GoneHoldNothing'
    BY <2>1, <2>5 DEF DeletionInv, GoneHoldNothing, Gone
  <2> QED
    BY <2>6, <2>7, <2>8, <2>9 DEF DeletionInv
<1>5. CASE DeleteDropsUser(c)
  <2>1. /\ To(c, "done") /\ UNCHANGED <<groups, members, perms, marred>> /\ users' = {}
        /\ call[c].pc = "userRow"
    BY <1>5 DEF DeleteDropsUser, At
  <2>2. call'[c].pc = "done" /\ \A d \in Calls : d # c => call'[d] = call[d]
    BY <1>0, <2>1, ToOthers
  <2>3. \A h : ~Granting(c, h)' /\ ~Deleting(c, h)'
    BY <2>2 DEF Granting, Deleting
  <2>4. \A d \in Calls : \A h : d # c => (Granting(d, h)' = Granting(d, h) /\ Deleting(d, h)' = Deleting(d, h))
    BY <2>2, OtherCalls
  <2>5. User \notin marred => /\ \A d \in Calls : ~Granting(d, User)
                              /\ members = {} /\ Of({User}, perms) = {}
    BY <2>1 DEF DeletionInv, UserDeletionClears, Deleting
  <2>6. UserDeletionClears' /\ GroupDeletionClears'
    BY <2>1, <2>2, <2>3, <2>4 DEF DeletionInv, UserDeletionClears, GroupDeletionClears
  <2>7. NothingForGone'
    BY <2>1, <2>2, <2>3, <2>4, <2>5 DEF DeletionInv, NothingForGone
  <2>8. GoneHoldNothing'
    BY <1>0, <2>1, <2>5 DEF DeletionInv, GoneHoldNothing, Gone
  <2> QED
    BY <2>6, <2>7, <2>8 DEF DeletionInv
<1>6. CASE Fails(c)
  <2>1. To(c, "done") /\ UNCHANGED <<users, groups, members, perms, marred>>
    BY <1>6 DEF Fails
  <2>2. call'[c].pc = "done" /\ \A d \in Calls : d # c => call'[d] = call[d]
    BY <1>0, <2>1, ToOthers
  <2> QED
    BY <2>1, <2>2, EndsCleanly
<1> QED
  BY <1>1, <1>2, <1>3, <1>4, <1>5, <1>6 DEF UserCalls

(* Who is marred stays so, and a user who is gone unmarred stays gone.     *)
LEMMA GoneStaysGone ==
  ASSUME DeletionInv, NEW c \in Calls,
         GroupCalls(c) \/ PermissionCalls(c) \/ UserCalls(c) \/ Fails(c)
  PROVE  marred \subseteq marred' /\ (User \notin users \cup marred => User \notin users')
<1>1. CASE GroupCalls(c)
  BY <1>1 DEF GroupCalls, AddUserToGroup, RemoveUserFromGroup, UpdateUserGroup, DeleteUserGroup,
              AddFindsGroup, AddCounts, AddInserts, UpdateSavesGroup, DeleteClearsGroup,
              DeleteDropsGroup, BeginsToGrant, BeginsToDelete
<1>2. CASE PermissionCalls(c)
  BY <1>2 DEF PermissionCalls, CreateClusterPermission, UpdateClusterPermission,
              DeletePermissions, CreateInserts, UpdateSaves, BeginsToGrant
<1>3. CASE SaveUser(c)
  BY <1>3 DEF SaveUser, At, DeletionInv, NothingForGone, Granting
<1>4. CASE (UserCalls(c) /\ ~SaveUser(c)) \/ Fails(c)
  BY <1>4 DEF UserCalls, DeleteUser, LoadUser, DeleteClearsMembers, DeleteClearsPerms,
              DeleteDropsUser, Fails, BeginsToGrant, BeginsToDelete
<1> QED
  BY <1>1, <1>2, <1>3, <1>4

-----------------------------------------------------------------------------
(* A call leaves every request where it is; what lasted can only get less. *)
LEMMA CallsKeepRequests ==
  ASSUME TypeOK, TypeOK', DeletionInv, NEW c \in Calls,
         GroupCalls(c) \/ PermissionCalls(c) \/ UserCalls(c) \/ Fails(c),
         NEW q \in Requests, RequestInv(q)
  PROVE  RequestInv(q)'
<1>1. CASE UNCHANGED <<users, members, perms, req>>
  BY <1>1, GoneStaysGone DEF RequestInv, KindOfStep, LateFindsNothing, RefusedIfLate, LastingIsThere,
       LookedFor, HonoursLasting, Asking, Answered
<1>2. CASE Seen(c)
  <2>1. users' \in SUBSET {User} /\ members' \in SUBSET Groups /\ perms' \in SUBSET Row
    BY DEF TypeOK
  <2>2. /\ req'[q].pc = req[q].pc /\ req'[q].kind = req[q].kind
        /\ req'[q].cluster = req[q].cluster /\ req'[q].groups = req[q].groups
        /\ req'[q].answer = req[q].answer /\ req'[q].source = req[q].source
        /\ req'[q].notes = req[q].notes
        /\ ~Asking(q) => req'[q] = req[q]
        /\ Asking(q) /\ <<users, members, perms>>' # <<users, members, perms>>
             => /\ req'[q].lasting = req[q].lasting \cap perms'
                /\ req'[q].in = req[q].in \cap members'
        /\ <<users, members, perms>>' = <<users, members, perms>> => req'[q] = req[q]
    BY <1>2, <2>1, SeenEffect
  <2>3. req'[q].lasting \subseteq req[q].lasting /\ req'[q].in \subseteq req[q].in
    BY <2>2
  <2>4. KindOfStep(q)' /\ RefusedIfLate(q)'
    BY <2>2, GoneStaysGone DEF RequestInv, KindOfStep, RefusedIfLate, Answered
  <2>5. LateFindsNothing(q)'
    BY <2>2, GoneStaysGone DEF RequestInv, LateFindsNothing
  <2>6. LastingIsThere(q)'
    BY <2>2 DEF RequestInv, LastingIsThere, Asking
  <2>7. LookedFor(q)'
    <3>1. On(req'[q].cluster, req'[q].lasting) \subseteq On(req[q].cluster, req[q].lasting)
      BY <2>2, <2>3 DEF On
    <3>2. \A s, t, a, b : s \subseteq t /\ a \subseteq b => Of(s, a) \subseteq Of(t, b)
      BY DEF Of
    <3>3. \A a, b : a \subseteq b => Admin(a) \subseteq Admin(b)
      BY DEF Admin
    <3>4. /\ Of({User}, On(req'[q].cluster, req'[q].lasting)) \subseteq Of({User}, On(req[q].cluster, req[q].lasting))
          /\ Of(req'[q].in, On(req'[q].cluster, req'[q].lasting)) \subseteq Of(req[q].in, On(req[q].cluster, req[q].lasting))
          /\ Admin(Of({User}, req'[q].lasting)) \subseteq Admin(Of({User}, req[q].lasting))
          /\ Admin(Of(req'[q].in, req'[q].lasting)) \subseteq Admin(Of(req[q].in, req[q].lasting))
      BY <2>3, <3>1, <3>2, <3>3
    <3> QED
      BY <2>2, <2>3, <3>4 DEF RequestInv, LookedFor
  <2>8. HonoursLasting(q)'
    BY <2>2, <2>3 DEF RequestInv, HonoursLasting, Answered
  <2> QED
    BY <2>4, <2>5, <2>6, <2>7, <2>8 DEF RequestInv
<1> QED
  BY <1>1, <1>2, CallsSeen

-----------------------------------------------------------------------------
(* What a statement of a request does to its record.                       *)
LEMMA GoesEffect ==
  ASSUME TypeOK, NEW q \in Requests, NEW pc \in RequestSteps, NEW read, NEW actual,
         Goes(q, pc, read, actual)
  PROVE  /\ req' \in [Requests -> Request]
         /\ req'[q].pc = pc /\ req'[q].kind = req[q].kind /\ req'[q].cluster = req[q].cluster
         /\ req'[q].groups = req[q].groups /\ req'[q].lasting = req[q].lasting
         /\ req'[q].in = req[q].in /\ req'[q].writers = req[q].writers
         /\ req'[q].right = req[q].right
         /\ "late" \in req'[q].notes <=> "late" \in req[q].notes
         /\ "failed" \notin req'[q].notes => "failed" \notin req[q].notes /\ read = actual
         /\ \A x \in Requests : x # q => req'[x] = req[x]
<1> DEFINE n == req[q].notes \cup {m \in {"failed"} : read # actual}
           k == [req[q] EXCEPT !.pc = pc, !.notes = n]
<1>1. req[q] \in Request
  BY DEF TypeOK
<1>2. n \in SUBSET {"failed", "late"}
  BY <1>1 DEF Request
<1>3. k \in Request
  BY <1>1, <1>2 DEF Request
<1>4. /\ k.pc = pc /\ k.kind = req[q].kind /\ k.cluster = req[q].cluster
      /\ k.groups = req[q].groups /\ k.lasting = req[q].lasting /\ k.in = req[q].in
      /\ k.writers = req[q].writers /\ k.right = req[q].right /\ k.notes = n
  BY <1>1 DEF Request
<1>5. req' = [req EXCEPT ![q] = k]
  BY <1>1 DEF Goes, TypeOK, Request
<1>6. ("late" \in n <=> "late" \in req[q].notes)
      /\ ("failed" \notin n => "failed" \notin req[q].notes /\ read = actual)
  OBVIOUS
<1> HIDE DEF k, n
<1> QED
  BY <1>3, <1>4, <1>5, <1>6 DEF TypeOK

(* A request that is answered changes its own record only.                 *)
LEMMA TellsEffect ==
  ASSUME TypeOK, NEW q \in Requests, NEW a \in Answers,
         NEW s \in {"none", "own", "group", "default"}, NEW read, NEW actual,
         Tells(q, a, s, read, actual)
  PROVE  /\ req' \in [Requests -> Request]
         /\ req'[q].pc = "done" /\ req'[q].kind = req[q].kind /\ req'[q].cluster = req[q].cluster
         /\ req'[q].groups = req[q].groups /\ req'[q].lasting = req[q].lasting
         /\ req'[q].in = req[q].in /\ req'[q].writers = req[q].writers
         /\ req'[q].right = req[q].right
         /\ req'[q].answer = a /\ req'[q].source = s
         /\ "late" \in req'[q].notes <=> "late" \in req[q].notes
         /\ "failed" \notin req'[q].notes => "failed" \notin req[q].notes /\ read = actual
         /\ \A x \in Requests : x # q => req'[x] = req[x]
<1> DEFINE n == req[q].notes \cup {m \in {"failed"} : read # actual}
           k == [req[q] EXCEPT !.pc = "done", !.answer = a, !.source = s, !.notes = n]
<1>1. req[q] \in Request
  BY DEF TypeOK
<1>2. n \in SUBSET {"failed", "late"}
  BY <1>1 DEF Request
<1>3. k \in Request
  BY <1>1, <1>2 DEF Request, RequestSteps
<1>4. /\ k.pc = "done" /\ k.kind = req[q].kind /\ k.cluster = req[q].cluster
      /\ k.groups = req[q].groups /\ k.lasting = req[q].lasting /\ k.in = req[q].in
      /\ k.writers = req[q].writers /\ k.right = req[q].right /\ k.notes = n /\ k.answer = a /\ k.source = s
  BY <1>1 DEF Request
<1>5. req' = [req EXCEPT ![q] = k]
  BY <1>1 DEF Tells, TypeOK, Request
<1>6. ("late" \in n <=> "late" \in req[q].notes)
      /\ ("failed" \notin n => "failed" \notin req[q].notes /\ read = actual)
  OBVIOUS
<1> HIDE DEF k, n
<1> QED
  BY <1>3, <1>4, <1>5, <1>6 DEF TypeOK

(* A request that goes on keeps its invariant if its next step is one of   *)
(* its kind, which a deleted user's request may take, and nothing lasting  *)
(* is among what it has looked for in vain.                                *)
LEMMA GoesOn ==
  ASSUME TypeOK, NEW q \in Requests, RequestInv(q), Asking(q),
         NEW pc \in {"own", "admin", "groups", "groupRow", "groupAdmin", "rows", "default"},
         NEW read, NEW actual, Goes(q, pc, read, actual),
         UNCHANGED <<users, groups, members, perms, next, call, marred>>,
         pc \in {"own", "groupRow", "default"} => req[q].kind = "resolve",
         pc \in {"admin", "groupAdmin"} => req[q].kind # "resolve",
         pc = "rows" => req[q].kind = "list",
         "late" \in req[q].notes /\ User \notin marred
           => pc \notin {"groupRow", "groupAdmin", "rows"} /\ req[q].kind # "list",
         "failed" \notin req[q].notes /\ read = actual =>
           LET here == On(req[q].cluster, req[q].lasting)
           IN  /\ pc \in {"groupRow", "groupAdmin", "rows"} => req[q].in \subseteq req[q].groups
               /\ pc \in {"groups", "groupRow", "default"} /\ req[q].kind = "resolve"
                    => Of({User}, here) = {}
               /\ pc = "default" => Of(req[q].in, here) = {}
               /\ pc \in {"groups", "groupAdmin", "rows"} /\ req[q].kind # "resolve"
                    => Admin(Of({User}, req[q].lasting)) = {}
               /\ pc = "rows" => Admin(Of(req[q].in, req[q].lasting)) = {}
  PROVE  TypeOK' /\ RequestInv(q)'
<1>0. pc \in RequestSteps
  BY DEF RequestSteps
<1>1. /\ req' \in [Requests -> Request]
      /\ req'[q].pc = pc /\ req'[q].kind = req[q].kind /\ req'[q].cluster = req[q].cluster
      /\ req'[q].groups = req[q].groups /\ req'[q].lasting = req[q].lasting
      /\ req'[q].in = req[q].in
      /\ "late" \in req'[q].notes <=> "late" \in req[q].notes
      /\ "failed" \notin req'[q].notes => "failed" \notin req[q].notes /\ read = actual
  BY <1>0, GoesEffect
<1>2. TypeOK'
  BY <1>1 DEF TypeOK
<1>3. KindOfStep(q)' /\ RefusedIfLate(q)' /\ HonoursLasting(q)'
  BY <1>1 DEF KindOfStep, RefusedIfLate, HonoursLasting, Answered
<1>4. LateFindsNothing(q)'
  BY <1>1 DEF RequestInv, LateFindsNothing
<1>5. LastingIsThere(q)'
  BY <1>1 DEF RequestInv, LastingIsThere, Asking
<1>6. LookedFor(q)'
  BY <1>1 DEF LookedFor
<1> QED
  BY <1>2, <1>3, <1>4, <1>5, <1>6 DEF RequestInv

(* An answer keeps the invariant if a deleted user is refused and what     *)
(* lasted is honoured.                                                     *)
LEMMA TellsRight ==
  ASSUME TypeOK, NEW q \in Requests, RequestInv(q), Asking(q), NEW a \in Answers,
         NEW s \in {"none", "own", "group", "default"}, NEW read, NEW actual,
         Tells(q, a, s, read, actual),
         UNCHANGED <<users, groups, members, perms, next, call, marred>>,
         "late" \in req[q].notes /\ User \notin marred => a = {},
         "failed" \notin req[q].notes /\ read = actual =>
           \A r \in req[q].lasting :
             /\ req[q].kind = "resolve" /\ r.cluster = req[q].cluster /\ r.holder = User
                  => s = "own"
             /\ req[q].kind = "resolve" /\ r.cluster = req[q].cluster /\ r.holder \in req[q].in
                  => s = "own" \/ (s = "group" /\ \A t \in a : Field[t] <= Field[r.type])
             /\ req[q].kind = "platform" /\ r.type = "admin" /\ r.holder \in req[q].in \cup {User}
                  => a = {All}
             /\ req[q].kind = "list" /\ a # {} /\ r.holder \in req[q].in \cup {User}
                  => a = {All} \/ (r.type # "admin" /\ r.cluster \in a)
  PROVE  TypeOK' /\ RequestInv(q)'
<1>1. /\ req' \in [Requests -> Request]
      /\ req'[q].pc = "done" /\ req'[q].kind = req[q].kind /\ req'[q].cluster = req[q].cluster
      /\ req'[q].groups = req[q].groups /\ req'[q].lasting = req[q].lasting
      /\ req'[q].in = req[q].in
      /\ req'[q].answer = a /\ req'[q].source = s
      /\ "late" \in req'[q].notes <=> "late" \in req[q].notes
      /\ "failed" \notin req'[q].notes => "failed" \notin req[q].notes /\ read = actual
  BY TellsEffect
<1>2. TypeOK'
  BY <1>1 DEF TypeOK
<1>3. KindOfStep(q)' /\ LastingIsThere(q)' /\ LookedFor(q)'
  BY <1>1 DEF KindOfStep, LastingIsThere, LookedFor, Asking
<1>4. LateFindsNothing(q)' /\ RefusedIfLate(q)'
  BY <1>1 DEF RequestInv, LateFindsNothing, RefusedIfLate
<1>5. HonoursLasting(q)'
  BY <1>1 DEF HonoursLasting
<1> QED
  BY <1>2, <1>3, <1>4, <1>5 DEF RequestInv

(* What the tables have less of, a part of them has less of.               *)
LEMMA Parts ==
  ASSUME NEW a, NEW b \in SUBSET a, NEW m, NEW n \in SUBSET m, NEW cl
  PROVE  /\ On(cl, b) \subseteq On(cl, a)
         /\ Of(n, b) \subseteq Of(m, a)
         /\ Of(n, On(cl, b)) \subseteq Of(m, On(cl, a))
         /\ Admin(Of(n, b)) \subseteq Admin(Of(m, a))
BY DEF On, Of, Admin

(* A deleted user has nothing to find.                                     *)
LEMMA LateHasNothing ==
  ASSUME TypeOK, DeletionInv, NEW q \in Requests, RequestInv(q),
         "late" \in req[q].notes, User \notin marred
  PROVE  users = {} /\ members = {} /\ Of({User}, perms) = {}
<1>1. users = {} /\ Gone(User)
  BY ProperNames DEF TypeOK, RequestInv, LateFindsNothing, Gone
<1> QED
  BY <1>1 DEF DeletionInv, GoneHoldNothing, Holders

(* A request that found no permission of a group.                          *)
LEMMA OtherwiseRight ==
  ASSUME TypeOK, DeletionInv, NEW q \in Requests, RequestInv(q), NEW read, NEW actual,
         req[q].pc \in {"groups", "groupRow", "groupAdmin"}, Otherwise(q, read, actual),
         UNCHANGED <<users, groups, members, perms, next, call, marred>>,
         "failed" \notin req[q].notes /\ read = actual =>
           LET here == On(req[q].cluster, req[q].lasting)
           IN  /\ req[q].kind = "resolve" => Of({User}, here) = {} /\ Of(req[q].in, here) = {}
               /\ req[q].kind # "resolve" => /\ Admin(Of({User}, req[q].lasting)) = {}
                                             /\ Admin(Of(req[q].in, req[q].lasting)) = {}
                                             /\ req[q].in \subseteq req[q].groups
  PROVE  TypeOK' /\ RequestInv(q)'
<1>0. Asking(q) /\ req[q].kind \in {"resolve", "list", "platform"} /\ {} \in Answers
  BY DEF Asking, TypeOK, Request, Answers
<1>1. CASE req[q].kind = "resolve"
  <2>1. Goes(q, "default", read, actual)
    BY <1>1 DEF Otherwise
  <2> QED
    BY <1>0, <1>1, <2>1, GoesOn
<1>2. CASE req[q].kind = "list"
  <2>1. Goes(q, "rows", read, actual)
    BY <1>2 DEF Otherwise
  <2>2. ~("late" \in req[q].notes /\ User \notin marred)
    BY <1>2 DEF RequestInv, LateFindsNothing
  <2> QED
    BY <1>0, <1>2, <2>1, <2>2, GoesOn
<1>3. CASE req[q].kind = "platform"
  <2>1. Tells(q, {}, "none", read, actual)
    BY <1>3 DEF Otherwise
  <2>2. "failed" \notin req[q].notes /\ read = actual =>
          \A r \in req[q].lasting : ~(r.type = "admin" /\ r.holder \in req[q].in \cup {User})
    BY <1>3 DEF Admin, Of
  <2> QED
    BY <1>0, <1>3, <2>1, <2>2, TellsRight
<1> QED
  BY <1>0, <1>1, <1>2, <1>3

(* Every statement of a request keeps its invariant.                       *)
LEMMA AnsweringKeeps ==
  ASSUME TypeOK, DeletionInv, NEW q \in Requests, RequestInv(q), Answering(q)
  PROVE  TypeOK' /\ RequestInv(q)'
<1> DEFINE late == "late" \in req[q].notes /\ User \notin marred
           lasting == req[q].lasting
           here == On(req[q].cluster, lasting)
<1>0. /\ req[q] \in Request /\ perms \in SUBSET Row /\ members \in SUBSET Groups
      /\ req[q].cluster \in Clusters /\ req[q].kind \in {"resolve", "platform", "list"}
      /\ {} \in Answers /\ {All} \in Answers /\ {"readonly"} \in Answers
      /\ \A r \in Row : {r.type} \in Answers
      /\ \A s \in SUBSET Row : ClustersOf(s) \in Answers
  BY DEF TypeOK, Request, Answers, AllTypes, Row, ClustersOf
<1>1. late => users = {} /\ members = {} /\ Of({User}, perms) = {}
  BY LateHasNothing
<1>2. Asking(q) => lasting \subseteq perms /\ req[q].in \subseteq members
  BY DEF RequestInv, LastingIsThere
<1>3. CASE FindsUser(q)
  <2>1. /\ req[q].pc = "who" /\ UNCHANGED <<users, groups, members, perms, next, call, marred>>
        /\ Asking(q) /\ req[q].kind = "list"
    BY <1>3 DEF FindsUser, Reads, Asking, RequestInv, KindOfStep
  <2>2. PICK u \in Read(users, {}) :
          IF u = {} THEN Tells(q, {}, "none", u, users) ELSE Goes(q, "admin", u, users)
    BY <1>3 DEF FindsUser
  <2>3. CASE u = {}
    BY <1>0, <2>1, <2>2, <2>3, TellsRight
  <2>4. CASE u # {}
    <3>1. ~late
      BY <1>1, <2>4 DEF Read
    <3> QED
      BY <2>1, <2>2, <2>4, <3>1, GoesOn
  <2> QED
    BY <2>3, <2>4
<1>4. CASE ReadsOwn(q)
  <2>1. /\ req[q].pc = "own" /\ UNCHANGED <<users, groups, members, perms, next, call, marred>>
        /\ Asking(q) /\ req[q].kind = "resolve"
    BY <1>4 DEF ReadsOwn, Reads, Asking, RequestInv, KindOfStep
  <2> DEFINE actual == Of({User}, On(req[q].cluster, perms))
  <2>2. PICK own \in Read(actual, {}) :
          \/ own = {} /\ Goes(q, "groups", own, actual)
          \/ \E r \in own : IsFirst(r, own) /\ Tells(q, {r.type}, "own", own, actual)
    BY <1>4 DEF ReadsOwn
  <2>3. actual \subseteq Of({User}, perms) /\ Of({User}, here) \subseteq actual
    BY <1>2, <2>1 DEF Of, On
  <2>4. CASE own = {} /\ Goes(q, "groups", own, actual)
    BY <2>1, <2>3, <2>4, GoesOn
  <2>5. ASSUME NEW r \in own, Tells(q, {r.type}, "own", own, actual) PROVE TypeOK' /\ RequestInv(q)'
    <3>1. ~late
      BY <1>1, <2>3 DEF Read
    <3>2. r \in Row
      BY <1>0 DEF Read, Of, On
    <3> QED
      BY <1>0, <2>1, <2>5, <3>1, <3>2, TellsRight
  <2> QED
    BY <2>2, <2>4, <2>5
<1>5. CASE CountsAdmin(q)
  <2>1. /\ req[q].pc = "admin" /\ UNCHANGED <<users, groups, members, perms, next, call, marred>>
        /\ Asking(q) /\ req[q].kind # "resolve"
    BY <1>5 DEF CountsAdmin, Reads, Asking, RequestInv, KindOfStep
  <2> DEFINE actual == Admin(Of({User}, perms))
  <2>2. PICK own \in Read(actual, {}) :
          IF own # {} THEN Tells(q, {All}, "own", own, actual) ELSE Goes(q, "groups", own, actual)
    BY <1>5 DEF CountsAdmin
  <2>3. actual \subseteq Of({User}, perms) /\ Admin(Of({User}, lasting)) \subseteq actual
    BY <1>2, <2>1 DEF Of, Admin
  <2>4. CASE own # {}
    <3>1. ~late
      BY <1>1, <2>3, <2>4 DEF Read
    <3> QED
      BY <1>0, <2>1, <2>2, <2>4, <3>1, TellsRight
  <2>5. CASE own = {}
    <3>1. late => req[q].kind # "list"
      BY <2>1 DEF RequestInv, LateFindsNothing
    <3> QED
      BY <2>1, <2>2, <2>3, <2>5, <3>1, GoesOn
  <2> QED
    BY <2>4, <2>5
<1>6. CASE ReadsGroupRow(q)
  <2>1. /\ req[q].pc = "groupRow" /\ UNCHANGED <<users, groups, members, perms, next, call, marred>>
        /\ Asking(q) /\ req[q].kind = "resolve"
    BY <1>6 DEF ReadsGroupRow, Reads, Asking, RequestInv, KindOfStep
  <2> DEFINE actual == Of(req[q].groups, On(req[q].cluster, perms))
  <2>2. PICK rows \in Read(actual, {}) :
          \/ rows = {} /\ Otherwise(q, rows, actual)
          \/ \E r \in Top(rows) : IsFirst(r, Top(rows)) /\ Tells(q, {r.type}, "group", rows, actual)
    BY <1>6 DEF ReadsGroupRow
  <2>3. ~late
    BY <2>1 DEF RequestInv, LateFindsNothing
  <2>4. "failed" \notin req[q].notes => Of({User}, here) = {} /\ req[q].in \subseteq req[q].groups
    BY <2>1 DEF RequestInv, LookedFor
  <2>5. "failed" \notin req[q].notes => Of(req[q].in, here) \subseteq actual
    BY <1>2, <2>1, <2>4 DEF Of, On
  <2>6. CASE rows = {} /\ Otherwise(q, rows, actual)
    BY <2>1, <2>4, <2>5, <2>6, OtherwiseRight
  <2>7. ASSUME NEW r \in Top(rows), Tells(q, {r.type}, "group", rows, actual)
        PROVE TypeOK' /\ RequestInv(q)'
    <3>1. r \in Row
      BY <1>0 DEF Read, Of, On, Top
    <3>2. "failed" \notin req[q].notes /\ rows = actual =>
            \A x \in lasting :
              /\ x.cluster = req[q].cluster => x.holder # User
              /\ x.cluster = req[q].cluster /\ x.holder \in req[q].in
                   => \A t \in {r.type} : Field[t] <= Field[x.type]
      BY <2>4, <2>5 DEF Of, On, Top
    <3> QED
      BY <1>0, <2>1, <2>3, <2>7, <3>1, <3>2, TellsRight
  <2> QED
    BY <2>2, <2>6, <2>7
<1>7. CASE CountsGroupAdmin(q)
  <2>1. /\ req[q].pc = "groupAdmin" /\ UNCHANGED <<users, groups, members, perms, next, call, marred>>
        /\ Asking(q) /\ req[q].kind # "resolve"
    BY <1>7 DEF CountsGroupAdmin, Reads, Asking, RequestInv, KindOfStep
  <2> DEFINE actual == Admin(Of(req[q].groups, perms))
  <2>2. PICK rows \in Read(actual, {}) :
          IF rows # {} THEN Tells(q, {All}, "group", rows, actual) ELSE Otherwise(q, rows, actual)
    BY <1>7 DEF CountsGroupAdmin
  <2>3. ~late
    BY <2>1 DEF RequestInv, LateFindsNothing
  <2>4. "failed" \notin req[q].notes
          => Admin(Of({User}, lasting)) = {} /\ req[q].in \subseteq req[q].groups
    BY <2>1 DEF RequestInv, LookedFor
  <2>5. "failed" \notin req[q].notes => Admin(Of(req[q].in, lasting)) \subseteq actual
    BY <1>2, <2>1, <2>4 DEF Of, Admin
  <2>6. CASE rows = {}
    BY <2>1, <2>2, <2>4, <2>5, <2>6, OtherwiseRight
  <2>7. CASE rows # {}
    BY <1>0, <2>1, <2>2, <2>3, <2>7, TellsRight
  <2> QED
    BY <2>6, <2>7
<1>8. CASE ReadsRows(q)
  <2>1. /\ req[q].pc = "rows" /\ UNCHANGED <<users, groups, members, perms, next, call, marred>>
        /\ Asking(q) /\ req[q].kind = "list"
    BY <1>8 DEF ReadsRows, Reads, Asking, RequestInv, KindOfStep
  <2> DEFINE actual == Of(req[q].groups \cup {User}, perms)
  <2>2. PICK rows \in Read(actual, {}) :
          IF rows # {} THEN Tells(q, ClustersOf(rows), "own", rows, actual)
          ELSE Tells(q, {All}, "default", rows, actual)
    BY <1>8 DEF ReadsRows
  <2>3. ~late
    BY <2>1 DEF RequestInv, LateFindsNothing
  <2>4. CASE rows = {}
    BY <1>0, <2>1, <2>2, <2>3, <2>4, TellsRight
  <2>5. CASE rows # {}
    <3>1. ClustersOf(rows) \in Answers
      BY <1>0 DEF Read, Of
    <3>2. "failed" \notin req[q].notes /\ rows = actual =>
            \A r \in lasting : r.holder \in req[q].in \cup {User}
              => r.type # "admin" /\ r.cluster \in ClustersOf(rows)
      <4>1. "failed" \notin req[q].notes =>
              /\ req[q].in \subseteq req[q].groups
              /\ Admin(Of({User}, lasting)) = {} /\ Admin(Of(req[q].in, lasting)) = {}
        BY <2>1 DEF RequestInv, LookedFor
      <4> QED
        BY <1>2, <2>1, <4>1 DEF Of, Admin, ClustersOf
    <3> QED
      BY <2>1, <2>2, <2>3, <2>5, <3>1, <3>2, TellsRight
  <2> QED
    BY <2>4, <2>5
<1>9. CASE Default(q)
  <2>1. /\ req[q].pc = "default" /\ UNCHANGED <<users, groups, members, perms, next, call, marred>>
        /\ Asking(q) /\ req[q].kind = "resolve"
    BY <1>9 DEF Default, Reads, Asking, RequestInv, KindOfStep
  <2>2. PICK u \in Read(users, {}) :
          IF u = {} THEN Tells(q, {}, "none", u, users)
          ELSE Tells(q, {"readonly"}, "default", u, users)
    BY <1>9 DEF Default
  <2>3. "failed" \notin req[q].notes => \A r \in lasting :
          r.cluster = req[q].cluster => r.holder # User /\ r.holder \notin req[q].in
    BY <2>1 DEF RequestInv, LookedFor, Of, On
  <2>4. CASE u = {}
    BY <1>0, <2>1, <2>2, <2>3, <2>4, TellsRight
  <2>5. CASE u # {}
    <3>1. ~late
      BY <1>1, <2>5 DEF Read
    <3> QED
      BY <1>0, <2>1, <2>2, <2>3, <2>5, <3>1, TellsRight
  <2> QED
    BY <2>4, <2>5
<1>10. CASE ReadsGroups(q)
  <2>1. /\ req[q].pc = "groups" /\ UNCHANGED <<users, groups, members, perms, next, call, marred>>
        /\ Asking(q)
    BY <1>10 DEF ReadsGroups, Reads, Asking
  <2>2. PICK m \in Read(members, {}) :
          IF m = {} THEN Otherwise(q, m, members)
          ELSE req' = [req EXCEPT ![q].pc = IF req[q].kind = "resolve" THEN "groupRow" ELSE "groupAdmin",
                                  ![q].groups = m]
    BY <1>10 DEF ReadsGroups
  <2>3. "failed" \notin req[q].notes =>
          /\ req[q].kind = "resolve" => Of({User}, here) = {}
          /\ req[q].kind # "resolve" => Admin(Of({User}, lasting)) = {}
    BY <2>1 DEF RequestInv, LookedFor
  <2>4. CASE m = {}
    <3>1. m = members => req[q].in = {}
      BY <1>2, <2>1, <2>4
    <3>2. req[q].in = {} => Of(req[q].in, here) = {} /\ Admin(Of(req[q].in, lasting)) = {}
      BY DEF Of, Admin
    <3> QED
      BY <2>1, <2>2, <2>3, <2>4, <3>1, <3>2, OtherwiseRight
  <2>5. CASE m # {}
    <3> DEFINE pc == IF req[q].kind = "resolve" THEN "groupRow" ELSE "groupAdmin"
               k  == [req[q] EXCEPT !.pc = pc, !.groups = m]
    <3>1. m = members /\ ~late /\ pc \in RequestSteps
      BY <1>1, <2>5 DEF Read, RequestSteps
    <3>2. /\ k \in Request /\ k.pc = pc /\ k.kind = req[q].kind /\ k.cluster = req[q].cluster
          /\ k.groups = m /\ k.lasting = lasting /\ k.in = req[q].in /\ k.notes = req[q].notes
      BY <1>0, <3>1 DEF Request
    <3>3. req' = [req EXCEPT ![q] = k]
      BY <2>2, <2>5
    <3> HIDE DEF k
    <3>4. req'[q] = k /\ TypeOK'
      BY <2>1, <3>2, <3>3 DEF TypeOK
    <3>5. KindOfStep(q)' /\ RefusedIfLate(q)' /\ HonoursLasting(q)'
      BY <3>2, <3>4 DEF KindOfStep, RefusedIfLate, HonoursLasting, Answered
    <3>6. LateFindsNothing(q)' /\ LastingIsThere(q)'
      BY <1>2, <2>1, <3>1, <3>2, <3>4 DEF LateFindsNothing, LastingIsThere
    <3>7. LookedFor(q)'
      BY <1>2, <2>1, <2>3, <3>1, <3>2, <3>4 DEF LookedFor
    <3> QED
      BY <3>4, <3>5, <3>6, <3>7 DEF RequestInv
  <2> QED
    BY <2>4, <2>5
<1> QED
  BY <1>3, <1>4, <1>5, <1>6, <1>7, <1>8, <1>9, <1>10 DEF Answering

(* A request begins with its invariant.                                    *)
LEMMA AskKeeps ==
  ASSUME TypeOK, NEW q \in Requests, NEW kind \in {"resolve", "platform", "list"},
         NEW cl \in Clusters, Ask(q, kind, cl)
  PROVE  TypeOK' /\ RequestInv(q)'
<1> DEFINE pc == CASE kind = "resolve" -> "own" [] kind = "platform" -> "admin" [] kind = "list" -> "who"
           n  == {x \in {"late"} : User \notin users \cup marred}
           v  == Verdict(kind, cl, users, members, perms)
           k  == [NoRequest EXCEPT !.pc = pc, !.kind = kind, !.cluster = cl, !.notes = n,
                                   !.lasting = perms, !.in = members, !.right = {v}]
<1>1. req' = [req EXCEPT ![q] = k] /\ UNCHANGED <<users, groups, members, perms, next, call, marred>>
  BY DEF Ask
<1>2. v \in Answers
  BY VerdictType DEF TypeOK
<1>3. pc \in RequestSteps /\ n \in SUBSET {"failed", "late"}
  BY DEF RequestSteps
<1>4. \A w \in Answers :
        LET r == [NoRequest EXCEPT !.pc = pc, !.kind = kind, !.cluster = cl, !.notes = n,
                                   !.lasting = perms, !.in = members, !.right = {w}]
        IN  r \in Request /\ r.pc = pc /\ r.kind = kind /\ r.notes = n
            /\ r.lasting = perms /\ r.in = members
  BY <1>3 DEF NoRequest, Request, Answers, TypeOK
<1>5. k \in Request /\ k.pc = pc /\ k.kind = kind /\ k.notes = n /\ k.lasting = perms /\ k.in = members
  BY <1>2, <1>4
<1>6. pc \in {"own", "admin", "who"} /\ (pc = "own" => kind = "resolve")
      /\ (pc = "admin" => kind # "resolve") /\ (pc = "who" <=> kind = "list")
      /\ ("late" \in n => User \notin users)
  OBVIOUS
<1> HIDE DEF k, pc, n
<1>7. TypeOK' /\ req'[q] = k
  BY <1>1, <1>5 DEF TypeOK
<1>8. KindOfStep(q)' /\ LateFindsNothing(q)' /\ RefusedIfLate(q)'
  BY <1>1, <1>5, <1>6, <1>7 DEF KindOfStep, LateFindsNothing, RefusedIfLate, Answered
<1>9. LastingIsThere(q)' /\ LookedFor(q)' /\ HonoursLasting(q)'
  BY <1>1, <1>5, <1>6, <1>7 DEF LastingIsThere, LookedFor, HonoursLasting, Answered
<1> QED
  BY <1>7, <1>8, <1>9 DEF RequestInv

(* A step of one request is none of another, and none of a call.           *)
LEMMA OneRequest ==
  ASSUME TypeOK, NEW q \in Requests,
         Answering(q) \/ \E kind \in {"resolve", "platform", "list"}, cl \in Clusters : Ask(q, kind, cl)
  PROVE  /\ UNCHANGED <<users, groups, members, perms, next, call, marred>>
         /\ \A x \in Requests : x # q => req'[x] = req[x]
<1>1. ASSUME NEW pc, NEW read, NEW actual, Goes(q, pc, read, actual)
      PROVE \A x \in Requests : x # q => req'[x] = req[x]
  BY <1>1 DEF Goes, TypeOK
<1>2. ASSUME NEW a, NEW s, NEW read, NEW actual, Tells(q, a, s, read, actual)
      PROVE \A x \in Requests : x # q => req'[x] = req[x]
  BY <1>2 DEF Tells, TypeOK
<1>3. ASSUME NEW read, NEW actual, Otherwise(q, read, actual)
      PROVE \A x \in Requests : x # q => req'[x] = req[x]
  <2>1. req[q].kind \in {"resolve", "platform", "list"}
    BY DEF TypeOK, Request
  <2> QED
    BY <1>1, <1>2, <1>3, <2>1 DEF Otherwise
<1>4. CASE ReadsGroups(q)
  BY <1>3, <1>4 DEF ReadsGroups, Reads, TypeOK
<1>5. CASE FindsUser(q) \/ ReadsOwn(q) \/ CountsAdmin(q) \/ Default(q) \/ ReadsRows(q)
  BY <1>1, <1>2, <1>5 DEF FindsUser, ReadsOwn, CountsAdmin, Default, ReadsRows, Reads
<1>6. CASE ReadsGroupRow(q) \/ CountsGroupAdmin(q)
  BY <1>2, <1>3, <1>6 DEF ReadsGroupRow, CountsGroupAdmin, Reads
<1>7. ASSUME NEW kind \in {"resolve", "platform", "list"}, NEW cl \in Clusters, Ask(q, kind, cl)
      PROVE /\ UNCHANGED <<users, groups, members, perms, next, call, marred>>
            /\ \A x \in Requests : x # q => req'[x] = req[x]
  BY <1>7 DEF Ask, TypeOK
<1>8. Answering(q) => UNCHANGED <<users, groups, members, perms, next, call, marred>>
  BY DEF Answering, FindsUser, ReadsOwn, CountsAdmin, ReadsGroups, ReadsGroupRow,
         CountsGroupAdmin, ReadsRows, Default, Reads
<1> QED
  BY <1>4, <1>5, <1>6, <1>7, <1>8 DEF Answering

(* The others keep their invariant when one request goes on.               *)
LEMMA OthersKeep ==
  ASSUME NEW x \in Requests, RequestInv(x), req'[x] = req[x], UNCHANGED <<users, members, perms, marred>>
  PROVE  RequestInv(x)'
BY DEF RequestInv, KindOfStep, LateFindsNothing, RefusedIfLate, LastingIsThere, LookedFor,
       HonoursLasting, Asking, Answered

(* Every step keeps the inductive invariant.                               *)
LEMMA NextIInv == IInv /\ [Next]_vars => IInv'
<1> SUFFICES ASSUME IInv, [Next]_vars PROVE IInv'
  OBVIOUS
<1>0. TypeOK /\ GroupInHand /\ DeletionInv /\ \A q \in Requests : RequestInv(q)
  BY DEF IInv
<1>1. ASSUME NEW c \in Calls, GroupCalls(c) \/ PermissionCalls(c) \/ UserCalls(c) \/ Fails(c)
      PROVE IInv'
  <2>1. TypeOK' /\ GroupInHand'
    BY <1>0, <1>1, GroupCallsTyped, PermissionCallsTyped, UserCallsTyped
  <2>2. DeletionInv'
    BY <1>0, <1>1, GroupCallsDeletion, PermissionCallsDeletion, UserCallsDeletion
  <2>3. \A q \in Requests : RequestInv(q)'
    BY <1>0, <1>1, <2>1, CallsKeepRequests
  <2> QED
    BY <2>1, <2>2, <2>3 DEF IInv
<1>2. ASSUME NEW q \in Requests,
             Answering(q) \/ \E kind \in {"resolve", "platform", "list"}, cl \in Clusters : Ask(q, kind, cl)
      PROVE IInv'
  <2>1. /\ UNCHANGED <<users, groups, members, perms, next, call, marred>>
        /\ \A x \in Requests : x # q => req'[x] = req[x]
    BY <1>0, <1>2, OneRequest
  <2>2. TypeOK' /\ RequestInv(q)'
    BY <1>0, <1>2, AnsweringKeeps, AskKeeps
  <2>3. GroupInHand'
    BY <1>0, <2>1 DEF GroupInHand
  <2>4. DeletionInv'
    BY <1>0, <2>1 DEF DeletionInv, UserDeletionClears, GroupDeletionClears, NothingForGone,
                      GoneHoldNothing, Gone, Granting, Deleting
  <2>5. \A x \in Requests : x # q => RequestInv(x)'
    BY <1>0, <2>1, OthersKeep
  <2> QED
    BY <2>2, <2>3, <2>4, <2>5 DEF IInv
<1>3. CASE UNCHANGED vars
  <2>1. TypeOK' /\ GroupInHand'
    BY <1>0, <1>3 DEF TypeOK, GroupInHand, vars
  <2>2. DeletionInv'
    BY <1>0, <1>3 DEF DeletionInv, UserDeletionClears, GroupDeletionClears, NothingForGone,
                      GoneHoldNothing, Gone, Granting, Deleting, vars
  <2>3. \A q \in Requests : RequestInv(q)'
    BY <1>0, <1>3, OthersKeep DEF vars
  <2> QED
    BY <2>1, <2>2, <2>3 DEF IInv
<1> QED
  BY <1>1, <1>2, <1>3, SomeClusterIn DEF Next

-----------------------------------------------------------------------------
(* IInv holds in every reachable state, for any set of calls, requests,    *)
(* groups and clusters.                                                    *)
THEOREM InvariantHolds == Spec => []IInv
BY InitIInv, NextIInv, PTL DEF Spec

(* The tables and the records of calls and requests keep their types.      *)
THEOREM TypesHold == Spec => []TypeOK
<1>1. IInv => TypeOK
  BY DEF IInv
<1> QED
  BY <1>1, InvariantHolds, PTL

(* A user or a group that is gone, and whose deletion met nobody and lost  *)
(* no statement, has left nothing in the tables.                           *)
THEOREM DeletionIsComplete == Spec => []GoneHoldNothing
<1>1. IInv => GoneHoldNothing
  BY DEF IInv, DeletionInv
<1> QED
  BY <1>1, InvariantHolds, PTL

(* Whatever is asked with the token of a user so deleted is refused.       *)
THEOREM DeletedIsRefused == Spec => []DeletedUserIsRefused
<1>1. IInv => DeletedUserIsRefused
  BY DEF IInv, RequestInv, DeletedUserIsRefused
<1> QED
  BY <1>1, InvariantHolds, PTL

(* What the user had all through a request counts in its answer, however   *)
(* many calls changed the tables between its statements.                   *)
THEOREM LastingIsHonoured == Spec => []NothingOverlooked
<1>1. IInv => NothingOverlooked
  BY DEF IInv, RequestInv, NothingOverlooked
<1> QED
  BY <1>1, InvariantHolds, PTL

-----------------------------------------------------------------------------
(* AnswerWasRight.                                                         *)

(* A step changes the record of its own call only.                         *)
LEMMA OthersRest ==
  ASSUME TypeOK, NEW c \in Calls, GroupCalls(c) \/ PermissionCalls(c) \/ UserCalls(c) \/ Fails(c)
  PROVE  \A d \in Calls : d # c => call'[d] = call[d]
<1>1. ASSUME NEW pc, To(c, pc) PROVE \A d \in Calls : d # c => call'[d] = call[d]
  BY <1>1 DEF To, TypeOK
<1>2. ASSUME NEW pc, NEW h, NEW cl, NEW t, NEW i, Begin(c, pc, h, cl, t, i)
      PROVE \A d \in Calls : d # c => call'[d] = call[d]
  BY <1>2 DEF Begin, TypeOK
<1>3. CASE GroupCalls(c)
  BY <1>1, <1>2, <1>3 DEF GroupCalls, AddUserToGroup, RemoveUserFromGroup, UpdateUserGroup,
       DeleteUserGroup, AddFindsGroup, AddCounts, AddInserts, UpdateSavesGroup,
       DeleteClearsGroup, DeleteDropsGroup
<1>4. CASE PermissionCalls(c)
  BY <1>1, <1>2, <1>4 DEF PermissionCalls, CreateClusterPermission, UpdateClusterPermission,
       DeletePermissions, CreateInserts, UpdateSaves
<1>5. CASE UserCalls(c) \/ Fails(c)
  BY <1>1, <1>2, <1>5 DEF UserCalls, DeleteUser, LoadUser, SaveUser, DeleteClearsMembers,
       DeleteClearsPerms, DeleteDropsUser, Fails
<1> QED
  BY <1>3, <1>4, <1>5

(* The label a call goes to.                                               *)
LEMMA PlacesAt ==
  ASSUME TypeOK, NEW c \in Calls
  PROVE  /\ \A pc : To(c, pc) => call'[c].pc = pc
         /\ \A pc, h, cl, t, i : Begin(c, pc, h, cl, t, i)
              => call'[c].pc = pc /\ call'[c].holder = h /\ call'[c].id = i
<1>1. call[c] \in Call
  BY DEF TypeOK
<1> QED
  BY <1>1 DEF To, Begin, TypeOK, Call

(* A call that saves a row does so under the id and for the holder of the  *)
(* row it has loaded, and no other call does so for another holder.        *)
LEMMA IdsKept ==
  ASSUME TypeOK, IdsAreKeys, NEW c \in Calls,
         GroupCalls(c) \/ PermissionCalls(c) \/ UserCalls(c) \/ Fails(c)
  PROVE  IdsAreKeys'
<1>0. \A d \in Calls : d # c => call'[d] = call[d]
  BY OthersRest
<1>1. ASSUME perms' \subseteq perms, UNCHANGED next, ~Saving(c)' PROVE IdsAreKeys'
  BY <1>0, <1>1 DEF IdsAreKeys, Saving
<1>2. CASE GroupCalls(c)
  <2>1. UNCHANGED <<perms, next>> /\ ~Saving(c)'
    <3>1. CASE AddFindsGroup(c) \/ AddCounts(c)
      BY <3>1, PlacesAt DEF AddFindsGroup, AddCounts, Saving
    <3>2. CASE AddInserts(c) \/ UpdateSavesGroup(c) \/ DeleteClearsGroup(c) \/ DeleteDropsGroup(c)
      BY <3>2, PlacesAt DEF AddInserts, UpdateSavesGroup, DeleteClearsGroup, DeleteDropsGroup, Saving
    <3>3. ASSUME NEW g \in Groups,
                 AddUserToGroup(c, g) \/ RemoveUserFromGroup(c, g) \/ UpdateUserGroup(c, g)
                   \/ DeleteUserGroup(c, g)
          PROVE UNCHANGED <<perms, next>> /\ ~Saving(c)'
      BY <3>3, PlacesAt DEF AddUserToGroup, RemoveUserFromGroup, UpdateUserGroup, DeleteUserGroup, Saving
    <3> QED
      BY <1>2, <3>1, <3>2, <3>3 DEF GroupCalls
  <2> QED
    BY <1>1, <2>1
<1>3. CASE UserCalls(c) \/ Fails(c)
  <2>1. perms' \subseteq perms /\ UNCHANGED next /\ ~Saving(c)'
    BY <1>3, PlacesAt DEF UserCalls, DeleteUser, LoadUser, SaveUser, DeleteClearsMembers,
         DeleteClearsPerms, DeleteDropsUser, Fails, Saving
  <2> QED
    BY <1>1, <2>1
<1>4. ASSUME NEW rows \in SUBSET perms, DeletePermissions(c, rows) PROVE IdsAreKeys'
  <2>1. perms' \subseteq perms /\ UNCHANGED next /\ ~Saving(c)'
    BY <1>4, PlacesAt DEF DeletePermissions, Saving
  <2> QED
    BY <1>1, <2>1
<1>5. ASSUME NEW h \in Holders, NEW cl \in Clusters, NEW t \in Types,
             CreateClusterPermission(c, h, cl, t)
      PROVE IdsAreKeys'
  <2>1. UNCHANGED <<perms, next>> /\ ~Saving(c)'
    BY <1>5, PlacesAt DEF CreateClusterPermission, Saving
  <2> QED
    BY <1>1, <2>1
<1>6. CASE CreateInserts(c)
  <2> DEFINE new == [id |-> next, holder |-> call[c].holder, cluster |-> call[c].cluster,
                     type |-> call[c].type]
  <2>1. perms' = perms \cup {new} /\ next' = next + 1 /\ ~Saving(c)'
    BY <1>6, PlacesAt DEF CreateInserts, Saving
  <2>2. new.id = next /\ next \in Nat /\ \A r \in perms : r.id \in Nat /\ r.id < next
    BY DEF TypeOK, IdsAreKeys, Row
  <2>3. \A d \in Calls : Saving(d) => call[d].id < next /\ call[d].id \in Nat
    BY DEF TypeOK, IdsAreKeys, Call
  <2> HIDE DEF new
  <2>4. \A r \in perms' : r.id < next' /\ \A x \in perms' : x.id = r.id => x = r
    BY <2>1, <2>2 DEF IdsAreKeys
  <2>5. ASSUME NEW d \in Calls, Saving(d)'
        PROVE /\ call'[d].id < next'
              /\ \A r \in perms' : r.id = call'[d].id => r.holder = call'[d].holder
              /\ \A e \in Calls : Saving(e)' /\ call'[e].id = call'[d].id
                   => call'[e].holder = call'[d].holder
    <3>1. d # c /\ call'[d] = call[d] /\ Saving(d)
      BY <1>0, <2>1, <2>5 DEF Saving
    <3>2. \A e \in Calls : Saving(e)' => call'[e] = call[e] /\ Saving(e)
      BY <1>0, <2>1 DEF Saving
    <3> QED
      BY <2>1, <2>2, <2>3, <3>1, <3>2 DEF IdsAreKeys
  <2> QED
    BY <2>4, <2>5 DEF IdsAreKeys
<1>7. CASE UpdateSaves(c)
  <2> DEFINE new == [id |-> call[c].id, holder |-> call[c].holder, cluster |-> call[c].cluster,
                     type |-> call[c].type]
  <2>1. perms' = {r \in perms : r.id # call[c].id} \cup {new} /\ UNCHANGED next /\ ~Saving(c)' /\ Saving(c)
    BY <1>7, PlacesAt DEF UpdateSaves, Saving, At
  <2>2. new.id = call[c].id /\ new.holder = call[c].holder
    OBVIOUS
  <2> HIDE DEF new
  <2>3. \A e \in Calls : Saving(e)' => call'[e] = call[e] /\ Saving(e)
    BY <1>0, <2>1 DEF Saving
  <2>4. \A r \in perms' : r.id < next' /\ \A x \in perms' : x.id = r.id => x = r
    BY <2>1, <2>2 DEF IdsAreKeys
  <2>5. ASSUME NEW d \in Calls, Saving(d)'
        PROVE /\ call'[d].id < next'
              /\ \A r \in perms' : r.id = call'[d].id => r.holder = call'[d].holder
              /\ \A e \in Calls : Saving(e)' /\ call'[e].id = call'[d].id
                   => call'[e].holder = call'[d].holder
    BY <2>1, <2>2, <2>3, <2>5 DEF IdsAreKeys
  <2> QED
    BY <2>4, <2>5 DEF IdsAreKeys
<1>8. ASSUME NEW r \in perms, NEW t \in Types, UpdateClusterPermission(c, r, t) PROVE IdsAreKeys'
  <2>1. UNCHANGED <<perms, next>> /\ call'[c].id = r.id /\ call'[c].holder = r.holder
    BY <1>8, PlacesAt DEF UpdateClusterPermission
  <2>2. \A e \in Calls : Saving(e)' => e = c \/ (call'[e] = call[e] /\ Saving(e))
    BY <1>0 DEF Saving
  <2>3. \A x \in perms : x.id = r.id => x = r
    BY DEF IdsAreKeys
  <2>4. ASSUME NEW d \in Calls, Saving(d)'
        PROVE /\ call'[d].id < next'
              /\ \A x \in perms' : x.id = call'[d].id => x.holder = call'[d].holder
              /\ \A e \in Calls : Saving(e)' /\ call'[e].id = call'[d].id
                   => call'[e].holder = call'[d].holder
    <3>1. CASE d = c
      BY <2>1, <2>2, <2>3, <3>1 DEF IdsAreKeys
    <3>2. CASE d # c
      BY <2>1, <2>2, <2>3, <2>4, <3>2 DEF IdsAreKeys
    <3> QED
      BY <3>1, <3>2
  <2> QED
    BY <2>1, <2>4 DEF IdsAreKeys
<1> QED
  BY <1>2, <1>3, <1>4, <1>5, <1>6, <1>7, <1>8 DEF PermissionCalls

(* The labels at which a call has changed the tables are left only for one *)
(* another, and the deletion of the user goes through them in order.       *)
LEMMA StaysPlaced ==
  ASSUME TypeOK, NEW c \in Calls, GroupCalls(c) \/ PermissionCalls(c) \/ UserCalls(c) \/ Fails(c),
         call[c].pc \in {"groupRow", "userPerms", "userRow", "done"}
  PROVE  /\ call'[c].pc \in {"userRow", "done"}
         /\ call'[c].pc = "userRow" => call[c].pc = "userPerms"
<1>1. CASE GroupCalls(c)
  BY <1>1, PlacesAt DEF GroupCalls, AddUserToGroup, RemoveUserFromGroup, UpdateUserGroup,
       DeleteUserGroup, AddFindsGroup, AddCounts, AddInserts, UpdateSavesGroup,
       DeleteClearsGroup, DeleteDropsGroup, At
<1>2. CASE PermissionCalls(c)
  BY <1>2 DEF PermissionCalls, CreateClusterPermission, UpdateClusterPermission,
       DeletePermissions, CreateInserts, UpdateSaves, At
<1>3. CASE UserCalls(c) \/ Fails(c)
  BY <1>3, PlacesAt DEF UserCalls, DeleteUser, LoadUser, SaveUser, DeleteClearsMembers,
       DeleteClearsPerms, DeleteDropsUser, Fails, At
<1> QED
  BY <1>1, <1>2, <1>3

(* What requests read is no longer what it was.                            *)
Changed == <<users, members, perms>>' # <<users, members, perms>>

(* A step that changes what requests read changes one table.  A call that  *)
(* is to change them again deletes the user; and what the user holds gets  *)
(* no more by a step that touches the rows of groups.                      *)
LEMMA Changes ==
  ASSUME TypeOK, IdsAreKeys, NEW c \in Calls,
         GroupCalls(c) \/ PermissionCalls(c) \/ UserCalls(c) \/ Fails(c), Changed
  PROVE  /\ Seen(c)
         /\ call[c].pc \notin {"groupRow", "done"}
         /\ call'[c].pc \in {"groupRow", "userPerms", "userRow", "done"}
         /\ \/ UNCHANGED <<members, perms>>
            \/ UNCHANGED <<users, perms>>
            \/ /\ UNCHANGED <<users, members>>
               /\ Of({User}, perms') \subseteq perms \/ NotOwn(perms') = NotOwn(perms)
         /\ call'[c].pc = "userPerms" => UNCHANGED <<users, perms>> /\ members' = {}
         /\ call'[c].pc = "userRow" => UNCHANGED <<users, members>> /\ perms' = perms \ Of({User}, perms)
         /\ call[c].pc = "userPerms" => call'[c].pc = "userRow"
         /\ call[c].pc = "userRow"
              => UNCHANGED <<members, perms>> /\ users' = {} /\ call'[c].pc = "done"
<1> USE DEF Changed
<1>1. CASE GroupCalls(c)
  <2>1. CASE AddInserts(c) \/ DeleteClearsGroup(c)
    BY <2>1, PlacesAt DEF AddInserts, DeleteClearsGroup, At
  <2>2. ASSUME NEW g \in Groups, RemoveUserFromGroup(c, g)
        PROVE Seen(c) /\ call[c].pc = "idle" /\ call'[c].pc = "done" /\ UNCHANGED <<users, perms>>
    BY <2>2, PlacesAt DEF RemoveUserFromGroup, At
  <2>3. ~(\E g \in Groups : AddUserToGroup(c, g) \/ UpdateUserGroup(c, g) \/ DeleteUserGroup(c, g))
    BY DEF AddUserToGroup, UpdateUserGroup, DeleteUserGroup
  <2>4. ~(AddFindsGroup(c) \/ AddCounts(c) \/ UpdateSavesGroup(c) \/ DeleteDropsGroup(c))
    BY DEF AddFindsGroup, AddCounts, UpdateSavesGroup, DeleteDropsGroup
  <2> QED
    BY <1>1, <2>1, <2>2, <2>3, <2>4 DEF GroupCalls
<1>2. CASE PermissionCalls(c)
  <2>1. /\ Seen(c) /\ call[c].pc \in {"idle", "insert", "save"} /\ call'[c].pc = "done"
        /\ UNCHANGED <<users, members>>
    BY <1>2, PlacesAt DEF PermissionCalls, CreateClusterPermission, UpdateClusterPermission,
         DeletePermissions, CreateInserts, UpdateSaves, At
  <2>2. CASE \E rows \in SUBSET perms : DeletePermissions(c, rows)
    BY <2>1, <2>2 DEF DeletePermissions, Of
  <2>3. CASE CreateInserts(c)
    BY <2>1, <2>3 DEF CreateInserts, Of, NotOwn
  <2>4. CASE UpdateSaves(c)
    <3>1. \A r \in perms : r.id = call[c].id => r.holder = call[c].holder
      BY <2>4 DEF UpdateSaves, At, IdsAreKeys, Saving
    <3>2. Of({User}, perms') \subseteq perms \/ NotOwn(perms') = NotOwn(perms)
      BY <2>4, <3>1 DEF UpdateSaves, Of, NotOwn
    <3> QED
      BY <2>1, <3>2
  <2> QED
    BY <1>2, <2>2, <2>3, <2>4 DEF PermissionCalls, CreateClusterPermission, UpdateClusterPermission
<1>3. CASE UserCalls(c) \/ Fails(c)
  <2>1. CASE SaveUser(c) \/ DeleteDropsUser(c)
    BY <2>1, PlacesAt DEF SaveUser, DeleteDropsUser, At
  <2>2. CASE DeleteClearsMembers(c)
    BY <2>2, PlacesAt DEF DeleteClearsMembers, At
  <2>3. CASE DeleteClearsPerms(c)
    <3>1. Seen(c) /\ call[c].pc = "userPerms" /\ call'[c].pc = "userRow" /\ UNCHANGED <<users, members>>
      BY <2>3, PlacesAt DEF DeleteClearsPerms, At
    <3>2. perms' = perms \ Of({User}, perms)
      BY <2>3 DEF DeleteClearsPerms
    <3> QED
      BY <3>1, <3>2 DEF Of
  <2> QED
    BY <1>3, <2>1, <2>2, <2>3 DEF UserCalls, DeleteUser, LoadUser, Fails
<1> QED
  BY <1>1, <1>2, <1>3

(* What the rows of groups, and without them the user's own, let a request *)
(* for a permission answer.                                                *)
Shared(rows, u) == IF rows # {} THEN TypesOf(Top(rows)) ELSE IF u = {} THEN {} ELSE {"readonly"}

(* What the rows of others let a request answer.                           *)
LEMMA WithoutOwn ==
  \A cl, u, p : \A m \in SUBSET Groups :
    /\ Verdict("resolve", cl, u, m, NotOwn(p)) = Shared(Of(m, On(cl, p)), u)
    /\ Verdict("platform", cl, u, m, NotOwn(p)) = IF Admin(Of(m, p)) # {} THEN {All} ELSE {}
<1> TAKE cl, u, p
<1> TAKE m \in SUBSET Groups
<1>1. User \notin m
  BY ProperNames
<1>2. /\ Of({User}, On(cl, NotOwn(p))) = {}
      /\ Of(m, On(cl, NotOwn(p))) = Of(m, On(cl, p))
      /\ Admin(Of(m \cup {User}, NotOwn(p))) = Admin(Of(m, p))
  BY <1>1 DEF Of, On, NotOwn, Admin
<1> QED
  BY <1>2 DEF Verdict, Resolved, Shared

(* A request without rows of its own answers by those of others.           *)
LEMMA HoldsNothing ==
  \A cl, u, m, p :
    /\ Own("resolve", cl, p) = {} => Verdict("resolve", cl, u, m, p) = Shared(Of(m, On(cl, p)), u)
    /\ Own("platform", cl, p) = {}
         => Verdict("platform", cl, u, m, p) = IF Admin(Of(m, p)) # {} THEN {All} ELSE {}
<1> TAKE cl, u, m, p
<1>1. ASSUME Own("resolve", cl, p) = {}
      PROVE  Verdict("resolve", cl, u, m, p) = Shared(Of(m, On(cl, p)), u)
  <2>1. Of({User}, On(cl, p)) = {}
    BY <1>1 DEF Own
  <2> QED
    BY <2>1 DEF Verdict, Resolved, Shared
<1>2. ASSUME Own("platform", cl, p) = {}
      PROVE  Verdict("platform", cl, u, m, p) = IF Admin(Of(m, p)) # {} THEN {All} ELSE {}
  <2>1. Admin(Of(m \cup {User}, p)) = Admin(Of(m, p))
    BY <1>2 DEF Own, Of, Admin
  <2> QED
    BY <2>1 DEF Verdict
<1> QED
  BY <1>1, <1>2

(* A call leaves its mark on the requests it overtakes.                    *)
LEMMA WritersStayPlaced ==
  ASSUME TypeOK, TypeOK', IdsAreKeys, WritersArePlaced, NEW c \in Calls,
         GroupCalls(c) \/ PermissionCalls(c) \/ UserCalls(c) \/ Fails(c)
  PROVE  WritersArePlaced'
<1> SUFFICES ASSUME NEW q \in Requests, NEW d \in req'[q].writers
             PROVE  call'[d].pc \in {"groupRow", "userPerms", "userRow", "done"}
  BY DEF WritersArePlaced
<1>1. \A e \in Calls : e # c => call'[e] = call[e]
  BY OthersRest
<1>2. call[c].pc \in {"groupRow", "userPerms", "userRow", "done"} => call'[c].pc \in {"userRow", "done"}
  BY StaysPlaced
<1>3. d \in Calls
  BY DEF TypeOK, Request
<1>4. CASE d \in req[q].writers
  BY <1>1, <1>2, <1>3, <1>4 DEF WritersArePlaced
<1>5. CASE d \notin req[q].writers
  <2>1. Changed /\ d = c
    <3>1. users' \in SUBSET {User} /\ members' \in SUBSET Groups /\ perms' \in SUBSET Row
      BY DEF TypeOK
    <3> QED
      BY <1>5, <3>1, CallsSeen, SeenEffect DEF Changed
  <2> QED
    BY <2>1, Changes
<1> QED
  BY <1>4, <1>5

(* A change that a request under way goes through, while it is the first   *)
(* or its call has made the others too: what the request would answer if   *)
(* it has found no row of its own stays right at some moment.              *)
LEMMA PassedOn ==
  ASSUME TypeOK, TypeOK', IdsAreKeys, WritersArePlaced, NEW c \in Calls, Changed,
         GroupCalls(c) \/ PermissionCalls(c) \/ UserCalls(c) \/ Fails(c),
         NEW q \in Requests, Asking(q), KindOfStep(q), OwnPassed(q), req[q].writers \subseteq {c}
  PROVE  OwnPassed(q)'
<1> DEFINE k == req[q]
           V(u, m, p) == Verdict(k.kind, k.cluster, u, m, p)
           own(p)     == Own(k.kind, k.cluster, p)
<1>1. /\ req'[q].pc = k.pc /\ req'[q].kind = k.kind /\ req'[q].cluster = k.cluster
      /\ req'[q].groups = k.groups /\ req'[q].writers = {c}
      /\ req'[q].right = k.right \cup {V(users', members', perms')}
  <2>1. users' \in SUBSET {User} /\ members' \in SUBSET Groups /\ perms' \in SUBSET Row
    BY DEF TypeOK
  <2>2. Seen(c)
    BY Changes
  <2> QED
    BY <2>1, <2>2, SeenEffect DEF Changed
<1> SUFFICES ASSUME k.kind # "list", k.pc \in {"groups", "groupRow", "groupAdmin", "default"}
             PROVE  /\ V(users', ToSee(q)', NotOwn(perms')) \in req'[q].right
                    /\ Open(q)' =>
                         /\ own(perms') = {}
                         /\ k.pc \in {"groupRow", "groupAdmin"} => members' \subseteq k.groups
                         /\ k.pc = "default" => Of(members', On(k.cluster, perms')) = {}
  BY <1>1 DEF OwnPassed
<1>2. /\ k.kind \in {"resolve", "platform"} /\ k.groups \in SUBSET Groups
      /\ members \in SUBSET Groups /\ members' \in SUBSET Groups /\ {} \in SUBSET Groups
      /\ (k.pc \in {"groupRow", "default"} => k.kind = "resolve")
      /\ (k.pc = "groupAdmin" => k.kind = "platform")
  BY DEF TypeOK, Request, KindOfStep
<1>n. \A u, p : \A m \in SUBSET Groups :
        /\ k.kind = "resolve" => V(u, m, NotOwn(p)) = Shared(Of(m, On(k.cluster, p)), u)
        /\ k.kind = "platform" => V(u, m, NotOwn(p)) = IF Admin(Of(m, p)) # {} THEN {All} ELSE {}
        /\ own(p) = {} => V(u, m, p) = V(u, m, NotOwn(p))
  <2> TAKE u, p
  <2> TAKE m \in SUBSET Groups
  <2>1. /\ k.kind = "resolve" => V(u, m, NotOwn(p)) = Shared(Of(m, On(k.cluster, p)), u)
        /\ k.kind = "platform" => V(u, m, NotOwn(p)) = IF Admin(Of(m, p)) # {} THEN {All} ELSE {}
    <3>1. Verdict("resolve", k.cluster, u, m, NotOwn(p)) = Shared(Of(m, On(k.cluster, p)), u)
      BY WithoutOwn
    <3>2. Verdict("platform", k.cluster, u, m, NotOwn(p)) = IF Admin(Of(m, p)) # {} THEN {All} ELSE {}
      BY WithoutOwn
    <3> QED
      BY <3>1, <3>2
  <2>2. ASSUME own(p) = {} PROVE V(u, m, p) = V(u, m, NotOwn(p))
    <3>1. CASE k.kind = "resolve"
      <4>1. V(u, m, p) = Shared(Of(m, On(k.cluster, p)), u)
        BY <2>2, <3>1, HoldsNothing
      <4> QED
        BY <2>1, <3>1, <4>1
    <3>2. CASE k.kind = "platform"
      <4>1. V(u, m, p) = IF Admin(Of(m, p)) # {} THEN {All} ELSE {}
        BY <2>2, <3>2, HoldsNothing
      <4> QED
        BY <2>1, <3>2, <4>1
    <3> QED
      BY <1>2, <3>1, <3>2
  <2> QED
    BY <2>1, <2>2
<1>3. V(users, ToSee(q), NotOwn(perms)) \in k.right
  BY DEF OwnPassed
(* The call has changed something before only if it deletes the user.      *)
<1>4. Open(q)
  BY Changes DEF Open, WritersArePlaced
<1>5. /\ own(perms) = {}
      /\ k.pc \in {"groupRow", "groupAdmin"} => members \subseteq k.groups
      /\ k.pc = "default" => Of(members, On(k.cluster, perms)) = {}
  BY <1>4 DEF OwnPassed
<1>6. k.writers = {} /\ k.pc \in {"groupRow", "groupAdmin"} => members = k.groups
  BY DEF OwnPassed
<1>t. /\ k.pc = "groups" => ToSee(q) = members /\ ToSee(q)' = members'
      /\ k.pc \in {"groupRow", "groupAdmin"} => ToSee(q) = k.groups /\ ToSee(q)' = k.groups
      /\ k.pc = "default" => ToSee(q) = {} /\ ToSee(q)' = {}
  BY <1>1 DEF ToSee
<1>w. k.writers = {} \/ (k.writers = {c} /\ call[c].pc \in {"userPerms", "userRow"})
  BY <1>4 DEF Open
<1>7. Open(q)' => /\ own(perms') = {}
                  /\ k.pc \in {"groupRow", "groupAdmin"} => members' \subseteq k.groups
                  /\ k.pc = "default" => Of(members', On(k.cluster, perms')) = {}
  <2>1. Open(q)' => members' \subseteq members /\ perms' \subseteq perms
    <3>1. Open(q)' => call'[c].pc \in {"userPerms", "userRow"}
      BY <1>1 DEF Open
    <3> QED
      BY <3>1, Changes
  <2>2. perms' \subseteq perms => own(perms') \subseteq own(perms)
    BY DEF Own, Of, On, Admin
  <2>3. members' \subseteq members /\ perms' \subseteq perms
          => Of(members', On(k.cluster, perms')) \subseteq Of(members, On(k.cluster, perms))
    BY DEF Of, On
  <2> QED
    BY <1>5, <2>1, <2>2, <2>3
<1>8. V(users', ToSee(q)', NotOwn(perms')) \in k.right \cup {V(users', members', perms')}
  <2>1. ASSUME own(perms') = {}
        PROVE  V(users', members', perms') = V(users', members', NotOwn(perms'))
    BY <1>2, <2>1, <1>n
  <2>2. CASE UNCHANGED <<users, perms>>
    BY <1>3, <1>5, <1>t, <2>1, <2>2
  <2>3. CASE UNCHANGED <<users, members>> /\ NotOwn(perms') = NotOwn(perms)
    BY <1>3, <1>t, <2>3
  <2>4. CASE UNCHANGED <<users, members>> /\ Of({User}, perms') \subseteq perms
    <3>1. own(perms') = {}
      <4>1. own(perms') \subseteq own(perms)
        BY <2>4 DEF Own, Of, On, Admin
      <4> QED
        BY <1>5, <4>1
    <3>2. CASE k.writers = {}
      <4>1. k.pc = "default" => V(users', {}, NotOwn(perms')) = V(users, {}, NotOwn(perms))
        <5>1. Of({}, On(k.cluster, perms')) = {} /\ Of({}, On(k.cluster, perms)) = {}
          BY DEF Of
        <5> QED
          BY <1>2, <2>4, <5>1, <1>n
      <4> QED
        BY <1>3, <1>6, <1>t, <2>1, <2>4, <3>1, <3>2, <4>1
    <3>3. CASE call[c].pc \in {"userPerms", "userRow"}
      <4>1. perms' = perms \ Of({User}, perms) \/ UNCHANGED perms
        BY <3>3, Changes
      <4>2. NotOwn(perms') = NotOwn(perms)
        BY <4>1 DEF NotOwn, Of
      <4> QED
        BY <2>3, <2>4, <4>2
    <3> QED
      BY <1>w, <3>2, <3>3
  <2>5. CASE UNCHANGED <<members, perms>>
    <3> DEFINE cl == k.cluster
    <3>1. V(users', members, perms) = V(users', members, NotOwn(perms))
      BY <1>2, <1>5, <1>n
    <3>2. CASE k.pc = "groups"
      BY <1>t, <2>5, <3>1, <3>2
    <3>3. CASE k.pc = "groupAdmin"
      <4>1. V(users', k.groups, NotOwn(perms)) = V(users, k.groups, NotOwn(perms))
        BY <1>2, <3>3, <1>n
      <4> QED
        BY <1>3, <1>t, <2>5, <3>3, <4>1
    <3>4. CASE k.pc = "groupRow"
      <4>1. CASE Of(k.groups, On(cl, perms)) # {}
        <5>1. V(users', k.groups, NotOwn(perms)) = V(users, k.groups, NotOwn(perms))
          BY <1>2, <3>4, <4>1, <1>n DEF Shared
        <5> QED
          BY <1>3, <1>t, <2>5, <3>4, <5>1
      <4>2. CASE Of(k.groups, On(cl, perms)) = {}
        <5>1. Of(members, On(cl, perms)) = {}
          BY <1>5, <3>4, <4>2 DEF Of
        <5>2. V(users', k.groups, NotOwn(perms)) = V(users', members, NotOwn(perms))
          BY <1>2, <3>4, <4>2, <5>1, <1>n
        <5> QED
          BY <1>t, <2>5, <3>1, <3>4, <5>2
      <4> QED
        BY <4>1, <4>2
    <3>5. CASE k.pc = "default"
      <4>1. Of({}, On(cl, perms)) = {} /\ Of(members, On(cl, perms)) = {}
        BY <1>5, <3>5 DEF Of
      <4>2. V(users', {}, NotOwn(perms)) = V(users', members, NotOwn(perms))
        BY <1>2, <3>5, <4>1, <1>n
      <4> QED
        BY <1>t, <2>5, <3>1, <3>5, <4>2
    <3> QED
      BY <3>2, <3>3, <3>4, <3>5
  <2> QED
    BY <2>2, <2>3, <2>4, <2>5, Changes
<1> QED
  BY <1>1, <1>7, <1>8

(* What a call changes, a request under way takes down.                    *)
LEMMA CallsKeepRight ==
  ASSUME TypeOK, TypeOK', IdsAreKeys, WritersArePlaced, NEW c \in Calls,
         GroupCalls(c) \/ PermissionCalls(c) \/ UserCalls(c) \/ Fails(c),
         NEW q \in Requests, KindOfStep(q), RightSoFar(q)
  PROVE  RightSoFar(q)'
<1>0. users' \in SUBSET {User} /\ members' \in SUBSET Groups /\ perms' \in SUBSET Row
  BY DEF TypeOK
<1>1. CASE ~Asking(q)
  <2>1. req'[q] = req[q]
    BY <1>0, <1>1, CallsSeen, SeenEffect
  <2> QED
    BY <1>1, <2>1 DEF RightSoFar, Asking, Answered
<1>2. CASE Asking(q) /\ ~Changed
  <2>1. req'[q] = req[q] /\ UNCHANGED <<users, members, perms>>
    BY <1>0, <1>2, CallsSeen, SeenEffect DEF Changed
  <2>2. Open(q)' => Open(q)
    <3> SUFFICES ASSUME Open(q)', NEW d \in req[q].writers
                 PROVE  call[d].pc \in {"userPerms", "userRow"}
      BY DEF Open
    <3>1. d \in Calls /\ call'[d].pc \in {"userPerms", "userRow"}
      BY <2>1 DEF Open, TypeOK, Request
    <3>2. call[d].pc \in {"groupRow", "userPerms", "userRow", "done"}
      BY DEF WritersArePlaced
    <3>3. CASE d = c
      BY <3>1, <3>2, <3>3, StaysPlaced
    <3>4. CASE d # c
      BY <3>1, <3>4, OthersRest
    <3> QED
      BY <3>3, <3>4
  <2>3. ToSee(q)' = ToSee(q)
    BY <2>1 DEF ToSee
  <2>4. OwnPassed(q) => OwnPassed(q)'
    BY <2>1, <2>2, <2>3 DEF OwnPassed
  <2>5. ListUndisturbed(q) => ListUndisturbed(q)'
    BY <2>1 DEF ListUndisturbed
  <2> QED
    BY <1>2, <2>1, <2>4, <2>5 DEF RightSoFar, Asking, Answered, OneWriter
<1>3. CASE Asking(q) /\ Changed
  <2>1. /\ req'[q].pc = req[q].pc /\ req'[q].kind = req[q].kind /\ req'[q].cluster = req[q].cluster
        /\ req'[q].notes = req[q].notes /\ req'[q].writers = req[q].writers \cup {c}
        /\ req'[q].right = req[q].right \cup
             {Verdict(req[q].kind, req[q].cluster, users', members', perms')}
    <3>1. Seen(c)
      BY <1>3, Changes
    <3> QED
      BY <1>0, <1>3, <3>1, SeenEffect DEF Changed
  <2>2. ASSUME "failed" \notin req[q].notes, OneWriter(q)' PROVE OwnPassed(q)' /\ ListUndisturbed(q)'
    <3>1. req[q].writers \subseteq {c} /\ OneWriter(q)
      BY <2>1, <2>2 DEF OneWriter
    <3>2. OwnPassed(q)
      BY <1>3, <2>2, <3>1 DEF RightSoFar
    <3> QED
      BY <1>3, <2>1, <3>1, <3>2, PassedOn DEF ListUndisturbed
  <2>3. Asking(q)' /\ ~Answered(q)'
    BY <1>3, <2>1 DEF Asking, Answered
  <2>4. Verdict(req'[q].kind, req'[q].cluster, users', members', perms') \in req'[q].right
    BY <2>1
  <2> QED
    BY <2>1, <2>2, <2>3, <2>4 DEF RightSoFar
<1> QED
  BY <1>1, <1>2, <1>3

-----------------------------------------------------------------------------
(* A statement of a request, when its tables are left alone meanwhile.     *)
LEMMA RightIf ==
  ASSUME NEW q \in Requests, RightSoFar(q), Asking(q),
         UNCHANGED <<users, members, perms>>,
         req'[q].kind = req[q].kind, req'[q].cluster = req[q].cluster,
         req'[q].writers = req[q].writers, req'[q].right = req[q].right,
         "failed" \notin req'[q].notes => "failed" \notin req[q].notes,
         Asking(q)' /\ "failed" \notin req'[q].notes /\ OneWriter(q)
           => OwnPassed(q)' /\ ListUndisturbed(q)',
         Answered(q)' /\ "failed" \notin req'[q].notes
           /\ (\A c, d \in req[q].writers : c = d /\ req[q].kind # "list")
           => req'[q].answer \in req[q].right
  PROVE  RightSoFar(q)'
BY DEF RightSoFar, OneWriter

(* A request that goes on is right so far if what it has passed is.        *)
LEMMA GoesRight ==
  ASSUME TypeOK, NEW q \in Requests, RightSoFar(q), Asking(q),
         NEW pc \in {"own", "admin", "groups", "groupRow", "groupAdmin", "rows", "default"},
         NEW read, NEW actual, Goes(q, pc, read, actual),
         UNCHANGED <<users, groups, members, perms, next, call, marred>>,
         req'[q].pc = pc /\ read = actual /\ "failed" \notin req[q].notes /\ OneWriter(q)
           /\ OwnPassed(q) /\ ListUndisturbed(q)
           => OwnPassed(q)' /\ ListUndisturbed(q)'
  PROVE  RightSoFar(q)'
<1>1. pc \in RequestSteps
  BY DEF RequestSteps
<1>2. /\ req'[q].pc = pc /\ req'[q].kind = req[q].kind /\ req'[q].cluster = req[q].cluster
      /\ req'[q].writers = req[q].writers /\ req'[q].right = req[q].right
      /\ "failed" \notin req'[q].notes => "failed" \notin req[q].notes /\ read = actual
  BY <1>1, GoesEffect
<1>3. ~Answered(q)'
  BY <1>2 DEF Answered
<1>4. Asking(q)' /\ "failed" \notin req'[q].notes /\ OneWriter(q) => OwnPassed(q)' /\ ListUndisturbed(q)'
  BY <1>2 DEF RightSoFar
<1> QED
  BY <1>2, <1>3, <1>4, RightIf

(* An answer is right if it was at some moment.                            *)
LEMMA TellsTrue ==
  ASSUME TypeOK, NEW q \in Requests, RightSoFar(q), Asking(q), NEW a \in Answers,
         NEW s \in {"none", "own", "group", "default"}, NEW read, NEW actual,
         Tells(q, a, s, read, actual),
         UNCHANGED <<users, groups, members, perms, next, call, marred>>,
         read = actual /\ "failed" \notin req[q].notes /\ OneWriter(q)
           /\ (req[q].kind = "list" => req[q].writers = {})
           /\ OwnPassed(q) /\ ListUndisturbed(q)
           => a \in req[q].right
  PROVE  RightSoFar(q)'
<1>1. /\ req'[q].pc = "done" /\ req'[q].kind = req[q].kind /\ req'[q].cluster = req[q].cluster
      /\ req'[q].writers = req[q].writers /\ req'[q].right = req[q].right /\ req'[q].answer = a
      /\ "failed" \notin req'[q].notes => "failed" \notin req[q].notes /\ read = actual
  BY TellsEffect
<1>2. ~Asking(q)'
  BY <1>1 DEF Asking
<1>3. (\A c, d \in req[q].writers : c = d /\ req[q].kind # "list")
        => OneWriter(q) /\ (req[q].kind = "list" => req[q].writers = {})
  BY DEF OneWriter
<1>4. Answered(q)' /\ "failed" \notin req'[q].notes
        /\ (\A c, d \in req[q].writers : c = d /\ req[q].kind # "list")
        => req'[q].answer \in req[q].right
  BY <1>1, <1>3 DEF RightSoFar
<1> QED
  BY <1>1, <1>2, <1>4, RightIf

(* Of rows that First orders, it takes one.                                *)
LEMMA OneIsFirst ==
  ASSUME IdsAreKeys, perms \in SUBSET Row, NEW rows \in SUBSET perms, NEW r \in rows, IsFirst(r, rows)
  PROVE  TypesOf({x \in rows : IsFirst(x, rows)}) = {r.type}
<1>1. \A x \in rows : IsFirst(x, rows) => x.id = r.id
  <2>1. \A x \in rows : x.id \in Nat
    BY DEF Row
  <2> QED
    BY <2>1 DEF IsFirst
<1>2. \A x \in rows : IsFirst(x, rows) => x = r
  BY <1>1 DEF IdsAreKeys
<1> QED
  BY <1>2 DEF TypesOf

(* Rows at the top have one type.                                          *)
LEMMA OneTypeOnTop ==
  ASSUME NEW rows \in SUBSET Row, NEW r \in Top(rows)
  PROVE  rows # {} /\ TypesOf(Top(rows)) = {r.type}
<1>1. ASSUME NEW x \in Top(rows) PROVE x.type = r.type
  <2>1. x.type \in AllTypes /\ r.type \in AllTypes
    BY <1>1 DEF Top, Row
  <2>2. Field[x.type] <= Field[r.type] /\ Field[r.type] <= Field[x.type]
    BY <1>1 DEF Top
  <2>3. \A t \in AllTypes : Field[t] = CASE t = "admin" -> 1 [] t = "ops" -> 2 [] t = "dev" -> 3
                                         [] t = "readonly" -> 4 [] t = "custom" -> 5
    BY DEF Field
  <2>4. Field["admin"] = 1 /\ Field["ops"] = 2 /\ Field["dev"] = 3 /\ Field["readonly"] = 4
        /\ Field["custom"] = 5
    BY <2>3 DEF AllTypes
  <2> QED
    BY <2>1, <2>2, <2>4 DEF AllTypes
<1> QED
  BY <1>1 DEF TypesOf, Top

(* What a request goes on with that has found no permission of a group.    *)
LEMMA OtherwiseTrue ==
  ASSUME TypeOK, NEW q \in Requests, KindOfStep(q), RightSoFar(q), NEW read, NEW actual,
         req[q].pc \in {"groups", "groupRow", "groupAdmin"}, Otherwise(q, read, actual),
         UNCHANGED <<users, groups, members, perms, next, call, marred>>,
         read = actual /\ req[q].kind = "resolve" => Of(ToSee(q), On(req[q].cluster, perms)) = {},
         read = actual /\ req[q].kind # "resolve" => Admin(Of(ToSee(q), perms)) = {},
         req[q].pc = "groups" /\ read = actual => members = {}
  PROVE  RightSoFar(q)'
<1> DEFINE k == req[q]
<1>1. /\ Asking(q) /\ k \in Request /\ {} \in Answers /\ k.kind \in {"resolve", "list", "platform"}
      /\ members \in SUBSET Groups /\ k.groups \in SUBSET Groups /\ {} \in SUBSET Groups
      /\ ToSee(q) \in SUBSET Groups
  BY DEF Asking, TypeOK, Request, Answers, ToSee
<1>2. CASE k.kind = "resolve"
  <2>1. Goes(q, "default", read, actual) /\ "default" \in RequestSteps
    BY <1>2 DEF Otherwise, RequestSteps
  <2>2. /\ req'[q].kind = k.kind /\ req'[q].cluster = k.cluster
        /\ req'[q].writers = k.writers /\ req'[q].right = k.right
    BY <2>1, GoesEffect
  <2>3. ASSUME req'[q].pc = "default", read = actual, OwnPassed(q)
        PROVE  OwnPassed(q)' /\ ListUndisturbed(q)'
    <3>1. Of(ToSee(q), On(k.cluster, perms)) = {} /\ Of({}, On(k.cluster, perms)) = {}
      BY <1>2, <2>3 DEF Of
    <3>2. Verdict(k.kind, k.cluster, users, ToSee(q), NotOwn(perms)) \in k.right
      BY <1>2, <2>3 DEF OwnPassed
    <3>3. /\ Verdict("resolve", k.cluster, users, ToSee(q), NotOwn(perms))
               = Shared(Of(ToSee(q), On(k.cluster, perms)), users)
          /\ Verdict("resolve", k.cluster, users, {}, NotOwn(perms))
               = Shared(Of({}, On(k.cluster, perms)), users)
      BY <1>1, WithoutOwn
    <3>4. Verdict(k.kind, k.cluster, users, {}, NotOwn(perms)) \in k.right
      BY <1>2, <3>1, <3>2, <3>3
    <3>5. ToSee(q)' = {} /\ (Open(q)' <=> Open(q))
      BY <2>2, <2>3 DEF ToSee, Open
    <3>6. Open(q) => /\ Own(k.kind, k.cluster, perms) = {}
                     /\ Of(members, On(k.cluster, perms)) = {}
      <4>1. Open(q) => members \subseteq ToSee(q)
        BY <1>2, <2>3 DEF OwnPassed, ToSee
      <4>2. members \subseteq ToSee(q) => Of(members, On(k.cluster, perms)) = {}
        BY <3>1 DEF Of
      <4> QED
        BY <1>2, <2>3, <4>1, <4>2 DEF OwnPassed
    <3>7. OwnPassed(q)'
      BY <2>2, <2>3, <3>4, <3>5, <3>6 DEF OwnPassed
    <3> QED
      BY <1>2, <2>2, <3>7 DEF ListUndisturbed
  <2> QED
    BY <1>1, <2>1, <2>3, GoesRight
<1>3. CASE k.kind = "list"
  <2>1. Goes(q, "rows", read, actual) /\ "rows" \in RequestSteps
    BY <1>3 DEF Otherwise, RequestSteps
  <2>2. /\ req'[q].kind = k.kind /\ req'[q].cluster = k.cluster /\ req'[q].groups = k.groups
        /\ req'[q].writers = k.writers /\ req'[q].right = k.right
    BY <2>1, GoesEffect
  <2>3. ASSUME req'[q].pc = "rows", read = actual, ListUndisturbed(q)
        PROVE  OwnPassed(q)' /\ ListUndisturbed(q)'
    <3>1. k.writers = {} => k.groups = members /\ users # {} /\ Admin(Of({User}, perms)) = {}
      BY <1>3, <2>3 DEF ListUndisturbed, KindOfStep
    <3>2. k.writers = {} => Admin(Of(members, perms)) = {}
      BY <1>3, <2>3, <3>1 DEF ToSee, KindOfStep
    <3> QED
      BY <1>3, <2>2, <2>3, <3>1, <3>2 DEF OwnPassed, ListUndisturbed
  <2> QED
    BY <1>1, <2>1, <2>3, GoesRight
<1>4. CASE k.kind = "platform"
  <2>1. Tells(q, {}, "none", read, actual)
    BY <1>4 DEF Otherwise
  <2>2. ASSUME read = actual, OwnPassed(q) PROVE {} \in k.right
    <3>1. Verdict(k.kind, k.cluster, users, ToSee(q), NotOwn(perms)) \in k.right
      BY <1>4, <2>2 DEF OwnPassed
    <3>2. Verdict("platform", k.cluster, users, ToSee(q), NotOwn(perms)) =
            IF Admin(Of(ToSee(q), perms)) # {} THEN {All} ELSE {}
      BY <1>1, WithoutOwn
    <3> QED
      BY <1>4, <2>2, <3>1, <3>2
  <2> QED
    BY <1>1, <2>1, <2>2, TellsTrue
<1> QED
  BY <1>1, <1>2, <1>3, <1>4

(* Every statement of a request leaves it right so far.                    *)
LEMMA AnsweringRight ==
  ASSUME TypeOK, IdsAreKeys, NEW q \in Requests, KindOfStep(q), RightSoFar(q), Answering(q)
  PROVE  RightSoFar(q)'
<1> DEFINE k == req[q]
<1>0. /\ k \in Request /\ perms \in SUBSET Row /\ members \in SUBSET Groups /\ k.groups \in SUBSET Groups
      /\ k.cluster \in Clusters /\ k.kind \in {"resolve", "platform", "list"}
      /\ {} \in Answers /\ {All} \in Answers /\ {"readonly"} \in Answers /\ {} \in SUBSET Groups
      /\ \A r \in Row : {r.type} \in Answers
      /\ \A s \in SUBSET Row : ClustersOf(s) \in Answers
  BY DEF TypeOK, Request, Answers, AllTypes, Row, ClustersOf
<1>g. "admin" \in RequestSteps /\ "groups" \in RequestSteps
  BY DEF RequestSteps
<1>v. Asking(q) => Verdict(k.kind, k.cluster, users, members, perms) \in k.right
  BY DEF RightSoFar
<1>1. CASE FindsUser(q)
  <2>1. /\ k.pc = "who" /\ UNCHANGED <<users, groups, members, perms, next, call, marred>>
        /\ Asking(q) /\ k.kind = "list"
    BY <1>1 DEF FindsUser, Reads, Asking, KindOfStep
  <2>2. PICK u \in Read(users, {}) :
          IF u = {} THEN Tells(q, {}, "none", u, users) ELSE Goes(q, "admin", u, users)
    BY <1>1 DEF FindsUser
  <2>3. CASE u = {}
    <3>1. u = users => {} \in k.right
      <4>1. users = {} => Verdict("list", k.cluster, users, members, perms) = {}
        BY DEF Verdict, Listed
      <4> QED
        BY <1>v, <2>1, <2>3, <4>1
    <3> QED
      BY <1>0, <2>1, <2>2, <2>3, <3>1, TellsTrue
  <2>4. CASE u # {}
    <3>1. req'[q].kind = k.kind /\ req'[q].groups = k.groups /\ req'[q].writers = k.writers
      BY <1>g, <2>2, <2>4, GoesEffect
    <3>2. req'[q].pc = "admin" /\ u = users /\ ListUndisturbed(q) => OwnPassed(q)' /\ ListUndisturbed(q)'
      BY <2>1, <2>4, <3>1 DEF OwnPassed, ListUndisturbed
    <3> QED
      BY <2>1, <2>2, <2>4, <3>2, GoesRight
  <2> QED
    BY <2>3, <2>4
<1>2. CASE ReadsOwn(q)
  <2>1. /\ k.pc = "own" /\ UNCHANGED <<users, groups, members, perms, next, call, marred>>
        /\ Asking(q) /\ k.kind = "resolve"
    BY <1>2 DEF ReadsOwn, Reads, Asking, KindOfStep
  <2> DEFINE actual == Of({User}, On(k.cluster, perms))
  <2>2. PICK own \in Read(actual, {}) :
          \/ own = {} /\ Goes(q, "groups", own, actual)
          \/ \E r \in own : IsFirst(r, own) /\ Tells(q, {r.type}, "own", own, actual)
    BY <1>2 DEF ReadsOwn
  <2>3. Own("resolve", k.cluster, perms) = actual /\ actual \in SUBSET perms
    BY DEF Own, Of, On
  <2>4. CASE own = {} /\ Goes(q, "groups", own, actual)
    <3>1. /\ req'[q].kind = k.kind /\ req'[q].cluster = k.cluster
          /\ req'[q].writers = k.writers /\ req'[q].right = k.right
      BY <1>g, <2>4, GoesEffect
    <3>2. ASSUME req'[q].pc = "groups", own = actual PROVE OwnPassed(q)' /\ ListUndisturbed(q)'
      <4>1. Verdict("resolve", k.cluster, users, members, perms)
              = Shared(Of(members, On(k.cluster, perms)), users)
        BY <2>3, <2>4, <3>2, HoldsNothing
      <4>2. Verdict("resolve", k.cluster, users, members, NotOwn(perms))
              = Shared(Of(members, On(k.cluster, perms)), users)
        BY <1>0, WithoutOwn
      <4>3. ToSee(q)' = members
        BY <2>1, <3>2 DEF ToSee
      <4> QED
        BY <1>v, <2>1, <2>3, <2>4, <3>1, <3>2, <4>1, <4>2, <4>3 DEF OwnPassed, ListUndisturbed
    <3> QED
      BY <2>1, <2>4, <3>2, GoesRight
  <2>5. ASSUME NEW r \in own, IsFirst(r, own), Tells(q, {r.type}, "own", own, actual)
        PROVE RightSoFar(q)'
    <3>1. own = actual /\ r \in Row
      BY <1>0, <2>3, <2>5 DEF Read
    <3>2. Verdict("resolve", k.cluster, users, members, perms) = {r.type}
      <4>1. TypesOf({x \in actual : IsFirst(x, actual)}) = {r.type}
        BY <1>0, <2>3, <2>5, <3>1, OneIsFirst
      <4> QED
        BY <2>5, <3>1, <4>1 DEF Verdict, Resolved
    <3> QED
      BY <1>0, <1>v, <2>1, <2>5, <3>1, <3>2, TellsTrue
  <2> QED
    BY <2>2, <2>4, <2>5
<1>3. CASE CountsAdmin(q)
  <2>1. /\ k.pc = "admin" /\ UNCHANGED <<users, groups, members, perms, next, call, marred>>
        /\ Asking(q) /\ k.kind \in {"platform", "list"}
    BY <1>0, <1>3 DEF CountsAdmin, Reads, Asking, KindOfStep
  <2> DEFINE actual == Admin(Of({User}, perms))
  <2>2. PICK own \in Read(actual, {}) :
          IF own # {} THEN Tells(q, {All}, "own", own, actual) ELSE Goes(q, "groups", own, actual)
    BY <1>3 DEF CountsAdmin
  <2>3. CASE own # {}
    <3>1. own = actual /\ Admin(Of(members \cup {User}, perms)) # {}
      BY <2>3 DEF Read, Admin, Of
    <3>2. Verdict("platform", k.cluster, users, members, perms) = {All}
      BY <3>1 DEF Verdict
    <3>3. users # {} => Verdict("list", k.cluster, users, members, perms) = {All}
      BY <3>1 DEF Verdict, Listed
    <3>4. (k.kind = "list" => k.writers = {}) /\ ListUndisturbed(q) => {All} \in k.right
      BY <1>v, <2>1, <3>2, <3>3 DEF ListUndisturbed
    <3> QED
      BY <1>0, <2>1, <2>2, <2>3, <3>4, TellsTrue
  <2>4. CASE own = {}
    <3>1. /\ req'[q].kind = k.kind /\ req'[q].cluster = k.cluster /\ req'[q].groups = k.groups
          /\ req'[q].writers = k.writers /\ req'[q].right = k.right
      BY <1>g, <2>2, <2>4, GoesEffect
    <3>2. ASSUME req'[q].pc = "groups", own = actual, ListUndisturbed(q)
          PROVE OwnPassed(q)' /\ ListUndisturbed(q)'
      <4>1. Own("platform", k.cluster, perms) = {}
        BY <2>4, <3>2 DEF Own
      <4>2. Verdict("platform", k.cluster, users, members, perms)
              = IF Admin(Of(members, perms)) # {} THEN {All} ELSE {}
        BY <4>1, HoldsNothing
      <4>3. Verdict("platform", k.cluster, users, members, NotOwn(perms))
              = IF Admin(Of(members, perms)) # {} THEN {All} ELSE {}
        BY <1>0, WithoutOwn
      <4>4. ToSee(q)' = members
        BY <2>1, <3>2 DEF ToSee
      <4>5. OwnPassed(q)'
        BY <1>v, <2>1, <3>1, <3>2, <4>1, <4>2, <4>3, <4>4 DEF OwnPassed
      <4>6. ListUndisturbed(q)'
        BY <2>1, <2>4, <3>1, <3>2 DEF ListUndisturbed
      <4> QED
        BY <4>5, <4>6
    <3> QED
      BY <2>1, <2>2, <2>4, <3>2, GoesRight
  <2> QED
    BY <2>3, <2>4
<1>4. CASE ReadsGroupRow(q)
  <2>1. /\ k.pc = "groupRow" /\ UNCHANGED <<users, groups, members, perms, next, call, marred>>
        /\ Asking(q) /\ k.kind = "resolve" /\ ToSee(q) = k.groups
    BY <1>4 DEF ReadsGroupRow, Reads, Asking, KindOfStep, ToSee
  <2> DEFINE actual == Of(k.groups, On(k.cluster, perms))
  <2>2. PICK rows \in Read(actual, {}) :
          \/ rows = {} /\ Otherwise(q, rows, actual)
          \/ \E r \in Top(rows) : IsFirst(r, Top(rows)) /\ Tells(q, {r.type}, "group", rows, actual)
    BY <1>4 DEF ReadsGroupRow
  <2>3. CASE rows = {} /\ Otherwise(q, rows, actual)
    BY <2>1, <2>3, OtherwiseTrue
  <2>4. ASSUME NEW r \in Top(rows), Tells(q, {r.type}, "group", rows, actual)
        PROVE RightSoFar(q)'
    <3>1. rows \in SUBSET Row /\ r \in Row
      BY <1>0 DEF Read, Of, On, Top
    <3>2. ASSUME rows = actual, OwnPassed(q) PROVE {r.type} \in k.right
      <4>1. Verdict(k.kind, k.cluster, users, k.groups, NotOwn(perms)) \in k.right
        BY <2>1, <3>2 DEF OwnPassed
      <4>2. Verdict("resolve", k.cluster, users, k.groups, NotOwn(perms)) = Shared(actual, users)
        BY <1>0, WithoutOwn
      <4>3. Shared(actual, users) = {r.type}
        BY <3>1, <3>2, OneTypeOnTop DEF Shared
      <4> QED
        BY <2>1, <4>1, <4>2, <4>3
    <3> QED
      BY <1>0, <2>1, <2>4, <3>1, <3>2, TellsTrue
  <2> QED
    BY <2>2, <2>3, <2>4
<1>5. CASE CountsGroupAdmin(q)
  <2>1. /\ k.pc = "groupAdmin" /\ UNCHANGED <<users, groups, members, perms, next, call, marred>>
        /\ Asking(q) /\ k.kind \in {"platform", "list"} /\ ToSee(q) = k.groups
    BY <1>0, <1>5 DEF CountsGroupAdmin, Reads, Asking, KindOfStep, ToSee
  <2> DEFINE actual == Admin(Of(k.groups, perms))
  <2>2. PICK rows \in Read(actual, {}) :
          IF rows # {} THEN Tells(q, {All}, "group", rows, actual) ELSE Otherwise(q, rows, actual)
    BY <1>5 DEF CountsGroupAdmin
  <2>3. CASE rows = {}
    BY <2>1, <2>2, <2>3, OtherwiseTrue
  <2>4. CASE rows # {}
    <3>1. actual # {} /\ rows = actual
      BY <2>4 DEF Read
    <3>2. CASE k.kind = "platform"
      <4>1. OwnPassed(q) => Verdict(k.kind, k.cluster, users, k.groups, NotOwn(perms)) \in k.right
        BY <2>1, <3>2 DEF OwnPassed
      <4>2. Verdict("platform", k.cluster, users, k.groups, NotOwn(perms)) = {All}
        BY <1>0, <3>1, WithoutOwn
      <4> QED
        BY <1>0, <2>1, <2>2, <2>4, <3>2, <4>1, <4>2, TellsTrue
    <3>3. CASE k.kind = "list"
      <4>1. k.writers = {} /\ ListUndisturbed(q) => {All} \in k.right
        <5> SUFFICES ASSUME k.writers = {}, ListUndisturbed(q) PROVE {All} \in k.right
          OBVIOUS
        <5>1. users # {} /\ k.groups = members
          BY <2>1, <3>3 DEF ListUndisturbed
        <5>2. Admin(Of(members \cup {User}, perms)) # {}
          BY <3>1, <5>1 DEF Admin, Of
        <5> QED
          BY <1>v, <2>1, <3>3, <5>1, <5>2 DEF Verdict, Listed
      <4> QED
        BY <1>0, <2>1, <2>2, <2>4, <3>3, <4>1, TellsTrue
    <3> QED
      BY <2>1, <3>2, <3>3
  <2> QED
    BY <2>3, <2>4
<1>6. CASE ReadsRows(q)
  <2>1. /\ k.pc = "rows" /\ UNCHANGED <<users, groups, members, perms, next, call, marred>>
        /\ Asking(q) /\ k.kind = "list"
    BY <1>6 DEF ReadsRows, Reads, Asking, KindOfStep
  <2> DEFINE actual == Of(k.groups \cup {User}, perms)
             right  == k.writers = {} /\ ListUndisturbed(q)
  <2>2. PICK rows \in Read(actual, {}) :
          IF rows # {} THEN Tells(q, ClustersOf(rows), "own", rows, actual)
          ELSE Tells(q, {All}, "default", rows, actual)
    BY <1>6 DEF ReadsRows
  <2>3. ASSUME right
        PROVE  (IF actual # {} THEN ClustersOf(actual) ELSE {All}) \in k.right
    <3>1. /\ users # {} /\ k.groups = members
          /\ Admin(Of({User}, perms)) = {} /\ Admin(Of(members, perms)) = {}
      BY <2>1, <2>3 DEF ListUndisturbed
    <3>2. Admin(Of(members \cup {User}, perms)) = {}
      BY <3>1 DEF Admin, Of
    <3>3. Verdict("list", k.cluster, users, members, perms) = IF actual # {} THEN ClustersOf(actual) ELSE {All}
      BY <3>1, <3>2 DEF Verdict, Listed
    <3> QED
      BY <1>v, <2>1, <3>3
  <2>4. CASE rows = {}
    <3>1. rows = actual /\ right => {All} \in k.right
      BY <2>3, <2>4
    <3> QED
      BY <1>0, <2>1, <2>2, <2>4, <3>1, TellsTrue
  <2>5. CASE rows # {}
    <3>1. rows = actual /\ rows \in SUBSET Row
      BY <1>0, <2>5 DEF Read, Of
    <3>2. right => ClustersOf(rows) \in k.right
      BY <2>3, <2>5, <3>1
    <3> QED
      BY <1>0, <2>1, <2>2, <2>5, <3>1, <3>2, TellsTrue
  <2> QED
    BY <2>4, <2>5
<1>7. CASE Default(q)
  <2>1. /\ k.pc = "default" /\ UNCHANGED <<users, groups, members, perms, next, call, marred>>
        /\ Asking(q) /\ k.kind = "resolve" /\ ToSee(q) = {}
    BY <1>7 DEF Default, Reads, Asking, KindOfStep, ToSee
  <2>2. PICK u \in Read(users, {}) :
          IF u = {} THEN Tells(q, {}, "none", u, users)
          ELSE Tells(q, {"readonly"}, "default", u, users)
    BY <1>7 DEF Default
  <2>3. OwnPassed(q) => (IF users = {} THEN {} ELSE {"readonly"}) \in k.right
    <3>1. OwnPassed(q) => Verdict(k.kind, k.cluster, users, {}, NotOwn(perms)) \in k.right
      BY <2>1 DEF OwnPassed
    <3>2. Verdict("resolve", k.cluster, users, {}, NotOwn(perms)) = Shared(Of({}, On(k.cluster, perms)), users)
      BY <1>0, WithoutOwn
    <3>3. Of({}, On(k.cluster, perms)) = {}
      BY DEF Of
    <3> QED
      BY <2>1, <3>1, <3>2, <3>3 DEF Shared
  <2>4. CASE u = {}
    BY <1>0, <2>1, <2>2, <2>3, <2>4, TellsTrue
  <2>5. CASE u # {}
    BY <1>0, <2>1, <2>2, <2>3, <2>5, TellsTrue
  <2> QED
    BY <2>4, <2>5
<1>8. CASE ReadsGroups(q)
  <2>1. /\ k.pc = "groups" /\ UNCHANGED <<users, groups, members, perms, next, call, marred>>
        /\ Asking(q) /\ ToSee(q) = members
    BY <1>8 DEF ReadsGroups, Reads, Asking, ToSee
  <2>2. PICK m \in Read(members, {}) :
          IF m = {} THEN Otherwise(q, m, members)
          ELSE req' = [req EXCEPT ![q].pc = IF req[q].kind = "resolve" THEN "groupRow" ELSE "groupAdmin",
                                  ![q].groups = m]
    BY <1>8 DEF ReadsGroups
  <2>3. CASE m = {}
    <3>1. m = members => Of(members, On(k.cluster, perms)) = {} /\ Admin(Of(members, perms)) = {}
      BY <2>3 DEF Of, Admin
    <3> QED
      BY <2>1, <2>2, <2>3, <3>1, OtherwiseTrue
  <2>4. CASE m # {}
    <3> DEFINE pc == IF k.kind = "resolve" THEN "groupRow" ELSE "groupAdmin"
               n  == [k EXCEPT !.pc = pc, !.groups = m]
    <3>1. m = members
      BY <2>4 DEF Read
    <3>2. /\ n.pc = pc /\ n.kind = k.kind /\ n.cluster = k.cluster /\ n.groups = m
          /\ n.notes = k.notes /\ n.writers = k.writers /\ n.right = k.right
      BY <1>0 DEF Request
    <3>3. req' = [req EXCEPT ![q] = n]
      BY <2>2, <2>4
    <3> HIDE DEF n
    <3>4. req'[q] = n
      BY <3>3 DEF TypeOK
    <3>5. ToSee(q)' = members /\ ToSee(q) = members
      BY <2>1, <3>1, <3>2, <3>4 DEF ToSee
    <3>6. OwnPassed(q) => OwnPassed(q)'
      BY <2>1, <3>1, <3>2, <3>4, <3>5 DEF OwnPassed, Open
    <3>7. ListUndisturbed(q) => ListUndisturbed(q)'
      BY <2>1, <3>1, <3>2, <3>4 DEF ListUndisturbed
    <3>8. ~Answered(q)'
      BY <3>2, <3>4 DEF Answered
    <3>9. "failed" \notin k.notes /\ OneWriter(q) => OwnPassed(q)' /\ ListUndisturbed(q)'
      BY <2>1, <3>6, <3>7 DEF RightSoFar
    <3> QED
      BY <2>1, <3>2, <3>4, <3>8, <3>9, RightIf
  <2> QED
    BY <2>3, <2>4
<1> QED
  BY <1>1, <1>2, <1>3, <1>4, <1>5, <1>6, <1>7, <1>8 DEF Answering

(* The initial states satisfy AnswerInv.                                   *)
LEMMA InitAnswerInv == Init => AnswerInv
<1> SUFFICES ASSUME Init PROVE AnswerInv
  OBVIOUS
<1>1. \A c \in Calls : call[c].pc = "idle"
  BY DEF Init, NoCall
<1>2. \A q \in Requests : req[q].pc = "idle" /\ req[q].writers = {}
  BY DEF Init, NoRequest
<1>3. IdsAreKeys
  BY <1>1, ProperIds DEF Init, IdsAreKeys, Saving
<1>4. WritersArePlaced /\ \A q \in Requests : RightSoFar(q)
  BY <1>2 DEF WritersArePlaced, RightSoFar, Asking, Answered
<1> QED
  BY <1>3, <1>4 DEF AnswerInv

(* A request begins with the answer that is right at that moment.          *)
LEMMA AskRight ==
  ASSUME TypeOK, NEW q \in Requests, NEW kind \in {"resolve", "platform", "list"},
         NEW cl \in Clusters, Ask(q, kind, cl)
  PROVE  RightSoFar(q)' /\ req'[q].writers = {}
<1> DEFINE pc == CASE kind = "resolve" -> "own" [] kind = "platform" -> "admin" [] kind = "list" -> "who"
           n  == {x \in {"late"} : User \notin users \cup marred}
           v  == Verdict(kind, cl, users, members, perms)
           k  == [NoRequest EXCEPT !.pc = pc, !.kind = kind, !.cluster = cl, !.notes = n,
                                   !.lasting = perms, !.in = members, !.right = {v}]
<1>1. req' = [req EXCEPT ![q] = k] /\ UNCHANGED <<users, members, perms>>
  BY DEF Ask
<1>2. \A w : LET r == [NoRequest EXCEPT !.pc = pc, !.kind = kind, !.cluster = cl, !.notes = n,
                                        !.lasting = perms, !.in = members, !.right = {w}]
             IN  r.pc = pc /\ r.kind = kind /\ r.cluster = cl /\ r.groups = {} /\ r.writers = {}
                 /\ r.right = {w}
  BY DEF NoRequest
<1>3. k.pc = pc /\ k.kind = kind /\ k.cluster = cl /\ k.groups = {} /\ k.writers = {} /\ k.right = {v}
  BY <1>2
<1>4. pc \in {"own", "admin", "who"} /\ (kind = "list" => pc = "who")
  OBVIOUS
<1> HIDE DEF k, pc, n
<1>5. req'[q] = k
  BY <1>1 DEF TypeOK
<1>6. OwnPassed(q)' /\ ListUndisturbed(q)'
  BY <1>3, <1>4, <1>5 DEF OwnPassed, ListUndisturbed
<1> QED
  BY <1>1, <1>3, <1>4, <1>5, <1>6 DEF RightSoFar, Answered

(* The other requests are as right as they were.                           *)
LEMMA OthersAsRight ==
  ASSUME NEW x \in Requests, RightSoFar(x), req'[x] = req[x], UNCHANGED <<users, members, perms, call>>
  PROVE  RightSoFar(x)'
<1>1. (Asking(x)' <=> Asking(x)) /\ (Answered(x)' <=> Answered(x)) /\ (OneWriter(x)' <=> OneWriter(x))
      /\ (Open(x)' <=> Open(x)) /\ ToSee(x)' = ToSee(x)
  BY DEF Asking, Answered, OneWriter, Open, ToSee
<1>2. (OwnPassed(x) => OwnPassed(x)') /\ (ListUndisturbed(x) => ListUndisturbed(x)')
  BY <1>1 DEF OwnPassed, ListUndisturbed
<1> QED
  BY <1>1, <1>2 DEF RightSoFar

(* A statement of a request leaves its writers alone.                      *)
LEMMA SameWriters ==
  ASSUME TypeOK, NEW q \in Requests, Answering(q)
  PROVE  req'[q].writers = req[q].writers
<1>0. req[q] \in Request
  BY DEF TypeOK
<1>1. ASSUME NEW pc, NEW read, NEW actual, Goes(q, pc, read, actual)
      PROVE req'[q].writers = req[q].writers
  BY <1>0, <1>1 DEF Goes, TypeOK, Request
<1>2. ASSUME NEW a, NEW s, NEW read, NEW actual, Tells(q, a, s, read, actual)
      PROVE req'[q].writers = req[q].writers
  BY <1>0, <1>2 DEF Tells, TypeOK, Request
<1>3. ASSUME NEW read, NEW actual, Otherwise(q, read, actual)
      PROVE req'[q].writers = req[q].writers
  <2>1. req[q].kind \in {"resolve", "platform", "list"}
    BY <1>0 DEF Request
  <2> QED
    BY <1>1, <1>2, <1>3, <2>1 DEF Otherwise
<1>4. CASE ReadsGroups(q)
  BY <1>0, <1>3, <1>4 DEF ReadsGroups, TypeOK, Request
<1>5. CASE FindsUser(q) \/ ReadsOwn(q) \/ CountsAdmin(q) \/ Default(q) \/ ReadsRows(q)
  BY <1>1, <1>2, <1>5 DEF FindsUser, ReadsOwn, CountsAdmin, Default, ReadsRows
<1>6. CASE ReadsGroupRow(q) \/ CountsGroupAdmin(q)
  BY <1>2, <1>3, <1>6 DEF ReadsGroupRow, CountsGroupAdmin
<1> QED
  BY <1>4, <1>5, <1>6 DEF Answering

(* Every step keeps the invariant of the answers.                          *)
LEMMA NextAnswerInv == IInv /\ IInv' /\ AnswerInv /\ [Next]_vars => AnswerInv'
<1> SUFFICES ASSUME IInv, IInv', AnswerInv, [Next]_vars PROVE AnswerInv'
  OBVIOUS
<1>0. /\ TypeOK /\ TypeOK' /\ IdsAreKeys /\ WritersArePlaced
      /\ \A q \in Requests : KindOfStep(q) /\ RightSoFar(q)
  BY DEF IInv, AnswerInv, RequestInv
<1>1. ASSUME NEW c \in Calls, GroupCalls(c) \/ PermissionCalls(c) \/ UserCalls(c) \/ Fails(c)
      PROVE AnswerInv'
  <2>1. IdsAreKeys' /\ WritersArePlaced'
    BY <1>0, <1>1, IdsKept, WritersStayPlaced
  <2>2. \A q \in Requests : RightSoFar(q)'
    BY <1>0, <1>1, CallsKeepRight
  <2> QED
    BY <2>1, <2>2 DEF AnswerInv
<1>2. ASSUME NEW q \in Requests,
             Answering(q) \/ \E kind \in {"resolve", "platform", "list"}, cl \in Clusters : Ask(q, kind, cl)
      PROVE AnswerInv'
  <2>1. /\ UNCHANGED <<users, groups, members, perms, next, call, marred>>
        /\ \A x \in Requests : x # q => req'[x] = req[x]
    BY <1>0, <1>2, OneRequest
  <2>2. IdsAreKeys'
    BY <1>0, <2>1 DEF IdsAreKeys, Saving
  <2>3. req'[q].writers \subseteq req[q].writers
    BY <1>0, <1>2, SameWriters, AskRight
  <2>4. WritersArePlaced'
    BY <1>0, <2>1, <2>3 DEF WritersArePlaced
  <2>5. RightSoFar(q)'
    BY <1>0, <1>2, AnsweringRight, AskRight
  <2>6. \A x \in Requests : x # q => RightSoFar(x)'
    BY <1>0, <2>1, OthersAsRight
  <2> QED
    BY <2>2, <2>4, <2>5, <2>6 DEF AnswerInv
<1>3. CASE UNCHANGED vars
  <2>1. IdsAreKeys' /\ WritersArePlaced'
    BY <1>0, <1>3 DEF IdsAreKeys, Saving, WritersArePlaced, vars
  <2>2. \A q \in Requests : RightSoFar(q)'
    BY <1>0, <1>3, OthersAsRight DEF vars
  <2> QED
    BY <2>1, <2>2 DEF AnswerInv
<1> QED
  BY <1>1, <1>2, <1>3, SomeClusterIn DEF Next

(* An answer was the right one at some moment of its request, as long as   *)
(* one call at most changed the tables meanwhile; the list of clusters, if *)
(* none did.                                                               *)
THEOREM AnswersAreRight == Spec => []AnswerWasRight
<1>1. AnswerInv => AnswerWasRight
  BY DEF AnswerInv, RightSoFar, AnswerWasRight
<1> QED
  BY <1>1, InitAnswerInv, NextAnswerInv, InvariantHolds, PTL DEF Spec
================================================================================
