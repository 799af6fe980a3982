--------------------------------- MODULE Access ---------------------------------
(***************************************************************************)
(* Who may do what: the users, user_groups, user_group_members and         *)
(* cluster_permissions tables as administrators change them                *)
(* (services/permission_service.go, services/user_service.go) and as a     *)
(* user's requests read them (GetUserClusterPermission and                 *)
(* GetUserAccessibleClusterIDs in services/permission_service.go,          *)
(* PlatformAdminRequired in middleware/permission.go).                     *)
(*                                                                         *)
(* Nothing runs in a transaction: a call and a request are processes, and  *)
(* every SQL statement is one action.  Any statement may fail.  The model  *)
(* follows one user, who is not the built-in "admin"; what is said of that *)
(* user holds of every other, because no statement reads rows of two.      *)
(* Users and groups are never created here: a new one has a new id and     *)
(* holds nothing, so it is a member of Groups nobody has named yet.        *)
(***************************************************************************)
EXTENDS Naturals

CONSTANTS
  Calls,     (* calls administrators make, each once                       *)
  Requests,  (* requests of the user, each made once                       *)
  Groups,    (* user groups                                                *)
  Clusters,
  Types,     (* permission types in use                                    *)
  Start      (* tables the model may start from, as earlier calls left them *)

User == "user"                (* the user, as the holder of a permission   *)
All  == "all"                 (* the answer that names every cluster       *)

AllTypes == {"admin", "ops", "dev", "readonly", "custom"}
Holders  == Groups \cup {User}
Row      == [id : Nat, holder : Holders, cluster : Clusters, type : AllTypes]


ASSUME KnownTypes  == Types \subseteq AllTypes
ASSUME SomeCluster == Clusters # {}
ASSUME ProperNames == User \notin Groups /\ All \notin Clusters
ASSUME KnownStart  == Start \subseteq [members : SUBSET Groups, perms : SUBSET Row, next : Nat]
(* The id is the primary key, and AUTO_INCREMENT is ahead of all of them.  *)
ASSUME ProperIds   == \A s \in Start : \A r \in s.perms :
                        r.id < s.next /\ \A x \in s.perms : x.id = r.id => x = r

VARIABLES
  users,    (* users whose row is live: {User} or {}                       *)
  groups,   (* groups whose row is live                                    *)
  members,  (* groups the user is a member of                              *)
  perms,    (* live rows of cluster_permissions                            *)
  next,     (* AUTO_INCREMENT of cluster_permissions                       *)
  call,     (* the administrators' calls                                   *)
  req,      (* the user's requests                                         *)
  marred    (* history: holders whose deletion met another call or a       *)
            (* failing statement, or who were granted something when gone  *)

vars == <<users, groups, members, perms, next, call, req, marred>>

Answers == SUBSET (AllTypes \cup Clusters \cup {All})   (* {} is a refusal *)

CallSteps    == {"idle", "addGroup", "addCount", "addInsert", "groupMembers", "groupRow",
                 "insert", "save", "userMembers", "userPerms", "userRow",
                 "saveUser", "saveGroup", "done"}
RequestSteps == {"idle", "who", "own", "admin", "groups", "groupRow", "groupAdmin",
                 "rows", "default", "done"}

Call    == [pc : CallSteps, holder : Holders, cluster : Clusters, type : AllTypes, id : Nat]
Request == [pc : RequestSteps, kind : {"resolve", "platform", "list"}, cluster : Clusters,
            groups : SUBSET Groups, answer : Answers,
            source : {"none", "own", "group", "default"},
            notes : SUBSET {"failed", "late"},   (* history: a statement of *)
                                       (* it failed; a deleted user made it *)
            lasting : SUBSET Row,      (* history: rows there all the time  *)
            in : SUBSET Groups,        (* history: memberships all the time *)
            writers : SUBSET Calls,    (* history: calls that changed what  *)
                                       (* the answer depends on             *)
            right : SUBSET Answers]    (* history: what was right meanwhile *)

AnyCluster == CHOOSE c \in Clusters : TRUE
NoCall     == [pc |-> "idle", holder |-> User, cluster |-> AnyCluster, type |-> "readonly", id |-> 0]
NoRequest  == [pc |-> "idle", kind |-> "resolve", cluster |-> AnyCluster, groups |-> {},
               answer |-> {}, source |-> "none", notes |-> {},
               lasting |-> {}, in |-> {}, writers |-> {}, right |-> {}]

(* Every variable has its type.                                            *)
TypeOK ==
  /\ users \in SUBSET {User}
  /\ groups \in SUBSET Groups
  /\ members \in SUBSET Groups
  /\ perms \in SUBSET Row
  /\ next \in Nat
  /\ call \in [Calls -> Call]
  /\ req \in [Requests -> Request]
  /\ marred \in SUBSET Holders

Init ==
  /\ users = {User}
  /\ groups = Groups
  /\ \E s \in Start : members = s.members /\ perms = s.perms /\ next = s.next
  /\ call = [c \in Calls |-> NoCall]
  /\ req = [q \in Requests |-> NoRequest]
  /\ marred = {}

(***************************************************************************)
(* What the tables say at one moment.  A row of the user goes before rows  *)
(* of the user's groups, of these the type that FIELD lists first counts,  *)
(* and among equals the smallest id (First orders by primary key).         *)
(***************************************************************************)
Field == [t \in AllTypes |-> CASE t = "admin" -> 1 [] t = "ops" -> 2 [] t = "dev" -> 3
                                [] t = "readonly" -> 4 [] t = "custom" -> 5]

Of(holders, rows) == {r \in rows : r.holder \in holders}
On(cluster, rows) == {r \in rows : r.cluster = cluster}
Admin(rows)       == {r \in rows : r.type = "admin"}
IsFirst(r, rows)  == r \in rows /\ \A x \in rows : r.id <= x.id
Top(rows)         == {r \in rows : \A x \in rows : Field[r.type] <= Field[x.type]}
TypesOf(rows)     == {r.type : r \in rows}
ClustersOf(rows)  == {r.cluster : r \in rows}

Resolved(cluster, u, m, p) ==
  LET own    == Of({User}, On(cluster, p))
      shared == Of(m, On(cluster, p))
  IN  IF own # {} THEN TypesOf({r \in own : IsFirst(r, own)})
      ELSE IF shared # {} THEN TypesOf(Top(shared))
      ELSE IF u = {} THEN {} ELSE {"readonly"}

Listed(u, m, p) ==
  LET held == Of(m \cup {User}, p)
  IN  IF u = {} THEN {} ELSE IF Admin(held) # {} \/ held = {} THEN {All} ELSE ClustersOf(held)

Verdict(kind, cluster, u, m, p) ==
  CASE kind = "resolve"  -> Resolved(cluster, u, m, p)
    [] kind = "platform" -> IF Admin(Of(m \cup {User}, p)) # {} THEN {All} ELSE {}
    [] kind = "list"     -> Listed(u, m, p)

(***************************************************************************)
(* What a read returns: the value, or what its variable held before when   *)
(* the statement fails and the code does not look at the error.            *)
(***************************************************************************)
Read(value, before) == {value, before}

Asking(q) == req[q].pc \notin {"idle", "done"}

(* A change of call c as the requests under way go through it.             *)
Seen(c) ==
  req' = [q \in Requests |->
    IF Asking(q) /\ <<users, members, perms>>' # <<users, members, perms>>
      THEN [req[q] EXCEPT !.lasting = @ \cap perms', !.in = @ \cap members',
              !.writers = @ \cup {c},
              !.right = @ \cup {Verdict(req[q].kind, req[q].cluster, users', members', perms')}]
      ELSE req[q]]

(* Call c may still give holder h something; call c is deleting holder h.  *)
Granting(c, h) ==
  \/ call[c].pc \in {"addGroup", "addCount", "addInsert"} /\ h \in {User, call[c].holder}
  \/ call[c].pc \in {"insert", "save"} /\ h = call[c].holder
  \/ call[c].pc = "saveUser" /\ h = User
Deleting(c, h) ==
  \/ call[c].pc \in {"groupMembers", "groupRow"} /\ h = call[c].holder
  \/ call[c].pc \in {"userMembers", "userPerms", "userRow"} /\ h = User
Gone(h) == h \notin users \cup groups

BeginsToGrant(hs) == marred' = marred \cup {h \in hs : \E d \in Calls : Deleting(d, h)}
BeginsToDelete(h) == marred' = marred \cup {x \in {h} : \E d \in Calls : Granting(d, x)}

At(c, pc) == call[c].pc = pc
To(c, pc) == call' = [call EXCEPT ![c].pc = pc]
Begin(c, pc, h, cl, t, i) ==
  call' = [call EXCEPT ![c] = [pc |-> pc, holder |-> h, cluster |-> cl, type |-> t, id |-> i]]

(* A statement whose error ends the call changes nothing when it fails.    *)
Fails(c) ==
  /\ call[c].pc \in {"addGroup", "addInsert", "groupRow", "insert", "save", "userRow",
                    "saveUser", "saveGroup"}
  /\ To(c, "done")
  /\ UNCHANGED <<users, groups, members, perms, next, req, marred>>

-----------------------------------------------------------------------------
(* AddUserToGroup: user, group, count, insertion.                          *)
AddUserToGroup(c, g) ==
  /\ At(c, "idle")
  /\ User \in users
  /\ Begin(c, "addGroup", g, AnyCluster, "readonly", 0)
  /\ BeginsToGrant({User, g})
  /\ UNCHANGED <<users, groups, members, perms, next, req>>

AddFindsGroup(c) ==
  /\ At(c, "addGroup")
  /\ To(c, IF call[c].holder \in groups THEN "addCount" ELSE "done")
  /\ UNCHANGED <<users, groups, members, perms, next, req, marred>>

AddCounts(c) ==
  /\ At(c, "addCount")
  /\ \E found \in Read(members \cap {call[c].holder}, {}) :
       To(c, IF found = {} THEN "addInsert" ELSE "done")
  /\ UNCHANGED <<users, groups, members, perms, next, req, marred>>

(* The primary key refuses a membership that is there already.             *)
AddInserts(c) ==
  /\ At(c, "addInsert")
  /\ members' = members \cup {call[c].holder}
  /\ To(c, "done")
  /\ UNCHANGED <<users, groups, perms, next, marred>>
  /\ Seen(c)

RemoveUserFromGroup(c, g) ==
  /\ At(c, "idle")
  /\ members' = members \ {g}
  /\ To(c, "done")
  /\ UNCHANGED <<users, groups, perms, next, marred>>
  /\ Seen(c)

UpdateUserGroup(c, g) ==
  /\ At(c, "idle")
  /\ g \in groups
  /\ Begin(c, "saveGroup", g, AnyCluster, "readonly", 0)
  /\ UNCHANGED <<users, groups, members, perms, next, req, marred>>

(* Save inserts the row again, live, when it was deleted in between.       *)
UpdateSavesGroup(c) ==
  /\ At(c, "saveGroup")
  /\ groups' = groups \cup {call[c].holder}
  /\ To(c, "done")
  /\ UNCHANGED <<users, members, perms, next, req, marred>>

(* Fault: a group is deleted whatever permissions name it.                 *)
DeleteGroupUncounted(c, g) ==
  /\ At(c, "idle")
  /\ Begin(c, "groupMembers", g, AnyCluster, "readonly", 0)
  /\ BeginsToDelete(g)
  /\ UNCHANGED <<users, groups, members, perms, next, req>>

(* Errors of the count and of the deletion of the memberships go           *)
(* unnoticed.                                                              *)
DeleteUserGroup(c, g) ==
  /\ At(c, "idle")
  /\ \E found \in Read(Of({g}, perms), {}) :
       /\ found = {}
       /\ Begin(c, "groupMembers", g, AnyCluster, "readonly", 0)
       /\ IF Of({g}, perms) = {} THEN BeginsToDelete(g) ELSE marred' = marred \cup {g}
  /\ UNCHANGED <<users, groups, members, perms, next, req>>

DeleteClearsGroup(c) ==
  /\ At(c, "groupMembers")
  /\ \/ members' = members \ {call[c].holder} /\ UNCHANGED marred
     \/ UNCHANGED members /\ marred' = marred \cup {call[c].holder}
  /\ To(c, "groupRow")
  /\ UNCHANGED <<users, groups, perms, next>>
  /\ Seen(c)

DeleteDropsGroup(c) ==
  /\ At(c, "groupRow")
  /\ groups' = groups \ {call[c].holder}
  /\ To(c, "done")
  /\ UNCHANGED <<users, members, perms, next, req, marred>>

-----------------------------------------------------------------------------
(* Permission rows.  Neither the user nor the group is looked up, and a    *)
(* count that fails reads as none.                                         *)
CreateClusterPermission(c, h, cl, t) ==
  /\ At(c, "idle")
  /\ \E found \in Read(On(cl, Of({h}, perms)), {}) : found = {}
  /\ Begin(c, "insert", h, cl, t, 0)
  /\ IF Gone(h) THEN marred' = marred \cup {h} ELSE BeginsToGrant({h})
  /\ UNCHANGED <<users, groups, members, perms, next, req>>

CreateInserts(c) ==
  /\ At(c, "insert")
  /\ perms' = perms \cup {[id |-> next, holder |-> call[c].holder,
                           cluster |-> call[c].cluster, type |-> call[c].type]}
  /\ next' = next + 1
  /\ To(c, "done")
  /\ UNCHANGED <<users, groups, members, marred>>
  /\ Seen(c)

UpdateClusterPermission(c, r, t) ==
  /\ At(c, "idle")
  /\ Begin(c, "save", r.holder, r.cluster, t, r.id)
  /\ BeginsToGrant({r.holder})
  /\ UNCHANGED <<users, groups, members, perms, next, req>>

(* Save writes every column, and inserts the row again when it is deleted. *)
UpdateSaves(c) ==
  /\ At(c, "save")
  /\ perms' = {r \in perms : r.id # call[c].id}
                \cup {[id |-> call[c].id, holder |-> call[c].holder,
                       cluster |-> call[c].cluster, type |-> call[c].type]}
  /\ To(c, "done")
  /\ UNCHANGED <<users, groups, members, next, marred>>
  /\ Seen(c)

(* DeleteClusterPermission of one id, BatchDeleteClusterPermissions of many. *)
DeletePermissions(c, rows) ==
  /\ At(c, "idle")
  /\ rows # {}
  /\ perms' = perms \ rows
  /\ To(c, "done")
  /\ UNCHANGED <<users, groups, members, next, marred>>
  /\ Seen(c)

-----------------------------------------------------------------------------
(* DeleteUser; errors of the first two deletions go unnoticed.             *)
DeleteUser(c) ==
  /\ At(c, "idle")
  /\ User \in users
  /\ Begin(c, "userMembers", User, AnyCluster, "readonly", 0)
  /\ BeginsToDelete(User)
  /\ UNCHANGED <<users, groups, members, perms, next, req>>

DeleteClearsMembers(c) ==
  /\ At(c, "userMembers")
  /\ \/ members' = {} /\ UNCHANGED marred
     \/ UNCHANGED members /\ marred' = marred \cup {User}
  /\ To(c, "userPerms")
  /\ UNCHANGED <<users, groups, perms, next>>
  /\ Seen(c)

(* Fault: the permissions of a deleted user stay.                          *)
DeleteLeavesPerms(c) ==
  /\ At(c, "userPerms")
  /\ To(c, "userRow")
  /\ UNCHANGED <<users, groups, members, perms, next, req, marred>>

DeleteClearsPerms(c) ==
  /\ At(c, "userPerms")
  /\ \/ perms' = perms \ Of({User}, perms) /\ UNCHANGED marred
     \/ UNCHANGED perms /\ marred' = marred \cup {User}
  /\ To(c, "userRow")
  /\ UNCHANGED <<users, groups, members, next>>
  /\ Seen(c)

DeleteDropsUser(c) ==
  /\ At(c, "userRow")
  /\ users' = {}
  /\ To(c, "done")
  /\ UNCHANGED <<groups, members, perms, next, marred>>
  /\ Seen(c)

(* Login, UpdateUser, UpdateUserStatus, ResetPassword and ChangePassword   *)
(* load the user's row and save it whole.                                  *)
LoadUser(c) ==
  /\ At(c, "idle")
  /\ User \in users
  /\ Begin(c, "saveUser", User, AnyCluster, "readonly", 0)
  /\ BeginsToGrant({User})
  /\ UNCHANGED <<users, groups, members, perms, next, req>>

SaveUser(c) ==
  /\ At(c, "saveUser")
  /\ users' = {User}
  /\ To(c, "done")
  /\ UNCHANGED <<groups, members, perms, next, marred>>
  /\ Seen(c)

-----------------------------------------------------------------------------
(* A request asks for the permission on a cluster (ClusterAccessRequired), *)
(* whether the user is a platform administrator (PlatformAdminRequired),   *)
(* or for the clusters to show (GetUserAccessibleClusterIDs).              *)
Ask(q, kind, cl) ==
  /\ req[q].pc = "idle"
  /\ req' = [req EXCEPT ![q] = [NoRequest EXCEPT
       !.pc = CASE kind = "resolve" -> "own" [] kind = "platform" -> "admin" [] kind = "list" -> "who",
       !.kind = kind, !.cluster = cl, !.notes = {n \in {"late"} : User \notin users \cup marred},
       !.lasting = perms, !.in = members, !.right = {Verdict(kind, cl, users, members, perms)}]]
  /\ UNCHANGED <<users, groups, members, perms, next, call, marred>>

(* The request goes on to pc, or is answered; read came for actual.        *)
Goes(q, pc, read, actual) ==
  req' = [req EXCEPT ![q].pc = pc, ![q].notes = @ \cup {n \in {"failed"} : read # actual}]
Tells(q, answer, source, read, actual) ==
  req' = [req EXCEPT ![q].pc = "done", ![q].answer = answer, ![q].source = source,
                     ![q].notes = @ \cup {n \in {"failed"} : read # actual}]
Reads(q, pc) == req[q].pc = pc /\ UNCHANGED <<users, groups, members, perms, next, call, marred>>

FindsUser(q) ==
  /\ Reads(q, "who")
  /\ \E u \in Read(users, {}) :
       IF u = {} THEN Tells(q, {}, "none", u, users) ELSE Goes(q, "admin", u, users)

ReadsOwn(q) ==
  /\ Reads(q, "own")
  /\ LET actual == Of({User}, On(req[q].cluster, perms)) IN
     \E own \in Read(actual, {}) :
       \/ own = {} /\ Goes(q, "groups", own, actual)
       \/ \E r \in own : IsFirst(r, own) /\ Tells(q, {r.type}, "own", own, actual)

CountsAdmin(q) ==
  /\ Reads(q, "admin")
  /\ LET actual == Admin(Of({User}, perms)) IN
     \E own \in Read(actual, {}) :
       IF own # {} THEN Tells(q, {All}, "own", own, actual) ELSE Goes(q, "groups", own, actual)

(* Where a request without a permission of a group goes.                   *)
Otherwise(q, read, actual) ==
  CASE req[q].kind = "resolve"  -> Goes(q, "default", read, actual)
    [] req[q].kind = "list"     -> Goes(q, "rows", read, actual)
    [] req[q].kind = "platform" -> Tells(q, {}, "none", read, actual)

ReadsGroups(q) ==
  /\ Reads(q, "groups")
  /\ \E m \in Read(members, {}) :
       IF m = {} THEN Otherwise(q, m, members)
       ELSE req' = [req EXCEPT ![q].pc = IF req[q].kind = "resolve" THEN "groupRow" ELSE "groupAdmin",
                               ![q].groups = m]

(* Fault: the rows of the groups are not ordered by type.                  *)
ReadsGroupRowUnordered(q) ==
  /\ Reads(q, "groupRow")
  /\ LET actual == Of(req[q].groups, On(req[q].cluster, perms)) IN
     \E rows \in Read(actual, {}) :
       \/ rows = {} /\ Otherwise(q, rows, actual)
       \/ \E r \in rows : IsFirst(r, rows) /\ Tells(q, {r.type}, "group", rows, actual)

ReadsGroupRow(q) ==
  /\ Reads(q, "groupRow")
  /\ LET actual == Of(req[q].groups, On(req[q].cluster, perms)) IN
     \E rows \in Read(actual, {}) :
       \/ rows = {} /\ Otherwise(q, rows, actual)
       \/ \E r \in Top(rows) : IsFirst(r, Top(rows)) /\ Tells(q, {r.type}, "group", rows, actual)

CountsGroupAdmin(q) ==
  /\ Reads(q, "groupAdmin")
  /\ LET actual == Admin(Of(req[q].groups, perms)) IN
     \E rows \in Read(actual, {}) :
       IF rows # {} THEN Tells(q, {All}, "group", rows, actual) ELSE Otherwise(q, rows, actual)

(* Fault: members of groups get the rows of their groups only.             *)
ReadsRowsOfGroups(q) ==
  /\ Reads(q, "rows")
  /\ LET actual == Of(IF req[q].groups = {} THEN {User} ELSE req[q].groups, perms) IN
     \E rows \in Read(actual, {}) :
       IF rows # {} THEN Tells(q, ClustersOf(rows), "own", rows, actual)
       ELSE Tells(q, {All}, "default", rows, actual)

(* No row, and therefore also no answer, means every cluster.              *)
ReadsRows(q) ==
  /\ Reads(q, "rows")
  /\ LET actual == Of(req[q].groups \cup {User}, perms) IN
     \E rows \in Read(actual, {}) :
       IF rows # {} THEN Tells(q, ClustersOf(rows), "own", rows, actual)
       ELSE Tells(q, {All}, "default", rows, actual)

Default(q) ==
  /\ Reads(q, "default")
  /\ \E u \in Read(users, {}) :
       IF u = {} THEN Tells(q, {}, "none", u, users) ELSE Tells(q, {"readonly"}, "default", u, users)

-----------------------------------------------------------------------------
GroupCalls(c) ==
  \/ \E g \in Groups : \/ AddUserToGroup(c, g) \/ RemoveUserFromGroup(c, g)
                       \/ UpdateUserGroup(c, g) \/ DeleteUserGroup(c, g)
  \/ AddFindsGroup(c) \/ AddCounts(c) \/ AddInserts(c)
  \/ UpdateSavesGroup(c) \/ DeleteClearsGroup(c) \/ DeleteDropsGroup(c)

PermissionCalls(c) ==
  \/ \E h \in Holders, cl \in Clusters, t \in Types : CreateClusterPermission(c, h, cl, t)
  \/ \E r \in perms, t \in Types : UpdateClusterPermission(c, r, t)
  \/ \E rows \in SUBSET perms : DeletePermissions(c, rows)
  \/ CreateInserts(c) \/ UpdateSaves(c)

UserCalls(c) ==
  \/ DeleteUser(c) \/ LoadUser(c) \/ SaveUser(c)
  \/ DeleteClearsMembers(c) \/ DeleteClearsPerms(c) \/ DeleteDropsUser(c)

Answering(q) ==
  \/ FindsUser(q) \/ ReadsOwn(q) \/ CountsAdmin(q) \/ ReadsGroups(q) \/ ReadsGroupRow(q)
  \/ CountsGroupAdmin(q) \/ ReadsRows(q) \/ Default(q)

Next ==
  \/ \E c \in Calls : GroupCalls(c) \/ PermissionCalls(c) \/ UserCalls(c) \/ Fails(c)
  \/ \E q \in Requests : Answering(q)
  \/ \E q \in Requests, cl \in Clusters : Ask(q, "resolve", cl)
  \/ \E q \in Requests, kind \in {"platform", "list"} : Ask(q, kind, AnyCluster)

Spec == Init /\ [][Next]_vars

-----------------------------------------------------------------------------
Answered(q) == req[q].pc = "done"

(* A request reads the tables in up to five statements while they change.  *)
(* Still its answer was the right one, by all tables as they stood at one  *)
(* moment of the request, as long as one administrator's call at most      *)
(* changed them meanwhile, be it the deletion of the user in its three     *)
(* statements.  The list of clusters reads the rows twice, and is right    *)
(* when nothing changed.                                                   *)
AnswerWasRight ==
  \A q \in Requests :
    /\ Answered(q) /\ "failed" \notin req[q].notes
    /\ \A c, d \in req[q].writers : c = d /\ req[q].kind # "list"
    => req[q].answer \in req[q].right

(* What lasted through a request counts in its answer.                     *)
HonoursLasting(q) ==
  \A r \in req[q].lasting :
    Answered(q) /\ "failed" \notin req[q].notes =>
      /\ req[q].kind = "resolve" /\ r.cluster = req[q].cluster /\ r.holder = User
           => req[q].source = "own"
      /\ req[q].kind = "resolve" /\ r.cluster = req[q].cluster /\ r.holder \in req[q].in
           => \/ req[q].source = "own"
              \/ /\ req[q].source = "group"
                 /\ \A t \in req[q].answer : Field[t] <= Field[r.type]
      /\ req[q].kind = "platform" /\ r.type = "admin" /\ r.holder \in req[q].in \cup {User}
           => req[q].answer = {All}
      /\ req[q].kind = "list" /\ req[q].answer # {} /\ r.holder \in req[q].in \cup {User}
           => req[q].answer = {All} \/ (r.type # "admin" /\ r.cluster \in req[q].answer)

(* However many calls come between the statements, what the user had all   *)
(* through the request counts: a row of the user decides, a row of a group *)
(* is not passed over for a weaker one or for the default, and an          *)
(* administrator is known as one.                                          *)
NothingOverlooked == \A q \in Requests : HonoursLasting(q)

(* Deleted means deleted: unless its deletion met another call or lost a   *)
(* statement, or a permission was created for it afterwards, nothing is    *)
(* left of a user or a group that is gone.                                 *)
GoneHoldNothing ==
  \A h \in Holders : Gone(h) /\ h \notin marred =>
    /\ Of({h}, perms) = {}
    /\ h \notin members
    /\ h = User => members = {}

RefusedIfLate(q) ==
  Answered(q) /\ "late" \in req[q].notes /\ User \notin marred => req[q].answer = {}

(* Tokens outlive their user, and the middleware does not look the user    *)
(* up: what a deleted user still asks is refused, even when statements     *)
(* fail and while other calls go on.                                       *)
DeletedUserIsRefused == \A q \in Requests : RefusedIfLate(q)

-----------------------------------------------------------------------------
(* The inductive invariant behind the last three.                          *)

(* A call on a group has a group in hand.                                  *)
GroupInHand ==
  \A c \in Calls :
    call[c].pc \in {"addGroup", "addCount", "addInsert", "groupMembers", "groupRow", "saveGroup"}
      => call[c].holder \in Groups

(* A deletion under way that has met nobody has removed what its           *)
(* statements so far remove, and nobody is bringing it back.               *)
UserDeletionClears ==
  \A c \in Calls : User \notin marred =>
    /\ Deleting(c, User) => \A d \in Calls : ~Granting(d, User)
    /\ call[c].pc \in {"userPerms", "userRow"} => members = {}
    /\ call[c].pc = "userRow" => Of({User}, perms) = {}
GroupDeletionClears ==
  \A c \in Calls, g \in Groups : Deleting(c, g) /\ g \notin marred =>
    /\ \A d \in Calls : ~Granting(d, g)
    /\ Of({g}, perms) = {}
    /\ call[c].pc = "groupRow" => g \notin members

(* Nobody is about to give something to who is gone.                       *)
NothingForGone ==
  \A c \in Calls :
    /\ User \notin users \cup marred => ~Granting(c, User)
    /\ \A g \in Groups : /\ g \notin groups \cup marred
                         /\ call[c].pc \in {"addCount", "addInsert", "insert", "save"}
                         => call[c].holder # g

(* A request of a deleted user finds nothing on its way.                   *)
LateFindsNothing(q) ==
  "late" \in req[q].notes /\ User \notin marred =>
    /\ User \notin users
    /\ req[q].pc \notin {"idle", "groupRow", "groupAdmin", "rows"}
    /\ req[q].kind = "list" => req[q].pc \in {"who", "done"}

(* What lasted is still there, and is not among what was looked for and    *)
(* not found.                                                              *)
LastingIsThere(q) == Asking(q) => req[q].lasting \subseteq perms /\ req[q].in \subseteq members
LookedFor(q) ==
  "failed" \notin req[q].notes =>
    LET here == On(req[q].cluster, req[q].lasting)
        pc   == req[q].pc
    IN  /\ pc \in {"groupRow", "groupAdmin", "rows"} => req[q].in \subseteq req[q].groups
        /\ pc \in {"groups", "groupRow", "default"} /\ req[q].kind = "resolve" => Of({User}, here) = {}
        /\ pc = "default" => Of(req[q].in, here) = {}
        /\ pc \in {"groups", "groupAdmin", "rows"} /\ req[q].kind # "resolve"
             => Admin(Of({User}, req[q].lasting)) = {}
        /\ pc = "rows" => Admin(Of(req[q].in, req[q].lasting)) = {}

(* The step a request is at belongs to what it asks.                       *)
KindOfStep(q) ==
  /\ req[q].pc \in {"own", "groupRow", "default"} => req[q].kind = "resolve"
  /\ req[q].pc \in {"admin", "groupAdmin"} => req[q].kind # "resolve"
  /\ req[q].pc \in {"who", "rows"} => req[q].kind = "list"

RequestInv(q) ==
  /\ KindOfStep(q) /\ LateFindsNothing(q) /\ RefusedIfLate(q)
  /\ LastingIsThere(q) /\ LookedFor(q) /\ HonoursLasting(q)

DeletionInv ==
  UserDeletionClears /\ GroupDeletionClears /\ NothingForGone /\ GoneHoldNothing

IInv == TypeOK /\ GroupInHand /\ DeletionInv /\ \A q \in Requests : RequestInv(q)

-----------------------------------------------------------------------------
(* The inductive invariant behind AnswerWasRight, beside IInv.             *)

(* An id names one row, also one that a call is about to save.             *)
Saving(c) == call[c].pc = "save"
IdsAreKeys ==
  /\ \A r \in perms : r.id < next /\ \A x \in perms : x.id = r.id => x = r
  /\ \A c \in Calls : Saving(c) =>
       /\ call[c].id < next
       /\ \A r \in perms : r.id = call[c].id => r.holder = call[c].holder
       /\ \A d \in Calls : Saving(d) /\ call[d].id = call[c].id => call[d].holder = call[c].holder

(* A call that has changed the tables will do so again only if it deletes  *)
(* the user.                                                               *)
WritersArePlaced ==
  \A q \in Requests : \A c \in req[q].writers :
    call[c].pc \in {"groupRow", "userPerms", "userRow", "done"}
OneWriter(q) == \A c, d \in req[q].writers : c = d
Open(q)      == \A c \in req[q].writers : call[c].pc \in {"userPerms", "userRow"}

(* The rows that a request looks for first, and the others.                *)
Own(kind, cluster, p) ==
  IF kind = "resolve" THEN Of({User}, On(cluster, p)) ELSE Admin(Of({User}, p))
NotOwn(p) == {r \in p : r.holder # User}

(* The groups whose rows are still to be read.                             *)
ToSee(q) == CASE req[q].pc = "groups" -> members
              [] req[q].pc \in {"groupRow", "groupAdmin"} -> req[q].groups
              [] req[q].pc = "default" -> {}

(* A request that has found no row of its own answers as if there were     *)
(* none; that is right at some moment.  While its writer may go on, there  *)
(* is none still, and the groups only get fewer.                           *)
OwnPassed(q) ==
  LET k == req[q]
  IN  k.kind # "list" /\ k.pc \in {"groups", "groupRow", "groupAdmin", "default"} =>
        /\ Verdict(k.kind, k.cluster, users, ToSee(q), NotOwn(perms)) \in k.right
        /\ Open(q) =>
             /\ Own(k.kind, k.cluster, perms) = {}
             /\ k.pc \in {"groupRow", "groupAdmin"} => members \subseteq k.groups
             /\ k.pc = "default" => Of(members, On(k.cluster, perms)) = {}
        /\ k.writers = {} /\ k.pc \in {"groupRow", "groupAdmin"} => members = k.groups

(* A request for the list that nobody disturbs knows what it has read.     *)
ListUndisturbed(q) ==
  LET k == req[q]
  IN  k.kind = "list" /\ k.writers = {} =>
        /\ k.pc # "who" => users # {}
        /\ k.pc \in {"who", "admin", "groups"} => k.groups = {}
        /\ k.pc \in {"groups", "groupAdmin", "rows"} => Admin(Of({User}, perms)) = {}
        /\ k.pc \in {"groupAdmin", "rows"} => k.groups = members
        /\ k.pc = "rows" => Admin(Of(members, perms)) = {}

RightSoFar(q) ==
  LET k == req[q]
  IN  /\ Asking(q) => Verdict(k.kind, k.cluster, users, members, perms) \in k.right
      /\ Asking(q) /\ "failed" \notin k.notes /\ OneWriter(q) => OwnPassed(q) /\ ListUndisturbed(q)
      /\ Answered(q) /\ "failed" \notin k.notes
         /\ (\A c, d \in k.writers : c = d /\ k.kind # "list") => k.answer \in k.right

AnswerInv == IdsAreKeys /\ WritersArePlaced /\ \A q \in Requests : RightSoFar(q)
================================================================================
