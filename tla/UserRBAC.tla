-------------------------------- MODULE UserRBAC --------------------------------
(***************************************************************************)
(* The permissions of one user on one cluster, kept twice: as rows of the  *)
(* cluster_permissions table (services/permission_service.go) and as       *)
(* RoleBindings of the user's service account in the cluster               *)
(* (services/rbac_service.go).  A platform administrator's API call        *)
(* (handlers/permission.go) changes the table and then starts a goroutine  *)
(* that brings the cluster after it; nothing orders two calls, two         *)
(* goroutines, or a goroutine and a later call.                            *)
(*                                                                         *)
(* A call and the goroutine it starts are one process.  Each database      *)
(* statement and each write to the Kubernetes API is one action.  The Get  *)
(* that precedes a Create or an Update is part of it: what another writer  *)
(* can do between the two makes the write fail (AlreadyExists, Conflict,   *)
(* NotFound).  Any statement and any write may fail; what the code then    *)
(* does differs from place to place.  Rows that grant to a user group have *)
(* no goroutine and are left out.                                          *)
(***************************************************************************)
EXTENDS Naturals, Sequences

CONSTANTS
  MaxCalls,    (* bound: API calls administrators make                     *)
  Types,       (* permission types the calls ask for                       *)
  Namespaces,  (* namespaces a permission can be limited to                *)
  Asks,        (* lists of namespaces the calls send                       *)
  CustomRoles  (* ClusterRoles of the cluster an administrator can pick    *)

AllTypes   == {"admin", "ops", "dev", "readonly", "custom"}
Everywhere == "*"
NoRole     == ""

ASSUME BoundedCalls == MaxCalls \in Nat
ASSUME KnownTypes   == Types \subseteq AllTypes
ASSUME KnownAsks    == Asks \subseteq ((SUBSET Namespaces) \cup {{"*"}})
ASSUME ProperNames  == /\ Everywhere \notin Namespaces
                       /\ CustomRoles \cap (AllTypes \cup {NoRole}) = {}

VARIABLES
  rows,      (* cluster_permissions rows of the user, by id; live is       *)
             (* FALSE once deleted_at is set                               *)
  call,      (* the API calls and their goroutines                         *)
  account,   (* the user's own service account in the cluster              *)
  bindings,  (* (Cluster)RoleBindings of that account                      *)
  asked,     (* history: bindings a stored row has ever called for         *)
  marred,    (* history: what may keep table and cluster apart             *)
  behind     (* history: the goroutine of the last row written gave up     *)

vars == <<rows, call, account, bindings, asked, marred, behind>>

Calls  == 1 .. MaxCalls
Places == Namespaces \cup {Everywhere}
Roles  == CustomRoles \cup AllTypes   (* a predefined role is named by its type *)
Scopes == ((SUBSET Namespaces) \ {{}}) \cup {{Everywhere}}
Row    == {r \in [live : BOOLEAN, type : AllTypes, scope : Scopes, role : CustomRoles \cup {NoRole}] :
             r.type = "custom" => r.role # NoRole}
NoRow  == [live |-> FALSE, type |-> "readonly", scope |-> {Everywhere}, role |-> NoRole]

Binding == [type : AllTypes, place : Places, role : Roles]
Labels  == {"idle", "insert", "load", "save", "reload", "remove",
            "task", "cleanup", "ensure", "bind", "done"}
Call    == [pc : Labels, id : Nat, old : Row, new : Row, left : SUBSET Places]
Marks   == {"overlap", "miscount", "failure", "batch"}

(* Every variable has its type: rows are well formed, a custom permission  *)
(* names a role, and what a call has in hand is a row and the places it    *)
(* still has to visit.                                                     *)
TypeOK ==
  /\ rows \in Seq(Row)
  /\ call \in [Calls -> Call]
  /\ account \in {"absent", "present"}
  /\ bindings \in SUBSET Binding
  /\ asked \in SUBSET Binding
  /\ marred \in SUBSET Marks
  /\ behind \in BOOLEAN

EmptyHanded(l) == [pc |-> l, id |-> 0, old |-> NoRow, new |-> NoRow, left |-> {}]

Init ==
  /\ rows = <<>>
  /\ call = [c \in Calls |-> EmptyHanded("idle")]
  /\ account = "absent"
  /\ bindings = {}
  /\ asked = {}
  /\ marred = {}
  /\ behind = FALSE

Active(c) == call[c].pc \notin {"idle", "done"}
Quiet     == \A c \in Calls : ~Active(c)
LiveIds   == {i \in DOMAIN rows : rows[i].live}

-----------------------------------------------------------------------------
(* What a row means in the cluster.                                        *)

(* EnsureUserRBAC takes the role of the row if there is one, whatever the  *)
(* type; a row keeps the role of a custom permission it once was.          *)
RoleOf(r)   == IF r.role # NoRole THEN r.role ELSE r.type
LeftOver(r) == r.type # "custom" /\ r.role # NoRole
Granted(r)  == IF r.type = "custom" THEN r.role ELSE r.type

(* Fault in NeedsAccount: a custom permission on every namespace is taken *)
(* for one of the shared accounts.                                         *)
NeedsAccountIfLimited(r) == r.type \notin {"admin", "ops"} /\ Everywhere \notin r.scope

(* EnsureUserRBAC leaves a row with one of the four shared service         *)
(* accounts to that account, and otherwise gives the user an own one.      *)
NeedsAccount(r) ==
  /\ r.type \notin {"admin", "ops"}
  /\ r.type \in {"dev", "readonly"} => Everywhere \notin r.scope

Wanted(r) ==
  IF r.live /\ NeedsAccount(r)
  THEN {[type |-> r.type, place |-> p, role |-> RoleOf(r)] : p \in r.scope}
  ELSE {}

(* GetEffectiveServiceAccount: the account a kubectl terminal runs as.     *)
EffectiveAccount(r) ==
  CASE r.type \in {"admin", "ops"} -> r.type
    [] r.type \in {"dev", "readonly"} ->
         IF Everywhere \in r.scope THEN r.type ELSE "user"
    [] OTHER -> "user"

(* The names of the bindings carry the type, so the bindings of one type   *)
(* and place are one object.                                               *)
SameObject(b, t, p) == b.type = t /\ b.place = p

-----------------------------------------------------------------------------
(* API calls on the table.                                                 *)

Step(c, rec) == call' = [call EXCEPT ![c] = rec]
Finish(c)    == Step(c, EmptyHanded("done"))
Goto(c, l)   == Step(c, [call[c] EXCEPT !.pc = l])

Arrives(c) == call[c].pc = "idle" /\ \A d \in Calls : d < c => call[d].pc # "idle"

Overlap     == IF Quiet THEN {} ELSE {"overlap"}
MarkArrival == marred' = marred \cup Overlap

ClusterSame == UNCHANGED <<account, bindings>>

(* A custom permission names a role; the form sends no role otherwise.     *)
RoleFits(t, role) == (t = "custom") <=> (role # NoRole)

ToInsert(c, t, s, role) ==
  Step(c, [call[c] EXCEPT !.pc = "insert",
             !.new = [live |-> TRUE, type |-> t, role |-> role,
                      scope |-> IF s = {} THEN {Everywhere} ELSE s]])

(* CreateClusterPermission counts the live rows, and only then inserts.    *)
CreateCount(c, t, s, role) ==
  /\ Arrives(c)
  /\ RoleFits(t, role)
  /\ IF LiveIds # {} THEN Finish(c) ELSE ToInsert(c, t, s, role)
  /\ MarkArrival
  /\ ClusterSame
  /\ UNCHANGED <<rows, asked, behind>>

(* The count fails: its error is dropped and the count is zero.            *)
CreateMiscount(c, t, s, role) ==
  /\ Arrives(c)
  /\ RoleFits(t, role)
  /\ LiveIds # {}
  /\ ToInsert(c, t, s, role)
  /\ marred' = marred \cup Overlap \cup {"miscount"}
  /\ ClusterSame
  /\ UNCHANGED <<rows, asked, behind>>

Insert(c) ==
  /\ call[c].pc = "insert"
  /\ rows' = Append(rows, call[c].new)
  /\ asked' = asked \cup Wanted(call[c].new)
  /\ Step(c, [call[c] EXCEPT !.pc = "reload", !.id = Len(rows) + 1])
  /\ behind' = FALSE
  /\ ClusterSame
  /\ UNCHANGED marred

(* The handler keeps the row as it was, to clean up after it; a row that   *)
(* is gone is not an error here.                                           *)
UpdateRead(c, i) ==
  /\ Arrives(c)
  /\ i \in DOMAIN rows
  /\ Step(c, [call[c] EXCEPT !.pc = "load", !.id = i,
                             !.old = IF rows[i].live THEN rows[i] ELSE NoRow])
  /\ MarkArrival
  /\ ClusterSame
  /\ UNCHANGED <<rows, asked, behind>>

(* The request changes what it names: a role only for a custom permission, *)
(* and an empty list of namespaces leaves the stored one.  (An empty type  *)
(* would too, but the form always sends one.)                              *)
Updated(r, t, s, role) ==
  [r EXCEPT !.type = t,
            !.scope = IF s = {} THEN @ ELSE s,
            !.role = IF t = "custom" /\ role # NoRole THEN role ELSE @]

Valid(r) == r.type = "custom" => r.role # NoRole

(* Fault: the row is loaded whether deleted or not.                       *)
UpdateLoadUnscoped(c, t, s, role) ==
  /\ call[c].pc = "load"
  /\ RoleFits(t, role) \/ t = "custom"
  /\ LET n == [Updated(rows[call[c].id], t, s, role) EXCEPT !.live = TRUE]
     IN  IF Valid(n)
           THEN Step(c, [call[c] EXCEPT !.pc = "save", !.new = n])
           ELSE Finish(c)
  /\ ClusterSame
  /\ UNCHANGED <<rows, asked, marred, behind>>

UpdateLoad(c, t, s, role) ==
  /\ call[c].pc = "load"
  /\ RoleFits(t, role) \/ t = "custom"
  /\ LET r == rows[call[c].id]
         n == Updated(r, t, s, role)
     IN  IF r.live /\ Valid(n)
           THEN Step(c, [call[c] EXCEPT !.pc = "save", !.new = n])
           ELSE Finish(c)
  /\ ClusterSame
  /\ UNCHANGED <<rows, asked, marred, behind>>

(* GORM's Save: an UPDATE of the live row, or, when no live row has the    *)
(* id, an upsert of every column, deleted_at included.                     *)
Save(c) ==
  /\ call[c].pc = "save"
  /\ rows' = [rows EXCEPT ![call[c].id] = call[c].new]
  /\ asked' = asked \cup Wanted(call[c].new)
  /\ Goto(c, "reload")
  /\ behind' = FALSE
  /\ ClusterSame
  /\ UNCHANGED marred

(* The row is read back with its associations; one deleted in the meantime *)
(* or a read that fails leaves the values in hand.  Then the goroutine     *)
(* starts.                                                                 *)
Reload(c) ==
  /\ call[c].pc = "reload"
  /\ \E seen \in {call[c].new} \cup {r \in {rows[call[c].id]} : r.live} :
       Step(c, [call[c] EXCEPT !.pc = "task", !.new = seen])
  /\ ClusterSame
  /\ UNCHANGED <<rows, asked, marred, behind>>

DeleteRead(c, i) ==
  /\ Arrives(c)
  /\ i \in DOMAIN rows
  /\ Step(c, [call[c] EXCEPT !.pc = "remove", !.id = i,
                             !.old = IF rows[i].live THEN rows[i] ELSE NoRow])
  /\ MarkArrival
  /\ ClusterSame
  /\ UNCHANGED <<rows, asked, behind>>

(* The handler of an update or a deletion drops the error of its read: the *)
(* call goes on (l: to its next step) with no row to clean up after.       *)
Unread(c, i, l) ==
  /\ Arrives(c)
  /\ i \in DOMAIN rows
  /\ Step(c, [call[c] EXCEPT !.pc = l, !.id = i, !.old = NoRow])
  /\ marred' = marred \cup Overlap \cup {"failure"}
  /\ ClusterSame
  /\ UNCHANGED <<rows, asked, behind>>

(* No row deleted is an error; a row that could not be read has no cleanup. *)
Remove(c) ==
  /\ call[c].pc = "remove"
  /\ IF rows[call[c].id].live /\ call[c].old.live THEN Goto(c, "task") ELSE Finish(c)
  /\ rows' = [rows EXCEPT ![call[c].id].live = FALSE]
  /\ ClusterSame
  /\ UNCHANGED <<asked, marred, behind>>

(* Any other statement of a call that fails ends it with nothing written.  *)
StatementFails(c) ==
  /\ call[c].pc \in {"insert", "load", "save", "remove"}
  /\ Finish(c)
  /\ ClusterSame
  /\ UNCHANGED <<rows, asked, marred, behind>>

(* BatchDeleteClusterPermissions: one statement, and no goroutine.         *)
BatchDelete(c, ids) ==
  /\ Arrives(c)
  /\ ids # {}
  /\ rows' = [i \in DOMAIN rows |-> IF i \in ids THEN [rows[i] EXCEPT !.live = FALSE] ELSE rows[i]]
  /\ Finish(c)
  /\ marred' = marred \cup Overlap \cup (IF ids \cap LiveIds # {} THEN {"batch"} ELSE {})
  /\ ClusterSame
  /\ UNCHANGED <<asked, behind>>

-----------------------------------------------------------------------------
(* The goroutines, and the cluster they change.                            *)

TableSame == UNCHANGED <<rows, asked>>

GiveUp(c) ==
  /\ Finish(c)
  /\ marred' = marred \cup {"failure"}
  /\ behind' = (behind \/ call[c].new.live)
  /\ ClusterSame
  /\ TableSame

(* The cluster row is read and a client made.  An update or a deletion     *)
(* cleans up after the old row first.                                      *)
Connect(c) ==
  /\ call[c].pc = "task"
  /\ Step(c, IF call[c].old.live
               THEN [call[c] EXCEPT !.pc = "cleanup", !.left = {Everywhere} \cup call[c].old.scope]
               ELSE [call[c] EXCEPT !.pc = "ensure"])
  /\ ClusterSame
  /\ TableSame
  /\ UNCHANGED <<marred, behind>>

(* CleanupUserRBAC deletes the binding of the whole cluster, then the one  *)
(* of each namespace; an error is logged and the next one is tried.        *)
Visited(c, p) ==
  LET rest == call[c].left \ {p}
  IN  IF rest = {} /\ ~call[c].new.live
        THEN Finish(c)
        ELSE Step(c, [call[c] EXCEPT !.left = rest, !.pc = IF rest = {} THEN "ensure" ELSE @])

NextToClean(c, p) ==
  /\ call[c].pc = "cleanup"
  /\ p \in call[c].left
  /\ Everywhere \in call[c].left => p = Everywhere

(* Fault in Unbind: the name is made from the type of the new row.        *)
UnbindNewType(c, p) ==
  /\ NextToClean(c, p)
  /\ bindings' = {b \in bindings : ~SameObject(b, call[c].new.type, p)}
  /\ Visited(c, p)
  /\ TableSame
  /\ UNCHANGED <<account, marred, behind>>

Unbind(c, p) ==
  /\ NextToClean(c, p)
  /\ bindings' = {b \in bindings : ~SameObject(b, call[c].old.type, p)}
  /\ Visited(c, p)
  /\ TableSame
  /\ UNCHANGED <<account, marred, behind>>

UnbindFails(c, p) ==
  /\ NextToClean(c, p)
  /\ Visited(c, p)
  /\ marred' = marred \cup {"failure"}
  /\ ClusterSame
  /\ TableSame
  /\ UNCHANGED behind

(* EnsureUserRBAC: nothing to do, or the account and then its bindings.    *)
EnsureAccount(c) ==
  /\ call[c].pc = "ensure"
  /\ IF NeedsAccount(call[c].new)
       THEN /\ account' = "present"
            /\ Step(c, [call[c] EXCEPT !.pc = "bind", !.left = call[c].new.scope])
       ELSE /\ account' = account
            /\ Finish(c)
  /\ TableSame
  /\ UNCHANGED <<bindings, marred, behind>>

(* A roleRef cannot be changed: the API server rejects the update.         *)
Rejected(c, p) ==
  \E b \in bindings : SameObject(b, call[c].new.type, p) /\ b.role # RoleOf(call[c].new)

Bind(c, p) ==
  /\ call[c].pc = "bind"
  /\ p \in call[c].left
  /\ ~Rejected(c, p)
  /\ bindings' = bindings \cup {[type |-> call[c].new.type, place |-> p, role |-> RoleOf(call[c].new)]}
  /\ LET rest == call[c].left \ {p}
     IN  IF rest = {} THEN Finish(c) ELSE Step(c, [call[c] EXCEPT !.left = rest])
  /\ TableSame
  /\ UNCHANGED <<account, marred, behind>>

(* The client cannot be made, or a write of EnsureUserRBAC fails: the      *)
(* goroutine logs the error and ends.                                      *)
TaskFails(c) == call[c].pc \in {"task", "ensure", "bind"} /\ GiveUp(c)

-----------------------------------------------------------------------------
NextCall(c) ==
  \/ \E t \in Types, s \in Asks, r \in CustomRoles \cup {NoRole} :
       CreateCount(c, t, s, r) \/ CreateMiscount(c, t, s, r) \/ UpdateLoad(c, t, s, r)
  \/ \E i \in DOMAIN rows :
       UpdateRead(c, i) \/ DeleteRead(c, i) \/ \E l \in {"load", "remove"} : Unread(c, i, l)
  \/ \E ids \in SUBSET DOMAIN rows : BatchDelete(c, ids)
  \/ Insert(c) \/ Save(c) \/ Reload(c) \/ Remove(c) \/ StatementFails(c)
  \/ Connect(c) \/ EnsureAccount(c) \/ TaskFails(c)
  \/ \E p \in Places : Unbind(c, p) \/ UnbindFails(c, p) \/ Bind(c, p)

Next == \E c \in Calls : NextCall(c)

Spec == Init /\ [][Next]_vars

-----------------------------------------------------------------------------
(* Nothing is ever bound in the cluster that no stored row has called for, *)
(* whatever calls overlap and whatever writes fail: a goroutine works with *)
(* rows that were in the table, even when they no longer are.              *)
BindingsAreTraceable == bindings \subseteq asked

(* Calls have not overlapped and every count of rows was one: then no call *)
(* has met a second live row or lost sight of the first.                   *)
Alone == marred \cap {"overlap", "miscount"} = {}

(* When administrators wait for one another, every statement and every     *)
(* write succeeds (the read whose error the handlers drop included), and   *)
(* no batch deletion has been made, then the cluster ends with exactly the *)
(* bindings the table calls for, none missing and none left over.          *)
BindingsMatchRows ==
  Quiet /\ marred = {} => bindings = UNION {Wanted(rows[i]) : i \in DOMAIN rows}

(* The account a terminal of the user is started with                      *)
(* (GetEffectiveServiceAccount) is there and bound, in every place, to the *)
(* role the type of the row stands for (EnsureUserRBAC), once a goroutine  *)
(* has come through since the row was last written.  It makes good what    *)
(* earlier ones failed at, and neither a failed read or cleanup nor a      *)
(* batch deletion that left bindings behind keeps it from that.  Rows with *)
(* the role of a custom permission they no longer are, are another matter  *)
(* (CustomRoleForCustomOnly).                                              *)
GrantedAccountWorks ==
  Quiet /\ Alone /\ ~behind =>
    \A i \in LiveIds : EffectiveAccount(rows[i]) = "user" /\ ~LeftOver(rows[i]) =>
      /\ account = "present"
      /\ \A p \in rows[i].scope :
           \E b \in bindings : SameObject(b, rows[i].type, p) /\ b.role = Granted(rows[i])

(* What models/permission.go and rbac_service.go say of the role of a row: *)
(* it is for custom permissions.  UpdateClusterPermission never clears it, *)
(* and EnsureUserRBAC prefers it: a custom permission changed to dev or    *)
(* readonly is bound to the custom role still.  So no run checks this;     *)
(* added to one, TLC shows such a change.                                  *)
CustomRoleForCustomOnly == \A b \in bindings : b.role \in CustomRoles => b.type = "custom"

(* A user has one permission on a cluster, as long as calls do not overlap *)
(* and no count fails: the count and the insertion of                      *)
(* CreateClusterPermission are two statements, the error of the first is   *)
(* dropped, and the table has no unique index.                             *)
OneLiveRow == Alone => \A i, j \in LiveIds : i = j

(* A deleted permission comes back only when calls overlap: Save writes    *)
(* deleted_at, so an update that has loaded the row before its deletion    *)
(* undoes it.                                                              *)
DeletedStaysDeleted ==
  [][\A i \in DOMAIN rows :
       ~rows[i].live /\ rows'[i].live => "overlap" \in marred]_vars

(* The strengthening the proofs of the properties above rest on: what a    *)
(* call has in hand at each of its steps.                                  *)
InHand(c) ==
  LET k == call[c]
  IN  /\ k.pc \in {"load", "save", "reload", "remove"} => k.id \in DOMAIN rows
      /\ k.pc \in {"idle", "load", "remove"} => ~k.new.live
      /\ k.pc \in {"insert", "save", "reload", "ensure", "bind"} => k.new.live
      /\ k.pc \in {"reload", "task", "cleanup", "ensure", "bind"} => Wanted(k.new) \subseteq asked
      /\ k.pc = "task" => k.old.live \/ k.new.live
      /\ k.pc = "bind" => NeedsAccount(k.new) /\ k.left \subseteq k.new.scope

CallsInHand == \A c \in Calls : InHand(c)
RowsAsked   == \A i \in DOMAIN rows : Wanted(rows[i]) \subseteq asked

(* Without overlap one call is under way, and what it has counted or       *)
(* loaded is still so when it writes.                                      *)
OneAtATime == \A c, d \in Calls : Active(c) /\ Active(d) => c = d
CountHolds == \A c \in Calls : call[c].pc = "insert" => \A i \in DOMAIN rows : ~rows[i].live
LoadHolds  == \A c \in Calls : call[c].pc = "save" => rows[call[c].id].live
NoOverlap  == /\ "overlap" \notin marred => OneAtATime /\ LoadHolds
              /\ Alone => CountHolds

IInv == TypeOK /\ CallsInHand /\ RowsAsked /\ BindingsAreTraceable /\ NoOverlap /\ OneLiveRow

(* The strengthening of BindingsMatchRows and GrantedAccountWorks.  Table  *)
(* is what the rows call for.  A call is at work from its write to the     *)
(* table to the end of its goroutine.                                      *)
Table      == UNION {Wanted(rows[i]) : i \in DOMAIN rows}
AtWork(c)  == call[c].pc \in {"reload", "task", "cleanup", "ensure", "bind"}
Settled    == \A c \in Calls : ~AtWork(c)

(* Without overlap a call has in hand the row as it was and as it now is,  *)
(* and no other row is live.                                               *)
HandIsRow(c) ==
  LET k == call[c]
  IN  /\ k.pc \in {"idle", "insert"} => ~k.old.live
      /\ k.pc \in {"load", "save", "remove"} =>
           \/ k.old = IF rows[k.id].live THEN rows[k.id] ELSE NoRow
           \/ k.old = NoRow /\ "failure" \in marred
      /\ k.pc = "reload" => rows[k.id] = k.new
      /\ AtWork(c) => Table = Wanted(k.new)
HandsAreRows == Alone => \A c \in Calls : HandIsRow(c)

(* How far the one call at work has brought the bindings: what the old row *)
(* called for, less and less of it, nothing, more and more of the new one. *)
Halfway(c) ==
  LET k == call[c]
  IN  CASE k.pc \in {"reload", "task"} -> Wanted(k.old)
        [] k.pc = "cleanup" -> {b \in Wanted(k.old) : b.place \in k.left}
        [] k.pc = "ensure"  -> {}
        [] k.pc = "bind"    -> {b \in Wanted(k.new) : b.place \notin k.left}
BindingsFollow ==
  marred = {} => /\ Settled => bindings = Table
                 /\ \A c \in Calls : AtWork(c) => bindings = Halfway(c)

(* The same whatever has failed before and whatever a batch deletion has   *)
(* left behind: none is missing once a goroutine has come through.         *)
NoneMissing ==
  Alone =>
    /\ Settled /\ ~behind => Table \subseteq bindings /\ (Table # {} => account = "present")
    /\ \A c \in Calls : call[c].pc = "bind" =>
         account = "present" /\ Halfway(c) \subseteq bindings

Kept == HandsAreRows /\ BindingsFollow /\ NoneMissing

=============================================================================
