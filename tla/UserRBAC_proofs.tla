---------------------------- MODULE UserRBAC_proofs -----------------------------
(***************************************************************************)
(* What table and cluster keep of each other for any number of calls,      *)
(* types, namespaces and roles.  IInv of UserRBAC is inductive:            *)
(* BindingsAreTraceable needs that a goroutine holds a row the table had   *)
(* (InHand, RowsAsked); OneLiveRow and DeletedStaysDeleted need that,      *)
(* without overlap, what a call has counted or loaded is still so when it  *)
(* writes (CountHolds, LoadHolds).  BindingsMatchRows and                  *)
(* GrantedAccountWorks are about the end of a goroutine and need Kept,     *)
(* which says at each of its steps how much of the old row's bindings is   *)
(* left and how much of the new row's is there.                            *)
(***************************************************************************)
EXTENDS UserRBAC, TLAPS

(* A step of a call changes its own record and no other.                   *)
LEMMA StepEffect ==
  ASSUME NEW c \in Calls, NEW rec \in Call, Step(c, rec), call \in [Calls -> Call]
  PROVE  /\ call' \in [Calls -> Call]
         /\ call'[c] = rec
         /\ \A d \in Calls : d # c => call'[d] = call[d]
BY DEF Step

(* A row calls only for well-formed bindings.                              *)
LEMMA WantedType == \A r \in Row : Wanted(r) \in SUBSET Binding
<1> SUFFICES ASSUME NEW r \in Row, NEW b \in Wanted(r) PROVE b \in Binding
  OBVIOUS
<1>1. r.type \in AllTypes /\ r.scope \subseteq Places /\ RoleOf(r) \in Roles
  BY DEF Row, Scopes, Places, RoleOf, Roles
<1>2. PICK p \in r.scope : b = [type |-> r.type, place |-> p, role |-> RoleOf(r)]
  BY DEF Wanted
<1> QED
  BY <1>1, <1>2 DEF Binding

(* A deleted row calls for nothing.                                        *)
LEMMA WantedDeleted == \A r \in Row : Wanted([r EXCEPT !.live = FALSE]) = {}
BY DEF Wanted, Row

(* The row of a call that has none yet is a row.                           *)
LEMMA NoRowType == NoRow \in Row
BY DEF NoRow, Row, AllTypes, Scopes, Everywhere, NoRole

(* A call that has nothing in hand is a call.                              *)
LEMMA EmptyHandedType == \A l \in Labels : EmptyHanded(l) \in Call
BY NoRowType DEF EmptyHanded, Call

(* Where it is.                                                            *)
LEMMA EmptyHandedPc == \A l : EmptyHanded(l).pc = l
BY DEF EmptyHanded

(* Changing one row, or any rows, in place keeps a sequence of rows.       *)
LEMMA SetRow ==
  ASSUME NEW i \in DOMAIN rows, NEW r \in Row, rows \in Seq(Row)
  PROVE  /\ [rows EXCEPT ![i] = r] \in Seq(Row)
         /\ DOMAIN [rows EXCEPT ![i] = r] = DOMAIN rows
OBVIOUS

(* Any function on the positions of a sequence of rows is one too.         *)
LEMMA MapRows ==
  ASSUME NEW f, DOMAIN f = DOMAIN rows, rows \in Seq(Row),
         f = [i \in DOMAIN rows |-> f[i]],
         \A i \in DOMAIN rows : f[i] \in Row
  PROVE  f \in Seq(Row)
<1>1. DOMAIN rows = 1 .. Len(rows) /\ Len(rows) \in Nat
  OBVIOUS
<1>2. f \in [1 .. Len(rows) -> Row]
  BY <1>1
<1> QED
  BY <1>1, <1>2

(* The initial states satisfy the inductive invariant.                     *)
LEMMA InitIInv == Init => IInv
<1> SUFFICES ASSUME Init PROVE IInv
  OBVIOUS
<1>1. TypeOK
  <2>1. EmptyHanded("idle") \in Call
    BY EmptyHandedType DEF Labels
  <2>2. call \in [Calls -> Call]
    BY <2>1 DEF Init
  <2>3. rows \in Seq(Row) /\ account \in {"absent", "present"}
    BY DEF Init
  <2>4. bindings \in SUBSET Binding /\ asked \in SUBSET Binding /\ marred \in SUBSET Marks
    BY DEF Init
  <2>5. behind \in BOOLEAN
    BY Zenon DEF Init
  <2> QED
    BY <2>2, <2>3, <2>4, <2>5 DEF TypeOK
<1>2. CallsInHand
  BY DEF Init, CallsInHand, InHand, EmptyHanded, NoRow
<1>3. RowsAsked /\ BindingsAreTraceable /\ OneLiveRow
  BY DEF Init, RowsAsked, BindingsAreTraceable, OneLiveRow, LiveIds
<1>4. NoOverlap
  BY DEF Init, NoOverlap, OneAtATime, CountHolds, LoadHolds, Active, EmptyHanded
<1> QED
  BY <1>1, <1>2, <1>3, <1>4 DEF IInv

(* What a request turns into is a row.                                     *)
LEMMA CreatedIsRow ==
  ASSUME NEW t \in Types, NEW s \in Asks, NEW role \in CustomRoles \cup {NoRole},
         RoleFits(t, role)
  PROVE  [live |-> TRUE, type |-> t, role |-> role,
          scope |-> IF s = {} THEN {Everywhere} ELSE s] \in Row
BY KnownTypes, KnownAsks DEF Row, Scopes, Everywhere, RoleFits

(* An update of a row is a row, live as before.                            *)
LEMMA UpdatedIsRow ==
  ASSUME NEW r \in Row, NEW t \in Types, NEW s \in Asks, NEW role \in CustomRoles \cup {NoRole}
  PROVE  /\ Valid(Updated(r, t, s, role)) => Updated(r, t, s, role) \in Row
         /\ Updated(r, t, s, role).live = r.live
BY KnownTypes, KnownAsks DEF Updated, Valid, Row, Scopes, Everywhere

(* The record of a call stays one when its fields change within their      *)
(* types.                                                                  *)
LEMMA CallFields ==
  ASSUME NEW k \in Call, NEW l \in Labels, NEW i \in Nat, NEW r \in Row, NEW q \in Row,
         NEW left \in SUBSET Places
  PROVE  /\ [k EXCEPT !.pc = l] \in Call
         /\ [k EXCEPT !.pc = l, !.new = r] \in Call
         /\ [k EXCEPT !.pc = l, !.id = i] \in Call
         /\ [k EXCEPT !.pc = l, !.id = i, !.old = r] \in Call
         /\ [k EXCEPT !.pc = l, !.left = left] \in Call
         /\ [k EXCEPT !.left = left, !.pc = l] \in Call
BY DEF Call

(* Every step keeps the types.                                             *)
LEMMA NextTypeOK == TypeOK /\ CallsInHand /\ [Next]_vars => TypeOK'
<1> SUFFICES ASSUME TypeOK, CallsInHand, [Next]_vars PROVE TypeOK'
  OBVIOUS
<1>1. CASE UNCHANGED vars
  BY <1>1 DEF TypeOK, vars
<1>2. ASSUME NEW c \in Calls, NextCall(c) PROVE TypeOK'
  <2> DEFINE k == call[c]
  <2>1. k \in Call /\ rows \in Seq(Row) /\ call \in [Calls -> Call]
    BY DEF TypeOK
  <2>2. \A i \in DOMAIN rows : rows[i] \in Row /\ i \in Nat
    BY <2>1
  <2>3. \A l \in Labels : [k EXCEPT !.pc = l] \in Call
    BY <2>1 DEF Call
  <2>4. "done" \in Labels /\ "insert" \in Labels /\ "load" \in Labels /\ "save" \in Labels
        /\ "reload" \in Labels /\ "remove" \in Labels /\ "task" \in Labels
        /\ "cleanup" \in Labels /\ "ensure" \in Labels /\ "bind" \in Labels
    BY DEF Labels
  <2>5. ASSUME NEW rec \in Call, Step(c, rec) PROVE call' \in [Calls -> Call]
    BY <2>1, <2>5, StepEffect
  <2>6. EmptyHanded("done") \in Call
    BY <2>4, EmptyHandedType
  <2>7. ASSUME NEW t \in Types, NEW s \in Asks, NEW role \in CustomRoles \cup {NoRole},
               CreateCount(c, t, s, role) \/ CreateMiscount(c, t, s, role)
        PROVE  TypeOK'
    <3> DEFINE new == [live |-> TRUE, type |-> t, role |-> role,
                       scope |-> IF s = {} THEN {Everywhere} ELSE s]
    <3>1. new \in Row
      BY <2>7, CreatedIsRow DEF CreateCount, CreateMiscount
    <3>2. [k EXCEPT !.pc = "insert", !.new = new] \in Call
      BY <2>1, <2>4, <3>1 DEF Call
    <3>3. call' \in [Calls -> Call]
      BY <2>3, <2>4, <2>5, <2>6, <2>7, <3>2 DEF CreateCount, CreateMiscount, ToInsert, Finish
    <3>4. marred' \in SUBSET Marks
      BY <2>7 DEF CreateCount, CreateMiscount, MarkArrival, Overlap, TypeOK, Marks
    <3> QED
      BY <2>7, <3>3, <3>4 DEF CreateCount, CreateMiscount, ClusterSame, TypeOK
  <2>8. ASSUME NEW t \in Types, NEW s \in Asks, NEW role \in CustomRoles \cup {NoRole},
               UpdateLoad(c, t, s, role)
        PROVE  TypeOK'
    <3> DEFINE n == Updated(rows[k.id], t, s, role)
    <3>1. rows[k.id] \in Row
      BY <2>2, <2>8 DEF UpdateLoad, CallsInHand, InHand
    <3>2. Valid(n) => n \in Row
      BY <3>1, UpdatedIsRow
    <3> HIDE DEF n
    <3>3. Valid(n) => [k EXCEPT !.pc = "save", !.new = n] \in Call
      BY <2>1, <2>4, <3>2 DEF Call
    <3>4. call' \in [Calls -> Call]
      BY <2>3, <2>4, <2>5, <2>6, <2>8, <3>3 DEF UpdateLoad, Finish, n
    <3> QED
      BY <2>8, <3>4 DEF UpdateLoad, ClusterSame, TypeOK
  <2>9. ASSUME NEW i \in DOMAIN rows, NEW l \in {"load", "remove"},
               UpdateRead(c, i) \/ DeleteRead(c, i) \/ Unread(c, i, l)
        PROVE  TypeOK'
    <3>1. i \in Nat /\ rows[i] \in Row /\ NoRow \in Row
      BY <2>2, NoRowType
    <3>2. \A m \in Labels, old \in {rows[i], NoRow} : [k EXCEPT !.pc = m, !.id = i, !.old = old] \in Call
      BY <2>1, <3>1 DEF Call
    <3>3. call' \in [Calls -> Call]
      BY <2>4, <2>5, <2>9, <3>2 DEF UpdateRead, DeleteRead, Unread
    <3>4. marred' \in SUBSET Marks
      BY <2>9 DEF UpdateRead, DeleteRead, Unread, MarkArrival, Overlap, TypeOK, Marks
    <3> QED
      BY <2>9, <3>3, <3>4 DEF UpdateRead, DeleteRead, Unread, ClusterSame, TypeOK
  <2>10. ASSUME NEW ids \in SUBSET DOMAIN rows, BatchDelete(c, ids) PROVE TypeOK'
    <3>1. call' \in [Calls -> Call]
      BY <2>3, <2>4, <2>5, <2>6, <2>10 DEF BatchDelete, Finish
    <3>2. marred' \in SUBSET Marks
      BY <2>10 DEF BatchDelete, Overlap, TypeOK, Marks
    <3>3. \A i \in DOMAIN rows : [rows[i] EXCEPT !.live = FALSE] \in Row
      BY <2>2 DEF Row
    <3>4. DOMAIN rows' = DOMAIN rows /\ rows' = [i \in DOMAIN rows |-> rows'[i]]
          /\ \A i \in DOMAIN rows : rows'[i] \in Row
      BY <2>2, <2>10, <3>3 DEF BatchDelete
    <3>5. rows' \in Seq(Row)
      BY <2>1, <3>4, MapRows
    <3> QED
      BY <2>10, <3>1, <3>2, <3>5 DEF BatchDelete, ClusterSame, TypeOK
  <2>11. CASE Insert(c)
    <3>1. k.new \in Row /\ Len(rows) + 1 \in Nat
      BY <2>1 DEF Call
    <3>2. [k EXCEPT !.pc = "reload", !.id = Len(rows) + 1] \in Call
      BY <2>1, <2>4, <3>1 DEF Call
    <3>3. call' \in [Calls -> Call]
      BY <2>5, <2>11, <3>2 DEF Insert
    <3>4. rows' \in Seq(Row)
      BY <2>1, <2>11, <3>1 DEF Insert
    <3>5. asked' \in SUBSET Binding
      BY <2>11, <3>1, WantedType DEF Insert, TypeOK
    <3> QED
      BY <2>11, <3>3, <3>4, <3>5 DEF Insert, ClusterSame, TypeOK
  <2>12. CASE Save(c)
    <3>1. k.new \in Row /\ k.id \in DOMAIN rows
      BY <2>1, <2>12 DEF Call, Save, CallsInHand, InHand
    <3>2. call' \in [Calls -> Call]
      BY <2>3, <2>4, <2>5, <2>6, <2>12 DEF Save, Goto
    <3>3. rows' \in Seq(Row)
      BY <2>1, <2>12, <3>1, SetRow DEF Save
    <3>4. asked' \in SUBSET Binding
      BY <2>12, <3>1, WantedType DEF Save, TypeOK
    <3> QED
      BY <2>12, <3>2, <3>3, <3>4 DEF Save, ClusterSame, TypeOK
  <2>13. CASE Reload(c)
    <3>1. rows[k.id] \in Row /\ k.new \in Row
      BY <2>1, <2>2, <2>13 DEF Reload, CallsInHand, InHand, Call
    <3>2. PICK seen \in {k.new, rows[k.id]} : call' = [call EXCEPT ![c] = [k EXCEPT !.pc = "task", !.new = seen]]
      BY <2>13 DEF Reload, Step
    <3>3. [k EXCEPT !.pc = "task", !.new = seen] \in Call
      BY <2>1, <2>4, <3>1, <3>2 DEF Call
    <3>5. call' \in [Calls -> Call]
      BY <2>1, <3>2, <3>3
    <3> QED
      BY <2>13, <3>5 DEF Reload, ClusterSame, TypeOK
  <2>14. CASE Remove(c)
    <3>1. k.id \in DOMAIN rows /\ rows[k.id] \in Row
      BY <2>2, <2>14 DEF Remove, CallsInHand, InHand
    <3>2. [rows[k.id] EXCEPT !.live = FALSE] \in Row
      BY <3>1 DEF Row
    <3>3. rows' = [rows EXCEPT ![k.id] = [rows[k.id] EXCEPT !.live = FALSE]]
      BY <2>14 DEF Remove
    <3>4. rows' \in Seq(Row)
      BY <2>1, <3>1, <3>2, <3>3, SetRow
    <3>5. call' \in [Calls -> Call]
      BY <2>3, <2>4, <2>5, <2>6, <2>14 DEF Remove, Goto, Finish
    <3> QED
      BY <2>14, <3>4, <3>5 DEF Remove, ClusterSame, TypeOK
  <2>15. CASE Connect(c)
    <3>1. {Everywhere} \cup k.old.scope \in SUBSET Places
      BY <2>1 DEF Call, Row, Scopes, Places
    <3>2. [k EXCEPT !.pc = "cleanup", !.left = {Everywhere} \cup k.old.scope] \in Call
      BY <2>1, <2>4, <3>1 DEF Call
    <3>3. call' \in [Calls -> Call]
      BY <2>3, <2>4, <2>5, <2>6, <2>15, <3>2 DEF Connect
    <3> QED
      BY <2>15, <3>3 DEF Connect, ClusterSame, TableSame, TypeOK
  <2>16. CASE EnsureAccount(c)
    <3>1. k.new.scope \in SUBSET Places
      BY <2>1 DEF Call, Row, Scopes, Places
    <3>2. [k EXCEPT !.pc = "bind", !.left = k.new.scope] \in Call
      BY <2>1, <2>4, <3>1 DEF Call
    <3>3. call' \in [Calls -> Call]
      BY <2>3, <2>4, <2>5, <2>6, <2>16, <3>2 DEF EnsureAccount, Finish
    <3>4. account' \in {"absent", "present"}
      BY <2>16 DEF EnsureAccount, TypeOK
    <3> QED
      BY <2>16, <3>3, <3>4 DEF EnsureAccount, TableSame, TypeOK
  <2>17. CASE TaskFails(c)
    <3>1. call' \in [Calls -> Call]
      BY <2>3, <2>4, <2>5, <2>6, <2>17 DEF TaskFails, GiveUp, Finish
    <3>2. marred' \in SUBSET Marks
      BY <2>17 DEF TaskFails, GiveUp, TypeOK, Marks
    <3>3. behind' \in BOOLEAN
      BY <2>17 DEF TaskFails, GiveUp
    <3> QED
      BY <2>17, <3>1, <3>2, <3>3 DEF TaskFails, GiveUp, ClusterSame, TableSame, TypeOK
  <2>18. ASSUME NEW p \in Places, Unbind(c, p) \/ UnbindFails(c, p) PROVE TypeOK'
    <3> DEFINE l == IF k.left \ {p} = {} THEN "ensure" ELSE k.pc
    <3>1. l \in Labels /\ k.left \ {p} \in SUBSET Places
      BY <2>1, <2>4 DEF Call
    <3>2. [k EXCEPT !.left = k.left \ {p}, !.pc = l] \in Call
      BY <2>1, <3>1 DEF Call
    <3>4. call' \in [Calls -> Call]
      BY <2>5, <2>6, <2>18, <3>2 DEF Unbind, UnbindFails, Visited, Finish
    <3>5. marred' \in SUBSET Marks /\ bindings' \in SUBSET Binding
      BY <2>18 DEF Unbind, UnbindFails, ClusterSame, TypeOK, Marks
    <3> QED
      BY <2>18, <3>4, <3>5 DEF Unbind, UnbindFails, ClusterSame, TableSame, TypeOK
  <2>19. ASSUME NEW p \in Places, Bind(c, p) PROVE TypeOK'
    <3>1. [k EXCEPT !.left = k.left \ {p}] \in Call
      BY <2>1 DEF Call
    <3>4. call' \in [Calls -> Call]
      BY <2>5, <2>6, <2>19, <3>1 DEF Bind, Finish
    <3>5. k.new.type \in AllTypes /\ RoleOf(k.new) \in Roles
      BY <2>1 DEF Call, Row, RoleOf, Roles
    <3>6. bindings' \in SUBSET Binding
      BY <2>19, <3>5 DEF Bind, Binding, TypeOK
    <3> QED
      BY <2>19, <3>4, <3>6 DEF Bind, TableSame, TypeOK
  <2>20. CASE StatementFails(c)
    <3>1. call' \in [Calls -> Call]
      BY <2>5, <2>6, <2>20 DEF StatementFails, Finish
    <3> QED
      BY <2>20, <3>1 DEF StatementFails, ClusterSame, TypeOK
  <2> QED
    BY <1>2, <2>7, <2>8, <2>9, <2>10, <2>11, <2>12, <2>13, <2>14, <2>15, <2>16, <2>17, <2>18, <2>19,
       <2>20 DEF NextCall
<1> QED
  BY <1>1, <1>2 DEF Next

(* What a call has in hand is not disturbed by another call's step, which  *)
(* only adds rows and asked bindings.                                      *)
LEMMA OthersInHand ==
  ASSUME NEW d \in Calls, InHand(d), call'[d] = call[d],
         DOMAIN rows \subseteq DOMAIN rows', asked \subseteq asked'
  PROVE  InHand(d)'
<1>1. Wanted(call[d].new)' = Wanted(call[d].new)
  BY DEF Wanted, NeedsAccount, RoleOf
<1> QED
  BY <1>1 DEF InHand, NeedsAccount, Wanted, RoleOf

(* Rows are only added, and a row written calls for what is then asked.    *)
LEMMA NextRows ==
  ASSUME TypeOK, CallsInHand, RowsAsked, NEW c \in Calls, NextCall(c)
  PROVE  DOMAIN rows \subseteq DOMAIN rows' /\ asked \subseteq asked' /\ RowsAsked'
<1>1. rows \in Seq(Row) /\ call[c] \in Call /\ \A i \in DOMAIN rows : rows[i] \in Row
  BY DEF TypeOK
<1>2. CASE UNCHANGED <<rows, asked>>
  BY <1>2 DEF RowsAsked, Wanted, NeedsAccount, RoleOf
<1>3. CASE Insert(c)
  <2>1. rows' = Append(rows, call[c].new) /\ asked' = asked \cup Wanted(call[c].new)
    BY <1>3 DEF Insert
  <2>2. call[c].new \in Row
    BY <1>1 DEF Call
  <2>3. DOMAIN rows \subseteq DOMAIN rows'
        /\ \A i \in DOMAIN rows' : (i \in DOMAIN rows /\ rows'[i] = rows[i]) \/ rows'[i] = call[c].new
    BY <1>1, <2>1, <2>2
  <2>4. \A i \in DOMAIN rows' : Wanted(rows'[i]) \subseteq asked'
    BY <2>1, <2>3 DEF RowsAsked
  <2> QED
    BY <2>1, <2>3, <2>4 DEF RowsAsked, Wanted, NeedsAccount, RoleOf
<1>4. CASE Save(c)
  <2>1. rows' = [rows EXCEPT ![call[c].id] = call[c].new] /\ asked' = asked \cup Wanted(call[c].new)
    BY <1>4 DEF Save
  <2>2. DOMAIN rows' = DOMAIN rows
        /\ \A i \in DOMAIN rows' : rows'[i] = rows[i] \/ rows'[i] = call[c].new
    BY <1>1, <2>1
  <2>3. \A i \in DOMAIN rows' : Wanted(rows'[i]) \subseteq asked'
    BY <2>1, <2>2 DEF RowsAsked
  <2> QED
    BY <2>1, <2>2, <2>3 DEF RowsAsked, Wanted, NeedsAccount, RoleOf
<1>5. ASSUME asked' = asked, DOMAIN rows' = DOMAIN rows,
             \A i \in DOMAIN rows : rows'[i] = rows[i] \/ rows'[i] = [rows[i] EXCEPT !.live = FALSE]
      PROVE  DOMAIN rows \subseteq DOMAIN rows' /\ asked \subseteq asked' /\ RowsAsked'
  <2>1. \A i \in DOMAIN rows' : Wanted(rows'[i]) \subseteq asked'
    BY <1>1, <1>5, WantedDeleted DEF RowsAsked
  <2> QED
    BY <1>5, <2>1 DEF RowsAsked, Wanted, NeedsAccount, RoleOf
<1>6. CASE Remove(c)
  <2>1. call[c].id \in DOMAIN rows
    BY <1>6 DEF Remove, CallsInHand, InHand
  <2>2. rows' = [rows EXCEPT ![call[c].id] = [rows[call[c].id] EXCEPT !.live = FALSE]]
        /\ asked' = asked
    BY <1>6 DEF Remove
  <2> QED
    BY <1>1, <1>5, <2>1, <2>2
<1>7. ASSUME NEW ids \in SUBSET DOMAIN rows, BatchDelete(c, ids)
      PROVE  DOMAIN rows \subseteq DOMAIN rows' /\ asked \subseteq asked' /\ RowsAsked'
  BY <1>1, <1>5, <1>7 DEF BatchDelete
<1> QED
  BY <1>2, <1>3, <1>4, <1>6, <1>7
     DEF NextCall, CreateCount, CreateMiscount, ToInsert, UpdateLoad, UpdateRead, DeleteRead,
         Unread, StatementFails, Reload, Connect, EnsureAccount,
         TaskFails, GiveUp, Unbind, UnbindFails, Bind, TableSame

(* InHand after a step, from the record the step leaves.                   *)
LEMMA InHandAfter ==
  ASSUME NEW c \in Calls, NEW k, call'[c] = k,
         k.pc \in {"load", "save", "reload", "remove"} => k.id \in DOMAIN rows',
         k.pc \in {"idle", "load", "remove"} => ~k.new.live,
         k.pc \in {"insert", "save", "reload", "ensure", "bind"} => k.new.live,
         k.pc \in {"reload", "task", "cleanup", "ensure", "bind"} => Wanted(k.new) \subseteq asked',
         k.pc = "task" => k.old.live \/ k.new.live,
         k.pc = "bind" => NeedsAccount(k.new) /\ k.left \subseteq k.new.scope
  PROVE  InHand(c)'
<1>1. Wanted(call[c].new)' = Wanted(k.new)
  BY DEF Wanted, NeedsAccount, RoleOf
<1>2. NeedsAccount(call[c].new)' = NeedsAccount(k.new)
  BY DEF NeedsAccount
<1> QED
  BY <1>1, <1>2 DEF InHand

(* The step of a call leaves it with what its next step needs.             *)
LEMMA NextInHand ==
  ASSUME TypeOK, CallsInHand, RowsAsked, NEW c \in Calls, NextCall(c)
  PROVE  CallsInHand'
<1> DEFINE k == call[c]
           k1 == call'[c]
<1>1. rows \in Seq(Row) /\ k \in Call /\ call \in [Calls -> Call]
      /\ \A i \in DOMAIN rows : rows[i] \in Row
  BY DEF TypeOK
<1>2. \A d \in Calls : d # c => call'[d] = call[d]
  BY <1>1 DEF NextCall, CreateCount, CreateMiscount, ToInsert, UpdateLoad, UpdateRead,
        DeleteRead, Unread, StatementFails, BatchDelete, Insert, Save,
              Reload, Remove, Connect, EnsureAccount, TaskFails, GiveUp, Unbind, UnbindFails, Visited,
              Bind, Finish, Goto, Step
<1>3. DOMAIN rows \subseteq DOMAIN rows' /\ asked \subseteq asked' /\ RowsAsked'
  BY NextRows
<1>4. \A d \in Calls : d # c => InHand(d)'
  BY <1>2, <1>3, OthersInHand DEF CallsInHand
<1> SUFFICES InHand(c)'
  BY <1>4 DEF CallsInHand
<1>5. InHand(c)
  BY DEF CallsInHand
<1>6. ASSUME k1.pc = "done" PROVE InHand(c)'
  BY <1>6 DEF InHand
<1>8. ASSUME NEW t \in Types, NEW s \in Asks, NEW role \in CustomRoles \cup {NoRole},
             CreateCount(c, t, s, role) \/ CreateMiscount(c, t, s, role)
      PROVE  InHand(c)'
  <2> DEFINE new == [live |-> TRUE, type |-> t, role |-> role,
                     scope |-> IF s = {} THEN {Everywhere} ELSE s]
  <2>1. k1 = EmptyHanded("done") \/ k1 = [k EXCEPT !.pc = "insert", !.new = new]
    BY <1>1, <1>8 DEF Step, CreateCount, CreateMiscount, ToInsert, Finish
  <2>2. new.live
    OBVIOUS
  <2> HIDE DEF new
  <2>3. k1.pc = "done" \/ (k1.pc = "insert" /\ k1.new = new)
    BY <1>1, <2>1, EmptyHandedPc DEF Call
  <2> QED
    BY <1>6, <2>2, <2>3, InHandAfter
<1>9. ASSUME NEW t \in Types, NEW s \in Asks, NEW role \in CustomRoles \cup {NoRole},
             UpdateLoad(c, t, s, role)
      PROVE  InHand(c)'
  <2>1. k.id \in DOMAIN rows
    BY <1>5, <1>9 DEF UpdateLoad, InHand
  <2>2. Updated(rows[k.id], t, s, role).live = rows[k.id].live
    BY <1>1, <2>1, UpdatedIsRow
  <2>3. k1 = EmptyHanded("done")
        \/ (rows[k.id].live /\ k1 = [k EXCEPT !.pc = "save", !.new = Updated(rows[k.id], t, s, role)])
    BY <1>1, <1>9 DEF Step, UpdateLoad, Finish
  <2>4. k1.pc = "done" \/ (k1.pc = "save" /\ k1.new.live /\ k1.id = k.id)
    BY <1>1, <2>2, <2>3, EmptyHandedPc DEF Call
  <2> QED
    BY <1>3, <1>6, <2>1, <2>4, InHandAfter
<1>10. ASSUME NEW i \in DOMAIN rows, NEW l \in {"load", "remove"},
              UpdateRead(c, i) \/ DeleteRead(c, i) \/ Unread(c, i, l)
       PROVE  InHand(c)'
  <2>1. k.pc = "idle" /\ ~k.new.live
    BY <1>5, <1>10 DEF UpdateRead, DeleteRead, Unread, Arrives, InHand
  <2>2. PICK m \in {"load", "remove"}, old \in {rows[i], NoRow} :
          k1 = [k EXCEPT !.pc = m, !.id = i, !.old = old]
    BY <1>1, <1>10 DEF Step, UpdateRead, DeleteRead, Unread
  <2>3. k1.pc \in {"load", "remove"} /\ k1.id = i /\ k1.new = k.new
    BY <1>1, <2>2 DEF Call
  <2> QED
    BY <1>3, <2>1, <2>3, InHandAfter
<1>11. CASE Insert(c)
  <2>1. k1.pc = "reload" /\ k1.id = Len(rows) + 1 /\ k1.new = k.new /\ k.new.live /\ k.new \in Row
    BY <1>1, <1>5, <1>11 DEF Step, Insert, Call, InHand
  <2>2. k1.id \in DOMAIN rows'
    BY <1>1, <1>11, <2>1 DEF Insert
  <2>3. Wanted(k1.new) \subseteq asked'
    BY <1>11, <2>1 DEF Insert
  <2> QED
    BY <2>1, <2>2, <2>3, InHandAfter
<1>12. CASE Save(c)
  <2>1. k1.pc = "reload" /\ k1.id = k.id /\ k1.new = k.new /\ k.new.live /\ k.id \in DOMAIN rows
    BY <1>1, <1>5, <1>12 DEF Step, Save, Goto, Call, InHand
  <2>2. Wanted(k1.new) \subseteq asked'
    BY <1>12, <2>1 DEF Save
  <2> QED
    BY <1>3, <2>1, <2>2, InHandAfter
<1>13. CASE Reload(c)
  <2>1. k.id \in DOMAIN rows /\ k.new.live /\ Wanted(k.new) \subseteq asked
    BY <1>5, <1>13 DEF Reload, InHand
  <2>2. k1.pc = "task" /\ (k1.new = k.new \/ (rows[k.id].live /\ k1.new = rows[k.id]))
    BY <1>1, <1>13 DEF Step, Reload, Call
  <2>3. k1.new.live
    BY <2>1, <2>2
  <2>4. Wanted(k1.new) \subseteq asked'
    BY <1>3, <2>1, <2>2 DEF RowsAsked
  <2> QED
    BY <2>2, <2>3, <2>4, InHandAfter
<1>14. CASE Remove(c)
  <2>1. ~k.new.live
    BY <1>5, <1>14 DEF Remove, InHand
  <2>2. k1.pc = "done" \/ (k1.pc = "task" /\ k1.new = k.new /\ k1.old = k.old /\ k.old.live)
    BY <1>1, <1>14 DEF Step, Remove, Goto, Finish, EmptyHanded, Call
  <2>3. Wanted(k.new) = {}
    BY <2>1 DEF Wanted
  <2> QED
    BY <1>6, <2>1, <2>2, <2>3, InHandAfter
<1>15. CASE Connect(c)
  <2>1. Wanted(k.new) \subseteq asked' /\ (k.old.live \/ k.new.live)
    BY <1>3, <1>5, <1>15 DEF Connect, InHand
  <2>2. k1.new = k.new /\ (k1.pc = "cleanup" \/ (k1.pc = "ensure" /\ ~k.old.live))
    BY <1>1, <1>15 DEF Step, Connect, Call
  <2> QED
    BY <2>1, <2>2, InHandAfter
<1>16. CASE EnsureAccount(c)
  <2>1. Wanted(k.new) \subseteq asked' /\ k.new.live
    BY <1>3, <1>5, <1>16 DEF EnsureAccount, InHand
  <2>2. k1.pc = "done"
        \/ (k1.pc = "bind" /\ k1.new = k.new /\ k1.left = k.new.scope /\ NeedsAccount(k.new))
    <3>1. \/ NeedsAccount(k.new) /\ k1 = [k EXCEPT !.pc = "bind", !.left = k.new.scope]
          \/ k1 = EmptyHanded("done")
      BY <1>1, <1>16 DEF Step, EnsureAccount, Finish
    <3> QED
      BY <1>1, <3>1, EmptyHandedPc DEF Call
  <2> QED
    BY <1>6, <2>1, <2>2, InHandAfter
<1>17. CASE TaskFails(c)
  <2>1. k1.pc = "done"
    BY <1>1, <1>17 DEF Step, TaskFails, GiveUp, Finish, EmptyHanded
  <2> QED
    BY <1>6, <2>1
<1>18. ASSUME NEW p \in Places, Unbind(c, p) \/ UnbindFails(c, p) PROVE InHand(c)'
  <2>1. k.pc = "cleanup" /\ Wanted(k.new) \subseteq asked'
    BY <1>3, <1>5, <1>18 DEF Unbind, UnbindFails, NextToClean, InHand
  <2>2. CASE k.left \ {p} = {} /\ ~k.new.live
    <3>1. k1.pc = "done"
      BY <1>1, <1>18, <2>2 DEF Step, Unbind, UnbindFails, Visited, Finish, EmptyHanded
    <3> QED
      BY <1>6, <3>1
  <2>3. CASE ~(k.left \ {p} = {} /\ ~k.new.live)
    <3>1. k1 = [k EXCEPT !.left = k.left \ {p}, !.pc = IF k.left \ {p} = {} THEN "ensure" ELSE k.pc]
      BY <1>1, <1>18, <2>3 DEF Step, Unbind, UnbindFails, Visited
    <3>2. k1.new = k.new /\ k1.pc = IF k.left \ {p} = {} THEN "ensure" ELSE "cleanup"
      BY <1>1, <2>1, <3>1 DEF Call
    <3> QED
      BY <2>1, <2>3, <3>2, InHandAfter
  <2> QED
    BY <2>2, <2>3
<1>19. ASSUME NEW p \in Places, Bind(c, p) PROVE InHand(c)'
  <2>1. k.pc = "bind" /\ Wanted(k.new) \subseteq asked' /\ k.new.live
        /\ NeedsAccount(k.new) /\ k.left \subseteq k.new.scope
    BY <1>3, <1>5, <1>19 DEF Bind, InHand
  <2>2. k1.pc = "done" \/ (k1.pc = "bind" /\ k1.new = k.new /\ k1.left = k.left \ {p})
    BY <1>1, <1>19, <2>1 DEF Step, Bind, Finish, EmptyHanded, Call
  <2> QED
    BY <1>6, <2>1, <2>2, InHandAfter
<1>20. ASSUME NEW ids \in SUBSET DOMAIN rows, BatchDelete(c, ids) PROVE InHand(c)'
  <2>1. k1.pc = "done"
    BY <1>1, <1>20 DEF Step, BatchDelete, Finish, EmptyHanded
  <2> QED
    BY <1>6, <2>1
<1>21. CASE StatementFails(c)
  <2>1. k1.pc = "done"
    BY <1>1, <1>21 DEF Step, StatementFails, Finish, EmptyHanded
  <2> QED
    BY <1>6, <2>1
<1> QED
  BY <1>8, <1>9, <1>10, <1>11, <1>12, <1>13, <1>14, <1>15, <1>16, <1>17, <1>18, <1>19, <1>20,
     <1>21 DEF NextCall

(* Only Bind adds a binding, one the row in hand calls for.                *)
LEMMA NextTraceable ==
  ASSUME TypeOK, CallsInHand, RowsAsked, BindingsAreTraceable, NEW c \in Calls, NextCall(c)
  PROVE  BindingsAreTraceable'
<1>1. asked \subseteq asked'
  BY NextRows
<1>2. CASE bindings' \subseteq bindings
  BY <1>1, <1>2 DEF BindingsAreTraceable
<1>3. ASSUME NEW p \in Places, Bind(c, p) PROVE BindingsAreTraceable'
  <2> DEFINE new == call[c].new
             b == [type |-> new.type, place |-> p, role |-> RoleOf(new)]
  <2>1. p \in new.scope /\ new.live /\ NeedsAccount(new) /\ Wanted(new) \subseteq asked
    BY <1>3 DEF Bind, CallsInHand, InHand
  <2>2. b \in Wanted(new)
    BY <2>1 DEF Wanted
  <2>3. bindings' = bindings \cup {b}
    BY <1>3 DEF Bind
  <2> QED
    BY <1>1, <2>1, <2>2, <2>3 DEF BindingsAreTraceable
<1> QED
  BY <1>2, <1>3
     DEF NextCall, CreateCount, CreateMiscount, ToInsert, UpdateLoad, UpdateRead, DeleteRead,
         Unread, StatementFails, BatchDelete, Insert, Save, Reload,
         Remove, Connect, EnsureAccount, TaskFails, GiveUp, Unbind, UnbindFails, TableSame, ClusterSame

(* A call that arrives while others are active leaves the mark of overlap. *)
LEMMA ArrivalAlone ==
  ASSUME Overlap \subseteq marred', "overlap" \notin marred'
  PROVE  \A d \in Calls : ~Active(d)
BY DEF Overlap, Quiet

(* Without overlap the calls write what they have counted or loaded, so    *)
(* there is never a second live row.                                       *)
LEMMA NextNoOverlap ==
  ASSUME TypeOK, CallsInHand, NoOverlap, OneLiveRow, NEW c \in Calls, NextCall(c)
  PROVE  NoOverlap' /\ OneLiveRow'
<1> DEFINE k == call[c]
           k1 == call'[c]
<1>1. rows \in Seq(Row) /\ k \in Call /\ call \in [Calls -> Call]
      /\ \A i \in DOMAIN rows : rows[i] \in Row
  BY DEF TypeOK
<1>2. \A d \in Calls : d # c => call'[d] = call[d]
  BY <1>1 DEF NextCall, CreateCount, CreateMiscount, ToInsert, UpdateLoad, UpdateRead,
        DeleteRead, Unread, StatementFails, BatchDelete, Insert, Save,
              Reload, Remove, Connect, EnsureAccount, TaskFails, GiveUp, Unbind, UnbindFails, Visited,
              Bind, Finish, Goto, Step
<1>3. marred \subseteq marred'
  BY DEF NextCall, CreateCount, CreateMiscount, ToInsert, UpdateLoad, UpdateRead, DeleteRead,
        Unread, StatementFails, BatchDelete, Insert, Save,
         Reload, Remove, Connect, EnsureAccount, TaskFails, GiveUp, Unbind, UnbindFails,
         Bind, MarkArrival
<1>4. /\ "overlap" \notin marred' => OneAtATime /\ LoadHolds
      /\ Alone' => Alone /\ CountHolds /\ \A i, j \in LiveIds : i = j
  BY <1>3 DEF NoOverlap, OneLiveRow, Alone
<1> SUFFICES ASSUME "overlap" \notin marred'
             PROVE  /\ OneAtATime' /\ LoadHolds'
                    /\ Alone' => CountHolds' /\ \A i, j \in LiveIds' : i = j
  BY DEF NoOverlap, OneLiveRow, Alone
<1>5. \A d \in Calls : d # c => ~Active(d)
  <2>1. CASE Active(c)
    BY <1>4, <2>1 DEF OneAtATime
  <2>2. CASE ~Active(c)
    <3>1. k.pc \in {"idle", "done"}
      BY <2>2 DEF Active
    <3>2. Overlap \subseteq marred'
      BY <3>1 DEF NextCall, CreateCount, CreateMiscount, ToInsert, UpdateLoad, UpdateRead,
            DeleteRead, Unread, StatementFails, BatchDelete, Insert, Save,
              Reload, Remove, Connect, EnsureAccount, TaskFails, GiveUp, Unbind, UnbindFails, Bind,
              NextToClean, MarkArrival
    <3> QED
      BY <3>2, ArrivalAlone DEF Quiet
  <2> QED
    BY <2>1, <2>2
<1>6. \A d \in Calls : d # c => ~Active(d)'
  BY <1>2, <1>5 DEF Active
<1>7. OneAtATime'
  BY <1>6 DEF OneAtATime
<1> DEFINE Counted == k1.pc = "insert" => \A i \in DOMAIN rows' : ~rows'[i].live
           Loaded  == k1.pc = "save" => rows'[k1.id].live
           Goal    == Loaded /\ (Alone' => Counted /\ \A i, j \in LiveIds' : i = j)
<1> SUFFICES Goal
  BY <1>6, <1>7 DEF CountHolds, LoadHolds, Active
<1>8. ASSUME k1.pc \notin {"insert", "save"},
             \A i \in DOMAIN rows' : rows'[i].live => i \in DOMAIN rows /\ rows[i].live
      PROVE  Goal
  BY <1>4, <1>8 DEF LiveIds
<1>9. ASSUME NEW t \in Types, NEW s \in Asks, NEW role \in CustomRoles \cup {NoRole},
             CreateCount(c, t, s, role)
      PROVE  Goal
  <2>1. rows' = rows
    BY <1>9 DEF CreateCount
  <2>2. k1 = EmptyHanded("done")
        \/ (LiveIds = {} /\ k1 = [k EXCEPT !.pc = "insert",
              !.new = [live |-> TRUE, type |-> t, role |-> role,
                       scope |-> IF s = {} THEN {Everywhere} ELSE s]])
    BY <1>1, <1>9 DEF CreateCount, ToInsert, Finish, Step
  <2>3. k1.pc = "done" \/ (LiveIds = {} /\ k1.pc = "insert")
    BY <1>1, <2>2, EmptyHandedPc DEF Call
  <2> QED
    BY <1>4, <2>1, <2>3 DEF LiveIds
<1>10. ASSUME NEW t \in Types, NEW s \in Asks, NEW role \in CustomRoles \cup {NoRole},
              UpdateLoad(c, t, s, role)
       PROVE  Goal
  <2>1. rows' = rows
    BY <1>10 DEF UpdateLoad
  <2>2. k1 = EmptyHanded("done")
        \/ (rows[k.id].live /\ k1 = [k EXCEPT !.pc = "save", !.new = Updated(rows[k.id], t, s, role)])
    BY <1>1, <1>10 DEF UpdateLoad, Finish, Step
  <2>3. k1.pc = "done" \/ (rows[k.id].live /\ k1.pc = "save" /\ k1.id = k.id)
    BY <1>1, <2>2, EmptyHandedPc DEF Call
  <2> QED
    BY <1>4, <2>1, <2>3 DEF LiveIds
<1>11. CASE Insert(c)
  <2>1. k.pc = "insert" /\ rows' = Append(rows, k.new) /\ k.new \in Row /\ k1.pc = "reload"
    BY <1>1, <1>11 DEF Insert, Step, Call
  <2>2. ASSUME Alone' PROVE \A i \in DOMAIN rows' : rows'[i].live => i = Len(rows) + 1
    <3>1. \A i \in DOMAIN rows : ~rows[i].live
      BY <1>4, <2>1, <2>2 DEF CountHolds
    <3> QED
      BY <1>1, <2>1, <3>1
  <2> QED
    BY <2>1, <2>2 DEF LiveIds
<1>12. CASE Save(c)
  <2>1. k.pc = "save" /\ rows' = [rows EXCEPT ![k.id] = k.new] /\ k1.pc = "reload"
    BY <1>1, <1>12 DEF Save, Goto, Step, Call
  <2>2. k.id \in DOMAIN rows /\ rows[k.id].live
    BY <1>4, <2>1 DEF LoadHolds, CallsInHand, InHand
  <2> QED
    BY <1>1, <1>8, <2>1, <2>2
<1>13. CASE Remove(c)
  <2>1. k.id \in DOMAIN rows /\ k1.pc \in {"task", "done"}
        /\ rows' = [rows EXCEPT ![k.id] = [rows[k.id] EXCEPT !.live = FALSE]]
    BY <1>1, <1>13 DEF Remove, Goto, Finish, EmptyHanded, Step, Call, CallsInHand, InHand
  <2>2. ~[rows[k.id] EXCEPT !.live = FALSE].live
    BY <1>1, <2>1 DEF Row
  <2> QED
    BY <1>1, <1>8, <2>1, <2>2
<1>14. ASSUME NEW ids \in SUBSET DOMAIN rows, BatchDelete(c, ids)
       PROVE  Goal
  <2>1. k1.pc = "done"
    BY <1>1, <1>14 DEF BatchDelete, Finish, EmptyHanded, Step
  <2>2. \A i \in DOMAIN rows : ~[rows[i] EXCEPT !.live = FALSE].live
    BY <1>1 DEF Row
  <2>3. \A i \in DOMAIN rows' : rows'[i].live => i \in DOMAIN rows /\ rows[i].live
    BY <1>14, <2>2 DEF BatchDelete
  <2> QED
    BY <1>8, <2>1, <2>3
<1>15. ASSUME rows' = rows, k1.pc \notin {"insert", "save"}
       PROVE  Goal
  BY <1>8, <1>15
<1>16. ASSUME NEW i \in DOMAIN rows, NEW l \in {"load", "remove"},
              UpdateRead(c, i) \/ DeleteRead(c, i) \/ Unread(c, i, l)
       PROVE  rows' = rows /\ k1.pc \notin {"insert", "save"}
  <2>1. rows' = rows
    BY <1>16 DEF UpdateRead, DeleteRead, Unread
  <2>2. PICK m \in {"load", "remove"}, old \in {rows[i], NoRow} :
          k1 = [k EXCEPT !.pc = m, !.id = i, !.old = old]
    BY <1>1, <1>16 DEF UpdateRead, DeleteRead, Unread, Step
  <2>3. k1.pc \in {"load", "remove"}
    BY <1>1, <2>2 DEF Call
  <2> QED
    BY <2>1, <2>3
<1>17. ASSUME Reload(c) \/ Connect(c) \/ EnsureAccount(c) \/ TaskFails(c)
       PROVE  rows' = rows /\ k1.pc \notin {"insert", "save"}
  <2>1. rows' = rows
    BY <1>17 DEF Reload, Connect, EnsureAccount, TaskFails, GiveUp, TableSame
  <2>2. ASSUME Reload(c) PROVE k1.pc = "task"
    BY <1>1, <2>2 DEF Reload, Step, Call
  <2>3. ASSUME Connect(c) PROVE k1.pc \in {"cleanup", "ensure"}
    BY <1>1, <2>3 DEF Connect, Step, Call
  <2>4. ASSUME EnsureAccount(c) PROVE k1.pc \in {"bind", "done"}
    <3>1. k1 = [k EXCEPT !.pc = "bind", !.left = k.new.scope] \/ k1 = EmptyHanded("done")
      BY <1>1, <2>4 DEF EnsureAccount, Finish, Step
    <3> QED
      BY <1>1, <3>1, EmptyHandedPc DEF Call
  <2>5. ASSUME TaskFails(c) PROVE k1.pc = "done"
    BY <1>1, <2>5 DEF TaskFails, GiveUp, Finish, EmptyHanded, Step
  <2> QED
    BY <1>17, <2>1, <2>2, <2>3, <2>4, <2>5
<1>18. ASSUME NEW p \in Places, Unbind(c, p) \/ UnbindFails(c, p) \/ Bind(c, p)
       PROVE  rows' = rows /\ k1.pc \notin {"insert", "save"}
  <2>1. k.pc \in {"cleanup", "bind"} /\ rows' = rows
    BY <1>18 DEF Unbind, UnbindFails, Bind, NextToClean, TableSame
  <2>2. \/ k1.pc = "done"
        \/ \E m \in {k.pc, "ensure"} : k1 = [k EXCEPT !.left = k.left \ {p}, !.pc = m]
        \/ k1 = [k EXCEPT !.left = k.left \ {p}]
    <3>1. CASE Visited(c, p)
      BY <1>1, <3>1, EmptyHandedPc DEF Visited, Finish, Step
    <3>2. CASE Bind(c, p)
      BY <1>1, <3>2, EmptyHandedPc DEF Bind, Finish, Step
    <3> QED
      BY <1>18, <3>1, <3>2 DEF Unbind, UnbindFails
  <2>3. k1.pc \in {k.pc, "ensure", "done"}
    BY <1>1, <2>2 DEF Call
  <2> QED
    BY <2>1, <2>3
<1>19. ASSUME NEW t \in Types, NEW s \in Asks, NEW role \in CustomRoles \cup {NoRole},
              CreateMiscount(c, t, s, role)
       PROVE  Goal
  <2>1. "miscount" \in marred'
    BY <1>19 DEF CreateMiscount
  <2>2. k1.pc = "insert"
    BY <1>1, <1>19 DEF CreateMiscount, ToInsert, Step, Call
  <2> QED
    BY <2>1, <2>2 DEF Alone
<1>20. CASE StatementFails(c)
  <2>1. rows' = rows /\ k1.pc = "done"
    BY <1>1, <1>20 DEF StatementFails, Finish, EmptyHanded, Step
  <2> QED
    BY <1>15, <2>1
<1> QED
  BY <1>9, <1>10, <1>11, <1>12, <1>13, <1>14, <1>15, <1>16, <1>17, <1>18, <1>19,
     <1>20 DEF NextCall

(* IInv is inductive.                                                      *)
LEMMA NextIInv == IInv /\ [Next]_vars => IInv'
<1> SUFFICES ASSUME IInv, [Next]_vars PROVE IInv'
  OBVIOUS
<1>1. TypeOK'
  BY NextTypeOK DEF IInv
<1>2. CASE UNCHANGED vars
  <2>1. CallsInHand' /\ RowsAsked'
    BY <1>2 DEF IInv, vars, CallsInHand, InHand, RowsAsked, Wanted, NeedsAccount, RoleOf
  <2>2. BindingsAreTraceable' /\ NoOverlap' /\ OneLiveRow'
    BY <1>2 DEF IInv, vars, BindingsAreTraceable, NoOverlap, OneAtATime, CountHolds, LoadHolds,
                Active, OneLiveRow, LiveIds, Alone
  <2> QED
    BY <1>1, <2>1, <2>2 DEF IInv
<1>3. ASSUME NEW c \in Calls, NextCall(c) PROVE IInv'
  BY <1>1, <1>3, NextRows, NextInHand, NextTraceable, NextNoOverlap DEF IInv
<1> QED
  BY <1>2, <1>3 DEF Next

(* What is left of the record of a call after each of its steps.           *)
LEMMA CallEffects ==
  ASSUME TypeOK, NEW c \in Calls
  PROVE  LET k  == call[c]
             k1 == call'[c]
         IN  /\ Insert(c) => k1.pc = "reload" /\ k1.new = k.new /\ k1.old = k.old /\ k1.id = Len(rows) + 1
             /\ Save(c) => k1.pc = "reload" /\ k1.new = k.new /\ k1.old = k.old /\ k1.id = k.id
             /\ Reload(c) => k1.pc = "task" /\ k1.old = k.old
                             /\ (k1.new = k.new \/ k1.new = rows[k.id])
             /\ Remove(c) => \/ rows[k.id].live /\ k.old.live /\ k1.pc = "task"
                                /\ k1.new = k.new /\ k1.old = k.old
                             \/ ~(rows[k.id].live /\ k.old.live) /\ k1.pc = "done"
             /\ Connect(c) => /\ k1.new = k.new /\ k1.old = k.old
                              /\ \/ k.old.live /\ k1.pc = "cleanup" /\ k1.left = {Everywhere} \cup k.old.scope
                                 \/ ~k.old.live /\ k1.pc = "ensure"
             /\ EnsureAccount(c) => \/ /\ NeedsAccount(k.new)
                                       /\ k1.pc = "bind" /\ k1.new = k.new /\ k1.left = k.new.scope
                                    \/ ~NeedsAccount(k.new) /\ k1.pc = "done"
             /\ TaskFails(c) => k1.pc = "done"
             /\ \A p \in Places : Unbind(c, p) \/ UnbindFails(c, p) =>
                  IF k.left \ {p} = {} /\ ~k.new.live THEN k1.pc = "done"
                  ELSE /\ k1.new = k.new /\ k1.old = k.old /\ k1.left = k.left \ {p}
                       /\ k1.pc = IF k.left \ {p} # {} THEN "cleanup" ELSE "ensure"
             /\ \A p \in Places : Bind(c, p) =>
                  IF k.left \ {p} = {} THEN k1.pc = "done"
                  ELSE k1.pc = "bind" /\ k1.new = k.new /\ k1.left = k.left \ {p}
             /\ StatementFails(c) => k1.pc = "done"
             /\ \A ids \in SUBSET DOMAIN rows : BatchDelete(c, ids) => k1.pc = "done"
<1> DEFINE k  == call[c]
           k1 == call'[c]
<1>1. k \in Call /\ call \in [Calls -> Call]
  BY DEF TypeOK
<1>2. Insert(c) => k1.pc = "reload" /\ k1.new = k.new /\ k1.old = k.old /\ k1.id = Len(rows) + 1
  BY <1>1 DEF Insert, Step, Call
<1>3. Save(c) => k1.pc = "reload" /\ k1.new = k.new /\ k1.old = k.old /\ k1.id = k.id
  BY <1>1 DEF Save, Goto, Step, Call
<1>4. Reload(c) => k1.pc = "task" /\ k1.old = k.old
                   /\ (k1.new = k.new \/ k1.new = rows[k.id])
  BY <1>1 DEF Reload, Step, Call
<1>5. Remove(c) => \/ rows[k.id].live /\ k.old.live /\ k1.pc = "task"
                      /\ k1.new = k.new /\ k1.old = k.old
                   \/ ~(rows[k.id].live /\ k.old.live) /\ k1.pc = "done"
  BY <1>1, EmptyHandedPc DEF Remove, Goto, Finish, Step, Call
<1>6. ASSUME Connect(c)
      PROVE  /\ k1.new = k.new /\ k1.old = k.old
             /\ \/ k.old.live /\ k1.pc = "cleanup" /\ k1.left = {Everywhere} \cup k.old.scope
                \/ ~k.old.live /\ k1.pc = "ensure"
  <2>1. CASE k.old.live
    BY <1>1, <1>6, <2>1 DEF Connect, Step, Call
  <2>2. CASE ~k.old.live
    BY <1>1, <1>6, <2>2 DEF Connect, Step, Call
  <2> QED
    BY <2>1, <2>2
<1>7. EnsureAccount(c) => \/ /\ NeedsAccount(k.new)
                             /\ k1.pc = "bind" /\ k1.new = k.new /\ k1.left = k.new.scope
                          \/ ~NeedsAccount(k.new) /\ k1.pc = "done"
  BY <1>1, EmptyHandedPc DEF EnsureAccount, Finish, Step, Call
<1>8. TaskFails(c) => k1.pc = "done"
  BY <1>1, EmptyHandedPc DEF TaskFails, GiveUp, Finish, Step
<1>9. ASSUME NEW p \in Places, Unbind(c, p) \/ UnbindFails(c, p)
      PROVE  IF k.left \ {p} = {} /\ ~k.new.live THEN k1.pc = "done"
             ELSE /\ k1.new = k.new /\ k1.old = k.old /\ k1.left = k.left \ {p}
                  /\ k1.pc = IF k.left \ {p} # {} THEN "cleanup" ELSE "ensure"
  <2>1. k.pc = "cleanup" /\ Visited(c, p)
    BY <1>9 DEF Unbind, UnbindFails, NextToClean
  <2>2. CASE k.left \ {p} = {} /\ ~k.new.live
    BY <1>1, <2>1, <2>2, EmptyHandedPc DEF Visited, Finish, Step
  <2>3. CASE ~(k.left \ {p} = {} /\ ~k.new.live)
    <3>1. k1 = [k EXCEPT !.left = k.left \ {p}, !.pc = IF k.left \ {p} = {} THEN "ensure" ELSE k.pc]
      BY <1>1, <2>1, <2>3 DEF Visited, Step
    <3>2. k1.new = k.new /\ k1.old = k.old /\ k1.left = k.left \ {p}
          /\ k1.pc = IF k.left \ {p} = {} THEN "ensure" ELSE "cleanup"
      BY <1>1, <2>1, <3>1 DEF Call
    <3> QED
      BY <2>3, <3>2
  <2> QED
    BY <2>2, <2>3
<1>10. ASSUME NEW p \in Places, Bind(c, p)
       PROVE  IF k.left \ {p} = {} THEN k1.pc = "done"
              ELSE k1.pc = "bind" /\ k1.new = k.new /\ k1.left = k.left \ {p}
  <2>1. CASE k.left \ {p} = {}
    BY <1>1, <1>10, <2>1, EmptyHandedPc DEF Bind, Finish, Step
  <2>2. CASE k.left \ {p} # {}
    BY <1>1, <1>10, <2>2 DEF Bind, Step, Call
  <2> QED
    BY <2>1, <2>2
<1>11. \A ids \in SUBSET DOMAIN rows : BatchDelete(c, ids) => k1.pc = "done"
  BY <1>1, EmptyHandedPc DEF BatchDelete, Finish, Step
<1>12. StatementFails(c) => k1.pc = "done"
  BY <1>1, EmptyHandedPc DEF StatementFails, Finish, Step
<1> QED
  BY <1>2, <1>3, <1>4, <1>5, <1>6, <1>7, <1>8, <1>9, <1>10, <1>11, <1>12

(* The table calls for what its only live row calls for.                   *)
LEMMA TableOfLive ==
  ASSUME NEW f, NEW i \in DOMAIN f, \A j \in DOMAIN f : f[j].live => j = i
  PROVE  UNION {Wanted(f[j]) : j \in DOMAIN f} = Wanted(f[i])
<1>1. \A j \in DOMAIN f : j # i => Wanted(f[j]) = {}
  BY DEF Wanted
<1> QED
  BY <1>1

(* A table without a live row calls for nothing.                           *)
LEMMA TableOfNone ==
  ASSUME NEW f, \A j \in DOMAIN f : ~f[j].live
  PROVE  UNION {Wanted(f[j]) : j \in DOMAIN f} = {}
<1>1. \A j \in DOMAIN f : Wanted(f[j]) = {}
  BY DEF Wanted
<1> QED
  BY <1>1

(* What the table calls for after a step.                                  *)
LEMMA TableAfter == Table' = UNION {Wanted(rows'[i]) : i \in DOMAIN rows'}
BY DEF Table, Wanted, NeedsAccount, RoleOf

(* Without overlap the other calls rest before and after the step of one.  *)
LEMMA OthersRest ==
  ASSUME TypeOK, NoOverlap, NEW c \in Calls, NextCall(c)
  PROVE  /\ marred \subseteq marred'
         /\ \A d \in Calls : d # c => call'[d] = call[d]
         /\ "overlap" \notin marred' =>
              \A d \in Calls : d # c => call[d].pc \in {"idle", "done"}
<1>1. call \in [Calls -> Call]
  BY DEF TypeOK
<1>2. \A d \in Calls : d # c => call'[d] = call[d]
  BY <1>1 DEF NextCall, CreateCount, CreateMiscount, ToInsert, UpdateLoad, UpdateRead,
        DeleteRead, Unread, StatementFails, BatchDelete, Insert, Save,
              Reload, Remove, Connect, EnsureAccount, TaskFails, GiveUp, Unbind, UnbindFails, Visited,
              Bind, Finish, Goto, Step
<1>3. marred \subseteq marred'
  BY DEF NextCall, CreateCount, CreateMiscount, ToInsert, UpdateLoad, UpdateRead, DeleteRead,
        Unread, StatementFails, BatchDelete, Insert, Save,
         Reload, Remove, Connect, EnsureAccount, TaskFails, GiveUp, Unbind, UnbindFails,
         Bind, MarkArrival
<1>4. ASSUME "overlap" \notin marred', NEW d \in Calls, d # c
      PROVE  call[d].pc \in {"idle", "done"}
  <2>1. CASE Active(c)
    BY <1>3, <1>4, <2>1 DEF NoOverlap, OneAtATime, Active
  <2>2. CASE ~Active(c)
    <3>1. call[c].pc \in {"idle", "done"}
      BY <2>2 DEF Active
    <3>2. Overlap \subseteq marred'
      BY <1>4, <3>1 DEF NextCall, CreateCount, CreateMiscount, ToInsert, UpdateLoad, UpdateRead,
            DeleteRead, Unread, StatementFails, BatchDelete, Insert,
              Save, Reload, Remove, Connect, EnsureAccount, TaskFails, GiveUp, Unbind, UnbindFails, Bind,
              NextToClean, MarkArrival
    <3> QED
      BY <1>4, <3>2, ArrivalAlone DEF Quiet, Active
  <2> QED
    BY <2>1, <2>2
<1> QED
  BY <1>2, <1>3, <1>4

(* IInv holds in every reachable state.                                    *)
THEOREM InductiveInvariant == Spec => []IInv
BY InitIInv, NextIInv, PTL DEF Spec

(* Rows, calls in hand, bindings and histories keep their types.           *)
THEOREM TypeCorrect == Spec => []TypeOK
<1>1. IInv => TypeOK
  BY DEF IInv
<1> QED
  BY <1>1, InductiveInvariant, PTL

(* No overlap of calls and no failure of a write makes the goroutines of   *)
(* handlers/permission.go bind what no stored row has called for.          *)
THEOREM BindingsTraceable == Spec => []BindingsAreTraceable
<1>1. IInv => BindingsAreTraceable
  BY DEF IInv
<1> QED
  BY <1>1, InductiveInvariant, PTL

(* The unguarded count of CreateClusterPermission is enough when           *)
(* administrators wait for one another.                                    *)
THEOREM AtMostOneLiveRow == Spec => []OneLiveRow
<1>1. IInv => OneLiveRow
  BY DEF IInv
<1> QED
  BY <1>1, InductiveInvariant, PTL

(* The initial states satisfy the strengthening.                           *)
LEMMA InitKept == Init => Kept
<1> SUFFICES ASSUME Init PROVE Kept
  OBVIOUS
<1>1. Table = {}
  BY DEF Init, Table
<1>2. \A c \in Calls : call[c].pc = "idle" /\ ~call[c].old.live
  BY DEF Init, EmptyHanded, NoRow
<1>3. HandsAreRows
  BY <1>2 DEF HandsAreRows, HandIsRow, AtWork
<1>4. BindingsFollow /\ NoneMissing
  BY <1>1, <1>2 DEF Init, BindingsFollow, NoneMissing, AtWork
<1> QED
  BY <1>3, <1>4 DEF Kept

(* The call that takes a step has in hand what its row was and is.         *)
LEMMA NextHandsAreRows ==
  ASSUME IInv, IInv', HandsAreRows, NEW c \in Calls, NextCall(c)
  PROVE  HandsAreRows'
<1> SUFFICES ASSUME Alone' PROVE \A d \in Calls : HandIsRow(d)'
  BY DEF HandsAreRows
<1> DEFINE k  == call[c]
           k1 == call'[c]
<1>1. /\ TypeOK /\ call \in [Calls -> Call] /\ rows \in Seq(Row) /\ k \in Call
      /\ \A i \in DOMAIN rows : rows[i] \in Row
  BY DEF IInv, TypeOK
<1>2. /\ Alone /\ marred \subseteq marred'
      /\ \A d \in Calls : d # c => call'[d] = call[d] /\ call[d].pc \in {"idle", "done"}
  BY OthersRest DEF IInv, Alone
<1>3. HandIsRow(c) /\ InHand(c) /\ InHand(c)'
  BY <1>2 DEF HandsAreRows, IInv, CallsInHand
<1>4. \A i, j \in DOMAIN rows : rows[i].live /\ rows[j].live => i = j
  BY <1>2 DEF IInv, OneLiveRow, LiveIds
<1>5. \A i, j \in DOMAIN rows' : rows'[i].live /\ rows'[j].live => i = j
  BY DEF IInv, OneLiveRow, LiveIds
<1>6. ASSUME NEW d \in Calls, d # c PROVE HandIsRow(d)'
  <2>1. HandIsRow(d) /\ call'[d] = call[d] /\ call[d].pc \in {"idle", "done"}
    BY <1>2, <1>6 DEF HandsAreRows
  <2> QED
    BY <2>1 DEF HandIsRow, AtWork
<1> SUFFICES HandIsRow(c)'
  BY <1>6
<1>7. CASE k1.pc = "done"
  BY <1>7 DEF HandIsRow, AtWork
<1>8. rows' = rows => Table' = Table
  BY TableAfter DEF Table
<1>9. ASSUME NEW t \in Types, NEW s \in Asks, NEW role \in CustomRoles \cup {NoRole},
             CreateCount(c, t, s, role) \/ CreateMiscount(c, t, s, role)
      PROVE  HandIsRow(c)'
  <2> DEFINE new == [live |-> TRUE, type |-> t, role |-> role,
                     scope |-> IF s = {} THEN {Everywhere} ELSE s]
  <2>1. k1 = EmptyHanded("done") \/ k1 = [k EXCEPT !.pc = "insert", !.new = new]
    BY <1>1, <1>9 DEF Step, CreateCount, CreateMiscount, ToInsert, Finish
  <2> HIDE DEF new
  <2>2. k1.pc = "done" \/ (k1.pc = "insert" /\ k1.old = k.old)
    BY <1>1, <2>1, EmptyHandedPc DEF Call
  <2>3. ~k.old.live
    BY <1>3, <1>9 DEF CreateCount, CreateMiscount, Arrives, HandIsRow
  <2> QED
    BY <2>2, <2>3 DEF HandIsRow, AtWork
<1>10. ASSUME NEW t \in Types, NEW s \in Asks, NEW role \in CustomRoles \cup {NoRole},
              UpdateLoad(c, t, s, role)
       PROVE  HandIsRow(c)'
  <2>1. k.pc = "load" /\ rows' = rows /\ marred' = marred
    BY <1>10 DEF UpdateLoad
  <2>2. k1 = EmptyHanded("done")
        \/ k1 = [k EXCEPT !.pc = "save", !.new = Updated(rows[k.id], t, s, role)]
    BY <1>1, <1>10 DEF UpdateLoad, Finish, Step
  <2>3. k1.pc = "done" \/ (k1.pc = "save" /\ k1.old = k.old /\ k1.id = k.id)
    BY <1>1, <2>2, EmptyHandedPc DEF Call
  <2> QED
    BY <1>3, <2>1, <2>3 DEF HandIsRow, AtWork
<1>11. ASSUME NEW i \in DOMAIN rows, NEW l \in {"load", "remove"},
              UpdateRead(c, i) \/ DeleteRead(c, i) \/ Unread(c, i, l)
       PROVE  HandIsRow(c)'
  <2> DEFINE Read(old) == \/ old = IF rows[i].live THEN rows[i] ELSE NoRow
                          \/ old = NoRow /\ "failure" \in marred'
  <2>1. PICK m \in {"load", "remove"}, old \in {rows[i], NoRow} :
          k1 = [k EXCEPT !.pc = m, !.id = i, !.old = old] /\ Read(old)
    <3>1. CASE UpdateRead(c, i)
      BY <1>1, <3>1 DEF UpdateRead, Step
    <3>2. CASE DeleteRead(c, i)
      BY <1>1, <3>2 DEF DeleteRead, Step
    <3>3. CASE Unread(c, i, l)
      <4>1. k1 = [k EXCEPT !.pc = l, !.id = i, !.old = NoRow] /\ "failure" \in marred'
        BY <1>1, <3>3 DEF Unread, Step
      <4> QED
        BY <4>1
    <3> QED
      BY <1>11, <3>1, <3>2, <3>3
  <2>2. k1.pc = m /\ k1.id = i /\ k1.old = old
    BY <1>1, <2>1 DEF Call
  <2>3. rows' = rows
    BY <1>11 DEF UpdateRead, DeleteRead, Unread
  <2> QED
    BY <2>1, <2>2, <2>3 DEF HandIsRow, AtWork
<1>12. ASSUME NEW ids \in SUBSET DOMAIN rows, BatchDelete(c, ids) PROVE HandIsRow(c)'
  BY <1>1, <1>7, <1>12, CallEffects
<1>13. CASE Insert(c)
  <2>1. k1.pc = "reload" /\ k1.new = k.new /\ k1.old = k.old /\ k1.id = Len(rows) + 1
    BY <1>1, <1>13, CallEffects
  <2>2. k.new \in Row /\ k.new.live /\ rows' = Append(rows, k.new)
    BY <1>1, <1>3, <1>13 DEF Insert, InHand, Call
  <2>3. Len(rows) + 1 \in DOMAIN rows' /\ rows'[Len(rows) + 1] = k.new
    BY <1>1, <2>2
  <2>4. Table' = Wanted(k.new)
    BY <1>5, <2>2, <2>3, TableAfter, TableOfLive
  <2> QED
    BY <2>1, <2>3, <2>4 DEF HandIsRow, Wanted, NeedsAccount, RoleOf
<1>14. CASE Save(c)
  <2>1. k1.pc = "reload" /\ k1.new = k.new /\ k1.old = k.old /\ k1.id = k.id
    BY <1>1, <1>14, CallEffects
  <2>2. k.id \in DOMAIN rows /\ k.new.live /\ rows' = [rows EXCEPT ![k.id] = k.new]
    BY <1>1, <1>3, <1>14 DEF Save, InHand, Call
  <2>3. k.id \in DOMAIN rows' /\ rows'[k.id] = k.new
    BY <1>1, <2>2
  <2>4. Table' = Wanted(k.new)
    BY <1>5, <2>2, <2>3, TableAfter, TableOfLive
  <2> QED
    BY <2>1, <2>3, <2>4 DEF HandIsRow, Wanted, NeedsAccount, RoleOf
<1>15. CASE Reload(c)
  <2>1. k.pc = "reload" /\ rows' = rows /\ rows[k.id] = k.new /\ Table = Wanted(k.new)
    BY <1>3, <1>15 DEF Reload, HandIsRow, AtWork
  <2>2. k1.pc = "task" /\ k1.new = k.new
    BY <1>1, <1>15, <2>1, CallEffects
  <2> QED
    BY <1>8, <2>1, <2>2 DEF HandIsRow, Wanted, NeedsAccount, RoleOf
<1>16. CASE Remove(c)
  <2>1. k.id \in DOMAIN rows /\ ~k.new.live
        /\ rows' = [rows EXCEPT ![k.id] = [rows[k.id] EXCEPT !.live = FALSE]]
    BY <1>1, <1>3, <1>16 DEF Remove, InHand
  <2>2. ~[rows[k.id] EXCEPT !.live = FALSE].live
    BY <1>1, <2>1 DEF Row
  <2>3. CASE rows[k.id].live /\ k1.pc = "task" /\ k1.new = k.new
    <3>1. \A j \in DOMAIN rows' : ~rows'[j].live
      BY <1>1, <1>4, <2>1, <2>2, <2>3
    <3>2. Table' = {} /\ Wanted(k.new) = {}
      BY <2>1, <3>1, TableAfter, TableOfNone DEF Wanted
    <3> QED
      BY <2>3, <3>2 DEF HandIsRow, Wanted, NeedsAccount, RoleOf
  <2> QED
    BY <1>1, <1>7, <1>16, <2>3, CallEffects
<1>17. CASE Connect(c)
  <2>1. k.pc = "task" /\ rows' = rows /\ Table = Wanted(k.new)
    BY <1>3, <1>17 DEF Connect, TableSame, HandIsRow, AtWork
  <2>2. k1.new = k.new /\ k1.pc \in {"cleanup", "ensure"}
    BY <1>1, <1>17, CallEffects
  <2> QED
    BY <1>8, <2>1, <2>2 DEF HandIsRow, AtWork, Wanted, NeedsAccount, RoleOf
<1>18. CASE EnsureAccount(c)
  <2>1. k.pc = "ensure" /\ rows' = rows /\ Table = Wanted(k.new)
    BY <1>3, <1>18 DEF EnsureAccount, TableSame, HandIsRow, AtWork
  <2>2. (k1.new = k.new /\ k1.pc = "bind") \/ k1.pc = "done"
    BY <1>1, <1>18, CallEffects
  <2> QED
    BY <1>8, <2>1, <2>2 DEF HandIsRow, AtWork, Wanted, NeedsAccount, RoleOf
<1>19. ASSUME NEW p \in Places, Unbind(c, p) \/ UnbindFails(c, p) \/ Bind(c, p)
       PROVE  HandIsRow(c)'
  <2>1. k.pc \in {"cleanup", "bind"} /\ rows' = rows /\ Table = Wanted(k.new)
    BY <1>3, <1>19 DEF Unbind, UnbindFails, Bind, NextToClean, TableSame, HandIsRow, AtWork
  <2>2. k1.pc = "done" \/ (k1.new = k.new /\ k1.pc \in {"cleanup", "ensure", "bind"})
    BY <1>1, <1>19, CallEffects
  <2> QED
    BY <1>8, <2>1, <2>2 DEF HandIsRow, AtWork, Wanted, NeedsAccount, RoleOf
<1>20. CASE TaskFails(c) \/ StatementFails(c)
  BY <1>1, <1>7, <1>20, CallEffects
<1> QED
  BY <1>9, <1>10, <1>11, <1>12, <1>13, <1>14, <1>15, <1>16, <1>17, <1>18, <1>19, <1>20 DEF NextCall

(* Steps on the table that begin or end a call without changing what the   *)
(* table calls for.                                                        *)
LEMMA StillSettled ==
  ASSUME IInv, NEW c \in Calls,
         \/ \E t \in Types, s \in Asks, r \in CustomRoles \cup {NoRole} :
              CreateCount(c, t, s, r) \/ CreateMiscount(c, t, s, r) \/ UpdateLoad(c, t, s, r)
         \/ \E i \in DOMAIN rows :
              UpdateRead(c, i) \/ DeleteRead(c, i) \/ \E l \in {"load", "remove"} : Unread(c, i, l)
         \/ StatementFails(c)
  PROVE  /\ Table' = Table /\ UNCHANGED <<bindings, account, behind>>
         /\ ~AtWork(c) /\ ~AtWork(c)'
<1> DEFINE k  == call[c]
           k1 == call'[c]
<1>1. TypeOK /\ call \in [Calls -> Call] /\ rows \in Seq(Row) /\ k \in Call
  BY DEF IInv, TypeOK
<1>2. rows' = rows => Table' = Table
  BY TableAfter DEF Table
<1>3. ASSUME NEW t \in Types, NEW s \in Asks, NEW r \in CustomRoles \cup {NoRole},
             CreateCount(c, t, s, r) \/ CreateMiscount(c, t, s, r) \/ UpdateLoad(c, t, s, r)
      PROVE  k1.pc \in {"done", "insert", "save"}
  <2>1. \/ k1 = EmptyHanded("done")
        \/ \E l \in {"insert", "save"} : \E row : k1 = [k EXCEPT !.pc = l, !.new = row]
    <3>1. CASE CreateCount(c, t, s, r) \/ CreateMiscount(c, t, s, r)
      BY <1>1, <3>1 DEF CreateCount, CreateMiscount, ToInsert, Finish, Step
    <3>2. CASE UpdateLoad(c, t, s, r)
      BY <1>1, <3>2 DEF UpdateLoad, Finish, Step
    <3> QED
      BY <1>3, <3>1, <3>2
  <2> QED
    BY <1>1, <2>1, EmptyHandedPc DEF Call
<1>4. ASSUME NEW i \in DOMAIN rows, NEW l \in {"load", "remove"},
             UpdateRead(c, i) \/ DeleteRead(c, i) \/ Unread(c, i, l)
      PROVE  k1.pc \in {"load", "remove"}
  <2>1. PICK m \in {"load", "remove"}, old \in {rows[i], NoRow} :
          k1 = [k EXCEPT !.pc = m, !.id = i, !.old = old]
    <3>1. CASE UpdateRead(c, i)
      BY <1>1, <3>1 DEF UpdateRead, Step
    <3>2. CASE DeleteRead(c, i)
      BY <1>1, <3>2 DEF DeleteRead, Step
    <3>3. CASE Unread(c, i, l)
      BY <1>1, <3>3 DEF Unread, Step
    <3> QED
      BY <1>4, <3>1, <3>2, <3>3
  <2> QED
    BY <1>1, <2>1 DEF Call
<1>5. StatementFails(c) => k1.pc = "done"
  BY <1>1, CallEffects
<1>6. k.pc \in {"idle", "load", "insert", "save", "remove"} /\ UNCHANGED <<rows, bindings, account, behind>>
  BY DEF CreateCount, CreateMiscount, UpdateLoad, UpdateRead, DeleteRead, Unread, StatementFails,
         Arrives, ClusterSame
<1>7. ~AtWork(c)'
  BY <1>3, <1>4, <1>5 DEF AtWork
<1> QED
  BY <1>2, <1>6, <1>7 DEF AtWork

(* A batch deletion of rows that are deleted already changes nothing; of   *)
(* others, the table calls for less.                                       *)
LEMMA BatchTable ==
  ASSUME rows \in Seq(Row), NEW c \in Calls, NEW ids \in SUBSET DOMAIN rows, BatchDelete(c, ids)
  PROVE  Table' \subseteq Table /\ ("batch" \notin marred' => Table' = Table)
<1>1. \A i \in DOMAIN rows : rows[i] \in Row
  OBVIOUS
<1>2. DOMAIN rows' = DOMAIN rows
      /\ \A i \in DOMAIN rows : rows'[i] = IF i \in ids THEN [rows[i] EXCEPT !.live = FALSE] ELSE rows[i]
  BY DEF BatchDelete
<1>3. \A i \in DOMAIN rows : Wanted(rows'[i]) = IF i \in ids THEN {} ELSE Wanted(rows[i])
  BY <1>1, <1>2, WantedDeleted
<1>4. "batch" \notin marred' => \A i \in ids : ~rows[i].live
  BY DEF BatchDelete, LiveIds
<1>5. "batch" \notin marred' => \A i \in DOMAIN rows : Wanted(rows'[i]) = Wanted(rows[i])
  BY <1>3, <1>4 DEF Wanted
<1> QED
  BY <1>2, <1>3, <1>5, TableAfter DEF Table

(* A deletion that reads its row and starts no goroutine deletes nothing.  *)
LEMMA RemoveNothing ==
  ASSUME IInv, NEW c \in Calls, Remove(c), HandIsRow(c), call'[c].pc = "done",
         "failure" \notin marred
  PROVE  Table' = Table
<1> DEFINE k == call[c]
<1>1. TypeOK /\ rows \in Seq(Row) /\ \A i \in DOMAIN rows : rows[i] \in Row
  BY DEF IInv, TypeOK
<1>2. k.id \in DOMAIN rows /\ k.old = (IF rows[k.id].live THEN rows[k.id] ELSE NoRow)
      /\ rows' = [rows EXCEPT ![k.id] = [rows[k.id] EXCEPT !.live = FALSE]]
  BY DEF Remove, IInv, CallsInHand, InHand, HandIsRow
<1>3. ~rows[k.id].live
  BY <1>1, <1>2, CallEffects
<1>4. Wanted(rows[k.id]) = {} /\ Wanted([rows[k.id] EXCEPT !.live = FALSE]) = {}
  BY <1>1, <1>2, <1>3, WantedDeleted DEF Wanted
<1>5. DOMAIN rows' = DOMAIN rows /\ \A i \in DOMAIN rows : Wanted(rows'[i]) = Wanted(rows[i])
  BY <1>1, <1>2, <1>4
<1> QED
  BY <1>5, TableAfter DEF Table

(* Any deletion leaves the table calling for no more than before.          *)
LEMMA RemoveLess ==
  ASSUME IInv, NEW c \in Calls, Remove(c)
  PROVE  Table' \subseteq Table
<1> DEFINE k == call[c]
<1>1. rows \in Seq(Row) /\ \A i \in DOMAIN rows : rows[i] \in Row
  BY DEF IInv, TypeOK
<1>2. k.id \in DOMAIN rows /\ rows' = [rows EXCEPT ![k.id] = [rows[k.id] EXCEPT !.live = FALSE]]
  BY DEF Remove, IInv, CallsInHand, InHand
<1>3. Wanted([rows[k.id] EXCEPT !.live = FALSE]) = {}
  BY <1>1, <1>2, WantedDeleted
<1>4. DOMAIN rows' = DOMAIN rows /\ \A i \in DOMAIN rows : Wanted(rows'[i]) \subseteq Wanted(rows[i])
  BY <1>1, <1>2, <1>3
<1> QED
  BY <1>4, TableAfter DEF Table

(* The bindings follow the one call at work.                               *)
LEMMA NextBindingsFollow ==
  ASSUME IInv, IInv', HandsAreRows, HandsAreRows', BindingsFollow, NEW c \in Calls, NextCall(c)
  PROVE  BindingsFollow'
<1> SUFFICES ASSUME marred' = {}
             PROVE  (Settled => bindings = Table)' /\ \A d \in Calls : (AtWork(d) => bindings = Halfway(d))'
  BY DEF BindingsFollow
<1> DEFINE k  == call[c]
           k1 == call'[c]
<1>1. /\ TypeOK /\ call \in [Calls -> Call] /\ rows \in Seq(Row) /\ k \in Call
      /\ \A i \in DOMAIN rows : rows[i] \in Row
      /\ k.old \in Row /\ k.new \in Row
  BY DEF IInv, TypeOK, Call
<1>2. /\ marred = {} /\ Alone /\ Alone'
      /\ \A d \in Calls : d # c => call'[d] = call[d] /\ call[d].pc \in {"idle", "done"}
  BY OthersRest DEF IInv, Alone
<1>3. HandIsRow(c) /\ HandIsRow(c)' /\ InHand(c)
  BY <1>2 DEF HandsAreRows, IInv, CallsInHand
<1>4. \A i, j \in DOMAIN rows : rows[i].live /\ rows[j].live => i = j
  BY <1>2 DEF IInv, OneLiveRow, LiveIds
<1>5. (Settled <=> ~AtWork(c)) /\ (Settled' <=> ~AtWork(c)') /\ \A d \in Calls : d # c => ~AtWork(d)'
  BY <1>2 DEF Settled, AtWork
<1>6. (~AtWork(c) => bindings = Table) /\ (AtWork(c) => bindings = Halfway(c))
  BY <1>2, <1>5 DEF BindingsFollow
<1> SUFFICES (~AtWork(c)' => bindings' = Table') /\ (AtWork(c)' => bindings' = Halfway(c)')
  BY <1>5
<1>7. \A r : ~r.live => Wanted(r) = {}
  BY DEF Wanted
<1>8. Halfway(c)' = CASE k1.pc \in {"reload", "task"} -> Wanted(k1.old)
                      [] k1.pc = "cleanup" -> {b \in Wanted(k1.old) : b.place \in k1.left}
                      [] k1.pc = "ensure"  -> {}
                      [] k1.pc = "bind"    -> {b \in Wanted(k1.new) : b.place \notin k1.left}
  BY DEF Halfway, Wanted, NeedsAccount, RoleOf
<1>9. k1.pc \in {"insert", "load", "save", "remove", "done", "idle"} => ~AtWork(c)'
  BY DEF AtWork
<1>10. AtWork(c)' => Table' = Wanted(k1.new)
  BY <1>3 DEF HandIsRow, Wanted, NeedsAccount, RoleOf
<1>11. rows' = rows => Table' = Table
  BY TableAfter DEF Table
<1>12. CASE \/ \E t \in Types, s \in Asks, r \in CustomRoles \cup {NoRole} :
                 CreateCount(c, t, s, r) \/ CreateMiscount(c, t, s, r) \/ UpdateLoad(c, t, s, r)
            \/ \E i \in DOMAIN rows :
                 UpdateRead(c, i) \/ DeleteRead(c, i) \/ \E l \in {"load", "remove"} : Unread(c, i, l)
            \/ StatementFails(c)
  BY <1>6, <1>12, StillSettled
<1>13. ASSUME NEW ids \in SUBSET DOMAIN rows, BatchDelete(c, ids)
       PROVE (~AtWork(c)' => bindings' = Table') /\ (AtWork(c)' => bindings' = Halfway(c)')
  <2>1. ~AtWork(c) /\ bindings' = bindings
    BY <1>13 DEF BatchDelete, Arrives, AtWork, ClusterSame
  <2>2. Table' = Table
    BY <1>1, <1>13, BatchTable
  <2>3. ~AtWork(c)'
    BY <1>1, <1>9, <1>13, CallEffects
  <2> QED
    BY <1>6, <2>1, <2>2, <2>3
<1>14. CASE Insert(c)
  <2>1. k.pc = "insert" /\ bindings' = bindings /\ k1.pc = "reload" /\ k1.old = k.old
    BY <1>1, <1>14, CallEffects DEF Insert, ClusterSame
  <2>2. ~k.old.live /\ ~AtWork(c)
    BY <1>3, <2>1 DEF HandIsRow, AtWork
  <2>3. \A i \in DOMAIN rows : ~rows[i].live
    BY <1>2, <2>1 DEF IInv, NoOverlap, CountHolds
  <2>4. Table = {}
    BY <2>3, TableOfNone DEF Table
  <2>5. Wanted(k1.old) = {}
    BY <1>7, <2>1, <2>2
  <2>6. AtWork(c)'
    BY <2>1 DEF AtWork
  <2> QED
    BY <1>6, <1>8, <2>1, <2>2, <2>4, <2>5, <2>6
<1>15. CASE Save(c)
  <2>1. k.pc = "save" /\ bindings' = bindings /\ k1.pc = "reload" /\ k1.old = k.old
    BY <1>1, <1>15, CallEffects DEF Save, ClusterSame
  <2>2. k.id \in DOMAIN rows /\ rows[k.id].live /\ ~AtWork(c)
    BY <1>2, <1>3, <2>1 DEF IInv, NoOverlap, LoadHolds, InHand, AtWork
  <2>3. k.old = rows[k.id]
    BY <1>2, <1>3, <2>1, <2>2 DEF HandIsRow
  <2>4. Table = Wanted(rows[k.id])
    BY <1>4, <2>2, TableOfLive DEF Table
  <2>5. AtWork(c)'
    BY <2>1 DEF AtWork
  <2> QED
    BY <1>6, <1>8, <2>1, <2>2, <2>3, <2>4, <2>5
<1>16. CASE Reload(c)
  <2>1. k.pc = "reload" /\ bindings' = bindings /\ k1.pc = "task" /\ k1.old = k.old
    BY <1>1, <1>16, CallEffects DEF Reload, ClusterSame
  <2>2. AtWork(c) /\ AtWork(c)' /\ Halfway(c) = Wanted(k.old)
    BY <2>1 DEF AtWork, Halfway
  <2> QED
    BY <1>6, <1>8, <2>1, <2>2
<1>17. CASE Remove(c)
  <2>1. k.pc = "remove" /\ bindings' = bindings /\ ~AtWork(c)
    BY <1>17 DEF Remove, ClusterSame, AtWork
  <2>2. CASE k1.pc = "done"
    BY <1>2, <1>3, <1>6, <1>9, <1>17, <2>1, <2>2, RemoveNothing
  <2>3. CASE rows[k.id].live /\ k1.pc = "task" /\ k1.old = k.old
    <3>1. k.id \in DOMAIN rows /\ k.old = rows[k.id]
      BY <1>2, <1>3, <2>1, <2>3 DEF InHand, HandIsRow
    <3>2. Table = Wanted(k.old)
      BY <1>4, <2>3, <3>1, TableOfLive DEF Table
    <3>3. AtWork(c)'
      BY <2>3 DEF AtWork
    <3> QED
      BY <1>6, <1>8, <2>1, <2>3, <3>2, <3>3
  <2> QED
    BY <1>1, <1>17, <2>2, <2>3, CallEffects
<1>18. CASE Connect(c)
  <2>1. k.pc = "task" /\ bindings' = bindings /\ k1.old = k.old
        /\ \/ k.old.live /\ k1.pc = "cleanup" /\ k1.left = {Everywhere} \cup k.old.scope
           \/ ~k.old.live /\ k1.pc = "ensure"
    BY <1>1, <1>18, CallEffects DEF Connect, ClusterSame
  <2>2. AtWork(c) /\ AtWork(c)' /\ Halfway(c) = Wanted(k.old)
    BY <2>1 DEF AtWork, Halfway
  <2>3. \A b \in Wanted(k.old) : b.place \in k.old.scope
    BY DEF Wanted
  <2> QED
    BY <1>6, <1>7, <1>8, <2>1, <2>2, <2>3
<1>19. CASE EnsureAccount(c)
  <2>1. k.pc = "ensure" /\ bindings' = bindings /\ rows' = rows
    BY <1>19 DEF EnsureAccount, TableSame
  <2>2. AtWork(c) /\ Halfway(c) = {} /\ bindings = {} /\ Table = Wanted(k.new)
    BY <1>3, <1>6, <2>1 DEF AtWork, Halfway, HandIsRow
  <2>3. CASE k1.pc = "bind" /\ k1.new = k.new /\ k1.left = k.new.scope
    <3>1. \A b \in Wanted(k.new) : b.place \in k.new.scope
      BY DEF Wanted
    <3>2. AtWork(c)'
      BY <2>3 DEF AtWork
    <3> QED
      BY <1>8, <2>1, <2>2, <2>3, <3>1, <3>2
  <2>4. CASE ~NeedsAccount(k.new) /\ k1.pc = "done"
    <3>1. Wanted(k.new) = {}
      BY <2>4 DEF Wanted
    <3> QED
      BY <1>9, <1>11, <2>1, <2>2, <2>4, <3>1
  <2> QED
    BY <1>1, <1>19, <2>3, <2>4, CallEffects
<1>20. ASSUME NEW p \in Places, Unbind(c, p)
       PROVE (~AtWork(c)' => bindings' = Table') /\ (AtWork(c)' => bindings' = Halfway(c)')
  <2>1. /\ k.pc = "cleanup" /\ rows' = rows
        /\ bindings' = {b \in bindings : ~(b.type = k.old.type /\ b.place = p)}
    BY <1>20 DEF Unbind, NextToClean, TableSame, SameObject
  <2>2. /\ bindings = {b \in Wanted(k.old) : b.place \in k.left}
        /\ Table = Wanted(k.new)
    BY <1>3, <1>6, <2>1 DEF AtWork, Halfway, HandIsRow
  <2>3. \A b \in Wanted(k.old) : b.type = k.old.type
    BY DEF Wanted
  <2>4. bindings' = {b \in Wanted(k.old) : b.place \in k.left \ {p}}
    BY <2>1, <2>2, <2>3
  <2>5. IF k.left \ {p} = {} /\ ~k.new.live THEN k1.pc = "done"
        ELSE /\ k1.new = k.new /\ k1.old = k.old /\ k1.left = k.left \ {p}
             /\ k1.pc = IF k.left \ {p} # {} THEN "cleanup" ELSE "ensure"
    BY <1>1, <1>20, CallEffects
  <2>6. CASE k.left \ {p} # {}
    BY <1>8, <2>4, <2>5, <2>6 DEF AtWork
  <2>7. CASE k.left \ {p} = {}
    <3>1. bindings' = {}
      BY <2>4, <2>7
    <3>2. ~k.new.live => Table' = {}
      BY <1>7, <1>11, <2>1, <2>2
    <3> QED
      BY <1>8, <2>5, <2>7, <3>1, <3>2 DEF AtWork
  <2> QED
    BY <2>6, <2>7
<1>21. ASSUME NEW p \in Places, Bind(c, p)
       PROVE (~AtWork(c)' => bindings' = Table') /\ (AtWork(c)' => bindings' = Halfway(c)')
  <2> DEFINE new == [type |-> k.new.type, place |-> p, role |-> RoleOf(k.new)]
  <2>1. k.pc = "bind" /\ rows' = rows /\ p \in k.left /\ bindings' = bindings \cup {new}
    BY <1>21 DEF Bind, TableSame
  <2>2. /\ bindings = {b \in Wanted(k.new) : b.place \notin k.left}
        /\ Table = Wanted(k.new)
    BY <1>3, <1>6, <2>1 DEF AtWork, Halfway, HandIsRow
  <2>3. k.left \subseteq k.new.scope /\ k.new.live /\ NeedsAccount(k.new)
    BY <1>3, <2>1 DEF InHand
  <2>4. new \in Wanted(k.new) /\ \A b \in Wanted(k.new) : b.place = p => b = new
    BY <2>1, <2>3 DEF Wanted
  <2> HIDE DEF new
  <2>5. new.place = p
    BY DEF new
  <2>6. bindings' = {b \in Wanted(k.new) : b.place \notin k.left \ {p}}
    BY <2>1, <2>2, <2>4, <2>5
  <2>7. IF k.left \ {p} = {} THEN k1.pc = "done"
        ELSE k1.pc = "bind" /\ k1.new = k.new /\ k1.left = k.left \ {p}
    BY <1>1, <1>21, CallEffects
  <2>8. CASE k.left \ {p} = {}
    BY <1>9, <1>11, <2>1, <2>2, <2>6, <2>7, <2>8
  <2>9. CASE k.left \ {p} # {}
    BY <1>8, <2>6, <2>7, <2>9 DEF AtWork
  <2> QED
    BY <2>8, <2>9
<1>22. ~TaskFails(c) /\ \A p \in Places : ~UnbindFails(c, p)
  BY DEF TaskFails, GiveUp, UnbindFails
<1> QED
  BY <1>12, <1>13, <1>14, <1>15, <1>16, <1>17, <1>18, <1>19, <1>20, <1>21, <1>22 DEF NextCall

(* No binding of a row that is live goes missing, whatever has failed and  *)
(* whatever a batch deletion has left.                                     *)
LEMMA NextNoneMissing ==
  ASSUME IInv, IInv', HandsAreRows, HandsAreRows', NoneMissing, NEW c \in Calls, NextCall(c)
  PROVE  NoneMissing'
<1> DEFINE k  == call[c]
           k1 == call'[c]
           Held    == Table \subseteq bindings /\ (Table # {} => account = "present")
           Bound   == k1.pc = "bind" =>
                        /\ account' = "present"
                        /\ {b \in Wanted(k1.new) : b.place \notin k1.left} \subseteq bindings'
<1> SUFFICES ASSUME Alone'
             PROVE  /\ (Settled /\ ~behind => Held)'
                    /\ \A d \in Calls : (call[d].pc = "bind" =>
                         account = "present" /\ Halfway(d) \subseteq bindings)'
  BY DEF NoneMissing
<1>1. /\ TypeOK /\ call \in [Calls -> Call] /\ rows \in Seq(Row) /\ k \in Call
      /\ \A i \in DOMAIN rows : rows[i] \in Row
  BY DEF IInv, TypeOK
<1>2. /\ Alone /\ marred \subseteq marred'
      /\ \A d \in Calls : d # c => call'[d] = call[d] /\ call[d].pc \in {"idle", "done"}
  BY OthersRest DEF IInv, Alone
<1>3. HandIsRow(c) /\ HandIsRow(c)' /\ InHand(c)
  BY <1>2 DEF HandsAreRows, IInv, CallsInHand
<1>4. (Settled <=> ~AtWork(c)) /\ (Settled' <=> ~AtWork(c)')
  BY <1>2 DEF Settled, AtWork
<1>5. (~AtWork(c) /\ ~behind => Held) /\ (k.pc = "bind" =>
        account = "present" /\ {b \in Wanted(k.new) : b.place \notin k.left} \subseteq bindings)
  BY <1>2, <1>4 DEF NoneMissing, Halfway
<1>6. k1.pc = "bind" => Halfway(c)' = {b \in Wanted(k1.new) : b.place \notin k1.left}
  BY DEF Halfway, Wanted, NeedsAccount, RoleOf
<1> SUFFICES (~AtWork(c)' /\ ~behind' => Held') /\ Bound
  BY <1>2, <1>4, <1>6
<1>7. rows' = rows => Table' = Table
  BY TableAfter DEF Table
<1>8. k1.pc \in {"reload", "task", "cleanup", "ensure"} => AtWork(c)'
  BY DEF AtWork
<1>9. CASE \/ \E t \in Types, s \in Asks, r \in CustomRoles \cup {NoRole} :
                CreateCount(c, t, s, r) \/ CreateMiscount(c, t, s, r) \/ UpdateLoad(c, t, s, r)
           \/ \E i \in DOMAIN rows :
                UpdateRead(c, i) \/ DeleteRead(c, i) \/ \E l \in {"load", "remove"} : Unread(c, i, l)
           \/ StatementFails(c)
  BY <1>5, <1>9, StillSettled DEF AtWork
<1>10. ASSUME NEW ids \in SUBSET DOMAIN rows, BatchDelete(c, ids)
       PROVE (~AtWork(c)' /\ ~behind' => Held') /\ Bound
  <2>1. ~AtWork(c) /\ UNCHANGED <<bindings, account, behind>>
    BY <1>10 DEF BatchDelete, Arrives, AtWork, ClusterSame
  <2>2. Table' \subseteq Table /\ k1.pc = "done"
    BY <1>1, <1>10, BatchTable, CallEffects
  <2> QED
    BY <1>5, <2>1, <2>2
<1>11. CASE Insert(c) \/ Save(c) \/ Reload(c) \/ Connect(c)
  <2>1. k1.pc \in {"reload", "task", "cleanup", "ensure"}
    BY <1>1, <1>11, CallEffects
  <2> QED
    BY <1>8, <2>1
<1>12. CASE Remove(c)
  <2>1. ~AtWork(c) /\ UNCHANGED <<bindings, account, behind>>
    BY <1>12 DEF Remove, ClusterSame, AtWork
  <2>2. Table' \subseteq Table /\ k1.pc \in {"task", "done"}
    BY <1>1, <1>12, RemoveLess, CallEffects
  <2> QED
    BY <1>5, <2>1, <2>2
<1>13. CASE EnsureAccount(c)
  <2>1. k.pc = "ensure" /\ bindings' = bindings /\ rows' = rows
        /\ (NeedsAccount(k.new) => account' = "present")
    BY <1>13 DEF EnsureAccount, TableSame
  <2>2. Table' = Wanted(k.new)
    BY <1>3, <1>7, <2>1 DEF AtWork, HandIsRow
  <2>3. CASE NeedsAccount(k.new) /\ k1.pc = "bind" /\ k1.new = k.new /\ k1.left = k.new.scope
    <3>1. \A b \in Wanted(k.new) : b.place \in k.new.scope
      BY DEF Wanted
    <3>2. AtWork(c)'
      BY <2>3 DEF AtWork
    <3> QED
      BY <2>1, <2>3, <3>1, <3>2
  <2>4. CASE ~NeedsAccount(k.new) /\ k1.pc = "done"
    <3>1. Table' = {}
      BY <2>2, <2>4 DEF Wanted
    <3> QED
      BY <2>4, <3>1
  <2> QED
    BY <1>1, <1>13, <2>3, <2>4, CallEffects
<1>14. ASSUME NEW p \in Places, Unbind(c, p) \/ UnbindFails(c, p)
       PROVE (~AtWork(c)' /\ ~behind' => Held') /\ Bound
  <2>1. k.pc = "cleanup" /\ rows' = rows
    BY <1>14 DEF Unbind, UnbindFails, NextToClean, TableSame
  <2>2. Table' = Wanted(k.new)
    BY <1>3, <1>7, <2>1 DEF AtWork, HandIsRow
  <2>3. k1.pc \in {"cleanup", "ensure"} \/ (k1.pc = "done" /\ ~k.new.live)
    BY <1>1, <1>14, CallEffects
  <2>4. ~k.new.live => Table' = {}
    BY <2>2 DEF Wanted
  <2> QED
    BY <1>8, <2>3, <2>4
<1>15. ASSUME NEW p \in Places, Bind(c, p)
       PROVE (~AtWork(c)' /\ ~behind' => Held') /\ Bound
  <2> DEFINE new == [type |-> k.new.type, place |-> p, role |-> RoleOf(k.new)]
  <2>1. k.pc = "bind" /\ rows' = rows /\ bindings' = bindings \cup {new} /\ account' = account
    BY <1>15 DEF Bind, TableSame
  <2>2. Table' = Wanted(k.new)
    BY <1>3, <1>7, <2>1 DEF AtWork, HandIsRow
  <2>3. \A b \in Wanted(k.new) : b.place = p => b = new
    BY DEF Wanted
  <2> HIDE DEF new
  <2>4. {b \in Wanted(k.new) : b.place \notin k.left \ {p}} \subseteq bindings'
    BY <1>5, <2>1, <2>3
  <2>5. IF k.left \ {p} = {} THEN k1.pc = "done"
        ELSE k1.pc = "bind" /\ k1.new = k.new /\ k1.left = k.left \ {p}
    BY <1>1, <1>15, CallEffects
  <2>6. CASE k.left \ {p} = {}
    BY <1>5, <2>1, <2>2, <2>4, <2>5, <2>6
  <2>7. CASE k.left \ {p} # {}
    BY <1>5, <2>1, <2>4, <2>5, <2>7 DEF AtWork
  <2> QED
    BY <2>6, <2>7
<1>16. CASE TaskFails(c)
  <2>1. k1.pc = "done" /\ AtWork(c) /\ UNCHANGED <<bindings, account, rows>>
    BY <1>1, <1>16, CallEffects DEF TaskFails, GiveUp, ClusterSame, TableSame, AtWork
  <2>2. Table' = Wanted(k.new)
    BY <1>3, <1>7, <2>1 DEF HandIsRow
  <2>3. CASE k.new.live
    BY <1>16, <2>1, <2>3 DEF TaskFails, GiveUp
  <2>4. CASE ~k.new.live
    BY <2>1, <2>2, <2>4 DEF Wanted
  <2> QED
    BY <2>3, <2>4
<1> QED
  BY <1>9, <1>10, <1>11, <1>12, <1>13, <1>14, <1>15, <1>16 DEF NextCall

(* Kept is inductive beside IInv.                                          *)
LEMMA NextKept == IInv /\ IInv' /\ Kept /\ [Next]_vars => Kept'
<1> SUFFICES ASSUME IInv, IInv', Kept, [Next]_vars PROVE Kept'
  OBVIOUS
<1>1. CASE UNCHANGED vars
  <2>1. Table' = Table
    BY <1>1, TableAfter DEF Table, vars
  <2>2. HandsAreRows'
    BY <1>1, <2>1 DEF Kept, vars, HandsAreRows, HandIsRow, AtWork, Wanted, NeedsAccount, RoleOf,
                      Alone
  <2>3. (Settled' <=> Settled) /\ \A c \in Calls : Halfway(c)' = Halfway(c)
    BY <1>1 DEF vars, Settled, AtWork, Halfway, Wanted, NeedsAccount, RoleOf
  <2>4. BindingsFollow' /\ NoneMissing'
    BY <1>1, <2>1, <2>3 DEF Kept, vars, BindingsFollow, NoneMissing, AtWork, Alone
  <2> QED
    BY <2>2, <2>4 DEF Kept
<1>2. ASSUME NEW c \in Calls, NextCall(c) PROVE Kept'
  <2>1. HandsAreRows /\ BindingsFollow /\ NoneMissing
    BY DEF Kept
  <2>2. HandsAreRows'
    BY <1>2, <2>1, NextHandsAreRows
  <2> QED
    BY <1>2, <2>1, <2>2, NextBindingsFollow, NextNoneMissing DEF Kept
<1> QED
  BY <1>1, <1>2 DEF Next

(* Kept holds in every reachable state.                                    *)
THEOREM KeptHolds == Spec => []Kept
BY InitKept, NextKept, InductiveInvariant, PTL DEF Spec

(* When administrators wait for one another, no read or write fails and no *)
(* batch deletion has been made, the goroutines of handlers/permission.go  *)
(* leave the cluster with exactly the bindings the table calls for.        *)
THEOREM BindingsFollowRows == Spec => []BindingsMatchRows
<1>1. Quiet => Settled
  BY DEF Quiet, Settled, Active, AtWork
<1>2. Kept => BindingsMatchRows
  BY <1>1 DEF Kept, BindingsFollow, BindingsMatchRows, Table
<1> QED
  BY <1>2, KeptHolds, PTL

(* A live permission with an account of its own finds the account there    *)
(* and bound in every place to the role its type stands for, once the      *)
(* goroutine of its last write is through, whatever failed or was batched  *)
(* before.                                                                 *)
THEOREM GrantedAccountsWork == Spec => []GrantedAccountWorks
<1>1. ASSUME TypeOK, Kept, Quiet, Alone, ~behind,
             NEW i \in LiveIds, EffectiveAccount(rows[i]) = "user", ~LeftOver(rows[i])
      PROVE  /\ account = "present"
             /\ \A p \in rows[i].scope :
                  \E b \in bindings : SameObject(b, rows[i].type, p) /\ b.role = Granted(rows[i])
  <2> DEFINE r == rows[i]
  <2>1. i \in DOMAIN rows /\ r \in Row /\ r.live
    BY <1>1 DEF TypeOK, LiveIds
  <2>2. NeedsAccount(r)
    BY <1>1, <2>1 DEF EffectiveAccount, NeedsAccount, Row, AllTypes
  <2>3. Settled
    BY <1>1 DEF Quiet, Settled, Active, AtWork
  <2>4. Table \subseteq bindings /\ (Table # {} => account = "present")
    BY <1>1, <2>3 DEF Kept, NoneMissing
  <2>5. \A p \in r.scope : [type |-> r.type, place |-> p, role |-> RoleOf(r)] \in Wanted(r)
    BY <2>1, <2>2 DEF Wanted
  <2>6. Wanted(r) \subseteq Table
    BY <2>1 DEF Table
  <2>7. r.scope # {}
    BY <2>1 DEF Row, Scopes
  <2>8. r.type = "custom" => r.role # NoRole
    BY <2>1 DEF Row
  <2>9. RoleOf(r) = Granted(r)
    BY <1>1, <2>8 DEF RoleOf, Granted, LeftOver
  <2>10. \A p \in r.scope : \E b \in bindings : SameObject(b, r.type, p) /\ b.role = Granted(r)
    <3> SUFFICES ASSUME NEW p \in r.scope
                 PROVE  \E b \in bindings : SameObject(b, r.type, p) /\ b.role = Granted(r)
      OBVIOUS
    <3>1. [type |-> r.type, place |-> p, role |-> RoleOf(r)] \in bindings
      BY <2>4, <2>5, <2>6
    <3> QED
      BY <2>9, <3>1 DEF SameObject
  <2> QED
    BY <2>4, <2>5, <2>6, <2>7, <2>10
<1>2. TypeOK /\ Kept => GrantedAccountWorks
  BY <1>1 DEF GrantedAccountWorks
<1> QED
  BY <1>2, TypeCorrect, KeptHolds, PTL

(* Only an overlapping update brings a deleted permission back.            *)
THEOREM DeletionsLast == Spec => DeletedStaysDeleted
<1>1. ASSUME IInv, [Next]_vars, "overlap" \notin marred, NEW i \in DOMAIN rows,
             ~rows[i].live, rows'[i].live
      PROVE  FALSE
  <2>1. rows \in Seq(Row)
    BY <1>1 DEF IInv, TypeOK
  <2>2. PICK c \in Calls : NextCall(c)
    BY <1>1 DEF Next, vars
  <2>3. CASE Save(c)
    BY <1>1, <2>1, <2>3 DEF Save, IInv, NoOverlap, LoadHolds
  <2>4. CASE Insert(c)
    <3>1. call[c].new \in Row
      BY <1>1 DEF IInv, TypeOK, Call
    <3> QED
      BY <1>1, <2>1, <2>4, <3>1 DEF Insert
  <2>5. CASE Remove(c)
    BY <1>1, <2>1, <2>5 DEF Remove, Row
  <2>6. ASSUME NEW ids \in SUBSET DOMAIN rows, BatchDelete(c, ids) PROVE FALSE
    BY <1>1, <2>1, <2>6 DEF BatchDelete, Row
  <2>7. CASE rows' = rows
    BY <1>1, <2>7
  <2> QED
    BY <2>2, <2>3, <2>4, <2>5, <2>6, <2>7
       DEF NextCall, CreateCount, CreateMiscount, ToInsert, UpdateLoad, UpdateRead, DeleteRead,
           Unread, StatementFails, Reload, Connect, EnsureAccount,
           TaskFails, GiveUp, Unbind, UnbindFails, Bind, TableSame
<1>2. IInv /\ [Next]_vars
      => [\A i \in DOMAIN rows : ~rows[i].live /\ rows'[i].live => "overlap" \in marred]_vars
  BY <1>1
<1> QED
  BY <1>2, InductiveInvariant, PTL DEF Spec, DeletedStaysDeleted

=============================================================================
