-------------------------------- MODULE MCAccess --------------------------------
(***************************************************************************)
(* Access from five sets of permission rows, each with every set of        *)
(* memberships: a row of the user and one of a group on one cluster, two   *)
(* groups with different types, administrators on the other cluster, none. *)
(***************************************************************************)
EXTENDS Access, TLC

CONSTANTS g1, g2, c1, c2

MCRow(i, h, c, t) == [id |-> i, holder |-> h, cluster |-> c, type |-> t]
MCPerms == { {},
             {MCRow(1, User, c1, "custom"), MCRow(2, g1, c1, "admin")},
             {MCRow(1, g1, c1, "custom"), MCRow(2, g2, c1, "admin")},
             {MCRow(1, User, c2, "admin")},
             {MCRow(1, g1, c2, "admin"), MCRow(2, g2, c1, "custom")} }
SameCalls == Permutations(Calls)
MCStart == { [members |-> m, perms |-> p, next |-> 3] : m \in SUBSET Groups, p \in MCPerms }
================================================================================
