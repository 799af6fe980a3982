----------------------------- MODULE MCListPage -----------------------------
(* A small instance of ListPage: two clusters, and two rows that fill two pages. *)
EXTENDS ListPage, TLC

CONSTANTS c1, c2, r1, r2, t1

MCClusters == {c1, c2}
MCNames == {1, 2}
MCSystem == {1}
MCTerms == {[field |-> "name", hits |-> {1}], [field |-> "status", hits |-> {2}]}
MCRequests == {r1, r2}
MCTasks == {t1}

Alike == Permutations(MCClusters) \cup Permutations(MCRequests)
=============================================================================
