--------------------------- MODULE MCInformerManager ---------------------------
(***************************************************************************)
(* InformerManager on a small instance: three calls on one cluster.  One of*)
(* them is a deletion, as without one the runtime of a cluster never       *)
(* changes; the others read in each way there is, or delete again.         *)
(***************************************************************************)
EXTENDS InformerManager

Plans == {<<"overview", "overview", "delete">>, <<"overview", "list", "delete">>,
          <<"overview", "delete", "delete">>, <<"list", "delete", "delete">>,
          <<"client", "delete", "delete">>}

MCInit == Init /\ op \in Plans
MCSpec == MCInit /\ [][Next]_vars /\ Fairness
================================================================================
