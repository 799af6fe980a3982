------------------------------- MODULE WatchSet -------------------------------
(***************************************************************************)
(* What ClusterInformerManager promises: a set of watches, at most one of  *)
(* them current for a cluster.  A watch is opened once, may be retired     *)
(* (callers no longer find it), is closed once after that, and is never    *)
(* opened again.  No watch is forgotten: one that is not current is closed *)
(* in the end, and closing the whole set leaves none open.                 *)
(***************************************************************************)
CONSTANTS Clusters, Watches, NoWatch

VARIABLES
  current,  (* the watch callers find for a cluster                        *)
  open,     (* watches that hold connections to an API server              *)
  spent,    (* watches that were open and are not                          *)
  halted    (* the process has ended, and its connections with it          *)

wvars == <<current, open, spent, halted>>

Init ==
  /\ current = [c \in Clusters |-> NoWatch]
  /\ open = {}
  /\ spent = {}
  /\ halted = FALSE

IsCurrent(w) == \E c \in Clusters : current[c] = w

Open(c, w) ==
  /\ ~halted
  /\ current[c] = NoWatch
  /\ w \notin open \cup spent
  /\ current' = [current EXCEPT ![c] = w]
  /\ open' = open \cup {w}
  /\ UNCHANGED <<spent, halted>>

Retire(c) ==
  /\ ~halted
  /\ current' = [current EXCEPT ![c] = NoWatch]
  /\ UNCHANGED <<open, spent, halted>>

Close(w) ==
  /\ ~halted
  /\ w \in open
  /\ ~IsCurrent(w)
  /\ open' = open \ {w}
  /\ spent' = spent \cup {w}
  /\ UNCHANGED <<current, halted>>

CloseAll ==
  /\ ~halted
  /\ current' = [c \in Clusters |-> NoWatch]
  /\ open' = {}
  /\ spent' = spent \cup open
  /\ UNCHANGED halted

Halt ==
  /\ halted' = TRUE
  /\ UNCHANGED <<current, open, spent>>

Next ==
  \/ \E c \in Clusters : Retire(c) \/ \E w \in Watches : Open(c, w)
  \/ \E w \in Watches : Close(w)
  \/ CloseAll
  \/ Halt

Spec     == Init /\ [][Next]_wvars
FairSpec == Spec /\ \A w \in Watches : WF_wvars(Close(w))
===============================================================================
