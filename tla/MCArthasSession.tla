---------------------------- MODULE MCArthasSession ----------------------------
(***************************************************************************)
(* A small instance: one low-risk command, two that need an answer, and    *)
(* the plan shapes that make answers cross: unnamed commands, the same     *)
(* text twice, two commands under one id, and a command without text.      *)
(***************************************************************************)
EXTENDS ArthasSession

CONSTANTS jvm, ognl, gc, blank

Named(id, c) == [id |-> id, cmd |-> c]

SmallPlans ==
  { <<>>,
    <<Named(0, jvm), Named(0, ognl)>>,
    <<Named(0, jvm), Named(0, jvm), Named(0, gc)>>,
    <<Named(0, gc), Named(0, gc)>>,
    <<Named(1, gc), Named(1, ognl)>>,
    <<Named(0, blank)>> }

(* Plans in which every command has its own id and text.                   *)
NamedPlans ==
  { <<Named(0, jvm), Named(0, ognl)>>,
    <<Named(0, jvm), Named(0, gc)>>,
    <<Named(0, gc), Named(0, ognl)>> }
================================================================================
