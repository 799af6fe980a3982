-------------------------- MODULE MCResourceEditor --------------------------
(* A small instance of ResourceEditor.                                     *)
EXTENDS ResourceEditor

CONSTANTS m1, m2, d1, d2, e1

(* One value reads as base64 of the other, which is no base64 at all.      *)
MCAsBase64 == [d \in {d1, d2} |-> IF d = d1 THEN d2 ELSE Bad]
(* One label and one value are, say, yes: they are read back as "true".    *)
MCReread == [v \in {m1, m2, d1, d2} |-> IF v \in {m1, m2} THEN m1 ELSE d1]
MCStarts == {[meta |-> m1, data |-> d1, extra |-> e1]}
MCRequested == {[meta |-> m2, data |-> d2]}
MCKinds == {ConfigMap, Secret, Service, DaemonSet}
MCSecret == {Secret}
=============================================================================
