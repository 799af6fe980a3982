------------------------------ MODULE Affinity ------------------------------
(***************************************************************************)
(* Scheduling rules between a workload's YAML and the rows of the form     *)
(* (ui/src/services/yamlCommonService.ts, parseAffinityToScheduling,       *)
(* buildSchedulingFromForm, buildSchedulingSpec).                          *)
(*                                                                         *)
(* An expression is a key, an operator and a set of values.  A node term   *)
(* has expressions over labels and over fields; a Pod term has a topology  *)
(* key, expressions, exact labels and the namespaces it looks in.  What    *)
(* does not depend on order is a set.                                      *)
(*                                                                         *)
(* The affinity of a YAML document is a function from some of the names in *)
(* Rules to sets of terms, the form's `scheduling` one from the same names *)
(* to sets of rows.  A row has one expression; its values are one text,    *)
(* "a, b", which is represented by the set of what stands between commas   *)
(* (label values have no commas in them).                                  *)
(***************************************************************************)
EXTENDS FiniteSets, Naturals

CONSTANTS Blank,   \* the empty string, which is a legal label value
          Absent,  \* the label of an object that does not have it
          Greater  \* the pairs of values <<v, w>> that are numbers, v above w

ASSUME BlankIsAValue == Blank # Absent /\ Greater = {p \in Greater : p = <<p[1], p[2]>>}

NodeRules == {"nodeAffinityRequired", "nodeAffinityPreferred"}
PodRules == {"podAffinityRequired", "podAffinityPreferred",
             "podAntiAffinityRequired", "podAntiAffinityPreferred"}
Rules == NodeRules \cup PodRules
Weighted == {"nodeAffinityPreferred", "podAffinityPreferred",
             "podAntiAffinityPreferred"}

(* parseCommaString: pieces are trimmed and empty ones left out.           *)
parseCommaString(text) == text \ {Blank}

(* The exact labels of a selector are read as expressions with In.         *)
Expressions(term) ==
    term.expressions \cup
    {[key |-> k, operator |-> "In", values |-> {term.labels[k]}] :
        k \in DOMAIN term.labels}

(* The rows of a rule's terms.  Rows do not say which term they come from. *)
NodeRows(terms) == UNION {term.expressions : term \in terms}
PreferredRows(terms) ==
    UNION {{[weight |-> t.weight, expression |-> e] :
               e \in t.preference.expressions} : t \in terms}
PodRows(terms) ==
    UNION {{[topologyKey |-> t.topologyKey, expression |-> e] :
               e \in Expressions(t)} : t \in terms}
WeightedPodRows(terms) ==
    UNION {{[weight |-> t.weight, topologyKey |-> t.term.topologyKey,
             expression |-> e] : e \in Expressions(t.term)} : t \in terms}

RowsOf(rule, terms) ==
    CASE rule = "nodeAffinityRequired" -> NodeRows(terms)
      [] rule = "nodeAffinityPreferred" -> PreferredRows(terms)
      [] rule \in PodRules \ Weighted -> PodRows(terms)
      [] rule \in PodRules \cap Weighted -> WeightedPodRows(terms)

(* Fields without an entry are not written, and without any field there is *)
(* no scheduling: the empty function stands for undefined.                 *)
NonEmpty(f) == {k \in DOMAIN f : f[k] # {}}
parseAffinityToScheduling(affinity) ==
    LET rows == [rule \in DOMAIN affinity |-> RowsOf(rule, affinity[rule])]
    IN [rule \in NonEmpty(rows) |-> rows[rule]]

(* Back again: all required rows of node affinity become one term, every   *)
(* other row a term of its own.                                            *)
Parsed(e) == [key |-> e.key, operator |-> e.operator,
              values |-> parseCommaString(e.values)]
NodeTerm(expressions) == [expressions |-> expressions, fields |-> {}]
PodTerm(row) ==
    [topologyKey |-> row.topologyKey, expressions |-> {Parsed(row.expression)},
     labels |-> [k \in {} |-> Blank], namespaces |-> {}]

(* Fault: a term per required row, so that the scheduler may choose one.   *)
NodeTermsApart(rows) == {NodeTerm({Parsed(e)}) : e \in rows}
NodeTerms(rows) == {NodeTerm({Parsed(e) : e \in rows})}
PreferredTerms(rows) ==
    {[weight |-> r.weight, preference |-> NodeTerm({Parsed(r.expression)})] :
        r \in rows}
PodTerms(rows) == {PodTerm(r) : r \in rows}
WeightedPodTerms(rows) ==
    {[weight |-> r.weight, term |-> PodTerm(r)] : r \in rows}

TermsOf(rule, rows) ==
    CASE rule = "nodeAffinityRequired" -> NodeTerms(rows)
      [] rule = "nodeAffinityPreferred" -> PreferredTerms(rows)
      [] rule \in PodRules \ Weighted -> PodTerms(rows)
      [] rule \in PodRules \cap Weighted -> WeightedPodTerms(rows)

buildScheduling(scheduling) ==
    [rule \in NonEmpty(scheduling) |-> TermsOf(rule, scheduling[rule])]

-----------------------------------------------------------------------------
(* What the rules mean to the scheduler (external).  An object (a node or  *)
(* a Pod) is a function from label keys to values or Absent.               *)

Matches(label, operator, values) ==
    CASE operator = "In" -> label \in values
      [] operator = "NotIn" -> label \notin values
      [] operator = "Exists" -> label # Absent
      [] operator = "DoesNotExist" -> label = Absent
      [] operator = "Gt" -> \E v \in values : values = {v} /\ <<label, v>> \in Greater
      [] operator = "Lt" -> \E v \in values : values = {v} /\ <<v, label>> \in Greater
Satisfies(object, e) == Matches(object[e.key], e.operator, e.values)

(* A node is acceptable if one term holds; a term without an expression    *)
(* holds for no node.                                                      *)
TermHolds(node, term) ==
    /\ term.expressions \cup term.fields # {}
    /\ \A e \in term.expressions \cup term.fields : Satisfies(node, e)
RulesAllow(node, affinity) ==
    "nodeAffinityRequired" \in DOMAIN affinity =>
        \E term \in affinity["nodeAffinityRequired"] : TermHolds(node, term)
NodeAllowed(node, selector, affinity) ==
    /\ \A key \in DOMAIN selector : node[key] = selector[key]
    /\ RulesAllow(node, affinity)

(* Affinity wants a Pod in the place that matches a whole term, for each   *)
(* term; anti-affinity forbids a place where a Pod does.                   *)
Selected(pod, term) == \A e \in Expressions(term) : Satisfies(pod, e)
AntiAllowed(pods, affinity) ==
    "podAntiAffinityRequired" \in DOMAIN affinity =>
        \A term \in affinity["podAntiAffinityRequired"] :
            \A pod \in pods[term.topologyKey] : ~Selected(pod, term)
NearAllowed(pods, affinity) ==
    "podAffinityRequired" \in DOMAIN affinity =>
        \A term \in affinity["podAffinityRequired"] :
            \E pod \in pods[term.topologyKey] : Selected(pod, term)

(* What the rows of the form can say: expressions over labels, without     *)
(* the empty value, in every term at least one; the Pod's own namespace.   *)
(* The expressions of a Pod term become terms of their own, so a term that *)
(* wants one Pod to satisfy two of them is not said by the rows.           *)
One(S) == \E x \in S : S = {x}
NoBlanks(expressions) == \A e \in expressions : Blank \notin e.values
PlainNodeRules(affinity) ==
    "nodeAffinityRequired" \in DOMAIN affinity =>
        LET terms == affinity["nodeAffinityRequired"]
        IN /\ \E t \in terms : t.expressions # {}
           /\ \A t \in terms : t.fields = {} /\ NoBlanks(t.expressions)
PlainAntiRules(affinity) ==
    "podAntiAffinityRequired" \in DOMAIN affinity =>
        \A t \in affinity["podAntiAffinityRequired"] :
            /\ t.namespaces = {} /\ NoBlanks(Expressions(t))
            /\ Expressions(t) # {}
PlainNearRules(affinity) ==
    "podAffinityRequired" \in DOMAIN affinity =>
        \A t \in affinity["podAffinityRequired"] :
            t.namespaces = {} /\ NoBlanks(Expressions(t)) /\ One(Expressions(t))
=============================================================================
